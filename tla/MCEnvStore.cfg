SPECIFICATION Spec
CONSTANTS
  serial = serial
  var = var
  x = x
  y = y
  unset = unset
  none = none
  padding = padding
  Names <- MCNames
  Values <- MCValues
  Unset = unset
  WriteOnce <- MCWriteOnce
  Capacity = 1
  Default <- MCDefault
  None = none
  Long <- MCLong
  Padding = padding
  Pieces = 2
  Schemes = {"none", "boolean", "incremental"}
  FirstFlags = {1, 252}
  Faults = {"erase", "write"}
  MaxSaves = 3
INVARIANTS
  TypeOK
  SomeCopyValid
  CrashSafe
  ReadersAgree
PROPERTY
  WriteOnceKept

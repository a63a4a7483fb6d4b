SPECIFICATION Spec
CONSTANTS
  serial = serial
  var = var
  x = x
  y = y
  unset = unset
  none = none
  padding = padding
  Names <- MCNames
  Values <- MCValues
  Unset = unset
  WriteOnce <- MCWriteOnce
  Capacity = 1
  Default <- MCDefault
  None = none
  Long <- MCLong
  Padding = padding
  Pieces = 2
  Schemes = {"incremental"}
  FirstFlags = {254}
  Faults = {}
  MaxSaves = 2
INVARIANT
  ReadersAgree

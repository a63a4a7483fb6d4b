\* The mask port, errors, resubmission within callbacks and DeInit at any time.
CONSTANTS
  InBuffers = {i1}
  OutBuffers = {o1}
  PpBuffers = {p1}
  None = None
  Requests <- RareRequests
  MaxCommands = 3
  MaxUnits = 1
  MaxFrames = 1
  SubmitStates = {"Executing", "Pause"}
  Orderly = FALSE
  Careful = FALSE
  Reentrant = TRUE
  Deinits = TRUE
  Faults = {"read", "write"}
SPECIFICATION Spec
CHECK_DEADLOCK FALSE
INVARIANTS BuffersInUse LoadedMeansReleased

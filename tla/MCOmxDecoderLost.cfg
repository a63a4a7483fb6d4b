\* A client that resubmits buffers from within the callback.
CONSTANTS
  InBuffers = {i1}
  OutBuffers = {o1}
  PpBuffers = {}
  None = None
  Requests <- ReconfigureRequests
  MaxCommands = 3
  MaxUnits = 1
  MaxFrames = 1
  SubmitStates = {"Executing", "Pause"}
  Orderly = TRUE
  Careful = FALSE
  Reentrant = TRUE
  Deinits = FALSE
  Faults = {}
SPECIFICATION Spec
CHECK_DEADLOCK FALSE
INVARIANT NoBufferIsLost

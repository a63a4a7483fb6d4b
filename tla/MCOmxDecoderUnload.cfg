\* A client that submits buffers while commands are executed.
CONSTANTS
  InBuffers = {i1}
  OutBuffers = {o1}
  PpBuffers = {}
  None = None
  Requests <- ReconfigureRequests
  MaxCommands = 4
  MaxUnits = 1
  MaxFrames = 1
  SubmitStates = {"Executing", "Pause"}
  Orderly = TRUE
  Careful = FALSE
  Reentrant = FALSE
  Deinits = FALSE
  Faults = {}
SPECIFICATION Spec
CHECK_DEADLOCK FALSE
INVARIANT QueuesEmptyOnUnload

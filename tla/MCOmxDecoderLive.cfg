\* A client that awaits answers; it need not send more commands, so the system may rest.
CONSTANTS
  InBuffers = {i1}
  OutBuffers = {o1, o2}
  PpBuffers = {}
  None = None
  Requests <- ReconfigureRequests
  MaxCommands = 4
  MaxUnits = 1
  MaxFrames = 1
  SubmitStates = {"Executing", "Pause"}
  Orderly = TRUE
  Careful = TRUE
  Reentrant = FALSE
  Deinits = TRUE
  Faults = {"select"}
SPECIFICATION FairSpec
CHECK_DEADLOCK FALSE
INVARIANT QueuesEmptyOnUnload
PROPERTIES CommandsAreAnswered InputIsReturned AnswerMeansReturned DeinitReturns

\* Two careless client threads; the component waits for events when nothing is left to do.
CONSTANTS
  InBuffers = {i1}
  OutBuffers = {o1, o2}
  PpBuffers = {}
  None = None
  Requests <- AllRequests
  MaxCommands = 3
  MaxUnits = 1
  MaxFrames = 1
  SubmitStates = {"Executing", "Pause"}
  Orderly = FALSE
  Careful = FALSE
  Reentrant = FALSE
  Deinits = FALSE
  Faults = {"read", "write", "malloc"}
SPECIFICATION Spec
CHECK_DEADLOCK FALSE
INVARIANTS TypeOK OneOwner BuffersInUse TransitionTracked FlushTracked LoadedMeansReleased

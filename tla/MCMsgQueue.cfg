\* Two producers, malloc reusing three addresses, pipe operations that may fail.
CONSTANTS
  n1 = n1 n2 = n2 n3 = n3
  Nodes = {n1, n2, n3}
  Owner = owner
  Producers = {owner, other}
  Consumer = component
  Null = Null
  Exit = Exit
  MaxSend = 2
  FaultyPipe = TRUE
SPECIFICATION FairSpec
\* The component may be destroyed, or idle for ever.
CHECK_DEADLOCK FALSE
INVARIANTS TypeOK ListInv EventTellsSize
PROPERTIES ImplementsFifo AcceptedIsReceived 

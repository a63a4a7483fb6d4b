\* One producer is enough to break the assertion of get_front.
CONSTANTS
  n1 = n1 n2 = n2 n3 = n3
  Nodes = {n1, n2, n3}
  Owner = owner
  Producers = {owner}
  Consumer = component
  Null = Null
  Exit = Exit
  MaxSend = 2
  FaultyPipe = FALSE
SPECIFICATION Spec
\* The component may be destroyed, or idle for ever.
CHECK_DEADLOCK FALSE
INVARIANT HeadNextIsNull

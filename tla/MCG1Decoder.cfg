\* Two instances share the hardware and three chunks of memory.
CONSTANTS
  d1 = d1
  d2 = d2
  Files <- MCFiles
  N = 3
  MaxGrants = 2
  Combiners = {d1}
  Slips = {"died", "eos"}
SPECIFICATION FairSpec
\* The semaphores of a process that died are never posted.
CHECK_DEADLOCK FALSE
INVARIANTS TypeOK HwLocked DmaSafe
PROPERTY CallsReturn
CONSTRAINTS SlipBound ChunkBound

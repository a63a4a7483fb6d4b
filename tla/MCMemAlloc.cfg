\* Two files contend for five chunks; opens and releases race with calls.
CONSTANTS
  f1 = f1
  f2 = f2
  Files <- MCFiles
  N = 5
  MaxOpen = 2
  Wants = {1, 2}
  SizeTable <- MCSizeTable
  Methods = {"static", "dynamic"}
  Foreign = {{}, {1}}
SPECIFICATION FairMemSpec
\* AllocMemory never waits; a released file can be opened again.
INVARIANTS MemTypeOK GrantsDisjoint
PROPERTIES CallEnds ImplementsLinear

CONSTANTS
  Threads = {t1, t2}
  Handles = {h1, h2}
  AutoArenas = 1
  JEMALLOC_LIMIT = 3
  ARENA_INDEX_LIMIT = 3
  Tables = {default, broken}
  NoAlloc = {broken}
  DefaultTable = default
  MaxId = 2
SPECIFICATION Spec
INVARIANTS
  OwnersAreExclusive
  NoArenaLost
  NothingInDeadArenas
PROPERTIES
  ImplementsOwnedResource
SYMMETRY Symmetry

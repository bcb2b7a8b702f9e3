CONSTANTS
  Threads = {t1, t2}
  Handles = {h1, h2, h3}
  JEMALLOC_LIMIT = 2
  TCACHE_INDEX_LIMIT = 2
  MaxId = 4
  NoThread = NoThread
SPECIFICATION Spec
INVARIANTS
  LifecycleAvailable
  NoCacheLost
  NoMemoryStranded
PROPERTY ImplementsOwnedResource
SYMMETRY Symmetry
CHECK_DEADLOCK FALSE

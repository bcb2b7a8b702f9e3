CONSTANTS
  ARENA_INDEX_LIMIT = 4095
  TCACHE_INDEX_LIMIT = 4094
  Aligns = {4, 63}
  Tcaches = {0, 2046, 4093, 4094}
  UsedArenas <- AllArenas
SPECIFICATION Spec
INVARIANTS
  JemallocReadsWhatWasAsked
CHECK_DEADLOCK FALSE

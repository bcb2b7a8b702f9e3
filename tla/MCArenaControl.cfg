CONSTANTS
  Threads = {t1, t2}
  NArenas = 2
  ARENA_INDEX_LIMIT = 3
  ALL_ARENAS = 4
  Decays <- MCDecays
  InitialDecay = 10
  MaxOperations = 1
SPECIFICATION ReclaimSpec
INVARIANTS
  TrimReclaims
  PreviousWasInForce
PROPERTY OnlyWhatWasMeant
SYMMETRY Symmetry

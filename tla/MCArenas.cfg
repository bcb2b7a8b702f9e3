CONSTANTS
  Handles = {h1, h2}
  NIndices = 2
  ALL_ARENAS = 4096
  Intervals = {1}
  Limits = {3}
  Classes = {1, 2, 4}
  Names <- MCNames
  ARENA_NAME_LEN = 3
  HasSbrk = TRUE
  MaxId = 3
  MaxCalls = 3
  Threads = {t1, t2, t3}
  OptionNames = {"opt.percpu_arena"}
  Mib <- MCMib
  Errors = {"EAGAIN"}
SPECIFICATION ArenasSpec
INVARIANTS
  SettingsAreTheArenas
  NamesFit
  PredicatesAreSound
SYMMETRY Symmetry

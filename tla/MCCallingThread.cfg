CONSTANTS
  Threads = {t1, t2}
  Shared = {"prof.active"}
  CTrue = {2}
  Classes = {2, 4}
  Requests = {3, 9}
  Settings <- MCSettings
  TCACHE_NCACHED_MAX_SETTINGS_LEN = 3
  MaxGuards = 2
  Blocks = {b1}
  Sizes = {1, 2}
  W = 3
  MaxTotal = 3
SPECIFICATION CallingSpec
INVARIANTS
  ScopesRestore
  SettingsArriveWhole
  DifferencesAreExact
  UseAddsUp
SYMMETRY Symmetry

CONSTANTS
  Targets <- MCTargets
  Features = {"frameptr"}
  ConfigVars = {"LG_PAGE"}
  Values = {"", "a", "b"}
  Existing = {"a", "b"}
  Linkable = {"a"}
  MaxEdits = 2
  MaxStops = 1
SPECIFICATION FairSpec
INVARIANTS
  BuildIsFresh
PROPERTY BuildSettles
CHECK_DEADLOCK FALSE

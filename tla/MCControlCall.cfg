CONSTANTS
  MaxSize = 3
  EINVAL = 22
  EPERM = 1
  Codes = {2, 11}
  Strict = FALSE
SPECIFICATION ControlSpec
INVARIANTS
  ValuesAreJemallocs
  OkMeansDone

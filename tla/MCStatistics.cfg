CONSTANTS
  PRINT_OPTIONS = {"J", "g"}
  OtherOptions = {"z"}
  NUL = "0"
  MaxOptions = 3
  Capacity = 3
  MaxFragment = 2
  MaxFragments = 3
  Threads = {t1, t2}
  Page = 1
  MaxBytes = 1
  MaxAnswers = 2
  MaxClock = 2
  MaxEpoch = 3
SPECIFICATION StatisticsSpec
INVARIANTS
  OptionsReachJemalloc
  PrintContract
  ComparedSampleIsOneMoment
  ReadsAreFresh
SYMMETRY Symmetry
CHECK_DEADLOCK FALSE

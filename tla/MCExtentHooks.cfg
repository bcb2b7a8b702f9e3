CONSTANT
  N = 3
SPECIFICATION Spec
INVARIANTS
  ViewsAgree
  CommitAgrees
  ZeroedReadsZero
CHECK_DEADLOCK FALSE

CONSTANTS
  Threads = {t1, t2}
  Blocks = {b1, b2}
  QUANTUM = 16
  Sizes = {1, 80, 1000}
  Aligns = {16, 64}
  SizeClass <- MCSizeClass
  Natural <- MCNatural
  MaxCalls = 2
SPECIFICATION Spec
INVARIANTS
  Agreement
  DebugValidate
  ZeroedBlocksAreZero
  HooksSeeLiveBlocks
SYMMETRY Symmetry

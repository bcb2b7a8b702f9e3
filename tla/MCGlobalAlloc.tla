--------------------------- MODULE MCGlobalAlloc ----------------------------
EXTENDS GlobalAlloc, FiniteSets, TLC

\* jemalloc's small size classes on a 64-bit platform, from the tiny class up.
Classes == {8, 16, 32, 48, 64, 80, 96, 112, 128}

\* The size is rounded up to the alignment, and that to the next class.
MCSizeClass(size, align) ==
  LET rounded == ((size + align - 1) \div align) * align
      fitting == {c \in Classes : c >= rounded}
  IN  IF fitting = {} THEN 0
      ELSE CHOOSE c \in fitting : \A d \in fitting : c <= d

\* The blocks of a class lie at multiples of it, from the start of a page.
MCNatural(class) ==
  CHOOSE a \in {2^l : l \in 0..7} :
    class % a = 0 /\ \A l \in 0..7 : class % 2^l = 0 => 2^l <= a

Symmetry == Permutations(Threads) \cup Permutations(Blocks)
=============================================================================

--------------------------- MODULE MCArenaControl ---------------------------
EXTENDS ArenaControl, TLC

MCDecays == {-1, 0}

Symmetry == Permutations(Threads)

=============================================================================

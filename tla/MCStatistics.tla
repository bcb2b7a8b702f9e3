---------------------------- MODULE MCStatistics ----------------------------
EXTENDS Statistics, TLC

Symmetry == Permutations(Threads)
=============================================================================

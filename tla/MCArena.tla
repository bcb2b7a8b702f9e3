------------------------------ MODULE MCArena -------------------------------
EXTENDS Arena, TLC

Symmetry == Permutations(Threads) \cup Permutations(Handles)
=============================================================================

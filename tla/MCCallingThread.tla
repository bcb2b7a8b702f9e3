-------------------------- MODULE MCCallingThread ---------------------------
EXTENDS CallingThread, TLC

\* The empty string, a short one, the longest one and one that is too long.
MCSettings == {<<>>, <<"x">>, <<"x", "y">>, <<"x", "y", "x">>}

Symmetry == Permutations(Threads) \cup Permutations(Blocks)
=============================================================================

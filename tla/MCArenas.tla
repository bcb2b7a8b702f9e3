------------------------------ MODULE MCArenas ------------------------------
EXTENDS Arenas, TLC

\* A name that fits exactly, and one that is too long.
MCNames == {<<"a", "b">>, <<"b", "a", "b">>}

MCMib == [n \in OptionNames |-> <<1, 2>>]

Symmetry == Permutations(Threads)
=============================================================================

------------------------------ MODULE ArenaKeys -----------------------------
(* The index that stands for every arena in the second segment of a key,   *)
(* for the modules that select arenas by their keys (arenas.rs).           *)
CONSTANT ALL_ARENAS
=============================================================================

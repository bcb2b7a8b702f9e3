---------------------------- MODULE HandleLimits ----------------------------
(* The limit of the indices that an Arena holds, for the modules that have *)
(* arena indices: jevmalloc rejects it and what is above it (arena.rs).    *)
CONSTANT ARENA_INDEX_LIMIT
=============================================================================

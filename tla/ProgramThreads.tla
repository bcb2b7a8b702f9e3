--------------------------- MODULE ProgramThreads ---------------------------
(* The threads of the program, for the modules of what each of them has. *)
CONSTANT Threads
=============================================================================

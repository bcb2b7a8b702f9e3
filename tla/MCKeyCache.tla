----------------------------- MODULE MCKeyCache -----------------------------
(* Instance of KeyCache for TLC: keys of at most two segments. *)
EXTENDS KeyCache

MCLocations == 0..2

\* "epoch": one segment.   "arenas.create": two.   "unknown": a name
\* this build of jemalloc lacks.   "deep": more segments than a Key holds.
\* "short": a translation whose length is not the name's.
MCNames == {"epoch", "create", "unknown", "deep", "short"}

MCNameInfo ==
  [n \in MCNames |->
     [bytes |-> 5, nul |-> FALSE,
      segments |-> CASE n = "epoch" -> 1
                     [] n \in {"create", "unknown", "short"} -> 2
                     [] n = "deep" -> 3]]

MCMib ==
  [n \in MCNames |-> CASE n = "epoch" -> <<1>>
                       [] n = "create" -> <<2, 3>>
                       [] n = "unknown" -> <<>>
                       [] n = "deep" -> <<4, 5, 6>>
                       [] n = "short" -> <<8>>]

\* ENOENT is permanent; EAGAIN (jemalloc's control tree could not be set up)
\* may be followed by success.
ENOENT == 2
EAGAIN == 11

MCStatus ==
  [n \in MCNames |-> IF n = "unknown" THEN {ENOENT} ELSE {0, EAGAIN}]

=============================================================================

--------------------------- MODULE StartupOption ----------------------------
(***************************************************************************)
(* Queries of a startup option: percpu_mode of arenas.rs and its three     *)
(* predicates, and the string getters of opt.rs and config.rs, composed    *)
(* with the lookup of their key (KeyService, which KeyCache implements).   *)
(* An option never changes, but a lookup may fail, on one thread and not   *)
(* on another, and so may the read that follows (arenas.rs:191); the       *)
(* predicates answer `false` then.  The string is                          *)
(* jemalloc's: a null pointer or a mode this crate does not know, of a     *)
(* library supplied through JEMALLOC_OVERRIDE, is an error.                *)
(***************************************************************************)
EXTENDS KeyService

NULL == "null"

VARIABLES
  stored,   \* the pointer behind opt.percpu_arena
  asking,   \* asking[t]: t's last query
  said,     \* said[t]: what t was told then, or the error
  sure,     \* ghost: the threads that had the key when their query began
  failed    \* ghost: failed[t]: what failed in t's last query, if anything

vars == <<serviceVars, stored, asking, said, sure, failed>>

Predicates == {"is_affine", "is_percpu", "is_phycpu"}
Queries == Predicates \cup {"percpu_mode", "get_cstr"}

Nothing == [tag |-> "nothing"]

StartupInit ==
  /\ Init
  /\ stored \in {"disabled", "percpu", "phycpu", "unknown", NULL}
  /\ asking = [t \in Threads |-> "percpu_mode"]
  /\ said = [t \in Threads |-> Nothing]
  /\ sure = {}
  /\ failed = [t \in Threads |-> "nothing"]

-----------------------------------------------------------------------------

\* value::get_cstr: what is read is a pointer.
get_cstr(pointer) == IF pointer = NULL THEN Err("EFAULT") ELSE Ok(pointer)

\* arenas::percpu_mode.
percpu_mode(pointer) ==
  IF pointer \in {"disabled", "percpu", "phycpu", NULL} THEN get_cstr(pointer)
  ELSE Err("EINVAL")

\* Bug: an error is not "disabled".
is_affine_NotDisabled(mode) == mode # Ok("disabled")

is_affine(mode) == mode \in {Ok("percpu"), Ok("phycpu")}

is_percpu(mode) == mode = Ok("percpu")

is_phycpu(mode) == mode = Ok("phycpu")

\* What a query makes of the mode, or of the error of the lookup.
Told(q, mode) ==
  CASE q = "is_affine" -> [tag |-> "bool", value |-> is_affine(mode)]
    [] q = "is_percpu" -> [tag |-> "bool", value |-> is_percpu(mode)]
    [] q = "is_phycpu" -> [tag |-> "bool", value |-> is_phycpu(mode)]
    [] OTHER -> mode

\* The caller looks the key up ...
Ask(t, q) ==
  /\ Call(t)
  /\ asking' = [asking EXCEPT ![t] = q]
  /\ sure' = (sure \ {t}) \cup ({t} \cap holds)
  /\ said' = [said EXCEPT ![t] = Nothing]
  /\ failed' = [failed EXCEPT ![t] = "nothing"]
  /\ UNCHANGED stored

\* ... and with the key, reads the option ...
Found(t) ==
  /\ Answer(t)
  /\ said' = [said EXCEPT ![t] =
       IF asking[t] = "get_cstr" THEN get_cstr(stored)
       ELSE Told(asking[t], percpu_mode(stored))]
  /\ UNCHANGED <<stored, asking, sure, failed>>

\* ... which jemalloc may decline, as it may any control call.
Unread(t) ==
  /\ Answer(t)
  /\ \E e \in Errors : said' = [said EXCEPT ![t] = Told(asking[t], Err(e))]
  /\ failed' = [failed EXCEPT ![t] = "read"]
  /\ UNCHANGED <<stored, asking, sure>>

NotFound(t) ==
  /\ Refuse(t)
  /\ said' = [said EXCEPT ![t] = Told(asking[t], ret'[t])]
  /\ failed' = [failed EXCEPT ![t] = "lookup"]
  /\ UNCHANGED <<stored, asking, sure>>

\* u is handed something t has written since.
Publish(t, u) ==
  /\ HandOver(t, u)
  /\ UNCHANGED <<stored, asking, said, sure, failed>>

StartupNext ==
  \/ \E t \in Threads : Found(t) \/ Unread(t) \/ NotFound(t) \/ \E q \in Queries : Ask(t, q)
  \/ \E t, u \in Threads : Publish(t, u)

StartupSpec == StartupInit /\ [][StartupNext]_vars

-----------------------------------------------------------------------------
(* Properties *)

Truth ==
  [is_affine |-> stored \in {"percpu", "phycpu"},
   is_percpu |-> stored = "percpu",
   is_phycpu |-> stored = "phycpu"]

\* "Query failures produce `false`" (arenas.rs:208), and nothing else does: no
\* thread is ever told of a mode that is not in force, and one is told that
\* the mode in force is not only if jemalloc declined to read the option in
\* this very query, or refused the key to a thread that nobody who was given
\* it had handed anything to.
PredicatesAreSound ==
  \A t \in Threads :
    asking[t] \in Predicates /\ said[t] # Nothing =>
      CASE failed[t] = "nothing" -> said[t].value = Truth[asking[t]]
        [] failed[t] = "read" -> ~ said[t].value
        [] failed[t] = "lookup" -> ~ said[t].value /\ t \notin sure

=============================================================================

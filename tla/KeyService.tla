----------------------------- MODULE KeyService -----------------------------
(***************************************************************************)
(* What `Key` lookup by a cached control name promises its callers         *)
(* (ctl/key/cache.rs), with no cache and no memory in it: a call answers   *)
(* with the complete translation of the name or with an error, and the     *)
(* key is never refused to a thread that was once given it, nor to one     *)
(* that something was handed over to by such a thread.                     *)
(***************************************************************************)
CONSTANTS
  Threads,
  Names,
  Mib,       \* Mib[n]: the translation jemalloc gives name n
  Errors     \* the errors a translation may fail with

VARIABLES
  name,      \* the static name this cache belongs to
  busy,      \* the threads inside a call
  ret,       \* ret[t]: what t's last completed call returned
  holds      \* the threads that can no longer be refused

serviceVars == <<name, busy, ret, holds>>

\* The results of a call, and `None` before the first one.
None == [tag |-> "none"]
Ok(k) == [tag |-> "ok", key |-> k]
Err(e) == [tag |-> "err", code |-> e]

Init ==
  /\ name \in Names
  /\ busy = {}
  /\ ret = [t \in Threads |-> None]
  /\ holds = {}

Call(t) ==
  /\ t \notin busy
  /\ busy' = busy \cup {t}
  /\ UNCHANGED <<name, ret, holds>>

Answer(t) ==
  /\ t \in busy
  /\ busy' = busy \ {t}
  /\ ret' = [ret EXCEPT ![t] = Ok(Mib[name])]
  /\ holds' = holds \cup {t}
  /\ UNCHANGED name

Refuse(t) ==
  /\ t \in busy
  /\ t \notin holds
  /\ busy' = busy \ {t}
  /\ \E e \in Errors : ret' = [ret EXCEPT ![t] = Err(e)]
  /\ UNCHANGED <<name, holds>>

HandOver(t, u) ==
  /\ t \in holds
  /\ t \notin busy /\ u \notin busy
  /\ holds' = holds \cup {u}
  /\ UNCHANGED <<name, busy, ret>>

Next ==
  \/ \E t \in Threads : Call(t) \/ Answer(t) \/ Refuse(t)
  \/ \E t, u \in Threads : HandOver(t, u)

Spec == Init /\ [][Next]_serviceVars

=============================================================================

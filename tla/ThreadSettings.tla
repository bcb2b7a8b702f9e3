--------------------------- MODULE ThreadSettings ---------------------------
(***************************************************************************)
(* The settings of the calling thread (thread/this.rs), with the switches  *)
(* of the whole process beside them (profiling.rs) and the C               *)
(* representation of a bool (ctl/value.rs).                                *)
(*                                                                         *)
(* Every call that changes a setting returns the previous one.  A program  *)
(* uses that as a guard: it keeps what was returned and sets it again at   *)
(* the end of the scope.  Guards of one thread are nested.  A call that    *)
(* fails without an effect is a stuttering step.                           *)
(***************************************************************************)
EXTENDS Integers, SequencesExt, ProgramThreads

CONSTANTS
  Shared,     \* the switches of the process that are in the instance
  CTrue,      \* the C values jemalloc may have for true: under cl.exe, an int
  Classes,    \* the size classes, the largest one being jemalloc's limit
  Requests,   \* the sizes asked for
  Settings,   \* the settings strings, sequences of bytes
  TCACHE_NCACHED_MAX_SETTINGS_LEN,
  MaxGuards   \* bound on the guards open at once, of two threads together

NUL == "NUL"

\* The settings are those of a C string, which has no NUL inside.
ASSUME SettingsAssumption ==
  /\ Shared \subseteq {"prof.active", "prof.gdump"}
  /\ CTrue \subseteq Nat \ {0}
  /\ Classes \subseteq Nat /\ \E c \in Classes : \A d \in Classes : d <= c
  /\ Requests \subseteq Nat
  /\ \A s \in Settings : /\ s \in Seq({s[i] : i \in DOMAIN s})
                         /\ \A i \in DOMAIN s : s[i] # NUL
  /\ TCACHE_NCACHED_MAX_SETTINGS_LEN \in Nat \ {0}
  /\ MaxGuards \in Nat

ENABLED_ == "thread.tcache.enabled"
MAX == "thread.tcache.max"

Own == {ENABLED_, "thread.prof.active"}

Controls == (Own \X Threads) \cup (Shared \X {"process"})

VARIABLES
  switch,   \* switch[c]: the C value of a bool control
  tmax,     \* tmax[t]: the largest size class t's cache keeps
  cached,   \* the threads whose automatic cache holds memory
  guards,   \* guards[t]: t's open guards, the innermost last
  meant,    \* ghost: meant[t][n]: what n is inside each of t's scopes
  call      \* the last set_tcache_ncached_max of any thread

vars == <<switch, tmax, cached, guards, meant, call>>

None == [tag |-> "none"]

-----------------------------------------------------------------------------
(* ctl/value.rs *)

encode_bool(b) == IF b THEN 1 ELSE 0

decode_bool(c) == c # 0

-----------------------------------------------------------------------------
(* jemalloc *)

CTruth(c) == c # 0

Largest == Max(Classes)

\* thread.tcache.max: the request is clamped, and rounded up to a class.
Applied(size) ==
  Min({c \in Classes : c >= Min({size, Largest})})

\* Threads begin with the settings of the startup options.
Init ==
  /\ \E start \in [Own \cup Shared -> {0} \cup CTrue] :
       switch = [c \in Controls |-> start[c[1]]]
  /\ \E c \in Classes : tmax = [t \in Threads |-> c]
  /\ cached = {}
  /\ guards = [t \in Threads |-> <<>>]
  /\ meant = [t \in Threads |-> [n \in Own \cup {MAX} |->
                IF n = MAX THEN <<tmax[t]>> ELSE <<CTruth(switch[<<n, t>>])>>]]
  /\ call = None

Enabled(t) == CTruth(switch[<<ENABLED_, t>>])

\* The thread allocates or frees through its automatic cache.
Use(t) ==
  /\ Enabled(t)
  /\ cached' = cached \cup {t}
  /\ UNCHANGED <<switch, tmax, guards, meant, call>>

-----------------------------------------------------------------------------
(* Settings that are exchanged *)

\* Bug: the thread's profiling switch goes by the name of the process's.
Control_Shared(name, t) ==
  IF name = ENABLED_ THEN <<name, t>>
  ELSE <<IF name = "thread.prof.active" THEN "prof.active" ELSE name, "process">>

\* The control behind this::cache_enable and prof_enable, which are the
\* thread's, or profiling::prof_enable and prof_gdump, which are the process's.
Control(name, t) == IF name \in Own THEN <<name, t>> ELSE <<name, "process">>

\* value::xchg_bool.  Disabling a cache flushes it.
xchg_bool(name, t, b) ==
  /\ switch' = [switch EXCEPT ![Control(name, t)] = encode_bool(b)]
  /\ cached' = IF name = ENABLED_ /\ ~ b THEN cached \ {t} ELSE cached

Previous_bool(name, t) == decode_bool(switch[Control(name, t)])

Open(t, name, previous, now) ==
  /\ Len(guards[t]) < MaxGuards
  /\ \A u \in Threads \ {t} : Len(guards[t]) + Len(guards[u]) < MaxGuards
  /\ guards' = [guards EXCEPT ![t] = Append(@, [name |-> name, previous |-> previous])]
  /\ meant' = [meant EXCEPT ![t][name] = Append(@, now)]

\* this::cache_enable, this::prof_enable.
enable(t, name, b) ==
  /\ xchg_bool(name, t, b)
  /\ Open(t, name, Previous_bool(name, t), b)
  /\ UNCHANGED <<tmax, call>>

\* this::set_tcache_max: an enabled cache is rebuilt.
set_tcache_max(t, size) ==
  /\ tmax' = [tmax EXCEPT ![t] = Applied(size)]
  /\ cached' = cached \ {t}
  /\ Open(t, MAX, tmax[t], Applied(size))
  /\ UNCHANGED <<switch, call>>

\* The scope of t's innermost guard ends: the setting it was given is set.
Close(t) ==
  LET g == Last(guards[t])
  IN  /\ guards[t] # <<>>
      /\ IF g.name = MAX
         THEN /\ tmax' = [tmax EXCEPT ![t] = Applied(g.previous)]
              /\ cached' = cached \ {t}
              /\ UNCHANGED switch
         ELSE xchg_bool(g.name, t, g.previous) /\ UNCHANGED tmax
      /\ guards' = [guards EXCEPT ![t] = Front(@)]
      /\ meant' = [meant EXCEPT ![t][g.name] = Front(@)]
      /\ UNCHANGED call

\* A switch of the process is set, by any thread, for good.
enable_process(t, name, b) ==
  /\ xchg_bool(name, t, b)
  /\ UNCHANGED <<tmax, guards, meant, call>>

\* this::flush, which a thread without a cache is refused, and this::idle,
\* which flushes the cache if there is one.
flush(t) ==
  /\ cached' = cached \ {t}
  /\ UNCHANGED <<switch, tmax, guards, meant, call>>

-----------------------------------------------------------------------------
(* this::set_tcache_ncached_max *)

LEN == TCACHE_NCACHED_MAX_SETTINGS_LEN

\* Bug: the borrowed string itself is passed on.
Buffer_Borrowed(bytes) == bytes

\* Full-length storage, zero after the string and its terminator.
Buffer(bytes) == [i \in 1..LEN |-> IF i <= Len(bytes) THEN bytes[i] ELSE NUL]

\* jemalloc looks at LEN bytes from the pointer, and takes those before the
\* first NUL for the settings.
Scanned == 1..LEN
Text(buffer) ==
  LET nul == {i \in DOMAIN buffer : buffer[i] = NUL}
  IN  SubSeq(buffer, 1, IF nul = {} THEN Len(buffer) ELSE Min(nul) - 1)

TooLong(bytes) == Len(bytes) > LEN

\* The answer to a call, and the memory jemalloc was given.
Answered(settings, result, buffer) ==
  call' = [tag |-> "some", settings |-> settings, result |-> result, buffer |-> buffer]

\* The settings have no effect if they are empty, and on a thread without a
\* cache they are refused, as those with a bad syntax are.
set_tcache_ncached_max(t, settings) ==
  LET bytes == Append(settings, NUL)
      buffer == Buffer(bytes)
  IN  /\ \/ /\ TooLong(bytes)
            /\ Answered(settings, "EINVAL", <<>>)
            /\ UNCHANGED cached
         \/ /\ ~ TooLong(bytes)
            /\ Answered(settings, "rejected", buffer)
            /\ UNCHANGED cached
         \/ /\ ~ TooLong(bytes)
            /\ Enabled(t)
            /\ Answered(settings, "ok", buffer)
            /\ IF Text(buffer) = <<>>
               THEN UNCHANGED cached
               ELSE cached' = cached \ {t}
      /\ UNCHANGED <<switch, tmax, guards, meant>>

-----------------------------------------------------------------------------

Next ==
  \E t \in Threads :
    \/ Use(t) \/ flush(t) \/ Close(t)
    \/ \E name \in Own, b \in BOOLEAN : enable(t, name, b)
    \/ \E name \in Shared, b \in BOOLEAN : enable_process(t, name, b)
    \/ \E size \in Requests : set_tcache_max(t, size)
    \/ \E settings \in Settings : set_tcache_ncached_max(t, settings)

Spec == Init /\ [][Next]_vars

-----------------------------------------------------------------------------
(* Properties *)

\* "The previous setting is returned" (this.rs:128, 169, 278): a thread that
\* sets again what it was given, scope by scope, has in each scope the setting
\* it chose there, and its first one in the end; whatever representation of
\* true jemalloc uses, whatever a request is rounded to, and whatever other
\* threads do to their settings and to those of the process meanwhile.  And
\* "disabling implicitly flushes the cache", also at the end of a scope.
ScopesRestore ==
  \A t \in Threads :
    /\ \A n \in Own : CTruth(switch[<<n, t>>]) = Last(meant[t][n])
    /\ tmax[t] = Last(meant[t][MAX])
    /\ t \in cached => Enabled(t)

\* "jemalloc scans up to [LEN] bytes, even after receiving a shorter borrowed
\* C string" (this.rs:205): every byte it looks at is in the storage it was
\* given, and what it finds there is the settings the program wrote, up to the
\* longest that are accepted.
SettingsArriveWhole ==
  call # None =>
    IF call.result = "EINVAL"
    THEN Len(call.settings) >= LEN
    ELSE /\ DOMAIN call.buffer = Scanned
         /\ \E i \in Scanned : call.buffer[i] = NUL
         /\ Text(call.buffer) = call.settings

=============================================================================

------------------------------ MODULE KeyCache ------------------------------
(***************************************************************************)
(* The MIB cache of one static control name: ctl/key/cache.rs, with the    *)
(* name translation of ctl/raw.rs it calls.  Every thread of the process   *)
(* may be inside Cache::get at once; each atomic access is a step, in the  *)
(* weak memory of AtomicMemory.                                            *)
(*                                                                         *)
(* The actions of a thread follow the code: BeginGet (the Acquire load of  *)
(* len), then either LoadSegment once per segment, or Translate (mibs),    *)
(* StoreSegment once per segment and Publish (the Release store of len).   *)
(***************************************************************************)
EXTENDS AtomicMemory, Sequences, FiniteSets

CONSTANTS
  KEY_SEGS,   \* inline capacity of a Key
  NAME_MAX,   \* bytes of mibs' name buffer
  Names,      \* the static control names a cache may belong to
  NameInfo,   \* NameInfo[n]: byte length, interior NUL, number of segments
  Mib,        \* Mib[n]: what mallctlnametomib writes for n
  Status,     \* Status[n]: the statuses mallctlnametomib may return for n
  EINVAL,     \* the error code of Error::invalid_argument
  MaxCalls,   \* bound on the calls of one thread
  Suspended   \* the threads the scheduler may stop in the middle of a call

\* A name as mibs sees it.
NameRecord == [bytes : Nat, nul : BOOLEAN, segments : Nat \ {0}]

ASSUME KeyAssumption ==
  /\ KEY_SEGS \in Nat
  /\ NAME_MAX \in Nat
  /\ Locations = 0..KEY_SEGS
  /\ NameInfo \in [Names -> NameRecord]
  /\ Mib \in [Names -> Seq(Nat)]
  /\ Status \in [Names -> (SUBSET Nat) \ {{}}]
  /\ EINVAL \in Nat \ {0}
  /\ MaxCalls \in Nat

VARIABLES
  name,       \* the name this static Cache was declared with (define_key!)
  pc,         \* pc[t]: where t is in Cache::get
  len,        \* len[t]: the length t loaded and iterates to
  key,        \* key[t]: the local Key of t's call
  seg,        \* seg[t]: the next segment t loads or stores, from 1
  ret,        \* ret[t]: what t's last completed call returned
  calls,      \* calls[t]: the calls t has begun
  holds       \* history: the threads with the key, or that were handed
              \* something by one of them

vars == <<mem, view, name, pc, len, key, seg, ret, calls, holds>>

\* The cell of Cache.len; cell i >= 1 is Cache.segments[i - 1].
LEN == 0

None == [tag |-> "none"]
Ok(k) == [tag |-> "ok", key |-> k]
Err(e) == [tag |-> "err", code |-> e]

\* Everything mibs and mallctlnametomib can fail with.
Errors == {EINVAL} \cup ((UNION {Status[n] : n \in Names}) \ {0})

-----------------------------------------------------------------------------
(* raw::mibs *)

\* The checks mibs makes before it crosses the FFI boundary.
NameAccepted(n) ==
  /\ NameInfo[n].bytes # 0
  /\ NameInfo[n].bytes < NAME_MAX
  /\ ~ NameInfo[n].nul
  /\ NameInfo[n].segments <= KEY_SEGS

\* The check mibs makes on the length mallctlnametomib reports.
LengthAccepted(n) ==
  /\ Len(Mib[n]) = NameInfo[n].segments
  /\ Len(Mib[n]) <= KEY_SEGS

\* mibs has a key for n, in some state of jemalloc.  Status 0 is success.
Resolvable(n) == NameAccepted(n) /\ LengthAccepted(n) /\ 0 \in Status[n]

\* The results mibs may have for n.
mibs(n) ==
  IF ~ NameAccepted(n)
  THEN {Err(EINVAL)}
  ELSE {IF s # 0 THEN Err(s)
        ELSE IF LengthAccepted(n) THEN Ok(Mib[n])
        ELSE Err(EINVAL) : s \in Status[n]}

-----------------------------------------------------------------------------
(* Cache::get *)

Init ==
  /\ MemoryInit
  /\ name \in Names
  /\ pc = [t \in Threads |-> "idle"]
  /\ len = [t \in Threads |-> 0]
  /\ key = [t \in Threads |-> <<>>]
  /\ seg = [t \in Threads |-> 1]
  /\ ret = [t \in Threads |-> None]
  /\ calls = [t \in Threads |-> 0]
  /\ holds = {}

\* Bug: len is loaded with Ordering::Relaxed.
BeginGet_Relaxed(t) ==
  /\ pc[t] = "idle"
  /\ calls[t] < MaxCalls
  /\ calls' = [calls EXCEPT ![t] = @ + 1]
  /\ \E m \in Readable(t, LEN) :
       /\ LoadRelaxed(t, LEN, m)
       /\ len' = [len EXCEPT ![t] = m.val]
       /\ pc' = [pc EXCEPT ![t] = IF m.val > 0 THEN "load" ELSE "translate"]
  /\ key' = [key EXCEPT ![t] = <<>>]
  /\ seg' = [seg EXCEPT ![t] = 1]
  /\ UNCHANGED <<mem, name, ret, holds>>

\* The Acquire load of len, and the branch on it.
BeginGet(t) ==
  /\ pc[t] = "idle"
  /\ calls[t] < MaxCalls
  /\ calls' = [calls EXCEPT ![t] = @ + 1]
  /\ \E m \in Readable(t, LEN) :
       /\ LoadAcquire(t, m)
       /\ len' = [len EXCEPT ![t] = m.val]
       /\ pc' = [pc EXCEPT ![t] = IF m.val > 0 THEN "load" ELSE "translate"]
  /\ key' = [key EXCEPT ![t] = <<>>]
  /\ seg' = [seg EXCEPT ![t] = 1]
  /\ UNCHANGED <<mem, name, ret, holds>>

\* One turn of Cache::load, which returns after the last.  The loop visits
\* at most KEY_SEGS segments, so try_push into a fresh Key never fails.
LoadSegment(t) ==
  /\ pc[t] = "load"
  /\ \E m \in Readable(t, seg[t]) :
       /\ LoadRelaxed(t, seg[t], m)
       /\ key' = [key EXCEPT ![t] = Append(@, m.val)]
       /\ IF seg[t] = len[t]
          THEN /\ pc' = [pc EXCEPT ![t] = "idle"]
               /\ ret' = [ret EXCEPT ![t] = Ok(Append(key[t], m.val))]
               /\ holds' = holds \cup {t}
               /\ UNCHANGED seg
          ELSE /\ seg' = [seg EXCEPT ![t] = @ + 1]
               /\ UNCHANGED <<pc, ret, holds>>
  /\ UNCHANGED <<mem, name, len, calls>>

\* Bug: a failed translation is retried instead of returned.
Translate_Retry(t) ==
  /\ pc[t] = "translate"
  /\ \E r \in mibs(name) :
       IF r.tag = "ok"
       THEN /\ key' = [key EXCEPT ![t] = r.key]
            /\ pc' = [pc EXCEPT ![t] = "store"]
       ELSE UNCHANGED <<key, pc>>
  /\ UNCHANGED <<mem, view, name, len, seg, ret, calls, holds>>

\* `raw::mibs(name)?`: a failure leaves the cache as it was.
Translate(t) ==
  /\ pc[t] = "translate"
  /\ \E r \in mibs(name) :
       IF r.tag = "ok"
       THEN /\ key' = [key EXCEPT ![t] = r.key]
            /\ pc' = [pc EXCEPT ![t] = "store"]
            /\ UNCHANGED ret
       ELSE /\ ret' = [ret EXCEPT ![t] = r]
            /\ pc' = [pc EXCEPT ![t] = "idle"]
            /\ UNCHANGED key
  /\ UNCHANGED <<mem, view, name, len, seg, calls, holds>>

\* One turn of the loop of Relaxed stores.
StoreSegment(t) ==
  /\ pc[t] = "store"
  /\ StoreRelaxed(t, seg[t], key[t][seg[t]])
  /\ IF seg[t] = Len(key[t])
     THEN pc' = [pc EXCEPT ![t] = "publish"] /\ UNCHANGED seg
     ELSE seg' = [seg EXCEPT ![t] = @ + 1] /\ UNCHANGED pc
  /\ UNCHANGED <<name, len, key, ret, calls, holds>>

\* Bug: len is stored with Ordering::Relaxed.
Publish_Relaxed(t) ==
  /\ pc[t] = "publish"
  /\ StoreRelaxed(t, LEN, Len(key[t]))
  /\ pc' = [pc EXCEPT ![t] = "idle"]
  /\ ret' = [ret EXCEPT ![t] = Ok(key[t])]
  /\ holds' = holds \cup {t}
  /\ UNCHANGED <<name, len, key, seg, calls>>

\* The Release store of len, and the return of the translated key.
Publish(t) ==
  /\ pc[t] = "publish"
  /\ StoreRelease(t, LEN, Len(key[t]))
  /\ pc' = [pc EXCEPT ![t] = "idle"]
  /\ ret' = [ret EXCEPT ![t] = Ok(key[t])]
  /\ holds' = holds \cup {t}
  /\ UNCHANGED <<name, len, key, seg, calls>>

\* The steps of a call that has begun.
Step(t) == LoadSegment(t) \/ Translate(t) \/ StoreSegment(t) \/ Publish(t)

\* Between calls, t moves a value (a ThreadCache, which is Send, or any other)
\* to u, and with it what t has seen of the cache.
HandOver(t, u) ==
  /\ t # u
  /\ pc[t] = "idle" /\ pc[u] = "idle"
  /\ HandOverView(t, u)
  /\ holds' = IF t \in holds THEN holds \cup {u} ELSE holds
  /\ UNCHANGED <<mem, name, pc, len, key, seg, ret, calls>>

Next ==
  \/ \E t \in Threads : BeginGet(t) \/ Step(t)
  \/ \E t, u \in Threads : HandOver(t, u)

Spec == Init /\ [][Next]_vars

\* A thread inside Cache::get keeps running unless it is suspended there:
\* no step of it is a lock or a wait.  Nothing obliges a thread to call.
Fairness == \A t \in Threads \ Suspended : WF_vars(Step(t))

FairSpec == Spec /\ Fairness

-----------------------------------------------------------------------------
(* Properties *)

Result == {None} \cup [tag : {"ok"}, key : Seq(Nat)]
                 \cup [tag : {"err"}, code : Errors]

\* Every variable has the type the code gives it.  A call that is past the
\* Acquire load works on a segment the cache has.
TypeOK ==
  /\ mem \in [Locations -> SUBSET Message]
  /\ view \in [Threads -> View]
  /\ name \in Names
  /\ pc \in [Threads -> {"idle", "load", "translate", "store", "publish"}]
  /\ len \in [Threads -> 0..KEY_SEGS]
  /\ key \in [Threads -> Seq(Nat)]
  /\ seg \in [Threads -> Nat]
  /\ \A t \in Threads : pc[t] \in {"load", "store"} => seg[t] \in 1..KEY_SEGS
  /\ ret \in [Threads -> Result]
  /\ calls \in [Threads -> 0..MaxCalls]
  /\ holds \subseteq Threads

\* "No caller ... observes a partial key" (cache.rs:10): whatever the other
\* threads' loads and stores, a call that returns a key returns the whole
\* translation, and only for a name that mibs accepts.
NoPartialKey ==
  \A t \in Threads :
    ret[t].tag = "ok" => ret[t] = Ok(Mib[name]) /\ Resolvable(name)

\* "No caller blocks" (cache.rs:10): the call of a thread that keeps running
\* returns, even if other threads stop in the middle of publishing.
CallsReturn ==
  \A t \in Threads \ Suspended : (pc[t] # "idle") ~> (pc[t] = "idle")

\* The cache implements the lookup service its callers rely on: complete
\* keys, and no refusal of a thread that already holds the key.  This is why
\* ThreadCache::create resolves the keys of flush and destroy beforehand: the
\* owner that drops the cache, on whatever thread, is not refused them.
busy == {t \in Threads : pc[t] # "idle"}
Service ==
  INSTANCE KeyService WITH Threads <- Threads, Names <- Names, Mib <- Mib,
    Errors <- Errors, name <- name, busy <- busy, ret <- ret, holds <- holds
ImplementsKeyService == Service!Spec

-----------------------------------------------------------------------------
(* The inductive invariant *)

\* The segments of the published key, as locations.
KeyCells == 1..Len(Mib[name])

\* Every message of a segment is the initial one or the segment's value;
\* every message of len is the initial one or the full length, carrying a
\* view in which every segment has been stored.
MessagesInv ==
  \A l \in Locations : \A m \in mem[l] :
    \/ m.ts = 0 /\ m.val = 0 /\ m.view = ZeroView
    \/ /\ m.ts > 0
       /\ m.view[l] = m.ts
       /\ Resolvable(name)
       /\ IF l = LEN
          THEN m.val = Len(Mib[name]) /\ \A i \in KeyCells : m.view[i] > 0
          ELSE l \in KeyCells /\ m.val = Mib[name][l] /\ m.view[LEN] = 0

\* Who has seen len published has seen every segment stored.
SeenInv(t) ==
  view[t][LEN] > 0 => Resolvable(name) /\ \A i \in KeyCells : view[t][i] > 0

\* Inside Cache::load: the key so far is a prefix of the translation.
LoadInv(t) ==
  pc[t] = "load" =>
    /\ view[t][LEN] > 0
    /\ len[t] = Len(Mib[name])
    /\ seg[t] \in KeyCells
    /\ Len(key[t]) = seg[t] - 1
    /\ \A i \in 1..Len(key[t]) : key[t][i] = Mib[name][i]

\* Between the translation and the Release store: the key is the whole
\* translation and the segments before seg[t] have been stored.
StoreInv(t) ==
  /\ pc[t] \in {"store", "publish"} => key[t] = Mib[name] /\ Resolvable(name)
  /\ pc[t] = "store" =>
       /\ seg[t] \in KeyCells
       /\ \A i \in 1..(seg[t] - 1) : view[t][i] > 0
  /\ pc[t] = "publish" => \A i \in KeyCells : view[t][i] > 0

\* A thread that holds the key has seen len published, and one that is
\* translating the name has not.
RetInv(t) ==
  /\ t \in holds => view[t][LEN] > 0
  /\ pc[t] \in {"translate", "store", "publish"} => view[t][LEN] = 0
  /\ pc[t] = "translate" => seg[t] = 1

ThreadInv(t) == SeenInv(t) /\ LoadInv(t) /\ StoreInv(t) /\ RetInv(t)

CallInv == \A t \in Threads : ThreadInv(t)

\* The invariant that is inductive: NoPartialKey needs to know what every
\* readable message holds, which needs to know what every view covers.
IInv == TypeOK /\ MessagesInv /\ CallInv /\ NoPartialKey

=============================================================================

---------------------------- MODULE ThreadCache -----------------------------
(***************************************************************************)
(* Explicit thread caches: thread/cache.rs and its destroy_error.rs, over  *)
(* jemalloc's table of caches, whose identifiers are recycled.             *)
(*                                                                         *)
(* A ThreadCache is Send and not Sync: it is on one thread at a time and   *)
(* may be moved.  Its operations look their control keys up in the caches  *)
(* of ctl/key/cache.rs, on the thread they run on; knows[t] is the set of  *)
(* keys for which t is in `holds` of KeyService, which is what KeyCache    *)
(* implements: a known key is never refused, an unknown one may be.        *)
(***************************************************************************)
EXTENDS Integers

CONSTANTS
  Threads,
  Handles,             \* names for the ThreadCache values of the program
  JEMALLOC_LIMIT,      \* the identifiers jemalloc hands out are below this
  TCACHE_INDEX_LIMIT,  \* the first identifier that jevmalloc rejects
  MaxId,               \* bound on the caches ever created
  NoThread

ASSUME ThreadCacheAssumption ==
  /\ JEMALLOC_LIMIT \in Nat
  /\ TCACHE_INDEX_LIMIT \in Nat /\ JEMALLOC_LIMIT <= TCACHE_INDEX_LIMIT
  /\ MaxId \in Nat
  /\ NoThread \notin Threads

Indices == 0..(JEMALLOC_LIMIT - 1)
Keys == {"create", "flush", "destroy"}

VARIABLES
  slots,    \* slots[i]: the ghost id of jemalloc's cache i, 0 if it is free
  filled,   \* the caches that hold memory
  nextId,
  knows,    \* knows[t]: the control keys t cannot be refused
  handle,   \* handle[h]: the ThreadCache value named h
  leaked    \* ids whose owner was dropped while jemalloc refused

vars == <<slots, filled, nextId, knows, handle, leaked>>

Free == [place |-> "free", on |-> NoThread, index |-> 0, owned |-> FALSE, id |-> 0]

Held(t, i, id) == [place |-> "held", on |-> t, index |-> i, owned |-> TRUE, id |-> id]

Init ==
  /\ slots = [i \in Indices |-> 0]
  /\ filled = {}
  /\ nextId = 1
  /\ knows \in [Threads -> {{}, Keys}]
  /\ handle = [h \in Handles |-> Free]
  /\ leaked = {}

validated_index(i) == i < TCACHE_INDEX_LIMIT

\* t looks key k up: it learns it, or is refused what it did not know.
Lookup(t, k) == knows' = [knows EXCEPT ![t] = @ \cup {k}]

Refused(t, k) == k \notin knows[t]

\* Bug: only the key of tcache.create is resolved before creation.
create_Unresolved(h, t) ==
  /\ handle[h] = Free
  /\ knows' = [knows EXCEPT ![t] = @ \cup {"create"}]
  /\ nextId <= MaxId
  /\ \E i \in Indices :
       /\ slots[i] = 0
       /\ slots' = [slots EXCEPT ![i] = nextId]
       /\ handle' = [handle EXCEPT ![h] =
                       IF validated_index(i) THEN Held(t, i, nextId) ELSE Free]
  /\ nextId' = nextId + 1
  /\ UNCHANGED <<filled, leaked>>

\* ThreadCache::create resolves the keys of create, flush and destroy in this
\* order, and creates the cache only when it has all three.  jemalloc may have
\* no identifier or no memory left.
create(h, t) ==
  /\ handle[h] = Free
  /\ \/ /\ \/ Refused(t, "create") /\ UNCHANGED knows
           \/ Refused(t, "flush") /\ Lookup(t, "create")
           \/ /\ Refused(t, "destroy")
              /\ knows' = [knows EXCEPT ![t] = @ \cup {"create", "flush"}]
           \/ knows' = [knows EXCEPT ![t] = Keys]
        /\ UNCHANGED <<slots, nextId, handle>>
     \/ /\ knows' = [knows EXCEPT ![t] = Keys]
        /\ nextId <= MaxId
        /\ \E i \in Indices :
             /\ slots[i] = 0
             /\ slots' = [slots EXCEPT ![i] = nextId]
             /\ handle' = [handle EXCEPT ![h] =
                             IF validated_index(i) THEN Held(t, i, nextId) ELSE Free]
        /\ nextId' = nextId + 1
  /\ UNCHANGED <<filled, leaked>>

\* An extended allocation or deallocation with ThreadCache::flags, on the
\* thread that has the handle.
UseFlags(h) ==
  /\ handle[h].place = "held"
  /\ filled' = filled \cup {handle[h].index}
  /\ UNCHANGED <<slots, nextId, knows, handle, leaked>>

\* ThreadCache::flush: the cache is emptied and keeps its identifier.
flush(h) ==
  /\ handle[h].place = "held"
  /\ validated_index(handle[h].index)
  /\ Lookup(handle[h].on, "flush")
  /\ filled' = filled \ {handle[h].index}
  /\ UNCHANGED <<slots, nextId, handle, leaked>>

\* ThreadCache::destroy of an owner that succeeds: jemalloc flushes the cache
\* and may give its identifier to the next one.
Destroyed(h) ==
  /\ handle[h].owned
  /\ validated_index(handle[h].index)
  /\ Lookup(handle[h].on, "destroy")
  /\ slots' = [slots EXCEPT ![handle[h].index] = 0]
  /\ filled' = filled \ {handle[h].index}

\* The ways it can fail: the key is refused, or jemalloc rejects the command.
\* Only the latter is a failure the program can be told to expect.
NotDestroyed(h) ==
  /\ \/ Lookup(handle[h].on, "destroy")
     \/ Refused(handle[h].on, "destroy") /\ UNCHANGED knows
  /\ UNCHANGED <<slots, filled>>

\* Bug: the handle is not consumed by a successful destruction.
try_destroy_Armed(h) ==
  /\ handle[h].place = "held"
  /\ \/ Destroyed(h) /\ UNCHANGED handle
     \/ NotDestroyed(h) /\ handle' = [handle EXCEPT ![h].place = "error"]
  /\ UNCHANGED <<nextId, leaked>>

try_destroy(h) ==
  /\ handle[h].place = "held"
  /\ \/ Destroyed(h) /\ handle' = [handle EXCEPT ![h] = Free]
     \/ NotDestroyed(h) /\ handle' = [handle EXCEPT ![h].place = "error"]
  /\ UNCHANGED <<nextId, leaked>>

\* ThreadCacheDestroyError::into_parts.
into_parts(h) ==
  /\ handle[h].place = "error"
  /\ handle' = [handle EXCEPT ![h].place = "held"]
  /\ UNCHANGED <<slots, filled, nextId, knows, leaked>>

\* Bug: an owner that failed to destroy its cache does not try again.
drop_AfterError(h) ==
  /\ handle[h].place # "free"
  /\ \/ handle[h].place = "error" /\ UNCHANGED <<slots, filled, knows, leaked>>
     \/ handle[h].place = "held" /\ Destroyed(h) /\ UNCHANGED leaked
  /\ handle' = [handle EXCEPT ![h] = Free]
  /\ UNCHANGED nextId

\* Drop for ThreadCache, and for the one inside a dropped error.
drop(h) ==
  /\ handle[h].place # "free"
  /\ \/ Destroyed(h) /\ UNCHANGED leaked
     \/ /\ NotDestroyed(h)
        /\ leaked' = IF "destroy" \in knows'[handle[h].on]
                     THEN leaked \cup {handle[h].id} ELSE leaked
  /\ handle' = [handle EXCEPT ![h] = Free]
  /\ UNCHANGED nextId

\* The handle, or the error around it, is moved to thread t, which then sees
\* what the old thread has seen (KeyService!HandOver).
Move(h, t) ==
  /\ handle[h].place # "free"
  /\ handle' = [handle EXCEPT ![h].on = t]
  /\ knows' = [knows EXCEPT ![t] = @ \cup knows[handle[h].on]]
  /\ UNCHANGED <<slots, filled, nextId, leaked>>

Next ==
  \/ \E h \in Handles, t \in Threads : create(h, t) \/ Move(h, t)
  \/ \E h \in Handles : \/ UseFlags(h) \/ flush(h) \/ try_destroy(h)
                        \/ into_parts(h) \/ drop(h)

Spec == Init /\ [][Next]_vars

-----------------------------------------------------------------------------
(* Properties *)

Owner(h) == handle[h].place # "free" /\ handle[h].owned

\* "A successful call always has the complete lifecycle interface available"
\* (cache.rs:43): wherever an owner has been moved to, the keys of its flush
\* and destroy cannot be refused there.
LifecycleAvailable ==
  \A h \in Handles : Owner(h) => {"flush", "destroy"} \subseteq knows[handle[h].on]

\* No cache is lost: it has an owner unless jemalloc itself rejected the
\* destroy command of a dropped owner.
NoCacheLost ==
  \A i \in Indices : slots[i] # 0 =>
    (\E h \in Handles : Owner(h) /\ handle[h].index = i) \/ slots[i] \in leaked

\* Memory is not left behind in a cache nobody can flush: a cache that holds
\* some has an owner, on a thread where the key of flush is not refused,
\* unless jemalloc itself rejected the destruction.
NoMemoryStranded ==
  \A i \in filled :
    \/ \E h \in Handles :
         Owner(h) /\ handle[h].index = i /\ "flush" \in knows[handle[h].on]
    \/ slots[i] # 0 /\ slots[i] \in leaked

\* The refinement mapping: a cache is known by its ghost id.
born == 1..(nextId - 1)
alive == {slots[i] : i \in Indices} \ {0}
owns == [h \in Handles |-> IF Owner(h) THEN {handle[h].id} ELSE {}]

\* Through recycled identifiers, moves between threads and failed commands, a
\* ThreadCache keeps the promise of an owning handle: a cache is destroyed
\* only at the end of the one handle that owns it, and by no other thread.
OwnedCache == INSTANCE OwnedResource WITH Resources <- 1..MaxId
ImplementsOwnedResource == OwnedCache!Spec

=============================================================================

------------------------------- MODULE Arena --------------------------------
(***************************************************************************)
(* The lifecycle of explicit arenas: arena.rs and arena/destroy_error.rs,  *)
(* with thread::this::set_arena and arena_id, over jemalloc's table of     *)
(* arenas, whose indices are recycled.                                     *)
(*                                                                         *)
(* An Arena value is an index and an `owned` flag.  Every arena incarnation*)
(* has a ghost `id`, so that the model can tell a handle of a live arena   *)
(* from one whose index was recycled.  The caller contracts of the unsafe  *)
(* functions are guards, marked "contract"; an owner's operations have no  *)
(* such guard on the index: that an owner's index is live is what the      *)
(* module has to keep true.  A call that fails without an effect is a      *)
(* stuttering step.                                                        *)
(***************************************************************************)
EXTENDS Integers, FiniteSets

CONSTANTS
  Threads,
  Handles,            \* names for the Arena values of the program
  AutoArenas,         \* the number of automatic arenas
  JEMALLOC_LIMIT,     \* the indices jemalloc hands out are below this
  ARENA_INDEX_LIMIT,  \* the first index that jevmalloc rejects
  Tables,             \* extent hook tables
  NoAlloc,            \* those without an alloc hook
  DefaultTable,       \* jemalloc's own
  MaxId               \* bound on the arenas ever created

ASSUME ArenaAssumption ==
  /\ AutoArenas \in Nat \ {0}
  /\ JEMALLOC_LIMIT \in Nat /\ AutoArenas <= JEMALLOC_LIMIT
  /\ ARENA_INDEX_LIMIT \in Nat /\ JEMALLOC_LIMIT <= ARENA_INDEX_LIMIT
  /\ NoAlloc \subseteq Tables
  /\ DefaultTable \in Tables \ NoAlloc
  /\ MaxId \in Nat

Indices == 0..(JEMALLOC_LIMIT - 1)

VARIABLES
  arenas,    \* arenas[i]: jemalloc's arena at index i
  narenas,   \* indices from here on were never used
  nextId,    \* the next ghost incarnation
  assoc,     \* assoc[t]: the arena thread t is associated with
  touched,   \* touched[t]: the arenas t's automatic cache holds memory of
  inUse,     \* the arenas with an accessible allocation
  handle,    \* handle[h]: the Arena value named h
  numbers,   \* owned indices given up by into_index, as [index, id]
  leaked     \* ids whose owner was dropped while jemalloc refused

jemallocVars == <<arenas, narenas, nextId, assoc>>
vars == <<arenas, narenas, nextId, assoc, touched, inUse, handle, numbers, leaked>>

NoArena == [kind |-> "none", id |-> 0, table |-> DefaultTable]

Free == [place |-> "free", index |-> 0, owned |-> FALSE, id |-> 0]

\* An Arena value in the program's hands, or inside an ArenaDestroyError.
Held(i, owned, id) == [place |-> "held", index |-> i, owned |-> owned, id |-> id]

Live(i) == arenas[i].kind # "none"

\* Contract of every use of a non-owning handle: its arena is still there.
Valid(h) == Live(handle[h].index) /\ arenas[handle[h].index].id = handle[h].id

Associated(i) == \E t \in Threads : assoc[t] = i

Flushed(i) == \A t \in Threads : i \notin touched[t]

-----------------------------------------------------------------------------
(* jemalloc's side of the controls *)

\* arenas.create takes a destroyed index, or the next one if there is none.
NewIndex ==
  LET destroyed == {i \in Indices : i < narenas /\ ~ Live(i)}
  IN  IF destroyed # {} THEN destroyed ELSE {narenas} \cap Indices

CreateArena(i, table) ==
  /\ nextId <= MaxId
  /\ arenas' = [arenas EXCEPT ![i] = [kind |-> "explicit", id |-> nextId,
                                      table |-> table]]
  /\ narenas' = IF i = narenas THEN narenas + 1 ELSE narenas
  /\ nextId' = nextId + 1
  /\ UNCHANGED assoc

\* arena.<i>.destroy refuses automatic arenas and arenas with threads.
Destroyable(i) == arenas[i].kind = "explicit" /\ ~ Associated(i)

-----------------------------------------------------------------------------

Init ==
  /\ arenas = [i \in Indices |->
                 IF i < AutoArenas
                 THEN [kind |-> "auto", id |-> 0, table |-> DefaultTable]
                 ELSE NoArena]
  /\ narenas = AutoArenas
  /\ nextId = 1
  /\ assoc \in [Threads -> 0..(AutoArenas - 1)]
  /\ touched = [t \in Threads |-> {}]
  /\ inUse = {}
  /\ handle = [h \in Handles |-> Free]
  /\ numbers = {}
  /\ leaked = {}

validated_index(i) == i < ARENA_INDEX_LIMIT

\* The check create_with_raw_extent_hooks and set_raw_extent_hooks make.
accepts(table) == table \notin NoAlloc

\* Arena::create, create_with_extent_hooks and create_with_raw_extent_hooks.
\* An index that from_created_index rejects has been created all the same.
create(h, table) ==
  /\ handle[h] = Free
  /\ accepts(table)
  /\ \E i \in NewIndex :
       /\ CreateArena(i, table)
       /\ handle' = [handle EXCEPT ![h] =
                       IF validated_index(i) THEN Held(i, TRUE, nextId) ELSE Free]
  /\ UNCHANGED <<touched, inUse, numbers, leaked>>

\* A non-owning Arena value for index i: from_index, current and lookup.
Borrow(h, i) ==
  /\ handle[h] = Free
  /\ validated_index(i)
  /\ handle' = [handle EXCEPT ![h] = Held(i, FALSE, arenas[i].id)]

from_index(h, i) ==
  /\ Live(i)                                         \* contract
  /\ Borrow(h, i)
  /\ UNCHANGED <<jemallocVars, touched, inUse, numbers, leaked>>

\* Bug: the handle of the current arena is an owning one.
current_Owned(h, t) ==
  /\ handle[h] = Free
  /\ handle' = [handle EXCEPT ![h] = Held(assoc[t], TRUE, arenas[assoc[t]].id)]
  /\ UNCHANGED <<jemallocVars, touched, inUse, numbers, leaked>>

current(h, t) ==
  /\ Borrow(h, assoc[t])
  /\ UNCHANGED <<jemallocVars, touched, inUse, numbers, leaked>>

lookup(h, i) ==
  /\ i \in inUse                                     \* contract
  /\ Borrow(h, i)
  /\ UNCHANGED <<jemallocVars, touched, inUse, numbers, leaked>>

\* Ownership is taken back of an index that has no owner: one returned by
\* into_index, or one whose best-effort drop jemalloc refused.  The contract
\* is that the caller knows it to be such an index.
from_owned_index(h, i) ==
  /\ handle[h] = Free
  /\ validated_index(i)
  /\ \/ /\ [index |-> i, id |-> arenas[i].id] \in numbers
        /\ numbers' = numbers \ {[index |-> i, id |-> arenas[i].id]}
        /\ UNCHANGED leaked
     \/ /\ arenas[i].id \in leaked
        /\ leaked' = leaked \ {arenas[i].id}
        /\ UNCHANGED numbers
  /\ handle' = [handle EXCEPT ![h] = Held(i, TRUE, arenas[i].id)]
  /\ UNCHANGED <<jemallocVars, touched, inUse>>

\* Bug: the destructor still runs after the index was given away.
into_index_Armed(h) ==
  /\ handle[h].place = "held"
  /\ numbers' = IF handle[h].owned
                THEN numbers \cup {[index |-> handle[h].index, id |-> handle[h].id]}
                ELSE numbers
  /\ IF handle[h].owned /\ Destroyable(handle[h].index) /\ Flushed(handle[h].index)
     THEN arenas' = [arenas EXCEPT ![handle[h].index] = NoArena]
     ELSE UNCHANGED arenas
  /\ handle' = [handle EXCEPT ![h] = Free]
  /\ UNCHANGED <<narenas, nextId, assoc, touched, inUse, leaked>>

\* The owner is disarmed, and its implicit drop does nothing.
into_index(h) ==
  /\ handle[h].place = "held"
  /\ numbers' = IF handle[h].owned
                THEN numbers \cup {[index |-> handle[h].index, id |-> handle[h].id]}
                ELSE numbers
  /\ handle' = [handle EXCEPT ![h] = Free]
  /\ UNCHANGED <<jemallocVars, touched, inUse, leaked>>

\* Arena::set_current: the thread's association is exchanged, and the
\* previous one comes back as a non-owning handle g.
set_current(h, t, g) ==
  /\ handle[h].place = "held"
  /\ Valid(h)                                        \* contract
  /\ assoc' = [assoc EXCEPT ![t] = handle[h].index]
  /\ Borrow(g, assoc[t])
  /\ UNCHANGED <<arenas, narenas, nextId, touched, inUse, numbers, leaked>>

\* Arena::reset: only through an owner; every allocation is discarded.
reset(h) ==
  /\ handle[h].place = "held"
  /\ handle[h].owned
  /\ Flushed(handle[h].index)                        \* contract
  /\ inUse' = inUse \ {handle[h].index}
  /\ UNCHANGED <<jemallocVars, touched, handle, numbers, leaked>>

\* Arena::set_extent_hooks and set_raw_extent_hooks.
set_extent_hooks(h, table) ==
  /\ handle[h].place = "held"
  /\ Valid(h)                                        \* contract
  /\ accepts(table)
  /\ arenas' = [arenas EXCEPT ![handle[h].index].table = table]
  /\ UNCHANGED <<narenas, nextId, assoc, touched, inUse, handle, numbers, leaked>>

\* The command arena.<i>.destroy went through: its index is free again.
Destroyed(i) ==
  /\ Destroyable(i)
  /\ Flushed(i)                                      \* contract
  /\ arenas' = [arenas EXCEPT ![i] = NoArena]
  /\ inUse' = inUse \ {i}

\* The command failed, at jemalloc or in the lookup of its key.
NotDestroyed == UNCHANGED <<arenas, inUse>>

\* Bug: the handle is disarmed before the command is known to have succeeded.
try_destroy_EarlyDisarm(h) ==
  /\ handle[h].place = "held"
  /\ \/ /\ handle[h].owned
        /\ Destroyed(handle[h].index)
        /\ handle' = [handle EXCEPT ![h] = Free]
     \/ /\ NotDestroyed
        /\ handle' = [handle EXCEPT ![h].place = "error", ![h].owned = FALSE]
  /\ UNCHANGED <<narenas, nextId, assoc, touched, numbers, leaked>>

\* Arena::try_destroy: success consumes the handle; a failure, and the
\* refusal of a non-owning handle, returns it inside an ArenaDestroyError.
try_destroy(h) ==
  /\ handle[h].place = "held"
  /\ \/ /\ handle[h].owned
        /\ Destroyed(handle[h].index)
        /\ handle' = [handle EXCEPT ![h] = Free]
     \/ /\ NotDestroyed
        /\ handle' = [handle EXCEPT ![h].place = "error"]
  /\ UNCHANGED <<narenas, nextId, assoc, touched, numbers, leaked>>

\* ArenaDestroyError::into_parts.
into_parts(h) ==
  /\ handle[h].place = "error"
  /\ handle' = [handle EXCEPT ![h].place = "held"]
  /\ UNCHANGED <<jemallocVars, touched, inUse, numbers, leaked>>

\* Bug: the destructor does not look at `owned`.
drop_Unowned(h) ==
  /\ handle[h].place # "free"
  /\ \/ Destroyed(handle[h].index) /\ UNCHANGED leaked
     \/ NotDestroyed /\ leaked' = leaked \cup {handle[h].id}
  /\ handle' = [handle EXCEPT ![h] = Free]
  /\ UNCHANGED <<narenas, nextId, assoc, touched, numbers>>

\* Drop for Arena, and for the one inside a dropped ArenaDestroyError: an
\* owner tries to destroy its arena and ignores a failure.
drop(h) ==
  /\ handle[h].place # "free"
  /\ \/ ~ handle[h].owned /\ UNCHANGED <<arenas, inUse, leaked>>
     \/ handle[h].owned /\ Destroyed(handle[h].index) /\ UNCHANGED leaked
     \/ handle[h].owned /\ NotDestroyed /\ leaked' = leaked \cup {handle[h].id}
  /\ handle' = [handle EXCEPT ![h] = Free]
  /\ UNCHANGED <<narenas, nextId, assoc, touched, numbers>>

-----------------------------------------------------------------------------
(* What the threads of the program do with arenas *)

\* An allocation through the thread's association, by way of its cache.
Allocate(t) ==
  /\ inUse' = inUse \cup {assoc[t]}
  /\ touched' = [touched EXCEPT ![t] = @ \cup {assoc[t]}]
  /\ UNCHANGED <<jemallocVars, handle, numbers, leaked>>

\* An extended allocation with Arena::flags, past the automatic cache.
AllocateWithFlags(h) ==
  /\ handle[h].place = "held"
  /\ Valid(h)                                        \* contract
  /\ inUse' = inUse \cup {handle[h].index}
  /\ UNCHANGED <<jemallocVars, touched, handle, numbers, leaked>>

\* The last allocation of arena i is freed, into the cache of thread t.
Deallocate(t, i) ==
  /\ i \in inUse
  /\ inUse' = inUse \ {i}
  /\ touched' = [touched EXCEPT ![t] = @ \cup {i}]
  /\ UNCHANGED <<jemallocVars, handle, numbers, leaked>>

\* thread::this::flush.
flush(t) ==
  /\ touched' = [touched EXCEPT ![t] = {}]
  /\ UNCHANGED <<jemallocVars, inUse, handle, numbers, leaked>>

Next ==
  \/ \E h \in Handles, table \in Tables : create(h, table) \/ set_extent_hooks(h, table)
  \/ \E h \in Handles, i \in Indices :
       from_index(h, i) \/ lookup(h, i) \/ from_owned_index(h, i)
  \/ \E h \in Handles, t \in Threads : current(h, t)
  \/ \E h, g \in Handles, t \in Threads : set_current(h, t, g)
  \/ \E h \in Handles : \/ into_index(h) \/ reset(h) \/ try_destroy(h)
                        \/ into_parts(h) \/ drop(h) \/ AllocateWithFlags(h)
  \/ \E t \in Threads : Allocate(t) \/ flush(t) \/ \E i \in Indices : Deallocate(t, i)

Spec == Init /\ [][Next]_vars

-----------------------------------------------------------------------------
(* Properties *)

\* The handles that will destroy an arena, and the indices an owner gave up.
Owner(h) == handle[h].place # "free" /\ handle[h].owned

IsExplicit(i, id) == arenas[i].kind = "explicit" /\ arenas[i].id = id

\* An owner, wherever it is (in the program's hands, inside an error, or just
\* a number), names the very arena it was created with: never a destroyed
\* one, nor another arena that was given the recycled index.  Otherwise the
\* next drop would destroy somebody else's arena.
OwnersAreLive ==
  /\ \A h \in Handles : Owner(h) => IsExplicit(handle[h].index, handle[h].id)
  /\ \A n \in numbers : IsExplicit(n.index, n.id)

\* An arena has at most one owner: no two handles, and no handle and number,
\* will both destroy it.
OneOwner ==
  /\ \A h, g \in Handles :
       Owner(h) /\ Owner(g) /\ h # g => handle[h].id # handle[g].id
  /\ \A h \in Handles, n \in numbers : Owner(h) => handle[h].id # n.id
  /\ \A h \in Handles : Owner(h) => handle[h].id \notin leaked
  /\ \A n \in numbers : n.id \notin leaked

\* Both: what an owner owns is alive, and its alone.
OwnersAreExclusive == OwnersAreLive /\ OneOwner

\* No explicit arena is lost: it has an owner, unless its owner was dropped
\* while jemalloc refused to destroy it.  In particular "an owning handle
\* remains owning after a failed command" (arena.rs:613) and an error that is
\* dropped or taken apart takes the arena with it.
NoArenaLost ==
  \A i \in Indices : arenas[i].kind = "explicit" =>
    \/ \E h \in Handles : Owner(h) /\ handle[h].id = arenas[i].id
    \/ \E n \in numbers : n.id = arenas[i].id
    \/ arenas[i].id \in leaked

\* A thread is never left associated with a destroyed arena, and no memory in
\* use, or in a thread's cache, belongs to one.
NothingInDeadArenas ==
  /\ \A t \in Threads : Live(assoc[t]) /\ \A i \in touched[t] : Live(i)
  /\ \A i \in inUse : Live(i)

\* The refinement mapping: an arena is known by its ghost id.
born == 1..(nextId - 1)
alive == {arenas[i].id : i \in {j \in Indices : arenas[j].kind = "explicit"}}
owns == [h \in Handles |-> IF Owner(h) THEN {handle[h].id} ELSE {}]

\* Through recycled indices, borrowed handles, numbers and failed commands,
\* an Arena keeps the promise of an owning handle: an arena is destroyed only
\* at the end of the one handle that owns it, and ownership is taken back
\* only of an arena that is alive and has no owner.
OwnedArena == INSTANCE OwnedResource WITH Resources <- 1..MaxId
ImplementsOwnedResource == OwnedArena!Spec

=============================================================================

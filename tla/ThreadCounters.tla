--------------------------- MODULE ThreadCounters ---------------------------
(***************************************************************************)
(* The byte counters of a thread: thread/counters.rs, which loads them     *)
(* through pointers taken once, and allocated and deallocated of           *)
(* thread/this.rs, which are control calls.  A block may be freed by       *)
(* another thread than the one that allocated it; jemalloc counts it where *)
(* it is freed.  The counters are of one word and wrap.  A handle is       *)
(* neither Send nor Sync: handle[t] is on t.                               *)
(***************************************************************************)
EXTENDS Integers, FiniteSetsExt, ProgramThreads

CONSTANTS
  Blocks,
  Sizes,       \* the sizes of blocks
  W,           \* the counters are modulo W (2^64 in the code)
  MaxTotal     \* bound on what one thread allocates, or frees, in all

ASSUME CountersAssumption ==
  /\ IsFiniteSet(Threads) /\ IsFiniteSet(Blocks)
  /\ Sizes \subseteq Nat \ {0} /\ W \in Nat \ {0} /\ MaxTotal \in Nat

Kinds == {"allocated", "deallocated"}
Cells == Kinds \X Threads

VARIABLES
  cell,     \* cell[k, t]: jemalloc's counter k of thread t
  total,    \* ghost: the same without a modulus
  size,     \* size[b]: the size of block b, 0 if it is not allocated
  handle,   \* handle[t]: t's ThreadCounters, a cell for each kind
  mark      \* mark[t]: t's earlier observation, with the ghost totals

countersVars == <<cell, total, size, handle, mark>>

NoRecord == [tag |-> "none"]

CountersInit ==
  /\ cell = [c \in Cells |-> 0]
  /\ total = [c \in Cells |-> 0]
  /\ size = [b \in Blocks |-> 0]
  /\ handle = [t \in Threads |-> NoRecord]
  /\ mark = [t \in Threads |-> NoRecord]

-----------------------------------------------------------------------------
(* jemalloc *)

Count(k, t, n) ==
  /\ total[<<k, t>>] + n <= MaxTotal
  /\ total' = [total EXCEPT ![<<k, t>>] = @ + n]
  /\ cell' = [cell EXCEPT ![<<k, t>>] = (@ + n) % W]
  /\ UNCHANGED <<handle, mark>>

Allocate(t, b, n) ==
  /\ size[b] = 0
  /\ size' = [size EXCEPT ![b] = n]
  /\ Count("allocated", t, n)

Deallocate(t, b) ==
  /\ size[b] # 0
  /\ size' = [size EXCEPT ![b] = 0]
  /\ Count("deallocated", t, size[b])

-----------------------------------------------------------------------------
(* The calls *)

\* Bug: the two keys are exchanged.
KeyOf_Exchanged(k) == CHOOSE j \in Kinds : j # k

\* The counter each pointer is asked for: thread.allocatedp and
\* thread.deallocatedp.
KeyOf(k) == k

\* ThreadCounters::current.  A key that is refused or a null pointer is an
\* error, and there is no handle.
current(t) ==
  /\ handle' = [handle EXCEPT ![t] =
                  [tag |-> "some", at |-> [k \in Kinds |-> <<KeyOf(k), t>>]]]
  /\ UNCHANGED <<cell, total, size, mark>>

\* ThreadCounters::allocated and deallocated: a load through the pointer.
Load(t, k) == cell[handle[t].at[k]]

\* this::allocated and deallocated: a control call on the thread itself.
Query(t, k) == cell[<<k, t>>]

\* The thread observes its counters, by control calls or through its handle.
Observe(t, Value(_, _)) ==
  /\ mark' = [mark EXCEPT ![t] =
       [tag |-> "some", value |-> [k \in Kinds |-> Value(t, k)],
        total |-> [k \in Kinds |-> total[<<k, t>>]]]]
  /\ UNCHANGED <<cell, total, size, handle>>

ObserveByCalls(t) == Observe(t, Query)
ObserveByHandle(t) == handle[t] # NoRecord /\ Observe(t, Load)

CountersNext ==
  \/ \E t \in Threads, b \in Blocks :
       Deallocate(t, b) \/ \E n \in Sizes : Allocate(t, b, n)
  \/ \E t \in Threads : current(t) \/ ObserveByCalls(t) \/ ObserveByHandle(t)

CountersSpec == CountersInit /\ [][CountersNext]_countersVars

-----------------------------------------------------------------------------
(* Properties *)

\* The difference of two observations, taken modulo the word, is the number of
\* bytes the thread itself has allocated or freed in between: also when the
\* counter wrapped ("The counter can wrap", counters.rs:55), when other threads
\* freed its blocks, and when one observation was a control call and the other
\* a load through the handle.
DifferencesAreExact ==
  \A t \in Threads, k \in Kinds :
    handle[t] # NoRecord /\ mark[t] # NoRecord =>
      LET done == total[<<k, t>>] - mark[t].total[k]
      IN  done < W => (Load(t, k) - mark[t].value[k]) % W = done

\* What the handles of all the threads report adds up to the bytes in use,
\* whoever freed what.
UseAddsUp ==
  (\A t \in Threads : handle[t] # NoRecord) =>
    (SumFunction([t \in Threads |-> Load(t, "allocated") - Load(t, "deallocated")])
       - SumFunction(size)) % W = 0

=============================================================================

---------------------------- MODULE AtomicMemory ----------------------------
(***************************************************************************)
(* The atomic cells of core::sync::atomic, as far as jevmalloc uses them:  *)
(* Relaxed and Acquire loads, Relaxed and Release stores, no fences and no *)
(* read-modify-write.  The model is the usual timestamped one: a location  *)
(* is the set of messages ever stored to it, a timestamp places a message  *)
(* in the location's modification order, and a thread's view is, for every *)
(* location, the oldest message it may still read.                         *)
(*                                                                         *)
(*   - A load may read any message that is not older than the view.        *)
(*   - A store takes any free timestamp above the view, so two unordered   *)
(*     stores land in either order.                                        *)
(*   - A Release store attaches the thread's whole view to the message; a  *)
(*     Relaxed one attaches only the message's own timestamp.              *)
(*   - An Acquire load joins the message's view into the thread's; a       *)
(*     Relaxed one only advances the view of the location it reads.        *)
(***************************************************************************)
EXTENDS Integers

CONSTANTS
  Threads,    \* the threads of the process
  Locations,  \* the atomic cells
  MaxTime     \* bound on the timestamps of one location

ASSUME MaxTimeAssumption == MaxTime \in Nat

VARIABLES
  mem,        \* mem[l]: the messages stored to location l
  view        \* view[t][l]: the oldest message of l that t may read

memoryVars == <<mem, view>>

View == [Locations -> Nat]

Message == [ts : Nat, val : Nat, view : View]

ZeroView == [l \in Locations |-> 0]

\* AtomicUsize::new(0), in a static: every thread starts out seeing it.
MemoryInit ==
  /\ mem = [l \in Locations |-> {[ts |-> 0, val |-> 0, view |-> ZeroView]}]
  /\ view = [t \in Threads |-> ZeroView]

\* The messages of l that t may read.
Readable(t, l) == {m \in mem[l] : m.ts >= view[t][l]}

\* The pointwise maximum of two views.
Join(v, w) == [l \in Locations |-> IF v[l] >= w[l] THEN v[l] ELSE w[l]]

\* Thread t reads message m with Ordering::Acquire or Ordering::Relaxed.
LoadAcquire(t, m) == view' = [view EXCEPT ![t] = Join(@, m.view)]

LoadRelaxed(t, l, m) == view' = [view EXCEPT ![t][l] = m.ts]

\* The timestamps at which t may store to l.
FreeTimes(t, l) ==
  {ts \in 1..MaxTime : ts > view[t][l] /\ \A m \in mem[l] : m.ts # ts}

\* Thread t stores v to l with Ordering::Relaxed or Ordering::Release.
StoreRelaxed(t, l, v) ==
  \E ts \in FreeTimes(t, l) :
    /\ mem' = [mem EXCEPT ![l] = @ \cup
                 {[ts |-> ts, val |-> v, view |-> [ZeroView EXCEPT ![l] = ts]]}]
    /\ view' = [view EXCEPT ![t][l] = ts]

StoreRelease(t, l, v) ==
  \E ts \in FreeTimes(t, l) :
    /\ mem' = [mem EXCEPT ![l] = @ \cup
                 {[ts |-> ts, val |-> v, view |-> [view[t] EXCEPT ![l] = ts]]}]
    /\ view' = [view EXCEPT ![t][l] = ts]

\* Thread t hands a value over to u: moving anything between threads in safe
\* Rust orders what t did before with what u does after.
HandOverView(t, u) == view' = [view EXCEPT ![u] = Join(@, view[t])]

=============================================================================

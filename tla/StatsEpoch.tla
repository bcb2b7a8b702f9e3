----------------------------- MODULE StatsEpoch -----------------------------
(***************************************************************************)
(* The global statistics and their epoch (stats.rs).  jemalloc copies its  *)
(* counters into a snapshot on every refresh, any thread may refresh, and  *)
(* the getters of a related set are separate control calls.  A thread      *)
(* samples: it learns an epoch, calls getters, and asks for the epoch      *)
(* again.  A call that fails leaves the thread without that answer and is  *)
(* a stuttering step.  jemalloc answers each call under one lock.          *)
(*                                                                         *)
(* The counters of the bytes and of the pages in use stand for all those   *)
(* of the snapshot; zero_reallocs is read directly.  The mutex statistics, *)
(* which stats_reset clears, are read by no getter, and left out.          *)
(***************************************************************************)
EXTENDS Integers, FiniteSets

CONSTANTS
  Threads,
  Page,      \* bytes of a page
  MaxBytes,  \* bound on the bytes in use
  MaxAnswers, \* bound on the getters called for one sample
  MaxClock,  \* bound on the changes of the counters
  MaxEpoch   \* bound on the epoch, far below the 2^64 where it would wrap

ASSUME EpochAssumption ==
  /\ Page \in Nat \ {0} /\ MaxBytes \in Nat /\ MaxBytes % Page = 0
  /\ MaxAnswers \in Nat /\ MaxClock \in Nat /\ MaxEpoch \in Nat \ {0}

Cached == {"allocated", "active"}

VARIABLES
  live,      \* the allocator's counters
  clock,     \* ghost: the changes of the counters so far
  epoch,     \* jemalloc's epoch
  taken,     \* taken[e]: the snapshot of epoch e, and the clock it shows
  sample     \* sample[t]: what t has learned since it last saw a new epoch

epochVars == <<live, clock, epoch, taken, sample>>

\* The counters of an allocator in some state: the pages in use hold at least
\* the bytes in use.
Counters ==
  {c \in [allocated : 0..MaxBytes, active : 0..MaxBytes,
          zero_reallocs : 0..MaxClock] :
     c.active % Page = 0 /\ c.active >= c.allocated}

NoSample == [epoch |-> 0, since |-> 0, got |-> {}, confirmed |-> FALSE]

EpochInit ==
  /\ live = [allocated |-> 0, active |-> 0, zero_reallocs |-> 0]
  /\ clock = 0
  /\ epoch = 1
  /\ taken = [e \in 1..MaxEpoch |-> [counters |-> live, clock |-> 0]]
  /\ sample = [t \in Threads |-> NoSample]

-----------------------------------------------------------------------------
(* jemalloc *)

\* The program allocates and frees, and may reallocate memory to nothing.
Activity ==
  /\ clock < MaxClock
  /\ clock' = clock + 1
  /\ live' \in {c \in Counters :
                  c.zero_reallocs \in {live.zero_reallocs, live.zero_reallocs + 1}}
  /\ UNCHANGED <<epoch, taken, sample>>

Refresh ==
  /\ epoch < MaxEpoch
  /\ epoch' = epoch + 1
  /\ taken' = [taken EXCEPT ![epoch + 1] = [counters |-> live, clock |-> clock]]

\* Bug: a getter is a copy of another one, with that one's key.
KeyOf_Copied(getter) == IF getter = "active" THEN "allocated" ELSE getter

\* The key each getter reads: the one of its own name.
KeyOf(getter) == getter

-----------------------------------------------------------------------------
(* The calls *)

\* stats::epoch: seeing the epoch it already had, a thread knows that nobody
\* refreshed in between, and otherwise begins another sample.
get_epoch(t) ==
  /\ sample' = [sample EXCEPT ![t] =
       IF @.epoch = epoch THEN [@ EXCEPT !.confirmed = TRUE]
       ELSE [NoSample EXCEPT !.epoch = epoch, !.since = sample[t].since]]
  /\ UNCHANGED <<live, clock, epoch, taken>>

\* Bug: the epoch that was replaced is returned, as other exchanges do.
refresh_epoch_Previous(t) ==
  /\ Refresh
  /\ sample' = [sample EXCEPT ![t] =
                  [NoSample EXCEPT !.epoch = epoch, !.since = clock]]
  /\ UNCHANGED <<live, clock>>

\* stats::refresh_epoch: one exchange, which returns the new epoch.
refresh_epoch(t) ==
  /\ Refresh
  /\ sample' = [sample EXCEPT ![t] =
                  [NoSample EXCEPT !.epoch = epoch', !.since = clock]]
  /\ UNCHANGED <<live, clock>>

\* A getter's answer, and the ghost clock of the counters it shows.
Answer(t, getter, value, at) ==
  /\ Cardinality(sample[t].got) < MaxAnswers
  /\ sample' = [sample EXCEPT
       ![t].got = @ \cup {[stat |-> getter, value |-> value, clock |-> at]},
       ![t].confirmed = FALSE]
  /\ UNCHANGED <<live, clock, epoch, taken>>

\* stats::allocated, active, metadata, metadata_thp, resident, mapped, retained
\* and the three of the background threads.
get(t, getter) ==
  Answer(t, getter, taken[epoch].counters[KeyOf(getter)], taken[epoch].clock)

zero_reallocs(t) == Answer(t, "zero_reallocs", live.zero_reallocs, clock)

\* stats::print and print_raw: jemalloc refreshes before it prints, or prints
\* nothing.
PrintRefreshes(t) ==
  /\ Refresh
  /\ UNCHANGED <<live, clock, sample>>

EpochNext ==
  \/ Activity
  \/ \E t \in Threads : \/ get_epoch(t) \/ refresh_epoch(t) \/ zero_reallocs(t)
                        \/ PrintRefreshes(t)
                        \/ \E getter \in Cached : get(t, getter)

EpochSpec == EpochInit /\ [][EpochNext]_epochVars

-----------------------------------------------------------------------------
(* Properties *)

CachedAnswers(t) == {a \in sample[t].got : a.stat \in Cached}

\* "The value can be compared across observations to detect a refresh performed
\* by another thread" (stats.rs:27): a thread that finds the epoch it began
\* with, whatever the others did, has read values of the one moment of that
\* epoch, and so the pages hold the bytes.
ComparedSampleIsOneMoment ==
  \A t \in Threads : sample[t].confirmed =>
    /\ \A a \in CachedAnswers(t) :
         a.value = taken[sample[t].epoch].counters[a.stat]
    /\ \A a, b \in CachedAnswers(t) :
         a.stat = "allocated" /\ b.stat = "active" => b.value >= a.value

\* After refresh_epoch, whoever else refreshes, nothing that is read is older
\* than the refresh, and the epoch it returned is of a snapshot that is not.
ReadsAreFresh ==
  \A t \in Threads :
    /\ \A a \in sample[t].got : a.clock >= sample[t].since
    /\ sample[t].epoch # 0 => taken[sample[t].epoch].clock >= sample[t].since

=============================================================================

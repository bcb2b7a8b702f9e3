----------------------------- MODULE ExtentHooks ----------------------------
(***************************************************************************)
(* Stateful extent hook tables: arena/extent_hooks.rs.                     *)
(*                                                                         *)
(* An arena reaches its mappings through a table of C functions.  `new`    *)
(* fills the slots of that table with trampolines for the Rust callbacks   *)
(* that are there; a trampoline translates the request, calls back, and    *)
(* translates the outcome, whose C form is inverted: true is failure or    *)
(* opt-out.  jemalloc and the callbacks each keep books of the mappings:   *)
(* `extents` is jemalloc's view; `maps`, `committed` and `zero` are the    *)
(* callbacks' (and the operating system's).  The trampolines are all there *)
(* is to keep the books equal.                                             *)
(*                                                                         *)
(* jemalloc and the callbacks are external; callbacks honour the contracts *)
(* of jevmalloc-sys/src/extent.rs.  A mapping is a run of pages.           *)
(***************************************************************************)
EXTENDS Integers, FiniteSets

CONSTANTS
  N    \* the number of pages of the address space

ASSUME PagesAssumption == N \in Nat \ {0}

Pages == 0..(N - 1)

RangeKinds == {"commit", "decommit", "purge_lazy", "purge_forced"}

Hooks == {"alloc", "dalloc", "destroy", "split", "merge"} \cup RangeKinds

VARIABLES
  callbacks,   \* the Rust callbacks of the table
  raw,         \* the slots of its C header that hold a trampoline
  extents,     \* jemalloc: its mappings, and what it takes their memory for
  maps,        \* callbacks: the mappings, each a unit
  committed,   \* callbacks: the pages with memory behind them
  zero,        \* the pages that read as zero
  abandoned    \* mappings given up while the table had no destroy slot

vars == <<callbacks, raw, extents, maps, committed, zero, abandoned>>
tableVars == <<callbacks, raw>>

PagesOf(m) == m.base..(m.base + m.size - 1)

Map(base, size) == [base |-> base, size |-> size]

MapOf(e) == Map(e.base, e.size)

Extent(base, size, isCommitted, isZeroed) ==
  [base |-> base, size |-> size, committed |-> isCommitted, zeroed |-> isZeroed]

-----------------------------------------------------------------------------
(* The table and the way back *)

\* Bug: the destroy slot is filled when there is a dalloc callback.
new_DestroyFromDalloc(set) ==
  (set \ {"destroy"}) \cup (IF "dalloc" \in set THEN {"destroy"} ELSE {})

\* ExtentHooks::new: a slot for every callback, and for no other.
new(set) == set

\* What C sees of an outcome.
to_bool(result) == result = "Failure"

\* The outcomes of calling a slot: an empty slot is an opt-out, and so is a
\* trampoline that finds no callback; a callback succeeds or declines.
Outcomes(hook) ==
  IF hook \in raw /\ hook \in callbacks THEN {"Success", "Failure"} ELSE {"Failure"}

\* jemalloc's reading of what C sees.
Done(result) == ~ to_bool(result)

\* Bug: the two purges are mixed up.
range_Swapped(kind) ==
  CASE kind = "purge_lazy" -> "purge_forced"
    [] kind = "purge_forced" -> "purge_lazy"
    [] OTHER -> kind

\* The callback that `range` calls for the trampoline of a kind.
range(kind) == kind

-----------------------------------------------------------------------------

Init ==
  /\ callbacks \in {set \cup {"alloc"} : set \in SUBSET Hooks}   \* arena.rs
  /\ raw = new(callbacks)
  /\ extents = {} /\ maps = {} /\ committed = {} /\ zero = {} /\ abandoned = {}

\* Bug: the two output flags are exchanged.
alloc_FlagsExchanged(base, size, isZeroed, isCommitted) ==
  Extent(base, size, isZeroed, isCommitted)

\* What jemalloc learns from a successful alloc: the trampoline stores both
\* flags of the callback's answer through the pointers it was given.
alloc_Answer(base, size, isZeroed, isCommitted) ==
  Extent(base, size, isCommitted, isZeroed)

\* The alloc trampoline; a callback that declines changes nothing.  A request
\* names an address (a fixed one) or not, and may ask for zeroed or committed
\* memory; the callback may give more than it was asked for.
alloc(base, size, wantZeroed, wantCommitted) ==
  /\ base + size <= N
  /\ \E isZeroed, isCommitted \in BOOLEAN :
       LET pages == base..(base + size - 1)
       IN  /\ \A m \in maps : pages \cap PagesOf(m) = {}
           /\ wantZeroed => isZeroed
           /\ wantCommitted => isCommitted
           /\ maps' = maps \cup {Map(base, size)}
           /\ committed' = IF isCommitted THEN committed \cup pages ELSE committed
           /\ zero' = IF isZeroed THEN zero \cup pages ELSE zero \ pages
           /\ extents' = extents \cup {alloc_Answer(base, size, isZeroed, isCommitted)}
  /\ UNCHANGED <<tableVars, abandoned>>

\* The mapping is given back to the operating system.
Unmap(m) ==
  /\ maps' = maps \ {m}
  /\ committed' = committed \ PagesOf(m)
  /\ zero' = zero \ PagesOf(m)

\* The dalloc trampoline: an extent that was not released is retained.
dalloc(e) ==
  \E result \in Outcomes("dalloc") :
    /\ IF result = "Success" THEN Unmap(MapOf(e)) ELSE UNCHANGED <<maps, committed, zero>>
    /\ extents' = IF Done(result) THEN extents \ {e} ELSE extents
    /\ UNCHANGED <<tableVars, abandoned>>

\* The destroy trampoline: jemalloc forgets the extent in any case.
destroy(e) ==
  /\ extents' = extents \ {e}
  /\ IF "destroy" \in raw
     THEN /\ IF "destroy" \in callbacks
             THEN Unmap(MapOf(e))
             ELSE UNCHANGED <<maps, committed, zero>>
          /\ UNCHANGED abandoned
     ELSE /\ abandoned' = abandoned \cup {MapOf(e)}
          /\ UNCHANGED <<maps, committed, zero>>
  /\ UNCHANGED tableVars

\* What the callbacks do to a run of pages.  Committing brings zeroed memory;
\* a lazy purge leaves the pages as they are or zeroes them, some time later.
RangeEffect(callback, pages) ==
  /\ committed' = CASE callback = "commit" -> committed \cup pages
                    [] callback = "decommit" -> committed \ pages
                    [] OTHER -> committed
  /\ \/ callback \in {"commit", "purge_forced", "purge_lazy"} /\ zero' = zero \cup pages
     \/ callback \in {"decommit", "purge_lazy"} /\ zero' = zero

\* What jemalloc takes an extent for after a range operation on all of it.
RangeBelief(kind, e) ==
  CASE kind = "commit" -> [e EXCEPT !.committed = TRUE]
    [] kind = "decommit" -> [e EXCEPT !.committed = FALSE, !.zeroed = TRUE]
    [] kind = "purge_forced" -> [e EXCEPT !.zeroed = TRUE]
    [] kind = "purge_lazy" -> [e EXCEPT !.zeroed = FALSE]

\* The pages a range request stands for: `length` of them from `offset` on.
RangePages(e, offset, length) == (e.base + offset)..(e.base + offset + length - 1)

\* The trampolines commit, decommit, purge_lazy and purge_forced, by way of
\* `range`.  jemalloc purges parts of committed extents, and draws no
\* conclusion from that; it commits and decommits whole ones.
RangeOperation(kind, e, offset, length) ==
  LET whole == length = e.size
  IN  /\ offset + length <= e.size
      /\ (kind \in {"commit", "decommit"}) => whole
      /\ (kind = "commit") <=> ~ e.committed
      /\ \E result \in Outcomes(range(kind)) :
           /\ IF result = "Success"
              THEN RangeEffect(range(kind), RangePages(e, offset, length))
              ELSE UNCHANGED <<committed, zero>>
           /\ extents' = IF Done(result) /\ whole
                         THEN (extents \ {e}) \cup {RangeBelief(kind, e)}
                         ELSE extents
      /\ UNCHANGED <<tableVars, maps, abandoned>>

\* The split trampoline.
split(e, first) ==
  /\ first < e.size
  /\ \E result \in Outcomes("split") :
       /\ maps' = IF result = "Success"
                  THEN (maps \ {MapOf(e)}) \cup {Map(e.base, first),
                                                Map(e.base + first, e.size - first)}
                  ELSE maps
       /\ extents' = IF Done(result)
                     THEN (extents \ {e}) \cup
                            {[e EXCEPT !.size = first],
                             [e EXCEPT !.base = e.base + first, !.size = e.size - first]}
                     ELSE extents
  /\ UNCHANGED <<tableVars, committed, zero, abandoned>>

\* The merge trampoline, for adjacent extents in the same commit state.
merge(e, f) ==
  /\ e.base + e.size = f.base
  /\ e.committed = f.committed
  /\ \E result \in Outcomes("merge") :
       /\ maps' = IF result = "Success"
                  THEN (maps \ {MapOf(e), MapOf(f)}) \cup {Map(e.base, e.size + f.size)}
                  ELSE maps
       /\ extents' = IF Done(result)
                     THEN (extents \ {e, f}) \cup
                            {[e EXCEPT !.size = e.size + f.size,
                                       !.zeroed = e.zeroed /\ f.zeroed]}
                     ELSE extents
  /\ UNCHANGED <<tableVars, committed, zero, abandoned>>

\* jemalloc hands out memory of a committed extent, and it is written to.
Write(e) ==
  /\ e.committed
  /\ zero' = zero \ PagesOf(e)
  /\ extents' = (extents \ {e}) \cup {[e EXCEPT !.zeroed = FALSE]}
  /\ UNCHANGED <<tableVars, maps, committed, abandoned>>

Next ==
  \/ \E base \in Pages, size \in 1..N, z, c \in BOOLEAN : alloc(base, size, z, c)
  \/ \E e \in extents :
       \/ dalloc(e) \/ destroy(e) \/ Write(e)
       \/ \E first \in 1..N : split(e, first)
       \/ \E f \in extents : merge(e, f)
       \/ \E kind \in RangeKinds, offset \in 0..N, length \in 1..N :
            RangeOperation(kind, e, offset, length)

Spec == Init /\ [][Next]_vars

-----------------------------------------------------------------------------
(* Properties *)

\* jemalloc and the callbacks have the same mappings, divided the same way:
\* none is used after the callback released it, none is kept by the callback
\* after jemalloc forgot it (but for destruction without a destroy slot), and
\* splits and merges that were declined happened on neither side.
ViewsAgree == maps = {MapOf(e) : e \in extents} \cup abandoned

\* jemalloc never takes decommitted memory for committed, which it would hand
\* out, nor the reverse, whichever of the cleanup steps were declined.
CommitAgrees ==
  \A e \in extents :
    IF e.committed THEN PagesOf(e) \subseteq committed
                   ELSE PagesOf(e) \cap committed = {}

\* Memory that jemalloc takes for zeroed, and will not clear for a caller who
\* asked for zeroes, reads as zero.
ZeroedReadsZero ==
  \A e \in extents : e.committed /\ e.zeroed => PagesOf(e) \subseteq zero

=============================================================================

------------------------- MODULE ExtentHooksProofs --------------------------
(***************************************************************************)
(* Proofs about ExtentHooks, for an address space of any size and every    *)
(* table of callbacks.                                                     *)
(***************************************************************************)
EXTENDS ExtentHooks, TLAPS

MapRecord == [base : Nat, size : Nat \ {0}]

ExtentRecord ==
  [base : Nat, size : Nat \ {0}, committed : BOOLEAN, zeroed : BOOLEAN]

TypeOK ==
  /\ callbacks \in SUBSET Hooks
  /\ raw = callbacks
  /\ extents \in SUBSET ExtentRecord
  /\ maps \in SUBSET MapRecord
  /\ abandoned \in SUBSET MapRecord

Disjoint(a, b) == PagesOf(a) \cap PagesOf(b) = {}

\* No page belongs to two of jemalloc's extents, or to one and to a mapping
\* that was given up.
Division ==
  /\ \A e, f \in extents : e # f => Disjoint(e, f)
  /\ \A e \in extents, m \in abandoned : Disjoint(e, m)

\* Memory is committed only where there is a mapping, so that a new mapping
\* that the callback did not commit has none.
CommittedIsMapped == \A p \in committed : \E m \in maps : p \in PagesOf(m)

\* The inductive invariant: an operation on one extent leaves the books on
\* the others right because extents do not overlap.
IInv ==
  /\ TypeOK
  /\ Division
  /\ CommittedIsMapped
  /\ ViewsAgree
  /\ CommitAgrees
  /\ ZeroedReadsZero

-----------------------------------------------------------------------------

\* An extent and its mapping are the same pages, and not none.
LEMMA MapFacts ==
  ASSUME NEW e \in ExtentRecord
  PROVE  /\ MapOf(e) \in MapRecord
         /\ PagesOf(MapOf(e)) = PagesOf(e)
         /\ e.base \in PagesOf(e)
         /\ \A f \in ExtentRecord : MapOf(f) = MapOf(e) =>
              PagesOf(f) = PagesOf(e) /\ f.base = e.base /\ f.size = e.size
BY DEF MapOf, Map, MapRecord, PagesOf, ExtentRecord

\* A record of an extent stays one when it is moved or resized.
LEMMA Resized ==
  ASSUME NEW e \in ExtentRecord, NEW base \in Nat, NEW size \in Nat \ {0}
  PROVE  /\ [e EXCEPT !.size = size] \in ExtentRecord
         /\ [e EXCEPT !.base = base, !.size = size] \in ExtentRecord
BY DEF ExtentRecord

LEMMA OutcomeFacts ==
  ASSUME NEW hook, NEW result \in Outcomes(hook)
  PROVE  Done(result) <=> result = "Success"
BY DEF Outcomes, Done, to_bool

\* The mappings are those of the extents and the abandoned ones, and an
\* extent's mapping is its alone.
LEMMA OwnMapping ==
  ASSUME IInv, NEW e \in extents
  PROVE  /\ MapOf(e) \in maps
         /\ MapOf(e) \notin abandoned
         /\ \A f \in extents : f # e => MapOf(f) # MapOf(e)
<1>1. e \in ExtentRecord /\ \A f \in extents : f \in ExtentRecord
  BY DEF IInv, TypeOK
<1>2. PagesOf(MapOf(e)) = PagesOf(e) /\ e.base \in PagesOf(e)
  BY <1>1, MapFacts
<1>3. MapOf(e) \in maps
  BY DEF IInv, ViewsAgree
<1>4. MapOf(e) \notin abandoned
  BY <1>2 DEF IInv, Division, Disjoint
<1>5. ASSUME NEW f \in extents, f # e, MapOf(f) = MapOf(e)
      PROVE  FALSE
  <2>1. PagesOf(f) = PagesOf(e)
    BY <1>1, <1>5, MapFacts
  <2>2. QED
    BY <1>2, <1>5, <2>1 DEF IInv, Division, Disjoint
<1>6. QED
  BY <1>3, <1>4, <1>5

LEMMA InitIInv == Init => IInv
BY DEF Init, new, Hooks, IInv, TypeOK, Division, CommittedIsMapped, ViewsAgree,
       CommitAgrees, ZeroedReadsZero

\* A new mapping overlaps none there is.
LEMMA AllocStep ==
  ASSUME IInv, NEW base \in Pages, NEW size \in 1..N, NEW z \in BOOLEAN, NEW c \in BOOLEAN,
         alloc(base, size, z, c)
  PROVE  IInv'
<1> USE DEF IInv
<1>1. PICK isZeroed \in BOOLEAN, isCommitted \in BOOLEAN :
        LET pages == base..(base + size - 1)
        IN  /\ \A m \in maps : pages \cap PagesOf(m) = {}
            /\ maps' = maps \cup {Map(base, size)}
            /\ committed' = IF isCommitted THEN committed \cup pages ELSE committed
            /\ zero' = IF isZeroed THEN zero \cup pages ELSE zero \ pages
            /\ extents' = extents \cup {alloc_Answer(base, size, isZeroed, isCommitted)}
  BY DEF alloc
<1>2. UNCHANGED <<callbacks, raw, abandoned>>
  BY DEF alloc, tableVars
<1>3. PICK n : n = alloc_Answer(base, size, isZeroed, isCommitted)
  OBVIOUS
<1>4. /\ n \in ExtentRecord /\ n.base = base /\ n.size = size
      /\ n.committed = isCommitted /\ n.zeroed = isZeroed
  BY <1>3, PagesAssumption DEF alloc_Answer, Extent, ExtentRecord, Pages
<1>5. /\ MapOf(n) = Map(base, size) /\ MapOf(n) \in MapRecord
      /\ PagesOf(n) = base..(base + size - 1)
      /\ PagesOf(MapOf(n)) = PagesOf(n)
  BY <1>4, MapFacts DEF MapOf, PagesOf
<1>6. /\ \A m \in maps : PagesOf(n) \cap PagesOf(m) = {}
      /\ maps' = maps \cup {MapOf(n)}
      /\ extents' = extents \cup {n}
      /\ committed' = IF n.committed THEN committed \cup PagesOf(n) ELSE committed
      /\ zero' = IF n.zeroed THEN zero \cup PagesOf(n) ELSE zero \ PagesOf(n)
  BY <1>1, <1>3, <1>4, <1>5
<1>7. /\ \A e \in extents : PagesOf(n) \cap PagesOf(e) = {}
      /\ \A m \in abandoned : PagesOf(n) \cap PagesOf(m) = {}
      /\ PagesOf(n) \cap committed = {}
  <2>1. \A e \in extents : e \in ExtentRecord /\ MapOf(e) \in maps
                           /\ PagesOf(MapOf(e)) = PagesOf(e)
    BY MapFacts, OwnMapping DEF TypeOK
  <2>2. abandoned \subseteq maps
    BY DEF ViewsAgree
  <2>3. QED
    BY <1>6, <2>1, <2>2 DEF CommittedIsMapped
<1>8. TypeOK'
  BY <1>2, <1>4, <1>5, <1>6 DEF TypeOK
<1>9. Division'
  BY <1>2, <1>6, <1>7 DEF Division, Disjoint
<1>10. CommittedIsMapped'
  BY <1>5, <1>6 DEF CommittedIsMapped
<1>11. ViewsAgree'
  BY <1>2, <1>6 DEF ViewsAgree
<1>12. CommitAgrees'
  BY <1>6, <1>7 DEF CommitAgrees
<1>13. ZeroedReadsZero'
  BY <1>6, <1>7 DEF ZeroedReadsZero
<1>14. QED
  BY <1>8, <1>9, <1>10, <1>11, <1>12, <1>13

\* The mapping of an extent is released on both sides.
LEMMA UnmapStep ==
  ASSUME IInv, NEW e \in extents, Unmap(MapOf(e)), extents' = extents \ {e},
         UNCHANGED <<callbacks, raw, abandoned>>
  PROVE  IInv'
<1> USE DEF IInv
<1>1. /\ e \in ExtentRecord /\ PagesOf(MapOf(e)) = PagesOf(e)
      /\ \A f \in extents \ {e} : PagesOf(f) \cap PagesOf(e) = {}
  BY MapFacts DEF TypeOK, Division, Disjoint
<1>2. /\ maps' = maps \ {MapOf(e)}
      /\ committed' = committed \ PagesOf(e)
      /\ zero' = zero \ PagesOf(e)
  BY <1>1 DEF Unmap
<1>3. TypeOK' /\ Division'
  BY <1>2 DEF TypeOK, Division
<1>4. CommittedIsMapped'
  BY <1>1, <1>2 DEF CommittedIsMapped
<1>5. ViewsAgree'
  BY <1>2, OwnMapping DEF ViewsAgree
<1>6. CommitAgrees' /\ ZeroedReadsZero'
  BY <1>1, <1>2 DEF CommitAgrees, ZeroedReadsZero
<1>7. QED
  BY <1>3, <1>4, <1>5, <1>6

\* Nothing happened on either side.
LEMMA StutterStep ==
  ASSUME IInv, UNCHANGED vars
  PROVE  IInv'
BY DEF IInv, vars, TypeOK, Division, CommittedIsMapped, ViewsAgree, CommitAgrees,
       ZeroedReadsZero

LEMMA DallocStep ==
  ASSUME IInv, NEW e \in extents, dalloc(e)
  PROVE  IInv'
<1>1. PICK result \in Outcomes("dalloc") :
        /\ IF result = "Success" THEN Unmap(MapOf(e)) ELSE UNCHANGED <<maps, committed, zero>>
        /\ extents' = IF Done(result) THEN extents \ {e} ELSE extents
        /\ UNCHANGED <<tableVars, abandoned>>
  BY DEF dalloc
<1>2. CASE result = "Success"
  BY <1>1, <1>2, OutcomeFacts, UnmapStep DEF tableVars
<1>3. CASE result # "Success"
  BY <1>1, <1>3, OutcomeFacts, StutterStep DEF tableVars, vars
<1>4. QED
  BY <1>2, <1>3

\* jemalloc forgets a mapping that stays: it is accounted for as abandoned.
LEMMA AbandonStep ==
  ASSUME IInv, NEW e \in extents, extents' = extents \ {e},
         abandoned' = abandoned \cup {MapOf(e)},
         UNCHANGED <<callbacks, raw, maps, committed, zero>>
  PROVE  IInv'
<1> USE DEF IInv
<1>1. /\ e \in ExtentRecord /\ PagesOf(MapOf(e)) = PagesOf(e) /\ MapOf(e) \in MapRecord
  BY MapFacts DEF TypeOK
<1>2. TypeOK'
  BY <1>1 DEF TypeOK
<1>3. Division'
  BY <1>1 DEF Division, Disjoint
<1>4. ViewsAgree'
  BY DEF ViewsAgree
<1>5. CommittedIsMapped' /\ CommitAgrees' /\ ZeroedReadsZero'
  BY DEF CommittedIsMapped, CommitAgrees, ZeroedReadsZero
<1>6. QED
  BY <1>2, <1>3, <1>4, <1>5

\* The slot is filled exactly where there is a callback, so that the middle
\* case of the trampoline does not arise.
LEMMA DestroyStep ==
  ASSUME IInv, NEW e \in extents, destroy(e)
  PROVE  IInv'
<1>1. raw = callbacks /\ extents' = extents \ {e} /\ UNCHANGED <<callbacks, raw>>
  BY DEF IInv, TypeOK, destroy, tableVars
<1>2. CASE "destroy" \in raw
  BY <1>1, <1>2, UnmapStep DEF destroy
<1>3. CASE "destroy" \notin raw
  BY <1>1, <1>3, AbandonStep DEF destroy
<1>4. QED
  BY <1>2, <1>3

\* jemalloc takes the memory of an extent for something else: its pages stay,
\* and the callbacks touched no other page.
LEMMA BeliefStep ==
  ASSUME IInv, NEW e \in extents, NEW n \in ExtentRecord,
         n.base = e.base, n.size = e.size,
         extents' = (extents \ {e}) \cup {n},
         IF n.committed THEN committed' = committed \cup PagesOf(e)
                        ELSE committed' = committed \ PagesOf(e),
         n.committed /\ n.zeroed => PagesOf(e) \subseteq zero',
         zero \ PagesOf(e) \subseteq zero',
         UNCHANGED <<callbacks, raw, maps, abandoned>>
  PROVE  IInv'
<1> USE DEF IInv
<1>1. /\ e \in ExtentRecord /\ PagesOf(MapOf(e)) = PagesOf(e) /\ MapOf(e) \in maps
      /\ MapOf(n) = MapOf(e) /\ PagesOf(n) = PagesOf(e)
      /\ \A f \in extents \ {e} : PagesOf(f) \cap PagesOf(e) = {}
  BY MapFacts, OwnMapping DEF TypeOK, Division, Disjoint, MapOf, PagesOf
<1>2. TypeOK'
  BY DEF TypeOK
<1>3. Division'
  BY <1>1 DEF Division, Disjoint
<1>4. ViewsAgree'
  BY <1>1 DEF ViewsAgree
<1>5. CommittedIsMapped'
  BY <1>1 DEF CommittedIsMapped
<1>6. CommitAgrees'
  <2> SUFFICES ASSUME NEW f \in extents'
               PROVE  IF f.committed THEN PagesOf(f) \subseteq committed'
                                     ELSE PagesOf(f) \cap committed' = {}
    BY DEF CommitAgrees
  <2>1. CASE f = n
    BY <1>1, <2>1
  <2>2. CASE f # n
    BY <1>1, <2>2 DEF CommitAgrees
  <2>3. QED
    BY <2>1, <2>2
<1>7. ZeroedReadsZero'
  BY <1>1 DEF ZeroedReadsZero
<1>8. QED
  BY <1>2, <1>3, <1>4, <1>5, <1>6, <1>7

\* A part of an extent was purged: more pages read as zero, and jemalloc
\* draws no conclusion.
LEMMA PurgedPartStep ==
  ASSUME IInv, zero \subseteq zero',
         UNCHANGED <<callbacks, raw, extents, maps, committed, abandoned>>
  PROVE  IInv'
BY DEF IInv, TypeOK, Division, CommittedIsMapped, ViewsAgree, CommitAgrees, ZeroedReadsZero

\* jemalloc's record of an extent, after the operation of each kind.
LEMMA BeliefFacts ==
  ASSUME NEW e \in ExtentRecord, NEW kind \in RangeKinds
  PROVE  /\ RangeBelief(kind, e) \in ExtentRecord
         /\ RangeBelief(kind, e).base = e.base /\ RangeBelief(kind, e).size = e.size
         /\ kind = "commit" => RangeBelief(kind, e).committed
         /\ kind = "decommit" => ~ RangeBelief(kind, e).committed
         /\ kind \in {"purge_lazy", "purge_forced"} =>
              (RangeBelief(kind, e).committed <=> e.committed)
         /\ kind = "purge_lazy" => ~ RangeBelief(kind, e).zeroed
BY DEF RangeBelief, ExtentRecord, RangeKinds

LEMMA RangeStep ==
  ASSUME IInv, NEW e \in extents, NEW kind \in RangeKinds, NEW offset \in 0..N,
         NEW length \in 1..N, RangeOperation(kind, e, offset, length)
  PROVE  IInv'
<1> USE DEF IInv
<1>1. PICK result \in Outcomes(range(kind)) :
        /\ IF result = "Success"
           THEN RangeEffect(range(kind), RangePages(e, offset, length))
           ELSE UNCHANGED <<committed, zero>>
        /\ extents' = IF Done(result) /\ length = e.size
                      THEN (extents \ {e}) \cup {RangeBelief(kind, e)}
                      ELSE extents
  BY DEF RangeOperation
<1>2. /\ offset + length <= e.size
      /\ kind \in {"commit", "decommit"} => length = e.size
      /\ (kind = "commit") <=> ~ e.committed
      /\ UNCHANGED <<callbacks, raw, maps, abandoned>>
  BY DEF RangeOperation, tableVars
<1>3. e \in ExtentRecord /\ offset \in Nat /\ length \in Nat
  BY PagesAssumption DEF TypeOK
<1>4. CASE result # "Success"
  BY <1>1, <1>2, <1>4, OutcomeFacts, StutterStep DEF vars
<1>5. CASE result = "Success" /\ length # e.size
  <2>1. kind \in {"purge_lazy", "purge_forced"} /\ UNCHANGED extents
    BY <1>1, <1>2, <1>5 DEF RangeKinds
  <2>2. UNCHANGED committed /\ zero \subseteq zero'
    BY <1>1, <1>5, <2>1 DEF RangeEffect, range
  <2>3. QED
    BY <1>2, <2>1, <2>2, PurgedPartStep
<1>6. CASE result = "Success" /\ length = e.size
  <2>1. RangePages(e, offset, length) = PagesOf(e)
    BY <1>2, <1>3, <1>6 DEF RangePages, PagesOf, ExtentRecord
  <2>2. extents' = (extents \ {e}) \cup {RangeBelief(kind, e)}
    BY <1>1, <1>6, OutcomeFacts
  <2>3. RangeEffect(kind, PagesOf(e))
    BY <1>1, <1>6, <2>1 DEF range
  <2>4. IF RangeBelief(kind, e).committed THEN committed' = committed \cup PagesOf(e)
                                          ELSE committed' = committed \ PagesOf(e)
    <3>1. CASE kind = "commit"
      BY <1>3, <2>3, <3>1, BeliefFacts DEF RangeEffect
    <3>2. CASE kind = "decommit"
      BY <1>3, <2>3, <3>2, BeliefFacts DEF RangeEffect
    <3>3. CASE kind \in {"purge_lazy", "purge_forced"}
      <4>1. UNCHANGED committed /\ RangeBelief(kind, e).committed /\ e.committed
        BY <1>2, <1>3, <2>3, <3>3, BeliefFacts DEF RangeEffect
      <4>2. QED
        BY <4>1 DEF CommitAgrees
    <3>4. QED
      BY <3>1, <3>2, <3>3 DEF RangeKinds
  <2>5. RangeBelief(kind, e).committed /\ RangeBelief(kind, e).zeroed
          => PagesOf(e) \subseteq zero'
    BY <1>3, <2>3, BeliefFacts DEF RangeEffect, RangeKinds
  <2>6. zero \ PagesOf(e) \subseteq zero'
    BY <2>3 DEF RangeEffect
  <2>7. QED
    BY <1>2, <1>3, <2>2, <2>4, <2>5, <2>6, BeliefFacts, BeliefStep
<1>7. QED
  BY <1>4, <1>5, <1>6

LEMMA WriteStep ==
  ASSUME IInv, NEW e \in extents, Write(e)
  PROVE  IInv'
<1> DEFINE n == [e EXCEPT !.zeroed = FALSE]
<1>1. /\ e.committed /\ zero' = zero \ PagesOf(e) /\ extents' = (extents \ {e}) \cup {n}
      /\ UNCHANGED <<callbacks, raw, maps, committed, abandoned>>
  BY DEF Write, tableVars
<1>2. /\ n \in ExtentRecord /\ n.base = e.base /\ n.size = e.size
      /\ (n.committed <=> e.committed) /\ ~ n.zeroed
  BY DEF IInv, TypeOK, ExtentRecord
<1>3. committed' = committed \cup PagesOf(e)
  BY <1>1 DEF IInv, CommitAgrees
<1>4. QED
  BY <1>1, <1>2, <1>3, BeliefStep

\* The pages of an extent are divided among two, on both sides.
LEMMA SplitStep ==
  ASSUME IInv, NEW e \in extents, NEW first \in 1..N, split(e, first)
  PROVE  IInv'
<1> USE DEF IInv
<1>1. PICK result \in Outcomes("split") :
        /\ maps' = IF result = "Success"
                   THEN (maps \ {MapOf(e)}) \cup {Map(e.base, first),
                                                 Map(e.base + first, e.size - first)}
                   ELSE maps
        /\ extents' = IF Done(result)
                      THEN (extents \ {e}) \cup
                             {[e EXCEPT !.size = first],
                              [e EXCEPT !.base = e.base + first, !.size = e.size - first]}
                      ELSE extents
  BY DEF split
<1>2. first < e.size /\ UNCHANGED <<callbacks, raw, committed, zero, abandoned>>
  BY DEF split, tableVars
<1>3. CASE result # "Success"
  BY <1>1, <1>2, <1>3, OutcomeFacts, StutterStep DEF vars
<1>4. CASE result = "Success"
  <2>1. PICK a : a = [e EXCEPT !.size = first]
    OBVIOUS
  <2>2. PICK b : b = [e EXCEPT !.base = e.base + first, !.size = e.size - first]
    OBVIOUS
  <2>3. e \in ExtentRecord /\ first \in Nat \ {0}
    BY PagesAssumption DEF TypeOK
  <2>4. /\ a \in ExtentRecord /\ MapOf(a) = Map(e.base, first)
        /\ (a.committed <=> e.committed) /\ (a.zeroed <=> e.zeroed)
        /\ b \in ExtentRecord /\ MapOf(b) = Map(e.base + first, e.size - first)
        /\ (b.committed <=> e.committed) /\ (b.zeroed <=> e.zeroed)
    <3>1. a \in ExtentRecord /\ b \in ExtentRecord
      <4>1. /\ e.base \in Nat /\ e.base + first \in Nat
            /\ first \in Nat \ {0} /\ e.size - first \in Nat \ {0}
            /\ e.committed \in BOOLEAN /\ e.zeroed \in BOOLEAN
        BY <1>2, <2>3 DEF ExtentRecord
      <4>2. QED
        BY <2>1, <2>2, <2>3, <4>1, Resized
    <3>2. /\ a.base = e.base /\ a.size = first
          /\ b.base = e.base + first /\ b.size = e.size - first
      BY <2>1, <2>2, <2>3 DEF ExtentRecord
    <3>3. /\ a.committed = e.committed /\ a.zeroed = e.zeroed
          /\ b.committed = e.committed /\ b.zeroed = e.zeroed
      BY <2>1, <2>2, <2>3 DEF ExtentRecord
    <3>4. QED
      BY <3>1, <3>2, <3>3 DEF MapOf
  <2>5. /\ PagesOf(a) \cap PagesOf(b) = {}
        /\ PagesOf(e) = PagesOf(a) \cup PagesOf(b)
    BY <1>2, <2>1, <2>2, <2>3 DEF ExtentRecord, PagesOf
  <2>6. /\ maps' = (maps \ {MapOf(e)}) \cup {MapOf(a), MapOf(b)}
        /\ extents' = (extents \ {e}) \cup {a, b}
    BY <1>1, <1>4, <2>1, <2>2, <2>4, OutcomeFacts
  <2>7. /\ \A f \in extents \ {e} : PagesOf(f) \cap PagesOf(e) = {}
        /\ \A m \in abandoned : PagesOf(m) \cap PagesOf(e) = {}
    BY DEF Division, Disjoint
  <2>8. TypeOK'
    BY <1>2, <2>4, <2>6, MapFacts DEF TypeOK
  <2>9. Division'
    <3>1. ASSUME NEW f \in extents \ {e}
          PROVE  Disjoint(f, a) /\ Disjoint(f, b) /\ Disjoint(a, f) /\ Disjoint(b, f)
      BY <2>5, <2>7 DEF Disjoint
    <3>2. \A m \in abandoned : Disjoint(a, m) /\ Disjoint(b, m)
      BY <2>5, <2>7 DEF Disjoint
    <3>3. Disjoint(a, b) /\ Disjoint(b, a)
      BY <2>5 DEF Disjoint
    <3>4. QED
      BY <1>2, <2>6, <3>1, <3>2, <3>3 DEF Division
  <2>10. ViewsAgree'
    BY <1>2, <2>6, OwnMapping DEF ViewsAgree
  <2>11. CommittedIsMapped'
    <3>1. PagesOf(MapOf(e)) = PagesOf(a) \cup PagesOf(b)
      BY <2>3, <2>5, MapFacts
    <3>2. PagesOf(MapOf(a)) = PagesOf(a) /\ PagesOf(MapOf(b)) = PagesOf(b)
      BY <2>4, MapFacts
    <3>3. QED
      BY <1>2, <2>6, <3>1, <3>2 DEF CommittedIsMapped
  <2>12. CommitAgrees'
    <3>1. IF e.committed THEN PagesOf(a) \subseteq committed /\ PagesOf(b) \subseteq committed
                         ELSE PagesOf(a) \cap committed = {} /\ PagesOf(b) \cap committed = {}
      BY <2>5 DEF CommitAgrees
    <3>2. QED
      BY <1>2, <2>4, <2>6, <3>1 DEF CommitAgrees
  <2>13. ZeroedReadsZero'
    BY <1>2, <2>4, <2>5, <2>6 DEF ZeroedReadsZero
  <2>14. QED
    BY <2>8, <2>9, <2>10, <2>11, <2>12, <2>13
<1>5. QED
  BY <1>3, <1>4

\* The pages of two adjacent extents are put together, on both sides.
LEMMA MergeStep ==
  ASSUME IInv, NEW e \in extents, NEW f \in extents, merge(e, f)
  PROVE  IInv'
<1> USE DEF IInv
<1>1. PICK result \in Outcomes("merge") :
        /\ maps' = IF result = "Success"
                   THEN (maps \ {MapOf(e), MapOf(f)}) \cup {Map(e.base, e.size + f.size)}
                   ELSE maps
        /\ extents' = IF Done(result)
                      THEN (extents \ {e, f}) \cup
                             {[e EXCEPT !.size = e.size + f.size,
                                        !.zeroed = e.zeroed /\ f.zeroed]}
                      ELSE extents
  BY DEF merge
<1>2. /\ e.base + e.size = f.base /\ e.committed = f.committed
      /\ UNCHANGED <<callbacks, raw, committed, zero, abandoned>>
  BY DEF merge, tableVars
<1>3. CASE result # "Success"
  BY <1>1, <1>2, <1>3, OutcomeFacts, StutterStep DEF vars
<1>4. CASE result = "Success"
  <2>1. PICK n : n = [e EXCEPT !.size = e.size + f.size, !.zeroed = e.zeroed /\ f.zeroed]
    OBVIOUS
  <2>2. e \in ExtentRecord /\ f \in ExtentRecord
    BY DEF TypeOK
  <2>3. /\ n \in ExtentRecord /\ MapOf(n) = Map(e.base, e.size + f.size)
        /\ (n.committed <=> e.committed) /\ (n.committed <=> f.committed)
        /\ n.zeroed <=> (e.zeroed /\ f.zeroed)
    <3>1. n \in ExtentRecord
      <4>1. /\ e.size + f.size \in Nat \ {0}
            /\ (e.zeroed /\ f.zeroed) \in BOOLEAN
        BY <2>2 DEF ExtentRecord
      <4>2. QED
        BY <2>1, <2>2, <4>1 DEF ExtentRecord
    <3>2. n.base = e.base /\ n.size = e.size + f.size
      BY <2>1, <2>2 DEF ExtentRecord
    <3>3. n.committed = e.committed /\ n.zeroed = (e.zeroed /\ f.zeroed)
      BY <2>1, <2>2 DEF ExtentRecord
    <3>4. QED
      BY <1>2, <3>1, <3>2, <3>3 DEF MapOf
  <2>4. PagesOf(n) = PagesOf(e) \cup PagesOf(f)
    BY <1>2, <2>1, <2>2 DEF ExtentRecord, PagesOf
  <2>5. /\ maps' = (maps \ {MapOf(e), MapOf(f)}) \cup {MapOf(n)}
        /\ extents' = (extents \ {e, f}) \cup {n}
    BY <1>1, <1>4, <2>1, <2>3, OutcomeFacts
  <2>6. /\ \A g \in extents \ {e, f} : PagesOf(g) \cap PagesOf(n) = {}
        /\ \A m \in abandoned : PagesOf(m) \cap PagesOf(n) = {}
    BY <2>4 DEF Division, Disjoint
  <2>7. TypeOK'
    BY <1>2, <2>3, <2>5, MapFacts DEF TypeOK
  <2>8. Division'
    BY <1>2, <2>5, <2>6 DEF Division, Disjoint
  <2>9. ViewsAgree'
    BY <1>2, <2>5, OwnMapping DEF ViewsAgree
  <2>10. CommittedIsMapped'
    <3>1. /\ PagesOf(MapOf(n)) = PagesOf(e) \cup PagesOf(f)
          /\ PagesOf(MapOf(e)) = PagesOf(e) /\ PagesOf(MapOf(f)) = PagesOf(f)
      BY <2>2, <2>3, <2>4, MapFacts
    <3>2. QED
      BY <1>2, <2>5, <3>1 DEF CommittedIsMapped
  <2>11. CommitAgrees'
    <3>1. IF n.committed THEN PagesOf(n) \subseteq committed
                         ELSE PagesOf(n) \cap committed = {}
      BY <2>3, <2>4 DEF CommitAgrees
    <3>2. QED
      BY <1>2, <2>5, <3>1 DEF CommitAgrees
  <2>12. ZeroedReadsZero'
    BY <1>2, <2>3, <2>4, <2>5 DEF ZeroedReadsZero
  <2>13. QED
    BY <2>7, <2>8, <2>9, <2>10, <2>11, <2>12
<1>5. QED
  BY <1>3, <1>4

LEMMA NextIInv == IInv /\ [Next]_vars => IInv'
<1> SUFFICES ASSUME IInv, [Next]_vars PROVE IInv'
  OBVIOUS
<1>1. ASSUME NEW base \in Pages, NEW size \in 1..N, NEW z \in BOOLEAN, NEW c \in BOOLEAN,
             alloc(base, size, z, c)
      PROVE  IInv'
  BY <1>1, AllocStep
<1>2. ASSUME NEW e \in extents, dalloc(e) \/ destroy(e) \/ Write(e)
      PROVE  IInv'
  BY <1>2, DallocStep, DestroyStep, WriteStep
<1>3. ASSUME NEW e \in extents, NEW first \in 1..N, split(e, first)
      PROVE  IInv'
  BY <1>3, SplitStep
<1>4. ASSUME NEW e \in extents, NEW f \in extents, merge(e, f)
      PROVE  IInv'
  BY <1>4, MergeStep
<1>5. ASSUME NEW e \in extents, NEW kind \in RangeKinds, NEW offset \in 0..N,
             NEW length \in 1..N, RangeOperation(kind, e, offset, length)
      PROVE  IInv'
  BY <1>5, RangeStep
<1>6. CASE UNCHANGED vars
  BY <1>6, StutterStep
<1>7. QED
  BY <1>1, <1>2, <1>3, <1>4, <1>5, <1>6 DEF Next

LEMMA Invariance == Spec => []IInv
BY InitIInv, NextIInv, PTL DEF Spec

-----------------------------------------------------------------------------
(* The theorems *)

\* With every table of callbacks, jemalloc's mappings are the callbacks'.
THEOREM MappingsAgree == Spec => []ViewsAgree
<1>1. IInv => ViewsAgree
  BY DEF IInv
<1>2. QED
  BY <1>1, Invariance, PTL

\* What jemalloc takes for committed is committed, and nothing else is.
THEOREM CommittedMemoryAgrees == Spec => []CommitAgrees
<1>1. IInv => CommitAgrees
  BY DEF IInv
<1>2. QED
  BY <1>1, Invariance, PTL

\* Memory that jemalloc will not clear again reads as zero.
THEOREM ZeroedMemoryIsZero == Spec => []ZeroedReadsZero
<1>1. IInv => ZeroedReadsZero
  BY DEF IInv
<1>2. QED
  BY <1>1, Invariance, PTL

=============================================================================

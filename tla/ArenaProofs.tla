---------------------------- MODULE ArenaProofs -----------------------------
(***************************************************************************)
(* Proofs about Arena, for any numbers of threads, handles, automatic      *)
(* arenas and indices, and any set of hook tables.                         *)
(***************************************************************************)
EXTENDS Arena, TLAPS

ArenaRecord == [kind : {"none", "auto", "explicit"}, id : Nat, table : Tables]

HandleRecord ==
  [place : {"free", "held", "error"}, index : Indices, owned : BOOLEAN, id : Nat]

TypeOK ==
  /\ arenas \in [Indices -> ArenaRecord]
  /\ narenas \in Nat
  /\ nextId \in 1..(MaxId + 1)
  /\ assoc \in [Threads -> Indices]
  /\ touched \in [Threads -> SUBSET Indices]
  /\ inUse \in SUBSET Indices
  /\ handle \in [Handles -> HandleRecord]
  /\ numbers \in SUBSET [index : Indices, id : Nat]
  /\ leaked \in SUBSET (1..(nextId - 1))

Explicit(i) == arenas[i].kind = "explicit"

\* The indices from narenas on were never used, so that a new arena takes
\* nobody's place.
FreshIndices == \A i \in Indices : i >= narenas => ~ Live(i)

\* Only explicit arenas have a ghost id, one that was given out, and no two
\* have the same: an id tells the arenas apart that an index has been.
IdsTellArenas ==
  /\ \A i \in Indices : ~ Explicit(i) => arenas[i].id = 0
  /\ \A i \in Indices : Explicit(i) => arenas[i].id \in 1..(nextId - 1)
  /\ \A i, j \in Indices : Explicit(i) /\ Explicit(j) /\ arenas[i].id = arenas[j].id
                             => i = j

\* The inductive invariant.  The properties are inductive only together, and
\* only where indices are fresh and ids are unique: an owner's index is live
\* because no other owner destroys it, which needs both.
IInv ==
  /\ TypeOK
  /\ FreshIndices
  /\ IdsTellArenas
  /\ OwnersAreLive
  /\ OneOwner
  /\ NoArenaLost
  /\ NothingInDeadArenas

-----------------------------------------------------------------------------

LEMMA IndexFacts == Indices \subseteq Nat /\ 0 \in Indices
BY ArenaAssumption DEF Indices

LEMMA RecordFacts ==
  /\ NoArena \in ArenaRecord
  /\ Free \in HandleRecord
  /\ Free.place = "free"
  /\ \A i \in Indices, id \in Nat, o \in BOOLEAN :
       /\ Held(i, o, id) \in HandleRecord
       /\ Held(i, o, id).place = "held" /\ Held(i, o, id).index = i
       /\ Held(i, o, id).id = id /\ Held(i, o, id).owned = o
BY IndexFacts, ArenaAssumption DEF NoArena, ArenaRecord, Free, Held, HandleRecord

\* One handle is written: the others stay as they are.
LEMMA HandleWritten ==
  ASSUME TypeOK, NEW h \in Handles, NEW r \in HandleRecord,
         handle' = [handle EXCEPT ![h] = r]
  PROVE  /\ handle' \in [Handles -> HandleRecord]
         /\ handle'[h] = r
         /\ \A g \in Handles \ {h} : handle'[g] = handle[g]
         /\ \A g \in Handles \ {h} : Owner(g)' <=> Owner(g)
         /\ Owner(h)' <=> r.place # "free" /\ r.owned
BY DEF TypeOK, Owner

\* A handle becomes an owner.
LEMMA Acquired ==
  ASSUME TypeOK, NEW h \in Handles, NEW i \in Indices, NEW id \in Nat,
         handle[h] = Free, handle' = [handle EXCEPT ![h] = Held(i, TRUE, id)]
  PROVE  /\ handle' \in [Handles -> HandleRecord]
         /\ handle'[h].index = i /\ handle'[h].id = id
         /\ Owner(h)' /\ ~ Owner(h)
         /\ \A g \in Handles \ {h} : handle'[g] = handle[g] /\ (Owner(g)' <=> Owner(g))
<1>1. Held(i, TRUE, id) \in HandleRecord
  BY RecordFacts
<1>2. /\ Held(i, TRUE, id).place # "free" /\ Held(i, TRUE, id).owned
      /\ Held(i, TRUE, id).index = i /\ Held(i, TRUE, id).id = id
  BY DEF Held
<1>3. ~ Owner(h)
  BY RecordFacts DEF Owner
<1>4. QED
  BY <1>1, <1>2, <1>3, HandleWritten

\* Who owns what is the same after the step.
SameOwners ==
  \A g \in Handles :
    /\ Owner(g)' <=> Owner(g)
    /\ Owner(g) => handle'[g].index = handle[g].index /\ handle'[g].id = handle[g].id

\* The properties of ownership are about owners only.
LEMMA OwnersKept ==
  ASSUME IInv, SameOwners, UNCHANGED <<arenas, nextId, numbers, leaked>>
  PROVE  /\ OwnersAreLive'
         /\ OneOwner'
         /\ NoArenaLost'
         /\ IdsTellArenas'
<1> USE DEF IInv, SameOwners
<1>1. OwnersAreLive'
  BY DEF OwnersAreLive, IsExplicit
<1>2. OneOwner'
  BY DEF OneOwner
<1>3. NoArenaLost'
  BY DEF NoArenaLost
<1>4. IdsTellArenas'
  BY DEF IdsTellArenas, Explicit
<1>5. QED
  BY <1>1, <1>2, <1>3, <1>4

\* A handle that is not an owner takes the place of one that is not.
LEMMA BorrowStep ==
  ASSUME IInv, NEW h \in Handles, NEW i \in Indices, Borrow(h, i)
  PROVE  SameOwners /\ handle' \in [Handles -> HandleRecord]
<1>1. arenas[i].id \in Nat
  BY DEF IInv, TypeOK, ArenaRecord
<1>2. /\ handle[h] = Free
      /\ handle' = [handle EXCEPT ![h] = Held(i, FALSE, arenas[i].id)]
      /\ Held(i, FALSE, arenas[i].id) \in HandleRecord
      /\ ~ Held(i, FALSE, arenas[i].id).owned
  BY <1>1, RecordFacts DEF Borrow
<1>3. ~ Owner(h)
  BY <1>2, RecordFacts DEF Owner
<1>4. QED
  BY <1>2, <1>3, HandleWritten DEF SameOwners, IInv

LEMMA InitIInv == Init => IInv
<1> SUFFICES ASSUME Init PROVE IInv
  OBVIOUS
<1>1. 0..(AutoArenas - 1) \subseteq Indices
  BY ArenaAssumption DEF Indices
<1>2. arenas \in [Indices -> ArenaRecord]
  BY ArenaAssumption DEF Init, NoArena, ArenaRecord
<1>3. TypeOK
  BY <1>1, <1>2, RecordFacts, ArenaAssumption DEF Init, TypeOK
<1>4. \A i \in Indices : arenas[i].id = 0 /\ ~ Explicit(i) /\ arenas[i].table = DefaultTable
  BY DEF Init, NoArena, Explicit
<1>5. \A i \in Indices : Live(i) <=> i < AutoArenas
  BY DEF Init, NoArena, Live
<1>6. \A h \in Handles : ~ Owner(h)
  BY RecordFacts DEF Init, Owner
<1>7. FreshIndices
  BY <1>5, IndexFacts, ArenaAssumption DEF FreshIndices, Init
<1>8. IdsTellArenas /\ NoArenaLost
  BY <1>4, ArenaAssumption DEF IdsTellArenas, NoArenaLost, Explicit
<1>9. OwnersAreLive /\ OneOwner
  BY <1>6 DEF OwnersAreLive, OneOwner, Init
<1>10. NothingInDeadArenas
  <2>1. \A t \in Threads : assoc[t] \in Indices /\ assoc[t] < AutoArenas
    BY <1>1, ArenaAssumption DEF Init
  <2>2. QED
    BY <2>1, <1>5 DEF NothingInDeadArenas, Init
<1>11. QED
  BY <1>3, <1>7, <1>8, <1>9, <1>10 DEF IInv

\* from_index, lookup and current make a handle and change nothing else.
LEMMA BorrowedStep ==
  ASSUME IInv, NEW h \in Handles, NEW i \in Indices, Borrow(h, i),
         UNCHANGED <<jemallocVars, touched, inUse, numbers, leaked>>
  PROVE  IInv'
<1>1. UNCHANGED <<arenas, narenas, nextId, assoc, touched, inUse, numbers, leaked>>
  BY DEF jemallocVars
<1>2. TypeOK'
  BY <1>1, BorrowStep DEF IInv, TypeOK
<1>3. FreshIndices' /\ NothingInDeadArenas'
  BY <1>1 DEF IInv, FreshIndices, NothingInDeadArenas, Live
<1>4. QED
  BY <1>1, <1>2, <1>3, BorrowStep, OwnersKept DEF IInv

LEMMA SetCurrentStep ==
  ASSUME IInv, NEW h \in Handles, NEW g \in Handles, NEW t \in Threads,
         set_current(h, t, g)
  PROVE  IInv'
<1> USE DEF IInv
<1>1. /\ UNCHANGED <<arenas, narenas, nextId, touched, inUse, numbers, leaked>>
      /\ assoc' = [assoc EXCEPT ![t] = handle[h].index]
      /\ Live(handle[h].index) /\ Borrow(g, assoc[t])
  BY DEF set_current, Valid
<1>2. assoc[t] \in Indices /\ handle[h].index \in Indices
  BY DEF TypeOK, HandleRecord
<1>3. TypeOK'
  BY <1>1, <1>2, BorrowStep DEF TypeOK
<1>4. FreshIndices'
  BY <1>1 DEF FreshIndices, Live
<1>5. NothingInDeadArenas'
  BY <1>1, <1>2 DEF NothingInDeadArenas, Live, TypeOK
<1>6. QED
  BY <1>1, <1>2, <1>3, <1>4, <1>5, BorrowStep, OwnersKept

\* A new arena takes an index that is not live.
LEMMA NewIndexFacts ==
  ASSUME IInv, NEW i \in NewIndex
  PROVE  i \in Indices /\ ~ Live(i) /\ i <= narenas
<1>1. i \in Indices
  BY DEF NewIndex
<1>2. CASE i = narenas
  BY <1>1, <1>2, IndexFacts DEF IInv, TypeOK, FreshIndices
<1>3. CASE i # narenas
  BY <1>1, <1>3, IndexFacts DEF NewIndex, IInv, TypeOK
<1>4. QED
  BY <1>1, <1>2, <1>3

LEMMA CreateStep ==
  ASSUME IInv, NEW h \in Handles, NEW table \in Tables, create(h, table)
  PROVE  IInv'
<1> USE DEF IInv
<1>1. /\ handle[h] = Free /\ table \notin NoAlloc
      /\ UNCHANGED <<assoc, touched, inUse, numbers, leaked>>
  BY DEF create, accepts, CreateArena
<1>2. PICK i \in NewIndex :
        /\ CreateArena(i, table)
        /\ handle' = [handle EXCEPT ![h] =
                        IF validated_index(i) THEN Held(i, TRUE, nextId) ELSE Free]
  BY DEF create
<1>3. /\ i \in Indices /\ ~ Live(i) /\ validated_index(i)
      /\ narenas' \in Nat /\ narenas' >= narenas /\ i < narenas'
  BY <1>2, NewIndexFacts, IndexFacts, ArenaAssumption
     DEF validated_index, Indices, CreateArena, TypeOK
<1>4. /\ handle' = [handle EXCEPT ![h] = Held(i, TRUE, nextId)]
      /\ nextId \in 1..MaxId /\ nextId' = nextId + 1
      /\ arenas' = [arenas EXCEPT ![i] = [kind |-> "explicit", id |-> nextId,
                                          table |-> table]]
  BY <1>2, <1>3, ArenaAssumption DEF CreateArena, TypeOK
<1>5. nextId \in Nat
  BY <1>4
<1>6. /\ handle' \in [Handles -> HandleRecord]
      /\ handle'[h].index = i /\ handle'[h].id = nextId
      /\ Owner(h)' /\ ~ Owner(h)
      /\ \A g \in Handles \ {h} : handle'[g] = handle[g] /\ (Owner(g)' <=> Owner(g))
  BY <1>1, <1>3, <1>4, <1>5, Acquired
<1>7. /\ arenas' \in [Indices -> ArenaRecord]
      /\ arenas'[i].kind = "explicit" /\ arenas'[i].id = nextId /\ arenas'[i].table = table
      /\ \A j \in Indices \ {i} : arenas'[j] = arenas[j]
      /\ arenas[i].kind = "none"
  BY <1>3, <1>4 DEF TypeOK, ArenaRecord, Live
<1>8. TypeOK'
  <2>1. nextId' \in 1..(MaxId + 1) /\ 1..(nextId - 1) \subseteq 1..(nextId' - 1)
    BY <1>4, ArenaAssumption
  <2>2. QED
    BY <1>1, <1>3, <1>6, <1>7, <2>1 DEF TypeOK
<1>9. FreshIndices'
  BY <1>3, <1>7, IndexFacts DEF FreshIndices, Live, TypeOK
<1>10. IdsTellArenas'
  <2>1. \A j \in Indices \ {i} : Explicit(j)' <=> Explicit(j)
    BY <1>7 DEF Explicit
  <2>2. \A j \in Indices \ {i} : Explicit(j) => arenas[j].id # nextId
    BY <1>4 DEF IdsTellArenas
  <2>3. QED
    BY <1>4, <1>7, <2>1, <2>2 DEF IdsTellArenas, Explicit
\* The ids of the owners there were are older than the new one.
<1>11. /\ \A g \in Handles \ {h} : Owner(g) =>
            /\ handle[g].index \in Indices \ {i}
            /\ handle[g].id \in 1..(nextId - 1)
       /\ \A n \in numbers : n.index \in Indices \ {i} /\ n.id \in 1..(nextId - 1)
  BY <1>7 DEF OwnersAreLive, IsExplicit, IdsTellArenas, Explicit, TypeOK, HandleRecord
<1>12. OwnersAreLive'
  BY <1>1, <1>6, <1>7, <1>11 DEF OwnersAreLive, IsExplicit
<1>13. OneOwner'
  <2>1. nextId \notin leaked /\ \A n \in numbers : n.id # nextId
    BY <1>4, <1>11 DEF TypeOK
  <2>2. \A g \in Handles \ {h} : Owner(g) => handle[g].id # nextId
    BY <1>4, <1>11
  <2>3. QED
    BY <1>1, <1>6, <2>1, <2>2 DEF OneOwner
<1>14. NoArenaLost'
  BY <1>1, <1>6, <1>7 DEF NoArenaLost
<1>15. NothingInDeadArenas'
  BY <1>1, <1>7 DEF NothingInDeadArenas, Live, TypeOK
<1>16. QED
  BY <1>8, <1>9, <1>10, <1>12, <1>13, <1>14, <1>15

LEMMA SetExtentHooksStep ==
  ASSUME IInv, NEW h \in Handles, NEW table \in Tables, set_extent_hooks(h, table)
  PROVE  IInv'
<1> USE DEF IInv
<1> DEFINE i == handle[h].index
<1>1. /\ table \notin NoAlloc /\ i \in Indices
      /\ arenas' = [arenas EXCEPT ![i].table = table]
      /\ UNCHANGED <<narenas, nextId, assoc, touched, inUse, handle, numbers, leaked>>
  BY DEF set_extent_hooks, accepts, TypeOK, HandleRecord
<1>2. /\ arenas' \in [Indices -> ArenaRecord]
      /\ \A j \in Indices : /\ arenas'[j].kind = arenas[j].kind
                            /\ arenas'[j].id = arenas[j].id
                            /\ arenas'[j].table \in {arenas[j].table, table}
  BY <1>1 DEF TypeOK, ArenaRecord
<1>3. TypeOK'
  BY <1>1, <1>2 DEF TypeOK
<1>4. FreshIndices' /\ IdsTellArenas'
  BY <1>1, <1>2 DEF FreshIndices, IdsTellArenas, Explicit, Live
<1>5. OwnersAreLive'
  BY <1>1, <1>2 DEF OwnersAreLive, IsExplicit, Owner, TypeOK, HandleRecord
<1>6. OneOwner'
  BY <1>1 DEF OneOwner, Owner
<1>7. NoArenaLost'
  BY <1>1, <1>2 DEF NoArenaLost, Owner
<1>8. NothingInDeadArenas'
  BY <1>1, <1>2 DEF NothingInDeadArenas, Live, TypeOK
<1>9. QED
  BY <1>3, <1>4, <1>5, <1>6, <1>7, <1>8

\* An id that has an owner, or had one, is the id of a live arena at the
\* index it was found at, and an explicit one.
LEMMA FromOwnedIndexStep ==
  ASSUME IInv, NEW h \in Handles, NEW i \in Indices, from_owned_index(h, i)
  PROVE  IInv'
<1> USE DEF IInv
<1> DEFINE id == arenas[i].id
           n == [index |-> i, id |-> id]
<1>1. /\ handle[h] = Free
      /\ handle' = [handle EXCEPT ![h] = Held(i, TRUE, id)]
      /\ UNCHANGED <<arenas, narenas, nextId, assoc, touched, inUse>>
      /\ \/ n \in numbers /\ numbers' = numbers \ {n} /\ UNCHANGED leaked
         \/ id \in leaked /\ leaked' = leaked \ {id} /\ UNCHANGED numbers
  BY DEF from_owned_index, jemallocVars
<1>2. id \in Nat /\ Explicit(i)
  BY <1>1 DEF TypeOK, ArenaRecord, OwnersAreLive, IsExplicit, IdsTellArenas, Explicit
<1>3. /\ handle' \in [Handles -> HandleRecord]
      /\ handle'[h].index = i /\ handle'[h].id = id
      /\ Owner(h)' /\ ~ Owner(h)
      /\ \A g \in Handles \ {h} : handle'[g] = handle[g] /\ (Owner(g)' <=> Owner(g))
  BY <1>1, <1>2, Acquired
<1>4. TypeOK'
  BY <1>1, <1>3 DEF TypeOK
<1>5. FreshIndices' /\ IdsTellArenas' /\ NothingInDeadArenas'
  BY <1>1 DEF FreshIndices, IdsTellArenas, NothingInDeadArenas,
              Live, Explicit
<1>6. OwnersAreLive'
  BY <1>1, <1>2, <1>3 DEF OwnersAreLive, IsExplicit, Explicit
\* The number of the arena is unique, because ids tell arenas apart.
<1>7. /\ \A m \in numbers' : m.id # id /\ m \in numbers
      /\ id \notin leaked' /\ leaked' \subseteq leaked
      /\ \A g \in Handles : Owner(g) => handle[g].id # id
  <2>1. ASSUME NEW m \in numbers, m.id = id
        PROVE  m = n
    BY <1>2, <2>1 DEF OwnersAreLive, IsExplicit, IdsTellArenas, Explicit, TypeOK
  <2>2. QED
    BY <1>1, <2>1 DEF OneOwner
<1>8. OneOwner'
  BY <1>3, <1>7 DEF OneOwner
<1>9. NoArenaLost'
  <2> SUFFICES ASSUME NEW j \in Indices, arenas[j].kind = "explicit"
               PROVE  \/ \E g \in Handles : Owner(g)' /\ handle'[g].id = arenas[j].id
                      \/ \E m \in numbers' : m.id = arenas[j].id
                      \/ arenas[j].id \in leaked'
    BY <1>1 DEF NoArenaLost
  <2>1. CASE arenas[j].id = id
    BY <1>3, <2>1
  <2>2. CASE arenas[j].id # id
    <3>1. CASE \E g \in Handles : Owner(g) /\ handle[g].id = arenas[j].id
      BY <1>3, <3>1
    <3>2. CASE \E m \in numbers : m.id = arenas[j].id
      <4>1. PICK m \in numbers : m.id = arenas[j].id
        BY <3>2
      <4>2. m # n
        BY <2>2, <4>1
      <4>3. QED
        BY <1>1, <4>1, <4>2
    <3>3. CASE arenas[j].id \in leaked
      BY <1>1, <2>2, <3>3
    <3>4. QED
      BY <3>1, <3>2, <3>3 DEF NoArenaLost
  <2>3. QED
    BY <2>1, <2>2
<1>10. QED
  BY <1>4, <1>5, <1>6, <1>8, <1>9

\* A handle is gone.
LEMMA Released ==
  ASSUME TypeOK, NEW h \in Handles, handle' = [handle EXCEPT ![h] = Free]
  PROVE  /\ handle' \in [Handles -> HandleRecord]
         /\ ~ Owner(h)'
         /\ \A g \in Handles \ {h} : handle'[g] = handle[g] /\ (Owner(g)' <=> Owner(g))
<1>1. Free \in HandleRecord /\ ~ (Free.place # "free" /\ Free.owned)
  BY RecordFacts
<1>2. QED
  BY <1>1, HandleWritten

\* A handle goes into an error, or comes out of one: it owns what it owned.
LEMMA PlaceChanged ==
  ASSUME TypeOK, NEW h \in Handles, NEW p \in {"held", "error"},
         handle[h].place # "free", handle' = [handle EXCEPT ![h].place = p]
  PROVE  SameOwners /\ handle' \in [Handles -> HandleRecord]
<1>1. handle' \in [Handles -> HandleRecord]
  BY DEF TypeOK, HandleRecord
<1>2. /\ handle'[h].place = p /\ handle'[h].index = handle[h].index
      /\ handle'[h].id = handle[h].id /\ handle'[h].owned = handle[h].owned
      /\ \A g \in Handles \ {h} : handle'[g] = handle[g]
  BY DEF TypeOK, HandleRecord
<1>3. QED
  BY <1>1, <1>2 DEF SameOwners, Owner

\* The ownership of the handles is the only thing that could change and does
\* not: the rest of the invariant needs that what is in use is live.
LEMMA UseStep ==
  ASSUME IInv, SameOwners, handle' \in [Handles -> HandleRecord],
         UNCHANGED <<arenas, narenas, nextId, assoc, numbers, leaked>>,
         touched' \in [Threads -> SUBSET Indices], inUse' \in SUBSET Indices,
         \A t \in Threads : \A i \in touched'[t] : Live(i),
         \A i \in inUse' : Live(i)
  PROVE  IInv'
<1>1. TypeOK'
  BY DEF IInv, TypeOK
<1>2. FreshIndices'
  BY DEF IInv, FreshIndices, Live
<1>3. NothingInDeadArenas'
  BY DEF IInv, NothingInDeadArenas, Live
<1>4. QED
  BY <1>1, <1>2, <1>3, OwnersKept DEF IInv

\* The steps that leave the handles alone.
LEMMA MemoryStep ==
  ASSUME IInv, NEW t \in Threads,
         Allocate(t) \/ flush(t) \/ \E i \in Indices : Deallocate(t, i)
  PROVE  IInv'
<1> USE DEF IInv
<1>1. /\ UNCHANGED <<arenas, narenas, nextId, assoc, handle, numbers, leaked>>
      /\ SameOwners /\ handle' \in [Handles -> HandleRecord]
  BY DEF Allocate, flush, Deallocate, jemallocVars, SameOwners, Owner, TypeOK
<1>2. assoc[t] \in Indices /\ Live(assoc[t])
  BY DEF TypeOK, NothingInDeadArenas
<1>3. /\ touched' \in [Threads -> SUBSET Indices]
      /\ inUse' \in SUBSET Indices
      /\ \A i \in inUse' : Live(i)
      /\ \A u \in Threads : \A i \in touched'[u] : Live(i)
  <2>1. CASE Allocate(t)
    BY <1>2, <2>1 DEF Allocate, TypeOK, NothingInDeadArenas
  <2>2. CASE flush(t)
    BY <2>2 DEF flush, TypeOK, NothingInDeadArenas
  <2>3. ASSUME NEW i \in Indices, Deallocate(t, i)
        PROVE  <1>3!:
    BY <2>3 DEF Deallocate, TypeOK, NothingInDeadArenas
  <2>4. QED
    BY <2>1, <2>2, <2>3
<1>4. QED
  BY <1>1, <1>3, UseStep

LEMMA AllocateWithFlagsStep ==
  ASSUME IInv, NEW h \in Handles, AllocateWithFlags(h)
  PROVE  IInv'
<1> USE DEF IInv
<1>1. /\ UNCHANGED <<arenas, narenas, nextId, assoc, touched, handle, numbers, leaked>>
      /\ SameOwners /\ handle' \in [Handles -> HandleRecord]
      /\ handle[h].index \in Indices /\ Live(handle[h].index)
      /\ inUse' = inUse \cup {handle[h].index}
  BY DEF AllocateWithFlags, Valid, jemallocVars, SameOwners, Owner, TypeOK, HandleRecord
<1>2. QED
  BY <1>1, UseStep DEF TypeOK, NothingInDeadArenas

LEMMA ResetStep ==
  ASSUME IInv, NEW h \in Handles, reset(h)
  PROVE  IInv'
<1> USE DEF IInv
<1>1. /\ UNCHANGED <<arenas, narenas, nextId, assoc, touched, handle, numbers, leaked>>
      /\ SameOwners /\ handle' \in [Handles -> HandleRecord]
      /\ inUse' = inUse \ {handle[h].index}
  BY DEF reset, jemallocVars, SameOwners, Owner, TypeOK
<1>2. QED
  BY <1>1, UseStep DEF TypeOK, NothingInDeadArenas

LEMMA IntoPartsStep ==
  ASSUME IInv, NEW h \in Handles, into_parts(h)
  PROVE  IInv'
<1> USE DEF IInv
<1>1. /\ UNCHANGED <<arenas, narenas, nextId, assoc, touched, inUse, numbers, leaked>>
      /\ SameOwners /\ handle' \in [Handles -> HandleRecord]
  BY PlaceChanged DEF into_parts, jemallocVars
<1>2. QED
  BY <1>1, UseStep DEF TypeOK, NothingInDeadArenas

\* The end of a handle that owns nothing.
LEMMA NonOwnerGone ==
  ASSUME IInv, NEW h \in Handles, ~ handle[h].owned,
         handle' = [handle EXCEPT ![h] = Free],
         UNCHANGED <<arenas, narenas, nextId, assoc, touched, inUse, numbers, leaked>>
  PROVE  IInv'
<1> USE DEF IInv
<1>1. SameOwners /\ handle' \in [Handles -> HandleRecord]
  BY Released DEF SameOwners, Owner
<1>2. QED
  BY <1>1, UseStep DEF TypeOK, NothingInDeadArenas

\* The end of an owner that destroys its arena: its id is nobody else's, so
\* that no owner is left of the index, and no other arena loses its owner.
LEMMA OwnerDestroys ==
  ASSUME IInv, NEW h \in Handles, Owner(h), Destroyed(handle[h].index),
         handle' = [handle EXCEPT ![h] = Free],
         UNCHANGED <<narenas, nextId, assoc, touched, numbers, leaked>>
  PROVE  IInv'
<1> USE DEF IInv
<1> DEFINE i == handle[h].index
           id == handle[h].id
<1>1. i \in Indices /\ Explicit(i) /\ arenas[i].id = id
  BY DEF OwnersAreLive, IsExplicit, Explicit, TypeOK, HandleRecord
<1>2. /\ arenas' = [arenas EXCEPT ![i] = NoArena] /\ inUse' = inUse \ {i}
      /\ \A t \in Threads : i # assoc[t] /\ i \notin touched[t]
  BY DEF Destroyed, Destroyable, Associated, Flushed
<1>3. /\ arenas' \in [Indices -> ArenaRecord]
      /\ arenas'[i].kind = "none" /\ arenas'[i].id = 0 /\ arenas'[i].table = DefaultTable
      /\ \A j \in Indices \ {i} : arenas'[j] = arenas[j]
  BY <1>1, <1>2, RecordFacts DEF TypeOK, NoArena
<1>4. /\ handle' \in [Handles -> HandleRecord] /\ ~ Owner(h)'
      /\ \A g \in Handles \ {h} : handle'[g] = handle[g] /\ (Owner(g)' <=> Owner(g))
  BY Released
<1>5. TypeOK'
  BY <1>2, <1>3, <1>4 DEF TypeOK
<1>6. FreshIndices'
  BY <1>3 DEF FreshIndices, Live
<1>7. IdsTellArenas'
  BY <1>3 DEF IdsTellArenas, Explicit
<1>8. NothingInDeadArenas'
  BY <1>2, <1>3 DEF NothingInDeadArenas, Live, TypeOK
<1>9. /\ \A g \in Handles \ {h} : Owner(g) => handle[g].index \in Indices \ {i}
      /\ \A n \in numbers : n.index \in Indices \ {i}
  BY <1>1 DEF OneOwner, OwnersAreLive, IsExplicit, TypeOK, HandleRecord
<1>10. OwnersAreLive'
  <2>1. \A g \in Handles : Owner(g)' => Owner(g) /\ handle'[g] = handle[g] /\ g # h
    BY <1>4
  <2> QED
    BY <1>3, <1>9, <2>1 DEF OwnersAreLive, IsExplicit
<1>11. OneOwner'
  BY <1>4 DEF OneOwner
<1>12. NoArenaLost'
  <2> SUFFICES ASSUME NEW j \in Indices, arenas'[j].kind = "explicit"
               PROVE  \/ \E g \in Handles : Owner(g)' /\ handle'[g].id = arenas'[j].id
                      \/ \E m \in numbers : m.id = arenas'[j].id
                      \/ arenas'[j].id \in leaked
    BY DEF NoArenaLost
  <2>1. j # i /\ arenas'[j] = arenas[j] /\ arenas[j].id # id
    BY <1>1, <1>3 DEF IdsTellArenas, Explicit
  <2>2. QED
    BY <1>4, <2>1 DEF NoArenaLost
<1>13. QED
  BY <1>5, <1>6, <1>7, <1>8, <1>10, <1>11, <1>12

\* The end of an owner that does not: its arena is a number from then on, or
\* one that jemalloc refused to destroy.
LEMMA OwnerGivesUp ==
  ASSUME IInv, NEW h \in Handles, Owner(h),
         handle' = [handle EXCEPT ![h] = Free],
         UNCHANGED <<arenas, narenas, nextId, assoc, touched, inUse>>,
         \/ /\ numbers' = numbers \cup {[index |-> handle[h].index, id |-> handle[h].id]}
            /\ UNCHANGED leaked
         \/ leaked' = leaked \cup {handle[h].id} /\ UNCHANGED numbers
  PROVE  IInv'
<1> USE DEF IInv
<1> DEFINE i == handle[h].index
           id == handle[h].id
           n == [index |-> i, id |-> id]
<1>1. i \in Indices /\ Explicit(i) /\ arenas[i].id = id /\ id \in 1..(nextId - 1)
  BY DEF OwnersAreLive, IsExplicit, Explicit, IdsTellArenas, TypeOK, HandleRecord
<1>2. /\ handle' \in [Handles -> HandleRecord] /\ ~ Owner(h)'
      /\ \A g \in Handles \ {h} : handle'[g] = handle[g] /\ (Owner(g)' <=> Owner(g))
  BY Released
<1>3. numbers' \in SUBSET [index : Indices, id : Nat] /\ leaked' \in SUBSET (1..(nextId - 1))
  BY <1>1 DEF TypeOK
<1>4. TypeOK'
  BY <1>2, <1>3 DEF TypeOK
<1>5. FreshIndices' /\ IdsTellArenas' /\ NothingInDeadArenas'
  BY DEF FreshIndices, IdsTellArenas, NothingInDeadArenas, Live, Explicit
<1>6. OwnersAreLive'
  BY <1>1, <1>2 DEF OwnersAreLive, IsExplicit, Explicit
<1>7. OneOwner'
  BY <1>2 DEF OneOwner
<1>8. NoArenaLost'
  <2> SUFFICES ASSUME NEW j \in Indices, arenas[j].kind = "explicit"
               PROVE  \/ \E g \in Handles : Owner(g)' /\ handle'[g].id = arenas[j].id
                      \/ \E m \in numbers' : m.id = arenas[j].id
                      \/ arenas[j].id \in leaked'
    BY DEF NoArenaLost
  <2>1. CASE arenas[j].id = id
    <3>1. n.id = id
      OBVIOUS
    <3>2. QED
      BY <2>1, <3>1
  <2>2. CASE arenas[j].id # id
    BY <1>2, <2>2 DEF NoArenaLost
  <2>3. QED
    BY <2>1, <2>2
<1>9. QED
  BY <1>4, <1>5, <1>6, <1>7, <1>8

LEMMA IntoIndexStep ==
  ASSUME IInv, NEW h \in Handles, into_index(h)
  PROVE  IInv'
<1>1. /\ handle' = [handle EXCEPT ![h] = Free] /\ handle[h].place = "held"
      /\ UNCHANGED <<arenas, narenas, nextId, assoc, touched, inUse, leaked>>
  BY DEF into_index, jemallocVars
<1>2. CASE handle[h].owned
  BY <1>1, <1>2, OwnerGivesUp DEF into_index, Owner
<1>3. CASE ~ handle[h].owned
  BY <1>1, <1>3, NonOwnerGone DEF into_index
<1>4. QED
  BY <1>2, <1>3

LEMMA TryDestroyStep ==
  ASSUME IInv, NEW h \in Handles, try_destroy(h)
  PROVE  IInv'
<1>1. handle[h].place = "held" /\ UNCHANGED <<narenas, nextId, assoc, touched, numbers, leaked>>
  BY DEF try_destroy
<1>2. CASE /\ handle[h].owned /\ Destroyed(handle[h].index)
           /\ handle' = [handle EXCEPT ![h] = Free]
  BY <1>1, <1>2, OwnerDestroys DEF Owner
<1>3. CASE NotDestroyed /\ handle' = [handle EXCEPT ![h].place = "error"]
  <2>1. UNCHANGED <<arenas, inUse>>
    BY <1>3 DEF NotDestroyed
  <2>2. SameOwners /\ handle' \in [Handles -> HandleRecord]
    BY <1>1, <1>3, PlaceChanged DEF IInv
  <2>3. QED
    BY <1>1, <2>1, <2>2, UseStep DEF IInv, TypeOK, NothingInDeadArenas
<1>4. QED
  BY <1>2, <1>3 DEF try_destroy

LEMMA DropStep ==
  ASSUME IInv, NEW h \in Handles, drop(h)
  PROVE  IInv'
<1>1. /\ handle[h].place # "free" /\ handle' = [handle EXCEPT ![h] = Free]
      /\ UNCHANGED <<narenas, nextId, assoc, touched, numbers>>
  BY DEF drop
<1>2. CASE ~ handle[h].owned /\ UNCHANGED <<arenas, inUse, leaked>>
  BY <1>1, <1>2, NonOwnerGone
<1>3. CASE handle[h].owned /\ Destroyed(handle[h].index) /\ UNCHANGED leaked
  BY <1>1, <1>3, OwnerDestroys DEF Owner
<1>4. CASE handle[h].owned /\ NotDestroyed /\ leaked' = leaked \cup {handle[h].id}
  BY <1>1, <1>4, OwnerGivesUp DEF Owner, NotDestroyed
<1>5. QED
  BY <1>2, <1>3, <1>4 DEF drop

LEMMA NextIInv == IInv /\ [Next]_vars => IInv'
<1> SUFFICES ASSUME IInv, [Next]_vars PROVE IInv'
  OBVIOUS
<1>1. ASSUME NEW h \in Handles, NEW table \in Tables,
             create(h, table) \/ set_extent_hooks(h, table)
      PROVE  IInv'
  BY <1>1, CreateStep, SetExtentHooksStep
<1>2. ASSUME NEW h \in Handles, NEW i \in Indices,
             from_index(h, i) \/ lookup(h, i) \/ from_owned_index(h, i)
      PROVE  IInv'
  <2>1. CASE from_index(h, i) \/ lookup(h, i)
    BY <2>1, BorrowedStep DEF from_index, lookup
  <2>2. QED
    BY <1>2, <2>1, FromOwnedIndexStep
<1>3. ASSUME NEW h \in Handles, NEW t \in Threads, current(h, t)
      PROVE  IInv'
  <2>1. assoc[t] \in Indices
    BY DEF IInv, TypeOK
  <2>2. QED
    BY <1>3, <2>1, BorrowedStep DEF current
<1>4. ASSUME NEW h \in Handles, NEW g \in Handles, NEW t \in Threads, set_current(h, t, g)
      PROVE  IInv'
  BY <1>4, SetCurrentStep
<1>5. ASSUME NEW h \in Handles,
             \/ into_index(h) \/ reset(h) \/ try_destroy(h)
             \/ into_parts(h) \/ drop(h) \/ AllocateWithFlags(h)
      PROVE  IInv'
  BY <1>5, IntoIndexStep, ResetStep, TryDestroyStep, IntoPartsStep, DropStep,
     AllocateWithFlagsStep
<1>6. ASSUME NEW t \in Threads, Allocate(t) \/ flush(t) \/ \E i \in Indices : Deallocate(t, i)
      PROVE  IInv'
  BY <1>6, MemoryStep
<1>7. CASE UNCHANGED vars
  <2>1. SameOwners
    BY <1>7 DEF vars, SameOwners, Owner
  <2>2. QED
    BY <1>7, <2>1, UseStep DEF vars, IInv, TypeOK, NothingInDeadArenas
<1>8. QED
  BY <1>1, <1>2, <1>3, <1>4, <1>5, <1>6, <1>7 DEF Next

LEMMA Invariance == Spec => []IInv
BY InitIInv, NextIInv, PTL DEF Spec

-----------------------------------------------------------------------------
(* The theorems *)

\* Owners name live arenas of their own, through any sequence of creations,
\* conversions, failed destructions, drops and recycled indices.
THEOREM OwnersExclusive == Spec => []OwnersAreExclusive
<1>1. IInv => OwnersAreExclusive
  BY DEF IInv, OwnersAreExclusive
<1>2. QED
  BY <1>1, Invariance, PTL

\* No operation of arena.rs forgets an explicit arena: only jemalloc's refusal
\* of a best-effort drop leaves one without an owner.
THEOREM ArenasAreKept == Spec => []NoArenaLost
<1>1. IInv => NoArenaLost
  BY DEF IInv
<1>2. QED
  BY <1>1, Invariance, PTL

\* No thread, cache or allocation is left in a destroyed arena.
THEOREM DeadArenasAreEmpty == Spec => []NothingInDeadArenas
<1>1. IInv => NothingInDeadArenas
  BY DEF IInv
<1>2. QED
  BY <1>1, Invariance, PTL

-----------------------------------------------------------------------------
(* The refinement *)

LEMMA AliveFacts ==
  ASSUME TypeOK, NEW r
  PROVE  r \in alive <=> \E i \in Indices : Explicit(i) /\ arenas[i].id = r
BY DEF alive, Explicit

LEMMA AliveFactsPrime ==
  ASSUME TypeOK', NEW r
  PROVE  r \in alive' <=> \E i \in Indices : Explicit(i)' /\ arenas'[i].id = r
BY DEF alive, Explicit

\* A handle becomes an owner, and no other owner changes.
LEMMA OwnsAcquired ==
  ASSUME NEW h \in Handles, Owner(h)', ~ Owner(h),
         \A g \in Handles \ {h} : handle'[g] = handle[g] /\ (Owner(g)' <=> Owner(g))
  PROVE  owns[h] = {} /\ owns' = [owns EXCEPT ![h] = {handle'[h].id}]
BY DEF owns

\* An owner ends, and no other owner changes.
LEMMA OwnsReleased ==
  ASSUME NEW h \in Handles, Owner(h), ~ Owner(h)',
         \A g \in Handles \ {h} : handle'[g] = handle[g] /\ (Owner(g)' <=> Owner(g))
  PROVE  owns[h] = {handle[h].id} /\ owns' = [owns EXCEPT ![h] = {}]
BY DEF owns

LEMMA OwnsKept ==
  ASSUME SameOwners
  PROVE  UNCHANGED owns
BY DEF SameOwners, owns

LEMMA CreateRefines ==
  ASSUME IInv, NEW h \in Handles, NEW table \in Tables, create(h, table)
  PROVE  OwnedArena!Create(h)
<1>1. PICK i \in NewIndex :
        /\ CreateArena(i, table)
        /\ handle' = [handle EXCEPT ![h] =
                        IF validated_index(i) THEN Held(i, TRUE, nextId) ELSE Free]
  BY DEF create
<1>2. i \in Indices /\ ~ Live(i) /\ validated_index(i) /\ handle[h] = Free
  BY NewIndexFacts, IndexFacts, ArenaAssumption
     DEF validated_index, Indices, IInv, TypeOK, create
<1>3. /\ nextId \in 1..MaxId /\ nextId \in Nat /\ nextId' = nextId + 1
      /\ arenas' = [arenas EXCEPT ![i] = [kind |-> "explicit", id |-> nextId,
                                          table |-> table]]
  BY <1>1, ArenaAssumption DEF CreateArena, IInv, TypeOK
<1>4. owns[h] = {} /\ owns' = [owns EXCEPT ![h] = {nextId}]
  <2>1. /\ Owner(h)' /\ ~ Owner(h) /\ handle'[h].id = nextId
        /\ \A g \in Handles \ {h} : handle'[g] = handle[g] /\ (Owner(g)' <=> Owner(g))
    BY <1>1, <1>2, <1>3, Acquired DEF IInv
  <2>2. QED
    BY <2>1, OwnsAcquired
<1>5. nextId \notin born /\ born' = born \cup {nextId}
  BY <1>3 DEF born
<1>6. alive' = alive \cup {nextId}
  <2>1. /\ Explicit(i)' /\ arenas'[i].id = nextId /\ ~ Explicit(i)
        /\ \A j \in Indices \ {i} :
             (Explicit(j)' <=> Explicit(j)) /\ arenas'[j].id = arenas[j].id
    BY <1>2, <1>3 DEF Explicit, Live, IInv, TypeOK
  <2>2. TypeOK /\ TypeOK'
    BY CreateStep DEF IInv
  <2>3. \A r : r \in alive' <=> r \in alive \/ r = nextId
    BY <1>2, <2>1, <2>2, AliveFacts, AliveFactsPrime
  <2>4. QED
    BY <2>3
<1>7. QED
  BY <1>3, <1>4, <1>5, <1>6 DEF OwnedArena!Create

LEMMA FromOwnedIndexRefines ==
  ASSUME IInv, NEW h \in Handles, NEW i \in Indices, from_owned_index(h, i)
  PROVE  OwnedArena!Recover(h)
<1> DEFINE id == arenas[i].id
<1>1. /\ handle[h] = Free
      /\ handle' = [handle EXCEPT ![h] = Held(i, TRUE, id)]
      /\ UNCHANGED <<arenas, nextId>>
      /\ [index |-> i, id |-> id] \in numbers \/ id \in leaked
  BY DEF from_owned_index, jemallocVars
<1>2. id \in Nat /\ Explicit(i)
  BY <1>1 DEF IInv, TypeOK, ArenaRecord, OwnersAreLive, IsExplicit, IdsTellArenas, Explicit
<1>3. owns[h] = {} /\ owns' = [owns EXCEPT ![h] = {id}]
  <2>1. /\ Owner(h)' /\ ~ Owner(h) /\ handle'[h].id = id
        /\ \A g \in Handles \ {h} : handle'[g] = handle[g] /\ (Owner(g)' <=> Owner(g))
    BY <1>1, <1>2, Acquired DEF IInv
  <2>2. QED
    BY <2>1, OwnsAcquired
<1>4. id \in alive
  BY <1>2, AliveFacts DEF IInv
<1>5. id \notin OwnedArena!Owned
  <2>1. \A g \in Handles : Owner(g) => handle[g].id # id
    BY <1>1 DEF IInv, OneOwner
  <2>2. QED
    BY <2>1 DEF OwnedArena!Owned, owns
<1>6. UNCHANGED <<born, alive>>
  BY <1>1 DEF born, alive
<1>7. QED
  BY <1>3, <1>4, <1>5, <1>6 DEF OwnedArena!Recover

LEMMA DestroyRefines ==
  ASSUME IInv, IInv', NEW h \in Handles, Owner(h), Destroyed(handle[h].index),
         handle' = [handle EXCEPT ![h] = Free], UNCHANGED nextId
  PROVE  OwnedArena!Destroy(h)
<1> DEFINE i == handle[h].index
           id == handle[h].id
<1>1. i \in Indices /\ Explicit(i) /\ arenas[i].id = id
  BY DEF IInv, OwnersAreLive, IsExplicit, Explicit, TypeOK, HandleRecord
<1>2. owns[h] = {id} /\ owns' = [owns EXCEPT ![h] = {}]
  BY Released, OwnsReleased DEF IInv
<1>3. id \in alive
  BY <1>1, AliveFacts DEF IInv
<1>4. alive' = alive \ {id}
  <2>1. /\ arenas'[i].kind # "explicit"
        /\ \A j \in Indices \ {i} :
             (Explicit(j)' <=> Explicit(j)) /\ arenas'[j].id = arenas[j].id
    <3>1. arenas' = [arenas EXCEPT ![i] = NoArena] /\ NoArena.kind = "none"
      BY DEF Destroyed, NoArena
    <3>2. arenas \in [Indices -> ArenaRecord]
      BY DEF IInv, TypeOK
    <3>3. QED
      BY <1>1, <3>1, <3>2 DEF Explicit
  <2>2. \A j \in Indices \ {i} : Explicit(j) => arenas[j].id # id
    BY <1>1 DEF IInv, IdsTellArenas
  <2>3. \A r : r \in alive' <=> r \in alive /\ r # id
    <3> TAKE r
    <3>1. r \in alive <=> \E j \in Indices : Explicit(j) /\ arenas[j].id = r
      BY AliveFacts DEF IInv
    <3>2. r \in alive' <=> \E j \in Indices : Explicit(j)' /\ arenas'[j].id = r
      BY AliveFactsPrime DEF IInv
    <3>3. QED
      BY <1>1, <2>1, <2>2, <3>1, <3>2 DEF Explicit
  <2>4. QED
    BY <2>3
<1>5. UNCHANGED born
  BY DEF born
<1>6. QED
  BY <1>2, <1>3, <1>4, <1>5 DEF OwnedArena!Destroy

LEMMA GiveUpRefines ==
  ASSUME IInv, NEW h \in Handles, Owner(h), handle' = [handle EXCEPT ![h] = Free],
         UNCHANGED <<arenas, nextId>>
  PROVE  OwnedArena!Abandon(h)
<1>1. owns[h] = {handle[h].id} /\ owns' = [owns EXCEPT ![h] = {}]
  BY Released, OwnsReleased DEF IInv
<1>2. UNCHANGED <<born, alive>>
  BY DEF born, alive
<1>3. QED
  BY <1>1, <1>2 DEF OwnedArena!Abandon

\* The steps that the owner of an arena does not notice.
LEMMA SameOwnersRefines ==
  ASSUME SameOwners, UNCHANGED <<arenas, nextId>>
  PROVE  UNCHANGED <<born, alive, owns>>
BY OwnsKept DEF born, alive

LEMMA NonOwnerGoneRefines ==
  ASSUME IInv, NEW h \in Handles, ~ handle[h].owned,
         handle' = [handle EXCEPT ![h] = Free], UNCHANGED <<arenas, nextId>>
  PROVE  UNCHANGED <<born, alive, owns>>
<1>1. SameOwners
  BY Released DEF SameOwners, Owner, IInv
<1>2. QED
  BY <1>1, SameOwnersRefines

LEMMA SetExtentHooksRefines ==
  ASSUME IInv, NEW h \in Handles, NEW table \in Tables, set_extent_hooks(h, table)
  PROVE  UNCHANGED <<born, alive, owns>>
<1>1. /\ arenas' = [arenas EXCEPT ![handle[h].index].table = table]
      /\ UNCHANGED <<nextId, handle>>
  BY DEF set_extent_hooks
<1>2. \A j \in Indices : arenas'[j].kind = arenas[j].kind /\ arenas'[j].id = arenas[j].id
  BY <1>1 DEF IInv, TypeOK, ArenaRecord
<1>3. alive' = alive
  BY <1>2 DEF alive
<1>4. QED
  BY <1>1, <1>3 DEF born, owns, Owner

LEMMA IntoIndexRefines ==
  ASSUME IInv, NEW h \in Handles, into_index(h)
  PROVE  OwnedArena!Abandon(h) \/ UNCHANGED <<born, alive, owns>>
<1>1. /\ handle' = [handle EXCEPT ![h] = Free] /\ handle[h].place = "held"
      /\ UNCHANGED <<arenas, nextId>>
  BY DEF into_index, jemallocVars
<1>2. QED
  BY <1>1, GiveUpRefines, NonOwnerGoneRefines DEF Owner

LEMMA TryDestroyRefines ==
  ASSUME IInv, NEW h \in Handles, try_destroy(h)
  PROVE  OwnedArena!Destroy(h) \/ UNCHANGED <<born, alive, owns>>
<1>1. handle[h].place = "held" /\ UNCHANGED nextId
  BY DEF try_destroy
<1>2. CASE /\ handle[h].owned /\ Destroyed(handle[h].index)
           /\ handle' = [handle EXCEPT ![h] = Free]
  BY <1>1, <1>2, TryDestroyStep, DestroyRefines DEF Owner
<1>3. CASE NotDestroyed /\ handle' = [handle EXCEPT ![h].place = "error"]
  BY <1>1, <1>3, PlaceChanged, SameOwnersRefines DEF NotDestroyed, IInv
<1>4. QED
  BY <1>2, <1>3 DEF try_destroy

LEMMA DropRefines ==
  ASSUME IInv, NEW h \in Handles, drop(h)
  PROVE  OwnedArena!Destroy(h) \/ OwnedArena!Abandon(h) \/ UNCHANGED <<born, alive, owns>>
<1>1. /\ handle[h].place # "free" /\ handle' = [handle EXCEPT ![h] = Free]
      /\ UNCHANGED nextId
  BY DEF drop
<1>2. CASE ~ handle[h].owned /\ UNCHANGED <<arenas, inUse, leaked>>
  BY <1>1, <1>2, NonOwnerGoneRefines
<1>3. CASE handle[h].owned /\ Destroyed(handle[h].index) /\ UNCHANGED leaked
  BY <1>1, <1>3, DropStep, DestroyRefines DEF Owner
<1>4. CASE handle[h].owned /\ NotDestroyed /\ leaked' = leaked \cup {handle[h].id}
  BY <1>1, <1>4, GiveUpRefines DEF Owner, NotDestroyed
<1>5. QED
  BY <1>2, <1>3, <1>4 DEF drop

LEMMA StepRefines ==
  ASSUME IInv, [Next]_vars
  PROVE  [OwnedArena!Next]_(OwnedArena!resourceVars)
<1> USE DEF OwnedArena!Next, OwnedArena!resourceVars
<1>1. ASSUME NEW h \in Handles, NEW table \in Tables,
             create(h, table) \/ set_extent_hooks(h, table)
      PROVE  [OwnedArena!Next]_(OwnedArena!resourceVars)
  BY <1>1, CreateRefines, SetExtentHooksRefines
<1>2. ASSUME NEW h \in Handles, NEW i \in Indices,
             from_index(h, i) \/ lookup(h, i) \/ from_owned_index(h, i)
      PROVE  [OwnedArena!Next]_(OwnedArena!resourceVars)
  <2>1. CASE from_index(h, i) \/ lookup(h, i)
    BY <2>1, BorrowStep, SameOwnersRefines DEF from_index, lookup, jemallocVars
  <2>2. QED
    BY <1>2, <2>1, FromOwnedIndexRefines
<1>3. ASSUME NEW h \in Handles, NEW t \in Threads, current(h, t)
      PROVE  [OwnedArena!Next]_(OwnedArena!resourceVars)
  <2>1. assoc[t] \in Indices
    BY DEF IInv, TypeOK
  <2>2. QED
    BY <1>3, <2>1, BorrowStep, SameOwnersRefines DEF current, jemallocVars
<1>4. ASSUME NEW h \in Handles, NEW g \in Handles, NEW t \in Threads, set_current(h, t, g)
      PROVE  [OwnedArena!Next]_(OwnedArena!resourceVars)
  <2>1. assoc[t] \in Indices
    BY DEF IInv, TypeOK
  <2>2. QED
    BY <1>4, <2>1, BorrowStep, SameOwnersRefines DEF set_current
<1>5. ASSUME NEW h \in Handles, into_index(h) \/ try_destroy(h) \/ drop(h)
      PROVE  [OwnedArena!Next]_(OwnedArena!resourceVars)
  BY <1>5, IntoIndexRefines, TryDestroyRefines, DropRefines
<1>6. ASSUME NEW h \in Handles, reset(h) \/ into_parts(h) \/ AllocateWithFlags(h)
      PROVE  [OwnedArena!Next]_(OwnedArena!resourceVars)
  <2>1. CASE into_parts(h)
    BY <2>1, PlaceChanged, SameOwnersRefines DEF into_parts, jemallocVars, IInv
  <2>2. CASE reset(h) \/ AllocateWithFlags(h)
    BY <2>2 DEF reset, AllocateWithFlags, jemallocVars, born, alive, owns, Owner
  <2>3. QED
    BY <1>6, <2>1, <2>2
<1>7. ASSUME NEW t \in Threads, Allocate(t) \/ flush(t) \/ \E i \in Indices : Deallocate(t, i)
      PROVE  [OwnedArena!Next]_(OwnedArena!resourceVars)
  BY <1>7 DEF Allocate, flush, Deallocate, jemallocVars, born, alive, owns, Owner
<1>8. CASE UNCHANGED vars
  BY <1>8 DEF vars, born, alive, owns, Owner
<1>9. QED
  BY <1>1, <1>2, <1>3, <1>4, <1>5, <1>6, <1>7, <1>8 DEF Next

\* An Arena is an owning handle, for every number of handles and indices and
\* however indices are recycled: each step of arena.rs is a step of the
\* abstract resource or invisible to it.
THEOREM ArenaImplementsOwnedResource == Spec => ImplementsOwnedResource
<1>1. Init => OwnedArena!Init
  <2> SUFFICES ASSUME Init PROVE OwnedArena!Init
    OBVIOUS
  <2>1. \A h \in Handles : ~ Owner(h)
    BY RecordFacts DEF Init, Owner
  <2>2. \A i \in Indices : arenas[i].kind # "explicit"
    BY DEF Init, NoArena
  <2>3. QED
    BY <2>1, <2>2 DEF OwnedArena!Init, Init, born, alive, owns
<1>2. QED
  BY <1>1, StepRefines, Invariance, PTL
     DEF Spec, ImplementsOwnedResource, OwnedArena!Spec

=============================================================================

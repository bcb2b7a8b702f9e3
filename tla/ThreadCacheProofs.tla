------------------------- MODULE ThreadCacheProofs --------------------------
(***************************************************************************)
(* Proofs about ThreadCache, for any numbers of threads, handles and       *)
(* identifiers, however the handles are moved and the identifiers recycled.*)
(***************************************************************************)
EXTENDS ThreadCache, TLAPS

HandleRecord ==
  [place : {"free", "held", "error"}, on : Threads \cup {NoThread}, index : Nat,
   owned : BOOLEAN, id : Nat]

TypeOK ==
  /\ slots \in [Indices -> Nat]
  /\ filled \in SUBSET Indices
  /\ nextId \in 1..(MaxId + 1)
  /\ knows \in [Threads -> SUBSET Keys]
  /\ handle \in [Handles -> HandleRecord]
  /\ leaked \in SUBSET Nat

\* A handle, wherever it is, is an owner on some thread of the cache that it
\* was created with, and that cache was not replaced by another one.
OwnersAreLive ==
  \A h \in Handles : handle[h].place # "free" =>
    /\ handle[h].owned
    /\ handle[h].on \in Threads
    /\ handle[h].index \in Indices
    /\ handle[h].id # 0
    /\ slots[handle[h].index] = handle[h].id

\* No two handles own the same identifier.
OneOwner ==
  \A h, g \in Handles : Owner(h) /\ Owner(g) /\ handle[h].index = handle[g].index => h = g

\* A ghost id tells the caches apart that an identifier has been.
IdsTellCaches ==
  /\ \A i \in Indices : slots[i] < nextId
  /\ \A i, j \in Indices : slots[i] # 0 /\ slots[i] = slots[j] => i = j

\* The inductive invariant.  That no memory is stranded needs that a refusal
\* of the destroy key cannot happen to an owner, which is LifecycleAvailable.
IInv ==
  /\ TypeOK
  /\ OwnersAreLive
  /\ OneOwner
  /\ IdsTellCaches
  /\ LifecycleAvailable
  /\ NoCacheLost
  /\ NoMemoryStranded

-----------------------------------------------------------------------------

LEMMA IndexFacts == Indices \subseteq Nat /\ \A i \in Indices : validated_index(i)
BY ThreadCacheAssumption DEF Indices, validated_index

LEMMA RecordFacts ==
  /\ Free \in HandleRecord
  /\ Free.place = "free"
  /\ \A t \in Threads, i \in Indices, id \in Nat :
       /\ Held(t, i, id) \in HandleRecord
       /\ Held(t, i, id).place = "held" /\ Held(t, i, id).owned
       /\ Held(t, i, id).on = t /\ Held(t, i, id).index = i /\ Held(t, i, id).id = id
BY IndexFacts DEF Free, Held, HandleRecord

\* What the step does to the handles other than h: nothing.
OthersKept(h) ==
  \A g \in Handles \ {h} : handle'[g] = handle[g] /\ (Owner(g)' <=> Owner(g))

\* No thread forgets a key: a `holds` of KeyService only grows.
KeysKept == \A t \in Threads : knows[t] \subseteq knows'[t]

LEMMA Released ==
  ASSUME TypeOK, NEW h \in Handles, handle' = [handle EXCEPT ![h] = Free]
  PROVE  /\ handle' \in [Handles -> HandleRecord]
         /\ handle'[h].place = "free" /\ ~ Owner(h)'
         /\ OthersKept(h)
<1>1. handle' \in [Handles -> HandleRecord] /\ handle'[h] = Free
  BY RecordFacts DEF TypeOK
<1>2. \A g \in Handles \ {h} : handle'[g] = handle[g]
  BY DEF TypeOK
<1>3. QED
  BY <1>1, <1>2, RecordFacts DEF Owner, OthersKept

LEMMA Looked ==
  ASSUME TypeOK, NEW t \in Threads, NEW K \in SUBSET Keys,
         knows' = [knows EXCEPT ![t] = @ \cup K]
  PROVE  /\ knows' \in [Threads -> SUBSET Keys] /\ KeysKept
         /\ knows'[t] = knows[t] \cup K
BY DEF TypeOK, KeysKept

\* The handles keep what they own and where they are, the table of caches is
\* the same, and memory is only found in caches whose owner can flush it.
LEMMA SameCaches ==
  ASSUME IInv, UNCHANGED <<slots, nextId, leaked>>,
         handle' \in [Handles -> HandleRecord],
         knows' \in [Threads -> SUBSET Keys], KeysKept,
         filled' \in SUBSET Indices,
         \A h \in Handles :
           /\ handle'[h].place # "free" <=> handle[h].place # "free"
           /\ handle[h].place # "free" =>
                /\ handle'[h].owned = handle[h].owned
                /\ handle'[h].index = handle[h].index
                /\ handle'[h].id = handle[h].id
                /\ handle'[h].on \in Threads
                /\ knows[handle[h].on] \subseteq knows'[handle'[h].on],
         \A i \in filled' \ filled : \E h \in Handles : Owner(h) /\ handle[h].index = i
  PROVE  IInv' /\ UNCHANGED <<born, alive, owns>>
<1> USE DEF IInv
<1>1. TypeOK'
  BY DEF TypeOK
<1>2. \A h \in Handles :
        /\ Owner(h)' <=> Owner(h)
        /\ Owner(h) => /\ handle'[h].index = handle[h].index
                       /\ handle'[h].id = handle[h].id
                       /\ knows[handle[h].on] \subseteq knows'[handle'[h].on]
  BY DEF Owner
<1>3. OwnersAreLive' /\ OneOwner' /\ IdsTellCaches'
  BY <1>2 DEF OwnersAreLive, OneOwner, IdsTellCaches
<1>4. LifecycleAvailable'
  BY <1>2 DEF LifecycleAvailable
<1>5. NoCacheLost'
  BY <1>2 DEF NoCacheLost
<1>6. NoMemoryStranded'
  <2> SUFFICES ASSUME NEW i \in filled', ~ (slots[i] # 0 /\ slots[i] \in leaked)
               PROVE  \E h \in Handles : /\ Owner(h)' /\ handle'[h].index = i
                                         /\ "flush" \in knows'[handle'[h].on]
    BY DEF NoMemoryStranded
  <2>1. PICK h \in Handles : /\ Owner(h) /\ handle[h].index = i
                             /\ "flush" \in knows[handle[h].on]
    BY DEF NoMemoryStranded, LifecycleAvailable
  <2>2. QED
    BY <1>2, <2>1
<1>7. UNCHANGED <<born, alive, owns>>
  <2> HIDE DEF IInv
  <2>1. UNCHANGED <<born, alive>>
    BY DEF born, alive
  <2>2. \A h \in Handles : (IF Owner(h) THEN {handle[h].id} ELSE {})' =
                           (IF Owner(h) THEN {handle[h].id} ELSE {})
    BY <1>2
  <2>3. UNCHANGED owns
    BY <2>2, Zenon DEF owns
  <2>4. QED
    BY <2>1, <2>3
<1>8. QED
  BY <1>1, <1>3, <1>4, <1>5, <1>6, <1>7

LEMMA InitIInv == Init => IInv /\ OwnedCache!Init
<1> SUFFICES ASSUME Init PROVE IInv /\ OwnedCache!Init
  OBVIOUS
<1>1. \A h \in Handles : handle[h].place = "free" /\ ~ Owner(h)
  BY RecordFacts DEF Init, Owner
<1>2. TypeOK
  BY RecordFacts, ThreadCacheAssumption DEF Init, TypeOK
<1>3. OwnersAreLive /\ OneOwner /\ IdsTellCaches
  BY <1>1 DEF Init, OwnersAreLive, OneOwner, IdsTellCaches
<1>4. LifecycleAvailable /\ NoCacheLost /\ NoMemoryStranded
  BY <1>1 DEF Init, LifecycleAvailable, NoCacheLost, NoMemoryStranded
<1>5. OwnedCache!Init
  BY <1>1 DEF Init, OwnedCache!Init, born, alive, owns
<1>6. QED
  BY <1>2, <1>3, <1>4, <1>5 DEF IInv

-----------------------------------------------------------------------------
(* One lemma per operation: it keeps the invariant, and is a step of the    *)
(* abstract resource or invisible to it.                                    *)

\* A creation that fails at a key, or at jemalloc, creates nothing; one that
\* succeeds has the keys of flush and destroy.
LEMMA CreateStep ==
  ASSUME IInv, NEW h \in Handles, NEW t \in Threads, create(h, t)
  PROVE  IInv' /\ (OwnedCache!Create(h) \/ UNCHANGED <<born, alive, owns>>)
<1> USE DEF IInv
<1>1. handle[h] = Free /\ handle[h].place = "free" /\ UNCHANGED <<filled, leaked>>
  BY RecordFacts DEF create
<1>2. CASE UNCHANGED <<slots, nextId, handle>>
  <2>1. PICK K \in SUBSET Keys : knows' = [knows EXCEPT ![t] = @ \cup K]
    <3>1. knows = [knows EXCEPT ![t] = @ \cup {}]
      BY DEF TypeOK
    <3>2. [knows EXCEPT ![t] = Keys] = [knows EXCEPT ![t] = @ \cup Keys]
      BY DEF TypeOK
    <3>3. {} \in SUBSET Keys /\ {"create"} \in SUBSET Keys
          /\ {"create", "flush"} \in SUBSET Keys /\ Keys \in SUBSET Keys
      BY DEF Keys
    <3>4. QED
      BY <3>1, <3>2, <3>3 DEF create, Lookup
  <2>2. knows' \in [Threads -> SUBSET Keys] /\ KeysKept
    BY <2>1, Looked
  <2>3. QED
    BY <1>1, <1>2, <2>2, SameCaches DEF TypeOK, OwnersAreLive, KeysKept
<1>3. CASE /\ knows' = [knows EXCEPT ![t] = Keys]
           /\ nextId <= MaxId
           /\ \E i \in Indices :
                /\ slots[i] = 0
                /\ slots' = [slots EXCEPT ![i] = nextId]
                /\ handle' = [handle EXCEPT ![h] =
                                IF validated_index(i) THEN Held(t, i, nextId) ELSE Free]
           /\ nextId' = nextId + 1
  <2>1. /\ knows' \in [Threads -> SUBSET Keys] /\ KeysKept /\ knows'[t] = Keys
        /\ nextId \in 1..MaxId /\ nextId \in Nat /\ nextId' = nextId + 1 /\ nextId # 0
    BY <1>3, ThreadCacheAssumption DEF TypeOK, KeysKept
  <2>2. PICK i \in Indices : /\ slots[i] = 0
                             /\ slots' = [slots EXCEPT ![i] = nextId]
                             /\ handle' = [handle EXCEPT ![h] = Held(t, i, nextId)]
    BY <1>3, IndexFacts
  <2>3. /\ slots' \in [Indices -> Nat] /\ slots'[i] = nextId
        /\ \A j \in Indices \ {i} : slots'[j] = slots[j]
    BY <2>1, <2>2 DEF TypeOK
  <2>4. /\ handle' \in [Handles -> HandleRecord] /\ handle'[h] = Held(t, i, nextId)
        /\ \A g \in Handles \ {h} : handle'[g] = handle[g]
    BY <2>1, <2>2, RecordFacts DEF TypeOK
  <2>5. /\ handle'[h].place = "held" /\ handle'[h].owned /\ handle'[h].on = t
        /\ handle'[h].index = i /\ handle'[h].id = nextId
        /\ Owner(h)' /\ ~ Owner(h)
        /\ OthersKept(h)
    BY <1>1, <2>1, <2>4, RecordFacts DEF Owner, OthersKept
  <2>6. \A g \in Handles \ {h} : Owner(g) => handle[g].index \in Indices \ {i}
    BY <2>1, <2>2 DEF Owner, OwnersAreLive
  <2>7. TypeOK'
    BY <1>1, <2>1, <2>3, <2>4, ThreadCacheAssumption DEF TypeOK
  <2>8. OwnersAreLive'
    <3>1. \A g \in Handles \ {h} : handle[g].place # "free" => Owner(g)
      BY DEF OwnersAreLive, Owner
    <3>2. QED
      BY <2>1, <2>3, <2>4, <2>5, <2>6, <3>1 DEF OwnersAreLive
  <2>9. OneOwner'
    BY <2>4, <2>5, <2>6 DEF OneOwner, OthersKept
  <2>10. IdsTellCaches'
    BY <2>1, <2>2, <2>3 DEF IdsTellCaches, TypeOK
  <2>11. LifecycleAvailable'
    <3>1. \A g \in Handles \ {h} : Owner(g) => handle[g].on \in Threads
      BY DEF Owner, OwnersAreLive
    <3>2. QED
      BY <2>1, <2>5, <3>1 DEF LifecycleAvailable, Keys, OthersKept, KeysKept
  <2>12. NoCacheLost'
    BY <1>1, <2>3, <2>5 DEF NoCacheLost, OthersKept
  <2>13. NoMemoryStranded'
    <3> SUFFICES ASSUME NEW j \in filled
                 PROVE  \/ \E g \in Handles : /\ Owner(g)' /\ handle'[g].index = j
                                              /\ "flush" \in knows'[handle'[g].on]
                        \/ slots'[j] # 0 /\ slots'[j] \in leaked
      BY <1>1 DEF NoMemoryStranded
    <3>1. CASE j = i
      BY <2>1, <2>5, <3>1 DEF Keys
    <3>2. CASE j # i
      <4>1. CASE slots[j] # 0 /\ slots[j] \in leaked
        BY <2>3, <3>2, <4>1 DEF TypeOK
      <4>2. CASE \E g \in Handles : /\ Owner(g) /\ handle[g].index = j
                                    /\ "flush" \in knows[handle[g].on]
        <5>1. PICK g \in Handles : /\ Owner(g) /\ handle[g].index = j
                                   /\ "flush" \in knows[handle[g].on]
          BY <4>2
        <5>2. g # h /\ handle[g].on \in Threads
          BY <2>5, <5>1 DEF Owner, OwnersAreLive
        <5>3. QED
          BY <2>1, <2>5, <5>1, <5>2 DEF OthersKept, KeysKept
      <4>3. QED
        BY <4>1, <4>2 DEF NoMemoryStranded
    <3>3. QED
      BY <3>1, <3>2
  <2>14. owns[h] = {} /\ owns' = [owns EXCEPT ![h] = {nextId}]
    BY <2>5 DEF owns, OthersKept
  <2>15. nextId \notin born /\ born' = born \cup {nextId}
    BY <2>1 DEF born
  <2>16. alive' = alive \cup {nextId}
    BY <2>1, <2>2, <2>3 DEF alive
  <2>17. QED
    BY <2>1, <2>7, <2>8, <2>9, <2>10, <2>11, <2>12, <2>13, <2>14, <2>15, <2>16
       DEF OwnedCache!Create
<1>4. QED
  BY <1>2, <1>3 DEF create

LEMMA UseFlagsStep ==
  ASSUME IInv, NEW h \in Handles, UseFlags(h)
  PROVE  IInv' /\ UNCHANGED <<born, alive, owns>>
<1>1. /\ handle[h].place = "held" /\ filled' = filled \cup {handle[h].index}
      /\ UNCHANGED <<slots, nextId, knows, handle, leaked>>
  BY DEF UseFlags
<1>2. Owner(h) /\ handle[h].index \in Indices
  BY <1>1 DEF IInv, OwnersAreLive, Owner
<1>3. QED
  BY <1>1, <1>2, SameCaches DEF IInv, TypeOK, OwnersAreLive, KeysKept

LEMMA FlushStep ==
  ASSUME IInv, NEW h \in Handles, flush(h)
  PROVE  IInv' /\ UNCHANGED <<born, alive, owns>>
<1>1. /\ handle[h].place = "held" /\ filled' = filled \ {handle[h].index}
      /\ knows' = [knows EXCEPT ![handle[h].on] = @ \cup {"flush"}]
      /\ UNCHANGED <<slots, nextId, handle, leaked>>
  BY DEF flush, Lookup
<1>2. handle[h].on \in Threads /\ {"flush"} \in SUBSET Keys
  BY <1>1 DEF IInv, OwnersAreLive, Keys
<1>3. knows' \in [Threads -> SUBSET Keys] /\ KeysKept
  BY <1>1, <1>2, Looked DEF IInv
<1>4. QED
  BY <1>1, <1>3, SameCaches DEF IInv, TypeOK, OwnersAreLive, KeysKept

LEMMA IntoPartsStep ==
  ASSUME IInv, NEW h \in Handles, into_parts(h)
  PROVE  IInv' /\ UNCHANGED <<born, alive, owns>>
<1>1. /\ handle[h].place = "error" /\ handle' = [handle EXCEPT ![h].place = "held"]
      /\ UNCHANGED <<slots, filled, nextId, knows, leaked>>
  BY DEF into_parts
<1>2. /\ handle' \in [Handles -> HandleRecord]
      /\ \A g \in Handles :
           /\ handle'[g].place # "free" <=> handle[g].place # "free"
           /\ handle'[g].owned = handle[g].owned /\ handle'[g].index = handle[g].index
           /\ handle'[g].id = handle[g].id /\ handle'[g].on = handle[g].on
  BY <1>1 DEF IInv, TypeOK, HandleRecord
<1>3. QED
  BY <1>1, <1>2, SameCaches DEF IInv, TypeOK, OwnersAreLive, KeysKept

\* The new thread sees what the old one has seen, so that an owner takes the
\* keys of its lifecycle with it.
LEMMA MoveStep ==
  ASSUME IInv, NEW h \in Handles, NEW t \in Threads, Move(h, t)
  PROVE  IInv' /\ UNCHANGED <<born, alive, owns>>
<1>1. /\ handle[h].place # "free" /\ handle' = [handle EXCEPT ![h].on = t]
      /\ knows' = [knows EXCEPT ![t] = @ \cup knows[handle[h].on]]
      /\ UNCHANGED <<slots, filled, nextId, leaked>>
  BY DEF Move
<1>2. handle[h].on \in Threads /\ knows[handle[h].on] \in SUBSET Keys
  BY <1>1 DEF IInv, OwnersAreLive, TypeOK
<1>3. /\ knows' \in [Threads -> SUBSET Keys] /\ KeysKept
      /\ knows[handle[h].on] \subseteq knows'[t]
  BY <1>1, <1>2, Looked DEF IInv
<1>4. /\ handle' \in [Handles -> HandleRecord]
      /\ handle'[h].on = t
      /\ \A g \in Handles \ {h} : handle'[g].on = handle[g].on
      /\ \A g \in Handles :
           /\ handle'[g].place = handle[g].place
           /\ handle'[g].owned = handle[g].owned /\ handle'[g].index = handle[g].index
           /\ handle'[g].id = handle[g].id
  BY <1>1 DEF IInv, TypeOK, HandleRecord
<1>5. \A g \in Handles : handle[g].place # "free" =>
        handle'[g].on \in Threads /\ knows[handle[g].on] \subseteq knows'[handle'[g].on]
  BY <1>3, <1>4 DEF IInv, OwnersAreLive, KeysKept
<1>6. QED
  BY <1>1, <1>3, <1>4, <1>5, SameCaches DEF IInv, TypeOK

\* An owner ends.  If its cache is destroyed the identifier is free, and no
\* other handle had it; if not, jemalloc itself rejected the command, since
\* the owner's thread cannot be refused the key, and the cache is accounted
\* for as leaked.
LEMMA OwnerEnds ==
  ASSUME IInv, NEW h \in Handles, Owner(h), handle' = [handle EXCEPT ![h] = Free],
         UNCHANGED nextId,
         \/ Destroyed(h) /\ UNCHANGED leaked
         \/ /\ NotDestroyed(h)
            /\ leaked' = IF "destroy" \in knows'[handle[h].on]
                         THEN leaked \cup {handle[h].id} ELSE leaked
  PROVE  IInv' /\ (OwnedCache!Destroy(h) \/ OwnedCache!Abandon(h))
<1> USE DEF IInv
<1>1. PICK i \in Indices : i = handle[h].index
  BY DEF Owner, OwnersAreLive
<1>2. PICK t \in Threads : t = handle[h].on
  BY DEF Owner, OwnersAreLive
<1>3. PICK id \in Nat \ {0} : id = handle[h].id
  BY DEF Owner, OwnersAreLive, TypeOK, HandleRecord
<1>4. slots[i] = id
  BY <1>1, <1>3 DEF Owner, OwnersAreLive
<1>5. {"flush", "destroy"} \subseteq knows[t]
  BY <1>2 DEF LifecycleAvailable
<1>6. /\ handle' \in [Handles -> HandleRecord]
      /\ handle'[h].place = "free" /\ ~ Owner(h)'
      /\ OthersKept(h)
  BY Released
<1>7. knows' = [knows EXCEPT ![t] = @ \cup {"destroy"}]
  BY <1>2, <1>5 DEF Destroyed, NotDestroyed, Lookup, Refused
<1>8. knows' \in [Threads -> SUBSET Keys] /\ KeysKept /\ "destroy" \in knows'[t]
  BY <1>7, Looked DEF Keys
<1>9. \/ slots' = [slots EXCEPT ![i] = 0] /\ filled' = filled \ {i} /\ UNCHANGED leaked
      \/ UNCHANGED <<slots, filled>> /\ leaked' = leaked \cup {id}
  BY <1>1, <1>2, <1>3, <1>5, <1>8 DEF Destroyed, NotDestroyed, Refused
<1>10. /\ \A g \in Handles \ {h} : Owner(g) =>
            handle[g].index \in Indices \ {i} /\ handle[g].on \in Threads
       /\ \A g \in Handles : handle[g].place # "free" <=> Owner(g)
  BY <1>1 DEF Owner, OwnersAreLive, OneOwner
<1>11. /\ slots' \in [Indices -> Nat]
       /\ \A j \in Indices \ {i} : slots'[j] = slots[j]
       /\ slots'[i] = 0 \/ (slots'[i] = id /\ id \in leaked')
       /\ slots'[i] = 0 => i \notin filled'
       /\ filled' \subseteq filled /\ leaked \subseteq leaked' /\ leaked' \in SUBSET Nat
  <2>1. CASE slots' = [slots EXCEPT ![i] = 0] /\ filled' = filled \ {i} /\ UNCHANGED leaked
    BY <2>1 DEF TypeOK
  <2>2. CASE UNCHANGED <<slots, filled>> /\ leaked' = leaked \cup {id}
    BY <1>4, <2>2 DEF TypeOK
  <2>3. QED
    BY <1>9, <2>1, <2>2
<1>12. TypeOK'
  BY <1>6, <1>8, <1>11 DEF TypeOK
<1>13. OwnersAreLive'
  BY <1>6, <1>10, <1>11 DEF OwnersAreLive, OthersKept
<1>14. OneOwner'
  BY <1>6 DEF OneOwner, OthersKept
<1>15. IdsTellCaches'
  BY <1>4, <1>11 DEF IdsTellCaches, TypeOK
<1>16. LifecycleAvailable'
  BY <1>6, <1>8, <1>10 DEF LifecycleAvailable, OthersKept, KeysKept
<1>17. NoCacheLost'
  <2> SUFFICES ASSUME NEW j \in Indices, slots'[j] # 0
               PROVE  (\E g \in Handles : Owner(g)' /\ handle'[g].index = j)
                      \/ slots'[j] \in leaked'
    BY DEF NoCacheLost
  <2>1. CASE j = i
    BY <1>11, <2>1
  <2>2. CASE j # i
    <3>1. CASE slots[j] \in leaked
      BY <1>11, <2>2, <3>1
    <3>2. CASE \E g \in Handles : Owner(g) /\ handle[g].index = j
      BY <1>1, <1>6, <2>2, <3>2 DEF OthersKept
    <3>3. QED
      BY <1>11, <2>2, <3>1, <3>2 DEF NoCacheLost
  <2>3. QED
    BY <2>1, <2>2
<1>18. NoMemoryStranded'
  <2> SUFFICES ASSUME NEW j \in filled'
               PROVE  \/ \E g \in Handles : /\ Owner(g)' /\ handle'[g].index = j
                                            /\ "flush" \in knows'[handle'[g].on]
                      \/ slots'[j] # 0 /\ slots'[j] \in leaked'
    BY DEF NoMemoryStranded
  <2>1. CASE j = i
    BY <1>11, <2>1
  <2>2. CASE j # i
    <3>1. j \in filled /\ j \in Indices /\ slots'[j] = slots[j]
      BY <1>11, <2>2 DEF TypeOK
    <3>2. CASE slots[j] # 0 /\ slots[j] \in leaked
      BY <1>11, <3>1, <3>2
    <3>3. CASE \E g \in Handles : /\ Owner(g) /\ handle[g].index = j
                                  /\ "flush" \in knows[handle[g].on]
      BY <1>1, <1>6, <1>8, <1>10, <2>2, <3>3 DEF OthersKept, KeysKept
    <3>4. QED
      BY <3>1, <3>2, <3>3 DEF NoMemoryStranded
  <2>3. QED
    BY <2>1, <2>2
<1>19. owns[h] = {id} /\ owns' = [owns EXCEPT ![h] = {}] /\ UNCHANGED born
  BY <1>3, <1>6 DEF owns, born, OthersKept
<1>20. CASE slots' = [slots EXCEPT ![i] = 0]
  <2>1. \A j \in Indices \ {i} : slots[j] # id
    BY <1>3, <1>4 DEF IdsTellCaches
  <2>2. id \in alive /\ alive' = alive \ {id}
    BY <1>3, <1>4, <1>20, <2>1 DEF alive, TypeOK
  <2>3. OwnedCache!Destroy(h)
    BY <1>19, <2>2 DEF OwnedCache!Destroy
  <2>4. QED
    BY <1>12, <1>13, <1>14, <1>15, <1>16, <1>17, <1>18, <2>3
<1>21. CASE UNCHANGED slots
  <2>1. OwnedCache!Abandon(h)
    BY <1>19, <1>21 DEF OwnedCache!Abandon, alive
  <2>2. QED
    BY <1>12, <1>13, <1>14, <1>15, <1>16, <1>17, <1>18, <2>1
<1>22. QED
  BY <1>9, <1>20, <1>21

LEMMA TryDestroyStep ==
  ASSUME IInv, NEW h \in Handles, try_destroy(h)
  PROVE  /\ IInv'
         /\ \/ OwnedCache!Destroy(h) \/ OwnedCache!Abandon(h)
            \/ UNCHANGED <<born, alive, owns>>
<1>1. handle[h].place = "held" /\ UNCHANGED <<nextId, leaked>>
  BY DEF try_destroy
<1>2. handle[h].on \in Threads /\ Owner(h)
  BY <1>1 DEF IInv, OwnersAreLive, Owner
<1>3. CASE Destroyed(h) /\ handle' = [handle EXCEPT ![h] = Free]
  BY <1>1, <1>2, <1>3, OwnerEnds
<1>4. CASE NotDestroyed(h) /\ handle' = [handle EXCEPT ![h].place = "error"]
  <2>1. "destroy" \in knows[handle[h].on]
    BY <1>2 DEF IInv, LifecycleAvailable
  <2>2. knows' = [knows EXCEPT ![handle[h].on] = @ \cup {"destroy"}]
        /\ UNCHANGED <<slots, filled>>
    BY <1>4, <2>1 DEF NotDestroyed, Refused, Lookup
  <2>3. knows' \in [Threads -> SUBSET Keys] /\ KeysKept
    BY <1>2, <2>2, Looked DEF IInv, Keys
  <2>4. /\ handle' \in [Handles -> HandleRecord]
        /\ \A g \in Handles :
             /\ handle'[g].place # "free" <=> handle[g].place # "free"
             /\ handle'[g].owned = handle[g].owned /\ handle'[g].index = handle[g].index
             /\ handle'[g].id = handle[g].id /\ handle'[g].on = handle[g].on
    BY <1>1, <1>4 DEF IInv, TypeOK, HandleRecord
  <2>5. QED
    BY <1>1, <2>2, <2>3, <2>4, SameCaches DEF IInv, TypeOK, OwnersAreLive, KeysKept
<1>5. QED
  BY <1>3, <1>4 DEF try_destroy

LEMMA DropStep ==
  ASSUME IInv, NEW h \in Handles, drop(h)
  PROVE  IInv' /\ (OwnedCache!Destroy(h) \/ OwnedCache!Abandon(h))
<1>1. Owner(h)
  BY DEF drop, IInv, OwnersAreLive, Owner
<1>2. QED
  BY <1>1, OwnerEnds DEF drop

LEMMA NextStep ==
  ASSUME IInv, [Next]_vars
  PROVE  IInv' /\ [OwnedCache!Next]_(OwnedCache!resourceVars)
<1> USE DEF OwnedCache!Next, OwnedCache!resourceVars
<1>1. ASSUME NEW h \in Handles, NEW t \in Threads, create(h, t) \/ Move(h, t)
      PROVE  IInv' /\ [OwnedCache!Next]_(OwnedCache!resourceVars)
  BY <1>1, CreateStep, MoveStep
<1>2. ASSUME NEW h \in Handles, UseFlags(h) \/ flush(h) \/ into_parts(h)
      PROVE  IInv' /\ [OwnedCache!Next]_(OwnedCache!resourceVars)
  BY <1>2, UseFlagsStep, FlushStep, IntoPartsStep
<1>3. ASSUME NEW h \in Handles, try_destroy(h) \/ drop(h)
      PROVE  IInv' /\ [OwnedCache!Next]_(OwnedCache!resourceVars)
  BY <1>3, TryDestroyStep, DropStep
<1>4. CASE UNCHANGED vars
  BY <1>4, SameCaches DEF vars, IInv, TypeOK, OwnersAreLive, KeysKept
<1>5. QED
  BY <1>1, <1>2, <1>3, <1>4 DEF Next

LEMMA Invariance == Spec => []IInv
<1>1. Init => IInv
  BY InitIInv
<1>2. IInv /\ [Next]_vars => IInv'
  BY NextStep
<1>3. QED
  BY <1>1, <1>2, PTL DEF Spec

-----------------------------------------------------------------------------
(* The theorems *)

\* The claim of cache.rs:43 for every number of threads and every history of
\* moves: an owner is never on a thread that may be refused the keys of its
\* flush and destroy.
THEOREM LifecycleIsAvailable == Spec => []LifecycleAvailable
<1>1. IInv => LifecycleAvailable
  BY DEF IInv
<1>2. QED
  BY <1>1, Invariance, PTL

\* Only jemalloc's own rejection of a dropped owner's command loses a cache.
THEOREM CachesAreKept == Spec => []NoCacheLost
<1>1. IInv => NoCacheLost
  BY DEF IInv
<1>2. QED
  BY <1>1, Invariance, PTL

\* Memory in a cache can be flushed by the cache's owner.
THEOREM MemoryIsReachable == Spec => []NoMemoryStranded
<1>1. IInv => NoMemoryStranded
  BY DEF IInv
<1>2. QED
  BY <1>1, Invariance, PTL

\* A ThreadCache is an owning handle, however it is moved and however its
\* identifier is recycled.
THEOREM CacheImplementsOwnedResource == Spec => ImplementsOwnedResource
<1>1. Init => OwnedCache!Init
  BY InitIInv
<1>2. IInv /\ [Next]_vars => [OwnedCache!Next]_(OwnedCache!resourceVars)
  BY NextStep
<1>3. QED
  BY <1>1, <1>2, Invariance, PTL DEF Spec, ImplementsOwnedResource, OwnedCache!Spec

=============================================================================

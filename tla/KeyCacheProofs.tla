--------------------------- MODULE KeyCacheProofs ---------------------------
(***************************************************************************)
(* Proofs about KeyCache, for any number of threads, any name table and    *)
(* any capacity.                                                           *)
(***************************************************************************)
EXTENDS KeyCache, SequenceTheorems, TLAPS

\* The locations are the length cell and the segment cells.
LEMMA LocationFacts ==
  /\ LEN \in Locations
  /\ \A l \in Locations : l \in Nat
  /\ \A i \in 1..KEY_SEGS : i \in Locations /\ i # LEN
BY KeyAssumption DEF LEN

\* A key that mibs can return fits the cache's cells and is not empty.
LEMMA ResolvableFacts ==
  ASSUME NEW n \in Names, Resolvable(n)
  PROVE  /\ Mib[n] \in Seq(Nat)
         /\ Len(Mib[n]) \in 1..KEY_SEGS
         /\ \A i \in 1..Len(Mib[n]) : Mib[n][i] \in Nat /\ i \in Locations
<1>1. Mib[n] \in Seq(Nat) /\ NameInfo[n].segments \in Nat \ {0}
  BY KeyAssumption DEF NameRecord
<1>2. Len(Mib[n]) \in 1..KEY_SEGS
  BY <1>1, KeyAssumption DEF Resolvable, LengthAccepted
<1>3. QED
  BY <1>1, <1>2, KeyAssumption

\* The results of mibs: the whole translation of a name it accepts, or one
\* of its errors.
LEMMA MibsFacts ==
  ASSUME NEW n \in Names, NEW r \in mibs(n)
  PROVE  /\ r.tag = "ok" => r = Ok(Mib[n]) /\ Resolvable(n)
         /\ r.tag # "ok" => r \in [tag : {"err"}, code : Errors]
<1>1. CASE ~ NameAccepted(n)
  BY <1>1 DEF mibs, Err, Errors
<1>2. CASE NameAccepted(n)
  <2>1. PICK s \in Status[n] :
          r = IF s # 0 THEN Err(s)
              ELSE IF LengthAccepted(n) THEN Ok(Mib[n]) ELSE Err(EINVAL)
    BY <1>2 DEF mibs
  <2>2. CASE s # 0
    <3>1. s \in Errors
      BY <2>2, KeyAssumption DEF Errors
    <3>2. QED
      BY <2>1, <2>2, <3>1 DEF Err
  <2>3. CASE s = 0
    BY <1>2, <2>1, <2>3 DEF Err, Ok, Errors, Resolvable
  <2>4. QED
    BY <2>2, <2>3
<1>3. QED
  BY <1>1, <1>2

LEMMA JoinFacts ==
  ASSUME NEW v \in View, NEW w \in View
  PROVE  /\ Join(v, w) \in View
         /\ \A l \in Locations : Join(v, w)[l] >= v[l] /\ Join(v, w)[l] >= w[l]
         /\ \A l \in Locations : v[l] = 0 /\ w[l] = 0 => Join(v, w)[l] = 0
BY DEF View, Join

LEMMA InitIInv == Init => IInv
<1> SUFFICES ASSUME Init PROVE IInv
  OBVIOUS
<1> USE DEF Init, MemoryInit
<1>1. ZeroView \in View /\ \A l \in Locations : ZeroView[l] = 0
  BY DEF ZeroView, View
<1>2. TypeOK
  <2>1. mem \in [Locations -> SUBSET Message]
    BY <1>1 DEF Message
  <2>2. view \in [Threads -> View]
    BY <1>1
  <2>3. ret \in [Threads -> Result]
    BY DEF Result, None
  <2>4. key \in [Threads -> Seq(Nat)]
    OBVIOUS
  <2>5. len \in [Threads -> 0..KEY_SEGS] /\ calls \in [Threads -> 0..MaxCalls]
    BY KeyAssumption
  <2>6. seg \in [Threads -> Nat]
    OBVIOUS
  <2>7. QED
    BY <2>1, <2>2, <2>3, <2>4, <2>5, <2>6 DEF TypeOK
<1>3. MessagesInv
  BY DEF MessagesInv
<1>4. CallInv
  <2> SUFFICES ASSUME NEW t \in Threads PROVE ThreadInv(t)
    BY DEF CallInv
  <2>1. pc[t] = "idle" /\ t \notin holds /\ view[t][LEN] = 0
    BY <1>1, LocationFacts
  <2>2. QED
    BY <2>1 DEF ThreadInv, SeenInv, LoadInv, StoreInv, RetInv
<1>5. NoPartialKey
  BY DEF NoPartialKey, None
<1>6. QED
  BY <1>2, <1>3, <1>4, <1>5 DEF IInv

\* A message of len is unpublished, or the full length with every segment in
\* its view; a message of a segment a thread has seen stored is its value.
LEMMA MessageFacts ==
  ASSUME TypeOK, MessagesInv, NEW l \in Locations, NEW m \in mem[l]
  PROVE  /\ m \in Message
         /\ m.ts \in Nat /\ m.val \in Nat /\ m.view \in View
         /\ m.ts = 0 => m.val = 0 /\ m.view = ZeroView
         /\ m.ts > 0 => Resolvable(name) /\ m.view[l] = m.ts
         /\ m.ts > 0 /\ l = LEN => /\ m.val = Len(Mib[name])
                                  /\ \A i \in KeyCells : m.view[i] > 0
         /\ m.ts > 0 /\ l # LEN => l \in KeyCells /\ m.val = Mib[name][l]
<1>1. m \in Message
  BY DEF TypeOK
<1>2. m.ts \in Nat /\ m.val \in Nat /\ m.view \in View
  BY <1>1 DEF Message
<1>3. QED
  BY <1>1, <1>2 DEF MessagesInv

\* What a thread knows is undisturbed by the steps of the others.
LEMMA OtherThread ==
  ASSUME NEW u \in Threads, ThreadInv(u),
         UNCHANGED <<name, view[u], pc[u], len[u], key[u], seg[u]>>,
         u \in holds' => u \in holds
  PROVE  ThreadInv(u)'
BY DEF ThreadInv, SeenInv, LoadInv, StoreInv, RetInv, KeyCells

\* The Acquire load of len.
LEMMA BeginGetStep ==
  ASSUME IInv, NEW t \in Threads, BeginGet(t)
  PROVE  IInv'
<1> USE DEF IInv
<1>1. PICK m \in Readable(t, LEN) :
        /\ LoadAcquire(t, m)
        /\ len' = [len EXCEPT ![t] = m.val]
        /\ pc' = [pc EXCEPT ![t] = IF m.val > 0 THEN "load" ELSE "translate"]
  BY DEF BeginGet
<1>2. /\ calls[t] < MaxCalls
      /\ calls' = [calls EXCEPT ![t] = @ + 1]
      /\ key' = [key EXCEPT ![t] = <<>>]
      /\ seg' = [seg EXCEPT ![t] = 1]
      /\ UNCHANGED <<mem, name, ret, holds>>
  BY DEF BeginGet
<1>3. m \in mem[LEN] /\ m.ts >= view[t][LEN]
  BY <1>1 DEF Readable
<1>4. m \in Message /\ m.view \in View /\ m.ts \in Nat /\ m.val \in Nat
  BY <1>3, MessageFacts, LocationFacts
<1>5. \/ m.ts = 0 /\ m.val = 0 /\ m.view = ZeroView
      \/ /\ m.ts > 0 /\ Resolvable(name) /\ m.view[LEN] = m.ts
         /\ m.val = Len(Mib[name]) /\ m.val \in 1..KEY_SEGS
         /\ \A i \in KeyCells : m.view[i] > 0
  <2>1. CASE m.ts = 0
    BY <1>3, <2>1, MessageFacts, LocationFacts
  <2>2. CASE m.ts > 0
    <3>1. /\ Resolvable(name) /\ m.view[LEN] = m.ts
          /\ m.val = Len(Mib[name])
          /\ \A i \in KeyCells : m.view[i] > 0
      BY <1>3, <2>2, MessageFacts, LocationFacts
    <3>2. QED
      BY <2>2, <3>1, ResolvableFacts DEF TypeOK
  <2>3. QED
    BY <1>4, <2>1, <2>2
<1>6. /\ view' = [view EXCEPT ![t] = Join(view[t], m.view)]
      /\ view[t] \in View
      /\ Join(view[t], m.view) \in View
      /\ \A l \in Locations : /\ Join(view[t], m.view)[l] >= view[t][l]
                              /\ Join(view[t], m.view)[l] >= m.view[l]
      /\ \A l \in Locations : view[t][l] = 0 /\ m.view[l] = 0
                                => Join(view[t], m.view)[l] = 0
  BY <1>1, <1>4, JoinFacts DEF LoadAcquire, TypeOK
<1>7. /\ view' \in [Threads -> View]
      /\ view'[t] = Join(view[t], m.view)
      /\ \A u \in Threads \ {t} : view'[u] = view[u]
      /\ \A u \in Threads : \A l \in Locations :
           view[u][l] \in Nat /\ view'[u][l] \in Nat /\ view'[u][l] >= view[u][l]
  <2>1. /\ view' \in [Threads -> View]
        /\ view'[t] = Join(view[t], m.view)
        /\ \A u \in Threads \ {t} : view'[u] = view[u]
    BY <1>6 DEF TypeOK
  <2>2. \A u \in Threads : \A l \in Locations :
          view[u][l] \in Nat /\ view'[u][l] \in Nat /\ view'[u][l] >= view[u][l]
    BY <2>1, <1>6 DEF TypeOK, View
  <2>3. QED
    BY <2>1, <2>2
<1>8. TypeOK'
  <2>1. len' \in [Threads -> 0..KEY_SEGS]
    BY <1>1, <1>5, KeyAssumption DEF TypeOK
  <2>2. key' \in [Threads -> Seq(Nat)] /\ seg' \in [Threads -> Nat]
    BY <1>2 DEF TypeOK
  <2>3. calls' \in [Threads -> 0..MaxCalls]
    BY <1>2, KeyAssumption DEF TypeOK
  <2>4. pc' \in [Threads -> {"idle", "load", "translate", "store", "publish"}]
    BY <1>1 DEF TypeOK
  <2>5. \A u \in Threads :
          pc'[u] \in {"load", "store"} => seg'[u] \in 1..KEY_SEGS
    <3> SUFFICES ASSUME NEW u \in Threads, pc'[u] \in {"load", "store"}
                 PROVE  seg'[u] \in 1..KEY_SEGS
      OBVIOUS
    <3>1. CASE u = t
      BY <3>1, <1>1, <1>2, <1>5, KeyAssumption DEF TypeOK
    <3>2. CASE u # t
      BY <3>2, <1>1, <1>2 DEF TypeOK
    <3>3. QED
      BY <3>1, <3>2
  <2>6. QED
    BY <1>2, <1>7, <2>1, <2>2, <2>3, <2>4, <2>5 DEF TypeOK
<1>9. MessagesInv'
  BY <1>2 DEF MessagesInv, KeyCells
<1>10. SeenInv(t)'
  <2> SUFFICES ASSUME view'[t][LEN] > 0
               PROVE  Resolvable(name) /\ \A i \in KeyCells : view'[t][i] > 0
    BY <1>2 DEF SeenInv, KeyCells
  <2>1. CASE view[t][LEN] > 0
    <3>1. Resolvable(name) /\ \A i \in KeyCells : view[t][i] > 0
      BY <2>1 DEF CallInv, ThreadInv, SeenInv
    <3>2. \A i \in KeyCells : i \in Locations
      BY <3>1, ResolvableFacts DEF KeyCells, TypeOK
    <3>3. QED
      BY <3>1, <3>2, <1>7
  <2>2. CASE ~ view[t][LEN] > 0
    <3>1. m.view[LEN] # 0
      BY <2>2, <1>4, <1>6, <1>7, LocationFacts DEF View
    <3>2. Resolvable(name) /\ \A i \in KeyCells : m.view[i] > 0
      BY <3>1, <1>5, LocationFacts DEF ZeroView
    <3>3. \A i \in KeyCells : i \in Locations
      BY <3>2, ResolvableFacts DEF KeyCells, TypeOK
    <3>4. QED
      BY <3>2, <3>3, <1>4, <1>6, <1>7 DEF View
  <2>3. QED
    BY <2>1, <2>2
<1>11. m.val > 0 => view'[t][LEN] > 0
  <2> SUFFICES ASSUME m.val > 0 PROVE view'[t][LEN] > 0
    OBVIOUS
  <2>1. m.view[LEN] = m.ts /\ m.ts > 0
    BY <1>5
  <2>2. QED
    BY <2>1, <1>4, <1>6, <1>7, LocationFacts
<1>12. m.val = 0 => view'[t][LEN] = 0
  <2> SUFFICES ASSUME m.val = 0 PROVE view'[t][LEN] = 0
    OBVIOUS
  <2>1. m.ts = 0 /\ m.view = ZeroView
    BY <1>5
  <2>2. view[t][LEN] = 0 /\ m.view[LEN] = 0
    BY <2>1, <1>3, <1>7, LocationFacts DEF ZeroView
  <2>3. QED
    BY <2>2, <1>6, <1>7, LocationFacts
<1>13. ThreadInv(t)'
  <2>1. LoadInv(t)'
    <3>1. CASE m.val > 0
      <4>1. pc'[t] = "load" /\ len'[t] = m.val /\ key'[t] = <<>> /\ seg'[t] = 1
        BY <3>1, <1>1, <1>2 DEF TypeOK
      <4>2. m.val = Len(Mib[name]) /\ m.val \in 1..KEY_SEGS
        BY <3>1, <1>5
      <4>3. seg'[t] \in KeyCells'
        BY <4>1, <4>2, <1>2, KeyAssumption DEF KeyCells
      <4>4. QED
        BY <3>1, <4>1, <4>2, <4>3, <1>2, <1>11 DEF LoadInv
    <3>2. CASE m.val = 0
      BY <3>2, <1>1 DEF LoadInv, TypeOK
    <3>3. QED
      BY <3>1, <3>2, <1>4
  <2>2. StoreInv(t)'
    BY <1>1 DEF StoreInv, TypeOK
  <2>3. RetInv(t)'
    <3>1. t \in holds' => view'[t][LEN] > 0
      BY <1>2, <1>7, LocationFacts DEF CallInv, ThreadInv, RetInv
    <3>2. pc'[t] \in {"translate", "store", "publish"} => view'[t][LEN] = 0
      BY <1>1, <1>4, <1>12 DEF TypeOK
    <3>3. seg'[t] = 1
      BY <1>2 DEF TypeOK
    <3>4. QED
      BY <3>1, <3>2, <3>3 DEF RetInv
  <2>4. QED
    BY <1>10, <2>1, <2>2, <2>3 DEF ThreadInv
<1>14. CallInv'
  <2> SUFFICES ASSUME NEW u \in Threads PROVE ThreadInv(u)'
    BY DEF CallInv
  <2>1. CASE u = t
    BY <2>1, <1>13
  <2>2. CASE u # t
    <3>1. /\ UNCHANGED <<name, view[u], pc[u], len[u], key[u], seg[u]>>
          /\ u \in holds' => u \in holds
      BY <2>2, <1>1, <1>2, <1>7 DEF TypeOK
    <3>2. QED
      BY <3>1, OtherThread DEF CallInv
  <2>3. QED
    BY <2>1, <2>2
<1>15. NoPartialKey'
  BY <1>2 DEF NoPartialKey
<1>16. QED
  BY <1>8, <1>9, <1>14, <1>15

\* One turn of Cache::load.
LEMMA LoadSegmentStep ==
  ASSUME IInv, NEW t \in Threads, LoadSegment(t)
  PROVE  IInv'
<1> USE DEF IInv
<1>1. PICK m \in Readable(t, seg[t]) :
        /\ LoadRelaxed(t, seg[t], m)
        /\ key' = [key EXCEPT ![t] = Append(key[t], m.val)]
        /\ IF seg[t] = len[t]
           THEN /\ pc' = [pc EXCEPT ![t] = "idle"]
                /\ ret' = [ret EXCEPT ![t] = Ok(Append(key[t], m.val))]
                /\ holds' = holds \cup {t}
                /\ UNCHANGED seg
           ELSE /\ seg' = [seg EXCEPT ![t] = seg[t] + 1]
                /\ UNCHANGED <<pc, ret, holds>>
  BY DEF LoadSegment
<1>2. pc[t] = "load" /\ UNCHANGED <<mem, name, len, calls>>
  BY DEF LoadSegment
<1>3. /\ view[t][LEN] > 0
      /\ len[t] = Len(Mib[name])
      /\ seg[t] \in KeyCells
      /\ Len(key[t]) = seg[t] - 1
      /\ \A i \in 1..Len(key[t]) : key[t][i] = Mib[name][i]
  BY <1>2 DEF CallInv, ThreadInv, LoadInv
<1>4. Resolvable(name) /\ \A i \in KeyCells : view[t][i] > 0
  BY <1>3 DEF CallInv, ThreadInv, SeenInv
<1>5. /\ Mib[name] \in Seq(Nat)
      /\ Len(Mib[name]) \in 1..KEY_SEGS
      /\ \A i \in KeyCells : Mib[name][i] \in Nat /\ i \in Locations
  BY <1>4, ResolvableFacts DEF TypeOK, KeyCells
<1>6. seg[t] \in Locations /\ seg[t] # LEN /\ seg[t] \in Nat
  BY <1>3, <1>5, KeyAssumption DEF KeyCells, LEN
<1>7. m \in mem[seg[t]] /\ m.ts >= view[t][seg[t]]
  BY <1>1 DEF Readable
<1>8. m.ts \in Nat /\ m.ts > 0 /\ m.val = Mib[name][seg[t]]
  <2>1. m.ts \in Nat
    BY <1>6, <1>7, MessageFacts
  <2>2. m.ts > 0
    BY <1>3, <1>4, <1>6, <1>7, <2>1 DEF TypeOK, View
  <2>3. QED
    BY <1>6, <1>7, <2>1, <2>2, MessageFacts
<1>9. /\ view' = [view EXCEPT ![t][seg[t]] = m.ts]
      /\ view' \in [Threads -> View]
      /\ \A u \in Threads \ {t} : view'[u] = view[u]
      /\ \A l \in Locations : l # seg[t] => view'[t][l] = view[t][l]
      /\ view'[t][seg[t]] = m.ts
  <2>1. view' = [view EXCEPT ![t][seg[t]] = m.ts]
    BY <1>1 DEF LoadRelaxed
  <2>2. QED
    BY <2>1, <1>6, <1>8 DEF TypeOK, View
<1>10. /\ Append(key[t], m.val) \in Seq(Nat)
       /\ Len(Append(key[t], m.val)) = seg[t]
       /\ \A i \in 1..seg[t] : Append(key[t], m.val)[i] = Mib[name][i]
  <2>1. key[t] \in Seq(Nat) /\ m.val \in Nat
    BY <1>3, <1>5, <1>8 DEF TypeOK
  <2>2. /\ Append(key[t], m.val) \in Seq(Nat)
        /\ Len(Append(key[t], m.val)) = Len(key[t]) + 1
        /\ \A i \in 1..Len(key[t]) : Append(key[t], m.val)[i] = key[t][i]
        /\ Append(key[t], m.val)[Len(key[t]) + 1] = m.val
    BY <2>1, AppendProperties
  <2>3. QED
    BY <2>2, <1>3, <1>6, <1>8, SMTT(30)
<1>11. /\ key' \in [Threads -> Seq(Nat)]
       /\ key'[t] = Append(key[t], m.val)
       /\ \A u \in Threads \ {t} : key'[u] = key[u]
  BY <1>1, <1>10 DEF TypeOK
<1>12. seg[t] = len[t] => Append(key[t], m.val) = Mib[name]
  <2> HAVE seg[t] = len[t]
  <2>1. Len(Append(key[t], m.val)) = Len(Mib[name])
    BY <1>3, <1>10
  <2>2. QED
    BY <2>1, <1>5, <1>10, SeqEqual
<1>13. TypeOK'
  <2>1. CASE seg[t] = len[t]
    <3>1. Ok(Append(key[t], m.val)) \in Result
      BY <1>10 DEF Ok, Result
    <3>2. ret' \in [Threads -> Result]
      BY <2>1, <3>1, <1>1 DEF TypeOK
    <3>3. pc' = [pc EXCEPT ![t] = "idle"] /\ seg' = seg
          /\ holds' = holds \cup {t}
      BY <2>1, <1>1
    <3>4. /\ pc' \in [Threads -> {"idle", "load", "translate", "store", "publish"}]
          /\ \A u \in Threads :
               pc'[u] \in {"load", "store"} => seg'[u] \in 1..KEY_SEGS
      BY <3>3 DEF TypeOK
    <3>5. QED
      BY <3>2, <3>3, <3>4, <1>2, <1>9, <1>11 DEF TypeOK
  <2>2. CASE seg[t] # len[t]
    <3>1. seg[t] + 1 \in 1..KEY_SEGS
      BY <2>2, <1>3, <1>5, KeyAssumption DEF KeyCells
    <3>2. seg' = [seg EXCEPT ![t] = seg[t] + 1] /\ UNCHANGED <<pc, ret, holds>>
      BY <2>2, <1>1
    <3>3. seg' \in [Threads -> Nat]
      BY <3>1, <3>2 DEF TypeOK
    <3>4. \A u \in Threads :
            pc'[u] \in {"load", "store"} => seg'[u] \in 1..KEY_SEGS
      BY <3>1, <3>2 DEF TypeOK
    <3>5. QED
      BY <3>2, <3>3, <3>4, <1>2, <1>9, <1>11 DEF TypeOK
  <2>3. QED
    BY <2>1, <2>2
<1>14. MessagesInv'
  BY <1>2 DEF MessagesInv, KeyCells
<1>15. view'[t][LEN] > 0 /\ \A i \in KeyCells : view'[t][i] > 0
  BY <1>3, <1>4, <1>5, <1>6, <1>8, <1>9, LocationFacts
<1>16. SeenInv(t)'
  BY <1>2, <1>4, <1>15 DEF SeenInv, KeyCells
<1>17. ThreadInv(t)'
  <2>1. CASE seg[t] = len[t]
    <3>1. pc'[t] = "idle"
      BY <2>1, <1>1 DEF TypeOK
    <3>2. QED
      BY <3>1, <1>15, <1>16 DEF ThreadInv, LoadInv, StoreInv, RetInv
  <2>2. CASE seg[t] # len[t]
    <3>1. pc'[t] = "load" /\ seg'[t] = seg[t] + 1
      BY <2>2, <1>1, <1>2 DEF TypeOK
    <3>2. seg'[t] \in KeyCells'
      BY <2>2, <3>1, <1>2, <1>3, <1>5, KeyAssumption, SMTT(30) DEF KeyCells
    <3>3. /\ Len(key'[t]) = seg'[t] - 1
          /\ \A i \in 1..Len(key'[t]) : key'[t][i] = Mib[name'][i]
      BY <3>1, <1>2, <1>6, <1>10, <1>11
    <3>4. LoadInv(t)'
      BY <3>1, <3>2, <3>3, <1>2, <1>3, <1>15 DEF LoadInv
    <3>5. QED
      BY <3>1, <3>4, <1>15, <1>16 DEF ThreadInv, StoreInv, RetInv
  <2>3. QED
    BY <2>1, <2>2
<1>18. CallInv'
  <2> SUFFICES ASSUME NEW u \in Threads PROVE ThreadInv(u)'
    BY DEF CallInv
  <2>1. CASE u = t
    BY <2>1, <1>17
  <2>2. CASE u # t
    <3>1. /\ UNCHANGED <<name, view[u], pc[u], len[u], key[u], seg[u]>>
          /\ u \in holds' => u \in holds
      BY <2>2, <1>1, <1>2, <1>9, <1>11 DEF TypeOK
    <3>2. QED
      BY <3>1, OtherThread DEF CallInv
  <2>3. QED
    BY <2>1, <2>2
<1>19. NoPartialKey'
  <2>1. CASE seg[t] = len[t]
    <3>1. ret' = [ret EXCEPT ![t] = Ok(Mib[name])]
      BY <2>1, <1>1, <1>12
    <3>2. QED
      BY <3>1, <1>2, <1>4 DEF NoPartialKey, TypeOK
  <2>2. CASE seg[t] # len[t]
    BY <2>2, <1>1, <1>2 DEF NoPartialKey
  <2>3. QED
    BY <2>1, <2>2
<1>20. QED
  BY <1>13, <1>14, <1>18, <1>19

\* The call of mibs.
LEMMA TranslateStep ==
  ASSUME IInv, NEW t \in Threads, Translate(t)
  PROVE  IInv'
<1> USE DEF IInv
<1>1. PICK r \in mibs(name) :
        IF r.tag = "ok"
        THEN /\ key' = [key EXCEPT ![t] = r.key]
             /\ pc' = [pc EXCEPT ![t] = "store"]
             /\ UNCHANGED ret
        ELSE /\ ret' = [ret EXCEPT ![t] = r]
             /\ pc' = [pc EXCEPT ![t] = "idle"]
             /\ UNCHANGED key
  BY DEF Translate
<1>2. pc[t] = "translate" /\ UNCHANGED <<mem, view, name, len, seg, calls, holds>>
  BY DEF Translate
<1>3. view[t][LEN] = 0
  BY <1>2 DEF CallInv, ThreadInv, RetInv
<1>4. seg[t] = 1
  BY <1>2 DEF CallInv, ThreadInv, RetInv
<1>5. CASE r.tag = "ok"
  <2>1. r.key = Mib[name] /\ Resolvable(name)
    BY <1>5, MibsFacts DEF TypeOK, Ok
  <2>2. key' = [key EXCEPT ![t] = Mib[name]] /\ pc' = [pc EXCEPT ![t] = "store"]
        /\ ret' = ret
    BY <1>1, <1>5, <2>1
  <2>3. Mib[name] \in Seq(Nat) /\ Len(Mib[name]) \in 1..KEY_SEGS
    BY <2>1, ResolvableFacts DEF TypeOK
  <2>4. TypeOK'
    <3>1. key' \in [Threads -> Seq(Nat)]
      BY <2>2, <2>3 DEF TypeOK
    <3>2. \A u \in Threads :
            pc'[u] \in {"load", "store"} => seg'[u] \in 1..KEY_SEGS
      BY <2>2, <2>3, <1>2, <1>4, KeyAssumption DEF TypeOK
    <3>3. QED
      BY <2>2, <3>1, <3>2, <1>2 DEF TypeOK
  <2>5. ThreadInv(t)'
    <3>1. pc'[t] = "store" /\ key'[t] = Mib[name] /\ seg'[t] = 1
      BY <2>2, <1>2, <1>4 DEF TypeOK
    <3>2. StoreInv(t)'
      BY <2>1, <2>3, <3>1, <1>2, KeyAssumption DEF StoreInv, KeyCells
    <3>3. QED
      BY <2>2, <3>1, <3>2, <1>2, <1>3
         DEF CallInv, ThreadInv, SeenInv, LoadInv, RetInv, KeyCells
  <2>6. \A u \in Threads \ {t} :
          UNCHANGED <<name, view[u], pc[u], len[u], key[u], seg[u]>>
    BY <2>2, <1>2 DEF TypeOK
  <2>7. CallInv'
    BY <2>5, <2>6, <1>2, OtherThread DEF CallInv
  <2>8. MessagesInv' /\ NoPartialKey'
    BY <2>2, <1>2 DEF MessagesInv, NoPartialKey, KeyCells
  <2>9. QED
    BY <2>4, <2>7, <2>8
<1>6. CASE r.tag # "ok"
  <2>1. r \in [tag : {"err"}, code : Errors]
    BY <1>6, MibsFacts DEF TypeOK
  <2>2. key' = key /\ pc' = [pc EXCEPT ![t] = "idle"]
        /\ ret' = [ret EXCEPT ![t] = r]
    BY <1>1, <1>6
  <2>3. TypeOK'
    <3>1. ret' \in [Threads -> Result]
      BY <2>1, <2>2 DEF TypeOK, Result
    <3>2. QED
      BY <2>2, <3>1, <1>2 DEF TypeOK
  <2>4. ThreadInv(t)'
    BY <2>2, <1>2, <1>3, <1>6
       DEF CallInv, ThreadInv, SeenInv, LoadInv, StoreInv, RetInv, KeyCells,
           TypeOK
  <2>5. \A u \in Threads \ {t} :
          UNCHANGED <<name, view[u], pc[u], len[u], key[u], seg[u]>>
    BY <2>2, <1>2 DEF TypeOK
  <2>6. CallInv'
    BY <2>4, <2>5, <1>2, OtherThread DEF CallInv
  <2>7. MessagesInv'
    BY <1>2 DEF MessagesInv, KeyCells
  <2>8. NoPartialKey'
    BY <2>2, <1>2, <1>6 DEF NoPartialKey, TypeOK
  <2>9. QED
    BY <2>3, <2>6, <2>7, <2>8
<1>7. QED
  BY <1>5, <1>6

\* One turn of the loop of Relaxed stores.
LEMMA StoreSegmentStep ==
  ASSUME IInv, NEW t \in Threads, StoreSegment(t)
  PROVE  IInv'
<1> USE DEF IInv
<1>1. /\ pc[t] = "store"
      /\ StoreRelaxed(t, seg[t], key[t][seg[t]])
      /\ IF seg[t] = Len(key[t])
         THEN pc' = [pc EXCEPT ![t] = "publish"] /\ seg' = seg
         ELSE seg' = [seg EXCEPT ![t] = seg[t] + 1] /\ pc' = pc
      /\ UNCHANGED <<name, len, key, ret, calls, holds>>
  BY DEF StoreSegment
<1>2. /\ key[t] = Mib[name] /\ Resolvable(name)
      /\ seg[t] \in KeyCells
      /\ \A i \in 1..(seg[t] - 1) : view[t][i] > 0
      /\ view[t][LEN] = 0
      /\ t \notin holds
  <2>1. /\ key[t] = Mib[name] /\ Resolvable(name)
        /\ seg[t] \in KeyCells
        /\ \A i \in 1..(seg[t] - 1) : view[t][i] > 0
        /\ view[t][LEN] = 0
    BY <1>1 DEF CallInv, ThreadInv, StoreInv, RetInv
  <2>2. t \notin holds
    BY <2>1 DEF CallInv, ThreadInv, RetInv
  <2>3. QED
    BY <2>1, <2>2
<1>3. /\ Mib[name] \in Seq(Nat)
      /\ Len(Mib[name]) \in 1..KEY_SEGS
      /\ \A i \in KeyCells : Mib[name][i] \in Nat /\ i \in Locations
  BY <1>2, ResolvableFacts DEF TypeOK, KeyCells
<1>4. seg[t] \in Locations /\ seg[t] # LEN /\ seg[t] \in Nat
  BY <1>2, <1>3, KeyAssumption DEF KeyCells, LEN
<1> DEFINE Msg(ts) == [ts |-> ts, val |-> Mib[name][seg[t]],
                       view |-> [ZeroView EXCEPT ![seg[t]] = ts]]
<1>5. PICK ts \in FreeTimes(t, seg[t]) :
        /\ mem' = [mem EXCEPT ![seg[t]] = mem[seg[t]] \cup {Msg(ts)}]
        /\ view' = [view EXCEPT ![t][seg[t]] = ts]
  BY <1>1, <1>2 DEF StoreRelaxed
<1>6. ts \in Nat /\ ts > 0
  BY <1>5, MaxTimeAssumption DEF FreeTimes
<1>7. /\ [ZeroView EXCEPT ![seg[t]] = ts] \in View
      /\ [ZeroView EXCEPT ![seg[t]] = ts][seg[t]] = ts
      /\ [ZeroView EXCEPT ![seg[t]] = ts][LEN] = 0
  BY <1>4, <1>6, LocationFacts DEF View, ZeroView
<1>8. Msg(ts) \in Message
  BY <1>2, <1>3, <1>6, <1>7 DEF Message
<1>9. /\ view' \in [Threads -> View]
      /\ \A u \in Threads \ {t} : view'[u] = view[u]
      /\ \A l \in Locations : l # seg[t] => view'[t][l] = view[t][l]
      /\ view'[t][seg[t]] = ts
  BY <1>4, <1>5, <1>6 DEF TypeOK, View
<1>10. mem' \in [Locations -> SUBSET Message]
  BY <1>4, <1>5, <1>8 DEF TypeOK
<1>11. TypeOK'
  <2>1. CASE seg[t] = Len(key[t])
    BY <2>1, <1>1, <1>9, <1>10 DEF TypeOK
  <2>2. CASE seg[t] # Len(key[t])
    <3>1. seg[t] + 1 \in 1..KEY_SEGS
      BY <2>2, <1>2, <1>3, KeyAssumption DEF KeyCells
    <3>2. seg' = [seg EXCEPT ![t] = seg[t] + 1] /\ pc' = pc
      BY <2>2, <1>1
    <3>3. seg' \in [Threads -> Nat]
      BY <3>1, <3>2 DEF TypeOK
    <3>4. \A u \in Threads :
            pc'[u] \in {"load", "store"} => seg'[u] \in 1..KEY_SEGS
      BY <3>1, <3>2 DEF TypeOK
    <3>5. QED
      BY <3>2, <3>3, <3>4, <1>1, <1>9, <1>10 DEF TypeOK
  <2>3. QED
    BY <2>1, <2>2
<1>12. MessagesInv'
  <2> SUFFICES ASSUME NEW l \in Locations, NEW m \in mem'[l]
               PROVE  MessagesInv!(l)!(m)'
    BY DEF MessagesInv
  <2>1. CASE m \in mem[l]
    BY <2>1, <1>1 DEF MessagesInv, KeyCells
  <2>2. CASE m \notin mem[l]
    <3>1. l = seg[t] /\ m = Msg(ts)
      BY <2>2, <1>4, <1>5 DEF TypeOK
    <3>2. /\ m.ts = ts /\ m.val = Mib[name][l]
          /\ m.view[l] = ts /\ m.view[LEN] = 0
      BY <3>1, <1>7
    <3>3. QED
      BY <3>1, <3>2, <1>1, <1>2, <1>4, <1>6 DEF KeyCells
  <2>3. QED
    BY <2>1, <2>2
<1>13. view'[t][LEN] = 0 /\ \A i \in 1..seg[t] : view'[t][i] > 0
  <2>1. view'[t][LEN] = 0
    BY <1>2, <1>4, <1>9, LocationFacts
  <2>2. ASSUME NEW i \in 1..seg[t]
        PROVE  view'[t][i] > 0
    <3>1. CASE i = seg[t]
      BY <3>1, <1>6, <1>9
    <3>2. CASE i # seg[t]
      <4>1. i \in 1..(seg[t] - 1) /\ i \in Locations
        BY <3>2, <1>2, <1>3, <1>4 DEF KeyCells
      <4>2. QED
        BY <3>2, <4>1, <1>2, <1>9
    <3>3. QED
      BY <3>1, <3>2
  <2>3. QED
    BY <2>1, <2>2
<1>14. ThreadInv(t)'
  <2>1. CASE seg[t] = Len(key[t])
    <3>1. pc'[t] = "publish" /\ key'[t] = key[t]
      BY <2>1, <1>1 DEF TypeOK
    <3>2. StoreInv(t)'
      BY <2>1, <3>1, <1>1, <1>2, <1>13 DEF StoreInv, KeyCells
    <3>3. QED
      BY <3>1, <3>2, <1>1, <1>2, <1>13 DEF ThreadInv, SeenInv, LoadInv, RetInv
  <2>2. CASE seg[t] # Len(key[t])
    <3>1. /\ pc'[t] = "store" /\ key'[t] = key[t]
          /\ seg'[t] = seg[t] + 1
      BY <2>2, <1>1 DEF TypeOK
    <3>2. seg'[t] \in KeyCells' /\ seg'[t] - 1 = seg[t]
      BY <2>2, <3>1, <1>1, <1>2, <1>3, KeyAssumption DEF KeyCells
    <3>3. StoreInv(t)'
      BY <3>1, <3>2, <1>1, <1>2, <1>13 DEF StoreInv
    <3>4. QED
      BY <3>1, <3>3, <1>1, <1>2, <1>13 DEF ThreadInv, SeenInv, LoadInv, RetInv
  <2>3. QED
    BY <2>1, <2>2
<1>15. \A u \in Threads \ {t} :
         UNCHANGED <<name, view[u], pc[u], len[u], key[u], seg[u]>>
  BY <1>1, <1>9 DEF TypeOK
<1>16. CallInv'
  BY <1>1, <1>14, <1>15, OtherThread DEF CallInv
<1>17. NoPartialKey'
  BY <1>1 DEF NoPartialKey
<1>18. QED
  BY <1>11, <1>12, <1>16, <1>17

\* The Release store of len.
LEMMA PublishStep ==
  ASSUME IInv, NEW t \in Threads, Publish(t)
  PROVE  IInv'
<1> USE DEF IInv
<1>1. /\ pc[t] = "publish"
      /\ StoreRelease(t, LEN, Len(key[t]))
      /\ pc' = [pc EXCEPT ![t] = "idle"]
      /\ ret' = [ret EXCEPT ![t] = Ok(key[t])]
      /\ holds' = holds \cup {t}
      /\ UNCHANGED <<name, len, key, seg, calls>>
  BY DEF Publish
<1>2. /\ key[t] = Mib[name] /\ Resolvable(name)
      /\ \A i \in KeyCells : view[t][i] > 0
  BY <1>1 DEF CallInv, ThreadInv, StoreInv
<1>3. /\ Mib[name] \in Seq(Nat)
      /\ Len(Mib[name]) \in 1..KEY_SEGS
      /\ \A i \in KeyCells : i \in Locations /\ i # LEN
  BY <1>2, ResolvableFacts, KeyAssumption DEF TypeOK, KeyCells, LEN
<1> DEFINE Msg(ts) == [ts |-> ts, val |-> Len(Mib[name]),
                       view |-> [view[t] EXCEPT ![LEN] = ts]]
<1>4. PICK ts \in FreeTimes(t, LEN) :
        /\ mem' = [mem EXCEPT ![LEN] = mem[LEN] \cup {Msg(ts)}]
        /\ view' = [view EXCEPT ![t][LEN] = ts]
  BY <1>1, <1>2 DEF StoreRelease
<1>5. ts \in Nat /\ ts > 0
  BY <1>4, MaxTimeAssumption DEF FreeTimes
<1>6. /\ [view[t] EXCEPT ![LEN] = ts] \in View
      /\ [view[t] EXCEPT ![LEN] = ts][LEN] = ts
      /\ \A i \in KeyCells : [view[t] EXCEPT ![LEN] = ts][i] > 0
  BY <1>2, <1>3, <1>5, LocationFacts DEF View, TypeOK
<1>7. Msg(ts) \in Message
  BY <1>3, <1>5, <1>6 DEF Message
<1>8. /\ view' \in [Threads -> View]
      /\ \A u \in Threads \ {t} : view'[u] = view[u]
      /\ view'[t] = [view[t] EXCEPT ![LEN] = ts]
  BY <1>4, <1>6 DEF TypeOK
<1>9. mem' \in [Locations -> SUBSET Message]
  BY <1>4, <1>7 DEF TypeOK
<1>10. TypeOK'
  <2>1. Ok(key[t]) \in Result
    BY <1>2, <1>3 DEF Ok, Result
  <2>2. ret' \in [Threads -> Result]
    BY <2>1, <1>1 DEF TypeOK
  <2>3. QED
    BY <2>2, <1>1, <1>8, <1>9 DEF TypeOK
<1>11. MessagesInv'
  <2> SUFFICES ASSUME NEW l \in Locations, NEW m \in mem'[l]
               PROVE  MessagesInv!(l)!(m)'
    BY DEF MessagesInv
  <2>1. CASE m \in mem[l]
    BY <2>1, <1>1 DEF MessagesInv, KeyCells
  <2>2. CASE m \notin mem[l]
    <3>1. l = LEN /\ m = Msg(ts)
      BY <2>2, <1>4, LocationFacts DEF TypeOK
    <3>2. /\ m.ts = ts /\ m.val = Len(Mib[name]) /\ m.view[l] = ts
          /\ \A i \in KeyCells : m.view[i] > 0
      BY <3>1, <1>6
    <3>3. QED
      BY <3>1, <3>2, <1>1, <1>2, <1>5 DEF KeyCells
  <2>3. QED
    BY <2>1, <2>2
<1>12. ThreadInv(t)'
  <2>1. pc'[t] = "idle"
    BY <1>1 DEF TypeOK
  <2>2. view'[t][LEN] > 0 /\ \A i \in KeyCells : view'[t][i] > 0
    BY <1>5, <1>6, <1>8
  <2>3. QED
    BY <2>1, <2>2, <1>1, <1>2
       DEF ThreadInv, SeenInv, LoadInv, StoreInv, RetInv, KeyCells
<1>13. \A u \in Threads \ {t} :
         UNCHANGED <<name, view[u], pc[u], len[u], key[u], seg[u]>>
  BY <1>1, <1>8 DEF TypeOK
<1>14. CallInv'
  BY <1>1, <1>12, <1>13, OtherThread DEF CallInv
<1>15. NoPartialKey'
  <2>1. ret' = [ret EXCEPT ![t] = Ok(Mib[name])]
    BY <1>1, <1>2
  <2>2. QED
    BY <2>1, <1>1, <1>2 DEF NoPartialKey, TypeOK
<1>16. QED
  BY <1>10, <1>11, <1>14, <1>15

\* A value moved between threads.
LEMMA HandOverStep ==
  ASSUME IInv, NEW t \in Threads, NEW u \in Threads, HandOver(t, u)
  PROVE  IInv'
<1> USE DEF IInv
<1>1. /\ pc[u] = "idle"
      /\ view' = [view EXCEPT ![u] = Join(view[u], view[t])]
      /\ holds' = IF t \in holds THEN holds \cup {u} ELSE holds
      /\ UNCHANGED <<mem, name, pc, len, key, seg, ret, calls>>
  BY DEF HandOver, HandOverView
<1> DEFINE both == Join(view[u], view[t])
<1>2. view[u] \in View /\ view[t] \in View
  BY DEF TypeOK
<1>3. /\ both \in View
      /\ \A l \in Locations : /\ view[u][l] \in Nat /\ view[t][l] \in Nat
                              /\ both[l] \in Nat
                              /\ both[l] >= view[u][l] /\ both[l] >= view[t][l]
      /\ \A l \in Locations : view[u][l] = 0 /\ view[t][l] = 0 => both[l] = 0
  <2>1. both \in View
    BY <1>2, JoinFacts
  <2>2. QED
    BY <1>2, <2>1, JoinFacts DEF View
<1> HIDE DEF both
<1>4. /\ view' \in [Threads -> View] /\ view'[u] = both
      /\ \A v \in Threads \ {u} : view'[v] = view[v]
  BY <1>1, <1>3 DEF TypeOK, both
<1>5. TypeOK'
  BY <1>1, <1>4 DEF TypeOK
<1>6. MessagesInv' /\ NoPartialKey'
  BY <1>1 DEF MessagesInv, NoPartialKey, KeyCells
<1>7. ThreadInv(u)'
  <2>1. ASSUME both[LEN] > 0
        PROVE  Resolvable(name) /\ \A i \in KeyCells : both[i] > 0
    <3>1. PICK v \in {t, u} : view[v][LEN] > 0
      BY <2>1, <1>3, LocationFacts
    <3>2. Resolvable(name) /\ \A i \in KeyCells : view[v][i] > 0
      BY <3>1 DEF CallInv, ThreadInv, SeenInv
    <3>3. \A i \in KeyCells : i \in Locations
      BY <3>2, ResolvableFacts DEF KeyCells, TypeOK
    <3>4. QED
      BY <3>2, <3>3, <1>3
  <2>2. SeenInv(u)'
    BY <2>1, <1>1, <1>4 DEF SeenInv, KeyCells
  <2>3. u \in holds' => both[LEN] > 0
    <3>1. u \in holds' => u \in holds \/ t \in holds
      BY <1>1
    <3>2. QED
      BY <3>1, <1>3, LocationFacts DEF CallInv, ThreadInv, RetInv
  <2>4. QED
    BY <2>2, <2>3, <1>1, <1>4 DEF ThreadInv, LoadInv, StoreInv, RetInv
<1>8. \A v \in Threads \ {u} :
        /\ UNCHANGED <<name, view[v], pc[v], len[v], key[v], seg[v]>>
        /\ v \in holds' => v \in holds
  BY <1>1, <1>4
<1>9. CallInv'
  BY <1>7, <1>8, OtherThread DEF CallInv
<1>10. QED
  BY <1>5, <1>6, <1>9

\* Every step of every thread preserves the invariant.
LEMMA NextIInv == IInv /\ [Next]_vars => IInv'
<1> SUFFICES ASSUME IInv, [Next]_vars PROVE IInv'
  OBVIOUS
<1>1. ASSUME NEW t \in Threads, BeginGet(t) PROVE IInv'
  BY <1>1, BeginGetStep
<1>2. ASSUME NEW t \in Threads, LoadSegment(t) PROVE IInv'
  BY <1>2, LoadSegmentStep
<1>3. ASSUME NEW t \in Threads, Translate(t) PROVE IInv'
  BY <1>3, TranslateStep
<1>4. ASSUME NEW t \in Threads, StoreSegment(t) PROVE IInv'
  BY <1>4, StoreSegmentStep
<1>5. ASSUME NEW t \in Threads, Publish(t) PROVE IInv'
  BY <1>5, PublishStep
<1>6. ASSUME NEW t \in Threads, NEW u \in Threads, HandOver(t, u) PROVE IInv'
  BY <1>6, HandOverStep
<1>7. CASE UNCHANGED vars
  BY <1>7 DEF vars, IInv, TypeOK, MessagesInv, CallInv, ThreadInv, SeenInv,
       LoadInv, StoreInv, RetInv, NoPartialKey, KeyCells
<1>8. QED
  BY <1>1, <1>2, <1>3, <1>4, <1>5, <1>6, <1>7 DEF Next, Step

\* Everything the invariant says holds in every state of every behaviour of
\* the cache: for any number of threads, in any interleaving of their
\* relaxed, acquire and release accesses.
THEOREM Invariance == Spec => []IInv
BY InitIInv, NextIInv, PTL DEF Spec

\* The variables of Cache::get and of the memory keep their types.
THEOREM TypeCorrect == Spec => []TypeOK
<1>1. IInv => TypeOK
  BY DEF IInv
<1>2. QED
  BY <1>1, Invariance, PTL

\* The claim of cache.rs:9-10, for every name table and thread count: a call
\* of Cache::get that returns a key returns all of it.
THEOREM KeysAreComplete == Spec => []NoPartialKey
<1>1. IInv => NoPartialKey
  BY DEF IInv
<1>2. QED
  BY <1>1, Invariance, PTL

\* A step of a thread, as the service sees it: the Acquire load accepts the
\* call, a last load or the Release store answers it, a failed translation
\* refuses it, and every other access is invisible.
LEMMA StepRefines ==
  ASSUME IInv, [Next]_vars
  PROVE  [Service!Next]_(Service!serviceVars)
<1> USE DEF IInv
<1>1. ASSUME NEW t \in Threads, BeginGet(t)
      PROVE  Service!Call(t)
  <2>1. pc[t] = "idle" /\ UNCHANGED <<name, ret, holds>>
    BY <1>1 DEF BeginGet
  <2>2. PICK p \in {"load", "translate"} : pc' = [pc EXCEPT ![t] = p]
    BY <1>1 DEF BeginGet
  <2>3. busy' = busy \cup {t} /\ t \notin busy
    BY <2>1, <2>2 DEF busy, TypeOK
  <2>4. QED
    BY <2>1, <2>3 DEF Service!Call
<1>2. ASSUME NEW t \in Threads, LoadSegment(t)
      PROVE  Service!Answer(t) \/ UNCHANGED <<name, busy, ret, holds>>
  <2>1. pc[t] = "load" /\ UNCHANGED name
    BY <1>2 DEF LoadSegment
  <2>2. CASE seg[t] = len[t]
    <3>1. PICK k : ret' = [ret EXCEPT ![t] = Ok(k)]
      BY <1>2, <2>2 DEF LoadSegment
    <3>2. ret'[t] = Ok(k) /\ ret'[t].tag = "ok"
      BY <3>1 DEF TypeOK, Ok
    <3>3. ret'[t] = Ok(Mib[name])
      BY <3>2, <2>1, <1>2, LoadSegmentStep DEF NoPartialKey
    <3>4. ret' = [ret EXCEPT ![t] = Ok(Mib[name])]
      BY <3>1, <3>2, <3>3
    <3>5. pc' = [pc EXCEPT ![t] = "idle"] /\ holds' = holds \cup {t}
      BY <1>2, <2>2 DEF LoadSegment
    <3>6. t \in busy /\ busy' = busy \ {t}
      BY <2>1, <3>5 DEF busy, TypeOK
    <3>7. QED
      BY <2>1, <3>4, <3>5, <3>6 DEF Service!Answer, Service!Ok, Ok
  <2>3. CASE seg[t] # len[t]
    BY <1>2, <2>1, <2>3 DEF LoadSegment, busy
  <2>4. QED
    BY <2>2, <2>3
<1>3. ASSUME NEW t \in Threads, Translate(t)
      PROVE  Service!Refuse(t) \/ UNCHANGED <<name, busy, ret, holds>>
  <2>1. pc[t] = "translate" /\ UNCHANGED <<name, holds>>
    BY <1>3 DEF Translate
  <2>2. PICK r \in mibs(name) :
          IF r.tag = "ok"
          THEN pc' = [pc EXCEPT ![t] = "store"] /\ UNCHANGED ret
          ELSE ret' = [ret EXCEPT ![t] = r] /\ pc' = [pc EXCEPT ![t] = "idle"]
    BY <1>3 DEF Translate
  <2>3. CASE r.tag = "ok"
    BY <2>1, <2>2, <2>3 DEF busy, TypeOK
  <2>4. CASE r.tag # "ok"
    <3>1. r \in [tag : {"err"}, code : Errors]
      BY <2>4, MibsFacts DEF TypeOK
    <3>2. PICK e \in Errors : r = Err(e)
      BY <3>1 DEF Err
    <3>3. t \notin holds
      BY <2>1 DEF CallInv, ThreadInv, RetInv
    <3>4. t \in busy /\ busy' = busy \ {t}
      BY <2>1, <2>2, <2>4 DEF busy, TypeOK
    <3>5. QED
      BY <2>1, <2>2, <2>4, <3>2, <3>3, <3>4 DEF Service!Refuse, Service!Err, Err
  <2>5. QED
    BY <2>3, <2>4
<1>4. ASSUME NEW t \in Threads, StoreSegment(t)
      PROVE  UNCHANGED <<name, busy, ret, holds>>
  <2>1. UNCHANGED <<name, ret, holds>>
    BY <1>4 DEF StoreSegment
  <2>2. pc[t] = "store" /\ (pc' = pc \/ pc' = [pc EXCEPT ![t] = "publish"])
    BY <1>4 DEF StoreSegment
  <2>3. QED
    BY <2>1, <2>2 DEF busy, TypeOK
<1>5. ASSUME NEW t \in Threads, Publish(t)
      PROVE  Service!Answer(t)
  <2>1. /\ pc[t] = "publish" /\ pc' = [pc EXCEPT ![t] = "idle"]
        /\ ret' = [ret EXCEPT ![t] = Ok(key[t])] /\ UNCHANGED name
        /\ holds' = holds \cup {t}
    BY <1>5 DEF Publish
  <2>2. key[t] = Mib[name]
    BY <2>1 DEF CallInv, ThreadInv, StoreInv
  <2>3. t \in busy /\ busy' = busy \ {t}
    BY <2>1 DEF busy, TypeOK
  <2>4. QED
    BY <2>1, <2>2, <2>3 DEF Service!Answer, Service!Ok, Ok
<1>6. ASSUME NEW t \in Threads, NEW u \in Threads, HandOver(t, u)
      PROVE  Service!HandOver(t, u) \/ UNCHANGED <<name, busy, ret, holds>>
  <2>1. /\ t \notin busy /\ u \notin busy
        /\ UNCHANGED <<name, busy, ret>>
        /\ holds' = IF t \in holds THEN holds \cup {u} ELSE holds
    BY <1>6 DEF HandOver, busy
  <2>2. QED
    BY <2>1 DEF Service!HandOver
<1>7. CASE UNCHANGED vars
  BY <1>7 DEF vars, Service!serviceVars, busy
<1>8. QED
  BY <1>1, <1>2, <1>3, <1>4, <1>5, <1>6, <1>7
     DEF Next, Step, Service!Next, Service!serviceVars

\* The cache is a correct implementation of the lookup service: its callers
\* need not know that it exists.
THEOREM CacheImplementsService == Spec => ImplementsKeyService
<1>1. Init => Service!Init
  BY DEF Init, Service!Init, busy, None, Service!None
<1>2. QED
  BY <1>1, StepRefines, Invariance, PTL DEF Spec, ImplementsKeyService, Service!Spec

-----------------------------------------------------------------------------
(* No caller blocks *)

\* Every entry of the view v is the timestamp of a message.
StoredIn(memory, v) == \A l \in Locations : \E m \in memory[l] : m.ts = v[l]

\* No view is ahead of the memory: what a thread may still read, or will be
\* told by an Acquire load, has been stored, the initial zeros too.
ViewsAreStored ==
  /\ StoredIn(mem, ZeroView)
  /\ \A t \in Threads : StoredIn(mem, view[t])
  /\ \A l \in Locations : \A m \in mem[l] : StoredIn(mem, m.view)

LEMMA JoinStored ==
  ASSUME NEW memory, NEW v \in View, NEW w \in View,
         StoredIn(memory, v), StoredIn(memory, w)
  PROVE  StoredIn(memory, Join(v, w))
BY DEF StoredIn, Join, View

\* A view with one entry moved to another message of that location.
LEMMA MovedStored ==
  ASSUME NEW memory, NEW v \in View, StoredIn(memory, v),
         NEW l \in Locations, NEW m \in memory[l]
  PROVE  StoredIn(memory, [v EXCEPT ![l] = m.ts])
BY DEF StoredIn, View

\* A message once stored stays.
LEMMA StoredStays ==
  ASSUME NEW memory, NEW later, NEW v, StoredIn(memory, v),
         \A l \in Locations : memory[l] \subseteq later[l]
  PROVE  StoredIn(later, v)
BY DEF StoredIn

\* A step of t that stores nothing and leaves t with a stored view.
LEMMA ReadingKeepsStored ==
  ASSUME TypeOK, ViewsAreStored, NEW t \in Threads, NEW v, StoredIn(mem, v),
         view' = [view EXCEPT ![t] = v], UNCHANGED mem
  PROVE  ViewsAreStored'
<1>1. \A u \in Threads : view'[u] = v \/ view'[u] = view[u]
  BY DEF TypeOK
<1>2. \A u \in Threads : StoredIn(mem, view'[u])
  BY <1>1 DEF ViewsAreStored
<1>3. QED
  BY <1>2 DEF ViewsAreStored

\* A store of t, the new message of which has a view that was stored before,
\* but for the message itself.
LEMMA WritingKeepsStored ==
  ASSUME TypeOK, ViewsAreStored, NEW t \in Threads, NEW l \in Locations,
         NEW ts \in Nat, NEW val, NEW v \in View, StoredIn(mem, v),
         mem' = [mem EXCEPT ![l] = mem[l] \cup
                   {[ts |-> ts, val |-> val, view |-> [v EXCEPT ![l] = ts]]}],
         view' = [view EXCEPT ![t][l] = ts]
  PROVE  ViewsAreStored'
<1>1. PICK n : n = [ts |-> ts, val |-> val, view |-> [v EXCEPT ![l] = ts]]
  OBVIOUS
<1>2. PICK later : later = mem'
  OBVIOUS
<1>3. /\ \A k \in Locations : mem[k] \subseteq later[k]
      /\ \A k \in Locations : \A m \in later[k] : m \in mem[k] \/ m = n
      /\ n \in later[l] /\ n.ts = ts /\ n.view = [v EXCEPT ![l] = n.ts]
  BY <1>1, <1>2 DEF TypeOK
<1>4. \A w : StoredIn(mem, w) => StoredIn(later, w)
  BY <1>3, StoredStays
<1>5. StoredIn(later, n.view)
  BY <1>3, <1>4, MovedStored
<1>6. StoredIn(later, [view[t] EXCEPT ![l] = n.ts])
  BY <1>3, <1>4, MovedStored DEF ViewsAreStored, TypeOK
<1>7. \A u \in Threads : view'[u] = [view[t] EXCEPT ![l] = n.ts] \/ view'[u] = view[u]
  BY <1>3 DEF TypeOK
<1>8. \A u \in Threads : StoredIn(later, view'[u])
  BY <1>4, <1>6, <1>7 DEF ViewsAreStored
<1>9. \A k \in Locations : \A m \in later[k] : StoredIn(later, m.view)
  BY <1>3, <1>4, <1>5 DEF ViewsAreStored
<1>10. StoredIn(later, ZeroView)
  BY <1>4 DEF ViewsAreStored
<1>11. QED
  BY <1>2, <1>8, <1>9, <1>10 DEF ViewsAreStored

LEMMA InitStored == Init => ViewsAreStored
<1> SUFFICES ASSUME Init PROVE ViewsAreStored
  OBVIOUS
<1>1. \A l \in Locations : mem[l] = {[ts |-> 0, val |-> 0, view |-> ZeroView]}
  BY DEF Init, MemoryInit
<1>2. \A l \in Locations : ZeroView[l] = 0
  BY DEF ZeroView
<1>3. StoredIn(mem, ZeroView)
  <2>1. PICK m : m = [ts |-> 0, val |-> 0, view |-> ZeroView]
    OBVIOUS
  <2>2. m.ts = 0 /\ \A l \in Locations : m \in mem[l]
    BY <1>1, <2>1
  <2>3. QED
    BY <1>2, <2>2 DEF StoredIn
<1>4. \A t \in Threads : view[t] = ZeroView
  BY DEF Init, MemoryInit
<1>5. \A l \in Locations : \A m \in mem[l] : m.view = ZeroView
  BY <1>1
<1>6. QED
  BY <1>3, <1>4, <1>5 DEF ViewsAreStored

LEMMA NextStored == IInv /\ ViewsAreStored /\ [Next]_vars => ViewsAreStored'
<1> SUFFICES ASSUME IInv, ViewsAreStored, [Next]_vars PROVE ViewsAreStored'
  OBVIOUS
<1> USE DEF IInv
<1>0. ZeroView \in View
  BY DEF ZeroView, View
<1>1. ASSUME NEW t \in Threads, BeginGet(t) PROVE ViewsAreStored'
  <2>1. PICK m \in mem[LEN] :
          view' = [view EXCEPT ![t] = Join(view[t], m.view)] /\ UNCHANGED mem
    BY <1>1 DEF BeginGet, LoadAcquire, Readable
  <2>2. m.view \in View /\ view[t] \in View
    BY <2>1, MessageFacts, LocationFacts DEF TypeOK
  <2>3. StoredIn(mem, Join(view[t], m.view))
    BY <2>2, JoinStored, LocationFacts DEF ViewsAreStored
  <2>4. QED
    BY <2>1, <2>3, ReadingKeepsStored
<1>2. ASSUME NEW t \in Threads, LoadSegment(t) PROVE ViewsAreStored'
  <2>1. PICK m \in mem[seg[t]] : view' = [view EXCEPT ![t][seg[t]] = m.ts]
    BY <1>2 DEF LoadSegment, LoadRelaxed, Readable
  <2>2. pc[t] = "load" /\ UNCHANGED mem
    BY <1>2 DEF LoadSegment
  <2>3. seg[t] \in Locations
    BY <2>2, LocationFacts DEF TypeOK
  <2>4. StoredIn(mem, [view[t] EXCEPT ![seg[t]] = m.ts])
    BY <2>3, MovedStored DEF ViewsAreStored, TypeOK
  <2>5. view' = [view EXCEPT ![t] = [view[t] EXCEPT ![seg[t]] = m.ts]]
    BY <2>1
  <2>6. QED
    BY <2>2, <2>4, <2>5, ReadingKeepsStored
<1>3. ASSUME NEW t \in Threads, Translate(t) PROVE ViewsAreStored'
  BY <1>3 DEF Translate, ViewsAreStored
<1>4. ASSUME NEW t \in Threads, StoreSegment(t) PROVE ViewsAreStored'
  <2>1. pc[t] = "store" /\ StoreRelaxed(t, seg[t], key[t][seg[t]])
    BY <1>4 DEF StoreSegment
  <2>2. PICK ts \in FreeTimes(t, seg[t]) :
          /\ mem' = [mem EXCEPT ![seg[t]] = mem[seg[t]] \cup
                       {[ts |-> ts, val |-> key[t][seg[t]],
                         view |-> [ZeroView EXCEPT ![seg[t]] = ts]]}]
          /\ view' = [view EXCEPT ![t][seg[t]] = ts]
    BY <2>1 DEF StoreRelaxed
  <2>3. seg[t] \in Locations /\ ts \in Nat
    BY <2>1, <2>2, LocationFacts, MaxTimeAssumption DEF TypeOK, FreeTimes
  <2>4. QED
    BY <1>0, <2>2, <2>3, WritingKeepsStored DEF ViewsAreStored
<1>5. ASSUME NEW t \in Threads, Publish(t) PROVE ViewsAreStored'
  <2>1. PICK ts \in FreeTimes(t, LEN) :
          /\ mem' = [mem EXCEPT ![LEN] = mem[LEN] \cup
                       {[ts |-> ts, val |-> Len(key[t]),
                         view |-> [view[t] EXCEPT ![LEN] = ts]]}]
          /\ view' = [view EXCEPT ![t][LEN] = ts]
    BY <1>5 DEF Publish, StoreRelease
  <2>2. ts \in Nat /\ view[t] \in View /\ StoredIn(mem, view[t])
    BY <2>1, MaxTimeAssumption DEF TypeOK, FreeTimes, ViewsAreStored
  <2>3. QED
    BY <2>1, <2>2, LocationFacts, WritingKeepsStored
<1>6. ASSUME NEW t \in Threads, NEW u \in Threads, HandOver(t, u)
      PROVE  ViewsAreStored'
  <2>1. view' = [view EXCEPT ![u] = Join(view[u], view[t])] /\ UNCHANGED mem
    BY <1>6 DEF HandOver, HandOverView
  <2>2. StoredIn(mem, Join(view[u], view[t]))
    BY JoinStored DEF ViewsAreStored, TypeOK
  <2>3. QED
    BY <2>1, <2>2, ReadingKeepsStored
<1>7. CASE UNCHANGED vars
  BY <1>7 DEF vars, ViewsAreStored
<1>8. QED
  BY <1>1, <1>2, <1>3, <1>4, <1>5, <1>6, <1>7 DEF Next, Step

\* A call finds what it asks for, wherever the others are: there is a message
\* that a load may read, and raw::mibs has an answer.
NotStuck(t) ==
  /\ pc[t] = "idle" => Readable(t, LEN) # {}
  /\ pc[t] = "load" => Readable(t, seg[t]) # {}
  /\ pc[t] = "translate" => mibs(name) # {}

\* No load of Cache::get waits for another thread's store, not even after a
\* thread has stopped in the middle of publishing: for every interleaving.
THEOREM CallsAreNotStuck == Spec => [](\A t \in Threads : NotStuck(t))
<1>1. IInv /\ ViewsAreStored => \A t \in Threads : NotStuck(t)
  <2> SUFFICES ASSUME IInv, ViewsAreStored, NEW t \in Threads PROVE NotStuck(t)
    OBVIOUS
  <2> USE DEF IInv
  <2>1. ASSUME NEW l \in Locations PROVE Readable(t, l) # {}
    <3>1. PICK m \in mem[l] : m.ts = view[t][l]
      BY DEF ViewsAreStored, StoredIn
    <3>2. view[t][l] \in Nat
      BY DEF TypeOK, View
    <3>3. QED
      BY <3>1, <3>2 DEF Readable
  <2>2. pc[t] = "load" => seg[t] \in Locations
    BY LocationFacts DEF TypeOK
  <2>3. mibs(name) # {}
    <3>1. CASE ~ NameAccepted(name)
      BY <3>1 DEF mibs
    <3>2. CASE NameAccepted(name)
      <4>1. PICK s \in Status[name] : TRUE
        BY KeyAssumption DEF TypeOK
      <4>2. PICK r : r = IF s # 0 THEN Err(s)
                         ELSE IF LengthAccepted(name) THEN Ok(Mib[name]) ELSE Err(EINVAL)
        OBVIOUS
      <4>3. r \in mibs(name)
        BY <3>2, <4>1, <4>2 DEF mibs
      <4>4. QED
        BY <4>3
    <3>3. QED
      BY <3>1, <3>2
  <2>4. QED
    BY <2>1, <2>2, <2>3, LocationFacts DEF NotStuck
<1>2. QED
  BY <1>1, Invariance, InitStored, NextStored, PTL DEF Spec

\* The steps that the call of t has left, at most: an access each of the
\* segments that remain and of len, and the translation.
StepsLeft(t) ==
  CASE pc[t] = "load" -> len[t] - seg[t] + 1
    [] pc[t] = "translate" -> KEY_SEGS + 2
    [] pc[t] = "store" -> Len(key[t]) - seg[t] + 2
    [] pc[t] = "publish" -> 1
    [] OTHER -> 0

\* StepsLeft counts steps, and is zero between calls alone.
LEMMA StepsLeftFacts ==
  ASSUME IInv, NEW t \in Threads
  PROVE  /\ StepsLeft(t) \in 0..(KEY_SEGS + 2)
         /\ StepsLeft(t) = 0 <=> pc[t] = "idle"
<1> USE DEF IInv
<1>1. CASE pc[t] = "load"
  <2>1. len[t] \in 0..KEY_SEGS /\ seg[t] \in 1..len[t]
    BY <1>1 DEF TypeOK, CallInv, ThreadInv, LoadInv, KeyCells
  <2>2. QED
    BY <1>1, <2>1, KeyAssumption DEF StepsLeft
<1>2. CASE pc[t] = "store"
  <2>1. Len(key[t]) \in 1..KEY_SEGS /\ seg[t] \in 1..Len(key[t])
    BY <1>2, ResolvableFacts DEF TypeOK, CallInv, ThreadInv, StoreInv, KeyCells
  <2>2. QED
    BY <1>2, <2>1, KeyAssumption DEF StepsLeft
<1>3. CASE pc[t] \in {"idle", "translate", "publish"}
  BY <1>3, KeyAssumption DEF StepsLeft
<1>4. QED
  BY <1>1, <1>2, <1>3 DEF TypeOK

\* A step of the call of t is one of those it had left.
LEMMA StepCounts ==
  ASSUME IInv, NEW t \in Threads, Step(t)
  PROVE  StepsLeft(t)' < StepsLeft(t)
<1> USE DEF IInv
<1>1. CASE LoadSegment(t)
  <2>1. pc[t] = "load" /\ len[t] \in 0..KEY_SEGS /\ seg[t] \in 1..len[t] /\ len' = len
    BY <1>1 DEF LoadSegment, TypeOK, CallInv, ThreadInv, LoadInv, KeyCells
  <2>2. pc'[t] = "idle" \/ (pc'[t] = "load" /\ seg'[t] = seg[t] + 1)
    BY <1>1, <2>1 DEF LoadSegment, TypeOK
  <2>3. QED
    BY <2>1, <2>2, KeyAssumption DEF StepsLeft
<1>2. CASE Translate(t)
  <2>1. pc[t] = "translate" /\ UNCHANGED <<name, seg>> /\ seg[t] = 1
    BY <1>2 DEF Translate, CallInv, ThreadInv, RetInv
  <2>2. PICK r \in mibs(name) :
          IF r.tag = "ok" THEN /\ key' = [key EXCEPT ![t] = r.key]
                               /\ pc' = [pc EXCEPT ![t] = "store"]
          ELSE pc' = [pc EXCEPT ![t] = "idle"]
    BY <1>2 DEF Translate
  <2>3. CASE r.tag = "ok"
    <3>1. r = Ok(Mib[name]) /\ Len(Mib[name]) \in 1..KEY_SEGS
      BY <2>3, MibsFacts, ResolvableFacts DEF TypeOK
    <3>2. pc'[t] = "store" /\ Len(key'[t]) \in 1..KEY_SEGS /\ seg'[t] = 1
      BY <2>1, <2>2, <2>3, <3>1 DEF TypeOK, Ok
    <3>3. QED
      BY <2>1, <3>2, KeyAssumption DEF StepsLeft
  <2>4. CASE r.tag # "ok"
    <3>1. pc'[t] = "idle"
      BY <2>2, <2>4 DEF TypeOK
    <3>2. QED
      BY <2>1, <3>1, KeyAssumption DEF StepsLeft
  <2>5. QED
    BY <2>3, <2>4
<1>3. CASE StoreSegment(t)
  <2>1. /\ pc[t] = "store" /\ key' = key
        /\ Len(key[t]) \in 1..KEY_SEGS /\ seg[t] \in 1..Len(key[t])
    BY <1>3, ResolvableFacts
       DEF StoreSegment, TypeOK, CallInv, ThreadInv, StoreInv, KeyCells
  <2>2. pc'[t] = "publish" \/ (pc'[t] = "store" /\ seg'[t] = seg[t] + 1)
    BY <1>3, <2>1 DEF StoreSegment, TypeOK
  <2>3. QED
    BY <2>1, <2>2, KeyAssumption DEF StepsLeft
<1>4. CASE Publish(t)
  <2>1. pc[t] = "publish" /\ pc'[t] = "idle"
    BY <1>4 DEF Publish, TypeOK
  <2>2. QED
    BY <2>1 DEF StepsLeft
<1>5. QED
  BY <1>1, <1>2, <1>3, <1>4 DEF Step

\* The steps of the other threads leave the call of t as it is.
LEMMA OthersDoNotCount ==
  ASSUME IInv, NEW t \in Threads, pc[t] # "idle", [Next]_vars, ~ Step(t)
  PROVE  UNCHANGED StepsLeft(t)
<1> USE DEF IInv
<1>1. UNCHANGED <<pc[t], len[t], seg[t], key[t]>>
  <2>1. ASSUME NEW u \in Threads, u # t, BeginGet(u)
        PROVE  UNCHANGED <<pc[t], len[t], seg[t], key[t]>>
    BY <2>1 DEF BeginGet, TypeOK
  <2>2. ASSUME NEW u \in Threads, u # t, Step(u)
        PROVE  UNCHANGED <<pc[t], len[t], seg[t], key[t]>>
    BY <2>2 DEF Step, LoadSegment, Translate, StoreSegment, Publish, TypeOK
  <2>3. ~ BeginGet(t)
    BY DEF BeginGet
  <2>4. CASE UNCHANGED vars \/ \E v, u \in Threads : HandOver(v, u)
    BY <2>4 DEF vars, HandOver
  <2>5. QED
    BY <2>1, <2>2, <2>3, <2>4 DEF Next
<1>2. QED
  BY <1>1 DEF StepsLeft

\* "No caller blocks" (cache.rs:10) as a bound: a call has at most KEY_SEGS + 2
\* steps left, none of them is taken back by what the other threads do, and
\* each step of the thread is one of them.  There is no retry in Cache::get.
THEOREM CallsAreBounded ==
  Spec =>
    /\ [](\A t \in Threads : /\ StepsLeft(t) \in 0..(KEY_SEGS + 2)
                             /\ StepsLeft(t) = 0 <=> pc[t] = "idle")
    /\ [][\A t \in Threads :
            pc[t] # "idle" =>
              IF Step(t) THEN StepsLeft(t)' < StepsLeft(t)
              ELSE UNCHANGED StepsLeft(t)]_vars
<1>1. IInv => \A t \in Threads : /\ StepsLeft(t) \in 0..(KEY_SEGS + 2)
                                 /\ StepsLeft(t) = 0 <=> pc[t] = "idle"
  BY StepsLeftFacts
<1>2. IInv /\ [Next]_vars =>
        [\A t \in Threads :
           pc[t] # "idle" =>
             IF Step(t) THEN StepsLeft(t)' < StepsLeft(t)
             ELSE UNCHANGED StepsLeft(t)]_vars
  BY StepCounts, OthersDoNotCount
<1>3. QED
  BY <1>1, <1>2, Invariance, PTL DEF Spec

=============================================================================

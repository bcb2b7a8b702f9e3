-------------------------- MODULE InterfaceProofs ---------------------------
(***************************************************************************)
(* The smaller components, one section each: the flag word, typed control  *)
(* calls, startup options, the reclamation and the settings of arenas, and *)
(* the build script.  They have no variable in common, and each section is *)
(* about the specification of its component.                               *)
(***************************************************************************)
EXTENDS FlagWord, ControlCall, ArenaControl, Arenas, BuildScript,
        SequenceTheorems, TLAPS

-----------------------------------------------------------------------------
(* The flag word *)

\* The value of a field: its flag, or zero when it was not asked for.
TcacheField(tc) ==
  IF tc = Automatic THEN 0 ELSE IF tc = NoTcache THEN 1 ELSE tc + 2

ArenaField(a) == IF a = Automatic THEN 0 ELSE Signed((a + 1) % FieldSize)

Bit(b) == IF b THEN 1 ELSE 0

LowField == 0..4095

HighField == (-2048)..2047

AskedRecords == [align : 0..63, zero : BOOLEAN,
          tcache : TcacheIndices \cup {Automatic, NoTcache},
          arena : ArenaIndices \cup {Automatic}]

\* The word put together from the values of its fields.
Sum(l, z, c, h) == l + z * 64 + c * 256 + h * ArenaUnit

\* The inductive invariant: the word is the sum of the fields asked for.
Encodes ==
  word = Sum(asked.align, Bit(asked.zero), TcacheField(asked.tcache),
             ArenaField(asked.arena))

\* The fields of a request stay within their capacities.
LEMMA TcacheRange ==
  ASSUME NEW tc \in TcacheIndices \cup {Automatic, NoTcache}
  PROVE  TcacheField(tc) \in LowField
<1>1. tc \in (-2)..4093
  BY FlagAssumption DEF TcacheIndices, Automatic, NoTcache
<1> QED
  BY <1>1 DEF TcacheField, Automatic, NoTcache, LowField

LEMMA ArenaRange ==
  ASSUME NEW a \in ArenaIndices \cup {Automatic}
  PROVE  ArenaField(a) \in HighField
<1>1. a \in (-1)..4094
  BY FlagAssumption DEF ArenaIndices, Automatic
<1> QED
  BY <1>1, SMTT(30) DEF ArenaField, Signed, Automatic, FieldSize, HighField

\* An accepted index is none of the special values.
LEMMA HandleIndices ==
  /\ \A tc \in TcacheIndices : tc + 2 \in Int /\ TcacheField(tc) = tc + 2
  /\ \A a \in ArenaIndices : ArenaField(a) = Signed((a + 1) % FieldSize)
<1>1. ASSUME NEW tc \in TcacheIndices
      PROVE  tc + 2 \in Int /\ TcacheField(tc) = tc + 2
  <2>1. tc \in 0..4093
    BY FlagAssumption DEF TcacheIndices
  <2>2. tc + 2 \in Int
    BY <2>1
  <2>3. tc # -1
    BY <2>1
  <2>4. tc # -2
    BY <2>1
  <2> QED
    BY <2>2, <2>3, <2>4, Zenon DEF TcacheField, Automatic, NoTcache
<1>2. ASSUME NEW a \in ArenaIndices
      PROVE  ArenaField(a) = Signed((a + 1) % FieldSize)
  <2>1. a # Automatic
    BY FlagAssumption DEF ArenaIndices, Automatic
  <2> QED
    BY <2>1, Zenon DEF ArenaField
<1> QED
  BY <1>1, <1>2

\* The fields are read back as what was asked.
LEMMA TcacheReadsBack ==
  ASSUME NEW tc \in TcacheIndices \cup {Automatic, NoTcache}, NEW w,
         (w \div 256) % FieldSize = TcacheField(tc)
  PROVE  Tcache(w) = tc
<1> DEFINE f == (w \div 256) % FieldSize
<1>1. tc \in (-2)..4093
  BY FlagAssumption DEF TcacheIndices, Automatic, NoTcache
<1>2. f = IF tc = -1 THEN 0 ELSE IF tc = -2 THEN 1 ELSE tc + 2
  BY Zenon DEF TcacheField, Automatic, NoTcache
<1>3. Tcache(w) = IF f = 0 THEN -1 ELSE IF f = 1 THEN -2 ELSE f - 2
  BY Zenon DEF Tcache, Automatic, NoTcache
<1> HIDE DEF f
<1> QED
  BY <1>1, <1>2, <1>3, SMT

LEMMA ArenaReadsBack ==
  ASSUME NEW a \in ArenaIndices \cup {Automatic}, NEW w,
         w \div ArenaUnit = ArenaField(a)
  PROVE  ArenaOf(w) = a
<1> DEFINE f == (w \div ArenaUnit) % FieldSize
<1>1. a \in (-1)..4094
  BY FlagAssumption DEF ArenaIndices, Automatic
<1>2. ArenaField(a) % FieldSize = a + 1
  BY <1>1, SMT DEF ArenaField, Signed, Automatic, FieldSize
<1>3. f = a + 1
  BY <1>2, Zenon
<1>4. ArenaOf(w) = f - 1
  BY Zenon DEF ArenaOf
<1> HIDE DEF f
<1> QED
  BY <1>1, <1>3, <1>4, SMT

\* What jemalloc reads when the word encodes the request: four numbers below
\* the capacities of their fields, the last one signed, are read back from
\* the number that is put together from them.
LEMMA Reading ==
  ASSUME asked \in AskedRecords, Encodes
  PROVE  TypeOK /\ JemallocReadsWhatWasAsked
<1> DEFINE l == asked.align
           z == Bit(asked.zero)
           c == TcacheField(asked.tcache)
           h == ArenaField(asked.arena)
<1>1. /\ asked.align \in 0..63
      /\ asked.zero \in BOOLEAN
      /\ asked.tcache \in TcacheIndices \cup {Automatic, NoTcache}
      /\ asked.arena \in ArenaIndices \cup {Automatic}
  BY DEF AskedRecords
<1>2. l \in 0..63
  BY <1>1
<1>3. z \in 0..1
  BY DEF Bit
<1>4. c \in LowField
  BY <1>1, TcacheRange, Zenon
<1>5. h \in HighField
  BY <1>1, ArenaRange, Zenon
<1>6. word = Sum(l, z, c, h)
  BY DEF Encodes
<1>7. /\ word % 64 = l
      /\ (word \div 64) % 2 = z
      /\ (word \div 256) % FieldSize = c
      /\ word \div ArenaUnit = h
      /\ CInt(word)
  <2> HIDE DEF l, z, c, h
  <2>1. /\ word = l + z * 64 + c * 256 + h * 1048576 /\ word \in Int
        /\ c \in 0..4095 /\ h \in (-2048)..2047
    BY <1>2, <1>3, <1>4, <1>5, <1>6, SMT DEF Sum, ArenaUnit, LowField, HighField
  <2>2. word % 64 = l
    BY <1>2, <1>3, <2>1, SMT
  <2>3. word \div 64 = z + c * 4 + h * 16384 /\ word \div 64 \in Int
    BY <1>2, <1>3, <2>1, SMT
  <2>4. (word \div 64) % 2 = z
    BY <1>3, <2>1, <2>3, SMT
  <2>5. word \div 256 = c + h * 4096
    BY <1>2, <1>3, <2>1, SMT
  <2>6. (word \div 256) % FieldSize = c
    BY <2>1, <2>5, SMT DEF FieldSize
  <2>7. word \div ArenaUnit = h
    BY <1>2, <1>3, <2>1, SMT DEF ArenaUnit
  <2>8. CInt(word)
    BY <1>2, <1>3, <2>1, SMT DEF CInt
  <2> QED
    BY <2>2, <2>4, <2>6, <2>7, <2>8, Zenon
<1>8. Zero(word) <=> asked.zero
  BY <1>7 DEF Zero, Bit
<1>9. Tcache(word) = asked.tcache
  BY <1>1, <1>7, TcacheReadsBack, Zenon
<1>10. ArenaOf(word) = asked.arena
  BY <1>1, <1>7, ArenaReadsBack, Zenon
<1> QED
  BY <1>7, <1>8, <1>9, <1>10, Zenon
  DEF LgAlign, TypeOK, AskedRecords, JemallocReadsWhatWasAsked

\* The inductive step: each flag sets the field that was still clear, which
\* adds its value to the sum.
LEMMA StepEncodes ==
  ASSUME asked \in AskedRecords, Encodes, [Next]_vars
  PROVE  asked' \in AskedRecords /\ Encodes'
<1> DEFINE l == asked.align
           z == Bit(asked.zero)
           c == TcacheField(asked.tcache)
           h == ArenaField(asked.arena)
<1>a. word = Sum(l, z, c, h)
  BY DEF Encodes
<1>b. c \in LowField
  BY TcacheRange, Zenon DEF AskedRecords
<1>c. h \in HighField
  BY ArenaRange, Zenon DEF AskedRecords
<1>d. l \in Int /\ z \in Int
  BY DEF AskedRecords, Bit
<1>e. l \in Int /\ z \in Int /\ c \in Int /\ h \in Int
  <2> HIDE DEF l, z, c, h
  <2> QED
    BY <1>b, <1>c, <1>d, SMT DEF LowField, HighField
<1>1. ASSUME NEW la \in Aligns, Align(la)
      PROVE  asked' \in AskedRecords /\ Encodes'
  <2>1. la \in Int /\ asked' \in AskedRecords
    BY <1>1, FlagAssumption DEF Align, AskedRecords
  <2>2. l = 0 /\ asked' = [asked EXCEPT !.align = la] /\ word' = word + la
    BY <1>1 DEF Align, MALLOCX_LG_ALIGN
  <2>3. /\ asked'.align = la /\ asked'.zero = asked.zero
        /\ asked'.tcache = asked.tcache /\ asked'.arena = asked.arena
    BY <2>2 DEF AskedRecords
  <2>4. word' = Sum(la, z, c, h)
    <3> HIDE DEF l, z, c, h
    <3> QED
      BY <1>a, <1>e, <2>1, <2>2, SMT DEF Sum, ArenaUnit
  <2> QED
    BY <2>1, <2>3, <2>4 DEF Encodes
<1>2. CASE AskZero
  <2>1. asked' \in AskedRecords
    BY <1>2 DEF AskZero, AskedRecords
  <2>2. /\ ~ asked.zero /\ asked' = [asked EXCEPT !.zero = TRUE]
        /\ word' = word + 64
    BY <1>2 DEF AskZero, MALLOCX_ZERO
  <2>3. /\ asked'.align = asked.align /\ asked'.zero = TRUE
        /\ asked'.tcache = asked.tcache /\ asked'.arena = asked.arena
    BY <2>2 DEF AskedRecords
  <2>4. z = 0 /\ Bit(asked'.zero) = 1
    BY <2>2, <2>3 DEF Bit
  <2>5. word' = Sum(l, 1, c, h)
    <3> HIDE DEF l, z, c, h
    <3> QED
      BY <1>a, <1>e, <2>2, <2>4, SMT DEF Sum, ArenaUnit
  <2> QED
    BY <2>1, <2>3, <2>4, <2>5 DEF Encodes
<1>3. ASSUME NEW tc, NEW field \in Int, tc \in TcacheIndices \cup {NoTcache},
             TcacheField(tc) = field,
             asked.tcache = Automatic, word' = word + field * 256,
             asked' = [asked EXCEPT !.tcache = tc]
      PROVE  asked' \in AskedRecords /\ Encodes'
  <2>1. asked' \in AskedRecords
    BY <1>3 DEF AskedRecords
  <2>2. /\ asked'.align = asked.align /\ asked'.zero = asked.zero
        /\ asked'.tcache = tc /\ asked'.arena = asked.arena
    BY <1>3 DEF AskedRecords
  <2>3. c = 0
    BY <1>3 DEF TcacheField
  <2>4. word' = Sum(l, z, field, h)
    <3>1. word' = word + field * 256 /\ field \in Int
      BY <1>3
    <3> HIDE DEF l, z, c, h
    <3> QED
      BY <1>a, <1>e, <2>3, <3>1, SMT DEF Sum, ArenaUnit
  <2> QED
    BY <1>3, <2>1, <2>2, <2>4 DEF Encodes
<1>4. ASSUME NEW tc \in Tcaches, AskTcache(tc)
      PROVE  asked' \in AskedRecords /\ Encodes'
  <2>1. tc \in TcacheIndices
    BY <1>4 DEF AskTcache
  <2>2. tc + 2 \in Int /\ TcacheField(tc) = tc + 2
    BY <2>1, HandleIndices, Zenon
  <2> QED
    BY <1>3, <1>4, <2>1, <2>2, Zenon DEF AskTcache, MALLOCX_TCACHE
<1>5. CASE AskNoTcache
  <2>1. TcacheField(NoTcache) = 1 /\ MALLOCX_TCACHE_NONE = 1 * 256
    BY DEF TcacheField, Automatic, NoTcache, MALLOCX_TCACHE_NONE, MALLOCX_TCACHE
  <2> QED
    BY <1>3, <1>5, <2>1 DEF AskNoTcache
<1>6. ASSUME NEW a \in UsedArenas, AskArena(a)
      PROVE  asked' \in AskedRecords /\ Encodes'
  <2> DEFINE g == ArenaField(a)
  <2>1. a \in ArenaIndices
    BY <1>6 DEF AskArena
  <2>2. g \in HighField /\ g = Signed((a + 1) % FieldSize)
    BY <2>1, ArenaRange, HandleIndices, Zenon
  <2>3. asked' \in AskedRecords
    BY <1>6, <2>1 DEF AskArena, AskedRecords
  <2>4. /\ asked'.align = asked.align /\ asked'.zero = asked.zero
        /\ asked'.tcache = asked.tcache /\ asked'.arena = a
    BY <1>6 DEF AskArena, AskedRecords
  <2>5. h = 0 /\ word' = word + g * ArenaUnit
    BY <1>6, <2>2, Zenon DEF AskArena, ArenaField, MALLOCX_ARENA
  <2>6. word' = Sum(l, z, c, g)
    <3> HIDE DEF l, z, c, h, g
    <3>1. g \in Int
      BY <2>2, SMTT(30) DEF HighField
    <3>2. word = l + z * 64 + c * 256 /\ word' = word + g * 1048576
      BY <1>a, <1>e, <2>5, SMT DEF Sum, ArenaUnit
    <3> QED
      BY <1>e, <3>1, <3>2, SMT DEF Sum, ArenaUnit
  <2> QED
    BY <2>3, <2>4, <2>6 DEF Encodes
<1>7. CASE UNCHANGED vars
  BY <1>7 DEF vars, Encodes
<1> QED
  BY <1>1, <1>2, <1>4, <1>5, <1>6, <1>7 DEF Next

\* jemalloc reads what was asked, whatever indices the handles hold and in
\* whatever order their flags are or-ed together.  The word stays a C int.
THEOREM FlagsReadBack == Spec => [](TypeOK /\ JemallocReadsWhatWasAsked)
<1>1. Init => asked \in AskedRecords /\ Encodes
  <2> SUFFICES ASSUME Init
               PROVE  asked \in AskedRecords /\ Encodes
    OBVIOUS
  <2>1. asked \in AskedRecords
    BY DEF Init, Nothing, AskedRecords
  <2>2. Bit(asked.zero) = 0 /\ TcacheField(asked.tcache) = 0
        /\ ArenaField(asked.arena) = 0 /\ asked.align = 0 /\ word = 0
    BY DEF Init, Nothing, Bit, TcacheField, ArenaField
  <2>3. Sum(0, 0, 0, 0) = 0
    BY SMT DEF Sum, ArenaUnit
  <2> QED
    BY <2>1, <2>2, <2>3 DEF Encodes
<1>2. asked \in AskedRecords /\ Encodes /\ [Next]_vars => asked' \in AskedRecords /\ Encodes'
  BY StepEncodes
<1>3. asked \in AskedRecords /\ Encodes => TypeOK /\ JemallocReadsWhatWasAsked
  BY Reading
<1> DEFINE IInv == asked \in AskedRecords /\ Encodes
<1> HIDE DEF IInv
<1>4. Init => IInv
  BY <1>1 DEF IInv
<1>5. IInv /\ [Next]_vars => IInv'
  BY <1>2 DEF IInv, AskedRecords
<1>6. IInv => TypeOK /\ JemallocReadsWhatWasAsked
  BY <1>3 DEF IInv
<1> QED
  BY <1>4, <1>5, <1>6, PTL DEF Spec

-----------------------------------------------------------------------------
(* Typed control calls *)

\* A failure has a status.
LEMMA FailedFacts ==
  ASSUME NEW storage, NEW part, NEW b, NEW r \in Failed(storage, part, b)
  PROVE  r.status # 0
BY CallAssumption DEF Failed

\* A call with n bytes of storage and an input of m bytes.  A success means
\* that jemalloc filled the storage, and that it did what it was asked for;
\* and where the sizes are the control's, there is no panic.
LEMMA CallFacts ==
  ASSUME NEW m \in Nat, NEW S, NEW storage \in Seq(S), NEW value \in BOOLEAN,
         Perform(m, storage, value)
  PROVE  /\ value /\ result'.tag = "ok" =>
              /\ Len(result'.value) = Len(storage)
              /\ \A i \in 1..Len(result'.value) : result'.value[i] = "jemalloc"
         /\ result'.tag = "ok" => (effect' <=> m > 0 \/ Len(storage) = 0)
         /\ (Len(storage) \in {0, control.output} /\ m \in {0, control.input}) =>
              result'.tag # "panic"
<1> DEFINE n == Len(storage)
           part == Least(n, control.output)
<1>1. n \in Nat
  OBVIOUS
<1>2. PICK r \in mallctlbymib(m, storage) :
        result' = Conclude(r, n, value) /\ effect' = r.effect
  BY Zenon DEF Perform
<1>3. /\ EINVAL # 0 /\ EPERM # 0
      /\ \A c \in Codes : c # 0
  BY CallAssumption
\* The storage when jemalloc has filled it.
<1>4. ASSUME NEW k, k = n
      PROVE  /\ Len(Filled(storage, k)) = n
             /\ \A i \in 1..n : Filled(storage, k)[i] = "jemalloc"
  BY <1>1, <1>4 DEF Filled
\* The responses, by what they say of the status.
<1>5. \/ r.status # 0
      \/ /\ r.status = 0 /\ r.len = n
         /\ r.effect <=> m > 0 \/ n = 0
         /\ \E k : k = n /\ r.out = Filled(storage, k)
      \/ /\ r.status = 0 /\ r.len # n
         /\ ~ (n \in {0, control.output})
  <2> HIDE DEF n
  <2>1. CASE \E b : r \in Failed(storage, part, b)
    BY <2>1, FailedFacts
  <2>2. CASE r = Response(EPERM, storage, n, FALSE)
    BY <2>2, <1>3 DEF Response
  <2>3. CASE \E s : r = Response(EINVAL, s, n, FALSE)
    BY <2>3, <1>3 DEF Response
  <2>4. CASE \E did : r = Response(EINVAL, Filled(storage, part), part, did)
    BY <2>4, <1>3 DEF Response
  <2>5. CASE /\ n > 0 /\ n # control.output
             /\ r = Response(0, Filled(storage, part), part, m > 0)
    <3>1. /\ r.status = 0 /\ r.len = part /\ r.out = Filled(storage, part)
          /\ r.effect <=> m > 0
      BY <2>5 DEF Response
    <3>2. ~ (n \in {0, control.output}) /\ n # 0
      BY <2>5, <1>1
    <3>3. CASE part = n
      BY <3>1, <3>2, <3>3
    <3>4. CASE part # n
      BY <3>1, <3>2, <3>4
    <3> QED
      BY <3>3, <3>4
  <2>6. CASE r = Response(0, Filled(storage, n), n,
                   m > 0 \/ (~ (n > 0) /\ ~ (m > 0)))
    <3>1. /\ r.status = 0 /\ r.len = n /\ r.out = Filled(storage, n)
          /\ r.effect <=> m > 0 \/ (~ (n > 0) /\ ~ (m > 0))
      BY <2>6 DEF Response
    <3>2. ~ (n > 0) <=> n = 0
      BY <1>1
    <3> QED
      BY <3>1, <3>2
  <2> QED
    BY <2>1, <2>2, <2>3, <2>4, <2>5, <2>6 DEF mallctlbymib, n
<1>6. CASE r.status # 0
  <2>1. result' = Err(r.status)
    BY <1>2, <1>6 DEF Conclude, into_result
  <2>2. result'.tag = "err"
    BY <2>1 DEF Err
  <2> QED
    BY <2>2
<1>7. CASE r.status = 0 /\ r.len = n
  <2>1. PICK k : k = n /\ r.out = Filled(storage, k)
    BY <1>5, <1>7
  <2>2. result' = Ok(IF value THEN r.out ELSE <<>>)
    BY <1>2, <1>7 DEF Conclude, into_result, SizeExpected
  <2>3. result'.tag = "ok" /\ (value => result'.value = r.out)
    BY <2>2 DEF Ok
  <2> QED
    BY <2>1, <2>3, <1>2, <1>4, <1>5, <1>7
<1>8. CASE r.status = 0 /\ r.len # n
  <2>1. result' = Panicked
    BY <1>2, <1>8 DEF Conclude, into_result, SizeExpected
  <2>2. result'.tag = "panic"
    BY <2>1 DEF Panicked
  <2> QED
    BY <2>2, <1>5, <1>8
<1> QED
  BY <1>6, <1>7, <1>8

\* The storage that a call lends to jemalloc.
LEMMA StorageFacts ==
  ASSUME NEW n \in Nat, NEW byte
  PROVE  Bytes(n, byte) \in Seq({byte}) /\ Len(Bytes(n, byte)) = n
<1>1. Bytes(n, byte) \in [1..n -> {byte}]
  BY DEF Bytes
<1>2. Bytes(n, byte) \in Seq({byte})
  BY <1>1, SeqDef
<1> QED
  BY <1>1, <1>2, LenProperties

\* What holds after every call holds of the types that it was made with.
LEMMA TypedStep ==
  ASSUME ControlNext
  PROVE  ValuesAreJemallocs' /\ OkMeansDone'
<1> USE DEF ValuesAreJemallocs, OkMeansDone, ReturnsValue,
            ZeroSized
<1>1. <<>> \in Seq({}) /\ Len(<<>>) = 0
  OBVIOUS
<1>2. \A n \in Sizes : n \in Nat
  BY CallAssumption DEF Sizes
<1>3. ASSUME Refuse
      PROVE  result'.tag = "panic" /\ ~ effect'
  BY <1>3 DEF Refuse, Panicked
<1>4. ASSUME NEW n \in Sizes, get(n)
      PROVE  ValuesAreJemallocs' /\ OkMeansDone'
  <2>1. /\ control' = control /\ n \in Nat
        /\ request'.op = "get" /\ request'.input = 0 /\ request'.output = n
    BY <1>2, <1>4 DEF get, Asked
  <2>2. CASE n = 0
    BY <1>3, <1>4, <2>1, <2>2 DEF get
  <2>3. CASE n # 0
    <3>0. PICK m \in Nat : m = 0
      OBVIOUS
    <3>1. Perform(m, Bytes(n, "nobody"), TRUE)
      BY <3>0, <1>4, <2>3 DEF get
    <3>2. PICK storage \in Seq({"nobody"}) :
            storage = Bytes(n, "nobody") /\ Len(storage) = n
      BY <2>1, StorageFacts
    <3>3. ~ (m > 0)
      BY <3>0
    <3> QED
      BY <2>1, <2>3, <3>0, <3>1, <3>2, <3>3, CallFacts, ZenonT(60)
  <2> QED
    BY <2>2, <2>3
<1>5. ASSUME NEW n \in Sizes, get_in_place(n)
      PROVE  ValuesAreJemallocs' /\ OkMeansDone'
  <2>1. /\ control' = control /\ n \in Nat
        /\ request'.op = "get_in_place" /\ request'.input = 0 /\ request'.output = n
    BY <1>2, <1>5 DEF get_in_place, Asked
  <2>2. CASE n = 0
    BY <1>3, <1>5, <2>1, <2>2 DEF get_in_place
  <2>3. CASE n # 0
    <3>0. PICK m \in Nat : m = 0
      OBVIOUS
    <3>1. Perform(m, Bytes(n, "caller"), FALSE)
      BY <3>0, <1>5, <2>3 DEF get_in_place
    <3>2. PICK storage \in Seq({"caller"}) :
            storage = Bytes(n, "caller") /\ Len(storage) = n
      BY <2>1, StorageFacts
    <3>3. ~ (m > 0)
      BY <3>0
    <3> QED
      BY <2>1, <2>3, <3>0, <3>1, <3>2, <3>3, CallFacts, ZenonT(60)
  <2> QED
    BY <2>2, <2>3
<1>6. ASSUME NEW n \in Sizes, set(n)
      PROVE  ValuesAreJemallocs' /\ OkMeansDone'
  <2>1. /\ control' = control /\ n \in Nat
        /\ request'.op = "set" /\ request'.input = n /\ request'.output = 0
    BY <1>2, <1>6 DEF set, Asked
  <2>2. CASE n = 0
    BY <1>3, <1>6, <2>1, <2>2 DEF set
  <2>3. CASE n # 0
    <3>1. Perform(n, <<>>, FALSE)
      BY <1>6, <2>3 DEF set
    <3>2. n > 0
      BY <2>1, <2>3
    <3> QED
      BY <1>1, <2>1, <3>1, <3>2, CallFacts
  <2> QED
    BY <2>2, <2>3
<1>7. ASSUME NEW m \in Sizes, NEW n \in Sizes, update(m, n)
      PROVE  ValuesAreJemallocs' /\ OkMeansDone'
  <2>1. /\ control' = control /\ m \in Nat /\ n \in Nat
        /\ request'.op = "update" /\ request'.input = m /\ request'.output = n
    BY <1>2, <1>7 DEF update, Asked
  <2>2. CASE m = 0 \/ n = 0
    BY <1>3, <1>7, <2>1, <2>2 DEF update
  <2>3. CASE ~ (m = 0 \/ n = 0)
    <3>1. Perform(m, Bytes(n, "nobody"), TRUE)
      BY <1>7, <2>3 DEF update
    <3>2. PICK storage \in Seq({"nobody"}) :
            storage = Bytes(n, "nobody") /\ Len(storage) = n
      BY <2>1, StorageFacts
    <3>3. n \in Nat /\ m \in Nat /\ n # 0 /\ m > 0
      BY <2>1, <2>3
    <3> QED
      BY <2>1, <3>1, <3>2, <3>3, CallFacts, ZenonT(60)
  <2> QED
    BY <2>2, <2>3
<1>8. ASSUME notify
      PROVE  ValuesAreJemallocs' /\ OkMeansDone'
  <2>1. /\ control' = control
        /\ request'.op = "notify" /\ request'.input = 0 /\ request'.output = 0
    BY <1>8 DEF notify, Asked
  <2>2. Perform(0, <<>>, FALSE)
    BY <1>8 DEF notify
  <2> QED
    BY <1>1, <2>1, <2>2, CallFacts
<1> HIDE DEF ValuesAreJemallocs, OkMeansDone
<1> QED
  BY <1>4, <1>5, <1>6, <1>7, <1>8 DEF ControlNext

LEMMA TypedInitHolds ==
  ASSUME ControlInit
  PROVE  ValuesAreJemallocs /\ OkMeansDone
BY DEF ControlInit, ValuesAreJemallocs, OkMeansDone,
       ReturnsValue, Ok

LEMMA TypedStutter ==
  ASSUME UNCHANGED controlVars
  PROVE  /\ ValuesAreJemallocs => ValuesAreJemallocs'
         /\ OkMeansDone => OkMeansDone'
BY DEF controlVars, ValuesAreJemallocs, OkMeansDone,
       ReturnsValue, ZeroSized

\* A value that get or update returns was written by jemalloc, every byte of
\* it, for all sizes of types and controls and all statuses (raw.rs checks the
\* length that jemalloc reports before it assumes the storage initialised).
THEOREM ValuesAreWhole == ControlSpec => []ValuesAreJemallocs
BY TypedInitHolds, TypedStep, TypedStutter, PTL DEF ControlSpec

\* Ok from set, update or notify means that jemalloc made the write or ran the
\* command, and Ok from a get that nothing was changed, whatever a failed call
\* may have done; and where the types have the sizes of the control, as the
\* safety contract of raw.rs demands, only a type without bytes panics, and
\* before anything is written.
THEOREM CallsThatSucceedAreDone == ControlSpec => []OkMeansDone
BY TypedInitHolds, TypedStep, TypedStutter, PTL DEF ControlSpec

-----------------------------------------------------------------------------
(* Startup options *)

Modes == {"disabled", "percpu", "phycpu", "unknown", Option!NULL}

\* PredicatesAreSound is not inductive: that a thread which is sure of its key
\* cannot be refused it in the middle of a query needs `sure` to be among
\* those who hold the key, and `failed` is about a query that ended.
OptionIInv ==
  /\ stored \in Modes
  /\ asking \in [Threads -> Option!Queries]
  /\ DOMAIN said = Threads /\ DOMAIN ret = Threads
  /\ failed \in [Threads -> {"nothing", "read", "lookup"}]
  /\ \A t \in busy : failed[t] = "nothing"
  /\ sure \subseteq holds
  /\ Option!PredicatesAreSound

\* What a predicate makes of the option that was read is the truth, and what
\* it makes of a failed lookup is `false`.
LEMMA ToldFacts ==
  ASSUME NEW q \in Option!Predicates, stored \in Modes
  PROVE  /\ Option!Told(q, Option!percpu_mode(stored)).value = Option!Truth[q]
         /\ \A e : ~ Option!Told(q, Option!Err(e)).value
<1> USE DEF Option!Told, Option!is_affine, Option!is_percpu, Option!is_phycpu,
            Option!Ok, Option!Err
<1>1. Option!Truth[q] = CASE q = "is_affine" -> stored \in {"percpu", "phycpu"}
                          [] q = "is_percpu" -> stored = "percpu"
                          [] q = "is_phycpu" -> stored = "phycpu"
  BY DEF Option!Truth, Option!Predicates
<1>2. ASSUME NEW e
      PROVE  /\ Option!Told(q, Option!Err(e)).value \in BOOLEAN
             /\ ~ Option!Told(q, Option!Err(e)).value
  <2>1. Option!Err(e) \notin {Option!Ok("percpu"), Option!Ok("phycpu")}
    OBVIOUS
  <2>2. CASE q = "is_affine"
    <3>1. Option!is_affine(Option!Err(e)) = FALSE
      BY <2>1, SMT DEF Option!is_affine
    <3> HIDE DEF Option!is_affine
    <3> QED
      BY <2>2, <3>1
  <2>3. CASE q = "is_percpu"
    BY <2>1, <2>3
  <2>4. CASE q = "is_phycpu"
    BY <2>1, <2>4
  <2> QED
    BY <2>2, <2>3, <2>4 DEF Option!Predicates
<1>3. CASE stored \in {"disabled", "percpu", "phycpu"}
  <2>1. Option!percpu_mode(stored) = Option!Ok(stored)
    BY <1>3 DEF Option!percpu_mode, Option!get_cstr, Option!NULL
  <2> QED
    BY <1>1, <1>2, <1>3, <2>1 DEF Option!Predicates
<1>4. CASE stored \in {"unknown", Option!NULL}
  <2>1. \E e : Option!percpu_mode(stored) = Option!Err(e)
    BY <1>4 DEF Option!percpu_mode, Option!get_cstr, Option!NULL
  <2>2. stored \notin {"percpu", "phycpu"}
    BY <1>4 DEF Option!NULL
  <2>3. Option!Truth[q] \in BOOLEAN /\ ~ Option!Truth[q]
    <3>1. CASE q = "is_affine"
      <4>1. (stored \in {"percpu", "phycpu"}) = FALSE
        BY <2>2, SMT
      <4>2. Option!Truth[q] = (stored \in {"percpu", "phycpu"})
        BY <3>1, SMT DEF Option!Truth
      <4> QED
        BY <4>1, <4>2, Zenon
    <3>2. CASE q = "is_percpu"
      BY <1>1, <2>2, <3>2
    <3>3. CASE q = "is_phycpu"
      BY <1>1, <2>2, <3>3
    <3> QED
      BY <3>1, <3>2, <3>3 DEF Option!Predicates
  <2> HIDE DEF Option!Told, Option!Err
  <2> QED
    BY <1>2, <2>1, <2>3
<1> QED
  BY <1>2, <1>3, <1>4 DEF Modes

LEMMA OptionInit ==
  ASSUME Option!StartupInit
  PROVE  OptionIInv
BY DEF Option!StartupInit, Option!Init, OptionIInv, Modes, Option!Queries,
       Option!PredicatesAreSound

\* PredicatesAreSound for one thread.
SoundlyTold(t) ==
  asking[t] \in Option!Predicates /\ said[t] # Option!Nothing =>
    CASE failed[t] = "nothing" -> said[t].value = Option!Truth[asking[t]]
      [] failed[t] = "read" -> ~ said[t].value
      [] failed[t] = "lookup" -> ~ said[t].value /\ t \notin sure

\* A query ends: thread t is told something, and what it says is right.
LEMMA ToldKeeps ==
  ASSUME OptionIInv, NEW t \in Threads, NEW how \in {"nothing", "read", "lookup"},
         UNCHANGED <<stored, asking, sure>>,
         DOMAIN said' = Threads, DOMAIN ret' = Threads, holds \subseteq holds',
         busy' = busy \ {t}, failed' = [failed EXCEPT ![t] = how],
         \A u \in Threads : u # t => said'[u] = said[u],
         asking[t] \in Option!Predicates =>
           CASE how = "nothing" -> said'[t].value = Option!Truth[asking[t]]
             [] how = "read" -> ~ said'[t].value
             [] how = "lookup" -> ~ said'[t].value /\ t \notin sure
  PROVE  OptionIInv'
<1>1. Option!Truth' = Option!Truth
  BY DEF Option!Truth
<1>2. /\ failed'[t] = how
      /\ \A u \in Threads : u # t => failed'[u] = failed[u]
  BY DEF OptionIInv
<1>3. ASSUME NEW u \in Threads
      PROVE  SoundlyTold(u)'
  <2>1. CASE u = t
    BY <1>1, <1>2, <2>1 DEF SoundlyTold
  <2>2. CASE u # t
    <3>1. SoundlyTold(u)
      BY DEF OptionIInv, Option!PredicatesAreSound, SoundlyTold
    <3>2. /\ said'[u] = said[u] /\ failed'[u] = failed[u] /\ asking'[u] = asking[u]
          /\ Option!Truth'[asking'[u]] = Option!Truth[asking[u]]
      BY <1>1, <1>2, <2>2
    <3> QED
      BY <3>1, <3>2 DEF SoundlyTold
  <2> QED
    BY <2>1, <2>2
<1>4. Option!PredicatesAreSound'
  BY <1>3 DEF Option!PredicatesAreSound, SoundlyTold
<1> QED
  BY <1>2, <1>4 DEF OptionIInv

LEMMA OptionStep ==
  ASSUME OptionIInv, [Option!StartupNext]_(Option!vars)
  PROVE  OptionIInv'
<1>1. ASSUME NEW t \in Threads, Option!Found(t)
      PROVE  OptionIInv'
  <2>1. /\ UNCHANGED <<stored, asking, sure>> /\ failed' = failed
        /\ DOMAIN said' = Threads /\ DOMAIN ret' = Threads
        /\ holds \subseteq holds' /\ busy' = busy \ {t} /\ t \in busy
        /\ \A u \in Threads : u # t => said'[u] = said[u]
    BY <1>1 DEF OptionIInv, Option!Found, Option!Answer
  <2>2. failed' = [failed EXCEPT ![t] = "nothing"]
    BY <2>1 DEF OptionIInv
  <2>3. ASSUME asking[t] \in Option!Predicates
        PROVE  said'[t].value = Option!Truth[asking[t]]
    <3>1. said'[t] = Option!Told(asking[t], Option!percpu_mode(stored))
      BY <1>1, <2>3 DEF OptionIInv, Option!Found, Option!Predicates
    <3> QED
      BY <2>3, <3>1, ToldFacts DEF OptionIInv
  <2>4. PICK how \in {"nothing", "read", "lookup"} : how = "nothing"
    OBVIOUS
  <2> QED
    BY <2>1, <2>2, <2>3, <2>4, ToldKeeps
<1>2. ASSUME NEW t \in Threads, Option!Unread(t)
      PROVE  OptionIInv'
  <2>1. PICK e \in Errors : said' = [said EXCEPT ![t] = Option!Told(asking[t], Option!Err(e))]
    BY <1>2 DEF Option!Unread
  <2>2. /\ UNCHANGED <<stored, asking, sure>> /\ failed' = [failed EXCEPT ![t] = "read"]
        /\ DOMAIN said' = Threads /\ DOMAIN ret' = Threads
        /\ holds \subseteq holds' /\ busy' = busy \ {t}
        /\ \A u \in Threads : u # t => said'[u] = said[u]
    BY <1>2, <2>1 DEF OptionIInv, Option!Unread, Option!Answer
  <2>3. asking[t] \in Option!Predicates => ~ said'[t].value
    <3>1. said'[t] = Option!Told(asking[t], Option!Err(e))
      BY <2>1 DEF OptionIInv
    <3> QED
      BY <3>1, ToldFacts DEF OptionIInv
  <2>4. PICK how \in {"nothing", "read", "lookup"} : how = "read"
    OBVIOUS
  <2> QED
    BY <2>2, <2>3, <2>4, ToldKeeps
<1>3. ASSUME NEW t \in Threads, Option!NotFound(t)
      PROVE  OptionIInv'
  <2>1. /\ UNCHANGED <<stored, asking, sure>> /\ failed' = [failed EXCEPT ![t] = "lookup"]
        /\ DOMAIN said' = Threads /\ DOMAIN ret' = Threads
        /\ holds \subseteq holds' /\ busy' = busy \ {t} /\ t \notin holds
        /\ \A u \in Threads : u # t => said'[u] = said[u]
    BY <1>3 DEF OptionIInv, Option!NotFound, Option!Refuse
  <2>2. asking[t] \in Option!Predicates => ~ said'[t].value
    <3>1. PICK e : ret'[t] = Option!Err(e)
      BY <1>3 DEF OptionIInv, Option!NotFound, Option!Refuse
    <3>2. said'[t] = Option!Told(asking[t], Option!Err(e))
      BY <1>3, <3>1 DEF OptionIInv, Option!NotFound
    <3> QED
      BY <3>2, ToldFacts DEF OptionIInv
  <2>3. t \notin sure
    BY <2>1 DEF OptionIInv
  <2>4. PICK how \in {"nothing", "read", "lookup"} : how = "lookup"
    OBVIOUS
  <2> QED
    BY <2>1, <2>2, <2>3, <2>4, ToldKeeps
<1>4. ASSUME NEW t \in Threads, NEW q \in Option!Queries, Option!Ask(t, q)
      PROVE  OptionIInv'
  <2>1. /\ stored' = stored /\ asking' = [asking EXCEPT ![t] = q]
        /\ DOMAIN said' = Threads /\ DOMAIN ret' = Threads
        /\ holds' = holds /\ sure' = (sure \ {t}) \cup ({t} \cap holds)
        /\ said' = [said EXCEPT ![t] = Option!Nothing]
        /\ failed' = [failed EXCEPT ![t] = "nothing"] /\ busy' = busy \cup {t}
    BY <1>4 DEF OptionIInv, Option!Ask, Option!Call
  <2>2. Option!Truth' = Option!Truth
    BY <2>1 DEF Option!Truth
  <2>3. ASSUME NEW u \in Threads
        PROVE  SoundlyTold(u)'
    <3>1. CASE u = t
      BY <2>1, <3>1 DEF OptionIInv, SoundlyTold
    <3>2. CASE u # t
      <4>1. SoundlyTold(u)
        BY DEF OptionIInv, Option!PredicatesAreSound, SoundlyTold
      <4>2. /\ said'[u] = said[u] /\ failed'[u] = failed[u] /\ asking'[u] = asking[u]
            /\ u \in sure' <=> u \in sure
            /\ Option!Truth'[asking'[u]] = Option!Truth[asking[u]]
        BY <2>1, <2>2, <3>2 DEF OptionIInv
      <4> QED
        BY <4>1, <4>2 DEF SoundlyTold
    <3> QED
      BY <3>1, <3>2
  <2>4. Option!PredicatesAreSound'
    BY <2>3 DEF Option!PredicatesAreSound, SoundlyTold
  <2> QED
    BY <2>1, <2>4 DEF OptionIInv
<1>5. ASSUME NEW t \in Threads, NEW u \in Threads, Option!Publish(t, u)
      PROVE  OptionIInv'
  <2>1. /\ UNCHANGED <<stored, asking, said, sure, failed, ret, busy>>
        /\ holds \subseteq holds'
    BY <1>5 DEF Option!Publish, Option!HandOver
  <2> QED
    BY <2>1 DEF OptionIInv, Option!PredicatesAreSound, Option!Truth
<1>6. CASE UNCHANGED Option!vars
  BY <1>6 DEF OptionIInv, Option!vars, Option!serviceVars, Option!PredicatesAreSound, Option!Truth
<1> QED
  BY <1>1, <1>2, <1>3, <1>4, <1>5, <1>6 DEF Option!StartupNext

\* No thread is told of a mode that is not in force, and `false` of the mode
\* in force is said only of a query that failed, which a lookup by a thread
\* that has the key does not: for any number of threads, any failures of
\* lookups and reads and any mode, unknown and null included.
THEOREM PredicatesSound == Option!StartupSpec => []PredicatesAreSound
<1>1. OptionIInv => PredicatesAreSound
  BY DEF OptionIInv, PredicatesAreSound
<1> QED
  BY <1>1, OptionInit, OptionStep, PTL DEF Option!StartupSpec

-----------------------------------------------------------------------------
(* Reclaiming the memory of arenas *)

ReclaimOps == Reclaiming \cup {"set_dirty_decay"}

ReclaimTypeOK ==
  /\ current \in [Threads -> Arenas]
  /\ DOMAIN decayMs = Arenas
  /\ pc \in [Threads -> {"idle", "current", "decay", "purge", "xchg", "set"}]
  /\ call \in [Threads -> [op : ReclaimOps \cup {"none"},
                           of : {"this", "arena", "all", "none"},
                           asked : Nat, value : Int]]
  /\ DOMAIN index = Threads /\ DOMAIN returned = Threads /\ DOMAIN operations = Threads
  /\ DOMAIN previous = Threads /\ DOMAIN inForce = Threads
  /\ own \in [Threads -> SUBSET Arenas]
  /\ purged \in [Threads -> SUBSET Arenas]

\* The next control call is one of the operation.
CallInProgress(t) ==
  /\ pc[t] = "current" => call[t].of = "this" /\ call[t].op \in ReclaimOps
  /\ pc[t] = "decay" => call[t].op \in {"trim", "decay"}
  /\ pc[t] = "purge" => call[t].op \in {"trim", "purge"}
  /\ pc[t] \in {"xchg", "set"} => call[t].op = "set_dirty_decay"

\* Once its arena is known, the key of an operation has the index meant.
KeySelected(t) ==
  pc[t] \in {"decay", "purge", "xchg", "set"} =>
    \/ call[t].of = "this" /\ index[t] \in own[t]
    \/ call[t].of = "arena" /\ index[t] = call[t].asked /\ index[t] < ARENA_INDEX_LIMIT
    \/ call[t].of = "all" /\ index[t] = ALL_ARENAS

\* What `thread.arena` says during a call has been the thread's own in it.
CurrentIsOwn(t) == pc[t] # "idle" => current[t] \in own[t]

\* During a call, the intervals in force are among those that were since it
\* began, and so is the one an exchange has read.
ExchangeSeen(t) ==
  /\ pc[t] # "idle" => \A a \in Arenas : <<a, decayMs[a]>> \in inForce[t]
  /\ pc[t] = "set" => index[t] \in Arenas /\ <<index[t], previous[t]>> \in inForce[t]

\* The inductive invariant.  OnlyWhatWasMeant and TrimReclaims are about the
\* arenas an operation is meant for, and a step acts on those of the key: what
\* relates the two is KeySelected, which for the calling thread's own arena
\* needs CurrentIsOwn when the key is made, some steps earlier.  And what an
\* exchange returns it has read in an earlier step: ExchangeSeen is about the
\* time between.
ReclaimIInv ==
  /\ ReclaimTypeOK
  /\ \A t \in Threads :
       CallInProgress(t) /\ KeySelected(t) /\ CurrentIsOwn(t) /\ ExchangeSeen(t)
  /\ TrimReclaims
  /\ PreviousWasInForce

\* A control call acts on arenas that were meant, and on all of them unless
\* they are those of the calling thread.
LEMMA TargetsAreMeant ==
  ASSUME ReclaimTypeOK, NEW t \in Threads, KeySelected(t),
         pc[t] \in {"decay", "purge", "xchg", "set"}
  PROVE  /\ ActsOn(index[t]) \subseteq Meant(t)
         /\ call[t].of # "this" => ActsOn(index[t]) = Meant(t)
         /\ call[t].of = "this" => Meant(t) = own[t]
<1>1. CASE call[t].of = "this" /\ index[t] \in own[t]
  <2>1. index[t] \in Arenas
    BY <1>1 DEF ReclaimTypeOK
  <2>2. ActsOn(index[t]) \subseteq own[t]
    BY <1>1, <2>1, ControlAssumption DEF ActsOn, Arenas
  <2>3. Meant(t) = own[t]
    BY <1>1 DEF Meant
  <2> QED
    BY <1>1, <2>2, <2>3
<1>2. CASE call[t].of = "arena" /\ index[t] = call[t].asked /\ index[t] < ARENA_INDEX_LIMIT
  <2>1. index[t] # ALL_ARENAS
    BY <1>2, ControlAssumption DEF ReclaimTypeOK
  <2> QED
    BY <1>2, <2>1 DEF ActsOn, Meant
<1>3. CASE call[t].of = "all" /\ index[t] = ALL_ARENAS
  BY <1>3 DEF ActsOn, Meant
<1> QED
  BY <1>1, <1>2, <1>3 DEF KeySelected

\* TrimReclaims and PreviousWasInForce for one thread.
Reclaimed(t) ==
  Idle(t) /\ call[t].op \in {"trim", "purge"} /\ returned[t] = "ok" =>
    IF call[t].of = "this" THEN purged[t] \cap own[t] # {}
    ELSE Meant(t) \subseteq purged[t]

PreviousSeen(t) ==
  Idle(t) /\ call[t].op = "set_dirty_decay" /\ returned[t] = "ok" =>
    \E a \in Meant(t) : <<a, previous[t]>> \in inForce[t]

\* All that the invariant says of one thread.
ThreadIInv(t) ==
  /\ CallInProgress(t) /\ KeySelected(t) /\ CurrentIsOwn(t) /\ ExchangeSeen(t)
  /\ Reclaimed(t) /\ PreviousSeen(t)

\* The invariant, put together from its parts for each thread.
LEMMA ReclaimParts ==
  ReclaimIInv <=> ReclaimTypeOK /\ \A t \in Threads : ThreadIInv(t)
BY DEF ReclaimIInv, ThreadIInv, TrimReclaims, PreviousWasInForce, Reclaimed, PreviousSeen

LEMMA ReclaimPartsNext ==
  ASSUME ReclaimTypeOK', \A t \in Threads : ThreadIInv(t)'
  PROVE  ReclaimIInv'
BY DEF ReclaimIInv, ThreadIInv, TrimReclaims, PreviousWasInForce, Reclaimed, PreviousSeen

LEMMA ReclaimInitHolds ==
  ASSUME ReclaimInit
  PROVE  ReclaimIInv
<1> USE DEF ReclaimInit
<1>1. ReclaimTypeOK
  BY DEF ReclaimTypeOK, NoCall, Call
<1>2. ASSUME NEW t \in Threads
      PROVE  ThreadIInv(t)
  BY DEF ThreadIInv, CallInProgress, KeySelected, CurrentIsOwn, ExchangeSeen, Reclaimed,
         PreviousSeen, NoCall, Call
<1> QED
  BY <1>1, <1>2, ReclaimParts

\* What a step leaves of the intervals that thread u has seen in force.
Kept(u) ==
  /\ inForce[u] \subseteq inForce'[u]
  /\ pc[u] # "idle" => \A a \in Arenas : <<a, decayMs'[a]>> \in inForce'[u]

LEMMA KeptByOthers ==
  ASSUME ReclaimIInv, NEW u \in Threads, decayMs' = decayMs, inForce'[u] = inForce[u]
  PROVE  Kept(u)
BY ReclaimParts DEF ThreadIInv, ExchangeSeen, Kept

\* A write of jemalloc is seen by every thread that has a call in progress.
LEMMA KeptByWrites ==
  ASSUME ReclaimIInv, NEW t \in Threads, NEW a \in Arenas, Written(t, a)
  PROVE  /\ DOMAIN decayMs' = Arenas /\ DOMAIN inForce' = Threads
         /\ inForce'[t] = inForce[t]
         /\ \A u \in Threads : u # t => Kept(u)
<1>1. PICK v : v = call[t].value
  OBVIOUS
<1>2. /\ ReclaimTypeOK
      /\ decayMs' = [decayMs EXCEPT ![a] = v]
      /\ inForce' = [u \in Threads |->
           IF u = t \/ Idle(u) THEN inForce[u] ELSE inForce[u] \cup {<<a, v>>}]
  BY <1>1, ReclaimParts DEF Written
<1>3. ASSUME NEW u \in Threads, u # t
      PROVE  Kept(u)
  <2>1. CASE Idle(u)
    BY <1>2, <2>1 DEF Kept, Idle
  <2>2. CASE ~ Idle(u)
    <3>1. inForce'[u] = inForce[u] \cup {<<a, v>>}
      BY <1>2, <1>3, <2>2
    <3>2. \A b \in Arenas : <<b, decayMs[b]>> \in inForce[u]
      BY <2>2, ReclaimParts DEF ThreadIInv, ExchangeSeen, Idle
    <3>3. \A b \in Arenas : decayMs'[b] = IF b = a THEN v ELSE decayMs[b]
      BY <1>2 DEF ReclaimTypeOK
    <3> QED
      BY <3>1, <3>2, <3>3 DEF Kept
  <2> QED
    BY <2>1, <2>2
<1> QED
  BY <1>2, <1>3 DEF ReclaimTypeOK

\* A thread whose part of the state does not change, but for the arenas that
\* jemalloc moves it to, its own later choice of one, and the intervals that
\* others write.
LEMMA OthersRest ==
  ASSUME ReclaimIInv, NEW t \in Threads, Kept(t),
         pc'[t] = pc[t], call'[t] = call[t], index'[t] = index[t], returned'[t] = returned[t],
         previous'[t] = previous[t], purged'[t] = purged[t], own[t] \subseteq own'[t],
         own'[t] = own[t] \/ own'[t] = own[t] \cup {current'[t]},
         current'[t] = current[t] \/ pc[t] = "idle" \/ current'[t] \in own'[t]
  PROVE  ThreadIInv(t)'
<1>1. ThreadIInv(t)
  BY ReclaimParts
<1> USE DEF ThreadIInv
<1>2. CallInProgress(t)'
  BY <1>1 DEF CallInProgress
<1>3. KeySelected(t)'
  BY <1>1 DEF KeySelected
<1>4. CurrentIsOwn(t)'
  BY <1>1 DEF CurrentIsOwn
<1>5. ExchangeSeen(t)'
  BY <1>1 DEF ExchangeSeen, Kept
<1>6. Meant(t) \subseteq Meant(t)' /\ (call[t].of # "this" => Meant(t)' = Meant(t))
  BY DEF Meant
<1>7. Reclaimed(t)'
  BY <1>1, <1>6 DEF Reclaimed, Idle
<1>8. PreviousSeen(t)'
  BY <1>1, <1>6 DEF PreviousSeen, Idle, Kept
<1> QED
  BY <1>2, <1>3, <1>4, <1>5, <1>7, <1>8

\* The records of calls.
ReclaimCalls == [op : ReclaimOps \cup {"none"}, of : {"this", "arena", "all", "none"},
                 asked : Nat, value : Int]

\* A call begins.
LEMMA BeginKeeps ==
  ASSUME ReclaimIInv, NEW t \in Threads, NEW c \in ReclaimCalls, NEW i,
         NEW next \in {"current", "decay", "purge", "xchg"},
         Begin(t, c, i, next),
         next = "current" => c.of = "this" /\ c.op \in ReclaimOps,
         next = "decay" => c.op \in {"trim", "decay"},
         next = "purge" => c.op \in {"trim", "purge"},
         next = "xchg" => c.op = "set_dirty_decay",
         next # "current" => \/ c.of = "arena" /\ i = c.asked /\ i < ARENA_INDEX_LIMIT
                             \/ c.of = "all" /\ i = ALL_ARENAS
  PROVE  ReclaimIInv'
<1>1. PICK seen : seen = {<<a, decayMs[a]>> : a \in Arenas}
  OBVIOUS
<1>2. /\ ReclaimTypeOK
      /\ operations' = [operations EXCEPT ![t] = @ + 1]
      /\ call' = [call EXCEPT ![t] = c]
      /\ index' = [index EXCEPT ![t] = i]
      /\ pc' = [pc EXCEPT ![t] = next]
      /\ own' = [own EXCEPT ![t] = {current[t]}]
      /\ purged' = [purged EXCEPT ![t] = {}]
      /\ inForce' = [inForce EXCEPT ![t] = seen]
      /\ UNCHANGED <<current, decayMs, dirty, returned, previous>>
  BY <1>1, ReclaimParts DEF Begin, jemallocVars
<1>3. ReclaimTypeOK'
  BY <1>2 DEF ReclaimTypeOK, ReclaimCalls
<1>4. /\ pc'[t] = next /\ call'[t] = c /\ index'[t] = i /\ own'[t] = {current[t]}
      /\ inForce'[t] = seen
  BY <1>2 DEF ReclaimTypeOK
<1>5. ASSUME NEW u \in Threads
      PROVE  ThreadIInv(u)'
  <2>1. CASE u = t
    <3>1. CallInProgress(t)'
      BY <1>4 DEF CallInProgress
    <3>2. KeySelected(t)'
      BY <1>4 DEF KeySelected
    <3>3. CurrentIsOwn(t)'
      BY <1>2, <1>4 DEF CurrentIsOwn
    <3>4. ExchangeSeen(t)'
      BY <1>1, <1>2, <1>4 DEF ExchangeSeen
    <3>5. Reclaimed(t)' /\ PreviousSeen(t)'
      BY <1>4 DEF Reclaimed, PreviousSeen, Idle
    <3> QED
      BY <2>1, <3>1, <3>2, <3>3, <3>4, <3>5 DEF ThreadIInv
  <2>2. CASE u # t
    <3>1. /\ pc'[u] = pc[u] /\ call'[u] = call[u] /\ index'[u] = index[u]
          /\ returned'[u] = returned[u] /\ purged'[u] = purged[u] /\ own'[u] = own[u]
          /\ current'[u] = current[u] /\ previous'[u] = previous[u]
          /\ inForce'[u] = inForce[u]
      BY <1>2, <2>2 DEF ReclaimTypeOK
    <3>2. Kept(u)
      BY <1>2, <3>1, KeptByOthers
    <3> QED
      BY <3>1, <3>2, OthersRest
  <2> QED
    BY <2>1, <2>2
<1> QED
  BY <1>3, <1>5, ReclaimPartsNext

\* The five ways to call.
LEMMA CallsKeep ==
  ASSUME ReclaimIInv, NEW t \in Threads,
         \/ \E op \in Reclaiming :
              \/ this_reclaim(t, op) \/ arenas_reclaim(t, op)
              \/ \E i \in 0..ALL_ARENAS : arena_reclaim(t, i, op)
         \/ \E v \in Decays :
              \/ this_set_dirty_decay(t, v)
              \/ \E i \in 0..ALL_ARENAS : arena_set_dirty_decay(t, i, v)
  PROVE  ReclaimIInv'
<1> USE DEF ReclaimCalls, ReclaimOps, Call
<1>0. Decays \subseteq Int /\ ALL_ARENAS \in Nat
  BY ControlAssumption
<1>1. ASSUME NEW op \in Reclaiming
      PROVE  /\ op \in {"trim", "decay", "purge"}
             /\ First(op) \in {"decay", "purge"}
             /\ First(op) = "decay" => op \in {"trim", "decay"}
             /\ First(op) = "purge" => op \in {"trim", "purge"}
  BY DEF Reclaiming, First
<1>2. ASSUME NEW op \in Reclaiming, this_reclaim(t, op)
      PROVE  ReclaimIInv'
  <2>1. PICK c : c = Call(op, "this", 0, 0)
    OBVIOUS
  <2>2. c \in ReclaimCalls /\ c.of = "this" /\ c.op = op
    BY <1>1, <2>1
  <2>3. Begin(t, c, 0, "current")
    BY <1>2, <2>1, Zenon DEF this_reclaim
  <2> QED
    BY <1>1, <2>2, <2>3, BeginKeeps
<1>3. ASSUME NEW op \in Reclaiming, arenas_reclaim(t, op)
      PROVE  ReclaimIInv'
  <2>1. PICK c : c = Call(op, "all", 0, 0)
    OBVIOUS
  <2>2. c \in ReclaimCalls /\ c.of = "all" /\ c.op = op
    BY <1>1, <2>1
  <2>3. PICK next : next = First(op)
    OBVIOUS
  <2>4. Begin(t, c, ALL_ARENAS, next)
    BY <1>3, <2>1, <2>3, Zenon DEF arenas_reclaim
  <2> QED
    BY <1>1, <2>2, <2>3, <2>4, BeginKeeps
<1>4. ASSUME NEW op \in Reclaiming, NEW i \in 0..ALL_ARENAS,
             arena_reclaim(t, i, op)
      PROVE  ReclaimIInv'
  <2>1. PICK c : c = Call(op, "arena", i, 0)
    OBVIOUS
  <2>2. c \in ReclaimCalls /\ c.of = "arena" /\ c.op = op /\ c.asked = i
    BY <1>0, <1>1, <2>1
  <2>3. PICK next : next = First(op)
    OBVIOUS
  <2>4. Begin(t, c, i, next)
    BY <1>4, <2>1, <2>3, Zenon DEF arena_reclaim
  <2>5. i < ARENA_INDEX_LIMIT
    BY <1>4 DEF arena_reclaim, validated_index
  <2> QED
    BY <1>1, <2>2, <2>3, <2>4, <2>5, BeginKeeps
<1>5. ASSUME NEW v \in Decays, this_set_dirty_decay(t, v)
      PROVE  ReclaimIInv'
  <2>1. PICK c : c = Call("set_dirty_decay", "this", 0, v)
    OBVIOUS
  <2>2. c \in ReclaimCalls /\ c.of = "this" /\ c.op = "set_dirty_decay"
    BY <1>0, <2>1
  <2>3. Begin(t, c, 0, "current")
    BY <1>5, <2>1, Zenon DEF this_set_dirty_decay
  <2> QED
    BY <2>2, <2>3, BeginKeeps
<1>6. ASSUME NEW v \in Decays, NEW i \in 0..ALL_ARENAS,
             arena_set_dirty_decay(t, i, v)
      PROVE  ReclaimIInv'
  <2>1. PICK c : c = Call("set_dirty_decay", "arena", i, v)
    OBVIOUS
  <2>2. /\ c \in ReclaimCalls /\ c.of = "arena" /\ c.op = "set_dirty_decay"
        /\ c.asked = i
    BY <1>0, <2>1
  <2>3. Begin(t, c, i, "xchg")
    BY <1>6, <2>1, Zenon DEF arena_set_dirty_decay
  <2>4. i < ARENA_INDEX_LIMIT
    BY <1>6 DEF arena_set_dirty_decay, validated_index
  <2> QED
    BY <2>2, <2>3, <2>4, BeginKeeps
<1> QED
  BY <1>2, <1>3, <1>4, <1>5, <1>6

\* The step of a thread that leaves `thread.arena` alone.
LEMMA OwnStepKeeps ==
  ASSUME ReclaimIInv, ReclaimTypeOK', NEW t \in Threads,
         UNCHANGED <<current, own>>,
         \A u \in Threads \ {t} :
           /\ pc'[u] = pc[u] /\ call'[u] = call[u] /\ index'[u] = index[u]
           /\ returned'[u] = returned[u] /\ previous'[u] = previous[u]
           /\ purged'[u] = purged[u] /\ Kept(u),
         ThreadIInv(t)'
  PROVE  ReclaimIInv'
<1>1. ASSUME NEW u \in Threads
      PROVE  ThreadIInv(u)'
  <2>1. CASE u = t
    BY <2>1
  <2>2. CASE u # t
    BY <2>2, OthersRest
  <2> QED
    BY <2>1, <2>2
<1> QED
  BY <1>1, ReclaimPartsNext

\* A step that reads `thread.arena`, decays or purges.
LEMMA ReclaimStepsKeep ==
  ASSUME ReclaimIInv, NEW t \in Threads,
         \/ Current(t) \/ decay(t) \/ purge(t)
  PROVE  ReclaimIInv'
<1>0. UNCHANGED <<decayMs, inForce>>
  BY DEF Current, decay, purge, jemallocVars, ghosts
<1>1. /\ ReclaimTypeOK /\ CallInProgress(t) /\ KeySelected(t) /\ CurrentIsOwn(t)
      /\ ExchangeSeen(t) /\ \A u \in Threads : Kept(u)
  BY <1>0, KeptByOthers DEF ReclaimIInv
<1>2. CASE Current(t)
  <2>1. pc[t] = "current" /\ call[t].of = "this" /\ call[t].op \in ReclaimOps
    BY <1>1, <1>2 DEF Current, CallInProgress
  <2>2. /\ index' = [index EXCEPT ![t] = current[t]]
        /\ pc' = [pc EXCEPT ![t] = First(call[t].op)]
        /\ UNCHANGED <<current, decayMs, dirty, call, returned, previous, operations, own,
                       purged, inForce>>
    BY <1>2 DEF Current, select_current, jemallocVars, ghosts
  <2>3. PICK next : next = First(call[t].op)
    OBVIOUS
  <2>4. /\ next \in {"decay", "purge", "xchg"}
        /\ next = "decay" => call[t].op \in {"trim", "decay"}
        /\ next = "purge" => call[t].op \in {"trim", "purge"}
        /\ next = "xchg" => call[t].op = "set_dirty_decay"
    BY <2>1, <2>3 DEF ReclaimOps, Reclaiming, First
  <2>5. pc' = [pc EXCEPT ![t] = next]
    BY <2>2, <2>3
  <2>6. /\ pc'[t] = next /\ index'[t] = current[t] /\ call'[t] = call[t]
        /\ own'[t] = own[t] /\ current'[t] = current[t]
    BY <1>1, <2>2, <2>5 DEF ReclaimTypeOK
  <2>7. ReclaimTypeOK'
    BY <1>1, <2>2, <2>4, <2>5 DEF ReclaimTypeOK
  <2>8. current[t] \in own[t]
    BY <1>1, <2>1 DEF CurrentIsOwn
  <2>9. ExchangeSeen(t)'
    BY <1>0, <1>1, <2>1, <2>4, <2>6 DEF ExchangeSeen
  <2>10. ThreadIInv(t)'
    BY <2>1, <2>4, <2>6, <2>8, <2>9
    DEF ThreadIInv, CallInProgress, KeySelected, CurrentIsOwn, Reclaimed, PreviousSeen, Idle
  <2> QED
    BY <1>1, <2>2, <2>5, <2>7, <2>10, OwnStepKeeps DEF ReclaimTypeOK
<1>3. CASE decay(t)
  <2>1. /\ pc[t] = "decay"
        /\ UNCHANGED <<current, decayMs, call, index, previous, operations, own, purged, inForce>>
    BY <1>3 DEF decay, ghosts
  <2>2. CASE call[t].op = "trim"
    <3>1. pc' = [pc EXCEPT ![t] = "purge"] /\ returned' = returned
      BY <1>3, <2>2 DEF decay
    <3>2. /\ pc'[t] = "purge" /\ call'[t] = call[t] /\ index'[t] = index[t]
          /\ own'[t] = own[t] /\ current'[t] = current[t]
      BY <1>1, <2>1, <3>1 DEF ReclaimTypeOK
    <3>3. ReclaimTypeOK'
      BY <1>1, <2>1, <3>1 DEF ReclaimTypeOK
    <3>4. ExchangeSeen(t)'
      BY <1>0, <1>1, <2>1, <3>2 DEF ExchangeSeen
    <3>5. ThreadIInv(t)'
      BY <1>1, <2>1, <2>2, <3>2, <3>4
      DEF ThreadIInv, CallInProgress, KeySelected, CurrentIsOwn, Reclaimed, PreviousSeen, Idle
    <3> QED
      BY <1>1, <2>1, <3>1, <3>3, <3>5, OwnStepKeeps DEF ReclaimTypeOK
  <2>3. CASE call[t].op # "trim"
    <3>1. /\ pc' = [pc EXCEPT ![t] = "idle"] /\ returned' = [returned EXCEPT ![t] = "ok"]
          /\ call[t].op = "decay"
      BY <1>1, <1>3, <2>1, <2>3 DEF decay, Return, CallInProgress
    <3>2. pc'[t] = "idle" /\ call'[t] = call[t]
      BY <1>1, <2>1, <3>1 DEF ReclaimTypeOK
    <3>3. ReclaimTypeOK'
      BY <1>1, <2>1, <3>1 DEF ReclaimTypeOK
    <3>4. ThreadIInv(t)'
      BY <3>1, <3>2 DEF ThreadIInv, CallInProgress, KeySelected, CurrentIsOwn, ExchangeSeen,
                        Reclaimed, PreviousSeen
    <3> QED
      BY <1>1, <2>1, <3>1, <3>3, <3>4, OwnStepKeeps DEF ReclaimTypeOK
  <2> QED
    BY <2>2, <2>3
<1>4. CASE purge(t)
  <2> DEFINE targets == ActsOn(index[t])
  <2>1. /\ pc[t] = "purge" /\ targets # {}
        /\ purged' = [purged EXCEPT ![t] = @ \cup targets]
        /\ pc' = [pc EXCEPT ![t] = "idle"] /\ returned' = [returned EXCEPT ![t] = "ok"]
        /\ UNCHANGED <<current, decayMs, call, index, previous, operations, own, inForce>>
    BY <1>4 DEF purge, Return
  <2>2. /\ targets \subseteq Meant(t)
        /\ call[t].of # "this" => targets = Meant(t)
        /\ call[t].of = "this" => Meant(t) = own[t]
    BY <1>1, <2>1, TargetsAreMeant
  <2>3. targets \subseteq Arenas
    BY DEF ActsOn
  <2> HIDE DEF targets
  <2>4. /\ pc'[t] = "idle" /\ call'[t] = call[t] /\ own'[t] = own[t]
        /\ purged'[t] = purged[t] \cup targets
    BY <1>1, <2>1 DEF ReclaimTypeOK
  <2>5. ReclaimTypeOK'
    <3>1. purged' \in [Threads -> SUBSET Arenas]
      BY <1>1, <2>1, <2>3 DEF ReclaimTypeOK
    <3> QED
      BY <1>1, <2>1, <3>1 DEF ReclaimTypeOK
  <2>6. Meant(t)' = Meant(t)
    BY <2>4 DEF Meant
  <2>7. Reclaimed(t)'
    <3>1. CASE call[t].of = "this"
      BY <2>1, <2>2, <2>4, <3>1 DEF Reclaimed
    <3>2. CASE call[t].of # "this"
      BY <2>2, <2>4, <2>6, <3>2 DEF Reclaimed
    <3> QED
      BY <3>1, <3>2
  <2>8. call[t].op \in {"trim", "purge"}
    BY <1>1, <2>1 DEF CallInProgress
  <2>9. ThreadIInv(t)'
    BY <1>1, <2>4, <2>7, <2>8
    DEF ThreadIInv, CallInProgress, KeySelected, CurrentIsOwn, ExchangeSeen, PreviousSeen
  <2> QED
    BY <1>1, <2>1, <2>5, <2>9, OwnStepKeeps DEF ReclaimTypeOK
<1> QED
  BY <1>2, <1>3, <1>4

\* A call that fails, whatever it did.
LEMMA FailKeeps ==
  ASSUME ReclaimIInv, NEW t \in Threads, Fail(t)
  PROVE  ReclaimIInv'
<1>1. /\ ReclaimTypeOK /\ ExchangeSeen(t)
      /\ pc' = [pc EXCEPT ![t] = "idle"] /\ returned' = [returned EXCEPT ![t] = "err"]
      /\ UNCHANGED <<current, call, index, previous, operations, own, purged>>
      /\ DoneInPart(t)
  BY DEF ReclaimIInv, Fail, Return
<1>2. /\ DOMAIN decayMs' = Arenas /\ DOMAIN inForce' = Threads
      /\ \A u \in Threads : u # t => Kept(u)
  <2>1. CASE UNCHANGED <<decayMs, inForce>>
    BY <1>1, <2>1, KeptByOthers DEF ReclaimTypeOK
  <2>2. CASE pc[t] = "set" /\ Written(t, index[t])
    <3>1. PICK a \in Arenas : a = index[t]
      BY <1>1, <2>2 DEF ExchangeSeen
    <3> QED
      BY <2>2, <3>1, KeptByWrites
  <2> QED
    BY <1>1, <2>1, <2>2 DEF DoneInPart
<1>3. pc'[t] = "idle" /\ returned'[t] = "err"
  BY <1>1 DEF ReclaimTypeOK
<1>4. ReclaimTypeOK'
  BY <1>1, <1>2 DEF ReclaimTypeOK
<1>5. ThreadIInv(t)'
  BY <1>3 DEF ThreadIInv, CallInProgress, KeySelected, CurrentIsOwn, ExchangeSeen, Reclaimed,
              PreviousSeen
<1> QED
  BY <1>1, <1>2, <1>4, <1>5, OwnStepKeeps DEF ReclaimTypeOK

\* The exchange of an interval: its read, and its write.
LEMMA ExchangeKeeps ==
  ASSUME ReclaimIInv, NEW t \in Threads, xchg(t) \/ Replace(t)
  PROVE  ReclaimIInv'
<1>1. /\ ReclaimTypeOK /\ CallInProgress(t) /\ KeySelected(t) /\ CurrentIsOwn(t)
      /\ ExchangeSeen(t)
  BY DEF ReclaimIInv
<1>2. PICK a : a = index[t]
  OBVIOUS
<1>3. CASE xchg(t)
  <2>1. PICK old : old = decayMs[a]
    OBVIOUS
  <2>2. /\ pc[t] = "xchg" /\ a \in Arenas
        /\ previous' = [previous EXCEPT ![t] = old]
        /\ pc' = [pc EXCEPT ![t] = "set"]
        /\ UNCHANGED <<current, decayMs, dirty, call, index, returned, operations, own, purged,
                       inForce>>
    BY <1>2, <1>3, <2>1 DEF xchg, jemallocVars, ghosts
  <2>3. \A u \in Threads : Kept(u)
    BY <2>2, KeptByOthers
  <2>4. pc'[t] = "set" /\ previous'[t] = old
    BY <1>1, <2>2 DEF ReclaimTypeOK
  <2>5. ReclaimTypeOK'
    BY <1>1, <2>2 DEF ReclaimTypeOK
  <2>6. ExchangeSeen(t)'
    BY <1>1, <1>2, <2>1, <2>2, <2>4 DEF ExchangeSeen
  <2>7. ThreadIInv(t)'
    BY <1>1, <2>2, <2>4, <2>6
    DEF ThreadIInv, CallInProgress, KeySelected, CurrentIsOwn, Reclaimed, PreviousSeen, Idle
  <2> QED
    BY <1>1, <2>2, <2>3, <2>5, <2>7, OwnStepKeeps DEF ReclaimTypeOK
<1>4. CASE Replace(t)
  <2>1. /\ pc[t] = "set" /\ Written(t, a)
        /\ pc' = [pc EXCEPT ![t] = "idle"] /\ returned' = [returned EXCEPT ![t] = "ok"]
        /\ UNCHANGED <<current, call, index, previous, operations, own, purged>>
    BY <1>2, <1>4 DEF Replace, Return
  <2>2. a \in Arenas /\ <<a, previous[t]>> \in inForce[t]
    BY <1>1, <1>2, <2>1 DEF ExchangeSeen
  <2>3. /\ DOMAIN decayMs' = Arenas /\ DOMAIN inForce' = Threads
        /\ inForce'[t] = inForce[t]
        /\ \A u \in Threads : u # t => Kept(u)
    BY <2>1, <2>2, KeptByWrites
  <2>4. pc'[t] = "idle" /\ call[t].op = "set_dirty_decay"
    BY <1>1, <2>1 DEF ReclaimTypeOK, CallInProgress
  <2>5. ReclaimTypeOK'
    BY <1>1, <2>1, <2>3 DEF ReclaimTypeOK
  <2>6. a \in ActsOn(index[t])
    BY <1>2, <2>2 DEF ActsOn
  <2>7. a \in Meant(t)'
    BY <1>1, <2>1, <2>6, TargetsAreMeant DEF Meant
  <2>8. PreviousSeen(t)'
    BY <2>1, <2>2, <2>3, <2>7 DEF PreviousSeen
  <2>9. ThreadIInv(t)'
    BY <2>1, <2>4, <2>8
    DEF ThreadIInv, CallInProgress, KeySelected, CurrentIsOwn, ExchangeSeen, Reclaimed
  <2> QED
    BY <1>1, <2>1, <2>3, <2>5, <2>9, OwnStepKeeps DEF ReclaimTypeOK
<1> QED
  BY <1>3, <1>4

\* Steps outside the operations.
LEMMA WorldKeeps ==
  ASSUME ReclaimIInv,
         \/ \E t \in Threads, a \in Arenas :
              set_arena(t, a) \/ Migrate(t, a)
         \/ \E a \in Arenas : FreePages(a)
         \/ UNCHANGED reclaimVars
  PROVE  ReclaimIInv'
<1> USE DEF callVars, ghosts, jemallocVars
<1>1. ReclaimTypeOK
  BY DEF ReclaimIInv
<1>2. ASSUME UNCHANGED <<decayMs, pc, call, index, returned, previous, operations, purged, inForce>>,
             ReclaimTypeOK',
             \A u \in Threads :
               /\ own'[u] = own[u] \/ own'[u] = own[u] \cup {current'[u]}
               /\ \/ current'[u] = current[u] \/ pc[u] = "idle"
                  \/ current'[u] \in own'[u]
      PROVE  ReclaimIInv'
  <2>1. ASSUME NEW u \in Threads
        PROVE  ThreadIInv(u)'
    <3>1. Kept(u)
      BY <1>2, KeptByOthers
    <3> QED
      BY <1>2, <3>1, OthersRest
  <2> QED
    BY <1>2, <2>1, ReclaimPartsNext
<1>3. ASSUME NEW t \in Threads, NEW a \in Arenas, set_arena(t, a)
      PROVE  ReclaimIInv'
  <2>1. /\ pc[t] = "idle" /\ current' = [current EXCEPT ![t] = a]
        /\ UNCHANGED <<decayMs, dirty, pc, call, index, returned, previous, operations, own,
                       purged, inForce>>
    BY <1>3 DEF set_arena, Idle
  <2>2. ReclaimTypeOK'
    BY <1>1, <2>1 DEF ReclaimTypeOK
  <2>3. \A u \in Threads : own'[u] = own[u] /\ (current'[u] = current[u] \/ pc[u] = "idle")
    BY <1>1, <2>1 DEF ReclaimTypeOK
  <2> QED
    BY <1>2, <2>1, <2>2, <2>3
<1>4. ASSUME NEW t \in Threads, NEW a \in Arenas, Migrate(t, a)
      PROVE  ReclaimIInv'
  <2>1. /\ current' = [current EXCEPT ![t] = a]
        /\ own' = [own EXCEPT ![t] = IF Idle(t) THEN @ ELSE @ \cup {a}]
        /\ UNCHANGED <<decayMs, dirty, pc, call, index, returned, previous, operations, purged,
                       inForce>>
    BY <1>4 DEF Migrate
  <2>2. ReclaimTypeOK'
    BY <1>1, <2>1 DEF ReclaimTypeOK
  <2>3. \A u \in Threads :
          \/ u = t /\ current'[u] = a /\ own'[u] = own[u] \cup {a}
          \/ u = t /\ pc[u] = "idle" /\ own'[u] = own[u]
          \/ current'[u] = current[u] /\ own'[u] = own[u]
    BY <1>1, <2>1 DEF ReclaimTypeOK, Idle
  <2> QED
    BY <1>2, <2>1, <2>2, <2>3
<1>5. ASSUME NEW a \in Arenas, FreePages(a)
      PROVE  ReclaimIInv'
  <2>1. UNCHANGED <<current, decayMs, pc, call, index, returned, previous, operations, own,
                    purged, inForce>>
    BY <1>5 DEF FreePages
  <2>2. ReclaimTypeOK'
    BY <1>1, <2>1 DEF ReclaimTypeOK
  <2> QED
    BY <1>2, <2>1, <2>2
<1>6. CASE UNCHANGED reclaimVars
  <2>1. UNCHANGED <<current, decayMs, pc, call, index, returned, previous, operations, own,
                    purged, inForce>>
    BY <1>6 DEF reclaimVars
  <2>2. ReclaimTypeOK'
    BY <1>1, <2>1 DEF ReclaimTypeOK
  <2> QED
    BY <1>2, <2>1, <2>2
<1> QED
  BY <1>3, <1>4, <1>5, <1>6

LEMMA ReclaimStep ==
  ASSUME ReclaimIInv, [ReclaimNext]_reclaimVars
  PROVE  ReclaimIInv'
BY CallsKeep, ReclaimStepsKeep, FailKeeps, ExchangeKeeps, WorldKeeps DEF ReclaimNext

\* However control calls interleave and fail, a trim or purge that succeeds
\* has purged what it was for.
THEOREM TrimsReclaim == ReclaimSpec => []TrimReclaims
<1>1. ReclaimIInv => TrimReclaims
  BY DEF ReclaimIInv
<1> QED
  BY <1>1, ReclaimInitHolds, ReclaimStep, PTL DEF ReclaimSpec

\* What a successful exchange returns was in force during the call on the
\* arena that was meant, although others write between jemalloc's read and its
\* write, and `thread.arena` moves between its reading and the exchange.
THEOREM PreviousIsPrevious == ReclaimSpec => []PreviousWasInForce
<1>1. ReclaimIInv => PreviousWasInForce
  BY DEF ReclaimIInv
<1> QED
  BY <1>1, ReclaimInitHolds, ReclaimStep, PTL DEF ReclaimSpec

\* Every step acts where it was meant to: only control calls, failed ones
\* included, take pages away or change an interval.
LEMMA StepActsWhereMeant ==
  ASSUME ReclaimIInv, ReclaimNext
  PROVE  ActsWhereMeant
<1> SUFFICES ASSUME NEW a \in Arenas,
                    (a \in dirty /\ a \notin dirty') \/ decayMs'[a] # decayMs[a]
             PROVE  \E t \in Threads : pc'[t] # pc[t] /\ a \in Meant(t)
  BY DEF ActsWhereMeant
<1> USE DEF callVars, ghosts, jemallocVars
<1>1. /\ ReclaimTypeOK
      /\ \A t \in Threads : CallInProgress(t) /\ KeySelected(t) /\ ExchangeSeen(t)
  BY DEF ReclaimIInv
<1>2. PICK t \in Threads : decay(t) \/ purge(t) \/ Replace(t) \/ Fail(t)
  <2>1. \A t \in Threads : \A a1, i, next : ~ Begin(t, a1, i, next)
    BY DEF Begin
  <2>2. \A t \in Threads : ~ Current(t) /\ ~ xchg(t)
    BY DEF Current, xchg
  <2>3. \A t \in Threads, b \in Arenas :
          ~ set_arena(t, b) /\ ~ Migrate(t, b)
    BY DEF set_arena, Migrate
  <2>4. \A b \in Arenas : ~ FreePages(b)
    BY DEF FreePages
  <2> QED
    BY <2>1, <2>2, <2>3, <2>4
    DEF ReclaimNext, this_reclaim, arenas_reclaim, arena_reclaim,
        this_set_dirty_decay, arena_set_dirty_decay
<1>3. CASE decay(t)
  <2>1. pc[t] = "decay" /\ pc'[t] \in {"idle", "purge"} /\ decayMs' = decayMs
    BY <1>1, <1>3 DEF decay, Return, ReclaimTypeOK
  <2>2. \E some \in SUBSET ActsOn(index[t]) : dirty' = dirty \ some
    BY <1>3 DEF decay
  <2>3. a \in ActsOn(index[t])
    BY <2>1, <2>2
  <2> QED
    BY <1>1, <2>1, <2>3, TargetsAreMeant
<1>4. CASE purge(t)
  <2>1. pc[t] = "purge" /\ pc'[t] = "idle" /\ decayMs' = decayMs
    BY <1>1, <1>4 DEF purge, Return, ReclaimTypeOK
  <2>2. dirty' = dirty \ ActsOn(index[t])
    BY <1>4 DEF purge
  <2>3. a \in ActsOn(index[t])
    BY <2>1, <2>2
  <2> QED
    BY <1>1, <2>1, <2>3, TargetsAreMeant
<1>5. ASSUME pc[t] = "set", pc'[t] = "idle", Written(t, index[t])
      PROVE  \E u \in Threads : pc'[u] # pc[u] /\ a \in Meant(u)
  <2>1. /\ dirty' = dirty \/ dirty' = dirty \ {index[t]}
        /\ decayMs' = [decayMs EXCEPT ![index[t]] = call[t].value]
    BY <1>5 DEF Written
  <2>2. a = index[t]
    BY <1>1, <2>1 DEF ReclaimTypeOK
  <2>3. a \in ActsOn(index[t])
    BY <2>2 DEF ActsOn
  <2> QED
    BY <1>1, <1>5, <2>3, TargetsAreMeant
<1>6. CASE Replace(t)
  <2>1. pc[t] = "set" /\ pc'[t] = "idle" /\ Written(t, index[t])
    BY <1>1, <1>6 DEF Replace, Return, ReclaimTypeOK
  <2> QED
    BY <1>5, <2>1
<1>7. CASE Fail(t)
  <2>1. pc[t] # "idle" /\ pc'[t] = "idle" /\ DoneInPart(t)
    BY <1>1, <1>7 DEF Fail, Return, Idle, ReclaimTypeOK
  <2>2. CASE pc[t] = "set" /\ Written(t, index[t])
    BY <1>5, <2>1, <2>2
  <2>3. CASE /\ pc[t] \in {"decay", "purge"} /\ decayMs' = decayMs
             /\ \E some \in SUBSET ActsOn(index[t]) : dirty' = dirty \ some
    <3>1. a \in ActsOn(index[t])
      BY <2>3
    <3> QED
      BY <1>1, <2>1, <2>3, <3>1, TargetsAreMeant
  <2> QED
    BY <2>1, <2>2, <2>3 DEF DoneInPart
<1> QED
  BY <1>2, <1>3, <1>4, <1>6, <1>7

\* Pages are reclaimed and intervals changed only in arenas that the caller
\* meant, whatever jemalloc's own moves of a thread do to `thread.arena`
\* between the read of it and the control call.
THEOREM ReclaimsWhatWasMeant ==
  ReclaimSpec => OnlyWhatWasMeant
<1>1. ReclaimIInv /\ [ReclaimNext]_reclaimVars =>
        [ActsWhereMeant]_reclaimVars
  BY StepActsWhereMeant
<1> QED
  BY <1>1, ReclaimInitHolds, ReclaimStep, PTL DEF ReclaimSpec, OnlyWhatWasMeant

-----------------------------------------------------------------------------
(* The settings of arenas *)

\* The names an arena can have: what fits of those that are given to one.
StoredNames == {<<>>} \cup {Truncated(n, ARENA_NAME_LEN) : n \in Names}

\* A name that is stored is a C string that leaves room for its terminator.
LEMMA StoredNameFacts ==
  ASSUME NEW n \in StoredNames
  PROVE  /\ n \in Seq({n[i] : i \in DOMAIN n})
         /\ Len(n) \in Nat /\ Len(n) < ARENA_NAME_LEN
         /\ \A i \in 1..Len(n) : n[i] # NUL
<1>1. ARENA_NAME_LEN \in Nat \ {0}
  BY ArenaSettingsAssumption
<1>2. CASE n = <<>>
  BY <1>1, <1>2
<1>3. CASE n # <<>>
  <2>1. PICK full \in Names : n = Truncated(full, ARENA_NAME_LEN)
    BY <1>3 DEF StoredNames
  <2>2. /\ full \in Seq({full[i] : i \in DOMAIN full})
        /\ \A i \in DOMAIN full : full[i] # NUL
    BY ArenaSettingsAssumption
  <2>3. PICK k : k = Min({Len(full), ARENA_NAME_LEN - 1})
    OBVIOUS
  <2>4. Len(full) \in Nat /\ ARENA_NAME_LEN - 1 \in Nat
    BY <1>1, <2>2
  <2>5. k \in Nat /\ k <= Len(full) /\ k <= ARENA_NAME_LEN - 1
    <3>1. \E x \in {Len(full), ARENA_NAME_LEN - 1} :
            \A y \in {Len(full), ARENA_NAME_LEN - 1} : x <= y
      BY <2>4
    <3> QED
      BY <2>3, <2>4, <3>1 DEF Min
  <2>6. n = SubSeq(full, 1, k)
    BY <2>1, <2>3 DEF Truncated
  <2>7. /\ Len(n) = k /\ n \in Seq({full[i] : i \in DOMAIN full})
        /\ \A i \in 1..k : n[i] = full[i]
    BY <2>2, <2>5, <2>6, SubSeqProperties
  <2>8. DOMAIN n = 1..k /\ DOMAIN full = 1..Len(full)
    BY <2>2, <2>7
  <2>9. n \in [1..k -> {n[i] : i \in DOMAIN n}]
    BY <2>7, <2>8
  <2>10. n \in Seq({n[i] : i \in DOMAIN n})
    <3>1. PICK T : T = {n[i] : i \in DOMAIN n}
      OBVIOUS
    <3>2. n \in [1..k -> T]
      BY <2>9, <3>1
    <3> QED
      BY <2>5, <3>1, <3>2, SeqDef
  <2>11. \A i \in 1..Len(n) : n[i] # NUL
    BY <2>2, <2>4, <2>5, <2>7, <2>8
  <2> QED
    BY <1>1, <2>5, <2>7, <2>10, <2>11
<1> QED
  BY <1>2, <1>3

\* What is read through a buffer that a stored name was copied into.
LEMMA CopiedNameFits ==
  ASSUME NEW n \in StoredNames, NEW buffer,
         buffer = [i \in DOMAIN ArenaName |->
                     IF i <= Len(n) THEN n[i] ELSE NUL]
  PROVE  /\ 1..(Len(n) + 1) \subseteq DOMAIN buffer
         /\ \E i \in DOMAIN buffer : buffer[i] = NUL
         /\ as_bytes(buffer) = n
<1> DEFINE S == {n[i] : i \in DOMAIN n} \cup {NUL}
           len == Len(n)
           nul == {i \in DOMAIN buffer : buffer[i] = NUL}
<1>1. /\ n \in Seq({n[i] : i \in DOMAIN n})
      /\ len \in Nat /\ len < ARENA_NAME_LEN
      /\ \A i \in 1..len : n[i] # NUL
      /\ ARENA_NAME_LEN \in Nat
  BY StoredNameFacts, ArenaSettingsAssumption
<1>2. /\ DOMAIN buffer = 1..ARENA_NAME_LEN
      /\ \A i \in 1..ARENA_NAME_LEN :
           buffer[i] = IF i <= len THEN n[i] ELSE NUL
  BY DEF ArenaName
<1>3. DOMAIN n = 1..len
  BY <1>1
<1>4. buffer \in [1..ARENA_NAME_LEN -> S]
  BY <1>1, <1>2, <1>3
<1>5. \A i \in 1..len : buffer[i] \in S
  BY <1>1, <1>4
<1>6. len + 1 \in nul /\ \A i \in nul : len + 1 <= i
  BY <1>1, <1>2
<1>7. Min(nul) = len + 1
  <2>1. \A x \in nul : (\A y \in nul : x <= y) => x = len + 1
    BY <1>1, <1>2, <1>6
  <2> QED
    BY <1>6, <2>1 DEF Min
<1>8. as_bytes(buffer) = SubSeq(buffer, 1, len)
  <2>1. nul # {}
    BY <1>6
  <2>2. as_bytes(buffer) = SubSeq(buffer, 1, Min(nul) - 1)
    BY <2>1 DEF as_bytes
  <2>3. Min(nul) - 1 = len
    BY <1>1, <1>7
  <2> HIDE DEF nul, len
  <2> QED
    BY <2>2, <2>3
<1>9. SubSeq(buffer, 1, len) = n
  <2>1. /\ SubSeq(buffer, 1, len) \in Seq(S) /\ Len(SubSeq(buffer, 1, len)) = len
        /\ \A i \in 1..len : SubSeq(buffer, 1, len)[i] = n[i]
    BY <1>1, <1>2, <1>5, SubSeqProperties
  <2>2. n \in Seq(S)
    BY <1>1, <1>3, SeqDef
  <2> QED
    BY <1>1, <2>1, <2>2, SeqEqual
<1>10. 1..(len + 1) \subseteq DOMAIN buffer
  BY <1>1, <1>2
<1>11. \E i \in DOMAIN buffer : buffer[i] = NUL
  BY <1>6
<1> QED
  BY <1>8, <1>9, <1>10, <1>11

\* The settings of an arena.
DecayValues == Intervals \cup {0}
DssValues == {"disabled", "primary", "secondary"}
LimitValues == {0} \cup {Max({c \in Classes : c <= n}) : n \in Limits}

ArenaRecords ==
  [id : Nat, dirty : DecayValues, muzzy : DecayValues, dss : DssValues,
   limit : LimitValues, name : StoredNames]

ArenaTypeOK ==
  /\ nextId \in Nat /\ nextId >= 2
  /\ arena \in [Indices -> ArenaRecords]
  /\ \A i \in Indices : arena[i].id < nextId
  /\ defaults \in [dirty : DecayValues, muzzy : DecayValues, dss : DssValues]
  /\ handle \in [Handles -> [index : Indices, id : Nat]]
  /\ wanted \in [1..(nextId - 1) -> ArenaRecords]

\* A handle that is in use is of an arena that is there: by the contract no
\* handle is kept when its arena goes.
HandlesAreLive ==
  \A h \in Handles : handle[h] # Free =>
    handle[h].id # 0 /\ arena[handle[h].index].id = handle[h].id

\* An arena has one index.
OneIndex ==
  \A i, j \in Indices : arena[i].id # 0 /\ arena[i].id = arena[j].id => i = j

\* The inductive invariant.  A setting goes to the arena at the handle's index
\* and is meant for the one with the handle's id: HandlesAreLive says that they
\* are the same, and OneIndex that no other index has it.
SettingsIInv ==
  /\ ArenaTypeOK
  /\ HandlesAreLive
  /\ OneIndex
  /\ SettingsAreTheArenas
  /\ NamesFit

\* A setting is one of the fields and its value is of that field.
Setting(s, v) ==
  \/ s \in Kinds /\ v \in DecayValues
  \/ s = "dss" /\ v \in DssValues
  \/ s = "limit" /\ v \in LimitValues
  \/ s = "name" /\ v \in StoredNames

Updated(r, s, v) == [r EXCEPT ![s] = v]

\* An arena with another value for a setting is the same arena.
LEMMA UpdatedFacts ==
  ASSUME NEW r \in ArenaRecords, NEW s, NEW v, Setting(s, v)
  PROVE  Updated(r, s, v) \in ArenaRecords /\ Updated(r, s, v).id = r.id
<1> USE DEF ArenaRecords, Updated
<1>1. CASE s = "dirty" /\ v \in DecayValues
  BY <1>1
<1>2. CASE s = "muzzy" /\ v \in DecayValues
  BY <1>2
<1>3. CASE s = "dss" /\ v \in DssValues
  BY <1>3
<1>4. CASE s = "limit" /\ v \in LimitValues
  BY <1>4
<1>5. CASE s = "name" /\ v \in StoredNames
  BY <1>5
<1> QED
  BY <1>1, <1>2, <1>3, <1>4, <1>5 DEF Setting, Kinds

LEMMA CreatedFacts ==
  ASSUME NEW id \in Nat,
         NEW d \in [dirty : DecayValues, muzzy : DecayValues, dss : DssValues]
  PROVE  Created(id, d) \in ArenaRecords /\ Created(id, d).id = id
BY DEF Created, ArenaRecords, LimitValues, StoredNames

LEMMA NoArenaFacts ==
  /\ InitialDefaults \in [dirty : DecayValues, muzzy : DecayValues, dss : DssValues]
  /\ NoArena \in ArenaRecords /\ NoArena.id = 0
<1>1. InitialDefaults \in [dirty : DecayValues, muzzy : DecayValues, dss : DssValues]
  BY DEF InitialDefaults, DecayValues, DssValues
<1> QED
  BY <1>1, CreatedFacts DEF NoArena

LEMMA SettingsInitHolds ==
  ASSUME SettingsInit
  PROVE  SettingsIInv
<1>1. PICK first : first = Created(1, InitialDefaults)
  OBVIOUS
<1>2. first \in ArenaRecords /\ first.id = 1
  BY <1>1, CreatedFacts, NoArenaFacts
<1>3. PICK none : none = NoArena
  OBVIOUS
<1>4. none \in ArenaRecords /\ none.id = 0
  BY <1>3, NoArenaFacts
<1>5. /\ arena = [i \in Indices |-> IF i = 0 THEN first ELSE none]
      /\ defaults = InitialDefaults /\ meant = defaults
      /\ handle = [h \in Handles |-> Free]
      /\ wanted = <<first>> /\ got = NoName /\ nextId = 2
  BY <1>1, <1>3 DEF SettingsInit
<1>6. ArenaTypeOK
  <2>1. wanted \in [1..1 -> ArenaRecords]
    BY <1>2, <1>5
  <2>2. handle \in [Handles -> [index : Indices, id : Nat]]
    BY <1>5, ArenaSettingsAssumption DEF Free, Indices
  <2>3. arena \in [Indices -> ArenaRecords]
    BY <1>2, <1>4, <1>5
  <2>4. \A i \in Indices : arena[i].id < 2
    BY <1>2, <1>4, <1>5
  <2> QED
    BY <1>5, <2>1, <2>2, <2>3, <2>4, NoArenaFacts DEF ArenaTypeOK
<1>7. HandlesAreLive
  BY <1>5 DEF HandlesAreLive
<1>8. OneIndex
  BY <1>2, <1>4, <1>5 DEF OneIndex
<1>9. SettingsAreTheArenas
  BY <1>2, <1>4, <1>5 DEF SettingsAreTheArenas
<1>10. NamesFit
  BY <1>5 DEF NamesFit
<1> QED
  BY <1>6, <1>7, <1>8, <1>9, <1>10 DEF SettingsIInv

\* An arena is created, with the defaults of the moment.
LEMMA CreateKeeps ==
  ASSUME SettingsIInv, NEW h \in Handles, create(h)
  PROVE  SettingsIInv'
<1>1. /\ ArenaTypeOK /\ HandlesAreLive /\ OneIndex
      /\ SettingsAreTheArenas /\ NamesFit
  BY DEF SettingsIInv
<1>2. PICK i \in Indices :
        /\ arena[i].id = 0
        /\ arena' = [arena EXCEPT ![i] = Created(nextId, defaults)]
        /\ handle' = [handle EXCEPT ![h] = [index |-> i, id |-> nextId]]
  BY DEF create
<1>3. /\ wanted' = Append(wanted, Created(nextId, meant))
      /\ nextId' = nextId + 1 /\ handle[h] = Free
      /\ UNCHANGED <<defaults, meant, got, calls>>
  BY DEF create
<1>4. PICK new : new = Created(nextId, defaults)
  OBVIOUS
<1>5. defaults = meant
  BY <1>1 DEF SettingsAreTheArenas
<1>6. new \in ArenaRecords /\ new.id = nextId
  BY <1>1, <1>4, CreatedFacts DEF ArenaTypeOK
<1>7. wanted \in Seq(ArenaRecords) /\ Len(wanted) = nextId - 1
  BY <1>1, SeqDef DEF ArenaTypeOK
<1>8. wanted' = Append(wanted, new)
  BY <1>3, <1>4, <1>5
<1>9. /\ wanted' \in Seq(ArenaRecords) /\ Len(wanted') = nextId /\ wanted'[nextId] = new
      /\ \A k \in 1..(nextId - 1) : wanted'[k] = wanted[k]
  BY <1>1, <1>6, <1>7, <1>8, AppendProperties DEF ArenaTypeOK
<1>10. arena' = [arena EXCEPT ![i] = new]
  BY <1>2, <1>4
<1>11. ArenaTypeOK'
  <2>1. wanted' \in [1..nextId -> ArenaRecords]
    BY <1>9
  <2>2. nextId' - 1 = nextId
    BY <1>1, <1>3 DEF ArenaTypeOK
  <2>3. arena' \in [Indices -> ArenaRecords]
    BY <1>1, <1>6, <1>10 DEF ArenaTypeOK
  <2>4. \A j \in Indices : arena'[j].id < nextId'
    BY <1>1, <1>3, <1>6, <1>10 DEF ArenaTypeOK, ArenaRecords
  <2>5. handle' \in [Handles -> [index : Indices, id : Nat]]
    BY <1>1, <1>2 DEF ArenaTypeOK
  <2> QED
    BY <1>1, <1>3, <2>1, <2>2, <2>3, <2>4, <2>5 DEF ArenaTypeOK
<1>12. HandlesAreLive'
  <2> SUFFICES ASSUME NEW g \in Handles, handle'[g] # Free
               PROVE  handle'[g].id # 0 /\ arena'[handle'[g].index].id = handle'[g].id
    BY DEF HandlesAreLive, Free
  <2>1. CASE g = h
    BY <1>1, <1>2, <1>6, <1>10, <2>1 DEF ArenaTypeOK
  <2>2. CASE g # h
    <3>1. handle'[g] = handle[g]
      BY <1>1, <1>2, <2>2 DEF ArenaTypeOK
    <3>2. /\ handle[g].id # 0 /\ arena[handle[g].index].id = handle[g].id
          /\ handle[g].index \in Indices
      BY <1>1, <3>1 DEF HandlesAreLive, ArenaTypeOK
    <3> QED
      BY <1>1, <1>2, <1>10, <3>1, <3>2 DEF ArenaTypeOK
  <2> QED
    BY <2>1, <2>2
<1>13. \A j \in Indices :
         \/ j = i /\ arena'[j] = new
         \/ j # i /\ arena'[j] = arena[j] /\ arena[j].id # nextId
  BY <1>1, <1>10 DEF ArenaTypeOK
<1>14. OneIndex'
  BY <1>1, <1>6, <1>13 DEF OneIndex
<1>15. SettingsAreTheArenas'
  <2> SUFFICES ASSUME NEW j \in Indices, arena'[j].id # 0
               PROVE  arena'[j] = wanted'[arena'[j].id]
    BY <1>3, <1>5 DEF SettingsAreTheArenas
  <2>1. CASE j = i
    BY <1>6, <1>9, <1>13, <2>1
  <2>2. CASE j # i
    <3>1. arena'[j] = arena[j] /\ arena[j] = wanted[arena[j].id]
      BY <1>1, <1>13, <2>2 DEF SettingsAreTheArenas
    <3>2. arena[j].id \in 1..(nextId - 1)
      BY <1>1, <3>1 DEF ArenaTypeOK, ArenaRecords
    <3> QED
      BY <1>9, <3>1, <3>2
  <2> QED
    BY <2>1, <2>2
<1>16. NamesFit'
  BY <1>1, <1>3 DEF NamesFit, as_bytes
<1> QED
  BY <1>11, <1>12, <1>14, <1>15, <1>16 DEF SettingsIInv

\* A handle is made, dropped, or destroyed with its arena.
LEMMA HandleStepsKeep ==
  ASSUME SettingsIInv, NEW h \in Handles,
         \/ \E i \in Indices : Borrow(h, i)
         \/ drop(h) \/ destroy(h)
  PROVE  SettingsIInv'
<1>1. /\ ArenaTypeOK /\ HandlesAreLive /\ OneIndex
      /\ SettingsAreTheArenas /\ NamesFit
  BY DEF SettingsIInv
<1>2. UNCHANGED <<defaults, wanted, meant, got, nextId, calls>>
  BY DEF Borrow, drop, destroy
<1>3. NamesFit'
  BY <1>1, <1>2 DEF NamesFit, as_bytes
<1>4. CASE \E i \in Indices : Borrow(h, i)
  <2>1. PICK i \in Indices :
          /\ arena[i].id # 0 /\ arena' = arena
          /\ handle' = [handle EXCEPT ![h] = [index |-> i, id |-> arena[i].id]]
    BY <1>4 DEF Borrow
  <2>2. handle' \in [Handles -> [index : Indices, id : Nat]]
    BY <1>1, <2>1 DEF ArenaTypeOK, ArenaRecords
  <2>3. HandlesAreLive'
    BY <1>1, <2>1 DEF HandlesAreLive, ArenaTypeOK
  <2>4. ArenaTypeOK' /\ OneIndex' /\ SettingsAreTheArenas'
    BY <1>1, <1>2, <2>1, <2>2 DEF ArenaTypeOK, OneIndex, SettingsAreTheArenas
  <2> QED
    BY <1>3, <2>3, <2>4 DEF SettingsIInv
<1>5. CASE drop(h)
  <2>1. arena' = arena /\ handle' = [handle EXCEPT ![h] = Free]
    BY <1>5 DEF drop
  <2>2. Free \in [index : Indices, id : Nat]
    <3>1. 0 \in Indices
      BY ArenaSettingsAssumption DEF Indices
    <3> QED
      BY <3>1 DEF Free
  <2>3. handle' \in [Handles -> [index : Indices, id : Nat]]
    BY <1>1, <2>1, <2>2 DEF ArenaTypeOK
  <2>4. HandlesAreLive'
    BY <1>1, <2>1 DEF HandlesAreLive, ArenaTypeOK
  <2>5. ArenaTypeOK' /\ OneIndex' /\ SettingsAreTheArenas'
    BY <1>1, <1>2, <2>1, <2>3 DEF ArenaTypeOK, OneIndex, SettingsAreTheArenas
  <2> QED
    BY <1>3, <2>4, <2>5 DEF SettingsIInv
<1>6. CASE destroy(h)
  <2>1. PICK i : i = handle[h].index
    OBVIOUS
  <2>2. PICK none : none = NoArena
    OBVIOUS
  <2>3. none \in ArenaRecords /\ none.id = 0
    BY <2>2, NoArenaFacts
  <2>4. /\ handle[h].id > 1
        /\ arena' = [arena EXCEPT ![i] = none]
        /\ handle' = [g \in Handles |-> IF handle[g].id = handle[h].id
                                        THEN Free ELSE handle[g]]
    BY <1>6, <2>1, <2>2 DEF destroy
  <2>5. i \in Indices /\ handle[h].id \in Nat
    BY <1>1, <2>1 DEF ArenaTypeOK
  <2>6. handle[h] # Free
    BY <2>4 DEF Free
  <2>7. arena[i].id = handle[h].id
    BY <1>1, <2>1, <2>6 DEF HandlesAreLive
  <2>8. 0 \in Indices
    BY ArenaSettingsAssumption DEF Indices
  <2>9. \A j \in Indices :
          \/ j = i /\ arena'[j] = none
          \/ j # i /\ arena'[j] = arena[j]
    BY <1>1, <2>4, <2>5 DEF ArenaTypeOK
  <2>10. ArenaTypeOK'
    <3>1. handle' \in [Handles -> [index : Indices, id : Nat]]
      BY <1>1, <2>4, <2>8 DEF ArenaTypeOK, Free
    <3>2. arena' \in [Indices -> ArenaRecords]
      BY <1>1, <2>3, <2>4 DEF ArenaTypeOK
    <3>3. ASSUME NEW j \in Indices
          PROVE  arena'[j].id < nextId
      <4>1. nextId \in Nat /\ nextId >= 2 /\ arena[j].id < nextId
        BY <1>1 DEF ArenaTypeOK
      <4>2. CASE j = i /\ arena'[j] = none
        BY <2>3, <4>1, <4>2
      <4>3. CASE arena'[j] = arena[j]
        BY <4>1, <4>3
      <4> QED
        BY <2>9, <4>2, <4>3
    <3> QED
      BY <1>1, <1>2, <3>1, <3>2, <3>3 DEF ArenaTypeOK
  <2>11. HandlesAreLive'
    <3> SUFFICES ASSUME NEW g \in Handles, handle'[g] # Free
                 PROVE  handle'[g].id # 0 /\ arena'[handle'[g].index].id = handle'[g].id
      BY DEF HandlesAreLive, Free
    <3>1. handle[g].id # handle[h].id /\ handle'[g] = handle[g]
      BY <2>4
    <3>2. /\ handle[g].id # 0 /\ arena[handle[g].index].id = handle[g].id
          /\ handle[g].index \in Indices
      BY <1>1, <3>1 DEF HandlesAreLive, ArenaTypeOK
    <3> QED
      BY <2>7, <2>9, <3>1, <3>2
  <2>12. OneIndex'
    BY <1>1, <2>3, <2>9 DEF OneIndex
  <2>13. SettingsAreTheArenas'
    BY <1>1, <1>2, <2>3, <2>9 DEF SettingsAreTheArenas
  <2> QED
    BY <1>3, <2>10, <2>11, <2>12, <2>13 DEF SettingsIInv
<1> QED
  BY <1>4, <1>5, <1>6

\* A setting of an arena is written: jemalloc's arena and what was meant for
\* it change alike, and no other arena changes.
LEMMA SetKeeps ==
  ASSUME SettingsIInv, NEW h \in Handles, NEW s, NEW v, Setting(s, v),
         Set(h, s, v)
  PROVE  SettingsIInv'
<1>1. /\ ArenaTypeOK /\ HandlesAreLive /\ OneIndex
      /\ SettingsAreTheArenas /\ NamesFit
  BY DEF SettingsIInv
<1>2. PICK i : i = handle[h].index
  OBVIOUS
<1>3. PICK id : id = handle[h].id
  OBVIOUS
<1>4. /\ handle[h] # Free
      /\ arena' = [arena EXCEPT ![i][s] = v]
      /\ wanted' = [wanted EXCEPT ![id][s] = v]
      /\ UNCHANGED <<defaults, handle, meant, got, nextId>>
  <2>1. handle[h] # Free /\ select(h) = i /\ i \in Indices
    BY <1>1, <1>2 DEF Set, select, HandlesAreLive, ArenaTypeOK
  <2>2. i # ALL_ARENAS
    BY <2>1, ArenaSettingsAssumption DEF Indices
  <2> QED
    BY <1>3, <2>1, <2>2 DEF Set, Write
<1>5. /\ i \in Indices /\ id # 0 /\ arena[i].id = id /\ id \in Nat
      /\ arena[i] \in ArenaRecords
  BY <1>1, <1>2, <1>3, <1>4 DEF HandlesAreLive, ArenaTypeOK
<1>6. id \in 1..(nextId - 1) /\ arena[i] = wanted[id]
  BY <1>1, <1>5 DEF ArenaTypeOK, SettingsAreTheArenas
<1>7. PICK r : r = Updated(arena[i], s, v)
  OBVIOUS
<1>8. r \in ArenaRecords /\ r.id = id
  BY <1>5, <1>7, UpdatedFacts
<1>9. arena' = [arena EXCEPT ![i] = r] /\ wanted' = [wanted EXCEPT ![id] = r]
  BY <1>4, <1>6, <1>7 DEF Updated
<1>10. \A j \in Indices :
         \/ j = i /\ arena'[j] = r
         \/ j # i /\ arena'[j] = arena[j]
  BY <1>1, <1>5, <1>9 DEF ArenaTypeOK
<1>11. \A j \in Indices : arena'[j].id = arena[j].id
  BY <1>5, <1>8, <1>10
<1>12. ArenaTypeOK'
  <2>1. arena' \in [Indices -> ArenaRecords]
    BY <1>1, <1>8, <1>9 DEF ArenaTypeOK
  <2>2. wanted' \in [1..(nextId - 1) -> ArenaRecords]
    BY <1>1, <1>8, <1>9 DEF ArenaTypeOK
  <2> QED
    BY <1>1, <1>4, <1>11, <2>1, <2>2 DEF ArenaTypeOK
<1>13. HandlesAreLive'
  BY <1>1, <1>4, <1>11 DEF HandlesAreLive, ArenaTypeOK
<1>14. OneIndex'
  BY <1>1, <1>11 DEF OneIndex
<1>15. SettingsAreTheArenas'
  <2> SUFFICES ASSUME NEW j \in Indices, arena'[j].id # 0
               PROVE  arena'[j] = wanted'[arena'[j].id]
    BY <1>1, <1>4 DEF SettingsAreTheArenas
  <2>1. CASE j = i
    BY <1>1, <1>5, <1>6, <1>8, <1>9, <1>10, <2>1 DEF ArenaTypeOK
  <2>2. CASE j # i
    <3>1. arena'[j] = arena[j] /\ arena[j] = wanted[arena[j].id] /\ arena[j].id # id
      BY <1>1, <1>5, <1>10, <1>11, <2>2 DEF SettingsAreTheArenas, OneIndex
    <3>2. arena[j].id \in 1..(nextId - 1)
      BY <1>1, <1>11 DEF ArenaTypeOK, ArenaRecords
    <3> QED
      BY <1>1, <1>9, <3>1, <3>2 DEF ArenaTypeOK
  <2> QED
    BY <2>1, <2>2
<1>16. NamesFit'
  BY <1>1, <1>4 DEF NamesFit, as_bytes
<1> QED
  BY <1>12, <1>13, <1>14, <1>15, <1>16 DEF SettingsIInv

\* The setters of an arena write one of its settings.
LEMMA SettersKeep ==
  ASSUME SettingsIInv, NEW h \in Handles,
         \/ \E kind \in Kinds, ms \in Intervals : set_decay(h, kind, ms)
         \/ \E limit \in Limits : set_retain_grow_limit(h, limit)
         \/ \E dss \in Precedences : set_dss(h, dss)
         \/ \E n \in Names : set_name(h, n)
  PROVE  SettingsIInv'
<1>1. ASSUME NEW kind \in Kinds, NEW ms \in Intervals,
             set_decay(h, kind, ms)
      PROVE  SettingsIInv'
  <2>1. Setting(kind, ms) /\ Set(h, kind, ms)
    BY <1>1 DEF Setting, DecayValues, set_decay
  <2> QED
    BY <2>1, SetKeeps
<1>2. ASSUME NEW limit \in Limits, set_retain_grow_limit(h, limit)
      PROVE  SettingsIInv'
  <2>1. PICK v : v = Max({c \in Classes : c <= limit})
    OBVIOUS
  <2>2. Setting("limit", v) /\ Set(h, "limit", v)
    BY <1>2, <2>1 DEF Setting, LimitValues, set_retain_grow_limit
  <2> QED
    BY <2>2, SetKeeps
<1>3. ASSUME NEW dss \in Precedences, set_dss(h, dss)
      PROVE  SettingsIInv'
  <2>1. PICK v : v = as_ptr(dss)
    OBVIOUS
  <2>2. Setting("dss", v) /\ Set(h, "dss", v)
    BY <1>3, <2>1
    DEF Setting, DssValues, set_dss, as_ptr, Precedences
  <2> QED
    BY <2>2, SetKeeps
<1>4. ASSUME NEW n \in Names, set_name(h, n)
      PROVE  SettingsIInv'
  <2>1. PICK v : v = Truncated(n, ARENA_NAME_LEN)
    OBVIOUS
  <2>2. Setting("name", v) /\ Set(h, "name", v)
    BY <1>4, <2>1 DEF Setting, StoredNames, set_name
  <2> QED
    BY <2>2, SetKeeps
<1> QED
  BY <1>1, <1>2, <1>3, <1>4

\* A name is read.
LEMMA ReadKeeps ==
  ASSUME SettingsIInv, NEW h \in Handles,
         read_name(h)
  PROVE  SettingsIInv'
<1>1. /\ ArenaTypeOK /\ HandlesAreLive /\ OneIndex /\ SettingsAreTheArenas
      /\ UNCHANGED <<arena, defaults, handle, wanted, meant, nextId, calls>>
  BY DEF SettingsIInv, read_name
<1>2. PICK n : n = arena[handle[h].index].name
  OBVIOUS
<1>3. PICK buffer : buffer = [i \in DOMAIN ArenaName |->
                                IF i <= Len(n) THEN n[i] ELSE NUL]
  OBVIOUS
<1>4. PICK expected : expected = wanted[handle[h].id].name
  OBVIOUS
<1>5. /\ handle[h] # Free
      /\ got' = [tag |-> "some", expected |-> expected,
                 written |-> 1..(Len(n) + 1), buffer |-> buffer]
  BY <1>2, <1>3, <1>4 DEF read_name, select
<1>6. /\ handle[h].index \in Indices
      /\ arena[handle[h].index] \in ArenaRecords
      /\ arena[handle[h].index] = wanted[handle[h].id]
  BY <1>1, <1>5 DEF HandlesAreLive, ArenaTypeOK, SettingsAreTheArenas
<1>7. n \in StoredNames /\ n = expected
  BY <1>2, <1>4, <1>6 DEF ArenaRecords
<1>8. /\ got'.written = 1..(Len(n) + 1) /\ got'.buffer = buffer /\ got'.expected = n
  BY <1>5, <1>7
<1>9. NamesFit'
  <2>1. /\ 1..(Len(n) + 1) \subseteq DOMAIN buffer
        /\ \E i \in DOMAIN buffer : buffer[i] = NUL
        /\ as_bytes(buffer) = n
    BY <1>3, <1>7, CopiedNameFits
  <2>2. as_bytes(got'.buffer) = n
    BY <1>8, <2>1
  <2> QED
    BY <1>8, <2>1, <2>2 DEF NamesFit, as_bytes
<1>10. ArenaTypeOK' /\ HandlesAreLive' /\ OneIndex' /\ SettingsAreTheArenas'
  BY <1>1 DEF ArenaTypeOK, HandlesAreLive, OneIndex, SettingsAreTheArenas
<1> QED
  BY <1>9, <1>10 DEF SettingsIInv

\* A default is changed, and no arena with it.
LEMMA DefaultsKeep ==
  ASSUME SettingsIInv,
         \/ \E kind \in Kinds, ms \in Intervals : arenas_set_decay(kind, ms)
         \/ \E dss \in Precedences : arenas_set_dss(dss)
         \/ UNCHANGED settingsVars
  PROVE  SettingsIInv'
<1>1. /\ ArenaTypeOK /\ HandlesAreLive /\ OneIndex
      /\ SettingsAreTheArenas /\ NamesFit
  BY DEF SettingsIInv
<1>2. UNCHANGED <<arena, handle, wanted, got, nextId>>
  BY DEF arenas_set_decay, arenas_set_dss, arenas_select, Write, settingsVars
<1>3. defaults' = meant' /\
      defaults' \in [dirty : DecayValues, muzzy : DecayValues, dss : DssValues]
  <2>1. /\ defaults = meant
        /\ defaults \in [dirty : DecayValues, muzzy : DecayValues, dss : DssValues]
    BY <1>1 DEF SettingsAreTheArenas, ArenaTypeOK
  <2>2. ASSUME NEW kind \in Kinds, NEW ms \in Intervals,
               arenas_set_decay(kind, ms)
        PROVE  /\ defaults' = meant'
               /\ defaults' \in [dirty : DecayValues, muzzy : DecayValues, dss : DssValues]
    <3>1. defaults' = [defaults EXCEPT ![kind] = ms] /\ defaults' = meant'
      BY <2>1, <2>2 DEF arenas_set_decay
    <3>2. ms \in DecayValues
      BY DEF DecayValues
    <3>3. CASE kind = "dirty"
      BY <2>1, <3>1, <3>2, <3>3
    <3>4. CASE kind = "muzzy"
      BY <2>1, <3>1, <3>2, <3>4
    <3> QED
      BY <3>3, <3>4 DEF Kinds
  <2>3. ASSUME NEW dss \in Precedences, arenas_set_dss(dss)
        PROVE  /\ defaults' = meant'
               /\ defaults' \in [dirty : DecayValues, muzzy : DecayValues, dss : DssValues]
    <3>1. PICK v : v = as_ptr(dss)
      OBVIOUS
    <3>2. v \in DssValues
      BY <3>1 DEF DssValues, as_ptr, Precedences
    <3>3. defaults' = [defaults EXCEPT !.dss = v] /\ defaults' = meant'
      BY <2>1, <2>3, <3>1 DEF arenas_set_dss, arenas_select, Write
    <3> QED
      BY <2>1, <3>2, <3>3
  <2>4. CASE UNCHANGED settingsVars
    BY <2>1, <2>4 DEF settingsVars
  <2> QED
    BY <2>2, <2>3, <2>4
<1>4. ArenaTypeOK' /\ HandlesAreLive' /\ OneIndex'
  BY <1>1, <1>2, <1>3 DEF ArenaTypeOK, HandlesAreLive, OneIndex
<1>5. SettingsAreTheArenas'
  BY <1>1, <1>2, <1>3 DEF SettingsAreTheArenas
<1>6. NamesFit'
  BY <1>1, <1>2 DEF NamesFit, as_bytes
<1> QED
  BY <1>4, <1>5, <1>6 DEF SettingsIInv

LEMMA SettingsStep ==
  ASSUME SettingsIInv, [SettingsNext]_settingsVars
  PROVE  SettingsIInv'
BY CreateKeeps, HandleStepsKeep, SettersKeep, ReadKeeps, DefaultsKeep DEF SettingsNext

\* An arena has the settings given to that very arena and the defaults of its
\* creation, however many arenas used its index before.
THEOREM SettingsStay == SettingsSpec => []SettingsAreTheArenas
<1>1. SettingsIInv => SettingsAreTheArenas
  BY DEF SettingsIInv
<1> QED
  BY <1>1, SettingsInitHolds, SettingsStep, PTL DEF SettingsSpec

\* For every name and every size of the storage, what is read is what was
\* given, as far as it fits, and its terminator is inside the storage.
THEOREM NamesAreWhole == SettingsSpec => []NamesFit
<1>1. SettingsIInv => NamesFit
  BY DEF SettingsIInv
<1> QED
  BY <1>1, SettingsInitHolds, SettingsStep, PTL DEF SettingsSpec

\* The specification in which either the settings or the option moves and the
\* other rests has only behaviours of both, so that the theorems hold of it.
LEMMA ArenasIsBoth == ArenasSpec => SettingsSpec /\ Option!StartupSpec
<1>1. ArenasInit => SettingsInit /\ Option!StartupInit
  BY DEF ArenasInit
<1>2. [ArenasNext]_<<settingsVars, optionVars>> =>
        [SettingsNext]_settingsVars /\ [Option!StartupNext]_(Option!vars)
  BY DEF ArenasNext, optionVars, Option!vars, Option!serviceVars
<1>3. QED
  BY <1>1, <1>2, PTL DEF ArenasSpec, SettingsSpec, Option!StartupSpec

-----------------------------------------------------------------------------
(* The build script *)

Stages == {"idle", "target", "override", "remove", "copy", "copy_configure",
           "configure", "make", "link"}

Directives(f, t, p, l) == [forms |-> f, trees |-> t, prefixed |-> p, link |-> l]

BuildTypeOK ==
  /\ stage \in Stages
  /\ tree \in [Trees -> Nat]
  /\ start.tree \in [Trees -> Nat]
  /\ \E f, t, p, l : out = Directives(f, t, p, l)

\* Sources only get newer.
StartedBefore == \A s \in Trees : start.tree[s] <= tree[s]

\* A version of the sources s that was there at some time since the run began.
Between(n, s) == n \in Nat /\ start.tree[s] <= n /\ n <= tree[s]

\* The build directory, and what make puts into it.
Dir(j, c, conf, objects) ==
  [tag |-> "some", jemalloc |-> j, configure |-> c, conf |-> conf, objects |-> objects]

Made(j, c) == [jemalloc |-> j, configure |-> c, conf |-> Arguments]

\* The forms that were read from the environment when the run began are
\* watched, and no library is supplied.
OverrideRead ==
  /\ Watched("override", OsText) \subseteq out.forms
  /\ Found("override", OsText) = Absent

VariablesRead ==
  \A v \in ConfigVars : Watched(v, Text) \subseteq out.forms

\* What a run has done when it comes to each stage.
RunSoFar ==
  /\ stage \notin {"idle", "target", "override"} => OverrideRead
  /\ stage \notin {"idle", "target", "override", "remove"} => "configure" \in out.trees
  /\ stage = "copy" => dir = None
  /\ stage = "copy_configure" =>
       \E j : Between(j, "jemalloc") /\ dir = Dir(j, NoTree, None, None)
  /\ stage = "configure" =>
       \E j, c : /\ Between(j, "jemalloc") /\ Between(c, "configure")
                 /\ dir = Dir(j, c, None, None)
  /\ stage \in {"make", "link"} => VariablesRead
  /\ stage = "make" =>
       \E j, c : /\ Between(j, "jemalloc") /\ Between(c, "configure")
                 /\ dir = Dir(j, c, Arguments, None)
  /\ stage = "link" =>
       \E j, c : /\ Between(j, "jemalloc") /\ Between(c, "configure")
                 /\ dir = Dir(j, c, Arguments, Made(j, c))

\* A library was supplied, and is linked.
Supplied ==
  /\ Watched("override", OsText) \subseteq out.forms
  /\ Found("override", OsText) \in Linkable
  /\ out.link = Found("override", OsText)

\* The bundled sources were built.
Bundled ==
  /\ OverrideRead /\ VariablesRead
  /\ out.link = BundledLibrary
  /\ {"configure", "jemalloc"} \subseteq out.trees
  /\ \E j, c : /\ Between(j, "jemalloc") /\ Between(c, "configure")
               /\ dir = Dir(j, c, Arguments, Made(j, c))
  /\ TargetHas("android") =>
       "pthread_atfork" \in out.trees /\ Between(shim, "pthread_atfork")

\* What Cargo has recorded is the last run, which ended well, and nothing was
\* done since.
OutcomeIsLast ==
  outcome # None =>
    /\ stage = "idle"
    /\ outcome.start = start /\ outcome.out = out
    /\ Supplied \/ Bundled

BuildIInv == BuildTypeOK /\ StartedBefore /\ RunSoFar /\ OutcomeIsLast

\* Where no watched form has changed, what was read is what would be read now:
\* the form that was not looked at is not preferred to the one that was.
LEMMA ReadAgain ==
  ASSUME NEW var, NEW accepted, accepted \subseteq Values,
         \A f \in Watched(var, accepted) : env[f] = start.env[f]
  PROVE  Preferred(var, accepted) = Found(var, accepted)
<1> DEFINE given == {form \in {"target", "plain"} : env[<<form, var>>] \in accepted}
<1>1. Preferred(var, accepted) =
        IF given = {} THEN Absent
        ELSE env[<<IF "target" \in given THEN "target" ELSE "plain", var>>]
  BY DEF Preferred
<1>2. CASE start.env[<<"target", var>>] \in accepted
  <2>1. <<"target", var>> \in Watched(var, accepted)
    BY <1>2 DEF Watched
  <2>2. "target" \in given
    BY <1>2, <2>1
  <2>3. Preferred(var, accepted) = env[<<"target", var>>]
    BY <1>1, <2>2
  <2> QED
    BY <1>2, <2>1, <2>3 DEF Found
<1>3. CASE start.env[<<"target", var>>] \notin accepted
  <2>1. {<<"target", var>>, <<"plain", var>>} \subseteq Watched(var, accepted)
    BY <1>3 DEF Watched
  <2>2. "target" \notin given
    BY <1>3, <2>1
  <2>3. CASE start.env[<<"plain", var>>] \in accepted
    <3>1. "plain" \in given
      BY <2>1, <2>3
    <3>2. Preferred(var, accepted) = env[<<"plain", var>>]
      BY <1>1, <2>2, <3>1
    <3> QED
      BY <1>3, <2>1, <2>3, <3>2 DEF Found
  <2>4. CASE start.env[<<"plain", var>>] \notin accepted
    <3>1. given = {}
      BY <2>1, <2>2, <2>4
    <3> QED
      BY <1>1, <1>3, <2>4, <3>1 DEF Found
  <2> QED
    BY <2>3, <2>4
<1> QED
  BY <1>2, <1>3

\* What Cargo takes for up to date is what the last run built.
LEMMA UpToDate ==
  ASSUME BuildIInv, Usable
  PROVE  BuildIsFresh
<1>1. /\ outcome # None
      /\ \A f \in out.forms : env[f] = start.env[f]
      /\ \A s \in out.trees : tree[s] = start.tree[s]
      /\ outcome.out = out
      /\ Supplied \/ Bundled
  BY DEF BuildIInv, OutcomeIsLast, Usable, Dirty
<1>2. BuildTypeOK
  BY DEF BuildIInv
<1>3. CASE Supplied
  <2>1. /\ Preferred("override", Values) = out.link
        /\ out.link \in Linkable
    BY <1>1, <1>3, ReadAgain DEF Supplied, OsText
  <2>2. Linkable \subseteq Values /\ Absent \notin Values
    BY BuildAssumption
  <2> QED
    BY <1>1, <2>1, <2>2 DEF BuildIsFresh
<1>4. CASE Bundled
  <2>1. Preferred("override", Values) = Absent
    BY <1>1, <1>4, ReadAgain DEF Bundled, OverrideRead, OsText
  <2>2. PICK j, c : /\ Between(j, "jemalloc") /\ Between(c, "configure")
                    /\ dir = Dir(j, c, Arguments, Made(j, c))
    BY <1>4 DEF Bundled
  <2>3. tree["jemalloc"] = start.tree["jemalloc"] /\ tree["configure"] = start.tree["configure"]
    BY <1>1, <1>4 DEF Bundled
  <2>4. j = tree["jemalloc"] /\ c = tree["configure"]
    BY <1>2, <2>2, <2>3 DEF Between, BuildTypeOK, Trees
  <2>5. /\ dir.objects.jemalloc = j /\ dir.objects.configure = c
        /\ dir.objects.conf = Arguments
    BY <2>2 DEF Dir, Made
  <2>6. ASSUME NEW v \in ConfigVars
        PROVE  /\ Preferred(v, Values \ {Empty}) # Absent =>
                    dir.objects.conf.with[v] = Preferred(v, Values \ {Empty})
               /\ Preferred(v, Values \ {Empty}) = Absent =>
                    dir.objects.conf.with[v] \in {Absent, "14"}
    <3>1. Preferred(v, Values \ {Empty}) = Found(v, Text)
      BY <1>1, <1>4, ReadAgain DEF Bundled, VariablesRead, Text
    <3>2. dir.objects.conf.with[v] =
            IF Found(v, Text) = Absent /\ v = "LG_PAGE" /\ TargetHas("ios")
            THEN "14" ELSE Found(v, Text)
      BY <2>5 DEF Arguments
    <3> QED
      BY <3>1, <3>2
  <2>7. "android" \in unit.target => shim = tree["pthread_atfork"]
    BY <1>1, <1>2, <1>4 DEF Bundled, TargetHas, Between, BuildTypeOK, Trees
  <2> QED
    BY <1>1, <1>4, <2>1, <2>4, <2>5, <2>6, <2>7 DEF BuildIsFresh, Bundled
<1> QED
  BY <1>1, <1>3, <1>4

LEMMA BuildInitHolds ==
  ASSUME BuildInit
  PROVE  BuildIInv
<1>1. BuildTypeOK /\ StartedBefore
  <2>1. \E f, t, p, l : out = Directives(f, t, p, l)
    <3>1. out = Directives({}, {}, FALSE, Absent)
      BY DEF BuildInit, NoDirectives, Directives
    <3> QED
      BY <3>1
  <2>2. tree \in [Trees -> Nat] /\ start.tree = tree /\ stage \in Stages
    BY DEF BuildInit, Stages
  <2>3. StartedBefore
    BY <2>2 DEF StartedBefore
  <2> QED
    BY <2>1, <2>2, <2>3 DEF BuildTypeOK
<1>2. RunSoFar
  BY DEF BuildInit, RunSoFar
<1>3. OutcomeIsLast
  BY DEF BuildInit, OutcomeIsLast
<1> QED
  BY <1>1, <1>2, <1>3 DEF BuildIInv

\* What a run has read and decided does not depend on anything but the unit
\* and the start of the run.
LEMMA ReadingsStay ==
  ASSUME UNCHANGED <<unit, start>>
  PROVE  /\ Arguments' = Arguments
         /\ TargetHas("android")' = TargetHas("android")
         /\ \A var, accepted :
              /\ Watched(var, accepted)' = Watched(var, accepted)
              /\ Found(var, accepted)' = Found(var, accepted)
         /\ \A j, c : Made(j, c)' = Made(j, c)
<1>1. use_prefix' = use_prefix
  BY DEF use_prefix, TargetHas
<1>2. \A n : TargetHas(n)' = TargetHas(n)
  BY DEF TargetHas
<1>3. \A var, accepted :
        /\ Watched(var, accepted)' = Watched(var, accepted)
        /\ Found(var, accepted)' = Found(var, accepted)
  BY DEF Watched, Found
<1>4. Arguments' = Arguments
  BY <1>1, <1>2, <1>3 DEF Arguments
<1>5. \A j, c : Made(j, c)' = Made(j, c)
  BY <1>4 DEF Made
<1> QED
  BY <1>1, <1>2, <1>3, <1>4, <1>5

\* The environment and the sources change, or nothing does.
LEMMA EditsKeep ==
  ASSUME BuildIInv,
         UNCHANGED <<unit, stage, start, out, dir, shim, outcome>>,
         tree' \in [Trees -> Nat],
         \A s \in Trees : tree[s] <= tree'[s]
  PROVE  BuildIInv'
<1>1. BuildTypeOK /\ StartedBefore /\ RunSoFar /\ OutcomeIsLast
  BY DEF BuildIInv
<1>2. BuildTypeOK' /\ StartedBefore'
  BY <1>1 DEF BuildTypeOK, StartedBefore
<1>3. \A n, s : s \in Trees /\ Between(n, s) => Between(n, s)'
  BY <1>1 DEF Between, BuildTypeOK
<1>4. {"jemalloc", "configure", "pthread_atfork"} \subseteq Trees
  BY DEF Trees
<1>5. /\ OverrideRead' = OverrideRead /\ VariablesRead' = VariablesRead
      /\ Supplied' = Supplied
  BY ReadingsStay DEF OverrideRead, VariablesRead, Supplied, OsText, Text
<1>6. RunSoFar'
  <2> USE <1>1, <1>3, <1>4, <1>5, ReadingsStay DEF RunSoFar
  <2>1. /\ stage \notin {"idle", "target", "override"} => OverrideRead'
        /\ stage \notin {"idle", "target", "override", "remove"} => "configure" \in out'.trees
        /\ stage = "copy" => dir' = None
        /\ stage \in {"make", "link"} => VariablesRead'
    OBVIOUS
  <2>2. stage = "copy_configure" =>
          \E j : Between(j, "jemalloc")' /\ dir' = Dir(j, NoTree, None, None)
    OBVIOUS
  <2>3. stage = "configure" =>
          \E j, c : /\ Between(j, "jemalloc")' /\ Between(c, "configure")'
                    /\ dir' = Dir(j, c, None, None)
    OBVIOUS
  <2>4. stage = "make" =>
          \E j, c : /\ Between(j, "jemalloc")' /\ Between(c, "configure")'
                    /\ dir' = Dir(j, c, Arguments', None)
    OBVIOUS
  <2>5. stage = "link" =>
          \E j, c : /\ Between(j, "jemalloc")' /\ Between(c, "configure")'
                    /\ dir' = Dir(j, c, Arguments', Made(j, c)')
    OBVIOUS
  <2> QED
    BY <2>1, <2>2, <2>3, <2>4, <2>5 DEF Dir
<1>7. OutcomeIsLast'
  <2>1. Bundled => Bundled'
    <3> SUFFICES ASSUME Bundled PROVE Bundled'
      OBVIOUS
    <3>1. PICK j, c : /\ Between(j, "jemalloc")' /\ Between(c, "configure")'
                      /\ dir' = Dir(j, c, Arguments', Made(j, c)')
      BY <1>3, <1>4, ReadingsStay DEF Bundled
    <3>2. /\ OverrideRead' /\ VariablesRead' /\ out'.link = BundledLibrary
          /\ {"configure", "jemalloc"} \subseteq out'.trees
          /\ TargetHas("android")' =>
               "pthread_atfork" \in out'.trees /\ Between(shim, "pthread_atfork")
      BY <1>5, ReadingsStay DEF Bundled
    <3>3. Between(shim, "pthread_atfork") => Between(shim, "pthread_atfork")'
      BY <1>1, <1>4 DEF Between, BuildTypeOK
    <3> QED
      BY <3>1, <3>2, <3>3 DEF Bundled, Dir
  <2> QED
    BY <1>1, <1>5, <2>1 DEF OutcomeIsLast
<1> QED
  BY <1>2, <1>6, <1>7 DEF BuildIInv

\* A run ends without success.
LEMMA EndsKeep ==
  ASSUME BuildIInv, stage # "idle", stage' = "idle",
         UNCHANGED <<unit, tree, start, out, dir, shim, outcome>>
  PROVE  BuildIInv'
<1>1. BuildTypeOK /\ StartedBefore /\ OutcomeIsLast
  BY DEF BuildIInv
<1>2. BuildTypeOK' /\ StartedBefore'
  BY <1>1 DEF BuildTypeOK, StartedBefore, Stages
<1>3. RunSoFar'
  BY DEF RunSoFar
<1>4. outcome = None
  BY <1>1 DEF OutcomeIsLast
<1>5. OutcomeIsLast'
  BY <1>4 DEF OutcomeIsLast, None
<1> QED
  BY <1>2, <1>3, <1>5 DEF BuildIInv

LEMMA CargoKeeps ==
  ASSUME BuildIInv, Cargo
  PROVE  BuildIInv'
<1>1. /\ stage' = "target" /\ outcome' = None
      /\ start' = [env |-> env, tree |-> tree]
      /\ out' = NoDirectives /\ tree' = tree
      /\ tree \in [Trees -> Nat]
  BY DEF Cargo, Goto, inputs, BuildIInv, BuildTypeOK
<1>2. start'.tree = tree
  BY <1>1
<1>3. out' = Directives({}, {}, FALSE, Absent)
  BY <1>1 DEF NoDirectives, Directives
<1>4. BuildTypeOK' /\ StartedBefore'
  <2>1. (\E f, t, p, l : out = Directives(f, t, p, l))'
    <3>1. \E f, t, p, l : out' = Directives(f, t, p, l)
      BY <1>3
    <3> QED
      BY <3>1 DEF Directives
  <2>2. (start.tree \in [Trees -> Nat] /\ tree \in [Trees -> Nat] /\ stage \in Stages)'
    BY <1>1, <1>2 DEF Stages
  <2>3. \A s \in Trees : start'.tree[s] <= tree'[s]
    BY <1>1, <1>2
  <2> QED
    BY <2>1, <2>2, <2>3 DEF BuildTypeOK, StartedBefore
<1>5. RunSoFar'
  BY <1>1 DEF RunSoFar
<1>6. OutcomeIsLast'
  BY <1>1 DEF OutcomeIsLast, None
<1> QED
  BY <1>4, <1>5, <1>6 DEF BuildIInv

\* A run goes on: only the directives, the build directory and the stage change.
LEMMA StageKeeps ==
  ASSUME BuildIInv, stage # "idle", stage' \in Stages \ {"idle"},
         UNCHANGED <<unit, tree, start, outcome>>,
         \E f, t, p, l : out' = Directives(f, t, p, l),
         RunSoFar'
  PROVE  BuildIInv'
<1>1. BuildTypeOK /\ StartedBefore /\ OutcomeIsLast
  BY DEF BuildIInv
<1>2. StartedBefore'
  BY <1>1 DEF StartedBefore
<1>3. (\E f, t, p, l : out = Directives(f, t, p, l))'
  BY DEF Directives
<1>4. BuildTypeOK'
  BY <1>1, <1>3 DEF BuildTypeOK
<1>5. outcome = None
  BY <1>1 DEF OutcomeIsLast
<1>6. OutcomeIsLast'
  BY <1>5 DEF OutcomeIsLast, None
<1> QED
  BY <1>2, <1>4, <1>6 DEF BuildIInv

LEMMA TargetKeeps ==
  ASSUME BuildIInv, CheckTarget
  PROVE  BuildIInv'
<1>1. CASE Panic
  BY <1>1, EndsKeep DEF CheckTarget, Panic, Goto, inputs
<1>2. CASE ~ Panic
  <2>1. /\ stage = "target" /\ stage' = "override"
        /\ out' = [out EXCEPT !.prefixed = use_prefix]
        /\ UNCHANGED <<unit, tree, start, outcome>>
    BY <1>2 DEF CheckTarget, Goto, inputs
  <2>2. PICK f, t, p, l : out = Directives(f, t, p, l)
    BY DEF BuildIInv, BuildTypeOK
  <2>3. out' = Directives(f, t, use_prefix, l)
    BY <2>1, <2>2 DEF Directives
  <2>4. RunSoFar'
    BY <2>1 DEF RunSoFar
  <2>5. stage # "idle" /\ stage' \in Stages \ {"idle"}
    BY <2>1 DEF Stages
  <2> QED
    BY <2>1, <2>3, <2>4, <2>5, StageKeeps
<1> QED
  BY <1>1, <1>2

\* The run ends well.
LEMMA FinishKeeps ==
  ASSUME BuildIInv, NEW f, NEW t, NEW p, NEW l,
         Finish(Directives(f, t, p, l)),
         UNCHANGED <<unit, tree, start>>,
         Supplied' \/ Bundled'
  PROVE  BuildIInv'
<1>1. /\ out' = Directives(f, t, p, l) /\ stage' = "idle"
      /\ outcome' = [tag |-> "some", start |-> start, out |-> Directives(f, t, p, l)]
  BY DEF Finish, Goto
<1>2. BuildTypeOK /\ StartedBefore
  BY DEF BuildIInv
<1>3. StartedBefore'
  BY <1>2 DEF StartedBefore
<1>4. (\E g, u, q, m : out = Directives(g, u, q, m))'
  <2>1. \E g, u, q, m : out' = Directives(g, u, q, m)
    BY <1>1
  <2> QED
    BY <2>1 DEF Directives
<1>5. BuildTypeOK'
  BY <1>1, <1>2, <1>4 DEF BuildTypeOK, Stages
<1>6. RunSoFar'
  BY <1>1 DEF RunSoFar
<1>7. outcome'.start = start' /\ outcome'.out = out'
  BY <1>1
<1>8. OutcomeIsLast'
  BY <1>1, <1>7 DEF OutcomeIsLast
<1> QED
  BY <1>3, <1>5, <1>6, <1>8 DEF BuildIInv

LEMMA OverrideKeeps ==
  ASSUME BuildIInv, CheckOverride
  PROVE  BuildIInv'
<1> DEFINE library == Found("override", OsText)
           watching == [out EXCEPT !.forms = @ \cup Watched("override", OsText)]
<1>1. PICK f, t, p, l : out = Directives(f, t, p, l)
  BY DEF BuildIInv, BuildTypeOK
<1>2. PICK w : w = f \cup Watched("override", OsText)
  OBVIOUS
<1>3. watching = Directives(w, t, p, l)
  BY <1>1, <1>2 DEF Directives
<1>4. stage = "override"
  BY DEF CheckOverride
<1>5. CASE Panic
  BY <1>4, <1>5, EndsKeep DEF Panic, Goto, inputs
<1>6. CASE /\ library = Absent
           /\ out' = watching
           /\ stage' = "remove"
           /\ UNCHANGED <<unit, tree, start, outcome>>
  <2>1. out' = Directives(w, t, p, l)
    BY <1>3, <1>6
  <2>2. OverrideRead'
    BY <1>2, <1>6, <2>1, ReadingsStay DEF OverrideRead, Directives, OsText
  <2>3. RunSoFar'
    BY <1>6, <2>2 DEF RunSoFar
  <2>4. stage # "idle" /\ stage' \in Stages \ {"idle"}
    BY <1>4, <1>6 DEF Stages
  <2> QED
    BY <1>6, <2>1, <2>3, <2>4, StageKeeps
<1>7. CASE /\ library \in Linkable
           /\ Finish([watching EXCEPT !.link = library])
           /\ UNCHANGED <<unit, tree, start>>
  <2>1. PICK m : m = library
    OBVIOUS
  <2>2. [watching EXCEPT !.link = library] = Directives(w, t, p, m)
    <3>1. [Directives(w, t, p, l) EXCEPT !.link = m] = Directives(w, t, p, m)
      BY DEF Directives
    <3> HIDE DEF watching, library
    <3> QED
      BY <1>3, <2>1, <3>1
  <2>3. Finish(Directives(w, t, p, m))
    BY <1>7, <2>2
  <2>4. out' = Directives(w, t, p, m)
    BY <2>3 DEF Finish
  <2>5. Supplied'
    BY <1>2, <1>7, <2>1, <2>4, ReadingsStay DEF Supplied, Directives, OsText
  <2> QED
    BY <1>7, <2>3, <2>5, FinishKeeps
<1> QED
  BY <1>5, <1>6, <1>7 DEF CheckOverride, Goto, inputs

LEMMA RemoveKeeps ==
  ASSUME BuildIInv, RemoveBuildDir
  PROVE  BuildIInv'
<1>1. PICK f, t, p, l : out = Directives(f, t, p, l)
  BY DEF BuildIInv, BuildTypeOK
<1>2. /\ stage = "remove" /\ stage' = "copy" /\ dir' = None
      /\ UNCHANGED <<unit, tree, start, outcome>>
  BY DEF RemoveBuildDir, Goto, inputs
<1>3. out' = Directives(f, t \cup {"configure"}, p, l)
  BY <1>1 DEF RemoveBuildDir, Directives
<1>4. OverrideRead
  BY <1>2 DEF BuildIInv, RunSoFar
<1>5. OverrideRead'
  BY <1>1, <1>2, <1>3, <1>4, ReadingsStay DEF OverrideRead, Directives, OsText
<1>6. "configure" \in out'.trees
  BY <1>3 DEF Directives
<1>7. RunSoFar'
  BY <1>2, <1>5, <1>6 DEF RunSoFar, None
<1>8. stage # "idle" /\ stage' \in Stages \ {"idle"}
  BY <1>2 DEF Stages
<1> QED
  BY <1>2, <1>3, <1>7, <1>8, StageKeeps

\* What was decided before the build directory is filled stays so.
LEMMA DecidedStays ==
  ASSUME BuildIInv, stage \notin {"idle", "target", "override", "remove"},
         UNCHANGED <<unit, start, out>>
  PROVE  /\ OverrideRead'
         /\ "configure" \in out'.trees
         /\ VariablesRead => VariablesRead'
         /\ \E f, t, p, l : out' = Directives(f, t, p, l)
<1>1. OverrideRead /\ "configure" \in out.trees
  BY DEF BuildIInv, RunSoFar
<1>2. OverrideRead'
  BY <1>1, ReadingsStay DEF OverrideRead, OsText
<1>3. VariablesRead => VariablesRead'
  BY ReadingsStay DEF VariablesRead, Text
<1>4. \E f, t, p, l : out' = Directives(f, t, p, l)
  BY DEF BuildIInv, BuildTypeOK
<1> QED
  BY <1>1, <1>2, <1>3, <1>4

\* The present version of the sources is one since the run began.
LEMMA NowIsBetween ==
  ASSUME BuildIInv, NEW s \in Trees
  PROVE  Between(tree[s], s)
BY DEF BuildIInv, BuildTypeOK, StartedBefore, Between

LEMMA BetweenStays ==
  ASSUME UNCHANGED <<tree, start>>, NEW n, NEW s
  PROVE  Between(n, s)' = Between(n, s)
BY DEF Between

LEMMA CopyKeeps ==
  ASSUME BuildIInv, CopySources
  PROVE  BuildIInv'
<1>1. /\ stage = "copy" /\ stage' = "copy_configure" /\ dir = None
      /\ UNCHANGED <<unit, tree, start, out, outcome>>
  BY DEF CopySources, Goto, inputs, BuildIInv, RunSoFar
<1>2. PICK j : j = tree["jemalloc"]
  OBVIOUS
<1>3. dir' = Dir(j, NoTree, None, None)
  BY <1>1, <1>2 DEF CopySources, Dir
<1>4. Between(j, "jemalloc")'
  BY <1>1, <1>2, NowIsBetween, BetweenStays DEF Trees
<1>5. \E i : Between(i, "jemalloc")' /\ dir' = Dir(i, NoTree, None, None)
  BY <1>3, <1>4
<1>6. RunSoFar'
  BY <1>1, <1>5, DecidedStays DEF RunSoFar, Dir, None, NoTree
<1>7. stage # "idle" /\ stage' \in Stages \ {"idle"}
  BY <1>1 DEF Stages
<1> QED
  BY <1>1, <1>6, <1>7, DecidedStays, StageKeeps

LEMMA CopyConfigureKeeps ==
  ASSUME BuildIInv, CopyConfigure
  PROVE  BuildIInv'
<1>1. /\ stage = "copy_configure" /\ stage' = "configure"
      /\ UNCHANGED <<unit, tree, start, out, outcome>>
  BY DEF CopyConfigure, Goto, inputs
<1>2. PICK c : c = tree["configure"]
  OBVIOUS
<1>3. PICK j : Between(j, "jemalloc") /\ dir = Dir(j, NoTree, None, None)
  BY <1>1 DEF BuildIInv, RunSoFar
<1>4. dir' = Dir(j, c, None, None)
  BY <1>1, <1>2, <1>3 DEF CopyConfigure, Dir
<1>5. Between(j, "jemalloc")' /\ Between(c, "configure")'
  BY <1>1, <1>2, <1>3, NowIsBetween, BetweenStays DEF Trees
<1>6. \E i, d : /\ Between(i, "jemalloc")' /\ Between(d, "configure")'
                /\ dir' = Dir(i, d, None, None)
  BY <1>4, <1>5
<1>7. RunSoFar'
  BY <1>1, <1>6, DecidedStays DEF RunSoFar, Dir, None
<1>8. stage # "idle" /\ stage' \in Stages \ {"idle"}
  BY <1>1 DEF Stages
<1> QED
  BY <1>1, <1>7, <1>8, DecidedStays, StageKeeps

LEMMA ConfigureKeeps ==
  ASSUME BuildIInv, Configure
  PROVE  BuildIInv'
<1>1. /\ stage = "configure" /\ stage' = "make"
      /\ UNCHANGED <<unit, tree, start, outcome>>
  BY DEF Configure, Goto, inputs
<1>2. PICK f, t, p, l : out = Directives(f, t, p, l)
  BY DEF BuildIInv, BuildTypeOK
<1>3. PICK w : w = f \cup UNION {Watched(v, Text) : v \in ConfigVars}
  OBVIOUS
<1>4. out' = Directives(w, t, p, l)
  BY <1>2, <1>3 DEF Configure, Directives
<1>5. PICK j, c : /\ Between(j, "jemalloc") /\ Between(c, "configure")
                  /\ dir = Dir(j, c, None, None)
  BY <1>1 DEF BuildIInv, RunSoFar
<1>6. dir' = Dir(j, c, Arguments, None)
  BY <1>5 DEF Configure, Dir
<1>7. Between(j, "jemalloc")' /\ Between(c, "configure")'
  BY <1>1, <1>5, BetweenStays
<1>8. \E i, d : /\ Between(i, "jemalloc")' /\ Between(d, "configure")'
                /\ dir' = Dir(i, d, Arguments', None)
  BY <1>1, <1>6, <1>7, ReadingsStay
<1>9. OverrideRead /\ "configure" \in out.trees
  BY <1>1 DEF BuildIInv, RunSoFar
<1>10. OverrideRead'
  BY <1>1, <1>2, <1>3, <1>4, <1>9, ReadingsStay DEF OverrideRead, Directives, OsText
<1>11. \A v \in ConfigVars : Watched(v, Text) \subseteq w
  BY <1>3
<1>12. VariablesRead'
  BY <1>1, <1>4, <1>11, ReadingsStay DEF VariablesRead, Directives, Text
<1>13. "configure" \in out'.trees
  BY <1>2, <1>4, <1>9 DEF Directives
<1>14. RunSoFar'
  BY <1>1, <1>8, <1>10, <1>12, <1>13 DEF RunSoFar, Dir, None
<1>15. stage # "idle" /\ stage' \in Stages \ {"idle"}
  BY <1>1 DEF Stages
<1> QED
  BY <1>1, <1>4, <1>14, <1>15, StageKeeps

\* make finds no objects: the directory was removed.
LEMMA MakeKeeps ==
  ASSUME BuildIInv, Make
  PROVE  BuildIInv'
<1>1. /\ stage = "make" /\ stage' = "link"
      /\ UNCHANGED <<unit, tree, start, out, outcome>>
  BY DEF Make, Goto, inputs
<1>2. PICK j, c : /\ Between(j, "jemalloc") /\ Between(c, "configure")
                  /\ dir = Dir(j, c, Arguments, None)
  BY <1>1 DEF BuildIInv, RunSoFar
<1>3. dir.objects = None
  BY <1>2 DEF Dir
<1>4. Compiled = Made(j, c)
  BY <1>2 DEF Compiled, Made, Dir
<1>5. dir' = [dir EXCEPT !.objects = Made(j, c)]
  BY <1>3, <1>4 DEF Make
<1>6. dir' = Dir(j, c, Arguments, Made(j, c))
  BY <1>2, <1>5 DEF Dir
<1>7. Between(j, "jemalloc")' /\ Between(c, "configure")'
  BY <1>1, <1>2, BetweenStays
<1>8. \E i, d : /\ Between(i, "jemalloc")' /\ Between(d, "configure")'
                /\ dir' = Dir(i, d, Arguments', Made(i, d)')
  BY <1>1, <1>6, <1>7, ReadingsStay
<1>9. VariablesRead
  BY <1>1 DEF BuildIInv, RunSoFar
<1>10. RunSoFar'
  BY <1>1, <1>8, <1>9, DecidedStays DEF RunSoFar, Dir
<1>11. stage # "idle" /\ stage' \in Stages \ {"idle"}
  BY <1>1 DEF Stages
<1> QED
  BY <1>1, <1>10, <1>11, DecidedStays, StageKeeps

LEMMA LinkKeeps ==
  ASSUME BuildIInv, Link
  PROVE  BuildIInv'
<1> DEFINE atfork == IF TargetHas("android") THEN {"pthread_atfork"} ELSE {}
<1>1. /\ stage = "link" /\ UNCHANGED <<unit, tree, start, dir>>
      /\ shim' = IF TargetHas("android") THEN tree["pthread_atfork"] ELSE shim
      /\ Finish([out EXCEPT !.link = BundledLibrary,
                                  !.trees = @ \cup {"jemalloc"} \cup atfork])
  BY DEF Link, inputs
<1>2. PICK f, t, p, l : out = Directives(f, t, p, l)
  BY DEF BuildIInv, BuildTypeOK
<1>3. PICK u : u = t \cup {"jemalloc"} \cup atfork
  OBVIOUS
<1>4. [out EXCEPT !.link = BundledLibrary, !.trees = @ \cup {"jemalloc"} \cup atfork] =
        Directives(f, u, p, BundledLibrary)
  <2>1. PICK r : r = out
    OBVIOUS
  <2>2. r.trees \cup {"jemalloc"} \cup atfork = u
    BY <1>2, <1>3, <2>1 DEF Directives
  <2>3. [r EXCEPT !.link = BundledLibrary, !.trees = u] =
          Directives(f, u, p, BundledLibrary)
    <3>1. PICK m : m = BundledLibrary
      OBVIOUS
    <3>2. r = [forms |-> f, trees |-> t, prefixed |-> p, link |-> l]
      BY <1>2, <2>1 DEF Directives
    <3>3. [r EXCEPT !.link = m] = [forms |-> f, trees |-> t, prefixed |-> p, link |-> m]
      BY <3>2
    <3>4. [[forms |-> f, trees |-> t, prefixed |-> p, link |-> m] EXCEPT !.trees = u] =
            [forms |-> f, trees |-> u, prefixed |-> p, link |-> m]
      OBVIOUS
    <3>5. [r EXCEPT !.link = m, !.trees = u] = [[r EXCEPT !.link = m] EXCEPT !.trees = u]
      OBVIOUS
    <3> QED
      BY <3>1, <3>3, <3>4, <3>5 DEF Directives
  <2> HIDE DEF atfork
  <2> QED
    BY <2>1, <2>2, <2>3
<1>5. Finish(Directives(f, u, p, BundledLibrary))
  BY <1>1, <1>4
<1>6. out' = Directives(f, u, p, BundledLibrary)
  BY <1>5 DEF Finish
<1>7. OverrideRead /\ VariablesRead /\ "configure" \in out.trees
  BY <1>1 DEF BuildIInv, RunSoFar
<1>8. PICK j, c : /\ Between(j, "jemalloc") /\ Between(c, "configure")
                  /\ dir = Dir(j, c, Arguments, Made(j, c))
  BY <1>1 DEF BuildIInv, RunSoFar
<1>9. Between(j, "jemalloc")' /\ Between(c, "configure")'
  BY <1>1, <1>8, BetweenStays
<1>10. \E i, d : /\ Between(i, "jemalloc")' /\ Between(d, "configure")'
                 /\ dir' = Dir(i, d, Arguments', Made(i, d)')
  BY <1>1, <1>8, <1>9, ReadingsStay
<1>11. OverrideRead' /\ VariablesRead'
  BY <1>1, <1>2, <1>6, <1>7, ReadingsStay
  DEF OverrideRead, VariablesRead, Directives, OsText, Text
<1>12. out'.link = BundledLibrary /\ {"configure", "jemalloc"} \subseteq out'.trees
  BY <1>2, <1>3, <1>6, <1>7 DEF Directives
<1>13. ASSUME TargetHas("android")
       PROVE  "pthread_atfork" \in out'.trees /\ Between(shim, "pthread_atfork")'
  <2>1. "pthread_atfork" \in out'.trees
    BY <1>3, <1>6, <1>13 DEF Directives
  <2>2. PICK m : m = tree["pthread_atfork"]
    OBVIOUS
  <2>3. Between(m, "pthread_atfork")' /\ shim' = m
    BY <1>1, <1>13, <2>2, NowIsBetween, BetweenStays DEF Trees
  <2> QED
    BY <2>1, <2>3 DEF Between
<1>14. TargetHas("android")' = TargetHas("android")
  BY <1>1, ReadingsStay
<1>15. Bundled'
  BY <1>10, <1>11, <1>12, <1>13, <1>14 DEF Bundled, Dir
<1> QED
  BY <1>1, <1>5, <1>15, FinishKeeps

LEMMA BuildStep ==
  ASSUME BuildIInv, [BuildNext]_buildVars
  PROVE  BuildIInv'
<1>1. CASE Script
  BY <1>1, TargetKeeps, OverrideKeeps, RemoveKeeps, CopyKeeps, CopyConfigureKeeps,
     ConfigureKeeps, MakeKeeps, LinkKeeps DEF Script
<1>2. CASE Cargo
  BY <1>2, CargoKeeps
<1>3. CASE Stop
  BY <1>3, EndsKeep DEF Stop, Goto, inputs
<1>4. tree \in [Trees -> Nat]
  BY DEF BuildIInv, BuildTypeOK
<1>5. ASSUME NEW f \in Forms, NEW v \in Values \cup {Absent}, EditEnv(f, v)
      PROVE  BuildIInv'
  BY <1>4, <1>5, EditsKeep DEF EditEnv
<1>6. ASSUME NEW s \in Trees, EditTree(s)
      PROVE  BuildIInv'
  <2>1. tree' \in [Trees -> Nat] /\ \A r \in Trees : tree[r] <= tree'[r]
    BY <1>4, <1>6 DEF EditTree
  <2> QED
    BY <1>6, <2>1, EditsKeep DEF EditTree
<1>7. CASE UNCHANGED buildVars
  BY <1>4, <1>7, EditsKeep DEF buildVars
<1> QED
  BY <1>1, <1>2, <1>3, <1>5, <1>6, <1>7 DEF BuildNext

\* Whatever is edited between the runs of the build script and during one, and
\* wherever runs end early, what Cargo takes for up to date was made from the
\* sources, the configure script and the variables as they are now (build.rs
\* and env.rs tell Cargo to watch every form that could matter, and remove the
\* build directory first).
THEOREM BuildsAreFresh == BuildSpec => []BuildIsFresh
<1>1. BuildInit => BuildIInv
  BY BuildInitHolds
<1>2. BuildIInv /\ [BuildNext]_buildVars => BuildIInv'
  BY BuildStep
<1>3. BuildIInv => BuildIsFresh
  BY UpToDate DEF BuildIsFresh
<1> QED
  BY <1>1, <1>2, <1>3, PTL DEF BuildSpec

\* The steps of the script that a run has left, at most.
StepsToEnd ==
  CASE stage = "target" -> 8
    [] stage = "override" -> 7
    [] stage = "remove" -> 6
    [] stage = "copy" -> 5
    [] stage = "copy_configure" -> 4
    [] stage = "configure" -> 3
    [] stage = "make" -> 2
    [] stage = "link" -> 1
    [] OTHER -> 0

\* Nothing is left to be built.
Settled == Usable \/ Rejected

\* A run goes through its stages in order.
LEMMA ScriptAdvances ==
  ASSUME Script
  PROVE  StepsToEnd' < StepsToEnd
<1> USE DEF Goto, StepsToEnd
<1>1. CASE CheckTarget
  BY <1>1 DEF CheckTarget, Panic
<1>2. CASE CheckOverride
  BY <1>2 DEF CheckOverride, Panic, Finish
<1>3. CASE RemoveBuildDir
  BY <1>3 DEF RemoveBuildDir
<1>4. CASE CopySources
  BY <1>4 DEF CopySources
<1>5. CASE CopyConfigure
  BY <1>5 DEF CopyConfigure
<1>6. CASE Configure
  BY <1>6 DEF Configure
<1>7. CASE Make
  BY <1>7 DEF Make
<1>8. CASE Link
  BY <1>8 DEF Link, Finish
<1> QED
  BY <1>1, <1>2, <1>3, <1>4, <1>5, <1>6, <1>7, <1>8 DEF Script

\* When a run ends well and nothing was edited since it began, Cargo has no
\* reason to run it again.
LEMMA QuietFinishSettles ==
  ASSUME NEW directives, Finish(directives), UNCHANGED inputs,
         start.env = env, start.tree = tree
  PROVE  Usable'
<1>1. outcome'.start = start /\ stage' = "idle"
  BY DEF Finish, Goto
<1>2. env' = env /\ tree' = tree
  BY DEF inputs
<1>3. \A f \in outcome'.out.forms : env'[f] = outcome'.start.env[f]
  BY <1>1, <1>2
<1>4. \A s \in outcome'.out.trees : tree'[s] = outcome'.start.tree[s]
  BY <1>1, <1>2
<1>5. outcome' # None
  BY DEF Finish, None
<1> QED
  BY <1>1, <1>3, <1>4, <1>5 DEF Usable, Dirty

\* When a run panics and nothing was edited since it began, it would panic
\* again.
LEMMA QuietRunEnds ==
  ASSUME Script, stage' = "idle", start.env = env, start.tree = tree
  PROVE  Settled'
<1>1. ASSUME Rejected, UNCHANGED inputs PROVE Settled'
  BY <1>1 DEF Settled, Rejected, Preferred, inputs
<1>2. CASE CheckTarget
  <2>1. Panic /\ \E n \in UNSUPPORTED_TARGETS : TargetHas(n)
    BY <1>2 DEF CheckTarget, Goto
  <2>2. Rejected
    BY <2>1 DEF Rejected, TargetHas
  <2> QED
    BY <1>1, <2>1, <2>2 DEF Panic
<1>3. CASE CheckOverride
  <2>1. CASE Panic /\ Found("override", OsText) \in Values \ Linkable
    <3>1. Preferred("override", Values) = Found("override", Values)
      BY ReadAgain
    <3>2. Rejected
      BY <2>1, <3>1 DEF Rejected, OsText
    <3> QED
      BY <1>1, <2>1, <3>2 DEF Panic
  <2>2. ASSUME NEW d, Finish(d), UNCHANGED inputs PROVE Settled'
    BY <2>2, QuietFinishSettles DEF Settled
  <2> QED
    BY <1>3, <2>1, <2>2, BuildAssumption DEF CheckOverride, Goto
<1>4. CASE Link
  <2>1. ASSUME NEW d, Finish(d), UNCHANGED inputs PROVE Settled'
    BY <2>1, QuietFinishSettles DEF Settled
  <2> QED
    BY <1>4, <2>1 DEF Link
<1>5. CASE RemoveBuildDir \/ CopySources \/ CopyConfigure \/ Configure \/ Make
  BY <1>5 DEF RemoveBuildDir, CopySources, CopyConfigure, Configure, Make, Goto
<1> QED
  BY <1>2, <1>3, <1>4, <1>5 DEF Script

\* Only an edit unsettles a build.
LEMMA SettledStays ==
  ASSUME Settled, [BuildNext]_buildVars, UNCHANGED inputs
  PROVE  Settled'
<1>1. CASE Rejected
  BY <1>1 DEF Settled, Rejected, Preferred, inputs
<1>2. CASE Usable
  <2>1. stage = "idle" /\ ~ Dirty
    BY <1>2 DEF Usable
  <2>2. ~ Script
    BY <2>1 DEF Script, CheckTarget, CheckOverride, RemoveBuildDir, CopySources,
         CopyConfigure, Configure, Make, Link
  <2>3. ~ Cargo /\ ~ Stop
    BY <2>1 DEF Cargo, Stop
  <2>4. UNCHANGED <<stage, outcome>>
    BY <2>2, <2>3 DEF BuildNext, EditEnv, EditTree, buildVars
  <2> QED
    BY <2>1, <2>4 DEF Settled, Usable, Dirty, inputs
<1> QED
  BY <1>1, <1>2 DEF Settled

\* The build comes to rest as soon as it is left alone, however it got where
\* it is: a run of build.rs has at most eight steps; if nothing was edited while
\* it ran, what it leaves is up to date or is what every run rejects, so that
\* nothing the script itself does or watches makes Cargo run it once more; and
\* that stays so until the next edit.
THEOREM QuietBuildsSettle ==
  BuildSpec =>
    [][/\ Script => StepsToEnd' < StepsToEnd
       /\ Script /\ stage' = "idle" /\ start.env = env /\ start.tree = tree =>
            Settled'
       /\ Settled /\ UNCHANGED inputs => Settled']_buildVars
<1>1. [BuildNext]_buildVars =>
        [/\ Script => StepsToEnd' < StepsToEnd
         /\ Script /\ stage' = "idle" /\ start.env = env /\ start.tree = tree =>
              Settled'
         /\ Settled /\ UNCHANGED inputs => Settled']_buildVars
  BY ScriptAdvances, QuietRunEnds, SettledStays
<1> QED
  BY <1>1, PTL DEF BuildSpec

=============================================================================

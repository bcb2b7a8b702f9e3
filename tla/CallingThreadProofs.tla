------------------------ MODULE CallingThreadProofs -------------------------
(***************************************************************************)
(* Proofs about ThreadSettings and ThreadCounters, for any number of       *)
(* threads, guards, size classes and blocks, any settings and any width of *)
(* the counters.                                                           *)
(***************************************************************************)
EXTENDS CallingThread, SequenceTheorems, FiniteSetTheorems, TLAPS

(* Numbers *)

LEMMA LeastExists ==
  ASSUME NEW S \in SUBSET Nat, S # {}
  PROVE  \E x \in S : \A y \in S : x <= y
<1>1. PICK x \in S : \A y \in S : ~ (<<y, x>> \in OpToRel(<, Nat))
  BY NatLessThanWellFounded, WFMin
<1>2. \A y \in S : ~ (y < x)
  BY <1>1 DEF OpToRel
<1>3. QED
  BY <1>2

LEMMA MinFacts ==
  ASSUME NEW S \in SUBSET Nat, S # {}
  PROVE  Min(S) \in S /\ \A y \in S : Min(S) <= y
BY LeastExists DEF Min

\* A remainder is the only number below the modulus that differs from the
\* dividend by a multiple of it.
LEMMA Remainder ==
  ASSUME NEW m \in Nat \ {0}, NEW x \in Int
  PROVE  /\ x % m \in 0..(m - 1)
         /\ \E q \in Int : x = m * q + (x % m)
<1>1. x = m * (x \div m) + (x % m) /\ x \div m \in Int
  OBVIOUS
<1>2. x % m \in 0..(m - 1)
  OBVIOUS
<1>3. QED
  BY <1>1, <1>2

LEMMA RemainderIsUnique ==
  ASSUME NEW m \in Nat \ {0}, NEW x \in Int, NEW r \in 0..(m - 1), NEW q \in Int,
         x = m * q + r
  PROVE  x % m = r
OBVIOUS

LEMMA RemainderOfSum ==
  ASSUME NEW m \in Nat \ {0}, NEW a \in Int, NEW n \in Int
  PROVE  ((a % m) + n) % m = (a + n) % m
<1>1. PICK q \in Int : a = m * q + (a % m)
  BY Remainder
<1>2. PICK x \in Int : x = (a % m) + n
  <2>1. a % m \in Int
    BY Remainder
  <2>2. QED
    BY <2>1
<1>3. PICK p \in Int : x = m * p + (x % m)
  BY Remainder
<1>4. PICK r \in 0..(m - 1) : r = x % m
  BY Remainder
<1>5. a + n = m * (q + p) + r
  <2>1. a + n = m * q + m * p + r
    BY <1>1, <1>2, <1>3, <1>4
  <2>2. m * (q + p) = m * q + m * p
    OBVIOUS
  <2>3. QED
    BY <2>1, <2>2
<1>6. q + p \in Int /\ a + n \in Int
  OBVIOUS
<1>7. (a + n) % m = r
  BY <1>5, <1>6, RemainderIsUnique
<1>8. QED
  BY <1>2, <1>4, <1>7

\* A word's difference is the true one, if that is less than the modulus.
LEMMA DifferenceOfRemainders ==
  ASSUME NEW m \in Nat \ {0}, NEW a \in Int, NEW b \in Int, b <= a, a - b < m
  PROVE  ((a % m) - (b % m)) % m = a - b
<1>1. PICK q \in Int : a = m * q + (a % m)
  BY Remainder
<1>2. PICK p \in Int : b = m * p + (b % m)
  BY Remainder
<1>3. PICK r \in Int : r = a % m
  BY Remainder
<1>4. PICK s \in Int : s = b % m
  BY Remainder
<1>5. a - b \in 0..(m - 1) /\ p - q \in Int /\ r - s \in Int
  OBVIOUS
<1>6. r - s = m * (p - q) + (a - b)
  <2>1. PICK mq \in Int, mp \in Int : mq = m * q /\ mp = m * p
    OBVIOUS
  <2>2. a = mq + r /\ b = mp + s
    BY <1>1, <1>2, <1>3, <1>4, <2>1
  <2>3. m * (p - q) = mp - mq
    BY <2>1
  <2>4. QED
    BY <2>2, <2>3
<1>7. (r - s) % m = a - b
  <2>1. PICK x \in Int, y \in Int, d \in 0..(m - 1) :
          x = r - s /\ y = p - q /\ d = a - b
    BY <1>5
  <2>2. x = m * y + d
    BY <1>6, <2>1
  <2>3. x % m = d
    BY <2>2, RemainderIsUnique
  <2>4. QED
    BY <2>1, <2>3
<1>8. QED
  BY <1>3, <1>4, <1>7

-----------------------------------------------------------------------------
(***************************************************************************)
(* Sums of functions over finite sets.  A sum is defined by recursion on   *)
(* the set of indices.  What holds of every set is shown by the absence of *)
(* a counterexample: among the subsets of a finite set that do not have a  *)
(* property there would be a minimal one.                                  *)
(***************************************************************************)

\* The index that the fold of the library takes first.
Pick(s) == CHOOSE x \in s : TRUE

\* g gives every set of indices of T the sum of f over it.
Sums(g, f, T) ==
  g = [s \in SUBSET T |-> IF s = {} THEN 0 ELSE f[Pick(s)] + g[s \ {Pick(s)}]]

\* If there is a table of sums, the library's sum is an entry of one.
LEMMA SumIsIter ==
  ASSUME NEW f, NEW T, NEW g, Sums(g, f, T)
  PROVE  \E h : Sums(h, f, T) /\ SumFunctionOnSet(f, T) = h[T]
<1> DEFINE iter == CHOOSE h : h =
             [s \in SUBSET T |->
                IF s = {} THEN 0
                ELSE f[CHOOSE x \in s : TRUE] + h[s \ {CHOOSE x \in s : TRUE}]]
<1>1. SumFunctionOnSet(f, T) = iter[T]
  BY Zenon DEF SumFunctionOnSet, FoldFunctionOnSet, MapThenFoldSet
<1>2. Sums(iter, f, T)
  BY Zenon DEF Sums, Pick
<1> QED
  BY <1>1, <1>2, Zenon

\* Of the subsets of a finite set some are minimal.
LEMMA MinimalSet ==
  ASSUME NEW S, IsFiniteSet(S), NEW F, F \subseteq SUBSET S, F # {}
  PROVE  \E T \in F : \A U \in F : U \subseteq T => U = T
<1>1. IsWellFoundedOn(StrictSubsetOrdering(S), SUBSET S)
  BY FS_FiniteSubsetsOfFinite, FS_StrictSubsetOrderingWellFounded
<1>2. PICK T \in F : \A U \in F : ~ (<<U, T>> \in StrictSubsetOrdering(S))
  BY <1>1, WFMin
<1>3. ASSUME NEW U \in F, U \subseteq T, U # T PROVE FALSE
  BY <1>2, <1>3 DEF StrictSubsetOrdering
<1> QED
  BY <1>3

\* Two tables of sums agree where both have an entry.
LEMMA SumsAgree ==
  ASSUME NEW f, NEW T, NEW U, NEW g, NEW h, Sums(g, f, T), Sums(h, f, U),
         NEW s, s \subseteq T, s \subseteq U, IsFiniteSet(s)
  PROVE  g[s] = h[s]
<1> DEFINE F == {u \in SUBSET s : g[u] # h[u]}
<1>1. SUFFICES ASSUME F # {} PROVE FALSE
  OBVIOUS
<1>2. PICK u \in F : \A v \in F : v \subseteq u => v = u
  <2>1. F \subseteq SUBSET s
    OBVIOUS
  <2> HIDE DEF F
  <2> QED
    BY <1>1, <2>1, MinimalSet
<1>3. u \in SUBSET T /\ u \in SUBSET U /\ u \in SUBSET s /\ g[u] # h[u]
  OBVIOUS
<1>4. /\ g[u] = IF u = {} THEN 0 ELSE f[Pick(u)] + g[u \ {Pick(u)}]
      /\ h[u] = IF u = {} THEN 0 ELSE f[Pick(u)] + h[u \ {Pick(u)}]
  BY <1>3, Zenon DEF Sums
<1>5. u # {}
  BY <1>3, <1>4
<1>6. Pick(u) \in u
  BY <1>5, Zenon DEF Pick
<1>7. g[u \ {Pick(u)}] = h[u \ {Pick(u)}]
  BY <1>2, <1>6
<1> QED
  BY <1>3, <1>4, <1>5, <1>7

\* Every finite set of indices has its table of sums.
LEMMA SumsExist ==
  ASSUME NEW f, NEW S, IsFiniteSet(S)
  PROVE  \E g : Sums(g, f, S)
<1> DEFINE F == {T \in SUBSET S : ~ \E g : Sums(g, f, T)}
<1>1. SUFFICES ASSUME F # {} PROVE FALSE
  OBVIOUS
<1>2. PICK T \in F : \A U \in F : U \subseteq T => U = T
  <2>1. F \subseteq SUBSET S
    OBVIOUS
  <2> HIDE DEF F
  <2> QED
    BY <1>1, <2>1, MinimalSet
<1>3. \A u \in SUBSET T : u # T => \E h : Sums(h, f, u)
  BY <1>2
<1> DEFINE part(u) == CHOOSE h : Sums(h, f, u)
           rest(s) == s \ {Pick(s)}
           g == [s \in SUBSET T |->
                   IF s = {} THEN 0 ELSE f[Pick(s)] + part(rest(s))[rest(s)]]
<1>4. ASSUME NEW u \in SUBSET T, u # T
      PROVE  Sums(part(u), f, u)
  BY <1>3, <1>4, Zenon
<1>5. ASSUME NEW u \in SUBSET T, u # {}
      PROVE  Pick(u) \in u /\ rest(u) \in SUBSET T /\ rest(u) # T /\ rest(u) \in SUBSET u
  <2>1. Pick(u) \in u
    BY <1>5, Zenon DEF Pick
  <2> QED
    BY <2>1
<1>6. ASSUME NEW u \in SUBSET T, u # T
      PROVE  part(u)[u] = g[u]
  <2>1. part(u)[u] = IF u = {} THEN 0 ELSE f[Pick(u)] + part(u)[rest(u)]
    <3> HIDE DEF part
    <3>1. u \in SUBSET u
      OBVIOUS
    <3> QED
      BY <1>4, <1>6, <3>1, Zenon DEF Sums
  <2>2. CASE u = {}
    BY <2>1, <2>2, Zenon
  <2>3. CASE u # {}
    <3>1. PICK v : v = rest(u)
      OBVIOUS
    <3>2. v \in SUBSET T /\ v # T /\ v \in SUBSET u
      BY <1>5, <2>3, <3>1
    <3>3. Sums(part(u), f, u) /\ Sums(part(v), f, v)
      BY <1>4, <1>6, <3>2
    <3>4. IsFiniteSet(v)
      BY <3>2, FS_Subset
    <3>5. part(u)[v] = part(v)[v]
      <4> HIDE DEF part
      <4> QED
        BY <3>2, <3>3, <3>4, SumsAgree
    <3>6. g[u] = f[Pick(u)] + part(v)[v]
      BY <2>3, <3>1
    <3> HIDE DEF part, g
    <3> QED
      BY <2>1, <2>3, <3>1, <3>5, <3>6
  <2> QED
    BY <2>2, <2>3
<1>7. Sums(g, f, T)
  <2>1. ASSUME NEW s \in SUBSET T
        PROVE  g[s] = IF s = {} THEN 0 ELSE f[Pick(s)] + g[rest(s)]
    <3>1. CASE s = {}
      BY <3>1, Zenon
    <3>2. CASE s # {}
      <4>1. rest(s) \in SUBSET T /\ rest(s) # T
        BY <1>5, <3>2
      <4>2. part(rest(s))[rest(s)] = g[rest(s)]
        <5> HIDE DEF part, rest, g
        <5> QED
          BY <1>6, <4>1
      <4>3. g[s] = f[Pick(s)] + part(rest(s))[rest(s)]
        BY <3>2, Zenon
      <4> HIDE DEF part, rest, g
      <4> QED
        BY <3>2, <4>2, <4>3, Zenon
    <3> QED
      BY <3>1, <3>2
  <2>2. g = [s \in SUBSET T |-> g[s]]
    OBVIOUS
  <2> HIDE DEF g, part
  <2> QED
    BY <2>1, <2>2, Zenon DEF Sums
<1> HIDE DEF g
<1> QED
  BY <1>7

\* The sum over no index and over one more.
LEMMA SumDef ==
  ASSUME NEW f, NEW T, IsFiniteSet(T)
  PROVE  SumFunctionOnSet(f, T) =
           IF T = {} THEN 0
           ELSE f[Pick(T)] + SumFunctionOnSet(f, T \ {Pick(T)})
<1>1. PICK h : Sums(h, f, T) /\ SumFunctionOnSet(f, T) = h[T]
  BY SumsExist, SumIsIter
<1>2. h[T] = IF T = {} THEN 0 ELSE f[Pick(T)] + h[T \ {Pick(T)}]
  <2>1. T \in SUBSET T
    OBVIOUS
  <2> QED
    BY <1>1, <2>1, Zenon DEF Sums
<1>3. PICK U : U = T \ {Pick(T)}
  OBVIOUS
<1>4. U \subseteq T /\ IsFiniteSet(U)
  BY <1>3, FS_Subset
<1>5. PICK k : Sums(k, f, U) /\ SumFunctionOnSet(f, U) = k[U]
  BY <1>4, SumsExist, SumIsIter
<1>6. h[U] = k[U]
  BY <1>1, <1>4, <1>5, SumsAgree
<1> QED
  BY <1>1, <1>2, <1>3, <1>5, <1>6

\* A sum of integers is one.
LEMMA SumType ==
  ASSUME NEW S, IsFiniteSet(S), NEW f, \A x \in S : f[x] \in Int
  PROVE  \A T \in SUBSET S : SumFunctionOnSet(f, T) \in Int
<1> DEFINE F == {T \in SUBSET S : SumFunctionOnSet(f, T) \notin Int}
<1>1. SUFFICES ASSUME F # {} PROVE FALSE
  OBVIOUS
<1>2. PICK T \in F : \A U \in F : U \subseteq T => U = T
  <2>1. F \subseteq SUBSET S
    OBVIOUS
  <2> HIDE DEF F
  <2> QED
    BY <1>1, <2>1, MinimalSet
<1>3. T \in SUBSET S /\ SumFunctionOnSet(f, T) \notin Int /\ IsFiniteSet(T)
  BY FS_Subset
<1>4. SumFunctionOnSet(f, T) =
        IF T = {} THEN 0 ELSE f[Pick(T)] + SumFunctionOnSet(f, T \ {Pick(T)})
  BY <1>3, SumDef
<1>5. T # {}
  BY <1>3, <1>4
<1>6. Pick(T) \in T
  BY <1>5, Zenon DEF Pick
<1>7. SumFunctionOnSet(f, T \ {Pick(T)}) \in Int
  BY <1>2, <1>6
<1>8. f[Pick(T)] \in Int
  BY <1>3, <1>6
<1> QED
  BY <1>3, <1>4, <1>5, <1>7, <1>8

\* Functions that agree on the indices have the same sum.
LEMMA SumSame ==
  ASSUME NEW S, IsFiniteSet(S), NEW f, NEW h, \A x \in S : f[x] = h[x]
  PROVE  SumFunctionOnSet(f, S) = SumFunctionOnSet(h, S)
<1> DEFINE F == {T \in SUBSET S : SumFunctionOnSet(f, T) # SumFunctionOnSet(h, T)}
<1>1. SUFFICES ASSUME F # {} PROVE FALSE
  OBVIOUS
<1>2. PICK T \in F : \A U \in F : U \subseteq T => U = T
  <2>1. F \subseteq SUBSET S
    OBVIOUS
  <2> HIDE DEF F
  <2> QED
    BY <1>1, <2>1, MinimalSet
<1>3. /\ T \in SUBSET S /\ IsFiniteSet(T)
      /\ SumFunctionOnSet(f, T) # SumFunctionOnSet(h, T)
  BY FS_Subset
<1>4. /\ SumFunctionOnSet(f, T) =
           IF T = {} THEN 0 ELSE f[Pick(T)] + SumFunctionOnSet(f, T \ {Pick(T)})
      /\ SumFunctionOnSet(h, T) =
           IF T = {} THEN 0 ELSE h[Pick(T)] + SumFunctionOnSet(h, T \ {Pick(T)})
  BY <1>3, SumDef
<1>5. T # {}
  BY <1>3, <1>4
<1>6. Pick(T) \in T
  BY <1>5, Zenon DEF Pick
<1>7. SumFunctionOnSet(f, T \ {Pick(T)}) = SumFunctionOnSet(h, T \ {Pick(T)})
  BY <1>2, <1>6
<1>8. f[Pick(T)] = h[Pick(T)]
  BY <1>3, <1>6
<1> QED
  BY <1>3, <1>4, <1>5, <1>7, <1>8

\* Any index may be taken out of a sum first.
LEMMA SumRemove ==
  ASSUME NEW S, IsFiniteSet(S), NEW f, \A x \in S : f[x] \in Int, NEW x \in S
  PROVE  SumFunctionOnSet(f, S) = f[x] + SumFunctionOnSet(f, S \ {x})
<1> DEFINE Total(T) == SumFunctionOnSet(f, T)
           F == {T \in SUBSET S : \E y \in T : Total(T) # f[y] + Total(T \ {y})}
<1>1. SUFFICES ASSUME F # {} PROVE FALSE
  OBVIOUS
<1>2. PICK T \in F : \A U \in F : U \subseteq T => U = T
  <2>1. F \subseteq SUBSET S
    OBVIOUS
  <2> HIDE DEF F
  <2> QED
    BY <1>1, <2>1, MinimalSet
<1>3. PICK y \in T : Total(T) # f[y] + Total(T \ {y})
  OBVIOUS
<1>4. T \in SUBSET S /\ T # {} /\ IsFiniteSet(T)
  BY FS_Subset
<1>5. PICK z : z = Pick(T)
  OBVIOUS
<1>6. z \in T /\ Total(T) = f[z] + Total(T \ {z})
  <2>1. Pick(T) \in T
    BY <1>4, Zenon DEF Pick
  <2> QED
    BY <1>4, <1>5, <2>1, SumDef
<1>7. y # z
  BY <1>3, <1>6
<1> DEFINE U == T \ {z}
           V == T \ {y}
           W2 == (T \ {z}) \ {y}
<1>8. Total(U) = f[y] + Total(W2)
  <2>1. U \in SUBSET S /\ U \notin F /\ y \in U
    BY <1>2, <1>4, <1>6, <1>7
  <2> QED
    BY <2>1
<1>9. Total(V) = f[z] + Total(W2)
  <2>1. V \in SUBSET S /\ V \notin F /\ z \in V
    BY <1>2, <1>4, <1>6, <1>7
  <2>2. V \ {z} = W2
    OBVIOUS
  <2>3. Total(V) = f[z] + Total(V \ {z})
    BY <2>1
  <2> QED
    BY <2>2, <2>3
<1>10. Total(W2) \in Int /\ f[y] \in Int /\ f[z] \in Int
  <2>1. W2 \in SUBSET S
    BY <1>4
  <2> QED
    BY <1>4, <1>6, <2>1, SumType
<1> HIDE DEF Total, W2
<1> QED
  BY <1>3, <1>6, <1>8, <1>9, <1>10

\* f and h have integers for the indices S, and may differ at x.
DifferAt(x, f, h, S) ==
  /\ x \in S
  /\ \A y \in S : f[y] \in Int /\ h[y] \in Int
  /\ \A y \in S \ {x} : f[y] = h[y]

\* A sum when one of the values is another.
LEMMA SumChange ==
  ASSUME NEW S, IsFiniteSet(S), NEW f, NEW h, NEW x, DifferAt(x, f, h, S)
  PROVE  /\ SumFunctionOnSet(f, S) \in Int
         /\ SumFunctionOnSet(h, S) = SumFunctionOnSet(f, S) + (h[x] - f[x])
<1> USE DEF DifferAt
<1>1. PICK T : T = S \ {x}
  OBVIOUS
<1>2. T \in SUBSET S /\ IsFiniteSet(T)
  BY <1>1, FS_Subset
<1>3. SumFunctionOnSet(f, T) = SumFunctionOnSet(h, T)
  BY <1>1, <1>2, SumSame
<1>4. SumFunctionOnSet(f, S) = f[x] + SumFunctionOnSet(f, T)
  BY <1>1, SumRemove
<1>5. SumFunctionOnSet(h, S) = h[x] + SumFunctionOnSet(h, T)
  BY <1>1, SumRemove
<1>6. SumFunctionOnSet(f, T) \in Int /\ f[x] \in Int /\ h[x] \in Int
  BY <1>2, SumType
<1> QED
  BY <1>3, <1>4, <1>5, <1>6

\* A sum of nothing but zeros is zero.
LEMMA SumOfZeros ==
  ASSUME NEW S, IsFiniteSet(S), NEW f, \A x \in S : f[x] = 0
  PROVE  SumFunctionOnSet(f, S) = 0
<1> DEFINE F == {T \in SUBSET S : SumFunctionOnSet(f, T) # 0}
<1>1. SUFFICES ASSUME F # {} PROVE FALSE
  OBVIOUS
<1>2. PICK T \in F : \A U \in F : U \subseteq T => U = T
  <2>1. F \subseteq SUBSET S
    OBVIOUS
  <2> HIDE DEF F
  <2> QED
    BY <1>1, <2>1, MinimalSet
<1>3. T \in SUBSET S /\ SumFunctionOnSet(f, T) # 0 /\ IsFiniteSet(T)
  BY FS_Subset
<1>4. SumFunctionOnSet(f, T) =
        IF T = {} THEN 0 ELSE f[Pick(T)] + SumFunctionOnSet(f, T \ {Pick(T)})
  BY <1>3, SumDef
<1>5. T # {}
  BY <1>3, <1>4
<1>6. Pick(T) \in T
  BY <1>5, Zenon DEF Pick
<1>7. SumFunctionOnSet(f, T \ {Pick(T)}) = 0 /\ f[Pick(T)] = 0
  BY <1>2, <1>3, <1>6
<1> QED
  BY <1>3, <1>4, <1>5, <1>7

-----------------------------------------------------------------------------
(* ThreadCounters *)

Handles == [tag : {"some"}, at : [Kinds -> Cells]]
Marks == [tag : {"some"}, value : [Kinds -> Nat], total : [Kinds -> Nat]]

CountersTypeOK ==
  /\ cell \in [Cells -> Nat]
  /\ total \in [Cells -> Nat]
  /\ size \in [Blocks -> Nat]
  /\ handle \in [Threads -> {NoRecord} \cup Handles]
  /\ mark \in [Threads -> {NoRecord} \cup Marks]

\* jemalloc's counters are the true ones, modulo the word.
CellsWrap == \A c \in Cells : cell[c] = total[c] % W

\* A handle points at the counters of its own thread, each at its own.
HandlesAreOwn ==
  \A t \in Threads : handle[t] # NoRecord => \A k \in Kinds : handle[t].at[k] = <<k, t>>

\* An observation was true when it was made, and the counters only grow.
MarksWereTrue ==
  \A t \in Threads : mark[t] # NoRecord =>
    \A k \in Kinds : /\ mark[t].value[k] = mark[t].total[k] % W
                     /\ mark[t].total[k] <= total[<<k, t>>]

\* The inductive invariant.
CountersIInv ==
  /\ CountersTypeOK
  /\ CellsWrap
  /\ HandlesAreOwn
  /\ MarksWereTrue

LEMMA CellsFacts ==
  /\ \A k \in Kinds, t \in Threads : <<k, t>> \in Cells
  /\ "allocated" \in Kinds /\ "deallocated" \in Kinds
BY DEF Cells, Kinds

LEMMA CountersInitIInv == CountersInit => CountersIInv
<1> SUFFICES ASSUME CountersInit PROVE CountersIInv
  OBVIOUS
<1> USE DEF CountersInit
<1>0. W \in Nat \ {0}
  BY CountersAssumption
<1>1. CountersTypeOK
  BY DEF CountersTypeOK
<1>2. CellsWrap
  <2>1. 0 % W = 0
    BY <1>0
  <2>2. QED
    BY <2>1 DEF CellsWrap
<1>3. HandlesAreOwn /\ MarksWereTrue
  BY DEF HandlesAreOwn, MarksWereTrue
<1>4. QED
  BY <1>1, <1>2, <1>3 DEF CountersIInv

\* jemalloc counts n bytes.
LEMMA CountKeepsIInv ==
  ASSUME CountersIInv, NEW k \in Kinds, NEW t \in Threads, NEW n \in Nat, Count(k, t, n),
         size' \in [Blocks -> Nat]
  PROVE  CountersIInv'
<1> DEFINE c == <<k, t>>
<1>0. /\ CountersTypeOK /\ CellsWrap /\ HandlesAreOwn /\ MarksWereTrue
      /\ W \in Nat \ {0} /\ c \in Cells
  BY CountersAssumption, CellsFacts DEF CountersIInv
<1>1. /\ total' = [total EXCEPT ![c] = @ + n]
      /\ cell' = [cell EXCEPT ![c] = (@ + n) % W]
      /\ UNCHANGED <<handle, mark>>
  BY DEF Count
<1>2. /\ total[c] \in Nat /\ total'[c] = total[c] + n
      /\ \A d \in Cells \ {c} : total'[d] = total[d]
      /\ total' \in [Cells -> Nat]
  BY <1>0, <1>1 DEF CountersTypeOK
<1>3. \A d \in Cells : total[d] \in Nat /\ total'[d] \in Nat /\ total[d] <= total'[d]
  BY <1>0, <1>2, SMTT(30) DEF CountersTypeOK
<1>4. cell'[c] = total'[c] % W /\ cell'[c] \in Nat
  <2>1. cell'[c] = (cell[c] + n) % W
    BY <1>0, <1>1 DEF CountersTypeOK
  <2>2. cell[c] = total[c] % W
    BY <1>0 DEF CellsWrap
  <2>3. (cell[c] + n) % W = (total[c] + n) % W
    <3>1. total[c] \in Int /\ n \in Int
      BY <1>2
    <3>2. ((total[c] % W) + n) % W = (total[c] + n) % W
      BY <1>0, <3>1, RemainderOfSum
    <3>3. QED
      BY <2>2, <3>2
  <2>4. (total[c] + n) % W \in Nat
    <3>1. total[c] + n \in Int
      BY <1>2
    <3>2. (total[c] + n) % W \in 0..(W - 1)
      BY <1>0, <3>1, Remainder
    <3>3. QED
      BY <1>0, <3>2
  <2>5. QED
    BY <1>2, <2>1, <2>3, <2>4
<1>5. /\ cell' \in [Cells -> Nat]
      /\ \A d \in Cells \ {c} : cell'[d] = cell[d]
  BY <1>0, <1>1, <1>4 DEF CountersTypeOK
<1>6. CellsWrap'
  BY <1>0, <1>2, <1>4, <1>5 DEF CellsWrap
<1>7. HandlesAreOwn'
  BY <1>0, <1>1 DEF HandlesAreOwn
<1>8. MarksWereTrue'
  <2> SUFFICES ASSUME NEW u \in Threads, mark[u] # NoRecord, NEW j \in Kinds
               PROVE  /\ mark[u].value[j] = mark[u].total[j] % W
                      /\ mark[u].total[j] <= total'[<<j, u>>]
    BY <1>1 DEF MarksWereTrue
  <2>1. mark[u].total[j] \in Nat
    BY <1>0 DEF CountersTypeOK, Marks
  <2>2. /\ mark[u].value[j] = mark[u].total[j] % W
        /\ mark[u].total[j] <= total[<<j, u>>]
    BY <1>0 DEF MarksWereTrue
  <2>3. QED
    BY <1>3, <2>1, <2>2, CellsFacts
<1>9. CountersTypeOK'
  BY <1>0, <1>1, <1>2, <1>5 DEF CountersTypeOK
<1>10. QED
  BY <1>6, <1>7, <1>8, <1>9 DEF CountersIInv

\* An observation that is true keeps the invariant.
LEMMA ObserveKeepsIInv ==
  ASSUME CountersIInv, NEW t \in Threads, NEW v \in [Kinds -> Nat],
         \A k \in Kinds : v[k] = total[<<k, t>>] % W,
         mark' = [mark EXCEPT ![t] =
                    [tag |-> "some", value |-> v,
                     total |-> [k \in Kinds |-> total[<<k, t>>]]]],
         UNCHANGED <<cell, total, size, handle>>
  PROVE  CountersIInv'
<1>0. /\ CountersTypeOK /\ CellsWrap /\ HandlesAreOwn /\ MarksWereTrue
  BY DEF CountersIInv
<1>1. PICK tot : tot = [k \in Kinds |-> total[<<k, t>>]]
  OBVIOUS
<1>2. tot \in [Kinds -> Nat] /\ \A k \in Kinds : tot[k] = total[<<k, t>>]
  BY <1>0, <1>1, CellsFacts DEF CountersTypeOK
<1>3. PICK m : m = [tag |-> "some", value |-> v, total |-> tot]
  OBVIOUS
<1>4. m \in Marks /\ m.value = v /\ m.total = tot
  BY <1>2, <1>3 DEF Marks
<1>5. mark' = [mark EXCEPT ![t] = m]
  BY <1>1, <1>3
<1>6. CountersTypeOK'
  BY <1>0, <1>4, <1>5 DEF CountersTypeOK
<1>7. MarksWereTrue'
  <2> SUFFICES ASSUME NEW u \in Threads, mark'[u] # NoRecord, NEW j \in Kinds
               PROVE  /\ mark'[u].value[j] = mark'[u].total[j] % W
                      /\ mark'[u].total[j] <= total[<<j, u>>]
    BY DEF MarksWereTrue
  <2>1. CASE u = t
    <3>1. mark'[u] = m
      BY <1>0, <1>5, <2>1 DEF CountersTypeOK
    <3>2. total[<<j, u>>] \in Nat
      BY <1>0, CellsFacts DEF CountersTypeOK
    <3>3. QED
      BY <1>2, <1>4, <2>1, <3>1, <3>2
  <2>2. CASE u # t
    <3>1. mark'[u] = mark[u]
      BY <1>0, <1>5, <2>2 DEF CountersTypeOK
    <3>2. QED
      BY <1>0, <3>1 DEF MarksWereTrue
  <2>3. QED
    BY <2>1, <2>2
<1>8. CellsWrap' /\ HandlesAreOwn'
  BY <1>0 DEF CellsWrap, HandlesAreOwn
<1>9. QED
  BY <1>6, <1>7, <1>8 DEF CountersIInv

LEMMA CountersNextIInv == CountersIInv /\ [CountersNext]_countersVars => CountersIInv'
<1> SUFFICES ASSUME CountersIInv, [CountersNext]_countersVars PROVE CountersIInv'
  OBVIOUS
<1>0. /\ CountersTypeOK /\ CellsWrap /\ HandlesAreOwn /\ MarksWereTrue
  BY DEF CountersIInv
<1>1. ASSUME NEW t \in Threads, NEW b \in Blocks, Deallocate(t, b) PROVE CountersIInv'
  <2>1. size[b] \in Nat /\ size' \in [Blocks -> Nat] /\ Count("deallocated", t, size[b])
    BY <1>0, <1>1 DEF Deallocate, CountersTypeOK
  <2>2. QED
    BY <2>1, CountKeepsIInv, CellsFacts
<1>2. ASSUME NEW t \in Threads, NEW b \in Blocks, NEW n \in Sizes, Allocate(t, b, n)
      PROVE  CountersIInv'
  <2>1. n \in Nat
    BY CountersAssumption
  <2>2. size' \in [Blocks -> Nat] /\ Count("allocated", t, n)
    BY <1>0, <1>2, <2>1 DEF Allocate, CountersTypeOK
  <2>3. QED
    BY <2>1, <2>2, CountKeepsIInv, CellsFacts
<1>3. ASSUME NEW t \in Threads, current(t) PROVE CountersIInv'
  <2>0. UNCHANGED <<cell, total, size, mark>>
    BY <1>3 DEF current
  <2>1. PICK at : at = [k \in Kinds |-> <<k, t>>]
    OBVIOUS
  <2>2. at \in [Kinds -> Cells] /\ \A k \in Kinds : at[k] = <<k, t>>
    BY <2>1, CellsFacts
  <2>3. PICK h : h = [tag |-> "some", at |-> at]
    OBVIOUS
  <2>4. h \in Handles /\ h.at = at
    BY <2>2, <2>3 DEF Handles
  <2>5. handle' = [handle EXCEPT ![t] = h]
    BY <1>3, <2>1, <2>3 DEF current, KeyOf
  <2>6. CountersTypeOK'
    BY <1>0, <2>0, <2>4, <2>5 DEF CountersTypeOK
  <2>7. HandlesAreOwn'
    <3>1. handle'[t] = h /\ \A u \in Threads \ {t} : handle'[u] = handle[u]
      BY <1>0, <2>5 DEF CountersTypeOK
    <3>2. QED
      BY <1>0, <2>2, <2>4, <3>1 DEF HandlesAreOwn
  <2>8. CellsWrap' /\ MarksWereTrue'
    BY <1>0, <2>0 DEF CellsWrap, MarksWereTrue
  <2>9. QED
    BY <2>6, <2>7, <2>8 DEF CountersIInv
<1>4. ASSUME NEW t \in Threads, NEW v, Observe(t, Query), v = [k \in Kinds |-> Query(t, k)]
      PROVE  CountersIInv'
  <2>1. v \in [Kinds -> Nat] /\ \A k \in Kinds : v[k] = total[<<k, t>>] % W
    BY <1>0, <1>4, CellsFacts DEF Query, CountersTypeOK, CellsWrap
  <2>2. mark' = [mark EXCEPT ![t] =
                   [tag |-> "some", value |-> v,
                    total |-> [k \in Kinds |-> total[<<k, t>>]]]]
    BY <1>4 DEF Observe
  <2>3. UNCHANGED <<cell, total, size, handle>>
    BY <1>4 DEF Observe
  <2>4. QED
    BY <2>1, <2>2, <2>3, ObserveKeepsIInv
<1>5. ASSUME NEW t \in Threads, NEW v, handle[t] # NoRecord, Observe(t, Load),
             v = [k \in Kinds |-> Load(t, k)]
      PROVE  CountersIInv'
  <2>1. v \in [Kinds -> Nat] /\ \A k \in Kinds : v[k] = total[<<k, t>>] % W
    <3>1. \A k \in Kinds : Load(t, k) = cell[<<k, t>>]
      BY <1>0, <1>5 DEF Load, HandlesAreOwn
    <3>2. QED
      BY <1>0, <1>5, <3>1, CellsFacts DEF CountersTypeOK, CellsWrap
  <2>2. mark' = [mark EXCEPT ![t] =
                   [tag |-> "some", value |-> v,
                    total |-> [k \in Kinds |-> total[<<k, t>>]]]]
    BY <1>5 DEF Observe
  <2>3. UNCHANGED <<cell, total, size, handle>>
    BY <1>5 DEF Observe
  <2>4. QED
    BY <2>1, <2>2, <2>3, ObserveKeepsIInv
<1>6. CASE UNCHANGED countersVars
  <2>1. CountersTypeOK' /\ CellsWrap' /\ HandlesAreOwn'
    BY <1>0, <1>6 DEF countersVars, CountersTypeOK, CellsWrap, HandlesAreOwn
  <2>2. MarksWereTrue'
    BY <1>0, <1>6 DEF countersVars, MarksWereTrue
  <2>3. QED
    BY <2>1, <2>2 DEF CountersIInv
<1>7. QED
  BY <1>1, <1>2, <1>3, <1>4, <1>5, <1>6
  DEF CountersNext, ObserveByCalls, ObserveByHandle

LEMMA CountersAlwaysIInv == CountersSpec => []CountersIInv
BY CountersInitIInv, CountersNextIInv, PTL DEF CountersSpec

\* The difference of two observations is what the thread itself allocated or
\* freed in between, over a wrap of the counter too.
THEOREM CountersDiffer == CountersSpec => []DifferencesAreExact
<1>1. CountersIInv => DifferencesAreExact
  <2> SUFFICES ASSUME CountersIInv, NEW t \in Threads, NEW k \in Kinds,
                      handle[t] # NoRecord, mark[t] # NoRecord,
                      total[<<k, t>>] - mark[t].total[k] < W
               PROVE  (Load(t, k) - mark[t].value[k]) % W
                        = total[<<k, t>>] - mark[t].total[k]
    BY DEF DifferencesAreExact
  <2>1. Load(t, k) = total[<<k, t>>] % W
    BY CellsFacts DEF CountersIInv, CellsWrap, HandlesAreOwn, Load
  <2>2. /\ mark[t].value[k] = mark[t].total[k] % W
        /\ mark[t].total[k] <= total[<<k, t>>]
    BY DEF CountersIInv, MarksWereTrue
  <2>3. mark[t].total[k] \in Nat /\ total[<<k, t>>] \in Nat
    BY CellsFacts DEF CountersIInv, CountersTypeOK, Marks
  <2>4. PICK a \in Int, b \in Int : a = total[<<k, t>>] /\ b = mark[t].total[k]
    BY <2>3
  <2>5. ((a % W) - (b % W)) % W = a - b
    BY <2>2, <2>4, CountersAssumption, DifferenceOfRemainders
  <2>6. QED
    BY <2>1, <2>2, <2>4, <2>5
<1>2. QED
  BY <1>1, CountersAlwaysIInv, PTL

\* What the counters of each thread say it has in use.
InUse == [t \in Threads |-> cell[<<"allocated", t>>] - cell[<<"deallocated", t>>]]

\* What the threads have in use and the sizes of the blocks differ by a
\* multiple of the word.
AddsUp(used, sizes) ==
  (SumFunctionOnSet(used, Threads) - SumFunctionOnSet(sizes, Blocks)) % W = 0

\* The inductive invariant of UseAddsUp, beside CountersIInv: it is about the
\* counters themselves, whether or not a handle points at them.
CountersAddUp == AddsUp(InUse, size)

\* A thread counts d bytes of a block, and its counter may wrap.
LEMMA StillAddsUp ==
  ASSUME NEW used, NEW used2, NEW sizes, NEW sizes2, NEW t, NEW b,
         NEW d \in Int, NEW q \in Int, NEW mq \in Int, mq = W * q,
         DifferAt(t, used, used2, Threads), used2[t] = used[t] + (d - mq),
         DifferAt(b, sizes, sizes2, Blocks), sizes2[b] = sizes[b] + d,
         AddsUp(used, sizes)
  PROVE  AddsUp(used2, sizes2)
<1>0. W \in Nat \ {0} /\ IsFiniteSet(Threads) /\ IsFiniteSet(Blocks)
  BY CountersAssumption
<1>1. PICK u : u = SumFunctionOnSet(used, Threads)
  OBVIOUS
<1>2. PICK s : s = SumFunctionOnSet(sizes, Blocks)
  OBVIOUS
<1>3. u \in Int /\ SumFunctionOnSet(used2, Threads) = u + (d - mq)
  <2>1. used2[t] - used[t] = d - mq
    BY DEF DifferAt
  <2>2. /\ SumFunctionOnSet(used, Threads) \in Int
        /\ SumFunctionOnSet(used2, Threads) =
             SumFunctionOnSet(used, Threads) + (used2[t] - used[t])
    BY <1>0, SumChange
  <2> QED
    BY <1>1, <2>1, <2>2
<1>4. s \in Int /\ SumFunctionOnSet(sizes2, Blocks) = s + d
  <2>1. sizes2[b] - sizes[b] = d
    BY DEF DifferAt
  <2>2. /\ SumFunctionOnSet(sizes, Blocks) \in Int
        /\ SumFunctionOnSet(sizes2, Blocks) =
             SumFunctionOnSet(sizes, Blocks) + (sizes2[b] - sizes[b])
    BY <1>0, SumChange
  <2> QED
    BY <1>2, <2>1, <2>2
<1>5. PICK x \in Int : x = u - s
  BY <1>3, <1>4
<1>6. x % W = 0
  BY <1>1, <1>2, <1>5 DEF AddsUp
<1>7. PICK p \in Int : x = W * p + (x % W)
  BY <1>0, Remainder
<1>8. PICK y \in Int : y = x - mq
  OBVIOUS
<1>9. y = W * (p - q) + 0
  <2>1. PICK mp \in Int : mp = W * p
    BY <1>0
  <2>2. x = mp
    BY <1>6, <1>7, <2>1
  <2>3. W * (p - q) = mp - mq
    BY <1>0, <2>1
  <2> QED
    BY <1>8, <2>2, <2>3
<1>10. y % W = 0
  <2>1. p - q \in Int /\ 0 \in 0..(W - 1)
    BY <1>0
  <2> QED
    BY <1>0, <1>9, <2>1, RemainderIsUnique
<1>11. SumFunctionOnSet(used2, Threads) - SumFunctionOnSet(sizes2, Blocks) = y
  BY <1>3, <1>4, <1>5, <1>8
<1> QED
  BY <1>10, <1>11 DEF AddsUp

\* What a thread has in use when one of its counters changes.
LEMMA CountChangesUse ==
  ASSUME CountersIInv, NEW k \in Kinds, NEW t \in Threads, NEW n \in Nat, Count(k, t, n),
         NEW d \in Int, d = IF k = "allocated" THEN n ELSE -n
  PROVE  \E q, mq \in Int : /\ mq = W * q
                            /\ InUse' = [InUse EXCEPT ![t] = InUse[t] + (d - mq)]
<1> DEFINE c == <<k, t>>
<1>0. W \in Nat \ {0} /\ cell \in [Cells -> Nat] /\ c \in Cells
  BY CountersAssumption, CellsFacts DEF CountersIInv, CountersTypeOK
<1>1. cell' = [cell EXCEPT ![c] = (cell[c] + n) % W]
  BY DEF Count
<1>2. PICK x \in Int : x = cell[c] + n
  BY <1>0
<1>3. PICK q \in Int : x = W * q + (x % W)
  BY <1>0, Remainder
<1>4. PICK mq \in Int : mq = W * q
  BY <1>0
<1>5. PICK r \in Int : r = x % W
  <2>1. x % W \in 0..(W - 1)
    BY <1>0, Remainder
  <2> QED
    BY <1>0, <2>1
<1>6. cell' = [cell EXCEPT ![c] = r] /\ r = cell[c] + n - mq
  BY <1>0, <1>1, <1>2, <1>3, <1>4, <1>5
<1>7. \A j \in Kinds, u \in Threads :
        /\ <<j, u>> \in Cells /\ cell[<<j, u>>] \in Nat
        /\ cell'[<<j, u>>] = IF j = k /\ u = t THEN r ELSE cell[<<j, u>>]
  <2> SUFFICES ASSUME NEW j \in Kinds, NEW u \in Threads
               PROVE  /\ <<j, u>> \in Cells /\ cell[<<j, u>>] \in Nat
                      /\ cell'[<<j, u>>] = IF j = k /\ u = t THEN r ELSE cell[<<j, u>>]
    OBVIOUS
  <2>1. <<j, u>> \in Cells
    BY CellsFacts
  <2>2. <<j, u>> = c <=> j = k /\ u = t
    OBVIOUS
  <2> QED
    BY <1>0, <1>6, <2>1, <2>2
<1>8. ASSUME NEW u \in Threads
      PROVE  cell'[<<"allocated", u>>] - cell'[<<"deallocated", u>>] =
               IF u = t
               THEN (cell[<<"allocated", u>>] - cell[<<"deallocated", u>>])
                      + (IF k = "allocated" THEN r - cell[c] ELSE cell[c] - r)
               ELSE cell[<<"allocated", u>>] - cell[<<"deallocated", u>>]
  <2>1. CASE k = "allocated"
    BY <1>7, <2>1, CellsFacts
  <2>2. CASE k = "deallocated"
    BY <1>7, <2>2, CellsFacts
  <2> QED
    BY <2>1, <2>2 DEF Kinds
<1>9. /\ InUse \in [Threads -> Int]
      /\ InUse' = [u \in Threads |-> cell'[<<"allocated", u>>] - cell'[<<"deallocated", u>>]]
  BY <1>7, CellsFacts DEF InUse
<1>10. CASE k = "allocated"
  <2>1. d = n /\ r - cell[c] = d - mq
    BY <1>0, <1>6, <1>10
  <2>2. InUse' = [InUse EXCEPT ![t] = InUse[t] + (d - mq)]
    BY <1>8, <1>9, <1>10, <2>1 DEF InUse
  <2> QED
    BY <1>4, <2>2
<1>11. CASE k = "deallocated"
  <2>1. PICK p \in Int, mp \in Int : p = -q /\ mp = W * p /\ mp = -mq
    BY <1>0, <1>4
  <2>2. d = -n /\ cell[c] - r = d - mp
    BY <1>0, <1>6, <1>11, <2>1
  <2>3. InUse' = [InUse EXCEPT ![t] = InUse[t] + (d - mp)]
    BY <1>8, <1>9, <1>11, <2>2 DEF InUse
  <2> QED
    BY <2>1, <2>3
<1> QED
  BY <1>10, <1>11 DEF Kinds

\* An allocation and a deallocation change one thread's use and one block's
\* size alike, but for a multiple of the word; nothing else changes either.
LEMMA CountersAlwaysAddUp == CountersSpec => []CountersAddUp
<1>1. CountersInit => CountersAddUp
  <2> SUFFICES ASSUME CountersInit PROVE CountersAddUp
    OBVIOUS
  <2>1. \A t \in Threads : InUse[t] = 0
    BY CellsFacts DEF CountersInit, InUse
  <2>2. \A b \in Blocks : size[b] = 0
    BY DEF CountersInit
  <2>3. PICK f, s : f = InUse /\ s = size
    OBVIOUS
  <2>4. SumFunctionOnSet(f, Threads) = 0 /\ SumFunctionOnSet(s, Blocks) = 0
    BY <2>1, <2>2, <2>3, CountersAssumption, SumOfZeros
  <2>5. (0 - 0) % W = 0
    BY CountersAssumption
  <2> QED
    BY <2>3, <2>4, <2>5 DEF CountersAddUp, AddsUp
<1>2. CountersIInv /\ CountersAddUp /\ [CountersNext]_countersVars => CountersAddUp'
  <2> SUFFICES ASSUME CountersIInv, CountersAddUp, [CountersNext]_countersVars
               PROVE  CountersAddUp'
    OBVIOUS
  <2>0. /\ InUse \in [Threads -> Int] /\ size \in [Blocks -> Nat]
        /\ Sizes \subseteq Nat
    BY CountersAssumption, CellsFacts DEF CountersIInv, CountersTypeOK, InUse
  <2>1. ASSUME NEW t \in Threads, NEW b \in Blocks, NEW n \in Nat, NEW k \in Kinds,
               NEW d \in Int, d = IF k = "allocated" THEN n ELSE -n,
               Count(k, t, n), size' = [size EXCEPT ![b] = size[b] + d]
        PROVE  CountersAddUp'
    <3>1. PICK q, mq \in Int :
            mq = W * q /\ InUse' = [InUse EXCEPT ![t] = InUse[t] + (d - mq)]
      BY <2>1, CountChangesUse
    <3>2. PICK f, f2, s, s2 : f = InUse /\ f2 = InUse' /\ s = size /\ s2 = size'
      OBVIOUS
    <3>3. /\ AddsUp(f, s)
          /\ DifferAt(t, f, f2, Threads) /\ f2[t] = f[t] + (d - mq)
          /\ DifferAt(b, s, s2, Blocks) /\ s2[b] = s[b] + d
      BY <2>0, <2>1, <3>1, <3>2 DEF CountersAddUp, DifferAt
    <3>4. AddsUp(f2, s2)
      BY <3>1, <3>3, StillAddsUp
    <3> QED
      BY <3>2, <3>4 DEF CountersAddUp, AddsUp
  <2>2. ASSUME NEW t \in Threads, NEW b \in Blocks, Deallocate(t, b)
        PROVE  CountersAddUp'
    <3>1. PICK n \in Nat, d \in Int : n = size[b] /\ d = -n
      BY <2>0
    <3>2. size[b] + d = 0
      BY <3>1
    <3>3. Count("deallocated", t, n) /\ size' = [size EXCEPT ![b] = size[b] + d]
      BY <2>2, <3>1, <3>2, Zenon DEF Deallocate
    <3> QED
      BY <2>1, <3>1, <3>3, CellsFacts
  <2>3. ASSUME NEW t \in Threads, NEW b \in Blocks, NEW n \in Sizes, Allocate(t, b, n)
        PROVE  CountersAddUp'
    <3>1. PICK d \in Int : n \in Nat /\ d = n
      BY <2>0
    <3>2. /\ Count("allocated", t, n) /\ size[b] + d = n
          /\ size' = [size EXCEPT ![b] = size[b] + d]
      BY <2>3, <3>1 DEF Allocate
    <3> QED
      BY <2>1, <3>1, <3>2, CellsFacts
  <2>4. CASE UNCHANGED <<cell, size>>
    <3>1. InUse' = InUse
      BY <2>4 DEF InUse
    <3> QED
      BY <2>4, <3>1 DEF CountersAddUp, AddsUp
  <2>5. CASE \E t \in Threads : current(t) \/ ObserveByCalls(t) \/ ObserveByHandle(t)
    BY <2>4, <2>5 DEF current, ObserveByCalls, ObserveByHandle, Observe
  <2> QED
    BY <2>2, <2>3, <2>4, <2>5 DEF CountersNext, countersVars
<1> QED
  BY <1>1, <1>2, CountersAlwaysIInv, PTL DEF CountersSpec

\* What the handles of all the threads report adds up to the bytes in use, for
\* any number of threads and blocks, whoever freed what and whatever wrapped.
THEOREM UseIsAddedUp == CountersSpec => []UseAddsUp
<1>1. CountersIInv /\ CountersAddUp => UseAddsUp
  <2> SUFFICES ASSUME CountersIInv, CountersAddUp,
                      \A t \in Threads : handle[t] # NoRecord
               PROVE  (SumFunction([t \in Threads |-> Load(t, "allocated")
                                                        - Load(t, "deallocated")])
                         - SumFunction(size)) % W = 0
    BY DEF UseAddsUp
  <2>1. [t \in Threads |-> Load(t, "allocated") - Load(t, "deallocated")] = InUse
    BY CellsFacts DEF CountersIInv, HandlesAreOwn, Load, InUse
  <2>2. DOMAIN InUse = Threads /\ DOMAIN size = Blocks
    BY DEF CountersIInv, CountersTypeOK, InUse
  <2> QED
    BY <2>1, <2>2 DEF CountersAddUp, AddsUp, SumFunction
<1> QED
  BY <1>1, CountersAlwaysIInv, CountersAlwaysAddUp, PTL

-----------------------------------------------------------------------------
(* ThreadSettings: guards and scopes *)

Names == Own \cup {MAX}

\* The settings a name may have.
ValuesOf(n) == IF n = MAX THEN Classes ELSE BOOLEAN

Guards == [name : Names, previous : BOOLEAN \cup Classes]

\* Those of the first i guards that are of the name n, and how many they are.
OfName(gs, n, i) == {j \in 1..i : gs[j].name = n}
Below(gs, n, i) == Cardinality(OfName(gs, n, i))

\* gs are the open guards of a thread and ms what it means each setting to be:
\* one scope more than guards of that name, and a guard holds the setting of the
\* scope around it.
Balanced(gs, ms) ==
  /\ gs \in Seq(Guards)
  /\ DOMAIN ms = Names /\ ms = [n \in Names |-> ms[n]]
  /\ \A n \in Names : /\ ms[n] \in Seq(ValuesOf(n))
                      /\ Len(ms[n]) = 1 + Below(gs, n, Len(gs))
  /\ \A i \in 1..Len(gs) :
       gs[i].previous = ms[gs[i].name][1 + Below(gs, gs[i].name, i - 1)]

LEMMA OfNameIsFinite ==
  ASSUME NEW gs, NEW n, NEW i \in Nat
  PROVE  IsFiniteSet(OfName(gs, n, i))
<1>1. IsFiniteSet(1..i)
  BY FS_Interval
<1>2. OfName(gs, n, i) \in SUBSET (1..i)
  BY DEF OfName
<1>3. QED
  BY <1>1, <1>2, FS_Subset

LEMMA BelowType ==
  ASSUME NEW gs, NEW n, NEW i \in Nat
  PROVE  Below(gs, n, i) \in Nat
BY OfNameIsFinite, FS_CardinalityType DEF Below

LEMMA BelowNothing ==
  ASSUME NEW gs, NEW n
  PROVE  Below(gs, n, 0) = 0
<1>1. OfName(gs, n, 0) = {}
  BY DEF OfName
<1>2. QED
  BY <1>1, FS_EmptySet DEF Below

LEMMA BelowNext ==
  ASSUME NEW gs, NEW n, NEW i \in Nat
  PROVE  Below(gs, n, i + 1) =
           IF gs[i + 1].name = n THEN Below(gs, n, i) + 1 ELSE Below(gs, n, i)
<1>1. IsFiniteSet(OfName(gs, n, i))
  BY OfNameIsFinite
<1>2. CASE gs[i + 1].name = n
  <2>1. OfName(gs, n, i + 1) = OfName(gs, n, i) \cup {i + 1}
    BY <1>2 DEF OfName
  <2>2. i + 1 \notin OfName(gs, n, i)
    BY DEF OfName
  <2>3. Cardinality(OfName(gs, n, i) \cup {i + 1}) = Cardinality(OfName(gs, n, i)) + 1
    BY <1>1, <2>2, FS_AddElement
  <2>4. QED
    BY <1>2, <2>1, <2>3 DEF Below
<1>3. CASE gs[i + 1].name # n
  <2>1. OfName(gs, n, i + 1) = OfName(gs, n, i)
    BY <1>3 DEF OfName
  <2>2. QED
    BY <1>3, <2>1 DEF Below
<1>4. QED
  BY <1>2, <1>3

LEMMA BelowGrows ==
  ASSUME NEW gs, NEW n, NEW i \in Nat, NEW k \in Nat, i <= k
  PROVE  Below(gs, n, i) <= Below(gs, n, k)
<1>1. OfName(gs, n, i) \in SUBSET OfName(gs, n, k)
  BY DEF OfName
<1>2. IsFiniteSet(OfName(gs, n, k))
  BY OfNameIsFinite
<1>3. QED
  BY <1>1, <1>2, FS_Subset DEF Below

LEMMA BelowSame ==
  ASSUME NEW gs, NEW hs, NEW n, NEW i \in Nat, \A j \in 1..i : gs[j] = hs[j]
  PROVE  Below(gs, n, i) = Below(hs, n, i)
<1>1. OfName(gs, n, i) = OfName(hs, n, i)
  BY DEF OfName
<1>2. QED
  BY <1>1 DEF Below

\* A guard is opened around the innermost scope of its setting.
LEMMA PushKeepsBalance ==
  ASSUME NEW gs, NEW ms, Balanced(gs, ms), NEW g \in Guards, NEW now \in ValuesOf(g.name),
         g.previous = Last(ms[g.name])
  PROVE  /\ Balanced(Append(gs, g), [ms EXCEPT ![g.name] = Append(@, now)])
         /\ Last([ms EXCEPT ![g.name] = Append(@, now)][g.name]) = now
         /\ \A n \in Names \ {g.name} :
              [ms EXCEPT ![g.name] = Append(@, now)][n] = ms[n]
<1> DEFINE name == g.name
           len_ == Len(gs)
           hs == Append(gs, g)
           ns == [ms EXCEPT ![name] = Append(@, now)]
<1>0. /\ name \in Names /\ gs \in Seq(Guards) /\ len_ \in Nat
      /\ ms[name] \in Seq(ValuesOf(name)) /\ Len(ms[name]) \in Nat
      /\ Len(ms[name]) = 1 + Below(gs, name, len_)
  BY DEF Balanced, Guards
<1>a. Below(gs, name, len_) \in Nat
  BY <1>0, BelowType
<1>1. /\ hs \in Seq(Guards) /\ Len(hs) = len_ + 1 /\ hs[len_ + 1] = g
      /\ \A i \in 1..len_ : hs[i] = gs[i]
  BY <1>0
<1>2. /\ DOMAIN ns = Names /\ ns = [n \in Names |-> ns[n]]
      /\ ns[name] = Append(ms[name], now)
      /\ \A n \in Names \ {name} : ns[n] = ms[n]
  BY <1>0 DEF Balanced
<1> HIDE DEF hs, ns, name, len_
<1>3. /\ ns[name] \in Seq(ValuesOf(name))
      /\ Len(ns[name]) = Len(ms[name]) + 1
      /\ ns[name][Len(ms[name]) + 1] = now
      /\ \A i \in 1..Len(ms[name]) : ns[name][i] = ms[name][i]
  <2>1. now \in ValuesOf(name)
    BY DEF name
  <2>2. QED
    <3>1. PICK V : V = ValuesOf(name)
      OBVIOUS
    <3>2. PICK m \in Seq(V) : m = ms[name]
      BY <1>0, <3>1
    <3>3. now \in V /\ ns[name] = Append(m, now)
      BY <1>2, <2>1, <3>1, <3>2
    <3>4. /\ Append(m, now) \in Seq(V) /\ Len(Append(m, now)) = Len(m) + 1
          /\ Append(m, now)[Len(m) + 1] = now
          /\ \A i \in 1..Len(m) : Append(m, now)[i] = m[i]
      BY <3>3
    <3>5. QED
      BY <3>1, <3>2, <3>3, <3>4
<1>4. \A n \in Names, i \in 0..len_ : Below(hs, n, i) = Below(gs, n, i)
  BY <1>0, <1>1, BelowSame
<1>5. ASSUME NEW n \in Names
      PROVE  ns[n] \in Seq(ValuesOf(n)) /\ Len(ns[n]) = 1 + Below(hs, n, Len(hs))
  <2>1. Below(hs, n, len_ + 1) =
          IF hs[len_ + 1].name = n THEN Below(hs, n, len_) + 1 ELSE Below(hs, n, len_)
    BY <1>0, BelowNext
  <2>2. Below(hs, n, len_) = Below(gs, n, len_) /\ Below(gs, n, len_) \in Nat
    <3>1. len_ \in 0..len_
      BY <1>0
    <3>2. QED
      BY <1>0, <1>4, <3>1, BelowType
  <2>3. ms[n] \in Seq(ValuesOf(n)) /\ Len(ms[n]) = 1 + Below(gs, n, len_)
    BY DEF Balanced, len_
  <2>4. CASE n = name
    <3>1. hs[len_ + 1].name = n
      BY <1>1, <2>4 DEF name
    <3>2. QED
      BY <1>1, <1>3, <2>1, <2>2, <2>3, <2>4, <3>1
  <2>5. CASE n # name
    <3>1. hs[len_ + 1].name # n
      BY <1>1, <2>5 DEF name
    <3>2. QED
      BY <1>1, <1>2, <2>1, <2>2, <2>3, <2>5, <3>1
  <2>6. QED
    BY <2>4, <2>5
<1>6. ASSUME NEW i \in 1..Len(hs)
      PROVE  hs[i].previous = ns[hs[i].name][1 + Below(hs, hs[i].name, i - 1)]
  <2>1. CASE i = len_ + 1
    <3>1. hs[i] = g /\ g.name = name /\ i - 1 = len_
      BY <1>0, <1>1, <2>1 DEF name
    <3>2. 1 + Below(hs, name, len_) = Len(ms[name])
      BY <1>0, <1>4
    <3>3. Len(ms[name]) \in 1..Len(ms[name])
      BY <1>0, <1>a
    <3>4. ns[name][Len(ms[name])] = ms[name][Len(ms[name])]
      BY <1>3, <3>3
    <3>5. g.previous = ms[name][Len(ms[name])]
      BY DEF Last, name
    <3>6. QED
      BY <3>1, <3>2, <3>4, <3>5
  <2>2. CASE i # len_ + 1
    <3>1. i \in 1..len_ /\ i - 1 \in 0..len_ /\ i - 1 \in Nat /\ i <= len_
      BY <1>0, <1>1, <2>2
    <3>2. hs[i] = gs[i] /\ gs[i] \in Guards
      BY <1>0, <1>1, <3>1 DEF len_
    <3>3. PICK n \in Names : n = gs[i].name
      BY <3>2 DEF Guards
    <3>4. gs[i].previous = ms[n][1 + Below(gs, n, i - 1)]
      BY <3>1, <3>3 DEF Balanced, len_
    <3>5. Below(hs, n, i - 1) = Below(gs, n, i - 1)
      BY <1>4, <3>1
    <3>6. ms[n][1 + Below(gs, n, i - 1)] = ns[n][1 + Below(gs, n, i - 1)]
      <4>1. CASE n # name
        BY <1>2, <4>1
      <4>2. CASE n = name
        <5>0. PICK i1 \in Nat : i1 = i - 1 /\ i1 <= len_
          BY <1>0, <3>1
        <5>1. /\ Below(gs, n, i - 1) \in Nat
              /\ Below(gs, n, i - 1) <= Below(gs, n, len_)
          BY <1>0, <5>0, BelowType, BelowGrows
        <5>2. 1 + Below(gs, n, i - 1) \in 1..Len(ms[name])
          BY <1>0, <1>a, <4>2, <5>1
        <5>3. QED
          BY <1>3, <4>2, <5>2
      <4>3. QED
        BY <4>1, <4>2
    <3>7. QED
      BY <3>2, <3>3, <3>4, <3>5, <3>6
  <2>3. QED
    BY <2>1, <2>2
<1>7. Balanced(hs, ns)
  BY <1>1, <1>2, <1>5, <1>6 DEF Balanced
<1>8. Last(ns[name]) = now
  BY <1>3 DEF Last
<1>9. QED
  BY <1>2, <1>7, <1>8 DEF hs, ns, name

LEMMA FrontFacts ==
  ASSUME NEW S, NEW s \in Seq(S), Len(s) >= 1
  PROVE  /\ Front(s) \in Seq(S) /\ Len(Front(s)) = Len(s) - 1
         /\ \A i \in 1..(Len(s) - 1) : Front(s)[i] = s[i]
<1>1. Len(s) \in Nat /\ \A i \in 1..(Len(s) - 1) : s[i] \in S
  OBVIOUS
<1>2. PICK n : n = Len(s) - 1
  OBVIOUS
<1>3. n \in Int /\ n >= 0 /\ \A i \in 1..n : s[i] \in S
  BY <1>1, <1>2
<1>4. Front(s) = SubSeq(s, 1, n)
  BY <1>2 DEF Front
<1>5. SubSeq(s, 1, n) \in Seq(S)
  BY <1>3, SubSeqProperties
<1>6. Len(SubSeq(s, 1, n)) = n
  BY <1>3, SubSeqProperties
<1>7. \A i \in 1..n : SubSeq(s, 1, n)[i] = s[i]
  BY <1>3, SubSeqProperties
<1>8. QED
  BY <1>2, <1>4, <1>5, <1>6, <1>7

\* The innermost guard is closed: the scope around it is the innermost now, and
\* its setting is the one the guard held.
LEMMA PopKeepsBalance ==
  ASSUME NEW gs, NEW ms, Balanced(gs, ms), gs # <<>>, NEW g, g = Last(gs)
  PROVE  /\ g.name \in Names /\ g.previous \in ValuesOf(g.name)
         /\ Balanced(Front(gs), [ms EXCEPT ![g.name] = Front(@)])
         /\ Last([ms EXCEPT ![g.name] = Front(@)][g.name]) = g.previous
         /\ \A n \in Names \ {g.name} : [ms EXCEPT ![g.name] = Front(@)][n] = ms[n]
<1> DEFINE name == g.name
           hs == Front(gs)
           ns == [ms EXCEPT ![name] = Front(@)]
<1>1. gs \in Seq(Guards) /\ Len(gs) \in Nat /\ Len(gs) >= 1
  BY EmptySeq DEF Balanced
<1>2. PICK k \in Nat : Len(gs) = k + 1
  <2>1. Len(gs) - 1 \in Nat /\ Len(gs) = (Len(gs) - 1) + 1
    BY <1>1
  <2>2. QED
    BY <2>1
<1>3. g \in Guards /\ g = gs[k + 1] /\ name \in Names
  <2>1. g = gs[k + 1] /\ k + 1 \in 1..Len(gs)
    BY <1>1, <1>2 DEF Last
  <2>2. g \in Guards
    BY <1>1, <2>1
  <2>3. QED
    BY <2>1, <2>2 DEF Guards
<1>4. /\ hs \in Seq(Guards) /\ Len(hs) = k
      /\ \A i \in 1..k : hs[i] = gs[i]
  BY <1>1, <1>2, FrontFacts
<1>5. /\ DOMAIN ns = Names /\ ns = [n \in Names |-> ns[n]]
      /\ ns[name] = Front(ms[name])
      /\ \A n \in Names \ {name} : ns[n] = ms[n]
  BY <1>3 DEF Balanced
<1> HIDE DEF hs, ns, name
<1>6. PICK below \in Nat : below = Below(gs, name, k)
  BY BelowType
<1>7. Len(ms[name]) = below + 2 /\ ms[name] \in Seq(ValuesOf(name))
  <2>1. Below(gs, name, k + 1) = below + 1
    BY <1>3, <1>6, BelowNext DEF name
  <2>2. QED
    BY <1>2, <1>3, <2>1 DEF Balanced
<1>8. /\ ns[name] \in Seq(ValuesOf(name)) /\ Len(ns[name]) = below + 1
      /\ \A i \in 1..(below + 1) : ns[name][i] = ms[name][i]
  <2>1. PICK V : V = ValuesOf(name)
    OBVIOUS
  <2>2. PICK m \in Seq(V) : m = ms[name]
    BY <1>7, <2>1
  <2>3. Len(m) = below + 2 /\ Len(m) >= 1
    BY <1>7, <2>2
  <2>4. /\ Front(m) \in Seq(V) /\ Len(Front(m)) = Len(m) - 1
        /\ \A i \in 1..(Len(m) - 1) : Front(m)[i] = m[i]
    BY <2>3, FrontFacts
  <2>5. QED
    BY <1>5, <2>1, <2>2, <2>3, <2>4
<1>9. g.previous = ms[name][below + 1]
  <2>1. k + 1 \in 1..Len(gs) /\ (k + 1) - 1 = k
    BY <1>2
  <2>2. gs[k + 1].previous = ms[gs[k + 1].name][1 + Below(gs, gs[k + 1].name, (k + 1) - 1)]
    BY <2>1 DEF Balanced
  <2>3. gs[k + 1].name = name
    BY <1>3 DEF name
  <2>4. g.previous = ms[name][1 + below]
    BY <1>3, <1>6, <2>1, <2>2, <2>3
  <2>5. QED
    BY <2>4
<1>10. Last(ns[name]) = g.previous
  BY <1>8, <1>9 DEF Last
<1>11. g.previous \in ValuesOf(name)
  <2>1. below + 1 \in 1..Len(ms[name])
    BY <1>7
  <2>2. QED
    BY <1>7, <1>9, <2>1, ElementOfSeq
<1>12. \A n \in Names, i \in 0..k : Below(hs, n, i) = Below(gs, n, i)
  BY <1>4, BelowSame
<1>13. ASSUME NEW n \in Names
       PROVE  ns[n] \in Seq(ValuesOf(n)) /\ Len(ns[n]) = 1 + Below(hs, n, Len(hs))
  <2>1. k \in 0..k
    OBVIOUS
  <2>2. Below(hs, n, k) = Below(gs, n, k) /\ Below(gs, n, k) \in Nat
    BY <1>12, <2>1, BelowType
  <2>3. CASE n = name
    BY <1>4, <1>6, <1>8, <2>2, <2>3
  <2>4. CASE n # name
    <3>1. gs[k + 1].name # n
      BY <1>3, <2>4 DEF name
    <3>2. Below(gs, n, k + 1) = Below(gs, n, k)
      BY <3>1, BelowNext
    <3>3. ms[n] \in Seq(ValuesOf(n)) /\ Len(ms[n]) = 1 + Below(gs, n, k + 1)
      BY <1>2 DEF Balanced
    <3>4. QED
      BY <1>4, <1>5, <2>2, <2>4, <3>2, <3>3
  <2>5. QED
    BY <2>3, <2>4
<1>14. ASSUME NEW i \in 1..Len(hs)
       PROVE  hs[i].previous = ns[hs[i].name][1 + Below(hs, hs[i].name, i - 1)]
  <2>1. /\ i \in 1..k /\ i \in 1..Len(gs) /\ i - 1 \in 0..k
        /\ hs[i] = gs[i] /\ gs[i] \in Guards
    BY <1>1, <1>2, <1>4
  <2>2. PICK n \in Names : n = gs[i].name
    BY <2>1 DEF Guards
  <2>3. gs[i].previous = ms[n][1 + Below(gs, n, i - 1)]
    BY <2>1, <2>2 DEF Balanced
  <2>4. Below(hs, n, i - 1) = Below(gs, n, i - 1)
    BY <1>12, <2>1
  <2>5. ms[n][1 + Below(gs, n, i - 1)] = ns[n][1 + Below(gs, n, i - 1)]
    <3>1. CASE n # name
      BY <1>5, <3>1
    <3>2. CASE n = name
      <4>1. PICK i1 \in Nat : i1 = i - 1 /\ i1 <= k
        BY <2>1
      <4>2. Below(gs, n, i1) \in Nat /\ Below(gs, n, i1) <= Below(gs, n, k)
        BY <4>1, BelowType, BelowGrows
      <4>3. 1 + Below(gs, n, i1) \in 1..(below + 1)
        BY <1>6, <3>2, <4>2
      <4>4. QED
        BY <1>8, <3>2, <4>1, <4>3
    <3>3. QED
      BY <3>1, <3>2
  <2>6. QED
    BY <2>1, <2>2, <2>3, <2>4, <2>5
<1>15. Balanced(hs, ns)
  BY <1>4, <1>5, <1>13, <1>14 DEF Balanced
<1>16. QED
  BY <1>3, <1>5, <1>10, <1>11, <1>15 DEF hs, ns, name

-----------------------------------------------------------------------------
(* ThreadSettings: the specification *)

SettingsTypeOK ==
  /\ switch \in [Controls -> Nat]
  /\ tmax \in [Threads -> Classes]
  /\ cached \in SUBSET Threads
  /\ guards \in [Threads -> Seq(Guards)]
  /\ DOMAIN meant = Threads /\ meant = [t \in Threads |-> meant[t]]

ScopesBalanced == \A t \in Threads : Balanced(guards[t], meant[t])

\* The inductive invariant.  That the end of a scope brings back the setting of
\* the scope around it needs that the guard holds that one, for every guard that
\* is open: ScopesBalanced.
SettingsIInv ==
  /\ SettingsTypeOK
  /\ ScopesBalanced
  /\ ScopesRestore
  /\ SettingsArriveWhole

LEMMA AppliedFacts ==
  /\ \A n \in Nat : Applied(n) \in Classes
  /\ \A c \in Classes : Applied(c) = c
<1>1. Classes \subseteq Nat /\ Largest \in Classes /\ \A c \in Classes : c <= Largest
  <2>1. PICK c \in Classes : \A d \in Classes : d <= c
    BY SettingsAssumption
  <2>2. Classes \subseteq Nat
    BY SettingsAssumption
  <2>3. \A d \in Classes : c >= d
    BY <2>1, <2>2
  <2>4. Max(Classes) \in Classes /\ \A d \in Classes : Max(Classes) >= d
    BY <2>3 DEF Max
  <2>5. QED
    BY <2>2, <2>4 DEF Largest
<1>2. ASSUME NEW n \in Nat
      PROVE  /\ Applied(n) \in Classes
             /\ n \in Classes => Applied(n) = n
  <2>1. PICK m : m = Min({n, Largest})
    OBVIOUS
  <2>2. m \in {n, Largest} /\ m <= n /\ m <= Largest /\ m \in Nat
    <3>1. {n, Largest} \in SUBSET Nat /\ {n, Largest} # {}
      BY <1>1
    <3>2. QED
      BY <2>1, <3>1, MinFacts
  <2>3. PICK S : S = {c \in Classes : c >= m}
    OBVIOUS
  <2>4. S \in SUBSET Nat /\ Largest \in S
    BY <1>1, <2>2, <2>3
  <2>5. Min(S) \in S /\ \A y \in S : Min(S) <= y
    <3>1. S # {}
      BY <2>4
    <3>2. QED
      BY <2>4, <3>1, MinFacts
  <2>6. Applied(n) = Min(S)
    BY <2>1, <2>3 DEF Applied
  <2>7. Applied(n) \in Classes
    BY <2>3, <2>5, <2>6
  <2>8. ASSUME n \in Classes PROVE Applied(n) = n
    <3>1. m = n
      BY <1>1, <2>2, <2>8
    <3>2. n \in S /\ Min(S) >= n /\ Min(S) \in Nat
      BY <2>3, <2>4, <2>5, <2>8, <3>1
    <3>3. QED
      BY <2>5, <2>6, <3>2
  <2>9. QED
    BY <2>7, <2>8
<1>3. QED
  BY <1>1, <1>2

LEMMA NamesFacts ==
  /\ Own \subseteq Names /\ MAX \in Names /\ MAX \notin Own /\ ENABLED_ \in Own
  /\ \A n \in Names : n = MAX \/ n \in Own
  /\ \A n \in Own : ValuesOf(n) = BOOLEAN
  /\ ValuesOf(MAX) = Classes
  /\ \A n \in Shared : n \notin Own
BY SettingsAssumption DEF Names, Own, MAX, ENABLED_, ValuesOf

LEMMA ControlsFacts ==
  ASSUME NEW t \in Threads
  PROVE  /\ \A n \in Own : <<n, t>> \in Controls /\ Control(n, t) = <<n, t>>
         /\ \A n \in Shared : /\ Control(n, t) \in Controls
                              /\ Control(n, t) = <<n, "process">>
BY NamesFacts DEF Controls, Control

\* What a scope's setting is, is one its name may have.
LEMMA LastIsAValue ==
  ASSUME NEW gs, NEW ms, Balanced(gs, ms), NEW n \in Names
  PROVE  Last(ms[n]) \in ValuesOf(n)
<1>1. /\ ms[n] \in Seq(ValuesOf(n)) /\ Len(ms[n]) = 1 + Below(gs, n, Len(gs))
      /\ Len(gs) \in Nat
  BY DEF Balanced
<1>2. Below(gs, n, Len(gs)) \in Nat
  BY <1>1, BelowType
<1>3. Len(ms[n]) \in 1..Len(ms[n])
  BY <1>1, <1>2
<1>4. QED
  BY <1>1, <1>3, ElementOfSeq DEF Last

LEMMA SettingsInitIInv == Init => SettingsIInv
<1> SUFFICES ASSUME Init PROVE SettingsIInv
  OBVIOUS
<1>1. PICK start \in [Own \cup Shared -> {0} \cup CTrue] :
        switch = [c \in Controls |-> start[c[1]]]
  BY DEF Init
<1>2. switch \in [Controls -> Nat]
  <2>1. {0} \cup CTrue \subseteq Nat
    BY SettingsAssumption
  <2>2. \A c \in Controls : c[1] \in Own \cup Shared
    BY DEF Controls
  <2>3. \A c \in Controls : start[c[1]] \in Nat
    BY <2>1, <2>2
  <2>4. QED
    BY <1>1, <2>3
<1>3. tmax \in [Threads -> Classes] /\ cached = {} /\ call = None
  BY DEF Init
<1>4. /\ guards = [t \in Threads |-> <<>>]
      /\ guards \in [Threads -> Seq(Guards)]
  BY DEF Init
<1>5. /\ DOMAIN meant = Threads /\ meant = [t \in Threads |-> meant[t]]
      /\ \A t \in Threads : meant[t] = [n \in Names |->
           IF n = MAX THEN <<tmax[t]>> ELSE <<CTruth(switch[<<n, t>>])>>]
  BY DEF Init, Names
<1>6. ASSUME NEW t \in Threads
      PROVE  /\ DOMAIN meant[t] = Names /\ meant[t] = [n \in Names |-> meant[t][n]]
             /\ meant[t][MAX] = <<tmax[t]>>
             /\ \A n \in Own : meant[t][n] = <<CTruth(switch[<<n, t>>])>>
  <2>1. meant[t] = [n \in Names |->
          IF n = MAX THEN <<tmax[t]>> ELSE <<CTruth(switch[<<n, t>>])>>]
    BY <1>5
  <2>2. DOMAIN meant[t] = Names /\ meant[t] = [n \in Names |-> meant[t][n]]
    BY <2>1, Zenon
  <2>3. meant[t][MAX] = <<tmax[t]>>
    BY <2>1, NamesFacts, Zenon
  <2>4. ASSUME NEW n \in Own PROVE meant[t][n] = <<CTruth(switch[<<n, t>>])>>
    <3>1. n \in Names /\ n # MAX
      BY NamesFacts
    <3>2. QED
      BY <2>1, <3>1, Zenon
  <2>5. QED
    BY <2>2, <2>3, <2>4
<1>7. ASSUME NEW t \in Threads, NEW n \in Names
      PROVE  meant[t][n] \in Seq(ValuesOf(n)) /\ Len(meant[t][n]) = 1
  <2>1. CASE n = MAX
    <3>1. <<tmax[t]>> \in Seq(Classes) /\ Len(<<tmax[t]>>) = 1
      BY <1>3
    <3>2. QED
      BY <1>6, <2>1, <3>1, NamesFacts
  <2>2. CASE n \in Own
    <3>1. PICK b \in BOOLEAN : b = CTruth(switch[<<n, t>>])
      BY DEF CTruth
    <3>2. <<b>> \in Seq(BOOLEAN) /\ Len(<<b>>) = 1
      OBVIOUS
    <3>3. QED
      BY <1>6, <2>2, <3>1, <3>2, NamesFacts
  <2>3. QED
    BY <2>1, <2>2, NamesFacts
<1>8. ScopesBalanced
  <2> SUFFICES ASSUME NEW t \in Threads PROVE Balanced(guards[t], meant[t])
    BY DEF ScopesBalanced
  <2>1. guards[t] = <<>> /\ guards[t] \in Seq(Guards) /\ Len(guards[t]) = 0
    BY <1>4
  <2>2. \A n \in Names : Below(guards[t], n, 0) = 0
    BY BelowNothing
  <2>3. ASSUME NEW n \in Names
        PROVE  /\ meant[t][n] \in Seq(ValuesOf(n))
               /\ Len(meant[t][n]) = 1 + Below(guards[t], n, Len(guards[t]))
    <3>1. Below(guards[t], n, Len(guards[t])) = 0
      BY <2>1, <2>2
    <3>2. meant[t][n] \in Seq(ValuesOf(n)) /\ Len(meant[t][n]) = 1
      BY <1>7
    <3>3. QED
      BY <3>1, <3>2
  <2>4. DOMAIN meant[t] = Names /\ meant[t] = [n \in Names |-> meant[t][n]]
    BY <1>6
  <2>5. 1..Len(guards[t]) = {}
    BY <2>1
  <2>6. QED
    BY <2>1, <2>3, <2>4, <2>5 DEF Balanced
<1>9. ScopesRestore
  <2>1. ASSUME NEW t \in Threads PROVE tmax[t] = Last(meant[t][MAX])
    <3>1. meant[t][MAX] = <<tmax[t]>> /\ Len(meant[t][MAX]) = 1
      BY <1>6, <1>7, NamesFacts
    <3>2. QED
      BY <3>1 DEF Last
  <2>2. ASSUME NEW t \in Threads, NEW n \in Own
        PROVE  CTruth(switch[<<n, t>>]) = Last(meant[t][n])
    <3>1. PICK b : b = CTruth(switch[<<n, t>>])
      OBVIOUS
    <3>2. meant[t][n] = <<b>> /\ Len(meant[t][n]) = 1
      BY <1>6, <1>7, <3>1, NamesFacts
    <3>3. Last(meant[t][n]) = b
      BY <3>2 DEF Last
    <3>4. QED
      BY <3>1, <3>3
  <2>3. QED
    BY <1>3, <2>1, <2>2 DEF ScopesRestore
<1>10. SettingsArriveWhole
  BY <1>3 DEF SettingsArriveWhole
<1>11. QED
  BY <1>2, <1>3, <1>4, <1>5, <1>8, <1>9, <1>10 DEF SettingsIInv, SettingsTypeOK

\* What set_tcache_ncached_max hands to jemalloc.
LEMMA SettingsCallIsWhole ==
  ASSUME NEW t \in Threads, NEW settings \in Settings,
         set_tcache_ncached_max(t, settings)
  PROVE  SettingsArriveWhole'
<1> DEFINE bytes == Append(settings, NUL)
           n == Len(settings)
<1>1. LEN \in Nat \ {0}
  BY SettingsAssumption DEF LEN
<1>2. PICK S : S = {settings[i] : i \in DOMAIN settings}
  OBVIOUS
<1>3. /\ settings \in Seq(S) /\ n \in Nat
      /\ \A i \in 1..n : settings[i] # NUL
  <2>1. /\ settings \in Seq({settings[i] : i \in DOMAIN settings})
        /\ \A i \in DOMAIN settings : settings[i] # NUL
    BY SettingsAssumption, Zenon
  <2>2. settings \in Seq(S)
    BY <1>2, <2>1
  <2>3. Len(settings) \in Nat /\ DOMAIN settings = 1..Len(settings)
    BY <2>2, LenProperties
  <2>4. QED
    BY <2>1, <2>2, <2>3
<1>4. /\ bytes \in Seq(S \cup {NUL}) /\ Len(bytes) = n + 1
      /\ bytes[n + 1] = NUL /\ \A i \in 1..n : bytes[i] = settings[i]
  BY <1>3
<1> HIDE DEF bytes, n
<1>5. CASE TooLong(bytes) /\ Answered(settings, "EINVAL", <<>>)
  <2>1. call'.result = "EINVAL" /\ call'.settings = settings
    BY <1>5 DEF Answered
  <2>2. Len(settings) >= LEN
    BY <1>1, <1>3, <1>4, <1>5 DEF TooLong, n
  <2>3. QED
    BY <2>1, <2>2 DEF SettingsArriveWhole
<1>6. ASSUME ~ TooLong(bytes), NEW r \in {"rejected", "ok"},
             Answered(settings, r, Buffer(bytes))
      PROVE  SettingsArriveWhole'
  <2>1. PICK buffer : buffer = Buffer(bytes)
    OBVIOUS
  <2>2. call'.result = r /\ call'.settings = settings /\ call'.buffer = buffer
    BY <1>6, <2>1 DEF Answered
  <2>3. n + 1 \in 1..LEN
    BY <1>1, <1>3, <1>4, <1>6 DEF TooLong
  <2>4. /\ buffer \in [1..LEN -> S \cup {NUL}]
        /\ \A i \in 1..n : buffer[i] = settings[i]
        /\ \A i \in (n + 1)..LEN : buffer[i] = NUL
    BY <1>1, <1>3, <1>4, <2>1, <2>3 DEF Buffer
  <2>5. DOMAIN buffer = Scanned /\ \E i \in Scanned : buffer[i] = NUL
    BY <1>3, <2>3, <2>4 DEF Scanned
  <2>6. PICK nul : nul = {i \in DOMAIN buffer : buffer[i] = NUL}
    OBVIOUS
  <2>7. nul \in SUBSET Nat /\ n + 1 \in nul /\ \A i \in nul : n + 1 <= i
    BY <1>1, <1>3, <2>3, <2>4, <2>6
  <2>8. Min(nul) = n + 1 /\ nul # {}
    <3>1. nul # {}
      BY <2>7
    <3>2. PICK m : m = Min(nul)
      OBVIOUS
    <3>3. m \in nul /\ \A y \in nul : m <= y
      BY <2>7, <3>1, <3>2, MinFacts
    <3>4. m \in Nat /\ m <= n + 1 /\ n + 1 <= m
      BY <2>7, <3>3
    <3>5. QED
      BY <1>3, <3>1, <3>2, <3>4
  <2>9. Text(buffer) = SubSeq(buffer, 1, n)
    <3>1. (n + 1) - 1 = n
      BY <1>3
    <3>2. QED
      BY <2>6, <2>8, <3>1 DEF Text
  <2>10. SubSeq(buffer, 1, n) = settings
    <3>1. /\ \A i \in 1..n : buffer[i] \in S
      BY <1>3, <2>4 DEF n
    <3>2. /\ SubSeq(buffer, 1, n) \in Seq(S)
          /\ Len(SubSeq(buffer, 1, n)) = n
          /\ \A i \in 1..n : SubSeq(buffer, 1, n)[i] = buffer[i]
      BY <1>3, <3>1, SubSeqProperties
    <3>3. QED
      BY <1>3, <2>4, <3>2, SeqEqual DEF n
  <2>11. QED
    BY <2>2, <2>5, <2>9, <2>10 DEF SettingsArriveWhole
<1>7. QED
  BY <1>5, <1>6 DEF set_tcache_ncached_max, bytes

\* A scope is opened with a guard that holds the setting of the one around it.
LEMMA OpenKeepsBalance ==
  ASSUME SettingsIInv, NEW t \in Threads, NEW name \in Names,
         NEW now \in ValuesOf(name), NEW previous, previous = Last(meant[t][name]),
         Open(t, name, previous, now)
  PROVE  /\ guards' \in [Threads -> Seq(Guards)]
         /\ DOMAIN meant' = Threads /\ meant' = [u \in Threads |-> meant'[u]]
         /\ ScopesBalanced'
         /\ Last(meant'[t][name]) = now
         /\ \A n \in Names \ {name} : meant'[t][n] = meant[t][n]
         /\ \A u \in Threads \ {t} : meant'[u] = meant[u]
<1>0. /\ guards \in [Threads -> Seq(Guards)]
      /\ DOMAIN meant = Threads /\ meant = [u \in Threads |-> meant[u]]
      /\ \A u \in Threads : Balanced(guards[u], meant[u])
  BY DEF SettingsIInv, SettingsTypeOK, ScopesBalanced
<1>1. PICK g : g = [name |-> name, previous |-> previous]
  OBVIOUS
<1>2. g \in Guards /\ g.name = name /\ g.previous = previous
  <2>1. previous \in ValuesOf(name)
    BY <1>0, LastIsAValue
  <2>2. previous \in BOOLEAN \cup Classes
    BY <2>1 DEF ValuesOf
  <2>3. QED
    BY <1>1, <2>2 DEF Guards
<1>3. PICK ms : ms = [meant[t] EXCEPT ![name] = Append(@, now)]
  OBVIOUS
<1>4. /\ guards' = [guards EXCEPT ![t] = Append(guards[t], g)]
      /\ meant' = [meant EXCEPT ![t] = ms]
  BY <1>1, <1>3 DEF Open
<1>5. /\ Balanced(Append(guards[t], g), ms)
      /\ Last(ms[name]) = now
      /\ \A n \in Names \ {name} : ms[n] = meant[t][n]
  <2>1. Balanced(guards[t], meant[t])
    BY <1>0
  <2>2. /\ Balanced(Append(guards[t], g), [meant[t] EXCEPT ![g.name] = Append(@, now)])
        /\ Last([meant[t] EXCEPT ![g.name] = Append(@, now)][g.name]) = now
        /\ \A n \in Names \ {g.name} :
             [meant[t] EXCEPT ![g.name] = Append(@, now)][n] = meant[t][n]
    BY <1>2, <2>1, PushKeepsBalance
  <2>3. QED
    BY <1>2, <1>3, <2>2
<1>6. /\ guards'[t] = Append(guards[t], g)
      /\ \A u \in Threads \ {t} : guards'[u] = guards[u]
      /\ DOMAIN guards' = Threads /\ guards' = [u \in Threads |-> guards'[u]]
  BY <1>0, <1>4
<1>7. /\ DOMAIN meant' = Threads /\ meant' = [u \in Threads |-> meant'[u]]
      /\ meant'[t] = ms
      /\ \A u \in Threads \ {t} : meant'[u] = meant[u]
  BY <1>0, <1>4
<1>8. \A u \in Threads : Balanced(guards'[u], meant'[u])
  BY <1>0, <1>5, <1>6, <1>7
<1>9. guards' \in [Threads -> Seq(Guards)]
  <2>1. \A u \in Threads : guards'[u] \in Seq(Guards)
    BY <1>8 DEF Balanced
  <2>2. QED
    BY <1>6, <2>1
<1>10. ScopesBalanced'
  BY <1>8 DEF ScopesBalanced
<1>11. QED
  BY <1>5, <1>7, <1>9, <1>10

\* The setting of a scope is the one around the guard that is closed.
LEMMA CloseKeepsBalance ==
  ASSUME SettingsIInv, NEW t \in Threads, NEW g, g = Last(guards[t]), Close(t)
  PROVE  /\ g.name \in Names /\ g.previous \in ValuesOf(g.name)
         /\ guards' \in [Threads -> Seq(Guards)]
         /\ DOMAIN meant' = Threads /\ meant' = [u \in Threads |-> meant'[u]]
         /\ ScopesBalanced'
         /\ Last(meant'[t][g.name]) = g.previous
         /\ \A n \in Names \ {g.name} : meant'[t][n] = meant[t][n]
         /\ \A u \in Threads \ {t} : meant'[u] = meant[u]
<1>0. /\ guards \in [Threads -> Seq(Guards)]
      /\ DOMAIN meant = Threads /\ meant = [u \in Threads |-> meant[u]]
      /\ \A u \in Threads : Balanced(guards[u], meant[u])
  BY DEF SettingsIInv, SettingsTypeOK, ScopesBalanced
<1>1. PICK ms : ms = [meant[t] EXCEPT ![g.name] = Front(@)]
  OBVIOUS
<1>2. /\ guards[t] # <<>>
      /\ guards' = [guards EXCEPT ![t] = Front(guards[t])]
      /\ meant' = [meant EXCEPT ![t] = ms]
  BY <1>1 DEF Close
<1>3. /\ g.name \in Names /\ g.previous \in ValuesOf(g.name)
      /\ Balanced(Front(guards[t]), ms)
      /\ Last(ms[g.name]) = g.previous
      /\ \A n \in Names \ {g.name} : ms[n] = meant[t][n]
  <2>1. Balanced(guards[t], meant[t])
    BY <1>0
  <2>2. QED
    BY <1>1, <1>2, <2>1, PopKeepsBalance
<1>4. /\ guards'[t] = Front(guards[t])
      /\ \A u \in Threads \ {t} : guards'[u] = guards[u]
      /\ DOMAIN guards' = Threads /\ guards' = [u \in Threads |-> guards'[u]]
  BY <1>0, <1>2
<1>5. /\ DOMAIN meant' = Threads /\ meant' = [u \in Threads |-> meant'[u]]
      /\ meant'[t] = ms
      /\ \A u \in Threads \ {t} : meant'[u] = meant[u]
  BY <1>0, <1>2
<1>6. \A u \in Threads : Balanced(guards'[u], meant'[u])
  BY <1>0, <1>3, <1>4, <1>5
<1>7. guards' \in [Threads -> Seq(Guards)]
  <2>1. \A u \in Threads : guards'[u] \in Seq(Guards)
    BY <1>6 DEF Balanced
  <2>2. QED
    BY <1>4, <2>1
<1>8. ScopesBalanced'
  BY <1>6 DEF ScopesBalanced
<1>9. QED
  BY <1>3, <1>5, <1>7, <1>8

\* A switch of a thread is set, and its innermost scope is of that setting.
LEMMA SwitchRestores ==
  ASSUME SettingsIInv, NEW t \in Threads, NEW name \in Own, NEW b \in BOOLEAN,
         xchg_bool(name, t, b), UNCHANGED tmax,
         Last(meant'[t][name]) = b,
         \A n \in Names \ {name} : meant'[t][n] = meant[t][n],
         \A u \in Threads \ {t} : meant'[u] = meant[u]
  PROVE  /\ switch' \in [Controls -> Nat] /\ cached' \in SUBSET Threads
         /\ ScopesRestore'
<1>0. /\ switch \in [Controls -> Nat] /\ cached \in SUBSET Threads /\ ScopesRestore
  BY DEF SettingsIInv, SettingsTypeOK
<1>1. PICK v \in Nat : v = encode_bool(b) /\ (v # 0) = b
  BY DEF encode_bool
<1>2. /\ switch' = [switch EXCEPT ![<<name, t>>] = v]
      /\ cached' = IF name = ENABLED_ /\ ~ b THEN cached \ {t} ELSE cached
  BY <1>1, ControlsFacts DEF xchg_bool
<1>3. <<name, t>> \in Controls
  BY ControlsFacts
<1>4. /\ switch' \in [Controls -> Nat] /\ switch'[<<name, t>>] = v
      /\ \A c \in Controls \ {<<name, t>>} : switch'[c] = switch[c]
  BY <1>0, <1>2, <1>3
<1>5. cached' \in SUBSET Threads
  BY <1>0, <1>2
<1>6. ASSUME NEW u \in Threads, NEW n \in Own
      PROVE  CTruth(switch'[<<n, u>>]) = Last(meant'[u][n])
  <2>0. CTruth(switch[<<n, u>>]) = Last(meant[u][n])
    BY <1>0 DEF ScopesRestore
  <2>1. CASE n = name /\ u = t
    BY <1>1, <1>4, <2>1 DEF CTruth
  <2>2. CASE ~ (n = name /\ u = t)
    <3>1. <<n, u>> \in Controls \ {<<name, t>>}
      BY <2>2, ControlsFacts
    <3>2. meant'[u][n] = meant[u][n]
      BY <2>2, NamesFacts
    <3>3. switch'[<<n, u>>] = switch[<<n, u>>]
      BY <1>4, <3>1
    <3>4. QED
      BY <2>0, <3>2, <3>3, Zenon
  <2>3. QED
    BY <2>1, <2>2
<1>7. ASSUME NEW u \in Threads PROVE tmax'[u] = Last(meant'[u][MAX])
  <2>1. meant'[u][MAX] = meant[u][MAX]
    BY NamesFacts
  <2>2. QED
    BY <1>0, <2>1 DEF ScopesRestore
<1>8. ASSUME NEW u \in Threads, u \in cached' PROVE Enabled(u)'
  <2>1. u \in cached /\ CTruth(switch[<<ENABLED_, u>>])
    BY <1>0, <1>2, <1>8 DEF ScopesRestore, Enabled
  <2>2. CASE name = ENABLED_ /\ u = t
    <3>1. b
      BY <1>2, <1>8, <2>2
    <3>2. v # 0
      BY <1>1, <3>1
    <3>3. QED
      BY <1>4, <2>2, <3>2 DEF Enabled, CTruth
  <2>3. CASE ~ (name = ENABLED_ /\ u = t)
    <3>1. <<ENABLED_, u>> \in Controls \ {<<name, t>>}
      BY <2>3, ControlsFacts, NamesFacts
    <3>2. QED
      BY <1>4, <2>1, <3>1 DEF Enabled, CTruth
  <2>4. QED
    BY <2>2, <2>3
<1>9. ScopesRestore'
  BY <1>6, <1>7, <1>8 DEF ScopesRestore
<1>10. QED
  BY <1>4, <1>5, <1>9

\* The largest class a thread's cache keeps is set: the cache is rebuilt.
LEMMA MaxRestores ==
  ASSUME SettingsIInv, NEW t \in Threads, NEW c \in Classes,
         tmax' = [tmax EXCEPT ![t] = c], cached' = cached \ {t}, UNCHANGED switch,
         Last(meant'[t][MAX]) = c,
         \A n \in Names \ {MAX} : meant'[t][n] = meant[t][n],
         \A u \in Threads \ {t} : meant'[u] = meant[u]
  PROVE  /\ tmax' \in [Threads -> Classes] /\ cached' \in SUBSET Threads
         /\ ScopesRestore'
<1>0. /\ tmax \in [Threads -> Classes] /\ cached \in SUBSET Threads /\ ScopesRestore
  BY DEF SettingsIInv, SettingsTypeOK
<1>1. /\ tmax' \in [Threads -> Classes] /\ tmax'[t] = c
      /\ \A u \in Threads \ {t} : tmax'[u] = tmax[u]
  BY <1>0
<1>2. cached' \in SUBSET Threads
  BY <1>0
<1>3. ASSUME NEW u \in Threads, NEW n \in Own
      PROVE  CTruth(switch'[<<n, u>>]) = Last(meant'[u][n])
  <2>1. meant'[u][n] = meant[u][n]
    BY NamesFacts
  <2>2. CTruth(switch[<<n, u>>]) = Last(meant[u][n])
    BY <1>0 DEF ScopesRestore
  <2>3. QED
    BY <2>1, <2>2, Zenon
<1>4. ASSUME NEW u \in Threads PROVE tmax'[u] = Last(meant'[u][MAX])
  BY <1>0, <1>1 DEF ScopesRestore
<1>5. ASSUME NEW u \in Threads, u \in cached' PROVE Enabled(u)'
  BY <1>0, <1>5 DEF ScopesRestore, Enabled
<1>6. ScopesRestore'
  BY <1>3, <1>4, <1>5 DEF ScopesRestore
<1>7. QED
  BY <1>1, <1>2, <1>6

LEMMA SettingsNextIInv == SettingsIInv /\ [Next]_vars => SettingsIInv'
<1> SUFFICES ASSUME SettingsIInv, [Next]_vars PROVE SettingsIInv'
  OBVIOUS
<1>0. SettingsTypeOK /\ ScopesBalanced /\ ScopesRestore /\ SettingsArriveWhole
  BY DEF SettingsIInv
\* The steps that change neither a setting nor a scope.
<1>1. ASSUME UNCHANGED <<switch, tmax, guards, meant>>,
             cached' \in SUBSET Threads,
             \A u \in cached' : Enabled(u),
             SettingsArriveWhole'
      PROVE  SettingsIInv'
  <2>1. SettingsTypeOK' /\ ScopesBalanced'
    BY <1>0, <1>1 DEF SettingsTypeOK, ScopesBalanced
  <2>2. ASSUME NEW u \in Threads, NEW n \in Own
        PROVE  CTruth(switch'[<<n, u>>]) = Last(meant'[u][n])
    <3>1. CTruth(switch[<<n, u>>]) = Last(meant[u][n])
      BY <1>0 DEF ScopesRestore
    <3>2. QED
      BY <1>1, <3>1, Zenon
  <2>3. ASSUME NEW u \in Threads
        PROVE  /\ tmax'[u] = Last(meant'[u][MAX])
               /\ u \in cached' => Enabled(u)'
    BY <1>0, <1>1 DEF ScopesRestore, Enabled
  <2>4. ScopesRestore'
    BY <2>2, <2>3 DEF ScopesRestore
  <2>5. QED
    BY <1>1, <2>1, <2>4 DEF SettingsIInv
<1>2. \A u \in cached : u \in Threads /\ Enabled(u)
  BY <1>0 DEF SettingsTypeOK, ScopesRestore
<1>3. call' = call => SettingsArriveWhole'
  BY <1>0 DEF SettingsArriveWhole
<1>4. ASSUME NEW t \in Threads, Use(t) PROVE SettingsIInv'
  <2>1. /\ UNCHANGED <<switch, tmax, guards, meant>> /\ call' = call
        /\ cached' = cached \cup {t} /\ Enabled(t)
    BY <1>4 DEF Use
  <2>2. cached' \in SUBSET Threads /\ \A u \in cached' : Enabled(u)
    BY <1>2, <2>1
  <2>3. QED
    BY <1>1, <1>3, <2>1, <2>2
<1>5. ASSUME NEW t \in Threads, flush(t) PROVE SettingsIInv'
  <2>1. /\ UNCHANGED <<switch, tmax, guards, meant>> /\ call' = call
        /\ cached' = cached \ {t}
    BY <1>5 DEF flush
  <2>2. cached' \in SUBSET Threads /\ \A u \in cached' : Enabled(u)
    BY <1>2, <2>1
  <2>3. QED
    BY <1>1, <1>3, <2>1, <2>2
<1>6. ASSUME NEW t \in Threads, NEW settings \in Settings,
             set_tcache_ncached_max(t, settings)
      PROVE  SettingsIInv'
  <2>1. /\ UNCHANGED <<switch, tmax, guards, meant>>
        /\ cached' = cached \/ cached' = cached \ {t}
    BY <1>6 DEF set_tcache_ncached_max
  <2>2. cached' \in SUBSET Threads /\ \A u \in cached' : Enabled(u)
    BY <1>2, <2>1
  <2>3. SettingsArriveWhole'
    BY <1>6, SettingsCallIsWhole
  <2>4. QED
    BY <1>1, <2>1, <2>2, <2>3
<1>7. ASSUME NEW t \in Threads, NEW name \in Own, NEW b \in BOOLEAN, enable(t, name, b)
      PROVE  SettingsIInv'
  <2>1. /\ xchg_bool(name, t, b) /\ Open(t, name, Previous_bool(name, t), b)
        /\ UNCHANGED <<tmax, call>>
    BY <1>7 DEF enable
  <2>2. name \in Names /\ b \in ValuesOf(name)
    BY NamesFacts
  <2>3. Previous_bool(name, t) = Last(meant[t][name])
    <3>1. Control(name, t) = <<name, t>>
      BY ControlsFacts
    <3>2. CTruth(switch[<<name, t>>]) = Last(meant[t][name])
      BY <1>0 DEF ScopesRestore
    <3>3. Previous_bool(name, t) = (switch[<<name, t>>] # 0)
      BY <3>1, Zenon DEF Previous_bool, decode_bool
    <3>4. QED
      BY <3>2, <3>3 DEF CTruth
  <2>4. /\ guards' \in [Threads -> Seq(Guards)]
        /\ DOMAIN meant' = Threads /\ meant' = [u \in Threads |-> meant'[u]]
        /\ ScopesBalanced'
        /\ Last(meant'[t][name]) = b
        /\ \A n \in Names \ {name} : meant'[t][n] = meant[t][n]
        /\ \A u \in Threads \ {t} : meant'[u] = meant[u]
    <3>1. PICK p : p = Previous_bool(name, t)
      OBVIOUS
    <3>2. p = Last(meant[t][name]) /\ Open(t, name, p, b)
      BY <2>1, <2>3, <3>1, Zenon
    <3>3. QED
      BY <2>2, <3>2, OpenKeepsBalance
  <2>5. /\ switch' \in [Controls -> Nat] /\ cached' \in SUBSET Threads
        /\ ScopesRestore'
    BY <2>1, <2>4, SwitchRestores
  <2>6. SettingsTypeOK'
    BY <1>0, <2>1, <2>4, <2>5 DEF SettingsTypeOK
  <2>7. QED
    BY <1>3, <2>1, <2>4, <2>5, <2>6 DEF SettingsIInv
<1>8. ASSUME NEW t \in Threads, NEW name \in Shared, NEW b \in BOOLEAN,
             enable_process(t, name, b)
      PROVE  SettingsIInv'
  <2>1. /\ UNCHANGED <<tmax, guards, meant, call>>
        /\ switch' = [switch EXCEPT ![<<name, "process">>] = encode_bool(b)]
        /\ cached' = cached
    BY <1>8, NamesFacts, ControlsFacts DEF enable_process, xchg_bool
  <2>2. encode_bool(b) \in Nat /\ <<name, "process">> \in Controls /\ name \notin Own
    BY NamesFacts, ControlsFacts DEF encode_bool
  <2>3. /\ switch' \in [Controls -> Nat]
        /\ \A n \in Own, u \in Threads : switch'[<<n, u>>] = switch[<<n, u>>]
    BY <1>0, <2>1, <2>2, ControlsFacts DEF SettingsTypeOK
  <2>4. SettingsTypeOK' /\ ScopesBalanced'
    BY <1>0, <2>1, <2>3 DEF SettingsTypeOK, ScopesBalanced
  <2>5. ASSUME NEW u \in Threads, NEW n \in Own
        PROVE  CTruth(switch'[<<n, u>>]) = Last(meant'[u][n])
    <3>1. CTruth(switch[<<n, u>>]) = Last(meant[u][n])
      BY <1>0 DEF ScopesRestore
    <3>2. switch'[<<n, u>>] = switch[<<n, u>>] /\ meant' = meant
      BY <2>1, <2>3
    <3>3. QED
      BY <3>1, <3>2, Zenon
  <2>6. ASSUME NEW u \in Threads
        PROVE  /\ tmax'[u] = Last(meant'[u][MAX])
               /\ u \in cached' => Enabled(u)'
    BY <1>0, <2>1, <2>3, NamesFacts DEF ScopesRestore, Enabled
  <2>7. ScopesRestore'
    BY <2>5, <2>6 DEF ScopesRestore
  <2>8. QED
    BY <1>3, <2>1, <2>4, <2>7 DEF SettingsIInv
<1>9. ASSUME NEW t \in Threads, NEW request \in Requests, set_tcache_max(t, request)
      PROVE  SettingsIInv'
  <2>1. PICK c \in Classes : c = Applied(request)
    BY SettingsAssumption, AppliedFacts
  <2>2. /\ tmax' = [tmax EXCEPT ![t] = c] /\ cached' = cached \ {t}
        /\ Open(t, MAX, tmax[t], c) /\ UNCHANGED <<switch, call>>
    BY <1>9, <2>1 DEF set_tcache_max
  <2>3. MAX \in Names /\ c \in ValuesOf(MAX) /\ tmax[t] = Last(meant[t][MAX])
    BY <1>0, NamesFacts DEF ScopesRestore
  <2>4. /\ guards' \in [Threads -> Seq(Guards)]
        /\ DOMAIN meant' = Threads /\ meant' = [u \in Threads |-> meant'[u]]
        /\ ScopesBalanced'
        /\ Last(meant'[t][MAX]) = c
        /\ \A n \in Names \ {MAX} : meant'[t][n] = meant[t][n]
        /\ \A u \in Threads \ {t} : meant'[u] = meant[u]
    BY <2>2, <2>3, OpenKeepsBalance
  <2>5. /\ tmax' \in [Threads -> Classes] /\ cached' \in SUBSET Threads
        /\ ScopesRestore'
    BY <2>2, <2>4, MaxRestores
  <2>6. SettingsTypeOK'
    BY <1>0, <2>2, <2>4, <2>5 DEF SettingsTypeOK
  <2>7. QED
    BY <1>3, <2>2, <2>4, <2>5, <2>6 DEF SettingsIInv
<1>10. ASSUME NEW t \in Threads, Close(t) PROVE SettingsIInv'
  <2>1. PICK g : g = Last(guards[t])
    OBVIOUS
  <2>2. UNCHANGED call
    BY <1>10 DEF Close
  <2>3. /\ g.name \in Names /\ g.previous \in ValuesOf(g.name)
        /\ guards' \in [Threads -> Seq(Guards)]
        /\ DOMAIN meant' = Threads /\ meant' = [u \in Threads |-> meant'[u]]
        /\ ScopesBalanced'
        /\ Last(meant'[t][g.name]) = g.previous
        /\ \A n \in Names \ {g.name} : meant'[t][n] = meant[t][n]
        /\ \A u \in Threads \ {t} : meant'[u] = meant[u]
    BY <1>10, <2>1, CloseKeepsBalance
  <2>4. CASE g.name = MAX
    <3>1. PICK c \in Classes : c = g.previous /\ c = Applied(g.previous)
      BY <2>3, <2>4, NamesFacts, AppliedFacts
    <3>2. tmax' = [tmax EXCEPT ![t] = c] /\ cached' = cached \ {t} /\ UNCHANGED switch
      BY <1>10, <2>1, <2>4, <3>1 DEF Close
    <3>3. /\ tmax' \in [Threads -> Classes] /\ cached' \in SUBSET Threads
          /\ ScopesRestore'
      BY <2>3, <2>4, <3>1, <3>2, MaxRestores, ZenonT(60)
    <3>4. SettingsTypeOK'
      BY <1>0, <2>3, <3>2, <3>3 DEF SettingsTypeOK
    <3>5. QED
      BY <1>3, <2>2, <2>3, <3>3, <3>4 DEF SettingsIInv
  <2>5. CASE g.name # MAX
    <3>1. PICK name \in Own : name = g.name
      BY <2>3, <2>5, NamesFacts
    <3>2. PICK b \in BOOLEAN : b = g.previous
      BY <2>3, <3>1, NamesFacts
    <3>3. xchg_bool(name, t, b) /\ UNCHANGED tmax
      BY <1>10, <2>1, <2>5, <3>1, <3>2 DEF Close
    <3>4. /\ switch' \in [Controls -> Nat] /\ cached' \in SUBSET Threads
          /\ ScopesRestore'
      BY <2>3, <3>1, <3>2, <3>3, SwitchRestores
    <3>5. SettingsTypeOK'
      BY <1>0, <2>3, <3>3, <3>4 DEF SettingsTypeOK
    <3>6. QED
      BY <1>3, <2>2, <2>3, <3>4, <3>5 DEF SettingsIInv
  <2>6. QED
    BY <2>4, <2>5
<1>11. CASE UNCHANGED vars
  <2>1. UNCHANGED <<switch, tmax, guards, meant>> /\ call' = call /\ cached' = cached
    BY <1>11 DEF vars
  <2>2. cached' \in SUBSET Threads /\ \A u \in cached' : Enabled(u)
    BY <1>2, <2>1
  <2>3. QED
    BY <1>1, <1>3, <2>1, <2>2
<1>12. QED
  BY <1>4, <1>5, <1>6, <1>7, <1>8, <1>9, <1>10, <1>11 DEF Next

\* A thread that sets again what each call returned has in every scope the
\* setting of that scope, whatever other threads do.
THEOREM ScopesAreRestored == Spec => []ScopesRestore
<1>1. SettingsIInv => ScopesRestore
  BY DEF SettingsIInv
<1>2. QED
  BY <1>1, SettingsInitIInv, SettingsNextIInv, PTL DEF Spec

\* jemalloc reads the settings that were passed, inside the storage it was given.
THEOREM SettingsArrive == Spec => []SettingsArriveWhole
<1>1. SettingsIInv => SettingsArriveWhole
  BY DEF SettingsIInv
<1>2. QED
  BY <1>1, SettingsInitIInv, SettingsNextIInv, PTL DEF Spec

-----------------------------------------------------------------------------

\* The specification in which one of the two components moves and the other
\* rests has only behaviours of both, so that the theorems hold of it.
LEMMA CallingThreadIsBoth == CallingSpec => Spec /\ CountersSpec
<1>1. CallingInit => Init /\ CountersInit
  BY DEF CallingInit
<1>2. [CallingNext]_<<vars, countersVars>> => [Next]_vars /\ [CountersNext]_countersVars
  BY DEF CallingNext
<1>3. QED
  BY <1>1, <1>2, PTL DEF CallingSpec, Spec, CountersSpec

=============================================================================

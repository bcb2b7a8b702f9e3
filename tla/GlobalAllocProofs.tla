------------------------- MODULE GlobalAllocProofs --------------------------
(***************************************************************************)
(* Proofs about GlobalAlloc, for any number of threads, any nesting of     *)
(* calls in hooks, any layouts and any size classes that serve what is     *)
(* asked for.                                                              *)
(***************************************************************************)
EXTENDS GlobalAlloc, SequenceTheorems, TLAPS

BlockRecord == [class : Nat, base : Nat, zero : BOOLEAN]

Calls ==
  [op : Operations, layout : Layouts, ptr : Blocks \cup {NoPtr}, size : Nat,
   phase : {"hook", "jemalloc"}]

TypeOK ==
  /\ heap \in [Blocks -> BlockRecord]
  /\ known \in [Blocks -> Layouts \cup {NoLayout}]
  /\ fresh \in SUBSET Blocks
  /\ slots \in SUBSET Operations
  /\ stack \in [Threads -> Seq(Calls)]

\* The calls that were handed a block.
TakesBlock(call) == call.op \in {"realloc", "dealloc"}

\* jemalloc has no block without a class.
BlocksHaveClasses == \A b \in Blocks : heap[b] # NoBlock => heap[b].class # 0

\* A call was handed a block of the program, and the sizes of its caller.
ArgumentsAreBlocks ==
  \A t \in Threads : \A i \in 1..Len(stack[t]) :
    TakesBlock(stack[t][i]) =>
      /\ stack[t][i].ptr \in Blocks
      /\ stack[t][i].op = "realloc" => stack[t][i].size \in Sizes

\* No block is handed to two calls, of two threads or of one and of its hook.
OneCall ==
  \A t, u \in Threads : \A i \in 1..Len(stack[t]), j \in 1..Len(stack[u]) :
    (TakesBlock(stack[t][i]) /\ TakesBlock(stack[u][j]) /\ stack[t][i].ptr = stack[u][j].ptr)
      => (t = u /\ i = j)

\* The inductive invariant.  That a call finds its block as its caller knew it
\* needs that no other call has it, and that a served block is new needs that
\* the program and jemalloc have the same ones.
IInv ==
  /\ TypeOK
  /\ BlocksHaveClasses
  /\ ArgumentsAreBlocks
  /\ OneCall
  /\ Agreement
  /\ DebugValidate
  /\ ZeroedBlocksAreZero
  /\ HooksSeeLiveBlocks

-----------------------------------------------------------------------------
(* Layouts and flag words *)

LEMMA LayoutFacts ==
  ASSUME NEW layout \in Layouts
  PROVE  /\ layout # NoLayout
         /\ layout.size \in Sizes /\ layout.size \in Nat \ {0}
         /\ layout.align \in Aligns /\ layout.align \in Nat
         /\ \A s \in Sizes : /\ [layout EXCEPT !.size = s] \in Layouts
                             /\ [layout EXCEPT !.size = s].size = s
                             /\ [layout EXCEPT !.size = s].align = layout.align
BY SizeClassAssumption DEF Layouts, NoLayout

LEMMA AdjustFacts ==
  ASSUME NEW layout \in Layouts
  PROVE  /\ adjust_layout(layout).align = layout.align
         /\ adjust_layout(layout).size \in Sizes \cup {QUANTUM}
         /\ adjust_layout(layout).size \in Nat
         /\ adjust_layout(layout).size >= QUANTUM
BY SizeClassAssumption DEF adjust_layout, Layouts

LEMMA AlignFacts ==
  ASSUME NEW a \in Aligns
  PROVE  MALLOCX_ALIGN(a) \in 0..63 /\ 2^MALLOCX_ALIGN(a) = a
<1>1. \E l \in 0..63 : 2^l = a
  BY SizeClassAssumption
<1>2. QED
  BY <1>1 DEF MALLOCX_ALIGN

\* The alignment that jemalloc decodes is that of the layout, or none where
\* the class of the size implies it; the zero bit does not disturb it.
LEMMA FlagFacts ==
  ASSUME NEW layout \in Layouts
  PROVE  LET adjusted == adjust_layout(layout)
             flags == layout_flags(adjusted)
         IN  /\ flags \in 0..63
             /\ FlagAlign(flags) \in Aligns \cup {1}
             /\ \/ FlagAlign(flags) = layout.align
                \/ FlagAlign(flags) = 1 /\ layout.align <= QUANTUM
             /\ FlagAlign(flags + MALLOCX_ZERO) = FlagAlign(flags)
             /\ FlagZero(flags + MALLOCX_ZERO)
<1> DEFINE adjusted == adjust_layout(layout)
           flags == layout_flags(adjusted)
<1>1. adjusted.align = layout.align /\ layout.align \in Aligns /\ layout.align \in Nat
  BY AdjustFacts, LayoutFacts
<1>2. CASE flags = 0 /\ layout.align <= QUANTUM
  <2>1. FlagAlign(flags) = 1 /\ 64 % 64 = 0 /\ (64 \div 64) % 2 = 1
    BY <1>2, SMT DEF FlagAlign
  <2>2. QED
    BY <1>2, <2>1 DEF FlagAlign, FlagZero, MALLOCX_ZERO
<1>3. CASE flags = MALLOCX_ALIGN(layout.align)
  <2>1. flags \in 0..63 /\ 2^flags = layout.align
    BY <1>1, <1>3, AlignFacts
  <2>2. flags % 64 = flags /\ (flags + 64) % 64 = flags /\ ((flags + 64) \div 64) % 2 = 1
    BY <2>1
  <2>3. QED
    BY <1>1, <2>1, <2>2 DEF FlagAlign, FlagZero, MALLOCX_ZERO
<1>4. QED
  BY <1>1, <1>2, <1>3 DEF layout_flags

\* A block of the class that a layout names is as large and as aligned as the
\* layout.
LEMMA NamedClassFacts ==
  ASSUME NEW layout \in Layouts, NamedClass(layout) # 0
  PROVE  /\ NamedClass(layout) \in Nat
         /\ NamedClass(layout) >= adjust_layout(layout).size
         /\ Natural(NamedClass(layout)) \in Nat
         /\ Natural(NamedClass(layout)) >= layout.align
<1> DEFINE adjusted == adjust_layout(layout)
           a == FlagAlign(layout_flags(adjusted))
<1>1. NamedClass(layout) = SizeClass(adjusted.size, a)
  BY DEF NamedClass, nallocx
<1>2. /\ a \in Aligns \cup {1}
      /\ a = layout.align \/ (a = 1 /\ layout.align <= QUANTUM)
  BY FlagFacts
<1>3. /\ adjusted.size \in Sizes \cup {QUANTUM} /\ adjusted.size >= QUANTUM
      /\ QUANTUM \in Nat /\ layout.align \in Nat /\ adjusted.size \in Nat
  BY AdjustFacts, LayoutFacts, SizeClassAssumption
<1>4. /\ SizeClass(adjusted.size, a) \in Nat
      /\ SizeClass(adjusted.size, a) >= adjusted.size
      /\ Natural(SizeClass(adjusted.size, a)) \in Nat
      /\ Natural(SizeClass(adjusted.size, a)) >= a
      /\ Natural(SizeClass(adjusted.size, a)) >= QUANTUM
  BY <1>1, <1>2, <1>3, SizeClassAssumption
<1>5. QED
  BY <1>1, <1>2, <1>3, <1>4

-----------------------------------------------------------------------------
(* The stacks *)

\* A call is pushed.
LEMMA Pushed ==
  ASSUME TypeOK, NEW t \in Threads, NEW call \in Calls,
         stack' = [stack EXCEPT ![t] = Append(@, call)]
  PROVE  /\ stack' \in [Threads -> Seq(Calls)]
         /\ Len(stack[t]) \in Nat /\ Len(stack'[t]) = Len(stack[t]) + 1
         /\ stack'[t][Len(stack[t]) + 1] = call
         /\ \A i \in 1..Len(stack[t]) : stack'[t][i] = stack[t][i]
         /\ \A u \in Threads \ {t} : stack'[u] = stack[u]
<1>1. stack[t] \in Seq(Calls)
  BY DEF TypeOK
<1>2. stack'[t] = Append(stack[t], call) /\ \A u \in Threads \ {t} : stack'[u] = stack[u]
  BY DEF TypeOK
<1>3. /\ Append(stack[t], call) \in Seq(Calls)
      /\ Len(stack[t]) \in Nat /\ Len(Append(stack[t], call)) = Len(stack[t]) + 1
      /\ Append(stack[t], call)[Len(stack[t]) + 1] = call
      /\ \A i \in 1..Len(stack[t]) : Append(stack[t], call)[i] = stack[t][i]
  BY <1>1
<1>4. stack' \in [Threads -> Seq(Calls)]
  BY <1>1, <1>3 DEF TypeOK
<1>5. QED
  BY <1>2, <1>3, <1>4

\* The innermost call returns: the others are where they were.
LEMMA Popped ==
  ASSUME TypeOK, NEW t \in Threads, stack[t] # <<>>,
         stack' = [stack EXCEPT ![t] = Below(t)]
  PROVE  /\ stack' \in [Threads -> Seq(Calls)]
         /\ Len(stack[t]) \in Nat \ {0} /\ Top(t) \in Calls
         /\ \A u \in Threads : \A i \in 1..Len(stack'[u]) :
              /\ i \in 1..Len(stack[u])
              /\ stack'[u][i] = stack[u][i]
              /\ u = t => i # Len(stack[t])
<1>1. stack[t] \in Seq(Calls) /\ Len(stack[t]) \in Nat \ {0}
  BY EmptySeq DEF TypeOK
<1>2. stack[t] \in [1..Len(stack[t]) -> Calls]
  BY <1>1, LenProperties
<1>3. /\ Below(t) \in Seq(Calls) /\ Len(Below(t)) = Len(stack[t]) - 1
      /\ \A i \in 1..(Len(stack[t]) - 1) : Below(t)[i] = stack[t][i]
  <2>1. \A i \in 1..(Len(stack[t]) - 1) : stack[t][i] \in Calls
    BY <1>1, <1>2
  <2>2. QED
    BY <1>1, <2>1, SubSeqProperties DEF Below
<1>4. stack'[t] = Below(t) /\ \A u \in Threads \ {t} : stack'[u] = stack[u]
  BY DEF TypeOK
<1>5. stack' \in [Threads -> Seq(Calls)]
  BY <1>3 DEF TypeOK
<1>6. Top(t) \in Calls
  BY <1>1, <1>2 DEF Top
<1>7. QED
  BY <1>1, <1>3, <1>4, <1>5, <1>6

\* A hook returns: the calls are the same.
LEMMA PhaseChanged ==
  ASSUME TypeOK, NEW t \in Threads, stack[t] # <<>>,
         stack' = [stack EXCEPT ![t][Len(stack[t])].phase = "jemalloc"]
  PROVE  /\ stack' \in [Threads -> Seq(Calls)]
         /\ \A u \in Threads :
              /\ Len(stack'[u]) = Len(stack[u])
              /\ \A i \in 1..Len(stack[u]) :
                   /\ stack'[u][i].op = stack[u][i].op
                   /\ stack'[u][i].layout = stack[u][i].layout
                   /\ stack'[u][i].ptr = stack[u][i].ptr
                   /\ stack'[u][i].size = stack[u][i].size
<1> DEFINE n == Len(stack[t])
           s == [stack[t] EXCEPT ![n] = [stack[t][n] EXCEPT !.phase = "jemalloc"]]
<1>1. stack[t] \in Seq(Calls) /\ n \in 1..n
  BY EmptySeq DEF TypeOK
<1>2. stack[t] \in [1..n -> Calls] /\ stack[t][n] \in Calls
  BY <1>1, LenProperties
<1>3. [stack[t][n] EXCEPT !.phase = "jemalloc"] \in Calls
  BY <1>2 DEF Calls
<1>4. s \in Seq(Calls) /\ Len(s) = n
  BY <1>1, <1>3, ExceptSeq
<1>5. stack'[t] = s /\ \A u \in Threads \ {t} : stack'[u] = stack[u]
  BY DEF TypeOK
<1>6. stack' \in [Threads -> Seq(Calls)]
  BY <1>4, <1>5 DEF TypeOK
<1>7. \A i \in 1..n : /\ s[i].op = stack[t][i].op /\ s[i].layout = stack[t][i].layout
                      /\ s[i].ptr = stack[t][i].ptr /\ s[i].size = stack[t][i].size
  BY <1>1, <1>2 DEF Calls
<1>8. QED
  BY <1>4, <1>5, <1>6, <1>7

-----------------------------------------------------------------------------
(* The steps *)

LEMMA InitIInv == Init => IInv
<1> SUFFICES ASSUME Init PROVE IInv
  OBVIOUS
<1>1. NoBlock \in BlockRecord /\ <<>> \in Seq(Calls) /\ Len(<<>>) = 0
  BY EmptySeq DEF NoBlock, BlockRecord
<1>2. TypeOK
  BY <1>1 DEF Init, TypeOK
<1>3. \A b \in Blocks : known[b] = NoLayout /\ heap[b] = NoBlock
  BY DEF Init
<1>4. \A t \in Threads : stack[t] = <<>> /\ Len(stack[t]) = 0
  BY <1>1 DEF Init
<1>5. BlocksHaveClasses /\ Agreement /\ DebugValidate /\ ZeroedBlocksAreZero
  BY <1>3 DEF BlocksHaveClasses, Agreement, DebugValidate, ZeroedBlocksAreZero, Init
<1>6. ArgumentsAreBlocks /\ OneCall /\ HooksSeeLiveBlocks
  BY <1>4 DEF ArgumentsAreBlocks, OneCall, HooksSeeLiveBlocks
<1>7. QED
  BY <1>2, <1>5, <1>6 DEF IInv

\* The blocks are as they were: what is left are the calls.
LEMMA SameBlocks ==
  ASSUME IInv, UNCHANGED <<heap, known, fresh>>
  PROVE  BlocksHaveClasses' /\ Agreement' /\ DebugValidate' /\ ZeroedBlocksAreZero'
BY DEF IInv, BlocksHaveClasses, Agreement, DebugValidate, ZeroedBlocksAreZero

\* A call is made, with a block that no call under way has.
LEMMA EnterStep ==
  ASSUME IInv, NEW t \in Threads, NEW op \in Operations, NEW layout \in Layouts,
         NEW ptr \in Blocks \cup {NoPtr}, NEW size \in Nat,
         op \in {"realloc", "dealloc"} =>
           /\ ptr \in Blocks /\ known[ptr] = layout /\ ~ InFlight(ptr)
           /\ op = "realloc" => size \in Sizes,
         Enter(t, op, layout, ptr, size)
  PROVE  IInv'
<1> USE DEF IInv
<1>1. PICK call : call = [op |-> op, layout |-> layout, ptr |-> ptr, size |-> size,
                          phase |-> IF op \in slots THEN "hook" ELSE "jemalloc"]
  OBVIOUS
<1>2. /\ call \in Calls /\ call.op = op /\ call.layout = layout /\ call.ptr = ptr
      /\ call.size = size
  BY <1>1 DEF Calls
<1>3. stack' = [stack EXCEPT ![t] = Append(@, call)] /\ UNCHANGED <<heap, known, fresh, slots>>
  BY <1>1 DEF Enter
<1>4. /\ stack' \in [Threads -> Seq(Calls)]
      /\ Len(stack[t]) \in Nat /\ Len(stack'[t]) = Len(stack[t]) + 1
      /\ stack'[t][Len(stack[t]) + 1] = call
      /\ \A i \in 1..Len(stack[t]) : stack'[t][i] = stack[t][i]
      /\ \A u \in Threads \ {t} : stack'[u] = stack[u]
  BY <1>2, <1>3, Pushed
<1>5. \A u \in Threads : \A i \in 1..Len(stack'[u]) :
        \/ i \in 1..Len(stack[u]) /\ stack'[u][i] = stack[u][i]
        \/ u = t /\ i = Len(stack[t]) + 1 /\ stack'[u][i] = call
  BY <1>4
<1>6. TypeOK'
  BY <1>3, <1>4 DEF TypeOK
<1>7. ArgumentsAreBlocks'
  BY <1>2, <1>5 DEF ArgumentsAreBlocks, TakesBlock
<1>8. OneCall'
  <2>1. TakesBlock(call) => \A u \in Threads : \A i \in 1..Len(stack[u]) : stack[u][i].ptr # ptr
    BY <1>2 DEF InFlight, TakesBlock
  <2> SUFFICES ASSUME NEW u \in Threads, NEW v \in Threads,
                      NEW i \in 1..Len(stack'[u]), NEW j \in 1..Len(stack'[v]),
                      TakesBlock(stack'[u][i]), TakesBlock(stack'[v][j]),
                      stack'[u][i].ptr = stack'[v][j].ptr
               PROVE  u = v /\ i = j
    BY DEF OneCall, TakesBlock
  <2>2. CASE i \in 1..Len(stack[u]) /\ stack'[u][i] = stack[u][i]
    <3>1. CASE j \in 1..Len(stack[v]) /\ stack'[v][j] = stack[v][j]
      BY <2>2, <3>1 DEF OneCall
    <3>2. CASE stack'[v][j] = call
      BY <1>2, <2>1, <2>2, <3>2
    <3>3. QED
      BY <1>5, <3>1, <3>2
  <2>3. CASE u = t /\ i = Len(stack[t]) + 1 /\ stack'[u][i] = call
    BY <1>2, <1>5, <2>1, <2>3
  <2>4. QED
    BY <1>5, <2>2, <2>3
<1>9. HooksSeeLiveBlocks'
  <2> SUFFICES ASSUME NEW u \in Threads, NEW i \in 1..Len(stack'[u]),
                      stack'[u][i].op \in {"realloc", "dealloc"}
               PROVE  /\ heap[stack'[u][i].ptr] # NoBlock
                      /\ known[stack'[u][i].ptr] = stack'[u][i].layout
    BY <1>3 DEF HooksSeeLiveBlocks
  <2>1. CASE i \in 1..Len(stack[u]) /\ stack'[u][i] = stack[u][i]
    BY <2>1 DEF HooksSeeLiveBlocks
  <2>2. CASE stack'[u][i] = call
    <3>1. ptr \in Blocks /\ known[ptr] = layout /\ layout # NoLayout
      BY <1>2, <2>2, LayoutFacts
    <3>2. QED
      BY <1>2, <2>2, <3>1 DEF Agreement
  <2>3. QED
    BY <1>5, <2>1, <2>2
<1>10. QED
  BY <1>3, <1>6, <1>7, <1>8, <1>9, SameBlocks

LEMMA CallStep ==
  ASSUME IInv, NEW t \in Threads, CallAlloc(t) \/ CallRealloc(t) \/ CallDealloc(t)
  PROVE  IInv'
<1>1. \A b \in Blocks : known[b] # NoLayout => known[b] \in Layouts
  BY DEF IInv, TypeOK
<1>2. CASE CallAlloc(t)
  BY <1>2, EnterStep DEF CallAlloc, Operations
<1>3. CASE CallRealloc(t)
  <2>1. PICK b \in Blocks, size \in Sizes :
          known[b] # NoLayout /\ ~ InFlight(b) /\ Enter(t, "realloc", known[b], b, size)
    BY <1>3 DEF CallRealloc
  <2>2. size \in Nat /\ known[b] \in Layouts
    BY <1>1, <2>1, SizeClassAssumption
  <2>3. QED
    BY <2>1, <2>2, EnterStep DEF Operations
<1>4. CASE CallDealloc(t)
  <2>1. PICK b \in Blocks :
          known[b] # NoLayout /\ ~ InFlight(b) /\ Enter(t, "dealloc", known[b], b, 0)
    BY <1>4 DEF CallDealloc
  <2>2. QED
    BY <1>1, <2>1, EnterStep DEF Operations
<1>5. QED
  BY <1>2, <1>3, <1>4

LEMMA HookReturnsStep ==
  ASSUME IInv, NEW t \in Threads, HookReturns(t)
  PROVE  IInv'
<1> USE DEF IInv
<1>1. /\ stack[t] # <<>> /\ UNCHANGED <<heap, known, fresh, slots>>
      /\ stack' = [stack EXCEPT ![t][Len(stack[t])].phase = "jemalloc"]
  BY DEF HookReturns
<1>2. /\ stack' \in [Threads -> Seq(Calls)]
      /\ \A u \in Threads :
           /\ Len(stack'[u]) = Len(stack[u])
           /\ \A i \in 1..Len(stack[u]) :
                /\ stack'[u][i].op = stack[u][i].op
                /\ stack'[u][i].layout = stack[u][i].layout
                /\ stack'[u][i].ptr = stack[u][i].ptr
                /\ stack'[u][i].size = stack[u][i].size
  BY <1>1, PhaseChanged
<1>3. TypeOK'
  BY <1>1, <1>2 DEF TypeOK
<1>4. ArgumentsAreBlocks'
  BY <1>2 DEF ArgumentsAreBlocks, TakesBlock
<1>5. OneCall'
  <2> SUFFICES ASSUME NEW u \in Threads, NEW v \in Threads,
                      NEW i \in 1..Len(stack[u]), NEW j \in 1..Len(stack[v]),
                      TakesBlock(stack'[u][i]), TakesBlock(stack'[v][j]),
                      stack'[u][i].ptr = stack'[v][j].ptr
               PROVE  u = v /\ i = j
    BY <1>2 DEF OneCall, TakesBlock
  <2>1. TakesBlock(stack[u][i]) /\ TakesBlock(stack[v][j])
    BY <1>2 DEF TakesBlock
  <2>2. stack[u][i].ptr = stack[v][j].ptr
    BY <1>2
  <2>3. QED
    BY <2>1, <2>2 DEF OneCall
<1>6. HooksSeeLiveBlocks'
  BY <1>1, <1>2 DEF HooksSeeLiveBlocks
<1>7. QED
  BY <1>1, <1>3, <1>4, <1>5, <1>6, SameBlocks

\* A call returns, and no block of another call was touched.
LEMMA ReturnStep ==
  ASSUME IInv, NEW t \in Threads, stack[t] # <<>>,
         stack' = [stack EXCEPT ![t] = Below(t)],
         \A b \in Blocks : heap[b] # NoBlock /\ (TakesBlock(Top(t)) => b # Top(t).ptr)
                             => heap'[b] = heap[b] /\ known'[b] = known[b]
  PROVE  /\ stack' \in [Threads -> Seq(Calls)]
         /\ ArgumentsAreBlocks' /\ OneCall' /\ HooksSeeLiveBlocks'
<1> USE DEF IInv
<1>1. /\ stack' \in [Threads -> Seq(Calls)]
      /\ Len(stack[t]) \in Nat \ {0}
      /\ \A u \in Threads : \A i \in 1..Len(stack'[u]) :
           /\ i \in 1..Len(stack[u])
           /\ stack'[u][i] = stack[u][i]
           /\ u = t => i # Len(stack[t])
  BY Popped
<1>2. ArgumentsAreBlocks'
  BY <1>1 DEF ArgumentsAreBlocks, TakesBlock
<1>3. OneCall'
  BY <1>1 DEF OneCall, TakesBlock
<1>4. HooksSeeLiveBlocks'
  <2> SUFFICES ASSUME NEW u \in Threads, NEW i \in 1..Len(stack'[u]),
                      stack'[u][i].op \in {"realloc", "dealloc"}
               PROVE  /\ heap'[stack'[u][i].ptr] # NoBlock
                      /\ known'[stack'[u][i].ptr] = stack'[u][i].layout
    BY DEF HooksSeeLiveBlocks
  <2>1. PICK call : call = stack[u][i]
    OBVIOUS
  <2>2. /\ i \in 1..Len(stack[u]) /\ stack'[u][i] = call /\ TakesBlock(call)
        /\ call.ptr \in Blocks
    BY <1>1, <2>1 DEF TakesBlock, ArgumentsAreBlocks
  <2>3. heap[call.ptr] # NoBlock /\ known[call.ptr] = call.layout
    BY <2>1, <2>2 DEF HooksSeeLiveBlocks, TakesBlock
  <2>4. TakesBlock(Top(t)) => call.ptr # Top(t).ptr
    BY <1>1, <2>1, <2>2 DEF OneCall, Top
  <2>5. QED
    BY <2>2, <2>3, <2>4
<1>5. QED
  BY <1>1, <1>2, <1>3, <1>4

\* The call that failed (null) leaves every block as it was.
LEMMA NullStep ==
  ASSUME IInv, NEW t \in Threads, stack[t] # <<>>,
         stack' = [stack EXCEPT ![t] = Below(t)], UNCHANGED <<heap, known, fresh, slots>>
  PROVE  IInv'
<1>1. /\ stack' \in [Threads -> Seq(Calls)]
      /\ ArgumentsAreBlocks' /\ OneCall' /\ HooksSeeLiveBlocks'
  BY ReturnStep
<1>2. TypeOK'
  BY <1>1 DEF IInv, TypeOK
<1>3. QED
  BY <1>1, <1>2, SameBlocks DEF IInv

\* The class that a request of alloc or alloc_zeroed is served from is the one
\* that the layout names, and zeroed memory is asked for when it should be.
LEMMA RequestFacts ==
  ASSUME NEW layout \in Layouts, NEW op \in {"alloc", "alloc_zeroed"}
  PROVE  LET adjusted == adjust_layout(layout)
             flags == alloc_flags(op, adjusted)
         IN  /\ nallocx(adjusted.size, flags) = NamedClass(layout)
             /\ op = "alloc_zeroed" => FlagZero(flags)
<1> DEFINE adjusted == adjust_layout(layout)
           flags == layout_flags(adjusted)
<1>1. /\ flags \in 0..63
      /\ FlagAlign(flags + MALLOCX_ZERO) = FlagAlign(flags)
      /\ FlagZero(flags + MALLOCX_ZERO)
  BY FlagFacts
<1>2. CASE op = "alloc"
  <2>1. alloc_flags(op, adjusted) = flags
    BY <1>1, <1>2 DEF alloc_flags
  <2>2. QED
    BY <1>2, <2>1 DEF NamedClass
<1>3. CASE op = "alloc_zeroed"
  <2>1. alloc_flags(op, adjusted) = flags + MALLOCX_ZERO
    BY <1>3 DEF alloc_flags
  <2>2. QED
    BY <1>1, <2>1 DEF NamedClass, nallocx
<1>4. QED
  BY <1>2, <1>3

\* The program knows block b by a layout from now on, and jemalloc has filed
\* it under the class that the layout names.
Filed(b, layout) ==
  /\ heap'[b] \in BlockRecord
  /\ heap'[b].class = NamedClass(layout) /\ heap'[b].class # 0
  /\ heap'[b].base >= layout.align
  /\ known'[b] = layout

\* Both sides changed at block b, and at p that made room for it, and nowhere
\* else.
LEMMA FiledStep ==
  ASSUME IInv, NEW b \in Blocks, NEW p \in Blocks, NEW layout \in Layouts, Filed(b, layout),
         b # p => heap'[p] = NoBlock /\ known'[p] = NoLayout,
         \A o \in Blocks \ {b, p} : heap'[o] = heap[o] /\ known'[o] = known[o],
         heap' \in [Blocks -> BlockRecord], known' \in [Blocks -> Layouts \cup {NoLayout}]
  PROVE  BlocksHaveClasses' /\ Agreement' /\ DebugValidate'
<1> USE DEF IInv
<1>1. layout # NoLayout /\ NamedClass(layout) >= adjust_layout(layout).size
      /\ NoBlock.class = 0
  BY LayoutFacts, NamedClassFacts DEF Filed, NoBlock
<1>2. /\ heap'[b] # NoBlock /\ known'[b] = layout
      /\ heap'[b].class = NamedClass(layout) /\ heap'[b].class # 0
      /\ heap'[b].base >= layout.align
  BY <1>1 DEF Filed
<1>3. BlocksHaveClasses'
  BY <1>2 DEF BlocksHaveClasses
<1>4. Agreement'
  <2> SUFFICES ASSUME NEW o \in Blocks
               PROVE  /\ known'[o] = NoLayout <=> heap'[o] = NoBlock
                      /\ known'[o] # NoLayout => heap'[o].class = NamedClass(known'[o])
    BY DEF Agreement
  <2>1. CASE o = b
    BY <1>1, <1>2, <2>1
  <2>2. CASE o # b /\ o = p
    BY <2>2
  <2>3. CASE o \in Blocks \ {b, p}
    BY <2>3 DEF Agreement
  <2>4. QED
    BY <2>1, <2>2, <2>3
<1>5. DebugValidate'
  <2> SUFFICES ASSUME NEW o \in Blocks, known'[o] # NoLayout
               PROVE  /\ heap'[o].class >= adjust_layout(known'[o]).size
                      /\ heap'[o].base >= known'[o].align
    BY DEF DebugValidate
  <2>1. CASE o = b
    BY <1>1, <1>2, <2>1
  <2>2. CASE o \in Blocks \ {b, p}
    BY <2>2 DEF DebugValidate
  <2>3. QED
    BY <2>1, <2>2
<1>6. QED
  BY <1>3, <1>4, <1>5

LEMMA AllocStep ==
  ASSUME IInv, NEW t \in Threads, alloc(t)
  PROVE  IInv'
<1> USE DEF IInv
<1>1. /\ stack[t] # <<>> /\ Top(t).op \in {"alloc", "alloc_zeroed"}
      /\ stack' = [stack EXCEPT ![t] = Below(t)] /\ UNCHANGED slots
  BY DEF alloc
<1>2. Top(t) \in Calls
  BY <1>1, Popped
<1>3. PICK layout \in Layouts : layout = Top(t).layout
  BY <1>2 DEF Calls
<1>4. PICK op \in {"alloc", "alloc_zeroed"} : op = Top(t).op
  BY <1>1
<1>5. CASE UNCHANGED <<heap, known, fresh>>
  BY <1>1, <1>5, NullStep
<1>6. CASE \E b \in Blocks :
             /\ Served(b, adjust_layout(layout).size, alloc_flags(op, adjust_layout(layout)))
             /\ known' = [known EXCEPT ![b] = layout]
             /\ fresh' = IF op = "alloc_zeroed" THEN fresh \cup {b} ELSE fresh
  <2>1. PICK b \in Blocks :
          /\ Served(b, adjust_layout(layout).size, alloc_flags(op, adjust_layout(layout)))
          /\ known' = [known EXCEPT ![b] = layout]
          /\ fresh' = IF op = "alloc_zeroed" THEN fresh \cup {b} ELSE fresh
    BY <1>6
  <2>2. PICK class : class = NamedClass(layout)
    OBVIOUS
  <2>3. /\ class # 0 /\ heap[b] = NoBlock
        /\ \E zero \in BOOLEAN :
             /\ op = "alloc_zeroed" => zero
             /\ heap' = [heap EXCEPT ![b] =
                           [class |-> class, base |-> Natural(class), zero |-> zero]]
    BY <2>1, <2>2, RequestFacts DEF Served
  <2>4. PICK zero \in BOOLEAN :
          /\ op = "alloc_zeroed" => zero
          /\ heap' = [heap EXCEPT ![b] =
                        [class |-> class, base |-> Natural(class), zero |-> zero]]
    BY <2>3
  <2>5. class \in Nat /\ Natural(class) \in Nat /\ Natural(class) >= layout.align
    BY <2>2, <2>3, NamedClassFacts
  <2>6. /\ heap' \in [Blocks -> BlockRecord]
        /\ heap'[b] = [class |-> class, base |-> Natural(class), zero |-> zero]
        /\ \A o \in Blocks \ {b} : heap'[o] = heap[o]
    BY <2>4, <2>5 DEF TypeOK, BlockRecord
  <2>7. /\ known' \in [Blocks -> Layouts \cup {NoLayout}] /\ known'[b] = layout
        /\ \A o \in Blocks \ {b} : known'[o] = known[o]
    BY <2>1 DEF TypeOK
  <2>8. Filed(b, layout)
    BY <2>2, <2>3, <2>5, <2>6, <2>7 DEF Filed, BlockRecord
  <2>9. BlocksHaveClasses' /\ Agreement' /\ DebugValidate'
    BY <2>6, <2>7, <2>8, FiledStep
  <2>10. /\ stack' \in [Threads -> Seq(Calls)]
         /\ ArgumentsAreBlocks' /\ OneCall' /\ HooksSeeLiveBlocks'
    <3>1. \A o \in Blocks : heap[o] # NoBlock => heap'[o] = heap[o] /\ known'[o] = known[o]
      BY <2>3, <2>6, <2>7
    <3>2. QED
      BY <1>1, <3>1, ReturnStep
  <2>11. TypeOK'
    BY <1>1, <2>1, <2>6, <2>7, <2>10 DEF TypeOK
  <2>12. ZeroedBlocksAreZero'
    <3>1. b \notin fresh
      BY <2>3 DEF ZeroedBlocksAreZero, NoBlock
    <3>2. heap'[b].zero = zero
      BY <2>6
    <3>3. QED
      BY <2>1, <2>4, <2>6, <3>1, <3>2 DEF ZeroedBlocksAreZero, TypeOK
  <2>13. QED
    BY <2>9, <2>10, <2>11, <2>12
<1>7. QED
  BY <1>3, <1>4, <1>5, <1>6 DEF alloc

\* A block that a call was handed.
LEMMA TopFacts ==
  ASSUME IInv, NEW t \in Threads, stack[t] # <<>>, TakesBlock(Top(t))
  PROVE  /\ Top(t) \in Calls
         /\ Top(t).ptr \in Blocks /\ Top(t).layout \in Layouts
         /\ Top(t).op = "realloc" => Top(t).size \in Sizes
         /\ known[Top(t).ptr] = Top(t).layout
<1>1. stack[t] \in Seq(Calls) /\ Len(stack[t]) \in 1..Len(stack[t])
  BY EmptySeq DEF IInv, TypeOK
<1>2. Top(t) \in Calls
  BY <1>1, LenProperties DEF Top
<1>3. QED
  BY <1>1, <1>2 DEF IInv, ArgumentsAreBlocks, HooksSeeLiveBlocks, Top, TakesBlock, Calls

LEMMA ReallocStep ==
  ASSUME IInv, NEW t \in Threads, realloc(t)
  PROVE  IInv'
<1> USE DEF IInv
<1>1. /\ stack[t] # <<>> /\ Top(t).op = "realloc" /\ TakesBlock(Top(t))
      /\ stack' = [stack EXCEPT ![t] = Below(t)] /\ UNCHANGED slots
  BY DEF realloc, TakesBlock
<1>2. PICK p \in Blocks : p = Top(t).ptr
  BY <1>1, TopFacts
<1>3. PICK old \in Layouts : old = Top(t).layout /\ known[p] = old
  BY <1>1, <1>2, TopFacts
<1>4. PICK layout \in Layouts : layout = [old EXCEPT !.size = Top(t).size]
                                /\ layout.align = old.align
  BY <1>1, <1>3, TopFacts, LayoutFacts
<1>5. CASE UNCHANGED <<heap, known, fresh>>
  BY <1>1, <1>5, NullStep
<1>6. CASE \E b \in Blocks :
             /\ Resized(p, b, NamedClass(layout))
             /\ known' = [known EXCEPT ![p] = NoLayout, ![b] = layout]
             /\ fresh' = fresh \ {p}
  <2>1. PICK b \in Blocks :
          /\ Resized(p, b, NamedClass(layout))
          /\ known' = [known EXCEPT ![p] = NoLayout, ![b] = layout]
          /\ fresh' = fresh \ {p}
    BY <1>6
  <2>2. PICK class : class = NamedClass(layout)
    OBVIOUS
  <2>3. PICK zero \in BOOLEAN :
          heap' = [heap EXCEPT
            ![p] = NoBlock,
            ![b] = [class |-> class, zero |-> zero,
                    base |-> IF b = p THEN heap[p].base ELSE Natural(class)]]
    BY <2>1, <2>2 DEF Resized
  <2>4. class # 0 /\ (b = p \/ heap[b] = NoBlock)
    BY <2>1, <2>2 DEF Resized
  <2>5. class \in Nat /\ Natural(class) \in Nat /\ Natural(class) >= layout.align
    BY <2>2, <2>4, NamedClassFacts
  <2>6. PICK base \in Nat : /\ base = IF b = p THEN heap[p].base ELSE Natural(class)
                            /\ base >= layout.align
    <3>1. heap[p].base \in Nat /\ heap[p].base >= old.align
      BY <1>3, LayoutFacts DEF TypeOK, BlockRecord, DebugValidate
    <3>2. QED
      BY <1>4, <2>5, <3>1
  <2>7. PICK block : block = [class |-> class, zero |-> zero, base |-> base]
    OBVIOUS
  <2>8. block \in BlockRecord /\ block.class = class /\ block.base = base /\ NoBlock \in BlockRecord
    BY <2>5, <2>7 DEF BlockRecord, NoBlock
  <2>9. heap' = [heap EXCEPT ![p] = NoBlock, ![b] = block]
    BY <2>3, <2>6, <2>7
  <2>10. /\ heap' \in [Blocks -> BlockRecord] /\ heap'[b] = block
         /\ b # p => heap'[p] = NoBlock
         /\ \A o \in Blocks \ {b, p} : heap'[o] = heap[o]
    BY <2>8, <2>9 DEF TypeOK
  <2>11. /\ known' \in [Blocks -> Layouts \cup {NoLayout}] /\ known'[b] = layout
         /\ b # p => known'[p] = NoLayout
         /\ \A o \in Blocks \ {b, p} : known'[o] = known[o]
    BY <2>1 DEF TypeOK
  <2>12. Filed(b, layout)
    BY <2>2, <2>4, <2>6, <2>8, <2>10, <2>11 DEF Filed
  <2>13. BlocksHaveClasses' /\ Agreement' /\ DebugValidate'
    BY <2>10, <2>11, <2>12, FiledStep
  <2>14. /\ stack' \in [Threads -> Seq(Calls)]
         /\ ArgumentsAreBlocks' /\ OneCall' /\ HooksSeeLiveBlocks'
    <3>1. \A o \in Blocks : heap[o] # NoBlock /\ o # Top(t).ptr
                              => heap'[o] = heap[o] /\ known'[o] = known[o]
      BY <1>2, <2>4, <2>10, <2>11
    <3>2. QED
      BY <1>1, <3>1, ReturnStep
  <2>15. TypeOK'
    BY <1>1, <2>1, <2>10, <2>11, <2>14 DEF TypeOK
  <2>16. ZeroedBlocksAreZero'
    <3>1. b = p \/ b \notin fresh
      BY <2>4 DEF ZeroedBlocksAreZero, NoBlock
    <3>2. QED
      BY <2>1, <2>10, <3>1 DEF ZeroedBlocksAreZero, TypeOK
  <2>17. QED
    BY <2>13, <2>14, <2>15, <2>16
<1>7. QED
  <2>1. /\ NamedClass(layout) = nallocx(realloc_request(Top(t)).size,
                                        layout_flags(realloc_request(Top(t))))
    BY <1>3, <1>4 DEF NamedClass, realloc_request
  <2>2. QED
    BY <1>2, <1>3, <1>4, <1>5, <1>6, <2>1 DEF realloc

LEMMA DeallocStep ==
  ASSUME IInv, NEW t \in Threads, dealloc(t)
  PROVE  IInv'
<1> USE DEF IInv
<1>1. /\ stack[t] # <<>> /\ TakesBlock(Top(t))
      /\ stack' = [stack EXCEPT ![t] = Below(t)] /\ UNCHANGED slots
  BY DEF dealloc, TakesBlock
<1>2. PICK p \in Blocks : p = Top(t).ptr
  BY <1>1, TopFacts
<1>3. /\ heap' = [heap EXCEPT ![p] = NoBlock] /\ known' = [known EXCEPT ![p] = NoLayout]
      /\ fresh' = fresh \ {p}
  BY <1>2 DEF dealloc
<1>4. /\ heap' \in [Blocks -> BlockRecord] /\ heap'[p] = NoBlock
      /\ \A o \in Blocks \ {p} : heap'[o] = heap[o]
  BY <1>3 DEF TypeOK, BlockRecord, NoBlock
<1>5. /\ known' \in [Blocks -> Layouts \cup {NoLayout}] /\ known'[p] = NoLayout
      /\ \A o \in Blocks \ {p} : known'[o] = known[o]
  BY <1>3 DEF TypeOK
<1>6. /\ stack' \in [Threads -> Seq(Calls)]
      /\ ArgumentsAreBlocks' /\ OneCall' /\ HooksSeeLiveBlocks'
  BY <1>1, <1>2, <1>4, <1>5, ReturnStep
<1>7. TypeOK'
  BY <1>1, <1>3, <1>4, <1>5, <1>6 DEF TypeOK
<1>8. BlocksHaveClasses' /\ ZeroedBlocksAreZero'
  BY <1>3, <1>4 DEF BlocksHaveClasses, ZeroedBlocksAreZero, TypeOK
<1>9. Agreement' /\ DebugValidate'
  BY <1>4, <1>5 DEF Agreement, DebugValidate
<1>10. QED
  BY <1>6, <1>7, <1>8, <1>9

LEMMA WriteStep ==
  ASSUME IInv, NEW b \in Blocks, Write(b)
  PROVE  IInv'
<1> USE DEF IInv
<1>1. /\ known[b] # NoLayout /\ heap' = [heap EXCEPT ![b].zero = FALSE]
      /\ fresh' = fresh \ {b} /\ UNCHANGED <<known, slots, stack>>
  BY DEF Write
<1>2. heap[b] # NoBlock /\ heap[b].class # 0 /\ NoBlock.class = 0
  BY <1>1 DEF Agreement, BlocksHaveClasses, NoBlock
<1>3. /\ heap' \in [Blocks -> BlockRecord]
      /\ heap'[b].class = heap[b].class /\ heap'[b].base = heap[b].base
      /\ \A o \in Blocks \ {b} : heap'[o] = heap[o]
  BY <1>1 DEF TypeOK, BlockRecord
<1>4. \A o \in Blocks : /\ heap'[o].class = heap[o].class /\ heap'[o].base = heap[o].base
                        /\ heap'[o] = NoBlock <=> heap[o] = NoBlock
  BY <1>2, <1>3
<1>5. TypeOK'
  BY <1>1, <1>3 DEF TypeOK
<1>6. BlocksHaveClasses'
  BY <1>4 DEF BlocksHaveClasses
<1>7. Agreement' /\ DebugValidate'
  BY <1>1, <1>4 DEF Agreement, DebugValidate
<1>8. ZeroedBlocksAreZero'
  BY <1>1, <1>3 DEF ZeroedBlocksAreZero, TypeOK
<1>9. ArgumentsAreBlocks' /\ OneCall'
  BY <1>1 DEF ArgumentsAreBlocks, OneCall, TakesBlock
<1>10. HooksSeeLiveBlocks'
  BY <1>1, <1>4 DEF HooksSeeLiveBlocks, ArgumentsAreBlocks, TakesBlock
<1>11. QED
  BY <1>5, <1>6, <1>7, <1>8, <1>9, <1>10

\* The steps that change neither blocks nor calls.
LEMMA SetHookStep ==
  ASSUME IInv, slots' \in SUBSET Operations, UNCHANGED <<heap, known, fresh, stack>>
  PROVE  IInv'
<1>1. TypeOK'
  BY DEF IInv, TypeOK
<1>2. ArgumentsAreBlocks' /\ OneCall' /\ HooksSeeLiveBlocks'
  BY DEF IInv, ArgumentsAreBlocks, OneCall, HooksSeeLiveBlocks, TakesBlock
<1>3. QED
  BY <1>1, <1>2, SameBlocks DEF IInv

LEMMA NextIInv == IInv /\ [Next]_vars => IInv'
<1> SUFFICES ASSUME IInv, [Next]_vars PROVE IInv'
  OBVIOUS
<1>1. ASSUME NEW t \in Threads,
             \/ CallAlloc(t) \/ CallRealloc(t) \/ CallDealloc(t) \/ HookReturns(t)
             \/ alloc(t) \/ realloc(t) \/ dealloc(t)
      PROVE  IInv'
  BY <1>1, CallStep, HookReturnsStep, AllocStep, ReallocStep, DeallocStep
<1>2. ASSUME NEW b \in Blocks, Write(b)
      PROVE  IInv'
  BY <1>2, WriteStep
<1>3. ASSUME NEW op \in Operations, SetHook(op)
      PROVE  IInv'
  <2>1. slots' \in SUBSET Operations /\ UNCHANGED <<heap, known, fresh, stack>>
    BY <1>3 DEF SetHook, IInv, TypeOK
  <2>2. QED
    BY <2>1, SetHookStep
<1>4. CASE UNCHANGED vars
  BY <1>4, SetHookStep DEF vars, IInv, TypeOK
<1>5. QED
  BY <1>1, <1>2, <1>3, <1>4 DEF Next

LEMMA Invariance == Spec => []IInv
BY InitIInv, NextIInv, PTL DEF Spec

-----------------------------------------------------------------------------
(* The theorems *)

\* For every layout and every size class table that serves what it is asked
\* for, dealloc names the class that the block was filed under.
THEOREM BlocksAgree == Spec => []Agreement
<1>1. IInv => Agreement
  BY DEF IInv
<1>2. QED
  BY <1>1, Invariance, PTL

\* The debug assertions of global.rs cannot fail.
THEOREM DebugAssertionsHold == Spec => []DebugValidate
<1>1. IInv => DebugValidate
  BY DEF IInv
<1>2. QED
  BY <1>1, Invariance, PTL

\* Memory from alloc_zeroed reads as zero until it is written to.
THEOREM ZeroedIsZero == Spec => []ZeroedBlocksAreZero
<1>1. IInv => ZeroedBlocksAreZero
  BY DEF IInv
<1>2. QED
  BY <1>1, Invariance, PTL

\* However calls nest in hooks, a hook is told of a block that is there.
THEOREM HooksAreTold == Spec => []HooksSeeLiveBlocks
<1>1. IInv => HooksSeeLiveBlocks
  BY DEF IInv
<1>2. QED
  BY <1>1, Invariance, PTL

=============================================================================

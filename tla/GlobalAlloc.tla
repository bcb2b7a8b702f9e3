----------------------------- MODULE GlobalAlloc ----------------------------
(***************************************************************************)
(* Rust's global allocator over jemalloc: the GlobalAlloc implementation   *)
(* of global.rs, the normalisation of layouts of global/layout.rs and the  *)
(* observation hooks of global/hook.rs.                                    *)
(*                                                                         *)
(* Rust frees by layout: dealloc recomputes, from the layout the caller    *)
(* hands back, the size and the flag word of the request that made the     *)
(* block, and jemalloc's sized deallocation trusts them.  `known` is what  *)
(* the program knows of its blocks, their layouts; `heap` is what jemalloc *)
(* knows of them.  The module is about the two agreeing.                   *)
(*                                                                         *)
(* A call runs its hook and then jemalloc.  The hook may itself allocate,  *)
(* so that the calls of a thread form a stack.  jemalloc's size classes    *)
(* are external and are parameters.                                        *)
(***************************************************************************)
EXTENDS Integers, Sequences

CONSTANTS
  Threads,
  Blocks,             \* names for the memory blocks of the program
  QUANTUM,
  Sizes, Aligns,      \* of the layouts the program uses
  SizeClass(_, _),    \* jemalloc: the class that serves a size at an
                      \* alignment, 0 if there is none
  Natural(_),         \* jemalloc: the alignment of the blocks of a class
  MaxCalls            \* bound on the calls of two threads, nested or not

Layouts == [size : Sizes, align : Aligns]

(***************************************************************************)
(* What the code relies on.  Alignments are powers of two.  jemalloc serves*)
(* what it is asked for, and its quantum covers Rust's: a class that holds *)
(* QUANTUM bytes is aligned to it, alignment flag or not (jemalloc_quantum_*)
(* covers_the_rust_quantum in tests/flags.rs).                             *)
(***************************************************************************)
ASSUME SizeClassAssumption ==
  /\ QUANTUM \in Nat \ {0}
  /\ Sizes \subseteq Nat \ {0}
  /\ Aligns \subseteq Nat
  /\ \A a \in Aligns : \E l \in 0..63 : 2^l = a
  /\ MaxCalls \in Nat
  /\ \A s \in Sizes \cup {QUANTUM}, a \in Aligns \cup {1} :
       LET c == SizeClass(s, a)
       IN  /\ c \in Nat
           /\ c # 0 => c >= s /\ Natural(c) \in Nat /\ Natural(c) >= a
           /\ c # 0 /\ s >= QUANTUM => Natural(c) >= QUANTUM

VARIABLES
  heap,    \* heap[b]: jemalloc's block b, or NoBlock
  known,   \* known[b]: the layout the program knows b by, or NoLayout
  fresh,   \* the blocks that came from alloc_zeroed and are still untouched
  slots,   \* the operations with a hook installed
  stack    \* stack[t]: the calls of thread t, the innermost one last

vars == <<heap, known, fresh, slots, stack>>

Operations == {"alloc", "alloc_zeroed", "realloc", "dealloc"}

NoBlock == [class |-> 0, base |-> 0, zero |-> FALSE]

NoLayout == [size |-> 0, align |-> 0]

NoPtr == "null"

-----------------------------------------------------------------------------
(* global/layout.rs and flags.rs *)

adjust_layout(layout) ==
  [layout EXCEPT !.size = IF layout.size < QUANTUM THEN QUANTUM ELSE layout.size]

\* The position of the only bit of a power of two.
MALLOCX_ALIGN(align) == CHOOSE l \in 0..63 : 2^l = align

MALLOCX_ZERO == 64

\* Bug: alignment is taken for implied by the size alone.
layout_flags_SizeImplies(layout) ==
  IF layout.align <= layout.size THEN 0 ELSE MALLOCX_ALIGN(layout.align)

layout_flags(layout) ==
  IF layout.align <= QUANTUM /\ layout.align <= layout.size
  THEN 0
  ELSE MALLOCX_ALIGN(layout.align)

\* jemalloc's decoding of a flag word: the alignment in the low six bits, one
\* standing for none, and the bit that asks for zeroed memory.
FlagAlign(flags) == 2^(flags % 64)

FlagZero(flags) == (flags \div 64) % 2 = 1

\* The class jemalloc computes for a request (nallocx; 0: no such class).
nallocx(size, flags) == SizeClass(size, FlagAlign(flags))

\* The class that dealloc names: adjusted and encoded anew from the layout.
NamedClass(layout) ==
  LET adjusted == adjust_layout(layout)
  IN  nallocx(adjusted.size, layout_flags(adjusted))

-----------------------------------------------------------------------------
(* The entry points: the call, its hook, and the part that is left *)

Top(t) == stack[t][Len(stack[t])]

Below(t) == SubSeq(stack[t], 1, Len(stack[t]) - 1)

MayCall(t) ==
  /\ Len(stack[t]) < MaxCalls
  /\ \A u \in Threads \ {t} : Len(stack[t]) + Len(stack[u]) < MaxCalls

\* A block whose call is under way belongs to that call.
InFlight(b) ==
  \E t \in Threads : \E i \in 1..Len(stack[t]) : stack[t][i].ptr = b

\* Thread t is in the program or in a hook, and makes a call.  The phase says
\* whether the slot holds a hook, which runs first and on the original
\* arguments.
Enter(t, op, layout, ptr, size) ==
  /\ MayCall(t)
  /\ stack[t] # <<>> => Top(t).phase = "hook"
  /\ stack' = [stack EXCEPT ![t] = Append(@,
       [op |-> op, layout |-> layout, ptr |-> ptr, size |-> size,
        phase |-> IF op \in slots THEN "hook" ELSE "jemalloc"])]
  /\ UNCHANGED <<heap, known, fresh, slots>>

\* alloc and alloc_zeroed are called with any layout of nonzero size.
CallAlloc(t) ==
  \E op \in {"alloc", "alloc_zeroed"}, layout \in Layouts :
    Enter(t, op, layout, NoPtr, 0)

\* realloc and dealloc are called with a block and the layout it is known by.
CallRealloc(t) ==
  \E b \in Blocks, size \in Sizes :
    /\ known[b] # NoLayout /\ ~ InFlight(b)          \* contract
    /\ Enter(t, "realloc", known[b], b, size)

\* Bug: the block is released before its hook runs.
CallDealloc_FreeFirst(t) ==
  \E b \in Blocks :
    /\ known[b] # NoLayout /\ ~ InFlight(b)          \* contract
    /\ MayCall(t)
    /\ stack[t] # <<>> => Top(t).phase = "hook"
    /\ heap' = [heap EXCEPT ![b] = NoBlock]
    /\ stack' = [stack EXCEPT ![t] = Append(@,
         [op |-> "dealloc", layout |-> known[b], ptr |-> b, size |-> 0,
          phase |-> IF "dealloc" \in slots THEN "hook" ELSE "jemalloc"])]
    /\ UNCHANGED <<known, fresh, slots>>

CallDealloc(t) ==
  \E b \in Blocks :
    /\ known[b] # NoLayout /\ ~ InFlight(b)          \* contract
    /\ Enter(t, "dealloc", known[b], b, 0)

HookReturns(t) ==
  /\ stack[t] # <<>> /\ Top(t).phase = "hook"
  /\ stack' = [stack EXCEPT ![t][Len(stack[t])].phase = "jemalloc"]
  /\ UNCHANGED <<heap, known, fresh, slots>>

\* jemalloc serves a request at block b: memory that nobody asked to be
\* zeroed may read as zero or not.
Served(b, size, flags) ==
  /\ nallocx(size, flags) # 0
  /\ heap[b] = NoBlock
  /\ \E zero \in BOOLEAN :
       /\ FlagZero(flags) => zero
       /\ heap' = [heap EXCEPT ![b] =
                     [class |-> nallocx(size, flags),
                      base |-> Natural(nallocx(size, flags)), zero |-> zero]]

\* Bug: alloc_zeroed forgets MALLOCX_ZERO.
alloc_flags_NoZero(op, adjusted) == layout_flags(adjusted)

\* The flag words of alloc and of alloc_zeroed; the alignment is below the
\* zero bit, so that the sum is the bitwise or.
alloc_flags(op, adjusted) ==
  layout_flags(adjusted) + (IF op = "alloc_zeroed" THEN MALLOCX_ZERO ELSE 0)

\* The rest of alloc and alloc_zeroed, on failure (null) and on success.
alloc(t) ==
  LET call == Top(t)
      adjusted == adjust_layout(call.layout)
  IN  /\ stack[t] # <<>>
      /\ call.op \in {"alloc", "alloc_zeroed"} /\ call.phase = "jemalloc"
      /\ \/ UNCHANGED <<heap, known, fresh>>
         \/ \E b \in Blocks :
              /\ Served(b, adjusted.size, alloc_flags(call.op, adjusted))
              /\ known' = [known EXCEPT ![b] = call.layout]
              /\ fresh' = IF call.op = "alloc_zeroed" THEN fresh \cup {b} ELSE fresh
      /\ stack' = [stack EXCEPT ![t] = Below(t)]
      /\ UNCHANGED slots

realloc_request(call) == adjust_layout([call.layout EXCEPT !.size = call.size])

\* Bug: a block that cannot be resized is released.
realloc_FreesOnFailure(t) ==
  LET call == Top(t)
  IN  /\ stack[t] # <<>> /\ call.op = "realloc" /\ call.phase = "jemalloc"
      /\ heap' = [heap EXCEPT ![call.ptr] = NoBlock]
      /\ stack' = [stack EXCEPT ![t] = Below(t)]
      /\ UNCHANGED <<known, fresh, slots>>

\* jemalloc resizes block p, in place or by moving it to block b.
Resized(p, b, class) ==
  /\ class # 0
  /\ b = p \/ heap[b] = NoBlock
  /\ \E zero \in BOOLEAN :
       heap' = [heap EXCEPT
         ![p] = NoBlock,
         ![b] = [class |-> class, zero |-> zero,
                 base |-> IF b = p THEN heap[p].base ELSE Natural(class)]]

\* The rest of realloc.  On a failure (null) the block is as it was, and the
\* program still knows it by the old layout; on success the program knows the
\* result by the new size and the old alignment.
realloc(t) ==
  LET call == Top(t)
      adjusted == realloc_request(call)
  IN  /\ stack[t] # <<>> /\ call.op = "realloc" /\ call.phase = "jemalloc"
      /\ \/ UNCHANGED <<heap, known, fresh>>
         \/ \E b \in Blocks :
              /\ Resized(call.ptr, b, nallocx(adjusted.size, layout_flags(adjusted)))
              /\ known' = [known EXCEPT ![call.ptr] = NoLayout,
                                        ![b] = [call.layout EXCEPT !.size = call.size]]
              /\ fresh' = fresh \ {call.ptr}
      /\ stack' = [stack EXCEPT ![t] = Below(t)]
      /\ UNCHANGED slots

\* The rest of dealloc: sized deallocation, of the class the layout names.
dealloc(t) ==
  LET call == Top(t)
  IN  /\ stack[t] # <<>> /\ call.op = "dealloc" /\ call.phase = "jemalloc"
      /\ heap' = [heap EXCEPT ![call.ptr] = NoBlock]
      /\ known' = [known EXCEPT ![call.ptr] = NoLayout]
      /\ fresh' = fresh \ {call.ptr}
      /\ stack' = [stack EXCEPT ![t] = Below(t)]
      /\ UNCHANGED slots

-----------------------------------------------------------------------------
(* The program *)

\* The program writes to a block of its own.
Write(b) ==
  /\ known[b] # NoLayout /\ ~ InFlight(b)
  /\ heap' = [heap EXCEPT ![b].zero = FALSE]
  /\ fresh' = fresh \ {b}
  /\ UNCHANGED <<known, slots, stack>>

\* Hooks are installed and removed "only while no allocator operation can read
\* the slot" (hook.rs).
SetHook(op) ==
  /\ \A t \in Threads : stack[t] = <<>>              \* contract
  /\ \E installed \in BOOLEAN :
       slots' = IF installed THEN slots \cup {op} ELSE slots \ {op}
  /\ UNCHANGED <<heap, known, fresh, stack>>

Init ==
  /\ heap = [b \in Blocks |-> NoBlock]
  /\ known = [b \in Blocks |-> NoLayout]
  /\ fresh = {}
  /\ slots = {}
  /\ stack = [t \in Threads |-> <<>>]

Next ==
  \/ \E t \in Threads :
       \/ CallAlloc(t) \/ CallRealloc(t) \/ CallDealloc(t) \/ HookReturns(t)
       \/ alloc(t) \/ realloc(t) \/ dealloc(t)
  \/ \E b \in Blocks : Write(b)
  \/ \E op \in Operations : SetHook(op)

Spec == Init /\ [][Next]_vars

-----------------------------------------------------------------------------
(* Properties *)

\* The program and jemalloc agree on every block, across calls that fail,
\* resize in place or move, and calls made from hooks: they have the same
\* blocks, so none leaks and none is freed under its owner, and the class
\* that dealloc will name from the layout is the class jemalloc filed the
\* block under, which sized deallocation takes on trust (global.rs:204-210).
Agreement ==
  \A b \in Blocks :
    /\ known[b] = NoLayout <=> heap[b] = NoBlock
    /\ known[b] # NoLayout => heap[b].class = NamedClass(known[b])

\* The debug assertions of debug_validate: every block is as large and as
\* aligned as the layout its owner knows it by, also when the alignment was
\* left out of the flag word as implied.
DebugValidate ==
  \A b \in Blocks : known[b] # NoLayout =>
    /\ heap[b].class >= adjust_layout(known[b]).size
    /\ heap[b].base >= known[b].align

\* A block from alloc_zeroed reads as zero until its owner touches it, also
\* when its layout needs an alignment in the same flag word and when its
\* memory was used before.
ZeroedBlocksAreZero == \A b \in fresh : heap[b].zero

\* A hook is told of a block that is still there, by the layout its owner
\* knows it by: it runs before jemalloc resizes or releases the block, and no
\* call made from a hook takes a block away from an outer call.
HooksSeeLiveBlocks ==
  \A t \in Threads : \A i \in 1..Len(stack[t]) :
    LET call == stack[t][i]
    IN  call.op \in {"realloc", "dealloc"} =>
          /\ heap[call.ptr] # NoBlock
          /\ known[call.ptr] = call.layout

=============================================================================

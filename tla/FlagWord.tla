------------------------------ MODULE FlagWord ------------------------------
(***************************************************************************)
(* The flag word of the extended allocation functions: the encoders of     *)
(* jevmalloc-sys/src/flags.rs, the handles' `flags` methods, and what      *)
(* jemalloc reads out of the word.                                         *)
(*                                                                         *)
(* The word is a C int of 32 bits: six of alignment, one that asks for     *)
(* zeroed memory, and two fields of twelve bits that hold a tcache and an  *)
(* arena.  Zero in a field means "not asked for", so that the encoders     *)
(* shift identifiers by one or two, and the largest indices of a field are *)
(* not usable.  A program or-s the flags together in any order; `asked` is *)
(* what it meant.                                                          *)
(***************************************************************************)
EXTENDS Integers, HandleLimits

CONSTANTS
  TCACHE_INDEX_LIMIT,           \* thread/cache.rs: 4094
  Aligns, Tcaches, UsedArenas   \* the parts the program draws from

\* The indices that an arena's and a cache's handle can hold.
ArenaIndices == 0..(ARENA_INDEX_LIMIT - 1)

TcacheIndices == 0..(TCACHE_INDEX_LIMIT - 1)

ASSUME FlagAssumption ==
  /\ ARENA_INDEX_LIMIT = 4095
  /\ TCACHE_INDEX_LIMIT = 4094
  /\ Aligns \subseteq 0..63

\* The parts that are not asked for, and the tcache that means no tcache.
Automatic == -1
NoTcache == -2

\* The weight of the lowest bit of the arena's field: 2^20.
ArenaUnit == 1048576

\* The two wide fields have twelve bits each.
FieldSize == 4096

\* A value of 32 bits is a C int in two's complement; `high` is its upper
\* twelve bits, which is all that MALLOCX_ARENA sets.
Signed(high) == IF high >= 2048 THEN high - FieldSize ELSE high

-----------------------------------------------------------------------------
(* The encoders *)

MALLOCX_LG_ALIGN(la) == la

MALLOCX_ZERO == 64

\* Bug: the tcache is shifted by one, as an arena is.
MALLOCX_TCACHE_PlusOne(tc) == (tc + 1) * 256

\* (tc + 2) << 8: nothing keeps it inside its field but the limit on tc.
MALLOCX_TCACHE(tc) == (tc + 2) * 256

\* MALLOCX_TCACHE of usize::MAX, to which adding two wraps around to one.
MALLOCX_TCACHE_NONE == MALLOCX_TCACHE(-1)

\* (a + 1) << 20 in 32 bits.
MALLOCX_ARENA(a) == Signed((a + 1) % FieldSize) * ArenaUnit

-----------------------------------------------------------------------------
(* What jemalloc reads *)

LgAlign(word) == word % 64

Zero(word) == (word \div 64) % 2 = 1

Tcache(word) ==
  LET field == (word \div 256) % FieldSize
  IN  IF field = 0 THEN Automatic ELSE IF field = 1 THEN NoTcache ELSE field - 2

ArenaOf(word) == ((word \div ArenaUnit) % FieldSize) - 1

-----------------------------------------------------------------------------

VARIABLES
  word,   \* the flags or-ed together so far
  asked   \* what they mean

vars == <<word, asked>>

Nothing == [align |-> 0, zero |-> FALSE, tcache |-> Automatic, arena |-> Automatic]

Init == word = 0 /\ asked = Nothing

\* The fields are disjoint, so that or-ing a flag into a word in which its
\* field is still clear adds it.
Align(la) ==
  /\ asked.align = 0
  /\ word' = word + MALLOCX_LG_ALIGN(la)
  /\ asked' = [asked EXCEPT !.align = la]

AskZero ==
  /\ ~ asked.zero
  /\ word' = word + MALLOCX_ZERO
  /\ asked' = [asked EXCEPT !.zero = TRUE]

\* ThreadCache::flags.
AskTcache(tc) ==
  /\ tc \in TcacheIndices
  /\ asked.tcache = Automatic
  /\ word' = word + MALLOCX_TCACHE(tc)
  /\ asked' = [asked EXCEPT !.tcache = tc]

AskNoTcache ==
  /\ asked.tcache = Automatic
  /\ word' = word + MALLOCX_TCACHE_NONE
  /\ asked' = [asked EXCEPT !.tcache = NoTcache]

\* Arena::flags.
AskArena(a) ==
  /\ a \in ArenaIndices
  /\ asked.arena = Automatic
  /\ word' = word + MALLOCX_ARENA(a)
  /\ asked' = [asked EXCEPT !.arena = a]

Next ==
  \/ \E la \in Aligns : Align(la)
  \/ AskZero
  \/ \E tc \in Tcaches : AskTcache(tc)
  \/ AskNoTcache
  \/ \E a \in UsedArenas : AskArena(a)

Spec == Init /\ [][Next]_vars

-----------------------------------------------------------------------------
(* Properties *)

CInt(w) == w \in Int /\ -2147483647 - 1 <= w /\ w <= 2147483647

TypeOK ==
  /\ CInt(word)
  /\ asked \in [align : 0..63, zero : BOOLEAN,
                tcache : TcacheIndices \cup {Automatic, NoTcache},
                arena : ArenaIndices \cup {Automatic}]

\* jemalloc reads out of the word exactly what the program put in, whatever
\* the order: no field runs into its neighbour, arena 0 and tcache 0 are told
\* from "automatic" and from "none", and the largest accepted indices neither
\* wrap around nor overflow into the sign.
JemallocReadsWhatWasAsked ==
  /\ LgAlign(word) = asked.align
  /\ Zero(word) <=> asked.zero
  /\ Tcache(word) = asked.tcache
  /\ ArenaOf(word) = asked.arena

=============================================================================

---------------------------- MODULE ArenaControl ----------------------------
(***************************************************************************)
(* Reclamation and decay settings of arenas: the operations of arena.rs,   *)
(* arenas.rs and thread/this.rs that are more than one control call, or    *)
(* whose control call is a read and a write in one (raw.rs: xchg).         *)
(*                                                                         *)
(* A control is addressed by a key whose second segment is an arena index, *)
(* the template of which says zero.  Calls for the calling thread's arena  *)
(* read `thread.arena` first; calls for all arenas use the index           *)
(* ALL_ARENAS.  Threads interleave between the control calls, each of      *)
(* which may fail, and `?` ends the operation where it does.  A command is *)
(* one step, but an exchange, one call here (raw.rs:231), is a read and a  *)
(* write inside jemalloc, and others may come between the two.             *)
(*                                                                         *)
(* jemalloc's arenas live throughout here; Arena.tla is about those that   *)
(* come and go.  The settings that are one exchange each (dirty and muzzy  *)
(* decay, retained growth, per-arena DSS) are alike: one stands for all.   *)
(***************************************************************************)
EXTENDS Integers, FiniteSets, HandleLimits, ArenaKeys, ProgramThreads

CONSTANTS
  NArenas,            \* jemalloc's arenas are 0..(NArenas - 1)
  Decays,             \* intervals that are written; -1 disables decay
  InitialDecay,       \* the interval of every arena to begin with
  MaxOperations       \* bound on the calls of a thread

ASSUME ControlAssumption ==
  /\ NArenas \in Nat \ {0}
  /\ ARENA_INDEX_LIMIT \in Nat /\ NArenas <= ARENA_INDEX_LIMIT
  /\ ALL_ARENAS \in Nat /\ ARENA_INDEX_LIMIT < ALL_ARENAS
  /\ Decays \cup {InitialDecay} \subseteq Int
  /\ MaxOperations \in Nat

Arenas == 0..(NArenas - 1)

VARIABLES
  current,   \* current[t]: `thread.arena` of t
  decayMs,   \* decayMs[a]: `arena.<a>.dirty_decay_ms`
  dirty,     \* the arenas with unused dirty pages
  pc,        \* pc[t]: the control call t makes next, or "set" within an exchange
  call,      \* call[t]: the operation, its receiver and argument
  index,     \* index[t]: the second segment of the key
  returned,  \* returned[t]: "ok" or "err"
  previous,  \* previous[t]: the output of t's last exchange
  operations, \* operations[t]: how many calls t made
  own,       \* ghost: the arenas that were t's own since its call began
  purged,    \* ghost: the arenas t purged since its call began
  inForce    \* ghost: the intervals that arenas had since t's call began,
             \* but for the one that t itself writes

jemallocVars == <<current, decayMs, dirty>>
callVars == <<pc, call, index, returned, previous, operations>>
ghosts == <<own, purged, inForce>>
reclaimVars == <<jemallocVars, callVars, ghosts>>

Idle(t) == pc[t] = "idle"

Call(op, of, asked, value) == [op |-> op, of |-> of, asked |-> asked, value |-> value]

NoCall == Call("none", "none", 0, 0)

\* The first control call of an operation, once its arena is known.
First(op) ==
  CASE op \in {"trim", "decay"} -> "decay" [] op = "purge" -> "purge"
    [] op = "set_dirty_decay" -> "xchg"

Reclaiming == {"trim", "decay", "purge"}

\* The arenas a control call with index i in its key acts on.
ActsOn(i) == IF i = ALL_ARENAS THEN Arenas ELSE {i} \cap Arenas

ReclaimInit ==
  /\ current \in [Threads -> Arenas]
  /\ decayMs = [a \in Arenas |-> InitialDecay]
  /\ dirty = {}
  /\ pc = [t \in Threads |-> "idle"]
  /\ call = [t \in Threads |-> NoCall]
  /\ index = [t \in Threads |-> 0]
  /\ returned = [t \in Threads |-> "ok"]
  /\ previous = [t \in Threads |-> InitialDecay]
  /\ operations = [t \in Threads |-> 0]
  /\ own = [t \in Threads |-> {}]
  /\ purged = [t \in Threads |-> {}]
  /\ inForce = [t \in Threads |-> {}]

-----------------------------------------------------------------------------
(* Calls *)

\* t calls op; the key has index i, and the next control call is `next`.
Begin(t, c, i, next) ==
  /\ Idle(t)
  /\ operations[t] < MaxOperations
  /\ operations' = [operations EXCEPT ![t] = @ + 1]
  /\ call' = [call EXCEPT ![t] = c]
  /\ index' = [index EXCEPT ![t] = i]
  /\ pc' = [pc EXCEPT ![t] = next]
  /\ own' = [own EXCEPT ![t] = {current[t]}]
  /\ purged' = [purged EXCEPT ![t] = {}]
  /\ inForce' = [inForce EXCEPT ![t] = {<<a, decayMs[a]>> : a \in Arenas}]
  /\ UNCHANGED <<jemallocVars, returned, previous>>

validated_index(i) == i < ARENA_INDEX_LIMIT

\* thread::this::trim, purge and decay, up to Arena::current.
this_reclaim(t, op) == Begin(t, Call(op, "this", 0, 0), 0, "current")

\* thread::this::set_dirty_decay, up to Arena::current.
this_set_dirty_decay(t, v) ==
  Begin(t, Call("set_dirty_decay", "this", 0, v), 0, "current")

\* Arena::from_index, then Arena::trim, decay or purge.
arena_reclaim(t, i, op) ==
  /\ validated_index(i)
  /\ Begin(t, Call(op, "arena", i, 0), i, First(op))

\* Arena::from_index, then Arena::set_dirty_decay.
arena_set_dirty_decay(t, i, v) ==
  /\ validated_index(i)
  /\ Begin(t, Call("set_dirty_decay", "arena", i, v), i, "xchg")

\* arenas::trim, purge and decay.
arenas_reclaim(t, op) == Begin(t, Call(op, "all", 0, 0), ALL_ARENAS, First(op))

\* The operation returns r.
Return(t, r) ==
  /\ pc' = [pc EXCEPT ![t] = "idle"]
  /\ returned' = [returned EXCEPT ![t] = r]

\* The interval of a is the one t asked for, and its pages age.
Written(t, a) ==
  /\ decayMs' = [decayMs EXCEPT ![a] = call[t].value]
  /\ inForce' = [u \in Threads |->
       IF u = t \/ Idle(u) THEN inForce[u] ELSE inForce[u] \cup {<<a, call[t].value>>}]
  /\ dirty' = IF call[t].value = -1 THEN dirty ELSE dirty \ {a}

\* "An error does not universally prove that no side effect occurred"
\* (raw.rs:217): what was asked for may have been done, or a part of it.
DoneInPart(t) ==
  \/ UNCHANGED <<decayMs, dirty, inForce>>
  \/ /\ pc[t] \in {"decay", "purge"}
     /\ \E some \in SUBSET ActsOn(index[t]) : dirty' = dirty \ some
     /\ UNCHANGED <<decayMs, inForce>>
  \/ pc[t] = "set" /\ Written(t, index[t])

\* A control call fails, and nothing is done that was to follow.
Fail(t) ==
  /\ ~ Idle(t)
  /\ Return(t, "err")
  /\ DoneInPart(t)
  /\ UNCHANGED <<current, call, index, previous, operations, own, purged>>

-----------------------------------------------------------------------------
(* Control calls that succeed *)

\* Bug: the key of the template is used as it is.
select_current_Template(t) == 0

\* Arena::select, with the index that Arena::current read.
select_current(t) == current[t]

\* Arena::current (a get), and the key for what follows.
Current(t) ==
  /\ pc[t] = "current"
  /\ index' = [index EXCEPT ![t] = select_current(t)]
  /\ pc' = [pc EXCEPT ![t] = First(call[t].op)]
  /\ UNCHANGED <<jemallocVars, call, returned, previous, operations, ghosts>>

\* Bug: the purge is for when the decay fails.
decay_Enough(t) ==
  /\ pc[t] = "decay"
  /\ ActsOn(index[t]) # {}
  /\ \E some \in SUBSET {a \in ActsOn(index[t]) : decayMs[a] # -1} : dirty' = dirty \ some
  /\ Return(t, "ok")
  /\ UNCHANGED <<current, decayMs, call, index, previous, operations, ghosts>>

\* arena.<i>.decay: as many pages as are due.  A trim goes on to the purge.
decay(t) ==
  /\ pc[t] = "decay"
  /\ ActsOn(index[t]) # {}
  /\ \E some \in SUBSET {a \in ActsOn(index[t]) : decayMs[a] # -1} : dirty' = dirty \ some
  /\ IF call[t].op = "trim"
     THEN pc' = [pc EXCEPT ![t] = "purge"] /\ UNCHANGED returned
     ELSE Return(t, "ok")
  /\ UNCHANGED <<current, decayMs, call, index, previous, operations, ghosts>>

\* arena.<i>.purge: every unused dirty page.
purge(t) ==
  /\ pc[t] = "purge"
  /\ ActsOn(index[t]) # {}
  /\ dirty' = dirty \ ActsOn(index[t])
  /\ purged' = [purged EXCEPT ![t] = @ \cup ActsOn(index[t])]
  /\ Return(t, "ok")
  /\ UNCHANGED <<current, decayMs, call, index, previous, operations, own, inForce>>

\* Bug: the interval is queried when it has been set.
xchg_SetThenGet(t) ==
  /\ pc[t] = "xchg"
  /\ index[t] \in Arenas
  /\ Written(t, index[t])
  /\ previous' = [previous EXCEPT ![t] = decayMs'[index[t]]]
  /\ Return(t, "ok")
  /\ UNCHANGED <<current, call, index, operations, own, purged>>

\* raw::xchg on arena.<i>.dirty_decay_ms: jemalloc puts the interval in force
\* into the output ...
xchg(t) ==
  /\ pc[t] = "xchg"
  /\ index[t] \in Arenas
  /\ previous' = [previous EXCEPT ![t] = decayMs[index[t]]]
  /\ pc' = [pc EXCEPT ![t] = "set"]
  /\ UNCHANGED <<jemallocVars, call, index, returned, operations, ghosts>>

\* ... and then takes the new one, whatever others have written since.
Replace(t) ==
  /\ pc[t] = "set"
  /\ Written(t, index[t])
  /\ Return(t, "ok")
  /\ UNCHANGED <<current, call, index, previous, operations, own, purged>>

-----------------------------------------------------------------------------
(* The rest of the program, and jemalloc *)

\* thread::this::set_arena.
set_arena(t, a) ==
  /\ Idle(t)
  /\ current' = [current EXCEPT ![t] = a]
  /\ UNCHANGED <<decayMs, dirty, callVars, ghosts>>

\* With an arena per CPU, jemalloc itself moves a thread that changed CPUs.
Migrate(t, a) ==
  /\ current' = [current EXCEPT ![t] = a]
  /\ own' = [own EXCEPT ![t] = IF Idle(t) THEN @ ELSE @ \cup {a}]
  /\ UNCHANGED <<decayMs, dirty, callVars, purged, inForce>>

\* Pages of a are freed.
FreePages(a) ==
  /\ dirty' = dirty \cup {a}
  /\ UNCHANGED <<current, decayMs, callVars, ghosts>>

ReclaimNext ==
  \/ \E t \in Threads :
       \/ \E op \in Reclaiming :
            \/ this_reclaim(t, op) \/ arenas_reclaim(t, op)
            \/ \E i \in 0..ALL_ARENAS : arena_reclaim(t, i, op)
       \/ \E v \in Decays :
            \/ this_set_dirty_decay(t, v)
            \/ \E i \in 0..ALL_ARENAS : arena_set_dirty_decay(t, i, v)
       \/ Current(t) \/ decay(t) \/ purge(t) \/ xchg(t) \/ Replace(t) \/ Fail(t)
       \/ \E a \in Arenas : set_arena(t, a) \/ Migrate(t, a)
  \/ \E a \in Arenas : FreePages(a)

ReclaimSpec == ReclaimInit /\ [][ReclaimNext]_reclaimVars

-----------------------------------------------------------------------------
(* Properties *)

\* The arenas the caller of t's operation meant.
Meant(t) ==
  CASE call[t].of = "this" -> own[t]
    [] call[t].of = "arena" -> {call[t].asked} \cap Arenas
    [] OTHER -> Arenas

\* A step that reclaims pages of an arena or changes its interval is a step
\* of an operation that was meant for it.
ActsWhereMeant ==
  \A a \in Arenas :
    (a \in dirty /\ a \notin dirty') \/ decayMs'[a] # decayMs[a] =>
      \E t \in Threads : pc'[t] # pc[t] /\ a \in Meant(t)

\* "These functions do not accidentally operate on arena zero" (this.rs:5):
\* pages are reclaimed and settings changed only in arenas the caller meant.
\* For the calling thread's arena that is one that was its own during the
\* call: an arena per CPU may be another by the time it is trimmed.
OnlyWhatWasMeant == [][ActsWhereMeant]_reclaimVars

\* A trim or purge that returned without an error purged, after it began, the
\* arena it was for, or every arena: it did not stop at what decay left
\* behind, and the `thread.arena` it read did not lead it elsewhere.
TrimReclaims ==
  \A t \in Threads :
    Idle(t) /\ call[t].op \in {"trim", "purge"} /\ returned[t] = "ok" =>
      IF call[t].of = "this"
      THEN purged[t] \cap own[t] # {}
      ELSE Meant(t) \subseteq purged[t]

\* "The previous interval is returned" (arena.rs:445, thread/this.rs:107): one
\* that was in force during the call, before the new one, on the arena that
\* was meant.  It need not be the last: of two threads that set the interval
\* of one arena, both may be given the same previous one.
PreviousWasInForce ==
  \A t \in Threads :
    Idle(t) /\ call[t].op = "set_dirty_decay" /\ returned[t] = "ok" =>
      \E a \in Meant(t) : <<a, previous[t]>> \in inForce[t]

=============================================================================

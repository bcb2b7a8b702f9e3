--------------------------- MODULE ArenaSettings ----------------------------
(***************************************************************************)
(* The settings an arena has for its life (arena.rs: name, DSS precedence, *)
(* decay intervals and retained growth; arena/name.rs, arena/dss.rs) and   *)
(* the defaults that arenas are created with (arenas.rs).                  *)
(*                                                                         *)
(* Every setting is a control whose key template has an arena index in its *)
(* second segment, zero until a `select` puts another there: that of       *)
(* arena.rs the handle's index, that of arenas.rs ALL_ARENAS, at which the *)
(* same template is the default precedence.  Indices are recycled, and a   *)
(* handle is used only while its arena is there, which is the contract of  *)
(* Arena.tla.  Each setting is one control call, which is one step         *)
(* whatever thread makes it; one that fails is a stuttering step.          *)
(***************************************************************************)
EXTENDS Integers, FiniteSets, SequencesExt, ArenaKeys

CONSTANTS
  Handles,
  NIndices,        \* jemalloc hands out the indices below this
  Intervals,       \* decay intervals
  Limits,          \* the growth limits asked for
  Classes,         \* the page-size classes a limit is rounded down to
  Names,           \* the names given to arenas: sequences of bytes
  ARENA_NAME_LEN,
  HasSbrk,         \* does the platform have sbrk(2)?
  MaxId,           \* bound on the arenas ever created
  MaxCalls         \* bound on the calls that change a setting

NUL == "NUL"

\* A name is a C string: it has no NUL inside.
ASSUME ArenaSettingsAssumption ==
  /\ NIndices \in Nat \ {0} /\ ALL_ARENAS \in Nat /\ NIndices <= ALL_ARENAS
  /\ Limits \subseteq Nat /\ Classes \subseteq Nat
  /\ \A n \in Limits : \E c \in Classes : c <= n
  /\ \A n \in Names : n \in Seq({n[i] : i \in DOMAIN n}) /\ \A i \in DOMAIN n : n[i] # NUL
  /\ ARENA_NAME_LEN \in Nat \ {0}
  /\ HasSbrk \in BOOLEAN
  /\ MaxId \in Nat /\ MaxCalls \in Nat

Indices == 0..(NIndices - 1)
Kinds == {"dirty", "muzzy"}

VARIABLES
  arena,     \* arena[i]: jemalloc's arena i
  defaults,  \* what it gives to arenas it creates
  handle,    \* handle[h]: an Arena, or Free
  wanted,    \* ghost: wanted[id]: the settings that arena was meant to have
  meant,     \* ghost: the defaults that were meant
  got,       \* the last name that was read, and the one that was meant
  nextId, calls

settingsVars == <<arena, defaults, handle, wanted, meant, got, nextId, calls>>

Free == [index |-> 0, id |-> 0]
NoName == [tag |-> "none"]

InitialDefaults == [dirty |-> 0, muzzy |-> 0, dss |-> "disabled"]

\* An arena as it is created.
Created(id, d) ==
  [id |-> id, dirty |-> d.dirty, muzzy |-> d.muzzy, dss |-> d.dss,
   limit |-> 0, name |-> <<>>]

NoArena == Created(0, InitialDefaults)

\* Arena 0 is there from the start, with id 1.
SettingsInit ==
  /\ arena = [i \in Indices |-> IF i = 0 THEN Created(1, InitialDefaults) ELSE NoArena]
  /\ defaults = InitialDefaults
  /\ handle = [h \in Handles |-> Free]
  /\ wanted = <<Created(1, InitialDefaults)>>
  /\ meant = InitialDefaults
  /\ got = NoName
  /\ nextId = 2
  /\ calls = 0

-----------------------------------------------------------------------------
(* Arenas come and go (Arena.tla) *)

create(h) ==
  /\ handle[h] = Free /\ nextId <= MaxId
  /\ \E i \in {j \in Indices : arena[j].id = 0} :
       /\ arena' = [arena EXCEPT ![i] = Created(nextId, defaults)]
       /\ handle' = [handle EXCEPT ![h] = [index |-> i, id |-> nextId]]
  /\ wanted' = Append(wanted, Created(nextId, meant))
  /\ nextId' = nextId + 1
  /\ UNCHANGED <<defaults, meant, got, calls>>

\* A handle of an arena that is there already.
Borrow(h, i) ==
  /\ handle[h] = Free /\ arena[i].id # 0
  /\ handle' = [handle EXCEPT ![h] = [index |-> i, id |-> arena[i].id]]
  /\ UNCHANGED <<arena, defaults, wanted, meant, got, nextId, calls>>

\* The arena goes, and the contract is that every handle of it goes before.
destroy(h) ==
  /\ handle[h].id > 1
  /\ arena' = [arena EXCEPT ![handle[h].index] = NoArena]
  /\ handle' = [g \in Handles |-> IF handle[g].id = handle[h].id THEN Free ELSE handle[g]]
  /\ UNCHANGED <<defaults, wanted, meant, got, nextId, calls>>

drop(h) ==
  /\ handle[h] # Free
  /\ handle' = [handle EXCEPT ![h] = Free]
  /\ UNCHANGED <<arena, defaults, wanted, meant, got, nextId, calls>>

-----------------------------------------------------------------------------
(* Settings of one arena *)

\* Bug: the key is used as the template has it.
select_Template(h) == 0

\* Arena::select.
select(h) == handle[h].index

\* jemalloc takes the value v for the setting s, under a key whose second
\* segment is i.
Write(i, s, v) ==
  IF i = ALL_ARENAS
    THEN defaults' = [defaults EXCEPT ![s] = v] /\ UNCHANGED arena
    ELSE arena' = [arena EXCEPT ![i][s] = v] /\ UNCHANGED defaults

\* A control of the arena takes the value v for the setting s.
Set(h, s, v) ==
  /\ handle[h] # Free /\ calls < MaxCalls
  /\ Write(select(h), s, v)
  /\ wanted' = [wanted EXCEPT ![handle[h].id][s] = v]
  /\ calls' = calls + 1
  /\ UNCHANGED <<handle, meant, got, nextId>>

\* Arena::set_dirty_decay and set_muzzy_decay.
set_decay(h, kind, ms) == Set(h, kind, ms)

\* Arena::set_retain_grow_limit, which jemalloc rounds down to a class.
set_retain_grow_limit(h, limit) == Set(h, "limit", Max({c \in Classes : c <= limit}))

\* Dss::as_ptr and from_ptr: the C string of a precedence, and back.
as_ptr(dss) ==
  CASE dss = "Disabled" -> "disabled" [] dss = "Primary" -> "primary"
    [] dss = "Secondary" -> "secondary"

\* Without sbrk(2) jemalloc rejects all but "disabled".
Accepted(string) == HasSbrk \/ string = "disabled"

Precedences == {"Disabled", "Primary", "Secondary"}

set_dss(h, dss) == Accepted(as_ptr(dss)) /\ Set(h, "dss", as_ptr(dss))

\* The part of a name that fits into n bytes with its terminator.
Truncated(name, n) == SubSeq(name, 1, Min({Len(name), n - 1}))

\* Arena::set_name: jemalloc copies what fits into its own storage.
set_name(h, name) == Set(h, "name", Truncated(name, ARENA_NAME_LEN))

\* Bug: the storage is for the content alone.
ArenaName_NoTerminator == [i \in 1..(ARENA_NAME_LEN - 1) |-> NUL]

\* ArenaName::default.
ArenaName == [i \in 1..ARENA_NAME_LEN |-> NUL]

\* Arena::name: jemalloc copies the name and a terminator through the pointer,
\* into as many bytes as the storage has or beyond them.
read_name(h) ==
  LET source == arena[select(h)].name
  IN  /\ handle[h] # Free
      /\ got' = [tag |-> "some", expected |-> wanted[handle[h].id].name,
                 written |-> 1..(Len(source) + 1),
                 buffer |-> [i \in DOMAIN ArenaName |->
                               IF i <= Len(source) THEN source[i] ELSE NUL]]
      /\ UNCHANGED <<arena, defaults, handle, wanted, meant, nextId, calls>>

\* ArenaName::as_c_str and as_bytes: up to the first NUL, wherever that is.
as_bytes(buffer) ==
  LET nul == {i \in DOMAIN buffer : buffer[i] = NUL}
  IN  SubSeq(buffer, 1, IF nul = {} THEN Len(buffer) ELSE Min(nul) - 1)

-----------------------------------------------------------------------------
(* Defaults *)

\* arenas::set_dirty_decay and set_muzzy_decay: controls of their own.
arenas_set_decay(kind, ms) ==
  /\ calls < MaxCalls
  /\ defaults' = [defaults EXCEPT ![kind] = ms]
  /\ meant' = [meant EXCEPT ![kind] = ms]
  /\ calls' = calls + 1
  /\ UNCHANGED <<arena, handle, wanted, got, nextId>>

\* Bug: the key is used as the template has it, which is arena 0.
arenas_select_Template == 0

\* arenas::select.
arenas_select == ALL_ARENAS

\* arenas::set_dss: the template of one arena's precedence.
arenas_set_dss(dss) ==
  /\ calls < MaxCalls
  /\ Accepted(as_ptr(dss))
  /\ Write(arenas_select, "dss", as_ptr(dss))
  /\ meant' = [meant EXCEPT !.dss = as_ptr(dss)]
  /\ calls' = calls + 1
  /\ UNCHANGED <<handle, wanted, got, nextId>>

SettingsNext ==
  \/ \E h \in Handles :
       \/ create(h) \/ destroy(h) \/ drop(h) \/ read_name(h)
       \/ \E i \in Indices : Borrow(h, i)
       \/ \E kind \in Kinds, ms \in Intervals : set_decay(h, kind, ms)
       \/ \E limit \in Limits : set_retain_grow_limit(h, limit)
       \/ \E dss \in Precedences : set_dss(h, dss)
       \/ \E n \in Names : set_name(h, n)
  \/ \E kind \in Kinds, ms \in Intervals : arenas_set_decay(kind, ms)
  \/ \E dss \in Precedences : arenas_set_dss(dss)

SettingsSpec == SettingsInit /\ [][SettingsNext]_settingsVars

-----------------------------------------------------------------------------
(* Properties *)

\* Every arena has the settings that were given to that very arena, and for
\* the rest the defaults of the moment it was created: "Existing arenas are
\* not changed" (arenas.rs:63, 92, 122) by a default, nor one arena by a
\* handle of another, and a recycled index brings nothing along.  The defaults
\* are those that were set, whose key is an arena's but for its index.
SettingsAreTheArenas ==
  /\ defaults = meant
  /\ \A i \in Indices : arena[i].id # 0 => arena[i] = wanted[arena[i].id]

\* "At most 31 content bytes followed by a NUL" (name.rs:16): nothing is
\* written outside the storage for a name, the terminator that as_c_str looks
\* for is inside it, and what is read is the name last given to that arena, as
\* much of it as fits.
NamesFit ==
  got # NoName =>
    /\ got.written \subseteq DOMAIN got.buffer
    /\ \E i \in DOMAIN got.buffer : got.buffer[i] = NUL
    /\ as_bytes(got.buffer) = got.expected

=============================================================================

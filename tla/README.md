# A TLA+ model of jevmalloc

jevmalloc is a Rust interface to jemalloc: a global allocator, owned handles
for arenas and thread caches, stateful extent hooks, and the control and
statistics interface, on top of a crate of C declarations (`jevmalloc-sys`).
jemalloc itself is a C library outside this repository. Here it appears as the
environment: what the crate asks of it, what it may answer, and the contracts
that the crate's comments and `jevmalloc-sys/src/extent.rs` state of it.

The crate has almost no algorithms. It has *agreements*: two parties keep
books of the same thing, the crate translates between them, and nothing checks
at run time that the books are equal. Most properties below say of one such
pair that it stays equal through failures, interleavings and recycled numbers.

## 1. Inventory

Paths are relative to `src/jevmalloc/src` unless they name another crate.

| Component | State it keeps | Operations | What is hard |
|---|---|---|---|
| Control keys: `ctl/key.rs`, `ctl/key/cache.rs` | one static `Cache` per name: `len` and `segments`, all atomic | `Cache::get`, `load` | no lock: racing publishers and readers, memory ordering, failed translations |
| Raw controls: `ctl/raw.rs`, `ctl/value.rs`, `ctl/error.rs` | none | `mibs`, `get`, `get_in_place`, `set`, `xchg`, `update`, `notify` | what is one control call and what is two; storage that jemalloc filled in part or not at all; errors of calls that took effect all the same |
| Arenas: `arena.rs`, `arena/destroy_error.rs` | `Arena { index, owned }`; jemalloc's table, whose indices are recycled | `create*`, `from_index`, `from_owned_index`, `current`, `lookup`, `set_current`, `into_index`, `reset`, `set_*extent_hooks`, `try_destroy`, `Drop` | stale indices, double or lost ownership, refused destruction |
| Reclamation and settings: `arena.rs`, `arenas.rs`, `thread/this.rs` | jemalloc's settings and dirty pages | `trim`, `decay`, `purge`, `set_dirty_decay` and its likes, for one arena, the thread's, or all | several control calls per operation, template keys, partial failure |
| Thread caches: `thread/cache.rs`, `thread/cache/destroy_error.rs` | `ThreadCache { index, owned }`; jemalloc's table | `create`, `flush`, `flags`, `try_destroy`, `Drop` | `Send`: dropped on another thread, where a key lookup may fail |
| Global allocator: `global.rs`, `global/layout.rs`, `global/hook.rs` | four hook slots; the layouts of the program's blocks | `alloc`, `alloc_zeroed`, `realloc`, `dealloc` | sized deallocation recomputes the request; hooks re-enter |
| Flag words: `jevmalloc-sys/src/flags.rs` | none | `MALLOCX_*` | full fields, the sign bit, wrapping |
| Extent hooks: `arena/extent_hooks.rs` | the C table, the callbacks; the mappings on both sides | `ExtentHooks::new`, nine trampolines | inverted outcomes, empty slots, two sets of books |
| Statistics report: `stats.rs` | `PrintBuffer` | `print`, `print_raw`, `normalize_options`, `write`, `finish` | overflow in the middle, characters cut in two |
| Statistics and epoch: `stats.rs` | none; jemalloc's snapshot and its epoch | `epoch`, `refresh_epoch`, the getters | a set of reads is several calls, and any thread may refresh between them |
| Thread counters: `thread/counters.rs`, `thread/this.rs` | two pointers to the thread's counters | `current`, `allocated`, `deallocated` | words that wrap, frees on other threads |
| Thread and process settings: `thread/this.rs`, `profiling.rs`, `ctl/value.rs` | jemalloc's switches | `cache_enable`, `prof_enable`, `set_tcache_max`, `set_tcache_ncached_max`, `flush`, `idle`, `prof_gdump` | exchanged values that are restored later, C representations, a scan past the end of a string |
| Arena settings: `arena.rs`, `arena/name.rs`, `arena/dss.rs`, `arenas.rs` | jemalloc's settings per arena and its defaults | `set_name`, `set_dss`, `set_dirty_decay`, `set_retain_grow_limit` and the like | template keys, of one arena or of all; recycled indices; a name that fills its storage |
| Startup options: `opt.rs`, `config.rs`, `arenas.rs` | none | string getters, `percpu_mode` and its predicates | a constant behind a lookup and a read that may fail |
| Build script: `jevmalloc-sys/build.rs`, `env.rs` | `OUT_DIR`; Cargo's record of the last run | one run | what is not watched is never rebuilt; runs that end early leave files |
| Declarations, `configure`, `docker/` | none | - | - |

How they interact: every control operation resolves its key through the key
cache and then makes control calls through `raw`; `ThreadCache::create` resolves
the keys its *later* operations need, which is only worth something because the
key cache never refuses a key to a thread that already saw it; `Arena::flags`
and `ThreadCache::flags` feed the flag word, which is sound because the handles'
constructors bound the index; `Arena::create_with_extent_hooks` and
`set_extent_hooks` hand a hook table to jemalloc, which must be able to allocate.
A report refreshes the epoch that other threads' getters depend on, and the
build script decides which names every declaration links to.

The hazards that follow from this are listed in `PROJECT.json`, each at its
line, with the properties that would catch it.

## 2. Modules

| Module | Models | State and actions |
|---|---|---|
| `AtomicMemory` | Rust's atomics (external) | `mem[l]`: the messages written to location l, each with a timestamp and, for a Release store, the writer's view; `view[t]`: what thread t has seen. A load reads any message that is not older than the thread's view; an Acquire load joins the message's view. A store takes any free later timestamp. |
| `KeyService` | the abstract lookup service | `Call`, `Answer` with the complete key, `Refuse` only of a thread that does not hold it, `HandOver` |
| `OwnedResource` | the abstract owner | `Create`, `Destroy`, `Abandon`, `Recover`: no indices, flags or errors, and resources that never come back |
| `KeyCache` | `Cache::get`/`load`, `raw::mibs` | one action per atomic access: `BeginGet`, `LoadSegment`, `Translate`, `StoreSegment`, `Publish` |
| `Arena` | the arena lifecycle | jemalloc's table with a ghost identity per incarnation, thread associations, caches, live memory; handles that are held, inside an error, or given up as numbers; one action per method |
| `ControlCall` | `get`, `get_in_place`, `set`, `update` (`xchg` is `update` with one type), `notify` of `ctl/raw.rs` | a control with sizes of its own, the last call and its types' sizes, what it returned, whether it took effect; one action per function, jemalloc's answer a choice. A call that fails may have filled the storage and may have taken effect (`Failed`) |
| `ArenaControl` | `trim`, `decay`, `purge` and setting exchanges, for one arena, the thread's, or all | one step per control call, and two for an exchange: inside jemalloc it is a read (`xchg`) and a write (`Replace`), and nothing in the crate makes others wait. The `Fail` action is the `?` after each; what failed may have been done, or a part of it |
| `ThreadCache` | explicit caches | as `Arena`, plus the keys that each thread cannot be refused (`knows`, the `holds` of `KeyService`) |
| `GlobalAlloc` | the `GlobalAlloc` implementation | what the program knows of its blocks (`known`), what jemalloc knows (`heap`); a stack of calls per thread, for hooks that allocate |
| `FlagWord` | the encoders and jemalloc's decoding | the word and what was asked for; one action per flag |
| `ExtentHooks` | the table and the trampolines | jemalloc's extents, the callbacks' mappings, commit and zero state; one action per trampoline |
| `StatsReport` | `stats::print` | the option array and the report buffer; one action per turn of the option loop, per fragment, and for the end |
| `ArenaSettings` | names, DSS precedence, decay, growth limits, defaults | jemalloc's arenas and defaults, beside ghosts of what was meant for each arena that ever was; one action per setter. A write goes where its key's index says, an arena's or `ALL_ARENAS` (`Write`) |
| `ThreadSettings` | the thread's switches and cache limits, the process's switches | the C value of each control; the program's nested guards, which set again what they were given |
| `ThreadCounters` | `thread/counters.rs` and the control calls for the same counters | counters modulo `W` beside ghosts without a modulus; blocks that any thread frees |
| `StatsEpoch` | `epoch`, `refresh_epoch`, the getters | the counters, jemalloc's snapshots, and what each thread has learned since it saw a new epoch |
| `StartupOption` | string options, `percpu_mode` and its predicates | EXTENDS `KeyService`: a query is a lookup, which may be refused (`NotFound`), and then a read, which may fail (`Unread`) |
| `BuildScript` | `build.rs`, `env.rs`; Cargo and make external | the environment, the sources, `OUT_DIR`, the directives printed; one action per stage of a run, and `Stop`, which may end a run at any of them. An override that does not exist, or whose name cannot be given to the linker, ends it too |
| `CallingThread`, `Statistics`, `Arenas` | one source file each, of two components | `ThreadSettings` with `ThreadCounters`, `StatsReport` with `StatsEpoch`, `ArenaSettings` with `StartupOption` |

The last three put components into one specification that share no variable.
Every action of one leaves the state of the other as it is, and every property
is about one of them, so that it holds of all interleavings if it holds of the
behaviours in which one component moves and the other rests. These are the
ones the specification has: the instance is the sum of the two and not their
product.

Two abstract specifications are implemented by detailed ones, both through
`INSTANCE ... WITH`. `KeyCache` implements `KeyService`; `ThreadCache` (through
`knows`) and `StartupOption` (by EXTENDS) rest on the service and not on the
cache. `Arena` and `ThreadCache` both implement `OwnedResource`: the mapping
forgets the indices and keeps the identity of each incarnation, so that
"only its owner destroys it" is stated without the numbers that jemalloc
recycles. A handle, an error that holds one, and a leak are mapped to an owner,
the same owner, and a resource without one.

The modules named `*Proofs` hold the proofs: `KeyCacheProofs`, `ArenaProofs`,
`ThreadCacheProofs`, `ExtentHooksProofs` and `GlobalAllocProofs` extend the module
they are about, `StatisticsProofs` and `CallingThreadProofs` a module of two
components, and `InterfaceProofs` the smaller components, a section each. What
some of these have in common is a module of one constant: `ProgramThreads` (the
threads), `HandleLimits` (the limit of arena indices) and `ArenaKeys` (the index
that stands for all arenas).
The `MC*` modules give TLC its instances. Definitions named `X_Bug` (`Publish_Relaxed`,
`realloc_FreesOnFailure`, ...) are mutated forms of `X`: they are not part of a
specification, and show that a property would notice.

Caller contracts of `unsafe` functions are guards, marked `contract`. They are
what the documentation of the function demands and no more. An *owner's*
operations have no guard on its index: that the index is live is what the
module has to keep true.

## 3. Runs

| Run | What it shows | Bounds, and why they are enough |
|---|---|---|
| `key_cache` | `KeyCache` implements `KeyService`; no partial key; calls return | two threads, two calls each, one of which may stop anywhere for good; keys of one and two segments, names that are unknown, too deep, or of a wrong length, and translations that fail now and succeed later. Timestamps up to 4: both threads' stores fit in any order. More threads and segments: the proofs. |
| `control_call` | a returned value is jemalloc's to the last byte; `Ok` means that the write was made or the command run. Of an error nothing follows, as `raw.rs:217` and `lib.rs:91` say | types of up to three bytes on the caller's and the control's side: none, equal, shorter and longer; controls that write before or after they look at the output's size; calls that fail before or after they took effect; a library that may not report a difference |
| `arena` | ownership and destruction; `Arena` implements `OwnedResource` | two handles, two threads, one automatic arena and two further indices, two incarnations, so that an index is recycled under a stale handle; an owner, an error, a number and a leak can occur together |
| `arena_control` | trims and exchanges reach what was meant; a previous interval was in force during the call, before the new one | two threads with one operation each, two arenas, a valid index without an arena, an invalid one and `ALL_ARENAS`; an interval that disables decay and one that purges at once. Every race of two operations is there, between the read and the write of an exchange too |
| `arenas` | an arena has the settings meant for it and the defaults of its creation; names fit; per-CPU predicates say `true` only if it is so, and `false` of it only where the read failed or to a thread that may be refused the key | two indices and three arenas, so that an index is used again with other settings; three calls; a name that fills the storage exactly and a longer one; a growth limit between two classes. Three threads: one that is refused beside two that are not |
| `thread_cache` | ownership, keys; `ThreadCache` implements `OwnedResource` | three handles, two threads that start with or without the keys, two identifiers, four incarnations |
| `calling_thread` | scopes restore; settings strings arrive whole; counter differences and sums | two threads with two guards open between them, nested or side by side; a switch of the process; a C true that is not 1; requests between classes and past the largest; storage of three bytes for empty, short, longest and too long strings. Blocks of one and two bytes that either thread frees, counters modulo 3 and totals up to 3: each counter wraps once |
| `global_alloc` | agreement on blocks; what hooks see | two threads with two calls under way between them, side by side or one in the other's hook; sizes below, between and above the quantum and the alignments, alignments at and above the quantum: the four cases of `layout_flags` |
| `flag_word` | decoding gives what was encoded | all 4095 arena indices, boundary caches and alignments |
| `extent_hooks` | the books agree | every set of callbacks that has `alloc`; three pages: splits, merges and ranges at an offset |
| `statistics` | the contract of `print`; samples between equal epochs are one moment | option strings up to three bytes over two known options, an unknown one and NUL; a buffer of three bytes; up to three fragments of up to two bytes. Two threads, three epochs, two changes of the counters, two answers per sample: a refresh between any two calls of a sample, and one after an observation |
| `build_script` | what Cargo takes for up to date is; the build comes to rest | targets with and without malloc replacement, one with a page size of its own, one that is rejected; one variable (the five are alike) in two forms and the override, which may name nothing, a library, or a file that cannot be linked; two edits and one run that ends early, anywhere |

Deadlock is not checked where a bound ends every behaviour (calls of a thread,
incarnations, flags of a word, one report).

**Fairness.** Two properties need any. `CallsReturn` of `key_cache`: weak fairness of a
thread's steps inside `Cache::get`, for the threads that are not in `Suspended`.
The code justifies it: no step of `get` waits for another thread, so that a
scheduled thread can always take it. Nothing is assumed about threads that do
not call, and nothing about the suspended ones. `BuildSettles` of `build_script`: a run of the
build script that has begun goes on, which a sequential program without waits
does, and Cargo is called again and again, which is what "every build causes the
next" is about. Failures and interruptions are not fair and may happen or not;
their number is bounded by `MaxStops`.

**Memory model.** `AtomicMemory` has release/acquire views without the
promises of the full C++20 model: loads are not speculated past the program
order. `Cache` has one Release store and one Acquire load per call, all its
Relaxed accesses of segments are on one side of them, and the values stored do
not depend on loads, so that load buffering cannot produce a value that is not
stored anyway.

## 4. Proofs

All are checked by TLAPS, for every value of the constants that satisfies the
`ASSUME` of the component: any number of threads, handles, indices, pages,
segments or arenas. Of the properties of the runs, all are proved but the two
at the end of this section. Each proof has the same form: an inductive
invariant, one lemma for its initial states, one lemma per action (or per group
of actions that change the same things), and a theorem per property. The
invariants below are named where they are defined; what follows says what each
one has beside the properties, and why it is needed.

* `KeyCacheProofs`: `TypeCorrect`, `KeysAreComplete`, `CacheImplementsService`,
  `CallsAreBounded`, `CallsAreNotStuck`.
  `NoPartialKey` alone is not inductive: to know what a load returns one has to
  know what *every readable message* holds (`MessagesInv`: the initial zero or
  the right segment; a message of `len` carries a view past every segment), and
  that a thread that saw `len` cannot read an initial segment any more
  (`SeenInv`). `LoadInv` and `StoreInv` describe a call in its middle, `RetInv`
  ties the threads that hold the key to their views, which is what the
  refinement needs: a holder's Acquire load cannot read zero. The refinement
  maps a call in progress to `busy` and every step but the first and last of a
  call to a stutter. The last two theorems are "no caller blocks" without
  fairness. `StepsLeft` is a bound on the rest of a call, at most `KEY_SEGS + 2`:
  each step of the thread lowers it and no step of another thread changes it, so
  that the cache is wait-free and not only free of locks. And a thread always
  finds what its next step needs, a message to load or an answer of `mibs`, which
  needs that no view, of a thread or in a message, is ahead of the memory
  (`ViewsAreStored`). That a store finds a free timestamp is left out: it is
  the bound `MaxTime` that could refuse it. Assumption: `KeyAssumption`, the
  types of the constants, and that `mallctlnametomib` returns some status.
* `ArenaProofs`: `OwnersExclusive`, `ArenasAreKept`, `DeadArenasAreEmpty`,
  `ArenaImplementsOwnedResource`. The properties are inductive
  only together, and only where identities tell arenas apart (`IdsTellArenas`)
  and no index past `narenas` was ever used (`FreshIndices`): that an owner's
  arena is alive needs that nobody else destroys it, which needs that nobody
  else owns it, under whatever index. For the refinement each action is a
  `Create`, `Destroy`, `Abandon` or `Recover` of `OwnedResource` or leaves its
  variables alone; the lemmas named `...Refines` show which. Assumption:
  `ArenaAssumption`, in particular that jemalloc's indices are below the limit
  that the crate accepts and that the default table can allocate.
* `ThreadCacheProofs`: `LifecycleIsAvailable`, `CachesAreKept`,
  `MemoryIsReachable`, `CacheImplementsOwnedResource`. As for arenas. That no
  memory is stranded needs that the destroy key cannot be refused to an owner,
  on whatever thread it is dropped, so that `LifecycleAvailable` is a part of the
  invariant. The refinement is shown in the same step as the invariant.
* `GlobalAllocProofs`: `BlocksAgree`, `DebugAssertionsHold`, `ZeroedIsZero`,
  `HooksAreTold`. Beside the four properties, no block is handed to two calls,
  of two threads or of one and its own hook (`OneCall`): only so does a call
  find its block as its caller knew it, after a hook that allocated and freed.
  Assumption: `SizeClassAssumption`: alignments are powers of two, and a size
  class serves the size and the alignment it is asked for. The four cases of
  `layout_flags` are in `FlagFacts`.
* `ExtentHooksProofs`: `MappingsAgree`, `CommittedMemoryAgrees`,
  `ZeroedMemoryIsZero`. What is done to one extent leaves the books on the
  others right because no page is in two of them or in one and an abandoned
  mapping (`Division`), and a new mapping has no committed page left from an
  earlier one (`CommittedIsMapped`). Every table of callbacks is covered:
  `TypeOK` has that the C table has a slot exactly where there is a callback.
* `StatisticsProofs`, on the epoch: `ComparedSamplesAreOneMoment`,
  `RefreshedReadsAreFresh`. When a thread finds the epoch unchanged, what it has
  read since must already be of that snapshot, whether or not it ever asks
  (`AnswersAreCurrent`). On the report: `OptionsArrive`, `PrintKeepsItsContract`.
  The invariant describes both loops in their middle: what was stored is what
  was read (`StoredAreRead`), the buffer is the report so far unless that is too
  long (`Collected`). That the array has room for another option is a count: no
  option is stored twice (`RoomForOptions`).
* `CallingThreadProofs`, on the counters: `CountersDiffer`, `UseIsAddedUp`.
  A cell is the true count modulo the word (`CellsWrap`), an observation was
  true when it was made (`MarksWereTrue`), and the rest is that a difference of
  remainders has the remainder of the difference. `UseIsAddedUp` is about sums
  over all threads and over all blocks. Its inductive form (`CountersAddUp`) is
  about jemalloc's counters, whether or not every thread has a handle; a step
  changes one thread's difference and one block's size by the same amount, up
  to a multiple of the word (`StillAddsUp`). What a sum is, and how it changes
  with one summand (`SumChange`), is proved for every finite set: a set of
  subsets on which the claim fails would have a minimal member, which has one
  element too many. Assumption: there are finitely many threads and blocks. On the settings:
  `ScopesAreRestored`, `SettingsArrive`. That closing a scope brings back the
  setting of the scope around it needs that *every* open guard holds the
  setting of the scope around its own (`ScopesBalanced`), counting for each
  guard those of the same name below it.
* `InterfaceProofs`, on the flag word: `FlagsReadBack`. The word is the sum of
  its four fields (`Encodes`), each below the weight of the next; reading a field
  back is then division with remainder by constants. Assumption:
  `FlagAssumption`, the two limits the handles enforce.
* On typed control calls: `ValuesAreWhole`, `CallsThatSucceedAreDone`. Each
  call is one step, and the properties are about the last call, so that they are
  inductive; the work is in `CallFacts`, over everything jemalloc may answer,
  failures that took effect included.
* On startup options: `PredicatesSound`. A thread that is sure of its key must
  be among those who hold it (`sure` is a part of `holds`), or it could be
  refused in the middle of a query. Such a thread can still be told `false`
  wrongly, by a read that fails, and by nothing else.
* On reclamation: `TrimsReclaim`, `PreviousIsPrevious` and the action property
  `ReclaimsWhatWasMeant`. An operation that has read `thread.arena` has the index
  of an arena that was its own since it began (`KeySelected`, `CurrentIsOwn`),
  and every other one the index that was asked for. That a previous interval was
  in force needs a record of what every arena had since the call began, without
  the interval the call itself writes (`inForce`). Nothing is assumed of other
  threads between jemalloc's read and its write, so that two exchanges may
  return the same interval, and the property does not say that none is lost.
* On arena settings: `SettingsStay`, `NamesAreWhole`. A handle in use is of an
  arena that is there (`HandlesAreLive`), and an arena has one index
  (`OneIndex`), so that a setter reaches the arena it was meant for and no
  other; and no arena's index is `ALL_ARENAS`, so that a default reaches no arena
  that is already there. What is copied into a name's storage is followed byte by byte in
  `CopiedNameFits`. Assumption: names are C strings, without a NUL in them, and
  there is a growth class below every limit asked for.
  `ALL_ARENAS` is past every index of an arena.
* On the build script: `BuildsAreFresh`, `QuietBuildsSettle`. The
  properties are about the end of a run, so that the invariant says what has been done at each
  stage (`RunSoFar`): which forms of variables are watched, that the build
  directory was removed, and that each version of the sources in it was there
  at *some* time since the run began (`Between`). With sources that only get
  newer and trees that have not changed since the start, that version is the
  present one. `ReadAgain` is the heart of it: while the watched forms are as
  they were, reading a variable again gives the same value, although the form
  that was not looked at may have changed. `QuietBuildsSettle` is `BuildSettles`
  without fairness: a run has at most eight steps, one during which nothing is
  edited leaves a build that is up to date or that every run rejects, and only
  an edit changes that. Assumption: no value of a variable is one of the marks
  that the model uses beside values, and what can be linked exists.

Where a proof module is about two components of one specification, its theorems
are about each component's own specification, with nothing at rest, and the
lemmas `CallingThreadIsBoth`, `StatisticsIsBoth` and `ArenasIsBoth` show that the
specification of the run has only behaviours of both. Every proof cites only the
assumption of its own component: in `InterfaceProofs` the flag word has 4095 for the
limit of arena indices, as the code does, and the proofs on reclamation hold for
every limit with room for jemalloc's arenas below it and `ALL_ARENAS` above.

Bounds such as `MaxCalls` or `MaxEdits` are constants of the specifications, and
the theorems hold for every value of them.

Only model-checked: `CallsReturn` and `BuildSettles`, which are liveness under
fairness and out of the prover's reach. What does not need fairness of the
argument for them is proved: the measure that each step lowers, and that no
other step raises it (`CallsAreBounded`, `CallsAreNotStuck`,
`QuietBuildsSettle`). What is left to TLC is that a process that can step does.

## 5. What is not modelled

* jemalloc's internals: size classes, decay curves, the allocation of indices
  appear as parameters or as choices. Cargo, make and `configure` likewise.
* `stats_reset` clears mutex statistics that no getter of the crate reads;
  `prof_reset` and `prof_dump` send a command whose effect the crate never
  reads. They are `notify` of `ControlCall`, and so is `reset_peak`: what
  a peak is, and since when, is jemalloc's accounting. The background-thread
  switch of `lib.rs` is one `update` of `ControlCall`; one that fails may have
  taken effect.
* `peak`, `tcache_ncached_max`, `usable_size` and the scalar options, counts and sizes of
  `opt.rs`, `config.rs` and `arenas.rs`: one read of a value each, `get` of
  `ControlCall`.
* The declarations of `jevmalloc-sys`: no code of their own.
* The contents of a library named by `JEMALLOC_OVERRIDE`: the script does not watch
  the file, only the variable, so that `BuildIsFresh` is about its name. Nor does
  it watch `PATH`, `NUM_JOBS`, a compiler that is replaced at the same path, or
  the shell and `make`; `BuildIsFresh` does not cover them.
* That the prefix the script tells Rust is the one it gives `configure`: both are
  one `use_prefix` of the target and the features, which do not change in a run.
  Which names a library named by `JEMALLOC_OVERRIDE` has is not known to the script.
* Panics in hooks and callbacks: they abort the process.
* A composition of `Arena` with `ExtentHooks`: jemalloc uses the table only while
  the arena is there, which is jemalloc's to keep; the crate's part is to
  refuse a table that cannot allocate, which is the guard `accepts` of `Arena`.
* Associations that another thread changes while an arena is destroyed: the
  contracts of the `unsafe` functions exclude them, and they are guards of
  `Arena`. `NothingInDeadArenas` is that the crate's own steps do not get round
  them.
* `configure` (generated) and the container files.

## 6. Plan

Done: a model, runs and proofs for every component of the inventory that keeps
state or translates between two parties that do, and three refinements with
proofs (`KeyCache` of `KeyService`, `Arena` and `ThreadCache` of `OwnedResource`).

Every safety property of a run is a theorem. What could follow:

1. The type invariants of the components as theorems of their own, where they
   are now a part of an inductive invariant (`TypeCorrect` is one).
2. A composition of `Arena` with `ExtentHooks`, if the crate comes to keep
   mappings of its own.

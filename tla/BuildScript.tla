---------------------------- MODULE BuildScript -----------------------------
(***************************************************************************)
(* The build script of jevmalloc-sys (build.rs, env.rs), run by Cargo,     *)
(* which reruns it only when something changed that the script told it to  *)
(* watch.  Between runs, and while one is under way, the environment and   *)
(* the sources are edited, and a run may end anywhere, by a failed command *)
(* or a signal, leaving its files behind.                                  *)
(*                                                                         *)
(* A target is the set of names it contains, as in target.contains(name).  *)
(* A tree of sources is a version number.  The five configure variables    *)
(* are alike: ConfigVars names the ones an instance has.  Cargo and make   *)
(* are external.  Cargo drops the outcome of the last run before it starts *)
(* another, compares the watched trees with the time that run began, and   *)
(* uses the directives of a run only if it ended well.  make keeps objects *)
(* that it finds.                                                          *)
(***************************************************************************)
EXTENDS Integers

CONSTANTS
  Targets,      \* the targets, each the set of the names it contains
  Features,     \* the features that become --enable-x or --disable-x
  ConfigVars,   \* the JEMALLOC_SYS_WITH_* variables
  Values,       \* the values of variables, the empty one among them
  Existing,     \* those that are paths of something that exists
  Linkable,     \* those of them with a parent, a stem of three bytes or
                \* more (the lib of libx.a) and a name that is UTF-8
  MaxEdits,     \* bound on the changes of the environment and the sources
  MaxStops      \* bound on the runs that end early

Empty == ""
Absent == "absent"
NoTree == -1

\* What the linker is told when no library is supplied.
BundledLibrary == "bundled"

\* No value is one of the marks that the model uses beside values.
ASSUME BuildAssumption ==
  /\ Empty \in Values /\ {Absent, BundledLibrary} \cap Values = {}
  /\ Linkable \subseteq Existing /\ Existing \subseteq Values \ {Empty}
  /\ "override" \notin ConfigVars
  /\ MaxEdits \in Nat /\ MaxStops \in Nat

UNSUPPORTED_TARGETS == {"rumprun", "bitrig", "emscripten", "fuchsia", "redox", "wasm32"}
NO_UNPREFIXED_MALLOC_TARGETS == {"android", "dragonfly", "musl", "darwin", "openbsd"}

\* A variable has a form with the target's name in front, and a plain one.
Variables == ConfigVars \cup {"override"}
Forms == {"target", "plain"} \X Variables

Trees == {"jemalloc", "configure", "pthread_atfork"}

VARIABLES
  unit,       \* what Cargo reruns the script for in any case: the target,
              \* the enabled features and whether unprefixed malloc is one
  env,        \* env[f]: the environment variable f
  tree,       \* tree[s]: the version of the sources s
  stage,      \* the next step of the script, "idle" between the runs
  start,      \* the environment and the trees when the run began
  out,        \* the directives printed: watches, cfg(prefixed), the library
  dir,        \* OUT_DIR/build: its sources, their configuration and objects
  shim,       \* the version of the shim in OUT_DIR
  outcome,    \* Cargo's record of the last run, if it ended well
  edits, stops

inputs == <<unit, env, tree>>
buildVars == <<unit, env, tree, stage, start, out, dir, shim, outcome, edits, stops>>

None == [tag |-> "none"]

NoDirectives == [forms |-> {}, trees |-> {}, prefixed |-> FALSE, link |-> Absent]

TargetHas(name) == name \in unit.target

-----------------------------------------------------------------------------
(* Reading the environment *)

\* Bug: the plain form is watched only when it is the one that is read.
Watched_WhenRead(var, accepted) ==
  IF start.env[<<"target", var>>] \in accepted
  THEN {<<"target", var>>}
  ELSE {<<"target", var>>} \cup
       (IF start.env[<<"plain", var>>] \in accepted THEN {<<"plain", var>>} ELSE {})

\* read_and_watch_env_impl: the forms it tells Cargo to watch.
Watched(var, accepted) ==
  IF start.env[<<"target", var>>] \in accepted
  THEN {<<"target", var>>}
  ELSE {<<"target", var>>, <<"plain", var>>}

\* read_and_watch_env_impl: the value it finds.
Found(var, accepted) ==
  IF start.env[<<"target", var>>] \in accepted THEN start.env[<<"target", var>>]
  ELSE IF start.env[<<"plain", var>>] \in accepted THEN start.env[<<"plain", var>>]
  ELSE Absent

\* read_and_watch_env takes an empty variable for an absent one, and
\* read_and_watch_env_os does not.
Text == Values \ {Empty}
OsText == Values

-----------------------------------------------------------------------------
(* The script *)

Goto(next) == stage' = next

\* Unprefixed malloc is asked for by a feature, and is not for every target.
use_prefix ==
  ~ unit.unprefixed \/ \E name \in NO_UNPREFIXED_MALLOC_TARGETS : TargetHas(name)

\* The script panics: Cargo records nothing.
Panic ==
  /\ Goto("idle")
  /\ UNCHANGED <<inputs, start, out, dir, shim, outcome, edits, stops>>

CheckTarget ==
  /\ stage = "target"
  /\ IF \E name \in UNSUPPORTED_TARGETS : TargetHas(name)
     THEN Panic
     ELSE /\ out' = [out EXCEPT !.prefixed = use_prefix]
          /\ Goto("override")
          /\ UNCHANGED <<inputs, start, dir, shim, outcome, edits, stops>>

\* The run ends well, with these directives.
Finish(directives) ==
  /\ out' = directives
  /\ outcome' = [tag |-> "some", start |-> start, out |-> directives]
  /\ Goto("idle")

\* JEMALLOC_OVERRIDE: an existing library is linked, and nothing is built.
\* The path is asserted to exist, and its parts are unwrapped and cut.
CheckOverride ==
  LET library == Found("override", OsText)
      watching == [out EXCEPT !.forms = @ \cup Watched("override", OsText)]
  IN  /\ stage = "override"
      /\ \/ /\ library = Absent
            /\ out' = watching
            /\ Goto("remove")
            /\ UNCHANGED <<inputs, start, dir, shim, outcome, edits, stops>>
         \/ library \in Values \ Existing /\ Panic
         \/ library \in Existing \ Linkable /\ Panic
         \/ /\ library \in Linkable
            /\ Finish([watching EXCEPT !.link = library])
            /\ UNCHANGED <<inputs, start, dir, shim, edits, stops>>

RemoveBuildDir ==
  /\ stage = "remove"
  /\ out' = [out EXCEPT !.trees = @ \cup {"configure"}]
  /\ dir' = None
  /\ Goto("copy")
  /\ UNCHANGED <<inputs, start, shim, outcome, edits, stops>>

\* copy_recursively.
CopySources ==
  /\ stage = "copy"
  /\ dir' = IF dir = None
            THEN [tag |-> "some", jemalloc |-> tree["jemalloc"], configure |-> NoTree,
                  conf |-> None, objects |-> None]
            ELSE [dir EXCEPT !.jemalloc = tree["jemalloc"]]
  /\ Goto("copy_configure")
  /\ UNCHANGED <<inputs, start, out, shim, outcome, edits, stops>>

\* Bug: configure is put into the sources themselves, and run there.
CopyConfigure_InPlace ==
  /\ stage = "copy_configure"
  /\ tree' = [tree EXCEPT !["jemalloc"] = (@ + 1) % 2]
  /\ dir' = [dir EXCEPT !.configure = tree["configure"]]
  /\ Goto("configure")
  /\ UNCHANGED <<unit, env, start, out, shim, outcome, edits, stops>>

CopyConfigure ==
  /\ stage = "copy_configure"
  /\ dir' = [dir EXCEPT !.configure = tree["configure"]]
  /\ Goto("configure")
  /\ UNCHANGED <<inputs, start, out, shim, outcome, edits, stops>>

\* What configure is told: a variable that is not set has no argument, iOS
\* has a page size of its own, which LG_PAGE comes after and replaces, and
\* profiling by frame pointers is for Linux alone.
Arguments ==
  [prefixed |-> use_prefix,
   features |-> {f \in unit.features : f = "frameptr" => TargetHas("linux")},
   dss |-> ~ TargetHas("openbsd"),
   with |->
     [v \in ConfigVars |->
         IF Found(v, Text) = Absent /\ v = "LG_PAGE" /\ TargetHas("ios")
         THEN "14" ELSE Found(v, Text)]]

Configure ==
  /\ stage = "configure"
  /\ out' = [out EXCEPT !.forms = @ \cup UNION {Watched(v, Text) : v \in ConfigVars}]
  /\ dir' = [dir EXCEPT !.conf = Arguments]
  /\ Goto("make")
  /\ UNCHANGED <<inputs, start, shim, outcome, edits, stops>>

\* What the sources in the build directory make.
Compiled == [jemalloc |-> dir.jemalloc, configure |-> dir.configure, conf |-> dir.conf]

\* make, jemalloc's own tests if they are asked for, and make install.
Make ==
  /\ stage = "make"
  /\ \/ dir' = [dir EXCEPT !.objects = Compiled]
     \/ dir.objects # None /\ UNCHANGED dir
  /\ Goto("link")
  /\ UNCHANGED <<inputs, start, out, shim, outcome, edits, stops>>

\* The directives for the linker, and the shim for Android.
Link ==
  /\ stage = "link"
  /\ shim' = IF TargetHas("android") THEN tree["pthread_atfork"] ELSE shim
  /\ Finish([out EXCEPT
       !.link = BundledLibrary,
       !.trees = @ \cup {"jemalloc"} \cup
                 (IF TargetHas("android") THEN {"pthread_atfork"} ELSE {})])
  /\ UNCHANGED <<inputs, start, dir, edits, stops>>

Script ==
  \/ CheckTarget \/ CheckOverride \/ RemoveBuildDir \/ CopySources
  \/ CopyConfigure \/ Configure \/ Make \/ Link

-----------------------------------------------------------------------------
(* Cargo, and the world around it *)

Dirty ==
  outcome # None =>
    \/ \E f \in outcome.out.forms : env[f] # outcome.start.env[f]
    \/ \E s \in outcome.out.trees : tree[s] # outcome.start.tree[s]

Cargo ==
  /\ stage = "idle"
  /\ Dirty
  /\ outcome' = None
  /\ start' = [env |-> env, tree |-> tree]
  /\ out' = NoDirectives
  /\ Goto("target")
  /\ UNCHANGED <<inputs, dir, shim, edits, stops>>

\* A command fails, or the run is interrupted.
Stop ==
  /\ stage # "idle"
  /\ stops < MaxStops
  /\ stops' = stops + 1
  /\ Goto("idle")
  /\ UNCHANGED <<inputs, start, out, dir, shim, outcome, edits>>

EditEnv(f, v) ==
  /\ edits < MaxEdits
  /\ edits' = edits + 1
  /\ env' = [env EXCEPT ![f] = v]
  /\ UNCHANGED <<unit, tree, stage, start, out, dir, shim, outcome, stops>>

EditTree(s) ==
  /\ edits < MaxEdits
  /\ edits' = edits + 1
  /\ tree' = [tree EXCEPT ![s] = @ + 1]
  /\ UNCHANGED <<unit, env, stage, start, out, dir, shim, outcome, stops>>

BuildInit ==
  /\ unit \in [target : Targets, features : SUBSET Features, unprefixed : BOOLEAN]
  /\ env = [f \in Forms |-> Absent]
  /\ tree = [s \in Trees |-> 0]
  /\ stage = "idle"
  /\ start = [env |-> env, tree |-> tree]
  /\ out = NoDirectives
  /\ dir = None
  /\ shim = 0
  /\ outcome = None
  /\ edits = 0
  /\ stops = 0

BuildNext ==
  \/ Script \/ Cargo \/ Stop
  \/ \E f \in Forms, v \in Values \cup {Absent} : EditEnv(f, v)
  \/ \E s \in Trees : EditTree(s)

\* A run that has begun goes on, and Cargo is called again and again.
Fairness == WF_buildVars(Script) /\ WF_buildVars(Cargo)

BuildSpec == BuildInit /\ [][BuildNext]_buildVars
FairSpec == BuildSpec /\ Fairness

-----------------------------------------------------------------------------
(* Properties *)

\* Cargo goes on to compile and link.
Usable == stage = "idle" /\ ~ Dirty

\* The first acceptable one of the two forms of a variable, as they are now.
Preferred(var, accepted) ==
  LET set == {form \in {"target", "plain"} : env[<<form, var>>] \in accepted}
  IN  IF set = {} THEN Absent
      ELSE env[<<IF "target" \in set THEN "target" ELSE "plain", var>>]

\* Whatever was edited since, and however many runs ended early, what Cargo
\* takes for up to date is built from the sources, the configure script, the
\* configure variables and JEMALLOC_OVERRIDE as they are now: each of these is
\* watched, in each form in which it could matter, and no object of an earlier
\* run is left in the library.  What the script leaves unwatched on purpose
\* (NUM_JOBS, PATH, the compiler at the same path, sh and make, build.rs:54) is
\* not among them, nor are the compiler's variables, which the cc crate watches.
BuildIsFresh ==
  Usable =>
    IF Preferred("override", Values) # Absent
    THEN outcome.out.link = Preferred("override", Values)
    ELSE /\ outcome.out.link = BundledLibrary
         /\ dir.objects.jemalloc = tree["jemalloc"]
         /\ dir.objects.configure = tree["configure"]
         /\ \A v \in ConfigVars :
              Preferred(v, Values \ {Empty}) # Absent =>
                dir.objects.conf.with[v] = Preferred(v, Values \ {Empty})
         /\ \A v \in ConfigVars :
              Preferred(v, Values \ {Empty}) = Absent =>
                dir.objects.conf.with[v] \in {Absent, "14"}
         /\ "android" \in unit.target => shim = tree["pthread_atfork"]

\* The script panics whenever it is run.
Rejected ==
  \/ unit.target \cap UNSUPPORTED_TARGETS # {}
  \/ Preferred("override", Values) \in Values \ Linkable

\* Once the edits and the failures have ended, the build comes to rest: up to
\* date, unless the script has to reject it.  In particular a run does not
\* itself change anything that it tells Cargo to watch.
BuildSettles == <>[](Usable \/ Rejected)

=============================================================================

------------------------------- MODULE Arenas -------------------------------
(***************************************************************************)
(* arenas.rs: the settings and defaults of arenas (ArenaSettings) and the  *)
(* queries of the per-CPU mode (StartupOption) in one specification.  They *)
(* share no variable, so that a property of either holds of every          *)
(* interleaving if it holds while the other one rests: in a behaviour, one *)
(* of the two moves.                                                       *)
(***************************************************************************)
EXTENDS ArenaSettings, ProgramThreads

CONSTANTS
  OptionNames, Mib, Errors   \* of StartupOption

VARIABLES
  name, busy, ret, holds, stored, asking, said, sure, failed   \* of StartupOption

optionVars == <<name, busy, ret, holds, stored, asking, said, sure, failed>>

Option == INSTANCE StartupOption WITH Names <- OptionNames

ArenasInit == SettingsInit /\ Option!StartupInit

\* The option as it may be at the start, and one of its values.
OptionRest == Option!StartupInit /\ stored = "disabled"

ArenasNext ==
  \/ OptionRest /\ SettingsNext /\ UNCHANGED optionVars
  \/ SettingsInit /\ Option!StartupNext /\ UNCHANGED settingsVars

ArenasSpec == ArenasInit /\ [][ArenasNext]_<<settingsVars, optionVars>>

\* "Query failures produce `false`" (arenas.rs:208), and nothing else does: as
\* StartupOption states it, a predicate is true only of the mode in force,
\* and false of it only for a thread whose query failed just now.
PredicatesAreSound == Option!PredicatesAreSound

=============================================================================

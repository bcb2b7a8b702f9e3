--------------------------- MODULE CallingThread ----------------------------
(***************************************************************************)
(* The calling thread's controls (thread/this.rs, thread/counters.rs): its *)
(* settings (ThreadSettings) and its counters (ThreadCounters) in one      *)
(* specification.  They share no variable, so that a property of either    *)
(* holds of every interleaving if it holds while the other one rests: in a *)
(* behaviour, one of the two moves.                                        *)
(***************************************************************************)
EXTENDS ThreadSettings, ThreadCounters

CallingInit == Init /\ CountersInit

\* The settings as they may be at the start, and one of the ways they may be.
SettingsRest ==
  Init /\ \A c \in Controls : switch[c] = 0 /\ \A t \in Threads : tmax[t] = Largest

CallingNext ==
  \/ CountersInit /\ Next /\ UNCHANGED countersVars
  \/ SettingsRest /\ CountersNext /\ UNCHANGED vars

CallingSpec == CallingInit /\ [][CallingNext]_<<vars, countersVars>>

=============================================================================

----------------------------- MODULE Statistics -----------------------------
(***************************************************************************)
(* stats.rs: the report (StatsReport) and the epoch with its getters       *)
(* (StatsEpoch) in one specification.  What a report does to the epoch is  *)
(* in StatsEpoch, and the two share no variable, so that a property of     *)
(* either holds of every interleaving if it holds while the other one      *)
(* rests: in a behaviour, one of the two moves.                            *)
(***************************************************************************)
EXTENDS StatsReport, StatsEpoch

StatisticsInit == Init /\ EpochInit

StatisticsNext ==
  \/ EpochInit /\ Next /\ UNCHANGED epochVars
  \/ Init /\ given = <<>> /\ EpochNext /\ UNCHANGED vars

StatisticsSpec == StatisticsInit /\ [][StatisticsNext]_<<vars, epochVars>>

=============================================================================

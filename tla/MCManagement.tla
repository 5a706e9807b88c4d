---------------------------- MODULE MCManagement ----------------------------
(***************************************************************************)
(* The management API for TLC: a small instance of FlagStore and one of    *)
(* ExperimentLifecycle.  Flags and experiments share nothing, so calls     *)
(* about one of them are made before the first call about the other, and   *)
(* from one initial state of the other.  Both take their requests from the *)
(* same set, so that one symmetry serves both.                             *)
(***************************************************************************)
EXTENDS MCFlagStore, MCExperimentLifecycle

NoFlags == Init /\ backend = "postgres" /\ Defined = {}

NoExperiments == ExperimentInit /\ \A e \in Experiments : row[e] = NoExperiment

ManagementInit == Init /\ ExperimentInit /\ (NoFlags \/ NoExperiments)

ManagementNext ==
  \/ NoExperiments /\ Next /\ UNCHANGED experimentVars
  \/ NoFlags /\ ExperimentNext /\ UNCHANGED vars

ManagementSpec ==
  ManagementInit /\ [][ManagementNext]_<< vars, experimentVars >>

=============================================================================

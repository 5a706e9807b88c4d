----------------------- MODULE MCExperimentLifecycle -----------------------
(***************************************************************************)
(* Small instances of ExperimentLifecycle for TLC.                         *)
(***************************************************************************)
EXTENDS ExperimentLifecycle

CONSTANTS r1, r2, r3, e1, e2, d1, d2

\* e1 is of any status, or absent; only the API makes e2.
AnySeed ==
  { seed \in [Experiments -> [status : Statuses, config : {d1}] \cup {NoExperiment}] :
      seed[e2] = NoExperiment }

NoSeed == { [e \in Experiments |-> NoExperiment] }

DraftSeed == { [e \in Experiments |-> [status |-> "draft", config |-> d1]] }

=============================================================================

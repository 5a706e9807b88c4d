---------------------------- MODULE MCPublishing ----------------------------
(***************************************************************************)
(* Small instances of Publishing for TLC, and of Readiness with the same   *)
(* two publishers.  The two share nothing: a readiness request is served   *)
(* before the first call.                                                  *)
(***************************************************************************)
EXTENDS Publishing, Readiness, TLC

CONSTANTS c1, c2, p1, p2

\* p1 repeats what is not acknowledged; p2 gives up on it, and may hang.
MCAttempts == (p1 :> 2) @@ (p2 :> 1)

MCCheckers == << "persistence", "publisher", "publisher" >>

MCInit == Init /\ ReadyInit

MCNext ==
  \/ ReadyInit /\ Next /\ UNCHANGED readyVars
  \/ Init /\ ReadyNext /\ UNCHANGED vars

MCSpec == /\ MCInit /\ [][MCNext]_<< vars, readyVars >>
          /\ Fairness /\ ReadyFairness

=============================================================================

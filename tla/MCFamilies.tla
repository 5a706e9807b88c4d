----------------------------- MODULE MCFamilies -----------------------------
(***************************************************************************)
(* Evaluation for TLC, in three families of behaviours of one instance:    *)
(* two overlapping requests for one key while its flag is moved; one       *)
(* request while its flag is moved, disabled and deleted; and batches over *)
(* two keys and two tenants.                                               *)
(***************************************************************************)
EXTENDS MCEvaluation

VARIABLE family

Families ==
  [pair   |-> [requests |-> {r1, r2}, inputs |-> SingleInputs,
               definitions |-> {Sticky, Moved}, places |-> {<< t1, k1 >>}],
   moving |-> [requests |-> {r1}, inputs |-> SingleInputs,
               definitions |-> MovingDefinitions, places |-> {<< t1, k1 >>}],
   batch  |-> [requests |-> {r1}, inputs |-> BatchInputs,
               definitions |-> StickyDefinitions, places |-> Tenants \X Keys]]

\* The next state stays within the family; of two requests, r1 begins first.
WithinFamily ==
  LET f == Families[family] IN
  /\ \A r \in Requests : pc'[r] # "idle" => r \in f.requests /\ input'[r] \in f.inputs
  /\ pc'[r2] # "idle" => pc[r1] # "idle"
  /\ \A t \in Tenants, k \in Keys :
       flags'[t][k] # NoFlag => << t, k >> \in f.places /\ flags'[t][k] \in f.definitions

FamilyInit == Init /\ family \in DOMAIN Families

FamilyNext == Next /\ WithinFamily /\ UNCHANGED family

FamilySpec == FamilyInit /\ [][FamilyNext]_<< vars, family >> /\ Fairness

=============================================================================

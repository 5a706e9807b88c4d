----------------------------- MODULE Evaluation -----------------------------
(***************************************************************************)
(* Flag evaluation (internal/engine), as driven by POST /evaluate and      *)
(* POST /evaluate/batch, against a persistence module reached by gRPC.     *)
(*                                                                         *)
(* Every request runs in a goroutine of its own.  For each flag key, in    *)
(* turn, it reads the definition; if the flag is persistent it then reads  *)
(* the subject's assignment, and on a miss or an error evaluates the rules *)
(* and saves what it got.  These are separate calls: other requests,       *)
(* management writes and failures fall between them.  A call may fail, and *)
(* a save whose reply was given up on (five seconds, persistence.go:14)    *)
(* may still be executed by the module later.                              *)
(***************************************************************************)
EXTENDS FlagRules

CONSTANTS Requests,        \* the HTTP requests, each handled once
          Inputs,          \* what a request may ask
          Definitions,     \* the flag definitions management may write
          HasAssignments,  \* FALSE in config-file mode: no AssignmentStore
          HasFaults,       \* whether calls to the module may fail
          NoFlag, NoAssignment, NoInput

RequestInput == [tenant : Tenants, subject : Subjects, context : Contexts,
                 keys : Seq(Keys)]

ASSUME DefinitionsAssumption == Definitions \subseteq FlagDefinition
ASSUME InputsAssumption == Inputs \subseteq RequestInput
ASSUME ModeAssumption == HasAssignments \in BOOLEAN /\ HasFaults \in BOOLEAN
ASSUME NoneAssumption == /\ NoFlag \notin FlagDefinition
                         /\ NoAssignment \notin EvalResult
                         /\ NoInput \notin RequestInput

VARIABLES
  flags,        \* the flag definitions of each tenant, in the module
  assignments,  \* the saved assignment of each tenant, subject and key
  lateSaves,    \* saves given up on by their caller, not yet executed
  pc,           \* where each request is
  input,        \* what each request asks
  flag,         \* the definition a request has read for its current key
  computed,     \* the result a request is saving
  results,      \* the results a request has so far, in order
  (* History, read by no action of the program *)
  defined,      \* every definition a key of a tenant ever had
  stored,       \* every assignment ever saved for a tenant, subject and key
  window,       \* every definition a key had while the request was served
  unread,       \* positions whose assignment could not be read
  failed,       \* positions whose definition could not be read
  before        \* the requests answered before this one began

persistenceVars == << flags, assignments, lateSaves >>
requestVars == << pc, input, flag, computed, results >>
historyVars == << defined, stored, window, unread, failed, before >>
vars == << persistenceVars, requestVars, historyVars >>

-----------------------------------------------------------------------------
(* Types *)

PCs == {"idle", "flag", "assignment", "save", "done", "rejected"}

\* A save on its way: whose, for which position of its keys, and what it saves.
LateSave == [by : Requests, at : Nat, tenant : Tenants, subject : Subjects,
             key : Keys, answer : EvalResult]

TypeOK ==
  /\ flags \in [Tenants -> [Keys -> Definitions \cup {NoFlag}]]
  /\ assignments \in [Tenants -> [Subjects -> [Keys ->
                        EvalResult \cup {NoAssignment}]]]
  /\ lateSaves \subseteq LateSave
  /\ pc \in [Requests -> PCs]
  /\ input \in [Requests -> Inputs \cup {NoInput}]
  /\ flag \in [Requests -> Definitions \cup {NoFlag}]
  /\ computed \in [Requests -> EvaluationResult \cup {NoAssignment}]
  /\ results \in [Requests -> Seq(EvaluationResult)]
  /\ defined \in [Tenants -> [Keys -> SUBSET Definitions]]
  /\ stored \in [Tenants -> [Subjects -> [Keys -> SUBSET EvalResult]]]
  /\ window \in [Requests -> [Keys -> SUBSET (Definitions \cup {NoFlag})]]
  /\ unread \in [Requests -> SUBSET Nat]
  /\ failed \in [Requests -> SUBSET Nat]
  /\ before \in [Requests -> SUBSET Requests]

Init ==
  /\ flags = [t \in Tenants |-> [k \in Keys |-> NoFlag]]
  /\ assignments = [t \in Tenants |-> [s \in Subjects |->
                      [k \in Keys |-> NoAssignment]]]
  /\ lateSaves = {}
  /\ pc = [r \in Requests |-> "idle"]
  /\ input = [r \in Requests |-> NoInput]
  /\ flag = [r \in Requests |-> NoFlag]
  /\ computed = [r \in Requests |-> NoAssignment]
  /\ results = [r \in Requests |-> << >>]
  /\ defined = [t \in Tenants |-> [k \in Keys |-> {}]]
  /\ stored = [t \in Tenants |-> [s \in Subjects |-> [k \in Keys |-> {}]]]
  /\ window = [r \in Requests |-> [k \in Keys |-> {}]]
  /\ unread = [r \in Requests |-> {}]
  /\ failed = [r \in Requests |-> {}]
  /\ before = [r \in Requests |-> {}]

-----------------------------------------------------------------------------
(* Helpers *)

Active(r) == pc[r] \in {"flag", "assignment", "save"}

Position(r) == Len(results[r]) + 1

CurrentKey(r) == input[r].keys[Position(r)]

\* Mutant: the whole result is saved.
AnswerOf_Whole(res) == res

\* What is saved of a result.
AnswerOf(res) == [enabled |-> res.enabled, variant |-> res.variant]

Evaluated(r, d) == Outcomes(d, input[r].tenant, CurrentKey(r),
                            input[r].subject, input[r].context)

\* evaluate returns res for the current key: EvaluateBatch goes on to the next
\* key, or the handler answers.
Return(r, res) ==
  /\ results' = [results EXCEPT ![r] = Append(@, res)]
  /\ pc' = [pc EXCEPT ![r] = IF Position(r) < Len(input[r].keys)
                             THEN "flag" ELSE "done"]
  /\ flag' = [flag EXCEPT ![r] = NoFlag]
  /\ computed' = [computed EXCEPT ![r] = NoAssignment]
  /\ UNCHANGED input

\* Mutant: assignments are not kept apart by tenant.
Stored_AnyTenant(t, s, k, a) ==
  /\ assignments' = [u \in Tenants |-> [assignments[u] EXCEPT ![s][k] = a]]
  /\ stored' = [u \in Tenants |-> [stored[u] EXCEPT ![s][k] = @ \cup {a}]]

\* SaveAssignment takes effect in the module: the last write wins.
Stored(t, s, k, a) ==
  /\ assignments' = [assignments EXCEPT ![t][s][k] = a]
  /\ stored' = [stored EXCEPT ![t][s][k] = @ \cup {a}]

-----------------------------------------------------------------------------
(* The handlers and the engine *)

\* A well-formed request arrives.
Begin(r) ==
  /\ pc[r] = "idle"
  /\ \E in \in Inputs :
       /\ in.keys # << >>
       /\ input' = [input EXCEPT ![r] = in]
       /\ window' = [window EXCEPT ![r] = [k \in Keys |-> {flags[in.tenant][k]}]]
  /\ pc' = [pc EXCEPT ![r] = "flag"]
  /\ before' = [before EXCEPT ![r] = { q \in Requests : pc[q] = "done" }]
  /\ UNCHANGED << persistenceVars, flag, computed, results,
                  defined, stored, unread, failed >>

\* A batch without keys is refused before the engine is called.
Reject(r) ==
  /\ pc[r] = "idle"
  /\ \E in \in Inputs : /\ in.keys = << >>
                        /\ input' = [input EXCEPT ![r] = in]
  /\ pc' = [pc EXCEPT ![r] = "rejected"]
  /\ UNCHANGED << persistenceVars, flag, computed, results, historyVars >>

\* Mutant: a failing key ends the batch.
ReadFlagFails_Abort(r) ==
  /\ pc[r] = "flag" /\ HasFaults /\ HasAssignments
  /\ results' = [results EXCEPT ![r] =
                   Append(@, Result(CurrentKey(r), FALSE, NoVariant, "error"))]
  /\ pc' = [pc EXCEPT ![r] = "done"]
  /\ failed' = [failed EXCEPT ![r] = @ \cup {Position(r)}]
  /\ UNCHANGED << persistenceVars, input, flag, computed,
                  defined, stored, window, unread, before >>

\* GetFlag fails: this key's result is an error.
ReadFlagFails(r) ==
  /\ pc[r] = "flag" /\ HasFaults /\ HasAssignments
  /\ Return(r, Result(CurrentKey(r), FALSE, NoVariant, "error"))
  /\ failed' = [failed EXCEPT ![r] = @ \cup {Position(r)}]
  /\ UNCHANGED << persistenceVars, defined, stored, window, unread, before >>

\* Mutant: in config-file mode a disabled flag is evaluated.
Immediate_Enabled(r, d) ==
  IF d = NoFlag
  THEN { Result(CurrentKey(r), FALSE, NoVariant, "not_found") }
  ELSE { Result(o.key, o.enabled, o.variant, "no_persistence") :
           o \in Evaluated(r, d) }

\* What evaluate answers without reading an assignment.
Immediate(r, d) ==
  IF d = NoFlag
  THEN { Result(CurrentKey(r), FALSE, NoVariant, "not_found") }
  ELSE IF ~ d.enabled
  THEN { Result(CurrentKey(r), FALSE, NoVariant, "disabled") }
  ELSE { Result(o.key, o.enabled, o.variant,
                IF d.semantics = "persistent" THEN "no_persistence"
                                              ELSE o.reason) :
           o \in Evaluated(r, d) }

\* evaluate goes on to evaluatePersistent with an assignment store.
NeedsAssignment(d) ==
  d # NoFlag /\ d.enabled /\ d.semantics = "persistent" /\ HasAssignments

\* GetFlag answers, and the flag can be evaluated at once.
EvaluateFlag(r) ==
  /\ pc[r] = "flag"
  /\ LET d == flags[input[r].tenant][CurrentKey(r)] IN
       /\ ~ NeedsAssignment(d)
       /\ \E res \in Immediate(r, d) : Return(r, res)
  /\ UNCHANGED << persistenceVars, historyVars >>

\* GetFlag answers an enabled persistent flag: the assignment is needed.
ReadPersistentFlag(r) ==
  /\ pc[r] = "flag"
  /\ LET d == flags[input[r].tenant][CurrentKey(r)] IN
       /\ NeedsAssignment(d)
       /\ flag' = [flag EXCEPT ![r] = d]
  /\ pc' = [pc EXCEPT ![r] = "assignment"]
  /\ UNCHANGED << persistenceVars, input, computed, results, historyVars >>

\* Mutant: every key of a batch reads the first key's assignment.
Assigned_FirstKey(r) ==
  assignments[input[r].tenant][input[r].subject][input[r].keys[1]]

\* The assignment that GetAssignment looks up.
Assigned(r) == assignments[input[r].tenant][input[r].subject][CurrentKey(r)]

\* The rules are evaluated for the definition read; the result will be saved.
Compute(r) ==
  /\ \E res \in Evaluated(r, flag[r]) :
       computed' = [computed EXCEPT ![r] = res]
  /\ pc' = [pc EXCEPT ![r] = "save"]
  /\ UNCHANGED << persistenceVars, input, flag, results >>

\* Mutant: an assignment that was found is computed again.
AssignmentHit_Recomputed(r) ==
  /\ pc[r] = "assignment"
  /\ Assigned(r) # NoAssignment
  /\ Compute(r)
  /\ UNCHANGED historyVars

\* GetAssignment finds the subject's assignment.
AssignmentHit(r) ==
  /\ pc[r] = "assignment"
  /\ Assigned(r) # NoAssignment
  /\ Return(r, Result(CurrentKey(r), Assigned(r).enabled, Assigned(r).variant,
                      "persisted"))
  /\ UNCHANGED << persistenceVars, historyVars >>

\* GetAssignment finds nothing.
AssignmentMiss(r) ==
  /\ pc[r] = "assignment"
  /\ Assigned(r) = NoAssignment
  /\ Compute(r)
  /\ UNCHANGED historyVars

\* Mutant: a failed read starts the key over.
AssignmentReadFails_Retry(r) ==
  /\ pc[r] = "assignment" /\ HasFaults
  /\ pc' = [pc EXCEPT ![r] = "flag"]
  /\ flag' = [flag EXCEPT ![r] = NoFlag]
  /\ UNCHANGED << persistenceVars, input, computed, results, historyVars >>

\* GetAssignment fails: the engine goes on as if nothing had been found.
AssignmentReadFails(r) ==
  /\ pc[r] = "assignment" /\ HasFaults
  /\ Compute(r)
  /\ unread' = [unread EXCEPT ![r] = @ \cup {Position(r)}]
  /\ UNCHANGED << defined, stored, window, failed, before >>

\* SaveAssignment is executed.
SaveCommits(r) ==
  /\ pc[r] = "save"
  /\ Stored(input[r].tenant, input[r].subject, CurrentKey(r),
            AnswerOf(computed[r]))
  /\ Return(r, computed[r])
  /\ UNCHANGED << flags, lateSaves, defined, window, unread, failed, before >>

\* SaveAssignment fails; the error is dropped and the result returned.
SaveFails(r) ==
  /\ pc[r] = "save" /\ HasFaults
  /\ Return(r, computed[r])
  /\ UNCHANGED << persistenceVars, historyVars >>

\* SaveAssignment times out with the call still on its way.
SaveTimesOut(r) ==
  /\ pc[r] = "save" /\ HasFaults
  /\ lateSaves' = lateSaves \cup
       { [by |-> r, at |-> Position(r),
          tenant |-> input[r].tenant, subject |-> input[r].subject,
          key |-> CurrentKey(r), answer |-> AnswerOf(computed[r])] }
  /\ Return(r, computed[r])
  /\ UNCHANGED << flags, assignments, historyVars >>

-----------------------------------------------------------------------------
(* The module and the management API *)

\* A save its caller gave up on is executed after all.
LateSaveCommits(x) ==
  /\ x \in lateSaves
  /\ lateSaves' = lateSaves \ {x}
  /\ Stored(x.tenant, x.subject, x.key, x.answer)
  /\ UNCHANGED << flags, requestVars, defined, window, unread, failed, before >>

LateSaveLost(x) ==
  /\ x \in lateSaves
  /\ lateSaves' = lateSaves \ {x}
  /\ UNCHANGED << flags, assignments, requestVars, historyVars >>

\* The history of a change of the flag of t and k to d.
Observe(t, k, d) ==
  /\ defined' = [defined EXCEPT ![t][k] = @ \cup ({d} \ {NoFlag})]
  /\ window' = [r \in Requests |->
                  IF Active(r) /\ input[r].tenant = t
                  THEN [window[r] EXCEPT ![k] = @ \cup {d}]
                  ELSE window[r]]

\* Management creates or replaces a flag.
SetFlag(t, k, d) ==
  /\ flags' = [flags EXCEPT ![t][k] = d]
  /\ Observe(t, k, d)
  /\ UNCHANGED << assignments, lateSaves, requestVars, stored, unread, failed,
                  before >>

\* Management deletes a flag; its assignments stay.
DeleteFlag(t, k) ==
  /\ flags[t][k] # NoFlag
  /\ flags' = [flags EXCEPT ![t][k] = NoFlag]
  /\ Observe(t, k, NoFlag)
  /\ UNCHANGED << assignments, lateSaves, requestVars, stored, unread, failed,
                  before >>

\* Config-file mode: a reload swaps the definitions of every key at once.
Reload(new) ==
  /\ flags' = new
  /\ defined' = [t \in Tenants |-> [k \in Keys |->
                   defined[t][k] \cup ({new[t][k]} \ {NoFlag})]]
  /\ window' = [r \in Requests |->
                  IF Active(r)
                  THEN [k \in Keys |-> window[r][k] \cup
                                          {new[input[r].tenant][k]}]
                  ELSE window[r]]
  /\ UNCHANGED << assignments, lateSaves, requestVars, stored, unread, failed,
                  before >>

-----------------------------------------------------------------------------
(* The specification *)

Step(r) ==
  \/ ReadFlagFails(r)
  \/ EvaluateFlag(r)
  \/ ReadPersistentFlag(r)
  \/ AssignmentHit(r)
  \/ AssignmentMiss(r)
  \/ AssignmentReadFails(r)
  \/ SaveCommits(r)
  \/ SaveFails(r)
  \/ SaveTimesOut(r)

Module ==
  \E x \in lateSaves : LateSaveCommits(x) \/ LateSaveLost(x)

\* Flags are managed one by one in the persistence module, or are all those of
\* the configuration file.
Management ==
  IF HasAssignments
  THEN \E t \in Tenants, k \in Keys :
         \/ \E d \in Definitions : SetFlag(t, k, d)
         \/ DeleteFlag(t, k)
  ELSE \E new \in [Tenants -> [Keys -> Definitions \cup {NoFlag}]] : Reload(new)

Next ==
  \/ \E r \in Requests : Begin(r) \/ Reject(r) \/ Step(r)
  \/ Module
  \/ Management

Spec == Init /\ [][Next]_vars

\* A goroutine runs on until its handler returns: each of its calls to the
\* module is answered or given up on after five seconds.
Fairness == \A r \in Requests : WF_vars(Step(r))

LiveSpec == Spec /\ Fairness

-----------------------------------------------------------------------------
(* Properties *)

Answered(r) == DOMAIN results[r]

\* A definition that would make evaluate compute an answer a.
Explains(d, t, k, s, c, a) ==
  /\ d # NoFlag /\ d.enabled
  /\ \E o \in Outcomes(d, t, k, s, c) : AnswerOf(o) = a

\* The answer is what an enabled persistent definition the key once had gives
\* the subject in some context.
Earned(t, s, k, answer) ==
  \E d \in defined[t][k], c \in Contexts :
    d.semantics = "persistent" /\ Explains(d, t, k, s, c, answer)

\* Every assignment a subject was ever given is what the rules of an enabled
\* persistent definition that very tenant's key once had give that subject, in
\* some context: nothing the engine saves comes from another tenant, key or
\* subject, from a disabled flag or from a flag of another semantics
\* (evaluatePersistent, engine.go:128-136).
AssignmentProvenance ==
  \A t \in Tenants, s \in Subjects, k \in Keys :
    \A answer \in stored[t][s][k] : Earned(t, s, k, answer)

\* The result res of r for k follows from a definition k had while r was
\* served, or from an assignment saved for r's subject.
Justified(r, k, res) ==
  LET in == input[r]
      w  == window[r][k]
  IN  /\ res.reason \in {"error", "not_found", "disabled"} => ~ res.enabled
      /\ res.reason = "not_found" => NoFlag \in w
      /\ res.reason = "disabled" => \E d \in w : d # NoFlag /\ ~ d.enabled
      /\ res.reason = "persisted" =>
           /\ \E d \in w : NeedsAssignment(d)
           /\ AnswerOf(res) \in stored[in.tenant][in.subject][k]
      /\ res.reason \in {"rule_match", "default", "no_persistence"} =>
           \E d \in w : Explains(d, in.tenant, k, in.subject, in.context,
                                 AnswerOf(res))

\* An answer is never staler than the request: whatever engine.evaluate
\* returned for a key follows from a definition the key had at some moment
\* while the request was being served, or is an assignment saved for that very
\* tenant, subject and key while the key was persistent.
AnswerReflectsWindow ==
  \A r \in Requests : \A i \in Answered(r) :
    Justified(r, input[r].keys[i], results[r][i])

\* The kill switch: a flag that was missing or disabled from before the request
\* arrived until it was answered is off in its answer, whatever was assigned
\* before and whatever else the request asks (engine.go:81).
KillSwitch ==
  \A r \in Requests : \A i \in Answered(r) :
    results[r][i].enabled =>
      \E d \in window[r][input[r].keys[i]] : d # NoFlag /\ d.enabled

\* One failing key of a batch takes no other with it: an answered batch holds
\* one result for each of its keys, in their order, and the errors are exactly
\* the keys whose definition could not be read (EvaluateBatch, engine.go:97).
BatchIndependence ==
  \A r \in Requests :
    /\ pc[r] = "done" => Len(results[r]) = Len(input[r].keys)
    /\ \A i \in Answered(r) :
         /\ results[r][i].key = input[r].keys[i]
         /\ results[r][i].reason = "error" <=> i \in failed[r]

\* A subject's assignment is settled when it is saved and no request and no
\* late save that missed it is still to write.
Settled(t, s, k) ==
  /\ assignments[t][s][k] # NoAssignment
  /\ \A x \in lateSaves : <<x.tenant, x.subject, x.key>> # <<t, s, k>>
  /\ \A r \in Requests :
       pc[r] = "save" =>
         <<input[r].tenant, input[r].subject, CurrentKey(r)>> # <<t, s, k>>

\* A settled assignment is sticky: it changes only after some request failed to
\* read it, whatever definitions are written and whoever evaluates
\* (evaluatePersistent, engine.go:117-126).
SettledIsSticky ==
  [][ \A t \in Tenants, s \in Subjects, k \in Keys :
        Settled(t, s, k) /\ unread' = unread =>
          /\ Settled(t, s, k)'
          /\ assignments'[t][s][k] = assignments[t][s][k] ]_vars

\* Every request the engine takes up is answered, whatever calls fail.
EveryRequestAnswered ==
  \A r \in Requests : pc[r] = "flag" ~> pc[r] = "done"

-----------------------------------------------------------------------------
(* What the documents say and the code does not do *)

\* openspec/specs/evaluation/spec.md:49: "subsequent evaluations for the same
\* subject return the same result until TTL expires".
StickyResult ==
  \A q, r \in Requests : \A i \in Answered(q), j \in Answered(r) :
    /\ q \in before[r]
    /\ input[q].tenant = input[r].tenant
    /\ input[q].subject = input[r].subject
    /\ results[q][i].key = results[r][j].key
    /\ {results[q][i].reason, results[r][j].reason}
         \subseteq {"rule_match", "default", "persisted"}
    => AnswerOf(results[q][i]) = AnswerOf(results[r][j])

=============================================================================

------------------------ MODULE ExperimentLifecycle ------------------------
(***************************************************************************)
(* The experiments of the management API (internal/api/handlers/           *)
(* experiments.go) over a persistence module.                              *)
(*                                                                         *)
(* POST and PUT write an experiment in one call.  Start, pause and         *)
(* complete read the experiment, check the status they read, and write the *)
(* whole experiment they read back with the new status: other requests run *)
(* between the two calls.  A write whose reply is given up on is answered  *)
(* as an error and may still be executed later.                            *)
(*                                                                         *)
(* The module may hold experiments this API did not write: its own gRPC    *)
(* service takes a status, and its Postgres column has one by default.     *)
(***************************************************************************)
EXTENDS Naturals

CONSTANTS Experiments,       \* experiments, each of one tenant and key
          Configs,           \* name, stickiness, variants and allocation
          Requests,          \* the HTTP requests, each handled once
          Seeds,             \* what the store may hold before the first one
          PostReplaces,      \* TRUE for Redis and MongoDB, FALSE for Postgres
          CallsFail,         \* whether calls to the module may fail
          NoExperiment, NoRequest

\* "" is the status of an experiment that no one gave a status.
Statuses == {"", "draft", "running", "paused", "completed"}

Row == [status : Statuses, config : Configs]

ASSUME AbsentAssumption == NoExperiment \notin Row
ASSUME SeedsAssumption == Seeds \subseteq [Experiments -> Row \cup {NoExperiment}]
ASSUME FlagsAssumption == PostReplaces \in BOOLEAN /\ CallsFail \in BOOLEAN

-----------------------------------------------------------------------------
(* What a request asks *)

Transitions == {"start", "pause", "complete"}

Ask == [op : {"create", "put"}, exp : Experiments, config : Configs] \cup
       [op : Transitions, exp : Experiments]

ASSUME NoAskAssumption == NoRequest \notin Ask

\* Mutant: the status is named after the operation.
Target_Complete ==
  [start |-> "running", pause |-> "paused", complete |-> "complete"]

Target == [start |-> "running", pause |-> "paused", complete |-> "completed"]

\* Mutant: an experiment can be completed before it was started.
AllowedFrom_Draft == [start    |-> {"draft", "paused"},
                      pause    |-> {"running"},
                      complete |-> {"draft", "running", "paused"}]

AllowedFrom == [start    |-> {"draft", "paused"},
                pause    |-> {"running"},
                complete |-> {"running", "paused"}]

\* The diagram of openspec/specs/experiments/spec.md:124-132.
Diagram == { <<"draft", "running">>, <<"running", "paused">>,
             <<"paused", "running">>, <<"running", "completed">>,
             <<"paused", "completed">> }

VARIABLES
  row,         \* the experiments in the module
  stage,       \* where each request is
  asked,       \* what it asks
  snapshot,    \* the experiment a transition has read
  replied,     \* the HTTP status it was answered with
  lateWrites,  \* writes given up on by their caller, not yet executed
  seen         \* history: what the request's experiment was while it ran

requestVars == << stage, asked, snapshot, replied >>
experimentVars == << row, requestVars, lateWrites, seen >>

Stages == {"idle", "read", "write", "done"}
Replies == {0, 200, 201, 404, 409, 500}

\* A write on its way: whose, of what, whether it creates, what it writes.
LateWrite == [by : Requests, exp : Experiments, creates : BOOLEAN, new : Row]

ExperimentTypeOK ==
  /\ row \in [Experiments -> Row \cup {NoExperiment}]
  /\ stage \in [Requests -> Stages]
  /\ asked \in [Requests -> Ask \cup {NoRequest}]
  /\ snapshot \in [Requests -> Row \cup {NoExperiment}]
  /\ replied \in [Requests -> Replies]
  /\ lateWrites \subseteq LateWrite
  /\ seen \in [Requests -> SUBSET (Row \cup {NoExperiment})]

ExperimentInit ==
  /\ row \in Seeds
  /\ stage = [r \in Requests |-> "idle"]
  /\ asked = [r \in Requests |-> NoRequest]
  /\ snapshot = [r \in Requests |-> NoExperiment]
  /\ replied = [r \in Requests |-> 0]
  /\ lateWrites = {}
  /\ seen = [r \in Requests |-> {}]

-----------------------------------------------------------------------------
(* Helpers *)

Active(r) == stage[r] \in {"read", "write"}

Answer(r, code) ==
  /\ stage' = [stage EXCEPT ![r] = "done"]
  /\ replied' = [replied EXCEPT ![r] = code]
  /\ UNCHANGED << asked, snapshot >>

\* What experimentRequestToProto makes of a body: it gives no status.
FromBody(config) == [status |-> "", config |-> config]

\* What the request writes: the body, or the experiment read with the
\* transition's status.
Written(r) == IF asked[r].op \in Transitions
              THEN [status |-> Target[asked[r].op], config |-> snapshot[r].config]
              ELSE FromBody(asked[r].config)

\* CreateExperiment fails on an existing row in Postgres only; UpdateExperiment
\* fails without one.
WriteAllowed(e, creates) ==
  IF creates THEN PostReplaces \/ row[e] = NoExperiment ELSE row[e] # NoExperiment

\* The history of a change of e to new.
Observe(e, new) ==
  seen' = [r \in Requests |-> IF Active(r) /\ asked[r].exp = e
                              THEN seen[r] \cup {new} ELSE seen[r]]

-----------------------------------------------------------------------------
(* The handlers *)

Begin(r) ==
  /\ stage[r] = "idle"
  /\ \E a \in Ask :
       /\ asked' = [asked EXCEPT ![r] = a]
       /\ stage' = [stage EXCEPT ![r] = IF a.op \in Transitions THEN "read" ELSE "write"]
       /\ seen' = [seen EXCEPT ![r] = {row[a.exp]}]
  /\ UNCHANGED << row, snapshot, replied, lateWrites >>

\* GetExperiment fails.
ReadFails(r) ==
  /\ stage[r] = "read" /\ CallsFail
  /\ Answer(r, 500)
  /\ UNCHANGED << row, lateWrites, seen >>

\* Mutant: an experiment that is not there has no status, and is refused.
ReadNothing_Conflict(r) ==
  /\ stage[r] = "read"
  /\ row[asked[r].exp] = NoExperiment
  /\ Answer(r, 409)
  /\ UNCHANGED << row, lateWrites, seen >>

\* There is no such experiment.
ReadNothing(r) ==
  /\ stage[r] = "read"
  /\ row[asked[r].exp] = NoExperiment
  /\ Answer(r, 404)
  /\ UNCHANGED << row, lateWrites, seen >>

\* The experiment is not in a status the transition may leave.
Refuse(r) ==
  /\ stage[r] = "read"
  /\ row[asked[r].exp] # NoExperiment
  /\ row[asked[r].exp].status \notin AllowedFrom[asked[r].op]
  /\ Answer(r, 409)
  /\ UNCHANGED << row, lateWrites, seen >>

\* The experiment is read and the transition is allowed from its status.
Accept(r) ==
  /\ stage[r] = "read"
  /\ row[asked[r].exp] # NoExperiment
  /\ row[asked[r].exp].status \in AllowedFrom[asked[r].op]
  /\ snapshot' = [snapshot EXCEPT ![r] = row[asked[r].exp]]
  /\ stage' = [stage EXCEPT ![r] = "write"]
  /\ UNCHANGED << row, asked, replied, lateWrites, seen >>

\* CreateExperiment or UpdateExperiment is executed.
WriteCommits(r) ==
  /\ stage[r] = "write"
  /\ WriteAllowed(asked[r].exp, asked[r].op = "create")
  /\ row' = [row EXCEPT ![asked[r].exp] = Written(r)]
  /\ Observe(asked[r].exp, Written(r))
  /\ Answer(r, IF asked[r].op = "create" THEN 201 ELSE 200)
  /\ UNCHANGED lateWrites

\* The module refuses the write.
WriteRefused(r) ==
  /\ stage[r] = "write"
  /\ ~ WriteAllowed(asked[r].exp, asked[r].op = "create")
  /\ Answer(r, 500)
  /\ UNCHANGED << row, lateWrites, seen >>

\* The call fails without being executed.
WriteFails(r) ==
  /\ stage[r] = "write" /\ CallsFail
  /\ Answer(r, 500)
  /\ UNCHANGED << row, lateWrites, seen >>

\* The call times out with the write still on its way.
WriteTimesOut(r) ==
  /\ stage[r] = "write" /\ CallsFail
  /\ lateWrites' = lateWrites \cup
       { [by |-> r, exp |-> asked[r].exp, creates |-> asked[r].op = "create",
          new |-> Written(r)] }
  /\ Answer(r, 500)
  /\ UNCHANGED << row, seen >>

\* A write its caller gave up on is executed after all.
LateWriteCommits(w) ==
  /\ w \in lateWrites
  /\ WriteAllowed(w.exp, w.creates)
  /\ row' = [row EXCEPT ![w.exp] = w.new]
  /\ Observe(w.exp, w.new)
  /\ lateWrites' = lateWrites \ {w}
  /\ UNCHANGED requestVars

LateWriteLost(w) ==
  /\ w \in lateWrites
  /\ lateWrites' = lateWrites \ {w}
  /\ UNCHANGED << row, requestVars, seen >>

-----------------------------------------------------------------------------
(* The specification *)

Advance(r) ==
  \/ ReadFails(r)
  \/ ReadNothing(r)
  \/ Refuse(r)
  \/ Accept(r)
  \/ WriteCommits(r)
  \/ WriteRefused(r)
  \/ WriteFails(r)
  \/ WriteTimesOut(r)

Module == \E w \in lateWrites : LateWriteCommits(w) \/ LateWriteLost(w)

\* Everything is answered and nothing is on its way: the server waits.
ExperimentsQuiet ==
  /\ \A r \in Requests : stage[r] = "done"
  /\ lateWrites = {}
  /\ UNCHANGED experimentVars

ExperimentNext ==
  \/ \E r \in Requests : Begin(r) \/ Advance(r)
  \/ Module
  \/ ExperimentsQuiet

ExperimentSpec == ExperimentInit /\ [][ExperimentNext]_experimentVars

-----------------------------------------------------------------------------
(* Properties *)

\* A step of the diagram that keeps everything else.
LegalStep(old, new) ==
  /\ old # NoExperiment
  /\ <<old.status, new.status>> \in Diagram
  /\ new.config = old.config

\* An experiment changes only by a POST or PUT (which leave it without status),
\* by a step of the documented diagram that keeps the rest of it, or by a
\* transition that writes back an experiment changed since it read it
\* (handleLifecycleTransition, experiments.go:189-203).
LifecycleOrRace ==
  [][ \A e \in Experiments : row'[e] # row[e] =>
        \/ row'[e].status = ""
        \/ LegalStep(row[e], row'[e])
        \/ \E r \in Requests :
             /\ stage[r] = "write" /\ stage'[r] = "done"
             /\ asked[r].exp = e /\ snapshot[r] # row[e]
        \/ \E w \in lateWrites \ lateWrites' :
             w.exp = e /\ snapshot[w.by] # row[e] ]_experimentVars

\* The answer of a transition is true of a status its experiment had while the
\* request ran.
TrueAnswer(r) ==
  /\ replied[r] \in {200, 404, 409, 500}
  /\ replied[r] = 200 =>
       \E x \in seen[r] \ {NoExperiment} : <<x.status, Target[asked[r].op]>> \in Diagram
  /\ replied[r] = 409 =>
       \E x \in seen[r] \ {NoExperiment} : <<x.status, Target[asked[r].op]>> \notin Diagram
  /\ replied[r] = 404 => NoExperiment \in seen[r]

\* A transition is done from a status the diagram lets go there, refused from
\* another, and not found when there was no experiment, each at some moment
\* while it ran (handleLifecycleTransition, experiments.go:191-206).
ReplyReflectsWindow ==
  \A r \in Requests :
    stage[r] = "done" /\ asked[r].op \in Transitions => TrueAnswer(r)

-----------------------------------------------------------------------------
(* What the documents say and the code does not do *)

\* openspec/specs/experiments/spec.md:131: "completed --> [*]": a completed
\* experiment is not paused or running again.
CompletedIsFinal ==
  [][ \A e \in Experiments :
        row[e] # NoExperiment /\ row[e].status = "completed" =>
          row'[e].status \notin {"running", "paused"} ]_experimentVars

\* The experiments that only the API makes.
ApiOnly == { e \in Experiments : \A seed \in Seeds : seed[e] = NoExperiment }

\* openspec/specs/experiments/spec.md:125-126: "[*] --> draft : Create experiment"
\* and "draft --> running : Start": the start of an experiment that was created
\* over the API is refused only where it was started or completed meanwhile.
CreatedCanStart ==
  \A r \in Requests :
    /\ stage[r] = "done" /\ asked[r].op = "start" /\ asked[r].exp \in ApiOnly
    /\ replied[r] = 409
    => \E x \in seen[r] \ {NoExperiment} : x.status \in {"running", "completed"}

=============================================================================

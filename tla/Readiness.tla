----------------------------- MODULE Readiness -----------------------------
(***************************************************************************)
(* GET /readyz (internal/api/handlers/health.go, internal/grpcclient/      *)
(* health.go): the handler asks each checker in turn, the persistence      *)
(* module first and then the publishers, while their modules come and go.  *)
(* A check that is not answered within two seconds is an error.            *)
(***************************************************************************)
EXTENDS Integers, Sequences

CONSTANTS Checkers      \* the name each checker answers under, in order

ASSUME CheckersAssumption == Checkers \in Seq({"persistence", "publisher"})

VARIABLES
  condition,   \* of each module: "ok", "unhealthy", "failing" or "hanging"
  checked,     \* how many checkers have answered
  asked,       \* a request is served
  modules,     \* the report: the last answer under each name
  overall,     \* the verdict
  status,      \* the status code of the last answer, 0 before it
  (* History, read by no action of the program *)
  answers      \* what each checker answered

readyVars == << condition, checked, asked, modules, overall, status, answers >>

Positions == DOMAIN Checkers

ModuleConditions == {"ok", "unhealthy", "failing", "hanging"}

NoModules == [name \in {} |-> "ok"]

ReadyInit ==
  /\ condition = [i \in Positions |-> "ok"]
  /\ checked = 0
  /\ asked = FALSE
  /\ modules = NoModules
  /\ overall = "ready"
  /\ status = 0
  /\ answers = << >>

\* A module, or the network to it, changes; the persistence module has no
\* health of its own: a query succeeds or not.
Change ==
  /\ \E i \in Positions, c \in ModuleConditions :
       /\ Checkers[i] = "persistence" => c # "unhealthy"
       /\ condition[i] # c
       /\ condition' = [condition EXCEPT ![i] = c]
  /\ UNCHANGED << checked, asked, modules, overall, status, answers >>

BeginReadyz ==
  /\ ~ asked
  /\ asked' = TRUE
  /\ checked' = 0 /\ modules' = NoModules /\ overall' = "ready" /\ status' = 0
  /\ answers' = << >>
  /\ UNCHANGED condition

\* Mutant: the verdict is the last checker's.
Verdict_Last(result) == IF result # "ok" THEN "not_ready" ELSE "ready"

\* One checker that is not ok makes the core not ready.
Verdict(result) == IF result # "ok" THEN "not_ready" ELSE overall

\* The answer of the next checker enters the report under its name.
Recorded(result) ==
  LET name == Checkers[checked + 1] IN
  /\ modules' = [n \in DOMAIN modules \cup {name} |->
                   IF n = name THEN result ELSE modules[n]]
  /\ overall' = Verdict(result)
  /\ answers' = Append(answers, result)
  /\ checked' = checked + 1
  /\ UNCHANGED << condition, asked, status >>

Serving == asked /\ checked < Len(Checkers)

Check ==
  /\ Serving
  /\ \/ condition[checked + 1] = "ok" /\ Recorded("ok")
     \/ condition[checked + 1] = "unhealthy" /\ Recorded("degraded")
     \/ condition[checked + 1] = "failing" /\ Recorded("error")

\* Mutant: a check has no deadline.
CheckTimesOut_Never == FALSE /\ UNCHANGED readyVars

\* The module hangs: the check is given up on.
CheckTimesOut ==
  /\ Serving
  /\ condition[checked + 1] = "hanging"
  /\ Recorded("error")

Respond ==
  /\ asked /\ checked = Len(Checkers)
  /\ status' = IF overall = "ready" THEN 200 ELSE 503
  /\ asked' = FALSE
  /\ UNCHANGED << condition, checked, modules, overall, answers >>

ReadyNext == Change \/ BeginReadyz \/ Check \/ CheckTimesOut \/ Respond

ReadySpec == ReadyInit /\ [][ReadyNext]_readyVars

\* The handler runs on: each check has a deadline of two seconds (health.go:22).
ReadyFairness == WF_readyVars(Check \/ CheckTimesOut) /\ WF_readyVars(Respond)

-----------------------------------------------------------------------------
(* Properties *)

\* The verdict counts every checker: 200 says that each answered ok when it was
\* asked, 503 that one did not, though checkers may share a name and modules
\* change between two checks (HandleReadyz, health.go:31-42).
VerdictIsTrue ==
  status # 0 =>
    status = IF \A i \in Positions : answers[i] = "ok" THEN 200 ELSE 503

\* Readiness is answered, whichever modules fail or hang meanwhile.
ReadyzAnswered == asked ~> ~ asked

-----------------------------------------------------------------------------
(* What the documents say and the code does not do *)

\* openspec/specs/integrations/spec.md:57-60: with two publishers, the failure of
\* one "is logged and reported via the health endpoint": no name in the report
\* says ok when a checker that answers under it did not.
TroubleIsReported ==
  status # 0 =>
    \A i \in Positions : answers[i] # "ok" => modules[Checkers[i]] # "ok"

=============================================================================

-------------------------- MODULE ExperimentProofs --------------------------
(***************************************************************************)
(* Theorems about ExperimentLifecycle, for any number of experiments,      *)
(* requests and configurations, and whatever the module holds at first.    *)
(***************************************************************************)
EXTENDS ExperimentLifecycle, TLAPS

\* A request knows what it asks from the moment it runs, and only transitions
\* read.
AskKnown ==
  \A r \in Requests :
    /\ stage[r] # "idle" => asked[r] \in Ask
    /\ stage[r] = "read" => asked[r].op \in Transitions

\* A transition about to write holds an experiment it read while it ran, in a
\* status it may leave.
SnapshotAllowed ==
  \A r \in Requests : stage[r] = "write" /\ asked[r].op \in Transitions =>
    /\ snapshot[r] \in Row
    /\ snapshot[r].status \in AllowedFrom[asked[r].op]
    /\ snapshot[r] \in seen[r]

\* What a request has seen holds the experiment as it is.
SeenIsCurrent ==
  \A r \in Requests : Active(r) => row[asked[r].exp] \in seen[r]

\* A late write still says what its request, answered since, wanted written.
LateWritesKept ==
  \A w \in lateWrites :
    /\ stage[w.by] = "done"
    /\ (w.new.status = "") \/
         ( /\ asked[w.by].op \in Transitions
           /\ snapshot[w.by] \in Row
           /\ snapshot[w.by].status \in AllowedFrom[asked[w.by].op]
           /\ w.new.status = Target[asked[w.by].op]
           /\ w.new.config = snapshot[w.by].config )

Inv ==
  /\ ExperimentTypeOK
  /\ AskKnown
  /\ SnapshotAllowed
  /\ SeenIsCurrent
  /\ LateWritesKept
  /\ ReplyReflectsWindow

-----------------------------------------------------------------------------
(* Lemmas about what a request asks *)

\* Every question names an experiment; what is not a transition has a body.
LEMMA AskFacts ==
  ASSUME NEW x \in Ask
  PROVE  /\ x.exp \in Experiments
         /\ x.op \notin Transitions => x.config \in Configs
  BY DEF Ask, Transitions

\* The code's table of transitions is the documented diagram.
LEMMA TableIsDiagram ==
  ASSUME NEW op \in Transitions, NEW s \in Statuses
  PROVE  /\ Target[op] \in Statuses \ {""}
         /\ s \in AllowedFrom[op] <=> <<s, Target[op]>> \in Diagram
<1>1. CASE op = "start"
  BY <1>1 DEF Statuses, Target, AllowedFrom, Diagram
<1>2. CASE op = "pause"
  BY <1>2 DEF Statuses, Target, AllowedFrom, Diagram
<1>3. CASE op = "complete"
  BY <1>3 DEF Statuses, Target, AllowedFrom, Diagram
<1> QED
  BY <1>1, <1>2, <1>3 DEF Transitions

\* What a request writes is an experiment: a body without status, or what the
\* transition read with its own status.
LEMMA WrittenFacts ==
  ASSUME Inv, NEW r \in Requests, stage[r] = "write"
  PROVE  /\ Written(r) \in Row
         /\ asked[r].op \notin Transitions => Written(r).status = ""
         /\ asked[r].op \in Transitions =>
              /\ snapshot[r] \in Row
              /\ snapshot[r].status \in AllowedFrom[asked[r].op]
              /\ snapshot[r] \in seen[r]
              /\ Written(r) = [status |-> Target[asked[r].op],
                               config |-> snapshot[r].config]
<1>1. asked[r] \in Ask
  BY DEF Inv, AskKnown
<1>2. CASE asked[r].op \in Transitions
  <2>1. /\ snapshot[r] \in Row
        /\ snapshot[r].status \in AllowedFrom[asked[r].op]
        /\ snapshot[r] \in seen[r]
    BY <1>2 DEF Inv, SnapshotAllowed
  <2>2. Target[asked[r].op] \in Statuses
    BY <1>2, <2>1, TableIsDiagram DEF Row
  <2> QED
    BY <1>2, <2>1, <2>2 DEF Written, Row
<1>3. CASE asked[r].op \notin Transitions
  <2>1. asked[r].config \in Configs
    BY <1>1, <1>3, AskFacts
  <2>2. Written(r) = [status |-> "", config |-> asked[r].config]
    BY <1>3 DEF Written, FromBody
  <2>3. /\ [status |-> "", config |-> asked[r].config] \in Row
        /\ [status |-> "", config |-> asked[r].config].status = ""
    BY <2>1 DEF Row, Statuses
  <2> QED
    BY <1>3, <2>2, <2>3
<1> QED
  BY <1>2, <1>3

-----------------------------------------------------------------------------
(* The invariant *)

LEMMA InitInv == ExperimentInit => Inv
<1> SUFFICES ASSUME ExperimentInit PROVE Inv
  OBVIOUS
<1>1. ExperimentTypeOK
  BY SeedsAssumption DEF ExperimentInit, ExperimentTypeOK, Stages, Replies
<1>2. AskKnown /\ SnapshotAllowed /\ SeenIsCurrent /\ LateWritesKept
  BY DEF ExperimentInit, AskKnown, SnapshotAllowed, SeenIsCurrent, LateWritesKept, Active
<1>3. ReplyReflectsWindow
  BY DEF ExperimentInit, ReplyReflectsWindow
<1> QED
  BY <1>1, <1>2, <1>3 DEF Inv

\* Late writes stay what they are while requests that were answered stay as
\* they are.
LEMMA LateWritesStay ==
  ASSUME ExperimentTypeOK, LateWritesKept, lateWrites' \subseteq lateWrites,
         \A q \in Requests : stage[q] = "done" => stage'[q] = "done",
         \A q \in Requests : stage[q] = "done" =>
           asked'[q] = asked[q] /\ snapshot'[q] = snapshot[q]
  PROVE  LateWritesKept'
<1> SUFFICES ASSUME NEW w \in lateWrites'
             PROVE  /\ stage'[w.by] = "done"
                    /\ (w.new.status = "") \/
                         ( /\ asked'[w.by].op \in Transitions
                           /\ snapshot'[w.by] \in Row
                           /\ snapshot'[w.by].status \in AllowedFrom[asked'[w.by].op]
                           /\ w.new.status = Target[asked'[w.by].op]
                           /\ w.new.config = snapshot'[w.by].config )
  BY Zenon DEF LateWritesKept
<1>1. w \in lateWrites /\ w.by \in Requests
  BY DEF ExperimentTypeOK, LateWrite
<1>2. stage[w.by] = "done"
  BY <1>1 DEF LateWritesKept
<1>3. /\ stage'[w.by] = "done"
      /\ asked'[w.by] = asked[w.by] /\ snapshot'[w.by] = snapshot[w.by]
  BY <1>1, <1>2
<1>4. (w.new.status = "") \/
       ( /\ asked[w.by].op \in Transitions
         /\ snapshot[w.by] \in Row
         /\ snapshot[w.by].status \in AllowedFrom[asked[w.by].op]
         /\ w.new.status = Target[asked[w.by].op]
         /\ w.new.config = snapshot[w.by].config )
  BY <1>1, Zenon DEF LateWritesKept
<1> QED
  BY <1>3, <1>4, Zenon

\* An answer that was true stays true: what an answered request saw is kept.
LEMMA AnswerStays ==
  ASSUME ReplyReflectsWindow, NEW q \in Requests,
         stage[q] = "done", asked[q].op \in Transitions,
         replied'[q] = replied[q], seen'[q] = seen[q], asked'[q] = asked[q]
  PROVE  TrueAnswer(q)'
<1> DEFINE Legal(x, op) == <<x.status, Target[op]>> \in Diagram
<1>1. TrueAnswer(q)
  BY DEF ReplyReflectsWindow
<1>2. /\ replied[q] \in {200, 404, 409, 500}
      /\ replied[q] = 200 => \E x \in seen[q] \ {NoExperiment} : Legal(x, asked[q].op)
      /\ replied[q] = 409 => \E x \in seen[q] \ {NoExperiment} : ~ Legal(x, asked[q].op)
      /\ replied[q] = 404 => NoExperiment \in seen[q]
  BY <1>1, Zenon DEF TrueAnswer
<1>3. TrueAnswer(q)' <=>
      /\ replied'[q] \in {200, 404, 409, 500}
      /\ replied'[q] = 200 => \E x \in seen'[q] \ {NoExperiment} : Legal(x, asked'[q].op)
      /\ replied'[q] = 409 => \E x \in seen'[q] \ {NoExperiment} : ~ Legal(x, asked'[q].op)
      /\ replied'[q] = 404 => NoExperiment \in seen'[q]
  BY Zenon DEF TrueAnswer, Target, Diagram
<1> HIDE DEF Legal
<1> QED
  BY <1>2, <1>3

\* Steps that answer nobody keep the answers true.
LEMMA AnswersStay ==
  ASSUME ReplyReflectsWindow,
         \A q \in Requests : stage'[q] = "done" =>
           stage[q] = "done" /\ replied'[q] = replied[q] /\ seen'[q] = seen[q]
             /\ asked'[q] = asked[q]
  PROVE  ReplyReflectsWindow'
<1> SUFFICES ASSUME NEW q \in Requests,
                    stage'[q] = "done", asked'[q].op \in Transitions
             PROVE  TrueAnswer(q)'
  BY Zenon DEF ReplyReflectsWindow
<1>1. /\ stage[q] = "done" /\ replied'[q] = replied[q] /\ seen'[q] = seen[q]
      /\ asked'[q] = asked[q]
  OBVIOUS
<1> QED
  BY <1>1, AnswerStays

\* A request begins.
LEMMA BeginInv ==
  ASSUME Inv, NEW r \in Requests, Begin(r)
  PROVE  Inv'
<1>1. PICK x \in Ask :
        /\ asked' = [asked EXCEPT ![r] = x]
        /\ stage' = [stage EXCEPT ![r] = IF x.op \in Transitions THEN "read" ELSE "write"]
        /\ seen' = [seen EXCEPT ![r] = {row[x.exp]}]
  BY DEF Begin
<1>2. stage[r] = "idle" /\ UNCHANGED << row, snapshot, replied, lateWrites >>
  BY DEF Begin
<1>3. x.exp \in Experiments
  BY AskFacts
<1>4. ExperimentTypeOK /\ AskKnown /\ SnapshotAllowed /\ SeenIsCurrent /\ LateWritesKept /\ ReplyReflectsWindow
  BY DEF Inv
<1>5. ExperimentTypeOK'
  BY <1>1, <1>2, <1>3, <1>4 DEF ExperimentTypeOK, Stages
<1>6. AskKnown'
  BY <1>1, <1>2, <1>4 DEF AskKnown, ExperimentTypeOK
<1>7. SnapshotAllowed'
  BY <1>1, <1>2, <1>4 DEF SnapshotAllowed, ExperimentTypeOK
<1>8. SeenIsCurrent'
  BY <1>1, <1>2, <1>4 DEF SeenIsCurrent, Active, ExperimentTypeOK
<1>9. LateWritesKept'
  BY <1>1, <1>2, <1>4 DEF LateWritesKept, LateWrite, ExperimentTypeOK
<1>10. ReplyReflectsWindow'
  <2>1. \A q \in Requests : stage'[q] = "done" =>
          stage[q] = "done" /\ replied'[q] = replied[q] /\ seen'[q] = seen[q]
            /\ asked'[q] = asked[q]
    BY <1>1, <1>2, <1>4 DEF ExperimentTypeOK
  <2> QED
    BY <1>4, <2>1, AnswersStay
<1> QED
  BY <1>5, <1>6, <1>7, <1>8, <1>9, <1>10 DEF Inv

\* A request is answered with nothing else changing: the invariant holds if
\* the answer is true of what the request saw.
LEMMA AnswerInv ==
  ASSUME Inv, NEW r \in Requests, NEW code \in Replies, Active(r),
         Answer(r, code), UNCHANGED row, UNCHANGED seen, UNCHANGED lateWrites,
         asked[r].op \in Transitions =>
           /\ code \in {404, 409, 500}
           /\ code = 409 =>
                \E x \in seen[r] \ {NoExperiment} :
                  <<x.status, Target[asked[r].op]>> \notin Diagram
           /\ code = 404 => NoExperiment \in seen[r]
  PROVE  Inv'
<1>1. /\ stage' = [stage EXCEPT ![r] = "done"]
      /\ replied' = [replied EXCEPT ![r] = code]
      /\ UNCHANGED << asked, snapshot, row, lateWrites, seen >>
  BY DEF Answer
<1>2. ExperimentTypeOK /\ AskKnown /\ SnapshotAllowed /\ SeenIsCurrent /\ LateWritesKept /\ ReplyReflectsWindow
  BY DEF Inv
<1>3. stage[r] \in {"read", "write"}
  BY DEF Active
<1>4. ExperimentTypeOK'
  BY <1>1, <1>2 DEF ExperimentTypeOK, Stages
<1>5. AskKnown'
  BY <1>1, <1>2, <1>3 DEF AskKnown, ExperimentTypeOK
<1>6. SnapshotAllowed'
  BY <1>1, <1>2 DEF SnapshotAllowed, ExperimentTypeOK
<1>7. SeenIsCurrent'
  BY <1>1, <1>2 DEF SeenIsCurrent, Active, ExperimentTypeOK
<1>8. LateWritesKept'
  <2>1. \A q \in Requests : stage[q] = "done" => stage'[q] = "done"
    BY <1>1, <1>2 DEF ExperimentTypeOK
  <2> QED
    BY <1>1, <1>2, <2>1, LateWritesStay, Zenon
<1>9. ReplyReflectsWindow'
  <2>1. \A q \in Requests \ {r} : stage'[q] = stage[q] /\ replied'[q] = replied[q]
    BY <1>1, <1>2 DEF ExperimentTypeOK
  <2>2. replied'[r] = code
    BY <1>1, <1>2 DEF ExperimentTypeOK
  <2> SUFFICES ASSUME NEW q \in Requests,
                      stage'[q] = "done", asked[q].op \in Transitions
               PROVE  TrueAnswer(q)'
    BY <1>1 DEF ReplyReflectsWindow
  <2>3. CASE q = r
    BY <1>1, <2>2, <2>3 DEF TrueAnswer
  <2>4. CASE q # r
    BY <1>1, <1>2, <2>1, <2>4 DEF ReplyReflectsWindow, TrueAnswer
  <2> QED
    BY <2>3, <2>4
<1> QED
  BY <1>4, <1>5, <1>6, <1>7, <1>8, <1>9 DEF Inv

\* A transition is accepted.
LEMMA AcceptInv ==
  ASSUME Inv, NEW r \in Requests, Accept(r)
  PROVE  Inv'
<1>1. /\ stage[r] = "read"
      /\ row[asked[r].exp] # NoExperiment
      /\ row[asked[r].exp].status \in AllowedFrom[asked[r].op]
      /\ snapshot' = [snapshot EXCEPT ![r] = row[asked[r].exp]]
      /\ stage' = [stage EXCEPT ![r] = "write"]
      /\ row' = row /\ asked' = asked /\ replied' = replied
      /\ lateWrites' = lateWrites /\ seen' = seen
  BY DEF Accept
<1>2. ExperimentTypeOK /\ AskKnown /\ SnapshotAllowed /\ SeenIsCurrent /\ LateWritesKept /\ ReplyReflectsWindow
  BY DEF Inv
<1>3. asked[r] \in Ask /\ asked[r].exp \in Experiments
  BY <1>1, <1>2, AskFacts DEF AskKnown
<1>4. row[asked[r].exp] \in Row /\ row[asked[r].exp] \in seen[r]
  BY <1>1, <1>2, <1>3 DEF ExperimentTypeOK, SeenIsCurrent, Active
<1>5. ExperimentTypeOK'
  BY <1>1, <1>2, <1>4 DEF ExperimentTypeOK, Stages
<1>6. AskKnown'
  BY <1>1, <1>2 DEF AskKnown, ExperimentTypeOK
<1>7. SnapshotAllowed'
  BY <1>1, <1>2, <1>4 DEF SnapshotAllowed, ExperimentTypeOK
<1>8. SeenIsCurrent'
  BY <1>1, <1>2 DEF SeenIsCurrent, Active, ExperimentTypeOK
<1>9. LateWritesKept'
  <2>1. \A q \in Requests : stage[q] = "done" => stage'[q] = "done" /\ snapshot'[q] = snapshot[q]
    BY <1>1, <1>2 DEF ExperimentTypeOK
  <2> QED
    BY <1>1, <1>2, <2>1, LateWritesStay, Zenon
<1>10. ReplyReflectsWindow'
  <2>1. \A q \in Requests : stage'[q] = "done" =>
          stage[q] = "done" /\ replied'[q] = replied[q] /\ seen'[q] = seen[q]
            /\ asked'[q] = asked[q]
    BY <1>1, <1>2 DEF ExperimentTypeOK
  <2> QED
    BY <1>2, <2>1, AnswersStay
<1> QED
  BY <1>5, <1>6, <1>7, <1>8, <1>9, <1>10 DEF Inv

\* What requests see of a change of an experiment.
LEMMA ObserveFacts ==
  ASSUME ExperimentTypeOK, NEW e \in Experiments, NEW new \in Row, Observe(e, new),
         row' = [row EXCEPT ![e] = new]
  PROVE  /\ row' \in [Experiments -> Row \cup {NoExperiment}]
         /\ seen' \in [Requests -> SUBSET (Row \cup {NoExperiment})]
         /\ \A q \in Requests : seen[q] \subseteq seen'[q]
         /\ \A q \in Requests : ~ Active(q) => seen'[q] = seen[q]
         /\ \A q \in Requests : Active(q) /\ asked[q].exp = e => new \in seen'[q]
  BY DEF ExperimentTypeOK, Observe

\* A write is executed while its request waits for it.
LEMMA WriteCommitsInv ==
  ASSUME Inv, NEW r \in Requests, WriteCommits(r)
  PROVE  Inv'
<1> DEFINE e == asked[r].exp
           new == Written(r)
           code == IF asked[r].op = "create" THEN 201 ELSE 200
<1>1. /\ stage[r] = "write"
      /\ row' = [row EXCEPT ![e] = new]
      /\ Observe(e, new)
      /\ stage' = [stage EXCEPT ![r] = "done"]
      /\ replied' = [replied EXCEPT ![r] = code]
      /\ asked' = asked /\ snapshot' = snapshot /\ lateWrites' = lateWrites
  BY DEF WriteCommits, Answer
<1>2. ExperimentTypeOK /\ AskKnown /\ SnapshotAllowed /\ SeenIsCurrent /\ LateWritesKept /\ ReplyReflectsWindow
  BY DEF Inv
<1>3. asked[r] \in Ask /\ e \in Experiments
  BY <1>1, <1>2, AskFacts DEF AskKnown
<1>4. /\ new \in Row
      /\ asked[r].op \in Transitions =>
           /\ snapshot[r] \in Row
           /\ snapshot[r].status \in AllowedFrom[asked[r].op]
           /\ snapshot[r] \in seen[r]
  BY <1>1, WrittenFacts
<1> HIDE DEF e, new
<1>5. /\ row' \in [Experiments -> Row \cup {NoExperiment}]
      /\ seen' \in [Requests -> SUBSET (Row \cup {NoExperiment})]
      /\ \A q \in Requests : seen[q] \subseteq seen'[q]
      /\ \A q \in Requests : ~ Active(q) => seen'[q] = seen[q]
      /\ \A q \in Requests : Active(q) /\ asked[q].exp = e => new \in seen'[q]
  BY <1>1, <1>2, <1>3, <1>4, ObserveFacts
<1>6. ExperimentTypeOK'
  BY <1>1, <1>2, <1>5 DEF ExperimentTypeOK, Stages, Replies
<1>7. AskKnown'
  BY <1>1, <1>2 DEF AskKnown, ExperimentTypeOK
<1>8. SnapshotAllowed'
  BY <1>1, <1>2, <1>5 DEF SnapshotAllowed, ExperimentTypeOK
<1>9. SeenIsCurrent'
  BY <1>1, <1>2, <1>3, <1>5, AskFacts DEF SeenIsCurrent, AskKnown, Active, ExperimentTypeOK
<1>10. LateWritesKept'
  <2>1. \A q \in Requests : stage[q] = "done" => stage'[q] = "done"
    BY <1>1, <1>2 DEF ExperimentTypeOK
  <2> QED
    BY <1>1, <1>2, <2>1, LateWritesStay, Zenon
<1>11. ReplyReflectsWindow'
  <2> SUFFICES ASSUME NEW q \in Requests,
                      stage'[q] = "done", asked[q].op \in Transitions
               PROVE  TrueAnswer(q)'
    BY <1>1 DEF ReplyReflectsWindow
  <2>1. CASE q = r
    <3>1. snapshot[r] \in seen'[r] \ {NoExperiment}
      BY <1>4, <1>5, <2>1, AbsentAssumption
    <3>2. <<snapshot[r].status, Target[asked[r].op]>> \in Diagram
      BY <1>4, <2>1, TableIsDiagram DEF Row
    <3>3. replied'[r] = 200
      BY <1>1, <1>2, <2>1 DEF ExperimentTypeOK, Transitions
    <3> QED
      BY <1>1, <2>1, <3>1, <3>2, <3>3 DEF TrueAnswer, Target, Diagram
  <2>2. CASE q # r
    <3>1. stage[q] = "done" /\ replied'[q] = replied[q] /\ seen'[q] = seen[q]
      BY <1>1, <1>2, <1>5, <2>2 DEF ExperimentTypeOK, Active
    <3> QED
      BY <1>1, <1>2, <3>1, AnswerStays
  <2> QED
    BY <2>1, <2>2
<1> QED
  BY <1>6, <1>7, <1>8, <1>9, <1>10, <1>11 DEF Inv

\* A write is given up on and stays on its way.
LEMMA WriteTimesOutInv ==
  ASSUME Inv, NEW r \in Requests, WriteTimesOut(r)
  PROVE  Inv'
<1> DEFINE late == [by |-> r, exp |-> asked[r].exp,
                    creates |-> asked[r].op = "create", new |-> Written(r)]
<1>1. /\ stage[r] = "write"
      /\ lateWrites' = lateWrites \cup {late}
      /\ stage' = [stage EXCEPT ![r] = "done"]
      /\ replied' = [replied EXCEPT ![r] = 500]
      /\ asked' = asked /\ snapshot' = snapshot /\ row' = row /\ seen' = seen
  BY DEF WriteTimesOut, Answer
<1>2. ExperimentTypeOK /\ AskKnown /\ SnapshotAllowed /\ SeenIsCurrent /\ LateWritesKept /\ ReplyReflectsWindow
  BY DEF Inv
<1>3. asked[r] \in Ask /\ asked[r].exp \in Experiments
  BY <1>1, <1>2, AskFacts DEF AskKnown
<1>4. late \in LateWrite
  BY <1>1, <1>3, WrittenFacts DEF LateWrite
<1> HIDE DEF late
<1>5. ExperimentTypeOK'
  BY <1>1, <1>2, <1>4 DEF ExperimentTypeOK, Stages, Replies
<1>6. AskKnown'
  BY <1>1, <1>2 DEF AskKnown, ExperimentTypeOK
<1>7. SnapshotAllowed'
  BY <1>1, <1>2 DEF SnapshotAllowed, ExperimentTypeOK
<1>8. SeenIsCurrent'
  BY <1>1, <1>2 DEF SeenIsCurrent, Active, ExperimentTypeOK
<1>9. LateWritesKept'
  <2> DEFINE Kept(w) ==
        (w.new.status = "") \/
          ( /\ asked[w.by].op \in Transitions
            /\ snapshot[w.by] \in Row
            /\ snapshot[w.by].status \in AllowedFrom[asked[w.by].op]
            /\ w.new.status = Target[asked[w.by].op]
            /\ w.new.config = snapshot[w.by].config )
  <2>1. \A w \in lateWrites : stage'[w.by] = "done"
    <3> SUFFICES ASSUME NEW w \in lateWrites PROVE stage'[w.by] = "done"
      OBVIOUS
    <3>1. w.by \in Requests
      BY <1>2 DEF ExperimentTypeOK, LateWrite
    <3>2. stage[w.by] = "done"
      BY <1>2 DEF LateWritesKept
    <3> QED
      BY <1>1, <1>2, <3>1, <3>2 DEF ExperimentTypeOK
  <2>2. \A w \in lateWrites : Kept(w)
    BY <1>2, Zenon DEF LateWritesKept
  <2>3. late.by = r /\ late.new = Written(r)
    BY DEF late
  <2>4. stage'[late.by] = "done"
    BY <1>1, <1>2, <2>3 DEF ExperimentTypeOK
  <2>5. Kept(late)
    <3>1. CASE asked[r].op \notin Transitions
      BY <1>1, <2>3, <3>1, WrittenFacts
    <3>2. CASE asked[r].op \in Transitions
      <4>1. /\ snapshot[r] \in Row
            /\ snapshot[r].status \in AllowedFrom[asked[r].op]
        BY <1>1, <3>2, WrittenFacts
      <4>2. /\ Written(r).status = Target[asked[r].op]
            /\ Written(r).config = snapshot[r].config
        BY <3>2 DEF Written
      <4> QED
        BY <2>3, <3>2, <4>1, <4>2
    <3> QED
      BY <3>1, <3>2
  <2> HIDE DEF Kept
  <2>6. \A w \in lateWrites' : stage'[w.by] = "done" /\ Kept(w)
    BY <1>1, <2>1, <2>2, <2>4, <2>5
  <2>7. LateWritesKept' <=> \A w \in lateWrites' : stage'[w.by] = "done" /\ Kept(w)
    BY <1>1, Zenon DEF LateWritesKept, Kept, AllowedFrom, Target, Transitions, Row, Statuses
  <2> QED
    BY <2>6, <2>7
<1>10. ReplyReflectsWindow'
  <2> SUFFICES ASSUME NEW q \in Requests,
                      stage'[q] = "done", asked[q].op \in Transitions
               PROVE  TrueAnswer(q)'
    BY <1>1 DEF ReplyReflectsWindow
  <2>1. CASE q = r
    <3>1. replied'[q] = 500
      BY <1>1, <1>2, <2>1 DEF ExperimentTypeOK
    <3> QED
      BY <3>1 DEF TrueAnswer
  <2>2. CASE q # r
    <3>1. stage[q] = "done" /\ replied'[q] = replied[q] /\ seen'[q] = seen[q]
      BY <1>1, <1>2, <2>2 DEF ExperimentTypeOK
    <3> QED
      BY <1>1, <1>2, <3>1, AnswerStays
  <2> QED
    BY <2>1, <2>2
<1> QED
  BY <1>5, <1>6, <1>7, <1>8, <1>9, <1>10 DEF Inv

\* A late write is executed after all.
LEMMA LateWriteCommitsInv ==
  ASSUME Inv, NEW w \in lateWrites, LateWriteCommits(w)
  PROVE  Inv'
<1>1. /\ row' = [row EXCEPT ![w.exp] = w.new]
      /\ Observe(w.exp, w.new)
      /\ lateWrites' = lateWrites \ {w}
      /\ stage' = stage /\ asked' = asked /\ snapshot' = snapshot /\ replied' = replied
  BY DEF LateWriteCommits, requestVars
<1>2. ExperimentTypeOK /\ AskKnown /\ SnapshotAllowed /\ SeenIsCurrent /\ LateWritesKept /\ ReplyReflectsWindow
  BY DEF Inv
<1>3. w.exp \in Experiments /\ w.new \in Row
  BY <1>2 DEF ExperimentTypeOK, LateWrite
<1>4. /\ row' \in [Experiments -> Row \cup {NoExperiment}]
      /\ seen' \in [Requests -> SUBSET (Row \cup {NoExperiment})]
      /\ \A q \in Requests : seen[q] \subseteq seen'[q]
      /\ \A q \in Requests : ~ Active(q) => seen'[q] = seen[q]
      /\ \A q \in Requests : Active(q) /\ asked[q].exp = w.exp => w.new \in seen'[q]
  BY <1>1, <1>2, <1>3, ObserveFacts
<1>5. ExperimentTypeOK'
  BY <1>1, <1>2, <1>4 DEF ExperimentTypeOK
<1>6. AskKnown'
  BY <1>1, <1>2 DEF AskKnown
<1>7. SnapshotAllowed'
  BY <1>1, <1>2, <1>4 DEF SnapshotAllowed
<1>8. SeenIsCurrent'
  BY <1>1, <1>2, <1>3, <1>4, AskFacts DEF SeenIsCurrent, AskKnown, Active, ExperimentTypeOK
<1>9. LateWritesKept'
  BY <1>1, <1>2, LateWritesStay
<1>10. ReplyReflectsWindow'
  <2>1. \A q \in Requests : stage'[q] = "done" =>
          stage[q] = "done" /\ replied'[q] = replied[q] /\ seen'[q] = seen[q]
            /\ asked'[q] = asked[q]
    BY <1>1, <1>4 DEF Active
  <2> QED
    BY <1>2, <2>1, AnswersStay
<1> QED
  BY <1>5, <1>6, <1>7, <1>8, <1>9, <1>10 DEF Inv

\* A late write is lost, or nothing happens.
LEMMA LostInv ==
  ASSUME Inv, lateWrites' \subseteq lateWrites,
         UNCHANGED row, UNCHANGED requestVars, UNCHANGED seen
  PROVE  Inv'
<1>1. /\ stage' = stage /\ asked' = asked /\ snapshot' = snapshot /\ replied' = replied
      /\ row' = row /\ seen' = seen
  BY DEF requestVars
<1>2. ExperimentTypeOK /\ AskKnown /\ SnapshotAllowed /\ SeenIsCurrent /\ LateWritesKept /\ ReplyReflectsWindow
  BY DEF Inv
<1>3. ExperimentTypeOK'
  BY <1>1, <1>2 DEF ExperimentTypeOK
<1>4. AskKnown' /\ SnapshotAllowed' /\ SeenIsCurrent'
  BY <1>1, <1>2 DEF AskKnown, SnapshotAllowed, SeenIsCurrent, Active
<1>5. LateWritesKept'
  BY <1>1, <1>2, LateWritesStay
<1>6. ReplyReflectsWindow'
  BY <1>1, <1>2, AnswersStay
<1> QED
  BY <1>3, <1>4, <1>5, <1>6 DEF Inv

\* Every step keeps the invariant.
LEMMA NextInv == Inv /\ [ExperimentNext]_experimentVars => Inv'
<1> SUFFICES ASSUME Inv, [ExperimentNext]_experimentVars PROVE Inv'
  OBVIOUS
<1> USE DEF Replies
<1>1. ASSUME NEW r \in Requests, Begin(r) PROVE Inv'
  BY <1>1, BeginInv
<1>2. ASSUME NEW r \in Requests, ReadFails(r) PROVE Inv'
  BY <1>2, AnswerInv DEF ReadFails, Active
<1>3. ASSUME NEW r \in Requests, ReadNothing(r) PROVE Inv'
  <2>1. NoExperiment \in seen[r]
    BY <1>3 DEF ReadNothing, Inv, SeenIsCurrent, Active
  <2> QED
    BY <1>3, <2>1, AnswerInv DEF ReadNothing, Active
<1>4. ASSUME NEW r \in Requests, Refuse(r) PROVE Inv'
  <2> DEFINE x == row[asked[r].exp]
  <2>1. stage[r] = "read" /\ x # NoExperiment /\ x.status \notin AllowedFrom[asked[r].op]
    BY <1>4 DEF Refuse
  <2>2. asked[r] \in Ask /\ asked[r].op \in Transitions /\ asked[r].exp \in Experiments
    BY <2>1, AskFacts DEF Inv, AskKnown
  <2>3. x \in Row /\ x \in seen[r]
    BY <2>1, <2>2 DEF Inv, ExperimentTypeOK, SeenIsCurrent, Active
  <2>4. <<x.status, Target[asked[r].op]>> \notin Diagram
    BY <2>1, <2>2, <2>3, TableIsDiagram DEF Row
  <2>5. \E y \in seen[r] \ {NoExperiment} : <<y.status, Target[asked[r].op]>> \notin Diagram
    BY <2>1, <2>3, <2>4
  <2>6. /\ Answer(r, 409)
        /\ row' = row /\ seen' = seen /\ lateWrites' = lateWrites
    BY <1>4 DEF Refuse
  <2>7. 409 \in Replies /\ Active(r)
    BY <2>1 DEF Active
  <2>8. /\ 409 \in {404, 409, 500}
        /\ 409 = 404 => NoExperiment \in seen[r]
    OBVIOUS
  <2> HIDE DEF x, Replies
  <2> QED
    BY <2>5, <2>6, <2>7, <2>8, AnswerInv
<1>5. ASSUME NEW r \in Requests, Accept(r) PROVE Inv'
  BY <1>5, AcceptInv
<1>6. ASSUME NEW r \in Requests, WriteCommits(r) PROVE Inv'
  BY <1>6, WriteCommitsInv
<1>7. ASSUME NEW r \in Requests, WriteRefused(r) PROVE Inv'
  BY <1>7, AnswerInv DEF WriteRefused, Active
<1>8. ASSUME NEW r \in Requests, WriteFails(r) PROVE Inv'
  BY <1>8, AnswerInv DEF WriteFails, Active
<1>9. ASSUME NEW r \in Requests, WriteTimesOut(r) PROVE Inv'
  BY <1>9, WriteTimesOutInv
<1>10. ASSUME NEW w \in lateWrites, LateWriteCommits(w) PROVE Inv'
  BY <1>10, LateWriteCommitsInv
<1>11. ASSUME NEW w \in lateWrites, LateWriteLost(w) PROVE Inv'
  BY <1>11, LostInv DEF LateWriteLost, requestVars
<1>12. CASE UNCHANGED experimentVars
  BY <1>12, LostInv DEF experimentVars, requestVars
<1> QED
  BY <1>1, <1>2, <1>3, <1>4, <1>5, <1>6, <1>7, <1>8, <1>9, <1>10, <1>11, <1>12
     DEF ExperimentNext, Advance, Module, ExperimentsQuiet

-----------------------------------------------------------------------------
(* Theorems *)

\* The invariant above holds of every state the handlers can bring about
\* (internal/api/handlers/experiments.go:122-213).
THEOREM Invariance == ExperimentSpec => []Inv
<1> QED
  BY InitInv, NextInv, PTL DEF ExperimentSpec

\* Every variable keeps its type: a transition never writes back a status that
\* is not one of the four (experiments.go:14-19).
THEOREM TypeCorrect == ExperimentSpec => []ExperimentTypeOK
<1>1. Inv => ExperimentTypeOK
  BY DEF Inv
<1> QED
  BY <1>1, Invariance, PTL

\* The answer of a transition was true at some moment while it ran
\* (handleLifecycleTransition, experiments.go:189-213).
THEOREM AnswersAreTrue == ExperimentSpec => []ReplyReflectsWindow
<1>1. Inv => ReplyReflectsWindow
  BY DEF Inv
<1> QED
  BY <1>1, Invariance, PTL

\* One step changes an experiment as LifecycleOrRace allows.
LEMMA LifecycleStep ==
  ASSUME Inv, [ExperimentNext]_experimentVars, NEW e \in Experiments, row'[e] # row[e]
  PROVE  \/ row'[e].status = ""
         \/ LegalStep(row[e], row'[e])
         \/ \E r \in Requests :
              /\ stage[r] = "write" /\ stage'[r] = "done"
              /\ asked[r].exp = e /\ snapshot[r] # row[e]
         \/ \E w \in lateWrites \ lateWrites' :
              w.exp = e /\ snapshot[w.by] # row[e]
<1>1. ExperimentTypeOK
  BY DEF Inv
<1>2. ASSUME NEW r \in Requests, WriteCommits(r), asked[r].op \in Transitions,
             snapshot[r] = row[e]
      PROVE  (row'[e].status = "") \/ LegalStep(row[e], row'[e])
  <2>1. stage[r] = "write" /\ row' = [row EXCEPT ![asked[r].exp] = Written(r)]
    BY <1>2 DEF WriteCommits
  <2>2. asked[r].exp = e /\ row'[e] = Written(r)
    BY <1>1, <2>1 DEF ExperimentTypeOK
  <2>3. /\ row[e] \in Row /\ row[e].status \in AllowedFrom[asked[r].op]
        /\ row'[e].status = Target[asked[r].op] /\ row'[e].config = row[e].config
    <3>1. /\ snapshot[r] \in Row /\ snapshot[r].status \in AllowedFrom[asked[r].op]
          /\ Written(r) = [status |-> Target[asked[r].op],
                           config |-> snapshot[r].config]
      BY <1>2, <2>1, WrittenFacts
    <3>2. /\ row'[e].status = Target[asked[r].op]
          /\ row'[e].config = snapshot[r].config
      BY <2>2, <3>1
    <3> QED
      BY <1>2, <3>1, <3>2, Zenon
  <2> QED
    BY <1>2, <2>3, TableIsDiagram, AbsentAssumption DEF LegalStep, Row
<1>3. ASSUME NEW r \in Requests, WriteCommits(r)
      PROVE  \/ row'[e].status = ""
             \/ LegalStep(row[e], row'[e])
             \/ /\ stage[r] = "write" /\ stage'[r] = "done"
                /\ asked[r].exp = e /\ snapshot[r] # row[e]
  <2>1. /\ stage[r] = "write" /\ row' = [row EXCEPT ![asked[r].exp] = Written(r)]
        /\ stage' = [stage EXCEPT ![r] = "done"]
    BY <1>3 DEF WriteCommits, Answer
  <2>2. asked[r].exp = e /\ row'[e] = Written(r) /\ stage'[r] = "done"
    BY <1>1, <2>1 DEF ExperimentTypeOK
  <2>3. asked[r].op \notin Transitions => row'[e].status = ""
    BY <2>1, <2>2, WrittenFacts
  <2> QED
    BY <1>2, <1>3, <2>1, <2>2, <2>3
<1>4. ASSUME NEW w \in lateWrites, LateWriteCommits(w)
      PROVE  \/ row'[e].status = ""
             \/ LegalStep(row[e], row'[e])
             \/ /\ w \in lateWrites \ lateWrites'
                /\ w.exp = e /\ snapshot[w.by] # row[e]
  <2>1. /\ row' = [row EXCEPT ![w.exp] = w.new]
        /\ lateWrites' = lateWrites \ {w}
    BY <1>4 DEF LateWriteCommits
  <2>2. w.exp = e /\ row'[e] = w.new /\ w \in lateWrites \ lateWrites'
    BY <1>1, <2>1 DEF ExperimentTypeOK
  <2>3. (w.new.status = "") \/
         ( /\ asked[w.by].op \in Transitions
           /\ snapshot[w.by] \in Row
           /\ snapshot[w.by].status \in AllowedFrom[asked[w.by].op]
           /\ w.new.status = Target[asked[w.by].op]
           /\ w.new.config = snapshot[w.by].config )
    BY Zenon DEF Inv, LateWritesKept
  <2>4. ASSUME asked[w.by].op \in Transitions,
               snapshot[w.by] \in Row,
               snapshot[w.by].status \in AllowedFrom[asked[w.by].op],
               w.new.status = Target[asked[w.by].op],
               w.new.config = snapshot[w.by].config,
               snapshot[w.by] = row[e]
        PROVE  LegalStep(row[e], row'[e])
    BY <2>2, <2>4, TableIsDiagram, AbsentAssumption DEF LegalStep, Row
  <2> QED
    BY <2>2, <2>3, <2>4
<1>5. CASE \E r \in Requests : WriteCommits(r)
  BY <1>3, <1>5
<1>6. CASE \E w \in lateWrites : LateWriteCommits(w)
  BY <1>4, <1>6
<1>7. CASE row' = row
  BY <1>7
<1>8. \/ \E r \in Requests : WriteCommits(r)
      \/ \E w \in lateWrites : LateWriteCommits(w)
      \/ row' = row
  BY DEF ExperimentNext, Advance, Module, ExperimentsQuiet, experimentVars, Begin, ReadFails, ReadNothing, Refuse,
         Accept, WriteRefused, WriteFails, WriteTimesOut, LateWriteLost
<1> QED
  BY <1>5, <1>6, <1>7, <1>8

\* An experiment changes by a POST or PUT, by a step of the documented diagram
\* that keeps the rest of it, or by a transition that lost a race
\* (experiments.go:189-203).
THEOREM LifecycleHolds == ExperimentSpec => LifecycleOrRace
<1>1. Inv /\ [ExperimentNext]_experimentVars =>
        [ \A e \in Experiments : row'[e] # row[e] =>
            \/ row'[e].status = ""
            \/ LegalStep(row[e], row'[e])
            \/ \E r \in Requests :
                 /\ stage[r] = "write" /\ stage'[r] = "done"
                 /\ asked[r].exp = e /\ snapshot[r] # row[e]
            \/ \E w \in lateWrites \ lateWrites' :
                 w.exp = e /\ snapshot[w.by] # row[e] ]_experimentVars
  BY LifecycleStep
<1> QED
  BY <1>1, Invariance, PTL DEF ExperimentSpec, LifecycleOrRace

=============================================================================

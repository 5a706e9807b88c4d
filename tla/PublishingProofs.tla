-------------------------- MODULE PublishingProofs --------------------------
(***************************************************************************)
(* Theorems about Publishing, for any number of calls and publishers,      *)
(* reliable or not, with and without faults; and at the end about          *)
(* Readiness, for any list of checkers.                                    *)
(***************************************************************************)
EXTENDS Publishing, Readiness, Integers, TLAPS

-----------------------------------------------------------------------------
(* The inductive invariant *)

\* How far the event of c has come with p: nothing is sent before the goroutine
\* runs; what was sent and what may still be sent are together no more than one
\* call of Publish allows; and what was acknowledged or confirmed was taken.
EventOK(c, p) ==
  /\ task[c] = "none" => send[c][p] = "none"
  /\ task[c] = "nil" => send[c][p] = "ok"
  /\ send[c][p] = "none" => left[c][p] = 0 /\ copies[p][c] = 0
  /\ copies[p][c] + left[c][p] <= Attempts[p]
  /\ << c, p >> \in acked => Taken(p, c)
  /\ send[c][p] = "ok" => Taken(p, c)

\* A call starts with nothing written, and only one that succeeded has a goroutine.
CallOK(c) ==
  /\ handler[c] = "idle" => write[c] = "none"
  /\ handler[c] \in {"idle", "calling", "error"} => task[c] = "none"

Inv ==
  /\ TypeOK
  /\ \A c \in Calls : CallOK(c)
  /\ \A c \in Calls, p \in Publishers : EventOK(c, p)

\* The numbers that EventOK speaks of.
LEMMA Numbers ==
  ASSUME TypeOK, NEW c \in Calls, NEW p \in Publishers
  PROVE  /\ Attempts[p] \in Nat /\ Attempts[p] > 0
         /\ left[c][p] \in Nat /\ copies[p][c] \in Nat
BY AttemptsAssumption DEF TypeOK

\* The invariant holds at the start, and each kind of step keeps it.
LEMMA InvInit == Init => Inv
<1> SUFFICES ASSUME Init
             PROVE  Inv
  OBVIOUS
<1>1. TypeOK
  BY DEF Init, TypeOK, Handlers, Writes, Tasks, Sends
<1>2. \A c \in Calls, p \in Publishers : EventOK(c, p)
  BY AttemptsAssumption DEF Init, EventOK, Taken
<1> QED
  BY <1>1, <1>2 DEF Inv, Init, CallOK

\* Steps that leave the events alone.
LEMMA EventsStay ==
  ASSUME Inv, UNCHANGED << task, send, moduleVars >>
  PROVE  \A c \in Calls, p \in Publishers : EventOK(c, p)'
BY DEF Inv, EventOK, Taken, moduleVars

\* A step of a call's handler keeps it.
LEMMA HandleInv ==
  ASSUME Inv, NEW c \in Calls, Handle(c)
  PROVE  Inv'
<1> USE DEF Handlers, Writes, Tasks, Sends, moduleVars
<1>1. CASE Begin(c)
  BY <1>1, EventsStay DEF Begin, Inv, TypeOK, CallOK
<1>2. CASE Execute(c)
  BY <1>2, EventsStay DEF Execute, Inv, TypeOK, CallOK
<1>3. CASE RefuseWrite(c)
  BY <1>3, EventsStay DEF RefuseWrite, Inv, TypeOK, CallOK
<1>4. CASE Succeed(c)
  <2>1. TypeOK'
    BY <1>4 DEF Succeed, Inv, TypeOK
  <2>2. \A d \in Calls : CallOK(d)'
    BY <1>4 DEF Succeed, Inv, TypeOK, CallOK
  <2>3. ASSUME NEW d \in Calls, NEW p \in Publishers
        PROVE  EventOK(d, p)'
    <3>1. EventOK(d, p) /\ task[c] = "none"
      BY <1>4 DEF Succeed, Inv, CallOK
    <3>2. UNCHANGED << send, left, acked, copies >>
      BY <1>4 DEF Succeed
    <3>3. task'[d] = IF d = c THEN "running" ELSE task[d]
      BY <1>4 DEF Succeed, Inv, TypeOK
    <3> QED
      BY <3>1, <3>2, <3>3 DEF EventOK, Taken
  <2> QED
    BY <2>1, <2>2, <2>3 DEF Inv
<1>5. CASE Fail(c)
  BY <1>5, EventsStay DEF Fail, Inv, TypeOK, CallOK
<1>6. CASE Answer(c)
  BY <1>6, EventsStay DEF Answer, Inv, TypeOK, CallOK
<1> QED
  BY <1>1, <1>2, <1>3, <1>4, <1>5, <1>6 DEF Handle

\* What the core does about one event,
LEMMA CoreSendInv ==
  ASSUME Inv, NEW c \in Calls, NEW p \in Publishers,
         Call(c, p) \/ Confirm(c, p) \/ GiveUp(c, p)
  PROVE  TypeOK' /\ \A d \in Calls, q \in Publishers : EventOK(d, q)'
<1> USE DEF Sends, moduleVars
<1>1. CASE Call(c, p)
  <2>1. TypeOK'
    BY <1>1, AttemptsAssumption DEF Call, Inv, TypeOK
  <2>2. ASSUME NEW d \in Calls, NEW q \in Publishers
        PROVE  EventOK(d, q)'
    <3>1. EventOK(d, q) /\ Attempts[q] \in Nat /\ task[c] = "running"
      BY <1>1, Numbers DEF Call, Running, Inv
    <3>2. UNCHANGED << task, acked, copies >>
      BY <1>1 DEF Call
    <3>3. CASE d = c /\ q = p
      <4>1. send'[d][q] = "waiting" /\ left'[d][q] = Attempts[q] /\ send[d][q] = "none"
        BY <1>1, <3>3 DEF Call, Inv, TypeOK
      <4> QED
        BY <3>1, <3>2, <3>3, <4>1 DEF EventOK, Taken
    <3>4. CASE ~ (d = c /\ q = p)
      <4>1. send'[d][q] = send[d][q] /\ left'[d][q] = left[d][q]
        BY <1>1, <3>4 DEF Call, Inv, TypeOK
      <4> QED
        BY <3>1, <3>2, <4>1 DEF EventOK, Taken
    <3> QED
      BY <3>3, <3>4
  <2> QED
    BY <2>1, <2>2
<1>2. CASE Confirm(c, p)
  <2>1. TypeOK'
    BY <1>2 DEF Confirm, Inv, TypeOK
  <2>2. ASSUME NEW d \in Calls, NEW q \in Publishers
        PROVE  EventOK(d, q)'
    <3>1. /\ EventOK(d, q) /\ send[c][p] = "waiting" /\ task[c] = "running"
          /\ Taken(p, c)
      BY <1>2 DEF Confirm, Running, Inv, EventOK
    <3>2. UNCHANGED << task, left, acked, copies >>
      BY <1>2 DEF Confirm
    <3>3. send'[d][q] = IF d = c /\ q = p THEN "ok" ELSE send[d][q]
      BY <1>2 DEF Confirm, Inv, TypeOK
    <3> QED
      BY <3>1, <3>2, <3>3 DEF EventOK, Taken
  <2> QED
    BY <2>1, <2>2
<1>3. CASE GiveUp(c, p)
  <2>1. TypeOK'
    BY <1>3 DEF GiveUp, Inv, TypeOK
  <2>2. ASSUME NEW d \in Calls, NEW q \in Publishers
        PROVE  EventOK(d, q)'
    <3>1. EventOK(d, q) /\ send[c][p] = "waiting" /\ task[c] = "running"
      BY <1>3 DEF GiveUp, Running, Inv
    <3>2. UNCHANGED << task, left, acked, copies >>
      BY <1>3 DEF GiveUp
    <3>3. send'[d][q] = IF d = c /\ q = p THEN "failed" ELSE send[d][q]
      BY <1>3 DEF GiveUp, Inv, TypeOK
    <3> QED
      BY <3>1, <3>2, <3>3 DEF EventOK, Taken
  <2> QED
    BY <2>1, <2>2
<1> QED
  BY <1>1, <1>2, <1>3

\* and what its module and its broker do.
LEMMA ModuleSendInv ==
  ASSUME Inv, NEW c \in Calls, NEW p \in Publishers,
         Send(c, p) \/ SendUnacknowledged(c, p) \/ Drop(c, p)
  PROVE  TypeOK' /\ \A d \in Calls, q \in Publishers : EventOK(d, q)'
<1>1. left[c][p] \in Nat /\ left[c][p] > 0 /\ copies[p][c] \in Nat
  BY Numbers DEF Send, SendUnacknowledged, Drop, Take, Inv
<1>2. UNCHANGED << core, handler, write, task, send >>
  BY DEF Send, SendUnacknowledged, Drop
<1>3. TypeOK'
  <2>1. CASE Send(c, p)
    BY <1>1, <1>2, <2>1 DEF Send, Take, Inv, TypeOK
  <2>2. CASE SendUnacknowledged(c, p)
    <3>1. left[c][p] - 1 \in Nat /\ copies[p][c] + 1 \in Nat
      BY <1>1
    <3> QED
      BY <1>2, <2>2, <3>1 DEF SendUnacknowledged, Take, Inv, TypeOK
  <2>3. CASE Drop(c, p)
    BY <1>2, <2>3 DEF Drop, Inv, TypeOK
  <2> QED
    BY <2>1, <2>2, <2>3
<1>4. ASSUME NEW d \in Calls, NEW q \in Publishers, ~ (d = c /\ q = p)
      PROVE  EventOK(d, q)'
  <2>1. EventOK(d, q)
    BY DEF Inv
  <2>2. /\ left'[d][q] = left[d][q] /\ copies'[q][d] = copies[q][d]
        /\ << d, q >> \in acked' <=> << d, q >> \in acked
    BY <1>4 DEF Send, SendUnacknowledged, Drop, Take, Inv, TypeOK
  <2> QED
    BY <1>2, <2>1, <2>2 DEF EventOK, Taken
<1>5. EventOK(c, p)'
  <2>1. /\ EventOK(c, p) /\ Attempts[p] \in Nat /\ send[c][p] # "none"
    BY <1>1, Numbers DEF Inv, EventOK
  <2>2. CASE Send(c, p)
    <3>1. /\ copies'[p][c] = copies[p][c] + 1 /\ left'[c][p] = 0
      BY <2>2 DEF Send, Take, Inv, TypeOK
    <3> QED
      BY <1>1, <1>2, <2>1, <3>1 DEF EventOK, Taken
  <2>3. CASE SendUnacknowledged(c, p)
    <3>1. /\ copies'[p][c] = copies[p][c] + 1 /\ left'[c][p] = left[c][p] - 1
      BY <2>3 DEF SendUnacknowledged, Take, Inv, TypeOK
    <3> QED
      BY <1>1, <1>2, <2>1, <3>1 DEF EventOK, Taken
  <2>4. CASE Drop(c, p)
    <3>1. /\ UNCHANGED << copies, acked >> /\ left'[c][p] = 0
      BY <2>4 DEF Drop, Inv, TypeOK
    <3> QED
      BY <1>1, <1>2, <2>1, <3>1 DEF EventOK, Taken
  <2> QED
    BY <2>2, <2>3, <2>4
<1> QED
  BY <1>3, <1>4, <1>5

\* Steps of an event leave the call alone.
LEMMA PublishInv ==
  ASSUME Inv, NEW c \in Calls, NEW p \in Publishers, Publish(c, p)
  PROVE  Inv'
<1>1. UNCHANGED << core, handler, write, task >>
  BY DEF Publish, Call, Send, SendUnacknowledged, Drop, Confirm, GiveUp
<1>2. \A d \in Calls : CallOK(d)'
  BY <1>1 DEF Inv, CallOK
<1>3. TypeOK' /\ \A d \in Calls, q \in Publishers : EventOK(d, q)'
  BY CoreSendInv, ModuleSendInv DEF Publish
<1> QED
  BY <1>2, <1>3 DEF Inv

\* So does the end of a fan-out,
LEMMA JoinInv ==
  ASSUME Inv, NEW c \in Calls, Join(c)
  PROVE  Inv'
<1>1. Joined(c) \in {"nil", "error"}
  BY DEF Joined
<1>2. TypeOK'
  BY <1>1 DEF Join, Running, moduleVars, Inv, TypeOK, Tasks
<1>3. \A d \in Calls : CallOK(d)'
  BY DEF Join, Running, Inv, TypeOK, CallOK
<1>4. ASSUME NEW d \in Calls, NEW q \in Publishers
      PROVE  EventOK(d, q)'
  <2>1. EventOK(d, q) /\ task[c] = "running"
    BY DEF Join, Running, Inv
  <2>2. UNCHANGED << send, left, acked, copies >>
    BY DEF Join, moduleVars
  <2>3. task'[d] = IF d = c THEN Joined(c) ELSE task[d]
    BY DEF Join, Inv, TypeOK
  <2>4. Joined(c) = "nil" => send[c][q] = "ok"
    BY DEF Joined
  <2> QED
    BY <1>1, <2>1, <2>2, <2>3, <2>4 DEF EventOK, Taken
<1> QED
  BY <1>2, <1>3, <1>4 DEF Inv

\* and what happens to the core.
LEMMA CoreInv ==
  ASSUME Inv, Stop \/ Exit \/ Kill \/ Start
  PROVE  Inv'
<1>1. CASE Stop \/ Start
  BY <1>1, EventsStay DEF Stop, Start, moduleVars, Inv, TypeOK, CallOK
<1>2. CASE Exit \/ Kill
  <2>1. GoDown
    BY <1>2 DEF Exit, Kill
  <2>2. TypeOK'
    BY <2>1 DEF GoDown, Running, moduleVars, Inv, TypeOK, Handlers, Tasks
  <2>3. \A d \in Calls : CallOK(d)'
    BY <2>1 DEF GoDown, Busy, Running, Inv, TypeOK, CallOK
  <2>4. ASSUME NEW d \in Calls, NEW q \in Publishers
        PROVE  EventOK(d, q)'
    <3>1. EventOK(d, q)
      BY DEF Inv
    <3>2. UNCHANGED << send, left, acked, copies >>
      BY <2>1 DEF GoDown, moduleVars
    <3>3. task'[d] = IF Running(d) THEN "killed" ELSE task[d]
      BY <2>1 DEF GoDown
    <3> QED
      BY <3>1, <3>2, <3>3 DEF EventOK, Taken, Running
  <2> QED
    BY <2>2, <2>3, <2>4 DEF Inv
<1> QED
  BY <1>1, <1>2

\* Every step keeps the invariant.
LEMMA InvNext == Inv /\ [Next]_vars => Inv'
<1> SUFFICES ASSUME Inv, [Next]_vars
             PROVE  Inv'
  OBVIOUS
<1>1. CASE \E c \in Calls : Handle(c) \/ Join(c) \/ \E p \in Publishers : Publish(c, p)
  BY <1>1, HandleInv, JoinInv, PublishInv
<1>2. CASE Stop \/ Exit \/ Kill \/ Start
  BY <1>2, CoreInv
<1>3. CASE UNCHANGED vars
  BY <1>3 DEF vars, moduleVars, Inv, TypeOK, CallOK, EventOK, Taken
<1> QED
  BY <1>1, <1>2, <1>3 DEF Next

\* So it always holds.
LEMMA Invariance == Spec => []Inv
BY InvInit, InvNext, PTL DEF Spec

-----------------------------------------------------------------------------
(* The theorems *)

\* Every variable keeps its type, and goroutines publish what was stored.
THEOREM TypeCorrect == Spec => []TypeOK
<1>1. Inv => TypeOK
  BY DEF Inv
<1> QED
  BY <1>1, Invariance, PTL

\* Fanout.Publish returns nil only when every broker has the event.
THEOREM SilenceIsDelivery == Spec => []SilentMeansDelivered
<1>1. Inv => SilentMeansDelivered
  BY DEF Inv, EventOK, SilentMeansDelivered
<1> QED
  BY <1>1, Invariance, PTL

\* A call that was answered with an error has no event at any broker.
THEOREM ErrorsStaySilent == Spec => []ErrorsAreSilent
<1>1. Inv => ErrorsAreSilent
  <2> SUFFICES ASSUME Inv, NEW c \in Calls, NEW p \in Publishers, handler[c] = "error"
               PROVE  ~ Taken(p, c)
    BY DEF ErrorsAreSilent
  <2>1. copies[p][c] = 0
    BY DEF Inv, CallOK, EventOK
  <2> QED
    BY <2>1 DEF Taken
<1> QED
  BY <1>1, Invariance, PTL

-----------------------------------------------------------------------------
(* The feed *)

Stored == { c \in Calls : write[c] = "stored" }

\* An initial state is one of EventFeed.
LEMMA FeedInitially == Init => Feed!FeedInit
BY DEF Init, Feed!FeedInit

\* Every step is one of the feed or leaves it as it is.
LEMMA FeedStep ==
  ASSUME Inv, [Next]_vars
  PROVE  [Feed!FeedNext]_(Feed!feedVars)
<1>1. ASSUME NEW c \in Calls, Execute(c)
      PROVE  Feed!FeedNext
  <2>1. Stored' = Stored \cup {c} /\ c \notin Stored
    BY <1>1 DEF Execute, Stored, Inv, TypeOK
  <2> QED
    BY <1>1, <2>1 DEF Execute, moduleVars, Stored, Feed!FeedNext, Feed!Store
<1>2. ASSUME NEW c \in Calls, NEW p \in Publishers,
             Send(c, p) \/ SendUnacknowledged(c, p)
      PROVE  Feed!FeedNext
  <2>1. Take(c, p) /\ UNCHANGED write
    BY <1>2 DEF Send, SendUnacknowledged
  <2>2. /\ left[c][p] \in Nat /\ copies[p][c] \in Nat /\ Attempts[p] \in Nat
        /\ left[c][p] > 0 /\ EventOK(c, p)
    BY <2>1, Numbers DEF Take, Inv
  <2>3. copies[p][c] < Attempts[p] /\ task[c] # "none"
    BY <2>2 DEF EventOK
  <2>4. c \in Stored
    BY <2>3 DEF Inv, TypeOK, Stored
  <2> QED
    BY <2>1, <2>3, <2>4 DEF Take, Stored, Feed!FeedNext, Feed!Deliver
<1>3. ASSUME UNCHANGED << write, copies >>
      PROVE  UNCHANGED Feed!feedVars
  BY <1>3 DEF Feed!feedVars
<1>4. ASSUME NEW c \in Calls, Begin(c) \/ RefuseWrite(c)
      PROVE  UNCHANGED Feed!feedVars
  <2>1. Stored' = Stored
    BY <1>4 DEF Begin, RefuseWrite, Stored, Inv, TypeOK, CallOK
  <2> QED
    BY <1>4, <2>1 DEF Begin, RefuseWrite, moduleVars, Stored, Feed!feedVars
<1>5. ASSUME NEW c \in Calls, Handle(c)
      PROVE  Feed!FeedNext \/ UNCHANGED Feed!feedVars
  BY <1>1, <1>3, <1>4, <1>5 DEF Handle, Succeed, Fail, Answer, moduleVars
<1>6. ASSUME NEW c \in Calls, NEW p \in Publishers, Publish(c, p)
      PROVE  Feed!FeedNext \/ UNCHANGED Feed!feedVars
  <2>1. CASE Send(c, p) \/ SendUnacknowledged(c, p)
    BY <1>2, <2>1
  <2>2. CASE Call(c, p) \/ Drop(c, p) \/ Confirm(c, p) \/ GiveUp(c, p)
    BY <1>3, <2>2 DEF Call, Drop, Confirm, GiveUp, moduleVars
  <2> QED
    BY <1>6, <2>1, <2>2 DEF Publish
<1>7. ASSUME NEW c \in Calls, Join(c)
      PROVE  UNCHANGED Feed!feedVars
  BY <1>3, <1>7 DEF Join, moduleVars
<1>8. CASE Stop \/ Exit \/ Kill \/ Start
  BY <1>3, <1>8 DEF Stop, Exit, Kill, Start, GoDown, moduleVars
<1>9. CASE UNCHANGED vars
  BY <1>3, <1>9 DEF vars, moduleVars
<1> QED
  BY <1>5, <1>6, <1>7, <1>8, <1>9 DEF Next

\* What the brokers take behaves like the abstract feed: events of stored
\* changes, none more often than one call of Publish may send it.
THEOREM FeedImplemented == Spec => ImplementsFeed
<1>1. Inv /\ [Next]_vars => [Feed!FeedNext]_(Feed!feedVars)
  BY FeedStep
<1> QED
  BY <1>1, FeedInitially, Invariance, PTL DEF Spec, ImplementsFeed, Feed!FeedSpec

-----------------------------------------------------------------------------
(* Readiness *)

\* What a checker can answer.
Results == {"ok", "degraded", "error"}

\* The verdict and the answers so far agree.
VerdictInv ==
  /\ checked \in 0 .. Len(Checkers)
  /\ answers \in Seq(Results) /\ Len(answers) = checked
  /\ overall \in {"ready", "not_ready"}
  /\ overall = "ready" <=> \A i \in 1 .. checked : answers[i] = "ok"

\* A status is that of a request whose checkers were all asked.
StatusInv ==
  /\ asked \in BOOLEAN
  /\ asked => status = 0
  /\ status # 0 => /\ checked = Len(Checkers)
                   /\ status = IF overall = "ready" THEN 200 ELSE 503

ReadyInv == VerdictInv /\ StatusInv

\* The invariant holds at the start.
LEMMA ReadyStart == ReadyInit => ReadyInv
<1> SUFFICES ASSUME ReadyInit
             PROVE  ReadyInv
  OBVIOUS
<1>1. Len(Checkers) \in Nat
  BY CheckersAssumption
<1>2. VerdictInv
  BY <1>1 DEF ReadyInit, VerdictInv
<1>3. StatusInv
  BY DEF ReadyInit, StatusInv
<1> QED
  BY <1>2, <1>3 DEF ReadyInv

\* A request starts the report and the verdict anew.
LEMMA BeginInv ==
  ASSUME BeginReadyz
  PROVE  ReadyInv'
<1>1. Len(Checkers) \in Nat
  BY CheckersAssumption
<1>2. VerdictInv'
  BY <1>1 DEF BeginReadyz, VerdictInv
<1>3. StatusInv'
  BY DEF BeginReadyz, StatusInv
<1> QED
  BY <1>2, <1>3 DEF ReadyInv

\* An answer is recorded.
LEMMA RecordedInv ==
  ASSUME ReadyInv, Serving, NEW result \in Results, Recorded(result)
  PROVE  ReadyInv'
<1>1. /\ Len(Checkers) \in Nat /\ checked \in Nat /\ checked < Len(Checkers)
      /\ checked' = checked + 1
  BY CheckersAssumption DEF ReadyInv, VerdictInv, Serving, Recorded
<1>2. PICK n \in Nat : n = checked + 1
  BY <1>1
<1>4. /\ checked \in Nat /\ n \in 1 .. Len(Checkers)
      /\ checked' = n /\ 1 .. n = (1 .. checked) \cup {n}
  BY <1>1, <1>2
<1>5. /\ answers' \in Seq(Results) /\ Len(answers') = n /\ answers'[n] = result
      /\ \A i \in 1 .. checked : answers'[i] = answers[i]
  BY <1>2 DEF ReadyInv, VerdictInv, Recorded
<1>6. VerdictInv'
  <2>1. overall' = Verdict(result)
    BY DEF Recorded
  <2>2. overall' \in {"ready", "not_ready"}
    BY <2>1 DEF Verdict, ReadyInv, VerdictInv
  <2>3. overall' = "ready" <=> overall = "ready" /\ result = "ok"
    BY <2>1 DEF Verdict
  <2>4. (\A i \in 1 .. n : answers'[i] = "ok")
          <=> (\A i \in 1 .. checked : answers[i] = "ok") /\ result = "ok"
    BY <1>4, <1>5
  <2> QED
    BY <1>4, <1>5, <2>2, <2>3, <2>4 DEF ReadyInv, VerdictInv
<1>7. StatusInv'
  <2>1. status = 0 /\ status' = status /\ asked' = asked
    BY DEF ReadyInv, StatusInv, Serving, Recorded
  <2> QED
    BY <2>1 DEF ReadyInv, StatusInv
<1> QED
  BY <1>6, <1>7 DEF ReadyInv

\* Every step keeps it.
LEMMA ReadyStep == ReadyInv /\ [ReadyNext]_readyVars => ReadyInv'
<1> SUFFICES ASSUME ReadyInv, [ReadyNext]_readyVars
             PROVE  ReadyInv'
  OBVIOUS
<1>1. ASSUME UNCHANGED << checked, asked, modules, overall, status, answers >>
      PROVE  ReadyInv'
  BY <1>1 DEF ReadyInv, VerdictInv, StatusInv
<1>2. CASE Change \/ UNCHANGED readyVars
  BY <1>1, <1>2 DEF Change, readyVars
<1>3. CASE BeginReadyz
  BY <1>3, BeginInv
<1>4. CASE Check \/ CheckTimesOut
  <2>1. Serving /\ \E result \in Results : Recorded(result)
    BY <1>4 DEF Check, CheckTimesOut, Results
  <2> QED
    BY <2>1, RecordedInv
<1>5. CASE Respond
  <2>1. /\ checked = Len(Checkers) /\ UNCHANGED << checked, modules, overall, answers >>
        /\ status' = IF overall = "ready" THEN 200 ELSE 503
        /\ asked' = FALSE
    BY <1>5 DEF Respond
  <2>2. VerdictInv'
    BY <2>1 DEF ReadyInv, VerdictInv
  <2> QED
    BY <2>1, <2>2 DEF ReadyInv, StatusInv
<1> QED
  BY <1>2, <1>3, <1>4, <1>5 DEF ReadyNext

\* 200 says that every checker answered ok when it was asked, 503 that one did
\* not, whichever names they share.
THEOREM VerdictsAreTrue == ReadySpec => []VerdictIsTrue
<1>1. ReadyInv => VerdictIsTrue
  <2> SUFFICES ASSUME ReadyInv, status # 0
               PROVE  status = IF \A i \in Positions : answers[i] = "ok"
                               THEN 200 ELSE 503
    BY DEF VerdictIsTrue
  <2>1. Positions = 1 .. checked
    BY CheckersAssumption DEF ReadyInv, StatusInv, Positions
  <2>2. overall = "ready" <=> \A i \in Positions : answers[i] = "ok"
    BY <2>1 DEF ReadyInv, VerdictInv
  <2> QED
    BY <2>2 DEF ReadyInv, StatusInv
<1> QED
  BY <1>1, ReadyStart, ReadyStep, PTL DEF ReadySpec

=============================================================================

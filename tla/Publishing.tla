----------------------------- MODULE Publishing -----------------------------
(***************************************************************************)
(* Events about changes, from the management call to the brokers:          *)
(* PublishingFlagManager and PublishingExperimentManager                   *)
(* (handlers/publishing.go), publisher.Fanout, the client and the server   *)
(* of the publisher modules.                                               *)
(*                                                                         *)
(* All mutating calls (create, update, delete, transitions) have the same  *)
(* shape: the write, then a goroutine of its own that publishes to all     *)
(* publishers in parallel while the call is answered.  Nobody waits for    *)
(* these goroutines when the core stops.  A publisher module hands an      *)
(* event to its broker whether or not the core still waits for it.  The    *)
(* clients the modules are built with send an event again that the broker  *)
(* did not acknowledge, so one call of Publish may put it there more than  *)
(* once.                                                                   *)
(***************************************************************************)
EXTENDS Naturals

CONSTANTS Calls,        \* the mutating calls, each handled once
          Publishers,   \* the configured publisher modules
          Reliable,     \* those that always take an event in time
          Attempts,     \* how often each module's client sends one event
          HasFaults     \* writes may fail and the core may be killed

ASSUME ReliableAssumption == Reliable \subseteq Publishers
ASSUME AttemptsAssumption == Attempts \in [Publishers -> Nat \ {0}]
ASSUME FaultsAssumption == HasFaults \in BOOLEAN

VARIABLES
  core,      \* "up", "stopping" or "down"
  handler,   \* where each call is; "cut" if the core went down under it
  write,     \* what became of its write in the persistence module
  task,      \* its goroutine, and in the end what Fanout.Publish returned
  send,      \* send[c][p]: the call of Publish that sends its event to p
  left,      \* left[c][p]: how often p may still send its event; 0 before it
             \* has it and once it is done with it
  acked,     \* <<c, p>>: the events p's broker acknowledged
  copies     \* copies[p][c]: how often the broker of p took its event

moduleVars == << left, acked, copies >>
vars == << core, handler, write, task, send, moduleVars >>

Handlers == {"idle", "calling", "replying", "ok", "error", "cut"}
Writes == {"none", "pending", "stored", "refused"}
Tasks == {"none", "running", "nil", "error", "killed"}
Sends == {"none", "waiting", "ok", "failed"}

TypeOK ==
  /\ core \in {"up", "stopping", "down"}
  /\ handler \in [Calls -> Handlers]
  /\ write \in [Calls -> Writes]
  /\ task \in [Calls -> Tasks]
  /\ send \in [Calls -> [Publishers -> Sends]]
  /\ left \in [Calls -> [Publishers -> Nat]]
  /\ acked \subseteq Calls \X Publishers
  /\ copies \in [Publishers -> [Calls -> Nat]]
  (* a goroutine publishes what was stored *)
  /\ \A c \in Calls : task[c] # "none" => write[c] = "stored"

Init ==
  /\ core = "up"
  /\ handler = [c \in Calls |-> "idle"]
  /\ write = [c \in Calls |-> "none"]
  /\ task = [c \in Calls |-> "none"]
  /\ send = [c \in Calls |-> [p \in Publishers |-> "none"]]
  /\ left = [c \in Calls |-> [p \in Publishers |-> 0]]
  /\ acked = {}
  /\ copies = [p \in Publishers |-> [c \in Calls |-> 0]]

-----------------------------------------------------------------------------
(* The call *)

\* The call asks the persistence module for its write.
Begin(c) ==
  /\ core = "up" /\ handler[c] = "idle"
  /\ handler' = [handler EXCEPT ![c] = "calling"]
  /\ write' = [write EXCEPT ![c] = "pending"]
  /\ UNCHANGED << core, task, send, moduleVars >>

\* The module executes it, perhaps after the call gave up.
Execute(c) ==
  /\ write[c] = "pending"
  /\ write' = [write EXCEPT ![c] = "stored"]
  /\ UNCHANGED << core, handler, task, send, moduleVars >>

\* The module refuses it, or it is lost.
RefuseWrite(c) ==
  /\ write[c] = "pending" /\ HasFaults
  /\ write' = [write EXCEPT ![c] = "refused"]
  /\ UNCHANGED << core, handler, task, send, moduleVars >>

\* The inner manager succeeds: publishAsync starts a goroutine.
Succeed(c) ==
  /\ handler[c] = "calling" /\ write[c] = "stored"
  /\ handler' = [handler EXCEPT ![c] = "replying"]
  /\ task' = [task EXCEPT ![c] = "running"]
  /\ UNCHANGED << core, write, send, moduleVars >>

\* Mutant: the event is published before the error is looked at.
Fail_Announced(c) ==
  /\ handler[c] = "calling" /\ HasFaults
  /\ handler' = [handler EXCEPT ![c] = "error"]
  /\ task' = [task EXCEPT ![c] = "running"]
  /\ UNCHANGED << core, write, send, moduleVars >>

\* It fails: refused, or given up on after five seconds.
Fail(c) ==
  /\ handler[c] = "calling" /\ HasFaults
  /\ handler' = [handler EXCEPT ![c] = "error"]
  /\ UNCHANGED << core, write, task, send, moduleVars >>

\* Mutant: the answer waits for the event.
Answer_Published(c) ==
  /\ handler[c] = "replying" /\ task[c] \in {"nil", "error"}
  /\ handler' = [handler EXCEPT ![c] = "ok"]
  /\ UNCHANGED << core, write, task, send, moduleVars >>

\* The caller is answered.
Answer(c) ==
  /\ handler[c] = "replying"
  /\ handler' = [handler EXCEPT ![c] = "ok"]
  /\ UNCHANGED << core, write, task, send, moduleVars >>

-----------------------------------------------------------------------------
(* Its event *)

Running(c) == task[c] = "running"

\* Mutant: the event is sent under the context of the request, which ends with
\* its answer.
Call_Cancelled(c, p) ==
  /\ Running(c) /\ send[c][p] = "none"
  /\ IF handler[c] = "replying"
     THEN /\ send' = [send EXCEPT ![c][p] = "waiting"]
          /\ left' = [left EXCEPT ![c][p] = Attempts[p]]
     ELSE /\ send' = [send EXCEPT ![c][p] = "failed"]
          /\ UNCHANGED left
  /\ UNCHANGED << core, handler, write, task, acked, copies >>

\* Fanout's goroutine for p calls Publish.
Call(c, p) ==
  /\ Running(c) /\ send[c][p] = "none"
  /\ send' = [send EXCEPT ![c][p] = "waiting"]
  /\ left' = [left EXCEPT ![c][p] = Attempts[p]]
  /\ UNCHANGED << core, handler, write, task, acked, copies >>

\* The broker takes the event.
Take(c, p) ==
  /\ left[c][p] > 0
  /\ copies' = [copies EXCEPT ![p][c] = copies[p][c] + 1]

\* The broker takes the event and acknowledges it.
Send(c, p) ==
  /\ Take(c, p)
  /\ left' = [left EXCEPT ![c][p] = 0]
  /\ acked' = acked \cup {<< c, p >>}
  /\ UNCHANGED << core, handler, write, task, send >>

\* It takes it, but the acknowledgement is lost: the module's client sends the
\* event again, or gives up.
SendUnacknowledged(c, p) ==
  /\ Take(c, p)
  /\ p \in Reliable => left[c][p] > 1
  /\ left' = [left EXCEPT ![c][p] = left[c][p] - 1]
  /\ UNCHANGED << core, handler, write, task, send, acked >>

\* The event is lost on its way, or the broker takes none of what is still to
\* be sent.
Drop(c, p) ==
  /\ left[c][p] > 0
  /\ p \notin Reliable \/ task[c] = "killed"
  /\ left' = [left EXCEPT ![c][p] = 0]
  /\ UNCHANGED << core, handler, write, task, send, acked, copies >>

Taken(p, c) == copies[p][c] > 0

\* The module confirms.
Confirm(c, p) ==
  /\ Running(c) /\ send[c][p] = "waiting" /\ << c, p >> \in acked
  /\ send' = [send EXCEPT ![c][p] = "ok"]
  /\ UNCHANGED << core, handler, write, task, moduleVars >>

\* Mutant: what was given up on is sent again.
GiveUp_Retried(c, p) ==
  /\ Running(c) /\ send[c][p] = "waiting" /\ p \notin Reliable
  /\ send' = [send EXCEPT ![c][p] = "none"]
  /\ UNCHANGED << core, handler, write, task, moduleVars >>

\* The module answers with an error, or not within five seconds.
GiveUp(c, p) ==
  /\ Running(c) /\ send[c][p] = "waiting" /\ p \notin Reliable
  /\ send' = [send EXCEPT ![c][p] = "failed"]
  /\ UNCHANGED << core, handler, write, task, moduleVars >>

\* Mutant: one success hides the errors.
Joined_Any(c) == IF \E p \in Publishers : send[c][p] = "ok" THEN "nil" ELSE "error"

\* errors.Join: an error is returned, and logged, if any publisher failed.
Joined(c) == IF \A p \in Publishers : send[c][p] = "ok" THEN "nil" ELSE "error"

\* wg.Wait returns.
Join(c) ==
  /\ Running(c)
  /\ \A p \in Publishers : send[c][p] \in {"ok", "failed"}
  /\ task' = [task EXCEPT ![c] = Joined(c)]
  /\ UNCHANGED << core, handler, write, send, moduleVars >>

-----------------------------------------------------------------------------
(* The core *)

Busy(c) == handler[c] \in {"calling", "replying"}

\* A signal: no more requests are taken.
Stop ==
  /\ core = "up"
  /\ core' = "stopping"
  /\ UNCHANGED << handler, write, task, send, moduleVars >>

\* The process ends with all its goroutines.
GoDown ==
  /\ core' = "down"
  /\ handler' = [c \in Calls |-> IF Busy(c) THEN "cut" ELSE handler[c]]
  /\ task' = [c \in Calls |-> IF Running(c) THEN "killed" ELSE task[c]]
  /\ UNCHANGED << write, send, moduleVars >>

\* Shutdown has waited for the requests.
Exit == core = "stopping" /\ (\A c \in Calls : ~ Busy(c)) /\ GoDown

\* It has waited five seconds, or the core is killed.
Kill == core # "down" /\ HasFaults /\ GoDown

Start ==
  /\ core = "down"
  /\ core' = "up"
  /\ UNCHANGED << handler, write, task, send, moduleVars >>

-----------------------------------------------------------------------------
(* The specification *)

Handle(c) ==
  Begin(c) \/ Execute(c) \/ RefuseWrite(c) \/ Succeed(c) \/ Fail(c) \/ Answer(c)

Publish(c, p) ==
  \/ Call(c, p) \/ Confirm(c, p) \/ GiveUp(c, p)
  \/ Send(c, p) \/ SendUnacknowledged(c, p) \/ Drop(c, p)

Next ==
  \/ \E c \in Calls : Handle(c) \/ Join(c) \/ \E p \in Publishers : Publish(c, p)
  \/ Stop \/ Exit \/ Kill \/ Start

Spec == Init /\ [][Next]_vars

\* A goroutine is scheduled while the process lives; a write is answered or given
\* up on after five seconds (persistence.go:14); a reliable module takes what it
\* is sent.  Other publishers may hang for ever.
Fairness ==
  \A c \in Calls :
    /\ WF_vars(Execute(c)) /\ WF_vars(Succeed(c) \/ Fail(c)) /\ WF_vars(Answer(c))
    /\ \A p \in Publishers : WF_vars(Call(c, p))
    /\ \A p \in Reliable : WF_vars(Send(c, p))

LiveSpec == Spec /\ Fairness

-----------------------------------------------------------------------------
(* Properties *)

Feed == INSTANCE EventFeed WITH stored <- { c \in Calls : write[c] = "stored" }

\* However calls, publishers and shutdowns overlap and fail, every broker takes
\* only events of stored changes, and none more often than one call of Publish
\* may send it: the core never repeats that call, and publishes after the write
\* (publishing.go:30-63).  Repeats are the modules' own (module-kafka/main.go:30).
ImplementsFeed == Feed!FeedSpec

\* The core logs a warning about an event unless every broker has it, whichever
\* publishers failed and in which order they ended (publisher.go:26-43).
SilentMeansDelivered ==
  \A c \in Calls, p \in Publishers : task[c] = "nil" => Taken(p, c)

\* No broker hears of a call that was answered with an error, even if its write is
\* executed later (publishing.go:31-34).
ErrorsAreSilent ==
  \A c \in Calls, p \in Publishers : handler[c] = "error" => ~ Taken(p, c)

\* Whatever the other publishers do, a reliable one takes the event of every
\* successful call, unless the core goes down first: publishers are called in
\* parallel, and the event outlives the request (publisher.go:33, publishing.go:59).
ReliableTakes ==
  \A c \in Calls, p \in Reliable :
    handler[c] = "replying" ~> Taken(p, c) \/ task[c] = "killed"

\* A call is answered though publishers hang for ever, unless the core goes down
\* (publishing.go:56-63).
EveryCallAnswered ==
  \A c \in Calls : handler[c] = "calling" ~> handler[c] \in {"ok", "error", "cut"}

=============================================================================

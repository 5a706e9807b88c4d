---------------------------- MODULE FlagRegistry ----------------------------
(***************************************************************************)
(* What the flag management API promises of a persistence module, whatever *)
(* the module: every create, update and delete takes effect at most once,  *)
(* in one step between the request and its answer or after an error, and   *)
(* a success is answered only when it did.                                 *)
(*                                                                         *)
(* An update may be overtaken by a delete after it found its flag.  The    *)
(* policy says whether it then brings the flag back, and whether a create  *)
(* replaces a flag that is there.                                          *)
(***************************************************************************)

CONSTANTS Keys, Bodies, Calls, Absent, NoAsk,
          HasFaults          \* calls may fail

Asks == [op : {"create", "update"}, key : Keys, body : Bodies] \cup
        [op : {"delete"}, key : Keys]

VARIABLES
  policy,    \* of the module the core is wired to
  body,      \* what is defined
  stage,     \* "idle", "open", "applied" or "dropped" for each call
  ask,       \* what it asks
  reply,     \* "none", "ok" or "error"
  found      \* whether its flag was there at some moment since it was asked

registryVars == << policy, body, stage, ask, reply, found >>

Policies == [createReplaces : BOOLEAN, resurrects : BOOLEAN]

RegistryInit ==
  /\ policy \in Policies
  /\ body \in [Keys -> Bodies \cup {Absent}]
  /\ stage = [c \in Calls |-> "idle"]
  /\ ask = [c \in Calls |-> NoAsk]
  /\ reply = [c \in Calls |-> "none"]
  /\ found = [c \in Calls |-> FALSE]

Open(c) == stage[c] = "open"

\* The calls that see a flag for k from now on.
Found(k) == [c \in Calls |-> found[c] \/ (Open(c) /\ ask[c].key = k)]

Invoke(c) ==
  /\ stage[c] = "idle"
  /\ \E a \in Asks :
       /\ ask' = [ask EXCEPT ![c] = a]
       /\ found' = [found EXCEPT ![c] = body[a.key] # Absent]
  /\ stage' = [stage EXCEPT ![c] = "open"]
  /\ UNCHANGED << body, reply >>

Take(c) ==
  /\ Open(c)
  /\ stage' = [stage EXCEPT ![c] = "applied"]
  /\ UNCHANGED << ask, reply >>

Create(c) ==
  /\ Take(c) /\ ask[c].op = "create"
  /\ policy.createReplaces \/ body[ask[c].key] = Absent
  /\ body' = [body EXCEPT ![ask[c].key] = ask[c].body]
  /\ found' = Found(ask[c].key)

Update(c) ==
  /\ Take(c) /\ ask[c].op = "update"
  /\ body[ask[c].key] # Absent
  /\ body' = [body EXCEPT ![ask[c].key] = ask[c].body]
  /\ UNCHANGED found

\* The flag the update found is gone.
Overtaken(c) ==
  /\ Take(c) /\ ask[c].op = "update"
  /\ body[ask[c].key] = Absent /\ found[c]
  /\ IF policy.resurrects
     THEN /\ body' = [body EXCEPT ![ask[c].key] = ask[c].body]
          /\ found' = Found(ask[c].key)
     ELSE UNCHANGED << body, found >>

Delete(c) ==
  /\ Take(c) /\ ask[c].op = "delete"
  /\ body' = [body EXCEPT ![ask[c].key] = Absent]
  /\ UNCHANGED found

\* The call is refused, or fails before it took effect: it never will.
Drop(c) ==
  /\ Open(c)
  /\ \/ HasFaults
     \/ /\ ask[c].op = "create" /\ body[ask[c].key] # Absent
        /\ ~ policy.createReplaces
     \/ ask[c].op = "update" /\ body[ask[c].key] = Absent
  /\ stage' = [stage EXCEPT ![c] = "dropped"]
  /\ UNCHANGED << body, ask, reply, found >>

AnswerOk(c) ==
  /\ reply[c] = "none" /\ stage[c] = "applied"
  /\ reply' = [reply EXCEPT ![c] = "ok"]
  /\ UNCHANGED << body, stage, ask, found >>

\* An error says nothing of a call that was not refused: it may take effect.
AnswerError(c) ==
  /\ reply[c] = "none"
  /\ stage[c] = "dropped" \/ (HasFaults /\ stage[c] # "idle")
  /\ reply' = [reply EXCEPT ![c] = "error"]
  /\ UNCHANGED << body, stage, ask, found >>

RegistryNext ==
  /\ UNCHANGED policy
  /\ \E c \in Calls :
       \/ Invoke(c) \/ Drop(c) \/ AnswerOk(c) \/ AnswerError(c)
       \/ Create(c) \/ Update(c) \/ Overtaken(c) \/ Delete(c)

RegistrySpec == RegistryInit /\ [][RegistryNext]_registryVars

=============================================================================

-------------------------- MODULE FlagStoreProofs --------------------------
(***************************************************************************)
(* Proofs about FlagStore, for any sets of keys, definitions, calls and    *)
(* backends, with and without failures.                                    *)
(***************************************************************************)
EXTENDS FlagStore, TLAPS

-----------------------------------------------------------------------------
(* The inductive invariant *)

\* Where a call is says what it asked, whether it has written its flag and
\* what the module answered.
CallShape(c) ==
  /\ pc[c] = "idle" <=> ask[c] = NoAsk
  /\ pc[c] = "idle" => ~ effect[c] /\ reply[c] = "none"
  /\ pc[c] \in {"run", "write"} => ~ effect[c]
  /\ pc[c] = "write" => ask[c].op = "update" /\ ReadsFirst /\ found[c]
  /\ pc[c] = "index" => Indexed /\ effect[c] /\ ask[c].op \in {"create", "delete"}
  /\ pc[c] # "done" => result[c] = "none"
  /\ pc[c] = "done" => result[c] \in {"ok", "error"}
  /\ result[c] = "ok" => effect[c]
  /\ pc[c] = "done" /\ result[c] = "error" /\ effect[c] => HasFaults

\* A call that has still to write has seen a flag that is there.
SeesItsFlag(c) == Pending(c) /\ ~ effect[c] /\ Current(c) # Absent => found[c]

CallInv == \A c \in Calls : CallShape(c) /\ SeesItsFlag(c)

\* A call for k is between its two commands.
HalfWay(c, k) == pc[c] = "index" /\ ask[c].key = k

\* What Redis' index says of a key that one call at a time works on.
IndexShape(k) ==
  /\ \A c, d \in Calls :
       Pending(c) /\ Pending(d) /\ ask[c].key = k /\ ask[d].key = k => c = d
  /\ \A c \in Calls :
       HalfWay(c, k) => (ask[c].op = "create" <=> flags[k] # Absent)
  /\ \A c \in Calls :
       pc[c] = "write" /\ ask[c].key = k => flags[k] # Absent
  /\ (\A c \in Calls : ~ HalfWay(c, k)) => (k \in index <=> flags[k] # Absent)

IndexInv == Indexed => \A k \in Keys \ contested : IndexShape(k)

-----------------------------------------------------------------------------
(* Types *)

\* A call that was asked has a key, and a definition to write unless it is a
\* delete.
LEMMA AskParts ==
  ASSUME TypeOK, NEW c \in Calls, ask[c] # NoAsk
  PROVE  /\ ask[c] \in Asks
         /\ ask[c].key \in Keys
         /\ ask[c].op \in {"create", "update", "delete"}
         /\ ask[c].op \in {"create", "update"} => ask[c].body \in Bodies
<1>1. ask[c] \in Asks
  BY DEF TypeOK
<1> QED
  BY <1>1 DEF Asks

\* Absent is no definition, and no definition says Absent.
LEMMA FlagParts ==
  ASSUME NEW f \in Flag
  PROVE  /\ f # Absent
         /\ f.body \in Bodies /\ f.body # Absent
         /\ f.createdAt \in Stamps
         /\ f.createdBy \in Stamps \cup {NoOne}
BY NullAssumption DEF Flag

LEMMA CurrentType ==
  ASSUME TypeOK, NEW c \in Calls, ask[c] # NoAsk
  PROVE  Current(c) \in Flag \cup {Absent}
BY AskParts DEF TypeOK, Current

\* What creates and updates write are definitions.
LEMMA CreatedType ==
  ASSUME TypeOK, NEW c \in Calls, ask[c] # NoAsk, ask[c].op = "create"
  PROVE  Created(c) \in Flag
<1>1. ask[c].body \in Bodies
  BY AskParts
<1> QED
  BY <1>1 DEF Created, Flag, Stamps

LEMMA UpdatedType ==
  ASSUME TypeOK, NEW c \in Calls, ask[c] # NoAsk, ask[c].op = "update",
         Current(c) # Absent
  PROVE  /\ Updated(c) \in Flag
         /\ Updated(c).body = ask[c].body
         /\ Updated(c).createdAt = Current(c).createdAt
<1>1. ask[c].body \in Bodies /\ Current(c) \in Flag
  BY AskParts, CurrentType
<1> QED
  BY <1>1 DEF Updated, Flag

LEMMA ReplacementType ==
  ASSUME TypeOK, NEW c \in Calls, ask[c] # NoAsk, ask[c].op = "update"
  PROVE  Replacement(c) \in Flag
<1>1. ask[c].body \in Bodies
  BY AskParts
<1>2. old[c] \in Stamps
  BY DEF TypeOK
<1> QED
  BY <1>1, <1>2 DEF Replacement, Flag

\* What a write of one flag changes.
LEMMA PutType ==
  ASSUME TypeOK, NEW c \in Calls, ask[c] # NoAsk,
         NEW f \in Flag \cup {Absent}, Put(c, f)
  PROVE  /\ flags' \in [Keys -> Flag \cup {Absent}]
         /\ effect' \in [Calls -> BOOLEAN]
         /\ found' \in [Calls -> BOOLEAN]
<1>1. flags' \in [Keys -> Flag \cup {Absent}]
  BY DEF TypeOK, Put
<1>2. effect \in [Calls -> BOOLEAN]
  BY DEF TypeOK
<1>3. effect' = [effect EXCEPT ![c] = TRUE]
  BY DEF Put
<1>4. effect' \in [Calls -> BOOLEAN]
  BY <1>2, <1>3
<1>5. found' \in [Calls -> BOOLEAN]
  <2>1. found' = [d \in Calls |->
          found[d] \/ (f # Absent /\ Pending(d) /\ ~ effect[d]
                        /\ ask[d].key = ask[c].key)]
    BY DEF Put
  <2> QED
    BY <2>1, Zenon
<1> QED
  BY <1>1, <1>4, <1>5

\* One step per operation: each keeps the types.
LEMMA TypeInit == Init => TypeOK
<1> SUFFICES ASSUME Init
             PROVE  TypeOK
  OBVIOUS
<1>1. flags \in [Keys -> Flag \cup {Absent}]
  BY DEF Init, Flag, Stamps
<1>2. index \subseteq Keys
  BY DEF Init, Defined
<1>3. old \in [Calls -> Stamps]
  BY DEF Init, Stamps
<1>4. effect \in [Calls -> BOOLEAN] /\ found \in [Calls -> BOOLEAN]
  BY DEF Init
<1>5. /\ backend \in Backends
      /\ pc \in [Calls -> PCs]
      /\ ask \in [Calls -> Asks \cup {NoAsk}]
      /\ result \in [Calls -> {"none", "ok", "error"}]
      /\ reply \in [Calls -> {"none", "ok", "error"}]
      /\ contested \subseteq Keys
  BY DEF Init, PCs
<1> QED
  BY <1>1, <1>2, <1>3, <1>4, <1>5 DEF TypeOK

LEMMA CallInit == Init => CallInv
BY DEF Init, CallInv, CallShape, SeesItsFlag, Pending

LEMMA FinishType ==
  ASSUME TypeOK, NEW c \in Calls, NEW r \in {"ok", "error"}, Finish(c, r)
  PROVE  /\ pc' \in [Calls -> PCs]
         /\ result' \in [Calls -> {"none", "ok", "error"}]
BY DEF TypeOK, Finish, PCs

\* The writing steps.
LEMMA WriteType ==
  ASSUME TypeOK, CallInv, NEW c \in Calls,
         Create(c) \/ UpdateAtOnce(c) \/ UpdateWrites(c) \/ Delete(c)
  PROVE  TypeOK'
<1>1. ask[c] # NoAsk
  BY DEF CallInv, CallShape, Create, UpdateAtOnce, UpdateWrites, Delete
<1>2. /\ flags' \in [Keys -> Flag \cup {Absent}]
      /\ effect' \in [Calls -> BOOLEAN]
      /\ found' \in [Calls -> BOOLEAN]
  <2>1. CASE Create(c)
    <3>1. Created(c) \in Flag
      BY <1>1, <2>1, CreatedType DEF Create
    <3> QED
      BY <1>1, <2>1, <3>1, PutType DEF Create
  <2>2. CASE UpdateAtOnce(c)
    <3>1. Updated(c) \in Flag
      BY <1>1, <2>2, UpdatedType DEF UpdateAtOnce
    <3> QED
      BY <1>1, <2>2, <3>1, PutType DEF UpdateAtOnce
  <2>3. CASE UpdateWrites(c)
    <3>1. ask[c].op = "update"
      BY <2>3 DEF CallInv, CallShape, UpdateWrites
    <3>2. Replacement(c) \in Flag
      BY <1>1, <3>1, ReplacementType
    <3>3. CASE ~ MatchesNothing(c)
      BY <1>1, <2>3, <3>2, <3>3, PutType DEF UpdateWrites
    <3>4. CASE MatchesNothing(c)
      <4>1. effect \in [Calls -> BOOLEAN]
        BY DEF TypeOK
      <4>2. effect' = [effect EXCEPT ![c] = TRUE] /\ UNCHANGED << flags, found >>
        BY <2>3, <3>4 DEF UpdateWrites
      <4> QED
        BY <4>1, <4>2 DEF TypeOK
    <3> QED
      BY <3>3, <3>4
  <2>4. CASE Delete(c)
    BY <1>1, <2>4, PutType DEF Delete
  <2> QED
    BY <2>1, <2>2, <2>3, <2>4
<1>3. /\ pc' \in [Calls -> PCs]
      /\ result' \in [Calls -> {"none", "ok", "error"}]
  BY FinishType DEF Create, UpdateAtOnce, UpdateWrites, Delete, TypeOK, PCs
<1>4. UNCHANGED << backend, index, ask, old, reply, contested >>
  BY DEF Create, UpdateAtOnce, UpdateWrites, Delete
<1> QED
  BY <1>2, <1>3, <1>4 DEF TypeOK

\* The steps of the module that write no flag.
LEMMA QuietType ==
  ASSUME TypeOK, CallInv, NEW c \in Calls,
         RefuseCreate(c) \/ RefuseUpdate(c) \/ UpdateReads(c) \/ Reindex(c) \/ Fail(c)
  PROVE  TypeOK'
<1>1. ask[c] # NoAsk
  BY DEF CallInv, CallShape, RefuseCreate, RefuseUpdate, UpdateReads, Reindex,
         Fail, Pending
<1>2. ask[c].key \in Keys /\ Current(c) \in Flag \cup {Absent}
  BY <1>1, AskParts, CurrentType
<1>3. UNCHANGED << backend, flags, effect, found, ask, reply >>
  BY DEF RefuseCreate, RefuseUpdate, UpdateReads, Reindex, Fail, storeVars
<1>4. CASE RefuseCreate(c) \/ RefuseUpdate(c)
  BY <1>3, <1>4, FinishType DEF RefuseCreate, RefuseUpdate, TypeOK, storeVars
<1>5. CASE UpdateReads(c)
  <2>1. Current(c).createdAt \in Stamps
    BY <1>2, <1>5, FlagParts DEF UpdateReads
  <2>2. old' \in [Calls -> Stamps]
    BY <1>5, <2>1 DEF UpdateReads, TypeOK
  <2>3. pc' \in [Calls -> PCs]
    BY <1>5 DEF UpdateReads, TypeOK, PCs
  <2> QED
    BY <1>3, <1>5, <2>2, <2>3 DEF UpdateReads, TypeOK, storeVars
<1>6. CASE Reindex(c)
  <2>1. index' \subseteq Keys
    BY <1>2, <1>6 DEF Reindex, Reindexed, TypeOK
  <2> QED
    BY <1>3, <1>6, <2>1, FinishType DEF Reindex, TypeOK
<1>7. CASE Fail(c)
  <2>1. contested' \subseteq Keys
    BY <1>2, <1>7 DEF Fail, TypeOK
  <2> QED
    BY <1>3, <1>7, <2>1, FinishType DEF Fail, TypeOK, storeVars
<1> QED
  BY <1>4, <1>5, <1>6, <1>7

\* The steps of the caller.
LEMMA CallerType ==
  ASSUME TypeOK, NEW c \in Calls, Invoke(c) \/ Deliver(c) \/ GiveUp(c)
  PROVE  TypeOK'
<1>1. CASE Invoke(c)
  <2>1. PICK a \in Asks :
          /\ ask' = [ask EXCEPT ![c] = a]
          /\ found' = [found EXCEPT ![c] = flags[a.key] # Absent]
          /\ contested' = contested \cup
               { k \in {a.key} : \E d \in Calls : Pending(d) /\ ask[d].key = k }
    BY <1>1 DEF Invoke
  <2>2. a.key \in Keys
    BY <2>1 DEF Asks
  <2>3. found' \in [Calls -> BOOLEAN]
    BY <2>1 DEF TypeOK
  <2>4. pc' \in [Calls -> PCs]
    BY <1>1 DEF Invoke, TypeOK, PCs
  <2>5. ask' \in [Calls -> Asks \cup {NoAsk}] /\ contested' \subseteq Keys
    BY <2>1, <2>2 DEF TypeOK
  <2> QED
    BY <1>1, <2>3, <2>4, <2>5 DEF Invoke, TypeOK, storeVars
<1>2. CASE Deliver(c) \/ GiveUp(c)
  <2>1. reply' \in [Calls -> {"none", "ok", "error"}]
    BY <1>2 DEF Deliver, GiveUp, TypeOK
  <2> QED
    BY <1>2, <2>1 DEF Deliver, GiveUp, TypeOK, storeVars, callVars
<1> QED
  BY <1>1, <1>2

LEMMA TypeStep == TypeOK /\ CallInv /\ [Next]_vars => TypeOK'
<1> SUFFICES ASSUME TypeOK, CallInv, [Next]_vars
             PROVE  TypeOK'
  OBVIOUS
<1>1. ASSUME NEW c \in Calls, Invoke(c) \/ Step(c) \/ Deliver(c) \/ GiveUp(c)
      PROVE  TypeOK'
  BY <1>1, WriteType, QuietType, CallerType DEF Step
<1>2. CASE UNCHANGED vars
  BY <1>2 DEF vars, storeVars, callVars, TypeOK
<1> QED
  BY <1>1, <1>2 DEF Next, Quiet

-----------------------------------------------------------------------------
(* Calls *)

\* Nothing is said of a call that a step leaves alone.
LEMMA ShapeStays ==
  ASSUME NEW d \in Calls, CallShape(d), backend' = backend,
         pc'[d] = pc[d], ask'[d] = ask[d], effect'[d] = effect[d],
         result'[d] = result[d], reply'[d] = reply[d] \/ pc[d] # "idle",
         found[d] => found'[d]
  PROVE  CallShape(d)'
BY DEF CallShape, ReadsFirst, Indexed

\* Nor of the flag it sees, when that stays.
LEMMA SeesStays ==
  ASSUME NEW d \in Calls, SeesItsFlag(d),
         pc'[d] = pc[d], ask'[d] = ask[d], effect'[d] = effect[d],
         flags'[ask[d].key] = flags[ask[d].key],
         found[d] => found'[d]
  PROVE  SeesItsFlag(d)'
BY DEF SeesItsFlag, Pending, Current

\* What a write of one flag makes of the flags.
LEMMA PutFlags ==
  ASSUME TypeOK, NEW c \in Calls, ask[c] # NoAsk, NEW f, Put(c, f), NEW k \in Keys
  PROVE  flags'[k] = IF k = ask[c].key THEN f ELSE flags[k]
<1>1. DOMAIN flags = Keys
  BY DEF TypeOK
<1>2. flags' = [flags EXCEPT ![ask[c].key] = f]
  BY DEF Put
<1> QED
  BY <1>1, <1>2

\* What it says of every call.
LEMMA PutCalls ==
  ASSUME TypeOK, NEW c \in Calls, ask[c] # NoAsk, NEW f, Put(c, f)
  PROVE  /\ effect'[c] = TRUE
         /\ flags'[ask[c].key] = f
         /\ \A d \in Calls \ {c} : effect'[d] = effect[d]
         /\ \A d \in Calls :
              /\ found[d] => found'[d]
              /\ f # Absent /\ Pending(d) /\ ~ effect[d] /\ ask[d].key = ask[c].key
                   => found'[d]
<1>1. DOMAIN effect = Calls
  BY DEF TypeOK
<1>2. effect' = [effect EXCEPT ![c] = TRUE]
  BY DEF Put
<1>3. effect'[c] = TRUE /\ \A d \in Calls \ {c} : effect'[d] = effect[d]
  BY <1>1, <1>2
<1>4. ask[c].key \in Keys
  BY AskParts
<1>5. flags'[ask[c].key] = f
  BY <1>4, PutFlags
<1>6. ASSUME NEW d \in Calls
      PROVE  /\ found[d] => found'[d]
             /\ f # Absent /\ Pending(d) /\ ~ effect[d] /\ ask[d].key = ask[c].key
                  => found'[d]
  <2>1. found' = [e \in Calls |->
          found[e] \/ (f # Absent /\ Pending(e) /\ ~ effect[e]
                        /\ ask[e].key = ask[c].key)]
    BY DEF Put
  <2>2. found'[d] = (found[d] \/ (f # Absent /\ Pending(d) /\ ~ effect[d]
                                   /\ ask[d].key = ask[c].key))
    BY <2>1, Zenon
  <2> QED
    BY <2>2, Zenon
<1> QED
  BY <1>3, <1>5, <1>6

\* After a write every other call still sees its flag.
LEMMA PutSeen ==
  ASSUME TypeOK, NEW c \in Calls, ask[c] # NoAsk, NEW f, Put(c, f),
         NEW d \in Calls, ask[d] # NoAsk, SeesItsFlag(d),
         pc'[d] = pc[d], ask'[d] = ask[d], effect'[d] = effect[d]
  PROVE  SeesItsFlag(d)'
<1>1. CASE ask[d].key = ask[c].key
  <2> SUFFICES ASSUME Pending(d), ~ effect[d], flags'[ask[d].key] # Absent
               PROVE  found'[d]
    BY DEF SeesItsFlag, Pending, Current
  <2>1. flags'[ask[c].key] = f
    BY PutCalls
  <2>2. f # Absent
    BY <1>1, <2>1
  <2> QED
    BY <1>1, <2>2, PutCalls
<1>2. CASE ask[d].key # ask[c].key
  <2>1. ask[d].key \in Keys
    BY AskParts
  <2>2. flags'[ask[d].key] = flags[ask[d].key]
    BY <1>2, <2>1, PutFlags
  <2>3. found[d] => found'[d]
    BY PutCalls
  <2> QED
    BY <2>2, <2>3, SeesStays
<1> QED
  BY <1>1, <1>2

\* Where a step of the module leaves the call itself.
LEMMA FinishParts ==
  ASSUME TypeOK, NEW c \in Calls, NEW r, Finish(c, r)
  PROVE  /\ pc'[c] = "done" /\ result'[c] = r
         /\ \A d \in Calls \ {c} : pc'[d] = pc[d] /\ result'[d] = result[d]
BY DEF TypeOK, Finish

LEMMA WriteCalls ==
  ASSUME TypeOK, CallInv, NEW c \in Calls,
         Create(c) \/ UpdateAtOnce(c) \/ UpdateWrites(c) \/ Delete(c)
  PROVE  CallInv'
<1>1. ask[c] # NoAsk /\ result[c] = "none"
  BY DEF CallInv, CallShape, Create, UpdateAtOnce, UpdateWrites, Delete
<1>2. UNCHANGED << backend, index, ask, old, reply, contested >>
  BY DEF Create, UpdateAtOnce, UpdateWrites, Delete
<1>3. \A d \in Calls \ {c} : pc'[d] = pc[d] /\ result'[d] = result[d]
  BY FinishParts DEF Create, UpdateAtOnce, UpdateWrites, Delete, TypeOK
<1>4. \/ \E f : Put(c, f)
      \/ effect' = [effect EXCEPT ![c] = TRUE] /\ UNCHANGED << flags, found >>
  BY DEF Create, UpdateAtOnce, UpdateWrites, Delete
<1>5. /\ effect'[c] = TRUE
      /\ \A d \in Calls \ {c} : effect'[d] = effect[d] /\ (found[d] => found'[d])
  <2>1. CASE \E f : Put(c, f)
    BY <1>1, <2>1, PutCalls
  <2>2. CASE effect' = [effect EXCEPT ![c] = TRUE] /\ UNCHANGED << flags, found >>
    <3>1. DOMAIN effect = Calls
      BY DEF TypeOK
    <3> QED
      BY <2>2, <3>1
  <2> QED
    BY <1>4, <2>1, <2>2
<1>6. ASSUME NEW d \in Calls \ {c}
      PROVE  CallShape(d)' /\ SeesItsFlag(d)'
  <2>1. CallShape(d) /\ SeesItsFlag(d)
    BY DEF CallInv
  <2>2. CallShape(d)'
    BY <1>2, <1>3, <1>5, <2>1, ShapeStays
  <2>3. CASE ask[d] = NoAsk
    <3>1. pc'[d] = "idle"
      BY <1>3, <2>1, <2>3 DEF CallShape
    <3> QED
      BY <2>2, <3>1 DEF SeesItsFlag, Pending
  <2>4. CASE ask[d] # NoAsk /\ \E f : Put(c, f)
    BY <1>1, <1>2, <1>3, <1>5, <2>1, <2>2, <2>4, PutSeen
  <2>5. CASE UNCHANGED << flags, found >>
    BY <1>2, <1>3, <1>5, <2>1, <2>2, <2>5, SeesStays
  <2> QED
    BY <1>4, <2>2, <2>3, <2>4, <2>5
<1>7. CallShape(c)' /\ SeesItsFlag(c)'
  <2>1. SeesItsFlag(c)'
    BY <1>5 DEF SeesItsFlag
  <2>2. \/ pc'[c] = "done" /\ result'[c] = "ok"
        \/ /\ pc'[c] = "index" /\ result'[c] = "none"
           /\ Indexed /\ ask[c].op \in {"create", "delete"}
    BY <1>1, FinishParts DEF Create, UpdateAtOnce, UpdateWrites, Delete, TypeOK
  <2> QED
    BY <1>1, <1>2, <1>5, <2>1, <2>2 DEF CallShape, Indexed
<1> QED
  BY <1>6, <1>7 DEF CallInv

LEMMA QuietCalls ==
  ASSUME TypeOK, CallInv, NEW c \in Calls,
         RefuseCreate(c) \/ RefuseUpdate(c) \/ UpdateReads(c) \/ Reindex(c) \/ Fail(c)
  PROVE  CallInv'
<1>1. ask[c] # NoAsk /\ result[c] = "none"
  BY DEF CallInv, CallShape, RefuseCreate, RefuseUpdate, UpdateReads, Reindex,
         Fail, Pending
<1>2. UNCHANGED << backend, flags, effect, found, ask, reply >>
  BY DEF RefuseCreate, RefuseUpdate, UpdateReads, Reindex, Fail, storeVars
<1>3. \A d \in Calls \ {c} : pc'[d] = pc[d] /\ result'[d] = result[d]
  BY FinishParts DEF RefuseCreate, RefuseUpdate, UpdateReads, Reindex, Fail, TypeOK
<1>4. ASSUME NEW d \in Calls \ {c}
      PROVE  CallShape(d)' /\ SeesItsFlag(d)'
  <2>1. CallShape(d) /\ SeesItsFlag(d)
    BY DEF CallInv
  <2> QED
    BY <1>2, <1>3, <2>1, ShapeStays, SeesStays
<1>5. CallShape(c)' /\ SeesItsFlag(c)'
  <2>1. CallShape(c) /\ SeesItsFlag(c)
    BY DEF CallInv
  <2>2. CASE UpdateReads(c)
    <3>1. pc'[c] = "write" /\ result'[c] = "none" /\ pc[c] = "run"
          /\ ask[c].op = "update" /\ ReadsFirst /\ Current(c) # Absent
      BY <1>1, <2>2 DEF UpdateReads, TypeOK
    <3>2. ~ effect[c] /\ found[c]
      BY <2>1, <3>1 DEF CallShape, SeesItsFlag, Pending
    <3> QED
      BY <1>1, <1>2, <3>1, <3>2 DEF CallShape, SeesItsFlag, ReadsFirst
  <2>3. CASE RefuseCreate(c) \/ RefuseUpdate(c)
    <3>1. pc'[c] = "done" /\ result'[c] = "error" /\ pc[c] = "run"
      BY <2>3, FinishParts DEF RefuseCreate, RefuseUpdate
    <3> QED
      BY <1>1, <1>2, <2>1, <3>1 DEF CallShape, SeesItsFlag, Pending
  <2>4. CASE Reindex(c)
    <3>1. pc'[c] = "done" /\ result'[c] = "ok" /\ pc[c] = "index"
      BY <2>4, FinishParts DEF Reindex
    <3> QED
      BY <1>1, <1>2, <2>1, <3>1 DEF CallShape, SeesItsFlag, Pending
  <2>5. CASE Fail(c)
    <3>1. pc'[c] = "done" /\ result'[c] = "error" /\ HasFaults
      BY <2>5, FinishParts DEF Fail
    <3> QED
      BY <1>1, <1>2, <2>1, <3>1 DEF CallShape, SeesItsFlag, Pending
  <2> QED
    BY <2>2, <2>3, <2>4, <2>5
<1> QED
  BY <1>4, <1>5 DEF CallInv

LEMMA CallerCalls ==
  ASSUME TypeOK, CallInv, NEW c \in Calls, Invoke(c) \/ Deliver(c) \/ GiveUp(c)
  PROVE  CallInv'
<1>1. CASE Invoke(c)
  <2>1. PICK a \in Asks :
          /\ ask' = [ask EXCEPT ![c] = a]
          /\ found' = [found EXCEPT ![c] = flags[a.key] # Absent]
    BY <1>1 DEF Invoke
  <2>2. DOMAIN found = Calls /\ DOMAIN ask = Calls /\ DOMAIN pc = Calls
    BY DEF TypeOK
  <2>3. ask'[c] = a /\ \A d \in Calls \ {c} : ask'[d] = ask[d]
    BY <2>1, <2>2
  <2>4. /\ found'[c] = (flags[a.key] # Absent)
        /\ \A d \in Calls \ {c} : found'[d] = found[d]
    BY <2>1, <2>2, Zenon
  <2>5. /\ pc[c] = "idle" /\ pc'[c] = "run"
        /\ \A d \in Calls \ {c} : pc'[d] = pc[d]
        /\ UNCHANGED << backend, flags, effect, result, reply >>
    BY <1>1, <2>2 DEF Invoke, storeVars
  <2>6. ASSUME NEW d \in Calls \ {c}
        PROVE  CallShape(d)' /\ SeesItsFlag(d)'
    <3>1. CallShape(d) /\ SeesItsFlag(d)
      BY DEF CallInv
    <3> QED
      BY <2>3, <2>4, <2>5, <3>1, ShapeStays, SeesStays
  <2>7. CallShape(c)' /\ SeesItsFlag(c)'
    <3>1. CallShape(c)
      BY DEF CallInv
    <3>2. ~ effect[c] /\ result[c] = "none"
      BY <2>5, <3>1 DEF CallShape
    <3>3. a # NoAsk
      BY NullAssumption
    <3>4. CallShape(c)'
      BY <2>3, <2>5, <3>2, <3>3 DEF CallShape
    <3>5. SeesItsFlag(c)'
      BY <2>3, <2>4, <2>5 DEF SeesItsFlag, Current
    <3> QED
      BY <3>4, <3>5
  <2> QED
    BY <2>6, <2>7 DEF CallInv
<1>2. CASE Deliver(c) \/ GiveUp(c)
  <2>1. /\ UNCHANGED << backend, flags, pc, ask, effect, result, found >>
        /\ \A d \in Calls \ {c} : reply'[d] = reply[d]
        /\ pc[c] # "idle"
    BY <1>2 DEF Deliver, GiveUp, TypeOK, storeVars, callVars
  <2>2. ASSUME NEW d \in Calls
        PROVE  CallShape(d)' /\ SeesItsFlag(d)'
    <3>1. CallShape(d) /\ SeesItsFlag(d)
      BY DEF CallInv
    <3>2. reply'[d] = reply[d] \/ pc[d] # "idle"
      BY <2>1
    <3> QED
      BY <2>1, <3>1, <3>2, ShapeStays, SeesStays
  <2> QED
    BY <2>2 DEF CallInv
<1> QED
  BY <1>1, <1>2

LEMMA CallStep == TypeOK /\ CallInv /\ [Next]_vars => CallInv'
<1> SUFFICES ASSUME TypeOK, CallInv, [Next]_vars
             PROVE  CallInv'
  OBVIOUS
<1>1. ASSUME NEW c \in Calls, Invoke(c) \/ Step(c) \/ Deliver(c) \/ GiveUp(c)
      PROVE  CallInv'
  BY <1>1, WriteCalls, QuietCalls, CallerCalls DEF Step
<1>2. CASE UNCHANGED vars
  BY <1>2 DEF vars, storeVars, callVars, CallInv, CallShape, SeesItsFlag, Pending,
              Current, ReadsFirst, Indexed
<1> QED
  BY <1>1, <1>2 DEF Next, Quiet


\* Every variable keeps its type, over any of the three modules: what is in
\* a store is a flag or none, however calls overlap and fail.
THEOREM TypeCorrect == Spec => []TypeOK
<1>1. Init => TypeOK /\ CallInv
  BY TypeInit, CallInit
<1>2. TypeOK /\ CallInv /\ [Next]_vars => (TypeOK /\ CallInv)'
  BY TypeStep, CallStep
<1> QED
  BY <1>1, <1>2, PTL DEF Spec

-----------------------------------------------------------------------------
(* Redis' index *)

LEMMA IndexInit == Init => IndexInv
<1> SUFFICES ASSUME Init, Indexed, NEW k \in Keys
             PROVE  IndexShape(k)
  BY DEF IndexInv
<1>1. \A c \in Calls : pc[c] = "idle"
  BY DEF Init
<1>2. k \in index <=> flags[k] # Absent
  BY DEF Init, Defined
<1> QED
  BY <1>1, <1>2 DEF IndexShape, HalfWay, Pending

\* A step of a call for another key.
LEMMA IndexElsewhere ==
  ASSUME NEW k \in Keys, IndexShape(k), NEW c \in Calls, ask[c].key # k,
         ask' = ask, \A d \in Calls \ {c} : pc'[d] = pc[d],
         flags'[k] = flags[k], k \in index' <=> k \in index
  PROVE  IndexShape(k)'
<1>1. \A d \in Calls : ask[d].key = k => pc'[d] = pc[d]
  OBVIOUS
<1>2. \A d \in Calls : HalfWay(d, k)' <=> HalfWay(d, k)
  BY <1>1 DEF HalfWay
<1>3. \A d \in Calls : ask[d].key = k => (Pending(d)' <=> Pending(d))
  BY <1>1 DEF Pending
<1> QED
  BY <1>1, <1>2, <1>3 DEF IndexShape

\* A step of the only call for k.
LEMMA IndexAlone ==
  ASSUME NEW k \in Keys, IndexShape(k),
         NEW c \in Calls, Pending(c), ask[c].key = k,
         ask' = ask, \A d \in Calls \ {c} : pc'[d] = pc[d],
         \/ pc'[c] = "done" /\ (k \in index' <=> flags'[k] # Absent)
         \/ pc'[c] = "index" /\ (ask[c].op = "create" <=> flags'[k] # Absent)
         \/ pc'[c] = "write" /\ k \in index' /\ flags'[k] # Absent
  PROVE  IndexShape(k)'
<1>1. \A d \in Calls \ {c} : ~ (Pending(d) /\ ask[d].key = k)
  BY DEF IndexShape
<1>2. \A d \in Calls \ {c} : ~ (Pending(d)' /\ ask'[d].key = k)
  BY <1>1 DEF Pending
<1>3. \A d \in Calls \ {c} : ~ HalfWay(d, k)' /\ ~ (pc'[d] = "write" /\ ask'[d].key = k)
  BY <1>2 DEF HalfWay, Pending
<1>4. HalfWay(c, k)' <=> pc'[c] = "index"
  BY DEF HalfWay
<1>5. \A d, e \in Calls :
        Pending(d)' /\ Pending(e)' /\ ask'[d].key = k /\ ask'[e].key = k => d = e
  BY <1>2
<1>6. \A d \in Calls : HalfWay(d, k)' => (ask'[d].op = "create" <=> flags'[k] # Absent)
  BY <1>3, <1>4
<1>7. \A d \in Calls : pc'[d] = "write" /\ ask'[d].key = k => flags'[k] # Absent
  BY <1>3
<1>8. (\A d \in Calls : ~ HalfWay(d, k)') => (k \in index' <=> flags'[k] # Absent)
  BY <1>4
<1> QED
  BY <1>5, <1>6, <1>7, <1>8 DEF IndexShape

\* No call is half way through k but the only one that works on it.
LEMMA IndexBefore ==
  ASSUME NEW k \in Keys, IndexShape(k), NEW c \in Calls, Pending(c),
         ask[c].key = k, pc[c] # "index"
  PROVE  k \in index <=> flags[k] # Absent
<1>1. \A d \in Calls : ~ HalfWay(d, k)
  BY DEF IndexShape, HalfWay, Pending
<1> QED
  BY <1>1 DEF IndexShape

\* The steps of the module.
LEMMA ModuleIndex ==
  ASSUME TypeOK, CallInv, IndexInv, NEW c \in Calls, Step(c)
  PROVE  IndexInv'
<1>1. /\ Pending(c) /\ ask[c] # NoAsk
      /\ UNCHANGED << backend, ask >>
      /\ contested \subseteq contested'
  BY DEF Step, Create, RefuseCreate, UpdateAtOnce, UpdateReads, RefuseUpdate,
         UpdateWrites, Delete, Reindex, Fail, storeVars, Pending, CallInv, CallShape
<1>2. ask[c].key \in Keys
  BY <1>1, AskParts
<1>3. \A d \in Calls \ {c} : pc'[d] = pc[d]
  BY FinishParts DEF Step, Create, RefuseCreate, UpdateAtOnce, UpdateReads,
     RefuseUpdate, UpdateWrites, Delete, Reindex, Fail, TypeOK
<1> SUFFICES ASSUME Indexed', NEW k \in Keys \ contested'
             PROVE  IndexShape(k)'
  BY DEF IndexInv
<1>4. Indexed /\ k \in Keys /\ IndexShape(k)
  BY <1>1 DEF IndexInv, Indexed
<1>5. backend = "redis" /\ ReadsFirst /\ CreateReplaces
  BY <1>4 DEF Indexed, ReadsFirst, CreateReplaces
<1>6. CASE ask[c].key # k
  <2>1. flags'[k] = flags[k]
    <3>1. CASE \E f : Put(c, f)
      BY <1>1, <1>4, <1>6, <3>1, PutFlags
    <3>2. CASE UNCHANGED flags
      BY <3>2
    <3> QED
      BY <3>1, <3>2 DEF Step, Create, RefuseCreate, UpdateAtOnce, UpdateReads,
         RefuseUpdate, UpdateWrites, Delete, Reindex, Fail, storeVars
  <2>2. k \in index' <=> k \in index
    BY <1>6 DEF Step, Create, RefuseCreate, UpdateAtOnce, UpdateReads,
       RefuseUpdate, UpdateWrites, Delete, Reindex, Reindexed, Fail, storeVars
  <2> QED
    BY <1>1, <1>3, <1>4, <1>6, <2>1, <2>2, IndexElsewhere
<1>7. CASE ask[c].key = k
  <2>1. CASE Create(c) \/ Delete(c)
    <3>1. pc'[c] = "index"
      BY <1>4, <2>1 DEF Create, Delete, TypeOK
    <3>2. ask[c].op = "create" <=> flags'[k] # Absent
      <4>1. CASE Create(c)
        <5>1. flags'[k] = Created(c)
          BY <1>1, <1>7, <4>1, PutCalls DEF Create
        <5>2. Created(c) # Absent
          BY <1>1, <4>1, CreatedType, FlagParts DEF Create
        <5> QED
          BY <4>1, <5>1, <5>2 DEF Create
      <4>2. CASE Delete(c)
        <5>1. flags'[k] = Absent
          BY <1>1, <1>7, <4>2, PutCalls DEF Delete
        <5> QED
          BY <4>2, <5>1 DEF Delete
      <4> QED
        BY <2>1, <4>1, <4>2
    <3> QED
      BY <1>1, <1>3, <1>4, <1>7, <3>1, <3>2, IndexAlone
  <2>2. CASE UpdateWrites(c)
    <3>1. pc'[c] = "done" /\ pc[c] = "write" /\ UNCHANGED index
      BY <2>2, FinishParts DEF UpdateWrites
    <3>2. flags[k] # Absent
      BY <1>4, <1>7, <3>1 DEF IndexShape
    <3>3. k \in index
      BY <1>1, <1>4, <1>7, <3>1, <3>2, IndexBefore
    <3>4. flags'[k] # Absent
      <4>1. ask[c].op = "update"
        BY <3>1 DEF CallInv, CallShape
      <4>2. Replacement(c) # Absent
        BY <1>1, <4>1, ReplacementType, FlagParts
      <4>3. Put(c, Replacement(c))
        BY <1>5, <2>2 DEF UpdateWrites, MatchesNothing
      <4>4. flags'[k] = Replacement(c)
        BY <1>1, <1>7, <4>3, PutCalls
      <4> QED
        BY <4>2, <4>4
    <3> QED
      BY <1>1, <1>3, <1>4, <1>7, <3>1, <3>3, <3>4, IndexAlone
  <2>3. CASE UpdateReads(c)
    <3>1. pc'[c] = "write" /\ pc[c] = "run" /\ flags[k] # Absent
          /\ UNCHANGED << flags, index >>
      BY <1>7, <2>3 DEF UpdateReads, TypeOK, storeVars, Current
    <3>2. k \in index
      BY <1>1, <1>4, <1>7, <3>1, IndexBefore
    <3> QED
      BY <1>1, <1>3, <1>4, <1>7, <3>1, <3>2, IndexAlone
  <2>4. CASE Reindex(c)
    <3>1. pc'[c] = "done" /\ pc[c] = "index" /\ UNCHANGED flags
          /\ index' = Reindexed(c)
      BY <2>4, FinishParts DEF Reindex
    <3>2. ask[c].op = "create" <=> flags[k] # Absent
      BY <1>4, <1>7, <3>1 DEF IndexShape, HalfWay
    <3>3. k \in index' <=> ask[c].op = "create"
      BY <1>7, <3>1 DEF Reindexed
    <3> QED
      BY <1>1, <1>3, <1>4, <1>7, <3>1, <3>2, <3>3, IndexAlone
  <2>5. CASE RefuseUpdate(c) \/ Fail(c)
    <3>1. pc'[c] = "done" /\ UNCHANGED << flags, index >>
      BY <2>5, FinishParts DEF RefuseUpdate, Fail, storeVars
    <3>2. pc[c] # "index"
      BY <1>7, <2>5 DEF RefuseUpdate, Fail
    <3>3. k \in index <=> flags[k] # Absent
      BY <1>1, <1>4, <1>7, <3>2, IndexBefore
    <3> QED
      BY <1>1, <1>3, <1>4, <1>7, <3>1, <3>3, IndexAlone
  <2>6. ~ RefuseCreate(c) /\ ~ UpdateAtOnce(c)
    BY <1>5 DEF RefuseCreate, UpdateAtOnce
  <2> QED
    BY <2>1, <2>2, <2>3, <2>4, <2>5, <2>6 DEF Step
<1> QED
  BY <1>6, <1>7

\* A call that is asked contests a key another works on.
LEMMA InvokeIndex ==
  ASSUME TypeOK, IndexInv, NEW c \in Calls, Invoke(c)
  PROVE  IndexInv'
<1>1. PICK a \in Asks :
        /\ ask' = [ask EXCEPT ![c] = a]
        /\ contested' = contested \cup
             { k \in {a.key} : \E d \in Calls : Pending(d) /\ ask[d].key = k }
  BY DEF Invoke
<1>2. /\ ask'[c] = a /\ \A d \in Calls \ {c} : ask'[d] = ask[d]
      /\ pc[c] = "idle" /\ pc'[c] = "run"
      /\ \A d \in Calls \ {c} : pc'[d] = pc[d]
      /\ UNCHANGED << backend, flags, index >>
  BY <1>1 DEF Invoke, TypeOK, storeVars
<1> SUFFICES ASSUME Indexed', NEW k \in Keys \ contested'
             PROVE  IndexShape(k)'
  BY DEF IndexInv
<1>3. k \in Keys /\ IndexShape(k)
  BY <1>1, <1>2 DEF IndexInv, Indexed
<1>4. \A d \in Calls : HalfWay(d, k)' <=> HalfWay(d, k)
  BY <1>2 DEF HalfWay
<1>5. \A d \in Calls : pc'[d] = "write" /\ ask'[d].key = k
                         => pc[d] = "write" /\ ask[d].key = k
  BY <1>2
<1>6. \A d \in Calls \ {c} : Pending(d)' /\ ask'[d].key = k
                               => Pending(d) /\ ask[d].key = k
  BY <1>2 DEF Pending
<1>7. a.key = k => \A d \in Calls : ~ (Pending(d) /\ ask[d].key = k)
  BY <1>1
<1>8. \A d, e \in Calls :
        Pending(d)' /\ Pending(e)' /\ ask'[d].key = k /\ ask'[e].key = k => d = e
  BY <1>2, <1>3, <1>6, <1>7 DEF IndexShape
<1>9. \A d \in Calls : HalfWay(d, k)' => (ask'[d].op = "create" <=> flags'[k] # Absent)
  <2> SUFFICES ASSUME NEW d \in Calls, HalfWay(d, k)'
               PROVE  ask'[d].op = "create" <=> flags'[k] # Absent
    OBVIOUS
  <2>1. d # c
    BY <1>2 DEF HalfWay
  <2>2. ask[d].op = "create" <=> flags[k] # Absent
    BY <1>3, <1>4 DEF IndexShape
  <2> QED
    BY <1>2, <2>1, <2>2
<1> QED
  BY <1>2, <1>3, <1>4, <1>5, <1>8, <1>9 DEF IndexShape

LEMMA IndexStep == TypeOK /\ CallInv /\ IndexInv /\ [Next]_vars => IndexInv'
<1> SUFFICES ASSUME TypeOK, CallInv, IndexInv, [Next]_vars
             PROVE  IndexInv'
  OBVIOUS
<1>1. ASSUME UNCHANGED << backend, flags, index, pc, ask, contested >>
      PROVE  IndexInv'
  BY <1>1 DEF IndexInv, IndexShape, Indexed, Pending, HalfWay
<1>2. ASSUME NEW c \in Calls, Deliver(c) \/ GiveUp(c)
      PROVE  IndexInv'
  BY <1>1, <1>2 DEF Deliver, GiveUp, storeVars, callVars
<1>3. CASE UNCHANGED vars
  BY <1>1, <1>3 DEF vars, storeVars, callVars
<1> QED
  BY <1>2, <1>3, ModuleIndex, InvokeIndex DEF Next, Quiet

\* Redis lists exactly the flags it has, but for keys whose calls overlapped or
\* whose pipeline was cut.
THEOREM ListsFollow == Spec => []IndexFollowsFlags
<1>1. Init => TypeOK /\ CallInv /\ IndexInv
  BY TypeInit, CallInit, IndexInit
<1>2. TypeOK /\ CallInv /\ IndexInv /\ [Next]_vars => (TypeOK /\ CallInv /\ IndexInv)'
  BY TypeStep, CallStep, IndexStep
<1>3. IndexInv => IndexFollowsFlags
  BY DEF IndexInv, IndexShape, IndexFollowsFlags, HalfWay
<1> QED
  BY <1>1, <1>2, <1>3, PTL DEF Spec

-----------------------------------------------------------------------------
(* Creation times *)

\* The change of a creation time that CreationKept allows for flag k.
CreationChanges(k) ==
  flags[k] # Absent /\ flags'[k] # Absent
    /\ flags'[k].createdAt # flags[k].createdAt =>
  \E c \in Calls :
    /\ effect'[c] /\ ~ effect[c] /\ ask[c].key = k
    /\ \/ ask[c].op = "create"
       \/ ask[c].op = "update" /\ old[c] # flags[k].createdAt

LEMMA CreationStep ==
  ASSUME TypeOK, CallInv, NEW c \in Calls, Step(c), NEW k \in Keys
  PROVE  CreationChanges(k)
<1>1. ask[c] # NoAsk
  BY DEF Step, Create, RefuseCreate, UpdateAtOnce, UpdateReads, RefuseUpdate,
         UpdateWrites, Delete, Reindex, Fail, Pending, CallInv, CallShape
<1>2. CASE UNCHANGED flags
  BY <1>2 DEF CreationChanges
<1>3. CASE ask[c].key # k /\ \E f : Put(c, f)
  <2>1. flags'[k] = flags[k]
    BY <1>1, <1>3, PutFlags
  <2> QED
    BY <2>1 DEF CreationChanges
<1>4. CASE ask[c].key = k /\ Create(c)
  <2>1. ask[c].op = "create" /\ ~ effect[c]
    BY <1>4 DEF Create, CallInv, CallShape
  <2>2. effect'[c]
    BY <1>1, <1>4, PutCalls DEF Create
  <2> QED
    BY <1>4, <2>1, <2>2 DEF CreationChanges
<1>5. CASE ask[c].key = k /\ UpdateAtOnce(c)
  <2>1. flags'[k] = Updated(c)
    BY <1>1, <1>5, PutCalls DEF UpdateAtOnce
  <2>2. Updated(c).createdAt = flags[k].createdAt
    BY <1>1, <1>5, UpdatedType DEF UpdateAtOnce, Current
  <2> QED
    BY <2>1, <2>2 DEF CreationChanges
<1>6. CASE ask[c].key = k /\ UpdateWrites(c) /\ Put(c, Replacement(c))
  <2>1. ask[c].op = "update" /\ ~ effect[c]
    BY <1>6 DEF UpdateWrites, CallInv, CallShape
  <2>2. effect'[c] /\ flags'[k] = Replacement(c)
    BY <1>1, <1>6, PutCalls
  <2>3. flags'[k].createdAt = old[c]
    BY <2>2 DEF Replacement
  <2> QED
    BY <1>6, <2>1, <2>2, <2>3 DEF CreationChanges
<1>7. CASE ask[c].key = k /\ Delete(c)
  <2>1. flags'[k] = Absent
    BY <1>1, <1>7, PutCalls DEF Delete
  <2> QED
    BY <2>1 DEF CreationChanges
<1> QED
  BY <1>2, <1>3, <1>4, <1>5, <1>6, <1>7
  DEF Step, Create, RefuseCreate, UpdateAtOnce, UpdateReads, RefuseUpdate,
      UpdateWrites, Delete, Reindex, Fail, storeVars

\* A flag that stays there keeps its creation time but for a create, or an
\* update that read an earlier flag.
THEOREM CreationStays == Spec => CreationKept
<1>1. Init => TypeOK /\ CallInv
  BY TypeInit, CallInit
<1>2. TypeOK /\ CallInv /\ [Next]_vars => (TypeOK /\ CallInv)'
  BY TypeStep, CallStep
<1>3. TypeOK /\ CallInv /\ [Next]_vars => [ \A k \in Keys : CreationChanges(k) ]_vars
  <2> SUFFICES ASSUME TypeOK, CallInv, Next, NEW k \in Keys
               PROVE  CreationChanges(k)
    BY DEF vars
  <2>1. ASSUME UNCHANGED flags
        PROVE  CreationChanges(k)
    BY <2>1 DEF CreationChanges
  <2>2. ASSUME NEW c \in Calls, Invoke(c) \/ Deliver(c) \/ GiveUp(c)
        PROVE  CreationChanges(k)
    BY <2>1, <2>2 DEF Invoke, Deliver, GiveUp, storeVars
  <2>3. CASE Quiet
    BY <2>1, <2>3 DEF Quiet, vars, storeVars
  <2> QED
    BY <2>2, <2>3, CreationStep DEF Next
<1>4. [ \A k \in Keys : CreationChanges(k) ]_vars
        => [ \A k \in Keys :
               flags[k] # Absent /\ flags'[k] # Absent
                 /\ flags'[k].createdAt # flags[k].createdAt =>
               \E c \in Calls :
                 /\ effect'[c] /\ ~ effect[c] /\ ask[c].key = k
                 /\ \/ ask[c].op = "create"
                    \/ ask[c].op = "update" /\ old[c] # flags[k].createdAt ]_vars
  BY DEF CreationChanges
<1> QED
  BY <1>1, <1>2, <1>3, <1>4, PTL DEF Spec, CreationKept

-----------------------------------------------------------------------------
(* The registry *)

Body == [k \in Keys |-> IF flags[k] = Absent THEN Absent ELSE flags[k].body]

Stages == [c \in Calls |-> Stage(c)]

Policy == [createReplaces |-> CreateReplaces, resurrects |-> backend = "redis"]

\* What a call is open for.
LEMMA OpenPending ==
  ASSUME TypeOK, NEW c \in Calls
  PROVE  Stage(c) = "open" <=> Pending(c) /\ ~ effect[c]
BY DEF TypeOK, PCs, Stage, Pending

\* What is defined, and what a write of one flag makes of it.
LEMMA BodyDefined ==
  ASSUME TypeOK, NEW k \in Keys
  PROVE  /\ Body[k] = IF flags[k] = Absent THEN Absent ELSE flags[k].body
         /\ Body[k] = Absent <=> flags[k] = Absent
<1>1. flags[k] \in Flag \cup {Absent}
  BY DEF TypeOK
<1> QED
  BY <1>1, FlagParts DEF Body

LEMMA BodyPut ==
  ASSUME TypeOK, NEW c \in Calls, ask[c] # NoAsk, NEW f, Put(c, f),
         NEW b, b = IF f = Absent THEN Absent ELSE f.body
  PROVE  Body' = [Body EXCEPT ![ask[c].key] = b]
<1>1. ask[c].key \in Keys
  BY AskParts
<1>2. \A k \in Keys : flags'[k] = IF k = ask[c].key THEN f ELSE flags[k]
  BY PutFlags
<1> QED
  BY <1>1, <1>2 DEF Body

\* A step of one call moves its stage only.
LEMMA StageMoves ==
  ASSUME NEW c \in Calls, NEW x, Stage(c)' = x,
         \A d \in Calls \ {c} : pc'[d] = pc[d] /\ effect'[d] = effect[d]
  PROVE  Stages' = [Stages EXCEPT ![c] = x]
<1>1. \A d \in Calls \ {c} : Stage(d)' = Stage(d)
  BY DEF Stage
<1> QED
  BY <1>1 DEF Stages

\* The calls that see a flag that is written.
Seen(k) == [d \in Calls |-> found[d] \/ (Stage(d) = "open" /\ ask[d].key = k)]

LEMMA FoundPut ==
  ASSUME TypeOK, NEW c \in Calls, ask[c] # NoAsk, NEW f, Put(c, f)
  PROVE  /\ f # Absent => found' = Seen(ask[c].key)
         /\ f = Absent => found' = found
<1>1. found' = [d \in Calls |->
        found[d] \/ (f # Absent /\ Pending(d) /\ ~ effect[d]
                      /\ ask[d].key = ask[c].key)]
  BY DEF Put
<1>2. found \in [Calls -> BOOLEAN]
  BY DEF TypeOK
<1>3. ASSUME f # Absent
      PROVE  found' = Seen(ask[c].key)
  <2>1. \A d \in Calls : (Stage(d) = "open") = (Pending(d) /\ ~ effect[d])
    BY OpenPending, Zenon
  <2>2. found' = [d \in Calls |->
          found[d] \/ (Pending(d) /\ ~ effect[d] /\ ask[d].key = ask[c].key)]
    BY <1>1, <1>3, Zenon
  <2>3. \A d \in Calls :
          (found[d] \/ (Pending(d) /\ ~ effect[d] /\ ask[d].key = ask[c].key))
            = (found[d] \/ (Stage(d) = "open" /\ ask[d].key = ask[c].key))
    BY <2>1, Zenon
  <2> QED
    BY <2>2, <2>3, Zenon DEF Seen
<1>4. ASSUME f = Absent
      PROVE  found' = found
  <2>1. found' = [d \in Calls |-> found[d]]
    <3>1. \A d \in Calls :
            (found[d] \/ (f # Absent /\ Pending(d) /\ ~ effect[d]
                           /\ ask[d].key = ask[c].key)) = found[d]
      BY <1>2, <1>4
    <3> QED
      BY <1>1, <3>1, Zenon
  <2> QED
    BY <1>2, <2>1
<1> QED
  BY <1>3, <1>4

\* All of them saw it already when it was there before.
LEMMA FoundBefore ==
  ASSUME TypeOK, CallInv, NEW k \in Keys, flags[k] # Absent
  PROVE  Seen(k) = found
<1>1. found \in [Calls -> BOOLEAN]
  BY DEF TypeOK
<1>2. \A d \in Calls : Stage(d) = "open" /\ ask[d].key = k => found[d]
  BY OpenPending DEF CallInv, SeesItsFlag, Current
<1>3. \A d \in Calls :
        (found[d] \/ (Stage(d) = "open" /\ ask[d].key = k)) = found[d]
  BY <1>1, <1>2
<1>4. Seen(k) = [d \in Calls |-> found[d]]
  BY <1>3, Zenon DEF Seen
<1> QED
  BY <1>1, <1>4

LEMMA RegistryInit == Init => Registry!RegistryInit
<1> SUFFICES ASSUME Init
             PROVE  Registry!RegistryInit
  OBVIOUS
<1>1. TypeOK /\ \A c \in Calls : pc[c] = "idle"
  BY TypeInit DEF Init
<1>2. Body \in [Keys -> Bodies \cup {Absent}]
  <2>1. \A k \in Keys : Body[k] \in Bodies \cup {Absent}
    <3> TAKE k \in Keys
    <3>1. flags[k] \in Flag \cup {Absent}
      BY <1>1 DEF TypeOK
    <3> QED
      BY <1>1, <3>1, BodyDefined, FlagParts
  <2> QED
    BY <2>1 DEF Body
<1>3. Stages = [c \in Calls |-> "idle"]
  BY <1>1 DEF Stages, Stage
<1>4. Policy \in [createReplaces : BOOLEAN, resurrects : BOOLEAN]
  BY DEF Policy, CreateReplaces
<1> QED
  BY <1>2, <1>3, <1>4
  DEF Init, Registry!RegistryInit, Registry!Policies, Body, Stages, Policy

\* Invoke is Invoke.
LEMMA RegistryInvoke ==
  ASSUME TypeOK, CallInv, NEW c \in Calls, Invoke(c)
  PROVE  Registry!Invoke(c)
<1>1. PICK a \in Asks :
        /\ ask' = [ask EXCEPT ![c] = a]
        /\ found' = [found EXCEPT ![c] = flags[a.key] # Absent]
  BY DEF Invoke
<1>2. a.key \in Keys
  BY <1>1 DEF Asks
<1>3. Stages[c] = "idle"
  BY DEF Invoke, Stages, Stage
<1>4. (flags[a.key] # Absent) = (Body[a.key] # Absent)
  BY <1>2, BodyDefined
<1>5. found' = [found EXCEPT ![c] = Body[a.key] # Absent]
  BY <1>1, <1>4, Zenon
<1>6. /\ pc'[c] = "run" /\ ~ effect[c]
      /\ \A d \in Calls \ {c} : pc'[d] = pc[d]
      /\ UNCHANGED << flags, effect, reply >>
  BY DEF Invoke, TypeOK, CallInv, CallShape, storeVars
<1>7. Stages' = [Stages EXCEPT ![c] = "open"]
  <2>1. Stage(c)' = "open"
    BY <1>6 DEF Stage
  <2> QED
    BY <1>6, <2>1, StageMoves
<1>8. Body' = Body
  BY <1>6 DEF Body
<1>9. a \in Registry!Asks
  BY DEF Registry!Asks, Asks
<1>10. \E x \in Registry!Asks :
         /\ ask' = [ask EXCEPT ![c] = x]
         /\ found' = [found EXCEPT ![c] = Body[x.key] # Absent]
  BY <1>1, <1>5, <1>9, Zenon
<1> QED
  BY <1>3, <1>6, <1>7, <1>8, <1>10 DEF Registry!Invoke, Body, Stages

\* The stage of a call that is open, and of one that has just written.
LEMMA StageOfWrite ==
  ASSUME TypeOK, CallInv, NEW c \in Calls, pc[c] \in {"run", "write"},
         effect' = [effect EXCEPT ![c] = TRUE], pc'[c] # "idle",
         \A d \in Calls \ {c} : pc'[d] = pc[d]
  PROVE  /\ Stages[c] = "open"
         /\ Stages' = [Stages EXCEPT ![c] = "applied"]
<1>1. Stages[c] = "open"
  BY DEF CallInv, CallShape, Stages, Stage
<1>2. DOMAIN effect = Calls
  BY DEF TypeOK
<1>3. effect'[c] = TRUE /\ \A d \in Calls \ {c} : effect'[d] = effect[d]
  BY <1>2
<1>4. Stage(c)' = "applied"
  BY <1>3 DEF Stage
<1>5. \A d \in Calls \ {c} : pc'[d] = pc[d] /\ effect'[d] = effect[d]
  BY <1>3
<1>6. Stages' = [Stages EXCEPT ![c] = "applied"]
  BY <1>4, <1>5, StageMoves
<1> QED
  BY <1>1, <1>6

\* The writes are the registry's create, update and delete; an update that
\* reads first may be overtaken.
LEMMA RegistryWrite ==
  ASSUME TypeOK, CallInv, NEW c \in Calls,
         Create(c) \/ UpdateAtOnce(c) \/ UpdateWrites(c) \/ Delete(c)
  PROVE  Registry!Create(c) \/ Registry!Update(c) \/ Registry!Overtaken(c)
         \/ Registry!Delete(c)
<1>1. ask[c] # NoAsk /\ pc[c] \in {"run", "write"}
  BY DEF CallInv, CallShape, Create, UpdateAtOnce, UpdateWrites, Delete
<1>2. ask[c].key \in Keys
  BY <1>1, AskParts
<1>3. /\ UNCHANGED << ask, reply >>
      /\ effect' = [effect EXCEPT ![c] = TRUE]
      /\ pc'[c] # "idle"
      /\ \A d \in Calls \ {c} : pc'[d] = pc[d]
  BY DEF Create, UpdateAtOnce, UpdateWrites, Delete, Put, Finish, TypeOK
<1>4. Stages[c] = "open" /\ Stages' = [Stages EXCEPT ![c] = "applied"]
  BY <1>1, <1>3, StageOfWrite
<1>5. Registry!Take(c)
  BY <1>3, <1>4 DEF Registry!Take, Registry!Open, Stages
<1>6. Registry!Found(ask[c].key) = Seen(ask[c].key)
  BY DEF Registry!Found, Registry!Open, Seen, Stages
<1>7. Body[ask[c].key] = Absent <=> Current(c) = Absent
  BY <1>2, BodyDefined DEF Current
<1>8. Current(c) # Absent => Seen(ask[c].key) = found
  BY <1>2, FoundBefore DEF Current
<1>9. CASE Create(c)
  <2>1. Created(c) \in Flag /\ Created(c) # Absent /\ Put(c, Created(c))
    BY <1>1, <1>9, CreatedType, FlagParts DEF Create
  <2>2. Body' = [Body EXCEPT ![ask[c].key] = ask[c].body]
    BY <1>1, <2>1, BodyPut DEF Created
  <2>3. found' = Registry!Found(ask[c].key)
    BY <1>1, <1>6, <2>1, FoundPut
  <2>4. ask[c].op = "create" /\ (CreateReplaces \/ Body[ask[c].key] = Absent)
    BY <1>7, <1>9 DEF Create
  <2>5. Registry!Create(c)
    BY <1>5, <2>2, <2>3, <2>4 DEF Registry!Create, Body
  <2> QED
    BY <2>5
<1>10. CASE UpdateAtOnce(c)
  <2>1. /\ Updated(c) \in Flag /\ Updated(c) # Absent /\ Put(c, Updated(c))
        /\ Updated(c).body = ask[c].body /\ Current(c) # Absent
    BY <1>1, <1>10, UpdatedType, FlagParts DEF UpdateAtOnce
  <2>2. Body' = [Body EXCEPT ![ask[c].key] = ask[c].body]
    BY <1>1, <2>1, BodyPut
  <2>3. found' = found
    BY <1>1, <1>8, <2>1, FoundPut
  <2>4. ask[c].op = "update" /\ Body[ask[c].key] # Absent
    BY <1>7, <1>10 DEF UpdateAtOnce
  <2>5. Registry!Update(c)
    BY <1>5, <2>2, <2>3, <2>4 DEF Registry!Update, Body
  <2> QED
    BY <2>5
<1>11. CASE UpdateWrites(c)
  <2>1. ask[c].op = "update" /\ found[c] /\ backend # "postgres"
    BY <1>11 DEF UpdateWrites, CallInv, CallShape, ReadsFirst
  <2>2. CASE MatchesNothing(c)
    <3>1. UNCHANGED << flags, found >> /\ Current(c) = Absent /\ backend # "redis"
      BY <1>11, <2>2 DEF UpdateWrites, MatchesNothing
    <3>2. Body' = Body /\ Body[ask[c].key] = Absent
      BY <1>7, <3>1 DEF Body
    <3>3. Registry!Overtaken(c)
      BY <1>5, <2>1, <3>1, <3>2 DEF Registry!Overtaken, Body
    <3> QED
      BY <3>3
  <2>3. CASE ~ MatchesNothing(c)
    <3>1. /\ Replacement(c) \in Flag /\ Replacement(c) # Absent
          /\ Put(c, Replacement(c)) /\ Replacement(c).body = ask[c].body
      BY <1>1, <1>11, <2>1, <2>3, ReplacementType, FlagParts
      DEF UpdateWrites, Replacement
    <3>2. Body' = [Body EXCEPT ![ask[c].key] = ask[c].body]
      BY <1>1, <3>1, BodyPut
    <3>3. found' = Seen(ask[c].key)
      BY <1>1, <3>1, FoundPut
    <3>4. CASE Current(c) # Absent
      <4>1. found' = found /\ Body[ask[c].key] # Absent
        BY <1>7, <1>8, <3>3, <3>4
      <4>2. Registry!Update(c)
        BY <1>5, <2>1, <3>2, <4>1 DEF Registry!Update, Body
      <4> QED
        BY <4>2
    <3>5. CASE Current(c) = Absent
      <4>1. backend = "redis"
        BY <2>1, <2>3, <3>5, BackendsAssumption DEF MatchesNothing, TypeOK
      <4>2. Body[ask[c].key] = Absent /\ found' = Registry!Found(ask[c].key)
        BY <1>6, <1>7, <3>3, <3>5
      <4>3. Registry!Overtaken(c)
        BY <1>5, <2>1, <3>2, <4>1, <4>2 DEF Registry!Overtaken, Body
      <4> QED
        BY <4>3
    <3> QED
      BY <3>4, <3>5
  <2> QED
    BY <2>2, <2>3
<1>12. CASE Delete(c)
  <2>1. ask[c].op = "delete" /\ Put(c, Absent)
    BY <1>12 DEF Delete
  <2>2. Body' = [Body EXCEPT ![ask[c].key] = Absent]
    BY <1>1, <2>1, BodyPut
  <2>3. found' = found
    BY <1>1, <2>1, FoundPut
  <2>4. Registry!Delete(c)
    BY <1>5, <2>1, <2>2, <2>3 DEF Registry!Delete, Body
  <2> QED
    BY <2>4
<1> QED
  BY <1>9, <1>10, <1>11, <1>12

\* A call that ends without having written is dropped; the other steps of the
\* module change nothing the registry knows.
LEMMA RegistryRest ==
  ASSUME TypeOK, CallInv, NEW c \in Calls,
         RefuseCreate(c) \/ RefuseUpdate(c) \/ UpdateReads(c) \/ Reindex(c) \/ Fail(c)
  PROVE  Registry!Drop(c) \/ UNCHANGED Registry!registryVars
<1>1. /\ UNCHANGED << backend, flags, effect, found, ask, reply >>
      /\ Pending(c) /\ ask[c] # NoAsk /\ pc'[c] # "idle"
      /\ \A d \in Calls \ {c} : pc'[d] = pc[d]
  BY DEF RefuseCreate, RefuseUpdate, UpdateReads, Reindex, Fail, Finish, TypeOK,
         Pending, storeVars, CallInv, CallShape
<1>2. Body' = Body /\ Policy' = Policy
  BY <1>1 DEF Body, Policy, CreateReplaces
<1>3. CASE effect[c] \/ UpdateReads(c)
  <2>1. Stage(c)' = Stage(c)
    <3>1. CASE effect[c]
      BY <1>1, <3>1 DEF Stage, Pending
    <3>2. CASE UpdateReads(c)
      <4>1. pc[c] = "run" /\ pc'[c] = "write"
        BY <3>2 DEF UpdateReads, TypeOK
      <4> QED
        BY <1>1, <4>1 DEF Stage
    <3> QED
      BY <1>3, <3>1, <3>2
  <2>2. \A d \in Calls : Stage(d)' = Stage(d)
    BY <1>1, <2>1 DEF Stage
  <2>3. Stages' = Stages
    BY <2>2 DEF Stages
  <2>4. UNCHANGED Registry!registryVars
    BY <1>1, <1>2, <2>3 DEF Registry!registryVars, Body, Stages, Policy
  <2> QED
    BY <2>4
<1>4. CASE ~ effect[c] /\ ~ UpdateReads(c)
  <2>1. ~ Reindex(c)
    BY <1>4 DEF Reindex, CallInv, CallShape
  <2>2. pc'[c] = "done"
    BY <1>4, <2>1, FinishParts DEF RefuseCreate, RefuseUpdate, Fail
  <2>3. Stage(c) = "open" /\ Stage(c)' = "dropped"
    BY <1>1, <1>4, <2>2, OpenPending DEF Stage
  <2>4. Stages[c] = "open" /\ Stages' = [Stages EXCEPT ![c] = "dropped"]
    BY <1>1, <2>3, StageMoves DEF Stages
  <2>5. Body[ask[c].key] = Absent <=> Current(c) = Absent
    BY <1>1, AskParts, BodyDefined DEF Current
  <2>6. \/ HasFaults
        \/ /\ ask[c].op = "create" /\ Body[ask[c].key] # Absent
           /\ ~ CreateReplaces
        \/ ask[c].op = "update" /\ Body[ask[c].key] = Absent
    BY <1>4, <2>1, <2>5 DEF RefuseCreate, RefuseUpdate, Fail
  <2>7. Registry!Drop(c)
    BY <1>1, <1>2, <2>4, <2>6 DEF Registry!Drop, Registry!Open, Body, Stages
  <2> QED
    BY <2>7
<1> QED
  BY <1>3, <1>4

\* A success is answered only by a call that has written; an error by one that
\* was dropped, or under faults.
LEMMA RegistryAnswer ==
  ASSUME TypeOK, CallInv, NEW c \in Calls, Deliver(c) \/ GiveUp(c)
  PROVE  Registry!AnswerOk(c) \/ Registry!AnswerError(c)
<1>1. /\ UNCHANGED << backend, flags, effect, found, ask, pc >>
      /\ reply[c] = "none" /\ pc[c] # "idle"
  BY DEF Deliver, GiveUp, storeVars, callVars
<1>2. Body' = Body /\ Stages' = Stages
  BY <1>1 DEF Body, Stages, Stage
<1>3. Stages[c] = Stage(c)
  BY DEF Stages
<1>4. CASE Deliver(c) /\ result[c] = "ok"
  <2>1. reply' = [reply EXCEPT ![c] = "ok"]
    BY <1>4 DEF Deliver
  <2>2. Stages[c] = "applied"
    BY <1>1, <1>3, <1>4 DEF CallInv, CallShape, Stage
  <2>3. Registry!AnswerOk(c)
    BY <1>1, <1>2, <2>1, <2>2 DEF Registry!AnswerOk, Body, Stages
  <2> QED
    BY <2>3
<1>5. CASE (Deliver(c) /\ result[c] # "ok") \/ GiveUp(c)
  <2>1. reply' = [reply EXCEPT ![c] = "error"]
    BY <1>5 DEF Deliver, GiveUp, CallInv, CallShape
  <2>2. Stages[c] = "dropped" \/ (HasFaults /\ Stages[c] # "idle")
    <3>1. CASE GiveUp(c)
      BY <1>1, <1>3, <3>1 DEF GiveUp, Stage
    <3>2. CASE Deliver(c) /\ result[c] # "ok"
      <4>1. pc[c] = "done" /\ result[c] = "error"
        BY <3>2 DEF Deliver, CallInv, CallShape
      <4>2. effect[c] => HasFaults
        BY <4>1 DEF CallInv, CallShape
      <4> QED
        BY <1>3, <4>1, <4>2 DEF Stage
    <3> QED
      BY <1>5, <3>1, <3>2
  <2>3. Registry!AnswerError(c)
    BY <1>1, <1>2, <2>1, <2>2 DEF Registry!AnswerError, Body, Stages
  <2> QED
    BY <2>3
<1> QED
  BY <1>4, <1>5

\* Every step is a step of the registry or leaves it as it is.
LEMMA RegistryStep ==
  ASSUME TypeOK, CallInv, [Next]_vars
  PROVE  [Registry!RegistryNext]_(Registry!registryVars)
<1>1. CASE UNCHANGED vars
  <2>1. Body' = Body /\ Stages' = Stages /\ Policy' = Policy
    BY <1>1 DEF vars, storeVars, callVars, Body, Stages, Stage, Policy, CreateReplaces
  <2> QED
    BY <1>1, <2>1 DEF vars, storeVars, callVars, Registry!registryVars, Body, Stages,
                      Policy
<1>2. ASSUME NEW c \in Calls, Invoke(c) \/ Step(c) \/ Deliver(c) \/ GiveUp(c)
      PROVE  [Registry!RegistryNext]_(Registry!registryVars)
  <2>1. backend' = backend
    BY <1>2 DEF Invoke, Step, Deliver, GiveUp, Create, RefuseCreate, UpdateAtOnce,
       UpdateReads, RefuseUpdate, UpdateWrites, Delete, Reindex, Fail, storeVars
  <2>2. Policy' = Policy
    BY <2>1 DEF Policy, CreateReplaces
  <2>3. \/ Registry!Invoke(c) \/ Registry!Drop(c)
        \/ Registry!AnswerOk(c) \/ Registry!AnswerError(c)
        \/ Registry!Create(c) \/ Registry!Update(c) \/ Registry!Overtaken(c)
        \/ Registry!Delete(c)
        \/ UNCHANGED Registry!registryVars
    BY <1>2, RegistryInvoke, RegistryWrite, RegistryRest, RegistryAnswer DEF Step
  <2> QED
    BY <2>2, <2>3 DEF Registry!RegistryNext, Policy
<1> QED
  BY <1>1, <1>2 DEF Next, Quiet

\* Each module, over HTTP and gRPC, is the abstract registry: each call takes
\* effect in one step, at most once, and a success is answered only if it did.
THEOREM Implements == Spec => ImplementsRegistry
<1>1. Init => TypeOK /\ CallInv
  BY TypeInit, CallInit
<1>2. TypeOK /\ CallInv /\ [Next]_vars => (TypeOK /\ CallInv)'
  BY TypeStep, CallStep
<1>3. TypeOK /\ CallInv /\ [Next]_vars => [Registry!RegistryNext]_(Registry!registryVars)
  BY RegistryStep
<1> QED
  BY <1>1, <1>2, <1>3, RegistryInit, PTL
  DEF Spec, ImplementsRegistry, Registry!RegistrySpec

=============================================================================

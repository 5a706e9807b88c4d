-------------------------- MODULE EvaluationProofs --------------------------
(***************************************************************************)
(* Proofs about Evaluation, for any sets of tenants, subjects, keys,       *)
(* requests and definitions, any rules and rollouts, with or without       *)
(* failures and with or without an assignment store.                       *)
(***************************************************************************)
EXTENDS Evaluation, TLAPS

-----------------------------------------------------------------------------
(* The rules *)

\* Whatever the rules answer for a key is a result for that key, with reason
\* rule_match or default.
LEMMA OutcomesType ==
  ASSUME NEW d \in FlagDefinition, NEW t, NEW k \in Keys, NEW s, NEW c
  PROVE  \A o \in Outcomes(d, t, k, s, c) :
           /\ o \in EvaluationResult
           /\ o.key = k
           /\ o.reason \in {"rule_match", "default"}
<1> SUFFICES ASSUME NEW o \in Outcomes(d, t, k, s, c)
             PROVE  /\ o \in EvaluationResult
                    /\ o.key = k
                    /\ o.reason \in {"rule_match", "default"}
  OBVIOUS
<1>1. CASE \E i \in DOMAIN d.rules :
             o = Result(k, TRUE, d.rules[i].variant, "rule_match")
  <2>1. PICK i \in DOMAIN d.rules :
             o = Result(k, TRUE, d.rules[i].variant, "rule_match")
    BY <1>1
  <2>2. d.rules \in Seq(Rule)
    BY DEF FlagDefinition
  <2>3. d.rules[i] \in Rule
    BY <2>1, <2>2
  <2>4. d.rules[i].variant \in Variants
    BY <2>3 DEF Rule
  <2> QED
    BY <2>1, <2>4 DEF Result, EvaluationResult, Reasons
<1>2. CASE o = Result(k, d.defaultResult.enabled, d.defaultResult.variant,
                      "default")
  <2>1. d.defaultResult \in EvalResult
    BY DEF FlagDefinition
  <2> QED
    BY <1>2, <2>1 DEF Result, EvaluationResult, EvalResult, Reasons
<1> QED
  BY <1>1, <1>2 DEF Outcomes

\* What evaluate answers at once for a flag is a result for that key, and
\* never an error or a persisted one.
LEMMA ImmediateType ==
  ASSUME NEW r \in Requests, CurrentKey(r) \in Keys,
         NEW d \in Definitions \cup {NoFlag}, NEW res \in Immediate(r, d)
  PROVE  /\ res \in EvaluationResult
         /\ res.key = CurrentKey(r)
         /\ res.reason \notin {"error", "persisted"}
<1>0. d # NoFlag => d \in FlagDefinition
  BY DefinitionsAssumption
<1>1. CASE d = NoFlag
  <2>1. res = Result(CurrentKey(r), FALSE, NoVariant, "not_found")
    BY <1>1 DEF Immediate
  <2> QED
    BY <2>1, VariantAssumption DEF Result, EvaluationResult, Reasons
<1>2. CASE d # NoFlag /\ ~ d.enabled
  <2>1. res = Result(CurrentKey(r), FALSE, NoVariant, "disabled")
    BY <1>2 DEF Immediate
  <2> QED
    BY <2>1, VariantAssumption DEF Result, EvaluationResult, Reasons
<1>3. CASE d # NoFlag /\ d.enabled
  <2>1. PICK o \in Evaluated(r, d) :
          res = Result(o.key, o.enabled, o.variant,
                       IF d.semantics = "persistent" THEN "no_persistence"
                                                     ELSE o.reason)
    BY <1>3 DEF Immediate
  <2>2. /\ o \in EvaluationResult
        /\ o.key = CurrentKey(r)
        /\ o.reason \in {"rule_match", "default"}
    BY <2>1, <1>0, <1>3, OutcomesType DEF Evaluated
  <2> QED
    BY <2>1, <2>2 DEF EvaluationResult, Reasons, Result
<1> QED
  BY <1>1, <1>2, <1>3

-----------------------------------------------------------------------------
(* Types and control *)

RequestOK(r) ==
  /\ pc[r] # "idle" => input[r] \in Inputs
  /\ pc[r] \in {"idle", "rejected"} => results[r] = << >>
  /\ Active(r) => Len(results[r]) < Len(input[r].keys)
  /\ pc[r] = "done" => Len(results[r]) = Len(input[r].keys)
  /\ pc[r] \in {"assignment", "save"} =>
       flag[r] \in Definitions /\ NeedsAssignment(flag[r])
  /\ pc[r] = "save" => computed[r] \in Evaluated(r, flag[r])

ControlInv == TypeOK /\ \A r \in Requests : RequestOK(r)

\* The request that is served asks for a key of its input.
LEMMA CurrentKeyType ==
  ASSUME ControlInv, NEW r \in Requests, Active(r)
  PROVE  /\ input[r] \in Inputs
         /\ input[r] \in RequestInput
         /\ CurrentKey(r) \in Keys
         /\ Position(r) \in Nat
         /\ Position(r) \in 1 .. Len(input[r].keys)
<1>1. input[r] \in Inputs /\ Len(results[r]) < Len(input[r].keys)
  BY DEF ControlInv, RequestOK, Active
<1>2. input[r] \in RequestInput
  BY <1>1, InputsAssumption
<1>3. input[r].keys \in Seq(Keys)
  BY <1>2 DEF RequestInput
<1>4. results[r] \in Seq(EvaluationResult)
  BY DEF ControlInv, TypeOK
<1>5. Len(results[r]) \in Nat /\ Len(input[r].keys) \in Nat
  BY <1>3, <1>4
<1>6. Position(r) \in 1 .. Len(input[r].keys)
  BY <1>1, <1>5 DEF Position
<1>7. CurrentKey(r) \in Keys
  BY <1>3, <1>6 DEF CurrentKey
<1> QED
  BY <1>1, <1>2, <1>5, <1>6, <1>7

\* Returning a result keeps the types and the control of the request.
LEMMA ReturnControl ==
  ASSUME ControlInv, NEW r \in Requests, Active(r),
         NEW res \in EvaluationResult, Return(r, res)
  PROVE  /\ pc' \in [Requests -> PCs]
         /\ input' \in [Requests -> Inputs \cup {NoInput}]
         /\ flag' \in [Requests -> Definitions \cup {NoFlag}]
         /\ computed' \in [Requests -> EvaluationResult \cup {NoAssignment}]
         /\ results' \in [Requests -> Seq(EvaluationResult)]
         /\ \A q \in Requests : RequestOK(q)'
<1>1. /\ pc \in [Requests -> PCs]
      /\ input \in [Requests -> Inputs \cup {NoInput}]
      /\ flag \in [Requests -> Definitions \cup {NoFlag}]
      /\ computed \in [Requests -> EvaluationResult \cup {NoAssignment}]
      /\ results \in [Requests -> Seq(EvaluationResult)]
  BY DEF ControlInv, TypeOK
<1>2. Append(results[r], res) \in Seq(EvaluationResult)
  BY <1>1
<1>3. /\ pc' \in [Requests -> PCs]
      /\ input' \in [Requests -> Inputs \cup {NoInput}]
      /\ flag' \in [Requests -> Definitions \cup {NoFlag}]
      /\ computed' \in [Requests -> EvaluationResult \cup {NoAssignment}]
      /\ results' \in [Requests -> Seq(EvaluationResult)]
  BY <1>1, <1>2 DEF Return, PCs
<1>4. ASSUME NEW q \in Requests
      PROVE  RequestOK(q)'
  <2>1. CASE q = r
    <3>1. /\ pc'[r] = IF Position(r) < Len(input[r].keys)
                      THEN "flag" ELSE "done"
          /\ results'[r] = Append(results[r], res)
          /\ input'[r] = input[r]
      BY <1>1 DEF Return
    <3>2. /\ results[r] \in Seq(EvaluationResult)
          /\ Len(results'[r]) = Len(results[r]) + 1
      BY <1>1, <3>1
    <3>3. /\ Position(r) \in 1 .. Len(input[r].keys)
          /\ input[r] \in Inputs
          /\ input[r].keys \in Seq(Keys)
      BY CurrentKeyType DEF RequestInput
    <3>4. Position(r) = Len(results'[r]) /\ Len(input[r].keys) \in Nat
      BY <3>2, <3>3 DEF Position
    <3> QED
      BY <2>1, <3>1, <3>3, <3>4 DEF RequestOK, Active
  <2>2. CASE q # r
    <3>1. /\ pc'[q] = pc[q] /\ input'[q] = input[q] /\ flag'[q] = flag[q]
          /\ computed'[q] = computed[q] /\ results'[q] = results[q]
      BY <1>1, <2>2 DEF Return
    <3>2. RequestOK(q)
      BY DEF ControlInv
    <3> QED
      BY <3>1, <3>2 DEF RequestOK, Active, NeedsAssignment, Evaluated,
                        CurrentKey, Position
  <2> QED
    BY <2>1, <2>2
<1> QED
  BY <1>3, <1>4

\* A step that leaves a request alone leaves its control alone.
LEMMA RequestFrame ==
  ASSUME NEW q, RequestOK(q),
         pc'[q] = pc[q], input'[q] = input[q], flag'[q] = flag[q],
         computed'[q] = computed[q], results'[q] = results[q]
  PROVE  RequestOK(q)'
BY DEF RequestOK, Active, NeedsAssignment, Evaluated, CurrentKey, Position

\* Evaluating the rules of the definition that was read, whatever became of the
\* assignment read, keeps types and control.
LEMMA ComputeControl ==
  ASSUME ControlInv, NEW r \in Requests, pc[r] = "assignment", Compute(r)
  PROVE  /\ pc' \in [Requests -> PCs]
         /\ computed' \in [Requests -> EvaluationResult \cup {NoAssignment}]
         /\ \A q \in Requests : RequestOK(q)'
<1>1. /\ pc \in [Requests -> PCs]
      /\ computed \in [Requests -> EvaluationResult \cup {NoAssignment}]
  BY DEF ControlInv, TypeOK
<1>2. PICK res \in Evaluated(r, flag[r]) :
        computed' = [computed EXCEPT ![r] = res]
  BY DEF Compute
<1>3. RequestOK(r) /\ Active(r)
  BY DEF ControlInv, Active
<1>4. flag[r] \in FlagDefinition
  BY <1>3, DefinitionsAssumption DEF RequestOK
<1>5. CurrentKey(r) \in Keys
  BY <1>3, CurrentKeyType
<1>6. res \in EvaluationResult
  BY <1>2, <1>4, <1>5, OutcomesType DEF Evaluated
<1>7. ASSUME NEW q \in Requests
      PROVE  RequestOK(q)'
  <2>1. CASE q = r
    <3>1. /\ pc'[r] = "save" /\ computed'[r] = res
          /\ UNCHANGED << input, flag, results >>
      BY <1>1, <1>2 DEF Compute
    <3> QED
      BY <2>1, <3>1, <1>2, <1>3
         DEF RequestOK, Active, NeedsAssignment, Evaluated, CurrentKey, Position
  <2>2. CASE q # r
    <3>1. pc'[q] = pc[q] /\ computed'[q] = computed[q]
      BY <1>1, <1>2, <2>2 DEF Compute
    <3>2. RequestOK(q) /\ UNCHANGED << input, flag, results >>
      BY DEF ControlInv, Compute
    <3> QED
      BY <3>1, <3>2, RequestFrame
  <2> QED
    BY <2>1, <2>2
<1> QED
  BY <1>1, <1>2, <1>6, <1>7 DEF Compute, PCs

\* What is saved of a result is an answer.
LEMMA AnswerType ==
  ASSUME NEW res \in EvaluationResult
  PROVE  AnswerOf(res) \in EvalResult
BY DEF AnswerOf, EvaluationResult, EvalResult

LEMMA StoredType ==
  ASSUME NEW t \in Tenants, NEW s \in Subjects, NEW k \in Keys,
         NEW a \in EvalResult, Stored(t, s, k, a), TypeOK
  PROVE  /\ assignments' \in [Tenants -> [Subjects -> [Keys ->
                                EvalResult \cup {NoAssignment}]]]
         /\ stored' \in [Tenants -> [Subjects -> [Keys -> SUBSET EvalResult]]]
BY DEF Stored, TypeOK

LEMMA ObserveType ==
  ASSUME NEW t \in Tenants, NEW k \in Keys,
         NEW d \in Definitions \cup {NoFlag}, Observe(t, k, d), TypeOK
  PROVE  /\ defined' \in [Tenants -> [Keys -> SUBSET Definitions]]
         /\ window' \in [Requests -> [Keys -> SUBSET (Definitions \cup {NoFlag})]]
BY DEF Observe, TypeOK

\* A result that is being saved is one, for the current key.
LEMMA SavedType ==
  ASSUME ControlInv, NEW r \in Requests, pc[r] = "save"
  PROVE  /\ computed[r] \in EvaluationResult
         /\ computed[r].key = CurrentKey(r)
         /\ computed[r].reason \in {"rule_match", "default"}
         /\ AnswerOf(computed[r]) \in EvalResult
<1>1. RequestOK(r) /\ Active(r)
  BY DEF ControlInv, Active
<1>2. flag[r] \in FlagDefinition /\ computed[r] \in Evaluated(r, flag[r])
  BY <1>1, DefinitionsAssumption DEF RequestOK
<1>3. CurrentKey(r) \in Keys
  BY <1>1, CurrentKeyType
<1> QED
  BY <1>2, <1>3, OutcomesType, AnswerType DEF Evaluated

\* Giving up the request's save leaves a well-typed late save.
LEMMA LateSaveType ==
  ASSUME ControlInv, NEW r \in Requests, pc[r] = "save"
  PROVE  [by |-> r, at |-> Position(r),
          tenant |-> input[r].tenant, subject |-> input[r].subject,
          key |-> CurrentKey(r), answer |-> AnswerOf(computed[r])] \in LateSave
<1>1. Position(r) \in Nat
  BY DEF ControlInv, TypeOK, Position
<1> QED
  BY <1>1, CurrentKeyType, SavedType DEF LateSave, Active, RequestInput

LEMMA ControlInit == Init => ControlInv
BY DEF Init, ControlInv, TypeOK, RequestOK, Active, PCs

\* Every step of the specification keeps types and control.
LEMMA ControlStep == ControlInv /\ [Next]_vars => ControlInv'
<1> SUFFICES ASSUME ControlInv, [Next]_vars
             PROVE  ControlInv'
  OBVIOUS
<1> USE DEF persistenceVars, requestVars, historyVars
<1>0. TypeOK /\ \A q \in Requests : RequestOK(q)
  BY DEF ControlInv
<1>1. ASSUME NEW r \in Requests, Begin(r)
      PROVE  ControlInv'
  <2>1. PICK in \in Inputs :
          /\ in.keys # << >>
          /\ input' = [input EXCEPT ![r] = in]
          /\ window' = [window EXCEPT ![r] = [k \in Keys |-> {flags[in.tenant][k]}]]
    BY <1>1 DEF Begin
  <2>2. in.tenant \in Tenants /\ in.keys \in Seq(Keys)
    BY InputsAssumption DEF RequestInput
  <2>3. TypeOK'
    BY <1>0, <1>1, <2>1, <2>2 DEF Begin, TypeOK, PCs
  <2>4. ASSUME NEW q \in Requests
        PROVE  RequestOK(q)'
    <3>1. CASE q = r
      <4>1. /\ pc'[r] = "flag" /\ input'[r] = in
            /\ results'[r] = << >> /\ pc[r] = "idle"
        BY <1>0, <1>1, <2>1 DEF Begin, TypeOK, RequestOK
      <4>2. Len(in.keys) > 0
        BY <2>1, <2>2
      <4> QED
        BY <3>1, <4>1, <4>2 DEF RequestOK, Active
    <3>2. CASE q # r
      BY <1>0, <1>1, <2>1, <3>2, RequestFrame DEF Begin, TypeOK
    <3> QED
      BY <3>1, <3>2
  <2> QED
    BY <2>3, <2>4 DEF ControlInv
<1>2. ASSUME NEW r \in Requests, Reject(r)
      PROVE  ControlInv'
  <2>1. PICK in \in Inputs : input' = [input EXCEPT ![r] = in]
    BY <1>2 DEF Reject
  <2>2. TypeOK'
    BY <1>0, <1>2, <2>1 DEF Reject, TypeOK, PCs
  <2>3. ASSUME NEW q \in Requests
        PROVE  RequestOK(q)'
    <3>1. CASE q = r
      BY <1>0, <1>2, <2>1, <3>1 DEF Reject, TypeOK, RequestOK, Active
    <3>2. CASE q # r
      BY <1>0, <1>2, <2>1, <3>2, RequestFrame DEF Reject, TypeOK
    <3> QED
      BY <3>1, <3>2
  <2> QED
    BY <2>2, <2>3 DEF ControlInv
<1>3. ASSUME NEW r \in Requests, ReadFlagFails(r)
      PROVE  ControlInv'
  <2>1. Active(r)
    BY <1>3 DEF ReadFlagFails, Active
  <2>2. Result(CurrentKey(r), FALSE, NoVariant, "error") \in EvaluationResult
    BY <2>1, CurrentKeyType, VariantAssumption
       DEF Result, EvaluationResult, Reasons
  <2>3. failed' \in [Requests -> SUBSET Nat]
    BY <1>0, <1>3, <2>1, CurrentKeyType DEF ReadFlagFails, TypeOK
  <2> QED
    BY <1>0, <1>3, <2>1, <2>2, <2>3, ReturnControl
       DEF ReadFlagFails, ControlInv, TypeOK
<1>4. ASSUME NEW r \in Requests, EvaluateFlag(r)
      PROVE  ControlInv'
  <2>1. Active(r)
    BY <1>4 DEF EvaluateFlag, Active
  <2>2. PICK res \in Immediate(r, flags[input[r].tenant][CurrentKey(r)]) :
          Return(r, res)
    BY <1>4 DEF EvaluateFlag
  <2>3. flags[input[r].tenant][CurrentKey(r)] \in Definitions \cup {NoFlag}
    BY <1>0, <2>1, CurrentKeyType DEF TypeOK, RequestInput
  <2>4. res \in EvaluationResult
    BY <2>1, <2>2, <2>3, CurrentKeyType, ImmediateType
  <2> QED
    BY <1>0, <1>4, <2>1, <2>2, <2>4, ReturnControl
       DEF EvaluateFlag, ControlInv, TypeOK
<1>5. ASSUME NEW r \in Requests, ReadPersistentFlag(r)
      PROVE  ControlInv'
  <2>1. Active(r)
    BY <1>5 DEF ReadPersistentFlag, Active
  <2> DEFINE d == flags[input[r].tenant][CurrentKey(r)]
  <2>2. d \in Definitions /\ NeedsAssignment(d)
    BY <1>0, <1>5, <2>1, CurrentKeyType
       DEF TypeOK, RequestInput, ReadPersistentFlag, NeedsAssignment
  <2>3. flag' = [flag EXCEPT ![r] = d] /\ pc' = [pc EXCEPT ![r] = "assignment"]
    BY <1>5 DEF ReadPersistentFlag
  <2> HIDE DEF d
  <2>4. TypeOK'
    BY <1>0, <1>5, <2>2, <2>3 DEF ReadPersistentFlag, TypeOK, PCs
  <2>5. ASSUME NEW q \in Requests
        PROVE  RequestOK(q)'
    <3>1. CASE q = r
      BY <1>0, <1>5, <2>1, <2>2, <2>3, <3>1
         DEF ReadPersistentFlag, TypeOK, RequestOK, Active, NeedsAssignment
    <3>2. CASE q # r
      BY <1>0, <1>5, <2>3, <3>2, RequestFrame DEF ReadPersistentFlag, TypeOK
    <3> QED
      BY <3>1, <3>2
  <2> QED
    BY <2>4, <2>5 DEF ControlInv
<1>6. ASSUME NEW r \in Requests, AssignmentHit(r)
      PROVE  ControlInv'
  <2>1. Active(r)
    BY <1>6 DEF AssignmentHit, Active
  <2>2. Assigned(r) \in EvalResult
    <3> DEFINE k == CurrentKey(r)
               i == input[r]
    <3>1. i \in RequestInput /\ k \in Keys
      BY <1>0, <2>1, CurrentKeyType
    <3>2. assignments[i.tenant][i.subject][k] # NoAssignment
      BY <1>6 DEF AssignmentHit, Assigned
    <3>3. assignments \in [Tenants -> [Subjects ->
                             [Keys -> EvalResult \cup {NoAssignment}]]]
      BY <1>0 DEF TypeOK
    <3> HIDE DEF k, i
    <3>4. i.tenant \in Tenants /\ i.subject \in Subjects
      BY <3>1 DEF RequestInput
    <3>5. assignments[i.tenant][i.subject][k] \in EvalResult
      BY <3>1, <3>2, <3>3, <3>4
    <3> QED
      BY <3>5 DEF Assigned, k, i
  <2> DEFINE res == Result(CurrentKey(r), Assigned(r).enabled,
                           Assigned(r).variant, "persisted")
  <2>3. res \in EvaluationResult
    BY <2>1, <2>2, CurrentKeyType
       DEF Result, EvaluationResult, Reasons, EvalResult
  <2>4. Return(r, res)
    BY <1>6 DEF AssignmentHit
  <2> HIDE DEF res
  <2> QED
    BY <1>0, <1>6, <2>1, <2>3, <2>4, ReturnControl
       DEF AssignmentHit, ControlInv, TypeOK
<1>7. ASSUME NEW r \in Requests, AssignmentMiss(r)
      PROVE  ControlInv'
  BY <1>0, <1>7, ComputeControl DEF AssignmentMiss, Compute, ControlInv, TypeOK
<1>8. ASSUME NEW r \in Requests, AssignmentReadFails(r)
      PROVE  ControlInv'
  <2>1. Position(r) \in Nat
    BY <1>8, CurrentKeyType DEF AssignmentReadFails, Active
  <2>2. unread' \in [Requests -> SUBSET Nat]
    BY <1>0, <1>8, <2>1 DEF AssignmentReadFails, TypeOK
  <2> QED
    BY <1>0, <1>8, <2>2, ComputeControl
       DEF AssignmentReadFails, Compute, ControlInv, TypeOK
<1>9. ASSUME NEW r \in Requests, SaveCommits(r)
      PROVE  ControlInv'
  <2>1. Active(r) /\ pc[r] = "save"
    BY <1>9 DEF SaveCommits, Active
  <2>2. /\ input[r].tenant \in Tenants /\ input[r].subject \in Subjects
        /\ CurrentKey(r) \in Keys
    BY <2>1, CurrentKeyType DEF RequestInput
  <2> QED
    BY <1>0, <1>9, <2>1, <2>2, SavedType, StoredType, ReturnControl
       DEF SaveCommits, ControlInv, TypeOK
<1>10. ASSUME NEW r \in Requests, SaveFails(r)
       PROVE  ControlInv'
  BY <1>0, <1>10, SavedType, ReturnControl
     DEF SaveFails, Active, ControlInv, TypeOK
<1>11. ASSUME NEW r \in Requests, SaveTimesOut(r)
       PROVE  ControlInv'
  <2>1. lateSaves' \subseteq LateSave
    BY <1>0, <1>11, LateSaveType DEF SaveTimesOut, TypeOK
  <2> QED
    BY <1>0, <1>11, <2>1, SavedType, ReturnControl
       DEF SaveTimesOut, Active, ControlInv, TypeOK
<1>12. ASSUME NEW x \in lateSaves, LateSaveCommits(x) \/ LateSaveLost(x)
       PROVE  ControlInv'
  <2>1. x \in LateSave /\ lateSaves' \subseteq LateSave
    BY <1>0, <1>12 DEF TypeOK, LateSaveCommits, LateSaveLost
  <2>2. TypeOK'
    <3>1. CASE LateSaveCommits(x)
      BY <1>0, <2>1, <3>1, StoredType DEF LateSaveCommits, TypeOK, LateSave
    <3>2. CASE LateSaveLost(x)
      BY <1>0, <2>1, <3>2 DEF LateSaveLost, TypeOK
    <3> QED
      BY <1>12, <3>1, <3>2
  <2>3. \A q \in Requests : RequestOK(q)'
    BY <1>0, <1>12, RequestFrame DEF LateSaveCommits, LateSaveLost
  <2> QED
    BY <2>2, <2>3 DEF ControlInv
<1>13. ASSUME NEW t \in Tenants, NEW k \in Keys,
              NEW d \in Definitions, SetFlag(t, k, d)
       PROVE  ControlInv'
  <2>1. TypeOK'
    BY <1>0, <1>13, ObserveType DEF SetFlag, TypeOK
  <2>2. \A q \in Requests : RequestOK(q)'
    BY <1>0, <1>13, RequestFrame DEF SetFlag
  <2> QED
    BY <2>1, <2>2 DEF ControlInv
<1>14. ASSUME NEW t \in Tenants, NEW k \in Keys, DeleteFlag(t, k)
       PROVE  ControlInv'
  <2>1. TypeOK'
    BY <1>0, <1>14, ObserveType DEF DeleteFlag, TypeOK
  <2>2. \A q \in Requests : RequestOK(q)'
    BY <1>0, <1>14, RequestFrame DEF DeleteFlag
  <2> QED
    BY <2>1, <2>2 DEF ControlInv
<1>15. ASSUME NEW new \in [Tenants -> [Keys -> Definitions \cup {NoFlag}]],
              Reload(new)
       PROVE  ControlInv'
  <2>1. ASSUME NEW q \in Requests, Active(q)
        PROVE  input[q].tenant \in Tenants
    BY <2>1, CurrentKeyType DEF RequestInput
  <2>2. window' \in [Requests -> [Keys -> SUBSET (Definitions \cup {NoFlag})]]
    BY <1>0, <1>15, <2>1 DEF Reload, TypeOK
  <2>3. defined' \in [Tenants -> [Keys -> SUBSET Definitions]]
    BY <1>0, <1>15 DEF Reload, TypeOK
  <2>4. \A q \in Requests : RequestOK(q)'
    BY <1>0, <1>15, RequestFrame DEF Reload
  <2> QED
    BY <1>0, <1>15, <2>2, <2>3, <2>4 DEF Reload, TypeOK, ControlInv
<1>16. CASE UNCHANGED vars
  <2>1. TypeOK'
    BY <1>0, <1>16 DEF vars, TypeOK
  <2>2. \A q \in Requests : RequestOK(q)'
    BY <1>0, <1>16, RequestFrame DEF vars
  <2> QED
    BY <2>1, <2>2 DEF ControlInv
<1> QED
  BY <1>1, <1>2, <1>3, <1>4, <1>5, <1>6, <1>7, <1>8, <1>9, <1>10, <1>11, <1>12,
     <1>13, <1>14, <1>15, <1>16 DEF Next, Step, Module, Management

\* In every behaviour the state has its types: in particular the engine never
\* evaluates a key outside the request's batch nor saves without a result.
THEOREM TypeCorrect == Spec => []TypeOK
<1>1. Spec => []ControlInv
  BY ControlInit, ControlStep, PTL DEF Spec
<1> QED
  BY <1>1, PTL DEF ControlInv

-----------------------------------------------------------------------------
(* Where assignments come from *)

ProvenanceInv ==
  /\ \A t \in Tenants, k \in Keys : flags[t][k] \in defined[t][k] \cup {NoFlag}
  /\ \A r \in Requests :
       pc[r] \in {"assignment", "save"} =>
         flag[r] \in defined[input[r].tenant][CurrentKey(r)]
  /\ \A x \in lateSaves : Earned(x.tenant, x.subject, x.key, x.answer)
  /\ AssignmentProvenance

\* Definitions are only added to the history of a key.
LEMMA DefinedGrows ==
  ASSUME ControlInv, [Next]_vars, NEW t \in Tenants, NEW k \in Keys
  PROVE  defined[t][k] \subseteq defined'[t][k]
<1>1. defined \in [Tenants -> [Keys -> SUBSET Definitions]]
  BY DEF ControlInv, TypeOK
<1>2. ASSUME NEW u \in Tenants, NEW h \in Keys, NEW d, Observe(u, h, d)
      PROVE  defined[t][k] \subseteq defined'[t][k]
  BY <1>1, <1>2 DEF Observe
<1>3. ASSUME NEW new, Reload(new)
      PROVE  defined[t][k] \subseteq defined'[t][k]
  BY <1>1, <1>3 DEF Reload
<1>4. ASSUME UNCHANGED defined
      PROVE  defined[t][k] \subseteq defined'[t][k]
  BY <1>4
<1>5. CASE UNCHANGED vars
  BY <1>4, <1>5 DEF vars, historyVars
<1>6. CASE \E r \in Requests : Begin(r) \/ Reject(r) \/ Step(r)
  BY <1>4, <1>6
     DEF Step, Begin, Reject, ReadFlagFails, EvaluateFlag, ReadPersistentFlag,
         AssignmentHit, AssignmentMiss, AssignmentReadFails, SaveCommits,
         SaveFails, SaveTimesOut, historyVars
<1>7. CASE Module
  BY <1>4, <1>7 DEF Module, LateSaveCommits, LateSaveLost, historyVars
<1>8. CASE Management
  BY <1>2, <1>3, <1>8 DEF Management, SetFlag, DeleteFlag
<1> QED
  BY <1>5, <1>6, <1>7, <1>8 DEF Next

LEMMA EarnedStays ==
  ASSUME NEW t, NEW s, NEW k, NEW answer, Earned(t, s, k, answer),
         defined[t][k] \subseteq defined'[t][k]
  PROVE  Earned(t, s, k, answer)'
BY DEF Earned, Explains

\* What a request is about to save is earned by its subject.
LEMMA SavedIsEarned ==
  ASSUME ControlInv, ProvenanceInv, NEW r \in Requests, pc[r] = "save"
  PROVE  Earned(input[r].tenant, input[r].subject, CurrentKey(r),
                AnswerOf(computed[r]))
<1>1. /\ RequestOK(r)
      /\ flag[r] \in defined[input[r].tenant][CurrentKey(r)]
  BY DEF ControlInv, ProvenanceInv
<1>2. input[r].context \in Contexts
  BY CurrentKeyType DEF Active, RequestInput
<1> QED
  BY <1>1, <1>2
     DEF RequestOK, Earned, Explains, Evaluated, NeedsAssignment

LEMMA ProvenanceInit == Init => ProvenanceInv
BY DEF Init, ProvenanceInv, AssignmentProvenance

\* Saving an earned answer keeps every stored answer earned.
LEMMA StoredProvenance ==
  ASSUME ControlInv, AssignmentProvenance,
         NEW t \in Tenants, NEW s \in Subjects, NEW k \in Keys,
         NEW answer, Earned(t, s, k, answer), Stored(t, s, k, answer),
         UNCHANGED defined
  PROVE  AssignmentProvenance'
<1>1. stored \in [Tenants -> [Subjects -> [Keys -> SUBSET EvalResult]]]
  BY DEF ControlInv, TypeOK
<1>2. ASSUME NEW u \in Tenants, NEW v \in Subjects, NEW h \in Keys,
             NEW x \in stored'[u][v][h]
      PROVE  Earned(u, v, h, x)'
  <2>1. x \in stored[u][v][h] \/ (u = t /\ v = s /\ h = k /\ x = answer)
    BY <1>1, <1>2 DEF Stored
  <2>2. Earned(u, v, h, x)
    BY <2>1 DEF AssignmentProvenance
  <2> QED
    BY <2>2 DEF Earned, Explains
<1> QED
  BY <1>2 DEF AssignmentProvenance

\* A request keeps the definition it has read, or gives it up.
LEMMA FlagRead ==
  ASSUME ControlInv, NEW r \in Requests,
         \E q \in Requests : Begin(q) \/ Reject(q) \/ Step(q),
         pc'[r] \in {"assignment", "save"}
  PROVE  /\ input'[r] = input[r]
         /\ CurrentKey(r)' = CurrentKey(r)
         /\ \/ /\ pc[r] \in {"assignment", "save"}
               /\ flag'[r] = flag[r]
            \/ /\ pc[r] = "flag"
               /\ flag'[r] = flags[input[r].tenant][CurrentKey(r)]
               /\ flag'[r] # NoFlag
<1> USE DEF persistenceVars, requestVars, historyVars
<1>0. TypeOK
  BY DEF ControlInv
<1>1. PICK q \in Requests : Begin(q) \/ Reject(q) \/ Step(q)
  OBVIOUS
<1>2. CASE Begin(q) \/ Reject(q)
  BY <1>0, <1>2 DEF Begin, Reject, TypeOK, CurrentKey, Position
<1>3. CASE ReadPersistentFlag(q)
  BY <1>0, <1>3
     DEF ReadPersistentFlag, TypeOK, CurrentKey, Position, NeedsAssignment
<1>4. CASE AssignmentMiss(q) \/ AssignmentReadFails(q)
  BY <1>0, <1>4
     DEF AssignmentMiss, AssignmentReadFails, Compute, TypeOK, CurrentKey, Position
<1>5. ASSUME NEW res, Return(q, res)
      PROVE  q # r /\ flag'[r] = flag[r] /\ pc'[r] = pc[r]
                   /\ input'[r] = input[r] /\ results'[r] = results[r]
  BY <1>0, <1>5 DEF Return, TypeOK
<1>6. CASE \E res : Return(q, res)
  BY <1>5, <1>6 DEF CurrentKey, Position
<1> QED
  BY <1>1, <1>2, <1>3, <1>4, <1>6
     DEF Step, ReadFlagFails, EvaluateFlag, AssignmentHit, SaveCommits,
         SaveFails, SaveTimesOut

LEMMA ProvenanceStep ==
  ControlInv /\ ControlInv' /\ ProvenanceInv /\ [Next]_vars => ProvenanceInv'
<1> SUFFICES ASSUME ControlInv, ControlInv', ProvenanceInv, [Next]_vars
             PROVE  ProvenanceInv'
  OBVIOUS
<1> USE DEF persistenceVars, requestVars, historyVars
<1>0. TypeOK
  BY DEF ControlInv
<1>1. CASE \E q \in Requests : Begin(q) \/ Reject(q) \/ Step(q)
  <2>1. PICK q \in Requests : Begin(q) \/ Reject(q) \/ Step(q)
    BY <1>1
  <2>2. UNCHANGED << flags, defined >>
    BY <2>1
       DEF Step, Begin, Reject, ReadFlagFails, EvaluateFlag, ReadPersistentFlag,
           AssignmentHit, AssignmentMiss, AssignmentReadFails, SaveCommits,
           SaveFails, SaveTimesOut, Compute
  <2>3. \A t \in Tenants, k \in Keys : (flags[t][k] \in defined[t][k] \cup {NoFlag})'
    BY <2>2 DEF ProvenanceInv
  <2>4. ASSUME NEW r \in Requests, pc'[r] \in {"assignment", "save"}
        PROVE  flag'[r] \in defined'[input'[r].tenant][CurrentKey(r)']
    <3>1. Active(r) => input[r].tenant \in Tenants /\ CurrentKey(r) \in Keys
      BY CurrentKeyType DEF RequestInput
    <3> QED
      BY <1>1, <2>2, <2>4, <3>1, FlagRead DEF ProvenanceInv, Active
  <2>5. ASSUME NEW x \in lateSaves'
        PROVE  Earned(x.tenant, x.subject, x.key, x.answer)'
    <3>1. x \in lateSaves
            \/ /\ pc[q] = "save"
               /\ x = [by |-> q, at |-> Position(q),
                       tenant |-> input[q].tenant,
                       subject |-> input[q].subject,
                       key |-> CurrentKey(q), answer |-> AnswerOf(computed[q])]
      BY <2>1
         DEF Step, Begin, Reject, ReadFlagFails, EvaluateFlag, ReadPersistentFlag,
             AssignmentHit, AssignmentMiss, AssignmentReadFails, SaveCommits,
             SaveFails, SaveTimesOut, Compute
    <3>2. Earned(x.tenant, x.subject, x.key, x.answer)
      BY <3>1, SavedIsEarned DEF ProvenanceInv
    <3> QED
      BY <2>2, <3>2 DEF Earned, Explains
  <2>6. AssignmentProvenance'
    <3>1. CASE SaveCommits(q)
      <4>1. /\ input[q].tenant \in Tenants /\ input[q].subject \in Subjects
            /\ CurrentKey(q) \in Keys
        BY <3>1, CurrentKeyType DEF SaveCommits, Active, RequestInput
      <4> QED
        BY <2>2, <3>1, <4>1, SavedIsEarned, StoredProvenance
           DEF SaveCommits, ProvenanceInv
    <3>2. CASE UNCHANGED stored
      BY <2>2, <3>2
         DEF ProvenanceInv, AssignmentProvenance, Earned, Explains
    <3> QED
      BY <2>1, <3>1, <3>2
         DEF Step, Begin, Reject, ReadFlagFails, EvaluateFlag, ReadPersistentFlag,
             AssignmentHit, AssignmentMiss, AssignmentReadFails,
             SaveFails, SaveTimesOut, Compute
  <2> QED
    BY <2>3, <2>4, <2>5, <2>6 DEF ProvenanceInv
<1>2. CASE Module
  <2>1. PICK x \in lateSaves : LateSaveCommits(x) \/ LateSaveLost(x)
    BY <1>2 DEF Module
  <2>2. x \in LateSave /\ Earned(x.tenant, x.subject, x.key, x.answer)
    BY <1>0 DEF TypeOK, ProvenanceInv
  <2>3. UNCHANGED << flags, defined, pc, flag, input, results >>
          /\ lateSaves' \subseteq lateSaves
    BY <2>1 DEF LateSaveCommits, LateSaveLost
  <2>4. AssignmentProvenance'
    <3>1. CASE LateSaveCommits(x)
      BY <2>2, <2>3, <3>1, StoredProvenance
         DEF LateSaveCommits, LateSave, ProvenanceInv
    <3>2. CASE LateSaveLost(x)
      BY <3>2
         DEF LateSaveLost, ProvenanceInv, AssignmentProvenance, Earned, Explains
    <3> QED
      BY <2>1, <3>1, <3>2
  <2> QED
    BY <2>3, <2>4 DEF ProvenanceInv, Earned, Explains, CurrentKey, Position
<1>3. CASE Management
  <2>1. UNCHANGED << lateSaves, stored, pc, flag, input, results >>
    BY <1>3 DEF Management, SetFlag, DeleteFlag, Reload
  <2>2. \A t \in Tenants, k \in Keys : (flags[t][k] \in defined[t][k] \cup {NoFlag})'
    <3>1. ASSUME NEW t \in Tenants, NEW k \in Keys,
                 NEW d \in Definitions \cup {NoFlag},
                 flags' = [flags EXCEPT ![t][k] = d], Observe(t, k, d)
          PROVE  \A u \in Tenants, h \in Keys :
                   (flags[u][h] \in defined[u][h] \cup {NoFlag})'
      BY <1>0, <3>1 DEF Observe, ProvenanceInv, TypeOK
    <3>2. ASSUME NEW new, Reload(new)
          PROVE  \A u \in Tenants, h \in Keys :
                   (flags[u][h] \in defined[u][h] \cup {NoFlag})'
      BY <3>2 DEF Reload
    <3> QED
      BY <1>3, <3>1, <3>2 DEF Management, SetFlag, DeleteFlag
  <2>3. \A t \in Tenants, k \in Keys : defined[t][k] \subseteq defined'[t][k]
    BY DefinedGrows
  <2>4. ASSUME NEW r \in Requests, pc'[r] \in {"assignment", "save"}
        PROVE  flag'[r] \in defined'[input'[r].tenant][CurrentKey(r)']
    <3>1. pc[r] \in {"assignment", "save"}
            /\ input[r].tenant \in Tenants /\ CurrentKey(r) \in Keys
      BY <2>1, <2>4, CurrentKeyType DEF Active, RequestInput
    <3>2. CurrentKey(r)' = CurrentKey(r)
      BY <2>1 DEF CurrentKey, Position
    <3> QED
      BY <2>1, <2>3, <3>1, <3>2 DEF ProvenanceInv
  <2>5. ASSUME NEW x \in lateSaves'
        PROVE  Earned(x.tenant, x.subject, x.key, x.answer)'
    <3>1. x \in LateSave /\ Earned(x.tenant, x.subject, x.key, x.answer)
      BY <1>0, <2>1, <2>5 DEF TypeOK, ProvenanceInv
    <3> QED
      BY <2>3, <3>1, EarnedStays DEF LateSave
  <2>6. AssignmentProvenance'
    BY <2>1, <2>3, EarnedStays DEF ProvenanceInv, AssignmentProvenance
  <2> QED
    BY <2>2, <2>4, <2>5, <2>6 DEF ProvenanceInv
<1>4. CASE UNCHANGED vars
  BY <1>4 DEF vars, ProvenanceInv, AssignmentProvenance, Earned, Explains,
              CurrentKey, Position
<1> QED
  BY <1>1, <1>2, <1>3, <1>4 DEF Next

\* No assignment ever comes from another tenant, from a disabled flag or from a
\* definition the key never had, however reads, saves, failures and management
\* writes interleave.
THEOREM Provenance == Spec => []AssignmentProvenance
<1>1. Init => ControlInv /\ ProvenanceInv
  BY ControlInit, ProvenanceInit
<1>2. ControlInv /\ ProvenanceInv /\ [Next]_vars => (ControlInv /\ ProvenanceInv)'
  BY ControlStep, ProvenanceStep
<1>3. ProvenanceInv => AssignmentProvenance
  BY DEF ProvenanceInv
<1> QED
  BY <1>1, <1>2, <1>3, PTL DEF Spec

-----------------------------------------------------------------------------
(* Stickiness *)

\* The failed reads of a request are at positions it has passed, or at the one
\* whose result it is saving.
UnreadInv ==
  \A r \in Requests : \A i \in unread[r] :
    i <= IF pc[r] = "save" THEN Position(r) ELSE Len(results[r])

LEMMA UnreadInit == Init => UnreadInv
BY DEF Init, UnreadInv

LEMMA UnreadStep ==
  ControlInv /\ UnreadInv /\ [Next]_vars => UnreadInv'
<1> SUFFICES ASSUME ControlInv, UnreadInv, [Next]_vars,
                    NEW r \in Requests, NEW i \in unread'[r]
             PROVE  i <= IF pc'[r] = "save" THEN Position(r)' ELSE Len(results'[r])
  BY DEF UnreadInv
<1> USE DEF persistenceVars, requestVars, historyVars, Position
<1>0. TypeOK /\ RequestOK(r) /\ results[r] \in Seq(EvaluationResult)
  BY DEF ControlInv, TypeOK
<1>1. ASSUME UNCHANGED << pc, results, unread >>
      PROVE  i <= IF pc'[r] = "save" THEN Position(r)' ELSE Len(results'[r])
  BY <1>1 DEF UnreadInv
<1>2. ASSUME NEW q \in Requests, NEW res, Return(q, res), UNCHANGED unread
      PROVE  i <= IF pc'[r] = "save" THEN Position(r)' ELSE Len(results'[r])
  <2>1. CASE q = r
    <3>1. /\ pc'[r] # "save" /\ results'[r] = Append(results[r], res)
          /\ i <= Len(results[r]) + 1 /\ i \in Nat
      BY <1>0, <1>2, <2>1 DEF Return, TypeOK, UnreadInv
    <3>2. Len(results'[r]) = Len(results[r]) + 1
      BY <1>0, <3>1
    <3> QED
      BY <3>1, <3>2
  <2>2. CASE q # r
    BY <1>0, <1>2, <2>2 DEF Return, TypeOK, UnreadInv
  <2> QED
    BY <2>1, <2>2
<1>3. ASSUME NEW q \in Requests, Begin(q) \/ Reject(q)
      PROVE  i <= IF pc'[r] = "save" THEN Position(r)' ELSE Len(results'[r])
  BY <1>0, <1>3 DEF Begin, Reject, TypeOK, UnreadInv
<1>4. ASSUME NEW q \in Requests, ReadPersistentFlag(q) \/ AssignmentMiss(q)
      PROVE  i <= IF pc'[r] = "save" THEN Position(r)' ELSE Len(results'[r])
  BY <1>0, <1>4
     DEF ReadPersistentFlag, AssignmentMiss, Compute, TypeOK, UnreadInv
<1>5. ASSUME NEW q \in Requests, AssignmentReadFails(q)
      PROVE  i <= IF pc'[r] = "save" THEN Position(r)' ELSE Len(results'[r])
  BY <1>0, <1>5 DEF AssignmentReadFails, Compute, TypeOK, UnreadInv
<1>6. CASE \E q \in Requests : Begin(q) \/ Reject(q) \/ Step(q)
  BY <1>2, <1>3, <1>4, <1>5, <1>6
     DEF Step, ReadFlagFails, EvaluateFlag, AssignmentHit, SaveCommits,
         SaveFails, SaveTimesOut
<1>7. CASE Module \/ Management
  BY <1>1, <1>7 DEF Module, Management, LateSaveCommits, LateSaveLost, SetFlag,
                    DeleteFlag, Reload
<1>8. CASE UNCHANGED vars
  BY <1>1, <1>8 DEF vars
<1> QED
  BY <1>6, <1>7, <1>8 DEF Next

\* A request comes to a save only through a missed or a failed read.
LEMMA SaveReached ==
  ASSUME ControlInv, UnreadInv, NEW r \in Requests, pc'[r] = "save", unread' = unread,
         \E q \in Requests : Begin(q) \/ Reject(q) \/ Step(q)
  PROVE  /\ input'[r] = input[r] /\ CurrentKey(r)' = CurrentKey(r)
         /\ pc[r] = "save" \/ Assigned(r) = NoAssignment
<1> USE DEF persistenceVars, requestVars, historyVars
<1>0. TypeOK /\ RequestOK(r) /\ results[r] \in Seq(EvaluationResult)
  BY DEF ControlInv, TypeOK
<1>1. input'[r] = input[r] /\ CurrentKey(r)' = CurrentKey(r)
  BY FlagRead
<1>2. PICK q \in Requests : Begin(q) \/ Reject(q) \/ Step(q)
  OBVIOUS
<1>3. ASSUME NEW res, Return(q, res)
      PROVE  q # r /\ pc'[r] = pc[r]
  BY <1>0, <1>3 DEF Return, TypeOK
<1>4. CASE \E res : Return(q, res)
  BY <1>1, <1>3, <1>4
<1>5. CASE Begin(q) \/ Reject(q) \/ ReadPersistentFlag(q)
  BY <1>0, <1>1, <1>5 DEF Begin, Reject, ReadPersistentFlag, TypeOK
<1>6. CASE q # r /\ (AssignmentMiss(q) \/ AssignmentReadFails(q))
  BY <1>0, <1>1, <1>6 DEF AssignmentMiss, AssignmentReadFails, Compute, TypeOK
<1>7. CASE q = r /\ AssignmentMiss(q)
  BY <1>1, <1>7 DEF AssignmentMiss
<1>8. CASE q = r /\ AssignmentReadFails(q)
  <2>1. Position(r) \in unread'[r] /\ pc[r] = "assignment"
    BY <1>0, <1>8 DEF AssignmentReadFails, TypeOK
  <2>2. Position(r) <= Len(results[r])
    BY <2>1 DEF UnreadInv
  <2> QED
    BY <1>0, <2>2 DEF Position
<1> QED
  BY <1>2, <1>6, <1>7, <1>8, <1>4, <1>5
     DEF Step, ReadFlagFails, EvaluateFlag, AssignmentHit, SaveCommits,
         SaveFails, SaveTimesOut

\* One step leaves a settled assignment settled and as it is.
LEMMA SettledStep ==
  ASSUME ControlInv, UnreadInv, [Next]_vars, unread' = unread,
         NEW t \in Tenants, NEW s \in Subjects, NEW k \in Keys, Settled(t, s, k)
  PROVE  Settled(t, s, k)' /\ assignments'[t][s][k] = assignments[t][s][k]
<1> USE DEF persistenceVars, requestVars, historyVars
<1>0. TypeOK
  BY DEF ControlInv
<1>1. ASSUME UNCHANGED << assignments, pc, input, results >>,
             lateSaves' \subseteq lateSaves
      PROVE  Settled(t, s, k)' /\ assignments'[t][s][k] = assignments[t][s][k]
  BY <1>1 DEF Settled, CurrentKey, Position
<1>2. CASE \E q \in Requests : Begin(q) \/ Reject(q) \/ Step(q)
  <2>1. PICK q \in Requests : Begin(q) \/ Reject(q) \/ Step(q)
    BY <1>2
  <2>2. assignments'[t][s][k] = assignments[t][s][k]
    <3>1. CASE SaveCommits(q)
      <4>1. <<input[q].tenant, input[q].subject, CurrentKey(q)>> # <<t, s, k>>
        BY <3>1 DEF SaveCommits, Settled
      <4> QED
        BY <1>0, <3>1, <4>1 DEF SaveCommits, Stored, TypeOK
    <3>2. CASE UNCHANGED assignments
      BY <3>2
    <3> QED
      BY <2>1, <3>1, <3>2
         DEF Step, Begin, Reject, ReadFlagFails, EvaluateFlag, ReadPersistentFlag,
             AssignmentHit, AssignmentMiss, AssignmentReadFails, SaveFails,
             SaveTimesOut, Compute
  <2>3. ASSUME NEW x \in lateSaves'
        PROVE  <<x.tenant, x.subject, x.key>> # <<t, s, k>>
    <3>1. x \in lateSaves
            \/ /\ pc[q] = "save"
               /\ x = [by |-> q, at |-> Position(q),
                       tenant |-> input[q].tenant,
                       subject |-> input[q].subject,
                       key |-> CurrentKey(q), answer |-> AnswerOf(computed[q])]
      BY <2>1, <2>3
         DEF Step, Begin, Reject, ReadFlagFails, EvaluateFlag, ReadPersistentFlag,
             AssignmentHit, AssignmentMiss, AssignmentReadFails, SaveCommits,
             SaveFails, SaveTimesOut, Compute
    <3> QED
      BY <3>1 DEF Settled
  <2>4. ASSUME NEW r \in Requests, pc'[r] = "save"
        PROVE  <<input'[r].tenant, input'[r].subject, CurrentKey(r)'>> # <<t, s, k>>
    BY <1>2, <2>4, SaveReached DEF Settled, Assigned
  <2> QED
    BY <2>2, <2>3, <2>4 DEF Settled
<1>3. CASE Module
  <2>1. PICK x \in lateSaves : LateSaveCommits(x) \/ LateSaveLost(x)
    BY <1>3 DEF Module
  <2>2. CASE LateSaveLost(x)
    BY <1>1, <2>2 DEF LateSaveLost
  <2>3. CASE LateSaveCommits(x)
    <3>1. assignments'[t][s][k] = assignments[t][s][k]
      BY <1>0, <2>3 DEF LateSaveCommits, Stored, Settled, TypeOK
    <3> QED
      BY <2>3, <3>1 DEF LateSaveCommits, Settled, CurrentKey, Position
  <2> QED
    BY <2>1, <2>2, <2>3
<1>4. CASE Management
  BY <1>1, <1>4 DEF Management, SetFlag, DeleteFlag, Reload
<1>5. CASE UNCHANGED vars
  BY <1>1, <1>5 DEF vars
<1> QED
  BY <1>2, <1>3, <1>4, <1>5 DEF Next

\* Without a failed read, an assignment that is saved and that no request is
\* about to write stays for ever: no management write, no other request and no
\* failure of a save changes it.
THEOREM Stickiness == Spec => SettledIsSticky
<1>1. Init => ControlInv /\ UnreadInv
  BY ControlInit, UnreadInit
<1>2. ControlInv /\ UnreadInv /\ [Next]_vars => (ControlInv /\ UnreadInv)'
  BY ControlStep, UnreadStep
<1>3. ControlInv /\ UnreadInv /\ [Next]_vars =>
        [ \A t \in Tenants, s \in Subjects, k \in Keys :
            Settled(t, s, k) /\ unread' = unread =>
              /\ Settled(t, s, k)'
              /\ assignments'[t][s][k] = assignments[t][s][k] ]_vars
  BY SettledStep
<1> QED
  BY <1>1, <1>2, <1>3, PTL DEF Spec, SettledIsSticky

-----------------------------------------------------------------------------
(* What an answer reflects *)

WindowInv ==
  /\ \A r \in Requests :
       Active(r) => \A k \in Keys : flags[input[r].tenant][k] \in window[r][k]
  /\ \A r \in Requests :
       pc[r] \in {"assignment", "save"} => flag[r] \in window[r][CurrentKey(r)]
  /\ \A t \in Tenants, s \in Subjects, k \in Keys :
       assignments[t][s][k] \in stored[t][s][k] \cup {NoAssignment}

AnswerInv ==
  /\ AnswerReflectsWindow
  /\ \A r \in Requests :
       /\ \A i \in Answered(r) :
            /\ results[r][i].key = input[r].keys[i]
            /\ results[r][i].reason = "error" <=> i \in failed[r]
       /\ failed[r] \subseteq Answered(r)

\* A request that was taken up keeps its input, and what it may reflect grows.
LEMMA HistoryGrows ==
  ASSUME ControlInv, [Next]_vars
  PROVE  /\ \A t \in Tenants, s \in Subjects, k \in Keys :
              stored[t][s][k] \subseteq stored'[t][s][k]
         /\ \A r \in Requests : pc[r] # "idle" =>
              /\ input'[r] = input[r]
              /\ \A k \in Keys : window[r][k] \subseteq window'[r][k]
<1> USE DEF persistenceVars, requestVars, historyVars
<1> DEFINE Grows ==
      /\ \A t \in Tenants, s \in Subjects, k \in Keys :
           stored[t][s][k] \subseteq stored'[t][s][k]
      /\ \A r \in Requests : pc[r] # "idle" =>
           /\ input'[r] = input[r]
           /\ \A k \in Keys : window[r][k] \subseteq window'[r][k]
<1>0. TypeOK
  BY DEF ControlInv
<1>1. ASSUME NEW r \in Requests, Begin(r) \/ Reject(r)
      PROVE  Grows
  BY <1>0, <1>1 DEF Begin, Reject, TypeOK
<1>2. ASSUME NEW t, NEW s, NEW k, NEW answer, Stored(t, s, k, answer),
             UNCHANGED << input, window >>
      PROVE  Grows
  BY <1>0, <1>2 DEF Stored, TypeOK
<1>3. ASSUME UNCHANGED << input, window, stored >>
      PROVE  Grows
  BY <1>3
<1>4. ASSUME NEW r \in Requests, Step(r)
      PROVE  Grows
  <2>1. CASE SaveCommits(r)
    BY <1>2, <2>1 DEF SaveCommits, Return
  <2> QED
    BY <1>3, <1>4, <2>1
       DEF Step, ReadFlagFails, EvaluateFlag, ReadPersistentFlag, AssignmentHit,
           AssignmentMiss, AssignmentReadFails, SaveFails, SaveTimesOut,
           Return, Compute
<1>5. CASE Module
  BY <1>2, <1>3, <1>5 DEF Module, LateSaveCommits, LateSaveLost
<1>6. ASSUME NEW t, NEW k, NEW d, Observe(t, k, d), UNCHANGED << input, stored >>
      PROVE  Grows
  BY <1>0, <1>6 DEF Observe, TypeOK
<1>7. ASSUME NEW new, Reload(new)
      PROVE  Grows
  BY <1>0, <1>7 DEF Reload, TypeOK
<1>8. CASE Management
  BY <1>6, <1>7, <1>8 DEF Management, SetFlag, DeleteFlag
<1>9. CASE UNCHANGED vars
  BY <1>3, <1>9 DEF vars
<1> QED
  BY <1>1, <1>4, <1>5, <1>8, <1>9 DEF Next

\* What justified an answer keeps justifying it.
LEMMA JustifiedStays ==
  ASSUME ControlInv, [Next]_vars, NEW r \in Requests, pc[r] \notin {"idle", "rejected"},
         NEW k \in Keys, NEW res, Justified(r, k, res)
  PROVE  Justified(r, k, res)'
<1>1. input[r] \in RequestInput
  BY InputsAssumption DEF ControlInv, RequestOK
<1>2. /\ input'[r] = input[r] /\ window[r][k] \subseteq window'[r][k]
      /\ stored[input[r].tenant][input[r].subject][k]
           \subseteq stored'[input[r].tenant][input[r].subject][k]
  BY <1>1, HistoryGrows DEF RequestInput
<1> QED
  BY <1>2 DEF Justified, Explains, NeedsAssignment

\* What evaluate computes from a definition in the window is justified.
LEMMA EvaluatedJustified ==
  ASSUME ControlInv, WindowInv, NEW r \in Requests, Active(r),
         NEW d \in Definitions, d.enabled, d \in window[r][CurrentKey(r)],
         NEW o \in Evaluated(r, d)
  PROVE  /\ Justified(r, CurrentKey(r), o)
         /\ Justified(r, CurrentKey(r),
                     Result(o.key, o.enabled, o.variant, "no_persistence"))
<1>1. d # NoFlag /\ d \in FlagDefinition
  BY DefinitionsAssumption, NoneAssumption
<1>2. o.reason \in {"rule_match", "default"}
  BY <1>1, CurrentKeyType, OutcomesType DEF Evaluated
<1>3. Explains(d, input[r].tenant, CurrentKey(r), input[r].subject,
               input[r].context, AnswerOf(o))
  BY <1>1 DEF Explains, Evaluated
<1>4. AnswerOf(Result(o.key, o.enabled, o.variant, "no_persistence")) = AnswerOf(o)
  BY DEF AnswerOf, Result
<1>5. Justified(r, CurrentKey(r), o)
  BY <1>2, <1>3 DEF Justified
<1> QED
  BY <1>3, <1>4, <1>5 DEF Justified, Result

LEMMA WindowInit == Init => WindowInv /\ AnswerInv
BY DEF Init, WindowInv, AnswerInv, AnswerReflectsWindow, Answered, Active

LEMMA WindowStep == ControlInv /\ WindowInv /\ [Next]_vars => WindowInv'
<1> SUFFICES ASSUME ControlInv, WindowInv, [Next]_vars
             PROVE  WindowInv'
  OBVIOUS
<1> USE DEF persistenceVars, requestVars, historyVars
<1>0. TypeOK
  BY DEF ControlInv
<1>1. ASSUME NEW t \in Tenants, NEW s \in Subjects, NEW k \in Keys
      PROVE  assignments'[t][s][k] \in stored'[t][s][k] \cup {NoAssignment}
  <2>1. assignments[t][s][k] \in stored[t][s][k] \cup {NoAssignment}
    BY DEF WindowInv
  <2>2. CASE UNCHANGED << assignments, stored >>
    BY <2>1, <2>2
  <2>3. ASSUME NEW u, NEW v, NEW h, NEW answer, Stored(u, v, h, answer)
        PROVE  assignments'[t][s][k] \in stored'[t][s][k] \cup {NoAssignment}
    BY <1>0, <2>1, <2>3 DEF Stored, TypeOK
  <2>4. CASE \E q \in Requests : Begin(q) \/ Reject(q) \/ Step(q)
    BY <2>2, <2>3, <2>4
       DEF Step, Begin, Reject, ReadFlagFails, EvaluateFlag, ReadPersistentFlag,
           AssignmentHit, AssignmentMiss, AssignmentReadFails, SaveCommits,
           SaveFails, SaveTimesOut, Compute
  <2>5. CASE Module
    BY <2>2, <2>3, <2>5 DEF Module, LateSaveCommits, LateSaveLost
  <2>6. CASE Management
    BY <2>2, <2>6 DEF Management, SetFlag, DeleteFlag, Reload
  <2> QED
    BY <2>2, <2>4, <2>5, <2>6 DEF Next, vars
<1>2. ASSUME NEW r \in Requests, Active(r)', NEW k \in Keys
      PROVE  flags'[input'[r].tenant][k] \in window'[r][k]
  <2>1. Active(r) => /\ flags[input[r].tenant][k] \in window[r][k]
                     /\ input[r].tenant \in Tenants
    BY CurrentKeyType DEF WindowInv, RequestInput
  <2>2. ASSUME NEW q \in Requests, Begin(q)
        PROVE  flags'[input'[r].tenant][k] \in window'[r][k]
    BY <1>0, <1>2, <2>1, <2>2 DEF Begin, TypeOK, Active
  <2>3. ASSUME NEW q \in Requests, Reject(q)
        PROVE  flags'[input'[r].tenant][k] \in window'[r][k]
    BY <1>0, <1>2, <2>1, <2>3 DEF Reject, TypeOK, Active
  <2>4. ASSUME NEW q \in Requests, Step(q)
        PROVE  flags'[input'[r].tenant][k] \in window'[r][k]
    <3>1. UNCHANGED << flags, input, window >>
      BY <2>4
         DEF Step, ReadFlagFails, EvaluateFlag, ReadPersistentFlag, AssignmentHit,
             AssignmentMiss, AssignmentReadFails, SaveCommits, SaveFails,
             SaveTimesOut, Compute, Return
    <3>2. \E x : pc[q] \in {"flag", "assignment", "save"}
                   /\ pc' = [pc EXCEPT ![q] = x]
      <4>1. pc[q] \in {"flag", "assignment", "save"}
        BY <2>4
           DEF Step, ReadFlagFails, EvaluateFlag, ReadPersistentFlag,
               AssignmentHit, AssignmentMiss, AssignmentReadFails, SaveCommits,
               SaveFails, SaveTimesOut
      <4>2. ASSUME NEW res, Return(q, res)
            PROVE  \E x : pc' = [pc EXCEPT ![q] = x]
        BY <4>2 DEF Return
      <4>3. CASE \E res : Return(q, res)
        BY <4>1, <4>2, <4>3
      <4>4. CASE pc' = [pc EXCEPT ![q] = "assignment"]
        BY <4>1, <4>4
      <4>5. CASE pc' = [pc EXCEPT ![q] = "save"]
        BY <4>1, <4>5
      <4> QED
        BY <2>4, <4>3, <4>4, <4>5
           DEF Step, ReadFlagFails, EvaluateFlag, ReadPersistentFlag,
               AssignmentHit, AssignmentMiss, AssignmentReadFails, SaveCommits,
               SaveFails, SaveTimesOut, Compute
    <3>3. Active(r)
      BY <1>0, <1>2, <3>2 DEF Active, TypeOK
    <3> QED
      BY <2>1, <3>1, <3>3
  <2>5. CASE Module
    BY <1>2, <2>1, <2>5 DEF Module, LateSaveCommits, LateSaveLost, Active
  <2>6. CASE Management
    <3>1. Active(r) /\ input'[r] = input[r]
      BY <1>2, <2>6 DEF Management, SetFlag, DeleteFlag, Reload, Active
    <3>2. ASSUME NEW t \in Tenants, NEW h \in Keys, NEW d,
                 flags' = [flags EXCEPT ![t][h] = d], Observe(t, h, d)
          PROVE  flags'[input'[r].tenant][k] \in window'[r][k]
      BY <1>0, <2>1, <3>1, <3>2 DEF Observe, TypeOK
    <3>3. ASSUME NEW new, Reload(new)
          PROVE  flags'[input'[r].tenant][k] \in window'[r][k]
      BY <2>1, <3>1, <3>3 DEF Reload
    <3> QED
      BY <2>6, <3>2, <3>3 DEF Management, SetFlag, DeleteFlag
  <2> QED
    BY <1>2, <2>1, <2>2, <2>3, <2>4, <2>5, <2>6 DEF Next, vars, Active
<1>3. ASSUME NEW r \in Requests, pc'[r] \in {"assignment", "save"}
      PROVE  flag'[r] \in window'[r][CurrentKey(r)']
  <2>1. CASE \E q \in Requests : Begin(q) \/ Reject(q) \/ Step(q)
    <3>1. /\ CurrentKey(r)' = CurrentKey(r) /\ pc[r] # "idle" /\ Active(r)
          /\ \/ flag'[r] = flag[r] /\ pc[r] \in {"assignment", "save"}
             \/ flag'[r] = flags[input[r].tenant][CurrentKey(r)]
      BY <1>3, <2>1, FlagRead DEF Active
    <3>2. flag'[r] \in window[r][CurrentKey(r)] /\ CurrentKey(r) \in Keys
      BY <3>1, CurrentKeyType DEF WindowInv
    <3> QED
      BY <3>1, <3>2, HistoryGrows
  <2>2. CASE UNCHANGED << pc, flag, input, results >>
    <3>1. /\ CurrentKey(r)' = CurrentKey(r) /\ pc[r] # "idle" /\ Active(r)
          /\ flag'[r] = flag[r]
      BY <1>3, <2>2 DEF CurrentKey, Position, Active
    <3>2. flag[r] \in window[r][CurrentKey(r)] /\ CurrentKey(r) \in Keys
      BY <1>3, <2>2, <3>1, CurrentKeyType DEF WindowInv
    <3> QED
      BY <3>1, <3>2, HistoryGrows
  <2> QED
    BY <2>1, <2>2 DEF Next, Module, Management, LateSaveCommits, LateSaveLost,
                      SetFlag, DeleteFlag, Reload, vars
<1> QED
  BY <1>1, <1>2, <1>3 DEF WindowInv

\* An answer that was given stays justified as long as it stays.
LEMMA AnswerStays ==
  ASSUME ControlInv, AnswerInv, [Next]_vars, NEW r \in Requests,
         NEW i \in Answered(r), results'[r][i] = results[r][i]
  PROVE  Justified(r, input[r].keys[i], results[r][i])'
<1>0. results[r] \in Seq(EvaluationResult)
  BY DEF ControlInv, TypeOK
<1>1. pc[r] \notin {"idle", "rejected"} /\ Len(results[r]) <= Len(input[r].keys)
  <2>1. RequestOK(r) /\ pc[r] \in PCs
    BY DEF ControlInv, TypeOK
  <2>2. pc[r] \notin {"idle", "rejected"}
    BY <2>1 DEF RequestOK, Answered
  <2>3. CASE pc[r] = "done"
    BY <1>0, <2>1, <2>2, <2>3 DEF RequestOK
  <2>4. CASE Active(r)
    BY <1>0, <2>2, <2>4, CurrentKeyType DEF Position
  <2> QED
    BY <2>1, <2>2, <2>3, <2>4 DEF PCs, Active
<1>2. input[r].keys \in Seq(Keys)
  BY <1>1, InputsAssumption DEF ControlInv, RequestOK, RequestInput
<1>3. PICK k \in Keys : k = input[r].keys[i]
  BY <1>0, <1>1, <1>2 DEF Answered
<1>4. PICK res : res = results[r][i]
  OBVIOUS
<1>5. Justified(r, k, res)
  BY <1>3, <1>4 DEF AnswerInv, AnswerReflectsWindow
<1>6. Justified(r, k, res)'
  BY <1>1, <1>5, JustifiedStays
<1>7. input'[r] = input[r]
  BY <1>1, HistoryGrows
<1> QED
  BY <1>3, <1>4, <1>6, <1>7 DEF Justified

\* Returning a justified result keeps every answer justified and in order.
LEMMA ReturnAnswers ==
  ASSUME ControlInv, AnswerInv, [Next]_vars,
         NEW q \in Requests, Active(q), NEW res, Return(q, res),
         res.key = CurrentKey(q), Justified(q, CurrentKey(q), res),
         failed' = IF res.reason = "error"
                   THEN [failed EXCEPT ![q] = @ \cup {Position(q)}] ELSE failed
  PROVE  AnswerInv'
<1>0. TypeOK
  BY DEF ControlInv
<1>1. ASSUME NEW r \in Requests
      PROVE  /\ \A i \in Answered(r)' :
                  /\ Justified(r, input[r].keys[i], results[r][i])'
                  /\ results'[r][i].key = input'[r].keys[i]
                  /\ results'[r][i].reason = "error" <=> i \in failed'[r]
             /\ failed'[r] \subseteq Answered(r)'
  <2>1. /\ results[r] \in Seq(EvaluationResult) /\ input'[r] = input[r]
        /\ failed[r] \subseteq Answered(r)
    BY <1>0 DEF TypeOK, Return, AnswerInv
  <2>2. ASSUME NEW i \in Answered(r)
        PROVE  /\ results'[r][i] = results[r][i] =>
                    Justified(r, input[r].keys[i], results[r][i])'
               /\ results[r][i].key = input[r].keys[i]
               /\ results[r][i].reason = "error" <=> i \in failed[r]
    BY <2>1, <2>2, AnswerStays DEF AnswerInv
  <2>3. CASE r # q
    <3>1. results'[r] = results[r] /\ failed'[r] = failed[r]
      BY <1>0, <2>3 DEF Return, TypeOK
    <3> QED
      BY <2>1, <2>2, <3>1 DEF Answered
  <2>4. CASE r = q
    <3>1. /\ results'[r] = Append(results[r], res)
          /\ failed'[r] = IF res.reason = "error"
                          THEN failed[r] \cup {Position(r)} ELSE failed[r]
      BY <1>0, <2>4 DEF Return, TypeOK
    <3>2. /\ Answered(r)' = Answered(r) \cup {Position(r)}
          /\ Position(r) \notin Answered(r)
          /\ results'[r][Position(r)] = res
          /\ \A i \in Answered(r) : results'[r][i] = results[r][i]
      BY <2>1, <3>1 DEF Answered, Position
    <3>3. PICK k \in Keys : k = CurrentKey(r)
      BY <2>4, CurrentKeyType
    <3>4. Justified(r, k, res)'
      BY <2>4, <3>3, JustifiedStays DEF Active
    <3>5. results'[r][Position(r)] = res /\ input'[r].keys[Position(r)] = k
      BY <2>1, <3>2, <3>3 DEF CurrentKey
    <3>6. res.reason = "error" <=> Position(r) \in failed'[r]
      BY <2>1, <3>1, <3>2
    <3>7. ASSUME NEW i \in Answered(r)', i \notin Answered(r)
          PROVE  /\ Justified(r, input[r].keys[i], results[r][i])'
                 /\ results'[r][i].key = input'[r].keys[i]
                 /\ results'[r][i].reason = "error" <=> i \in failed'[r]
      <4>1. i = Position(r)
        BY <3>2, <3>7
      <4>2. results'[r][i] = res /\ input'[r].keys[i] = k
        BY <3>5, <4>1
      <4>3. Justified(r, input[r].keys[i], results[r][i])'
        BY <3>4, <4>2 DEF Justified
      <4> QED
        BY <2>4, <3>3, <3>6, <4>1, <4>2, <4>3
    <3>8. ASSUME NEW i \in Answered(r)
          PROVE  /\ Justified(r, input[r].keys[i], results[r][i])'
                 /\ results'[r][i].key = input'[r].keys[i]
                 /\ results'[r][i].reason = "error" <=> i \in failed'[r]
      <4>1. results'[r][i] = results[r][i] /\ i # Position(r)
        BY <3>2
      <4>2. i \in failed'[r] <=> i \in failed[r]
        BY <3>1, <4>1
      <4> QED
        BY <2>1, <2>2, <4>1, <4>2
    <3>9. failed'[r] \subseteq Answered(r)'
      BY <2>1, <3>1, <3>2
    <3> QED
      BY <3>7, <3>8, <3>9
  <2> QED
    BY <2>3, <2>4
<1> QED
  BY <1>1 DEF AnswerInv, AnswerReflectsWindow

\* A step that answers nothing keeps every answer justified and in order.
LEMMA NoReturnAnswers ==
  ASSUME ControlInv, AnswerInv, [Next]_vars, UNCHANGED << results, failed >>
  PROVE  AnswerInv'
<1>1. ASSUME NEW r \in Requests, NEW i \in Answered(r)
      PROVE  /\ Justified(r, input[r].keys[i], results[r][i])'
             /\ input'[r] = input[r]
  <2>1. pc[r] # "idle"
    BY <1>1 DEF ControlInv, RequestOK, Answered
  <2> QED
    BY <1>1, <2>1, AnswerStays, HistoryGrows
<1> QED
  BY <1>1 DEF AnswerInv, AnswerReflectsWindow, Answered

LEMMA AnswerStep ==
  ControlInv /\ WindowInv /\ AnswerInv /\ [Next]_vars => AnswerInv'
<1> SUFFICES ASSUME ControlInv, WindowInv, AnswerInv, [Next]_vars
             PROVE  AnswerInv'
  OBVIOUS
<1> USE DEF persistenceVars, requestVars, historyVars
<1>0. TypeOK /\ \A q \in Requests : RequestOK(q)
  BY DEF ControlInv
<1>1. ASSUME NEW q \in Requests, ReadFlagFails(q)
      PROVE  AnswerInv'
  <2> DEFINE res == Result(CurrentKey(q), FALSE, NoVariant, "error")
  <2>1. /\ res.key = CurrentKey(q) /\ res.reason = "error"
        /\ Justified(q, CurrentKey(q), res)
    BY DEF Result, Justified
  <2>2. Return(q, res) /\ Active(q)
    BY <1>1 DEF ReadFlagFails, Active
  <2> HIDE DEF res
  <2> QED
    BY <1>1, <2>1, <2>2, ReturnAnswers DEF ReadFlagFails
<1>2. ASSUME NEW q \in Requests, EvaluateFlag(q)
      PROVE  AnswerInv'
  <2>1. Active(q) /\ UNCHANGED failed
    BY <1>2 DEF EvaluateFlag, Active
  <2> DEFINE d == flags[input[q].tenant][CurrentKey(q)]
  <2>2. PICK res \in Immediate(q, d) : Return(q, res)
    BY <1>2 DEF EvaluateFlag
  <2>3. d \in Definitions \cup {NoFlag} /\ d \in window[q][CurrentKey(q)]
    BY <1>0, <2>1, CurrentKeyType DEF TypeOK, RequestInput, WindowInv
  <2>4. ~ NeedsAssignment(d)
    BY <1>2 DEF EvaluateFlag
  <2> HIDE DEF d
  <2>5. res.key = CurrentKey(q) /\ res.reason \notin {"error", "persisted"}
    BY <2>1, <2>2, <2>3, CurrentKeyType, ImmediateType
  <2>6. Justified(q, CurrentKey(q), res)
    <3>1. CASE d = NoFlag
      <4>1. res = Result(CurrentKey(q), FALSE, NoVariant, "not_found")
        BY <2>2, <3>1 DEF Immediate
      <4> QED
        BY <2>3, <3>1, <4>1 DEF Justified, Result
    <3>2. CASE d # NoFlag /\ ~ d.enabled
      <4>1. res = Result(CurrentKey(q), FALSE, NoVariant, "disabled")
        BY <2>2, <3>2 DEF Immediate
      <4> QED
        BY <2>3, <3>2, <4>1 DEF Justified, Result
    <3>3. CASE d # NoFlag /\ d.enabled
      <4>1. PICK o \in Evaluated(q, d) :
              res = Result(o.key, o.enabled, o.variant,
                           IF d.semantics = "persistent" THEN "no_persistence"
                                                         ELSE o.reason)
        BY <2>2, <3>3 DEF Immediate
      <4>2. d \in FlagDefinition
        BY <2>3, <3>3, DefinitionsAssumption
      <4>3. o \in EvaluationResult
        BY <2>1, <4>1, <4>2, CurrentKeyType, OutcomesType DEF Evaluated
      <4>4. res = o \/ res = Result(o.key, o.enabled, o.variant, "no_persistence")
        BY <4>1, <4>3 DEF Result, EvaluationResult
      <4> QED
        BY <2>1, <2>3, <3>3, <4>1, <4>4, EvaluatedJustified
    <3> QED
      BY <3>1, <3>2, <3>3
  <2> QED
    BY <2>1, <2>2, <2>5, <2>6, ReturnAnswers
<1>3. ASSUME NEW q \in Requests, AssignmentHit(q)
      PROVE  AnswerInv'
  <2>1. Active(q) /\ pc[q] = "assignment" /\ UNCHANGED failed
    BY <1>3 DEF AssignmentHit, Active
  <2> DEFINE res == Result(CurrentKey(q), Assigned(q).enabled,
                           Assigned(q).variant, "persisted")
  <2>2. /\ input[q].tenant \in Tenants /\ input[q].subject \in Subjects
        /\ CurrentKey(q) \in Keys
    BY <2>1, CurrentKeyType DEF RequestInput
  <2>3. Assigned(q) \in EvalResult /\
        Assigned(q) \in stored[input[q].tenant][input[q].subject][CurrentKey(q)]
    <3>1. Assigned(q) # NoAssignment
      BY <1>3 DEF AssignmentHit
    <3>2. Assigned(q) \in EvalResult
      BY <1>0, <2>2, <3>1 DEF TypeOK, Assigned
    <3>3. Assigned(q) \in stored[input[q].tenant][input[q].subject][CurrentKey(q)]
      BY <2>2, <3>1 DEF Assigned, WindowInv
    <3> QED
      BY <3>2, <3>3
  <2>4. AnswerOf(res) = Assigned(q)
    BY <2>3 DEF AnswerOf, Result, EvalResult
  <2>5. NeedsAssignment(flag[q]) /\ flag[q] \in window[q][CurrentKey(q)]
    BY <1>0, <2>1 DEF RequestOK, WindowInv
  <2>6. Return(q, res) /\ res.key = CurrentKey(q) /\ res.reason = "persisted"
    BY <1>3 DEF AssignmentHit, Result
  <2> HIDE DEF res
  <2>7. Justified(q, CurrentKey(q), res)
    BY <2>3, <2>4, <2>5, <2>6 DEF Justified
  <2> QED
    BY <2>1, <2>6, <2>7, ReturnAnswers
<1>4. ASSUME NEW q \in Requests, pc[q] = "save", Return(q, computed[q]),
             UNCHANGED failed
      PROVE  AnswerInv'
  <2>1. /\ Active(q) /\ flag[q] \in Definitions /\ flag[q].enabled
        /\ flag[q] \in window[q][CurrentKey(q)]
        /\ computed[q] \in Evaluated(q, flag[q])
    BY <1>0, <1>4 DEF Active, RequestOK, NeedsAssignment, WindowInv
  <2>2. Justified(q, CurrentKey(q), computed[q])
    BY <2>1, EvaluatedJustified
  <2>3. computed[q].key = CurrentKey(q) /\ computed[q].reason # "error"
    BY <1>4, SavedType
  <2> QED
    BY <1>4, <2>1, <2>2, <2>3, ReturnAnswers
<1>5. CASE \E q \in Requests : Begin(q) \/ Reject(q) \/ Step(q)
  BY <1>1, <1>2, <1>3, <1>4, <1>5, NoReturnAnswers
     DEF Begin, Reject, Step, ReadPersistentFlag, AssignmentMiss, Compute,
         AssignmentReadFails, SaveCommits, SaveFails, SaveTimesOut
<1>6. CASE Module \/ Management \/ UNCHANGED vars
  BY <1>6, NoReturnAnswers
     DEF Module, Management, LateSaveCommits, LateSaveLost, SetFlag, DeleteFlag,
         Reload, vars
<1> QED
  BY <1>5, <1>6 DEF Next

AnswersInductive == ControlInv /\ WindowInv /\ AnswerInv

LEMMA AnswersInvariant == Spec => []AnswersInductive
<1>1. Init => AnswersInductive
  BY ControlInit, WindowInit DEF AnswersInductive
<1>2. AnswersInductive /\ [Next]_vars => AnswersInductive'
  BY ControlStep, WindowStep, AnswerStep DEF AnswersInductive
<1> QED
  BY <1>1, <1>2, PTL DEF Spec

\* Every answer follows from a definition its key had while the request was
\* served, or from an assignment saved for that tenant, subject and key.
THEOREM AnswersAreCurrent == Spec => []AnswerReflectsWindow
BY AnswersInvariant, PTL DEF AnswersInductive, AnswerInv

\* A flag that is off for as long as a request is served is off in its answer.
THEOREM KillSwitchWorks == Spec => []KillSwitch
<1>1. ControlInv /\ AnswerInv => KillSwitch
  <2> SUFFICES ASSUME ControlInv, AnswerInv, NEW r \in Requests,
                      NEW i \in Answered(r), results[r][i].enabled
               PROVE  \E d \in window[r][input[r].keys[i]] : d # NoFlag /\ d.enabled
    BY DEF KillSwitch
  <2>1. Justified(r, input[r].keys[i], results[r][i])
    BY DEF AnswerInv, AnswerReflectsWindow
  <2>2. results[r][i] \in EvaluationResult
    BY DEF ControlInv, TypeOK, Answered
  <2>3. results[r][i].reason \in {"persisted", "rule_match", "default",
                                 "no_persistence"}
    BY <2>1, <2>2 DEF Justified, EvaluationResult, Reasons
  <2> QED
    BY <2>1, <2>3 DEF Justified, NeedsAssignment, Explains
<1> QED
  BY <1>1, AnswersInvariant, PTL DEF AnswersInductive

\* One failing key of a batch takes no other with it.
THEOREM BatchesAreIndependent == Spec => []BatchIndependence
<1>1. ControlInv /\ AnswerInv => BatchIndependence
  BY DEF ControlInv, RequestOK, AnswerInv, BatchIndependence
<1> QED
  BY <1>1, AnswersInvariant, PTL DEF AnswersInductive

=============================================================================

----------------------------- MODULE FlagRules -----------------------------
(***************************************************************************)
(* The rules of a flag: which answers engine.evaluateRules may give for a  *)
(* flag definition, a tenant, a subject and a context of attributes.       *)
(*                                                                         *)
(* A context stands for the attributes and the environment of a request; a *)
(* rule's conditions are represented by the set of contexts all of them    *)
(* match.  The hash behind the rollout is any fixed function Bucket into   *)
(* 0..99; the draw of a random flag is free.                               *)
(***************************************************************************)
EXTENDS Integers, Sequences

CONSTANTS Tenants, Subjects, Keys, Contexts, Variants,
          NoVariant,      \* the empty variant string
          Bucket          \* Bucket[t, k, s]: the bucket of a subject

ASSUME BucketAssumption == Bucket \in [Tenants \X Keys \X Subjects -> 0 .. 99]
ASSUME VariantAssumption == NoVariant \in Variants

-----------------------------------------------------------------------------
(* Data *)

\* Any other semantics string the API accepts is evaluated as "deterministic".
Semantics == {"deterministic", "random", "persistent"}

Reasons == {"rule_match", "default", "persisted", "no_persistence",
            "disabled", "not_found", "error"}

Rule == [match : SUBSET Contexts, rolloutPercentage : Int, variant : Variants]

EvalResult == [enabled : BOOLEAN, variant : Variants]

FlagDefinition == [semantics : Semantics, enabled : BOOLEAN,
                   rules : Seq(Rule), defaultResult : EvalResult]

EvaluationResult == [key : Keys, enabled : BOOLEAN, variant : Variants,
                     reason : Reasons]

Result(k, enabled, variant, reason) ==
    [key |-> k, enabled |-> enabled, variant |-> variant, reason |-> reason]

-----------------------------------------------------------------------------
(* Rollout *)

InRollout(t, k, s, percentage) ==
    /\ percentage > 0
    /\ percentage >= 100 \/ Bucket[t, k, s] < percentage

\* subjectInRollout may answer true, and may answer false: both are possible
\* only for a random flag strictly between 0 and 100.
MayEnter(d, t, k, s, percentage) ==
    IF d.semantics = "random" THEN percentage > 0
                              ELSE InRollout(t, k, s, percentage)

MayMiss(d, t, k, s, percentage) ==
    IF d.semantics = "random" THEN percentage < 100
                              ELSE ~ InRollout(t, k, s, percentage)

-----------------------------------------------------------------------------
(* First match wins *)

MayTake(d, t, k, s, c, i) ==
    /\ c \in d.rules[i].match
    /\ MayEnter(d, t, k, s, d.rules[i].rolloutPercentage)

MaySkip(d, t, k, s, c, i) ==
    c \in d.rules[i].match => MayMiss(d, t, k, s, d.rules[i].rolloutPercentage)

Outcomes(d, t, k, s, c) ==
    { Result(k, TRUE, d.rules[i].variant, "rule_match") :
        i \in { j \in DOMAIN d.rules :
                  /\ MayTake(d, t, k, s, c, j)
                  /\ \A h \in 1 .. j - 1 : MaySkip(d, t, k, s, c, h) } }
    \cup
    { Result(k, d.defaultResult.enabled, d.defaultResult.variant, "default") :
        x \in { y \in {0} : \A h \in DOMAIN d.rules :
                              MaySkip(d, t, k, s, c, h) } }

=============================================================================

---------------------------- MODULE MCEvaluation ----------------------------
(***************************************************************************)
(* Small instances of Evaluation for TLC.                                  *)
(***************************************************************************)
EXTENDS Evaluation, TLC

CONSTANTS r1, r2, r3, t1, t2, s1, k1, k2, c1, c2, a, b

\* Bucket 30 for every subject: rollouts of 20 and 50 tell in from out.
MCBucket == [x \in Tenants \X Keys \X Subjects |-> 30]

Always(percentage, variant) ==
  [match |-> Contexts, rolloutPercentage |-> percentage, variant |-> variant]

When(c, percentage, variant) ==
  [match |-> {c}, rolloutPercentage |-> percentage, variant |-> variant]

Define(semantics, enabled, rules, on, variant) ==
  [semantics |-> semantics, enabled |-> enabled, rules |-> rules,
   defaultResult |-> [enabled |-> on, variant |-> variant]]

\* Persistent, told apart by context; the first rule's rollout leaves s1 out.
Sticky == Define("persistent", TRUE,
                 << Always(20, b), When(c1, 50, a) >>, FALSE, NoVariant)
\* The same flag, later: everybody gets b.
Moved == Define("persistent", TRUE, << >>, TRUE, b)
Killed == Define("persistent", FALSE, << Always(100, a) >>, TRUE, a)
Plain == Define("deterministic", TRUE, << When(c2, 100, b) >>, TRUE, a)
Random == Define("random", TRUE,
                 << Always(0, a), Always(50, b), Always(100, a) >>, FALSE, a)

Ask(t, c, keys) == [tenant |-> t, subject |-> s1, context |-> c, keys |-> keys]

\* Two contexts of one subject.
SingleInputs == { Ask(t1, c1, <<k1>>), Ask(t1, c2, <<k1>>) }
\* A batch that asks a key twice, one without keys, and the same keys of
\* another tenant.
BatchInputs == { Ask(t1, c1, <<k1, k2, k1>>), Ask(t1, c1, << >>),
                 Ask(t2, c2, <<k1>>) }
AllInputs == SingleInputs \cup BatchInputs

StickyDefinitions == {Sticky}
MovingDefinitions == {Sticky, Moved, Killed}
FileDefinitions == {Sticky, Plain, Killed, Random}

=============================================================================

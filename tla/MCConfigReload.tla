--------------------------- MODULE MCConfigReload ---------------------------
(***************************************************************************)
(* A small instance of ConfigReload for TLC: two tenants, a directory in   *)
(* which one of them has two files, and a single file of both; and what    *)
(* the rules of a file mean, from MCRules.  The two share nothing, so a    *)
(* rule is asked about in one initial state only, in place of a load.      *)
(***************************************************************************)
EXTENDS MCEvaluation, ConfigReload, MCRules

CONSTANTS x1, x2

MCListing == [directory |-> << "acme.yaml", "acme.yml", "globex.yaml" >>,
              file |-> << "flags.yaml" >>]

Says1(d) == [k \in Keys |-> d]

Entries(x, scope) == << [key |-> x, scope |-> scope] >>

Part(d, entries) == [flags |-> Says1(d), complete |-> TRUE, apiKeys |-> entries]

Keyless == [Part(Plain, << >>) EXCEPT !.complete = FALSE]

MCOffered ==
  ("acme.yaml" :> { Missing, Broken, t1 :> Part(Sticky, Entries(x1, "management")),
                    t1 :> Part(Killed, << >>) })
  @@ ("acme.yml" :> { Missing, t1 :> Part(Plain, << >>) })
  @@ ("globex.yaml" :> { Missing, t2 :> Keyless,
                         t2 :> Part(Random, << [key |-> x1, scope |-> "management"],
                                               [key |-> x1, scope |-> "evaluation"],
                                               [key |-> x2, scope |-> "evaluation"] >>) })
  @@ ("flags.yaml" :> { Missing,
                        t1 :> Part(Killed, Entries(x2, "other")),
                        (t1 :> Part(Sticky, << >>)) @@ (t2 :> Part(Sticky, << >>)),
                        (t1 :> Part(Plain, << >>)) @@ (t2 :> Part(Random, << >>)) })

MCEnvironment == Entries(x1, "evaluation")

MCInit == ReloadInit /\ RulesInit

\* Nothing is loaded yet, and there is nothing to load.
Bare == /\ ReloadInit
        /\ layout = "directory" /\ reachable /\ \A n \in Files : ~ Present(n)

MCNext ==
  \/ question = NoQuestion /\ ReloadNext /\ UNCHANGED rulesVars
  \/ Bare /\ EvaluateRule /\ UNCHANGED reloadVars

MCSpec == /\ MCInit /\ [][MCNext]_<< reloadVars, rulesVars >>
          /\ WF_reloadVars(question = NoQuestion /\ Loading)
          /\ WF_reloadVars(TakeSignal)

MCInputs == { Ask(t1, c1, <<k1, k1>>) }

=============================================================================

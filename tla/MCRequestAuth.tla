--------------------------- MODULE MCRequestAuth ---------------------------
(***************************************************************************)
(* Small instances of RequestAuth for TLC.                                 *)
(***************************************************************************)
EXTENDS RequestAuth, TLC

CONSTANTS r1, r2, r3, k1, k2, p1, p2, t1, raw1, raw2

\* k1 is joined by k2, which goes again, or names another key.
Rotations == { [kid \in Kids |-> IF kid = k1 THEN p1 ELSE NoKey],
               [kid \in Kids |-> IF kid = k1 THEN p1 ELSE p2],
               [kid \in Kids |-> IF kid = k1 THEN p2 ELSE NoKey] }

TokenBy(kid, signer, tenant, scope) ==
  [wellFormed |-> TRUE, kid |-> kid, signer |-> signer, valid |-> TRUE,
   claims |-> [tenant |-> tenant, scope |-> scope]]

Reads == [needs |-> "management", writes |-> FALSE]
Writes == [needs |-> "management", writes |-> TRUE]
Evaluates == [needs |-> "evaluation", writes |-> TRUE]

With(token, route) == [scheme |-> "bearer", token |-> token, route |-> route]

BearerAsks ==
  { With(TokenBy(k1, p1, t1, "evaluation"), Evaluates),
    With(TokenBy(k2, p2, t1, "evaluation"), Reads),
    With(TokenBy(NoKid, p2, t1, "management"), Reads),
    With(TokenBy(k1, p1, NoTenant, "management"), Reads) }

OtherAsks ==
  { [scheme |-> "none", route |-> Evaluates],
    [scheme |-> "apikey", raw |-> raw1, route |-> Writes],
    [scheme |-> "apikey", raw |-> raw2, route |-> Evaluates] }

AllAsks == BearerAsks \cup OtherAsks

MCKeyStore ==
  [raw \in RawKeys |-> IF raw = raw1 THEN [tenant |-> t1, scope |-> "evaluation"]
                                     ELSE NoEntry]

Started(jwt, claim) == [authDisabled |-> FALSE, jwtEnabled |-> jwt,
                        scopeClaim |-> claim, readOnly |-> FALSE]

AllConfigs == { Started(TRUE, TRUE), Started(FALSE, FALSE),
                [Started(FALSE, FALSE) EXCEPT !.authDisabled = TRUE,
                                              !.readOnly = TRUE] }

NoScopeClaim == { Started(TRUE, FALSE) }

=============================================================================

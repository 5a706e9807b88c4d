---------------------------- MODULE RequestAuth ----------------------------
(***************************************************************************)
(* From the Authorization header to the handler: the middleware chain of   *)
(* api.NewRouter (authentication, tenant, read-only mode, scope) and the   *)
(* JWT validator (internal/auth/jwt.go) behind it.                         *)
(*                                                                         *)
(* API keys are looked up in a map that is filled at start-up.  Tokens are *)
(* verified with keys cached from an endpoint, which rotates them.  A      *)
(* request takes the mutex of the cache to see whether it is fresh, to     *)
(* look up a key and to swap the whole cache; it fetches without holding   *)
(* it, so the fetches of concurrent requests overlap, and the answer that  *)
(* was given first may be the last one to be swapped in.                   *)
(***************************************************************************)
CONSTANTS Requests,       \* the HTTP requests, each handled once
          Asks,           \* what they may ask
          Kids,           \* names of public keys
          PublicKeys,
          KeySets,        \* what the endpoint may publish
          Tenants,
          RawKeys, KeyStore,  \* KeyStore[raw]: whose the API key raw is
          Configs,        \* the configurations of the core
          HasFaults,      \* whether fetches may fail
          NoKid, NoKey, NoTenant, NoScope, NoEntry, NoAsk,
          DefaultTenant

Scopes == {"evaluation", "management"}

\* A credential's tenant and scope.
Identity == [tenant : Tenants \cup {NoTenant}, scope : Scopes \cup {NoScope}]

\* A token: whether it parses with an accepted algorithm, the key it names, the
\* one that signed it, whether its issuer, audience and expiry are right, and
\* what it claims.
Token == [wellFormed : BOOLEAN, kid : Kids \cup {NoKid}, signer : PublicKeys,
          valid : BOOLEAN, claims : Identity]

Route == [needs : Scopes, writes : BOOLEAN]

Ask == [scheme : {"none", "other"}, route : Route] \cup
       [scheme : {"apikey"}, raw : RawKeys, route : Route] \cup
       [scheme : {"bearer"}, token : Token, route : Route]

Config == [authDisabled : BOOLEAN, jwtEnabled : BOOLEAN,
           scopeClaim : BOOLEAN, readOnly : BOOLEAN]

KeySet == [Kids -> PublicKeys \cup {NoKey}]

ASSUME AsksAssumption == Asks \subseteq Ask
ASSUME ConfigsAssumption == Configs \subseteq Config
ASSUME KeySetsAssumption == KeySets \subseteq KeySet
ASSUME KeyStoreAssumption ==
  KeyStore \in [RawKeys -> [tenant : Tenants, scope : Scopes] \cup {NoEntry}]
ASSUME NullAssumption ==
  /\ NoKid \notin Kids /\ NoKey \notin PublicKeys
  /\ NoTenant \notin Tenants /\ DefaultTenant \in Tenants
  /\ NoScope \notin Scopes /\ NoAsk \notin Ask
  /\ NoEntry \notin [tenant : Tenants, scope : Scopes]
ASSUME FaultsAssumption == HasFaults \in BOOLEAN

VARIABLES
  config,     \* how the core was started
  published,  \* the keys the endpoint publishes
  cached,     \* the validator's keys
  expired,    \* whether the last swap is five minutes old
  pc,         \* where each request is
  ask,        \* what it asks
  missed,     \* whether it fetches because its key was not in the cache
  response,   \* the keys it was sent and has not swapped in
  reply,      \* the HTTP status it is answered with, 200 if the handler is called
  (* History, read by no action of the program *)
  served,     \* every key set ever published
  current,    \* its key was published at some moment since the request began
  fresh,      \* the request found the cache younger than five minutes
  older,      \* the others' answers on their way since before it began
  overtaken,  \* one of those was swapped in while it ran
  steady,     \* its key is in all sets it may meet
  failed      \* a fetch of its own failed

cacheVars == << config, published, cached, expired, served >>
requestVars == << pc, ask, missed, response, reply >>
historyVars == << current, fresh, older, overtaken, steady, failed >>
vars == << cacheVars, requestVars, historyVars >>

-----------------------------------------------------------------------------
(* Types *)

NoKeys == [kid \in Kids |-> NoKey]

PCs == {"idle", "ensure", "lookup", "fetch", "install", "relookup", "done"}

TypeOK ==
  /\ config \in Configs
  /\ published \in KeySets
  /\ cached \in KeySets \cup {NoKeys}
  /\ expired \in BOOLEAN
  /\ pc \in [Requests -> PCs]
  /\ ask \in [Requests -> Asks \cup {NoAsk}]
  /\ missed \in [Requests -> BOOLEAN]
  /\ response \in [Requests -> KeySets \cup {NoKeys}]
  /\ reply \in [Requests -> {0, 200, 401, 403, 409}]
  /\ served \subseteq KeySets
  /\ current \in [Requests -> BOOLEAN]
  /\ fresh \in [Requests -> BOOLEAN]
  /\ older \in [Requests -> SUBSET Requests]
  /\ overtaken \in [Requests -> BOOLEAN]
  /\ steady \in [Requests -> BOOLEAN]
  /\ failed \in [Requests -> BOOLEAN]

No == [r \in Requests |-> FALSE]

Init ==
  /\ config \in Configs
  /\ published \in KeySets
  /\ cached = NoKeys
  /\ expired = TRUE
  /\ pc = [r \in Requests |-> "idle"]
  /\ ask = [r \in Requests |-> NoAsk]
  /\ missed = No
  /\ response = [r \in Requests |-> NoKeys]
  /\ reply = [r \in Requests |-> 0]
  /\ served = {published}
  /\ current = No /\ fresh = No /\ overtaken = No /\ steady = No /\ failed = No
  /\ older = [r \in Requests |-> {}]

-----------------------------------------------------------------------------
(* The chain behind authentication *)

\* Mutant: any scope will do.
Covers_Any(scope, needed) == scope \in Scopes

Covers(scope, needed) == scope = "management" \/ scope = needed

\* TenantResolver, ReadOnly (in front of the management routes only) and
\* RequireScope, in this order.
Routed(route, id) ==
  IF id.tenant = NoTenant /\ ~ config.authDisabled THEN 401
  ELSE IF config.readOnly /\ route.writes /\ route.needs = "management" THEN 409
  ELSE IF ~ config.authDisabled /\ ~ Covers(id.scope, route.needs) THEN 403
  ELSE 200

Answer(r, code) ==
  /\ reply' = [reply EXCEPT ![r] = code]
  /\ pc' = [pc EXCEPT ![r] = "done"]

-----------------------------------------------------------------------------
(* Requests that need no token *)

\* The request is a, and is answered at once.
AnswerAtOnce(r, a, code) ==
  /\ pc[r] = "idle"
  /\ ask' = [ask EXCEPT ![r] = a]
  /\ Answer(r, code)
  /\ UNCHANGED << cacheVars, missed, response, historyVars >>

\* Authentication is off: every request is the default tenant's.
Bypass(r) ==
  /\ config.authDisabled
  /\ \E a \in Asks :
       AnswerAtOnce(r, a, Routed(a.route, [tenant |-> DefaultTenant,
                                           scope |-> NoScope]))

\* The header is missing, malformed or of another scheme, or JWT is not set up.
Refuse(r) ==
  /\ ~ config.authDisabled
  /\ \E a \in Asks :
       /\ a.scheme \in {"none", "other"} \/
            (a.scheme = "bearer" /\ ~ config.jwtEnabled)
       /\ AnswerAtOnce(r, a, 401)

ApiKey(r) ==
  /\ ~ config.authDisabled
  /\ \E a \in Asks :
       /\ a.scheme = "apikey"
       /\ AnswerAtOnce(r, a, IF KeyStore[a.raw] = NoEntry THEN 401
                             ELSE Routed(a.route, KeyStore[a.raw]))

-----------------------------------------------------------------------------
(* Tokens *)

Active(r) == pc[r] \in PCs \ {"idle", "done"}

TokenOf(r) == ask[r].token

\* The key of set that the token t names, or none.
Named(set, t) == IF t.kid \in Kids THEN set[t.kid] ELSE NoKey

Signed(set, t) == Named(set, t) = t.signer

\* All the sets the token t may meet from now on hold its key, or do not name it
\* yet.
StartsSteady(t) ==
  /\ Signed(published, t)
  /\ Named(cached, t) \in {t.signer, NoKey}
  /\ \A q \in Requests : pc[q] = "install" => Signed(response[q], t)

BeginBearer(r) ==
  /\ pc[r] = "idle"
  /\ ~ config.authDisabled /\ config.jwtEnabled
  /\ \E a \in Asks :
       /\ a.scheme = "bearer"
       /\ ask' = [ask EXCEPT ![r] = a]
       /\ current' = [current EXCEPT ![r] = Signed(published, a.token)]
       /\ steady' = [steady EXCEPT ![r] = StartsSteady(a.token)]
  /\ older' = [older EXCEPT ![r] = { q \in Requests : pc[q] = "install" }]
  /\ pc' = [pc EXCEPT ![r] = "ensure"]
  /\ UNCHANGED << cacheVars, missed, response, reply, fresh, overtaken, failed >>

\* Mutant: keys are fetched once and kept.
Fresh_Forever == cached # NoKeys

\* There are keys, and they are younger than refreshTTL.
Fresh == cached # NoKeys /\ ~ expired

\* ensureKeys looks at the cache.
EnsureKeys(r) ==
  /\ pc[r] = "ensure"
  /\ pc' = [pc EXCEPT ![r] = IF Fresh THEN "lookup" ELSE "fetch"]
  /\ fresh' = [fresh EXCEPT ![r] = ~ expired]
  /\ UNCHANGED << cacheVars, ask, missed, response, reply,
                  current, older, overtaken, steady, failed >>

\* What a token claims: its scope counts if there is a claim to read it from.
Claimed(t) == [tenant |-> t.claims.tenant,
               scope |-> IF config.scopeClaim THEN t.claims.scope ELSE NoScope]

\* The status of a token whose key is found: its signature, then its issuer,
\* audience and expiry, then its tenant.
Verified(r, key) ==
  IF key = TokenOf(r).signer /\ TokenOf(r).valid
  THEN Routed(ask[r].route, Claimed(TokenOf(r))) ELSE 401

\* jwt.Parse gives the token up before or in keyFunc.
Unparsed(r) ==
  /\ pc[r] = "lookup"
  /\ ~ TokenOf(r).wellFormed \/ TokenOf(r).kid = NoKid
  /\ Answer(r, 401)
  /\ UNCHANGED << cacheVars, ask, missed, response, historyVars >>

Parsed(r) == TokenOf(r).wellFormed /\ TokenOf(r).kid # NoKid

\* keyFunc finds the key.
Hit(r) ==
  /\ pc[r] = "lookup" /\ Parsed(r)
  /\ Named(cached, TokenOf(r)) # NoKey
  /\ Answer(r, Verified(r, Named(cached, TokenOf(r))))
  /\ UNCHANGED << cacheVars, ask, missed, response, historyVars >>

\* Mutant: a key that is not in the cache is refused.
Miss_Refused(r) ==
  /\ pc[r] = "lookup" /\ Parsed(r)
  /\ Named(cached, TokenOf(r)) = NoKey
  /\ Answer(r, 401)
  /\ UNCHANGED << cacheVars, ask, missed, response, historyVars >>

\* keyFunc does not find the key, and fetches anew.
Miss(r) ==
  /\ pc[r] = "lookup" /\ Parsed(r)
  /\ Named(cached, TokenOf(r)) = NoKey
  /\ pc' = [pc EXCEPT ![r] = "fetch"]
  /\ missed' = [missed EXCEPT ![r] = TRUE]
  /\ UNCHANGED << cacheVars, ask, response, reply, historyVars >>

\* The endpoint answers with the keys it publishes.
Fetch(r) ==
  /\ pc[r] = "fetch"
  /\ response' = [response EXCEPT ![r] = published]
  /\ pc' = [pc EXCEPT ![r] = "install"]
  /\ UNCHANGED << cacheVars, ask, missed, reply, historyVars >>

\* The fetch fails, or its answer is lost, late or not understood.
FetchFails(r) ==
  /\ pc[r] \in {"fetch", "install"} /\ HasFaults
  /\ Answer(r, 401)
  /\ failed' = [failed EXCEPT ![r] = TRUE]
  /\ response' = [response EXCEPT ![r] = NoKeys]
  /\ older' = [q \in Requests |-> older[q] \ {r}]
  /\ UNCHANGED << cacheVars, ask, missed, current, fresh, overtaken, steady >>

\* Mutant: new keys are added to those in the cache.
Swapped_Merged(r) ==
  [kid \in Kids |-> IF response[r][kid] = NoKey THEN cached[kid]
                                                ELSE response[r][kid]]

\* The cache after the swap.
Swapped(r) == response[r]

\* fetchKeys swaps the cache.
Install(r) ==
  /\ pc[r] = "install"
  /\ cached' = Swapped(r)
  /\ expired' = FALSE
  /\ response' = [response EXCEPT ![r] = NoKeys]
  /\ pc' = [pc EXCEPT ![r] = IF missed[r] THEN "relookup" ELSE "lookup"]
  /\ overtaken' = [q \in Requests |-> overtaken[q] \/ (Active(q) /\ r \in older[q])]
  /\ older' = [q \in Requests |-> older[q] \ {r}]
  /\ UNCHANGED << config, published, served, ask, missed, reply,
                  current, fresh, steady, failed >>

\* Mutant: keyFunc goes on fetching until it finds the key.
Relookup_Again(r) ==
  /\ pc[r] = "relookup"
  /\ IF Named(cached, TokenOf(r)) = NoKey
     THEN pc' = [pc EXCEPT ![r] = "fetch"] /\ UNCHANGED reply
     ELSE Answer(r, Verified(r, Named(cached, TokenOf(r))))
  /\ UNCHANGED << cacheVars, ask, missed, response, historyVars >>

\* keyFunc looks once more.
Relookup(r) ==
  /\ pc[r] = "relookup"
  /\ Answer(r, IF Named(cached, TokenOf(r)) = NoKey THEN 401
               ELSE Verified(r, Named(cached, TokenOf(r))))
  /\ UNCHANGED << cacheVars, ask, missed, response, historyVars >>

-----------------------------------------------------------------------------
(* The world *)

\* Five minutes have passed since the last swap.
Expire ==
  /\ ~ expired
  /\ expired' = TRUE
  /\ UNCHANGED << config, published, cached, served, requestVars, historyVars >>

\* The endpoint publishes other keys.
Rotate(new) ==
  /\ new # published
  /\ published' = new
  /\ served' = served \cup {new}
  /\ current' = [r \in Requests |->
                   current[r] \/ (Active(r) /\ Signed(new, TokenOf(r)))]
  /\ steady' = [r \in Requests |->
                  steady[r] /\ (Active(r) => Signed(new, TokenOf(r)))]
  /\ UNCHANGED << config, cached, expired, requestVars,
                  fresh, older, overtaken, failed >>

-----------------------------------------------------------------------------
(* The specification *)

Begin(r) == Bypass(r) \/ Refuse(r) \/ ApiKey(r) \/ BeginBearer(r)

Step(r) ==
  \/ EnsureKeys(r)
  \/ Unparsed(r) \/ Hit(r) \/ Miss(r)
  \/ Fetch(r) \/ FetchFails(r) \/ Install(r)
  \/ Relookup(r)

Next ==
  \/ \E r \in Requests : Begin(r) \/ Step(r)
  \/ Expire
  \/ \E new \in KeySets : Rotate(new)

Spec == Init /\ [][Next]_vars

\* A goroutine runs on until its handler returns; a fetch is answered or given
\* up on after ten seconds (jwt.go:47).
Fairness == \A r \in Requests : WF_vars(Step(r))

LiveSpec == Spec /\ Fairness

-----------------------------------------------------------------------------
(* Properties *)

Answered(r) == pc[r] = "done"

Bearer(r) == ask[r].scheme = "bearer" /\ config.jwtEnabled /\ ~ config.authDisabled

\* The cache is never a mixture: it is one whole set the endpoint published,
\* whatever fetches overlapped (fetchKeys, jwt.go:168-182).
CacheIsPublished == cached \in served \cup {NoKeys}

\* The credentials of r are good for the handler of its route.
Deserves(r) ==
  \/ config.authDisabled
  \/ /\ ask[r].scheme = "apikey"
     /\ KeyStore[ask[r].raw] # NoEntry
     /\ KeyStore[ask[r].raw].scope \in {"management", ask[r].route.needs}
  \/ /\ Bearer(r)
     /\ TokenOf(r).valid
     /\ \E set \in served : Signed(set, TokenOf(r))
     /\ TokenOf(r).claims.tenant # NoTenant
     /\ TokenOf(r).claims.scope \in {"management", ask[r].route.needs}

\* A handler runs only for a caller with a tenant and the scope of its route,
\* and for a token only if the endpoint once published the key that signed it
\* (the chain of api.NewRouter over the cache of jwt.go).
HandlerIsDeserved == \A r \in Requests : reply[r] = 200 => Deserves(r)

\* A token is accepted by a key that was withdrawn before the request began only
\* if the cache was younger than its refresh interval when the request looked,
\* or an answer older than the request was swapped in while it ran
\* (ensureKeys, jwt.go:127-136).
AcceptedKeyIsCurrent ==
  \A r \in Requests :
    Answered(r) /\ Bearer(r) /\ reply[r] # 401 =>
      current[r] \/ fresh[r] \/ overtaken[r]

\* A well-formed token whose key the endpoint publishes all along, and that no
\* older answer on its way lacks, is given what its claims deserve whoever else
\* fetches, unless a fetch of its own fails: a key new to the cache is fetched
\* (keyFunc, jwt.go:98-125).
SteadyTokenPasses ==
  \A r \in Requests :
    Answered(r) /\ Bearer(r) /\ steady[r] /\ ~ failed[r]
      /\ TokenOf(r).wellFormed /\ TokenOf(r).valid =>
        reply[r] = Routed(ask[r].route, Claimed(TokenOf(r)))

\* Every token is answered: a validation fetches at most twice.
EveryTokenAnswered == \A r \in Requests : pc[r] = "ensure" ~> pc[r] = "done"

-----------------------------------------------------------------------------
(* What the documents say and the code does not do *)

\* openspec/specs/auth/spec.md:31: without a scope claim, "scope is derived from
\* the endpoint".
ScopeFromEndpoint ==
  \A r \in Requests :
    Answered(r) /\ Bearer(r) /\ ~ config.scopeClaim => reply[r] # 403

=============================================================================

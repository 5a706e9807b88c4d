------------------------- MODULE RequestAuthProofs -------------------------
(***************************************************************************)
(* Theorems about RequestAuth, for any number of requests, keys and key    *)
(* sets, any tokens and any configuration.                                 *)
(***************************************************************************)
EXTENDS RequestAuth, TLAPS

-----------------------------------------------------------------------------
(* Facts about credentials and the chain *)

\* A request with the bearer scheme carries a token.
LEMMA BearerToken ==
  ASSUME NEW a \in Asks, a.scheme = "bearer"
  PROVE  a.token \in Token /\ a.route \in Route
BY AsksAssumption DEF Ask

LEMMA ApiKeyFacts ==
  ASSUME NEW a \in Asks, a.scheme = "apikey"
  PROVE  a.raw \in RawKeys /\ a.route \in Route
BY AsksAssumption DEF Ask

\* The chain answers with one of four codes; it calls a handler for an identity
\* with a tenant and a covering scope, unless authentication is off.
LEMMA RoutedFacts ==
  ASSUME NEW route, NEW id
  PROVE  /\ Routed(route, id) \in {200, 401, 403, 409}
         /\ Routed(route, id) = 200 /\ ~ config.authDisabled =>
              id.tenant # NoTenant /\ Covers(id.scope, route.needs)
BY DEF Routed

\* What signs a token is a key, so a set that has it names the token's key.
LEMMA SignedFacts ==
  ASSUME NEW set, NEW t \in Token, Signed(set, t)
  PROVE  t.kid \in Kids /\ t.kid # NoKid /\ Named(set, t) # NoKey
BY NullAssumption DEF Signed, Named, Token

\* The empty cache names no key.
LEMMA NoKeysFacts ==
  ASSUME NEW t
  PROVE  Named(NoKeys, t) = NoKey
BY DEF Named, NoKeys

-----------------------------------------------------------------------------
(* Types and control *)

\* A request in the validator carries a token; what it was sent was published;
\* it has no answer yet and does not wait for itself.
RequestOK(r) ==
  /\ pc[r] # "idle" => ask[r] \in Asks
  /\ Active(r) => Bearer(r)
  /\ pc[r] = "install" => response[r] \in served
  /\ pc[r] # "done" => reply[r] = 0
  /\ r \notin older[r]

ControlInv ==
  /\ TypeOK
  /\ published \in served
  /\ CacheIsPublished
  /\ \A r \in Requests : RequestOK(r)

LEMMA ControlInit == Init => ControlInv
BY DEF Init, ControlInv, TypeOK, CacheIsPublished, RequestOK, Active, PCs, No

\* A request that is answered at once.
LEMMA AtOnceControl ==
  ASSUME ControlInv, NEW r \in Requests, NEW a \in Asks,
         NEW code \in {200, 401, 403, 409}, AnswerAtOnce(r, a, code)
  PROVE  ControlInv'
<1>1. TypeOK'
  BY DEF ControlInv, TypeOK, AnswerAtOnce, Answer, cacheVars, historyVars, PCs
<1>2. ASSUME NEW q \in Requests
      PROVE  RequestOK(q)'
  BY DEF ControlInv, TypeOK, AnswerAtOnce, Answer, cacheVars, historyVars, PCs,
         RequestOK, Active, Bearer
<1> QED
  BY <1>1, <1>2 DEF ControlInv, CacheIsPublished, AnswerAtOnce, cacheVars

LEMMA BeginControl ==
  ASSUME ControlInv, NEW r \in Requests, Begin(r)
  PROVE  ControlInv'
<1>1. CASE Bypass(r)
  BY <1>1, RoutedFacts, AtOnceControl DEF Bypass
<1>2. CASE Refuse(r)
  BY <1>2, AtOnceControl DEF Refuse
<1>3. CASE ApiKey(r)
  <2>1. PICK a \in Asks :
          AnswerAtOnce(r, a, IF KeyStore[a.raw] = NoEntry THEN 401
                             ELSE Routed(a.route, KeyStore[a.raw]))
    BY <1>3 DEF ApiKey
  <2>2. (IF KeyStore[a.raw] = NoEntry THEN 401
         ELSE Routed(a.route, KeyStore[a.raw])) \in {200, 401, 403, 409}
    BY RoutedFacts
  <2> QED
    BY <2>1, <2>2, AtOnceControl
<1>4. CASE BeginBearer(r)
  <2>1. PICK a \in Asks :
          /\ a.scheme = "bearer"
          /\ ask' = [ask EXCEPT ![r] = a]
          /\ current' = [current EXCEPT ![r] = Signed(published, a.token)]
          /\ steady' = [steady EXCEPT ![r] = StartsSteady(a.token)]
    BY <1>4 DEF BeginBearer
  <2>2. Signed(published, a.token) \in BOOLEAN /\ StartsSteady(a.token) \in BOOLEAN
    BY DEF Signed, StartsSteady
  <2>3. TypeOK'
    BY <1>4, <2>1, <2>2 DEF BeginBearer, ControlInv, TypeOK, cacheVars, PCs
  <2>4. ASSUME NEW q \in Requests
        PROVE  RequestOK(q)'
    BY <1>4, <2>1 DEF BeginBearer, ControlInv, TypeOK, cacheVars, PCs,
                      RequestOK, Active, Bearer
  <2> QED
    BY <1>4, <2>3, <2>4 DEF BeginBearer, ControlInv, CacheIsPublished, cacheVars
<1> QED
  BY <1>1, <1>2, <1>3, <1>4 DEF Begin

\* The status a token is answered with is one of the chain's.
LEMMA VerifiedFacts ==
  ASSUME NEW r, NEW key
  PROVE  Verified(r, key) \in {200, 401, 403, 409}
BY RoutedFacts DEF Verified

\* A token that is answered.
LEMMA AnswerControl ==
  ASSUME ControlInv, NEW r \in Requests, Active(r),
         NEW code \in {200, 401, 403, 409}, Answer(r, code),
         UNCHANGED << cacheVars, ask, missed, response, historyVars >>
  PROVE  ControlInv'
<1>1. TypeOK'
  BY DEF ControlInv, TypeOK, Answer, cacheVars, historyVars, PCs
<1>2. ASSUME NEW q \in Requests
      PROVE  RequestOK(q)'
  BY DEF ControlInv, TypeOK, Answer, cacheVars, historyVars, PCs, RequestOK,
         Active, Bearer
<1> QED
  BY <1>1, <1>2 DEF ControlInv, CacheIsPublished, cacheVars

LEMMA StepControl ==
  ASSUME ControlInv, NEW r \in Requests, Step(r)
  PROVE  ControlInv'
<1>1. CASE EnsureKeys(r)
  <2>1. TypeOK'
    BY <1>1 DEF EnsureKeys, ControlInv, TypeOK, cacheVars, PCs
  <2>2. ASSUME NEW q \in Requests
        PROVE  RequestOK(q)'
    BY <1>1 DEF EnsureKeys, ControlInv, TypeOK, cacheVars, PCs, RequestOK,
                Active, Bearer
  <2> QED
    BY <1>1, <2>1, <2>2 DEF EnsureKeys, ControlInv, CacheIsPublished, cacheVars
<1>2. CASE Unparsed(r)
  BY <1>2, AnswerControl DEF Unparsed, Active, PCs
<1>3. CASE Hit(r)
  BY <1>3, AnswerControl, VerifiedFacts DEF Hit, Active, PCs
<1>4. CASE Miss(r)
  <2>1. TypeOK'
    BY <1>4 DEF Miss, ControlInv, TypeOK, cacheVars, historyVars, PCs
  <2>2. ASSUME NEW q \in Requests
        PROVE  RequestOK(q)'
    BY <1>4 DEF Miss, ControlInv, TypeOK, cacheVars, historyVars, PCs, RequestOK,
                Active, Bearer
  <2> QED
    BY <1>4, <2>1, <2>2 DEF Miss, ControlInv, CacheIsPublished, cacheVars
<1>5. CASE Fetch(r)
  <2>1. TypeOK'
    BY <1>5 DEF Fetch, ControlInv, TypeOK, cacheVars, historyVars, PCs
  <2>2. ASSUME NEW q \in Requests
        PROVE  RequestOK(q)'
    BY <1>5 DEF Fetch, ControlInv, TypeOK, cacheVars, historyVars, PCs, RequestOK,
                Active, Bearer
  <2> QED
    BY <1>5, <2>1, <2>2 DEF Fetch, ControlInv, CacheIsPublished, cacheVars
<1>6. CASE FetchFails(r)
  <2>1. TypeOK'
    BY <1>6 DEF FetchFails, Answer, ControlInv, TypeOK, cacheVars, PCs
  <2>2. ASSUME NEW q \in Requests
        PROVE  RequestOK(q)'
    BY <1>6 DEF FetchFails, Answer, ControlInv, TypeOK, cacheVars, PCs, RequestOK,
                Active, Bearer
  <2> QED
    BY <1>6, <2>1, <2>2 DEF FetchFails, ControlInv, CacheIsPublished, cacheVars
<1>7. CASE Install(r)
  <2>1. response[r] \in served /\ served \subseteq KeySets
    BY <1>7 DEF Install, ControlInv, RequestOK, TypeOK
  <2>2. \A q \in Requests : (overtaken[q] \/ (Active(q) /\ r \in older[q])) \in BOOLEAN
    BY DEF ControlInv, TypeOK, Active
  <2>3. TypeOK'
    BY <1>7, <2>1, <2>2 DEF Install, Swapped, ControlInv, TypeOK, PCs
  <2>4. ASSUME NEW q \in Requests
        PROVE  RequestOK(q)'
    BY <1>7 DEF Install, ControlInv, TypeOK, PCs, RequestOK, Active, Bearer
  <2> QED
    BY <1>7, <2>1, <2>3, <2>4 DEF Install, Swapped, ControlInv, CacheIsPublished
<1>8. CASE Relookup(r)
  <2>1. (IF Named(cached, TokenOf(r)) = NoKey THEN 401
         ELSE Verified(r, Named(cached, TokenOf(r)))) \in {200, 401, 403, 409}
    BY VerifiedFacts
  <2> QED
    BY <1>8, <2>1, AnswerControl DEF Relookup, Active, PCs
<1> QED
  BY <1>1, <1>2, <1>3, <1>4, <1>5, <1>6, <1>7, <1>8 DEF Step

LEMMA WorldControl ==
  ASSUME ControlInv,
         Expire \/ (\E new \in KeySets : Rotate(new)) \/ UNCHANGED vars
  PROVE  ControlInv'
<1>1. CASE Expire
  BY <1>1 DEF Expire, ControlInv, TypeOK, CacheIsPublished, RequestOK, Active,
              Bearer, requestVars, historyVars
<1>2. ASSUME NEW new \in KeySets, Rotate(new)
      PROVE  ControlInv'
  <2>1. \A r \in Requests :
          /\ (current[r] \/ (Active(r) /\ Signed(new, TokenOf(r)))) \in BOOLEAN
          /\ (steady[r] /\ (Active(r) => Signed(new, TokenOf(r)))) \in BOOLEAN
    BY DEF ControlInv, TypeOK, Active, Signed
  <2>2. TypeOK'
    BY <1>2, <2>1 DEF Rotate, ControlInv, TypeOK, requestVars
  <2>3. ASSUME NEW q \in Requests
        PROVE  RequestOK(q)'
    BY <1>2 DEF Rotate, ControlInv, RequestOK, Active, Bearer, requestVars
  <2> QED
    BY <1>2, <2>2, <2>3 DEF Rotate, ControlInv, CacheIsPublished
<1>3. CASE UNCHANGED vars
  BY <1>3 DEF vars, cacheVars, requestVars, historyVars, ControlInv, TypeOK,
              CacheIsPublished, RequestOK, Active, Bearer
<1> QED
  BY <1>1, <1>2, <1>3

LEMMA ControlStep == ControlInv /\ [Next]_vars => ControlInv'
BY BeginControl, StepControl, WorldControl DEF Next

\* Every variable keeps its type, whatever is asked, fetched and rotated: the
\* cache only ever holds sets the endpoint may publish (RequestAuth).
THEOREM TypeCorrect == Spec => []TypeOK
<1>1. Spec => []ControlInv
  BY ControlInit, ControlStep, PTL DEF Spec
<1> QED
  BY <1>1, PTL DEF ControlInv

\* The cache is one whole set the endpoint published (fetchKeys, jwt.go:168-182).
THEOREM CacheIsWhole == Spec => []CacheIsPublished
<1>1. Spec => []ControlInv
  BY ControlInit, ControlStep, PTL DEF Spec
<1> QED
  BY <1>1, PTL DEF ControlInv

-----------------------------------------------------------------------------
(* A handler runs only for a caller that deserves it *)

DeservedInv == ControlInv /\ HandlerIsDeserved

\* What a caller deserves, it goes on deserving.
LEMMA DeservesStays ==
  ASSUME ControlInv, [Next]_vars, NEW q \in Requests, Deserves(q),
         ask'[q] = ask[q]
  PROVE  Deserves(q)'
<1>1. served \subseteq served' /\ config' = config
  BY DEF Next, Begin, Step, Bypass, Refuse, ApiKey, AnswerAtOnce, BeginBearer,
         EnsureKeys, Unparsed, Hit, Miss, Fetch, FetchFails, Install, Relookup,
         Expire, Rotate, vars, cacheVars
<1> QED
  BY <1>1 DEF Deserves, Bearer, TokenOf, Signed, Named

\* A token that is served is signed by a key of the cache.
LEMMA VerifiedDeserves ==
  ASSUME ControlInv, NEW r \in Requests, Active(r),
         Named(cached, TokenOf(r)) # NoKey,
         Verified(r, Named(cached, TokenOf(r))) = 200
  PROVE  Deserves(r)
<1>1. /\ Named(cached, TokenOf(r)) = TokenOf(r).signer /\ TokenOf(r).valid
      /\ Routed(ask[r].route, Claimed(TokenOf(r))) = 200
  BY DEF Verified
<1>2. cached \in served /\ Signed(cached, TokenOf(r))
  BY <1>1, NoKeysFacts DEF ControlInv, CacheIsPublished, Signed
<1>3. Bearer(r) /\ ~ config.authDisabled
  BY DEF ControlInv, RequestOK, Bearer
<1>4. /\ Claimed(TokenOf(r)).tenant # NoTenant
      /\ Covers(Claimed(TokenOf(r)).scope, ask[r].route.needs)
  BY <1>1, <1>3, RoutedFacts
<1>5. ask[r].route.needs \in Scopes
  BY <1>3, BearerToken DEF ControlInv, RequestOK, Bearer, Route, Active
<1>6. TokenOf(r).claims.scope \in {"management", ask[r].route.needs}
  BY <1>4, <1>5, NullAssumption DEF Claimed, Covers, Scopes
<1> QED
  BY <1>1, <1>2, <1>3, <1>4, <1>6 DEF Deserves, Claimed

\* A request that needs no token and whose handler is called deserves it.
LEMMA BeginDeserves ==
  ASSUME ControlInv, NEW r \in Requests, Begin(r), reply'[r] = 200
  PROVE  Deserves(r)'
<1> USE DEF AnswerAtOnce, Answer
<1>1. reply \in [Requests -> {0, 200, 401, 403, 409}]
        /\ ask \in [Requests -> Asks \cup {NoAsk}]
  BY DEF ControlInv, TypeOK
<1>2. CASE Bypass(r)
  BY <1>2 DEF Bypass, Deserves, cacheVars
<1>3. CASE Refuse(r)
  BY <1>1, <1>3 DEF Refuse
<1>4. CASE ApiKey(r)
  <2>1. PICK a \in Asks :
          /\ a.scheme = "apikey"
          /\ AnswerAtOnce(r, a, IF KeyStore[a.raw] = NoEntry THEN 401
                                ELSE Routed(a.route, KeyStore[a.raw]))
    BY <1>4 DEF ApiKey
  <2>2. /\ KeyStore[a.raw] # NoEntry /\ Routed(a.route, KeyStore[a.raw]) = 200
        /\ ask'[r] = a /\ config' = config /\ ~ config.authDisabled
    BY <1>1, <1>4, <2>1 DEF ApiKey, cacheVars
  <2>3. KeyStore[a.raw].scope \in {"management", a.route.needs}
    BY <2>2, RoutedFacts DEF Covers
  <2> QED
    BY <2>1, <2>2, <2>3 DEF Deserves
<1>5. CASE BeginBearer(r)
  BY <1>5 DEF BeginBearer, ControlInv, RequestOK
<1> QED
  BY <1>2, <1>3, <1>4, <1>5 DEF Begin

\* So does one whose token is verified.
LEMMA StepDeserves ==
  ASSUME ControlInv, NEW r \in Requests, Step(r), reply'[r] = 200
  PROVE  Deserves(r)
<1>1. reply \in [Requests -> {0, 200, 401, 403, 409}]
        /\ (pc[r] # "done" => reply[r] = 0)
  BY DEF ControlInv, TypeOK, RequestOK
<1>2. CASE Hit(r)
  BY <1>1, <1>2, VerifiedDeserves DEF Hit, Answer, Active, PCs
<1>3. CASE Relookup(r)
  BY <1>1, <1>3, VerifiedDeserves DEF Relookup, Answer, Active, PCs
<1> QED
  BY <1>1, <1>2, <1>3 DEF Step, EnsureKeys, Unparsed, Miss, Fetch, FetchFails,
                          Install, Answer, historyVars, cacheVars

\* Steps change the answer and the question of their own request only.
LEMMA OthersStay ==
  ASSUME ControlInv, NEW r \in Requests, Begin(r) \/ Step(r),
         NEW q \in Requests, q # r
  PROVE  ask'[q] = ask[q] /\ reply'[q] = reply[q] /\ pc'[q] = pc[q]
BY DEF ControlInv, TypeOK, Begin, Step, Bypass, Refuse, ApiKey, AnswerAtOnce,
       BeginBearer, EnsureKeys, Unparsed, Hit, Miss, Fetch, FetchFails, Install,
       Relookup, Answer

LEMMA StepAsk ==
  ASSUME NEW r, Step(r)
  PROVE  ask' = ask
BY DEF Step, EnsureKeys, Unparsed, Hit, Miss, Fetch, FetchFails, Install, Relookup

LEMMA WorldStays ==
  ASSUME Expire \/ (\E new \in KeySets : Rotate(new)) \/ UNCHANGED vars
  PROVE  UNCHANGED << ask, reply, pc, config, response >>
BY DEF Expire, Rotate, vars, requestVars, cacheVars

LEMMA DeservedStep == DeservedInv /\ [Next]_vars => DeservedInv'
<1> SUFFICES ASSUME DeservedInv, [Next]_vars, NEW q \in Requests, reply'[q] = 200
             PROVE  Deserves(q)'
  BY ControlStep DEF DeservedInv, HandlerIsDeserved
<1>1. CASE reply[q] = 200 /\ ask'[q] = ask[q]
  BY <1>1, DeservesStays DEF DeservedInv, HandlerIsDeserved
<1>2. ASSUME NEW r \in Requests, Begin(r) \/ Step(r)
      PROVE  Deserves(q)'
  <2>1. CASE q # r
    BY <1>1, <1>2, <2>1, OthersStay DEF DeservedInv
  <2>2. CASE q = r /\ Begin(r)
    BY <2>2, BeginDeserves DEF DeservedInv
  <2>3. CASE q = r /\ Step(r)
    BY <2>3, StepDeserves, StepAsk, DeservesStays DEF DeservedInv
  <2> QED
    BY <1>2, <2>1, <2>2, <2>3
<1>3. CASE Expire \/ (\E new \in KeySets : Rotate(new)) \/ UNCHANGED vars
  BY <1>1, <1>3, WorldStays
<1> QED
  BY <1>2, <1>3 DEF Next

\* A handler runs only for a caller with a tenant and the scope of its route,
\* and for a token only if the endpoint once published its key (api.NewRouter).
THEOREM HandlersAreDeserved == Spec => []HandlerIsDeserved
<1>1. Init => DeservedInv
  BY ControlInit DEF Init, DeservedInv, HandlerIsDeserved
<1> QED
  BY <1>1, DeservedStep, PTL DEF Spec, DeservedInv

-----------------------------------------------------------------------------
(* A withdrawn key is accepted only from a young cache, or after an older answer *)

\* r can only be accepted by a key that was published since it began: it has
\* not seen a young cache, and no answer from before it has been swapped in.
Strict(r) ==
  ~ current[r] /\ (pc[r] = "ensure" \/ ~ fresh[r]) /\ ~ overtaken[r]

\* Then neither the endpoint, nor an answer that is not older, nor the cache
\* once the request has fetched, has its key.
WithoutKey(r) ==
  /\ ~ Signed(published, TokenOf(r))
  /\ \A q \in Requests \ older[r] :
       pc[q] = "install" => ~ Signed(response[q], TokenOf(r))
  /\ pc[r] \in {"lookup", "relookup"} => ~ Signed(cached, TokenOf(r))

CurrentInv ==
  /\ ControlInv
  /\ \A r \in Requests : Active(r) /\ Strict(r) => WithoutKey(r)
  /\ AcceptedKeyIsCurrent

\* A token is accepted only if the cache has its key.
LEMMA AcceptedIsSigned ==
  ASSUME NEW r, NEW set, Verified(r, Named(set, TokenOf(r))) # 401
  PROVE  Signed(set, TokenOf(r))
BY DEF Verified, Signed

\* A request that is answered at once is no token's.
LEMMA AtOnceIsNoBearer ==
  ASSUME ControlInv, NEW r \in Requests, Bypass(r) \/ Refuse(r) \/ ApiKey(r)
  PROVE  /\ ~ Bearer(r)' /\ pc'[r] = "done"
         /\ UNCHANGED << cacheVars, response, historyVars >>
BY DEF ControlInv, TypeOK, Bypass, Refuse, ApiKey, AnswerAtOnce, Answer, Bearer,
       cacheVars

\* The other requests, and those that go on, keep having no key.
LEMMA WithoutKeyStep ==
  ASSUME CurrentInv, [Next]_vars, NEW r \in Requests, Active(r)', Strict(r)'
  PROVE  WithoutKey(r)'
<1> USE DEF Active, PCs
<1>t. /\ TypeOK /\ \A q \in Requests : RequestOK(q)
      /\ Active(r) /\ Strict(r) => WithoutKey(r)
  BY DEF CurrentInv, ControlInv
<1>1. CASE \E q \in Requests : Bypass(q) \/ Refuse(q) \/ ApiKey(q)
  <2>1. PICK q \in Requests : Bypass(q) \/ Refuse(q) \/ ApiKey(q)
    BY <1>1
  <2>2. pc'[q] = "done" /\ UNCHANGED << cacheVars, response, historyVars >>
    BY <2>1, AtOnceIsNoBearer DEF CurrentInv
  <2>3. \A p \in Requests : p # q => pc'[p] = pc[p] /\ ask'[p] = ask[p]
    BY <2>1, OthersStay DEF CurrentInv, Begin
  <2>4. Active(r) /\ Strict(r) /\ r # q
    BY <2>2, <2>3 DEF Strict, historyVars
  <2> QED
    BY <1>t, <2>2, <2>3, <2>4 DEF WithoutKey, Signed, Named, TokenOf, cacheVars,
                                  historyVars
<1>2. ASSUME NEW q \in Requests, BeginBearer(q)
      PROVE  WithoutKey(r)'
  <2>1. CASE q = r
    <3>1. /\ current'[r] = Signed(published, TokenOf(r)')
          /\ older'[r] = { p \in Requests : pc[p] = "install" }
          /\ pc'[r] = "ensure"
      BY <1>2, <1>t, <2>1 DEF BeginBearer, TypeOK, TokenOf
    <3>2. UNCHANGED << published, response >>
      BY <1>2 DEF BeginBearer, cacheVars
    <3>3. \A p \in Requests : pc'[p] = "install" => pc[p] = "install"
      BY <1>2, <1>t DEF BeginBearer, TypeOK
    <3> QED
      BY <3>1, <3>2, <3>3 DEF WithoutKey, Strict, Signed, Named
  <2>2. CASE q # r
    BY <1>2, <1>t, <2>2 DEF BeginBearer, TypeOK, WithoutKey, Strict, Signed, Named,
                            TokenOf, cacheVars
  <2> QED
    BY <2>1, <2>2
<1>3. ASSUME NEW q \in Requests, EnsureKeys(q)
      PROVE  WithoutKey(r)'
  <2>1. Active(r) /\ Strict(r) /\ UNCHANGED << ask, response, older >>
    BY <1>3, <1>t DEF EnsureKeys, TypeOK, Strict
  <2>2. UNCHANGED << published, cached >>
    BY <1>3 DEF EnsureKeys, cacheVars
  <2>3. \A p \in Requests : pc'[p] = "install" => pc[p] = "install"
    BY <1>3, <1>t DEF EnsureKeys, TypeOK
  <2>4. pc'[r] \in {"lookup", "relookup"} => pc[r] \in {"lookup", "relookup"}
    <3>1. CASE q = r
      <4>1. pc' = [pc EXCEPT ![r] = IF Fresh THEN "lookup" ELSE "fetch"]
        BY <1>3, <3>1 DEF EnsureKeys
      <4>2. pc'[r] = IF Fresh THEN "lookup" ELSE "fetch"
        BY <1>t, <4>1 DEF TypeOK
      <4>3. pc'[r] # "ensure"
        BY <4>2
      <4>4. fresh'[r] <=> ~ expired
        <5>1. DOMAIN fresh = Requests
          BY <1>t DEF TypeOK
        <5>2. fresh' = [fresh EXCEPT ![r] = ~ expired]
          BY <1>3, <3>1, Zenon DEF EnsureKeys
        <5> QED
          BY <5>1, <5>2, Zenon
      <4>5. ~ fresh'[r]
        BY <4>3, Zenon DEF Strict
      <4>6. ~ Fresh
        BY <4>4, <4>5, Zenon DEF Fresh
      <4> QED
        BY <4>2, <4>6
    <3>2. CASE q # r
      BY <1>3, <1>t, <3>2 DEF EnsureKeys, TypeOK
    <3> QED
      BY <3>1, <3>2
  <2>5. WithoutKey(r)
    BY <1>t, <2>1
  <2> QED
    BY <2>1, <2>2, <2>3, <2>4, <2>5 DEF WithoutKey, Signed, Named, TokenOf
<1>4. ASSUME NEW q \in Requests,
             Unparsed(q) \/ Hit(q) \/ Miss(q) \/ Relookup(q)
      PROVE  WithoutKey(r)'
  <2>1. /\ UNCHANGED << cacheVars, ask, response, historyVars >>
        /\ pc'[q] \in {"done", "fetch"}
        /\ \A p \in Requests : p # q => pc'[p] = pc[p]
        /\ Active(q)
    BY <1>4, <1>t DEF Unparsed, Hit, Miss, Relookup, Answer, TypeOK
  <2>2. Active(r) /\ Strict(r)
    BY <2>1 DEF Strict, historyVars
  <2> QED
    BY <1>t, <2>1, <2>2 DEF WithoutKey, Signed, Named, TokenOf, cacheVars, historyVars
<1>5. ASSUME NEW q \in Requests, Fetch(q)
      PROVE  WithoutKey(r)'
  <2>1. /\ UNCHANGED << cacheVars, ask, historyVars >>
        /\ pc[q] = "fetch" /\ pc'[q] = "install" /\ response'[q] = published
        /\ \A p \in Requests : p # q => pc'[p] = pc[p] /\ response'[p] = response[p]
    BY <1>5, <1>t DEF Fetch, TypeOK
  <2>2. Active(r) /\ Strict(r)
    BY <2>1 DEF Strict, historyVars
  <2> QED
    BY <1>t, <2>1, <2>2 DEF WithoutKey, Signed, Named, TokenOf, cacheVars, historyVars
<1>6. ASSUME NEW q \in Requests, FetchFails(q)
      PROVE  WithoutKey(r)'
  <2>1. /\ UNCHANGED << cacheVars, ask, current, fresh, overtaken >>
        /\ pc'[q] = "done" /\ older'[r] = older[r] \ {q} /\ Active(q)
        /\ \A p \in Requests : p # q => pc'[p] = pc[p] /\ response'[p] = response[p]
    BY <1>6, <1>t DEF FetchFails, Answer, TypeOK
  <2>2. Active(r) /\ Strict(r)
    BY <2>1 DEF Strict
  <2> QED
    BY <1>t, <2>1, <2>2 DEF WithoutKey, Signed, Named, TokenOf, cacheVars
<1>7. ASSUME NEW q \in Requests, Install(q)
      PROVE  WithoutKey(r)'
  <2>1. /\ UNCHANGED << published, ask, current, fresh >>
        /\ pc[q] = "install" /\ pc'[q] \in {"lookup", "relookup"}
        /\ older'[r] = older[r] \ {q} /\ cached' = response[q]
        /\ \A p \in Requests : p # q => pc'[p] = pc[p] /\ response'[p] = response[p]
    BY <1>7, <1>t DEF Install, Swapped, TypeOK
  <2>2. overtaken'[r] = (overtaken[r] \/ (Active(r) /\ q \in older[r]))
    BY <1>7, Zenon DEF Install
  <2>4. Active(r) /\ Strict(r) /\ q \notin older[r]
    BY <2>1, <2>2 DEF Strict
  <2>3. ~ Signed(response[q], TokenOf(r))
    BY <1>t, <2>1, <2>4 DEF WithoutKey
  <2> QED
    BY <1>t, <2>1, <2>3, <2>4 DEF WithoutKey, Signed, Named, TokenOf
<1>8. CASE Expire \/ UNCHANGED vars
  BY <1>t, <1>8 DEF Expire, vars, WithoutKey, Strict, Signed, Named, TokenOf,
                    cacheVars, requestVars, historyVars
<1>9. ASSUME NEW new \in KeySets, Rotate(new)
      PROVE  WithoutKey(r)'
  <2>1. /\ UNCHANGED << cached, ask, pc, response, older, fresh, overtaken >>
        /\ published' = new
        /\ current'[r] <=> current[r] \/ (Active(r) /\ Signed(new, TokenOf(r)))
    BY <1>9, <1>t DEF Rotate, requestVars, TypeOK
  <2>2. Active(r) /\ Strict(r) /\ ~ Signed(new, TokenOf(r))
    BY <2>1 DEF Strict
  <2> QED
    BY <1>t, <2>1, <2>2 DEF WithoutKey, Signed, Named, TokenOf
<1> QED
  BY <1>1, <1>2, <1>3, <1>4, <1>5, <1>6, <1>7, <1>8, <1>9 DEF Next, Begin, Step

\* What a finished request has seen stays.
LEMMA DoneStays ==
  ASSUME ControlInv, [Next]_vars, NEW r \in Requests, pc[r] = "done"
  PROVE  /\ pc'[r] = "done" /\ ask'[r] = ask[r] /\ reply'[r] = reply[r]
         /\ current[r] => current'[r]
         /\ fresh'[r] = fresh[r]
         /\ overtaken[r] => overtaken'[r]
         /\ steady'[r] => steady[r]
         /\ failed'[r] = failed[r]
         /\ config' = config
<1> USE DEF ControlInv, TypeOK, cacheVars, historyVars
<1>1. CASE \E q \in Requests : Begin(q)
  BY <1>1 DEF Begin, Bypass, Refuse, ApiKey, AnswerAtOnce, Answer, BeginBearer
<1>2. CASE \E q \in Requests : Step(q)
  BY <1>2 DEF Step, EnsureKeys, Unparsed, Hit, Miss, Fetch, FetchFails, Install,
              Relookup, Answer
<1>3. CASE Expire \/ (\E new \in KeySets : Rotate(new)) \/ UNCHANGED vars
  BY <1>3 DEF Expire, Rotate, vars, requestVars
<1> QED
  BY <1>1, <1>2, <1>3 DEF Next

\* The steps that answer a request that was not answered before.
LEMMA AnsweredNow ==
  ASSUME ControlInv, [Next]_vars, NEW r \in Requests, pc[r] # "done",
         pc'[r] = "done", Bearer(r)'
  PROVE  Unparsed(r) \/ Hit(r) \/ FetchFails(r) \/ Relookup(r)
<1>1. ASSUME NEW q \in Requests, Begin(q) \/ Step(q)
      PROVE  Unparsed(r) \/ Hit(r) \/ FetchFails(r) \/ Relookup(r)
  <2>1. q = r
    BY <1>1, OthersStay
  <2>2. ~ (Bypass(r) \/ Refuse(r) \/ ApiKey(r))
    BY AtOnceIsNoBearer
  <2> QED
    BY <1>1, <2>1, <2>2 DEF Begin, Step, BeginBearer, EnsureKeys, Miss, Fetch,
                            Install, ControlInv, TypeOK
<1> QED
  BY <1>1, WorldStays DEF Next

LEMMA CurrentStep == CurrentInv /\ [Next]_vars => CurrentInv'
<1> SUFFICES ASSUME CurrentInv, [Next]_vars
             PROVE  AcceptedKeyIsCurrent'
  BY ControlStep, WithoutKeyStep DEF CurrentInv
<1> SUFFICES ASSUME NEW r \in Requests, pc'[r] = "done", Bearer(r)', reply'[r] # 401
             PROVE  current'[r] \/ fresh'[r] \/ overtaken'[r]
  BY DEF AcceptedKeyIsCurrent, Answered
<1>t. ControlInv /\ TypeOK
  BY DEF CurrentInv, ControlInv
<1>1. CASE pc[r] = "done"
  BY <1>t, <1>1, DoneStays DEF CurrentInv, AcceptedKeyIsCurrent, Answered, Bearer
<1>2. CASE pc[r] # "done"
  <2>1. Hit(r) \/ Relookup(r)
    BY <1>t, <1>2, AnsweredNow DEF Unparsed, FetchFails, Answer, TypeOK
  <2>2. Signed(cached, TokenOf(r)) /\ pc[r] \in {"lookup", "relookup"}
    BY <1>t, <2>1, AcceptedIsSigned DEF Hit, Relookup, Answer, TypeOK
  <2>3. ~ Strict(r)
    BY <2>2 DEF CurrentInv, WithoutKey, Active, PCs
  <2> QED
    BY <2>1, <2>3 DEF Strict, Hit, Relookup, historyVars
<1> QED
  BY <1>1, <1>2

\* A withdrawn key is accepted only if the cache was young when the request
\* looked, or an older answer was swapped in (ensureKeys, jwt.go:127-136).
THEOREM AcceptedKeysAreCurrent == Spec => []AcceptedKeyIsCurrent
<1>1. Init => CurrentInv
  BY ControlInit DEF Init, CurrentInv, AcceptedKeyIsCurrent, Answered, Active
<1> QED
  BY <1>1, CurrentStep, PTL DEF Spec, CurrentInv

-----------------------------------------------------------------------------
(* A token whose key is published all along passes *)

\* Every set that r may meet has its key, or is the cache and has none for it,
\* and after its second fetch the cache has it.
WithKey(r) ==
  /\ Signed(published, TokenOf(r))
  /\ \A q \in Requests : pc[q] = "install" => Signed(response[q], TokenOf(r))
  /\ Signed(cached, TokenOf(r)) \/ Named(cached, TokenOf(r)) = NoKey
  /\ pc[r] = "relookup" => Signed(cached, TokenOf(r))

SteadyInv ==
  /\ ControlInv
  /\ \A r \in Requests : Active(r) /\ steady[r] => WithKey(r)
  /\ SteadyTokenPasses

LEMMA WithKeyStep ==
  ASSUME SteadyInv, [Next]_vars, NEW r \in Requests, Active(r)', steady'[r]
  PROVE  WithKey(r)'
<1> USE DEF Active, PCs
<1>t. /\ TypeOK /\ \A q \in Requests : RequestOK(q)
      /\ Active(r) /\ steady[r] => WithKey(r)
  BY DEF SteadyInv, ControlInv
<1>1. CASE \E q \in Requests : Bypass(q) \/ Refuse(q) \/ ApiKey(q)
  <2>1. PICK q \in Requests : Bypass(q) \/ Refuse(q) \/ ApiKey(q)
    BY <1>1
  <2>2. pc'[q] = "done" /\ UNCHANGED << cacheVars, response, historyVars >>
    BY <2>1, AtOnceIsNoBearer DEF SteadyInv
  <2>3. \A p \in Requests : p # q => pc'[p] = pc[p] /\ ask'[p] = ask[p]
    BY <2>1, OthersStay DEF SteadyInv, Begin
  <2>4. Active(r) /\ steady[r] /\ r # q
    BY <2>2, <2>3 DEF historyVars
  <2> QED
    BY <1>t, <2>2, <2>3, <2>4 DEF WithKey, Signed, Named, TokenOf, cacheVars
<1>2. ASSUME NEW q \in Requests, BeginBearer(q)
      PROVE  WithKey(r)'
  <2>1. /\ UNCHANGED << cacheVars, response >>
        /\ pc'[q] = "ensure"
        /\ \A p \in Requests : p # q => pc'[p] = pc[p]
    BY <1>2, <1>t DEF BeginBearer, TypeOK
  <2>2. CASE q = r
    <3>1. PICK a \in Asks :
            /\ ask' = [ask EXCEPT ![r] = a]
            /\ steady' = [steady EXCEPT ![r] = StartsSteady(a.token)]
      BY <1>2, <2>2 DEF BeginBearer
    <3>2. TokenOf(r)' = a.token /\ StartsSteady(a.token)
      BY <1>t, <3>1 DEF TypeOK, TokenOf
    <3> QED
      BY <2>1, <2>2, <3>2 DEF StartsSteady, WithKey, Signed, Named, cacheVars
  <2>3. CASE q # r
    <3>1. Active(r) /\ steady[r] /\ TokenOf(r)' = TokenOf(r)
      BY <1>2, <1>t, <2>1, <2>3 DEF BeginBearer, TypeOK, TokenOf
    <3> QED
      BY <1>t, <2>1, <2>3, <3>1 DEF WithKey, Signed, Named, cacheVars
  <2> QED
    BY <2>2, <2>3
<1>3. ASSUME NEW q \in Requests,
             EnsureKeys(q) \/ Unparsed(q) \/ Hit(q) \/ Miss(q) \/ Relookup(q)
      PROVE  WithKey(r)'
  <2>1. /\ UNCHANGED << cacheVars, ask, response, steady >>
        /\ pc'[q] \in {"done", "fetch", "lookup"}
        /\ \A p \in Requests : p # q => pc'[p] = pc[p]
        /\ Active(q)
    BY <1>3, <1>t DEF EnsureKeys, Unparsed, Hit, Miss, Relookup, Answer, TypeOK,
                      historyVars
  <2>2. Active(r) /\ steady[r]
    BY <2>1
  <2> QED
    BY <1>t, <2>1, <2>2 DEF WithKey, Signed, Named, TokenOf, cacheVars
<1>4. ASSUME NEW q \in Requests, Fetch(q)
      PROVE  WithKey(r)'
  <2>1. /\ UNCHANGED << cacheVars, ask, steady >>
        /\ pc[q] = "fetch" /\ pc'[q] = "install" /\ response'[q] = published
        /\ \A p \in Requests : p # q => pc'[p] = pc[p] /\ response'[p] = response[p]
    BY <1>4, <1>t DEF Fetch, TypeOK, historyVars
  <2> QED
    BY <1>t, <2>1 DEF WithKey, Signed, Named, TokenOf, cacheVars
<1>5. ASSUME NEW q \in Requests, FetchFails(q)
      PROVE  WithKey(r)'
  <2>1. /\ UNCHANGED << cacheVars, ask, steady >>
        /\ pc'[q] = "done" /\ Active(q)
        /\ \A p \in Requests : p # q => pc'[p] = pc[p] /\ response'[p] = response[p]
    BY <1>5, <1>t DEF FetchFails, Answer, TypeOK
  <2> QED
    BY <1>t, <2>1 DEF WithKey, Signed, Named, TokenOf, cacheVars
<1>6. ASSUME NEW q \in Requests, Install(q)
      PROVE  WithKey(r)'
  <2>1. /\ UNCHANGED << published, ask, steady >>
        /\ pc[q] = "install" /\ pc'[q] \in {"lookup", "relookup"}
        /\ cached' = response[q]
        /\ \A p \in Requests : p # q => pc'[p] = pc[p] /\ response'[p] = response[p]
    BY <1>6, <1>t DEF Install, Swapped, TypeOK
  <2>2. Signed(response[q], TokenOf(r))
    BY <1>t, <2>1 DEF WithKey
  <2> QED
    BY <1>t, <2>1, <2>2 DEF WithKey, Signed, Named, TokenOf
<1>7. CASE Expire \/ UNCHANGED vars
  BY <1>t, <1>7 DEF Expire, vars, WithKey, Signed, Named, TokenOf, cacheVars,
                    requestVars, historyVars
<1>8. ASSUME NEW new \in KeySets, Rotate(new)
      PROVE  WithKey(r)'
  <2>1. /\ UNCHANGED << cached, ask, pc, response >>
        /\ published' = new
    BY <1>8 DEF Rotate, requestVars
  <2>2. steady'[r] = (steady[r] /\ (Active(r) => Signed(new, TokenOf(r))))
    BY <1>8, Zenon DEF Rotate
  <2> QED
    BY <1>t, <2>1, <2>2 DEF WithKey, Signed, Named, TokenOf
<1> QED
  BY <1>1, <1>2, <1>3, <1>4, <1>5, <1>6, <1>7, <1>8 DEF Next, Begin, Step

\* A well-formed token that is verified by its own key is given what it claims.
LEMMA OwnKeyPasses ==
  ASSUME NEW r, TokenOf(r).valid
  PROVE  Verified(r, TokenOf(r).signer) = Routed(ask[r].route, Claimed(TokenOf(r)))
BY DEF Verified

LEMMA SteadyStep == SteadyInv /\ [Next]_vars => SteadyInv'
<1> SUFFICES ASSUME SteadyInv, [Next]_vars
             PROVE  SteadyTokenPasses'
  BY ControlStep, WithKeyStep DEF SteadyInv
<1> SUFFICES ASSUME NEW r \in Requests, pc'[r] = "done", Bearer(r)', steady'[r],
                    ~ failed'[r], TokenOf(r)'.wellFormed, TokenOf(r)'.valid
             PROVE  reply'[r] = Routed(ask[r].route, Claimed(TokenOf(r)))'
  BY DEF SteadyTokenPasses, Answered
<1>t. ControlInv /\ TypeOK
  BY DEF SteadyInv, ControlInv
<1>1. CASE pc[r] = "done"
  <2>1. /\ ask'[r] = ask[r] /\ reply'[r] = reply[r] /\ config' = config
        /\ steady[r] /\ ~ failed[r]
    BY <1>t, <1>1, DoneStays
  <2>2. reply[r] = Routed(ask[r].route, Claimed(TokenOf(r)))
    BY <1>1, <2>1 DEF SteadyInv, SteadyTokenPasses, Answered, Bearer, TokenOf
  <2> QED
    BY <2>1, <2>2 DEF Routed, Claimed, TokenOf
<1>2. CASE pc[r] # "done"
  <2>1. Unparsed(r) \/ Hit(r) \/ Relookup(r)
    BY <1>t, <1>2, AnsweredNow DEF FetchFails, TypeOK
  <2>2. /\ UNCHANGED << cacheVars, ask, historyVars >>
        /\ Active(r) /\ steady[r]
    BY <2>1 DEF Unparsed, Hit, Relookup, Active, PCs, historyVars
  <2>3. WithKey(r) /\ TokenOf(r) \in Token
    BY <2>2, BearerToken DEF SteadyInv, ControlInv, RequestOK, Bearer, TokenOf, Active
  <2>4. Parsed(r)
    BY <2>2, <2>3, SignedFacts DEF WithKey, Parsed, TokenOf
  <2>5. Signed(cached, TokenOf(r)) /\ Named(cached, TokenOf(r)) # NoKey
    BY <2>1, <2>3, <2>4, SignedFacts DEF WithKey, Unparsed, Hit, Relookup, Parsed
  <2>6. reply'[r] = Verified(r, Named(cached, TokenOf(r)))
    BY <1>t, <2>1, <2>4, <2>5 DEF Unparsed, Parsed, Hit, Relookup, Answer, TypeOK
  <2>7. reply'[r] = Routed(ask[r].route, Claimed(TokenOf(r)))
    BY <2>2, <2>5, <2>6, OwnKeyPasses DEF Signed, TokenOf
  <2> QED
    BY <2>2, <2>7 DEF Routed, Claimed, TokenOf, cacheVars
<1> QED
  BY <1>1, <1>2

\* A token whose key is published all along is given what it claims, whoever
\* else fetches, unless its own fetch fails (keyFunc, jwt.go:98-125).
THEOREM SteadyTokensPass == Spec => []SteadyTokenPasses
<1>1. Init => SteadyInv
  BY ControlInit DEF Init, SteadyInv, SteadyTokenPasses, Answered, Active
<1> QED
  BY <1>1, SteadyStep, PTL DEF Spec, SteadyInv

=============================================================================

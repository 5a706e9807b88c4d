# Feature Bacon in TLA+

Feature Bacon is a feature-flag service: a stateless core (`src/backend/internal`)
that evaluates flags and manages them over HTTP, and modules behind gRPC that
persist them (Postgres, Redis, MongoDB) or publish their changes (Kafka, SQS,
GCP Pub/Sub, gRPC). Without a persistence module the core serves definitions
from YAML files. This directory holds TLA+ modules of the parts whose
behaviour depends on what runs at the same time or fails, the TLC runs that
check them and the TLAPS proofs about them.

Paths below are relative to `src/backend/` unless they start with `openspec/`
(`src/openspec/`).

## 1. Inventory

| component | state it keeps | operations | talks to | what is hard | what makes it correct |
|---|---|---|---|---|---|
| Evaluation engine `internal/engine` | none of its own | `Evaluate`, `EvaluateBatch` | flag store, assignment store | three separate calls per persistent flag, interleaved with other requests, management and failures | answers current, assignments sticky and its tenant's own, kill switch, keys of a batch independent |
| Targeting rules `engine/rules.go` | none | conditions, rollout, first match | - | semantic versions, number and string coercion, YAML ints against JSON floats | a condition means what its author wrote, in a file and in a module alike |
| Evaluation handlers `internal/api/handlers/evaluate.go` | none | POST `/evaluate`, `/evaluate/batch` | engine | - | one answer per key, in order |
| Flag management `handlers/flags.go`, `grpcclient/flagmanager.go` | none | create, get, list, update, delete | persistence client, publisher | the answer may not say what the module did | a success means done once, an error is not repeated by the core |
| Experiments `handlers/experiments.go` | none | create, put, start, pause, complete, lists | persistence client, publisher | read, check, write back in two calls | status follows the documented diagram, answers true |
| API key management `handlers/apikeys.go` | none | create, revoke, list | persistence client | created without id; several commands per call in MongoDB and Redis | a key that was created is found by its hash, and only for its tenant |
| API key authentication `internal/auth/*` | keys by hash, loaded at startup | lookup, middleware | config, environment | loaded once; two tenants may list one key | the keys of the start, each for a tenant that listed it |
| JWT validation `internal/auth/jwt.go` | cached RSA keys, time of last fetch | validate, fetch | JWKS endpoint | concurrent, overlapping, failing fetches | a key is accepted only if the endpoint had it, a lasting key always |
| Router, middleware `internal/api` | none | auth, tenant, scope, read-only, correlation, metrics | handlers | order of the chain | no handler runs without tenant and scope |
| Persistence client `internal/grpcclient` | one connection | one call per operation, 5 s each (`persistence.go:14`) | modules | failed, timed-out, late calls | errors reported, never retried |
| Config file `internal/configfile` | definitions and keys by tenant | start, lookups, reload on SIGHUP | engine, key loader | directory read file by file, coalesced signals, failed reloads | a reload is all or nothing, the last change is loaded |
| Events `handlers/publishing.go`, `internal/publisher` | none | one goroutine per event, one per publisher | publisher modules | unordered, lost at shutdown, partial failure | never delays or fails a request |
| Publisher modules `internal/pubserver`, `modules/{kafka,sqs,...}` | broker connection | publish, batch | brokers | batch stops at first error; clients that send again | each event of a successful batch is sent |
| Postgres, Redis, MongoDB modules `modules/*/store` | flags, assignments, experiments, API keys by tenant | CRUD, pages | database | several commands per operation in Redis and MongoDB | list and lookup agree; a delete is final |
| Pagination `internal/pagination` | none | clamp, offset, count of pages | stores, handlers | 32-bit widths | pages cover the list once |
| Readiness `handlers/health.go` | none | ask every checker | modules | two checkers of one name, modules that hang | ready exactly if all are, and always answered |
| Wiring `cmd/*`, `internal/config`, `tlsutil`, `moduleutil` | process | start, stop | all | shutdown waits for HTTP only | - |
| Conformance suite `internal/conformance` | none | RunPersistenceSuite | a module | expects the same of three different stores | each module passes each test |
| SDKs, UI, generated code, problem details | - | - | - | - | - |

`PROJECT.json` lists each with its status, and under `hazards` every place where
this code is hard to test, with the properties that would notice it going wrong.

Interaction. A request runs in a goroutine of the HTTP server; it holds no lock
and keeps nothing between calls. All shared state is in the persistence module
(or, in config-file mode, in one pair of maps swapped under a mutex), so every
interleaving that matters is one of calls to the module, and within a module of
commands to its database. The client gives up on a call after five seconds:
the module may have executed it, may execute it later, or never.

## 2. Modules

| module | what it is |
|---|---|
| `FlagRules` | the answers `evaluateRules` may give, as operators |
| `Evaluation` | requests, batches, engine, assignment store, management writes, config-file reloads |
| `EvaluationProofs` | theorems about `Evaluation` |
| `ExperimentLifecycle` | experiments: create, put, start, pause, complete over a module |
| `ExperimentProofs` | theorems about `ExperimentLifecycle` |
| `FlagRegistry` | abstract: what flag management promises over any module |
| `FlagStore` | handlers, client and the three modules' flag operations, command by command; implements `FlagRegistry` |
| `RequestAuth` | the middleware chain and the JWT validator's key cache |
| `RequestAuthProofs` | theorems about `RequestAuth` |
| `EventFeed` | abstract: what event publishing promises the consumers of a broker |
| `Publishing` | mutating calls, their events, the fan-out, the core's stop and restart; implements `EventFeed` |
| `PublishingProofs` | theorems about `Publishing` and `Readiness` |
| `FlagStoreProofs` | theorems about `FlagStore`, with the refinement of `FlagRegistry` |
| `Paging` | the arithmetic of pages, in the handlers and in the 32-bit integers of the modules |
| `PersistenceProofs` | theorems about `Paging` and `PersistenceClients` |
| `PersistenceModule` | the gRPC service of the three modules: flags, experiments, assignments, API keys, command by command |
| `Conformance` | the tests of `internal/conformance` as calls and what they expect |
| `PersistenceClients` | the callers: the suite, or the handlers of API keys and flags beside look-ups by hash |
| `ConfigReload` | config-file mode: start, API keys, reloads, signals and the operator, composed with `Evaluation` |
| `ConfigReloadProofs` | theorems about `ConfigReload` |
| `TargetingRules` | the conditions of a rule: operators, attributes, conversions, semantic versions |
| `RulesProofs` | theorems about `TargetingRules` |
| `Readiness` | GET /readyz over modules that change, fail or hang |
| `MCEvaluation`, `MCFamilies`, `MCExperimentLifecycle`, `MCFlagStore`, `MCManagement`, `MCRequestAuth`, `MCPublishing`, `MCPersistence`, `MCConfigReload`, `MCRules` | small instances for TLC |

`FlagRules` is used by `Evaluation`, `FlagRegistry` by `FlagStore` and
`EventFeed` by `Publishing`. `ConfigReload` extends `Evaluation`: its variables
are the engine's and its own, each of its steps a step of one of them or both.
`PersistenceClients` extends `Conformance`, `PersistenceModule` and `Paging`.
With a persistence module the components meet only in that module, so that each
is checked against every behaviour of the others it can observe: `Evaluation`
against any sequence of management writes, not only those of `FlagStore`.

`FlagStore` and `PersistenceModule` look at the same stores for different ends:
the first has the callers' five seconds, late writes and retries around one
flag, the second all kinds of documents under their names, with lists, pages and
references.

### FlagRules and Evaluation

A request's attributes and environment are one value, its *context*; a rule
carries the set of contexts its conditions match. The hash of `bucket.go` is any
fixed function `Bucket` into 0..99, so all the code relies on is that it is
fixed; a random flag's draw is free. `Outcomes` is first-match-wins with the
default at the end. `contextKey` hashing is abstracted by this; the conditions
and their eleven operators are in `TargetingRules`.

| code | model |
|---|---|
| `HandleEvaluate`, `HandleEvaluateBatch` | `Begin`, `Reject` (empty batch) |
| `GetFlag`, first half of `Engine.evaluate` | `ReadFlagFails`, `EvaluateFlag`, `ReadPersistentFlag` |
| `evaluatePersistent`: `GetAssignment` | `AssignmentHit`, `AssignmentMiss`, `AssignmentReadFails` |
| `evaluatePersistent`: rules, `SaveAssignment` | `Compute`, `SaveCommits`, `SaveFails`, `SaveTimesOut` |
| loop of `EvaluateBatch` | `Return` appends a result and goes on |
| a save the client gave up on | `lateSaves`, `LateSaveCommits`, `LateSaveLost` |
| `CreateFlag`/`UpdateFlag`/`DeleteFlag` of the module | `SetFlag`, `DeleteFlag` |
| `configfile.Store.Reload`, its last lines | `Reload` (all keys at once, under the mutex); the rest is in `ConfigReload` |

`Management` is one or the other, by mode: flags are set and deleted one by one
where there is a persistence module (`eval`), and reloaded
in config-file mode (`config_file`, where `Swap` is that step).

A failed read of an assignment is treated like a miss, as the code does: it
computes, answers and overwrites. `window`, `stored`, `defined`, `unread`,
`failed` and `before` are history: they record what was true while a request
ran so the properties can speak of it, and no action of the program reads them.

### ExperimentLifecycle

A transition is `Accept` (read and check) and a later write of the whole
experiment read; `Target` and `AllowedFrom` are the handler's tables. POST and
PUT write an empty status, because `experimentRequestToProto` sets none. Late
writes are as above. `PostReplaces` tells Postgres (a second INSERT fails)
from the other two. `Seeds` is what the module holds before the first request:
its gRPC service accepts a status from anyone, so experiments in every status
are possible there, although the HTTP API makes none but "".

### FlagStore and FlagRegistry

`backend` is chosen once. A command that is sent is executed once or lost: the
databases' drivers are external. go-redis, left at its defaults
(`cmd/module-redis/main.go:23`), may send a command again whose answer it did not
get; a repeated `SET`, `DEL` or `SADD` within one operation is not modelled, so
"at most once" below is a statement about this repository's code. Postgres runs
each operation as one statement. An
update of MongoDB and Redis first reads the flag (`UpdateReads`) and then
writes it (`UpdateWrites`); MongoDB's `ReplaceOne` matches nothing if the flag has
gone, Redis' `SET` always writes. Redis' create and delete are two commands of a
pipeline that is not a transaction (`Create`/`Delete`, then `Reindex`), and the
module may stop between them (`Fail`). `Deliver` and `GiveUp` are the client's
side. A flag's creation time and author are represented by the call that created
it.

`FlagRegistry` says what this amounts to: each call takes effect in one step,
at most once, when its flag allows it; "ok" is answered only if it did; an
error, unless the call was refused, leaves open whether it did. Its `policy` is
whether creates replace and whether an overtaken update brings its flag back.
The mapping is the flags' bodies, and for each call where it is: idle, open,
applied or dropped.

### RequestAuth

The chain of `NewRouter` is short and sequential but for one thing: bearer
tokens are verified with keys that all requests share and any of them may fetch
anew. `Bypass`, `Refuse` and `ApiKey` answer at once (the map of API keys never
changes after start-up); a token goes through the validator step by step.

| code | model |
|---|---|
| `Auth`, `parseAuthHeader`, `handleAPIKey` | `Bypass`, `Refuse`, `ApiKey` |
| `handleBearer`, entering `Validate` | `BeginBearer` |
| `ensureKeys` under the read lock | `EnsureKeys` (`Fresh`) |
| `jwt.Parse`, `parserOptions`, `keyFunc` to its first lookup | `Unparsed`, `Hit`, `Miss` |
| `fetchKeys`: the GET | `Fetch` (the endpoint answers), `FetchFails` |
| `fetchKeys`: the swap under the lock | `Install` (`Swapped`) |
| `keyFunc`: second lookup | `Relookup` |
| claims, then `TenantResolver`, `ReadOnly`, `RequireScope` | `Verified`, `Claimed`, `Routed` |
| five minutes since `lastFetch` | `expired`, set by `Expire` at any time |
| keys at the issuer's endpoint (external) | `Rotate` |

A request is answered 200 when its handler is called. Between the endpoint's
answer and the swap anything may happen, so an older answer may be swapped in
over a newer one. `served`, `current`, `fresh`, `older`, `overtaken`, `steady`
and `failed` are history. Two properties say exactly how wrong the cache can be:
`AcceptedKeyIsCurrent` (a withdrawn key passes only from a cache that was fresh
when the request looked, or because of an older answer) and `SteadyTokenPasses`
(a lasting key is never unknown, unless an older answer or a failed fetch of the
request's own is to blame).

### Publishing and EventFeed

Creates, updates, deletes and transitions are all decorated alike, so a call is
a member of `Calls` and its event is the call. What became of the write in the
persistence module (`write`) is kept apart from what the call was told
(`handler`), because a write may be executed after its call gave up.

| code | model |
|---|---|
| `PublishingFlagManager`, `PublishingExperimentManager`: the inner call | `Begin`, `Execute`, `RefuseWrite`, `Succeed` (starts `publishAsync`), `Fail` |
| the rest of the handler | `Answer` |
| `Fanout.Publish`: one goroutine per publisher, `wg.Wait`, `errors.Join` | `Call`, `Join` (`Joined`) |
| `PublisherClient.Publish` with its five seconds | `Confirm`, `GiveUp` |
| `pubserver.Publish` and the sender of the module | `Send`, `SendUnacknowledged`, `Drop` |
| `main`: signal, `srv.Shutdown`, end of the process | `Stop`, `Exit`, `Kill`, `Start` |

`Reliable` are the publishers that take what they are sent; the others may lose
an event, report an error for one they took, or never answer. `left` is how often
a module may still send the event it has, whether or not the core still waits: a
sender's client sends an event again whose acknowledgement was lost
(`SendUnacknowledged`), so the broker may have it several times. `Attempts` bounds
the sends of one event by each module's client, and is any positive number: Kafka's producer
is sarama's at its defaults, not idempotent and with retries
(`cmd/module-kafka/main.go:30-34`), SQS' is the AWS client with its default retries
(`modules/sqs/sender.go:32`), and Pub/Sub's library repeats until a deadline
(`modules/gcppubsub/sender.go:22`). `copies` counts what each broker took, `acked`
is what it acknowledged.

`EventFeed` is what a consumer may rely on: events of stored changes, none more
often than one call of `Publish` may send it, because the core itself never
repeats that call. It allows any order, because nothing in the code orders two
events.

### PersistenceModule, Conformance and PersistenceClients

A document is one record of any of the four kinds. Under which name a store
keeps it decides what collides with what, so `Key` is the store's own: a table
and its primary key in Postgres, one joined text in MongoDB and Redis. Names are
sequences of the pieces between colons, which keeps `FlattenSeq` faithful to a
join and Redis' `strings.SplitN(ref, ":", 2)` to a cut at the first piece.

| code | model |
|---|---|
| Postgres' `INSERT`, `ON CONFLICT` | `RefuseCreate`, `Create`, `Save` |
| MongoDB's `ReplaceOne` with upsert | `Create`, `Save` |
| Redis' pipeline `SET`, `SADD`, `SET` by hash | `SetDocument`, `AddMember`, `SetRef` |
| lookups by name, expiry of assignments | `Get`, `GetAssignment`, `Expire` (TTL index, Redis expiry) |
| `GetAPIKeyByHash` | `FindByHash`; `ReadRef` and `FollowRef` in Redis |
| `COUNT` and the page, Postgres and MongoDB | `Count`, `Fetch` |
| the same for a MongoDB tenant whose name is no literal as a regular expression | `CountMatches`, `FetchMatches` |
| `SMEMBERS`, sort, slice, `GET` per name, Redis | `ReadMembers`, `ReadItem`, `SkipItem` (the `GET` fails: `store.go:119`), `EndList`, `Panic` (a slice out of bounds) |
| updates and revocations | `UpdateAtOnce`, `RevokeAtOnce`; `ReadFirst`, then `Replace` or `SetBack` |
| deletes | `Delete`, `RemoveMember` |
| an error or a deadline between two commands | `Fail` |

`Paging` has the arithmetic twice: 64-bit in the handlers, 32-bit and wrapping in
the modules (`Int32`). MongoDB finds the documents of a tenant with a regular
expression made of its name (`store.go:57-59`); `Patterns` are the tenants whose
name, so read, is no literal, and what such an expression matches is left open: any
documents of the kind, or an error. `PersistenceClients` puts one of two drivers in front: the
suite, which makes the calls of `Conformance!Suite` one after the other and must
be answered as each test expects; or two clients that create, list and revoke API
keys, change and list flags and look keys up by hash, as the handlers send it.
The handlers give an API key no id (`apikeys.go:113`), so the keys of a tenant
have the same name. `lost` is history: the names whose `GET` failed in the list
under way. `QuietListExact` says that a list no write touched answers the true
number, and its page in order and whole but for documents in `lost`.

### ConfigReload

| code | model |
|---|---|
| `configfile.New` in `main` | `ReloadInit`: the process starts inside its first load |
| `Store.Reload`: `os.Stat`, `os.ReadDir` | `OpenPath`; `PathMissing` for either layout |
| `loadDirectory`, `loadFile` per file | `ReadFile`, `ReadFileFails` |
| `buildIndex` | `IndexFails` |
| the swap under the mutex | `Swap`, which is a `Reload` of `Evaluation` |
| `loadAPIKeys`, `LoadKeysFromEnv`, `LoadKeysFromConfig` | `LoadEnvironment`, `LoadTenantKeys` (the order of a Go map is any) |
| `WatchSignal`: `signal.Notify`, its channel of one, its loop | `Watch`, `Hangup`, `TakeSignal` |
| what the operator does to the files and to the path (external) | `Edit`, `Remount` at any moment |
| requests | `Serve`: `Evaluation`'s `Begin` and `Step` |

A content of a file is `Missing`, `Broken` (not YAML) or the blocks of some
tenants. While the path is not `reachable` (moved away, or without permission)
nothing in it can be listed or read. `seen` remembers every content each file had
during the load, so
`ReloadsWhole` can say of a swap that some state of the files, each file with a
content it had during that load, explains all of memory. It cannot be one moment
for all files: nothing in the code reads a directory at once.

### TargetingRules and Readiness

`TargetingRules` are operators; its one action asks for a rule as its author wrote
it, in both forms it reaches the engine in: with YAML's ints and with JSON's
floats. Text is a sequence of characters because how a number is printed
(`fmt.Sprintf("%v")`) and how a version is cut are what the properties are about;
numbers are natural and held by a float exactly. A question that asks for a
version names the versions its texts were written from (`Spells`,
`SpellsConstraint`), which TLC checks of the 2,560 such questions of `MCRules`.
Which texts a regular expression matches is a parameter.
`Readiness` asks one checker after the other while the modules come and go.

## 3. Runs

| run | instance | what it shows |
|---|---|---|
| `eval` | three families of behaviours of one instance, all faults, fairness: 2 requests in 2 contexts for a flag that is moved; 1 request for a sticky, moved, killed or deleted flag; batches `<<k1,k2,k1>>` and `<<>>` of 2 tenants | types; a settled assignment changes only after a failed read of it; answers current; assignments come from the tenant's own definitions; errors stay with their key; every request is answered |
| `eval_doc_sticky` | 3 requests, no fault | **violation**: two overlapping first evaluations contradict `openspec/specs/evaluation/spec.md:49` |
| `management` | 3 calls, 1 key, 2 bodies, each of the three backends, all faults; and 3 requests, 2 experiments, 2 configurations, all faults | types; `FlagStore` implements `FlagRegistry`; Redis' list agrees with its flags; creation times kept; transitions' answers true at some moment; changes outside the diagram only by PUT/POST or a lost race |
| `exp_doc_final` | 3 requests, 1 draft experiment, no fault | **violation**: a completed experiment is paused by a transition that read it before (`openspec/specs/experiments/spec.md:131`) |
| `exp_doc_draft` | 3 requests, 1 experiment that is not there yet, no fault | **violation**: an experiment created over the API cannot be started (`openspec/specs/experiments/spec.md:44`, `:125-126`) |
| `store_doc_delete` | 2 calls, 1 key, Redis, no fault | **violation**: an update brings a deleted flag back (`openspec/specs/management/spec.md:55`) |
| `auth` | 2 requests, 7 credentials and routes, 2 key names, 2 keys, 3 key sets, 3 configurations, failing fetches, fairness | types; the cache is one published set; handlers only for who deserves them; withdrawn keys; lasting keys; every token is answered |
| `auth_doc_scope` | 1 request, no scope claim configured, no fault | **violation**: a valid token is refused 403 everywhere (`openspec/specs/auth/spec.md:31`) |
| `publish` | 2 calls, 2 publishers of which 1 is reliable and may send twice, all faults, stop, kill and restart, fairness; and a probe of a persistence module and the two publishers | types; `Publishing` implements `EventFeed`; no silent loss; no event of a failed call; the reliable publisher takes every event unless the core goes down; calls never wait for publishers; readiness is true of what the checkers said, and always answered |
| `ready_doc_trouble` | the same probe | **violation**: the first of two publishers fails, and the report says ok (`openspec/specs/integrations/spec.md:57-60`, `openspec/specs/observability/spec.md:73`) |
| `persistence` | each of the three modules: the whole suite; or 2 clients with 3 calls in all, 2 tenants, the name of one of which is a pattern, 3 flags, pages of 2 or 3, integers of 5 bits, failures of calls and of single `GET`s | types; the conformance suite passes; a key created is found by its hash and only for its tenant; a list nothing interferes with is exact, less what a `GET` failed for |
| `config_file` | a directory of 3 files for 2 tenants or 1 file of both, 2 changes of a file or of the path, 2 signals, 1 request that evaluates a key twice, fairness of the watcher; and some 6,000 rules one at a time | types; answers current; reloads whole; the last change is loaded; API keys of the start; conditions mean in a file what they mean in a module; comparisons exact; versions in numeric order |

`publish`, `config_file` and `management` each hold two independent parts
(readiness, rules, experiments are the second): the steps of one are taken only
from an initial state of the other, so the two add up and do not multiply. `eval`
holds its three families apart by a variable that never changes. The largest runs
are `persistence` (some 820,000 states), `management` (660,000) and `publish`
(300,000); with two workers none takes more than two and a half minutes.

Deadlock is checked in every run but two: `persistence` ends when the suite or the
handlers' calls do, and in `config_file` the process may exit (a failed first
load, an invalid key, a signal before the watcher runs). Elsewhere a server with
nothing to do is the explicit stutter `Quiet` where the requests are finite.

Why these bounds. Most hazards here are a race of at most two actors and one
failure around one key: two requests suffice for a read of one to fall between
the read and the write of another, and a third (in `management` and
`eval_doc_sticky`) observes the damage or makes it lasting. A batch of three
with a repeated key is the smallest in which "first", "same again" and "other"
positions differ. Two tenants, two contexts and two bodies tell right from
wrong. `MCBucket` gives every subject bucket 30, and rules of 0, 20, 50 and 100
percent fall on each side of it and on both clamps. In `auth` the three key sets
add a key, withdraw it, and give a name another key; two requests let one fetch
overtake another, and the five minutes of the cache pass at any moment. Symmetry permutes requests
(or calls and bodies) where no liveness property is checked. In `publish` the
reliable publisher may send an event twice and the other once, the least with which
a broker has an event more than once and a repeat by the core would exceed what
`EventFeed` allows.

In `config_file` one tenant has two files in the directory, so a later file
replaces what an earlier one said, and either of the two may be missing, and a
removal may fall between the listing and the reading; two edits can fall one
before and one after the reading of a file, and two signals are one more than the
channel holds. `ExpFrom` (10^6 in Go) is 10 and the largest int 31, so that the
numbers 9, 10, 12 and 20 and a part `40` of a version lie on both sides of the
bounds. In `persistence` a page of three items at most and `Half` = 16 for 2^31
give lists of two pages, offsets that turn negative and products that wrap all the
way round; three calls are enough for a list or a look-up that overlaps a create
and another call before them, and `Names` is the order the stores sort in.

The counters that are bounded: `edits` by `MaxEdits`, `hangups` by `MaxHangups`,
the handlers' calls by `MaxCalls`, the sends of one event by `Attempts`. Nothing
else needs a bound: a request handles
each key once, and `lateSaves` and `lateWrites` hold at most one entry per request
and position.

Fairness. `EveryRequestAnswered` assumes weak fairness of each request's own
steps only. The code justifies it: a goroutine is scheduled until its handler
returns, and each call it waits for returns within the five seconds of
`persistence.go:14`, answered or failed. Nothing is assumed about late saves,
management or reloads, and management may write forever. `EveryTokenAnswered`
assumes the same of each request's steps: a fetch is answered or given up on
after the ten seconds of `jwt.go:47`. Nothing is assumed of `Expire` and
`Rotate`. In `publish` the core's goroutines are scheduled while the process
lives, a write is executed or its call gives up, and a reliable module takes what
it is sent; an unreliable one may hang for ever (not even the five seconds of its
client are assumed), which is how `EveryCallAnswered` shows that no call waits
for one.

`LastChangeLoaded` assumes that the watcher's goroutine runs on: a load, once
begun, comes to its next step (reading a file ends), and a signal in its channel is
taken. Nothing is assumed of the operator. `ReadyzAnswered` assumes that a check
is answered or given up on after its two seconds (`grpcclient/health.go:11`) and
that the handler goes on; modules may change for ever.

## 4. Proofs

The theorems hold for any number of requests, tenants, keys, subjects,
definitions and configurations, under the named assumptions of the modules
(that definitions and inputs are well typed, that null values are not data, that
buckets are in 0..99).

`EvaluationProofs`:

| theorem | states | along |
|---|---|---|
| `TypeCorrect` | `Spec => []TypeOK` | `ControlInv`: besides types, that a running request is inside its batch, holds an enabled persistent definition when it waits for an assignment, and a result for its current key when it saves |
| `Provenance` | `Spec => []AssignmentProvenance` | `ProvenanceInv`: the definition in hand was a definition of the key, the result in hand and every late save are earned by one |
| `Stickiness` | `Spec => SettledIsSticky` | `UnreadInv`: a failed read adds a position that was not there, so "no new failed read" means no read failed in this step |
| `AnswersAreCurrent` | `Spec => []AnswerReflectsWindow` | `WindowInv`: the current definition is always in the window, and so is the definition in hand; `AnswerInv`: each answer is for its key and justified |
| `KillSwitchWorks` | `Spec => []KillSwitch` | a corollary of `AnswersAreCurrent`: a flag off for as long as a request is served is off in its answer; for that reason no run checks it |
| `BatchesAreIndependent` | `Spec => []BatchIndependence` | follows from `AnswerInv` and `ControlInv` |

`TypeOK` alone is not inductive: nothing in it says that `CurrentKey(r)` is inside
the batch or that a request that saves has a result; `ControlInv` does.

`ExperimentProofs`:

| theorem | states | along |
|---|---|---|
| `Invariance`, `TypeCorrect` | `ExperimentSpec => []Inv`, `ExperimentSpec => []ExperimentTypeOK` | `Inv`: what a request asks is known, a transition about to write read a row in an allowed status while it ran, the current row is in what it has seen, a late write says what its request wanted |
| `AnswersAreTrue` | `ExperimentSpec => []ReplyReflectsWindow` | a conjunct of `Inv`; `TableIsDiagram` shows the code's table to be the documented diagram |
| `LifecycleHolds` | `ExperimentSpec => LifecycleOrRace` | from `Inv`: a write that finds the row as it was read is a step of the diagram |

`RequestAuthProofs`:

| theorem | states | along |
|---|---|---|
| `TypeCorrect` | `Spec => []TypeOK` | `ControlInv`: besides types, a request in the validator asks with a token, JWT is set up, and a request about to swap holds an answer of the endpoint |
| `CacheIsWhole` | `Spec => []CacheIsPublished` | the cache and every answer on its way were published once |
| `HandlersAreDeserved` | `Spec => []HandlerIsDeserved` | `DeservedInv`: each 200 was earned, and what was published stays published |
| `AcceptedKeysAreCurrent` | `Spec => []AcceptedKeyIsCurrent` | `CurrentInv`: while no excuse applies to a request, neither the cache (once it has looked) nor an answer it may meet holds its withdrawn key |
| `SteadyTokensPass` | `Spec => []SteadyTokenPasses` | `SteadyInv`: while its key is steady, the cache names no other key, and names this one once the request has fetched |

`PublishingProofs`:

| theorem | states | along |
|---|---|---|
| `TypeCorrect` | `Spec => []TypeOK` | `Inv` |
| `SilenceIsDelivery` | `Spec => []SilentMeansDelivered` | `EventOK`: a broker has an event it acknowledged and so one that was confirmed, and nothing is sent before the goroutine runs |
| `ErrorsStaySilent` | `Spec => []ErrorsAreSilent` | `CallOK`: only a call that succeeded has a goroutine |
| `FeedImplemented` | `Spec => ImplementsFeed` | step simulation: `Execute` is `Store`, `Send` and `SendUnacknowledged` are `Deliver`, the rest stutters. `EventOK`: what a broker took and what its module may still send are together no more than `Attempts`, and only the one call of `Publish` sets the latter |
| `VerdictsAreTrue` | `ReadySpec => []VerdictIsTrue` (of `Readiness`) | `ReadyInv`: the verdict counts all answers so far |

`FlagStoreProofs`:

| theorem | states | along |
|---|---|---|
| `TypeCorrect` | `Spec => []TypeOK` | with `CallInv`: where a call is says what it asked, whether it has written and what it may answer, and a call still to write has seen a flag that is there |
| `ListsFollow` | `Spec => []IndexFollowsFlags` | `IndexInv`: of a key that is not contested one call at a time has commands under way, and set and flag differ only between its two |
| `CreationStays` | `Spec => CreationKept` | from `CallInv`, action by action |
| `Implements` | `Spec => ImplementsRegistry` | step simulation: invocation, the one write, the answer; `CallInv` gives that a write happens at most once and in an open call |

`ConfigReloadProofs`:

| theorem | states | along |
|---|---|---|
| `ReloadImplements` | `ReloadSpec => Spec` | each step is a step of `Evaluation` or leaves its state alone, so every theorem of `EvaluationProofs` holds of the core in config-file mode |
| `AnswersUnderReload` | `ReloadSpec => []AnswerReflectsWindow` | from `ReloadImplements` and `AnswersAreCurrent` |
| `ReloadsAreWhole` | `ReloadSpec => ReloadsWhole` | `LoadInv`: at each point of a load there is a state of the files, made of contents they had during it (`Snapshot`), of which exactly what has been read so far was collected; reading a file puts its content of that moment into that state. Files the listing did not have are missing in it, and names are read in order, so that a later file wins |
| `KeysAreOfTheStart` | `ReloadSpec => []KeysOfTheStart` | `KeysInv`: between the first load and the first request nothing is loaded and no signal is waiting; after the environment, each key is settled by the tenants already added. That the last entry of a key exists rests on the well-foundedness of the naturals |

`PersistenceProofs`:

| theorem | states | along |
|---|---|---|
| `CountsAgree` | the modules' count of pages is the handlers' | quotient and remainder are unique |
| `EveryItemOnOnePage` | each item of a list that fits the integers is on exactly one page counted, and on no other page whose arithmetic does not wrap | the page is the quotient; `Int32` is the identity where nothing wraps |
| `TypesHold` | `Spec => []TypeOK` | `TypeInv`, below |
| `LookupsStayWithTheirTenant` | `Spec => []HashFindsOwnTenant` | `TypeInv`: a key found by a hash, or by the reference under it, is of the hash's tenant |
| `CreatedKeysAreFound` | `Spec => []KeyFound` | `KeyInv` |
| `QuietListsAreExact` | `Spec => []QuietListExact` | `ListInv` |

`TypeInv` is `TypeOK` and what it rests on: a document is under the key of its own
kind, tenant and name (so that, keys being told apart by what they are joined
from, two documents under one key are one), sets of names and references are
Redis' alone, a call is where its operation can be and holds what it has read.
`KeyInv` adds who is on the way to write the key of a tenant: in MongoDB and Redis
all keys of a tenant have one name, so the last written is in the document, and its
reference is stored or about to be, by the call that wrote it. `ListInv` adds that
a set of Redis names exactly the documents there are, but for those a call is in
the middle of writing; and for each list that nothing has interfered with since it
began, that what it counted is what is there, and what it has read so far is too, but for
what a `GET` failed for: `lost` is among the names of the page already asked for,
and the documents in hand are those of the others. A list looks at
Redis between the two commands of another call, so the middle of a call has to be
in the invariant; a module that fails there, or two such calls on one document
(`torn`), may leave a set that is wrong for good, and of such a store nothing is
claimed.

These rest on the assumptions of `PersistenceClients` and the modules it extends:
names are of one or two pieces, by kind, and are known to the order of the lists;
what is no request and no answer is not data; the requests of the suite's script
and of the handlers are such as their callers make (`Proper`). All of these TLC
evaluates.

`RulesProofs`:

| theorem | states | along |
|---|---|---|
| `FilesAndStoresAgree` | `RulesSpec => []FileAndStoreAgree` | each operator sees only the text of a value, its members' texts or its number, and these are the same for a float and an int below `ExpFrom` |
| `ComparisonsExact` | `RulesSpec => []ComparisonsAreExact` | different naturals are printed differently: numerals are told apart by their last digit and the rest; an exponent form is cut at its e into a mantissa and a power, which give the digits but for zeros and their number; and no numeral has an e |
| `LessIsTotalOrder` | versions are compared by a strict total order | the three parts, one after the other |
| `SemverOrder` | `RulesSpec => []SemverIsNumericOrder` | what `parseSemverParts` makes of the text of a version are the numbers of its numerals; these are ordered as the numerals are; and the sign that `semverMatch` finds asks for that order |

`Decimal` is recursive. That it has the values its definition says is proved first
(`DecimalIs`), from functions on 0 .. k put together, and facts about all numerals
from a least number of which they fail: the theorems on induction of the library
take operators, which the provers here cannot instantiate, and the one on
well-founded relations takes sets.

`SemverOrder` says that the order of versions is that of their numerals, compared
as texts without the zeros before them: the longer one is larger, of two as long
the one with the larger digit where they first differ. `Number` is a fold of the
community modules, by a function on sets of places. That this function exists for
any text is proved first (`FoldsExist`), then that one more digit makes the number
ten times as large and adds the digit, unless it wraps around (`NumberAppend`).
From these, by a least length of which it fails: every numeral is that of one
natural number, its zeros aside (`NumeralValue`), and a smaller number has the
smaller numeral (`DecimalOrder`), so that a numeral which is not larger than that
of `IntMax` is read without wrapping around (`FittingNumerals`). What is left is to
find the numerals in the text: digits are no dots, so the first two dots are
those between the parts (`ThreeParts`), what begins with - or + is left out
(`CoreIs`), and a v before it (`Trimmed`); a sign of two characters is tried before
its first character alone (`SignIs`), and the target begins where the spaces end
(`TargetIs`).

The assumptions (`NumbersAssumption`, `QuestionsAssumption`) say that conditions are
records, that a string or a number is nothing else besides, that numbers are
natural and that `ExpFrom` is not zero. `VersionsAssumption` says what the versions
named beside a question are: where they are ordinary (one to three numerals
that fit an int), the question is one semver_match, of a string that spells the
first (with dots, with a v or without, with a pre-release or a build or without)
and a constraint that spells the sign, any spaces, and the second. It is
how the property knows what a text was meant to say, and excludes no text that
spells such a version; a fourth part, a number beyond an int and a constraint
that begins with a space are asked about by no ordinary entry. Numbers beyond
2^53, which a float rounds, are outside the model.

Only model-checked:

- `EveryRequestAnswered`, `EveryTokenAnswered`, `ReliableTakes`,
  `EveryCallAnswered`, `LastChangeLoaded` and `ReadyzAnswered`: liveness under
  fairness is out of the prover's reach;
- `SuitePasses`: the suite is one fixed script of concrete calls and answers, which
  TLC runs to its end over each module; there is nothing to generalise;
- the six violations.

## 5. Where code and documents part

With a run that shows it:

- first evaluations overlap, and a sticky result changes (`eval_doc_sticky`);
- a completed experiment is paused or runs again (`exp_doc_final`);
- an experiment POSTed is stored with status "" (`experiments.go:276`) and can
  never be started, though `openspec/specs/experiments/spec.md:44` says `draft`
  (`exp_doc_draft`);
- over Redis a deleted flag comes back, in no list (`store_doc_delete`);
- without a scope claim no token passes (`auth_doc_scope`);
- the readiness report keeps one entry per name and all publishers have the same
  one (`grpcclient/health.go:62`), so one in trouble is shown as ok if the last one
  is (`ready_doc_trouble`).

Seen while modelling, and part of the models, without a run of their own:

- a persistent flag whose assignment cannot be read is evaluated by its rules and
  the assignment overwritten (`engine.go:118`); `openspec/specs/evaluation/spec.md:141-143`
  says the result is off with reason `error`;
- creating a flag that exists replaces it (Redis, MongoDB) and is answered 201, or
  is answered 500 (Postgres); `openspec/specs/api/spec.md:209` says 409;
- a PUT of a flag erases `createdBy` in Redis and MongoDB and keeps it in Postgres;
- assignments are saved without an expiry (`engine.go:130`), though
  `persistenceTTL` is documented; the stores honour one, which `Conformance` tests;
- API keys are created without an id (`apikeys.go:113`). Postgres, whose primary
  key is the id alone, refuses the second key of any tenant; MongoDB and Redis
  replace the first one of the tenant, and in Redis the first key's hash then finds
  the second key. `openspec/specs/auth/spec.md:86` lists *all keys* of a tenant.
  `KeyFound` states what is left: the key written last is found;
- a revocation of an unknown id is answered 204 by Postgres and 500 by the others;
- `GetAPIKeyByHash` and `ListFlagKeys` have no caller in the core: keys made by the
  API never authenticate, only those loaded at the start do;
- page numbers whose offset exceeds 32 bits: Postgres and MongoDB refuse a negative
  offset, Redis' slice panics, which ends the process, and an offset that wraps
  all the way round shows another page's items. `QuietListExact` excludes them;
- API keys are read once: a SIGHUP reloads the definitions and not the keys. Of two
  tenants that list one key either gets it, and any of them takes it from the
  environment (`KeysOfTheStart`);
- `samples/01-sidecar-quickstart/README.md:71` says that changes of a file need a
  restart; SIGHUP reloads them, as `openspec/specs/persistence/spec.md:89-92` says.
  A SIGHUP before the watcher registers ends the process;
- `openspec/specs/evaluation/spec.md:177` calls `equals` an exact match of numbers;
  it compares printed texts, and a float of a million or more is printed as
  `1e+06`: in a file, a number that large never equals the number of a request
  (`FileAndStoreAgree` excludes exactly these);
- the digits of a fourth part of a version are joined to the third, and a
  constraint `!=` is read as `=`;
- one publisher in trouble makes the whole core `not_ready`, answered 503, as
  `openspec/specs/api/spec.md:345` says; `openspec/specs/observability/spec.md:74`
  speaks of partial availability, "not fully down";
- a list of Redis leaves out what a `GET` failed for and is answered as OK
  (`modules/redis/store/store.go:119`, `:286`, `:419`), with the total of all;
- MongoDB's lists read a tenant's name as a regular expression
  (`modules/mongodb/store/store.go:57-59`): for a name such as `t.` they may show and
  count other tenants' documents, or fail. `QuietListExact` is about tenants whose
  name is a literal;
- an event may reach a broker more than once: the modules' clients send again.

## 6. How the modules were built up, and what may follow

The core came first (`Evaluation`, `ExperimentLifecycle`, `FlagStore`), then the
shared state of the process (`RequestAuth`, `Publishing`), then the modules'
stores, config-file mode and the pure operators. What may follow: routes without
authentication; `PublishBatch`, once something calls it; `Evaluation` composed with
`PersistenceModule`, in place of its own map of assignments.

## 7. Not modelled

Formatting and logging (problem details, metrics, correlation ids, access logs),
TLS and flags of the processes, the encoding of generated gRPC code, the
databases' and brokers' own internals (a command is atomic; what a broker does
with an event is external), negative and fractional numbers in rules, what a
regular expression accepts, the SDKs (one request per call, no cache) and the UI.

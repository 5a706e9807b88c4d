------------------------- MODULE PersistenceModule -------------------------
(***************************************************************************)
(* The gRPC service of the persistence modules: flags, experiments,        *)
(* assignments and API keys over Postgres, MongoDB or Redis                *)
(* (modules/*/store), one action per statement or command sent to the      *)
(* database.                                                               *)
(*                                                                         *)
(* The three keep a document under different names.  Postgres has a table  *)
(* per kind with a compound primary key, except for API keys, whose id is  *)
(* the whole key.  MongoDB and Redis join tenant and names with colons.    *)
(* Redis lists a tenant's names in a set beside the documents, and finds   *)
(* an API key by its hash through a reference.                             *)
(*                                                                         *)
(* A name is a sequence of parts (subject and flag of an assignment), a    *)
(* part the sequence of what its colons separate: "user:42" has two        *)
(* pieces, "" is one empty piece.  Tenants and flag keys are one piece.    *)
(***************************************************************************)
EXTENDS Paging, Sequences, FiniteSets

CONSTANTS Clients,     \* callers, each with one call at a time
          Backends,    \* the modules the core may be wired to
          Texts,       \* what tenants, the pieces of names and data may be
          Names,       \* the names there are, in the order the stores sort
          Patterns,    \* the texts that are no literal as a regular expression
          NoRequest, NoReply

ASSUME BackendsAssumption == Backends \subseteq {"postgres", "mongodb", "redis"}

\* No two places in the order are one name's.
ASSUME NamesAssumption ==
  /\ Names \in Seq(Seq(Seq(Texts)))
  /\ \A i, j \in DOMAIN Names : Names[i] = Names[j] => i = j

VARIABLES
  backend,
  rows,       \* the documents, by the store's name for them
  members,    \* Redis' sets of names: <<tenant, kind, name>>
  refs,       \* Redis' apikey_by_hash: hash to the pieces of "tenant:id"
  now,        \* the clock; it advances with every document created
  pc,         \* where the module is with each client's call
  req,        \* what the call asks
  held,       \* the documents the call has read
  todo,       \* the names, or the reference, it has still to follow
  total,      \* how many documents a list has counted
  reply

storeVars == << rows, members, refs, now >>
callVars == << pc, req, held, todo, total, reply >>
moduleVars == << backend, storeVars, callVars >>

-----------------------------------------------------------------------------
(* Types *)

Kinds == {"flags", "experiments", "assignments", "apikeys"}

Operations == {"get", "findByHash", "list", "create", "save", "update",
               "revoke", "delete"}

\* What a document says is one value: rules, variants, scope and the like.
DocumentType ==
  [kind : Kinds, tenant : Texts, name : Seq(Seq(Texts)), data : Texts,
   hash : Texts \X Nat, expires : Nat, createdAt : Nat, revoked : BOOLEAN]

\* asked is the page the caller of the handler wants to see.
RequestType ==
  [op : Operations, kind : Kinds, tenant : Texts, name : Seq(Seq(Texts)),
   data : Texts, hash : Texts \X Nat, expires : Nat,
   page : Int, per : Int, asked : Nat]

ReplyType ==
  [ok : BOOLEAN, found : BOOLEAN, items : Seq(DocumentType), total : Nat]

ASSUME NoneAssumption ==
  NoRequest \notin RequestType /\ NoReply \notin ReplyType

\* The methods of the service.
Methods(kind) ==
  CASE kind = "flags"       -> {"get", "list", "create", "update", "delete"}
    [] kind = "experiments" -> {"get", "list", "create", "update"}
    [] kind = "assignments" -> {"get", "save"}
    [] kind = "apikeys"     -> {"findByHash", "list", "create", "revoke"}

\* The names the suite and the handlers use: every part is one piece.
Named(kind, name) ==
  /\ name \in Seq(Seq(Texts))
  /\ Len(name) = (IF kind = "assignments" THEN 2 ELSE 1)
  /\ \A i \in 1 .. Len(name) : Len(name[i]) = 1

Known(name) == \E i \in DOMAIN Names : Names[i] = name

\* Their calls: what is created has a place in the order, a key is made with a
\* hash of its tenant, and a list that fits asks for the page that is wanted.
Proper(r) ==
  /\ r \in RequestType
  /\ r.op \in Methods(r.kind)
  /\ Named(r.kind, r.name)
  /\ r.op = "create" => Known(r.name)
  /\ r.op = "create" /\ r.kind = "apikeys" => r.hash[1] = r.tenant
  /\ r.asked > 0
  /\ Fits(r.asked, PerPage(r.per)) => Page(r.page) = r.asked

-----------------------------------------------------------------------------
(* Names of documents *)

\* The pieces of a name, which has one or two parts.
Pieces(name) == IF Len(name) = 1 THEN name[1] ELSE name[1] \o name[2]

\* Mutant: the tenant is left out of the name.
Key_Shared(kind, tenant, name) == << <<kind>> >> \o name

Key(kind, tenant, name) ==
  CASE backend = "postgres" /\ kind = "apikeys" -> << <<kind>> >> \o name
    [] backend = "postgres" /\ kind # "apikeys" ->
         << <<kind>>, <<tenant>> >> \o name
    [] backend = "mongodb" ->
         << <<kind>>, <<tenant>> \o Pieces(name) >>
    [] backend = "redis" ->
         << <<tenant, kind>> \o Pieces(name) >>

KeyOf(c) == Key(req[c].kind, req[c].tenant, req[c].name)

Stored(c) == KeyOf(c) \in DOMAIN rows

Put(k, d) ==
  rows' = [x \in DOMAIN rows \cup {k} |-> IF x = k THEN d ELSE rows[x]]

Rank(name) == CHOOSE i \in DOMAIN Names : Names[i] = name

\* The order of a list: by name, Postgres' API keys the newest first.
Precedes(d, e) ==
  IF backend = "postgres" /\ d.kind = "apikeys"
  THEN d.createdAt > e.createdAt
  ELSE Rank(d.name) < Rank(e.name)

\* The elements of S in order: each after as many as come before it.
InOrder(S, Before(_, _)) ==
  [i \in 1 .. Cardinality(S) |->
     CHOOSE x \in S : Cardinality({ y \in S : Before(y, x) }) = i - 1]

ByRank(m, n) == Rank(m) < Rank(n)

\* A tenant's documents: WHERE tenant_id, or the prefix of the joined name.
Listed(kind, tenant) ==
  { rows[k] : k \in { x \in DOMAIN rows :
      /\ x[1] = <<kind>>
      /\ IF backend = "postgres" THEN rows[x].tenant = tenant
                                 ELSE x[2][1] = tenant } }

\* MongoDB's prefix is the regular expression ^tenant: with the tenant as it is.
Literal(c) == backend = "mongodb" => req[c].tenant \notin Patterns

OfKind(kind) == { rows[k] : k \in { x \in DOMAIN rows : rows[x].kind = kind } }

MembersOf(c) ==
  { m[3] : m \in { x \in members :
                     x[1] = req[c].tenant /\ x[2] = req[c].kind } }

\* The items of a sorted list that the page of c shows.
Cut(c, items) ==
  LET page == Page(req[c].page)
      per == PerPage(req[c].per)
  IN  [i \in 1 .. Cardinality(Shown(page, per, Len(items))) |->
         items[Offset(page, per) + i]]

Expired(d) == d.expires > 0 /\ d.expires < now

HashOf(hash) ==
  { k \in DOMAIN rows : rows[k].kind = "apikeys" /\ rows[k].hash = hash }

-----------------------------------------------------------------------------
(* Calls *)

At(c, where, ops) == pc[c] = where /\ req[c].op \in ops

Goto(c, where) ==
  /\ pc' = [pc EXCEPT ![c] = where]
  /\ UNCHANGED << req, reply >>

Answer(c, r) ==
  /\ pc' = [pc EXCEPT ![c] = "done"]
  /\ reply' = [reply EXCEPT ![c] = r]
  /\ held' = [held EXCEPT ![c] = << >>]
  /\ todo' = [todo EXCEPT ![c] = << >>]
  /\ total' = [total EXCEPT ![c] = 0]
  /\ UNCHANGED req

Failed == [ok |-> FALSE, found |-> FALSE, items |-> << >>, total |-> 0]
Missing == [ok |-> TRUE, found |-> FALSE, items |-> << >>, total |-> 0]
Found(d) == [ok |-> TRUE, found |-> TRUE, items |-> <<d>>, total |-> 0]

Init(backends) ==
  /\ backend \in backends
  /\ now = 2
  /\ pc = [c \in Clients |-> "idle"]
  /\ req = [c \in Clients |-> NoRequest]
  /\ held = [c \in Clients |-> << >>]
  /\ todo = [c \in Clients |-> << >>]
  /\ total = [c \in Clients |-> 0]
  /\ reply = [c \in Clients |-> NoReply]

\* The service receives a call.
Begin(c, r) ==
  /\ pc[c] \in {"idle", "done"}
  /\ pc' = [pc EXCEPT ![c] = "run"]
  /\ req' = [req EXCEPT ![c] = r]
  /\ reply' = [reply EXCEPT ![c] = NoReply]
  /\ UNCHANGED << backend, storeVars, held, todo, total >>

-----------------------------------------------------------------------------
(* Creates, and assignments saved *)

\* A flag or an experiment, stamped with the time.
Document(c) ==
  [kind |-> req[c].kind, tenant |-> req[c].tenant, name |-> req[c].name,
   data |-> req[c].data, hash |-> req[c].hash, expires |-> 0,
   createdAt |-> now, revoked |-> FALSE]

\* An assignment may have an end.
Assignment(c) == [Document(c) EXCEPT !.expires = req[c].expires]

\* Postgres' INSERT fails on the primary key and on UNIQUE key_hash.
Refused(c) ==
  /\ backend = "postgres" /\ req[c].op = "create"
  /\ Stored(c) \/ (req[c].kind = "apikeys" /\ HashOf(req[c].hash) # {})

RefuseCreate(c) ==
  /\ At(c, "run", {"create"}) /\ Refused(c)
  /\ Answer(c, Failed)
  /\ UNCHANGED << backend, storeVars >>

\* INSERT, or ReplaceOne with upsert, in place of what is there.
Create(c) ==
  /\ At(c, "run", {"create"}) /\ backend # "redis" /\ ~ Refused(c)
  /\ Put(KeyOf(c), Document(c))
  /\ now' = now + 1
  /\ Answer(c, Found(Document(c)))
  /\ UNCHANGED << backend, members, refs >>

\* Redis' SET, the first command of a pipeline.
SetDocument(c) ==
  /\ At(c, "run", {"create"}) /\ backend = "redis"
  /\ Put(KeyOf(c), Document(c))
  /\ now' = now + 1
  /\ held' = [held EXCEPT ![c] = << Document(c) >>]
  /\ Goto(c, "member")
  /\ UNCHANGED << backend, members, refs, todo, total >>

\* Mutant: the reference from the hash is forgotten.
AddMember_NoRef(c) ==
  /\ At(c, "member", {"create"})
  /\ members' = members \cup {<< req[c].tenant, req[c].kind, req[c].name >>}
  /\ Answer(c, Found(held[c][1]))
  /\ UNCHANGED << backend, rows, refs, now >>

\* SADD, the second.
AddMember(c) ==
  /\ At(c, "member", {"create"})
  /\ members' = members \cup {<< req[c].tenant, req[c].kind, req[c].name >>}
  /\ IF req[c].kind = "apikeys"
     THEN Goto(c, "ref") /\ UNCHANGED << held, todo, total >>
     ELSE Answer(c, Found(held[c][1]))
  /\ UNCHANGED << backend, rows, refs, now >>

\* The third, for an API key.
SetRef(c) ==
  /\ At(c, "ref", {"create"})
  /\ refs' = [h \in DOMAIN refs \cup {req[c].hash} |->
                IF h = req[c].hash THEN <<req[c].tenant>> \o Pieces(req[c].name)
                                   ELSE refs[h]]
  /\ Answer(c, Found(held[c][1]))
  /\ UNCHANGED << backend, rows, members, now >>

\* An assignment replaces the one before it, in all three.
Save(c) ==
  /\ At(c, "run", {"save"})
  /\ Put(KeyOf(c), Assignment(c))
  /\ now' = now + 1
  /\ Answer(c, Found(Assignment(c)))
  /\ UNCHANGED << backend, members, refs >>

-----------------------------------------------------------------------------
(* Reads *)

\* A flag or an experiment by its name.
Get(c) ==
  /\ At(c, "run", {"get"}) /\ req[c].kind # "assignments"
  /\ Answer(c, IF Stored(c) THEN Found(rows[KeyOf(c)]) ELSE Missing)
  /\ UNCHANGED << backend, storeVars >>

\* Mutant: an assignment whose time is over is still returned.
GetAssignment_Expired(c) ==
  /\ At(c, "run", {"get"}) /\ req[c].kind = "assignments"
  /\ Answer(c, IF Stored(c) THEN Found(rows[KeyOf(c)]) ELSE Missing)
  /\ UNCHANGED << backend, storeVars >>

\* An assignment, unless its time is over.
GetAssignment(c) ==
  /\ At(c, "run", {"get"}) /\ req[c].kind = "assignments"
  /\ Answer(c, IF Stored(c) /\ ~ Expired(rows[KeyOf(c)])
               THEN Found(rows[KeyOf(c)]) ELSE Missing)
  /\ UNCHANGED << backend, storeVars >>

\* Postgres' unique hash, or any match in MongoDB, whose index is not unique.
FindByHash(c) ==
  /\ At(c, "run", {"findByHash"}) /\ backend # "redis"
  /\ \/ \E k \in HashOf(req[c].hash) : Answer(c, Found(rows[k]))
     \/ HashOf(req[c].hash) = {} /\ Answer(c, Missing)
  /\ UNCHANGED << backend, storeVars >>

\* Redis looks the reference up,
ReadRef(c) ==
  /\ At(c, "run", {"findByHash"}) /\ backend = "redis"
  /\ IF req[c].hash \in DOMAIN refs
     THEN /\ Goto(c, "follow")
          /\ todo' = [todo EXCEPT ![c] = << refs[req[c].hash] >>]
          /\ UNCHANGED << held, total >>
     ELSE Answer(c, Missing)
  /\ UNCHANGED << backend, storeVars >>

\* cuts it at its first colon and reads what is there now.
FollowRef(c) ==
  /\ pc[c] = "follow"
  /\ LET k == Key("apikeys", Head(todo[c][1]), << Tail(todo[c][1]) >>) IN
       Answer(c, IF k \in DOMAIN rows THEN Found(rows[k]) ELSE Missing)
  /\ UNCHANGED << backend, storeVars >>

-----------------------------------------------------------------------------
(* Lists *)

\* SELECT COUNT(*) or CountDocuments.
Count(c) ==
  /\ At(c, "run", {"list"}) /\ backend # "redis" /\ Literal(c)
  /\ total' = [total EXCEPT ![c] = Cardinality(Listed(req[c].kind, req[c].tenant))]
  /\ Goto(c, "fetch")
  /\ UNCHANGED << backend, storeVars, held, todo >>

\* The page itself; both refuse a negative offset.
Fetch(c) ==
  /\ pc[c] = "fetch" /\ Literal(c)
  /\ LET all == InOrder(Listed(req[c].kind, req[c].tenant), Precedes)
     IN Answer(c, IF Offset(Page(req[c].page), PerPage(req[c].per)) < 0
                  THEN Failed
                  ELSE [ok |-> TRUE, found |-> FALSE, items |-> Cut(c, all),
                        total |-> total[c]])
  /\ UNCHANGED << backend, storeVars >>

\* What else a tenant's pattern matches is open: any number,
CountMatches(c) ==
  /\ At(c, "run", {"list"}) /\ backend # "redis" /\ ~ Literal(c)
  /\ \E n \in 0 .. Cardinality(OfKind(req[c].kind)) :
       total' = [total EXCEPT ![c] = n]
  /\ Goto(c, "fetch")
  /\ UNCHANGED << backend, storeVars, held, todo >>

\* any of the documents, of whatever tenant, or none if it is no expression.
FetchMatches(c) ==
  /\ pc[c] = "fetch" /\ ~ Literal(c)
  /\ \/ Answer(c, Failed)
     \/ \E n \in 0 .. PerPage(req[c].per) :
          \E items \in [1 .. n -> OfKind(req[c].kind)] :
            Answer(c, [ok |-> TRUE, found |-> FALSE, items |-> items,
                       total |-> total[c]])
  /\ UNCHANGED << backend, storeVars >>

\* Whether Redis' keys[offset:end] has its bounds in order.
Sliceable(c) ==
  LET page == Page(req[c].page)  per == PerPage(req[c].per) IN
    /\ Offset(page, per) >= 0
    /\ \/ End(page, per) >= Offset(page, per)
       \/ End(page, per) >= Cardinality(MembersOf(c))

\* Redis: SMEMBERS, sorted and cut;
ReadMembers(c) ==
  /\ At(c, "run", {"list"}) /\ backend = "redis" /\ Sliceable(c)
  /\ LET all == InOrder(MembersOf(c), ByRank)
     IN /\ total' = [total EXCEPT ![c] = Len(all)]
        /\ todo' = [todo EXCEPT ![c] = Cut(c, all)]
  /\ Goto(c, "items")
  /\ UNCHANGED << backend, storeVars, held >>

\* then a GET for each name; what is not there any more is left out,
ReadItem(c) ==
  /\ pc[c] = "items" /\ todo[c] # << >>
  /\ LET k == Key(req[c].kind, req[c].tenant, Head(todo[c])) IN
       held' = [held EXCEPT ![c] =
                  IF k \in DOMAIN rows THEN Append(@, rows[k]) ELSE @]
  /\ todo' = [todo EXCEPT ![c] = Tail(@)]
  /\ UNCHANGED << backend, storeVars, pc, req, total, reply >>

\* Mutant: a GET that fails ends the list with what has been read.
SkipItem_Stops(c) ==
  /\ pc[c] = "items" /\ todo[c] # << >>
  /\ todo' = [todo EXCEPT ![c] = << >>]
  /\ UNCHANGED << backend, storeVars, pc, req, held, total, reply >>

\* and so is what a GET fails for: the list goes on without it.
SkipItem(c) ==
  /\ pc[c] = "items" /\ todo[c] # << >>
  /\ todo' = [todo EXCEPT ![c] = Tail(@)]
  /\ UNCHANGED << backend, storeVars, pc, req, held, total, reply >>

EndList(c) ==
  /\ pc[c] = "items" /\ todo[c] = << >>
  /\ Answer(c, [ok |-> TRUE, found |-> FALSE, items |-> held[c],
                total |-> total[c]])
  /\ UNCHANGED << backend, storeVars >>

InFlight(c) == pc[c] \notin {"idle", "done"}

\* A slice out of its bounds panics and ends the process with every call in
\* it; the documents are in Redis, and the next process goes on with them.
Panic(c) ==
  /\ At(c, "run", {"list"}) /\ backend = "redis" /\ ~ Sliceable(c)
  /\ pc' = [d \in Clients |-> IF InFlight(d) THEN "done" ELSE pc[d]]
  /\ reply' = [d \in Clients |-> IF InFlight(d) THEN Failed ELSE reply[d]]
  /\ held' = [d \in Clients |-> << >>]
  /\ todo' = [d \in Clients |-> << >>]
  /\ total' = [d \in Clients |-> 0]
  /\ UNCHANGED << backend, storeVars, req >>

-----------------------------------------------------------------------------
(* Updates, revocations, deletes *)

\* Mutant: the document is built anew, without its tenant.
Changed_Rebuilt(c, d) ==
  [d EXCEPT !.tenant = "", !.data = req[c].data, !.revoked = TRUE]

\* What an update or a revocation makes of document d.
Changed(c, d) ==
  IF req[c].op = "revoke" THEN [d EXCEPT !.revoked = TRUE]
                          ELSE [d EXCEPT !.data = req[c].data]

\* Postgres' UPDATE of a flag or experiment has to return a row.
UpdateAtOnce(c) ==
  /\ At(c, "run", {"update"}) /\ backend = "postgres"
  /\ IF Stored(c)
     THEN /\ Put(KeyOf(c), Changed(c, rows[KeyOf(c)]))
          /\ Answer(c, Found(Changed(c, rows[KeyOf(c)])))
     ELSE Answer(c, Failed) /\ UNCHANGED rows
  /\ UNCHANGED << backend, members, refs, now >>

\* Its UPDATE of an API key succeeds with and without the key.
RevokeAtOnce(c) ==
  /\ At(c, "run", {"revoke"}) /\ backend = "postgres"
  /\ IF Stored(c) /\ rows[KeyOf(c)].tenant = req[c].tenant
     THEN Put(KeyOf(c), Changed(c, rows[KeyOf(c)]))
     ELSE UNCHANGED rows
  /\ Answer(c, Missing)
  /\ UNCHANGED << backend, members, refs, now >>

\* MongoDB and Redis read the document first, and fail without it;
ReadFirst(c) ==
  /\ At(c, "run", {"update", "revoke"}) /\ backend # "postgres"
  /\ IF Stored(c)
     THEN /\ held' = [held EXCEPT ![c] = << rows[KeyOf(c)] >>]
          /\ Goto(c, "write")
          /\ UNCHANGED << todo, total >>
     ELSE Answer(c, Failed)
  /\ UNCHANGED << backend, storeVars >>

\* MongoDB's ReplaceOne then matches nothing if it is gone.
Replace(c) ==
  /\ At(c, "write", {"update", "revoke"}) /\ backend = "mongodb"
  /\ IF Stored(c) THEN Put(KeyOf(c), Changed(c, held[c][1]))
                  ELSE UNCHANGED rows
  /\ Answer(c, Found(Changed(c, held[c][1])))
  /\ UNCHANGED << backend, members, refs, now >>

\* Redis' SET writes it in any case.
SetBack(c) ==
  /\ At(c, "write", {"update", "revoke"}) /\ backend = "redis"
  /\ Put(KeyOf(c), Changed(c, held[c][1]))
  /\ Answer(c, Found(Changed(c, held[c][1])))
  /\ UNCHANGED << backend, members, refs, now >>

\* DELETE, DeleteOne or DEL; without a document it is answered just as well.
Delete(c) ==
  /\ At(c, "run", {"delete"})
  /\ rows' = [k \in DOMAIN rows \ {KeyOf(c)} |-> rows[k]]
  /\ IF backend = "redis"
     THEN Goto(c, "member") /\ UNCHANGED << held, todo, total >>
     ELSE Answer(c, Missing)
  /\ UNCHANGED << backend, members, refs, now >>

RemoveMember(c) ==
  /\ At(c, "member", {"delete"})
  /\ members' = members \ {<< req[c].tenant, req[c].kind, req[c].name >>}
  /\ Answer(c, Missing)
  /\ UNCHANGED << backend, rows, refs, now >>

-----------------------------------------------------------------------------
(* The world *)

\* The call fails or is given up on; its next command is not executed.
Fail(c) ==
  /\ InFlight(c)
  /\ Answer(c, Failed)
  /\ UNCHANGED << backend, storeVars >>

\* MongoDB's TTL index and Redis' expiry remove what is over, some time.
Expire ==
  /\ backend # "postgres"
  /\ \E k \in DOMAIN rows :
       /\ Expired(rows[k])
       /\ rows' = [x \in DOMAIN rows \ {k} |-> rows[x]]
  /\ UNCHANGED << backend, members, refs, now, callVars >>

Serve(c) ==
  \/ RefuseCreate(c) \/ Create(c)
  \/ SetDocument(c) \/ AddMember(c) \/ SetRef(c)
  \/ Save(c)
  \/ Get(c) \/ GetAssignment(c) \/ FindByHash(c) \/ ReadRef(c) \/ FollowRef(c)
  \/ Count(c) \/ Fetch(c) \/ CountMatches(c) \/ FetchMatches(c)
  \/ ReadMembers(c) \/ ReadItem(c) \/ EndList(c) \/ Panic(c)
  \/ UpdateAtOnce(c) \/ RevokeAtOnce(c)
  \/ ReadFirst(c) \/ Replace(c) \/ SetBack(c)
  \/ Delete(c) \/ RemoveMember(c)

=============================================================================

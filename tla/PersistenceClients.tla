------------------------- MODULE PersistenceClients ------------------------
(***************************************************************************)
(* Who calls a persistence module: the conformance suite, one call after   *)
(* another on an empty store; or the management handlers for API keys      *)
(* (internal/api/handlers/apikeys.go) and flags, concurrently and with     *)
(* failing calls, beside lookups of keys by their hash.                    *)
(***************************************************************************)
EXTENDS Conformance

CONSTANTS Runner,     \* the client that runs the suite
          Tenants,    \* the tenants of the handlers
          Flags,      \* flags one of them has from the start
          ChangedFlags,    \* bound: the flags that are created and deleted
          ListPages,  \* what HTTP asks as page and perPage
          KeyPages,   \* bound: what it asks of the list of keys
          Script,     \* the steps of the suite
          MaxCalls    \* bound: calls of the handlers in all

\* The steps make calls as the suite and the handlers make them.
ASSUME ScriptAssumption ==
  /\ Runner \in Clients
  /\ Len(Script) \in Nat
  /\ \A i \in 1 .. Len(Script) : Proper(Script[i].ask)

ASSUME HandlersAssumption ==
  /\ Tenants \subseteq Texts /\ Tenants # {}
  /\ {"", "active", "new", "on", "off", "some-id"} \subseteq Texts
  /\ IsFiniteSet(Flags)
  /\ \A n \in Flags \cup ChangedFlags \cup {Name("")} :
       Named("flags", n) /\ Known(n)
  /\ ListPages \cup KeyPages \subseteq Int \X Int
  /\ MaxCalls \in Nat

VARIABLES
  driver,     \* who calls: "suite" or "handlers"
  next,       \* the suite's next step, or the number of calls made
  \* History, read by no action of the program.
  latest,     \* the hash of the key written last for each tenant
  answered,   \* the hashes of keys whose create was answered as done
  still,      \* lists during which nothing was written
  lost,       \* the names whose GET failed, list by list
  torn        \* a pipeline was cut, or two writes of a document overlapped

historyVars == << latest, answered, still, lost, torn >>
vars == << moduleVars, driver, next, historyVars >>

Home == CHOOSE t \in Tenants : TRUE

FlagDoc(n) ==
  [kind |-> "flags", tenant |-> Home, name |-> n, data |-> "on",
   hash |-> NoHash, expires |-> 0, createdAt |-> 1, revoked |-> FALSE]

ClientsInit ==
  /\ Init(Backends)
  /\ driver \in {"suite", "handlers"}
  /\ rows = IF driver = "suite" THEN << >>
            ELSE [k \in { Key("flags", Home, n) : n \in Flags } |->
                    FlagDoc(CHOOSE n \in Flags : Key("flags", Home, n) = k)]
  /\ members = IF driver = "suite" \/ backend # "redis" THEN {}
               ELSE { << Home, "flags", n >> : n \in Flags }
  /\ refs = << >>
  /\ next = 1
  /\ latest = [t \in Tenants |-> NoHash]
  /\ answered = {}
  /\ still = [c \in Clients |-> FALSE]
  /\ lost = [c \in Clients |-> {}]
  /\ torn = FALSE

-----------------------------------------------------------------------------
(* Calls *)

RunStep ==
  /\ driver = "suite" /\ next <= Len(Script)
  /\ ~ InFlight(Runner)
  /\ Begin(Runner, Script[next].ask)
  /\ next' = next + 1
  /\ UNCHANGED driver

\* The page as ParsePagination reads it and ListAPIKeys sends it.
PageAsked(kind, tenant, p) ==
  [ListPage(kind, tenant, Int32(AskedPage(p[1])), Int32(AskedPerPage(p[2])))
     EXCEPT !.asked = AskedPage(p[1])]

\* The key is new with every call; no id is given.
HandleCreateAPIKey(c) ==
  \E t \in Tenants : Begin(c, CreateKey(t, "", << t, next >>))

HandleListAPIKeys(c) ==
  \E t \in Tenants, p \in KeyPages : Begin(c, PageAsked("apikeys", t, p))

\* The id comes from the path and is not empty.
HandleRevokeAPIKey(c) ==
  Begin(c, Ask("revoke", "apikeys", Home, Name("some-id"), ""))

HandleListFlags(c) ==
  \E p \in ListPages : Begin(c, PageAsked("flags", Home, p))

HandleChangeFlag(c) ==
  \E n \in ChangedFlags :
    \/ Begin(c, Ask("delete", "flags", Home, n, ""))
    \/ Begin(c, Ask("create", "flags", Home, n, "new"))
    \/ Begin(c, Ask("update", "flags", Home, n, "off"))

LookUp(c) == \E t \in Tenants, i \in 1 .. next - 1 :
               Begin(c, FindKey(<< t, i >>))

Call(c) ==
  /\ driver = "handlers" /\ next <= MaxCalls
  /\ ~ InFlight(c)
  /\ \/ HandleCreateAPIKey(c)
     \/ HandleListAPIKeys(c)
     \/ HandleRevokeAPIKey(c)
     \/ HandleListFlags(c)
     \/ HandleChangeFlag(c)
     \/ LookUp(c)
  /\ next' = next + 1
  /\ UNCHANGED driver

-----------------------------------------------------------------------------
(* History *)

\* The hash of the key of tenant t that this step writes, if it writes one.
WrittenFor(t) ==
  { rows'[k].hash : k \in { x \in DOMAIN rows' :
      /\ rows'[x].kind = "apikeys" /\ rows'[x].tenant = t
      /\ now' # now /\ rows'[x].createdAt = now } }

MidPipeline(c) == pc[c] \in {"member", "ref"}

Writes(c) ==
  InFlight(c) /\ req[c].op \in {"create", "save", "update", "delete", "revoke"}

Observe ==
  /\ latest' = [t \in Tenants |->
                  IF WrittenFor(t) = {} THEN latest[t]
                  ELSE CHOOSE h \in WrittenFor(t) : TRUE]
  /\ answered' = answered \cup
       { req[c].hash : c \in { d \in Clients :
           /\ driver = "handlers" /\ InFlight(d) /\ ~ InFlight(d)'
           /\ req[d].op = "create" /\ req[d].kind = "apikeys"
           /\ reply'[d].ok } }
  /\ torn' = ( \/ torn
               \/ \E c \in Clients : MidPipeline(c) /\ reply'[c] = Failed
               \/ \E c, d \in Clients :
                    /\ c # d /\ Writes(c)' /\ Writes(d)'
                    /\ KeyOf(c)' = KeyOf(d)' )
  /\ still' = [c \in Clients |->
       IF ~ InFlight(c) /\ InFlight(c)'
       THEN ~ torn /\ \A d \in Clients : ~ MidPipeline(d)
       ELSE still[c] /\ rows' = rows /\ members' = members]

-----------------------------------------------------------------------------
(* The specification *)

\* A call begins with no GET that failed,
Recall == lost' = [c \in Clients |-> IF ~ InFlight(c) /\ InFlight(c)' THEN {}
                                                                  ELSE lost[c]]

\* and each one that does is remembered by its name.
Lose(c) == lost' = [lost EXCEPT ![c] = @ \cup {Head(todo[c])}]

Next ==
  /\ \/ RunStep /\ Recall
     \/ \E c \in Clients : Call(c) /\ Recall
     \/ \E c \in Clients : Serve(c) /\ Recall /\ UNCHANGED << driver, next >>
     \/ /\ driver = "handlers"
        /\ \E c \in Clients :
             \/ Fail(c) /\ Recall
             \/ SkipItem(c) /\ Lose(c)
        /\ UNCHANGED << driver, next >>
     \/ Expire /\ Recall /\ UNCHANGED << driver, next >>
  /\ Observe

Spec == ClientsInit /\ [][Next]_vars

-----------------------------------------------------------------------------
(* Properties *)

Hashes == { << t, i >> : t \in Tenants, i \in 1 .. MaxCalls }

\* Every document is of its type and under the name it was given, sets and
\* references are Redis' alone, and every call is where its operation can be.
TypeOK ==
  /\ backend \in Backends
  /\ \A k \in DOMAIN rows : rows[k] \in DocumentType
  /\ \A c \in Clients : req[c] \in RequestType \cup {NoRequest}
  /\ \A k \in DOMAIN rows : k = Key(rows[k].kind, rows[k].tenant, rows[k].name)
  /\ \A m \in members :
       backend = "redis" /\ m[2] \in {"flags", "experiments", "apikeys"}
  /\ DOMAIN refs # {} => backend = "redis"
  /\ \A c \in Clients :
       /\ pc[c] \in {"idle", "run", "member", "ref", "follow", "fetch",
                     "items", "write", "done"}
       /\ pc[c] = "done" <=> reply[c] # NoReply
       /\ MidPipeline(c) => req[c].op \in {"create", "delete"}

\* Each test of the conformance suite passes on each of the three modules:
\* every call of RunPersistenceSuite is answered as the test expects, whether
\* or not the database has removed an assignment that is over
\* (internal/conformance/persistence.go).
SuitePasses ==
  driver = "suite" /\ pc[Runner] = "done" =>
    Meets(reply[Runner], Script[next - 1].expect)

\* What a lookup of hash h would find now, were it not interrupted.
Resolve(h) ==
  IF backend # "redis" THEN { rows[k] : k \in HashOf(h) }
  ELSE { rows[k] : k \in { x \in DOMAIN rows :
           h \in DOMAIN refs
           /\ x = Key("apikeys", Head(refs[h]), << Tail(refs[h]) >>) } }

\* A key whose create was answered 201 is found by its hash, for its tenant and
\* not revoked, until a later create of the same tenant writes its own key:
\* that one takes the place of the first, which has the same empty id.  In
\* Postgres, which refuses the second, it is found for good (apikeys.go:113).
KeyFound ==
  \A h \in answered :
    backend = "postgres" \/ latest[h[1]] = h =>
      /\ Resolve(h) # {}
      /\ \A d \in Resolve(h) : d.hash = h /\ d.tenant = h[1] /\ ~ d.revoked

\* Whatever creates fall between the commands of a lookup, the key it answers
\* belongs to the tenant the hash was made for, even where it is another key of
\* that tenant (GetAPIKeyByHash of the three stores).
HashFindsOwnTenant ==
  \A c \in Clients :
    pc[c] = "done" /\ req[c].op = "findByHash" /\ reply[c].found =>
      reply[c].items[1].tenant = req[c].hash[1]

\* All documents of a kind and tenant, in the order of their list.
Documents(kind, tenant) ==
  InOrder({ rows[k] : k \in { x \in DOMAIN rows :
              rows[x].kind = kind /\ rows[x].tenant = tenant } },
          Precedes)

\* Sequence s is page without the documents that have a name in gone.
Without(s, page, gone) ==
  \E at \in [DOMAIN s -> DOMAIN page] :
    /\ \A i \in DOMAIN s : s[i] = page[at[i]]
    /\ \A i, j \in DOMAIN s : i < j => at[i] < at[j]
    /\ \A n \in DOMAIN page :
         page[n].name \in gone <=> ~ \E i \in DOMAIN s : at[i] = n

\* A list during which nothing was written answers the true total and the page
\* its caller asked for, in order and whole, but for the documents whose own GET
\* failed in Redis, which answers without them (store.go:119, 286, 419).  Not
\* so for a page so far that its offset does not fit 32 bits (paginateKeys,
\* listDocuments, ListFlags; a page that wraps can show the items of another
\* one), where Redis' set of names was left wrong before by a pipeline that was
\* cut or overlapped another (torn), or where MongoDB takes a tenant that
\* is no literal for a pattern (tenantFilter).
QuietListExact ==
  \A c \in Clients :
    LET per == PerPage(req[c].per)
        all == Documents(req[c].kind, req[c].tenant)
        end == req[c].asked * per
        last == IF end < Len(all) THEN end ELSE Len(all)
        page == SubSeq(all, (req[c].asked - 1) * per + 1, last)
    IN  pc[c] = "done" /\ req[c].op = "list" /\ reply[c].ok /\ still[c]
        /\ Fits(req[c].asked, per) /\ Literal(c) =>
          /\ reply[c].total = Len(all)
          /\ Without(reply[c].items, page, lost[c])

=============================================================================

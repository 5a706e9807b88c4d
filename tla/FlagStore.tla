----------------------------- MODULE FlagStore -----------------------------
(***************************************************************************)
(* Flag management over a persistence module: the HTTP handlers            *)
(* (internal/api/handlers/flags.go), the gRPC client in front of the       *)
(* module (internal/grpcclient/flagmanager.go) and CreateFlag, UpdateFlag  *)
(* and DeleteFlag of the module's store.                                   *)
(*                                                                         *)
(* Postgres executes each of them as one statement.  MongoDB and Redis     *)
(* read the flag before they update it.  Redis also keeps the set of the   *)
(* tenant's keys, and writes it in a second command of a pipeline that is  *)
(* not a transaction.  The commands of concurrent calls interleave.        *)
(*                                                                         *)
(* The client gives up after five seconds.  The module may still finish    *)
(* the call, stop in the middle of it, or never see it.                    *)
(***************************************************************************)
CONSTANTS Keys,          \* flag keys of one tenant
          Bodies,        \* what a definition says: type, rules, enabled, ...
          Calls,         \* management requests, each handled once
          Backends,      \* the modules the core may be wired to
          HasFaults,     \* whether calls may fail
          Absent, NoAsk,
          Before,        \* the create of a flag that was there before
          NoOne          \* the author of a definition that names none

\* A flag's creation time and author are those of the call that created it.
Stamps == Calls \cup {Before}

Flag == [body : Bodies, createdAt : Stamps, createdBy : Stamps \cup {NoOne}]

Asks == [op : {"create", "update"}, key : Keys, body : Bodies] \cup
        [op : {"delete"}, key : Keys]

ASSUME BackendsAssumption == Backends \subseteq {"postgres", "mongodb", "redis"}
ASSUME FaultsAssumption == HasFaults \in BOOLEAN
ASSUME NullAssumption ==
  /\ Absent \notin Flag /\ Absent \notin Bodies
  /\ NoAsk \notin Asks /\ Before \notin Calls /\ NoOne \notin Stamps

VARIABLES
  backend,    \* the module the core is wired to
  flags,      \* the definitions in the store
  index,      \* Redis' flag_keys
  pc,         \* where the module is with each call
  ask,        \* what the call asks
  old,        \* the creation time an update has read
  effect,     \* history: whether the call has written its flag
  result,     \* what the module answers
  reply,      \* what the caller was answered
  found,      \* history: the call's flag was there since it was asked
  contested   \* history: keys of overlapping calls or half a pipeline

storeVars == << backend, flags, index >>
callVars == << pc, ask, old, effect, result >>
vars == << storeVars, callVars, reply, found, contested >>

\* Postgres' INSERT fails on a primary key that is there; the others replace.
CreateReplaces == backend # "postgres"

\* Whether an update reads the flag in a command of its own.
ReadsFirst == backend # "postgres"

\* Whether the tenant's keys are kept apart from its flags.
Indexed == backend = "redis"

PCs == {"idle", "run", "write", "index", "done"}

TypeOK ==
  /\ backend \in Backends
  /\ flags \in [Keys -> Flag \cup {Absent}]
  /\ index \subseteq Keys
  /\ pc \in [Calls -> PCs]
  /\ ask \in [Calls -> Asks \cup {NoAsk}]
  /\ old \in [Calls -> Stamps]
  /\ effect \in [Calls -> BOOLEAN]
  /\ result \in [Calls -> {"none", "ok", "error"}]
  /\ reply \in [Calls -> {"none", "ok", "error"}]
  /\ found \in [Calls -> BOOLEAN]
  /\ contested \subseteq Keys

Defined == { k \in Keys : flags[k] # Absent }

Init ==
  /\ backend \in Backends
  /\ flags \in [Keys -> [body : Bodies, createdAt : {Before},
                         createdBy : {Before}] \cup {Absent}]
  /\ index = IF Indexed THEN Defined ELSE {}
  /\ pc = [c \in Calls |-> "idle"]
  /\ ask = [c \in Calls |-> NoAsk]
  /\ old = [c \in Calls |-> Before]
  /\ effect = [c \in Calls |-> FALSE]
  /\ result = [c \in Calls |-> "none"]
  /\ reply = [c \in Calls |-> "none"]
  /\ found = [c \in Calls |-> FALSE]
  /\ contested = {}

-----------------------------------------------------------------------------
(* Helpers *)

Pending(c) == pc[c] \in {"run", "write", "index"}

Current(c) == flags[ask[c].key]

\* Store flag f for the key of call c.
Put(c, f) ==
  /\ flags' = [flags EXCEPT ![ask[c].key] = f]
  /\ effect' = [effect EXCEPT ![c] = TRUE]
  /\ found' = [d \in Calls |->
       found[d] \/ (f # Absent /\ Pending(d) /\ ~ effect[d]
                    /\ ask[d].key = ask[c].key)]

Finish(c, r) ==
  /\ pc' = [pc EXCEPT ![c] = "done"]
  /\ result' = [result EXCEPT ![c] = r]

\* What an UPDATE leaves: it does not touch created_at and created_by.
Updated(c) == [Current(c) EXCEPT !.body = ask[c].body]

\* Mutant: the update stamps the flag anew.
Replacement_Restamped(c) ==
  [body |-> ask[c].body, createdAt |-> c, createdBy |-> NoOne]

\* Mutant: the update forgets the creation time as well.
Replacement_Unstamped(c) ==
  [body |-> ask[c].body, createdAt |-> NoOne, createdBy |-> NoOne]

\* What a read-then-replace update leaves: the body of a PUT names no author.
Replacement(c) ==
  [body |-> ask[c].body, createdAt |-> old[c], createdBy |-> NoOne]

Created(c) == [body |-> ask[c].body, createdAt |-> c, createdBy |-> c]

-----------------------------------------------------------------------------
(* The caller *)

Invoke(c) ==
  /\ pc[c] = "idle"
  /\ \E a \in Asks :
       /\ ask' = [ask EXCEPT ![c] = a]
       /\ found' = [found EXCEPT ![c] = flags[a.key] # Absent]
       /\ contested' = contested \cup
            { k \in {a.key} : \E d \in Calls : Pending(d) /\ ask[d].key = k }
  /\ pc' = [pc EXCEPT ![c] = "run"]
  /\ UNCHANGED << storeVars, old, effect, result, reply >>

\* The module's answer arrives.
Deliver(c) ==
  /\ pc[c] = "done" /\ reply[c] = "none"
  /\ reply' = [reply EXCEPT ![c] = result[c]]
  /\ UNCHANGED << storeVars, callVars, found, contested >>

\* The call fails or times out on the way: the caller is answered 500.
GiveUp(c) ==
  /\ HasFaults
  /\ pc[c] # "idle" /\ reply[c] = "none"
  /\ reply' = [reply EXCEPT ![c] = "error"]
  /\ UNCHANGED << storeVars, callVars, found, contested >>

-----------------------------------------------------------------------------
(* The module *)

\* CreateFlag: an INSERT, an upsert, or the SET of the pipeline.
Create(c) ==
  /\ pc[c] = "run" /\ ask[c].op = "create"
  /\ CreateReplaces \/ Current(c) = Absent
  /\ Put(c, Created(c))
  /\ IF Indexed
     THEN pc' = [pc EXCEPT ![c] = "index"] /\ UNCHANGED result
     ELSE Finish(c, "ok")
  /\ UNCHANGED << backend, index, ask, old, reply, contested >>

\* The primary key is taken.
RefuseCreate(c) ==
  /\ pc[c] = "run" /\ ask[c].op = "create"
  /\ ~ CreateReplaces /\ Current(c) # Absent
  /\ Finish(c, "error")
  /\ UNCHANGED << storeVars, ask, old, effect, reply, found, contested >>

\* UpdateFlag in Postgres.
UpdateAtOnce(c) ==
  /\ pc[c] = "run" /\ ask[c].op = "update" /\ ~ ReadsFirst
  /\ Current(c) # Absent
  /\ Put(c, Updated(c))
  /\ Finish(c, "ok")
  /\ UNCHANGED << backend, index, ask, old, reply, contested >>

\* UpdateFlag elsewhere reads the flag for its creation time ...
UpdateReads(c) ==
  /\ pc[c] = "run" /\ ask[c].op = "update" /\ ReadsFirst
  /\ Current(c) # Absent
  /\ old' = [old EXCEPT ![c] = Current(c).createdAt]
  /\ pc' = [pc EXCEPT ![c] = "write"]
  /\ UNCHANGED << storeVars, ask, effect, result, reply, found, contested >>

\* There is nothing to update.
RefuseUpdate(c) ==
  /\ pc[c] = "run" /\ ask[c].op = "update"
  /\ Current(c) = Absent
  /\ Finish(c, "error")
  /\ UNCHANGED << storeVars, ask, old, effect, reply, found, contested >>

\* Mutant: ReplaceOne with upsert, like the creates.
MatchesNothing_Upsert(c) == FALSE

\* MongoDB's ReplaceOne matches nothing when the flag has gone.
MatchesNothing(c) == backend = "mongodb" /\ Current(c) = Absent

\* ... and then writes it.
UpdateWrites(c) ==
  /\ pc[c] = "write"
  /\ IF MatchesNothing(c)
     THEN effect' = [effect EXCEPT ![c] = TRUE] /\ UNCHANGED << flags, found >>
     ELSE Put(c, Replacement(c))
  /\ Finish(c, "ok")
  /\ UNCHANGED << backend, index, ask, old, reply, contested >>

\* DeleteFlag: a DELETE, or the DEL of the pipeline.
Delete(c) ==
  /\ pc[c] = "run" /\ ask[c].op = "delete"
  /\ Put(c, Absent)
  /\ IF Indexed
     THEN pc' = [pc EXCEPT ![c] = "index"] /\ UNCHANGED result
     ELSE Finish(c, "ok")
  /\ UNCHANGED << backend, index, ask, old, reply, contested >>

\* Mutant: a deleted flag stays among the keys.
Reindexed_Kept(c) == index \cup {ask[c].key}

Reindexed(c) == IF ask[c].op = "create" THEN index \cup {ask[c].key}
                                        ELSE index \ {ask[c].key}

\* The SADD or SREM of the pipeline.
Reindex(c) ==
  /\ pc[c] = "index"
  /\ index' = Reindexed(c)
  /\ Finish(c, "ok")
  /\ UNCHANGED << backend, flags, ask, old, effect, reply, found, contested >>

\* A command fails, or the module stops.
Fail(c) ==
  /\ HasFaults /\ Pending(c)
  /\ Finish(c, "error")
  /\ contested' = contested \cup { k \in {ask[c].key} : pc[c] = "index" }
  /\ UNCHANGED << storeVars, ask, old, effect, reply, found >>

-----------------------------------------------------------------------------
(* The specification *)

Step(c) ==
  \/ Create(c) \/ RefuseCreate(c)
  \/ UpdateAtOnce(c) \/ UpdateReads(c) \/ RefuseUpdate(c) \/ UpdateWrites(c)
  \/ Delete(c) \/ Reindex(c) \/ Fail(c)

\* Every call is answered and the module has nothing to do.
Quiet ==
  /\ \A c \in Calls : pc[c] = "done" /\ reply[c] # "none"
  /\ UNCHANGED vars

Next ==
  \/ \E c \in Calls : Invoke(c) \/ Step(c) \/ Deliver(c) \/ GiveUp(c)
  \/ Quiet

Spec == Init /\ [][Next]_vars

-----------------------------------------------------------------------------
(* Properties *)

Stage(c) ==
  IF pc[c] = "idle" THEN "idle"
  ELSE IF effect[c] THEN "applied"
  ELSE IF pc[c] = "done" THEN "dropped" ELSE "open"

Registry == INSTANCE FlagRegistry WITH
  body <- [k \in Keys |-> IF flags[k] = Absent THEN Absent ELSE flags[k].body],
  stage <- [c \in Calls |-> Stage(c)],
  policy <- [createReplaces |-> CreateReplaces,
             resurrects |-> backend = "redis"]

\* Each call takes effect in one step, at most once, when its flag allows it,
\* and a success is answered only if it did (flags.go:151-228 over any store);
\* only Redis brings a deleted flag back.
ImplementsRegistry == Registry!RegistrySpec

\* ListFlags lists what GetFlag finds: Redis' flag_keys are the keys of its
\* flags, but for keys whose calls overlapped or whose pipeline was cut
\* (redis/store/store.go:87-92, 154-159).
IndexFollowsFlags ==
  Indexed => \A k \in Keys \ contested :
    (\A c \in Calls : pc[c] = "index" => ask[c].key # k) =>
      (k \in index <=> flags[k] # Absent)

\* While a flag is there its creation time changes only by a create, or by an
\* update that read an earlier flag of its key (redis/store/store.go:143,
\* mongodb/store/store.go:357).
CreationKept ==
  [][ \A k \in Keys :
        flags[k] # Absent /\ flags'[k] # Absent
          /\ flags'[k].createdAt # flags[k].createdAt =>
        \E c \in Calls :
          /\ effect'[c] /\ ~ effect[c] /\ ask[c].key = k
          /\ \/ ask[c].op = "create"
             \/ ask[c].op = "update" /\ old[c] # flags[k].createdAt ]_vars

-----------------------------------------------------------------------------
(* What the documents say and the code does not do *)

\* openspec/specs/management/spec.md:52-55: once deleted, a key is the unknown
\* flag's: only a create brings it back.
DeletedStaysDeleted ==
  [][ \A k \in Keys : flags[k] = Absent /\ flags'[k] # Absent =>
        \E c \in Calls : /\ effect'[c] /\ ~ effect[c]
                         /\ ask[c].op = "create" ]_vars

=============================================================================

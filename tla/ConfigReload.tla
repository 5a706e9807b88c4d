---------------------------- MODULE ConfigReload ----------------------------
(***************************************************************************)
(* The core in config-file mode (internal/configfile, cmd/bacon-core,      *)
(* internal/auth keyloader): the start of the process, the reloads that    *)
(* SIGHUP asks for, and the evaluation of requests meanwhile.              *)
(*                                                                         *)
(* The path is one file or a directory with a file per tenant.  A load     *)
(* looks the files up, reads them one after the other and then swaps what  *)
(* it read for what was loaded; the operator may edit, remove or create a  *)
(* file between any two of these steps.  API keys are taken from the first *)
(* load and from the environment, once.                                    *)
(*                                                                         *)
(* Each step is a step of Evaluation without an assignment store, or       *)
(* leaves Evaluation's state alone.                                        *)
(***************************************************************************)
EXTENDS Evaluation

CONSTANTS Layouts,       \* what the path may be: "directory", "file"
          Listing,       \* Listing[layout]: its files, in the order they sort
          Offered,       \* Offered[n]: what the operator may put in file n
          Missing,       \* no such file
          Broken,        \* a file that is not YAML
          ApiKeys,
          Environment,   \* the entries of BACON_API_KEYS
          DefaultTenant,
          MaxEdits, MaxHangups,
          NoBlock, NoKey

Files == DOMAIN Offered

Scopes == {"evaluation", "management"}

\* The scope of an entry is any string; NoKey stands for the empty key.
Entry == [key : ApiKeys \cup {NoKey}, scope : Scopes \cup {"other"}]

\* A tenant's part of a file; complete: every flag in it has a key.
Block == [flags : [Keys -> Definitions \cup {NoFlag}], complete : BOOLEAN,
          apiKeys : Seq(Entry)]

\* What a file that can be parsed says: the blocks of some tenants.
Parsed(content) == \E T \in SUBSET Tenants : content \in [T -> Block]

\* The names of a directory are distinct, and a file is one.
ASSUME LayoutAssumption ==
  /\ Layouts \subseteq {"directory", "file"}
  /\ \A l \in Layouts :
       /\ Listing[l] \in Seq(Files)
       /\ \A i, j \in DOMAIN Listing[l] : Listing[l][i] = Listing[l][j] => i = j
       /\ l = "file" => Len(Listing[l]) = 1
ASSUME FileAssumption ==
  /\ ~ HasAssignments
  /\ \A n \in Files : \A content \in Offered[n] :
       content \in {Missing, Broken} \/ Parsed(content)
  /\ Missing # Broken /\ ~ Parsed(Missing) /\ ~ Parsed(Broken)
  /\ NoBlock \notin Block
ASSUME KeyAssumption ==
  /\ DefaultTenant \in Tenants
  /\ Environment \in Seq(Entry)
  /\ NoKey \notin [tenant : Tenants, scope : Scopes]
ASSUME BoundAssumption == MaxEdits \in Nat /\ MaxHangups \in Nat

VARIABLES
  layout, disk,
  reachable,    \* the path is there and may be read
  phase,        \* "starting", "keys", "serving" or "exited"
  watching,     \* WatchSignal has asked for SIGHUP
  channel,      \* its channel, of one signal, is full
  load,         \* where Reload is: "idle", "open" or "read"
  pending,      \* the files it has still to read, by their place in the list
  collected,    \* the block of each tenant it has read
  fileKeys,     \* the API keys of the loaded file
  keysToLoad,  \* the tenants whose API keys are still to be added
  accepted,     \* the key store: whose each API key is
  edits, hangups,
  (* History, read by no action of the program *)
  seen,         \* every content each file had during the load
  offered,      \* the API keys of the file the process started with
  announced     \* a SIGHUP was sent since the last edit

diskVars == << layout, disk, reachable, edits >>
signalVars == << channel, hangups, announced >>
loadVars == << load, pending, collected, seen >>
keyVars == << fileKeys, keysToLoad, accepted, offered >>
configVars == << diskVars, phase, watching, signalVars, loadVars, keyVars >>
reloadVars == << vars, configVars >>

Account == [tenant : Tenants, scope : Scopes]

\* The type invariant: a load's state, what it has read, and whose each API
\* key is (configfile.Store, auth.MemKeyStore).
ConfigTypeOK ==
  /\ TypeOK
  /\ layout \in Layouts
  /\ \A n \in Files : disk[n] \in Offered[n]
  /\ reachable \in BOOLEAN
  /\ phase \in {"starting", "keys", "serving", "exited"}
  /\ watching \in BOOLEAN /\ channel \in BOOLEAN /\ announced \in BOOLEAN
  /\ load \in {"idle", "open", "read"}
  /\ pending \subseteq DOMAIN Listing[layout]
  /\ collected \in [Tenants -> Block \cup {NoBlock}]
  /\ fileKeys \in [Tenants -> Seq(Entry)]
  /\ keysToLoad \subseteq Tenants
  /\ accepted \in [ApiKeys -> Account \cup {NoKey}]
  /\ edits \in 0 .. MaxEdits /\ hangups \in 0 .. MaxHangups

NothingRead == [t \in Tenants |-> NoBlock]

NoKeys == [t \in Tenants |-> << >>]

\* The process starts: configfile.New has begun its load.
ReloadInit ==
  /\ Init
  /\ layout \in Layouts
  /\ disk \in [Files -> UNION { Offered[n] : n \in Files }]
  /\ \A n \in Files : disk[n] \in Offered[n]
  /\ \A n \in Files : (\A i \in DOMAIN Listing[layout] : Listing[layout][i] # n)
                        => disk[n] = Missing
  /\ reachable \in BOOLEAN
  /\ phase = "starting"
  /\ watching = FALSE /\ channel = FALSE /\ announced = FALSE
  /\ load = "open" /\ pending = {} /\ collected = NothingRead
  /\ seen = [n \in Files |-> {disk[n]}]
  /\ fileKeys = NoKeys /\ keysToLoad = {} /\ offered = NoKeys
  /\ accepted = [k \in ApiKeys |-> NoKey]
  /\ edits = 0 /\ hangups = 0

-----------------------------------------------------------------------------
(* One load *)

Present(n) == disk[n] # Missing

\* The load is over: the process of a first load that failed exits.
Over(succeeded) ==
  /\ load' = "idle"
  /\ pending' = {}
  /\ collected' = NothingRead
  /\ seen' = [n \in Files |-> {}]
  /\ phase' = IF phase # "starting" THEN phase
              ELSE IF succeeded THEN "keys" ELSE "exited"

\* Reload looks at the path: it lists the directory, or finds the file.
OpenPath ==
  /\ load = "open" /\ phase # "exited"
  /\ reachable
  /\ layout = "directory" \/ Present(Listing[layout][1])
  /\ load' = "read"
  /\ pending' = { i \in DOMAIN Listing[layout] : Present(Listing[layout][i]) }
  /\ UNCHANGED << vars, diskVars, phase, watching, signalVars, collected, seen,
                  keyVars >>

\* os.Stat finds nothing, or os.ReadDir may not look.
PathMissing ==
  /\ load = "open" /\ phase # "exited"
  /\ ~ reachable \/ (layout = "file" /\ ~ Present(Listing[layout][1]))
  /\ Over(FALSE)
  /\ UNCHANGED << vars, diskVars, watching, signalVars, keyVars >>

\* A file that names a tenant again replaces what an earlier one said of it.
Merge(blocks, content) ==
  [t \in Tenants |-> IF t \in DOMAIN content THEN content[t] ELSE blocks[t]]

\* The next file of those still to be read.
Following == CHOOSE i \in pending : \A j \in pending : i <= j

Content == disk[Listing[layout][Following]]

\* Mutant: what a file says is in force as soon as it is read.
ReadFile_InPlace ==
  /\ load = "read" /\ pending # {} /\ phase # "exited"
  /\ reachable /\ Content \notin {Missing, Broken}
  /\ collected' = Merge(collected, Content)
  /\ Management
  /\ flags' = [t \in Tenants |-> IF t \in DOMAIN Content
                                 THEN Content[t].flags ELSE flags[t]]
  /\ pending' = pending \ {Following}
  /\ UNCHANGED << diskVars, phase, watching, signalVars, load, seen, keyVars >>

\* The next file is read and parsed.
ReadFile ==
  /\ load = "read" /\ pending # {} /\ phase # "exited"
  /\ reachable /\ Content \notin {Missing, Broken}
  /\ collected' = Merge(collected, Content)
  /\ pending' = pending \ {Following}
  /\ UNCHANGED << vars, diskVars, phase, watching, signalVars, load, seen,
                  keyVars >>

\* It was removed since it was listed, or cannot be read, or is not YAML: the
\* load fails.
ReadFileFails ==
  /\ load = "read" /\ pending # {} /\ phase # "exited"
  /\ ~ reachable \/ Content \in {Missing, Broken}
  /\ Over(FALSE)
  /\ UNCHANGED << vars, diskVars, watching, signalVars, keyVars >>

FlagsOf(block) ==
  IF block = NoBlock THEN [k \in Keys |-> NoFlag] ELSE block.flags

KeysOf(block) == IF block = NoBlock THEN << >> ELSE block.apiKeys

Complete(blocks) ==
  \A t \in Tenants : blocks[t] # NoBlock => blocks[t].complete

\* buildIndex finds a flag without a key.
IndexFails ==
  /\ load = "read" /\ pending = {} /\ phase # "exited"
  /\ ~ Complete(collected)
  /\ Over(FALSE)
  /\ UNCHANGED << vars, diskVars, watching, signalVars, keyVars >>

\* Everything was read: the definitions of all tenants change at once, which is
\* a step of Evaluation's Management, its Reload.
Swap ==
  /\ load = "read" /\ pending = {} /\ phase # "exited"
  /\ Complete(collected)
  /\ Management
  /\ flags' = [t \in Tenants |-> FlagsOf(collected[t])]
  /\ fileKeys' = [t \in Tenants |-> KeysOf(collected[t])]
  /\ offered' = IF phase = "starting" THEN fileKeys' ELSE offered
  /\ Over(TRUE)
  /\ UNCHANGED << diskVars, watching, signalVars, keysToLoad, accepted >>

-----------------------------------------------------------------------------
(* The API keys *)

\* Mutant: an entry's scope is not looked at.
Valid_AnyScope(entry) == entry.key # NoKey

Valid(entry) == entry.key # NoKey /\ entry.scope \in Scopes

AllValid(entries) == \A i \in DOMAIN entries : Valid(entries[i])

\* Mutant: a key that is there is not replaced.
Added_KeepFirst(entries, t) ==
  [k \in ApiKeys |->
     IF accepted[k] = NoKey /\ \E i \in DOMAIN entries : entries[i].key = k
     THEN [tenant |-> t, scope |-> entries[CHOOSE i \in DOMAIN entries :
                                              entries[i].key = k].scope]
     ELSE accepted[k]]

\* The key store after MemKeyStore.Add of each entry for tenant t: the last
\* entry of a key wins.
Added(entries, t) ==
  [k \in ApiKeys |->
     LET at == { i \in DOMAIN entries : entries[i].key = k } IN
     IF at = {} THEN accepted[k]
     ELSE [tenant |-> t,
           scope |-> entries[CHOOSE i \in at : \A j \in at : j <= i].scope]]

\* loadAPIKeys: the environment first.
LoadEnvironment ==
  /\ phase = "keys" /\ keysToLoad = {}
  /\ IF AllValid(Environment)
     THEN /\ accepted' = Added(Environment, DefaultTenant)
          /\ keysToLoad' = { t \in Tenants : fileKeys[t] # << >> }
          /\ phase' = IF keysToLoad' = {} THEN "serving" ELSE phase
     ELSE phase' = "exited" /\ UNCHANGED << accepted, keysToLoad >>
  /\ UNCHANGED << vars, diskVars, watching, signalVars, loadVars, fileKeys,
                  offered >>

\* Then the tenants of the file, in the order of a Go map: any.
LoadTenantKeys(t) ==
  /\ phase = "keys" /\ t \in keysToLoad
  /\ IF AllValid(fileKeys[t])
     THEN /\ accepted' = Added(fileKeys[t], t)
          /\ keysToLoad' = keysToLoad \ {t}
          /\ phase' = IF keysToLoad' = {} THEN "serving" ELSE phase
     ELSE phase' = "exited" /\ UNCHANGED << accepted, keysToLoad >>
  /\ UNCHANGED << vars, diskVars, watching, signalVars, loadVars, fileKeys,
                  offered >>

-----------------------------------------------------------------------------
(* The watcher and the operator *)

\* The goroutine of WatchSignal runs: from here SIGHUP is caught.
Watch ==
  /\ phase = "serving" /\ ~ watching
  /\ watching' = TRUE
  /\ UNCHANGED << vars, diskVars, phase, signalVars, loadVars, keyVars >>

\* Mutant: signals are not looked at while a reload runs.
Hangup_Deaf ==
  /\ hangups < MaxHangups /\ phase # "exited"
  /\ hangups' = hangups + 1
  /\ announced' = TRUE
  /\ channel' = (watching /\ (channel \/ load = "idle"))
  /\ phase' = IF watching THEN phase ELSE "exited"
  /\ UNCHANGED << vars, diskVars, watching, loadVars, keyVars >>

\* The operator sends SIGHUP: one is kept, more are dropped; before the
\* watcher runs the signal ends the process.
Hangup ==
  /\ hangups < MaxHangups /\ phase # "exited"
  /\ hangups' = hangups + 1
  /\ announced' = TRUE
  /\ channel' = watching
  /\ phase' = IF watching THEN phase ELSE "exited"
  /\ UNCHANGED << vars, diskVars, watching, loadVars, keyVars >>

\* The watcher takes the signal and reloads.
TakeSignal ==
  /\ phase = "serving" /\ channel /\ load = "idle"
  /\ channel' = FALSE
  /\ load' = "open"
  /\ seen' = [n \in Files |-> {disk[n]}]
  /\ UNCHANGED << vars, diskVars, phase, watching, hangups, announced, pending,
                  collected, keyVars >>

\* The operator writes, replaces or removes a file.
Edit(n, content) ==
  /\ edits < MaxEdits
  /\ \E i \in DOMAIN Listing[layout] : Listing[layout][i] = n
  /\ content # disk[n]
  /\ disk' = [disk EXCEPT ![n] = content]
  /\ edits' = edits + 1
  /\ seen' = IF load = "idle" THEN seen ELSE [seen EXCEPT ![n] = @ \cup {content}]
  /\ announced' = FALSE
  /\ UNCHANGED << vars, layout, reachable, phase, watching, channel, hangups,
                  load, pending, collected, keyVars >>

\* The operator moves the path away or back, or changes who may read it.
Remount ==
  /\ edits < MaxEdits
  /\ reachable' = ~ reachable
  /\ edits' = edits + 1
  /\ announced' = FALSE
  /\ UNCHANGED << vars, layout, disk, phase, watching, channel, hangups,
                  loadVars, keyVars >>

-----------------------------------------------------------------------------
(* The specification *)

Loading == OpenPath \/ PathMissing \/ ReadFile \/ ReadFileFails \/ IndexFails
           \/ Swap

LoadKeys == LoadEnvironment \/ \E t \in Tenants : LoadTenantKeys(t)

Operator ==
  \/ Hangup
  \/ Remount
  \/ \E n \in Files : \E content \in Offered[n] : Edit(n, content)

Serve(r) ==
  /\ phase = "serving"
  /\ Begin(r) \/ Step(r)
  /\ UNCHANGED configVars

ReloadNext ==
  \/ Loading
  \/ LoadKeys
  \/ Watch
  \/ TakeSignal
  \/ Operator
  \/ \E r \in Requests : Serve(r)

ReloadSpec == ReloadInit /\ [][ReloadNext]_reloadVars

\* The goroutine of the watcher runs on: reading a file ends, and a signal in
\* its channel is taken.
LiveReloadSpec == ReloadSpec /\ WF_reloadVars(Loading) /\ WF_reloadVars(TakeSignal)

-----------------------------------------------------------------------------
(* Properties *)

\* What the files of d say of tenant t: its block in the last one that has one.
Says(d, t) ==
  LET at == { i \in DOMAIN Listing[layout] :
                /\ d[Listing[layout][i]] \notin {Missing, Broken}
                /\ t \in DOMAIN d[Listing[layout][i]] }
  IN  IF at = {} THEN NoBlock
      ELSE d[Listing[layout][CHOOSE i \in at : \A j \in at : j <= i]][t]

\* A load of d would succeed.
Loadable(d) ==
  /\ \A n \in Files : d[n] # Broken
  /\ layout = "file" => d[Listing[layout][1]] # Missing
  /\ Complete([t \in Tenants |-> Says(d, t)])

\* A reload is all or nothing, and never stale: the definitions and the keys
\* in memory change only to what files with a content each of them had during
\* that very reload say together, and never when a file cannot be read or a
\* flag has no key (Store.Reload, loader.go:111-132).  Two files may be of two
\* deployments; two tenants of one file never are.
ReloadsWhole ==
  [][ << flags, fileKeys >>' # << flags, fileKeys >> =>
        \E d \in [Files -> UNION { seen[n] : n \in Files }] :
          /\ \A n \in Files : d[n] \in seen[n]
          /\ Loadable(d)
          /\ \A t \in Tenants : /\ flags'[t] = FlagsOf(Says(d, t))
                                /\ fileKeys'[t] = KeysOf(Says(d, t)) ]_reloadVars

\* The last change is loaded: once the files stay as they are, can be read
\* and loaded, and a SIGHUP followed the last change, their definitions are
\* those in memory, however many signals were dropped because a reload was
\* running (Store.WatchSignal, loader.go:136-153).
LastChangeLoaded ==
  <>[](/\ phase = "serving" /\ watching /\ announced
       /\ reachable /\ Loadable(disk))
    => <>[](\A t \in Tenants : flags[t] = FlagsOf(Says(disk, t)))

\* The scope of the last entry of k in entries.
LastScope(entries, k, scope) ==
  \E i \in DOMAIN entries :
    /\ entries[i] = [key |-> k, scope |-> scope]
    /\ \A j \in i + 1 .. Len(entries) : entries[j].key # k

ListsKey(t, k) == \E i \in DOMAIN offered[t] : offered[t][i].key = k

\* While the core serves, an API key is accepted for a tenant whose block
\* listed it when the process started, with the scope listed there last,
\* whatever was reloaded since; for the default tenant by the environment only
\* if no block listed it; and every key listed is accepted for one of those
\* that list it (loadAPIKeys, main.go:176-197).
KeysOfTheStart ==
  phase = "serving" =>
    \A k \in ApiKeys :
      LET lists == { t \in Tenants : ListsKey(t, k) } IN
      IF lists # {}
      THEN \E t \in lists, scope \in Scopes :
             /\ accepted[k] = [tenant |-> t, scope |-> scope]
             /\ LastScope(offered[t], k, scope)
      ELSE \/ \E scope \in Scopes :
                /\ LastScope(Environment, k, scope)
                /\ accepted[k] = [tenant |-> DefaultTenant, scope |-> scope]
           \/ /\ \A i \in DOMAIN Environment : Environment[i].key # k
              /\ accepted[k] = NoKey

=============================================================================

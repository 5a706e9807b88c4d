------------------------- MODULE ConfigReloadProofs -------------------------
(***************************************************************************)
(* Proofs about ConfigReload, for any layout, files, edits and signals.    *)
(***************************************************************************)
EXTENDS ConfigReload, EvaluationProofs, WellFoundedInduction

-----------------------------------------------------------------------------
(* The core under reloads is the engine of Evaluation *)

\* Each step is a step of Evaluation, or leaves its state alone.
LEMMA EngineStep == [ReloadNext]_reloadVars => [Next]_vars
<1> SUFFICES ASSUME [ReloadNext]_reloadVars
             PROVE  [Next]_vars
  OBVIOUS
<1>1. CASE UNCHANGED reloadVars
  BY <1>1 DEF reloadVars
<1>2. CASE OpenPath \/ PathMissing \/ ReadFile \/ ReadFileFails \/ IndexFails
  BY <1>2 DEF OpenPath, PathMissing, ReadFile, ReadFileFails, IndexFails
<1>3. CASE Swap
  BY <1>3 DEF Swap, Next
<1>4. CASE LoadKeys
  BY <1>4 DEF LoadKeys, LoadEnvironment, LoadTenantKeys
<1>5. CASE Watch \/ TakeSignal
  BY <1>5 DEF Watch, TakeSignal
<1>6. CASE Operator
  BY <1>6 DEF Operator, Hangup, Remount, Edit
<1>7. ASSUME NEW r \in Requests, Serve(r)
      PROVE  Next
  BY <1>7 DEF Serve, Next
<1> QED
  BY <1>1, <1>2, <1>3, <1>4, <1>5, <1>6, <1>7 DEF ReloadNext, Loading

\* Starts, loads, reloads, edits and signals are the engine's: what holds of
\* every behaviour of Evaluation holds of the core in config-file mode.
THEOREM ReloadImplements == ReloadSpec => Spec
<1>1. ReloadInit => Init
  BY DEF ReloadInit
<1> QED
  BY <1>1, EngineStep, PTL DEF ReloadSpec, Spec

\* An answer follows from a definition that was loaded while its request was
\* served, whatever is reloaded meanwhile.
THEOREM AnswersUnderReload == ReloadSpec => []AnswerReflectsWindow
BY ReloadImplements, AnswersAreCurrent, PTL

-----------------------------------------------------------------------------
(* A load reads one possible state of the files *)

\* The place of a file that a load has looked at.
Read(i) == i \in DOMAIN Listing[layout] /\ i \notin pending

\* The places of the files read that have a block of tenant t in d.
Places(d, t) ==
  { i \in DOMAIN Listing[layout] :
      /\ Read(i) /\ d[Listing[layout][i]] \notin {Missing, Broken}
      /\ t \in DOMAIN d[Listing[layout][i]] }

\* What a load has collected of t is what d says in the files read so far.
CollectedFrom(d, t) ==
  \/ Places(d, t) = {} /\ collected[t] = NoBlock
  \/ \E m \in Places(d, t) : /\ \A j \in Places(d, t) : j <= m
                             /\ collected[t] = d[Listing[layout][m]][t]

\* d is a state of the files that the load, as far as it is, has read: each
\* file had this content during the load, and those before the next one were
\* read or are missing.
Snapshot(d) ==
  /\ \A n \in Files : d[n] \in Offered[n] /\ d[n] \in seen[n]
  /\ \A n \in Files : (\A i \in DOMAIN Listing[layout] : Listing[layout][i] # n)
                        => d[n] = Missing
  /\ \A i \in DOMAIN Listing[layout] : Read(i) => d[Listing[layout][i]] # Broken
  /\ \A i \in DOMAIN Listing[layout], j \in pending :
       Read(i) /\ j < i => d[Listing[layout][i]] = Missing
  /\ layout = "file" => 1 \in pending \/ d[Listing[layout][1]] # Missing
  /\ \A t \in Tenants : CollectedFrom(d, t)

\* The files, and what is remembered of them during a load.
FilesInv ==
  /\ layout \in Layouts
  /\ disk = [n \in Files |-> disk[n]] /\ seen = [n \in Files |-> seen[n]]
  /\ \A n \in Files : disk[n] \in Offered[n]
  /\ \A n \in Files : (\A i \in DOMAIN Listing[layout] : Listing[layout][i] # n)
                        => disk[n] = Missing
  /\ load # "idle" => \A n \in Files : disk[n] \in seen[n]
  /\ pending \subseteq DOMAIN Listing[layout]
  /\ load \in {"idle", "open", "read"}
  /\ load # "read" => collected = NothingRead

LoadInv ==
  load = "read" => \E d \in [Files -> UNION { Offered[n] : n \in Files }] : Snapshot(d)

-----------------------------------------------------------------------------
(* Places *)

\* A list of files is a function on an interval.
LEMMA ListingType ==
  ASSUME layout \in Layouts
  PROVE  /\ Len(Listing[layout]) \in Nat
         /\ DOMAIN Listing[layout] = 1 .. Len(Listing[layout])
         /\ \A i \in DOMAIN Listing[layout] : Listing[layout][i] \in Files
         /\ \A i, j \in DOMAIN Listing[layout] :
              Listing[layout][i] = Listing[layout][j] => i = j
         /\ layout = "file" => Len(Listing[layout]) = 1
<1>1. Listing[layout] \in Seq(Files)
  BY LayoutAssumption
<1> QED
  BY <1>1, LayoutAssumption

\* A set of naturals that is not empty has a least element.
LEMMA LeastNatural ==
  ASSUME NEW S \in SUBSET Nat, S # {}
  PROVE  \E x \in S : \A y \in S : x <= y
<1>1. PICK x \in S : \A y \in S : << y, x >> \notin OpToRel(<, Nat)
  BY WFMin, NatLessThanWellFounded
<1>2. ASSUME NEW y \in S
      PROVE  x <= y
  <2>1. << y, x >> \notin OpToRel(<, Nat) /\ << y, x >> \in Nat \X Nat
    BY <1>1
  <2>2. ~ (y < x)
    BY <2>1 DEF OpToRel
  <2> QED
    BY <2>2
<1> QED
  BY <1>2

\* The next file is the first of those still to be read.
LEMMA FollowingIsFirst ==
  ASSUME layout \in Layouts, pending \subseteq DOMAIN Listing[layout],
         pending # {}
  PROVE  Following \in pending /\ \A j \in pending : Following <= j
<1>1. pending \in SUBSET Nat
  BY ListingType
<1>2. \E i \in pending : \A j \in pending : i <= j
  BY <1>1, LeastNatural
<1> QED
  BY <1>2 DEF Following

-----------------------------------------------------------------------------
(* The files and the load, step by step *)

LEMMA FilesInit == ReloadInit => FilesInv /\ LoadInv
<1> SUFFICES ASSUME ReloadInit
             PROVE  FilesInv /\ LoadInv
  OBVIOUS
<1>1. disk = [n \in Files |-> disk[n]] /\ seen = [n \in Files |-> {disk[n]}]
  BY DEF ReloadInit
<1>2. \A n \in Files : disk[n] \in seen[n]
  BY <1>1
<1> QED
  BY <1>1, <1>2 DEF ReloadInit, FilesInv, LoadInv

\* The ends of a load.
LEMMA OverFiles ==
  ASSUME FilesInv, NEW succeeded \in BOOLEAN, Over(succeeded),
         UNCHANGED << layout, disk >>
  PROVE  FilesInv' /\ load' = "idle"
BY DEF FilesInv, Over

\* Steps that leave the files, the load and what is remembered alone.
LEMMA FilesStay ==
  ASSUME FilesInv, LoadInv,
         UNCHANGED << layout, disk, pending, collected, seen >>,
         load' = load
  PROVE  FilesInv' /\ LoadInv'
<1>1. FilesInv'
  BY DEF FilesInv
<1>2. LoadInv'
  BY DEF LoadInv, Snapshot, CollectedFrom, Places, Read
<1> QED
  BY <1>1, <1>2

\* What the operator writes is one more content the file had.
LEMMA EditFiles ==
  ASSUME FilesInv, LoadInv,
         NEW n \in Files, NEW content \in Offered[n], Edit(n, content)
  PROVE  FilesInv' /\ LoadInv'
<1>1. /\ layout' = layout /\ load' = load /\ pending' = pending
      /\ collected' = collected /\ disk' = [disk EXCEPT ![n] = content]
      /\ seen' = IF load = "idle" THEN seen
                 ELSE [seen EXCEPT ![n] = @ \cup {content}]
      /\ \E i \in DOMAIN Listing[layout] : Listing[layout][i] = n
  BY DEF Edit
<1>2. \A m \in Files : seen[m] \subseteq seen'[m]
  BY <1>1 DEF FilesInv
<1>3. FilesInv'
  <2>1. disk' = [m \in Files |-> disk'[m]] /\ seen' = [m \in Files |-> seen'[m]]
    BY <1>1 DEF FilesInv
  <2>2. \A m \in Files : disk'[m] = IF m = n THEN content ELSE disk[m]
    BY <1>1 DEF FilesInv
  <2>3. \A m \in Files : disk'[m] \in Offered[m]
    BY <2>2 DEF FilesInv
  <2>4. load # "idle" => \A m \in Files : disk'[m] \in seen'[m]
    BY <1>1, <1>2, <2>2 DEF FilesInv
  <2>5. \A m \in Files :
          (\A i \in DOMAIN Listing[layout] : Listing[layout][i] # m)
            => disk'[m] = Missing
    BY <1>1, <2>2 DEF FilesInv
  <2> QED
    BY <1>1, <2>1, <2>3, <2>4, <2>5 DEF FilesInv
<1>4. ASSUME NEW d, Snapshot(d)
      PROVE  Snapshot(d)'
  BY <1>1, <1>2, <1>4 DEF Snapshot, CollectedFrom, Places, Read
<1>5. LoadInv'
  BY <1>1, <1>4 DEF LoadInv
<1> QED
  BY <1>3, <1>5

\* A load that has read no file has read the files as they are.
LEMMA OpenFiles ==
  ASSUME FilesInv, OpenPath
  PROVE  FilesInv' /\ LoadInv'
<1>1. /\ layout \in Layouts /\ layout' = layout /\ disk' = disk /\ seen' = seen
      /\ load = "open" /\ load' = "read" /\ collected' = collected
      /\ pending' = { i \in DOMAIN Listing[layout] :
                        disk[Listing[layout][i]] # Missing }
  BY DEF OpenPath, diskVars, FilesInv, Present
<1>2. \A n \in Files : disk[n] \in Offered[n] /\ disk[n] \in seen[n]
  BY <1>1 DEF FilesInv
<1>3. \A i \in DOMAIN Listing[layout] :
        i \notin pending' => disk[Listing[layout][i]] = Missing
  BY <1>1
<1>4. layout = "file" => 1 \in pending'
  <2>1. layout = "file" => disk[Listing[layout][1]] # Missing
    BY DEF OpenPath, Present
  <2>2. layout = "file" => 1 \in DOMAIN Listing[layout]
    BY <1>1, ListingType
  <2> QED
    BY <1>1, <2>1, <2>2
<1>5. \A t \in Tenants : CollectedFrom(disk, t)'
  <2> SUFFICES ASSUME NEW t \in Tenants
               PROVE  CollectedFrom(disk, t)'
    OBVIOUS
  <2>1. Places(disk, t)' = {}
    BY <1>1, <1>3 DEF Places, Read
  <2>2. collected'[t] = NoBlock
    BY <1>1 DEF FilesInv, NothingRead
  <2> QED
    BY <2>1, <2>2 DEF CollectedFrom
<1>6. Snapshot(disk)'
  BY <1>1, <1>2, <1>3, <1>4, <1>5, FileAssumption DEF Snapshot, Read, FilesInv
<1>7. disk \in [Files -> UNION { Offered[n] : n \in Files }]
  BY <1>2 DEF FilesInv
<1>8. LoadInv'
  BY <1>1, <1>6, <1>7 DEF LoadInv
<1>9. FilesInv'
  BY <1>1, <1>2 DEF FilesInv
<1> QED
  BY <1>8, <1>9

\* The state a load has read, with the file it reads next as that file is.
LEMMA ReadFiles ==
  ASSUME FilesInv, LoadInv, ReadFile
  PROVE  FilesInv' /\ LoadInv'
<1>1. /\ layout \in Layouts /\ layout' = layout /\ disk' = disk /\ seen' = seen
      /\ load = "read" /\ load' = "read" /\ pending # {}
      /\ pending \subseteq DOMAIN Listing[layout]
      /\ pending' = pending \ {Following}
      /\ collected' = Merge(collected, Content)
      /\ Content \notin {Missing, Broken}
  BY DEF ReadFile, diskVars, FilesInv
<1>2. PICK d \in [Files -> UNION { Offered[n] : n \in Files }] : Snapshot(d)
  BY <1>1 DEF LoadInv
<1>3. PICK p : p = Following
  OBVIOUS
<1>4. p \in pending /\ \A j \in pending : p <= j
  BY <1>1, <1>3, FollowingIsFirst
<1>5. PICK n : n = Listing[layout][p]
  OBVIOUS
<1>6. p \in DOMAIN Listing[layout] /\ n \in Files
  BY <1>1, <1>4, <1>5, ListingType
<1>7. Content = disk[n]
  BY <1>3, <1>5 DEF Content
<1>8. PICK e : e = [d EXCEPT ![n] = disk[n]]
  OBVIOUS
<1>9. /\ e \in [Files -> UNION { Offered[m] : m \in Files }]
      /\ \A m \in Files : e[m] = IF m = n THEN disk[n] ELSE d[m]
  BY <1>6, <1>8 DEF FilesInv
<1>10. \A i \in DOMAIN Listing[layout] :
         /\ Listing[layout][i] \in Files
         /\ e[Listing[layout][i]] = IF i = p THEN Content
                                    ELSE d[Listing[layout][i]]
  BY <1>1, <1>5, <1>6, <1>7, <1>9, ListingType
<1>11. DOMAIN Listing[layout] \subseteq Nat
  BY <1>1, ListingType
<1>12. \A i : Read(i)' <=> Read(i) \/ i = p
  BY <1>1, <1>3, <1>6 DEF Read
<1>13. \A i : Read(i) => i \in DOMAIN Listing[layout] /\ i # p
  BY <1>4 DEF Read
<1>14. \A i \in DOMAIN Listing[layout] :
         Read(i) /\ p < i => d[Listing[layout][i]] = Missing
  BY <1>2, <1>4 DEF Snapshot
<1>15. ASSUME NEW t \in Tenants
       PROVE  CollectedFrom(e, t)'
  <2>1. CollectedFrom(d, t)
    BY <1>2, <1>15 DEF Snapshot
  <2>2. collected'[t] = IF t \in DOMAIN Content THEN Content[t]
                        ELSE collected[t]
    BY <1>1 DEF Merge
  <2>3. Places(e, t)' = Places(d, t) \cup
                          (IF t \in DOMAIN Content THEN {p} ELSE {})
    <3>1. \A i : i \in Places(e, t)' <=>
                   /\ i \in DOMAIN Listing[layout] /\ (Read(i) \/ i = p)
                   /\ e[Listing[layout][i]] \notin {Missing, Broken}
                   /\ t \in DOMAIN e[Listing[layout][i]]
      BY <1>1, <1>12 DEF Places
    <3>2. \A i : i \in Places(d, t) <=>
                   /\ i \in DOMAIN Listing[layout] /\ Read(i)
                   /\ d[Listing[layout][i]] \notin {Missing, Broken}
                   /\ t \in DOMAIN d[Listing[layout][i]]
      BY DEF Places
    <3>3. \A i : i \in Places(e, t)' <=>
                   i \in Places(d, t) \/ (i = p /\ t \in DOMAIN Content)
      BY <3>1, <3>2, <1>1, <1>6, <1>10, <1>13
    <3> QED
      BY <3>3
  <2>4. \A i \in Places(d, t) : i \in Nat /\ i # p /\ i <= p
    <3> SUFFICES ASSUME NEW i \in Places(d, t)
                 PROVE  i \in Nat /\ i # p /\ i <= p
      OBVIOUS
    <3>1. /\ i \in DOMAIN Listing[layout] /\ Read(i)
          /\ d[Listing[layout][i]] # Missing
      BY DEF Places
    <3> QED
      BY <3>1, <1>6, <1>11, <1>13, <1>14
  <2>5. CASE t \in DOMAIN Content
    <3>1. p \in Places(e, t)' /\ \A j \in Places(e, t)' : j <= p
      BY <2>3, <2>4, <2>5, <1>6, <1>11
    <3>2. collected'[t] = e[Listing[layout][p]][t]
      BY <2>2, <2>5, <1>6, <1>10
    <3> QED
      BY <3>1, <3>2, <1>1 DEF CollectedFrom
  <2>6. CASE t \notin DOMAIN Content
    <3>1. Places(e, t)' = Places(d, t) /\ collected'[t] = collected[t]
      BY <2>2, <2>3, <2>6
    <3>2. CASE Places(d, t) = {} /\ collected[t] = NoBlock
      BY <3>1, <3>2 DEF CollectedFrom
    <3>3. ASSUME NEW q \in Places(d, t), \A j \in Places(d, t) : j <= q,
                 collected[t] = d[Listing[layout][q]][t]
          PROVE  CollectedFrom(e, t)'
      <4>1. e[Listing[layout][q]] = d[Listing[layout][q]]
        BY <1>10, <2>4 DEF Places
      <4> QED
        BY <3>1, <3>3, <4>1, <1>1 DEF CollectedFrom
    <3> QED
      BY <2>1, <3>2, <3>3 DEF CollectedFrom
  <2> QED
    BY <2>5, <2>6
<1>16. \A m \in Files : e[m] \in Offered[m] /\ e[m] \in seen'[m]
  BY <1>1, <1>2, <1>6, <1>9 DEF FilesInv, Snapshot
<1>17. \A m \in Files : (\A i \in DOMAIN Listing[layout] : Listing[layout][i] # m)
                          => e[m] = Missing
  BY <1>2, <1>5, <1>6, <1>9 DEF Snapshot
<1>18. \A i \in DOMAIN Listing[layout] :
         Read(i)' => e[Listing[layout][i]] # Broken
  BY <1>1, <1>2, <1>10, <1>12 DEF Snapshot
<1>19. \A i \in DOMAIN Listing[layout], j \in pending' :
         Read(i)' /\ j < i => e[Listing[layout][i]] = Missing
  <2> SUFFICES ASSUME NEW i \in DOMAIN Listing[layout], NEW j \in pending',
                      Read(i)', j < i
               PROVE  e[Listing[layout][i]] = Missing
    OBVIOUS
  <2>1. j \in pending /\ j # p /\ p <= j
    BY <1>1, <1>3, <1>4
  <2>2. i # p
    BY <2>1, <1>1, <1>6, <1>11
  <2>3. Read(i)
    BY <2>2, <1>12
  <2>4. d[Listing[layout][i]] = Missing
    BY <1>2, <2>1, <2>3 DEF Snapshot
  <2> QED
    BY <2>2, <2>4, <1>10
<1>20. layout = "file" => 1 \in pending' \/ e[Listing[layout][1]] # Missing
  <2> SUFFICES ASSUME layout = "file"
               PROVE  1 \in pending' \/ e[Listing[layout][1]] # Missing
    OBVIOUS
  <2>1. p = 1
    BY <1>1, <1>6, ListingType
  <2> QED
    BY <2>1, <1>1, <1>6, <1>10
<1>21. Snapshot(e)'
  BY <1>1, <1>15, <1>16, <1>17, <1>18, <1>19, <1>20 DEF Snapshot
<1>22. LoadInv'
  BY <1>9, <1>21 DEF LoadInv
<1>23. FilesInv'
  BY <1>1 DEF FilesInv
<1> QED
  BY <1>22, <1>23

LEMMA FilesStep == FilesInv /\ LoadInv /\ [ReloadNext]_reloadVars
                     => FilesInv' /\ LoadInv'
<1> SUFFICES ASSUME FilesInv, LoadInv, [ReloadNext]_reloadVars
             PROVE  FilesInv' /\ LoadInv'
  OBVIOUS
<1>1. CASE UNCHANGED reloadVars
  BY <1>1, FilesStay DEF reloadVars, configVars, diskVars, loadVars
<1>2. CASE OpenPath
  BY <1>2, OpenFiles
<1>3. CASE PathMissing \/ ReadFileFails \/ IndexFails \/ Swap
  <2>1. UNCHANGED << layout, disk >>
    BY <1>3 DEF PathMissing, ReadFileFails, IndexFails, Swap, diskVars
  <2>2. Over(TRUE) \/ Over(FALSE)
    BY <1>3 DEF PathMissing, ReadFileFails, IndexFails, Swap
  <2>3. FilesInv' /\ load' = "idle"
    BY <2>1, <2>2, OverFiles
  <2> QED
    BY <2>3 DEF LoadInv
<1>4. CASE ReadFile
  BY <1>4, ReadFiles
<1>5. CASE LoadKeys
  BY <1>5, FilesStay DEF LoadKeys, LoadEnvironment, LoadTenantKeys, diskVars,
     loadVars
<1>6. CASE Watch
  BY <1>6, FilesStay DEF Watch, diskVars, loadVars
<1>7. CASE TakeSignal
  <2>1. FilesInv'
    BY <1>7 DEF TakeSignal, diskVars, FilesInv
  <2>2. LoadInv'
    BY <1>7 DEF TakeSignal, LoadInv
  <2> QED
    BY <2>1, <2>2
<1>8. CASE Operator
  <2>1. CASE Hangup
    BY <2>1, FilesStay DEF Hangup, diskVars, loadVars
  <2>2. CASE Remount
    BY <2>2, FilesStay DEF Remount, loadVars
  <2>3. ASSUME NEW n \in Files, NEW content \in Offered[n], Edit(n, content)
        PROVE  FilesInv' /\ LoadInv'
    BY <2>3, EditFiles
  <2> QED
    BY <1>8, <2>1, <2>2, <2>3 DEF Operator
<1>9. ASSUME NEW r \in Requests, Serve(r)
      PROVE  FilesInv' /\ LoadInv'
  BY <1>9, FilesStay DEF Serve, configVars, diskVars, loadVars
<1> QED
  BY <1>1, <1>2, <1>3, <1>4, <1>5, <1>6, <1>7, <1>8, <1>9 DEF ReloadNext, Loading

LEMMA FilesInvariant == ReloadSpec => [](FilesInv /\ LoadInv)
BY FilesInit, FilesStep, PTL DEF ReloadSpec

-----------------------------------------------------------------------------
(* What is loaded *)

\* The engine's requests change no definition.
LEMMA ServeKeeps ==
  ASSUME NEW r \in Requests, Serve(r)
  PROVE  flags' = flags /\ fileKeys' = fileKeys
BY DEF Serve, configVars, keyVars, Begin, Step, ReadFlagFails, EvaluateFlag,
   ReadPersistentFlag, AssignmentHit, AssignmentMiss, AssignmentReadFails,
   SaveCommits, SaveFails, SaveTimesOut, Compute, persistenceVars

\* Only the end of a load changes the definitions or the keys in memory.
LEMMA OnlySwap ==
  ASSUME [ReloadNext]_reloadVars,
         << flags, fileKeys >>' # << flags, fileKeys >>
  PROVE  Swap
<1> SUFFICES ASSUME ~ Swap
             PROVE  flags' = flags /\ fileKeys' = fileKeys
  OBVIOUS
<1>1. CASE UNCHANGED reloadVars
  BY <1>1 DEF reloadVars, configVars, vars, persistenceVars, keyVars
<1>2. CASE OpenPath \/ PathMissing \/ ReadFile \/ ReadFileFails \/ IndexFails
  BY <1>2 DEF OpenPath, PathMissing, ReadFile, ReadFileFails, IndexFails, vars,
     persistenceVars, keyVars
<1>3. CASE LoadKeys
  BY <1>3 DEF LoadKeys, LoadEnvironment, LoadTenantKeys, vars, persistenceVars
<1>4. CASE Watch \/ TakeSignal
  BY <1>4 DEF Watch, TakeSignal, vars, persistenceVars, keyVars
<1>5. CASE Operator
  BY <1>5 DEF Operator, Hangup, Remount, Edit, vars, persistenceVars, keyVars
<1>6. CASE \E r \in Requests : Serve(r)
  BY <1>6, ServeKeeps
<1> QED
  BY <1>1, <1>2, <1>3, <1>4, <1>5, <1>6 DEF ReloadNext, Loading

\* A load that has read everything has collected what the files say together.
LEMMA AllCollected ==
  ASSUME FilesInv, pending = {}, NEW d, Snapshot(d), NEW t \in Tenants
  PROVE  collected[t] = Says(d, t)
<1>1. \A i \in DOMAIN Listing[layout] : Read(i)
  BY DEF Read
<1>2. PICK at : at = Places(d, t)
  OBVIOUS
<1>3. at = { i \in DOMAIN Listing[layout] :
               /\ d[Listing[layout][i]] \notin {Missing, Broken}
               /\ t \in DOMAIN d[Listing[layout][i]] }
  BY <1>1, <1>2 DEF Places
<1>4. Says(d, t) = IF at = {} THEN NoBlock
                   ELSE d[Listing[layout][CHOOSE i \in at : \A j \in at : j <= i]][t]
  BY <1>3 DEF Says
<1>5. CollectedFrom(d, t)
  BY DEF Snapshot
<1>6. CASE at = {}
  BY <1>2, <1>4, <1>5, <1>6 DEF CollectedFrom
<1>7. CASE at # {}
  <2>1. PICK p \in at : /\ \A j \in at : j <= p
                        /\ collected[t] = d[Listing[layout][p]][t]
    BY <1>2, <1>5, <1>7 DEF CollectedFrom
  <2>2. at \subseteq Nat
    BY <1>3, ListingType DEF FilesInv
  <2>3. PICK q : q = CHOOSE i \in at : \A j \in at : j <= i
    OBVIOUS
  <2>4. q \in at /\ \A j \in at : j <= q
    BY <2>1, <2>3
  <2>5. p = q
    BY <2>1, <2>2, <2>4
  <2> QED
    BY <1>4, <1>7, <2>1, <2>3, <2>5
<1> QED
  BY <1>6, <1>7

LEMMA SwapIsWhole ==
  ASSUME FilesInv, LoadInv, Swap
  PROVE  \E d \in [Files -> UNION { seen[n] : n \in Files }] :
           /\ \A n \in Files : d[n] \in seen[n]
           /\ Loadable(d)
           /\ \A t \in Tenants : /\ flags'[t] = FlagsOf(Says(d, t))
                                 /\ fileKeys'[t] = KeysOf(Says(d, t))
<1>1. /\ load = "read" /\ pending = {} /\ Complete(collected)
      /\ flags' = [t \in Tenants |-> FlagsOf(collected[t])]
      /\ fileKeys' = [t \in Tenants |-> KeysOf(collected[t])]
  BY DEF Swap
<1>2. PICK d \in [Files -> UNION { Offered[n] : n \in Files }] : Snapshot(d)
  BY <1>1 DEF LoadInv
<1>3. \A t \in Tenants : collected[t] = Says(d, t)
  BY <1>1, <1>2, AllCollected
<1>4. \A n \in Files : d[n] \in seen[n]
  BY <1>2 DEF Snapshot
<1>5. d \in [Files -> UNION { seen[n] : n \in Files }]
  BY <1>2, <1>4
<1>6. \A n \in Files : d[n] # Broken
  <2>1. \A i \in DOMAIN Listing[layout] : d[Listing[layout][i]] # Broken
    BY <1>1, <1>2 DEF Snapshot, Read
  <2> QED
    BY <2>1, <1>2, FileAssumption DEF Snapshot
<1>7. layout = "file" => d[Listing[layout][1]] # Missing
  BY <1>1, <1>2 DEF Snapshot
<1>8. Complete([t \in Tenants |-> Says(d, t)])
  BY <1>1, <1>3 DEF Complete
<1>9. Loadable(d)
  BY <1>6, <1>7, <1>8 DEF Loadable
<1>10. \A t \in Tenants : /\ flags'[t] = FlagsOf(Says(d, t))
                          /\ fileKeys'[t] = KeysOf(Says(d, t))
  BY <1>1, <1>3
<1> QED
  BY <1>4, <1>5, <1>9, <1>10

\* A reload is all or nothing, and never stale: what is in memory changes only
\* to what contents the files had during that very reload say together.
THEOREM ReloadsAreWhole == ReloadSpec => ReloadsWhole
<1>1. FilesInv /\ LoadInv /\ [ReloadNext]_reloadVars
        => [ << flags, fileKeys >>' # << flags, fileKeys >> =>
               \E d \in [Files -> UNION { seen[n] : n \in Files }] :
                 /\ \A n \in Files : d[n] \in seen[n]
                 /\ Loadable(d)
                 /\ \A t \in Tenants :
                      /\ flags'[t] = FlagsOf(Says(d, t))
                      /\ fileKeys'[t] = KeysOf(Says(d, t)) ]_reloadVars
  BY OnlySwap, SwapIsWhole
<1> QED
  BY <1>1, FilesInvariant, PTL DEF ReloadSpec, ReloadsWhole

-----------------------------------------------------------------------------
(* The API keys of the start *)

\* The tenants whose listing of k has been added.
TenantsAdded(k) == { t \in Tenants : ListsKey(t, k) /\ t \notin keysToLoad }

\* What the key store says of k once the environment has been added.
KeySettled(k) ==
  IF TenantsAdded(k) # {}
  THEN \E t \in TenantsAdded(k), scope \in Scopes :
         /\ accepted[k] = [tenant |-> t, scope |-> scope]
         /\ LastScope(offered[t], k, scope)
  ELSE \/ \E scope \in Scopes :
            /\ LastScope(Environment, k, scope)
            /\ accepted[k] = [tenant |-> DefaultTenant, scope |-> scope]
       \/ /\ \A i \in DOMAIN Environment : Environment[i].key # k
          /\ accepted[k] = NoKey

\* What is read and kept of the files is blocks and lists of entries.
EntriesInv ==
  /\ collected \in [Tenants -> Block \cup {NoBlock}]
  /\ fileKeys \in [Tenants -> Seq(Entry)]
  /\ offered \in [Tenants -> Seq(Entry)]

\* No load and no signal falls between the first load and the first request.
KeysInv ==
  /\ phase \in {"starting", "keys", "serving", "exited"}
  /\ phase # "serving" => ~ watching /\ ~ channel
  /\ phase = "keys" => load = "idle" /\ fileKeys = offered
  /\ phase = "starting" => keysToLoad = {}
  /\ phase = "serving" => keysToLoad = {}
  /\ phase = "starting" \/ (phase = "keys" /\ keysToLoad = {})
       => accepted = [k \in ApiKeys |-> NoKey]
  /\ phase = "serving" \/ (phase = "keys" /\ keysToLoad # {})
       => \A k \in ApiKeys : KeySettled(k)

\* A set of naturals that is bounded and not empty has a greatest element.
LEMMA GreatestNatural ==
  ASSUME NEW n \in Nat, NEW S \in SUBSET (1 .. n), S # {}
  PROVE  \E x \in S : \A y \in S : y <= x
<1>1. PICK T : T = { n - x : x \in S }
  OBVIOUS
<1>2. T \in SUBSET Nat /\ T # {}
  <2>1. \A x \in S : n - x \in Nat
    OBVIOUS
  <2> QED
    BY <1>1, <2>1
<1>3. PICK z \in T : \A y \in T : z <= y
  BY <1>2, LeastNatural
<1>4. PICK x \in S : z = n - x
  BY <1>1, <1>3
<1>5. ASSUME NEW y \in S
      PROVE  y <= x
  <2>1. n - x <= n - y
    BY <1>1, <1>3, <1>4
  <2> QED
    BY <2>1
<1> QED
  BY <1>5

\* After entries were added for t, k has its last entry among them, or what
\* it had if it is not among them.
LastWins(entries, t, k) ==
  IF \E i \in DOMAIN entries : entries[i].key = k
  THEN \E scope \in Scopes :
         /\ LastScope(entries, k, scope)
         /\ Added(entries, t)[k] = [tenant |-> t, scope |-> scope]
  ELSE Added(entries, t)[k] = accepted[k]

\* Of entries that are valid the last one wins.
LEMMA AddedEntries ==
  ASSUME NEW entries \in Seq(Entry), AllValid(entries), NEW t, NEW k \in ApiKeys
  PROVE  LastWins(entries, t, k)
<1>1. PICK at : at = { i \in DOMAIN entries : entries[i].key = k }
  OBVIOUS
<1>2. Added(entries, t)[k] =
        IF at = {} THEN accepted[k]
        ELSE [tenant |-> t,
              scope |-> entries[CHOOSE i \in at : \A j \in at : j <= i].scope]
  BY <1>1 DEF Added
<1>3. CASE at = {}
  BY <1>1, <1>2, <1>3 DEF LastWins
<1>4. CASE at # {}
  <2>1. PICK m : m = CHOOSE i \in at : \A j \in at : j <= i
    OBVIOUS
  <2>2. at \in SUBSET (1 .. Len(entries)) /\ Len(entries) \in Nat
    BY <1>1
  <2>3. \E i \in at : \A j \in at : j <= i
    BY <1>4, <2>2, GreatestNatural
  <2>4. m \in at /\ \A j \in at : j <= m
    BY <2>1, <2>3
  <2>5. m \in DOMAIN entries /\ entries[m].key = k /\ entries[m] \in Entry
    BY <1>1, <2>4
  <2>6. entries[m].scope \in Scopes
    BY <2>5 DEF AllValid, Valid
  <2>7. entries[m] = [key |-> k, scope |-> entries[m].scope]
    BY <2>5 DEF Entry
  <2>8. \A j \in m + 1 .. Len(entries) : entries[j].key # k
    <3> SUFFICES ASSUME NEW j \in m + 1 .. Len(entries), entries[j].key = k
                 PROVE  FALSE
      OBVIOUS
    <3>1. j \in DOMAIN entries
      BY <2>2, <2>4
    <3>2. j <= m
      BY <1>1, <2>4, <3>1
    <3> QED
      BY <2>2, <2>4, <3>2
  <2>9. LastScope(entries, k, entries[m].scope)
    BY <2>5, <2>7, <2>8 DEF LastScope
  <2> QED
    BY <1>1, <1>2, <1>4, <2>1, <2>6, <2>9 DEF LastWins
<1> QED
  BY <1>3, <1>4

LEMMA EntriesInit == ReloadInit => EntriesInv
BY DEF ReloadInit, EntriesInv, NothingRead, NoKeys

LEMMA EntriesStep == FilesInv /\ EntriesInv /\ [ReloadNext]_reloadVars
                       => EntriesInv'
<1> SUFFICES ASSUME FilesInv, EntriesInv, [ReloadNext]_reloadVars
             PROVE  EntriesInv'
  OBVIOUS
<1>1. NothingRead \in [Tenants -> Block \cup {NoBlock}]
  BY DEF NothingRead
<1>2. CASE UNCHANGED << collected, fileKeys, offered >>
  BY <1>2 DEF EntriesInv
<1>3. CASE UNCHANGED reloadVars
  BY <1>2, <1>3 DEF reloadVars, configVars, loadVars, keyVars
<1>4. CASE OpenPath
  BY <1>2, <1>4 DEF OpenPath, keyVars
<1>5. CASE PathMissing \/ ReadFileFails \/ IndexFails
  <2>1. collected' = NothingRead /\ UNCHANGED << fileKeys, offered >>
    BY <1>5 DEF PathMissing, ReadFileFails, IndexFails, Over, keyVars
  <2> QED
    BY <1>1, <2>1 DEF EntriesInv
<1>6. CASE Swap
  <2>1. \A t \in Tenants : KeysOf(collected[t]) \in Seq(Entry)
    <3> SUFFICES ASSUME NEW t \in Tenants, collected[t] # NoBlock
                 PROVE  collected[t].apiKeys \in Seq(Entry)
      BY DEF KeysOf
    <3>1. collected[t] \in Block
      BY DEF EntriesInv
    <3> QED
      BY <3>1 DEF Block
  <2>2. /\ collected' = NothingRead
        /\ fileKeys' = [t \in Tenants |-> KeysOf(collected[t])]
        /\ offered' = fileKeys' \/ offered' = offered
    BY <1>6 DEF Swap, Over
  <2>3. fileKeys' \in [Tenants -> Seq(Entry)]
    BY <2>1, <2>2
  <2> QED
    BY <1>1, <2>2, <2>3 DEF EntriesInv
<1>7. CASE ReadFile
  <2>1. /\ collected' = Merge(collected, Content)
        /\ UNCHANGED << fileKeys, offered >>
        /\ Content \notin {Missing, Broken}
        /\ pending # {}
    BY <1>7 DEF ReadFile, keyVars
  <2>2. Following \in DOMAIN Listing[layout]
    BY <2>1, FollowingIsFirst DEF FilesInv
  <2>3. Listing[layout][Following] \in Files
    BY <2>2, ListingType DEF FilesInv
  <2>4. Content \in Offered[Listing[layout][Following]]
    BY <2>3 DEF Content, FilesInv
  <2>5. Parsed(Content)
    BY <2>1, <2>3, <2>4, FileAssumption
  <2>6. \A t \in Tenants : t \in DOMAIN Content => Content[t] \in Block
    BY <2>5 DEF Parsed
  <2>7. collected' \in [Tenants -> Block \cup {NoBlock}]
    BY <2>1, <2>6 DEF Merge, EntriesInv
  <2> QED
    BY <2>1, <2>7 DEF EntriesInv
<1>8. CASE LoadKeys
  BY <1>2, <1>8 DEF LoadKeys, LoadEnvironment, LoadTenantKeys, loadVars
<1>9. CASE Watch \/ TakeSignal
  BY <1>2, <1>9 DEF Watch, TakeSignal, loadVars, keyVars
<1>10. CASE Operator
  BY <1>2, <1>10 DEF Operator, Hangup, Remount, Edit, loadVars, keyVars
<1>11. CASE \E r \in Requests : Serve(r)
  BY <1>2, <1>11 DEF Serve, configVars, loadVars, keyVars
<1> QED
  BY <1>3, <1>4, <1>5, <1>6, <1>7, <1>8, <1>9, <1>10, <1>11 DEF ReloadNext, Loading

LEMMA EntriesInvariant == ReloadSpec => []EntriesInv
BY EntriesInit, EntriesStep, FilesInvariant, PTL DEF ReloadSpec

LEMMA KeysInit == ReloadInit => KeysInv
BY DEF ReloadInit, KeysInv

\* The environment is the first to be added.
LEMMA EnvironmentSettles ==
  ASSUME EntriesInv, KeysInv, LoadEnvironment
  PROVE  KeysInv'
<1>1. /\ phase = "keys" /\ keysToLoad = {} /\ load = "idle"
      /\ ~ watching /\ ~ channel /\ fileKeys = offered
      /\ accepted = [k \in ApiKeys |-> NoKey]
      /\ UNCHANGED << load, watching, channel, fileKeys, offered >>
  BY DEF LoadEnvironment, KeysInv, loadVars, signalVars
<1>2. CASE ~ AllValid(Environment)
  BY <1>1, <1>2 DEF LoadEnvironment, KeysInv
<1>3. CASE AllValid(Environment)
  <2>1. /\ accepted' = Added(Environment, DefaultTenant)
        /\ keysToLoad' = { t \in Tenants : fileKeys[t] # << >> }
        /\ phase' = IF keysToLoad' = {} THEN "serving" ELSE "keys"
    BY <1>1, <1>3 DEF LoadEnvironment
  <2>2. ASSUME NEW k \in ApiKeys
        PROVE  KeySettled(k)'
    <3>1. \A t \in Tenants : ListsKey(t, k)' => fileKeys[t] # << >>
      BY <1>1 DEF ListsKey
    <3>2. TenantsAdded(k)' = {}
      BY <2>1, <3>1 DEF TenantsAdded
    <3>3. IF \E i \in DOMAIN Environment : Environment[i].key = k
          THEN \E scope \in Scopes :
                 /\ LastScope(Environment, k, scope)
                 /\ accepted'[k] = [tenant |-> DefaultTenant, scope |-> scope]
          ELSE accepted'[k] = accepted[k]
      <4>1. Environment \in Seq(Entry)
        BY KeyAssumption
      <4>2. LastWins(Environment, DefaultTenant, k)
        BY <4>1, <1>3, AddedEntries
      <4> QED
        BY <4>2, <2>1 DEF LastWins
    <3> QED
      BY <1>1, <3>2, <3>3 DEF KeySettled
  <2> QED
    BY <1>1, <2>1, <2>2 DEF KeysInv
<1> QED
  BY <1>2, <1>3

\* A tenant of the file is added after it.
LEMMA TenantSettles ==
  ASSUME EntriesInv, KeysInv, NEW t \in Tenants, LoadTenantKeys(t)
  PROVE  KeysInv'
<1>1. /\ phase = "keys" /\ t \in keysToLoad /\ load = "idle"
      /\ ~ watching /\ ~ channel /\ fileKeys = offered
      /\ \A k \in ApiKeys : KeySettled(k)
      /\ UNCHANGED << load, watching, channel, fileKeys, offered >>
  BY DEF LoadTenantKeys, KeysInv, loadVars, signalVars
<1>2. CASE ~ AllValid(fileKeys[t])
  BY <1>1, <1>2 DEF LoadTenantKeys, KeysInv
<1>3. CASE AllValid(fileKeys[t])
  <2>1. /\ accepted' = Added(offered[t], t)
        /\ keysToLoad' = keysToLoad \ {t}
        /\ phase' = IF keysToLoad' = {} THEN "serving" ELSE "keys"
    BY <1>1, <1>3 DEF LoadTenantKeys
  <2>2. ASSUME NEW k \in ApiKeys
        PROVE  KeySettled(k)'
    <3>1. TenantsAdded(k)' = TenantsAdded(k) \cup
                               (IF ListsKey(t, k) THEN {t} ELSE {})
      BY <1>1, <2>1 DEF TenantsAdded, ListsKey
    <3>2. IF ListsKey(t, k)
          THEN \E scope \in Scopes :
                 /\ LastScope(offered[t], k, scope)
                 /\ accepted'[k] = [tenant |-> t, scope |-> scope]
          ELSE accepted'[k] = accepted[k]
      <4>1. offered[t] \in Seq(Entry) /\ AllValid(offered[t])
        BY <1>1, <1>3 DEF EntriesInv
      <4>2. ListsKey(t, k) <=> \E i \in DOMAIN offered[t] : offered[t][i].key = k
        BY DEF ListsKey
      <4>3. LastWins(offered[t], t, k)
        BY <4>1, AddedEntries
      <4> QED
        BY <4>2, <4>3, <2>1 DEF LastWins
    <3>3. KeySettled(k)
      BY <1>1
    <3>4. CASE ListsKey(t, k)
      BY <1>1, <3>1, <3>2, <3>4 DEF KeySettled
    <3>5. CASE ~ ListsKey(t, k)
      <4>1. TenantsAdded(k)' = TenantsAdded(k) /\ accepted'[k] = accepted[k]
        BY <3>1, <3>2, <3>5
      <4> QED
        BY <1>1, <3>3, <4>1 DEF KeySettled
    <3> QED
      BY <3>4, <3>5
  <2> QED
    BY <1>1, <2>1, <2>2 DEF KeysInv
<1> QED
  BY <1>2, <1>3

\* Steps that leave the keys of the start alone.
LEMMA KeysStay ==
  ASSUME KeysInv, UNCHANGED << keysToLoad, accepted, offered >>,
         phase' = phase \/ (phase' = "exited" /\ ~ watching' /\ ~ channel'),
         phase # "serving" => ~ watching' /\ ~ channel',
         phase = "keys" => load' = load /\ fileKeys' = fileKeys
  PROVE  KeysInv'
<1>1. \A k \in ApiKeys : KeySettled(k)' <=> KeySettled(k)
  <2> SUFFICES ASSUME NEW k \in ApiKeys
               PROVE  KeySettled(k)' <=> KeySettled(k)
    OBVIOUS
  <2>1. TenantsAdded(k)' = TenantsAdded(k)
    BY DEF TenantsAdded, ListsKey
  <2> QED
    BY <2>1 DEF KeySettled
<1>2. CASE phase' = phase
  BY <1>1, <1>2 DEF KeysInv
<1>3. CASE phase' = "exited" /\ ~ watching' /\ ~ channel'
  BY <1>3 DEF KeysInv
<1> QED
  BY <1>2, <1>3

LEMMA KeysStep == EntriesInv /\ KeysInv /\ [ReloadNext]_reloadVars => KeysInv'
<1> SUFFICES ASSUME EntriesInv, KeysInv, [ReloadNext]_reloadVars
             PROVE  KeysInv'
  OBVIOUS
<1>1. phase # "serving" => ~ watching /\ ~ channel
  BY DEF KeysInv
<1>2. CASE UNCHANGED reloadVars
  BY <1>1, <1>2, KeysStay DEF reloadVars, configVars, signalVars, loadVars, keyVars
<1>3. CASE OpenPath \/ ReadFile
  <2>1. phase # "keys"
    BY <1>3 DEF OpenPath, ReadFile, KeysInv
  <2> QED
    BY <1>1, <1>3, <2>1, KeysStay DEF OpenPath, ReadFile, signalVars, keyVars
<1>4. CASE PathMissing \/ ReadFileFails \/ IndexFails
  <2>1. /\ phase # "keys"
        /\ UNCHANGED << watching, channel, keysToLoad, accepted, offered >>
    BY <1>4 DEF PathMissing, ReadFileFails, IndexFails, KeysInv, signalVars, keyVars
  <2>2. phase' = phase \/ (phase' = "exited" /\ phase # "serving")
    BY <1>4 DEF PathMissing, ReadFileFails, IndexFails, Over
  <2> QED
    BY <1>1, <2>1, <2>2, KeysStay
<1>5. CASE Swap
  <2>1. /\ phase # "keys" /\ phase # "exited" /\ load' = "idle"
        /\ UNCHANGED << watching, channel, keysToLoad, accepted >>
        /\ phase' = IF phase = "starting" THEN "keys" ELSE phase
        /\ offered' = IF phase = "starting" THEN fileKeys' ELSE offered
    BY <1>5 DEF Swap, Over, KeysInv, signalVars
  <2>2. CASE phase = "starting"
    BY <1>1, <2>1, <2>2 DEF KeysInv
  <2>3. CASE phase # "starting"
    BY <1>1, <2>1, <2>3, KeysStay
  <2> QED
    BY <2>2, <2>3
<1>6. CASE LoadKeys
  BY <1>6, EnvironmentSettles, TenantSettles DEF LoadKeys
<1>7. CASE Watch \/ TakeSignal
  <2>1. phase = "serving"
    BY <1>7 DEF Watch, TakeSignal
  <2> QED
    BY <1>7, <2>1, KeysStay DEF Watch, TakeSignal, keyVars
<1>8. CASE Operator
  BY <1>1, <1>8, KeysStay DEF Operator, Hangup, Remount, Edit, loadVars, keyVars
<1>9. CASE \E r \in Requests : Serve(r)
  BY <1>1, <1>9, KeysStay DEF Serve, configVars, signalVars, loadVars, keyVars
<1> QED
  BY <1>2, <1>3, <1>4, <1>5, <1>6, <1>7, <1>8, <1>9 DEF ReloadNext, Loading

\* While the core serves, an API key is accepted for a tenant that listed it
\* when the process started, with the scope listed last, whatever was reloaded
\* since; the environment speaks only for a key no tenant lists.
THEOREM KeysAreOfTheStart == ReloadSpec => []KeysOfTheStart
<1>1. KeysInv => KeysOfTheStart
  <2> SUFFICES ASSUME KeysInv, phase = "serving", NEW k \in ApiKeys
               PROVE  LET lists == { t \in Tenants : ListsKey(t, k) } IN
                      IF lists # {}
                      THEN \E t \in lists, scope \in Scopes :
                             /\ accepted[k] = [tenant |-> t, scope |-> scope]
                             /\ LastScope(offered[t], k, scope)
                      ELSE \/ \E scope \in Scopes :
                                /\ LastScope(Environment, k, scope)
                                /\ accepted[k] = [tenant |-> DefaultTenant,
                                                  scope |-> scope]
                           \/ /\ \A i \in DOMAIN Environment :
                                   Environment[i].key # k
                              /\ accepted[k] = NoKey
    BY DEF KeysOfTheStart
  <2>1. keysToLoad = {} /\ KeySettled(k)
    BY DEF KeysInv
  <2>2. TenantsAdded(k) = { t \in Tenants : ListsKey(t, k) }
    BY <2>1 DEF TenantsAdded
  <2> QED
    BY <2>1, <2>2 DEF KeySettled
<1> QED
  BY <1>1, KeysInit, KeysStep, EntriesInvariant, PTL DEF ReloadSpec

=============================================================================

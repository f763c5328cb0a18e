---------------------------- MODULE Install_proofs -----------------------------
(***************************************************************************)
(* Theorems about Install, for every number of starts and every number of  *)
(* failing calls, crashes and thefts.                                      *)
(***************************************************************************)
EXTENDS Install, TLAPS

Migration == {"appdata", "merge appdata", "local", "merge local", "creds",
              "creddelete", "keys", "marker"}
Running == {"watch", "up", "mirror", "values", "pointer"}
Steps == {"off", "event"} \cup Migration \cup Running

\* The types that the proofs need.
TypeOK ==
  /\ step \in [Procs -> Steps]
  /\ todo \in [Procs -> SUBSET Files] /\ moving \in [Procs -> SUBSET Files]
  /\ mutex \in Procs \cup {NoProc}
  /\ old \in [Files -> {"none", "legacy"}]
  /\ new \in [Files -> {"none", "legacy", "fresh"}]
  /\ newDir \subseteq Trees
  /\ creds \subseteq {"old", "new"}
  /\ had.files \subseteq Files
  /\ written \subseteq Files

-----------------------------------------------------------------------------
(* Type correctness.                                                       *)

\* The start has values of these types.
LEMMA InitTypeOK == Init => TypeOK
  BY DEF Init, TypeOK, Steps, Files, Trees

\* The steps of migrateDir keep the types.
LEMMA MigrateDirType ==
  ASSUME TypeOK, NEW p \in Procs, NEW t \in Trees, migrateDir(p, t)
  PROVE  TypeOK'
  <1> USE DEF Goto, Fault, trees, gate, registry, bounds, history
  <1>1. /\ After(t) \in Steps /\ Merging(t) \in Steps /\ Left(t) \in SUBSET Files
    BY DEF After, Merging, Left, In, Steps, Migration
  <1>2. /\ \E s \in {After(t), Merging(t)} : step' = [step EXCEPT ![p] = s]
        /\ todo' = todo \/ todo' = [todo EXCEPT ![p] = Left(t)]
        /\ newDir' = newDir \/ newDir' = newDir \cup {t}
        /\ \/ UNCHANGED <<old, new>>
           \/ /\ old' = [f \in Files |-> IF Tree(f) = t THEN "none" ELSE old[f]]
              /\ new' = [f \in Files |-> IF Tree(f) = t THEN old[f] ELSE new[f]]
        /\ UNCHANGED <<moving, mutex, creds, had, written>>
    BY DEF migrateDir
  <1>3. step' \in [Procs -> Steps]
    BY <1>1, <1>2 DEF TypeOK
  <1>4. todo' \in [Procs -> SUBSET Files]
    BY <1>1, <1>2 DEF TypeOK
  <1>5. old' \in [Files -> {"none", "legacy"}] /\ new' \in [Files -> {"none", "legacy", "fresh"}]
    BY <1>2 DEF TypeOK
  <1> QED BY <1>2, <1>3, <1>4, <1>5 DEF TypeOK

\* A rename keeps the types.
LEMMA RenameType ==
  ASSUME TypeOK, NEW p \in Procs, Rename(p)
  PROVE  TypeOK'
  <1>1. PICK f \in moving[p] :
          \/ UNCHANGED <<old, new>>
          \/ new' = [new EXCEPT ![f] = old[f]] /\ old' = [old EXCEPT ![f] = "none"]
    BY DEF Rename
  <1>2. /\ \E g : moving' = [moving EXCEPT ![p] = @ \ {g}]
        /\ UNCHANGED <<step, todo, mutex, newDir, creds, had, written>>
    BY DEF Rename, gate
  <1>3. f \in Files
    BY DEF TypeOK
  <1>4. old' \in [Files -> {"none", "legacy"}] /\ new' \in [Files -> {"none", "legacy", "fresh"}]
    BY <1>1, <1>3 DEF TypeOK
  <1>5. moving' \in [Procs -> SUBSET Files]
    BY <1>2 DEF TypeOK
  <1> QED BY <1>2, <1>4, <1>5 DEF TypeOK

\* Every step keeps the types.
LEMMA StepTypeOK == TypeOK /\ [Next]_vars => TypeOK'
  <1> SUFFICES ASSUME TypeOK, [Next]_vars PROVE TypeOK'
    OBVIOUS
  <1> USE DEF TypeOK, Steps, Migration, Running, Files, Trees, Goto, Fault, vars, merge, gate,
              trees, registry, bounds, history
  <1>1. CASE Theft
    BY <1>1 DEF Theft
  <1>2. CASE UNCHANGED vars
    BY <1>2
  <1>3. ASSUME NEW p \in Procs,
               \/ acquireSingleInstance(p) \/ CreateEvent(p) \/ waitForRaiseSignal(p)
               \/ AlreadyMigrated(p) \/ MergeEnds(p) \/ mergeTree(p) \/ Rename(p)
        PROVE  TypeOK'
    <2>1. CASE acquireSingleInstance(p) \/ CreateEvent(p) \/ waitForRaiseSignal(p)
      BY <2>1 DEF acquireSingleInstance, CreateEvent, waitForRaiseSignal
    <2>2. CASE AlreadyMigrated(p)
      BY <2>2 DEF AlreadyMigrated
    <2>3. CASE mergeTree(p)
      <3>1. PICK f \in todo[p] :
              /\ todo' = [todo EXCEPT ![p] = @ \ {f}]
              /\ moving' = [moving EXCEPT ![p] = IF new[f] = "none" THEN {f} ELSE {}]
        BY <2>3 DEF mergeTree
      <3>2. todo' \in [Procs -> SUBSET Files]
        BY <3>1
      <3>3. moving' \in [Procs -> SUBSET Files]
        BY <3>1
      <3> QED BY <2>3, <3>2, <3>3 DEF mergeTree
    <2>4. CASE Rename(p)
      BY <2>4, RenameType
    <2>5. CASE MergeEnds(p)
      BY <2>5 DEF MergeEnds, After
    <2> QED BY <1>3, <2>1, <2>2, <2>3, <2>4, <2>5
  <1>4. ASSUME NEW p \in Procs, NEW t \in Trees, migrateDir(p, t) PROVE TypeOK'
    BY <1>4, MigrateDirType
  <1>5. ASSUME NEW p \in Procs,
               \/ migrateKeyringEntry(p) \/ DeleteOldEntry(p) \/ removeLegacyHealMirror(p)
               \/ WriteMarker(p) \/ SaveSettings(p) \/ Crash(p)
        PROVE  TypeOK'
    <2>1. CASE migrateKeyringEntry(p) \/ DeleteOldEntry(p)
      BY <2>1 DEF migrateKeyringEntry, DeleteOldEntry
    <2>2. CASE removeLegacyHealMirror(p)
      BY <2>2 DEF removeLegacyHealMirror
    <2>3. CASE WriteMarker(p)
      BY <2>3 DEF WriteMarker
    <2>4. CASE SaveSettings(p)
      BY <2>4 DEF SaveSettings
    <2>5. CASE Crash(p)
      BY <2>5 DEF Crash
    <2> QED BY <1>5, <2>1, <2>2, <2>3, <2>4, <2>5
  <1>6. ASSUME NEW p \in Procs,
               \/ ensureDefaultMailClient(p) \/ RepairFails(p) \/ CreateMirror(p)
               \/ SetValues(p) \/ SetPointer(p)
        PROVE  TypeOK'
    BY <1>6 DEF ensureDefaultMailClient, RepairFails, CreateMirror, SetValues, SetPointer
  <1> QED BY <1>1, <1>2, <1>3, <1>4, <1>5, <1>6 DEF Next

-----------------------------------------------------------------------------
(* Nothing gets lost.                                                      *)

\* What the migration relies on: a file under the new name has its directory;
\* a merge works on entries of its own tree, whose new directory exists; the
\* old credential is deleted once the new one is there; and behind a working
\* mutex one process runs, whose merge finds the new side as it saw it.
MoveInv ==
  /\ \A f \in Files : new[f] # "none" => Tree(f) \in newDir
  /\ \A f \in Files : new[f] = "legacy" => old[f] = "none"
  /\ \A p \in Procs : \A f \in moving[p] : step[p] = Merging(Tree(f))
  /\ \A p \in Procs : \A f \in todo[p] : step[p] = Merging(Tree(f))
  /\ \A p \in Procs, t \in Trees : step[p] = Merging(t) => t \in newDir
  /\ \A p \in Procs : step[p] = "creddelete" => "new" \in creds

AloneInv ==
  ~ungated => /\ \A p \in Procs : step[p] # "off" => mutex = p
              /\ \A p \in Procs : \A f \in moving[p] : new[f] = "none"

KeptInv == MoveInv /\ AloneInv /\ LegacyStateKept

\* At the start every file of the earlier install is where it was.
LEMMA InitKept == Init => KeptInv
  BY InstallAssumption
  DEF Init, KeptInv, MoveInv, AloneInv, LegacyStateKept, Files, Trees, Tree, InstallAssumption,
      Merging

\* The two trees are merged at steps of their own.
LEMMA MergingsDiffer == \A t, u \in Trees : Merging(t) = Merging(u) => t = u
  BY DEF Merging, Trees

\* A step that only moves a process on, outside its merges, keeps all this.
LEMMA ElsewhereKept ==
  ASSUME TypeOK, KeptInv,
         NEW p \in Procs, NEW s \in Steps,
         step[p] \notin {"off", "merge appdata", "merge local"},
         s \notin {"merge appdata", "merge local", "creddelete"},
         step' = [step EXCEPT ![p] = s],
         UNCHANGED <<todo, moving, mutex, old, new, newDir, creds, had, written, ungated>>
  PROVE  KeptInv'
  <1>1. \A q \in Procs : step'[q] = IF q = p THEN s ELSE step[q]
    BY DEF TypeOK
  <1>2. \A t : Merging(t) \in {"merge appdata", "merge local"}
    BY DEF Merging
  <1>3. moving[p] = {} /\ todo[p] = {}
    BY <1>2 DEF KeptInv, MoveInv
  <1>4. MoveInv'
    <2>1. \A q \in Procs : \A f \in moving[q] \cup todo[q] : step'[q] = Merging(Tree(f))
      BY <1>1, <1>3 DEF KeptInv, MoveInv
    <2>2. \A q \in Procs, t \in Trees : step'[q] = Merging(t) => t \in newDir
      BY <1>1, <1>2 DEF KeptInv, MoveInv
    <2> QED BY <1>1, <2>1, <2>2 DEF KeptInv, MoveInv
  <1>5. AloneInv'
    BY <1>1 DEF KeptInv, AloneInv
  <1>6. LegacyStateKept'
    BY DEF KeptInv, LegacyStateKept
  <1> QED BY <1>4, <1>5, <1>6 DEF KeptInv

\* Moving a tree at once, or beginning to merge it, keeps all this.
LEMMA MigrateDirKept ==
  ASSUME TypeOK, KeptInv, NEW p \in Procs, NEW t \in Trees, migrateDir(p, t)
  PROVE  KeptInv'
  <1> USE DEF migrateDir, merge, gate, trees, registry, bounds, history, Goto
  <1>0. /\ t \in {"appdata", "local"} /\ step[p] = t
        /\ UNCHANGED <<moving, mutex, creds, had, written, ungated>>
        /\ \A u : Merging(u) \in {"merge appdata", "merge local"}
    BY DEF Trees, Merging
  <1>1. moving[p] = {} /\ todo[p] = {}
    BY <1>0 DEF KeptInv, MoveInv
  <1>2. CASE Left(t) = {}
    <2>1. /\ step' = [step EXCEPT ![p] = After(t)]
          /\ UNCHANGED <<todo, old, new, newDir>>
      BY <1>2
    <2>2. After(t) \in {"local", "creds"}
      BY DEF After
    <2> QED BY <1>0, <2>1, <2>2, ElsewhereKept DEF Steps, Migration
  <1> HIDE DEF migrateDir
  <1>3. CASE t \notin newDir /\ newDir' = newDir \cup {t} /\ step' = [step EXCEPT ![p] = After(t)]
             /\ old' = [f \in Files |-> IF Tree(f) = t THEN "none" ELSE old[f]]
             /\ new' = [f \in Files |-> IF Tree(f) = t THEN old[f] ELSE new[f]]
             /\ todo' = todo
    <2>1. \A q \in Procs : step'[q] = IF q = p THEN After(t) ELSE step[q]
      BY <1>3 DEF TypeOK
    <2>2. After(t) \in {"local", "creds"}
      BY DEF After
    <2>3. \A f \in Files : /\ old'[f] = IF Tree(f) = t THEN "none" ELSE old[f]
                           /\ new'[f] = IF Tree(f) = t THEN old[f] ELSE new[f]
      BY <1>3
    <2>4. \A f \in Files : Tree(f) = t => new[f] = "none"
      BY <1>3 DEF KeptInv, MoveInv, TypeOK
    <2>5. MoveInv'
      <3>1. \A q \in Procs : \A f \in moving[q] \cup todo[q] : step'[q] = Merging(Tree(f))
        BY <1>1, <2>1 DEF KeptInv, MoveInv
      <3>2. \A q \in Procs, u \in Trees : step'[q] = Merging(u) => u \in newDir'
        BY <1>0, <1>3, <2>1, <2>2 DEF KeptInv, MoveInv
      <3>3. \A q \in Procs : step'[q] = "creddelete" => "new" \in creds
        BY <2>1, <2>2 DEF KeptInv, MoveInv
      <3>4. \A f \in Files : new'[f] # "none" => Tree(f) \in newDir'
        BY <1>3, <2>3 DEF KeptInv, MoveInv
      <3>5. \A f \in Files : new'[f] = "legacy" => old'[f] = "none"
        BY <2>3 DEF KeptInv, MoveInv
      <3> QED BY <1>0, <1>3, <3>1, <3>2, <3>3, <3>4, <3>5 DEF MoveInv
    <2>6. AloneInv'
      <3>1. ASSUME ~ungated, NEW q \in Procs, NEW f \in moving[q] PROVE new'[f] = "none"
        <4>1. mutex = p /\ (step[q] # "off" => mutex = q)
          BY <1>0, <3>1 DEF KeptInv, AloneInv
        <4>2. step[q] = Merging(Tree(f))
          BY DEF KeptInv, MoveInv
        <4>3. q = p
          BY <1>0, <4>1, <4>2
        <4> QED BY <1>1, <4>3
      <3>2. \A q \in Procs : step'[q] # "off" => step[q] # "off"
        BY <1>0, <2>1
      <3> QED BY <1>0, <3>1, <3>2 DEF KeptInv, AloneInv
    <2>7. LegacyStateKept'
      BY <1>0, <2>3, <2>4 DEF KeptInv, LegacyStateKept, TypeOK
    <2> QED BY <2>5, <2>6, <2>7 DEF KeptInv
  <1>4. CASE newDir' = newDir \cup {t} /\ step' = [step EXCEPT ![p] = Merging(t)]
             /\ todo' = [todo EXCEPT ![p] = Left(t)] /\ UNCHANGED <<old, new>>
    <2>1. \A q \in Procs : /\ step'[q] = IF q = p THEN Merging(t) ELSE step[q]
                           /\ todo'[q] = IF q = p THEN Left(t) ELSE todo[q]
      BY <1>4 DEF TypeOK
    <2>2. \A f \in Left(t) : Tree(f) = t
      BY DEF Left, In
    <2>3. MoveInv'
      <3>1. \A q \in Procs : \A f \in moving[q] \cup todo'[q] : step'[q] = Merging(Tree(f))
        BY <1>1, <2>1, <2>2 DEF KeptInv, MoveInv
      <3>2. ASSUME NEW q \in Procs, NEW u \in Trees, step'[q] = Merging(u)
            PROVE  u \in newDir'
        <4>1. CASE q = p
          <5>1. Merging(t) = Merging(u)
            BY <2>1, <3>2, <4>1
          <5>2. u = t
            BY <5>1, MergingsDiffer
          <5> QED BY <1>4, <5>2
        <4>2. CASE q # p
          BY <1>4, <2>1, <3>2, <4>2 DEF KeptInv, MoveInv
        <4> QED BY <4>1, <4>2
      <3>3. \A q \in Procs : step'[q] = "creddelete" => "new" \in creds
        BY <1>0, <2>1 DEF KeptInv, MoveInv
      <3> QED BY <1>0, <1>4, <3>1, <3>2, <3>3 DEF KeptInv, MoveInv
    <2>4. AloneInv'
      BY <1>0, <1>4, <2>1 DEF KeptInv, AloneInv
    <2>5. LegacyStateKept'
      BY <1>0, <1>4 DEF KeptInv, LegacyStateKept
    <2> QED BY <2>3, <2>4, <2>5 DEF KeptInv
  <1> QED BY <1>2, <1>3, <1>4 DEF migrateDir

\* So does looking at the next entry ...
LEMMA MergeKept ==
  ASSUME TypeOK, KeptInv, NEW p \in Procs, mergeTree(p)
  PROVE  KeptInv'
  <1> USE DEF mergeTree, merge, gate, trees, registry, bounds, history
  <1>1. PICK f \in todo[p] :
          /\ todo' = [todo EXCEPT ![p] = @ \ {f}]
          /\ moving' = [moving EXCEPT ![p] = IF new[f] = "none" THEN {f} ELSE {}]
    OBVIOUS
  <1>2. /\ \A q \in Procs : todo'[q] \subseteq todo[q]
        /\ \A q \in Procs : moving'[q] = IF q = p THEN IF new[f] = "none" THEN {f} ELSE {}
                                           ELSE moving[q]
    BY <1>1 DEF TypeOK
  <1>3. UNCHANGED <<step, mutex, old, new, newDir, creds, had, written, ungated>>
    OBVIOUS
  <1> HIDE DEF mergeTree
  <1>4. MoveInv'
    <2>1. \A q \in Procs : \A g \in moving'[q] : step[q] = Merging(Tree(g))
      BY <1>1, <1>2 DEF KeptInv, MoveInv
    <2>2. \A q \in Procs : \A g \in todo'[q] : step[q] = Merging(Tree(g))
      BY <1>2 DEF KeptInv, MoveInv
    <2> QED BY <1>3, <2>1, <2>2 DEF KeptInv, MoveInv
  <1>5. AloneInv' /\ LegacyStateKept'
    BY <1>2, <1>3 DEF KeptInv, AloneInv, LegacyStateKept
  <1> QED BY <1>4, <1>5 DEF KeptInv

\* ... and moving it: behind the mutex nothing came to the new side meanwhile.
LEMMA RenameKept ==
  ASSUME TypeOK, KeptInv, NEW p \in Procs, Rename(p)
  PROVE  KeptInv'
  <1> USE DEF Rename, merge, gate, trees, registry, bounds, history
  <1>1. PICK f \in moving[p] :
          /\ moving' = [moving EXCEPT ![p] = @ \ {f}]
          /\ \/ UNCHANGED <<old, new>>
             \/ /\ old[f] # "none"
                /\ new' = [new EXCEPT ![f] = old[f]] /\ old' = [old EXCEPT ![f] = "none"]
    BY DEF Fault
  <1>2. /\ UNCHANGED <<step, todo, mutex, newDir, creds, had, written, ungated>>
        /\ \A q \in Procs : moving'[q] \subseteq moving[q]
    BY DEF TypeOK
  <1> HIDE DEF Rename
  <1>3. f \in Files /\ step[p] = Merging(Tree(f)) /\ Tree(f) \in Trees
    BY DEF TypeOK, KeptInv, MoveInv, Tree, Trees
  <1>4. CASE UNCHANGED <<old, new>>
    BY <1>2, <1>4 DEF KeptInv, MoveInv, AloneInv, LegacyStateKept
  <1>5. CASE old[f] # "none" /\ new' = [new EXCEPT ![f] = old[f]]
                             /\ old' = [old EXCEPT ![f] = "none"]
    <2>1. /\ old[f] = "legacy"
          /\ \A g \in Files : /\ new'[g] = IF g = f THEN "legacy" ELSE new[g]
                              /\ old'[g] = IF g = f THEN "none" ELSE old[g]
      BY <1>3, <1>5 DEF TypeOK
    <2>2. MoveInv'
      BY <1>2, <1>3, <2>1 DEF KeptInv, MoveInv
    <2>3. ASSUME ~ungated PROVE \A q \in Procs \ {p} : moving[q] = {}
      <3>1. mutex = p
        BY <1>3, <2>3 DEF KeptInv, AloneInv, Merging
      <3>2. ASSUME NEW q \in Procs \ {p}, NEW g \in moving[q] PROVE FALSE
        BY <2>3, <3>1, <3>2 DEF KeptInv, AloneInv, MoveInv, Merging
      <3> QED BY <3>2
    <2>4. AloneInv'
      <3>1. f \notin moving'[p]
        BY <1>1 DEF TypeOK
      <3> QED BY <1>2, <2>1, <2>3, <3>1 DEF KeptInv, AloneInv, TypeOK
    <2>5. ~ungated => f \notin written
      BY DEF KeptInv, AloneInv, LegacyStateKept
    <2>6. LegacyStateKept'
      BY <1>2, <2>1, <2>5 DEF KeptInv, LegacyStateKept, TypeOK
    <2> QED BY <2>2, <2>4, <2>6 DEF KeptInv
  <1> QED BY <1>1, <1>4, <1>5

\* The end of a merge loses no file.
LEMMA MergeEndsKept ==
  ASSUME TypeOK, KeptInv, NEW p \in Procs, MergeEnds(p)
  PROVE  KeptInv'
  <1> USE DEF MergeEnds, merge, gate, trees, registry, bounds, history, Goto
  <1>1. /\ todo[p] = {} /\ moving[p] = {}
        /\ step[p] \in {"merge appdata", "merge local"}
        /\ UNCHANGED <<todo, moving, mutex, old, new, newDir, creds, had, written, ungated>>
    BY DEF Merging
  <1>2. PICK s \in {"local", "creds"} : step' = [step EXCEPT ![p] = s]
    BY DEF After
  <1> HIDE DEF MergeEnds
  <1>3. \A q \in Procs : step'[q] = IF q = p THEN s ELSE step[q]
    BY <1>2 DEF TypeOK
  <1>4. \A t : Merging(t) \in {"merge appdata", "merge local"}
    BY DEF Merging
  <1>5. MoveInv'
    <2>1. \A q \in Procs : \A f \in moving[q] \cup todo[q] : step'[q] = Merging(Tree(f))
      BY <1>1, <1>3 DEF KeptInv, MoveInv
    <2>2. \A q \in Procs, t \in Trees : step'[q] = Merging(t) => t \in newDir
      BY <1>2, <1>3, <1>4 DEF KeptInv, MoveInv
    <2>3. \A q \in Procs : step'[q] = "creddelete" => "new" \in creds
      BY <1>2, <1>3 DEF KeptInv, MoveInv
    <2> QED BY <1>1, <2>1, <2>2, <2>3 DEF KeptInv, MoveInv
  <1>6. AloneInv' /\ LegacyStateKept'
    BY <1>1, <1>3 DEF KeptInv, AloneInv, LegacyStateKept
  <1> QED BY <1>5, <1>6 DEF KeptInv

\* The old credential goes after the new one came.
LEMMA CredsKept ==
  ASSUME TypeOK, KeptInv, NEW p \in Procs, migrateKeyringEntry(p) \/ DeleteOldEntry(p)
  PROVE  KeptInv'
  <1> USE DEF migrateKeyringEntry, DeleteOldEntry, merge, gate, trees, registry, bounds, history,
              Goto
  <1>1. /\ step[p] \in {"creds", "creddelete"}
        /\ UNCHANGED <<todo, moving, mutex, old, new, newDir, had, written, ungated>>
    OBVIOUS
  <1>2. PICK s \in {"keys", "creddelete"} :
          /\ step' = [step EXCEPT ![p] = s]
          /\ s = "creddelete" => "new" \in creds'
    OBVIOUS
  <1>3. ("new" \in creds => "new" \in creds') /\ (creds # {} => creds' # {})
    BY DEF KeptInv, MoveInv
  <1> HIDE DEF migrateKeyringEntry, DeleteOldEntry
  <1>4. \A q \in Procs : step'[q] = IF q = p THEN s ELSE step[q]
    BY <1>2 DEF TypeOK
  <1>5. \A t : Merging(t) \in {"merge appdata", "merge local"}
    BY DEF Merging
  <1>6. moving[p] = {} /\ todo[p] = {}
    BY <1>1, <1>5 DEF KeptInv, MoveInv
  <1>7. MoveInv'
    <2>1. \A q \in Procs : \A f \in moving[q] \cup todo[q] : step'[q] = Merging(Tree(f))
      BY <1>4, <1>6 DEF KeptInv, MoveInv
    <2>2. \A q \in Procs, t \in Trees : step'[q] = Merging(t) => t \in newDir
      BY <1>2, <1>4, <1>5 DEF KeptInv, MoveInv
    <2>3. \A q \in Procs : step'[q] = "creddelete" => "new" \in creds'
      BY <1>2, <1>3, <1>4 DEF KeptInv, MoveInv
    <2> QED BY <1>1, <2>1, <2>2, <2>3 DEF KeptInv, MoveInv
  <1>8. AloneInv' /\ LegacyStateKept'
    BY <1>1, <1>3, <1>4 DEF KeptInv, AloneInv, LegacyStateKept
  <1> QED BY <1>7, <1>8 DEF KeptInv

\* The marker and the settings are written into the new directory; behind the
\* mutex no merge is under way then.
LEMMA WritesKept ==
  ASSUME TypeOK, KeptInv, NEW p \in Procs, WriteMarker(p) \/ SaveSettings(p)
  PROVE  KeptInv'
  <1> USE DEF WriteMarker, SaveSettings, merge, gate, trees, registry, bounds, history, Goto
  <1>1. /\ step[p] \in {"marker", "up"}
        /\ newDir' = newDir \cup {"appdata"}
        /\ UNCHANGED <<todo, moving, mutex, old, creds, had, ungated>>
    OBVIOUS
  <1>2. /\ \A q \in Procs : step'[q] = IF q = p /\ step[p] = "marker" THEN "watch" ELSE step[q]
        /\ \/ new' = new /\ written' = written
           \/ /\ \A f \in Files : new'[f] = IF f = "settings" THEN "fresh" ELSE new[f]
              /\ written' = written \cup {"settings"}
    BY DEF TypeOK
  <1> HIDE DEF WriteMarker, SaveSettings
  <1>3. \A t : Merging(t) \in {"merge appdata", "merge local"}
    BY DEF Merging
  <1>4. moving[p] = {} /\ todo[p] = {}
    BY <1>1, <1>3 DEF KeptInv, MoveInv
  <1>5. MoveInv'
    <2>1. \A q \in Procs : \A f \in moving[q] \cup todo[q] : step'[q] = Merging(Tree(f))
      BY <1>2, <1>4 DEF KeptInv, MoveInv
    <2>2. \A q \in Procs, t \in Trees : step'[q] = Merging(t) => t \in newDir'
      BY <1>1, <1>2, <1>3 DEF KeptInv, MoveInv
    <2>3. \A f \in Files : new'[f] # "none" => Tree(f) \in newDir'
      BY <1>1, <1>2 DEF KeptInv, MoveInv, Tree
    <2>4. \A f \in Files : new'[f] = "legacy" => old[f] = "none"
      BY <1>2 DEF KeptInv, MoveInv
    <2>5. \A q \in Procs : step'[q] = "creddelete" => "new" \in creds
      BY <1>2 DEF KeptInv, MoveInv
    <2> QED BY <1>1, <2>1, <2>2, <2>3, <2>4, <2>5 DEF MoveInv
  <1>6. AloneInv'
    <2>1. ASSUME ~ungated, NEW q \in Procs, NEW f \in moving[q] PROVE FALSE
      <3>1. mutex = p /\ (step[q] # "off" => mutex = q)
        BY <1>1, <2>1 DEF KeptInv, AloneInv
      <3>2. step[q] = Merging(Tree(f))
        BY DEF KeptInv, MoveInv
      <3> QED BY <1>3, <1>4, <3>1, <3>2
    <2>2. \A q \in Procs : step'[q] # "off" => step[q] # "off"
      BY <1>1, <1>2
    <2> QED BY <1>1, <2>1, <2>2 DEF KeptInv, AloneInv
  <1>7. LegacyStateKept'
    <2>1. \A f \in Files : new[f] # "none" => new'[f] # "none"
      BY <1>2
    <2>2. \A f \in written : f \in Files
      BY DEF TypeOK
    <2>3. ~ungated => \A f \in written' : new'[f] = "fresh"
      BY <1>2, <2>2 DEF KeptInv, LegacyStateKept, Files
    <2>4. \A f \in had.files : f \in Files
      BY DEF TypeOK
    <2> QED BY <1>1, <2>1, <2>3, <2>4 DEF KeptInv, LegacyStateKept
  <1> QED BY <1>5, <1>6, <1>7 DEF KeptInv

\* A crash loses no file.
LEMMA CrashKept ==
  ASSUME TypeOK, KeptInv, NEW p \in Procs, Crash(p)
  PROVE  KeptInv'
  <1> USE DEF Crash, merge, gate, trees, registry, bounds, history, Goto
  <1>1. UNCHANGED <<old, new, newDir, creds, had, written, ungated>>
    OBVIOUS
  <1>2. \A q \in Procs : /\ step'[q] = IF q = p THEN "off" ELSE step[q]
                         /\ todo'[q] = IF q = p THEN {} ELSE todo[q]
                         /\ moving'[q] = IF q = p THEN {} ELSE moving[q]
    BY DEF TypeOK
  <1>3. mutex' = IF mutex = p THEN NoProc ELSE mutex
    OBVIOUS
  <1> HIDE DEF Crash
  <1>4. \A t : Merging(t) # "off"
    BY DEF Merging
  <1>5. MoveInv'
    BY <1>1, <1>2, <1>4 DEF KeptInv, MoveInv
  <1>6. AloneInv' /\ LegacyStateKept'
    BY <1>1, <1>2, <1>3 DEF KeptInv, AloneInv, LegacyStateKept
  <1> QED BY <1>5, <1>6 DEF KeptInv

\* Each step keeps all this.
LEMMA StepKept == TypeOK /\ KeptInv /\ [Next]_vars => KeptInv'
  <1> SUFFICES ASSUME TypeOK, KeptInv, [Next]_vars PROVE KeptInv'
    OBVIOUS
  <1> USE DEF Goto, Fault, merge, gate, trees, registry, bounds, history
  <1>0. \A t : Merging(t) \in {"merge appdata", "merge local"}
    BY DEF Merging
  <1>1. CASE Theft
    BY <1>1 DEF Theft, KeptInv, MoveInv, AloneInv, LegacyStateKept
  <1>2. CASE UNCHANGED vars
    BY <1>2 DEF vars, KeptInv, MoveInv, AloneInv, LegacyStateKept
  <1>3. ASSUME NEW p \in Procs, acquireSingleInstance(p) PROVE KeptInv'
    <2>0. UNCHANGED <<todo, moving, old, new, newDir, creds, had, written>>
      BY <1>3 DEF acquireSingleInstance
    <2>1. CASE UNCHANGED <<step, mutex, ungated>>
      BY <2>0, <2>1 DEF KeptInv, MoveInv, AloneInv, LegacyStateKept
    <2>2. CASE ~UNCHANGED <<step, mutex, ungated>>
      <3>1. /\ step[p] = "off"
            /\ \E s \in {"event", "appdata"} : step' = [step EXCEPT ![p] = s]
            /\ (~ungated)' => ~ungated /\ mutex = NoProc /\ mutex' = p
            /\ UNCHANGED <<todo, moving, old, new, newDir, creds, had, written>>
        BY <1>3, <2>2 DEF acquireSingleInstance
      <3>2. \A q \in Procs \ {p} : step'[q] = step[q]
        BY <3>1 DEF TypeOK
      <3>3. step'[p] \in {"event", "appdata"}
        BY <3>1 DEF TypeOK
      <3>4. moving[p] = {} /\ todo[p] = {}
        BY <1>0, <3>1 DEF KeptInv, MoveInv
      <3>5. MoveInv'
        <4>1. \A q \in Procs : \A f \in moving[q] \cup todo[q] : step'[q] = Merging(Tree(f))
          BY <3>2, <3>4 DEF KeptInv, MoveInv
        <4>2. \A q \in Procs, t \in Trees : step'[q] = Merging(t) => t \in newDir
          BY <1>0, <3>2, <3>3 DEF KeptInv, MoveInv
        <4>3. \A q \in Procs : step'[q] = "creddelete" => "new" \in creds
          BY <3>2, <3>3 DEF KeptInv, MoveInv
        <4> QED BY <3>1, <4>1, <4>2, <4>3 DEF KeptInv, MoveInv
      <3>6. AloneInv'
        BY <3>1, <3>2, <3>3, InstallAssumption DEF KeptInv, AloneInv, InstallAssumption
      <3>7. LegacyStateKept'
        BY <3>1 DEF KeptInv, LegacyStateKept
      <3> QED BY <3>5, <3>6, <3>7 DEF KeptInv
    <2> QED BY <2>1, <2>2
  <1>4. ASSUME NEW p \in Procs, CreateEvent(p) PROVE KeptInv'
    BY <1>4, ElsewhereKept DEF CreateEvent, Steps, Migration
  <1>5. ASSUME NEW p \in Procs, waitForRaiseSignal(p) PROVE KeptInv'
    BY <1>5 DEF waitForRaiseSignal, KeptInv, MoveInv, AloneInv, LegacyStateKept
  <1>6. ASSUME NEW p \in Procs, AlreadyMigrated(p) PROVE KeptInv'
    BY <1>6, ElsewhereKept DEF AlreadyMigrated, Steps, Running
  <1>7. ASSUME NEW p \in Procs, NEW t \in Trees, migrateDir(p, t) PROVE KeptInv'
    BY <1>7, MigrateDirKept
  <1>8. ASSUME NEW p \in Procs, mergeTree(p) PROVE KeptInv'
    BY <1>8, MergeKept
  <1>9. ASSUME NEW p \in Procs, Rename(p) PROVE KeptInv'
    BY <1>9, RenameKept
  <1>10. ASSUME NEW p \in Procs, MergeEnds(p) PROVE KeptInv'
    BY <1>10, MergeEndsKept
  <1>11. ASSUME NEW p \in Procs, migrateKeyringEntry(p) \/ DeleteOldEntry(p) PROVE KeptInv'
    BY <1>11, CredsKept
  <1>12. ASSUME NEW p \in Procs, removeLegacyHealMirror(p) PROVE KeptInv'
    BY <1>12, ElsewhereKept DEF removeLegacyHealMirror, Steps, Migration
  <1>13. ASSUME NEW p \in Procs, WriteMarker(p) \/ SaveSettings(p) PROVE KeptInv'
    BY <1>13, WritesKept
  <1>14. ASSUME NEW p \in Procs, Crash(p) PROVE KeptInv'
    BY <1>14, CrashKept
  <1>15. ASSUME NEW p \in Procs,
                \/ ensureDefaultMailClient(p) \/ RepairFails(p) \/ CreateMirror(p)
                \/ SetValues(p) \/ SetPointer(p)
         PROVE  KeptInv'
    <2>1. \E s \in Running : step' = [step EXCEPT ![p] = s]
      BY <1>15 DEF ensureDefaultMailClient, RepairFails, CreateMirror, SetValues, SetPointer,
                   Running
    <2>2. /\ step[p] \in Running
          /\ UNCHANGED <<todo, moving, mutex, old, new, newDir, creds, had, written, ungated>>
      BY <1>15 DEF ensureDefaultMailClient, RepairFails, CreateMirror, SetValues, SetPointer,
                   Running, Repairing
    <2> QED BY <2>1, <2>2, ElsewhereKept DEF Steps, Running
  <1> QED
    BY <1>1, <1>2, <1>3, <1>4, <1>5, <1>6, <1>7, <1>8, <1>9, <1>10, <1>11, <1>12, <1>13,
       <1>14, <1>15 DEF Next, Trees

\* Every state of Spec has the types, and nothing of the earlier install is
\* lost in any of them.
THEOREM KeptCorrect == Spec => [](TypeOK /\ KeptInv)
  BY InitTypeOK, StepTypeOK, InitKept, StepKept, PTL DEF Spec

\* Files and tokens of the earlier install survive every failure, crash and
\* concurrent start, and nothing that 4.0 wrote is replaced behind a mutex.
THEOREM MigrationLosesNothing == Spec => []LegacyStateKept
  BY KeptCorrect, PTL DEF KeptInv

-----------------------------------------------------------------------------
(* The default mail client.                                                *)

\* A repair that is about to set the pointer has written what it leads to, but
\* for a theft meanwhile.
HealInv ==
  /\ \A p \in Procs : step[p] = "pointer" => mirror = "intact" \/ (cut /\ stolen)
  /\ DefaultHealed

\* Nothing has to be healed at the start.
LEMMA InitHeal == Init => HealInv
  BY DEF Init, HealInv, DefaultHealed

\* Outside a repair a process leaves the registry as it is.
LEMMA ElsewhereHeal ==
  ASSUME TypeOK, HealInv, NEW p \in Procs,
         ~Repairing(p), ~Repairing(p)',
         \A q \in Procs \ {p} : step'[q] = step[q],
         UNCHANGED <<pointer, machine, mirror, stolen, cut>>
  PROVE  HealInv'
  <1>1. \A q \in Procs : Repairing(q)' <=> Repairing(q)
    BY DEF Repairing
  <1>2. \A q \in Procs : step'[q] = "pointer" => step[q] = "pointer"
    BY DEF Repairing
  <1>3. Effective' = Effective
    BY DEF Effective
  <1> QED BY <1>1, <1>2, <1>3 DEF HealInv, DefaultHealed

\* The migration does not touch the default mail program.
LEMMA MigrationHeal ==
  ASSUME TypeOK, HealInv, NEW p \in Procs,
         \/ acquireSingleInstance(p) \/ CreateEvent(p) \/ AlreadyMigrated(p)
         \/ migrateDir(p, "appdata") \/ migrateDir(p, "local") \/ MergeEnds(p)
         \/ migrateKeyringEntry(p) \/ DeleteOldEntry(p) \/ removeLegacyHealMirror(p)
         \/ WriteMarker(p)
  PROVE  HealInv'
  <1> DEFINE Early == {"event", "appdata", "merge appdata", "local", "merge local", "creds",
                       "creddelete", "keys", "marker"}
  <1>1. /\ step[p] \in {"off"} \cup Early
        /\ step' = step \/ \E s \in {"watch"} \cup Early : step' = [step EXCEPT ![p] = s]
        /\ UNCHANGED <<pointer, machine, mirror, stolen, cut>>
    BY DEF acquireSingleInstance, CreateEvent, AlreadyMigrated, migrateDir, MergeEnds,
           migrateKeyringEntry, DeleteOldEntry, removeLegacyHealMirror, WriteMarker, Goto,
           After, Merging, registry
  <1>2. /\ \A q \in Procs \ {p} : step'[q] = step[q]
        /\ step'[p] = step[p] \/ step'[p] \in {"watch"} \cup Early
    BY <1>1 DEF TypeOK
  <1>3. ~Repairing(p) /\ ~Repairing(p)'
    BY <1>1, <1>2 DEF Repairing
  <1> QED BY <1>1, <1>2, <1>3, ElsewhereHeal

\* The check and the steps of the repair.
LEMMA GuardHeal ==
  ASSUME TypeOK, HealInv, NEW p \in Procs,
         \/ ensureDefaultMailClient(p) \/ RepairFails(p) \/ CreateMirror(p)
         \/ SetValues(p) \/ SetPointer(p)
  PROVE  HealInv'
  <1> USE DEF Goto
  <1>1. CASE ensureDefaultMailClient(p)
    <2>1. /\ step[p] \in {"watch", "up"}
          /\ step' = [step EXCEPT ![p] = IF mailClientNeedsRepair THEN "mirror" ELSE "up"]
          /\ stolen' <=> \E q \in Procs \ {p} : Repairing(q)
          /\ UNCHANGED <<pointer, machine, mirror, cut>>
      BY <1>1 DEF ensureDefaultMailClient
    <2>2. /\ step'[p] = IF mailClientNeedsRepair THEN "mirror" ELSE "up"
          /\ \A q \in Procs \ {p} : step'[q] = step[q]
      BY <2>1 DEF TypeOK
    <2>3. \A q \in Procs : step'[q] = "pointer" => mirror = "intact" \/ (cut /\ stolen')
      BY <2>1, <2>2 DEF HealInv, Repairing
    <2>4. (~mailClientNeedsRepair) =>
            Effective = "ours" /\ (pointer = "ours" => mirror = "intact")
      BY DEF mailClientNeedsRepair
    <2>5. mailClientNeedsRepair => Repairing(p)'
      BY <2>2 DEF Repairing
    <2>6. Effective' = Effective
      BY <2>1 DEF Effective
    <2> QED BY <2>1, <2>3, <2>4, <2>5, <2>6 DEF HealInv, DefaultHealed
  <1>2. CASE RepairFails(p)
    <2>1. /\ stolen' /\ UNCHANGED <<pointer, machine, mirror, cut>>
          /\ step' = [step EXCEPT ![p] = "up"]
      BY <1>2 DEF RepairFails
    <2>2. \A q \in Procs : step'[q] = "pointer" => step[q] = "pointer"
      BY <2>1 DEF TypeOK
    <2> QED BY <2>1, <2>2 DEF HealInv, DefaultHealed
  <1>3. CASE CreateMirror(p)
    <2>1. /\ mirror = "intact" => mirror' = "intact"
          /\ UNCHANGED <<pointer, machine, stolen, cut>>
          /\ step' = [step EXCEPT ![p] = "values"]
      BY <1>3 DEF CreateMirror
    <2>2. Repairing(p)' /\ \A q \in Procs : step'[q] = "pointer" => step[q] = "pointer"
      BY <2>1 DEF TypeOK, Repairing
    <2> QED BY <2>1, <2>2 DEF HealInv, DefaultHealed
  <1>4. CASE SetValues(p)
    <2>1. /\ mirror' = "intact"
          /\ UNCHANGED <<pointer, machine, stolen, cut>>
          /\ step' = [step EXCEPT ![p] = "pointer"]
      BY <1>4 DEF SetValues
    <2>2. Repairing(p)'
      BY <2>1 DEF TypeOK, Repairing
    <2> QED BY <2>1, <2>2 DEF HealInv, DefaultHealed
  <1>5. CASE SetPointer(p)
    <2>1. /\ step[p] = "pointer" /\ pointer' = "ours"
          /\ UNCHANGED <<machine, mirror, stolen, cut>>
          /\ step' = [step EXCEPT ![p] = "up"]
      BY <1>5 DEF SetPointer
    <2>2. \A q \in Procs : step'[q] = "pointer" => step[q] = "pointer"
      BY <2>1 DEF TypeOK
    <2>3. mirror = "intact" \/ (cut /\ stolen)
      BY <2>1 DEF HealInv
    <2>4. Effective' = "ours"
      BY <2>1 DEF Effective
    <2> QED BY <2>1, <2>2, <2>3, <2>4 DEF HealInv, DefaultHealed
  <1> QED BY <1>1, <1>2, <1>3, <1>4, <1>5

\* Every step keeps the invariant of the guard.
LEMMA StepHeal == TypeOK /\ HealInv /\ [Next]_vars => HealInv'
  <1> SUFFICES ASSUME TypeOK, HealInv, [Next]_vars PROVE HealInv'
    OBVIOUS
  <1>1. CASE Theft
    <2>1. /\ stolen' /\ UNCHANGED step
          /\ \/ pointer' \in {"other", "none"} /\ UNCHANGED <<mirror, cut>>
             \/ cut'
      BY <1>1 DEF Theft
    <2> QED BY <2>1 DEF HealInv, DefaultHealed
  <1>2. CASE UNCHANGED vars
    BY <1>2 DEF vars, registry, HealInv, DefaultHealed, Repairing, Effective
  <1>3. ASSUME NEW p \in Procs,
               waitForRaiseSignal(p) \/ mergeTree(p) \/ Rename(p) \/ SaveSettings(p)
        PROVE  HealInv'
    <2>1. UNCHANGED <<step, pointer, machine, mirror, stolen, cut>>
      BY <1>3 DEF waitForRaiseSignal, mergeTree, Rename, SaveSettings, registry
    <2> QED BY <2>1 DEF HealInv, DefaultHealed, Repairing, Effective
  <1>4. ASSUME NEW p \in Procs, Crash(p) PROVE HealInv'
    <2>1. /\ stolen' <=> (stolen \/ Repairing(p))
          /\ UNCHANGED <<pointer, machine, mirror, cut>>
          /\ step' = [step EXCEPT ![p] = "off"]
      BY <1>4 DEF Crash, Goto
    <2>2. /\ step'[p] = "off" /\ \A q \in Procs \ {p} : step'[q] = step[q]
      BY <2>1 DEF TypeOK
    <2>3. CASE stolen'
      BY <2>1, <2>2, <2>3 DEF HealInv, DefaultHealed
    <2>4. CASE ~stolen'
      <3>1. ~Repairing(p) /\ ~Repairing(p)' /\ ~stolen
        BY <2>1, <2>2, <2>4 DEF Repairing
      <3>2. \A q \in Procs : Repairing(q)' <=> Repairing(q)
        BY <2>2, <3>1 DEF Repairing
      <3>3. \A q \in Procs : step'[q] = "pointer" => step[q] = "pointer"
        BY <2>2
      <3> QED BY <2>1, <2>4, <3>1, <3>2, <3>3 DEF HealInv, DefaultHealed, Effective
    <2> QED BY <2>3, <2>4
  <1> QED BY <1>1, <1>2, <1>3, <1>4, MigrationHeal, GuardHeal DEF Next

\* The pointer of the user never leads to a half-written client key, and a check
\* that no theft, failure or crash spoils leaves the default with the app.
THEOREM DefaultComesBack == Spec => []DefaultHealed
  <1>1. HealInv => DefaultHealed
    BY DEF HealInv
  <1> QED BY <1>1, InitHeal, StepHeal, KeptCorrect, PTL DEF Spec

-----------------------------------------------------------------------------
(* The marker.                                                             *)

\* A file is dealt with once the old side has it no longer or 4.0 has written
\* its own; that lasts.
Settled(f) == old[f] = "none" \/ new[f] = "fresh"

\* The steps behind the move of a tree.
Behind(t) == {"creds", "creddelete", "keys", "marker"} \cup
             (IF t = "appdata" THEN {"local", "merge local"} ELSE {})

\* While no step has failed: what a process has behind it is done, and the
\* marker means that everything is.
DoneInv ==
  ~failed =>
    /\ \A p \in Procs, f \in Files : step[p] \in Behind(Tree(f)) => Settled(f)
    /\ \A p \in Procs, f \in Files :
         step[p] = Merging(Tree(f)) => Settled(f) \/ f \in todo[p] \cup moving[p]
    /\ \A p \in Procs : step[p] \in {"keys", "marker"} => creds # {"old"}
    /\ \A p \in Procs : step[p] = "marker" => ~oldMirror
    /\ marker => (\A f \in Files : Settled(f)) /\ creds # {"old"} /\ ~oldMirror

\* There is no marker at the start.
LEMMA InitDone == Init => DoneInv
  BY DEF Init, DoneInv, Behind, Merging

\* What is dealt with stays so: files, tokens and client key only ever leave.
LEMMA DoneLasts ==
  ASSUME TypeOK, KeptInv, [Next]_vars
  PROVE  /\ \A f \in Files : Settled(f) => Settled(f)'
         /\ creds # {"old"} => creds' # {"old"}
         /\ ~oldMirror => ~oldMirror'
         /\ ~failed' => ~failed
  <1> USE DEF Fault
  <1>1. ASSUME UNCHANGED <<old, new, creds, oldMirror, failed>>
        PROVE  /\ \A f \in Files : Settled(f) => Settled(f)'
               /\ creds # {"old"} => creds' # {"old"}
               /\ ~oldMirror => ~oldMirror'
               /\ ~failed' => ~failed
    BY <1>1 DEF Settled
  <1>2. CASE Theft \/ UNCHANGED vars
    <2>1. UNCHANGED <<old, new, creds, oldMirror, failed>>
      BY <1>2 DEF Theft, vars, trees, registry, history
    <2> QED BY <2>1, <1>1
  <1>3. ASSUME NEW p \in Procs,
               \/ acquireSingleInstance(p) \/ CreateEvent(p) \/ waitForRaiseSignal(p)
               \/ AlreadyMigrated(p) \/ mergeTree(p) \/ MergeEnds(p) \/ WriteMarker(p)
               \/ Crash(p)
        PROVE  UNCHANGED <<old, new, creds, oldMirror, failed>>
    BY <1>3 DEF acquireSingleInstance, CreateEvent, waitForRaiseSignal, AlreadyMigrated,
                mergeTree, MergeEnds, WriteMarker, Crash, trees, registry, history
  <1>4. ASSUME NEW p \in Procs,
               \/ ensureDefaultMailClient(p) \/ RepairFails(p) \/ CreateMirror(p)
               \/ SetValues(p) \/ SetPointer(p)
        PROVE  UNCHANGED <<old, new, creds, oldMirror, failed>>
    BY <1>4 DEF ensureDefaultMailClient, RepairFails, CreateMirror, SetValues, SetPointer,
                trees, history
  <1>5. ASSUME NEW p \in Procs, NEW t \in Trees, migrateDir(p, t)
        PROVE  /\ \A f \in Files : Settled(f) => Settled(f)'
               /\ UNCHANGED <<creds, oldMirror, failed>>
    <2>1. /\ \/ UNCHANGED <<old, new>>
             \/ /\ t \notin newDir
                /\ old' = [f \in Files |-> IF Tree(f) = t THEN "none" ELSE old[f]]
                /\ new' = [f \in Files |-> IF Tree(f) = t THEN old[f] ELSE new[f]]
          /\ UNCHANGED <<creds, oldMirror, failed>>
      BY <1>5 DEF migrateDir, trees, registry, history
    <2> QED BY <2>1 DEF Settled
  <1>6. ASSUME NEW p \in Procs, Rename(p)
        PROVE  /\ \A f \in Files : Settled(f) => Settled(f)'
               /\ UNCHANGED <<creds, oldMirror>> /\ (failed => failed')
    <2>1. /\ \/ UNCHANGED <<old, new>>
             \/ \E g \in moving[p] : /\ new' = [new EXCEPT ![g] = old[g]]
                                      /\ old' = [old EXCEPT ![g] = "none"]
          /\ UNCHANGED <<creds, oldMirror>> /\ (failed => failed')
      BY <1>6 DEF Rename, registry
    <2>2. ASSUME NEW g \in moving[p], new' = [new EXCEPT ![g] = old[g]],
                 old' = [old EXCEPT ![g] = "none"], NEW f \in Files, Settled(f)
          PROVE  Settled(f)'
      BY <2>2 DEF Settled, TypeOK
    <2> QED BY <2>1, <2>2 DEF Settled
  <1>7. ASSUME NEW p \in Procs, migrateKeyringEntry(p) \/ DeleteOldEntry(p)
        PROVE  /\ UNCHANGED <<old, new, oldMirror>> /\ (failed => failed')
               /\ creds # {"old"} => creds' # {"old"}
    <2>1. UNCHANGED <<old, new, oldMirror>> /\ (failed => failed')
      BY <1>7 DEF migrateKeyringEntry, DeleteOldEntry, trees, registry
    <2>2. \/ creds' = creds \/ creds' = creds \cup {"new"} \/ creds' = creds \ {"old"}
      BY <1>7 DEF migrateKeyringEntry, DeleteOldEntry
    <2> QED BY <2>1, <2>2
  <1>8. ASSUME NEW p \in Procs, removeLegacyHealMirror(p)
        PROVE  /\ UNCHANGED <<old, new, creds>> /\ (failed => failed')
               /\ ~oldMirror => ~oldMirror'
    BY <1>8 DEF removeLegacyHealMirror, trees
  <1>9. ASSUME NEW p \in Procs, SaveSettings(p)
        PROVE  /\ \A f \in Files : Settled(f) => Settled(f)'
               /\ UNCHANGED <<creds, oldMirror, failed>>
    <2>1. /\ new' = [new EXCEPT !["settings"] = "fresh"]
          /\ UNCHANGED <<old, creds, oldMirror, failed>>
      BY <1>9 DEF SaveSettings, registry
    <2> QED BY <2>1 DEF Settled, TypeOK
  <1>10. CASE UNCHANGED <<old, new>>
    <2>1. \A f \in Files : Settled(f) => Settled(f)'
      BY <1>10 DEF Settled
    <2> QED BY <1>1, <1>2, <1>3, <1>4, <1>5, <1>6, <1>7, <1>8, <1>9, <2>1 DEF Next, Trees
  <1> QED BY <1>1, <1>2, <1>3, <1>4, <1>5, <1>6, <1>7, <1>8, <1>9, <1>10 DEF Next, Trees

\* A process that goes on from one step to another needs done what is behind it.
LEMMA GoneOn ==
  ASSUME TypeOK, DoneInv, NEW p \in Procs, ~failed,
         \A f \in Files : Settled(f) => Settled(f)',
         creds # {"old"} => creds' # {"old"},
         ~oldMirror => ~oldMirror',
         \A q \in Procs \ {p} : UNCHANGED <<step[q], todo[q], moving[q]>>,
         marker' => marker \/ step[p] = "marker",
         \A f \in Files : step'[p] \in Behind(Tree(f)) => Settled(f)',
         \A f \in Files :
           step'[p] = Merging(Tree(f)) => Settled(f)' \/ f \in todo'[p] \cup moving'[p],
         step'[p] \in {"keys", "marker"} => creds' # {"old"},
         step'[p] = "marker" => ~oldMirror'
  PROVE  DoneInv'
  <1>1. \A q \in Procs, f \in Files : step'[q] \in Behind(Tree(f)) => Settled(f)'
    BY DEF DoneInv
  <1>2. \A q \in Procs, f \in Files :
          step'[q] = Merging(Tree(f)) => Settled(f)' \/ f \in todo'[q] \cup moving'[q]
    BY DEF DoneInv
  <1>3. \A q \in Procs : /\ step'[q] \in {"keys", "marker"} => creds' # {"old"}
                         /\ step'[q] = "marker" => ~oldMirror'
    BY DEF DoneInv
  <1>4. marker' => (\A f \in Files : Settled(f)') /\ creds' # {"old"} /\ ~oldMirror'
    <2>1. "marker" \in {"keys", "marker"} /\ \A f \in Files : "marker" \in Behind(Tree(f))
      BY DEF Behind
    <2> QED BY <2>1 DEF DoneInv
  <1> QED BY <1>1, <1>2, <1>3, <1>4 DEF DoneInv, Behind, Merging, Tree

\* The steps of migrateDir keep the marker true.
LEMMA MigrateDirDone ==
  ASSUME TypeOK, KeptInv, DoneInv, NEW p \in Procs, NEW t \in Trees, migrateDir(p, t), ~failed,
         \A f \in Files : Settled(f) => Settled(f)',
         creds # {"old"} => creds' # {"old"},
         ~oldMirror => ~oldMirror'
  PROVE  DoneInv'
  <1>1. /\ step[p] = t /\ UNCHANGED <<moving, marker>>
        /\ t \in {"appdata", "local"}
    BY DEF migrateDir, Trees
  <1>2. \A q \in Procs \ {p} : UNCHANGED <<step[q], todo[q], moving[q]>>
    BY DEF migrateDir, Goto, TypeOK, trees
  <1>3. CASE step' = [step EXCEPT ![p] = After(t)] /\ \A f \in Files : Tree(f) = t => Settled(f)'
    <2>1. step'[p] = After(t) /\ After(t) = IF t = "appdata" THEN "local" ELSE "creds"
      BY <1>3 DEF TypeOK, After
    <2>2. \A f \in Files : step'[p] \in Behind(Tree(f)) => Settled(f)'
      <3>1. CASE t = "appdata"
        <4>1. \A f \in Files : "local" \in Behind(Tree(f)) => Tree(f) = "appdata"
          BY DEF Behind
        <4> QED BY <1>3, <2>1, <3>1, <4>1
      <3>2. CASE t = "local"
        <4>1. \A f \in Files : Tree(f) = "appdata" => Settled(f)
          BY <1>1, <3>2 DEF DoneInv, Behind
        <4>2. \A f \in Files : Tree(f) \in {"appdata", "local"}
          BY DEF Tree
        <4> QED BY <1>3, <3>2, <4>1, <4>2
      <3> QED BY <1>1, <3>1, <3>2
    <2>3. \A f \in Files : step'[p] # Merging(Tree(f))
      BY <2>1 DEF Merging
    <2> QED BY <1>1, <1>2, <2>1, <2>2, <2>3, GoneOn
  <1>4. CASE /\ step' = [step EXCEPT ![p] = Merging(t)] /\ todo' = [todo EXCEPT ![p] = Left(t)]
             /\ UNCHANGED <<old, new>>
    <2>1. step'[p] = Merging(t) /\ todo'[p] = Left(t)
      BY <1>4 DEF TypeOK
    <2>2. \A f \in Files : Tree(f) = t => Settled(f)' \/ f \in todo'[p]
      BY <1>4, <2>1 DEF Settled, Left, In
    <2>3. \A f \in Files : step'[p] = Merging(Tree(f)) => Settled(f)' \/ f \in todo'[p] \cup moving'[p]
      <3>1. \A f \in Files : Tree(f) \in Trees
        BY DEF Tree, Trees
      <3> QED BY <2>1, <2>2, <3>1, MergingsDiffer
    <2>4. \A f \in Files : step'[p] \in Behind(Tree(f)) => Settled(f)'
      <3>1. CASE t = "appdata"
        BY <2>1, <3>1 DEF Behind, Merging
      <3>2. CASE t = "local"
        <4>1. \A f \in Files : Tree(f) = "appdata" => Settled(f)
          BY <1>1, <3>2 DEF DoneInv, Behind
        <4>2. \A f \in Files : "merge local" \in Behind(Tree(f)) => Tree(f) = "appdata"
          BY DEF Behind
        <4> QED BY <2>1, <3>2, <4>1, <4>2 DEF Merging
      <3> QED BY <1>1, <3>1, <3>2
    <2>5. step'[p] \notin {"keys", "marker"}
      BY <2>1 DEF Merging
    <2> QED BY <1>1, <1>2, <2>3, <2>4, <2>5, GoneOn
  <1>5. \/ Left(t) = {} /\ step' = [step EXCEPT ![p] = After(t)] /\ UNCHANGED <<old, new>>
        \/ /\ old' = [f \in Files |-> IF Tree(f) = t THEN "none" ELSE old[f]]
           /\ step' = [step EXCEPT ![p] = After(t)]
        \/ /\ step' = [step EXCEPT ![p] = Merging(t)] /\ todo' = [todo EXCEPT ![p] = Left(t)]
           /\ UNCHANGED <<old, new>>
    BY DEF migrateDir, Goto, trees
  <1>6. Left(t) = {} /\ UNCHANGED old => \A f \in Files : Tree(f) = t => Settled(f)'
    BY DEF Left, In, Settled
  <1>7. old' = [f \in Files |-> IF Tree(f) = t THEN "none" ELSE old[f]] =>
          \A f \in Files : Tree(f) = t => Settled(f)'
    BY DEF Settled
  <1> QED BY <1>3, <1>4, <1>5, <1>6, <1>7

\* An entry leaves the merge when both sides have it, and then the new one is
\* of 4.0, or when it has been moved.
LEMMA MergeDone ==
  ASSUME TypeOK, KeptInv, DoneInv, NEW p \in Procs, mergeTree(p) \/ Rename(p), ~failed, ~failed',
         \A f \in Files : Settled(f) => Settled(f)',
         creds # {"old"} => creds' # {"old"},
         ~oldMirror => ~oldMirror'
  PROVE  DoneInv'
  <1>1. UNCHANGED <<step, marker>>
    BY DEF mergeTree, Rename
  <1>2. \A q \in Procs \ {p} : UNCHANGED <<step[q], todo[q], moving[q]>>
    BY DEF mergeTree, Rename, TypeOK
  <1>3. \A f \in todo[p] \cup moving[p] : f \in todo'[p] \cup moving'[p] \/ Settled(f)'
    <2>1. CASE mergeTree(p)
      <3>1. PICK g \in todo[p] :
              /\ todo' = [todo EXCEPT ![p] = @ \ {g}]
              /\ moving' = [moving EXCEPT ![p] = IF new[g] = "none" THEN {g} ELSE {}]
              /\ UNCHANGED <<old, new>> /\ moving[p] = {}
        BY <2>1 DEF mergeTree, trees
      <3>2. todo'[p] = todo[p] \ {g} /\ moving'[p] = IF new[g] = "none" THEN {g} ELSE {}
        BY <3>1 DEF TypeOK
      <3>3. new[g] # "none" => Settled(g)'
        BY <3>1 DEF Settled, KeptInv, MoveInv, TypeOK
      <3> QED BY <3>1, <3>2, <3>3
    <2>2. CASE Rename(p)
      <3>1. todo' = todo
        BY <2>2 DEF Rename
      <3>2. PICK g \in moving[p] :
              /\ moving' = [moving EXCEPT ![p] = @ \ {g}]
              /\ \/ old[g] = "none" /\ UNCHANGED <<old, new>>
                 \/ old' = [old EXCEPT ![g] = "none"]
        BY <2>2 DEF Rename
      <3>3. Settled(g)'
        BY <3>2 DEF Settled, TypeOK
      <3>4. moving'[p] = moving[p] \ {g}
        BY <3>2 DEF TypeOK
      <3> QED BY <3>1, <3>3, <3>4
    <2> QED BY <2>1, <2>2
  <1>4. \A f \in Files : step'[p] \in Behind(Tree(f)) => Settled(f)'
    BY <1>1 DEF DoneInv
  <1>5. \A f \in Files : step'[p] = Merging(Tree(f)) => Settled(f)' \/ f \in todo'[p] \cup moving'[p]
    BY <1>1, <1>3 DEF DoneInv
  <1>6. /\ step'[p] \in {"keys", "marker"} => creds' # {"old"}
        /\ step'[p] = "marker" => ~oldMirror'
    BY <1>1 DEF DoneInv
  <1> QED BY <1>1, <1>2, <1>4, <1>5, <1>6, GoneOn

\* The end of a merge keeps the marker true.
LEMMA MergeEndsDone ==
  ASSUME TypeOK, DoneInv, NEW p \in Procs, MergeEnds(p), ~failed,
         \A f \in Files : Settled(f) => Settled(f)',
         creds # {"old"} => creds' # {"old"},
         ~oldMirror => ~oldMirror'
  PROVE  DoneInv'
  <1>1. PICK t \in Trees : step[p] = Merging(t) /\ step' = [step EXCEPT ![p] = After(t)]
    BY DEF MergeEnds, Goto
  <1>2. todo[p] = {} /\ moving[p] = {} /\ UNCHANGED <<marker, todo, moving>>
    BY DEF MergeEnds, merge
  <1>3. /\ step'[p] = IF t = "appdata" THEN "local" ELSE "creds"
        /\ \A q \in Procs \ {p} : step'[q] = step[q]
    BY <1>1 DEF TypeOK, After
  <1>4. \A f \in Files : Tree(f) = t => Settled(f)'
    BY <1>1, <1>2 DEF DoneInv
  <1>5. t = "local" => \A f \in Files : Tree(f) = "appdata" => Settled(f)'
    BY <1>1 DEF DoneInv, Behind, Merging
  <1>6. \A f \in Files : Tree(f) \in {"appdata", "local"}
    BY DEF Tree
  <1>7. \A f \in Files : step'[p] \in Behind(Tree(f)) => Settled(f)'
    <2>1. CASE t = "appdata"
      BY <1>3, <1>4, <2>1 DEF Behind
    <2>2. CASE t = "local"
      BY <1>4, <1>5, <1>6, <2>2
    <2> QED BY <2>1, <2>2 DEF Trees
  <1>8. \A f \in Files : step'[p] # Merging(Tree(f))
    BY <1>3 DEF Merging
  <1> QED BY <1>2, <1>3, <1>7, <1>8, GoneOn

\* Every step keeps the marker true.
LEMMA StepDone == TypeOK /\ KeptInv /\ DoneInv /\ [Next]_vars => DoneInv'
  <1> SUFFICES ASSUME TypeOK, KeptInv, DoneInv, [Next]_vars, ~failed' PROVE DoneInv'
    BY DEF DoneInv
  <1>0. /\ ~failed
        /\ \A f \in Files : Settled(f) => Settled(f)'
        /\ creds # {"old"} => creds' # {"old"}
        /\ ~oldMirror => ~oldMirror'
    BY DoneLasts
  <1>a. \A f \in Files : Tree(f) \in {"appdata", "local"}
    BY DEF Tree
  <1>b. \A t : /\ Behind(t) \subseteq {"creds", "creddelete", "keys", "marker", "local", "merge local"}
               /\ Merging(t) \in {"merge appdata", "merge local"}
    BY DEF Behind, Merging
  <1>1. CASE UNCHANGED <<step, todo, moving>> /\ marker' = marker
    <2>1. \A p \in Procs, f \in Files : step'[p] \in Behind(Tree(f)) => Settled(f)'
      BY <1>0, <1>1 DEF DoneInv
    <2>2. \A p \in Procs, f \in Files :
            step'[p] = Merging(Tree(f)) => Settled(f)' \/ f \in todo'[p] \cup moving'[p]
      BY <1>0, <1>1 DEF DoneInv
    <2>3. \A p \in Procs : /\ step'[p] \in {"keys", "marker"} => creds' # {"old"}
                           /\ step'[p] = "marker" => ~oldMirror'
      BY <1>0, <1>1 DEF DoneInv
    <2>4. marker' => (\A f \in Files : Settled(f)') /\ creds' # {"old"} /\ ~oldMirror'
      BY <1>0, <1>1 DEF DoneInv
    <2> QED BY <2>1, <2>2, <2>3, <2>4 DEF DoneInv, Behind, Merging, Tree
  \* A process that comes to one of these steps has nothing behind it yet.
  <1>2. ASSUME NEW p \in Procs, NEW s \in {"off", "event", "appdata"} \cup Running,
               step' = [step EXCEPT ![p] = s], marker' => marker \/ step[p] = "marker",
               \A q \in Procs \ {p} : UNCHANGED <<todo[q], moving[q]>>
        PROVE  DoneInv'
    <2>1. step'[p] = s /\ \A q \in Procs \ {p} : step'[q] = step[q]
      BY <1>2 DEF TypeOK
    <2>2. s \notin {"creds", "creddelete", "keys", "marker", "local", "merge local", "merge appdata"}
      BY <1>2 DEF Running
    <2>3. \A f \in Files : step'[p] \notin Behind(Tree(f)) /\ step'[p] # Merging(Tree(f))
      BY <1>b, <2>1, <2>2
    <2> QED BY <1>0, <1>2, <2>1, <2>2, <2>3, GoneOn
  <1>3. CASE Theft \/ UNCHANGED vars
    BY <1>1, <1>3 DEF Theft, vars, merge
  <1>4. ASSUME NEW p \in Procs,
               \/ acquireSingleInstance(p) \/ CreateEvent(p) \/ waitForRaiseSignal(p)
               \/ AlreadyMigrated(p) \/ WriteMarker(p) \/ SaveSettings(p)
               \/ ensureDefaultMailClient(p) \/ RepairFails(p) \/ CreateMirror(p)
               \/ SetValues(p) \/ SetPointer(p)
        PROVE  DoneInv'
    <2>1. CASE \/ acquireSingleInstance(p) \/ CreateEvent(p) \/ waitForRaiseSignal(p)
               \/ AlreadyMigrated(p) \/ WriteMarker(p) \/ SaveSettings(p)
      <3>1. /\ UNCHANGED <<todo, moving>>
            /\ marker' => marker \/ step[p] = "marker"
            /\ \/ step' = step /\ marker' = marker
               \/ \E s \in {"event", "appdata", "watch"} : step' = [step EXCEPT ![p] = s]
        BY <2>1 DEF acquireSingleInstance, CreateEvent, waitForRaiseSignal, AlreadyMigrated,
                    WriteMarker, SaveSettings, Goto, merge
      <3> QED BY <3>1, <1>1, <1>2 DEF Running
    <2>2. CASE \/ ensureDefaultMailClient(p) \/ RepairFails(p) \/ CreateMirror(p)
               \/ SetValues(p) \/ SetPointer(p)
      <3>1. /\ UNCHANGED <<todo, moving, marker>>
            /\ \E s \in Running : step' = [step EXCEPT ![p] = s]
        BY <2>2 DEF ensureDefaultMailClient, RepairFails, CreateMirror, SetValues, SetPointer,
                    Goto, merge, Running
      <3> QED BY <3>1, <1>2
    <2> QED BY <1>4, <2>1, <2>2
  <1>5. ASSUME NEW p \in Procs, Crash(p) PROVE DoneInv'
    <2>1. /\ step' = [step EXCEPT ![p] = "off"] /\ marker' = marker
          /\ \A q \in Procs \ {p} : UNCHANGED <<todo[q], moving[q]>>
      BY <1>5 DEF Crash, Goto, TypeOK
    <2> QED BY <2>1, <1>2
  <1>6. ASSUME NEW p \in Procs, NEW t \in Trees, migrateDir(p, t) PROVE DoneInv'
    BY <1>0, <1>6, MigrateDirDone
  <1>7. ASSUME NEW p \in Procs, mergeTree(p) \/ Rename(p) PROVE DoneInv'
    BY <1>0, <1>7, MergeDone
  <1>8. ASSUME NEW p \in Procs, MergeEnds(p) PROVE DoneInv'
    BY <1>0, <1>8, MergeEndsDone
  <1>9. ASSUME NEW p \in Procs,
               migrateKeyringEntry(p) \/ DeleteOldEntry(p) \/ removeLegacyHealMirror(p)
        PROVE  DoneInv'
    <2>1. /\ UNCHANGED <<marker, todo, moving>>
          /\ step[p] \in {"creds", "creddelete", "keys"}
      BY <1>9 DEF migrateKeyringEntry, DeleteOldEntry, removeLegacyHealMirror, merge
    <2>2. PICK s \in {"creddelete", "keys", "marker"} : step' = [step EXCEPT ![p] = s]
      BY <1>9 DEF migrateKeyringEntry, DeleteOldEntry, removeLegacyHealMirror, Goto
    <2>3. step'[p] = s /\ \A q \in Procs \ {p} : step'[q] = step[q]
      BY <2>2 DEF TypeOK
    <2>4. \A f \in Files : Settled(f)
      BY <1>0, <2>1 DEF DoneInv, Behind
    <2>5. step'[p] \in {"keys", "marker"} => creds' # {"old"}
      <3>1. CASE migrateKeyringEntry(p)
        BY <1>0, <2>3, <3>1 DEF migrateKeyringEntry, Goto, TypeOK
      <3>2. CASE DeleteOldEntry(p)
        BY <1>0, <3>2 DEF DeleteOldEntry, KeptInv, MoveInv
      <3>3. CASE removeLegacyHealMirror(p)
        BY <1>0, <3>3 DEF removeLegacyHealMirror, DoneInv
      <3> QED BY <1>9, <3>1, <3>2, <3>3
    <2>6. step'[p] = "marker" => ~oldMirror'
      <3>1. CASE migrateKeyringEntry(p) \/ DeleteOldEntry(p)
        BY <3>1 DEF migrateKeyringEntry, DeleteOldEntry, Goto, TypeOK
      <3>2. CASE removeLegacyHealMirror(p)
        BY <3>2 DEF removeLegacyHealMirror
      <3> QED BY <1>9, <3>1, <3>2
    <2>7. \A f \in Files : step'[p] # Merging(Tree(f))
      BY <1>b, <2>2, <2>3
    <2> QED BY <1>0, <2>1, <2>3, <2>4, <2>5, <2>6, <2>7, GoneOn
  <1> QED BY <1>3, <1>4, <1>5, <1>6, <1>7, <1>8, <1>9 DEF Next, Trees

\* The marker of a migration none of whose steps failed means that nothing is
\* left behind, with any number of crashes and of starts.
THEOREM MarkerIsTrue == Spec => []MarkerMeansDone
  <1>1. DoneInv => MarkerMeansDone
    BY DEF DoneInv, MarkerMeansDone, Settled
  <1> QED BY <1>1, InitDone, StepDone, KeptCorrect, PTL DEF Spec
=============================================================================

------------------------------- MODULE Install -------------------------------
(***************************************************************************)
(* Starting on a machine where others were before: the single-instance     *)
(* gate (singleinstance.go), the migration of what the earlier go-mapi     *)
(* left (migrate.go), and the guard that claims the default mail client    *)
(* back (defaultmail.go).  Steps fail, processes die, another mail client  *)
(* takes the default.                                                      *)
(***************************************************************************)
EXTENDS Naturals, FiniteSets

CONSTANTS
  Procs,       (* starts of the program                                    *)
  NoProc,
  MaxFaults,   (* bound on calls that fail                                 *)
  MaxCrashes,  (* bound on processes that die                              *)
  MaxThefts    (* bound on what another mail client does                   *)

ASSUME InstallAssumption ==
  /\ NoProc \notin Procs
  /\ {MaxFaults, MaxCrashes, MaxThefts} \subseteq Nat

VARIABLES
  step,        (* per process: what it does next, or off                   *)
  todo,        (* per process: the entries its merge has not visited       *)
  moving,      (* per process: the entry it found missing on the new side  *)
  mutex,       (* the owner of the named mutex                             *)
  event,       (* the named event: none, clear or set                      *)
  old, new,    (* per file: none, legacy, or fresh when 4.0 wrote it       *)
  newDir,      (* the trees that exist under the new name                  *)
  marker,      (* .migrated-v4 exists                                      *)
  creds,       (* the credential targets that hold tokens                  *)
  pointer,     (* HKCU (Default): none, ours, legacy or other              *)
  machine,     (* HKLM (Default): ours or other                            *)
  oldMirror,   (* the HKCU client key of go-mapi exists                    *)
  mirror,      (* that of DraftHorse: absent, half or intact               *)
  faults, crashes, thefts,
  had,         (* history: the files and tokens of the earlier install     *)
  failed,      (* history: a step of a migration failed                    *)
  written,     (* history: the files 4.0 wrote                             *)
  ungated,     (* history: a start could not create the mutex              *)
  stolen,      (* history: since the last check began the default was      *)
               (* taken, or its repair failed or died                      *)
  cut          (* history: the other client removed our mirror             *)

gate     == <<mutex, event>>
trees    == <<old, new, newDir>>
registry == <<pointer, machine, oldMirror, mirror, stolen, cut>>
bounds   == <<faults, crashes, thefts>>
merge    == <<todo, moving>>
history  == <<had, failed, written, ungated>>
vars == <<step, merge, gate, trees, marker, creds, registry, bounds, history>>

\* The settings, a pending scan and the directory of its copies.
Files == {"settings", "scan", "copies"}
Trees == {"appdata", "local"}
Tree(f) == IF f = "settings" THEN "appdata" ELSE "local"
In(t) == {f \in Files : Tree(f) = t}
Left(t) == {f \in In(t) : old[f] # "none"}

Init ==
  /\ step = [p \in Procs |-> "off"]
  /\ todo = [p \in Procs |-> {}] /\ moving = [p \in Procs |-> {}]
  /\ mutex = NoProc /\ event = "none"
  /\ old \in {[f \in Files |-> IF f \in there THEN "legacy" ELSE "none"] :
                there \in {{}, {"settings"}, Files}}
  /\ new = [f \in Files |-> "none"] /\ newDir \in SUBSET Trees
  /\ marker = FALSE
  /\ creds \in {{}, {"old"}}
  /\ \E legacy \in BOOLEAN : /\ oldMirror = legacy
                             /\ pointer = IF legacy THEN "legacy" ELSE "none"
  /\ machine = "ours" /\ mirror = "absent"
  /\ faults = 0 /\ crashes = 0 /\ thefts = 0
  /\ had = [files |-> {f \in Files : old[f] # "none"}, creds |-> creds]
  /\ failed = FALSE /\ written = {} /\ ungated = FALSE /\ stolen = TRUE /\ cut = FALSE

Goto(p, s) == step' = [step EXCEPT ![p] = s]
Fault == faults < MaxFaults /\ faults' = faults + 1 /\ UNCHANGED <<crashes, thefts>>

-----------------------------------------------------------------------------
(* One instance per session.                                               *)

\* acquireSingleInstance: own the mutex; or set the event of its owner, which
\* may not have created it yet, and exit; or fail and run all the same.
acquireSingleInstance(p) ==
  /\ step[p] = "off"
  /\ \/ /\ mutex = NoProc
        /\ mutex' = p
        /\ Goto(p, "event")
        /\ UNCHANGED <<event, bounds, ungated>>
     \/ /\ mutex # NoProc
        /\ event' = IF event = "none" THEN "none" ELSE "set"
        /\ UNCHANGED <<step, mutex, bounds, ungated>>
     \/ Fault /\ Goto(p, "appdata") /\ ungated' = TRUE /\ UNCHANGED gate
  /\ UNCHANGED <<merge, trees, marker, creds, registry, had, failed, written>>

CreateEvent(p) ==
  /\ step[p] = "event"
  /\ Goto(p, "appdata")
  /\ event' = IF event = "none" THEN "clear" ELSE event
  /\ UNCHANGED <<merge, mutex, trees, marker, creds, registry, bounds, history>>

\* waitForRaiseSignal runs once the migration is over.
waitForRaiseSignal(p) ==
  /\ step[p] \in {"watch", "mirror", "values", "pointer", "up"}
  /\ mutex = p /\ event = "set"
  /\ event' = "clear"
  /\ UNCHANGED <<step, merge, mutex, trees, marker, creds, registry, bounds, history>>

-----------------------------------------------------------------------------
(* migrateLegacyState.                                                     *)

\* With the marker nothing is done; without, the two trees are moved.
AlreadyMigrated(p) ==
  /\ step[p] = "appdata" /\ marker
  /\ Goto(p, "watch")
  /\ UNCHANGED <<merge, gate, trees, marker, creds, registry, bounds, history>>

Merging(t) == IF t = "appdata" THEN "merge appdata" ELSE "merge local"
After(t) == IF t = "appdata" THEN "local" ELSE "creds"

\* Mutant: a tree whose new directory exists counts as moved.
migrateDirOnce(p, t) ==
  /\ step[p] = t /\ (t = "appdata" => ~marker)
  /\ Goto(p, After(t))
  /\ IF Left(t) = {} \/ t \in newDir THEN UNCHANGED <<todo, trees, bounds>>
     ELSE /\ old' = [f \in Files |-> IF Tree(f) = t THEN "none" ELSE old[f]]
          /\ new' = [f \in Files |-> IF Tree(f) = t THEN old[f] ELSE new[f]]
          /\ newDir' = newDir \cup {t}
          /\ UNCHANGED <<todo, bounds>>
  /\ UNCHANGED <<moving, gate, marker, creds, registry, history>>

\* migrateDir: nothing to move, or one rename, or a merge entry by entry.
migrateDir(p, t) ==
  /\ step[p] = t /\ (t = "appdata" => ~marker)
  /\ IF Left(t) = {} THEN Goto(p, After(t)) /\ UNCHANGED <<todo, trees, bounds>>
     ELSE \/ /\ t \notin newDir
             /\ old' = [f \in Files |-> IF Tree(f) = t THEN "none" ELSE old[f]]
             /\ new' = [f \in Files |-> IF Tree(f) = t THEN old[f] ELSE new[f]]
             /\ newDir' = newDir \cup {t}
             /\ Goto(p, After(t))
             /\ UNCHANGED <<todo, bounds>>
          \/ /\ IF t \in newDir THEN UNCHANGED bounds ELSE Fault
             /\ newDir' = newDir \cup {t}
             /\ todo' = [todo EXCEPT ![p] = Left(t)]
             /\ Goto(p, Merging(t))
             /\ UNCHANGED <<old, new>>
  /\ UNCHANGED <<moving, gate, marker, creds, registry, history>>

\* Mutant: every entry is moved.
mergeEverything(p) ==
  /\ \E t \in Trees : step[p] = Merging(t)
  /\ moving[p] = {}
  /\ \E f \in todo[p] :
       /\ todo' = [todo EXCEPT ![p] = @ \ {f}]
       /\ moving' = [moving EXCEPT ![p] = {f}]
  /\ UNCHANGED <<step, gate, trees, marker, creds, registry, bounds, history>>

\* mergeTree: what both sides have stays where it is ...
mergeTree(p) ==
  /\ \E t \in Trees : step[p] = Merging(t)
  /\ moving[p] = {}
  /\ \E f \in todo[p] :
       /\ todo' = [todo EXCEPT ![p] = @ \ {f}]
       /\ moving' = [moving EXCEPT ![p] = IF new[f] = "none" THEN {f} ELSE {}]
  /\ UNCHANGED <<step, gate, trees, marker, creds, registry, bounds, history>>

\* ... what the new side lacked is renamed, over whatever came there meanwhile.
Rename(p) ==
  /\ \E f \in moving[p] :
    /\ moving' = [moving EXCEPT ![p] = @ \ {f}]
    /\ \/ /\ old[f] = "none"
          /\ UNCHANGED <<old, new, bounds, failed>>
       \/ /\ old[f] # "none"
          /\ new' = [new EXCEPT ![f] = old[f]]
          /\ old' = [old EXCEPT ![f] = "none"]
          /\ UNCHANGED <<bounds, failed>>
       \/ Fault /\ failed' = TRUE /\ UNCHANGED <<old, new>>
  /\ UNCHANGED <<step, todo, gate, newDir, marker, creds, registry, had, written, ungated>>

MergeEnds(p) ==
  /\ todo[p] = {} /\ moving[p] = {}
  /\ \E t \in Trees : step[p] = Merging(t) /\ Goto(p, After(t))
  /\ UNCHANGED <<merge, gate, trees, marker, creds, registry, bounds, history>>

\* migrateKeyringEntry: copy the tokens unless the new target has some ...
migrateKeyringEntry(p) ==
  /\ step[p] = "creds"
  /\ IF creds # {"old"} THEN Goto(p, "keys") /\ UNCHANGED <<creds, bounds, failed>>
     ELSE \/ creds' = creds \cup {"new"} /\ Goto(p, "creddelete") /\ UNCHANGED <<bounds, failed>>
          \/ Fault /\ failed' = TRUE /\ Goto(p, "keys") /\ UNCHANGED creds
  /\ UNCHANGED <<merge, gate, trees, marker, registry, had, written, ungated>>

\* ... and then delete the old entry.
DeleteOldEntry(p) ==
  /\ step[p] = "creddelete"
  /\ Goto(p, "keys")
  /\ \/ creds' = creds \ {"old"} /\ UNCHANGED <<bounds, failed>>
     \/ Fault /\ failed' = TRUE /\ UNCHANGED creds
  /\ UNCHANGED <<merge, gate, trees, marker, registry, had, written, ungated>>

\* The registration of the old program goes likewise; nothing depends on it.
removeLegacyHealMirror(p) ==
  /\ step[p] = "keys"
  /\ Goto(p, "marker")
  /\ \/ oldMirror' = FALSE /\ UNCHANGED <<bounds, failed>>
     \/ oldMirror /\ Fault /\ failed' = TRUE /\ UNCHANGED oldMirror
  /\ UNCHANGED <<merge, gate, trees, marker, creds, pointer, machine, mirror, stolen, cut, had, written, ungated>>

\* Written last, whatever failed before.
WriteMarker(p) ==
  /\ step[p] = "marker"
  /\ Goto(p, "watch")
  /\ newDir' = newDir \cup {"appdata"}
  /\ \/ marker' = TRUE /\ UNCHANGED bounds
     \/ Fault /\ UNCHANGED marker
  /\ UNCHANGED <<merge, gate, old, new, creds, registry, history>>

-----------------------------------------------------------------------------
(* The default mail client.                                                *)

\* The watcher is up: then, and every hour, the guard looks.
Effective == IF pointer # "none" THEN pointer ELSE machine

mailClientNeedsRepair == Effective # "ours" \/ (pointer = "ours" /\ mirror # "intact")

Repairing(p) == step[p] \in {"mirror", "values", "pointer"}

\* Mutant: a pointer to us is enough.
ensurePointerOnly(p) ==
  /\ step[p] \in {"watch", "up"}
  /\ Goto(p, IF Effective # "ours" THEN "mirror" ELSE "up")
  /\ stolen' = \E q \in Procs \ {p} : Repairing(q)
  /\ UNCHANGED <<merge, gate, trees, marker, creds, pointer, machine, oldMirror, mirror, cut,
                 bounds, history>>

ensureDefaultMailClient(p) ==
  /\ step[p] \in {"watch", "up"}
  /\ Goto(p, IF mailClientNeedsRepair THEN "mirror" ELSE "up")
  /\ stolen' = \E q \in Procs \ {p} : Repairing(q)
  /\ UNCHANGED <<merge, gate, trees, marker, creds, pointer, machine, oldMirror, mirror, cut,
                 bounds, history>>

\* A write that fails ends the repair until the next hour.
RepairFails(p) ==
  /\ Repairing(p)
  /\ Fault
  /\ Goto(p, "up")
  /\ stolen' = TRUE
  /\ UNCHANGED <<merge, gate, trees, marker, creds, pointer, machine, oldMirror, mirror, cut,
                 history>>

CreateMirror(p) ==
  /\ step[p] = "mirror"
  /\ Goto(p, "values")
  /\ mirror' = IF mirror = "absent" THEN "half" ELSE mirror
  /\ UNCHANGED <<merge, gate, trees, marker, creds, pointer, machine, oldMirror, stolen, cut,
                 bounds, history>>

\* Mutant: the pointer is set before the values that it leads to.
PointEarly(p) ==
  /\ step[p] = "values"
  /\ Goto(p, "pointer")
  /\ pointer' = "ours"
  /\ UNCHANGED <<merge, gate, trees, marker, creds, machine, oldMirror, mirror, stolen, cut,
                 bounds, history>>

\* Display name, DLLPath and the open command.
SetValues(p) ==
  /\ step[p] = "values"
  /\ Goto(p, "pointer")
  /\ mirror' = "intact"
  /\ UNCHANGED <<merge, gate, trees, marker, creds, pointer, machine, oldMirror, stolen, cut,
                 bounds, history>>

SetPointer(p) ==
  /\ step[p] = "pointer"
  /\ Goto(p, "up")
  /\ pointer' = "ours"
  /\ UNCHANGED <<merge, gate, trees, marker, creds, machine, oldMirror, mirror, stolen, cut,
                 bounds, history>>

\* The app saves its settings, as on any day.
SaveSettings(p) ==
  /\ step[p] = "up"
  /\ new' = [new EXCEPT !["settings"] = "fresh"]
  /\ written' = written \cup {"settings"}
  /\ newDir' = newDir \cup {"appdata"}
  /\ UNCHANGED <<step, merge, gate, old, marker, creds, registry, bounds, had, failed, ungated>>

-----------------------------------------------------------------------------
(* The rest of the world.                                                  *)

\* The process ends: the mutex is free and its event is gone.
Crash(p) ==
  /\ step[p] # "off"
  /\ crashes < MaxCrashes /\ crashes' = crashes + 1
  /\ Goto(p, "off")
  /\ todo' = [todo EXCEPT ![p] = {}] /\ moving' = [moving EXCEPT ![p] = {}]
  /\ IF mutex = p THEN mutex' = NoProc /\ event' = "none"
                  ELSE UNCHANGED gate
  /\ stolen' = (stolen \/ Repairing(p))
  /\ UNCHANGED <<trees, marker, creds, pointer, machine, oldMirror, mirror, cut, faults, thefts, history>>

\* Another client claims the default, for the user or the machine, or a clean-up
\* tool removes keys.
Theft ==
  /\ thefts < MaxThefts /\ thefts' = thefts + 1
  /\ stolen' = TRUE
  /\ \/ pointer' = "other" /\ UNCHANGED <<machine, mirror, cut>>
     \/ pointer' = "none" /\ machine' = "other" /\ UNCHANGED <<mirror, cut>>
     \/ mirror' = "absent" /\ cut' = TRUE /\ UNCHANGED <<pointer, machine>>
  /\ UNCHANGED <<step, merge, gate, trees, marker, creds, oldMirror, faults, crashes, history>>

Next ==
  \/ Theft
  \/ \E p \in Procs :
       \/ acquireSingleInstance(p) \/ CreateEvent(p) \/ waitForRaiseSignal(p)
       \/ AlreadyMigrated(p) \/ migrateDir(p, "appdata") \/ migrateDir(p, "local")
       \/ mergeTree(p) \/ Rename(p) \/ MergeEnds(p) \/ migrateKeyringEntry(p) \/ DeleteOldEntry(p)
       \/ removeLegacyHealMirror(p) \/ WriteMarker(p)
       \/ ensureDefaultMailClient(p) \/ RepairFails(p) \/ CreateMirror(p) \/ SetValues(p)
       \/ SetPointer(p) \/ SaveSettings(p) \/ Crash(p)

Spec == Init /\ [][Next]_vars

-----------------------------------------------------------------------------

\* Whatever fails, dies or runs twice, the earlier install's files are under
\* the old name or under the new one, one credential target has the tokens, and
\* an older file replaces none that 4.0 wrote - but for a start beside another
\* one, past a mutex that could not be created.
LegacyStateKept ==
  /\ \A f \in had.files : old[f] # "none" \/ new[f] # "none"
  /\ had.creds # {} => creds # {}
  /\ ~ungated => \A f \in written : new[f] = "fresh"

\* "a crash mid-pass simply reruns" (migrate.go): the marker says that all is
\* done, unless a step failed - and a failed step is never tried again: no file
\* is left behind that 4.0 has not written anew, no tokens, no client key.
MarkerMeansDone ==
  marker /\ ~failed => /\ \A f \in Files : old[f] # "none" => new[f] = "fresh"
                       /\ creds # {"old"}
                       /\ ~oldMirror

\* "A pointer without a resolvable subkey would break stubs" (defaultmail.go):
\* the user's pointer never leads to a half-written key of ours, and between
\* two checks the default is ours, unless it was taken or a repair failed.
DefaultHealed ==
  /\ pointer = "ours" => mirror = "intact" \/ cut
  /\ (~stolen /\ \A p \in Procs : ~Repairing(p)) =>
       Effective = "ours" /\ (pointer = "ours" => mirror = "intact")
=============================================================================

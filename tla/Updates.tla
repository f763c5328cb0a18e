------------------------------ MODULE Updates -------------------------------
(***************************************************************************)
(* The notify-only update checks (src/src/app/updates.go, the update part  *)
(* of app.go, tray_update.go, update_notifications.go) beside the setters  *)
(* of Settings.  UpdateState is an atomic pointer: every writer loads it,  *)
(* merges, and stores a new record; settings, file and pointer are three   *)
(* copies of the opt-out flag and of the time of the last check.           *)
(***************************************************************************)
EXTENDS Settings, Versions

CONSTANTS
  Background,      (* the goroutines of startup check and scheduler        *)
  Current,         (* main.Version                                         *)
  Timeline,        (* the releases GitHub will publish, oldest first       *)
  Window,          (* updateCheckWindow, in ticks of the clock             *)
  MaxClock, MaxManual, MaxRestarts

ASSUME UpdatesAssumption ==
  /\ Background \subseteq Threads
  /\ Current \in Version /\ Timeline \in Seq(Release)
  /\ {Window, MaxClock, MaxManual, MaxRestarts} \subseteq Nat

VARIABLES
  clock,     (* the time; 0 stands for "never"                             *)
  github,    (* the published releases, as ListReleases returns them       *)
  state,     (* App.updateState                                            *)
  tracker,   (* updateNotificationTracker: the version announced last      *)
  result,    (* per goroutine: what the check found                        *)
  failed,    (* per goroutine: the fetch error                             *)
  prior,     (* per goroutine: the snapshot it loaded                      *)
  writer,    (* the goroutine that holds updateWriteMu                     *)
  manuals, restarts,
  lastGood,  (* history: what the last successful check reported           *)
  announced, (* history: the versions announced since the start            *)
  repeated,  (* history: a version was announced again                     *)
  raced,     (* history: a store replaced a snapshot it had not loaded     *)
  crossed,   (* history: a check began while another one was under way     *)
  bgAt,      (* history: when the last background fetch began              *)
  excess     (* history: background fetches less than Window after another *)

updateVars == <<state, tracker, result, failed, prior, writer>>
worldVars  == <<clock, github, manuals, restarts>>
updHistory == <<lastGood, announced, repeated, raced, crossed, bgAt, excess>>
vars == <<settingsVars, phase, pc, updateVars, worldVars, updHistory>>

Blank == [latest |-> NoRelease, available |-> FALSE, last |-> 0, enabled |-> FALSE]

Init ==
  /\ SettingsInit
  /\ phase = "starting"
  /\ pc = [t \in Threads |-> "idle"]
  /\ clock = 1 /\ github = <<>> /\ manuals = 0 /\ restarts = 0
  /\ state = Blank
  /\ tracker = NoRelease
  /\ result = [t \in Threads |-> Blank]
  /\ failed = [t \in Threads |-> FALSE]
  /\ prior = [t \in Threads |-> Blank]
  /\ writer = {}
  /\ lastGood = NoRelease /\ bgAt = 0 /\ excess = 0
  /\ raced = FALSE /\ crossed = FALSE /\ repeated = FALSE
  /\ announced = {}

\* The goroutine returns: what it held locally is gone.
Done(t) ==
  /\ Goto(t, "idle")
  /\ result' = [result EXCEPT ![t] = Blank]
  /\ failed' = [failed EXCEPT ![t] = FALSE]
  /\ prior' = [prior EXCEPT ![t] = Blank]

-----------------------------------------------------------------------------
(* The world: time passes, releases appear.                                *)

ClockTick ==
  /\ clock < MaxClock
  /\ clock' = clock + 1
  /\ UNCHANGED <<settingsVars, phase, pc, updateVars, github, manuals, restarts,
                 updHistory>>

Publish ==
  /\ Len(github) < Len(Timeline)
  /\ github' = <<Timeline[Len(github) + 1]>> \o github
  /\ UNCHANGED <<settingsVars, phase, pc, updateVars, clock, manuals, restarts,
                 updHistory>>

-----------------------------------------------------------------------------
(* Startup.                                                                *)

ReadSettings ==
  /\ LoadSettings
  /\ UNCHANGED <<updateVars, worldVars, updHistory>>

\* The service, the first UpdateState and the tracker; then the goroutines.
StartUpdates ==
  /\ phase = "loaded"
  /\ phase' = "running"
  /\ state' = [Blank EXCEPT !.enabled = settings.on["checks"], !.last = settings.last]
  /\ UNCHANGED <<settingsVars, pc, tracker, result, failed, prior, writer, worldVars,
                 updHistory>>

Restart ==
  /\ restarts < MaxRestarts
  /\ restarts' = restarts + 1
  /\ SettingsRestart
  /\ state' = Blank
  /\ tracker' = NoRelease
  /\ result' = [t \in Threads |-> Blank]
  /\ failed' = [t \in Threads |-> FALSE]
  /\ prior' = [t \in Threads |-> Blank]
  /\ writer' = {}
  /\ lastGood' = NoRelease /\ announced' = {}
  /\ UNCHANGED <<clock, github, manuals, bgAt, excess, raced, crossed, repeated>>

-----------------------------------------------------------------------------
(* A check: gate, fetch, merge with the snapshot, store, persist, observe.  *)

Checking(t) ==
  \/ pc[t] \in {"fetch", "store", "persist", "observe"}
  \/ At(t, "save") /\ field[t] = "last"

cadenceExpired(last) ==
  \/ last = 0
  \/ clock - last >= Window

BeginFetch(t) ==
  /\ result' = [result EXCEPT ![t].last = clock]
  /\ crossed' = (crossed \/ \E u \in Threads : Checking(u))
  /\ Goto(t, "fetch")

\* startup check or scheduler tick: first the opt-out flag is read ...
Tick(t) ==
  /\ At(t, "idle") /\ phase = "running"
  /\ result' = [result EXCEPT ![t].enabled = settings.on["checks"]]
  /\ Goto(t, "gate")
  /\ UNCHANGED <<settingsVars, phase, state, tracker, failed, prior, writer, worldVars,
                 updHistory>>

\* ... then the time of the last check.
MaybeCheck(t) ==
  /\ At(t, "gate")
  /\ result[t].enabled /\ cadenceExpired(settings.last)
  /\ BeginFetch(t)
  /\ excess' = IF bgAt # 0 /\ clock - bgAt < Window THEN excess + 1 ELSE excess
  /\ bgAt' = clock
  /\ UNCHANGED <<settingsVars, phase, state, tracker, failed, prior, writer, worldVars,
                 lastGood, raced, announced, repeated>>

\* Mutant: the flag is not mirrored when no fetch was due.
SkipCheckSilently(t) ==
  /\ At(t, "gate")
  /\ ~(result[t].enabled /\ cadenceExpired(settings.last))
  /\ Done(t)
  /\ UNCHANGED <<settingsVars, phase, state, tracker, writer, worldVars, updHistory>>

SkipCheck(t) ==
  /\ At(t, "gate")
  /\ ~(result[t].enabled /\ cadenceExpired(settings.last))
  /\ Goto(t, "sync")
  /\ UNCHANGED <<settingsVars, phase, updateVars, worldVars, updHistory>>

\* "Check for updates now" of the tray menu.
CheckForUpdatesNow(t) ==
  /\ At(t, "idle") /\ phase = "running"
  /\ manuals < MaxManual
  /\ manuals' = manuals + 1
  /\ BeginFetch(t)
  /\ UNCHANGED <<settingsVars, phase, state, tracker, failed, prior, writer, clock,
                 github, restarts, lastGood, raced, bgAt, excess, announced, repeated>>

\* FetchLatestRelease answers or fails, a manual check reads the flag, and the
\* snapshot to merge with is loaded.
CheckNow(t, ok) ==
  LET found == IF ok THEN FetchLatestRelease(github) ELSE NoRelease
  IN  /\ At(t, "fetch")
      /\ result' = [result EXCEPT
           ![t].latest = found,
           ![t].available = isNewerVersion(Current, found),
           ![t].enabled = IF t \in Background THEN @ ELSE settings.on["checks"]]
      /\ failed' = [failed EXCEPT ![t] = ~ok]
      /\ prior' = [prior EXCEPT ![t] = state]
      /\ Goto(t, "store")
      /\ UNCHANGED <<settingsVars, phase, state, tracker, writer, worldVars, updHistory>>

\* Mutant: a failed check stores its empty result.
mergedNothing(t) == result[t]

\* A failed check keeps the version the user saw before.
merged(t) ==
  IF failed[t]
  THEN [result[t] EXCEPT !.latest = prior[t].latest, !.available = prior[t].available]
  ELSE result[t]

StoreMerged(t) ==
  /\ At(t, "store")
  /\ state' = merged(t)
  /\ result' = [result EXCEPT ![t] = merged(t)]
  /\ raced' = (raced \/ (failed[t] /\ state # prior[t]))
  /\ lastGood' = IF failed[t] THEN lastGood ELSE result[t].latest
  /\ Goto(t, "persist")
  /\ UNCHANGED <<settingsVars, phase, tracker, failed, prior, writer, worldVars, crossed,
                 bgAt, excess, announced, repeated>>

\* Mutant: without updateWriteMu.
persistUnguarded(t) ==
  /\ At(t, "persist")
  /\ writer' = writer \cup {t}
  /\ CopyUnderLock(t, "last", [settings EXCEPT !.last = result[t].last])
  /\ UNCHANGED <<phase, file, changes, chosen, state, tracker, result, failed, prior,
                 worldVars, updHistory>>

\* Mutant: the record written holds nothing but the time.
persistOnlyTheTime(t) ==
  /\ At(t, "persist")
  /\ writer = {}
  /\ writer' = {t}
  /\ CopyUnderLock(t, "last", [NewAppSettings EXCEPT !.last = result[t].last])
  /\ UNCHANGED <<phase, file, changes, chosen, state, tracker, result, failed, prior,
                 worldVars, updHistory>>

\* Mutant: the time of a failed check is not kept.
persistSuccessOnly(t) ==
  /\ At(t, "persist")
  /\ writer = {}
  /\ writer' = {t}
  /\ CopyUnderLock(t, "last",
       IF failed[t] THEN settings ELSE [settings EXCEPT !.last = result[t].last])
  /\ UNCHANGED <<phase, file, changes, chosen, state, tracker, result, failed, prior,
                 worldVars, updHistory>>

persistLastUpdateCheck(t) ==
  /\ At(t, "persist")
  /\ writer = {}
  /\ writer' = {t}
  /\ CopyUnderLock(t, "last", [settings EXCEPT !.last = result[t].last])
  /\ UNCHANGED <<phase, file, changes, chosen, state, tracker, result, failed, prior,
                 worldVars, updHistory>>

\* Observe announces a version when it was not available before or has changed.
Observe(t) ==
  LET seen == IF result[t].available THEN result[t].latest ELSE NoRelease
      fire == seen # NoRelease /\ seen # tracker
  IN  /\ At(t, "observe")
      /\ tracker' = seen
      /\ announced' = IF fire THEN announced \cup {seen} ELSE announced
      /\ repeated' = (repeated \/ (fire /\ seen \in announced))
      /\ Done(t)
      /\ UNCHANGED <<settingsVars, phase, state, writer, worldVars,
                     lastGood, raced, crossed, bgAt, excess>>

-----------------------------------------------------------------------------
(* The setters, and the mirror of the opt-out flag in UpdateState.         *)

UserChanges(t) ==
  /\ \/ SetMode(t) \/ SetOpenDraftInBrowser(t) \/ SetDraftBrowserDedicated(t)
     \/ SetActiveAccount(t) \/ SetUpdateChecksEnabled(t)
  /\ UNCHANGED <<phase, updateVars, worldVars, updHistory>>

\* What saveSettings returns to: the observer, the mirror, or the caller.
AfterSave(t, saved) ==
  CASE field[t] = "last"             -> "observe"
    [] field[t] = "checks" /\ saved  -> "sync"
    [] OTHER                         -> "idle"

SaveSettings(t) ==
  /\ At(t, "save")
  /\ \/ Replace(t) /\ Goto(t, AfterSave(t, TRUE))
     \/ Refuse(t)  /\ Goto(t, AfterSave(t, FALSE))
  /\ writer' = writer \ {t}
  /\ result' = IF pc'[t] = "sync"
               THEN [result EXCEPT ![t].enabled = copy[t].on["checks"]]
               ELSE result
  /\ UNCHANGED <<phase, state, tracker, failed, prior, worldVars, updHistory>>

\* syncUpdateEnabledIntoState loads the snapshot, changes the flag and stores.
SyncLoad(t) ==
  /\ At(t, "sync")
  /\ IF state.enabled = result[t].enabled
     THEN Done(t)
     ELSE /\ prior' = [prior EXCEPT ![t] = state]
          /\ Goto(t, "syncstore")
          /\ UNCHANGED <<result, failed>>
  /\ UNCHANGED <<settingsVars, phase, state, tracker, writer, worldVars, updHistory>>

SyncStore(t) ==
  /\ At(t, "syncstore")
  /\ state' = [prior[t] EXCEPT !.enabled = result[t].enabled]
  /\ raced' = (raced \/ state # prior[t])
  /\ Done(t)
  /\ UNCHANGED <<settingsVars, phase, tracker, writer, worldVars, lastGood, crossed,
                 bgAt, excess, announced, repeated>>

\* What a goroutine that runs does next.
Proceed(t) ==
  \/ MaybeCheck(t) \/ SkipCheck(t)
  \/ \E ok \in BOOLEAN : CheckNow(t, ok)
  \/ StoreMerged(t) \/ persistLastUpdateCheck(t) \/ Observe(t)
  \/ SaveSettings(t) \/ SyncLoad(t) \/ SyncStore(t)

Next ==
  \/ ClockTick \/ Publish \/ ReadSettings \/ StartUpdates \/ Restart
  \/ \E t \in Background : Tick(t)
  \/ \E t \in Threads \ Background : UserChanges(t) \/ CheckForUpdatesNow(t)
  \/ \E t \in Threads : Proceed(t)

Spec == Init /\ [][Next]_vars

\* The scheduler's ticker keeps firing and a goroutine that runs goes on running;
\* the user, restarts and time owe nothing.  The code sets no time limit on a
\* request to GitHub: that it ends, with an answer or an error, is assumed.
Fairness ==
  /\ WF_vars(ReadSettings \/ StartUpdates)
  /\ \A t \in Background : WF_vars(Tick(t) \/ Proceed(t))
  /\ \A t \in Threads \ Background : WF_vars(Proceed(t))

FairSpec == Spec /\ Fairness

-----------------------------------------------------------------------------

Versions == {Timeline[i].version : i \in DOMAIN Timeline} \cup {NoRelease}
UpdateStates == [latest: Versions, available: BOOLEAN, last: 0..MaxClock, enabled: BOOLEAN]

\* Every variable has its type, updateWriteMu has at most one holder, and that
\* one is in saveSettings for the time of its check.
TypeOK ==
  /\ SettingsTypeOK
  /\ pc \in [Threads -> {"idle", "save", "gate", "fetch", "store", "persist",
                         "observe", "sync", "syncstore"}]
  /\ settings.last \in 0..MaxClock
  /\ clock \in 1..MaxClock
  /\ Len(github) <= Len(Timeline)
  /\ state \in UpdateStates
  /\ tracker \in Versions
  /\ {result, prior} \subseteq [Threads -> UpdateStates]
  /\ failed \in [Threads -> BOOLEAN]
  /\ writer = {t \in Threads : At(t, "save") /\ field[t] = "last"}
  /\ Cardinality(writer) <= 1

\* The release offered is the newest stable one in whatever list GitHub returns,
\* and an update is announced only when it outranks the running version
\* (updates.go, "the highest-versioned one"; "a tagged release of the same main
\* version is newer, but an older main version is NOT newer").
NewestOffered ==
  /\ NewestOfAnyList
  /\ state.available => /\ state.latest # NoRelease
                        /\ Weight(Current) < Weight(state.latest)

\* "transient outages must not wipe a previously-detected update" (app.go): the
\* tray shows what the last successful check found, and no version is announced
\* a second time, unless two writers of the snapshot raced (for repetitions:
\* or two checks were under way at a time).
DetectedStaysShown ==
  raced \/ /\ state.latest = lastGood
           /\ state.available = isNewerVersion(Current, lastGood)
           /\ crossed \/ ~repeated

\* "users are not stuck in a hot-loop of failing re-fetches" (updates.go): the
\* background fetches within Window of the one before are at most one for each
\* manual check, whose older time may overwrite a newer one, and one for each
\* restart, before which settings.json may not have been written.
NoHotLoop == excess <= manuals + restarts

\* UpdateState.Enabled may take a stale value from a check that began before
\* the user's switch, but it does not stay so: the scheduler corrects it.
MirrorCatchesUp == []<>(state.enabled = settings.on["checks"])
=============================================================================

------------------------------ MODULE Desktop -------------------------------
(***************************************************************************)
(* What the user sees: tray icon, tooltip and check marks (tray.go), which *)
(* one goroutine repaints on a one-slot signal, and the list in the window *)
(* (queue.ts, App.svelte), which asks for the queue on every queue-update. *)
(* Everything they show belongs to other goroutines, changes at any time   *)
(* and must be shown in the end although signals coalesce.                 *)
(***************************************************************************)
EXTENDS Naturals, FiniteSets

CONSTANTS
  Emails,
  Changers,     (* goroutines of bindings, sign-ins and update checks      *)
  MaxChanges    (* bound on changes after startup                          *)

ASSUME DesktopAssumption == MaxChanges \in Nat

VARIABLES
  start,      (* startup: next it loads settings, asks for the accounts,   *)
              (* sets the dispatcher's hook, starts the update service     *)
  now,        (* the state of App that tray and window show                *)
  saved,      (* the settings that startup will load                       *)
  owes,       (* per changer: what is left of its operation                *)
  refresh,    (* App.trayRefreshCh holds a signal                          *)
  tray,       (* the tray's goroutine: starting, in its loop, repainting   *)
  shown,      (* icon and tooltip                                          *)
  marks,      (* the check marks of the menu                               *)
  pending, dispatcher,   (* the bridge, as in Notices                      *)
  mount,      (* the window: before the first fetch, before subscribing    *)
  asked,      (* calls of GetQueue under way                               *)
  answers,    (* their replies on the way to the window                    *)
  view,       (* the list in the window                                    *)
  changes,
  quiet,      (* history: a change since the last repaint sends no signal  *)
  excused     (* history: the window missed an event, or its calls failed  *)
              (* or overlapped                                             *)

trayVars   == <<refresh, tray, shown, marks, quiet>>
bridgeVars == <<pending, dispatcher>>
pageVars   == <<mount, asked, answers, view, excused>>
vars == <<start, now, saved, owes, trayVars, bridgeVars, pageVars, changes>>

Hooked == start \in {"updates", "up"}

\* Priority of icons: error, queue, update, idle; of segments: paused, signed
\* out, mode.
computeTrayVisual(s) ==
  IF s.error THEN [icon |-> "error", segment |-> "error", count |-> 0, update |-> FALSE]
  ELSE [icon |-> IF s.rows # {} /\ s.signedIn /\ ~s.paused THEN "queue"
                 ELSE IF s.update THEN "update" ELSE "idle",
        segment |-> IF s.paused THEN "paused"
                    ELSE IF ~s.signedIn THEN "signed out"
                    ELSE IF s.auto THEN "auto-draft" ELSE "manual",
        count |-> Cardinality(s.rows),
        update |-> s.update]

Blank == [auto |-> FALSE, open |-> FALSE, checks |-> FALSE, enabled |-> FALSE,
          paused |-> FALSE, signedIn |-> FALSE, error |-> FALSE, update |-> FALSE,
          rows |-> {}]
Nothing == [step |-> "nothing", checks |-> FALSE]

Init ==
  /\ start = "load"
  /\ now = Blank
  /\ saved \in [auto: BOOLEAN, open: {TRUE}, checks: BOOLEAN]
  /\ owes = [c \in Changers |-> Nothing]
  /\ refresh = FALSE /\ tray = "starting" /\ quiet = FALSE
  /\ shown = computeTrayVisual(Blank)
  /\ marks = [open |-> FALSE, checks |-> FALSE]
  /\ pending = FALSE /\ dispatcher = "idle"
  /\ mount = "fetch" /\ asked = 0 /\ answers = {} /\ view = {} /\ excused = FALSE
  /\ changes = 0

signalTrayRefresh == refresh' = TRUE

-----------------------------------------------------------------------------
(* Startup.                                                                *)

\* The settings, without a signal: every path of bootstrapAuth signals later.
LoadSettings ==
  /\ start = "load"
  /\ start' = "auth"
  /\ now' = [now EXCEPT !.auto = saved.auto, !.open = saved.open, !.checks = saved.checks]
  /\ UNCHANGED <<saved, owes, trayVars, bridgeVars, pageVars, changes>>

\* bootstrapAuth: signed in, with a signal once the identity is fetched, or
\* signed out with an error, which signals.
bootstrapAuth(c) ==
  /\ start = "auth" /\ owes[c] = Nothing
  /\ start' = "hook"
  /\ \E in \in BOOLEAN : now' = [now EXCEPT !.signedIn = in, !.error = ~in]
  /\ owes' = [owes EXCEPT ![c].step = "signal"]
  /\ UNCHANGED <<saved, trayVars, bridgeVars, pageVars, changes>>

SetAfterDispatch ==
  /\ start = "hook"
  /\ start' = "updates"
  /\ UNCHANGED <<now, saved, owes, trayVars, bridgeVars, pageVars, changes>>

\* The first UpdateState is stored without a signal.
StartUpdates ==
  /\ start = "updates"
  /\ start' = "up"
  /\ now' = [now EXCEPT !.enabled = now.checks]
  /\ quiet' = TRUE
  /\ UNCHANGED <<saved, owes, refresh, tray, shown, marks, bridgeVars, pageVars, changes>>

-----------------------------------------------------------------------------
(* Changes, each followed by its signal in a step of its own.              *)

Change(c, s, step) ==
  /\ owes[c] = Nothing
  /\ changes < MaxChanges /\ changes' = changes + 1
  /\ now' = s
  /\ owes' = [owes EXCEPT ![c] = [step |-> step, checks |-> s.checks]]
  /\ UNCHANGED <<start, saved, trayVars, bridgeVars, pageVars>>

SetPaused(c)              == Change(c, [now EXCEPT !.paused = ~@], "signal")
setMode(c)                == Change(c, [now EXCEPT !.auto = ~@], "save")
setOpenDraftInBrowser(c)  == Change(c, [now EXCEPT !.open = ~@], "save")
setUpdateChecksEnabled(c) == Change(c, [now EXCEPT !.checks = ~@], "savechecks")
SignIn(c)     == Change(c, [now EXCEPT !.signedIn = TRUE, !.error = FALSE], "signal")
SignOut(c)    == Change(c, [now EXCEPT !.signedIn = FALSE, !.error = TRUE], "signal")
applyUpdateCheckResult(c) == Change(c, [now EXCEPT !.update = ~@], "signal")

\* The file is written; the opt-out flag is also mirrored.
Save(c) ==
  /\ owes[c].step \in {"save", "savechecks"}
  /\ now' = IF owes[c].step = "save" THEN now ELSE [now EXCEPT !.enabled = owes[c].checks]
  /\ owes' = [owes EXCEPT ![c].step = "signal"]
  /\ UNCHANGED <<start, saved, trayVars, bridgeVars, pageVars, changes>>

\* It is not: the new value stays in memory, and nobody is told.
SaveFails(c) ==
  /\ owes[c].step \in {"save", "savechecks"}
  /\ owes' = [owes EXCEPT ![c] = Nothing]
  /\ quiet' = TRUE
  /\ UNCHANGED <<start, now, saved, refresh, tray, shown, marks, bridgeVars, pageVars,
                 changes>>

Signal(c) ==
  /\ owes[c].step = "signal"
  /\ signalTrayRefresh
  /\ owes' = [owes EXCEPT ![c] = Nothing]
  /\ UNCHANGED <<start, now, saved, tray, shown, marks, quiet, bridgeVars, pageVars, changes>>

\* A scheduler tick without a fetch mirrors the flag and does not signal.
syncUpdateEnabledIntoState ==
  /\ start = "up" /\ now.enabled # now.checks
  /\ now' = [now EXCEPT !.enabled = now.checks]
  /\ quiet' = TRUE
  /\ UNCHANGED <<start, saved, owes, refresh, tray, shown, marks, bridgeVars, pageVars,
                 changes>>

\* A row arrives or leaves.
QueueChanges(e) ==
  /\ changes < MaxChanges /\ changes' = changes + 1
  /\ now' = [now EXCEPT !.rows = IF e \in @ THEN @ \ {e} ELSE @ \cup {e}]
  /\ pending' = TRUE
  /\ UNCHANGED <<start, saved, owes, trayVars, dispatcher, pageVars>>

\* The dispatcher takes the signal and emits queue-update: a window that has
\* subscribed asks for the queue.
dispatch ==
  /\ dispatcher = "idle" /\ pending
  /\ pending' = FALSE
  /\ dispatcher' = "hook"
  /\ asked' = IF mount = "mounted" THEN asked + 1 ELSE asked
  /\ excused' = (excused \/ mount = "subscribe" \/ asked > 0 \/ answers # {})
  /\ UNCHANGED <<start, now, saved, owes, trayVars, mount, answers, view, changes>>

\* Mutant: what was signalled meanwhile counts as done.
AfterDispatchDrains ==
  /\ dispatcher = "hook"
  /\ dispatcher' = "idle"
  /\ pending' = FALSE
  /\ signalTrayRefresh
  /\ UNCHANGED <<start, now, saved, owes, tray, shown, marks, quiet, pageVars, changes>>

\* The hook signals the tray; before it is set nobody does.
AfterDispatch ==
  /\ dispatcher = "hook"
  /\ dispatcher' = "idle"
  /\ IF Hooked THEN signalTrayRefresh /\ UNCHANGED quiet ELSE quiet' = TRUE /\ UNCHANGED refresh
  /\ UNCHANGED <<start, now, saved, owes, tray, shown, marks, pending, pageVars, changes>>

-----------------------------------------------------------------------------
(* The tray's goroutine.                                                   *)

\* onTrayReady reads the settings, loaded or not.
onTrayReady ==
  /\ tray = "starting"
  /\ tray' = "loop"
  /\ marks' = [open |-> now.open, checks |-> now.checks]
  /\ UNCHANGED <<start, now, saved, owes, refresh, shown, quiet, bridgeVars, pageVars, changes>>

TakeRefresh ==
  /\ tray = "loop" /\ refresh
  /\ refresh' = FALSE
  /\ tray' = "paint"
  /\ quiet' = FALSE
  /\ UNCHANGED <<start, now, saved, owes, shown, marks, bridgeVars, pageVars, changes>>

refreshTrayVisual ==
  /\ tray = "paint"
  /\ shown' = computeTrayVisual(now)
  /\ tray' = "marks"
  /\ UNCHANGED <<start, now, saved, owes, refresh, marks, quiet, bridgeVars, pageVars, changes>>

\* Mutant: signals sent during the repaint are dropped.
refreshAndDrain ==
  /\ tray = "marks"
  /\ marks' = [open |-> now.open, checks |-> now.enabled]
  /\ tray' = "loop" /\ refresh' = FALSE
  /\ UNCHANGED <<start, now, saved, owes, shown, quiet, bridgeVars, pageVars, changes>>

refreshMenu ==
  /\ tray = "marks"
  /\ marks' = [open |-> now.open, checks |-> now.enabled]
  /\ tray' = "loop"
  /\ UNCHANGED <<start, now, saved, owes, refresh, shown, quiet, bridgeVars, pageVars, changes>>

Click ==
  /\ tray = "loop"
  /\ changes < MaxChanges /\ changes' = changes + 1
  /\ UNCHANGED <<start, saved, owes, tray, shown, bridgeVars, pageVars>>

ClickPause ==
  /\ Click
  /\ now' = [now EXCEPT !.paused = ~@]
  /\ signalTrayRefresh
  /\ UNCHANGED <<marks, quiet>>

\* A toggle stores the opposite of its mark, not of the setting.
ClickOpenDraft ==
  /\ Click
  /\ now' = [now EXCEPT !.open = ~marks.open]
  /\ \/ signalTrayRefresh /\ marks' = [marks EXCEPT !.open = ~@] /\ UNCHANGED quiet
     \/ quiet' = TRUE /\ UNCHANGED <<refresh, marks>>

ClickToggleUpdates ==
  /\ Click
  /\ \/ /\ now' = [now EXCEPT !.checks = ~marks.checks, !.enabled = ~marks.checks]
        /\ signalTrayRefresh
        /\ marks' = [marks EXCEPT !.checks = ~@]
        /\ UNCHANGED quiet
     \/ /\ now' = [now EXCEPT !.checks = ~marks.checks]
        /\ quiet' = TRUE
        /\ UNCHANGED <<refresh, marks>>

-----------------------------------------------------------------------------
(* The window.                                                             *)

\* onMount: fetch the queue beside five other calls, show it, then subscribe.
FetchInitial ==
  /\ mount = "fetch"
  /\ view' = now.rows
  /\ mount' = "subscribe"
  /\ UNCHANGED <<start, now, saved, owes, trayVars, bridgeVars, asked, answers, excused,
                 changes>>

subscribeQueue ==
  /\ mount = "subscribe"
  /\ mount' = "mounted"
  \* An event that is already out reaches nobody.
  /\ excused' = (excused \/ view # now.rows)
  /\ UNCHANGED <<start, now, saved, owes, trayVars, bridgeVars, asked, answers, view, changes>>

\* GetQueue reads the snapshot; every call has a goroutine of its own.
GetQueue ==
  /\ asked > 0
  /\ asked' = asked - 1
  /\ answers' = answers \cup {now.rows}
  /\ UNCHANGED <<start, now, saved, owes, trayVars, bridgeVars, mount, view, excused, changes>>

OnChange ==
  /\ \E rows \in answers : view' = rows /\ answers' = answers \ {rows}
  /\ UNCHANGED <<start, now, saved, owes, trayVars, bridgeVars, mount, asked, excused, changes>>

\* The call fails: an error is shown, the list stays.
FetchFails ==
  /\ asked > 0
  /\ asked' = asked - 1
  /\ excused' = TRUE
  /\ UNCHANGED <<start, now, saved, owes, trayVars, bridgeVars, mount, answers, view, changes>>

-----------------------------------------------------------------------------

Next ==
  \/ LoadSettings \/ SetAfterDispatch \/ StartUpdates
  \/ syncUpdateEnabledIntoState \/ dispatch \/ AfterDispatch
  \/ onTrayReady \/ TakeRefresh \/ refreshTrayVisual \/ refreshMenu
  \/ ClickPause \/ ClickOpenDraft \/ ClickToggleUpdates
  \/ FetchInitial \/ subscribeQueue \/ GetQueue \/ OnChange \/ FetchFails
  \/ \E e \in Emails : QueueChanges(e)
  \/ \E c \in Changers :
       \/ bootstrapAuth(c) \/ SetPaused(c) \/ setMode(c) \/ setOpenDraftInBrowser(c)
       \/ setUpdateChecksEnabled(c) \/ SignIn(c) \/ SignOut(c)
       \/ applyUpdateCheckResult(c) \/ Save(c) \/ SaveFails(c) \/ Signal(c)

Spec == Init /\ [][Next]_vars

-----------------------------------------------------------------------------

\* Every variable has its type; a changer's debt names the flag it saves.
TypeOK ==
  /\ start \in {"load", "auth", "hook", "updates", "up"}
  /\ now \in [auto: BOOLEAN, open: BOOLEAN, checks: BOOLEAN, enabled: BOOLEAN,
             paused: BOOLEAN, signedIn: BOOLEAN, error: BOOLEAN, update: BOOLEAN,
             rows: SUBSET Emails]
  /\ saved \in [auto: BOOLEAN, open: {TRUE}, checks: BOOLEAN]
  /\ owes \in [Changers -> [step: {"nothing", "save", "savechecks", "signal"},
                           checks: BOOLEAN]]
  /\ refresh \in BOOLEAN /\ quiet \in BOOLEAN
  /\ tray \in {"starting", "loop", "paint", "marks"}
  /\ marks \in [open: BOOLEAN, checks: BOOLEAN]
  /\ pending \in BOOLEAN /\ dispatcher \in {"idle", "hook"}
  /\ mount \in {"fetch", "subscribe", "mounted"}
  /\ asked \in Nat /\ answers \subseteq SUBSET Emails /\ view \subseteq Emails
  /\ excused \in BOOLEAN /\ changes \in 0..MaxChanges

\* "no state is lost by dropping signals" (app.go): once no signal is owed or
\* under way, the tray shows the state as it is - but for a change that sends
\* no signal: a save that failed, the first UpdateState and the silent mirror
\* of the opt-out flag, a queue change before the hook was set.
TrayIsCurrent ==
  (/\ start = "up" /\ tray = "loop" /\ ~refresh
   /\ ~pending /\ dispatcher = "idle"
   /\ \A c \in Changers : owes[c] = Nothing)
  => \/ quiet
     \/ /\ shown = computeTrayVisual(now)
        /\ marks = [open |-> now.open, checks |-> now.enabled]

\* The window shows the queue whenever no signal, call or reply is under way,
\* unless an event fell between first fetch and subscription, a call failed, or
\* two calls overlapped, whose replies may come in either order.
WindowIsCurrent ==
  (mount = "mounted" /\ ~pending /\ asked = 0 /\ answers = {}) => excused \/ view = now.rows
=============================================================================

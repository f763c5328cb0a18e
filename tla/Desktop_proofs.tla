---------------------------- MODULE Desktop_proofs -----------------------------
(***************************************************************************)
(* Theorems about Desktop, for every set of rows, any number of goroutines *)
(* that change what is shown, and any number of changes.                   *)
(***************************************************************************)
EXTENDS Desktop, TLAPS

-----------------------------------------------------------------------------
(* Type correctness.                                                       *)

Shown == [auto: BOOLEAN, open: BOOLEAN, checks: BOOLEAN, enabled: BOOLEAN,
          paused: BOOLEAN, signedIn: BOOLEAN, error: BOOLEAN, update: BOOLEAN,
          rows: SUBSET Emails]
Debts == [step: {"nothing", "save", "savechecks", "signal"}, checks: BOOLEAN]
Saved == [auto: BOOLEAN, open: {TRUE}, checks: BOOLEAN]
Marks == [open: BOOLEAN, checks: BOOLEAN]

\* TypeOK with names for its large types.
Types ==
  /\ start \in {"load", "auth", "hook", "updates", "up"}
  /\ now \in Shown /\ owes \in [Changers -> Debts]
  /\ saved \in Saved /\ marks \in Marks
  /\ refresh \in BOOLEAN /\ quiet \in BOOLEAN
  /\ tray \in {"starting", "loop", "paint", "marks"}
  /\ pending \in BOOLEAN /\ dispatcher \in {"idle", "hook"}
  /\ mount \in {"fetch", "subscribe", "mounted"}
  /\ asked \in Nat /\ answers \subseteq SUBSET Emails /\ view \subseteq Emails
  /\ excused \in BOOLEAN /\ changes \in 0..MaxChanges

LEMMA TypesAreTypeOK == TypeOK <=> Types
  BY DEF TypeOK, Types, Shown, Debts, Saved, Marks

\* The program starts with values of these types.
LEMMA InitTypes == Init => Types
  <1>1. Blank \in Shown /\ Nothing \in Debts
    BY DEF Blank, Shown, Nothing, Debts
  <1>2. ASSUME Init PROVE saved \in Saved /\ marks \in Marks
    BY <1>2 DEF Init, Saved, Marks
  <1>3. ASSUME Init PROVE now \in Shown /\ owes \in [Changers -> Debts]
    BY <1>1, <1>3 DEF Init
  <1>4. ASSUME Init PROVE changes \in 0..MaxChanges
    BY <1>4, DesktopAssumption DEF Init, DesktopAssumption
  <1> SUFFICES ASSUME Init PROVE Types
    OBVIOUS
  <1> QED BY <1>2, <1>3, <1>4 DEF Init, Types

-----------------------------------------------------------------------------
(* The steps by the part of the system that takes them.                    *)

\* The operations that change what is shown and owe something for it.
ChangeOf(c) ==
  \/ SetPaused(c) \/ setMode(c) \/ setOpenDraftInBrowser(c)
  \/ setUpdateChecksEnabled(c) \/ SignIn(c) \/ SignOut(c)
  \/ applyUpdateCheckResult(c)

Appl ==
  \/ LoadSettings \/ SetAfterDispatch \/ StartUpdates \/ syncUpdateEnabledIntoState
  \/ \E c \in Changers :
       bootstrapAuth(c) \/ ChangeOf(c) \/ Save(c) \/ SaveFails(c) \/ Signal(c)

TrayStep ==
  \/ onTrayReady \/ TakeRefresh \/ refreshTrayVisual \/ refreshMenu
  \/ ClickPause \/ ClickOpenDraft \/ ClickToggleUpdates

BridgeStep == dispatch \/ AfterDispatch \/ \E e \in Emails : QueueChanges(e)

PageStep == FetchInitial \/ subscribeQueue \/ GetQueue \/ OnChange \/ FetchFails

\* Every step belongs to one of the four.
LEMMA Parts == Next => Appl \/ TrayStep \/ BridgeStep \/ PageStep
  BY DEF Next, Appl, ChangeOf, TrayStep, BridgeStep, PageStep

\* What a step may leave as it is.
FaceKept   == tray' = tray /\ shown' = shown /\ marks' = marks
BridgeKept == pending' = pending /\ dispatcher' = dispatcher
PageKept   == /\ mount' = mount /\ asked' = asked /\ answers' = answers /\ view' = view
              /\ excused' = excused
RowsKept   == now'.rows = now.rows

\* What the operations of ChangeOf are: a change of anything but the rows, and a debt.
LEMMA ChangeOwes ==
  ASSUME Types, NEW c \in Changers, ChangeOf(c)
  PROVE  \E s \in Shown, step \in {"save", "savechecks", "signal"} :
           Change(c, s, step) /\ s.rows = now.rows
  <1>0. now \in Shown
    BY DEF Types
  <1>2. CASE SetPaused(c)
    <2>1. [now EXCEPT !.paused = ~@] \in Shown /\ [now EXCEPT !.paused = ~@].rows = now.rows
      BY <1>0 DEF Shown
    <2> QED BY <1>2, <2>1 DEF SetPaused
  <1>3. CASE setMode(c)
    <2>1. [now EXCEPT !.auto = ~@] \in Shown /\ [now EXCEPT !.auto = ~@].rows = now.rows
      BY <1>0 DEF Shown
    <2> QED BY <1>3, <2>1 DEF setMode
  <1>4. CASE setOpenDraftInBrowser(c)
    <2>1. [now EXCEPT !.open = ~@] \in Shown /\ [now EXCEPT !.open = ~@].rows = now.rows
      BY <1>0 DEF Shown
    <2> QED BY <1>4, <2>1 DEF setOpenDraftInBrowser
  <1>5. CASE setUpdateChecksEnabled(c)
    <2>1. [now EXCEPT !.checks = ~@] \in Shown /\ [now EXCEPT !.checks = ~@].rows = now.rows
      BY <1>0 DEF Shown
    <2> QED BY <1>5, <2>1 DEF setUpdateChecksEnabled
  <1>6. CASE SignIn(c)
    <2>1. [now EXCEPT !.signedIn = TRUE, !.error = FALSE] \in Shown /\ [now EXCEPT !.signedIn = TRUE, !.error = FALSE].rows = now.rows
      BY <1>0 DEF Shown
    <2> QED BY <1>6, <2>1 DEF SignIn
  <1>7. CASE SignOut(c)
    <2>1. [now EXCEPT !.signedIn = FALSE, !.error = TRUE] \in Shown /\ [now EXCEPT !.signedIn = FALSE, !.error = TRUE].rows = now.rows
      BY <1>0 DEF Shown
    <2> QED BY <1>7, <2>1 DEF SignOut
  <1>8. CASE applyUpdateCheckResult(c)
    <2>1. [now EXCEPT !.update = ~@] \in Shown /\ [now EXCEPT !.update = ~@].rows = now.rows
      BY <1>0 DEF Shown
    <2> QED BY <1>8, <2>1 DEF applyUpdateCheckResult
  <1> QED BY <1>2, <1>3, <1>4, <1>5, <1>6, <1>7, <1>8 DEF ChangeOf

\* The app's goroutines keep the types and the rows.
LEMMA ApplTypes ==
  ASSUME Types, Appl
  PROVE  Types' /\ FaceKept /\ BridgeKept /\ PageKept /\ RowsKept
  <1> USE DEF Types, FaceKept, BridgeKept, PageKept, RowsKept, trayVars, bridgeVars, pageVars
  <1>1. CASE LoadSettings
    <2>1. saved.auto \in BOOLEAN /\ saved.open \in BOOLEAN /\ saved.checks \in BOOLEAN
      BY DEF Saved
    <2>2. now' \in Shown /\ now'.rows = now.rows
      BY <1>1, <2>1 DEF LoadSettings, Shown
    <2> QED BY <1>1, <2>2 DEF LoadSettings
  <1>2. CASE SetAfterDispatch
    BY <1>2 DEF SetAfterDispatch
  <1>3. CASE StartUpdates \/ syncUpdateEnabledIntoState
    <2>1. now' \in Shown /\ now'.rows = now.rows
      BY <1>3 DEF StartUpdates, syncUpdateEnabledIntoState, Shown
    <2> QED BY <1>3, <2>1 DEF StartUpdates, syncUpdateEnabledIntoState
  <1>4. ASSUME NEW c \in Changers, bootstrapAuth(c)
        PROVE  Types' /\ FaceKept /\ BridgeKept /\ PageKept /\ RowsKept
    <2>1. now' \in Shown /\ now'.rows = now.rows
      BY <1>4 DEF bootstrapAuth, Shown
    <2>2. owes' \in [Changers -> Debts]
      BY <1>4 DEF bootstrapAuth, Debts
    <2> QED BY <1>4, <2>1, <2>2 DEF bootstrapAuth
  <1>5. ASSUME NEW c \in Changers, ChangeOf(c)
        PROVE  Types' /\ FaceKept /\ BridgeKept /\ PageKept /\ RowsKept
    <2>1. PICK s \in Shown, step \in {"save", "savechecks", "signal"} :
            Change(c, s, step) /\ s.rows = now.rows
      BY <1>5, ChangeOwes
    <2>2. [step |-> step, checks |-> s.checks] \in Debts
      BY DEF Shown, Debts
    <2>3. owes' \in [Changers -> Debts]
      BY <2>1, <2>2 DEF Change
    <2>4. changes' \in 0..MaxChanges
      BY <2>1, DesktopAssumption DEF Change, DesktopAssumption
    <2> QED BY <2>1, <2>3, <2>4 DEF Change
  <1>6. ASSUME NEW c \in Changers, Save(c) \/ SaveFails(c) \/ Signal(c)
        PROVE  Types' /\ FaceKept /\ BridgeKept /\ PageKept /\ RowsKept
    <2>1. owes[c] \in Debts /\ owes[c].checks \in BOOLEAN /\ Nothing \in Debts
      BY DEF Debts, Nothing
    <2>2. owes' \in [Changers -> Debts]
      BY <1>6, <2>1 DEF Save, SaveFails, Signal, Debts
    <2>3. now' \in Shown /\ now'.rows = now.rows
      BY <1>6, <2>1 DEF Save, SaveFails, Signal, Shown
    <2> QED BY <1>6, <2>2, <2>3 DEF Save, SaveFails, Signal, signalTrayRefresh
  <1> QED BY <1>1, <1>2, <1>3, <1>4, <1>5, <1>6 DEF Appl

\* So does the tray's.
LEMMA TrayTypes ==
  ASSUME Types, TrayStep
  PROVE  Types' /\ BridgeKept /\ PageKept /\ RowsKept /\ start' = start /\ owes' = owes
  <1> USE DEF Types, BridgeKept, PageKept, RowsKept, bridgeVars, pageVars
  <1>1. CASE onTrayReady \/ TakeRefresh \/ refreshTrayVisual \/ refreshMenu
    <2>1. now.open \in BOOLEAN /\ now.checks \in BOOLEAN /\ now.enabled \in BOOLEAN
      BY DEF Shown
    <2>2. marks' \in Marks
      BY <1>1, <2>1 DEF onTrayReady, TakeRefresh, refreshTrayVisual, refreshMenu, Marks
    <2> QED BY <1>1, <2>2 DEF onTrayReady, TakeRefresh, refreshTrayVisual, refreshMenu
  <1>2. Click => changes' \in 0..MaxChanges
    BY DesktopAssumption DEF Click, DesktopAssumption
  <1>3. CASE ClickPause \/ ClickOpenDraft \/ ClickToggleUpdates
    <2>1. /\ (~now.paused) \in BOOLEAN
          /\ (~marks.open) \in BOOLEAN /\ (~marks.checks) \in BOOLEAN
      OBVIOUS
    <2>2. now' \in Shown /\ now'.rows = now.rows
      BY <1>3, <2>1 DEF ClickPause, ClickOpenDraft, ClickToggleUpdates, Shown
    <2>3. marks' \in Marks
      BY <1>3 DEF ClickPause, ClickOpenDraft, ClickToggleUpdates, Marks
    <2> QED BY <1>2, <1>3, <2>2, <2>3
            DEF ClickPause, ClickOpenDraft, ClickToggleUpdates, Click, signalTrayRefresh
  <1> QED BY <1>1, <1>3 DEF TrayStep

\* So do the bridge and the watcher ...
LEMMA BridgeTypes ==
  ASSUME Types, BridgeStep
  PROVE  /\ Types' /\ FaceKept /\ start' = start /\ owes' = owes
         /\ mount' = mount /\ answers' = answers /\ view' = view
  <1> USE DEF Types, FaceKept, trayVars, pageVars, bridgeVars
  <1>1. CASE dispatch
    <2>1. asked' \in Nat /\ excused' \in BOOLEAN
      BY <1>1 DEF dispatch
    <2> QED BY <1>1, <2>1 DEF dispatch
  <1>2. CASE AfterDispatch
    BY <1>2 DEF AfterDispatch, signalTrayRefresh
  <1>3. ASSUME NEW e \in Emails, QueueChanges(e)
        PROVE  /\ Types' /\ FaceKept /\ start' = start /\ owes' = owes
               /\ mount' = mount /\ answers' = answers /\ view' = view
    <2>1. changes' \in 0..MaxChanges
      BY <1>3, DesktopAssumption DEF QueueChanges, DesktopAssumption
    <2>2. now' \in Shown
      BY <1>3 DEF QueueChanges, Shown
    <2> QED BY <1>3, <2>1, <2>2 DEF QueueChanges
  <1> QED BY <1>1, <1>2, <1>3 DEF BridgeStep

\* ... and the window.
LEMMA PageTypes ==
  ASSUME Types, PageStep
  PROVE  /\ Types' /\ FaceKept /\ BridgeKept /\ start' = start /\ owes' = owes
         /\ now' = now /\ refresh' = refresh /\ quiet' = quiet
  <1> USE DEF Types, FaceKept, BridgeKept, trayVars, bridgeVars
  <1>1. now.rows \subseteq Emails
    BY DEF Shown
  <1>2. CASE FetchInitial
    BY <1>1, <1>2 DEF FetchInitial
  <1>3. CASE subscribeQueue
    BY <1>3 DEF subscribeQueue
  <1>4. CASE GetQueue
    <2>1. asked' \in Nat /\ answers' \subseteq SUBSET Emails
      BY <1>1, <1>4 DEF GetQueue
    <2> QED BY <1>4, <2>1 DEF GetQueue
  <1>5. CASE OnChange
    <2>1. answers' \subseteq SUBSET Emails /\ view' \subseteq Emails
      BY <1>5 DEF OnChange
    <2> QED BY <1>5, <2>1 DEF OnChange
  <1>6. CASE FetchFails
    <2>1. asked' \in Nat
      BY <1>6 DEF FetchFails
    <2> QED BY <1>6, <2>1 DEF FetchFails
  <1> QED BY <1>2, <1>3, <1>4, <1>5, <1>6 DEF PageStep

\* Every state of Spec has the types.
THEOREM TypeCorrect == Spec => []TypeOK
  <1>1. Types /\ UNCHANGED vars => Types'
    BY DEF Types, vars, trayVars, bridgeVars, pageVars
  <1>2. Types /\ Next => Types'
    BY Parts, ApplTypes, TrayTypes, BridgeTypes, PageTypes
  <1> QED BY <1>1, <1>2, InitTypes, TypesAreTypeOK, PTL DEF Spec

-----------------------------------------------------------------------------
(* The tray catches up.                                                    *)

\* Nobody owes a signal, none is on its way, and no change went without one.
Calm ==
  /\ start \in {"hook", "updates", "up"}
  /\ ~refresh /\ ~quiet /\ ~pending /\ dispatcher = "idle"
  /\ \A c \in Changers : owes[c] = Nothing

\* The signal of the startup waits for the tray; whoever repaints in the calm
\* has painted what is.
TrayInv ==
  /\ tray = "starting" /\ start \in {"hook", "updates", "up"} =>
       refresh \/ \E c \in Changers : owes[c].step = "signal"
  /\ Calm => /\ tray \in {"loop", "marks"} => shown = computeTrayVisual(now)
             /\ tray = "loop" => marks = [open |-> now.open, checks |-> now.enabled]

LEMMA InitTray == Init => TrayInv
  BY DEF Init, TrayInv, Calm

\* Whatever changes what is shown owes a signal, sends one, or counts as quiet.
LEMMA ApplTray ==
  ASSUME Types, Appl, TrayInv
  PROVE  TrayInv'
  <1>1. FaceKept /\ BridgeKept
    BY ApplTypes
  <1>2. Nothing.step = "nothing"
    BY DEF Nothing
  <1> USE DEF TrayInv, Calm, FaceKept, BridgeKept
  <1>3. CASE LoadSettings
    BY <1>1, <1>3 DEF LoadSettings
  <1>4. CASE SetAfterDispatch
    BY <1>1, <1>4 DEF SetAfterDispatch, trayVars
  <1>5. CASE StartUpdates \/ syncUpdateEnabledIntoState
    BY <1>1, <1>5 DEF StartUpdates, syncUpdateEnabledIntoState
  <1>6. ASSUME NEW c \in Changers, bootstrapAuth(c) PROVE TrayInv'
    <2>1. owes'[c].step = "signal"
      BY <1>6 DEF bootstrapAuth, Types, Debts
    <2> QED BY <1>2, <2>1
  <1>7. ASSUME NEW c \in Changers, ChangeOf(c) PROVE TrayInv'
    <2>1. PICK s \in Shown, step \in {"save", "savechecks", "signal"} :
            Change(c, s, step) /\ s.rows = now.rows
      BY <1>7, ChangeOwes
    <2>2. /\ owes[c] = Nothing /\ owes'[c].step # "nothing"
          /\ \A d \in Changers : d # c => owes'[d] = owes[d]
      BY <2>1 DEF Change, Types
    <2>3. start' = start /\ refresh' = refresh
      BY <2>1 DEF Change, trayVars
    <2> QED BY <1>1, <1>2, <2>2, <2>3
  <1>8. ASSUME NEW c \in Changers, Save(c) PROVE TrayInv'
    <2>1. owes'[c].step = "signal"
      BY <1>8 DEF Save, Types, Debts
    <2> QED BY <1>2, <2>1
  <1>9. ASSUME NEW c \in Changers, SaveFails(c) PROVE TrayInv'
    <2>1. /\ owes[c].step # "signal" /\ quiet'
          /\ \A d \in Changers : d # c => owes'[d] = owes[d]
      BY <1>9 DEF SaveFails, Types
    <2>2. start' = start /\ refresh' = refresh
      BY <1>9 DEF SaveFails
    <2> QED BY <1>1, <2>1, <2>2
  <1>10. ASSUME NEW c \in Changers, Signal(c) PROVE TrayInv'
    BY <1>10 DEF Signal, signalTrayRefresh
  <1> QED BY <1>3, <1>4, <1>5, <1>6, <1>7, <1>8, <1>9, <1>10 DEF Appl

\* A repaint shows what is there when it looks.
LEMMA PaintTray ==
  ASSUME Types, TrayStep, TrayInv
  PROVE  TrayInv'
  <1>1. BridgeKept /\ start' = start /\ owes' = owes
    BY TrayTypes
  <1>2. Nothing.step = "nothing"
    BY DEF Nothing
  <1> USE DEF TrayInv, Calm, BridgeKept
  <1>3. CASE onTrayReady
    <2>1. tray = "starting" /\ tray' = "loop" /\ refresh' = refresh
      BY <1>3 DEF onTrayReady
    <2> QED BY <1>1, <1>2, <2>1
  <1>4. CASE TakeRefresh
    BY <1>4 DEF TakeRefresh
  <1>5. CASE refreshTrayVisual
    BY <1>1, <1>5 DEF refreshTrayVisual
  <1>6. CASE refreshMenu
    BY <1>1, <1>6 DEF refreshMenu
  <1>7. CASE ClickPause \/ ClickOpenDraft \/ ClickToggleUpdates
    <2>1. tray' = "loop" /\ (refresh' \/ quiet')
      BY <1>7 DEF ClickPause, ClickOpenDraft, ClickToggleUpdates, Click, signalTrayRefresh
    <2> QED BY <2>1
  <1> QED BY <1>3, <1>4, <1>5, <1>6, <1>7 DEF TrayStep

\* A change of the queue has its signal in the bridge until the hook passes it on.
LEMMA BridgeTray ==
  ASSUME Types, BridgeStep, TrayInv
  PROVE  TrayInv'
  <1>1. FaceKept /\ start' = start /\ owes' = owes
    BY BridgeTypes
  <1> USE DEF TrayInv, Calm, FaceKept
  <1>2. CASE dispatch
    <2>1. dispatcher' = "hook" /\ refresh' = refresh
      BY <1>2 DEF dispatch, trayVars
    <2> QED BY <1>1, <2>1
  <1>3. CASE AfterDispatch
    <2>1. (refresh' \/ quiet') /\ (refresh => refresh')
      BY <1>3 DEF AfterDispatch, signalTrayRefresh
    <2> QED BY <1>1, <2>1
  <1>4. ASSUME NEW e \in Emails, QueueChanges(e) PROVE TrayInv'
    <2>1. pending' = TRUE /\ refresh' = refresh
      BY <1>4 DEF QueueChanges, trayVars
    <2> QED BY <1>1, <2>1
  <1> QED BY <1>2, <1>3, <1>4 DEF BridgeStep

\* Coalesced signals lose no state: once signals and debts are gone, icon,
\* tooltip and marks show what is, for any number of goroutines and changes.
THEOREM TrayCatchesUp == Spec => []TrayIsCurrent
  <1>1. Types /\ TrayInv /\ Next => TrayInv'
    <2>1. ASSUME Types, TrayInv, PageStep PROVE TrayInv'
      BY <2>1, PageTypes DEF TrayInv, Calm, FaceKept, BridgeKept
    <2> QED BY <2>1, Parts, ApplTray, PaintTray, BridgeTray
  <1>2. TrayInv /\ UNCHANGED vars => TrayInv'
    BY DEF TrayInv, Calm, vars, trayVars, bridgeVars
  <1>3. TrayInv => TrayIsCurrent
    BY DEF TrayInv, Calm, TrayIsCurrent
  <1> QED BY <1>1, <1>2, <1>3, InitTray, TypeCorrect, TypesAreTypeOK, PTL DEF Spec

-----------------------------------------------------------------------------
(* The window catches up.                                                  *)

\* Without an overlap one call or one reply is under way, and with no signal
\* left it is about the queue as it is.
WindowInv ==
  /\ mount # "mounted" => asked = 0 /\ answers = {}
  /\ mount = "mounted" /\ ~excused =>
       /\ asked = 0 \/ (asked = 1 /\ answers = {})
       /\ \A r, q \in answers : r = q
       /\ ~pending => /\ \A r \in answers : r = now.rows
                      /\ asked = 0 /\ answers = {} => view = now.rows

\* The bridge makes the window ask for what changed.
LEMMA BridgeWindow ==
  ASSUME Types, BridgeStep, WindowInv
  PROVE  WindowInv'
  <1>1. mount' = mount /\ answers' = answers /\ view' = view
    BY BridgeTypes
  <1>2. CASE dispatch
    <2>1. /\ pending' = FALSE
          /\ asked' = IF mount = "mounted" THEN asked + 1 ELSE asked
          /\ ~excused' => ~excused /\ ~(asked > 0) /\ answers = {}
      BY <1>2 DEF dispatch
    <2>2. asked \in Nat
      BY DEF Types
    <2> QED BY <1>1, <2>1, <2>2 DEF WindowInv
  <1>3. CASE AfterDispatch
    BY <1>3 DEF AfterDispatch, pageVars, WindowInv
  <1>4. ASSUME NEW e \in Emails, QueueChanges(e) PROVE WindowInv'
    BY <1>4 DEF QueueChanges, pageVars, WindowInv
  <1> QED BY <1>2, <1>3, <1>4 DEF BridgeStep

\* Replies say what the queue was when they were given.
LEMMA PageWindow ==
  ASSUME Types, PageStep, WindowInv
  PROVE  WindowInv'
  <1>1. BridgeKept /\ now' = now
    BY PageTypes
  <1>2. asked \in Nat
    BY DEF Types
  <1> USE DEF WindowInv, BridgeKept
  <1>3. CASE FetchInitial
    BY <1>3 DEF FetchInitial
  <1>4. CASE subscribeQueue
    <2>1. ~excused' => view = now.rows
      BY <1>4 DEF subscribeQueue
    <2> QED BY <1>1, <1>4, <2>1 DEF subscribeQueue
  <1>5. CASE GetQueue
    BY <1>1, <1>2, <1>5 DEF GetQueue
  <1>6. CASE OnChange
    <2>1. PICK rows \in answers : view' = rows /\ answers' = answers \ {rows}
      BY <1>6 DEF OnChange
    <2>2. mount' = mount /\ asked' = asked /\ excused' = excused /\ mount = "mounted"
      BY <1>6, <2>1 DEF OnChange
    <2> QED BY <1>1, <2>1, <2>2
  <1>7. CASE FetchFails
    <2>1. asked > 0 /\ excused' /\ mount' = mount
      BY <1>7 DEF FetchFails
    <2> QED BY <1>2, <2>1
  <1> QED BY <1>3, <1>4, <1>5, <1>6, <1>7 DEF PageStep

\* The list in the window is the queue once signal, call and reply are done,
\* unless an event was missed, a call failed, or two calls overlapped.
THEOREM WindowCatchesUp == Spec => []WindowIsCurrent
  <1>1. Init => WindowInv
    BY DEF Init, WindowInv
  <1>2. Types /\ WindowInv /\ Next => WindowInv'
    <2>1. ASSUME Types, WindowInv, Appl \/ TrayStep PROVE WindowInv'
      <3>1. BridgeKept /\ PageKept /\ RowsKept
        BY <2>1, ApplTypes, TrayTypes
      <3> QED BY <2>1, <3>1 DEF WindowInv, BridgeKept, PageKept, RowsKept
    <2> QED BY <2>1, Parts, BridgeWindow, PageWindow
  <1>3. WindowInv /\ UNCHANGED vars => WindowInv'
    BY DEF WindowInv, vars, bridgeVars, pageVars
  <1>4. WindowInv => WindowIsCurrent
    BY DEF WindowInv, WindowIsCurrent
  <1> QED BY <1>1, <1>2, <1>3, <1>4, TypeCorrect, TypesAreTypeOK, PTL DEF Spec
=============================================================================

------------------------------ MODULE Notices -------------------------------
(***************************************************************************)
(* How a change of the queue is announced: the bridge's one-slot channel   *)
(* and its dispatcher (watcher_bridge.go, the afterDispatch hook in        *)
(* app.go), the arrival and error toasts and their removal                 *)
(* (toast_windows.go) while rows are drafted and dismissed.                *)
(***************************************************************************)
EXTENDS Naturals, FiniteSets

CONSTANTS
  Emails,
  NoRow,        (* what a drafter that rests works on                      *)
  Waiting,      (* rows that are in the queue directory at startup         *)
  Drafters,     (* automode and the bindings: goroutines that draft        *)
  MaxFailures,  (* bound on drafts and removals of toasts that fail        *)
  MaxClicks     (* bound on pausing, showing and hiding                   *)

ASSUME NoticesAssumption ==
  /\ Waiting \subseteq Emails
  /\ NoRow \notin Emails
  /\ MaxFailures \in Nat /\ MaxClicks \in Nat

VARIABLES
  start,      (* startup: next it seeds knownIds, sets the hook, is done   *)
  queue,      (* EmailWatcher.emails                                       *)
  unseen,     (* rows whose files are yet to be written                    *)
  pending,    (* watcherBridge.pending holds a signal                      *)
  hooked,     (* watcherBridge.afterDispatch is set                        *)
  dispatcher, (* the next step of watcherBridge.dispatch                   *)
  snap,       (* the hook's snapshot of the queue                          *)
  knownIds,
  job,        (* per drafter: its next step and its row                    *)
  toasts,     (* Action Center: pairs of row and kind, which make the tag; *)
              (* one pushed without a tag replaces and loses nothing       *)
  visible, paused,
  failures, clicks,
  seeded,     (* history: the rows that were there when Start returned     *)
  due,        (* history: the rows that arrived with the hook in place     *)
  considered, (* history: the rows the hook decided about                  *)
  repeated,   (* history: the rows it decided about again                  *)
  ghosts,     (* history: rows that came back or left without a drafter    *)
  stay        (* history: toasts pushed for a row that had left, or whose  *)
              (* removal failed                                            *)

rowVars   == <<queue, unseen, pending>>
hookVars  == <<hooked, dispatcher, snap, knownIds>>
userVars  == <<visible, paused, clicks>>
history   == <<seeded, due, considered, repeated, ghosts, stay>>
vars == <<start, rowVars, hookVars, job, toasts, userVars, failures, history>>

Kinds == {"arrival", "err"}
Idle == [step |-> "idle", row |-> NoRow]

Init ==
  /\ start = "seed"
  /\ queue = Waiting /\ unseen = Emails \ Waiting
  /\ pending = (Waiting # {})
  /\ hooked = FALSE /\ dispatcher = "idle" /\ snap = {} /\ knownIds = {}
  /\ job = [d \in Drafters |-> Idle]
  /\ toasts = {}
  /\ visible = FALSE /\ paused = FALSE
  /\ failures = 0 /\ clicks = 0
  /\ seeded = Waiting
  /\ due = {} /\ considered = {} /\ repeated = {} /\ ghosts = {} /\ stay = {}

\* OnQueueChanged: the signal is dropped when the slot is taken.
OnQueueChanged == pending' = TRUE

-----------------------------------------------------------------------------
(* The watcher.                                                            *)

Arrive(e) ==
  /\ e \in unseen
  /\ unseen' = unseen \ {e}
  /\ queue' = queue \cup {e}
  /\ due' = IF hooked THEN due \cup {e} ELSE due
  /\ OnQueueChanged
  /\ UNCHANGED <<start, hookVars, job, toasts, userVars, failures, seeded,
                 considered, repeated, ghosts, stay>>

\* processFile read the file before it was removed and inserts it afterwards.
LateInsert(e) ==
  /\ e \notin queue \cup unseen \cup ghosts
  /\ queue' = queue \cup {e}
  /\ ghosts' = ghosts \cup {e}
  /\ OnQueueChanged
  /\ UNCHANGED <<start, unseen, hookVars, job, toasts, userVars, failures,
                 seeded, due, considered, repeated, stay>>

\* handleRemove: the file of a listed row is gone.
HandleRemove(e) ==
  /\ e \in queue
  /\ queue' = queue \ {e}
  /\ ghosts' = ghosts \cup {e}
  /\ OnQueueChanged
  /\ UNCHANGED <<start, unseen, hookVars, job, toasts, userVars, failures,
                 seeded, due, considered, repeated, stay>>

-----------------------------------------------------------------------------
(* Startup and dispatcher.                                                 *)

\* Mutant: nothing is known at startup.
SeedNothing ==
  /\ start = "seed"
  /\ start' = "hook"
  /\ UNCHANGED <<rowVars, hookVars, job, toasts, userVars, failures, history>>

SeedKnownIds ==
  /\ start = "seed"
  /\ start' = "hook"
  /\ knownIds' = queue
  /\ UNCHANGED <<rowVars, hooked, dispatcher, snap, job, toasts, userVars,
                 failures, history>>

SetAfterDispatch ==
  /\ start = "hook"
  /\ start' = "up"
  /\ hooked' = TRUE
  /\ UNCHANGED <<rowVars, dispatcher, snap, knownIds, job, toasts, userVars,
                 failures, history>>

\* The signal is taken and the window told.
Dispatch ==
  /\ dispatcher = "idle" /\ pending
  /\ pending' = FALSE
  /\ dispatcher' = "hook"
  /\ UNCHANGED <<start, queue, unseen, hooked, snap, knownIds, job, toasts, userVars,
                 failures, history>>

AfterDispatch ==
  /\ dispatcher = "hook"
  /\ IF hooked THEN snap' = queue /\ dispatcher' = "toast"
               ELSE dispatcher' = "idle" /\ UNCHANGED snap
  /\ UNCHANGED <<start, rowVars, hooked, knownIds, job, toasts, userVars,
                 failures, history>>

\* Push a toast, or fail to, or push it without its tag.
Push(e, kind) ==
  \/ /\ toasts' = toasts \cup {<<e, kind>>}
     /\ stay' = IF e \in queue THEN stay ELSE stay \cup {<<e, kind>>}
  \/ UNCHANGED <<toasts, stay>>

Silent == visible \/ paused

emitArrivalToast(e) ==
  /\ dispatcher = "toast"
  /\ e \in snap \ knownIds
  /\ IF Silent THEN UNCHANGED <<toasts, stay>> ELSE Push(e, "arrival")
  /\ knownIds' = knownIds \cup {e}
  /\ considered' = considered \cup {e}
  /\ repeated' = IF e \in considered THEN repeated \cup {e} ELSE repeated
  /\ UNCHANGED <<start, rowVars, hooked, dispatcher, snap, job, userVars,
                 failures, seeded, due, ghosts>>

\* Mutant: the signals of the time the hook took are thrown away.
PruneAndDrain ==
  /\ dispatcher = "toast" /\ snap \subseteq knownIds
  /\ knownIds' = knownIds \cap snap
  /\ snap' = {}
  /\ pending' = FALSE
  /\ dispatcher' = "idle"
  /\ UNCHANGED <<start, queue, unseen, hooked, job, toasts, userVars, failures,
                 history>>

\* Rows that left are forgotten; the tray is signalled.
PruneKnownIds ==
  /\ dispatcher = "toast" /\ snap \subseteq knownIds
  /\ knownIds' = knownIds \cap snap
  /\ snap' = {}
  /\ dispatcher' = "idle"
  /\ UNCHANGED <<start, rowVars, hooked, job, toasts, userVars, failures,
                 history>>

-----------------------------------------------------------------------------
(* Automode, CreateDraftForID and DismissEmail.                            *)

Step(d, s) == job' = [job EXCEPT ![d].step = s]

BeginDraft(d, e) ==
  /\ job[d].step = "idle" /\ e \in queue
  /\ job' = [job EXCEPT ![d] = [step |-> "draft", row |-> e]]
  /\ UNCHANGED <<start, rowVars, hookVars, toasts, userVars, failures, history>>

DraftFails(d) ==
  /\ job[d].step = "draft" /\ failures < MaxFailures
  /\ failures' = failures + 1
  /\ Push(job[d].row, "err")
  /\ job' = [job EXCEPT ![d] = Idle]
  /\ UNCHANGED <<start, rowVars, hookVars, userVars, seeded, due, considered,
                 repeated, ghosts>>

\* MarkProcessed or Delete, before the toasts are cleared (the success toast stays
\* until the user removes it and is left out): a row that is gone already
\* changes nothing.
Remove(e) ==
  /\ queue' = queue \ {e}
  /\ IF e \in queue THEN OnQueueChanged ELSE UNCHANGED pending

DraftCreated(d) ==
  /\ job[d].step = "draft"
  /\ Remove(job[d].row)
  /\ Step(d, "clear")
  /\ UNCHANGED <<start, unseen, hookVars, toasts, userVars, failures, history>>

DismissEmail(d, e) ==
  /\ job[d].step = "idle" /\ e \in queue
  /\ Remove(e)
  /\ job' = [job EXCEPT ![d] = [step |-> "clear", row |-> e]]
  /\ UNCHANGED <<start, unseen, hookVars, toasts, userVars, failures, history>>

\* Remove the toasts whose tags these are; a call may fail.
Clear(d, kinds) ==
  /\ job[d].step = "clear"
  /\ \E failed \in SUBSET kinds :
       /\ failures' = failures + Cardinality(failed) /\ failures' <= MaxFailures
       /\ toasts' = toasts \ {<<job[d].row, k>> : k \in kinds \ failed}
       /\ stay' = stay \cup {<<job[d].row, k>> : k \in failed}
  /\ job' = [job EXCEPT ![d] = Idle]
  /\ UNCHANGED <<start, rowVars, hookVars, userVars, seeded, due, considered,
                 repeated, ghosts>>

\* Mutant: the error toast is forgotten.
clearArrivalToast(d) == Clear(d, {"arrival"})

clearToastForEmail(d) == Clear(d, Kinds)

-----------------------------------------------------------------------------
(* The window.                                                             *)

\* Tray click, toast, raise signal, closing the window: it shows or hides.
SetVisible ==
  /\ clicks < MaxClicks /\ clicks' = clicks + 1
  /\ visible' = ~visible
  /\ UNCHANGED <<start, rowVars, hookVars, job, toasts, paused, failures,
                 history>>

SetPaused ==
  /\ clicks < MaxClicks /\ clicks' = clicks + 1
  /\ paused' = ~paused
  /\ UNCHANGED <<start, rowVars, hookVars, job, toasts, visible, failures,
                 history>>

-----------------------------------------------------------------------------

Dispatcher ==
  Dispatch \/ AfterDispatch \/ PruneKnownIds \/ \E e \in Emails : emitArrivalToast(e)

Next ==
  \/ SeedKnownIds \/ SetAfterDispatch \/ Dispatcher
  \/ SetVisible \/ SetPaused
  \/ \E e \in Emails : Arrive(e) \/ LateInsert(e) \/ HandleRemove(e)
  \/ \E d \in Drafters :
       \/ \E e \in Emails : BeginDraft(d, e) \/ DismissEmail(d, e)
       \/ DraftFails(d) \/ DraftCreated(d) \/ clearToastForEmail(d)

Spec == Init /\ [][Next]_vars

-----------------------------------------------------------------------------

TypeOK ==
  /\ start \in {"seed", "hook", "up"}
  /\ queue \subseteq Emails /\ unseen \subseteq Emails
  /\ pending \in BOOLEAN /\ hooked \in BOOLEAN
  /\ visible \in BOOLEAN /\ paused \in BOOLEAN
  /\ dispatcher \in {"idle", "hook", "toast"}
  /\ snap \subseteq Emails /\ knownIds \subseteq Emails
  /\ job \in [Drafters -> [step: {"idle", "draft", "clear"}, row: Emails \cup {NoRow}]]
  /\ toasts \subseteq Emails \X Kinds /\ stay \subseteq Emails \X Kinds
  /\ failures \in 0..MaxFailures /\ clicks \in 0..MaxClicks
  /\ seeded \subseteq Emails /\ due \subseteq Emails /\ considered \subseteq Emails
  /\ repeated \subseteq Emails /\ ghosts \subseteq Emails

\* "prevents spurious arrival toasts for pre-existing emails on app restart"
\* (app.go): a row that was in the directory at startup is never announced and
\* no row is announced twice, unless the watcher inserted it a second time.
NoSpam == (repeated \cup (considered \cap seeded)) \subseteq ghosts

\* Clear-on-processed (toast_windows.go): once nobody works on a row that has
\* left the queue, no arrival or error toast of it remains - except one pushed
\* after it had left, one whose removal failed, and those of a row whose file
\* somebody else removed.
ToastsFollowRows ==
  \A e \in Emails \ (queue \cup unseen \cup ghosts) :
    (\A d \in Drafters : job[d].row = e => job[d].step \in {"idle", "draft"})
      => \A k \in Kinds : <<e, k>> \in toasts => <<e, k>> \in stay

\* Coalescing signals loses no arrival: a row that arrived with the hook in
\* place and is still there has been considered for a toast, or the dispatcher
\* has a signal to take, a snapshot to make, or the row in its snapshot.
NoArrivalMissed ==
  \A e \in (due \cap queue) \ considered :
    \/ pending
    \/ dispatcher = "hook"
    \/ dispatcher = "toast" /\ e \in snap \ knownIds
=============================================================================

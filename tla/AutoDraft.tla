------------------------------ MODULE AutoDraft ------------------------------
(***************************************************************************)
(* Turning queued emails into Gmail drafts: the automode goroutine         *)
(* (src/src/app/automode.go) beside the manual bindings CreateDraftForID,  *)
(* DismissEmail, SetPaused and setMode and the dispatcher's backlog prune  *)
(* (src/src/app/app.go, watcher_bridge.go).                                *)
(*                                                                         *)
(* The watcher appears as what it shows here: the listed ids (Snapshot),   *)
(* the ids whose file exists, and its removal operations.  Module          *)
(* EmailWatcher has the details, including why an id can be listed after   *)
(* its file is gone (LateInsert).                                          *)
(***************************************************************************)
EXTENDS Naturals, FiniteSets

CONSTANTS
  Ids,            (* email ids                                             *)
  NoId,
  Callers,        (* concurrent calls of CreateDraftForID                  *)
  MaxFailures,    (* maxAutoDraftFailures, 5 in the code                   *)
  MaxGlitches,    (* bound on lost replies, failed removals, late inserts  *)
  MaxRestarts,    (* bound on restarts of the application                  *)
  MaxSwitches     (* bound on pause, mode and sign-in changes by the user  *)

ASSUME AutoDraftAssumption ==
  /\ NoId \notin Ids
  /\ IsFiniteSet(Callers)
  /\ MaxFailures \in Nat \ {0}
  /\ {MaxGlitches, MaxRestarts, MaxSwitches} \subseteq Nat

VARIABLES
  listed,     (* ids in watcher.Snapshot()                                 *)
  disk,       (* ids whose JSON file exists                                *)
  arrived,    (* history: ids that ever arrived                            *)
  mode,       (* settings.Mode                                             *)
  paused,
  signedIn,   (* the active slot has a usable grant                        *)
  pending,    (* the 1-slot channel bridge.pending                         *)
  apc, todo, cur,   (* automode: program counter, rest of drain's snapshot *)
  inflight, fails,  (* automode.inflight, automode.failCounts              *)
  skip,       (* backlogSkip                                               *)
  dsnap,      (* ids the dispatcher's afterDispatch saw, while it runs     *)
  dpc,
  mpc, mid,   (* per manual call: program counter and id                   *)
  drafts,     (* Gmail: how many drafts exist for an id                    *)
  dismissed,  (* history: ids removed by DismissEmail                      *)
  excused,    (* history: per id, the mishaps that justify one more draft  *)
  late,       (* history: calls automode began since the gates closed      *)
  glitches, restarts, switches

queueVars  == <<listed, disk, arrived>>
gateVars   == <<mode, paused, signedIn>>
autoVars   == <<apc, todo, cur, inflight, fails>>
dispVars   == <<dpc, dsnap>>
manualVars == <<mpc, mid>>
histVars   == <<drafts, dismissed, excused, late>>
boundVars  == <<glitches, restarts, switches>>

vars == <<queueVars, gateVars, pending, autoVars, skip, dispVars, manualVars,
          histVars, boundVars>>

TypeOK ==
  /\ listed \subseteq Ids /\ disk \subseteq Ids /\ arrived \subseteq Ids
  /\ mode \in {"manual", "auto-draft"}
  /\ paused \in BOOLEAN /\ signedIn \in BOOLEAN
  /\ pending \in BOOLEAN
  /\ apc \in {"wait", "item", "chosen", "call", "mark"}
  /\ todo \subseteq Ids
  /\ cur \in Ids \cup {NoId} /\ (cur = NoId <=> apc \in {"wait", "item"})
  /\ inflight \subseteq Ids
  /\ fails \in [Ids -> 0..MaxFailures - 1]
  /\ skip \subseteq Ids
  /\ dpc \in {"wait", "emitted", "prune"}
  /\ dsnap \subseteq Ids
  /\ mpc \in [Callers -> {"idle", "call", "mark"}]
  /\ mid \in [Callers -> Ids \cup {NoId}]
  /\ \A c \in Callers : mid[c] = NoId <=> mpc[c] = "idle"
  /\ drafts \in [Ids -> Nat] /\ excused \in [Ids -> Nat]
  /\ dismissed \subseteq Ids /\ late \in Nat
  /\ glitches \in Nat /\ restarts \in Nat /\ switches \in Nat

Init ==
  /\ listed = {} /\ disk = {} /\ arrived = {}
  /\ mode \in {"manual", "auto-draft"}
  /\ paused = FALSE
  /\ signedIn \in BOOLEAN
  /\ pending = FALSE
  /\ apc = "wait" /\ todo = {} /\ cur = NoId
  /\ inflight = {} /\ fails = [id \in Ids |-> 0]
  /\ skip = {}
  /\ dpc = "wait" /\ dsnap = {}
  /\ mpc = [c \in Callers |-> "idle"] /\ mid = [c \in Callers |-> NoId]
  /\ drafts = [id \in Ids |-> 0]
  /\ dismissed = {}
  /\ excused = [id \in Ids |-> 0] /\ late = 0
  /\ glitches = 0 /\ restarts = 0 /\ switches = 0

(* The two gates of drain. *)
GateOpen == ~paused /\ mode = "auto-draft"

Glitch == glitches < MaxGlitches /\ glitches' = glitches + 1
Switch == switches < MaxSwitches /\ switches' = switches + 1
Inc(f, id) == [f EXCEPT ![id] = @ + 1]

-----------------------------------------------------------------------------
(* The watcher as seen from here                                           *)

\* OnQueueChanged fills the dispatcher's slot.  Its twin, the wake of automode,
\* only decides when a drain starts, which is left open here: the ticker may
\* start one at any time.
Signal == pending' = TRUE

\* processFile lists a new email.
Arrive(id) ==
  /\ id \notin arrived
  /\ arrived' = arrived \cup {id}
  /\ listed' = listed \cup {id} /\ disk' = disk \cup {id}
  /\ Signal
  /\ UNCHANGED <<gateVars, autoVars, skip, dispVars, manualVars, histVars, boundVars>>

\* A processFile that had read the file before it was removed lists it again.
LateInsert(id) ==
  /\ id \in arrived /\ id \notin disk \cup listed
  /\ Glitch
  /\ listed' = listed \cup {id}
  /\ excused' = Inc(excused, id)
  /\ Signal
  /\ UNCHANGED <<disk, arrived, gateVars, autoVars, skip, dispVars, manualVars,
                 drafts, dismissed, late, restarts, switches>>

\* handleRemove, for an id whose file is gone.
Unlist(id) ==
  /\ id \in listed \ disk
  /\ listed' = listed \ {id}
  /\ Signal
  /\ UNCHANGED <<disk, arrived, gateVars, autoVars, skip, dispVars, manualVars,
                 histVars, boundVars>>

\* MarkProcessed / Delete succeed.
Removed(id) ==
  /\ id \in listed \cap disk
  /\ listed' = listed \ {id} /\ disk' = disk \ {id}
  /\ Signal
  /\ UNCHANGED <<arrived, excused, glitches>>

\* os.Remove fails (locked, or already absent): the row stays listed.
RemoveFails(id) ==
  /\ id \in listed /\ Glitch
  /\ excused' = Inc(excused, id)
  /\ UNCHANGED <<queueVars, pending>>

\* An id that is no longer filed: nil, nothing happens.
AlreadyGone(id) ==
  /\ id \notin listed
  /\ UNCHANGED <<queueVars, pending, excused, glitches>>

\* Mutant of MarkProcessed: the drafted row stays in the queue.
KeepProcessed(id) == UNCHANGED <<queueVars, pending, excused, glitches>>

MarkProcessed(id) == Removed(id) \/ RemoveFails(id) \/ AlreadyGone(id)

-----------------------------------------------------------------------------
(* The user's switches                                                     *)

SetPaused(v) ==
  /\ paused # v /\ Switch
  /\ paused' = v /\ UNCHANGED mode
  /\ late' = IF GateOpen' THEN 0 ELSE late
  /\ UNCHANGED <<queueVars, signedIn, pending, autoVars, skip, dispVars,
                 manualVars, drafts, dismissed, excused, glitches, restarts>>

\* setMode, without its write of the settings file.
SetMode(v) ==
  /\ mode # v /\ Switch
  /\ mode' = v /\ UNCHANGED paused
  /\ late' = IF GateOpen' THEN 0 ELSE late
  /\ UNCHANGED <<queueVars, signedIn, pending, autoVars, skip, dispVars,
                 manualVars, drafts, dismissed, excused, glitches, restarts>>

\* Signing in or out of the active slot, or activating the other slot.
SetSignedIn(v) ==
  /\ signedIn # v /\ Switch
  /\ signedIn' = v
  /\ UNCHANGED <<queueVars, mode, paused, pending, autoVars, skip, dispVars,
                 manualVars, histVars, glitches, restarts>>

\* DismissEmail of a row the user sees; a failing os.Remove changes nothing.
DismissEmail(id) ==
  /\ Removed(id)
  /\ dismissed' = dismissed \cup {id}
  /\ UNCHANGED <<gateVars, autoVars, skip, dispVars, manualVars, drafts,
                 late, restarts, switches>>

-----------------------------------------------------------------------------
(* The automode goroutine                                                  *)

\* Mutant of Release: an exit of draftOne that forgets the row.
ReleaseForgotten == UNCHANGED inflight

Release == inflight' = inflight \ {cur}

EndDrain == apc' = "wait" /\ todo' = {}

\* Every failCounts entry of an id that left the queue is dropped.
PrunedFails == [id \in Ids |-> IF id \in listed THEN fails[id] ELSE 0]

\* loop receives from wake or from the ticker; drain takes its snapshot.
BeginDrain ==
  /\ apc = "wait"
  /\ IF GateOpen
     THEN /\ apc' = "item"
          /\ todo' = listed
          /\ fails' = PrunedFails
     ELSE UNCHANGED <<apc, todo, fails>>
  /\ UNCHANGED <<queueVars, gateVars, pending, cur, inflight, skip, dispVars,
                 manualVars, histVars, boundVars>>

\* The range loop ends, or the gates closed in the meantime.
FinishDrain ==
  /\ apc = "item"
  /\ todo = {} \/ ~GateOpen
  /\ EndDrain
  /\ UNCHANGED <<queueVars, gateVars, pending, cur, inflight, fails, skip,
                 dispVars, manualVars, histVars, boundVars>>

\* The gates are looked at again for every row.  Mutant: only once per drain.
GateIgnored == TRUE
GateAgain   == GateOpen

\* The next row passes the gates; a skipped or busy row is passed over.
NextRow(id) ==
  /\ apc = "item" /\ id \in todo /\ GateAgain
  /\ todo' = todo \ {id}
  /\ IF id \in skip \cup inflight
     THEN UNCHANGED <<apc, cur>>
     ELSE apc' = "chosen" /\ cur' = id
  /\ UNCHANGED <<queueVars, gateVars, pending, inflight, fails, skip, dispVars,
                 manualVars, histVars, boundVars>>

\* tryAcquire succeeds and draftOne starts its call with the token of the
\* active slot, which it keeps whatever happens to the slot meanwhile.
StartDraft ==
  /\ apc = "chosen" /\ signedIn
  /\ inflight' = inflight \cup {cur}
  /\ apc' = "call"
  /\ late' = IF GateOpen THEN late ELSE late + 1
  /\ UNCHANGED <<queueVars, gateVars, pending, todo, cur, fails, skip, dispVars,
                 manualVars, drafts, dismissed, excused, boundVars>>

\* The call created a draft and reports it: the failure streak is cleared.
DraftCreated ==
  /\ apc = "call"
  /\ drafts' = Inc(drafts, cur)
  /\ fails' = [fails EXCEPT ![cur] = 0]
  /\ apc' = "mark"
  /\ UNCHANGED <<queueVars, gateVars, pending, todo, cur, inflight, skip,
                 dispVars, manualVars, dismissed, excused, late,
                 boundVars>>

\* Mutant of NetworkError: the row is removed although no draft is known.
NetworkErrorMarks ==
  /\ apc = "call"
  /\ fails' = [fails EXCEPT ![cur] = 0]
  /\ apc' = "mark"
  /\ UNCHANGED <<queueVars, gateVars, pending, todo, cur, inflight, skip,
                 dispVars, manualVars, histVars, boundVars>>

\* Category "network": the streak is reset, the row stays for the next drain.
\* Gmail may have created the draft although the reply was lost.
NetworkError ==
  /\ apc = "call"
  /\ \/ UNCHANGED <<drafts, excused, glitches>>
     \/ /\ Glitch
        /\ drafts' = Inc(drafts, cur)
        /\ excused' = Inc(excused, cur)
  /\ fails' = [fails EXCEPT ![cur] = 0]
  /\ Release /\ cur' = NoId /\ apc' = "item"
  /\ UNCHANGED <<queueVars, gateVars, pending, todo, skip, dispVars, manualVars,
                 dismissed, late, restarts, switches>>

\* maxAutoDraftFailures, and what a failure leaves of the streak and the skip
\* set.  Mutants: one failure late; the streak stays.
CapLate(id)    == fails[id] + 1 > MaxFailures
CapReached(id) == fails[id] + 1 >= MaxFailures

StreakKept(id) == IF CapReached(id) THEN fails[id] ELSE fails[id] + 1
Streak(id)     == IF CapReached(id) THEN 0 ELSE fails[id] + 1

GivenUp(id) == IF CapReached(id) THEN skip \cup {id} ELSE skip

\* Category "gmail": the fifth in a row hands the row to the user.
GmailError ==
  /\ apc = "call"
  /\ fails' = [fails EXCEPT ![cur] = Streak(cur)]
  /\ skip' = GivenUp(cur)
  /\ Release /\ cur' = NoId /\ apc' = "item"
  /\ UNCHANGED <<queueVars, gateVars, pending, todo, dispVars, manualVars,
                 histVars, boundVars>>

\* ErrInvalidGrant: the grant is dead, the row is skipped, the drain halts.
InvalidGrant ==
  /\ apc = "call"
  /\ signedIn' = FALSE
  /\ skip' = skip \cup {cur}
  /\ fails' = [fails EXCEPT ![cur] = 0]
  /\ Release /\ cur' = NoId /\ EndDrain
  /\ UNCHANGED <<queueVars, mode, paused, pending, dispVars, manualVars,
                 histVars, boundVars>>

\* ErrNotAuthenticated, from the start or when a 401 asks for a new token:
\* the drain halts, the row is not skipped.
NotAuthenticated ==
  /\ apc \in {"chosen", "call"} /\ ~signedIn
  /\ fails' = [fails EXCEPT ![cur] = 0]
  /\ Release /\ cur' = NoId /\ EndDrain
  /\ UNCHANGED <<queueVars, gateVars, pending, skip, dispVars, manualVars,
                 histVars, boundVars>>

\* MarkProcessed after success; its error is only logged.
MarkDrafted ==
  /\ apc = "mark"
  /\ MarkProcessed(cur)
  /\ Release /\ cur' = NoId /\ apc' = "item"
  /\ UNCHANGED <<gateVars, todo, fails, skip, dispVars, manualVars, drafts,
                 dismissed, late, restarts, switches>>

-----------------------------------------------------------------------------
(* CreateDraftForID: manual button and toast activation                    *)

\* The id is looked up in a snapshot (a missing row is a nil return) and the
\* call starts.  Neither inflight nor the skip set is consulted.
ManualStart(c, id) ==
  /\ mpc[c] = "idle" /\ id \in listed /\ signedIn
  /\ mpc' = [mpc EXCEPT ![c] = "call"]
  /\ mid' = [mid EXCEPT ![c] = id]
  /\ UNCHANGED <<queueVars, gateVars, pending, autoVars, skip, dispVars,
                 histVars, boundVars>>

\* Mutant of ManualCreated: the row is removed whatever the call returned.
ManualCreatedUnchecked(c) ==
  /\ mpc[c] = "call"
  /\ drafts' \in {drafts, Inc(drafts, mid[c])}
  /\ mpc' = [mpc EXCEPT ![c] = "mark"]
  /\ UNCHANGED <<queueVars, gateVars, pending, autoVars, skip, dispVars, mid,
                 dismissed, excused, late, boundVars>>

\* The draft exists; the row is removed next.
ManualCreated(c) ==
  /\ mpc[c] = "call"
  /\ drafts' = Inc(drafts, mid[c])
  /\ mpc' = [mpc EXCEPT ![c] = "mark"]
  /\ UNCHANGED <<queueVars, gateVars, pending, autoVars, skip, dispVars, mid,
                 dismissed, excused, late, boundVars>>

\* Any error: reported, nothing recorded; a dead grant is cleared.
ManualFails(c) ==
  /\ mpc[c] = "call"
  /\ signedIn' \in {signedIn, FALSE}
  /\ mpc' = [mpc EXCEPT ![c] = "idle"]
  /\ mid' = [mid EXCEPT ![c] = NoId]
  /\ UNCHANGED <<queueVars, mode, paused, pending, autoVars, skip, dispVars,
                 histVars, boundVars>>

ManualMark(c) ==
  /\ mpc[c] = "mark"
  /\ MarkProcessed(mid[c])
  /\ mpc' = [mpc EXCEPT ![c] = "idle"]
  /\ mid' = [mid EXCEPT ![c] = NoId]
  /\ UNCHANGED <<gateVars, autoVars, skip, dispVars, drafts, dismissed,
                 late, restarts, switches>>

-----------------------------------------------------------------------------
(* The dispatcher goroutine and its afterDispatch hook                     *)

\* queue-update is emitted.
Emit ==
  /\ dpc = "wait" /\ pending
  /\ pending' = FALSE
  /\ dpc' = "emitted"
  /\ UNCHANGED <<queueVars, gateVars, autoVars, skip, dsnap, manualVars,
                 histVars, boundVars>>

\* afterDispatch takes its own snapshot; arrival toasts follow.
DispatchSnapshot ==
  /\ dpc = "emitted"
  /\ dsnap' = listed
  /\ dpc' = "prune"
  /\ UNCHANGED <<queueVars, gateVars, pending, autoVars, skip, manualVars,
                 histVars, boundVars>>

\* pruneBacklogSkip with the ids of that snapshot.
PruneBacklogSkip ==
  /\ dpc = "prune"
  /\ skip' = skip \cap dsnap
  /\ dpc' = "wait" /\ dsnap' = {}
  /\ UNCHANGED <<queueVars, gateVars, pending, autoVars, manualVars, histVars,
                 boundVars>>

-----------------------------------------------------------------------------
\* The process ends anywhere (crash, session end, quit) and is started again:
\* files and settings survive, pause, backlogSkip, inflight and failCounts do
\* not; processExistingFiles lists what is on disk.
Restart ==
  /\ restarts < MaxRestarts
  /\ restarts' = restarts + 1
  /\ listed' = disk
  /\ excused' = [id \in Ids |->
                   IF id \in disk /\ (\/ apc = "mark" /\ cur = id
                                      \/ \E c \in Callers : mpc[c] = "mark" /\ mid[c] = id)
                   THEN excused[id] + 1 ELSE excused[id]]
  /\ paused' = FALSE /\ late' = 0
  /\ pending' = (disk # {})
  /\ apc' = "wait" /\ todo' = {} /\ cur' = NoId
  /\ inflight' = {} /\ fails' = [id \in Ids |-> 0] /\ skip' = {}
  /\ dpc' = "wait" /\ dsnap' = {}
  /\ mpc' = [c \in Callers |-> "idle"] /\ mid' = [c \in Callers |-> NoId]
  /\ UNCHANGED <<disk, arrived, mode, signedIn, drafts, dismissed, glitches, switches>>

Watcher == \E id \in Ids : Arrive(id) \/ LateInsert(id) \/ Unlist(id)

User ==
  \/ \E v \in BOOLEAN : SetPaused(v) \/ SetSignedIn(v)
  \/ \E v \in {"manual", "auto-draft"} : SetMode(v)
  \/ \E id \in Ids : DismissEmail(id)

Automode ==
  \/ BeginDrain \/ FinishDrain \/ StartDraft
  \/ \E id \in Ids : NextRow(id)
  \/ DraftCreated \/ NetworkError \/ GmailError \/ InvalidGrant \/ NotAuthenticated
  \/ MarkDrafted

Manual(c) ==
  \/ \E id \in Ids : ManualStart(c, id)
  \/ ManualCreated(c) \/ ManualFails(c) \/ ManualMark(c)

Dispatcher == Emit \/ DispatchSnapshot \/ PruneBacklogSkip

Next ==
  \/ Watcher \/ User \/ Automode \/ Dispatcher \/ Restart
  \/ \E c \in Callers : Manual(c)

Spec == Init /\ [][Next]_vars

\* The automode goroutine runs, and each of its calls returns: Gmail chooses
\* the outcome.  (A call that never returns blocks the goroutine: module Auth.)
Fairness == WF_vars(Automode)

FairSpec == Spec /\ Fairness

-----------------------------------------------------------------------------
(* Safety                                                                  *)

\* The in-flight set is exactly the row being drafted: every exit of drain
\* releases what it acquired, otherwise automode would never touch that row
\* again.
InflightIsCurrent == inflight = IF apc \in {"call", "mark"} THEN {cur} ELSE {}

\* Automode and every concurrent manual call can draft a row once before one of
\* them removes it; only a mishap that separates a draft from the deletion of
\* the file allows another round: a lost reply, a failed os.Remove, a late
\* insertion, a crash in between (draftOne and CreateDraftForID draft first and
\* remove after).  Without manual calls: one draft per row and mishap.
DraftsAccountedFor ==
  \A id \in Ids :
    drafts[id] <= (1 + Cardinality(Callers)) * (1 + excused[id])

\* A file leaves the queue only when its email was drafted or dismissed,
\* whatever crashes: no row is removed by a draft that was not created.
NothingLost ==
  \A id \in arrived \ disk : drafts[id] > 0 \/ id \in dismissed

\* Pause and manual mode take effect in the middle of a drain: at most the one
\* call whose row had already passed the gates still begins.
GatesStopDrain == late <= 1

\* A row that automode gave up on counts no failures: released for another
\* try, it has the full number of attempts again.
SkippedHasNoStreak == \A id \in skip : fails[id] = 0

\* No email gets two drafts when nothing fails (automode.go, "inflight map
\* prevents double-draft when the automode goroutine and a toast-activation
\* concurrent path both try to draft the same email").
NoDoubleDraft == \A id \in Ids : drafts[id] <= 1 + excused[id]

-----------------------------------------------------------------------------
(* Liveness                                                                *)

\* Once the network stays up: in auto-draft mode, signed in and not paused,
\* every row is drafted, or removed, or handed to the user after repeated
\* refusals.  One row's failures neither block the others nor retry for ever.
EventuallySettled ==
  (<>[][~NetworkError]_vars) =>
    \A id \in Ids :
      id \in listed
        ~> (drafts[id] > 0 \/ id \notin listed \/ id \in skip \/ ~GateOpen \/ ~signedIn)
=============================================================================

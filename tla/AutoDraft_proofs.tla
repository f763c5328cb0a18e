--------------------------- MODULE AutoDraft_proofs ---------------------------
(***************************************************************************)
(* Theorems about AutoDraft, for every set of rows, every finite set of    *)
(* manual calls and every bound.                                           *)
(***************************************************************************)
EXTENDS AutoDraft, FiniteSetTheorems, TLAPS

-----------------------------------------------------------------------------
(* Type correctness.                                                       *)

\* The program starts with values of these types.
LEMMA InitTypeOK == Init => TypeOK
  <1>1. 0 \in 0..MaxFailures - 1
    BY AutoDraftAssumption DEF AutoDraftAssumption
  <1> SUFFICES ASSUME Init PROVE TypeOK
    OBVIOUS
  <1>3. /\ fails \in [Ids -> 0..MaxFailures - 1]
        /\ mpc \in [Callers -> {"idle", "call", "mark"}]
        /\ mid \in [Callers -> Ids \cup {NoId}]
        /\ drafts \in [Ids -> Nat] /\ excused \in [Ids -> Nat]
    BY <1>1 DEF Init
  <1> QED BY <1>3 DEF Init, TypeOK

\* The watcher's and the user's actions keep the types.
LEMMA EnvironmentTypeOK ==
  ASSUME TypeOK, Watcher \/ User
  PROVE  TypeOK'
  <1> USE DEF TypeOK, queueVars, gateVars, autoVars, dispVars, manualVars,
              histVars, boundVars, Signal, Glitch, Switch, Inc
  <1>1. ASSUME NEW id \in Ids, Arrive(id) PROVE TypeOK'
    BY <1>1 DEF Arrive
  <1>2. ASSUME NEW id \in Ids, LateInsert(id) PROVE TypeOK'
    BY <1>2 DEF LateInsert
  <1>3. ASSUME NEW id \in Ids, Unlist(id) PROVE TypeOK'
    BY <1>3 DEF Unlist
  <1>4. ASSUME NEW v \in BOOLEAN, SetPaused(v) PROVE TypeOK'
    BY <1>4 DEF SetPaused, GateOpen
  <1>5. ASSUME NEW v \in BOOLEAN, SetSignedIn(v) PROVE TypeOK'
    BY <1>5 DEF SetSignedIn
  <1>6. ASSUME NEW v \in {"manual", "auto-draft"}, SetMode(v) PROVE TypeOK'
    BY <1>6 DEF SetMode, GateOpen
  <1>7. ASSUME NEW id \in Ids, DismissEmail(id) PROVE TypeOK'
    BY <1>7 DEF DismissEmail, Removed
  <1> QED BY <1>1, <1>2, <1>3, <1>4, <1>5, <1>6, <1>7 DEF Watcher, User

\* A streak that is not capped is below the cap.
LEMMA StreakType ==
  ASSUME TypeOK, NEW id \in Ids
  PROVE  Streak(id) \in 0..MaxFailures - 1 /\ 0 \in 0..MaxFailures - 1
  BY AutoDraftAssumption DEF AutoDraftAssumption, TypeOK, Streak, CapReached

\* MarkProcessed keeps the types of what it changes, whatever its outcome.
LEMMA MarkProcessedType ==
  ASSUME TypeOK, NEW id, MarkProcessed(id)
  PROVE  /\ listed' \subseteq Ids /\ disk' \subseteq Ids /\ arrived' = arrived
         /\ pending' \in BOOLEAN
         /\ excused' \in [Ids -> Nat] /\ glitches' \in Nat
  <1> USE DEF TypeOK
  <1>1. CASE Removed(id)
    BY <1>1 DEF Removed, Signal
  <1>2. CASE RemoveFails(id)
    BY <1>2 DEF RemoveFails, Glitch, Inc, queueVars
  <1>3. CASE AlreadyGone(id)
    BY <1>3 DEF AlreadyGone, queueVars
  <1> QED BY <1>1, <1>2, <1>3 DEF MarkProcessed

\* The automode goroutine keeps the types.
LEMMA AutomodeTypeOK ==
  ASSUME TypeOK, Automode
  PROVE  TypeOK'
  <1> USE DEF TypeOK, queueVars, gateVars, autoVars, dispVars, manualVars,
              histVars, boundVars, Signal, Glitch, Inc, Release, EndDrain
  <1>0. 0 \in 0..MaxFailures - 1 /\ NoId \notin Ids
    BY AutoDraftAssumption DEF AutoDraftAssumption
  <1>1. CASE BeginDrain
    BY <1>0, <1>1 DEF BeginDrain, PrunedFails
  <1>2. CASE FinishDrain
    BY <1>2 DEF FinishDrain
  <1>3. CASE StartDraft
    BY <1>3 DEF StartDraft
  <1>4. ASSUME NEW id \in Ids, NextRow(id) PROVE TypeOK'
    BY <1>0, <1>4 DEF NextRow
  <1>5. CASE DraftCreated
    BY <1>0, <1>5 DEF DraftCreated
  <1>6. CASE NetworkError
    BY <1>0, <1>6 DEF NetworkError
  <1>7. CASE GmailError
    <2>1. Streak(cur) \in 0..MaxFailures - 1 \/ cur \notin Ids
      BY StreakType
    <2> QED BY <1>7, <2>1 DEF GmailError, GivenUp
  <1>8. CASE InvalidGrant
    BY <1>0, <1>8 DEF InvalidGrant
  <1>9. CASE NotAuthenticated
    BY <1>0, <1>9 DEF NotAuthenticated
  <1>10. CASE MarkDrafted
    BY <1>10, MarkProcessedType DEF MarkDrafted
  <1> QED BY <1>1, <1>2, <1>3, <1>4, <1>5, <1>6, <1>7, <1>8, <1>9, <1>10 DEF Automode

\* So do the dispatcher, the manual calls and a restart.
LEMMA OthersTypeOK ==
  ASSUME TypeOK,
         Dispatcher \/ Restart \/ \E c \in Callers : Manual(c)
  PROVE  TypeOK'
  <1> USE DEF TypeOK, queueVars, gateVars, autoVars, dispVars, manualVars,
              histVars, boundVars, Signal, Glitch, Inc
  <1>0. 0 \in 0..MaxFailures - 1 /\ NoId \notin Ids
    BY AutoDraftAssumption DEF AutoDraftAssumption
  <1>1. CASE Dispatcher
    BY <1>1 DEF Dispatcher, Emit, DispatchSnapshot, PruneBacklogSkip
  <1>2. CASE Restart
    <2>1. excused' \in [Ids -> Nat]
      BY <1>2 DEF Restart
    <2>2. mpc' \in [Callers -> {"idle", "call", "mark"}]
          /\ mid' \in [Callers -> Ids \cup {NoId}]
      BY <1>2 DEF Restart
    <2>3. fails' \in [Ids -> 0..MaxFailures - 1]
      BY <1>0, <1>2 DEF Restart
    <2>4. /\ \A c \in Callers : mid'[c] = NoId <=> mpc'[c] = "idle"
          /\ drafts' \in [Ids -> Nat]
      BY <1>2 DEF Restart
    <2>5. /\ pending' \in BOOLEAN /\ paused' \in BOOLEAN
          /\ mode' \in {"manual", "auto-draft"} /\ signedIn' \in BOOLEAN
      BY <1>2 DEF Restart
    <2>6. /\ late' \in Nat /\ glitches' \in Nat /\ restarts' \in Nat
          /\ switches' \in Nat
      BY <1>2 DEF Restart
    <2> QED BY <1>2, <2>1, <2>2, <2>3, <2>4, <2>5, <2>6 DEF Restart
  <1>3. ASSUME NEW c \in Callers, Manual(c) PROVE TypeOK'
    <2>1. ASSUME NEW id \in Ids, ManualStart(c, id) PROVE TypeOK'
      BY <1>0, <2>1 DEF ManualStart
    <2>2. CASE ManualCreated(c)
      BY <2>2 DEF ManualCreated
    <2>3. CASE ManualFails(c)
      BY <2>3 DEF ManualFails
    <2>4. CASE ManualMark(c)
      <3>1. /\ mpc' \in [Callers -> {"idle", "call", "mark"}]
            /\ mid' \in [Callers -> Ids \cup {NoId}]
            /\ \A d \in Callers : mid'[d] = NoId <=> mpc'[d] = "idle"
        BY <1>0, <2>4 DEF ManualMark
      <3>2. MarkProcessed(mid[c])
        BY <2>4 DEF ManualMark
      <3> QED BY <2>4, <3>1, <3>2, MarkProcessedType DEF ManualMark
    <2> QED BY <1>3, <2>1, <2>2, <2>3, <2>4 DEF Manual
  <1> QED BY <1>1, <1>2, <1>3
\* Together: the types are inductive.
LEMMA NextTypeOK == TypeOK /\ [Next]_vars => TypeOK'
  <1> SUFFICES ASSUME TypeOK, [Next]_vars PROVE TypeOK'
    OBVIOUS
  <1>1. CASE UNCHANGED vars
    BY <1>1 DEF TypeOK, vars, queueVars, gateVars, autoVars, dispVars, manualVars,
                histVars, boundVars
  <1> QED BY <1>1, EnvironmentTypeOK, AutomodeTypeOK, OthersTypeOK DEF Next

\* Every variable keeps its type; in particular a row is current exactly while
\* automode works on it, and a streak never reaches maxAutoDraftFailures.
THEOREM TypeCorrect == Spec => []TypeOK
  BY InitTypeOK, NextTypeOK, PTL DEF Spec

-----------------------------------------------------------------------------
(* The control of the automode goroutine: what it holds and what it counts *)
(* follows from where it is.                                               *)

\* No call begins once the gates are closed unless its row had passed them.
GateInv ==
  /\ late <= 1
  /\ GateOpen \/ apc = "chosen" => late = 0

\* A row in the hands of automode is not skipped.
StreakInv ==
  /\ SkippedHasNoStreak
  /\ apc \in {"chosen", "call"} => cur \notin skip

\* A row about to be removed has a draft.
LossInv ==
  /\ NothingLost
  /\ apc = "mark" => drafts[cur] > 0
  /\ \A c \in Callers : mpc[c] = "mark" => drafts[mid[c]] > 0

ControlInv == InflightIsCurrent /\ GateInv /\ StreakInv /\ LossInv

\* Nothing is held, counted or promised at the start.
LEMMA InitControl == Init => ControlInv
  BY DEF Init, ControlInv, InflightIsCurrent, GateInv, StreakInv, LossInv,
         SkippedHasNoStreak, NothingLost

\* Every exit of draftOne releases what tryAcquire took.
LEMMA InflightStep ==
  ASSUME TypeOK, InflightIsCurrent, [Next]_vars
  PROVE  InflightIsCurrent'
  <1> USE DEF queueVars, gateVars, autoVars, dispVars, manualVars, histVars, boundVars
  <1> USE DEF InflightIsCurrent, TypeOK
  <1>1. CASE UNCHANGED vars
    BY <1>1 DEF vars
  <1>2. CASE Watcher \/ User
    BY <1>2 DEF Watcher, User, Arrive, LateInsert, Unlist, SetPaused, SetSignedIn,
                SetMode, DismissEmail
  <1>3. CASE Automode
    BY <1>3 DEF Automode, BeginDrain, FinishDrain, StartDraft, NextRow, DraftCreated,
                NetworkError, GmailError, InvalidGrant, NotAuthenticated,
                MarkDrafted, Release, EndDrain
  <1>4. CASE Dispatcher \/ Restart
    BY <1>4 DEF Dispatcher, Emit, DispatchSnapshot, PruneBacklogSkip, Restart
  <1>5. CASE \E c \in Callers : Manual(c)
    BY <1>5 DEF Manual, ManualStart, ManualCreated, ManualFails, ManualMark
  <1> QED BY <1>1, <1>2, <1>3, <1>4, <1>5 DEF Next

\* A drain looks at the gates again before every row, and opening them starts
\* a new count.
LEMMA GateStep ==
  ASSUME TypeOK, GateInv, [Next]_vars
  PROVE  GateInv'
  <1> USE DEF queueVars, gateVars, autoVars, dispVars, manualVars, histVars, boundVars
  <1> USE DEF GateInv, GateOpen, TypeOK
  <1>1. CASE UNCHANGED vars
    BY <1>1 DEF vars
  <1>2. CASE Watcher \/ User
    BY <1>2 DEF Watcher, User, Arrive, LateInsert, Unlist, SetPaused, SetSignedIn,
                SetMode, DismissEmail
  <1>3. CASE Automode
    BY <1>3 DEF Automode, BeginDrain, FinishDrain, StartDraft, NextRow, GateAgain,
                DraftCreated, NetworkError, GmailError, InvalidGrant,
                NotAuthenticated, MarkDrafted, EndDrain
  <1>4. CASE Dispatcher \/ Restart
    BY <1>4 DEF Dispatcher, Emit, DispatchSnapshot, PruneBacklogSkip, Restart
  <1>5. CASE \E c \in Callers : Manual(c)
    <2>1. UNCHANGED <<late, mode, paused, apc>>
      BY <1>5 DEF Manual, ManualStart, ManualCreated, ManualFails, ManualMark
    <2> QED BY <2>1
  <1> QED BY <1>1, <1>2, <1>3, <1>4, <1>5 DEF Next

\* A streak grows only for the current row, which is not skipped, and the
\* failure that skips it ends the streak.
LEMMA StreakStep ==
  ASSUME TypeOK, StreakInv, [Next]_vars
  PROVE  StreakInv'
  <1> USE DEF queueVars, gateVars, autoVars, dispVars, manualVars, histVars, boundVars
  <1> USE DEF StreakInv, SkippedHasNoStreak, TypeOK
  <1>1. CASE UNCHANGED vars
    BY <1>1 DEF vars
  <1>2. CASE Watcher \/ User
    BY <1>2 DEF Watcher, User, Arrive, LateInsert, Unlist, SetPaused, SetSignedIn,
                SetMode, DismissEmail
  <1>3. CASE Automode
    BY <1>3 DEF Automode, BeginDrain, FinishDrain, StartDraft, NextRow, PrunedFails,
                DraftCreated, NetworkError, GmailError, InvalidGrant,
                NotAuthenticated, MarkDrafted, EndDrain, Streak, GivenUp
  <1>4. CASE Dispatcher \/ Restart
    BY <1>4 DEF Dispatcher, Emit, DispatchSnapshot, PruneBacklogSkip, Restart
  <1>5. CASE \E c \in Callers : Manual(c)
    BY <1>5 DEF Manual, ManualStart, ManualCreated, ManualFails, ManualMark
  <1> QED BY <1>1, <1>2, <1>3, <1>4, <1>5 DEF Next

\* A removal follows a draft: automode and the manual calls remove a row only
\* after the call that drafted it, and a dismissal is recorded as such.
LEMMA LossStep ==
  ASSUME TypeOK, LossInv, [Next]_vars
  PROVE  LossInv'
  <1> USE DEF queueVars, gateVars, autoVars, dispVars, manualVars, histVars, boundVars
  <1> USE DEF LossInv, NothingLost, TypeOK
  <1>0. ASSUME NEW id \in Ids, MarkProcessed(id), drafts[id] > 0, drafts' = drafts,
               dismissed' = dismissed
        PROVE  NothingLost'
    BY <1>0 DEF MarkProcessed, Removed, RemoveFails, AlreadyGone
  <1>1. CASE UNCHANGED vars
    BY <1>1 DEF vars
  <1>2. CASE Watcher \/ User
    BY <1>2 DEF Watcher, User, Arrive, LateInsert, Unlist, SetPaused, SetSignedIn,
                SetMode, DismissEmail, Removed
  <1>3. CASE Automode
    <2>1. CASE DraftCreated
      BY <2>1 DEF DraftCreated, Inc
    <2>2. CASE NetworkError
      BY <2>2 DEF NetworkError, Inc
    <2>3. CASE MarkDrafted
      BY <1>0, <2>3 DEF MarkDrafted
    <2> QED
      BY <1>3, <2>1, <2>2, <2>3
         DEF Automode, BeginDrain, FinishDrain, StartDraft, NextRow, GmailError,
             InvalidGrant, NotAuthenticated, EndDrain
  <1>4. CASE Dispatcher \/ Restart
    BY <1>4 DEF Dispatcher, Emit, DispatchSnapshot, PruneBacklogSkip, Restart
  <1>5. ASSUME NEW c \in Callers, Manual(c) PROVE LossInv'
    <2>1. ASSUME NEW id \in Ids, ManualStart(c, id) PROVE LossInv'
      BY <2>1 DEF ManualStart
    <2>2. CASE ManualCreated(c)
      BY <2>2 DEF ManualCreated, Inc
    <2>3. CASE ManualFails(c)
      BY <2>3 DEF ManualFails
    <2>4. CASE ManualMark(c)
      <3>1. NothingLost'
        BY <1>0, <2>4 DEF ManualMark
      <3> QED BY <2>4, <3>1 DEF ManualMark
    <2> QED BY <1>5, <2>1, <2>2, <2>3, <2>4 DEF Manual
  <1> QED BY <1>1, <1>2, <1>3, <1>4, <1>5 DEF Next

\* The control invariant: the four parts above are inductive given the types.
THEOREM ControlCorrect == Spec => []ControlInv
  <1>1. TypeOK /\ ControlInv /\ [Next]_vars => ControlInv'
    BY InflightStep, GateStep, StreakStep, LossStep DEF ControlInv
  <1> QED BY <1>1, InitControl, TypeCorrect, PTL DEF Spec

-----------------------------------------------------------------------------
(* The budget of drafts.                                                   *)

Round == 1 + Cardinality(Callers)

\* The manual calls that may still draft id, and those about to remove it.
OpenCalls(id)    == {c \in Callers : mpc[c] = "call" /\ mid[c] = id}
MarkingCalls(id) == {c \in Callers : mpc[c] = "mark" /\ mid[c] = id}

\* The same for automode.
AutoOpen(id)    == IF id \in todo \/ (apc \in {"chosen", "call"} /\ cur = id) THEN 1 ELSE 0
AutoMarking(id) == IF apc = "mark" /\ cur = id THEN 1 ELSE 0

\* A listed row was drafted only by those that have yet to remove it, and for
\* its mishaps; of an unlisted row, what may still be drafted is in the budget.
ListedBudget(id) ==
  drafts[id] <= Round * excused[id] + AutoMarking(id) + Cardinality(MarkingCalls(id))
UnlistedBudget(id) ==
  drafts[id] + AutoOpen(id) + Cardinality(OpenCalls(id)) <= Round * excused[id] + Round

\* Nobody knows a row before it arrived, and a file is listed.
KnownInv ==
  /\ disk \subseteq listed /\ listed \subseteq arrived /\ todo \subseteq arrived
  /\ cur # NoId => cur \in arrived
  /\ apc # "wait" => cur \notin todo
  /\ \A c \in Callers : mid[c] # NoId => mid[c] \in arrived
  /\ \A id \in Ids \ arrived : drafts[id] = 0

Budget(id) == IF id \in listed THEN ListedBudget(id) ELSE UnlistedBudget(id)

BudgetInv == \A id \in Ids : Budget(id)
\* Rows enter the queue through Arrive only, and every other step works on
\* rows it took from a snapshot.
LEMMA KnownStep ==
  ASSUME TypeOK, KnownInv, [Next]_vars
  PROVE  KnownInv'
  <1> USE DEF queueVars, gateVars, autoVars, dispVars, manualVars, histVars, boundVars
  <1> USE DEF KnownInv, TypeOK
  <1>0. NoId \notin Ids
    BY AutoDraftAssumption DEF AutoDraftAssumption
  <1>1. ASSUME NEW id, MarkProcessed(id)
        PROVE  disk' \subseteq listed' /\ listed' \subseteq listed /\ arrived' = arrived
    BY <1>1 DEF MarkProcessed, Removed, RemoveFails, AlreadyGone
  <1>2. CASE UNCHANGED vars
    BY <1>2 DEF vars
  <1>3. CASE Watcher \/ User
    BY <1>3 DEF Watcher, User, Arrive, LateInsert, Unlist, SetPaused, SetSignedIn,
                SetMode, DismissEmail, Removed
  <1>4. CASE Automode
    <2>1. CASE DraftCreated
      BY <2>1 DEF DraftCreated, Inc
    <2>2. CASE NetworkError
      <3>1. /\ UNCHANGED <<queueVars, todo, mid>>
            /\ cur' = NoId /\ cur \in arrived
        BY <2>2 DEF NetworkError
      <3>2. \A id \in Ids \ arrived : drafts'[id] = drafts[id]
        BY <2>2, <3>1 DEF NetworkError, Inc
      <3> QED BY <1>0, <2>2, <3>1, <3>2 DEF NetworkError
    <2>3. CASE MarkDrafted
      <3>1. disk' \subseteq listed' /\ listed' \subseteq listed /\ arrived' = arrived
        BY <1>1, <2>3 DEF MarkDrafted
      <3>2. UNCHANGED <<todo, mid, drafts>> /\ cur' = NoId /\ cur \notin todo
        BY <2>3 DEF MarkDrafted
      <3> QED BY <1>0, <3>1, <3>2
    <2>4. ASSUME NEW id \in Ids, NextRow(id) PROVE KnownInv'
      BY <1>0, <2>4 DEF NextRow
    <2>5. CASE BeginDrain
      BY <1>0, <2>5 DEF BeginDrain
    <2>6. CASE FinishDrain \/ StartDraft \/ GmailError \/ InvalidGrant \/ NotAuthenticated
      <3>1. UNCHANGED <<queueVars, mid, drafts>> /\ cur' \in {cur, NoId}
            /\ todo' \subseteq todo
        BY <2>6 DEF FinishDrain, StartDraft, GmailError, InvalidGrant, NotAuthenticated, EndDrain
      <3>2. apc' # "wait" => cur' \notin todo'
        BY <1>0, <2>6
           DEF FinishDrain, StartDraft, GmailError, InvalidGrant, NotAuthenticated, EndDrain
      <3> QED BY <3>1, <3>2
    <2> QED BY <1>4, <2>1, <2>2, <2>3, <2>4, <2>5, <2>6 DEF Automode
  <1>5. CASE Dispatcher \/ Restart
    BY <1>5 DEF Dispatcher, Emit, DispatchSnapshot, PruneBacklogSkip, Restart
  <1>6. ASSUME NEW c \in Callers, Manual(c) PROVE KnownInv'
    <2>1. ASSUME NEW id \in Ids, ManualStart(c, id) PROVE KnownInv'
      BY <2>1 DEF ManualStart
    <2>2. CASE ManualCreated(c)
      BY <2>2 DEF ManualCreated, Inc
    <2>3. CASE ManualFails(c)
      BY <2>3 DEF ManualFails
    <2>4. CASE ManualMark(c)
      BY <1>1, <2>4 DEF ManualMark
    <2> QED BY <1>6, <2>1, <2>2, <2>3, <2>4 DEF Manual
  <1> QED BY <1>2, <1>3, <1>4, <1>5, <1>6 DEF Next

\* The arithmetic of rounds.
LEMMA RoundStep ==
  /\ Round \in Nat /\ Round >= 1 /\ Round' = Round
  /\ \A e \in Nat : Round * e \in Nat /\ Round * (e + 1) = Round * e + Round
  <1>1. Cardinality(Callers) \in Nat
    BY AutoDraftAssumption, FS_CardinalityType DEF AutoDraftAssumption
  <1>2. Round \in Nat /\ Round >= 1 /\ Round' = Round
    BY <1>1 DEF Round
  <1>3. ASSUME NEW r \in Nat, NEW e \in Nat
        PROVE  r * e \in Nat /\ r * (e + 1) = r * e + r
    OBVIOUS
  <1> QED BY <1>2, <1>3

\* A call is open or marking, not both: together at most all callers.
LEMMA CallCounts ==
  ASSUME TypeOK, NEW id
  PROVE  /\ IsFiniteSet(OpenCalls(id)) /\ IsFiniteSet(MarkingCalls(id))
         /\ Cardinality(OpenCalls(id)) \in Nat /\ Cardinality(MarkingCalls(id)) \in Nat
         /\ 1 + Cardinality(OpenCalls(id)) + Cardinality(MarkingCalls(id)) <= Round
  <1> DEFINE O == OpenCalls(id)
             M == MarkingCalls(id)
  <1>1. O \subseteq Callers /\ M \subseteq Callers /\ O \cap M = {}
    BY DEF OpenCalls, MarkingCalls
  <1>2. IsFiniteSet(Callers) /\ Cardinality(Callers) \in Nat
    BY AutoDraftAssumption, FS_CardinalityType DEF AutoDraftAssumption
  <1> HIDE DEF O, M
  <1>3. IsFiniteSet(O) /\ IsFiniteSet(M)
    BY <1>1, <1>2, FS_Subset
  <1>4. Cardinality(O) \in Nat /\ Cardinality(M) \in Nat
    BY <1>3, FS_CardinalityType
  <1>5. Cardinality(O \cup M) = Cardinality(O) + Cardinality(M)
    <2>1. Cardinality(O \cup M) = Cardinality(O) + Cardinality(M) - Cardinality(O \cap M)
      BY <1>3, FS_Union
    <2>2. Cardinality(O \cap M) = 0
      BY <1>1, FS_EmptySet
    <2> QED BY <1>4, <2>1, <2>2
  <1>6. Cardinality(O \cup M) <= Cardinality(Callers)
    BY <1>1, <1>2, FS_Subset
  <1>7. 1 + Cardinality(O) + Cardinality(M) <= Round
    BY <1>2, <1>4, <1>5, <1>6 DEF Round
  <1> QED BY <1>3, <1>4, <1>7 DEF O, M

\* What is still to come for a listed row fits into one round.
LEMMA ListedFits ==
  ASSUME TypeOK, KnownInv, NEW id \in Ids, ListedBudget(id)
  PROVE  UnlistedBudget(id)
  <1>1. AutoOpen(id) + AutoMarking(id) <= 1
    BY DEF KnownInv, AutoOpen, AutoMarking
  <1>2. AutoOpen(id) \in Nat /\ AutoMarking(id) \in Nat
    BY DEF AutoOpen, AutoMarking
  <1>3. drafts[id] \in Nat /\ Round * excused[id] \in Nat /\ Round \in Nat
    BY RoundStep DEF TypeOK
  <1> QED BY <1>1, <1>2, <1>3, CallCounts DEF ListedBudget, UnlistedBudget

\* Hence the budget of an unlisted row always holds.
LEMMA BudgetFits ==
  ASSUME TypeOK, KnownInv, BudgetInv, NEW id \in Ids
  PROVE  UnlistedBudget(id)
  BY ListedFits DEF BudgetInv, Budget
\* A step that drafts nothing and excuses nothing keeps the budget of a row,
\* listed or just unlisted, when nobody new may draft it unseen.
LEMMA BudgetKept ==
  ASSUME TypeOK, TypeOK', KnownInv, BudgetInv, NEW id \in Ids,
         drafts'[id] = drafts[id], excused'[id] = excused[id],
         id \in listed' => id \in listed,
         AutoMarking(id)' >= AutoMarking(id) \/ id \notin listed',
         MarkingCalls(id)' = MarkingCalls(id) \/ id \notin listed',
         AutoOpen(id)' <= AutoOpen(id) \/ id \in listed',
         OpenCalls(id)' \subseteq OpenCalls(id) \/ id \in listed'
  PROVE  Budget(id)'
  <1>1. drafts[id] \in Nat /\ Round * excused[id] \in Nat
    BY RoundStep DEF TypeOK
  <1>2. /\ AutoOpen(id) \in Nat /\ AutoMarking(id) \in Nat
        /\ AutoOpen(id)' \in Nat /\ AutoMarking(id)' \in Nat
    BY DEF AutoOpen, AutoMarking
  <1>3. CASE id \in listed'
    <2>1. Cardinality(MarkingCalls(id))' = Cardinality(MarkingCalls(id))
      BY <1>3
    <2>2. ListedBudget(id)
      BY <1>3 DEF BudgetInv, Budget
    <2>3. ListedBudget(id)'
      BY <1>1, <1>2, <1>3, <2>1, <2>2, RoundStep, CallCounts DEF ListedBudget
    <2> QED BY <1>3, <2>3 DEF Budget
  <1>4. CASE id \notin listed'
    <2>1. /\ Cardinality(OpenCalls(id))' <= Cardinality(OpenCalls(id))
          /\ Cardinality(OpenCalls(id))' \in Nat
      <3>1. IsFiniteSet(OpenCalls(id)) /\ OpenCalls(id)' \in SUBSET OpenCalls(id)
        BY <1>4, CallCounts
      <3>2. IsFiniteSet(OpenCalls(id)')
            /\ Cardinality(OpenCalls(id)') <= Cardinality(OpenCalls(id))
        BY <3>1, FS_Subset
      <3> QED BY <3>2, FS_CardinalityType
    <2>2. UnlistedBudget(id)
      BY BudgetFits
    <2>3. UnlistedBudget(id)'
      BY <1>1, <1>2, <1>4, <2>1, <2>2, RoundStep, CallCounts DEF UnlistedBudget
    <2> QED BY <1>4, <2>3 DEF Budget
  <1> QED BY <1>3, <1>4
\* One more excuse opens a round for any row.
LEMMA BudgetExcused ==
  ASSUME TypeOK, TypeOK', KnownInv, BudgetInv, NEW id \in Ids,
         drafts'[id] = drafts[id], excused'[id] = excused[id] + 1,
         AutoOpen(id)' <= AutoOpen(id),
         OpenCalls(id)' = OpenCalls(id)
  PROVE  Budget(id)'
  <1>1. /\ drafts[id] \in Nat /\ Round * excused[id] \in Nat
        /\ Round * excused'[id] = Round * excused[id] + Round
    BY RoundStep DEF TypeOK
  <1>2. /\ AutoOpen(id) \in Nat /\ AutoMarking(id)' \in Nat /\ AutoOpen(id)' \in Nat
    BY DEF AutoOpen, AutoMarking
  <1>3. /\ Cardinality(MarkingCalls(id))' \in Nat
        /\ Cardinality(OpenCalls(id))' = Cardinality(OpenCalls(id))
        /\ Cardinality(OpenCalls(id)) \in Nat
    <2>1. IsFiniteSet(MarkingCalls(id)')
      <3>1. MarkingCalls(id)' \subseteq Callers /\ IsFiniteSet(Callers)
        BY AutoDraftAssumption DEF AutoDraftAssumption, MarkingCalls
      <3> QED BY <3>1, FS_Subset
    <2> QED BY <2>1, FS_CardinalityType, CallCounts
  <1>4. UnlistedBudget(id)
    BY BudgetFits
  <1>5. ListedBudget(id)' /\ UnlistedBudget(id)'
    BY <1>1, <1>2, <1>3, <1>4, RoundStep DEF ListedBudget, UnlistedBudget
  <1> QED BY <1>5 DEF Budget

\* The watcher and the user draft nothing; a late insertion is an excuse.
LEMMA EnvironmentBudget ==
  ASSUME TypeOK, TypeOK', KnownInv, BudgetInv, Watcher \/ User
  PROVE  BudgetInv'
  <1> USE DEF queueVars, gateVars, autoVars, dispVars, manualVars, histVars, boundVars
  <1> SUFFICES ASSUME NEW r \in Ids PROVE Budget(r)'
    BY DEF BudgetInv
  <1>1. UNCHANGED <<apc, cur, todo, mpc, mid, drafts>>
    BY DEF Watcher, User, Arrive, LateInsert, Unlist, SetPaused, SetSignedIn,
           SetMode, DismissEmail
  <1>2. /\ AutoOpen(r)' = AutoOpen(r) /\ AutoMarking(r)' = AutoMarking(r)
        /\ OpenCalls(r)' = OpenCalls(r) /\ MarkingCalls(r)' = MarkingCalls(r)
    BY <1>1 DEF AutoOpen, AutoMarking, OpenCalls, MarkingCalls
  <1>3. AutoOpen(r) \in Nat /\ AutoMarking(r) \in Nat
    BY DEF AutoOpen, AutoMarking
  <1>4. ASSUME UNCHANGED excused, r \in listed' => r \in listed PROVE Budget(r)'
    BY <1>1, <1>2, <1>3, <1>4, BudgetKept
  <1>5. ASSUME NEW id \in Ids, Arrive(id) PROVE Budget(r)'
    <2>1. CASE r = id
      <3>1. drafts'[r] = 0 /\ excused'[r] \in Nat /\ r \in listed'
        BY <1>1, <1>5, <2>1 DEF Arrive, KnownInv, TypeOK
      <3>2. Cardinality(MarkingCalls(r))' = Cardinality(MarkingCalls(r))
        BY <1>2
      <3>3. ListedBudget(r)'
        BY <1>2, <1>3, <3>1, <3>2, RoundStep, CallCounts DEF ListedBudget
      <3> QED BY <3>1, <3>3 DEF Budget
    <2>2. CASE r # id
      BY <1>4, <1>5, <2>2 DEF Arrive
    <2> QED BY <2>1, <2>2
  <1>6. ASSUME NEW id \in Ids, LateInsert(id) PROVE Budget(r)'
    <2>1. CASE r = id
      <3>1. excused'[r] = excused[r] + 1
        BY <1>6, <2>1 DEF LateInsert, Inc, TypeOK
      <3> QED BY <1>1, <1>2, <1>3, <3>1, BudgetExcused
    <2>2. CASE r # id
      <3>1. excused'[r] = excused[r] /\ (r \in listed' => r \in listed)
        BY <1>6, <2>2 DEF LateInsert, Inc, TypeOK
      <3> QED BY <1>1, <1>2, <1>3, <3>1, BudgetKept
    <2> QED BY <2>1, <2>2
  <1>7. ASSUME NEW id \in Ids, Unlist(id) \/ DismissEmail(id) PROVE Budget(r)'
    BY <1>4, <1>7 DEF Unlist, DismissEmail, Removed
  <1>8. ASSUME UNCHANGED <<excused, listed>> PROVE Budget(r)'
    BY <1>4, <1>8
  <1> QED
    BY <1>5, <1>6, <1>7, <1>8 DEF Watcher, User, SetPaused, SetMode, SetSignedIn
\* MarkProcessed of a row settles one draft: it removes the row or excuses it.
LEMMA MarkSettles ==
  ASSUME TypeOK, TypeOK', KnownInv, BudgetInv, NEW id \in Ids, NEW r \in Ids,
         MarkProcessed(id), drafts' = drafts,
         AutoOpen(r)' = AutoOpen(r), OpenCalls(r)' = OpenCalls(r),
         r # id => /\ AutoMarking(r)' = AutoMarking(r)
                   /\ MarkingCalls(r)' = MarkingCalls(r)
  PROVE  Budget(r)'
  <1>1. AutoOpen(r) \in Nat /\ AutoMarking(r) \in Nat
    BY DEF AutoOpen, AutoMarking
  <1>2. CASE r # id
    <2>1. excused'[r] = excused[r] /\ (r \in listed' => r \in listed)
      BY <1>2 DEF MarkProcessed, Removed, RemoveFails, AlreadyGone, Inc, TypeOK, queueVars
    <2> QED BY <1>1, <1>2, <2>1, BudgetKept
  <1>3. CASE r = id
    <2>1. CASE Removed(id) \/ AlreadyGone(id)
      <3>1. excused'[r] = excused[r] /\ r \notin listed'
        BY <1>3, <2>1 DEF Removed, AlreadyGone, queueVars
      <3> QED BY <1>1, <3>1, BudgetKept
    <2>2. CASE RemoveFails(id)
      <3>1. excused'[r] = excused[r] + 1
        BY <1>3, <2>2 DEF RemoveFails, Inc, TypeOK
      <3> QED BY <1>1, <3>1, BudgetExcused
    <2> QED BY <2>1, <2>2 DEF MarkProcessed
  <1> QED BY <1>2, <1>3

\* Automode drafts the current row once, then marks it.
LEMMA AutomodeBudget ==
  ASSUME TypeOK, TypeOK', KnownInv, BudgetInv, Automode
  PROVE  BudgetInv'
  <1> USE DEF queueVars, gateVars, autoVars, dispVars, manualVars, histVars, boundVars
  <1> SUFFICES ASSUME NEW r \in Ids PROVE Budget(r)'
    BY DEF BudgetInv
  <1>0. NoId \notin Ids /\ (cur = NoId <=> apc \in {"wait", "item"})
    BY AutoDraftAssumption DEF AutoDraftAssumption, TypeOK
  <1>1. UNCHANGED <<mpc, mid>>
    BY DEF Automode, BeginDrain, FinishDrain, NextRow, StartDraft, DraftCreated,
           NetworkError, GmailError, InvalidGrant, NotAuthenticated, MarkDrafted
  <1>2. OpenCalls(r)' = OpenCalls(r) /\ MarkingCalls(r)' = MarkingCalls(r)
    BY <1>1 DEF OpenCalls, MarkingCalls
  <1>3. /\ AutoOpen(r) \in Nat /\ AutoMarking(r) \in Nat
        /\ AutoOpen(r)' \in Nat /\ AutoMarking(r)' \in Nat
    BY DEF AutoOpen, AutoMarking
  <1>4. CASE BeginDrain
    <2>1. UNCHANGED <<drafts, excused, listed>> /\ AutoMarking(r)' >= AutoMarking(r)
      BY <1>0, <1>4 DEF BeginDrain, AutoMarking
    <2>2. AutoOpen(r)' <= AutoOpen(r) \/ r \in listed'
      BY <1>0, <1>4 DEF BeginDrain, AutoOpen
    <2> QED BY <1>2, <2>1, <2>2, BudgetKept
  <1>5. CASE \/ FinishDrain \/ StartDraft \/ GmailError \/ InvalidGrant \/ NotAuthenticated
             \/ \E id \in Ids : NextRow(id)
    <2>1. UNCHANGED <<drafts, excused, listed>>
      BY <1>5 DEF FinishDrain, StartDraft, GmailError, InvalidGrant, NotAuthenticated, NextRow
    <2>2. AutoMarking(r)' >= AutoMarking(r)
      BY <1>0, <1>5 DEF FinishDrain, StartDraft, GmailError, InvalidGrant,
                        NotAuthenticated, NextRow, AutoMarking, EndDrain
    <2>3. AutoOpen(r)' <= AutoOpen(r)
      BY <1>0, <1>5 DEF FinishDrain, StartDraft, GmailError, InvalidGrant,
                        NotAuthenticated, NextRow, AutoOpen, EndDrain
    <2> QED BY <1>2, <2>1, <2>2, <2>3, BudgetKept
  <1>6. CASE DraftCreated
    <2>1. CASE r # cur
      <3>1. UNCHANGED <<excused, listed>> /\ drafts'[r] = drafts[r]
        BY <1>6, <2>1 DEF DraftCreated, Inc, TypeOK
      <3>2. AutoMarking(r)' = AutoMarking(r) /\ AutoOpen(r)' = AutoOpen(r)
        BY <1>6, <2>1 DEF DraftCreated, AutoMarking, AutoOpen
      <3> QED BY <1>2, <1>3, <3>1, <3>2, BudgetKept
    <2>2. CASE r = cur
      <3>1. UNCHANGED <<excused, listed>> /\ drafts'[r] = drafts[r] + 1
        BY <1>6, <2>2 DEF DraftCreated, Inc, TypeOK
      <3>2. /\ AutoMarking(r) = 0 /\ AutoMarking(r)' = 1
            /\ AutoOpen(r) = 1 /\ AutoOpen(r)' = 0
        BY <1>6, <2>2 DEF DraftCreated, AutoMarking, AutoOpen, KnownInv
      <3>3. drafts[r] \in Nat /\ Round * excused[r] \in Nat /\ Round' = Round
        BY RoundStep DEF TypeOK
      <3>4. /\ Cardinality(OpenCalls(r))' = Cardinality(OpenCalls(r))
            /\ Cardinality(MarkingCalls(r))' = Cardinality(MarkingCalls(r))
        BY <1>2
      <3>5. ListedBudget(r) => ListedBudget(r)'
        BY <3>1, <3>2, <3>3, <3>4, CallCounts DEF ListedBudget
      <3>6. UnlistedBudget(r) => UnlistedBudget(r)'
        BY <3>1, <3>2, <3>3, <3>4, RoundStep, CallCounts DEF UnlistedBudget
      <3> QED BY <3>1, <3>5, <3>6 DEF BudgetInv, Budget
    <2> QED BY <2>1, <2>2
  <1>7. CASE NetworkError
    <2>1. AutoMarking(r) = 0 /\ AutoOpen(r)' <= AutoOpen(r) /\ UNCHANGED listed
      BY <1>0, <1>7 DEF NetworkError, AutoMarking, AutoOpen
    <2>2. CASE drafts'[r] = drafts[r] /\ excused'[r] = excused[r]
      BY <1>2, <1>3, <2>1, <2>2, BudgetKept
    <2>3. CASE drafts'[r] = drafts[r] + 1 /\ excused'[r] = excused[r] + 1
      <3>1. /\ drafts[r] \in Nat /\ Round * excused[r] \in Nat /\ Round' = Round
            /\ Round * excused'[r] = Round * excused[r] + Round
        BY <2>3, RoundStep DEF TypeOK
      <3>2. /\ Cardinality(OpenCalls(r))' = Cardinality(OpenCalls(r))
            /\ Cardinality(MarkingCalls(r))' = Cardinality(MarkingCalls(r))
        BY <1>2
      <3>3. ListedBudget(r) => ListedBudget(r)'
        BY <1>3, <2>1, <2>3, <3>1, <3>2, RoundStep, CallCounts DEF ListedBudget
      <3>4. UnlistedBudget(r) => UnlistedBudget(r)'
        <4>1. Round \in Nat /\ Round >= 1 /\ Cardinality(OpenCalls(r)) \in Nat
          BY RoundStep, CallCounts
        <4> QED BY <1>3, <2>1, <2>3, <3>1, <3>2, <4>1 DEF UnlistedBudget
      <3> QED BY <2>1, <3>3, <3>4 DEF BudgetInv, Budget
    <2> QED BY <1>7, <2>2, <2>3 DEF NetworkError, Inc, TypeOK
  <1>8. CASE MarkDrafted
    <2>1. /\ MarkProcessed(cur) /\ drafts' = drafts /\ cur \in Ids
          /\ apc = "mark" /\ apc' = "item" /\ cur' = NoId /\ todo' = todo
      BY <1>0, <1>8 DEF MarkDrafted, TypeOK
    <2>2. AutoOpen(r)' = AutoOpen(r)
      BY <2>1 DEF AutoOpen
    <2>3. r # cur => AutoMarking(r)' = AutoMarking(r)
      BY <2>1 DEF AutoMarking
    <2> QED BY <1>2, <2>1, <2>2, <2>3, MarkSettles
  <1> QED BY <1>4, <1>5, <1>6, <1>7, <1>8 DEF Automode
\* A manual call starts on a listed row, drafts it once, then marks it.
LEMMA ManualBudget ==
  ASSUME TypeOK, TypeOK', KnownInv, BudgetInv, NEW c \in Callers, Manual(c)
  PROVE  BudgetInv'
  <1> USE DEF queueVars, gateVars, autoVars, dispVars, manualVars, histVars, boundVars
  <1> SUFFICES ASSUME NEW r \in Ids PROVE Budget(r)'
    BY DEF BudgetInv
  <1>0. mid[c] = NoId <=> mpc[c] = "idle"
    BY DEF TypeOK
  <1>1. UNCHANGED <<apc, cur, todo>>
    BY DEF Manual, ManualStart, ManualCreated, ManualFails, ManualMark
  <1>2. AutoOpen(r)' = AutoOpen(r) /\ AutoMarking(r)' = AutoMarking(r)
    BY <1>1 DEF AutoOpen, AutoMarking
  <1>3. AutoOpen(r) \in Nat /\ AutoMarking(r) \in Nat
    BY DEF AutoOpen, AutoMarking
  <1>4. ASSUME NEW id \in Ids, ManualStart(c, id) PROVE Budget(r)'
    <2>1. UNCHANGED <<drafts, excused, listed>> /\ MarkingCalls(r)' = MarkingCalls(r)
      BY <1>4 DEF ManualStart, MarkingCalls, TypeOK
    <2>2. OpenCalls(r)' \subseteq OpenCalls(r) \/ r \in listed'
      BY <1>4 DEF ManualStart, OpenCalls, TypeOK
    <2> QED BY <1>2, <1>3, <2>1, <2>2, BudgetKept
  <1>5. CASE ManualCreated(c)
    <2>1. CASE r # mid[c]
      <3>1. UNCHANGED <<excused, listed>> /\ drafts'[r] = drafts[r]
        BY <1>5, <2>1 DEF ManualCreated, Inc, TypeOK
      <3>2. OpenCalls(r)' = OpenCalls(r) /\ MarkingCalls(r)' = MarkingCalls(r)
        BY <1>5, <2>1 DEF ManualCreated, OpenCalls, MarkingCalls, TypeOK
      <3> QED BY <1>2, <1>3, <3>1, <3>2, BudgetKept
    <2>2. CASE r = mid[c]
      <3>1. UNCHANGED <<excused, listed>> /\ drafts'[r] = drafts[r] + 1
        BY <1>5, <2>2 DEF ManualCreated, Inc, TypeOK
      <3>2. /\ c \in OpenCalls(r) /\ OpenCalls(r)' = OpenCalls(r) \ {c}
            /\ c \notin MarkingCalls(r) /\ MarkingCalls(r)' = MarkingCalls(r) \cup {c}
        BY <1>5, <2>2 DEF ManualCreated, OpenCalls, MarkingCalls, TypeOK
      <3>3. /\ Cardinality(OpenCalls(r)') = Cardinality(OpenCalls(r)) - 1
            /\ Cardinality(MarkingCalls(r)') = Cardinality(MarkingCalls(r)) + 1
        <4>1. IsFiniteSet(OpenCalls(r)) /\ IsFiniteSet(MarkingCalls(r))
          BY CallCounts
        <4>2. Cardinality(OpenCalls(r) \ {c}) = Cardinality(OpenCalls(r)) - 1
          BY <3>2, <4>1, FS_RemoveElement
        <4>3. Cardinality(MarkingCalls(r) \cup {c}) = Cardinality(MarkingCalls(r)) + 1
          BY <3>2, <4>1, FS_AddElement
        <4> QED BY <3>2, <4>2, <4>3
      <3>4. drafts[r] \in Nat /\ Round * excused[r] \in Nat /\ Round' = Round
            /\ Round \in Nat
        BY RoundStep DEF TypeOK
      <3>5. ListedBudget(r) => ListedBudget(r)'
        BY <1>2, <1>3, <3>1, <3>3, <3>4, CallCounts DEF ListedBudget
      <3>6. UnlistedBudget(r) => UnlistedBudget(r)'
        BY <1>2, <1>3, <3>1, <3>3, <3>4, CallCounts DEF UnlistedBudget
      <3> QED BY <3>1, <3>5, <3>6 DEF BudgetInv, Budget
    <2> QED BY <2>1, <2>2
  <1>6. CASE ManualFails(c)
    <2>1. UNCHANGED <<drafts, excused, listed>>
      BY <1>6 DEF ManualFails
    <2>2. OpenCalls(r)' \subseteq OpenCalls(r) /\ MarkingCalls(r)' = MarkingCalls(r)
      BY <1>6 DEF ManualFails, OpenCalls, MarkingCalls, TypeOK
    <2> QED BY <1>2, <1>3, <2>1, <2>2, BudgetKept
  <1>7. CASE ManualMark(c)
    <2>1. MarkProcessed(mid[c]) /\ drafts' = drafts /\ mid[c] \in Ids
      BY <1>0, <1>7 DEF ManualMark, TypeOK
    <2>2. OpenCalls(r)' = OpenCalls(r)
      BY <1>7 DEF ManualMark, OpenCalls, TypeOK
    <2>3. r # mid[c] => MarkingCalls(r)' = MarkingCalls(r)
      BY <1>7 DEF ManualMark, MarkingCalls, TypeOK
    <2> QED BY <1>2, <2>1, <2>2, <2>3, MarkSettles
  <1> QED BY <1>4, <1>5, <1>6, <1>7 DEF Manual

\* A crash between a draft and its removal is excused; any other crash ends
\* the calls without a draft.
LEMMA RestartBudget ==
  ASSUME TypeOK, TypeOK', KnownInv, BudgetInv, Restart
  PROVE  BudgetInv'
  <1> SUFFICES ASSUME NEW r \in Ids PROVE Budget(r)'
    BY DEF BudgetInv
  <1>1. drafts' = drafts /\ listed' = disk /\ (r \in disk => r \in listed)
    BY DEF Restart, KnownInv
  <1>2. OpenCalls(r)' = {} /\ MarkingCalls(r)' = {}
    BY DEF Restart, OpenCalls, MarkingCalls
  <1>3. AutoOpen(r)' = 0 /\ AutoMarking(r)' = 0
    BY DEF Restart, AutoOpen, AutoMarking
  <1>4. /\ Cardinality(OpenCalls(r))' = 0 /\ Cardinality(MarkingCalls(r))' = 0
    BY <1>2, FS_EmptySet
  <1>5. /\ AutoOpen(r) \in Nat /\ AutoMarking(r) \in Nat
        /\ drafts[r] \in Nat /\ Round \in Nat /\ Round' = Round
        /\ Round * excused[r] \in Nat
        /\ Round * (excused[r] + 1) = Round * excused[r] + Round
    BY RoundStep DEF AutoOpen, AutoMarking, TypeOK
  <1>6. UnlistedBudget(r)
    BY BudgetFits
  <1>7. CASE excused'[r] = excused[r] + 1
    <2>1. ListedBudget(r)' /\ UnlistedBudget(r)'
      BY <1>1, <1>3, <1>4, <1>5, <1>6, <1>7, CallCounts DEF ListedBudget, UnlistedBudget
    <2> QED BY <2>1 DEF Budget
  <1>8. CASE excused'[r] = excused[r] /\ r \notin disk
    <2>1. UnlistedBudget(r)'
      BY <1>1, <1>3, <1>4, <1>5, <1>6, <1>8, CallCounts DEF UnlistedBudget
    <2> QED BY <1>1, <1>8, <2>1 DEF Budget
  <1>9. CASE /\ excused'[r] = excused[r] /\ r \in disk
             /\ AutoMarking(r) = 0 /\ MarkingCalls(r) = {}
    <2>1. ListedBudget(r)
      BY <1>1, <1>9 DEF BudgetInv, Budget
    <2>2. Cardinality(MarkingCalls(r)) = 0
      BY <1>9, FS_EmptySet
    <2>3. ListedBudget(r)'
      BY <1>1, <1>3, <1>4, <1>5, <1>9, <2>1, <2>2 DEF ListedBudget
    <2> QED BY <1>1, <1>9, <2>3 DEF Budget
  <1> QED BY <1>7, <1>8, <1>9 DEF Restart, AutoMarking, MarkingCalls

\* Every step keeps the budget.
LEMMA BudgetStep ==
  ASSUME TypeOK, TypeOK', KnownInv, BudgetInv, [Next]_vars
  PROVE  BudgetInv'
  <1> USE DEF queueVars, gateVars, autoVars, dispVars, manualVars, histVars, boundVars
  <1>1. CASE Dispatcher \/ UNCHANGED vars
    <2>1. UNCHANGED <<listed, drafts, excused, apc, cur, todo, mpc, mid>>
      BY <1>1 DEF vars, Dispatcher, Emit, DispatchSnapshot, PruneBacklogSkip
    <2> SUFFICES ASSUME NEW r \in Ids PROVE Budget(r)'
      BY DEF BudgetInv
    <2>2. /\ AutoOpen(r)' = AutoOpen(r) /\ AutoMarking(r)' = AutoMarking(r)
          /\ OpenCalls(r)' = OpenCalls(r) /\ MarkingCalls(r)' = MarkingCalls(r)
      BY <2>1 DEF AutoOpen, AutoMarking, OpenCalls, MarkingCalls
    <2>3. AutoOpen(r) \in Nat /\ AutoMarking(r) \in Nat
      BY DEF AutoOpen, AutoMarking
    <2> QED BY <2>1, <2>2, <2>3, BudgetKept
  <1> QED BY <1>1, EnvironmentBudget, AutomodeBudget, ManualBudget, RestartBudget DEF Next

\* The empty queue is within budget.
LEMMA InitBudget == Init => KnownInv /\ BudgetInv
  <1> SUFFICES ASSUME Init PROVE KnownInv /\ BudgetInv
    OBVIOUS
  <1>1. KnownInv
    BY DEF Init, KnownInv
  <1>2. ASSUME NEW r \in Ids PROVE Budget(r)
    <2>1. /\ drafts[r] = 0 /\ excused[r] = 0 /\ AutoOpen(r) = 0 /\ r \notin listed
      BY DEF Init, AutoOpen
    <2>2. OpenCalls(r) = {}
      BY DEF Init, OpenCalls
    <2>3. Cardinality(OpenCalls(r)) = 0
      BY <2>2, FS_EmptySet
    <2> QED BY <2>1, <2>3, RoundStep DEF Budget, UnlistedBudget
  <1> QED BY <1>1, <1>2 DEF BudgetInv

\* However automode, concurrent manual calls, lost replies, failing removals,
\* late insertions and crashes interleave, the number of drafts of a row is
\* bounded by its mishaps: one round of drafts for each, one at the start.
THEOREM DraftsBounded == Spec => []DraftsAccountedFor
  <1>1. TypeOK /\ KnownInv /\ BudgetInv => DraftsAccountedFor
    <2> SUFFICES ASSUME TypeOK, KnownInv, BudgetInv, NEW id \in Ids
                 PROVE  drafts[id] <= (1 + Cardinality(Callers)) * (1 + excused[id])
      BY DEF DraftsAccountedFor
    <2>1. UnlistedBudget(id)
      BY BudgetFits
    <2>2. /\ drafts[id] \in Nat /\ excused[id] \in Nat /\ Round \in Nat
          /\ Round * excused[id] \in Nat
          /\ Round * (excused[id] + 1) = Round * excused[id] + Round
      BY RoundStep DEF TypeOK
    <2>3. AutoOpen(id) \in Nat /\ Cardinality(OpenCalls(id)) \in Nat
      BY CallCounts DEF AutoOpen
    <2>4. drafts[id] <= Round * (excused[id] + 1)
      BY <2>1, <2>2, <2>3 DEF UnlistedBudget
    <2>5. excused[id] + 1 = 1 + excused[id]
      BY <2>2
    <2> QED BY <2>4, <2>5 DEF Round
  <1>2. TypeOK /\ TypeOK' /\ KnownInv /\ BudgetInv /\ [Next]_vars => KnownInv' /\ BudgetInv'
    BY KnownStep, BudgetStep
  <1> QED BY <1>1, <1>2, InitBudget, TypeCorrect, PTL DEF Spec

\* automode.inflight holds exactly the row being drafted: every exit of drain
\* releases what tryAcquire took.
THEOREM InflightReleased == Spec => []InflightIsCurrent
  BY ControlCorrect, PTL DEF ControlInv

\* After pause or a switch to manual mode at most one more call of a drain
\* begins, for any number of rows.
THEOREM GatesHold == Spec => []GatesStopDrain
  <1>1. ControlInv => GatesStopDrain
    BY DEF ControlInv, GateInv, GatesStopDrain
  <1> QED BY <1>1, ControlCorrect, PTL

\* A row automode gave up on has no failure streak, for any cap.
THEOREM FreshStreaks == Spec => []SkippedHasNoStreak
  <1>1. ControlInv => SkippedHasNoStreak
    BY DEF ControlInv, StreakInv
  <1> QED BY <1>1, ControlCorrect, PTL

\* No file leaves the queue without a draft or a dismissal.
THEOREM NoMailLost == Spec => []NothingLost
  <1>1. ControlInv => NothingLost
    BY DEF ControlInv, LossInv
  <1> QED BY <1>1, ControlCorrect, PTL
=============================================================================

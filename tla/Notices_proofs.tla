---------------------------- MODULE Notices_proofs -----------------------------
(***************************************************************************)
(* Theorems about Notices, for every set of rows and drafters and every    *)
(* number of failures and clicks.                                          *)
(***************************************************************************)
EXTENDS Notices, FiniteSetTheorems, TLAPS

-----------------------------------------------------------------------------
(* Type correctness.                                                       *)

\* The program starts with values of these types.
LEMMA InitTypeOK == Init => TypeOK
  <1> SUFFICES ASSUME Init PROVE TypeOK
    OBVIOUS
  <1>1. job \in [Drafters -> [step: {"idle", "draft", "clear"}, row: Emails \cup {NoRow}]]
    BY DEF Init, Idle
  <1>2. failures \in 0..MaxFailures /\ clicks \in 0..MaxClicks
    BY NoticesAssumption DEF Init, NoticesAssumption
  <1>3. pending \in BOOLEAN /\ hooked \in BOOLEAN /\ visible \in BOOLEAN /\ paused \in BOOLEAN
    BY DEF Init
  <1>4. Waiting \subseteq Emails
    BY NoticesAssumption DEF NoticesAssumption
  <1> QED BY <1>1, <1>2, <1>3, <1>4 DEF Init, TypeOK

\* The watcher, the start and the dispatcher keep the types.
LEMMA HookTypeOK ==
  ASSUME TypeOK,
         \/ SeedKnownIds \/ SetAfterDispatch \/ Dispatcher
         \/ \E e \in Emails : Arrive(e) \/ LateInsert(e) \/ HandleRemove(e)
  PROVE  TypeOK'
  <1> USE DEF TypeOK, rowVars, hookVars, userVars, history, OnQueueChanged
  <1>1. ASSUME NEW e \in Emails, Arrive(e) \/ LateInsert(e) \/ HandleRemove(e) PROVE TypeOK'
    <2>1. CASE Arrive(e)
      BY <2>1 DEF Arrive
    <2>2. CASE LateInsert(e)
      BY <2>2 DEF LateInsert
    <2>3. CASE HandleRemove(e)
      BY <2>3 DEF HandleRemove
    <2> QED BY <1>1, <2>1, <2>2, <2>3
  <1>2. CASE SeedKnownIds \/ SetAfterDispatch
    BY <1>2 DEF SeedKnownIds, SetAfterDispatch
  <1>3. CASE Dispatch \/ AfterDispatch \/ PruneKnownIds
    BY <1>3 DEF Dispatch, AfterDispatch, PruneKnownIds
  <1>4. ASSUME NEW e \in Emails, emitArrivalToast(e) PROVE TypeOK'
    BY <1>4 DEF emitArrivalToast, Push, Kinds
  <1> QED BY <1>1, <1>2, <1>3, <1>4 DEF Dispatcher

\* A drafter that is not idle works on a row.
Working == \A d \in Drafters : job[d].step # "idle" => job[d].row \in Emails

\* Every step of a drafter keeps the types.
LEMMA DrafterTypeOK ==
  ASSUME TypeOK, Working, NEW d \in Drafters,
         \/ \E e \in Emails : BeginDraft(d, e) \/ DismissEmail(d, e)
         \/ DraftFails(d) \/ DraftCreated(d) \/ clearToastForEmail(d)
  PROVE  TypeOK'
  <1> USE DEF TypeOK, rowVars, hookVars, userVars, history, OnQueueChanged, Idle, Remove
  <1>1. ASSUME NEW e \in Emails, BeginDraft(d, e) \/ DismissEmail(d, e) PROVE TypeOK'
    <2>1. CASE BeginDraft(d, e)
      BY <2>1 DEF BeginDraft
    <2>2. CASE DismissEmail(d, e)
      BY <2>2 DEF DismissEmail
    <2> QED BY <1>1, <2>1, <2>2
  <1>2. CASE DraftFails(d)
    <2>1. job[d].row \in Emails /\ failures + 1 \in 0..MaxFailures
      BY <1>2, NoticesAssumption DEF DraftFails, Working, NoticesAssumption
    <2>2. toasts' \subseteq Emails \X Kinds /\ stay' \subseteq Emails \X Kinds
      BY <1>2, <2>1 DEF DraftFails, Push, Kinds
    <2> QED BY <1>2, <2>1, <2>2 DEF DraftFails
  <1>3. CASE DraftCreated(d)
    BY <1>3 DEF DraftCreated, Step
  <1>4. CASE clearToastForEmail(d)
    <2>1. PICK failed \in SUBSET Kinds :
            /\ failures' = failures + Cardinality(failed) /\ failures' <= MaxFailures
            /\ toasts' = toasts \ {<<job[d].row, k>> : k \in Kinds \ failed}
            /\ stay' = stay \cup {<<job[d].row, k>> : k \in failed}
      BY <1>4 DEF clearToastForEmail, Clear
    <2>2. Cardinality(failed) \in Nat
      <3>1. IsFiniteSet(Kinds)
        <4>1. IsFiniteSet({} \cup {"arrival"})
          BY FS_EmptySet, FS_AddElement
        <4>2. IsFiniteSet(({} \cup {"arrival"}) \cup {"err"})
          BY <4>1, FS_AddElement
        <4>3. Kinds = ({} \cup {"arrival"}) \cup {"err"}
          BY DEF Kinds
        <4> QED BY <4>2, <4>3
      <3> QED BY <3>1, FS_Subset, FS_CardinalityType
    <2>3. failures' \in 0..MaxFailures
      BY <2>1, <2>2, NoticesAssumption DEF NoticesAssumption
    <2>4. job[d].row \in Emails
      BY <1>4 DEF clearToastForEmail, Clear, Working
    <2>5. stay' \subseteq Emails \X Kinds /\ toasts' \subseteq Emails \X Kinds
      BY <2>1, <2>4
    <2> QED BY <1>4, <2>3, <2>5 DEF clearToastForEmail, Clear
  <1> QED BY <1>1, <1>2, <1>3, <1>4

\* Every step keeps the types and gives every busy drafter a row.
LEMMA StepTypeOK == TypeOK /\ Working /\ [Next]_vars => TypeOK' /\ Working'
  <1> SUFFICES ASSUME TypeOK, Working, [Next]_vars PROVE TypeOK' /\ Working'
    OBVIOUS
  <1>1. CASE \/ SeedKnownIds \/ SetAfterDispatch \/ Dispatcher
             \/ \E e \in Emails : Arrive(e) \/ LateInsert(e) \/ HandleRemove(e)
    <2>1. job' = job
      BY <1>1 DEF SeedKnownIds, SetAfterDispatch, Dispatcher, Dispatch, AfterDispatch,
                  PruneKnownIds, emitArrivalToast, Arrive, LateInsert, HandleRemove
    <2> QED BY <1>1, <2>1, HookTypeOK DEF Working
  <1>2. CASE SetVisible \/ SetPaused
    <2>1. clicks' \in 0..MaxClicks
      BY <1>2, NoticesAssumption DEF SetVisible, SetPaused, TypeOK, NoticesAssumption
    <2>2. visible' \in BOOLEAN /\ paused' \in BOOLEAN
      BY <1>2 DEF SetVisible, SetPaused, TypeOK
    <2>3. UNCHANGED <<start, rowVars, hookVars, job, toasts, failures, history>>
      BY <1>2 DEF SetVisible, SetPaused
    <2> QED BY <2>1, <2>2, <2>3 DEF TypeOK, Working, rowVars, hookVars, history
  <1>3. CASE UNCHANGED vars
    BY <1>3 DEF vars, TypeOK, Working, rowVars, hookVars, userVars, history
  <1>4. ASSUME NEW d \in Drafters,
               \/ \E e \in Emails : BeginDraft(d, e) \/ DismissEmail(d, e)
               \/ DraftFails(d) \/ DraftCreated(d) \/ clearToastForEmail(d)
        PROVE  TypeOK' /\ Working'
    <2>1. Working'
      BY <1>4 DEF TypeOK, Working, BeginDraft, DismissEmail, DraftFails, DraftCreated, Step,
                  clearToastForEmail, Clear, Idle
    <2> QED BY <1>4, <2>1, DrafterTypeOK
  <1> QED BY <1>1, <1>2, <1>3, <1>4 DEF Next

\* Every variable of Notices keeps its type.
THEOREM TypeCorrect == Spec => [](TypeOK /\ Working)
  <1>1. Init => TypeOK /\ Working
    BY InitTypeOK DEF Init, Working, Idle
  <1> QED BY <1>1, StepTypeOK, PTL DEF Spec

-----------------------------------------------------------------------------
(* Arrivals are announced once.                                            *)

\* The order of a start: first the rows that are there are known, then the
\* hook is set, and only then anything is due, in a snapshot or considered.
StartInv ==
  /\ hooked <=> start = "up"
  /\ ~hooked => due = {} /\ considered = {} /\ snap = {} /\ dispatcher # "toast"
  /\ start = "seed" => knownIds = {}

\* What is known, in a snapshot or considered has been in the queue.
SeenInv == (queue \cup snap \cup knownIds \cup considered \cup seeded) \cap unseen = {}

\* A row that arrived with the hook in place is known only once considered.
DueInv == due \cap knownIds \subseteq considered

\* A row that is forgotten has left for good, unless the watcher inserts it
\* again; and the hook forgets no row that is in the queue.
ForgottenInv ==
  /\ start # "seed" =>
       \A e \in considered \cup seeded : e \in knownIds \cup ghosts \/ e \notin queue \cup snap
  /\ dispatcher = "toast" => (queue \cap knownIds) \ snap \subseteq ghosts

NoticeInv == StartInv /\ SeenInv /\ DueInv /\ ForgottenInv /\ NoSpam /\ NoArrivalMissed

\* The inductive invariant holds at the start.
LEMMA InitNotice == Init => NoticeInv
  BY NoticesAssumption
  DEF Init, NoticeInv, StartInv, SeenInv, DueInv, ForgottenInv, NoSpam, NoArrivalMissed,
      NoticesAssumption

\* Rows that leave, and whatever else happens to toasts and window.
LEMMA LeavingNotice ==
  ASSUME TypeOK, NoticeInv, queue' \subseteq queue, pending => pending',
         UNCHANGED <<start, unseen, hooked, dispatcher, snap, knownIds, seeded, due,
                     considered, repeated>>,
         ghosts \subseteq ghosts'
  PROVE  NoticeInv'
  BY DEF NoticeInv, StartInv, SeenInv, DueInv, ForgottenInv, NoSpam, NoArrivalMissed

\* Every step keeps the inductive invariant.
LEMMA StepNotice == TypeOK /\ NoticeInv /\ [Next]_vars => NoticeInv'
  <1> SUFFICES ASSUME TypeOK, NoticeInv, [Next]_vars PROVE NoticeInv'
    OBVIOUS
  <1> USE DEF rowVars, hookVars, userVars, history, OnQueueChanged
  <1>1. ASSUME NEW e \in Emails, Arrive(e) PROVE NoticeInv'
    BY <1>1 DEF Arrive, NoticeInv, StartInv, SeenInv, DueInv, ForgottenInv, NoSpam,
                NoArrivalMissed
  <1>2. ASSUME NEW e \in Emails, LateInsert(e) PROVE NoticeInv'
    BY <1>2 DEF LateInsert, NoticeInv, StartInv, SeenInv, DueInv, ForgottenInv, NoSpam,
                NoArrivalMissed
  <1>3. ASSUME NEW e \in Emails, HandleRemove(e) PROVE NoticeInv'
    BY <1>3, LeavingNotice DEF HandleRemove
  <1>4. CASE SeedKnownIds \/ SetAfterDispatch
    BY <1>4 DEF SeedKnownIds, SetAfterDispatch, NoticeInv, StartInv, SeenInv, DueInv,
                ForgottenInv, NoSpam, NoArrivalMissed
  <1>5. CASE Dispatch
    BY <1>5 DEF Dispatch, NoticeInv, StartInv, SeenInv, DueInv, ForgottenInv, NoSpam,
                NoArrivalMissed
  <1>6. CASE AfterDispatch
    BY <1>6 DEF AfterDispatch, NoticeInv, StartInv, SeenInv, DueInv, ForgottenInv, NoSpam,
                NoArrivalMissed
  <1>7. CASE PruneKnownIds
    BY <1>7 DEF PruneKnownIds, NoticeInv, StartInv, SeenInv, DueInv, ForgottenInv, NoSpam,
                NoArrivalMissed
  <1>8. ASSUME NEW e \in Emails, emitArrivalToast(e) PROVE NoticeInv'
    BY <1>8 DEF emitArrivalToast, NoticeInv, StartInv, SeenInv, DueInv, ForgottenInv, NoSpam,
                NoArrivalMissed
  <1>9. CASE SetVisible \/ SetPaused \/ UNCHANGED vars
    BY <1>9, LeavingNotice DEF SetVisible, SetPaused, vars
  <1>10. ASSUME NEW d \in Drafters,
                \/ \E e \in Emails : BeginDraft(d, e) \/ DismissEmail(d, e)
                \/ DraftFails(d) \/ DraftCreated(d) \/ clearToastForEmail(d)
         PROVE  NoticeInv'
    BY <1>10, LeavingNotice
    DEF BeginDraft, DismissEmail, DraftFails, DraftCreated, clearToastForEmail, Clear, Remove
  <1> QED BY <1>1, <1>2, <1>3, <1>4, <1>5, <1>6, <1>7, <1>8, <1>9, <1>10 DEF Next, Dispatcher

\* The inductive invariant holds of every behaviour.
LEMMA NoticeCorrect == Spec => []NoticeInv
  BY TypeCorrect, InitNotice, StepNotice, PTL DEF Spec

\* No row of the start is announced and no row twice, for any number of rows.
THEOREM AnnouncedOnce == Spec => []NoSpam
  BY NoticeCorrect, PTL DEF NoticeInv

\* The one-slot channel loses no arrival: what arrived with the hook in place is
\* considered, or the dispatcher still has a reason to look at it.
THEOREM CoalescingIsSafe == Spec => []NoArrivalMissed
  BY NoticeCorrect, PTL DEF NoticeInv

-----------------------------------------------------------------------------
(* Toasts leave with their rows.                                           *)

\* Nobody is between the removal of the row and the removal of its toasts.
Resting(e) == \A d \in Drafters : job[d].row = e => job[d].step \in {"idle", "draft"}

\* What a step may not do to a row that has left and rests.
LEMMA ToastsLast ==
  ASSUME TypeOK, ToastsFollowRows,
         \A e \in Emails \ (queue \cup unseen \cup ghosts)' :
           Resting(e)' => \/ \A k \in Kinds : <<e, k>> \in toasts' => <<e, k>> \in stay'
                          \/ /\ e \notin queue \cup unseen \cup ghosts /\ Resting(e)
                             /\ \A k \in Kinds :
                                  /\ <<e, k>> \in toasts' => <<e, k>> \in toasts \cup stay'
                                  /\ <<e, k>> \in stay => <<e, k>> \in stay'
  PROVE  ToastsFollowRows'
  BY DEF ToastsFollowRows, Resting

\* No step leaves a toast of a row that has left and rests.
LEMMA StepToasts == TypeOK /\ Working /\ ToastsFollowRows /\ [Next]_vars => ToastsFollowRows'
  <1> SUFFICES ASSUME TypeOK, Working, ToastsFollowRows, [Next]_vars PROVE ToastsFollowRows'
    OBVIOUS
  <1> USE DEF rowVars, hookVars, userVars, history
  <1>1. ASSUME UNCHANGED <<job, toasts, stay>>,
               queue \cup unseen \cup ghosts \subseteq (queue \cup unseen \cup ghosts)'
        PROVE  ToastsFollowRows'
    BY <1>1 DEF ToastsFollowRows
  <1>2. ASSUME NEW e \in Emails, Arrive(e) \/ LateInsert(e) \/ HandleRemove(e)
        PROVE  ToastsFollowRows'
    BY <1>1, <1>2 DEF Arrive, LateInsert, HandleRemove
  <1>3. CASE \/ SeedKnownIds \/ SetAfterDispatch \/ Dispatch \/ AfterDispatch \/ PruneKnownIds
             \/ SetVisible \/ SetPaused \/ UNCHANGED vars
    BY <1>1, <1>3 DEF SeedKnownIds, SetAfterDispatch, Dispatch, AfterDispatch, PruneKnownIds,
                      SetVisible, SetPaused, vars
  <1>4. ASSUME NEW e \in Emails, NEW k \in Kinds, Push(e, k), UNCHANGED <<queue, unseen, ghosts>>,
               \A f \in Emails : Resting(f)' => Resting(f)
        PROVE  ToastsFollowRows'
    <2>1. \A f \in Emails \ (queue \cup unseen \cup ghosts), l \in Kinds :
            /\ <<f, l>> \in toasts' => <<f, l>> \in toasts \cup stay'
            /\ <<f, l>> \in stay => <<f, l>> \in stay'
      BY <1>4 DEF Push
    <2> QED BY <1>4, <2>1, ToastsLast
  <1>5. ASSUME NEW e \in Emails, emitArrivalToast(e) PROVE ToastsFollowRows'
    <2>1. UNCHANGED <<queue, unseen, ghosts, job>> /\ \A f \in Emails : Resting(f)' => Resting(f)
      BY <1>5 DEF emitArrivalToast, Resting
    <2>2. CASE UNCHANGED <<toasts, stay>>
      BY <1>1, <2>1, <2>2
    <2>3. CASE Push(e, "arrival")
      BY <1>4, <2>1, <2>3 DEF Kinds
    <2> QED BY <1>5, <2>2, <2>3 DEF emitArrivalToast
  <1>6. ASSUME NEW d \in Drafters, NEW e \in Emails, BeginDraft(d, e) PROVE ToastsFollowRows'
    <2>1. \A f \in Emails \ queue : Resting(f)' => Resting(f)
      BY <1>6 DEF BeginDraft, Resting, TypeOK
    <2>2. UNCHANGED <<queue, unseen, ghosts, toasts, stay>>
      BY <1>6 DEF BeginDraft
    <2> QED BY <2>1, <2>2, ToastsLast
  <1>7. ASSUME NEW d \in Drafters, DraftFails(d) PROVE ToastsFollowRows'
    <2>1. \A f \in Emails : Resting(f)' => Resting(f)
      BY <1>7 DEF DraftFails, Resting, TypeOK, Idle
    <2>2. /\ job[d].row \in Emails /\ Push(job[d].row, "err")
          /\ UNCHANGED <<queue, unseen, ghosts>>
      BY <1>7 DEF DraftFails, Working
    <2> QED BY <1>4, <2>1, <2>2 DEF Kinds
  <1>8. ASSUME NEW d \in Drafters, DraftCreated(d) PROVE ToastsFollowRows'
    <2> PICK e \in Emails : e = job[d].row
      BY <1>8 DEF DraftCreated, Working
    <2>1. ~Resting(e)'
      BY <1>8 DEF DraftCreated, Step, Resting, TypeOK
    <2>2. \A f \in Emails \ {e} : Resting(f)' => Resting(f)
      BY <1>8 DEF DraftCreated, Step, Resting, TypeOK
    <2>3. UNCHANGED <<unseen, ghosts, toasts, stay>> /\ queue' = queue \ {e}
      BY <1>8 DEF DraftCreated, Remove
    <2> QED BY <2>1, <2>2, <2>3, ToastsLast
  <1>9. ASSUME NEW d \in Drafters, NEW e \in Emails, DismissEmail(d, e) PROVE ToastsFollowRows'
    <2>1. ~Resting(e)'
      BY <1>9 DEF DismissEmail, Resting, TypeOK
    <2>2. \A f \in Emails \ {e} : Resting(f)' => Resting(f)
      BY <1>9 DEF DismissEmail, Resting, TypeOK
    <2>3. UNCHANGED <<unseen, ghosts, toasts, stay>> /\ queue' = queue \ {e}
      BY <1>9 DEF DismissEmail, Remove
    <2> QED BY <2>1, <2>2, <2>3, ToastsLast
  <1>10. ASSUME NEW d \in Drafters, clearToastForEmail(d) PROVE ToastsFollowRows'
    <2>1. PICK failed \in SUBSET Kinds :
            /\ toasts' = toasts \ {<<job[d].row, k>> : k \in Kinds \ failed}
            /\ stay' = stay \cup {<<job[d].row, k>> : k \in failed}
      BY <1>10 DEF clearToastForEmail, Clear
    <2>2. \A k \in Kinds : <<job[d].row, k>> \in toasts' => <<job[d].row, k>> \in stay'
      BY <2>1
    <2>3. \A f \in Emails \ {job[d].row} : Resting(f)' => Resting(f)
      BY <1>10 DEF clearToastForEmail, Clear, Resting, TypeOK, Idle
    <2>4. UNCHANGED <<queue, unseen, ghosts>>
      BY <1>10 DEF clearToastForEmail, Clear
    <2> QED BY <2>1, <2>2, <2>3, <2>4, ToastsLast
  <1> QED BY <1>2, <1>3, <1>5, <1>6, <1>7, <1>8, <1>9, <1>10 DEF Next, Dispatcher

\* A drafted or dismissed row leaves no arrival or error toast behind, for any
\* number of drafters.
THEOREM ToastsLeave == Spec => []ToastsFollowRows
  <1>1. Init => ToastsFollowRows
    BY DEF Init, ToastsFollowRows
  <1> QED BY <1>1, StepToasts, TypeCorrect, PTL DEF Spec
=============================================================================

----------------------------- MODULE Auth_proofs -----------------------------
(***************************************************************************)
(* Theorems about Auth, for every number of slots, accounts and goroutines *)
(* and every bound.                                                        *)
(***************************************************************************)
EXTENDS Auth, TLAPS

-----------------------------------------------------------------------------
(* Which operation is where, and what it has in hand there.                *)

DraftSteps == {"refresh", "renew", "pick", "cache", "fetch", "create"}

StepFits(g) ==
  /\ At(g, "idle") <=> job[g] = "none"
  /\ job[g] # "none" => slot[g] \in Slots
  /\ pc[g] \in DraftSteps => job[g] = "draft"
  /\ At(g, "acquire") => job[g] \in {"draft", "signin", "signout", "identity"}
  /\ At(g, "flow") => job[g] = "signin"
  /\ pc[g] \in {"revoke", "reset"} => job[g] = "signout"
  /\ At(g, "userinfo") => job[g] = "identity"
  /\ At(g, "status") => view[g] \in Slots
  /\ pc[g] \in {"cache", "fetch"} => cache[g] \in Slots
  /\ g \in retry => job[g] = "draft" /\ pc[g] \in DraftSteps \cup {"acquire"}

StepsFit == \A g \in Threads : StepFits(g)

TypeInv == TypeOK /\ StepsFit

\* The program starts with values of these types and every goroutine idle.
LEMMA InitTypeInv == Init => TypeInv
  BY AuthAssumption
     DEF AuthAssumption, Init, ThreadsInit, Nothing, TypeInv, TypeOK, StepsFit,
         StepFits, At, Steps, Jobs, DraftSteps

\* A request finds the goroutine idle and pins its slot.
LEMMA RequestsTypeInv ==
  ASSUME TypeInv, NEW g \in Threads, Requests(g)
  PROVE  TypeInv'
  <1> USE DEF TypeInv, TypeOK, StepsFit, StepFits, At, Goto, Begin, Steps, Jobs,
              DraftSteps, slotVars, sigVars, callVars, histVars
  <1>1. CASE StartCall(g)
    BY <1>1 DEF StartCall
  <1>2. ASSUME NEW s \in Slots, StartSignIn(g, s) PROVE TypeInv'
    BY <1>2 DEF StartSignIn
  <1>3. ASSUME NEW s \in Slots, StartSignOut(g, s) PROVE TypeInv'
    BY <1>3 DEF StartSignOut
  <1>4. ASSUME NEW s \in Slots, Switch(g, s) PROVE TypeInv'
    <2>1. moved' \subseteq Threads /\ midSwitches' \in Nat
      BY <1>4 DEF Switch, Unsigned
    <2> QED BY <1>4, <2>1 DEF Switch
  <1>5. ASSUME NEW s \in Slots, Poll(g, s) PROVE TypeInv'
    BY <1>5 DEF Poll
  <1> QED BY <1>1, <1>2, <1>3, <1>4, <1>5 DEF Requests

\* What ends an operation, drops tokens or takes a token keeps the types.
LEMMA ReturnTypeInv ==
  ASSUME TypeInv, NEW g \in Threads, Return(g)
  PROVE  /\ StepsFit'
         /\ lock' \in [Slots -> Threads \cup {None}]
         /\ pc' \in [Threads -> Steps] /\ job' \in [Threads -> Jobs]
         /\ slot' \in [Threads -> Slots \cup {None}]
         /\ tok' \in [Threads -> Accounts \cup {None}]
         /\ cache' \in [Threads -> Slots \cup {None}]
         /\ stamp' \in [Threads -> Accounts \cup {None}]
         /\ view' \in [Threads -> Slots \cup {None}]
         /\ retry' \subseteq Threads /\ moved' \subseteq Threads
  BY DEF TypeInv, TypeOK, StepsFit, StepFits, At, Goto, Return, Steps, Jobs, DraftSteps

LEMMA GrantIsDeadTypeInv ==
  ASSUME TypeInv, NEW g \in Threads, GrantIsDead(g), pc[g] \in DraftSteps
  PROVE  TypeInv'
  <1> USE DEF TypeInv, TypeOK, GrantIsDead, ClearTokens, ForgetTokens, DeleteEntry,
              Unlock, Goto, sigVars
  <1>1. TypeOK'
    BY DEF Steps
  <1>2. StepsFit'
    BY DEF StepsFit, StepFits, At, DraftSteps, Steps
  <1> QED BY <1>1, <1>2

LEMMA TakeTokenTypeInv ==
  ASSUME TypeInv, NEW g \in Threads, TakeToken(g), pc[g] \in {"refresh", "renew"},
         keyring' \in [Slots -> Accounts \cup {None}],
         stale' \subseteq stale
  PROVE  TypeInv'
  <1> USE DEF TypeInv, TypeOK, TakeToken, Unlock, Goto, sigVars, histVars
  <1>1. slot[g] \in Slots
    BY DEF StepsFit, StepFits, DraftSteps, At
  <1>2. TypeOK'
    BY <1>1 DEF Steps
  <1>3. StepsFit'
    BY DEF StepsFit, StepFits, At, DraftSteps, Steps
  <1> QED BY <1>2, <1>3

\* Steps with a time limit of their own.
LEMMA TimedTypeInv ==
  ASSUME TypeInv, NEW g \in Threads, TimedSteps(g)
  PROVE  TypeInv'
  <1> USE DEF slotVars, sigVars, callVars, histVars
  <1>1. CASE TokenFresh(g)
    BY <1>1, TakeTokenTypeInv DEF TokenFresh, At, TypeInv, TypeOK
  <1>2. CASE NoTokens(g) \/ RenewFails(g)
    BY <1>2, ReturnTypeInv DEF NoTokens, RenewFails, TypeInv, TypeOK
  <1>3. CASE AskForToken(g)
    BY <1>3 DEF AskForToken, TypeInv, TypeOK, StepsFit, StepFits, At, Goto, Steps,
                DraftSteps
  <1>4. CASE Renewed(g)
    <2>1. slot[g] \in Slots
      BY <1>4 DEF Renewed, TypeInv, StepsFit, StepFits, DraftSteps, At
    <2>2. keyring' \in [Slots -> Accounts \cup {None}]
      BY <1>4, <2>1 DEF Renewed, SaveEntry, TypeInv, TypeOK
    <2> QED BY <1>4, <2>2, TakeTokenTypeInv DEF Renewed, At
  <1>5. CASE RenewRejected(g)
    BY <1>5, GrantIsDeadTypeInv DEF RenewRejected, At, DraftSteps
  <1>6. CASE PickCache(g)
    BY <1>6 DEF PickCache, ActiveSlot, TypeInv, TypeOK, StepsFit, StepFits, At, Goto,
                Steps, DraftSteps
  <1>7. CASE SignInFails(g)
    <2>1. stale' \subseteq {s \in Slots : tokens'[s] # None}
          /\ tokens' \in [Slots -> Accounts \cup {None}]
      BY <1>7 DEF SignInFails, ForgetTokens, TypeInv, TypeOK
    <2> QED BY <1>7, <2>1, ReturnTypeInv DEF SignInFails, TypeInv, TypeOK
  <1>8. CASE Revoke(g)
    BY <1>8 DEF Revoke, ForgetTokens, TypeInv, TypeOK, StepsFit, StepFits, At, Goto,
                Steps, DraftSteps
  <1>9. CASE Userinfo(g)
    BY <1>9 DEF Userinfo, Unlock, TypeInv, TypeOK, StepsFit, StepFits, At, Goto,
                Steps, DraftSteps
  <1>10. CASE Emit(g)
    BY <1>10 DEF Emit, TypeInv, TypeOK, StepsFit, StepFits, At, Goto, Steps, DraftSteps
  <1>11. ASSUME NEW a \in Accounts, SignedIn(g, a) PROVE TypeInv'
    <2>1. TypeOK'
      BY <1>11, AuthAssumption
         DEF AuthAssumption, SignedIn, TypeInv, TypeOK, Goto, Steps
    <2>2. StepsFit'
      BY <1>11 DEF SignedIn, TypeInv, TypeOK, StepsFit, StepFits, At, Goto, Steps,
                   DraftSteps
    <2> QED BY <2>1, <2>2 DEF TypeInv
  <1> QED
    BY <1>1, <1>2, <1>3, <1>4, <1>5, <1>6, <1>7, <1>8, <1>9, <1>10, <1>11 DEF TimedSteps

\* Steps that end a request of the Gmail client.
LEMMA GmailTypeInv ==
  ASSUME TypeInv, NEW g \in Threads, GmailSteps(g)
  PROVE  TypeInv'
  <1> USE DEF slotVars, sigVars, callVars, histVars
  <1>1. CASE FetchSignature(g)
    BY <1>1 DEF FetchSignature, TypeInv, TypeOK, StepsFit, StepFits, At, Goto, Steps,
                DraftSteps
  <1>2. CASE CallEnds(g)
    BY <1>2, ReturnTypeInv DEF CallEnds, TypeInv, TypeOK
  <1>3. CASE Retry(g)
    BY <1>3 DEF Retry, TypeInv, TypeOK, StepsFit, StepFits, At, Goto, Steps, DraftSteps
  <1>4. CASE RetryRejected(g)
    BY <1>4, GrantIsDeadTypeInv DEF RetryRejected, At, DraftSteps
  <1> QED BY <1>1, <1>2, <1>3, <1>4 DEF GmailSteps

\* Steps that take a mutex, if only for the moment of a Status().
LEMMA LockTypeInv ==
  ASSUME TypeInv, NEW g \in Threads, LockSteps(g)
  PROVE  TypeInv'
  <1> USE DEF slotVars, sigVars, callVars, histVars
  <1>1. CASE Acquire(g)
    <2>1. FirstStep(job[g]) \in Steps
      BY <1>1 DEF Acquire, FirstStep, Steps
    <2>2. stale' \subseteq {s \in Slots : tokens[s] # None}
      BY <1>1 DEF Acquire, TypeInv, TypeOK, StepsFit, StepFits, At
    <2>3. TypeOK'
      BY <1>1, <2>1, <2>2 DEF Acquire, TypeInv, TypeOK, Goto
    <2>4. StepsFit'
      BY <1>1 DEF Acquire, FirstStep, TypeInv, TypeOK, StepsFit, StepFits, At, Goto,
                  DraftSteps
    <2> QED BY <2>3, <2>4 DEF TypeInv
  <1>2. CASE LookInCache(g)
    <2>1. cache[g] \in Slots
      BY <1>2 DEF LookInCache, TypeInv, StepsFit, StepFits, At
    <2>2. TypeOK'
      BY <1>2, <2>1 DEF LookInCache, TypeInv, TypeOK, Goto, Steps
    <2>3. StepsFit'
      BY <1>2, <2>1 DEF LookInCache, TypeInv, TypeOK, StepsFit, StepFits, At, Goto,
                        DraftSteps
    <2> QED BY <2>2, <2>3 DEF TypeInv
  <1>3. CASE SignOutEnds(g)
    <2>1. slot[g] \in Slots
      BY <1>3 DEF SignOutEnds, TypeInv, StepsFit, StepFits, At
    <2>2. TypeOK'
      BY <1>3, <2>1 DEF SignOutEnds, ResetSignature, DeleteEntry, Unlock, TypeInv,
                        TypeOK, Goto, Steps
    <2>3. StepsFit'
      BY <1>3 DEF SignOutEnds, TypeInv, TypeOK, StepsFit, StepFits, At, Goto, DraftSteps
    <2> QED BY <2>2, <2>3 DEF TypeInv
  <1>4. CASE Status(g)
    BY <1>4, ReturnTypeInv DEF Status, TypeInv, TypeOK
  <1>5. CASE SwitchStatus(g) \/ Announced(g) \/ Hydrate(g)
    BY <1>5 DEF SwitchStatus, Announced, Hydrate, TypeInv, TypeOK, StepsFit, StepFits,
                At, Goto, Steps, Jobs, DraftSteps
  <1> QED BY <1>1, <1>2, <1>3, <1>4, <1>5 DEF LockSteps

\* The environment, which includes the end of the process.
LEMMA EnvironmentTypeInv ==
  ASSUME TypeInv,
         \/ \E s \in Slots : TokenAges(s)
         \/ \E a \in Accounts : GrantWithdrawn(a)
         \/ Restart
  PROVE  TypeInv'
  <1> USE DEF TypeInv, TypeOK, StepsFit, StepFits, At, sigVars, callVars, histVars
  <1>1. CASE \E s \in Slots : TokenAges(s)
    BY <1>1 DEF TokenAges
  <1>2. CASE \E a \in Accounts : GrantWithdrawn(a)
    BY <1>2 DEF GrantWithdrawn
  <1>3. CASE Restart
    BY <1>3 DEF Restart, Nothing, Steps, Jobs, DraftSteps
  <1> QED BY <1>1, <1>2, <1>3

LEMMA NextTypeInv == TypeInv /\ [Next]_vars => TypeInv'
  <1> SUFFICES ASSUME TypeInv, [Next]_vars PROVE TypeInv'
    OBVIOUS
  <1>1. CASE UNCHANGED vars
    BY <1>1 DEF TypeInv, TypeOK, StepsFit, StepFits, At, vars, slotVars, sigVars,
                callVars, histVars
  <1> QED
    BY <1>1, RequestsTypeInv, TimedTypeInv, GmailTypeInv, LockTypeInv,
       EnvironmentTypeInv DEF Next

\* Every variable keeps its type; only slots with tokens have a token to renew.
THEOREM TypeCorrect == Spec => []TypeOK
  <1>1. TypeInv => TypeOK
    BY DEF TypeInv
  <1> QED BY <1>1, InitTypeInv, NextTypeInv, PTL DEF Spec

-----------------------------------------------------------------------------
(* The mutexes.                                                            *)

LEMMA InitLocks == Init => LocksAccounted
  BY AuthAssumption
     DEF AuthAssumption, Init, ThreadsInit, Nothing, LocksAccounted, HoldsLock, At

\* Operations begin without a mutex.
LEMMA RequestsLocks ==
  ASSUME TypeInv, LocksAccounted, NEW g \in Threads, Requests(g)
  PROVE  LocksAccounted'
  <1> USE DEF TypeInv, TypeOK, StepsFit, StepFits, LocksAccounted, HoldsLock, At, Goto,
              Begin, slotVars, sigVars, callVars, histVars, DraftSteps
  <1>1. CASE StartCall(g)
    BY <1>1 DEF StartCall
  <1>2. ASSUME NEW s \in Slots, StartSignIn(g, s) PROVE LocksAccounted'
    BY <1>2 DEF StartSignIn
  <1>3. ASSUME NEW s \in Slots, StartSignOut(g, s) PROVE LocksAccounted'
    BY <1>3 DEF StartSignOut
  <1>4. ASSUME NEW s \in Slots, Switch(g, s) PROVE LocksAccounted'
    BY <1>4 DEF Switch
  <1>5. ASSUME NEW s \in Slots, Poll(g, s) PROVE LocksAccounted'
    BY <1>5 DEF Poll
  <1> QED BY <1>1, <1>2, <1>3, <1>4, <1>5 DEF Requests

\* A return leaves no mutex behind, wherever it happens but in the middle of a
\* fetch.
LEMMA ReturnLocks ==
  ASSUME TypeInv, LocksAccounted, NEW g \in Threads, Return(g), sigLock' = sigLock,
         ~At(g, "fetch")
  PROVE  LocksAccounted'
  BY AuthAssumption
     DEF AuthAssumption, TypeInv, TypeOK, StepsFit, StepFits, LocksAccounted, HoldsLock,
         At, Goto, Return, DraftSteps

\* The dead grant is cleared by the holder, who lets go.
LEMMA GrantIsDeadLocks ==
  ASSUME TypeInv, LocksAccounted, NEW g \in Threads, GrantIsDead(g), HoldsLock(g),
         pc[g] \in {"renew", "create"}
  PROVE  LocksAccounted'
  BY AuthAssumption
     DEF AuthAssumption, TypeInv, TypeOK, StepsFit, StepFits, LocksAccounted, HoldsLock,
         At, Goto, GrantIsDead, Unlock, sigVars, DraftSteps

LEMMA TakeTokenLocks ==
  ASSUME TypeInv, LocksAccounted, NEW g \in Threads, TakeToken(g),
         pc[g] \in {"refresh", "renew"}
  PROVE  LocksAccounted'
  BY AuthAssumption
     DEF AuthAssumption, TypeInv, TypeOK, StepsFit, StepFits, LocksAccounted, HoldsLock,
         At, Goto, TakeToken, Unlock, sigVars, DraftSteps

LEMMA TimedLocks ==
  ASSUME TypeInv, LocksAccounted, NEW g \in Threads, TimedSteps(g)
  PROVE  LocksAccounted'
  <1> USE DEF slotVars, sigVars, callVars, histVars
  <1>1. CASE TokenFresh(g) \/ Renewed(g)
    BY <1>1, TakeTokenLocks DEF TokenFresh, Renewed, At
  <1>2. CASE NoTokens(g) \/ RenewFails(g) \/ SignInFails(g)
    BY <1>2, ReturnLocks DEF NoTokens, RenewFails, SignInFails, At
  <1>3. CASE RenewRejected(g)
    BY <1>3, GrantIsDeadLocks DEF RenewRejected, HoldsLock, At
  <1>4. CASE Userinfo(g)
    BY <1>4, AuthAssumption
       DEF AuthAssumption, TypeInv, TypeOK, StepsFit, StepFits, LocksAccounted,
           HoldsLock, At, Goto, Userinfo, Unlock, DraftSteps
  <1>5. CASE AskForToken(g) \/ PickCache(g) \/ Revoke(g) \/ Emit(g)
    BY <1>5 DEF TypeInv, TypeOK, StepsFit, StepFits, LocksAccounted, HoldsLock, At,
                Goto, AskForToken, PickCache, Revoke, Emit, DraftSteps
  <1>6. CASE \E a \in Accounts : SignedIn(g, a)
    BY <1>6 DEF TypeInv, TypeOK, StepsFit, StepFits, LocksAccounted, HoldsLock, At,
                Goto, SignedIn, DraftSteps
  <1> QED BY <1>1, <1>2, <1>3, <1>4, <1>5, <1>6 DEF TimedSteps

LEMMA GmailLocks ==
  ASSUME TypeInv, LocksAccounted, NEW g \in Threads, GmailSteps(g)
  PROVE  LocksAccounted'
  <1> USE DEF slotVars, sigVars, callVars, histVars
  <1>1. CASE FetchSignature(g)
    BY <1>1, AuthAssumption
       DEF AuthAssumption, TypeInv, TypeOK, StepsFit, StepFits, LocksAccounted,
           HoldsLock, At, Goto, FetchSignature, DraftSteps
  <1>2. CASE CallEnds(g)
    BY <1>2, ReturnLocks DEF CallEnds, At
  <1>3. CASE Retry(g)
    BY <1>3 DEF TypeInv, TypeOK, StepsFit, StepFits, LocksAccounted, HoldsLock, At,
                Goto, Retry, DraftSteps
  <1>4. CASE RetryRejected(g)
    BY <1>4, GrantIsDeadLocks DEF RetryRejected, HoldsLock, At
  <1> QED BY <1>1, <1>2, <1>3, <1>4 DEF GmailSteps

\* A status query that returns from a sign-in lets its mutex go with it.
LEMMA LockLocks ==
  ASSUME TypeInv, LocksAccounted, NEW g \in Threads, LockSteps(g)
  PROVE  LocksAccounted'
  <1> USE DEF slotVars, sigVars, callVars, histVars
  <1>1. CASE Acquire(g)
    BY <1>1, AuthAssumption
       DEF AuthAssumption, TypeInv, TypeOK, StepsFit, StepFits, LocksAccounted,
           HoldsLock, At, Goto, Acquire, CanLock, FirstStep, DraftSteps
  <1>2. CASE LookInCache(g)
    BY <1>2, AuthAssumption
       DEF AuthAssumption, TypeInv, TypeOK, StepsFit, StepFits, LocksAccounted,
           HoldsLock, At, Goto, LookInCache, DraftSteps
  <1>3. CASE SignOutEnds(g)
    BY <1>3, AuthAssumption
       DEF AuthAssumption, TypeInv, TypeOK, StepsFit, StepFits, LocksAccounted,
           HoldsLock, At, Goto, SignOutEnds, Unlock, DraftSteps
  <1>4. CASE Status(g)
    BY <1>4, ReturnLocks DEF Status, At
  <1>5. CASE SwitchStatus(g) \/ Announced(g) \/ Hydrate(g)
    BY <1>5 DEF TypeInv, TypeOK, StepsFit, StepFits, LocksAccounted, HoldsLock, At,
                Goto, SwitchStatus, Announced, Hydrate, DraftSteps
  <1> QED BY <1>1, <1>2, <1>3, <1>4, <1>5 DEF LockSteps

LEMMA NextLocks == TypeInv /\ LocksAccounted /\ [Next]_vars => LocksAccounted'
  <1> SUFFICES ASSUME TypeInv, LocksAccounted, [Next]_vars PROVE LocksAccounted'
    OBVIOUS
  <1> USE DEF LocksAccounted, HoldsLock, At, slotVars, sigVars, callVars, histVars
  <1>1. CASE UNCHANGED vars
    BY <1>1 DEF vars
  <1>2. CASE \E s \in Slots : TokenAges(s)
    BY <1>2 DEF TokenAges
  <1>3. CASE \E a \in Accounts : GrantWithdrawn(a)
    BY <1>3 DEF GrantWithdrawn
  <1>4. CASE Restart
    BY <1>4, AuthAssumption DEF AuthAssumption, Restart, Nothing
  <1> QED
    BY <1>1, <1>2, <1>3, <1>4, RequestsLocks, TimedLocks, GmailLocks, LockLocks DEF Next

\* Every mutex is held exactly by the goroutine that is at a step which lets it
\* go, on every path through refresh, retry, sign-in and sign-out.
THEOREM MutexesAccounted == Spec => []LocksAccounted
  <1>1. Spec => []TypeInv
    BY InitTypeInv, NextTypeInv, PTL DEF Spec
  <1> QED BY <1>1, InitLocks, NextLocks, PTL DEF Spec

\* A goroutine in a circle neither fetches a signature nor waits for one that
\* is fetched, so the mutex it waits for is held by a sign-in that asks for a
\* Status().
LEMMA CirclesNeedSignIn == TypeInv /\ LocksAccounted => StuckOnlyBySignIn
  <1> SUFFICES ASSUME TypeInv, LocksAccounted,
                      NEW C \in (SUBSET Threads) \ {{}},
                      \A g \in C : \E h \in C : WaitsFor(g, h)
               PROVE  \E g \in C : SignInHangs(g)
    BY DEF StuckOnlyBySignIn
  <1>1. \A g \in C : pc[g] \in {"acquire", "status", "cache", "reset"}
    BY DEF WaitsFor, At
  <1>2. \A g \in C : pc[g] \in {"acquire", "status"}
    <2>1. SUFFICES ASSUME NEW g \in C, pc[g] \in {"cache", "reset"} PROVE FALSE
      BY <1>1
    <2>2. PICK h \in C : WaitsFor(g, h)
      OBVIOUS
    <2>3. \E s \in Slots : sigLock[s] = h
      BY <2>1, <2>2 DEF WaitsFor, At, TypeInv, StepsFit, StepFits
    <2>4. pc[h] = "fetch"
      BY <2>3 DEF LocksAccounted, At
    <2> QED BY <1>1, <2>4
  <1>3. PICK g \in C : TRUE
    OBVIOUS
  <1>4. PICK h \in C : WaitsFor(g, h)
    OBVIOUS
  <1>5. \E s \in Slots : lock[s] = h
    BY <1>2, <1>4 DEF WaitsFor, At, TypeInv, StepsFit, StepFits
  <1>6. job[h] = "signin" /\ At(h, "status")
    BY <1>2, <1>5 DEF LocksAccounted, HoldsLock, At
  <1>7. PICK k \in C : WaitsFor(h, k)
    OBVIOUS
  <1>8. lock[view[h]] = k /\ k # None
    BY <1>6, <1>7, AuthAssumption DEF AuthAssumption, WaitsFor, At
  <1> QED BY <1>6, <1>8 DEF SignInHangs

\* Whatever goroutines, slots and switches: only a sign-in that asks for a
\* Status() under its own mutex can close a circle of waiting goroutines.
THEOREM CirclesOnlyBySignIn == Spec => []StuckOnlyBySignIn
  <1>1. Spec => []TypeInv
    BY InitTypeInv, NextTypeInv, PTL DEF Spec
  <1> QED BY <1>1, MutexesAccounted, CirclesNeedSignIn, PTL

-----------------------------------------------------------------------------
(* What the mutex of a slot protects.                                      *)

\* Between the request for an access token and its reply the slot keeps its
\* tokens; between revocation and the end of a sign-out it stays without.
UnderLock ==
  /\ TokensDuringRenewal
  /\ \A g \in Threads : At(g, "reset") => tokens[slot[g]] = None

\* Two goroutines at such steps are not on the same slot.
LEMMA OneHolder ==
  ASSUME TypeInv, LocksAccounted, NEW g \in Threads, NEW h \in Threads,
         HoldsLock(g), HoldsLock(h), slot[g] = slot[h]
  PROVE  g = h
  <1>1. slot[g] \in Slots
    BY DEF TypeInv, StepsFit, StepFits, HoldsLock, At, TypeOK, DraftSteps
  <1> QED BY <1>1 DEF LocksAccounted

\* The tokens of a slot change only by a step of the goroutine that holds it,
\* which is at none of the two steps afterwards, or with a restart.
LEMMA HolderChangesTokens ==
  ASSUME TypeInv, [Next]_vars, ~Restart
  PROVE  \/ tokens' = tokens
         \/ \E g \in Threads :
              /\ HoldsLock(g)
              /\ \A s \in Slots \ {slot[g]} : tokens'[s] = tokens[s]
              /\ \A h \in Threads \ {g} : pc'[h] = pc[h] /\ slot'[h] = slot[h]
              /\ pc'[g] # "renew"
              /\ pc'[g] = "reset" => tokens'[slot[g]] = None /\ slot'[g] = slot[g]
  <1> USE DEF slotVars, sigVars, callVars, histVars
  <1>1. CASE UNCHANGED vars
    BY <1>1 DEF vars
  <1>2. ASSUME NEW g \in Threads, Requests(g) PROVE tokens' = tokens
    BY <1>2 DEF Requests, StartCall, StartSignIn, StartSignOut, Switch, Poll
  <1>3. ASSUME NEW g \in Threads, LockSteps(g) PROVE tokens' = tokens
    BY <1>3 DEF LockSteps, Acquire, LookInCache, SignOutEnds, Status, SwitchStatus,
                Announced, Hydrate
  <1>4. CASE (\E s \in Slots : TokenAges(s)) \/ \E a \in Accounts : GrantWithdrawn(a)
    BY <1>4 DEF TokenAges, GrantWithdrawn
  <1>5. ASSUME NEW g \in Threads, TimedSteps(g) \/ GmailSteps(g),
               ~(\E a \in Accounts : SignedIn(g, a)),
               ~RenewRejected(g), ~RetryRejected(g), ~Revoke(g), ~SignInFails(g)
        PROVE  tokens' = tokens
    BY <1>5 DEF TimedSteps, GmailSteps, TokenFresh, NoTokens, AskForToken, Renewed,
                RenewFails, PickCache, Userinfo, Emit, FetchSignature, CallEnds, Retry,
                TakeToken
  <1>6. ASSUME NEW g \in Threads,
               \/ \E a \in Accounts : SignedIn(g, a)
               \/ RenewRejected(g) \/ RetryRejected(g) \/ Revoke(g) \/ SignInFails(g)
        PROVE  /\ HoldsLock(g)
               /\ \A s \in Slots \ {slot[g]} : tokens'[s] = tokens[s]
               /\ \A h \in Threads \ {g} : pc'[h] = pc[h] /\ slot'[h] = slot[h]
               /\ pc'[g] # "renew"
               /\ pc'[g] = "reset" => tokens'[slot[g]] = None /\ slot'[g] = slot[g]
    <2> USE DEF TypeInv, TypeOK, StepsFit, StepFits, HoldsLock, At, Goto, Steps
    <2>1. CASE \E a \in Accounts : SignedIn(g, a)
      BY <2>1 DEF SignedIn
    <2>2. CASE RenewRejected(g) \/ RetryRejected(g)
      BY <2>2 DEF RenewRejected, RetryRejected, GrantIsDead, ClearTokens, ForgetTokens
    <2>3. CASE Revoke(g)
      BY <2>3 DEF Revoke, ForgetTokens
    <2>4. CASE SignInFails(g)
      BY <2>4 DEF SignInFails, ForgetTokens, Return
    <2> QED BY <1>6, <2>1, <2>2, <2>3, <2>4
  <1> QED BY <1>1, <1>2, <1>3, <1>4, <1>5, <1>6 DEF Next

\* How a goroutine comes to one of the two steps.
LEMMA WhoEnters ==
  ASSUME TypeInv, [Next]_vars, ~Restart, NEW g \in Threads
  PROVE  /\ pc'[g] = "renew" => /\ slot'[g] = slot[g]
                                /\ pc[g] = "renew" \/ tokens[slot[g]] # None
         /\ pc'[g] = "reset" => /\ slot'[g] = slot[g]
                                /\ pc[g] = "reset" \/ tokens'[slot[g]] = None
  <1> USE DEF TypeInv, TypeOK, StepsFit, StepFits, At, Goto, slotVars, sigVars, callVars,
              histVars
  <1>1. CASE UNCHANGED vars
    BY <1>1 DEF vars
  <1>2. ASSUME NEW h \in Threads, Requests(h)
        PROVE  pc'[g] \in {pc[g], "acquire", "status"} /\ (pc[g] # "idle" => slot'[g] = slot[g])
    BY <1>2 DEF Requests, StartCall, StartSignIn, StartSignOut, Switch, Poll, Begin, Steps
  <1>3. CASE (\E s \in Slots : TokenAges(s)) \/ \E a \in Accounts : GrantWithdrawn(a)
    BY <1>3 DEF TokenAges, GrantWithdrawn
  <1>4. ASSUME NEW h \in Threads, LockSteps(h)
        PROVE  pc'[g] = "renew" \/ pc'[g] = "reset" =>
                 pc[g] = pc'[g] /\ slot'[g] = slot[g]
    BY <1>4 DEF LockSteps, Acquire, FirstStep, LookInCache, SignOutEnds, Status,
                SwitchStatus, Announced, Hydrate, Return, Steps, Jobs
  <1>5. ASSUME NEW h \in Threads, GmailSteps(h)
        PROVE  pc'[g] = "renew" \/ pc'[g] = "reset" =>
                 pc[g] = pc'[g] /\ slot'[g] = slot[g]
    BY <1>5 DEF GmailSteps, FetchSignature, CallEnds, Retry, RetryRejected, GrantIsDead,
                Return, Steps
  <1>6. ASSUME NEW h \in Threads, TimedSteps(h), ~AskForToken(h), ~Revoke(h)
        PROVE  pc'[g] = "renew" \/ pc'[g] = "reset" =>
                 pc[g] = pc'[g] /\ slot'[g] = slot[g]
    BY <1>6 DEF TimedSteps, TokenFresh, NoTokens, Renewed, RenewFails, RenewRejected,
                PickCache, SignInFails, Userinfo, Emit, SignedIn, GrantIsDead, TakeToken,
                Return, Steps
  <1>7. ASSUME NEW h \in Threads, AskForToken(h)
        PROVE  /\ pc'[g] = "renew" => /\ slot'[g] = slot[g]
                                      /\ pc[g] = "renew" \/ tokens[slot[g]] # None
               /\ pc'[g] = "reset" => slot'[g] = slot[g] /\ pc[g] = "reset"
    BY <1>7 DEF AskForToken, Steps
  <1>8. ASSUME NEW h \in Threads, Revoke(h)
        PROVE  /\ pc'[g] = "renew" => slot'[g] = slot[g] /\ pc[g] = "renew"
               /\ pc'[g] = "reset" => /\ slot'[g] = slot[g]
                                      /\ pc[g] = "reset" \/ tokens'[slot[g]] = None
    BY <1>8 DEF Revoke, ForgetTokens, Steps
  <1> QED BY <1>1, <1>2, <1>3, <1>4, <1>5, <1>6, <1>7, <1>8 DEF Next

LEMMA InitUnderLock == Init => UnderLock
  BY DEF Init, ThreadsInit, UnderLock, TokensDuringRenewal, At

LEMMA NextUnderLock == TypeInv /\ LocksAccounted /\ UnderLock /\ [Next]_vars => UnderLock'
  <1> SUFFICES ASSUME TypeInv, LocksAccounted, UnderLock, [Next]_vars,
                      NEW g \in Threads, pc'[g] \in {"renew", "reset"}
               PROVE  /\ pc'[g] = "renew" => tokens'[slot'[g]] # None
                      /\ pc'[g] = "reset" => tokens'[slot'[g]] = None
    BY DEF UnderLock, TokensDuringRenewal, At
  <1>1. ~Restart
    BY DEF Restart
  <1>2. CASE tokens' = tokens
    BY <1>1, <1>2, WhoEnters DEF UnderLock, TokensDuringRenewal, At
  <1>3. ASSUME NEW h \in Threads, HoldsLock(h),
               \A s \in Slots \ {slot[h]} : tokens'[s] = tokens[s],
               \A k \in Threads \ {h} : pc'[k] = pc[k] /\ slot'[k] = slot[k],
               pc'[h] # "renew",
               pc'[h] = "reset" => tokens'[slot[h]] = None /\ slot'[h] = slot[h]
        PROVE  /\ pc'[g] = "renew" => tokens'[slot'[g]] # None
               /\ pc'[g] = "reset" => tokens'[slot'[g]] = None
    <2>1. CASE g = h
      BY <1>3, <2>1
    <2>2. CASE g # h
      <3>1. pc[g] \in {"renew", "reset"} /\ slot'[g] = slot[g] /\ pc'[g] = pc[g]
        BY <1>3, <2>2
      <3>2. slot[g] \in Slots \ {slot[h]}
        BY <1>3, <2>2, <3>1, OneHolder
           DEF HoldsLock, TypeInv, StepsFit, StepFits, At, DraftSteps
      <3> QED BY <1>3, <3>1, <3>2 DEF UnderLock, TokensDuringRenewal, At
    <2> QED BY <2>1, <2>2
  <1> QED BY <1>1, <1>2, <1>3, HolderChangesTokens

LEMMA SlotInvariants == Spec => [](TypeInv /\ LocksAccounted /\ UnderLock)
  BY InitTypeInv, NextTypeInv, InitLocks, NextLocks, InitUnderLock, NextUnderLock, PTL
     DEF Spec

\* While a goroutine waits for a new access token its slot is not signed out,
\* whatever else runs: am.tokens is not nil where the reply is stored.
THEOREM RenewalKeepsTokens == Spec => []TokensDuringRenewal
  <1>1. UnderLock => TokensDuringRenewal
    BY DEF UnderLock
  <1> QED BY <1>1, SlotInvariants, PTL

-----------------------------------------------------------------------------
(* The entries of the credential store.                                    *)

StoreInv == SignedOutStaysOut /\ EntryMatchesTokens

LEMMA InitStore == Init => StoreInv
  BY DEF Init, StoreInv, SignedOutStaysOut, EntryMatchesTokens

\* Only these steps touch tokens, entries or the history of sign-outs.
LEMMA WhoTouchesEntries ==
  ASSUME [Next]_vars
  PROVE  \/ UNCHANGED <<tokens, keyring, left>>
         \/ Restart
         \/ \E g \in Threads :
              \/ Renewed(g) \/ RenewRejected(g) \/ RetryRejected(g) \/ SignInFails(g)
              \/ Revoke(g) \/ SignOutEnds(g) \/ \E a \in Accounts : SignedIn(g, a)
  <1> USE DEF slotVars, sigVars, callVars, histVars
  <1>1. CASE UNCHANGED vars
    BY <1>1 DEF vars
  <1>2. ASSUME NEW g \in Threads, Requests(g) PROVE UNCHANGED <<tokens, keyring, left>>
    BY <1>2 DEF Requests, StartCall, StartSignIn, StartSignOut, Switch, Poll
  <1>3. CASE (\E s \in Slots : TokenAges(s)) \/ \E a \in Accounts : GrantWithdrawn(a)
    BY <1>3 DEF TokenAges, GrantWithdrawn
  <1>4. ASSUME NEW g \in Threads, LockSteps(g), ~SignOutEnds(g)
        PROVE  UNCHANGED <<tokens, keyring, left>>
    BY <1>4 DEF LockSteps, Acquire, LookInCache, Status, SwitchStatus, Announced, Hydrate
  <1>5. ASSUME NEW g \in Threads, GmailSteps(g), ~RetryRejected(g)
        PROVE  UNCHANGED <<tokens, keyring, left>>
    BY <1>5 DEF GmailSteps, FetchSignature, CallEnds, Retry
  <1>6. ASSUME NEW g \in Threads, TimedSteps(g), ~Renewed(g), ~RenewRejected(g),
               ~SignInFails(g), ~Revoke(g), ~\E a \in Accounts : SignedIn(g, a)
        PROVE  UNCHANGED <<tokens, keyring, left>>
    BY <1>6 DEF TimedSteps, TokenFresh, TakeToken, NoTokens, AskForToken, RenewFails,
                PickCache, Userinfo, Emit
  <1> QED BY <1>1, <1>2, <1>3, <1>4, <1>5, <1>6 DEF Next

LEMMA NextStore ==
  ~StoreFails /\ TypeInv /\ UnderLock /\ StoreInv /\ [Next]_vars => StoreInv'
  <1> SUFFICES ASSUME ~StoreFails, TypeInv, UnderLock, StoreInv, [Next]_vars
               PROVE  StoreInv'
    OBVIOUS
  <1> USE DEF StoreInv, SignedOutStaysOut, EntryMatchesTokens, TypeInv, TypeOK
  <1>1. CASE UNCHANGED <<tokens, keyring, left>>
    BY <1>1
  <1>2. CASE Restart
    BY <1>2 DEF Restart
  <1>3. ASSUME NEW g \in Threads, Renewed(g) PROVE StoreInv'
    <2>1. slot[g] \in Slots /\ tokens[slot[g]] # None
      BY <1>3 DEF Renewed, StepsFit, StepFits, At, DraftSteps, UnderLock,
                  TokensDuringRenewal
    <2> QED BY <1>3, <2>1 DEF Renewed, SaveEntry, TakeToken, histVars
  <1>4. ASSUME NEW g \in Threads, RenewRejected(g) \/ RetryRejected(g) PROVE StoreInv'
    BY <1>4 DEF RenewRejected, RetryRejected, GrantIsDead, ClearTokens, ForgetTokens,
                DeleteEntry
  <1>5. ASSUME NEW g \in Threads, SignInFails(g) PROVE StoreInv'
    BY <1>5 DEF SignInFails
  <1>6. ASSUME NEW g \in Threads, Revoke(g) PROVE StoreInv'
    BY <1>6 DEF Revoke, ForgetTokens, histVars
  <1>7. ASSUME NEW g \in Threads, SignOutEnds(g) PROVE StoreInv'
    <2>1. slot[g] \in Slots /\ tokens[slot[g]] = None
      BY <1>7 DEF SignOutEnds, StepsFit, StepFits, At, UnderLock
    <2> QED BY <1>7, <2>1 DEF SignOutEnds, DeleteEntry
  <1>8. ASSUME NEW g \in Threads, NEW a \in Accounts, SignedIn(g, a) PROVE StoreInv'
    BY <1>8 DEF SignedIn
  <1> QED BY <1>1, <1>2, <1>3, <1>4, <1>5, <1>6, <1>7, <1>8, WhoTouchesEntries

LEMMA StoreInvariants == ~StoreFails /\ Spec => []StoreInv
  <1> SUFFICES ASSUME ~StoreFails PROVE Spec => []StoreInv
    OBVIOUS
  <1>1. TypeInv /\ UnderLock /\ StoreInv /\ [Next]_vars => StoreInv'
    BY NextStore
  <1> QED BY <1>1, InitStore, SlotInvariants, PTL DEF Spec

\* As long as the credential store obeys, a slot stays signed out after a
\* sign-out until the next sign-in: through every refresh and retry that was
\* under way, and through every restart.
THEOREM SignOutLasts == ~StoreFails /\ Spec => []SignedOutStaysOut
  <1>1. StoreInv => SignedOutStaysOut
    BY DEF StoreInv
  <1> QED BY <1>1, StoreInvariants, PTL

\* As long as the credential store obeys, the entry of a slot with tokens is
\* that of the same account.
THEOREM EntriesMatch == ~StoreFails /\ Spec => []EntryMatchesTokens
  <1>1. StoreInv => EntryMatchesTokens
    BY DEF StoreInv
  <1> QED BY <1>1, StoreInvariants, PTL

-----------------------------------------------------------------------------
(* Signatures.                                                             *)

TokenSteps == {"pick", "cache", "fetch", "create"}

\* Account a is somewhere in slot s: in memory, in the entry, in the cache, or
\* in the hands of a call that was pinned to the slot.
Has(s, a) ==
  \/ tokens[s] = a \/ keyring[s] = a \/ sig[s] = a
  \/ \E g \in Threads : /\ slot[g] = s
                        /\ \/ pc[g] \in TokenSteps /\ tok[g] = a
                           \/ At(g, "create") /\ stamp[g] = a

OneAccount == \A s \in Slots : \A a, b \in Accounts : Has(s, a) /\ Has(s, b) => a = b

\* No sign-in yet, and no call the active slot changed under.
Calm == signIns = 0 /\ midSwitches = 0

\* Until then calls stay with the active slot and its cache.
CallsStay ==
  /\ \A g \in Threads : job[g] # "signin"
  /\ \A g \in Unsigned : slot[g] = active
  /\ \A g \in Threads : pc[g] \in {"cache", "fetch"} => cache[g] = slot[g]

SignatureInv ==
  /\ \A g \in Threads : pc[g] \in TokenSteps => tok[g] # None
  /\ Calm => CallsStay /\ OneAccount

LEMMA InitSignatures == TypeInv /\ Init => SignatureInv
  <1> SUFFICES ASSUME TypeInv, Init PROVE SignatureInv
    OBVIOUS
  <1>1. \A s \in Slots, a \in Accounts : Has(s, a) => tokens[s] = a
    BY AuthAssumption
       DEF AuthAssumption, Init, ThreadsInit, Nothing, Has, TokenSteps, At
  <1>2. OneAccount
    BY <1>1 DEF OneAccount
  <1> QED BY <1>2 DEF Init, ThreadsInit, SignatureInv, TokenSteps, CallsStay, Unsigned

\* A call has a token in hand from the moment it takes one.
LEMMA TokenInHand ==
  ASSUME TypeInv, UnderLock, SignatureInv, [Next]_vars, NEW g \in Threads,
         pc'[g] \in TokenSteps
  PROVE  tok'[g] # None
  <1> USE DEF TypeInv, TypeOK, StepsFit, StepFits, At, Goto, TokenSteps, SignatureInv,
              slotVars, sigVars, callVars, histVars
  <1>1. CASE UNCHANGED vars
    BY <1>1 DEF vars
  <1>2. ASSUME NEW h \in Threads, Requests(h) PROVE tok'[g] # None
    BY <1>2 DEF Requests, StartCall, StartSignIn, StartSignOut, Switch, Poll, Begin, Steps
  <1>3. CASE (\E s \in Slots : TokenAges(s)) \/ \E a \in Accounts : GrantWithdrawn(a)
    BY <1>3 DEF TokenAges, GrantWithdrawn
  <1>4. ASSUME NEW h \in Threads, LockSteps(h) PROVE tok'[g] # None
    BY <1>4 DEF LockSteps, Acquire, FirstStep, LookInCache, SignOutEnds, Status,
                SwitchStatus, Announced, Hydrate, Return, Steps, Jobs
  <1>5. ASSUME NEW h \in Threads, GmailSteps(h) PROVE tok'[g] # None
    BY <1>5 DEF GmailSteps, FetchSignature, CallEnds, Retry, RetryRejected, GrantIsDead,
                Return, Steps
  <1>6. ASSUME NEW h \in Threads, TimedSteps(h), ~Renewed(h) PROVE tok'[g] # None
    BY <1>6 DEF TimedSteps, TokenFresh, NoTokens, RenewFails, RenewRejected, AskForToken,
                PickCache, SignInFails, Userinfo, Emit, SignedIn, GrantIsDead, TakeToken,
                Revoke, Return, Steps
  <1>7. ASSUME NEW h \in Threads, Renewed(h) PROVE tok'[g] # None
    BY <1>7 DEF Renewed, TakeToken, UnderLock, TokensDuringRenewal, Steps
  <1>8. CASE Restart
    BY <1>8 DEF Restart
  <1> QED BY <1>1, <1>2, <1>3, <1>4, <1>5, <1>6, <1>7, <1>8 DEF Next

\* No step leaves the calm but a first sign-in and a switch during a call.
LEMMA CalmBefore ==
  ASSUME TypeInv, [Next]_vars, Calm'
  PROVE  Calm
  <1> USE DEF Calm, TypeInv, TypeOK, slotVars, sigVars, callVars, histVars
  <1>1. CASE UNCHANGED vars
    BY <1>1 DEF vars
  <1>2. ASSUME NEW g \in Threads, Requests(g) PROVE Calm
    BY <1>2 DEF Requests, StartCall, StartSignIn, StartSignOut, Switch, Poll
  <1>3. CASE (\E s \in Slots : TokenAges(s)) \/ \E a \in Accounts : GrantWithdrawn(a)
    BY <1>3 DEF TokenAges, GrantWithdrawn
  <1>4. ASSUME NEW g \in Threads, LockSteps(g) PROVE Calm
    BY <1>4 DEF LockSteps, Acquire, LookInCache, SignOutEnds, Status, SwitchStatus,
                Announced, Hydrate
  <1>5. ASSUME NEW g \in Threads, GmailSteps(g) PROVE Calm
    BY <1>5 DEF GmailSteps, FetchSignature, CallEnds, Retry, RetryRejected, GrantIsDead
  <1>6. ASSUME NEW g \in Threads, TimedSteps(g) PROVE Calm
    BY <1>6 DEF TimedSteps, TokenFresh, NoTokens, RenewFails, RenewRejected, AskForToken,
                PickCache, SignInFails, Userinfo, Emit, SignedIn, GrantIsDead, TakeToken,
                Revoke, Renewed
  <1>7. CASE Restart
    BY <1>7 DEF Restart
  <1> QED BY <1>1, <1>2, <1>3, <1>4, <1>5, <1>6, <1>7 DEF Next

LEMMA NextCallsStay ==
  ASSUME TypeInv, Calm, CallsStay, [Next]_vars, Calm'
  PROVE  CallsStay'
  <1> USE DEF Calm, CallsStay, Unsigned, TypeInv, TypeOK, StepsFit, StepFits, At, Goto,
              slotVars, sigVars, callVars, histVars
  <1>1. CASE UNCHANGED vars
    BY <1>1 DEF vars
  <1>2. ASSUME NEW h \in Threads, Requests(h) PROVE CallsStay'
    <2>1. CASE StartCall(h)
      BY <2>1 DEF StartCall, Begin
    <2>2. CASE \E s \in Slots : StartSignIn(h, s)
      BY <2>2 DEF StartSignIn
    <2>3. CASE \E s \in Slots : StartSignOut(h, s) \/ Poll(h, s)
      BY <2>3 DEF StartSignOut, Poll, Begin
    <2>4. ASSUME NEW s \in Slots, Switch(h, s) PROVE CallsStay'
      <3>1. s = active \/ Unsigned = {}
        BY <2>4 DEF Switch
      <3>2. Unsigned' \subseteq Unsigned
        BY <2>4 DEF Switch, Begin
      <3> QED BY <2>4, <3>1, <3>2 DEF Switch, Begin
    <2> QED BY <1>2, <2>1, <2>2, <2>3, <2>4 DEF Requests
  <1>3. CASE (\E s \in Slots : TokenAges(s)) \/ \E a \in Accounts : GrantWithdrawn(a)
    BY <1>3 DEF TokenAges, GrantWithdrawn
  <1>4. ASSUME NEW h \in Threads, LockSteps(h) PROVE CallsStay'
    BY <1>4 DEF LockSteps, Acquire, FirstStep, LookInCache, SignOutEnds, Status,
                SwitchStatus, Announced, Hydrate, Return, Steps, Jobs
  <1>5. ASSUME NEW h \in Threads, GmailSteps(h) PROVE CallsStay'
    BY <1>5 DEF GmailSteps, FetchSignature, CallEnds, Retry, RetryRejected, GrantIsDead,
                Return, Steps
  <1>6. ASSUME NEW h \in Threads, TimedSteps(h) PROVE CallsStay'
    <2>1. CASE PickCache(h)
      BY <2>1 DEF PickCache, ActiveSlot, DraftSteps
    <2>2. CASE ~PickCache(h)
      BY <1>6, <2>2
         DEF TimedSteps, TokenFresh, NoTokens, RenewFails, RenewRejected, AskForToken,
             SignInFails, Userinfo, Emit, SignedIn, GrantIsDead, TakeToken,
             Revoke, Renewed, Return, Steps, DraftSteps
    <2> QED BY <2>1, <2>2
  <1>7. CASE Restart
    BY <1>7 DEF Restart, Nothing
  <1> QED BY <1>1, <1>2, <1>3, <1>4, <1>5, <1>6, <1>7 DEF Next

\* In the calm no step brings an account to a slot where it was not.
LEMMA NothingNew ==
  ASSUME TypeInv, Calm, CallsStay, [Next]_vars, NEW s \in Slots, NEW a \in Accounts,
         Has(s, a)'
  PROVE  Has(s, a)
  <1>0. a # None
    BY AuthAssumption DEF AuthAssumption
  <1> USE <1>0 DEF TypeInv, TypeOK, StepsFit, StepFits, CallsStay, Has, At, Goto,
                   TokenSteps, slotVars, sigVars, callVars, histVars
  <1>1. CASE UNCHANGED vars
    BY <1>1 DEF vars
  <1>2. ASSUME NEW h \in Threads, Requests(h) PROVE Has(s, a)
    BY <1>2 DEF Requests, StartCall, StartSignIn, StartSignOut, Switch, Poll, Begin
  <1>3. CASE (\E t \in Slots : TokenAges(t)) \/ \E b \in Accounts : GrantWithdrawn(b)
    BY <1>3 DEF TokenAges, GrantWithdrawn
  <1>4. ASSUME NEW h \in Threads, LockSteps(h) PROVE Has(s, a)
    <2>1. CASE Acquire(h)
      <3>1. FirstStep(job[h]) \notin TokenSteps
        BY DEF FirstStep
      <3> QED BY <2>1, <3>1 DEF Acquire
    <2>2. CASE LookInCache(h)
      <3>1. cache[h] = slot[h] /\ slot[h] \in Slots
        BY <2>2 DEF LookInCache, DraftSteps
      <3> QED BY <2>2, <3>1 DEF LookInCache
    <2>3. CASE SignOutEnds(h)
      BY <2>3 DEF SignOutEnds, ResetSignature, DeleteEntry
    <2>4. CASE Status(h)
      BY <2>4 DEF Status, Return
    <2>5. CASE SwitchStatus(h) \/ Announced(h) \/ Hydrate(h)
      BY <2>5 DEF SwitchStatus, Announced, Hydrate
    <2> QED BY <1>4, <2>1, <2>2, <2>3, <2>4, <2>5 DEF LockSteps
  <1>5. ASSUME NEW h \in Threads, GmailSteps(h) PROVE Has(s, a)
    <2>1. CASE FetchSignature(h)
      <3>1. cache[h] = slot[h] /\ slot[h] \in Slots
        BY <2>1 DEF FetchSignature, DraftSteps
      <3> QED BY <2>1, <3>1 DEF FetchSignature
    <2>2. CASE CallEnds(h) \/ Retry(h)
      BY <2>2 DEF CallEnds, Retry, Return
    <2>3. CASE RetryRejected(h)
      BY <2>3 DEF RetryRejected, GrantIsDead, ClearTokens, ForgetTokens, DeleteEntry
    <2> QED BY <1>5, <2>1, <2>2, <2>3 DEF GmailSteps
  <1>6. ASSUME NEW h \in Threads, TimedSteps(h) PROVE Has(s, a)
    <2>1. CASE TokenFresh(h)
      BY <2>1 DEF TokenFresh, TakeToken
    <2>2. CASE Renewed(h)
      BY <2>2 DEF Renewed, TakeToken, SaveEntry
    <2>3. CASE NoTokens(h) \/ RenewFails(h)
      BY <2>3 DEF NoTokens, RenewFails, Return
    <2>4. CASE RenewRejected(h)
      BY <2>4 DEF RenewRejected, GrantIsDead, ClearTokens, ForgetTokens, DeleteEntry
    <2>5. CASE AskForToken(h) \/ PickCache(h) \/ Userinfo(h) \/ Emit(h)
      BY <2>5 DEF AskForToken, PickCache, Userinfo, Emit
    <2>6. CASE SignInFails(h) \/ \E b \in Accounts : SignedIn(h, b)
      BY <2>6 DEF SignInFails, SignedIn
    <2>7. CASE Revoke(h)
      BY <2>7 DEF Revoke, ForgetTokens
    <2> QED BY <1>6, <2>1, <2>2, <2>3, <2>4, <2>5, <2>6, <2>7 DEF TimedSteps
  <1>7. CASE Restart
    BY <1>7 DEF Restart, Nothing
  <1> QED BY <1>1, <1>2, <1>3, <1>4, <1>5, <1>6, <1>7 DEF Next

LEMMA NextSignatures ==
  TypeInv /\ UnderLock /\ SignatureInv /\ [Next]_vars => SignatureInv'
  <1> SUFFICES ASSUME TypeInv, UnderLock, SignatureInv, [Next]_vars
               PROVE  SignatureInv'
    OBVIOUS
  <1>1. (\A g \in Threads : pc[g] \in TokenSteps => tok[g] # None)'
    BY TokenInHand DEF TokenSteps
  <1>2. ASSUME Calm' PROVE CallsStay' /\ OneAccount'
    <2>1. Calm /\ CallsStay /\ OneAccount
      BY <1>2, CalmBefore DEF SignatureInv
    <2>2. CallsStay'
      BY <1>2, <2>1, NextCallsStay
    <2>3. ASSUME NEW s \in Slots, NEW a \in Accounts, NEW b \in Accounts,
                 Has(s, a)', Has(s, b)'
          PROVE  a = b
      <3>1. Has(s, a) /\ Has(s, b)
        BY <2>1, <2>3, NothingNew
      <3> QED BY <2>1, <3>1 DEF OneAccount
    <2>4. OneAccount'
      BY <2>3 DEF OneAccount
    <2> QED BY <2>2, <2>4
  <1> QED BY <1>1, <1>2 DEF SignatureInv

\* Before the first sign-in and without a switch during a call the two
\* accounts' signatures never mix: a draft carries its own account's signature
\* or none, and no cache holds another account's.
THEOREM SignaturesInTheCalm == Spec => []CalmSignatures
  <1>1. ASSUME TypeInv, SignatureInv PROVE CalmSignatures
    <2>1. SUFFICES ASSUME Calm PROVE OwnSignature /\ CacheFollowsSignIn
      BY DEF CalmSignatures, Calm
    <2>2. OneAccount
      BY <1>1, <2>1 DEF SignatureInv
    <2>3. CacheFollowsSignIn
      BY <1>1, <2>2 DEF CacheFollowsSignIn, OneAccount, Has, TypeInv, TypeOK
    <2>4. ASSUME NEW g \in Threads, At(g, "create"), stamp[g] # None
          PROVE  stamp[g] = tok[g]
      <3>1. slot[g] \in Slots
        BY <1>1, <2>4 DEF TypeInv, TypeOK, StepsFit, StepFits, At, DraftSteps
      <3>2. tok[g] \in Accounts /\ stamp[g] \in Accounts
        BY <1>1, <2>4 DEF SignatureInv, TokenSteps, At, TypeInv, TypeOK
      <3>3. Has(slot[g], tok[g]) /\ Has(slot[g], stamp[g])
        BY <2>4 DEF Has, TokenSteps, At
      <3> QED BY <2>2, <3>1, <3>2, <3>3 DEF OneAccount
    <2> QED BY <2>3, <2>4 DEF OwnSignature
  <1>2. Spec => []SignatureInv
    BY InitTypeInv, InitSignatures, NextSignatures, SlotInvariants, PTL DEF Spec
  <1> QED BY <1>1, <1>2, SlotInvariants, PTL
=============================================================================

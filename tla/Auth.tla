-------------------------------- MODULE Auth --------------------------------
(***************************************************************************)
(* The two account slots: AuthManager and the bindings around it           *)
(* (src/src/app/auth.go) with the per-slot signature cache                 *)
(* (src/src/app/signature.go).  Every goroutine of the application may run *)
(* MakeAuthenticatedGmailCall, a sign-in, a sign-out, a slot switch or a   *)
(* Status query at any time.  A slot's mutex `refresh' is held across HTTP *)
(* calls; it is not reentrant.                                             *)
(*                                                                         *)
(* A token, a signature and a credential entry are abstracted to the       *)
(* Google account they belong to, or None.                                 *)
(***************************************************************************)
EXTENDS Naturals, FiniteSets

CONSTANTS
  Slots,            (* the account slots, 2 in the code                    *)
  Accounts,         (* Google accounts                                     *)
  Threads,          (* goroutines                                          *)
  None,
  RevokeFails,      (* revokeRefreshToken is best effort                   *)
  StoreFails,       (* the Windows Credential Manager may refuse a write   *)
  MaxMidSwitches,   (* bound on slot switches while a call runs            *)
  MaxSignIns,       (* bound on sign-in flows                              *)
  MaxRestarts       (* bound on restarts of the application                *)

ASSUME AuthAssumption ==
  /\ None \notin Slots \cup Accounts \cup Threads
  /\ {RevokeFails, StoreFails} \subseteq BOOLEAN
  /\ {MaxMidSwitches, MaxSignIns, MaxRestarts} \subseteq Nat

VARIABLES
  active,    (* the slot a.auth points at                                  *)
  lock,      (* lock[s]: the goroutine that holds refresh of slot s        *)
  tokens,    (* tokens[s]: the account of the tokens in memory             *)
  stale,     (* slots whose access token is within 5 minutes of expiry     *)
  keyring,   (* keyring[s]: the account of the credential entry            *)
  granted,   (* accounts whose grant Google honours                        *)
  sig,       (* sig[s]: whose signature is cached                          *)
  sigLock,   (* sigLock[s]: the goroutine that holds the cache mutex       *)
  pc, job,   (* per goroutine: the next step, and the operation            *)
  slot,      (* the slot the operation was pinned to                       *)
  tok,       (* the account of the access token in hand                    *)
  cache,     (* the slot whose signature cache was picked                  *)
  stamp,     (* whose signature the message carries                        *)
  retry,     (* the second attempt, under the lock                         *)
  view,      (* the slot whose Status() is asked for                       *)
  moved,     (* history: calls the active slot changed under               *)
  left,      (* history: slots the user signed out of since the last sign-in *)
  midSwitches, signIns, restarts

slotVars == <<tokens, stale, keyring, granted>>
sigVars  == <<sig, sigLock>>
callVars == <<slot, tok, cache, stamp, retry, view>>
histVars == <<moved, left, midSwitches, signIns, restarts>>
vars == <<active, lock, slotVars, sigVars, pc, job, callVars, histVars>>

Steps == {"idle", "acquire", "refresh", "renew", "pick", "cache", "fetch",
          "create", "flow", "revoke", "reset", "userinfo", "emit", "status"}
Jobs  == {"none", "draft", "signin", "signout", "switch", "announce", "hydrate",
          "identity", "poll"}

TypeOK ==
  /\ active \in Slots
  /\ lock \in [Slots -> Threads \cup {None}]
  /\ tokens \in [Slots -> Accounts \cup {None}]
  /\ stale \subseteq {s \in Slots : tokens[s] # None}
  /\ keyring \in [Slots -> Accounts \cup {None}]
  /\ granted \subseteq Accounts
  /\ sig \in [Slots -> Accounts \cup {None}]
  /\ sigLock \in [Slots -> Threads \cup {None}]
  /\ pc \in [Threads -> Steps]
  /\ job \in [Threads -> Jobs]
  /\ slot \in [Threads -> Slots \cup {None}]
  /\ tok \in [Threads -> Accounts \cup {None}]
  /\ cache \in [Threads -> Slots \cup {None}]
  /\ stamp \in [Threads -> Accounts \cup {None}]
  /\ retry \subseteq Threads
  /\ view \in [Threads -> Slots \cup {None}]
  /\ moved \subseteq Threads
  /\ left \subseteq Slots
  /\ midSwitches \in Nat /\ signIns \in Nat /\ restarts \in Nat

Nothing(S) == [x \in S |-> None]

ThreadsInit ==
  /\ lock = Nothing(Slots) /\ sigLock = Nothing(Slots)
  /\ pc = [g \in Threads |-> "idle"] /\ job = [g \in Threads |-> "none"]
  /\ slot = Nothing(Threads) /\ tok = Nothing(Threads)
  /\ cache = Nothing(Threads) /\ stamp = Nothing(Threads)
  /\ view = Nothing(Threads)
  /\ retry = {} /\ moved = {}

\* startup after bootstrapAuth: any slot may have an entry from an earlier run.
Init ==
  /\ active \in Slots
  /\ tokens \in [Slots -> Accounts \cup {None}]
  /\ keyring = tokens
  /\ stale = {s \in Slots : tokens[s] # None}
  /\ granted = Accounts
  /\ sig = Nothing(Slots)
  /\ ThreadsInit
  /\ left = {}
  /\ midSwitches = 0 /\ signIns = 0 /\ restarts = 0

-----------------------------------------------------------------------------
(* Helpers                                                                 *)

At(g, p)   == pc[g] = p
Goto(g, p) == pc' = [pc EXCEPT ![g] = p]

Unlock(g)  == lock' = [lock EXCEPT ![slot[g]] = None]

\* The goroutine returns; a deferred unlock runs now.
Return(g) ==
  /\ Goto(g, "idle")
  /\ job' = [job EXCEPT ![g] = "none"]
  /\ slot' = [slot EXCEPT ![g] = None]
  /\ tok' = [tok EXCEPT ![g] = None]
  /\ cache' = [cache EXCEPT ![g] = None]
  /\ stamp' = [stamp EXCEPT ![g] = None]
  /\ view' = [view EXCEPT ![g] = None]
  /\ retry' = retry \ {g}
  /\ moved' = moved \ {g}
  /\ lock' = [s \in Slots |-> IF lock[s] = g THEN None ELSE lock[s]]

\* The slot forgets its tokens, the expiry with them.  Mutant: not the expiry.
ForgetAccount(s) ==
  /\ tokens' = [tokens EXCEPT ![s] = None]
  /\ UNCHANGED stale

ForgetTokens(s) ==
  /\ tokens' = [tokens EXCEPT ![s] = None]
  /\ stale' = stale \ {s}

\* keyring.Set after a refresh; a failure is only logged.
SaveEntry(s, a) ==
  \/ keyring' = [keyring EXCEPT ![s] = a]
  \/ StoreFails /\ UNCHANGED keyring

\* keyring.Delete, whose failure is ignored.
DeleteEntry(s) ==
  \/ keyring' = [keyring EXCEPT ![s] = None]
  \/ StoreFails /\ UNCHANGED keyring

\* clearTokensLocked.
ClearTokens(s) == ForgetTokens(s) /\ DeleteEntry(s)

\* An operation begins.
Begin(g, j, s, p) ==
  /\ At(g, "idle")
  /\ job' = [job EXCEPT ![g] = j]
  /\ slot' = [slot EXCEPT ![g] = s]
  /\ Goto(g, p)
  /\ UNCHANGED <<tok, cache, stamp, retry>>

-----------------------------------------------------------------------------
(* The refresh mutex                                                       *)

FirstStep(j) ==
  CASE j = "draft" -> "refresh" [] j = "signin" -> "flow"
    [] j = "signout" -> "revoke" [] OTHER -> "userinfo"

\* Mutant of CanLock: the mutex is not waited for.
NoMutex(s) == TRUE
CanLock(s) == lock[s] = None

\* am.refresh.Lock().  The reactive path backdates the expiry right after.
Acquire(g) ==
  /\ At(g, "acquire")
  /\ CanLock(slot[g])
  /\ lock' = [lock EXCEPT ![slot[g]] = g]
  /\ Goto(g, FirstStep(job[g]))
  /\ stale' = IF g \in retry /\ tokens[slot[g]] # None
              THEN stale \cup {slot[g]} ELSE stale
  /\ UNCHANGED <<active, tokens, keyring, granted, sigVars, job, callVars, histVars>>

-----------------------------------------------------------------------------
(* MakeAuthenticatedGmailCall with the closure of draftOne                 *)

\* am is pinned once.
StartCall(g) ==
  /\ Begin(g, "draft", active, "acquire")
  /\ UNCHANGED <<active, lock, slotVars, sigVars, view, histVars>>

\* Mutant of TakeToken: the lock is released before the retry, too.
TakeTokenAndUnlock(g) ==
  /\ tok' = [tok EXCEPT ![g] = tokens[slot[g]]]
  /\ Goto(g, "pick")
  /\ Unlock(g)
  /\ UNCHANGED <<active, tokens, granted, sigVars, job, slot, cache, stamp,
                 retry, view, histVars>>

\* refreshIfNeededLocked returned nil: the token is taken.  The first attempt
\* unlocks before it calls fn, the retry keeps the lock.
TakeToken(g) ==
  /\ tok' = [tok EXCEPT ![g] = tokens[slot[g]]]
  /\ Goto(g, "pick")
  /\ IF g \in retry THEN UNCHANGED lock ELSE Unlock(g)
  /\ UNCHANGED <<active, tokens, granted, sigVars, job, slot, cache, stamp,
                 retry, view, histVars>>

\* More than 5 minutes to the expiry.
TokenFresh(g) ==
  /\ At(g, "refresh")
  /\ tokens[slot[g]] # None /\ slot[g] \notin stale
  /\ TakeToken(g)
  /\ UNCHANGED <<stale, keyring>>

\* ErrNotAuthenticated.
NoTokens(g) ==
  /\ At(g, "refresh") /\ tokens[slot[g]] = None
  /\ Return(g)
  /\ UNCHANGED <<active, slotVars, sigVars, left, midSwitches, signIns, restarts>>

\* The refresh token goes to the token endpoint, the lock stays held.
AskForToken(g) ==
  /\ At(g, "refresh")
  /\ tokens[slot[g]] # None /\ slot[g] \in stale
  /\ Goto(g, "renew")
  /\ UNCHANGED <<active, lock, slotVars, sigVars, job, callVars, histVars>>

\* A new access token, written into am.tokens and saved.
Renewed(g) ==
  LET s == slot[g] IN
  /\ At(g, "renew") /\ tokens[s] \in granted
  /\ stale' = stale \ {s}
  /\ SaveEntry(s, tokens[s])
  /\ TakeToken(g)

\* A transient failure keeps the tokens.
RenewFails(g) ==
  /\ At(g, "renew")
  /\ Return(g)
  /\ UNCHANGED <<active, slotVars, sigVars, left, midSwitches, signIns, restarts>>

\* Mutant of GrantIsDead: the frontend is told before the unlock.
GrantIsDeadLocked(g) ==
  /\ ClearTokens(slot[g])
  /\ Goto(g, "emit")
  /\ UNCHANGED <<active, lock, granted, sigVars, job, callVars, histVars>>

\* Tokens and entry go, the frontend is told after the unlock.
GrantIsDead(g) ==
  /\ ClearTokens(slot[g])
  /\ Unlock(g)
  /\ Goto(g, "emit")
  /\ tok' = [tok EXCEPT ![g] = None]
  /\ stamp' = [stamp EXCEPT ![g] = None]
  /\ retry' = retry \ {g}
  /\ moved' = moved \ {g}
  /\ UNCHANGED <<active, granted, sigVars, job, slot, cache, view, left, midSwitches, signIns, restarts>>

\* invalid_grant.
RenewRejected(g) ==
  /\ At(g, "renew") /\ tokens[slot[g]] \notin granted
  /\ GrantIsDead(g)

\* draftSignature uses the cache of the slot that is active now.  Mutant: one
\* cache for all slots.
OneCache   == CHOOSE s \in Slots : TRUE
ActiveSlot == active

PickCache(g) ==
  /\ At(g, "pick")
  /\ cache' = [cache EXCEPT ![g] = ActiveSlot]
  /\ Goto(g, "cache")
  /\ UNCHANGED <<active, lock, slotVars, sigVars, job, slot, tok, stamp, retry, view, histVars>>

\* c.mu.Lock(): a cached value ends it, otherwise it is held for the fetch.
LookInCache(g) ==
  LET c == cache[g] IN
  /\ At(g, "cache") /\ sigLock[c] = None
  /\ IF sig[c] # None
     THEN /\ stamp' = [stamp EXCEPT ![g] = sig[c]]
          /\ cache' = [cache EXCEPT ![g] = None]
          /\ Goto(g, "create") /\ UNCHANGED sigLock
     ELSE /\ sigLock' = [sigLock EXCEPT ![c] = g]
          /\ Goto(g, "fetch") /\ UNCHANGED <<stamp, cache>>
  /\ UNCHANGED <<active, lock, slotVars, sig, job, slot, tok, retry, view, histVars>>

\* GetPrimarySignature with the token in hand; a failure caches nothing.
FetchSignature(g) ==
  /\ At(g, "fetch")
  /\ \/ /\ tok[g] \in granted
        /\ sig' = [sig EXCEPT ![cache[g]] = tok[g]]
        /\ stamp' = [stamp EXCEPT ![g] = tok[g]]
     \/ /\ stamp' = [stamp EXCEPT ![g] = None]
        /\ UNCHANGED sig
  /\ sigLock' = [sigLock EXCEPT ![cache[g]] = None]
  /\ cache' = [cache EXCEPT ![g] = None]
  /\ Goto(g, "create")
  /\ UNCHANGED <<active, lock, slotVars, job, slot, tok, retry, view, histVars>>

\* The draft exists, or fails with anything but 401.
CallEnds(g) ==
  /\ At(g, "create")
  /\ Return(g)
  /\ UNCHANGED <<active, slotVars, sigVars, left, midSwitches, signIns, restarts>>

\* 401 on the first attempt.
Retry(g) ==
  /\ At(g, "create") /\ g \notin retry
  /\ retry' = retry \cup {g}
  /\ stamp' = [stamp EXCEPT ![g] = None]
  /\ tok' = [tok EXCEPT ![g] = None]
  /\ Goto(g, "acquire")
  /\ UNCHANGED <<active, lock, slotVars, sigVars, job, slot, cache, view, histVars>>

\* 401 on the retry: classified as a dead grant under the same lock.
RetryRejected(g) ==
  /\ At(g, "create") /\ g \in retry
  /\ GrantIsDead(g)

-----------------------------------------------------------------------------
(* Sign-in, sign-out, switch, identity                                     *)

\* signInManager; the window offers it for a slot without tokens.
StartSignIn(g, s) ==
  /\ tokens[s] = None
  /\ signIns < MaxSignIns
  /\ signIns' = signIns + 1
  /\ Begin(g, "signin", s, "acquire")
  /\ UNCHANGED <<active, lock, slotVars, sigVars, view, moved, left, midSwitches, restarts>>

\* Mutant of SignedIn: the tokens are not saved.
SignedInUnsaved(g, a) ==
  LET s == slot[g] IN
  /\ At(g, "flow")
  /\ tokens' = [tokens EXCEPT ![s] = a]
  /\ stale' = stale \ {s}
  /\ granted' = granted \cup {a}
  /\ left' = left \ {s}
  /\ Goto(g, "emit")
  /\ UNCHANGED <<active, lock, keyring, sigVars, job, callVars, moved, midSwitches, signIns, restarts>>

\* signInLocked: the browser flow grants account a, tokens are saved.
SignedIn(g, a) ==
  LET s == slot[g] IN
  /\ At(g, "flow")
  /\ tokens' = [tokens EXCEPT ![s] = a]
  /\ stale' = stale \ {s}
  /\ keyring' = [keyring EXCEPT ![s] = a]
  /\ granted' = granted \cup {a}
  /\ left' = left \ {s}
  /\ Goto(g, "emit")
  /\ UNCHANGED <<active, lock, sigVars, job, callVars, moved, midSwitches, signIns, restarts>>

\* The flow fails or times out; a failing save wipes the tokens in memory.
SignInFails(g) ==
  /\ At(g, "flow")
  /\ \/ UNCHANGED <<tokens, stale>>
     \/ StoreFails /\ ForgetTokens(slot[g])
  /\ Return(g)
  /\ UNCHANGED <<active, keyring, granted, sigVars, left, midSwitches, signIns, restarts>>

StartSignOut(g, s) ==
  /\ Begin(g, "signout", s, "acquire")
  /\ UNCHANGED <<active, lock, slotVars, sigVars, view, histVars>>

\* revokeRefreshToken, then the tokens in memory go.
Revoke(g) ==
  LET s == slot[g] IN
  /\ At(g, "revoke")
  /\ \/ granted' = granted \ {tokens[s]}
     \/ RevokeFails /\ UNCHANGED granted
  /\ ForgetTokens(s)
  /\ Goto(g, "reset")
  /\ UNCHANGED <<active, lock, keyring, sigVars, job, callVars, histVars>>

\* resetSignatureCacheSlot waits for a running fetch.
ResetSignature(s) == sigLock[s] = None /\ sig' = [sig EXCEPT ![s] = None]

\* Mutant of SignOutEnds: the entry is left to the next start.
SignOutKeepsEntry(g) ==
  /\ At(g, "reset")
  /\ ResetSignature(slot[g])
  /\ left' = left \cup {slot[g]}
  /\ Unlock(g)
  /\ Goto(g, "emit")
  /\ UNCHANGED <<active, slotVars, sigLock, job, callVars, moved, midSwitches, signIns, restarts>>

\* Signature, credential entry, unlock; then the event.
SignOutEnds(g) ==
  /\ At(g, "reset")
  /\ ResetSignature(slot[g])
  /\ DeleteEntry(slot[g])
  /\ left' = left \cup {slot[g]}
  /\ Unlock(g)
  /\ Goto(g, "emit")
  /\ UNCHANGED <<active, tokens, stale, granted, sigLock, job, callVars, moved, midSwitches, signIns, restarts>>

\* Calls that may still look a signature up: a 401 leads to a second look.
Unsigned ==
  {g \in Threads : /\ job[g] = "draft" /\ pc[g] \notin {"emit", "status"}
                   /\ At(g, "create") => g \notin retry}

\* SetActiveAccount: the pointer moves first, then the new slot's Status().
Switch(g, s) ==
  /\ Begin(g, "switch", s, "status")
  /\ active' = s
  /\ view' = [view EXCEPT ![g] = s]
  /\ IF s # active /\ Unsigned # {}
     THEN /\ midSwitches < MaxMidSwitches
          /\ midSwitches' = midSwitches + 1
          /\ moved' = moved \cup Unsigned
     ELSE UNCHANGED <<midSwitches, moved>>
  /\ UNCHANGED <<lock, slotVars, sigVars, left, signIns, restarts>>

\* emitAuthChanged picks the active manager ...
Emit(g) ==
  /\ At(g, "emit")
  /\ view' = [view EXCEPT ![g] = active]
  /\ Goto(g, "status")
  /\ UNCHANGED <<active, lock, slotVars, sigVars, job, slot, tok, cache, stamp, retry, histVars>>

\* ... and Status() needs its mutex.  A sign-in still holds its own, and lets
\* it go only when this returns.
Status(g) ==
  /\ At(g, "status") /\ job[g] \notin {"switch", "announce"}
  /\ lock[view[g]] = None
  /\ Return(g)
  /\ UNCHANGED <<active, slotVars, sigVars, left, midSwitches, signIns, restarts>>

\* The tray follows the new slot; the event comes next.
SwitchStatus(g) ==
  /\ At(g, "status") /\ job[g] = "switch"
  /\ lock[view[g]] = None
  /\ job' = [job EXCEPT ![g] = "announce"]
  /\ Goto(g, "emit")
  /\ UNCHANGED <<active, lock, slotVars, sigVars, callVars, histVars>>

\* The event is out; hydrateAccount asks the new slot, active or not.
Announced(g) ==
  /\ At(g, "status") /\ job[g] = "announce"
  /\ lock[view[g]] = None
  /\ job' = [job EXCEPT ![g] = "hydrate"]
  /\ view' = [view EXCEPT ![g] = slot[g]]
  /\ UNCHANGED <<active, lock, slotVars, sigVars, pc, slot, tok, cache, stamp, retry, histVars>>

\* It has tokens and no name yet: they are used to ask for it, while
\* SetActiveAccount returns.
Hydrate(g) ==
  /\ At(g, "status") /\ job[g] = "hydrate"
  /\ lock[view[g]] = None
  /\ tokens[view[g]] # None
  /\ job' = [job EXCEPT ![g] = "identity"]
  /\ Goto(g, "acquire")
  /\ UNCHANGED <<active, lock, slotVars, sigVars, callVars, histVars>>

\* fetchUserInfoLocked: the name it reads is not modelled.
Userinfo(g) ==
  /\ At(g, "userinfo")
  /\ Unlock(g)
  /\ Goto(g, "emit")
  /\ UNCHANGED <<active, slotVars, sigVars, job, callVars, histVars>>

\* GetAuthStatus, GetAccounts and the tray ask for a Status().
Poll(g, s) ==
  /\ Begin(g, "poll", s, "status")
  /\ view' = [view EXCEPT ![g] = s]
  /\ UNCHANGED <<active, lock, slotVars, sigVars, histVars>>

-----------------------------------------------------------------------------
(* Environment                                                             *)

\* Time passes: the access token comes close to its expiry.
TokenAges(s) ==
  /\ tokens[s] # None /\ s \notin stale
  /\ stale' = stale \cup {s}
  /\ UNCHANGED <<active, lock, tokens, keyring, granted, sigVars, pc, job, callVars, histVars>>

\* The user withdraws the grant in the Google account; without a slot that has
\* tokens of it nobody would notice, since a sign-in grants anew.
GrantWithdrawn(a) ==
  /\ a \in granted /\ \E s \in Slots : tokens[s] = a
  /\ granted' = granted \ {a}
  /\ UNCHANGED <<active, lock, tokens, stale, keyring, sigVars, pc, job, callVars, histVars>>

\* The process ends and starts again; LoadFromKeyring fills the slots.
Restart ==
  /\ restarts < MaxRestarts
  /\ restarts' = restarts + 1
  /\ tokens' = keyring
  /\ stale' = {s \in Slots : keyring[s] # None}
  /\ sig' = Nothing(Slots)
  /\ lock' = Nothing(Slots) /\ sigLock' = Nothing(Slots)
  /\ pc' = [g \in Threads |-> "idle"] /\ job' = [g \in Threads |-> "none"]
  /\ slot' = Nothing(Threads) /\ tok' = Nothing(Threads)
  /\ cache' = Nothing(Threads) /\ stamp' = Nothing(Threads)
  /\ view' = Nothing(Threads)
  /\ retry' = {} /\ moved' = {}
  /\ UNCHANGED <<active, keyring, granted, left, midSwitches, signIns>>

\* Steps with a time limit of their own, at most that of the browser flow.
TimedSteps(g) ==
  \/ TokenFresh(g) \/ NoTokens(g) \/ AskForToken(g)
  \/ Renewed(g) \/ RenewFails(g) \/ RenewRejected(g)
  \/ PickCache(g) \/ SignInFails(g) \/ Revoke(g) \/ Userinfo(g) \/ Emit(g)
  \/ \E a \in Accounts : SignedIn(g, a)

\* Steps that end a request of the Gmail client, which has no time limit.
GmailSteps(g) == FetchSignature(g) \/ CallEnds(g) \/ Retry(g) \/ RetryRejected(g)

\* Steps that wait for one of the two mutexes.
LockSteps(g) ==
  \/ Acquire(g) \/ LookInCache(g) \/ SignOutEnds(g)
  \/ Status(g) \/ SwitchStatus(g) \/ Announced(g) \/ Hydrate(g)

Requests(g) ==
  \/ StartCall(g)
  \/ \E s \in Slots : StartSignIn(g, s) \/ StartSignOut(g, s) \/ Switch(g, s) \/ Poll(g, s)

Next ==
  \/ \E g \in Threads : Requests(g) \/ TimedSteps(g) \/ GmailSteps(g) \/ LockSteps(g)
  \/ \E s \in Slots : TokenAges(s)
  \/ \E a \in Accounts : GrantWithdrawn(a)
  \/ Restart

Spec == Init /\ [][Next]_vars

(***************************************************************************)
(* Goroutines run; a Go mutex is not starved by later arrivals.  That the  *)
(* Gmail client's requests end is not the code's doing: it is a separate   *)
(* assumption about the network.                                           *)
(***************************************************************************)
Fairness ==
  \A g \in Threads : WF_vars(TimedSteps(g)) /\ SF_vars(LockSteps(g))

NetworkAnswers == \A g \in Threads : WF_vars(GmailSteps(g))

FairSpec == Spec /\ Fairness

AnsweredSpec == FairSpec /\ NetworkAnswers

-----------------------------------------------------------------------------
(* Safety                                                                  *)

\* The steps that run under the slot's mutex.
HoldsLock(g) ==
  \/ pc[g] \in {"refresh", "renew", "flow", "revoke", "reset", "userinfo"}
  \/ g \in retry /\ pc[g] \in {"pick", "cache", "fetch", "create"}
  \/ job[g] = "signin" /\ pc[g] \in {"emit", "status"}

\* No goroutine leaves a mutex locked behind it, none unlocks another's: a slot
\* is locked exactly by the goroutine that is at a step that will unlock it,
\* on every path through the refresh, the retry, sign-in and sign-out.
LocksAccounted ==
  /\ \A s \in Slots, g \in Threads : lock[s] = g <=> (slot[g] = s /\ HoldsLock(g))
  /\ \A s \in Slots, g \in Threads : sigLock[s] = g <=> (cache[g] = s /\ At(g, "fetch"))

\* am.tokens is not nil where the code uses it without a test: between the
\* request for a new access token and its reply nobody signs the slot out.
TokensDuringRenewal == \A g \in Threads : At(g, "renew") => tokens[slot[g]] # None

\* After a sign-out the slot has neither tokens nor a credential entry until
\* somebody signs in again: no refresh or retry that was under way, and no
\* restart, brings them back.
SignedOutStaysOut ==
  \A s \in left : tokens[s] = None /\ keyring[s] = None

\* What the app keeps between runs is what it works with: a slot with tokens
\* has the entry of the same account, so that a restart neither loses a sign-in
\* nor returns to an earlier account.
EntryMatchesTokens ==
  \A s \in Slots : tokens[s] # None => keyring[s] = tokens[s]

\* A draft whose call saw no switch of the active slot carries the signature of
\* the account it is created in, or none (auth.go: a switch "can stamp one
\* in-flight draft with the previous account's signature").
OwnSignature ==
  \A g \in Threads :
    (At(g, "create") /\ g \notin moved) => stamp[g] \in {None, tok[g]}

\* A signature cached for a slot is that of the account signed in there
\* (signature.go: dropped "so a later sign-in (possibly a different account)
\* refetches").
CacheFollowsSignIn ==
  \A s \in Slots : tokens[s] # None => sig[s] \in {None, tokens[s]}

\* Before the first sign-in and without a switch during a call, both
\* hold: sign-outs, dead grants, failed fetches and switches between calls never
\* mix the two accounts' signatures.
CalmSignatures ==
  (signIns = 0 /\ midSwitches = 0) => (OwnSignature /\ CacheFollowsSignIn)

\* g waits for a mutex that h holds.
WaitsFor(g, h) ==
  \/ At(g, "acquire") /\ lock[slot[g]] = h
  \/ At(g, "status")  /\ lock[view[g]] = h
  \/ At(g, "cache")   /\ sigLock[cache[g]] = h
  \/ At(g, "reset")   /\ sigLock[slot[g]] = h

\* No goroutines wait for each other in a circle, or for themselves, over the
\* mutexes of both slots and both caches (auth.go, on the mutex that serializes
\* refresh and sign-in: "contention is impossible in practice").
NobodyStuck ==
  \A C \in (SUBSET Threads) \ {{}} : \E g \in C : \A h \in C : ~WaitsFor(g, h)

\* A sign-in that waits for the mutex of the active slot while it holds its own,
\* which may be the same.
SignInHangs(g) ==
  job[g] = "signin" /\ At(g, "status") /\ lock[view[g]] # None

\* The only knots there are: signInManager tells the frontend under its own mutex.
\* Every set of goroutines that wait for one another contains such a sign-in.
StuckOnlyBySignIn ==
  \A C \in (SUBSET Threads) \ {{}} :
    (\A g \in C : \E h \in C : WaitsFor(g, h)) => \E g \in C : SignInHangs(g)

-----------------------------------------------------------------------------
(* Liveness                                                                *)

\* Every operation returns while no sign-in hangs in that way: sign-out, refresh,
\* retry, switch, identity fetch and Status() queries all let each other through.
CallsReturn ==
  \A g \in Threads :
    job[g] # "none" ~> (job[g] = "none" \/ \E h \in Threads : SignInHangs(h))

\* The tray and the window get their Status() (auth.go: "The retry is bounded
\* by fn's own HTTP timeout").
PollsAnswered == \A g \in Threads : job[g] = "poll" ~> job[g] = "none"
=============================================================================

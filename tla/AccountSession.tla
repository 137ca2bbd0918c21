--------------------------- MODULE AccountSession ---------------------------
(***************************************************************************)
(* AccountSession and AuthorizedCall of the Android client: the coroutines *)
(* of one process that sign in, sign out, refresh tokens and send          *)
(* requests, and what is on disk when the process is killed.               *)
(*                                                                         *)
(* A coroutine runs one operation.  Its steps are the sections under the   *)
(* session's mutex, the reads it makes without the mutex, and the answers  *)
(* of the network.  A refresh keeps the mutex while Cognito answers.       *)
(*                                                                         *)
(* A login is named by the coroutine whose signIn obtained it: its refresh *)
(* token, and every ID token refreshed from it, belong to that login.      *)
(***************************************************************************)
EXTENDS Naturals, FiniteSets

CONSTANTS
    Coroutines,  \* operations started by the user interface
    Accounts,    \* people who sign in on this device
    NULL

ASSUME SessionAssumption == NULL \notin Coroutines \union Accounts

VARIABLES
    mutex,       \* AccountSession.mutex: the coroutine that holds it
    generation,  \* AccountSession.generation
    tokens,      \* AccountSession.tokens, as the login they belong to
    expired,     \* tokens.isExpired()
    saved,       \* the token preferences, as the process sees them
    pending,     \* the preference linkPending, as the process sees it
    disk,        \* both preferences as last written to disk
    pc,          \* next step of a coroutine, or how it ended
    account,     \* the account a signIn is for
    startedAt,   \* generation a coroutine has remembered
    idToken,     \* login whose ID token a request carries, NULL = anonymous
    want,        \* refresh token forceRefresh has read
    sent,        \* history: logins a coroutine has sent requests with
    ended        \* history: logins that were signed out or overtaken

session == <<generation, tokens, expired, ended>>
store == <<saved, pending>>
callVars == <<startedAt, idToken, want, sent>>
sessionVars == <<mutex, session, store, disk, pc, account, callVars>>

Results == {"done", "failed", "killed"}
UnderMutex == {"applySignIn", "signedOut", "ended", "refresh", "forceCall"}
Running == UnderMutex \union
    {"signIn", "signInCall", "install", "signOut",
     "currentToken", "request", "forceRefresh", "forceLock", "retry", "endSession"}

TypeOK ==
    /\ mutex \in Coroutines \union {NULL}
    /\ generation \in Nat
    /\ tokens \in Coroutines \union {NULL}
    /\ expired \in BOOLEAN
    /\ saved \in Coroutines \union {NULL}
    /\ pending \in BOOLEAN
    /\ disk \in [tokens : Coroutines \union {NULL}, pending : BOOLEAN]
    /\ pc \in [Coroutines -> {"idle"} \union Running \union Results]
    /\ account \in [Coroutines -> Accounts \union {NULL}]
    /\ startedAt \in [Coroutines -> Nat]
    /\ idToken \in [Coroutines -> Coroutines \union {NULL}]
    /\ want \in [Coroutines -> Coroutines \union {NULL}]
    /\ sent \in [Coroutines -> SUBSET Coroutines]
    /\ ended \subseteq Coroutines
    /\ \A c \in Coroutines : mutex = c <=> pc[c] \in UnderMutex

\* Nobody is signed in; linkPending reads true where the key was never set.
SessionInit ==
    /\ mutex = NULL
    /\ generation = 0
    /\ tokens = NULL
    /\ expired = FALSE
    /\ saved = NULL
    /\ pending = TRUE
    /\ disk = [tokens |-> NULL, pending |-> TRUE]
    /\ pc = [c \in Coroutines |-> "idle"]
    /\ account = [c \in Coroutines |-> NULL]
    /\ startedAt = [c \in Coroutines |-> 0]
    /\ idToken = [c \in Coroutines |-> NULL]
    /\ want = [c \in Coroutines |-> NULL]
    /\ sent = [c \in Coroutines |-> {}]
    /\ ended = {}

At(c, step) == pc[c] = step

Goto(c, step) == pc' = [pc EXCEPT ![c] = step]

Lock(c) == mutex = NULL /\ mutex' = c

\* A section that takes the mutex and gives it back within one step.
Locked == mutex = NULL /\ UNCHANGED mutex

Unlock(c) == mutex' = NULL

\* Sign-ins whose answer is still to be installed: a change of session
\* overtakes them.
Underway == {c \in Coroutines : pc[c] \in {"signInCall", "install"}}

\* clear(), first half: tokens = null, store.clear().
Clear ==
    /\ generation' = generation + 1
    /\ tokens' = NULL
    /\ saved' = NULL
    /\ ended' = ended \union Underway \union ({tokens} \ {NULL})
    /\ UNCHANGED <<expired, pending>>

-----------------------------------------------------------------------------
(* signIn *)

BeginSignIn(c) ==
    /\ At(c, "idle")
    /\ \E a \in Accounts : account' = [account EXCEPT ![c] = a]
    /\ Goto(c, "signIn")
    /\ UNCHANGED <<mutex, session, store, disk, callVars>>

\* val startedAt = mutex.withLock { generation }
RememberGeneration(c) ==
    /\ At(c, "signIn")
    /\ Locked
    /\ startedAt' = [startedAt EXCEPT ![c] = generation]
    /\ Goto(c, "signInCall")
    /\ UNCHANGED <<session, store, disk, account, idToken, want, sent>>

SignInAnswered(c) ==
    /\ At(c, "signInCall")
    /\ Goto(c, "install") \/ Goto(c, "failed")
    /\ UNCHANGED <<mutex, session, store, disk, account, callVars>>

\* Fault: the answer is installed whatever happened meanwhile.
NeverOvertaken(c) == FALSE

Overtaken(c) == generation # startedAt[c]

\* An answer that was overtaken is dropped; otherwise the pending link is
\* recorded first.
InstallSignIn(c) ==
    /\ At(c, "install")
    /\ IF Overtaken(c)
       THEN /\ Locked
            /\ Goto(c, "done")
            /\ UNCHANGED pending
       ELSE /\ Lock(c)
            /\ pending' = TRUE
            /\ Goto(c, "applySignIn")
    /\ UNCHANGED <<session, saved, disk, account, callVars>>

\* generation++ and apply(): save, then replace the tokens.  A save that
\* fails has emptied the store and leaves the tokens as they are.
ApplySignIn(c) ==
    /\ At(c, "applySignIn")
    /\ generation' = generation + 1
    /\ \/ /\ saved' = c
          /\ tokens' = c
          /\ expired' = FALSE
          /\ ended' = ended \union (Underway \ {c}) \union ({tokens} \ {NULL})
          /\ Goto(c, "done")
       \/ /\ saved' = NULL
          /\ ended' = ended \union Underway \union {c}
          /\ Goto(c, "failed")
          /\ UNCHANGED <<tokens, expired>>
    /\ Unlock(c)
    /\ UNCHANGED <<pending, disk, account, callVars>>

-----------------------------------------------------------------------------
(* signOut *)

BeginSignOut(c) ==
    /\ At(c, "idle")
    /\ Goto(c, "signOut")
    /\ UNCHANGED <<mutex, session, store, disk, account, callVars>>

\* Revoking the refresh token afterwards changes nothing on the device.
SignOut(c) ==
    /\ At(c, "signOut")
    /\ Lock(c)
    /\ Clear
    /\ Goto(c, "signedOut")
    /\ UNCHANGED <<disk, account, callVars>>

\* clear(), second half: store.linkPending = false.  A request whose session
\* has ended fails.
ClearPending(c) ==
    /\ pc[c] \in {"signedOut", "ended"}
    /\ pending' = FALSE
    /\ Unlock(c)
    /\ Goto(c, IF At(c, "signedOut") THEN "done" ELSE "failed")
    /\ UNCHANGED <<session, saved, disk, account, callVars>>

-----------------------------------------------------------------------------
(* AuthorizedCall.execute: currentToken, the request, forceRefresh, the    *)
(* request again, endSession.                                              *)

BeginCall(c) ==
    /\ At(c, "idle")
    /\ Goto(c, "currentToken")
    /\ UNCHANGED <<mutex, session, store, disk, account, callVars>>

Carry(c, login) ==
    /\ idToken' = [idToken EXCEPT ![c] = login]
    /\ sent' = [sent EXCEPT ![c] = @ \union ({login} \ {NULL})]

\* The generation and the ID token, under one lock.
CurrentToken(c) ==
    /\ At(c, "currentToken")
    /\ startedAt' = [startedAt EXCEPT ![c] = generation]
    /\ IF tokens = NULL \/ ~ expired
       THEN /\ Locked
            /\ Carry(c, tokens)
            /\ Goto(c, "request")
       ELSE /\ Lock(c)
            /\ Goto(c, "refresh")
            /\ UNCHANGED <<idToken, sent>>
    /\ UNCHANGED <<session, store, disk, account, want>>

Refreshing(c) == pc[c] \in {"refresh", "forceCall"}

RefreshSucceeds(c) ==
    /\ Refreshing(c)
    /\ saved' = tokens
    /\ expired' = FALSE
    /\ Carry(c, tokens)
    /\ Goto(c, IF At(c, "refresh") THEN "request" ELSE "retry")
    /\ Unlock(c)
    /\ UNCHANGED <<generation, tokens, ended, pending, disk, account, startedAt, want>>

\* TokenPersistenceException: the store is empty, the tokens stay.
RefreshNotSaved(c) ==
    /\ Refreshing(c)
    /\ saved' = NULL
    /\ Goto(c, "failed")
    /\ Unlock(c)
    /\ UNCHANGED <<session, pending, disk, account, callVars>>

\* Fault: the request goes on without a token.
AnonymousAfterRefusal(c) ==
    /\ Refreshing(c)
    /\ Clear
    /\ Carry(c, NULL)
    /\ Goto(c, "request")
    /\ Unlock(c)
    /\ UNCHANGED <<disk, account, startedAt, want>>

\* A terminal code ends the session and the request.
RefreshRefused(c) ==
    /\ Refreshing(c)
    /\ Clear
    /\ Goto(c, "ended")
    /\ UNCHANGED <<mutex, disk, account, callVars>>

\* A transient error is passed on.
RefreshFails(c) ==
    /\ Refreshing(c)
    /\ Goto(c, "failed")
    /\ Unlock(c)
    /\ UNCHANGED <<session, store, disk, account, callVars>>

\* The server's answer is not 401, or the network fails.
Answered(c) ==
    /\ pc[c] \in {"request", "retry"}
    /\ Goto(c, "done") \/ Goto(c, "failed")
    /\ UNCHANGED <<mutex, session, store, disk, account, callVars>>

\* 401: only a request of the session that still lasts is tried again.
Unauthorized(c) ==
    /\ At(c, "request")
    /\ Goto(c, IF idToken[c] = NULL \/ generation # startedAt[c]
               THEN "failed" ELSE "forceRefresh")
    /\ UNCHANGED <<mutex, session, store, disk, account, callVars>>

\* forceRefresh reads generation and tokens without the mutex.
ForceRefresh(c) ==
    /\ At(c, "forceRefresh")
    /\ want' = [want EXCEPT ![c] = tokens]
    /\ Goto(c, IF generation # startedAt[c] \/ tokens = NULL
               THEN "failed" ELSE "forceLock")
    /\ UNCHANGED <<mutex, session, store, disk, account, startedAt, idToken, sent>>

\* Fault: refreshLocked does not look at the generation again.
RefreshLockedUnchecked(c) ==
    /\ At(c, "forceLock")
    /\ IF tokens = NULL
       THEN Locked /\ Goto(c, "failed") /\ UNCHANGED <<idToken, sent>>
       ELSE IF tokens # want[c]
       THEN Locked /\ Carry(c, tokens) /\ Goto(c, "retry")
       ELSE Lock(c) /\ Goto(c, "forceCall") /\ UNCHANGED <<idToken, sent>>
    /\ UNCHANGED <<session, store, disk, account, startedAt, want>>

\* refreshLocked and the head of refreshUnderLock: the session is still the
\* same, and nobody has replaced the refresh token.
RefreshLocked(c) ==
    /\ At(c, "forceLock")
    /\ IF generation # startedAt[c] \/ tokens = NULL
       THEN Locked /\ Goto(c, "failed") /\ UNCHANGED <<idToken, sent>>
       ELSE IF tokens # want[c]
       THEN Locked /\ Carry(c, tokens) /\ Goto(c, "retry")
       ELSE Lock(c) /\ Goto(c, "forceCall") /\ UNCHANGED <<idToken, sent>>
    /\ UNCHANGED <<session, store, disk, account, startedAt, want>>

\* 401 again.
UnauthorizedAgain(c) ==
    /\ At(c, "retry")
    /\ Goto(c, "endSession")
    /\ UNCHANGED <<mutex, session, store, disk, account, callVars>>

\* Fault: ends whatever session there is.
EndAnySession(c) ==
    /\ At(c, "endSession")
    /\ Lock(c)
    /\ Clear
    /\ Goto(c, "ended")
    /\ UNCHANGED <<disk, account, callVars>>

\* endSession(startedAt)
EndSession(c) ==
    /\ At(c, "endSession")
    /\ IF generation # startedAt[c]
       THEN Locked /\ Goto(c, "failed") /\ UNCHANGED <<session, store>>
       ELSE Lock(c) /\ Clear /\ Goto(c, "ended")
    /\ UNCHANGED <<disk, account, callVars>>

-----------------------------------------------------------------------------

\* ifSameSession { linkPending = false }: the link that was due is recorded.
TakePendingBack ==
    /\ Locked
    /\ pending' = FALSE
    /\ UNCHANGED <<session, saved, disk, pc, account, callVars>>

-----------------------------------------------------------------------------
(* Time, the asynchronous writes of SharedPreferences, and process death.  *)

Expire ==
    /\ tokens # NULL
    /\ ~ expired
    /\ expired' = TRUE
    /\ UNCHANGED <<mutex, generation, tokens, ended, store, disk, pc, account, callVars>>

\* apply() writes in the background, in the order of the calls: the files take
\* the values the process sees.  A process that is killed between two files
\* leaves what it leaves when both are written before its second call.
Flush ==
    /\ disk # [tokens |-> saved, pending |-> pending]
    /\ disk' = [tokens |-> saved, pending |-> pending]
    /\ UNCHANGED <<mutex, session, store, pc, account, callVars>>

\* The process is killed and started again: it loads what is on disk.  A
\* sign-out that was not written yet is forgotten.
Restart ==
    /\ mutex' = NULL
    /\ generation' = 0
    /\ tokens' = disk.tokens
    /\ saved' = disk.tokens
    /\ pending' = disk.pending
    /\ expired' \in BOOLEAN
    /\ pc' = [c \in Coroutines |-> IF pc[c] \in Running THEN "killed" ELSE pc[c]]
    /\ ended' = (ended \union Underway) \ {disk.tokens}
    /\ UNCHANGED <<disk, account, callVars>>

Refresh(c) == RefreshSucceeds(c) \/ RefreshNotSaved(c) \/ RefreshRefused(c) \/ RefreshFails(c)

\* The steps of the session that are not answers of the API server.
SessionStep(c) ==
    \/ RememberGeneration(c) \/ SignInAnswered(c) \/ InstallSignIn(c) \/ ApplySignIn(c)
    \/ SignOut(c) \/ ClearPending(c)
    \/ CurrentToken(c) \/ Refresh(c) \/ ForceRefresh(c) \/ RefreshLocked(c) \/ EndSession(c)

Begin(c) == BeginSignIn(c) \/ BeginSignOut(c) \/ BeginCall(c)

Step(c) == SessionStep(c) \/ Answered(c) \/ Unauthorized(c) \/ UnauthorizedAgain(c)

SessionNext ==
    \/ \E c \in Coroutines : Begin(c) \/ Step(c)
    \/ TakePendingBack \/ Expire \/ Flush \/ Restart

SessionSpec == SessionInit /\ [][SessionNext]_sessionVars

-----------------------------------------------------------------------------
(* What the session promises.                                              *)

\* A sign-in, refresh or retry that was under way when the session changed
\* never brings a signed-out or overtaken login back.
NoResurrection == tokens \notin ended

\* The retry after a 401 is sent with the login of the first attempt, never
\* as somebody who has signed in meanwhile.
RetryStaysInSession == \A c \in Coroutines : Cardinality(sent[c]) <= 1

\* A late 401 or a refused refresh of a request ends the session the request
\* was sent in, and no other.
CallsEndOnlyTheirSession ==
    [][\A c \in Coroutines :
         /\ sent[c] # {} /\ tokens # NULL /\ tokens' = NULL
         /\ pc[c] \in Running /\ pc'[c] = "ended"
         => tokens \in sent[c]]_sessionVars

\* A request is anonymous only if nobody was signed in when it took its
\* token: a session that turns out to be over never sends it as the device's
\* anonymous user.
NoSilentAnonymity ==
    [][\A c \in Coroutines :
         pc[c] # "request" /\ pc'[c] = "request" /\ idToken'[c] = NULL => tokens = NULL]_sessionVars

=============================================================================

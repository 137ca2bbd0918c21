---------------------------- MODULE AndroidClient ----------------------------
(***************************************************************************)
(* AccountRepository, LearningRepository, SubmissionGate and the device    *)
(* identity of the Android client, on top of AccountSession, against an    *)
(* API server that serves one request at a time per statement.             *)
(*                                                                         *)
(* A coroutine that links, submits or applies a transfer token runs the    *)
(* steps of its repository function (step) around the steps of the         *)
(* authorized call inside it (pc).  Its HTTP request lives on at the       *)
(* server (net) when the client has given up on it or was killed.          *)
(***************************************************************************)
EXTENDS AccountSession

CONSTANTS
    Idents,      \* identity ids Cognito hands out
    Operations,  \* operations the user interface starts
    Faults       \* what may go wrong: "offline", "giveUp", "restart"

AllOperations == {"signIn", "signOut", "submit", "link", "apply"}

ASSUME ClientAssumption ==
    /\ Operations \subseteq AllOperations
    /\ Faults \subseteq {"offline", "giveUp", "restart"}
    /\ NULL \notin Idents

VARIABLES
    op,          \* operation of a coroutine
    step,        \* its next step outside AccountSession
    identity,    \* DeviceIdentityProvider: cached and stored identity id
    issued,      \* identity ids in use on some device
    repoLock,    \* AccountRepository.linkMutex
    gateLock,    \* SubmissionGate.linkMutex
    active,      \* SubmissionGate.active
    linkState,   \* AccountRepository.linkState
    linkStart,   \* startedAt of ensureLinked
    device,      \* X-Device-ID of a coroutine's request
    rotated,     \* the request repeats a link after a 409
    net,         \* how far the request is
    reply,       \* its answer
    linkedTo,    \* server: account a users row is linked to
    primary,     \* server: canonical users row of an account
    row,         \* server: users row a submission was resolved to
    recorded     \* server: users row that has the answers of a coroutine

locksVars == <<repoLock, gateLock, active>>
deviceVars == <<identity, issued>>
requestVars == <<device, rotated, net, reply>>
serverVars == <<linkedTo, primary, row, recorded>>
clientVars == <<op, step, deviceVars, locksVars, linkState, linkStart, requestVars, serverVars>>
vars == <<sessionVars, clientVars>>

LinkSteps == {"link", "linkGeneration", "linkGate", "linkWait", "linkCall", "linkResult"}
SubmitSteps == {"submit", "submitIdentity", "submitCall"}
ApplySteps == {"apply", "applyWait", "applyCheck", "applyCall"}

ClientTypeOK ==
    /\ TypeOK
    /\ op \in [Coroutines -> AllOperations \union {NULL}]
    /\ step \in [Coroutines -> {"none", "end"} \union LinkSteps \union SubmitSteps \union ApplySteps]
    /\ identity \in Idents \union {NULL}
    /\ issued \subseteq Idents
    /\ repoLock \in Coroutines \union {NULL}
    /\ gateLock \in Coroutines \union {NULL}
    /\ active \in Nat
    /\ linkState \in {"Idle", "Linking", "Failed"}
    /\ linkStart \in [Coroutines -> Nat]
    /\ device \in [Coroutines -> Idents \union {NULL}]
    /\ rotated \in [Coroutines -> BOOLEAN]
    /\ net \in [Coroutines -> {"none", "sent", "resolved", "answered"}]
    /\ reply \in [Coroutines -> {"none", "ok", "conflict", "refused", "unauthorized"}]
    /\ linkedTo \in [Idents -> Accounts \union {NULL}]
    /\ primary \in [Accounts -> Idents \union {NULL}]
    /\ row \in [Coroutines -> Idents \union {NULL}]
    /\ recorded \in [Coroutines -> Idents \union {NULL}]

\* Nobody is signed in; this device, and others, may have been linked.
Init ==
    /\ SessionInit
    /\ op = [c \in Coroutines |-> NULL]
    /\ step = [c \in Coroutines |-> "none"]
    /\ repoLock = NULL
    /\ gateLock = NULL
    /\ active = 0
    /\ linkState = "Idle"
    /\ linkStart = [c \in Coroutines |-> 0]
    /\ device = [c \in Coroutines |-> NULL]
    /\ rotated = [c \in Coroutines |-> FALSE]
    /\ net = [c \in Coroutines |-> "none"]
    /\ reply = [c \in Coroutines |-> "none"]
    /\ row = [c \in Coroutines |-> NULL]
    /\ recorded = [c \in Coroutines |-> NULL]
    /\ identity \in Idents \union {NULL}
    /\ linkedTo \in [Idents -> Accounts \union {NULL}]
    /\ issued = {d \in Idents : d = identity \/ linkedTo[d] # NULL}
    /\ primary \in [Accounts -> Idents \union {NULL}]
    /\ \A a \in Accounts :
        LET linked == {d \in Idents : linkedTo[d] = a}
        IN  IF linked = {} THEN primary[a] = NULL ELSE primary[a] \in linked

GoOn(c, s) == step' = [step EXCEPT ![c] = s]

\* No connection, or a timeout before anybody served the request.
Offline == Faults \intersect {"offline", "giveUp"} # {}

\* A network round trip outlasts the background write of SharedPreferences.
Flushed == disk = [tokens |-> saved, pending |-> pending]

\* identityId(): the cached id, or a new one; GetId may hand out any id that
\* is not in use.
IdentityId(d) ==
    /\ d = identity \/ (identity = NULL /\ d \in Idents \ issued)
    /\ identity' = d
    /\ issued' = issued \union {d}

Start(c) ==
    /\ At(c, "idle") /\ step[c] = "none"
    /\ \E o \in Operations \ {"signIn", "signOut"} :
        op' = [op EXCEPT ![c] = o] /\ GoOn(c, o)
    /\ UNCHANGED <<sessionVars, deviceVars, locksVars, linkState, linkStart,
                   requestVars, serverVars>>

StartSession(c) ==
    /\ step[c] = "none"
    /\ \/ "signIn" \in Operations /\ BeginSignIn(c)
       \/ "signOut" \in Operations /\ BeginSignOut(c)
    /\ UNCHANGED clientVars

-----------------------------------------------------------------------------
(* AccountRepository.ensureLinked *)

\* Fault: links of the start and of the sign-in run side by side.
EnsureLinkedUnlocked(c) ==
    /\ step[c] = "link"
    /\ GoOn(c, IF tokens # NULL /\ pending THEN "linkGeneration" ELSE "end")
    /\ UNCHANGED <<sessionVars, op, deviceVars, locksVars, linkState, linkStart,
                   requestVars, serverVars>>

\* Nothing to do when nobody is signed in or no link is pending.
EnsureLinked(c) ==
    /\ step[c] = "link"
    /\ repoLock = NULL
    /\ IF tokens # NULL /\ pending
       THEN GoOn(c, "linkGeneration") /\ repoLock' = c
       ELSE GoOn(c, "end") /\ UNCHANGED repoLock
    /\ UNCHANGED <<sessionVars, op, deviceVars, gateLock, active, linkState, linkStart,
                   requestVars, serverVars>>

StartLinking(c) ==
    /\ step[c] = "linkGeneration"
    /\ linkStart' = [linkStart EXCEPT ![c] = generation]
    /\ linkState' = "Linking"
    /\ GoOn(c, "linkGate")
    /\ UNCHANGED <<sessionVars, op, deviceVars, locksVars, requestVars, serverVars>>

\* SubmissionGate.link: no submission starts any more...
TakeGate(c) ==
    /\ step[c] \in {"linkGate", "apply"}
    /\ gateLock = NULL
    /\ gateLock' = c
    /\ GoOn(c, IF step[c] = "apply" THEN "applyWait" ELSE "linkWait")
    /\ UNCHANGED <<sessionVars, op, deviceVars, repoLock, active, linkState, linkStart,
                   requestVars, serverVars>>

\* Fault: the submissions that are running are not waited for.
NoWait == TRUE

\* ...and those that run come to their end.
AllSubmitted == active = 0

WaitForSubmissions(c) ==
    /\ AllSubmitted
    /\ \/ step[c] = "linkWait" /\ BeginCall(c) /\ GoOn(c, "linkCall")
       \/ step[c] = "applyWait" /\ GoOn(c, "applyCheck") /\ UNCHANGED sessionVars
    /\ UNCHANGED <<op, deviceVars, locksVars, linkState, linkStart, requestVars, serverVars>>

\* POST /account/link with the device's identity.
SendLink(c) ==
    /\ step[c] = "linkCall" /\ pc[c] \in {"request", "retry"} /\ net[c] = "none"
    /\ IF idToken[c] = NULL
       THEN /\ Goto(c, "failed")                      \* error("not logged in")
            /\ UNCHANGED <<mutex, session, store, disk, account, callVars,
                           deviceVars, device, net>>
       ELSE \E d \in Idents :
            /\ IdentityId(d)
            /\ device' = [device EXCEPT ![c] = d]
            /\ net' = [net EXCEPT ![c] = "sent"]
            /\ UNCHANGED sessionVars
    /\ UNCHANGED <<op, step, locksVars, linkState, linkStart, rotated, reply, serverVars>>

\* 409 at the first attempt: take a new identity and link that one.
Rotate(c) ==
    /\ step[c] = "linkCall" /\ pc[c] \in {"request", "retry"}
    /\ net[c] = "answered" /\ reply[c] = "conflict" /\ ~ rotated[c] /\ Flushed
    /\ \E d \in Idents \ issued :
        /\ identity' = d
        /\ issued' = issued \union {d}
    /\ rotated' = [rotated EXCEPT ![c] = TRUE]
    /\ net' = [net EXCEPT ![c] = "none"]
    /\ UNCHANGED <<sessionVars, op, step, locksVars, linkState, linkStart, device, reply, serverVars>>

LinkCallEnds(c) ==
    /\ step[c] = "linkCall" /\ pc[c] \in {"done", "failed"}
    /\ gateLock' = NULL
    /\ GoOn(c, "linkResult")
    /\ UNCHANGED <<sessionVars, op, deviceVars, repoLock, active, linkState, linkStart,
                   requestVars, serverVars>>

\* Fault: the session of the result is not compared.
AnySession(c) == TRUE

\* The condition of ifSameSession(startedAt).
SameSession(c) == generation = linkStart[c]

\* Fault: the session may change between the comparison and the update.
LinkResultUnlocked(c) ==
    /\ step[c] = "linkResult"
    /\ pending' = IF SameSession(c) /\ At(c, "done") THEN FALSE ELSE pending
    /\ linkState' = IF SameSession(c) /\ At(c, "failed") THEN "Failed" ELSE "Idle"
    /\ repoLock' = NULL
    /\ GoOn(c, "end")
    /\ UNCHANGED <<mutex, session, saved, disk, pc, account, callVars, op, deviceVars, gateLock,
                   active, linkStart, requestVars, serverVars>>

\* The result counts for the session that started the link: success takes
\* pending back, failure is shown; both under the session's mutex.
LinkResult(c) ==
    /\ step[c] = "linkResult"
    /\ Locked
    /\ pending' = IF SameSession(c) /\ At(c, "done") THEN FALSE ELSE pending
    /\ linkState' = IF SameSession(c) /\ At(c, "failed") THEN "Failed" ELSE "Idle"
    /\ repoLock' = NULL
    /\ GoOn(c, "end")
    /\ UNCHANGED <<session, saved, disk, pc, account, callVars, op, deviceVars, gateLock,
                   active, linkStart, requestVars, serverVars>>

-----------------------------------------------------------------------------
(* LearningRepository.submitAnswers and applyTransferToken *)

\* SubmissionGate.submission: waits for a link, then counts itself.
EnterGate(c) ==
    /\ step[c] = "submit"
    /\ gateLock = NULL
    /\ active' = active + 1
    /\ GoOn(c, "submitIdentity")
    /\ UNCHANGED <<sessionVars, op, deviceVars, repoLock, gateLock, linkState, linkStart,
                   requestVars, serverVars>>

SubmitIdentity(c) ==
    /\ step[c] = "submitIdentity"
    /\ \E d \in Idents :
        /\ IdentityId(d)
        /\ device' = [device EXCEPT ![c] = d]
    /\ BeginCall(c)
    /\ GoOn(c, "submitCall")
    /\ UNCHANGED <<op, locksVars, linkState, linkStart, rotated, net, reply, serverVars>>

SendAnswers(c) ==
    /\ step[c] = "submitCall" /\ pc[c] \in {"request", "retry"} /\ net[c] = "none"
    /\ net' = [net EXCEPT ![c] = "sent"]
    /\ UNCHANGED <<sessionVars, op, step, deviceVars, locksVars, linkState, linkStart,
                   device, rotated, reply, serverVars>>

\* Fault: a failed submission stays counted.
LeaveGateDone(c) ==
    /\ step[c] = "submitCall" /\ pc[c] \in {"done", "failed"}
    /\ active' = IF At(c, "done") THEN active - 1 ELSE active
    /\ GoOn(c, "end")
    /\ UNCHANGED <<sessionVars, op, deviceVars, repoLock, gateLock, linkState, linkStart,
                   requestVars, serverVars>>

\* finally: active - 1, also when the identity cannot be fetched.
LeaveGate(c) ==
    /\ \/ step[c] = "submitCall" /\ pc[c] \in {"done", "failed"}
       \/ step[c] = "submitIdentity" /\ identity = NULL /\ Offline
    /\ active' = active - 1
    /\ GoOn(c, "end")
    /\ UNCHANGED <<sessionVars, op, deviceVars, repoLock, gateLock, linkState, linkStart,
                   requestVars, serverVars>>

\* check(!session.isLoggedIn), and the identity of this device.
ApplyCheck(c) ==
    /\ step[c] = "applyCheck"
    /\ \/ /\ tokens = NULL
          /\ GoOn(c, "applyCall") /\ UNCHANGED gateLock
          /\ \E d \in Idents : IdentityId(d)
       \/ /\ tokens # NULL \/ (identity = NULL /\ Offline)
          /\ GoOn(c, "end") /\ gateLock' = NULL
          /\ UNCHANGED deviceVars
    /\ UNCHANGED <<sessionVars, op, repoLock, active, linkState, linkStart,
                   requestVars, serverVars>>

\* The token is accepted and the other device's identity adopted, or not.
ApplyAnswered(c) ==
    /\ step[c] = "applyCall"
    /\ Flushed
    /\ gateLock' = NULL
    /\ GoOn(c, "end")
    /\ \/ UNCHANGED deviceVars
       \/ \E d \in Idents \ {identity} : identity' = d /\ issued' = issued \union {d}
    /\ UNCHANGED <<sessionVars, op, repoLock, active, linkState, linkStart, requestVars, serverVars>>

-----------------------------------------------------------------------------
(* Answers of the API server to the authorized calls.                      *)

\* 200, 400 or a 409 that is not repeated.
Receive(c) ==
    /\ pc[c] \in {"request", "retry"} /\ net[c] = "answered" /\ Flushed
    /\ \/ reply[c] = "ok" /\ Goto(c, "done")
       \/ reply[c] = "refused" /\ Goto(c, "failed")
       \/ reply[c] = "conflict" /\ rotated[c] /\ Goto(c, "failed")
    /\ UNCHANGED <<mutex, session, store, disk, account, callVars, clientVars>>

\* 401; the repeated block starts from its beginning.
ReceiveUnauthorized(c) ==
    /\ net[c] = "answered" /\ reply[c] = "unauthorized" /\ Flushed
    /\ Unauthorized(c) \/ UnauthorizedAgain(c)
    /\ net' = [net EXCEPT ![c] = "none"]
    /\ rotated' = [rotated EXCEPT ![c] = FALSE]
    /\ UNCHANGED <<op, step, deviceVars, locksVars, linkState, linkStart, device, reply, serverVars>>

\* No connection, or a timeout: a request the client gives up on while the
\* server works may still be served.
GiveUp(c) ==
    /\ pc[c] \in {"request", "retry"}
    /\ "giveUp" \in Faults \/ (Offline /\ net[c] \in {"none", "answered"})
    /\ Goto(c, "failed")
    /\ UNCHANGED <<mutex, session, store, disk, account, callVars, clientVars>>

-----------------------------------------------------------------------------
(* The API server.                                                         *)

Answer(c, r) ==
    /\ net' = [net EXCEPT ![c] = "answered"]
    /\ reply' = [reply EXCEPT ![c] = r]

AccountOf(c) == IF idToken[c] = NULL THEN NULL ELSE account[idToken[c]]

ServerRejects(c) ==
    /\ net[c] = "sent" /\ idToken[c] # NULL
    /\ Answer(c, "unauthorized")
    /\ UNCHANGED <<sessionVars, op, step, deviceVars, locksVars, linkState, linkStart,
                   device, rotated, serverVars>>

\* LinkAccount, one transaction: create, merge, no-op or 409.
ServerLinks(c) ==
    LET a == AccountOf(c)
        d == device[c]
    IN  /\ net[c] = "sent" /\ op[c] = "link"
        /\ IF linkedTo[d] = NULL
           THEN /\ linkedTo' = [linkedTo EXCEPT ![d] = a]
                /\ primary' = [primary EXCEPT ![a] = IF @ = NULL THEN d ELSE @]
                /\ recorded' = [q \in Coroutines |->
                                 IF recorded[q] = d /\ primary[a] # NULL
                                 THEN primary[a] ELSE recorded[q]]
           ELSE UNCHANGED <<linkedTo, primary, recorded>>
        /\ Answer(c, IF linkedTo[d] \in {NULL, a} THEN "ok" ELSE "conflict")
        /\ UNCHANGED <<sessionVars, op, step, deviceVars, locksVars, linkState, linkStart,
                       device, rotated, row>>

\* resolveUserIDForWrite: the account's canonical row, the device's row, or
\* ACCOUNT_LINK_REQUIRED.
ServerResolves(c) ==
    LET a == AccountOf(c)
        d == device[c]
    IN  /\ net[c] = "sent" /\ op[c] = "submit"
        /\ IF a # NULL /\ primary[a] = NULL /\ linkedTo[d] # NULL
           THEN Answer(c, "refused") /\ UNCHANGED row
           ELSE /\ row' = [row EXCEPT ![c] =
                             IF a # NULL /\ primary[a] # NULL THEN primary[a]
                             ELSE IF linkedTo[d] # NULL THEN primary[linkedTo[d]] ELSE d]
                /\ net' = [net EXCEPT ![c] = "resolved"]
                /\ UNCHANGED reply
        /\ UNCHANGED <<sessionVars, op, step, deviceVars, locksVars, linkState, linkStart,
                       device, rotated, linkedTo, primary, recorded>>

ServerRecords(c) ==
    /\ net[c] = "resolved"
    /\ recorded' = [recorded EXCEPT ![c] = row[c]]
    /\ Answer(c, "ok")
    /\ UNCHANGED <<sessionVars, op, step, deviceVars, locksVars, linkState, linkStart,
                   device, rotated, linkedTo, primary, row>>

-----------------------------------------------------------------------------

\* The process dies: its locks and counters go, its requests stay.
ClientRestart ==
    /\ "restart" \in Faults
    /\ Restart
    /\ step' = [c \in Coroutines |-> IF step[c] = "none" THEN "none" ELSE "end"]
    /\ repoLock' = NULL
    /\ gateLock' = NULL
    /\ active' = 0
    /\ linkState' = "Idle"
    /\ UNCHANGED <<op, deviceVars, linkStart, requestVars, serverVars>>

RepositoryStep(c) ==
    \/ EnsureLinked(c) \/ StartLinking(c) \/ TakeGate(c) \/ WaitForSubmissions(c)
    \/ SendLink(c) \/ Rotate(c) \/ LinkCallEnds(c) \/ LinkResult(c)
    \/ EnterGate(c) \/ SubmitIdentity(c) \/ SendAnswers(c) \/ LeaveGate(c)
    \/ ApplyCheck(c) \/ ApplyAnswered(c)
    \/ Receive(c) \/ ReceiveUnauthorized(c) \/ GiveUp(c)

ServerStep(c) == ServerRejects(c) \/ ServerLinks(c) \/ ServerResolves(c) \/ ServerRecords(c)

CoroutineStep(c) ==
    \/ SessionStep(c) /\ UNCHANGED clientVars
    \/ RepositoryStep(c)
    \/ ServerStep(c)

Next ==
    \/ \E c \in Coroutines : Start(c) \/ StartSession(c) \/ CoroutineStep(c)
    \/ (Expire \/ Flush) /\ UNCHANGED clientVars
    \/ ClientRestart

Spec == Init /\ [][Next]_vars

\* The dispatcher runs every coroutine that can go on; every network call
\* is answered or times out; SharedPreferences are written.
FairSpec ==
    /\ Spec
    /\ \A c \in Coroutines : WF_vars(CoroutineStep(c))
    /\ WF_vars(Flush /\ UNCHANGED clientVars)

-----------------------------------------------------------------------------
(* What the client promises.  With SessionSpec as a property: the           *)
(* repositories use the session as AccountSession allows, so that what is  *)
(* shown of the session holds in the whole client.                         *)

LinkRecorded(login) == identity # NULL /\ linkedTo[identity] = account[login]

\* Whoever is signed in, now or after a restart, and has no link pending has
\* linked this device: no crash, lost answer, change of session or adopted
\* identity loses a link that is still due (AccountSession.kt:92-94).
PendingUntilLinked ==
    /\ tokens # NULL /\ ~ pending => LinkRecorded(tokens)
    /\ disk.tokens # NULL /\ ~ disk.pending => LinkRecorded(disk.tokens)

\* With the gate no submission leaves its answers on a users row that a link
\* has already emptied (SubmissionGate.kt:12-14).
AnswersCollected ==
    \A c \in Coroutines :
        LET r == recorded[c]
        IN  r # NULL /\ linkedTo[r] # NULL => r = primary[linkedTo[r]]

\* While a failed link is shown to somebody who is signed in, the link is
\* still pending, so that trying again can take the message away
\* (AccountRepository.kt:37-41).
FailureCanBeRetried == linkState = "Failed" /\ tokens # NULL => pending

\* No coroutine waits forever for the session, the repository or the gate: the
\* operations that were started all end.
EveryOperationEnds ==
    <>[](\A c \in Coroutines : step[c] \in {"none", "end"} /\ pc[c] \notin Running)

=============================================================================

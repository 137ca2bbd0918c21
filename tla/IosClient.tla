----------------------------- MODULE IosClient -----------------------------
(***************************************************************************)
(* The signed-in part of the iOS app (ios/Rikako): AccountSession,         *)
(* AccountLinkCoordinator, CognitoDeviceIdentityProvider and the           *)
(* authenticated calls of RemoteLearningRepository, with Cognito and the   *)
(* API server as far as they answer them.  Everything runs on the main     *)
(* actor, so what happens between two awaits is one step; what was read    *)
(* before an await may be stale after it.                                  *)
(*                                                                         *)
(* A task is a Swift Task that runs one of the operations, and is free     *)
(* for another one afterwards.                                             *)
(***************************************************************************)
EXTENDS Naturals, Sequences, FiniteSets

CONSTANTS Tasks, Accounts, NULL,
          MaxSessions, MaxDevices,    \* bounds: sign-ins; device ids;
          MaxExpired, MaxCalls        \*   sessions whose tokens expire; what the user does

ASSUME IosAssumption ==
  /\ NULL \notin Accounts \cup Nat \cup [session : Nat, number : Nat]
  /\ MaxSessions \in Nat \ {0} /\ MaxExpired \in Nat /\ MaxCalls \in Nat /\ MaxDevices \in Nat /\ MaxDevices >= 2

VARIABLES tokens,                     \* AccountSession and the Keychain
          pending,                    \* AccountLinkPendingStore (UserDefaults)
          state,                      \* AccountLinkCoordinator: "idle", "linking", "failed"
          cached, keychain,           \* the device id in memory and in the Keychain
          task,
          calls,                      \* what the user did so far
          sessions,                   \* Cognito: sign-ins with their ID tokens
          drawn,                      \* device ids that were drawn
          linkedTo, primary,          \* server, as in AndroidClient
          recorded,                   \* history: rows that answers of this device are in,
          late,                       \*   an answer met another session than the one it is of,
          raced                       \*   a device id was replaced by one drawn beside it

sessionVars == <<tokens, pending>>
idVars == <<cached, keychain, drawn>>
serverVars == <<linkedTo, primary, recorded>>
historyVars == <<late, raced>>
vars == <<sessionVars, state, idVars, task, calls, sessions, serverVars, historyVars>>

Devices == 1 .. MaxDevices
OwnerOf(tk) == IF tk = NULL THEN NULL ELSE sessions[tk.session].owner
isExpired(tk) == tk.number <= sessions[tk.session].expired
CurrentSession == IF tokens = NULL THEN NULL ELSE tokens.session

(* pc: "idle", "ensureLinked", "await" or, when nobody waits for it any     *)
(* more, "lost"; request, net, reply: what is awaited and how far it is;    *)
(* token, device: what it carries; begun: the session an answer is of.      *)
Idle == [op |-> NULL, pc |-> "idle", request |-> NULL, net |-> "none", reply |-> "none",
         token |-> NULL, device |-> NULL, rotated |-> FALSE, retried |-> FALSE, begun |-> NULL]
Started(o) == [Idle EXCEPT !.op = o]
Await(r, q) == [r EXCEPT !.pc = "await", !.request = q, !.net = "sent", !.reply = "none"]
Launch == [Idle EXCEPT !.op = "launch", !.pc = "ensureLinked"]
Links == {"launch", "link"}

Become(t, r) == task' = [task EXCEPT ![t] = r]
(* Nobody waits any more: a request may still reach the API server.         *)
Left(r) == IF r.net = "sent" /\ r.request = "fetch"
           THEN [r EXCEPT !.pc = "lost", !.rotated = FALSE, !.retried = FALSE] ELSE Idle
Session(a) == [owner |-> a, number |-> 1, expired |-> 0, revoked |-> FALSE]

(* A first launch, also of an app that was installed before (the Keychain   *)
(* outlives it), or of one that signed in with an older build: a missing    *)
(* flag reads as pending.  Device 2 is elsewhere and linked.                *)
Init ==
  /\ pending = TRUE /\ state = "idle"
  /\ keychain \in {NULL, 1} /\ cached = keychain /\ drawn = 2
  /\ \/ tokens = NULL /\ sessions = <<>>
     \/ tokens = [session |-> 1, number |-> 1] /\ \E a \in Accounts : sessions = <<Session(a)>>
  /\ \E t \in Tasks : task = [u \in Tasks |-> IF u = t THEN Launch ELSE Idle]
  /\ linkedTo \in {f \in [Devices -> Accounts \cup {NULL}] :
                     f[2] # NULL /\ \A d \in Devices : f[d] # NULL => d \in {2, keychain}}
  /\ primary \in [Accounts -> Devices \cup {NULL}]
  /\ \A a \in Accounts : LET linked == {d \in Devices : linkedTo[d] = a}
                         IN IF linked = {} THEN primary[a] = NULL ELSE primary[a] \in linked
  /\ calls = 0 /\ recorded = {} /\ late = FALSE /\ raced = FALSE

-----------------------------------------------------------------------------
(* AccountSession: what it keeps.                                           *)
apply(tk) == tokens' = tk
clear == tokens' = NULL /\ pending' = FALSE
Late(s) == late' = (late \/ CurrentSession # s)

(* The app is killed in signIn or clear, between their two stores.          *)
\* Fault: signIn keeps the tokens before the flag.
TokensFirst(tk) == tokens' = tk /\ UNCHANGED pending
KilledInSignIn(tk) == pending' = TRUE /\ UNCHANGED tokens
KilledInClear == tokens' = NULL /\ UNCHANGED pending

(* sendAuthenticated: getIdentityId, then validIdToken.                     *)
validIdToken(r, d) ==
  Await([r EXCEPT !.device = d, !.token = tokens],
        IF tokens # NULL /\ isExpired(tokens) THEN "refresh" ELSE "fetch")
sendAuthenticated(r) == IF cached = NULL THEN Await(r, "getId") ELSE validIdToken(r, cached)

(* An operation fails; the coordinator remembers it of a link.              *)
Fail(t) ==
  /\ state' = IF task[t].op \in Links THEN "failed" ELSE state
  /\ Become(t, Left(task[t]))

-----------------------------------------------------------------------------
(* What the user does.  Nothing else is on the screen while the app         *)
(* launches; whoever is signed in can sign out or, after a link that        *)
(* failed, retry it.  Answer stands for every authenticated call.           *)
Launching == \E t \in Tasks : task[t].op = "launch" /\ task[t].pc # "lost"
Free(t) == task[t].pc = "idle" /\ ~ Launching

Answer(t) == Free(t) /\ UNCHANGED state
             /\ Become(t, sendAuthenticated([Started("answer") EXCEPT !.begun = CurrentSession]))
SignIn(t) == Free(t) /\ tokens = NULL /\ Become(t, Await(Started("signIn"), "signIn")) /\ UNCHANGED state
SignOut(t) ==
  /\ Free(t) /\ tokens # NULL
  /\ Become(t, [Await(Started("signOut"), "revoke") EXCEPT !.token = tokens]) /\ UNCHANGED state

ensureLinked(t) ==
  /\ task[t].pc = "ensureLinked"
  /\ IF tokens # NULL /\ pending /\ state # "linking"
     THEN state' = "linking" /\ Become(t, sendAuthenticated(Started(task[t].op)))
     ELSE Become(t, Idle) /\ UNCHANGED state

(* retry goes on to ensureLinked.                                           *)
retry(t) ==
  /\ Free(t) /\ tokens # NULL /\ state = "failed"
  /\ IF pending
     THEN state' = "linking" /\ Become(t, sendAuthenticated(Started("link")))
     ELSE state' = "idle" /\ UNCHANGED task

Begin(t) ==
  /\ \/ ensureLinked(t) /\ UNCHANGED calls
     \/ /\ Answer(t) \/ SignIn(t) \/ SignOut(t) \/ retry(t)
        /\ calls < MaxCalls /\ calls' = calls + 1
  /\ UNCHANGED <<sessionVars, idVars, sessions, serverVars, historyVars>>

-----------------------------------------------------------------------------
(* What a task does with an answer.                                         *)
Awaits(t, q) == task[t].pc = "await" /\ task[t].request = q
Answered(t, q, r) == Awaits(t, q) /\ task[t].net = "answered" /\ task[t].reply = r

(* signIn; the screen calls ensureLinked next.                              *)
SignedIn(t) ==
  /\ Answered(t, "signIn", "ok")
  /\ pending' = TRUE /\ apply(task[t].token)
  /\ Become(t, [Idle EXCEPT !.op = "link", !.pc = "ensureLinked"])
  /\ UNCHANGED <<state, idVars, sessions, calls, serverVars, historyVars>>

(* signOut, whether Cognito could revoke the token or not.                  *)
SignedOut(t) ==
  /\ Awaits(t, "revoke") /\ clear /\ Become(t, Idle)
  /\ UNCHANGED <<state, idVars, sessions, calls, serverVars, historyVars>>

(* getIdentityId and rotateIdentityId, which keep what they get.            *)
\* Fault: the device id is not saved.
NotSaved(d) == UNCHANGED keychain
Saved(d) == keychain' = d
GotId(t) ==
  /\ Awaits(t, "getId") /\ drawn < MaxDevices /\ drawn' = drawn + 1
  /\ Saved(drawn') /\ cached' = drawn' /\ raced' = (raced \/ cached # NULL)
  /\ Become(t, validIdToken(task[t], drawn'))
  /\ UNCHANGED <<sessionVars, state, sessions, calls, serverVars, late>>

(* validIdToken and forceRefresh after the refresh.                         *)
Refreshed(t) ==
  /\ Answered(t, "refresh", "ok") /\ apply(task[t].token) /\ Late(task[t].token.session)
  /\ Become(t, Await(task[t], "fetch"))
  /\ UNCHANGED <<pending, state, idVars, sessions, calls, serverVars, raced>>

sessionExpired(t) ==
  /\ Answered(t, "refresh", "terminal") /\ clear /\ Late(task[t].token.session) /\ Fail(t)
  /\ UNCHANGED <<idVars, sessions, calls, serverVars, raced>>

(* 401: refresh once, the session there is now, if there is one.            *)
Unauthorized(t) ==
  /\ Answered(t, "fetch", "unauthorized")
  /\ IF task[t].token # NULL /\ ~ task[t].retried /\ tokens # NULL
     THEN /\ Become(t, Await([task[t] EXCEPT !.retried = TRUE, !.token = tokens], "refresh"))
          /\ UNCHANGED state
     ELSE Fail(t)
  /\ UNCHANGED <<sessionVars, idVars, sessions, calls, serverVars, historyVars>>

(* linkAccount: 409 draws a new device id, once.                            *)
Conflict(t) ==
  /\ Answered(t, "fetch", "conflict")
  /\ IF task[t].rotated
     THEN Fail(t) /\ UNCHANGED cached
     ELSE /\ cached' = NULL /\ UNCHANGED state
          /\ Become(t, Await([task[t] EXCEPT !.rotated = TRUE, !.retried = FALSE], "getId"))
  /\ UNCHANGED <<sessionVars, keychain, drawn, sessions, calls, serverVars, historyVars>>

Succeeded(t) ==
  /\ Answered(t, "fetch", "ok") /\ Become(t, Idle)
  /\ IF task[t].op \in Links
     THEN pending' = FALSE /\ state' = "idle" /\ Late(task[t].token.session)
     ELSE UNCHANGED <<pending, state, late>>
  /\ UNCHANGED <<tokens, idVars, sessions, calls, serverVars, raced>>

(* ACCOUNT_LINK_REQUIRED; or no connection, or a service that fails.        *)
\* Fault: what cannot be refreshed now is sent without the account.
Anonymous(r) == IF r.request = "refresh" THEN Await([r EXCEPT !.token = NULL], "fetch") ELSE Left(r)
AfterLoss(r) == Left(r)
Lost(t) ==
  /\ \/ Answered(t, "fetch", "linkRequired")
     \/ \E q \in {"signIn", "getId", "refresh", "fetch"} : Awaits(t, q)
  /\ state' = IF task[t].op \in Links THEN "failed" ELSE state
  /\ Become(t, AfterLoss(task[t]))
  /\ UNCHANGED <<sessionVars, idVars, sessions, calls, serverVars, historyVars>>

(* A request nobody waits for is answered, or never arrives.                *)
Forget(t) ==
  /\ task[t].pc = "lost" /\ Become(t, Idle)
  /\ UNCHANGED <<sessionVars, state, idVars, sessions, calls, serverVars, historyVars>>

(* The app is killed and launched again.                                    *)
Relaunched ==
  /\ state' = "idle" /\ cached' = keychain
  /\ \E t \in Tasks : task' = [u \in Tasks |-> IF u = t THEN Launch ELSE Left(task[u])]
Restart ==
  /\ Relaunched /\ calls < MaxCalls /\ calls' = calls + 1
  /\ \/ UNCHANGED sessionVars
     \/ \E t \in Tasks :
          \/ Answered(t, "signIn", "ok") /\ KilledInSignIn(task[t].token)
          \/ Awaits(t, "revoke") /\ KilledInClear
          \/ Answered(t, "refresh", "terminal") /\ KilledInClear
  /\ UNCHANGED <<keychain, drawn, sessions, serverVars, historyVars>>

-----------------------------------------------------------------------------
(* Cognito.                                                                 *)
Sent(t, q) == task[t].net = "sent" /\ task[t].request = q
Reply(t, r, tk) ==
  Become(t, IF task[t].pc = "lost" THEN Idle
            ELSE [task[t] EXCEPT !.net = "answered", !.reply = r, !.token = tk])

CognitoSignsIn(t, a) ==
  /\ Sent(t, "signIn") /\ Len(sessions) < MaxSessions
  /\ sessions' = Append(sessions, Session(a))
  /\ Reply(t, "ok", [session |-> Len(sessions'), number |-> 1])

(* Terminal when the refresh token is revoked or expired or its user gone.  *)
CognitoRefreshes(t) ==
  LET s == task[t].token.session
  IN /\ Sent(t, "refresh")
     /\ \/ /\ Reply(t, "terminal", task[t].token)
           /\ sessions' = [sessions EXCEPT ![s].revoked = TRUE]
        \/ /\ ~ sessions[s].revoked
           /\ sessions' = [sessions EXCEPT ![s].number = @ + 1]
           /\ Reply(t, "ok", [session |-> s, number |-> sessions'[s].number])

CognitoRevokes(t) ==
  /\ Sent(t, "revoke") /\ Reply(t, "ok", task[t].token)
  /\ sessions' = [sessions EXCEPT ![task[t].token.session].revoked = TRUE]

Expire(s) ==
  /\ s <= Len(sessions) /\ sessions[s].expired = 0
  /\ Cardinality({r \in DOMAIN sessions : sessions[r].expired > 0}) < MaxExpired
  /\ sessions' = [sessions EXCEPT ![s].expired = sessions[s].number] /\ UNCHANGED task

CognitoStep ==
  /\ \/ \E t \in Tasks : CognitoRefreshes(t) \/ CognitoRevokes(t)
                           \/ \E a \in Accounts : CognitoSignsIn(t, a)
     \/ \E s \in 1 .. MaxSessions : Expire(s)
  /\ UNCHANGED <<sessionVars, state, idVars, calls, serverVars, historyVars>>

-----------------------------------------------------------------------------
(* The API server: a request is one step here.                              *)
AccountOf(t) == OwnerOf(task[t].token)
Rejected(t) == IF task[t].token = NULL THEN task[t].op \in Links ELSE isExpired(task[t].token)

ServerRejects(t) == Rejected(t) /\ Reply(t, "unauthorized", task[t].token) /\ UNCHANGED serverVars

ServerLinks(t) ==
  LET a == AccountOf(t)
      d == task[t].device
  IN /\ task[t].op \in Links /\ ~ Rejected(t)
     /\ IF linkedTo[d] = NULL
        THEN /\ linkedTo' = [linkedTo EXCEPT ![d] = a]
             /\ primary' = [primary EXCEPT ![a] = IF @ = NULL THEN d ELSE @]
        ELSE UNCHANGED <<linkedTo, primary>>
     /\ Reply(t, IF linkedTo[d] \in {NULL, a} THEN "ok" ELSE "conflict", task[t].token)
     /\ UNCHANGED recorded

(* resolveUserIDForWrite: the account's row, the device's, or neither.      *)
ResolvedRow(t) ==
  LET a == AccountOf(t)
      d == task[t].device
  IN IF a # NULL /\ primary[a] # NULL THEN primary[a]
     ELSE IF linkedTo[d] = NULL THEN d
     ELSE IF a = NULL THEN primary[linkedTo[d]] ELSE NULL

ServerRecords(t) ==
  LET r == ResolvedRow(t)
  IN /\ task[t].op = "answer" /\ ~ Rejected(t)
     /\ IF r = NULL THEN Reply(t, "linkRequired", task[t].token) /\ UNCHANGED recorded
                    ELSE Reply(t, "ok", task[t].token) /\ recorded' = recorded \cup {r}
     /\ UNCHANGED <<linkedTo, primary>>

ServerStep(t) ==
  /\ Sent(t, "fetch")
  /\ ServerRejects(t) \/ ServerLinks(t) \/ ServerRecords(t)
  /\ UNCHANGED <<sessionVars, state, idVars, calls, sessions, historyVars>>

-----------------------------------------------------------------------------
Receive(t) ==
  \/ SignedIn(t) \/ SignedOut(t) \/ GotId(t) \/ Refreshed(t) \/ sessionExpired(t)
  \/ Unauthorized(t) \/ Conflict(t) \/ Succeeded(t) \/ Lost(t)

Next ==
  \/ \E t \in Tasks : Begin(t) \/ Receive(t) \/ Forget(t) \/ ServerStep(t)
  \/ CognitoStep \/ Restart

Spec == Init /\ [][Next]_vars

-----------------------------------------------------------------------------
(* What the comment in signIn is about: nobody is signed in with no link    *)
(* due and none done.  No crash, lost request, conflict or expired token    *)
(* brings that about, only an answer that comes when its session is over,   *)
(* or a second device id.  And a link that is due is offered for a retry,   *)
(* about to begin or under way, also when the one under way is of the       *)
(* session before: it never waits for something that nobody will do         *)
(* (ensureLinked, retry).                                                   *)
Linked == keychain # NULL /\ linkedTo[keychain] = OwnerOf(tokens)
Offered ==
  \/ state = "failed"
  \/ \E t \in Tasks : \/ task[t].pc = "ensureLinked"
                      \/ state = "linking" /\ task[t].op \in Links /\ task[t].pc = "await"
LinkedOrOffered ==
  tokens # NULL => IF pending THEN Offered ELSE late \/ raced \/ Linked

(* An answer of this device is in an account or under the device id the     *)
(* device has, across rotations, restarts and failed calls, unless two      *)
(* calls drew a device id at once (getIdentityId, rotateIdentityId).        *)
AnswersKept == raced \/ \A d \in recorded : linkedTo[d] # NULL \/ d = keychain

(* An answer given in a session that is still the current one is recorded   *)
(* for its account when that has a row: no failure sends it without the     *)
(* token (sendAuthenticated).                                               *)
AnswersReachTheAccount ==
  [][\A t \in Tasks :
       LET s == task[t].begun
       IN Sent(t, "fetch") /\ ServerRecords(t) /\ s # NULL /\ s = CurrentSession /\ ~ late
            /\ primary[sessions[s].owner] # NULL
          => ResolvedRow(t) = primary[sessions[s].owner]]_vars
=============================================================================

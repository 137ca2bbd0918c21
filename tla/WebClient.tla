----------------------------- MODULE WebClient -----------------------------
(***************************************************************************)
(* The API client of the web site (web/src/lib) in one browser tab: the    *)
(* calls of the page (AuthMenu, QuestionCard, ExamProgress), the link they *)
(* share, the tokens in localStorage, and the API server and Cognito as    *)
(* far as they answer it.  JavaScript runs a call from one await to the    *)
(* next in one step; what it read before an await may be stale after it.   *)
(*                                                                         *)
(* A task is one call of the page.  It owns two threads: the call itself   *)
(* and the link it may have started for all of them.                       *)
(***************************************************************************)
EXTENDS Naturals, Sequences, FiniteSets

CONSTANTS Tasks, Accounts, NULL,
          Operations,                 \* what the page does: "auth", "answer", "progress"
          MaxSessions, MaxDevices,    \* bounds: sign-ins; device ids;
          MaxFaults                   \*   tokens that expire and requests that get lost

ASSUME WebAssumption ==
  /\ NULL \notin Tasks \cup Accounts \cup Nat \cup [session : Nat, number : Nat]
  /\ NULL \notin {"auth", "answer", "progress"}
  /\ Operations \subseteq {"auth", "answer", "progress"}
  /\ MaxSessions \in Nat /\ MaxFaults \in Nat /\ MaxDevices \in Nat /\ MaxDevices >= 2

VARIABLES tokens,                     \* localStorage: tokens,
          deviceId,                   \*               device id
          linkReady,                  \* task whose link is under way
          signingOut,                 \* signOut: it revokes the refresh token
          op, thread, awaited, cancelled,
          sessions,                   \* Cognito: sign-ins with their ID tokens
          drawn,                      \* device ids that were drawn
          faults,
          linkedTo, primary,          \* server, as in AndroidClient
          row,                        \*   users row of an answer that is not written yet
          seen                        \* history: whose record a progress was read from

taskVars == <<op, awaited>>
serverVars == <<linkedTo, primary, row, seen>>
vars == <<tokens, deviceId, linkReady, signingOut, taskVars, thread, cancelled, sessions,
          drawn, faults, serverVars>>

Call(t) == <<t, "call">>
Link(t) == <<t, "link">>
Threads == Tasks \X {"call", "link"}
Ended == {"ok", "failed", "lost"}
Steps == {"none", "wait", "fetch", "refresh", "link"} \cup Ended
Replies == {"none", "ok", "unauthorized", "linkRequired", "conflict"}

(* Device ids are random: a new one is nobody else's.                       *)
Devices == 1 .. MaxDevices

(* An ID token: its session, whose refresh token it came with, and number.  *)
Tokens == [session : 1 .. MaxSessions, number : Nat \ {0}] \cup {NULL}
OwnerOf(tk) == IF tk = NULL THEN NULL ELSE sessions[tk.session].owner

(* auth, link: RetryBudget.  others: the answers under way that a call      *)
(* waits for, or at whose side a link was sent.                             *)
Idle == [pc |-> "none", others |-> {}, auth |-> TRUE, link |-> TRUE, rotated |-> FALSE,
         token |-> NULL, device |-> NULL, net |-> "none", reply |-> "none"]

(* This device (1) and one elsewhere (2) may be linked already.             *)
Init ==
  /\ tokens = NULL /\ linkReady = NULL /\ signingOut = NULL
  /\ op = [t \in Tasks |-> NULL] /\ awaited = [t \in Tasks |-> NULL]
  /\ thread = [x \in Threads |-> Idle]
  /\ cancelled = [t \in Tasks |-> FALSE]
  /\ sessions = <<>> /\ faults = 0
  /\ deviceId = 1 /\ drawn = 2
  /\ linkedTo \in {f \in [Devices -> Accounts \cup {NULL}] : \A d \in Devices : d > 2 => f[d] = NULL}
  /\ primary \in [Accounts -> Devices \cup {NULL}]
  /\ \A a \in Accounts : LET linked == {d \in Devices : linkedTo[d] = a}
                         IN IF linked = {} THEN primary[a] = NULL ELSE primary[a] \in linked
  /\ row = [t \in Tasks |-> NULL] /\ seen = [t \in Tasks |-> NULL]

-----------------------------------------------------------------------------
(* submitAnswer keeps its promise here until it is settled.                 *)
inFlightSubmissions == {t \in Tasks : op[t] = "answer" /\ thread[Call(t)].pc \notin Ended}

\* Fault: a change of the user cancels nothing.
CancelNothing(before, after) == cancelled

(* useAuthEmail: an effect is cancelled when the user changes.              *)
Cancel(before, after) ==
  [t \in Tasks |-> cancelled[t] \/ (op[t] # NULL /\ before # after)]

SetTokens(tk) == tokens' = tk /\ cancelled' = Cancel(OwnerOf(tokens), OwnerOf(tk))
clearTokens == SetTokens(NULL)

(* authedFetch reads the tokens and the device id when it sends.            *)
Sent(x, tk, d) == [thread[x] EXCEPT !.pc = "fetch", !.net = "sent", !.reply = "none",
                                    !.token = tk, !.device = d,
                                    !.others = IF x[2] = "link" THEN inFlightSubmissions ELSE {}]

\* Fault: a link waits for the answers under way, also the one that needs it.
LinkAfterAnswers(t) == [Idle EXCEPT !.pc = "wait", !.others = inFlightSubmissions]
FirstLink(t) == Sent(Link(t), tokens, deviceId)

Waiting(t) == [Idle EXCEPT !.pc = "link", !.auth = thread[Call(t)].auth]

\* Fault: every call that needs the link starts its own.
EnsureOwnLink(t) ==
  /\ linkReady' = t /\ awaited' = [awaited EXCEPT ![t] = t]
  /\ thread' = [thread EXCEPT ![Call(t)] = Waiting(t), ![Link(t)] = FirstLink(t)]

(* The link that is under way, whoever started it, or a new one.            *)
ensureLinkReady(t) ==
  /\ linkReady' = IF linkReady = NULL THEN t ELSE linkReady
  /\ awaited' = [awaited EXCEPT ![t] = linkReady']
  /\ thread' = [thread EXCEPT ![Call(t)] = Waiting(t),
                              ![Link(t)] = IF linkReady = NULL THEN FirstLink(t) ELSE @]

\* Fault: the answers under way are not waited for.
NothingPending == {}
Pending == inFlightSubmissions

(* An answer is sent at once; AuthMenu's link and ExamProgress's reading    *)
(* wait for the answers that are under way (waitForPendingSubmissions).     *)
Start(t) ==
  /\ op[t] = NULL
  /\ \E o \in Operations :
       /\ o = "auth" => tokens # NULL
       /\ op' = [op EXCEPT ![t] = o]
       /\ thread' = [thread EXCEPT ![Call(t)] =
                       IF o = "answer" THEN Sent(Call(t), tokens, deviceId)
                                       ELSE [@ EXCEPT !.pc = "wait", !.others = Pending]]
  /\ UNCHANGED <<tokens, deviceId, linkReady, signingOut, awaited, cancelled, sessions, drawn,
                 faults, serverVars>>

AnswersSettled(x) ==
  /\ thread[x].pc = "wait" /\ thread[x].others \cap inFlightSubmissions = {}
  /\ IF op[x[1]] = "auth" /\ x[2] = "call"
     THEN ensureLinkReady(x[1])
     ELSE /\ thread' = [thread EXCEPT ![x] = Sent(x, tokens, deviceId)]
          /\ UNCHANGED <<linkReady, awaited>>
  /\ UNCHANGED <<tokens, deviceId, signingOut, op, cancelled, sessions, drawn, faults, serverVars>>

-----------------------------------------------------------------------------
(* What authedFetch does with the answer.                                   *)
Answered(x, r) == thread[x].pc = "fetch" /\ thread[x].net = "answered" /\ thread[x].reply = r
(* A call that has ended forgets what it had, but not a request that was    *)
(* lost on its way.                                                         *)
Become(x, s) ==
  thread' = [thread EXCEPT ![x] = IF s = "lost" THEN [@ EXCEPT !.pc = s]
                                                ELSE [Idle EXCEPT !.pc = s]]

Succeed(x) ==
  /\ Answered(x, "ok") /\ Become(x, "ok")
  /\ UNCHANGED <<tokens, deviceId, linkReady, signingOut, taskVars, cancelled, sessions, drawn,
                 faults, serverVars>>

(* 401: refresh the tokens that are there now, or end the session.          *)
Unauthorized(x) ==
  /\ Answered(x, "unauthorized")
  /\ IF thread[x].auth /\ tokens # NULL
     THEN /\ thread' = [thread EXCEPT ![x].pc = "refresh", ![x].token = tokens]
          /\ UNCHANGED <<tokens, cancelled>>
     ELSE Become(x, "failed") /\ clearTokens
  /\ UNCHANGED <<deviceId, linkReady, signingOut, taskVars, sessions, drawn, faults, serverVars>>

(* refresh: the tokens of the session it started with are stored, whatever  *)
(* is stored by now, and the request is sent again.                         *)
Refreshed(x) ==
  LET s == thread[x].token.session
      new == [session |-> s, number |-> sessions[s].number + 1]
  IN /\ thread[x].pc = "refresh" /\ ~ sessions[s].revoked
     /\ sessions' = [sessions EXCEPT ![s].number = @ + 1]
     /\ SetTokens(new)
     /\ thread' = [thread EXCEPT ![x] = [Sent(x, new, deviceId) EXCEPT !.auth = FALSE]]
     /\ UNCHANGED <<deviceId, linkReady, signingOut, taskVars, drawn, faults, serverVars>>

Fault == faults < MaxFaults /\ faults' = faults + 1

(* A revoked refresh token, or no connection.                               *)
NotRefreshed(x) ==
  /\ thread[x].pc = "refresh" /\ Become(x, "failed") /\ clearTokens
  /\ IF sessions[thread[x].token.session].revoked THEN UNCHANGED faults ELSE Fault
  /\ UNCHANGED <<deviceId, linkReady, signingOut, taskVars, sessions, drawn, serverVars>>

(* 400 ACCOUNT_LINK_REQUIRED: link, then send once more.                    *)
LinkRequired(x) ==
  /\ Answered(x, "linkRequired")
  /\ IF thread[x].link THEN ensureLinkReady(x[1])
                       ELSE Become(x, "failed") /\ UNCHANGED <<linkReady, awaited>>
  /\ UNCHANGED <<tokens, deviceId, signingOut, op, cancelled, sessions, drawn, faults, serverVars>>

(* 409: another account has this device; draw a new id and link that, once. *)
Conflict(x) ==
  /\ Answered(x, "conflict")
  /\ IF thread[x].rotated
     THEN Become(x, "failed") /\ UNCHANGED <<deviceId, drawn>>
     ELSE /\ drawn < MaxDevices /\ drawn' = drawn + 1 /\ deviceId' = drawn'
          /\ thread' = [thread EXCEPT ![x] = [Sent(x, tokens, drawn') EXCEPT
                          !.rotated = TRUE, !.auth = TRUE, !.link = TRUE]]
  /\ UNCHANGED <<tokens, linkReady, signingOut, taskVars, cancelled, sessions, faults, serverVars>>

(* fetch rejects; the server may still do what it was asked.                *)
Lose(x) ==
  /\ thread[x].pc = "fetch" /\ Fault /\ Become(x, "lost")
  /\ UNCHANGED <<tokens, deviceId, linkReady, signingOut, taskVars, cancelled, sessions, drawn,
                 serverVars>>

-----------------------------------------------------------------------------
(* The promise of a link is settled: it is given up before anyone who       *)
(* waited goes on, which happens before anything else runs.                 *)
WaitingFor(t) == {u \in Tasks : awaited[u] = t /\ thread[Call(u)].pc = "link"}
Settling(t) == thread[Link(t)].pc \in Ended /\ WaitingFor(t) # {}

\* Fault: a link that failed counts as done.
AlwaysLinked(t) == "ok"
LinkResult(t) == IF thread[Link(t)].pc = "ok" THEN "ok" ELSE "failed"

Settle(t) ==
  /\ Settling(t)
  /\ linkReady' = IF linkReady = t THEN NULL ELSE linkReady
  /\ thread' = [x \in Threads |->
       IF x[2] = "link" \/ x[1] \notin WaitingFor(t) THEN thread[x]
       ELSE IF op[x[1]] = "auth" THEN [thread[x] EXCEPT !.pc = LinkResult(t)]
       ELSE [Sent(x, tokens, deviceId) EXCEPT !.link = FALSE]]
  /\ UNCHANGED <<tokens, deviceId, signingOut, taskVars, cancelled, sessions, drawn, faults, serverVars>>

-----------------------------------------------------------------------------
(* The login page signs in whoever is there, also beside a session that is  *)
(* still stored: the new tokens replace the old.  Signing out is offered to *)
(* whoever is signed in (and there is still something to see).              *)
Busy == \E t \in Tasks : thread[Call(t)].pc \notin Ended

SignIn(a) ==
  /\ Busy /\ Len(sessions) < MaxSessions
  /\ sessions' = Append(sessions, [owner |-> a, number |-> 1, expired |-> 0, revoked |-> FALSE])
  /\ tokens' = [session |-> Len(sessions) + 1, number |-> 1]
  /\ cancelled' = Cancel(OwnerOf(tokens), a)
  /\ UNCHANGED <<deviceId, linkReady, signingOut, taskVars, thread, drawn, faults, serverVars>>

SignOut ==
  /\ signingOut = NULL /\ tokens # NULL /\ signingOut' = tokens.session
  /\ UNCHANGED <<tokens, deviceId, linkReady, taskVars, thread, cancelled, sessions, drawn,
                 faults, serverVars>>

(* The tokens go, whether Cognito could revoke them or not.                 *)
SignedOut ==
  /\ signingOut # NULL /\ signingOut' = NULL /\ clearTokens
  /\ \/ sessions' = [sessions EXCEPT ![signingOut].revoked = TRUE] /\ UNCHANGED faults
     \/ Fault /\ UNCHANGED sessions
  /\ UNCHANGED <<deviceId, linkReady, taskVars, thread, drawn, serverVars>>

(* Nobody notices when an ID token expires that is not in use any more.     *)
InUse == {tokens} \cup {thread[x].token : x \in Threads}

Expire(s) ==
  /\ Busy
  /\ \E tk \in InUse : tk # NULL /\ tk.session = s
  /\ sessions[s].expired < sessions[s].number
  /\ sessions' = [sessions EXCEPT ![s].expired = sessions[s].number] /\ Fault
  /\ UNCHANGED <<tokens, deviceId, linkReady, signingOut, taskVars, thread, cancelled, drawn,
                 serverVars>>

-----------------------------------------------------------------------------
(* The API server, one request at a time for each of its statements.        *)
clientVars == <<tokens, deviceId, linkReady, signingOut, taskVars, cancelled, sessions, drawn, faults>>

Reply(x, r) == thread' = [thread EXCEPT ![x].net = "answered", ![x].reply = r]
AccountOf(x) == OwnerOf(thread[x].token)

(* An expired token anywhere, and no token where one is needed.             *)
Rejected(x) ==
  LET tk == thread[x].token
  IN IF tk = NULL THEN x[2] = "link" ELSE tk.number <= sessions[tk.session].expired

ServerRejects(x) ==
  /\ thread[x].net = "sent" /\ Rejected(x) /\ Reply(x, "unauthorized")
  /\ UNCHANGED <<clientVars, serverVars>>

ServerLinks(x) ==
  LET a == AccountOf(x)
      d == thread[x].device
  IN /\ thread[x].net = "sent" /\ x[2] = "link" /\ ~ Rejected(x)
     /\ IF linkedTo[d] = NULL
        THEN /\ linkedTo' = [linkedTo EXCEPT ![d] = a]
             /\ primary' = [primary EXCEPT ![a] = IF @ = NULL THEN d ELSE @]
        ELSE UNCHANGED <<linkedTo, primary>>
     /\ Reply(x, IF linkedTo[d] \in {NULL, a} THEN "ok" ELSE "conflict")
     /\ UNCHANGED <<clientVars, row, seen>>

(* resolveUserIDForWrite and, for the progress, resolveUserIDForRead: the   *)
(* account's row, the device's row, or ACCOUNT_LINK_REQUIRED.               *)
ResolvedRow(x) ==
  LET a == AccountOf(x)
      d == thread[x].device
  IN IF a # NULL /\ primary[a] # NULL THEN primary[a]
     ELSE IF linkedTo[d] = NULL THEN d
     ELSE IF a = NULL THEN primary[linkedTo[d]] ELSE NULL

ServerResolves(x) ==
  LET t == x[1]
      r == ResolvedRow(x)
  IN /\ thread[x].net = "sent" /\ x[2] = "call" /\ ~ Rejected(x)
     /\ \/ r = NULL /\ Reply(x, "linkRequired") /\ UNCHANGED <<row, seen>>
        \/ /\ r # NULL /\ op[t] = "progress"
           /\ Reply(x, "ok") /\ seen' = [seen EXCEPT ![t] = linkedTo[r]] /\ UNCHANGED row
        \/ /\ r # NULL /\ op[t] = "answer"
           /\ thread' = [thread EXCEPT ![x].net = "resolved"]
           /\ row' = [row EXCEPT ![t] = r] /\ UNCHANGED seen
     /\ UNCHANGED <<clientVars, linkedTo, primary>>

ServerRecords(x) ==
  /\ thread[x].net = "resolved"
  /\ Reply(x, "ok") /\ row' = [row EXCEPT ![x[1]] = NULL]
  /\ UNCHANGED <<clientVars, linkedTo, primary, seen>>

-----------------------------------------------------------------------------
ClientStep(x) ==
  \/ AnswersSettled(x) \/ Succeed(x) \/ Unauthorized(x) \/ Refreshed(x) \/ NotRefreshed(x)
  \/ LinkRequired(x) \/ Conflict(x) \/ Lose(x)
ServerStep(x) == ServerRejects(x) \/ ServerLinks(x) \/ ServerResolves(x) \/ ServerRecords(x)
UserStep ==
  \/ \E t \in Tasks : Start(t)
  \/ \E a \in Accounts : SignIn(a)
  \/ SignOut \/ SignedOut

Next ==
  \/ \E t \in Tasks : Settle(t)
  \/ /\ \A t \in Tasks : ~ Settling(t)
     /\ UserStep \/ (\E x \in Threads : ClientStep(x))
  \/ \E x \in Threads : ServerStep(x)
  \/ \E s \in 1 .. MaxSessions : Expire(s)

Spec == Init /\ [][Next]_vars

-----------------------------------------------------------------------------
ThreadType ==
  [pc : Steps, others : SUBSET Tasks, auth : BOOLEAN, link : BOOLEAN, rotated : BOOLEAN,
   token : Tokens, device : Devices \cup {NULL},
   net : {"none", "sent", "resolved", "answered"}, reply : Replies]

SessionType == [owner : Accounts, number : Nat, expired : Nat, revoked : BOOLEAN]

WebTypeOK ==
  /\ tokens \in Tokens /\ signingOut \in (1 .. MaxSessions) \cup {NULL}
  /\ deviceId \in Devices /\ drawn \in Devices
  /\ linkReady \in Tasks \cup {NULL}
  /\ op \in [Tasks -> {"auth", "answer", "progress", NULL}]
  /\ awaited \in [Tasks -> Tasks \cup {NULL}]
  /\ thread \in [Threads -> ThreadType]
  /\ cancelled \in [Tasks -> BOOLEAN]
  /\ sessions \in Seq(SessionType)
  /\ faults \in 0 .. MaxFaults
  /\ linkedTo \in [Devices -> Accounts \cup {NULL}] /\ primary \in [Accounts -> Devices \cup {NULL}]
  /\ row \in [Tasks -> Devices \cup {NULL}] /\ seen \in [Tasks -> Accounts \cup {NULL}]

(* A device id is given up for a new one only when it belongs to another    *)
(* account than the one whose link met the 409, however many calls find     *)
(* out at once that they need a link (deviceId.ts:19-23).                   *)
RotatedIdsAreForeign ==
  [][deviceId' # deviceId =>
       \E x \in Threads : /\ ~ thread[x].rotated /\ thread'[x].rotated
                          /\ linkedTo[deviceId] \notin {NULL, AccountOf(x)}]_vars

(* A link that a call of the present user sends merges the rows of this     *)
(* device only when no answer that was under way at the time is still on    *)
(* its way to the row that is emptied (api.ts:126-133, AuthMenu.tsx:28-29). *)
MergeMissesNothing ==
  [][\A t \in Tasks :
       LET x == Link(t)
           d == thread[x].device
       IN thread[x].net = "sent" /\ thread'[x].reply = "ok" /\ ~ cancelled[t] =>
            \A u \in thread[x].others :
              thread[Call(u)].pc = "fetch" /\ thread[Call(u)].net = "resolved" /\ row[u] = d
                => primary'[linkedTo'[d]] = d]_vars

(* The progress that is shown is of the user it is shown to, or of nobody   *)
(* else yet: tokens refreshed, cleared or replaced meanwhile do not put     *)
(* another account's record on the page (ExamProgress.tsx:25-28).           *)
ShownProgressIsOwn ==
  \A t \in Tasks :
    op[t] = "progress" /\ thread[Call(t)].pc = "ok" /\ ~ cancelled[t] /\ tokens # NULL
      => seen[t] \in {NULL, OwnerOf(tokens)}

(* When AuthMenu's link is done and its user is still there, this device is *)
(* linked to the user's account (api.ts:100-104), unless the link it took   *)
(* part in was another user's.                                              *)
EnsuredMeansLinked ==
  \A t \in Tasks :
    op[t] = "auth" /\ thread[Call(t)].pc = "ok" /\ ~ cancelled[t] /\ ~ cancelled[awaited[t]]
    => linkedTo[deviceId] = OwnerOf(tokens)

(* Calls that wait for answers, for the link and for what these wait for    *)
(* (waitForPendingSubmissions, ensureLinkReady) never wait in a circle: in  *)
(* any set of waiting threads one waits for none of the others.             *)
WaitsFor(x) ==
  CASE thread[x].pc = "wait" -> {Call(u) : u \in thread[x].others \cap inFlightSubmissions}
    [] thread[x].pc = "link" -> {Link(awaited[x[1]])}
    [] OTHER -> {}
NobodyWaitsInACircle ==
  \A S \in SUBSET Threads : S # {} => \E x \in S : WaitsFor(x) \cap S = {}
=============================================================================

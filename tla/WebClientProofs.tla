-------------------------- MODULE WebClientProofs --------------------------
(***************************************************************************)
(* What the web client promises, for any number of calls, people, device   *)
(* ids, sessions and faults.                                               *)
(***************************************************************************)
EXTENDS WebClient, TLAPS

(* A thread that has a request or a refresh under way.                      *)
Active(x) == thread[x].pc \in {"fetch", "refresh"}

(* Cognito knows the session of every token there is; what is sent has a    *)
(* device id.                                                               *)
Known(tk) == tk # NULL => tk.session \in 1 .. Len(sessions)
KnownInv ==
  /\ Len(sessions) <= MaxSessions
  /\ Known(tokens) /\ (signingOut # NULL => signingOut \in 1 .. Len(sessions))
  /\ \A x \in Threads :
       /\ Known(thread[x].token)
       /\ thread[x].pc = "refresh" => thread[x].token # NULL
       /\ thread[x].net # "none" \/ thread[x].reply # "none" => thread[x].device \in Devices
       /\ x[2] = "link" => thread[x].net # "resolved"

(* A call that was not made has no threads; AuthMenu's call sends nothing   *)
(* itself.                                                                  *)
StartedInv ==
  \A t \in Tasks :
    /\ op[t] = NULL =>
         /\ thread[Call(t)].pc = "none" /\ thread[Call(t)].net = "none"
         /\ thread[Link(t)].pc = "none"
    /\ op[t] = "auth" => ~ Active(Call(t))

(* One link at a time, for the device id there is, and everyone who waits   *)
(* waits for it.                                                            *)
LinkInv ==
  /\ \A t \in Tasks :
       /\ thread[Link(t)].pc \notin {"wait", "link"}
       /\ Active(Link(t)) => linkReady = t /\ thread[Link(t)].device = deviceId
       /\ thread[Call(t)].pc = "link" => linkReady # NULL /\ awaited[t] = linkReady
       /\ op[t] = "auth" /\ thread[Call(t)].pc = "ok" => awaited[t] # NULL
       /\ thread[Link(t)].reply = "ok" =>
            /\ thread[Link(t)].token # NULL
            /\ linkedTo[thread[Link(t)].device] = AccountOf(Link(t))
  /\ \A x \in Threads : thread[x].reply = "conflict" =>
       /\ x[2] = "link" /\ thread[x].token # NULL
       /\ linkedTo[thread[x].device] \notin {NULL, AccountOf(x)}
  /\ linkReady # NULL => WaitingFor(linkReady) # {}

WebInv == WebTypeOK /\ KnownInv /\ StartedInv /\ LinkInv

(* A call that was not cancelled and its link act for the present user.     *)
OwnInv ==
  \A t \in Tasks : op[t] # NULL /\ ~ cancelled[t] =>
    /\ op[t] = "auth" => tokens # NULL
    /\ Active(Call(t)) => AccountOf(Call(t)) = OwnerOf(tokens)
    /\ Active(Link(t)) => AccountOf(Link(t)) = OwnerOf(tokens)

(* The canonical row of an account is linked to it; a progress that has     *)
(* been answered was read from the row of the user it was asked for.        *)
ProgressInv ==
  /\ \A a \in Accounts : primary[a] # NULL => linkedTo[primary[a]] = a
  /\ \A t \in Tasks : op[t] = "progress" =>
       /\ thread[Call(t)].net # "resolved"
       /\ thread[Call(t)].pc = "ok" => thread[Call(t)].net = "none"
  /\ \A t \in Tasks : op[t] = "progress" /\ ~ cancelled[t] /\ tokens # NULL
                       /\ thread[Call(t)].pc \in {"fetch", "ok"}
                       /\ (thread[Call(t)].pc = "fetch" => thread[Call(t)].reply = "ok")
       => seen[t] \in {NULL, OwnerOf(tokens)}

(* When AuthMenu's call has its link the device is the user's, and whoever  *)
(* links it again does so for the same user.                                *)
Undisturbed(t) == op[t] = "auth" /\ ~ cancelled[t] /\ awaited[t] # NULL /\ ~ cancelled[awaited[t]]
EnsuredInv ==
  \A t \in Tasks : Undisturbed(t) =>
    /\ thread[Call(t)].pc = "link" /\ thread[Link(awaited[t])].pc = "ok"
         => linkedTo[deviceId] = OwnerOf(tokens)
    /\ thread[Call(t)].pc = "ok" =>
         /\ linkedTo[deviceId] = OwnerOf(tokens)
         /\ \A u \in Tasks : Active(Link(u)) => AccountOf(Link(u)) = OwnerOf(tokens)

-----------------------------------------------------------------------------
(* What the records of threads become.                                      *)
LEMMA ThreadFields ==
  /\ \A t \in Tasks : Call(t) \in Threads /\ Link(t) \in Threads
  /\ \A x \in Threads : x[1] \in Tasks /\ (x = Call(x[1]) \/ x = Link(x[1]))
  /\ \A t, u \in Tasks : Call(t) # Link(u) /\ (Call(t) = Call(u) => t = u) /\ (Link(t) = Link(u) => t = u)
  /\ \A t \in Tasks : /\ Call(t)[1] = t /\ Call(t)[2] = "call"
                      /\ Link(t)[1] = t /\ Link(t)[2] = "link"
BY DEF Call, Link, Threads

(* A thread that does nothing is a thread.                                  *)
LEMMA IdleType == Idle \in ThreadType
BY WebAssumption DEF Idle, ThreadType, Steps, Ended, Tokens, Replies, Devices

(* A request that was just sent carries what authedFetch read.              *)
LEMMA SentFields ==
  ASSUME WebTypeOK, NEW x \in Threads, NEW tk \in Tokens, NEW d \in Devices
  PROVE  /\ Sent(x, tk, d) \in ThreadType
         /\ Sent(x, tk, d).pc = "fetch" /\ Sent(x, tk, d).net = "sent" /\ Sent(x, tk, d).reply = "none"
         /\ Sent(x, tk, d).token = tk /\ Sent(x, tk, d).device = d
<1>1. thread[x] \in ThreadType
  BY DEF WebTypeOK
<1>2. inFlightSubmissions \in SUBSET Tasks
  BY DEF inFlightSubmissions
<1> QED
  BY <1>1, <1>2 DEF Sent, ThreadType, Steps, Replies

(* A call that waits for a link has nothing of its own on the way.          *)
LEMMA WaitingFields ==
  ASSUME WebTypeOK, NEW t \in Tasks
  PROVE  /\ Waiting(t) \in ThreadType
         /\ Waiting(t).pc = "link" /\ Waiting(t).net = "none" /\ Waiting(t).reply = "none"
         /\ Waiting(t).token = NULL /\ Waiting(t).device = NULL
<1>1. thread[Call(t)] \in ThreadType
  BY ThreadFields DEF WebTypeOK
<1> QED
  BY <1>1, IdleType DEF Waiting, Idle, ThreadType, Steps

(* Become(x, s) touches nothing but the thread.                             *)
LEMMA BecomeFields ==
  ASSUME WebTypeOK, NEW x \in Threads, NEW s \in Ended, Become(x, s)
  PROVE  /\ thread' \in [Threads -> ThreadType]
         /\ \A y \in Threads \ {x} : thread'[y] = thread[y]
         /\ thread'[x].pc = s
         /\ thread'[x].token \in {NULL, thread[x].token}
         /\ thread'[x].device \in {NULL, thread[x].device}
         /\ thread'[x].net \in {"none", thread[x].net}
         /\ thread'[x].reply \in {"none", thread[x].reply}
         /\ thread'[x].net # "none" => /\ thread'[x].device = thread[x].device
                                       /\ thread'[x].token = thread[x].token
         /\ s # "lost" => thread'[x].net = "none"
         /\ thread'[x].reply # "none" => /\ thread'[x].token = thread[x].token
                                         /\ thread'[x].device = thread[x].device
<1> USE DEF WebTypeOK
<1>1. thread[x] \in ThreadType /\ s \in Steps
  BY DEF Steps
<1>2. CASE s = "lost"
  <2>1. thread' = [thread EXCEPT ![x] = [@ EXCEPT !.pc = s]]
    BY <1>2 DEF Become
  <2> QED
    BY <1>1, <1>2, <2>1 DEF ThreadType
<1>3. CASE s # "lost"
  <2>1. thread' = [thread EXCEPT ![x] = [Idle EXCEPT !.pc = s]]
    BY <1>3 DEF Become
  <2>2. [Idle EXCEPT !.pc = s] \in ThreadType
    BY <1>1, IdleType DEF ThreadType
  <2> QED
    BY <1>1, <2>1, <2>2 DEF Idle
<1> QED
  BY <1>2, <1>3

(* Answering changes the network's part of a thread.                        *)
LEMMA ReplyFields ==
  ASSUME WebTypeOK, NEW x \in Threads, NEW r \in Replies, Reply(x, r)
  PROVE  /\ thread' \in [Threads -> ThreadType]
         /\ \A y \in Threads \ {x} : thread'[y] = thread[y]
         /\ thread'[x].pc = thread[x].pc /\ thread'[x].token = thread[x].token
         /\ thread'[x].device = thread[x].device /\ thread'[x].rotated = thread[x].rotated
         /\ thread'[x].net = "answered" /\ thread'[x].reply = r
<1>1. thread[x] \in ThreadType
  BY DEF WebTypeOK
<1> QED
  BY <1>1 DEF Reply, WebTypeOK, ThreadType

(* A call that needs the link waits for the one there is or starts it.      *)
LEMMA EnsureFields ==
  ASSUME WebTypeOK, NEW t \in Tasks, ensureLinkReady(t)
  PROVE  /\ thread' \in [Threads -> ThreadType]
         /\ awaited' \in [Tasks -> Tasks \cup {NULL}] /\ linkReady' \in Tasks
         /\ awaited'[t] = linkReady' /\ \A u \in Tasks \ {t} : awaited'[u] = awaited[u]
         /\ linkReady' = IF linkReady = NULL THEN t ELSE linkReady
         /\ thread'[Call(t)] = Waiting(t)
         /\ thread'[Link(t)] = IF linkReady = NULL THEN FirstLink(t) ELSE thread[Link(t)]
         /\ \A y \in Threads \ {Call(t), Link(t)} : thread'[y] = thread[y]
<1> USE ThreadFields DEF WebTypeOK
<1>1. FirstLink(t) \in ThreadType /\ Waiting(t) \in ThreadType
  BY SentFields, WaitingFields DEF FirstLink
<1>2. linkReady' \in Tasks
  BY DEF ensureLinkReady
<1> QED
  BY <1>1, <1>2 DEF ensureLinkReady

(* A change of the user cancels calls, whoever the users are.               *)
LEMMA CancelType ==
  ASSUME cancelled \in [Tasks -> BOOLEAN], NEW before, NEW after
  PROVE  Cancel(before, after) \in [Tasks -> BOOLEAN]
BY DEF Cancel

-----------------------------------------------------------------------------
(* Types.  Every step is a step of one thread, of the user or of Cognito.   *)
LEMMA WebInit == Init => WebInv
<1> SUFFICES ASSUME Init PROVE WebInv
  OBVIOUS
<1> USE WebAssumption, ThreadFields DEF Init
<1>1. WebTypeOK
  <2>1. linkedTo \in [Devices -> Accounts \cup {NULL}] /\ primary \in [Accounts -> Devices \cup {NULL}]
    OBVIOUS
  <2>2. tokens \in Tokens /\ deviceId \in Devices /\ drawn \in Devices
    BY DEF Tokens, Devices
  <2>3. sessions \in Seq(SessionType)
    OBVIOUS
  <2> QED
    BY <2>1, <2>2, <2>3, IdleType DEF WebTypeOK
<1>2. KnownInv
  BY DEF KnownInv, Known, Idle
<1>3. StartedInv
  BY DEF StartedInv, Active, Idle
<1>4. LinkInv
  BY DEF LinkInv, Active, Idle
<1> QED
  BY <1>1, <1>2, <1>3, <1>4 DEF WebInv

(* WebTypeOK without Cognito's sessions, whose tokens know their place.      *)
SessionsTyped == sessions \in Seq(SessionType)
RestTyped ==
  /\ tokens \in Tokens /\ signingOut \in (1 .. MaxSessions) \cup {NULL}
  /\ deviceId \in Devices /\ drawn \in Devices
  /\ linkReady \in Tasks \cup {NULL}
  /\ op \in [Tasks -> {"auth", "answer", "progress", NULL}]
  /\ awaited \in [Tasks -> Tasks \cup {NULL}]
  /\ thread \in [Threads -> ThreadType]
  /\ cancelled \in [Tasks -> BOOLEAN]
  /\ faults \in 0 .. MaxFaults
  /\ linkedTo \in [Devices -> Accounts \cup {NULL}] /\ primary \in [Accounts -> Devices \cup {NULL}]
  /\ row \in [Tasks -> Devices \cup {NULL}] /\ seen \in [Tasks -> Accounts \cup {NULL}]

(* WebTypeOK in two parts.                                                  *)
LEMMA TypeSplit == WebTypeOK <=> SessionsTyped /\ RestTyped
BY DEF WebTypeOK, SessionsTyped, RestTyped

(* Every step keeps the types.                                              *)
LEMMA TypeStep == WebTypeOK /\ KnownInv /\ [Next]_vars => WebTypeOK'
<1> SUFFICES ASSUME WebTypeOK, KnownInv, [Next]_vars PROVE SessionsTyped' /\ RestTyped'
  BY TypeSplit, PTL
<1>t. SessionsTyped /\ RestTyped
  BY TypeSplit
<1> USE <1>t DEF RestTyped, serverVars, taskVars
<1>n. NULL \in Tokens
  BY DEF Tokens
<1>x. \A x \in Threads : thread[x] \in ThreadType
  OBVIOUS
<1>s. UNCHANGED sessions => SessionsTyped'
  BY DEF SessionsTyped
<1>l. DOMAIN sessions = 1 .. Len(sessions) /\ \A s \in 1 .. Len(sessions) : sessions[s] \in SessionType
  BY DEF SessionsTyped
<1>a. \A x \in Threads : AccountOf(x) \in Accounts \cup {NULL} /\ (thread[x].token # NULL => AccountOf(x) \in Accounts)
  BY <1>l DEF AccountOf, OwnerOf, KnownInv, Known, SessionType
<1>1. ASSUME NEW t \in Tasks, Start(t) PROVE SessionsTyped' /\ RestTyped'
  <2>1. Sent(Call(t), tokens, deviceId) \in ThreadType
    BY SentFields, ThreadFields
  <2>2. thread[Call(t)] \in ThreadType
    BY ThreadFields
  <2>3. [thread[Call(t)] EXCEPT !.pc = "wait", !.others = Pending] \in ThreadType
    BY <2>2 DEF ThreadType, Steps, Pending, inFlightSubmissions
  <2>4. thread' \in [Threads -> ThreadType]
    BY <1>1, <2>1, <2>3 DEF Start
  <2>5. op' \in [Tasks -> {"auth", "answer", "progress", NULL}]
    BY <1>1, WebAssumption DEF Start
  <2> QED
    BY <1>1, <2>4, <2>5, <1>s DEF Start
<1>2. ASSUME NEW x \in Threads, AnswersSettled(x) PROVE SessionsTyped' /\ RestTyped'
  <2>1. CASE op[x[1]] = "auth" /\ x[2] = "call"
    BY <1>2, <2>1, <1>s, EnsureFields, ThreadFields DEF AnswersSettled
  <2>2. CASE ~ (op[x[1]] = "auth" /\ x[2] = "call")
    BY <1>2, <2>2, <1>s, SentFields DEF AnswersSettled
  <2> QED
    BY <2>1, <2>2
<1>3. ASSUME NEW x \in Threads, Succeed(x) PROVE SessionsTyped' /\ RestTyped'
  BY <1>3, <1>s, BecomeFields DEF Succeed, Ended
<1>4. ASSUME NEW x \in Threads, Unauthorized(x) PROVE SessionsTyped' /\ RestTyped'
  <2>1. CASE thread[x].auth /\ tokens # NULL
    <3>1. [thread[x] EXCEPT !.pc = "refresh", !.token = tokens] \in ThreadType
      BY <1>x DEF ThreadType, Steps
    <3>2. thread' = [thread EXCEPT ![x] = [thread[x] EXCEPT !.pc = "refresh", !.token = tokens]]
      BY <1>4, <2>1 DEF Unauthorized
    <3> QED
      BY <1>4, <1>s, <2>1, <3>1, <3>2 DEF Unauthorized
  <2>2. CASE ~ (thread[x].auth /\ tokens # NULL)
    BY <1>4, <2>2, <1>n, <1>s, CancelType, BecomeFields DEF Unauthorized, clearTokens, SetTokens, Ended
  <2> QED
    BY <2>1, <2>2
<1>5. ASSUME NEW x \in Threads, Refreshed(x) PROVE SessionsTyped' /\ RestTyped'
  <2> DEFINE s == thread[x].token.session
             new == [session |-> s, number |-> sessions[s].number + 1]
  <2>1. thread[x].token # NULL
    BY <1>5 DEF Refreshed, KnownInv
  <2>2. s \in 1 .. Len(sessions) /\ Len(sessions) <= MaxSessions /\ Len(sessions) \in Nat
    BY <2>1 DEF KnownInv, Known, SessionsTyped
  <2>3. sessions[s] \in SessionType
    BY <2>2, <1>l
  <2>4. new \in Tokens
    BY <2>2, <2>3, WebAssumption DEF Tokens, SessionType
  <2>5. [sessions[s] EXCEPT !.number = @ + 1] \in SessionType
    BY <2>3 DEF SessionType
  <2>6. sessions' = [sessions EXCEPT ![s] = [sessions[s] EXCEPT !.number = @ + 1]]
    BY <1>5 DEF Refreshed
  <2>0. Sent(x, new, deviceId) \in ThreadType
    BY <2>4, SentFields
  <2>7. [Sent(x, new, deviceId) EXCEPT !.auth = FALSE] \in ThreadType
    BY <2>0 DEF ThreadType
  <2>8. thread' = [thread EXCEPT ![x] = [Sent(x, new, deviceId) EXCEPT !.auth = FALSE]]
    BY <1>5 DEF Refreshed
  <2>9. tokens' = new /\ cancelled' \in [Tasks -> BOOLEAN]
    BY <1>5, CancelType DEF Refreshed, SetTokens
  <2> HIDE DEF new
  <2>10. SessionsTyped'
    <3> HIDE DEF s
    <3> QED
      BY <2>2, <2>5, <2>6 DEF SessionsTyped
  <2> QED
    BY <1>5, <2>4, <2>7, <2>8, <2>9, <2>10 DEF Refreshed
<1>6. ASSUME NEW x \in Threads, NotRefreshed(x) PROVE SessionsTyped' /\ RestTyped'
  <2>1. faults' \in 0 .. MaxFaults
    BY <1>6, WebAssumption DEF NotRefreshed, Fault
  <2> QED
    BY <1>6, <2>1, <1>n, <1>s, CancelType, BecomeFields DEF NotRefreshed, clearTokens, SetTokens, Ended
<1>7. ASSUME NEW x \in Threads, LinkRequired(x) PROVE SessionsTyped' /\ RestTyped'
  <2>1. CASE thread[x].link
    BY <1>7, <2>1, <1>s, EnsureFields, ThreadFields DEF LinkRequired
  <2>2. CASE ~ thread[x].link
    BY <1>7, <2>2, <1>s, BecomeFields DEF LinkRequired, Ended
  <2> QED
    BY <2>1, <2>2
<1>8. ASSUME NEW x \in Threads, Conflict(x) PROVE SessionsTyped' /\ RestTyped'
  <2>1. CASE thread[x].rotated
    BY <1>8, <2>1, <1>s, BecomeFields DEF Conflict, Ended
  <2>2. CASE ~ thread[x].rotated
    <3>1. drawn' \in Devices /\ deviceId' = drawn'
      BY <1>8, <2>2, WebAssumption DEF Conflict, Devices
    <3>0. Sent(x, tokens, drawn') \in ThreadType
      BY <3>1, SentFields
    <3>2. [Sent(x, tokens, drawn') EXCEPT !.rotated = TRUE, !.auth = TRUE, !.link = TRUE] \in ThreadType
      BY <3>0 DEF ThreadType
    <3>3. thread' \in [Threads -> ThreadType]
      BY <1>8, <2>2, <3>2 DEF Conflict
    <3> QED
      BY <1>8, <2>2, <1>s, <3>1, <3>3 DEF Conflict
  <2> QED
    BY <2>1, <2>2
<1>9. ASSUME NEW x \in Threads, Lose(x) PROVE SessionsTyped' /\ RestTyped'
  <2>1. faults' \in 0 .. MaxFaults
    BY <1>9, WebAssumption DEF Lose, Fault
  <2> QED
    BY <1>9, <2>1, <1>s, BecomeFields DEF Lose, Ended
<1>10. ASSUME NEW t \in Tasks, Settle(t) PROVE SessionsTyped' /\ RestTyped'
  <2>1. linkReady' \in Tasks \cup {NULL}
    BY <1>10 DEF Settle
  <2>2. ASSUME NEW x \in Threads PROVE
          /\ [thread[x] EXCEPT !.pc = LinkResult(t)] \in ThreadType
          /\ [Sent(x, tokens, deviceId) EXCEPT !.link = FALSE] \in ThreadType
    <3>1. Sent(x, tokens, deviceId) \in ThreadType
      BY SentFields
    <3> QED
      BY <1>x, <3>1 DEF ThreadType, LinkResult, Steps, Ended
  <2>3. thread' \in [Threads -> ThreadType]
    BY <1>10, <1>x, <2>2 DEF Settle
  <2> QED
    BY <1>10, <1>s, <2>1, <2>3 DEF Settle
<1>11. ASSUME NEW a \in Accounts, SignIn(a) PROVE SessionsTyped' /\ RestTyped'
  <2>1. SessionsTyped'
    BY <1>11 DEF SignIn, SessionType, SessionsTyped
  <2>2. tokens' \in Tokens
    <3>1. Len(sessions) \in Nat /\ Len(sessions) + 1 \in 1 .. MaxSessions
      BY <1>11, WebAssumption DEF SignIn, SessionsTyped
    <3> QED
      BY <1>11, <3>1 DEF SignIn, Tokens
  <2> QED
    BY <1>11, <2>1, <2>2, CancelType DEF SignIn
<1>12. CASE SignOut
  <2>1. signingOut' \in 1 .. MaxSessions
    BY <1>12 DEF SignOut, Tokens
  <2> QED
    BY <1>12, <2>1, <1>s DEF SignOut
<1>13. CASE SignedOut
  <2>1. signingOut \in 1 .. Len(sessions)
    BY <1>13 DEF SignedOut, KnownInv
  <2>2. [sessions[signingOut] EXCEPT !.revoked = TRUE] \in SessionType
    BY <2>1, <1>l DEF SessionType
  <2>3. SessionsTyped'
    <3>1. sessions' \in {[sessions EXCEPT ![signingOut] = [sessions[signingOut] EXCEPT !.revoked = TRUE]], sessions}
      BY <1>13 DEF SignedOut
    <3>2. [sessions EXCEPT ![signingOut] = [sessions[signingOut] EXCEPT !.revoked = TRUE]] \in Seq(SessionType)
      BY <2>1, <2>2 DEF SessionsTyped
    <3> QED
      BY <3>1, <3>2 DEF SessionsTyped
  <2>4. faults' \in 0 .. MaxFaults
    BY <1>13, WebAssumption DEF SignedOut, Fault
  <2> QED
    BY <1>13, <1>n, <2>3, <2>4, CancelType DEF SignedOut, clearTokens, SetTokens
<1>14. ASSUME NEW s \in 1 .. MaxSessions, Expire(s) PROVE SessionsTyped' /\ RestTyped'
  <2>1. s \in 1 .. Len(sessions)
    <3>1. PICK tk \in InUse : tk # NULL /\ tk.session = s
      BY <1>14 DEF Expire
    <3>2. Known(tk)
      BY <3>1 DEF InUse, KnownInv
    <3> QED
      BY <3>1, <3>2 DEF Known
  <2>2. [sessions[s] EXCEPT !.expired = sessions[s].number] \in SessionType
    BY <2>1, <1>l DEF SessionType
  <2>3. SessionsTyped'
    BY <1>14, <2>1, <2>2 DEF Expire, SessionsTyped
  <2>4. faults' \in 0 .. MaxFaults
    BY <1>14, WebAssumption DEF Expire, Fault
  <2> QED
    BY <1>14, <2>3, <2>4 DEF Expire
<1>15. ASSUME NEW x \in Threads, ServerRejects(x) PROVE SessionsTyped' /\ RestTyped'
  BY <1>15, <1>s, ReplyFields DEF ServerRejects, clientVars, Replies
<1>16. ASSUME NEW x \in Threads, ServerLinks(x) PROVE SessionsTyped' /\ RestTyped'
  <2>1. AccountOf(x) \in Accounts /\ thread[x].device \in Devices
    BY <1>16, <1>a DEF ServerLinks, Rejected, KnownInv
  <2>2. thread' \in [Threads -> ThreadType]
    BY <1>16, ReplyFields DEF ServerLinks, Replies
  <2>3. linkedTo' \in [Devices -> Accounts \cup {NULL}] /\ primary' \in [Accounts -> Devices \cup {NULL}]
    BY <1>16, <2>1 DEF ServerLinks
  <2> QED
    BY <1>16, <1>s, <2>2, <2>3 DEF ServerLinks, clientVars
<1>17. ASSUME NEW x \in Threads, ServerResolves(x) PROVE SessionsTyped' /\ RestTyped'
  <2>1. thread[x].device \in Devices /\ AccountOf(x) \in Accounts \cup {NULL}
    BY <1>17, <1>a DEF ServerResolves, KnownInv
  <2>2. ResolvedRow(x) \in Devices \cup {NULL}
    BY <2>1 DEF ResolvedRow
  <2>3. [thread[x] EXCEPT !.net = "resolved"] \in ThreadType
    BY <1>x DEF ThreadType
  <2>4. thread' = [thread EXCEPT ![x] = [thread[x] EXCEPT !.net = "resolved"]]
          \/ Reply(x, "linkRequired") \/ Reply(x, "ok")
    BY <1>17 DEF ServerResolves
  <2>5. thread' \in [Threads -> ThreadType]
    BY <2>3, <2>4, ReplyFields DEF Replies
  <2>6. row' \in [Tasks -> Devices \cup {NULL}] /\ seen' \in [Tasks -> Accounts \cup {NULL}]
    BY <1>17, <2>2 DEF ServerResolves
  <2> QED
    BY <1>17, <1>s, <2>5, <2>6 DEF ServerResolves, clientVars
<1>18. ASSUME NEW x \in Threads, ServerRecords(x) PROVE SessionsTyped' /\ RestTyped'
  BY <1>18, <1>s, ReplyFields DEF ServerRecords, clientVars, Replies
<1>19. CASE UNCHANGED vars
  BY <1>19, <1>s DEF vars
<1> QED
  BY <1>1, <1>2, <1>3, <1>4, <1>5, <1>6, <1>7, <1>8, <1>9, <1>10, <1>11, <1>12, <1>13, <1>14,
     <1>15, <1>16, <1>17, <1>18, <1>19 DEF Next, UserStep, ClientStep, ServerStep

(* Sessions are only added, and keep their owner.                           *)
LEMMA SessionsLast ==
  ASSUME WebTypeOK, KnownInv, [Next]_vars
  PROVE  /\ Len(sessions) \in Nat /\ Len(sessions') \in Nat
         /\ Len(sessions) <= Len(sessions') /\ Len(sessions') <= MaxSessions
         /\ \A s \in 1 .. Len(sessions) : sessions'[s].owner = sessions[s].owner
         /\ \A s \in 1 .. Len(sessions') : sessions'[s].owner \in Accounts
<1>1. sessions \in Seq(SessionType) /\ sessions' \in Seq(SessionType)
  BY TypeStep DEF WebTypeOK
<1>2. Len(sessions) \in Nat /\ Len(sessions') \in Nat
  BY <1>1
<1>3. Len(sessions) <= MaxSessions
  BY DEF KnownInv
<1>4. \A s \in 1 .. Len(sessions') : sessions'[s] \in SessionType
  BY <1>1
<1>5. CASE UNCHANGED sessions
  BY <1>1, <1>2, <1>3, <1>4, <1>5 DEF SessionType
<1>6. ASSUME NEW a \in Accounts, SignIn(a) PROVE
        /\ Len(sessions) <= Len(sessions') /\ Len(sessions') <= MaxSessions
        /\ \A s \in 1 .. Len(sessions) : sessions'[s].owner = sessions[s].owner
  <2>1. sessions' = Append(sessions, [owner |-> a, number |-> 1, expired |-> 0, revoked |-> FALSE])
          /\ Len(sessions) < MaxSessions
    BY <1>6 DEF SignIn
  <2> QED
    BY <2>1, <1>1, <1>2, WebAssumption
<1>7. ASSUME NEW s \in 1 .. Len(sessions), NEW new \in SessionType, new.owner = sessions[s].owner,
             sessions' = [sessions EXCEPT ![s] = new]
      PROVE  /\ Len(sessions) <= Len(sessions') /\ Len(sessions') <= MaxSessions
             /\ \A q \in 1 .. Len(sessions) : sessions'[q].owner = sessions[q].owner
  BY <1>1, <1>2, <1>3, <1>7
<1>8. \/ UNCHANGED sessions
      \/ \E a \in Accounts : SignIn(a)
      \/ \E s \in 1 .. Len(sessions) : \E new \in SessionType :
           new.owner = sessions[s].owner /\ sessions' = [sessions EXCEPT ![s] = new]
  <2>1. \A s \in 1 .. Len(sessions) : sessions[s] \in SessionType
    BY <1>1
  <2>2. ASSUME NEW x \in Threads, Refreshed(x)
        PROVE  \E s \in 1 .. Len(sessions) : \E new \in SessionType :
                 new.owner = sessions[s].owner /\ sessions' = [sessions EXCEPT ![s] = new]
    <3> DEFINE s == thread[x].token.session
               new == [sessions[s] EXCEPT !.number = @ + 1]
    <3>1. s \in 1 .. Len(sessions)
      BY <2>2 DEF Refreshed, KnownInv, Known
    <3>2. new \in SessionType /\ new.owner = sessions[s].owner
      BY <3>1, <2>1 DEF SessionType
    <3>3. sessions' = [sessions EXCEPT ![s] = new]
      BY <2>2 DEF Refreshed
    <3> HIDE DEF s, new
    <3> QED
      BY <3>1, <3>2, <3>3
  <2>3. ASSUME SignedOut, ~ UNCHANGED sessions
        PROVE  \E s \in 1 .. Len(sessions) : \E new \in SessionType :
                 new.owner = sessions[s].owner /\ sessions' = [sessions EXCEPT ![s] = new]
    <3> DEFINE new == [sessions[signingOut] EXCEPT !.revoked = TRUE]
    <3>1. signingOut \in 1 .. Len(sessions)
      BY <2>3 DEF SignedOut, KnownInv
    <3>2. new \in SessionType /\ new.owner = sessions[signingOut].owner
      BY <3>1, <2>1 DEF SessionType
    <3>3. sessions' = [sessions EXCEPT ![signingOut] = new]
      BY <2>3 DEF SignedOut
    <3> HIDE DEF new
    <3> QED
      BY <3>1, <3>2, <3>3
  <2>4. ASSUME NEW s \in 1 .. MaxSessions, Expire(s)
        PROVE  \E q \in 1 .. Len(sessions) : \E new \in SessionType :
                 new.owner = sessions[q].owner /\ sessions' = [sessions EXCEPT ![q] = new]
    <3> DEFINE new == [sessions[s] EXCEPT !.expired = sessions[s].number]
    <3>1. PICK tk \in InUse : tk # NULL /\ tk.session = s
      BY <2>4 DEF Expire
    <3>2. s \in 1 .. Len(sessions)
      BY <3>1 DEF InUse, KnownInv, Known
    <3>3. new \in SessionType /\ new.owner = sessions[s].owner
      BY <3>2, <2>1 DEF SessionType
    <3>4. sessions' = [sessions EXCEPT ![s] = new]
      BY <2>4 DEF Expire
    <3> HIDE DEF new
    <3> QED
      BY <3>2, <3>3, <3>4
  <2>5. CASE UserStep
    BY <2>3, <2>5 DEF UserStep, Start, SignOut
  <2>6. ASSUME NEW x \in Threads, ClientStep(x) PROVE Refreshed(x) \/ UNCHANGED sessions
    BY <2>6 DEF ClientStep, AnswersSettled, Succeed, Unauthorized, NotRefreshed, LinkRequired, Conflict, Lose
  <2>7. ASSUME NEW x \in Threads, ServerStep(x) PROVE UNCHANGED sessions
    BY <2>7 DEF ServerStep, ServerRejects, ServerLinks, ServerResolves, ServerRecords, clientVars
  <2>8. ASSUME NEW t \in Tasks, Settle(t) PROVE UNCHANGED sessions
    BY <2>8 DEF Settle
  <2>9. UNCHANGED vars => UNCHANGED sessions
    BY DEF vars
  <2> QED
    BY <2>2, <2>4, <2>5, <2>6, <2>7, <2>8, <2>9 DEF Next
<1>9. /\ Len(sessions) <= Len(sessions') /\ Len(sessions') <= MaxSessions
      /\ \A s \in 1 .. Len(sessions) : sessions'[s].owner = sessions[s].owner
  BY <1>5, <1>6, <1>7, <1>8
<1> QED
  BY <1>2, <1>4, <1>9 DEF SessionType

(* A token means the same person for ever; only no token means nobody.      *)
LEMMA OwnersLast ==
  ASSUME WebTypeOK, KnownInv, [Next]_vars, NEW tk \in Tokens, Known(tk)
  PROVE  /\ Known(tk)' /\ OwnerOf(tk)' = OwnerOf(tk)
         /\ OwnerOf(tk) \in Accounts \cup {NULL} /\ (OwnerOf(tk) = NULL <=> tk = NULL)
<1>1. CASE tk = NULL
  BY <1>1 DEF Known, OwnerOf
<1>2. CASE tk # NULL
  BY <1>2, SessionsLast, WebAssumption DEF Known, OwnerOf
<1> QED
  BY <1>1, <1>2

-----------------------------------------------------------------------------
(* Every step is one of these; what the proofs below have in common.        *)
LEMMA EveryStep ==
  ASSUME [Next]_vars
  PROVE  \/ \E t \in Tasks : Start(t) \/ Settle(t)
         \/ \E x \in Threads :
              \/ AnswersSettled(x) \/ Succeed(x) \/ Unauthorized(x) \/ Refreshed(x)
              \/ NotRefreshed(x) \/ LinkRequired(x) \/ Conflict(x) \/ Lose(x)
              \/ ServerRejects(x) \/ ServerLinks(x) \/ ServerResolves(x) \/ ServerRecords(x)
         \/ \E a \in Accounts : SignIn(a)
         \/ SignOut \/ SignedOut \/ \E s \in 1 .. MaxSessions : Expire(s)
         \/ UNCHANGED vars
BY DEF Next, UserStep, ClientStep, ServerStep

(* Tokens are the old ones, none, or of a session that Cognito knows.       *)
LEMMA TokensKnown ==
  ASSUME WebTypeOK, KnownInv, [Next]_vars
  PROVE  Known(tokens)'
<1>1. Len(sessions) \in Nat /\ Len(sessions') \in Nat /\ Len(sessions) <= Len(sessions')
  BY SessionsLast
<1>2. tokens # NULL => tokens.session \in 1 .. Len(sessions')
  BY <1>1 DEF KnownInv, Known
<1>3. UNCHANGED tokens \/ tokens' = NULL \/ (tokens' # NULL => tokens'.session \in 1 .. Len(sessions'))
  <2>1. ASSUME NEW x \in Threads, Refreshed(x) PROVE tokens'.session \in 1 .. Len(sessions')
    <3>1. thread[x].token.session \in 1 .. Len(sessions)
      BY <2>1 DEF KnownInv, Known, Refreshed
    <3>2. tokens'.session = thread[x].token.session
      BY <2>1 DEF Refreshed, SetTokens
    <3> QED
      BY <3>1, <3>2, <1>1
  <2>2. ASSUME NEW a \in Accounts, SignIn(a) PROVE tokens'.session \in 1 .. Len(sessions')
    <3>1. tokens'.session = Len(sessions) + 1
      BY <2>2 DEF SignIn
    <3>2. Len(sessions') = Len(sessions) + 1
      BY <2>2 DEF SignIn, WebTypeOK
    <3> QED
      BY <3>1, <3>2, <1>1
  <2> QED
    BY <2>1, <2>2, EveryStep DEF Start, Settle, AnswersSettled, Succeed, Unauthorized, NotRefreshed,
       LinkRequired, Conflict, Lose, ServerRejects, ServerLinks, ServerResolves, ServerRecords,
       SignOut, SignedOut, Expire, vars, clientVars, clearTokens, SetTokens
<1> QED
  BY <1>2, <1>3 DEF Known

(* What a step may do to a thread.                                          *)
Kept(x) == UNCHANGED thread[x]
SentAgain(x) ==
  /\ thread'[x].pc = "fetch" /\ thread'[x].net = "sent" /\ thread'[x].reply = "none"
  /\ thread'[x].token = tokens' /\ thread'[x].device = deviceId'
  /\ x[2] = "call" \/ Active(x) \/ thread[x].pc = "wait" \/ (ensureLinkReady(x[1]) /\ linkReady = NULL)
Told(x) ==
  /\ thread'[x].pc = thread[x].pc /\ thread'[x].token = thread[x].token
  /\ thread'[x].device = thread[x].device /\ thread[x].net # "none"
  /\ thread[x].net \in {"sent", "resolved"} /\ thread'[x].net \in {"answered", "resolved"}
  /\ thread'[x].net = "resolved" => x[2] = "call" /\ op[x[1]] = "answer" /\ ServerResolves(x)
  /\ thread'[x].net = "resolved" => thread'[x].reply = thread[x].reply
  /\ thread'[x].reply = "linkRequired" =>
       thread[x].reply = "linkRequired" \/ (ServerResolves(x) /\ ResolvedRow(x) = NULL)
  /\ thread'[x].rotated = thread[x].rotated
  /\ \/ thread'[x].reply \in {"unauthorized", "linkRequired"}
     \/ /\ x[2] = "call" /\ thread'[x].reply \in {"ok", thread[x].reply}
        /\ ServerResolves(x) \/ ServerRecords(x)
     \/ ServerLinks(x) /\ thread'[x].reply = IF linkedTo[thread[x].device] \in {NULL, AccountOf(x)}
                                            THEN "ok" ELSE "conflict"
Refreshes(x) ==
  /\ thread[x].pc = "fetch" /\ thread'[x].pc = "refresh"
  /\ tokens' = tokens /\ tokens # NULL /\ thread'[x].token = tokens /\ thread[x].net = "answered"
  /\ thread'[x].net = thread[x].net /\ thread'[x].device = thread[x].device
  /\ thread'[x].reply = thread[x].reply /\ thread'[x].reply = "unauthorized"
Stops(x) ==
  /\ thread'[x].pc \in Ended \cup {"wait", "link"}
  /\ thread'[x].token \in {NULL, thread[x].token} /\ thread'[x].device \in {NULL, thread[x].device}
  /\ thread'[x].net \in {"none", thread[x].net} /\ thread'[x].reply \in {"none", thread[x].reply}
  /\ thread'[x].net # "none" => thread'[x].device = thread[x].device
                                /\ thread'[x].token = thread[x].token
  /\ thread'[x].reply # "none" => thread'[x].token = thread[x].token
                                  /\ thread'[x].device = thread[x].device
  /\ thread'[x].pc = "ok" =>
       \/ Succeed(x) /\ thread'[x].net = "none"
       \/ /\ x[2] = "call" /\ op[x[1]] = "auth"
          /\ \E t \in Tasks : Settle(t) /\ x[1] \in WaitingFor(t) /\ LinkResult(t) = "ok"
  /\ thread'[x].pc = "link" =>
       \E t \in Tasks : /\ x = Call(t) /\ ensureLinkReady(t)
                        /\ op[t] = "auth" \/ \E y \in Threads : y[1] = t /\ LinkRequired(y)
  /\ thread'[x].pc = "wait" => \E t \in Tasks : x = Call(t) /\ Start(t)

(* A step leaves a thread alone or does one of these to it.                 *)
LEMMA ThreadSteps ==
  ASSUME WebTypeOK, KnownInv, [Next]_vars
  PROVE  \A x \in Threads : \/ Kept(x) \/ SentAgain(x) \/ (Told(x) /\ UNCHANGED <<tokens, deviceId, linkReady>>)
                            \/ Refreshes(x) \/ Stops(x)
<1> SUFFICES ASSUME NEW y \in Threads
             PROVE  \/ Kept(y) \/ SentAgain(y) \/ (Told(y) /\ UNCHANGED <<tokens, deviceId, linkReady>>)
                    \/ Refreshes(y) \/ Stops(y)
  OBVIOUS
<1>t. /\ thread \in [Threads -> ThreadType] /\ thread[y] \in ThreadType
      /\ tokens \in Tokens /\ deviceId \in Devices
  BY DEF WebTypeOK
<1> USE ThreadFields DEF Ended, Active
<1>1. ASSUME NEW t \in Tasks, Start(t) PROVE Kept(y) \/ SentAgain(y) \/ Stops(y)
  <2>1. CASE y # Call(t)
    BY <1>1, <2>1, <1>t DEF Start, Kept
  <2>2. CASE y = Call(t) /\ thread'[y] = Sent(y, tokens, deviceId)
    <3>1. UNCHANGED <<tokens, deviceId>>
      BY <1>1 DEF Start
    <3>2. SentAgain(y)
      BY <2>2, <3>1, <1>t, SentFields DEF SentAgain
    <3> QED
      BY <3>2
  <2>3. CASE y = Call(t) /\ thread'[y] = [thread[y] EXCEPT !.pc = "wait", !.others = Pending]
    BY <1>1, <2>3, <1>t DEF ThreadType, Stops
  <2>4. thread'[Call(t)] \in {Sent(Call(t), tokens, deviceId),
                             [thread[Call(t)] EXCEPT !.pc = "wait", !.others = Pending]}
    BY <1>1, <1>t DEF Start
  <2> QED
    BY <2>1, <2>2, <2>3, <2>4
<1>2. ASSUME NEW t \in Tasks, ensureLinkReady(t), UNCHANGED <<tokens, deviceId>>,
             op[t] = "auth" \/ \E z \in Threads : z[1] = t /\ LinkRequired(z)
      PROVE Kept(y) \/ SentAgain(y) \/ Stops(y)
  <2>1. CASE y # Call(t) /\ y # Link(t)
    BY <1>2, <2>1, EnsureFields DEF Kept
  <2>4. CASE y = Link(t) /\ linkReady # NULL
    BY <1>2, <2>4, EnsureFields DEF Kept
  <2>2. CASE y = Link(t) /\ linkReady = NULL
    BY <1>2, <2>2, <1>t, EnsureFields, SentFields DEF FirstLink, SentAgain
  <2>3. CASE y = Call(t)
    BY <1>2, <2>3, EnsureFields, WaitingFields DEF Stops
  <2> QED
    BY <2>1, <2>2, <2>3, <2>4
<1>3. ASSUME NEW x \in Threads, AnswersSettled(x) PROVE Kept(y) \/ SentAgain(y) \/ Stops(y)
  <2>1. CASE op[x[1]] = "auth" /\ x[2] = "call"
    BY <1>2, <1>3, <2>1 DEF AnswersSettled
  <2>2. CASE ~ (op[x[1]] = "auth" /\ x[2] = "call")
    BY <1>3, <2>2, <1>t, SentFields DEF AnswersSettled, Kept, SentAgain
  <2> QED
    BY <2>1, <2>2
<1>4. ASSUME NEW x \in Threads, NEW s \in Ended, Become(x, s), s # "ok" \/ Succeed(x) PROVE Kept(y) \/ Stops(y)
  BY <1>4, BecomeFields DEF Kept, Stops
<1>5. ASSUME NEW x \in Threads, Unauthorized(x) PROVE Kept(y) \/ Refreshes(y) \/ Stops(y)
  <2>1. CASE thread[x].auth /\ tokens # NULL
    <3>1. thread' = [thread EXCEPT ![x] = [thread[x] EXCEPT !.pc = "refresh", !.token = tokens]]
      BY <1>5, <2>1 DEF Unauthorized
    <3>2. CASE x # y
      BY <3>1, <3>2, <1>t DEF Kept
    <3>3. CASE x = y
      <4>1. thread'[y] = [thread[y] EXCEPT !.pc = "refresh", !.token = tokens]
        BY <3>1, <3>3, <1>t
      <4> QED
        BY <1>5, <2>1, <3>3, <4>1, <1>t DEF Unauthorized, Answered, Refreshes, ThreadType
    <3> QED
      BY <3>2, <3>3
  <2>2. CASE ~ (thread[x].auth /\ tokens # NULL)
    BY <1>4, <1>5, <2>2 DEF Unauthorized
  <2> QED
    BY <2>1, <2>2
<1>6. ASSUME NEW x \in Threads, Refreshed(x) PROVE Kept(y) \/ SentAgain(y)
  <2>1. tokens' \in Tokens /\ UNCHANGED deviceId
    BY <1>6, TypeStep DEF Refreshed, WebTypeOK
  <2>2. thread' = [thread EXCEPT ![x] = [Sent(x, tokens', deviceId) EXCEPT !.auth = FALSE]]
    BY <1>6 DEF Refreshed, SetTokens
  <2>3. CASE x # y
    BY <2>2, <2>3, <1>t DEF Kept
  <2>4. CASE x = y
    <3>1. Sent(y, tokens', deviceId) \in ThreadType /\ thread'[y] = [Sent(y, tokens', deviceId) EXCEPT !.auth = FALSE]
      BY <2>1, <2>2, <2>4, <1>t, SentFields
    <3>2. thread[y].pc = "refresh"
      BY <1>6, <2>4 DEF Refreshed
    <3> QED
      BY <2>1, <3>1, <3>2, <1>t, SentFields DEF SentAgain, ThreadType
  <2> QED
    BY <2>3, <2>4
<1>7. ASSUME NEW x \in Threads, Conflict(x) PROVE Kept(y) \/ SentAgain(y) \/ Stops(y)
  <2>1. CASE thread[x].rotated
    BY <1>4, <1>7, <2>1 DEF Conflict
  <2>2. CASE ~ thread[x].rotated
    <3>1. deviceId' = drawn' /\ drawn' \in Devices /\ UNCHANGED tokens
      BY <1>7, <2>2, TypeStep DEF Conflict, WebTypeOK
    <3>2. thread' = [thread EXCEPT ![x] = [Sent(x, tokens, drawn') EXCEPT
                                             !.rotated = TRUE, !.auth = TRUE, !.link = TRUE]]
      BY <1>7, <2>2 DEF Conflict
    <3>3. CASE x # y
      BY <3>2, <3>3, <1>t DEF Kept
    <3>4. CASE x = y
      <4>1. Sent(y, tokens, drawn') \in ThreadType
            /\ thread'[y] = [Sent(y, tokens, drawn') EXCEPT !.rotated = TRUE, !.auth = TRUE, !.link = TRUE]
        BY <3>1, <3>2, <3>4, <1>t, SentFields
      <4> QED
        BY <1>7, <3>1, <3>4, <4>1, <1>t, SentFields DEF SentAgain, ThreadType, Conflict, Answered
    <3> QED
      BY <3>3, <3>4
  <2> QED
    BY <2>1, <2>2
<1>8. ASSUME NEW x \in Threads, LinkRequired(x) PROVE Kept(y) \/ SentAgain(y) \/ Stops(y)
  BY <1>2, <1>4, <1>8 DEF LinkRequired
<1>9. ASSUME NEW t \in Tasks, Settle(t) PROVE Kept(y) \/ SentAgain(y) \/ Stops(y)
  <2>1. CASE y[2] = "link" \/ y[1] \notin WaitingFor(t)
    BY <1>9, <2>1 DEF Settle, Kept
  <2>2. CASE ~ (y[2] = "link" \/ y[1] \notin WaitingFor(t)) /\ op[y[1]] = "auth"
    <3>1. thread'[y] = [thread[y] EXCEPT !.pc = LinkResult(t)]
      BY <1>9, <2>2 DEF Settle
    <3>2. thread'[y].pc = LinkResult(t) /\ LinkResult(t) \in {"ok", "failed"}
      BY <3>1, <1>t DEF ThreadType, LinkResult
    <3>3. /\ thread'[y].net = thread[y].net /\ thread'[y].reply = thread[y].reply
          /\ thread'[y].token = thread[y].token /\ thread'[y].device = thread[y].device
      BY <3>1, <1>t DEF ThreadType
    <3>4. y[2] = "call" /\ y[1] \in WaitingFor(t)
      BY <2>2
    <3> QED
      BY <1>9, <2>2, <3>2, <3>3, <3>4 DEF Stops
  <2>3. CASE ~ (y[2] = "link" \/ y[1] \notin WaitingFor(t)) /\ op[y[1]] # "auth"
    <3>1. thread'[y] = [Sent(y, tokens, deviceId) EXCEPT !.link = FALSE] /\ UNCHANGED <<tokens, deviceId>>
      BY <1>9, <2>3 DEF Settle
    <3>2. Sent(y, tokens, deviceId) \in ThreadType
      BY <1>t, SentFields
    <3> QED
      BY <2>3, <3>1, <3>2, <1>t, SentFields DEF SentAgain, ThreadType
  <2> QED
    BY <2>1, <2>2, <2>3
<1>10. ASSUME NEW x \in Threads, thread[x].net \in {"sent", "resolved"}, UNCHANGED clientVars,
              \/ Reply(x, "unauthorized")
              \/ Reply(x, "linkRequired") /\ ServerResolves(x) /\ ResolvedRow(x) = NULL
              \/ x[2] = "call" /\ Reply(x, "ok") /\ (ServerResolves(x) \/ ServerRecords(x))
              \/ ServerLinks(x)
              \/ /\ x[2] = "call" /\ thread' = [thread EXCEPT ![x].net = "resolved"]
                 /\ ServerResolves(x) /\ op[x[1]] = "answer"
       PROVE  Kept(y) \/ (Told(y) /\ UNCHANGED <<tokens, deviceId, linkReady>>)
  <2>1. CASE Reply(x, "unauthorized")
    BY <1>10, <2>1, ReplyFields DEF Kept, Told, clientVars, Replies
  <2>5. CASE Reply(x, "linkRequired") /\ ServerResolves(x) /\ ResolvedRow(x) = NULL
    BY <1>10, <2>5, ReplyFields DEF Kept, Told, clientVars, Replies
  <2>3. CASE x[2] = "call" /\ Reply(x, "ok") /\ (ServerResolves(x) \/ ServerRecords(x))
    BY <1>10, <2>3, ReplyFields DEF Kept, Told, clientVars, Replies
  <2>4. CASE ServerLinks(x)
    <3>1. Reply(x, IF linkedTo[thread[x].device] \in {NULL, AccountOf(x)} THEN "ok" ELSE "conflict")
      BY <2>4 DEF ServerLinks
    <3> QED
      BY <1>10, <2>4, <3>1, ReplyFields DEF Kept, Told, clientVars, Replies
  <2>2. CASE /\ x[2] = "call" /\ thread' = [thread EXCEPT ![x].net = "resolved"]
             /\ ServerResolves(x) /\ op[x[1]] = "answer"
    <3>1. thread'[y] = IF x = y THEN [thread[y] EXCEPT !.net = "resolved"] ELSE thread[y]
      BY <2>2, <1>t
    <3> QED
      BY <1>10, <2>2, <3>1, <1>t DEF Kept, Told, clientVars, ThreadType
  <2> QED
    BY <1>10, <2>1, <2>2, <2>3, <2>4, <2>5
<1>11. ASSUME NEW x \in Threads, ServerStep(x)
       PROVE  Kept(y) \/ (Told(y) /\ UNCHANGED <<tokens, deviceId, linkReady>>)
  <2>1. thread[x].net \in {"sent", "resolved"} /\ UNCHANGED clientVars
    BY <1>11 DEF ServerStep, ServerRejects, ServerLinks, ServerResolves, ServerRecords
  <2>2. ServerRecords(x) => x[2] = "call"
    BY DEF ServerRecords, KnownInv
  <2>3. \/ Reply(x, "unauthorized")
        \/ Reply(x, "linkRequired") /\ ServerResolves(x) /\ ResolvedRow(x) = NULL
        \/ x[2] = "call" /\ Reply(x, "ok") /\ (ServerResolves(x) \/ ServerRecords(x))
        \/ ServerLinks(x)
        \/ /\ x[2] = "call" /\ thread' = [thread EXCEPT ![x].net = "resolved"]
           /\ ServerResolves(x) /\ op[x[1]] = "answer"
    BY <1>11, <2>2 DEF ServerStep, ServerRejects, ServerResolves, ServerRecords
  <2> QED
    BY <1>10, <2>1, <2>3
<1>12. UNCHANGED thread => Kept(y)
  BY DEF Kept
<1>13. ASSUME NEW x \in Threads, Succeed(x) \/ NotRefreshed(x) \/ Lose(x) PROVE Kept(y) \/ Stops(y)
  BY <1>4, <1>13 DEF Succeed, NotRefreshed, Lose
<1>14. ASSUME (\E a \in Accounts : SignIn(a)) \/ SignOut \/ SignedOut
              \/ (\E s \in 1 .. MaxSessions : Expire(s)) \/ UNCHANGED vars
       PROVE  Kept(y)
  BY <1>12, <1>14 DEF SignIn, SignOut, SignedOut, Expire, vars
<1> DEFINE Done == \/ Kept(y) \/ SentAgain(y) \/ (Told(y) /\ UNCHANGED <<tokens, deviceId, linkReady>>)
                  \/ Refreshes(y) \/ Stops(y)
<1>15. ASSUME NEW t \in Tasks, Start(t) \/ Settle(t) PROVE Done
  BY <1>1, <1>9, <1>15
<1>16. ASSUME NEW x \in Threads,
              \/ AnswersSettled(x) \/ Succeed(x) \/ Unauthorized(x) \/ Refreshed(x)
              \/ NotRefreshed(x) \/ LinkRequired(x) \/ Conflict(x) \/ Lose(x)
       PROVE  Done
  BY <1>3, <1>5, <1>6, <1>7, <1>8, <1>13, <1>16
<1>17. ASSUME NEW x \in Threads,
              ServerRejects(x) \/ ServerLinks(x) \/ ServerResolves(x) \/ ServerRecords(x)
       PROVE  Done
  BY <1>11, <1>17 DEF ServerStep
<1> HIDE DEF Done
<1>18. Done
  BY <1>14, <1>15, <1>16, <1>17, EveryStep DEF Done
<1> QED
  BY <1>18 DEF Done

(* Nobody gets a token that Cognito does not know.                          *)
LEMMA KnownStep == WebTypeOK /\ KnownInv /\ [Next]_vars => KnownInv'
<1> SUFFICES ASSUME WebTypeOK, KnownInv, [Next]_vars PROVE KnownInv'
  OBVIOUS
<1>1. /\ Len(sessions) \in Nat /\ Len(sessions') \in Nat
      /\ Len(sessions) <= Len(sessions') /\ Len(sessions') <= MaxSessions
  BY SessionsLast
<1>2. Known(tokens)' /\ Known(tokens)
  BY TokensKnown DEF KnownInv
<1>3. signingOut' # NULL => signingOut' \in 1 .. Len(sessions')
  <2>1. signingOut' \in {signingOut, NULL} \/ (SignOut /\ UNCHANGED sessions)
    BY EveryStep DEF Start, Settle, AnswersSettled, Succeed, Unauthorized, Refreshed, NotRefreshed,
       LinkRequired, Conflict, Lose, ServerRejects, ServerLinks, ServerResolves, ServerRecords,
       SignIn, SignOut, SignedOut, Expire, vars, clientVars
  <2>2. signingOut # NULL => signingOut \in 1 .. Len(sessions')
    BY <1>1 DEF KnownInv
  <2>3. SignOut /\ UNCHANGED sessions => signingOut' \in 1 .. Len(sessions')
    BY <1>2 DEF SignOut, Known
  <2> QED
    BY <2>1, <2>2, <2>3
<1>4. ASSUME NEW x \in Threads
      PROVE  /\ thread'[x].token # NULL => thread'[x].token.session \in 1 .. Len(sessions')
             /\ thread'[x].pc = "refresh" => thread'[x].token # NULL
             /\ thread'[x].net # "none" \/ thread'[x].reply # "none" => thread'[x].device \in Devices
             /\ x[2] = "link" => thread'[x].net # "resolved"
  <2>1. /\ Known(thread[x].token) /\ deviceId' \in Devices
        /\ thread[x].pc = "refresh" => thread[x].token # NULL
        /\ thread[x].net # "none" \/ thread[x].reply # "none" => thread[x].device \in Devices
        /\ x[2] = "link" => thread[x].net # "resolved"
    BY TypeStep DEF KnownInv, WebTypeOK
  <2>2. tokens' # NULL => tokens'.session \in 1 .. Len(sessions')
    BY <1>2 DEF Known
  <2>3. thread[x].token # NULL => thread[x].token.session \in 1 .. Len(sessions')
    BY <1>1, <2>1 DEF Known
  <2>4. CASE Kept(x)
    BY <2>1, <2>3, <2>4 DEF Kept
  <2>5. CASE SentAgain(x)
    BY <2>1, <2>2, <2>5 DEF SentAgain
  <2>6. CASE Told(x)
    BY <2>1, <2>3, <2>6 DEF Told
  <2>7. CASE Refreshes(x)
    BY <2>1, <2>2, <2>7 DEF Refreshes
  <2>8. CASE Stops(x)
    BY <2>1, <2>3, <2>8 DEF Stops, Ended
  <2> QED
    BY <2>4, <2>5, <2>6, <2>7, <2>8, ThreadSteps
<1> QED
  BY <1>1, <1>2, <1>3, <1>4 DEF KnownInv, Known

-----------------------------------------------------------------------------
(* Threads run only for calls that were made.                               *)
LEMMA StartedStep == WebInv /\ [Next]_vars => StartedInv'
<1> SUFFICES ASSUME WebInv, [Next]_vars, NEW u \in Tasks
             PROVE  /\ op'[u] = NULL => thread'[Call(u)].pc = "none" /\ thread'[Call(u)].net = "none" /\ thread'[Link(u)].pc = "none"
                    /\ op'[u] = "auth" => thread'[Call(u)].pc \notin {"fetch", "refresh"}
  BY DEF StartedInv, Active
<1>1. /\ op \in [Tasks -> {"auth", "answer", "progress", NULL}]
      /\ thread \in [Threads -> ThreadType] /\ thread' \in [Threads -> ThreadType]
      /\ tokens \in Tokens /\ deviceId \in Devices
  BY TypeStep DEF WebInv, WebTypeOK
<1>2. /\ op[u] = NULL => thread[Call(u)].pc = "none" /\ thread[Call(u)].net = "none" /\ thread[Link(u)].pc = "none"
      /\ op[u] = "auth" => thread[Call(u)].pc \notin {"fetch", "refresh"}
  BY DEF WebInv, StartedInv, Active
<1> DEFINE Goal == /\ op'[u] = NULL => thread'[Call(u)].pc = "none" /\ thread'[Call(u)].net = "none" /\ thread'[Link(u)].pc = "none"
                   /\ op'[u] = "auth" => thread'[Call(u)].pc \notin {"fetch", "refresh"}
<1>a. WebTypeOK
  BY DEF WebInv
<1> USE ThreadFields DEF Ended
<1>3. ASSUME NEW t \in Tasks, Start(t) PROVE Goal
  <2>1. CASE t # u
    BY <1>1, <1>2, <1>3, <2>1 DEF Start
  <2>2. CASE t = u
    <3>1. op'[u] \in {"auth", "answer", "progress"}
      <4>1. PICK o \in Operations : op' = [op EXCEPT ![u] = o]
        BY <1>3, <2>2 DEF Start
      <4> QED
        BY <1>1, <4>1, WebAssumption
    <3>2. op'[u] = "auth" => thread'[Call(u)] = [thread[Call(u)] EXCEPT !.pc = "wait", !.others = Pending]
      BY <1>1, <1>3, <2>2 DEF Start
    <3> QED
      <4>1. thread[Call(u)] \in ThreadType
        BY <1>1
      <4>2. op'[u] = "auth" => thread'[Call(u)].pc = "wait"
        BY <3>2, <4>1 DEF ThreadType
      <4>3. op'[u] # NULL
        BY <3>1, WebAssumption
      <4> QED
        BY <4>2, <4>3
  <2> QED
    BY <2>1, <2>2
<1>4. ASSUME NEW t \in Tasks, ensureLinkReady(t), UNCHANGED op,
             op[t] # NULL \/ thread[Call(t)].pc # "none" \/ thread[Link(t)].pc # "none"
      PROVE  Goal
  <2>1. CASE t # u
    BY <1>a, <1>1, <1>2, <1>4, <2>1, EnsureFields
  <2>2. CASE t = u
    BY <1>a, <1>1, <1>2, <1>4, <2>2, EnsureFields, WaitingFields
  <2> QED
    BY <2>1, <2>2
<1>5. ASSUME NEW x \in Threads, AnswersSettled(x) PROVE Goal
  <2>1. CASE op[x[1]] = "auth" /\ x[2] = "call"
    BY <1>4, <1>5, <2>1, WebAssumption DEF AnswersSettled
  <2>2. CASE ~ (op[x[1]] = "auth" /\ x[2] = "call")
    <3>1. thread[x].pc = "wait" /\ UNCHANGED op /\ \A y \in Threads \ {x} : thread'[y] = thread[y]
      BY <1>1, <1>5, <2>2 DEF AnswersSettled
    <3> QED
      BY <1>2, <2>2, <3>1
  <2> QED
    BY <2>1, <2>2
<1>6. ASSUME NEW x \in Threads, UNCHANGED op, thread[x].pc \in {"fetch", "refresh"},
             \A y \in Threads \ {x} : thread'[y] = thread[y]
      PROVE  Goal
  BY <1>2, <1>6
<1>7. ASSUME NEW x \in Threads, NEW s \in Ended, Become(x, s)
      PROVE  \A y \in Threads \ {x} : thread'[y] = thread[y]
  BY <1>a, <1>7, BecomeFields
<1>8. ASSUME NEW x \in Threads,
             \/ Succeed(x) \/ Unauthorized(x) \/ Refreshed(x) \/ NotRefreshed(x) \/ Conflict(x) \/ Lose(x)
             \/ (LinkRequired(x) /\ ~ thread[x].link)
      PROVE  Goal
  <2>1. UNCHANGED op /\ thread[x].pc \in {"fetch", "refresh"}
    BY <1>8 DEF Succeed, Unauthorized, Refreshed, NotRefreshed, Conflict, Lose, LinkRequired, Answered, taskVars
  <2>2. (\E s \in Ended : Become(x, s)) \/ (\A y \in Threads \ {x} : thread'[y] = thread[y])
    <3>1. Succeed(x) \/ NotRefreshed(x) \/ Lose(x) \/ (LinkRequired(x) /\ ~ thread[x].link)
            => \E s \in Ended : Become(x, s)
      BY DEF Succeed, NotRefreshed, Lose, LinkRequired
    <3>2. Unauthorized(x) => (\E s \in Ended : Become(x, s)) \/ (\A y \in Threads \ {x} : thread'[y] = thread[y])
      BY <1>1 DEF Unauthorized
    <3>3. Conflict(x) => (\E s \in Ended : Become(x, s)) \/ (\A y \in Threads \ {x} : thread'[y] = thread[y])
      BY <1>1 DEF Conflict
    <3>4. Refreshed(x) => \A y \in Threads \ {x} : thread'[y] = thread[y]
      BY <1>1 DEF Refreshed
    <3> QED
      BY <1>8, <3>1, <3>2, <3>3, <3>4
  <2> HIDE DEF Goal
  <2> QED
    BY <1>6, <1>7, <2>1, <2>2
<1>9. ASSUME NEW x \in Threads, LinkRequired(x), thread[x].link PROVE Goal
  <2>1. x[1] \in Tasks /\ ensureLinkReady(x[1]) /\ UNCHANGED op /\ thread[x].pc = "fetch"
    BY <1>9 DEF LinkRequired, Answered
  <2> HIDE DEF Goal
  <2> QED
    BY <1>4, <2>1
<1>10. ASSUME NEW t \in Tasks, Settle(t) PROVE Goal
  <2>1. UNCHANGED op /\ thread'[Link(u)] = thread[Link(u)]
    BY <1>10 DEF Settle, taskVars
  <2>2. CASE u \notin WaitingFor(t)
    BY <1>2, <1>10, <2>1, <2>2 DEF Settle
  <2>3. CASE u \in WaitingFor(t)
    <3>1. thread[Call(u)].pc = "link"
      BY <2>3 DEF WaitingFor
    <3>2. op[u] = "auth" => thread'[Call(u)] = [thread[Call(u)] EXCEPT !.pc = LinkResult(t)]
      BY <1>10, <2>3 DEF Settle
    <3> QED
      BY <1>1, <1>2, <2>1, <3>1, <3>2 DEF LinkResult, ThreadType
  <2> QED
    BY <2>2, <2>3
<1>11. ASSUME UNCHANGED op,
              \A x \in Threads : /\ thread'[x].pc = thread[x].pc
                                 /\ thread[x].net = "none" => thread'[x].net = "none"
       PROVE  Goal
  BY <1>2, <1>11
<1>12. ASSUME NEW x \in Threads, ServerStep(x) PROVE Goal
  <2>1. /\ UNCHANGED clientVars /\ thread[x].net # "none"
        /\ (\E r \in Replies : Reply(x, r)) \/ thread' = [thread EXCEPT ![x].net = "resolved"]
    BY <1>12 DEF ServerStep, ServerRejects, ServerLinks, ServerResolves, ServerRecords, Replies
  <2>2. \A y \in Threads : /\ thread'[y].pc = thread[y].pc
                           /\ thread[y].net = "none" => thread'[y].net = "none"
    <3>1. CASE \E r \in Replies : Reply(x, r)
      BY <1>a, <2>1, <3>1, ReplyFields
    <3>2. CASE thread' = [thread EXCEPT ![x].net = "resolved"]
      BY <1>1, <2>1, <3>2 DEF ThreadType
    <3> QED
      BY <2>1, <3>1, <3>2
  <2> QED
    BY <1>11, <2>1, <2>2 DEF clientVars, taskVars
<1>13. ASSUME (\E a \in Accounts : SignIn(a)) \/ SignOut \/ SignedOut
              \/ (\E s \in 1 .. MaxSessions : Expire(s)) \/ UNCHANGED vars
       PROVE  Goal
  <2>1. UNCHANGED <<op, thread>>
    BY <1>13 DEF SignIn, SignOut, SignedOut, Expire, vars, taskVars
  <2> QED
    BY <1>11, <2>1
<1>14. Goal
  <2> HIDE DEF Goal
  <2> QED
    BY <1>3, <1>5, <1>8, <1>9, <1>10, <1>12, <1>13, EveryStep DEF ServerStep
<1> QED
  BY <1>14

-----------------------------------------------------------------------------
(* A device is linked once and for ever.                                    *)
LEMMA LinkedLasts ==
  ASSUME WebTypeOK, [Next]_vars
  PROVE  \A d \in Devices : linkedTo[d] # NULL => linkedTo'[d] = linkedTo[d]
<1>1. ASSUME NEW x \in Threads, ServerLinks(x)
      PROVE  \A d \in Devices : linkedTo[d] # NULL => linkedTo'[d] = linkedTo[d]
  BY <1>1 DEF ServerLinks, WebTypeOK
<1>2. (\E x \in Threads : ServerLinks(x)) \/ UNCHANGED linkedTo
  BY EveryStep DEF Start, Settle, AnswersSettled, Succeed, Unauthorized, Refreshed, NotRefreshed,
     LinkRequired, Conflict, Lose, ServerRejects, ServerResolves, ServerRecords,
     SignIn, SignOut, SignedOut, Expire, vars, serverVars
<1> QED
  BY <1>1, <1>2

(* The answers to a link say whose the device is.                           *)
LEMMA AnswersStep ==
  ASSUME WebInv, [Next]_vars, NEW x \in Threads
  PROVE  /\ x[2] = "link" /\ thread'[x].reply = "ok" =>
              /\ thread'[x].token # NULL
              /\ linkedTo'[thread'[x].device] = AccountOf(x)'
         /\ thread'[x].reply = "conflict" =>
              /\ x[2] = "link" /\ thread'[x].token # NULL
              /\ linkedTo'[thread'[x].device] \notin {NULL, AccountOf(x)'}
<1>t. /\ WebTypeOK /\ KnownInv /\ NULL \notin Accounts
      /\ thread[x] \in ThreadType /\ linkedTo \in [Devices -> Accounts \cup {NULL}]
      /\ Known(thread[x].token)
  BY WebAssumption DEF WebInv, WebTypeOK, KnownInv
<1>1. /\ x[2] = "link" /\ thread[x].reply = "ok" =>
           /\ thread[x].token # NULL
           /\ linkedTo[thread[x].device] = AccountOf(x)
      /\ thread[x].reply = "conflict" =>
           /\ x[2] = "link" /\ thread[x].token # NULL
           /\ linkedTo[thread[x].device] \notin {NULL, AccountOf(x)}
  <2>1. x[2] = "link" => x = Link(x[1]) /\ x[1] \in Tasks
    BY ThreadFields
  <2> QED
    BY <2>1 DEF WebInv, LinkInv
<1>2. thread'[x].token = thread[x].token => AccountOf(x)' = AccountOf(x)
  <2>1. CASE thread[x].token = NULL
    BY <2>1 DEF AccountOf, OwnerOf
  <2>2. CASE thread[x].token # NULL
    <3>1. sessions'[thread[x].token.session].owner = sessions[thread[x].token.session].owner
      BY <1>t, <2>2, SessionsLast DEF Known
    <3> QED
      BY <2>2, <3>1 DEF AccountOf, OwnerOf
  <2> QED
    BY <2>1, <2>2
<1>3. thread[x].token # NULL => AccountOf(x) \in Accounts
  BY <1>t, SessionsLast DEF AccountOf, OwnerOf, Known
<1>4. \A d \in Devices : linkedTo[d] # NULL => linkedTo'[d] = linkedTo[d]
  BY <1>t, LinkedLasts
<1>5. thread[x].net # "none" \/ thread[x].reply # "none" => thread[x].device \in Devices
  BY DEF WebInv, KnownInv
<1>6. CASE Kept(x)
  BY <1>1, <1>2, <1>3, <1>4, <1>5, <1>t, <1>6 DEF Kept
<1>7. CASE SentAgain(x)
  BY <1>7 DEF SentAgain
<1>8. CASE Refreshes(x)
  BY <1>8 DEF Refreshes
<1>9. CASE Stops(x)
  BY <1>1, <1>2, <1>3, <1>4, <1>5, <1>t, <1>9 DEF Stops
<1>10. CASE Told(x)
  <2>1. CASE thread'[x].reply \in {"unauthorized", "linkRequired"}
    BY <2>1
  <2>2. CASE x[2] = "call" /\ thread'[x].reply \in {"ok", thread[x].reply}
    BY <1>1, <2>2
  <2>3. CASE ServerLinks(x) /\ thread'[x].reply = IF linkedTo[thread[x].device] \in {NULL, AccountOf(x)}
                                                THEN "ok" ELSE "conflict"
    <3>1. /\ thread[x].device \in Devices /\ thread[x].token # NULL /\ x[2] = "link"
          /\ thread'[x].token = thread[x].token /\ thread'[x].device = thread[x].device
      BY <1>5, <1>10, <2>3 DEF Told, ServerLinks, Rejected
    <3>2. linkedTo[thread[x].device] = NULL => linkedTo'[thread[x].device] = AccountOf(x)
      BY <1>t, <2>3, <3>1 DEF ServerLinks
    <3> QED
      BY <1>2, <1>3, <1>4, <1>t, <2>3, <3>1, <3>2
  <2> QED
    BY <1>10, <2>1, <2>2, <2>3 DEF Told
<1> QED
  BY <1>6, <1>7, <1>8, <1>9, <1>10, <1>t, ThreadSteps

(* LinkInv without the answers.                                             *)
OneLink ==
  /\ \A t \in Tasks :
       /\ thread[Link(t)].pc \notin {"wait", "link"}
       /\ thread[Link(t)].pc \in {"fetch", "refresh"} => linkReady = t /\ thread[Link(t)].device = deviceId
       /\ thread[Call(t)].pc = "link" => linkReady # NULL /\ awaited[t] = linkReady
       /\ op[t] = "auth" /\ thread[Call(t)].pc = "ok" => awaited[t] # NULL
  /\ linkReady # NULL => \E t \in Tasks : awaited[t] = linkReady /\ thread[Call(t)].pc = "link"

(* Every step keeps to one link for the present device id.                  *)
LEMMA OneLinkStep == WebInv /\ [Next]_vars => OneLink'
<1> SUFFICES ASSUME WebInv, [Next]_vars PROVE OneLink'
  OBVIOUS
<1>t. /\ WebTypeOK /\ KnownInv
      /\ op \in [Tasks -> {"auth", "answer", "progress", NULL}]
      /\ linkReady \in Tasks \cup {NULL} /\ awaited \in [Tasks -> Tasks \cup {NULL}]
      /\ thread \in [Threads -> ThreadType] /\ NULL \notin Tasks
  BY WebAssumption DEF WebInv, WebTypeOK
<1>l. OneLink
  BY DEF WebInv, LinkInv, OneLink, Active, WaitingFor
<1>a. \A t \in Tasks : op[t] = "auth" => thread[Call(t)].pc \notin {"fetch", "refresh"}
  BY DEF WebInv, StartedInv, Active
<1> USE ThreadFields DEF Ended
(* Steps that begin and settle no link.                                     *)
<1>o. ASSUME UNCHANGED <<linkReady, awaited>>,
             \A t \in Tasks :
               /\ thread'[Link(t)].pc \notin {"wait", "link"}
               /\ thread'[Link(t)].pc \in {"fetch", "refresh"} =>
                    thread[Link(t)].pc \in {"fetch", "refresh"} /\ thread'[Link(t)].device = deviceId'
               /\ (thread'[Call(t)].pc = "link") <=> (thread[Call(t)].pc = "link")
               /\ op'[t] = "auth" /\ thread'[Call(t)].pc = "ok" => op[t] = "auth" /\ thread[Call(t)].pc = "ok"
      PROVE  OneLink'
  BY <1>l, <1>o DEF OneLink
(* Steps of one thread that has a request under way.                        *)
<1>x. ASSUME NEW x \in Threads, UNCHANGED <<linkReady, awaited, op>>,
             thread[x].pc \in {"fetch", "refresh"},
             thread'[x].pc \in {"fetch", "refresh"} \cup Ended,
             \A y \in Threads \ {x} : thread'[y] = thread[y],
             UNCHANGED deviceId \/ (x[2] = "link" /\ SentAgain(x))
      PROVE  OneLink'
  <2>1. x[2] = "link" /\ thread'[x].pc \in {"fetch", "refresh"} => thread'[x].device = deviceId'
    <3>1. x[2] = "link" => x = Link(x[1]) /\ x[1] \in Tasks
      OBVIOUS
    <3>2. x[2] = "link" => thread[x].device = deviceId
      BY <1>l, <1>x, <3>1 DEF OneLink
    <3> QED
      BY <1>t, <1>x, <3>2, ThreadSteps DEF Kept, SentAgain, Told, Refreshes, Stops
  <2>2. x[2] = "link" /\ ~ UNCHANGED deviceId => \A t \in Tasks : Link(t) # x => thread[Link(t)].pc \notin {"fetch", "refresh"}
    BY <1>l, <1>x DEF OneLink
  <2>3. ASSUME NEW t \in Tasks
        PROVE  /\ thread'[Link(t)].pc \notin {"wait", "link"}
               /\ thread'[Link(t)].pc \in {"fetch", "refresh"} =>
                    thread[Link(t)].pc \in {"fetch", "refresh"} /\ thread'[Link(t)].device = deviceId'
               /\ (thread'[Call(t)].pc = "link") <=> (thread[Call(t)].pc = "link")
               /\ op'[t] = "auth" /\ thread'[Call(t)].pc = "ok" => op[t] = "auth" /\ thread[Call(t)].pc = "ok"
    <3>1. CASE x = Link(t)
      BY <1>x, <2>1, <3>1
    <3>2. CASE x = Call(t)
      <4>1. thread'[Link(t)] = thread[Link(t)] /\ UNCHANGED deviceId
        BY <1>x, <3>2
      <4>2. op[t] # "auth"
        BY <1>a, <1>x, <3>2
      <4> QED
        BY <1>l, <1>x, <3>2, <4>1, <4>2 DEF OneLink
    <3>3. CASE x # Link(t) /\ x # Call(t)
      <4>1. thread'[Link(t)] = thread[Link(t)] /\ thread'[Call(t)] = thread[Call(t)]
        BY <1>x, <3>3
      <4> QED
        BY <1>l, <1>x, <2>2, <3>3, <4>1 DEF OneLink
    <3> QED
      BY <3>1, <3>2, <3>3
  <2> QED
    BY <1>o, <1>x, <2>3
<1>b. ASSUME NEW x \in Threads, NEW s \in Ended, Become(x, s), UNCHANGED <<linkReady, awaited, op, deviceId>>,
             thread[x].pc \in {"fetch", "refresh"}
      PROVE  OneLink'
  BY <1>b, <1>t, <1>x, BecomeFields
<1>e. ASSUME NEW t \in Tasks, ensureLinkReady(t), UNCHANGED <<op, deviceId, tokens>> PROVE OneLink'
  <2>1. /\ linkReady' = (IF linkReady = NULL THEN t ELSE linkReady)
        /\ awaited'[t] = linkReady' /\ \A u \in Tasks \ {t} : awaited'[u] = awaited[u]
        /\ thread'[Call(t)] = Waiting(t)
        /\ thread'[Link(t)] = IF linkReady = NULL THEN FirstLink(t) ELSE thread[Link(t)]
        /\ \A y \in Threads \ {Call(t), Link(t)} : thread'[y] = thread[y]
    BY <1>e, <1>t, EnsureFields
  <2>2. thread'[Call(t)].pc = "link"
    BY <1>t, <2>1, WaitingFields
  <2>3. FirstLink(t).pc = "fetch" /\ FirstLink(t).device = deviceId
    BY <1>t, SentFields DEF FirstLink, WebTypeOK
  <2>4. ASSUME NEW u \in Tasks
        PROVE  /\ thread'[Link(u)].pc \notin {"wait", "link"}
               /\ thread'[Link(u)].pc \in {"fetch", "refresh"} => linkReady' = u /\ thread'[Link(u)].device = deviceId'
               /\ thread'[Call(u)].pc = "link" => linkReady' # NULL /\ awaited'[u] = linkReady'
               /\ op'[u] = "auth" /\ thread'[Call(u)].pc = "ok" => awaited'[u] # NULL
    <3>1. CASE u = t
      BY <1>l, <1>t, <1>e, <2>1, <2>2, <2>3, <3>1 DEF OneLink
    <3>2. CASE u # t
      <4>1. thread'[Link(u)] = thread[Link(u)] /\ thread'[Call(u)] = thread[Call(u)] /\ awaited'[u] = awaited[u]
        BY <2>1, <3>2
      <4> QED
        BY <1>l, <1>t, <1>e, <2>1, <4>1 DEF OneLink
    <3> QED
      BY <3>1, <3>2
  <2> QED
    BY <2>1, <2>2, <2>4 DEF OneLink
<1>1. ASSUME NEW t \in Tasks, Start(t) PROVE OneLink'
  <2>1. UNCHANGED <<linkReady, awaited, deviceId>> /\ \A y \in Threads \ {Call(t)} : thread'[y] = thread[y]
    BY <1>1, <1>t DEF Start
  <2>2. thread'[Call(t)].pc \in {"wait", "fetch"}
    <3>1. thread'[Call(t)] \in {Sent(Call(t), tokens, deviceId),
                              [thread[Call(t)] EXCEPT !.pc = "wait", !.others = Pending]}
      BY <1>1, <1>t DEF Start
    <3>2. thread[Call(t)] \in ThreadType
      BY <1>t
    <3>3. Sent(Call(t), tokens, deviceId).pc = "fetch"
      BY <1>t, SentFields DEF WebTypeOK
    <3>4. [thread[Call(t)] EXCEPT !.pc = "wait", !.others = Pending].pc = "wait"
      BY <3>2 DEF ThreadType
    <3> QED
      BY <3>1, <3>3, <3>4
  <2>3. thread[Call(t)].pc = "none" /\ \A u \in Tasks \ {t} : op'[u] = op[u]
    BY <1>1, <1>t DEF Start, WebInv, StartedInv
  <2> QED
    BY <1>o, <1>l, <2>1, <2>2, <2>3 DEF OneLink
<1>2. ASSUME NEW x \in Threads, AnswersSettled(x) PROVE OneLink'
  <2>1. CASE op[x[1]] = "auth" /\ x[2] = "call"
    BY <1>2, <1>e, <2>1 DEF AnswersSettled
  <2>2. CASE ~ (op[x[1]] = "auth" /\ x[2] = "call")
    <3>1. /\ thread[x].pc = "wait" /\ UNCHANGED <<op, deviceId, linkReady, awaited>>
          /\ \A y \in Threads \ {x} : thread'[y] = thread[y]
          /\ thread'[x] = Sent(x, tokens, deviceId)
      BY <1>2, <1>t, <2>2 DEF AnswersSettled
    <3>2. thread'[x].pc = "fetch"
      BY <3>1, <1>t, SentFields DEF WebTypeOK
    <3>3. x[2] = "call" /\ x = Call(x[1]) /\ x[1] \in Tasks
      BY <3>1, <1>l DEF OneLink
    <3> QED
      BY <1>o, <1>l, <3>1, <3>2, <3>3 DEF OneLink
  <2> QED
    BY <2>1, <2>2
<1>3. ASSUME NEW x \in Threads, Succeed(x) \/ NotRefreshed(x) \/ Lose(x) PROVE OneLink'
  <2>1. /\ \E s \in Ended : Become(x, s)
        /\ UNCHANGED <<linkReady, awaited, op, deviceId>> /\ thread[x].pc \in {"fetch", "refresh"}
    BY <1>3 DEF Succeed, NotRefreshed, Lose, Answered, taskVars
  <2> QED
    BY <1>b, <2>1
<1>4. ASSUME NEW x \in Threads, Unauthorized(x) PROVE OneLink'
  <2>1. UNCHANGED <<linkReady, awaited, op, deviceId>> /\ thread[x].pc = "fetch" /\ thread[x] \in ThreadType
    BY <1>4, <1>t DEF Unauthorized, Answered, taskVars
  <2>2. CASE Become(x, "failed")
    BY <1>b, <2>1, <2>2
  <2>3. CASE thread' = [thread EXCEPT ![x] = [thread[x] EXCEPT !.pc = "refresh", !.token = tokens]]
    <3>1. thread'[x].pc = "refresh"
      BY <1>t, <2>1, <2>3 DEF ThreadType
    <3> QED
      BY <1>x, <1>t, <2>1, <2>3, <3>1
  <2> QED
    BY <1>4, <2>2, <2>3 DEF Unauthorized
<1>5. ASSUME NEW x \in Threads, Refreshed(x) PROVE OneLink'
  <2>1. /\ UNCHANGED <<linkReady, awaited, op, deviceId>> /\ thread[x].pc = "refresh"
        /\ thread' = [thread EXCEPT ![x] = [Sent(x, tokens', deviceId) EXCEPT !.auth = FALSE]]
    BY <1>5 DEF Refreshed, SetTokens, taskVars
  <2>2. Sent(x, tokens', deviceId) \in ThreadType /\ Sent(x, tokens', deviceId).pc = "fetch"
    BY <1>t, TypeStep, SentFields DEF WebTypeOK
  <2>3. thread'[x].pc = "fetch"
    BY <1>t, <2>1, <2>2 DEF ThreadType
  <2> QED
    BY <1>x, <1>t, <2>1, <2>3
<1>6. ASSUME NEW x \in Threads, LinkRequired(x) PROVE OneLink'
  <2>1. thread[x].pc = "fetch" /\ UNCHANGED <<op, deviceId, tokens>>
    BY <1>6 DEF LinkRequired, Answered
  <2>2. CASE thread[x].link
    BY <1>6, <1>e, <2>1, <2>2 DEF LinkRequired
  <2>3. CASE ~ thread[x].link
    BY <1>6, <1>b, <2>1, <2>3 DEF LinkRequired
  <2> QED
    BY <2>2, <2>3
<1>7. ASSUME NEW x \in Threads, Conflict(x) PROVE OneLink'
  <2>1. UNCHANGED <<linkReady, awaited, op, tokens>> /\ thread[x].pc = "fetch" /\ thread[x].reply = "conflict"
    BY <1>7 DEF Conflict, Answered, taskVars
  <2>2. x[2] = "link"
    BY <2>1 DEF WebInv, LinkInv
  <2>3. CASE thread[x].rotated
    BY <1>7, <1>b, <2>1, <2>3 DEF Conflict
  <2>4. CASE ~ thread[x].rotated
    <3>1. /\ drawn' \in Devices /\ deviceId' = drawn' /\ tokens \in Tokens
          /\ thread' = [thread EXCEPT ![x] = [Sent(x, tokens, drawn') EXCEPT
                                                !.rotated = TRUE, !.auth = TRUE, !.link = TRUE]]
      BY <1>7, <1>t, <2>4, TypeStep DEF Conflict, WebTypeOK
    <3>2. /\ Sent(x, tokens, drawn') \in ThreadType
          /\ Sent(x, tokens, drawn').pc = "fetch" /\ Sent(x, tokens, drawn').net = "sent"
          /\ Sent(x, tokens, drawn').reply = "none" /\ Sent(x, tokens, drawn').token = tokens
          /\ Sent(x, tokens, drawn').device = drawn'
      BY <1>t, <3>1, SentFields
    <3>3. thread'[x] = [Sent(x, tokens, drawn') EXCEPT !.rotated = TRUE, !.auth = TRUE, !.link = TRUE]
          /\ \A y \in Threads \ {x} : thread'[y] = thread[y]
      BY <1>t, <3>1
    <3>4. SentAgain(x) /\ thread'[x].pc = "fetch"
      <4> DEFINE sent == Sent(x, tokens, drawn')
                 again == [sent EXCEPT !.rotated = TRUE, !.auth = TRUE, !.link = TRUE]
      <4>1. /\ sent \in ThreadType /\ sent.pc = "fetch" /\ sent.net = "sent" /\ sent.reply = "none"
            /\ sent.token = tokens /\ sent.device = drawn' /\ thread'[x] = again
        BY <3>2, <3>3
      <4> HIDE DEF sent
      <4>2. /\ again.pc = sent.pc /\ again.net = sent.net /\ again.reply = sent.reply
            /\ again.token = sent.token /\ again.device = sent.device
        BY <4>1 DEF ThreadType
      <4> HIDE DEF again
      <4> QED
        BY <2>1, <3>1, <4>1, <4>2 DEF SentAgain, Active
    <3> QED
      BY <1>x, <2>1, <2>2, <3>3, <3>4
  <2> QED
    BY <2>3, <2>4
<1>8. ASSUME NEW t \in Tasks, Settle(t) PROVE OneLink'
  <2>1. \E u \in Tasks : awaited[u] = t /\ thread[Call(u)].pc = "link"
    BY <1>8 DEF Settle, Settling, WaitingFor
  <2>2. linkReady = t /\ linkReady' = NULL /\ UNCHANGED <<awaited, op, deviceId>>
    BY <1>8, <1>l, <2>1 DEF Settle, OneLink, taskVars
  <2>3. \A u \in Tasks : thread'[Link(u)] = thread[Link(u)]
    BY <1>8 DEF Settle
  <2>4. \A u \in Tasks : thread[Link(u)].pc \notin {"fetch", "refresh"}
    BY <1>8, <1>l, <2>2 DEF Settle, Settling, OneLink
  <2>5. ASSUME NEW u \in Tasks
        PROVE  /\ thread'[Call(u)].pc # "link"
               /\ op'[u] = "auth" /\ thread'[Call(u)].pc = "ok" => awaited'[u] # NULL
    <3>1. CASE u \notin WaitingFor(t)
      <4>1. thread'[Call(u)] = thread[Call(u)] /\ thread[Call(u)].pc # "link"
        BY <1>8, <1>l, <2>2, <3>1 DEF Settle, WaitingFor, OneLink
      <4> QED
        BY <1>l, <2>2, <4>1 DEF OneLink
    <3>2. CASE u \in WaitingFor(t)
      <4>1. awaited[u] = t
        BY <3>2 DEF WaitingFor
      <4>2. CASE op[u] = "auth"
        <5>1. thread'[Call(u)] = [thread[Call(u)] EXCEPT !.pc = LinkResult(t)]
          BY <1>8, <3>2, <4>2 DEF Settle
        <5>2. thread[Call(u)] \in ThreadType
          BY <1>t
        <5>3. thread'[Call(u)].pc = LinkResult(t)
          BY <5>1, <5>2 DEF ThreadType
        <5> QED
          BY <1>t, <2>2, <4>1, <5>3 DEF LinkResult
      <4>3. CASE op[u] # "auth"
        <5>1. thread'[Call(u)] = [Sent(Call(u), tokens, deviceId) EXCEPT !.link = FALSE]
          BY <1>8, <3>2, <4>3 DEF Settle
        <5>2. Sent(Call(u), tokens, deviceId) \in ThreadType /\ Sent(Call(u), tokens, deviceId).pc = "fetch"
          BY <1>t, SentFields DEF WebTypeOK
        <5>3. thread'[Call(u)].pc = "fetch"
          BY <5>1, <5>2 DEF ThreadType
        <5> QED
          BY <2>2, <4>3, <5>3
      <4> QED
        BY <4>2, <4>3
    <3> QED
      BY <3>1, <3>2
  <2> QED
    BY <1>l, <2>2, <2>3, <2>4, <2>5 DEF OneLink
<1>9. ASSUME UNCHANGED <<linkReady, awaited, op, deviceId>>,
             \A x \in Threads : thread'[x].pc = thread[x].pc /\ thread'[x].device = thread[x].device
      PROVE  OneLink'
  BY <1>o, <1>l, <1>9 DEF OneLink
<1>10. ASSUME NEW x \in Threads, ServerStep(x) PROVE OneLink'
  <2>1. UNCHANGED clientVars /\ ((\E r \in Replies : Reply(x, r)) \/ thread' = [thread EXCEPT ![x].net = "resolved"])
    BY <1>10 DEF ServerStep, ServerRejects, ServerLinks, ServerResolves, ServerRecords, Replies
  <2>2. \A y \in Threads : thread'[y].pc = thread[y].pc /\ thread'[y].device = thread[y].device
    <3>1. CASE \E r \in Replies : Reply(x, r)
      BY <1>t, <3>1, ReplyFields
    <3>2. CASE thread' = [thread EXCEPT ![x].net = "resolved"]
      BY <1>t, <3>2 DEF ThreadType
    <3> QED
      BY <2>1, <3>1, <3>2
  <2> QED
    BY <1>9, <2>1, <2>2 DEF clientVars, taskVars
<1>11. ASSUME (\E a \in Accounts : SignIn(a)) \/ SignOut \/ SignedOut
              \/ (\E s \in 1 .. MaxSessions : Expire(s)) \/ UNCHANGED vars
       PROVE  OneLink'
  <2>1. UNCHANGED <<linkReady, awaited, op, deviceId, thread>>
    BY <1>11 DEF SignIn, SignOut, SignedOut, Expire, vars, taskVars
  <2> QED
    BY <1>9, <2>1
<1> QED
  BY <1>1, <1>2, <1>3, <1>4, <1>5, <1>6, <1>7, <1>8, <1>10, <1>11, EveryStep DEF ServerStep

(* WebInv is inductive.                                                     *)
LEMMA WebStep == WebInv /\ [Next]_vars => WebInv'
<1> SUFFICES ASSUME WebInv, [Next]_vars PROVE WebInv'
  OBVIOUS
<1>1. WebTypeOK' /\ KnownInv' /\ StartedInv'
  BY TypeStep, KnownStep, StartedStep DEF WebInv
<1>2. OneLink'
  BY OneLinkStep
<1>3. \A x \in Threads :
        /\ x[2] = "link" /\ thread'[x].reply = "ok" =>
             /\ thread'[x].token # NULL
             /\ linkedTo'[thread'[x].device] = AccountOf(x)'
        /\ thread'[x].reply = "conflict" =>
             /\ x[2] = "link" /\ thread'[x].token # NULL
             /\ linkedTo'[thread'[x].device] \notin {NULL, AccountOf(x)'}
  BY AnswersStep
<1>4. LinkInv'
  BY <1>2, <1>3, ThreadFields DEF LinkInv, OneLink, Active, WaitingFor, AccountOf, OwnerOf
<1> QED
  BY <1>1, <1>4 DEF WebInv

-----------------------------------------------------------------------------
(* WebInv is an invariant.                                                  *)
LEMMA WebInvariant == Spec => []WebInv
BY WebInit, WebStep, PTL DEF Spec

\* WebTypeOK: tokens, threads, sessions and the server's rows keep their types.
THEOREM WebTypeCorrect == Spec => []WebTypeOK
<1>1. WebInv => WebTypeOK
  BY DEF WebInv
<1> QED
  BY WebInvariant, <1>1, PTL

(* The device id is changed by a link that met a 409 for it.                *)
LEMMA RotationStep ==
  ASSUME WebInv, [Next]_vars, deviceId' # deviceId
  PROVE  \E x \in Threads : /\ Conflict(x) /\ ~ thread[x].rotated /\ thread'[x].rotated
                            /\ linkedTo[deviceId] \notin {NULL, AccountOf(x)} /\ x[2] = "link"
                            /\ thread[x].pc = "fetch"
<1>t. WebTypeOK /\ thread \in [Threads -> ThreadType] /\ tokens \in Tokens /\ drawn' \in Devices
  BY TypeStep DEF WebInv, WebTypeOK
<1>1. PICK x \in Threads : Conflict(x)
  BY EveryStep DEF Start, Settle, AnswersSettled, Succeed, Unauthorized, Refreshed, NotRefreshed,
     LinkRequired, Lose, ServerRejects, ServerLinks, ServerResolves, ServerRecords,
     SignIn, SignOut, SignedOut, Expire, vars, clientVars
<1>2. thread[x].pc = "fetch" /\ thread[x].reply = "conflict"
  BY <1>1 DEF Conflict, Answered
<1>3. x[2] = "link" /\ linkedTo[thread[x].device] \notin {NULL, AccountOf(x)}
  BY <1>2 DEF WebInv, LinkInv
<1>4. x = Link(x[1]) /\ x[1] \in Tasks
  BY <1>3, ThreadFields
<1>5. thread[x].device = deviceId
  BY <1>2, <1>4 DEF WebInv, LinkInv, Active
<1>6. ~ thread[x].rotated
  BY <1>1 DEF Conflict
<1>7. thread' = [thread EXCEPT ![x] = [Sent(x, tokens, drawn') EXCEPT
                                         !.rotated = TRUE, !.auth = TRUE, !.link = TRUE]]
  BY <1>1, <1>6 DEF Conflict
<1>8. Sent(x, tokens, drawn') \in ThreadType
  BY <1>t, SentFields
<1>9. thread'[x].rotated
  BY <1>t, <1>7, <1>8 DEF ThreadType
<1> QED
  BY <1>1, <1>2, <1>3, <1>5, <1>6, <1>9

\* RotatedIdsAreForeign for any number of calls and people: the device id is only ever
\* given up by the link that has just been told that it is somebody else's.
THEOREM RotationsAreNeeded == Spec => RotatedIdsAreForeign
<1>1. WebInv /\ [Next]_vars =>
        [deviceId' # deviceId =>
           \E x \in Threads : /\ ~ thread[x].rotated /\ thread'[x].rotated
                              /\ linkedTo[deviceId] \notin {NULL, AccountOf(x)}]_vars
  BY RotationStep
<1> QED
  BY WebInvariant, <1>1, PTL DEF Spec, RotatedIdsAreForeign

-----------------------------------------------------------------------------
(* Whose call is not cancelled is still there.                              *)
LEMMA UserStays ==
  ASSUME WebInv, [Next]_vars, NEW t \in Tasks, op[t] # NULL, ~ cancelled'[t]
  PROVE  /\ ~ cancelled[t] /\ op'[t] = op[t]
         /\ OwnerOf(tokens)' = OwnerOf(tokens) /\ (tokens' = NULL <=> tokens = NULL)
<1>t. /\ WebTypeOK /\ KnownInv /\ cancelled \in [Tasks -> BOOLEAN]
      /\ tokens \in Tokens /\ tokens' \in Tokens /\ NULL \notin Accounts
      /\ Known(tokens) /\ Known(tokens)'
  BY TypeStep, TokensKnown, WebAssumption DEF WebInv, WebTypeOK, KnownInv
<1>o. op'[t] = op[t]
  <2>1. ASSUME NEW u \in Tasks, Start(u) PROVE op'[t] = op[t]
    BY <2>1, <1>t DEF Start, WebTypeOK
  <2> QED
    BY <2>1, EveryStep DEF Settle, AnswersSettled, Succeed, Unauthorized, Refreshed, NotRefreshed,
       LinkRequired, Conflict, Lose, ServerRejects, ServerLinks, ServerResolves, ServerRecords,
       SignIn, SignOut, SignedOut, Expire, vars, clientVars, taskVars
<1>1. /\ OwnerOf(tokens) = IF tokens = NULL THEN NULL ELSE sessions[tokens.session].owner
      /\ OwnerOf(tokens)' = IF tokens' = NULL THEN NULL ELSE sessions'[tokens'.session].owner
      /\ tokens # NULL => sessions[tokens.session].owner \in Accounts
      /\ tokens # NULL => sessions'[tokens.session].owner = sessions[tokens.session].owner
      /\ tokens' # NULL => sessions'[tokens'.session].owner \in Accounts
  BY <1>t, SessionsLast DEF OwnerOf, Known
<1>2. CASE UNCHANGED <<tokens, cancelled>>
  BY <1>1, <1>2, <1>o
<1>c. ASSUME NEW tk, SetTokens(tk) PROVE ~ cancelled[t] /\ OwnerOf(tokens) = OwnerOf(tk)
  BY <1>c, <1>t DEF SetTokens, Cancel
<1>3. CASE clearTokens
  <2>1. ~ cancelled[t] /\ OwnerOf(tokens) = OwnerOf(NULL) /\ tokens' = NULL
    BY <1>3, <1>c DEF clearTokens, SetTokens
  <2> QED
    BY <1>1, <1>t, <1>o, <2>1 DEF OwnerOf
<1>4. ASSUME NEW x \in Threads, Refreshed(x)
      PROVE  /\ ~ cancelled[t] /\ OwnerOf(tokens)' = OwnerOf(tokens) /\ (tokens' = NULL <=> tokens = NULL)
  <2> DEFINE s == thread[x].token.session
             new == [session |-> s, number |-> sessions[s].number + 1]
  <2>1. s \in 1 .. Len(sessions)
    BY <1>4 DEF Refreshed, WebInv, KnownInv, Known
  <2>2. SetTokens(new) /\ tokens' = new
    BY <1>4 DEF Refreshed, SetTokens
  <2>3. new \in Tokens /\ new # NULL /\ new.session = s
    <3>1. sessions \in Seq(SessionType) /\ Len(sessions) \in Nat /\ Len(sessions) <= MaxSessions
      BY <1>t DEF WebTypeOK, KnownInv
    <3>2. sessions[s] \in SessionType
      BY <2>1, <3>1
    <3>3. sessions[s].number \in Nat /\ s \in 1 .. MaxSessions
      BY <2>1, <3>1, <3>2, WebAssumption DEF SessionType
    <3> QED
      BY <3>3, WebAssumption DEF Tokens
  <2>4. ~ cancelled[t] /\ OwnerOf(tokens) = OwnerOf(new)
    BY <1>c, <2>2
  <2>5. OwnerOf(new) = sessions[s].owner
    BY <2>3 DEF OwnerOf
  <2>6. OwnerOf(tokens)' = sessions'[s].owner /\ sessions'[s].owner = sessions[s].owner
    BY <1>1, <1>t, <2>1, <2>2, <2>3, SessionsLast
  <2>7. sessions[s].owner \in Accounts
    BY <1>t, <2>1, <2>6, SessionsLast
  <2> QED
    BY <1>1, <1>t, <2>2, <2>3, <2>4, <2>5, <2>6, <2>7
<1>5. ASSUME NEW a \in Accounts, SignIn(a)
      PROVE  /\ ~ cancelled[t] /\ OwnerOf(tokens)' = OwnerOf(tokens) /\ (tokens' = NULL <=> tokens = NULL)
  <2> DEFINE n == Len(sessions) + 1
  <2>1. ~ cancelled[t] /\ OwnerOf(tokens) = a
    BY <1>5, <1>t DEF SignIn, Cancel
  <2>2. sessions \in Seq(SessionType) /\ Len(sessions) \in Nat /\ n \in 1 .. MaxSessions
    BY <1>5, <1>t, WebAssumption DEF SignIn, WebTypeOK
  <2>3. sessions'[n].owner = a /\ tokens' = [session |-> n, number |-> 1]
    BY <1>5, <2>2 DEF SignIn
  <2>4. tokens' # NULL /\ tokens'.session = n
    BY <2>2, <2>3, WebAssumption
  <2> QED
    BY <1>1, <1>t, <2>1, <2>3, <2>4
<1> QED
  <2>1. \/ UNCHANGED <<tokens, cancelled>> \/ clearTokens
        \/ (\E x \in Threads : Refreshed(x)) \/ \E a \in Accounts : SignIn(a)
    BY EveryStep DEF Start, Settle, AnswersSettled, Succeed, Unauthorized, NotRefreshed,
       LinkRequired, Conflict, Lose, ServerRejects, ServerLinks, ServerResolves, ServerRecords,
       SignOut, SignedOut, Expire, vars, clientVars
  <2> QED
    BY <1>2, <1>3, <1>4, <1>5, <1>o, <2>1

(* Whose thread it is changes only with its token.                          *)
LEMMA AccountsLast ==
  ASSUME WebInv, [Next]_vars, NEW x \in Threads, thread'[x].token = thread[x].token
  PROVE  AccountOf(x)' = AccountOf(x)
<1>1. Known(thread[x].token) /\ WebTypeOK /\ KnownInv
  BY DEF WebInv, KnownInv
<1>2. CASE thread[x].token = NULL
  BY <1>2 DEF AccountOf, OwnerOf
<1>3. CASE thread[x].token # NULL
  <2>1. sessions'[thread[x].token.session].owner = sessions[thread[x].token.session].owner
    BY <1>1, <1>3, SessionsLast DEF Known
  <2> QED
    BY <1>3, <2>1 DEF AccountOf, OwnerOf
<1> QED
  BY <1>2, <1>3

(* OwnInv is inductive under WebInv.                                        *)
LEMMA OwnStep == WebInv /\ OwnInv /\ [Next]_vars => OwnInv'
<1> SUFFICES ASSUME WebInv, OwnInv, [Next]_vars, NEW t \in Tasks, op'[t] # NULL, ~ cancelled'[t]
             PROVE  /\ op'[t] = "auth" => tokens' # NULL
                    /\ Active(Call(t))' => AccountOf(Call(t))' = OwnerOf(tokens)'
                    /\ Active(Link(t))' => AccountOf(Link(t))' = OwnerOf(tokens)'
  BY DEF OwnInv
<1>t. WebTypeOK /\ KnownInv /\ op \in [Tasks -> {"auth", "answer", "progress", NULL}]
  BY DEF WebInv, WebTypeOK
<1>1. op'[t] = "auth" => tokens' # NULL
  <2>1. CASE op[t] # NULL
    BY <2>1, UserStays DEF OwnInv
  <2>2. CASE op[t] = NULL
    <3>1. Start(t)
      <4>1. ASSUME NEW u \in Tasks, u # t, Start(u) PROVE op'[t] = op[t]
        BY <4>1, <1>t DEF Start
      <4> QED
        BY <2>2, <4>1, EveryStep DEF Settle, AnswersSettled, Succeed, Unauthorized, Refreshed, NotRefreshed,
           LinkRequired, Conflict, Lose, ServerRejects, ServerLinks, ServerResolves, ServerRecords,
           SignIn, SignOut, SignedOut, Expire, vars, clientVars, taskVars
    <3> QED
      BY <3>1, <1>t DEF Start
  <2> QED
    BY <2>1, <2>2
<1>2. ASSUME NEW x \in {Call(t), Link(t)}, Active(x)'
      PROVE  AccountOf(x)' = OwnerOf(tokens)'
  <2>1. x \in Threads
    BY ThreadFields
  <2>2. CASE SentAgain(x) \/ Refreshes(x)
    <3>1. thread'[x].token = tokens'
      BY <2>2 DEF SentAgain, Refreshes
    <3> QED
      BY <3>1 DEF AccountOf, OwnerOf
  <2>3. CASE Kept(x) \/ Told(x)
    <3>1. Active(x) /\ thread'[x].token = thread[x].token
      BY <1>2, <2>3 DEF Kept, Told, Active
    <3>2. op[t] # NULL
      BY <3>1 DEF WebInv, StartedInv, Active
    <3>3. AccountOf(x) = OwnerOf(tokens) /\ OwnerOf(tokens)' = OwnerOf(tokens)
      BY <3>1, <3>2, UserStays DEF OwnInv
    <3> QED
      BY <2>1, <3>1, <3>3, AccountsLast
  <2>4. ~ Stops(x)
    BY <1>2 DEF Stops, Active, Ended
  <2> QED
    BY <1>t, <2>1, <2>2, <2>3, <2>4, ThreadSteps
<1> QED
  BY <1>1, <1>2

-----------------------------------------------------------------------------
(* How a progress gets its answer, and from whose row.                      *)
LEMMA SeenStep ==
  ASSUME [Next]_vars, WebTypeOK, NEW t \in Tasks, seen'[t] # seen[t]
  PROVE  ServerResolves(Call(t))
<1>1. PICK x \in Threads : ServerResolves(x) /\ ~ UNCHANGED seen
  BY EveryStep DEF Start, Settle, AnswersSettled, Succeed, Unauthorized, Refreshed, NotRefreshed,
     LinkRequired, Conflict, Lose, ServerRejects, ServerLinks, ServerRecords,
     SignIn, SignOut, SignedOut, Expire, vars, serverVars
<1>2. x[1] = t /\ x[2] = "call"
  <2>1. x[2] = "call" /\ seen' = [seen EXCEPT ![x[1]] = linkedTo[ResolvedRow(x)]]
    BY <1>1 DEF ServerResolves
  <2> QED
    BY <2>1 DEF WebTypeOK
<1> QED
  BY <1>1, <1>2, ThreadFields

(* The canonical row of an account stays linked to it.                      *)
LEMMA RegistryStep ==
  ASSUME WebInv, ProgressInv, [Next]_vars, NEW a \in Accounts, primary'[a] # NULL
  PROVE  linkedTo'[primary'[a]] = a
<1>t. WebTypeOK /\ linkedTo \in [Devices -> Accounts \cup {NULL}] /\ primary \in [Accounts -> Devices \cup {NULL}]
  BY DEF WebInv, WebTypeOK
<1>1. primary[a] # NULL => linkedTo[primary[a]] = a
  BY DEF ProgressInv
<1>2. CASE UNCHANGED <<linkedTo, primary>>
  BY <1>1, <1>2
<1>3. ASSUME NEW x \in Threads, ServerLinks(x) PROVE linkedTo'[primary'[a]] = a
  <2>1. CASE linkedTo[thread[x].device] # NULL
    BY <1>1, <1>3, <2>1 DEF ServerLinks
  <2>2. CASE linkedTo[thread[x].device] = NULL
    <3>1. thread[x].device \in Devices
      BY <1>3 DEF ServerLinks, WebInv, KnownInv
    <3>2. /\ linkedTo' = [linkedTo EXCEPT ![thread[x].device] = AccountOf(x)]
          /\ primary' = [primary EXCEPT ![AccountOf(x)] = IF @ = NULL THEN thread[x].device ELSE @]
      BY <1>3, <2>2 DEF ServerLinks
    <3>3. NULL \notin Accounts
      BY WebAssumption
    <3> QED
      BY <1>1, <1>t, <2>2, <3>1, <3>2, <3>3
  <2> QED
    BY <2>1, <2>2
<1> QED
  BY <1>2, <1>3, EveryStep DEF Start, Settle, AnswersSettled, Succeed, Unauthorized, Refreshed,
     NotRefreshed, LinkRequired, Conflict, Lose, ServerRejects, ServerResolves, ServerRecords,
     SignIn, SignOut, SignedOut, Expire, vars, serverVars

(* ProgressInv is inductive under WebInv and OwnInv.                        *)
LEMMA ProgressStep == WebInv /\ OwnInv /\ ProgressInv /\ [Next]_vars => ProgressInv'
<1> SUFFICES ASSUME WebInv, OwnInv, ProgressInv, [Next]_vars, NEW t \in Tasks, op'[t] = "progress"
             PROVE  /\ thread'[Call(t)].net # "resolved"
                    /\ thread'[Call(t)].pc = "ok" => thread'[Call(t)].net = "none"
                    /\ ~ cancelled'[t] /\ tokens' # NULL /\ thread'[Call(t)].pc \in {"fetch", "ok"}
                       /\ (thread'[Call(t)].pc = "fetch" => thread'[Call(t)].reply = "ok")
                         => seen'[t] \in {NULL, OwnerOf(tokens)'}
  BY RegistryStep DEF ProgressInv
<1> DEFINE x == Call(t)
           Goal == /\ thread'[x].net # "resolved"
                   /\ thread'[x].pc = "ok" => thread'[x].net = "none"
                   /\ ~ cancelled'[t] /\ tokens' # NULL /\ thread'[x].pc \in {"fetch", "ok"}
                      /\ (thread'[x].pc = "fetch" => thread'[x].reply = "ok")
                        => seen'[t] \in {NULL, OwnerOf(tokens)'}
<1>t. /\ WebTypeOK /\ KnownInv /\ op \in [Tasks -> {"auth", "answer", "progress", NULL}]
      /\ linkedTo \in [Devices -> Accounts \cup {NULL}] /\ primary \in [Accounts -> Devices \cup {NULL}]
      /\ thread \in [Threads -> ThreadType] /\ NULL \notin Accounts /\ NULL # "progress"
  BY WebAssumption DEF WebInv, WebTypeOK
<1>x. x \in Threads /\ x[1] = t /\ x[2] = "call"
  BY ThreadFields
<1>1. CASE op[t] # "progress"
  <2>1. ASSUME NEW u \in Tasks, Start(u) PROVE Goal
    <3>1. u = t /\ op[t] = NULL
      BY <1>1, <1>t, <2>1 DEF Start
    <3>2. thread'[x] = [thread[x] EXCEPT !.pc = "wait", !.others = Pending]
      <4>1. PICK o \in Operations : /\ op' = [op EXCEPT ![t] = o]
                                    /\ o # "answer" => thread' = [thread EXCEPT ![x] =
                                                         [@ EXCEPT !.pc = "wait", !.others = Pending]]
        BY <2>1, <3>1 DEF Start
      <4>2. o = "progress"
        BY <1>t, <4>1
      <4> QED
        BY <1>t, <1>x, <4>1, <4>2
    <3>3. thread[x] \in ThreadType /\ thread[x].net # "resolved"
      <4>1. thread[x] \in ThreadType
        BY <1>t, <1>x
      <4>2. thread[x].net # "resolved"
        BY <3>1, <1>x DEF WebInv, StartedInv
      <4> QED
        BY <4>1, <4>2
    <3>4. thread'[x].pc = "wait" /\ thread'[x].net = thread[x].net
      BY <3>2, <3>3 DEF ThreadType
    <3> QED
      BY <3>3, <3>4
  <2>2. UNCHANGED op \/ \E u \in Tasks : Start(u)
    BY EveryStep DEF Settle, AnswersSettled, Succeed, Unauthorized, Refreshed, NotRefreshed,
       LinkRequired, Conflict, Lose, ServerRejects, ServerLinks, ServerResolves, ServerRecords,
       SignIn, SignOut, SignedOut, Expire, vars, clientVars, taskVars
  <2> HIDE DEF Goal
  <2>3. Goal
    BY <1>1, <2>1, <2>2
  <2> QED
    BY <2>3 DEF Goal
<1>2. CASE op[t] = "progress"
  <2>1. /\ thread[x].net # "resolved" /\ (thread[x].pc = "ok" => thread[x].net = "none")
        /\ ~ cancelled[t] /\ tokens # NULL /\ thread[x].pc \in {"fetch", "ok"}
           /\ (thread[x].pc = "fetch" => thread[x].reply = "ok")
             => seen[t] \in {NULL, OwnerOf(tokens)}
    <3>1. thread[x].net # "resolved" /\ (thread[x].pc = "ok" => thread[x].net = "none")
      BY <1>2 DEF ProgressInv
    <3>2. ASSUME ~ cancelled[t], tokens # NULL, thread[x].pc \in {"fetch", "ok"},
                 thread[x].pc = "fetch" => thread[x].reply = "ok"
          PROVE  seen[t] \in {NULL, OwnerOf(tokens)}
      BY <1>2, <3>2 DEF ProgressInv
    <3> QED
      BY <3>1, <3>2
  <2>2. ~ cancelled'[t] /\ tokens' # NULL => ~ cancelled[t] /\ tokens # NULL /\ OwnerOf(tokens)' = OwnerOf(tokens)
    BY <1>2, <1>t, UserStays
  <2>3. CASE ServerResolves(x)
    <3>1. thread[x].net = "sent" /\ thread[x].device \in Devices /\ ~ Rejected(x)
      BY <1>x, <2>3 DEF ServerResolves, WebInv, KnownInv
    <3>2. CASE ResolvedRow(x) = NULL
      <4>1. Reply(x, "linkRequired")
        BY <2>3, <3>2 DEF ServerResolves
      <4> QED
        BY <1>t, <1>x, <2>1, <3>1, <4>1, ReplyFields DEF Replies
    <3>3. CASE ResolvedRow(x) # NULL
      <4>1. Reply(x, "ok") /\ seen' = [seen EXCEPT ![t] = linkedTo[ResolvedRow(x)]]
        BY <1>2, <1>x, <2>3, <3>3 DEF ServerResolves
      <4>2. thread'[x].pc = thread[x].pc /\ thread'[x].net = "answered"
        BY <1>t, <1>x, <4>1, ReplyFields DEF Replies
      <4>3. thread[x].pc # "ok"
        BY <2>1, <3>1
      <4>4. seen'[t] = linkedTo[ResolvedRow(x)]
        BY <1>t, <4>1 DEF WebTypeOK
      <4>5. ASSUME ~ cancelled'[t], tokens' # NULL, thread[x].pc = "fetch"
            PROVE  linkedTo[ResolvedRow(x)] \in {NULL, OwnerOf(tokens)}
        <5>1. AccountOf(x) = OwnerOf(tokens)
          BY <1>2, <1>t, <2>2, <4>5 DEF OwnInv, Active
        <5>2. OwnerOf(tokens) \in Accounts
          BY <1>t, <2>2, <4>5, SessionsLast DEF OwnerOf, KnownInv, Known
        <5>3. primary[AccountOf(x)] # NULL => linkedTo[primary[AccountOf(x)]] = AccountOf(x)
          BY <5>1, <5>2 DEF ProgressInv
        <5> QED
          BY <1>t, <3>1, <3>3, <5>1, <5>2, <5>3 DEF ResolvedRow
      <4> QED
        BY <2>2, <4>2, <4>3, <4>4, <4>5
    <3> QED
      BY <3>2, <3>3
  <2>4. CASE ~ ServerResolves(x)
    <3>1. seen'[t] = seen[t]
      BY <1>t, <2>4, SeenStep
    <3>2. CASE Kept(x)
      BY <2>1, <2>2, <3>1, <3>2 DEF Kept
    <3>3. CASE SentAgain(x)
      BY <3>3 DEF SentAgain
    <3>4. CASE Refreshes(x)
      BY <2>1, <3>4 DEF Refreshes
    <3>5. CASE Told(x)
      <4>1. ~ ServerRecords(x)
        BY <2>1 DEF ServerRecords
      <4>2. thread'[x].reply # "ok"
        <5>1. ~ ServerLinks(x)
          BY <1>x DEF ServerLinks
        <5> QED
          BY <2>4, <3>5, <4>1, <5>1 DEF Told
      <4> QED
        BY <1>2, <1>x, <2>1, <3>5, <4>2 DEF Told
    <3>6. CASE Stops(x)
      <4>1. thread'[x].net # "resolved"
        BY <2>1, <3>6 DEF Stops
      <4>2. thread'[x].pc # "fetch"
        BY <3>6 DEF Stops, Ended
      <4>3. thread'[x].pc = "ok" => Succeed(x) /\ thread'[x].net = "none"
        BY <1>2, <1>x, <3>6 DEF Stops
      <4>4. Succeed(x) => thread[x].pc = "fetch" /\ thread[x].reply = "ok"
        BY DEF Succeed, Answered
      <4> QED
        BY <2>1, <2>2, <3>1, <4>1, <4>2, <4>3, <4>4
    <3> QED
      BY <1>t, <1>x, <3>2, <3>3, <3>4, <3>5, <3>6, ThreadSteps
  <2> QED
    BY <2>3, <2>4
<1> QED
  BY <1>1, <1>2

-----------------------------------------------------------------------------
(* Before the first call there is nobody to act for.                        *)
LEMMA OwnInit == Init => OwnInv /\ ProgressInv /\ EnsuredInv
<1> SUFFICES ASSUME Init PROVE OwnInv /\ ProgressInv /\ EnsuredInv
  OBVIOUS
<1>1. \A t \in Tasks : op[t] = NULL /\ NULL \notin {"auth", "answer", "progress"}
  BY WebAssumption DEF Init
<1>2. \A a \in Accounts : primary[a] # NULL => linkedTo[primary[a]] = a
  BY DEF Init
<1> QED
  BY <1>1, <1>2 DEF OwnInv, ProgressInv, EnsuredInv, Undisturbed

\* ShownProgressIsOwn for any number of calls, people, sessions and faults: a progress
\* that is still wanted when it arrives is the record of whoever is signed in.
THEOREM ProgressIsOwn == Spec => []ShownProgressIsOwn
<1>1. OwnInv /\ ProgressInv => ShownProgressIsOwn
  BY DEF ProgressInv, ShownProgressIsOwn
<1> QED
  BY WebInvariant, OwnInit, OwnStep, ProgressStep, <1>1, PTL DEF Spec

-----------------------------------------------------------------------------
(* Answers do not wait to be sent; a call that waits for answers has not    *)
(* started a link, and a call that was not made has none.                   *)
Outstanding(x) == Active(x) \/ thread[x].net = "sent"
WaitInv ==
  \A t \in Tasks :
    /\ thread[Call(t)].pc = "wait" =>
         op[t] # "answer" /\ thread[Call(t)].net = "none" /\ ~ Outstanding(Link(t))
    /\ op[t] = NULL => ~ Outstanding(Link(t))

(* What a call of the page is does not change.                              *)
LEMMA OpLasts ==
  ASSUME WebTypeOK, [Next]_vars, NEW t \in Tasks, op'[t] # op[t]
  PROVE  Start(t) /\ op[t] = NULL
<1>1. UNCHANGED op \/ \E u \in Tasks : Start(u)
  BY EveryStep DEF Settle, AnswersSettled, Succeed, Unauthorized, Refreshed, NotRefreshed,
     LinkRequired, Conflict, Lose, ServerRejects, ServerLinks, ServerResolves, ServerRecords,
     SignIn, SignOut, SignedOut, Expire, vars, clientVars, taskVars
<1>2. PICK u \in Tasks : Start(u)
  BY <1>1
<1>3. \E o : op' = [op EXCEPT ![u] = o]
  BY <1>2 DEF Start
<1>4. u = t
  BY <1>3 DEF WebTypeOK
<1> QED
  BY <1>2, <1>4 DEF Start

(* A link that nothing is outstanding of is sent by ensureLinkReady only.   *)
LEMMA LinkBegins ==
  ASSUME WebInv, [Next]_vars, NEW t \in Tasks, ~ Outstanding(Link(t)), Outstanding(Link(t))'
  PROVE  ensureLinkReady(t) /\ linkReady = NULL
<1> DEFINE x == Link(t)
<1>1. /\ x \in Threads /\ x[1] = t /\ x[2] = "link" /\ WebTypeOK /\ KnownInv
      /\ thread[x].pc # "wait" /\ thread'[x].net # "resolved"
  BY ThreadFields, WebStep DEF WebInv, LinkInv, KnownInv
<1>2. ~ Kept(x) /\ ~ Refreshes(x)
  BY DEF Kept, Refreshes, Outstanding, Active
<1>3. ~ Told(x)
  BY <1>1 DEF Told, Outstanding, Active
<1>4. ~ Stops(x)
  BY DEF Stops, Outstanding, Active, Ended
<1>5. SentAgain(x)
  BY <1>1, <1>2, <1>3, <1>4, ThreadSteps
<1> QED
  BY <1>1, <1>5 DEF SentAgain, Outstanding

(* A call that waits for answers does nothing else.                         *)
LEMMA WaitingLasts ==
  ASSUME WebInv, WaitInv, [Next]_vars, NEW t \in Tasks, thread[Call(t)].pc = "wait"
  PROVE  AnswersSettled(Call(t)) \/ UNCHANGED thread[Call(t)]
<1> DEFINE x == Call(t)
<1>t. /\ WebTypeOK /\ x \in Threads /\ x[1] = t /\ thread \in [Threads -> ThreadType]
      /\ thread[x].net = "none" /\ op[t] # NULL /\ thread[Link(t)].pc \notin {"fetch", "refresh"}
  BY ThreadFields DEF WebInv, WebTypeOK, WaitInv, StartedInv, Outstanding, Active
<1>1. ASSUME NEW u \in Tasks, Start(u) PROVE UNCHANGED thread[x]
  <2>1. x # Call(u)
    BY <1>1, <1>t, ThreadFields DEF Start
  <2> QED
    BY <1>1, <1>t, <2>1 DEF Start
<1>2. ASSUME NEW u \in Tasks, u # t, ensureLinkReady(u) PROVE UNCHANGED thread[x]
  BY <1>2, <1>t, EnsureFields, ThreadFields
<1>3. ASSUME NEW y \in Threads, y # x, AnswersSettled(y) PROVE UNCHANGED thread[x]
  <2>1. CASE op[y[1]] = "auth" /\ y[2] = "call"
    <3>1. y[1] \in Tasks /\ y[1] # t /\ ensureLinkReady(y[1])
      BY <1>3, <2>1, ThreadFields DEF AnswersSettled
    <3> QED
      BY <1>2, <3>1
  <2>2. CASE ~ (op[y[1]] = "auth" /\ y[2] = "call")
    BY <1>3, <1>t, <2>2 DEF AnswersSettled
  <2> QED
    BY <2>1, <2>2
<1>4. ASSUME NEW y \in Threads,
             \/ Succeed(y) \/ Unauthorized(y) \/ Refreshed(y) \/ NotRefreshed(y) \/ LinkRequired(y)
             \/ Conflict(y) \/ Lose(y)
      PROVE  UNCHANGED thread[x]
  <2>1. thread[y].pc \in {"fetch", "refresh"}
    BY <1>4 DEF Succeed, Unauthorized, Refreshed, NotRefreshed, Conflict, Lose, LinkRequired, Answered
  <2>2. y[1] \in Tasks /\ y[1] # t
    BY <1>t, <2>1, ThreadFields
  <2>3. y # x
    BY <2>1
  <2>4. \/ \E s \in Ended : Become(y, s)
        \/ ensureLinkReady(y[1])
        \/ \A z \in Threads \ {y} : thread'[z] = thread[z]
    <3>1. Succeed(y) \/ NotRefreshed(y) \/ Lose(y) \/ LinkRequired(y)
            => (\E s \in Ended : Become(y, s)) \/ ensureLinkReady(y[1])
      BY DEF Succeed, NotRefreshed, Lose, LinkRequired, Ended
    <3>2. Unauthorized(y) => (\E s \in Ended : Become(y, s)) \/ (\A z \in Threads \ {y} : thread'[z] = thread[z])
      BY <1>t DEF Unauthorized, Ended
    <3>3. Conflict(y) => (\E s \in Ended : Become(y, s)) \/ (\A z \in Threads \ {y} : thread'[z] = thread[z])
      BY <1>t DEF Conflict, Ended
    <3>4. Refreshed(y) => \A z \in Threads \ {y} : thread'[z] = thread[z]
      BY <1>t DEF Refreshed
    <3> QED
      BY <1>4, <3>1, <3>2, <3>3, <3>4
  <2>5. (\E s \in Ended : Become(y, s)) => \A z \in Threads \ {y} : thread'[z] = thread[z]
    BY <1>t, BecomeFields
  <2> QED
    BY <1>2, <1>t, <2>2, <2>3, <2>4, <2>5
<1>5. ASSUME NEW u \in Tasks, Settle(u) PROVE UNCHANGED thread[x]
  <2>1. t \notin WaitingFor(u)
    BY DEF WaitingFor
  <2> QED
    BY <1>5, <1>t, <2>1 DEF Settle
<1>6. ASSUME NEW y \in Threads, ServerStep(y) PROVE UNCHANGED thread[x]
  <2>1. /\ thread[y].net # "none"
        /\ (\E r \in Replies : Reply(y, r)) \/ thread' = [thread EXCEPT ![y].net = "resolved"]
    BY <1>6 DEF ServerStep, ServerRejects, ServerLinks, ServerResolves, ServerRecords, Replies
  <2>2. y # x
    BY <1>t, <2>1
  <2>3. (\E r \in Replies : Reply(y, r)) => UNCHANGED thread[x]
    BY <1>t, <2>2, ReplyFields
  <2>4. thread' = [thread EXCEPT ![y].net = "resolved"] => UNCHANGED thread[x]
    BY <1>t, <2>2
  <2> QED
    BY <2>1, <2>3, <2>4
<1>7. (\E a \in Accounts : SignIn(a)) \/ SignOut \/ SignedOut
        \/ (\E s \in 1 .. MaxSessions : Expire(s)) \/ UNCHANGED vars => UNCHANGED thread[x]
  BY DEF SignIn, SignOut, SignedOut, Expire, vars
<1> QED
  BY <1>1, <1>3, <1>4, <1>5, <1>6, <1>7, EveryStep DEF ServerStep

(* WaitInv is inductive under WebInv.                                       *)
LEMMA WaitStep == WebInv /\ WaitInv /\ [Next]_vars => WaitInv'
<1> SUFFICES ASSUME WebInv, WaitInv, [Next]_vars, NEW t \in Tasks
             PROVE  /\ thread'[Call(t)].pc = "wait" =>
                         op'[t] # "answer" /\ thread'[Call(t)].net = "none" /\ ~ Outstanding(Link(t))'
                    /\ op'[t] = NULL => ~ Outstanding(Link(t))'
  BY DEF WaitInv
<1>t. /\ WebTypeOK /\ KnownInv /\ Call(t) \in Threads /\ Call(t)[1] = t
      /\ op \in [Tasks -> {"auth", "answer", "progress", NULL}] /\ NULL # "answer"
      /\ thread \in [Threads -> ThreadType] /\ tokens \in Tokens /\ deviceId \in Devices
  BY ThreadFields, WebAssumption DEF WebInv, WebTypeOK
<1>1. ASSUME ensureLinkReady(t) PROVE thread'[Call(t)].pc = "link"
  BY <1>t, <1>1, EnsureFields, WaitingFields
<1>2. ASSUME thread'[Call(t)].pc = "wait"
      PROVE  op'[t] # "answer" /\ thread'[Call(t)].net = "none" /\ ~ Outstanding(Link(t))'
  <2>1. CASE thread[Call(t)].pc = "wait"
    <3>1. op[t] # NULL /\ op[t] # "answer" /\ thread[Call(t)].net = "none" /\ ~ Outstanding(Link(t))
      BY <2>1 DEF WebInv, StartedInv, WaitInv
    <3>2. CASE AnswersSettled(Call(t))
      <4>1. op[t] # "auth"
        BY <1>1, <1>2, <1>t, <3>2, ThreadFields DEF AnswersSettled
      <4>2. thread'[Call(t)] = Sent(Call(t), tokens, deviceId)
        BY <1>t, <3>2, <4>1 DEF AnswersSettled
      <4> QED
        BY <1>2, <1>t, <4>2, SentFields
    <3>3. CASE UNCHANGED thread[Call(t)]
      BY <1>1, <1>2, <1>t, <3>1, <3>3, OpLasts, LinkBegins
    <3> QED
      BY <2>1, <3>2, <3>3, WaitingLasts
  <2>2. CASE thread[Call(t)].pc # "wait"
    <3>1. Stops(Call(t))
      BY <1>t, <1>2, <2>2, ThreadSteps DEF Kept, SentAgain, Told, Refreshes
    <3>2. PICK u \in Tasks : Call(t) = Call(u) /\ Start(u)
      BY <1>2, <3>1 DEF Stops
    <3>3. Start(t) /\ op[t] = NULL
      BY <3>2, ThreadFields DEF Start
    <3>4. PICK o \in Operations : /\ op' = [op EXCEPT ![t] = o]
                                  /\ o = "answer" => thread' = [thread EXCEPT ![Call(t)] =
                                                                  Sent(Call(t), tokens, deviceId)]
                                  /\ o # "answer" => thread' = [thread EXCEPT ![Call(t)] =
                                                       [@ EXCEPT !.pc = "wait", !.others = Pending]]
      BY <3>3 DEF Start
    <3>5. o # "answer"
      BY <1>2, <1>t, <3>4, SentFields
    <3>6. ~ Outstanding(Link(t)) /\ thread[Call(t)].net = "none"
      BY <3>3 DEF WaitInv, WebInv, StartedInv
    <3>7. thread'[Call(t)].net = "none"
      <4>1. thread'[Call(t)] = [thread[Call(t)] EXCEPT !.pc = "wait", !.others = Pending]
        BY <1>t, <3>4, <3>5
      <4>2. thread[Call(t)] \in ThreadType
        BY <1>t
      <4> QED
        BY <3>6, <4>1, <4>2 DEF ThreadType
    <3> QED
      BY <1>1, <1>2, <1>t, <3>4, <3>5, <3>6, <3>7, LinkBegins
  <2> QED
    BY <2>1, <2>2
<1>3. ASSUME op'[t] = NULL PROVE ~ Outstanding(Link(t))'
  <2>1. op[t] = NULL
    <3>1. CASE op'[t] = op[t]
      BY <1>3, <3>1
    <3>2. CASE op'[t] # op[t]
      BY <1>t, <3>2, OpLasts
    <3> QED
      BY <3>1, <3>2
  <2>2. ~ Outstanding(Link(t)) /\ thread'[Call(t)].pc # "link"
    BY <1>3, <2>1, WebStep DEF WaitInv, WebInv, StartedInv
  <2> QED
    BY <1>1, <2>2, LinkBegins
<1> QED
  BY <1>2, <1>3

(* Before the first call nobody waits.                                      *)
LEMMA WaitInit == Init => WaitInv
BY ThreadFields DEF Init, WaitInv, Outstanding, Active, Idle

\* NobodyWaitsInACircle for any number of calls and any set of them: a link waits for
\* nobody, who waits for a link waits for a link only, and answers are never put off.
THEOREM WaitingEnds == Spec => []NobodyWaitsInACircle
<1>1. WebInv /\ WaitInv => NobodyWaitsInACircle
  <2> SUFFICES ASSUME WebInv, WaitInv, NEW S \in SUBSET Threads, S # {}
               PROVE  \E x \in S : WaitsFor(x) \cap S = {}
    BY DEF NobodyWaitsInACircle
  <2>1. CASE \E x \in S : thread[x].pc \notin {"wait", "link"}
    BY <2>1 DEF WaitsFor
  <2>2. CASE \E x \in S : thread[x].pc = "link" /\ \A y \in S : thread[y].pc \in {"wait", "link"}
    <3>1. PICK x \in S : thread[x].pc = "link"
      BY <2>2
    <3>2. PICK t \in Tasks : x = Call(t)
      BY <3>1, ThreadFields DEF WebInv, LinkInv
    <3>3. x[1] = t /\ awaited[t] \in Tasks
      BY <3>1, <3>2, ThreadFields DEF WebInv, WebTypeOK, LinkInv
    <3>4. Link(awaited[t]) \notin S
      BY <2>2, <3>3 DEF WebInv, LinkInv
    <3>5. WaitsFor(x) = {Link(awaited[t])}
      BY <3>1, <3>3 DEF WaitsFor
    <3> QED
      BY <3>4, <3>5
  <2>3. CASE \A x \in S : thread[x].pc = "wait"
    <3>1. PICK x \in S : thread[x].pc = "wait"
      BY <2>3
    <3>2. WaitsFor(x) = {Call(u) : u \in thread[x].others \cap inFlightSubmissions}
      BY <3>1 DEF WaitsFor
    <3>3. ASSUME NEW u \in inFlightSubmissions PROVE Call(u) \notin S
      BY <2>3, <3>3 DEF inFlightSubmissions, WaitInv
    <3> QED
      BY <3>2, <3>3
  <2> QED
    BY <2>1, <2>2, <2>3
<1> QED
  BY WebInvariant, WaitInit, WaitStep, <1>1, PTL DEF Spec

-----------------------------------------------------------------------------
(* What AuthMenu's link has achieved stays.                                 *)
LEMMA DeviceStays ==
  ASSUME WebInv, EnsuredInv, [Next]_vars, NEW t \in Tasks, Undisturbed(t), thread[Call(t)].pc = "ok"
  PROVE  deviceId' = deviceId
<1>1. SUFFICES ASSUME deviceId' # deviceId PROVE FALSE
  OBVIOUS
<1>2. PICK x \in Threads : /\ linkedTo[deviceId] \notin {NULL, AccountOf(x)}
                           /\ x[2] = "link" /\ thread[x].pc = "fetch"
  BY <1>1, RotationStep
<1>3. x = Link(x[1]) /\ x[1] \in Tasks
  BY <1>2, ThreadFields
<1> QED
  BY <1>2, <1>3 DEF EnsuredInv, Active

(* While the answer of a link is being passed on nothing else happens, and  *)
(* nobody begins to wait.                                                   *)
LEMMA SettlingAlone ==
  ASSUME WebTypeOK, [Next]_vars, NEW t \in Tasks, Settling(t)
  PROVE  /\ UNCHANGED <<tokens, deviceId, awaited, cancelled, op>>
         /\ \A u \in Tasks : thread'[Call(u)].pc = "link" => thread[Call(u)].pc = "link"
<1>t. thread \in [Threads -> ThreadType] /\ tokens \in Tokens /\ deviceId \in Devices
  BY DEF WebTypeOK
<1>1. \/ \E v \in Tasks : Settle(v)
      \/ \E x \in Threads : ServerStep(x)
      \/ \E s \in 1 .. MaxSessions : Expire(s)
      \/ UNCHANGED vars
  BY DEF Next
<1>2. UNCHANGED <<tokens, deviceId, awaited, cancelled, op>>
  BY <1>1 DEF Settle, ServerStep, ServerRejects, ServerLinks, ServerResolves, ServerRecords, Expire,
     vars, clientVars, taskVars
<1>3. ASSUME NEW v \in Tasks, Settle(v), NEW u \in Tasks, thread'[Call(u)].pc = "link"
      PROVE  thread[Call(u)].pc = "link"
  <2>1. CASE u \notin WaitingFor(v)
    BY <1>3, <2>1, ThreadFields DEF Settle
  <2>2. CASE u \in WaitingFor(v)
    BY <2>2 DEF WaitingFor
  <2> QED
    BY <2>1, <2>2
<1>4. ASSUME NEW x \in Threads, ServerStep(x), NEW u \in Tasks
      PROVE  thread'[Call(u)].pc = thread[Call(u)].pc
  <2>1. (\E r \in Replies : Reply(x, r)) \/ thread' = [thread EXCEPT ![x].net = "resolved"]
    BY <1>4 DEF ServerStep, ServerRejects, ServerLinks, ServerResolves, ServerRecords, Replies
  <2>2. CASE \E r \in Replies : Reply(x, r)
    BY <1>t, <2>2, ReplyFields, ThreadFields
  <2>3. CASE thread' = [thread EXCEPT ![x].net = "resolved"]
    BY <1>t, <2>3, ThreadFields DEF ThreadType
  <2> QED
    BY <2>1, <2>2, <2>3
<1>5. (\E s \in 1 .. MaxSessions : Expire(s)) \/ UNCHANGED vars => UNCHANGED thread
  BY DEF Expire, vars
<1> QED
  BY <1>1, <1>2, <1>3, <1>4, <1>5

(* A call that was cancelled stays cancelled.                               *)
LEMMA CancelledLasts ==
  ASSUME WebTypeOK, [Next]_vars, NEW t \in Tasks, ~ cancelled'[t]
  PROVE  ~ cancelled[t]
<1>1. UNCHANGED cancelled \/ \E before, after : cancelled' = Cancel(before, after)
  BY EveryStep DEF Start, Settle, AnswersSettled, Succeed, Unauthorized, Refreshed, NotRefreshed,
     LinkRequired, Conflict, Lose, ServerRejects, ServerLinks, ServerResolves, ServerRecords,
     SignIn, SignOut, SignedOut, Expire, vars, clientVars, clearTokens, SetTokens
<1> QED
  BY <1>1 DEF Cancel, WebTypeOK

(* Who begins to wait for a link waits for one that is not over.            *)
LEMMA WaitBegins ==
  ASSUME WebInv, [Next]_vars, NEW t \in Tasks
  PROVE  \/ awaited'[t] = awaited[t] /\ (thread'[Call(t)].pc = "link" => thread[Call(t)].pc = "link")
         \/ thread'[Call(t)].pc = "link" /\ thread'[Link(awaited'[t])].pc # "ok"
<1>t. /\ WebTypeOK /\ KnownInv /\ awaited \in [Tasks -> Tasks \cup {NULL}]
      /\ linkReady \in Tasks \cup {NULL} /\ tokens \in Tokens /\ deviceId \in Devices
  BY DEF WebInv, WebTypeOK
<1>1. CASE \E v \in Tasks : Settling(v)
  BY <1>t, <1>1, SettlingAlone
<1>2. CASE \A v \in Tasks : ~ Settling(v)
  <2>1. SUFFICES ASSUME ensureLinkReady(t)
                 PROVE  thread'[Call(t)].pc = "link" /\ thread'[Link(awaited'[t])].pc # "ok"
    <3>1. CASE awaited'[t] # awaited[t]
      <4>1. UNCHANGED awaited \/ \E u \in Tasks : ensureLinkReady(u)
        BY EveryStep, ThreadFields DEF Start, Settle, AnswersSettled, Succeed, Unauthorized, Refreshed,
           NotRefreshed, LinkRequired, Conflict, Lose, ServerRejects, ServerLinks, ServerResolves,
           ServerRecords, SignIn, SignOut, SignedOut, Expire, vars, clientVars, taskVars
      <4>2. PICK u \in Tasks : ensureLinkReady(u)
        BY <3>1, <4>1
      <4>3. awaited' = [awaited EXCEPT ![u] = linkReady']
        BY <4>2 DEF ensureLinkReady
      <4> QED
        BY <1>t, <2>1, <3>1, <4>2, <4>3
    <3>2. CASE thread'[Call(t)].pc = "link" /\ thread[Call(t)].pc # "link"
      <4>1. Stops(Call(t))
        BY <1>t, <3>2, ThreadSteps, ThreadFields DEF Kept, SentAgain, Told, Refreshes
      <4>2. PICK u \in Tasks : Call(t) = Call(u) /\ ensureLinkReady(u)
        BY <3>2, <4>1 DEF Stops
      <4> QED
        BY <2>1, <4>2, ThreadFields
    <3> QED
      BY <3>1, <3>2
  <2>2. /\ linkReady' = (IF linkReady = NULL THEN t ELSE linkReady)
        /\ awaited'[t] = linkReady'
        /\ thread'[Call(t)] = Waiting(t)
        /\ thread'[Link(t)] = IF linkReady = NULL THEN FirstLink(t) ELSE thread[Link(t)]
        /\ \A y \in Threads \ {Call(t), Link(t)} : thread'[y] = thread[y]
    BY <1>t, <2>1, EnsureFields
  <2>3. thread'[Call(t)].pc = "link"
    BY <1>t, <2>2, WaitingFields
  <2>4. CASE linkReady = NULL
    <3>1. FirstLink(t).pc = "fetch"
      BY <1>t, SentFields, ThreadFields DEF FirstLink
    <3> QED
      BY <2>2, <2>3, <2>4, <3>1
  <2>5. CASE linkReady # NULL
    <3>1. linkReady \in Tasks /\ thread[Link(linkReady)].pc \notin Ended
      BY <1>t, <1>2, <2>5 DEF WebInv, LinkInv, Settling
    <3>2. thread'[Link(linkReady)] = thread[Link(linkReady)]
      BY <2>2, <2>5, <3>1, ThreadFields
    <3> QED
      BY <2>2, <2>3, <2>5, <3>1, <3>2 DEF Ended
  <2> QED
    BY <2>4, <2>5
<1> QED
  BY <1>1, <1>2

(* EnsuredInv is inductive under WebInv and OwnInv.                         *)
LEMMA EnsuredStep == WebInv /\ OwnInv /\ EnsuredInv /\ [Next]_vars => EnsuredInv'
<1> SUFFICES ASSUME WebInv, OwnInv, EnsuredInv, [Next]_vars, NEW t \in Tasks,
                    op'[t] = "auth", ~ cancelled'[t], awaited'[t] # NULL, ~ cancelled'[awaited'[t]]
             PROVE  /\ thread'[Call(t)].pc = "link" /\ thread'[Link(awaited'[t])].pc = "ok"
                         => linkedTo'[deviceId'] = OwnerOf(tokens)'
                    /\ thread'[Call(t)].pc = "ok" =>
                         /\ linkedTo'[deviceId'] = OwnerOf(tokens)'
                         /\ \A u \in Tasks : Active(Link(u))' => AccountOf(Link(u))' = OwnerOf(tokens)'
  BY DEF EnsuredInv, Undisturbed
<1>t. /\ WebTypeOK /\ KnownInv /\ op \in [Tasks -> {"auth", "answer", "progress", NULL}]
      /\ linkedTo \in [Devices -> Accounts \cup {NULL}] /\ thread \in [Threads -> ThreadType]
      /\ linkReady \in Tasks \cup {NULL} /\ awaited' \in [Tasks -> Tasks \cup {NULL}]
      /\ cancelled \in [Tasks -> BOOLEAN]
      /\ deviceId \in Devices /\ NULL \notin Accounts \cup Tasks /\ NULL # "auth"
  BY TypeStep, WebAssumption DEF WebInv, WebTypeOK
<1>w. awaited'[t] \in Tasks
  BY <1>t
(* Its call has only just been made.                                        *)
<1>1. CASE op[t] # "auth"
  <2>1. UNCHANGED op \/ \E u \in Tasks : Start(u)
    BY EveryStep DEF Settle, AnswersSettled, Succeed, Unauthorized, Refreshed, NotRefreshed,
       LinkRequired, Conflict, Lose, ServerRejects, ServerLinks, ServerResolves, ServerRecords,
       SignIn, SignOut, SignedOut, Expire, vars, clientVars, taskVars
  <2>2. PICK u \in Tasks : Start(u)
    BY <1>1, <2>1
  <2>3. u = t
    BY <1>1, <1>t, <2>2 DEF Start
  <2>4. PICK o \in Operations : /\ op' = [op EXCEPT ![t] = o]
                                /\ o # "answer" => thread' = [thread EXCEPT ![Call(t)] =
                                                     [@ EXCEPT !.pc = "wait", !.others = Pending]]
    BY <2>2, <2>3 DEF Start
  <2>5. o = "auth"
    BY <1>t, <2>4
  <2>6. Call(t) \in Threads /\ thread[Call(t)] \in ThreadType
    BY <1>t, ThreadFields
  <2>7. [thread[Call(t)] EXCEPT !.pc = "wait", !.others = Pending].pc = "wait"
    BY <2>6 DEF ThreadType
  <2>8. thread'[Call(t)] = [thread[Call(t)] EXCEPT !.pc = "wait", !.others = Pending]
    BY <1>t, <2>4, <2>5, <2>6
  <2> QED
    BY <2>7, <2>8
<1>2. CASE op[t] = "auth"
  <2>u. /\ ~ cancelled[t] /\ OwnerOf(tokens)' = OwnerOf(tokens) /\ OwnerOf(tokens) \in Accounts
    <3>1. ~ cancelled[t] /\ OwnerOf(tokens)' = OwnerOf(tokens)
      BY <1>2, <1>t, UserStays
    <3>2. tokens # NULL /\ tokens \in Tokens /\ Known(tokens)
      BY <1>2, <1>t, <3>1 DEF OwnInv, KnownInv, WebTypeOK
    <3> QED
      BY <1>t, <3>1, <3>2, OwnersLast
  <2>l. linkedTo[deviceId] = OwnerOf(tokens) => linkedTo'[deviceId] = OwnerOf(tokens)'
    BY <1>t, <2>u, LinkedLasts
  <2>1. ASSUME thread'[Call(t)].pc = "link", thread'[Link(awaited'[t])].pc = "ok"
        PROVE  linkedTo'[deviceId'] = OwnerOf(tokens)'
    <3> DEFINE w == awaited[t]
               x == Link(w)
    <3>1. awaited'[t] = w /\ w \in Tasks /\ thread[Call(t)].pc = "link" /\ ~ cancelled[w]
          /\ thread'[x].pc = "ok" /\ x \in Threads
      BY <1>t, <1>w, <2>1, WaitBegins, CancelledLasts, ThreadFields
    <3> HIDE DEF w
    <3>2. CASE thread[x].pc = "ok"
      <4>1. Settling(w)
        BY <3>1, <3>2 DEF Settling, WaitingFor, Ended, w
      <4>2. UNCHANGED deviceId
        BY <1>t, <3>1, <4>1, SettlingAlone
      <4>3. Undisturbed(t) /\ linkedTo[deviceId] = OwnerOf(tokens)
        BY <1>2, <1>t, <2>u, <3>1, <3>2 DEF EnsuredInv, Undisturbed, w
      <4> QED
        BY <2>l, <4>2, <4>3
    <3>3. CASE thread[x].pc # "ok"
      <4>1. Succeed(x)
        <5>1. Stops(x)
          BY <1>t, <3>1, <3>3, ThreadSteps DEF Kept, SentAgain, Told, Refreshes
        <5> QED
          BY <3>1, <5>1, ThreadFields DEF Stops
      <4>2. thread[x].pc = "fetch" /\ thread[x].reply = "ok" /\ UNCHANGED deviceId
        BY <4>1 DEF Succeed, Answered
      <4>3. linkedTo[thread[x].device] = AccountOf(x) /\ thread[x].device = deviceId
        BY <3>1, <4>2 DEF WebInv, LinkInv, Active
      <4>4. op[w] # NULL
        BY <3>1, <4>2 DEF WebInv, StartedInv
      <4>5. AccountOf(x) = OwnerOf(tokens)
        BY <3>1, <4>2, <4>4 DEF OwnInv, Active
      <4> QED
        BY <2>l, <4>2, <4>3, <4>5
    <3> QED
      BY <3>2, <3>3
  <2>2. ASSUME thread'[Call(t)].pc = "ok"
        PROVE  /\ linkedTo'[deviceId'] = OwnerOf(tokens)'
               /\ \A u \in Tasks : Active(Link(u))' => AccountOf(Link(u))' = OwnerOf(tokens)'
    <3>1. Call(t) \in Threads /\ Call(t)[1] = t
      BY ThreadFields
    <3>2. CASE thread[Call(t)].pc = "ok"
      <4>1. awaited'[t] = awaited[t]
        BY <2>2, WaitBegins
      <4>2. Undisturbed(t)
        BY <1>2, <1>t, <1>w, <2>u, <4>1, CancelledLasts DEF Undisturbed
      <4>3. /\ linkedTo[deviceId] = OwnerOf(tokens) /\ UNCHANGED deviceId
            /\ \A u \in Tasks : Active(Link(u)) => AccountOf(Link(u)) = OwnerOf(tokens)
        BY <3>2, <4>2, DeviceStays DEF EnsuredInv
      <4>4. ASSUME NEW u \in Tasks, Active(Link(u))'
            PROVE  AccountOf(Link(u))' = OwnerOf(tokens)'
        <5>1. Link(u) \in Threads
          BY ThreadFields
        <5>2. CASE SentAgain(Link(u)) \/ Refreshes(Link(u))
          <6>1. thread'[Link(u)].token = tokens'
            BY <5>2 DEF SentAgain, Refreshes
          <6> QED
            BY <6>1 DEF AccountOf, OwnerOf
        <5>3. CASE Kept(Link(u)) \/ Told(Link(u))
          <6>1. Active(Link(u)) /\ thread'[Link(u)].token = thread[Link(u)].token
            BY <4>4, <5>3 DEF Kept, Told, Active
          <6> QED
            BY <2>u, <4>3, <5>1, <6>1, AccountsLast
        <5>4. ~ Stops(Link(u))
          BY <4>4 DEF Stops, Active, Ended
        <5> QED
          BY <1>t, <5>1, <5>2, <5>3, <5>4, ThreadSteps
      <4> QED
        BY <2>l, <4>3, <4>4
    <3>3. CASE thread[Call(t)].pc # "ok"
      <4>1. Stops(Call(t))
        BY <1>t, <2>2, <3>1, <3>3, ThreadSteps DEF Kept, SentAgain, Told, Refreshes
      <4>2. ~ Succeed(Call(t))
        BY <1>2 DEF Succeed, Answered, WebInv, StartedInv, Active
      <4>3. PICK v \in Tasks : Settle(v) /\ t \in WaitingFor(v) /\ LinkResult(v) = "ok"
        BY <2>2, <3>1, <4>1, <4>2 DEF Stops
      <4>4. /\ Settling(v) /\ awaited[t] = v /\ thread[Call(t)].pc = "link"
            /\ thread[Link(v)].pc = "ok"
        BY <4>3 DEF Settle, WaitingFor, LinkResult
      <4>5. UNCHANGED <<tokens, deviceId, awaited, cancelled, op>>
        BY <1>t, <4>4, SettlingAlone
      <4>6. Undisturbed(t) /\ linkedTo[deviceId] = OwnerOf(tokens)
        BY <1>2, <1>t, <4>4, <4>5 DEF EnsuredInv, Undisturbed
      <4>7. ASSUME NEW u \in Tasks, Active(Link(u))' PROVE FALSE
        <5>1. thread'[Link(u)] = thread[Link(u)]
          BY <4>3, ThreadFields DEF Settle
        <5>2. Active(Link(u))
          BY <4>7, <5>1 DEF Active
        <5>3. u = v
          BY <4>4, <5>2 DEF WebInv, LinkInv
        <5> QED
          BY <4>4, <5>2, <5>3 DEF Active
      <4> QED
        BY <2>l, <4>5, <4>6, <4>7
    <3> QED
      BY <3>2, <3>3
  <2> QED
    BY <2>1, <2>2
<1> QED
  BY <1>1, <1>2

\* EnsuredMeansLinked for any number of calls, people, sessions and faults: AuthMenu's
\* call ends well only when this device is linked to its user's account.
THEOREM EnsuredDevicesAreLinked == Spec => []EnsuredMeansLinked
<1>1. WebInv /\ EnsuredInv => EnsuredMeansLinked
  BY DEF WebInv, LinkInv, EnsuredInv, Undisturbed, EnsuredMeansLinked
<1> QED
  BY WebInvariant, OwnInit, OwnStep, EnsuredStep, <1>1, PTL DEF Spec

-----------------------------------------------------------------------------
(* Links and merges.  Every account with a device has a canonical row; a    *)
(* device id is given up only when it is linked.                            *)
RegisteredInv ==
  /\ \A d \in Devices : linkedTo[d] # NULL => primary[linkedTo[d]] # NULL
  /\ deviceId <= drawn
  /\ \A x \in Threads : LET d == thread[x].device
                        IN d # NULL => d <= drawn /\ (d # deviceId => linkedTo[d] # NULL)

(* The row that an answer was given is its account's, or will be when the   *)
(* account links the device.                                                *)
RowInv ==
  \A t \in Tasks : thread[Call(t)].net = "resolved" =>
    LET a == AccountOf(Call(t))
    IN /\ op[t] = "answer" /\ row[t] \in Devices
       /\ linkedTo[row[t]] = NULL => /\ row[t] = thread[Call(t)].device
                                     /\ a # NULL => primary[a] = NULL
       /\ a # NULL /\ linkedTo[row[t]] = a => primary[a] = row[t]

(* What is outstanding of a link acts for the present user, unless she has  *)
(* gone.                                                                    *)
SentInv ==
  /\ \A t \in Tasks : op[t] # NULL /\ ~ cancelled[t] /\ Outstanding(Link(t))
                        => AccountOf(Link(t)) = OwnerOf(tokens)
  /\ \A x \in Threads : thread[x].net \in {"sent", "resolved"} => thread[x].reply = "none"

(* AuthMenu's call waits for the answers of those who were here before.     *)
AuthInv ==
  \A t \in Tasks : op[t] = "auth" /\ ~ cancelled[t] =>
    \A u \in Tasks : op[u] = "answer" /\ Active(Call(u)) /\ AccountOf(Call(u)) # OwnerOf(tokens)
      => thread[Call(t)].pc = "wait" /\ u \in thread[Call(t)].others

(* A call of the page that needs the link, has no row yet except the one    *)
(* for the device id there is now; what links this id meanwhile acts for    *)
(* the same user, and an id that was given up is somebody else's.           *)
Needs(t) == \/ thread[Call(t)].pc = "fetch" /\ thread[Call(t)].reply = "linkRequired"
            \/ thread[Call(t)].pc = "link"
            \/ Outstanding(Link(t))
OwnLinks == linkedTo[deviceId] \in {NULL, OwnerOf(tokens)} =>
              \A w \in Tasks : Outstanding(Link(w)) /\ thread[Link(w)].device = deviceId
                                => AccountOf(Link(w)) = OwnerOf(tokens)
NeedInv ==
  \A t \in Tasks : op[t] \in {"answer", "progress"} /\ ~ cancelled[t] =>
    /\ thread[Call(t)].pc = "fetch" /\ thread[Call(t)].device # deviceId => OwnLinks
    /\ Needs(t) => /\ OwnLinks
                   /\ OwnerOf(tokens) # NULL /\ primary[OwnerOf(tokens)] \in {NULL, deviceId}
                   /\ Outstanding(Link(t)) =>
                        LET d == thread[Link(t)].device
                        IN d # deviceId => linkedTo[d] # OwnerOf(tokens)

MergeInv == RegisteredInv /\ RowInv /\ SentInv /\ AuthInv /\ NeedInv

(* The server links a device that nobody has, which becomes the canonical   *)
(* one of an account that has none.                                         *)
LEMMA LinkingStep ==
  ASSUME WebInv, [Next]_vars, ~ UNCHANGED <<linkedTo, primary>>
  PROVE  \E x \in Threads :
           LET a == AccountOf(x)
               d == thread[x].device
           IN /\ ServerLinks(x) /\ thread[x].net = "sent" /\ a \in Accounts /\ d \in Devices
              /\ linkedTo[d] = NULL /\ linkedTo' = [linkedTo EXCEPT ![d] = a]
              /\ primary' = [primary EXCEPT ![a] = IF @ = NULL THEN d ELSE @]
              /\ UNCHANGED <<tokens, deviceId, drawn, row, op, cancelled>>
<1>1. PICK x \in Threads : ServerLinks(x)
  BY EveryStep DEF Start, Settle, AnswersSettled, Succeed, Unauthorized, Refreshed,
     NotRefreshed, LinkRequired, Conflict, Lose, ServerRejects, ServerResolves, ServerRecords,
     SignIn, SignOut, SignedOut, Expire, vars, serverVars
<1>2. thread[x].net = "sent" /\ thread[x].device \in Devices /\ thread[x].token # NULL
  BY <1>1 DEF ServerLinks, Rejected, WebInv, KnownInv
<1>3. AccountOf(x) \in Accounts
  <2>1. thread[x].token.session \in 1 .. Len(sessions)
    BY <1>2 DEF WebInv, KnownInv, Known
  <2>2. sessions[thread[x].token.session] \in SessionType
    BY <2>1 DEF WebInv, WebTypeOK
  <2> QED
    BY <1>2, <2>2 DEF AccountOf, OwnerOf, SessionType
<1>4. linkedTo[thread[x].device] = NULL
  BY <1>1 DEF ServerLinks
<1> QED
  BY <1>1, <1>2, <1>3, <1>4 DEF ServerLinks, clientVars, taskVars

(* A device id is drawn after all that there were.                          *)
LEMMA DrawingStep ==
  ASSUME WebInv, [Next]_vars
  PROVE  \/ UNCHANGED <<deviceId, drawn>>
         \/ drawn' = drawn + 1 /\ deviceId' = drawn' /\ UNCHANGED <<linkedTo, primary>>
BY EveryStep DEF Start, Settle, AnswersSettled, Succeed, Unauthorized, Refreshed, NotRefreshed,
   LinkRequired, Conflict, Lose, ServerRejects, ServerLinks, ServerResolves, ServerRecords,
   SignIn, SignOut, SignedOut, Expire, vars, clientVars, serverVars

(* A thread has the device id it had, none, or the present one.             *)
LEMMA DeviceOfThread ==
  ASSUME WebInv, [Next]_vars, NEW x \in Threads
  PROVE  thread'[x].device \in {NULL, thread[x].device} \/ SentAgain(x)
<1>1. WebTypeOK /\ KnownInv
  BY DEF WebInv
<1> QED
  BY <1>1, ThreadSteps DEF Kept, Told, Refreshes, Stops

(* RegisteredInv is inductive under WebInv.                                 *)
LEMMA RegisteredStep == WebInv /\ RegisteredInv /\ [Next]_vars => RegisteredInv'
<1> SUFFICES ASSUME WebInv, RegisteredInv, [Next]_vars PROVE RegisteredInv'
  OBVIOUS
<1>t. /\ WebTypeOK /\ drawn \in Nat /\ deviceId \in Devices /\ NULL \notin Accounts \cup Devices
      /\ linkedTo \in [Devices -> Accounts \cup {NULL}] /\ primary \in [Accounts -> Devices \cup {NULL}]
      /\ drawn' \in Devices /\ deviceId' \in Devices
  BY TypeStep, WebAssumption DEF WebInv, WebTypeOK, Devices
<1>1. ASSUME NEW d \in Devices, linkedTo'[d] # NULL PROVE primary'[linkedTo'[d]] # NULL
  <2>1. CASE UNCHANGED <<linkedTo, primary>>
    BY <1>1, <2>1 DEF RegisteredInv
  <2>2. CASE ~ UNCHANGED <<linkedTo, primary>>
    <3>1. PICK e \in Devices, a \in Accounts :
            /\ linkedTo' = [linkedTo EXCEPT ![e] = a]
            /\ primary' = [primary EXCEPT ![a] = IF @ = NULL THEN e ELSE @]
      BY <2>2, LinkingStep
    <3> QED
      BY <1>1, <1>t, <3>1 DEF RegisteredInv
  <2> QED
    BY <2>1, <2>2
<1>2. deviceId' <= drawn' /\ drawn <= drawn'
  BY <1>t, DrawingStep DEF RegisteredInv, Devices
<1>3. ASSUME NEW x \in Threads, thread'[x].device # NULL
      PROVE  /\ thread'[x].device <= drawn'
             /\ thread'[x].device # deviceId' => linkedTo'[thread'[x].device] # NULL
  <2> DEFINE d == thread[x].device
  <2>1. CASE SentAgain(x)
    BY <1>2, <2>1 DEF SentAgain
  <2>2. CASE ~ SentAgain(x)
    <3>1. thread'[x].device = d /\ d \in Devices
      BY <1>3, <2>2, DeviceOfThread DEF WebInv, WebTypeOK, ThreadType
    <3>2. d <= drawn /\ (d # deviceId => linkedTo[d] # NULL)
      BY <1>3, <3>1 DEF RegisteredInv
    <3>3. d # deviceId' => linkedTo[d] # NULL
      <4>1. CASE deviceId' = deviceId
        BY <3>2, <4>1
      <4>2. CASE deviceId' # deviceId
        BY <3>2, <4>2, RotationStep
      <4> QED
        BY <4>1, <4>2
    <3>4. linkedTo[d] # NULL => linkedTo'[d] # NULL
      BY <1>t, <3>1, LinkedLasts
    <3>5. d <= drawn'
      BY <1>2, <1>t, <3>1, <3>2 DEF Devices
    <3> QED
      BY <3>1, <3>3, <3>4, <3>5
  <2> QED
    BY <2>1, <2>2
<1> QED
  BY <1>1, <1>2, <1>3 DEF RegisteredInv

(* The row of an answer is set when it is resolved, and cleared when it is  *)
(* written.                                                                 *)
LEMMA RowLasts ==
  ASSUME WebInv, [Next]_vars, NEW t \in Tasks, row'[t] # row[t]
  PROVE  \/ ServerResolves(Call(t))
         \/ thread'[Call(t)].net = "answered"
<1>t. row \in [Tasks -> Devices \cup {NULL}] /\ WebTypeOK
  BY DEF WebInv, WebTypeOK
<1>1. PICK x \in Threads : ServerResolves(x) \/ ServerRecords(x)
  BY EveryStep DEF Start, Settle, AnswersSettled, Succeed, Unauthorized, Refreshed, NotRefreshed,
     LinkRequired, Conflict, Lose, ServerRejects, ServerLinks,
     SignIn, SignOut, SignedOut, Expire, vars, serverVars
<1>2. CASE ServerResolves(x)
  <2>1. x[2] = "call" /\ (UNCHANGED row \/ row' = [row EXCEPT ![x[1]] = ResolvedRow(x)])
    BY <1>2 DEF ServerResolves
  <2>2. x[1] = t
    BY <1>t, <2>1
  <2> QED
    BY <1>2, <2>1, <2>2, ThreadFields
<1>3. CASE ServerRecords(x)
  <2>1. x[1] = t /\ thread[x].net = "resolved" /\ Reply(x, "ok")
    BY <1>t, <1>3 DEF ServerRecords
  <2>2. x = Call(t)
    BY <2>1, ThreadFields DEF WebInv, KnownInv
  <2> QED
    BY <1>t, <2>1, <2>2, ReplyFields DEF Replies
<1> QED
  BY <1>1, <1>2, <1>3

(* RowInv is inductive under WebInv.                                        *)
LEMMA RowStep ==
  WebInv /\ ProgressInv /\ RegisteredInv /\ RowInv /\ SentInv /\ [Next]_vars => RowInv'
<1> SUFFICES ASSUME WebInv, ProgressInv, RegisteredInv, RowInv, SentInv, [Next]_vars,
                    NEW t \in Tasks, thread'[Call(t)].net = "resolved"
             PROVE  LET a == AccountOf(Call(t))'
                    IN /\ op'[t] = "answer" /\ row'[t] \in Devices
                       /\ linkedTo'[row'[t]] = NULL => /\ row'[t] = thread'[Call(t)].device
                                                       /\ a # NULL => primary'[a] = NULL
                       /\ a # NULL /\ linkedTo'[row'[t]] = a => primary'[a] = row'[t]
  BY DEF RowInv
<1> DEFINE x == Call(t)
           a == AccountOf(x)
           d == thread[x].device
<1>t. /\ WebTypeOK /\ KnownInv /\ x \in Threads /\ x[1] = t /\ x[2] = "call"
      /\ linkedTo \in [Devices -> Accounts \cup {NULL}] /\ primary \in [Accounts -> Devices \cup {NULL}]
      /\ row \in [Tasks -> Devices \cup {NULL}] /\ NULL \notin Accounts \cup Devices
      /\ thread \in [Threads -> ThreadType] /\ NULL # "answer"
  BY ThreadFields, WebAssumption DEF WebInv, WebTypeOK, Devices
<1>a. a \in Accounts \cup {NULL}
  BY <1>t, OwnersLast DEF AccountOf, KnownInv, ThreadType
<1>1. CASE ServerResolves(x)
  <2>1. /\ row' = [row EXCEPT ![t] = ResolvedRow(x)] /\ ResolvedRow(x) # NULL /\ op[t] = "answer"
        /\ thread' = [thread EXCEPT ![x].net = "resolved"]
        /\ UNCHANGED <<linkedTo, primary, op>>
    <3>1. ~ Reply(x, "ok") /\ ~ Reply(x, "linkRequired")
      <4>1. ASSUME NEW r \in Replies, Reply(x, r) PROVE FALSE
        BY <1>t, <4>1, ReplyFields
      <4> QED
        BY <4>1 DEF Replies
    <3>2. UNCHANGED <<linkedTo, primary, clientVars>>
      BY <1>1 DEF ServerResolves
    <3>3. /\ row' = [row EXCEPT ![t] = ResolvedRow(x)] /\ ResolvedRow(x) # NULL /\ op[t] = "answer"
          /\ thread' = [thread EXCEPT ![x].net = "resolved"]
      BY <1>1, <1>t, <3>1 DEF ServerResolves
    <3> QED
      BY <3>2, <3>3 DEF clientVars, taskVars
  <2>2. d \in Devices
    <3>1. thread[x].net = "sent"
      BY <1>1 DEF ServerResolves
    <3> QED
      BY <1>t, <3>1 DEF KnownInv
  <2>3. thread'[x].token = thread[x].token /\ thread'[x].device = d
    BY <1>t, <2>1 DEF ThreadType
  <2>4. AccountOf(x)' = a
    BY <1>t, <2>3, AccountsLast
  <2>5. row'[t] = ResolvedRow(x)
    BY <1>t, <2>1
  <2>6. CASE a # NULL /\ primary[a] # NULL
    <3>1. ResolvedRow(x) = primary[a] /\ primary[a] \in Devices /\ linkedTo[primary[a]] = a
      BY <1>a, <1>t, <2>6 DEF ResolvedRow, ProgressInv
    <3> QED
      BY <2>1, <2>3, <2>4, <2>5, <2>6, <3>1
  <2>7. CASE ~ (a # NULL /\ primary[a] # NULL) /\ linkedTo[d] = NULL
    <3>1. ResolvedRow(x) = d
      BY <2>7 DEF ResolvedRow
    <3> QED
      BY <1>t, <2>1, <2>2, <2>3, <2>4, <2>5, <2>7, <3>1
  <2>8. CASE ~ (a # NULL /\ primary[a] # NULL) /\ linkedTo[d] # NULL
    <3>1. a = NULL /\ ResolvedRow(x) = primary[linkedTo[d]]
      BY <2>1, <2>8 DEF ResolvedRow
    <3>2. linkedTo[d] \in Accounts /\ primary[linkedTo[d]] \in Devices
          /\ linkedTo[primary[linkedTo[d]]] = linkedTo[d]
      BY <1>t, <2>1, <2>2, <2>8, <3>1 DEF ProgressInv
    <3> QED
      BY <1>t, <2>1, <2>2, <2>3, <2>4, <2>5, <2>8, <3>1, <3>2
  <2> QED
    BY <2>6, <2>7, <2>8
<1>2. CASE ~ ServerResolves(x)
  <2>1. /\ thread[x].net = "resolved" /\ thread'[x].token = thread[x].token
        /\ thread'[x].device = d
    <3>1. ~ Told(x) /\ ~ SentAgain(x)
      BY <1>2 DEF Told, SentAgain
    <3> QED
      BY <1>t, <3>1, ThreadSteps DEF Kept, Refreshes, Stops
  <2>2. row'[t] = row[t]
    BY <1>2, RowLasts
  <2>3. /\ op[t] = "answer" /\ row[t] \in Devices
        /\ linkedTo[row[t]] = NULL => /\ row[t] = d
                                      /\ a # NULL => primary[a] = NULL
        /\ a # NULL /\ linkedTo[row[t]] = a => primary[a] = row[t]
    BY <2>1 DEF RowInv
  <2>4. op'[t] = "answer" /\ AccountOf(x)' = a
    BY <1>t, <2>1, <2>3, OpLasts, AccountsLast
  <2>5. CASE UNCHANGED <<linkedTo, primary>>
    BY <2>1, <2>2, <2>3, <2>4, <2>5
  <2>6. CASE ~ UNCHANGED <<linkedTo, primary>>
    <3>1. PICK y \in Threads : /\ AccountOf(y) \in Accounts /\ thread[y].device \in Devices
                               /\ linkedTo[thread[y].device] = NULL
                               /\ linkedTo' = [linkedTo EXCEPT ![thread[y].device] = AccountOf(y)]
                               /\ primary' = [primary EXCEPT ![AccountOf(y)] =
                                                IF @ = NULL THEN thread[y].device ELSE @]
      BY <2>6, LinkingStep
    <3> DEFINE b == AccountOf(y)
               e == thread[y].device
    <3>2. e = deviceId /\ b \in Accounts
      BY <1>t, <3>1 DEF RegisteredInv
    <3>3. linkedTo'[row[t]] = (IF row[t] = e THEN b ELSE linkedTo[row[t]])
      BY <1>t, <2>3, <3>1
    <3>4. a # NULL => primary'[a] = IF a = b /\ primary[a] = NULL THEN e ELSE primary[a]
      BY <1>a, <1>t, <3>1
    <3>5. linkedTo[row[t]] = NULL => row[t] = e
      BY <1>t, <2>3, <3>2 DEF RegisteredInv
    <3>6. linkedTo'[row[t]] # NULL
      BY <1>t, <3>2, <3>3, <3>5
    <3>7. a # NULL /\ linkedTo'[row[t]] = a => primary'[a] = row[t]
      <4>1. CASE row[t] = e
        <5>1. linkedTo[row[t]] = NULL
          BY <3>1, <4>1
        <5> QED
          BY <2>3, <3>3, <3>4, <4>1, <5>1
      <4>2. CASE row[t] # e
        BY <1>t, <2>3, <3>3, <3>4, <4>2
      <4> QED
        BY <4>1, <4>2
    <3> QED
      BY <2>2, <2>3, <2>4, <3>6, <3>7
  <2> QED
    BY <2>5, <2>6
<1> QED
  BY <1>1, <1>2

(* SentInv is inductive under WebInv.                                       *)
LEMMA SentStep == WebInv /\ WaitInv /\ SentInv /\ [Next]_vars => SentInv'
<1> SUFFICES ASSUME WebInv, WaitInv, SentInv, [Next]_vars PROVE SentInv'
  OBVIOUS
<1>t. WebTypeOK /\ KnownInv
  BY DEF WebInv
<1>1. ASSUME NEW t \in Tasks, op'[t] # NULL, ~ cancelled'[t], Outstanding(Link(t))'
      PROVE  AccountOf(Link(t))' = OwnerOf(tokens)'
  <2> DEFINE x == Link(t)
  <2>1. CASE SentAgain(x) \/ Refreshes(x)
    BY <2>1 DEF SentAgain, Refreshes, AccountOf, OwnerOf
  <2>2. CASE ~ SentAgain(x) /\ ~ Refreshes(x)
    <3>1. x \in Threads
      BY ThreadFields
    <3>2. Outstanding(x) /\ thread'[x].token = thread[x].token
      BY <1>1, <1>t, <2>2, <3>1, ThreadSteps
         DEF Kept, Told, Stops, Outstanding, Active, Ended
    <3>3. op[t] # NULL
      BY <3>2 DEF WaitInv
    <3>4. AccountOf(x) = OwnerOf(tokens) /\ OwnerOf(tokens)' = OwnerOf(tokens)
      BY <1>1, <3>2, <3>3, UserStays DEF SentInv
    <3> QED
      BY <3>1, <3>2, <3>4, AccountsLast
  <2> QED
    BY <2>1, <2>2
<1>2. ASSUME NEW x \in Threads, thread'[x].net \in {"sent", "resolved"}
      PROVE  thread'[x].reply = "none"
  <2>1. thread[x].net \in {"sent", "resolved"} => thread[x].reply = "none"
    BY DEF SentInv
  <2> QED
    BY <1>2, <1>t, <2>1, ThreadSteps DEF Kept, SentAgain, Told, Refreshes, Stops
<1> QED
  BY <1>1, <1>2 DEF SentInv

(* AuthInv is inductive under WebInv.                                       *)
LEMMA AuthStep == WebInv /\ WaitInv /\ AuthInv /\ [Next]_vars => AuthInv'
<1> SUFFICES ASSUME WebInv, WaitInv, AuthInv, [Next]_vars,
                    NEW t \in Tasks, op'[t] = "auth", ~ cancelled'[t],
                    NEW u \in Tasks, op'[u] = "answer", Active(Call(u))',
                    AccountOf(Call(u))' # OwnerOf(tokens)'
             PROVE  thread'[Call(t)].pc = "wait" /\ u \in thread'[Call(t)].others
  BY DEF AuthInv
<1>t. /\ WebTypeOK /\ KnownInv /\ Call(u) \in Threads /\ Call(t) \in Threads
      /\ op \in [Tasks -> {"auth", "answer", "progress", NULL}] /\ NULL # "auth" /\ NULL # "answer"
      /\ thread \in [Threads -> ThreadType]
  BY ThreadFields, WebAssumption DEF WebInv, WebTypeOK
<1>1. Active(Call(u)) /\ thread'[Call(u)].token = thread[Call(u)].token
  <2>1. ~ SentAgain(Call(u)) /\ ~ Refreshes(Call(u))
    BY DEF SentAgain, Refreshes, AccountOf, OwnerOf
  <2>2. ~ Stops(Call(u))
    BY DEF Stops, Active, Ended
  <2> QED
    BY <1>t, <2>1, <2>2, ThreadSteps DEF Kept, Told, Active
<1>2. AccountOf(Call(u))' = AccountOf(Call(u))
  BY <1>1, <1>t, AccountsLast
<1>3. op[u] = "answer"
  <2>1. op[u] # NULL
    BY <1>1 DEF WebInv, StartedInv, Active
  <2> QED
    BY <1>t, <2>1, OpLasts
<1>4. u \in inFlightSubmissions
  BY <1>1, <1>3 DEF inFlightSubmissions, Active, Ended
<1>5. CASE op[t] # "auth"
  <2>1. Start(t)
    BY <1>5, <1>t, OpLasts
  <2>2. PICK o \in Operations : /\ op' = [op EXCEPT ![t] = o]
                                /\ o # "answer" => thread' = [thread EXCEPT ![Call(t)] =
                                                     [@ EXCEPT !.pc = "wait", !.others = Pending]]
    BY <2>1 DEF Start
  <2>3. thread'[Call(t)] = [thread[Call(t)] EXCEPT !.pc = "wait", !.others = Pending]
    BY <1>t, <2>2
  <2>4. thread[Call(t)] \in ThreadType
    BY <1>t
  <2> QED
    BY <1>4, <2>3, <2>4 DEF ThreadType, Pending
<1>6. CASE op[t] = "auth"
  <2>1. ~ cancelled[t] /\ OwnerOf(tokens)' = OwnerOf(tokens)
    BY <1>6, <1>t, UserStays
  <2>2. thread[Call(t)].pc = "wait" /\ u \in thread[Call(t)].others
    BY <1>1, <1>2, <1>3, <1>6, <2>1 DEF AuthInv
  <2>3. ~ AnswersSettled(Call(t))
    BY <1>4, <2>2 DEF AnswersSettled
  <2> QED
    BY <2>2, <2>3, WaitingLasts
<1> QED
  BY <1>5, <1>6

(* Links that act for the present user go on doing so.                      *)
LEMMA OwnLinksLast ==
  ASSUME WebInv, RegisteredInv, [Next]_vars, OwnerOf(tokens)' = OwnerOf(tokens),
         OwnLinks \/ deviceId' # deviceId
  PROVE  OwnLinks'
<1> SUFFICES ASSUME linkedTo'[deviceId'] \in {NULL, OwnerOf(tokens)'},
                    NEW w \in Tasks, Outstanding(Link(w))', thread'[Link(w)].device = deviceId'
             PROVE  AccountOf(Link(w))' = OwnerOf(tokens)'
  BY DEF OwnLinks
<1> DEFINE x == Link(w)
<1>t. /\ WebTypeOK /\ KnownInv /\ x \in Threads /\ deviceId \in Devices /\ deviceId' \in Devices
      /\ NULL \notin Devices /\ drawn \in Nat /\ thread[x].device \in Devices \cup {NULL}
  BY TypeStep, ThreadFields, WebAssumption DEF WebInv, WebTypeOK, Devices, ThreadType
<1>1. CASE SentAgain(x) \/ Refreshes(x)
  BY <1>1 DEF SentAgain, Refreshes, AccountOf, OwnerOf
<1>2. CASE ~ SentAgain(x) /\ ~ Refreshes(x)
  <2>1. /\ Outstanding(x) /\ thread'[x].token = thread[x].token
        /\ thread[x].device = deviceId'
    BY <1>2, <1>t, ThreadSteps DEF Kept, Told, Stops, Outstanding, Active, Ended
  <2>2. deviceId' <= drawn
    BY <1>t, <2>1 DEF RegisteredInv
  <2>3. deviceId' = deviceId
    BY <1>t, <2>2, DrawingStep DEF Devices
  <2>4. linkedTo[deviceId] \in {NULL, OwnerOf(tokens)}
    BY <1>t, <2>3, LinkedLasts
  <2>5. AccountOf(x) = OwnerOf(tokens)
    BY <2>1, <2>3, <2>4 DEF OwnLinks
  <2> QED
    BY <1>t, <2>1, <2>5, AccountsLast
<1> QED
  BY <1>1, <1>2

(* The link is started for a call that has been told that it needs it.      *)
LEMMA EnsureNeeds ==
  ASSUME WebInv, [Next]_vars, NEW t \in Tasks, op[t] # "auth", ensureLinkReady(t)
  PROVE  Needs(t)
<1>1. /\ WebTypeOK /\ KnownInv /\ Call(t) \in Threads
  BY ThreadFields DEF WebInv
<1>2. thread'[Call(t)].pc = "link"
  BY <1>1, EnsureFields, WaitingFields
<1>3. CASE thread[Call(t)].pc = "link"
  BY <1>3 DEF Needs
<1>4. CASE thread[Call(t)].pc # "link"
  <2>1. Stops(Call(t))
    BY <1>1, <1>2, <1>4, ThreadSteps DEF Kept, SentAgain, Told, Refreshes
  <2>2. PICK u \in Tasks : /\ Call(t) = Call(u)
                           /\ op[u] = "auth" \/ \E y \in Threads : y[1] = u /\ LinkRequired(y)
    BY <1>2, <2>1 DEF Stops
  <2>3. PICK y \in Threads : y[1] = t /\ LinkRequired(y)
    BY <2>2, ThreadFields
  <2>4. thread[y].pc = "fetch" /\ thread[y].reply = "linkRequired" /\ (y = Call(t) \/ y = Link(t))
    BY <2>3, ThreadFields DEF LinkRequired, Answered
  <2> QED
    BY <2>4 DEF Needs, Outstanding, Active
<1> QED
  BY <1>3, <1>4

(* A call comes to need the link when the server finds no row for it.       *)
LEMMA NeedsBegin ==
  ASSUME WebInv, WaitInv, SentInv, [Next]_vars, NEW t \in Tasks, op[t] # "auth", Needs(t)', ~ Needs(t)
  PROVE  /\ ServerResolves(Call(t)) /\ ResolvedRow(Call(t)) = NULL
         /\ thread[Call(t)].pc = "fetch" /\ ~ Outstanding(Link(t))'
<1> DEFINE x == Call(t)
<1>t. WebTypeOK /\ KnownInv /\ x \in Threads
  BY ThreadFields DEF WebInv
<1>1. ~ ensureLinkReady(t)
  BY EnsureNeeds
<1>2. ~ Outstanding(Link(t))'
  BY <1>1, LinkBegins DEF Needs
<1>3. thread'[x].pc # "link"
  <2>1. ASSUME thread'[x].pc = "link" PROVE ~ Stops(x)
    BY <1>1, <2>1, ThreadFields DEF Stops
  <2> QED
    BY <1>t, <2>1, ThreadSteps DEF Kept, SentAgain, Told, Refreshes, Needs
<1>4. thread'[x].pc = "fetch" /\ thread'[x].reply = "linkRequired"
  BY <1>2, <1>3 DEF Needs
<1>5. Told(x)
  <2>1. ~ Kept(x)
    BY <1>4 DEF Kept, Needs
  <2>2. ~ SentAgain(x) /\ ~ Refreshes(x) /\ ~ Stops(x)
    BY <1>4 DEF SentAgain, Refreshes, Stops, Ended
  <2> QED
    BY <1>t, <2>1, <2>2, ThreadSteps
<1> QED
  BY <1>2, <1>4, <1>5 DEF Told, Needs

(* Who the present user's link makes way for keeps the device id.           *)
LEMMA RotationSpares ==
  ASSUME WebInv, [Next]_vars, OwnLinks, deviceId' # deviceId
  PROVE  linkedTo[deviceId] # OwnerOf(tokens) /\ UNCHANGED <<linkedTo, primary>>
<1>1. PICK x \in Threads : /\ linkedTo[deviceId] \notin {NULL, AccountOf(x)}
                           /\ x[2] = "link" /\ thread[x].pc = "fetch"
  BY RotationStep
<1>2. x = Link(x[1]) /\ x[1] \in Tasks
  BY <1>1, ThreadFields
<1>3. Active(x) /\ thread[x].device = deviceId
  BY <1>1, <1>2 DEF WebInv, LinkInv, Active
<1>4. linkedTo[deviceId] # OwnerOf(tokens)
  BY <1>1, <1>2, <1>3 DEF OwnLinks, Outstanding
<1> QED
  BY <1>4, DrawingStep

(* NeedInv is inductive under the others.                                   *)
LEMMA NeedStep ==
  WebInv /\ OwnInv /\ ProgressInv /\ WaitInv /\ RegisteredInv /\ SentInv /\ NeedInv /\ [Next]_vars => NeedInv'
<1> SUFFICES ASSUME WebInv, OwnInv, ProgressInv, WaitInv, RegisteredInv, SentInv, NeedInv, [Next]_vars,
                    NEW t \in Tasks, op'[t] \in {"answer", "progress"}, ~ cancelled'[t]
             PROVE  /\ thread'[Call(t)].pc = "fetch" /\ thread'[Call(t)].device # deviceId' => OwnLinks'
                    /\ Needs(t)' =>
                         /\ OwnLinks'
                         /\ OwnerOf(tokens)' # NULL /\ primary'[OwnerOf(tokens)'] \in {NULL, deviceId'}
                         /\ Outstanding(Link(t))' /\ thread'[Link(t)].device # deviceId'
                              => linkedTo'[thread'[Link(t)].device] # OwnerOf(tokens)'
  <2>1. \A y \in Tasks : Needs(y)' <=> \/ thread'[Call(y)].pc = "fetch" /\ thread'[Call(y)].reply = "linkRequired"
                                      \/ thread'[Call(y)].pc = "link"
                                      \/ Outstanding(Link(y))'
    BY DEF Needs
  <2> QED
    BY DEF NeedInv
<1> DEFINE x == Call(t)
           y == Link(t)
           a == OwnerOf(tokens)
           d == thread[x].device
<1>t. /\ WebTypeOK /\ KnownInv /\ x \in Threads /\ y \in Threads /\ NULL \notin Accounts \cup Devices
      /\ linkedTo \in [Devices -> Accounts \cup {NULL}] /\ primary \in [Accounts -> Devices \cup {NULL}]
      /\ deviceId \in Devices /\ tokens \in Tokens /\ NULL \notin {"answer", "progress"}
      /\ op \in [Tasks -> {"auth", "answer", "progress", NULL}]
      /\ Known(tokens)
  BY ThreadFields, WebAssumption DEF WebInv, WebTypeOK, Devices, KnownInv
<1>a. a \in Accounts \cup {NULL}
  BY <1>t, OwnersLast
<1>1. ASSUME op[t] # NULL
      PROVE  op[t] \in {"answer", "progress"} /\ ~ cancelled[t] /\ OwnerOf(tokens)' = a
  BY <1>1, <1>t, UserStays
<1>2. ASSUME thread'[x].pc = "fetch", thread'[x].device # deviceId' PROVE OwnLinks'
  <2>1. thread[x].pc = "fetch" /\ d = thread'[x].device
    BY <1>2, <1>t, ThreadSteps DEF Kept, SentAgain, Told, Refreshes, Stops, Ended
  <2>2. op[t] # NULL
    BY <2>1 DEF WebInv, StartedInv
  <2>3. OwnLinks \/ deviceId' # deviceId
    BY <1>1, <1>2, <2>1, <2>2 DEF NeedInv
  <2> QED
    BY <1>1, <2>2, <2>3, OwnLinksLast
<1>3. ASSUME Needs(t)
      PROVE  /\ OwnLinks'
             /\ OwnerOf(tokens)' # NULL /\ primary'[OwnerOf(tokens)'] \in {NULL, deviceId'}
             /\ Outstanding(y)' /\ thread'[y].device # deviceId'
                  => linkedTo'[thread'[y].device] # OwnerOf(tokens)'
  <2>1. op[t] # NULL
    BY <1>3 DEF Needs, WebInv, StartedInv, WaitInv
  <2>2. /\ OwnLinks /\ a # NULL /\ primary[a] \in {NULL, deviceId} /\ OwnerOf(tokens)' = a
        /\ Outstanding(y) /\ thread[y].device # deviceId => linkedTo[thread[y].device] # a
    BY <1>1, <1>3, <2>1 DEF NeedInv
  <2>3. OwnLinks'
    BY <2>2, OwnLinksLast
  <2>4. primary'[a] \in {NULL, deviceId'}
    <3>1. CASE deviceId' # deviceId
      <4>1. linkedTo[deviceId] # a /\ UNCHANGED primary
        BY <2>2, <3>1, RotationSpares
      <4>2. primary[a] # deviceId
        BY <1>a, <1>t, <2>2, <4>1 DEF ProgressInv
      <4> QED
        BY <2>2, <4>1, <4>2
    <3>2. CASE deviceId' = deviceId /\ UNCHANGED <<linkedTo, primary>>
      BY <2>2, <3>2
    <3>3. CASE deviceId' = deviceId /\ ~ UNCHANGED <<linkedTo, primary>>
      <4>1. PICK z \in Threads : /\ AccountOf(z) \in Accounts /\ thread[z].device \in Devices
                                 /\ linkedTo[thread[z].device] = NULL
                                 /\ primary' = [primary EXCEPT ![AccountOf(z)] =
                                                  IF @ = NULL THEN thread[z].device ELSE @]
        BY <3>3, LinkingStep
      <4>2. thread[z].device = deviceId
        BY <1>t, <4>1 DEF RegisteredInv
      <4> QED
        BY <1>a, <1>t, <2>2, <3>3, <4>1, <4>2
    <3> QED
      BY <3>1, <3>2, <3>3
  <2>5. ASSUME Outstanding(y)', thread'[y].device # deviceId'
        PROVE  linkedTo'[thread'[y].device] # a
    <3> DEFINE e == thread[y].device
    <3>1. Outstanding(y) /\ thread'[y].device = e
      BY <1>t, <2>5, ThreadSteps DEF Kept, SentAgain, Told, Refreshes, Stops, Outstanding, Active, Ended
    <3>2. e \in Devices
      <4>1. CASE Active(y)
        BY <1>t, <4>1 DEF WebInv, LinkInv
      <4>2. CASE thread[y].net = "sent"
        BY <1>t, <4>2 DEF KnownInv
      <4> QED
        BY <3>1, <4>1, <4>2 DEF Outstanding
    <3>3. linkedTo[e] # NULL => linkedTo'[e] = linkedTo[e]
      BY <1>t, <3>2, LinkedLasts
    <3>4. CASE e # deviceId
      <4>1. linkedTo[e] # NULL /\ linkedTo[e] # a
        BY <1>t, <2>2, <3>1, <3>2, <3>4 DEF RegisteredInv
      <4> QED
        BY <3>1, <3>3, <4>1
    <3>5. CASE e = deviceId
      <4>1. deviceId' # deviceId
        BY <2>5, <3>1, <3>5
      <4>2. linkedTo[e] # a /\ UNCHANGED linkedTo
        BY <2>2, <3>5, <4>1, RotationSpares
      <4> QED
        BY <3>1, <4>2
    <3> QED
      BY <3>4, <3>5
  <2> QED
    BY <2>2, <2>3, <2>4, <2>5
<1>4. ASSUME Needs(t)', ~ Needs(t)
      PROVE  /\ OwnLinks' /\ ~ Outstanding(y)'
             /\ OwnerOf(tokens)' # NULL /\ primary'[OwnerOf(tokens)'] \in {NULL, deviceId'}
  <2>0. op[t] # "auth"
    <3>1. CASE op[t] = NULL
      BY <1>t, <3>1, WebAssumption
    <3>2. CASE op[t] # NULL
      BY <1>1, <3>2
    <3> QED
      BY <3>1, <3>2
  <2>1. /\ ServerResolves(x) /\ ResolvedRow(x) = NULL
        /\ thread[x].pc = "fetch" /\ ~ Outstanding(y)'
    BY <1>4, <2>0, NeedsBegin
  <2>2. UNCHANGED <<linkedTo, primary, tokens, deviceId>> /\ thread[x].net = "sent"
    BY <2>1 DEF ServerResolves, clientVars
  <2>3. op[t] # NULL
    BY <2>1 DEF WebInv, StartedInv
  <2>4. AccountOf(x) = a /\ OwnerOf(tokens)' = a
    BY <1>1, <2>1, <2>3 DEF OwnInv, Active
  <2>5. d \in Devices
    BY <1>t, <2>2 DEF KnownInv
  <2>6. linkedTo[d] # NULL /\ a # NULL /\ primary[a] = NULL
    <3>1. linkedTo[d] # NULL
      BY <1>t, <2>1, <2>4, <2>5 DEF ResolvedRow
    <3>2. primary[linkedTo[d]] # NULL
      BY <2>5, <3>1 DEF RegisteredInv
    <3> QED
      BY <2>1, <2>4, <3>1, <3>2 DEF ResolvedRow
  <2>7. linkedTo[d] # a
    BY <2>5, <2>6 DEF RegisteredInv
  <2>8. OwnLinks
    <3>1. CASE d = deviceId
      BY <2>6, <2>7, <3>1 DEF OwnLinks
    <3>2. CASE d # deviceId
      BY <1>1, <2>1, <2>3, <3>2 DEF NeedInv
    <3> QED
      BY <3>1, <3>2
  <2>9. OwnLinks'
    BY <2>4, <2>8, OwnLinksLast
  <2> QED
    BY <2>1, <2>2, <2>4, <2>6, <2>9
<1> QED
  BY <1>2, <1>3, <1>4

(* Before the first call nothing is outstanding.                            *)
LEMMA MergeInit == Init => MergeInv
<1> SUFFICES ASSUME Init PROVE MergeInv
  OBVIOUS
<1>1. /\ \A x \in Threads : /\ thread[x].pc = "none" /\ thread[x].net = "none"
                            /\ thread[x].reply = "none" /\ thread[x].device = NULL
      /\ \A t \in Tasks : op[t] = NULL /\ NULL \notin {"auth", "answer", "progress"}
  BY WebAssumption DEF Init, Idle
<1>2. \A d \in Devices : linkedTo[d] # NULL => primary[linkedTo[d]] # NULL
  <2>1. ASSUME NEW d \in Devices, linkedTo[d] # NULL PROVE primary[linkedTo[d]] # NULL
    <3>1. linkedTo[d] \in Accounts
      BY <2>1 DEF Init
    <3>2. primary[linkedTo[d]] \in {e \in Devices : linkedTo[e] = linkedTo[d]}
      BY <2>1, <3>1 DEF Init
    <3> QED
      BY <3>2, WebAssumption DEF Devices
  <2> QED
    BY <2>1
<1>3. RegisteredInv
  BY <1>1, <1>2 DEF RegisteredInv, Init
<1>4. RowInv /\ SentInv /\ AuthInv /\ NeedInv
  BY <1>1, ThreadFields DEF RowInv, SentInv, AuthInv, NeedInv
<1> QED
  BY <1>3, <1>4 DEF MergeInv

(* What a link that is still wanted merges is not what an answer goes to.   *)
LEMMA MergeStep ==
  ASSUME WebInv, OwnInv, ProgressInv, WaitInv, MergeInv, [Next]_vars,
         NEW t \in Tasks, thread[Link(t)].net = "sent", thread'[Link(t)].reply = "ok", ~ cancelled[t],
         NEW u \in Tasks, thread[Call(u)].pc = "fetch", thread[Call(u)].net = "resolved",
         row[u] = thread[Link(t)].device
  PROVE  primary'[linkedTo'[row[u]]] = row[u]
<1> DEFINE x == Link(t)
           d == thread[x].device
           a == AccountOf(x)
<1>t. /\ WebTypeOK /\ KnownInv /\ x \in Threads /\ x[2] = "link" /\ NULL \notin Accounts \cup Devices
      /\ linkedTo \in [Devices -> Accounts \cup {NULL}] /\ primary \in [Accounts -> Devices \cup {NULL}]
      /\ op \in [Tasks -> {"auth", "answer", "progress", NULL}]
  BY ThreadFields, WebAssumption DEF WebInv, WebTypeOK, Devices
<1>1. thread[x].reply = "none"
  BY <1>t DEF MergeInv, SentInv
<1>2. ServerLinks(x) /\ linkedTo[d] \in {NULL, a}
  <2>1. Told(x)
    BY <1>1, <1>t, ThreadSteps DEF Kept, SentAgain, Refreshes, Stops
  <2> QED
    BY <1>t, <2>1 DEF Told
<1>3. d \in Devices /\ thread[x].token # NULL
  BY <1>t, <1>2 DEF ServerLinks, Rejected, KnownInv
<1>4. op[t] # NULL /\ Outstanding(x)
  BY DEF Outstanding, WaitInv
<1>5. a = OwnerOf(tokens)
  BY <1>4 DEF MergeInv, SentInv
<1>6. a \in Accounts
  <2>1. thread[x].token.session \in 1 .. Len(sessions)
    BY <1>3, <1>t DEF KnownInv, Known
  <2>2. sessions[thread[x].token.session] \in SessionType
    BY <1>t, <2>1 DEF WebTypeOK
  <2> QED
    BY <1>3, <2>2 DEF AccountOf, OwnerOf, SessionType
<1>7. /\ linkedTo[d] = NULL => primary[a] = NULL
      /\ linkedTo[d] = a => primary[a] = d
  <2>1. CASE op[t] = "auth"
    <3>1. op[u] = "answer" /\ Active(Call(u))
      BY DEF MergeInv, RowInv, Active
    <3>2. thread[Call(t)].pc # "wait"
      BY <1>4 DEF WaitInv
    <3>3. AccountOf(Call(u)) = a
      BY <1>5, <2>1, <3>1, <3>2 DEF MergeInv, AuthInv
    <3> QED
      BY <1>6, <1>t, <3>3 DEF MergeInv, RowInv
  <2>2. CASE op[t] # "auth"
    <3>1. Needs(t) /\ op[t] \in {"answer", "progress"}
      BY <1>4, <1>t, <2>2 DEF Needs
    <3>2. primary[a] \in {NULL, deviceId} /\ (d # deviceId => linkedTo[d] # a)
      BY <1>4, <1>5, <3>1 DEF MergeInv, NeedInv
    <3>3. CASE linkedTo[d] = NULL
      <4>1. d = deviceId
        BY <1>3, <1>t, <3>3 DEF MergeInv, RegisteredInv
      <4>2. primary[a] # deviceId
        BY <1>3, <1>6, <1>t, <3>3, <4>1 DEF ProgressInv
      <4> QED
        BY <1>6, <1>t, <3>2, <3>3, <4>2
    <3>4. CASE linkedTo[d] = a
      BY <1>3, <1>6, <1>t, <3>2, <3>4 DEF MergeInv, RegisteredInv
    <3> QED
      BY <1>2, <3>3, <3>4
  <2> QED
    BY <2>1, <2>2
<1>8. linkedTo'[d] = a /\ primary'[a] = d
  <2>1. CASE linkedTo[d] = NULL
    <3>1. /\ linkedTo' = [linkedTo EXCEPT ![d] = a]
          /\ primary' = [primary EXCEPT ![a] = IF @ = NULL THEN d ELSE @]
      BY <1>2, <2>1 DEF ServerLinks
    <3> QED
      BY <1>3, <1>6, <1>7, <1>t, <2>1, <3>1
  <2>2. CASE linkedTo[d] # NULL
    <3>1. UNCHANGED <<linkedTo, primary>>
      BY <1>2, <2>2 DEF ServerLinks
    <3> QED
      BY <1>2, <1>7, <2>2, <3>1
  <2> QED
    BY <2>1, <2>2
<1> QED
  BY <1>8

\* MergeMissesNothing for any number of calls, people, device ids, sessions and faults: a
\* link of the present user that is told ok leaves every answer on its way with a row that
\* is still read, for AuthMenu's link waited for the answers of those who were here before
\* and any other link is of an account that has no row but this device's.
THEOREM MergesMissNothing == Spec => MergeMissesNothing
<1>1. WebInv /\ OwnInv /\ ProgressInv /\ WaitInv /\ MergeInv /\ [Next]_vars => MergeInv'
  BY RegisteredStep, RowStep, SentStep, AuthStep, NeedStep DEF MergeInv
<1>2. WebInv /\ OwnInv /\ ProgressInv /\ WaitInv /\ MergeInv /\ [Next]_vars =>
        [\A t \in Tasks :
           LET x == Link(t)
               d == thread[x].device
           IN thread[x].net = "sent" /\ thread'[x].reply = "ok" /\ ~ cancelled[t] =>
                \A u \in thread[x].others :
                  thread[Call(u)].pc = "fetch" /\ thread[Call(u)].net = "resolved" /\ row[u] = d
                    => primary'[linkedTo'[d]] = d]_vars
  <2>1. ASSUME WebInv, NEW t \in Tasks PROVE thread[Link(t)].others \subseteq Tasks
    BY <2>1, ThreadFields DEF WebInv, WebTypeOK, ThreadType
  <2> QED
    BY <2>1, MergeStep
<1> QED
  BY WebInvariant, OwnInit, OwnStep, ProgressStep, WaitInit, WaitStep, MergeInit, <1>1, <1>2, PTL
     DEF Spec, MergeMissesNothing

=============================================================================

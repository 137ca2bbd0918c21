-------------------------- MODULE IosClientProofs ---------------------------
(***************************************************************************)
(* What the iOS app promises about the account and about answers, for any  *)
(* number of tasks, accounts, sign-ins, device ids and calls.              *)
(***************************************************************************)
EXTENDS IosClient, TLAPS

-----------------------------------------------------------------------------
(* The types.                                                               *)
Tokens == {NULL} \cup [session : 1 .. MaxSessions, number : Nat]
SessionType == [owner : Accounts, number : Nat, expired : Nat, revoked : BOOLEAN]
Ops == {"launch", "link", "answer", "signIn", "signOut", NULL}
Requests == {"signIn", "revoke", "getId", "refresh", "fetch", NULL}
Replies == {"none", "ok", "terminal", "unauthorized", "conflict", "linkRequired"}
TaskType ==
  [op : Ops, pc : {"idle", "ensureLinked", "await", "lost"}, request : Requests,
   net : {"none", "sent", "answered"}, reply : Replies,
   token : Tokens, device : Devices \cup {NULL}, rotated : BOOLEAN, retried : BOOLEAN,
   begun : (1 .. MaxSessions) \cup {NULL}]

IosTypeOK ==
  /\ tokens \in Tokens /\ pending \in BOOLEAN /\ state \in {"idle", "linking", "failed"}
  /\ cached \in Devices \cup {NULL} /\ keychain \in Devices \cup {NULL} /\ drawn \in Devices
  /\ task \in [Tasks -> TaskType]
  /\ sessions \in Seq(SessionType)
  /\ linkedTo \in [Devices -> Accounts \cup {NULL}] /\ primary \in [Accounts -> Devices \cup {NULL}]
  /\ recorded \in SUBSET Devices /\ late \in BOOLEAN /\ raced \in BOOLEAN

(* Cognito knows the session of every token there is.                       *)
Known(tk) == tk # NULL => tk.session \in 1 .. Len(sessions)
KnownInv ==
  /\ Len(sessions) <= MaxSessions
  /\ Known(tokens)
  /\ \A t \in Tasks : /\ Known(task[t].token)
                      /\ task[t].begun # NULL => task[t].begun \in 1 .. Len(sessions)

(* What a task waits for, and what it carries.                              *)
Linking(t) == task[t].op \in Links /\ task[t].pc = "await"
Calls(t) == task[t].request \in {"fetch", "refresh"} /\ task[t].pc \in {"await", "lost"}
RequestInv ==
  \A t \in Tasks :
    /\ task[t].pc \in {"idle", "ensureLinked"} => task[t].net = "none"
    /\ task[t].pc = "ensureLinked" => task[t].op \in Links
    /\ task[t].pc = "lost" => task[t].request = "fetch"
    /\ task[t].pc = "await" /\ task[t].request \in {"refresh", "revoke"} => task[t].token # NULL
    /\ Linking(t) => task[t].request \in {"getId", "refresh", "fetch"}
    /\ task[t].net = "answered" => task[t].pc = "await"
    /\ Calls(t) => task[t].device \in Devices

(* One link at a time, and the coordinator knows of it.                     *)
LinkInv ==
  /\ \A t \in Tasks : Linking(t) => state = "linking" /\ \A u \in Tasks : Linking(u) => u = t
  /\ state = "linking" => \E t \in Tasks : Linking(t)

(* A sign-in that was answered is of a session that nothing else is of.     *)
FreshInv ==
  \A t \in Tasks : Answered(t, "signIn", "ok") =>
    /\ task[t].token # NULL
    /\ tokens # NULL => tokens.session # task[t].token.session
    /\ \A u \in Tasks :
         /\ task[u].begun # task[t].token.session
         /\ u # t /\ task[u].token # NULL => task[u].token.session # task[t].token.session

(* What the server has answered a link is still so.                         *)
ServerInv ==
  /\ \A a \in Accounts : primary[a] # NULL => linkedTo[primary[a]] = a
  /\ \A t \in Tasks :
       /\ Answered(t, "fetch", "conflict") => task[t].op \in Links /\ linkedTo[task[t].device] # NULL
       /\ Answered(t, "fetch", "ok") /\ task[t].op \in Links =>
            task[t].token # NULL /\ linkedTo[task[t].device] = AccountOf(t)

IosInv == IosTypeOK /\ KnownInv /\ RequestInv /\ LinkInv /\ FreshInv /\ ServerInv

(* The device id of the Keychain is only replaced when its row is in an     *)
(* account; what was sent, and what was recorded, is under it or is in an   *)
(* account.                                                                 *)
DeviceInv ==
  /\ cached \in {NULL, keychain}
  /\ ~ raced =>
       /\ cached = NULL /\ keychain # NULL => linkedTo[keychain] # NULL
       /\ \A t \in Tasks :
            /\ Calls(t) => linkedTo[task[t].device] # NULL \/ task[t].device = keychain
            /\ Calls(t) /\ Linking(t) => task[t].device = cached
       /\ \A d \in recorded : linkedTo[d] # NULL \/ d = keychain

(* An answer of the current session carries a token of that session.        *)
AnswerInv ==
  ~ late => \A t \in Tasks :
    task[t].op = "answer" /\ Calls(t) /\ task[t].begun # NULL /\ task[t].begun = CurrentSession
      => task[t].token # NULL /\ task[t].token.session = task[t].begun

(* A link that is due: someone does it or it is offered; none is due:       *)
(* nobody does it any more, so that the device id stays the linked one.     *)
DueInv ==
  /\ tokens = NULL /\ pending => \A t \in Tasks : ~ Awaits(t, "refresh")
  /\ tokens # NULL /\ pending => Offered
  /\ tokens # NULL /\ ~ pending /\ ~ late /\ ~ raced =>
       Linked /\ cached = keychain /\ \A t \in Tasks : ~ Linking(t)

-----------------------------------------------------------------------------
(* What the records of tasks become.                                        *)
LEMMA IdleType == Idle \in TaskType /\ Launch \in TaskType
BY DEF Idle, Launch, TaskType, Tokens, Ops, Requests, Replies

(* A request that was just sent.                                            *)
LEMMA AwaitFields ==
  ASSUME NEW r \in TaskType, NEW q \in Requests
  PROVE  LET w == Await(r, q)
         IN /\ w \in TaskType
            /\ w.pc = "await" /\ w.request = q /\ w.net = "sent" /\ w.reply = "none"
            /\ w.op = r.op /\ w.token = r.token /\ w.device = r.device /\ w.begun = r.begun
BY DEF Await, TaskType, Replies

(* A call with the device id d and the tokens there are.                    *)
LEMMA CallFields ==
  ASSUME IosTypeOK, NEW r \in TaskType, NEW d \in Devices
  PROVE  LET w == validIdToken(r, d)
         IN /\ w \in TaskType
            /\ w.pc = "await" /\ w.request \in {"refresh", "fetch"} /\ w.net = "sent" /\ w.reply = "none"
            /\ w.op = r.op /\ w.token = tokens /\ w.device = d /\ w.begun = r.begun
            /\ w.request = "refresh" => tokens # NULL
<1> DEFINE s == [r EXCEPT !.device = d, !.token = tokens]
           q == IF tokens # NULL /\ isExpired(tokens) THEN "refresh" ELSE "fetch"
<1>1. s \in TaskType /\ s.device = d /\ s.token = tokens /\ s.op = r.op /\ s.begun = r.begun
  BY DEF IosTypeOK, TaskType
<1>2. q \in {"refresh", "fetch"} /\ (q = "refresh" => tokens # NULL)
  OBVIOUS
<1>3. q \in Requests
  BY <1>2 DEF Requests
<1>4. validIdToken(r, d) = Await(s, q)
  BY DEF validIdToken
<1> HIDE DEF s, q
<1> QED
  BY <1>1, <1>2, <1>3, <1>4, AwaitFields

(* An authenticated call asks for a device id first when there is none.     *)
LEMMA SendFields ==
  ASSUME IosTypeOK, NEW r \in TaskType
  PROVE  LET w == sendAuthenticated(r)
         IN /\ w \in TaskType
            /\ w.pc = "await" /\ w.net = "sent" /\ w.reply = "none"
            /\ w.op = r.op /\ w.begun = r.begun /\ w.token \in {r.token, tokens}
            /\ \/ w.request = "getId"
               \/ /\ w.request \in {"refresh", "fetch"} /\ w.token = tokens
                  /\ w.device = cached /\ cached \in Devices
                  /\ w.request = "refresh" => tokens # NULL
<1>1. CASE cached = NULL
  BY <1>1, AwaitFields DEF sendAuthenticated, Requests
<1>2. CASE cached # NULL
  BY <1>2, CallFields DEF sendAuthenticated, IosTypeOK
<1> QED
  BY <1>1, <1>2

(* Nobody waits any more; only a call that is on its way is left.           *)
LEMMA LeftFields ==
  ASSUME NEW r \in TaskType
  PROVE  LET w == Left(r)
         IN /\ w \in TaskType
            /\ \/ w = Idle
               \/ /\ w.pc = "lost" /\ w.request = "fetch" /\ w.net = "sent" /\ r.request = "fetch" /\ r.net = "sent"
                  /\ w.op = r.op /\ w.token = r.token /\ w.device = r.device /\ w.begun = r.begun
<1>1. CASE r.net = "sent" /\ r.request = "fetch"
  <2>1. Left(r) = [r EXCEPT !.pc = "lost", !.rotated = FALSE, !.retried = FALSE]
    BY <1>1 DEF Left
  <2> QED
    BY <1>1, <2>1 DEF TaskType
<1>2. CASE ~ (r.net = "sent" /\ r.request = "fetch")
  BY <1>2, IdleType DEF Left
<1> QED
  BY <1>1, <1>2

(* Answering changes the network's part of a task that still waits.         *)
LEMMA ReplyFields ==
  ASSUME IosTypeOK, NEW t \in Tasks, NEW r \in Replies, NEW tk \in Tokens, Reply(t, r, tk)
  PROVE  /\ task' \in [Tasks -> TaskType]
         /\ \A u \in Tasks \ {t} : task'[u] = task[u]
         /\ IF task[t].pc = "lost" THEN task'[t] = Idle
            ELSE /\ task'[t].net = "answered" /\ task'[t].reply = r /\ task'[t].token = tk
                 /\ task'[t].pc = task[t].pc /\ task'[t].request = task[t].request /\ task'[t].op = task[t].op
                 /\ task'[t].device = task[t].device /\ task'[t].begun = task[t].begun
<1>1. task[t] \in TaskType
  BY DEF IosTypeOK
<1>2. [task[t] EXCEPT !.net = "answered", !.reply = r, !.token = tk] \in TaskType
  BY <1>1 DEF TaskType
<1> QED
  BY <1>1, <1>2, IdleType DEF Reply, Become, IosTypeOK, TaskType

(* Becoming a task.                                                         *)
LEMMA BecomeFields ==
  ASSUME IosTypeOK, NEW t \in Tasks, NEW r \in TaskType, Become(t, r)
  PROVE  /\ task' \in [Tasks -> TaskType] /\ task'[t] = r
         /\ \A u \in Tasks \ {t} : task'[u] = task[u]
BY DEF Become, IosTypeOK

-----------------------------------------------------------------------------
(* Every step is one of these.                                              *)
LEMMA EveryStep ==
  ASSUME [Next]_vars
  PROVE  \/ \E t \in Tasks :
              \/ Begin(t) /\ (ensureLinked(t) \/ Answer(t) \/ SignIn(t) \/ SignOut(t) \/ retry(t))
              \/ SignedIn(t) \/ SignedOut(t) \/ GotId(t) \/ Refreshed(t) \/ sessionExpired(t)
              \/ Unauthorized(t) \/ Conflict(t) \/ Succeeded(t) \/ Lost(t) \/ Forget(t)
              \/ ServerStep(t) /\ (ServerRejects(t) \/ ServerLinks(t) \/ ServerRecords(t))
              \/ CognitoStep /\ (CognitoRefreshes(t) \/ CognitoRevokes(t) \/ \E a \in Accounts : CognitoSignsIn(t, a))
         \/ CognitoStep /\ \E s \in 1 .. MaxSessions : Expire(s)
         \/ Restart \/ UNCHANGED vars
BY DEF Next, Begin, Receive, ServerStep, CognitoStep

(* What a step may do to a task.                                            *)
Kept(u) == task'[u] = task[u]
Rests(u) ==
  /\ task'[u].pc \in {"idle", "ensureLinked"} /\ task'[u].net = "none"
  /\ task'[u].token = NULL /\ task'[u].begun = NULL
  /\ task'[u].pc = "ensureLinked" => task'[u].op \in Links
Leaves(u) ==
  /\ task[u].request = "fetch" /\ task[u].net = "sent"
  /\ task'[u].pc = "lost" /\ task'[u].request = "fetch" /\ task'[u].net = "sent"
  /\ task'[u].op = task[u].op /\ task'[u].token = task[u].token
  /\ task'[u].device = task[u].device /\ task'[u].begun = task[u].begun
Asked(u) == task'[u].pc = "await" /\ task'[u].net = "sent" /\ task'[u].reply = "none"
Starts(u) ==
  /\ task[u].pc \in {"idle", "ensureLinked"} /\ Asked(u)
  /\ UNCHANGED <<sessionVars, idVars, sessions, serverVars, historyVars>>
  /\ task'[u].begun \in {NULL, CurrentSession} /\ task'[u].token \in {NULL, tokens}
  /\ task'[u].op = "answer" => task'[u].begun = CurrentSession
  /\ task'[u].op \in Links => /\ task'[u].request \in {"getId", "refresh", "fetch"}
                              /\ tokens # NULL /\ pending /\ state # "linking" /\ state' = "linking"
  /\ task'[u].request \in {"refresh", "fetch"} =>
       task'[u].token = tokens /\ task'[u].device = cached /\ cached \in Devices
  /\ task'[u].request \in {"refresh", "revoke"} => tokens # NULL /\ task'[u].token = tokens
Goes(u) ==
  /\ task[u].pc = "await" /\ Asked(u)
  /\ task'[u].op = task[u].op /\ task'[u].begun = task[u].begun
  /\ \/ Conflict(u) /\ task'[u].request = "getId" /\ task'[u].token = task[u].token
     \/ /\ GotId(u) /\ task'[u].request \in {"refresh", "fetch"}
        /\ task'[u].device = cached' /\ cached' \in Devices /\ task'[u].token = tokens
        /\ task'[u].request = "refresh" => tokens # NULL
Retries(u) ==
  /\ task[u].pc = "await" /\ Asked(u) /\ Calls(u)
  /\ task'[u].op = task[u].op /\ task'[u].begun = task[u].begun /\ task'[u].device = task[u].device
  /\ \/ Unauthorized(u) /\ task'[u].request = "refresh" /\ task'[u].token = tokens /\ tokens # NULL
     \/ Refreshed(u) /\ task'[u].request = "fetch" /\ task'[u].token = task[u].token
Told(u) ==
  /\ task[u].net = "sent" /\ task'[u].net = "answered" /\ task[u].pc # "lost"
  /\ task'[u].pc = task[u].pc /\ task'[u].request = task[u].request
  /\ task'[u].op = task[u].op /\ task'[u].begun = task[u].begun /\ task'[u].device = task[u].device
  /\ task[u].request # "signIn" =>
       \/ task'[u].token = task[u].token
       \/ task[u].token # NULL /\ task'[u].token # NULL /\ task'[u].token.session = task[u].token.session
  /\ task[u].request = "signIn" =>
       task'[u].token # NULL /\ task'[u].token.session = Len(sessions) + 1 /\ Len(sessions') = Len(sessions) + 1
  /\ task[u].request = "fetch" =>
       /\ task'[u].token = task[u].token
       /\ \/ task'[u].reply \in {"unauthorized", "linkRequired"}
          \/ task'[u].reply = "ok" /\ task[u].op = "answer"
          \/ /\ ServerLinks(u)
             /\ task'[u].reply = IF linkedTo[task[u].device] \in {NULL, AccountOf(u)} THEN "ok" ELSE "conflict"
Step(u) == Kept(u) \/ Rests(u) \/ Leaves(u) \/ Starts(u) \/ Goes(u) \/ Retries(u) \/ Told(u)

(* Whatever is kept of a task that fails.                                   *)
LEMMA LeftSteps ==
  ASSUME IosTypeOK, NEW u \in Tasks, task'[u] \in {Idle, Launch, Left(task[u])}
  PROVE  Rests(u) \/ Leaves(u)
<1>1. task[u] \in TaskType
  BY DEF IosTypeOK
<1>2. Idle.pc = "idle" /\ Idle.net = "none" /\ Idle.token = NULL /\ Idle.begun = NULL
  BY DEF Idle
<1>4. Launch.op \in Links /\ Launch.pc = "ensureLinked" /\ Launch.net = "none" /\ Launch.token = NULL /\ Launch.begun = NULL
  BY DEF Launch, Idle, Links
<1>3. CASE task'[u] = Left(task[u])
  BY <1>1, <1>2, <1>3, LeftFields DEF Leaves, Rests
<1> QED
  BY <1>2, <1>3, <1>4 DEF Rests

(* Only the task of a step changes, so it is enough to look at that one.    *)
TasksStep ==
  /\ task' \in [Tasks -> TaskType] /\ \A u \in Tasks : Step(u)
  /\ \/ \A u \in Tasks : Rests(u) \/ Leaves(u)
     \/ \A t, u \in Tasks : Kept(t) \/ Kept(u) \/ t = u
(* A task that becomes what the step says takes the step.                   *)
LEMMA OneTask ==
  ASSUME IosTypeOK, NEW t \in Tasks, NEW r \in TaskType, Become(t, r), task'[t] = r => Step(t)
  PROVE  TasksStep
<1>1. /\ task' \in [Tasks -> TaskType] /\ task'[t] = r
      /\ \A u \in Tasks \ {t} : task'[u] = task[u]
  BY BecomeFields
<1>2. \A u \in Tasks \ {t} : Step(u) /\ Kept(u)
  BY <1>1 DEF Step, Kept
<1> QED
  BY <1>1, <1>2 DEF TasksStep

(* The same of an answer.                                                   *)
LEMMA OneReply ==
  ASSUME IosTypeOK, NEW t \in Tasks, NEW r \in Replies, NEW tk \in Tokens, Reply(t, r, tk), task[t].net = "sent",
         task[t].pc # "lost" => 
           /\ task[t].request # "signIn" =>
                \/ tk = task[t].token
                \/ task[t].token # NULL /\ tk # NULL /\ tk.session = task[t].token.session
           /\ task[t].request = "signIn" =>
                tk # NULL /\ tk.session = Len(sessions) + 1 /\ Len(sessions') = Len(sessions) + 1
           /\ task[t].request = "fetch" =>
                /\ tk = task[t].token
                /\ \/ r \in {"unauthorized", "linkRequired"}
                   \/ r = "ok" /\ task[t].op = "answer"
                   \/ ServerLinks(t) /\ r = IF linkedTo[task[t].device] \in {NULL, AccountOf(t)} THEN "ok" ELSE "conflict"
  PROVE  TasksStep
<1>1. /\ task' \in [Tasks -> TaskType]
      /\ \A u \in Tasks \ {t} : task'[u] = task[u]
  BY ReplyFields
<1>2. \A u \in Tasks \ {t} : Step(u) /\ Kept(u)
  BY <1>1 DEF Step, Kept
<1>3. CASE task[t].pc = "lost"
  <2>1. task'[t] = Idle
    BY <1>3, ReplyFields
  <2> QED
    BY <2>1, <1>1, <1>2 DEF TasksStep, Step, Rests, Idle
<1>4. CASE task[t].pc # "lost"
  <2>1. Told(t)
    BY <1>4, ReplyFields DEF Told
  <2> QED
    BY <2>1, <1>1, <1>2 DEF TasksStep, Step
<1> QED
  BY <1>3, <1>4

(* What tasks do when they begin, and what they do with an answer.          *)
LEMMA BeginSteps ==
  ASSUME IosTypeOK, RequestInv, NEW t \in Tasks, Begin(t)
  PROVE  TasksStep
<1>0. task[t] \in TaskType /\ tokens \in Tokens
  BY DEF IosTypeOK
<1>1. UNCHANGED <<sessionVars, idVars, sessions, serverVars, historyVars>>
  BY DEF Begin
<1>2. ASSUME NEW o \in Ops, Become(t, sendAuthenticated(Started(o))), task[t].pc \in {"idle", "ensureLinked"},
             o # "answer", o \in Links => tokens # NULL /\ pending /\ state # "linking" /\ state' = "linking"
      PROVE  TasksStep
  <2> DEFINE w == sendAuthenticated(Started(o))
  <2>1. Started(o) \in TaskType /\ Started(o).op = o /\ Started(o).begun = NULL /\ Started(o).token = NULL
    BY IdleType DEF Started, Idle, TaskType
  <2>2. /\ w \in TaskType /\ w.pc = "await" /\ w.net = "sent" /\ w.reply = "none"
        /\ w.op = o /\ w.begun = NULL /\ w.token \in {NULL, tokens}
        /\ \/ w.request = "getId"
           \/ /\ w.request \in {"refresh", "fetch"} /\ w.token = tokens
              /\ w.device = cached /\ cached \in Devices
              /\ w.request = "refresh" => tokens # NULL
    BY <2>1, SendFields
  <2>3. Become(t, w)
    BY <1>2
  <2>4. task'[t] = w => Starts(t)
    BY <1>1, <1>2, <2>2 DEF Starts, Asked
  <2> QED
    BY <2>2, <2>3, <2>4, OneTask DEF Step
<1>3. CASE ensureLinked(t)
  <2>1. CASE tokens # NULL /\ pending /\ state # "linking"
    <3>1. Become(t, sendAuthenticated(Started(task[t].op))) /\ state' = "linking" /\ task[t].pc = "ensureLinked"
      BY <1>3, <2>1 DEF ensureLinked
    <3>2. task[t].op \in {"launch", "link"}
      BY <3>1 DEF RequestInv, Links
    <3> QED
      BY <1>0, <1>2, <2>1, <3>1, <3>2 DEF TaskType
  <2>2. CASE ~ (tokens # NULL /\ pending /\ state # "linking")
    BY <1>3, <2>2, IdleType, OneTask, LeftSteps DEF ensureLinked, Step
  <2> QED
    BY <2>1, <2>2
<1>4. CASE Answer(t)
  <2> DEFINE r == [Started("answer") EXCEPT !.begun = CurrentSession]
             w == sendAuthenticated(r)
  <2>1. CurrentSession \in (1 .. MaxSessions) \cup {NULL}
    BY <1>0 DEF CurrentSession, Tokens
  <2>2. r \in TaskType /\ r.op = "answer" /\ r.begun = CurrentSession /\ r.token = NULL
    BY <2>1, IdleType DEF Started, Idle, TaskType, Ops
  <2>3. /\ w \in TaskType /\ w.pc = "await" /\ w.net = "sent" /\ w.reply = "none"
        /\ w.op = "answer" /\ w.begun = CurrentSession /\ w.token \in {NULL, tokens}
        /\ \/ w.request = "getId"
           \/ /\ w.request \in {"refresh", "fetch"} /\ w.token = tokens
              /\ w.device = cached /\ cached \in Devices
              /\ w.request = "refresh" => tokens # NULL
    BY <2>2, SendFields
  <2>4. Become(t, w) /\ task[t].pc = "idle"
    BY <1>4 DEF Answer, Free
  <2> HIDE DEF w
  <2>5. task'[t] = w => Starts(t)
    BY <1>1, <2>3, <2>4 DEF Starts, Asked, Links
  <2> QED
    BY <2>3, <2>4, <2>5, OneTask DEF Step
<1>5. CASE SignIn(t)
  <2> DEFINE w == Await(Started("signIn"), "signIn")
  <2>1. Started("signIn") \in TaskType /\ Started("signIn").op = "signIn" /\ Started("signIn").begun = NULL
        /\ Started("signIn").token = NULL
    BY IdleType DEF Started, Idle, TaskType, Ops
  <2>2. /\ w \in TaskType /\ w.pc = "await" /\ w.net = "sent" /\ w.reply = "none" /\ w.request = "signIn"
        /\ w.op = "signIn" /\ w.begun = NULL /\ w.token = NULL
    BY <2>1, AwaitFields DEF Requests
  <2>4. Become(t, w) /\ task[t].pc = "idle"
    BY <1>5 DEF SignIn, Free
  <2> HIDE DEF w
  <2>5. task'[t] = w => Starts(t)
    BY <1>1, <2>2, <2>4 DEF Starts, Asked, Links
  <2> QED
    BY <2>2, <2>4, <2>5, OneTask DEF Step
<1>6. CASE SignOut(t)
  <2> DEFINE v == Await(Started("signOut"), "revoke")
             w == [v EXCEPT !.token = tokens]
  <2>1. Started("signOut") \in TaskType /\ Started("signOut").op = "signOut" /\ Started("signOut").begun = NULL
    BY IdleType DEF Started, Idle, TaskType, Ops
  <2>2. /\ v \in TaskType /\ v.pc = "await" /\ v.net = "sent" /\ v.reply = "none" /\ v.request = "revoke"
        /\ v.op = "signOut" /\ v.begun = NULL
    BY <2>1, AwaitFields DEF Requests
  <2>4. Become(t, w) /\ task[t].pc = "idle" /\ tokens # NULL
    BY <1>6 DEF SignOut, Free
  <2> HIDE DEF v
  <2>3. /\ w \in TaskType /\ w.pc = "await" /\ w.net = "sent" /\ w.reply = "none" /\ w.request = "revoke"
        /\ w.op = "signOut" /\ w.begun = NULL /\ w.token = tokens
    BY <1>0, <2>2 DEF TaskType
  <2> HIDE DEF w
  <2>5. task'[t] = w => Starts(t)
    BY <1>1, <2>3, <2>4 DEF Starts, Asked, Links
  <2> QED
    BY <2>3, <2>4, <2>5, OneTask DEF Step
<1>7. CASE retry(t)
  <2>1. CASE pending
    <3>1. Become(t, sendAuthenticated(Started("link"))) /\ state' = "linking" /\ state # "linking"
          /\ task[t].pc = "idle" /\ tokens # NULL
      BY <1>7, <2>1 DEF retry, Free
    <3> QED
      BY <1>0, <1>2, <2>1, <3>1 DEF Ops
  <2>2. CASE ~ pending
    BY <1>7, <2>2 DEF retry, TasksStep, Step, Kept, IosTypeOK
  <2> QED
    BY <2>1, <2>2
<1> QED
  BY <1>3, <1>4, <1>5, <1>6, <1>7 DEF Begin

(* A task that has ended.                                                   *)
LEMMA EndSteps ==
  ASSUME IosTypeOK, NEW t \in Tasks, Become(t, Idle) \/ Become(t, Left(task[t]))
  PROVE  TasksStep
<1>1. task[t] \in TaskType
  BY DEF IosTypeOK
<1>2. Idle \in TaskType /\ Left(task[t]) \in TaskType
  BY <1>1, IdleType, LeftFields
<1> QED
  BY <1>2, OneTask, LeftSteps DEF Step

(* Whatever an answer makes a task do is one of these steps.                *)
LEMMA ReceiveSteps ==
  ASSUME IosTypeOK, NEW t \in Tasks, Receive(t)
  PROVE  TasksStep
<1>0. task[t] \in TaskType /\ tokens \in Tokens
  BY DEF IosTypeOK
<1>1. CASE SignedIn(t)
  <2> DEFINE w == [Idle EXCEPT !.op = "link", !.pc = "ensureLinked"]
  <2>1. Become(t, w)
    BY <1>1 DEF SignedIn
  <2>2. w \in TaskType
    BY IdleType DEF TaskType, Ops
  <2>3. w.op \in Links /\ w.pc = "ensureLinked" /\ w.net = "none" /\ w.token = NULL /\ w.begun = NULL
    BY DEF Idle, Links
  <2> HIDE DEF w
  <2>4. task'[t] = w => Rests(t)
    BY <2>3 DEF Rests
  <2> QED
    BY <2>1, <2>2, <2>4, OneTask DEF Step
<1>2. CASE SignedOut(t)
  BY <1>2, EndSteps DEF SignedOut
<1>3. CASE GotId(t)
  <2> DEFINE w == validIdToken(task[t], drawn')
  <2>1. drawn' \in Devices /\ cached' = drawn'
    BY <1>3, IosAssumption DEF GotId, IosTypeOK, Devices
  <2>2. /\ w \in TaskType /\ w.pc = "await" /\ w.request \in {"refresh", "fetch"} /\ w.net = "sent"
        /\ w.reply = "none" /\ w.op = task[t].op /\ w.token = tokens /\ w.device = drawn'
        /\ w.begun = task[t].begun /\ (w.request = "refresh" => tokens # NULL)
    BY <1>0, <2>1, CallFields
  <2>3. Become(t, w) /\ task[t].pc = "await"
    BY <1>3 DEF GotId, Awaits
  <2> HIDE DEF w
  <2>4. task'[t] = w => Goes(t)
    BY <1>3, <2>1, <2>2, <2>3 DEF Goes, Asked
  <2> QED
    BY <2>2, <2>3, <2>4, OneTask DEF Step
<1>4. CASE Refreshed(t)
  <2> DEFINE w == Await(task[t], "fetch")
  <2>1. /\ w \in TaskType /\ w.pc = "await" /\ w.request = "fetch" /\ w.net = "sent" /\ w.reply = "none"
        /\ w.op = task[t].op /\ w.token = task[t].token /\ w.device = task[t].device /\ w.begun = task[t].begun
    BY <1>0, AwaitFields DEF Requests
  <2>2. Become(t, w) /\ task[t].pc = "await" /\ task[t].request = "refresh"
    BY <1>4 DEF Refreshed, Answered, Awaits
  <2> HIDE DEF w
  <2>3. task'[t] = w => Retries(t)
    BY <1>4, <2>1, <2>2 DEF Retries, Asked, Calls
  <2> QED
    BY <2>1, <2>2, <2>3, OneTask DEF Step
<1>5. CASE sessionExpired(t)
  BY <1>5, EndSteps DEF sessionExpired, Fail
<1>6. CASE Unauthorized(t)
  <2>1. CASE task[t].token # NULL /\ ~ task[t].retried /\ tokens # NULL
    <3> DEFINE r == [task[t] EXCEPT !.retried = TRUE, !.token = tokens]
               w == Await(r, "refresh")
    <3>1. r \in TaskType /\ r.op = task[t].op /\ r.device = task[t].device /\ r.begun = task[t].begun
          /\ r.token = tokens
      BY <1>0 DEF TaskType
    <3>2. /\ w \in TaskType /\ w.pc = "await" /\ w.request = "refresh" /\ w.net = "sent" /\ w.reply = "none"
          /\ w.op = task[t].op /\ w.token = tokens /\ w.device = task[t].device /\ w.begun = task[t].begun
      BY <3>1, AwaitFields DEF Requests
    <3>3. Become(t, w) /\ task[t].pc = "await" /\ task[t].request = "fetch"
      BY <1>6, <2>1 DEF Unauthorized, Answered, Awaits
    <3> HIDE DEF w
    <3>4. task'[t] = w => Retries(t)
      BY <1>6, <2>1, <3>2, <3>3 DEF Retries, Asked, Calls
    <3> QED
      BY <3>2, <3>3, <3>4, OneTask DEF Step
  <2>2. CASE ~ (task[t].token # NULL /\ ~ task[t].retried /\ tokens # NULL)
    BY <1>6, <2>2, EndSteps DEF Unauthorized, Fail
  <2> QED
    BY <2>1, <2>2
<1>7. CASE Conflict(t)
  <2>1. CASE task[t].rotated
    BY <1>7, <2>1, EndSteps DEF Conflict, Fail
  <2>2. CASE ~ task[t].rotated
    <3> DEFINE r == [task[t] EXCEPT !.rotated = TRUE, !.retried = FALSE]
               w == Await(r, "getId")
    <3>1. r \in TaskType /\ r.op = task[t].op /\ r.begun = task[t].begun /\ r.token = task[t].token
      BY <1>0 DEF TaskType
    <3>2. /\ w \in TaskType /\ w.pc = "await" /\ w.request = "getId" /\ w.net = "sent" /\ w.reply = "none"
          /\ w.op = task[t].op /\ w.token = task[t].token /\ w.begun = task[t].begun
      BY <3>1, AwaitFields DEF Requests
    <3>3. Become(t, w) /\ task[t].pc = "await"
      BY <1>7, <2>2 DEF Conflict, Answered, Awaits
    <3> HIDE DEF w
    <3>4. task'[t] = w => Goes(t)
      BY <1>7, <3>2, <3>3 DEF Goes, Asked
    <3> QED
      BY <3>2, <3>3, <3>4, OneTask DEF Step
  <2> QED
    BY <2>1, <2>2
<1>8. CASE Succeeded(t)
  BY <1>8, EndSteps DEF Succeeded
<1>9. CASE Lost(t)
  BY <1>9, EndSteps DEF Lost, AfterLoss
<1> QED
  BY <1>1, <1>2, <1>3, <1>4, <1>5, <1>6, <1>7, <1>8, <1>9 DEF Receive

(* The whole of a step, for every task.                                     *)
LEMMA TaskSteps ==
  ASSUME IosTypeOK, KnownInv, RequestInv, [Next]_vars
  PROVE  TasksStep
<1>0. \A t \in Tasks : task[t] \in TaskType
  BY DEF IosTypeOK
<1>r. {"ok", "terminal", "unauthorized", "conflict", "linkRequired"} \subseteq Replies
  BY DEF Replies
<1>a. ASSUME NEW t \in Tasks, NEW r \in Replies, Reply(t, r, task[t].token), task[t].net = "sent",
             task[t].request # "signIn",
             task[t].request = "fetch" =>
               \/ r \in {"unauthorized", "linkRequired"}
               \/ r = "ok" /\ task[t].op = "answer"
               \/ ServerLinks(t) /\ r = IF linkedTo[task[t].device] \in {NULL, AccountOf(t)} THEN "ok" ELSE "conflict"
      PROVE  TasksStep
  <2> DEFINE tk == task[t].token
  <2>1. tk \in Tokens /\ tk = task[t].token /\ Reply(t, r, tk)
    BY <1>0, <1>a DEF TaskType
  <2> HIDE DEF tk
  <2> QED
    BY <1>a, <2>1, OneReply
<1>1. ASSUME NEW t \in Tasks, ServerStep(t) PROVE TasksStep
  <2>1. task[t].net = "sent" /\ task[t].request = "fetch" /\ task[t].token \in Tokens
    BY <1>0, <1>1 DEF ServerStep, Sent, TaskType
  <2>2. CASE ServerRejects(t)
    <3>1. Reply(t, "unauthorized", task[t].token)
      BY <2>2 DEF ServerRejects
    <3> QED
      BY <1>a, <1>r, <2>1, <3>1
  <2>3. CASE ServerLinks(t)
    <3> DEFINE r == IF linkedTo[task[t].device] \in {NULL, AccountOf(t)} THEN "ok" ELSE "conflict"
    <3>1. Reply(t, r, task[t].token)
      BY <2>3 DEF ServerLinks
    <3>2. r \in Replies
      BY DEF Replies
    <3>3. ServerLinks(t) /\ r = IF linkedTo[task[t].device] \in {NULL, AccountOf(t)} THEN "ok" ELSE "conflict"
      BY <2>3
    <3> HIDE DEF r
    <3> QED
      BY <1>a, <2>1, <3>1, <3>2, <3>3
  <2>4. CASE ServerRecords(t)
    <3>1. task[t].op = "answer" /\ (Reply(t, "ok", task[t].token) \/ Reply(t, "linkRequired", task[t].token))
      BY <2>4 DEF ServerRecords
    <3> QED
      BY <1>a, <1>r, <2>1, <3>1
  <2> QED
    BY <1>1, <2>2, <2>3, <2>4 DEF ServerStep
<1>2. ASSUME NEW t \in Tasks, CognitoRefreshes(t) PROVE TasksStep
  <2> DEFINE s == task[t].token.session
  <2>1. task[t].net = "sent" /\ task[t].request = "refresh" /\ task[t].token \in Tokens
    BY <1>0, <1>2 DEF CognitoRefreshes, Sent, TaskType
  <2>2. CASE Reply(t, "terminal", task[t].token)
    BY <1>a, <1>r, <2>1, <2>2
  <2>3. CASE Reply(t, "ok", [session |-> s, number |-> sessions'[s].number])
                /\ sessions' = [sessions EXCEPT ![s].number = @ + 1]
    <3>1. CASE task[t].pc = "lost"
      BY <1>0, <2>1, <3>1 DEF RequestInv
    <3>2. CASE task[t].pc # "lost"
      <4>1. task[t].pc = "await" /\ task[t].token # NULL
        BY <1>0, <2>1, <3>2 DEF RequestInv, TaskType
      <4>2. s \in 1 .. Len(sessions) /\ Len(sessions) <= MaxSessions /\ Len(sessions) \in Nat
        BY <4>1 DEF KnownInv, Known, IosTypeOK
      <4>3. sessions[s] \in SessionType
        BY <4>2 DEF IosTypeOK
      <4>4. sessions'[s].number = sessions[s].number + 1
        BY <2>3, <4>2, <4>3 DEF SessionType, IosTypeOK
      <4>5. [session |-> s, number |-> sessions'[s].number] \in Tokens
        BY <4>2, <4>3, <4>4, IosAssumption DEF Tokens, SessionType
      <4>6. [session |-> s, number |-> sessions'[s].number] # NULL
        BY <4>2, <4>3, <4>4, IosAssumption DEF SessionType
      <4> DEFINE tk == [session |-> s, number |-> sessions'[s].number]
      <4>7. tk.session = s
        OBVIOUS
      <4> HIDE DEF tk
      <4> QED
        BY <2>1, <2>3, <4>1, <4>5, <4>6, <4>7, OneReply DEF Replies, tk
    <3> QED
      BY <3>1, <3>2
  <2> QED
    BY <1>2, <2>2, <2>3 DEF CognitoRefreshes
<1>3. ASSUME NEW t \in Tasks, CognitoRevokes(t) PROVE TasksStep
  <2>1. task[t].net = "sent" /\ task[t].request = "revoke" /\ task[t].token \in Tokens
    BY <1>0, <1>3 DEF CognitoRevokes, Sent, TaskType
  <2> QED
    BY <1>a, <1>r, <1>3, <2>1 DEF CognitoRevokes
<1>4. ASSUME NEW t \in Tasks, NEW a \in Accounts, CognitoSignsIn(t, a) PROVE TasksStep
  <2> DEFINE tk == [session |-> Len(sessions'), number |-> 1]
  <2>1. Len(sessions) \in Nat /\ Len(sessions) < MaxSessions /\ Len(sessions') = Len(sessions) + 1
    BY <1>4 DEF CognitoSignsIn, IosTypeOK
  <2>2. tk \in Tokens /\ tk # NULL
    BY <2>1, IosAssumption DEF Tokens
  <2>3. tk.session = Len(sessions) + 1
    BY <2>1
  <2>4. Reply(t, "ok", tk) /\ task[t].net = "sent" /\ task[t].request = "signIn"
    BY <1>4 DEF CognitoSignsIn, Sent
  <2> HIDE DEF tk
  <2> QED
    BY <2>1, <2>2, <2>3, <2>4, OneReply DEF Replies
<1>5. ASSUME UNCHANGED task PROVE TasksStep
  BY <1>5 DEF TasksStep, Step, Kept, IosTypeOK
<1>6. CASE Restart
  <2>1. PICK t \in Tasks : task' = [u \in Tasks |-> IF u = t THEN Launch ELSE Left(task[u])]
    BY <1>6 DEF Restart, Relaunched
  <2>2. \A u \in Tasks : task'[u] \in {Launch, Left(task[u])} /\ task'[u] \in TaskType
    BY <1>0, <2>1, IdleType, LeftFields
  <2>3. task' \in [Tasks -> TaskType]
    BY <2>1, <2>2
  <2> QED
    BY <1>6, <2>2, <2>3, LeftSteps DEF TasksStep, Step
<1>7. ASSUME NEW t \in Tasks, Begin(t) \/ Receive(t) \/ Forget(t) PROVE TasksStep
  BY <1>7, BeginSteps, ReceiveSteps, EndSteps DEF Forget
<1>8. ASSUME NEW s \in 1 .. MaxSessions, Expire(s) PROVE TasksStep
  BY <1>5, <1>8 DEF Expire
<1> QED
  BY <1>1, <1>2, <1>3, <1>4, <1>5, <1>6, <1>7, <1>8 DEF Next, CognitoStep, vars

-----------------------------------------------------------------------------
(* Which steps change what.                                                 *)
LEMMA Changes ==
  ASSUME [Next]_vars
  PROVE  /\ \/ tokens' = tokens
            \/ tokens' = NULL /\ (pending' = FALSE \/ Restart)
            \/ \E t \in Tasks : SignedIn(t) \/ Refreshed(t)
         /\ \/ pending' = pending \/ (pending' = FALSE /\ tokens' = NULL) \/ Restart
            \/ \E t \in Tasks : SignedIn(t) \/ (Succeeded(t) /\ task[t].op \in Links)
         /\ UNCHANGED <<keychain, drawn, raced>> \/ \E t \in Tasks : GotId(t)
         /\ UNCHANGED cached \/ Restart \/ \E t \in Tasks : GotId(t) \/ Conflict(t)
         /\ UNCHANGED sessions \/ \/ \E s \in 1 .. MaxSessions : Expire(s)
                                  \/ \E t \in Tasks : \/ CognitoRefreshes(t) \/ CognitoRevokes(t)
                                                      \/ \E a \in Accounts : CognitoSignsIn(t, a)
         /\ UNCHANGED <<linkedTo, primary>> \/ \E t \in Tasks : ServerStep(t) /\ ServerLinks(t)
         /\ UNCHANGED recorded \/ \E t \in Tasks : ServerStep(t) /\ ServerRecords(t)
         /\ UNCHANGED late \/ \E t \in Tasks : Late(task[t].token.session)
         /\ state' \in {state, "linking", "failed", "idle"}
<1> USE DEF serverVars, historyVars, idVars, sessionVars
<1>1. ASSUME NEW t \in Tasks, Begin(t) PROVE
        /\ UNCHANGED <<sessionVars, idVars, sessions, serverVars, historyVars>>
        /\ state' \in {state, "linking", "failed", "idle"}
  BY <1>1 DEF Begin, ensureLinked, retry, Answer, SignIn, SignOut
<1>2. ASSUME NEW t \in Tasks, SignedIn(t) PROVE UNCHANGED <<state, idVars, sessions, serverVars, historyVars>>
  BY <1>2 DEF SignedIn
<1>3. ASSUME NEW t \in Tasks, SignedOut(t) PROVE
        UNCHANGED <<state, idVars, sessions, serverVars, historyVars>> /\ tokens' = NULL /\ pending' = FALSE
  BY <1>3 DEF SignedOut, clear
<1>4. ASSUME NEW t \in Tasks, GotId(t) PROVE UNCHANGED <<sessionVars, state, sessions, serverVars, late>>
  BY <1>4 DEF GotId
<1>5. ASSUME NEW t \in Tasks, Refreshed(t) PROVE
        UNCHANGED <<pending, state, idVars, sessions, serverVars, raced>> /\ Late(task[t].token.session)
  BY <1>5 DEF Refreshed
<1>6. ASSUME NEW t \in Tasks, sessionExpired(t) PROVE
        /\ UNCHANGED <<idVars, sessions, serverVars, raced>> /\ Late(task[t].token.session)
        /\ tokens' = NULL /\ pending' = FALSE /\ state' \in {state, "failed"}
  BY <1>6 DEF sessionExpired, clear, Fail
<1>7. ASSUME NEW t \in Tasks, Unauthorized(t) \/ Lost(t) \/ Forget(t) PROVE
        UNCHANGED <<sessionVars, idVars, sessions, serverVars, historyVars>> /\ state' \in {state, "failed"}
  BY <1>7 DEF Unauthorized, Lost, Fail, Forget
<1>8. ASSUME NEW t \in Tasks, Conflict(t) PROVE
        /\ UNCHANGED <<sessionVars, keychain, drawn, sessions, serverVars, historyVars>>
        /\ state' \in {state, "failed"}
  BY <1>8 DEF Conflict, Fail
<1>9. ASSUME NEW t \in Tasks, Succeeded(t) PROVE
        /\ UNCHANGED <<tokens, idVars, sessions, serverVars, raced>> /\ state' \in {state, "idle"}
        /\ IF task[t].op \in Links THEN Late(task[t].token.session) ELSE UNCHANGED <<pending, late>>
  BY <1>9 DEF Succeeded
<1>10. ASSUME NEW t \in Tasks, ServerStep(t) PROVE
        /\ UNCHANGED <<sessionVars, state, idVars, sessions, historyVars>>
        /\ UNCHANGED <<linkedTo, primary>> \/ ServerLinks(t)
        /\ UNCHANGED recorded \/ ServerRecords(t)
  BY <1>10 DEF ServerStep, ServerRejects, ServerLinks, ServerRecords
<1>11. CASE Restart
  <2>1. UNCHANGED <<keychain, drawn, sessions, serverVars, historyVars>> /\ state' = "idle"
    BY <1>11 DEF Restart, Relaunched
  <2>2. tokens' = tokens \/ tokens' = NULL
    BY <1>11 DEF Restart, KilledInSignIn, KilledInClear
  <2> QED
    BY <1>11, <2>1, <2>2
<1>12. CASE CognitoStep
  BY <1>12 DEF CognitoStep
<1>13. CASE UNCHANGED vars
  BY <1>13 DEF vars
<1> QED
  BY <1>1, <1>2, <1>3, <1>4, <1>5, <1>6, <1>7, <1>8, <1>9, <1>10, <1>11, <1>12, <1>13 DEF Next, Receive

(* Sessions are only added, and keep their owner.                           *)
LEMMA SessionsLast ==
  ASSUME IosTypeOK, KnownInv, RequestInv, [Next]_vars
  PROVE  /\ sessions' \in Seq(SessionType) /\ Len(sessions') <= MaxSessions
         /\ Len(sessions) \in Nat /\ Len(sessions') \in Nat /\ Len(sessions) <= Len(sessions')
         /\ \A s \in 1 .. Len(sessions) : sessions'[s].owner = sessions[s].owner
<1>1. sessions \in Seq(SessionType) /\ Len(sessions) \in Nat /\ Len(sessions) <= MaxSessions
  BY DEF IosTypeOK, KnownInv
<1> DEFINE G == /\ sessions' \in Seq(SessionType) /\ Len(sessions') <= MaxSessions
                /\ Len(sessions) \in Nat /\ Len(sessions') \in Nat /\ Len(sessions) <= Len(sessions')
                /\ \A s \in 1 .. Len(sessions) : sessions'[s].owner = sessions[s].owner
<1>2. ASSUME NEW s \in 1 .. Len(sessions), NEW new \in SessionType, new.owner = sessions[s].owner,
             sessions' = [sessions EXCEPT ![s] = new]
      PROVE  G
  BY <1>1, <1>2
<1>3. \A s \in 1 .. Len(sessions) : sessions[s] \in SessionType
  BY <1>1
<1>4. ASSUME NEW t \in Tasks, task[t].net = "sent", task[t].request \in {"refresh", "revoke"}
      PROVE  task[t].token.session \in 1 .. Len(sessions)
  <2>1. task[t] \in TaskType
    BY DEF IosTypeOK
  <2>2. task[t].pc = "await"
    BY <1>4, <2>1 DEF RequestInv, TaskType
  <2> QED
    BY <1>4, <2>2 DEF RequestInv, KnownInv, Known
<1>5. ASSUME NEW t \in Tasks, CognitoRefreshes(t) PROVE G
  <2> DEFINE s == task[t].token.session
             revokedNow == [sessions[s] EXCEPT !.revoked = TRUE]
             refreshedNow == [sessions[s] EXCEPT !.number = @ + 1]
  <2>1. s \in 1 .. Len(sessions)
    BY <1>4, <1>5 DEF CognitoRefreshes, Sent
  <2>2. /\ revokedNow \in SessionType /\ revokedNow.owner = sessions[s].owner
        /\ refreshedNow \in SessionType /\ refreshedNow.owner = sessions[s].owner
    <3>1. sessions[s] \in SessionType
      BY <1>3, <2>1
    <3> HIDE DEF s
    <3>2. revokedNow \in SessionType /\ revokedNow.owner = sessions[s].owner
      BY <3>1 DEF SessionType
    <3>3. refreshedNow \in SessionType /\ refreshedNow.owner = sessions[s].owner
      BY <3>1 DEF SessionType
    <3> QED
      BY <3>2, <3>3
  <2>3. sessions' = [sessions EXCEPT ![s] = revokedNow] \/ sessions' = [sessions EXCEPT ![s] = refreshedNow]
    BY <1>5 DEF CognitoRefreshes
  <2> HIDE DEF s, revokedNow, refreshedNow
  <2> QED
    BY <1>2, <2>1, <2>2, <2>3
<1>6. ASSUME NEW t \in Tasks, CognitoRevokes(t) PROVE G
  <2> DEFINE s == task[t].token.session
             revokedNow == [sessions[s] EXCEPT !.revoked = TRUE]
  <2>1. s \in 1 .. Len(sessions)
    BY <1>4, <1>6 DEF CognitoRevokes, Sent
  <2>2. revokedNow \in SessionType /\ revokedNow.owner = sessions[s].owner
    BY <1>3, <2>1 DEF SessionType
  <2>3. sessions' = [sessions EXCEPT ![s] = revokedNow]
    BY <1>6 DEF CognitoRevokes
  <2> HIDE DEF s, revokedNow
  <2> QED
    BY <1>2, <2>1, <2>2, <2>3
<1>7. ASSUME NEW t \in Tasks, NEW a \in Accounts, CognitoSignsIn(t, a) PROVE G
  <2>1. sessions' = Append(sessions, Session(a)) /\ Len(sessions) < MaxSessions
    BY <1>7 DEF CognitoSignsIn
  <2>2. Session(a) \in SessionType
    BY DEF Session, SessionType
  <2> QED
    BY <1>1, <2>1, <2>2, IosAssumption
<1>8. ASSUME NEW s \in 1 .. MaxSessions, Expire(s) PROVE G
  <2> DEFINE expiredNow == [sessions[s] EXCEPT !.expired = sessions[s].number]
  <2>1. s \in 1 .. Len(sessions) /\ sessions' = [sessions EXCEPT ![s] = expiredNow]
    BY <1>1, <1>8 DEF Expire
  <2>2. expiredNow \in SessionType /\ expiredNow.owner = sessions[s].owner
    BY <1>3, <2>1 DEF SessionType
  <2> HIDE DEF expiredNow
  <2> QED
    BY <1>2, <2>1, <2>2
<1>9. CASE UNCHANGED sessions
  BY <1>1, <1>9
<1> QED
  BY <1>5, <1>6, <1>7, <1>8, <1>9, Changes

(* A token means the same person for ever; only no token means nobody.      *)
LEMMA OwnersLast ==
  ASSUME IosTypeOK, KnownInv, RequestInv, [Next]_vars, NEW tk \in Tokens, Known(tk)
  PROVE  /\ Known(tk)' /\ OwnerOf(tk)' = OwnerOf(tk)
         /\ OwnerOf(tk) \in Accounts \cup {NULL} /\ (OwnerOf(tk) = NULL <=> tk = NULL)
<1>1. CASE tk = NULL
  BY <1>1 DEF Known, OwnerOf
<1>2. CASE tk # NULL
  <2>1. tk.session \in 1 .. Len(sessions) /\ sessions[tk.session] \in SessionType
    BY <1>2 DEF Known, IosTypeOK
  <2>2. sessions[tk.session].owner \in Accounts /\ NULL \notin Accounts
    BY <2>1, IosAssumption DEF SessionType
  <2>3. tk.session \in 1 .. Len(sessions') /\ sessions'[tk.session].owner = sessions[tk.session].owner
    BY <2>1, SessionsLast
  <2> QED
    BY <1>2, <2>2, <2>3 DEF Known, OwnerOf
<1> QED
  BY <1>1, <1>2

(* Devices that are linked stay linked, to the same account; what has a     *)
(* primary row keeps it.                                                    *)
LEMMA LinkedLasts ==
  ASSUME IosInv, [Next]_vars
  PROVE  /\ linkedTo' \in [Devices -> Accounts \cup {NULL}] /\ primary' \in [Accounts -> Devices \cup {NULL}]
         /\ \A d \in Devices : linkedTo[d] # NULL => linkedTo'[d] = linkedTo[d]
         /\ \A a \in Accounts : primary[a] # NULL => primary'[a] = primary[a]
         /\ \A a \in Accounts : primary'[a] # NULL => linkedTo'[primary'[a]] = a
         /\ recorded' \in SUBSET Devices
         /\ \A d \in recorded' \ recorded : linkedTo[d] = NULL =>
              \E t \in Tasks : Calls(t) /\ task[t].device = d
<1> USE DEF IosInv
<1>1. /\ linkedTo \in [Devices -> Accounts \cup {NULL}] /\ primary \in [Accounts -> Devices \cup {NULL}]
      /\ \A a \in Accounts : primary[a] # NULL => linkedTo[primary[a]] = a
      /\ recorded \in SUBSET Devices
  BY DEF IosTypeOK, ServerInv
<1>2. ASSUME NEW t \in Tasks, ServerStep(t)
      PROVE  /\ Calls(t) /\ task[t].device \in Devices /\ AccountOf(t) \in Accounts \cup {NULL}
             /\ task[t].token # NULL => AccountOf(t) \in Accounts
  <2>1. task[t] \in TaskType /\ Known(task[t].token)
    BY DEF IosTypeOK, KnownInv
  <2>2. task[t].net = "sent" /\ task[t].request = "fetch"
    BY <1>2 DEF ServerStep, Sent
  <2>3. Calls(t) /\ task[t].device \in Devices
    BY <2>1, <2>2 DEF RequestInv, Calls, TaskType
  <2>4. task[t].token \in Tokens
    BY <2>1 DEF TaskType
  <2> QED
    BY <2>1, <2>3, <2>4, OwnersLast DEF AccountOf
<1>3. ASSUME NEW t \in Tasks, ServerStep(t), ServerLinks(t)
      PROVE  /\ linkedTo' \in [Devices -> Accounts \cup {NULL}] /\ primary' \in [Accounts -> Devices \cup {NULL}]
             /\ \A d \in Devices : linkedTo[d] # NULL => linkedTo'[d] = linkedTo[d]
             /\ \A a \in Accounts : primary[a] # NULL => primary'[a] = primary[a]
             /\ \A a \in Accounts : primary'[a] # NULL => linkedTo'[primary'[a]] = a
  <2>1. task[t].device \in Devices /\ AccountOf(t) \in Accounts
    BY <1>2, <1>3 DEF ServerLinks, Rejected
  <2> DEFINE d == task[t].device
             a == AccountOf(t)
  <2>2. CASE linkedTo[d] = NULL
    <3>1. linkedTo' = [linkedTo EXCEPT ![d] = a]
          /\ primary' = [primary EXCEPT ![a] = IF primary[a] = NULL THEN d ELSE primary[a]]
      BY <1>3, <2>2 DEF ServerLinks
    <3> HIDE DEF d, a
    <3> QED
      BY <1>1, <2>1, <2>2, <3>1, IosAssumption DEF d, a
  <2>3. CASE linkedTo[d] # NULL
    BY <1>1, <1>3, <2>3 DEF ServerLinks
  <2> QED
    BY <2>2, <2>3
<1>4. ASSUME NEW t \in Tasks, ServerStep(t), ServerRecords(t)
      PROVE  /\ recorded' \in SUBSET Devices
             /\ \A d \in recorded' \ recorded : linkedTo[d] = NULL =>
                  \E u \in Tasks : Calls(u) /\ task[u].device = d
  <2> DEFINE r == ResolvedRow(t)
  <2>1. task[t].device \in Devices /\ AccountOf(t) \in Accounts \cup {NULL} /\ Calls(t)
    BY <1>2, <1>4
  <2>2. r \in Devices \cup {NULL} /\ (r # NULL => linkedTo[r] # NULL \/ r = task[t].device)
    BY <1>1, <2>1, IosAssumption DEF ResolvedRow
  <2>3. (r = NULL /\ recorded' = recorded) \/ (r # NULL /\ recorded' = recorded \cup {r})
    BY <1>4 DEF ServerRecords
  <2> HIDE DEF r
  <2> QED
    BY <1>1, <2>1, <2>2, <2>3
<1> QED
  BY <1>1, <1>3, <1>4, Changes

(* Every step keeps the types.                                              *)
LEMMA TypeStep == IosInv /\ [Next]_vars => IosTypeOK'
<1> SUFFICES ASSUME IosInv, [Next]_vars PROVE IosTypeOK'
  OBVIOUS
<1> USE DEF IosInv
<1>0. IosTypeOK /\ \A t \in Tasks : task[t].token \in Tokens
  BY DEF IosTypeOK, TaskType
<1>1. tokens' \in Tokens
  BY <1>0, Changes DEF IosTypeOK, Tokens, SignedIn, Refreshed, apply
<1>2. pending' \in BOOLEAN
  BY <1>0, Changes DEF IosTypeOK, SignedIn, Succeeded, Restart, KilledInSignIn, KilledInClear, sessionVars
<1>3. state' \in {"idle", "linking", "failed"}
  BY <1>0, Changes DEF IosTypeOK
<1>4. keychain' \in Devices \cup {NULL} /\ drawn' \in Devices /\ raced' \in BOOLEAN
  <2>1. ASSUME NEW t \in Tasks, GotId(t)
        PROVE  keychain' \in Devices \cup {NULL} /\ drawn' \in Devices /\ raced' \in BOOLEAN
    BY <1>0, <2>1, IosAssumption DEF GotId, Saved, IosTypeOK, Devices
  <2> QED
    BY <1>0, <2>1, Changes DEF IosTypeOK
<1>5. cached' \in Devices \cup {NULL}
  <2>1. ASSUME NEW t \in Tasks, GotId(t) PROVE cached' \in Devices
    BY <1>0, <2>1, IosAssumption DEF GotId, IosTypeOK, Devices
  <2> QED
    BY <1>0, <2>1, Changes DEF IosTypeOK, Conflict, Restart, Relaunched
<1>6. late' \in BOOLEAN
  BY <1>0, Changes DEF IosTypeOK, Late
<1>7. task' \in [Tasks -> TaskType]
  BY TaskSteps DEF TasksStep
<1>8. sessions' \in Seq(SessionType)
  BY SessionsLast
<1> QED
  BY <1>1, <1>2, <1>3, <1>4, <1>5, <1>6, <1>7, <1>8, LinkedLasts DEF IosTypeOK

(* Tokens are of sessions that Cognito knows.                               *)
LEMMA KnownStep == IosInv /\ [Next]_vars => KnownInv'
<1> SUFFICES ASSUME IosInv, [Next]_vars PROVE KnownInv'
  OBVIOUS
<1> USE DEF IosInv
<1>1. /\ Len(sessions) \in Nat /\ Len(sessions') \in Nat /\ Len(sessions) <= Len(sessions')
      /\ Len(sessions') <= MaxSessions
  BY SessionsLast
<1>2. /\ tokens # NULL => tokens.session \in 1 .. Len(sessions')
      /\ \A t \in Tasks : task[t].token # NULL => task[t].token.session \in 1 .. Len(sessions')
      /\ \A t \in Tasks : task[t].begun # NULL => task[t].begun \in 1 .. Len(sessions')
  BY <1>1 DEF KnownInv, Known
<1>3. tokens' # NULL => tokens'.session \in 1 .. Len(sessions')
  BY <1>2, Changes DEF SignedIn, Refreshed, apply
<1>4. ASSUME NEW u \in Tasks
      PROVE  /\ task'[u].token # NULL => task'[u].token.session \in 1 .. Len(sessions')
             /\ task'[u].begun # NULL => task'[u].begun \in 1 .. Len(sessions')
  <2>1. Step(u)
    BY TaskSteps DEF TasksStep
  <2>2. CASE Kept(u) \/ Rests(u) \/ Leaves(u)
    BY <1>2, <2>2 DEF Kept, Rests, Leaves
  <2>3. CASE Starts(u)
    BY <1>2, <2>3 DEF Starts, CurrentSession
  <2>4. CASE Goes(u)
    BY <1>2, <2>4 DEF Goes
  <2>5. CASE Retries(u)
    BY <1>2, <2>5 DEF Retries
  <2>6. CASE Told(u)
    BY <1>1, <1>2, <2>6 DEF Told
  <2> QED
    BY <2>1, <2>2, <2>3, <2>4, <2>5, <2>6 DEF Step
<1> QED
  BY <1>1, <1>3, <1>4 DEF KnownInv, Known

(* What tasks wait for and carry.                                           *)
LEMMA RequestStep == IosInv /\ [Next]_vars => RequestInv'
<1> SUFFICES ASSUME IosInv, [Next]_vars, NEW u \in Tasks
             PROVE /\ task'[u].pc \in {"idle", "ensureLinked"} => task'[u].net = "none"
                   /\ task'[u].pc = "ensureLinked" => task'[u].op \in Links
                   /\ task'[u].pc = "lost" => task'[u].request = "fetch"
                   /\ task'[u].pc = "await" /\ task'[u].request \in {"refresh", "revoke"} => task'[u].token # NULL
                   /\ Linking(u)' => task'[u].request \in {"getId", "refresh", "fetch"}
                   /\ task'[u].net = "answered" => task'[u].pc = "await"
                   /\ Calls(u)' => task'[u].device \in Devices
  BY DEF RequestInv
<1> USE DEF IosInv
<1>0. task[u] \in TaskType
  BY DEF IosTypeOK
<1>2. Step(u)
  BY TaskSteps DEF TasksStep
<1>3. CASE Kept(u)
  BY <1>3 DEF RequestInv, Kept, Calls, Linking
<1>4. CASE Rests(u)
  BY <1>4 DEF Rests, Calls, Linking
<1>5. CASE Leaves(u)
  <2>1. task[u].pc \in {"await", "lost"}
    BY <1>0, <1>5 DEF RequestInv, TaskType, Leaves
  <2> QED
    BY <1>5, <2>1 DEF RequestInv, Leaves, Calls, Linking
<1>6. CASE Starts(u)
  BY <1>6 DEF Starts, Asked, Calls, Linking
<1>7. CASE Goes(u)
  BY <1>7 DEF Goes, Asked, Calls, Linking
<1>8. CASE Retries(u)
  <2>1. Refreshed(u) => task[u].request = "refresh" /\ task[u].pc = "await"
    BY DEF Refreshed, Answered, Awaits
  <2> QED
    BY <1>8, <2>1 DEF RequestInv, Retries, Asked, Calls, Linking
<1>9. CASE Told(u)
  <2>1. task[u].pc = "await"
    BY <1>0, <1>9 DEF RequestInv, TaskType, Told
  <2> QED
    BY <1>9, <2>1 DEF RequestInv, Told, Calls, Linking
<1> QED
  BY <1>2, <1>3, <1>4, <1>5, <1>6, <1>7, <1>8, <1>9 DEF Step

-----------------------------------------------------------------------------
(* A link that ends is no longer the one under way.                         *)
LEMMA LinkEnds ==
  ASSUME IosInv, [Next]_vars, NEW u \in Tasks, Linking(u), Rests(u) \/ Leaves(u)
  PROVE  state' # "linking"
<1> USE DEF IosInv
<1>1. /\ task[u].op \in Links /\ task[u].pc = "await" /\ task[u].request \in {"getId", "refresh", "fetch"}
      /\ task'[u].pc # "await" /\ task \in [Tasks -> TaskType]
  BY DEF Linking, RequestInv, Rests, Leaves, IosTypeOK
<1>2. ASSUME NEW t \in Tasks, NEW r, Become(t, r) PROVE t = u
  BY <1>1, <1>2 DEF Become
<1>3. ASSUME NEW t \in Tasks, Begin(t) PROVE FALSE
  <2>1. CASE retry(t)
    BY <1>1, <1>2, <2>1 DEF retry, Free
  <2>2. CASE ensureLinked(t)
    BY <1>1, <1>2, <2>2 DEF ensureLinked
  <2> QED
    BY <1>1, <1>2, <1>3, <2>1, <2>2 DEF Begin, Answer, SignIn, SignOut, Free
<1>4. ASSUME NEW t \in Tasks, SignedIn(t) \/ SignedOut(t) \/ Forget(t) PROVE FALSE
  BY <1>1, <1>2, <1>4 DEF SignedIn, SignedOut, Forget, Answered, Awaits
<1>5. ASSUME NEW t \in Tasks, Fail(t) PROVE state' # "linking"
  BY <1>1, <1>2, <1>5 DEF Fail
<1>6. ASSUME NEW t \in Tasks, Lost(t) PROVE state' # "linking"
  BY <1>1, <1>2, <1>6 DEF Lost
<1>7. ASSUME NEW t \in Tasks, Succeeded(t) PROVE state' # "linking"
  BY <1>1, <1>2, <1>7 DEF Succeeded
<1>8. ASSUME NEW t \in Tasks, GotId(t) \/ Refreshed(t) \/ (Conflict(t) /\ ~ Fail(t)) \/ (Unauthorized(t) /\ ~ Fail(t))
      PROVE  FALSE
  <2>1. task[t] \in TaskType
    BY DEF IosTypeOK
  <2>2. \A q \in {"refresh", "fetch", "getId"} : \A r \in TaskType : Await(r, q).pc = "await"
    BY AwaitFields DEF Requests
  <2>3. CASE GotId(t)
    <3>1. Become(t, validIdToken(task[t], drawn'))
      BY <2>3 DEF GotId
    <3>2. drawn' \in Devices
      BY TypeStep DEF IosTypeOK
    <3>3. t = u /\ validIdToken(task[t], drawn').pc = "await"
      BY <1>2, <2>1, <3>1, <3>2, CallFields
    <3> QED
      BY <1>1, <3>1, <3>3, BecomeFields DEF Become
  <2>4. CASE Refreshed(t)
    BY <1>1, <1>2, <2>1, <2>2, <2>4 DEF Refreshed, Become
  <2>5. CASE Conflict(t) /\ ~ Fail(t)
    <3>1. [task[t] EXCEPT !.rotated = TRUE, !.retried = FALSE] \in TaskType
      BY <2>1 DEF TaskType
    <3>2. Become(t, Await([task[t] EXCEPT !.rotated = TRUE, !.retried = FALSE], "getId"))
      BY <2>5 DEF Conflict
    <3> QED
      BY <1>1, <1>2, <2>2, <3>1, <3>2 DEF Become
  <2>6. CASE Unauthorized(t) /\ ~ Fail(t)
    <3>1. [task[t] EXCEPT !.retried = TRUE, !.token = tokens] \in TaskType
      BY <2>1 DEF TaskType, IosTypeOK
    <3>2. Become(t, Await([task[t] EXCEPT !.retried = TRUE, !.token = tokens], "refresh"))
      BY <2>6 DEF Unauthorized
    <3> QED
      BY <1>1, <1>2, <2>2, <3>1, <3>2 DEF Become
  <2> QED
    BY <1>8, <2>3, <2>4, <2>5, <2>6
<1>9. ASSUME NEW t \in Tasks, Receive(t) PROVE state' # "linking"
  BY <1>4, <1>5, <1>6, <1>7, <1>8, <1>9 DEF Receive, sessionExpired
<1>10. ASSUME NEW t \in Tasks, NEW r, NEW tk, Reply(t, r, tk) PROVE FALSE
  BY <1>1, <1>10 DEF Reply, Become
<1>11. ASSUME NEW t \in Tasks, ServerStep(t) PROVE FALSE
  BY <1>10, <1>11 DEF ServerStep, ServerRejects, ServerLinks, ServerRecords
<1>12. ~ CognitoStep
  BY <1>1, <1>10 DEF CognitoStep, CognitoRefreshes, CognitoRevokes, CognitoSignsIn, Expire
<1>13. Restart => state' # "linking"
  BY DEF Restart, Relaunched
<1>14. ~ UNCHANGED vars
  BY <1>1 DEF vars
<1> QED
  BY <1>3, <1>4, <1>9, <1>11, <1>12, <1>13, <1>14 DEF Next

(* The coordinator is linking from when a link begins until it ends.        *)
LEMMA StateMoves ==
  ASSUME IosInv, [Next]_vars
  PROVE  /\ state = "linking" /\ state' # "linking" => \A u \in Tasks : ~ Linking(u)'
         /\ state # "linking" /\ state' = "linking" => \E u \in Tasks : Linking(u)'
<1> USE DEF IosInv
<1>0. \A t \in Tasks : task[t] \in TaskType
  BY DEF IosTypeOK
<1>1. ASSUME NEW t \in Tasks, task[t].op \in Links, task[t].pc = "await",
             Become(t, Idle) \/ Become(t, Left(task[t])), state = "linking"
      PROVE  \A u \in Tasks : ~ Linking(u)'
  <2>1. \A u \in Tasks \ {t} : ~ Linking(u)
    BY <1>1 DEF LinkInv, Linking
  <2>2. task'[t] \in {Idle, Left(task[t])} /\ \A u \in Tasks \ {t} : task'[u] = task[u]
    BY <1>1 DEF Become, IosTypeOK
  <2>3. Idle.pc = "idle" /\ Left(task[t]).pc # "await"
    BY <1>0, LeftFields DEF Idle
  <2> QED
    BY <2>1, <2>2, <2>3 DEF Linking
<1>2. ASSUME NEW t \in Tasks, NEW o \in Links, Become(t, sendAuthenticated(Started(o)))
      PROVE  Linking(t)'
  <2>1. Started(o) \in TaskType /\ Started(o).op = o
    BY IdleType DEF Started, Idle, TaskType, Links, Ops
  <2>2. sendAuthenticated(Started(o)).op = o /\ sendAuthenticated(Started(o)).pc = "await"
    BY <2>1, SendFields
  <2>3. task'[t] = sendAuthenticated(Started(o))
    BY <1>2 DEF Become, IosTypeOK
  <2> QED
    BY <2>2, <2>3 DEF Linking
<1> DEFINE G == /\ state = "linking" /\ state' # "linking" => \A u \in Tasks : ~ Linking(u)'
                /\ state # "linking" /\ state' = "linking" => \E u \in Tasks : Linking(u)'
<1>3. ASSUME state' = state PROVE G
  BY <1>3
<1>4. ASSUME NEW t \in Tasks, Begin(t) PROVE G
  <2>1. CASE ensureLinked(t)
    <3>1. task[t].op \in Links
      BY <2>1 DEF ensureLinked, RequestInv
    <3> QED
      BY <1>2, <1>3, <2>1, <3>1 DEF ensureLinked
  <2>2. CASE retry(t)
    <3>1. "link" \in Links
      BY DEF Links
    <3> QED
      BY <1>2, <2>2, <3>1 DEF retry
  <2> QED
    BY <1>3, <1>4, <2>1, <2>2 DEF Begin, Answer, SignIn, SignOut
<1>5. ASSUME NEW t \in Tasks, Fail(t), task[t].pc = "await" PROVE G
  BY <1>1, <1>3, <1>5 DEF Fail
<1>6. ASSUME NEW t \in Tasks, Lost(t) PROVE G
  BY <1>1, <1>3, <1>6 DEF Lost, AfterLoss, Answered, Awaits
<1>7. ASSUME NEW t \in Tasks, Succeeded(t) PROVE G
  BY <1>1, <1>3, <1>7 DEF Succeeded, Answered, Awaits
<1>8. ASSUME NEW t \in Tasks, sessionExpired(t) PROVE G
  BY <1>5, <1>8 DEF sessionExpired, Answered, Awaits
<1>9. ASSUME NEW t \in Tasks, Unauthorized(t) \/ Conflict(t) PROVE G
  BY <1>3, <1>5, <1>9 DEF Unauthorized, Conflict, Answered, Awaits
<1>10. CASE Restart
  <2>1. \A u \in Tasks : Left(task[u]).pc # "await" /\ Idle.pc # "await" /\ Launch.pc # "await"
    BY <1>0, LeftFields DEF Idle, Launch
  <2>2. \A u \in Tasks : task'[u] \in {Launch, Left(task[u])}
    BY <1>10 DEF Restart, Relaunched
  <2> QED
    BY <1>10, <2>1, <2>2 DEF Linking, Restart, Relaunched
<1>11. ASSUME NEW t \in Tasks, SignedIn(t) \/ SignedOut(t) \/ GotId(t) \/ Refreshed(t) \/ Forget(t) \/ ServerStep(t)
       PROVE  G
  BY <1>3, <1>11 DEF SignedIn, SignedOut, GotId, Refreshed, Forget, ServerStep
<1>12. CASE CognitoStep \/ UNCHANGED vars
  BY <1>3, <1>12 DEF CognitoStep, vars
<1> QED
  BY <1>4, <1>6, <1>7, <1>8, <1>9, <1>10, <1>11, <1>12 DEF Next, Receive

(* One link at a time, and the coordinator knows of it.                     *)
LEMMA LinkStep == IosInv /\ [Next]_vars => LinkInv'
<1> SUFFICES ASSUME IosInv, [Next]_vars PROVE LinkInv'
  OBVIOUS
<1>s. \A u \in Tasks : Step(u)
  BY TaskSteps DEF TasksStep, IosInv
<1>m. \/ \A u \in Tasks : Rests(u) \/ Leaves(u)
      \/ \A t, u \in Tasks : Kept(t) \/ Kept(u) \/ t = u
  BY TaskSteps DEF TasksStep, IosInv
<1>l. /\ \A t \in Tasks : Linking(t) => state = "linking" /\ \A u \in Tasks : Linking(u) => u = t
      /\ state = "linking" => \E t \in Tasks : Linking(t)
  BY DEF IosInv, LinkInv
<1>1. ASSUME NEW u \in Tasks
      PROVE  \/ Linking(u)' = Linking(u)
             \/ Starts(u) /\ ~ Kept(u) /\ state # "linking" /\ state' = "linking"
             \/ ~ Linking(u)' /\ (Linking(u) => state' # "linking")
  <2>1. CASE Rests(u) \/ Leaves(u)
    BY <2>1, LinkEnds DEF Rests, Leaves, Linking
  <2>2. CASE Starts(u)
    BY <2>2 DEF Starts, Asked, Linking, Kept
  <2>3. CASE Kept(u) \/ Goes(u) \/ Retries(u) \/ Told(u)
    BY <2>3 DEF Kept, Goes, Retries, Told, Asked, Linking
  <2>4. Step(u)
    BY <1>s
  <2> QED
    BY <2>1, <2>2, <2>3, <2>4 DEF Step
<1>2. ASSUME NEW t \in Tasks, Linking(t)' PROVE state' = "linking"
  BY <1>1, <1>2, <1>l, StateMoves
<1>3. ASSUME NEW t \in Tasks, NEW u \in Tasks, Linking(t)', Linking(u)' PROVE u = t
  <2>1. ~ \A v \in Tasks : Rests(v) \/ Leaves(v)
    BY <1>3 DEF Rests, Leaves, Linking
  <2> QED
    BY <1>1, <1>3, <1>l, <1>m, <2>1
<1>4. ASSUME state' = "linking" PROVE \E t \in Tasks : Linking(t)'
  BY <1>1, <1>4, <1>l, StateMoves
<1> QED
  BY <1>2, <1>3, <1>4 DEF LinkInv

(* A sign-in that was answered is of a session that nothing else is of.     *)
LEMMA FreshStep == IosInv /\ [Next]_vars => FreshInv'
<1> SUFFICES ASSUME IosInv, [Next]_vars, NEW t \in Tasks, Answered(t, "signIn", "ok")'
             PROVE  /\ task'[t].token # NULL
                    /\ tokens' # NULL => tokens'.session # task'[t].token.session
                    /\ \A u \in Tasks :
                         /\ task'[u].begun # task'[t].token.session
                         /\ u # t /\ task'[u].token # NULL => task'[u].token.session # task'[t].token.session
  BY DEF FreshInv
<1> DEFINE n == task'[t].token.session
<1>s. /\ \A u \in Tasks : Step(u)
      /\ (\A u \in Tasks : Rests(u) \/ Leaves(u)) \/ \A u, v \in Tasks : Kept(u) \/ Kept(v) \/ u = v
  BY TaskSteps DEF TasksStep, IosInv
<1>k. /\ Len(sessions) \in Nat
      /\ tokens # NULL => tokens.session \in 1 .. Len(sessions)
      /\ \A u \in Tasks : /\ task[u].token # NULL => task[u].token.session \in 1 .. Len(sessions)
                          /\ task[u].begun # NULL => task[u].begun \in 1 .. Len(sessions)
  BY DEF IosInv, KnownInv, Known, IosTypeOK
<1>1. /\ task'[t].net = "answered" /\ task'[t].request = "signIn" /\ task'[t].reply = "ok" /\ task'[t].pc = "await"
  BY DEF Answered, Awaits
<1>2. Kept(t) \/ Told(t)
  BY <1>1, <1>s DEF Step, Rests, Leaves, Starts, Goes, Retries, Asked
<1>3. \A u, v \in Tasks : Kept(u) \/ Kept(v) \/ u = v
  BY <1>1, <1>s DEF Rests, Leaves
<1>4. CASE Told(t)
  <2>1. n = Len(sessions) + 1 /\ task'[t].token # NULL /\ Len(sessions') = Len(sessions) + 1
        /\ task'[t].begun = task[t].begun /\ task'[t].net # task[t].net
    BY <1>1, <1>4 DEF Told
  <2>2. \A u \in Tasks \ {t} : Kept(u)
    BY <1>3, <2>1 DEF Kept
  <2>3. \A u \in Tasks : task'[u].begun = task[u].begun /\ (u # t => task'[u].token = task[u].token)
    BY <2>1, <2>2 DEF Kept
  <2>4. tokens' # NULL => tokens'.session \in 1 .. Len(sessions)
    <3>1. ASSUME NEW v \in Tasks, SignedIn(v) \/ Refreshed(v) PROVE tokens' = task[v].token
      BY <3>1 DEF SignedIn, Refreshed, apply
    <3> QED
      BY <1>k, <3>1, Changes
  <2> HIDE DEF n
  <2> QED
    BY <1>k, <2>1, <2>3, <2>4, IosAssumption DEF n
<1>5. CASE Kept(t)
  <2>1. Answered(t, "signIn", "ok") /\ n = task[t].token.session /\ task'[t].token = task[t].token
    BY <1>1, <1>5 DEF Kept, Answered, Awaits
  <2>2. /\ task[t].token # NULL
        /\ tokens # NULL => tokens.session # n
        /\ \A u \in Tasks : /\ task[u].begun # n
                            /\ u # t /\ task[u].token # NULL => task[u].token.session # n
    BY <2>1 DEF IosInv, FreshInv
  <2>3. n \in 1 .. Len(sessions) /\ n # NULL
    BY <1>k, <2>1, <2>2, IosAssumption
  <2>4. ASSUME NEW v \in Tasks, SignedIn(v) \/ Refreshed(v) PROVE tokens' = task[v].token /\ v # t
    <3>1. tokens' = task[v].token
      BY <2>4 DEF SignedIn, Refreshed, apply
    <3>2. task'[v].pc # "await" \/ task'[v].request = "fetch"
      <4>1. task[v] \in TaskType
        BY DEF IosInv, IosTypeOK
      <4>2. Refreshed(v) => Become(v, Await(task[v], "fetch")) /\ Await(task[v], "fetch").request = "fetch"
        BY <4>1, AwaitFields DEF Refreshed, Requests
      <4>3. SignedIn(v) => Become(v, [Idle EXCEPT !.op = "link", !.pc = "ensureLinked"])
        BY DEF SignedIn
      <4>4. [Idle EXCEPT !.op = "link", !.pc = "ensureLinked"].pc = "ensureLinked"
        BY DEF Idle
      <4>5. task \in [Tasks -> TaskType]
        BY DEF IosInv, IosTypeOK
      <4> QED
        BY <2>4, <4>2, <4>3, <4>4, <4>5 DEF Become
    <3> QED
      BY <1>1, <3>1, <3>2
  <2>5. tokens' # NULL => tokens'.session # n
    BY <2>2, <2>4, Changes
  <2>6. ASSUME NEW u \in Tasks
        PROVE  /\ task'[u].begun # n
               /\ u # t /\ task'[u].token # NULL => task'[u].token.session # n
    <3>1. CASE Kept(u) \/ Rests(u) \/ Leaves(u)
      BY <2>2, <2>3, <3>1 DEF Kept, Rests, Leaves
    <3>2. CASE Starts(u)
      BY <2>2, <2>3, <3>2 DEF Starts, CurrentSession
    <3>3. CASE Goes(u)
      BY <2>2, <2>3, <3>3 DEF Goes
    <3>4. CASE Retries(u)
      BY <2>2, <2>3, <3>4 DEF Retries
    <3>5. CASE Told(u)
      BY <1>k, <2>2, <2>3, <3>5 DEF Told
    <3> QED
      BY <1>s, <3>1, <3>2, <3>3, <3>4, <3>5 DEF Step
  <2> QED
    BY <2>1, <2>2, <2>5, <2>6
<1> QED
  BY <1>2, <1>4, <1>5

(* What the server has answered a link is still so.                         *)
LEMMA ServerInvStep == IosInv /\ [Next]_vars => ServerInv'
<1> SUFFICES ASSUME IosInv, [Next]_vars, NEW t \in Tasks
             PROVE  /\ Answered(t, "fetch", "conflict")' => task'[t].op \in Links /\ linkedTo'[task'[t].device] # NULL
                    /\ Answered(t, "fetch", "ok")' /\ task'[t].op \in Links =>
                         task'[t].token # NULL /\ linkedTo'[task'[t].device] = AccountOf(t)'
  BY LinkedLasts DEF ServerInv
<1> USE DEF IosInv
<1>1. Step(t)
  BY TaskSteps DEF TasksStep
<1>2. /\ linkedTo \in [Devices -> Accounts \cup {NULL}]
      /\ \A d \in Devices : linkedTo[d] # NULL => linkedTo'[d] = linkedTo[d]
  BY LinkedLasts DEF IosTypeOK
<1>3. /\ task[t] \in TaskType /\ task[t].token \in Tokens
      /\ Known(task[t].token)
  BY DEF IosTypeOK, TaskType, KnownInv
<1>o. \A tk \in Tokens : Known(tk) => OwnerOf(tk)' = OwnerOf(tk) /\ (OwnerOf(tk) = NULL <=> tk = NULL)
  BY OwnersLast
<1>a. ASSUME task'[t].token = task[t].token PROVE AccountOf(t)' = AccountOf(t)
  <2>2. PICK k \in Tokens : k = task[t].token /\ Known(k)
    BY <1>3
  <2>3. OwnerOf(k)' = OwnerOf(k)
    BY <1>o, <2>2
  <2>4. OwnerOf(k)' = (IF k = NULL THEN NULL ELSE sessions'[k.session].owner)
        /\ OwnerOf(k) = (IF k = NULL THEN NULL ELSE sessions[k.session].owner)
    BY DEF OwnerOf
  <2> QED
    BY <1>a, <2>2, <2>3, <2>4 DEF AccountOf, OwnerOf
<1>4. CASE Kept(t)
  <2>1. AccountOf(t)' = AccountOf(t)
    BY <1>a, <1>4 DEF Kept
  <2>2. Answered(t, "fetch", "conflict")' \/ Answered(t, "fetch", "ok")' => task[t].device \in Devices
    BY <1>4 DEF Kept, Answered, Awaits, RequestInv, Calls
  <2>3. /\ Answered(t, "fetch", "conflict") => task[t].op \in Links /\ linkedTo[task[t].device] # NULL
        /\ Answered(t, "fetch", "ok") /\ task[t].op \in Links =>
             task[t].token # NULL /\ linkedTo[task[t].device] = AccountOf(t)
    BY DEF ServerInv
  <2>4. AccountOf(t) = NULL => task[t].token = NULL
    BY <1>3, <1>o DEF AccountOf
  <2>5. task'[t] = task[t] /\ (Answered(t, "fetch", "conflict")' <=> Answered(t, "fetch", "conflict"))
        /\ (Answered(t, "fetch", "ok")' <=> Answered(t, "fetch", "ok"))
    BY <1>4 DEF Kept, Answered, Awaits
  <2> QED
    BY <1>2, <2>1, <2>2, <2>3, <2>4, <2>5
<1>5. CASE Told(t)
  <2>1. CASE task[t].request = "fetch"
    <3>1. task[t].pc = "await" /\ task[t].device \in Devices
      BY <1>3, <1>5, <2>1 DEF Told, RequestInv, Calls, TaskType
    <3>2. AccountOf(t)' = AccountOf(t) /\ task'[t].token = task[t].token
      BY <1>a, <1>5, <2>1 DEF Told
    <3>3. CASE ServerLinks(t) /\ task'[t].reply = IF linkedTo[task[t].device] \in {NULL, AccountOf(t)} THEN "ok" ELSE "conflict"
      <4>1. task[t].op \in Links /\ task[t].token # NULL /\ AccountOf(t) # NULL
        BY <1>3, <1>o, <3>3 DEF ServerLinks, Rejected, AccountOf
      <4>2. IF linkedTo[task[t].device] = NULL
            THEN linkedTo' = [linkedTo EXCEPT ![task[t].device] = AccountOf(t)]
            ELSE linkedTo' = linkedTo
        BY <3>3 DEF ServerLinks
      <4>3. linkedTo[task[t].device] \in {NULL, AccountOf(t)} => linkedTo'[task[t].device] = AccountOf(t)
        BY <1>2, <3>1, <4>2
      <4> QED
        BY <1>2, <1>5, <3>1, <3>2, <3>3, <4>1, <4>3 DEF Told, Answered
    <3>4. CASE task'[t].reply \in {"unauthorized", "linkRequired"} \/ (task'[t].reply = "ok" /\ task[t].op = "answer")
      BY <1>5, <3>4 DEF Told, Answered, Links
    <3> QED
      BY <1>5, <2>1, <3>3, <3>4 DEF Told
  <2>2. CASE task[t].request # "fetch"
    BY <1>5, <2>2 DEF Told, Answered, Awaits
  <2> QED
    BY <2>1, <2>2
<1>6. CASE Rests(t) \/ Leaves(t) \/ Starts(t) \/ Goes(t) \/ Retries(t)
  BY <1>6 DEF Rests, Leaves, Starts, Goes, Retries, Asked, Answered
<1> QED
  BY <1>1, <1>4, <1>5, <1>6 DEF Step

-----------------------------------------------------------------------------
(* The invariants hold at first, and always.                                *)
LEMMA InitHolds == Init => IosInv /\ DeviceInv /\ AnswerInv /\ DueInv
<1> SUFFICES ASSUME Init PROVE IosInv /\ DeviceInv /\ AnswerInv /\ DueInv
  OBVIOUS
<1> USE IosAssumption DEF Init
<1>1. PICK t \in Tasks : task = [u \in Tasks |-> IF u = t THEN Launch ELSE Idle]
  OBVIOUS
<1>0. /\ tokens \in Tokens /\ sessions \in Seq(SessionType)
      /\ Len(sessions) <= MaxSessions /\ (tokens # NULL => tokens.session \in 1 .. Len(sessions))
  <2>0. \/ tokens = NULL /\ sessions = <<>>
        \/ \E a \in Accounts : tokens = [session |-> 1, number |-> 1] /\ sessions = <<Session(a)>>
    OBVIOUS
  <2>1. CASE tokens = NULL /\ sessions = <<>>
    BY <2>1 DEF Tokens
  <2>2. ASSUME NEW a \in Accounts, tokens = [session |-> 1, number |-> 1], sessions = <<Session(a)>>
        PROVE  /\ tokens \in Tokens /\ sessions \in Seq(SessionType)
               /\ Len(sessions) = 1 /\ tokens.session = 1
    <3>1. Session(a) \in SessionType
      BY DEF Session, SessionType
    <3>2. tokens \in Tokens /\ tokens.session = 1
      BY <2>2 DEF Tokens
    <3>3. sessions \in Seq(SessionType) /\ Len(sessions) = 1
      BY <2>2, <3>1
    <3> QED
      BY <3>2, <3>3
  <2>3. 1 <= MaxSessions /\ 1 \in 1 .. 1
    OBVIOUS
  <2> QED
    BY ONLY <2>0, <2>1, <2>2, <2>3
<1>2. /\ Idle.pc = "idle" /\ Idle.net = "none" /\ Idle.token = NULL /\ Idle.begun = NULL
      /\ Launch.pc = "ensureLinked" /\ Launch.net = "none" /\ Launch.token = NULL /\ Launch.begun = NULL
      /\ Launch.op \in Links
  BY DEF Idle, Launch, Links
<1>3. \A u \in Tasks :
        /\ task[u].pc \in {"idle", "ensureLinked"} /\ task[u].net = "none"
        /\ task[u].token = NULL /\ task[u].begun = NULL
        /\ task[u].pc = "ensureLinked" => task[u].op \in Links
  BY <1>1, <1>2
<1>4. task[t].pc = "ensureLinked"
  BY <1>1, <1>2
<1>5. IosTypeOK
  <2>1. task \in [Tasks -> TaskType]
    BY <1>1, IdleType
  <2>2. tokens \in Tokens /\ sessions \in Seq(SessionType)
    BY <1>0
  <2>3. cached \in Devices \cup {NULL} /\ keychain \in Devices \cup {NULL} /\ drawn \in Devices
    BY DEF Devices
  <2>4. linkedTo \in [Devices -> Accounts \cup {NULL}] /\ primary \in [Accounts -> Devices \cup {NULL}]
    OBVIOUS
  <2> QED
    BY <2>1, <2>2, <2>3, <2>4 DEF IosTypeOK
<1>6. KnownInv
  BY <1>0, <1>3 DEF KnownInv, Known
<1>7. RequestInv /\ LinkInv /\ FreshInv
  BY <1>3 DEF RequestInv, LinkInv, FreshInv, Calls, Linking, Answered, Awaits
<1>8. ServerInv
  BY <1>3 DEF ServerInv, Answered, Awaits
<1>9. DeviceInv
  BY <1>3 DEF DeviceInv, Calls
<1>10. AnswerInv
  BY <1>3 DEF AnswerInv, Calls
<1>11. DueInv
  BY <1>3, <1>4 DEF DueInv, Offered, Awaits
<1> QED
  BY <1>5, <1>6, <1>7, <1>8, <1>9, <1>10, <1>11 DEF IosInv

(* The state of the app is well formed.                                     *)
LEMMA IosStep == IosInv /\ [Next]_vars => IosInv'
<1>1. IosInv /\ [Next]_vars =>
        IosTypeOK' /\ KnownInv' /\ RequestInv' /\ LinkInv' /\ FreshInv' /\ ServerInv'
  BY TypeStep, KnownStep, RequestStep, LinkStep, FreshStep, ServerInvStep
<1> QED
  BY <1>1 DEF IosInv

(* A conflict that empties the device id asks for a new one.                *)
LEMMA ConflictDraws ==
  ASSUME IosInv, NEW t \in Tasks, Conflict(t), cached' # cached
  PROVE  /\ Linking(t) /\ Calls(t) /\ linkedTo[task[t].device] # NULL /\ task[t].device \in Devices
         /\ cached' = NULL /\ task'[t].request = "getId"
<1> USE DEF IosInv
<1>1. task[t] \in TaskType /\ Answered(t, "fetch", "conflict")
  BY DEF IosTypeOK, Conflict
<1>2. Linking(t) /\ Calls(t) /\ linkedTo[task[t].device] # NULL /\ task[t].device \in Devices
  BY <1>1 DEF ServerInv, Linking, Answered, Awaits, Calls, RequestInv
<1>3. [task[t] EXCEPT !.rotated = TRUE, !.retried = FALSE] \in TaskType
  BY <1>1 DEF TaskType
<1>4. cached' = NULL /\ Become(t, Await([task[t] EXCEPT !.rotated = TRUE, !.retried = FALSE], "getId"))
  BY DEF Conflict
<1>5. task'[t] = Await([task[t] EXCEPT !.rotated = TRUE, !.retried = FALSE], "getId")
  BY <1>4 DEF Become, IosTypeOK
<1> QED
  BY <1>2, <1>3, <1>4, <1>5, AwaitFields DEF Requests

(* What nobody waits for any more is no longer under way.                   *)
LEMMA RestartEnds ==
  ASSUME IosTypeOK, Restart
  PROVE  /\ cached' = keychain /\ UNCHANGED <<keychain, drawn, raced, late, sessions>> /\ state' = "idle"
         /\ \A u \in Tasks : Rests(u) \/ Leaves(u)
         /\ \E t \in Tasks : task'[t].pc = "ensureLinked"
<1>1. PICK t \in Tasks : task' = [u \in Tasks |-> IF u = t THEN Launch ELSE Left(task[u])]
  BY DEF Restart, Relaunched
<1>2. \A u \in Tasks : task'[u] \in {Idle, Launch, Left(task[u])}
  BY <1>1
<1>3. task'[t].pc = "ensureLinked"
  BY <1>1 DEF Launch, Idle
<1>4. \A u \in Tasks : Rests(u) \/ Leaves(u)
  BY <1>2, LeftSteps
<1> QED
  BY <1>3, <1>4 DEF Restart, Relaunched, historyVars

-----------------------------------------------------------------------------
(* The device id is only replaced when its row is in an account.            *)
LEMMA DeviceStep == IosInv /\ DeviceInv /\ [Next]_vars => DeviceInv'
<1> SUFFICES ASSUME IosInv, DeviceInv, [Next]_vars PROVE DeviceInv'
  OBVIOUS
<1>i. IosTypeOK /\ IosTypeOK' /\ RequestInv /\ ServerInv
  BY TypeStep DEF IosInv
<1>n. NULL \notin Devices
  BY IosAssumption DEF Devices
<1>s. \A u \in Tasks : Step(u) /\ task[u] \in TaskType
  BY TaskSteps DEF TasksStep, IosInv, IosTypeOK
<1>l. \A d \in Devices : linkedTo[d] # NULL => linkedTo'[d] # NULL
  BY LinkedLasts
<1>g. ASSUME NEW t \in Tasks, GotId(t)
      PROVE  cached' = keychain' /\ cached' \in Devices /\ drawn' # drawn /\ (~ raced' => ~ raced /\ cached = NULL)
  <2>1. cached' = drawn' /\ keychain' = drawn' /\ drawn' = drawn + 1 /\ raced' = (raced \/ cached # NULL)
    BY <1>g DEF GotId, Saved
  <2>2. drawn \in Nat /\ drawn' \in Devices
    BY <1>i DEF IosTypeOK, Devices
  <2>3. raced' <=> raced \/ cached # NULL
    BY <2>1
  <2> QED
    BY <2>1, <2>2, <2>3
<1>1. cached' \in {NULL, keychain'}
  <2>1. UNCHANGED cached \/ Restart \/ \E t \in Tasks : GotId(t) \/ (Conflict(t) /\ cached' # cached)
    BY Changes
  <2>2. UNCHANGED keychain \/ \E t \in Tasks : GotId(t)
    BY Changes
  <2>3. cached \in {NULL, keychain}
    BY DEF DeviceInv
  <2> QED
    BY <1>g, <1>i, <2>1, <2>2, <2>3, ConflictDraws, RestartEnds
<1> SUFFICES ASSUME ~ raced'
             PROVE  /\ cached' = NULL /\ keychain' # NULL => linkedTo'[keychain'] # NULL
                    /\ \A u \in Tasks :
                         /\ Calls(u)' => linkedTo'[task'[u].device] # NULL \/ task'[u].device = keychain'
                         /\ Calls(u)' /\ Linking(u)' => task'[u].device = cached'
                    /\ \A d \in recorded' : linkedTo'[d] # NULL \/ d = keychain'
  BY <1>1 DEF DeviceInv
<1>2. ~ raced
  BY <1>g, Changes
<1>3. /\ cached \in {NULL, keychain} /\ keychain \in Devices \cup {NULL}
      /\ cached = NULL /\ keychain # NULL => linkedTo[keychain] # NULL
      /\ \A u \in Tasks :
           /\ Calls(u) => task[u].device \in Devices /\ (linkedTo[task[u].device] # NULL \/ task[u].device = keychain)
           /\ Calls(u) /\ Linking(u) => task[u].device = cached
  BY <1>2, <1>i DEF DeviceInv, IosTypeOK, RequestInv
<1>4. \A d \in recorded' : d \in Devices /\ (linkedTo[d] # NULL \/ d = keychain)
  BY <1>2, <1>3, LinkedLasts DEF DeviceInv
<1>5. ASSUME NEW u \in Tasks, Calls(u)'
      PROVE  \/ Calls(u) /\ task'[u].device = task[u].device /\ (Linking(u)' => Linking(u))
             \/ task'[u].device = cached' /\ cached' = keychain'
  <2>1. CASE Kept(u) \/ Rests(u)
    BY <1>5, <2>1 DEF Kept, Rests, Calls, Linking
  <2>2. CASE Leaves(u)
    BY <1>i, <1>s, <1>5, <2>2 DEF Leaves, Calls, Linking, RequestInv, TaskType
  <2>3. CASE Starts(u)
    BY <1>3, <1>n, <1>5, <2>3 DEF Starts, Asked, Calls, idVars
  <2>4. CASE Goes(u)
    BY <1>g, <1>5, <2>4 DEF Goes, Asked, Calls
  <2>5. CASE Retries(u)
    BY <2>5 DEF Retries, Asked, Calls, Linking
  <2>6. CASE Told(u)
    BY <1>5, <2>6 DEF Told, Calls, Linking
  <2> QED
    BY <1>s, <2>1, <2>2, <2>3, <2>4, <2>5, <2>6 DEF Step
<1>6. CASE \E t \in Tasks : GotId(t)
  <2>1. cached' = keychain' /\ cached' \in Devices /\ cached = NULL
    BY <1>6, <1>g
  <2>2. keychain \in Devices => linkedTo'[keychain] # NULL
    BY <1>3, <1>l, <1>n, <2>1
  <2> QED
    BY <1>3, <1>4, <1>5, <1>l, <1>n, <2>1, <2>2
<1>7. CASE ~ \E t \in Tasks : GotId(t)
  <2>1. keychain' = keychain
    BY <1>7, Changes
  <2>2. cached' # cached => Restart \/ \E t \in Tasks : Conflict(t)
    BY <1>7, Changes
  <2>3. CASE cached' = cached
    BY <1>3, <1>4, <1>5, <1>l, <1>n, <2>1, <2>3
  <2>4. CASE Restart
    <3>1. cached' = keychain' /\ \A u \in Tasks : ~ Linking(u)'
      BY <1>i, <2>1, <2>4, RestartEnds DEF Rests, Leaves, Linking
    <3> QED
      BY <1>3, <1>4, <1>5, <1>l, <1>n, <2>1, <3>1
  <2>5. ASSUME NEW t \in Tasks, Conflict(t), cached' # cached
        PROVE  /\ cached' = NULL /\ keychain \in Devices /\ linkedTo[keychain] # NULL
               /\ \A u \in Tasks : Calls(u)' /\ Linking(u)' => task'[u].device = cached'
    <3>1. /\ Linking(t) /\ Calls(t) /\ linkedTo[task[t].device] # NULL /\ task[t].device \in Devices
          /\ cached' = NULL /\ task'[t].request = "getId"
      BY <2>5, ConflictDraws
    <3>2. task[t].device = cached /\ cached = keychain
      BY <1>3, <1>n, <3>1
    <3>3. ASSUME NEW u \in Tasks, Calls(u)', Linking(u)' PROVE task'[u].device = cached'
      <4>1. u # t
        BY <3>1, <3>3 DEF Calls
      <4>2. ~ Linking(u)
        BY <3>1, <4>1 DEF IosInv, LinkInv
      <4> QED
        BY <1>5, <3>3, <4>2
    <3> QED
      BY <3>1, <3>2, <3>3
  <2>6. CASE \E t \in Tasks : Conflict(t) /\ cached' # cached
    <3>1. /\ cached' = NULL /\ keychain \in Devices /\ linkedTo'[keychain] # NULL
          /\ \A u \in Tasks : Calls(u)' /\ Linking(u)' => task'[u].device = cached'
      BY <1>l, <2>5, <2>6
    <3> QED
      BY <1>3, <1>4, <1>5, <1>l, <1>n, <2>1, <3>1
  <2> QED
    BY <2>2, <2>3, <2>4, <2>6
<1> QED
  BY <1>6, <1>7

(* The session of the tokens: it stays, it ends, or it is one that no       *)
(* answer was begun in; only an answer that comes too late brings another.  *)
LEMMA SessionMoves ==
  ASSUME IosInv, [Next]_vars, ~ late', tokens' # NULL
  PROVE  /\ ~ late
         /\ \/ CurrentSession' = CurrentSession /\ tokens # NULL
            \/ \E t \in Tasks :
                 /\ SignedIn(t) /\ CurrentSession' # CurrentSession
                 /\ \A u \in Tasks : task[u].begun # CurrentSession'
<1>1. ~ late
  BY Changes DEF Late
<1>2. ASSUME NEW t \in Tasks, SignedIn(t)
      PROVE  CurrentSession' # CurrentSession /\ \A u \in Tasks : task[u].begun # CurrentSession'
  <2>1. Answered(t, "signIn", "ok") /\ tokens' = task[t].token
    BY <1>2 DEF SignedIn, apply
  <2>2. task[t].token.session \in 1 .. Len(sessions) /\ Len(sessions) \in Nat
    BY <2>1 DEF IosInv, KnownInv, Known, FreshInv, IosTypeOK
  <2> QED
    BY <2>1, <2>2, IosAssumption DEF IosInv, FreshInv, CurrentSession
<1>3. ASSUME NEW t \in Tasks, Refreshed(t) PROVE CurrentSession' = CurrentSession /\ tokens # NULL
  <2>1. CurrentSession = task[t].token.session /\ tokens' = task[t].token
    BY <1>3 DEF Refreshed, Late, apply
  <2>2. task[t].token # NULL
    BY <1>3 DEF IosInv, RequestInv, Refreshed, Answered, Awaits
  <2>3. task[t].token.session # NULL
    BY <2>2, IosAssumption DEF IosInv, KnownInv, Known, IosTypeOK
  <2> QED
    BY <2>1, <2>2, <2>3 DEF CurrentSession
<1>4. tokens' = tokens => CurrentSession' = CurrentSession
  BY DEF CurrentSession
<1> QED
  BY <1>1, <1>2, <1>3, <1>4, Changes

(* An answer of the current session carries a token of that session.        *)
LEMMA AnswerStep == IosInv /\ AnswerInv /\ [Next]_vars => AnswerInv'
<1> SUFFICES ASSUME IosInv, AnswerInv, [Next]_vars, ~ late', NEW u \in Tasks, task'[u].op = "answer", Calls(u)',
                    task'[u].begun # NULL, task'[u].begun = CurrentSession'
             PROVE  task'[u].token # NULL /\ task'[u].token.session = task'[u].begun
  BY DEF AnswerInv
<1>s. Step(u) /\ task[u] \in TaskType
  BY TaskSteps DEF TasksStep, IosInv, IosTypeOK
<1>1. tokens' # NULL
  BY DEF CurrentSession
<1>2. task'[u].begun \in {NULL, task[u].begun, CurrentSession}
  BY <1>s DEF Step, Kept, Rests, Leaves, Starts, Goes, Retries, Told
<1>3. CurrentSession' = CurrentSession /\ tokens # NULL /\ ~ late
  BY <1>1, <1>2, SessionMoves
<1>4. tokens.session = CurrentSession
  BY <1>3 DEF CurrentSession
<1>5. task[u].op = "answer" /\ Calls(u) /\ task[u].begun = task'[u].begun
        => task[u].token # NULL /\ task[u].token.session = task'[u].begun
  BY <1>3 DEF AnswerInv
<1>6. CASE Kept(u) \/ Rests(u)
  BY <1>5, <1>6 DEF Kept, Rests, Calls
<1>7. CASE Leaves(u)
  BY <1>s, <1>5, <1>7 DEF Leaves, Calls, IosInv, RequestInv, TaskType
<1>8. CASE Starts(u)
  BY <1>3, <1>4, <1>8 DEF Starts, Asked, Calls
<1>9. CASE Goes(u)
  BY <1>3, <1>4, <1>9 DEF Goes, Asked, Calls
<1>10. CASE Retries(u)
  BY <1>3, <1>4, <1>5, <1>10 DEF Retries, Asked
<1>11. CASE Told(u)
  BY <1>5, <1>11 DEF Told, Calls
<1> QED
  BY <1>s, <1>6, <1>7, <1>8, <1>9, <1>10, <1>11 DEF Step

-----------------------------------------------------------------------------
(* A link that is due and about to begin begins; one that failed is not     *)
(* forgotten while it is due.                                               *)
LEMMA DueBegins ==
  ASSUME IosInv, [Next]_vars, tokens # NULL, pending
  PROVE  /\ \A t \in Tasks : task[t].pc = "ensureLinked" /\ state # "linking" =>
              Kept(t) \/ state' = "linking" \/ Restart
         /\ state # "idle" /\ state' = "idle" => Restart \/ pending' = FALSE
<1> DEFINE G == /\ \A t \in Tasks : task[t].pc = "ensureLinked" /\ state # "linking" =>
                     Kept(t) \/ state' = "linking" \/ Restart
                /\ state # "idle" /\ state' = "idle" => Restart \/ pending' = FALSE
<1>i. task \in [Tasks -> TaskType] /\ RequestInv
  BY DEF IosInv, IosTypeOK
<1>1. ASSUME NEW t \in Tasks, NEW r, Become(t, r), task[t].pc # "ensureLinked", state' \in {state, "failed"}
             \/ pending' = FALSE
      PROVE  G
  BY <1>1, <1>i DEF Become, Kept
<1>2. ASSUME NEW t \in Tasks, Begin(t) PROVE G
  <2>1. CASE ensureLinked(t)
    <3>1. CASE state # "linking"
      BY <2>1, <3>1 DEF ensureLinked
    <3>2. CASE state = "linking"
      BY <2>1, <3>2 DEF ensureLinked
    <3> QED
      BY <3>1, <3>2
  <2>2. CASE retry(t)
    BY <2>2 DEF retry
  <2>3. CASE Answer(t) \/ SignIn(t) \/ SignOut(t)
    BY <1>1, <2>3 DEF Answer, SignIn, SignOut, Free
  <2> QED
    BY <1>2, <2>1, <2>2, <2>3 DEF Begin
<1>3. ASSUME NEW t \in Tasks, Receive(t) PROVE G
  <2>1. task[t].pc = "await"
    BY <1>3 DEF Receive, SignedIn, SignedOut, GotId, Refreshed, sessionExpired, Unauthorized, Conflict,
       Succeeded, Lost, Answered, Awaits
  <2>2. \E r : Become(t, r)
    BY <1>3 DEF Receive, SignedIn, SignedOut, GotId, Refreshed, sessionExpired, Unauthorized, Conflict,
       Succeeded, Lost, Fail
  <2>3. state' \in {state, "failed"} \/ pending' = FALSE
    BY <1>3 DEF Receive, SignedIn, SignedOut, GotId, Refreshed, sessionExpired, Unauthorized, Conflict,
       Succeeded, Lost, Fail
  <2> QED
    BY <1>1, <2>1, <2>2, <2>3
<1>4. ASSUME NEW t \in Tasks, NEW r, NEW tk, Reply(t, r, tk), task[t].net = "sent", state' = state PROVE G
  <2>1. task[t].pc # "ensureLinked"
    BY <1>4, <1>i DEF RequestInv
  <2>2. \E q : Become(t, q)
    BY <1>4 DEF Reply
  <2> QED
    BY <1>1, <1>4, <2>1, <2>2
<1>5. ASSUME NEW t \in Tasks, ServerStep(t) PROVE G
  BY <1>4, <1>5 DEF ServerStep, ServerRejects, ServerLinks, ServerRecords, Sent
<1>6. CASE CognitoStep
  <2>1. state' = state
    BY <1>6 DEF CognitoStep
  <2>2. ASSUME UNCHANGED task PROVE G
    BY <2>1, <2>2 DEF Kept
  <2> QED
    BY <1>4, <1>6, <2>1, <2>2 DEF CognitoStep, CognitoRefreshes, CognitoRevokes, CognitoSignsIn, Expire, Sent
<1>7. ASSUME NEW t \in Tasks, Forget(t) PROVE G
  BY <1>1, <1>7 DEF Forget
<1>8. CASE Restart
  BY <1>8
<1>9. CASE UNCHANGED vars
  BY <1>9 DEF vars, Kept
<1> QED
  BY <1>2, <1>3, <1>5, <1>6, <1>7, <1>8, <1>9 DEF Next

(* What is due is offered, and what is done stays done.                     *)
LEMMA DueStep == IosInv /\ DeviceInv /\ DueInv /\ [Next]_vars => DueInv'
<1> SUFFICES ASSUME IosInv, DeviceInv, DueInv, [Next]_vars PROVE DueInv'
  OBVIOUS
<1>s. \A u \in Tasks : Step(u) /\ task[u] \in TaskType
  BY TaskSteps DEF TasksStep, IosInv, IosTypeOK
<1>i. IosTypeOK /\ RequestInv /\ LinkInv /\ LinkInv' /\ IosTypeOK' /\ NULL \notin Devices /\ NULL \notin Accounts
  BY IosStep, IosAssumption DEF IosInv, Devices
<1>t. \A t \in Tasks : SignedIn(t) \/ Refreshed(t) => tokens' # NULL
  BY DEF SignedIn, Refreshed, apply, IosInv, FreshInv, RequestInv, Answered, Awaits
<1>p. \A t \in Tasks : SignedIn(t) => pending' = TRUE /\ task'[t].pc = "ensureLinked"
  BY <1>i DEF SignedIn, Become, Idle, IosTypeOK
<1>1. ASSUME tokens' = NULL, pending', NEW u \in Tasks PROVE ~ Awaits(u, "refresh")'
  <2>1. CASE Restart
    BY <1>i, <2>1, RestartEnds DEF Rests, Leaves, Awaits
  <2>2. CASE ~ Restart
    <3>1. tokens = NULL /\ pending
      BY <1>1, <1>t, <1>p, <1>i, <2>2, Changes DEF Succeeded
    <3>2. ~ Awaits(u, "refresh")
      BY <3>1 DEF DueInv
    <3>3. ASSUME Awaits(u, "refresh")' PROVE FALSE
      <4>1. CASE Kept(u) \/ Rests(u) \/ Leaves(u)
        BY <3>2, <3>3, <4>1 DEF Kept, Rests, Leaves, Awaits
      <4>2. CASE Starts(u)
        BY <3>1, <3>3, <4>2 DEF Starts, Awaits
      <4>3. CASE Goes(u)
        BY <3>1, <3>3, <4>3 DEF Goes, Awaits
      <4>4. CASE Retries(u)
        BY <3>1, <3>3, <4>4 DEF Retries, Awaits
      <4>5. CASE Told(u)
        BY <3>2, <3>3, <4>5 DEF Told, Awaits
      <4> QED
        BY <1>s, <4>1, <4>2, <4>3, <4>4, <4>5 DEF Step
    <3> QED
      BY <3>3
  <2> QED
    BY <2>1, <2>2
<1>2. ASSUME tokens' # NULL, pending' PROVE Offered'
  <2>1. CASE Restart \/ \E t \in Tasks : SignedIn(t)
    BY <1>i, <1>p, <2>1, RestartEnds DEF Offered
  <2>2. CASE ~ (Restart \/ \E t \in Tasks : SignedIn(t))
    <3>1. pending
      BY <1>2, <1>i, <2>2, Changes DEF Succeeded
    <3>2. tokens # NULL
      <4>1. tokens = NULL => ~ \E t \in Tasks : Refreshed(t)
        BY <3>1 DEF DueInv, Refreshed, Answered, Awaits
      <4> QED
        BY <1>2, <2>2, <4>1, Changes
    <3>3. CASE state' = "failed"
      BY <3>3 DEF Offered
    <3>4. CASE state' = "linking"
      BY <1>i, <3>4 DEF Offered, LinkInv, Linking
    <3>5. CASE state' = "idle"
      <4>1. state = "idle"
        BY <1>2, <2>2, <3>1, <3>2, <3>5, DueBegins
      <4>2. PICK t \in Tasks : task[t].pc = "ensureLinked"
        BY <3>1, <3>2, <4>1 DEF DueInv, Offered
      <4>3. Kept(t)
        BY <2>2, <3>1, <3>2, <3>5, <4>1, <4>2, DueBegins
      <4> QED
        BY <4>2, <4>3 DEF Offered, Kept
    <3> QED
      BY <1>i, <3>3, <3>4, <3>5 DEF IosTypeOK
  <2> QED
    BY <2>1, <2>2
<1>3. ASSUME tokens' # NULL, ~ pending', ~ late', ~ raced'
      PROVE  Linked' /\ cached' = keychain' /\ \A u \in Tasks : ~ Linking(u)'
  <2>1. ~ late /\ CurrentSession' = CurrentSession /\ tokens # NULL
    BY <1>3, <1>p, SessionMoves
  <2>2. OwnerOf(tokens)' = OwnerOf(tokens) /\ OwnerOf(tokens) \in Accounts
    <3>1. tokens \in Tokens /\ Known(tokens)
      BY DEF IosInv, IosTypeOK, KnownInv
    <3>2. tokens.session \in 1 .. Len(sessions) /\ tokens'.session = tokens.session
      BY <1>3, <2>1, <3>1 DEF Known, CurrentSession
    <3>3. sessions[tokens.session].owner \in Accounts
      <4>1. sessions[tokens.session] \in SessionType
        BY <1>i, <3>2 DEF IosTypeOK
      <4> QED
        BY <4>1 DEF SessionType
    <3>4. sessions'[tokens'.session].owner = sessions[tokens.session].owner
      BY <1>i, <3>2, SessionsLast DEF IosInv
    <3> QED
      BY <1>3, <2>1, <3>3, <3>4 DEF OwnerOf
  <2>3. ~ raced
    BY <1>3, Changes DEF GotId
  <2>4. \A d \in Devices : linkedTo[d] # NULL => linkedTo'[d] = linkedTo[d]
    BY LinkedLasts
  <2>5. ASSUME NEW t \in Tasks, Succeeded(t), task[t].op \in Links
        PROVE  Linked' /\ cached' = keychain' /\ \A u \in Tasks : ~ Linking(u)'
    <3>1. /\ task[t].token # NULL /\ linkedTo[task[t].device] = OwnerOf(task[t].token)
          /\ Linking(t) /\ Calls(t) /\ task[t].device \in Devices
      BY <2>5 DEF Succeeded, Answered, Awaits, IosInv, ServerInv, AccountOf, Linking, Calls, RequestInv
    <3>2. CurrentSession = task[t].token.session
      BY <1>3, <2>5 DEF Succeeded, Late
    <3>3. OwnerOf(task[t].token) = OwnerOf(tokens)
      BY <2>1, <3>1, <3>2 DEF OwnerOf, CurrentSession
    <3>4. task[t].device = cached /\ cached = keychain
      BY <1>i, <2>3, <3>1 DEF DeviceInv
    <3>5. UNCHANGED <<cached, keychain, linkedTo>> /\ state' = "idle"
      BY <2>5 DEF Succeeded, idVars, serverVars
    <3>6. \A u \in Tasks : ~ Linking(u)'
      BY <1>i, <3>5 DEF LinkInv
    <3> QED
      BY <1>i, <2>2, <3>1, <3>3, <3>4, <3>5, <3>6 DEF Linked
  <2>6. CASE ~ \E t \in Tasks : Succeeded(t) /\ task[t].op \in Links
    <3>1. ~ pending
      BY <1>3, <1>p, <1>i, <2>6, Changes DEF Restart, KilledInSignIn, KilledInClear, sessionVars
    <3>2. Linked /\ cached = keychain /\ \A u \in Tasks : ~ Linking(u)
      BY <2>1, <2>3, <3>1 DEF DueInv
    <3>3. keychain \in Devices /\ linkedTo[keychain] = OwnerOf(tokens)
      BY <1>i, <3>2 DEF Linked, IosTypeOK
    <3>4. \A t \in Tasks : ~ GotId(t)
      BY <1>3, <1>i, <3>2, <3>3 DEF GotId
    <3>5. keychain' = keychain
      BY <3>4, Changes
    <3>6. cached' = keychain'
      BY <1>i, <3>2, <3>4, <3>5, Changes, ConflictDraws, RestartEnds
    <3>7. ASSUME NEW u \in Tasks, Linking(u)' PROVE FALSE
      BY <1>s, <3>1, <3>2, <3>7 DEF Step, Kept, Rests, Leaves, Starts, Goes, Retries, Told, Asked, Linking
    <3>8. Linked'
      BY <1>i, <2>2, <2>4, <3>3, <3>5 DEF Linked
    <3> QED
      BY <3>6, <3>7, <3>8
  <2> QED
    BY <2>5, <2>6
<1> QED
  BY <1>1, <1>2, <1>3 DEF DueInv

-----------------------------------------------------------------------------
(* The state of the app is well formed: one link at a time, no device or    *)
(* session that nobody issued, and answers that are still true when they    *)
(* are read.                                                                *)
THEOREM IosInvariant == Spec => [](IosInv /\ DeviceInv /\ AnswerInv /\ DueInv)
<1>1. IosInv /\ DeviceInv /\ AnswerInv /\ DueInv /\ [Next]_vars
        => (IosInv /\ DeviceInv /\ AnswerInv /\ DueInv)'
  BY IosStep, DeviceStep, AnswerStep, DueStep
<1> QED
  BY <1>1, InitHolds, PTL DEF Spec

(* Nobody is signed in without a link that is done, offered, about to begin *)
(* or under way, whatever fails or is killed when (ensureLinked, retry,     *)
(* signIn).                                                                 *)
THEOREM LinkDoneOrOffered == Spec => []LinkedOrOffered
<1>1. DueInv => LinkedOrOffered
  BY DEF DueInv, LinkedOrOffered
<1> QED
  BY <1>1, IosInvariant, PTL

(* What this device recorded is in an account or under the device id it     *)
(* has: a new id is only drawn for a row that is linked (getIdentityId,     *)
(* rotateIdentityId, linkAccount).                                          *)
THEOREM NoAnswerIsLost == Spec => []AnswersKept
<1>1. DeviceInv => AnswersKept
  BY DEF DeviceInv, AnswersKept
<1> QED
  BY <1>1, IosInvariant, PTL

(* An answer of the session there is goes to the account's row, whatever    *)
(* was refreshed, refused and sent again before (sendAuthenticated).        *)
THEOREM AnswersGoToTheAccount == Spec => AnswersReachTheAccount
<1>1. ASSUME IosInv, AnswerInv, NEW t \in Tasks, Sent(t, "fetch"), ServerRecords(t), task[t].begun # NULL,
             task[t].begun = CurrentSession, ~ late, primary[sessions[task[t].begun].owner] # NULL
      PROVE  ResolvedRow(t) = primary[sessions[task[t].begun].owner]
  <2>1. Calls(t) /\ task[t].op = "answer"
    BY <1>1 DEF IosInv, IosTypeOK, RequestInv, Calls, Sent, ServerRecords, TaskType
  <2>2. task[t].token # NULL /\ task[t].token.session = task[t].begun
    BY <1>1, <2>1 DEF AnswerInv
  <2>3. AccountOf(t) = sessions[task[t].begun].owner
    BY <2>2 DEF AccountOf, OwnerOf
  <2>4. sessions[task[t].begun].owner # NULL
    <3>1. task[t].begun \in 1 .. Len(sessions) /\ sessions \in Seq(SessionType)
      BY <1>1 DEF IosInv, KnownInv, IosTypeOK
    <3>2. sessions[task[t].begun] \in SessionType
      BY <3>1
    <3> QED
      BY <3>2, IosAssumption DEF SessionType
  <2> QED
    BY <1>1, <2>3, <2>4 DEF ResolvedRow
<1>2. IosInv /\ AnswerInv =>
        \A t \in Tasks :
          LET s == task[t].begun
          IN Sent(t, "fetch") /\ ServerRecords(t) /\ s # NULL /\ s = CurrentSession /\ ~ late
               /\ primary[sessions[s].owner] # NULL
             => ResolvedRow(t) = primary[sessions[s].owner]
  BY <1>1
<1> QED
  BY <1>2, IosInvariant, PTL DEF AnswersReachTheAccount
=============================================================================

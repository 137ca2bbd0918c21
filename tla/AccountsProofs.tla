--------------------------- MODULE AccountsProofs ---------------------------
(* Proofs about Accounts for every number of people, devices and requests. *)
EXTENDS Accounts, TLAPS

LinkSteps == {"link", "linkDevice", "linkCommit"}
DeleteSteps == {"delete", "deleteCommit", "deleteCognito", "confirm"}
DeviceSteps == LinkSteps \union {"resolve", "checkDevice", "device"}

\* What the handlers find in the request they were given.
CallOK ==
    \A r \in Requests :
        /\ pc[r] \in LinkSteps \union DeleteSteps => call[r].sub \in Subs
        /\ pc[r] \in DeviceSteps => call[r].dev \in Idents

TypeInv == TypeOK /\ CallOK

LEMMA InitTypeInv == Init => TypeInv
<1> SUFFICES ASSUME Init PROVE TypeInv
  OBVIOUS
<1> USE DEF Init
<1>1. TypeOK
  BY AccountsAssumption DEF TypeOK, TombstoneStates
<1>2. CallOK
  BY DEF CallOK, LinkSteps, DeleteSteps, DeviceSteps
<1> QED
  BY <1>1, <1>2 DEF TypeInv

LEMMA ArriveTypeInv ==
  ASSUME TypeInv, NEW r \in Requests, Arrive(r)
  PROVE  TypeInv'
<1> USE AccountsAssumption DEF TypeInv
<1> PICK op \in Operations, s \in Subs \union {NULL}, d \in Idents \union {NULL} :
        /\ op \in SignedInOps => s # NULL
        /\ (d = NULL) <=> (op = "delete")
        /\ call' = [call EXCEPT ![r] = [op |-> op, sub |-> s, dev |-> d]]
        /\ arrivedOn' = [arrivedOn EXCEPT ![r] =
                           IF d # NULL /\ linkedTo[d] # NULL
                           THEN userId[d] ELSE NULL]
        /\ Goto(r, FirstStep(op))
  BY DEF Arrive
<1>1. /\ FirstStep(op) \in Running
      /\ FirstStep(op) \in LinkSteps \union DeleteSteps => op \in SignedInOps
      /\ FirstStep(op) \in DeviceSteps => op # "delete"
  BY DEF FirstStep, Running, InTransaction, SignedInOps, ResolvingOps, TokenOps,
         AllOperations, LinkSteps, DeleteSteps, DeviceSteps
<1>2. TypeOK'
  BY <1>1 DEF TypeOK, Arrive, Goto, tables, tokens, deletedAccounts, pool, locks, locals
<1>3. CallOK'
  BY <1>1 DEF TypeOK, CallOK, Goto
<1> QED
  BY <1>2, <1>3

LEMMA FailTypeInv ==
  ASSUME TypeInv, NEW r \in Requests, Fail(r)
  PROVE  TypeInv'
BY DEF TypeInv, TypeOK, CallOK, Fail, Goto, ReleaseLocks, Results,
       LinkSteps, DeleteSteps, DeviceSteps, tables, tokens, deletedAccounts, pool, locals, origin

LEMMA LinkTypeInv ==
  ASSUME TypeInv, NEW r \in Requests, LinkStep(r)
  PROVE  TypeInv'
<1> USE DEF TypeInv, TypeOK, CallOK, Goto, TakeSubLock, ReleaseLocks, Results, Running,
            InTransaction, LinkSteps, DeleteSteps, DeviceSteps, tables, tokens, deletedAccounts, pool,
            locks, locals, origin, At
<1>1. CASE LinkLockSub(r)
  BY <1>1 DEF LinkLockSub
<1>2. CASE LinkRefused(r)
  BY <1>2 DEF LinkRefused
<1>3. CASE LinkLockDevice(r)
  BY <1>3 DEF LinkLockDevice
<1>4. CASE LinkAlreadyLinked(r)
  BY <1>4 DEF LinkAlreadyLinked
<1>5. CASE LinkCreate(r)
  BY <1>5 DEF LinkCreate, Upserted, SetUserAccountID
<1>6. CASE LinkMerge(r)
  <2> DEFINE s == call[r].sub
             p == IF target[r] # NULL THEN target[r] ELSE primary[s]
  <2>1. s \in Subs /\ p \in UserIds \union {NULL}
    BY <1>6 DEF LinkMerge
  <2> PICK u \in UserIds :
        /\ Upserted(call[r].dev, u)
        /\ IF u = p
           THEN UNCHANGED <<linkedTo, answers, settings>>
           ELSE /\ SetUserAccountID(call[r].dev, s)
                /\ answers' = RepointedAnswers(u, p)
                /\ settings' = MergedSettings(u, p)
    BY <1>6 DEF LinkMerge
  <2>2. RepointedAnswers(u, p) \in [Requests -> UserIds \union {NULL}]
    BY <2>1 DEF RepointedAnswers
  <2>3. MergedSettings(u, p) \in [UserIds -> [Apps -> Requests \union {NULL}]]
    BY <2>1 DEF MergedSettings
  <2> HIDE DEF s, p
  <2>4. /\ userId' \in [Idents -> UserIds \union {NULL}]
        /\ usedIds' \subseteq UserIds
    BY DEF Upserted
  <2>5. linkedTo' \in [Idents -> Subs \union {NULL}]
    BY <2>1 DEF SetUserAccountID, s
  <2>6. /\ answers' \in [Requests -> UserIds \union {NULL}]
        /\ settings' \in [UserIds -> [Apps -> Requests \union {NULL}]]
    BY <2>2, <2>3
  <2>7. /\ Goto(r, "ok")
        /\ ReleaseLocks(r)
        /\ UNCHANGED <<primary, names, deletedAccounts, tokens, pool, locals, origin>>
    BY <1>6 DEF LinkMerge
  <2> QED
    BY <2>4, <2>5, <2>6, <2>7, SMTT(30)
<1> QED
  BY <1>1, <1>2, <1>3, <1>4, <1>5, <1>6 DEF LinkStep

LEMMA DeleteTypeInv ==
  ASSUME TypeInv, NEW r \in Requests, DeleteStep(r)
  PROVE  TypeInv'
<1> USE AccountsAssumption
    DEF TypeInv, TypeOK, CallOK, Goto, TakeSubLock, ReleaseLocks, Results, Running,
        InTransaction, LinkSteps, DeleteSteps, DeviceSteps, TombstoneStates, tables,
        tokens, deletedAccounts, pool, locks, locals, origin, At
<1>1. CASE DeleteLockSub(r)
  <2>1. {userId[d] : d \in {e \in Idents : linkedTo[e] = call[r].sub}}
          \subseteq UserIds \union {NULL}
    OBVIOUS
  <2> QED
    BY <1>1, <2>1 DEF DeleteLockSub
<1>2. CASE DeleteCommit(r)
  BY <1>2 DEF DeleteCommit, Purged, AgeOfConfirmed
<1>3. CASE DeleteCognitoUser(r)
  BY <1>3 DEF DeleteCognitoUser
<1>4. CASE ConfirmTombstone(r)
  BY <1>4 DEF ConfirmTombstone
<1>5. CASE DeleteLockRow(r)
  BY <1>5 DEF DeleteLockRow
<1> QED
  BY <1>1, <1>2, <1>3, <1>4, <1>5 DEF DeleteStep

LEMMA ResolvingTypeInv ==
  ASSUME TypeInv, NEW r \in Requests, ResolvingStep(r)
  PROVE  TypeInv'
<1> USE AccountsAssumption
    DEF TypeInv, TypeOK, CallOK, Goto, Results, Running, InTransaction, LinkSteps,
        DeleteSteps, DeviceSteps, tables, tokens, deletedAccounts, pool, locks, locals, origin, At
<1>1. CASE ResolveAccount(r)
  <2>1. ResolvedAccount(r) \in Subs \union {NULL}
    BY <1>1 DEF ResolveAccount, ResolvedAccount
  <2>2. target' \in [Requests -> UserIds \union {NULL}]
    BY <1>1, <2>1 DEF ResolveAccount
  <2>3. \E step \in {"use", "checkDevice", "device"} : pc' = [pc EXCEPT ![r] = step]
    BY <1>1 DEF ResolveAccount
  <2> QED
    BY <1>1, <2>2, <2>3 DEF ResolveAccount
<1>2. CASE CheckDevice(r)
  BY <1>2 DEF CheckDevice
<1>3. CASE UpsertDevice(r)
  <2> PICK u \in UserIds :
        /\ Upserted(call[r].dev, u)
        /\ target' = [target EXCEPT ![r] = u]
    BY <1>3 DEF UpsertDevice
  <2>1. userId' \in [Idents -> UserIds \union {NULL}] /\ usedIds' \subseteq UserIds
    BY DEF Upserted
  <2>2. target' \in [Requests -> UserIds \union {NULL}]
    OBVIOUS
  <2> QED
    BY <1>3, <2>1, <2>2 DEF UpsertDevice
<1>4. CASE FindDevice(r)
  BY <1>4 DEF FindDevice
<1>5. CASE InsertAnswers(r)
  <2>1. answers' \in [Requests -> UserIds \union {NULL}]
    <3>1. CASE answers' = [answers EXCEPT ![r] = target[r]]
      BY <3>1
    <3>2. CASE UNCHANGED answers
      BY <3>2
    <3> QED
      BY <1>5, <3>1, <3>2 DEF InsertAnswers
  <2>2. \E step \in Results : pc' = [pc EXCEPT ![r] = step]
    BY <1>5 DEF InsertAnswers
  <2> QED
    BY <1>5, <2>1, <2>2, SMTT(30) DEF InsertAnswers
<1>6. CASE RejectBody(r)
  BY <1>6 DEF RejectBody
<1>7. CASE UpdateDisplayName(r)
  <2>1. names' \in [UserIds -> Requests \union {NULL}]
    BY <1>7 DEF UpdateDisplayName
  <2> QED
    BY <1>7, <2>1 DEF UpdateDisplayName
<1>8. CASE SelectWorkbook(r)
  <2>1. settings' \in [UserIds -> [Apps -> Requests \union {NULL}]]
    <3>1. CASE UNCHANGED settings
      BY <3>1
    <3>2. ASSUME NEW a \in Apps, settings' = [settings EXCEPT ![target[r]][a] = r]
          PROVE  settings' \in [UserIds -> [Apps -> Requests \union {NULL}]]
      BY <3>2
    <3> QED
      BY <1>8, <3>1, <3>2 DEF SelectWorkbook
  <2>2. \E step \in Results : pc' = [pc EXCEPT ![r] = step]
    BY <1>8 DEF SelectWorkbook
  <2> QED
    BY <1>8, <2>1, <2>2 DEF SelectWorkbook
<1>9. CASE ReadUserData(r)
  BY <1>9 DEF ReadUserData
<1> QED
  BY <1>1, <1>2, <1>3, <1>4, <1>5, <1>6, <1>7, <1>8, <1>9 DEF ResolvingStep

LEMMA TokenTypeInv ==
  ASSUME TypeInv, NEW r \in Requests, TokenStep(r)
  PROVE  TypeInv'
<1> USE AccountsAssumption
    DEF TypeInv, TypeOK, CallOK, Goto, Results, Running, InTransaction, LinkSteps,
        DeleteSteps, DeviceSteps, tables, tokens, deletedAccounts, pool, locks, locals, origin, At
<1>1. CASE GetActiveToken(r)
  BY <1>1 DEF GetActiveToken
<1>2. CASE ClearTokens(r)
  BY <1>2 DEF ClearTokens
<1>3. CASE CreateToken(r)
  BY <1>3 DEF CreateToken
<1>4. CASE LookUpToken(r)
  <2>1. presented' \in [Requests -> Requests \union {NULL}]
    BY <1>4 DEF LookUpToken
  <2>2. \E step \in {"rejected", "consume"} : pc' = [pc EXCEPT ![r] = step]
    BY <1>4 DEF LookUpToken
  <2> QED
    BY <1>4, <2>1, <2>2 DEF LookUpToken
<1>5. CASE ConsumeToken(r)
  <2>1. tokenUsed' \in [Requests -> BOOLEAN]
    <3>1. CASE tokenUsed' = [tokenUsed EXCEPT ![presented[r]] = TRUE]
      BY <3>1
    <3>2. CASE tokenUsed' = tokenUsed
      BY <3>2
    <3> QED
      BY <1>5, <3>1, <3>2 DEF ConsumeToken
  <2>2. \E step \in Results : pc' = [pc EXCEPT ![r] = step]
    BY <1>5 DEF ConsumeToken
  <2> QED
    BY <1>5, <2>1, <2>2 DEF ConsumeToken
<1> QED
  BY <1>1, <1>2, <1>3, <1>4, <1>5 DEF TokenStep

LEMMA TimeTypeInv ==
  ASSUME TypeInv, Tick \/ DailyPurge
  PROVE  TypeInv'
<1> USE AccountsAssumption
    DEF TypeInv, TypeOK, CallOK, tables, tokens, deletedAccounts, pool, locks, locals, origin
<1>1. CASE Tick
  <2>1. /\ LifeAfterTick \in [Subs -> 0..TokenLife]
        /\ AgeAfterTick \in [Subs -> 0..TombstoneLife]
    <3>1. \A n \in 0..TokenLife : n # 0 => n - 1 \in 0..TokenLife
      OBVIOUS
    <3>2. \A n \in 0..TombstoneLife : n < TombstoneLife => n + 1 \in 0..TombstoneLife
      OBVIOUS
    <3>3. \A s \in Subs : life[s] \in 0..TokenLife /\ age[s] \in 0..TombstoneLife
      OBVIOUS
    <3> QED
      BY <3>1, <3>2, <3>3 DEF LifeAfterTick, AgeAfterTick
  <2>2. /\ life' \in [Subs -> 0..TokenLife]
        /\ age' \in [Subs -> 0..TombstoneLife]
    BY <1>1, <2>1 DEF Tick
  <2>3. UNCHANGED <<tables, tombstone, tokens, cognito, locks, pc, locals, origin>>
    BY <1>1 DEF Tick
  <2> QED
    BY <2>2, <2>3
<1>2. CASE DailyPurge
  BY <1>2 DEF DailyPurge, Purged, AgeOfConfirmed, TombstoneStates
<1> QED
  BY <1>1, <1>2

LEMMA StutterTypeInv ==
  ASSUME TypeInv, UNCHANGED vars
  PROVE  TypeInv'
BY DEF TypeInv, TypeOK, CallOK, vars, tables, tokens, deletedAccounts, pool, locks, locals, origin

\* The shape of every table, lock and request is kept by every interleaving
\* of the handlers (Accounts!TypeOK), with what the handlers rely on in the
\* calls they were given.
THEOREM TypeCorrect == Spec => [](TypeOK /\ CallOK)
<1>1. Init => TypeInv
  BY InitTypeInv
<1>2. TypeInv /\ [Next]_vars => TypeInv'
  <2> SUFFICES ASSUME TypeInv, [Next]_vars PROVE TypeInv'
    OBVIOUS
  <2>1. CASE \E r \in Requests : Arrive(r) \/ Step(r) \/ Fail(r)
    BY <2>1, ArriveTypeInv, LinkTypeInv, DeleteTypeInv, ResolvingTypeInv, TokenTypeInv,
       FailTypeInv DEF Step
  <2>2. CASE Tick \/ DailyPurge
    BY <2>2, TimeTypeInv
  <2>3. CASE UNCHANGED vars
    BY <2>3, StutterTypeInv
  <2> QED
    BY <2>1, <2>2, <2>3 DEF Next
<1> QED
  BY <1>1, <1>2, PTL DEF Spec, TypeInv

-----------------------------------------------------------------------------
(* Deleted accounts stay deleted.                                          *)
(*                                                                         *)
(* NoAccountAfterDeletion is not inductive: a link that has passed the     *)
(* tombstone check still holds the sub lock, so no deletion can commit     *)
(* before it.  That a purge, which looks only at the age of a tombstone,   *)
(* never comes too early rests on the order of DeleteAccount: the age      *)
(* starts when Cognito has lost the user, so age and the remaining life of *)
(* the last token never add up to more than a token's life.                *)

Guarded == {"linkDevice", "linkCommit", "deleteCommit", "deleteCognito", "confirm"}

SubInv ==
    \A s \in Subs :
        /\ primary[s] # NULL => tombstone[s] = "none" /\ life[s] # 0
        /\ tombstone[s] = "confirmed" =>
              ~ cognito[s] /\ (life[s] # 0 => life[s] + age[s] <= TokenLife)
        /\ ~ cognito[s] /\ life[s] # 0 => tombstone[s] # "none"
        /\ life[s] = 0 => ~ cognito[s]

GuardInv ==
    \A r \in Requests :
        /\ call[r].sub \in Subs /\ pc[r] \in Running => life[call[r].sub] # 0
        /\ pc[r] \in {"linkDevice", "linkCommit", "deleteCommit"} =>
              subLock[call[r].sub] = r
        /\ pc[r] \in {"linkDevice", "linkCommit"} => tombstone[call[r].sub] = "none"
        /\ pc[r] \in {"deleteCognito", "confirm"} => tombstone[call[r].sub] # "none"
        /\ pc[r] = "confirm" => ~ cognito[call[r].sub]

DeletionInv == SubInv /\ GuardInv

\* What PurgeExpiredDeletedAccounts removes.
Expired(s) == tombstone[s] = "confirmed" /\ age[s] = TombstoneLife

\* The tombstone of a sub that could still be signed in is never removed.
LEMMA ExpiredIsOver ==
  ASSUME TypeInv, DeletionInv, NEW s \in Subs, Expired(s)
  PROVE  ~ cognito[s] /\ life[s] = 0 /\ primary[s] = NULL
<1>1. /\ tombstone[s] = "confirmed"
      /\ age[s] = TombstoneLife
      /\ life[s] \in Nat
  BY AccountsAssumption DEF Expired, TypeInv, TypeOK
<1>2. ~ cognito[s] /\ (life[s] # 0 => life[s] + age[s] <= TokenLife) /\ primary[s] = NULL
  BY <1>1 DEF DeletionInv, SubInv
<1> QED
  BY <1>1, <1>2, AccountsAssumption

\* A step that touches no account, tombstone or User Pool user, takes no lock
\* and does not enter a guarded section.
LEMMA InertStep ==
  ASSUME TypeInv, DeletionInv, NEW r \in Requests, pc[r] \in Running,
         NEW x \in (Running \ Guarded) \union Results,
         pc' = [pc EXCEPT ![r] = x],
         UNCHANGED <<primary, tombstone, age, cognito, life, call>>,
         subLock' = subLock \/ ReleaseLocks(r)
  PROVE  DeletionInv'
<1>1. \A q \in Requests, s \in Subs : q # r /\ subLock[s] = q => subLock'[s] = q
  BY DEF ReleaseLocks, TypeInv, TypeOK
<1>2. \A q \in Requests : q # r => pc'[q] = pc[q]
  BY DEF TypeInv, TypeOK
<1>3. pc'[r] = x /\ x \notin Guarded
  BY DEF TypeInv, TypeOK, Guarded, Results
<1>4. SubInv'
  BY DEF DeletionInv, SubInv
<1>5. GuardInv'
  <2> SUFFICES ASSUME NEW q \in Requests
               PROVE  /\ call[q].sub \in Subs /\ pc'[q] \in Running => life[call[q].sub] # 0
                      /\ pc'[q] \in {"linkDevice", "linkCommit", "deleteCommit"} =>
                            subLock'[call[q].sub] = q
                      /\ pc'[q] \in {"linkDevice", "linkCommit"} =>
                            tombstone[call[q].sub] = "none"
                      /\ pc'[q] \in {"deleteCognito", "confirm"} =>
                            tombstone[call[q].sub] # "none"
                      /\ pc'[q] = "confirm" => ~ cognito[call[q].sub]
    BY DEF GuardInv
  <2>1. CASE q = r
    BY <1>3, <2>1 DEF DeletionInv, GuardInv, Guarded
  <2>2. CASE q # r
    BY <1>1, <1>2, <2>2 DEF DeletionInv, GuardInv, TypeInv, CallOK, LinkSteps, DeleteSteps
  <2> QED
    BY <2>1, <2>2
<1> QED
  BY <1>4, <1>5 DEF DeletionInv

LEMMA FailDeletionInv ==
  ASSUME TypeInv, DeletionInv, NEW r \in Requests, Fail(r)
  PROVE  DeletionInv'
<1>1. "error" \in (Running \ Guarded) \union Results
  BY DEF Results
<1> QED
  BY <1>1, InertStep DEF Fail, Goto, tables, deletedAccounts, pool, origin

LEMMA ResolvingDeletionInv ==
  ASSUME TypeInv, DeletionInv, NEW r \in Requests, ResolvingStep(r)
  PROVE  DeletionInv'
<1> DEFINE free == (Running \ Guarded) \union Results
<1>1. pc[r] \in Running
  BY DEF ResolvingStep, ResolveAccount, CheckDevice, UpsertDevice, FindDevice, InsertAnswers,
         RejectBody, UpdateDisplayName, SelectWorkbook, ReadUserData, At, Running
<1>2. {"ok", "rejected", "error", "use", "checkDevice", "device", "selectWorkbook"}
        \subseteq free
  BY DEF Running, Guarded, Results, InTransaction
<1> HIDE DEF free
<1>3. \E x \in free : pc' = [pc EXCEPT ![r] = x]
  BY <1>2 DEF ResolvingStep, ResolveAccount, CheckDevice, UpsertDevice, FindDevice,
       InsertAnswers, RejectBody, UpdateDisplayName, SelectWorkbook, ReadUserData, Goto
<1>4. UNCHANGED <<primary, tombstone, age, cognito, life, call, subLock>>
  BY DEF ResolvingStep, ResolveAccount, CheckDevice, UpsertDevice, FindDevice, InsertAnswers,
         RejectBody, UpdateDisplayName, SelectWorkbook, ReadUserData, Upserted,
         tables, deletedAccounts, pool, locks, origin
<1> QED
  BY <1>1, <1>3, <1>4, InertStep DEF free

LEMMA TokenDeletionInv ==
  ASSUME TypeInv, DeletionInv, NEW r \in Requests, TokenStep(r)
  PROVE  DeletionInv'
<1> DEFINE free == (Running \ Guarded) \union Results
<1>1. pc[r] \in Running
  BY DEF TokenStep, GetActiveToken, ClearTokens, CreateToken, LookUpToken, ConsumeToken,
         At, Running
<1>2. {"ok", "rejected", "createToken", "consume"} \subseteq free
  BY DEF Running, Guarded, Results, InTransaction
<1> HIDE DEF free
<1>3. \E x \in free : pc' = [pc EXCEPT ![r] = x]
  BY <1>2 DEF TokenStep, GetActiveToken, ClearTokens, CreateToken, LookUpToken, ConsumeToken,
       Goto
<1>4. UNCHANGED <<primary, tombstone, age, cognito, life, call, subLock>>
  BY DEF TokenStep, GetActiveToken, ClearTokens, CreateToken, LookUpToken, ConsumeToken,
         tables, deletedAccounts, pool, locks, origin
<1> QED
  BY <1>1, <1>3, <1>4, InertStep DEF free

LEMMA LinkDeletionInv ==
  ASSUME TypeInv, DeletionInv, NEW r \in Requests, LinkStep(r)
  PROVE  DeletionInv'
<1> DEFINE s == call[r].sub
<1> USE AccountsAssumption DEF At, Goto, tables, deletedAccounts, pool, origin
<1>0. s \in Subs /\ pc[r] \in Running /\ life[s] # 0
  BY DEF LinkStep, LinkLockSub, LinkRefused, LinkLockDevice, LinkAlreadyLinked, LinkCreate,
         LinkMerge, TypeInv, CallOK, LinkSteps, DeletionInv, GuardInv, Running, InTransaction
<1>1. CASE LinkLockSub(r)
  <2>1. SubInv'
    BY <1>1 DEF LinkLockSub, DeletionInv, SubInv
  <2>2. GuardInv'
    BY <1>0, <1>1 DEF LinkLockSub, TakeSubLock, IsAccountDeleted, DeletionInv, GuardInv,
         TypeInv, TypeOK, CallOK, LinkSteps, DeleteSteps
  <2> QED
    BY <2>1, <2>2 DEF DeletionInv
<1>2. CASE LinkRefused(r)
  BY <1>0, <1>2, InertStep DEF LinkRefused, locks, Results
<1>3. CASE LinkLockDevice(r)
  <2>1. SubInv'
    BY <1>3 DEF LinkLockDevice, DeletionInv, SubInv
  <2>2. GuardInv'
    BY <1>0, <1>3 DEF LinkLockDevice, DeletionInv, GuardInv, TypeInv, TypeOK
  <2> QED
    BY <2>1, <2>2 DEF DeletionInv
<1>4. CASE LinkAlreadyLinked(r)
  <2>1. \E x \in Results : pc' = [pc EXCEPT ![r] = x]
    BY <1>4 DEF LinkAlreadyLinked, Results
  <2> QED
    BY <1>0, <1>4, <2>1, InertStep DEF LinkAlreadyLinked
<1>5. CASE LinkCreate(r)
  <2> PICK u \in UserIds : primary' = [primary EXCEPT ![s] = u]
    BY <1>5 DEF LinkCreate
  <2>1. tombstone[s] = "none"
    BY <1>5 DEF LinkCreate, DeletionInv, GuardInv
  <2>2. SubInv'
    BY <1>0, <1>5, <2>1 DEF LinkCreate, DeletionInv, SubInv, TypeInv, TypeOK
  <2>3. GuardInv'
    <3>1. \A q \in Requests, t \in Subs : q # r /\ subLock[t] = q => subLock'[t] = q
      BY <1>5 DEF LinkCreate, ReleaseLocks, TypeInv, TypeOK
    <3>2. pc'[r] = "ok" /\ \A q \in Requests : q # r => pc'[q] = pc[q]
      BY <1>5 DEF LinkCreate, TypeInv, TypeOK
    <3>3. UNCHANGED <<tombstone, age, cognito, life, call>>
      BY <1>5 DEF LinkCreate
    <3> QED
      BY <1>0, <3>1, <3>2, <3>3 DEF DeletionInv, GuardInv, TypeInv, CallOK, LinkSteps,
           DeleteSteps, Running, InTransaction
  <2> QED
    BY <2>2, <2>3 DEF DeletionInv
<1>6. CASE LinkMerge(r)
  BY <1>0, <1>6, InertStep DEF LinkMerge, Results
<1> QED
  BY <1>1, <1>2, <1>3, <1>4, <1>5, <1>6 DEF LinkStep

LEMMA DeleteDeletionInv ==
  ASSUME TypeInv, DeletionInv, NEW r \in Requests, DeleteStep(r)
  PROVE  DeletionInv'
<1> DEFINE s == call[r].sub
<1> USE AccountsAssumption DEF At, Goto, tables, deletedAccounts, pool, origin
<1>0. s \in Subs /\ pc[r] \in Running /\ life[s] # 0
  BY DEF DeleteStep, DeleteLockSub, DeleteLockRow, DeleteCommit, DeleteCognitoUser, ConfirmTombstone,
         TypeInv, CallOK, DeleteSteps, DeletionInv, GuardInv, Running, InTransaction
<1>1. CASE DeleteLockSub(r)
  <2>1. SubInv'
    BY <1>1 DEF DeleteLockSub, DeleteLockRow, DeletionInv, SubInv
  <2>2. GuardInv'
    BY <1>0, <1>1 DEF DeleteLockSub, DeleteLockRow, TakeSubLock, DeletionInv, GuardInv,
         TypeInv, TypeOK, CallOK, LinkSteps, DeleteSteps
  <2> QED
    BY <2>1, <2>2 DEF DeletionInv
<1>2. CASE DeleteCommit(r)
  <2>1. /\ tombstone' = [Purged EXCEPT ![s] = "unconfirmed"]
        /\ primary' = [primary EXCEPT ![s] = NULL]
        /\ pc' = [pc EXCEPT ![r] = "deleteCognito"]
        /\ ReleaseLocks(r)
        /\ AgeOfConfirmed
        /\ UNCHANGED <<cognito, life, call>>
        /\ subLock[s] = r
    BY <1>2 DEF DeleteCommit, DeletionInv, GuardInv
  <2>2. \A t \in Subs : tombstone'[t] = IF t = s THEN "unconfirmed"
                                       ELSE IF Expired(t) THEN "none" ELSE tombstone[t]
    BY <2>1 DEF Purged, Expired
  <2>3. SubInv'
    BY <1>0, <2>1, <2>2, ExpiredIsOver DEF DeletionInv, SubInv, AgeOfConfirmed, TypeInv, TypeOK
  <2>4. GuardInv'
    <3> SUFFICES ASSUME NEW q \in Requests
                 PROVE  /\ call[q].sub \in Subs /\ pc'[q] \in Running => life[call[q].sub] # 0
                        /\ pc'[q] \in {"linkDevice", "linkCommit", "deleteCommit"} =>
                              subLock'[call[q].sub] = q
                        /\ pc'[q] \in {"linkDevice", "linkCommit"} =>
                              tombstone'[call[q].sub] = "none"
                        /\ pc'[q] \in {"deleteCognito", "confirm"} =>
                              tombstone'[call[q].sub] # "none"
                        /\ pc'[q] = "confirm" => ~ cognito[call[q].sub]
      BY <2>1 DEF GuardInv
    <3>1. CASE q = r
      BY <1>0, <2>1, <2>2, <3>1 DEF TypeInv, TypeOK
    <3>2. CASE q # r
      <4>1. pc'[q] = pc[q]
        BY <2>1, <3>2 DEF TypeInv, TypeOK
      <4>2. pc[q] \in {"linkDevice", "linkCommit", "deleteCommit"} =>
               subLock'[call[q].sub] = q /\ call[q].sub # s
        BY <2>1, <3>2 DEF DeletionInv, GuardInv, ReleaseLocks, TypeInv, CallOK, LinkSteps,
             DeleteSteps
      <4>3. pc[q] \in {"deleteCognito", "confirm"} => tombstone'[call[q].sub] # "none"
        BY <2>2, <3>2, ExpiredIsOver DEF DeletionInv, GuardInv, TypeInv, CallOK, LinkSteps,
             DeleteSteps, Running
      <4>4. pc[q] \in {"linkDevice", "linkCommit"} => tombstone'[call[q].sub] = "none"
        BY <2>2, <4>2 DEF DeletionInv, GuardInv, TypeInv, CallOK, LinkSteps, DeleteSteps
      <4> QED
        BY <4>1, <4>2, <4>3, <4>4 DEF DeletionInv, GuardInv
    <3> QED
      BY <3>1, <3>2
  <2> QED
    BY <2>3, <2>4 DEF DeletionInv
<1>3. CASE DeleteCognitoUser(r)
  <2>1. tombstone[s] # "none"
    BY <1>3 DEF DeleteCognitoUser, DeletionInv, GuardInv
  <2>2. SubInv'
    BY <1>0, <1>3, <2>1 DEF DeleteCognitoUser, DeletionInv, SubInv, TypeInv, TypeOK
  <2>3. GuardInv'
    BY <1>0, <1>3, <2>1 DEF DeleteCognitoUser, DeletionInv, GuardInv, TypeInv, TypeOK, CallOK,
         LinkSteps, DeleteSteps, locks
  <2> QED
    BY <2>2, <2>3 DEF DeletionInv
<1>4. CASE ConfirmTombstone(r)
  <2>1. tombstone[s] # "none" /\ ~ cognito[s]
    BY <1>4 DEF ConfirmTombstone, DeletionInv, GuardInv
  <2>2. tombstone' = [tombstone EXCEPT ![s] = "confirmed"]
    BY <1>4, <2>1 DEF ConfirmTombstone
  <2>3. SubInv'
    BY <1>0, <1>4, <2>1, <2>2, AccountsAssumption
    DEF ConfirmTombstone, DeletionInv, SubInv, TypeInv, TypeOK
  <2>4. GuardInv'
    BY <1>0, <1>4, <2>1, <2>2 DEF ConfirmTombstone, DeletionInv, GuardInv, TypeInv, TypeOK,
         CallOK, LinkSteps, DeleteSteps, locks
  <2> QED
    BY <2>3, <2>4 DEF DeletionInv
<1>5. CASE DeleteLockRow(r)
  BY <1>5 DEF DeleteLockRow, DeletionInv, SubInv, GuardInv, TypeInv, TypeOK, locks
<1> QED
  BY <1>1, <1>2, <1>3, <1>4, <1>5 DEF DeleteStep

LEMMA ArriveDeletionInv ==
  ASSUME TypeInv, DeletionInv, NEW r \in Requests, Arrive(r)
  PROVE  DeletionInv'
<1> PICK op \in Operations, s \in Subs \union {NULL}, d \in Idents \union {NULL} :
        /\ s # NULL => TokenLives(s)
        /\ call' = [call EXCEPT ![r] = [op |-> op, sub |-> s, dev |-> d]]
        /\ Goto(r, FirstStep(op))
  BY DEF Arrive
<1>1. FirstStep(op) \notin Guarded
  BY AccountsAssumption DEF FirstStep, Guarded, AllOperations, SignedInOps, ResolvingOps,
     TokenOps
<1>2. UNCHANGED <<primary, tombstone, age, cognito, life, subLock>>
  BY DEF Arrive, tables, deletedAccounts, pool, locks
<1>3. SubInv'
  BY <1>2 DEF DeletionInv, SubInv
<1>4. GuardInv'
  <2> SUFFICES ASSUME NEW q \in Requests
               PROVE  /\ call'[q].sub \in Subs /\ pc'[q] \in Running => life[call'[q].sub] # 0
                      /\ pc'[q] \in {"linkDevice", "linkCommit", "deleteCommit"} =>
                            subLock[call'[q].sub] = q
                      /\ pc'[q] \in {"linkDevice", "linkCommit"} =>
                            tombstone[call'[q].sub] = "none"
                      /\ pc'[q] \in {"deleteCognito", "confirm"} =>
                            tombstone[call'[q].sub] # "none"
                      /\ pc'[q] = "confirm" => ~ cognito[call'[q].sub]
    BY <1>2 DEF GuardInv
  <2>1. CASE q = r
    BY <1>1, <2>1, AccountsAssumption DEF Goto, Guarded, TokenLives, TypeInv, TypeOK
  <2>2. CASE q # r
    BY <2>2 DEF Goto, DeletionInv, GuardInv, TypeInv, TypeOK
  <2> QED
    BY <2>1, <2>2
<1> QED
  BY <1>3, <1>4 DEF DeletionInv

LEMMA TimeDeletionInv ==
  ASSUME TypeInv, DeletionInv,
         Tick \/ DailyPurge
  PROVE  DeletionInv'
<1> USE AccountsAssumption DEF tables, deletedAccounts, pool, locks, origin
<1>1. CASE Tick
  <2>1. /\ UNCHANGED <<primary, tombstone, cognito, subLock, pc, call>>
        /\ life' = LifeAfterTick
        /\ age' = AgeAfterTick
        /\ \A s \in Subs : life'[s] = 0 =>
              \A q \in Requests : call[q].sub = s => pc[q] \notin Running
    BY <1>1 DEF Tick, Running, InTransaction, Results
  <2>2. \A s \in Subs :
           life'[s] = IF cognito[s] \/ life[s] = 0 THEN life[s] ELSE life[s] - 1
    BY <2>1 DEF LifeAfterTick
  <2>3. \A s \in Subs : tombstone[s] = "confirmed" =>
           age'[s] = age[s] \/ age'[s] = age[s] + 1
    BY <2>1 DEF AgeAfterTick
  <2>4. \A s \in Subs : life[s] \in Nat /\ age[s] \in Nat
    BY DEF TypeInv, TypeOK
  <2>5. SubInv'
    BY <2>1, <2>2, <2>3, <2>4 DEF DeletionInv, SubInv
  <2>6. GuardInv'
    BY <2>1 DEF DeletionInv, GuardInv
  <2> QED
    BY <2>5, <2>6 DEF DeletionInv
<1>2. CASE DailyPurge
  <2>1. \A s \in Subs : tombstone'[s] = IF Expired(s) THEN "none" ELSE tombstone[s]
    BY <1>2 DEF DailyPurge, Purged, Expired
  <2>2. UNCHANGED <<primary, cognito, life, subLock, pc, call>> /\ AgeOfConfirmed
    BY <1>2 DEF DailyPurge
  <2>3. SubInv'
    BY <2>1, <2>2, ExpiredIsOver DEF AgeOfConfirmed, DeletionInv, SubInv
  <2>4. GuardInv'
    BY <2>1, <2>2, ExpiredIsOver DEF DeletionInv, GuardInv, TypeInv, CallOK, LinkSteps,
       DeleteSteps, Running, InTransaction
  <2> QED
    BY <2>3, <2>4 DEF DeletionInv
<1> QED
  BY <1>1, <1>2

LEMMA DeletionInvariant == Spec => [](TypeInv /\ DeletionInv)
<1>1. Init => DeletionInv
  BY AccountsAssumption DEF Init, DeletionInv, SubInv, GuardInv, Running, InTransaction
<1>2. TypeInv /\ DeletionInv /\ [Next]_vars => DeletionInv'
  <2> SUFFICES ASSUME TypeInv, DeletionInv, [Next]_vars PROVE DeletionInv'
    OBVIOUS
  <2>1. CASE \E r \in Requests : Arrive(r) \/ Step(r) \/ Fail(r)
    BY <2>1, ArriveDeletionInv, LinkDeletionInv, DeleteDeletionInv, ResolvingDeletionInv,
       TokenDeletionInv, FailDeletionInv DEF Step
  <2>2. CASE Tick \/ DailyPurge
    BY <2>2, TimeDeletionInv
  <2>3. CASE UNCHANGED vars
    BY <2>3 DEF vars, tables, deletedAccounts, pool, locks, origin, DeletionInv, SubInv, GuardInv
  <2> QED
    BY <2>1, <2>2, <2>3 DEF Next
<1> QED
  BY <1>1, <1>2, TypeCorrect, PTL DEF Spec, TypeInv

\* The account of a deleted sub is never created again (account.go:57-64 and
\* 230-234): for any number of concurrent links, deletions and purges.
THEOREM DeletedStaysDeleted == Spec => []NoAccountAfterDeletion
<1>1. DeletionInv => NoAccountAfterDeletion
  BY DEF DeletionInv, SubInv, NoAccountAfterDeletion, TokenLives
<1> QED
  BY <1>1, DeletionInvariant, PTL

\* Nobody but a purge removes a tombstone, and a purge, which asks only how
\* long ago Cognito lost the user, finds none of which an ID token is left
\* (accounts.sql:59-65 and the order of account.go:271-291).
THEOREM TombstonesOutliveTokens == Spec => TombstoneOutlivesTokens
<1> DEFINE Removal == \A s \in Subs :
      tombstone[s] # "none" /\ tombstone'[s] = "none" => ~ cognito[s] /\ ~ TokenLives(s)
<1>1. ASSUME TypeInv, DeletionInv, [Next]_vars PROVE Removal
  <2> SUFFICES ASSUME NEW s \in Subs, tombstone[s] # "none", tombstone'[s] = "none"
               PROVE  Expired(s)
    BY <1>1, ExpiredIsOver DEF TokenLives
  <2>1. CASE tombstone' = tombstone
    BY <2>1
  <2>2. CASE DailyPurge
    BY <2>2 DEF DailyPurge, Purged, Expired
  <2>3. ASSUME NEW r \in Requests, DeleteCommit(r) PROVE Expired(s)
    BY <2>3 DEF DeleteCommit, Purged, Expired
  <2>4. ASSUME NEW r \in Requests, ConfirmTombstone(r) PROVE Expired(s)
    BY <1>1, <2>4 DEF ConfirmTombstone, TypeInv, TypeOK
  <2>5. \/ tombstone' = tombstone
        \/ DailyPurge
        \/ \E r \in Requests : DeleteCommit(r) \/ ConfirmTombstone(r)
    <3> USE DEF deletedAccounts
    <3>1. ASSUME NEW r \in Requests, Arrive(r) \/ Fail(r) PROVE tombstone' = tombstone
      BY <3>1 DEF Arrive, Fail
    <3>2. ASSUME NEW r \in Requests, LinkStep(r) PROVE tombstone' = tombstone
      BY <3>2 DEF LinkStep, LinkLockSub, LinkRefused, LinkLockDevice, LinkAlreadyLinked,
                  LinkCreate, LinkMerge
    <3>3. ASSUME NEW r \in Requests, DeleteStep(r)
          PROVE  tombstone' = tombstone \/ DeleteCommit(r) \/ ConfirmTombstone(r)
      BY <3>3 DEF DeleteStep, DeleteLockSub, DeleteLockRow, DeleteCognitoUser
    <3>4. ASSUME NEW r \in Requests, ResolvingStep(r) PROVE tombstone' = tombstone
      BY <3>4 DEF ResolvingStep, ResolveAccount, CheckDevice, UpsertDevice, FindDevice,
                  InsertAnswers, RejectBody, UpdateDisplayName, SelectWorkbook, ReadUserData
    <3>5. ASSUME NEW r \in Requests, TokenStep(r) PROVE tombstone' = tombstone
      BY <3>5 DEF TokenStep, GetActiveToken, ClearTokens, CreateToken, LookUpToken, ConsumeToken
    <3>6. CASE Tick \/ UNCHANGED vars
      BY <3>6 DEF Tick, vars
    <3> QED
      BY <1>1, <3>1, <3>2, <3>3, <3>4, <3>5, <3>6 DEF Next, Step
  <2> QED
    BY <2>1, <2>2, <2>3, <2>4, <2>5
<1> QED
  BY <1>1, DeletionInvariant, PTL DEF Spec, TombstoneOutlivesTokens

-----------------------------------------------------------------------------
(* Links and deletions keep the users and accounts tables together,        *)
(* whatever runs at the same time.                                         *)

(* An account's primary row exists because only the deletion of the        *)
(* account removes it.  That needs two facts about requests between two    *)
(* statements: what LinkAccount read of the account and what DeleteAccount *)
(* listed are still true at their commit, because both hold the sub lock;  *)
(* and one about ids: no two rows have the same, so deleting the listed    *)
(* ids removes no other account's row.                                     *)

IdsInv ==
    /\ \A d, e \in Idents : userId[d] = userId[e] /\ userId[d] # NULL => d = e
    /\ \A d \in Idents : userId[d] # NULL => userId[d] \in usedIds

ForeignKeys ==
    \A d \in Idents : linkedTo[d] # NULL =>
        userId[d] # NULL /\ primary[linkedTo[d]] # NULL

RowsOf(s) == {userId[d] : d \in {e \in Idents : linkedTo[e] = s}}

SnapshotInv ==
    \A r \in Requests :
        /\ pc[r] = "linkCommit" => target[r] = primary[call[r].sub]
        /\ pc[r] = "deleteCommit" => listed[r] = RowsOf(call[r].sub)

RowInv == IdsInv /\ ForeignKeys /\ PrimaryIsLinked /\ SnapshotInv

Inv == TypeInv /\ DeletionInv /\ RowInv

\* A step that changes no users row and no account.
LEMMA KeepsRows ==
  ASSUME Inv, UNCHANGED <<userId, linkedTo, usedIds, primary>>, SnapshotInv'
  PROVE  RowInv'
BY DEF Inv, RowInv, IdsInv, ForeignKeys, PrimaryIsLinked

\* A statement of request r outside the two snapshots.
LEMMA KeepsSnapshots ==
  ASSUME Inv, NEW r \in Requests,
         UNCHANGED <<userId, linkedTo, usedIds, primary, call>>,
         \A q \in Requests : q # r =>
            pc'[q] = pc[q] /\ target'[q] = target[q] /\ listed'[q] = listed[q],
         pc'[r] \notin {"linkCommit", "deleteCommit"}
  PROVE  RowInv'
<1>1. \A s \in Subs : RowsOf(s)' = RowsOf(s)
  BY DEF RowsOf
<1>2. SnapshotInv'
  BY <1>1 DEF Inv, RowInv, SnapshotInv, TypeInv, CallOK, LinkSteps, DeleteSteps
<1> QED
  BY <1>2, KeepsRows

LEMMA ArriveRowInv ==
  ASSUME Inv, NEW r \in Requests, Arrive(r)
  PROVE  RowInv'
<1> PICK op \in Operations, s \in Subs \union {NULL}, d \in Idents \union {NULL} :
        /\ call' = [call EXCEPT ![r] = [op |-> op, sub |-> s, dev |-> d]]
        /\ Goto(r, FirstStep(op))
  BY DEF Arrive
<1>1. FirstStep(op) \notin {"linkCommit", "deleteCommit"}
  BY AccountsAssumption DEF FirstStep, AllOperations, SignedInOps, ResolvingOps, TokenOps
<1>2. UNCHANGED <<userId, linkedTo, usedIds, primary, target, listed>>
  BY DEF Arrive, tables, locals
<1>3. \A q \in Requests : q # r => pc'[q] = pc[q] /\ call'[q] = call[q]
  BY DEF Goto, Inv, TypeInv, TypeOK
<1>4. pc'[r] \notin {"linkCommit", "deleteCommit"}
  BY <1>1 DEF Goto, Inv, TypeInv, TypeOK
<1>5. \A t \in Subs : RowsOf(t)' = RowsOf(t)
  BY <1>2 DEF RowsOf
<1>6. SnapshotInv'
  BY <1>2, <1>3, <1>4, <1>5
  DEF Inv, RowInv, SnapshotInv, TypeInv, CallOK, LinkSteps, DeleteSteps
<1> QED
  BY <1>2, <1>6, KeepsRows

LEMMA FailRowInv ==
  ASSUME Inv, NEW r \in Requests, Fail(r)
  PROVE  RowInv'
BY KeepsSnapshots DEF Fail, Goto, tables, locals, origin, Inv, TypeInv, TypeOK

LEMMA TokenRowInv ==
  ASSUME Inv, NEW r \in Requests, TokenStep(r)
  PROVE  RowInv'
<1>1. UNCHANGED <<userId, linkedTo, usedIds, primary, call, target, listed>>
  BY DEF TokenStep, GetActiveToken, ClearTokens, CreateToken, LookUpToken, ConsumeToken,
         tables, locals, origin
<1>2. \E x \in {"ok", "rejected", "createToken", "consume"} : pc' = [pc EXCEPT ![r] = x]
  BY DEF TokenStep, GetActiveToken, ClearTokens, CreateToken, LookUpToken, ConsumeToken, Goto
<1> QED
  BY <1>1, <1>2, KeepsSnapshots DEF Inv, TypeInv, TypeOK

LEMMA TimeRowInv ==
  ASSUME Inv,
         Tick \/ DailyPurge
  PROVE  RowInv'
<1>1. UNCHANGED <<userId, linkedTo, usedIds, primary, call, pc, target, listed>>
  BY DEF Tick, DailyPurge, tables, locals, origin
<1>2. \A s : RowsOf(s)' = RowsOf(s)
  BY <1>1 DEF RowsOf
<1> QED
  BY <1>1, <1>2, KeepsRows DEF Inv, RowInv, SnapshotInv

\* UpsertUser of one identity by request r, which is in neither snapshot
\* afterwards: ids stay unique and a linked row keeps its id.
LEMMA UpsertKeeps ==
  ASSUME Inv, NEW d \in Idents, NEW u \in UserIds, IdAfterUpsert(d, u), Upserted(d, u)
  PROVE  /\ IdsInv'
         /\ userId'[d] = u
         /\ \A e \in Idents : e # d \/ userId[e] # NULL => userId'[e] = userId[e]
         /\ \A e \in Idents : userId'[e] = u => e = d
<1> USE AccountsAssumption DEF Inv, TypeInv, TypeOK, RowInv, IdsInv, IdAfterUpsert, Upserted
<1>1. userId'[d] = u
  OBVIOUS
<1>2. \A e \in Idents : e # d \/ userId[e] # NULL => userId'[e] = userId[e]
  OBVIOUS
<1>3. \A e \in Idents : userId'[e] = u => e = d
  OBVIOUS
<1>4. \A e \in Idents : userId'[e] # NULL => userId'[e] \in usedIds'
  OBVIOUS
<1>5. \A e, f \in Idents : userId'[e] = userId'[f] /\ userId'[e] # NULL => e = f
  BY <1>1, <1>2, <1>3
<1> QED
  BY <1>1, <1>2, <1>3, <1>4, <1>5

LEMMA ResolvingRowInv ==
  ASSUME Inv, NEW r \in Requests, ResolvingStep(r)
  PROVE  RowInv'
<1> USE DEF At, Goto
<1>1. ASSUME UpsertDevice(r) PROVE RowInv'
  <2> DEFINE d == call[r].dev
  <2>0. d \in Idents
    BY <1>1 DEF UpsertDevice, Inv, TypeInv, CallOK, DeviceSteps
  <2> PICK u \in UserIds : IdAfterUpsert(d, u) /\ Upserted(d, u)
    BY <1>1 DEF UpsertDevice
  <2>1. /\ IdsInv'
        /\ \A e \in Idents : userId[e] # NULL => userId'[e] = userId[e]
    BY <2>0, UpsertKeeps
  <2>2. UNCHANGED <<linkedTo, primary, call, listed>>
    BY <1>1 DEF UpsertDevice, origin
  <2>3. ForeignKeys'
    BY <2>1, <2>2 DEF Inv, RowInv, ForeignKeys
  <2>4. PrimaryIsLinked'
    BY <2>1, <2>2 DEF Inv, RowInv, PrimaryIsLinked
  <2>5. \A s \in Subs : RowsOf(s)' = RowsOf(s)
    BY <2>1, <2>2, AccountsAssumption DEF RowsOf, Inv, RowInv, ForeignKeys
  <2>6. \A q \in Requests : q # r => pc'[q] = pc[q] /\ target'[q] = target[q]
    BY <1>1 DEF UpsertDevice, Inv, TypeInv, TypeOK
  <2>7. pc'[r] = "use"
    BY <1>1 DEF UpsertDevice, Inv, TypeInv, TypeOK
  <2>8. SnapshotInv'
    BY <2>2, <2>5, <2>6, <2>7
    DEF Inv, RowInv, SnapshotInv, TypeInv, CallOK, LinkSteps, DeleteSteps
  <2> QED
    BY <2>1, <2>3, <2>4, <2>8 DEF RowInv
<1>2. ASSUME ResolvingStep(r), ~ UpsertDevice(r) PROVE RowInv'
  <2>1. UNCHANGED <<userId, linkedTo, usedIds, primary, call, listed>>
    BY <1>2 DEF ResolvingStep, ResolveAccount, CheckDevice, FindDevice, InsertAnswers,
         RejectBody, UpdateDisplayName, SelectWorkbook, ReadUserData, tables, locals, origin
  <2>2. \E x \in {"ok", "rejected", "error", "use", "checkDevice", "device", "selectWorkbook"} :
           pc' = [pc EXCEPT ![r] = x]
    BY <1>2 DEF ResolvingStep, ResolveAccount, CheckDevice, FindDevice, InsertAnswers,
         RejectBody, UpdateDisplayName, SelectWorkbook, ReadUserData
  <2>3. \A q \in Requests : q # r => target'[q] = target[q]
    <3>1. target' = target \/ \E u : target' = [target EXCEPT ![r] = u]
      BY <1>2 DEF ResolvingStep, ResolveAccount, CheckDevice, FindDevice, InsertAnswers,
           RejectBody, UpdateDisplayName, SelectWorkbook, ReadUserData, locals
    <3> QED
      BY <3>1 DEF Inv, TypeInv, TypeOK
  <2> QED
    BY <2>1, <2>2, <2>3, KeepsSnapshots DEF Inv, TypeInv, TypeOK
<1> QED
  BY <1>1, <1>2

LEMMA LinkRowInv ==
  ASSUME Inv, NEW r \in Requests, LinkStep(r)
  PROVE  RowInv'
<1> DEFINE s == call[r].sub
           d == call[r].dev
<1> USE DEF At, Goto
<1>0. s \in Subs /\ d \in Idents
  BY DEF LinkStep, LinkLockSub, LinkRefused, LinkLockDevice, LinkAlreadyLinked, LinkCreate,
         LinkMerge, Inv, TypeInv, CallOK, LinkSteps, DeviceSteps
<1>1. ASSUME LinkLockSub(r) \/ LinkRefused(r) \/ LinkAlreadyLinked(r) PROVE RowInv'
  <2>1. UNCHANGED <<userId, linkedTo, usedIds, primary, call, target, listed>>
    BY <1>1 DEF LinkLockSub, LinkRefused, LinkAlreadyLinked, tables, locals, origin
  <2>2. \E x \in {"linkDevice", "rejected", "ok"} : pc' = [pc EXCEPT ![r] = x]
    BY <1>1 DEF LinkLockSub, LinkRefused, LinkAlreadyLinked
  <2> QED
    BY <2>1, <2>2, KeepsSnapshots DEF Inv, TypeInv, TypeOK
<1>2. ASSUME LinkLockDevice(r) PROVE RowInv'
  <2>1. UNCHANGED <<userId, linkedTo, usedIds, primary, call, listed>>
    BY <1>2 DEF LinkLockDevice, tables, origin
  <2>2. target' = [target EXCEPT ![r] = primary[s]] /\ pc' = [pc EXCEPT ![r] = "linkCommit"]
    BY <1>2 DEF LinkLockDevice
  <2>3. \A t : RowsOf(t)' = RowsOf(t)
    BY <2>1 DEF RowsOf
  <2>4. SnapshotInv'
    BY <2>1, <2>2, <2>3 DEF Inv, RowInv, SnapshotInv, TypeInv, TypeOK
  <2> QED
    BY <2>1, <2>4, KeepsRows
<1>3. ASSUME LinkCreate(r) \/ LinkMerge(r) PROVE RowInv'
  <2> PICK u \in UserIds :
        /\ IdAfterUpsert(d, u)
        /\ Upserted(d, u)
        /\ linkedTo' = linkedTo \/ linkedTo' = [linkedTo EXCEPT ![d] = s]
        /\ \/ primary[s] # NULL /\ primary' = primary
           \/ /\ primary' = [primary EXCEPT ![s] = u]
              /\ primary[s] = NULL
              /\ linkedTo' = [linkedTo EXCEPT ![d] = s]
    BY <1>3 DEF LinkCreate, LinkMerge, SetUserAccountID
  <2>0. /\ linkedTo[d] = NULL
        /\ pc[r] = "linkCommit"
        /\ pc' = [pc EXCEPT ![r] = "ok"]
        /\ UNCHANGED <<call, target, listed>>
    BY <1>3 DEF LinkCreate, LinkMerge, Unlinked, locals, origin
  <2>1. /\ IdsInv'
        /\ userId'[d] = u
        /\ \A e \in Idents : userId[e] # NULL => userId'[e] = userId[e]
    BY <1>0, UpsertKeeps
  <2>2. /\ \A e \in Idents : e # d => linkedTo'[e] = linkedTo[e]
        /\ linkedTo'[d] \in {NULL, s}
        /\ \A t \in Subs : t # s => primary'[t] = primary[t]
        /\ primary'[s] # NULL
    BY <1>0, <2>0, AccountsAssumption DEF Inv, TypeInv, TypeOK
  <2>3. ForeignKeys'
    BY <1>0, <2>1, <2>2, AccountsAssumption DEF Inv, RowInv, ForeignKeys, TypeInv, TypeOK
  <2>4. PrimaryIsLinked'
    <3> SUFFICES ASSUME NEW t \in Subs, primary'[t] # NULL
                 PROVE  \E e \in Idents : userId'[e] = primary'[t] /\ linkedTo'[e] = t
      BY DEF PrimaryIsLinked
    <3>1. CASE primary'[t] = primary[t]
      <4> PICK e \in Idents : userId[e] = primary[t] /\ linkedTo[e] = t
        BY <3>1 DEF Inv, RowInv, PrimaryIsLinked
      <4>1. e # d
        BY <2>0, AccountsAssumption
      <4> QED
        BY <3>1, <4>1, <2>1, <2>2
    <3>2. CASE primary'[t] # primary[t]
      BY <1>0, <2>1, <2>2, <3>2 DEF Inv, TypeInv, TypeOK
    <3> QED
      BY <3>1, <3>2
  <2>5. \A t \in Subs : t # s => RowsOf(t)' = RowsOf(t)
    BY <2>0, <2>1, <2>2, AccountsAssumption DEF RowsOf, Inv, RowInv, ForeignKeys
  <2>6. \A q \in Requests : q # r /\ pc[q] \in {"linkCommit", "deleteCommit"} =>
           call[q].sub \in Subs /\ call[q].sub # s
    BY <2>0 DEF Inv, DeletionInv, GuardInv, TypeInv, CallOK, LinkSteps, DeleteSteps
  <2>7. SnapshotInv'
    BY <2>0, <2>2, <2>5, <2>6 DEF Inv, RowInv, SnapshotInv, TypeInv, TypeOK
  <2> QED
    BY <2>1, <2>3, <2>4, <2>7 DEF RowInv
<1> QED
  BY <1>1, <1>2, <1>3 DEF LinkStep

LEMMA DeleteRowInv ==
  ASSUME Inv, NEW r \in Requests, DeleteStep(r)
  PROVE  RowInv'
<1> DEFINE s == call[r].sub
<1> USE DEF At, Goto
<1>0. s \in Subs
  BY DEF DeleteStep, DeleteLockSub, DeleteLockRow, DeleteCommit, DeleteCognitoUser, ConfirmTombstone,
         Inv, TypeInv, CallOK, DeleteSteps
<1>1. ASSUME DeleteCognitoUser(r) \/ ConfirmTombstone(r) PROVE RowInv'
  <2>1. UNCHANGED <<userId, linkedTo, usedIds, primary, call, target, listed>>
    BY <1>1 DEF DeleteCognitoUser, ConfirmTombstone, tables, locals, origin
  <2>2. \E x \in {"confirm", "ok"} : pc' = [pc EXCEPT ![r] = x]
    BY <1>1 DEF DeleteCognitoUser, ConfirmTombstone
  <2> QED
    BY <2>1, <2>2, KeepsSnapshots DEF Inv, TypeInv, TypeOK
<1>2. ASSUME DeleteLockSub(r) PROVE RowInv'
  <2>1. UNCHANGED <<userId, linkedTo, usedIds, primary, call, target>>
    BY <1>2 DEF DeleteLockSub, DeleteLockRow, tables, origin
  <2>2. listed' = [listed EXCEPT ![r] = RowsOf(s)] /\ pc' = [pc EXCEPT ![r] = "deleteCommit"]
    BY <1>2 DEF DeleteLockSub, DeleteLockRow, RowsOf
  <2>3. \A t : RowsOf(t)' = RowsOf(t)
    BY <2>1 DEF RowsOf
  <2>4. SnapshotInv'
    BY <2>1, <2>2, <2>3 DEF Inv, RowInv, SnapshotInv, TypeInv, TypeOK
  <2> QED
    BY <2>1, <2>4, KeepsRows
<1>3. ASSUME DeleteCommit(r) PROVE RowInv'
  <2>0. /\ pc[r] = "deleteCommit"
        /\ pc' = [pc EXCEPT ![r] = "deleteCognito"]
        /\ primary' = [primary EXCEPT ![s] = NULL]
        /\ linkedTo' = [d \in Idents |-> IF linkedTo[d] = s THEN NULL ELSE linkedTo[d]]
        /\ userId' = [d \in Idents |-> IF userId[d] \in listed[r] THEN NULL ELSE userId[d]]
        /\ listed' = [listed EXCEPT ![r] = {}]
        /\ UNCHANGED <<usedIds, call, target>>
    BY <1>3 DEF DeleteCommit, origin
  <2>1. listed[r] = RowsOf(s)
    BY <2>0 DEF Inv, RowInv, SnapshotInv
  <2>2. \A d \in Idents : linkedTo[d] # s => userId'[d] = userId[d] /\ linkedTo'[d] = linkedTo[d]
    BY <2>0, <2>1 DEF RowsOf, Inv, RowInv, IdsInv
  <2>3. \A d \in Idents : linkedTo[d] = s => userId'[d] = NULL /\ linkedTo'[d] = NULL
    BY <2>0, <2>1 DEF RowsOf
  <2>4. IdsInv'
    BY <2>0, <2>2, <2>3 DEF Inv, RowInv, IdsInv
  <2>5. \A t \in Subs : t # s => primary'[t] = primary[t]
    BY <2>0 DEF Inv, TypeInv, TypeOK
  <2>6. ForeignKeys'
    BY <1>0, <2>2, <2>3, <2>5 DEF Inv, RowInv, ForeignKeys, TypeInv, TypeOK
  <2>7. PrimaryIsLinked'
    BY <1>0, <2>0, <2>2, <2>5 DEF Inv, RowInv, PrimaryIsLinked, TypeInv, TypeOK
  <2>8. \A t \in Subs : t # s => RowsOf(t)' = RowsOf(t)
    BY <2>2, <2>3, AccountsAssumption DEF RowsOf
  <2>9. \A q \in Requests : q # r /\ pc[q] \in {"linkCommit", "deleteCommit"} =>
           call[q].sub \in Subs /\ call[q].sub # s
    BY <2>0 DEF Inv, DeletionInv, GuardInv, TypeInv, CallOK, LinkSteps, DeleteSteps
  <2>10. SnapshotInv'
    BY <2>0, <2>5, <2>8, <2>9 DEF Inv, RowInv, SnapshotInv, TypeInv, TypeOK
  <2> QED
    BY <2>4, <2>6, <2>7, <2>10 DEF RowInv
<1>4. ASSUME DeleteLockRow(r) PROVE RowInv'
  <2>1. UNCHANGED <<userId, linkedTo, usedIds, primary, call, pc, target, listed>>
    BY <1>4 DEF DeleteLockRow, tables, locals, origin, Inv, TypeInv, TypeOK
  <2>2. \A t : RowsOf(t)' = RowsOf(t)
    BY <2>1 DEF RowsOf
  <2> QED
    BY <2>1, <2>2, KeepsRows DEF Inv, RowInv, SnapshotInv
<1> QED
  BY <1>1, <1>2, <1>3, <1>4 DEF DeleteStep

LEMMA RowInvariant == Spec => []Inv
<1>1. Init => RowInv
  BY AccountsAssumption
  DEF Init, RowInv, IdsInv, ForeignKeys, PrimaryIsLinked, SnapshotInv
<1>2. Inv /\ [Next]_vars => RowInv'
  <2> SUFFICES ASSUME Inv, [Next]_vars PROVE RowInv'
    OBVIOUS
  <2>1. CASE \E r \in Requests : Arrive(r) \/ Step(r) \/ Fail(r)
    BY <2>1, ArriveRowInv, LinkRowInv, DeleteRowInv, ResolvingRowInv, TokenRowInv, FailRowInv
    DEF Step
  <2>2. CASE Tick \/ DailyPurge
    BY <2>2, TimeRowInv
  <2>3. CASE UNCHANGED vars
    <3>1. UNCHANGED <<userId, linkedTo, usedIds, primary, call, pc, target, listed>>
      BY <2>3 DEF vars, tables, locals, origin
    <3>2. \A s : RowsOf(s)' = RowsOf(s)
      BY <3>1 DEF RowsOf
    <3> QED
      BY <3>1, <3>2, KeepsRows DEF Inv, RowInv, SnapshotInv
  <2> QED
    BY <2>1, <2>2, <2>3 DEF Next
<1> QED
  BY <1>1, <1>2, DeletionInvariant, PTL DEF Spec, Inv

\* An account always has its canonical users row, linked to it (the
\* migration's "1 account = 1 canonical users row"), for any number of
\* people and devices linking and deleting concurrently.
THEOREM PrimaryStaysLinked == Spec => []PrimaryIsLinked
<1>1. Inv => PrimaryIsLinked
  BY DEF Inv, RowInv
<1> QED
  BY <1>1, RowInvariant, PTL

\* DeleteAccount overlooks no device: a users row never loses its account
\* while it exists (account.go:206-207, what the sub lock is for).
THEOREM LinkStaysUntilDeletion == Spec => LinkIsPermanent
<1> DEFINE Keep == \A d \in Idents :
      linkedTo[d] # NULL /\ linkedTo'[d] # linkedTo[d] => userId'[d] # userId[d]
<1>1. ASSUME Inv, [Next]_vars PROVE Keep
  <2> SUFFICES ASSUME NEW d \in Idents, linkedTo[d] # NULL, linkedTo'[d] # linkedTo[d]
               PROVE  userId'[d] # userId[d]
    OBVIOUS
  <2>1. ASSUME NEW r \in Requests, LinkCreate(r) \/ LinkMerge(r) PROVE FALSE
    <3>1. linkedTo[call[r].dev] = NULL
      BY <2>1 DEF LinkCreate, LinkMerge, Unlinked
    <3>2. \/ linkedTo' = linkedTo
          \/ linkedTo' = [linkedTo EXCEPT ![call[r].dev] = call[r].sub]
      BY <2>1 DEF LinkCreate, LinkMerge, SetUserAccountID
    <3> QED
      BY <1>1, <3>1, <3>2 DEF Inv, TypeInv, TypeOK
  <2>2. ASSUME NEW r \in Requests, DeleteCommit(r) PROVE userId'[d] # userId[d]
    <3>1. linkedTo[d] = call[r].sub
      BY <2>2 DEF DeleteCommit
    <3>2. userId[d] \in listed[r]
      BY <1>1, <2>2, <3>1 DEF DeleteCommit, At, Inv, RowInv, SnapshotInv, RowsOf
    <3>3. userId'[d] = NULL
      BY <2>2, <3>2 DEF DeleteCommit
    <3> QED
      BY <1>1, <3>3 DEF Inv, RowInv, ForeignKeys
  <2>3. \/ linkedTo' = linkedTo
        \/ \E r \in Requests : LinkCreate(r) \/ LinkMerge(r) \/ DeleteCommit(r)
    BY <1>1 DEF Next, Step, LinkStep, DeleteStep, ResolvingStep, TokenStep, Arrive, Fail,
         LinkLockSub, LinkRefused, LinkLockDevice, LinkAlreadyLinked, DeleteLockSub, DeleteLockRow,
         DeleteCognitoUser, ConfirmTombstone, ResolveAccount, CheckDevice, UpsertDevice,
         FindDevice, InsertAnswers, RejectBody, UpdateDisplayName, SelectWorkbook,
         ReadUserData, GetActiveToken, ClearTokens, CreateToken, LookUpToken, ConsumeToken,
         Tick, DailyPurge, vars, tables
  <2> QED
    BY <2>1, <2>2, <2>3
<1> QED
  BY <1>1, RowInvariant, PTL DEF Spec, LinkIsPermanent

-----------------------------------------------------------------------------
(* What requests store and consume: a transfer token is used once, and a    *)
(* device that is linked when its request arrives records nothing beside    *)
(* the account's own row.                                                   *)
-----------------------------------------------------------------------------
(* A token that an ended request has applied is marked as used, and marks  *)
(* are never removed; so the UPDATE of another request finds it used.      *)

ApplySteps == {"applyToken", "consume"}

AppliedInv ==
    \A r \in Requests :
        /\ call[r].op = "applyToken" =>
              pc[r] \in {"idle"} \union ApplySteps \union Results
        /\ pc[r] = "consume" => presented[r] \in Requests
        /\ call[r].op = "applyToken" /\ pc[r] = "ok" =>
              presented[r] \in Requests /\ tokenUsed[presented[r]]

TokenInv == TypeInv /\ AppliedInv /\ TokenConsumedOnce

\* A statement of request r that is not one of ApplyTransferToken's.
LEMMA KeepsTokens ==
  ASSUME TokenInv, NEW r \in Requests,
         UNCHANGED <<tokenUsed, presented, call>>,
         \A q \in Requests : q # r => pc'[q] = pc[q],
         \/ pc'[r] = "error"
         \/ pc[r] \notin {"idle"} \union ApplySteps \union Results /\ pc'[r] # "consume"
  PROVE  AppliedInv' /\ TokenConsumedOnce'
<1> USE DEF TokenInv
<1>1. \A q \in Requests : call'[q].op = "applyToken" /\ pc'[q] = "ok" => pc[q] = "ok"
  BY DEF AppliedInv, ApplySteps, Results
<1>2. TokenConsumedOnce'
  BY <1>1 DEF TokenConsumedOnce
<1>3. AppliedInv'
  BY <1>1 DEF AppliedInv, ApplySteps, Results
<1> QED
  BY <1>2, <1>3

LEMMA ArriveTokens ==
  ASSUME TokenInv, NEW r \in Requests, Arrive(r)
  PROVE  AppliedInv' /\ TokenConsumedOnce'
<1> PICK op \in Operations, s \in Subs \union {NULL}, d \in Idents \union {NULL} :
        /\ call' = [call EXCEPT ![r] = [op |-> op, sub |-> s, dev |-> d]]
        /\ Goto(r, FirstStep(op))
  BY DEF Arrive
<1>1. /\ FirstStep(op) \notin Results \union {"consume"}
      /\ op = "applyToken" => FirstStep(op) = "applyToken"
  BY AccountsAssumption
  DEF FirstStep, AllOperations, SignedInOps, ResolvingOps, TokenOps, Results
<1>2. UNCHANGED <<tokenUsed, presented>>
  BY DEF Arrive, tokens, locals
<1>3. /\ \A q \in Requests : q # r => pc'[q] = pc[q] /\ call'[q] = call[q]
      /\ pc'[r] = FirstStep(op) /\ call'[r].op = op
  BY DEF Goto, TokenInv, TypeInv, TypeOK
<1>4. AppliedInv'
  BY <1>1, <1>2, <1>3 DEF TokenInv, AppliedInv, ApplySteps, Results
<1>5. TokenConsumedOnce'
  BY <1>1, <1>2, <1>3 DEF TokenInv, TokenConsumedOnce, Results
<1> QED
  BY <1>4, <1>5

\* The two statements of ApplyTransferToken.
LEMMA ApplyTokens ==
  ASSUME TokenInv, NEW r \in Requests, LookUpToken(r) \/ ConsumeToken(r)
  PROVE  AppliedInv' /\ TokenConsumedOnce'
<1> USE DEF At, Goto, TokenInv, TypeInv, TypeOK
<1>1. ASSUME LookUpToken(r) PROVE AppliedInv' /\ TokenConsumedOnce'
  <2>1. UNCHANGED <<tokenUsed, call>>
    BY <1>1 DEF LookUpToken, tokens, origin
  <2>2. \A q \in Requests : q # r => pc'[q] = pc[q] /\ presented'[q] = presented[q]
    BY <1>1 DEF LookUpToken
  <2>3. pc'[r] = "rejected" \/ (pc'[r] = "consume" /\ presented'[r] \in Requests)
    BY <1>1 DEF LookUpToken
  <2>4. AppliedInv'
    BY <2>1, <2>2, <2>3 DEF AppliedInv, ApplySteps, Results
  <2>5. \A q \in Requests : pc'[q] = "ok" =>
          pc[q] = "ok" /\ presented'[q] = presented[q] /\ call'[q] = call[q]
    BY <2>1, <2>2, <2>3
  <2>6. TokenConsumedOnce'
    BY <2>5 DEF TokenConsumedOnce
  <2> QED
    BY <2>4, <2>6
<1>2. ASSUME ConsumeToken(r) PROVE AppliedInv' /\ TokenConsumedOnce'
  <2>1. UNCHANGED <<presented, call>>
    BY <1>2 DEF ConsumeToken, locals, origin
  <2>2. \A q \in Requests : q # r => pc'[q] = pc[q]
    BY <1>2 DEF ConsumeToken
  <2>3. pc[r] = "consume" /\ presented[r] \in Requests
    BY <1>2 DEF ConsumeToken, AppliedInv
  <2>4. \/ pc'[r] = "rejected" /\ tokenUsed' = tokenUsed
        \/ /\ pc'[r] = "ok" /\ ~ tokenUsed[presented[r]]
           /\ tokenUsed' = [tokenUsed EXCEPT ![presented[r]] = TRUE]
    BY <1>2 DEF ConsumeToken, Active
  <2>5. \A t \in Requests : tokenUsed[t] => tokenUsed'[t]
    BY <2>3, <2>4
  <2>6. AppliedInv'
    BY <2>1, <2>2, <2>3, <2>4, <2>5 DEF AppliedInv, ApplySteps, Results
  <2>7. ASSUME pc'[r] = "ok", NEW q \in Requests, q # r,
               call[q].op = "applyToken", pc[q] = "ok"
        PROVE  presented[q] # presented[r]
    BY <2>4, <2>7 DEF AppliedInv
  <2>8. TokenConsumedOnce'
    BY <2>1, <2>2, <2>4, <2>7 DEF TokenConsumedOnce
  <2> QED
    BY <2>6, <2>8
<1> QED
  BY <1>1, <1>2

LEMMA StepTokens ==
  ASSUME TokenInv, NEW r \in Requests, Step(r)
  PROVE  AppliedInv' /\ TokenConsumedOnce'
<1> USE DEF At, Goto
<1>1. CASE LookUpToken(r) \/ ConsumeToken(r)
  BY <1>1, ApplyTokens
<1>2. ASSUME ~ LookUpToken(r), ~ ConsumeToken(r)
      PROVE  /\ UNCHANGED <<tokenUsed, presented, call>>
             /\ pc[r] \notin {"idle"} \union ApplySteps \union Results
             /\ \E x \in {"ok", "rejected", "error", "linkDevice", "linkCommit",
                          "deleteCommit", "deleteCognito", "confirm", "checkDevice",
                          "device", "use", "selectWorkbook", "createToken"} :
                   pc' = [pc EXCEPT ![r] = x]
  <2> USE DEF ApplySteps, Results, tokens, locals, origin
  <2>1. CASE LinkStep(r)
    BY <2>1 DEF LinkStep, LinkLockSub, LinkRefused, LinkLockDevice, LinkAlreadyLinked,
         LinkCreate, LinkMerge
  <2>2. CASE DeleteStep(r)
    BY <2>2 DEF DeleteStep, DeleteLockSub, DeleteLockRow, DeleteCommit, DeleteCognitoUser, ConfirmTombstone
  <2>3. CASE ResolvingStep(r)
    BY <2>3 DEF ResolvingStep, ResolveAccount, CheckDevice, UpsertDevice, FindDevice,
         InsertAnswers, RejectBody, UpdateDisplayName, SelectWorkbook, ReadUserData
  <2>4. CASE TokenStep(r)
    BY <1>2, <2>4 DEF TokenStep, GetActiveToken, ClearTokens, CreateToken
  <2> QED
    BY <2>1, <2>2, <2>3, <2>4 DEF Step
<1>3. ASSUME ~ LookUpToken(r), ~ ConsumeToken(r)
      PROVE  /\ pc'[r] # "consume"
             /\ \A q \in Requests : q # r => pc'[q] = pc[q]
  BY <1>2, <1>3 DEF TokenInv, TypeInv, TypeOK
<1> QED
  BY <1>1, <1>2, <1>3, KeepsTokens

LEMMA TokenInvariant == Spec => []TokenInv
<1>1. Init => AppliedInv /\ TokenConsumedOnce
  BY DEF Init, AppliedInv, TokenConsumedOnce, ApplySteps, Results
<1>2. TokenInv /\ [Next]_vars => AppliedInv' /\ TokenConsumedOnce'
  <2> SUFFICES ASSUME TokenInv, [Next]_vars PROVE AppliedInv' /\ TokenConsumedOnce'
    OBVIOUS
  <2>1. CASE \E r \in Requests : Arrive(r)
    BY <2>1, ArriveTokens
  <2>2. CASE \E r \in Requests : Step(r)
    BY <2>2, StepTokens
  <2>3. CASE \E r \in Requests : Fail(r)
    BY <2>3, KeepsTokens DEF Fail, Goto, tokens, locals, origin, TokenInv, TypeInv, TypeOK
  <2>4. CASE Tick \/ DailyPurge \/ UNCHANGED vars
    <3>1. UNCHANGED <<tokenUsed, presented, call, pc>>
      BY <2>4 DEF Tick, DailyPurge, vars, tokens, locals, origin
    <3> QED
      BY <3>1 DEF TokenInv, AppliedInv, TokenConsumedOnce
  <2> QED
    BY <2>1, <2>2, <2>3, <2>4 DEF Next
<1> QED
  BY <1>1, <1>2, DeletionInvariant, PTL DEF Spec, TokenInv

\* A transfer token moves its identity to one device only: of the requests
\* that apply it, at most one succeeds (ConsumeTransferToken in
\* transfer.go asks for used_at IS NULL in the UPDATE itself).
THEOREM TokensAreUsedOnce == Spec => []TokenConsumedOnce
<1>1. TokenInv => TokenConsumedOnce
  BY DEF TokenInv
<1> QED
  BY <1>1, TokenInvariant, PTL

-----------------------------------------------------------------------------
(* A request that arrived from a linked device remembers (in arrivedOn)    *)
(* the device's row.  That row stays linked until it is deleted, and its   *)
(* id is not given out again.  So the request goes on to the device's own  *)
(* row only after that row has been deleted, and what it finds there then  *)
(* is another; and a target that is the remembered row is canonical.       *)

Gone(u) == \A e \in Idents : userId[e] # u
Canonical(u) == \E s \in Subs : primary[s] = u
Stores(r, u) ==
    answers[r] = u \/ names[u] = r \/ \E a \in Apps : settings[u][a] = r

Bound(r) ==
    arrivedOn[r] # NULL =>
        /\ arrivedOn[r] \in usedIds
        /\ \A e \in Idents : userId[e] = arrivedOn[r] =>
              e = call[r].dev /\ linkedTo[e] # NULL

Aimed(r) ==
    arrivedOn[r] # NULL =>
        /\ pc[r] = "device" => Gone(arrivedOn[r])
        /\ pc[r] \in {"use", "selectWorkbook"} /\ target[r] = arrivedOn[r] =>
              Gone(arrivedOn[r]) \/ Canonical(arrivedOn[r])

Unstarted(r) == pc[r] = "idle" => \A u \in UserIds : ~ Stores(r, u)

ArrivalInv == \A r \in Requests : Bound(r) /\ Aimed(r) /\ Unstarted(r)

WriteInv == Inv /\ ArrivalInv /\ LinkedDeviceWritesReachPrimary

\* What no step does to the tables: give out an id again, unlink a row that
\* stays, or take an account from a row that stays.
RowsLast ==
    /\ usedIds \subseteq usedIds'
    /\ \A e \in Idents : userId'[e] \in usedIds => userId'[e] = userId[e]
    /\ \A e \in Idents : userId'[e] = userId[e] => linkedTo[e] = NULL \/ linkedTo'[e] # NULL
    /\ \A s \in Subs :
          \/ primary[s] = NULL \/ primary'[s] = primary[s]
          \/ \A e \in Idents : userId'[e] # primary[s]

LEMMA StepsKeepRows ==
  ASSUME Inv, [Next]_vars
  PROVE  RowsLast
<1> USE AccountsAssumption DEF Inv, TypeInv, TypeOK, RowInv
<1>1. ASSUME NEW r \in Requests, UpsertDevice(r) \/ LinkCreate(r) \/ LinkMerge(r)
      PROVE  RowsLast
  <2> DEFINE d == call[r].dev
  <2>1. d \in Idents
    BY <1>1 DEF UpsertDevice, LinkCreate, LinkMerge, At, CallOK, DeviceSteps, LinkSteps
  <2> PICK u \in UserIds : IdAfterUpsert(d, u) /\ Upserted(d, u)
    BY <1>1 DEF UpsertDevice, LinkCreate, LinkMerge
  <2>2. /\ userId'[d] = u /\ usedIds' = usedIds \union {u}
        /\ (userId[d] = NULL /\ u \notin usedIds) \/ u = userId[d]
        /\ \A e \in Idents : e # d => userId'[e] = userId[e]
    BY <2>1 DEF IdAfterUpsert, Upserted
  <2>3. \A e \in Idents : linkedTo[e] = NULL \/ linkedTo'[e] = linkedTo[e]
    BY <1>1 DEF UpsertDevice, LinkCreate, LinkMerge, SetUserAccountID, Unlinked
  <2>4. \A s \in Subs : primary[s] = NULL \/ primary'[s] = primary[s]
    BY <1>1 DEF UpsertDevice, LinkCreate, LinkMerge
  <2> QED
    BY <2>2, <2>3, <2>4 DEF RowsLast
<1>2. ASSUME NEW r \in Requests, DeleteCommit(r) PROVE RowsLast
  <2> DEFINE s == call[r].sub
  <2>1. /\ s \in Subs
        /\ listed[r] = RowsOf(s)
        /\ usedIds' = usedIds
        /\ primary' = [primary EXCEPT ![s] = NULL]
        /\ linkedTo' = [d \in Idents |-> IF linkedTo[d] = s THEN NULL ELSE linkedTo[d]]
        /\ userId' = [d \in Idents |-> IF userId[d] \in listed[r] THEN NULL ELSE userId[d]]
    BY <1>2 DEF DeleteCommit, At, CallOK, DeleteSteps, SnapshotInv
  <2>2. \A e \in Idents : userId'[e] \in usedIds => userId'[e] = userId[e]
    BY <2>1
  <2>3. \A e \in Idents : linkedTo[e] = s => userId[e] # NULL /\ userId'[e] = NULL
    BY <2>1 DEF RowsOf, ForeignKeys
  <2>4. \A e \in Idents : userId'[e] = userId[e] => linkedTo[e] = NULL \/ linkedTo'[e] # NULL
    BY <2>1, <2>3
  <2>5. primary[s] = NULL \/ primary[s] \in listed[r]
    BY <2>1 DEF PrimaryIsLinked, RowsOf
  <2>6. \A t \in Subs : \/ primary[t] = NULL \/ primary'[t] = primary[t]
                       \/ \A e \in Idents : userId'[e] # primary[t]
    BY <2>1, <2>5
  <2> QED
    BY <2>1, <2>2, <2>4, <2>6 DEF RowsLast
<1>3. \/ UNCHANGED <<userId, linkedTo, usedIds, primary>>
      \/ \E r \in Requests :
            UpsertDevice(r) \/ LinkCreate(r) \/ LinkMerge(r) \/ DeleteCommit(r)
  BY DEF Next, Step, LinkStep, DeleteStep, ResolvingStep, TokenStep, Arrive, Fail,
     LinkLockSub, LinkRefused, LinkLockDevice, LinkAlreadyLinked, DeleteLockSub, DeleteLockRow,
     DeleteCognitoUser, ConfirmTombstone, ResolveAccount, CheckDevice, FindDevice,
     InsertAnswers, RejectBody, UpdateDisplayName, SelectWorkbook, ReadUserData,
     GetActiveToken, ClearTokens, CreateToken, LookUpToken, ConsumeToken,
     Tick, DailyPurge, vars, tables
<1>4. ASSUME UNCHANGED <<userId, linkedTo, usedIds, primary>> PROVE RowsLast
  BY <1>4 DEF RowsLast
<1> QED
  BY <1>1, <1>2, <1>3, <1>4

\* A remembered row stays bound to its device, and once it is gone or
\* canonical it is one of the two for ever.
LEMMA RememberedRow ==
  ASSUME Inv, RowsLast, NEW r \in Requests, arrivedOn[r] # NULL, Bound(r),
         UNCHANGED <<arrivedOn[r], call[r]>>
  PROVE  /\ Bound(r)'
         /\ Gone(arrivedOn[r]) => Gone(arrivedOn[r])'
         /\ Canonical(arrivedOn[r]) => Gone(arrivedOn[r])' \/ Canonical(arrivedOn[r])'
<1> DEFINE u == arrivedOn[r]
<1>1. u \in usedIds /\ u \in usedIds'
  BY DEF Bound, RowsLast
<1>2. \A e \in Idents : userId'[e] = u => userId[e] = u
  BY <1>1 DEF RowsLast
<1>3. Bound(r)'
  BY <1>1, <1>2 DEF Bound, RowsLast
<1>4. Gone(u) => Gone(u)'
  BY <1>2 DEF Gone
<1>5. ASSUME Canonical(u) PROVE Gone(u)' \/ Canonical(u)'
  <2> PICK s \in Subs : primary[s] = u
    BY <1>5 DEF Canonical
  <2>1. primary'[s] = u \/ \A e \in Idents : userId'[e] # u
    BY DEF RowsLast
  <2> QED
    BY <2>1 DEF Gone, Canonical
<1> QED
  BY <1>3, <1>4, <1>5

\* A request that does not get a target, or starts to write, in this step.
LEMMA KeepsAim ==
  ASSUME Inv, RowsLast, NEW r \in Requests, Bound(r), Aimed(r),
         UNCHANGED <<arrivedOn[r], call[r]>>,
         \/ UNCHANGED <<pc[r], target[r]>>
         \/ pc'[r] \notin {"device", "use", "selectWorkbook"}
         \/ pc[r] = "use" /\ pc'[r] = "selectWorkbook" /\ UNCHANGED target[r]
  PROVE  Bound(r)' /\ Aimed(r)'
<1>1. CASE arrivedOn[r] = NULL
  BY <1>1 DEF Bound, Aimed
<1>2. CASE arrivedOn[r] # NULL
  <2>1. Bound(r)' /\ (Gone(arrivedOn[r]) => Gone(arrivedOn[r])')
        /\ (Canonical(arrivedOn[r]) => Gone(arrivedOn[r])' \/ Canonical(arrivedOn[r])')
    BY <1>2, RememberedRow
  <2> QED
    BY <1>2, <2>1 DEF Aimed
<1> QED
  BY <1>1, <1>2

\* The statements that choose a target: the row found through the device is
\* not the remembered one, which was linked, unless that is gone.
LEMMA ResolvingAim ==
  ASSUME Inv, RowsLast, NEW r \in Requests, Bound(r), Aimed(r), ResolvingStep(r)
  PROVE  Bound(r)' /\ Aimed(r)'
<1> USE AccountsAssumption DEF At, Goto, Inv, TypeInv, TypeOK
<1> DEFINE u == arrivedOn[r]
           d == call[r].dev
<1>1. UNCHANGED <<arrivedOn[r], call[r]>>
  BY DEF ResolvingStep, ResolveAccount, CheckDevice, UpsertDevice, FindDevice,
     InsertAnswers, RejectBody, UpdateDisplayName, SelectWorkbook, ReadUserData, origin
<1>2. CASE u = NULL
  BY <1>1, <1>2 DEF Bound, Aimed
<1>3. CASE u # NULL
  <2>1. /\ Bound(r)' /\ u \in usedIds
        /\ Gone(u) => Gone(u)'
        /\ Canonical(u) => Gone(u)' \/ Canonical(u)'
    BY <1>1, <1>3, RememberedRow DEF Bound
  <2>2. d \in Idents /\ linkedTo[d] = NULL => Gone(u)
    BY <1>3 DEF Bound, Gone
  <2>3. CASE ResolveAccount(r)
    <3>1. d \in Idents /\ ResolvedAccount(r) \in Subs \union {NULL}
      BY <2>3 DEF ResolveAccount, ResolvedAccount, CallOK, DeviceSteps
    <3>2. CASE ResolvedAccount(r) # NULL /\ primary[ResolvedAccount(r)] # NULL
      <4>1. pc'[r] = "use" /\ target'[r] = primary[ResolvedAccount(r)]
        BY <2>3, <3>2 DEF ResolveAccount
      <4>2. target'[r] = u => Canonical(u)
        BY <3>1, <3>2, <4>1 DEF Canonical
      <4> QED
        BY <1>1, <2>1, <4>1, <4>2 DEF Aimed
    <3>3. CASE ~ (ResolvedAccount(r) # NULL /\ primary[ResolvedAccount(r)] # NULL)
      <4>1. pc'[r] = IF call[r].sub # NULL THEN "checkDevice" ELSE "device"
        BY <2>3, <3>3 DEF ResolveAccount
      <4>2. call[r].sub = NULL => linkedTo[d] = NULL
        BY <3>1, <3>3 DEF ResolvedAccount, RowInv, ForeignKeys
      <4> QED
        BY <1>1, <2>1, <2>2, <3>1, <4>1, <4>2 DEF Aimed
    <3> QED
      BY <3>2, <3>3
  <2>4. CASE CheckDevice(r)
    <3>1. d \in Idents /\ pc'[r] = IF linkedTo[d] # NULL THEN "rejected" ELSE "device"
      BY <2>4 DEF CheckDevice, CallOK, DeviceSteps
    <3> QED
      BY <1>1, <2>1, <2>2, <3>1 DEF Aimed
  <2>5. CASE UpsertDevice(r)
    <3>1. d \in Idents /\ pc[r] = "device" /\ pc'[r] = "use"
      BY <2>5 DEF UpsertDevice, CallOK, DeviceSteps
    <3>2. target'[r] = userId[d] \/ target'[r] \notin usedIds
      BY <2>5 DEF UpsertDevice, IdAfterUpsert
    <3>3. target'[r] # u
      BY <1>3, <2>1, <3>1, <3>2 DEF Aimed, Gone
    <3> QED
      BY <1>1, <2>1, <3>1, <3>3 DEF Aimed
  <2>6. CASE FindDevice(r)
    <3>1. d \in Idents /\ pc[r] = "device" /\ target'[r] = userId[d]
          /\ pc'[r] \in {"ok", "use"}
      BY <2>6 DEF FindDevice, CallOK, DeviceSteps
    <3> QED
      BY <1>1, <1>3, <2>1, <3>1 DEF Aimed, Gone
  <2>7. CASE InsertAnswers(r) \/ RejectBody(r) \/ SelectWorkbook(r) \/ ReadUserData(r)
    <3>1. pc'[r] \in {"ok", "error", "rejected"}
      BY <2>7 DEF InsertAnswers, RejectBody, SelectWorkbook, ReadUserData
    <3> QED
      BY <1>1, <2>1, <3>1 DEF Aimed
  <2>8. CASE UpdateDisplayName(r)
    <3>1. pc[r] = "use" /\ pc'[r] = "selectWorkbook" /\ target'[r] = target[r]
      BY <2>8 DEF UpdateDisplayName, locals
    <3> QED
      BY <1>1, <3>1, KeepsAim
  <2> QED
    BY <2>3, <2>4, <2>5, <2>6, <2>7, <2>8 DEF ResolvingStep
<1> QED
  BY <1>2, <1>3

LEMMA StepAim ==
  ASSUME Inv, RowsLast, NEW r \in Requests, Bound(r), Aimed(r), Step(r) \/ Fail(r)
  PROVE  Bound(r)' /\ Aimed(r)'
<1>1. CASE ResolvingStep(r)
  BY <1>1, ResolvingAim
<1>2. CASE LinkStep(r) \/ DeleteStep(r) \/ TokenStep(r) \/ Fail(r)
  <2>1. UNCHANGED <<arrivedOn[r], call[r]>>
    BY <1>2 DEF LinkStep, LinkLockSub, LinkRefused, LinkLockDevice, LinkAlreadyLinked,
       LinkCreate, LinkMerge, DeleteStep, DeleteLockSub, DeleteLockRow, DeleteCommit, DeleteCognitoUser,
       ConfirmTombstone, TokenStep, GetActiveToken, ClearTokens, CreateToken, LookUpToken,
       ConsumeToken, Fail, origin
  <2>2. \E x \in Results \union InTransaction \union
                {"deleteCognito", "confirm", "createToken", "consume"} :
           pc' = [pc EXCEPT ![r] = x]
    BY <1>2 DEF LinkStep, LinkLockSub, LinkRefused, LinkLockDevice, LinkAlreadyLinked,
       LinkCreate, LinkMerge, DeleteStep, DeleteLockSub, DeleteLockRow, DeleteCommit, DeleteCognitoUser,
       ConfirmTombstone, TokenStep, GetActiveToken, ClearTokens, CreateToken, LookUpToken,
       ConsumeToken, Fail, Goto, Results, InTransaction
  <2>3. pc'[r] \notin {"device", "use", "selectWorkbook"}
    BY <2>2 DEF Results, InTransaction, Inv, TypeInv, TypeOK
  <2> QED
    BY <2>1, <2>3, KeepsAim
<1> QED
  BY <1>1, <1>2 DEF Step

\* How a record of request r comes to be on row u: it was there and stays,
\* a link moved it to the account's row, or r writes it now.
LEMMA RecordsMove ==
  ASSUME Inv, [Next]_vars, NEW r \in Requests, NEW u \in UserIds, Stores(r, u)'
  PROVE  \/ Stores(r, u) /\ (Canonical(u) => Canonical(u)')
         \/ Canonical(u)' /\ \E v \in UserIds : Stores(r, v)
         \/ /\ pc[r] \in {"use", "selectWorkbook"}
            /\ target[r] = u /\ RowExists(u) /\ UNCHANGED primary
<1> USE AccountsAssumption DEF Inv, TypeInv, TypeOK, At, Goto
<1>1. CASE UNCHANGED <<answers, settings, names, primary>>
  BY <1>1 DEF Stores, Canonical
<1>2. ASSUME NEW q \in Requests, LinkCreate(q)
      PROVE  Stores(r, u) /\ (Canonical(u) => Canonical(u)')
  <2>1. /\ UNCHANGED <<answers, settings, names>>
        /\ \A s \in Subs : primary[s] = NULL \/ primary'[s] = primary[s]
    BY <1>2 DEF LinkCreate
  <2> QED
    BY <2>1 DEF Stores, Canonical
<1>3. ASSUME NEW q \in Requests, LinkMerge(q)
      PROVE  \/ Stores(r, u) /\ (Canonical(u) => Canonical(u)')
             \/ Canonical(u)' /\ \E v \in UserIds : Stores(r, v)
  <2> DEFINE s == call[q].sub
  <2>1. /\ s \in Subs /\ primary[s] \in UserIds /\ target[q] = primary[s]
        /\ UNCHANGED <<primary, names>>
    BY <1>3 DEF LinkMerge, CallOK, LinkSteps, RowInv, SnapshotInv
  <2> PICK v \in UserIds :
        \/ UNCHANGED <<answers, settings>>
        \/ answers' = RepointedAnswers(v, primary[s]) /\ settings' = MergedSettings(v, primary[s])
    BY <1>3, <2>1 DEF LinkMerge
  <2> HIDE DEF s
  <2>2. CASE UNCHANGED <<answers, settings>>
    BY <2>1, <2>2 DEF Stores, Canonical
  <2>3. CASE /\ answers' = RepointedAnswers(v, primary[s])
             /\ settings' = MergedSettings(v, primary[s])
    <3>1. answers'[r] = u => answers[r] = u \/ (u = primary[s] /\ answers[r] = v)
      BY <2>3 DEF RepointedAnswers
    <3>2. ASSUME NEW a \in Apps, settings'[u][a] = r
          PROVE  settings[u][a] = r \/ (u = primary[s] /\ settings[v][a] = r)
      BY <2>3, <3>2 DEF MergedSettings
    <3>3. Stores(r, u) \/ (u = primary[s] /\ Stores(r, v))
      BY <2>1, <3>1, <3>2 DEF Stores
    <3> QED
      BY <2>1, <3>3 DEF Canonical
  <2> QED
    BY <2>2, <2>3
<1>4. ASSUME NEW q \in Requests, DeleteCommit(q)
      PROVE  Stores(r, u) /\ (Canonical(u) => Canonical(u)')
  <2> DEFINE s == call[q].sub
  <2>1. /\ s \in Subs
        /\ listed[q] = RowsOf(s)
        /\ primary' = [primary EXCEPT ![s] = NULL]
        /\ answers' = [p \in Requests |-> IF answers[p] \in listed[q] THEN NULL ELSE answers[p]]
        /\ settings' = [v \in UserIds |-> IF v \in listed[q]
                                          THEN [a \in Apps |-> NULL] ELSE settings[v]]
        /\ names' = [v \in UserIds |-> IF v \in listed[q] THEN NULL ELSE names[v]]
    BY <1>4 DEF DeleteCommit, CallOK, DeleteSteps, RowInv, SnapshotInv
  <2>2. u \notin listed[q] /\ Stores(r, u)
    BY <2>1 DEF Stores
  <2>3. primary[s] = NULL \/ primary[s] \in listed[q]
    BY <2>1 DEF RowInv, PrimaryIsLinked, RowsOf
  <2>4. \A t \in Subs : primary[t] = u => primary'[t] = u
    BY <2>1, <2>2, <2>3
  <2> QED
    BY <2>2, <2>4 DEF Canonical
<1>5. ASSUME NEW q \in Requests,
             InsertAnswers(q) \/ UpdateDisplayName(q) \/ SelectWorkbook(q)
      PROVE  \/ Stores(r, u) /\ (Canonical(u) => Canonical(u)')
             \/ /\ pc[r] \in {"use", "selectWorkbook"}
                /\ target[r] = u /\ RowExists(u) /\ UNCHANGED primary
  <2>1. /\ UNCHANGED primary
        /\ pc[q] \in {"use", "selectWorkbook"}
        /\ UNCHANGED <<answers, settings, names>> \/ RowExists(target[q])
    BY <1>5 DEF InsertAnswers, UpdateDisplayName, SelectWorkbook
  <2>2. \/ UNCHANGED <<answers, settings, names>>
        \/ answers' = [answers EXCEPT ![q] = target[q]] /\ UNCHANGED <<settings, names>>
        \/ names' = [names EXCEPT ![target[q]] = q] /\ UNCHANGED <<answers, settings>>
        \/ /\ \E a \in Apps : settings' = [settings EXCEPT ![target[q]][a] = q]
           /\ UNCHANGED <<answers, names>>
    BY <1>5 DEF InsertAnswers, UpdateDisplayName, SelectWorkbook
  <2>3. Stores(r, u) \/ (q = r /\ target[q] = u)
    <3>1. CASE UNCHANGED <<answers, settings, names>>
      BY <3>1 DEF Stores
    <3>2. CASE answers' = [answers EXCEPT ![q] = target[q]] /\ UNCHANGED <<settings, names>>
      BY <3>2 DEF Stores
    <3>3. CASE names' = [names EXCEPT ![target[q]] = q] /\ UNCHANGED <<answers, settings>>
      BY <3>3 DEF Stores
    <3>4. ASSUME NEW a \in Apps, settings' = [settings EXCEPT ![target[q]][a] = q],
                 UNCHANGED <<answers, names>>
          PROVE  Stores(r, u) \/ (q = r /\ target[q] = u)
      <4>1. \A b \in Apps :
               settings'[u][b] = settings[u][b] \/ (settings'[u][b] = q /\ target[q] = u)
        BY <3>4
      <4> QED
        BY <3>4, <4>1 DEF Stores
    <3> QED
      BY <2>2, <3>1, <3>2, <3>3, <3>4
  <2>4. CASE UNCHANGED <<answers, settings, names>>
    BY <2>1, <2>4 DEF Stores, Canonical
  <2>5. CASE RowExists(target[q])
    BY <2>1, <2>3, <2>5 DEF Canonical
  <2> QED
    BY <2>1, <2>4, <2>5
<1>6. \/ UNCHANGED <<answers, settings, names, primary>>
      \/ \E q \in Requests : LinkCreate(q) \/ LinkMerge(q) \/ DeleteCommit(q)
                              \/ InsertAnswers(q) \/ UpdateDisplayName(q)
                              \/ SelectWorkbook(q)
  BY DEF Next, Step, LinkStep, DeleteStep, ResolvingStep, TokenStep, Arrive, Fail,
     LinkLockSub, LinkRefused, LinkLockDevice, LinkAlreadyLinked, DeleteLockSub, DeleteLockRow,
     DeleteCognitoUser, ConfirmTombstone, ResolveAccount, CheckDevice, UpsertDevice,
     FindDevice, RejectBody, ReadUserData, GetActiveToken, ClearTokens,
     CreateToken, LookUpToken, ConsumeToken, Tick, DailyPurge,
     vars, tables
<1> QED
  BY <1>1, <1>2, <1>3, <1>4, <1>5, <1>6

\* Every step leaves the bounds and aims of all requests in place.
LEMMA AimsKept ==
  ASSUME WriteInv, [Next]_vars, NEW r \in Requests
  PROVE  Bound(r)' /\ Aimed(r)'
<1> USE DEF Goto
<1>1. Inv /\ RowsLast /\ Bound(r) /\ Aimed(r)
  BY StepsKeepRows DEF WriteInv, ArrivalInv
<1>2. CASE Arrive(r)
  <2> PICK op \in Operations, s \in Subs \union {NULL}, d \in Idents \union {NULL} :
        /\ call' = [call EXCEPT ![r] = [op |-> op, sub |-> s, dev |-> d]]
        /\ arrivedOn' = [arrivedOn EXCEPT ![r] =
                           IF d # NULL /\ linkedTo[d] # NULL THEN userId[d] ELSE NULL]
        /\ pc' = [pc EXCEPT ![r] = FirstStep(op)]
    BY <1>2 DEF Arrive
  <2>1. FirstStep(op) \notin {"device", "use", "selectWorkbook"}
    BY AccountsAssumption
    DEF FirstStep, AllOperations, SignedInOps, ResolvingOps, TokenOps
  <2>2. /\ call'[r].dev = d /\ pc'[r] = FirstStep(op)
        /\ arrivedOn'[r] = IF d # NULL /\ linkedTo[d] # NULL THEN userId[d] ELSE NULL
        /\ UNCHANGED <<userId, linkedTo, usedIds>>
    BY <1>1, <1>2 DEF Arrive, tables, Inv, TypeInv, TypeOK
  <2>3. Bound(r)'
    BY <1>1, <2>2 DEF Bound, Inv, RowInv, IdsInv
  <2> QED
    BY <2>1, <2>2, <2>3 DEF Aimed
<1>3. CASE Step(r) \/ Fail(r)
  BY <1>1, <1>3, StepAim
<1>4. ASSUME NEW q \in Requests, q # r, Arrive(q) \/ Step(q) \/ Fail(q)
      PROVE  UNCHANGED <<pc[r], target[r], call[r], arrivedOn[r]>>
  <2> USE DEF locals, origin
  <2>1. /\ \E x : pc' = [pc EXCEPT ![q] = x]
        /\ target' = target \/ \E x : target' = [target EXCEPT ![q] = x]
        /\ call' = call \/ \E x : call' = [call EXCEPT ![q] = x]
        /\ arrivedOn' = arrivedOn \/ \E x : arrivedOn' = [arrivedOn EXCEPT ![q] = x]
    <3>1. CASE Arrive(q) \/ Fail(q)
      BY <3>1 DEF Arrive, Fail
    <3>2. CASE LinkStep(q)
      BY <3>2 DEF LinkStep, LinkLockSub, LinkRefused, LinkLockDevice, LinkAlreadyLinked,
         LinkCreate, LinkMerge
    <3>3. CASE DeleteStep(q)
      BY <3>3 DEF DeleteStep, DeleteLockSub, DeleteLockRow, DeleteCommit, DeleteCognitoUser,
         ConfirmTombstone
    <3>4. CASE ResolvingStep(q)
      BY <3>4 DEF ResolvingStep, ResolveAccount, CheckDevice, UpsertDevice, FindDevice,
         InsertAnswers, RejectBody, UpdateDisplayName, SelectWorkbook, ReadUserData
    <3>5. CASE TokenStep(q)
      BY <3>5 DEF TokenStep, GetActiveToken, ClearTokens, CreateToken, LookUpToken,
         ConsumeToken
    <3> QED
      BY <1>4, <3>1, <3>2, <3>3, <3>4, <3>5 DEF Step
  <2> QED
    BY <1>1, <1>4, <2>1 DEF Inv, TypeInv, TypeOK
<1>5. CASE Tick \/ DailyPurge \/ UNCHANGED vars
  <2>1. UNCHANGED <<pc[r], target[r], call[r], arrivedOn[r]>>
    BY <1>5 DEF Tick, DailyPurge, vars, locals, origin
  <2> QED
    BY <1>1, <2>1, KeepsAim
<1> QED
  BY <1>1, <1>2, <1>3, <1>4, <1>5, KeepsAim DEF Next

LEMMA RecordsKept ==
  ASSUME WriteInv, [Next]_vars
  PROVE  (\A r \in Requests : Unstarted(r)') /\ LinkedDeviceWritesReachPrimary'
<1> USE DEF WriteInv, Inv, TypeInv, TypeOK
<1>1. ASSUME NEW r \in Requests
      PROVE  \/ /\ Arrive(r) /\ UNCHANGED <<answers, settings, names>>
                /\ arrivedOn'[r] \in UserIds \union {NULL}
             \/ UNCHANGED arrivedOn[r] /\ (pc'[r] = "idle" => pc[r] = "idle")
  <2>1. CASE Arrive(r)
    BY <2>1 DEF Arrive, tables
  <2>2. ASSUME NEW q \in Requests, q # r, Arrive(q)
        PROVE  UNCHANGED <<arrivedOn[r], pc[r]>>
    BY <2>2 DEF Arrive, Goto
  <2>3. ASSUME NEW q \in Requests, Step(q) \/ Fail(q)
        PROVE  UNCHANGED arrivedOn /\ \E x : x # "idle" /\ pc' = [pc EXCEPT ![q] = x]
    <3> USE DEF origin, Goto
    <3>1. CASE LinkStep(q)
      BY <3>1 DEF LinkStep, LinkLockSub, LinkRefused, LinkLockDevice, LinkAlreadyLinked,
         LinkCreate, LinkMerge
    <3>2. CASE DeleteStep(q)
      BY <3>2 DEF DeleteStep, DeleteLockSub, DeleteLockRow, DeleteCommit, DeleteCognitoUser,
         ConfirmTombstone
    <3>3. CASE ResolvingStep(q)
      BY <3>3 DEF ResolvingStep, ResolveAccount, CheckDevice, UpsertDevice, FindDevice,
         InsertAnswers, RejectBody, UpdateDisplayName, SelectWorkbook, ReadUserData
    <3>4. CASE TokenStep(q)
      BY <3>4 DEF TokenStep, GetActiveToken, ClearTokens, CreateToken, LookUpToken,
         ConsumeToken
    <3>5. CASE Fail(q)
      BY <3>5 DEF Fail
    <3> QED
      BY <2>3, <3>1, <3>2, <3>3, <3>4, <3>5 DEF Step
  <2>4. CASE Tick \/ DailyPurge \/ UNCHANGED vars
    BY <2>4 DEF Tick, DailyPurge, vars, origin
  <2> QED
    BY <2>1, <2>2, <2>3, <2>4 DEF Next
<1>2. ASSUME NEW r \in Requests PROVE Unstarted(r)'
  <2> SUFFICES ASSUME pc'[r] = "idle", NEW u \in UserIds, Stores(r, u)' PROVE FALSE
    BY DEF Unstarted
  <2>1. pc[r] = "idle"
    BY <1>1 DEF Arrive, At
  <2>2. \A v \in UserIds : ~ Stores(r, v)
    BY <2>1 DEF ArrivalInv, Unstarted
  <2> QED
    BY <2>1, <2>2, RecordsMove
<1>3. ASSUME NEW r \in Requests, NEW u \in UserIds, u = arrivedOn'[r], Stores(r, u)'
      PROVE  Canonical(u)'
  <2>1. CASE Arrive(r) /\ UNCHANGED <<answers, settings, names>>
    <3>1. pc[r] = "idle" /\ Stores(r, u)
      BY <1>3, <2>1 DEF Arrive, At, Stores
    <3> QED
      BY <3>1 DEF ArrivalInv, Unstarted
  <2>2. CASE UNCHANGED arrivedOn[r]
    <3>1. u = arrivedOn[r] /\ u # NULL
      BY <1>3, <2>2, AccountsAssumption
    <3>2. Stores(r, u) => Canonical(u)
      BY <3>1 DEF LinkedDeviceWritesReachPrimary, Stores, Canonical
    <3>3. CASE Stores(r, u) /\ (Canonical(u) => Canonical(u)')
      BY <3>2, <3>3
    <3>4. CASE /\ pc[r] \in {"use", "selectWorkbook"}
               /\ target[r] = u /\ RowExists(u) /\ UNCHANGED primary
      <4>1. Gone(u) \/ Canonical(u)
        BY <3>1, <3>4 DEF ArrivalInv, Aimed
      <4> QED
        BY <3>4, <4>1 DEF Gone, RowExists, Canonical
    <3> QED
      BY <1>3, <3>3, <3>4, RecordsMove
  <2> QED
    BY <1>1, <2>1, <2>2
<1>4. LinkedDeviceWritesReachPrimary'
  <2> SUFFICES ASSUME NEW r \in Requests, arrivedOn'[r] # NULL,
                      \/ answers'[r] = arrivedOn'[r]
                      \/ names'[arrivedOn'[r]] = r
                      \/ \E a \in Apps : settings'[arrivedOn'[r]][a] = r
               PROVE  \E s \in Subs : primary'[s] = arrivedOn'[r]
    BY DEF LinkedDeviceWritesReachPrimary
  <2> PICK u \in UserIds : u = arrivedOn'[r]
    BY <1>1
  <2>1. Stores(r, u)'
    BY DEF Stores
  <2> QED
    BY <1>3, <2>1 DEF Canonical
<1> QED
  BY <1>2, <1>4

LEMMA WriteInvariant == Spec => []WriteInv
<1>1. Init => ArrivalInv /\ LinkedDeviceWritesReachPrimary
  BY AccountsAssumption
  DEF Init, ArrivalInv, Bound, Aimed, Unstarted, Stores, LinkedDeviceWritesReachPrimary
<1>2. WriteInv /\ [Next]_vars => ArrivalInv' /\ LinkedDeviceWritesReachPrimary'
  BY AimsKept, RecordsKept DEF ArrivalInv
<1> QED
  BY <1>1, <1>2, RowInvariant, PTL DEF Spec, WriteInv

\* What a request stores that came from a linked device is on the canonical
\* row of an account, never on the device's own row where no later link
\* would collect it (resolve.go:23-27), whatever links and deletions ran
\* between its statements.
THEOREM LinkedWritesReachPrimary == Spec => []LinkedDeviceWritesReachPrimary
<1>1. WriteInv => LinkedDeviceWritesReachPrimary
  BY DEF WriteInv
<1> QED
  BY <1>1, WriteInvariant, PTL

-----------------------------------------------------------------------------
(* Merges.  The row a link merges into the account is unlinked, so it is   *)
(* nobody's canonical row, and the answers on it are the device's own.     *)

AnswersInv ==
    \A q \in Requests : answers[q] # NULL => pc[q] = "ok" /\ RowExists(answers[q])

RecordsInv == Inv /\ AnswersInv

\* The rows of a merge: v of the unlinked device, into the primary of s.
LEMMA MergedRows ==
  ASSUME Inv, NEW r \in Requests, LinkMerge(r)
  PROVE  \E d \in Idents, s \in Subs, v \in UserIds :
            /\ linkedTo[d] = NULL /\ primary[s] \in UserIds
            /\ userId'[d] = v /\ userId[d] \in {NULL, v}
            /\ \A e \in Idents : userId[e] = v => e = d
            /\ \A e \in Idents : userId[e] # NULL => userId'[e] = userId[e]
            /\ \A t \in Subs : primary[t] # v
            /\ \/ UNCHANGED <<answers, settings>>
               \/ /\ linkedTo' = [linkedTo EXCEPT ![d] = s]
                  /\ answers' = RepointedAnswers(v, primary[s])
                  /\ settings' = MergedSettings(v, primary[s])
<1> USE AccountsAssumption DEF Inv, TypeInv, TypeOK, At
<1> DEFINE d == call[r].dev
           s == call[r].sub
<1>1. /\ d \in Idents /\ s \in Subs /\ linkedTo[d] = NULL
      /\ primary[s] \in UserIds /\ target[r] = primary[s]
  BY DEF LinkMerge, Unlinked, CallOK, LinkSteps, DeviceSteps, RowInv, SnapshotInv
<1> PICK v \in UserIds :
      /\ IdAfterUpsert(d, v) /\ Upserted(d, v)
      /\ \/ UNCHANGED <<linkedTo, answers, settings>>
         \/ /\ linkedTo' = [linkedTo EXCEPT ![d] = s]
            /\ answers' = RepointedAnswers(v, primary[s])
            /\ settings' = MergedSettings(v, primary[s])
  BY <1>1 DEF LinkMerge, SetUserAccountID
<1> HIDE DEF d, s
<1>2. /\ userId'[d] = v
      /\ \A e \in Idents : userId[e] # NULL => userId'[e] = userId[e]
  BY <1>1, UpsertKeeps
<1>3. /\ userId[d] \in {NULL, v}
      /\ \A e \in Idents : userId[e] = v => e = d
  BY <1>1 DEF IdAfterUpsert, RowInv, IdsInv
<1>4. \A t \in Subs : primary[t] # v
  BY <1>1, <1>3 DEF RowInv, PrimaryIsLinked
<1> QED
  BY <1>1, <1>2, <1>3, <1>4

\* The steps that change users rows or answers.
LEMMA RecordSteps ==
  ASSUME [Next]_vars
  PROVE  \/ UNCHANGED <<userId, answers>>
         \/ \E r \in Requests : \/ UpsertDevice(r) \/ LinkCreate(r) \/ LinkMerge(r)
                                \/ DeleteCommit(r) \/ InsertAnswers(r)
BY DEF Next, Step, LinkStep, DeleteStep, ResolvingStep, TokenStep, Arrive, Fail,
   LinkLockSub, LinkRefused, LinkLockDevice, LinkAlreadyLinked, DeleteLockSub, DeleteLockRow,
   DeleteCognitoUser, ConfirmTombstone, ResolveAccount, CheckDevice, FindDevice,
   RejectBody, UpdateDisplayName, SelectWorkbook, ReadUserData, GetActiveToken, ClearTokens,
   CreateToken, LookUpToken, ConsumeToken, Tick, DailyPurge,
   vars, tables

\* A request that has ended stays so.
LEMMA OkIsFinal ==
  ASSUME TypeInv, [Next]_vars, NEW q \in Requests, pc[q] = "ok"
  PROVE  pc'[q] = "ok"
<1> USE DEF TypeInv, TypeOK, At, Goto
<1>1. ASSUME NEW r \in Requests, LinkStep(r) \/ DeleteStep(r) PROVE pc'[q] = "ok"
  BY <1>1 DEF LinkStep, LinkLockSub, LinkRefused, LinkLockDevice, LinkAlreadyLinked,
     LinkCreate, LinkMerge, DeleteStep, DeleteLockSub, DeleteLockRow, DeleteCommit, DeleteCognitoUser,
     ConfirmTombstone
<1>2. ASSUME NEW r \in Requests, ResolvingStep(r) \/ TokenStep(r) PROVE pc'[q] = "ok"
  BY <1>2 DEF ResolvingStep, ResolveAccount, CheckDevice, UpsertDevice, FindDevice,
     InsertAnswers, RejectBody, UpdateDisplayName, SelectWorkbook, ReadUserData, TokenStep,
     GetActiveToken, ClearTokens, CreateToken, LookUpToken, ConsumeToken
<1>3. ASSUME NEW r \in Requests, Arrive(r) \/ Fail(r) PROVE pc'[q] = "ok"
  BY <1>3 DEF Arrive, Fail, Running, InTransaction
<1>4. CASE Tick \/ DailyPurge \/ UNCHANGED vars
  BY <1>4 DEF Tick, DailyPurge, vars
<1> QED
  BY <1>1, <1>2, <1>3, <1>4 DEF Next, Step

Moved(q) ==
    /\ AccountOfUser(answers[q]) = {}
    /\ \E d \in Idents, s \in Subs :
          /\ userId[d] = answers[q]
          /\ linkedTo'[d] = s
          /\ answers'[q] = primary[s]
Removed(q) ==
    /\ answers'[q] = NULL
    /\ \E s \in AccountOfUser(answers[q]) : primary'[s] = NULL

LEMMA AnswersMove ==
  ASSUME RecordsInv, [Next]_vars
  PROVE  /\ AnswersInv'
         /\ \A q \in Requests :
               answers[q] # NULL /\ answers'[q] # answers[q] => Moved(q) \/ Removed(q)
<1> USE AccountsAssumption DEF RecordsInv, Inv, TypeInv, TypeOK, At
<1>0. \A q \in Requests : answers[q] # NULL => pc'[q] = "ok" /\ RowExists(answers[q])
  BY OkIsFinal DEF AnswersInv
<1> DEFINE Goal == /\ AnswersInv'
                   /\ \A q \in Requests :
                        answers[q] # NULL /\ answers'[q] # answers[q] => Moved(q) \/ Removed(q)
<1>1. CASE UNCHANGED <<userId, answers>>
  BY <1>0, <1>1 DEF AnswersInv, RowExists
<1>2. ASSUME NEW r \in Requests, UpsertDevice(r) \/ LinkCreate(r) PROVE Goal
  <2>1. answers' = answers
    BY <1>2 DEF UpsertDevice, LinkCreate
  <2>2. \A e \in Idents : userId[e] # NULL => userId'[e] = userId[e]
    BY <1>2, UpsertKeeps
    DEF UpsertDevice, LinkCreate, CallOK, DeviceSteps, LinkSteps
  <2> QED
    BY <1>0, <2>1, <2>2 DEF AnswersInv, RowExists
<1>3. ASSUME NEW r \in Requests, LinkMerge(r) PROVE Goal
  <2> PICK d \in Idents, s \in Subs, v \in UserIds :
        /\ linkedTo[d] = NULL /\ primary[s] \in UserIds
        /\ userId'[d] = v /\ userId[d] \in {NULL, v}
        /\ \A e \in Idents : userId[e] = v => e = d
        /\ \A e \in Idents : userId[e] # NULL => userId'[e] = userId[e]
        /\ \A t \in Subs : primary[t] # v
        /\ \/ UNCHANGED <<answers, settings>>
           \/ /\ linkedTo' = [linkedTo EXCEPT ![d] = s]
              /\ answers' = RepointedAnswers(v, primary[s])
              /\ settings' = MergedSettings(v, primary[s])
    <3> HIDE DEF RecordsInv, Inv
    <3> QED
      BY <1>3, MergedRows DEF RecordsInv
  <2>1. RowExists(primary[s]) /\ \A u : RowExists(u) => RowExists(u)'
    BY DEF RowExists, RowInv, PrimaryIsLinked
  <2>2. ASSUME NEW q \in Requests, answers[q] # NULL, answers'[q] # answers[q]
        PROVE  Moved(q)
    <3>1. /\ answers[q] = v /\ answers'[q] = primary[s]
          /\ linkedTo' = [linkedTo EXCEPT ![d] = s]
      BY <2>2 DEF RepointedAnswers
    <3>2. userId[d] = v
      BY <1>0, <2>2, <3>1 DEF RowExists
    <3>3. AccountOfUser(answers[q]) = {}
      BY <3>1 DEF AccountOfUser
    <3>4. linkedTo'[d] = s /\ userId[d] = answers[q] /\ answers'[q] = primary[s]
      BY <3>1, <3>2
    <3> QED
      BY <3>3, <3>4 DEF Moved
  <2>3. \A q \in Requests : answers'[q] # NULL =>
           answers[q] # NULL /\ answers'[q] \in {answers[q], primary[s]}
    BY DEF RepointedAnswers
  <2>4. AnswersInv'
    <3> SUFFICES ASSUME NEW q \in Requests, answers'[q] # NULL
                 PROVE  pc'[q] = "ok" /\ \E e \in Idents : userId'[e] = answers'[q]
      BY DEF AnswersInv, RowExists
    <3>1. pc'[q] = "ok" /\ RowExists(answers'[q])
      BY <1>0, <2>1, <2>3
    <3> QED
      BY <3>1 DEF RowExists
  <2> QED
    BY <2>2, <2>4
<1>4. ASSUME NEW r \in Requests, DeleteCommit(r) PROVE Goal
  <2> DEFINE s == call[r].sub
  <2>1. /\ s \in Subs
        /\ listed[r] = RowsOf(s)
        /\ primary' = [primary EXCEPT ![s] = NULL]
        /\ userId' = [d \in Idents |-> IF userId[d] \in listed[r] THEN NULL ELSE userId[d]]
        /\ answers' = [q \in Requests |-> IF answers[q] \in listed[r] THEN NULL ELSE answers[q]]
    BY <1>4 DEF DeleteCommit, CallOK, DeleteSteps, RowInv, SnapshotInv
  <2>2. \A q \in Requests : answers'[q] # NULL =>
           answers[q] = answers'[q] /\ answers[q] \notin listed[r]
    BY <2>1
  <2>3. AnswersInv'
    BY <1>0, <2>1, <2>2 DEF AnswersInv, RowExists
  <2>4. ASSUME NEW q \in Requests, answers[q] # NULL, answers'[q] # answers[q]
        PROVE  Removed(q)
    <3>1. answers'[q] = NULL /\ answers[q] \in RowsOf(s)
      BY <2>1, <2>4
    <3>2. s \in AccountOfUser(answers[q])
      BY <2>1, <3>1 DEF RowsOf, AccountOfUser
    <3> QED
      BY <2>1, <3>1, <3>2 DEF Removed
  <2> QED
    BY <2>3, <2>4
<1>5. ASSUME NEW r \in Requests, InsertAnswers(r) PROVE Goal
  <2>1. /\ userId' = userId /\ answers[r] = NULL
        /\ \/ answers' = answers
           \/ /\ RowExists(target[r]) /\ pc'[r] = "ok"
              /\ answers' = [answers EXCEPT ![r] = target[r]]
    BY <1>5 DEF InsertAnswers, Goto, AnswersInv
  <2>2. \A u : RowExists(u)' <=> RowExists(u)
    BY <2>1 DEF RowExists
  <2>3. AnswersInv'
    BY <1>0, <2>1 DEF AnswersInv, RowExists
  <2> QED
    BY <2>1, <2>3
<1> QED
  BY <1>1, <1>2, <1>3, <1>4, <1>5, RecordSteps

LEMMA RecordsInvariant == Spec => []RecordsInv
<1>1. Init => AnswersInv
  BY DEF Init, AnswersInv
<1> QED
  BY <1>1, AnswersMove, RowInvariant, PTL DEF Spec, RecordsInv

\* A stored answer is moved once, into the account its device is linked to,
\* and removed only with its account (LinkAccount's merge, DeleteAccount's
\* cascade): none is lost, moved twice or given to somebody else.
THEOREM AnswersStayWithTheirAccount == Spec => AnswersFollowTheirAccount
<1> DEFINE Follow ==
      \A q \in Requests :
         answers[q] # NULL /\ answers'[q] # answers[q] =>
            \/ /\ AccountOfUser(answers[q]) = {}
               /\ \E d \in Idents, s \in Subs :
                    /\ userId[d] = answers[q]
                    /\ linkedTo'[d] = s
                    /\ answers'[q] = primary[s]
            \/ /\ answers'[q] = NULL
               /\ \E s \in AccountOfUser(answers[q]) : primary'[s] = NULL
<1>1. ASSUME RecordsInv, [Next]_vars PROVE Follow
  BY <1>1, AnswersMove DEF Moved, Removed
<1> QED
  BY <1>1, RecordsInvariant, PTL DEF Spec, AnswersFollowTheirAccount

\* Linking a device never changes a setting the account has
\* (MoveUserAppSettingsToUser keeps the destination's value, and the source
\* is nobody's canonical row), nor does anything but a profile update.
THEOREM SettingsSurviveLinks == Spec => PrimarySettingWins
<1> DEFINE Kept ==
      \A s \in Subs, a \in Apps :
         LET u == primary[s]
         IN  /\ u # NULL /\ primary'[s] = u
             /\ settings[u][a] # NULL /\ settings'[u][a] # settings[u][a]
             => \E r \in Requests : At(r, "selectWorkbook") /\ settings'[u][a] = r
<1>1. ASSUME Inv, [Next]_vars PROVE Kept
  <2> SUFFICES ASSUME NEW s \in Subs, NEW a \in Apps, NEW u \in UserIds,
                      primary[s] = u, primary'[s] = u,
                      settings[u][a] # NULL, settings'[u][a] # settings[u][a]
               PROVE  \E r \in Requests : At(r, "selectWorkbook") /\ settings'[u][a] = r
    BY <1>1 DEF Inv, TypeInv, TypeOK
  <2> USE AccountsAssumption DEF Inv, TypeInv, TypeOK
  <2>1. ASSUME NEW r \in Requests, LinkMerge(r) PROVE FALSE
    <3> PICK d \in Idents, t \in Subs, v \in UserIds :
          /\ linkedTo[d] = NULL /\ primary[t] \in UserIds
          /\ userId'[d] = v /\ userId[d] \in {NULL, v}
          /\ \A e \in Idents : userId[e] = v => e = d
          /\ \A e \in Idents : userId[e] # NULL => userId'[e] = userId[e]
          /\ \A x \in Subs : primary[x] # v
          /\ \/ UNCHANGED <<answers, settings>>
             \/ /\ linkedTo' = [linkedTo EXCEPT ![d] = t]
                /\ answers' = RepointedAnswers(v, primary[t])
                /\ settings' = MergedSettings(v, primary[t])
      <4> HIDE DEF Inv
      <4> QED
        BY <1>1, <2>1, MergedRows
    <3>1. settings' = MergedSettings(v, primary[t]) /\ u # v
      OBVIOUS
    <3> QED
      BY <3>1 DEF MergedSettings
  <2>2. ASSUME NEW r \in Requests, DeleteCommit(r) PROVE FALSE
    <3>1. /\ call[r].sub \in Subs /\ listed[r] = RowsOf(call[r].sub)
          /\ primary' = [primary EXCEPT ![call[r].sub] = NULL]
          /\ settings' = [v \in UserIds |-> IF v \in listed[r]
                                            THEN [b \in Apps |-> NULL] ELSE settings[v]]
      BY <1>1, <2>2 DEF DeleteCommit, At, CallOK, DeleteSteps, RowInv, SnapshotInv
    <3>2. u \in RowsOf(call[r].sub)
      BY <3>1
    <3>3. PICK d \in Idents : userId[d] = u /\ linkedTo[d] = call[r].sub
      BY <3>2 DEF RowsOf
    <3>4. PICK e \in Idents : userId[e] = u /\ linkedTo[e] = s
      BY <1>1 DEF RowInv, PrimaryIsLinked
    <3>5. call[r].sub = s
      BY <1>1, <3>3, <3>4 DEF RowInv, IdsInv
    <3> QED
      BY <1>1, <3>1, <3>5
  <2>3. ASSUME NEW r \in Requests, SelectWorkbook(r)
        PROVE  At(r, "selectWorkbook") /\ settings'[u][a] = r
    <3> PICK b \in Apps : settings' = [settings EXCEPT ![target[r]][b] = r]
      BY <2>3 DEF SelectWorkbook
    <3> QED
      BY <1>1, <2>3 DEF SelectWorkbook
  <2>4. \/ settings' = settings
        \/ \E r \in Requests : LinkMerge(r) \/ DeleteCommit(r) \/ SelectWorkbook(r)
    BY <1>1 DEF Next, Step, LinkStep, DeleteStep, ResolvingStep, TokenStep, Arrive, Fail,
       LinkLockSub, LinkRefused, LinkLockDevice, LinkAlreadyLinked, LinkCreate,
       DeleteLockSub, DeleteLockRow, DeleteCognitoUser, ConfirmTombstone, ResolveAccount, CheckDevice,
       UpsertDevice, FindDevice, InsertAnswers, RejectBody, UpdateDisplayName, ReadUserData,
       GetActiveToken, ClearTokens, CreateToken, LookUpToken, ConsumeToken, Tick,
       DailyPurge, vars, tables
  <2> QED
    BY <2>1, <2>2, <2>3, <2>4
<1> QED
  BY <1>1, RowInvariant, PTL DEF Spec, PrimarySettingWins
=============================================================================

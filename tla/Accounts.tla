------------------------------ MODULE Accounts ------------------------------
(***************************************************************************)
(* The account side of the public API server: users, accounts, answers,    *)
(* app settings, tombstones and transfer tokens in PostgreSQL, and the     *)
(* requests that the stateless handlers run against them concurrently.     *)
(*                                                                         *)
(* A request is a sequence of SQL statements.  Outside a transaction each  *)
(* statement is a step of its own.  Inside one (LinkAccount, the database  *)
(* half of DeleteAccount) the statements up to the last lock are steps and *)
(* the writes are applied by the commit step, since under READ COMMITTED   *)
(* nobody sees them earlier and the row locks keep others from changing    *)
(* what they are computed from.                                            *)
(*                                                                         *)
(* An account is named by its cognito_sub (accounts.cognito_sub is UNIQUE  *)
(* and users.account_id is a foreign key, so the surrogate accounts.id     *)
(* tells no more), a users row by its identity_id.  users.id is kept: a    *)
(* request holds one across statements, and an identity whose row was      *)
(* deleted gets a new one.                                                 *)
(***************************************************************************)
EXTENDS FiniteSets, Naturals

CONSTANTS
    Subs,        \* Cognito subs, one per signed-up person
    Idents,      \* identity ids, the values of X-Device-ID
    UserIds,     \* values of users.id, never reused
    Requests,    \* HTTP requests; an id also names what the request stores
    Apps,        \* rows of apps
    Operations,  \* the operations clients call, a subset of AllOperations
    FailPoints,  \* the statements at which a request may fail
    TokenLife,   \* most ticks an ID token and the requests it opened last
    TombstoneLife,  \* fewest ticks in the seven days of a tombstone
    NULL

SignedInOps == {"link", "delete"}
ResolvingOps == {"submit", "profile", "read"}
TokenOps == {"getToken", "issueToken", "applyToken"}
AllOperations == SignedInOps \union ResolvingOps \union TokenOps

ASSUME AccountsAssumption ==
    /\ Operations \subseteq AllOperations
    /\ NULL \notin Subs \union Idents \union UserIds \union Requests
    /\ TokenLife \in Nat \ {0}
    /\ TombstoneLife \in Nat
    /\ TokenLife <= TombstoneLife

VARIABLES
    userId,      \* users: identity_id -> id, NULL where there is no row
    linkedTo,    \* users: identity_id -> account_id, as the account's sub
    usedIds,     \* ids users_id_seq has handed out
    primary,     \* accounts: cognito_sub -> primary_user_id, NULL = no account
    answers,     \* user_answers: submitting request -> user_id
    settings,    \* user_app_settings: user_id, app_id -> writing request
    names,       \* users.display_name: id -> writing request
    tombstone,   \* deleted_accounts: cognito_sub -> state of the row
    age,         \* ticks since cognito_deleted_at, while the row has one
    tokenOf,     \* transfer_tokens: issuing request -> identity_id
    tokenUsed,   \* transfer_tokens.used_at is set
    cognito,     \* the User Pool still has the user
    life,        \* ticks the last ID token of a sub, or its request, may last
    subLock,     \* holder of pg_advisory_xact_lock(sub)
    rowLock,     \* holder of the users row (or unique key) of an identity
    pc,          \* next statement of a request, or how it ended
    call,        \* operation, verified sub and X-Device-ID of a request
    target,      \* users.id a request has read and will use
    listed,      \* users rows DeleteAccount has listed
    presented,   \* token ApplyTransferToken has looked up
    arrivedOn    \* history: linked users row of the device at arrival

tables == <<userId, linkedTo, usedIds, primary, answers, settings, names>>
deletedAccounts == <<tombstone, age>>
tokens == <<tokenOf, tokenUsed>>
pool == <<cognito, life>>
locks == <<subLock, rowLock>>
locals == <<target, listed, presented>>
origin == <<call, arrivedOn>>
vars == <<tables, deletedAccounts, tokens, pool, locks, pc, locals, origin>>

Results == {"ok", "rejected", "error"}
InTransaction == {"linkDevice", "linkCommit", "deleteCommit"}
Running == InTransaction \union
    {"link", "delete", "deleteCognito", "confirm",
     "resolve", "checkDevice", "device", "use", "selectWorkbook",
     "getToken", "clearTokens", "createToken", "applyToken", "consume"}

\* cognito_deleted_at is NULL in an unconfirmed tombstone.
TombstoneStates == {"none", "unconfirmed", "confirmed"}

TypeOK ==
    /\ userId \in [Idents -> UserIds \union {NULL}]
    /\ linkedTo \in [Idents -> Subs \union {NULL}]
    /\ usedIds \subseteq UserIds
    /\ primary \in [Subs -> UserIds \union {NULL}]
    /\ answers \in [Requests -> UserIds \union {NULL}]
    /\ settings \in [UserIds -> [Apps -> Requests \union {NULL}]]
    /\ names \in [UserIds -> Requests \union {NULL}]
    /\ tombstone \in [Subs -> TombstoneStates]
    /\ age \in [Subs -> 0..TombstoneLife]
    /\ tokenOf \in [Requests -> Idents \union {NULL}]
    /\ tokenUsed \in [Requests -> BOOLEAN]
    /\ cognito \in [Subs -> BOOLEAN]
    /\ life \in [Subs -> 0..TokenLife]
    /\ subLock \in [Subs -> Requests \union {NULL}]
    /\ rowLock \in [Idents -> Requests \union {NULL}]
    /\ pc \in [Requests -> {"idle"} \union Running \union Results]
    /\ call \in [Requests -> [op : AllOperations \union {NULL},
                              sub : Subs \union {NULL},
                              dev : Idents \union {NULL}]]
    /\ target \in [Requests -> UserIds \union {NULL}]
    /\ listed \in [Requests -> SUBSET (UserIds \union {NULL})]
    /\ presented \in [Requests -> Requests \union {NULL}]
    /\ arrivedOn \in [Requests -> UserIds \union {NULL}]

\* An empty database; every person has just signed up with Cognito.
Init ==
    /\ userId = [d \in Idents |-> NULL]
    /\ linkedTo = [d \in Idents |-> NULL]
    /\ usedIds = {}
    /\ primary = [s \in Subs |-> NULL]
    /\ answers = [r \in Requests |-> NULL]
    /\ settings = [u \in UserIds |-> [a \in Apps |-> NULL]]
    /\ names = [u \in UserIds |-> NULL]
    /\ tombstone = [s \in Subs |-> "none"]
    /\ age = [s \in Subs |-> 0]
    /\ tokenOf = [r \in Requests |-> NULL]
    /\ tokenUsed = [r \in Requests |-> FALSE]
    /\ cognito = [s \in Subs |-> TRUE]
    /\ life = [s \in Subs |-> TokenLife]
    /\ subLock = [s \in Subs |-> NULL]
    /\ rowLock = [d \in Idents |-> NULL]
    /\ pc = [r \in Requests |-> "idle"]
    /\ call = [r \in Requests |-> [op |-> NULL, sub |-> NULL, dev |-> NULL]]
    /\ target = [r \in Requests |-> NULL]
    /\ listed = [r \in Requests |-> {}]
    /\ presented = [r \in Requests |-> NULL]
    /\ arrivedOn = [r \in Requests |-> NULL]

-----------------------------------------------------------------------------
(* Reading the tables and moving a request along.                          *)

RowExists(u) == \E d \in Idents : userId[d] = u /\ u # NULL

\* A foreign-key check or an UPDATE on row u waits for the transaction that
\* holds the row FOR UPDATE.
RowLocked(u) == \E d \in Idents : userId[d] = u /\ rowLock[d] # NULL

\* The id INSERT ... RETURNING id yields for identity d.
IdAfterUpsert(d, u) ==
    IF userId[d] = NULL THEN u \in UserIds \ usedIds ELSE u = userId[d]

Upserted(d, u) ==
    /\ userId' = [userId EXCEPT ![d] = u]
    /\ usedIds' = usedIds \union {u}

Goto(r, step) == pc' = [pc EXCEPT ![r] = step]

At(r, step) == pc[r] = step

\* Fault: the lock is not waited for.
UnserialisedSubLock(r) ==
    subLock' = [subLock EXCEPT ![call[r].sub] = r]

TakeSubLock(r) ==
    /\ subLock[call[r].sub] = NULL
    /\ subLock' = [subLock EXCEPT ![call[r].sub] = r]

\* Fault: the row lock outlives the transaction.
ReleaseSubLockOnly(r) ==
    /\ subLock' = [s \in Subs |-> IF subLock[s] = r THEN NULL ELSE subLock[s]]
    /\ UNCHANGED rowLock

\* Commit and rollback release every lock of the transaction.
ReleaseLocks(r) ==
    /\ subLock' = [s \in Subs |-> IF subLock[s] = r THEN NULL ELSE subLock[s]]
    /\ rowLock' = [d \in Idents |-> IF rowLock[d] = r THEN NULL ELSE rowLock[d]]

-----------------------------------------------------------------------------
(* The authentication wrapper lets a request in.  A request whose          *)
(* Authorization header is invalid never reaches a handler.                *)

\* An ID token of this sub, or a request it opened, may still be alive.
TokenLives(s) == life[s] # 0

FirstStep(op) ==
    IF op \in ResolvingOps THEN "resolve"
    ELSE IF op = "issueToken" THEN "clearTokens" ELSE op

Arrive(r) ==
    /\ At(r, "idle")
    /\ \E op \in Operations, s \in Subs \union {NULL}, d \in Idents \union {NULL} :
        /\ s # NULL => TokenLives(s)
        /\ op \in SignedInOps => s # NULL
        /\ op \in TokenOps => s = NULL           \* the sub is not looked at
        /\ (d = NULL) <=> (op = "delete")        \* nor is the device here
        /\ call' = [call EXCEPT ![r] = [op |-> op, sub |-> s, dev |-> d]]
        /\ arrivedOn' = [arrivedOn EXCEPT ![r] =
                           IF d # NULL /\ linkedTo[d] # NULL
                           THEN userId[d] ELSE NULL]
        /\ Goto(r, FirstStep(op))
    /\ UNCHANGED <<tables, deletedAccounts, tokens, pool, locks, locals>>

\* A statement fails, the client goes away or the Lambda is killed: an open
\* transaction rolls back, what was committed before stays.
Fail(r) ==
    /\ pc[r] \in Running \intersect FailPoints
    /\ Goto(r, "error")
    /\ ReleaseLocks(r)
    /\ UNCHANGED <<tables, deletedAccounts, tokens, pool, locals, origin>>

-----------------------------------------------------------------------------
(* LinkAccount *)

\* Fault: tombstones are not looked at.
NeverDeleted(s) == FALSE

IsAccountDeleted(s) == tombstone[s] # "none"

\* Fault: any device may be claimed.
AlwaysUnlinked(d) == TRUE

\* users.account_id IS NULL, read FOR UPDATE.
Unlinked(d) == linkedTo[d] = NULL

SetUserAccountID(d, s) == linkedTo' = [linkedTo EXCEPT ![d] = s]

\* LockAccountSub, then IsAccountDeleted in the same transaction.
LinkLockSub(r) ==
    /\ At(r, "link")
    /\ TakeSubLock(r)
    /\ ~ IsAccountDeleted(call[r].sub)
    /\ Goto(r, "linkDevice")
    /\ UNCHANGED <<tables, deletedAccounts, tokens, pool, rowLock, locals, origin>>

LinkRefused(r) ==
    /\ At(r, "link")
    /\ subLock[call[r].sub] = NULL
    /\ IsAccountDeleted(call[r].sub)
    /\ Goto(r, "rejected")
    /\ UNCHANGED <<tables, deletedAccounts, tokens, pool, locks, locals, origin>>

\* UpsertUser and SELECT ... FOR UPDATE lock the device's row (or its unique
\* key), then GetAccountByCognitoSub reads the account.
LinkLockDevice(r) ==
    /\ At(r, "linkDevice")
    /\ rowLock[call[r].dev] = NULL
    /\ rowLock' = [rowLock EXCEPT ![call[r].dev] = r]
    /\ target' = [target EXCEPT ![r] = primary[call[r].sub]]
    /\ Goto(r, "linkCommit")
    /\ UNCHANGED <<tables, deletedAccounts, tokens, pool, subLock, listed, presented, origin>>

\* The device is already linked: to this account, an idempotent no-op; to
\* another one, 409 and rollback.
LinkAlreadyLinked(r) ==
    /\ At(r, "linkCommit")
    /\ ~ Unlinked(call[r].dev)
    /\ Goto(r, IF linkedTo[call[r].dev] = call[r].sub /\ target[r] # NULL
               THEN "ok" ELSE "rejected")
    /\ ReleaseLocks(r)
    /\ UNCHANGED <<tables, deletedAccounts, tokens, pool, locals, origin>>

\* First link of the account: the device's row becomes the primary.
LinkCreate(r) ==
    LET s == call[r].sub
        d == call[r].dev
    IN  /\ At(r, "linkCommit")
        /\ Unlinked(d)
        /\ primary[s] = NULL
        /\ target[r] = NULL
        /\ \E u \in UserIds :
            /\ IdAfterUpsert(d, u)
            /\ Upserted(d, u)
            /\ primary' = [primary EXCEPT ![s] = u]
        /\ SetUserAccountID(d, s)
        /\ Goto(r, "ok")
        /\ ReleaseLocks(r)
        /\ UNCHANGED <<answers, settings, names, deletedAccounts, tokens, pool, locals, origin>>

\* Fault: the source's settings take the place of the destination's.
ReplacingMerge(src, dst) ==
    [u \in UserIds |-> [a \in Apps |->
        IF u = src THEN NULL
        ELSE IF u = dst THEN settings[src][a]
        ELSE settings[u][a]]]

\* MoveUserAppSettingsToUser keeps the destination's value on conflict, then
\* DeleteUserAppSettingsByUser empties the source.
MergedSettings(src, dst) ==
    [u \in UserIds |-> [a \in Apps |->
        IF u = src THEN NULL
        ELSE IF u = dst /\ settings[dst][a] = NULL THEN settings[src][a]
        ELSE settings[u][a]]]

\* Fault: source and destination are swapped.
SwappedRepoint(src, dst) ==
    [q \in Requests |-> IF answers[q] = dst THEN src ELSE answers[q]]

\* RepointUserAnswersToUser.
RepointedAnswers(src, dst) ==
    [q \in Requests |-> IF answers[q] = src THEN dst ELSE answers[q]]

\* The account exists (or was created meanwhile, and is fetched again): the
\* device's row is merged into the primary.
LinkMerge(r) ==
    LET s == call[r].sub
        d == call[r].dev
        p == IF target[r] # NULL THEN target[r] ELSE primary[s]
    IN  /\ At(r, "linkCommit")
        /\ Unlinked(d)
        /\ primary[s] # NULL
        /\ \E u \in UserIds :
            /\ IdAfterUpsert(d, u)
            /\ Upserted(d, u)
            /\ IF u = p
               THEN UNCHANGED <<linkedTo, answers, settings>>
               ELSE /\ ~ RowLocked(p)
                    /\ SetUserAccountID(d, s)
                    /\ answers' = RepointedAnswers(u, p)
                    /\ settings' = MergedSettings(u, p)
        /\ Goto(r, "ok")
        /\ ReleaseLocks(r)
        /\ UNCHANGED <<primary, names, deletedAccounts, tokens, pool, locals, origin>>

-----------------------------------------------------------------------------
(* DeleteAccount *)

\* LockAccountSub, GetAccountByCognitoSub, ListUsersByAccountID.
DeleteLockSub(r) ==
    /\ At(r, "delete")
    /\ TakeSubLock(r)
    /\ listed' = [listed EXCEPT ![r] =
                    {userId[d] : d \in {e \in Idents : linkedTo[e] = call[r].sub}}]
    /\ Goto(r, "deleteCommit")
    /\ UNCHANGED <<tables, deletedAccounts, tokens, pool, rowLock, target, presented, origin>>

\* A confirmed tombstone that is gone, or is unconfirmed again, has no age.
AgeOfConfirmed ==
    age' = [s \in Subs |-> IF tombstone'[s] = "confirmed" THEN age[s] ELSE 0]

\* PurgeExpiredDeletedAccounts looks at nothing but cognito_deleted_at.
Purged ==
    [s \in Subs |-> IF tombstone[s] = "confirmed" /\ age[s] = TombstoneLife
                    THEN "none" ELSE tombstone[s]]

\* DeleteAccountByID (through its foreign key) and DeleteUsersByIDs lock the
\* account's rows one after the other, waiting for each with the rest held.
DeleteLockRow(r) ==
    /\ At(r, "deleteCommit")
    /\ \E d \in Idents :
        /\ userId[d] \in listed[r]
        /\ rowLock[d] = NULL
        /\ rowLock' = [rowLock EXCEPT ![d] = r]
    /\ Goto(r, "deleteCommit")
    /\ UNCHANGED <<tables, deletedAccounts, tokens, pool, subLock, locals, origin>>

\* MarkAccountDeleted, PurgeExpiredDeletedAccounts, DeleteAccountByID (which
\* sets users.account_id to NULL), DeleteTransferTokensByIdentityIDs,
\* DeleteUsersByIDs (which cascades to answers and settings), COMMIT.
DeleteCommit(r) ==
    LET s == call[r].sub
        doomed == listed[r]
    IN  /\ At(r, "deleteCommit")
        /\ \A d \in Idents : userId[d] \in doomed => rowLock[d] = r
        /\ tombstone' = [Purged EXCEPT ![s] = "unconfirmed"]
        /\ AgeOfConfirmed
        /\ primary' = [primary EXCEPT ![s] = NULL]
        /\ linkedTo' = [d \in Idents |-> IF linkedTo[d] = s THEN NULL ELSE linkedTo[d]]
        /\ userId' = [d \in Idents |-> IF userId[d] \in doomed THEN NULL ELSE userId[d]]
        /\ tokenOf' = [t \in Requests |->
                         IF tokenOf[t] # NULL /\ userId[tokenOf[t]] \in doomed
                         THEN NULL ELSE tokenOf[t]]
        /\ answers' = [q \in Requests |-> IF answers[q] \in doomed THEN NULL ELSE answers[q]]
        /\ settings' = [u \in UserIds |-> IF u \in doomed
                                          THEN [a \in Apps |-> NULL] ELSE settings[u]]
        /\ names' = [u \in UserIds |-> IF u \in doomed THEN NULL ELSE names[u]]
        /\ listed' = [listed EXCEPT ![r] = {}]
        /\ Goto(r, "deleteCognito")
        /\ ReleaseLocks(r)
        /\ UNCHANGED <<usedIds, tokenUsed, pool, target, presented, origin>>

\* Fault: the error of AdminDeleteUser is only logged.
IgnoredCognitoError(r) ==
    /\ At(r, "deleteCognito")
    /\ cognito' \in {cognito, [cognito EXCEPT ![call[r].sub] = FALSE]}
    /\ Goto(r, "confirm")
    /\ UNCHANGED <<tables, deletedAccounts, tokens, life, locks, locals, origin>>

\* AdminDeleteUser; a user that is already gone counts as deleted.
DeleteCognitoUser(r) ==
    /\ At(r, "deleteCognito")
    /\ cognito' = [cognito EXCEPT ![call[r].sub] = FALSE]
    /\ Goto(r, "confirm")
    /\ UNCHANGED <<tables, deletedAccounts, tokens, life, locks, locals, origin>>

\* MarkCognitoUserDeleted, which updates no row when the tombstone is gone.
ConfirmTombstone(r) ==
    /\ At(r, "confirm")
    /\ tombstone' = [tombstone EXCEPT ![call[r].sub] = IF @ = "none" THEN @ ELSE "confirmed"]
    /\ age' = [age EXCEPT ![call[r].sub] = 0]
    /\ Goto(r, "ok")
    /\ UNCHANGED <<tables, tokens, pool, locks, locals, origin>>

-----------------------------------------------------------------------------
(* resolveUserIDForRead, resolveUserIDForWrite and the handlers that use   *)
(* the user id they return.                                                *)

\* GetAccountByCognitoSub for a signed-in request, GetPrimaryUserIDByIdentityID
\* for an anonymous one.
ResolvedAccount(r) ==
    IF call[r].sub # NULL THEN call[r].sub ELSE linkedTo[call[r].dev]

ResolveAccount(r) ==
    /\ At(r, "resolve")
    /\ IF ResolvedAccount(r) # NULL /\ primary[ResolvedAccount(r)] # NULL
       THEN /\ target' = [target EXCEPT ![r] = primary[ResolvedAccount(r)]]
            /\ Goto(r, "use")
       ELSE /\ Goto(r, IF call[r].sub # NULL THEN "checkDevice" ELSE "device")
            /\ UNCHANGED target
    /\ UNCHANGED <<tables, deletedAccounts, tokens, pool, locks, listed, presented, origin>>

\* Fault: falls back to the device without asking whose it is.
UncheckedDevice(r) ==
    /\ At(r, "checkDevice")
    /\ Goto(r, "device")
    /\ UNCHANGED <<tables, deletedAccounts, tokens, pool, locks, locals, origin>>

\* deviceLinkedToAccount: ACCOUNT_LINK_REQUIRED when the device is another's.
CheckDevice(r) ==
    /\ At(r, "checkDevice")
    /\ Goto(r, IF linkedTo[call[r].dev] # NULL THEN "rejected" ELSE "device")
    /\ UNCHANGED <<tables, deletedAccounts, tokens, pool, locks, locals, origin>>

\* UpsertUser, for the operations that write.
UpsertDevice(r) ==
    /\ At(r, "device")
    /\ call[r].op # "read"
    /\ rowLock[call[r].dev] = NULL
    /\ \E u \in UserIds :
        /\ IdAfterUpsert(call[r].dev, u)
        /\ Upserted(call[r].dev, u)
        /\ target' = [target EXCEPT ![r] = u]
    /\ Goto(r, "use")
    /\ UNCHANGED <<linkedTo, primary, answers, settings, names, deletedAccounts, tokens,
                   pool, locks, listed, presented, origin>>

\* GetUserByIdentityID; without a row the handlers answer with defaults.
FindDevice(r) ==
    /\ At(r, "device")
    /\ call[r].op = "read"
    /\ target' = [target EXCEPT ![r] = userId[call[r].dev]]
    /\ Goto(r, IF userId[call[r].dev] = NULL THEN "ok" ELSE "use")
    /\ UNCHANGED <<tables, deletedAccounts, tokens, pool, locks, listed, presented, origin>>

\* CreateUserAnswers: the foreign key refuses a user deleted meanwhile.
InsertAnswers(r) ==
    /\ At(r, "use")
    /\ call[r].op = "submit"
    /\ ~ RowLocked(target[r])
    /\ IF RowExists(target[r])
       THEN answers' = [answers EXCEPT ![r] = target[r]] /\ Goto(r, "ok")
       ELSE Goto(r, "error") /\ UNCHANGED answers
    /\ UNCHANGED <<userId, linkedTo, usedIds, primary, settings, names, deletedAccounts,
                   tokens, pool, locks, locals, origin>>

\* WorkbookExists (submit) or GetAppBySlug (profile) finds nothing.
RejectBody(r) ==
    /\ \/ At(r, "use") /\ call[r].op = "submit"
       \/ At(r, "selectWorkbook")
    /\ Goto(r, "rejected")
    /\ UNCHANGED <<tables, deletedAccounts, tokens, pool, locks, locals, origin>>

\* UpdateUserDisplayName, when the body has a display name; it updates no row
\* of a deleted user.
UpdateDisplayName(r) ==
    /\ At(r, "use")
    /\ call[r].op = "profile"
    /\ \/ UNCHANGED names
       \/ /\ ~ RowLocked(target[r])
          /\ RowExists(target[r])
          /\ names' = [names EXCEPT ![target[r]] = r]
    /\ Goto(r, "selectWorkbook")
    /\ UNCHANGED <<userId, linkedTo, usedIds, primary, answers, settings, deletedAccounts,
                   tokens, pool, locks, locals, origin>>

\* UpsertUserAppSetting, when the body selects a workbook; the re-read of a
\* deleted user fails like the foreign key does.
SelectWorkbook(r) ==
    /\ At(r, "selectWorkbook")
    /\ \/ /\ ~ RowLocked(target[r])
          /\ RowExists(target[r])
          /\ \E a \in Apps : settings' = [settings EXCEPT ![target[r]][a] = r]
       \/ UNCHANGED settings
    /\ Goto(r, IF RowExists(target[r]) THEN "ok" ELSE "error")
    /\ UNCHANGED <<userId, linkedTo, usedIds, primary, answers, names, deletedAccounts,
                   tokens, pool, locks, locals, origin>>

\* The reading handlers query by the resolved id.
ReadUserData(r) ==
    /\ At(r, "use")
    /\ call[r].op = "read"
    /\ Goto(r, "ok")
    /\ UNCHANGED <<tables, deletedAccounts, tokens, pool, locks, locals, origin>>

-----------------------------------------------------------------------------
(* Transfer tokens: each statement commits on its own.                     *)

Active(t) == tokenOf[t] # NULL /\ ~ tokenUsed[t]

\* GetActiveTransferToken: an active token is returned as it is.
GetActiveToken(r) ==
    /\ At(r, "getToken")
    /\ Goto(r, IF \E t \in Requests : Active(t) /\ tokenOf[t] = call[r].dev
               THEN "ok" ELSE "createToken")
    /\ UNCHANGED <<tables, deletedAccounts, tokens, pool, locks, locals, origin>>

\* DeleteTransferTokensByIdentityID.
ClearTokens(r) ==
    /\ At(r, "clearTokens")
    /\ tokenOf' = [t \in Requests |-> IF tokenOf[t] = call[r].dev THEN NULL ELSE tokenOf[t]]
    /\ Goto(r, "createToken")
    /\ UNCHANGED <<tables, deletedAccounts, tokenUsed, pool, locks, locals, origin>>

\* CreateTransferToken.
CreateToken(r) ==
    /\ At(r, "createToken")
    /\ tokenOf' = [tokenOf EXCEPT ![r] = call[r].dev]
    /\ Goto(r, "ok")
    /\ UNCHANGED <<tables, deletedAccounts, tokenUsed, pool, locks, locals, origin>>

\* GetTransferTokenIdentityID: INVALID_TOKEN and SAME_DEVICE are refused.
LookUpToken(r) ==
    /\ At(r, "applyToken")
    /\ \E t \in Requests :
        IF Active(t) /\ tokenOf[t] # call[r].dev
        THEN presented' = [presented EXCEPT ![r] = t] /\ Goto(r, "consume")
        ELSE Goto(r, "rejected") /\ UNCHANGED presented
    /\ UNCHANGED <<tables, deletedAccounts, tokens, pool, locks, target, listed, origin>>

\* Fault: the UPDATE does not ask for used_at IS NULL.
ReconsumeToken(r) ==
    /\ At(r, "consume")
    /\ tokenUsed' = [tokenUsed EXCEPT ![presented[r]] = TRUE]
    /\ Goto(r, "ok")
    /\ UNCHANGED <<tables, deletedAccounts, tokenOf, pool, locks, locals, origin>>

\* ConsumeTransferToken checks and sets used_at in one UPDATE.
ConsumeToken(r) ==
    /\ At(r, "consume")
    /\ IF Active(presented[r])
       THEN tokenUsed' = [tokenUsed EXCEPT ![presented[r]] = TRUE] /\ Goto(r, "ok")
       ELSE Goto(r, "rejected") /\ UNCHANGED tokenUsed
    /\ UNCHANGED <<tables, deletedAccounts, tokenOf, pool, locks, locals, origin>>

-----------------------------------------------------------------------------
(* Time and the daily job.                                                 *)

\* While Cognito has the user the client can always get another ID token;
\* afterwards the last one runs out.  A request it opened ends before it does.
LifeAfterTick ==
    [s \in Subs |-> IF cognito[s] \/ life[s] = 0 THEN life[s] ELSE life[s] - 1]

AgeAfterTick ==
    [s \in Subs |-> IF tombstone[s] = "confirmed" /\ age[s] < TombstoneLife
                    THEN age[s] + 1 ELSE age[s]]

\* Time passes for every token and every confirmed tombstone alike.
Tick ==
    /\ life' = LifeAfterTick
    /\ age' = AgeAfterTick
    /\ \A s \in Subs : LifeAfterTick[s] = 0 =>
        \A r \in Requests : call[r].sub = s => pc[r] \in Results
    /\ UNCHANGED <<tables, tombstone, tokens, cognito, locks, pc, locals, origin>>

DailyPurge ==
    /\ tombstone' = Purged
    /\ tombstone' # tombstone
    /\ AgeOfConfirmed
    /\ UNCHANGED <<tables, tokens, pool, locks, pc, locals, origin>>

-----------------------------------------------------------------------------

LinkStep(r) ==
    \/ LinkLockSub(r) \/ LinkRefused(r) \/ LinkLockDevice(r)
    \/ LinkAlreadyLinked(r) \/ LinkCreate(r) \/ LinkMerge(r)

DeleteStep(r) ==
    \/ DeleteLockSub(r) \/ DeleteLockRow(r) \/ DeleteCommit(r)
    \/ DeleteCognitoUser(r) \/ ConfirmTombstone(r)

ResolvingStep(r) ==
    \/ ResolveAccount(r) \/ CheckDevice(r) \/ UpsertDevice(r) \/ FindDevice(r)
    \/ InsertAnswers(r) \/ RejectBody(r) \/ UpdateDisplayName(r)
    \/ SelectWorkbook(r) \/ ReadUserData(r)

TokenStep(r) ==
    \/ GetActiveToken(r) \/ ClearTokens(r) \/ CreateToken(r)
    \/ LookUpToken(r) \/ ConsumeToken(r)

Step(r) == LinkStep(r) \/ DeleteStep(r) \/ ResolvingStep(r) \/ TokenStep(r)

Next ==
    \/ \E r \in Requests : Arrive(r) \/ Step(r) \/ Fail(r)
    \/ Tick
    \/ DailyPurge

Spec == Init /\ [][Next]_vars

\* A running handler executes its next statement once its locks are free.
FairSpec == Spec /\ \A r \in Requests : WF_vars(Step(r))

-----------------------------------------------------------------------------
(* What the server promises.                                               *)

\* An account's canonical users row exists and is linked to that account: no
\* interleaving of links and deletions leaves an account pointing elsewhere.
PrimaryIsLinked ==
    \A s \in Subs : primary[s] # NULL =>
        \E d \in Idents : userId[d] = primary[s] /\ linkedTo[d] = s

\* A sub whose account was deleted gets none again, neither while its
\* tombstone stands nor, after the purge, from a token issued before: a link
\* that was in flight when the deletion ran is refused or is deleted with it.
NoAccountAfterDeletion ==
    \A s \in Subs : primary[s] # NULL => tombstone[s] = "none" /\ TokenLives(s)

\* A request that arrives from a linked device stores nothing on that
\* device's own row unless the row is the canonical one (resolve.go: such
\* records would never be recovered by a later link).
LinkedDeviceWritesReachPrimary ==
    \A r \in Requests :
        /\ arrivedOn[r] # NULL
        /\ \/ answers[r] = arrivedOn[r]
           \/ names[arrivedOn[r]] = r
           \/ \E a \in Apps : settings[arrivedOn[r]][a] = r
        => \E s \in Subs : primary[s] = arrivedOn[r]

\* One transfer token moves the identity to one device only, however many
\* apply it at the same time.
TokenConsumedOnce ==
    \A q, r \in Requests :
        (/\ call[q].op = "applyToken" /\ pc[q] = "ok"
         /\ call[r].op = "applyToken" /\ pc[r] = "ok"
         /\ presented[q] = presented[r]) => q = r

\* A linked device stays linked until its row is deleted: no deletion of the
\* account overlooks a device that was linked while it ran and leaves the
\* row behind, unlinked by the foreign key.
LinkIsPermanent ==
    [][\A d \in Idents :
         linkedTo[d] # NULL /\ linkedTo'[d] # linkedTo[d] => userId'[d] # userId[d]]_vars

AccountOfUser(u) == {linkedTo[d] : d \in {e \in Idents : userId[e] = u}} \ {NULL}

\* A stored answer moves only once, from an unlinked device to the primary
\* of the account the device is linked to, and disappears only when the
\* account it belongs to is deleted.
AnswersFollowTheirAccount ==
    [][\A q \in Requests :
         answers[q] # NULL /\ answers'[q] # answers[q] =>
            \/ /\ AccountOfUser(answers[q]) = {}
               /\ \E d \in Idents, s \in Subs :
                    /\ userId[d] = answers[q]
                    /\ linkedTo'[d] = s
                    /\ answers'[q] = primary[s]
            \/ /\ answers'[q] = NULL
               /\ \E s \in AccountOfUser(answers[q]) : primary'[s] = NULL]_vars

\* Linking another device never replaces a setting the account has: only a
\* profile update changes it.
PrimarySettingWins ==
    [][\A s \in Subs, a \in Apps :
         LET u == primary[s]
         IN  /\ u # NULL /\ primary'[s] = u
             /\ settings[u][a] # NULL /\ settings'[u][a] # settings[u][a]
             => \E r \in Requests : At(r, "selectWorkbook") /\ settings'[u][a] = r]_vars

\* A tombstone is removed only after Cognito has lost the user and the last
\* ID token has expired, whatever mixture of retried, concurrent and killed
\* deletions and purges there was.
TombstoneOutlivesTokens ==
    [][\A s \in Subs :
         tombstone[s] # "none" /\ tombstone'[s] = "none" =>
            ~ cognito[s] /\ ~ TokenLives(s)]_vars

\* No request waits forever for the sub lock or for a users row: the lock
\* orders of link, delete and the single statements form no cycle.
EveryRequestEnds ==
    \A r \in Requests : pc[r] \in Running ~> pc[r] \in Results

(* What its comment says and concurrent requests break.                     *)

\* resolve.go:23-27: nothing is recorded on a linked device's own row, where
\* a later link would not collect it.
NoStrandedAnswers ==
    \A r \in Requests, d \in Idents :
        answers[r] # NULL /\ userId[d] = answers[r] /\ linkedTo[d] # NULL =>
            answers[r] = primary[linkedTo[d]]

=============================================================================

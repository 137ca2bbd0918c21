# Verification of rikako

rikako is a quiz application: a Go API on AWS Lambda over PostgreSQL (Neon), an
admin API, command-line tools that load content from YAML, and clients for
Android, iOS and the web. People use it anonymously (the client sends an
identity id in `X-Device-ID`) and may sign up with Cognito; signing in links the
device's anonymous data to an account.

This directory holds TLA+ modules translated from the source, the TLC
configurations that check them, and proofs checked by TLAPS. `PROJECT.json`
lists the components, the runs, the mutants (one plausible bug per property,
which TLC must catch), the lines each definition stands for, the findings, the
hazards and the theorems.

## The system

| Component | State | Operations | Talks to |
|---|---|---|---|
| Public API, account handlers (`handler/account.go`) | `users`, `accounts`, `deleted_accounts` rows; advisory lock per sub, row locks | `LinkAccount`, `DeleteAccount`, `GetAccountServices` | Cognito (`userpool`), the same tables as every other handler |
| Public API, user resolution (`handler/resolve.go`) | none | `resolveUserIDForRead`, `resolveUserIDForWrite` | called first by the answer and profile handlers |
| Public API, answers and profile (`handler/answers.go`, `users.go`) | `user_answers`, `user_app_settings`, `users.display_name` | submit, progress, summary, logs, wrong answers, profile | user resolution |
| Public API, transfer tokens (`handler/transfer.go`) | `transfer_tokens` | get, issue, apply | hands an identity id to another device |
| Authentication (`auth/`) | cache of Cognito's keys, shared by all requests | wrapper of every operation, `GetKey`, `refresh` | Cognito's key endpoint |
| Tombstone purge (`backup-db-prod.yml`) | `deleted_accounts` | daily DELETE | runs beside the API |
| Admin API (`admin/handler.go`) | content tables | create, update and delete questions, workbooks, categories, apps, announcements, images | the tables the content API, publisher and learning endpoints read |
| Content API (`handler/handler.go`, `app.go`, `announcements.go`) | none | questions, categories, apps, workbooks, announcements | reads the content tables |
| Publisher (`admin/publisher.go`) | the bucket behind content.rikako.org | `PostPublish` | reads the content tables query by query, uploads object by object; clients read the bucket |
| Generated queries (`db/*.sql.go`, `migrations/`) | the tables | one function per SQL statement | every handler and tool |
| Datasync, importer (`datasync/`, `importer/`) | content tables, sequences | plan, apply; import in phases | YAML under `data/`; run beside the admin API |
| Android client (`data/auth`, `data/repository`) | tokens, pending link, identity id, submission gate | sign in/out, refresh, link, submit, transfer | API, Cognito |
| Web client (`web/src/lib`) | tokens and device id in localStorage, link promise, answers under way | link, answer, progress, sign in/out | API, Cognito |
| iOS client (`Domain/Account`, `Infrastructure`, `RemoteLearningRepository`) | tokens and device id in the Keychain, flag of a due link | sign in/out, refresh, link, retry, authenticated calls | API, Cognito |
| Portal | tokens in localStorage | link, list of services, deletion | API, Cognito |

Components that are not modelled, and why, are listed at the end and in
`PROJECT.json`.

### What is hard here

* The handlers are stateless and mostly run one statement per transaction: what
  one statement has read may be stale at the next. `resolve…` followed by a
  write is the pattern of every learning endpoint.
* `LinkAccount` and the database half of `DeleteAccount` are transactions at
  READ COMMITTED, serialised per sub by an advisory lock and per device by a row
  lock; the other handlers take neither.
* A deletion spans two systems. Between the commit and the confirmed
  `AdminDeleteUser` the process may die, the user may sign in again and retry,
  and an ID token stays valid for an hour after the user is gone.
* Clients run sign-in, refresh, link and submission concurrently, lose their
  network in the middle, and are killed. What an await has read may be of
  another session when it is used.
* A publish is dozens of queries and uploads without a transaction around them;
  datasync plans from eight queries and writes later; the importer commits file
  by file and retries. The administration edits the same tables meanwhile.
* The content is assembled by five different pieces of code (listing, single
  question, workbook, administration, publisher) that must show the same thing.
* The key cache is read under one lock, fetched without any and replaced under
  another, so answers may be stored in any order.

### What makes each component correct

* Accounts: every account has one canonical row which is linked to it; a deleted
  sub gets no account again; a deletion leaves no device behind; a merge moves
  each answer once and keeps the account's settings; nobody waits forever.
* Resolution: a linked device's data is recorded on the canonical row, a
  signed-in person's on their own account.
* Transfer tokens: each is used once.
* Tombstones: outlive every ID token.
* Key cache: a withdrawn key stops being accepted; a right token is not refused
  because of what the cache holds, unless its fetch failed or was replaced.
* Learning: an answer is graded as it was shown; log, list of questions to
  repeat, progress and weekly figures are about the same answers.
* Content: every way to read a question shows the same; what is listed opens; a
  publish that ran alone leaves in the bucket what the database holds.
* Datasync and importer: a run that nobody disturbed converges; sequences stay
  ahead of explicit ids; what the files do not speak of survives a sync.
* Clients: late answers act only on their own session; a link merges no row an
  answer is still on its way to; a device id is not given up without need; a
  record is shown only to its owner; every operation ends.

## Modules

| Module | Models |
|---|---|
| `Accounts` | the tables of the account side of the API and every request that runs against them |
| `AccountsProofs` | types, deletion and tombstones; canonical rows and links; where writes go, tokens, merged data: theorems |
| `Authentication` | middleware and key cache, with its theorems |
| `ContentDB` | the content tables: one operator per SQL statement |
| `ContentHandlers` | content API, admin handlers and the publisher's builders over `ContentDB` |
| `Content` | the content database and the admin requests that the next three share |
| `Publisher` | publishes, admin edits and the bucket |
| `Learning` | submitting answers and every query that aggregates them |
| `ContentLemmas` | what each admin request and query does to the tables: lemmas for the next two |
| `ContentProofs` | the publisher, learning: theorems |
| `Datasync`, `Importer` | the comparison and the statements of both tools, as operators |
| `Seeding` | runs of both tools beside the administration |
| `Reconciler` | what `datasync apply` promises, abstractly |
| `SeedingProofs` | the loops of both tools, their runs beside the administration, and `Reconciler`: theorems |
| `AccountSession` | the Android client's session and its authorized calls |
| `AndroidClient`, `AndroidClientProofs` | repositories, submission gate and identity on top of `AccountSession`, against the API server; refinement and theorems, those of `AccountSession` included |
| `WebClient`, `WebClientProofs` | the web site's API client in one tab, against the API server; theorems |
| `IosClient`, `IosClientProofs` | the iOS app's session, link coordinator and device id, against the API server; theorems |
| `MC…` | symmetry sets and small seeded databases, data directories and request bodies for TLC |

`Content` extends `ContentHandlers` with the variable `db`, the database it
begins with and the bodies of the requests; `Publisher`, `Learning` and
`Seeding` extend it. Two of them can therefore be reasoned about together:
`ContentProofs` does so with `Publisher` and `Learning`, whose specification is
`LearningSpec`. `Importer` extends `Datasync`, which takes from
`ContentHandlers` what datasync uses of the database, and `Seeding` composes
both with the admin handlers. `AndroidClient` composes `AccountSession` with the
repositories.

### `Accounts`

State corresponds to tables: `userId`/`linkedTo` are the `users` rows by
identity id (`id`, `account_id`), `primary` is `accounts` by `cognito_sub`
(`primary_user_id`), `answers`, `settings`, `names` the learning data,
`tombstone` the `deleted_accounts` rows, `tokenOf`/`tokenUsed` the
`transfer_tokens`. `cognito` is what the User Pool knows: the user exists.
`life` is how long the last ID token of a sub may still be valid, `age` the time
since `cognito_deleted_at`. `subLock` and `rowLock` are the advisory lock and the
row locks. A request is a program counter `pc`, its
arguments `call`, and the values it has read and will use (`target`, `listed`,
`presented`).

Outside a transaction every SQL statement is an action: `ResolveAccount`,
`CheckDevice`, `UpsertDevice`, `InsertAnswers`… Inside `LinkAccount` and
`DeleteAccount` there is one action per lock that may have to be waited for, and
the writes are one action together with the commit; nobody can see them earlier,
and what they are computed from is locked. `Fail` rolls back an open transaction
and ends the request at any statement of `FailPoints`; a killed Lambda and a
lost client look the same to the database. `DeleteLockRow` takes the users rows
of a deleted account one at a time, each held while the next is waited for.

`Tick` is time. It shortens the `life` of the last token of every user Cognito
has lost (while it has the user, the client can always get a new token) and lets
every confirmed tombstone grow older. A purge, in `DeleteCommit` or the daily
one, looks at nothing but that age, as the DELETE does: that no token is left
when a tombstone has reached `TombstoneLife` is what has to be shown. The facts
used are that Cognito issues no token for a user it has lost, and that a token
and the requests it has opened last `TokenLife` ticks at most, which is no more
than `TombstoneLife` (an hour and a request's timeout, against seven days).

Abstracted: `accounts.id` (the sub names the account), e-mail addresses, the
workbook and the questions of a submission (one row per request), the contents
of names and settings (the request that wrote them), the expiry of transfer
tokens (three years), the hash in `LockAccountSub` (a collision only makes
requests wait).

### `AccountSession` and `AndroidClient`

A coroutine runs one operation. In `AccountSession` its `pc` walks through the
sections of `signIn`, `signOut` and `AuthorizedCall.execute`; `mutex`,
`generation` and `tokens` are the fields of the class. A section under the mutex
that makes no call is one step (`Locked`), one that calls Cognito, or whose
order of writes matters on disk, takes the mutex in one step and gives it back
in another (`Lock`, `Unlock`). What is read without the mutex (`forceRefresh`,
the checks in `execute`) is a step of its own; `forceRefresh` reads generation
and tokens in one (when the session changes between the two reads, the check
under the mutex refuses, as it does when it changes after both).
`tokens` names the login by the coroutine that signed in, since every refreshed
token of a login has its refresh token. `saved` and `pending` are the two
preference files as the process sees them, `disk` what `apply()` has written:
`Flush` may happen at any time and writes both files (a kill between them leaves
what a `Flush` before the second `apply()` leaves), `Restart` reads `disk`. A
sign-out that is killed before its write is forgotten, as on the device. `sent`
and `ended` are history.

`AndroidClient` extends it. `step` walks through `ensureLinked`, `submitAnswers`
and `applyTransferToken`; where such a function calls `authorized.execute`, `pc`
runs the call and `SendLink`, `SendAnswers`, `Rotate` are the block passed to
it. `net` and `reply` are the HTTP request, which goes on when the client gives
up or dies. The server is the account side of the API as far as the client can
tell: `ServerLinks` is `LinkAccount` in one step, a submission is resolved in
one step and stored in a later one. The initial states have any set of devices
linked already. `Flushed` states an assumption: a round trip of the network
outlasts the background write of SharedPreferences, so that an answer arrives
with `disk` up to date. Without it a sign-in written after the later `pending`
could be lost, or kept without it.

The cancellation of a coroutine is not modelled. For a session it looks like a
failed call; for a request, like `GiveUp`.

### `Authentication`

`keys` and `fetchedAt` are the cache, `stage` a request's place in `GetKey`.
`ReadCache` is the section under the read lock, `Store` the one under the write
lock; between them a fetch is sent, answered by Cognito (`Answer`: the set as
published at that moment) and delayed up to `Timeout`. The second lookup after
the refresh (`Lookup`) takes whatever set is cached by then. `Publish` and
`Withdraw` are Cognito's; `Tick` lets time pass, except between the write lock
and the second look, which follow each other without waiting. Parsing and RSA
belong to a library and appear as `claims`.

### `ContentDB`, `ContentHandlers`

A database is a record of tables, a table a set of rows, `seq` the sequences. A
query is an operator with the rows it selects, in its ORDER BY; a statement that
writes is an operator with the database it leaves, cascades of the foreign keys
included (`ConstraintsHold` says when PostgreSQL refuses one). `ContentHandlers`
has an operator `Api…` per endpoint of the content API, `Admin…` per request of
the admin API and `build…` per builder of the publisher. Texts are short
strings, descriptions and explanations are folded into the title or text they
stand beside. An admin request is one transaction whose first write locks the
row it is about, hence one step.

### `Publisher`

One action per query and per upload of `PostPublish`: `BuildList`/`PutList` for
the three lists, `Read…`/`Put…` for each detail. `draft` holds what was read for
the object being built, `todo` the rows of the list that is being walked. `Gone`
is the `sql.ErrNoRows` of a row deleted since it was listed, `Fail` any error:
500, and what was uploaded stays. Admin requests run between any two of these
steps. `alone` and `settled` are history.

### `Learning`

`Receive`, `ReadKeys` and `Insert` are the statements of `SubmitAnswers` after
the user is resolved; edits of the content run between them. The handlers that
read are operators on the current state. Where SQL leaves a choice (rows that
tie in DISTINCT ON or ORDER BY) a query is the set of its possible results, and
the properties hold for all of them. A reading handler asks all its queries of one
state. The study dates are the latest 365. Time is an integer; a day has `DayLength`
units and Japan is `JstOffset` ahead of UTC. No two statements share a
timestamp, and a client sends a question once per batch (the hazards say what
happens otherwise).

### `Datasync`, `Importer`, `Seeding`, `Reconciler`

`Datasync` has the validation, the eight queries of the plan, the comparison of
each table and the database after Apply's transaction; `Importer` the
transaction for each file. `Seeding` runs them: `PlanQuery` for one query of the
plan, `Apply` for the transaction, `RunInTx` for one file of a phase;
`ConnectionLost` breaks the importer's connection before or after a commit.
`CommitFails` is a sync whose COMMIT reports an error: everything is rolled back
but `setval`, or the COMMIT went through and only its answer was lost, so that
the run fails with the content changed (`datasync.go:205-207`). `Killed` ends a
run anywhere. The workflows run one tool at a time; admin edits come in between
any two steps. `applyImages` deletes before it adds and changes; the code goes
through the ids in order, which makes a difference only when an id takes a path
that a higher one still has. `PathTaken` is that case, and the transaction fails
on the unique key.

`Reconciler` is the abstract specification of a sync: keys are compared with a
goal part by part, what differs is written at once, and others may write at any
time. A run that fails has written all of it or nothing. In `Seeding` its keys
are the rows of the four tables (`Keys`), `content` is what the plan's own
queries would read (`Contents`), `Goal` what the directory `Yaml` has there
(`Target`), `planned` the rows in the difference of the tables read so far
(`PlannedKeys`). `ImplementsReconciler` says that every step of `Seeding`, the
importer's and the administration's included, is a step of `Reconciler` or a
stutter.

`DirectoryOK` is decoded YAML: ids from 1 on (0 stands for NULL), records with
the fields of the YAML types. `Tidy` is what neither tool checks and the files
under `data/` keep to: no list names anything twice, a category lists workbooks
that exist and that no other category lists. `clean` is history: the run began
on a database in which the questions of a workbook have different places
(`InPlace`; the plan's query orders by place, so its answer is otherwise not a
definite one), and nobody edited since.

### `WebClient`

A task is a call of the page: AuthMenu's link (`auth`), a submitted answer
(`answer`), ExamProgress (`progress`). It owns two threads, the call and the
link it may have started for everyone (`linkReady` names the task whose link is
under way, `awaited` whose link a call waits for). A step runs to the next
await. `pc` is `wait` in `waitForPendingSubmissions`, `fetch` in a request,
`refresh` in `cognito.refresh`, `link` in `ensureLinkReady`; `auth`, `link` and
`rotated` are the retry budgets; `token` and `device` what `authedFetch` read
when it sent. `Settle` is the link's promise: its `finally` and everyone who
waited run before anything else does (`Settling`). The server answers between
any two steps; `ServerResolves` and `ServerRecords` are the two statements of a
submission. `Cancel` is React's cleanup when the user changes: its result is
dropped. Signing in and out happens at any time, `SignOut` and `SignedOut` being
the revocation and the clearing of the tokens after it. The login page stores the
new tokens whatever is stored already (`cognito.ts:87-93`), so one session may
replace another with no sign-out between. Other tabs are not modelled.

### `IosClient`

A task is a Swift Task on the main actor (the target's default isolation): a
step runs to the next await, `request` is what is awaited, `net` and `reply` how
far it is. `tokens` is the field and the Keychain, which `apply` and `clear`
change together; `pending` is the flag in UserDefaults; `cached` is nil while a
device id is being rotated, `keychain` keeps the old one. `sendAuthenticated`
chains `getIdentityId`, `validIdToken` and the request. `Restart` kills the app
anywhere, between the two stores of `signIn` and `clear` too, and launches it
again; the launch's own `ensureLinked` comes before anything else is on the
screen. `Lost` is a failed call of any kind, whose request may still arrive
(`Left`). A request to the API server is one step, a submission's two statements
included. `late` and `raced` are
history: an answer that was applied to another session than its own, and a
device id replaced by one drawn beside it. Device ids taken over with a transfer
token (`overrideIdentityId`) are not modelled.

### Runs

| Run | Question | Bounds |
|---|---|---|
| `two_accounts` | do links, deletions, submissions, profile updates and tokens of two people sharing devices keep rows, data and tombstones consistent? | 2 subs, 3 identities, 3 user ids, 3 requests of all 8 operations, failures at both transactions, the Cognito call and the confirmation; tokens and tombstones of 2 ticks |
| `progress` | does every link and deletion end? | 2 subs, 2 identities, 3 requests, `FairSpec`, no symmetry |
| `stranded_answers` (violation) | can a submission leave answers on a linked device's own row? | links and submissions, no failures |
| `authentication` | do withdrawn keys go, and right tokens pass? | 2 requests, 2 keys, a cache of 2 units, a timeout of 1, 5 units of time |
| `learning` | is an answer graded as shown, and are the figures about it consistent? | 3 submissions of 2 users, 2 edits, days of 8 units around the turn of a week |
| `publish` | what does the bucket answer, and do the endpoints fit together? | 2 publishes, 4 edits and publishes together, 1 failure |
| `published_only` (violation) | can the bucket serve a workbook that is not published? | 3 edits and publishes together |
| `seeding` | what does a run of datasync or the importer leave? does `Seeding` implement `Reconciler`? | 2 runs, 2 edits, 1 fault, 2 data directories, ids up to 8 |
| `client_gate` | Android: does the gate keep answers from being stranded, and does every operation end? | 3 coroutines, 2 identities, 1 account, requests that cannot be sent, `FairSpec` |
| `client_pending` | Android: do late answers act only on their own session, is every due link pending or done, does the client keep to `AccountSession`? | 3 coroutines, 2 identities, 2 accounts, lost answers, restarts |
| `web` | do shared links, rotations, merges and shown records belong to who is there; do no two calls wait for each other? | 2 tasks, 2 accounts, 4 device ids, 2 sessions, 1 fault |
| `ios` | does a due link stay due, do answers stay reachable and go to the account? | 2 tasks, 2 accounts, 4 device ids, 2 sign-ins, 1 expiry, 4 user actions and kills |

Why the bounds are enough.

*Accounts.* A conflict needs two requests, and undoing or observing it a third.
Three identities give an account a primary, a merged and a foreign device; three
user ids let one identity be created again after a deletion; a behaviour that
needs a fourth row stops at that insert. One app is enough because settings of
different apps do not interact. `FailPoints` holds the statements whose failure
leaves something behind; a failure anywhere else ends a request that has written
nothing or whose writes are already whole, so it is the same as a request that
is never scheduled again, which every safety run includes. `progress` takes only
links and deletions: the others hold no lock. `TokenLife` and `TombstoneLife`
are both 2, the tightest the assumption allows: a tombstone confirmed a tick
before Cognito has lost the user is purged too early. The theorem holds for all
values.

*Authentication.* Two requests can store their answers in either order, the
older one last; five units of time are the cache's life, two timeouts and one
more. The theorems cover the rest.

*Learning.* Three submissions answer a question wrongly, rightly and again in
another workbook; two edits replace a key and delete what was answered between
two statements. The clock starts on a Sunday in Japan (unit 47; the week ends
there at 53, in UTC at 56) and its ticks, shorter and longer than a day, lead
into the next week.

*Publisher.* Two publishes overlap in every way; with one edit between them or
two around one, every list can differ from its details. The seeded database has
a question with images, a workbook with two questions, and an app with a
category. An uploaded image takes a path no other image has; four paths are one
for every edit there can be.

*Seeding.* The second run starts where the first was cut off; two edits disturb
a plan between two queries, create a row whose id a file wants or give a
question two correct choices. `NoKeyDirectory` is what datasync must reject and
the importer takes.

*Android.* Three operations are a sign-in, a link, and one operation between any
two of their steps. An account with a row of another device (an initial state)
makes a link a merge, two identities make a conflict rotate.

*Web.* Two calls share a link, and one of them may be of the person before; two
sessions are two people or one twice; four device ids are this device, one
elsewhere, and two rotations. `View` makes states one that differ only in a
session of which no token is left anywhere: no action and no property reads it
again.

*iOS.* Two tasks are a call and whatever overtakes it; four user actions after
the launch end a session, begin another and leave two calls in it; four device
ids are this device, one elsewhere, and two that are drawn at once or one after
the other. `View` is that of the web client.

`CHECK_DEADLOCK FALSE` in every run: each request, task or tool run is used
once, or is bounded, so the system stops when all have ended. That nobody is
stuck before is `EveryRequestEnds` and `EveryOperationEnds`, and for the web
client `NobodyWaitsInACircle`: whoever a call waits for does not, through others,
wait for that call.

### Fairness

`Accounts`: `WF_vars(Step(r))` for every request. A handler that runs executes
its next statement as soon as the locks it needs are free; PostgreSQL grants a
lock that nobody holds. Neither arrivals, failures nor the passing of time are
assumed.

`AndroidClient`: `WF_vars(CoroutineStep(c))`, for the dispatcher resumes a
coroutine that can go on and the server answers or the connection fails; and
`WF` of `Flush`, which Android performs at the latest when the activity stops.

The other modules state no fairness: their properties are about what may never
happen.

### Findings

The violation runs are disagreements with comments of the code:

* `NoStrandedAnswers`: `resolve.go:23-27` explains that answers on a linked
  device's own row would never be collected. `SubmitAnswers` resolves the row
  and inserts later without a lock, so a link that commits in between produces
  exactly that. What does hold is `LinkedDeviceWritesReachPrimary`: a request
  that arrives after the link strands nothing, no answer, setting or name.
* `OnlyPublishedServed`: `publisher.go:190` says the published content holds
  only published workbooks. A publish overwrites and never deletes, so the
  object of a workbook that was unpublished or deleted stays.

### Known and not stated as properties

Behaviour that was met while modelling and that the models show; some of it
against a comment, some only surprising.

* A signed-in write checks the device and inserts later (`resolve.go:103`);
  another person may link the device in between and gets the answers, against
  `resolve.go:14-16`. Two re-issues of a transfer token leave two active ones,
  against `transfer.go:46`.
* `KeystoreAuthTokenStore.save` has emptied the store when it fails: the process
  stays signed in, the next start finds nobody (`AccountSession.kt:199-206`). A
  submission the client gave up leaves the gate although the server may still
  store it (`SubmissionGate.kt:27`).
* An empty datasync plan does not reset the sequences (`datasync.go:173`,
  against `docs/datasync.md:152`). `is_published` is not compared. A category
  that lists a workbook that does not exist, or one that two categories list,
  differs again after every apply (`Tidy` leaves both out). A failed COMMIT keeps
  `setval`.
* The importer validates nothing, and its clearing removes the apps' links to
  categories by cascade.
* A question with two correct choices shows the last, and datasync compares the
  first (`docs/question-types.md:28` has one correct choice, and nothing checks
  it): the plan is then empty although the API serves another key than the file.
  `UndisturbedRunsConverge` promises what is served only for single keys
  (`SingleKey`). One without a correct choice is graded as if choice 0 were, and
  the API shows 0 as its key (`answers.go:62` and `handler.go:185`, two defaults
  that agree); only the publisher shows none. A submission is graded by the key
  of the moment it was read, also when the key was replaced before the INSERT
  (`answers.go:48`). Two answers to one question in one batch tie in DISTINCT
  ON.
* Web: a refresh in flight during sign-out stores its tokens afterwards
  (`cognito.ts:97-115`); a late 401 of an older session clears the newer
  session's tokens; someone who joins a link begun by the person before is told
  it is done (`EnsuredMeansLinked` leaves this out); a link that
  `ACCOUNT_LINK_REQUIRED` starts waits for no answers, and an answer resent
  after a sign-out goes without a token.
* iOS: a refresh that ends after `signOut` signs the user in again when `clear`
  has taken the flag down, and a link that ends in the next session takes that
  session's flag down (`AccountLinkCoordinator.swift:65`): signed in, neither
  linked nor due to be, which the order of the stores in `signIn` means to keep
  out (`AccountSession.swift:73-76`). `LinkedOrOffered` says that nothing else
  leads there. `getIdentityId` lets two first calls draw an id each; answers
  recorded under the first are lost to the link, which is to be seen through
  until it succeeds (`AccountLinkCoordinator.swift:35`). `AnswersKept` says that
  nothing else loses them.
* iOS: a second sign-out under way clears the tokens of whoever signed in
  meanwhile (`AccountSession.swift:146-151`); the retry after a 401 may send an
  answer of one user with the token of the next
  (`RemoteLearningRepository.swift:183`); `ACCOUNT_LINK_REQUIRED` is an ordinary
  error there, so someone whose flag was lost cannot record answers until
  signing in again.

### Proofs

For the account side, for arbitrary `Subs`, `Idents`, `UserIds`, `Requests`,
`Apps`, `Operations`, `FailPoints` and lifetimes, under `AccountsAssumption`
(`NULL` is none of them, `Operations` are operations, a token lives for at least
one tick and no longer than a tombstone).

* `TypeCorrect`: `TypeOK`, and that running requests have the sub and device
  their next statement uses (`CallOK`, which makes it inductive).
* `DeletedStaysDeleted` (`NoAccountAfterDeletion`). The invariant alone is not
  inductive: a link that has passed the tombstone check could meet a deletion.
  `DeletionInv` adds that a request between its locks holds the sub lock (so no
  deletion commits meanwhile), that a link past the check still sees no
  tombstone, that a deletion about to confirm has seen the user gone from
  Cognito and so has every confirmed tombstone, that the age of such a tombstone
  and what is left of the last token's life add up to no more than `TokenLife`,
  and that a sub without Cognito user but with a living token has a tombstone.
* `TombstonesOutliveTokens` (`TombstoneOutlivesTokens`), from the same
  invariant (`ExpiredIsOver`): when the age has reached `TombstoneLife` nothing
  is left of the token. It rests on `DeleteAccount` confirming only after
  `AdminDeleteUser` succeeded; the mutant, which confirms also after it failed,
  violates it.
* `PrimaryStaysLinked` (`PrimaryIsLinked`) and `LinkStaysUntilDeletion`
  (`LinkIsPermanent`), from `RowInv`: user ids are not shared by identities and
  come from `usedIds`; a deletion between its locks has listed exactly the rows
  linked to its sub; a link past its locks holds the row of its device.

* `TokensAreUsedOnce` (`TokenConsumedOnce`), from `TokenInv`: whoever has
  applied a token has marked it, and a mark is never taken back.
* `LinkedWritesReachPrimary` (`LinkedDeviceWritesReachPrimary`) needs
  `ArrivalInv`: the row a request found linked when it arrived stays bound to
  its device and its account until a deletion removes it; a request that then
  finds no row has lost it to a deletion, and the row it aims at is gone or
  canonical.
* `AnswersStayWithTheirAccount` (`AnswersFollowTheirAccount`), from
  `AnswersInv`: stored answers are of requests that have ended and on rows that
  exist; a merge takes the row of an unlinked device, which is nobody's primary.
* `SettingsSurviveLinks` (`PrimarySettingWins`), from `RowInv`: the merged row
  is nobody's canonical one, and only a profile update writes one that is.

For authentication, for arbitrary `Requests`, `Kids`, `Ttl` and `Timeout`
(`TimesAssumption`):

* `CachedKeysWereCurrent`: an answer on its way holds no key that was withdrawn
  before its question was sent, and the cached set none that was withdrawn more
  than a timeout before it was stored, also when fetches overtake each other.
  From it, `WithdrawnKeysAreForgotten` (`WithdrawnKeysExpire`);
  `RightTokensAreTaken` (`RightTokensPass`): a set that
  is kept was asked for after the key was published.

For the Android client, for arbitrary `Coroutines`, `Accounts`, `Idents`,
`Operations` and `Faults`, under `SessionAssumption` and `ClientAssumption`:

* `TypeCorrect`: types and mutual exclusion of `AccountSession.mutex`.
* `NoLoginComesBack` (`NoResurrection`) needs `LoginInv`: a login whose sign-in
  is under way is nowhere in memory or on disk, and if it was overtaken the
  generation it remembers is not the current one; generations only grow.
* `RetriesStayInTheirSession`, `OthersSessionsLast`, `AnonymityIsChosen` need
  `CallInv`: as long as the generation a request remembers lasts, the session's
  login is the one of the request's token, and a request that refreshes under
  the mutex remembers the current generation.
* `ClientUsesSession`: `AndroidClient` implements `AccountSession`. The
  refinement mapping is the identity, since the one extends the other; the
  theorem says that no step of the repositories changes the session in a way
  `AccountSession` does not. `ClientSessionSafe` carries its guarantees over.
* `ClientTypeCorrect` (`ClientTypeOK`), with `GateInv`: the gate's counter is
  the number of coroutines that submit, and nobody submits while one is inside
  the gate.
* `AnswersAreCollected` (`AnswersCollected`), if no request is given up and no
  process dies (`NothingAbandoned`): what is on its way to the server is awaited
  by a coroutine that the gate counts, so a link that merges finds nothing under
  way.
* `LinksAreNotForgotten` (`PendingUntilLinked`) and `FailuresCanBeRetried`
  (`FailureCanBeRetried`), from invariants about what memory and disk say
  (`StoreInv`), about generations and identities a link remembers, and about
  when a link is still due (`DueInv`).

For the web client, for arbitrary `Tasks`, `Accounts` and bounds, under
`WebAssumption`:

* `WebTypeCorrect` (`WebTypeOK`), with `KnownInv`: every token is of a session
  Cognito knows.
* `RotationsAreNeeded` (`RotatedIdsAreForeign`), from `LinkInv`: at most one
  link is under way, for the device id there is, everyone who waits waits for
  it, and a link answered with 409 belongs to another account than the device.
* `ProgressIsOwn` (`ShownProgressIsOwn`), from `OwnInv` and `ProgressInv`: a
  call that was not cancelled acts for the present user, and what it was
  answered was read from that user's row.
* `EnsuredDevicesAreLinked` (`EnsuredMeansLinked`), from `EnsuredInv`: when the
  link AuthMenu waited for is done the device is the user's, and whatever link
  runs after that is for the same user, so it meets no conflict and changes no
  device id.

* `MergesMissNothing` (`MergeMissesNothing`) needs `MergeInv`: no device id is
  used before it is drawn, and one that was given up is linked (`RegisteredInv`);
  an answer that has been given a row has its account's, or the row of a device
  which an account without a row will make its own (`RowInv`); AuthMenu's link
  waits for the answers of everyone who was here before (`AuthInv`); a call that
  has to link first is of an account without another row, and whoever links the
  device id meanwhile acts for the same user (`NeedInv`).
* `WaitingEnds` (`NobodyWaitsInACircle`), from `WaitInv`: AuthMenu's call and
  progress wait for answers, before their link has begun; an answer is not put
  off. A link waits for nobody, so any set of threads has one that waits for
  none of the others.

For the iOS client, for arbitrary `Tasks`, `Accounts` and bounds, under
`IosAssumption`:

* `IosInvariant`: types; every token is of a session Cognito knows; one link at
  a time (`LinkInv`); a sign-in that was answered is of a session nothing else
  is of (`FreshInv`); what the server said of a link is still so (`ServerInv`);
  and the three invariants below, which rest on these.
* `NoAnswerIsLost` (`AnswersKept`), from `DeviceInv`: the Keychain's device id
  is replaced only when its row is in an account, and requests under way, like
  the answers recorded, are under that id or in an account.
* `LinkDoneOrOffered` (`LinkedOrOffered`), from `DueInv`: the offer stands as
  long as a link is due and not under way; when none is due, nobody links any
  more, so the linked device id stays.
* `AnswersGoToTheAccount` (`AnswersReachTheAccount`), from `AnswerInv`: a retry
  of the present session has a token of it.

Content, for arbitrary request bodies and databases under `ContentAssumption`:
the bodies are what the handlers accept (`QuestionBody`, `WorkbookBody`),
`TablesOK` says that tables are finite sets of rows with ids, `SchemaOK` what the
migrations declare, the unique keys of choices, pictures and an app's categories
included. `Sound` is the schema in parts (`SoundIsSchema`). Each request has a
lemma of its own (`CreatedQuestion`, `DeletedCategory`, …) that goes through its
statements and cascades; `EditsAreSound` and `EditedContent` join them.

For learning, for arbitrary bodies, lengths of a day and offsets of Japan, under
`LearningAssumption` (a body has at least one answer, which the handler
demands):

* `LearningInvariant`: the stored rows are finitely many, their ids are given
  once, in order, and no row is later than the clock.
* `EveryAnswerOnOnePage` (`LogPagesComplete`): since no two rows share an id the
  ORDER BY of the log is total, a row's place is the number of rows before it
  (`LogRank`), and every place is on one page.
* `WeeksBeginOnMonday` (`WeekIsMondayToSunday`): the arithmetic of the weekday,
  by division with remainder, and that the query counts the dates of that week.
* `AnswersAreGradedAsShown` (`GradedAsShown`), if the administration marks one
  choice of a question as correct (`KeysAreSingle`, as
  `docs/question-types.md:28` has it; neither the schema nor the handler demands
  it, and with two marked the query takes either). `KeyIsShown`: what the
  submission's query selects is then what the content API shows; between the
  statements, what was read is the key of a moment since the submission came in
  (`GradingStep`).
* `RepeatsComeFromTheLastAnswer` (`RepeatsAreLatest`), if a client asks for each
  question once per submission (`QuestionsOnce`) and what one user has answered
  fits on the page the property reads (`QuestionsFit`, at most `MaxLimit`
  questions). `TimesInv` and `FitInv`: rows of one question and user have times
  of their own, later ones greater ids, so DISTINCT ON leaves no choice
  (`NewestIsLast`).

For the publisher, for arbitrary numbers of publishes, under
`PublisherAssumption` (timestamps and bounds are natural numbers):

* `PublisherTypeCorrect` (`TypeOK`): every request of the administration leaves
  a database that satisfies the schema.
* `PublishedListsResolve` (`SuccessfulListsResolve`). It is not inductive: while
  a publish runs, its lists are ahead of their details. `ListInv` says that an
  entry of a list is in the bucket, or still to be built by the publish that
  wrote the list, unless that one failed. Uploading a detail takes it off what
  is to be built (`DetailUploaded`), another publish's list replaces the old one
  together with the claim about it (`ListUploaded`), and nothing is deleted.
* `EndpointsTellTheSame` (`EndpointsAgree`), in every state whose questions fit
  on the one page the property reads (`QuestionsOnOnePage`). It rests on
  `ArrangedContent`: in the database it begins with, the choices of a question
  are numbered from 0 and one is correct, and no two questions have one place in
  a workbook. The schema demands none of this, but the handlers and `datasync
  apply` write nothing else, and `ArrangedStep` shows that every request keeps
  it. Without it the two queries that number choices would show them
  differently.
* `CleanPublishesAreExact` (`CleanPublishIsExact`), in every state whose lists
  fit on the pages the property reads (`ListsOnOnePage`), from the same assumption.
  `CleanInv` says of a publish that is alone that what it has read is what the
  queries still return (`DraftFresh`), that the lists and details of its
  finished stages are exact in the bucket, and that each detail of the present
  one is exact or still to be built (`Underway`). `ReadStep` and `Puts` are the
  two halves of a step, `BucketIsExact` compares the keys with the content API.
  TLC checked `CleanInv` before it was proved.

For datasync and the importer, for arbitrary data directories, databases and
request bodies, under `SeedingAssumption` (a directory is decoded YAML, and `Yaml`,
the directory whose syncs `Reconciler` speaks of, is valid and tidy) and
`ContentAssumption`:

* `CreatesMeetNoRow` (`SequencesFollowRows`). `SeedingInvariant` is inductive:
  the tables keep their shape and `workbooks` its key (`Workable`), the plan
  holds what its queries return and a phase has files of its own directory
  (`ToolOK`), and after a run that wrote under explicit ids every sequence is
  ahead. The reset puts it there (`SequencesReset`, from the greatest id
  `COALESCE(MAX, 0)` finds), and every request of the administration that finds
  the sequences ahead leaves them ahead (`Follows`). They are not ahead while a
  tool runs, nor after one that failed: a request then may draw the number of a
  row, and is refused by the primary key. TLC checked the invariant on the run
  `seeding` before it was proved.
* `SyncsKeepTheRest` (`SyncKeepsTheRest`): `Kept` says of a database under a
  sync that the app links of the categories that stay, and the published state of
  every workbook that stays, are those the sync began with. Each statement keeps
  it (`StatementKept`), hence each loop, hence the whole transaction
  (`AppliedKeeps`).
* The loops of both tools are recursive functions. `WayExists` proves that such a
  function exists, step by step from its domain's least missing element
  (`Climb`), so what it computes can be reasoned about one row at a time (`Loop`).
* `SchemaIsKept` (`ConstraintsHold`): keys, foreign keys and the ranges of the
  columns hold after every statement of both tools and of the administration, a
  rolled-back run included. `Intact(FALSE, d)` is the schema in parts without the
  claim about the sequences (`Sound` is `Intact(TRUE, d)`): the administration's
  lemmas are about both, so that they serve the publisher, where the sequences
  are always ahead, and `Seeding`, where they are not.
* `SyncsReconcile` (`ImplementsReconciler`). `SyncInvariant` adds to the schema
  that a sync beside which nobody wrote has read what its queries still return
  (`Answers`), and that when it is done its directory and the database agree
  (`Converged`). The argument has three parts. A plan names exactly the keys on
  which directory and database disagree (`PlanNames`, from `LoadedIds` and
  `PlanCompares`). Each table's statements leave every key of that table in
  agreement and, where the order of the statements matters, the others'
  (`ImagesConverge`, `QuestionsConverge`, `WorkbooksConverge`,
  `CategoriesConverge`; the category of a workbook is settled by the last pass,
  since a tidy directory lists it once): `SyncConverges`. And agreement is
  equality under the refinement mapping (`AgreesMeans`). `ReconcilerStep` then
  goes through the actions: a query is a `Compare`, `Apply` a `Write`, a run
  that fails a `Fail` (which has written everything when the COMMIT of
  `CommitFails` went through), and everything else that writes a `Disturb`.
* `RunsConverge` (`UndisturbedRunsConverge`). For a sync this is `SyncInvariant`.
  For an import, `ImportInvariant` says that an undisturbed one has put only
  whole files into the tables it emptied (`Filled`), that the tables of the
  phases behind it are complete, and the table of its phase but for the files
  left (`ImportedSoFar`). A transaction grows that (`Grows`: `ImagesFill`,
  `QuestionFills`, `WorkbookFills`, `CategoryFills`), also when it runs again
  because the answer of its COMMIT was lost: `ON CONFLICT DO NOTHING` meets only
  rows of the same file. Complete tables of whole files are the directory
  (`FilledConverges`), and what agrees is what the API shows
  (`ConvergedServes`), for questions with one correct choice.
* `UndisturbedRunsReach` (`Reached`) of `Reconciler`, for any keys and goal, from
  the invariant that the plan of an undisturbed run holds exactly the compared
  keys that differ (`PlanIsExact`). The module instantiates `Reconciler` a second
  time, over variables of its own.

The type invariants of the accounts, of authentication and of the clients are
proved and not run again; the publisher's (`TypeOK`, with the foreign keys) is
both.

Only model-checked:

* `EveryRequestEnds` and `EveryOperationEnds`: liveness under fairness is out of
  the provers' reach, as is ENABLED.

No module with a theorem has a recursive operator.

## Not modelled

* iOS client: device ids taken over by a transfer, forms without state. Account
  portal: its requests are among those of `Accounts`, it keeps no anonymous
  data.
* Chat and contact: one call to an external service, no state. Start-up,
  logging, generated API code, admin front end, Terraform: no state of their
  own.
* Within modelled parts: reading and printing of YAML, e-mail addresses, the
  expiry of transfer tokens, the status of the app, the admin API's lists of
  users and of their answers, other tabs of the browser, and the cancellation of
  coroutines.

## Plan

1. *(done)* `Accounts` with its runs; all its safety properties proved.
2. *(done)* Android client: session, submission gate and repositories, composed
   with an abstract server; all its safety properties proved.
3. *(done)* Key cache, web and iOS clients, publisher with the content and admin
   handlers, datasync and importer, learning; all safety properties of these
   proved.
4. *(done)* `Seeding` implements `Reconciler`, and its runs converge: proved.
5. Left to model: liveness of the web and iOS clients; the cancellation of
   coroutines; an abstract account registry that `Accounts` implements and the
   clients rely on.

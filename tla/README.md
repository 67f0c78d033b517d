# ttc-back: TLA+ models, model checks and proofs

ttc-back is the server of a time-tracking and billing tool for translators: a
NestJS application with a GraphQL and a REST side, PostgreSQL (through Prisma),
Redis pub/sub for live updates, and cron jobs. This directory models the parts
of it whose correctness depends on the order in which things happen.

Two facts of the platform decide what can go wrong, and every module uses them:

- **Requests interleave at every await.** One Node process runs many handlers,
  and there may be several processes. A handler that reads a row, decides and
  then writes is at least two steps, and other handlers run between them.
- **The database protects little.** Transactions are READ COMMITTED, no query
  takes a row lock, and most writes name a row by id alone. What is left are
  single-statement atomicity, transactions that take effect at their commit,
  foreign keys, and a few unique indexes: `User.email`, `Invoice(userId, number)`,
  `Tag(userId, name)`, `OAuthAccount(provider, providerId)`, the hashes of refresh
  and reset tokens.

## Inventory

Paths are below `src/src/`.

| Component | State | Operations | What makes it correct |
|---|---|---|---|
| **Invoices** (`invoices/`) | invoice rows with number, status and dates; lines; the `invoicingStatus` mark of time entries | create, generate from a project, change status, delete, add, update and remove a line | an entry is marked exactly while one line bills it; statuses follow the table; only drafts disappear |
| **Realtime channels** (`common/realtime/`, `timer-events/`, `auth/auth-events.service.ts`) | a map from user to channel (subject, reference count, status); open event streams; the Redis subscription | connect, close, publish, deliver, subscribe replies, reconnect, shutdown | every stream is on the channel in the map; counts are exact; the subscription exists exactly while it is needed; nothing stale is delivered; nothing hangs |
| **Time entries and timer** (`time-entries/`) | entries; at most one of a user is running | start, stop, resume, update, delete, import; each publishes to the channel | one running timer; durations match; browsers end up with the stored timer; an import adds no entry twice |
| **Sessions and two-factor** (`auth/`) | refresh tokens, reset tokens, backup codes, 2FA secret and flag | login, refresh with rotation, reuse detection, logout, password change and reset, 2FA set-up, enable, disable, backup login | a code logs in once; only browsers with a reason present dead tokens; who must enter a code has a secret; new codes replace the old ones |
| **OAuth connections** (`hubspot/`, `google-calendar/`, `common/oauth-token/`) | tokens per user; a map of refreshes in flight | connect, refresh, request with retry, disconnect | the tokens are those of the last choice, unless an overtaken refresh wrote; one refresh at a time; every request ends; a dead token is not retried for ever |
| **Clients and prospects** (`clients/`) | client status, contact date, history | edit, step the cycle, cron promotion, HubSpot import | the history tells how the client came to its state; an import adds no second client of a contact; the cron moves every stale prospect and no other |
| **Tasks** (`tasks/`) | board order, checklists, subtasks, attachments | move, edit, upload, delete | an operation moves its own task and no other; a move ends where it was dropped; files and rows agree |
| **Rate sheets** (`rate-sheets/`) | sheets, one default per client | create, update, delete | one default at most, one when there are sheets |
| Projects, occupations, rates, tags | single rows | create, read, update, delete | by construction |
| Users, administration (`users/`, `admin/`) | rows of all users | edits past the owners' rules | as the edited component |
| **Clockify** (`clockify/`) | credentials | proxy, import | an import does not duplicate |
| Backup and cleanup (`common/`, `scripts/`) | backup files, expired tokens | nightly jobs | the newest backups are kept |
| Dashboard, audit, mail, storage | none of their own | queries, append-only writes, I/O | not a question of ordering |

How they interact: invoicing writes the mark of time entries and is undone by
foreign keys when an entry is deleted; the timer and the sessions publish to the
realtime channels; revoking a session closes what the browser holds; the
Clockify and HubSpot imports create entries and clients with a test that no index
backs. The components in bold but the rate sheets are modelled.
The hazards, each at its line, are in `PROJECT.json`.

## Modules

### Invoicing

One user and one project. `entries`, `billable` and `invoiced` are the time
entries as invoicing sees them; `invoice` holds the rows, `items` the lines that
bill an entry (lines of fixed fees or words change no other state); `req` is
what each handler in flight remembers. A handler is two actions:

| Handler | reads | writes |
|---|---|---|
| create | `NextNumber` | `CreateInvoice` |
| generate | `NextNumber`, `CollectLines` | `CommitGenerate` (one transaction) |
| update | `CheckTransition` | `WriteStatus` (by id alone) |
| delete, also the administrator's | `CheckDeletable` | `CommitDelete` (cascade and release) |
| addItem | `CheckInvoiceable` | `CommitAddItem` |
| removeItem | `OwnItem` | `CommitRemoveItem` |

`Abort` is any error in between, so nothing is assumed to succeed.
`CreateEntry`, `SetBillable` and `DeleteEntry` are single statements or one
transaction; deleting an entry clears the foreign key of its line.
`AdminUpdateInvoice` is the administrator's editor, which follows no table.

Three specifications: `Spec` lets everything interleave; `UserSpec` is without the
administrator's editor, under which no statement about statuses could hold;
`DisjointSpec` keeps, of `Spec`, only the behaviours in which handlers in flight
are never about the same rows (`NoContention`, `Undisturbed`), which is what a
single browser tab does. What holds only there is exactly what the code does not
protect.

Not modelled: `updateItem` and amounts (no property reads them), the clients and
projects rows, the PDF, updates without a status.

### RealtimeChannel and StreamHub

One key of one registry. `channel` is the map's entry, `stream` says which
channel object each open event stream captured, `seen` the last event written
to it. The connection is `queue` (ioredis' command queue), `taken` (how many of
them Redis has processed), `redis` (the subscription it holds), `inbox` (what it
wrote and was not read), `acked` (what ioredis restores after a reconnect) and
`settled` (promises that are settled and have not reacted). `gated` chooses the
timer's registry or the session events' one, which delivers and cleans up at
once; both are checked in one run.

Registry code is synchronous, so one action is one event of the process:
`Connect`, `Close`, `Destroy`, `ReadReply`, `ReadEvent`, `SubscribeResolved`,
`SubscribeRejected`. `RedisAccepts`, `RedisRefuses`, `Publish` and `Reconnect`
are the outside. Reading a reply and reacting to it are two steps because a
chunk may hold a reply and messages behind it: ioredis hands them all out before
the promise reacts; browsers are not served in between, hence `settled = {}` in
their guards. `ReadEvent` includes the streams that cannot be written to, whose
teardown runs inside the delivery.

`StreamHub` is what the browsers are promised, without Redis: streams are closed,
waiting or live; they go live together; an event reaches every live one or closes
it. `KeepsPromise` says that the registry implements it, with
`conn` computed from the channel's status.

### Timers

The timer of one user, as entries without an end. `entry` holds the rows with
their times and stored duration, `now` the clock, `req` what each handler in
flight remembers, `shown` the entry (or none) of the last event published, which
is what every browser shows because `RealtimeChannel` keeps the order. Times count
half seconds, so that rounding to whole seconds is visible.

| Handler | reads | writes | tells |
|---|---|---|---|
| startTimer | `FindNone` | `CommitStart` | `LogAndPublish` |
| resumeEntry | `FindNone`, `ReadResumed` | `CommitResume` | `LogAndPublish` |
| stopTimer | `FindActive` | `CommitStop` | `LogAndPublish` |
| update | `ReadEdited` | `CommitUpdate` | nothing |
| delete | `LogDeletion` | `CommitDelete` | nothing |

`CreateEntry` is one transaction. `Abort` is a handler that fails between two of
its steps, or an event that is lost (the code only logs that). Two history
variables: `missed`, what runs is not what the last event told, until the next
one does; `reopened`, the running entries whose end an edit took away.

An edit names each time or does not (`Absent`), and an end may be named as null:
repository 266 then computes with the stored end and 271 writes NULL. Such an edit
reopens its entry, beside a timer that runs already, and leaves it the duration it
had; nothing refuses that, publishes it, or tells the two entries apart afterwards.
`OneTimer` and `DurationMatches` therefore speak of what `startTimer` and
`resumeEntry` set running (`Timed`) and of entries that are not reopened: whatever
is reopened, stopped, resumed, edited and deleted, there is one such timer, and an
entry leaves `reopened` with a duration that matches.

`Spec` lets handlers interleave; `ApartSpec` keeps the behaviours
in which at most one handler is about the timer and one about each entry
(`NoContention`), which is what one person clicking produces. The difference
between the two is what the code does not protect.

Not modelled: tags, the default occupation, several users
(nothing is shared between them).

### ClockifyImport

`Timers` with imports of Clockify entries beside it; it extends `Timers` and adds the
column `clockifyEntryId` and, in `importing`, the Clockify entry that each import has
looked for and not found. `FindNoImported` is the look-up (an entry that is found
is skipped, which changes nothing), `CreateImported` the create of `Timers` with
the column set, `LeaveOut` an entry of no duration or an import that fails
there; what was created before stays, and the next import finds it.

Clients write the column too: `EditStep` is a create or an update whose input has an
id, a null, or neither (`TypeId`). `OtherStep` is everything else of `Timers`, which
sets no id and may delete imported entries. Two history variables say where an id
came from: `typed` has the entries whose id a client wrote, `raced` the Clockify
entries at which two imports were at once: both look before either creates, and no
index stops the second. `OneEntryPerClockifyId` speaks of all other entries, so it
needs no premise about who writes what; `ImportSpec` keeps the handlers of the timer
apart as `ApartSpec` does.

### Accounts

One account and the browsers that hold its refresh cookies. `refreshTokens`,
`backupCodes` with `usedCodes`, `resetTokens`, `account`, `twoFactorEnabled`,
`twoFactorSecret` and `plaintext` (a secret from before secrets were encrypted)
are the rows; `cookie` is what each browser holds, `req` what each handler in
flight remembers. An action is one statement:

| Handler | statements |
|---|---|
| login, Google callback | `Login` or `GoogleCallback`, `StoreRefreshToken`, `Answer` |
| login with a code of the app | `VerifyTwoFactor` (reads the user), `IsTwoFactorSecretEncrypted` (reads him again), `Reencrypt` if need be, `StoreRefreshToken`, `Answer` |
| login with a backup code | `MatchBackupCode`, `ConsumeBackupCode`, `StoreRefreshToken`, `Answer` |
| refresh | `FindRefreshToken`, then `DeleteRefreshToken`, `StoreRefreshToken`, `Answer`, or `RevokeAll` |
| logout, account deletion | `Logout`, `Answer`; `DeleteAccount`, `DeleteUser`, `Answer` |
| setupTwoFactor | `SetupTwoFactor` |
| enable, regenerate, disable | `BeginSettings`, `DeleteBackupCodes`, then `CreateBackupCodes` with `EnableTwoFactor` for enable, `CreateBackupCodes` for regenerate, `DisableTwoFactor` for disable |
| reset request | `RequestPasswordReset`, `DeleteUserResetTokens`, `CreateResetToken` |
| reset | `FindResetToken`, `UpdatePassword`, `DeleteResetToken` |

`PurgeExpiredResetTokens` is the nightly job; `Fail` a statement that fails, a
process that dies or an answer that is lost, between any two statements.
`opened` counts the sessions each backup code opened. `excused` holds the browsers
that may have a dead token for a reason: their sessions were ended, an answer
was lost, or they sent two requests at once. Signing in again ends the excuse.

`ApartSpec` keeps the behaviours in which no two handlers that change the
two-factor settings overlap, and no two reset requests do. The code does not enforce it:
a disable that overlaps an enable leaves two-factor on without a secret,
and two regenerations leave two batches. Everything else interleaves.

Not modelled: registration, profile and password changes (single rows), what
hashing and signatures do, expiry of access tokens.

### OAuthTokens

The HubSpot and Google Calendar connections of one user. `connection` holds the
token columns, `lock` the map of refreshes in flight, `req` the handlers,
`granted` and `alive` what the provider knows, `choice` the grant the user
connected last. A token is known by the grant it came from, and `due` says that
it is within the margin of its expiry.

| Handler | steps |
|---|---|
| callback | `ExchangeCode`, `StoreCallback` |
| disconnect | `ReadDisconnect`, `StoreDisconnect`, `Revoke` (nobody waits for it) |
| request | `ReadUser`, `Refresh` (starts one or joins one), `CallAnswered`, `TooManyRequests` |
| refresh | `TokenAnswer`, then `StoreRefreshed`, `HandleRejected` or `RefreshFails`; `Settle` releases the lock and lets those that wait go on |

`TokenDue`, `Withdraw` (a consent is withdrawn at the provider), `Fail` and
`Restart` (locks and handlers are gone, rows stay) are the surroundings. The two
providers differ: Google may leave a refresh token out, and only its service
forgets rejected tokens.

Callbacks and disconnects overlap refreshes as they like. `onSuccess` (hubspot.service.ts
252, google-calendar.service.ts 230) and `onFailure` write by user id alone, so a
late success brings a disconnected account or the connection before a new one
back, and requests that read those tokens carry them on. `overtaken` has the
refreshes during which the user chose anew, `late` the providers whose tokens such
a refresh has written since the last choice; `StoredIsChosen` speaks of all others:
nothing else, a joined refresh, a restart or a lost answer included, stores what
the user did not choose, and the next connect or disconnect makes an end of it. A late
rejection clears a fresh connection at Google, which `StoredIsChosen` allows.

### Clients

The clients of one user. `client` holds the rows, `today` the day, `cron` where
the nightly run is, `request` the handlers. `history` says, of the entries of a
client, where they lead and whether each starts where the one before it ended;
`Torn` is a history one of whose entries could not be written.

| Handler | statements |
|---|---|
| create, delete | `Create`, `Delete` |
| administrator's create, update | `AdminCreate`, `AdminUpdate` (of a client, its HubSpot id) |
| HubSpot import | `ImportFromHubspot`, `ImportCreates` |
| update | `UpdateReads` (with the step of the cycle), `UpdateWrites`, `UpdateLogsStatus`, `UpdateLogsContact`, `UpdateFails` |
| cron | `CronFinds`, `CronPromotes`, `CronLogs`, `CronFails` |

`Creates` and `Updates` are the inputs that users send; both may have a HubSpot id, any
date and any status, and leave fields out (`Keep`). `typed` has the clients whose
id somebody wrote by hand, `raced` the contacts at which two imports were at once.
README.md:227 of the repository calls the import "idempotent by `hubspotId`";
`OneClientPerContact` says how far that goes: an import adds no second client for
an id that only imports wrote, unless two of them overlapped, which no index
prevents. It needs no premise.

`ApartSpec`, for the other properties, lets no two edits of one client overlap, nor
an edit and a cron run that found the client. Imports, deletions and the
administrator interleave with everything.

Not modelled: the contacts of a company, tags, list queries.

### Board and TaskBoard

`Board` is what users are promised: tasks stand in columns, an operation changes
the place of its own task only, and a move that another change overtook may
mix up the order within columns but takes no other task out of its column.

`TaskBoard` is the code. A column is a project and a status; an update may write
both, a move keeps the project it read and writes only the status, so a task whose
project an update changes meanwhile ends in the column of that status in its new
project (`MovedToPosition` says so). `task` holds the committed rows, `lock` the row locks,
`request` what each transaction read, wrote and has still to write. `Create`,
`Update` and `Delete` are single statements. A move is a READ COMMITTED transaction,
one action per statement: `MoveBegins`, `MoveReadsTarget`, `MoveWritesStatus`,
`MoveRenumbers` for each row of the target column, `MoveReadsSource`,
`MoveRenumbers` again, `MoveCommits`; `MoveFails` rolls a transaction back at any
point, and `MoveAborts` is PostgreSQL doing so to end a deadlock, of any length.
A statement reads the committed rows under those of its own transaction (`View`)
and waits for a locked row. `Sorted` is what ORDER BY returns: the one sequence
of a set of rows that is ordered by (sortOrder, id). `ImplementsBoard` is the
refinement, with the board computed from the rows; `overtaken` is the history
variable that says whether the board changed since a move began.
There is no assumption that keeps moves apart.

Not modelled: checklists, attachments, labels, comments, the activity feed.

### MC modules and proof modules

`MCInvoicing`, `MCTimers`, `MCClockifyImport` and `MCAccounts` add the symmetry sets;
`MCRealtimeChannel` adds nothing, as its run checks liveness; `MCOAuthTokens`, `MCClients` and `MCTaskBoard` the inputs. `InvoicingProofs`,
`RealtimeProofs`, `TimersProofs`, `ClockifyImportProofs`, `AccountsProofs`,
`OAuthTokensProofs`, `ClientsProofs` and `TaskBoardProofs` hold the theorems.
Operators named `X_Something`, each with a
comment that begins with "Mutant", are slips a change of the code could
introduce; the specifications do not use them. They show that each property
would notice.

## Runs

| Run | Bounds | Shows |
|---|---|---|
| `InvoicingDisjoint` | 2 handlers, 2 entries, 2 invoices, 2 lines, numbers to 2, administrator | `Ledger`, `TransitionsFollowMap`, `OnlyDraftsDeleted`, `TypeOK` while handlers keep apart |
| `InvoicingConcurrent` | 2 handlers, 1 entry, 2 invoices, 2 lines, numbers to 3 | `IssuedBeforePaid`, `NeverDraftAgain` in every interleaving |
| `InvoicingOvertaken` | 1 invoice | violated: two updates overtake each other |
| `InvoicingDoubleBilling` | 1 invoice, 1 entry, 2 lines | violated: an entry is billed twice |
| `Realtime` | 3 browsers of which 2 are admitted, 3 channel objects, 1 refusal, 1 lost connection, at most 3 commands pending when a channel is made, 2 replies or messages waiting when an event is published | `StreamsOnChannel`, `ActiveIsSubscribed`, `NoStaleEvent`, `SubscriptionAgrees`, `KeepsPromise`, `TransitEnds`, `TypeOK` |
| `TimersApart` | 2 handlers, 2 entries, 3 half seconds of clock, resumed entries start within them | `OneTimer`, `DurationMatches`, `ShownIsStored`, `ResumeKeepsTime`, `TypeOK` while handlers keep apart |
| `ClockifyImport` | 2 imports, 1 handler, 2 entries, 2 Clockify entries, 1 half second of clock | `OneEntryPerClockifyId`, `ImportTypeOK`, beside clients that write ids of their own |
| `Accounts` | 2 handlers, 2 browsers, 3 refresh tokens, 2 batches of backup codes, 2 secrets, 2 reset tokens | `CodeOpensOneSession`, `NoFalseAlarm`, `EnabledHasSecret`, `OneGeneration`, `TypeOK`; any statement may fail |
| `OAuthTokens` | 2 requests, both providers, 2 grants, 1 retry, restarts | `LockHeldByRefresh`, `StoredIsChosen`, `RequestsEnd`, `DeadGrantNotRetriedForever`, `TypeOK`, in every interleaving |
| `Clients` | 2 clients of which one is edited, 1 contact, 2 requests, 3 days, a wait longer than 1 day | `HistoryTells`, `OneClientPerContact`, `PromotedWasStale`, `StaleFollowUpMoves`, `TypeOK` |
| `TaskBoard` | 3 tasks, 2 projects with 2 statuses, created in one project and edited into both, 2 moves in flight, 2 changes besides creating the tasks | `ImplementsBoard`, `MovedToPosition`, `MovesEnd`, `TypeOK` |
| `TimersOvertaken` | 2 handlers, 2 entries, 1 half second | violated: two starts leave two timers |

Why the bounds are enough. Invoicing: a conflict takes two handlers; a stale
line takes one more entry or invoice than the handlers touch. Realtime: an overlap takes a channel being torn
down, its successor and the successor's successor, which is also the one a late
promise of the first finds; two streams per channel tell "last stream" from "a stream", the
third browser meets the limit. Timers: two entries make a second running
timer possible, three half seconds let a duration round both up and down and be
carried over by a resume; two imports and two rows are what a duplicate takes, and
the second Clockify entry is the one an edit may retype. Edits give times that have passed and keep the start
before the end. Accounts: a backup code is contended by two logins, a rotation by a
second refresh, and a third token is one that nobody holds while the two
browsers hold theirs. OAuth: two requests share one refresh, and the second
grant is the reconnect that overtakes a refresh of the first. Clients: an
edit and the cron, or two imports, meet; the second client shows that a cron
run treats clients apart, and three days let either date be the newer one.
Tasks: two moves lock rows in opposite orders and overtake each other; three
tasks are a column in which the one that moves has neighbours; two changes are
two moves, or one and an edit that takes a task into the other project.

Deadlock is checked for Invoicing, Realtime, Timers and OAuth, where there is
always a next request. In `Accounts` an account may be deleted and the cookies
be gone, in `Clients` the ids run out and in `TaskBoard` the bound on changes is
reached: these runs may stop, and their liveness properties say what must
happen before.

The three violations are findings, not properties of a broken model: in each, the
code tests rows it read and then writes without a lock or a condition.
README.md:190 and the integration tests quoted in `PROJECT.json` say otherwise. The comment at
`realtime-channel-registry.ts:10` says that an entry leaves the map when
UNSUBSCRIBE has resolved; the code removes it before it sends the command, which
the model follows and which turns out to be what makes `StreamsOnChannel` hold.

What the code allows and the properties therefore leave out: an edit
with a null end reopens an entry beside a running one and keeps its duration; two
imports of one Clockify entry, or of one contact, at once create it twice (for
contacts against README.md:227), and hand-typed ids are not tested; a late refresh brings an old connection back. Each of them is in
the model, told apart by a history variable (`reopened`, `raced`, `typed`,
`late`), so that everything around it is still checked.

Three limits of the realtime code are visible as premises. After an error reply
or during shutdown `SubscriptionAgrees` is not claimed: a refused SUBSCRIBE
leaves an ungated channel in the map without a subscription (the comment at
lines 145-146 accepts it), a refusal of a superseding SUBSCRIBE leaves the
earlier one behind, and so does a shutdown while subscribing.

## Fairness

`Realtime`, for `TransitEnds`. Weak fairness of `RedisAccepts`: Redis answers
what it is sent (a refusal instead needs the bounded budget). Weak fairness of
reading and of promise reactions: the Node event loop serves its socket and its
microtasks. Nothing is assumed of browsers, publishers or the network; losses of
the connection are bounded by `MaxDrops`, because a connection that is lost for
ever answers nothing.

`OAuthTokens`. Weak fairness of the steps of a handler: Node runs whatever is
ready, and a call to a provider answers or times out. Strong fairness of
`HandleRejected` at Google, for `DeadGrantNotRetriedForever` alone: not every
rejection is cut short by a restart or a row that cannot be written.

`Clients`. Weak fairness of a handler's steps. Strong fairness of `CronFinds`
and `CronPromotes`, weak of the end of a run: the cron runs every night, and not
each of its runs fails.

`TaskBoard`. Strong fairness of a transaction's steps: a transaction that is
again and again able to go on, because the row it wants is unlocked, does so.

## Proofs

Proved by TLAPS for every value of the constants:

| Theorem | Says | Argument |
|---|---|---|
| `TypeCorrect` | `Spec => []TypeOK` | inductive as it stands; one step per action |
| `LedgerHolds`, `LedgerInDisjointRun` | `Ledger` under specifications in which handlers keep apart | the inductive invariant adds to `Ledger` what each handler's memory still says of the tables (a removal remembers the entry of its line, a deletion those of its invoice, an addition or a generation entries that are not marked); `NoContention` keeps other handlers from making it stale |
| `PaidWasIssued`, `DraftNeverComesBack` | `IssuedBeforePaid`, `NeverDraftAgain` in every interleaving (`UserSpec`) | the status a handler is about to write was allowed from a status the invoice had, so a remembered SENT or CANCELLED needs nothing, and a remembered PAID or OVERDUE implies that `issuedAt` is already set |
| `RealtimeTypes` | `Spec => []TypeOK` | with `StreamsOnChannel`, which bounds the counts from below |
| `StreamsStayOnChannel` | `Spec => []StreamsOnChannel` | inductive with the types; the counts are cardinalities, so finite sets are the main tool |
| `SubscriptionFollowsMap` | `Spec => []SubscriptionAgrees` | `AgreeInv`: Redis holds what the last command it processed asks for, and the last command in the queue asks for what the map has |
| `ActiveChannelsAreSubscribed` | `Spec => []ActiveIsSubscribed` | `WireInv`: waiting replies belong to the commands in front of the queue, and the last of them and the events behind it tell what Redis holds. `BackedInv`: an active channel has an empty queue and its own subscription; any other has its SUBSCRIBE as the last command or its promise settled |
| `EventsAreFresh` | `Spec => []NoStaleEvent` | with `WireInv` and `BackedInv`: an event read while the channel is active is of its subscription |
| `TransitIsAwaited` | `Spec => []NothingForgotten`: a channel between subscribing and active, or in cleaning, has its promise settled, or its SUBSCRIBE as the last command and a command to process or a reply to read; and what is in the inbox can be read | `WireInv` numbers the waiting replies by the processed commands one to one, so that one processed command means one waiting reply; `Answered` in `BackedInv` says that a channel without a command in the queue has its settlement. The safety half of `TransitEnds` |
| `RegistryImplementsHub` | `Spec => KeepsPromise` | each action maps to a `StreamHub` action or a stutter, given `StreamsOnChannel` |
| `TimerTypes` | `Spec => []TypeOK` | with `TimesKnown`: the times a handler writes are those it was given or computed |
| `TimerIsOne`, `DurationsMatch`, `ShownTimerRuns` | `ApartSpec => []` of `OneTimer`, `DurationMatches`, `ShownIsStored` | `ApartInv` adds what each handler's memory still says of the rows (`MemoryHolds`: a start or resume, that nothing runs but reopened entries; a stop, that its entry does and its duration fits; an update, that its duration fits what it will leave, a null end included) and `ReopenedHolds` (a reopened entry runs and has a duration); `MemoryKept` shows that another's write does not disturb it, `ReadStep` and `WriteStep` do the rest |
| `ResumedKeepsTime` | `ApartSpec => ResumeKeepsTime` | from `ApartInv`: the start was computed so that the duration fits, and `Seconds` grows with the clock |
| `ImportKeepsTimer`, `TimerIsOneBesideImports` | `ImportSpec => ApartSpec`, hence `OneTimer` and all that is proved of `ApartSpec` beside imports | each step of an import is a create of `Timers` or leaves its variables alone, and so is each create or edit whose input has an id |
| `EntryImportedOnce`, `ImportTypes` | `ImportSpec =>` `[]OneEntryPerClockifyId`, `[]ImportTypeOK` | `ImportInv`: an id without a row has no Clockify id and is not typed, two imports at one Clockify entry are in `raced` (`RacesKnown`), and what an import that is alone looked for no import has made meanwhile (`StillMissing`) |
| `StatusFollowsTable`, `DraftsAreDeleted` | `DisjointSpec =>` `TransitionsFollowMap`, `OnlyDraftsDeleted` | `ReadInv`: what a status change or a deletion read of its invoice still holds when it writes, because `NoContention` keeps every writer of that row out |
| `AccountTypes` | `Accounts!Spec => []TypeOK` | `TypeInv` adds what the op of a handler says of its browser, token and item |
| `CodeIsUsedOnce` | `Spec => []CodeOpensOneSession`, in every interleaving | `CodesInv`: a stored code that is not used opened no session, and only consuming, which tests that, counts up |
| `SecretIsThere`, `OneGenerationAtATime` | `ApartSpec =>` `[]EnabledHasSecret`, `[]OneGeneration` | `SettingsInv`: an enable in flight keeps the secret it saw, as no disable is; a create in flight has an empty table |
| `NoFalseAlarms` | `Spec => []NoFalseAlarm` | `AlarmInv`: tokens are held by one browser or one handler (`TokensApart`), and a browser without an excuse has at most one request, whose stage says whether its cookie is stored (`InOrder`) |
| `TokenTypes`, `LockIsHeld` | `[]TypeOK`, `[]LockHeldByRefresh` of `OAuthTokens`, in every interleaving | `LockInv`: those that wait do so under a held lock |
| `ChosenIsStored` | `Spec => []StoredIsChosen`, in every interleaving | `ChosenInv`: a refresh that nothing has overtaken, of tokens no late one wrote (`InTime`), has the grant chosen last |
| `ClientTypes` | `Clients!Spec => []TypeOK` | inductive as it stands |
| `ContactImportedOnce` | `Spec => []OneClientPerContact`, in every interleaving | `ContactInv`: while an import is in flight, no client whose id is not typed has its contact, or another import was at it |
| `OnlyStaleArePromoted` | `ApartSpec => PromotedWasStale` | `StaleInv`: what the cron found is still stale or gone |
| `HistoryIsTold` | `ApartSpec => []HistoryTells` | `TellsInv`: a history that is not torn lags behind its row by exactly the entries that its edit or the cron has still to write |
| `TaskTypes` | `TaskBoard!Spec => []TypeOK` | inductive as it stands: what a transaction wrote it has locked |
| `RowsImplementBoard` | `Spec => ImplementsBoard`, in every interleaving | `MoveInv` (below); a step that keeps the column and the order of all tasks but one is a `Put` or `Take` of that one (`BoardMoves`), because a set of rows has one list (`SortedLists`, `OneList`) and a list without a task lists the others (`LessLists`) |
| `MovesToPosition` | `Spec => MovedToPosition`, in every interleaving | by `MoveInv` the list that a move renumbers has its task at the place the user chose, and rows numbered along a list are sorted into that list (`FullyRenumbered`, `ListIsSorted`); `TargetInv`: a task that stands is written with its new status, in the project it has (`DroppedIn`), from `MoveWritesStatus` on, and no other write of the transaction takes it back |
| `MovesNotStuck` | `Spec => []SomeMoveGoesOn`: while moves are in flight, one of them finds what its next step asks for or waits in a circle that PostgreSQL breaks | a move waits for one row only and its holder is in flight (`TypeOK`); the holders of rows are finitely many, and a smallest set of them in which each waits for another is a circle (`CircleExists`). The safety half of `MovesEnd` |

`MoveInv` follows a move statement by statement. Always: what the transaction
wrote, it holds the lock of, and except for its own task it wrote no new status
(`WritesOwnStatus`), which is why even an overtaken move takes no other task out
of its column. As long as nothing has overtaken it: when the column is read,
the remembered list has everybody in order and the task where it was
dropped (`Planned`); while it renumbers, the first `next` rows of the list have the
places 0, 1, ... and every other column has its order (`Renumbering`, for the
target column in `AtTarget`, for the source column in `AtSource`, where the target
column is done). `ImplementsBoard` and `MovedToPosition` alone are not
inductive: they speak about commits, and what a commit publishes was decided
several statements before.

Assumed: `BoundAssumption` and `NoneAssumption` in `Invoicing` and `Timers`, in
`Timers` also `AbsentAssumption`;
finitely many clients, `Gated` a set of truth values, natural bounds and a `None`
that is no subject in `RealtimeChannel`; `NoneAssumption` in `Accounts`;
`ProviderAssumption`, `RetryAssumption`, `NoneAssumption` in `OAuthTokens`;
`ClientsAssumption` in `Clients`; a `None` and an `Absent` that are no Clockify
entries in `ClockifyImport`; `BoardAssumption` (finitely many tasks, ids are numbers) and
`NoneAssumption` in `TaskBoard`. TLC evaluates all of them.

Only model-checked: liveness (`TransitEnds`, `RequestsEnd`,
`DeadGrantNotRetriedForever`, `StaleFollowUpMoves`, `MovesEnd`), which is out of
the prover's reach; of `TransitEnds` and `MovesEnd` the theorems `TransitIsAwaited`
and `MovesNotStuck` give the part without fairness, that what is waited for never
ends up with nobody to bring it. Every safety property that a passing run checks
is a theorem.

## Not modelled

- **Amounts**: the decimal arithmetic of lines and totals, and `updateItem`, which
  reads and writes nothing else.
- **Rate sheets**: two creates at once, or a default sheet that moves to another
  client, leave two defaults; the code promises nothing in these cases, and one
  after the other its statements say what they do.
- **Checklists, attachments**: each is one read and one write of a row, or a file
  and a row in an order that leaves no row without its file.
- **Projects, occupations, rates, tags, users, most of the administration**: rows
  that are created, edited and deleted one at a time.
- **Dashboard, audit, mail, storage, backups, guards, the Clockify proxy**: queries,
  append-only writes and I/O without state of their own.
- Generated code, migrations, and the tests, which are read as statements
  about the code.

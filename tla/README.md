# PeopleCore API: formal models

TLA+ modules that model the PeopleCore API (a NestJS application: SQL and Mongo
models, Stripe subscriptions, chat over sockets, queued jobs), the TLC
configurations that check them on small instances, and theorems about them that
TLAPS proves for every value of the constants.  Definitions are translated from
the source; `PROJECT.json` names, for each of them, the lines it stands for.
Paths below are relative to the root of the repository.

## 1. Inventory of the system

The API runs as a cluster (`ecosystem.config.js`: one process per core).  Every
instance answers HTTP requests, keeps its own sockets and runs its own cron jobs;
only the primary instance (`NODE_APP_INSTANCE` 0) listens to the job queue.  All
of them share the SQL database, Mongo, Redis and Stripe.  All code is `async`
JavaScript: within an instance a handler runs undisturbed from one `await` to the
next, and at each `await` any other handler may run.

| Component | State it keeps | Operations | Talks to | What is hard | What makes it correct |
|---|---|---|---|---|---|
| Subscriptions (`src/modules/sql/subscription`) | one row per Stripe subscription | webhook handlers, checkout, cancel, reactivate, chat access check, two nightly jobs | Stripe, record service, notifications | webhooks concurrent, repeated, out of order, never retried; read-then-save updates; two senders of the same mail | the row follows Stripe, access follows payment, mails are sent once |
| Record services (`libs/sql`, `libs/mongo`) | tables, history, trash | create, update (read, then save of the changed columns), bulk update, find or create, delete | databases | errors are returned as values callers drop; check-then-act; history and trash not awaited | an update loses no other column's change; one row per unique key |
| Chat (`src/modules/sql/chat`, `chat-message`) | chats, messages, read marks | find or create a chat, send, read all, count unread | record service, job queue | first messages at the same time; a read racing a new message; a stored message whose job is lost | one chat per pair; a read receipt is true; a message reaches its reader |
| Job queue (`src/core/modules/ms-client`, `core.job.ts`, `job-log`) | job log, Redis channel | `executeJob`, `jobDone`, `jobDoneMulti` | Redis, every listener | publish without subscriber loses the job; listener throws; lost update in `jobDoneMulti` | the log says what happened |
| Sockets (`app.gateway.ts`, `socket-state`, `redis-propagator`, `socket-event`) | sockets per user and instance | connect, disconnect, propagate, list online users | Redis, job queue | several instances, several devices, order of events | an event reaches each device of its user once |
| Sessions and one-time codes (`auth`, `session`, `caching`, `login-log`, `otp-session`) | login sessions, black list cache, codes with their tries | log in, refresh, log out, send, verify, reset | Mongo, Redis, notifications | concurrent tries and logouts (read, then save); expiry between two steps | a closed session stays closed; tries are bounded |
| Notifications (`notification`) | none | one job becomes one mail job per user, or a push | job queue, mail, Firebase | failure half way | each user is notified once |
| Users, newsfeed, CRUD modules | rows | create, read, update, delete, visibility rules | record service | uniqueness checks before inserts | visibility is what the rules say |
| Seeders (`libs/*/src/seeder`, `src/seeds`) | none: they look at the tables | seed each model at boot: never, once, create, update, delete, truncate | SQL, Mongo | a crash half way; failing calls passed over; requests meanwhile | no item twice; a calm boot repairs |
| Scheduled tasks (`modules/mongo/task`) | task records and the cron registry | schedule, reschedule, delete | Mongo | record and registry updated separately | the registry matches the records |
| Client libraries (Stripe, mail, SMS, Firebase, geocoding), request plumbing | none | single calls | third parties | - | - |

The components, with their status, and the hazards, with the line where each one
bites, are listed in `PROJECT.json`.

## 2. Plan

Done:

1. `Subscription`: the component with the most control flow and the most at
   stake; theorems in `SubscriptionProofs` and `MirrorProofs`.
2. `Jobs`, `Sockets`, and `Chat` that composes them: job log and Redis channel,
   socket state and propagation, chats, messages and receipts; theorems in
   `ChatProofs` and `OrderProofs`.
3. `Records` with `SqlRecords` and `MongoRecords`, composed in `RecordServices`:
   the two record services as jobs over one table, with history and trash.
   `Store` is what a service promises, and `ImplementsStore` that both keep it;
   theorems in `RecordsProofs`.
4. `Seeder`: the seeders of both databases, with boots, crashes and requests;
   theorems in `SeederProofs`.
5. `Handlers` with `Sessions`, `OneTimeCodes`, `UserAccounts` and
   `Notifications`, composed in `Accounts`: sign-in, codes, users, and the mails
   and pushes that follow; theorems in `AccountsProofs`.
6. `Controllers` and `Resources`: the routes of the CRUD controllers, over
   `SqlRecords`; theorems in `ResourcesProofs`.

Every safety property that a passing run checks is now also a theorem.  Left:

7. Firebase sign-in, and `POST /subscription` as a step of `Subscription`.

## 3. What is modelled now

### `Subscription`

Stripe is the environment: it starts, renews, fails, recovers, ends and refunds
subscriptions, and puts an event with a snapshot of the subscription into
`pending` for each change.  `rows` is the table (the columns any decision reads),
`born` the order of insertion (`created_at`), `task[p]` what the process `p`
holds between two awaits.  A process is a webhook request, a user request or an
instance of the nightly job; each of its actions is the code between two awaits:

| Code | Actions |
|---|---|
| `handleWebhook`, `handleStripeWebhook` | `Deliver`, the dispatch in `Handle` |
| `handleSubscriptionCreated` | `SubscriptionCreated` or `FindBeforeCreate`, `CreateRow`, `SendCreatedMail` |
| `handleCheckoutCompleted` | `CheckoutCompleted`, then as above |
| `handleSubscriptionUpdated` | `SubscriptionUpdated`, `UpdateRead`, `UpdateSave`, `SendExpiringMail`, `SendCancelledMail` |
| `handleSubscriptionDeleted` | `SubscriptionDeleted`, `UpdateRead`, `UpdateSave` |
| `handleInvoicePaid`, `handleInvoicePaymentFailed` | `InvoicePaid`, `InvoicePaymentFailed`, `FetchSubscription`, then the create or update steps |
| `handleChargeRefunded` | `ChargeRefunded`, `UpdateRead`, `UpdateSave` |
| `SqlService.updateRecord` | `UpdateRead`, `UpdateSave`, which writes the changed columns only (`Saved`) |
| `createCheckoutSession` | `Checkout` |
| `cancelUserSubscription`, `reactivateUserSubscription` | `StartRequest`, `RequestStripe`, the update steps |
| `sendExpirationNotifications` | `CronList`, `CronNext`, `SendExpiringMail`, the update steps |
| `markExpiredSubscriptions` | `MarkExpired` |
| `checkChatAccess`, `isSubscriptionActive`, `getUserSubscription` | the operators `ChatAccess`, `SubscriptionActive`, `IsLatest` |

`CallFails` makes any call in progress fail, with what the code makes of it
(`AfterFailure`); `Crash` kills a process, and Stripe delivers its event again.
`Checkout` checks the user and opens the session in one step: an open session may
be paid at any later time, so nothing is lost by it.

Two constants say which shape Stripe's objects have.  `HookLegacy`: webhook
objects carry `current_period_end` and `invoice.subscription` (the webhook
endpoint's API version).  `FetchLegacy`: objects read through the client do.  The
client pins `2025-08-27.basil` (`libs/stripe/src/stripe.service.ts:11`), in which
they do not, and the code has a branch for each.

Left out: the generic routes of `/subscription`.  Those by `:uid` answer that the id
is missing (`UidRoutesWork` below), but `POST /subscription` lets any signed-in user
insert a row with a Stripe id and statuses of their own (the `ValidationPipe` drops
user, period and amounts, so that the row gives nobody access).  The properties and
theorems of this component are about tables that only handlers insert into; a row of
that route would be one the handlers of its subscription find and have not made.
Left out, too: the mails whose sending changes nothing here (renewed, payment failed),
amounts and prices, metrics and history queries, the events that only log
(`charge.dispute.created`, `payment_intent.payment_failed`), the statuses
`unpaid`, `incomplete` and `incomplete_expired`.

### Properties

- `TypeOK`.
- `CreatedMailOnce`: a subscription is announced once, though three kinds of event
  lead to the insert.  It rests on the unique column and on the insert coming
  before the mail.
- `AccessIsBilled`: chat access never outlasts what was billed, in whatever order
  the webhooks are handled.
- `OnlyLabelledStored`: no webhook handler stores a subscription whose metadata names
  no user, on any of the four handler paths that insert a row, whatever fails.  It
  says nothing of `POST /subscription`.
- `MirrorsWhenSettled`: with events in order, once all are handled the row agrees
  with Stripe on everything chat access depends on, but for the nightly job's
  `expired`.  It takes that no call fails (a failed update is dropped, the webhook
  is answered 200 and not sent again), that nothing is refunded (a refund ends the
  row and not the subscription), that the client reads objects of the pinned
  version (an older one would make `invoice.paid` of a trial store `active`), and
  that users make one request at a time: of a cancel and a reactivate that overlap
  the one whose call to Stripe came first may save its row last.
- `CanceledIsFinal` (action property): once the end of a subscription has been
  handled, no request that read the row before and saves it now brings it back.
  (Before that the row may read `canceled` and become `active` again for a moment:
  `handleInvoicePaymentFailed` stores Stripe's newest status, and an older
  `updated` event follows.)  It does not say that an `updated` event that is handled
  only after `deleted` leaves the row alone: such an event is still pending, and
  `AccessIsBilled` is what holds then.
- `WarningsPerSender`: each sender warns of an expiry once, and only a crash or a
  failed update between a warning and its mark adds one.  The senders are the
  cron instances and the handlers that may run at once: one when events come in
  order, else all of them.
- `EventuallyStored` (liveness): any two calls may fail, and a new subscription
  is stored all the same, because four handlers would insert it.
- `PaidMeansAccess`: what a comment of the code says and the run `Paid` refutes.

### Runs

| Run | Instance | Shows |
|---|---|---|
| `Unordered` | 1 subscription, 2 workers, 5 events, 2 days, one repeated delivery, one crash, refunds | any two events overlap and overtake each other: `CreatedMailOnce`, `AccessIsBilled` |
| `InOrder` | 1 subscription, 1 worker, a user request, 7 events, 2 periods, a crash | `MirrorsWhenSettled`, `CanceledIsFinal` |
| `Nightly` | 1 subscription, 1 worker, 2 cron instances, 5 events, a failing call, a crash | `WarningsPerSender` |
| `Lossy` | 2 subscriptions (one without metadata), 2 workers, two failing calls, fairness | `EventuallyStored`, `OnlyLabelledStored` |
| `Paid` | 1 subscription, 1 worker, a cron instance, 5 events, no faults | violated: a renewal's update reads the row while it is `active`, the nightly job sets `expired`, and the save leaves the unchanged status out |

Bounds: `MaxEvents` = 5 is a start (three events) and one further change with its
two events, so that the handlers of a start and of a renewal overlap; 7 adds a
second change, so that a failed renewal recovers or is given up.  `MaxNow`
covers one period of `Period` days and a day after it.  Two workers are enough
for each race between two handlers; a third meets the same row states, as every
handler reads and writes one row.  The warning windows of 3 and 7 days become
`HookDays` = 1 and `CronDays` = 2, which keeps their order.  `PageLimit` is the
code's 10 and not reached.

Fairness (`Lossy` only): Stripe goes on delivering pending events, and a process
in the middle of something goes on (the event loop resumes every settled
promise).  Users, Stripe's changes, faults and time are not forced.

### `Jobs`, `Sockets`, `Chat`

`Jobs` is the queue: `executeJob` logs a job and publishes it on a Redis channel.
The transport is Redis pub/sub (`src/config/ms.ts`), which keeps nothing, and only
the primary instance listens (`src/main.ts:79`): a job that arrives while the
primary is down is lost, and its log stays Pending.  `channel[i]` holds what
instance i has emitted and the primary has not received: one connection, first
in, first out.

`Sockets` has the devices (`at`), the events published to the instances
(`inbox[i]`) and what each device has received since it connected (`got`).
`HandleJob` is the listener of the primary with `SocketEventService`, which turns
a job into events, `ConsumeSendEvent` the subscriber of an instance.

`Chat` extends both and holds the requests, the tables and the next-state
relation:

| Code | Actions |
|---|---|
| `findOrCreateChat`, `sendMessage` | `StartSend`, `FindChat`, `CreateChat`, `StoreMessage`, `Execute` (once for each job) |
| `readAllMessages` | `StartRead`, `MarkRead`, `Execute` |
| `executeJob`, `jobDone` | `ExecuteJob` in `Execute` and the socket messages; `HandleJob` in `Job`, `JobDoneFails` |
| `AppGateway` | `SocketMessage` (message, typing, online users), `Come`, `Go` |
| `SocketEventService`, `RedisPropagatorService` | `EventsOf`, `PropagateEvents`, `Consume` |
| a database call that fails | `CallFails`: a failed find reads as no chat, a failed update of read marks and a failed `executeJob` go unnoticed |
| pm2 (cluster, autorestart) | `Crash`, `Restart` |

The insert into the log and the emit after it are one step: nobody reads the log
in between, and a crash there equals a crash that loses what was just emitted.
The lists of a device (`got`) and two fields (`late` of a request, `upto` of a
receipt) are not in the code; they are what the properties compare.

Left out: the delivery of a push notification after its job is taken; deleting
and editing chats over the generic routes; rooms and roles, which nothing calls;
the unnamed event the interceptor of the gateway sends to the other devices of a
user after each socket message; tokens and access checks of requests (the chat
guard is `ChatAccess` in `Subscription`).

Properties:

- `TypeOK`, which includes that a message belongs to a chat of its two users.
- `PushedToItsEnds`: whatever a device receives concerns its user, and a message
  it receives is stored.
- `InOrderOnce`: as long as a device stays connected, it receives what one
  instance emits in order and once, a message to oneself twice.  Nothing orders
  two instances, and a device that reconnects to an instance that lags may see
  old events again; the property says neither.
- `LateRequestsReuse`: a second chat of a pair needs a race or a failed find.
- `ReadOnlyByReader` (action property): only a reader's own request marks a
  message, in that chat, and the mark stays.
- `ReceiptCovered`: behind a receipt, the messages there when the update ran are
  read.
- `MessageReachesEnds` (liveness): a stored message reaches the devices of both
  users that stay connected, unless an instance dies or a call fails.  It exempts
  every crash and failed call, as nothing makes up for a job that is lost.

| Run | Instance | Shows |
|---|---|---|
| `ChatUpsets` | all requests and socket messages, 2 of them, one request at a time, one disconnection, failed call or crash, two instances, fairness | `TypeOK`, `PushedToItsEnds`, `InOrderOnce`, `MessageReachesEnds` |
| `ChatRaces` | 3 requests and socket messages of both users, messages to oneself, two requests at a time, one instance, no faults | `LateRequestsReuse`, `ReceiptCovered`, `ReadOnlyByReader` |

Bounds: in `ChatRaces` every step of a request may fall between two steps of another:
two first messages that each find no chat, a message stored between the update of read
marks and its receipt, a reader's update while the other side reads or writes.  The
third request is one that begins late, when the first two have made a chat.  Faults
would multiply these orders beyond what TLC can finish; with faults the
properties are theorems (`LateCorrect`, `ReceiptsCorrect`, `ReadCorrect`,
`OrderCorrect`), for any number of requests at a time.  In `ChatUpsets` one request is at
work at a time, beside socket messages and the jobs and events of earlier ones, and only
one user writes; a message to oneself, which arrives twice, is in `OrderCorrect`.  Two
instances are the primary and another; two users are the ends of one chat.  One
upset at a time is enough to lose any job or event, and reconnections are not
bounded.  Fairness (`ChatUpsets`): a request under way goes on,
Redis delivers, pm2 restarts; nobody has to ask for anything.

### `Records`, `SqlRecords`, `MongoRecords`, `RecordServices`, `Store`

Every module of the API keeps its rows through `SqlService` or `MongoService`.
`Records` has what both share: one table (`rows`), jobs that each make one call
(`req`, `pc`, `copy`: the row read before an await), the entries for the History
and Trash collections on their way (`logs`) and there (`kept`).  `backend` says
which of the services the model uses.  A row that was deleted for good is `gone`,
or `swept` when a bulk delete did it, which keeps nothing of it.  `answer`,
`shown`, `made` (the parts of the request that took effect) and `before` (the
jobs that had ended when this one began) are what the properties compare.

| Code | Actions |
|---|---|
| `SqlUniqueValidator`, `MongoUniqueValidator` (`@IsUnique`) | `SqlValidate`, `MongoValidate` |
| `createRecord`, `createBulkRecords` | `SqlCreate`, `SqlCreateBulk` (one statement), `MongoCreate`, `MongoCreateBulk` (a save for each document) |
| `updateRecord`, `findAndUpdateRecord` | `FindAmong`, then `SqlSave` (the changed columns, by id; no error when the row is gone) or `MongoSave` (an error then) |
| `updateBulkRecords`, `deleteBulkRecords` | `SqlUpdateBulk`, `MongoUpdateBulk`, `SqlDeleteBulk`, `MongoDeleteBulk` |
| `getAllRecords`, `countAllRecords`, `findRecordById`, `findOneRecord`, aggregation | `ShowPage`, `Show`, `ShowOne` |
| `deleteRecord`, `findAndDeleteRecord`, `restoreRecord` | `FindAmong`, then `SqlDestroy`, `MongoRemove`, the second step of `SqlRestore`, `MongoRestore` |
| `findOrCreate`, `createOrUpdate` | look, then insert or save: two steps in both |
| `addSubDocument`, `removeSubDocument` | `MongoAddSubDocument`, `MongoRemoveSubDocument` |
| `ModelService`, its after hooks; the second read of a row that was written | `Finish`, `SqlAfterHooks`, `MongoAfterHooks`, `SqlReread` |
| `addToHistory`, `addToTrash`, not awaited | `History`, `Trash`; `LogWritten`, `LogFails` |
| `HistoryCron`, `TrashCron` | `DeleteExpired` |

`CallFails` is a call that fails under a job (an error is answered, what was saved
stays), `Crash` a process that dies with its entries in flight.

`Store` is the promise: a call has its effect between call and answer, each part
once, on the rows it names, and leaves the columns alone that it does not name.
It does not promise that several columns change together.  `RecordServices`
implements it, with `open` as the calls that are neither idle nor done
(`ImplementsStore`): whatever happens between the find and the save of a request,
its save is one change of one row.

Properties:

- `TypeOK`.
- `ImplementsStore`: the refinement.
- `AnswersHonest`: an `ok` means that the request took effect; the exceptions are
  named: SQL's save of a row that was removed meanwhile writes nothing and
  answers `ok`, and so does the second of two hard deletes.
- `HistoryHonest`: the history tells of changes that were made, but for SQL's
  restore (logged before the row is written) and update of a row that is gone.
- `HiddenOnceDeleted`: a request that begins after a delete was answered is not
  shown the row, unless somebody asked for a restore.
- `UniqueButForRaces`: `@IsUnique`, `findOrCreate` and `createOrUpdate` look before
  they write, so that one value is in two live rows only if two of them
  overlapped, or a request that does not look wrote one.
- `HardDeletesReachTrash` (liveness): a row deleted for good by its id is in the
  trash in the end, unless a call failed or a process died.

`Records` (the run) takes every pair of requests (24 of them, every operation,
hard and soft, validated and not) on five tables with 3 ids, for both services,
with one fault.  Two jobs are enough for each race between a read and a save.
`PageLimit` is 2, and reached.  Fairness: a create that is in flight is answered.

### `Seeder`

The primary runs the seeders of both databases when it boots, in the background
unless `SEEDER_AWAIT` is set.  `at` is where the two loops (over seeds, over the
items of a seed) are, `phase` which call comes next, `parent` and `found` what the
calls have returned; `engine` says which of the two seeders it is.

| Code | Actions |
|---|---|
| `onModuleInit`, the loop of `seed` | `Boot`, `StartSeed`, `NextSeed`, `NextItem` |
| `shouldSkipSeed` (rule `once`) | `ShouldSkipSeed` |
| `cleanExistingData` (`delete`, `truncate`) | `CleanExistingData` |
| `resolveReferences` | `Resolve` |
| `create`, `findOrCreate`, `findOne`, `update` | `Create`, `SqlFindOrCreate`, `MongoFind`, `Update` |
| the `catch` of each | `CallFails` |
| requests meanwhile | `UserCreates`, `UserEdits`, `UserDeletes` |

Properties: `TypeOK`; `NoSeedTwice`, however often the process dies half way and
boots again; `BootHeals`, after a boot that nothing disturbs each table that is
seeded always is as its rule says, whatever earlier boots left; `SeedingEnds`
(liveness).  A table with the rule `once` is not healed: it has a row, so it is
left out, although items are missing.  `BootHeals` says so by leaving it out.

`Update` writes the item over the row; Sequelize writes the columns that differ from
what was found, which is the same unless a request has edited the row in between, and
such boots are none that `BootHeals` speaks of.

`SeedsAssumption` is what `src/seeds` looks like: a model has one seed, and the items
of a seed have different names.  Without it `NoSeedTwice` does not hold.

The run has eight seeds, one or more of each rule, two of them related as states
are to countries and one without items, both engines, two faults and one request.  Two faults are a
crash, or a failed call, in each of two boots.  Fairness: the event loop resumes
the seeder, pm2 boots a process that died.

### `Handlers`, `Sessions`, `OneTimeCodes`, `UserAccounts`, `Notifications`, `Accounts`

`Handlers` has what sign-in, codes and users share: the clock, the users, the JWTs
that were issued (`tokens`), the black list of each session in every store of the cache
(`black`), and the jobs, each one HTTP request with its guard (`JwtGuard`), served by
the process `Host[p]`.  `Sessions` adds the login logs and
the updates nobody awaits (`closers`), `OneTimeCodes` the otp sessions,
`Notifications` the queue and what it sends, and `Accounts` composes them with
time, failing calls (each with what the code makes of it) and crashes.

| Code | Actions |
|---|---|
| `JwtStrategy.validate`, `RolesGuard` | `CheckToken`, `FindOwner` |
| `LocalAuthService.validateUser`, `localLogin` | `FindLogin`, `LocalLogin` |
| `createUserSession`, `createSession` | `FindAccount`, `CreateSession`, `CountUnread` |
| `LoginLogService.doAfterCreate` | `CloseOthers` |
| `TokenStrategy.validate`, `getNewToken` | `FindRefresh`, `GetNewToken` |
| `updateSessionInfo` | `ReadInfo`, `SaveInfo` |
| `clearSession`, `addToBlackList` | `CloseLog`, `ReadList`, `WriteList` |
| `createOtpSession`, `forgotOtp`, `verifyEmail` | `CreateCode`, `VerifyEmail` |
| `sendOtp`, `verifyOtp`, `resetPassword` | `ReadCode`, `CountResend`, `CountRetry`, `Verify`, `DropCode` |
| `UserService`: `createUser`, update, delete, `changePassword` | `ValidateEmail`, `CreateUser`, `OwnUser`, `FindTarget`, `UpdateUser`, `DeleteUser`, `FindUser`, `SavePassword` |
| `NotificationService.send`, `sendPushNotification` | `FindTemplate`, `FindAddressee`, `SendMail`, `SendPush` |

The cache (`caching.module.ts`) has a store in the memory of each process before the
one in Redis.  A read takes the first store that has the list (`Listed`), and memory
does not learn what Redis answered; a write goes to the memory of its process and to
Redis (`Put`).  A copy lives as long as the list it was written with, as the expiry
given to `set` overrides the default of 60 seconds.  Memory forgets a list when 5000
others push it out (`Evict`) or the process dies (`Crash`).  A read of Redis that fails
finds nothing, and then a write keeps in memory what it writes all the same
(`CallFails`).

Abstracted: a password hash is the password, a JWT its payload, a code right or
wrong; an edit of a user is the column `active`, which sign-in looks at.

Properties:

- `TypeOK`.
- `StaysLoggedOut`: every process refuses a token that was logged out until it
  expires.  The exceptions are named, all of them other logouts of the same session:
  one that overlaps, a later one of a token that expires first (`addToBlackList` writes
  the whole list back, for as long as its own token needs), and an earlier one that
  another process served, which reads the copy it has kept, not what was added since,
  and may write that copy back over the list in Redis.
- `InfoKept`: what `updateSessionInfo` wrote stays, unless two of them overlapped.
- `TriesBounded`: a code is accepted once, and wrong tries are bounded, but for
  tries that overlap.
- `ResetByCode`: a reset needs a verified code of its user, and a code resets once.
- `CreatorKnown`: the second update of a registration leaves nobody without a
  creator, unless a call failed or the process died.
- `NoPushAfterLogout`: who logged out before a message gets no push of it.
- `OneOpenPerDevice`: when the updates that logins did not wait for are through, a
  device has one open session.
- `AnnouncedInTheEnd` (liveness): codes and welcomes are mailed.

The run takes every pair of 19 requests and five triples, served by two processes
(the third request of a triple by the process of the first), from one world (an
admin, a user with an open session, an employee with a second factor).  The clock
runs from 0 to 2, which brings a code (life 1), one of two tokens of the user's
session and the older codes past their end between any two steps; new tokens and
logs (lives 3 and 4) keep the order that the lives in the code have.  The limits of
retries and resends are 1, so that the second try meets them; the code's are
larger.  `Logs`, `Codes` and `Users` have room for what three requests create.  One
call fails or one process dies; memory may forget a list at any time.  In the triple
of logouts the third may read the copy that its process has kept from the first, and
write it back over what the second has added.  Fairness: handlers that await go on,
the update of `doAfterCreate` is answered, and the listener listens.

### `Controllers`, `Resources`

`Controllers` lists the routes of the CRUD controllers: the handler, the operation
of the record service it comes to, and whom its guards let in.  `Resources` runs
one controller over `SqlRecords`: `Arrive` (`JwtAuthGuard`, `RolesGuard`, and what
a service does to a body first), `ChatAccess` (`ChatAccessGuard`), `ReadManaged` and
`VisibleTo` (what the services of newsfeeds, users and chats add to a query),
`Permit` (the row a service looks at before it changes or shows one), `NoId`
(handlers that hand over no id), `Operate` (the record service), `SendStatus` and
`NextSetting` (`SettingService.updateBulk`).  `StaffChanges` lets users join and
leave between any two steps.  `Reread` reads the row again after each create or
update (a job has a payload and `ModelService` makes its include `[]`, so that the
record service always does): `data` is the row the handler is given, which another
request may have written by then, and `told` what `updateBulk` pushed of it beside what
was asked.

Properties: `TypeOK`; `ChangedByThoseWhoMay`, a changed row is one its requester
may change, although the row that is saved is found after the one that was looked
at; `ShownToThoseWhoMay`, the lists of newsfeeds, users and chats, and the finds by
id of newsfeeds, users and the messages of a chat, show what is related to the
requester, whatever the query asks (the counts, `GET /newsfeed/find`, `/user/find`,
`/chat/find` and `GET /chat/:id` have no rule in the code and are not covered: they
show any row); `FailedChangedNothing`, a request that is
answered with an error has changed nothing, unless a call failed;
`BulkTells`, `updateBulk`, which drops errors, tells the settings that were written
and no others, each with the values asked for, or values that a request which had not
ended before has written over them; `UidRoutesWork`, what the docs of the `:uid` routes say, refuted.

| Run | Instance | Shows |
|---|---|---|
| `Resources` | 14 controllers, each route beside each that changes a row, by an admin, a user of the admin's, an employee of the user's and one that registered; one fault | all but `UidRoutesWork` |
| `ResourcesUid` | the same, no faults | violated: an admin who asks by uid for a record that is there is answered with an error |

Four users are each relation the rules know (creator, created, oneself, none).
Two jobs are the request and another that changes or deletes its row.

### Common to all runs

Deadlock is not checked: requests are bounded, and when all are answered, and
nothing is on its way, the system rests.

### Observed while modelling

What the models show beside the runs that expect a violation, and what reading
the code for them showed:

- With webhooks of the pinned Stripe API version the end of the period is computed
  from the billing cycle anchor, which a renewal does not move
  (`PeriodView` with `HookLegacy` = FALSE).
- Both senders may warn of the same expiry, as both judge by a row read before
  the other's mark; `WarningsPerSender` is the bound that holds.
- Two first messages at a time make two chats of one pair; `LateRequestsReuse` is
  what holds.
- A message stored between the update of `readAllMessages` and its receipt is not
  read, and the receipt names the chat only; `ReceiptCovered` is what holds.
- `createOtpSession` answers that a code was sent and sends no mail; the template
  `2fa_otp` has no user.  The template `change_password` is in no seed, so the
  mail after a changed password is never sent.
- The handler of `DELETE user` filters by `created_by`, so that an admin cannot
  remove the users of others, which `UserService.delete` would allow.
- `MongoUniqueValidator` does not look at deleted documents even when asked to
  (`paranoid: false`).
- Mongo's bulk update and bulk delete change documents that are marked as deleted;
  `createBulkRecords` of Mongo leaves the documents saved before one that fails.
- A process reads its own copy of a black list first and writes it back to Redis: a
  logout served by another process in between is not seen, or is lost from the shared
  list; `StaysLoggedOut` is what holds.
- `updateBulk` may tell a value that another request has written: it tells the row as
  read again after the save.
- `GET /newsfeed/find`, `/user/find`, `/chat/find` and the counts (any row), and `GET
  /chat/:id` (any chat), do not ask who is related (`newsfeed.controller.ts:236`,
  `user.controller.ts:335`, `chat.controller.ts:234`, `:268`), while the lists do.
- `POST /subscription` inserts a row with the Stripe id of its body; no handler has
  made that row, and the Stripe id is unique.
- No module sets the options for history, and the trash never expires.
- The job of the socket message `message` goes to a queue nobody listens to, and
  the list of online users is the one of the primary instance.

## 4. What is proved

`SubscriptionProofs` holds proofs, for all constants that satisfy
`ConstantsAssumption` (any number of users, subscriptions, workers, requests and
cron instances, any bounds, any order, either shape of Stripe's objects), of

- `TypeCorrect`, `AnnouncedOnce` (`CreatedMailOnce`), `LabelledStored`
  (`OnlyLabelledStored`, of the webhook handlers), `WithinBilledPeriod` (`RowWithinBilledPeriod`),
  `AccessBilled` (`AccessIsBilled`), all from
- `Invariant`: `Spec => []IInv`.

`IInv` strengthens the properties with what handlers hold between two awaits:

- `WorkerHoldsEvent`: a process that serves an event is a worker, which is what
  lets `Crash` put the event back;
- `PeriodInv`: every period end anywhere (a row, the snapshot of a pending event,
  the object, body or row copy a handler holds) is at most Stripe's, and Stripe's
  only grows.  The property about rows alone is not inductive, as a save writes
  what its handler read long before;
- `LabelInv`: a handler that is about to insert has passed the metadata check;
- `MailInv`: mails sent plus handlers about to send one are at most one, and none
  before the row exists: the unique insert gives the right to send to one handler.

The proof takes one lemma per action, and in it one step per conjunct the action
can disturb.

`MirrorProofs` holds the theorems that need to know who writes a row beside the
handlers.  All of them rest on

- `WritersInv`: a user request writes `cancel_at_period_end` and nothing else, a cron
  job the mark of a row that is there, a handler the mark only after a warning of
  its own; no save takes the mark away.

`FinalCorrect` (`CanceledIsFinal`) follows at once: who is not a handler does not
write the billing status, and `Saved` leaves alone what is not in the body.

`WarningsCorrect` (`WarningsPerSender`) is a count (`CountInv`).  A sender is `Primed`
for a row when it may still warn of it, and `Owes` the row a mark between the warning
and the save.  As long as the row is not marked, the warnings sent are those whose
mark is owed and those whose mark a failure lost; once it is marked nobody becomes
primed any more, and the warnings together with the primed senders are bounded.  The
save of a mark turns the first account into the second: whoever is primed then is
another sender than those that owe (`PrimedOrOwing`).

`MirrorsCorrect` (`MirrorsWhenSettled`) assumes `Orderly`: events one at a time and in
order, of the shape the pinned version gives them, no failing call, no refund, one
user request at a time.  Any number of subscriptions, workers and cron instances, repeated
deliveries, and crashes between any two steps remain.  (`InOrder` is such an
instance; two user requests at a time break it, see 3.)  Its invariant `MirrorInv`
follows an event from Stripe to the row:

- `QueueInv`: events are handled in the order of their numbers, and of those on
  their way or at work the latest about a subscription has the state Stripe has;
- `KindInv`: what a handler holds at each step, by the kind of its event;
- `FirstInv`: as long as a subscription has no row, the event that creates it comes
  before all others about it, so that no other handler finds nothing;
- `CapeInv`: what a request is about to write is what Stripe has;
- `SeenInv`: between the read and the save of a handler the row has changed only in
  what Stripe has by now, in the mark, or to `expired`, so that a column that the
  save leaves out because it did not change is still right;
- `FailedInv`: the handler of a failed payment, which stores what Stripe answers,
  stores nothing new unless an event is on its way;
- `RowInv`: a row agrees with Stripe unless an event that will write it is on its way
  or being applied.  A crash puts the event back, which is why it stays so.

`PaidCorrect` follows from it: what the run `Paid` refutes, that whoever has paid may
chat, holds under `Orderly` but for a row that `markExpiredSubscriptions` has marked.

Of this component only `EventuallyStored`, a liveness property under fairness, is
model-checked alone; `PaidMeansAccess` is refuted.

`ChatProofs` holds proofs, for any users, devices, instances, requests, kinds of
request and bounds that satisfy the assumptions of `Jobs`, `Sockets` and `Chat`, of

- `TypeCorrect`, `PushedCorrect` (`PushedToItsEnds`), `ReceiptsCorrect`
  (`ReceiptCovered`), `LateCorrect` (`LateRequestsReuse`) and `ReadCorrect`
  (`ReadOnlyByReader`), all from
- `Invariant`: `Spec => []IInv`.

`IInv` follows a message on its whole way, as what a device receives is the end of
it:

- `TaskInv`: a request that is about to store or to mark holds a chat of its two
  users; a request that marks is a request to read;
- `LateInv`: a request that began with a chat would find it, so it creates one
  only after a failed find;
- `MsgInv`: a message belongs to a chat of its users;
- `JobsInv`: what a job says of the messages is so, whether its request still
  holds it or the log has it: a message job names a stored message, a receipt
  covers what was there.  It stays so because messages never change but for the
  read mark, chats and jobs are never removed, and failures only count up (lemma
  `OnlyGrows`);
- `EventInv`: what is on a channel, in an inbox or at a device names a job of the
  log, and is addressed to one of its users.

The lemmas `WorkStep`, `MsgStep`, `JobsStep` and `EventStep` show that each part
is kept by every action, `TypeStep` the types.

`OrderProofs` proves `OrderCorrect` (`InOrderOnce`), from `IInv` and `OrderInv`.  The
property speaks of what a device has received; to be inductive it needs the whole
way there:

- `ChannelOrder`: the channel of an instance holds its own jobs, in growing order;
- `SentOrder`: what is still on it was emitted after everything that is in an
  inbox or at a device;
- `InboxOrder`, `GotOrder`: the events for one user are in order, and two of the
  same job are the neighbours that a message to oneself produces;
- `MeetOrder`: what a connected device has received comes before what its instance
  has for its user.  A device that connects starts with nothing received, so this
  holds again after each reconnection, which is why the property is about one
  connection.

Of this component, only `MessageReachesEnds`, a liveness property, is
model-checked alone.

`RecordsProofs` holds proofs, for any jobs, ids, columns, values, requests and
tables that satisfy the assumptions of `Records` and `RecordServices`, and for both
services, of

- `Implements` (`ImplementsStore`), `AnswersCorrect` (`AnswersHonest`),
  `HistoryCorrect` (`HistoryHonest`), `HiddenCorrect` (`HiddenOnceDeleted`),
  `UniqueCorrect` (`UniqueButForRaces`) and `TypeCorrect`, from
- `Invariant`: `Spec => []IInv`.

`IInv` says what a job knows between two awaits:

- `LocalInv`, for each job: nothing was made before its write (`FreshOK`), an
  answer is honest (`AnswerOK`), a job by id holds the row of that id (`ByIdOK`),
  a row that was found is still there in some form (`FoundOK`), a job about to
  answer without error has acted (`ActedOK`), and the row of a delete that
  succeeded is not live, unless a restore was still to come (`DeletedOK`);
- `BeforeInv`: the jobs before another have ended and stay ended;
- `HistoryInv`: an entry on its way or there names a change of its job, with the
  two exceptions of SQL;
- `HiddenOnceDeleted` itself, and `TypeOK` (with `MadeInv`, that `made` is a
  function).

The proof does not look at each action against each conjunct.  Every step of a
job has an `Outcome`: the table changes as `Store` allows, the entries written
fit, what is shown is live, and the job's own part of the invariant holds after
it; there is a lemma per kind of operation, and they are put together per
service (`SqlOperationOutcome`, `MongoOperationOutcome`).  `OutcomeKeeps` shows once
that an outcome keeps `IInv`, `OutcomeImplements` that it is a step of `Store`.

`UniqueCorrect` needs to know in addition what a job that looks has seen:
`SeenInv`, when it is about to write and a row other than its own has the value by
now, a job that had not ended before it began has acted.  It uses that tables
start without two live rows of one value, and that a request writes the value it looked for (`Looks`).

Of these components only `HardDeletesReachTrash`, a liveness property, is
model-checked alone.

`SeederProofs` holds proofs, for any seeds that satisfy `SeedsAssumption`, both
engines, and any number of faults and requests, of

- `TypeCorrect`, `NeverTwice` (`NoSeedTwice`) and `HealedByBoot` (`BootHeals`), from
- `Invariant`: `Spec => []IInv`.

`IInv` says what the place of the seeder in its loops stands for:

- `PhaseInv`: which rule a phase belongs to, and that `done` is after the last seed;
- `FreshInv`: a seed that creates without looking (`once`, `delete`, `truncate`)
  found its table empty or emptied it, and its table has only the items before the
  current one, and rows of requests.  This is why a boot that was interrupted half
  way does not lead to a second copy;
- `MissingInv`: a Mongo seed that looks has not found the item it is about to
  create, as requests do not create items of seeds;
- `HealInv`: in a calm boot, the seeds before `at.seed` and the items before
  `at.item` are as their rule says.  `BootHeals` is this after the last seed.

There are three ways on from a step: to the next seed, into the items of a seed, to
the next item.  The lemmas `LeaveSeed`, `EnterSeed` and `LeaveItem` show once for each
that `IInv` is kept, so that the lemma of an action is about its table only.

Of this component only `SeedingEnds`, a liveness property, is model-checked alone.

`AccountsProofs` holds proofs, for any users, sessions, codes, devices and requests
that satisfy the assumptions of `Handlers` and `Accounts`, any number of requests at
once and of faults, and any lives and limits, of

- `TypeCorrect`, `LogoutCorrect` (`StaysLoggedOut`), `InfoCorrect` (`InfoKept`),
  `TriesCorrect` (`TriesBounded`), `ResetCorrect` (`ResetByCode`), `CreatorCorrect`
  (`CreatorKnown`), `PushCorrect` (`NoPushAfterLogout`) and `DeviceCorrect`
  (`OneOpenPerDevice`), from
- `Invariant`: `Spec => []IInv`.

`IInv` says what a handler still knows when it writes:

- `TokenInv`: a token names a session that is there, and its user; `StageInv`: a job
  is at a step of its operation, and holds the user it is about; `OrderInv`: the jobs
  before another have ended;
- `OneOpenInv`: of two open sessions of a device, one has an update under way that
  closes the other.  This is what the update nobody awaits has instead of a lock;
- `ClosedInv`: a logout past the login log has closed it, and sessions do not reopen
  (`LogsOnly`);
- `LogoutInv`: what a logout wrote is in Redis for as long as the token lives, in every
  copy of the list that a process keeps, and in what a later logout of the session has
  read and will write back, unless another logout may have lost it (`LostBy`, the
  exceptions of `StaysLoggedOut`).  A process has a copy only when it has served a
  logout of the session, which is why an eviction or a restart loses nothing and why
  only the earlier logouts of other processes matter.  `InfoInv` is the same of the
  info of a session;
- `CodeInv`, `OnceInv`, `TriesInv`: what a job that took a code has made of it; nobody
  takes a code who began after another had used it up; tries that do not overlap
  count down one after the other.

Each handler's step is of one of two kinds, one that only reads (`Reads`) or one that
writes one of the tables (`WritesLogs`, `WritesTokens`, `WritesCodes`, `WritesUsers`,
`Announces`), which lets each part of `IInv` look at the steps it can lose by only.

`IdsAssumption` and `LivesAssumption` say what ids and lives are (a primary key above
0, a life of at least one unit of time); `WorldsAssumption` what the tables look like
when no request is at work: sessions have users, users creators, codes no more tries
than the limit, and a device one open session.  Earlier requests leave the tables so,
which is what the theorems say; `CallsAssumption` is that requests have the form
the controllers give them.

`ResourcesProofs` holds proofs, for any users, tables, controllers' requests and
bounds that satisfy the assumptions of `Resources`, of

- `TypeCorrect`, `ChangeCorrect` (`ChangedByThoseWhoMay`), `ShownCorrect`
  (`ShownToThoseWhoMay`), `FailureCorrect` (`FailedChangedNothing`) and `BulkCorrect`
  (`BulkTells`), from
- `Invariant`: `Spec => []IInv`, and for `BulkCorrect` also `ToldInvariant`:
  `Spec => []ToldInv`.

`IInv` is `TypeInv` and, for each job, `JobInv`, what its guards have let through so
far: who is past the guards is admitted (`AdmittedOK`), nothing is written before the
save (`StageOK`), what was permitted is still so (`PermitOK`), what is shown may be
seen (`ShownOK`), an update of a page names no name (`PageOK`), and `updateBulk` has
told what it wrote (`BulkOK`).  A step of another job keeps it because of `RowsKept`: no step frees
a row, rewrites its owners, or deletes a setting.  That the owners stay rests on
`CallsAssumption`: the global `ValidationPipe` drops fields without a validator
(`whitelist`), and `created_by`, `user_id`, `user1Id` and `user2Id` have none; and of the
controllers here only the DTOs of a POST carry `@IsUnique` (the write routes of users,
whose update DTO carries it too, are in `UserAccounts`).  There is a lemma per step,
which shows its `Outcome`: `TypeInv`, its own `JobInv` and `RowsKept` after it.

`ToldInv` follows the values of a setting: when a job is about to save, a column of the
row differs from what the job has read only by what a request at work beside it has
written; so after the save, at the second read and in what is told, a column that was
asked for is as asked or was written beside.  The save leaves out a column whose value
did not change since the read, which is why the first of these is needed.

The liveness properties `EventuallyStored`, `MessageReachesEnds`, `HardDeletesReachTrash`,
`SeedingEnds` and `AnnouncedInTheEnd` are model-checked alone: liveness under fairness
is out of the prover's reach.  `PaidMeansAccess` and `UidRoutesWork` are what a comment
and the docs say, and are refuted by their runs.

## 5. What is not modelled

- Sign-in by Firebase: it asks Firebase for the account of a token and then goes
  on as a login does.
- Scheduled tasks: the factory of the service has no task that schedules
  anything; what is left are operations of the record service.  (Its hooks of
  update and delete fail for a task that is not in the cron registry.)
- The translation of query objects (`convertWhere`, `convertPopulate`,
  `populateSelect`) and payload decorators, but for the page of a list: a format
  rewritten into another, which no property here tells apart.
- Metrics, dashboards, the history of subscriptions: reads that nothing depends
  on; amounts and prices.
- Mail, SMS, Firebase, geocoding and the calls of the Stripe client for customers,
  cards and payment intents: wrappers of third parties.
- `POST /subscription` beside the webhook handlers (see `Subscription`).
- Uploads and avatars; wording of mails and pushes.
- What nothing calls: `UserService.deleteUser`, `validateMessageAndSave`,
  `saveMessage` and `saveReaction` of the chat, `jobDoneMulti`, rooms and roles of
  the sockets, notifications to lists of users.
- Pipes, filters, interceptors and bootstrapping: they keep no state between
  requests.

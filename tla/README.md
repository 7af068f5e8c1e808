# TLA+ specifications of Brisabese

Specifications of the control logic of the Brisabese backend (`src/server`): TLA+
modules, the TLC instances that check them, and proofs checked by TLAPS. The modules
are written from the code; documents of the repository (`PHASE*_COMPLETION.md`,
`README.md`, `docs/`) are used only as the statement of what the program promises, in
the runs that compare a promise with the code.

- [How to run](#how-to-run)
- [The system](#the-system): inventory of the components
- [The modules](#the-modules): what is modelled, with bounds and fairness
- [The runs](#the-runs)
- [What is proved](#what-is-proved)
- [Disagreements found](#disagreements-found)
- [Observations](#observations)
- [What is not modelled](#what-is-not-modelled)
- [Plan](#plan)

## How to run

    tlc -workers 2 -config WebhookDelivery_queue.cfg MCWebhookDelivery.tla
    tlapm WebhookDeliveryProofs.tla

Every `<Name>_<run>.cfg` belongs to `MC<Name>.tla`, and `tlapm` takes every `*Proofs.tla`.
`PROJECT.json` lists the runs with
their properties, the mutated definitions that each property tells from the real ones,
the source lines every definition stands for, and the theorems.

## The system

One Node.js process (`server.ts`) serves HTTP and WebSockets; several replicas
of it run against one PostgreSQL and one Redis. PostgreSQL holds the control tables and
one schema per project environment; Redis carries the realtime fan-out, the signals that
wake the function queue, and the rate limits; an S3 store holds objects and
backups. No component runs threads: what interleaves is the code between two `await`s,
of one process and of all replicas. PostgreSQL statements and transactions are the atomic
steps; no statement of the code raises the isolation level, so mutual exclusion exists
only where a statement locks (`FOR UPDATE`, `SKIP LOCKED`) or guards (`UPDATE ... WHERE
status = ...`). Most hazards below are a read before an `await` used after it.

### Inventory

| Component | State it keeps | Operations | Hard behaviour | What makes it correct |
|---|---|---|---|---|
| Webhook delivery (`webhooks/webhookEngine.ts`) | `webhooks`, `webhook_deliveries` | create, update, remove, test, emit, replay, processQueue (recover, claim, deliver) on a timer per replica | claims of several replicas, a batch that outlasts its two minutes, a crash with rows claimed, late outcome writes without a guard | no attempt is sent twice, attempts are bounded, the row agrees with the receiver, settled rows stay settled, every event settles |
| Function queue (`functions/persistentFunctionEngine.ts`) | `function_jobs`; `runningJobs` in memory | enqueue, retryJob, start, stop, claimNextJob, processQueue, execute | a replica that starts requeues what others are running; calls started by timer and by Redis signal overlap | a job is in one call unless a start requeued it, bounded attempts, nothing is left in `processing`, every job settles |
| Function schedules and versions (same file) | `function_schedules`, `functions`, `function_versions` | deploy, rollback, update, runScheduledJobs | two deployments at once; a claim of a minute and an enqueue that are two statements | one published version; one job per schedule and minute |
| Function runtime (`functions/functionRuntime.ts`, executor files) | a process or container per execution | invoke, time out, kill | timeouts | external to the queue: success or failure |
| Realtime sessions (`realtime/websocketServer.ts`, connection, channel, presence, subscription managers) | five in-memory tables kept in step by hand | connect, join, leave, subscribe, unsubscribe, broadcast, track, untrack, close, heartbeat, eviction of slow clients | handlers that resume on a removed connection; a delivery that removes its receivers; credentials checked after the guard | the tables agree; a removed connection leaves no trace; a connection is in its own project's channels |
| Realtime change feed (`realtimeEngine.ts`, `postgresCdc.ts`, `realtimeTransport.ts`) | replication slot, memory of event ids | capture, dispatch locally, publish to Redis, hand over to webhooks, ingest from other replicas | own events come back; a crash between the three hand-overs | each replica dispatches an event once, in order of origin; the webhook gets it once |
| Filters, realtime authorization | none | predicates | none | pure |
| Sessions of project users (`routes/realAuth.ts`, `auth/realAuthRepository.ts`) | `auth_sessions`, `auth_refresh_tokens` (families), user status | login, refresh with rotation, logout, logout-all, password change and reset | two refreshes with one token, login beside a reset, limit of sessions in two statements | a reused token ends its family; a session limit; a reset ends every session |
| One-time codes, MFA, passkeys, OAuth, sign-up (`auth/*`) | one-time records, attempt counters | issue, consume | a counter read and raised in two statements | consumed once, attempts limited |
| Console users and API keys (`routes/adminAuth.ts`, `middleware/auth.ts`, `routes/apiKeys.ts`) | sessions of administrators, keys | login, refresh, revoke | as above | as above |
| Object storage (`storage/*`, `routes/realStorage.ts`) | objects, versions, multipart uploads; bytes in S3 | upload, move, delete, restore version, multipart create/part/complete/abort, backup state | bytes and rows are two stores; parts are one JSON column read and written whole | a row describes the bytes under its key; no acknowledged part is lost |
| Push messages and campaigns (`platform/messagingEngine.ts`, `platform/advancedPlatformEngine.ts`) | `messaging_messages`, `messaging_campaigns` | create, cancel, send, processDue, sendCampaign, processCampaigns | no claim before sending; a campaign declared stale while it is being sent | one sender per message; a cancelled message does not go out; nothing stays in `sending` |
| Experiments, flags, remote configuration, search, AI, retention (`advancedPlatformEngine.ts`) | one table each | one statement per operation | little | record keeping |
| Static hosting (`platform/hostingEngine.ts`) | sites, deployments, manifests, domains | deploy, uploadDeploymentFile, activate, rollback | activations that run together; failure after a committed activation | one active deployment, the one the site names; no acknowledged file is lost |
| Preview databases (`platform/previewDatabaseEngine.ts`) | `preview_environments`, one schema each | create, remove, expireDue | a failed drop | a preview that has expired is dropped in the end |
| Billing (`billing/localBillingEngine.ts`) | subscriptions, refunds, events, usage ledger | applyPaddleEvent, refund, recordUsage | events out of order, recorded before they are applied; a refund that times out | refunds never exceed the payment; the subscription follows the last event |
| Backup (`backup/*`) | catalogue of full, differential and incremental backups, schedules | create, restore, enforceRetention, runDueSchedules | retention beside a creation; every replica runs the schedule | a kept backup can be restored: its chain is kept |
| Project SQL (`db/realProjectDatabase.ts`, `apiEngine/*`, `db/sqlParser.ts`) | project tables | one transaction per request | translation of strings | not in a model checker's reach |
| Row security (`security/*`) | policies, a cache per process | edit, compile | stale cache | the compiled predicate is the current policy |
| PostgreSQL access (`db/postgres.ts`, `db/migrate.cjs`) | pool, migration history | query, transaction, migrate | replicas migrate together | each migration is applied once |
| Redis access (`redis.ts`) | counters, channels | increment, publish, subscribe | INCR and EXPIRE are two commands | every counter expires |
| Alert webhook (`observability/alertWebhook.ts`) | a bounded queue in memory, one drain at a time | enqueue, drain, start with replay, stop | an overflow while the head is being sent | every alert is sent or counted as dropped |
| Observability, infrastructure registry, IaC, GraphQL, enterprise | metrics, alerts, statuses | record, report | none the core depends on | – |
| Test-mode engines | in-memory fixtures | as the real ones | never in production | – |
| HTTP server and start-up (`server.ts`, `config.ts`) | none | wiring | order of start-up | – |
| Realtime channel of the SDK (`src/src/sdk/brisaBaseClient.ts`) | a socket, two timers, counters of acknowledgements | subscribe, unsubscribe, open, message, close, reconnect | handlers and timers of a lost socket act on its successor | one connection; subscribe resolves on what is served, and settles; a lost channel is joined again |
| Console UI, other SDKs, CLI (`src/src`, `developer/*`) | client state | HTTP calls | – | – |

### How they interact

- The change feed calls `webhookEngine.emit` for every captured change and
  `RealtimeWebSocketServer` to deliver it to subscribers: WebhookDelivery's `EmitSelect`
  and RealtimeSession's `Publish` are the receiving ends.
- Storage routes and broadcasts call `emit` as well, without awaiting it; the cron scheduler, the
  HTTP interface and functions themselves call `enqueue` of the function queue.
- The console edits rows (webhooks, functions, users) which the loops read at their
  own time: edits are actions of the modules, interleaved with the loops.
- Deleting a parent row deletes its children by foreign key; the modules make the cascade part
  of the deletion.

## The modules

A step of a module is what the code does between two `await`s: one SQL statement or
transaction, one HTTP exchange, one call of the object store or of the runtime. A record per
request or thread says how far its handler has come, with the values it has read and still
carries. History variables are read by properties only.

| Module | Component | Checked through | Proved in |
|---|---|---|---|
| `WebhookDelivery` | webhook delivery | `MCWebhookDelivery` | `WebhookDeliveryProofs` |
| `FunctionQueue` | function jobs | `MCFunctionQueue` | `FunctionQueueProofs` |
| `LeaseQueue` | what a queue in a table promises | `WebhookLease`, `JobLease` | `LeaseQueueProofs` |
| `WebhookLease`, `JobLease` | the refinement mappings of the two queues | `MCWebhookDelivery`, `MCFunctionQueue` | `WebhookDeliveryProofs`, `FunctionQueueProofs` |
| `RealtimeSession` | WebSocket server of one replica | `MCRealtimeSession` | `RealtimeSessionProofs` |
| `RealtimeChannel` | a channel of the client SDK, with the server's side of its connections | `MCRealtimeChannel` | `RealtimeChannelProofs` |
| `Campaigns` | push messages and campaigns | `MCPlatform` | `PlatformProofs` |
| `PreviewDatabases`, `HostingDeployments` | two more services of the platform | `MCPlatform` | `PlatformProofs` |
| `UserSessions`, `MultipartUpload` | a user's sessions and uploads in parts | `MCUserData` | `UserDataProofs` |
| `ObjectStorage` | objects, versions and their restore | `MCUserData` | `UserDataProofs` |
| `Billing`, `BackupChain` | refunds and subscription events; backups | `MCOperations` | `OperationsProofs` |

`MCPlatform`, `MCUserData` and `MCOperations` put components that share no state into one
instance: the variable `focus` picks one of them initially and the others stay as they
start, so the state spaces add up instead of multiplying, every component sees all its own
behaviours and one run answers for all of them. A property of a component is vacuous in the
behaviours of another one and says what it says in those of its own.

Every module has a type invariant (`TypeOK`, `CampaignTypeOK`, ...). `webhook_console` checks
`WebhookDelivery`'s; the types of the other modules were checked while they were written. They
are [proved](#what-is-proved) for every component; the runs check what a type cannot say.

### WebhookDelivery

One webhook, its delivery rows, one `processQueue` loop per replica and the `test()`
requests.

| State | In the code |
|---|---|
| `hook` | the row of `webhooks`: `active`, `disabled_reason` set or not, `consecutive_failures`, `max_attempts` |
| `row[i]` | the row of `webhook_deliveries`: `status`, `attempt_count`; `due` is `next_attempt_at <= now()`, `stale` is `updated_at` older than two minutes |
| `emitting`, `editing` | `emit()` between SELECT and INSERT, `update()` between its read and its UPDATE |
| `loop`, `batch` | where `processQueue` is, the claimed rows it still has to deliver |
| `task` | how far `deliver()` is, with the attempt and the limit it carries |
| `sent`, `accepted`, `recovered`, `unacked`, `allowed` | history; `allowed` is the largest `max_attempts` the webhook has had |

`EmitSelect`/`EmitInsert`, `Replay`, `UpdateRead`/`UpdateWrite`, `Remove`, `TestInsert`/
`TestSelect` are the console's calls; `Recover`, `Claim`, `Deliver`, `Finish` the loop;
`Mark` to `Disable` the statements of `deliver()`, each unguarded but for the id, as in
the code. `SuccessFails` is an error in one of the two success statements, which stand
inside the `try`; `Abort` a crash or an error outside it. `BecomeDue` and `GoStale` are the
clock. Payload, headers, signature and target are left out; the DNS check counts as
a refusal (`Refuse`). `rotateSecret` changes the secret only and is left out.

*Bounds.* `Cap`, `Threshold`, `Batch` stand for 10, 20 and 25: two attempts give a first, a
retry and a dead letter; a threshold of two lets a success fall between two failures; a
batch of two makes one row wait behind the other, which is how a batch overruns. Two loops
give every pair of replicas; the theorems cover any number. `MaxOverruns` and `MaxAborts`
bound faults, not the program. A loop that overruns once already writes after its row was
recovered, claimed, sent and settled by the other.

*Fairness* (`webhook_live`). `setInterval` starts every loop for as long as its process
lives, the request's abort timer ends every exchange, and time passes: weak fairness of the
loop, of `deliver()`, of `BecomeDue` and `GoStale`. Nothing is assumed of `emit`, of edits
or of tests. Crashes are bounded, as no queue settles under crashes without end.

### FunctionQueue

The rows of `function_jobs` for one function, the replicas with their `runningJobs`, and
the `processQueue` calls each has in flight.

| State | In the code |
|---|---|
| `target` | `functions.status`, or that the row was deleted |
| `job[i]` | `status`, `attempts`, `max_attempts`; `due` is `run_at <= now()` |
| `server[w]` | down, up after `start()`, stopped after `stop()` with calls still in flight |
| `running[w]` | `runningJobs` |
| `call[<<w, s>>]` | a `processQueue` call with the job, attempt and limit it carries |
| `succeeded`, `reset`, `unsaved`, `lost`, `dropped` | history |

`Begin` is the look at `runningJobs.size`, `Claim` the claiming UPDATE, `Take` the test and
the insertion, `Invoke` to `Record` are `execute()`, `Complete` and `Fail` the statement
that writes the outcome, `Leave` the `finally` that takes the job out of `runningJobs` once that statement
was answered. In between another call of the replica may claim the job, after a `Retry` or an
expired backoff; it meets the job in `runningJobs` and drops its claim, and nobody is left to
settle the row (`MeetsLeaving`, history `dropped`). `Start` requeues every job in `processing`, also those another replica
runs: that is the code's recovery. `Crash`, `Stop`/`Exit` end a process.

*Bounds.* One job suffices for properties of one job's calls; the second job of `jobs_live`
is there for priorities. Two calls per replica are needed for a claim
that meets its own job in `runningJobs`, after a start elsewhere has requeued it or while the
other call leaves.
*Fairness* (`jobs_live`). The timer calls `processQueue` for as long as the process lives,
the runtime's timeout ends every execution, a backoff runs out, and a process that is down
is started again by its supervisor. Crashes, faults and retries are bounded.

### LeaseQueue and the two refinements

`LeaseQueue` is the specification both queues implement: an item is absent, waiting,
claimed, done, dead or removed with its queue; a holder that claims a waiting item gets a
ticket; a claim may lapse (the two-minute recovery, or the requeuing `start()`) and the item
waits again, but the old holder keeps its ticket; who holds a ticket may report an outcome,
late or not; nobody else moves an item. `Report(h, i, "done")` may leave the ticket where it is: the
catch block of `deliver()` can turn a success it has written into a failure.

`WebhookLease` maps the row's status to the place, the loops whose batch or task has not
written an outcome to the tickets, and `recovered` to the lapses. `JobLease` does the same
for jobs and `processQueue` calls. `webhook_queue` and `jobs_queue` check `Lease!LeaseSpec` as
a PROPERTY: every claim of several rows, every recovery, late write, crash, error and deletion is a
step of `LeaseQueue` or a stutter. What it means: a row is settled or reopened only by who
had claimed it and has not reported yet, and a claim that is dropped or abandoned is never silently
given to two.

### RealtimeSession

The WebSocket server of one replica. `live`, `channels`, `subs`, `members`, `present` and
`served` are the tables of `connectionManager`, of the connection objects, of
`channelManager`, `presenceManager` and `subscriptionManager`. `inbox` and `slow` are handlers
that await the limiter in Redis: the first message of a window awaits EXPIRE after INCR and
is overtaken by the next ones. `auth` are credentials being checked, `casting` broadcasts that
await their own limit. `Deliver` is one pass over receivers with the removal of every
client whose buffer is full, and the removals its `presence_leave` entails: removal happens
inside the handler and is part of each delivering action.

`RoomsMirrorConnections` is an equality only where names do not share a key: a connection
that joins `Room` and `room` and leaves one of them is out of the channel and still lists the
other, as the code has it; `MembersHaveJoined` holds whatever the spelling. Connections
in `rescoped` (see [Observations](#observations)) and removals in `late` are exempt.

*Bounds.* `MaxWaiting` bounds the handlers of the replica that wait at a time: two are needed
for one to overtake the other, and for a credential check beside a join. The constraint
`OneNameOrAlone` splits the instance: either one connection uses three names for two channels, two
of them spellings of one, or two connections use one name; what one connection does to
another goes through one channel, and what spelling does concerns one connection's own lists.
The `ws` library hands over messages until the socket is closed; this is external. Filters, row
security, contents of messages, metrics and `disconnectAll` at shutdown are left out.

### RealtimeChannel

`BrisaBaseRealtimeChannel` of the SDK: `subscribe()`, `unsubscribe()`, the handlers of its
sockets, the reconnect timer and the ten-second timer.

| State | In the code |
|---|---|
| `ws`, `ready` | `this.ws`; `readyState` of each socket the channel has made |
| `subscribed`, `state`, `attempts`, `joined`, `expected`, `acked` | the fields of the same names |
| `promise` | the promise of the last `subscribe()` |
| `retry`, `limit` | timers that are armed, and the handle the channel keeps of the last one |
| `down`, `session` | answers under way on each socket; what the server knows of it |

The server answers in the order it is asked; `Drop` ends a connection at any moment, `errors`
counts refusals. Handlers belong to the channel and not to a socket, as in the code, so the
events of a socket that was replaced act on its successor. `overlapped` marks a `subscribe()`
that found a socket or a timer of an older one: the code installs the second connection beside
the first, and the properties say what holds otherwise. *Bounds.* Two sockets, two
`subscribe()` calls, two losses and a reconnect limit of one: a loss during the first
connection, a reconnect, a loss of that, and the limit. *Fairness.* Sockets open or close, their
events are delivered, timers fire; nothing is assumed of the application.

### Campaigns

`message` and `campaign` are the rows, `sender` the requests and passes of the timers.
`SendMessageSteps` are the statements of `send()`: read, write `sending` by id, deliver, write
the result; the loop over the devices is a step that reaches the first of them and one that ends it, so
that the UPDATE of a device may fail in between. `SendCampaignSteps` those of `sendCampaign()`: the claiming UPDATE, the delivery by
channel (a push campaign calls `createMessage()`), result and audit. `StatementThrows` enters
the catch blocks, `SenderDies` ends a process, `QuarterHour` is the clock of the recovery.
*Bounds.* Two senders, one message, one campaign, one fault, one campaign that is sent for a quarter of an
hour: a pair of senders gives every race, and the campaign's message is the message.
`reached` are the campaigns whose recipients anybody has reached: their own sender, or the timer or
request that sent their message. `CampaignOutcomeIsTrue` compares it with the status; `sent`, `partial`,
`queued` and `cancelled` are true without exception, and `failed` unless somebody else sent the
message (`others`), the campaign was recovered, or an error came after a delivery (`disturbed`).

### PreviewDatabases

`preview` are the rows of the preview and its environment, `store` its schema, registry row
and policies, `known` the schema names a process believes to exist (`realProjectDatabase`),
`request` the calls in flight, whose stages are the statements of `create()` and `remove()`.
`ExpireDue` runs `remove()` for the due previews one by one, on every listing. `MarkFailed` is
the catch block of `create()`. *Bounds.* Two previews of one branch (the unique index is about the
second), one request per instance, one fault. *Fairness* (`previews_cleanup`): requests
under way continue, and management requests keep coming, each of which runs
`expireDue()` - the premise of the comment the run is about.

### HostingDeployments

`deployment` with status and manifest, `stored` files, `site` with the deployment it names.
Uploads read the manifest, store the file and write the manifest; `activate()` looks up,
supersedes what its snapshot shows and commits, and is one transaction whose statements
wait for row locks as READ COMMITTED has it. *Bounds.* Two deployments, two files, two requests, one fault.

### UserSessions

`sessions`, `tokens` and `mails` are the rows in the order of their creation, `asked` the
requests. Login reads the user, trims the oldest sessions, opens one and makes its token;
refresh finds the token, revokes the family of one that was used, rotates and renews;
recovery is one transaction that sets the password and takes all sessions, tokens and mails.
`updateUser()` reads the user's row in one statement (`ReadUser`) and writes all of it back in
another (`WriteUser`), `password_hash` included: what it carries is `asked[r].hash`. `password` stands for
the hash by the recovery it descends from; a session's `opened` is the number of recoveries when it was
inserted, its `born` the password that was in force when the login read the user, and a mail's `born` the
number of recoveries when it was sent. `overtaken` are the kinds of the requests the last recovery
found past their check. *Bounds.* Two requests, a limit of one
session, two sessions, three tokens (a token, its successor, one of the other session), two
mails, one change of the password or the status; `LastTokenAlone`: the third token is issued in a world without that change, as it is
there for two refreshes that race. A crash is a request that takes no further step.

### ObjectStorage and MultipartUpload

`ObjectStorage`: `object` and `versions` are the rows of a path, `bytes` the object
store, `saved` the exported states. Uploads into a bucket with versions keep the old bytes under
a key of the version; without versions they overwrite. `RestoreBytes` writes bytes before
`RestoreCommit`, one transaction, replaces the rows and fails when the backup holds a version
whose object it does not hold (`Refers`, the foreign key); `RestoreClean` deletes bytes no row
names. `contended` is set by requests that overlap where nothing keeps them apart: in a bucket
without versions, or with a removal or a restore. Uploads into a bucket with versions, and an
export beside them, are not excepted. *Bounds.* Three uploads (an object, its version, one more),
two backups, two restores, one fault; `BackupsAlone`: once a backup exists, requests come one
after the other. The theorems need neither this nor any other bound.
`MultipartUpload`: the row with its JSON list of parts, the parts' bytes, requests that send a
part, complete or abort. `PartLength` is the length of the bytes of each sending; the row lists
parts with it. `CompletePublish` joins the bytes that were fetched in a buffer of the total the row
adds up to (`Buffer.concat(buffers, total)`): the object is exact, cut, or filled with zeros
(`Fit`). Two parts, three sendings, so one is repeated with other bytes, and the second
sending is longer than the others, so a repetition may be longer or shorter than what it replaces. The limit of
the bucket on sizes is left out.

### Billing

`refund` and `asking` are the refund requests, `adjustment` and `occurred` are
Paddle, which is external: it accepts a request whose answer came too late, decides in
its own time, sends its events in any order and again. `Reserve` is the transaction with
`FOR UPDATE` that keeps two refunds from reserving the same money. `handler` are the
webhook requests: `RecordEvent` inserts the event id, the apply actions follow. *Bounds.* Two
refunds of the whole invoice, two subscription events, three deliveries, one fault.

### BackupChain

`records`, `artifacts` and `made` are the catalogue, the object store and what each artifact
holds; `data` is the environment. `Capture` to `SetRetention` create a backup, `Retain` and
`NextObsolete` enforce the policy, `CheckDelete` to `DeleteRecord` delete with the look for
dependants before, `Restore` sets the data back. `Payload` resolves a chain as `payload()`
does. *Bounds.* Two components (a chain whose links hold different components), three
backups (a chain of three), a policy of one; `LastBackupAlone`: the third backup is
made by a request that is alone and without a fault - what two requests do to each other
needs two backups, what a long chain restores needs three.

## The runs

| Run | Instance | Properties |
|---|---|---|
| `webhook_queue` | 2 events, 2 loops, limits of 1 or 2, batches of 2, one batch that overruns | `Circulation`, `RetryBudget`, `OutcomeMatchesReceiver`, `NoAttemptSentTwice`, `ImplementsLease` |
| `webhook_console` | a test request, a replay of its row, edits, one crash or failing statement, 2 loops | `TypeOK`, `TestAddsOneSender` |
| `webhook_live` | 1 event, 2 loops, one crash, one overrun | `EveryEventSettles` |
| `jobs_queue` | 1 job, 2 replicas with 2 calls each, one crash, one retry, one failing statement | `ProcessingIsInHand`, `OneRunPerJob`, `AttemptBudget`, `OutcomeMatchesFunction`, `ImplementsLease` |
| `jobs_live` | 2 jobs of different priority, 1 replica, 2 calls | `EveryJobSettles` |
| `realtime_rooms` | 2 connections in 1 channel, or 1 connection with 3 names of 2 channels | `RoomsMirrorConnections`, `PresentAreMembers`, `SubscriptionsAgree`, `RemovedLeavesNoTrace`, `MembersHaveJoined` |
| `channel` | 2 sockets, 2 subscribes, 2 losses, 1 refusal, reconnect limit 1 | `OneConnection`, `ResolvedIsServed`, `SubscribeSettles`, `Rejoins` |
| `platform_services` | the three services, 2 requests each | `ClaimIsExclusive`, `CampaignOutcomeIsTrue`, `CancelHoldsForLaterSenders`, `ReadyIsUsable`, `RemovedHoldsNothing`, `SiteServesWhole` |
| `userdata_services` | sessions, objects, uploads, 2 requests each | `SessionsBounded`, `OneTokenPerSession`, `RecoveryIsAuthoritative`, `CatalogMatchesBytes`, `VersionsKeepUploads`, `CompletedHoldsParts`, `AbortIsFinal` |
| `operations_services` | refunds and events, backups, 2 requests each | `RefundedWithinBalance`, `RepeatsDoNotSetBack`, `PayloadIsCapture`, `ChainsAreWhole` |
| `campaigns_twice`, `previews_cleanup` | one service each | the two disagreements below |

Several properties except the cases in which the code does something else: `contended`, `mixed`,
`sideBySide`, `overlapped`, `disturbed`, `others`, `overtaken`, `dropped`. Each is a history variable set by the very
race the code leaves open, and the property says that nothing else breaks it; a hazard of
`PROJECT.json` whose race is such an exception says so in its note and does not count as covered by
the property. The exceptions
are listed as [Observations](#observations). Where the exception is a failure
(`torn`, `undone`, `cut`, `givenUp`), it is the failure of one named statement, not any.

Deadlock is not checked (`CHECK_DEADLOCK FALSE`): ids, requests and faults are bounded, and a
service that has served them all rests.

## What is proved

The theorems hold for every value of the constants: any number of events, jobs, replicas, calls,
connections, names, senders, requests, parts and backups, any limit and any number of faults. They
rest on the assumptions of the modules alone, which say that ids of different kinds are
different, that limits are natural numbers, and that sets whose members a property counts are
finite: the ids and the loops of `WebhookDelivery`, the replicas and calls of `FunctionQueue`,
the requests of `UserSessions`, the sockets of `RealtimeChannel`. TLC evaluates them in every run.

Few of the properties are inductive. Each proof finds the relation between the rows in
PostgreSQL, the memory of the processes and the requests under way from which the property
follows, shows that the initial states have it and that every action keeps it, and was
attempted after TLC had found no step that loses it. `PROJECT.json` lists the theorems.

### The queues

`LeaseQueueProofs` proves of the abstract queue that an item has at most one holder more than
claims of it that lapsed, and only lapsed ones while it waits (`TicketsStayBounded`). A claim
is the only step that adds a ticket, and it needs an item that waits.

`WebhookDeliveryProofs`:

- `TypeCorrect`, and `CirculationInvariant`: `Spec => []Circulation`. `Circulation` relates
  the three places an attempt number lives in: the row, the batches and tasks of the loops,
  the requests already sent. Rows count every number sent or to be sent (`AttemptsCounted`),
  so the number a claim creates is new; what is in a loop's hands was not sent
  (`UnsentIsNew`) and is in one loop's hands (`UnsentHasOneOwner`); a loop's batch and task
  are shaped as `processQueue` leaves them (`ThreadShape`). Recovery hands a row to a second loop
  while the first still works on it and preserves all four, because the next claim raises
  the number.
- `NoResend`: `Spec => NoAttemptSentTwice`, an action property, from `Circulation`.
- `DeliveriesAreLeased`: `Spec => ImplementsLease`. Every step of the module is a step of
  `LeaseQueue` under the mapping of `WebhookLease`, or a stutter; tickets are taken by `Claim` and
  given up by the statement that writes the outcome, by a crash or by an error.
- `OneSenderAdded`: the open claims on a test's row are the test's own and one loop's, for as long
  as the row was not recovered (`SendersBounded`).
- `AttemptsWithinBudget`: `RetryBudget`, with the webhook's own `max_attempts` (the largest it has had, when it
  was edited) as the bound. The invariant (`WithinBudget`) adds to the attempts of a row
  those still to be paid for by a recovery: one while the row waits, one for each loop
  whose attempt may yet send it back.
- `OutcomesMatch`: `OutcomeMatchesReceiver`. The invariant (`AgreeInv`) follows an accepted attempt
  from the receiver's answer through the two statements that record it.

`FunctionQueueProofs`:

- `TypeCorrect`, `ProcessingStaysInHand`: the invariant is the types, the cascade of a deleted
  function (`Cascade`) and that `runningJobs` of a replica is exactly what its calls hold,
  one call for each job (`RunningMirrors`). A call that drops the job it claimed, as it meets it in
  `runningJobs`, leaves it in the hands of the other call that runs it, or in nobody's when
  that one had written its outcome, which is when `dropped` says so.
- `JobsAreLeased`: `Spec => ImplementsLease`, step by step, and `JobTicketsBounded`, which carries
  the bound of `LeaseQueueProofs` over to jobs through it. `OneRunAtATime` follows.
- `AttemptsWithinBudget`: with its budget spent a job has a call that has not compared attempts yet,
  or waits, only for a start that requeued it; `OutcomesMatch`: as for deliveries.

### A user's data

`UserDataProofs`:

- `SessionTypesCorrect`: types, and that rows are added in order and refer to rows that are there
  (`References`). `RecoveryStaysAuthoritative`: live sessions and unused mails are newer than the last
  recovery, because its transaction misses no row. For tokens the invariant (`Authority`)
  says in addition that a request about to make one works on a session of today, and for passwords
  that what a request carries and will write back is the password of today, each unless the recovery
  found a request of one of the named kinds past its check; requests of other kinds never
  carry either (`KindsFitStep`).
- `SessionsStayBounded`: live sessions and those about to be opened are at most the limit less one
  and the logins that were under way together. `DELETE ... OFFSET` removes all but the newest few
  (`NewestFew`: of a finite set of numbers, those with fewer than k above them are at most k).
- `OneTokenForEachSession`: usable tokens and requests about to make one are one per session,
  unless two refreshes raced.
- `MultipartTypesCorrect`, `CompletionsHoldParts`, `AbortsStayFinal`: while parts are not sent side
  by side, the list in the row is what was answered, a request has read just that, and the
  bytes are what the list says (`Orderly`). The first part missing
  from a list exists because `<` on the part numbers is well founded. Parts of the same lengths have the same
  total (`SameSizes`), so a completion that cuts or fills has met a repetition of another length.
- `StorageTypesCorrect`, `CatalogStaysMatched`, `UploadsStayKept`: one invariant (`StorageInv`) for all
  three. Bytes are safe because no two writers ever have the same key, and that rests on numbers:
  the row is above all its versions, or has just recorded itself as one (`Topmost`); what a request
  has read is the row or one of its versions (`Known`); of the uploads that read the same row one
  at most has recorded the version it replaces, because of UNIQUE(object_id, version), and
  requests that make a new object make different ones (`Compatible`). With the keys apart,
  every row has its bytes but in the middle of a removal or a restore, and every saved backup
  its own (`AgreeingUnlessTorn`).

### Billing and backups

`OperationsProofs`:

- `BillingTypesCorrect`, `BackupTypesCorrect`. The second needs that what a chain restores is data of
  components, whatever its length (`PayloadIsCaptured`, by a least counterexample).
- `RefundsStayWithinBalance`: at most one refund has a place in the balance (`OneClaim`), counting
  requests Paddle may still accept; the request, Paddle's adjustment and the events about it
  agree (`Agree`). Only `Reserve`, under its lock, takes a place.
- `RepeatsNeverSetBack`: the recorded events are the first n, and the subscription shows the last of
  them or, while the request that recorded it applies it, the one before (`InStep`); an event
  delivered again meets its record.
- `ChainsStayWhole`: the base of every backup, on record or under way, is on record with its artifact
  and nobody has looked at it and is about to delete it (`BasesStand`). `ChainsAreWhole` is a statement about
  a recursive function; that it has a value at all is proved from a set of backups closed
  under taking the base (`WholeIsDefined`).
- `PayloadsStayCaptures`: a backup on record restores what was captured for it, whatever the
  length of its chain. Nothing in the prover does induction over the chain; instead `PayloadIsDefined` names
  the value of the recursive function (the newest holder of each component on the chain) and `PayloadStays` shows
  by a least counterexample that a step changes no payload of a backup that was there before.

### The platform

`PlatformProofs`:

- `HostingTypesCorrect`, `SiteStaysWhole`: `HostingInv` says who may be writing to a deployment (`OneWriter`), that listed
  files are stored, that what is served is complete and that the deployment a site names is served.
- `PreviewTypesCorrect`, `ReadyStaysUsable`, `RemovedStaysEmpty`: unless a removal overlapped with
  another request, one request works on a preview at a time, what it has done so far is
  what its stage says, and a preview no request works on is settled (`PreviewInv`).
- `CampaignTypesCorrect`; `ClaimsAreExclusive` and `OutcomesAreTrue` from one invariant (`AllSound`) on
  each campaign: one sender at most holds it, only while it is `sending`, unless it was recovered or failed
  late; a sender that is about to write `sent` or `partial` has reached somebody, and a campaign whose
  recipients were reached is neither `queued` nor cancelled, whoever reached them.
- `CancelledStaysCancelled`, an action property: a sender that works on a cancelled message was at
  it when `cancel()` answered (`LateKnown`).

### Realtime

`RealtimeSessionProofs`: `RealtimeTypesCorrect`, `RoomsAreMirrored`, `MembersJoined`,
`PresentStayMembers`, `SubscriptionsStayAgreed` and `NoTraceIsLeft`, from one invariant on the five
tables (`Tables`), on connections and waiting handlers (`Sessions`) and on sockets that have not
connected (`Fresh`). A delivery removes any number of receivers in the middle of a handler,
so the tables are described by what they say of one connection at a time (`RoomsFit`,
`SubsFit`, `NoTrace`), which makes the removal of a set of connections a fact about
each of them.

`RealtimeChannelProofs`: `ChannelTypesCorrect`, `OneConnectionOnly` and `ResolvedMeansServed`, from
`ChannelInv`. While no `subscribe()` overlapped with an older connection, a channel that is wanted has
its socket, or the one timer that is armed, or has given up, and one that is not wanted has
none of them (`OneWay`); the answers under way on its socket agree with what the server knows
of it (`Conversation`): one request at a time until the channel is joined, and from then on as many
registrations are served as are acknowledged or about to be. A new timer has a handle of its own as
the least free number exists.

### What stays with TLC

- Liveness (`EveryEventSettles`, `EveryJobSettles`, `SubscribeSettles`, `Rejoins`): weak fairness is
  defined by ENABLED, which the prover does not handle.
- The two promises that the code does not keep: TLC's counterexamples refute them.

Every other property of the runs, invariants, action properties and the two refinements, is a
theorem.

## Disagreements found

Each is a run whose property states a promise of the repository and is violated by what
the code does.

- `campaigns_twice`: `README.md:36` promises an atomic claim so that several instances do not
  send a campaign twice. The claim of the campaign holds (`ClaimIsExclusive`), but a push
  campaign queues a message as `queued` and due, which the messaging timer of any instance selects without a
  claim while the campaign's own `send()` delivers it (`advancedPlatformEngine.ts:244`,
  `messagingEngine.ts:208`, `:261`).
- `previews_cleanup`: the catch block of `expireDue()` says that the cleanup is retried on the
  next management request (`previewDatabaseEngine.ts:281`); `remove()` has written `deleting`
  by then (line 246) and `expireDue()` selects `ready` previews only (line 275).

## Observations

Behaviours the models show and the properties except or bound; the line is where it happens.

- The recovery reopens a row whose last attempt was in flight and does not compare
  `attempt_count` with `max_attempts`: an event may be sent once more per recovery than configured
  (`webhookEngine.ts:185`). `RetryBudget` is the bound that holds.
- A late answer overwrites the outcome of a newer attempt (`webhookEngine.ts:216`), and an event whose
  success could not be recorded is sent again (`:217`; `unacked`).
- A success between the failing increment and the disabling UPDATE resets the counter and the
  webhook is disabled all the same (`webhookEngine.ts:224`).
- The concurrency limit is compared before the claim and the job enters `runningJobs` after it,
  so calls in flight together exceed it (`persistentFunctionEngine.ts:318`).
- The outcome of a job is written before `finally` takes it out of `runningJobs`. A claim of the same
  replica in between, after `retryJob()` or an expired backoff, is dropped, and the job stays in
  `processing` until a replica starts (`persistentFunctionEngine.ts:322`; `dropped`).
- A campaign whose own send fails says `failed` although the messaging timer has delivered its message,
  and one whose statement fails after part of the devices were served does too (`messagingEngine.ts:234`,
  `:261`; `others`, `disturbed`). Both can be sent again.
- A join, subscribe or track that resumes after its connection was removed leaves an entry
  nobody removes (`websocketServer.ts:170`; history `late`). Of two `connect` messages in
  flight the second replaces the scope (`:135`; `rescoped`). A `track` under another spelling
  leaves a presence without a membership when the first spelling is left.
- A `subscribe()` of the SDK that meets a socket or a timer of an older one opens a second
  connection, and the close of the first sets `this.ws` to null
  (`brisaBaseClient.ts:174`; `overlapped`).
- A `subscribe()` that is pending when `unsubscribe()` is called, or when the reconnect limit is
  reached, is never settled; `SubscribeSettles` names both.
- Two refreshes with one token both rotate it (`realAuth.ts:70`; `raced`).
- `updateUser()` writes back the whole row it read, `password_hash` included (`realAuthRepository.ts:77-85`). A
  login, or a change of the status, that has read the row when a recovery completes restores the old
  password, and the login opens a session on it; a change of the password asked for with the
  old one prevails as well, and a refresh past its check issues a token (`overtaken`). The
  comment at `passwordRecovery.ts:179-180` says that only the newest completed recovery remains
  authoritative: of the mails that holds, and of the sessions and tokens there are when it commits,
  but not of the password.
- Overlapping uploads without versions, or overlapping with a removal, leave bytes of one under
  the row of the other (`realStorageEngine.ts:64`; `contended`). A restore that fails after
  it wrote bytes leaves the snapshot's bytes under live rows (`:129-147`; `torn`).
- An export reads objects and versions in two statements (`realStorageEngine.ts:117`). When a
  path is created and uploaded to again in between, the backup holds a version without its object;
  the foreign key then refuses the restore of that backup, after bytes were written (`Refers`).
- An upload that fails between its version row and its UPDATE leaves a version row that makes
  every later upload of the path fail on UNIQUE(object_id, version), as each tries to record the
  same version again (`realStorageEngine.ts:64`).
- Parts sent side by side drop each other from the list (`realStorageEngine.ts:99`;
  `sideBySide`); a completion under way when the abort is answered may still assemble.
- A part sent again whose statement fails after the bytes were stored has another length than the row
  lists: the completion cuts the end of the object off or fills it with zeros, and answers
  with success (`realStorageEngine.ts:102`; `doubtful`).
- Files of one deployment sent side by side drop each other from the manifest
  (`hostingEngine.ts:256`; `mixed`), and `deploy()` that fails after its activation marks the
  deployment the site names as failed (`:311`; `undone`).
- Removing a preview twice at a time, or while it is created, may leave a schema behind
  (`previewDatabaseEngine.ts:246`; `overlapped`).
- A subscription event that overtakes `subscription.created` updates no row and is remembered as
  processed (`localBillingEngine.ts:189`; `overtaken`); a failure between the record and the
  application makes Paddle's retry a duplicate (`:178`; `cut`).
- A backup whose base is deleted while it is made has a chain without a start
  (`backupEngine.ts:547`; `unhooked`). `restoreBackup` tests `activeRestores` before an await and
  adds to it afterwards (`:460`), so two restores may run together.

## What is not modelled

- Parsing and generation of SQL, GraphQL, policies and cron fields are functions on strings; TLC
  and TLAPS have nothing to say about them at a useful size. Cryptography, mail, payment, S3
  and the executor of functions are external.
- Observability and the infrastructure registry are written and not read by the core.
- The console and the rest of the SDKs are request and response over HTTP; their React pages are
  about half of the repository's lines, and the test-mode engines (`storage/storageEngine.ts`,
  `routes/authEngine.ts`, `db/authDatabase.ts`, `db/projectDatabase.ts`, `db/database.ts`, ...),
  in-memory fixtures that never run in production, most of the rest. The modules cover the
  engines in which requests interleave or fail half way, a small share of the lines.
- Smaller parts of modelled components are named in the notes of `PROJECT.json`: session
  revocation by administrators, buckets and copies, invoices and the usage ledger, sites and
  domains, `disconnectAll`, broadcasts of the SDK.
- Left for later modules: schedules (a run is lost between the claim of its minute and the
  enqueue, `functions/persistentFunctionEngine.ts:328`; two deployments that publish at once,
  `:179`), the change feed, the alert dispatcher, one-time codes (the attempt counter,
  `auth/realAuthRepository.ts:124`), the migration lock (`db/postgres.ts:113`), and a counter
  whose EXPIRE was lost (`redis.ts:80`).

## Plan

What the modules state is proved, but for [liveness](#what-stays-with-tlc). The
modules left: `ChangeFeed` (two replicas, Redis between them, the memory of event ids, the hand-over
to `WebhookDelivery`'s `emit`), `FunctionSchedule` before `FunctionQueue`'s `enqueue`,
`AlertDispatcher`, and one-time codes beside `UserSessions`.

# Verification of the fuel tracking platform

TLA+ modules, TLC configurations and TLAPS proofs for the stateful core of this
repository: the WhatsApp outbox, the engine commands sent to devices, the document
scanner's queue, the alert subscriber, the ignition debounce, the refill sessions and
the cold archive. Each is a place where several processes or callbacks write the same
rows, keys or map, where a crash or a lost answer leaves a half-done step behind, and
where the code tries to keep a promise in spite of that.

Paths below are relative to the repository. `PROJECT.json` lists the runs, the
mutants, the hazards, the theorems and, definition by definition, the source lines
each one stands for.

## 1. The system

The backend is a handful of Node processes around PostgreSQL/TimescaleDB and Redis.

| Component | State it keeps | Operations | Talks to | Model |
|---|---|---|---|---|
| TCP ingestion server (`tcp-server/server.js` and handlers) | `connectedDevices`, `pendingCommands` (memory), one closure per connection | packets, registration, close and timeout of connections, `dispatchCommand` | devices; publishes to Redis; subscribes to `device_commands` | `DeviceCommands` |
| Immobilizer endpoint | `vehicle_latest_state.immobilizer` | publish a command, record it | Redis, PostgreSQL | `DeviceCommands` |
| Location subscriber | ignition debounce and previous state (Redis), distance queue (memory) | one handler per packet, concurrently | Redis, PostgreSQL, alert channel | `IgnitionTracking`, `RefillSession` |
| Fuel event aggregator | refill sessions (Redis), set of vehicles with one (memory) | packet, finalise | location subscriber, alert channel | `RefillSession` |
| Alert subscriber | cooldowns, battery latch (Redis) | one handler per alert | PostgreSQL, push, outbox producers | `AlertSubscriber` |
| WhatsApp outbox | table `whatsapp_messages`, `isProcessing` (memory) | enqueue; maintenance, claim, dispatch, record | Meta's API | `WhatsAppOutbox` |
| WhatsApp webhook and operator handlers | same table, `whatsapp_recipients` | status callbacks, STOP/START, delete, retry | Meta, dashboard | `WhatsAppOutbox` |
| Document scanner | `document_scans`, `document_scan_fields`, files | upload, claim, process, commit, fail, recover, confirm, purge | API, worker process, purge job | `ScanQueue` |
| Cold archive | `restore_requests`, `gps_points`, objects in S3/Glacier | archive and drop, request, monitor | PostgreSQL, S3, mail | `ColdArchive` |
| Daily report job | idempotency key in the outbox | one pass per day | outbox | - |
| Protocol parsers, validator, publisher | none | decode, validate, publish | TCP server, Redis | - |
| Government bridge (TGMSS) | queue, token, vehicle cache (memory) | nothing calls it | government HTTP API | - |
| Webhook, mines and SCLEN pushes | throttles (memory) | best-effort POSTs | HTTP endpoints | - |
| WebSocket fan-out, push, mail, SSH tunnel, audit | none of their own | forward, append | libraries, providers | - |
| Vehicles, onboarding, geofences, reports, billing, auth, mining, profile API | PostgreSQL rows | CRUD and queries | PostgreSQL | - |
| OCR, field extraction, fitment merge | none | text heuristics | scanner | - |
| Frontend, scripts, schema | | | | - |

The path of a fuel reading crosses four of them: the TCP server publishes the packet, a
location handler compares it with the cached reading and hands it to the aggregator, which
publishes one alert per refill; the alert subscriber writes the row and queues the
WhatsApp messages; the outbox sends them. `FuelAlerts` composes the middle of that path.

What is hard here:

- **Interleaving.** Node is single-threaded, but every `await` is a point where another
  handler runs. Redis messages start handlers that nobody awaits, so several packets or
  alerts of one vehicle are in flight at a time, and what one of them read from Redis
  may be stale when it writes; sockets close while a frame is suspended.
- **Crash and restart.** PM2 restarts processes; `connectedDevices`, `pendingCommands`,
  `isProcessing` and the set of refill sessions are memory only, while rows and keys
  keep what was half-done.
- **Lost answers.** A POST to Meta may time out after it was accepted, an INSERT may
  commit and its answer be lost, a socket may be half-open, a Redis command may have
  taken effect and answer with an error.
- **Retry limits, visibility timeouts, TTLs.** Outbox rows carry three clocks and a
  budget, compared in different queries; every Redis key runs out by itself.
- **Order of effects.** Publish before UPDATE, UPDATE before DELETE, unlink before
  UPDATE, cooldown before the row, `completed` before the mail: what an error between
  the two leaves is rarely tested.
- **Device time.** Packets carry the device's clock and arrive late, buffered or out of
  order, and the debounce and the sessions compute with it.

What makes each component correct:

- *Outbox:* a message is not sent twice except where it cannot be known that it was
  sent; each row ends in a final state; opt-out and the cap hold at the time of the call.
- *Commands:* one usable registered connection per device, a parked command fires once
  and only while fresh, commands arrive in order, the dashboard shows what the device
  was told.
- *Scanner:* an accepted document is settled after a bounded number of runs, never
  parked out of reach; files and data disappear when they must, and only then.
- *Alerts:* one alert per cooldown, none dropped without one like it, the rows about the
  battery alternate and the last one tells its state, one theft per ten minutes.
- *Refill sessions:* a fill of the tank is announced once, forwards, and a session is never
  left behind where no packet looks at it.
- *Ignition:* a dip shorter than the debounce is absorbed, the dashboard's ignition follows
  the debounced one, ON and OFF are told in turn.
- *Archive:* no point leaves the database before its file is in the bucket, an answer is
  complete, a user is told that files are ready when they are, no request stays pending.

## 2. Modules

| Module | Contents |
|---|---|
| `WhatsAppOutbox` | table, workers, Meta, webhook, operator; `Implements` refines `MessageLifecycle` |
| `MessageLifecycle` | abstract specification: what the outbox promises of an undisturbed message |
| `DeviceCommands` | HTTP handler, Redis channel, TCP server's registry and pending queue, one device; `Implements` refines `CommandDelivery` |
| `CommandDelivery` | abstract specification: what the downlink promises of one device's commands |
| `ScanLifecycle` | abstract specification: what the scanner promises of a document |
| `ScanQueue` | uploads, worker, confirmation, purge; `Lifecycle` is the refinement |
| `AlertSubscriber` | the handlers of the `alerts` channel for one vehicle, and the producer of WhatsApp rows |
| `RefillSession` | the aggregator's sessions and the cached fuel reading that feeds it |
| `FuelAlerts` | `RefillSession` and `AlertSubscriber` composed: from a reading to the rows; `Implements` refines `FillLedger` |
| `FillLedger` | abstract specification: what becomes of each fill of the tank |
| `IgnitionTracking` | debounce, cached state and engine alerts of one vehicle |
| `ColdStore` | the bucket with its lifecycle rule and restores (external), and the clock |
| `GpsArchiver` | nightly archiver and the database's retention policy, over `ColdStore` |
| `ArchiveRestore` | route requests and the restore monitor, over `ColdStore` |
| `ColdArchive` | the two composed over one bucket and one clock; `Implements` refines `ArchiveLedger` |
| `ArchiveLedger` | abstract specification: where points are, what was asked back, what was told |
| `...Proofs` | theorems about the module they are named after (section 4) |
| `MC...` | constants of the small instances |

Operators whose name starts with `Faulty` or `Loud` are plausible bugs of the definition
that follows them. Nothing uses them; `PROJECT.json` names, for each property, the one
that must break it when it takes that definition's place.

In every module a step is what the code does between two awaits, that is, one SQL
statement, Redis command or HTTP call with the synchronous code that leads to it.
Variables marked `history` in a module are not in the code: they remember an excuse (two
handlers overlapped, a call failed, a key ran out), so that a property can say that
it holds in all other cases.

### WhatsAppOutbox

One row per message, with the schema's status, attempts and `meta_message_id`
(`wamid`, an ordinal of the copy). `next_attempt_at`, `expires_at` and `updated_at` are
kept as the facts the queries ask of them: `due`, `lapsed`, `stale`. A worker is `pc`
(where `processOutboxBatch` is), `held` (claimed rows still to do), `snap` (what the
claim read of them), `verdict` and `reply` (the outcome about to be stored).

| Code | Actions |
|---|---|
| producers' `INSERT ... ON CONFLICT DO NOTHING` | `Enqueue` |
| `processOutboxBatch`: tick and minute timer | `Tick`, `MinuteElapses` |
| `markExpiredMessages`, `recoverStuckSendingMessages`, their catch blocks | `MarkExpired`, `RecoverStuck`, `MaintenanceFails` |
| claim transaction, its rollback, rejected `pool.connect()` | `Claim`, `ClaimFails`, `ConnectFails` |
| dispatch loop: opt-in check, cap check, `sendTemplate`, UPDATE | `CheckOptIn`, `CheckDailyCap`, `SendAccepted`, `SendTimesOut`, `SendRejected`, `RecordVerdict`, `DispatchThrows` |
| status callbacks, in any order, any number of times | `StatusSent`, `StatusDelivered`, `StatusRead`, `StatusFailed` |
| STOP/START, deletion of a recipient, retry endpoint | `Stop`, `Start`, `DeleteRecipient`, `Retry` |
| process dies and is restarted | `Crash` |

`excused` records that something happened to a message that costs the outbox its
exactly-once reading: its outcome was not stored (crash or failed UPDATE after Meta
accepted), the call timed out, Meta reported a failure after accepting, the row
was taken back from a worker that still held it, or an operator retried it. That
window is acknowledged in `docs/WHATSAPP_QA_REPORT.md` (about line 175); the
properties say that there is no other.

`MessageLifecycle` is the outbox with the workers, the claim and the table taken away: a
message waits, is attempted, is handed over at most once, and ends sent, dead or expired;
reports move a sent message forward; an operator reopens only what was not handed over. The
mapping (`LifePhase`, `LifeTries`, `LifeGiven`) takes a row in a worker's hands for `attempting`, and for
`disturbed` a row with an excuse. `tries` is the row's `attempts` while it is not settled: the code charges a try from the
snapshot its claim took, and `SnapAgrees` is why that is the row's own count.

Left out: the pause while Meta is not configured (`whatsappWorker.js` 161-175), the
NO_PHONE branch (the column is NOT NULL), several organisations, the day rollover of
the cap, `pruneOldMessages` (never called). The theft cooldown before the insert is in
`AlertSubscriber`.

### DeviceCommands

One device, up to three of its connections, requests numbered as they are
published. An event-loop callback of the TCP server is one step: registration runs
synchronously in the `data` event, `setImmediate` callbacks are a queue of their
own, and a frame that awaits `publishRawMessage` is `awaiting` until it continues --
whatever has happened to its connection by then. `conn` distinguishes `half` (the device
is gone and the server does not know) and `destroyed` (the close event is still to run).
On the binary ports a location or an alarm replaces the socket of an entry and leaves its
`clientId`, and the close handler deletes by either: `holder` is the connection whose
`clientId` the entry has, so that a late close can unregister a newer connection.

| Code | Actions |
|---|---|
| `toggleImmobilizer`: publish, then UPDATE, which may throw | `Publish`, `RecordState`, `RecordFails` |
| Redis message handler, `dispatchCommand`, `pendingCommands` | `Receive`, `RunImmediate`, `TtlElapses` |
| `registerDeviceSocket` and the delimiter `data` handler | `FirstPacket`, `LaterPacket` |
| CONCOX / PT06 branches: raw log first, then the registry | `FrameArrives`, `FrameContinues` |
| EC08 branch | `Ec08Heartbeat`, `Ec08Location` |
| connections, idle timeout, close handler | `Connect`, `LinkLost`, `IdleTimeout`, `Close` |
| the process stops and starts | `Stop`, `Start` |

`protocol` selects the kind of port. FMB920 registers like the delimiter ports, V54G like
EC08, PN02 like PT06 at login; VOLTYFUEL keeps no registry and is not modelled. The
`override` command exists in the adapters, and no code of the backend sends it.

`CommandDelivery` knows no connections: a request is new, open, delivered or dropped, the
device receives requests in order except those a newer one passed on its way, and what was
dropped is never delivered. Open are the requests in the channel, parked or scheduled. A
restart, a TTL or a newer parked command drops some.

`overtaken` and `split` are histories that name the two known windows: a newer command
arriving between registration and the `setImmediate` that fires the parked one, and
two HTTP handlers that overlap (or one that fails between its two effects).

### ScanLifecycle and ScanQueue

`ScanLifecycle` has one phase per document (none, pending, running, stranded,
settled) and the runs charged to it: at most `MaxAttempts` runs, a run is given back only
with runs left, settled is final, a run cut off by a shutdown may strand.

`ScanQueue` is the code. Status `done` stands for `done` and `needs_review`.
`next_attempt_at` and `locked_at` are the facts `due` and `stale`. The upload, the worker
and the purge each have a program counter (`upload`, `pc`, `purge`). `path` says that
`file_path` still names the file and is not `[PURGED]`, which is not the same as the file being on
disk: every caller of `unlinkSync` swallows its error and goes on (`Unlink`).

| Code | Actions |
|---|---|
| upload middleware, `createScan`: check, INSERT, catch block | `Receive`, `CheckDuplicate`, `Insert`, `InsertThrows` (`RemoveUpload`) |
| `recoverStuckJobs`, `claimNextJob` | `RecoverStuckJobs`, `ClaimNextJob` |
| `processScanJob`, `_commitScanResults`, `_failScanJob` | `ProcessScanJob`, `CommitScanResults`, `CommitThrows`, `CommitAnswerLost`, `FailScanJob` |
| process dies; `stop()` on SIGTERM, exit, restart | `Crash`, `Stop`, `Exit`, `Restart` |
| `confirmScan` | `ConfirmScan` |
| `scanRetentionPurgeJob` | `PurgeSelect`, `PurgeUnlink`, `PurgeUpdate`, `PurgeDelete`, `PurgeFails`, `PurgeFailedFile` |

Histories: `cut` (released by SIGTERM in the last attempt), `raced` (confirmed, purged, or
committed without an answer, while a worker held it), `halted` (the last purge failed
between UPDATE and DELETE) and `left` (the last unlink of the file failed) name the
windows the disagreements of section 5 are about; the properties hold outside of them, and
`ScanConfirmed` states what a document says without one.

Left out: the feature flag's pause, the queue-depth guard before an upload, what
the extraction computes, vehicle and audit rows that the confirmation writes in its own
transaction, stopping or losing an idle worker (nothing changes).

### AlertSubscriber

The handlers of one vehicle's alerts, numbered as they are published. `stage` is where a
handler is; `lastState` is what it read of the battery latch. Keys with a TTL exist or
not, and time is the actions that remove them.

| Code | Actions |
|---|---|
| `PUBLISH alerts`, the message event | `PublishAlert`, `Deliver` |
| lookup of the vehicle | `Resolve` |
| battery latch: GET, then SET, with their failures | `ReadLatch`, `ReadLatchFails`, `WriteLatch`, `WriteLatchFails` |
| cooldown per type: GET, then SET, and the catch that goes on | `ReadCooldown`, `SetCooldown`, `CooldownFails` |
| `saveAlert`, the outer catch | `SaveAlert`, `HandlerFails` |
| `enqueueWhatsAppAlert`: `SET ... EX 600 NX` for thefts, recipients and INSERT | `Reserve`, `InsertRows`, `EnqueueFails` |
| TTLs; the API process restarts | `CooldownExpires`, `TheftKeyExpires`, `LatchExpires`, `AlertRestart` |

`InsertRows` inserts a row per recipient, or returns without any when nobody opted in to the
type has the vehicle in scope (`nobody`): a theft has taken its key by then.

Histories: `passed` and `theftBy` collect who passed a key in its present life;
`overlapped`, `broken`, `silent` (the latch moved and the row was not written) and `lapsed`
are the excuses. Left out: the noise filter and the geocoder, which keep no state, the
filter of raw ignition alerts, and what follows the row (socket, push, mail).

### RefillSession and FuelAlerts

One vehicle. A handler compares its packet with the cached reading, hands both to the
aggregator without awaiting it and caches its own reading. The process has one Redis
connection, and Redis executes and answers its commands in the order they are issued:
a command takes effect when it is issued, and `replies` is the queue of handlers that
wait for their answer. A database query lies between the reading of the cache and the
call, so that handlers overlap there too. `NoSession` is the absent key; sessions
are numbered by `opened`, which the code does not do.

| Code | Actions |
|---|---|
| cached state, rollback check (`locationSubscriber.js`) | `FirstPacket`, `Begin` |
| aggregator's early return, GET of the session | `Skip`, `Look` |
| `processRefillPacket`: open, raise the peak, keep, discard or settle, ignore | `Open`, `Raise`, `Keep`, `Delete`, `Ignore` |
| answers to SET and DEL: add to or remove from the set, publish | `Stored`, `Discarded`, `Settled` |
| a command's answer is an error, TTL of the session, restart | `CommandFails`, `SessionExpires`, `RefillRestart` |

`FuelAlerts` runs both in the API process: a drop (`Drops`) publishes a theft, a settled
session a refill, each as the next message of `AlertSubscriber`, and a restart hits both.

`FillLedger` is about the fills alone. A fill is open (its session is in Redis or in a handler's
hand), closed without an announcement, announced, and then told in a row, dropped as a
duplicate, or lost with a failed call or a restart; a fill that two packets had in hand at once
is disturbed. `FillPhase` computes this from both components; a state that fits none of them
(announced and still open, two alerts for one fill) maps to "undue", which is no phase of the
ledger.

Left out: the `fuel_refill` message the location subscriber publishes for a rise
(`locationSubscriber.js:758`), a type of its own with a cooldown of its own;
`acquireTheftCooldown`, which nothing calls; the average over sloshing readings.

### IgnitionTracking

`keys` are the three keys of the debounce and the two of the alerts, `state` the cached
state. In the debounce a handler awaits nothing but answers of the one connection,
so handlers take turns in it (`turns`); after it they interleave freely. Times are the
device's, in units that keep the order of the code's intervals (3, 5 and 15 minutes).

| Code | Actions |
|---|---|
| packets, live or buffered, of any device time up to now, or ahead of it by `Ahead` | `Arrive` |
| debounce: GETs, then the SETs and DELs it decides on | `ReadStable`, `ReadPending`, `ReadSince`, `WriteDebounce` |
| timestamp and jump checks, cached state | `ReadState`, `CacheState` |
| engine ON and OFF: conditions, keys, publication | `CheckAlert`, `WriteFired`, `PublishIgnition` |
| TTLs, a command that throws, a restart | `DebounceExpires`, `FiredExpires`, `StateExpires`, `HandlerFails` |

Which points the checks drop (a rollback of more than 2 minutes, a time 30 days behind or 15
minutes ahead, an impossible jump) is left open, and so is the speed between 2 and 5 km/h at
which a vehicle that is off is not parked: any point may be dropped, and any point that says
off may count as parked or not. Left out: odometer, trips, geofences, routes, parking, idling
and maintenance alerts.

### ColdStore, GpsArchiver, ArchiveRestore, ColdArchive

A file is one day of one vehicle. `ColdStore` is what the code uses of S3: the class and
the `Restore` header HeadObject tells, and a clock that ticks once a day. Day n is
the one that is 170 days old on night n.

| Code | Actions |
|---|---|
| `archiverJob.js`: the day's vehicles, Put and Head per file, `drop_chunks`, the catch | `RunArchiveJob`, `Upload`, `Verify`, `DropOldChunks`, `ArchiveJobFails` |
| TimescaleDB's retention policy | `RetentionPolicy` |
| a day passes, with or without the job | `DayPasses`, `RowsAge` |
| `getArchivedRoute`: Head, Restore, INSERT per day; then Get per day | `GetRoute`, `HeadObject`, `Restore`, `Register`, `RestoreRefused`, `GetObject`, `Answer` |
| its catch blocks, restart of the API process | `CallFails`, `ApiRestart` |
| `checkPendingRestores` | `PassStarts`, `SelectKeys`, `CheckKey`, `GiveUp`, `MarkCompleted`, `Notify`, `MailFails`, `PassDies` |
| Glacier finishes a restore (external) | `GlacierDelivers` |

`missed` names the files whose night failed or never ran: the archiver never makes up
for them. `skipped` names files a failed call passed over, and `turned` those that froze, or
whose copy lapsed, between their HeadObject and their GetObject: the Get of such a file fails, is
logged and is passed over. An answer may be overtaken by the end of a day, by drops and by
Glacier at any point as long as it has found nothing to restore. What a pass or a restoring
request has seen is not (`Quiet`): both take seconds against the hours of a restore and the
days of a cutoff, which count whole days from the day of the INSERT. `asked[r].on` is the day
a request came; a day of its range that is archived and dropped while it is answered is not
in what it owes.

`ArchiveLedger` is what the three programs promise together. The points of a file are in the
database, then in both places, then in the archive; or their night did not attend to them,
and then they are lost. A restore is asked for by a request that nothing was settled of yet,
is completed alone or given up with its whole group, and the group gets one mail, which says
what all of its rows are and stays true. The mapping (`Ledger`) reads the place of a file off
`points`, `dropped`, `missed` and the bucket (`Place`), and takes the rows without their
age (`Restores`); freezing, thawing, keys, the cursor of a request and the phases of a pass
are stutters.

## 3. Runs

Passing runs (distinct states as TLC reports them):

| Run | Instance | States | Shows |
|---|---|---|---|
| `OutboxRow` | 1 alert row, 2 workers, 2 attempts, 1 fault of any class or operator retry | 3,348,496 | `MessageLifecycle` is implemented; no stranded row; one holder per row and one copy at Meta outside of the excuses; opt-out is respected outside of the check-to-call window |
| `OutboxReports` | 2 daily reports, cap 1, 1 worker, 1 fault or operator retry, fair | 275,460 | the cap holds; every queued row settles |
| `CommandsDelimiter` | 3 connections, 3 requests, 1 restart, 1 failed UPDATE | 1,587,817 | `CommandDelivery` is implemented: no command twice, order; one live registration, row agrees with device |
| `CommandsRegistry` | CONCOX, PT06 and EC08, 3 connections, 1 request, 1 restart, fair | 608,787 | a device that stays connected ends up registered for good |
| `ScanQueue` | 2 uploads of one file or two, 1 worker, 2 attempts, unlimited crashes, unlinks and a purge that fail and an INSERT and a commit without an answer for one of them, fair | 1,193,570 | documents settle, data and files go when they should unless an unlink failed, `ScanLifecycle` is implemented |
| `AlertSubscriber` | 3 alerts of any types, 2 failed calls or restarts, keys that run out | 4,861,847 | the latch alternates and is told, one alert per cooldown, none dropped without an original, one theft per key |
| `FuelAlerts` | 4 packets in 2 handlers, times out of order, a tank that is empty, low or full, 2 alerts, 1 fault of each part | 2,602,853 | `FillLedger` is implemented; a fill is announced forwards and told in one row; no session is left out of the set |
| `Ignition` | 3 packets in 2 handlers, live or buffered, dropped or not, 1 fault | 8,049,235 | dips are absorbed, the cached ignition follows the debounced one, ON and OFF in turn |
| `ColdArchive` | 3 nights, chunks of 2 days, 1 vehicle that moved every day or on the first only, 2 requests of 2 days, 1 fault, fair | 1,557,838 | `ArchiveLedger` is implemented; answers complete but for the named days, mails truthful, pending restores settle |

Violation runs, each one a disagreement between the code and a document or comment that is
quoted in `PROJECT.json`:

| Run | What TLC finds |
|---|---|
| `OutboxWedge` | a rejected `pool.connect()` leaves `isProcessing` set; the worker never polls again |
| `ScanConfirmed` | a document confirmed while it is processed goes back into the queue |
| `IgnitionReplay` | a buffered packet of an earlier drive sets the stable ignition, and the next live packet of the parked vehicle raises Engine ON |

**Bounds.** `MaxAttempts` is 2 (5 and 3 in the code), the smallest value that has
a first, a last and no further attempt; comparisons with the limit behave alike above.
Two rows suffice for cap and claim order, because the cap is a comparison of a count with a
limit of 1. Two outbox workers are more than production runs (`ecosystem.config.js`: one
process of each kind); `OutboxRow` has them because the claim is written for several.
Three connections are needed for a zombie, the connection that replaces it, and a late
frame of a third. Three requests let one be parked, superseded and overtaken. Three alerts
are two that race and one that finds what they left. Two handlers of packets are the
smallest number that overlaps; three device times with windows of one are one inside a
window, one at its edge and one beyond. Four packets open a session, raise it, settle it and
open another. Readings 0, 1 and 3 are the glitch, a level and one that is a refill from either.
Two days per chunk make a chunk reach over two nights, and three nights a chunk that is
whole and one that is not. Faults are capped by `MaxFaults`, `MaxAlertFaults`,
`MaxRefillFaults`, `MaxIgnFaults`, restarts of the TCP server by `MaxRestarts`, failed
UPDATEs by `MaxDbErrors`; crashes of the scan worker are not capped, the attempts cap them.
`MaxCopies` 2 is one more than the property allows. `Unlucky` 1 is the one of the two uploads
whose unlinks and purges may fail, as often as they are tried, and whose INSERT and commit may
go unanswered; the other one shows that nothing leaks from document to document. `Lengths` {2}: a route of two
days has a day before and a day behind the cursor in both loops; the route handler treats each
day alike. Requests take their ids in one order, because the code draws random ones.
`Ahead` is 0 in `Ignition` and 1 in `IgnitionReplay`; the theorems have it arbitrary. Keys run out as often as they like
except those of the ignition, each of which uses a fault. The proofs of section 4 have
none of these bounds but the names of the constants.

One case is beyond these bounds: an undisturbed fill whose alert the cooldown swallows takes
two fills, hence six packets, where `FuelAlerts` has four. `FuelImplementsLedger` covers it, and
one handler with six packets reaches it in TLC.

`SYMMETRY` (connections, workers, handlers) is used in `CommandsDelimiter`, `OutboxRow`,
`FuelAlerts` and `Ignition`, which have no liveness property.

**Deadlock** is checked in `OutboxReports`, both `Commands` runs and `ColdArchive`. The
others switch it off because they really may stop: a single settled row whose worker is
wedged or whose recipient is gone has nothing left to happen, uploads are bounded, and so
are packets and alerts.

**Fairness.**
- *Outbox:* `setInterval` fires and awaited calls return (`WorkerStep`), the minute timer
  runs, TTLs and the visibility timeout elapse. Faults, callbacks, customers and
  operators owe nothing. A fault is an alternative to the step it disturbs, at most
  `MaxFaults` times.
- *Commands:* a connected device keeps reporting and awaited publishes return.
  Links, timeouts, operators and restarts owe nothing.
- *Scanner:* the poll timer fires, awaited calls return, some poll runs the recovery (it does
  so with probability 0.03 per poll), PM2 ends and restarts the worker
  (`kill_timeout`), time passes. Users, faults and the purge owe nothing; the outcome of a
  run is never assumed to be success.
- *Archive:* days pass (strong fairness, because a day cannot pass in the middle of a
  pass or of a restoring request, which come and go), PM2 starts the monitor and its queries return, the
  archiver and answers under way go on. Nobody has to ask and Glacier need not deliver:
  the cutoff must do.
- *Alerts, sessions, ignition:* no liveness is claimed and no fairness assumed.

## 4. Proofs

TLAPS checks eight modules, for every value of the constants under the assumptions named in
the modules: `OutboxAssumption`, `CommandAssumption`, `ScanAssumption`, `AlertAssumption`,
`RefillAssumption`, `IgnAssumption`, and for the archive `StoreAssumption`,
`ArchiverAssumption`, `RestoreAssumption` and `CutoffAssumption`. All but the last say that
bounds are naturals and that "none" values are not members. `CutoffAssumption` is a fact
about two settings: a restore is given up after 48 hours, and a thawed copy lives 3 days.
TLC evaluates the assumptions on every run. In each module one lemma per conjunct of the
inductive invariant, or per group of actions, does the step.

**`WhatsAppOutboxProofs`.** `TypeCorrect`, then `RowInvariant`: `RowInv` is
inductive together with `TypeOK`. It is needed because "Meta has at most one copy"
says nothing of who may make the next one: `RowAgrees` adds that a held row is
`sending`, that a copy exists exactly if the row is accepted or its holder is about to say
so, and that an unheld `sending` row was never sent. `ExclusiveHolders` and
`AtMostOneCopy` (`DuplicateOnlyWhenExcused`) follow. `FirstInOrder` and `CurrentHeld` show
that the `CHOOSE` in `Current` finds a held row, by well-foundedness of the naturals.

- `NeverParked` (`NoStrandedRow`): `RowChange` lists, statement by statement, how a step may
  change a row; a verdict that leaves the budget spent goes to `dead`.
- `SettledIsFinal` (`SettledStays`) reads the same list; no run checks it, because
  `MessageLifecycle` says more.
- `OutboxImplementsLifecycle` (`Implements`). `SnapshotsAreCurrent` (`SnapAgrees`) comes first:
  what a worker read of a row it still holds is what the row says. `MessageMoves` goes through
  `RowChange` case by case and names for each the move of the abstract message; `OneTryCharged`
  and `HandedOver` do the arithmetic of the budget and of the copies.
- `LeaversAreSpared` (`OptOutRespected`) needs `Welcome`: between the check and the call the
  recipient is opted in or left meanwhile.
- `CapHolds` (`CapRespected`) assumes one worker process. `RoomInv` adds that a worker about
  to send a report has room for it: the count read before each send is still true when the
  send is made, because nobody else sends and callbacks never turn a row into an accepted
  one. With two workers the theorem is false.

**`DeviceCommandsProofs`.** `CommandInv` = `TypeOK`, `RegistryInv` (the registry holds the
connection of the current session or none), `PlaceInv` (a request is in one place: channel,
parked, scheduled or written, and its fate says which), `OrderInv` (what is further on is
older, but for overtaken ones) and `RowInv` (the row against the last request). It gives
`WrittenOnce`, `CommandOrder`, `RowMatchesDevice` for all ports, and
`PendingMeansOffline` and `RegistryTracksSession` for the ports that fire parked
commands (`AutoFires`): on the others they are false, see section 5.

`DownlinkImplementsDelivery` (`Implements`) maps each action to what it does to requests:
`PublishIssues`, `ReceiveDelivers` and `ImmediateDelivers` (both by `DispatchDelivers`, a turn that
delivers or refuses), and `FirstPacketDrops` and `StopDrops`, where the set dropped is named. Its
facts about who is behind whom are `PlaceInv` and `OrderInv`. `WrittenOnce` is proved but no
longer checked by itself: the abstract specification delivers only what is open.

**`ScanQueueProofs`.**

- `TypeCorrect`: types and the agreement of lock, timers and jobs with the status.
- `RowsCorrect`: workers and purge hold rows that exist (auxiliary).
- `NeverStranded`: `NoStrandedScan`, for any number of workers. Inductive with the two
  above: every write of `queued` is preceded by a look at the attempts, except `stop()`,
  and the claim is the only increment.
- `PurgeCorrect`, with `FilesCorrect` (`NoOrphanFile`) and `PurgeLeavesNothing`
  (`PurgedKeepsNothing`). Neither is inductive: `PurgeOrder` adds what the purge has
  done at each of its steps. Both hold with unlinks that fail at any point, for any uploads
  (`Unlucky` is an arbitrary set): a file the code tried in vain to remove is in `left`, and
  every other one is an upload's in progress or named by its row.
- `ScannerImplementsLifecycle`: with at most one worker, `Spec => Implements`. It needs
  `ClaimKept`: until the worker finishes, its row is its own, or queued if it is shutting
  down, or raced; this is what makes the unfenced `_failScanJob` a lifecycle step of every
  document that is not in `raced`, where a commit without an answer puts it. The mapping is
  shown to change one row per action (`OneRow`, `NoRow`), `PhaseStep` turns an
  allowed change into a step of `ScanLifecycle`, and `RecoverStep` treats the one
  statement that writes many rows. With two workers the theorem is false: a worker that
  outlives its visibility timeout requeues what another has finished.
- `FreeConfirmationsStay`: a document confirmed while nobody held it stays confirmed until
  the purge, with any number of workers. `ConfirmedIsFree` is what is inductive: nobody
  comes to hold such a document, since only queued ones are claimed. It is the part of
  the comment behind `ScanConfirmed` that the code does keep.

**`AlertSubscriberProofs`.** `AlertInv` = types, `KindInv`, `OverlapInv` (two handlers of a
kind under way at once know of each other), `PassInv` (the cooldown key exists exactly if
somebody passed under it, and whoever saw no key and is about to set it overlaps all who
passed meanwhile: this is the gap between GET and SET) and `TheftInv` (`SET NX` has no such
gap). `OncePerCooldown`, `DroppedHasOriginal` and `TheftOncePerKey` follow; the last one counts a theft
without a recipient as a holder of the key, which is what the code makes of it. `LatchInv`
speaks of the rows about the battery while no excuse applies: one handler at a time is
between the latch and its row (`OneRunner`), the latch has the state of its alert and the
rows tell the opposite (`RowsBefore`), and with nobody there the rows tell the latch
(`RowsTell`). It also says of each row what those before it told, which is
`BatteryAlternates`; `LatchTold` is `RowsTell`.

**`RefillSessionProofs`.** `RefillInv` = `RefillTypeOK`, the shape of the queue of answers,
and four parts. `TokenInv`: a session nobody shares is in Redis, in one handler's hand or
told, and no two of these; so it is told once (`EachSessionOnce`, on which `FillLedger` rests). `DirectionInv`: a session
starts before its last rise and is settled after it (`RefillsGoForward`). `CoverInv`: every
erasure of the set's entry that is on its way is followed by a store, as long as there is a
session; because answers come in order, the set has the vehicle when all have come
(`SetCoversSession`). `BegunInv` gives the first step its types.

**`FuelAlertsProofs`.** `RefillInv` and `AlertInv` are shown to hold of the composition: a
step of one part leaves the other alone or publishes its next message. `RowInv` (a message
has one row), `ArmedInv` (who is past the cooldown without a failed call has armed it) and
`AboutInv` (a message about a refill tells an announced session, and two tell the same only if
two packets had it in hand) tie the two together. `OneRowPerFill` follows.

- `FuelImplementsRefill` and `FuelImplementsAlerts`: the composition is a behaviour of each part by
  itself. The alert subscriber's own steps choose `about` from a set; the second mapping forgets
  it (`Alerts` has 0 there), because the part does not look at it. `AlertInvGives` collects what
  follows from `AlertInv`, so that `PartsKeepTheirPromises` has the properties of both parts in
  one place.
- `FuelImplementsLedger` (`Implements`). `RowsThere` is one more invariant: a message past
  its INSERT has its row, and only alerts about the battery are filtered. `PhaseFacts` says what `FillPhase` computes without the
  `CHOOSE`: under the invariants no fill is "undue". `SessionsMove`: nobody takes
  up again a session that nobody holds. `TellingsMove`: the announcements of a fill stay, each
  going its way, or its first one appears while the fill is open and leaves it closed.

**`IgnitionTrackingProofs`.** `IgnInv` is one invariant for the four properties. `WriteInv`
says what a handler still has to write, and `StableAfter`, `PendingAfter` and `SinceAfter`
what the keys will be when it has. `AloneInv` says that handlers which met no other are by
themselves, so that `CacheInv` can say of one alone that what it read still holds. `CleanInv`: a
pending change is as old as it says, with nothing heard against it since (`FlipWasHeld`).
`AlertInv` and `RestInv` relate the alerts' keys, the last alert and the cached ignition
(`AlertsAlternate`, `ToldOnIsOn`); `CacheTracksStable` is `CacheInv` at the end of a handler.
`AlertsTellStable` is the part of `ReplayRaisesNothing` that holds: with `RaiseInv`, an alert
raised by a packet handled alone tells the debounced ignition, so that a packet that says off
raises ON only while the debounce still holds ON.

**`ColdArchiveProofs`.** `ColdInv` = `ArchiverInv` and one `RequestInv` per request.
`ArchiverInv` adds to the types what tonight's loop has left to do (`LoopInv`) and that every
file of a night that is over is in the bucket or missed, or has no points (`PastInv`);
`ChunkEnd` shows that a chunk past the interval ends before today. `RequestInv` says what the
two loops of the route handler have established for the days behind the cursor: nothing
frozen in the first, unless it froze since (`turned`), and fetched in the second, unless its
Get failed. `DropsAreArchived` and `ReadyAnswersAreComplete`
follow. `MailsTellTheTruth` (`NotifiedWhenThawed`) needs `MailInv` beside it, a statement about
ages. `FreshInv`: what a request registers, it registers on one day. `GroupInv`: while a
row of a group waits and is not past the cutoff, the copies of its siblings have not lapsed
-- here `CutoffAssumption` is used. `UnputInv`: the archiver puts only files that never were,
so it overwrites no thawed copy. `MonitorInv`: what the pass has read of the group it is about
to notify.

`ArchiveImplementsLedger` (`Implements`) is an argument about two halves that do not touch.
The places: `LostInv` says that a file whose night is lost never comes to be in the bucket and
that the bucket has nothing the database never had; `ArchiverShifts` takes each step of the
archiver to allowed shifts (`UploadShifts`, `DropShifts`, `JobShifts`; the two ways to drop
share one lemma), and `RestoreStores` shows that nobody else creates or deletes a file.
The rows: `SettledInv` says that a told request has returned, so that it registers nothing
more, and that its rows all have the status that was told; `RegisterAsks`, `MarkSettles`,
`GiveUpSettles` and `NotifyTells` are the four steps of the ledger (`Move`), everything else
leaves it alone (`RowsAlone`). `LedgerMoves` joins the halves. `MailsStayTrue` states the second
half without the ledger. `DroppedIsArchived` is proved but no longer checked by itself: the
ledger loses only what was unattended.

**Model-checked only.** Liveness (`EventuallySettles` of outbox and scanner,
`RegistryConverges`, `PendingSettles`), since fairness and ENABLED are out of the prover's
reach. Every safety property, action property and refinement of a passing run is a theorem.
The three violation runs state what the code does not do, and have none; of `ScanConfirmed`
and `IgnitionReplay`, `FreeConfirmationsStay` and `AlertsTellStable` are the parts that are true.

## 5. Disagreements that have no run

Outbox and commands:

- Expired messages are never sent, says `whatsappWorker.js:11`; `expires_at` is compared in
  the claim only (204), so a row that expires while its batch is dispatched is still sent.
- The retry endpoint is for failed or dead messages (`whatsappMessageController.js:123`);
  its UPDATE (139) takes any status, and a delivered message is sent again.
- `vehicleController.js:1763` promises a retry for a device that is momentarily
  offline; a command written to a half-open socket is lost, and so is a parked one when
  the TCP server restarts (`tcp-server/server.js:176`).
- "Will auto-fire on reconnect" (`server.js:1789`): CONCOX, PT06 and EC08 write the registry
  themselves (1011) and never look at `pendingCommands`. This is why the theorems about
  parked commands speak of `AutoFires` only.
- `dispatchCommand` has a binary branch for EC08 (1497), but `commandAdapters` (102) has no
  entry for it, so the command is refused before (1476). PT06 and PN02 have entries
  "handled separately via buildOnlineCommand()" (108) and no branch, so the text of the
  sentinel is sent (1526). `DeviceCommands` calls these fates refused and garbled.

Scanner:

- A shutdown in the last attempt returns the row to `queued` with its attempts spent
  (`documentScanWorker.js:171`), where neither the claim nor the recovery finds it.
- A purge that stops between the UPDATE to `purged` and the DELETE of the fields leaves them
  for good: the next run skips purged rows (`scanRetentionPurgeJob.js:69`).
- "Delete stored file immediately per DPDP rule" (`scannerService.js:130`): this unlink, that of a
  refused upload (`documentScanController.js:118`) and those of the purge
  (`scanRetentionPurgeJob.js:52`, 90, 127) swallow a failed `unlinkSync` and go on: the row is marked purged and `file_path` is
  overwritten with `[PURGED]`, or the upload is refused without a row, and no row names the
  file that is still on disk (after the first, the purge tries once more). `left` is the excuse in `NoOrphanFile` and `PurgedKeepsNothing`.
- A COMMIT that took effect and whose answer was lost (`scannerService.js:324`) goes through the
  catch blocks to `_failScanJob`, which updates by id: a `done` document is queued again and
  processed a second time, or fails. `raced` is the excuse in `Implements`.
- A second worker process (`documentScanWorker.js:98`) could outlive its visibility timeout
  and requeue what another finished. Production runs one.

Alerts and fuel:

- "Ignore sensor disconnect / zero-reading glitches" (`fuelEventAggregator.js:38`): the
  aggregator ignores a zero, but the caller caches it, and the next normal reading opens a
  session that starts at 0 and is announced as a refill.
- `enqueueWhatsAppAlert` takes the theft key before it looks for recipients
  (`notificationService.js:164`, 194): a theft for which nobody is registered yet, or whose
  INSERT fails, keeps the next theft from everybody for 10 minutes. `TheftOncePerKey` names both.
- The cooldown is set before the alert is saved (`alertSubscriber.js:237`): when the save fails,
  the next alerts of the type are dropped as duplicates of one that has no row.
- The battery latch expires after 48 hours in one state; the return of a battery that was
  cut for longer than that counts as a first connect and is not told.
- `locationSubscriber.js:758` publishes `fuel_refill` for the rise that the aggregator
  announces as `fuel_refill_final`, a type of its own with its own cooldown.

Archive:

- "Safely drops older chunks" (`archiverJob.js:17`): the job archives the day that is 170 days
  old and no other, so the points of a night that failed or was missed are dropped by
  the next nights without a file. `ArchiveLedger` has them `unattended`, then `lost`.
- A route is read from S3 only if it starts more than 180 days ago
  (`vehicleController.js:1413`), but its points are dropped from day 171: in between they
  are in neither answer. A longer route that starts earlier is read from S3 alone and
  misses its recent days.
- "All files are ready/standard, fetch and parse" (`archiveService.js:92`): a file that
  freezes, or whose thawed copy lapses, after its HeadObject fails its GetObject, the error is
  logged, and the answer is `ready` without that day (115). `ReadyIsComplete` names these
  files (`turned`), as it does those of failed calls (`skipped`).
- A group whose mail failed is no longer pending, so its user is never notified
  (`restoreMonitorJob.js:73`, 82).
- A file that is thawing for somebody else gets no row in the group that finds it so, and the
  group's mail may come before it is ready (76). A file the same user asked for
  before keeps its old group by `ON CONFLICT DO NOTHING`; a request that only has such
  files is never notified.
- `setup_archive_db.js` creates `restore_requests` without the `request_group_id` that both
  users of the table need.

## 6. Not modelled

- *Parsers, validator, publisher, OCR and field extraction* are data transformations
  without state: byte formats and text heuristics, better tested than model-checked.
- *CRUD endpoints, audit, mail, push, WebSocket fan-out, relays, tunnel* keep no protocol
  state. Best-effort pushes (webhook, mines, SCLEN) promise nothing.
- *Government bridge*: `server.js` requires it, and nothing calls its `init` or its
  `queueEvent`; its queue is always empty.
- *Daily report job*: one pass per organisation and day; what makes it safe to repeat is the
  unique key of the outbox, which `WhatsAppOutbox` takes as given.
- *Location subscriber* beyond ignition and fuel: odometer, trips, batched inserts,
  geofences, routes, parking, idling and maintenance.
- *Frontend, scripts, reports*: most of the repository's lines are React pages, form and
  report rendering, SQL and styling. They hold no state that outlives a request, so the
  share of the repository's lines the models stand for stays small although
  the stateful core of the backend is covered.

Details of modelled handlers that are simplified, none of which a property depends on:

- `Register` always writes its row; the code does so when the request carries an e-mail
  (`archiveService.js:68`), which every token has (`authController.js:80`).
- `RunArchiveJob` runs once per night; a start by hand or by PM2 may run it again the same day,
  and would make up for a night that failed.
- The API process dies between an upload and its INSERT: in `ScanQueue` such an upload stays in
  progress for ever, and its file is one of an upload in progress.
- A `CONCOX_INFO` frame (`server.js:1195`) makes an entry only where there is none; in
  `DeviceCommands` every frame takes the entry over. Heartbeats do, and a connected device
  sends them.
- `CommandFails` of `RefillSession`: the command took effect and its answer was lost. A command
  that never reached Redis is a packet without effect.

In modelled components, each module's section names what is left out; `PROJECT.json` calls
those components `partly`.

## 7. Plan

Done: `WhatsAppOutbox` with `MessageLifecycle`, `DeviceCommands` with `CommandDelivery`,
`ScanQueue` with `ScanLifecycle`, `AlertSubscriber`, `RefillSession`, `FuelAlerts` with
`FillLedger`, `IgnitionTracking`, `ColdArchive` with `ArchiveLedger`, and the proofs of section
4. Left, in order:

1. The distance queue and the batched inserts of the location subscriber (failed batch
   against odometer), and the daily report job with its unique key.
2. Geofence transits (`geofenceTransitService.js`) as a recursive definition checked
   against a reference over all short sequences of points.
3. Proofs: an abstract specification of the ignition (one debounce step per packet)
   that `IgnitionTracking` implements when no two handlers overlap, and what remains true
   of the alerts when they do.

There is one run per distinct question. A disagreement that is understood moves to section 5
when its run is needed no longer.

# Shaker in TLA+

Shaker collects earthquake reports from several catalogues, decides which of them
describe the same earthquake, keeps one *incident* for each, and alerts subscribers
in Telegram and over webhooks. Processes exchange Kafka messages and share a
PostgreSQL database; each may be replicated, stopped and restarted.

This directory models the path on which an alert can be lost, duplicated or left
outdated: how a catalogue's reports are published, which incident a report belongs to,
what an observation does to an incident, how an incident's versions reach the
notification database, whom they are announced to, how an alert follows its desired
version in a Telegram chat and how a webhook delivery is made. Beside it are the bot
through which users change their subscriptions, and what readers see: the realtime
stream, the lists behind cursors, and the pages of the administration.

    catalogues, WebSocket
          |
    provider workers (ProviderFeed)
          |  provider.observations.v1
    core: inbox, correlation (Correlation), catalogue (Catalogue)
          |  core_outbox_messages      |  trigger, NOTIFY
          |                            listener, hub, streams (RealtimeHub)
          |                            lists, cursors, details (Listing)
          |                            a client of both (PublicView)
    relays
          |  incident.changes.v1         (IncidentStream, IncidentFeed)
    notification consumers, notification_message_inbox, matching (Matching)
          |                                   |
    telegram_alert_messages        notification_deliveries
          |                                   |
    workers, Telegram              workers, webhooks
    (TelegramAlert)                (WebhookDelivery)

    users, Telegram -- bots (TelegramBot) -- subscriptions -- operators, HTTP API

Paths below are relative to `src/`. `TA` is
`internal/repository/postgres/telegram_alert.go`, `WK` is
`internal/notification/worker.go`, `PW` is `internal/providerworker/service.go`, `BOT`
is `internal/telegram/bot.go`, and `REPO`, `MSG` and `NOTIF` are `repository.go`,
`messaging.go` and `notification.go` in `internal/repository/postgres`.

## Inventory

| Component | State | Operations | What is hard | What makes it correct |
|---|---|---|---|---|
| Provider workers, `internal/providerworker` | a state file per provider: checkpoint, validators, baseline flag | `Poll`, `Recover`, `PublishRealtime` | the state is saved after publishing, so a stop in between publishes again; message ids leave out the mode; recovery saves window by window; neither a poll nor a recovery has a deadline | no window is skipped; what is published twice has one id |
| EMSC stream, `internal/provider/emsc/stream.go` | a WebSocket connection | connect, read, retry the handler, ping, reconnect | runs beside the FDSN poll of the same source | an event whose handler failed is not lost |
| Provider clients and parsers, `internal/provider` | none | fetch, parse | malformed and missing fields | the solution class of a payload |
| In-process ingestion, `internal/ingestion` | checkpoints and runs in PostgreSQL | `Poll`, `RunBackfill`, `RecoveryRange` | several transactions for one poll | a checkpoint never passes data that was not stored |
| Kafka client, `internal/kafka` | group membership, fetched records | poll, commit, publish, close | rebalances blocked while a record is handled; data loss at the broker | every way out of a poll allows rebalances; a commit covers only handled records |
| Core consumer and inbox, `internal/core/consumer.go`, `MSG:33-79` | `core_message_inbox` | `ApplyProviderMessage` | redelivery | an observation takes effect once |
| Incident catalogue, `REPO:124-595` | `earthquakes`, `earthquake_source_records`, associations | `applyEvent` | late, repeated, weaker and retracting observations of several sources | incident, sources and announcements agree |
| Correlation, `internal/domain/earthquake/correlation.go`, `REPO:359-411` | none | the candidate query, `Correlate` | near ties, full candidate pages, fields that are not reported | a match is clearly the best of all incidents in the window, fetched or not |
| Core outbox relay, `internal/core/outbox.go`, `MSG:171-246` | `core_outbox_messages` | claim, publish, complete, fail | stops and lock timeouts between publishing and marking; order | published means that Kafka has it; nothing is forgotten |
| Incident consumer and inbox, `internal/notification/consumer.go`, `MSG:81-169` | `notification_message_inbox` | `ApplyIncidentMessage` | duplicates, evicted members, reused offsets | each version takes effect once; none is skipped |
| Telegram alert projection, `TA`, `WK:56-144` | `telegram_alert_messages` | upsert, claim, call, complete, fail | the remote call lies between two statements; neither save looks at the lock | the tracked message converges on the desired version |
| Webhook deliveries, `WK`, `NOTIF:269-331` | `notification_deliveries` | claim, deliver, complete, operator retry | as above; the attempts survive a retry; a failing claim also stops the Telegram alerts | a delivery that was sent is not sent again on purpose |
| Notification matching, `internal/domain/notification`, `internal/domain/shaking`, `REPO:649-833` | none of its own | `createDeliveries`, `refreshTelegramAlertMessages`, `Triggers`, `IntensityTriggers` | a version is compared with the one before only; values fall and rise, magnitudes go missing, the subscription is paused | whoever is reached is told; a trigger fires once per cause |
| Telegram bot and subscriptions, `internal/telegram/bot.go` | the update offset, the poller lock, subscriptions | `Run`, the commands | the offset is saved after handling; the lock dies with its session | at most one poller; commands are idempotent |
| Realtime hub and listener, `internal/realtime/hub.go`, `internal/httpapi/realtime.go` | clients and bounded buffers | subscribe, publish, unsubscribe, listen, stop | slow clients, lost connections, shutdown | a client that connects and then loads the list misses nothing silently; no channel is closed twice; no reaper waits while the hub runs |
| HTTP API, `internal/httpapi/server.go`, `cursor.go`, `internal/repository/postgres/query.go` | none | three orders of the list, signed cursors; subscriptions, webhook retries | rows appear, move and leave while a list is walked; missing magnitudes | a walk shows every row that stayed where it was, once |
| Administration, `internal/administration`, `internal/httpadmin` | owners, set at start | lists with cursors, details; no command changes users or channels | one page is collected by seven statements while the core and, in transactions of its own, the notification service write; the scopes of cursors | the parts of a page hang together: the sources of the version shown, the revision of every later version; a list accepts its own cursor |
| Configuration, observability, `cmd` | none | start and stop | - | - |

`PROJECT.json` lists the components with their files and, under "hazards", the lines
where something can go wrong that a test would hardly reach.

## The modules

### TelegramAlert

One row of `telegram_alert_messages` for each subscription and incident (`row`), what
each worker has in memory (`job`) and the messages in the chat (`chat`).

| Action | Code |
|---|---|
| `Upsert` | `upsertTelegramAlertMessage`, `TA:34-63`: insert, or raise the desired version, which ignores lock, status and attempts |
| `Claim` | `ClaimTelegramAlertMessages`, `TA:65-104`: rows that are due, or claimed under a lock that timed out |
| `CallAccepted`, `CallRefused`, `AnswerLost` | the HTTP call of `deliverTelegramAlert`, `WK:94-114`, with the snapshot of the claim |
| `SaveDelivered`, `SaveFailed` | `CompleteTelegramAlertMessage` and `FailTelegramAlertMessage`, `TA:106-135`: `WHERE id=$1`, whoever holds the lock |
| `LoseResult`, `Crash` | the save fails and the worker goes on; the process stops |
| `BackoffEnds`, `LockExpires` | `next_attempt_at` passes; `locked_at` gets older than the timeout |

Time is two flags of a row, so every order of timeouts against calls is explored: a
worker may always be slower than its lock. `overlapped` and `ambiguous` are histories
that only properties read. The instances have one alert and two workers: the
statements touch one row each, and a batch only fixes the order in which one worker
calls. The theorems hold for any number of alerts in a batch.

### Catalogue

One `applyEvent` (`REPO:160-316`) is one action: the source row and its incident are
locked for the whole transaction. Its five outcomes are the disjuncts of `Observe`:
`NewIncident`, `CorrelatedSource`, `PromoteSolution` (an old or repeated observation),
`KeepSolution` (a weaker one) and `ReviseSource`. `Publish` writes the incident and its
outbox message in the same transaction, as `applyBatch` does; message ids derive from
the incident and its version, so a second message for a version is swallowed.

Scoring is left open: a first sighting may join any incident that the candidate query
returns, or none. That covers whatever `Correlate` answers; what it answers is the
subject of `Correlation`. A report is its solution
and a text; one text is enough for the instance, because time and solution already tell
a repeated report from a revised one. Three providers, three times and four versions
let a source be preferred, overtaken, retracted and joined by a third.

### IncidentFeed and IncidentStream

`IncidentFeed` is the promise, without any machinery: each version of an incident takes
effect in the notification database exactly once, in some order, and an alert never
goes back to an older version.

`IncidentStream` is how that is done: `Commit` adds an outbox row; a relay does `Claim`,
`PublishAcked` or `PublishFailed`, then `RecordOutcome` (`WHERE id AND locked_by AND
published_at IS NULL`); a consumer does `Fetch`, `Apply` (or `Reject`, if the position is
taken), then `CommitOffset`. `CrashRelay`, `LoseOutcome`, `LockExpires`, `Evict`,
`CrashConsumer` and `LoseRecords` are what goes wrong in between. A relay that starts
again has another worker id, so the rows of the old one wait for the lock timeout.
One incident is enough: Kafka orders records by key, and nothing in the path relates
two incidents except batches, which two versions fill as well.

The refinement (`FeedSpec`) maps `effective` to the set of versions in `applied`;
`version` and `alert` map to themselves. Every step of the stream is a step of the feed
or stutters, lost records or not (`FeedSteps`, which is proved). Only that every version
takes effect in the end needs a broker that loses nothing: then the fairness of the
stream implies that of the feed. `LoseRecords` is in the same model: the other
properties must hold after it too.

### ProviderFeed

One worker process with the state file (`saved`), what the process has in memory
(`worker`), the WebSocket (`connected`, `frames`) and what is on the topic. A report is
the time at which it came out, so a checkpoint, the window of a recovery and the
lookback of a poll compare with it directly.

| Action | Code |
|---|---|
| `Start`, `FetchWindow`, `SaveWindow` | `Recover`, `PW:93-131`: due after 24 hours, from the checkpoint less the overlap, window by window, the checkpoint saved after each |
| `BeginPoll`, `SavePoll` | `Poll`, `PW:41-91`: load the state, fetch with the validators, publish, save |
| `PublishNext`, `PublishFails` | `publish`, `PW:166-187`; the message id of `NewProviderObservation` (`internal/eventstream/provider.go:112-139`) leaves out the mode, so the core keeps the first |
| `SaveFails`, `Crash` | the state file keeps its old content; a failing recovery ends the process (`cmd/earthquake-service/main.go:226`), a failing poll does not |
| `Connect`, `PublishFrame`, `Disconnect` | `Stream.Run` and `listen`, `internal/provider/emsc/stream.go:43-156`, beside the polls |
| `Tick`, `ReportComesOut` | time and the catalogue |

`Tick` may come at any point of a poll or recovery, any number of times, since neither
has a deadline: `ProduceSync` has no delivery timeout (`internal/kafka/client.go:34-55`),
the context of `Poll` has none either (`PW:133-152`), and a `Retry-After` is followed
however long it is (`internal/provider/usgs/client.go:154-170`). A poll saves the time at
its *end* as the checkpoint (`PW:79`), so a report that comes out while a poll publishes
for longer than the overlap lies before the window of a recovery from that checkpoint. If
the worker then stops before another poll and is started again after the lookback, the
report is lost. Three histories tell the properties what the code does not promise:
`covered` is the time up to which saved polls and recoveries have looked, `skipped` are
the reports that an outage kept out of every window while no recovery was due, and
`overtaken` are those that a slow poll's checkpoint passed by more than the overlap.

### WebhookDelivery

`notification_deliveries` (`row`), a worker's snapshot of the rows it claimed (`job`) and
where it is in its loop (`at`).

| Action | Code |
|---|---|
| `Create` | `createDeliveries`: one row for a subscription, a version and a trigger |
| `Claim`, `ClaimFails` | `Claim`, `NOTIF:280-317`; a failing claim ends the poll |
| `CallAccepted`, `CallRefused`, `AnswerLost` | `deliver` and `send`, `WK:145-255`: a request was sent |
| `NotSent` | `send` ends before a request: the secret, the address or the connection is refused, or the context is cancelled |
| `SaveOutcome`, `LoseOutcome`, `Crash` | `CompleteDelivery`: `WHERE id=$1`, whoever holds the lock; the write fails; the process stops |
| `Shutdown`, `Exit` | the context is cancelled in the middle of a batch: the rest of it fails without a request and is saved (`WK:74-76`, `WithoutCancel` at `WK:168`), as far as the process gets, since `cmd` does not wait for the worker |
| `Retry` | `RetryDelivery`: due at once, attempts kept |
| `BeginAlerts`, `EndAlerts` | the second half of a poll, `WK:77-92`: the Telegram alerts |
| `BackoffEnds`, `LockExpires` | time |

Attempts are not calls. `attempts` of a row counts both kinds, so the properties do, with
two histories, `called` and `unsent`: a delivery whose address cannot be reached, or that
is in the batch of a worker at every restart, is dead after fewer requests than
`max_attempts`, or none.

### TelegramBot

Telegram's queue of updates (`updates`, `confirmed`), the offset in the database
(`saved`), the advisory lock (`holder`), each bot's loop (`bot`) and one subscription
(`sub`). `wanted` is the history of what the user asked for: `wanted[n]` is the
subscription that updates 1 to n make, each taken once.

| Action | Code |
|---|---|
| `Acquire`, `LoadFails` | `Run` and the head of `poll`, `BOT:54-79`; an offset that cannot be loaded counts as none |
| `Fetch` | `GetUpdates`, `BOT:80-91` |
| `Handle`, `Reply`, `HandleFails`, `ReplyFails` | `handle`, `BOT:105-223`: a statement on the subscription, then the reply |
| `SaveOffset`, `SaveFails` | `BOT:96-100` |
| `Crash`, `LoseSession` | the process stops; only the session with the lock ends, and the bot polls on |
| `BeginPatch`, `EndPatch`, `Disable` | `patchSubscription` and its `DELETE`, `internal/httpapi/server.go:348-463`: read the row, put the fields of the request into it (`Merged`), validate the result (`Valid`), then write every column `UpdateSubscription` knows (`Patched`) |

Of the fields of a request the model has the two that decide what is configured: the
status and the radius. A row that exists has a place, which a request may move but not
remove; language and intensity are in no request. `ActiveIsConfigured` asks of an active
subscription what `createDeliveries` and `Validate` ask: a place with a radius, or with
an intensity and the language chosen before it. A place alone is selected by no query for
candidates, so such a subscription would be active and silent.

### Correlation, Matching and Decisions

`Correlation` is the decision of `correlationDecision` and `Correlate` and what
`applyEvent` makes of it; `Matching` is what a new version means to one subscription;
`Decisions` puts one after the other, so the incidents that matching sees are those that
correlation built, and the versions of an incident may come from different catalogues.

| Definition | Code |
|---|---|
| `Near`, `Fetched` | the candidate query, its order and limit, `REPO:371-389` |
| `Comparable`, `Score`, `Correlate` | `correlation.go`: the gates, the weighted score, the threshold and the margin to the second |
| `Decision` | `correlationDecision`: no magnitude, full page, `Correlate` |
| `NewIncident`, `CorrelatedSource`, `ReviseSource` | the branches of `applyEvent` that change what is correlated and matched |
| `EstimateAt`, `Narrowed`, `Bisect`, `CandidateRadiusKM` | `internal/domain/shaking/model.go`: upper estimate, search for the radius by rounds |
| `Selected`, `TriggersOf`, `Triggers`, `IntensityTriggers` | the candidate query of `createDeliveries` and the two trigger functions of `internal/domain/notification/model.go` |
| `Refreshed` | `refreshTelegramAlertMessages`: follows unless the subscription is disabled |
| `Apply` | `ApplyIncidentMessage` as far as it decides, for one subscription |
| `SetStatus` | what the commands and answers of the bot, or a PATCH or DELETE of an operator, do to the status |

Places lie on a line, with the subscriber at 0; times, places, magnitudes and depths
are whole units (10 s, 5 km, 0.2 magnitudes, 10 km), in which the maxima of
`ProductionCorrelationPolicy` are 3, 5, 4 and 3. Scores are compared as fractions,
without rounding. The intensity formula is a table that falls with distance, as
`MatchingAssumption` says, and `Surface` is the second distance formula, which
`createDeliveries` uses for the version before. Solutions are of one class here; the
classes are the subject of `Catalogue`.

### IncidentRows, Listing, RealtimeHub and PublicView

`IncidentRows` is the table that both paths of reading share: keys and versions. What the
core keeps about a version is written with the row, in one transaction; the first version
of an incident has no row in `earthquake_revisions` (`REPO:191-246`).

`Listing` is the reader of a list. A position is a key and an id, a page the first
`Limit` rows beyond the cursor's position.

| Action | Code |
|---|---|
| `StartWalk`, `GetPage` | one request, `internal/httpapi/server.go`, `internal/httpadmin/server.go`; the SELECT with `(key,id)` compared to the cursor, `query.go:81-100`, `administration.go` |
| `RefuseCursor` | `decodeCursor`: the cursor is signed for another list |
| `FailOnMissingMagnitude` | a page in the order of magnitudes that ends in an incident without one: its cursor has no magnitude, and the query dereferences it. Rows without magnitude compare with no cursor, so they are shown on the first page only |
| `OpenDetail`, `ReadPart` | `AdminIncident`: seven statements, outside a transaction, each sees what is written by then (`Written`) |
| `RecordMatching` | `ApplyIncidentMessage` and `createDeliveries`, `MSG:81-169`, `REPO:738-781`: evaluations and audits of a version, in one transaction of the notification service, later than the version and not for every one |
| `WriteInList` | the core or the notification service writes a row |

`RealtimeHub` is one API process: the listener's database connection, the hub's
goroutine and the handlers and reapers of connections.

| Action | Code |
|---|---|
| `Notify` | the trigger on `earthquakes` |
| `Listen`, `ConnectionBreaks`, `Receive`, `LoadFails`, `Publish` | `Listener.Run` and `listen`, `hub.go`; what is committed without a connection is announced to nobody |
| `Subscribe`, `Unsubscribe`, `Broadcast`, `Stop` | the four cases of `Hub.Run` |
| `Connect`, `GiveUpSubscribing`, `Greet`, `Deliver`, `Disconnect`, `Finish` | `Subscribe` of the hub and the handler in `internal/httpapi/realtime.go` |

`missed` is a history: the incidents of which a change was dropped since the client was
greeted (a full queue or buffer, a broken connection, a failed load). A connection that
ended is used again for the next client. The `notification_changed` hints take the same
way with nothing in them and are left out.

`PublicView` composes the two with a client that does what the documents ask of it:
it connects first, is told so, then loads the list, and keeps the higher version of what
list and stream show. The client is not in the repository and is modelled from those
documents. Every step of the composition is a step of `HubSpec` or leaves it alone,
which is proved.

## The runs

| Run | Shows |
|---|---|
| `telegram_alert` | With two workers, three versions and a crash or lost write, a row's status never contradicts its message id and lock, an active row is up to date, edits touch the tracked message only, a chat gets outdated text or a second message only if two workers overlapped or an id was lost, and an alert comes to rest again and again, shown or given up |
| `catalogue` | Through every order of observations the incident shows its preferred source's last report, its lifecycle is what its sources resolve to, every version is announced once with what it shows, certainty falls only by a retraction, and a retraction is final |
| `incident_stream` | Nothing takes effect twice, a published row is in Kafka, and an alert is the newest version whenever the log has them in order, with two faults of which one may be a loss of the end of the log; while nothing is lost the stream implements the feed, liveness included, and the group keeps up |
| `provider_feed` | For USGS and EMSC: neither a checkpoint nor an ETag hides a report that was not published, the baseline never comes back after the first poll, and every report is published that a poll or recovery reached, unless a slow poll's checkpoint overtook it |
| `webhook_delivery` | What the table says of a delivery is true, attempts, with a request or without, and final states are within their limits, unless workers overlapped or an outcome was lost; every delivery settles and the Telegram alerts get their turn |
| `telegram_bot` | No update is skipped, repeating one changes nothing, an active subscription is complete though requests of operators put their fields into it, and every update is handled |
| `public_view` | A client that connected and loaded the list has every incident at its current version unless a message is on its way or was dropped, though incidents move between pages meanwhile; walks of all kinds of lists show what stayed in place, once; the parts of a page of details hang together, though evaluations are written later than the version they are of; no channel is closed twice; clients catch up and reapers get through while the hub runs |
| `decisions` | A match is clearly the best of all incidents in the window, also when the page of candidates is full; whoever is reached by any version is told; no trigger fires again while its condition stays; a Telegram alert misses only what was applied while its subscription was disabled |

The remaining runs end in a violation: what they check is stated by a document or a
comment of the repository, and the code does not do it.

| Run | Stated | What the code does |
|---|---|---|
| `telegram_alert_converged` | all operations after a persisted message id converge (`docs/event-correlation.md`) | a version that is asked for during an edit makes the row claimable at once; the second worker's edit reaches Telegram first and its outcome the row last, so the row rests as active while the message shows the older edit |
| `catalogue_stale` | stale responses cannot overwrite newer source data (`docs/architecture.md`) | staleness is measured against the time of the incident, not of the source record |
| `telegram_bot_stop` | `/stop` disables alerts (`docs/telegram.md`) | a PATCH that was read before and is written after it sets the old status again, though it asks for none |
| `notifications_cursor` | each tab of the notifications has its own pagination cursor (`docs/admin.md`) | the cursor is written with the scope of all tabs and read with the scope of one: the second page is refused in every tab |

Other disagreements that the models show or are built around, without a run:

- `internal/kafka/client.go:118` skips lost records so that the group does not stall.
  The records that are written to the offsets of lost ones are refused by the inbox,
  which knows records by offset too (`MSG:113`), so the consumer ends at each restart
  until the log passes the old end: `Reject` in `IncidentStream`, which is why
  `GroupKeepsUp` excepts losses.
- `docs/event-correlation.md:132` says that recovery starts from the checkpoint after
  WebSocket disconnects. The code recovers when the process starts and the checkpoint is
  older than a day (`PW:99`, `cmd/earthquake-service/main.go:226`). Frames lost in an
  outage that is longer than the lookback of a poll and shorter than a day are never
  fetched: `NothingHidden` and `EveryReportPublished` except them as `skipped`, and
  those that a slow poll overtook (see `ProviderFeed`) as `overtaken`.
- `docs/telegram.md:19` says that a subscription without language and intensity cannot
  send alerts. That is so for what users do in the bot. A PATCH of an operator with a
  status and a radius, on a subscription that has a place only, passes `Validate`
  (`internal/domain/notification/model.go:88-94`) and makes it active like a legacy one:
  complete in the sense of `ActiveIsConfigured`, and not what the user set up.
- `docs/event-correlation.md` says that a single correction message is sent when the
  original cannot be edited; no code does this, so the model has no such action.
- A comment at `internal/realtime/hub.go:53` promises a slow client a later resync
  signal. No code sends one: `ViewIsCurrent` and `ClientCatchesUp` except `missed`, and
  such a client is up to date only after it connects again.
- After the hub stopped, a goroutine that would unsubscribe a client waits for ever
  (`hub.go:72`); the process ends soon after. `ReaperGetsThrough` is therefore about a
  hub that runs.

### Bounds

`MaxVersion`, `MaxTime`, `Incidents`, `MaxReports`, `MaxUpdates`, `MaxRequests`,
`MaxRetries`, `MaxFaults`, `MaxLosses`, `MaxWrites`, `MaxChanges`, `MaxStatusSets`,
`Ids`, `StreamedIds`, `DetailIds`, `Conns` and `Slots` are bounds of the instances, not of
the code.
`Batch`, `MaxAttempts`, `Lookback`, `RecoverAfter`, `Overlap` and `Chunk` are settings;
`Limit`, `PageLimit`, `QueueCap`, `ClientCap` and `SearchRounds` (64) are constants of
the code (or, for `Limit`, of the request) that the instances make small.

- Two attempts separate "not yet dead" from "dead". Attempts and message ids are not
  bounded by a guard: a row is dead after `MaxAttempts` failures until a newer version or
  an operator revives it, and both are bounded.
- Two versions separate old from new, and the third one lets an update arrive while a
  worker with the second is busy and another still has the first.
- Two faults allow a retry of what was already retried once; where a run has one, the
  crash or lost write may be at any step, and overlaps need no fault.
- `ProviderFeed` runs to time 5 with recovery after 1 and windows of 2: enough for a
  first poll, an outage and a recovery of two windows, with reports before, in and after
  them, and for a poll that lasts longer than the overlap.
- `public_view` has three rows and pages of one, so a walk takes several requests and
  rows move both ways across its cursor; two writes move one row twice or two rows once.
  The stream is read with two incidents, one connection slot, queues of one message and
  one fault: enough for full queues, lost notices and a client that comes back. Details
  are opened of one incident; the parts of a page are about one only, and none reaches
  the limit (50 to 200 rows) at which the code cuts it off, oldest first.
- `decisions` has four reports (near each other, without magnitude, and near enough to
  one of the others only), two catalogues and three changes, after none or three
  incidents; a page has two candidates, so it can be full with one hidden. Four rounds
  find the radius exactly among nine distances. Three versions
  let a value fall and rise again, and one change of status lies between any two.
- Two updates are one that is handled again and one behind it; one request may lie
  between any two steps of the bot.

`CHECK_DEADLOCK FALSE` is used where an instance really stops because its bounds are
used up and everything is delivered. The workers of `WebhookDelivery` and the polls of
`ProviderFeed` go round for ever, so deadlock is checked there.

### Fairness

Weak fairness of each worker's, relay's and consumer's own steps: their `Run` loops poll
on a ticker or block in a fetch for as long as the process lives, and every HTTP or
Kafka call ends in an answer or an error. How long it takes is open: `ProviderFeed` lets
any time pass in a poll, and the other modules let any lock time out in a call. Weak
fairness of `BackoffEnds`, `LockExpires` and (for the stream) of `Assign`: time passes,
and the coordinator assigns a partition without an owner to a member. In the stream a
lock that times out under a live relay is a fault, never a fair step. A process that
stopped is started again: `docs/architecture.md` relies on restarts, but the repository leaves them
to the operator, so this is an assumption on the deployment (`Start` of `ProviderFeed`,
`Acquire` of `TelegramBot`, `Exit` of `WebhookDelivery`; the others let a stopped
process begin anew at once). No outcome of a call is promised: `Call` is fair as a whole,
so Telegram may refuse every time. Faults are
bounded and never fair.

In `PublicView` the hub's goroutine, the listener and a handler that has something to do
are fair, since nothing in them waits for anything but each other and the timeouts of
writes. A client that connects, disconnects or asks for a page is not.

## The proofs

Eight modules hold the proofs, each for any values of the constants that satisfy the
named assumptions: any sets of rows, workers, sources or connections and any bounds, so
also for batches, queues, pages and tables larger than those of the runs. Every invariant
and every action property of a passing run is proved.

The inductive invariants of `TelegramAlert`, `ProviderFeed` and `TelegramBot` were
model-checked on the runs of these modules before they were proved. Each proof has one
step or lemma for each action.

### TelegramAlertProofs

| Theorem | Says |
|---|---|
| `TypeCorrect` | `Spec => []TypeOK` |
| `WellFormedRows` | `Spec => []RowWellFormed` |
| `NoUpdateLost` | `Spec => []ActiveIsUpToDate` |
| `OnlyTrackedMessageEdited` | `Spec => EditsOnlyTrackedMessage` |
| `Converges` | `Spec => []ConvergedUnlessOverlapped` |
| `SecondMessageExplained` | `Spec => []SingleMessageUnlessAmbiguous` |
| `Invariance` | `Spec => []IInv`, on which the others rest |

They assume only `AlertAssumption`.

None of the properties is inductive alone. `SaveDelivered` writes whatever is in a
worker's memory, so `IInv` says what a job may hold, however outdated:

- `RowOK`: what `RowWellFormed` and `ActiveIsUpToDate` say of a row, and that no
  delivered version is above the desired one and an existing row desires one;
- `JobOK`: no job has a version above its row's desired one. This is what makes
  `desired > version` in `CompleteTelegramAlertMessage` a sound test: otherwise it
  could be false with the two unequal. An accepted job knows a message id that Telegram
  returned, and a job that is yet to call with an id has exactly the row's, because an
  id is stored once and never replaced. `EditsOnlyTrackedMessage` is that fact at the
  moment of the call.

The statements are treated first, as lemmas on single rows and jobs (`RaisedKeeps`,
`CompletedKeeps`, ...). `OneAlert` lifts them to states in which one alert changed, and
`NextIInv` has one step for each action.

The last two are about what a chat shows, which no row knows. `SInv` adds, for alerts
without an overlap (`Orderly`), that one worker at most is busy with the row and none
while it is active (`Alone`). So nobody is left who could edit an active alert, and what
the one busy worker has sent is shown and is the row's message, or will be when it is
saved. Unless an id was lost, the chat's only message is the row's or about to be
(`OneMessage`). `overlapped` is where that argument ends, and `telegram_alert_converged`
shows that it must.

### WebhookDeliveryProofs

| Theorem | Says |
|---|---|
| `TypeCorrect` | `Spec => []TypeOK` |
| `NoEarlyGivingUp` | `Spec => []DeadOnlyAfterMaxAttempts` |
| `TruthfulTable` | `Spec => []OutcomeIsTrue` |
| `BoundedCalls` | `Spec => []NoMoreCallsThanAllowed` |
| `UndoneOnlyByOverlaps` | `Spec => OnlyOverlapsUndo` |
| `Invariance` | `Spec => []IInv`, on which the others rest |

They assume only `DeliveryAssumption`. Here, too, a worker writes what it remembers, so
`IInv` says what it may remember:

- `Exclusive`: without an overlap one worker at most is busy with a delivery, since only
  the takeover of an old lock gives it to a second one;
- `JobOK`: a job's attempts are the row's, and the row is claimed, as long as there is no
  overlap; a job counts no attempt that was not made, and its phase tells what the
  receiver did;
- `RowOK`: the row's attempts are those made, less the one under way, and while more
  may still come they are below the limit plus the retries of operators. That margin
  makes the limit inductive: a retry raises both sides.

`NoEarlyGivingUp` needs no condition on overlaps: attempts are copied from a row, and no
copy ever counts more attempts than were made. Every lemma treats one action for one
delivery, and `OneDelivery` lifts it to all of them.

### CatalogueProofs

| Theorem | Says |
|---|---|
| `ShowsPreferredSource` | `Spec => []CanonicalMatchesPreferred` |
| `LifecycleFollowsSources` | `Spec => []LifecycleIsResolved` |
| `NoVersionForgotten` | `Spec => []EveryVersionAnnounced` |
| `FallsOnlyByRetraction` | `Spec => LifecycleFallsOnlyByRetraction` |
| `RetractedForGood` | `Spec => RetractionIsFinal` |
| `Invariance` | `Spec => []IInv`, on which the others rest |

All branches of `applyEvent` are shown to have one shape, `Outcome`: one source record is
written, its solution is not weakened unless it is retracted, and its incident either
stays as it is or gets its next version, with the lifecycle its sources then resolve to
and the fields of the preferred one. `ObserveOutcome` has one lemma per branch; the
invariants and both action properties are then proved of `Outcome` alone. `IInv` adds
that a source belongs to an incident that exists (otherwise its branch would write a row
of no incident), and that an outbox is finite (otherwise counting its messages says
nothing).

### IncidentStreamProofs

| Theorem | Says |
|---|---|
| `TypeCorrect` | `Spec => []TypeOK` |
| `AppliedOnce` | `Spec => []AppliedAtMostOnce` |
| `PublishedIsInLog` | `Spec => []PublishedIsLogged` |
| `AlertIsNewest` | `Spec => []AlertNewestIfLogInOrder` |
| `ImplementsFeed` | `Spec => FeedSteps`: the safety part of the refinement |
| `Invariance` | `Spec => []IInv`, on which the others rest |

They assume only `StreamAssumption`. That a version takes effect once is the inbox's
doing: it has the messages that took effect and no others (`InboxIsApplied`), broker
losses included. A mark in the outbox is true because a relay that remembers an
acknowledgement has its message in the log (`SentIsLogged`).

The order needs the positions. As long as nothing was lost, every record up to the
committed offset took effect, the inbox knows records up to one beyond it, and a consumer
is at one of these too, the owner of the partition exactly at the next (`Positions`). So
an evicted member that is late has a record that took effect already, and the owner has
the first one that did not: with a log in order, its version is the highest yet. For the
feed, a record is of a version that the core committed (`OnlyCommitted`).

### ProviderFeedProofs

| Theorem | Says |
|---|---|
| `TypeCorrect` | `Spec => []TypeOK` |
| `CheckpointHidesNothing` | `Spec => []NothingHidden` |
| `EtagIsPublished` | `Spec => []NotModifiedIsPublished` |
| `OneBaseline` | `Spec => []BaselineOnlyOnce` |
| `Invariance` | `Spec => []IInv`, on which the others rest |

They assume only `ProviderAssumption`: nothing relates the overlap to the length of a
poll or of anything else. What the state file says is written from memory, so `IInv`
follows the worker: the state it holds is the one in the file (`HoldsSaved`, true because
one process writes it); what came out before the window of a recovery is on the topic or
excused, and what is in the window is on it or still to do (`RecoveredSoFar`); of the feed
a poll has fetched all is published or still to do, and the feed has all that came out
between the lookback and the start of the poll (`PolledSoFar`).

The checkpoint is the time at which a poll ends, not that at which it fetched, so it says
little by itself: `NothingHidden` is stated of `covered` as well, and is inductive with the
other conjuncts. When a poll is saved nothing is left to do, so what came out before it
fetched is on the topic, or `skipped`, or excused already (`Handled`). What came out later
and before the overlap of its checkpoint is `overtaken`, by definition, and only that. A
stop in between drops what was to do together with the checkpoint that would have covered
it.

### TelegramBotProofs

| Theorem | Says |
|---|---|
| `TypeCorrect` | `Spec => []TypeOK` |
| `NoneSkipped` | `Spec => []NoUpdateSkipped` |
| `SettingsAreFollowed` | `Spec => []SettingsFollowUpdates` |
| `ActiveOnlyConfigured` | `Spec => []ActiveIsConfigured` |
| `Invariance` | `Spec => []IInv`, on which the others rest |

They assume only `BotAssumption`. `NoneSkipped` does not need the lock: whatever place a
bot has in memory, the updates before it were handled (`PassedHandled`), and only such
places are saved or sent to Telegram.

`SettingsAreFollowed` does need it. While the lock is kept there is one bot at work, and
its place, the saved one and Telegram's are all at the newest update that took effect or
just behind it (`InOrder`). So an update is handled for the first time in its turn, or
again before any other; and the effect of a command, done twice, is the effect of doing
it once (`EffectTwice`). Operators change what the bot does not manage (`SameSettings`).
`ActiveOnlyConfigured` rests on `Kept`: there is a location as soon as there is a
subscription, and no intensity before a language; and on `RequestIsValid`: what a PATCH
is about to write is valid, fields of the request included, and carries the settings that
were read.

### DecisionsProofs

| Theorem | Says |
|---|---|
| `DecisionsAreSafe` | `Spec => []DecisionIsSafe` |
| `MissesOnlyWhileDisabled` | `Spec => []AlertMissesOnlyWhileDisabled` |
| `NothingRetriggered` | `Spec => []NoRetrigger` |
| `ReachedAreTold` | `Spec => []ReachedIsTold` |

`DecisionsAreSafe` is about one step, but about all incidents there are while the code
looks at one page of them. A page that is not full has every candidate (`PageShowsAll`):
of the candidates that are not on it one comes first, all before it are on the page, and
by the rank that the query gives it they fill the page. A full page decides nothing. On
the page the scores are fractions of different denominators; brought to one denominator
they are whole numbers, so some candidate is best (`BestExists`), and a score above an
acceptable one is acceptable (`AcceptableUpward`). If no candidate were acceptable, then,
neither is the best, and the other way round.

`MissesOnlyWhileDisabled` and `NothingRetriggered` hold whatever correlation decides and
whatever the intensity table is, for any reports and subscription. `AlertInv` adds that an
alert asks only for versions that were applied, and the second proof that only applied
versions were delivered: a new version is then above all that were delivered, and the version before it is the witness
that its condition was not met.

`ReachedAreTold` is about one subscriber and all versions. The search keeps, round by
round, the end of its range where the estimate is below the minimum (`NarrowedKeeps`);
estimates fall with distance, so nobody at whose place the minimum is reached is farther
away (`RadiusReaches`), however many rounds there are. Of the versions that reach the
subscriber the first one is news: it is the incident's first, or the version before it
did not reach the subscriber (`ReachedIsNews`). What was told stays told. That a search
by rounds is defined at all, and that what each round keeps holds after all of them,
is shown by the least round that would be an exception (`LeastNatural`): the library's
induction theorems take an operator, which the provers cannot instantiate, but that the
natural numbers are well founded is a statement about sets.

### PublicViewProofs

| Theorem | Says |
|---|---|
| `Invariance`, `TypeCorrect` | `HubSpec => []HubInv`, `HubSpec => []TypeInv` |
| `NeverClosedTwice` | `HubSpec => []NoSecondClose` |
| `ImplementsHub` | `Spec => HubSpec`: composing the hub with its readers adds nothing to its behaviour |
| `NoSecondCloseForReaders` | `Spec => []NoSecondClose`, from the two before |
| `DetailsAreNotTorn` | `Spec => []DetailKnowsItsVersion` |
| `WalksAreExact` | `Spec => []WalkIsExact` |
| `ClientIsCurrent` | `Spec => []ViewIsCurrent` |

That a client's channel is open when its reaper comes, or the hub stops, depends on who
else may have closed it. `HubInv` says that a registered connection has a reaper
that waits and an open channel (`Registered`), and that a channel the hub has not seen is
open and has no reaper (`Unregistered`). 
A page of details hangs together because of the order in which it is read, though its
parts are not written together. A part is written at least as far as it was read
(`ReadAreWritten`), and what is written never gets less (`WrittenGrows`). So sources,
observations and associations, written with the row and read after it, are at least of
its version; audits, written with the evaluations, are read after these; and the
revisions, read last, reach whatever later version any part was of, since no matching is
recorded for a version that the core did not commit (`MatchedAreWritten`).

A walk is exact because its cursor separates what is due from what was shown (`Passed`):
what is due lies beyond the cursor, nothing that was shown does, and a row that is
written meanwhile is neither. A page takes the first rows beyond the cursor
(`PageIsPrefix`), so it leaves nothing due behind its last row, and one that is not full
leaves nothing at all. That the table is finite is needed here: a page of an infinite one
could be empty without being the last.

`ViewInv` follows an incident through everything between its row and the client.
`ViewFollows` says of each that the client has it as it is, or it was missed, or a
message of its current version is in the connection, the queue or the client's buffer,
or, as long as the list is being loaded, it is due on a page not read yet. A row that
moves to a page already read is no longer due, but was written, so its notice is on its
way. It needs that no message and no view is ahead of its row (`MessagesBehind`,
`ViewIsBehind`; otherwise a client that keeps the higher version could keep a wrong one),
and that a client that is served is registered (`Served`; otherwise a broadcast would
pass it by and nobody would know).

### Assumptions, and what stays with TLC

`AlertAssumption` and `DeliveryAssumption` say that bounds are natural numbers and
settings positive ones; `StreamAssumption`, `ProviderAssumption`, `BotAssumption`,
`HubAssumption` and `CatalogueAssumption` are of the same kind; where there is a `None`,
they add that it is none of the values. `RowsAssumption` adds that the table is finite and
that its keys are numbers other than the missing one; `ListingAssumption` that a page has
at least one row and `None` is no cursor. `ReaderAssumption`, `CorrelationAssumption` and
`DecisionsAssumption` give the sets their types; the last one says that the incidents
there are to begin with are incidents, that reports are in whole units, and that the
intensity formula has a value for their magnitudes and distances. `MatchingAssumption`
says that estimates fall with distance, as the formula's do, and that an intensity is
asked for in Telegram only and not below `MinimumSupportedMMI`: only
`ActivateTelegramIntensity` sets one, and it, `Validate` and the table's CHECK refuse
values outside of 2 to 6. The runs evaluate all of them.

Only model-checked is liveness under fairness, which is out of the prover's reach:
`EventuallySettled`, `GroupKeepsUp`, `EveryReportPublished`, `AlertsGetTheirTurn`,
`EveryUpdateHandled`, `ClientCatchesUp`, `ReaperGetsThrough` and the fairness part of
`FeedSpec`. The runs that expect a violation are about properties that do not hold.

The type invariants of `TelegramAlert`, `WebhookDelivery`, `Catalogue`, `IncidentStream`,
`ProviderFeed`, `TelegramBot` and `RealtimeHub` are proved. Of `PublicView` and
`Decisions` the proofs establish the types they need.

## What is not modelled

- The wording of messages, payloads and languages: no state depends on them. Of the
  intensity model, the distances and the geographic query only the order of values is.
- Fetching and parsing of the four catalogues, apart from the solution classes their
  parsers produce.
- The core's own consumer and inbox: the same statements and the same loop as those of
  the notification service, on another topic.
- The in-process ingestion, an alternative to the provider workers.
- Two first sightings of the same source or earthquake in flight at once: one action is
  one transaction. The races end in a unique violation and a retry of the message.
- Records that do not decode: they stop their consumer, as the documents say.
- A chat that refuses every reply: the bot would stay at its update for ever, and with
  it all other chats. Refused replies are bounded faults here.
- Of a PATCH, the fields other than the status and the radius: they do not decide whether
  a subscription is configured. What `UpdateSubscription` writes of them is in the model.
- Revisions of a report that come out after the report left the windows of polls and
  recoveries.
- Of the HTTP API: problem responses, details and revisions of one incident, the
  creation of webhook subscriptions. Of the administration: the owners written at start
  and the roles read from them, templates, access tokens. Every one of these is a single
  statement or none.
- Configuration, metrics and start-up code.

## Plan

In this order:

1. `ProviderFeed` composed with `Catalogue` through the core's inbox: observations of two
   channels out of order, and the core's consumer, whose polls block rebalances until
   `AllowRebalance`.
2. A finer `Catalogue` with two transactions in flight: the advisory lock, the unique
   violations and the retry of a message.
3. The in-process ingestion beside `ProviderFeed`: several transactions for one poll.

The runs stay a dozen and the properties at forty, so that checking all of them
stays a matter of minutes: a new module takes the place of the runs that ask the narrowest
questions, or joins two runs of one module into one.

Theorems next: the type invariants of `PublicView` and `Decisions` as wholes, and the
invariants of the modules that are added.

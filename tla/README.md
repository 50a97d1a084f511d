# itdashboard: a TLA+ development of its core

This directory specifies, model-checks and proves the parts of the hospitality
IT dashboard in which several requests, processes or failures meet. Every
definition is a translation of the code; `PROJECT.json` ("map") gives the lines
each one stands for.

## 1. The system

Four programs, seen from the edge of the network inwards:

| program | runs as | keeps | talks to |
|---|---|---|---|
| syslog edge agent (`src/syslog`) | 3 threads: listener, periodic summary, uploader | per-device window, last status (memory); outbound queue (SQLite) | POST `/v1/edge/ingest` |
| SD-LAN poller (`src/poller`) | 2 threads: poll loop, uploader | last status per device, outbound queue, quarantine (SQLite) | vendor API; POST `/v1/edge/ingest` |
| backend (`src/backend`) | 2 uvicorn workers, asyncio | PostgreSQL (READ COMMITTED), Redis; per worker: an outbox poller and an SSE replay buffer | Redis pub/sub to its own SSE connections |
| frontend (`src/frontend`) | browser | React state over mocked data | the `/v1` API |

The life of an event: a device's status changes; an edge program queues a
*transition*; its uploader POSTs a batch; `Ingestor.handle_batch` handles each
message in a transaction of its own that writes the device's health, opens,
refreshes or resolves alerts and inserts rows into `event_outbox`; some worker's
outbox poller publishes the rows on Redis; each worker's SSE connections filter
them and send them to browsers. Meanwhile a user may start an auto-fix, which
changes an alert outside of any transaction.

### Components: state, operations, what is hard, what makes them correct

- **Ingest** (`lib/ingestor.py`, `routers/ingest.py`). State: `devices`,
  `alerts`, `event_outbox`. Operations: edge_health, periodic, transition.
  Hard: concurrent batches on one device, `find_open` and `INSERT` in two
  statements, a statement that raises in mid-message, worker crashes, batches
  sent again. Correct: at most one live alert per device and kind; alerts agree
  with the last committed transition; alert rows and events are committed
  together; a rejected message leaves nothing.
- **Alert lifecycle and auto-fix** (`routers/alerts.py`,
  `repositories/alerts.py`, `middleware/idempotency.py`). State: alert state
  and authorisation, Redis `idem:{key}`. Hard: check and act in separate
  autocommitted statements; retry during the first attempt; crash before the
  answer is cached. Correct: a 202 stands for a dispatch; only a healthy
  transition closes an alert; a key dispatches once (it does not, see 5).
- **Outbox relay** (`lib/outbox_poller.py`, `main.py`). State: `published_at`,
  row locks. Hard: a poller in every worker; publishing cannot be rolled back.
  Correct: at-least-once delivery of committed rows, duplicates only after
  failures, nothing forgotten.
- **SSE stream** (`routers/stream.py`, `lib/sse_buffer.py`). State: one replay
  buffer per worker, filled by its connections. Hard: reconnection to another
  worker, ids made up per connection, filters on fields a payload may not have,
  the window between subscribe, replay and live events. Correct: what a client
  sees was published, and what it misses is limited to named cases.
- **Alert queries** (`repositories/alerts.py`, `lib/cursor.py`): keyset pages
  under concurrent inserts and updates. Correct: no alert that stays put is
  skipped or repeated.
- **Estate, properties, exec** (`routers/estate.py`, `lib/health.py`, ...):
  read-only; `property_health_score` is a pure function.
- **Syslog agent**: aggregator (window, health, transition against periodic
  summary), queue (cap, oldest dropped), uploader (peek, POST, ack, backoff).
  Hard: an eviction between peek and ack, silence, restarts, a refused batch.
- **SD-LAN poller**: poll cycle (fetch, assess, record the state, enqueue),
  queue, uploader with quarantine. Hard: a crash between recording and
  enqueueing, devices that vanish, partially rejected batches.
- **Frontend**: a simulation provider with timers; views over mocked data.
- **Middleware, schema, deployment**: request ids, logging, ETags, error
  bodies; migrations; Docker configuration.

`PROJECT.json` lists every component with its status and, under "hazards",
what a test would hardly reach, each at its line.

## 2. The modules

| module | models | composed with |
|---|---|---|
| `AlertIngest` | ingest and auto-fix over the shared tables | – |
| `MCAlertIngest` | TLC instance of it | extends `AlertIngest` |
| `AlertIngestProofs` | its theorems | extends `AlertIngest` |
| `EventDelivery` | abstract: events are recorded, then delivered | – |
| `OutboxRelay` | writers of the outbox and the pollers of all workers | implements `EventDelivery` |
| `OutboxRelayProofs` | its theorems | extends `OutboxRelay` |
| `PollCycle` | `poll_once` of the SD-LAN poller over its state store | – |
| `MCPollCycle`, `PollCycleProofs` | TLC instance, theorems | extend `PollCycle` |
| `AtLeastOnce` | abstract: a message is kept until it is answered for or given up | – |
| `EdgeQueue` | the outbound queue of an edge program and its uploader | implements `AtLeastOnce` |
| `MCEdgeQueue`, `EdgeQueueProofs` | TLC instance, theorems | extend `EdgeQueue` |
| `SseStream` | the event stream: connections, filters, replay buffers | – |
| `MCSseStream`, `SseStreamProofs` | TLC instance, theorems | extend `SseStream` |
| `SyslogAgent` | the syslog edge agent: listener, periodic thread, queue, uploader | – |
| `AlertPages` | reading alerts, page by page and one by one, while they change | – |
| `EstateView` | the views of the estate and of a property, query by query | – |
| `PollMapper` | the SD-LAN poller's assessment of records, and its messages | – |
| `MCAgentAndPages` | TLC instance of agent and pages, one moving at a time | extends `SyslogAgent`, `AlertPages` |
| `MCRelayAndEstate` | TLC instance of relay, estate and mapper, one moving at a time | extends `OutboxRelay`, `EstateView`, `PollMapper` |
| `SyslogAgentProofs`, `PollMapperProofs` | theorems | extend theirs |
| `ViewProofs` | theorems | extends `AlertPages` and `EstateView` |

### AlertIngest

`pc[r]` is where the handler of ingest request `r` is:

| action | code |
|---|---|
| `TakeMessage` | next iteration of the loop of `handle_batch`, BEGIN |
| `TouchRow` | `devices.upsert`, `update_health`, `insert_raw_event` (or `props.upsert_edge_box`): waits for the row and locks it |
| `ResolveAll` | `resolve_all_for_device`, for a healthy transition |
| `FindOpen` | `find_open_for_device`, then `update_detail` or `create` |
| `Commit` | `_enqueue_event` and COMMIT: health, alerts and events become visible together |
| `Reject` | a statement raised: rollback, the message is listed as rejected, the loop goes on |
| `Respond`, `Crash` | the 200; the worker dies or the handler is cancelled |

and `fpc[f]` where auto-fix request `f` is: `LookUp` (idempotency cache),
`GetAlert` (row and its three tests), `SetActing` (`update_state`), `Dispatch`
(outbox INSERT), `Remember` (SETEX and the answer), `CrashFix`. Each is
autocommitted, hence an action of its own that others interleave with.
`Authorize` is the external agent service that sets `auto_fix_authorized`.

A lock is not a variable: the row of the message is locked exactly while
`pc[r]` is inside the transaction after `TouchRow` (`RowFree`), the rows of
`found[r]` from the statement that returned them (`AlertFree`). A transaction's
own writes are kept as what it will write (`found`, `prior`, `msg`) and take
effect in `Commit`, which is what READ COMMITTED shows to others.

Abstractions. A message is its kind, row and status; metrics, names and wording
are left out, and so are `raw_events` rows, which nothing reads. The id of an
alert is the place of the message that creates it, which is as fresh as the
`uuid4` of the code. Timestamps are left out: where `opened_at` would decide
between several open alerts of a kind, any may be taken. The 24-hour expiry of
`idem:{key}` is left out, and a key is used for one alert (a client uses a new
key for a new request). A request whose COMMIT succeeds but whose connection
then breaks is covered by `Commit` followed by `Crash`; the case in which the
handler survives and lists the committed message as rejected is not modelled.

### EventDelivery and OutboxRelay

`EventDelivery` says what an outbox promises: only recorded events are
delivered, each recorded one is in the end; how often and in which order is
open. `OutboxRelay` has writers (`Insert`, `EndOfInsert`, the latter a commit or
a rollback; `enqueuedAt` is the time at which the transaction *began*) and
pollers (`Poll`, `Publish`, `Commit`, `Fail`, `Crash`, `Restart`). `Publish` is
one `redis.publish` and the UPDATE after it: the UPDATE is invisible until the
commit, so nothing can tell the two apart but a failure, and a failure in
between rolls the mark back just as one after it does. `Fail` includes a COMMIT
whose reply is lost. A poll locks `FOR UPDATE SKIP LOCKED`, so `Unlocked` leaves
out what other pollers hold. The refinement mapping takes committed rows as
recorded and rows that have gone out at least once as delivered; everything the
pollers do with locks and marks is a stutter.

### PollCycle

A poll, in the order of `poll_once`:

| action | code |
|---|---|
| `StartPoll` | `networks()` has answered, with any set of devices |
| `FailedPoll` | it raises; the loop logs and waits |
| `RecordDevice(d)` | assess, compare with the stored status, `store.record`, the periodic and perhaps a transition message; the platform is last |
| `FlagVanished(d)` | the sweep for devices not seen for 2.5 intervals |
| `Enqueue` | `enqueue_many` of everything collected |
| `CutShort`, `Stop` | an exception or the end of the process, in a poll or between two |

Each statement on the store commits by itself while the messages wait in memory,
so `CutShort` leaves the store ahead of the queue; `orphaned` names the devices
for which that matters. Time is counted in intervals, and an age is kept only up
to `Gone`, the first whole number above 2.5. A process that was down may find
any age. What `assess_device` and `assess_platform` return is a choice of
`Readings`. `told`, `orphaned`, `absent`, `alarms` and `failures` are history.
Left out: the heartbeat, metrics and metadata of a message, and reports that
list a device twice.

### AtLeastOnce and EdgeQueue

| action | code |
|---|---|
| `Enqueue` | `enqueue`, `enqueue_many`: INSERT, then `_trim` |
| `Take` | `peek_batch`, oldest first |
| `Send` | the POST and its answer: accepted, partly rejected, refused (4xx), failed, or none |
| `HandleLate` | the backend commits one message of a request that has no answer |
| `Ack` | `ack` of the whole batch after a 2xx, rejected messages included |
| `Retry` | the batch stays; a refusal is counted under the ids of the batch |
| `Park` | `quarantine` of a batch refused `MAX_4XX_ATTEMPTS` times, and `_trim` |
| `Restart` | the process dies: counts are lost, rows are not |

The lock of the queue is held for one statement, never for the request, so rows
come and are trimmed between `Take` and `Ack`. A row id is the place of the
message in `made`: ids are AUTOINCREMENT, and `enqueued_at` grows with them. A
message the schema refuses (`bad`) makes the backend refuse the whole request.
With `Parks = FALSE` this is the queue of the syslog agent, which has the same
caps and no quarantine: the theorems hold for it too, and `SyslogAgent` has the
queue together with its producers.

The backend runs one transaction per message, in the order of the request. If
the uploader gets no answer (timeout, lost connection, a worker that dies or a
process that is restarted during the request), `Unanswered` puts the batch into
`late`, and `HandleLate` commits any of its messages at any later time, also
after the batch was sent again. A message that is passed over was rejected, and
a worker that dies leaves the rest uncommitted, so the parts of a batch that can
have been handled are all its subsets.

`AtLeastOnce` is what the producers of either program rely on: a message is kept
until it has arrived or was given up, requests hold the oldest messages that are
kept, and nothing is sent again after it was acknowledged. The refinement
mapping takes the rows of the queue as kept, the messages of requests that
reached the backend as offered, what the backend has handled or listed as
rejected as arrived, and what was trimmed, parked or discarded as given up; what
the uploader has in hand, its counts and restarts are stutters. A row that is
trimmed while it is sent can still arrive, which the abstract module allows.

The order is an order of requests (`OldestFirst`, `Offer`), and cannot be more:
within a request the backend may reject an earlier message and commit a later
one, and if the answer is then lost, the batch is sent again and the earlier one
is committed after the later one. A late commit can even follow the
acknowledgement. What repeats and late commits do to the backend is
`AlertIngest`'s part: a request there holds any messages, those of an earlier
one too, and requests overlap.

Left out: waiting times, the `attempts` column, the `--once` mode, a wall
clock that is set back, a process that dies between an INSERT and its `_trim`
(the next one makes up for it).

### SseStream

| action | code |
|---|---|
| `Open` | a request to `/v1/stream`, with the client's filter and `Last-Event-ID` |
| `Subscribed` | Redis has handled the SUBSCRIBE: redis-py sends it and does not wait |
| `StartReplay` | `events_since`, evaluated once, before the first entry is sent |
| `Replay` | an entry of the replay: filtered, sent |
| `Skip`, `Deliver` | a round of the loop: the event is none of the client's, or is put into the buffer and sent |
| `Close` | the generator finds its client gone and unsubscribes |
| `Crash` | a worker dies with its connections and its buffer |
| `Publish`, `Tick`, `Drop` | an outbox poller publishes; time passes; the network drops a client |

Each action is what one connection does between two awaits. Events are named by
their place in `published`, while the *id* of an entry is the time at which some
connection sent it, as in the code: two entries may have one id, and the same
event has different ids in different buffers. A message is its kind, property
and severity, and which kinds carry a property or a severity is read off the
payloads in `lib/ingestor.py` and `routers/alerts.py`. `got` and `since` are
history; `last` is what the browser remembers. Left out: a clock that is set
back, an unknown `min_severity`, payloads that are no JSON, keepalives, and a
client so slow that Redis cuts the subscription off. An exception in the
generator is a `Drop` followed by `Close`.

### SyslogAgent

| action | code |
|---|---|
| `Hear` | `listener_loop`: a datagram that is parsed, known to the device map and no noise; the clock is read |
| `IngestRepeated`, `IngestEvent` | `ingest` under the lock: deduplication, window, health, and the transition if the status has changed |
| `ReadClock`, `TakeLock` | `run_periodic` reads the clock, `emit_periodic` takes the lock |
| `Summarise(d)`, `ReleaseLock` | the loop over the devices: eviction, health, a periodic row |
| `Upload`, `Ack`, `MarkFailed` | a batch of the oldest rows and its answer: accepted, some messages rejected (which nobody looks at), failed, none |
| `HandleLate` | the backend commits a message of a request that has no answer |
| `RestartAgent` | the process ends and starts again: the queue stays, the rest is lost |
| `Tick` | time passes; nobody waits longer than `MaxDelay` for the lock |

Both threads read the clock *before* the lock, so the second to get it works
with a time (`asOf`, `heard.age`) older than the state. Times are ages counted
back from the present and kept only up to the age at which no test tells them
apart any more. The health is computed with the code's own figures (points per
error and per warning, limits 60 and 20, thresholds 85 and 60, silence). An
error of the queue while a transition is written leaves `last_status` as it
was; one in `run_periodic` is caught by nobody and ends the thread
(`phase = "ended"`). It may come before the INSERT, or from `_trim`, with the
row in and neither class trimmed or only the periodic rows (`EnqueueBreaks`):
the class is then over its cap until the next `_trim`. `cloud` is what the backend knows of each
device, `alerted` what the transitions have told, `astray` the devices for which
an error or a restart has made the two differ. Left out: reasons and
`top_events`, the regular expressions of the three header forms and of the
categories (a datagram carries their outcome), the order of `enqueued_at`, which
is taken to be that of the inserts, a clock that is set back, and an error of
SQLite in `take_batch`, `ack` or `mark_failed`, which would end the uploader's
thread.

### AlertPages

| action | code |
|---|---|
| `Open`, `Refresh`, `Recover` | what the commit of a transition does to the table (`AlertIngest` looks inside) |
| `ActOn` | `update_state` of auto-fix: whatever the state, "acting" |
| `StartWalk`, `NextPage` | `GET /v1/alerts`, `GET /v1/properties/{id}/alerts`, without and with a cursor |

`ComesBefore` is the ORDER BY, `BeyondCursor` the cursor clause, `IsFetched` the
LIMIT with its additional row, `AlertResponse` the stored `detail_json` with the
live state laid over it. `Materialize` is the identity section of the detail. A
refresh writes it anew: with a `correlation_id` that is new each time
(`health.py:156`), and with the property of the envelope the message came in,
while `update_detail` leaves the columns `correlation_id` and `property_id` as
they were. So GET and the row can differ in these two, and
`DetailTellsTheAlert` says where. A cursor is the key of a row; its base64 and JSON
carry it unchanged. `opened_at` of a new alert may be any moment, since it is
taken per batch and batches wait for rows, and an id has no relation to time.
`steady` is history: the alerts that have matched since the walk began.

### EstateView

`Ask` begins a request, with `sort` worst_first or name_asc, then for each
property of the estate, or for the one asked about, `ReadDevices`,
`CountAlerts`, `ReadWorst` (estate only) and `ReadBoxes` are the queries in
their order, and `Respond` sorts the tiles and computes the strip. The database
reads the properties in its own order of names (`SitesByName`), the sort by name
is Python's (`NameRank`), and the two may differ. `HealthReport`, `Reopen` and
`Heartbeat` are commits of ingest and of auto-fix between two queries. An open
alert is its device, severity and a number, since two of one kind can be open
(section 5). `PropertyStatus`, `PropertyScore`, `Ceiling` are
`property_health_score`. A heartbeat's age is taken at one moment: time stands
still during a request. `began` and `ended` of a tile are history: the commits
before its first and before its last query. Left out: `recent_events`, labels, a
device that reports under a property other than that of its row, and properties
that are added or renamed during a request.

An answer *can* mix moments: a tile may count a p1 alert and name none, if a
commit fell between the two queries. `AnswerIsCoherent` names that exception and
no other, and `QuietAnswerIsTrue` says that a tile is true of the database unless
something was committed after its first query.

### PollMapper

`device` and `platform` are the records that the last poll got, changed in one
respect from poll to poll. `DeviceStatus`, `DeviceScore`, `DeviceReasons`,
`TopEvents` and `DeviceMessage` are `assess_device` and `device_message`, the
platform has the same. Statuses are combined in the order of the code, since
`degraded` follows from the score only if no finding has decided otherwise.
Texts, metrics and counters, and device classes are left out, and so are the
sources of a device's id other than the default one (`mapper.py:99-112`); a
number that `_num` cannot read is `Unread`.

## 3. What TLC checks

| run | instance | states | shows |
|---|---|---|---|
| `alert_ingest` | 2 requests of up to 2 messages, 1 device, 1 fix | 0.6 million (with symmetry) | the safety properties under rejections and crashes at every statement |
| `auto_fix` | 2 requests of 1 message, 2 fixes with 1 key | 63,000 | 202 means dispatched; every request ends |
| `poll_cycle` | a device and the platform, 2 failures | 143,000 | store and queue agree but after a poll cut short; one alarm per absence; who is gone is reported |
| `edge_queue` | 4 messages, batches of 2, caps 1, 2 and 1, 2 refusals, 1 failure | 345,000 | a message is kept until it is answered for or given up (`AtLeastOnce`), order of requests, fair eviction, rightful quarantine, nothing blocks the head |
| `sse` | 2 clients, 2 connections, 1 worker, 2 events, window 0, clock 0..1 | 880,000 (with symmetry) | only what was asked for, no gap while connected, complete replays |
| `agent_and_pages` | agent: 1 device, window 2, caps 1 and 1, batches of 1, 1 trouble; pages: 3 alerts, 2 properties, pages of 1 | 429,000 (354,000; 75,000) | bursts count once, transitions tell the status, silence is reported; pages skip and repeat nothing, a detail agrees with its row in all but two columns |
| `relay_and_estate` | relay: 3 rows, 2 pollers, LIMIT 2, 1 failure; estate: 2 sites, 2 devices, 2 boxes, 2 alerts of a kind, 1 commit, both sorts; mapper: 2 ports, 2 items, 2 temperatures | 320,000 (100,000; 205,000; 15,000) | duplicates only after failures, truth of `published_at`, refinement, every row is published; answers are true and coherent but for the named mixture; messages are accepted, name the cause, and worse looks worse |
| `sse_replay`, `sse_filter` | 1 client, 2 events | | see 5 |
| `auto_fix_reopens`, `auto_fix_twice`, `poll_flaky` | see 5 | | statements of the documents and comments that the code does not keep |

Properties of `AlertIngest`: `OneLiveAlertPerKind`, `AlertsFollowTransitions`,
`OutboxMatchesAlerts`, `RejectedLeavesNothing`, `OnlyHealthyResolves`,
`AnsweredMeansDispatched`, `RequestsEnd`; of `OutboxRelay`: `OncePerFailure`,
`PublishedIsOver`, `ImplementsDelivery`, `EveryRowIsPublished`; of `PollCycle`:
`QueueFollowsStore`, `OneAlarmPerAbsence`, `GoneIsReported`; of `EdgeQueue`:
`ImplementsAtLeastOnce`, `OldestFirst`, `ParkedWasRefused`, `OnlyOwnClassEvicts`,
`EverythingLeaves`; of `SseStream`: `OnlyWhatWasAskedFor`, `NoGapWhileConnected`,
`ReplaySkipsNothing`; of `SyslogAgent`: `BurstCountsOnce`,
`TransitionsTellStatus`, `SilentIsReported`; of `AlertPages`: `PagesSkipNothing`,
`PagesRepeatNothing`, `DetailTellsTheAlert`; of `EstateView`:
`QuietAnswerIsTrue`, `AnswerIsCoherent`; of `PollMapper`: `CauseIsNamed`,
`WorseLooksWorse`; a type invariant each, in which `EdgeQueue` also has its
caps and `SseStream` the order and the span of its buffers. Every one is broken by a plausible bug of the code, kept beside the
definition it changes (`RowFreeDoNothing`, `OpenOnUntouched`, ...).

Why the bounds are enough. The hazards of ingest are races of two transactions
on one device, with the alert of a third, earlier message already there: two
requests of two messages have all of these. Devices meet only through row
locks, and a request holds one device row at a time, so a second device adds no
wait. Two fixes with one key are an attempt and its retry. For the relay, two
pollers and LIMIT 2 of 3 rows give full and short batches, both orders and a
row left over; one failure shows each kind of duplicate. The devices of a poll
meet only in `messages` and in the rule that the platform comes last, and two
failures are a cut-short poll and one that hits its repair. For the queue, 4
messages of either class with caps of 1 and 2 overflow both classes and the
quarantine, batches of 2 are full and short, a batch can lose a row to `_trim`
while it is sent, and one failure suffices for a lost answer, with the batch sent
again before, between and after its late commits, or a restart
between the two refusals. For the stream, a window of 0 in a clock of two values
has entries that share an id, that are kept and that are dropped; two clients
with different filters share a buffer while one of them reconnects; buffers of
different workers never meet, and a client that moves to another worker finds
what it finds after a crash, an empty buffer, or one that others filled.

`agent_and_pages` and `relay_and_estate` hold modules that share no variable, and
the variable `part`, chosen at the start, says which of them moves while the
others rest at one initial state: the states of a run are the sum of theirs, not
the product. Devices of the syslog agent meet only in the queue and in the order
of a summary, and the caps of 1 make even the rows of one device push each other
out; two errors are needed for "degraded" by score (100 - 16 < 85), but silence
and its points reach every status with one device and one signature, and a window
of 2 ticks keeps, drops and evicts late. One trouble is a restart, an error of
the queue at any of its statements, a rejected message or a lost answer with
late commits, at every step. Batches are of one row: what a larger one adds, the
part of a request that is handled and the order within it, is checked in
`edge_queue`, and the safety properties of the agent are proved for any batch
size. Three alerts and pages of one make walks of up to four pages with writes
between any two, and a second property is one that a refresh can come under. One
commit between any two queries of a view reaches every mixture of two moments;
each behaviour has one request, since the next would find such a database again.
The mapper starts from *every* record over its sets and takes every single
change, so each pair of neighbouring records is compared.

All safety properties are proved for all values of the constants (section 4);
the liveness properties are only model-checked.

Fairness. `Ingest(r)` and `AutoFix(f)` are weakly fair: the event loop runs
every handler and PostgreSQL grants a freed row lock. `Work(p)` is weakly fair:
`run_outbox_poller` loops for ever and a dead worker is started again (restart
policy of the production compose file). `Poll` is weakly fair: `run_forever`
catches what a poll raises and waits for the next. `Upload` is weakly fair: the
uploader's loop never ends and requests have a timeout; an SQLite error in the
uploader thread, which would end it, is assumed away. `Periodic` and `Uploader`
of the syslog agent are weakly fair: their loops end only with their thread, and
that the periodic thread may end is a step of the model, which
`SilentIsReported` excepts, as it does a device that has not been heard since
the agent was started: that one the agent does not know (section 5). Nothing makes a device talk. No fairness is assumed of clients,
writers, failures or crashes; failures are bounded by `MaxFailures`.

## 4. What is proved

For every value of the constants, by TLAPS:

- `AlertIngestProofs`: `TypeCorrect`, `OneLive`, `Follow`, `OnlyHealthy`,
  `OutboxMatches`, `Rejected`, `Answered`. The inductive invariant adds to
  `TypeOK`: `Control` (where a handler is, against the message it holds),
  `RowLock` (two transactions never hold the same row: this is what the upsert
  gives), `Fresh` (the alert name of a message not yet committed is unused),
  `Stamped` (who wrote which event), `FoundHolds` (what a transaction read under
  its row lock is still so when it commits) and `FixKnows` (a fix past its tests
  names an existing alert). `FoundHolds` is the heart: `OneLiveAlertPerKind` is
  not inductive without it, since `Commit` opens an alert because of what
  `FindOpen` saw. Steps of auto-fix and of the agent change alerts only mildly
  (`Mild`): device, kind and `resolved_at` stay; commits of other requests
  touch other devices (`CommitElsewhere`). `Answered` has an invariant of its
  own, `AnswerInv`, about cached answers. `NoDeadlock` says that a
  handler that has locked its device row never waits for an alert row another
  one holds: what a transaction holds belongs to its own device. Since the wait
  for the device row comes before any lock, there is no circle of waits.
- `OutboxRelayProofs`: `TypeCorrect`, `Once`, `Over` and `Refinement`
  (`SafeSpec => Delivery!SafeSpec`). `Holding` says that each row has at most
  one holder and that held rows are committed and unpublished; `Counted` bounds
  how often a row has gone out by whether its mark is there, pending or lost.

- `PollCycleProofs`: `TypeCorrect`, `Follows`, `OneAlarm`. `Pending` says that a
  device still in the report has no message yet and that a message in memory
  carries the status just recorded; `Flagged` that who has been flagged and not listed since
  is unhealthy in the store, which is why the sweep does not flag it again.
- `EdgeQueueProofs`: `TypeCorrect`, `Accounts`, `InOrder`, `ParkedRightly`,
  `OwnClassOnly`, and `Promised`, the refinement of `AtLeastOnce` step by step. `InHand` says that
  the batch is a head of the queue, also after rows were added and trimmed, and
  that what the uploader knows of the answer is true of every row of the batch,
  which with it makes `OldestFirst` inductive; `LateWasOffered` that what is committed late was in a
  request; `Counted` that a count kept for a batch is one for each of its rows.
  `ParkedWasRefused` needs both: the code counts batches, the promise is about
  rows. The caps (`Caps`) rest on lemmas about the newest and the oldest *k* of
  a finite set of numbers, and an eviction on the fact that whatever is trimmed
  has as many newer rows of its class as the cap allows.

- `SseStreamProofs`: `TypeCorrect`, `Invariance`, `AskedFor`, `NoGap`,
  `NothingSkipped`. The two
  invariants are inductive together with the types, in which a client listens
  only on a connection that is its own. `NothingSkipped` rests on `EventsSinceAll`,
  a lemma on `events_since` that needs no assumption on the ids in the buffer:
  the first entry of an id is not after any other of that id. For the order and
  the span of a buffer (`Timed`) no entry may be of the future; then the old
  entries are a prefix (`FirstOnes`), and `add`, which pops from the left while
  the first is old, drops all of them and only them.
- `SyslogAgentProofs`: `TransitionsTell`, `SyslogTypeCorrect`, `BurstCounted`.
  For the first, `AgentInv` adds that a device
  without a status has an empty window and that an event in hand is of a known
  device: then the first status of a device is computed from one event, which
  is healthy (`FirstIsHealthy`), and may go unannounced. For the others,
  `SyslogInv` follows the queue (`QueueFits`: the caps, exceeded by no more rows
  than `enqueue` has failed, and that the batch being sent is its oldest rows even
  while rows are trimmed from under it) and each
  window against the cache (`WindowsFit`). Two events of a signature in a window
  are far enough apart (`Apart`) only because the cache remembers the youngest
  of them for as long as it could suppress another (`Covered`); both are
  followed through eviction and through the shift of ages at every tick, at
  which ages stop growing.
- `ViewProofs`: for the pages, `PagesTypeCorrect`, `PagesSkipNothingCorrect`,
  `PagesRepeatNothingCorrect`, `DetailCorrect`. `WalkInv` says that the cursor
  is the key of a row of the last page, that what has been seen is at or before
  it, and that what is steady is seen, on the page, or after it. That works
  because the key of a row never changes: severity and `opened_at` are written
  once. `DetailFits` says the same of the columns that a detail repeats, and that a
  detail with the row's `correlation_id` was not refreshed, and so has its property
  too. For the views, `AnswerCoherent` and `QuietAnswerTrue`. Both rest on `ReadSoFar`:
  the tiles are those of the first properties by name, and as long as nothing has
  been committed since its first query, each of them and the draft, query by
  query, holds what the database holds. The order of the answer, by either sort,
  is that of a ranking of the tiles (`Ranking`, `SortedIs`). The strip adds up figures of tiles and
  the truth counts devices, so the proofs need that sums over disjoint sets
  add up. `Total` is a fold over a set, and since induction over sets is not to
  be had, the lemmas (`TotalOfDisjoint`, `TotalBound`) argue by a smallest
  subset for which they fail (`LeastSet`).
- `PollMapperProofs`: `MessagesAccepted`, `CauseAlwaysNamed`,
  `WorseNeverLooksBetter`. The status is followed test by test (`Hardware`,
  `Thermal`, ...): each is the worst of what was and what it finds, so a record
  that is worse in every respect is at least as bad after each test. The score
  needs more: critical and warm exclude each other, as do a missing and an
  invalid licence, and the heavier of the two must cost more.

Assumptions are those named in the modules: `Sent` is a set of statuses,
`MaxBatch` and `Limit` are positive, `Rows` is finite, `EdgeBox` is no device
and `None` is no value of the other kinds. For the views, the list of
properties names none twice (`property_id` is in the primary key), devices and edge boxes
are finitely many, and `NotThere` is no alert row.

Only model-checked: `RequestsEnd`, `EveryRowIsPublished`, `GoneIsReported`,
`EverythingLeaves`, `SilentIsReported` and the liveness part of
`ImplementsDelivery`. They rest on fairness and so on ENABLED, which are out of
the prover's reach.

## 5. Where the documents and the code differ

- `auto_fix_reopens`: `auto_fix` tests the state and writes `acting` in two
  statements, the second by `alert_id` alone. A resolution and a new problem in
  between leave two open alerts of a kind. `OneLiveAlertPerKind`, which counts
  only alerts that were never resolved, is what does hold.
- `auto_fix_twice`: the idempotency key is looked up before the work and stored
  after it; a retry that arrives in between dispatches a second time.
- `poll_flaky`: a comment promises that two missed polls are needed, so that one
  flaky response raises no alarm. The sweep compares wall-clock times, and ages
  grow also while polls fail or the service is down: one report without the
  device is then enough.

- `sse_replay`: a reconnecting client is promised every event it missed within
  the window. The buffer holds only what some connection of the same worker was
  sent, so a client that was alone is replayed nothing. `ReplaySkipsNothing` is
  what does hold.
- `sse_filter`: `_passes_filter` compares the payload's `property_id` with the
  client's, and only `alert.opened` and `edge.heartbeat` have one. A client
  that follows a property is never told that an alert of it was resolved.

Smaller differences, read off the code and without a run of their own:

- `md-files/FAQ.md:161` says that after 180 seconds of silence a device is flagged
  unhealthy. The agent's list of devices is in memory (`aggregator.py:33`), and
  summaries go over that list (`:163`): a device that falls silent before the
  agent is restarted is not mentioned again, and the backend keeps its last
  status. `SilentIsReported` has this as an exception.
- `GET /v1/alerts/{id}` shows the `correlation_id` of the last refresh, which is
  not that of the row nor that of its first message, and the property of the last
  message, while the lists select by the row's `property_id`.
- `uploader.py` of both edge programs takes a 2xx for the whole batch; messages
  that the backend lists as rejected are deleted from the queue.

- `md-files/DATA_FLOW_VISUAL.md:465-470` shows a transition for a device that has been
  silent for 200 s. Transitions are computed only when an event arrives; silence
  is told by the periodic summaries (`SilentIsReported`).
- `assess_device` takes points for findings, and its status `unhealthy` comes
  from findings alone: a score of 60 may be `unhealthy` here and `degraded` on
  the syslog agent's scale.
- `mapper.py:277` says that each reason becomes an event; only the first five
  do. The findings of the platform may be crowded out by its problems.
- `routers/alerts.py:29` declares a query parameter `severity` that no query
  uses.
- The row of an edge box keeps the interval it was inserted with
  (`repositories/properties.py:72`), and the estate calls a site online or not
  by its newest box alone.
- A licence whose end has passed, without the platform's `expired` flag, is no
  finding (`mapper.py:363`).

## 6. Not modelled

- The HTTP client of the poller (`sdlan_client.py`: tokens, retries, paging) and
  the configuration loaders: their outcome is what `StartPoll`, `FailedPoll` and
  the constants stand for.
- `exec.py`, which returns fixed figures, `recent_events`, labels, and the
  texts of an alert's detail (causal chain, series, rationale), which no state
  depends on.
- Middleware (request ids, logging, ETags), migrations as a process, Docker
  configuration: no state that two steps could disagree on, beyond the
  constraints of the tables, which the modules use.
- The frontend: views over mocked data, and a simulation whose timers live in
  one tab and share nothing with the other parts.
- The tools beside the programs: `preflight`, `probe`, `discover`, `lab`, the
  mock of the platform and `seed`: scripts that run once and print.
- Wall clocks that are set back, in all modules.

What could follow: the composition of `AtLeastOnce` with ingest and relay, from
the status of a device to the browser, in one specification.

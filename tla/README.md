# TLA+ models of OT Asset Discovery

Formal models of the parts of this application in which the order of events
decides whether the result is right: what the modules say, what TLC checks of
them on small instances, and what TLAPS proves for every instance.

## 1. The system

A sniffer captures industrial traffic in a thread of its own and hands packets
to the asyncio event loop. Parsers turn them into fingerprints. The discovery
engine looks each one up in the device inventory, lets the change detector
compare it, updates the inventory, rescores the device and records the
communication in the topology mapper. Alerts go to browsers over WebSockets.
A scheduler runs scans by cron expressions and on demand, and a REST API reads
and changes the database behind all this.

| Component | State | Operations | What makes it hard | What makes it correct |
|---|---|---|---|---|
| `app/topology/mapper.py` | buffer of edges, observed triples, `topology_edges` | record, flush, query, sniffer flag | packets during a flush; failing, cancelled and unacknowledged transactions; foreign keys; queries between the steps | each packet counted once, dates right, each path announced once per sniffer run |
| `app/discovery_engine.py` (life cycle) | running flag, flush task | start, stop, periodic flush, topology updates | cancellation in a transaction, packets after stop, restarts | flushes never overlap, stop returns, packets reach the table |
| `app/scheduling/scheduler.py` | jobs, loops, flags, results | create, delete, trigger, start, stop | loops and manual calls of one job; cancellation anywhere; start of a running scheduler | one scan of a job at a time, results in order, each scheduled job has its loop |
| discovery pipeline (engine handlers) | handlers in progress, the session they share | passive discovery, probe result, rescoring | lookup, alert and upsert are separate steps of concurrent handlers in one transaction, which nothing commits and a failing flush loses | nothing stored unannounced, what is handled stays while the transaction does, a linear audit history |
| `app/detection/change_detector.py` | devices alerted as gone | compare, check disappeared | a stale device list, a persist handler that raises | one alert per disappearance, and each reported |
| `app/db/device_repository.py` | `devices`, `device_history` | create, upsert/merge, update, delete | unique keys, limits of history and protocols, partial merges | merges never overwrite, history within its limit |
| `app/capture/sniffer.py` | capture thread, buffer | start, stop, packet handler, flush | two threads, 30 s limit of the flush, restart during a flush | what was not committed stays buffered |
| `app/capture/prober.py` | semaphore, probes in progress | probe, batch | concurrency limit, timeouts, retries, cancellation | one result per target, no slot lost, every batch ends |
| `app/api/websocket_manager.py`, `ws_alerts.py` | connections, lock | connect, disconnect, broadcast | sends under the lock, clients that fail or hang | connected clients get alerts in order |
| `app/event_bus.py` | subscribers | subscribe, unsubscribe, emit | handlers that raise or change the subscriptions | one failing handler stops no other |
| `app/scoring/risk_scorer.py` with the engine's rescoring | the devices' scores | score, rescore | peers counted before awaits, overlapping rescorings, rounding, a vulnerability database that comes and goes | score in 0..100, follows the device, falls only for a reason |
| `app/api/router_scans.py` | `scan_jobs`, `scan_history` | CRUD, trigger, lists in pages | concurrent requests, status rows nobody resets | status and history agree, each row on one page |
| `app/api/rate_limiter.py` and login | attempts per address | check, record | check and record are separate | never more than the limit is counted wrongly |
| `app/parsers/*` | none | four decoders, routing by port | lengths and counts that the packet declares, packets cut off anywhere | no byte read twice or from outside, a verdict that agrees with the fields, a fingerprint that can be stored and read |
| browser: `useAlertWebSocket.ts`, `AlertFeed.tsx` | socket, alerts shown | reconnect, merge | timers against unmounting, fetch against push | one socket, no alert shown twice or lost |

They interact as follows. The sniffer calls the engine's handler, one coroutine
per packet; the handler calls the change detector, the repository, the scorer
and the mapper, and each alert goes through the engine to the WebSocket
manager. The flush task and `stop()` call the mapper's `flush_updates`; the API
and the scorer's peer count call `get_topology`; `DELETE /api/devices/{id}`
removes rows under the mapper's feet by cascade. The scheduler is called by its
user, and calls a scan executor, an event callback and an alert callback.

## 2. Modules

| Module | Models | Kind |
|---|---|---|
| `CommunicationLedger` | what the mapper promises: a count of known and of durable packets per triple | abstract specification |
| `TopologyMapper` | state and operations of the mapper, and the tables it touches | operations |
| `DiscoveryEngine` | `start`, `stop`, the flush task, packets and deletions around these operations | specification, extends `TopologyMapper` |
| `TopologyQuery` | `get_topology` in its three steps | composition, extends `DiscoveryEngine` |
| `ScanScheduler` | the scheduler with its loops and calls | specification |
| `AlertBroadcast` | the WebSocket manager with the endpoint of its clients | specification |
| `DiscoveryPipeline` | the engine's handlers with the change detector's comparison and the repository's upsert | specification |
| `DeviceRescoring` | the engine's handlers from the upsert on, with the mapper's edges and the scorer's formula | specification |
| `DisappearanceCheck` | `check_disappeared_devices` against the packets handled meanwhile | specification |
| `PassiveSniffer` | capture threads, packet coroutines, buffer and flush | specification |
| `ActiveProber` | batches of probes that share a semaphore | specification |
| `ScanApi` | the requests of `/api/scans` over two tables | specification |
| `PacketDecoding` | the loop and the bookkeeping the parsers have in common | operations |
| `ModbusParser`, `Dnp3Parser`, `S7commParser`, `EthernetIpParser` | one parser each | operations, extend `PacketDecoding` |
| `ProtocolParsers` | the routing of a frame, and the parsers behind it | specification, composes the parsers |
| `MC...` | constants of the runs | instances |
| `DiscoveryEngineProofs` | theorems of `DiscoveryEngine` and `TopologyQuery` | proofs |
| `DiscoveryPipelineProofs` | theorems of `DiscoveryPipeline` and `DisappearanceCheck` | proofs |
| `PassiveSnifferProofs` | theorems of `PassiveSniffer` and `ProtocolParsers` | proofs |
| `DeviceRescoringProofs`, `ScanSchedulerProofs`, `AlertBroadcastProofs`, `ScanApiProofs`, `ActiveProberProofs` | theorems of the module of that name | proofs |

Two specifications that one proof module extends have different names for their
initial predicate, next-state relation and type invariant: those of
`DisappearanceCheck` are `AbsenceInit`, `AbsenceNext`, `AbsenceSpec` and
`AbsenceTypeOK`, those of `ProtocolParsers` `ParsingInit`, and so on.

**Grain of atomicity.** The application runs on one event loop: what stands
between two awaits is one action. An uncontended `asyncio.Lock` does not
suspend its caller, and no block under the mapper's locks awaits anything, so
that each of these blocks is one action too. The WebSocket manager's lock is
different: a broadcast keeps it while it awaits its sends, so there the lock and
the queue of its waiters are state. Where the code awaits the
database, the sniffer, an executor or a callback, the module has a state in
which every other actor may move.

### TopologyMapper and DiscoveryEngine

`buffer`, `observedTriples` and `snifferRunning` are the attributes of the
mapper, `edgesTable` and `devices` the committed rows. An edge is a record of
its count and two dates; as dates are compared within one triple only, the k-th
observation of a triple has date k. `phase[f]`, `edgesToFlush[f]` and
`staged[f]` hold where the call of `flush_updates` by the flush task
(`"periodic"`) or by `stop()` (`"final"`) is, and its local state: `TakeBuffer`
is the snapshot, `PersistEdges` the loop over `_persist_edge`, `CommitFlush`
the commit, which the foreign keys may forbid (`KeysHold`). A transaction fails
in `FlushRaises`, or in `CommitUnacknowledged`, where the database committed and
the program is told otherwise. `PutBack` is the except clause, and
`CancelFlush` what happens to a flush that gets `CancelledError`, which that
clause does not catch.

`engine` says where `start()` and `stop()` are: `stop()` cancels the task and
awaits it (`"cancelling"`), stops the sniffer (`"stopping"`) and flushes
(`"flushing"`). `Record` is a packet of a triple, at any time, also after
`stop()` and for deleted devices: the handlers of discovery outlive the sniffer,
and `handle_topology_update` is public. `Delete` is the API's deletion.

The variables `observed`, `announced`, `dropped`, `recounted` and `purged` are
history: what was recorded, announced since the sniffer started, lost with a
cancelled flush, counted again after a commit reported as failed, and deleted
with a device. Nothing depends on them except their own bound.

Left out: the loop over `_persist_edge` is one step, as argued at
`PersistEdges`; `sniffer.start()` and `sniffer.stop()` succeed; one caller at a
time starts and stops the engine; the mapper has a session factory.

### TopologyQuery

`get_topology` reads the rows, adds the buffer, then reads the devices
(`ReadEdges`, `MergeBuffer`, `DescribeNodes`), with any step of the engine in
between. `disturbed` is history: whether a flush was in progress, or the table
changed, since the rows were read.

### ScanScheduler

A *worker* is whatever may execute a scan of a job: the job's cron loops, in
the order they were started in, and its manual calls. `pc` is the await a worker
is suspended in. `Wake` and `Trigger` are `check_overlap` with the first lines of
`_execute_scan`, between which nothing is awaited. `ScanReturns` and
`ScanRaises` are the ends of the executor, `ScanEnds` the end of the callback
and the finally clause, `LoopCancelled` the arrival of `CancelledError`.
`start()` does not ask whether the scheduler is running, and neither does
`Start`: it overwrites `tasks`, and the loops before it stay.

### AlertBroadcast

`connections` is `_connections`; `lockQueue` holds the tasks that wait for
`_lock`, which `asyncio.Lock` serves in the order of their arrival; `sending`,
`target`, `remaining` and `disconnected` are the broadcast that holds it: its
alert, the socket whose `send_text` it awaits, the rest of its copy and the
sockets that raised. `endpoint[s]` is where the task of `/ws/alerts` is for
socket `s`, and `open` and `stalled` what the network makes of it: a client may
stop reading at any time, and then a send neither returns nor raises until the
connection is closed. `Broadcast` is a call of `broadcast_alert` up to its first
await, `SendReturns` and `SendRaises` one turn of its loop each, with the end of
the block after the last one, and `Granted` the next waiter that gets the lock.
The order in which the copy of the set is gone through is left open.

`unheard`, `dispatched`, `joined` and `received` are history: alerts dropped by
the early return, the last alert whose broadcast got the lock, what that was when
a client was registered, and what each client was sent.

Left out: the answer to a ping, which changes nothing of the manager's state;
cancellation of an endpoint by the server's shutdown.

### DiscoveryPipeline

One handler is one call of `_handle_passive_discovery` or of
`_handle_active_probe_result`, which do the same up to the merge. `pc[h]` is the
statement or the broadcast it awaits: the engine's lookup, an alert, the lookup
of `upsert_device`, that of `create_device`, its insert, and the count, the
selection and the deletion of `_enforce_history_limit` for one field after the
other, then the flush. `devices` and `history` are the device and its audit
entries at each address, as the handlers see them: they share one repository,
whose session keeps one object per device, so that a handler sees at once what
another one assigns to it. `held[h]` tells a device from one that was created at
its address after it was deleted; `toSend`, `now`, `field`, `excess` and
`doomed` are the locals of a handler.

`LookedUp` is the comparison of the change detector with the device as it is
then, `AlertSent` the return from a broadcast. `Merge` and `HistoryRecorded`
are the parts of `_merge_device` between its awaits: between the test of a field
and its assignment stand the statements of `_record_history`, while the
protocols are tested, extended and assigned in one go. `Checked` and `Inserted`
are `create_device`, with its `DuplicateDeviceError` and the unique constraint.
`DeleteDevice` is the API's deletion, in a session of its own.

**The session.** Nothing in `src/` commits or rolls back the session that the
handlers' repository works in, so that all of them write into one open
transaction. `stored` is what is committed, from before; `written` are the
addresses whose row the transaction has written, which a deletion has to wait
for; `usable` says that it has not failed. A statement writes first what is
pending, so that a merge is written by the count of its history, or by its
flush. What ends the transaction is `TransactionLost`: an insert that meets
another handler's device (`Inserted`), the merge of a device that was deleted
(`MergeOfDeleted`), a statement that the database refuses (`StatementRefused`).
Everything the handlers have written is gone then, and each later statement
raises (`StatementRaises`), which the handlers' except clause logs. Two flushes
at a time are refused by SQLAlchemy: a statement that would flush goes on without
it, so that a count may miss the entry it was made for (`Counted`, `missed`),
and `flush()` itself raises (`FlushRefused`); what that handler has added or
changed stays pending, and is written with a later statement (`"unsaved"`,
`"unflushed"`).

`announced`, `overtaken` and `missed` are history: the protocols that dispatched
alerts were about since the last device at the address was deleted (with those
of a device that was there at the start, whose alerts belong to an earlier run),
the handlers that were between lookup and return when that happened, and the
entries their own count did not see.

Left out: what the handler does after the upsert, which is in
`DeviceRescoring`, and with it the await between the upsert and the end of the
handler; devices that the API creates while handlers run; a first statement that
finds no connection, before which there is no transaction to lose. `firmware`
stands for vendor, model and device type as well, which the merge treats alike.

### DeviceRescoring

A task is one call of a handler from its upsert on, or of
`handle_topology_update`. `at[t]` is what it awaits: the lookup and upsert as one
(`"discovering"`), the two reads of `get_topology` and the query that follows
them (`"selecting"`, `"merging"`, `"describing"`), the broadcast of an alert
(`"alerting"`) or of a new path (`"announcing"`), the lookup of a device
(`"fetching"`). `Rescore` is everything between the return of `get_topology` and
the next await: the score is calculated from the device as it is then and from
the peers as they were read, and set. `Finish` is what follows a rescoring:
a discovery records the path, from the device to itself as the code's
placeholder has it, and a topology update goes on to its second device. `table`,
`buffer` and `flushing` are the pairs of the mapper's edges, so that a flush can
hide edges from a query. Whether a path between a known pair is new is left open,
since protocols and sniffer runs are not told apart.

`CalculateScore` and the sub-scores are the scorer's formula in integers: the
weights in a hundred, or in 65 where the database gives no answer, and rounding
to the even neighbour in the middle. For all sub-scores the code can produce,
its floats round to the same integer. The database is asked at every rescoring
of a device whose firmware is known, and each time it may give any of its
answers (`Severities`) or none (`VulnerabilitySubScores`). `FlushRaises` puts
the edges of a flush back, `FlushCancelled` is the one that `stop()` cancels,
which drops them. `StatementRaises` loses the handlers' transaction, and with it
the devices, as in `DiscoveryPipeline`. `stale`, `basis`, `answer` and `dropped`
are history: whose last rescoring had read too few peers or raised, the firmware
and the answer it used, and what cancelled flushes have dropped.

Left out: deletions; the API's `PUT` of a score, in a session of its own; alerts
of the change detector; the statements of the upsert, one by one.

### DisappearanceCheck

`hour` counts hours; `lastSeen` is the inventory, `listed[c]` what a caller has
read of it, `marked` the set `_disappeared_alerted`, `alerts[c]` the alerts a
call has still to persist and dispatch. `Collect` is the loop over the devices,
which awaits nothing; `Dispatch` one turn of the second loop; `PersistRaises`
the handler's exception, which leaves that loop. `Redetect`, between the
handler's lookup and its upsert, clears the mark. Nothing in `src/` calls the
check; the callers are those of its tests, several at once.
`generated`, `reported` and `raised` are history.

### PassiveSniffer

`capturing` are the threads of `AsyncSniffer`, numbered by the `start()` that
made them, `current` the one in `_sniffer`. `packet[p]` is the coroutine that
the thread schedules for a frame, which runs at any later time, also after
`stop()`. `stopping` holds the calls of `stop()` in front of or inside the block
under `_buffer_lock`, `batch` the list its loop goes through, `committed` its
counter. `FlushCommits` is the return of the commit callback for one record,
`FlushInterrupted` the time limit or an exception of the callback; the record it
was at may have been stored by then. `BeginFlush` without a callback clears the
buffer, as the code does. `overlapped` is history: a `start()` came while a
`stop()` was in progress.

### ActiveProber

`pc[p]` is what the probe of a target awaits, `outcome[p]` what its attempt has
come to, `free` and `queue` are the semaphore's value and its waiters without a
slot. A released slot goes to the first waiter (`Wake`), which runs later, and
a newcomer queues behind it. `TimesOut` covers the limit's two places: before
the connection, and while the `finally` clause awaits `wait_closed()`.
`CancelBatch` is the cancellation of the task that awaits the batch.
`delivered` and `recorded` are history: calls of the two callbacks.

### ScanApi

Every request has a session of its own, so that each step is one of its
statements: a SELECT, then a commit, then the refresh. The columns a `PUT` can
set are alike and stand in `Settings`; `WriteChanges` is the UPDATE of the
columns whose value is another than the one read. `TotalPages` and `Page` are
the arithmetic of the two lists.

### The parsers

A payload is its size: every byte the parser looks at is a choice when it is
read, so that all payloads of a size are covered. `PacketDecoding` has the state
of a parse: `offset`, the end of what is `left`, the `object` at hand, the
`fields` found (as lengths of their texts) and `status`. `taken` and `clash` are
history: up to where bytes were made into values, and whether one was taken
twice or from outside. Each parser has one action per turn of its loop, one per
way out of it, and one that builds the result. `ProtocolParsers` begins with
`_route_to_parser`: which protocol's port a frame has, in the code's order, and
where its payload begins.

## 3. What TLC checks

| Run | Instance | Shows |
|---|---|---|
| `engine` | 2 triples that share a device, 2 devices, 2 observations each, 2 starts, 1 failure | `TypeOK`, `Accounting`, `FlushesNeverOverlap`, `TimestampsExact`, `AnnouncedOnce`, `StopCompletes`, `EventuallyPersisted`, `ImplementsLedger` |
| `stop_loses` | as `engine` | `StopLosesNothing` is violated |
| `query` | as `engine` with 1 start | `NeverOvercounts`, `EdgesHaveNodes`, `QuietQueryExact` |
| `scheduler` | 1 job, 3 loops, 2 calls, 3 scans | `ScansNeverOverlap`, `ScheduledJobsHaveLoops`, `ResultsInOrder`, `CancelledLoopsEnd` |
| `alerts` | 2 sockets, 4 alerts | `TypeOK`, `InOrder`, `NothingSkipped`, `AlertsDispatched`, `ClosedForgotten` |
| `pipeline` | 3 fingerprints of one device, 3 handlers, 3 protocols, limits of 2 protocols and 1 history entry, 1 entry missed by its count, 1 deletion, any number of refused statements and flushes | `NothingUnannounced`, `HandledIsRecorded`, `AuditIsLinear`, `HistoryBounded` |
| `rescoring` | 3 calls about 2 devices, 2 kinds of fingerprint, a protocol with a firmware and another without, a database that answers 100 or nothing at each call, 1 failure or cancelled flush | `ScoreSettles`, `ScoreFallsForAReason` |
| `disappearance` | 2 devices, 2 checks, 2 hours | `OneAlertPerAbsence`, `AbsenceReported` |
| `sniffer` | 3 packets, 3 starts | `RecordsAccounted`, `StoredOnce`, `OneCapture`, `StopReturns` |
| `prober` | batches of 2 and of 1 target, 1 slot, 1 retry | `SlotsExact`, `OneVerdict`, `BatchesEnd` |
| `scans` | 5 requests, 2 jobs, pages of 2 | `RunningHasHistory`, `PagesShowEverything` |
| `parsers` | 29 sizes of payload about the boundaries, each port, irregular frames | `ValuesApart`, `VerdictMatchesFields`, `FingerprintsReadable` |

Where a run has no `TypeOK` of its own, it is the first conjunct of one of the
properties: `NeverOvercounts`, `ScheduledJobsHaveLoops`, `HandledIsRecorded`,
`ScoreSettles`, `RecordsAccounted`, `SlotsExact`, `RunningHasHistory`,
`OneAlertPerAbsence`, `ValuesApart`.

**Bounds.** Two observations of a triple are enough for one to be in a flush or
in the table while the other is in the buffer. Two triples are needed for one
edge to take another one's flush with it; they share a device, so that one
deletion hits both and another one only one. Two starts give a restart with what
the first life left behind, one failure a put-back that meets newer packets. For
the scheduler, three loops of one job are what a repeated start and a restart
leave; jobs meet nowhere but in `start()` and `stop()`, which treat them alike.
For the alerts, one socket is the one a broadcast
waits for while the other comes or goes, and four alerts let one be sent, one
wait, one find nobody, and one come after these. For the pipeline, handlers meet
at one device only; two of the fingerprints fill its empty firmware field, the
three protocols are one more than it may have, and each entry but the first is
above the limit of its history. The code's limit of 20 is beyond the four
protocols its parsers know, so the small limit is what makes the branch run. The
device may exist before, as one of an earlier run, with or without a firmware
(`Registered`). One deletion overtakes each handler at each of its statements and
lets the others insert the device anew; statements and flushes fail without a
bound, since the first one that loses the transaction is the last to change
anything. Handlers are symmetric: the
specification and its properties treat them alike, and no liveness is checked.
For the scores, two tasks overlap in a rescoring while a third adds a path or
goes through with a flush; a device has two peers at most, itself included, so
the exposure's step is at one peer instead of at 5, 15 and 30. One severity,
the highest, next to no answer makes scores rise and fall with outages by more
than any peer does. The two fingerprints are one whose firmware is asked about and one
without, so that a protocol, a firmware or both can be new to a device.
For the sniffer,
two records let a flush be cut off between them while a third packet is on its
way, and three starts give one flush, one start in the middle of it and one
after both. For the prober, one slot is waited for by the same and by the other
batch. For the scans, three triggers of one job overlap with a request that
created it, and leave one for an update or a deletion; three rows of history
fill one page and a half. For the disappearances, a device is overdue, is seen
again, and is overdue once more. For the parsers, the sizes are each parser's
minimum, one less, an object that just fits or just does not, and room for all
fields; the limits of the fingerprint's texts are scaled down.
`MaxObservations`, `MaxStarts`, `MaxFailures`, `MaxLoops`, `MaxCalls`,
`MaxScans`, `MaxAlerts`, `MaxMissed`, `MaxDeletions`, `MaxClock` and `MaxJobs` are guards of
actions: the models may stop there, so deadlock is not checked. Requests,
packets, batches and tasks are made once each.

**Fairness.** In `DiscoveryEngine` the event loop runs what is ready: weak
fairness of the arrival of the cancellation, of the sniffer's stop, of the flush
task's timer and of each flush's next step, because the database answers or
fails in the end. Nobody has to start, stop, delete, or send a packet.
In `ScanScheduler` only the arrival of a cancellation is fair, since
`task.cancel()` schedules it; the executor has no time limit in the code, and
none is assumed. In `AlertBroadcast` the event loop runs every task that is
ready, and a connection whose client has stopped reading is closed in the end:
uvicorn, which `main.py` and the `Dockerfile` start with its default settings,
pings each connection and closes it when no answer comes. `AlertsDispatched`
rests on this: without it one such client would hold the lock for good.
In `PassiveSniffer` the waiter that got the lock runs, and a flush goes on: the
callback returns, or the limit of 30 seconds ends it. In `ActiveProber` the event
loop runs every probe that is ready, each attempt has its time limit, and the
callbacks, which write to the engine, return or raise; nobody has to call or
cancel a batch. In `DisappearanceCheck` a call that has begun goes on, and
callers call again, as the documentation has them do.
`DiscoveryPipeline`, `DeviceRescoring`, `ScanApi` and the parsers have safety
properties only and assume no fairness.

**Disagreements with the code's own comments.** One run is expected to find its
property violated: `StopLosesNothing`, a comment of `flush_updates` that does
not hold when `stop()` comes in the middle of a flush, whose packets are lost.
Nine more sentences of the source are stated in the modules and do not hold;
each, added to the cfg of its module's run, gives a trace:

- `LiveEdgesPersisted`: one buffered edge of a deleted device keeps every edge
  from being written.
- `UnflushedEdgesIncluded`: a query during a flush misses the edges that flush
  has taken.
- `StatusIsCurrent`: a loop cancelled in a scan leaves the job's status at
  `running`.
- `DeletedJobsStop`: a repeated `start()` leaves a loop that `delete_job` does
  not stop.
- `NoGaps`: an alert that finds nobody registered is dropped although connected
  clients wait to be registered; they receive the alerts before and after it.
- `NeverOverwritten`: two handlers that find a field empty both fill it, and the
  later one overwrites what the earlier one stored.
- `DuplicatesAreRefused`: of two handlers that create one device, the second may
  have passed `create_device`'s test when the first one's is inserted, and
  violates the unique constraint instead of raising `DuplicateDeviceError`.
- `HandledStays`: the transaction that is lost so, or by any other statement,
  takes what finished handlers have stored with it.
- `ScoreFollowsDevice`: of two overlapping rescorings, the one that has read the
  older peers may set the score last.

`PROJECT.json` lists these with the sentences they contradict, and what else was
met in reading the code and in the traces. In short: a mapper without a
database clears its buffer on each flush; the browser's feed takes the envelope
for an alert; alerts and scan history are logged and not stored; nothing commits what the
pipeline stores; a device that is deleted after its lookup is inserted anew
without an alert; a score calculated while the vulnerability database was away
stays until the device's next packet; a path that a cancelled flush has dropped
is not announced when it is seen again;
`upsert_device` raises when another handler creates the device between its
lookups; two merges that trim one history delete too much; probe results have no
MAC address, and the prober is not wired to its handler; a device is recorded as
its own peer; nothing calls `handle_topology_update` or
`check_disappeared_devices`; a handler that raises there loses the alerts behind
it. The sniffer drops its buffer when no callback is registered, and at a
`start()` what an interrupted flush kept; a `start()` in the middle of a
`stop()` leaves a capture that nothing stops. The prober may lose an answer to
the closing of its connection. Two overlapping triggers of a scan both succeed,
and no scan follows either. In the parsers, a value that does not fit is skipped
by two bytes only (DNP3), a name cut off counts as complete and one too long
raises (EtherNet/IP), a header is cut two bytes short and a source address left
empty (S7comm), and padding of a frame counts as payload.

## 4. What is proved

The theorems hold for all values of the constants, under the assumptions named
in the modules that declare them (`TopologyAssumption`, `EngineAssumption`,
`SchedulerAssumption`, `BroadcastAssumption`, `PipelineAssumption`,
`RescoringAssumption`, `ScanApiAssumption`, `DisappearanceAssumption`,
`SnifferAssumption`, `ProberAssumption`, `DecodingAssumption`,
`LinkAssumption`, `ItemAssumption`, `FramesAssumption`). They type the constants
and little else: `NoDevice` is no device, `Unknown` no version, no device is
called `"record"` or `"end"`, a device may have at least one protocol, a page of
the API has at least one row, there are finitely many batches of probes, the
prober has at least one slot, the lengths in a packet are bytes, and the limits
of the fingerprint's texts leave room for the texts of fixed size, of which the
longest has 24 characters (the code's limits are 128 and 64).

**`TypeCorrect`** (`[]TypeOK`). The only arithmetic is in the three ways an edge
is made: `PersistedRowSum`, `RestoredSum` and `CountedSum` say that each yields
an edge whose count is the sum.

**`PacketsAccounted`** (`[]Accounting`). `Accounting` equates what was recorded
with what is in the buffer, in flight, in the table, lost or purged. It is not
inductive: a commit replaces rows by what was computed earlier, so it takes
`StagedIsSum` to know that they are still the sum; that fails if another flush
or a deletion got in between, so it takes `FlushesFollowEngine` for the first
(which flush may be in progress in which state of the engine) and `KeysHold`
for the second (a deleted endpoint forbids the commit); and
`IdleFlushesEmpty` says that a flush not in progress holds nothing.
`AccountingInv` is their conjunction.

**`NoOverlap`** (`[]FlushesNeverOverlap`) follows from the same invariant:
the periodic flush runs only while the engine is running or cancelling, the
final one only while it is flushing.

**`PathAnnouncedOnce`** (`[]AnnouncedOnce`). A triple is in the observed set
exactly if it was announced once since the sniffer started (`AnnouncedInv`).

**`MapperIsLedger`** (`ImplementsLedger`). `Accounting`, before and after a step,
gives what is known from the packets recorded, counted twice, dropped and
deleted, so that each action is compared with the ledger by these and by the
table: a packet observes, a commit saves, one that was not acknowledged saves
twice, a cancellation drops or saves, a deletion deletes, and all the rest is a
stutter.

**`TimesAreKept`** (`[]TimestampsExact`). The row, the entry in flight and the
buffer's entry of a triple are in the order of time (`InTimeOrder`), with the
first observation in the first of them there is and the latest in the last; and
the staged row is the very one `_persist_edge` makes of the committed row and
the entry in flight (`StagedIsRow`). One lemma for each way an edge is made
(`CountedInOrder`, `PersistedInOrder`, `RestoredInOrder`, `TakenInOrder`)
carries the order on.

**`QueriesNeverOvercount`** (`[]NeverOvercounts`), **`QueriesDescribeDevices`**
(`[]EdgesHaveNodes`) and **`QuietQueriesExact`** (`QuietQueryExact`). Every step
of a query is a step or a stutter of the engine (`QueryStepIsEngineStep`), so
that `AccountingInv` holds here too. `QueryInv` adds what a query has read
between its two reads: together with all packets that are not in the table it is
no more than what was recorded (`ReadAtMostRecorded`), since packets only move
from the buffer through a flush into the table, which is not read again, and come
back to the buffer only where the table has not got them or has counted them
twice; and if nothing disturbed it, it is the table as it is, with no flush that
holds anything (`QuietReadIsExact`).

**`SchedulerTypeCorrect`** (`[]TypeOK` of `ScanScheduler`).

**`ScansExclude`** (`[]ScansNeverOverlap`). The flag of a registered job is set
exactly while one worker executes it (`FlagIsExact`): a step begins an
execution only where the flag is not set, and the one execution there is resets
it. Ids are never given out twice (`UnusedIdsAreIdle`), and a loop starts on a
number nobody has (`NewLoopsAreFree`). The theorem says nothing of deleted jobs:
`check_overlap` does not see them.

**`LoopsAreKept`** (`[]ScheduledJobsHaveLoops`). That a new loop is not among
the cancelled ones takes `NumbersGivenOut`: the numbers of registered and of
cancelled loops have been given out. A loop ends only when it is cancelled, and
then it is not registered any more, or when it wakes after `stop()`.

**`ResultsFollowScans`** (`ResultsInOrder`). The scan that a worker of a
registered job awaits is the latest of the job (`ResultsInv`), because
executions do not overlap; and no result is of a later one.

**`BroadcastTypeCorrect`** (`[]TypeOK` of `AlertBroadcast`). That what a
broadcast has still to send to stays within `connections` is the one part that
takes more: `disconnect` has to wait for the lock.

**`AlertsInOrder`** (`[]InOrder`) and **`AlertsComplete`** (`[]NothingSkipped`).
A new alert is later than all that were received before only because broadcasts
wait for the lock in the order of their alerts (`WaitersInOrder`) and nothing
was received that is not dispatched (`ReceivedIsDispatched`). That none is
skipped takes `DueAlertsWait`, that every alert after the last dispatched one is
in the queue unless it was given up: so the alerts between two that are
dispatched one after the other found nobody. `LockIsHeld` describes the
broadcast in progress. Taking a task from the queue shifts all that stand
behind it, which `OtherTaskServed` and `AlertServed` deal with, apart from what
the task then does.

**`ProtocolsLimited`** (`[]TypeOK` of `DiscoveryPipeline`, whose type of devices
holds the limit). `MergedType` carries it: the limit is tested on the very set
that is assigned, with no await in between.

**`NothingEntersUnannounced`** (`[]NothingUnannounced`). What a device has was in
an alert about this very device, not about one that was at its address before,
or was brought by a handler that was under way when the earlier one was deleted
(`Explained`): such a handler does insert a device without an alert, see above.
It takes `AlertedInv`: a handler past its alerts has announced its protocol, or
has found it in the inventory, where everything is explained already, or was
overtaken; and one that still has an alert before it has exactly the one about
its protocol left. `CommittedInv` says the same of what a lost transaction falls
back to. The lists of alerts are enumerated in `AlertLists`.

**`AuditStaysLinear`** (`[]AuditIsLinear`). `OtherEntry`, `ProtocolEntry`,
`NoEntries` and `SameInventory` are the four kinds of change the inventory can
undergo, with a history trimmed at will; `MergeStep` and `RecordedStep` show
that each part of a merge is one of them.

**`HandledStaysRecorded`** (`[]HandledIsRecorded`). It speaks of the time in which
the handlers' transaction has not failed: afterwards nothing they did is left,
which is a finding and no part of it. Until then handlers fail by
`DuplicateDeviceError`, by the limit of protocols and by refused flushes, and
nothing of the others' is lost. `HandledBy` says what a
handler has stored at each of its statements, and which field it is sure to
store next. The others keep it: a device only gains protocols and never loses
its firmware (`Grows`), and an id is never given out twice (`IdsGivenOut`), so
that a device that comes in place of a deleted one is not taken for it. A
session that has failed stays so (`NeverUsableAgain`).

**`HistoryStaysBounded`** (`[]HistoryBounded`). Handlers of one device overlap
in the three statements that trim its history. `TrimmedInv`: once none of them
has still to count, the history is at its limit, but for the entries that were
missed, or one of the handlers is going to leave no more than that
(`RemainingAfter`), because the last one to count has seen all others
(`OthersCounting`, `OnlyMissed`); what others delete meanwhile leaves no more
(`FewerRemain`).

**`HistoryFollowsStatus`** (`[]RunningHasHistory`). An update writes the fields
it was asked for and never the status, so that it cannot undo a trigger that
came between its read and its write; and only a trigger, which writes both
tables in one transaction, sets the status. `RequestsOK` adds that no trigger
has found an entry of its job, having found the job not running.

**`PagesComplete`** (`[]PagesShowEverything`). `RowOnOnePage` finds a row's page
from the number of rows that are newer, as the least page that has room for them
(`Quotient`), and `NoPageInVain` shows that the last page has a row.

**`ScoresSettle`** (`[]ScoreSettles`). `SettlingInv`: the score of a device that
is not `stale` and of which no path was dropped is that of its protocols, its
peers and the answer the database gave last, for the firmware the device has
(`Right`), or a task is going to rescore the device (`Pending`).
A rescoring sets the score from the peers that are recorded, or leaves the device
`stale`. Afterwards a score can only go wrong by a new protocol, the firmware or a
new edge: the first two come with an upsert, whose task rescores next; a pair
that was never recorded is announced, and the task that has recorded it rescores
its devices after that; a pair that is there changes no count, and neither does
one of other devices (`OtherPeers`). A pair that was dropped may come back
unannounced, which is why its devices are exempt. `Settles` says this of one
step, one task and one device, and `StepSettles` makes the invariant of it. That
the database's answer is the last one and not the one it would give now is part
of the statement: nothing rescores when it changes.

**`ScoresFallForAReason`** (`ScoreFallsForAReason`). Scoring is monotone in the
protocols, in the number of peers and in the answer, in both weightings, but not
from one weighting to the other (`ScoreGrows`, over `ProtocolScoreGrows`,
`ExposureGrows` and `RoundedGrows`). `FallsInv` adds that each score was
calculated from protocols which the device still has and from peers it has or has
lost to a cancelled flush. So three reasons are left for a device in the
inventory: too few peers were read, the answer is less or an outage has begun or
ended, or a path was lost (`RescoreFalls`).

**`AlertedOncePerAbsence`** (`[]OneAlertPerAbsence`). A device is marked exactly
while it was reported since it was last seen (`MarkIsAlert`); the marks are set
in the same step that makes the alerts.

**`NoFingerprintIsLost`** (`[]RecordsAccounted`) and **`NoFingerprintTwice`**
(`[]StoredOnce`). `SnifferInv` says that a flush works on a list only
under the lock, and that calls of `stop()` queue up only behind a flush whose
list a `start()` has replaced (`LockInv`); that a flush has stored what it has
gone through and nothing of the rest (`FlushInv`); and that a fingerprint is in a
list once, and one which a flush may have stored before it was cut off is in the
buffer only while the sniffer rests (`RecordInv`). `Accounted` says where the
others are by their places in the lists.

**`CaptureIsReachable`** (`[]OneCapture`). Without a `start()` during a
flush, a sniffer whose `stop()` has not returned says that it does not run
(`CaptureInv`), and its capture is over.

**`NoSlotIsLost`** (`[]SlotsExact`). The semaphore's queue holds waiting probes,
each once and none that is cancelled (`QueueOK`), and while a slot is free and
somebody waits, a probe that was granted one is about to go on and will wake the
next (`SomebodyWakes`). The prover knows nothing of `SelectSeq`; the queue
without the probes of a cancelled batch is therefore `Without`, which says of
each remaining probe where it comes from.

**`OneVerdictPerProbe`** (`[]OneVerdict`). A probe has no result before its
attempts are over, and has one when it leaves its slot in a batch that is not
cancelled; only `CancelledError` takes it out of the slot otherwise, and a probe
is cancelled only with its batch (`VerdictInv`).

**`ValuesStayApart`** (`[]ValuesApart`), **`VerdictsMatchFields`**
(`[]VerdictMatchesFields`) and **`FingerprintsStayReadable`**
(`[]FingerprintsReadable`). All three follow from `ParsingInv`, which has to say
why no parser reads backwards: no value was taken behind the position
(`taken <= offset`), and the position is moved past a value in the step that
takes it. Of EtherNet/IP it says which of the identity's fields are there
(`IdentityInv`), so that the name, the last of them, makes the result complete;
of EtherNet/IP and S7comm, which cut nothing off, that the texts found so far are
short (`ShortInv`). Each kind of step has a lemma: a value is taken (`Taken`), the
parser goes on (`ReadsOn`), returns (`Returns`) or gives up (`GivesUp`). The
payloads' sizes, lengths and counts are arbitrary, where a run has a few of each.
The proof corrected an assumption: 20 characters of a version, enough in every
parser's own fields, are not enough for a name that `_looks_like_version` takes
for one.

TLC checked each inductive invariant on the run's instance before it was proved.

Only model-checked: the liveness properties (`StopCompletes`,
`EventuallyPersisted`, `CancelledLoopsEnd`, `AlertsDispatched`,
`ClosedForgotten`, `AbsenceReported`, `StopReturns`, `BatchesEnd`), because the
prover has neither `ENABLED` nor fairness. Every invariant and every action
property that a run checks has a theorem. Induction over data is out of the
prover's reach as well; the two places that would have needed it do without:
pages are found by the least number with a property (`LeastRow`), and the number
of user data bytes in a DNP3 frame is written as the size of a set instead of the
loop `_extract_user_data`.

## 5. Plan

Next, in this order:

1. Proofs: that the steps a liveness property rests on leave nobody waiting, as
   invariants (a waiter of `AlertBroadcast`'s lock or of a flush has somebody
   before it who will let it go on), as `SlotsExact` does for the prober.
2. `DiscoveryPipeline` and `DeviceRescoring` composed, with deletions in both.
3. The engine around `PassiveSniffer`, for a `stop()` that raises.
4. The browser's feed as a client of `AlertBroadcast`.

Not modelled, and why:

- The limiter of logins: two statements over one table, whose only hazard is
  that requests overlap between them.
- `EventBus`: no module of the application uses it.
- The cron validation, which compares two dates of a library's iterator.
- `TopologyMapper` without a database, `DiscoveryEngine` with a sniffer that
  fails to start or stop, and the probe targets chosen by subnet.
- The browser: layout and queries, but for the alert feed planned above.
- HTTP routing and serialisation, token encoding, migrations, exports: single
  statements, formatting, or the work of libraries.

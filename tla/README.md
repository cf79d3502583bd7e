# A TLA+ development of the CordCode Mac bridge

CordCode Link lets a phone drive the coding agents that run on a Mac. The Mac side is a Go
program, the *bridge* (`go-bridge/`), that talks to agents (`agent/*`), keeps a projection of
each session, and serves devices over the local network or, end-to-end encrypted, through a
*relay server* (`relay-server/`). This directory models the parts whose correctness depends on
interleavings, failures, restarts and queues at their limits; model-checks them on small
instances; and proves, for any number of jobs, sessions, sockets, devices and frames, every safety
property that the runs check of the writer, the inbound scheduler, the device connection, the sockets
and the mailbox of the relay server and offline delivery, with the refinement that makes the mailbox
an abstract queue.

`PROJECT.json` holds the machine-readable index: components, runs, mutants, the map from
definitions to source lines, findings, hazards and theorems.

## 1. Inventory

| Component | State | Operations | What is hard, what makes it correct |
|---|---|---|---|
| Outbound writer (`relay_outbound_writer.go`) | five class queues, counters, the group that owns each device, scheduling cursors, wake and stop channels | `enqueue`, `admitBulk`, `close`; the goroutine `run`: pop, write one frame or chunk, requeue, complete, fail | many callers against one goroutine; wakeups after the unlock; caps; cancel against the first chunk; a failed send in the middle of a counter sequence. Chunks in order, no lost job, no blocked device, bounded queue |
| Bulk handles and supersession (`relay_bulk_state.go`) | a CAS state per group; per session a generation and the active handle; per request a context and a handle | advance, install if current, complete, cancel | a newer read arrives at any moment of the life of an older one. Only the newest read's group begins; what a finished request leaves in the tables is known |
| Correlation registry (`relay_bulk_correlation.go`, `relaystate/registry.go`) | active and retired sets with caps | put if absent, retire | duplicates, reuse, a full set. A correlation names one group, as long as it is remembered |
| Inbound scheduler (`relay_inbound_scheduler.go`) | a queue per session, key list and cursor, counters, wake and stop | `enqueueMessage`, `pop`, `run`, `close` | supersession in the middle of a queue; fairness between sessions; close with work left |
| Device connection (`relay_conn.go`) | five per-request tables, keys and counters, `closed` | `SendResult`, `SendJSON`, `ReceiveJSON`, `Close` | tables shared by reader, executor, file workers and writer; Close at any point |
| Bridge client (`relay_bridge_client.go`) | one socket, a connection per device | connect and back off, handshake, inbound, replace, heartbeat | replacement while jobs of the old connection are queued |
| Relay server store (`store.go`) | routes, devices, mailbox frames, pairing claims, one SQLite file behind one connection | register, revoke, append, fetch, ack, expire; create, activate, pair | handlers of several statements that interleave; a crash between two; times read before a frame waited for the store; eviction. The mailbox is a queue that one cursor describes, up to deadlines; it keeps its capacity and is empty for a revoked device |
| Relay server sockets (`server.go`) | per route the registered bridge and device sockets; per device socket a bounded queue, its byte count and a writer goroutine | register and replace, read, route, enqueue, forward, disconnect, revoke | late exits of replaced handlers; a byte count kept by several goroutines; slow peers; a bridge that drops. No socket is forgotten, no gap in what a socket gets, goroutines end |
| Offline delivery (`event_publisher.go`, `relay_offline.go`, `relay_prekey.go`, `relay_observation.go`) | offline queue, prekeys, delivery epochs and counters, an outbox per device | publish, route, reserve a counter, enqueue, flush, reconnect | two goroutines that flush, a socket that breaks in the middle, a restart that drops everything. No counter seals two frames, order is kept, nothing is stranded |
| Projection kernel (`projection_kernel.go`, `projection_reducer.go`, `handlers_projection.go`) | per session a phase, the committed reducer and its cut, one hydrate transaction with a queue of live events; a checkpoint writer and its file | begin, ingest, wait, commit, fail; stage, write, load | live records during a hydrate; leaders that outlive their transaction; a failed or late checkpoint write; restart. What is committed covers its cut, a transaction ends, a saved checkpoint is not replaced by an older one |
| Claude relay (`handlers_relay.go`, `claude_relay_coverage.go`, `projection_source_transaction.go`) | an offset into the transcript, the bound process, held ends of turns; the coverage registry's entry and lease; the source ledger | start, poll, deliver, cover, end | a loop that ends between its answer and the commit; a process that dies or is replaced; two critical sections for one record |
| Journal, fence, delivery, publisher (`projection_*`, `event_publisher.go`) | per-session patches, subscriptions, recovery barriers | append, snapshot, subscribe, recover | a client that reconnects sees each revision once and in order |
| Session registry and handlers (`handlers.go`, `core/session.go`) | sessions, pending IDs, turn slots | send, abort, rebind | rebinding a pending session while events arrive |
| Devices, pairing, web push, file pool, turn details, catalogs, workspace checkpoints | see `PROJECT.json` | | |
| Agent drivers, Swift application, topology, tool inventory, crypto | | | external protocols, user interface, pure code |

How they interact on the relayed path:

```
 phone --socket--> reader --enqueueMessage--> inbound scheduler --dispatch--> handler
                    |  registerRequestClass       | onHistory / onSupersede     |
                    v                             v                             v
             request tables  <------------  session generations  <-------- SendResult
                                                                                |
 phone <--socket-- run <-- class queues, groups <-- enqueue / admitBulk --------+
                    |  completeBulkHandle, Retire, Close on error
                    +--------------> connection tables
```

The reader, one executor per device, file-pool workers and the writer's `run` are separate
goroutines; `rc.mu`, the scheduler's mutex and the writer's mutex are never held together
except that the scheduler's callbacks take `rc.mu` under the scheduler's own.

For a phone that is not there:

```
 publish --offlineQueue--> runOffline --> RelayEventRouter --counter of an epoch--> outbox
                                                                                      | Flush
 phone <--fetch, ack-- mailbox (store.go) <--AppendFrame-- server's read loop <--socket
```

And what a phone reads of a Claude session:

```
 transcript --cold read up to the cut--> hydrate transaction --commit--> committed reducer --> phone
      |                                        ^   ^   |                     |
      +--tail--> relay loop --record-----------+   |   |                     +--> checkpoint file
                    | batch, when no transaction   |   |                            | restart
                    +---> committed reducer        |   +--> coverage? lease --------+
                    <------------------------------+        (claude_relay_coverage.go)
```

## 2. Plan

1. `RelayOutboundWriter`: done, checked, proved.
2. `RelayInboundScheduler`: done, checked, proved.
3. `RelayDeviceChannel`, scheduler and connection composed, the writer abstracted: done, checked, proved.
4. `RelayServerSockets`: the sockets of a route of the relay server: done, checked, proved.
5. `MailboxQueue` and `RelayMailboxStore`, which implements it: done, checked, proved.
6. `RelayOfflineDelivery`, composed with `RelayMailboxStore`: done, checked, proved.
7. `ClaudeProjection`: kernel, relay, coverage and checkpoint writer: done, checked.
8. Left: publisher, journal and fence; web push; file pool; session registry.

Theorems still to be proved, of `ClaudeProjection`: `SavedKept`, `CommitPinned`, and `CommitCovers`
with its condition that no leader has committed another pull's transaction (finding 4). (Proved
means the safety and action properties; liveness stays with TLC.)

## 3. Modules

### RelayOutboundWriter

A job is a whole frame or a group of `ChunksOf[j]` chunks; its connection, class and size are
constants, its caller's position (`phase`) and result (`done`) are state. `queues`, `active`,
the four counters, `lastDevice`, `controlBurst` and `serviceCursor` are the fields of
`relayOutboundWriter`. `controlBurst` saturates at the cap, because `pop` only compares it with
the cap. `wpc` is where `run` is; a turn is split where the code releases the mutex or where
another goroutine can change what it reads: pop, the commit CAS, the write, requeue or
completion, and the Close that follows an error. `stream` and `burned` are history: the last
chunk on each connection, and whether a counter was used up by a frame that was not sent.

| Action | Code |
|---|---|
| `Enqueue`, `AdmitBulk` | the critical sections of `enqueue` and `admitBulk`, early returns included |
| `Signal` | the non-blocking send on `wake` after the unlock |
| `ReceiveDone`, `GiveUp` | the last `select` of `enqueue`: result, stop or timeout |
| `PopControl`, `PopService`, `PopBulk`, `PopNil` | `pop` with `popClassLocked` and `selectBulkIndexLocked` |
| `CommitIndex0`, `WriteFrame`, `WriteChunk`, `SendFails`, `AbandonGroup` | `writeSelected` and `writeLogicalFrame` |
| `RequeueBulk`, `Complete`, `CloseFailed` | `requeueBulk`; the completion branch of `run` |
| `TakeWake`, `FailQueued` | the two cases of `run`'s `select` |
| `CancelHandle`, `CloseConn`, `Expire`, `Close`, `Renew` | the environment: `Cancel`, `RelayDeviceConn.Close`, two minutes, `close`, a new frame |

A wrong generation (`channelGeneration`) cannot occur, since a connection's generation is set
once; the test next to it, `isClosed`, is modelled with the window between it and the write.

### RelayInboundScheduler

`queues`, `keys`, `cursor`, `frames` and `bytes` are the scheduler's fields. `Enqueue` is
`enqueueMessage` up to the unlock, with supersession, `Refuse` its error returns, `Signal` the
send on `wake`; there is one reader, so they do not overlap. `Pop`, `PopNone`, `Dispatched`,
`TakeWake` and `Exit` are `pop` and `run`.

### RelayDeviceChannel

Extends the scheduler: `AcceptRequest` conjoins `Enqueue` with the callbacks `onSupersede` and
`onHistory`, which run inside it; `Dispatch` conjoins `Pop` with the start of the handler. The
connection's tables are variables: the five keyed by requests (`classes`, `methods`, `corrs`,
`contexts`, `reqHandles`), the two keyed by sessions (`gens`, `activeHandle`) and the correlation
registry. `hp[m]` follows a request from `ReceiveJSON` through registration, where it chooses one
of the correlations `CorrsOf[m]`, dispatch and `SendResult`, which is cut at each point where it
releases `rc.mu`: take the entries, install the handle, register the correlation, install the
request's handle, admit, and deliver or close. `Unanswered` is a result that cannot be marshalled
or a file read that is discarded: the request ends and its entries stay. `hp` is then
`"unanswered"`, and `"superseded"` for a read thrown out of the scheduler's queue.

The writer is what the connection sees of it: it may accept, overflow or be closed, begins a group
with the commit CAS, ends it at any later time, and then drops the handles, retires the correlation
and, after an error, closes the connection. `StopWriter` is the bridge client that stops the shared
writer before it closes the connections of its devices, `FailQueued` the end of `run`, which cancels
the queued groups and leaves their entries. `BeginGroup` to `FailQueued` of this module are an
abstraction of `run` in `RelayOutboundWriter`. A history read is answered before its handler
returns; a file read by a worker at any time after it was dispatched. `Close` may strike at any
step. `RenewRequest` gives an identity to a new request and forgets what the old one left behind,
which in the code stays in the tables for as long as the connection.

### RelayServerSockets

The other end of the bridge's socket: one route of the relay server (routes share only the
server's mutex, so one is enough). A *peer* is one websocket, so a device that reconnects is two peers.
`bridges` and `devices` are the server's maps, `conn` the state of a connection as its read loop
sees it, `mu` whether `writeMu` is held, `sendCh`, `queueBytes` and `done` the fields of
`socketPeer`; `pc` and `wpc` are where the handler and the writer goroutine of a peer are, and
`rpc` where the revocation of a device is. Each handler is cut where it releases a mutex, waits
for one, or does something that another goroutine can see; `closePeer` is one step that waits
for `writeMu`.

| Action | Code |
|---|---|
| `SetBridge`, `Authenticate`, `SetDevice`, `Evict` | the two socket handlers up to their read loops, and the socket they replace |
| `ReadBridge`, `Route`, `AppendMailbox` | `readBridgeFrames`: parse, choose mailbox or socket, look the socket up |
| `CheckRoom`, `Send`, `AddBytes` | `enqueue`: load, non-blocking send, atomic add |
| `DisconnectFull`, `CloseFull` | a full queue: `removeDevice`, then `closePeer` |
| `ReadDevice`, `Forward`, `Forwarded`, `CloseSelf` | `readDeviceFrames` and its `write` to the bridge |
| `RemoveBridge`, `NextOffline`, `CloseOffline` | `removeBridge` |
| `ShutdownWriter`, `RemoveDevice` | the deferred function of a device handler |
| `Receive` to `WriterDone` | `writeLoop` and `write` |
| `RevokeDevice` to `RemoveRevoked`, `RegisterDevice` | `handleRevokeDevice` with `disconnectDevice`; `handleRegisterDevice` |
| `Drop` | the peer goes away or the read deadline passes |

`lost` is history: the frames that a full queue or a failed write lost. Whether the store accepts
a mailbox frame is a free choice here, except that it refuses one for a revoked device.

### MailboxQueue and RelayMailboxStore

`MailboxQueue` is what the mailbox promises: per device a queue of frames with deadlines, each put
at the tail under a cursor never used before (`Put`), and removed only from the head (`Drop`) or when
the clock reaches its deadline (`Pass`). A phone that remembers one cursor then knows all that it has
seen, and what it has not seen lies above it, unless it is too old. Deadlines need not grow with cursors.

`RelayMailboxStore` is the tables `route_devices` and `mailbox_frames` of one route and the
handlers that use them. The pool has one connection, so a statement or a transaction is a step and
handlers interleave between them: `Authenticate` is a statement of its own before `FetchFrames`
(`DeleteExpired` and `SelectFrames`) or `AckFrames`, and `ReadBridgeFrame` (with `DeviceActive`) one
before the transaction `AppendFrame`. A handler reads the clock and then waits for the connection, so
each of these works with some time between its previous statement and now: `inHand[p].read` and
`call[s].at` are the earliest it can be, and a frame appended late may have a deadline before that of
an older one. `CrashServer` keeps the tables and drops handlers and sockets. `Tick`, `ReceiveFrames` and
`LoseCall` are the environment: a clock that does not run backwards, and a phone that applies what
lies above its durable cursor. The refinement mapping `Mailbox` takes the unacknowledged rows that
have not expired as the queue, and `now` as its clock: deleting an expired row is a stutter.

### RelayOfflineDelivery

Extends `RelayMailboxStore`, whose envelopes are its frames and whose `ReadBridgeFrame` it
conjoins with the socket (`ServerReads`). `Publish` and `TakeMilestone` are the publisher's offline
queue and `runOffline`; `RouteOfflineEvent` is `routeOfflineEvent` for one device: a counter of the
active epoch, or a new epoch from a prekey, or none left; then `Enqueue`. `RouteFlush` and
`ConnectFlush` are the two callers of `Flush`, which holds the outbox's lock for as long as
`flusher[d]` is set, and sends frame by frame (`FlushSend`, `FlushFails`, `FlushDone`). `Connect`
flushes before the loops start that could notice a broken socket, as the code does. `SealEpoch` has
no caller, so an epoch goes on until the bridge restarts.

### ClaudeProjection

One Claude session with one transcript segment, read cold by several pulls. A transcript is a number of complete records,
prompts and answers in turn; a cut, an offset and the ledger's cursor are numbers of records. The
reducer is `text` (what is shown, in order), the turns and which of them are open, the running turn
and the revision. `tx` is the hydrate transaction, `relay` the loop with its position inside a
poll, `lease` and `gen` the coverage registry, `ckpt` and `disk` the checkpoint writer and its file.

| Action | Code |
|---|---|
| `PullPrepare`, `PullStartRelay`, `PullBegin`, `PullReturns` | `handleGetSessionProjection`, `ensureProjectionHydrated`, `BeginHydrateTransaction` up to the load |
| `LeaderLoads` to `LeaderStages` | `BeginHydrateTransaction` after the unlock, `runProjectionHydrateTransaction`: checkpoint, source, records one at a time, coverage, completion, wait, commit, staging |
| `LeaderFails`, `LeaderPanics` | the errors and budgets of the leader; a send on the channel that `unregister` has closed |
| `RelayStarts`, `RelayTicks`, `RelayScans`, `RelayReads`, `RelayDelivers`, `RelayEnds` | `claudeSessionFileRelayLoop` and `applyClaudeLiveSourceRecord`, cut between the read of the phase and the delivery |
| `RelayCovers` | `handleClaudeCoverageCommand` with `issueLease` |
| `CheckpointTimer`, `CheckpointSaved` | the timer and the end of a write, which may fail before the file is renamed into place or after; staging and scheduling are the operators `Staged`, `Schedule`, `Written` |
| `AppendRow`, `ProcStarts`, `ProcDies`, `PhoneLeaves`, `Restart` | the environment |

`ApplyHydrate`, `LeaderMarks` and `LeaderCommits` act on the transaction of the moment, as the
kernel does, whoever leads it; `foreign` is history: whether a leader has ever committed a
transaction that another pull began. A transcript that is truncated or holds a record the mapper cannot
read, a session whose agent is attached to the bridge, and sessions of several segments are left
out, so the loop's rejection of a too large inherited cursor does not occur.

### MC modules

Each `MC` module defines the small instances that its `.cfg` files choose from.

## 4. Runs

| Run | Instance | Shows |
|---|---|---|
| `writer_groups` | two 2-chunk groups and an interactive frame on one connection, one frame of room | types; the overshoot of one; freed devices; no lost wakeup; nothing after exit; cancel is final; no frame after a hole; chunks in order |
| `writer_turns` | three metadata frames, two devices | FIFO per device |
| `writer_serve` | control, interactive, normal; burst cap 1 | no class but bulk starves; `run` ends after `close` |
| `scheduler_mix` | two history reads and an interactive request of a session, two history reads without one; three frames, four bytes of room | counts, only history reads dropped, no lost wakeup; every session has its turn; the executor ends |
| `channel_reads` | two history reads of a session, two generations, two file reads that choose between two correlations, two requests at a time; one active and one retired correlation at most; a writer that is stopped and fails its queue | the superseded never begins; a correlation is used again only after the retired set was full; what the session table and the five request tables keep, leftovers included |
| `sockets_swap` | a bridge and its successor, a device socket and its successor, four frames | no open socket forgotten; byte count and byte bound; no gap |
| `sockets_offline` | a bridge and its successor, one device socket, three frames | goroutines of a gone socket end; a dropped bridge is seen |
| `mailbox_store` | one device, one of its requests at a time, two bridge sockets, three frames of two sizes, three bytes of room, a clock of two ticks and frames that live for two, three registrations, revocations or crashes | the store implements `MailboxQueue`; capacity; revoked is empty; of the frames that are still due only applied ones are acknowledged |
| `offline_delivery` | three milestones, one device, one prekey, two places in the outbox, two sockets, two breaks or crashes, one restart of the bridge | no counter in two places; the counters of a device ascend; no frame is stranded |
| `projection_open` | a bridge that starts with a checkpoint, its ledger behind the relay (`Reopened`); two pulls, three records, a second process, one more restart | a commit covers its cut, unless another's transaction was committed before; an open turn only under its lease; a saved checkpoint is not replaced by an older one |
| `projection_life` | one pull, three records, two processes one after the other | transactions end; no checkpoint waits for ever |
| `projection_race` | one pull, two records, one process | *violated*: finding 1 |

**Bounds.** Identities are finite, but `Renew`/`RenewRequest` let each be used again, so runs
have endless streams of frames and requests, and every wrap-around of cursors occurs. Two
groups and two devices suffice for each pairwise conflict the code can have
(owner against other, served against waiting); caps of one to three frames
make overflow, overshoot and refusal happen on short paths (a group in hand leaves room for
another job, so both are queued after its requeue although the cap is one). `writer_serve` has one
job per class, so it shows that no class starves another, not that the devices within a class take
turns; `writer_turns` has those turns. `MaxDrift` bounds how far the bulk
counters may go below zero, `MaxEvents` how many websockets are accepted and devices revoked (three: in
`sockets_swap` any three of two bridges, two device sockets and revocations).

In `channel_reads`, `MaxRequests = 2` is how many requests of the device are under way at one time,
so every pair of the four meets and any of them may be sent again; `MaxGen = 2` lets one history read
supersede another; with `MaxUses = 2` requests name correlations until two groups were admitted under one,
which those already under way may exceed. With one place in each
set of the registry (32 and 64 in the code) an active set that is busy and a retired set that is full both
occur, and with them the second use of a correlation. The two reads of a kind and the two correlations
are alike, hence `SYMMETRY`; the run has no liveness property. The three kinds of leftovers in the request
tables and the handle that `FailQueued` leaves all occur.

In `mailbox_store` a large frame evicts a small one, two small ones fill the mailbox, a fetch is
cut by its limit of one, and a revocation, a second registration and a late acknowledgement fit
into the three events; one device suffices, since no statement touches the rows of two (`ExpireFrames`
treats each alike). Its requests come one at a time here, which leaves the states for the clock; the
theorems about the store are for any number of requests. Two ticks let a frame wait for the store while
a later one overtakes it, and both expire, in either order.

`offline_delivery` leaves out the clock and the device's requests, which the store run has.

`projection_open` starts from `Reopened`, a state that the bridge reaches: the checkpoint and the
ledger are at the first record while the transcript has two, so that a relay that starts at the second
is ahead of the ledger, its next record is rejected, and the rejection fails the transaction of a
leader that goes on. From there one pull may fail, be
superseded or outlive its transaction and put its records into the next one, and another take over,
with each record either cold or live. The leader's commit of the other's transaction (`foreign`) is
reached, and that commit does leave out a record, which is why `CommitCovers` is conditional (finding 4).
`MaxRevisions = 3` (128 in the code) makes both the threshold and the timer write. `projection_life`
has one pull, so a pull that joins and a leader of an earlier transaction are not in it: the joining
pull only waits, and most waits end by the leader's budget, which the code has too. `CommitPinned` sees a
relay that ends or is replaced after it answered; a lease of the same cut that another pull's request
renewed would be accepted by the code and does not occur here.

The scheduler, channel, socket, store, delivery and projection runs switch deadlock checking off,
since these really stop once their connections are closed and nobody comes back, or once the
bounded environment has nothing more to do.

**Fairness.** `FairSpec` and `SchedFairSpec` assume weak fairness of the goroutine (`Run`,
`SchedRun`) and of a caller that has unlocked and is about to signal: the Go scheduler runs a
goroutine that can run, handlers return, and a socket write has a deadline. Nothing is assumed
of arrivals, cancels, closes and timeouts, nor of the choice between two ready cases of a
`select`; `StopEndsRun` therefore rests on callers being refused once `stop` is closed. The sockets' `FairSpec` adds strong fairness of
the steps that wait for a `writeMu`: Go's mutex hands itself to a goroutine that has waited
longer than a millisecond, and every holder of `writeMu` lets go at the write deadline.
`DeliveryFairness` assumes that `Run` dials again, that `runOffline` runs, and strong fairness for
whoever waits for the lock of an outbox. `Fairness` of `ClaudeProjection` assumes that the loop, the timer, the write and the leader go on,
that the budget of a leader that gets nowhere ends (it has a deadline), and strong fairness of the
loop's answer to a coverage request (the request waits in a channel that every poll reads); nothing
is assumed of the process, the phone or the operator.

## 5. Findings

1. (`projection_race`) `applyClaudeLiveSourceRecord` reads the phase and delivers the record in two
   critical sections of the kernel. When a hydrate transaction begins in between, with its cut
   before the record, the record goes as a batch into the committed reducer, which the commit then
   overwrites: it is missing from a projection that is ready, and the ledger is past it. The
   comment in that function says that the batch cannot run during a transaction.

Met while modelling, plain from the lines, and without a run of their own:

2. `enqueue` does not count whole frames of class bulk in `bulkFrames`/`bulkBytes`, `pop` takes
   them off (`relay_outbound_writer.go:133`, `:375`): the counters drift below zero and the bulk
   caps stop working.
3. `run` ignores that `Retire` refused because the retired set is full
   (`relay_outbound_writer.go:214`); the doc of the registry (`relay_bulk_correlation.go:43`) says
   that the caller closes the generation. The correlation can then be used again: `channel_reads`
   reaches the second use, and `CorrelationRemembered` says that there is no other way to one.
4. A leader whose transaction has failed goes on, and `ApplyHydrateEvent`,
   `MarkHydrateSourceIngestComplete` and `CommitHydrateTransaction` act on the session's transaction of the
   moment, which may be another pull's (`handlers_projection.go:1050`, `:1180`, `:1225`). It then marks the
   other's source as complete and commits it while its owner still reads, so that records below the cut
   are missing from a projection that is ready, and stages that as the checkpoint of a cut
   (`handlers_projection.go:1243`), which the next pull loads (`projection_kernel.go:1141`). The comment on
   the mark (`projection_kernel.go:1290`) says that no further `ApplyHydrateEvent` will come and that
   readiness is decided from the authoritative end of the source. `projection_open` reaches such a
   commit; its properties are about leaders that commit their own.
5. `Save` may fail after its rename, in opening or syncing the directory
   (`projection_kernel.go:551`). The file is then the new one, but the writer does not count it as persisted
   (`:2069`), and a pending checkpoint of a lower revision than the file's is still written over it.
   `CheckpointSaved(FALSE)` has the case, and `SavedKept` is about checkpoints whose `Save` succeeded.
6. The comments on the request tables (`relay_conn.go:50`) say that an entry is consumed exactly once by
   `SendResult` and that a handle is cleaned up when the group completes, on a single frame and on an error.
   Entries stay for as long as the connection: the method of every superseded history read
   (`:206`); all entries of a request whose result cannot be marshalled (`:398`) or whose file read is
   discarded (`handlers.go:5847`, `:5864`); the request's handle, and the correlation as active, of a group
   that overflows (`:490`; `relay_bulk_correlation.go:16`) or that `failQueued` drops
   (`relay_outbound_writer.go:414`), which leaves the session's handle too, until `Close`.
   `RequestEntriesLive` and `SessionHandleLive` say that nothing else stays.
7. A bridge read loop that finds the queue of a slow device full closes its socket, and for that
   waits for the `writeMu` that the device's writer holds during its write, up to two minutes
   (`server.go:663`, `:826`); the comment at `server.go:71` and `RELAY_SERVER_OPERATIONS.md:170`
   say that a slow device blocks neither the loop nor the other devices.
8. `requestCoverage` sends on a channel that `unregister` may have closed after the unlock
   (`claude_relay_coverage.go:252`, `:179`), which ends the process; the comment on `unregister`
   says that waiting transactions get a failure. `LeaderPanics` is that case.
9. `publish` drops a milestone when the offline queue is full (`event_publisher.go:1426`), next to
   the comment that offline delivery cannot silently skip an event.
10. For a session of several segments, the hook that starts the relay passes the sum of the
   segments' cursors (`handlers_projection.go:137`), and the loop refuses a cursor above the cut of
   the last file (`handlers_relay.go:857`).
11. A bridge that reconnects has two read loops on the server for a while, and the older may append
   its last frame after the newer has appended its first (`server.go:668`), so the mailbox can hold
   the counters of an epoch out of order; `RELAY_SERVER_OPERATIONS.md:169` says that it does not.
   `SentInOrder` is therefore about what the Mac sends, and `ImplementsQueue` about cursors. The loop also
   reads the time before its frame waits for the store's connection, so the frame that gets the higher
   cursor may expire first; nothing says that it must not, and `MailboxQueue` allows it.

## 6. Proofs

Each theorem holds for every value of the constants under the named assumption of its module, which
gives the constants their types and what the code's own constants have (a positive burst cap, a group
is of class bulk, bridge sockets are not device sockets). The sets of identities may be infinite except
two that are summed over: the sessions of the scheduler (`Keys`) and the bridge sockets of the sockets
module (`BridgePeers`) are finite.

Every proof has one step per action. Where most actions leave a part of the invariant alone, a
frame lemma says so once (`QueuesKept`, `WritesKeptHeld`, `BytesKept`, `StreamFrame`, `TableStep`).
An invariant that relates several actors was checked by TLC before it was proved.

### The writer: `RelayOutboundWriter_proofs`, from `WriterAssumption`

| Theorem | Statement | Inductive strengthening |
|---|---|---|
| `TypeCorrect` | `[]TypeOK` | `PcInv`: what `run`'s position says of the job it holds |
| `FramesSafe` | `[](FramesCounted /\ FramesBounded)`, `FramesCounted` being that `queueFrames` is the number of queued jobs | none beyond types: the bound counts the job in hand, so that a requeue does not raise the sum |
| `GroupsSafe` | `[]ActiveGroupLive` | `HoldsDevice`: the group in hand owns its device; `ClassInv`: jobs are in the queue of their class |
| `WakeupSafe` | `[]NoLostWakeup` | `ActiveGroupLive`: when `run` holds nothing, an owner of a device is in the bulk queue, so some bulk job is eligible and `pop` returns nil on empty queues only |
| `ExitSafe` | `[]NothingAfterExit` | `stopped` at exit, tested by `Accepts` |
| `CancelSafe` | `[]CancelledNeverWritten` | `HandleInv`: chunks are written only under a committed handle |
| `HoleSafe` | `[]HoleClosesConnection` | `PcInv`: an error is pending only on the way to Close |
| `ChunksSafe` | `ChunksInOrder` | `OnceInv`: a group is queued once or in hand, and not anew with its caller; `CursorInv`: a group under way that has begun owns its device, and its cursor is one past the last chunk on its connection; `StreamInv`: a group whose last chunk is missing is under way, or its connection takes no more |
| `FifoSafe` | `DeviceFifo` | types: `IsPick` passes over frames of one device only |

### The scheduler and the connection

`RelayInboundScheduler_proofs`, from `SchedulerAssumption`, and `RelayDeviceChannel_proofs`, which uses
its lemmas in the composition, from `ChannelAssumption`:

| Theorem | Statement | Inductive strengthening |
|---|---|---|
| `SchedTypes` | types; the counters do not go below 0 | the counters count, below |
| `CountersExact` | `[]QueueCounted` | `WellQueued`: a message waits once, in the queue of its key; `Counted`: the counters are sums over the set of waiting messages, which `Enqueue` changes by one set difference; `HeldSent`: what waits was sent, so a new message is not in a queue |
| `NoLostWakeup` | `[]WakeupKept` | `KeysKnown`, `CursorKnown`: every queue with work is in the key list and the cursor is within it, so `pop` returns nil on empty queues only; the counters are exact, as `pop` gives up at `frames = 0` |
| `DropsHistoryOnly` | `OnlyHistoryDropped` | `WellQueued`; `Without` keeps what is not dropped, in order |
| `ChannelTypes`, `ChannelScheduler` | types; `QueueCounted` and `WakeupKept` in the composition | `SchedInv` is kept by every step of the connection, since each conjoins a step of the scheduler or leaves it alone |
| `SessionHandleSafe` | `[]SessionHandleLive` | `HandleInstalled`: the session's handle is that of a group between its installation and the end of its last turn, or one that `FailQueued` left (`Left`: cancelled, its writer gone, its reply over); `GroupAfterReply` |
| `RequestEntriesSafe` | `[]RequestEntriesLive` | `EntriesHeld`, `RequestHandles`: which position of the request goes with an entry of each of the five tables; `HistoryUncorrelated`; `QueuedRegistered`: a queued request is registered and the reader is done with it |
| `CorrelationSafe` | `[]CorrelationRemembered` | `UsedRemembered`: the retired set is finite, and while it has room a used correlation is active or retired; a retired one was used once; an active one is not retired |
| `SupersededSafe` | `SupersededNeverBegins` | `ActiveIsNewest`: an active handle of a history read is that of the session's newest read, and the session has it, so that the newer read's `onHistory` finds and cancels it |

### The relay server and offline delivery

`RelayServerSockets_proofs`, from `SocketsAssumption`; `RelayMailboxStore_proofs`, from
`StoreAssumption`; `RelayOfflineDelivery_proofs`, from `DeliveryAssumption` and `StoreAssumption`:

| Theorem | Statement | Inductive strengthening |
|---|---|---|
| `TypeCorrect` (sockets) | `[]TypeOK`, with the holders of every `writeMu` | `BridgeInv`, `DeviceInv`: what a handler's position says of its target and its frame; at most one handler forwards to a bridge |
| `SocketsSafe` | `[]OpenIsRegistered` | `ConnInv`: a handler past its read loop has no open connection, so its `removeDevice` or `removeBridge` takes out no open socket; `MapInv`: sockets are registered under their own device and only once upgraded, and a revocation removes a socket after it has closed it |
| `BytesSettled` | `[]QueueBytesSettled` | none: each of check, send, add, receive and subtract changes both sides alike |
| `BytesBounded` | `[]QueueBytesBounded` | `PassedBounded`: the count with the frames of all read loops that have passed the check stays below the cap with one frame for every bridge socket but one, since the last to pass saw the cap |
| `GapFree` | `NoGap` | `OrderInv`: a bridge's frames are read in order (`ReadOrder`, `HandNewest`), what a socket carries is older than what its bridge decides on (`CarriedOlder`), and after a loss the writer has ended, or the socket is out of the map and no handler of the bridge has it as target (`LostLast`, `TargetUpgraded`) |
| `TypeCorrect` (store) | the tables, calls and cursors are of their types | none |
| `RevokedSafe` | `[]RevokedEmpty` | none: `AppendFrame` looks at the device again |
| `CapacitySafe` | `[]CapacityKept` | `RowsOrdered`: cursors are unique, so the rows to evict are found, and what is left once all are gone is nothing |
| `AckedSafe` | `[]AckedWasApplied` | `CursorCovers`: what lies at or below a device's cursor and is still due was applied; `CallsLag`: an acknowledgement or fetch under way lags behind that cursor, and a reply leaves out no row below its last that is still due and was not applied; `TimesPast`: no handler carries a time ahead of the clock |
| `StoreIsQueue` | `StoreSpec => ImplementsQueue` | `RowsOrdered`: cursors are unique and below the next one, so what eviction and acknowledgement leave of the unacknowledged rows lies above a cursor (`DropsHead`, `AppendPuts`); `TimesPast`: what a handler deletes as expired is expired now, so the queue does not see it (`TimePasses` is where it does). Nothing is needed of the order of deadlines |
| `OnePlaceEach` | `[]NoDuplicate` | `DistinctAt`, `IssuedAt`: a counter of an epoch lies in one place, and was handed out by that epoch |
| `CountedOrder` | `[]SentInOrder` | `OrderedAt`: each device's frames on any socket are older than those in its outbox, which are in order |

`SentInOrder` is stated for each device over every socket: what waits on a socket for a device, and then
what waits in its outbox. Frames of different devices carry counters of different epochs and are not
compared.

### Lemmas and induction

`QueueLemmas` has the facts about `RemoveAt` and `Append` that the writer's proofs share: what stays,
what goes, what is added. `SumLemmas` has what the counts need: the sum over a finite set with one
member more or less, over two parts, over a subset, bounded weights, and the sum along a sequence with
an element at its end or without its head. The library's induction theorems cannot be used, because
they take an operator; the inductions go by a least counterexample instead (`LeastNat`, `GreatestNat`,
`MinimalSet`), which is a statement about a set, and a recursive function is unfolded by its definition.
`MapThenFoldSet` underneath `SumFunctionOnSet` picks an element by `CHOOSE`, so `SumUnfolds` and
`SumRemove` show first that the order of picking does not matter.

### Only model-checked

- `CommitCovers` (with its condition), `CommitPinned` and `SavedKept` of `ClaudeProjection`: still to be proved.
- All liveness (`NonBulkServed`, `StopEndsRun`, `EachSessionServed`, `CloseEndsExecutor`,
  `DeviceGoneEnds`, `BridgeDropSeen`, `OutboxDrains`, `CheckpointSettles`, `HydrateEnds`): fairness is
  stated with `ENABLED`, which the prover does not treat.

## 7. Not modelled

Encryption, compression and encoding; logging and metrics; the legacy send path without the
writer (`relayUnifiedWriterV1 = false`); the handshake and capability negotiation, whose flags
are taken as set; wall-clock time, which appears as a timeout or an expiry that may strike at
any moment, or as a clock of few ticks in the store.

Of the modelled parts: routes, activation and pairing claims of the store, and the rate limiter;
reconcile and live-only transactions, other backends, agent-attached sessions, several segments,
truncated transcripts, tools, questions and workflows of the projection; recovery barriers and delta
batching of the publisher. Code without a production caller is left out: `SealEpoch`, the
`DeliveryState` of `relay_reconcile.go`, the `MailboxService` of `relay_mailbox.go`, the hub of
`relay_hub.go`, and `RestoreCheckpoint`, `FlushCheckpoint` and `Drain` of the kernel.

The repository has some 150,000 lines of implementation in 443 files. About half of it are drivers
of external command-line tools with wire protocols that are not in the repository, parsers of their
files, a Swift user interface, and read-only listings: there is no state of this program in them
whose interleaving could be checked. The models cover the concurrent core of the relayed path, of offline
delivery and of the Claude projection; most of the rest of `go-bridge` repeats the same patterns
per backend. What is planned is in section 2, and what is left out for good, with the reason,
under `components` in `PROJECT.json`.

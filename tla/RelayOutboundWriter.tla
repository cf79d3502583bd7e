------------------------- MODULE RelayOutboundWriter -------------------------
(***************************************************************************)
(* The unified writer of go-bridge/relay_outbound_writer.go: the only      *)
(* owner of application-data writes on the WebSocket between the Mac and   *)
(* the relay.  Handler goroutines hand it jobs; one goroutine (run) pops   *)
(* them by class and device and writes them.                               *)
(*                                                                         *)
(* A job is a whole frame (ChunksOf[j] = 0, the code's nil cursor) or a    *)
(* bulk group of ChunksOf[j] chunks, written one chunk per turn and put    *)
(* back at the tail of the bulk queue in between.  A group's ID is fresh,  *)
(* so the job stands for its group.  Job identities are finite: Renew lets *)
(* the environment use one again for a new frame of the same shape, so     *)
(* behaviours carry an endless stream of frames.                           *)
(*                                                                         *)
(* The environment is every caller the writer can have: enqueue and        *)
(* admitBulk by goroutines that captured the writer earlier, Cancel on a   *)
(* group's handle, Close on a connection, close on the writer, and time.   *)
(***************************************************************************)
EXTENDS Integers, Sequences, FiniteSets, SequencesExt

CONSTANTS
  Jobs, Conns, Devices,
  NoJob, NoDevice,
  DeviceOf,                     \* [Conns -> Devices]: rc.deviceID
  ConnOf, ClassOf, BytesOf,     \* job.conn, job.class, len(job.payload)
  ChunksOf,                     \* cursor.count, or 0 for a nil cursor
  QueueFramesCap, QueueBytesCap,
  BulkFramesCap, BulkBytesCap,
  ControlBurstCap,
  MaxDrift                      \* bound on how far bulkFrames may go below 0

Control     == 0
Interactive == 1
Metadata    == 2
Normal      == 3
Bulk        == 4
Classes     == 0..4

\* The weighted round of pop: interactive twice, metadata once, normal once.
serviceOrder == [k \in 0..3 |-> IF k < 2 THEN Interactive ELSE k]

ASSUME WriterAssumption ==
  /\ NoJob \notin Jobs
  /\ NoDevice \notin Devices
  /\ DeviceOf \in [Conns -> Devices]
  /\ ConnOf \in [Jobs -> Conns]
  /\ ClassOf \in [Jobs -> Classes]
  /\ BytesOf \in [Jobs -> Nat]
  /\ ChunksOf \in [Jobs -> Nat]
  /\ \A j \in Jobs : ChunksOf[j] > 0 => ClassOf[j] = Bulk
  /\ QueueFramesCap \in Nat /\ QueueBytesCap \in Nat
  /\ BulkFramesCap \in Nat /\ BulkBytesCap \in Nat
  /\ ControlBurstCap \in Nat \ {0}
  /\ MaxDrift \in Nat

VARIABLES
  queues,       \* [Classes -> Seq(Jobs)]
  active,       \* activeBulkGroupByDevice: [Devices -> Jobs \cup {NoJob}]
  queueFrames, queueBytes, bulkFrames, bulkBytes,
  lastDevice,   \* [Classes -> Devices \cup {NoDevice}]
  controlBurst, \* saturates at ControlBurstCap: pop only compares it with the cap
  serviceCursor,
  wake,         \* the one-slot wake channel holds a token
  stopped,      \* the stop channel is closed
  wpc,          \* where the run goroutine is
  cur,          \* the job run holds between pop and the end of its turn
  failed,       \* writeSelected returned an error for cur
  phase,        \* where the job's caller is
  done,         \* the job's one-slot done channel
  nextIndex,    \* cursor.nextIndex
  handle,       \* state of the group's OutboundBulkHandle
  expired,      \* cursor.expiresAt has passed
  closed,       \* [Conns -> BOOLEAN]: rc.closed
  burned,       \* [Conns -> BOOLEAN]: a counter was used by a frame that was not sent
  stream        \* [Conns -> <<job, index>>]: the last chunk written on the connection

counters == <<queueFrames, queueBytes, bulkFrames, bulkBytes>>
store    == <<queues, active, counters>>
sched    == <<lastDevice, controlBurst, serviceCursor>>
chans    == <<wake, stopped>>
run      == <<wpc, cur, failed>>
callers  == <<phase, done>>
groups   == <<nextIndex, handle, expired>>
wire     == <<closed, burned, stream>>
vars     == <<store, sched, chans, run, callers, groups, wire>>

Phases    == {"new", "signal", "waiting", "returned"}
WriterPcs == {"select", "pop", "commit", "write", "requeue", "complete", "close", "exit"}

Init ==
  /\ queues = [c \in Classes |-> <<>>]
  /\ active = [d \in Devices |-> NoJob]
  /\ queueFrames = 0 /\ queueBytes = 0 /\ bulkFrames = 0 /\ bulkBytes = 0
  /\ lastDevice = [c \in Classes |-> NoDevice]
  /\ controlBurst = 0 /\ serviceCursor = 0
  /\ wake = FALSE /\ stopped = FALSE
  /\ wpc = "select" /\ cur = NoJob /\ failed = FALSE
  /\ phase = [j \in Jobs |-> "new"]
  /\ done = [j \in Jobs |-> "none"]
  /\ nextIndex = [j \in Jobs |-> 0]
  /\ handle = [j \in Jobs |-> "active"]
  /\ expired = [j \in Jobs |-> FALSE]
  /\ closed = [c \in Conns |-> FALSE]
  /\ burned = [c \in Conns |-> FALSE]
  /\ stream = [c \in Conns |-> <<NoJob, 0>>]

IsGroup(j)  == ChunksOf[j] > 0
Dev(j)      == DeviceOf[ConnOf[j]]
Queued(j)   == \E c \in Classes : \E i \in 1..Len(queues[c]) : queues[c][i] = j
HasWork     == \E c \in Classes : queues[c] # <<>>

----------------------------------------------------------------------------
(* Callers.                                                                *)

\* Mutant: the frame count is compared before the new frame is counted.
RoomFor_OffByOne(j) ==
  /\ queueFrames <= QueueFramesCap
  /\ queueBytes + BytesOf[j] <= QueueBytesCap

\* The total queue has room for one more job of j's size.
RoomFor(j) ==
  /\ queueFrames + 1 <= QueueFramesCap
  /\ queueBytes + BytesOf[j] <= QueueBytesCap

\* Mutant: stop is not tested under the mutex.
Accepts_AfterStop(j) == RoomFor(j)

\* Under w.mu: the writer is not stopped, and the queue has room.
Accepts(j) == ~stopped /\ RoomFor(j)

BulkRoomFor(j) ==
  /\ bulkFrames + 1 <= BulkFramesCap
  /\ bulkBytes + BytesOf[j] <= BulkBytesCap

\* The counters after n frames of b bytes in all come, or go (n, b < 0).
Count(n, b) ==
  /\ queueFrames' = queueFrames + n
  /\ queueBytes' = queueBytes + b
  /\ UNCHANGED <<bulkFrames, bulkBytes>>

CountBulk(n, b) ==
  /\ queueFrames' = queueFrames + n
  /\ queueBytes' = queueBytes + b
  /\ bulkFrames' = bulkFrames + n
  /\ bulkBytes' = bulkBytes + b

\* enqueue under w.mu: refused once stopped or on overflow, else appended.
\* It counts no bulk frames, whatever the class.
Enqueue(j) ==
  /\ phase[j] = "new" /\ ~IsGroup(j)
  /\ IF Accepts(j)
     THEN /\ queues' = [queues EXCEPT ![ClassOf[j]] = Append(@, j)]
          /\ Count(1, BytesOf[j])
          /\ phase' = [phase EXCEPT ![j] = "signal"]
     ELSE /\ phase' = [phase EXCEPT ![j] = "returned"]
          /\ UNCHANGED <<queues, counters>>
  /\ UNCHANGED <<active, sched, chans, run, done, groups, wire>>

\* admitBulk under w.mu.
AdmitBulk(j) ==
  /\ phase[j] = "new" /\ IsGroup(j)
  /\ IF Accepts(j) /\ BulkRoomFor(j)
     THEN /\ queues' = [queues EXCEPT ![Bulk] = Append(@, j)]
          /\ CountBulk(1, BytesOf[j])
          /\ phase' = [phase EXCEPT ![j] = "signal"]
     ELSE /\ phase' = [phase EXCEPT ![j] = "returned"]
          /\ UNCHANGED <<queues, counters>>
  /\ UNCHANGED <<active, sched, chans, run, done, groups, wire>>

\* The non-blocking send on wake, after w.mu is released.  admitBulk returns
\* after it; enqueue goes on to wait for its result.
Signal(j) ==
  /\ phase[j] = "signal"
  /\ wake' = TRUE
  /\ phase' = [phase EXCEPT ![j] = IF IsGroup(j) THEN "returned" ELSE "waiting"]
  /\ UNCHANGED <<store, sched, stopped, run, done, groups, wire>>

\* enqueue's last select: the result, the stop channel, or the timeout.  After
\* the timeout the job is still queued and may still be written.
ReceiveDone(j) ==
  /\ phase[j] = "waiting" /\ done[j] # "none"
  /\ phase' = [phase EXCEPT ![j] = "returned"]
  /\ done' = [done EXCEPT ![j] = "none"]
  /\ UNCHANGED <<store, sched, chans, run, groups, wire>>

GiveUp(j) ==
  /\ phase[j] = "waiting"       \* stopped, or relayWriteTimeout elapsed
  /\ phase' = [phase EXCEPT ![j] = "returned"]
  /\ UNCHANGED <<store, sched, chans, run, done, groups, wire>>

\* A new frame of the same shape under the same identity.
Renew(j) ==
  /\ phase[j] = "returned" /\ ~Queued(j) /\ cur # j
  /\ ClassOf[j] = Bulk /\ ~IsGroup(j) => bulkFrames > -MaxDrift
  /\ phase' = [phase EXCEPT ![j] = "new"]
  /\ done' = [done EXCEPT ![j] = "none"]
  /\ nextIndex' = [nextIndex EXCEPT ![j] = 0]
  /\ handle' = [handle EXCEPT ![j] = "active"]
  /\ expired' = [expired EXCEPT ![j] = FALSE]
  /\ UNCHANGED <<store, sched, chans, run, wire>>

----------------------------------------------------------------------------
(* The rest of the environment.                                            *)

\* Mutant: cancelled and committed as two independent flags.
Cancel_Flag(h) == "cancelled"

\* OutboundBulkHandle.Cancel: the CAS from active; a committed group is too late.
Cancel(h) == IF h = "active" THEN "cancelled" ELSE h

CancelHandle(j) ==
  /\ IsGroup(j)
  /\ handle[j] # Cancel(handle[j])
  /\ handle' = [handle EXCEPT ![j] = Cancel(@)]
  /\ UNCHANGED <<store, sched, chans, run, callers, nextIndex, expired, wire>>

\* RelayDeviceConn.Close by anyone.
CloseConn(c) ==
  /\ ~closed[c]
  /\ closed' = [closed EXCEPT ![c] = TRUE]
  /\ UNCHANGED <<store, sched, chans, run, callers, groups, burned, stream>>

\* Two minutes pass for a group that is in the writer.
Expire(j) ==
  /\ IsGroup(j) /\ ~expired[j] /\ (Queued(j) \/ cur = j)
  /\ expired' = [expired EXCEPT ![j] = TRUE]
  /\ UNCHANGED <<store, sched, chans, run, callers, nextIndex, handle, wire>>

Close ==
  /\ ~stopped
  /\ stopped' = TRUE
  /\ UNCHANGED <<store, sched, wake, run, callers, groups, wire>>

----------------------------------------------------------------------------
(* The run goroutine: the scheduling decision.                             *)

NonControlReady == \E c \in Interactive..Bulk : queues[c] # <<>>

\* Mutant: control without the burst cap.
TakeControl_Always == queues[Control] # <<>>

TakeControl ==
  /\ queues[Control] # <<>>
  /\ controlBurst < ControlBurstCap \/ ~NonControlReady

\* The k-th class of the round that starts at serviceCursor has work.
ReadyAt(k) == queues[serviceOrder[(serviceCursor + k) % 4]] # <<>>

OtherDevice(c, i) == Dev(queues[c][i]) # lastDevice[c]

\* Mutant: the last job of another device instead of the first.
IsPick_Last(c, i) ==
  \/ OtherDevice(c, i) /\ \A k \in (i + 1)..Len(queues[c]) : ~OtherDevice(c, k)
  \/ i = 1 /\ \A k \in 1..Len(queues[c]) : ~OtherDevice(c, k)

\* popClassLocked(class, true), not bulk: the first job of a device other than
\* the one served last, or else the head.
IsPick(c, i) ==
  \/ OtherDevice(c, i) /\ \A k \in 1..(i - 1) : ~OtherDevice(c, k)
  \/ i = 1 /\ \A k \in 1..Len(queues[c]) : ~OtherDevice(c, k)

\* Mutant: the group under way is itself refused.
Eligible_IdleDevice(i) ==
  LET j == queues[Bulk][i]
  IN  ~IsGroup(j) \/ active[Dev(j)] = NoJob

\* A whole frame, or a group whose device has no other group under way.
Eligible(i) ==
  LET j == queues[Bulk][i]
  IN  ~IsGroup(j) \/ active[Dev(j)] \in {NoJob, j}

\* selectBulkIndexLocked: the first eligible job of another device, or else
\* the first eligible job.
IsBulkPick(i) ==
  LET Preferred(k) == Eligible(k) /\ OtherDevice(Bulk, k)
  IN  \/ Preferred(i) /\ \A k \in 1..(i - 1) : ~Preferred(k)
      \/ /\ \A k \in 1..Len(queues[Bulk]) : ~Preferred(k)
         /\ Eligible(i) /\ \A k \in 1..(i - 1) : ~Eligible(k)

\* popClassLocked takes the i-th job of class c, which becomes run's job.
Take(c, i) ==
  LET j == queues[c][i]
  IN  /\ queues' = [queues EXCEPT ![c] = RemoveAt(@, i)]
      /\ active' = IF c = Bulk /\ IsGroup(j) /\ active[Dev(j)] = NoJob
                   THEN [active EXCEPT ![Dev(j)] = j] ELSE active
      /\ lastDevice' = [lastDevice EXCEPT ![c] = Dev(j)]
      /\ IF c = Bulk THEN CountBulk(-1, -BytesOf[j]) ELSE Count(-1, -BytesOf[j])
      /\ cur' = j
      /\ wpc' = IF IsGroup(j) /\ nextIndex[j] = 0 THEN "commit" ELSE "write"
      /\ UNCHANGED <<chans, failed, callers, groups, wire>>

PopControl ==
  /\ wpc = "pop" /\ TakeControl
  /\ controlBurst' = IF controlBurst < ControlBurstCap THEN controlBurst + 1 ELSE controlBurst
  /\ Take(Control, 1)
  /\ UNCHANGED serviceCursor

PopService(k) ==
  /\ wpc = "pop" /\ ~TakeControl
  /\ ReadyAt(k) /\ \A m \in 0..(k - 1) : ~ReadyAt(m)
  /\ serviceCursor' = (serviceCursor + k + 1) % 4
  /\ controlBurst' = 0
  /\ LET c == serviceOrder[(serviceCursor + k) % 4]
     IN  \E i \in 1..Len(queues[c]) : IsPick(c, i) /\ Take(c, i)

BulkTurn ==
  /\ wpc = "pop" /\ ~TakeControl
  /\ \A k \in 0..3 : ~ReadyAt(k)
  /\ queues[Bulk] # <<>>

PopBulk ==
  /\ BulkTurn
  /\ controlBurst' = 0
  /\ \E i \in 1..Len(queues[Bulk]) : IsBulkPick(i) /\ Take(Bulk, i)
  /\ UNCHANGED serviceCursor

\* Mutant: run does not leave its inner loop.
PopNil_Spin ==
  /\ wpc = "pop" /\ ~HasWork
  /\ UNCHANGED vars

\* pop returns nil and run goes back to its select: all queues are empty, or
\* selectBulkIndexLocked finds no eligible job.
PopNil ==
  /\ \/ wpc = "pop" /\ ~HasWork /\ UNCHANGED controlBurst
     \/ /\ BulkTurn /\ \A i \in 1..Len(queues[Bulk]) : ~Eligible(i)
        /\ controlBurst' = 0
  /\ wpc' = "select"
  /\ UNCHANGED <<store, lastDevice, serviceCursor, chans, cur, failed, callers,
                 groups, wire>>

----------------------------------------------------------------------------
(* The run goroutine: one turn of the job it holds.                        *)

\* MarkIndex0Committed: the CAS that a cancel may have won.
CommitIndex0 ==
  /\ wpc = "commit"
  /\ IF handle[cur] = "active"
     THEN /\ handle' = [handle EXCEPT ![cur] = "committed"]
          /\ wpc' = "write"
     ELSE /\ wpc' = "complete"
          /\ UNCHANGED handle
  /\ UNCHANGED <<store, sched, chans, cur, failed, callers, nextIndex, expired,
                 wire>>

\* writeLogicalFrame takes a counter and the socket refuses the frame.
SendFails ==
  /\ wpc = "write" /\ ~closed[ConnOf[cur]] /\ ~expired[cur]
  /\ burned' = [burned EXCEPT ![ConnOf[cur]] = TRUE]
  /\ failed' = TRUE
  /\ wpc' = "complete"
  /\ UNCHANGED <<store, sched, chans, cur, callers, groups, closed, stream>>

\* A whole frame: written, or an error on a closed connection.
WriteFrame ==
  /\ wpc = "write" /\ ~IsGroup(cur)
  /\ failed' = closed[ConnOf[cur]]
  /\ wpc' = "complete"
  /\ UNCHANGED <<store, sched, chans, cur, callers, groups, wire>>

\* The next chunk of a group.
WriteChunk ==
  /\ wpc = "write" /\ IsGroup(cur)
  /\ ~expired[cur] /\ ~closed[ConnOf[cur]]
  /\ stream' = [stream EXCEPT ![ConnOf[cur]] = <<cur, nextIndex[cur]>>]
  /\ nextIndex' = [nextIndex EXCEPT ![cur] = @ + 1]
  /\ wpc' = IF nextIndex'[cur] >= ChunksOf[cur] THEN "complete" ELSE "requeue"
  /\ UNCHANGED <<store, sched, chans, cur, failed, callers, handle, expired,
                 closed, burned>>

\* Mutant: a group that expires half-way ends without an error.
AbandonGroup_Silent ==
  /\ wpc = "write" /\ IsGroup(cur)
  /\ expired[cur] \/ closed[ConnOf[cur]]
  /\ wpc' = "complete"
  /\ UNCHANGED <<store, sched, chans, cur, failed, callers, groups, wire>>

\* The group is over without a write: expired (an error once it has begun), or
\* its connection is closed (an error if it was closed after isClosed looked).
AbandonGroup ==
  /\ wpc = "write" /\ IsGroup(cur)
  /\ expired[cur] \/ closed[ConnOf[cur]]
  /\ \/ failed' = (expired[cur] /\ nextIndex[cur] > 0)
     \/ failed' = TRUE /\ ~expired[cur]
  /\ wpc' = "complete"
  /\ UNCHANGED <<store, sched, chans, cur, callers, groups, wire>>

\* Mutant: the job stays in run's hands after it is queued again.
RequeueBulk_Held ==
  /\ wpc = "requeue"
  /\ queues' = [queues EXCEPT ![Bulk] = Append(@, cur)]
  /\ CountBulk(1, BytesOf[cur])
  /\ wpc' = "pop"
  /\ UNCHANGED <<active, sched, chans, cur, failed, callers, groups, wire>>

\* requeueBulk: back to the tail, with no check of any cap.
RequeueBulk ==
  /\ wpc = "requeue"
  /\ queues' = [queues EXCEPT ![Bulk] = Append(@, cur)]
  /\ CountBulk(1, BytesOf[cur])
  /\ cur' = NoJob
  /\ wpc' = "pop"
  /\ UNCHANGED <<active, sched, chans, failed, callers, groups, wire>>

\* Mutant: the device stays with the finished group.
completeBulkGroup_Kept(j) == active

completeBulkGroup(j) ==
  IF IsGroup(j) /\ active[Dev(j)] = j THEN [active EXCEPT ![Dev(j)] = NoJob] ELSE active

\* completeBulkGroup, then the result for the caller that waits for one.
Complete ==
  /\ wpc = "complete"
  /\ active' = completeBulkGroup(cur)
  /\ done' = IF IsGroup(cur) THEN done
             ELSE [done EXCEPT ![cur] = IF failed THEN "error" ELSE "ok"]
  /\ IF failed
     THEN wpc' = "close" /\ UNCHANGED cur
     ELSE wpc' = "pop" /\ cur' = NoJob
  /\ UNCHANGED <<queues, counters, sched, chans, failed, phase, groups, wire>>

\* Mutant: the connection stays open after an error.
CloseFailed_Open ==
  /\ wpc = "close"
  /\ failed' = FALSE
  /\ cur' = NoJob
  /\ wpc' = "pop"
  /\ UNCHANGED <<store, sched, chans, callers, groups, wire>>

\* After an error run closes the job's connection.
CloseFailed ==
  /\ wpc = "close"
  /\ closed' = [closed EXCEPT ![ConnOf[cur]] = TRUE]
  /\ failed' = FALSE
  /\ cur' = NoJob
  /\ wpc' = "pop"
  /\ UNCHANGED <<store, sched, chans, callers, groups, burned, stream>>

TakeWake ==
  /\ wpc = "select" /\ wake
  /\ wake' = FALSE
  /\ wpc' = "pop"
  /\ UNCHANGED <<store, sched, stopped, cur, failed, callers, groups, wire>>

\* run sees stop: failQueued, and the goroutine ends.
FailQueued ==
  /\ wpc = "select" /\ stopped
  /\ handle' = [j \in Jobs |-> IF IsGroup(j) /\ Queued(j) THEN Cancel(handle[j]) ELSE handle[j]]
  /\ done' = [j \in Jobs |-> IF ~IsGroup(j) /\ Queued(j) THEN "error" ELSE done[j]]
  /\ queues' = [c \in Classes |-> <<>>]
  /\ queueFrames' = 0 /\ queueBytes' = 0 /\ bulkFrames' = 0 /\ bulkBytes' = 0
  /\ wpc' = "exit"
  /\ UNCHANGED <<active, sched, chans, cur, failed, phase, nextIndex, expired,
                 wire>>

----------------------------------------------------------------------------
Caller(j) == Enqueue(j) \/ AdmitBulk(j) \/ Signal(j) \/ ReceiveDone(j)

Run ==
  \/ TakeWake \/ FailQueued
  \/ PopControl \/ (\E k \in 0..3 : PopService(k)) \/ PopBulk \/ PopNil
  \/ CommitIndex0 \/ SendFails \/ WriteFrame \/ WriteChunk \/ AbandonGroup
  \/ RequeueBulk \/ Complete \/ CloseFailed

Next ==
  \/ \E j \in Jobs : Caller(j) \/ GiveUp(j) \/ Renew(j) \/ CancelHandle(j) \/ Expire(j)
  \/ \E c \in Conns : CloseConn(c)
  \/ Close
  \/ Run

Spec == Init /\ [][Next]_vars

\* The goroutine scheduler runs the writer and a caller that is about to signal.
\* Nothing is assumed of arrivals, cancels, closes or timeouts.
FairSpec == Spec /\ WF_vars(Run) /\ \A j \in Jobs : WF_vars(Signal(j))

----------------------------------------------------------------------------
(* Properties.                                                             *)

TypeOK ==
  /\ queues \in [Classes -> Seq(Jobs)]
  /\ active \in [Devices -> Jobs \cup {NoJob}]
  /\ queueFrames \in Int /\ queueBytes \in Int
  /\ bulkFrames \in Int /\ bulkBytes \in Int
  /\ lastDevice \in [Classes -> Devices \cup {NoDevice}]
  /\ controlBurst \in 0..ControlBurstCap /\ serviceCursor \in 0..3
  /\ wake \in BOOLEAN /\ stopped \in BOOLEAN
  /\ wpc \in WriterPcs
  /\ cur \in Jobs \cup {NoJob}
  /\ cur = NoJob <=> wpc \in {"select", "pop", "exit"}
  /\ failed \in BOOLEAN
  /\ phase \in [Jobs -> Phases]
  /\ done \in [Jobs -> {"none", "ok", "error"}]
  /\ nextIndex \in [Jobs -> Nat]
  /\ handle \in [Jobs -> {"active", "cancelled", "committed"}]
  /\ expired \in [Jobs -> BOOLEAN]
  /\ closed \in [Conns -> BOOLEAN]
  /\ burned \in [Conns -> BOOLEAN]
  /\ stream \in [Conns -> (Jobs \cup {NoJob}) \X Nat]

QueuedFrames ==
  Len(queues[0]) + Len(queues[1]) + Len(queues[2]) + Len(queues[3]) + Len(queues[4])

InHand == IF cur # NoJob THEN 1 ELSE 0

\* queueFrames, on which enqueue and admitBulk decide, is the number of queued
\* jobs, through every append, pop, requeue and failQueued.
FramesCounted == queueFrames = QueuedFrames

\* Together with the job in the writer's hands the queues hold at most one frame
\* more than relayOutboundQueueFrames: requeueBulk puts a group back without
\* looking at the cap, and callers may have filled the place it left.
FramesBounded == QueuedFrames + InHand <= QueueFramesCap + 1

\* A group holds its device only while it is queued or in the writer's hands:
\* whatever ends a group (last chunk, cancel, expiry, error, closed connection)
\* frees the device for the next one.
ActiveGroupLive ==
  \A d \in Devices : active[d] # NoJob =>
    /\ IsGroup(active[d]) /\ Dev(active[d]) = d
    /\ \/ cur = active[d] /\ wpc # "close"
       \/ \E i \in 1..Len(queues[Bulk]) : queues[Bulk][i] = active[d]
       \/ wpc = "exit"

\* When run sleeps with work queued, a token is in the wake channel or a caller
\* is about to put one there: a job is never left behind, although the send on
\* wake comes after the unlock and does not block.
NoLostWakeup ==
  wpc = "select" /\ HasWork => wake \/ \E j \in Jobs : phase[j] = "signal"

\* Once run has ended, nothing is queued: enqueue tests stop under the same
\* mutex as failQueued, so no caller slips a job in behind it.
NothingAfterExit == wpc = "exit" => ~HasWork /\ stopped

\* A successful Cancel means that no chunk of the group is ever written: cancel
\* and the writer's commit of index 0 are settled by one CAS.
CancelledNeverWritten ==
  \A j \in Jobs : handle[j] = "cancelled" => nextIndex[j] = 0

\* A frame that took a counter and was not sent leaves a hole the receiver would
\* refuse; the connection is closed before the writer touches another frame.
HoleClosesConnection ==
  \A c \in Conns : burned[c] =>
    closed[c] \/ (wpc \in {"complete", "close"} /\ failed /\ ConnOf[cur] = c)

\* On every connection the chunks of a group are written in order from index 0,
\* and no chunk of another group comes between them, also when groups of one
\* device are queued together and other classes are served in between.
ChunksInOrder ==
  [][\A c \in Conns : stream'[c] # stream[c] =>
       LET last == stream[c]  new == stream'[c]
       IN  \/ new[2] = 0 /\ (last[1] = NoJob \/ last[2] + 1 = ChunksOf[last[1]])
           \/ new[2] > 0 /\ last = <<new[1], new[2] - 1>>]_vars

\* Within a class other than bulk, the frames of one device leave in the order
\* in which they were enqueued: taking turns between devices never lets a frame
\* overtake an earlier one of its own device.
DeviceFifo ==
  [][\A c \in Control..Normal :
       Len(queues'[c]) < Len(queues[c]) /\ wpc' # "exit" =>
         \E i \in 1..Len(queues[c]) :
           /\ queues'[c] = RemoveAt(queues[c], i)
           /\ cur' = queues[c][i]
           /\ \A k \in 1..(i - 1) : Dev(queues[c][k]) # Dev(queues[c][i])]_vars

\* A queued frame that is not bulk leaves its queue, whatever else keeps
\* arriving: the burst cap limits control, and the round and the turns between
\* devices limit the rest.  (Bulk is served only when all else is empty.)
NonBulkServed ==
  \A j \in Jobs : ClassOf[j] # Bulk => (Queued(j) ~> ~Queued(j))

\* close lets run write out what is queued and end.
StopEndsRun == stopped ~> wpc = "exit"
=============================================================================

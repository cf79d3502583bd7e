--------------------- MODULE RelayOutboundWriter_proofs ---------------------
(***************************************************************************)
(* Proofs about the unified relay writer, for every set of jobs,           *)
(* connections and devices and every cap.                                  *)
(***************************************************************************)
EXTENDS RelayOutboundWriter, QueueLemmas

USE DEF Control, Interactive, Metadata, Normal, Bulk, Classes,
        counters, store, sched, chans, run, callers, groups, wire

----------------------------------------------------------------------------
(* The parts of the inductive invariant that no run states by themselves.  *)

\* What run's position says of the job it holds.
PcInv ==
  /\ wpc = "commit" => IsGroup(cur) /\ nextIndex[cur] = 0
  /\ wpc = "requeue" => IsGroup(cur)
  /\ failed => wpc \in {"complete", "close"}

\* The group in run's hands owns its device.
HoldsDevice ==
  wpc \in {"commit", "write", "requeue", "complete"} /\ IsGroup(cur)
    => active[Dev(cur)] = cur

\* Only a committed group has chunks on the wire or is about to.
HandleInv ==
  /\ \A j \in Jobs : nextIndex[j] > 0 => handle[j] = "committed"
  /\ wpc = "write" /\ IsGroup(cur) => handle[cur] = "committed"

----------------------------------------------------------------------------
(* What pop takes.                                                         *)

\* Every pop that returns a job takes the i-th job of one class, c; a group is
\* taken only if no other group owns its device.
LEMMA PopTakes ==
  ASSUME TypeOK, PopControl \/ (\E k \in 0..3 : PopService(k)) \/ PopBulk
  PROVE  /\ wpc = "pop"
         /\ \E c \in Classes : \E i \in 1..Len(queues[c]) :
              /\ Take(c, i)
              /\ c = Bulk => Eligible(i)
         /\ controlBurst' \in 0..ControlBurstCap /\ serviceCursor' \in 0..3
<1>1. CASE PopControl
  <2>1. 1 \in 1..Len(queues[Control]) /\ Take(Control, 1)
    BY <1>1 DEF PopControl, TakeControl, TypeOK
  <2> QED  BY <1>1, <2>1, WriterAssumption DEF PopControl, TypeOK
<1>2. ASSUME NEW k \in 0..3, PopService(k)
      PROVE  /\ wpc = "pop"
             /\ \E c \in Classes : \E i \in 1..Len(queues[c]) :
                  Take(c, i) /\ (c = Bulk => Eligible(i))
             /\ controlBurst' \in 0..ControlBurstCap /\ serviceCursor' \in 0..3
  <2>1. /\ (serviceCursor + k) % 4 \in 0..3
        /\ (serviceCursor + k + 1) % 4 \in 0..3
    BY DEF TypeOK
  <2>2. serviceOrder[(serviceCursor + k) % 4] \in 1..3
    BY <2>1 DEF serviceOrder
  <2> QED  BY <1>2, <2>1, <2>2, WriterAssumption DEF PopService
<1>3. CASE PopBulk
  BY <1>3, WriterAssumption DEF PopBulk, BulkTurn, IsBulkPick, TypeOK
<1> QED  BY <1>1, <1>2, <1>3

\* pop returns nil only when nothing is queued: a bulk queue always holds an
\* eligible job, the group that owns the device of its head if no other.
LEMMA PopNilEmpty ==
  ASSUME TypeOK, ActiveGroupLive, PopNil
  PROVE  ~HasWork
<1> SUFFICES ASSUME BulkTurn, \A i \in 1..Len(queues[Bulk]) : ~Eligible(i)
             PROVE  FALSE
  BY DEF PopNil
<1> DEFINE h == queues[Bulk][1]
           a == active[Dev(h)]
<1>1. 1 \in 1..Len(queues[Bulk]) /\ h \in Jobs /\ Dev(h) \in Devices
  BY WriterAssumption DEF BulkTurn, TypeOK, Dev
<1>2. IsGroup(h) /\ a # NoJob
  BY <1>1 DEF Eligible
<1>3. PICK m \in 1..Len(queues[Bulk]) : queues[Bulk][m] = a
  BY <1>1, <1>2 DEF ActiveGroupLive, BulkTurn, TypeOK
<1>4. Eligible(m)
  BY <1>1, <1>2, <1>3 DEF ActiveGroupLive, Eligible
<1> QED  BY <1>4

----------------------------------------------------------------------------
(* Type correctness.                                                       *)

\* newRelayOutboundWriter starts from well-typed, empty queues.
LEMMA TypeInit == Init => TypeOK /\ PcInv
<1> SUFFICES ASSUME Init PROVE TypeOK /\ PcInv
  OBVIOUS
<1>1. queues \in [Classes -> Seq(Jobs)]
  BY DEF Init
<1>2. stream \in [Conns -> (Jobs \cup {NoJob}) \X Nat]
  BY DEF Init
<1>3. /\ active \in [Devices -> Jobs \cup {NoJob}]
      /\ lastDevice \in [Classes -> Devices \cup {NoDevice}]
      /\ phase \in [Jobs -> Phases] /\ done \in [Jobs -> {"none", "ok", "error"}]
      /\ nextIndex \in [Jobs -> Nat]
      /\ handle \in [Jobs -> {"active", "cancelled", "committed"}]
      /\ expired \in [Jobs -> BOOLEAN]
      /\ closed \in [Conns -> BOOLEAN] /\ burned \in [Conns -> BOOLEAN]
  BY DEF Init, Phases
<1>4. /\ controlBurst \in 0..ControlBurstCap /\ serviceCursor \in 0..3
      /\ queueFrames \in Int /\ queueBytes \in Int
      /\ bulkFrames \in Int /\ bulkBytes \in Int
  BY WriterAssumption DEF Init
<1>5. /\ wake \in BOOLEAN /\ stopped \in BOOLEAN /\ failed \in BOOLEAN
      /\ wpc \in WriterPcs /\ cur \in Jobs \cup {NoJob}
      /\ cur = NoJob <=> wpc \in {"select", "pop", "exit"}
  BY DEF Init, WriterPcs
<1>6. PcInv
  BY DEF Init, PcInv
<1> QED  BY <1>1, <1>2, <1>3, <1>4, <1>5, <1>6 DEF TypeOK

\* popClassLocked leaves well-typed queues, counters and owners, and run with
\* the job it took.
LEMMA TakeType ==
  ASSUME TypeOK, PcInv, wpc = "pop",
         NEW c \in Classes, NEW i \in 1..Len(queues[c]), Take(c, i),
         controlBurst' \in 0..ControlBurstCap, serviceCursor' \in 0..3
  PROVE  TypeOK' /\ PcInv'
<1> DEFINE j == queues[c][i]
<1>1. j \in Jobs /\ BytesOf[j] \in Nat /\ Dev(j) \in Devices
  <2>1. queues[c] \in Seq(Jobs)
    BY DEF TypeOK
  <2>2. j \in Jobs
    BY <2>1
  <2> QED  BY <2>2, WriterAssumption DEF Dev
<1>2. RemoveAt(queues[c], i) \in Seq(Jobs)
  <2>1. queues[c] \in Seq(Jobs)
    BY DEF TypeOK
  <2> QED  BY <2>1, RemoveAtQueue
<1>3. queues' \in [Classes -> Seq(Jobs)] /\ active' \in [Devices -> Jobs \cup {NoJob}]
      /\ lastDevice' \in [Classes -> Devices \cup {NoDevice}]
  BY <1>1, <1>2 DEF Take, TypeOK
<1>4. queueFrames' \in Int /\ queueBytes' \in Int /\ bulkFrames' \in Int /\ bulkBytes' \in Int
  <2> DEFINE b == -BytesOf[j]
  <2>1. Count(-1, b) \/ CountBulk(-1, b)
    BY DEF Take
  <2>2. b \in Int /\ -1 \in Int
    BY <1>1
  <2>3. queueFrames \in Int /\ queueBytes \in Int /\ bulkFrames \in Int /\ bulkBytes \in Int
    BY DEF TypeOK
  <2> HIDE DEF b
  <2>4. CASE Count(-1, b)
    BY <2>2, <2>3, <2>4 DEF Count
  <2>5. CASE CountBulk(-1, b)
    BY <2>2, <2>3, <2>5 DEF CountBulk
  <2> QED  BY <2>1, <2>4, <2>5
<1>5. /\ cur' = j /\ j # NoJob
      /\ wpc' = IF IsGroup(j) /\ nextIndex[j] = 0 THEN "commit" ELSE "write"
      /\ UNCHANGED <<wake, stopped, failed, phase, done, nextIndex, handle, expired,
                     closed, burned, stream>>
  BY <1>1, WriterAssumption DEF Take, chans, callers, groups, wire
<1> QED  BY <1>1, <1>3, <1>4, <1>5 DEF TypeOK, PcInv, WriterPcs, IsGroup

\* The two outcomes of enqueue and of admitBulk: the job is appended to the queue
\* of its class, or the caller returns.
Appended(j) ==
  /\ phase[j] = "new" /\ ~stopped /\ queueFrames + 1 <= QueueFramesCap
  /\ queues' = [queues EXCEPT ![ClassOf[j]] = Append(queues[ClassOf[j]], j)]
  /\ Count(1, BytesOf[j]) \/ CountBulk(1, BytesOf[j])
  /\ phase' = [phase EXCEPT ![j] = "signal"]
  /\ UNCHANGED <<active, sched, chans, run, done, groups, wire>>

Refused(j) ==
  /\ phase[j] = "new"
  /\ phase' = [phase EXCEPT ![j] = "returned"]
  /\ UNCHANGED <<store, sched, chans, run, done, groups, wire>>

\* enqueue and admitBulk lengthen the queue of the job's class by it, or leave
\* all queues alone.
LEMMA Admission ==
  ASSUME NEW j \in Jobs, Enqueue(j) \/ AdmitBulk(j)
  PROVE  Appended(j) \/ Refused(j)
<1> USE DEF Appended, Refused
<1>1. CASE Enqueue(j)
  <2>1. CASE Accepts(j)
    BY <1>1, <2>1 DEF Enqueue, Accepts, RoomFor
  <2>2. CASE ~Accepts(j)
    BY <1>1, <2>2 DEF Enqueue
  <2> QED  BY <2>1, <2>2
<1>2. CASE AdmitBulk(j)
  <2>0. ClassOf[j] = Bulk
    BY <1>2, WriterAssumption DEF AdmitBulk, IsGroup
  <2>1. CASE Accepts(j) /\ BulkRoomFor(j)
    BY <1>2, <2>0, <2>1 DEF AdmitBulk, Accepts, RoomFor
  <2>2. CASE ~(Accepts(j) /\ BulkRoomFor(j))
    BY <1>2, <2>2 DEF AdmitBulk
  <2> QED  BY <2>1, <2>2
<1> QED  BY <1>1, <1>2

\* Every step keeps the types, and run's program counter in line with the job it
\* holds.
LEMMA TypeStep ==
  ASSUME TypeOK, PcInv, [Next]_vars
  PROVE  TypeOK' /\ PcInv'
<1> USE WriterAssumption
<1>1. ASSUME NEW j \in Jobs, Enqueue(j) \/ AdmitBulk(j)
      PROVE  TypeOK' /\ PcInv'
  <2>1. CASE Appended(j)
    <3>1. /\ ClassOf[j] \in Classes /\ BytesOf[j] \in Nat
          /\ Append(queues[ClassOf[j]], j) \in Seq(Jobs)
      <4>1. ClassOf[j] \in Classes /\ BytesOf[j] \in Nat
        OBVIOUS
      <4>2. queues[ClassOf[j]] \in Seq(Jobs)
        BY <4>1 DEF TypeOK
      <4> QED  BY <4>1, <4>2, AppendQueue
    <3>2. /\ queues' \in [Classes -> Seq(Jobs)]
          /\ phase' \in [Jobs -> Phases]
      BY <2>1, <3>1 DEF Appended, TypeOK, Phases
    <3>3. /\ queueFrames' \in Int /\ queueBytes' \in Int
          /\ bulkFrames' \in Int /\ bulkBytes' \in Int
      <4>1. Count(1, BytesOf[j]) \/ CountBulk(1, BytesOf[j])
        BY <2>1 DEF Appended
      <4>2. /\ queueFrames \in Int /\ queueBytes \in Int
            /\ bulkFrames \in Int /\ bulkBytes \in Int
        BY DEF TypeOK
      <4> QED  BY <3>1, <4>1, <4>2 DEF Count, CountBulk
    <3> QED  BY <2>1, <3>2, <3>3 DEF Appended, TypeOK, PcInv, IsGroup
  <2>2. CASE Refused(j)
    BY <2>2 DEF Refused, TypeOK, PcInv, IsGroup, Phases
  <2> QED  BY <1>1, <2>1, <2>2, Admission
<1>2. ASSUME NEW j \in Jobs, Signal(j) \/ ReceiveDone(j) \/ GiveUp(j) \/ CancelHandle(j) \/ Expire(j)
      PROVE  TypeOK' /\ PcInv'
  <2>1. CASE Signal(j)
    BY <2>1 DEF Signal, TypeOK, PcInv, Phases, IsGroup
  <2>2. CASE ReceiveDone(j)
    BY <2>2 DEF ReceiveDone, TypeOK, PcInv, Phases, IsGroup
  <2>3. CASE GiveUp(j)
    BY <2>3 DEF GiveUp, TypeOK, PcInv, Phases, IsGroup
  <2>4. CASE CancelHandle(j)
    BY <2>4 DEF CancelHandle, Cancel, TypeOK, PcInv, IsGroup
  <2>5. CASE Expire(j)
    BY <2>5 DEF Expire, TypeOK, PcInv, IsGroup
  <2> QED  BY <1>2, <2>1, <2>2, <2>3, <2>4, <2>5
<1>3. ASSUME NEW j \in Jobs, Renew(j)
      PROVE  TypeOK' /\ PcInv'
  BY <1>3 DEF Renew, TypeOK, PcInv, Phases, IsGroup
<1>4. ASSUME NEW c \in Conns, CloseConn(c)
      PROVE  TypeOK' /\ PcInv'
  BY <1>4 DEF CloseConn, TypeOK, PcInv, IsGroup
<1>5. CASE Close
  BY <1>5 DEF Close, TypeOK, PcInv, IsGroup
<1>6. CASE TakeWake
  BY <1>6 DEF TakeWake, TypeOK, PcInv, IsGroup, WriterPcs
<1>7. CASE FailQueued
  BY <1>7 DEF FailQueued, TypeOK, PcInv, IsGroup, WriterPcs, Cancel
<1>8. CASE PopControl \/ (\E k \in 0..3 : PopService(k)) \/ PopBulk
  BY <1>8, PopTakes, TakeType
<1>9. CASE PopNil
  <2>1. controlBurst' \in 0..ControlBurstCap /\ wpc = "pop"
    <3>1. wpc = "pop" /\ controlBurst' \in {0, controlBurst}
      BY <1>9 DEF PopNil, BulkTurn
    <3>2. controlBurst \in 0..ControlBurstCap /\ 0 \in 0..ControlBurstCap
      BY DEF TypeOK
    <3> QED  BY <3>1, <3>2
  <2> QED  BY <1>9, <2>1 DEF PopNil, TypeOK, PcInv, IsGroup, WriterPcs
<1>10. CASE CommitIndex0
  BY <1>10 DEF CommitIndex0, TypeOK, PcInv, IsGroup, WriterPcs
<1>11. CASE SendFails
  BY <1>11 DEF SendFails, TypeOK, PcInv, IsGroup, WriterPcs
<1>12. CASE WriteFrame
  BY <1>12 DEF WriteFrame, TypeOK, PcInv, IsGroup, WriterPcs
<1>13. CASE WriteChunk
  <2>1. cur \in Jobs /\ nextIndex[cur] \in Nat /\ ConnOf[cur] \in Conns
    BY <1>13 DEF WriteChunk, TypeOK
  <2>2. wpc' \in {"complete", "requeue"}
    BY <1>13 DEF WriteChunk
  <2>3. nextIndex' \in [Jobs -> Nat]
    BY <1>13, <2>1 DEF WriteChunk, TypeOK
  <2>4. stream' \in [Conns -> (Jobs \cup {NoJob}) \X Nat]
    BY <1>13, <2>1 DEF WriteChunk, TypeOK
  <2> QED  BY <1>13, <2>1, <2>2, <2>3, <2>4
              DEF WriteChunk, TypeOK, PcInv, IsGroup, WriterPcs
<1>14. CASE AbandonGroup
  BY <1>14 DEF AbandonGroup, TypeOK, PcInv, IsGroup, WriterPcs
<1>15. CASE RequeueBulk
  <2>1. cur \in Jobs /\ BytesOf[cur] \in Nat
    BY <1>15 DEF RequeueBulk, TypeOK
  <2>2. Append(queues[Bulk], cur) \in Seq(Jobs)
    BY <2>1, AppendQueue DEF TypeOK
  <2>3. queues' \in [Classes -> Seq(Jobs)]
    BY <1>15, <2>2 DEF RequeueBulk, TypeOK
  <2>4. /\ queueFrames' \in Int /\ queueBytes' \in Int
        /\ bulkFrames' \in Int /\ bulkBytes' \in Int
    <3>1. CountBulk(1, BytesOf[cur])
      BY <1>15 DEF RequeueBulk
    <3>2. /\ queueFrames \in Int /\ queueBytes \in Int
          /\ bulkFrames \in Int /\ bulkBytes \in Int
      BY DEF TypeOK
    <3> QED  BY <2>1, <3>1, <3>2 DEF CountBulk
  <2> QED  BY <1>15, <2>3, <2>4 DEF RequeueBulk, TypeOK, PcInv, IsGroup, WriterPcs
<1>16. CASE Complete
  BY <1>16 DEF Complete, completeBulkGroup, TypeOK, PcInv, IsGroup, WriterPcs, Dev
<1>17. CASE CloseFailed
  BY <1>17 DEF CloseFailed, TypeOK, PcInv, IsGroup, WriterPcs
<1>18. CASE UNCHANGED vars
  BY <1>18 DEF vars, TypeOK, PcInv, IsGroup
<1> QED
  BY <1>1, <1>2, <1>3, <1>4, <1>5, <1>6, <1>7, <1>8, <1>9, <1>10, <1>11, <1>12, <1>13,
     <1>14, <1>15, <1>16, <1>17, <1>18 DEF Next, Caller, Run

\* The writer's state keeps its types, and run holds a job exactly while it is
\* between pop and the end of that job's turn.
THEOREM TypeCorrect == Spec => []TypeOK
<1>1. TypeOK /\ PcInv /\ [Next]_vars => TypeOK' /\ PcInv'
  BY TypeStep
<1> QED  BY <1>1, TypeInit, PTL DEF Spec

----------------------------------------------------------------------------
(* The frame counter and the cap.                                          *)

\* The number of queued jobs follows the length of the one queue that changes.
LEMMA ResizeQueue ==
  ASSUME TypeOK, NEW c \in Classes, NEW q \in Seq(Jobs), NEW d \in Int,
         Len(q) = Len(queues[c]) + d,
         queues' = [queues EXCEPT ![c] = q]
  PROVE  QueuedFrames' = QueuedFrames + d
<1>1. \A b \in Classes : Len(queues[b]) \in Int
  BY DEF TypeOK
<1>2. \A b \in Classes : \A e \in Int :
        e = (IF c = b THEN d ELSE 0) => Len(queues'[b]) = Len(queues[b]) + e
  <2> SUFFICES ASSUME NEW b \in Classes, NEW e \in Int, e = IF c = b THEN d ELSE 0
               PROVE  Len(queues'[b]) = Len(queues[b]) + e
    OBVIOUS
  <2>1. CASE c = b
    BY <2>1 DEF TypeOK
  <2>2. CASE c # b
    BY <1>1, <2>2 DEF TypeOK
  <2> QED  BY <2>1, <2>2
<1> DEFINE a0 == Len(queues[0])
           a1 == Len(queues[1])
           a2 == Len(queues[2])
           a3 == Len(queues[3])
           a4 == Len(queues[4])
<1>3. a0 \in Int /\ a1 \in Int /\ a2 \in Int /\ a3 \in Int /\ a4 \in Int
  BY <1>1
<1>4. PICK e0 \in Int, e1 \in Int, e2 \in Int, e3 \in Int, e4 \in Int :
        /\ e0 = IF c = 0 THEN d ELSE 0
        /\ e1 = IF c = 1 THEN d ELSE 0
        /\ e2 = IF c = 2 THEN d ELSE 0
        /\ e3 = IF c = 3 THEN d ELSE 0
        /\ e4 = IF c = 4 THEN d ELSE 0
  OBVIOUS
<1>5. QueuedFrames = a0 + a1 + a2 + a3 + a4
  BY DEF QueuedFrames
<1>6. QueuedFrames' = (a0 + e0) + (a1 + e1) + (a2 + e2) + (a3 + e3) + (a4 + e4)
  <2>0. 0 \in Classes /\ 1 \in Classes /\ 2 \in Classes /\ 3 \in Classes /\ 4 \in Classes
    OBVIOUS
  <2> HIDE DEF Classes
  <2>1. Len(queues'[0]) = a0 + e0
    BY <1>2, <1>4, <2>0
  <2>2. Len(queues'[1]) = a1 + e1
    BY <1>2, <1>4, <2>0
  <2>3. Len(queues'[2]) = a2 + e2
    BY <1>2, <1>4, <2>0
  <2>4. Len(queues'[3]) = a3 + e3
    BY <1>2, <1>4, <2>0
  <2>5. Len(queues'[4]) = a4 + e4
    BY <1>2, <1>4, <2>0
  <2> QED  BY <2>1, <2>2, <2>3, <2>4, <2>5 DEF QueuedFrames
<1>7. e0 + e1 + e2 + e3 + e4 = d
  BY <1>4
<1>8. \A x0, x1, x2, x3, x4 \in Int :
        (x0 + e0) + (x1 + e1) + (x2 + e2) + (x3 + e3) + (x4 + e4) = (x0 + x1 + x2 + x3 + x4) + d
  BY <1>7
<1> HIDE DEF a0, a1, a2, a3, a4
<1> QED  BY <1>3, <1>5, <1>6, <1>8

\* The steps that neither queue a job nor take one, nor end a turn.
LEMMA QueuesKept ==
  ASSUME \/ \E j \in Jobs : \/ Signal(j) \/ ReceiveDone(j) \/ GiveUp(j)
                             \/ CancelHandle(j) \/ Expire(j) \/ Renew(j)
         \/ \E c \in Conns : CloseConn(c)
         \/ Close \/ TakeWake \/ PopNil \/ CommitIndex0 \/ SendFails \/ WriteFrame
         \/ WriteChunk \/ AbandonGroup \/ UNCHANGED vars
  PROVE  UNCHANGED <<queues, queueFrames, cur>>
BY DEF Signal, ReceiveDone, GiveUp, CancelHandle, Expire, Renew, CloseConn, Close, TakeWake,
       PopNil, CommitIndex0, SendFails, WriteFrame, WriteChunk, AbandonGroup, vars

\* Room for one more frame follows from the test that enqueue and admitBulk make.
LEMMA Slack ==
  ASSUME NEW a \in Nat, NEW cap \in Nat, NEW h, a + 1 <= cap + 1, h = 0 \/ h = 1
  PROVE  a + h <= cap + 1
  OBVIOUS

\* Every step keeps queueFrames exact, and leaves room for the job in hand up to
\* the one frame of overshoot.
LEMMA CountStep ==
  ASSUME TypeOK, TypeOK', FramesCounted, FramesBounded, [Next]_vars
  PROVE  FramesCounted' /\ FramesBounded'
<1> USE WriterAssumption
<1>0. QueuedFrames \in Nat /\ queueFrames \in Int
  <2>1. \A b \in Classes : Len(queues[b]) \in Nat
    BY DEF TypeOK
  <2> QED  BY <2>1 DEF QueuedFrames, TypeOK
<1>1. ASSUME NEW j \in Jobs, Enqueue(j) \/ AdmitBulk(j)
      PROVE  FramesCounted' /\ FramesBounded'
  <2>1. CASE Appended(j)
    <3>1. ClassOf[j] \in Classes /\ queues[ClassOf[j]] \in Seq(Jobs)
      BY DEF TypeOK
    <3>2. /\ Append(queues[ClassOf[j]], j) \in Seq(Jobs)
          /\ Len(Append(queues[ClassOf[j]], j)) = Len(queues[ClassOf[j]]) + 1
      BY <3>1, AppendQueue
    <3>3. QueuedFrames' = QueuedFrames + 1
      <4>1. queues' = [queues EXCEPT ![ClassOf[j]] = Append(queues[ClassOf[j]], j)]
        BY <2>1 DEF Appended
      <4>2. 1 \in Int
        OBVIOUS
      <4> QED  BY <3>1, <3>2, <4>1, <4>2, ResizeQueue
    <3>4. /\ queueFrames' = queueFrames + 1 /\ queueFrames + 1 <= QueueFramesCap
          /\ InHand' = InHand
      BY <2>1 DEF Appended, Count, CountBulk, InHand
    <3> QED  BY <1>0, <3>3, <3>4 DEF FramesCounted, FramesBounded, InHand
  <2>2. CASE Refused(j)
    BY <2>2 DEF Refused, FramesCounted, FramesBounded, QueuedFrames, InHand
  <2> QED  BY <1>1, <2>1, <2>2, Admission
<1>2. CASE PopControl \/ (\E k \in 0..3 : PopService(k)) \/ PopBulk
  <2>1. PICK c \in Classes : \E i \in 1..Len(queues[c]) : Take(c, i)
    BY <1>2, PopTakes
  <2>2. PICK i \in 1..Len(queues[c]) : Take(c, i)
    BY <2>1
  <2>3. /\ queues[c] \in Seq(Jobs)
        /\ RemoveAt(queues[c], i) \in Seq(Jobs)
        /\ Len(RemoveAt(queues[c], i)) = Len(queues[c]) - 1
    <3>1. queues[c] \in Seq(Jobs)
      BY DEF TypeOK
    <3> QED  BY <3>1, RemoveAtQueue
  <2>4. QueuedFrames' = QueuedFrames - 1
    <3>1. queues' = [queues EXCEPT ![c] = RemoveAt(queues[c], i)]
      BY <2>2 DEF Take
    <3>2. -1 \in Int /\ Len(RemoveAt(queues[c], i)) = Len(queues[c]) + (-1)
      BY <2>3
    <3>3. QueuedFrames' = QueuedFrames + (-1)
      BY <2>3, <3>1, <3>2, ResizeQueue
    <3> QED  BY <1>0, <3>3
  <2>5. queueFrames' = queueFrames - 1
    BY <1>0, <2>2 DEF Take, Count, CountBulk
  <2>6. InHand = 0 /\ InHand' \in {0, 1}
    BY <1>2, PopTakes DEF InHand, TypeOK
  <2>7. FramesCounted'
    BY <1>0, <2>4, <2>5 DEF FramesCounted
  <2>8. FramesBounded'
    <3>1. QueuedFrames <= QueueFramesCap + 1 /\ QueueFramesCap \in Nat
      BY <1>0, <2>6 DEF FramesBounded
    <3>2. InHand' = 0 \/ InHand' = 1
      BY <2>6
    <3>3. QueuedFrames' + InHand' <= QueueFramesCap + 1
      BY <1>0, <2>4, <3>1, <3>2
    <3> QED  BY <3>3 DEF FramesBounded
  <2> QED  BY <2>7, <2>8
<1>3. CASE RequeueBulk
  <2>1. /\ cur \in Jobs /\ queues[Bulk] \in Seq(Jobs)
        /\ InHand = 1 /\ InHand' = 0
    BY <1>3 DEF RequeueBulk, TypeOK, InHand
  <2>2. /\ Append(queues[Bulk], cur) \in Seq(Jobs)
        /\ Len(Append(queues[Bulk], cur)) = Len(queues[Bulk]) + 1
    BY <2>1, AppendQueue
  <2>3. QueuedFrames' = QueuedFrames + 1
    <3>1. queues' = [queues EXCEPT ![Bulk] = Append(queues[Bulk], cur)]
      BY <1>3 DEF RequeueBulk
    <3>2. Bulk \in Classes /\ 1 \in Int
      OBVIOUS
    <3> QED  BY <2>2, <3>1, <3>2, ResizeQueue
  <2>4. queueFrames' = queueFrames + 1
    BY <1>3 DEF RequeueBulk, CountBulk
  <2>5. FramesCounted'
    BY <1>0, <2>3, <2>4 DEF FramesCounted
  <2>6. FramesBounded'
    BY <1>0, <2>1, <2>3 DEF FramesBounded
  <2> QED  BY <2>5, <2>6
<1>4. CASE FailQueued
  <2>1. QueuedFrames' = 0 /\ queueFrames' = 0 /\ InHand' = 0
    BY <1>4 DEF FailQueued, QueuedFrames, InHand, TypeOK
  <2> QED  BY <2>1 DEF FramesCounted, FramesBounded
<1>5. CASE Complete \/ CloseFailed
  <2>1. UNCHANGED <<queues, queueFrames>> /\ InHand = 1 /\ InHand' \in {0, 1}
    BY <1>5 DEF Complete, CloseFailed, TypeOK, InHand
  <2>2. QueuedFrames' = QueuedFrames
    BY <2>1 DEF QueuedFrames
  <2>3. FramesCounted'
    BY <2>1, <2>2 DEF FramesCounted
  <2>4. FramesBounded'
    <3>1. InHand' = 0 \/ InHand' = 1
      BY <2>1
    <3>2. QueuedFrames' + 1 <= QueueFramesCap + 1
      BY <2>1, <2>2 DEF FramesBounded
    <3>3. QueuedFrames' \in Nat /\ QueueFramesCap \in Nat
      BY <1>0, <2>2
    <3>4. QueuedFrames' + InHand' <= QueueFramesCap + 1
      BY <3>1, <3>2, <3>3, Slack
    <3> QED  BY <3>4 DEF FramesBounded
  <2> QED  BY <2>3, <2>4
<1>6. ASSUME UNCHANGED <<queues, queueFrames, cur>>
      PROVE  FramesCounted' /\ FramesBounded'
  BY <1>6 DEF FramesCounted, FramesBounded, QueuedFrames, InHand
<1> QED
  BY <1>1, <1>2, <1>3, <1>4, <1>5, <1>6, QueuesKept DEF Next, Caller, Run

\* The frame counter is exact, and the queues with the job in hand never hold
\* more than one frame over the cap: the overshoot of requeueBulk is the only one.
THEOREM FramesSafe == Spec => [](FramesCounted /\ FramesBounded)
<1>1. Init => FramesCounted /\ FramesBounded
  BY WriterAssumption DEF Init, FramesCounted, FramesBounded, QueuedFrames, InHand
<1>2. TypeOK /\ TypeOK' /\ FramesCounted /\ FramesBounded /\ [Next]_vars
        => FramesCounted' /\ FramesBounded'
  BY CountStep
<1> QED  BY <1>1, <1>2, TypeCorrect, PTL DEF Spec

----------------------------------------------------------------------------
(* The group that owns a device.                                           *)

GroupInv == ActiveGroupLive /\ HoldsDevice

\* A step that leaves the owners, the bulk queue and run's job alone, and does
\* not move run into its turn, preserves GroupInv.
LEMMA GroupFrame ==
  ASSUME GroupInv,
         UNCHANGED <<active, cur>>, queues'[Bulk] = queues[Bulk],
         \/ wpc' = wpc
         \/ /\ wpc \in {"commit", "write"} /\ wpc' \in {"write", "requeue", "complete"}
         \/ /\ wpc \in {"select", "pop"} /\ wpc' \in {"select", "pop"}
  PROVE  GroupInv'
BY DEF GroupInv, ActiveGroupLive, HoldsDevice, IsGroup, Dev

\* A pop from any queue keeps the owner of every device queued or in hand.
LEMMA GroupTake ==
  ASSUME TypeOK, TypeOK', GroupInv, wpc = "pop",
         NEW c \in Classes, NEW i \in 1..Len(queues[c]), Take(c, i),
         c = Bulk => Eligible(i), IsGroup(queues[c][i]) => c = Bulk
  PROVE  GroupInv'
<1> USE WriterAssumption
<1> DEFINE j == queues[c][i]
<1>1. queues[c] \in Seq(Jobs) /\ j \in Jobs /\ Dev(j) \in Devices
  <2>1. queues[c] \in Seq(Jobs)
    BY DEF TypeOK
  <2> QED  BY <2>1 DEF Dev
<1>2. cur' = j /\ wpc' \in {"commit", "write"}
  BY DEF Take
<1>3. CASE IsGroup(j)
  <2>1. c = Bulk /\ active[Dev(j)] \in {NoJob, j}
    BY <1>3 DEF Eligible
  <2>2. active' = [active EXCEPT ![Dev(j)] = j]
    BY <1>1, <1>3, <2>1 DEF Take, TypeOK
  <2>3. HoldsDevice'
    BY <1>1, <1>2, <2>2 DEF HoldsDevice, TypeOK, Dev
  <2>4. ASSUME NEW d \in Devices, active'[d] # NoJob
        PROVE  /\ IsGroup(active'[d]) /\ Dev(active'[d]) = d
               /\ cur' = active'[d] \/ Holds(queues'[Bulk], active'[d])
    <3>1. CASE d = Dev(j)
      BY <1>1, <1>2, <1>3, <2>2, <3>1 DEF TypeOK
    <3>2. CASE d # Dev(j)
      <4>1. active'[d] = active[d] /\ IsGroup(active[d]) /\ Dev(active[d]) = d
        BY <2>2, <2>4, <3>2 DEF GroupInv, ActiveGroupLive, TypeOK
      <4>2. Holds(queues[Bulk], active[d])
        BY <2>4, <4>1 DEF GroupInv, ActiveGroupLive, TypeOK, Holds
      <4>3. queues[Bulk] \in Seq(Jobs) /\ i \in 1..Len(queues[Bulk])
            /\ active[d] # queues[Bulk][i]
        BY <1>1, <2>1, <3>2, <4>1
      <4>4. queues'[Bulk] = RemoveAt(queues[Bulk], i)
        BY <2>1 DEF Take, TypeOK
      <4>5. Holds(queues'[Bulk], active'[d])
        BY <4>1, <4>2, <4>3, <4>4, RemoveAtHolds
      <4> QED  BY <4>1, <4>5
    <3> QED  BY <3>1, <3>2
  <2>5. ActiveGroupLive'
    BY <1>2, <2>4 DEF ActiveGroupLive, Holds, IsGroup, Dev
  <2> QED  BY <2>3, <2>5 DEF GroupInv
<1>4. CASE ~IsGroup(j)
  <2>1. active' = active
    BY <1>4 DEF Take
  <2>2. HoldsDevice'
    BY <1>2, <1>4 DEF HoldsDevice, IsGroup
  <2>3. ASSUME NEW d \in Devices, active[d] # NoJob
        PROVE  Holds(queues'[Bulk], active[d])
    <3>1. Holds(queues[Bulk], active[d])
      BY <2>3 DEF GroupInv, ActiveGroupLive, TypeOK, Holds
    <3>2. IsGroup(active[d])
      BY <2>3 DEF GroupInv, ActiveGroupLive
    <3>3. CASE c = Bulk
      <4>1. queues[Bulk] \in Seq(Jobs) /\ i \in 1..Len(queues[Bulk])
            /\ active[d] # queues[Bulk][i]
        BY <1>1, <1>4, <3>2, <3>3
      <4>2. queues'[Bulk] = RemoveAt(queues[Bulk], i)
        BY <3>3 DEF Take, TypeOK
      <4> QED  BY <3>1, <4>1, <4>2, RemoveAtHolds
    <3>4. CASE c # Bulk
      <4>1. queues'[Bulk] = queues[Bulk]
        BY <3>4 DEF Take, TypeOK
      <4> QED  BY <3>1, <4>1
    <3> QED  BY <3>3, <3>4
  <2>4. ActiveGroupLive'
    BY <2>1, <2>3 DEF GroupInv, ActiveGroupLive, Holds, IsGroup, Dev
  <2> QED  BY <2>2, <2>4 DEF GroupInv
<1> QED  BY <1>3, <1>4

\* Jobs sit in the queue of their class.
ClassInv == \A c \in Classes : \A i \in 1..Len(queues[c]) : ClassOf[queues[c][i]] = c

\* Every job stays in the queue of its class, and groups in the bulk queue.
LEMMA ClassStep ==
  ASSUME TypeOK, PcInv, ClassInv, [Next]_vars
  PROVE  ClassInv'
<1> USE WriterAssumption
<1>1. ASSUME NEW j \in Jobs, Appended(j) \/ Refused(j)
      PROVE  ClassInv'
  <2>1. CASE Refused(j)
    BY <2>1 DEF Refused, ClassInv
  <2>2. CASE Appended(j)
    <3>1. ClassOf[j] \in Classes /\ queues[ClassOf[j]] \in Seq(Jobs)
      BY DEF TypeOK
    <3>2. \A i \in 1..Len(Append(queues[ClassOf[j]], j)) :
             ClassOf[Append(queues[ClassOf[j]], j)[i]] = ClassOf[j]
      <4> DEFINE q == queues[ClassOf[j]]
      <4>1. q \in Seq(Jobs) /\ \A i \in 1..Len(q) : ClassOf[q[i]] = ClassOf[j]
        BY <3>1 DEF ClassInv
      <4> HIDE DEF q
      <4>2. /\ Len(q) \in Nat /\ Len(Append(q, j)) = Len(q) + 1
            /\ \A i \in 1..Len(q) : Append(q, j)[i] = q[i]
            /\ Append(q, j)[Len(q) + 1] = j
        BY <4>1, AppendQueue
      <4>3. \A i \in 1..Len(Append(q, j)) : i \in 1..Len(q) \/ i = Len(q) + 1
        BY <4>2
      <4>4. \A i \in 1..Len(Append(q, j)) : ClassOf[Append(q, j)[i]] = ClassOf[j]
        BY <4>1, <4>2, <4>3
      <4> QED  BY <4>4 DEF q
    <3>3. queues' = [queues EXCEPT ![ClassOf[j]] = Append(queues[ClassOf[j]], j)]
      BY <2>2 DEF Appended
    <3> QED  BY <3>1, <3>2, <3>3 DEF ClassInv, TypeOK
  <2> QED  BY <1>1, <2>1, <2>2
<1>2. CASE PopControl \/ (\E k \in 0..3 : PopService(k)) \/ PopBulk
  <2>1. PICK c \in Classes : \E i \in 1..Len(queues[c]) : Take(c, i)
    BY <1>2, PopTakes
  <2>2. PICK i \in 1..Len(queues[c]) : Take(c, i)
    BY <2>1
  <2>3. queues[c] \in Seq(Jobs)
    BY DEF TypeOK
  <2>4. \A k \in 1..Len(RemoveAt(queues[c], i)) : ClassOf[RemoveAt(queues[c], i)[k]] = c
    <3> DEFINE q == queues[c]
    <3>1. q \in Seq(Jobs) /\ i \in 1..Len(q) /\ \A m \in 1..Len(q) : ClassOf[q[m]] = c
      BY <2>3 DEF ClassInv
    <3> HIDE DEF q
    <3>2. ASSUME NEW k \in 1..Len(RemoveAt(q, i))
          PROVE  ClassOf[RemoveAt(q, i)[k]] = c
      <4>1. \E m \in 1..Len(q) : RemoveAt(q, i)[k] = q[m]
        BY <3>1, RemoveAtAddsNothing
      <4> QED  BY <3>1, <4>1
    <3> QED  BY <3>2 DEF q
  <2>5. queues' = [queues EXCEPT ![c] = RemoveAt(queues[c], i)]
    BY <2>2 DEF Take
  <2> QED  BY <2>4, <2>5 DEF ClassInv, TypeOK
<1>3. CASE RequeueBulk
  <2>1. cur \in Jobs /\ ClassOf[cur] = Bulk /\ queues[Bulk] \in Seq(Jobs)
    BY <1>3 DEF RequeueBulk, TypeOK, PcInv, IsGroup
  <2>2. \A i \in 1..Len(Append(queues[Bulk], cur)) : ClassOf[Append(queues[Bulk], cur)[i]] = Bulk
    BY <2>1, AppendQueue DEF ClassInv
  <2>3. queues' = [queues EXCEPT ![Bulk] = Append(queues[Bulk], cur)]
    BY <1>3 DEF RequeueBulk
  <2> QED  BY <2>2, <2>3 DEF ClassInv, TypeOK
<1>4. CASE FailQueued
  BY <1>4 DEF FailQueued, ClassInv
<1>5. ASSUME UNCHANGED queues PROVE ClassInv'
  BY <1>5 DEF ClassInv
<1>6. CASE Complete \/ CloseFailed
  BY <1>5, <1>6 DEF Complete, CloseFailed
<1> QED
  BY <1>1, <1>2, <1>3, <1>4, <1>5, <1>6, QueuesKept, Admission DEF Next, Caller, Run

\* Every step keeps the owners of devices alive.
LEMMA GroupStep ==
  ASSUME TypeOK, TypeOK', PcInv, ClassInv, GroupInv, [Next]_vars
  PROVE  GroupInv'
<1> USE WriterAssumption
<1>1. ASSUME NEW j \in Jobs, Appended(j) \/ Refused(j)
      PROVE  GroupInv'
  <2>1. CASE Refused(j)
    BY <2>1, GroupFrame DEF Refused
  <2>2. CASE Appended(j)
    <3>1. UNCHANGED <<active, cur, wpc>>
      BY <2>2 DEF Appended
    <3>2. \A x : Holds(queues[Bulk], x) => Holds(queues'[Bulk], x)
      <4>1. queues' = [queues EXCEPT ![ClassOf[j]] = Append(queues[ClassOf[j]], j)]
        BY <2>2 DEF Appended
      <4>2. /\ queues[Bulk] \in Seq(Jobs)
            /\ queues'[Bulk] = queues[Bulk] \/ queues'[Bulk] = Append(queues[Bulk], j)
        <5>1. queues \in [Classes -> Seq(Jobs)] /\ ClassOf[j] \in Classes /\ Bulk \in Classes
          BY DEF TypeOK
        <5>2. CASE ClassOf[j] = Bulk
          BY <4>1, <5>1, <5>2
        <5>3. CASE ClassOf[j] # Bulk
          BY <4>1, <5>1, <5>3
        <5> QED  BY <5>1, <5>2, <5>3
      <4>3. CASE queues'[Bulk] = queues[Bulk]
        BY <4>3
      <4>4. CASE queues'[Bulk] = Append(queues[Bulk], j)
        BY <4>2, <4>4, AppendHolds
      <4> QED  BY <4>2, <4>3, <4>4
    <3> QED  BY <3>1, <3>2 DEF GroupInv, ActiveGroupLive, HoldsDevice, Holds, IsGroup, Dev
  <2> QED  BY <1>1, <2>1, <2>2
<1>2. CASE PopControl \/ (\E k \in 0..3 : PopService(k)) \/ PopBulk
  <2>1. PICK c \in Classes : \E i \in 1..Len(queues[c]) : Take(c, i) /\ (c = Bulk => Eligible(i))
    BY <1>2, PopTakes
  <2>2. PICK i \in 1..Len(queues[c]) : Take(c, i) /\ (c = Bulk => Eligible(i))
    BY <2>1
  <2>3. IsGroup(queues[c][i]) => c = Bulk
    <3>1. queues[c] \in Seq(Jobs)
      BY DEF TypeOK
    <3>2. queues[c][i] \in Jobs /\ ClassOf[queues[c][i]] = c
      <4>1. queues[c][i] \in Jobs
        BY <3>1
      <4> QED  BY <4>1 DEF ClassInv
    <3> QED  BY <3>2 DEF IsGroup
  <2>4. wpc = "pop"
    BY <1>2, PopTakes
  <2> QED  BY <2>2, <2>3, <2>4, GroupTake
<1>3. CASE RequeueBulk
  <2>1. /\ cur \in Jobs /\ IsGroup(cur) /\ active[Dev(cur)] = cur
        /\ wpc' = "pop" /\ active' = active
    BY <1>3 DEF RequeueBulk, PcInv, GroupInv, HoldsDevice, TypeOK
  <2>2. queues[Bulk] \in Seq(Jobs) /\ queues'[Bulk] = Append(queues[Bulk], cur)
    BY <1>3 DEF RequeueBulk, TypeOK
  <2>3. \A x : Holds(queues[Bulk], x) \/ x = cur => Holds(queues'[Bulk], x)
    BY <2>1, <2>2, AppendHolds
  <2>4. HoldsDevice'
    BY <2>1 DEF HoldsDevice
  <2>5. ASSUME NEW d \in Devices, active[d] # NoJob
        PROVE  IsGroup(active[d]) /\ Dev(active[d]) = d /\ Holds(queues'[Bulk], active[d])
    <3>1. \/ cur = active[d]
          \/ Holds(queues[Bulk], active[d])
      BY <1>3, <2>5 DEF RequeueBulk, GroupInv, ActiveGroupLive, Holds
    <3> QED  BY <2>3, <2>5, <3>1 DEF GroupInv, ActiveGroupLive
  <2>6. ActiveGroupLive'
    BY <2>1, <2>5 DEF ActiveGroupLive, Holds, IsGroup, Dev
  <2> QED  BY <2>4, <2>6 DEF GroupInv
<1>4. CASE Complete
  <2>1. /\ wpc = "complete" /\ cur \in Jobs /\ Dev(cur) \in Devices
        /\ wpc' \in {"close", "pop"} /\ queues' = queues
    BY <1>4 DEF Complete, TypeOK, Dev
  <2>2. HoldsDevice'
    BY <2>1 DEF HoldsDevice
  <2>3. ASSUME NEW d \in Devices, active'[d] # NoJob
        PROVE  active'[d] = active[d] /\ active[d] # cur
    <3>1. CASE IsGroup(cur) /\ active[Dev(cur)] = cur
      <4>1. active' = [active EXCEPT ![Dev(cur)] = NoJob]
        BY <1>4, <3>1 DEF Complete, completeBulkGroup
      <4>2. d # Dev(cur) /\ active'[d] = active[d]
        BY <2>3, <4>1 DEF TypeOK
      <4> QED  BY <2>3, <4>2 DEF GroupInv, ActiveGroupLive
    <3>2. CASE ~(IsGroup(cur) /\ active[Dev(cur)] = cur)
      <4>1. active' = active
        BY <1>4, <3>2 DEF Complete, completeBulkGroup
      <4> QED  BY <2>3, <3>2, <4>1 DEF GroupInv, ActiveGroupLive
    <3> QED  BY <3>1, <3>2
  <2>4. ActiveGroupLive'
    BY <2>1, <2>3 DEF GroupInv, ActiveGroupLive, IsGroup, Dev
  <2> QED  BY <2>2, <2>4 DEF GroupInv
<1>5. CASE CloseFailed
  BY <1>5 DEF CloseFailed, GroupInv, ActiveGroupLive, HoldsDevice, IsGroup, Dev
<1>6. CASE FailQueued
  BY <1>6 DEF FailQueued, GroupInv, ActiveGroupLive, HoldsDevice, IsGroup, Dev
<1>7. ASSUME NEW j \in Jobs,
             Signal(j) \/ ReceiveDone(j) \/ GiveUp(j) \/ CancelHandle(j) \/ Expire(j) \/ Renew(j)
      PROVE  GroupInv'
  BY <1>7, GroupFrame DEF Signal, ReceiveDone, GiveUp, CancelHandle, Expire, Renew
<1>8. ASSUME NEW c \in Conns, CloseConn(c)
      PROVE  GroupInv'
  BY <1>8, GroupFrame DEF CloseConn
<1>9. ASSUME Close \/ TakeWake \/ PopNil \/ CommitIndex0 \/ SendFails \/ WriteFrame
             \/ WriteChunk \/ AbandonGroup \/ UNCHANGED vars
      PROVE  GroupInv'
  BY <1>9, GroupFrame
     DEF Close, TakeWake, PopNil, BulkTurn, CommitIndex0, SendFails, WriteFrame, WriteChunk,
         AbandonGroup, vars
<1> QED
  BY <1>1, <1>2, <1>3, <1>4, <1>5, <1>6, <1>7, <1>8, <1>9, Admission DEF Next, Caller, Run

\* A group never keeps its device once it has left the writer, so that no other
\* group of the device waits for one that is gone.
THEOREM GroupsSafe == Spec => []ActiveGroupLive
<1>1. Init => ClassInv /\ GroupInv
  BY DEF Init, ClassInv, GroupInv, ActiveGroupLive, HoldsDevice
<1>2. TypeOK /\ PcInv /\ [Next]_vars => TypeOK' /\ PcInv'
  BY TypeStep
<1>3. TypeOK /\ TypeOK' /\ PcInv /\ ClassInv /\ GroupInv /\ [Next]_vars => ClassInv' /\ GroupInv'
  BY ClassStep, GroupStep
<1>4. GroupInv => ActiveGroupLive
  BY DEF GroupInv
<1> QED  BY <1>1, <1>2, <1>3, <1>4, TypeInit, PTL DEF Spec

----------------------------------------------------------------------------
(* The wake channel and the end of run.                                    *)

\* Every step keeps the wake token, or the caller that brings it, with the work.
LEMMA WakeStep ==
  ASSUME TypeOK, TypeOK', ActiveGroupLive, NoLostWakeup, [Next]_vars
  PROVE  NoLostWakeup'
<1> USE DEF NoLostWakeup
<1>1. ASSUME NEW j \in Jobs, Appended(j) \/ Refused(j)
      PROVE  NoLostWakeup'
  <2>1. CASE Appended(j)
    BY <2>1 DEF Appended, TypeOK
  <2>2. CASE Refused(j)
    BY <2>2 DEF Refused, TypeOK, HasWork
  <2> QED  BY <1>1, <2>1, <2>2
<1>2. ASSUME NEW j \in Jobs, Signal(j)
      PROVE  NoLostWakeup'
  BY <1>2 DEF Signal
<1>3. ASSUME NEW j \in Jobs, ReceiveDone(j) \/ GiveUp(j) \/ Renew(j)
      PROVE  NoLostWakeup'
  BY <1>3 DEF ReceiveDone, GiveUp, Renew, TypeOK, HasWork
<1>4. ASSUME NEW j \in Jobs, CancelHandle(j) \/ Expire(j)
      PROVE  NoLostWakeup'
  BY <1>4 DEF CancelHandle, Expire, HasWork
<1>5. ASSUME NEW c \in Conns, CloseConn(c)
      PROVE  NoLostWakeup'
  BY <1>5 DEF CloseConn, HasWork
<1>6. CASE Close \/ UNCHANGED vars
  BY <1>6 DEF Close, vars, HasWork
<1>7. CASE PopNil
  <2>1. ~HasWork /\ queues' = queues
    BY <1>7, PopNilEmpty DEF PopNil
  <2> QED  BY <2>1 DEF HasWork
<1>8. ASSUME wpc' # "select" PROVE NoLostWakeup'
  BY <1>8
<1>9. CASE PopControl \/ (\E k \in 0..3 : PopService(k)) \/ PopBulk
  <2>1. PICK c \in Classes : \E i \in 1..Len(queues[c]) : Take(c, i)
    BY <1>9, PopTakes
  <2>2. wpc' # "select"
    BY <2>1 DEF Take
  <2> QED  BY <1>8, <2>2
<1>10. CASE TakeWake \/ FailQueued \/ CommitIndex0 \/ SendFails \/ WriteFrame \/ WriteChunk
            \/ AbandonGroup \/ RequeueBulk \/ Complete \/ CloseFailed
  <2>1. wpc' # "select"
    BY <1>10 DEF TakeWake, FailQueued, CommitIndex0, SendFails, WriteFrame, WriteChunk,
                 AbandonGroup, RequeueBulk, Complete, CloseFailed
  <2> QED  BY <1>8, <2>1
<1> QED
  BY <1>1, <1>2, <1>3, <1>4, <1>5, <1>6, <1>7, <1>9, <1>10, Admission DEF Next, Caller, Run

\* run never sleeps on queued work without a wake-up under way: the unlock before
\* the non-blocking send loses no job, and pop finds a job whenever one is queued.
THEOREM WakeupSafe == Spec => []NoLostWakeup
<1>1. Init => NoLostWakeup
  BY DEF Init, NoLostWakeup, HasWork
<1>2. TypeOK /\ TypeOK' /\ ActiveGroupLive /\ NoLostWakeup /\ [Next]_vars => NoLostWakeup'
  BY WakeStep
<1> QED  BY <1>1, <1>2, TypeCorrect, GroupsSafe, PTL DEF Spec

\* No step queues anything after failQueued.
LEMMA ExitStep ==
  ASSUME TypeOK, NothingAfterExit, [Next]_vars
  PROVE  NothingAfterExit'
<1> USE DEF NothingAfterExit
<1>1. ASSUME NEW j \in Jobs, Appended(j) \/ Refused(j)
      PROVE  NothingAfterExit'
  BY <1>1 DEF Appended, Refused, HasWork
<1>2. CASE FailQueued
  BY <1>2 DEF FailQueued, HasWork
<1>3. ASSUME UNCHANGED <<queues, wpc>>, stopped' \/ stopped' = stopped
      PROVE  NothingAfterExit'
  BY <1>3 DEF HasWork
<1>4. ASSUME NEW j \in Jobs,
             Signal(j) \/ ReceiveDone(j) \/ GiveUp(j) \/ CancelHandle(j) \/ Expire(j) \/ Renew(j)
      PROVE  NothingAfterExit'
  BY <1>3, <1>4 DEF Signal, ReceiveDone, GiveUp, CancelHandle, Expire, Renew
<1>5. ASSUME NEW c \in Conns, CloseConn(c)
      PROVE  NothingAfterExit'
  BY <1>3, <1>5 DEF CloseConn
<1>6. CASE Close \/ UNCHANGED vars
  BY <1>3, <1>6 DEF Close, vars
<1>7. CASE PopControl \/ (\E k \in 0..3 : PopService(k)) \/ PopBulk
  <2>1. PICK c \in Classes : \E i \in 1..Len(queues[c]) : Take(c, i)
    BY <1>7, PopTakes
  <2> QED  BY <2>1 DEF Take
<1>8. CASE TakeWake \/ PopNil \/ CommitIndex0 \/ SendFails \/ WriteFrame \/ WriteChunk
           \/ AbandonGroup \/ RequeueBulk \/ Complete \/ CloseFailed
  <2>1. wpc' # "exit"
    BY <1>8 DEF TakeWake, PopNil, CommitIndex0, SendFails, WriteFrame, WriteChunk,
                AbandonGroup, RequeueBulk, Complete, CloseFailed
  <2> QED  BY <2>1
<1> QED
  BY <1>1, <1>2, <1>4, <1>5, <1>6, <1>7, <1>8, Admission DEF Next, Caller, Run

\* No caller queues a job behind failQueued, where nobody would ever take it.
THEOREM ExitSafe == Spec => []NothingAfterExit
<1>1. Init => NothingAfterExit
  BY DEF Init, NothingAfterExit
<1>2. TypeOK /\ NothingAfterExit /\ [Next]_vars => NothingAfterExit'
  BY ExitStep
<1> QED  BY <1>1, <1>2, TypeCorrect, PTL DEF Spec

----------------------------------------------------------------------------
(* Cancel against commit, and the hole a failed send leaves.               *)

\* Every step keeps a cancelled group without a written chunk: the CAS of run
\* and that of Cancel exclude each other.
LEMMA HandleStep ==
  ASSUME TypeOK, TypeOK', PcInv, HandleInv, [Next]_vars
  PROVE  HandleInv'
<1> USE WriterAssumption DEF HandleInv, IsGroup
<1>1. ASSUME UNCHANGED <<nextIndex, handle>>,
             wpc' = "write" => UNCHANGED <<wpc, cur>>
      PROVE  HandleInv'
  BY <1>1
<1>2. ASSUME NEW j \in Jobs, Appended(j) \/ Refused(j)
      PROVE  HandleInv'
  BY <1>1, <1>2 DEF Appended, Refused
<1>3. ASSUME NEW j \in Jobs, Signal(j) \/ ReceiveDone(j) \/ GiveUp(j) \/ Expire(j)
      PROVE  HandleInv'
  BY <1>1, <1>3 DEF Signal, ReceiveDone, GiveUp, Expire
<1>4. ASSUME NEW j \in Jobs, CancelHandle(j)
      PROVE  HandleInv'
  <2>1. /\ UNCHANGED <<nextIndex, wpc, cur>>
        /\ handle' = [handle EXCEPT ![j] = Cancel(@)]
    BY <1>4 DEF CancelHandle, run, sched
  <2>2. ASSUME NEW k \in Jobs, handle[k] = "committed"
        PROVE  handle'[k] = "committed"
    <3>1. handle'[k] \in {handle[k], Cancel(handle[k])}
      BY <2>1 DEF TypeOK
    <3> QED  BY <2>2, <3>1 DEF Cancel
  <2>3. wpc = "write" => cur \in Jobs
    BY DEF TypeOK
  <2> QED  BY <2>1, <2>2, <2>3
<1>5. ASSUME NEW j \in Jobs, Renew(j)
      PROVE  HandleInv'
  BY <1>5 DEF Renew, TypeOK
<1>6. ASSUME NEW c \in Conns, CloseConn(c)
      PROVE  HandleInv'
  BY <1>1, <1>6 DEF CloseConn
<1>7. CASE FailQueued
  BY <1>7 DEF FailQueued, Cancel, TypeOK
<1>8. CASE PopControl \/ (\E k \in 0..3 : PopService(k)) \/ PopBulk
  <2>1. PICK c \in Classes : \E i \in 1..Len(queues[c]) : Take(c, i)
    BY <1>8, PopTakes
  <2>2. PICK i \in 1..Len(queues[c]) : Take(c, i)
    BY <2>1
  <2>3. /\ UNCHANGED <<nextIndex, handle>>
        /\ wpc' = "write" => ~IsGroup(cur') \/ nextIndex[cur'] # 0
    BY <2>2 DEF Take
  <2>4. cur' \in Jobs
    <3>1. queues[c] \in Seq(Jobs)
      BY DEF TypeOK
    <3> QED  BY <2>2, <3>1 DEF Take
  <2>5. nextIndex[cur'] \in Nat
    BY <2>4 DEF TypeOK
  <2> QED  BY <2>3, <2>4, <2>5
<1>9. CASE CommitIndex0
  <2>1. cur \in Jobs
    BY <1>9 DEF CommitIndex0, TypeOK
  <2>2. CASE handle[cur] = "active"
    <3>1. handle' = [handle EXCEPT ![cur] = "committed"] /\ UNCHANGED <<cur, nextIndex>>
      BY <1>9, <2>2 DEF CommitIndex0
    <3> QED  BY <2>1, <3>1 DEF TypeOK
  <2>3. CASE handle[cur] # "active"
    BY <1>1, <1>9, <2>3 DEF CommitIndex0
  <2> QED  BY <2>2, <2>3
<1>10. CASE WriteChunk
  <2>1. cur \in Jobs /\ handle[cur] = "committed"
    BY <1>10 DEF WriteChunk, TypeOK
  <2>2. /\ nextIndex' = [nextIndex EXCEPT ![cur] = nextIndex[cur] + 1]
        /\ handle' = handle /\ wpc' # "write"
    BY <1>10 DEF WriteChunk
  <2> QED  BY <2>1, <2>2 DEF TypeOK
<1>11. CASE Close \/ TakeWake \/ PopNil \/ SendFails \/ WriteFrame \/ AbandonGroup
            \/ RequeueBulk \/ Complete \/ CloseFailed \/ UNCHANGED vars
  BY <1>1, <1>11 DEF Close, TakeWake, PopNil, SendFails, WriteFrame, AbandonGroup,
                     RequeueBulk, Complete, CloseFailed, vars
<1> QED
  BY <1>2, <1>3, <1>4, <1>5, <1>6, <1>7, <1>8, <1>9, <1>10, <1>11, Admission
     DEF Next, Caller, Run

\* A cancel that succeeded is final: the group never has a chunk on the wire.
THEOREM CancelSafe == Spec => []CancelledNeverWritten
<1>1. Init => HandleInv
  BY DEF Init, HandleInv
<1>2. TypeOK /\ PcInv /\ [Next]_vars => TypeOK' /\ PcInv'
  BY TypeStep
<1>3. TypeOK /\ TypeOK' /\ PcInv /\ HandleInv /\ [Next]_vars => HandleInv'
  BY HandleStep
<1>4. TypeOK /\ HandleInv => CancelledNeverWritten
  <2> SUFFICES ASSUME TypeOK, HandleInv, NEW j \in Jobs, handle[j] = "cancelled"
               PROVE  nextIndex[j] = 0
    BY DEF CancelledNeverWritten
  <2>1. nextIndex[j] \in Nat /\ ~(nextIndex[j] > 0)
    BY DEF HandleInv, TypeOK
  <2> QED  BY <2>1
<1> QED  BY <1>1, <1>2, <1>3, <1>4, TypeInit, PTL DEF Spec

\* Every step keeps a connection with a used-up counter closed, or run on its way
\* to close it.
LEMMA HoleStep ==
  ASSUME TypeOK, PcInv, HoleClosesConnection, [Next]_vars
  PROVE  HoleClosesConnection'
<1> USE WriterAssumption DEF HoleClosesConnection
<1>1. ASSUME UNCHANGED burned, \A c \in Conns : closed[c] => closed'[c],
             failed => UNCHANGED <<wpc, cur, failed>>
      PROVE  HoleClosesConnection'
  BY <1>1
<1>2. ASSUME NEW j \in Jobs, Appended(j) \/ Refused(j)
      PROVE  HoleClosesConnection'
  BY <1>1, <1>2 DEF Appended, Refused
<1>3. ASSUME NEW j \in Jobs,
             Signal(j) \/ ReceiveDone(j) \/ GiveUp(j) \/ CancelHandle(j) \/ Expire(j) \/ Renew(j)
      PROVE  HoleClosesConnection'
  BY <1>1, <1>3 DEF Signal, ReceiveDone, GiveUp, CancelHandle, Expire, Renew
<1>4. ASSUME NEW c \in Conns, CloseConn(c)
      PROVE  HoleClosesConnection'
  BY <1>1, <1>4 DEF CloseConn, TypeOK
<1>5. CASE PopControl \/ (\E k \in 0..3 : PopService(k)) \/ PopBulk
  <2>1. wpc = "pop" /\ \E c \in Classes : \E i \in 1..Len(queues[c]) : Take(c, i)
    BY <1>5, PopTakes
  <2>2. ~failed /\ UNCHANGED <<burned, closed>>
    BY <2>1 DEF PcInv, Take
  <2> QED  BY <1>1, <2>2
<1>6. CASE TakeWake \/ FailQueued \/ PopNil \/ CommitIndex0 \/ WriteFrame \/ WriteChunk
           \/ AbandonGroup \/ RequeueBulk
  <2>1. ~failed /\ UNCHANGED <<burned, closed>>
    BY <1>6 DEF PcInv, TakeWake, FailQueued, PopNil, BulkTurn, CommitIndex0, WriteFrame,
                WriteChunk, AbandonGroup, RequeueBulk
  <2> QED  BY <1>1, <2>1
<1>7. CASE SendFails
  <2>1. cur \in Jobs /\ ConnOf[cur] \in Conns /\ ~failed
    BY <1>7 DEF SendFails, TypeOK, PcInv
  <2> QED  BY <1>7, <2>1 DEF SendFails, TypeOK
<1>8. CASE Complete
  <2>1. CASE failed
    BY <1>8, <2>1 DEF Complete
  <2>2. CASE ~failed
    BY <1>1, <1>8, <2>2 DEF Complete
  <2> QED  BY <2>1, <2>2
<1>9. CASE CloseFailed
  BY <1>9 DEF CloseFailed, TypeOK
<1>10. CASE Close \/ UNCHANGED vars
  BY <1>1, <1>10 DEF Close, vars
<1> QED
  BY <1>2, <1>3, <1>4, <1>5, <1>6, <1>7, <1>8, <1>9, <1>10, Admission DEF Next, Caller, Run

\* A counter that was used up without a frame never stays behind on a connection
\* that goes on: the writer closes it before it pops another job.
THEOREM HoleSafe == Spec => []HoleClosesConnection
<1>1. Init => HoleClosesConnection
  BY DEF Init, HoleClosesConnection
<1>2. TypeOK /\ PcInv /\ [Next]_vars => TypeOK' /\ PcInv'
  BY TypeStep
<1>3. TypeOK /\ PcInv /\ HoleClosesConnection /\ [Next]_vars => HoleClosesConnection'
  BY HoleStep
<1> QED  BY <1>1, <1>2, <1>3, TypeInit, PTL DEF Spec
----------------------------------------------------------------------------
(* The order of frames within a class.                                     *)

\* popClassLocked passes over frames of the device served last only, so that the
\* frame it takes is the first of its own device.
LEMMA PopsFirstOfDevice ==
  ASSUME TypeOK, PopControl \/ (\E k \in 0..3 : PopService(k)) \/ PopBulk
  PROVE  \E c \in Classes : \E i \in 1..Len(queues[c]) :
           /\ Take(c, i)
           /\ c # Bulk => \A k \in 1..(i - 1) : Dev(queues[c][k]) # Dev(queues[c][i])
<1>1. CASE PopControl
  <2>1. 1 \in 1..Len(queues[Control]) /\ Take(Control, 1)
    BY <1>1 DEF PopControl, TakeControl, TypeOK
  <2>2. \A k \in 1..(1 - 1) : Dev(queues[Control][k]) # Dev(queues[Control][1])
    OBVIOUS
  <2> QED  BY <2>1, <2>2
<1>2. ASSUME NEW k \in 0..3, PopService(k)
      PROVE  \E c \in Classes : \E i \in 1..Len(queues[c]) :
               /\ Take(c, i)
               /\ c # Bulk => \A m \in 1..(i - 1) : Dev(queues[c][m]) # Dev(queues[c][i])
  <2>1. (serviceCursor + k) % 4 \in 0..3
    BY DEF TypeOK
  <2>2. PICK c \in 1..3 : c = serviceOrder[(serviceCursor + k) % 4]
    BY <2>1 DEF serviceOrder
  <2>3. PICK i \in 1..Len(queues[c]) : IsPick(c, i) /\ Take(c, i)
    BY <1>2, <2>2 DEF PopService
  <2>4. ASSUME NEW m \in 1..(i - 1) PROVE Dev(queues[c][m]) # Dev(queues[c][i])
    BY <2>3, <2>4 DEF IsPick, OtherDevice
  <2> QED  BY <2>3, <2>4
<1>3. CASE PopBulk
  <2>1. PICK i \in 1..Len(queues[Bulk]) : Take(Bulk, i)
    BY <1>3 DEF PopBulk
  <2> QED  BY <2>1
<1> QED  BY <1>1, <1>2, <1>3

\* Within a class other than bulk no frame overtakes an earlier one of its own
\* device (DeviceFifo), for any number of devices.
THEOREM FifoSafe == Spec => DeviceFifo
<1> DEFINE InTurn(c) ==
      Len(queues'[c]) < Len(queues[c]) /\ wpc' # "exit" =>
        \E i \in 1..Len(queues[c]) :
          /\ queues'[c] = RemoveAt(queues[c], i)
          /\ cur' = queues[c][i]
          /\ \A k \in 1..(i - 1) : Dev(queues[c][k]) # Dev(queues[c][i])
<1>1. ASSUME TypeOK, [Next]_vars, NEW c \in Control..Normal PROVE InTurn(c)
  <2> USE <1>1, WriterAssumption
  <2>0. queues \in [Classes -> Seq(Jobs)] /\ c \in Classes /\ queues[c] \in Seq(Jobs)
    BY DEF TypeOK
  <2>1. ASSUME UNCHANGED queues PROVE InTurn(c)
    BY <2>0, <2>1
  <2>2. ASSUME NEW j \in Jobs, Appended(j) \/ Refused(j) PROVE InTurn(c)
    <3>1. CASE Refused(j)
      BY <2>1, <3>1 DEF Refused
    <3>2. CASE Appended(j)
      <4>1. queues' = [queues EXCEPT ![ClassOf[j]] = Append(queues[ClassOf[j]], j)]
        BY <3>2 DEF Appended
      <4>2. queues'[c] = queues[c] \/ queues'[c] = Append(queues[c], j)
        BY <2>0, <4>1
      <4>3. Len(Append(queues[c], j)) = Len(queues[c]) + 1 /\ Len(queues[c]) \in Nat
        BY <2>0, AppendQueue
      <4> QED  BY <4>2, <4>3
    <3> QED  BY <2>2, <3>1, <3>2
  <2>3. CASE PopControl \/ (\E k \in 0..3 : PopService(k)) \/ PopBulk
    <3>0. PICK b \in Classes : \E i \in 1..Len(queues[b]) :
            /\ Take(b, i)
            /\ b # Bulk => \A k \in 1..(i - 1) : Dev(queues[b][k]) # Dev(queues[b][i])
      BY <2>3, PopsFirstOfDevice
    <3>1. PICK i \in 1..Len(queues[b]) :
            /\ Take(b, i)
            /\ b # Bulk => \A k \in 1..(i - 1) : Dev(queues[b][k]) # Dev(queues[b][i])
      BY <3>0
    <3>2. queues' = [queues EXCEPT ![b] = RemoveAt(queues[b], i)] /\ cur' = queues[b][i]
      BY <3>1 DEF Take
    <3>3. CASE b = c
      <4>1. queues'[c] = RemoveAt(queues[c], i)
        BY <2>0, <3>2, <3>3
      <4>2. i \in 1..Len(queues[c]) /\ cur' = queues[c][i]
        BY <3>2, <3>3
      <4>3. \A k \in 1..(i - 1) : Dev(queues[c][k]) # Dev(queues[c][i])
        BY <3>1, <3>3
      <4> QED  BY <4>1, <4>2, <4>3
    <3>4. CASE b # c
      <4>1. queues'[c] = queues[c]
        BY <2>0, <3>2, <3>4
      <4> QED  BY <2>0, <4>1
    <3> QED  BY <3>3, <3>4
  <2>4. CASE RequeueBulk
    <3>1. queues'[c] = queues[c]
      BY <2>0, <2>4 DEF RequeueBulk
    <3> QED  BY <2>0, <3>1
  <2>5. CASE FailQueued
    BY <2>5 DEF FailQueued
  <2>6. CASE Complete \/ CloseFailed
    BY <2>1, <2>6 DEF Complete, CloseFailed
  <2> HIDE DEF InTurn
  <2> QED
    BY <2>1, <2>2, <2>3, <2>4, <2>5, <2>6, QueuesKept, Admission DEF Next, Caller, Run
<1>2. TypeOK /\ [Next]_vars => [\A c \in Control..Normal : InTurn(c)]_vars
  BY <1>1
<1> QED  BY <1>2, TypeCorrect, PTL DEF Spec, DeviceFifo
----------------------------------------------------------------------------
(* The chunks of a group on its connection.                                *)

\* A group is in one place of the bulk queue, or in run's hands, and its caller is
\* past admission: so a group's cursor has one writer.
OnceInv ==
  /\ \A i, k \in 1..Len(queues[Bulk]) :
       IsGroup(queues[Bulk][i]) /\ queues[Bulk][i] = queues[Bulk][k] => i = k
  /\ \A j \in Jobs : IsGroup(j) /\ Holds(queues[Bulk], j) => j # cur /\ phase[j] # "new"
  /\ cur \in Jobs /\ IsGroup(cur) => phase[cur] # "new"

\* The group has chunks left to write: it is queued, or in a turn of run.
Underway(j) ==
  \/ Holds(queues[Bulk], j)
  \/ cur = j /\ wpc \in {"commit", "write", "requeue"}

\* The next index of a group that has not been admitted is 0.  That of a group
\* under way is within its chunks; once it is above 0 the group owns its device, and
\* the chunk before it is the last on the connection.
CursorInv ==
  \A j \in Jobs : IsGroup(j) =>
    /\ phase[j] = "new" => nextIndex[j] = 0
    /\ Underway(j) =>
         /\ nextIndex[j] < ChunksOf[j]
         /\ nextIndex[j] > 0 =>
              /\ active[Dev(j)] = j
              /\ stream[ConnOf[j]] = <<j, nextIndex[j] - 1>>

\* The connection takes no more chunks: it is closed, run is about to close it, or
\* run has ended.
Ending(c) ==
  \/ closed[c]
  \/ failed /\ wpc \in {"complete", "close"} /\ ConnOf[cur] = c
  \/ wpc = "exit"

\* The last chunk on c is that of a group under way, which has the device.
Amid(c) ==
  LET j == stream[c][1]
  IN  /\ j \in Jobs /\ IsGroup(j) /\ ConnOf[j] = c
      /\ active[Dev(j)] = j /\ Underway(j) /\ nextIndex[j] = stream[c][2] + 1

\* A group whose last chunk is not on the connection yet is under way and has the
\* device, or the connection takes no more.
StreamInv ==
  \A c \in Conns :
    \/ stream[c][1] = NoJob
    \/ stream[c][1] \in Jobs /\ stream[c][2] + 1 = ChunksOf[stream[c][1]]
    \/ Ending(c)
    \/ Amid(c)

ChunkInv == OnceInv /\ CursorInv /\ StreamInv

\* What is queued for bulk after a step that queues a job or takes one.
LEMMA BulkQueue ==
  ASSUME TypeOK, NEW c \in Classes, NEW q \in Seq(Jobs), queues' = [queues EXCEPT ![c] = q]
  PROVE  queues'[Bulk] = IF c = Bulk THEN q ELSE queues[Bulk]
<1>1. queues \in [Classes -> Seq(Jobs)] /\ Bulk \in Classes
  BY DEF TypeOK
<1> QED  BY <1>1

\* A group that pop takes was queued for bulk, once, and is queued no more; every
\* other group stays where it was.
LEMMA GroupsTaken ==
  ASSUME TypeOK, ClassInv, OnceInv,
         NEW c \in Classes, NEW i \in 1..Len(queues[c]), Take(c, i)
  PROVE  /\ cur' \in Jobs /\ cur' = queues[c][i]
         /\ IsGroup(cur') => c = Bulk /\ Holds(queues[Bulk], cur') /\ ~Holds(queues'[Bulk], cur')
         /\ \A j \in Jobs : Holds(queues'[Bulk], j) => Holds(queues[Bulk], j)
         /\ \A j \in Jobs : IsGroup(j) /\ j # cur' /\ Holds(queues[Bulk], j)
              => Holds(queues'[Bulk], j)
         /\ \A m, k \in 1..Len(queues'[Bulk]) :
              IsGroup(queues'[Bulk][m]) /\ queues'[Bulk][m] = queues'[Bulk][k] => m = k
<1> USE WriterAssumption
<1> DEFINE q == queues[c]
           r == RemoveAt(q, i)
           b == queues[Bulk]
<1>1. q \in Seq(Jobs) /\ b \in Seq(Jobs)
  BY DEF TypeOK
<1>2. cur' = q[i] /\ q[i] \in Jobs
  <2>1. cur' = q[i]
    BY DEF Take
  <2> QED  BY <1>1, <2>1
<1>3. /\ r \in Seq(Jobs) /\ Len(r) = Len(q) - 1 /\ Len(q) \in Nat
      /\ \A k \in 1..(Len(q) - 1) : r[k] = IF k < i THEN q[k] ELSE q[k + 1]
  <2> HIDE DEF q
  <2>1. i \in 1..Len(q)
    BY DEF q
  <2>2. Len(q) \in Nat
    BY <1>1
  <2> QED  BY <1>1, <2>1, <2>2, RemoveAtQueue
<1>4. queues'[Bulk] = IF c = Bulk THEN r ELSE b
  <2>1. queues' = [queues EXCEPT ![c] = r]
    BY DEF Take
  <2> HIDE DEF q, r
  <2>2. r \in Seq(Jobs)
    BY <1>3
  <2> QED  BY <2>1, <2>2, BulkQueue
<1>5. CASE c # Bulk
  <2>1. queues'[Bulk] = b
    BY <1>4, <1>5
  <2>2. ~IsGroup(cur')
    <3>1. ClassOf[q[i]] = c
      BY DEF ClassInv
    <3> QED  BY <1>2, <1>5, <3>1 DEF IsGroup
  <2> QED  BY <1>2, <2>1, <2>2 DEF OnceInv
<1>6. CASE c = Bulk
  <2> HIDE DEF q, r, b
  <2>0. b = q /\ queues'[Bulk] = r /\ i \in 1..Len(q)
    BY <1>4, <1>6 DEF q, b
  <2>1. \A m, k \in 1..Len(q) : IsGroup(q[m]) /\ q[m] = q[k] => m = k
    BY <2>0 DEF OnceInv, b
  <2>2. \A k \in 1..Len(r) : \E m \in 1..Len(q) : m # i /\ r[k] = q[m]
    <3> TAKE k \in 1..Len(r)
    <3>1. CASE k < i
      <4>1. k \in 1..Len(q) /\ k # i /\ r[k] = q[k]
        BY <1>3, <2>0, <3>1
      <4> QED  BY <4>1
    <3>2. CASE ~(k < i)
      <4>1. k + 1 \in 1..Len(q) /\ k + 1 # i /\ r[k] = q[k + 1]
        BY <1>3, <2>0, <3>2
      <4> QED  BY <4>1
    <3> QED  BY <3>1, <3>2
  <2>3. IsGroup(q[i]) => ~Holds(r, q[i])
    BY <2>0, <2>1, <2>2 DEF Holds
  <2>4. \A x : Holds(r, x) => Holds(q, x)
    BY <2>2 DEF Holds
  <2>5. \A x : Holds(q, x) /\ x # q[i] => Holds(r, x)
    <3> HIDE DEF Holds
    <3>1. r = RemoveAt(q, i)
      BY DEF r
    <3> QED  BY <1>1, <2>0, <3>1, RemoveAtHolds
  <2>6. ASSUME NEW m \in 1..Len(r), NEW k \in 1..Len(r), IsGroup(r[m]), r[m] = r[k]
        PROVE  m = k
    <3>1. /\ m \in 1..(Len(q) - 1) /\ k \in 1..(Len(q) - 1)
          /\ m \in 1..Len(q) /\ k \in 1..Len(q) /\ m + 1 \in 1..Len(q) /\ k + 1 \in 1..Len(q)
      <4>1. Len(r) = Len(q) - 1 /\ Len(q) \in Nat
        BY <1>3
      <4> QED  BY <4>1
    <3>2. r[m] = (IF m < i THEN q[m] ELSE q[m + 1]) /\ r[k] = (IF k < i THEN q[k] ELSE q[k + 1])
      BY <1>3, <3>1
    <3>3. PICK a \in 1..Len(q), e \in 1..Len(q) :
            /\ a = IF m < i THEN m ELSE m + 1
            /\ e = IF k < i THEN k ELSE k + 1
      BY <3>1
    <3>4. r[m] = q[a] /\ r[k] = q[e]
      BY <3>2, <3>3
    <3>5. a = e
      BY <2>1, <2>6, <3>4
    <3> QED  BY <2>0, <3>3, <3>5
  <2>7. IsGroup(q[i]) => Holds(b, q[i])
    BY <2>0 DEF Holds
  <2>8. cur' \in Jobs /\ cur' = queues[c][i] /\ cur' = q[i]
    BY <1>2 DEF q
  <2> QED  BY <1>6, <2>0, <2>3, <2>4, <2>5, <2>6, <2>7, <2>8 DEF b
<1> QED  BY <1>5, <1>6

\* A job that is appended to the bulk queue is the only one to come; no group goes,
\* and one that was not queued before is queued once.
LEMMA GroupsAppended ==
  ASSUME NEW q \in Seq(Jobs), NEW x \in Jobs, IsGroup(x) => ~Holds(q, x),
         \A i, k \in 1..Len(q) : IsGroup(q[i]) /\ q[i] = q[k] => i = k
  PROVE  /\ Append(q, x) \in Seq(Jobs) /\ Holds(Append(q, x), x)
         /\ \A y : Holds(q, y) => Holds(Append(q, x), y)
         /\ \A y : Holds(Append(q, x), y) => y = x \/ Holds(q, y)
         /\ \A i, k \in 1..Len(Append(q, x)) :
              IsGroup(Append(q, x)[i]) /\ Append(q, x)[i] = Append(q, x)[k] => i = k
<1> DEFINE r == Append(q, x)
<1>1. /\ r \in Seq(Jobs) /\ Len(r) = Len(q) + 1 /\ Len(q) \in Nat
      /\ \A k \in 1..Len(q) : r[k] = q[k]
      /\ r[Len(q) + 1] = x
  BY AppendQueue
<1>2. Holds(r, x) /\ \A y : Holds(q, y) => Holds(r, y)
  BY AppendHolds
<1> HIDE DEF r
<1>3. \A k \in 1..Len(r) : k \in 1..Len(q) \/ k = Len(q) + 1
  BY <1>1
<1>4. \A y : Holds(r, y) => y = x \/ Holds(q, y)
  BY <1>1, <1>3 DEF Holds
<1>5. ASSUME NEW i \in 1..Len(r), NEW k \in 1..Len(r), IsGroup(r[i]), r[i] = r[k]
      PROVE  i = k
  <2>1. CASE i \in 1..Len(q) /\ k \in 1..Len(q)
    BY <1>1, <1>5, <2>1
  <2>2. CASE i = Len(q) + 1 /\ k = Len(q) + 1
    BY <2>2
  <2>3. CASE i \in 1..Len(q) /\ k = Len(q) + 1
    BY <1>1, <1>5, <2>3 DEF Holds
  <2>4. CASE i = Len(q) + 1 /\ k \in 1..Len(q)
    BY <1>1, <1>5, <2>4 DEF Holds
  <2> QED  BY <1>3, <2>1, <2>2, <2>3, <2>4
<1> QED  BY <1>1, <1>2, <1>4, <1>5 DEF r

\* A step that leaves the bulk queue and run's job alone, and starts no frame anew,
\* keeps every group in one place.
LEMMA OnceFrame ==
  ASSUME OnceInv, queues'[Bulk] = queues[Bulk], cur' = cur \/ cur' \notin Jobs,
         \A j \in Jobs : phase'[j] = "new" => phase[j] = "new"
  PROVE  OnceInv'
<1>1. \A j \in Jobs : Holds(queues'[Bulk], j) <=> Holds(queues[Bulk], j)
  BY DEF Holds
<1>2. \A j : IsGroup(j)' <=> IsGroup(j)
  BY DEF IsGroup
<1> QED  BY <1>1, <1>2 DEF OnceInv, Holds, IsGroup

\* Every step keeps a group in one place.
LEMMA OnceStep ==
  ASSUME TypeOK, ClassInv, PcInv, OnceInv, [Next]_vars
  PROVE  OnceInv'
<1> USE WriterAssumption
<1>0. queues[Bulk] \in Seq(Jobs) /\ NoJob \notin Jobs
  BY DEF TypeOK
<1>1. ASSUME NEW j \in Jobs, Appended(j) \/ Refused(j)
      PROVE  OnceInv'
  <2>1. CASE Refused(j)
    BY <2>1, OnceFrame DEF Refused, TypeOK
  <2>2. CASE Appended(j)
    <3>1. /\ UNCHANGED cur /\ phase[j] = "new"
          /\ phase' = [phase EXCEPT ![j] = "signal"]
          /\ queues' = [queues EXCEPT ![ClassOf[j]] = Append(queues[ClassOf[j]], j)]
      BY <2>2 DEF Appended
    <3>2. phase'[j] # "new" /\ \A k \in Jobs : phase'[k] = "new" => phase[k] = "new"
      BY <3>1 DEF TypeOK
    <3>3. CASE ClassOf[j] # Bulk
      <4>1. queues'[Bulk] = queues[Bulk]
        BY <3>1, <3>3 DEF TypeOK
      <4> QED  BY <3>1, <3>2, <4>1, OnceFrame
    <3>4. CASE ClassOf[j] = Bulk
      <4>1. queues'[Bulk] = Append(queues[Bulk], j)
        BY <3>1, <3>4 DEF TypeOK
      <4>2. IsGroup(j) => ~Holds(queues[Bulk], j) /\ j # cur
        BY <3>1 DEF OnceInv
      <4>3. \A i, k \in 1..Len(queues[Bulk]) :
              IsGroup(queues[Bulk][i]) /\ queues[Bulk][i] = queues[Bulk][k] => i = k
        BY DEF OnceInv
      <4>4. /\ \A y : Holds(queues'[Bulk], y) => y = j \/ Holds(queues[Bulk], y)
            /\ \A i, k \in 1..Len(queues'[Bulk]) :
                 IsGroup(queues'[Bulk][i]) /\ queues'[Bulk][i] = queues'[Bulk][k] => i = k
        BY <1>0, <4>1, <4>2, <4>3, GroupsAppended, ZenonT(60)
      <4>5. \A k \in Jobs : IsGroup(k) /\ Holds(queues'[Bulk], k) => k # cur' /\ phase'[k] # "new"
        BY <3>1, <3>2, <4>2, <4>4 DEF OnceInv
      <4>6. cur' \in Jobs /\ IsGroup(cur') => phase'[cur'] # "new"
        BY <3>1, <3>2 DEF OnceInv
      <4> QED  BY <4>4, <4>5, <4>6 DEF OnceInv, Holds, IsGroup
    <3> QED  BY <3>3, <3>4
  <2> QED  BY <1>1, <2>1, <2>2
<1>2. CASE PopControl \/ (\E k \in 0..3 : PopService(k)) \/ PopBulk
  <2>1. PICK c \in Classes : \E i \in 1..Len(queues[c]) : Take(c, i)
    BY <1>2, PopTakes
  <2>2. PICK i \in 1..Len(queues[c]) : Take(c, i)
    BY <2>1
  <2>3. phase' = phase
    BY <2>2 DEF Take
  <2>4. /\ IsGroup(cur') => c = Bulk /\ Holds(queues[Bulk], cur') /\ ~Holds(queues'[Bulk], cur')
        /\ \A j \in Jobs : Holds(queues'[Bulk], j) => Holds(queues[Bulk], j)
        /\ \A m, k \in 1..Len(queues'[Bulk]) :
             IsGroup(queues'[Bulk][m]) /\ queues'[Bulk][m] = queues'[Bulk][k] => m = k
    BY <2>2, GroupsTaken
  <2>5. \A k \in Jobs : IsGroup(k) /\ Holds(queues'[Bulk], k) => k # cur' /\ phase'[k] # "new"
    BY <2>3, <2>4 DEF OnceInv
  <2>6. cur' \in Jobs /\ IsGroup(cur') => phase'[cur'] # "new"
    BY <2>3, <2>4 DEF OnceInv
  <2> QED  BY <2>4, <2>5, <2>6 DEF OnceInv, Holds, IsGroup
<1>3. CASE RequeueBulk
  <2>1. /\ cur \in Jobs /\ IsGroup(cur) /\ phase[cur] # "new" /\ phase' = phase /\ cur' = NoJob
        /\ queues'[Bulk] = Append(queues[Bulk], cur)
    BY <1>3 DEF RequeueBulk, TypeOK, PcInv, OnceInv
  <2>2. ~Holds(queues[Bulk], cur)
    BY <2>1 DEF OnceInv
  <2>3. \A i, k \in 1..Len(queues[Bulk]) :
          IsGroup(queues[Bulk][i]) /\ queues[Bulk][i] = queues[Bulk][k] => i = k
    BY DEF OnceInv
  <2>4. /\ \A y : Holds(queues'[Bulk], y) => y = cur \/ Holds(queues[Bulk], y)
        /\ \A i, k \in 1..Len(queues'[Bulk]) :
             IsGroup(queues'[Bulk][i]) /\ queues'[Bulk][i] = queues'[Bulk][k] => i = k
    BY <1>0, <2>1, <2>2, <2>3, GroupsAppended, ZenonT(60)
  <2>5. \A k \in Jobs : IsGroup(k) /\ Holds(queues'[Bulk], k) => k # cur' /\ phase'[k] # "new"
    BY <1>0, <2>1, <2>4 DEF OnceInv
  <2>6. cur' \notin Jobs
    BY <1>0, <2>1
  <2> QED  BY <2>4, <2>5, <2>6 DEF OnceInv, Holds, IsGroup
<1>4. CASE FailQueued
  <2>1. queues'[Bulk] = <<>> /\ cur' = NoJob
    BY <1>4 DEF FailQueued, TypeOK
  <2>2. Len(queues'[Bulk]) = 0
    BY <2>1
  <2> QED  BY <1>0, <2>1, <2>2 DEF OnceInv, Holds
<1>5. ASSUME NEW j \in Jobs, Renew(j)
      PROVE  OnceInv'
  <2>1. /\ UNCHANGED <<queues, cur>> /\ ~Queued(j) /\ cur # j
        /\ phase' = [phase EXCEPT ![j] = "new"]
    BY <1>5 DEF Renew
  <2>2. ~Holds(queues[Bulk], j)
    BY <2>1 DEF Queued, Holds
  <2>3. \A k \in Jobs : k # j => phase'[k] = phase[k]
    BY <2>1 DEF TypeOK
  <2> QED  BY <2>1, <2>2, <2>3 DEF OnceInv, Holds, IsGroup
<1>6. CASE Complete \/ CloseFailed
  <2>1. UNCHANGED <<queues, phase>> /\ (cur' = cur \/ cur' = NoJob)
    BY <1>6 DEF Complete, CloseFailed
  <2> QED  BY <1>0, <2>1, OnceFrame
<1>7. ASSUME NEW j \in Jobs,
             Signal(j) \/ ReceiveDone(j) \/ GiveUp(j) \/ CancelHandle(j) \/ Expire(j)
      PROVE  OnceInv'
  <2>1. UNCHANGED <<queues, cur>> /\ \A k \in Jobs : phase'[k] = "new" => phase[k] = "new"
    BY <1>7 DEF Signal, ReceiveDone, GiveUp, CancelHandle, Expire, TypeOK
  <2> QED  BY <2>1, OnceFrame
<1>8. ASSUME (\E c \in Conns : CloseConn(c)) \/ Close \/ TakeWake \/ PopNil \/ CommitIndex0
             \/ SendFails \/ WriteFrame \/ WriteChunk \/ AbandonGroup \/ UNCHANGED vars
      PROVE  OnceInv'
  <2>1. UNCHANGED <<queues, cur, phase>>
    BY <1>8 DEF CloseConn, Close, TakeWake, PopNil, CommitIndex0, SendFails, WriteFrame,
                WriteChunk, AbandonGroup, vars
  <2> QED  BY <2>1, OnceFrame
<1> QED
  BY <1>1, <1>2, <1>3, <1>4, <1>5, <1>6, <1>7, <1>8, Admission DEF Next, Caller, Run

\* No group comes under way, none loses its device, and no frame starts anew.
LEMMA CursorFrame ==
  ASSUME CursorInv, UNCHANGED <<nextIndex, stream>>,
         \A j \in Jobs : IsGroup(j) =>
           /\ Underway(j)' => Underway(j)
           /\ Underway(j) /\ active[Dev(j)] = j => active'[Dev(j)] = j
           /\ phase'[j] = "new" => phase[j] = "new"
  PROVE  CursorInv'
<1> SUFFICES ASSUME NEW j \in Jobs, IsGroup(j)
             PROVE  /\ phase'[j] = "new" => nextIndex'[j] = 0
                    /\ Underway(j)' =>
                         /\ nextIndex'[j] < ChunksOf[j]
                         /\ nextIndex'[j] > 0 =>
                              /\ active'[Dev(j)] = j
                              /\ stream'[ConnOf[j]] = <<j, nextIndex'[j] - 1>>
  BY DEF CursorInv, IsGroup, Dev
<1> QED  BY DEF CursorInv

\* Every step keeps the cursor of a group under way at its last chunk.
LEMMA CursorStep ==
  ASSUME TypeOK, ClassInv, PcInv, GroupInv, OnceInv, CursorInv, [Next]_vars
  PROVE  CursorInv'
<1> USE WriterAssumption
<1>0. queues[Bulk] \in Seq(Jobs) /\ NoJob \notin Jobs
  BY DEF TypeOK
<1>1. ASSUME NEW j \in Jobs, Appended(j) \/ Refused(j)
      PROVE  CursorInv'
  <2>1. CASE Refused(j)
    <3>1. /\ UNCHANGED <<nextIndex, stream, active, queues, cur, wpc>>
          /\ \A k \in Jobs : phase'[k] = "new" => phase[k] = "new"
      BY <2>1 DEF Refused, TypeOK
    <3> QED  BY <3>1, CursorFrame DEF Underway, Holds
  <2>2. CASE Appended(j)
    <3>1. /\ UNCHANGED <<nextIndex, stream, active, cur, wpc>> /\ phase[j] = "new"
          /\ queues' = [queues EXCEPT ![ClassOf[j]] = Append(queues[ClassOf[j]], j)]
          /\ \A k \in Jobs : phase'[k] = "new" => phase[k] = "new"
      BY <2>2 DEF Appended, TypeOK
    <3>2. CASE ~IsGroup(j) \/ ClassOf[j] # Bulk
      <4>1. \/ queues'[Bulk] = queues[Bulk]
            \/ ~IsGroup(j) /\ queues'[Bulk] = Append(queues[Bulk], j)
        <5>1. CASE ClassOf[j] = Bulk
          BY <3>1, <3>2, <5>1 DEF TypeOK
        <5>2. CASE ClassOf[j] # Bulk
          BY <3>1, <5>2 DEF TypeOK
        <5> QED  BY <5>1, <5>2
      <4>2. \A k \in Jobs : IsGroup(k) /\ Holds(queues'[Bulk], k) => Holds(queues[Bulk], k)
        <5>1. CASE queues'[Bulk] = queues[Bulk]
          BY <5>1
        <5>2. CASE ~IsGroup(j) /\ queues'[Bulk] = Append(queues[Bulk], j)
          <6>1. \A y : Holds(Append(queues[Bulk], j), y) => y = j \/ Holds(queues[Bulk], y)
            BY <1>0, <5>2, GroupsAppended DEF OnceInv
          <6> QED  BY <5>2, <6>1
        <5> QED  BY <4>1, <5>1, <5>2
      <4>3. \A k \in Jobs : IsGroup(k) => (Underway(k)' => Underway(k))
        BY <3>1, <4>2 DEF Underway, Holds
      <4> QED  BY <3>1, <4>3, CursorFrame
    <3>3. CASE IsGroup(j) /\ ClassOf[j] = Bulk
      <4>1. queues'[Bulk] = Append(queues[Bulk], j)
        BY <3>1, <3>3 DEF TypeOK
      <4>2. ~Holds(queues[Bulk], j)
        BY <3>1, <3>3 DEF OnceInv
      <4>3. \A y : Holds(queues'[Bulk], y) => y = j \/ Holds(queues[Bulk], y)
        BY <1>0, <4>1, <4>2, GroupsAppended, ZenonT(60) DEF OnceInv
      <4>4. \A k \in Jobs : Underway(k)' => k = j \/ Underway(k)
        BY <3>1, <4>3 DEF Underway, Holds
      <4>5. nextIndex[j] = 0 /\ ChunksOf[j] > 0
        BY <3>1, <3>3 DEF CursorInv, IsGroup
      <4>6. ASSUME NEW k \in Jobs, IsGroup(k)
            PROVE  /\ phase'[k] = "new" => nextIndex'[k] = 0
                   /\ Underway(k)' =>
                        /\ nextIndex'[k] < ChunksOf[k]
                        /\ nextIndex'[k] > 0 =>
                             /\ active'[Dev(k)] = k
                             /\ stream'[ConnOf[k]] = <<k, nextIndex'[k] - 1>>
        <5>1. CASE k = j
          BY <3>1, <4>5, <5>1
        <5>2. CASE k # j
          BY <3>1, <4>4, <4>6, <5>2 DEF CursorInv
        <5> QED  BY <5>1, <5>2
      <4> QED  BY <4>6 DEF CursorInv, IsGroup, Dev
    <3> QED  BY <3>2, <3>3
  <2> QED  BY <1>1, <2>1, <2>2
<1>2. CASE PopControl \/ (\E k \in 0..3 : PopService(k)) \/ PopBulk
  <2>1. PICK c \in Classes : \E i \in 1..Len(queues[c]) : Take(c, i)
    BY <1>2, PopTakes
  <2>2. PICK i \in 1..Len(queues[c]) : Take(c, i)
    BY <2>1
  <2>3. UNCHANGED <<phase, nextIndex, stream>>
    BY <2>2 DEF Take
  <2>4. /\ cur' \in Jobs /\ IsGroup(cur') => Holds(queues[Bulk], cur')
        /\ \A j \in Jobs : Holds(queues'[Bulk], j) => Holds(queues[Bulk], j)
    BY <2>2, GroupsTaken
  <2>5. \A j \in Jobs : IsGroup(j) => (Underway(j)' => Underway(j))
    BY <2>4 DEF Underway, Holds
  <2>6. ASSUME NEW j \in Jobs, active[Dev(j)] = j PROVE active'[Dev(j)] = j
    BY <1>0, <2>2, <2>6 DEF Take, TypeOK, Dev
  <2> QED  BY <2>3, <2>5, <2>6, CursorFrame
<1>3. CASE RequeueBulk
  <2>1. /\ cur \in Jobs /\ IsGroup(cur) /\ wpc = "requeue" /\ cur' = NoJob
        /\ UNCHANGED <<phase, nextIndex, stream, active>>
        /\ queues'[Bulk] = Append(queues[Bulk], cur)
    BY <1>3 DEF RequeueBulk, TypeOK, PcInv
  <2>2. ~Holds(queues[Bulk], cur)
    BY <2>1 DEF OnceInv
  <2>3. \A y : Holds(queues'[Bulk], y) => y = cur \/ Holds(queues[Bulk], y)
    BY <1>0, <2>1, <2>2, GroupsAppended DEF OnceInv
  <2>4. \A j \in Jobs : Underway(j)' => Underway(j)
    BY <1>0, <2>1, <2>3 DEF Underway, Holds
  <2> QED  BY <2>1, <2>4, CursorFrame
<1>4. CASE FailQueued
  <2>1. /\ queues'[Bulk] = <<>> /\ wpc' = "exit" /\ Len(queues'[Bulk]) = 0
        /\ UNCHANGED <<phase, nextIndex, stream, active>>
    BY <1>4 DEF FailQueued, TypeOK
  <2>2. \A j \in Jobs : ~Underway(j)'
    BY <2>1 DEF Underway, Holds
  <2> QED  BY <2>1, <2>2, CursorFrame
<1>5. ASSUME NEW j \in Jobs, Renew(j)
      PROVE  CursorInv'
  <2>1. /\ UNCHANGED <<queues, cur, wpc, active, stream>> /\ ~Queued(j) /\ cur # j
        /\ phase' = [phase EXCEPT ![j] = "new"]
        /\ nextIndex' = [nextIndex EXCEPT ![j] = 0]
    BY <1>5 DEF Renew
  <2>2. ~Holds(queues[Bulk], j)
    BY <2>1 DEF Queued, Holds
  <2>3. ~Underway(j)' /\ \A k \in Jobs : Underway(k)' => Underway(k)
    BY <2>1, <2>2 DEF Underway, Holds
  <2>4. /\ nextIndex'[j] = 0
        /\ \A k \in Jobs : k # j => phase'[k] = phase[k] /\ nextIndex'[k] = nextIndex[k]
    BY <2>1 DEF TypeOK
  <2>5. ASSUME NEW k \in Jobs, IsGroup(k)
        PROVE  /\ phase'[k] = "new" => nextIndex'[k] = 0
               /\ Underway(k)' =>
                    /\ nextIndex'[k] < ChunksOf[k]
                    /\ nextIndex'[k] > 0 =>
                         /\ active'[Dev(k)] = k
                         /\ stream'[ConnOf[k]] = <<k, nextIndex'[k] - 1>>
    <3>1. CASE k = j
      BY <2>3, <2>4, <3>1
    <3>2. CASE k # j
      BY <2>1, <2>3, <2>4, <2>5, <3>2 DEF CursorInv
    <3> QED  BY <3>1, <3>2
  <2> QED  BY <2>5 DEF CursorInv, IsGroup, Dev
<1>6. CASE WriteChunk
  <2>1. /\ cur \in Jobs /\ IsGroup(cur) /\ wpc = "write" /\ UNCHANGED <<queues, cur, phase, active>>
        /\ stream' = [stream EXCEPT ![ConnOf[cur]] = <<cur, nextIndex[cur]>>]
        /\ nextIndex' = [nextIndex EXCEPT ![cur] = nextIndex[cur] + 1]
        /\ wpc' = IF nextIndex'[cur] >= ChunksOf[cur] THEN "complete" ELSE "requeue"
    BY <1>6 DEF WriteChunk, TypeOK
  <2>2. /\ nextIndex'[cur] = nextIndex[cur] + 1 /\ nextIndex[cur] \in Nat /\ ChunksOf[cur] \in Nat
        /\ stream'[ConnOf[cur]] = <<cur, nextIndex[cur]>>
        /\ \A k \in Jobs : k # cur => nextIndex'[k] = nextIndex[k]
        /\ \A d \in Conns : d # ConnOf[cur] => stream'[d] = stream[d]
    BY <2>1 DEF TypeOK
  <2>3. active[Dev(cur)] = cur /\ phase[cur] # "new" /\ ~Holds(queues[Bulk], cur)
    BY <2>1 DEF GroupInv, HoldsDevice, OnceInv
  <2>4. ASSUME NEW k \in Jobs, IsGroup(k)
        PROVE  /\ phase'[k] = "new" => nextIndex'[k] = 0
               /\ Underway(k)' =>
                    /\ nextIndex'[k] < ChunksOf[k]
                    /\ nextIndex'[k] > 0 =>
                         /\ active'[Dev(k)] = k
                         /\ stream'[ConnOf[k]] = <<k, nextIndex'[k] - 1>>
    <3>1. CASE k = cur
      <4>1. Underway(k)' => nextIndex'[cur] < ChunksOf[cur]
        BY <2>1, <2>2, <2>3, <3>1 DEF Underway, Holds
      <4>2. nextIndex'[cur] - 1 = nextIndex[cur]
        BY <2>2
      <4> QED  BY <2>1, <2>2, <2>3, <3>1, <4>1, <4>2
    <3>2. CASE k # cur
      <4>1. Underway(k)' => Underway(k)
        BY <2>1, <3>2 DEF Underway, Holds
      <4>2. active[Dev(k)] = k => ConnOf[k] # ConnOf[cur]
        BY <2>3, <3>2 DEF Dev
      <4> QED  BY <2>1, <2>2, <2>4, <3>2, <4>1, <4>2 DEF CursorInv
    <3> QED  BY <3>1, <3>2
  <2> QED  BY <2>4 DEF CursorInv, IsGroup, Dev
<1>7. CASE Complete
  <2>1. /\ cur \in Jobs /\ wpc = "complete" /\ wpc' \in {"close", "pop"}
        /\ UNCHANGED <<queues, phase, nextIndex, stream>>
    BY <1>7 DEF Complete, TypeOK
  <2>2. \A j \in Jobs : Underway(j)' => Underway(j)
    BY <2>1 DEF Underway, Holds
  <2>3. ASSUME NEW j \in Jobs, IsGroup(j), Underway(j), active[Dev(j)] = j
        PROVE  active'[Dev(j)] = j
    <3>1. j # cur
      BY <2>1, <2>3 DEF Underway, OnceInv
    <3> QED  BY <1>7, <2>1, <2>3, <3>1 DEF Complete, completeBulkGroup, TypeOK
  <2> QED  BY <2>1, <2>2, <2>3, CursorFrame
<1>8. ASSUME NEW j \in Jobs,
             Signal(j) \/ ReceiveDone(j) \/ GiveUp(j) \/ CancelHandle(j) \/ Expire(j)
      PROVE  CursorInv'
  <2>1. /\ UNCHANGED <<queues, cur, wpc, nextIndex, stream, active>>
        /\ \A k \in Jobs : phase'[k] = "new" => phase[k] = "new"
    BY <1>8 DEF Signal, ReceiveDone, GiveUp, CancelHandle, Expire, TypeOK
  <2> QED  BY <2>1, CursorFrame DEF Underway, Holds
<1>9. ASSUME (\E c \in Conns : CloseConn(c)) \/ Close \/ TakeWake \/ PopNil \/ CommitIndex0
             \/ SendFails \/ WriteFrame \/ AbandonGroup \/ CloseFailed \/ UNCHANGED vars
      PROVE  CursorInv'
  <2>1. /\ UNCHANGED <<queues, phase, nextIndex, stream, active>>
        /\ \/ UNCHANGED <<cur, wpc>>
           \/ wpc' \notin {"commit", "write", "requeue"}
           \/ wpc = "commit" /\ cur' = cur
    BY <1>9 DEF CloseConn, Close, TakeWake, PopNil, CommitIndex0, SendFails, WriteFrame,
                AbandonGroup, CloseFailed, vars
  <2>2. \A j \in Jobs : Underway(j)' => Underway(j)
    BY <2>1 DEF Underway, Holds
  <2> QED  BY <2>1, <2>2, CursorFrame
<1> QED
  BY <1>1, <1>2, <1>3, <1>4, <1>5, <1>6, <1>7, <1>8, <1>9, Admission DEF Next, Caller, Run

\* No chunk is written, no end of a connection is taken back, and a group under way
\* with a written chunk stays so unless its connection takes no more.
LEMMA StreamFrame ==
  ASSUME TypeOK, StreamInv, UNCHANGED stream,
         \A c \in Conns : Ending(c) => Ending(c)',
         \A j \in Jobs : IsGroup(j) /\ Underway(j) /\ active[Dev(j)] = j /\ nextIndex[j] > 0 =>
           \/ Ending(ConnOf[j])'
           \/ Underway(j)' /\ active'[Dev(j)] = j /\ nextIndex'[j] = nextIndex[j]
  PROVE  StreamInv'
<1> SUFFICES ASSUME NEW c \in Conns, Amid(c) PROVE Ending(c)' \/ Amid(c)'
  BY DEF StreamInv
<1> DEFINE j == stream[c][1]
<1>1. stream[c][2] \in Nat
  BY DEF TypeOK
<1>2. /\ j \in Jobs /\ IsGroup(j) /\ ConnOf[j] = c /\ active[Dev(j)] = j /\ Underway(j)
      /\ nextIndex[j] = stream[c][2] + 1
  BY DEF Amid
<1>3. nextIndex[j] > 0
  BY <1>1, <1>2
<1>4. CASE Ending(ConnOf[j])'
  BY <1>2, <1>4 DEF Ending
<1>5. CASE Underway(j)' /\ active'[Dev(j)] = j /\ nextIndex'[j] = nextIndex[j]
  BY <1>2, <1>5 DEF Amid, Underway, IsGroup, Dev
<1> QED  BY <1>2, <1>3, <1>4, <1>5

\* Every step keeps the group at the end of a connection's stream under way, or the
\* connection from taking more.
LEMMA StreamStep ==
  ASSUME TypeOK, ClassInv, PcInv, GroupInv, OnceInv, CursorInv, StreamInv, [Next]_vars
  PROVE  StreamInv'
<1> USE WriterAssumption
<1>0. queues[Bulk] \in Seq(Jobs) /\ NoJob \notin Jobs
  BY DEF TypeOK
<1>1. ASSUME NEW j \in Jobs, Appended(j) \/ Refused(j)
      PROVE  StreamInv'
  <2>1. UNCHANGED <<nextIndex, stream, active, cur, wpc, closed, failed>>
    BY <1>1 DEF Appended, Refused
  <2>2. \A y : Holds(queues[Bulk], y) => Holds(queues'[Bulk], y)
    <3>1. queues'[Bulk] = queues[Bulk] \/ queues'[Bulk] = Append(queues[Bulk], j)
      <4>1. CASE Refused(j)
        BY <4>1 DEF Refused
      <4>2. CASE Appended(j)
        <5>1. queues' = [queues EXCEPT ![ClassOf[j]] = Append(queues[ClassOf[j]], j)]
          BY <4>2 DEF Appended
        <5>2. CASE ClassOf[j] = Bulk
          BY <5>1, <5>2 DEF TypeOK
        <5>3. CASE ClassOf[j] # Bulk
          BY <5>1, <5>3 DEF TypeOK
        <5> QED  BY <5>2, <5>3
      <4> QED  BY <1>1, <4>1, <4>2
    <3>2. \A y : Holds(queues[Bulk], y) => Holds(Append(queues[Bulk], j), y)
      BY <1>0, AppendHolds
    <3> QED  BY <3>1, <3>2
  <2>3. \A k \in Jobs : Underway(k) => Underway(k)'
    BY <2>1, <2>2 DEF Underway, Holds
  <2>4. \A c \in Conns : Ending(c) => Ending(c)'
    BY <2>1 DEF Ending
  <2> QED  BY <2>1, <2>3, <2>4, StreamFrame
<1>2. CASE PopControl \/ (\E k \in 0..3 : PopService(k)) \/ PopBulk
  <2>1. wpc = "pop" /\ \E c \in Classes : \E i \in 1..Len(queues[c]) : Take(c, i)
    BY <1>2, PopTakes
  <2>2. PICK c \in Classes : \E i \in 1..Len(queues[c]) : Take(c, i)
    BY <2>1
  <2>3. PICK i \in 1..Len(queues[c]) : Take(c, i)
    BY <2>2
  <2>4. UNCHANGED <<nextIndex, stream, closed>> /\ wpc' \in {"commit", "write"}
    BY <2>3 DEF Take
  <2>5. \A j \in Jobs : IsGroup(j) /\ j # cur' /\ Holds(queues[Bulk], j) => Holds(queues'[Bulk], j)
    BY <2>3, GroupsTaken
  <2>6. \A j \in Jobs : IsGroup(j) /\ Underway(j) => Underway(j)'
    BY <2>1, <2>4, <2>5 DEF Underway, Holds
  <2>7. ASSUME NEW j \in Jobs, active[Dev(j)] = j PROVE active'[Dev(j)] = j
    <3>1. active' = active \/ active' = [active EXCEPT ![Dev(queues[c][i])] = queues[c][i]]
      BY <2>3 DEF Take
    <3>2. active' # active => active[Dev(queues[c][i])] = NoJob
      BY <2>3 DEF Take
    <3>3. Dev(j) \in Devices
      BY DEF Dev
    <3> QED  BY <1>0, <2>7, <3>1, <3>2, <3>3 DEF TypeOK
  <2>8. \A d \in Conns : Ending(d) => Ending(d)'
    BY <2>1, <2>4 DEF Ending
  <2> QED  BY <2>4, <2>6, <2>7, <2>8, StreamFrame
<1>3. CASE RequeueBulk
  <2>1. /\ cur \in Jobs /\ wpc = "requeue" /\ ~failed
        /\ UNCHANGED <<nextIndex, stream, active, closed>>
        /\ queues'[Bulk] = Append(queues[Bulk], cur)
    BY <1>3 DEF RequeueBulk, TypeOK, PcInv
  <2>2. /\ Holds(queues'[Bulk], cur)
        /\ \A y : Holds(queues[Bulk], y) => Holds(queues'[Bulk], y)
    BY <1>0, <2>1, AppendHolds
  <2>3. \A j \in Jobs : Underway(j) => Underway(j)'
    BY <2>2 DEF Underway, Holds
  <2>4. \A c \in Conns : Ending(c) => Ending(c)'
    BY <2>1 DEF Ending
  <2> QED  BY <2>1, <2>3, <2>4, StreamFrame
<1>4. CASE FailQueued
  BY <1>4 DEF FailQueued, StreamInv, Ending
<1>5. ASSUME NEW j \in Jobs, Renew(j)
      PROVE  StreamInv'
  <2>1. /\ UNCHANGED <<queues, cur, wpc, active, stream, closed, failed>> /\ ~Queued(j) /\ cur # j
        /\ nextIndex' = [nextIndex EXCEPT ![j] = 0]
    BY <1>5 DEF Renew
  <2>2. ~Underway(j)
    BY <2>1 DEF Queued, Holds, Underway
  <2>3. \A k \in Jobs : Underway(k) => Underway(k)' /\ nextIndex'[k] = nextIndex[k]
    BY <2>1, <2>2 DEF Underway, Holds, TypeOK
  <2>4. \A c \in Conns : Ending(c) => Ending(c)'
    BY <2>1 DEF Ending
  <2> QED  BY <2>1, <2>3, <2>4, StreamFrame
<1>6. CASE CommitIndex0
  <2>1. /\ cur \in Jobs /\ nextIndex[cur] = 0 /\ ~failed /\ wpc = "commit"
        /\ UNCHANGED <<queues, cur, active, nextIndex, stream, closed>>
    BY <1>6 DEF CommitIndex0, TypeOK, PcInv
  <2>2. \A j \in Jobs : Underway(j) /\ nextIndex[j] > 0 => Underway(j)'
    BY <2>1 DEF Underway, Holds
  <2>3. \A c \in Conns : Ending(c) => Ending(c)'
    BY <2>1 DEF Ending
  <2> QED  BY <2>1, <2>2, <2>3, StreamFrame
<1>7. CASE SendFails \/ WriteFrame \/ AbandonGroup
  <2>1. /\ cur \in Jobs /\ ~failed /\ wpc = "write" /\ wpc' = "complete"
        /\ UNCHANGED <<queues, cur, active, nextIndex, stream, closed>>
    BY <1>7 DEF SendFails, WriteFrame, AbandonGroup, TypeOK, PcInv
  <2>2. IsGroup(cur) /\ nextIndex[cur] > 0 => closed[ConnOf[cur]] \/ failed'
    BY <1>7 DEF SendFails, WriteFrame, AbandonGroup
  <2>3. \A j \in Jobs : IsGroup(j) /\ Underway(j) /\ nextIndex[j] > 0 =>
          Underway(j)' \/ Ending(ConnOf[j])'
    BY <2>1, <2>2 DEF Underway, Holds, Ending
  <2>4. \A c \in Conns : Ending(c) => Ending(c)'
    BY <2>1 DEF Ending
  <2> QED  BY <2>1, <2>3, <2>4, StreamFrame
<1>8. CASE WriteChunk
  <2>1. /\ cur \in Jobs /\ IsGroup(cur) /\ wpc = "write" /\ ~failed
        /\ UNCHANGED <<queues, cur, active, closed, failed>>
        /\ stream' = [stream EXCEPT ![ConnOf[cur]] = <<cur, nextIndex[cur]>>]
        /\ nextIndex' = [nextIndex EXCEPT ![cur] = nextIndex[cur] + 1]
        /\ wpc' = IF nextIndex'[cur] >= ChunksOf[cur] THEN "complete" ELSE "requeue"
    BY <1>8 DEF WriteChunk, TypeOK, PcInv
  <2>2. /\ nextIndex'[cur] = nextIndex[cur] + 1 /\ nextIndex[cur] \in Nat /\ ChunksOf[cur] \in Nat
        /\ stream'[ConnOf[cur]] = <<cur, nextIndex[cur]>>
        /\ \A k \in Jobs : k # cur => nextIndex'[k] = nextIndex[k]
        /\ \A d \in Conns : d # ConnOf[cur] => stream'[d] = stream[d]
    BY <2>1 DEF TypeOK
  <2>3. active[Dev(cur)] = cur /\ nextIndex[cur] < ChunksOf[cur]
    BY <2>1 DEF GroupInv, HoldsDevice, CursorInv, Underway
  <2>4. ASSUME NEW c \in Conns
        PROVE  \/ stream'[c][1] = NoJob
               \/ stream'[c][1] \in Jobs /\ stream'[c][2] + 1 = ChunksOf[stream'[c][1]]
               \/ Ending(c)'
               \/ Amid(c)'
    <3>1. CASE c = ConnOf[cur]
      <4>1. stream'[c][1] = cur /\ stream'[c][2] = nextIndex[cur]
        BY <2>2, <3>1
      <4>2. CASE nextIndex'[cur] >= ChunksOf[cur]
        BY <2>1, <2>2, <2>3, <4>1, <4>2
      <4>3. CASE ~(nextIndex'[cur] >= ChunksOf[cur])
        BY <2>1, <2>2, <2>3, <3>1, <4>1, <4>3 DEF Amid, Underway, IsGroup, Dev
      <4> QED  BY <4>2, <4>3
    <3>2. CASE c # ConnOf[cur]
      <4>1. stream'[c] = stream[c] /\ (Ending(c) => Ending(c)')
        BY <2>1, <2>2, <3>2 DEF Ending
      <4>2. Amid(c) => Amid(c)'
        BY <2>1, <2>2, <3>2, <4>1 DEF Amid, Underway, Holds, IsGroup, Dev
      <4> QED  BY <4>1, <4>2 DEF StreamInv
    <3> QED  BY <3>1, <3>2
  <2> QED  BY <2>4 DEF StreamInv
<1>9. CASE Complete
  <2>1. /\ cur \in Jobs /\ wpc = "complete" /\ (failed => wpc' = "close" /\ cur' = cur)
        /\ UNCHANGED <<queues, nextIndex, stream, closed, failed>>
    BY <1>9 DEF Complete, TypeOK
  <2>2. \A j \in Jobs : Underway(j) => Underway(j)'
    BY <2>1 DEF Underway, Holds
  <2>3. ASSUME NEW j \in Jobs, IsGroup(j), Underway(j), active[Dev(j)] = j
        PROVE  active'[Dev(j)] = j
    <3>1. j # cur
      BY <2>1, <2>3 DEF Underway, OnceInv
    <3>2. \/ active' = active
          \/ active[Dev(cur)] = cur /\ active' = [active EXCEPT ![Dev(cur)] = NoJob]
      BY <1>9 DEF Complete, completeBulkGroup
    <3>3. Dev(j) \in Devices
      BY DEF Dev
    <3> QED  BY <2>3, <3>1, <3>2, <3>3 DEF TypeOK
  <2>4. \A c \in Conns : Ending(c) => Ending(c)'
    BY <2>1 DEF Ending
  <2> QED  BY <2>1, <2>2, <2>3, <2>4, StreamFrame
<1>10. CASE CloseFailed
  <2>1. /\ cur \in Jobs /\ wpc = "close" /\ closed' = [closed EXCEPT ![ConnOf[cur]] = TRUE]
        /\ UNCHANGED <<queues, active, nextIndex, stream>>
    BY <1>10 DEF CloseFailed, TypeOK
  <2>2. \A j \in Jobs : Underway(j) => Underway(j)'
    BY <2>1 DEF Underway, Holds
  <2>3. \A c \in Conns : Ending(c) => Ending(c)'
    BY <2>1 DEF Ending, TypeOK
  <2> QED  BY <2>1, <2>2, <2>3, StreamFrame
<1>11. ASSUME NEW j \in Jobs,
             Signal(j) \/ ReceiveDone(j) \/ GiveUp(j) \/ CancelHandle(j) \/ Expire(j)
      PROVE  StreamInv'
  <2>1. UNCHANGED <<queues, cur, wpc, nextIndex, stream, active, closed, failed>>
    BY <1>11 DEF Signal, ReceiveDone, GiveUp, CancelHandle, Expire
  <2> QED  BY <2>1, StreamFrame DEF Underway, Holds, Ending
<1>12. ASSUME (\E c \in Conns : CloseConn(c)) \/ Close \/ TakeWake \/ PopNil \/ UNCHANGED vars
      PROVE  StreamInv'
  <2>1. /\ UNCHANGED <<queues, cur, nextIndex, stream, active, failed>>
        /\ wpc' = wpc \/ (wpc \in {"select", "pop"} /\ wpc' \in {"select", "pop"})
        /\ \A c \in Conns : closed[c] => closed'[c]
    BY <1>12, ZenonT(60) DEF CloseConn, Close, TakeWake, PopNil, BulkTurn, vars, TypeOK
  <2>2. \A j \in Jobs : Underway(j) => Underway(j)'
    BY <2>1 DEF Underway, Holds
  <2>3. \A c \in Conns : Ending(c) => Ending(c)'
    BY <2>1 DEF Ending
  <2> QED  BY <2>1, <2>2, <2>3, StreamFrame
<1> QED
  BY <1>1, <1>2, <1>3, <1>4, <1>5, <1>6, <1>7, <1>8, <1>9, <1>10, <1>11, <1>12, Admission
     DEF Next, Caller, Run

\* The chunks of a group leave in order and nothing of another group comes between
\* them (ChunksInOrder), for any number of groups on any number of connections.
THEOREM ChunksSafe == Spec => ChunksInOrder
<1> DEFINE IInv == TypeOK /\ PcInv /\ ClassInv /\ GroupInv /\ ChunkInv
           NextChunk(c) ==
             stream'[c] # stream[c] =>
               LET last == stream[c]  new == stream'[c]
               IN  \/ new[2] = 0 /\ (last[1] = NoJob \/ last[2] + 1 = ChunksOf[last[1]])
                   \/ new[2] > 0 /\ last = <<new[1], new[2] - 1>>
<1>1. Init => IInv
  <2> SUFFICES ASSUME Init PROVE IInv
    OBVIOUS
  <2>1. TypeOK /\ PcInv
    BY TypeInit
  <2>2. ClassInv /\ GroupInv
    BY DEF Init, ClassInv, GroupInv, ActiveGroupLive, HoldsDevice
  <2>3. queues[Bulk] = <<>> /\ Len(queues[Bulk]) = 0 /\ cur = NoJob /\ NoJob \notin Jobs
    BY WriterAssumption DEF Init
  <2>4. OnceInv
    BY <2>3 DEF OnceInv, Holds
  <2>5. CursorInv
    BY <2>3 DEF Init, CursorInv, Underway, Holds
  <2>6. StreamInv
    BY DEF Init, StreamInv
  <2> QED  BY <2>1, <2>2, <2>4, <2>5, <2>6 DEF ChunkInv
<1>2. IInv /\ [Next]_vars => IInv'
  <2> SUFFICES ASSUME IInv, [Next]_vars PROVE IInv'
    OBVIOUS
  <2>1. TypeOK' /\ PcInv'
    BY TypeStep
  <2>2. ClassInv'
    BY ClassStep
  <2>3. GroupInv'
    BY <2>1, GroupStep
  <2>4. OnceInv' /\ CursorInv' /\ StreamInv'
    BY OnceStep, CursorStep, StreamStep DEF ChunkInv
  <2> QED  BY <2>1, <2>2, <2>3, <2>4 DEF ChunkInv
<1>3. ASSUME IInv, [Next]_vars, NEW c \in Conns PROVE NextChunk(c)
  <2> SUFFICES ASSUME stream'[c] # stream[c] PROVE NextChunk(c)
    OBVIOUS
  <2>1. WriteChunk
    BY <1>3
       DEF Next, Caller, Run, vars, Enqueue, AdmitBulk, Signal, ReceiveDone, GiveUp,
           Renew,
                CancelHandle, Expire, CloseConn, Close, TakeWake, FailQueued, PopControl,
                PopService, PopBulk, Take, PopNil, CommitIndex0, SendFails, WriteFrame,
                AbandonGroup, RequeueBulk, Complete, CloseFailed
  <2>2. /\ cur \in Jobs /\ IsGroup(cur) /\ wpc = "write" /\ ~closed[ConnOf[cur]] /\ ~failed
        /\ stream' = [stream EXCEPT ![ConnOf[cur]] = <<cur, nextIndex[cur]>>]
        /\ nextIndex[cur] \in Nat
    BY <1>3, <2>1 DEF WriteChunk, TypeOK, PcInv
  <2>3. c = ConnOf[cur] /\ stream'[c] = <<cur, nextIndex[cur]>>
    BY <1>3, <2>2, WriterAssumption DEF TypeOK
  <2>4. active[Dev(cur)] = cur /\ Underway(cur)
    BY <1>3, <2>2 DEF GroupInv, HoldsDevice, Underway
  <2>5. CASE nextIndex[cur] = 0
    <3>1. ~Ending(c)
      BY <2>2, <2>3 DEF Ending
    <3>2. ~Amid(c)
      <4> SUFFICES ASSUME Amid(c) PROVE FALSE
        OBVIOUS
      <4>1. stream[c][1] = cur /\ nextIndex[cur] = stream[c][2] + 1
        BY <2>3, <2>4 DEF Amid, Dev
      <4>2. stream[c][2] \in Nat
        BY <1>3 DEF TypeOK
      <4> QED  BY <2>5, <4>1, <4>2
    <3> QED  BY <1>3, <2>3, <2>5, <3>1, <3>2 DEF ChunkInv, StreamInv
  <2>6. CASE nextIndex[cur] > 0
    <3>1. stream[c] = <<cur, nextIndex[cur] - 1>>
      BY <1>3, <2>2, <2>3, <2>4, <2>6 DEF ChunkInv, CursorInv
    <3> QED  BY <2>3, <2>6, <3>1
  <2> QED  BY <2>2, <2>5, <2>6
<1>4. IInv /\ [Next]_vars => [\A c \in Conns : NextChunk(c)]_vars
  BY <1>3
<1> QED  BY <1>1, <1>2, <1>4, PTL DEF Spec, ChunksInOrder
=============================================================================

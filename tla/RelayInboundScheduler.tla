------------------------ MODULE RelayInboundScheduler ------------------------
(***************************************************************************)
(* The per-device executor of go-bridge/relay_inbound_scheduler.go.  The   *)
(* socket reader enqueues decrypted messages under their session's key;    *)
(* one goroutine (run) pops and dispatches them one at a time: the best    *)
(* class among the heads of the session queues, session after session      *)
(* within a class.  A new history read of a session replaces the ones that *)
(* still wait there.                                                       *)
(*                                                                         *)
(* Message identities are finite; Renew lets the device send a message of  *)
(* the same shape again.                                                   *)
(***************************************************************************)
EXTENDS Integers, Sequences, FiniteSets, SequencesExt

CONSTANTS
  Msgs, Keys, NoMsg,
  FifoKey,                 \* relayInboundDeviceFIFO: messages without a session
  KeyOf,                   \* relayInboundSessionKey(msg)
  ClassOf,                 \* control, request class or normal
  IsHistory,               \* a get_session_messages request
  BytesOf,
  QueueFramesCap, QueueBytesCap

ClassCount == 5

ASSUME SchedulerAssumption ==
  /\ NoMsg \notin Msgs
  /\ IsFiniteSet(Keys) /\ FifoKey \in Keys
  /\ KeyOf \in [Msgs -> Keys]
  /\ ClassOf \in [Msgs -> 0..(ClassCount - 1)]
  /\ IsHistory \in [Msgs -> BOOLEAN]
  /\ BytesOf \in [Msgs -> Nat]
  /\ QueueFramesCap \in Nat /\ QueueBytesCap \in Nat

VARIABLES
  queues,      \* [Keys -> Seq(Msgs)]
  keys,        \* the keys seen so far, in order; never shrinks
  cursor,
  frames, bytes,
  wake,        \* the one-slot wake channel holds a token
  stopped,     \* the stop channel is closed
  rpc,         \* where the run goroutine is
  running,     \* the message being dispatched
  signalling,  \* the reader has unlocked and not yet signalled
  sent         \* [Msgs -> BOOLEAN]: the device has sent the message

pending   == <<queues, keys, frames, bytes>>
executor  == <<cursor, rpc, running>>
schedVars == <<pending, executor, wake, stopped, signalling, sent>>

SchedInit ==
  /\ queues = [k \in Keys |-> <<>>]
  /\ keys = <<>> /\ cursor = 0
  /\ frames = 0 /\ bytes = 0
  /\ wake = FALSE /\ stopped = FALSE
  /\ rpc = "select" /\ running = NoMsg
  /\ signalling = FALSE
  /\ sent = [m \in Msgs |-> FALSE]

Waiting(m) == \E i \in 1..Len(queues[KeyOf[m]]) : queues[KeyOf[m]][i] = m
HasWork    == \E k \in Keys : queues[k] # <<>>

----------------------------------------------------------------------------
(* The reader.                                                             *)

\* Mutant: enqueueMessage does not look at stop.
Accepts_AfterStop(m) ==
  /\ frames + 1 <= QueueFramesCap
  /\ bytes + BytesOf[m] <= QueueBytesCap

Accepts(m) ==
  /\ ~stopped
  /\ frames + 1 <= QueueFramesCap
  /\ bytes + BytesOf[m] <= QueueBytesCap

\* Mutant: history reads without a session replace each other too.
Replaces_Any(m) == IsHistory[m]

\* m is a history read of a session, which makes the waiting ones obsolete.
Replaces(m) == IsHistory[m] /\ KeyOf[m] # FifoKey

\* The messages that m throws out of its queue.
Superseded(m) ==
  IF Replaces(m) THEN {x \in ToSet(queues[KeyOf[m]]) : IsHistory[x]} ELSE {}

SumBytes(S) == SumFunctionOnSet(BytesOf, S)

\* The loop over the old queue, which appends to kept what is not dropped.
Without(old, dropped) ==
  LET kept[i \in 0..Len(old)] ==
        IF i = 0 THEN <<>>
        ELSE IF old[i] \in dropped THEN kept[i - 1]
        ELSE Append(kept[i - 1], old[i])
  IN  kept[Len(old)]

\* Mutant: the frames of superseded messages stay counted.
Recount_Leak(m) ==
  /\ frames' = frames + 1
  /\ bytes' = bytes + BytesOf[m]

\* The counters after m came and what it supersedes went.
Recount(m) ==
  /\ frames' = frames + 1 - Cardinality(Superseded(m))
  /\ bytes' = bytes + BytesOf[m] - SumBytes(Superseded(m))

\* enqueueMessage accepts m, up to the unlock.
Admit(m) ==
  LET k == KeyOf[m]
  IN  /\ Accepts(m)
      /\ queues' = [queues EXCEPT ![k] =
                      Append(Without(@, Superseded(m)), m)]
      /\ keys' = IF k \in ToSet(keys) THEN keys ELSE Append(keys, k)
      /\ Recount(m)
      /\ signalling' = TRUE

\* enqueueMessage: the message is taken in, or refused (the reader then closes
\* the connection).  There is one reader, so it has signalled for the last one.
Enqueue(m) ==
  /\ ~sent[m] /\ ~signalling
  /\ Admit(m)
  /\ sent' = [sent EXCEPT ![m] = TRUE]
  /\ UNCHANGED <<executor, wake, stopped>>

Refuse(m) ==
  /\ ~sent[m] /\ ~signalling
  /\ ~Accepts(m)
  /\ sent' = [sent EXCEPT ![m] = TRUE]
  /\ UNCHANGED <<pending, executor, wake, stopped, signalling>>

\* The non-blocking send on wake, after the unlock.
Signal ==
  /\ signalling
  /\ wake' = TRUE
  /\ signalling' = FALSE
  /\ UNCHANGED <<pending, executor, stopped, sent>>

\* The device sends a message of this shape again.
Renew(m) ==
  /\ sent[m] /\ ~Waiting(m) /\ running # m
  /\ sent' = [sent EXCEPT ![m] = FALSE]
  /\ UNCHANGED <<pending, executor, wake, stopped, signalling>>

CloseScheduler ==
  /\ ~stopped
  /\ stopped' = TRUE
  /\ UNCHANGED <<pending, executor, wake, signalling, sent>>

----------------------------------------------------------------------------
(* The run goroutine.                                                      *)

\* The key that the offset-th probe of pop looks at.
Probe(offset) == keys[((cursor + offset) % Len(keys)) + 1]

HeadClass(k) == ClassOf[Head(queues[k])]

Ready(offset) == queues[Probe(offset)] # <<>>

\* The double loop of pop: the lowest class of any head, and within it the first
\* key from the cursor on.
IsNext(o) ==
  /\ Ready(o)
  /\ \A p \in 0..(Len(keys) - 1) :
       Ready(p) => \/ HeadClass(Probe(o)) < HeadClass(Probe(p))
                   \/ HeadClass(Probe(o)) = HeadClass(Probe(p)) /\ o <= p

\* Mutant: the cursor stays on the key that was served.
NextCursor_Stay(o) == (cursor + o) % Len(keys)

NextCursor(o) == (cursor + o + 1) % Len(keys)

Pop ==
  /\ rpc = "pop" /\ frames # 0
  /\ \E o \in 0..(Len(keys) - 1) :
       /\ IsNext(o)
       /\ LET k == Probe(o)
          IN  /\ running' = Head(queues[k])
              /\ queues' = [queues EXCEPT ![k] = Tail(@)]
              /\ bytes' = bytes - BytesOf[Head(queues[k])]
       /\ frames' = frames - 1
       /\ cursor' = NextCursor(o)
  /\ rpc' = "dispatch"
  /\ UNCHANGED <<keys, wake, stopped, signalling, sent>>

\* Mutant: pop does not look at the last key.
PopNone_OffByOne ==
  /\ rpc = "pop"
  /\ frames = 0 \/ \A o \in 0..(Len(keys) - 2) : ~Ready(o)
  /\ rpc' = "select"
  /\ UNCHANGED <<pending, cursor, running, wake, stopped, signalling, sent>>

\* pop finds nothing: it trusts frames, and looks at the keys it knows of.
PopNone ==
  /\ rpc = "pop"
  /\ frames = 0 \/ \A o \in 0..(Len(keys) - 1) : ~Ready(o)
  /\ rpc' = "select"
  /\ UNCHANGED <<pending, cursor, running, wake, stopped, signalling, sent>>

\* The handler returns.
Dispatched ==
  /\ rpc = "dispatch"
  /\ running' = NoMsg
  /\ rpc' = "pop"
  /\ UNCHANGED <<pending, cursor, wake, stopped, signalling, sent>>

TakeWake ==
  /\ rpc = "select" /\ wake
  /\ wake' = FALSE
  /\ rpc' = "pop"
  /\ UNCHANGED <<pending, cursor, running, stopped, signalling, sent>>

\* run returns; what is queued by then is dropped.
Exit ==
  /\ rpc = "select" /\ stopped
  /\ rpc' = "exit"
  /\ UNCHANGED <<pending, cursor, running, wake, stopped, signalling, sent>>

SchedRun == TakeWake \/ Exit \/ Pop \/ PopNone \/ Dispatched

SchedNext ==
  \/ \E m \in Msgs : Enqueue(m) \/ Refuse(m) \/ Renew(m)
  \/ Signal
  \/ CloseScheduler
  \/ SchedRun

SchedSpec == SchedInit /\ [][SchedNext]_schedVars

\* The goroutine scheduler runs the executor, the handlers it calls return, and
\* the reader that has unlocked goes on to signal.
SchedFairSpec == SchedSpec /\ WF_schedVars(SchedRun) /\ WF_schedVars(Signal)

----------------------------------------------------------------------------
(* Properties.                                                             *)

\* frames and bytes, on which enqueueMessage refuses and pop gives up at once,
\* are those of the queued messages, through supersession in the middle of a
\* queue as well as through pops.
QueueCounted ==
  /\ frames = SumFunctionOnSet([k \in Keys |-> Len(queues[k])], Keys)
  /\ bytes = SumBytes(UNION {ToSet(queues[k]) : k \in Keys})

\* No message of the device FIFO, and no message that is not a history read, ever
\* leaves its queue other than by being dispatched.
OnlyHistoryDropped ==
  [][\A m \in Msgs :
       Waiting(m) /\ ~Waiting(m)' =>
         running' = m \/ (IsHistory[m] /\ KeyOf[m] # FifoKey)]_schedVars

\* When run sleeps with work queued, a token is in the wake channel or the reader
\* is about to put one there.
WakeupKept == rpc = "select" /\ HasWork => wake \/ signalling

\* No session starves among others of its class: once the waiting messages are all
\* of one class, whatever keeps arriving, each is dispatched or superseded.  (A
\* better class may hold up the others for good.)
EachSessionServed ==
  <>[](\A m, n \in Msgs : Waiting(m) /\ Waiting(n) => ClassOf[m] = ClassOf[n]) =>
    \A m \in Msgs : Waiting(m) ~> (~Waiting(m) \/ rpc = "exit")

\* After close run dispatches what is queued and ends.
CloseEndsExecutor == stopped ~> rpc = "exit"
=============================================================================

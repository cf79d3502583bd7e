------------------------ MODULE RelayOfflineDelivery ------------------------
(***************************************************************************)
(* How a durable milestone of a session travels from the Mac to a phone    *)
(* that is not there: EventPublisher's offline queue and its goroutine     *)
(* runOffline, RelayEventRouter (relay_offline.go), the one-time delivery  *)
(* prekeys and epochs of PrekeyStore (relay_prekey.go), the bounded outbox *)
(* (relay_observation.go), the connection of RelayBridgeClient, and from   *)
(* there the relay server's mailbox, which is the module RelayMailboxStore *)
(* with the envelopes of this one.                                         *)
(*                                                                         *)
(* The Mac's state is memory: a restart of the bridge loses all of it. The *)
(* key of an epoch is fresh (an ephemeral key pair and a prekey), so an    *)
(* epoch is named by the boot and its index. Nothing in the program seals  *)
(* an epoch (SealEpoch has no caller), so the newest one stays active.     *)
(***************************************************************************)
EXTENDS RelayMailboxStore, Sequences

CONSTANTS
  Prekeys,         \* the phone's prekeys, in one batch per key
  LowWatermark,    \* prekeyLowWatermark
  MaxCount,        \* prekeyMaxCount
  OfflineCapacity, \* eventOutboundQueueCapacity, of the offline queue
  OutboxMaxFrames, \* outboxMaxFrames
  MaxPublished,    \* bound: milestones
  MaxBoots,        \* bound: starts of the bridge
  MaxPolls         \* bound: prekey status requests

ASSUME DeliveryAssumption ==
  /\ MaxCount \in Nat /\ LowWatermark \in Nat
  /\ OfflineCapacity \in Nat \ {0} /\ OutboxMaxFrames \in Nat \ {0}
  /\ MaxPublished \in Nat /\ MaxBoots \in Nat \ {0} /\ MaxPolls \in Nat

VARIABLES
  published,    \* milestones published so far, numbered from 1
  offlineQueue, \* EventPublisher.offlineQueue
  routing,      \* what runOffline works on
  prekeys,      \* PrekeyStore: [Devices -> set of [id, consumed]]
  epochs,       \* PrekeyStore: [Devices -> Seq([prekey, last])]
  urgentRefill, \* PrekeyStore: [Devices -> BOOLEAN]
  pendingSync,  \* devices PresentationManager has marked
  outbox,       \* OutboxManager: [Devices -> Seq(frames)]
  overflowed,   \* [Devices -> BOOLEAN]
  flusher,      \* who holds an outbox's lock in Flush: "none", "route", "connect"
  connFlush,    \* devices Connect's FlushRelayOutboxes has yet to flush
  link,         \* RelayBridgeClient.conn: a peer, or 0
  wire,         \* [Peers -> frames written and not yet read by the server]
  boots,        \* starts of the bridge
  polls         \* prekey status requests so far

queues   == <<published, offlineQueue, routing>>
keyStore == <<prekeys, epochs, urgentRefill, pendingSync, polls>>
outboxes == <<outbox, overflowed, flusher>>
client   == <<connFlush, link, wire>>
macVars  == <<queues, keyStore, outboxes, client, boots>>
deliveryVars == <<storeVars, macVars>>

Quiet == [ev |-> 0, route |-> {}, flush |-> {}]

NewMac ==
  /\ offlineQueue' = <<>> /\ routing' = Quiet
  /\ prekeys' = [d \in Devices |-> {}] /\ epochs' = [d \in Devices |-> <<>>]
  /\ urgentRefill' = [d \in Devices |-> FALSE] /\ pendingSync' = {}
  /\ outbox' = [d \in Devices |-> <<>>] /\ overflowed' = [d \in Devices |-> FALSE]
  /\ flusher' = [d \in Devices |-> "none"] /\ connFlush' = {} /\ link' = 0

DeliveryInit ==
  /\ StoreInit
  /\ published = 0 /\ offlineQueue = <<>> /\ routing = Quiet
  /\ prekeys = [d \in Devices |-> {}] /\ epochs = [d \in Devices |-> <<>>]
  /\ urgentRefill = [d \in Devices |-> FALSE] /\ pendingSync = {} /\ polls = 0
  /\ outbox = [d \in Devices |-> <<>>] /\ overflowed = [d \in Devices |-> FALSE]
  /\ flusher = [d \in Devices |-> "none"]
  /\ connFlush = {} /\ link = 0 /\ wire = [p \in Peers |-> <<>>]
  /\ boots = 1

-----------------------------------------------------------------------------
(* PrekeyStore. *)

Available(d) == {k \in prekeys[d] : ~k.consumed}

\* UploadPrekeys, a batch of one key. A batch that was taken already changes nothing;
\* one that holds a known key, or would pass the limit, is refused.
UploadPrekeys(d, id) ==
  /\ Cardinality(Available(d)) + 1 <= MaxCount
  /\ \A k \in prekeys[d] : k.id # id
  /\ prekeys' = [prekeys EXCEPT ![d] = @ \cup {[id |-> id, consumed |-> FALSE]}]
  /\ UNCHANGED <<storeVars, queues, epochs, urgentRefill, pendingSync, polls, outboxes, client, boots>>

\* GetPrekeyStatus reads the urgent mark and clears it, whoever asks: the phone over its
\* channel, or the management API for the Mac's own window.
GetPrekeyStatus(d) ==
  /\ polls < MaxPolls /\ polls' = polls + 1
  /\ urgentRefill' = [urgentRefill EXCEPT ![d] = FALSE]
  /\ UNCHANGED <<storeVars, queues, prekeys, epochs, pendingSync, outboxes, client, boots>>

Last(s) == s[Len(s)]

\* The epochs once a frame of d has its counter: of the active epoch, or of a new one
\* that takes the prekey k.
Opened(d, k) == Append(epochs[d], [prekey |-> k.id, last |-> 0])
Counted(es) == [es EXCEPT ![Len(es)].last = @ + 1]

-----------------------------------------------------------------------------
(* EventPublisher and RelayEventRouter. *)

\* publish, of a logical event with Offline set: a full queue takes nothing.
Publish ==
  /\ published < MaxPublished
  /\ published' = published + 1
  /\ offlineQueue' = IF Len(offlineQueue) < OfflineCapacity
                     THEN Append(offlineQueue, published') ELSE offlineQueue
  /\ UNCHANGED <<storeVars, routing, keyStore, outboxes, client, boots>>

\* runOffline takes the next milestone; routeRelayOfflineStampedEvent lists the devices.
TakeMilestone ==
  /\ routing = Quiet /\ offlineQueue # <<>>
  /\ routing' = [ev |-> Head(offlineQueue), route |-> Devices, flush |-> Devices]
  /\ offlineQueue' = Tail(offlineQueue)
  /\ UNCHANGED <<storeVars, published, keyStore, outboxes, client, boots>>

\* Mutant: the new frame goes before the ones that wait.
Enqueue_Front(d, frame) ==
  IF overflowed[d] \/ Len(outbox[d]) >= OutboxMaxFrames
  THEN overflowed' = [overflowed EXCEPT ![d] = TRUE] /\ UNCHANGED outbox
  ELSE outbox' = [outbox EXCEPT ![d] = <<frame>> \o @] /\ UNCHANGED overflowed

\* Enqueue: an outbox that has overflowed takes nothing until it is flushed.
Enqueue(d, frame) ==
  IF overflowed[d] \/ Len(outbox[d]) >= OutboxMaxFrames
  THEN overflowed' = [overflowed EXCEPT ![d] = TRUE] /\ UNCHANGED outbox
  ELSE outbox' = [outbox EXCEPT ![d] = Append(@, frame)] /\ UNCHANGED overflowed

\* The frame of milestone ev under the newest of the epochs es.
Sealed(ev, es) == [ev |-> ev, boot |-> boots, epoch |-> Len(es), counter |-> Last(es).last]

\* routeOfflineEvent for d: ReserveNextFrameCounter, the envelope, Enqueue.
RouteOfflineEvent(d) ==
  /\ d \in routing.route
  /\ routing' = [routing EXCEPT !.route = @ \ {d}]
  /\ flusher[d] = "none"
  /\ \/ /\ epochs[d] # <<>>
        /\ epochs' = [epochs EXCEPT ![d] = Counted(@)]
        /\ Enqueue(d, Sealed(routing.ev, epochs'[d]))
        /\ UNCHANGED <<prekeys, urgentRefill, pendingSync>>
     \/ /\ epochs[d] = <<>>                                    \* ConsumePrekey
        /\ \E k \in Available(d) :
             /\ prekeys' = [prekeys EXCEPT ![d] = (@ \ {k}) \cup {[k EXCEPT !.consumed = TRUE]}]
             /\ epochs' = [epochs EXCEPT ![d] = Counted(Opened(d, k))]
        /\ urgentRefill' = [urgentRefill EXCEPT ![d] = @ \/ Cardinality(Available(d)) - 1 < LowWatermark]
        /\ Enqueue(d, Sealed(routing.ev, epochs'[d]))
        /\ UNCHANGED pendingSync
     \/ /\ epochs[d] = <<>> /\ Available(d) = {}               \* prekey_exhausted
        /\ urgentRefill' = [urgentRefill EXCEPT ![d] = TRUE]
        /\ pendingSync' = pendingSync \cup {d}
        /\ UNCHANGED <<prekeys, epochs, outbox, overflowed>>
  /\ UNCHANGED <<storeVars, published, offlineQueue, polls, flusher, client, boots>>

-----------------------------------------------------------------------------
(* Flush, by runOffline after it has routed a milestone and by Connect. *)

BeginFlush(d, who) ==
  /\ flusher[d] = "none"
  /\ flusher' = [flusher EXCEPT ![d] = who]
  /\ UNCHANGED <<storeVars, queues, keyStore, outbox, overflowed, client, boots>>

RouteFlush(d) ==
  routing # Quiet /\ routing.route = {} /\ d \in routing.flush /\ BeginFlush(d, "route")

ConnectFlush(d) == d \in connFlush /\ BeginFlush(d, "connect")

\* Flush returns to its caller.
EndFlush(d) ==
  /\ flusher' = [flusher EXCEPT ![d] = "none"]
  /\ IF flusher[d] = "route"
     THEN /\ routing' = IF routing.flush = {d} THEN Quiet ELSE [routing EXCEPT !.flush = @ \ {d}]
          /\ UNCHANGED connFlush
     ELSE connFlush' = connFlush \ {d} /\ UNCHANGED routing

\* The write succeeds: the connection is set and not known to be broken.
CanWrite == link # 0 /\ peer[link] = "open"

\* Mutant: the frames that were sent are taken off only when all are.
FlushSend_Kept(d) ==
  /\ flusher[d] # "none" /\ outbox[d] # <<>> /\ CanWrite
  /\ wire' = [wire EXCEPT ![link] = Append(@, [dev |-> d, env |-> Head(outbox[d])])]
  /\ UNCHANGED <<storeVars, queues, keyStore, outboxes, connFlush, link, boots>>

\* A frame is written and leaves the outbox.
FlushSend(d) ==
  /\ flusher[d] # "none" /\ outbox[d] # <<>> /\ CanWrite
  /\ wire' = [wire EXCEPT ![link] = Append(@, [dev |-> d, env |-> Head(outbox[d])])]
  /\ outbox' = [outbox EXCEPT ![d] = Tail(@)]
  /\ UNCHANGED <<storeVars, queues, keyStore, overflowed, flusher, connFlush, link, boots>>

\* The write fails: what has not been sent stays.
FlushFails(d) ==
  /\ flusher[d] # "none" /\ outbox[d] # <<>> /\ ~CanWrite
  /\ EndFlush(d)
  /\ UNCHANGED <<storeVars, published, offlineQueue, keyStore, outbox, overflowed, link, wire, boots>>

\* Everything is sent.
FlushDone(d) ==
  /\ flusher[d] # "none" /\ outbox[d] = <<>>
  /\ overflowed' = [overflowed EXCEPT ![d] = FALSE]
  /\ EndFlush(d)
  /\ UNCHANGED <<storeVars, published, offlineQueue, keyStore, outbox, link, wire, boots>>

-----------------------------------------------------------------------------
(* RelayBridgeClient. *)

\* Mutant: a new connection does not flush the outboxes.
Connect_NoFlush(p) ==
  /\ link = 0 /\ connFlush = {}
  /\ BridgeConnects(p)
  /\ link' = p
  /\ UNCHANGED <<queues, keyStore, outboxes, connFlush, wire, boots>>

\* Connect: the handshake, c.conn, then FlushRelayOutboxes before the loops start.
Connect(p) ==
  /\ link = 0 /\ connFlush = {}
  /\ BridgeConnects(p)
  /\ link' = p
  /\ connFlush' = Devices
  /\ UNCHANGED <<queues, keyStore, outboxes, wire, boots>>

\* Run sees that the socket is gone and calls closeConn; readLoop, which is what sees
\* it, starts once Connect has flushed.
Disconnect ==
  /\ link # 0 /\ peer[link] = "closed" /\ connFlush = {}
  /\ link' = 0
  /\ UNCHANGED <<storeVars, queues, keyStore, outboxes, connFlush, wire, boots>>

\* The server's read loop takes the next frame of a socket.
ServerReads(p) ==
  /\ wire[p] # <<>>
  /\ ReadBridgeFrame(p, Head(wire[p]).dev, Head(wire[p]).env)
  /\ wire' = [wire EXCEPT ![p] = Tail(@)]
  /\ UNCHANGED <<queues, keyStore, outboxes, connFlush, link, boots>>

\* The network breaks a socket: what the server has not read of it is lost.
BreakSocket(p) ==
  /\ peer[p] = "open" /\ events < MaxEvents
  /\ events' = events + 1
  /\ peer' = [peer EXCEPT ![p] = "closed"]
  /\ UNCHANGED <<now, tables, call, inHand, phone, macVars>>

\* The bridge process stops and starts again; its memory is gone.
RestartBridge ==
  /\ boots < MaxBoots /\ boots' = boots + 1
  /\ NewMac
  /\ peer' = [p \in Peers |-> IF peer[p] = "open" THEN "closed" ELSE peer[p]]
  /\ UNCHANGED <<now, tables, call, inHand, phone, events, published, polls, wire>>

-----------------------------------------------------------------------------
\* The steps of the store that the Mac takes no part in.
ServerNext ==
  /\ \/ Tick \/ ExpireFrames \/ CrashServer
     \/ \E d \in Devices : RegisterDevice(d) \/ RevokeDevice(d)
     \/ \E p \in Peers : AppendFrame(p)
     \/ \E s \in Slots : DeviceNext(s)
  /\ UNCHANGED macVars

MacNext ==
  \/ Publish \/ TakeMilestone \/ Disconnect \/ RestartBridge
  \/ \E d \in Devices :
       \/ RouteOfflineEvent(d) \/ RouteFlush(d) \/ ConnectFlush(d)
       \/ FlushSend(d) \/ FlushFails(d) \/ FlushDone(d)
       \/ \E id \in Prekeys : UploadPrekeys(d, id)
       \/ GetPrekeyStatus(d)
  \/ \E p \in Peers : Connect(p) \/ ServerReads(p) \/ BreakSocket(p)

DeliveryNext == ServerNext \/ MacNext

\* The goroutines run, and Run dials again after a failure, as often as it takes.
DeliveryFairness ==
  /\ WF_deliveryVars(TakeMilestone) /\ WF_deliveryVars(Disconnect)
  /\ \A p \in Peers : WF_deliveryVars(Connect(p))
  /\ \A d \in Devices :
       /\ SF_deliveryVars(RouteOfflineEvent(d))
       /\ SF_deliveryVars(RouteFlush(d)) /\ SF_deliveryVars(ConnectFlush(d))
       /\ WF_deliveryVars(FlushSend(d) \/ FlushFails(d) \/ FlushDone(d))

DeliverySpec == DeliveryInit /\ [][DeliveryNext]_deliveryVars
FairDeliverySpec == DeliverySpec /\ DeliveryFairness

-----------------------------------------------------------------------------
(* Properties. *)

\* Where frames for d are: in its outbox, on a socket, in a read loop, in the mailbox.
Copies(d) ==
  {[at |-> <<"outbox", 0, i>>, env |-> outbox[d][i]] : i \in DOMAIN outbox[d]}
  \cup (UNION {{[at |-> <<"wire", p, i>>, env |-> wire[p][i].env] :
                  i \in {j \in DOMAIN wire[p] : wire[p][j].dev = d}} : p \in Peers})
  \cup {[at |-> <<"inHand", p, 1>>, env |-> inHand[p].env] :
           p \in {q \in Peers : inHand[q] # Nothing /\ inHand[q].dev = d}}
  \cup {[at |-> <<"mailbox", 0, f.cursor>>, env |-> f.env] : f \in frames[d]}

SameCounter(a, b) == a.boot = b.boot /\ a.epoch = b.epoch /\ a.counter = b.counter

\* A counter of an epoch's key seals one frame, and that frame is in one place: not when
\* Flush breaks off in the middle and another Flush takes over, not across reconnections
\* and restarts (ReserveNextFrameCounter, OutboxManager.Flush).
NoDuplicate ==
  \A d \in Devices : \A x, y \in Copies(d) : SameCounter(x.env, y.env) => x.at = y.at

\* Of two frames of one epoch, a was counted before b.
Older(a, b) == a.boot = b.boot /\ a.epoch = b.epoch => a.counter < b.counter

\* What waits in a device's outbox and on a socket is in the order the Mac counted it:
\* each frame's counter is above that of every earlier frame of the device and the epoch
\* (ReserveNextFrameCounter, Flush).
SentInOrder ==
  \A d \in Devices :
    /\ \A i, j \in DOMAIN outbox[d] : i < j => Older(outbox[d][i], outbox[d][j])
    /\ \A p \in Peers : \A i \in DOMAIN wire[p] : wire[p][i].dev = d =>
         /\ \A j \in DOMAIN wire[p] :
              i < j /\ wire[p][j].dev = d => Older(wire[p][i].env, wire[p][j].env)
         /\ \A j \in DOMAIN outbox[d] : Older(wire[p][i].env, outbox[d][j])

\* No frame is stranded: an outbox that holds frames is emptied, if sockets stop breaking
\* (Connect, FlushRelayOutboxes, routeRelayOfflineStampedEvent).
OutboxDrains ==
  \A d \in Devices : outbox[d] # <<>> ~> (outbox[d] = <<>> \/ \A p \in Peers : peer[p] = "closed")
=============================================================================

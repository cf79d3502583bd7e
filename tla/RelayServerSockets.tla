-------------------------- MODULE RelayServerSockets --------------------------
(***************************************************************************)
(* The sockets of one route of the relay server (relay-server/internal/    *)
(* relay/server.go): the maps bridges and devices under Server.mu, the     *)
(* handler goroutine of every websocket, the bounded send queue and the    *)
(* writer goroutine of every device socket, and the revocation handler.    *)
(*                                                                         *)
(* A handler is named by its peer. Only two things hold a peer's writeMu   *)
(* for longer than a step: the writer of a device socket and a device      *)
(* handler that forwards to the bridge; closePeer takes it, closes the     *)
(* connection and lets it go in one step, once it is free.                 *)
(***************************************************************************)
EXTENDS Integers, Sequences, SequencesExt, FiniteSets

CONSTANTS
  BridgePeers,  \* bridge sockets of the route
  DevicePeers,  \* device sockets of the route
  Devices,
  NoPeer,
  Dev,          \* [DevicePeers -> Devices]
  Frames,       \* 1..n, what the bridges send, in the order of their numbers
  SrcOf,        \* [Frames -> BridgePeers]
  DestOf,       \* [Frames -> Devices]
  KindOf,       \* [Frames -> Kinds]
  BytesOf,      \* [Frames -> Nat]
  QueueFramesCap,  \* perDeviceSendQueueFrames
  QueueBytesCap,   \* perDeviceSendQueueBytes
  MaxEvents        \* bound: websockets accepted and devices revoked

Peers == BridgePeers \cup DevicePeers
NoFrame == 0

\* A handshake response, an envelope of an online epoch, one of a mailbox epoch.
Kinds == {"hello", "online", "mailbox"}

ASSUME SocketsAssumption ==
  /\ IsFiniteSet(BridgePeers) /\ BridgePeers \cap DevicePeers = {} /\ NoPeer \notin Peers
  /\ Dev \in [DevicePeers -> Devices]
  /\ Frames \subseteq Nat \ {0}
  /\ SrcOf \in [Frames -> BridgePeers] /\ DestOf \in [Frames -> Devices]
  /\ KindOf \in [Frames -> Kinds] /\ BytesOf \in [Frames -> Nat]
  /\ QueueFramesCap \in Nat \ {0} /\ QueueBytesCap \in Nat /\ MaxEvents \in Nat

VARIABLES
  bridges,     \* Server.bridges of the route: the registered bridge, or NoPeer
  devices,     \* Server.devices: [Devices -> the registered socket, or NoPeer]
  active,      \* route_devices.revoked_at IS NULL: [Devices -> BOOLEAN]
  conn,        \* [Peers -> ConnStates]
  mu,          \* writeMu is held: [Peers -> BOOLEAN]
  pc,          \* where the handler of a peer is
  target,      \* the peer it is about to write to or to close
  inHand,      \* the frame a bridge handler has read
  unread,      \* frames not yet read from the bridge sockets
  pending,     \* removeBridge's local slice of device sockets to close
  sendCh,      \* [DevicePeers -> Seq(Frames)]
  queueBytes,
  wpc,         \* the writer goroutine
  writing,     \* the frame it has received
  done,        \* done is closed
  rpc,         \* handleRevokeDevice of a device
  rtarget,
  events,      \* websockets accepted and devices revoked so far
  lost         \* history: frames a full queue or a failed write lost, by socket

maps    == <<bridges, devices>>
handler == <<pc, target>>
reader  == <<inHand, unread, pending>>
queue   == <<sendCh, queueBytes>>
writer  == <<wpc, writing>>
revoker == <<rpc, rtarget>>
ghosts  == <<events, lost>>
vars == <<maps, active, conn, mu, handler, reader, queue, writer, done, revoker, ghosts>>

ConnStates == {"new", "open", "lost", "closed"}

HandlerPcs ==
  {"none", "authed", "evict", "read", "route", "append", "check", "send", "add",
   "full", "closeFull", "closeSelf", "forward", "forwarding", "stop", "remove",
   "offline", "closeOffline", "exit"}

Init ==
  /\ bridges = NoPeer /\ devices = [d \in Devices |-> NoPeer]
  /\ active = [d \in Devices |-> TRUE]
  /\ conn = [p \in Peers |-> "new"] /\ mu = [p \in Peers |-> FALSE]
  /\ pc = [p \in Peers |-> "none"] /\ target = [p \in Peers |-> NoPeer]
  /\ inHand = [b \in BridgePeers |-> NoFrame] /\ unread = Frames
  /\ pending = [b \in BridgePeers |-> {}]
  /\ sendCh = [p \in DevicePeers |-> <<>>] /\ queueBytes = [p \in DevicePeers |-> 0]
  /\ wpc = [p \in DevicePeers |-> "none"] /\ writing = [p \in DevicePeers |-> NoFrame]
  /\ done = [p \in DevicePeers |-> FALSE]
  /\ rpc = [d \in Devices |-> "idle"] /\ rtarget = [d \in Devices |-> NoPeer]
  /\ events = 0 /\ lost = [p \in DevicePeers |-> {}]

-----------------------------------------------------------------------------
(* Steps the handlers have in common.                                      *)

Goto(p, l) == pc' = [pc EXCEPT ![p] = l]

\* The handler goes on to deal with peer q.
GotoWith(p, l, q) == Goto(p, l) /\ target' = [target EXCEPT ![p] = q]

\* closePeer: waits for writeMu, then closes the connection.
CloseConn(p) ==
  /\ ~mu[p]
  /\ conn' = [conn EXCEPT ![p] = "closed"]

\* Mutant: whatever socket of the device is registered is taken out.
Unregister_Any(p) == [devices EXCEPT ![Dev[p]] = NoPeer]

\* removeDevice: only the socket that is registered is taken out of the map.
Unregister(p) ==
  IF devices[Dev[p]] = p THEN [devices EXCEPT ![Dev[p]] = NoPeer] ELSE devices

Event == events < MaxEvents /\ events' = events + 1

\* The other side goes away, or the read deadline passes.
Drop(p) ==
  /\ conn[p] = "open"
  /\ conn' = [conn EXCEPT ![p] = "lost"]
  /\ UNCHANGED <<maps, active, mu, handler, reader, queue, writer, done, revoker, ghosts>>

\* ReadMessage returns an error and the read loop ends.
EndRead(p) ==
  /\ pc[p] = "read" /\ conn[p] # "open"
  /\ Goto(p, IF p \in BridgePeers THEN "remove" ELSE "stop")
  /\ UNCHANGED <<maps, active, conn, mu, target, reader, queue, writer, done, revoker, ghosts>>

\* The socket that setBridge or setDevice found in the map is closed.
Evict(p) ==
  /\ pc[p] = "evict" /\ CloseConn(target[p])
  /\ GotoWith(p, "read", NoPeer)
  /\ UNCHANGED <<maps, active, mu, reader, queue, writer, done, revoker, ghosts>>

\* A read loop closes its own socket. A device handler that could not forward a
\* handshake goes on to the next read; otherwise the loop returns.
CloseSelf(p) ==
  /\ pc[p] = "closeSelf" /\ CloseConn(p)
  /\ IF p \in BridgePeers THEN Goto(p, "remove")
                          ELSE \E l \in {"read", "stop"} : Goto(p, l)
  /\ UNCHANGED <<maps, active, mu, target, reader, queue, writer, done, revoker, ghosts>>

-----------------------------------------------------------------------------
(* The handler of a bridge socket.                                         *)

\* authenticateBridge, Upgrade and setBridge.
SetBridge(b) ==
  /\ pc[b] = "none" /\ Event
  /\ conn' = [conn EXCEPT ![b] = "open"]
  /\ bridges' = b
  /\ IF bridges = NoPeer THEN GotoWith(b, "read", NoPeer) ELSE GotoWith(b, "evict", bridges)
  /\ UNCHANGED <<devices, active, mu, reader, queue, writer, done, revoker, lost>>

\* The next frame of the bridge is read and parsed. It may be invalid, and one for
\* a device that is not active always is.
ReadBridge(b) ==
  \E f \in unread :
    /\ pc[b] = "read" /\ conn[b] = "open"
    /\ SrcOf[f] = b /\ \A g \in unread : SrcOf[g] = b => f <= g
    /\ unread' = unread \ {f}
    /\ inHand' = [inHand EXCEPT ![b] = f]
    /\ \/ Goto(b, "closeSelf")
       \/ /\ active[DestOf[f]]
          /\ Goto(b, IF KindOf[f] = "mailbox" THEN "append" ELSE "route")
    /\ UNCHANGED <<maps, active, conn, mu, target, pending, queue, writer, done, revoker, ghosts>>

\* AppendFrame stores the frame, or fails (always for a device revoked since);
\* a failure closes the bridge.
AppendMailbox(b) ==
  /\ pc[b] = "append"
  /\ \E l \in {"read", "closeSelf"} :
       /\ l = "read" => active[DestOf[inHand[b]]]
       /\ Goto(b, l)
  /\ UNCHANGED <<maps, active, conn, mu, target, reader, queue, writer, done, revoker, ghosts>>

\* The socket of the destination is looked up; without one the frame is dropped.
Route(b) ==
  /\ pc[b] = "route"
  /\ LET p == devices[DestOf[inHand[b]]]
     IN  GotoWith(b, IF p = NoPeer THEN "read" ELSE "check", p)
  /\ UNCHANGED <<maps, active, conn, mu, reader, queue, writer, done, revoker, ghosts>>

\* Mutant: the new frame is left out of the sum.
HasRoom_Before(p, f) == queueBytes[p] <= QueueBytesCap

\* enqueue: the byte bound, against a load of queueBytes.
HasRoom(p, f) == queueBytes[p] + BytesOf[f] <= QueueBytesCap

CheckRoom(b) ==
  /\ pc[b] = "check"
  /\ Goto(b, IF HasRoom(target[b], inHand[b]) THEN "send" ELSE "full")
  /\ UNCHANGED <<maps, active, conn, mu, target, reader, queue, writer, done, revoker, ghosts>>

\* enqueue: the non-blocking send, which the channel's capacity bounds.
Send(b) ==
  /\ pc[b] = "send"
  /\ IF Len(sendCh[target[b]]) < QueueFramesCap
     THEN /\ sendCh' = [sendCh EXCEPT ![target[b]] = Append(@, inHand[b])]
          /\ Goto(b, "add")
     ELSE Goto(b, "full") /\ UNCHANGED sendCh
  /\ UNCHANGED <<maps, active, conn, mu, target, reader, queueBytes, writer, done, revoker, ghosts>>

\* enqueue: the bytes are added after the send.
AddBytes(b) ==
  /\ pc[b] = "add"
  /\ queueBytes' = [queueBytes EXCEPT ![target[b]] = @ + BytesOf[inHand[b]]]
  /\ GotoWith(b, "read", NoPeer)
  /\ UNCHANGED <<maps, active, conn, mu, reader, sendCh, writer, done, revoker, ghosts>>

\* The queue is full: the device is taken out of the map and disconnected.
DisconnectFull(b) ==
  /\ pc[b] = "full"
  /\ devices' = Unregister(target[b])
  /\ lost' = [lost EXCEPT ![target[b]] = @ \cup {inHand[b]}]
  /\ Goto(b, "closeFull")
  /\ UNCHANGED <<bridges, active, conn, mu, target, reader, queue, writer, done, revoker, events>>

CloseFull(b) ==
  /\ pc[b] = "closeFull" /\ CloseConn(target[b])
  /\ GotoWith(b, "read", NoPeer)
  /\ UNCHANGED <<maps, active, mu, reader, queue, writer, done, revoker, ghosts>>

\* Mutant: the devices of the route are not collected.
RemoveBridge_Quiet(b) ==
  /\ pc[b] = "remove"
  /\ bridges' = IF bridges = b THEN NoPeer ELSE bridges
  /\ Goto(b, "exit")
  /\ UNCHANGED <<devices, active, conn, mu, target, reader, queue, writer, done, revoker, ghosts>>

\* removeBridge under Server.mu: a bridge that was replaced leaves the devices
\* alone, the last one collects their sockets.
RemoveBridge(b) ==
  /\ pc[b] = "remove"
  /\ IF bridges = b
     THEN /\ bridges' = NoPeer
          /\ pending' = [pending EXCEPT ![b] = {devices[d] : d \in Devices} \ {NoPeer}]
          /\ Goto(b, "offline")
     ELSE Goto(b, "exit") /\ UNCHANGED <<bridges, pending>>
  /\ UNCHANGED <<devices, active, conn, mu, target, inHand, unread, queue, writer, done, revoker, ghosts>>

\* removeBridge closes them one after the other, in the order of the map.
NextOffline(b) ==
  /\ pc[b] = "offline"
  /\ IF pending[b] = {}
     THEN Goto(b, "exit") /\ UNCHANGED <<target, pending>>
     ELSE \E p \in pending[b] : /\ GotoWith(b, "closeOffline", p)
                                /\ pending' = [pending EXCEPT ![b] = @ \ {p}]
  /\ UNCHANGED <<maps, active, conn, mu, inHand, unread, queue, writer, done, revoker, ghosts>>

CloseOffline(b) ==
  /\ pc[b] = "closeOffline" /\ CloseConn(target[b])
  /\ GotoWith(b, "offline", NoPeer)
  /\ UNCHANGED <<maps, active, mu, reader, queue, writer, done, revoker, ghosts>>

-----------------------------------------------------------------------------
(* The handler of a device socket. A request that fails to authenticate or *)
(* to upgrade leaves no trace, so every peer is one that does both.        *)

Authenticate(p) ==
  /\ pc[p] = "none" /\ active[Dev[p]] /\ Event
  /\ Goto(p, "authed")
  /\ UNCHANGED <<maps, active, conn, mu, target, reader, queue, writer, done, revoker, lost>>

\* Upgrade, startWriter and setDevice.
SetDevice(p) ==
  /\ pc[p] = "authed"
  /\ conn' = [conn EXCEPT ![p] = "open"]
  /\ wpc' = [wpc EXCEPT ![p] = "idle"]
  /\ devices' = [devices EXCEPT ![Dev[p]] = p]
  /\ LET old == devices[Dev[p]]
     IN  GotoWith(p, IF old = NoPeer THEN "read" ELSE "evict", old)
  /\ UNCHANGED <<bridges, active, mu, reader, queue, writing, done, revoker, ghosts>>

\* A frame of the device is read: it is invalid, or there is no bridge, or it is
\* to be written to the bridge.
ReadDevice(p) ==
  /\ pc[p] = "read" /\ conn[p] = "open"
  /\ \/ Goto(p, "closeSelf") /\ UNCHANGED target
     \/ bridges # NoPeer /\ GotoWith(p, "forward", bridges)
  /\ UNCHANGED <<maps, active, conn, mu, reader, queue, writer, done, revoker, ghosts>>

\* write on the bridge's connection, under its writeMu.
Forward(p) ==
  /\ pc[p] = "forward" /\ ~mu[target[p]]
  /\ mu' = [mu EXCEPT ![target[p]] = TRUE]
  /\ Goto(p, "forwarding")
  /\ UNCHANGED <<maps, active, conn, target, reader, queue, writer, done, revoker, ghosts>>

Forwarded(p) ==
  /\ pc[p] = "forwarding"
  /\ mu' = [mu EXCEPT ![target[p]] = FALSE]
  /\ \E l \in {"read", "closeSelf"} :
       /\ l = "read" => conn[target[p]] # "closed"
       /\ GotoWith(p, l, NoPeer)
  /\ UNCHANGED <<maps, active, conn, reader, queue, writer, done, revoker, ghosts>>

\* Mutant: done is left open.
ShutdownWriter_Open(p) ==
  /\ pc[p] = "stop"
  /\ Goto(p, "remove")
  /\ UNCHANGED <<maps, active, conn, mu, target, reader, queue, writer, done, revoker, ghosts>>

\* The deferred function: shutdownWriter, then removeDevice.
ShutdownWriter(p) ==
  /\ pc[p] = "stop"
  /\ done' = [done EXCEPT ![p] = TRUE]
  /\ Goto(p, "remove")
  /\ UNCHANGED <<maps, active, conn, mu, target, reader, queue, writer, revoker, ghosts>>

RemoveDevice(p) ==
  /\ pc[p] = "remove"
  /\ devices' = Unregister(p)
  /\ Goto(p, "exit")
  /\ UNCHANGED <<bridges, active, conn, mu, target, reader, queue, writer, done, revoker, ghosts>>

-----------------------------------------------------------------------------
(* writeLoop, the writer goroutine of a device socket.                     *)

Receive(p) ==
  /\ wpc[p] = "idle" /\ sendCh[p] # <<>>
  /\ sendCh' = [sendCh EXCEPT ![p] = Tail(@)]
  /\ writing' = [writing EXCEPT ![p] = Head(sendCh[p])]
  /\ wpc' = [wpc EXCEPT ![p] = "subtract"]
  /\ UNCHANGED <<maps, active, conn, mu, handler, reader, queueBytes, done, revoker, ghosts>>

\* Mutant: the bytes of a received frame stay counted.
SubtractBytes_Missing(p) ==
  /\ wpc[p] = "subtract"
  /\ wpc' = [wpc EXCEPT ![p] = "lock"]
  /\ UNCHANGED <<maps, active, conn, mu, handler, reader, queue, writing, done, revoker, ghosts>>

SubtractBytes(p) ==
  /\ wpc[p] = "subtract"
  /\ queueBytes' = [queueBytes EXCEPT ![p] = @ - BytesOf[writing[p]]]
  /\ wpc' = [wpc EXCEPT ![p] = "lock"]
  /\ UNCHANGED <<maps, active, conn, mu, handler, reader, sendCh, writing, done, revoker, ghosts>>

LockWrite(p) ==
  /\ wpc[p] = "lock" /\ ~mu[p]
  /\ mu' = [mu EXCEPT ![p] = TRUE]
  /\ wpc' = [wpc EXCEPT ![p] = "write"]
  /\ UNCHANGED <<maps, active, conn, handler, reader, queue, writing, done, revoker, ghosts>>

\* WriteMessage returns: at the latest when the write deadline passes.
WriteOk(p) ==
  /\ wpc[p] = "write" /\ conn[p] # "closed"
  /\ mu' = [mu EXCEPT ![p] = FALSE]
  /\ wpc' = [wpc EXCEPT ![p] = "idle"]
  /\ writing' = [writing EXCEPT ![p] = NoFrame]
  /\ UNCHANGED <<maps, active, conn, handler, reader, queue, done, revoker, ghosts>>

\* Mutants: writeMu is not released; the loop goes on after the error.
WriteError_Held(p) ==
  /\ wpc[p] = "write"
  /\ wpc' = [wpc EXCEPT ![p] = "exit"]
  /\ writing' = [writing EXCEPT ![p] = NoFrame]
  /\ lost' = [lost EXCEPT ![p] = @ \cup {writing[p]}]
  /\ UNCHANGED <<maps, active, conn, mu, handler, reader, queue, done, revoker, events>>

WriteError_GoOn(p) ==
  /\ wpc[p] = "write"
  /\ mu' = [mu EXCEPT ![p] = FALSE]
  /\ wpc' = [wpc EXCEPT ![p] = "idle"]
  /\ writing' = [writing EXCEPT ![p] = NoFrame]
  /\ lost' = [lost EXCEPT ![p] = @ \cup {writing[p]}]
  /\ UNCHANGED <<maps, active, conn, handler, reader, queue, done, revoker, events>>

WriteError(p) ==
  /\ wpc[p] = "write"
  /\ mu' = [mu EXCEPT ![p] = FALSE]
  /\ wpc' = [wpc EXCEPT ![p] = "exit"]
  /\ lost' = [lost EXCEPT ![p] = @ \cup {writing[p]}]
  /\ writing' = [writing EXCEPT ![p] = NoFrame]
  /\ UNCHANGED <<maps, active, conn, handler, reader, queue, done, revoker, events>>

\* select takes either ready case; with done closed the loop may return.
WriterDone(p) ==
  /\ wpc[p] = "idle" /\ done[p]
  /\ wpc' = [wpc EXCEPT ![p] = "exit"]
  /\ UNCHANGED <<maps, active, conn, mu, handler, reader, queue, writing, done, revoker, ghosts>>

-----------------------------------------------------------------------------
(* handleRevokeDevice and handleRegisterDevice.                            *)

RevokeDevice(d) ==
  /\ rpc[d] = "idle" /\ active[d] /\ Event
  /\ active' = [active EXCEPT ![d] = FALSE]
  /\ rpc' = [rpc EXCEPT ![d] = "lookup"]
  /\ UNCHANGED <<maps, conn, mu, handler, reader, queue, writer, done, rtarget, lost>>

\* disconnectDevice: device.
LookupRevoked(d) ==
  /\ rpc[d] = "lookup"
  /\ rtarget' = [rtarget EXCEPT ![d] = devices[d]]
  /\ rpc' = [rpc EXCEPT ![d] = IF devices[d] = NoPeer THEN "idle" ELSE "close"]
  /\ UNCHANGED <<maps, active, conn, mu, handler, reader, queue, writer, done, ghosts>>

CloseRevoked(d) ==
  /\ rpc[d] = "close" /\ CloseConn(rtarget[d])
  /\ rpc' = [rpc EXCEPT ![d] = "remove"]
  /\ UNCHANGED <<maps, active, mu, handler, reader, queue, writer, done, rtarget, ghosts>>

RemoveRevoked(d) ==
  /\ rpc[d] = "remove"
  /\ devices' = Unregister(rtarget[d])
  /\ rpc' = [rpc EXCEPT ![d] = "idle"] /\ rtarget' = [rtarget EXCEPT ![d] = NoPeer]
  /\ UNCHANGED <<bridges, active, conn, mu, handler, reader, queue, writer, done, ghosts>>

RegisterDevice(d) ==
  /\ ~active[d]
  /\ active' = [active EXCEPT ![d] = TRUE]
  /\ UNCHANGED <<maps, conn, mu, handler, reader, queue, writer, done, revoker, ghosts>>

-----------------------------------------------------------------------------

BridgeStep(b) ==
  \/ EndRead(b) \/ AppendMailbox(b) \/ Route(b) \/ CheckRoom(b) \/ Send(b)
  \/ AddBytes(b) \/ DisconnectFull(b) \/ RemoveBridge(b) \/ NextOffline(b)

DeviceStep(p) ==
  \/ EndRead(p) \/ SetDevice(p) \/ Forwarded(p) \/ ShutdownWriter(p) \/ RemoveDevice(p)

WriterStep(p) ==
  \/ Receive(p) \/ SubtractBytes(p) \/ LockWrite(p) \/ WriteOk(p) \/ WriteError(p)
  \/ WriterDone(p)

RevokeStep(d) == LookupRevoked(d) \/ RemoveRevoked(d)

\* The steps that wait for a writeMu.
Closing(p) == Evict(p) \/ CloseSelf(p) \/ CloseFull(p) \/ CloseOffline(p) \/ Forward(p)

Next ==
  \/ \E p \in Peers : Drop(p) \/ Closing(p)
  \/ \E b \in BridgePeers : SetBridge(b) \/ ReadBridge(b) \/ BridgeStep(b)
  \/ \E p \in DevicePeers : Authenticate(p) \/ ReadDevice(p) \/ DeviceStep(p) \/ WriterStep(p)
  \/ \E d \in Devices : RevokeDevice(d) \/ RegisterDevice(d) \/ RevokeStep(d) \/ CloseRevoked(d)

Spec == Init /\ [][Next]_vars

\* Goroutines run, a write returns at its deadline, and a mutex is not withheld
\* from a goroutine that waits for it for ever.
Fairness ==
  /\ \A b \in BridgePeers : WF_vars(BridgeStep(b)) /\ SF_vars(Closing(b))
  /\ \A p \in DevicePeers : /\ WF_vars(DeviceStep(p)) /\ WF_vars(WriterStep(p))
                            /\ SF_vars(Closing(p))
  /\ \A d \in Devices : WF_vars(RevokeStep(d)) /\ SF_vars(CloseRevoked(d))

FairSpec == Spec /\ Fairness
-----------------------------------------------------------------------------
(* Properties.                                                             *)

WriterPcs == {"none", "idle", "subtract", "lock", "write", "exit"}

Types ==
  /\ bridges \in BridgePeers \cup {NoPeer}
  /\ devices \in [Devices -> DevicePeers \cup {NoPeer}]
  /\ active \in [Devices -> BOOLEAN]
  /\ conn \in [Peers -> ConnStates] /\ mu \in [Peers -> BOOLEAN]
  /\ pc \in [Peers -> HandlerPcs] /\ target \in [Peers -> Peers \cup {NoPeer}]
  /\ inHand \in [BridgePeers -> Frames \cup {NoFrame}] /\ unread \subseteq Frames
  /\ pending \in [BridgePeers -> SUBSET DevicePeers]
  /\ sendCh \in [DevicePeers -> Seq(Frames)] /\ queueBytes \in [DevicePeers -> Int]
  /\ wpc \in [DevicePeers -> WriterPcs]
  /\ writing \in [DevicePeers -> Frames \cup {NoFrame}]
  /\ done \in [DevicePeers -> BOOLEAN]
  /\ events \in 0..MaxEvents /\ lost \in [DevicePeers -> SUBSET Frames]
  /\ rpc \in [Devices -> {"idle", "lookup", "close", "remove"}]
  /\ rtarget \in [Devices -> DevicePeers \cup {NoPeer}]

\* The writeMu of a device socket is held exactly while its writer writes, that of
\* a bridge while the handler of one device forwards to it.
WriterHolds == \A p \in DevicePeers : mu[p] <=> wpc[p] = "write"

ForwarderHolds ==
  \A b \in BridgePeers :
    mu[b] <=> \E p \in DevicePeers : pc[p] = "forwarding" /\ target[p] = b

OneForwarder ==
  \A p, q \in DevicePeers :
    pc[p] = "forwarding" /\ pc[q] = "forwarding" /\ target[p] = target[q] => p = q

WriteMuHeld == WriterHolds /\ ForwarderHolds /\ OneForwarder

\* The types, and the holders of writeMu.
TypeOK == Types /\ WriteMuHeld

\* Some goroutine is on its way to close the connection of p.
BeingClosed(p) ==
  \/ \E q \in Peers : /\ target[q] = p
                      /\ pc[q] \in {"evict", "full", "closeFull", "closeOffline"}
  \/ \E d \in Devices : rtarget[d] = p /\ rpc[d] = "close"

\* No socket is forgotten: an open socket is the one in the map, through which
\* frames reach it and a revocation or an offline bridge disconnects it, or a
\* goroutine is about to close it. The late exit of a replaced handler must not
\* take its successor out of the map.
OpenIsRegistered ==
  /\ \A p \in DevicePeers : conn[p] = "open" => devices[Dev[p]] = p \/ BeingClosed(p)
  /\ \A b \in BridgePeers : conn[b] = "open" => bridges = b \/ BeingClosed(b)

\* What one bridge socket sends to one device socket arrives without a gap: after
\* a frame that the full queue or a failed write lost, no later one of that bridge
\* is written to that socket.
NoGap ==
  [][\A p \in DevicePeers : WriteOk(p) =>
       \A f \in lost[p] : SrcOf[f] = SrcOf[writing[p]] => writing[p] < f]_vars

BytesIn(q) == SumFunction([i \in 1..Len(q) |-> BytesOf[q[i]]])

\* The handlers that have sent a frame to p and not yet added its bytes.
Adding(p) == {b \in BridgePeers : pc[b] = "add" /\ target[b] = p}

\* What they are about to add.
Unadded(p) == SumFunctionOnSet([b \in BridgePeers |-> BytesOf[inHand[b]]], Adding(p))

Unsubtracted(p) == IF wpc[p] = "subtract" THEN BytesOf[writing[p]] ELSE 0

\* queueBytes, which two goroutines update after the fact, is the size of the
\* queue once their updates are in: it neither leaks nor stays negative, so a
\* device is not disconnected for bytes that have left its queue.
QueueBytesSettled ==
  \A p \in DevicePeers :
    queueBytes[p] = BytesIn(sendCh[p]) - Unadded(p) + Unsubtracted(p)

\* The read loops of a replaced bridge and of its successor may both pass the
\* byte check before either adds; beyond one such frame the queue never exceeds
\* its byte bound.
QueueBytesBounded ==
  \A p \in DevicePeers : \A n \in {BytesOf[f] : f \in Frames} :
    (\A f \in Frames : BytesOf[f] <= n) =>
      BytesIn(sendCh[p]) <= QueueBytesCap + (Cardinality(BridgePeers) - 1) * n

\* When a device socket is gone, its handler and its writer goroutine end.
DeviceGoneEnds ==
  \A p \in DevicePeers :
    conn[p] \in {"lost", "closed"} ~> pc[p] = "exit" /\ wpc[p] = "exit"

\* When the registered bridge drops, every device socket registered then is
\* closed, unless another bridge serves the route.
BridgeDropSeen ==
  \A b \in BridgePeers, p \in DevicePeers :
    (bridges = b /\ conn[b] # "open" /\ devices[Dev[p]] = p)
      ~> (conn[p] # "open" \/ bridges \notin {b, NoPeer})
=============================================================================

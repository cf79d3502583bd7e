--------------------- MODULE RelayServerSockets_proofs ---------------------
(***************************************************************************)
(* Proofs about the sockets of a route of the relay server, for every      *)
(* number of bridge and device sockets, devices and frames and every cap.  *)
(***************************************************************************)
EXTENDS RelayServerSockets, SumLemmas

USE DEF maps, handler, reader, queue, writer, revoker, ghosts, Peers

-----------------------------------------------------------------------------
(* The part of the inductive invariant that no run states by itself.       *)

\* What the position of a bridge handler says of its frame and its target.
BridgeInv ==
  \A b \in BridgePeers :
    /\ pc[b] \notin {"authed", "forward", "forwarding", "stop"}
    /\ pc[b] = "evict" => target[b] \in BridgePeers
    /\ pc[b] \in {"check", "send", "add", "full", "closeFull", "closeOffline"}
         => target[b] \in DevicePeers
    /\ pc[b] \in {"route", "append", "check", "send", "add", "full"}
         => inHand[b] \in Frames

\* The same for a device handler and for its writer.
DeviceInv ==
  \A p \in DevicePeers :
    /\ pc[p] \in {"none", "authed", "evict", "read", "closeSelf", "forward",
                  "forwarding", "stop", "remove", "exit"}
    /\ pc[p] \in {"none", "authed"} => wpc[p] = "none"
    /\ pc[p] = "evict" => target[p] \in DevicePeers
    /\ pc[p] \in {"forward", "forwarding"} => target[p] \in BridgePeers
    /\ wpc[p] \in {"subtract", "lock", "write"} => writing[p] \in Frames

\* A handler past its read loop has no open connection.
ConnInv ==
  \A p \in Peers :
    pc[p] \in {"stop", "remove", "offline", "closeOffline", "exit"} => conn[p] # "open"

\* The handler of p has upgraded, so that its connection opens no more.
Upgraded(p) == pc[p] \notin {"none", "authed"}

\* Sockets are registered under their own device once they are upgraded; a
\* revocation removes a socket from the map only after it has closed it.
MapInv ==
  \A d \in Devices :
    /\ devices[d] # NoPeer => Dev[devices[d]] = d /\ Upgraded(devices[d])
    /\ rpc[d] \in {"close", "remove"} =>
         rtarget[d] \in DevicePeers /\ Upgraded(rtarget[d])
    /\ rpc[d] = "remove" => conn[rtarget[d]] # "open"

SInv == TypeOK /\ BridgeInv /\ DeviceInv /\ ConnInv /\ MapInv /\ OpenIsRegistered

-----------------------------------------------------------------------------
(* What most steps leave alone.                                            *)

\* No write begins or ends, and no handler that forwards moves.
WritesKept ==
  /\ mu' = mu
  /\ \A p \in DevicePeers :
       /\ wpc'[p] = "write" <=> wpc[p] = "write"
       /\ pc'[p] = "forwarding" <=> pc[p] = "forwarding"
       /\ pc[p] = "forwarding" => target'[p] = target[p]

\* A step that leaves all writes alone leaves the holders of writeMu alone.
LEMMA WritesKeptHeld == WriteMuHeld /\ WritesKept => WriteMuHeld'
  BY DEF WriteMuHeld, WriterHolds, ForwarderHolds, OneForwarder, WritesKept

\* The handler of p locks the writeMu of a bridge that nobody holds.
LEMMA ForwardHeld ==
  ASSUME WriteMuHeld, BridgePeers \cap DevicePeers = {}, mu \in [Peers -> BOOLEAN],
         NEW p \in DevicePeers, target[p] \in BridgePeers, ~mu[target[p]],
         mu' = [mu EXCEPT ![target[p]] = TRUE], pc'[p] = "forwarding",
         \A q \in DevicePeers \ {p} : pc'[q] = pc[q],
         target' = target, wpc' = wpc
  PROVE  WriteMuHeld'
<1>1. \A q \in DevicePeers : ~(pc[q] = "forwarding" /\ target[q] = target[p])
  BY DEF WriteMuHeld, ForwarderHolds
<1>2. WriterHolds'
  BY DEF WriteMuHeld, WriterHolds
<1>3. ForwarderHolds'
  BY <1>1 DEF WriteMuHeld, ForwarderHolds
<1>4. OneForwarder'
  BY <1>1 DEF WriteMuHeld, OneForwarder
<1> QED  BY <1>2, <1>3, <1>4 DEF WriteMuHeld

\* The handler of p lets it go.
LEMMA ForwardedHeld ==
  ASSUME WriteMuHeld, BridgePeers \cap DevicePeers = {}, mu \in [Peers -> BOOLEAN],
         NEW p \in DevicePeers, target[p] \in BridgePeers, pc[p] = "forwarding",
         mu' = [mu EXCEPT ![target[p]] = FALSE], pc'[p] # "forwarding",
         \A q \in DevicePeers \ {p} : pc'[q] = pc[q] /\ target'[q] = target[q],
         wpc' = wpc
  PROVE  WriteMuHeld'
<1>1. \A q \in DevicePeers \ {p} : ~(pc[q] = "forwarding" /\ target[q] = target[p])
  BY DEF WriteMuHeld, OneForwarder
<1>2. WriterHolds'
  BY DEF WriteMuHeld, WriterHolds
<1>3. ForwarderHolds'
  BY <1>1 DEF WriteMuHeld, ForwarderHolds
<1>4. OneForwarder'
  BY DEF WriteMuHeld, OneForwarder
<1> QED  BY <1>2, <1>3, <1>4 DEF WriteMuHeld

AtClose == {"evict", "full", "closeFull", "closeOffline"}

\* No connection opens, one that stays open stays in the map, and whoever is about
\* to close one does, or stays about to.
SocketsKept ==
  /\ \A x \in Peers : conn'[x] = "open" => conn[x] = "open"
  /\ \A x \in DevicePeers :
       conn'[x] = "open" /\ devices[Dev[x]] = x => devices'[Dev[x]] = x \/ BeingClosed(x)'
  /\ \A x \in BridgePeers :
       conn'[x] = "open" /\ bridges = x => bridges' = x \/ BeingClosed(x)'
  /\ \A q \in Peers : pc[q] \in AtClose =>
       \/ conn'[target[q]] # "open"
       \/ pc'[q] \in AtClose /\ target'[q] = target[q]
  /\ \A d \in Devices : rpc[d] = "close" =>
       \/ conn'[rtarget[d]] # "open"
       \/ rpc'[d] = "close" /\ rtarget'[d] = rtarget[d]

\* Such a step forgets no open socket.
LEMMA SocketsKeptRegistered == OpenIsRegistered /\ SocketsKept => OpenIsRegistered'
<1> SUFFICES ASSUME OpenIsRegistered, SocketsKept PROVE OpenIsRegistered'
  OBVIOUS
<1>1. ASSUME NEW x \in Peers, BeingClosed(x), conn'[x] = "open" PROVE BeingClosed(x)'
  BY <1>1 DEF SocketsKept, BeingClosed, AtClose
<1>2. ASSUME NEW x \in DevicePeers, conn'[x] = "open"
      PROVE  devices'[Dev[x]] = x \/ BeingClosed(x)'
  BY <1>1, <1>2 DEF SocketsKept, OpenIsRegistered
<1>3. ASSUME NEW x \in BridgePeers, conn'[x] = "open"
      PROVE  bridges' = x \/ BeingClosed(x)'
  BY <1>1, <1>3 DEF SocketsKept, OpenIsRegistered
<1> QED  BY <1>2, <1>3 DEF OpenIsRegistered

-----------------------------------------------------------------------------

\* A step of the server keeps the invariant.
LEMMA SInvStep == SInv /\ [Next]_vars => SInv'
<1> SUFFICES ASSUME SInv, [Next]_vars PROVE SInv'
  OBVIOUS
<1> USE SocketsAssumption DEF SInv, TypeOK, Types, Goto, GotoWith, CloseConn, Unregister, Event
<1>1. ASSUME NEW p \in Peers, Drop(p) PROVE SInv'
  <2>1. Types'
    BY <1>1 DEF Drop, BridgeInv, DeviceInv, ConnStates, HandlerPcs, WriterPcs
  <2>2. WriteMuHeld'
    <3>1. WritesKept
      BY <1>1 DEF Drop, BridgeInv, DeviceInv, WritesKept
    <3> QED  BY <3>1, WritesKeptHeld
  <2>3. BridgeInv'
    BY <1>1 DEF Drop, BridgeInv
  <2>4. DeviceInv'
    BY <1>1 DEF Drop, DeviceInv
  <2>5. ConnInv'
    BY <1>1 DEF Drop, ConnInv
  <2>6. MapInv'
    BY <1>1 DEF Drop, BridgeInv, DeviceInv, ConnInv, MapInv, Upgraded
  <2>7. OpenIsRegistered'
    <3>1. SocketsKept
      BY <1>1
         DEF Drop, BridgeInv, DeviceInv, ConnInv, MapInv, Upgraded, SocketsKept, AtClose
    <3> QED  BY <3>1, SocketsKeptRegistered
  <2> QED  BY <2>1, <2>2, <2>3, <2>4, <2>5, <2>6, <2>7
<1>2. ASSUME NEW p \in Peers, Evict(p) PROVE SInv'
  <2>1. Types'
    BY <1>2 DEF Evict, BridgeInv, DeviceInv, ConnStates, HandlerPcs, WriterPcs
  <2>2. WriteMuHeld'
    <3>1. WritesKept
      BY <1>2 DEF Evict, BridgeInv, DeviceInv, WritesKept
    <3> QED  BY <3>1, WritesKeptHeld
  <2>3. BridgeInv'
    BY <1>2 DEF Evict, BridgeInv
  <2>4. DeviceInv'
    BY <1>2 DEF Evict, DeviceInv
  <2>5. ConnInv'
    BY <1>2 DEF Evict, ConnInv
  <2>6. MapInv'
    BY <1>2 DEF Evict, BridgeInv, DeviceInv, ConnInv, MapInv, Upgraded
  <2>7. OpenIsRegistered'
    <3>1. SocketsKept
      BY <1>2
         DEF Evict, BridgeInv, DeviceInv, ConnInv, MapInv, Upgraded, SocketsKept,
             AtClose
    <3> QED  BY <3>1, SocketsKeptRegistered
  <2> QED  BY <2>1, <2>2, <2>3, <2>4, <2>5, <2>6, <2>7
<1>3. ASSUME NEW p \in Peers, CloseSelf(p) PROVE SInv'
  <2>1. Types'
    <3>1. \E l \in {"remove", "read", "stop"} : Goto(p, l)
      BY <1>3 DEF CloseSelf
    <3>2. pc' \in [Peers -> HandlerPcs]
      BY <3>1 DEF HandlerPcs
    <3>3. conn' \in [Peers -> ConnStates]
      BY <1>3 DEF CloseSelf, ConnStates
    <3>4. UNCHANGED <<maps, active, mu, target, reader, queue, writer, done, revoker, ghosts>>
      BY <1>3 DEF CloseSelf
    <3> QED  BY <3>2, <3>3, <3>4
  <2>2. WriteMuHeld'
    <3>1. WritesKept
      BY <1>3 DEF CloseSelf, BridgeInv, DeviceInv, WritesKept
    <3> QED  BY <3>1, WritesKeptHeld
  <2>3. BridgeInv'
    BY <1>3 DEF CloseSelf, BridgeInv
  <2>4. DeviceInv'
    BY <1>3 DEF CloseSelf, DeviceInv
  <2>5. ConnInv'
    BY <1>3 DEF CloseSelf, ConnInv
  <2>6. MapInv'
    BY <1>3 DEF CloseSelf, BridgeInv, DeviceInv, ConnInv, MapInv, Upgraded
  <2>7. OpenIsRegistered'
    <3>1. SocketsKept
      BY <1>3
         DEF CloseSelf, BridgeInv, DeviceInv, ConnInv, MapInv, Upgraded, SocketsKept,
             AtClose
    <3> QED  BY <3>1, SocketsKeptRegistered
  <2> QED  BY <2>1, <2>2, <2>3, <2>4, <2>5, <2>6, <2>7
<1>4. ASSUME NEW p \in Peers, CloseFull(p) PROVE SInv'
  <2>1. Types'
    BY <1>4 DEF CloseFull, BridgeInv, DeviceInv, ConnStates, HandlerPcs, WriterPcs
  <2>2. WriteMuHeld'
    <3>1. WritesKept
      BY <1>4 DEF CloseFull, BridgeInv, DeviceInv, WritesKept
    <3> QED  BY <3>1, WritesKeptHeld
  <2>3. BridgeInv'
    BY <1>4 DEF CloseFull, BridgeInv
  <2>4. DeviceInv'
    BY <1>4 DEF CloseFull, DeviceInv
  <2>5. ConnInv'
    BY <1>4 DEF CloseFull, ConnInv
  <2>6. MapInv'
    BY <1>4 DEF CloseFull, BridgeInv, DeviceInv, ConnInv, MapInv, Upgraded
  <2>7. OpenIsRegistered'
    <3>1. SocketsKept
      BY <1>4
         DEF CloseFull, BridgeInv, DeviceInv, ConnInv, MapInv, Upgraded, SocketsKept,
             AtClose
    <3> QED  BY <3>1, SocketsKeptRegistered
  <2> QED  BY <2>1, <2>2, <2>3, <2>4, <2>5, <2>6, <2>7
<1>5. ASSUME NEW p \in Peers, CloseOffline(p) PROVE SInv'
  <2>1. Types'
    BY <1>5 DEF CloseOffline, BridgeInv, DeviceInv, ConnStates, HandlerPcs, WriterPcs
  <2>2. WriteMuHeld'
    <3>1. WritesKept
      BY <1>5 DEF CloseOffline, BridgeInv, DeviceInv, WritesKept
    <3> QED  BY <3>1, WritesKeptHeld
  <2>3. BridgeInv'
    BY <1>5 DEF CloseOffline, BridgeInv
  <2>4. DeviceInv'
    BY <1>5 DEF CloseOffline, DeviceInv
  <2>5. ConnInv'
    BY <1>5 DEF CloseOffline, ConnInv
  <2>6. MapInv'
    BY <1>5 DEF CloseOffline, BridgeInv, DeviceInv, ConnInv, MapInv, Upgraded
  <2>7. OpenIsRegistered'
    <3>1. SocketsKept
      BY <1>5
         DEF CloseOffline, BridgeInv, DeviceInv, ConnInv, MapInv, Upgraded, SocketsKept,
             AtClose
    <3> QED  BY <3>1, SocketsKeptRegistered
  <2> QED  BY <2>1, <2>2, <2>3, <2>4, <2>5, <2>6, <2>7
<1>6. ASSUME NEW p \in Peers, Forward(p) PROVE SInv'
  <2>1. Types'
    BY <1>6 DEF Forward, BridgeInv, DeviceInv, ConnStates, HandlerPcs, WriterPcs
  <2>2. WriteMuHeld'
    <3>1. p \in DevicePeers /\ target[p] \in BridgePeers /\ ~mu[target[p]]
      BY <1>6 DEF Forward, BridgeInv, DeviceInv
    <3>2. /\ mu' = [mu EXCEPT ![target[p]] = TRUE] /\ target' = target /\ wpc' = wpc
          /\ pc'[p] = "forwarding" /\ \A q \in DevicePeers \ {p} : pc'[q] = pc[q]
      BY <1>6, <3>1 DEF Forward
    <3> QED  BY <3>1, <3>2, ForwardHeld
  <2>3. BridgeInv'
    BY <1>6 DEF Forward, BridgeInv
  <2>4. DeviceInv'
    BY <1>6 DEF Forward, DeviceInv
  <2>5. ConnInv'
    BY <1>6 DEF Forward, ConnInv
  <2>6. MapInv'
    BY <1>6 DEF Forward, BridgeInv, DeviceInv, ConnInv, MapInv, Upgraded
  <2>7. OpenIsRegistered'
    <3>1. SocketsKept
      BY <1>6
         DEF Forward, BridgeInv, DeviceInv, ConnInv, MapInv, Upgraded, SocketsKept,
             AtClose
    <3> QED  BY <3>1, SocketsKeptRegistered
  <2> QED  BY <2>1, <2>2, <2>3, <2>4, <2>5, <2>6, <2>7
<1>7. ASSUME NEW b \in BridgePeers, SetBridge(b) PROVE SInv'
  <2>1. Types'
    <3>1. pc' \in [Peers -> HandlerPcs] /\ target' \in [Peers -> Peers \cup {NoPeer}]
      <4>1. CASE bridges = NoPeer
        <5>1. /\ pc' = [pc EXCEPT ![b] = "read"]
              /\ target' = [target EXCEPT ![b] = NoPeer]
          BY <1>7, <4>1 DEF SetBridge
        <5> QED  BY <5>1 DEF HandlerPcs
      <4>2. CASE bridges # NoPeer
        <5>1. /\ pc' = [pc EXCEPT ![b] = "evict"]
              /\ target' = [target EXCEPT ![b] = bridges]
          BY <1>7, <4>2 DEF SetBridge
        <5>2. bridges \in Peers
          BY <4>2
        <5> QED  BY <5>1, <5>2 DEF HandlerPcs
      <4> QED  BY <4>1, <4>2
    <3>2. conn' \in [Peers -> ConnStates] /\ bridges' \in BridgePeers \cup {NoPeer}
      BY <1>7 DEF SetBridge, ConnStates
    <3>3. events' \in 0..MaxEvents
      BY <1>7 DEF SetBridge
    <3>4. UNCHANGED <<devices, active, mu, reader, queue, writer, done, revoker, lost>>
      BY <1>7 DEF SetBridge
    <3> QED  BY <3>1, <3>2, <3>3, <3>4
  <2>2. WriteMuHeld'
    <3>1. WritesKept
      BY <1>7 DEF SetBridge, BridgeInv, DeviceInv, WritesKept
    <3> QED  BY <3>1, WritesKeptHeld
  <2>3. BridgeInv'
    BY <1>7 DEF SetBridge, BridgeInv
  <2>4. DeviceInv'
    <3>1. \A p \in DevicePeers : pc'[p] = pc[p] /\ target'[p] = target[p]
      BY <1>7 DEF SetBridge
    <3>2. wpc' = wpc /\ writing' = writing
      BY <1>7 DEF SetBridge
    <3> QED  BY <3>1, <3>2 DEF DeviceInv
  <2>5. ConnInv'
    BY <1>7 DEF SetBridge, ConnInv
  <2>6. MapInv'
    BY <1>7 DEF SetBridge, BridgeInv, DeviceInv, ConnInv, MapInv, Upgraded
  <2>7. OpenIsRegistered'
    <3>1. /\ pc[b] = "none" /\ bridges' = b /\ rpc' = rpc /\ rtarget' = rtarget /\ devices' = devices
          /\ \A x \in Peers \ {b} : conn'[x] = conn[x] /\ pc'[x] = pc[x] /\ target'[x] = target[x]
      BY <1>7 DEF SetBridge
    <3>2. ASSUME NEW x \in Peers, BeingClosed(x) PROVE BeingClosed(x)'
      BY <3>1, <3>2 DEF BeingClosed
    <3>3. ASSUME NEW x \in BridgePeers, bridges = x PROVE BeingClosed(x)'
      <4>1. pc'[b] = "evict" /\ target'[b] = x
        BY <1>7, <3>3 DEF SetBridge
      <4> QED  BY <4>1 DEF BeingClosed
    <3>4. ASSUME NEW x \in DevicePeers, conn'[x] = "open"
          PROVE  devices'[Dev[x]] = x \/ BeingClosed(x)'
      <4>1. x # b /\ conn[x] = "open"
        <5>1. x # b
          OBVIOUS
        <5> QED  BY <3>1, <3>4, <5>1
      <4>2. devices[Dev[x]] = x \/ BeingClosed(x)
        BY <4>1 DEF OpenIsRegistered
      <4> QED  BY <3>1, <3>2, <4>2
    <3>5. ASSUME NEW x \in BridgePeers, conn'[x] = "open" PROVE bridges' = x \/ BeingClosed(x)'
      BY <3>1, <3>2, <3>3, <3>5 DEF OpenIsRegistered
    <3> QED  BY <3>4, <3>5 DEF OpenIsRegistered
  <2> QED  BY <2>1, <2>2, <2>3, <2>4, <2>5, <2>6, <2>7
<1>8. ASSUME NEW b \in BridgePeers, ReadBridge(b) PROVE SInv'
  <2>1. Types'
    <3>1. \E l \in {"closeSelf", "append", "route"} : Goto(b, l)
      BY <1>8 DEF ReadBridge
    <3>2. pc' \in [Peers -> HandlerPcs]
      BY <3>1 DEF HandlerPcs
    <3>3. unread' \subseteq Frames /\ inHand' \in [BridgePeers -> Frames \cup {NoFrame}]
      BY <1>8 DEF ReadBridge
    <3>4. UNCHANGED <<maps, active, conn, mu, target, pending, queue, writer, done, revoker, ghosts>>
      BY <1>8 DEF ReadBridge
    <3> QED  BY <3>2, <3>3, <3>4
  <2>2. WriteMuHeld'
    <3>1. WritesKept
      BY <1>8 DEF ReadBridge, BridgeInv, DeviceInv, WritesKept
    <3> QED  BY <3>1, WritesKeptHeld
  <2>3. BridgeInv'
    BY <1>8 DEF ReadBridge, BridgeInv
  <2>4. DeviceInv'
    BY <1>8 DEF ReadBridge, DeviceInv
  <2>5. ConnInv'
    BY <1>8 DEF ReadBridge, ConnInv
  <2>6. MapInv'
    BY <1>8 DEF ReadBridge, BridgeInv, DeviceInv, ConnInv, MapInv, Upgraded
  <2>7. OpenIsRegistered'
    <3>1. SocketsKept
      BY <1>8
         DEF ReadBridge, BridgeInv, DeviceInv, ConnInv, MapInv, Upgraded, SocketsKept,
             AtClose
    <3> QED  BY <3>1, SocketsKeptRegistered
  <2> QED  BY <2>1, <2>2, <2>3, <2>4, <2>5, <2>6, <2>7
<1>9. ASSUME NEW p \in Peers, EndRead(p) PROVE SInv'
  <2>1. Types'
    BY <1>9 DEF EndRead, BridgeInv, DeviceInv, ConnStates, HandlerPcs, WriterPcs
  <2>2. WriteMuHeld'
    <3>1. WritesKept
      BY <1>9 DEF EndRead, BridgeInv, DeviceInv, WritesKept
    <3> QED  BY <3>1, WritesKeptHeld
  <2>3. BridgeInv'
    BY <1>9 DEF EndRead, BridgeInv
  <2>4. DeviceInv'
    BY <1>9 DEF EndRead, DeviceInv
  <2>5. ConnInv'
    BY <1>9 DEF EndRead, ConnInv
  <2>6. MapInv'
    BY <1>9 DEF EndRead, BridgeInv, DeviceInv, ConnInv, MapInv, Upgraded
  <2>7. OpenIsRegistered'
    <3>1. SocketsKept
      BY <1>9
         DEF EndRead, BridgeInv, DeviceInv, ConnInv, MapInv, Upgraded, SocketsKept,
             AtClose
    <3> QED  BY <3>1, SocketsKeptRegistered
  <2> QED  BY <2>1, <2>2, <2>3, <2>4, <2>5, <2>6, <2>7
<1>10. ASSUME NEW b \in BridgePeers, AppendMailbox(b) PROVE SInv'
  <2>1. Types'
    BY <1>10 DEF AppendMailbox, BridgeInv, DeviceInv, ConnStates, HandlerPcs, WriterPcs
  <2>2. WriteMuHeld'
    <3>1. WritesKept
      BY <1>10 DEF AppendMailbox, BridgeInv, DeviceInv, WritesKept
    <3> QED  BY <3>1, WritesKeptHeld
  <2>3. BridgeInv'
    BY <1>10 DEF AppendMailbox, BridgeInv
  <2>4. DeviceInv'
    BY <1>10 DEF AppendMailbox, DeviceInv
  <2>5. ConnInv'
    BY <1>10 DEF AppendMailbox, ConnInv
  <2>6. MapInv'
    BY <1>10 DEF AppendMailbox, BridgeInv, DeviceInv, ConnInv, MapInv, Upgraded
  <2>7. OpenIsRegistered'
    <3>1. SocketsKept
      BY <1>10
         DEF AppendMailbox, BridgeInv, DeviceInv, ConnInv, MapInv, Upgraded,
             SocketsKept, AtClose
    <3> QED  BY <3>1, SocketsKeptRegistered
  <2> QED  BY <2>1, <2>2, <2>3, <2>4, <2>5, <2>6, <2>7
<1>11. ASSUME NEW b \in BridgePeers, Route(b) PROVE SInv'
  <2>1. Types'
    BY <1>11 DEF Route, BridgeInv, DeviceInv, ConnStates, HandlerPcs, WriterPcs
  <2>2. WriteMuHeld'
    <3>1. WritesKept
      BY <1>11 DEF Route, BridgeInv, DeviceInv, WritesKept
    <3> QED  BY <3>1, WritesKeptHeld
  <2>3. BridgeInv'
    BY <1>11 DEF Route, BridgeInv
  <2>4. DeviceInv'
    BY <1>11 DEF Route, DeviceInv
  <2>5. ConnInv'
    BY <1>11 DEF Route, ConnInv
  <2>6. MapInv'
    BY <1>11 DEF Route, BridgeInv, DeviceInv, ConnInv, MapInv, Upgraded
  <2>7. OpenIsRegistered'
    <3>1. SocketsKept
      BY <1>11
         DEF Route, BridgeInv, DeviceInv, ConnInv, MapInv, Upgraded, SocketsKept,
             AtClose
    <3> QED  BY <3>1, SocketsKeptRegistered
  <2> QED  BY <2>1, <2>2, <2>3, <2>4, <2>5, <2>6, <2>7
<1>12. ASSUME NEW b \in BridgePeers, CheckRoom(b) PROVE SInv'
  <2>1. Types'
    BY <1>12 DEF CheckRoom, BridgeInv, DeviceInv, ConnStates, HandlerPcs, WriterPcs
  <2>2. WriteMuHeld'
    <3>1. WritesKept
      BY <1>12 DEF CheckRoom, BridgeInv, DeviceInv, WritesKept
    <3> QED  BY <3>1, WritesKeptHeld
  <2>3. BridgeInv'
    BY <1>12 DEF CheckRoom, BridgeInv
  <2>4. DeviceInv'
    BY <1>12 DEF CheckRoom, DeviceInv
  <2>5. ConnInv'
    BY <1>12 DEF CheckRoom, ConnInv
  <2>6. MapInv'
    BY <1>12 DEF CheckRoom, BridgeInv, DeviceInv, ConnInv, MapInv, Upgraded
  <2>7. OpenIsRegistered'
    <3>1. SocketsKept
      BY <1>12
         DEF CheckRoom, BridgeInv, DeviceInv, ConnInv, MapInv, Upgraded, SocketsKept,
             AtClose
    <3> QED  BY <3>1, SocketsKeptRegistered
  <2> QED  BY <2>1, <2>2, <2>3, <2>4, <2>5, <2>6, <2>7
<1>13. ASSUME NEW b \in BridgePeers, Send(b) PROVE SInv'
  <2>1. Types'
    <3>1. target[b] \in DevicePeers /\ inHand[b] \in Frames
      BY <1>13 DEF Send, BridgeInv
    <3>2. Append(sendCh[target[b]], inHand[b]) \in Seq(Frames)
      BY <3>1
    <3>3. sendCh' \in [DevicePeers -> Seq(Frames)]
      <4>1. CASE Len(sendCh[target[b]]) < QueueFramesCap
        <5>1. sendCh' = [sendCh EXCEPT ![target[b]] = Append(sendCh[target[b]], inHand[b])]
          BY <1>13, <4>1 DEF Send
        <5> QED  BY <3>1, <3>2, <5>1
      <4>2. CASE ~(Len(sendCh[target[b]]) < QueueFramesCap)
        BY <1>13, <4>2 DEF Send
      <4> QED  BY <4>1, <4>2
    <3>4. \E l \in {"add", "full"} : Goto(b, l)
      BY <1>13 DEF Send
    <3>5. pc' \in [Peers -> HandlerPcs]
      BY <3>4 DEF HandlerPcs
    <3>6. UNCHANGED <<maps, active, conn, mu, target, reader, queueBytes, writer, done, revoker, ghosts>>
      BY <1>13 DEF Send
    <3> QED  BY <3>3, <3>5, <3>6
  <2>2. WriteMuHeld'
    <3>1. WritesKept
      BY <1>13 DEF Send, BridgeInv, DeviceInv, WritesKept
    <3> QED  BY <3>1, WritesKeptHeld
  <2>3. BridgeInv'
    BY <1>13 DEF Send, BridgeInv
  <2>4. DeviceInv'
    BY <1>13 DEF Send, DeviceInv
  <2>5. ConnInv'
    BY <1>13 DEF Send, ConnInv
  <2>6. MapInv'
    BY <1>13 DEF Send, BridgeInv, DeviceInv, ConnInv, MapInv, Upgraded
  <2>7. OpenIsRegistered'
    <3>1. SocketsKept
      BY <1>13
         DEF Send, BridgeInv, DeviceInv, ConnInv, MapInv, Upgraded, SocketsKept, AtClose
    <3> QED  BY <3>1, SocketsKeptRegistered
  <2> QED  BY <2>1, <2>2, <2>3, <2>4, <2>5, <2>6, <2>7
<1>14. ASSUME NEW b \in BridgePeers, AddBytes(b) PROVE SInv'
  <2>1. Types'
    <3>1. target[b] \in DevicePeers /\ BytesOf[inHand[b]] \in Nat
      BY <1>14 DEF AddBytes, BridgeInv
    <3>2. queueBytes' \in [DevicePeers -> Int]
      BY <1>14, <3>1 DEF AddBytes
    <3> QED  BY <1>14, <3>1, <3>2
                DEF AddBytes, BridgeInv, DeviceInv, ConnStates, HandlerPcs, WriterPcs
  <2>2. WriteMuHeld'
    <3>1. WritesKept
      BY <1>14 DEF AddBytes, BridgeInv, DeviceInv, WritesKept
    <3> QED  BY <3>1, WritesKeptHeld
  <2>3. BridgeInv'
    BY <1>14 DEF AddBytes, BridgeInv
  <2>4. DeviceInv'
    BY <1>14 DEF AddBytes, DeviceInv
  <2>5. ConnInv'
    BY <1>14 DEF AddBytes, ConnInv
  <2>6. MapInv'
    BY <1>14 DEF AddBytes, BridgeInv, DeviceInv, ConnInv, MapInv, Upgraded
  <2>7. OpenIsRegistered'
    <3>1. SocketsKept
      BY <1>14
         DEF AddBytes, BridgeInv, DeviceInv, ConnInv, MapInv, Upgraded, SocketsKept,
             AtClose
    <3> QED  BY <3>1, SocketsKeptRegistered
  <2> QED  BY <2>1, <2>2, <2>3, <2>4, <2>5, <2>6, <2>7
<1>15. ASSUME NEW b \in BridgePeers, DisconnectFull(b) PROVE SInv'
  <2>1. Types'
    BY <1>15 DEF DisconnectFull, BridgeInv, DeviceInv, ConnStates, HandlerPcs, WriterPcs
  <2>2. WriteMuHeld'
    <3>1. WritesKept
      BY <1>15 DEF DisconnectFull, BridgeInv, DeviceInv, WritesKept
    <3> QED  BY <3>1, WritesKeptHeld
  <2>3. BridgeInv'
    BY <1>15 DEF DisconnectFull, BridgeInv
  <2>4. DeviceInv'
    BY <1>15 DEF DisconnectFull, DeviceInv
  <2>5. ConnInv'
    BY <1>15 DEF DisconnectFull, ConnInv
  <2>6. MapInv'
    BY <1>15 DEF DisconnectFull, BridgeInv, DeviceInv, ConnInv, MapInv, Upgraded
  <2>7. OpenIsRegistered'
    <3>1. ASSUME NEW x \in DevicePeers, target[b] = x PROVE BeingClosed(x)'
      BY <1>15, <3>1 DEF DisconnectFull, BeingClosed
    <3>2. SocketsKept
      BY <1>15, <3>1 DEF DisconnectFull, BridgeInv, SocketsKept, AtClose
    <3> QED  BY <3>2, SocketsKeptRegistered
  <2> QED  BY <2>1, <2>2, <2>3, <2>4, <2>5, <2>6, <2>7
<1>16. ASSUME NEW b \in BridgePeers, RemoveBridge(b) PROVE SInv'
  <2>1. Types'
    <3>1. \E l \in {"offline", "exit"} : Goto(b, l)
      BY <1>16 DEF RemoveBridge
    <3>2. pc' \in [Peers -> HandlerPcs]
      BY <3>1 DEF HandlerPcs
    <3>3. bridges' \in BridgePeers \cup {NoPeer}
      BY <1>16 DEF RemoveBridge
    <3>4. pending' \in [BridgePeers -> SUBSET DevicePeers]
      <4> DEFINE ds == {devices[d] : d \in Devices} \ {NoPeer}
      <4>1. ds \in SUBSET DevicePeers
        OBVIOUS
      <4>2. CASE bridges = b
        <5>1. pending' = [pending EXCEPT ![b] = ds]
          BY <1>16, <4>2 DEF RemoveBridge
        <5> HIDE DEF ds
        <5> QED  BY <4>1, <5>1
      <4>3. CASE bridges # b
        BY <1>16, <4>3 DEF RemoveBridge
      <4> QED  BY <4>2, <4>3
    <3>5. UNCHANGED <<devices, active, conn, mu, target, inHand, unread, queue, writer, done, revoker, ghosts>>
      BY <1>16 DEF RemoveBridge
    <3> QED  BY <3>2, <3>3, <3>4, <3>5
  <2>2. WriteMuHeld'
    <3>1. WritesKept
      BY <1>16 DEF RemoveBridge, BridgeInv, DeviceInv, WritesKept
    <3> QED  BY <3>1, WritesKeptHeld
  <2>3. BridgeInv'
    BY <1>16 DEF RemoveBridge, BridgeInv
  <2>4. DeviceInv'
    BY <1>16 DEF RemoveBridge, DeviceInv
  <2>5. ConnInv'
    BY <1>16 DEF RemoveBridge, ConnInv
  <2>6. MapInv'
    BY <1>16 DEF RemoveBridge, BridgeInv, DeviceInv, ConnInv, MapInv, Upgraded
  <2>7. OpenIsRegistered'
    <3>1. SocketsKept
      BY <1>16
         DEF RemoveBridge, BridgeInv, DeviceInv, ConnInv, MapInv, Upgraded, SocketsKept,
             AtClose
    <3> QED  BY <3>1, SocketsKeptRegistered
  <2> QED  BY <2>1, <2>2, <2>3, <2>4, <2>5, <2>6, <2>7
<1>17. ASSUME NEW b \in BridgePeers, NextOffline(b) PROVE SInv'
  <2>1. Types'
    <3>1. CASE pending[b] = {}
      <4>1. /\ pc' = [pc EXCEPT ![b] = "exit"] /\ UNCHANGED <<target, pending>>
            /\ UNCHANGED <<maps, active, conn, mu, inHand, unread, queue, writer, done, revoker, ghosts>>
        BY <1>17, <3>1 DEF NextOffline
      <4>2. pc' \in [Peers -> HandlerPcs]
        BY <4>1 DEF HandlerPcs
      <4> QED  BY <4>1, <4>2
    <3>2. CASE pending[b] # {}
      <4>1. PICK x \in pending[b] : /\ GotoWith(b, "closeOffline", x)
                                   /\ pending' = [pending EXCEPT ![b] = @ \ {x}]
        BY <1>17, <3>2 DEF NextOffline
      <4>2. x \in DevicePeers
        OBVIOUS
      <4>3. pc' \in [Peers -> HandlerPcs] /\ target' \in [Peers -> Peers \cup {NoPeer}]
        BY <4>1, <4>2 DEF HandlerPcs
      <4>4. pending' \in [BridgePeers -> SUBSET DevicePeers]
        BY <4>1
      <4>5. UNCHANGED <<maps, active, conn, mu, inHand, unread, queue, writer, done, revoker, ghosts>>
        BY <1>17 DEF NextOffline
      <4> QED  BY <4>3, <4>4, <4>5
    <3> QED  BY <3>1, <3>2
  <2>2. WriteMuHeld'
    <3>1. WritesKept
      BY <1>17 DEF NextOffline, BridgeInv, DeviceInv, WritesKept
    <3> QED  BY <3>1, WritesKeptHeld
  <2>3. BridgeInv'
    BY <1>17 DEF NextOffline, BridgeInv
  <2>4. DeviceInv'
    BY <1>17 DEF NextOffline, DeviceInv
  <2>5. ConnInv'
    BY <1>17 DEF NextOffline, ConnInv
  <2>6. MapInv'
    BY <1>17 DEF NextOffline, BridgeInv, DeviceInv, ConnInv, MapInv, Upgraded
  <2>7. OpenIsRegistered'
    <3>1. SocketsKept
      BY <1>17
         DEF NextOffline, BridgeInv, DeviceInv, ConnInv, MapInv, Upgraded, SocketsKept,
             AtClose
    <3> QED  BY <3>1, SocketsKeptRegistered
  <2> QED  BY <2>1, <2>2, <2>3, <2>4, <2>5, <2>6, <2>7
<1>18. ASSUME NEW p \in DevicePeers, Authenticate(p) PROVE SInv'
  <2>1. Types'
    BY <1>18 DEF Authenticate, BridgeInv, DeviceInv, ConnStates, HandlerPcs, WriterPcs
  <2>2. WriteMuHeld'
    <3>1. WritesKept
      BY <1>18 DEF Authenticate, BridgeInv, DeviceInv, WritesKept
    <3> QED  BY <3>1, WritesKeptHeld
  <2>3. BridgeInv'
    BY <1>18 DEF Authenticate, BridgeInv
  <2>4. DeviceInv'
    BY <1>18 DEF Authenticate, DeviceInv
  <2>5. ConnInv'
    BY <1>18 DEF Authenticate, ConnInv
  <2>6. MapInv'
    BY <1>18 DEF Authenticate, BridgeInv, DeviceInv, ConnInv, MapInv, Upgraded
  <2>7. OpenIsRegistered'
    <3>1. SocketsKept
      BY <1>18
         DEF Authenticate, BridgeInv, DeviceInv, ConnInv, MapInv, Upgraded, SocketsKept,
             AtClose
    <3> QED  BY <3>1, SocketsKeptRegistered
  <2> QED  BY <2>1, <2>2, <2>3, <2>4, <2>5, <2>6, <2>7
<1>19. ASSUME NEW p \in DevicePeers, ReadDevice(p) PROVE SInv'
  <2>1. Types'
    <3>1. pc' \in [Peers -> HandlerPcs] /\ target' \in [Peers -> Peers \cup {NoPeer}]
      <4>1. CASE Goto(p, "closeSelf") /\ UNCHANGED target
        BY <4>1 DEF HandlerPcs
      <4>2. CASE bridges # NoPeer /\ GotoWith(p, "forward", bridges)
        BY <4>2 DEF HandlerPcs
      <4> QED  BY <1>19, <4>1, <4>2 DEF ReadDevice
    <3>2. UNCHANGED <<maps, active, conn, mu, reader, queue, writer, done, revoker, ghosts>>
      BY <1>19 DEF ReadDevice
    <3> QED  BY <3>1, <3>2
  <2>2. WriteMuHeld'
    <3>1. WritesKept
      BY <1>19 DEF ReadDevice, BridgeInv, DeviceInv, WritesKept
    <3> QED  BY <3>1, WritesKeptHeld
  <2>3. BridgeInv'
    BY <1>19 DEF ReadDevice, BridgeInv
  <2>4. DeviceInv'
    BY <1>19 DEF ReadDevice, DeviceInv
  <2>5. ConnInv'
    BY <1>19 DEF ReadDevice, ConnInv
  <2>6. MapInv'
    BY <1>19 DEF ReadDevice, BridgeInv, DeviceInv, ConnInv, MapInv, Upgraded
  <2>7. OpenIsRegistered'
    <3>1. SocketsKept
      BY <1>19
         DEF ReadDevice, BridgeInv, DeviceInv, ConnInv, MapInv, Upgraded, SocketsKept,
             AtClose
    <3> QED  BY <3>1, SocketsKeptRegistered
  <2> QED  BY <2>1, <2>2, <2>3, <2>4, <2>5, <2>6, <2>7
<1>20. ASSUME NEW p \in DevicePeers, SetDevice(p) PROVE SInv'
  <2>1. Types'
    BY <1>20 DEF SetDevice, BridgeInv, DeviceInv, ConnStates, HandlerPcs, WriterPcs
  <2>2. WriteMuHeld'
    <3>1. WritesKept
      BY <1>20 DEF SetDevice, BridgeInv, DeviceInv, WritesKept
    <3> QED  BY <3>1, WritesKeptHeld
  <2>3. BridgeInv'
    BY <1>20 DEF SetDevice, BridgeInv
  <2>4. DeviceInv'
    BY <1>20 DEF SetDevice, DeviceInv
  <2>5. ConnInv'
    BY <1>20 DEF SetDevice, ConnInv
  <2>6. MapInv'
    BY <1>20 DEF SetDevice, BridgeInv, DeviceInv, ConnInv, MapInv, Upgraded
  <2>7. OpenIsRegistered'
    <3>1. /\ pc[p] = "authed" /\ bridges' = bridges /\ rpc' = rpc /\ rtarget' = rtarget
          /\ devices'[Dev[p]] = p /\ \A d \in Devices \ {Dev[p]} : devices'[d] = devices[d]
          /\ \A x \in Peers \ {p} : conn'[x] = conn[x] /\ pc'[x] = pc[x] /\ target'[x] = target[x]
      BY <1>20 DEF SetDevice
    <3>2. ASSUME NEW x \in Peers, BeingClosed(x) PROVE BeingClosed(x)'
      BY <3>1, <3>2 DEF BeingClosed
    <3>3. ASSUME NEW x \in DevicePeers, devices[Dev[p]] = x PROVE BeingClosed(x)'
      <4>1. pc'[p] = "evict" /\ target'[p] = x
        BY <1>20, <3>3 DEF SetDevice
      <4> QED  BY <4>1 DEF BeingClosed
    <3>4. ASSUME NEW x \in DevicePeers, conn'[x] = "open"
          PROVE  devices'[Dev[x]] = x \/ BeingClosed(x)'
      <4>1. CASE x = p
        BY <3>1, <4>1
      <4>2. CASE x # p
        <5>1. devices[Dev[x]] = x \/ BeingClosed(x)
          BY <3>1, <3>4, <4>2 DEF OpenIsRegistered
        <5> QED  BY <3>1, <3>2, <3>3, <4>2, <5>1
      <4> QED  BY <4>1, <4>2
    <3>5. ASSUME NEW x \in BridgePeers, conn'[x] = "open" PROVE bridges' = x \/ BeingClosed(x)'
      <4>1. x # p
        OBVIOUS
      <4>2. conn[x] = "open"
        BY <3>1, <3>5, <4>1
      <4>3. bridges = x \/ BeingClosed(x)
        BY <4>2 DEF OpenIsRegistered
      <4> QED  BY <3>1, <3>2, <4>3
    <3> QED  BY <3>4, <3>5 DEF OpenIsRegistered
  <2> QED  BY <2>1, <2>2, <2>3, <2>4, <2>5, <2>6, <2>7
<1>21. ASSUME NEW p \in DevicePeers, Forwarded(p) PROVE SInv'
  <2>1. Types'
    BY <1>21 DEF Forwarded, BridgeInv, DeviceInv, ConnStates, HandlerPcs, WriterPcs
  <2>2. WriteMuHeld'
    <3>1. target[p] \in BridgePeers /\ pc[p] = "forwarding"
      BY <1>21 DEF Forwarded, DeviceInv
    <3>2. /\ mu' = [mu EXCEPT ![target[p]] = FALSE] /\ wpc' = wpc /\ pc'[p] # "forwarding"
          /\ \A q \in DevicePeers \ {p} : pc'[q] = pc[q] /\ target'[q] = target[q]
      BY <1>21, <3>1 DEF Forwarded
    <3> QED  BY <3>1, <3>2, ForwardedHeld
  <2>3. BridgeInv'
    BY <1>21 DEF Forwarded, BridgeInv
  <2>4. DeviceInv'
    BY <1>21 DEF Forwarded, DeviceInv
  <2>5. ConnInv'
    BY <1>21 DEF Forwarded, ConnInv
  <2>6. MapInv'
    BY <1>21 DEF Forwarded, BridgeInv, DeviceInv, ConnInv, MapInv, Upgraded
  <2>7. OpenIsRegistered'
    <3>1. SocketsKept
      BY <1>21
         DEF Forwarded, BridgeInv, DeviceInv, ConnInv, MapInv, Upgraded, SocketsKept,
             AtClose
    <3> QED  BY <3>1, SocketsKeptRegistered
  <2> QED  BY <2>1, <2>2, <2>3, <2>4, <2>5, <2>6, <2>7
<1>22. ASSUME NEW p \in DevicePeers, ShutdownWriter(p) PROVE SInv'
  <2>1. Types'
    BY <1>22 DEF ShutdownWriter, BridgeInv, DeviceInv, ConnStates, HandlerPcs, WriterPcs
  <2>2. WriteMuHeld'
    <3>1. WritesKept
      BY <1>22 DEF ShutdownWriter, BridgeInv, DeviceInv, WritesKept
    <3> QED  BY <3>1, WritesKeptHeld
  <2>3. BridgeInv'
    BY <1>22 DEF ShutdownWriter, BridgeInv
  <2>4. DeviceInv'
    BY <1>22 DEF ShutdownWriter, DeviceInv
  <2>5. ConnInv'
    BY <1>22 DEF ShutdownWriter, ConnInv
  <2>6. MapInv'
    BY <1>22 DEF ShutdownWriter, BridgeInv, DeviceInv, ConnInv, MapInv, Upgraded
  <2>7. OpenIsRegistered'
    <3>1. SocketsKept
      BY <1>22
         DEF ShutdownWriter, BridgeInv, DeviceInv, ConnInv, MapInv, Upgraded,
             SocketsKept, AtClose
    <3> QED  BY <3>1, SocketsKeptRegistered
  <2> QED  BY <2>1, <2>2, <2>3, <2>4, <2>5, <2>6, <2>7
<1>23. ASSUME NEW p \in DevicePeers, RemoveDevice(p) PROVE SInv'
  <2>1. Types'
    BY <1>23 DEF RemoveDevice, BridgeInv, DeviceInv, ConnStates, HandlerPcs, WriterPcs
  <2>2. WriteMuHeld'
    <3>1. WritesKept
      BY <1>23 DEF RemoveDevice, BridgeInv, DeviceInv, WritesKept
    <3> QED  BY <3>1, WritesKeptHeld
  <2>3. BridgeInv'
    BY <1>23 DEF RemoveDevice, BridgeInv
  <2>4. DeviceInv'
    BY <1>23 DEF RemoveDevice, DeviceInv
  <2>5. ConnInv'
    BY <1>23 DEF RemoveDevice, ConnInv
  <2>6. MapInv'
    BY <1>23 DEF RemoveDevice, BridgeInv, DeviceInv, ConnInv, MapInv, Upgraded
  <2>7. OpenIsRegistered'
    <3>1. SocketsKept
      BY <1>23
         DEF RemoveDevice, BridgeInv, DeviceInv, ConnInv, MapInv, Upgraded, SocketsKept,
             AtClose
    <3> QED  BY <3>1, SocketsKeptRegistered
  <2> QED  BY <2>1, <2>2, <2>3, <2>4, <2>5, <2>6, <2>7
<1>24. ASSUME NEW p \in DevicePeers, Receive(p) PROVE SInv'
  <2>1. Types'
    BY <1>24 DEF Receive, BridgeInv, DeviceInv, ConnStates, HandlerPcs, WriterPcs
  <2>2. WriteMuHeld'
    <3>1. WritesKept
      BY <1>24 DEF Receive, BridgeInv, DeviceInv, WritesKept
    <3> QED  BY <3>1, WritesKeptHeld
  <2>3. BridgeInv'
    BY <1>24 DEF Receive, BridgeInv
  <2>4. DeviceInv'
    BY <1>24 DEF Receive, DeviceInv
  <2>5. ConnInv'
    BY <1>24 DEF Receive, ConnInv
  <2>6. MapInv'
    BY <1>24 DEF Receive, BridgeInv, DeviceInv, ConnInv, MapInv, Upgraded
  <2>7. OpenIsRegistered'
    <3>1. SocketsKept
      BY <1>24
         DEF Receive, BridgeInv, DeviceInv, ConnInv, MapInv, Upgraded, SocketsKept,
             AtClose
    <3> QED  BY <3>1, SocketsKeptRegistered
  <2> QED  BY <2>1, <2>2, <2>3, <2>4, <2>5, <2>6, <2>7
<1>25. ASSUME NEW p \in DevicePeers, SubtractBytes(p) PROVE SInv'
  <2>1. Types'
    <3>1. BytesOf[writing[p]] \in Nat
      BY <1>25 DEF SubtractBytes, DeviceInv
    <3>2. queueBytes' \in [DevicePeers -> Int]
      BY <1>25, <3>1 DEF SubtractBytes
    <3> QED  BY <1>25, <3>1, <3>2
                DEF SubtractBytes, BridgeInv, DeviceInv, ConnStates, HandlerPcs,
                    WriterPcs
  <2>2. WriteMuHeld'
    <3>1. WritesKept
      BY <1>25 DEF SubtractBytes, BridgeInv, DeviceInv, WritesKept
    <3> QED  BY <3>1, WritesKeptHeld
  <2>3. BridgeInv'
    BY <1>25 DEF SubtractBytes, BridgeInv
  <2>4. DeviceInv'
    BY <1>25 DEF SubtractBytes, DeviceInv
  <2>5. ConnInv'
    BY <1>25 DEF SubtractBytes, ConnInv
  <2>6. MapInv'
    BY <1>25 DEF SubtractBytes, BridgeInv, DeviceInv, ConnInv, MapInv, Upgraded
  <2>7. OpenIsRegistered'
    <3>1. SocketsKept
      BY <1>25
         DEF SubtractBytes, BridgeInv, DeviceInv, ConnInv, MapInv, Upgraded,
             SocketsKept, AtClose
    <3> QED  BY <3>1, SocketsKeptRegistered
  <2> QED  BY <2>1, <2>2, <2>3, <2>4, <2>5, <2>6, <2>7
<1>26. ASSUME NEW p \in DevicePeers, LockWrite(p) PROVE SInv'
  <2>1. Types'
    BY <1>26 DEF LockWrite, BridgeInv, DeviceInv, ConnStates, HandlerPcs, WriterPcs
  <2>2. WriteMuHeld'
    <3>1. WriterHolds'
      BY <1>26 DEF LockWrite, WriteMuHeld, WriterHolds
    <3>2. pc' = pc /\ target' = target /\ \A x \in BridgePeers : mu'[x] <=> mu[x]
      BY <1>26 DEF LockWrite
    <3>3. ForwarderHolds' /\ OneForwarder'
      BY <3>2 DEF WriteMuHeld, ForwarderHolds, OneForwarder
    <3> QED  BY <3>1, <3>3 DEF WriteMuHeld
  <2>3. BridgeInv'
    BY <1>26 DEF LockWrite, BridgeInv
  <2>4. DeviceInv'
    BY <1>26 DEF LockWrite, DeviceInv
  <2>5. ConnInv'
    BY <1>26 DEF LockWrite, ConnInv
  <2>6. MapInv'
    BY <1>26 DEF LockWrite, BridgeInv, DeviceInv, ConnInv, MapInv, Upgraded
  <2>7. OpenIsRegistered'
    <3>1. SocketsKept
      BY <1>26
         DEF LockWrite, BridgeInv, DeviceInv, ConnInv, MapInv, Upgraded, SocketsKept,
             AtClose
    <3> QED  BY <3>1, SocketsKeptRegistered
  <2> QED  BY <2>1, <2>2, <2>3, <2>4, <2>5, <2>6, <2>7
<1>27. ASSUME NEW p \in DevicePeers, WriteOk(p) PROVE SInv'
  <2>1. Types'
    BY <1>27 DEF WriteOk, BridgeInv, DeviceInv, ConnStates, HandlerPcs, WriterPcs
  <2>2. WriteMuHeld'
    <3>1. WriterHolds'
      BY <1>27 DEF WriteOk, WriteMuHeld, WriterHolds
    <3>2. pc' = pc /\ target' = target /\ \A x \in BridgePeers : mu'[x] <=> mu[x]
      BY <1>27 DEF WriteOk
    <3>3. ForwarderHolds' /\ OneForwarder'
      BY <3>2 DEF WriteMuHeld, ForwarderHolds, OneForwarder
    <3> QED  BY <3>1, <3>3 DEF WriteMuHeld
  <2>3. BridgeInv'
    BY <1>27 DEF WriteOk, BridgeInv
  <2>4. DeviceInv'
    BY <1>27 DEF WriteOk, DeviceInv
  <2>5. ConnInv'
    BY <1>27 DEF WriteOk, ConnInv
  <2>6. MapInv'
    BY <1>27 DEF WriteOk, BridgeInv, DeviceInv, ConnInv, MapInv, Upgraded
  <2>7. OpenIsRegistered'
    <3>1. SocketsKept
      BY <1>27
         DEF WriteOk, BridgeInv, DeviceInv, ConnInv, MapInv, Upgraded, SocketsKept,
             AtClose
    <3> QED  BY <3>1, SocketsKeptRegistered
  <2> QED  BY <2>1, <2>2, <2>3, <2>4, <2>5, <2>6, <2>7
<1>28. ASSUME NEW p \in DevicePeers, WriteError(p) PROVE SInv'
  <2>1. Types'
    BY <1>28 DEF WriteError, BridgeInv, DeviceInv, ConnStates, HandlerPcs, WriterPcs
  <2>2. WriteMuHeld'
    <3>1. WriterHolds'
      BY <1>28 DEF WriteError, WriteMuHeld, WriterHolds
    <3>2. pc' = pc /\ target' = target /\ \A x \in BridgePeers : mu'[x] <=> mu[x]
      BY <1>28 DEF WriteError
    <3>3. ForwarderHolds' /\ OneForwarder'
      BY <3>2 DEF WriteMuHeld, ForwarderHolds, OneForwarder
    <3> QED  BY <3>1, <3>3 DEF WriteMuHeld
  <2>3. BridgeInv'
    BY <1>28 DEF WriteError, BridgeInv
  <2>4. DeviceInv'
    BY <1>28 DEF WriteError, DeviceInv
  <2>5. ConnInv'
    BY <1>28 DEF WriteError, ConnInv
  <2>6. MapInv'
    BY <1>28 DEF WriteError, BridgeInv, DeviceInv, ConnInv, MapInv, Upgraded
  <2>7. OpenIsRegistered'
    <3>1. SocketsKept
      BY <1>28
         DEF WriteError, BridgeInv, DeviceInv, ConnInv, MapInv, Upgraded, SocketsKept,
             AtClose
    <3> QED  BY <3>1, SocketsKeptRegistered
  <2> QED  BY <2>1, <2>2, <2>3, <2>4, <2>5, <2>6, <2>7
<1>29. ASSUME NEW p \in DevicePeers, WriterDone(p) PROVE SInv'
  <2>1. Types'
    BY <1>29 DEF WriterDone, BridgeInv, DeviceInv, ConnStates, HandlerPcs, WriterPcs
  <2>2. WriteMuHeld'
    <3>1. WritesKept
      BY <1>29 DEF WriterDone, BridgeInv, DeviceInv, WritesKept
    <3> QED  BY <3>1, WritesKeptHeld
  <2>3. BridgeInv'
    BY <1>29 DEF WriterDone, BridgeInv
  <2>4. DeviceInv'
    BY <1>29 DEF WriterDone, DeviceInv
  <2>5. ConnInv'
    BY <1>29 DEF WriterDone, ConnInv
  <2>6. MapInv'
    BY <1>29 DEF WriterDone, BridgeInv, DeviceInv, ConnInv, MapInv, Upgraded
  <2>7. OpenIsRegistered'
    <3>1. SocketsKept
      BY <1>29
         DEF WriterDone, BridgeInv, DeviceInv, ConnInv, MapInv, Upgraded, SocketsKept,
             AtClose
    <3> QED  BY <3>1, SocketsKeptRegistered
  <2> QED  BY <2>1, <2>2, <2>3, <2>4, <2>5, <2>6, <2>7
<1>30. ASSUME NEW d \in Devices, RevokeDevice(d) PROVE SInv'
  <2>1. Types'
    BY <1>30 DEF RevokeDevice, BridgeInv, DeviceInv, ConnStates, HandlerPcs, WriterPcs
  <2>2. WriteMuHeld'
    <3>1. WritesKept
      BY <1>30 DEF RevokeDevice, BridgeInv, DeviceInv, WritesKept
    <3> QED  BY <3>1, WritesKeptHeld
  <2>3. BridgeInv'
    BY <1>30 DEF RevokeDevice, BridgeInv
  <2>4. DeviceInv'
    BY <1>30 DEF RevokeDevice, DeviceInv
  <2>5. ConnInv'
    BY <1>30 DEF RevokeDevice, ConnInv
  <2>6. MapInv'
    BY <1>30 DEF RevokeDevice, BridgeInv, DeviceInv, ConnInv, MapInv, Upgraded
  <2>7. OpenIsRegistered'
    <3>1. SocketsKept
      BY <1>30
         DEF RevokeDevice, BridgeInv, DeviceInv, ConnInv, MapInv, Upgraded, SocketsKept,
             AtClose
    <3> QED  BY <3>1, SocketsKeptRegistered
  <2> QED  BY <2>1, <2>2, <2>3, <2>4, <2>5, <2>6, <2>7
<1>31. ASSUME NEW d \in Devices, RegisterDevice(d) PROVE SInv'
  <2>1. Types'
    BY <1>31 DEF RegisterDevice, BridgeInv, DeviceInv, ConnStates, HandlerPcs, WriterPcs
  <2>2. WriteMuHeld'
    <3>1. WritesKept
      BY <1>31 DEF RegisterDevice, BridgeInv, DeviceInv, WritesKept
    <3> QED  BY <3>1, WritesKeptHeld
  <2>3. BridgeInv'
    BY <1>31 DEF RegisterDevice, BridgeInv
  <2>4. DeviceInv'
    BY <1>31 DEF RegisterDevice, DeviceInv
  <2>5. ConnInv'
    BY <1>31 DEF RegisterDevice, ConnInv
  <2>6. MapInv'
    BY <1>31 DEF RegisterDevice, BridgeInv, DeviceInv, ConnInv, MapInv, Upgraded
  <2>7. OpenIsRegistered'
    <3>1. SocketsKept
      BY <1>31
         DEF RegisterDevice, BridgeInv, DeviceInv, ConnInv, MapInv, Upgraded,
             SocketsKept, AtClose
    <3> QED  BY <3>1, SocketsKeptRegistered
  <2> QED  BY <2>1, <2>2, <2>3, <2>4, <2>5, <2>6, <2>7
<1>32. ASSUME NEW d \in Devices, LookupRevoked(d) PROVE SInv'
  <2>1. Types'
    BY <1>32 DEF LookupRevoked, BridgeInv, DeviceInv, ConnStates, HandlerPcs, WriterPcs
  <2>2. WriteMuHeld'
    <3>1. WritesKept
      BY <1>32 DEF LookupRevoked, BridgeInv, DeviceInv, WritesKept
    <3> QED  BY <3>1, WritesKeptHeld
  <2>3. BridgeInv'
    BY <1>32 DEF LookupRevoked, BridgeInv
  <2>4. DeviceInv'
    BY <1>32 DEF LookupRevoked, DeviceInv
  <2>5. ConnInv'
    BY <1>32 DEF LookupRevoked, ConnInv
  <2>6. MapInv'
    BY <1>32 DEF LookupRevoked, BridgeInv, DeviceInv, ConnInv, MapInv, Upgraded
  <2>7. OpenIsRegistered'
    <3>1. SocketsKept
      BY <1>32
         DEF LookupRevoked, BridgeInv, DeviceInv, ConnInv, MapInv, Upgraded,
             SocketsKept, AtClose
    <3> QED  BY <3>1, SocketsKeptRegistered
  <2> QED  BY <2>1, <2>2, <2>3, <2>4, <2>5, <2>6, <2>7
<1>33. ASSUME NEW d \in Devices, RemoveRevoked(d) PROVE SInv'
  <2>1. Types'
    BY <1>33 DEF RemoveRevoked, BridgeInv, DeviceInv, ConnStates, HandlerPcs, WriterPcs
  <2>2. WriteMuHeld'
    <3>1. WritesKept
      BY <1>33 DEF RemoveRevoked, BridgeInv, DeviceInv, WritesKept
    <3> QED  BY <3>1, WritesKeptHeld
  <2>3. BridgeInv'
    BY <1>33 DEF RemoveRevoked, BridgeInv
  <2>4. DeviceInv'
    BY <1>33 DEF RemoveRevoked, DeviceInv
  <2>5. ConnInv'
    BY <1>33 DEF RemoveRevoked, ConnInv
  <2>6. MapInv'
    BY <1>33 DEF RemoveRevoked, BridgeInv, DeviceInv, ConnInv, MapInv, Upgraded
  <2>7. OpenIsRegistered'
    <3>1. SocketsKept
      BY <1>33
         DEF RemoveRevoked, BridgeInv, DeviceInv, ConnInv, MapInv, Upgraded,
             SocketsKept, AtClose
    <3> QED  BY <3>1, SocketsKeptRegistered
  <2> QED  BY <2>1, <2>2, <2>3, <2>4, <2>5, <2>6, <2>7
<1>34. ASSUME NEW d \in Devices, CloseRevoked(d) PROVE SInv'
  <2>1. Types'
    BY <1>34 DEF CloseRevoked, BridgeInv, DeviceInv, ConnStates, HandlerPcs, WriterPcs
  <2>2. WriteMuHeld'
    <3>1. WritesKept
      BY <1>34 DEF CloseRevoked, BridgeInv, DeviceInv, WritesKept
    <3> QED  BY <3>1, WritesKeptHeld
  <2>3. BridgeInv'
    BY <1>34 DEF CloseRevoked, BridgeInv
  <2>4. DeviceInv'
    BY <1>34 DEF CloseRevoked, DeviceInv
  <2>5. ConnInv'
    BY <1>34 DEF CloseRevoked, ConnInv
  <2>6. MapInv'
    BY <1>34 DEF CloseRevoked, BridgeInv, DeviceInv, ConnInv, MapInv, Upgraded
  <2>7. OpenIsRegistered'
    <3>1. SocketsKept
      BY <1>34
         DEF CloseRevoked, BridgeInv, DeviceInv, ConnInv, MapInv, Upgraded, SocketsKept,
             AtClose
    <3> QED  BY <3>1, SocketsKeptRegistered
  <2> QED  BY <2>1, <2>2, <2>3, <2>4, <2>5, <2>6, <2>7
<1>35. CASE UNCHANGED vars
  <2>1. Types' /\ BridgeInv' /\ DeviceInv' /\ ConnInv' /\ MapInv'
    BY <1>35 DEF vars, BridgeInv, DeviceInv, ConnInv, MapInv, Upgraded
  <2>2. WriteMuHeld' /\ OpenIsRegistered'
    BY <1>35
       DEF vars, WriteMuHeld, WriterHolds, ForwarderHolds, OneForwarder,
           OpenIsRegistered, BeingClosed
  <2> QED  BY <2>1, <2>2
<1> QED
  BY <1>1, <1>2, <1>3, <1>4, <1>5, <1>6, <1>7, <1>8, <1>9, <1>10, <1>11, <1>12, <1>13, <1>14, <1>15, <1>16, <1>17, <1>18, <1>19, <1>20, <1>21, <1>22, <1>23, <1>24, <1>25, <1>26, <1>27, <1>28, <1>29, <1>30, <1>31, <1>32, <1>33, <1>34, <1>35
  DEF Next, Closing, BridgeStep, DeviceStep, WriterStep, RevokeStep

\* The initial state satisfies it.
LEMMA SInvInit == Init => SInv
<1> SUFFICES ASSUME Init PROVE SInv
  OBVIOUS
<1>1. Types
  BY SocketsAssumption DEF Init, Types, ConnStates, HandlerPcs, WriterPcs
<1>2. WriteMuHeld
  BY DEF Init, WriteMuHeld, WriterHolds, ForwarderHolds, OneForwarder
<1>3. BridgeInv /\ DeviceInv /\ ConnInv /\ MapInv
  BY DEF Init, BridgeInv, DeviceInv, ConnInv, MapInv
<1>4. OpenIsRegistered
  BY DEF Init, OpenIsRegistered
<1> QED  BY <1>1, <1>2, <1>3, <1>4 DEF SInv, TypeOK

\* Every variable keeps its type, and writeMu is held by the one goroutine that is
\* inside write on that socket and by nobody else.
THEOREM TypeCorrect == Spec => []TypeOK
<1>1. SInv => TypeOK
  BY DEF SInv
<1> QED  BY <1>1, SInvInit, SInvStep, PTL DEF Spec

\* No socket is forgotten: an open socket is in the map or about to be closed,
\* however late the handlers of replaced, full, revoked or lost sockets end.
THEOREM SocketsSafe == Spec => []OpenIsRegistered
<1>1. SInv => OpenIsRegistered
  BY DEF SInv
<1> QED  BY <1>1, SInvInit, SInvStep, PTL DEF Spec

-----------------------------------------------------------------------------
(* The bytes and the order of the frames.                                  *)

HandBytes == [b \in BridgePeers |-> BytesOf[inHand[b]]]

\* The handlers that have passed the byte check for p and not yet added.
Passed(p) == {b \in BridgePeers : pc[b] \in {"send", "add"} /\ target[b] = p}

\* queueBytes, and what those that have passed the check will add to it: at most
\* the bound, and a frame of every handler but the last to pass.
PassedBounded ==
  \A p \in DevicePeers : \A n \in {BytesOf[f] : f \in Frames} :
    (\A f \in Frames : BytesOf[f] <= n) =>
      queueBytes[p] + SumFunctionOnSet(HandBytes, Passed(p))
        <= QueueBytesCap + (Cardinality(BridgePeers) - 1) * n

BytesInv == QueueBytesSettled /\ PassedBounded

\* A bridge handler that has its frame's fate still to decide, and one that has
\* looked up the socket for it.
Deciding == {"route", "append", "check", "send", "full"}
AtQueue  == {"check", "send", "full"}
Carrying == {"subtract", "lock", "write"}

\* The frames that p's writer has still to write.
Carried(p) == ToSet(sendCh[p]) \cup (IF wpc[p] \in Carrying THEN {writing[p]} ELSE {})

\* The frames of a bridge are read in their order.
ReadOrder == \A g \in Frames \ unread, u \in unread : SrcOf[g] = SrcOf[u] => g < u

\* What a handler has in hand came from its own socket, and is the last it read.
HandOwn ==
  \A b \in BridgePeers : inHand[b] \in Frames => SrcOf[inHand[b]] = b /\ inHand[b] \notin unread

HandNewest ==
  \A g \in Frames \ unread : inHand[SrcOf[g]] \in Frames /\ g <= inHand[SrcOf[g]]

\* What a device socket carries was read before what its bridge still decides on.
CarriedOlder ==
  \A p \in DevicePeers : \A g \in Carried(p) :
    /\ g \in Frames \ unread
    /\ pc[SrcOf[g]] \in Deciding => g # inHand[SrcOf[g]]

\* A socket found in the map was upgraded, and is not put there again.
TargetUpgraded == \A b \in BridgePeers : pc[b] \in AtQueue => Upgraded(target[b])

\* After a frame is lost, its writer has ended, or the socket is out of the map and
\* neither carries a later frame of the same bridge nor is about to get one.
LostLast ==
  \A p \in DevicePeers : \A f \in lost[p] :
    /\ Upgraded(p)
    /\ \/ wpc[p] = "exit"
       \/ /\ devices[Dev[p]] # p
          /\ \A g \in Carried(p) : SrcOf[g] = SrcOf[f] => g < f
          /\ pc[SrcOf[f]] \in AtQueue => target[SrcOf[f]] # p

OrderInv == ReadOrder /\ HandOwn /\ HandNewest /\ CarriedOlder /\ TargetUpgraded /\ LostLast

FInv == SInv /\ BytesInv /\ OrderInv

\* The queues and the counters stay, nobody passes the check, and nobody adds or
\* subtracts.
BytesKept ==
  /\ UNCHANGED <<sendCh, queueBytes>>
  /\ \A b \in BridgePeers :
       /\ pc'[b] \in {"send", "add"} =>
            pc'[b] = pc[b] /\ target'[b] = target[b] /\ inHand'[b] = inHand[b]
       /\ pc[b] = "add" => pc'[b] = "add"
  /\ \A p \in DevicePeers :
       /\ wpc'[p] = "subtract" <=> wpc[p] = "subtract"
       /\ wpc[p] = "subtract" => writing'[p] = writing[p]

\* No frame is read, queued, received or lost, no handler begins to decide, and no
\* socket that was upgraded is put into the map.
OrderKept ==
  /\ UNCHANGED <<unread, inHand, sendCh, lost>>
  /\ \A b \in BridgePeers :
       /\ pc'[b] \in Deciding => pc[b] \in Deciding
       /\ pc'[b] \in AtQueue => pc[b] \in AtQueue /\ target'[b] = target[b]
  /\ \A p \in DevicePeers :
       /\ wpc'[p] \in Carrying => wpc[p] \in Carrying /\ writing'[p] = writing[p]
       /\ wpc[p] = "exit" => wpc'[p] = "exit"
       /\ Upgraded(p) => Upgraded(p)' /\ (devices'[Dev[p]] = p => devices[Dev[p]] = p)

\* Steps that neither move a frame nor count it.
LEMMA QuietSteps ==
  ASSUME SInv, [Next]_vars,
         ~ \E b \in BridgePeers : ReadBridge(b) \/ Route(b) \/ CheckRoom(b) \/ Send(b)
                                  \/ AddBytes(b) \/ DisconnectFull(b),
         ~ \E p \in DevicePeers : Receive(p) \/ SubtractBytes(p) \/ WriteError(p)
  PROVE  BytesKept /\ OrderKept
<1> USE SocketsAssumption
    DEF SInv, TypeOK, Types, Goto, GotoWith, CloseConn, Unregister, Event, BridgeInv, DeviceInv
<1>1. ASSUME NEW p \in Peers, Drop(p) PROVE BytesKept /\ OrderKept
  BY <1>1 DEF Drop, BytesKept, OrderKept, Carrying, AtQueue, Deciding, Upgraded
<1>2. ASSUME NEW p \in Peers, Evict(p) PROVE BytesKept /\ OrderKept
  BY <1>2 DEF Evict, BytesKept, OrderKept, Carrying, AtQueue, Deciding, Upgraded
<1>3. ASSUME NEW p \in Peers, CloseSelf(p) PROVE BytesKept /\ OrderKept
  BY <1>3 DEF CloseSelf, BytesKept, OrderKept, Carrying, AtQueue, Deciding, Upgraded
<1>4. ASSUME NEW p \in Peers, CloseFull(p) PROVE BytesKept /\ OrderKept
  BY <1>4 DEF CloseFull, BytesKept, OrderKept, Carrying, AtQueue, Deciding, Upgraded
<1>5. ASSUME NEW p \in Peers, CloseOffline(p) PROVE BytesKept /\ OrderKept
  BY <1>5 DEF CloseOffline, BytesKept, OrderKept, Carrying, AtQueue, Deciding, Upgraded
<1>6. ASSUME NEW p \in Peers, Forward(p) PROVE BytesKept /\ OrderKept
  BY <1>6 DEF Forward, BytesKept, OrderKept, Carrying, AtQueue, Deciding, Upgraded
<1>7. ASSUME NEW p \in Peers, EndRead(p) PROVE BytesKept /\ OrderKept
  BY <1>7 DEF EndRead, BytesKept, OrderKept, Carrying, AtQueue, Deciding, Upgraded
<1>8. ASSUME NEW b \in BridgePeers, SetBridge(b) PROVE BytesKept /\ OrderKept
  BY <1>8 DEF SetBridge, BytesKept, OrderKept, Carrying, AtQueue, Deciding, Upgraded
<1>9. ASSUME NEW b \in BridgePeers, AppendMailbox(b) PROVE BytesKept /\ OrderKept
  BY <1>9 DEF AppendMailbox, BytesKept, OrderKept, Carrying, AtQueue, Deciding, Upgraded
<1>10. ASSUME NEW b \in BridgePeers, RemoveBridge(b) PROVE BytesKept /\ OrderKept
  BY <1>10 DEF RemoveBridge, BytesKept, OrderKept, Carrying, AtQueue, Deciding, Upgraded
<1>11. ASSUME NEW b \in BridgePeers, NextOffline(b) PROVE BytesKept /\ OrderKept
  BY <1>11 DEF NextOffline, BytesKept, OrderKept, Carrying, AtQueue, Deciding, Upgraded
<1>12. ASSUME NEW p \in DevicePeers, Authenticate(p) PROVE BytesKept /\ OrderKept
  BY <1>12 DEF Authenticate, BytesKept, OrderKept, Carrying, AtQueue, Deciding, Upgraded
<1>13. ASSUME NEW p \in DevicePeers, ReadDevice(p) PROVE BytesKept /\ OrderKept
  BY <1>13 DEF ReadDevice, BytesKept, OrderKept, Carrying, AtQueue, Deciding, Upgraded
<1>14. ASSUME NEW p \in DevicePeers, SetDevice(p) PROVE BytesKept /\ OrderKept
  BY <1>14 DEF SetDevice, BytesKept, OrderKept, Carrying, AtQueue, Deciding, Upgraded
<1>15. ASSUME NEW p \in DevicePeers, Forwarded(p) PROVE BytesKept /\ OrderKept
  BY <1>15 DEF Forwarded, BytesKept, OrderKept, Carrying, AtQueue, Deciding, Upgraded
<1>16. ASSUME NEW p \in DevicePeers, ShutdownWriter(p) PROVE BytesKept /\ OrderKept
  BY <1>16 DEF ShutdownWriter, BytesKept, OrderKept, Carrying, AtQueue, Deciding, Upgraded
<1>17. ASSUME NEW p \in DevicePeers, RemoveDevice(p) PROVE BytesKept /\ OrderKept
  BY <1>17 DEF RemoveDevice, BytesKept, OrderKept, Carrying, AtQueue, Deciding, Upgraded
<1>18. ASSUME NEW p \in DevicePeers, LockWrite(p) PROVE BytesKept /\ OrderKept
  BY <1>18 DEF LockWrite, BytesKept, OrderKept, Carrying, AtQueue, Deciding, Upgraded
<1>19. ASSUME NEW p \in DevicePeers, WriteOk(p) PROVE BytesKept /\ OrderKept
  BY <1>19 DEF WriteOk, BytesKept, OrderKept, Carrying, AtQueue, Deciding, Upgraded
<1>20. ASSUME NEW p \in DevicePeers, WriterDone(p) PROVE BytesKept /\ OrderKept
  BY <1>20 DEF WriterDone, BytesKept, OrderKept, Carrying, AtQueue, Deciding, Upgraded
<1>21. ASSUME NEW d \in Devices, RevokeDevice(d) PROVE BytesKept /\ OrderKept
  BY <1>21 DEF RevokeDevice, BytesKept, OrderKept, Carrying, AtQueue, Deciding, Upgraded
<1>22. ASSUME NEW d \in Devices, RegisterDevice(d) PROVE BytesKept /\ OrderKept
  BY <1>22 DEF RegisterDevice, BytesKept, OrderKept, Carrying, AtQueue, Deciding, Upgraded
<1>23. ASSUME NEW d \in Devices, LookupRevoked(d) PROVE BytesKept /\ OrderKept
  BY <1>23 DEF LookupRevoked, BytesKept, OrderKept, Carrying, AtQueue, Deciding, Upgraded
<1>24. ASSUME NEW d \in Devices, RemoveRevoked(d) PROVE BytesKept /\ OrderKept
  BY <1>24 DEF RemoveRevoked, BytesKept, OrderKept, Carrying, AtQueue, Deciding, Upgraded
<1>25. ASSUME NEW d \in Devices, CloseRevoked(d) PROVE BytesKept /\ OrderKept
  BY <1>25 DEF CloseRevoked, BytesKept, OrderKept, Carrying, AtQueue, Deciding, Upgraded
<1>26. CASE UNCHANGED vars
  BY <1>26 DEF vars, BytesKept, OrderKept, Carrying, AtQueue, Deciding, Upgraded
<1> QED
  BY <1>1, <1>2, <1>3, <1>4, <1>5, <1>6, <1>7, <1>8, <1>9, <1>10, <1>11, <1>12, <1>13,
     <1>14, <1>15, <1>16, <1>17, <1>18, <1>19, <1>20, <1>21, <1>22, <1>23, <1>24, <1>25,
     <1>26
  DEF Next, Closing, BridgeStep, DeviceStep, WriterStep, RevokeStep

-----------------------------------------------------------------------------
(* The byte counter.                                                       *)

SettledAt(p) == queueBytes[p] = BytesIn(sendCh[p]) - Unadded(p) + Unsubtracted(p)

BoundedAt(p) ==
  \A n \in {BytesOf[f] : f \in Frames} :
    (\A f \in Frames : BytesOf[f] <= n) =>
      queueBytes[p] + SumFunctionOnSet(HandBytes, Passed(p))
        <= QueueBytesCap + (Cardinality(BridgePeers) - 1) * n

\* The handlers about to send or to add have a frame in hand.
LEMMA HandWeights ==
  ASSUME SInv, NEW p \in DevicePeers
  PROVE  /\ Adding(p) \subseteq Passed(p)
         /\ Weights(HandBytes, Passed(p)) /\ Weights(HandBytes, Adding(p))
         /\ SumFunctionOnSet(HandBytes, Passed(p)) \in Nat
         /\ Unadded(p) = SumFunctionOnSet(HandBytes, Adding(p))
         /\ Unadded(p) \in Nat /\ Unadded(p) <= SumFunctionOnSet(HandBytes, Passed(p))
<1>1. Adding(p) \subseteq Passed(p) /\ Passed(p) \subseteq BridgePeers
  BY DEF Adding, Passed
<1>2. \A b \in Passed(p) : HandBytes[b] \in Nat
  BY SocketsAssumption DEF Passed, HandBytes, SInv, BridgeInv
<1>3. Weights(HandBytes, Passed(p)) /\ Weights(HandBytes, Adding(p))
  BY <1>1, <1>2, FS_Subset, SocketsAssumption DEF Weights
<1>4. Unadded(p) = SumFunctionOnSet(HandBytes, Adding(p))
  BY DEF Unadded, HandBytes
<1> QED  BY <1>1, <1>3, <1>4, SumType, SumSubset

\* BytesIn is the sum along the queue.
LEMMA BytesInAlong == ASSUME NEW q PROVE BytesIn(q) = SumAlong(BytesOf, q)
  BY DEF BytesIn, SumFunction, SumAlong, Along

\* The sums over the same handlers with the same frames in hand.
LEMMA HandSame ==
  ASSUME NEW A, A \subseteq BridgePeers, \A b \in A : inHand'[b] = inHand[b]
  PROVE  SumFunctionOnSet(HandBytes', A) = SumFunctionOnSet(HandBytes, A)
<1>1. IsFiniteSet(A)
  BY FS_Subset, SocketsAssumption
<1>2. \A b \in A : HandBytes'[b] = HandBytes[b]
  BY DEF HandBytes
<1> QED  BY <1>1, <1>2, SumSame

\* A socket that a step does not touch stays settled.
LEMMA SettledKept ==
  ASSUME NEW p \in DevicePeers, SettledAt(p),
         sendCh'[p] = sendCh[p], queueBytes'[p] = queueBytes[p],
         Adding(p)' = Adding(p), \A b \in Adding(p) : inHand'[b] = inHand[b],
         Unsubtracted(p)' = Unsubtracted(p)
  PROVE  SettledAt(p)'
<1>1. SumFunctionOnSet(HandBytes', Adding(p)) = SumFunctionOnSet(HandBytes, Adding(p))
  BY HandSame DEF Adding
<1>2. Unadded(p)' = Unadded(p)
  BY <1>1 DEF Unadded, HandBytes
<1>3. BytesIn(sendCh[p])' = BytesIn(sendCh[p])
  BY DEF BytesIn
<1> QED  BY <1>2, <1>3 DEF SettledAt

\* The bound is a number.
LEMMA BoundInt ==
  ASSUME NEW n \in {BytesOf[f] : f \in Frames}
  PROVE  /\ n \in Nat /\ Cardinality(BridgePeers) \in Nat
         /\ QueueBytesCap + (Cardinality(BridgePeers) - 1) * n \in Int
<1>1. n \in Nat /\ Cardinality(BridgePeers) \in Nat /\ QueueBytesCap \in Nat
  BY SocketsAssumption, FS_CardinalityType
<1> QED  BY <1>1

\* Fewer handlers past the check and no more bytes keep the bound.
LEMMA BoundedKept ==
  ASSUME SInv, SInv', NEW p \in DevicePeers, BoundedAt(p),
         queueBytes'[p] <= queueBytes[p], Passed(p)' \subseteq Passed(p),
         \A b \in Passed(p)' : inHand'[b] = inHand[b]
  PROVE  BoundedAt(p)'
<1>1. SumFunctionOnSet(HandBytes', Passed(p)') = SumFunctionOnSet(HandBytes, Passed(p)')
  <2> DEFINE A == Passed(p)'
  <2>1. A \subseteq BridgePeers /\ \A b \in A : inHand'[b] = inHand[b]
    BY DEF Passed
  <2> HIDE DEF A
  <2>2. SumFunctionOnSet(HandBytes', A) = SumFunctionOnSet(HandBytes, A)
    BY <2>1, HandSame
  <2> QED  BY <2>2 DEF A
<1>2. SumFunctionOnSet(HandBytes, Passed(p)') <= SumFunctionOnSet(HandBytes, Passed(p))
  BY HandWeights, SumSubset
<1>3. /\ SumFunctionOnSet(HandBytes, Passed(p)') \in Nat
      /\ SumFunctionOnSet(HandBytes, Passed(p)) \in Nat
  <2>1. Weights(HandBytes, Passed(p)')
    BY HandWeights, FS_Subset DEF Weights
  <2> QED  BY <2>1, SumType, HandWeights
<1>4. queueBytes[p] \in Int /\ queueBytes'[p] \in Int
  BY DEF SInv, TypeOK, Types
<1> SUFFICES ASSUME NEW n \in {BytesOf[f] : f \in Frames}, \A f \in Frames : BytesOf[f] <= n
             PROVE  queueBytes'[p] + SumFunctionOnSet(HandBytes', Passed(p)')
                      <= QueueBytesCap + (Cardinality(BridgePeers) - 1) * n
  BY DEF BoundedAt
<1> DEFINE B == QueueBytesCap + (Cardinality(BridgePeers) - 1) * n
           x == SumFunctionOnSet(HandBytes, Passed(p)')
           y == SumFunctionOnSet(HandBytes, Passed(p))
<1>5. queueBytes[p] + y <= B
  BY DEF BoundedAt
<1>6. B \in Int
  BY BoundInt
<1>7. queueBytes'[p] + x <= B
  <2> HIDE DEF B, x, y
  <2>1. x \in Nat /\ y \in Nat /\ x <= y
    BY <1>2, <1>3 DEF x, y
  <2> QED  BY <1>4, <1>5, <1>6, <2>1
<1> QED  BY <1>1, <1>7

\* A step that neither counts nor queues keeps both.
LEMMA BytesKeptInv ==
  ASSUME SInv, SInv', BytesInv, BytesKept
  PROVE  BytesInv'
<1> SUFFICES ASSUME NEW p \in DevicePeers PROVE SettledAt(p)' /\ BoundedAt(p)'
  BY DEF BytesInv, QueueBytesSettled, PassedBounded, SettledAt, BoundedAt
<1>1. SettledAt(p) /\ BoundedAt(p)
  BY DEF BytesInv, QueueBytesSettled, PassedBounded, SettledAt, BoundedAt
<1>2. /\ sendCh'[p] = sendCh[p] /\ queueBytes'[p] = queueBytes[p]
      /\ Adding(p)' = Adding(p) /\ \A b \in Adding(p) : inHand'[b] = inHand[b]
      /\ Unsubtracted(p)' = Unsubtracted(p)
  BY DEF BytesKept, Adding, Unsubtracted
<1>3. SettledAt(p)'
  BY <1>1, <1>2, SettledKept
<1>4. /\ Passed(p)' \subseteq Passed(p) /\ \A b \in Passed(p)' : inHand'[b] = inHand[b]
      /\ queueBytes'[p] <= queueBytes[p]
  BY <1>2 DEF BytesKept, Passed, SInv, TypeOK, Types
<1>5. BoundedAt(p)'
  BY <1>1, <1>4, BoundedKept
<1> QED  BY <1>3, <1>5

\* A handler passes the check: the bytes and its frame fit, and every other handler
\* has at most one frame on its way.
LEMMA CheckBytes ==
  ASSUME SInv, SInv', BytesInv, NEW b \in BridgePeers, CheckRoom(b)
  PROVE  BytesInv'
<1> DEFINE t == target[b]
           f == inHand[b]
<1>1. /\ pc[b] = "check" /\ t \in DevicePeers /\ f \in Frames
      /\ UNCHANGED <<sendCh, queueBytes, wpc, writing, inHand, target>>
      /\ pc' = [pc EXCEPT ![b] = IF HasRoom(t, f) THEN "send" ELSE "full"]
      /\ pc \in [Peers -> HandlerPcs]
  BY DEF CheckRoom, Goto, SInv, TypeOK, Types, BridgeInv
<1>2. CASE ~HasRoom(t, f)
  <2>1. BytesKept
    BY <1>1, <1>2 DEF BytesKept
  <2> QED  BY <2>1, BytesKeptInv
<1>3. CASE HasRoom(t, f)
  <2>1. pc' = [pc EXCEPT ![b] = "send"]
    BY <1>1, <1>3
  <2> SUFFICES ASSUME NEW p \in DevicePeers PROVE SettledAt(p)' /\ BoundedAt(p)'
    BY DEF BytesInv, QueueBytesSettled, PassedBounded, SettledAt, BoundedAt
  <2>2. SettledAt(p) /\ BoundedAt(p)
    BY DEF BytesInv, QueueBytesSettled, PassedBounded, SettledAt, BoundedAt
  <2>3. SettledAt(p)'
    <3>1. /\ sendCh'[p] = sendCh[p] /\ queueBytes'[p] = queueBytes[p]
          /\ Adding(p)' = Adding(p) /\ \A x \in Adding(p) : inHand'[x] = inHand[x]
          /\ Unsubtracted(p)' = Unsubtracted(p)
      BY <1>1, <2>1 DEF Adding, Unsubtracted
    <3> QED  BY <2>2, <3>1, SettledKept
  <2>4. CASE p # t
    <3>1. /\ Passed(p)' \subseteq Passed(p) /\ \A x \in Passed(p)' : inHand'[x] = inHand[x]
          /\ queueBytes'[p] <= queueBytes[p]
      BY <1>1, <2>1, <2>4 DEF Passed, SInv, TypeOK, Types
    <3> QED  BY <2>2, <2>3, <3>1, BoundedKept
  <2>5. CASE p = t
    <3>1. Passed(p)' = Passed(p) \cup {b} /\ b \notin Passed(p) /\ HandBytes' = HandBytes
          /\ Passed(p) \subseteq BridgePeers \ {b}
      BY <1>1, <2>1, <2>5 DEF Passed, HandBytes
    <3>2. /\ queueBytes'[p] = queueBytes[p] /\ queueBytes[p] \in Int
          /\ HandBytes[b] = BytesOf[f] /\ BytesOf[f] \in Nat
          /\ queueBytes[p] + HandBytes[b] <= QueueBytesCap
      BY <1>1, <1>3, <2>5, SocketsAssumption DEF HasRoom, HandBytes, SInv, TypeOK, Types
    <3>3. SumFunctionOnSet(HandBytes', Passed(p)')
            = HandBytes[b] + SumFunctionOnSet(HandBytes, Passed(p))
      <4>1. Weights(HandBytes, Passed(p)) /\ HandBytes[b] \in Nat /\ b \notin Passed(p)
        BY <3>1, <3>2, HandWeights
      <4>2. SumFunctionOnSet(HandBytes, Passed(p) \cup {b})
              = HandBytes[b] + SumFunctionOnSet(HandBytes, Passed(p))
        BY <4>1, SumAdd
      <4> QED  BY <3>1, <4>2
    <3>4. SUFFICES ASSUME NEW n \in {BytesOf[g] : g \in Frames},
                          \A g \in Frames : BytesOf[g] <= n
                   PROVE  queueBytes'[p] + SumFunctionOnSet(HandBytes', Passed(p)')
                            <= QueueBytesCap + (Cardinality(BridgePeers) - 1) * n
      BY <2>3 DEF BoundedAt
    <3> DEFINE N == Cardinality(BridgePeers)
               c == Cardinality(Passed(p))
               y == SumFunctionOnSet(HandBytes, Passed(p))
    <3>5. n \in Nat /\ N \in Nat /\ QueueBytesCap \in Nat
      BY BoundInt, SocketsAssumption
    <3>6. c \in Nat /\ c <= N - 1
      <4>1. IsFiniteSet(BridgePeers \ {b}) /\ Cardinality(BridgePeers \ {b}) = N - 1
        BY SocketsAssumption, FS_RemoveElement
      <4> QED  BY <3>1, <4>1, FS_Subset, FS_CardinalityType
    <3>7. y \in Nat /\ y <= c * n
      <4>1. \A x \in Passed(p) : HandBytes[x] <= n
        BY <3>4 DEF Passed, HandBytes, SInv, BridgeInv
      <4> QED  BY <3>5, <4>1, HandWeights, SumBound
    <3>8. c * n <= (N - 1) * n
      <4> HIDE DEF N, c
      <4>1. PICK d \in Nat : N - 1 = c + d
        <5>1. (N - 1) - c \in Nat /\ N - 1 = c + ((N - 1) - c)
          BY <3>5, <3>6
        <5> QED  BY <5>1
      <4>2. (c + d) * n = c * n + d * n
        BY <3>5, <3>6
      <4>3. d * n \in Nat /\ c * n \in Nat
        BY <3>5, <3>6
      <4> QED  BY <4>1, <4>2, <4>3
    <3>9. queueBytes[p] + (HandBytes[b] + y) <= QueueBytesCap + (N - 1) * n
      <4> DEFINE u == c * n
                 v == (N - 1) * n
      <4>1. u \in Nat /\ v \in Int
        <5> HIDE DEF N, c
        <5> QED  BY <3>5, <3>6
      <4>2. y <= u /\ u <= v
        BY <3>7, <3>8
      <4> HIDE DEF u, v, y
      <4> QED  BY <3>2, <3>5, <3>7, <4>1, <4>2 DEF v
    <3> QED  BY <3>2, <3>3, <3>9
  <2> QED  BY <2>3, <2>4, <2>5
<1> QED  BY <1>2, <1>3

\* The frame is put into the queue, or the queue is full.
LEMMA SendBytes ==
  ASSUME SInv, SInv', BytesInv, NEW b \in BridgePeers, Send(b)
  PROVE  BytesInv'
<1> DEFINE t == target[b]
           f == inHand[b]
<1>1. /\ pc[b] = "send" /\ t \in DevicePeers /\ f \in Frames
      /\ UNCHANGED <<queueBytes, wpc, writing, inHand, target>>
      /\ pc \in [Peers -> HandlerPcs] /\ sendCh \in [DevicePeers -> Seq(Frames)]
  BY DEF Send, SInv, TypeOK, Types, BridgeInv
<1>2. CASE ~(Len(sendCh[t]) < QueueFramesCap)
  <2>1. sendCh' = sendCh /\ pc' = [pc EXCEPT ![b] = "full"]
    BY <1>2 DEF Send, Goto
  <2>2. BytesKept
    BY <1>1, <2>1 DEF BytesKept
  <2> QED  BY <2>2, BytesKeptInv
<1>3. CASE Len(sendCh[t]) < QueueFramesCap
  <2>1. sendCh' = [sendCh EXCEPT ![t] = Append(@, f)] /\ pc' = [pc EXCEPT ![b] = "add"]
    BY <1>3 DEF Send, Goto
  <2> SUFFICES ASSUME NEW p \in DevicePeers PROVE SettledAt(p)' /\ BoundedAt(p)'
    BY DEF BytesInv, QueueBytesSettled, PassedBounded, SettledAt, BoundedAt
  <2>2. SettledAt(p) /\ BoundedAt(p)
    BY DEF BytesInv, QueueBytesSettled, PassedBounded, SettledAt, BoundedAt
  <2>3. BoundedAt(p)'
    <3>1. /\ Passed(p)' \subseteq Passed(p) /\ \A x \in Passed(p)' : inHand'[x] = inHand[x]
          /\ queueBytes'[p] <= queueBytes[p]
      BY <1>1, <2>1 DEF Passed, SInv, TypeOK, Types
    <3> QED  BY <2>2, <3>1, BoundedKept
  <2>4. CASE p # t
    <3>1. /\ sendCh'[p] = sendCh[p] /\ queueBytes'[p] = queueBytes[p]
          /\ Adding(p)' = Adding(p) /\ \A x \in Adding(p) : inHand'[x] = inHand[x]
          /\ Unsubtracted(p)' = Unsubtracted(p)
      BY <1>1, <2>1, <2>4 DEF Adding, Unsubtracted
    <3> QED  BY <2>2, <2>3, <3>1, SettledKept
  <2>5. CASE p = t
    <3>1. /\ Adding(p)' = Adding(p) \cup {b} /\ b \notin Adding(p) /\ HandBytes' = HandBytes
          /\ HandBytes[b] = BytesOf[f] /\ BytesOf[f] \in Nat
          /\ Unsubtracted(p)' = Unsubtracted(p) /\ queueBytes'[p] = queueBytes[p]
      <4>1. Adding(p)' = Adding(p) \cup {b} /\ b \notin Adding(p)
        BY <1>1, <2>1, <2>5 DEF Adding
      <4>2. HandBytes' = HandBytes /\ HandBytes[b] = BytesOf[f]
        BY <1>1 DEF HandBytes
      <4>3. BytesOf[f] \in Nat
        BY <1>1, SocketsAssumption
      <4>4. Unsubtracted(p)' = Unsubtracted(p) /\ queueBytes'[p] = queueBytes[p]
        BY <1>1 DEF Unsubtracted
      <4> QED  BY <4>1, <4>2, <4>3, <4>4
    <3>2. Unadded(p)' = BytesOf[f] + Unadded(p) /\ Unadded(p) \in Nat
      <4>1. Weights(HandBytes, Adding(p)) /\ HandBytes[b] \in Nat /\ b \notin Adding(p)
            /\ Unadded(p) = SumFunctionOnSet(HandBytes, Adding(p)) /\ Unadded(p) \in Nat
        BY <3>1, HandWeights
      <4>2. SumFunctionOnSet(HandBytes, Adding(p) \cup {b})
              = HandBytes[b] + SumFunctionOnSet(HandBytes, Adding(p))
        BY <4>1, SumAdd
      <4>3. Unadded(p)' = SumFunctionOnSet(HandBytes', Adding(p)')
        BY DEF Unadded, HandBytes
      <4> QED  BY <3>1, <4>1, <4>2, <4>3
    <3>3. BytesIn(sendCh[p])' = BytesOf[f] + BytesIn(sendCh[p]) /\ BytesIn(sendCh[p]) \in Nat
      <4>1. sendCh'[p] = Append(sendCh[p], f) /\ sendCh[p] \in Seq(Frames)
        BY <1>1, <2>1, <2>5
      <4>2. /\ SumAlong(BytesOf, Append(sendCh[p], f)) = BytesOf[f] + SumAlong(BytesOf, sendCh[p])
            /\ SumAlong(BytesOf, sendCh[p]) \in Nat
        <5>1. \A x \in Frames : BytesOf[x] \in Nat
          BY SocketsAssumption
        <5>2. SumAlong(BytesOf, sendCh[p]) \in Nat
          <6> DEFINE q == sendCh[p]
          <6>1. q \in Seq(Frames)
            BY <4>1
          <6> HIDE DEF q
          <6>2. SumAlong(BytesOf, q) \in Nat
            BY <5>1, <6>1, AlongType
          <6> QED  BY <6>2 DEF q
        <5>3. SumAlong(BytesOf, Append(sendCh[p], f)) = BytesOf[f] + SumAlong(BytesOf, sendCh[p])
          <6> DEFINE q == sendCh[p]
          <6>1. q \in Seq(Frames) /\ f \in Frames
            BY <1>1, <4>1
          <6> HIDE DEF q, f
          <6>2. SumAlong(BytesOf, Append(q, f)) = BytesOf[f] + SumAlong(BytesOf, q)
            BY <5>1, <6>1, AlongAppend
          <6> QED  BY <6>2 DEF q
        <5> QED  BY <5>2, <5>3
      <4>3. BytesIn(sendCh[p])' = BytesIn(sendCh'[p])
        BY DEF BytesIn
      <4> QED  BY <4>1, <4>2, <4>3, BytesInAlong
    <3>4. Unsubtracted(p) \in Nat
      BY SocketsAssumption DEF Unsubtracted, SInv, DeviceInv
    <3>5. SettledAt(p)'
      <4>1. queueBytes[p] = BytesIn(sendCh[p]) - Unadded(p) + Unsubtracted(p)
        BY <2>2 DEF SettledAt
      <4>2. queueBytes'[p] = BytesIn(sendCh[p])' - Unadded(p)' + Unsubtracted(p)'
        BY <3>1, <3>2, <3>3, <3>4, <4>1
      <4> QED  BY <4>2 DEF SettledAt
    <3> QED  BY <2>3, <3>5
  <2> QED  BY <2>4, <2>5
<1> QED  BY <1>2, <1>3

\* The bytes are added after the send.
LEMMA AddBytesBytes ==
  ASSUME SInv, SInv', BytesInv, NEW b \in BridgePeers, AddBytes(b)
  PROVE  BytesInv'
<1> DEFINE t == target[b]
           f == inHand[b]
<1>1. /\ pc[b] = "add" /\ t \in DevicePeers /\ f \in Frames
      /\ UNCHANGED <<sendCh, wpc, writing, inHand>>
      /\ queueBytes' = [queueBytes EXCEPT ![t] = @ + BytesOf[f]]
      /\ pc' = [pc EXCEPT ![b] = "read"] /\ target' = [target EXCEPT ![b] = NoPeer]
      /\ pc \in [Peers -> HandlerPcs] /\ queueBytes \in [DevicePeers -> Int]
      /\ target \in [Peers -> Peers \cup {NoPeer}]
  BY DEF AddBytes, GotoWith, Goto, SInv, TypeOK, Types, BridgeInv
<1> SUFFICES ASSUME NEW p \in DevicePeers PROVE SettledAt(p)' /\ BoundedAt(p)'
  BY DEF BytesInv, QueueBytesSettled, PassedBounded, SettledAt, BoundedAt
<1>2. SettledAt(p) /\ BoundedAt(p)
  BY DEF BytesInv, QueueBytesSettled, PassedBounded, SettledAt, BoundedAt
<1>3. CASE p # t
  <2>1. /\ sendCh'[p] = sendCh[p] /\ queueBytes'[p] = queueBytes[p]
        /\ Adding(p)' = Adding(p) /\ \A x \in Adding(p) : inHand'[x] = inHand[x]
        /\ Unsubtracted(p)' = Unsubtracted(p)
    BY <1>1, <1>3 DEF Adding, Unsubtracted
  <2>2. SettledAt(p)'
    BY <1>2, <2>1, SettledKept
  <2>3. /\ Passed(p)' \subseteq Passed(p) /\ \A x \in Passed(p)' : inHand'[x] = inHand[x]
        /\ queueBytes'[p] <= queueBytes[p]
    BY <1>1, <1>3, <2>1 DEF Passed
  <2>4. BoundedAt(p)'
    BY <1>2, <2>3, BoundedKept
  <2> QED  BY <2>2, <2>4
<1>4. CASE p = t
  <2>1. /\ Adding(p)' = Adding(p) \ {b} /\ b \in Adding(p)
        /\ Passed(p)' = Passed(p) \ {b} /\ b \in Passed(p)
        /\ HandBytes' = HandBytes /\ HandBytes[b] = BytesOf[f] /\ BytesOf[f] \in Nat
        /\ Unsubtracted(p)' = Unsubtracted(p) /\ queueBytes'[p] = queueBytes[p] + BytesOf[f]
        /\ queueBytes[p] \in Int
    BY <1>1, <1>4, SocketsAssumption DEF Adding, Passed, HandBytes, Unsubtracted
  <2>2. Weights(HandBytes, Adding(p)) /\ Weights(HandBytes, Passed(p))
    BY HandWeights
  <2>3. /\ SumFunctionOnSet(HandBytes, Adding(p))
             = HandBytes[b] + SumFunctionOnSet(HandBytes, Adding(p) \ {b})
        /\ SumFunctionOnSet(HandBytes, Adding(p) \ {b}) \in Nat
    <3>1. Weights(HandBytes, Adding(p) \ {b})
      BY <2>2, FS_RemoveElement DEF Weights
    <3> QED  BY <2>1, <2>2, <3>1, SumRemove, SumType
  <2>4. /\ SumFunctionOnSet(HandBytes, Passed(p))
             = HandBytes[b] + SumFunctionOnSet(HandBytes, Passed(p) \ {b})
        /\ SumFunctionOnSet(HandBytes, Passed(p) \ {b}) \in Nat
    <3>1. Weights(HandBytes, Passed(p) \ {b})
      BY <2>2, FS_RemoveElement DEF Weights
    <3> QED  BY <2>1, <2>2, <3>1, SumRemove, SumType
  <2>5. SettledAt(p)'
    <3>1. Unadded(p) = SumFunctionOnSet(HandBytes, Adding(p))
          /\ Unadded(p)' = SumFunctionOnSet(HandBytes, Adding(p) \ {b})
      <4>1. Unadded(p)' = SumFunctionOnSet(HandBytes', Adding(p)')
        BY DEF Unadded, HandBytes
      <4> QED  BY <2>1, <4>1, HandWeights
    <3>2. BytesIn(sendCh[p])' = BytesIn(sendCh[p]) /\ BytesIn(sendCh[p]) \in Nat
      <4>1. SumAlong(BytesOf, sendCh[p]) \in Nat
        BY AlongType, SocketsAssumption DEF SInv, TypeOK, Types
      <4>2. BytesIn(sendCh[p]) \in Nat
        BY <4>1, BytesInAlong
      <4> QED  BY <1>1, <4>2 DEF BytesIn
    <3>3. Unsubtracted(p) \in Nat
      BY SocketsAssumption DEF Unsubtracted, SInv, DeviceInv
    <3>4. queueBytes[p] = BytesIn(sendCh[p]) - Unadded(p) + Unsubtracted(p)
      BY <1>2 DEF SettledAt
    <3>5. queueBytes'[p] = BytesIn(sendCh[p])' - Unadded(p)' + Unsubtracted(p)'
      BY <2>1, <2>3, <3>1, <3>2, <3>3, <3>4
    <3> QED  BY <3>5 DEF SettledAt
  <2>6. BoundedAt(p)'
    <3>1. queueBytes'[p] + SumFunctionOnSet(HandBytes', Passed(p)')
            = queueBytes[p] + SumFunctionOnSet(HandBytes, Passed(p))
      BY <2>1, <2>4
    <3> QED  BY <1>2, <3>1 DEF BoundedAt
  <2> QED  BY <2>5, <2>6
<1> QED  BY <1>3, <1>4

\* The writer receives a frame, whose bytes are still counted.
LEMMA ReceiveBytes ==
  ASSUME SInv, SInv', BytesInv, NEW p \in DevicePeers, Receive(p)
  PROVE  BytesInv'
<1>1. /\ wpc[p] = "idle" /\ sendCh[p] # <<>> /\ sendCh[p] \in Seq(Frames)
      /\ sendCh' = [sendCh EXCEPT ![p] = Tail(@)]
      /\ writing' = [writing EXCEPT ![p] = Head(sendCh[p])]
      /\ wpc' = [wpc EXCEPT ![p] = "subtract"]
      /\ UNCHANGED <<queueBytes, inHand, pc, target>>
      /\ sendCh \in [DevicePeers -> Seq(Frames)] /\ wpc \in [DevicePeers -> WriterPcs]
      /\ writing \in [DevicePeers -> Frames \cup {NoFrame}]
      /\ queueBytes \in [DevicePeers -> Int]
  BY DEF Receive, SInv, TypeOK, Types
<1> SUFFICES ASSUME NEW x \in DevicePeers PROVE SettledAt(x)' /\ BoundedAt(x)'
  BY DEF BytesInv, QueueBytesSettled, PassedBounded, SettledAt, BoundedAt
<1>2. SettledAt(x) /\ BoundedAt(x)
  BY DEF BytesInv, QueueBytesSettled, PassedBounded, SettledAt, BoundedAt
<1>3. BoundedAt(x)'
  <2>1. /\ Passed(x)' \subseteq Passed(x) /\ \A b \in Passed(x)' : inHand'[b] = inHand[b]
        /\ queueBytes'[x] <= queueBytes[x]
    BY <1>1 DEF Passed
  <2> QED  BY <1>2, <2>1, BoundedKept
<1>4. Adding(x)' = Adding(x)
  BY <1>1 DEF Adding
<1>5. CASE x # p
  <2>1. /\ sendCh'[x] = sendCh[x] /\ queueBytes'[x] = queueBytes[x]
        /\ \A b \in Adding(x) : inHand'[b] = inHand[b]
        /\ Unsubtracted(x)' = Unsubtracted(x)
    BY <1>1, <1>5 DEF Unsubtracted
  <2> QED  BY <1>2, <1>3, <1>4, <2>1, SettledKept
<1>6. CASE x = p
  <2> DEFINE h == Head(sendCh[p])
  <2>1. h \in Frames /\ BytesOf[h] \in Nat
    <3>1. h \in Frames
      BY <1>1
    <3> HIDE DEF h
    <3> QED  BY <3>1, SocketsAssumption
  <2>2. /\ BytesIn(sendCh[p]) = BytesOf[h] + BytesIn(sendCh[p])'
        /\ BytesIn(sendCh[p])' \in Nat
    <3>1. sendCh'[p] = Tail(sendCh[p]) /\ Tail(sendCh[p]) \in Seq(Frames)
      BY <1>1
    <3>2. /\ SumAlong(BytesOf, sendCh[p]) = BytesOf[h] + SumAlong(BytesOf, Tail(sendCh[p]))
          /\ SumAlong(BytesOf, Tail(sendCh[p])) \in Nat
      <4>1. \A g \in Frames : BytesOf[g] \in Nat
        BY SocketsAssumption
      <4> QED  BY <1>1, <3>1, <4>1, AlongTail, AlongType
    <3>3. BytesIn(sendCh[p])' = BytesIn(sendCh'[p])
      BY DEF BytesIn
    <3> QED  BY <3>1, <3>2, <3>3, BytesInAlong
  <2>3. Unsubtracted(p) = 0 /\ Unsubtracted(p)' = BytesOf[h]
    BY <1>1 DEF Unsubtracted
  <2>4. Unadded(p)' = Unadded(p) /\ Unadded(p) \in Nat
    BY <1>1, <1>4, <1>6, HandWeights DEF Unadded
  <2>5. queueBytes[p] = BytesIn(sendCh[p]) - Unadded(p) + Unsubtracted(p)
    BY <1>2, <1>6 DEF SettledAt
  <2> HIDE DEF h
  <2>6. queueBytes'[p] = BytesIn(sendCh[p])' - Unadded(p)' + Unsubtracted(p)'
    BY <1>1, <2>1, <2>2, <2>3, <2>4, <2>5
  <2> QED  BY <1>3, <1>6, <2>6 DEF SettledAt
<1> QED  BY <1>5, <1>6

\* It subtracts them.
LEMMA SubtractBytesBytes ==
  ASSUME SInv, SInv', BytesInv, NEW p \in DevicePeers, SubtractBytes(p)
  PROVE  BytesInv'
<1>1. /\ wpc[p] = "subtract" /\ writing[p] \in Frames /\ BytesOf[writing[p]] \in Nat
      /\ queueBytes' = [queueBytes EXCEPT ![p] = @ - BytesOf[writing[p]]]
      /\ wpc' = [wpc EXCEPT ![p] = "lock"]
      /\ UNCHANGED <<sendCh, inHand, pc, target, writing>>
      /\ wpc \in [DevicePeers -> WriterPcs] /\ queueBytes \in [DevicePeers -> Int]
      /\ sendCh \in [DevicePeers -> Seq(Frames)]
  <2>1. /\ wpc[p] = "subtract"
        /\ queueBytes' = [queueBytes EXCEPT ![p] = @ - BytesOf[writing[p]]]
        /\ wpc' = [wpc EXCEPT ![p] = "lock"]
        /\ UNCHANGED <<sendCh, inHand, pc, target, writing>>
    BY DEF SubtractBytes
  <2>2. writing[p] \in Frames
    BY <2>1 DEF SInv, DeviceInv
  <2>3. BytesOf[writing[p]] \in Nat
    BY <2>2, SocketsAssumption
  <2>4. /\ wpc \in [DevicePeers -> WriterPcs] /\ queueBytes \in [DevicePeers -> Int]
        /\ sendCh \in [DevicePeers -> Seq(Frames)]
    BY DEF SInv, TypeOK, Types
  <2> QED  BY <2>1, <2>2, <2>3, <2>4
<1> SUFFICES ASSUME NEW x \in DevicePeers PROVE SettledAt(x)' /\ BoundedAt(x)'
  BY DEF BytesInv, QueueBytesSettled, PassedBounded, SettledAt, BoundedAt
<1>2. SettledAt(x) /\ BoundedAt(x)
  BY DEF BytesInv, QueueBytesSettled, PassedBounded, SettledAt, BoundedAt
<1>3. BoundedAt(x)'
  <2>1. queueBytes'[x] <= queueBytes[x]
    BY <1>1
  <2>2. Passed(x)' \subseteq Passed(x) /\ \A b \in Passed(x)' : inHand'[b] = inHand[b]
    BY <1>1 DEF Passed
  <2> QED  BY <1>2, <2>1, <2>2, BoundedKept
<1>4. Adding(x)' = Adding(x)
  BY <1>1 DEF Adding
<1>5. CASE x # p
  <2>1. /\ sendCh'[x] = sendCh[x] /\ queueBytes'[x] = queueBytes[x]
        /\ \A b \in Adding(x) : inHand'[b] = inHand[b]
        /\ Unsubtracted(x)' = Unsubtracted(x)
    BY <1>1, <1>5 DEF Unsubtracted
  <2> QED  BY <1>2, <1>3, <1>4, <2>1, SettledKept
<1>6. CASE x = p
  <2>1. BytesIn(sendCh[p])' = BytesIn(sendCh[p]) /\ BytesIn(sendCh[p]) \in Nat
    <3>1. SumAlong(BytesOf, sendCh[p]) \in Nat
      BY <1>1, AlongType, SocketsAssumption
    <3>2. BytesIn(sendCh[p]) \in Nat
      BY <3>1, BytesInAlong
    <3> QED  BY <1>1, <3>2 DEF BytesIn
  <2>2. Unsubtracted(p) = BytesOf[writing[p]] /\ Unsubtracted(p)' = 0
    BY <1>1 DEF Unsubtracted
  <2>3. Unadded(p)' = Unadded(p) /\ Unadded(p) \in Nat
    BY <1>1, <1>4, <1>6, HandWeights DEF Unadded
  <2>4. queueBytes[p] = BytesIn(sendCh[p]) - Unadded(p) + Unsubtracted(p)
    BY <1>2, <1>6 DEF SettledAt
  <2>5. queueBytes'[p] = queueBytes[p] - BytesOf[writing[p]]
    BY <1>1
  <2>6. queueBytes'[p] = BytesIn(sendCh[p])' - Unadded(p)' + Unsubtracted(p)'
    BY <1>1, <2>1, <2>2, <2>3, <2>4, <2>5
  <2> QED  BY <1>3, <1>6, <2>6 DEF SettledAt
<1> QED  BY <1>5, <1>6

-----------------------------------------------------------------------------
(* The order of the frames.                                                *)

\* A step that reads and loses no frame, and gives no socket one to carry.
LEMMA OrderFrame ==
  ASSUME SInv, OrderInv, UNCHANGED <<unread, inHand, lost>>,
         \A b \in BridgePeers :
           /\ pc'[b] \in Deciding => pc[b] \in Deciding
           /\ pc'[b] \in AtQueue => pc[b] \in AtQueue /\ target'[b] = target[b],
         \A p \in DevicePeers :
           /\ Carried(p)' \subseteq Carried(p)
           /\ wpc[p] = "exit" => wpc'[p] = "exit"
           /\ Upgraded(p) => Upgraded(p)' /\ (devices'[Dev[p]] = p => devices[Dev[p]] = p)
  PROVE  OrderInv'
<1> USE SocketsAssumption
<1>1. ReadOrder' /\ HandOwn' /\ HandNewest'
  BY DEF OrderInv, ReadOrder, HandOwn, HandNewest
<1>2. CarriedOlder'
  BY DEF OrderInv, CarriedOlder
<1>3. TargetUpgraded'
  <2> SUFFICES ASSUME NEW b \in BridgePeers, pc'[b] \in AtQueue PROVE Upgraded(target[b])'
    BY DEF TargetUpgraded, Upgraded
  <2>1. target'[b] = target[b] /\ target[b] \in DevicePeers /\ Upgraded(target[b])
    BY DEF OrderInv, TargetUpgraded, SInv, BridgeInv, AtQueue
  <2> QED  BY <2>1 DEF Upgraded
<1>4. LostLast'
  <2> SUFFICES ASSUME NEW p \in DevicePeers, NEW f \in lost[p]
               PROVE  /\ Upgraded(p)'
                      /\ \/ wpc'[p] = "exit"
                         \/ /\ devices'[Dev[p]] # p
                            /\ \A g \in Carried(p)' : SrcOf[g] = SrcOf[f] => g < f
                            /\ pc'[SrcOf[f]] \in AtQueue => target'[SrcOf[f]] # p
    BY DEF LostLast
  <2>1. SrcOf[f] \in BridgePeers
    BY DEF SInv, TypeOK, Types
  <2> QED  BY <2>1 DEF OrderInv, LostLast
<1> QED  BY <1>1, <1>2, <1>3, <1>4 DEF OrderInv

\* Most steps are of that kind.
LEMMA OrderKeptInv ==
  ASSUME SInv, OrderInv, OrderKept PROVE OrderInv'
<1>1. \A p \in DevicePeers : Carried(p)' \subseteq Carried(p)
  BY DEF OrderKept, Carried, ToSet
<1> QED  BY <1>1, OrderFrame DEF OrderKept

\* So is the writer's receive: the head of the queue becomes what it writes.
LEMMA ReceiveOrder ==
  ASSUME SInv, OrderInv, NEW p \in DevicePeers, Receive(p) PROVE OrderInv'
<1>1. /\ wpc[p] = "idle" /\ sendCh[p] # <<>>
      /\ sendCh' = [sendCh EXCEPT ![p] = Tail(@)]
      /\ writing' = [writing EXCEPT ![p] = Head(sendCh[p])]
      /\ wpc' = [wpc EXCEPT ![p] = "subtract"]
      /\ UNCHANGED <<unread, inHand, lost, pc, target, devices>>
  BY DEF Receive
<1>2. /\ wpc \in [DevicePeers -> WriterPcs] /\ sendCh \in [DevicePeers -> Seq(Frames)]
      /\ writing \in [DevicePeers -> Frames \cup {NoFrame}]
  BY DEF SInv, TypeOK, Types
<1>3. ASSUME NEW x \in DevicePeers PROVE Carried(x)' \subseteq Carried(x)
  <2>1. CASE x # p
    BY <1>1, <1>2, <2>1 DEF Carried, ToSet
  <2>2. CASE x = p
    <3> DEFINE q == sendCh[p]
    <3>1. q \in Seq(Frames) /\ q # <<>>
      BY <1>1, <1>2
    <3>2. Carried(p)' = ToSet(Tail(q)) \cup {Head(q)}
      BY <1>1, <1>2 DEF Carried, ToSet, Carrying
    <3>3. ToSet(q) \subseteq Carried(p)
      BY DEF Carried
    <3> HIDE DEF q
    <3>4. Head(q) \in ToSet(q)
      BY <3>1 DEF ToSet
    <3>5. ToSet(Tail(q)) \subseteq ToSet(q)
      BY <3>1 DEF ToSet
    <3> QED  BY <2>2, <3>2, <3>3, <3>4, <3>5
  <2> QED  BY <2>1, <2>2
<1>4. \A x \in DevicePeers : wpc[x] = "exit" => wpc'[x] = "exit"
  BY <1>1, <1>2
<1> QED  BY <1>1, <1>3, <1>4, OrderFrame DEF Upgraded

\* A bridge handler reads the next frame of its socket.
LEMMA ReadOrderKept ==
  ASSUME SInv, OrderInv, NEW b \in BridgePeers, ReadBridge(b) PROVE OrderInv'
<1> USE SocketsAssumption
<1>1. PICK f \in unread :
        /\ SrcOf[f] = b /\ \A g \in unread : SrcOf[g] = b => f <= g
        /\ unread' = unread \ {f} /\ inHand' = [inHand EXCEPT ![b] = f]
        /\ \E l \in {"closeSelf", "append", "route"} : pc' = [pc EXCEPT ![b] = l]
        /\ UNCHANGED <<devices, target, sendCh, wpc, writing, lost>>
  BY DEF ReadBridge, Goto
<1>2. /\ inHand \in [BridgePeers -> Frames \cup {NoFrame}] /\ unread \subseteq Frames
      /\ pc \in [Peers -> HandlerPcs] /\ f \in Frames
  BY DEF SInv, TypeOK, Types
<1>3. /\ pc'[b] \notin AtQueue
      /\ \A x \in Peers : x # b => pc'[x] = pc[x]
      /\ \A x \in DevicePeers : Upgraded(x)' = Upgraded(x)
  BY <1>1, <1>2 DEF AtQueue, Upgraded
<1>4. inHand'[b] = f /\ \A x \in BridgePeers : x # b => inHand'[x] = inHand[x]
  BY <1>1, <1>2
<1>5. \A p \in DevicePeers : Carried(p)' = Carried(p)
  BY <1>1 DEF Carried, ToSet
<1>6. ReadOrder'
  <2> SUFFICES ASSUME NEW g \in Frames \ unread', NEW u \in unread', SrcOf[g] = SrcOf[u]
               PROVE  g < u
    BY DEF ReadOrder
  <2>1. CASE g = f
    BY <1>1, <1>2, <2>1
  <2>2. CASE g # f
    BY <1>1, <2>2 DEF OrderInv, ReadOrder
  <2> QED  BY <2>1, <2>2
<1>7. HandOwn'
  BY <1>1, <1>4 DEF OrderInv, HandOwn
<1>8. HandNewest'
  <2> SUFFICES ASSUME NEW g \in Frames \ unread'
               PROVE  inHand'[SrcOf[g]] \in Frames /\ g <= inHand'[SrcOf[g]]
    BY DEF HandNewest
  <2>1. CASE g = f
    BY <1>1, <1>2, <1>4, <2>1
  <2>2. CASE g # f /\ SrcOf[g] = b
    <3>1. g < f
      BY <1>1, <2>2 DEF OrderInv, ReadOrder
    <3> QED  BY <1>2, <1>4, <2>2, <3>1
  <2>3. CASE g # f /\ SrcOf[g] # b
    BY <1>1, <1>4, <2>3 DEF OrderInv, HandNewest
  <2> QED  BY <2>1, <2>2, <2>3
<1>9. CarriedOlder'
  <2> SUFFICES ASSUME NEW p \in DevicePeers, NEW g \in Carried(p)
               PROVE  /\ g \in Frames \ unread'
                      /\ pc'[SrcOf[g]] \in Deciding => g # inHand'[SrcOf[g]]
    BY <1>5 DEF CarriedOlder
  <2>1. g \in Frames \ unread /\ SrcOf[g] \in BridgePeers
    BY DEF OrderInv, CarriedOlder
  <2>2. CASE SrcOf[g] = b
    BY <1>1, <1>4, <2>1, <2>2
  <2>3. CASE SrcOf[g] # b
    BY <1>1, <1>3, <1>4, <2>1, <2>3 DEF OrderInv, CarriedOlder
  <2> QED  BY <2>2, <2>3
<1>10. TargetUpgraded'
  <2> SUFFICES ASSUME NEW x \in BridgePeers, pc'[x] \in AtQueue PROVE Upgraded(target[x])'
    BY DEF TargetUpgraded, Upgraded
  <2>1. x # b /\ pc[x] \in AtQueue /\ target'[x] = target[x]
    BY <1>1, <1>3
  <2>2. target[x] \in DevicePeers /\ Upgraded(target[x])
    BY <2>1 DEF OrderInv, TargetUpgraded, SInv, BridgeInv, AtQueue
  <2> QED  BY <1>3, <2>1, <2>2 DEF Upgraded
<1>11. LostLast'
  <2> SUFFICES ASSUME NEW p \in DevicePeers, NEW x \in lost[p]
               PROVE  /\ Upgraded(p)'
                      /\ \/ wpc'[p] = "exit"
                         \/ /\ devices'[Dev[p]] # p
                            /\ \A g \in Carried(p)' : SrcOf[g] = SrcOf[x] => g < x
                            /\ pc'[SrcOf[x]] \in AtQueue => target'[SrcOf[x]] # p
    BY <1>1 DEF LostLast
  <2>1. SrcOf[x] \in BridgePeers
    BY DEF SInv, TypeOK, Types
  <2> QED  BY <1>1, <1>3, <1>5, <2>1 DEF OrderInv, LostLast
<1> QED  BY <1>6, <1>7, <1>8, <1>9, <1>10, <1>11 DEF OrderInv

\* The socket it looks up is in the map, so it has lost nothing while its writer runs.
LEMMA RouteOrder ==
  ASSUME SInv, OrderInv, NEW b \in BridgePeers, Route(b) PROVE OrderInv'
<1> USE SocketsAssumption
<1> DEFINE d == DestOf[inHand[b]]
           t == devices[d]
<1>1. /\ pc[b] = "route" /\ target' = [target EXCEPT ![b] = t]
      /\ pc' = [pc EXCEPT ![b] = IF t = NoPeer THEN "read" ELSE "check"]
      /\ UNCHANGED <<devices, inHand, unread, sendCh, wpc, writing, lost>>
  BY DEF Route, Goto, GotoWith
<1>2. /\ pc \in [Peers -> HandlerPcs] /\ target \in [Peers -> Peers \cup {NoPeer}]
      /\ inHand[b] \in Frames /\ d \in Devices /\ t \in DevicePeers \cup {NoPeer}
  BY <1>1 DEF SInv, TypeOK, Types, BridgeInv
<1>3. t # NoPeer => Dev[t] = d /\ Upgraded(t)
  BY <1>2 DEF SInv, MapInv
<1> HIDE DEF t, d
<1>4. /\ \A x \in Peers : x # b => pc'[x] = pc[x] /\ target'[x] = target[x]
      /\ \A x \in DevicePeers : Upgraded(x)' = Upgraded(x)
      /\ target'[b] = t /\ (pc'[b] \in AtQueue => t # NoPeer)
      /\ pc[b] \in Deciding
  BY <1>1, <1>2 DEF AtQueue, Upgraded, Deciding
<1>5. \A p \in DevicePeers : Carried(p)' = Carried(p)
  BY <1>1 DEF Carried, ToSet
<1>6. ReadOrder' /\ HandOwn' /\ HandNewest'
  BY <1>1 DEF OrderInv, ReadOrder, HandOwn, HandNewest
<1>7. CarriedOlder'
  <2> SUFFICES ASSUME NEW p \in DevicePeers, NEW g \in Carried(p)
               PROVE  /\ g \in Frames \ unread'
                      /\ pc'[SrcOf[g]] \in Deciding => g # inHand'[SrcOf[g]]
    BY <1>5 DEF CarriedOlder
  <2>1. g \in Frames \ unread /\ SrcOf[g] \in BridgePeers
    BY DEF OrderInv, CarriedOlder
  <2> QED  BY <1>1, <1>4, <2>1 DEF OrderInv, CarriedOlder
<1>8. TargetUpgraded'
  <2> SUFFICES ASSUME NEW x \in BridgePeers, pc'[x] \in AtQueue PROVE Upgraded(target[x])'
    BY DEF TargetUpgraded, Upgraded
  <2>1. CASE x = b
    BY <1>2, <1>3, <1>4, <2>1 DEF Upgraded
  <2>2. CASE x # b
    <3>1. pc[x] \in AtQueue /\ target'[x] = target[x]
      BY <1>4, <2>2
    <3>2. target[x] \in DevicePeers /\ Upgraded(target[x])
      BY <3>1 DEF OrderInv, TargetUpgraded, SInv, BridgeInv, AtQueue
    <3> QED  BY <1>4, <3>1, <3>2 DEF Upgraded
  <2> QED  BY <2>1, <2>2
<1>9. LostLast'
  <2> SUFFICES ASSUME NEW p \in DevicePeers, NEW x \in lost[p]
               PROVE  /\ Upgraded(p)'
                      /\ \/ wpc'[p] = "exit"
                         \/ /\ devices'[Dev[p]] # p
                            /\ \A g \in Carried(p)' : SrcOf[g] = SrcOf[x] => g < x
                            /\ pc'[SrcOf[x]] \in AtQueue => target'[SrcOf[x]] # p
    BY <1>1 DEF LostLast
  <2>1. SrcOf[x] \in BridgePeers
    BY DEF SInv, TypeOK, Types
  <2>2. devices[Dev[p]] # p => t # p
    BY <1>2, <1>3 DEF t
  <2>3. CASE SrcOf[x] = b
    BY <1>1, <1>4, <1>5, <2>2, <2>3 DEF OrderInv, LostLast
  <2>4. CASE SrcOf[x] # b
    BY <1>1, <1>4, <1>5, <2>1, <2>4 DEF OrderInv, LostLast
  <2> QED  BY <2>3, <2>4
<1> QED  BY <1>6, <1>7, <1>8, <1>9 DEF OrderInv

\* The frame goes into a queue whose socket has lost none of this bridge's frames.
LEMMA SendOrder ==
  ASSUME SInv, OrderInv, NEW b \in BridgePeers, Send(b) PROVE OrderInv'
<1> USE SocketsAssumption
<1> DEFINE t == target[b]
           f == inHand[b]
<1>1. /\ pc[b] = "send" /\ UNCHANGED <<devices, inHand, unread, target, wpc, writing, lost>>
      /\ t \in DevicePeers /\ f \in Frames
      /\ pc \in [Peers -> HandlerPcs] /\ sendCh \in [DevicePeers -> Seq(Frames)]
  BY DEF Send, SInv, TypeOK, Types, BridgeInv
<1>2. CASE ~(Len(sendCh[t]) < QueueFramesCap)
  <2>1. sendCh' = sendCh /\ pc' = [pc EXCEPT ![b] = "full"]
    BY <1>2 DEF Send, Goto
  <2>2. OrderKept
    BY <1>1, <2>1 DEF OrderKept, Deciding, AtQueue, Carrying, Upgraded
  <2> QED  BY <2>2, OrderKeptInv
<1>3. CASE Len(sendCh[t]) < QueueFramesCap
  <2>1. sendCh' = [sendCh EXCEPT ![t] = Append(@, f)] /\ pc' = [pc EXCEPT ![b] = "add"]
    BY <1>3 DEF Send, Goto
  <2>2. SrcOf[f] = b /\ f \notin unread
    BY <1>1 DEF OrderInv, HandOwn
  <2>3. /\ pc'[b] = "add" /\ pc[b] \in AtQueue
        /\ \A x \in Peers : x # b => pc'[x] = pc[x]
        /\ \A x \in DevicePeers : Upgraded(x)' = Upgraded(x)
    BY <1>1, <2>1 DEF AtQueue, Upgraded
  <2>4. ASSUME NEW p \in DevicePeers
        PROVE  Carried(p)' = Carried(p) \cup (IF p = t THEN {f} ELSE {})
    <3>1. CASE p # t
      BY <1>1, <2>1, <3>1 DEF Carried, ToSet
    <3>2. CASE p = t
      <4> DEFINE q == sendCh[p]
      <4>1. q \in Seq(Frames) /\ f \in Frames
        BY <1>1
      <4>2. ToSet(Append(q, f)) = ToSet(q) \cup {f}
        <5> HIDE DEF q, f
        <5>1. /\ Len(Append(q, f)) = Len(q) + 1 /\ Append(q, f)[Len(q) + 1] = f
              /\ \A i \in 1..Len(q) : Append(q, f)[i] = q[i]
              /\ Len(q) \in Nat
          BY <4>1
        <5> QED  BY <5>1 DEF ToSet
      <4>3. sendCh'[p] = Append(sendCh[p], f)
        BY <1>1, <2>1, <3>2
      <4>4. ToSet(sendCh'[p]) = ToSet(sendCh[p]) \cup {f}
        BY <4>2, <4>3
      <4>5. Carried(p)' = ToSet(sendCh'[p]) \cup (IF wpc[p] \in Carrying THEN {writing[p]} ELSE {})
        BY <1>1 DEF Carried, ToSet
      <4> QED  BY <3>2, <4>4, <4>5 DEF Carried
    <3> QED  BY <3>1, <3>2
  <2> HIDE DEF t, f
  <2>5. ReadOrder' /\ HandOwn' /\ HandNewest'
    BY <1>1 DEF OrderInv, ReadOrder, HandOwn, HandNewest
  <2>6. CarriedOlder'
    <3> SUFFICES ASSUME NEW p \in DevicePeers, NEW g \in Carried(p)'
                 PROVE  /\ g \in Frames \ unread
                        /\ pc'[SrcOf[g]] \in Deciding => g # inHand[SrcOf[g]]
      BY <1>1 DEF CarriedOlder
    <3>1. CASE g = f
      BY <1>1, <2>2, <2>3, <3>1 DEF Deciding
    <3>2. CASE g # f
      <4>1. g \in Carried(p)
        BY <2>4, <3>2
      <4>2. g \in Frames \ unread /\ SrcOf[g] \in BridgePeers
        BY <4>1 DEF OrderInv, CarriedOlder
      <4> QED  BY <2>3, <4>1, <4>2 DEF OrderInv, CarriedOlder, Deciding
    <3> QED  BY <3>1, <3>2
  <2>7. TargetUpgraded'
    <3> SUFFICES ASSUME NEW x \in BridgePeers, pc'[x] \in AtQueue PROVE Upgraded(target[x])'
      BY DEF TargetUpgraded
    <3>1. pc[x] \in AtQueue /\ target'[x] = target[x]
      BY <1>1, <2>3
    <3>2. target[x] \in DevicePeers /\ Upgraded(target[x])
      BY <3>1 DEF OrderInv, TargetUpgraded, SInv, BridgeInv, AtQueue
    <3> QED  BY <2>3, <3>1, <3>2 DEF Upgraded
  <2>8. LostLast'
    <3> SUFFICES ASSUME NEW p \in DevicePeers, NEW x \in lost[p]
                 PROVE  /\ Upgraded(p)'
                        /\ \/ wpc'[p] = "exit"
                           \/ /\ devices'[Dev[p]] # p
                              /\ \A g \in Carried(p)' : SrcOf[g] = SrcOf[x] => g < x
                              /\ pc'[SrcOf[x]] \in AtQueue => target'[SrcOf[x]] # p
      BY <1>1 DEF LostLast
    <3>1. SrcOf[x] \in BridgePeers
      BY DEF SInv, TypeOK, Types
    <3>2. /\ Upgraded(p)
          /\ \/ wpc[p] = "exit"
             \/ /\ devices[Dev[p]] # p
                /\ \A g \in Carried(p) : SrcOf[g] = SrcOf[x] => g < x
                /\ pc[SrcOf[x]] \in AtQueue => target[SrcOf[x]] # p
      BY DEF OrderInv, LostLast
    <3>3. CASE p # t
      BY <1>1, <2>3, <2>4, <3>1, <3>2, <3>3 DEF AtQueue
    <3>4. CASE p = t
      <4>1. CASE wpc[p] = "exit"
        BY <1>1, <2>3, <3>2, <4>1
      <4>2. CASE wpc[p] # "exit"
        <5>1. SrcOf[x] # b
          BY <2>3, <3>2, <3>4, <4>2 DEF t
        <5>2. \A g \in Carried(p)' : SrcOf[g] = SrcOf[x] => g < x
          BY <2>2, <2>4, <3>2, <3>4, <4>2, <5>1
        <5>3. pc'[SrcOf[x]] \in AtQueue => target'[SrcOf[x]] # p
          BY <1>1, <2>3, <3>1, <3>2, <4>2, <5>1
        <5> QED  BY <1>1, <2>3, <3>2, <4>2, <5>2, <5>3
      <4> QED  BY <4>1, <4>2
    <3> QED  BY <3>3, <3>4
  <2> QED  BY <2>5, <2>6, <2>7, <2>8 DEF OrderInv
<1> QED  BY <1>2, <1>3

\* The frame is lost, and the socket leaves the map: whatever it carries of this
\* bridge is older.
LEMMA FullOrder ==
  ASSUME SInv, OrderInv, NEW b \in BridgePeers, DisconnectFull(b) PROVE OrderInv'
<1> USE SocketsAssumption
<1> DEFINE t == target[b]
           f == inHand[b]
<1>1. /\ pc[b] = "full" /\ UNCHANGED <<inHand, unread, target, sendCh, wpc, writing>>
      /\ devices' = Unregister(t) /\ lost' = [lost EXCEPT ![t] = @ \cup {f}]
      /\ pc' = [pc EXCEPT ![b] = "closeFull"]
  BY DEF DisconnectFull, Goto
<1>2. /\ t \in DevicePeers /\ f \in Frames /\ pc \in [Peers -> HandlerPcs]
      /\ lost \in [DevicePeers -> SUBSET Frames]
      /\ devices \in [Devices -> DevicePeers \cup {NoPeer}]
  BY <1>1 DEF SInv, TypeOK, Types, BridgeInv
<1>3. /\ pc'[b] = "closeFull" /\ pc[b] \in AtQueue /\ pc[b] \in Deciding
      /\ \A x \in Peers : x # b => pc'[x] = pc[x]
      /\ \A x \in DevicePeers : Upgraded(x)' = Upgraded(x)
  BY <1>1, <1>2 DEF AtQueue, Deciding, Upgraded
<1>4. /\ SrcOf[f] = b /\ f \notin unread
      /\ Upgraded(t)
  BY <1>2, <1>3 DEF OrderInv, HandOwn, TargetUpgraded
<1>5. /\ devices'[Dev[t]] # t
      /\ \A p \in DevicePeers : devices[Dev[p]] # p => devices'[Dev[p]] # p
  BY <1>1, <1>2 DEF Unregister
<1>6. \A p \in DevicePeers : Carried(p)' = Carried(p)
  BY <1>1 DEF Carried, ToSet
<1>7. \A g \in Carried(t) : SrcOf[g] = b => g < f
  <2> SUFFICES ASSUME NEW g \in Carried(t), SrcOf[g] = b PROVE g < f
    OBVIOUS
  <2>1. g \in Frames \ unread /\ g # f
    BY <1>2, <1>3 DEF OrderInv, CarriedOlder
  <2>2. g <= f
    BY <2>1 DEF OrderInv, HandNewest
  <2>3. g \in Nat /\ f \in Nat
    BY <1>2, <2>1
  <2> HIDE DEF f
  <2> QED  BY <2>1, <2>2, <2>3
<1> HIDE DEF t, f
<1>8. ReadOrder' /\ HandOwn' /\ HandNewest'
  BY <1>1 DEF OrderInv, ReadOrder, HandOwn, HandNewest
<1>9. CarriedOlder'
  <2> SUFFICES ASSUME NEW p \in DevicePeers, NEW g \in Carried(p)
               PROVE  /\ g \in Frames \ unread
                      /\ pc'[SrcOf[g]] \in Deciding => g # inHand[SrcOf[g]]
    BY <1>1, <1>6 DEF CarriedOlder
  <2>1. g \in Frames \ unread /\ SrcOf[g] \in BridgePeers
    BY DEF OrderInv, CarriedOlder
  <2> QED  BY <1>3, <2>1 DEF OrderInv, CarriedOlder, Deciding
<1>10. TargetUpgraded'
  <2> SUFFICES ASSUME NEW x \in BridgePeers, pc'[x] \in AtQueue PROVE Upgraded(target[x])'
    BY DEF TargetUpgraded
  <2>1. pc[x] \in AtQueue /\ target'[x] = target[x]
    BY <1>1, <1>3
  <2>2. target[x] \in DevicePeers /\ Upgraded(target[x])
    BY <2>1 DEF OrderInv, TargetUpgraded, SInv, BridgeInv, AtQueue
  <2> QED  BY <1>3, <2>1, <2>2 DEF Upgraded
<1>11. LostLast'
  <2> SUFFICES ASSUME NEW p \in DevicePeers, NEW x \in lost'[p]
               PROVE  /\ Upgraded(p)'
                      /\ \/ wpc'[p] = "exit"
                         \/ /\ devices'[Dev[p]] # p
                            /\ \A g \in Carried(p)' : SrcOf[g] = SrcOf[x] => g < x
                            /\ pc'[SrcOf[x]] \in AtQueue => target'[SrcOf[x]] # p
    BY DEF LostLast
  <2>1. CASE p = t /\ x = f
    BY <1>3, <1>4, <1>5, <1>6, <1>7, <2>1 DEF AtQueue
  <2>2. CASE ~(p = t /\ x = f)
    <3>1. x \in lost[p]
      BY <1>1, <1>2, <2>2
    <3>2. SrcOf[x] \in BridgePeers
      BY <1>2, <3>1
    <3>3. /\ Upgraded(p)
          /\ \/ wpc[p] = "exit"
             \/ /\ devices[Dev[p]] # p
                /\ \A g \in Carried(p) : SrcOf[g] = SrcOf[x] => g < x
                /\ pc[SrcOf[x]] \in AtQueue => target[SrcOf[x]] # p
      BY <3>1 DEF OrderInv, LostLast
    <3> QED  BY <1>1, <1>3, <1>5, <1>6, <3>2, <3>3 DEF AtQueue
  <2> QED  BY <2>1, <2>2
<1> QED  BY <1>8, <1>9, <1>10, <1>11 DEF OrderInv

\* The writer ends with the frame it loses.
LEMMA WriteErrorOrder ==
  ASSUME SInv, OrderInv, NEW q \in DevicePeers, WriteError(q) PROVE OrderInv'
<1> USE SocketsAssumption
<1>1. /\ wpc[q] = "write" /\ UNCHANGED <<devices, inHand, unread, pc, target, sendCh>>
      /\ wpc' = [wpc EXCEPT ![q] = "exit"] /\ writing' = [writing EXCEPT ![q] = NoFrame]
      /\ lost' = [lost EXCEPT ![q] = @ \cup {writing[q]}]
  BY DEF WriteError
<1>2. /\ wpc \in [DevicePeers -> WriterPcs] /\ lost \in [DevicePeers -> SUBSET Frames]
      /\ writing \in [DevicePeers -> Frames \cup {NoFrame}]
  BY DEF SInv, TypeOK, Types
<1>3. Upgraded(q)
  BY <1>1 DEF SInv, DeviceInv, Upgraded
<1>4. /\ wpc'[q] = "exit" /\ \A x \in DevicePeers : wpc[x] = "exit" => wpc'[x] = "exit"
      /\ \A x \in DevicePeers : x # q => lost'[x] = lost[x]
      /\ \A x \in Peers : Upgraded(x)' = Upgraded(x)
  BY <1>1, <1>2 DEF Upgraded
<1>5. \A p \in DevicePeers : Carried(p)' \subseteq Carried(p)
  BY <1>1, <1>2 DEF Carried, ToSet, Carrying
<1>6. ReadOrder' /\ HandOwn' /\ HandNewest'
  BY <1>1 DEF OrderInv, ReadOrder, HandOwn, HandNewest
<1>7. CarriedOlder'
  BY <1>1, <1>5 DEF OrderInv, CarriedOlder
<1>8. TargetUpgraded'
  BY <1>1 DEF OrderInv, TargetUpgraded, Upgraded
<1>9. LostLast'
  <2> SUFFICES ASSUME NEW p \in DevicePeers, NEW x \in lost'[p]
               PROVE  /\ Upgraded(p)'
                      /\ \/ wpc'[p] = "exit"
                         \/ /\ devices'[Dev[p]] # p
                            /\ \A g \in Carried(p)' : SrcOf[g] = SrcOf[x] => g < x
                            /\ pc'[SrcOf[x]] \in AtQueue => target'[SrcOf[x]] # p
    BY DEF LostLast
  <2>1. CASE p = q
    BY <1>3, <1>4, <2>1
  <2>2. CASE p # q
    <3>1. x \in lost[p]
      BY <1>4, <2>2
    <3> QED  BY <1>1, <1>4, <1>5, <3>1 DEF OrderInv, LostLast
  <2> QED  BY <2>1, <2>2
<1> QED  BY <1>6, <1>7, <1>8, <1>9 DEF OrderInv

-----------------------------------------------------------------------------

\* The queues start empty.
LEMMA FInvInit == Init => FInv
<1> SUFFICES ASSUME Init PROVE FInv
  OBVIOUS
<1>1. SInv
  BY SInvInit
<1>2. ASSUME NEW p \in DevicePeers PROVE SettledAt(p) /\ BoundedAt(p)
  <2>1. queueBytes[p] = 0 /\ sendCh[p] = <<>> /\ Unsubtracted(p) = 0
    BY DEF Init, Unsubtracted
  <2>2. Passed(p) = {} /\ Adding(p) = {}
    BY DEF Init, Passed, Adding
  <2>3. SumFunctionOnSet(HandBytes, {}) = 0
    BY SumEmpty
  <2>4. Unadded(p) = 0
    BY <2>2, <2>3, <1>1, HandWeights
  <2>5. BytesIn(sendCh[p]) = 0
    BY <2>1, BytesInAlong, AlongEmpty
  <2>6. SettledAt(p)
    BY <2>1, <2>4, <2>5 DEF SettledAt
  <2>7. BoundedAt(p)
    <3> SUFFICES ASSUME NEW n \in {BytesOf[f] : f \in Frames}
                 PROVE  0 <= QueueBytesCap + (Cardinality(BridgePeers) - 1) * n
      BY <2>1, <2>2, <2>3 DEF BoundedAt
    <3>1. n \in Nat /\ Cardinality(BridgePeers) \in Nat /\ QueueBytesCap \in Nat
      BY BoundInt, SocketsAssumption
    <3>2. Cardinality(BridgePeers) >= 1
      <4>1. BridgePeers # {}
        BY SocketsAssumption
      <4> QED  BY <3>1, <4>1, FS_EmptySet, SocketsAssumption
    <3>3. (Cardinality(BridgePeers) - 1) * n \in Nat
      <4> DEFINE c == Cardinality(BridgePeers) - 1
      <4>1. c \in Nat
        BY <3>1, <3>2
      <4> HIDE DEF c
      <4>2. c * n \in Nat
        BY <3>1, <4>1
      <4> QED  BY <4>2 DEF c
    <3> QED  BY <3>1, <3>3
  <2> QED  BY <2>6, <2>7
<1>3. BytesInv
  BY <1>2 DEF BytesInv, QueueBytesSettled, PassedBounded, SettledAt, BoundedAt
<1>4. \A p \in DevicePeers : Carried(p) = {}
  BY DEF Init, Carried, ToSet, Carrying
<1>5. OrderInv
  BY <1>4, SocketsAssumption
  DEF Init, OrderInv, ReadOrder, HandOwn, HandNewest, CarriedOlder, TargetUpgraded, LostLast,
      AtQueue, NoFrame
<1> QED  BY <1>1, <1>3, <1>5 DEF FInv

\* Every step keeps the invariant: the nine that move or count a frame by a lemma
\* each, the others because they do neither.
LEMMA FInvStep == FInv /\ [Next]_vars => FInv'
<1> SUFFICES ASSUME FInv, [Next]_vars PROVE FInv'
  OBVIOUS
<1>1. SInv /\ BytesInv /\ OrderInv
  BY DEF FInv
<1>2. SInv'
  BY <1>1, SInvStep
<1>3. /\ pc \in [Peers -> HandlerPcs] /\ wpc \in [DevicePeers -> WriterPcs]
      /\ \A b \in BridgePeers : b \in Peers
      /\ BridgePeers \cap DevicePeers = {}
  BY <1>1, SocketsAssumption DEF SInv, TypeOK, Types
<1>4. ASSUME NEW b \in BridgePeers, ReadBridge(b) PROVE BytesInv' /\ OrderInv'
  <2>1. BytesKept
    BY <1>3, <1>4 DEF ReadBridge, Goto, BytesKept
  <2> QED  BY <1>1, <1>2, <1>4, <2>1, BytesKeptInv, ReadOrderKept
<1>5. ASSUME NEW b \in BridgePeers, Route(b) PROVE BytesInv' /\ OrderInv'
  <2>1. BytesKept
    BY <1>3, <1>5 DEF Route, GotoWith, Goto, BytesKept
  <2> QED  BY <1>1, <1>2, <1>5, <2>1, BytesKeptInv, RouteOrder
<1>6. ASSUME NEW b \in BridgePeers, CheckRoom(b) PROVE BytesInv' /\ OrderInv'
  <2>1. OrderKept
    BY <1>3, <1>6
    DEF CheckRoom, Goto, OrderKept, Deciding, AtQueue, Carrying, Upgraded
  <2> QED  BY <1>1, <1>2, <1>6, <2>1, CheckBytes, OrderKeptInv
<1>7. ASSUME NEW b \in BridgePeers, Send(b) PROVE BytesInv' /\ OrderInv'
  BY <1>1, <1>2, <1>7, SendBytes, SendOrder
<1>8. ASSUME NEW b \in BridgePeers, AddBytes(b) PROVE BytesInv' /\ OrderInv'
  <2>1. target \in [Peers -> Peers \cup {NoPeer}]
    BY <1>1 DEF SInv, TypeOK, Types
  <2>2. OrderKept
    BY <1>3, <1>8, <2>1
    DEF AddBytes, GotoWith, Goto, OrderKept, Deciding, AtQueue, Carrying, Upgraded
  <2> QED  BY <1>1, <1>2, <1>8, <2>2, AddBytesBytes, OrderKeptInv
<1>9. ASSUME NEW b \in BridgePeers, DisconnectFull(b) PROVE BytesInv' /\ OrderInv'
  <2>1. BytesKept
    BY <1>3, <1>9 DEF DisconnectFull, Goto, BytesKept
  <2> QED  BY <1>1, <1>2, <1>9, <2>1, BytesKeptInv, FullOrder
<1>10. ASSUME NEW p \in DevicePeers, Receive(p) PROVE BytesInv' /\ OrderInv'
  BY <1>1, <1>2, <1>10, ReceiveBytes, ReceiveOrder
<1>11. ASSUME NEW p \in DevicePeers, SubtractBytes(p) PROVE BytesInv' /\ OrderInv'
  <2>1. OrderKept
    BY <1>3, <1>11
    DEF SubtractBytes, OrderKept, Deciding, AtQueue, Carrying, Upgraded
  <2> QED  BY <1>1, <1>2, <1>11, <2>1, SubtractBytesBytes, OrderKeptInv
<1>12. ASSUME NEW p \in DevicePeers, WriteError(p) PROVE BytesInv' /\ OrderInv'
  <2>1. BytesKept
    BY <1>3, <1>12 DEF WriteError, BytesKept
  <2> QED  BY <1>1, <1>2, <1>12, <2>1, BytesKeptInv, WriteErrorOrder
<1>13. CASE /\ ~ \E b \in BridgePeers : ReadBridge(b) \/ Route(b) \/ CheckRoom(b) \/ Send(b)
                                        \/ AddBytes(b) \/ DisconnectFull(b)
            /\ ~ \E p \in DevicePeers : Receive(p) \/ SubtractBytes(p) \/ WriteError(p)
  <2>1. BytesKept /\ OrderKept
    BY <1>1, <1>13, QuietSteps
  <2>2. BytesInv' /\ OrderInv'
    BY <1>1, <1>2, <2>1, BytesKeptInv, OrderKeptInv
  <2> QED  BY <1>2, <2>2 DEF FInv
<1> QED
  BY <1>2, <1>4, <1>5, <1>6, <1>7, <1>8, <1>9, <1>10, <1>11, <1>12, <1>13 DEF FInv

\* The byte counter neither leaks nor drifts: it is the size of the queue but for
\* the additions and the one subtraction that are still to come.
THEOREM BytesSettled == Spec => []QueueBytesSettled
<1>1. FInv => QueueBytesSettled
  BY DEF FInv, BytesInv
<1> QED  BY <1>1, FInvInit, FInvStep, PTL DEF Spec

\* However many read loops pass the byte check before any of them adds, the queue
\* exceeds its byte bound by at most a frame of every bridge socket but one.
THEOREM BytesBounded == Spec => []QueueBytesBounded
<1>1. ASSUME FInv PROVE QueueBytesBounded
  <2>1. SInv /\ QueueBytesSettled /\ PassedBounded
    BY <1>1 DEF FInv, BytesInv
  <2> SUFFICES ASSUME NEW p \in DevicePeers, NEW n \in {BytesOf[f] : f \in Frames},
                      \A f \in Frames : BytesOf[f] <= n
               PROVE  BytesIn(sendCh[p]) <= QueueBytesCap + (Cardinality(BridgePeers) - 1) * n
    BY DEF QueueBytesBounded
  <2> DEFINE B == QueueBytesCap + (Cardinality(BridgePeers) - 1) * n
             y == SumFunctionOnSet(HandBytes, Passed(p))
  <2>2. queueBytes[p] + y <= B
    BY <2>1 DEF PassedBounded
  <2>3. queueBytes[p] = BytesIn(sendCh[p]) - Unadded(p) + Unsubtracted(p)
    BY <2>1 DEF QueueBytesSettled
  <2>4. B \in Int
    BY BoundInt
  <2>5. y \in Nat /\ Unadded(p) \in Nat /\ Unadded(p) <= y
    BY <2>1, HandWeights
  <2>6. Unsubtracted(p) \in Nat
    BY <2>1, SocketsAssumption DEF Unsubtracted, SInv, DeviceInv
  <2>7. BytesIn(sendCh[p]) \in Nat
    <3>1. SumAlong(BytesOf, sendCh[p]) \in Nat
      BY <2>1, AlongType, SocketsAssumption DEF SInv, TypeOK, Types
    <3> QED  BY <3>1, BytesInAlong
  <2> HIDE DEF B, y
  <2>8. BytesIn(sendCh[p]) <= B
    BY <2>2, <2>3, <2>4, <2>5, <2>6, <2>7
  <2> QED  BY <2>8 DEF B
<1> QED  BY <1>1, FInvInit, FInvStep, PTL DEF Spec

\* What a bridge socket sends to a device socket arrives without a gap: the loss of
\* a frame ends the writer or takes the socket out of the map, and what is still in
\* its queue from that bridge is older.
THEOREM GapFree == Spec => NoGap
<1>1. ASSUME FInv
      PROVE  \A p \in DevicePeers : WriteOk(p) =>
               \A f \in lost[p] : SrcOf[f] = SrcOf[writing[p]] => writing[p] < f
  <2> SUFFICES ASSUME NEW p \in DevicePeers, WriteOk(p), NEW f \in lost[p],
                      SrcOf[f] = SrcOf[writing[p]]
               PROVE  writing[p] < f
    OBVIOUS
  <2>1. wpc[p] = "write"
    BY DEF WriteOk
  <2>2. writing[p] \in Carried(p)
    BY <2>1 DEF Carried, Carrying
  <2> QED  BY <1>1, <2>1, <2>2 DEF FInv, OrderInv, LostLast
<1> QED  BY <1>1, FInvInit, FInvStep, PTL DEF Spec, NoGap
=============================================================================

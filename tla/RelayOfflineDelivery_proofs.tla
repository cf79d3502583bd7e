-------------------- MODULE RelayOfflineDelivery_proofs --------------------
(***************************************************************************)
(* Proofs about the way of a milestone to a phone that is not there, for   *)
(* every number of devices, sockets, prekeys, milestones and restarts and  *)
(* for every capacity.                                                     *)
(***************************************************************************)
EXTENDS RelayOfflineDelivery, TLAPS

USE DEF tables, phone, storeVars, queues, keyStore, outboxes, client, macVars

-----------------------------------------------------------------------------
(* The inductive invariant.                                                *)

Envs   == [ev : Nat, boot : Nat, epoch : Nat, counter : Nat]
Items   == [dev : Devices, env : Envs]
InHands == [dev : Devices, env : Envs, read : Nat]
Epochs == [prekey : Prekeys, last : Nat]
DeviceRows == [known : BOOLEAN, revoked : BOOLEAN, auth : Nat, next : Nat \ {0}]
Rows   == [cursor : Nat \ {0}, env : Envs, expires : Nat, acked : BOOLEAN]

\* The types of what the way of a frame depends on.
ServerTypes ==
  /\ now \in Nat
  /\ device \in [Devices -> DeviceRows]
  /\ frames \in [Devices -> SUBSET Rows]
  /\ inHand \in [Peers -> {Nothing} \cup InHands]

MacTypes ==
  /\ published \in Nat /\ offlineQueue \in Seq(Nat)
  /\ routing \in [ev : Nat, route : SUBSET Devices, flush : SUBSET Devices]
  /\ prekeys \in [Devices -> SUBSET [id : Prekeys, consumed : BOOLEAN]]
  /\ epochs \in [Devices -> Seq(Epochs)]
  /\ outbox \in [Devices -> Seq(Envs)]
  /\ link \in Peers \cup {0} /\ wire \in [Peers -> Seq(Items)]
  /\ boots \in Nat

\* Frame e for device d lies at place a: the members of Copies.
InOutbox(d, a, e) == \E i \in DOMAIN outbox[d] : a = <<"outbox", 0, i>> /\ e = outbox[d][i]
OnWire(d, a, e) ==
  \E p \in Peers : \E i \in DOMAIN wire[p] :
    wire[p][i].dev = d /\ a = <<"wire", p, i>> /\ e = wire[p][i].env
InLoop(d, a, e) ==
  \E p \in Peers :
    inHand[p] # Nothing /\ inHand[p].dev = d /\ a = <<"inHand", p, 1>> /\ e = inHand[p].env
InMailbox(d, a, e) == \E f \in frames[d] : a = <<"mailbox", 0, f.cursor>> /\ e = f.env

Lies(d, a, e) == InOutbox(d, a, e) \/ OnWire(d, a, e) \/ InLoop(d, a, e) \/ InMailbox(d, a, e)

\* NoDuplicate, place by place.
DistinctAt(d) ==
  \A a, b, e, g : Lies(d, a, e) /\ Lies(d, b, g) /\ SameCounter(e, g) => a = b

\* A frame was sealed by an earlier process of the bridge, or under a counter that its
\* epoch has handed out.
Issued(d, e) ==
  \/ e.boot < boots
  \/ /\ e.boot = boots /\ e.epoch \in DOMAIN epochs[d]
     /\ e.counter <= epochs[d][e.epoch].last

IssuedAt(d) == \A a, e : Lies(d, a, e) => Issued(d, e)

OrderedAt(d) ==
  /\ \A i, j \in DOMAIN outbox[d] : i < j => Older(outbox[d][i], outbox[d][j])
  /\ \A p \in Peers : \A i \in DOMAIN wire[p] : wire[p][i].dev = d =>
       /\ \A j \in DOMAIN wire[p] :
            i < j /\ wire[p][j].dev = d => Older(wire[p][i].env, wire[p][j].env)
       /\ \A j \in DOMAIN outbox[d] : Older(wire[p][i].env, outbox[d][j])

WayInv == \A d \in Devices : DistinctAt(d) /\ IssuedAt(d) /\ OrderedAt(d)

DeliveryInv == ServerTypes /\ MacTypes /\ WayInv

-----------------------------------------------------------------------------
(* Types.                                                                  *)

\* A frame in hand or at the head of a socket.
LEMMA HeadOf ==
  ASSUME NEW S, NEW s \in Seq(S), s # <<>>
  PROVE  Head(s) \in S /\ Tail(s) \in Seq(S) /\ Len(s) \in Nat \ {0}
  OBVIOUS

\* The epochs after the reservation of a counter.
LEMMA CountedType ==
  ASSUME NEW es \in Seq(Epochs), es # <<>>
  PROVE  /\ Counted(es) \in Seq(Epochs) /\ Len(Counted(es)) = Len(es)
         /\ DOMAIN Counted(es) = DOMAIN es
         /\ \A i \in DOMAIN es : i # Len(es) => Counted(es)[i] = es[i]
         /\ Counted(es)[Len(es)].last = es[Len(es)].last + 1
         /\ Last(Counted(es)).last = es[Len(es)].last + 1
         /\ Len(es) \in DOMAIN es /\ Len(es) \in Nat \ {0}
<1> DEFINE n == Len(es)
           x == [es[n] EXCEPT !.last = @ + 1]
<1>1. n \in Nat \ {0} /\ n \in DOMAIN es /\ es[n] \in Epochs /\ DOMAIN es = 1..n
  OBVIOUS
<1>2. x \in Epochs /\ x.last = es[n].last + 1
  BY <1>1 DEF Epochs
<1>3. Counted(es) = [es EXCEPT ![n] = x]
  BY DEF Counted
<1> HIDE DEF n, x
<1>4. [es EXCEPT ![n] = x] \in Seq(Epochs) /\ Len([es EXCEPT ![n] = x]) = n
      /\ DOMAIN [es EXCEPT ![n] = x] = DOMAIN es
  BY <1>1, <1>2 DEF n
<1>5. /\ \A i \in DOMAIN es : i # n => [es EXCEPT ![n] = x][i] = es[i]
      /\ [es EXCEPT ![n] = x][n] = x
  BY <1>1
<1> QED  BY <1>1, <1>2, <1>3, <1>4, <1>5 DEF n, Last

\* What a delivery step does to the mailbox: only AppendFrame adds a row.
LEMMA ServerTypesStep ==
  ASSUME ServerTypes, MacTypes, DeliveryNext PROVE ServerTypes'
<1> USE StoreAssumption
<1>1. CASE ServerNext
  <2>1. CASE Tick
    BY <2>1 DEF Tick, ServerTypes
  <2>2. CASE ExpireFrames
    BY <2>2 DEF ExpireFrames, Unacked, ServerTypes
  <2>3. CASE CrashServer
    BY <2>3 DEF CrashServer, ServerTypes
  <2>4. ASSUME NEW d \in Devices, RegisterDevice(d) PROVE ServerTypes'
    <3> DEFINE r == device[d]
               x == [r EXCEPT !.known = TRUE]
               y == [x EXCEPT !.revoked = FALSE]
    <3>1. r \in DeviceRows
      BY DEF ServerTypes
    <3> HIDE DEF r
    <3>2. x \in DeviceRows /\ x.auth = r.auth
      BY <3>1 DEF DeviceRows
    <3> HIDE DEF x
    <3>3. y \in DeviceRows /\ y.auth = r.auth
      BY <3>2 DEF DeviceRows
    <3> HIDE DEF y
    <3>4. [y EXCEPT !.auth = r.auth + 1] \in DeviceRows
      BY <3>1, <3>3 DEF DeviceRows
    <3>5. Registered(r) = [y EXCEPT !.auth = r.auth + 1]
      BY <3>1 DEF Registered, x, y, DeviceRows
    <3>6. Registered(device[d]) \in DeviceRows
      BY <3>4, <3>5 DEF r
    <3> QED  BY <2>4, <3>6 DEF RegisterDevice, ServerTypes
  <2>5. ASSUME NEW d \in Devices, RevokeDevice(d) PROVE ServerTypes'
    <3>1. [device[d] EXCEPT !.revoked = TRUE] \in DeviceRows
      BY DEF ServerTypes, DeviceRows
    <3> QED  BY <2>5, <3>1 DEF RevokeDevice, ServerTypes
  <2>6. ASSUME NEW p \in Peers, AppendFrame(p) PROVE ServerTypes'
    <3> DEFINE d == inHand[p].dev
               env == inHand[p].env
    <3>1. d \in Devices /\ env \in Envs
      BY <2>6 DEF AppendFrame, ServerTypes, InHands
    <3>2. inHand' = [inHand EXCEPT ![p] = Nothing] /\ now' = now
      BY <2>6 DEF AppendFrame
    <3>3. CASE CanAppend(d, env)
      <4>1. inHand[p].read \in Nat /\ now \in Nat
        BY <2>6 DEF AppendFrame, ServerTypes, InHands
      <4>2. /\ \E t \in inHand[p].read..now :
                 frames' = [frames EXCEPT ![d] = Kept(@, SizeOf[env], t) \cup {Row(d, env, t)}]
            /\ device' = [device EXCEPT ![d].next = @ + 1]
        BY <2>6, <3>3 DEF AppendFrame
      <4>3. PICK t \in inHand[p].read..now :
              frames' = [frames EXCEPT ![d] = Kept(@, SizeOf[env], t) \cup {Row(d, env, t)}]
        BY <4>2
      <4>4. t \in Nat
        BY <4>1
      <4>5. Row(d, env, t) \in Rows
        BY <3>1, <4>4 DEF Row, Rows, ServerTypes, DeviceRows
      <4>6. Kept(frames[d], SizeOf[env], t) \subseteq Rows
        BY <3>1 DEF Kept, Unacked, ServerTypes
      <4>7. [device[d] EXCEPT !.next = @ + 1] \in DeviceRows
        BY <3>1 DEF ServerTypes, DeviceRows
      <4> HIDE DEF d, env
      <4> QED  BY <3>1, <3>2, <4>2, <4>3, <4>5, <4>6, <4>7 DEF ServerTypes
    <3>4. CASE ~CanAppend(d, env)
      BY <2>6, <3>2, <3>4 DEF AppendFrame, ServerTypes
    <3> QED  BY <3>3, <3>4
  <2>7. ASSUME NEW s \in Slots, DeviceNext(s) PROVE ServerTypes'
    <3>1. ASSUME NEW d \in Devices, RequestFetch(s, d) \/ RequestAck(s, d) PROVE ServerTypes'
      BY <3>1 DEF RequestFetch, RequestAck, Authenticate, ServerTypes
    <3>2. CASE DeleteExpired(s) \/ SelectFrames(s)
      BY <3>2 DEF DeleteExpired, SelectFrames, ServerTypes
    <3>3. CASE ReceiveFrames(s) \/ LoseCall(s)
      BY <3>3 DEF ReceiveFrames, LoseCall, ServerTypes
    <3>4. CASE AckFrames(s)
      <4>1. \A f \in Rows : [f EXCEPT !.acked = TRUE] \in Rows
        BY DEF Rows
      <4> QED  BY <3>4, <4>1 DEF AckFrames, ServerTypes
    <3> QED  BY <2>7, <3>1, <3>2, <3>3, <3>4 DEF DeviceNext
  <2> QED  BY <1>1, <2>1, <2>2, <2>3, <2>4, <2>5, <2>6, <2>7 DEF ServerNext
<1>2. CASE MacNext
  <2>1. CASE Publish \/ TakeMilestone \/ Disconnect \/ RestartBridge
    BY <2>1 DEF Publish, TakeMilestone, Disconnect, RestartBridge, ServerTypes
  <2>2. ASSUME NEW d \in Devices,
               \/ RouteOfflineEvent(d) \/ RouteFlush(d) \/ ConnectFlush(d)
               \/ FlushSend(d) \/ FlushFails(d) \/ FlushDone(d)
               \/ \E id \in Prekeys : UploadPrekeys(d, id)
               \/ GetPrekeyStatus(d)
        PROVE  ServerTypes'
    BY <2>2 DEF RouteOfflineEvent, RouteFlush, ConnectFlush, BeginFlush, FlushSend,
                FlushFails, FlushDone, UploadPrekeys, GetPrekeyStatus, ServerTypes
  <2>3. ASSUME NEW p \in Peers, Connect(p) \/ BreakSocket(p) PROVE ServerTypes'
    BY <2>3 DEF Connect, BridgeConnects, BreakSocket, ServerTypes
  <2>4. ASSUME NEW p \in Peers, ServerReads(p) PROVE ServerTypes'
    <3> DEFINE x == Head(wire[p])
    <3>1. x \in Items
      BY <2>4, HeadOf DEF ServerReads, MacTypes
    <3>2. [dev |-> x.dev, env |-> x.env, read |-> now] \in InHands
      BY <3>1 DEF Items, InHands, ServerTypes
    <3>3. UNCHANGED <<now, device, frames>>
      BY <2>4 DEF ServerReads, ReadBridgeFrame
    <3>4. inHand' \in {inHand, [inHand EXCEPT ![p] = [dev |-> x.dev, env |-> x.env, read |-> now]]}
      BY <2>4 DEF ServerReads, ReadBridgeFrame
    <3> HIDE DEF x
    <3> QED  BY <3>2, <3>3, <3>4 DEF ServerTypes
  <2> QED  BY <1>2, <2>1, <2>2, <2>3, <2>4 DEF MacNext
<1> QED  BY <1>1, <1>2 DEF DeliveryNext

\* routeOfflineEvent reserves a counter above those its epoch has handed out and seals
\* a frame under it, which goes to the end of the outbox or nowhere; or it finds no key.
LEMMA Routed ==
  ASSUME MacTypes, NEW d \in Devices, RouteOfflineEvent(d)
  PROVE  \/ UNCHANGED <<epochs, outbox>>
         \/ \E es \in Seq(Epochs), e \in Envs :
              /\ epochs' = [epochs EXCEPT ![d] = es]
              /\ \A i \in DOMAIN epochs[d] : i \in DOMAIN es /\ epochs[d][i].last <= es[i].last
              /\ Len(es) \in DOMAIN es
              /\ Len(es) \in DOMAIN epochs[d] => epochs[d][Len(es)].last < es[Len(es)].last
              /\ e.boot = boots /\ e.epoch = Len(es) /\ e.counter = es[Len(es)].last
              /\ outbox' \in {outbox, [outbox EXCEPT ![d] = Append(@, e)]}
<1> DEFINE Goal(es, e) ==
             /\ epochs' = [epochs EXCEPT ![d] = es]
             /\ \A i \in DOMAIN epochs[d] : i \in DOMAIN es /\ epochs[d][i].last <= es[i].last
             /\ Len(es) \in DOMAIN es
             /\ Len(es) \in DOMAIN epochs[d] => epochs[d][Len(es)].last < es[Len(es)].last
             /\ e.boot = boots /\ e.epoch = Len(es) /\ e.counter = es[Len(es)].last
             /\ outbox' \in {outbox, [outbox EXCEPT ![d] = Append(@, e)]}
<1>1. epochs \in [Devices -> Seq(Epochs)] /\ epochs[d] \in Seq(Epochs)
      /\ routing.ev \in Nat /\ boots \in Nat
  BY DEF MacTypes
<1>2. ASSUME NEW es \in Seq(Epochs), es # <<>>
      PROVE  /\ Sealed(routing.ev, es) \in Envs /\ Len(es) \in DOMAIN es
             /\ Sealed(routing.ev, es).boot = boots /\ Sealed(routing.ev, es).epoch = Len(es)
             /\ Sealed(routing.ev, es).counter = es[Len(es)].last
  <2>1. Len(es) \in Nat \ {0} /\ Len(es) \in DOMAIN es /\ es[Len(es)] \in Epochs
    BY <1>2
  <2>2. es[Len(es)].last \in Nat
    BY <2>1 DEF Epochs
  <2> QED  BY <1>1, <2>1, <2>2 DEF Sealed, Last, Envs
<1>3. CASE /\ epochs[d] # <<>> /\ epochs' = [epochs EXCEPT ![d] = Counted(@)]
           /\ Enqueue(d, Sealed(routing.ev, epochs'[d]))
  <2> DEFINE es == Counted(epochs[d])
             e  == Sealed(routing.ev, es)
             n  == Len(epochs[d])
  <2>1. /\ es \in Seq(Epochs) /\ Len(es) = n /\ DOMAIN es = DOMAIN epochs[d]
        /\ \A i \in DOMAIN epochs[d] : i # n => es[i] = epochs[d][i]
        /\ es[n].last = epochs[d][n].last + 1
        /\ n \in DOMAIN epochs[d] /\ n \in Nat \ {0}
    BY <1>1, <1>3, CountedType
  <2>2. epochs' = [epochs EXCEPT ![d] = es] /\ epochs'[d] = es
    BY <1>1, <1>3
  <2>3. \A i \in DOMAIN epochs[d] : epochs[d][i].last \in Nat
    <3>1. \A i \in DOMAIN epochs[d] : epochs[d][i] \in Epochs
      BY <1>1
    <3> QED  BY <3>1 DEF Epochs
  <2> HIDE DEF es
  <2>4. es # <<>>
    BY <2>1
  <2>5. /\ e \in Envs /\ Len(es) \in DOMAIN es
        /\ e.boot = boots /\ e.epoch = Len(es) /\ e.counter = es[Len(es)].last
    BY <1>2, <2>1, <2>4
  <2>6. outbox' \in {outbox, [outbox EXCEPT ![d] = Append(@, e)]}
    BY <1>3, <2>2 DEF Enqueue
  <2> HIDE DEF e
  <2>7. \A i \in DOMAIN epochs[d] : i \in DOMAIN es /\ epochs[d][i].last <= es[i].last
    BY <2>1, <2>3
  <2>8. epochs[d][n].last < es[n].last
    BY <2>1, <2>3
  <2>9. Goal(es, e)
    BY <2>1, <2>2, <2>5, <2>6, <2>7, <2>8
  <2> QED  BY <2>1, <2>5, <2>9
<1>4. ASSUME epochs[d] = <<>>, NEW k \in Available(d),
             epochs' = [epochs EXCEPT ![d] = Counted(Opened(d, k))],
             Enqueue(d, Sealed(routing.ev, epochs'[d]))
      PROVE  \E es \in Seq(Epochs), e \in Envs : Goal(es, e)
  <2> DEFINE os == Opened(d, k)
             es == Counted(os)
             e  == Sealed(routing.ev, es)
  <2>1. os \in Seq(Epochs) /\ os # <<>>
    <3>1. k.id \in Prekeys
      BY <1>4 DEF Available, MacTypes
    <3>2. [prekey |-> k.id, last |-> 0] \in Epochs
      BY <3>1 DEF Epochs
    <3> QED  BY <1>1, <3>2 DEF Opened
  <2> HIDE DEF os
  <2>2. es \in Seq(Epochs) /\ es # <<>>
    BY <2>1, CountedType
  <2>3. epochs' = [epochs EXCEPT ![d] = es] /\ epochs'[d] = es
    BY <1>1, <1>4 DEF os
  <2> HIDE DEF es
  <2>4. /\ e \in Envs /\ Len(es) \in DOMAIN es
        /\ e.boot = boots /\ e.epoch = Len(es) /\ e.counter = es[Len(es)].last
    BY <1>2, <2>2
  <2>5. outbox' \in {outbox, [outbox EXCEPT ![d] = Append(@, e)]}
    BY <1>4, <2>3 DEF Enqueue
  <2> HIDE DEF e
  <2>6. DOMAIN epochs[d] = {}
    BY <1>4
  <2>7. Goal(es, e)
    BY <2>3, <2>4, <2>5, <2>6
  <2> QED  BY <2>2, <2>4, <2>7
<1>5. CASE UNCHANGED <<epochs, outbox>>
  BY <1>5
<1> HIDE DEF Goal
<1> QED  BY <1>3, <1>4, <1>5 DEF RouteOfflineEvent, Goal

\* Every step of the bridge keeps the types of its own state.
LEMMA MacTypesStep ==
  ASSUME ServerTypes, MacTypes, DeliveryNext PROVE MacTypes'
<1>1. CASE ServerNext
  BY <1>1 DEF ServerNext, MacTypes
<1>2. CASE Publish
  BY <1>2 DEF Publish, MacTypes
<1>3. CASE TakeMilestone
  <2>1. Head(offlineQueue) \in Nat /\ Tail(offlineQueue) \in Seq(Nat)
    BY <1>3, HeadOf DEF TakeMilestone, MacTypes
  <2> QED  BY <1>3, <2>1 DEF TakeMilestone, MacTypes
<1>4. CASE Disconnect
  BY <1>4 DEF Disconnect, MacTypes
<1>5. CASE RestartBridge
  BY <1>5 DEF RestartBridge, NewMac, Quiet, MacTypes
<1>6. ASSUME NEW d \in Devices, RouteOfflineEvent(d) PROVE MacTypes'
  <2>1. /\ routing' = [routing EXCEPT !.route = @ \ {d}]
        /\ UNCHANGED <<published, offlineQueue, link, wire, boots>>
    BY <1>6 DEF RouteOfflineEvent
  <2>2. routing' \in [ev : Nat, route : SUBSET Devices, flush : SUBSET Devices]
    BY <2>1 DEF MacTypes
  <2>3. epochs' \in [Devices -> Seq(Epochs)] /\ outbox' \in [Devices -> Seq(Envs)]
    <3>1. epochs \in [Devices -> Seq(Epochs)] /\ outbox \in [Devices -> Seq(Envs)]
      BY DEF MacTypes
    <3>2. \/ UNCHANGED <<epochs, outbox>>
          \/ \E es \in Seq(Epochs), e \in Envs :
               /\ epochs' = [epochs EXCEPT ![d] = es]
               /\ outbox' \in {outbox, [outbox EXCEPT ![d] = Append(@, e)]}
      BY <1>6, Routed
    <3>3. ASSUME NEW es \in Seq(Epochs), epochs' = [epochs EXCEPT ![d] = es]
          PROVE  epochs' \in [Devices -> Seq(Epochs)]
      BY <3>1, <3>3
    <3>4. ASSUME NEW e \in Envs, outbox' = [outbox EXCEPT ![d] = Append(@, e)]
          PROVE  outbox' \in [Devices -> Seq(Envs)]
      <4>1. Append(outbox[d], e) \in Seq(Envs)
        BY <3>1
      <4> QED  BY <3>1, <3>4, <4>1
    <3> QED  BY <3>1, <3>2, <3>3, <3>4
  <2>4. prekeys' \in [Devices -> SUBSET [id : Prekeys, consumed : BOOLEAN]]
    <3>1. prekeys \in [Devices -> SUBSET [id : Prekeys, consumed : BOOLEAN]]
      BY DEF MacTypes
    <3>2. \/ prekeys' = prekeys
          \/ \E k \in Available(d) :
               prekeys' = [prekeys EXCEPT ![d] = (@ \ {k}) \cup {[k EXCEPT !.consumed = TRUE]}]
      BY <1>6 DEF RouteOfflineEvent
    <3>3. ASSUME NEW k \in Available(d)
          PROVE  (prekeys[d] \ {k}) \cup {[k EXCEPT !.consumed = TRUE]}
                   \subseteq [id : Prekeys, consumed : BOOLEAN]
      <4>1. k \in [id : Prekeys, consumed : BOOLEAN]
        BY <3>1, <3>3 DEF Available
      <4>2. [k EXCEPT !.consumed = TRUE] \in [id : Prekeys, consumed : BOOLEAN]
        BY <4>1
      <4> QED  BY <3>1, <4>2
    <3> QED  BY <3>1, <3>2, <3>3
  <2> QED  BY <2>1, <2>2, <2>3, <2>4 DEF MacTypes
<1>7. ASSUME NEW d \in Devices, RouteFlush(d) \/ ConnectFlush(d) \/ GetPrekeyStatus(d)
      PROVE  MacTypes'
  BY <1>7 DEF RouteFlush, ConnectFlush, BeginFlush, GetPrekeyStatus, MacTypes
<1>8. ASSUME NEW d \in Devices, FlushSend(d) PROVE MacTypes'
  <2> DEFINE x == [dev |-> d, env |-> Head(outbox[d])]
  <2>1. link \in Peers /\ outbox[d] \in Seq(Envs) /\ outbox[d] # <<>>
    BY <1>8 DEF FlushSend, CanWrite, MacTypes
  <2>2. x \in Items /\ Tail(outbox[d]) \in Seq(Envs)
    BY <2>1, HeadOf DEF Items
  <2>3. /\ wire' = [wire EXCEPT ![link] = Append(@, x)]
        /\ outbox' = [outbox EXCEPT ![d] = Tail(@)]
        /\ UNCHANGED <<queues, keyStore, link, boots>>
    BY <1>8 DEF FlushSend
  <2> HIDE DEF x
  <2> QED  BY <2>1, <2>2, <2>3 DEF MacTypes
<1>9. ASSUME NEW d \in Devices, FlushFails(d) \/ FlushDone(d) PROVE MacTypes'
  <2>1. routing' \in {routing, Quiet, [routing EXCEPT !.flush = @ \ {d}]}
    BY <1>9 DEF FlushFails, FlushDone, EndFlush
  <2>2. routing' \in [ev : Nat, route : SUBSET Devices, flush : SUBSET Devices]
    <3>1. routing \in [ev : Nat, route : SUBSET Devices, flush : SUBSET Devices]
      BY DEF MacTypes
    <3>2. Quiet \in [ev : Nat, route : SUBSET Devices, flush : SUBSET Devices]
      BY DEF Quiet
    <3>3. [routing EXCEPT !.flush = @ \ {d}]
            \in [ev : Nat, route : SUBSET Devices, flush : SUBSET Devices]
      BY <3>1
    <3> QED  BY <2>1, <3>1, <3>2, <3>3
  <2> QED  BY <1>9, <2>2 DEF FlushFails, FlushDone, MacTypes
<1>10. ASSUME NEW d \in Devices, NEW id \in Prekeys, UploadPrekeys(d, id) PROVE MacTypes'
  <2>1. [id |-> id, consumed |-> FALSE] \in [id : Prekeys, consumed : BOOLEAN]
    OBVIOUS
  <2>2. /\ prekeys' = [prekeys EXCEPT ![d] = @ \cup {[id |-> id, consumed |-> FALSE]}]
        /\ UNCHANGED <<queues, epochs, outbox, link, wire, boots>>
    BY <1>10 DEF UploadPrekeys
  <2> DEFINE x == [id |-> id, consumed |-> FALSE]
  <2> HIDE DEF x
  <2> QED  BY <2>1, <2>2 DEF MacTypes, x
<1>11. ASSUME NEW p \in Peers, Connect(p) \/ BreakSocket(p) PROVE MacTypes'
  BY <1>11 DEF Connect, BreakSocket, MacTypes
<1>12. ASSUME NEW p \in Peers, ServerReads(p) PROVE MacTypes'
  <2>1. wire[p] \in Seq(Items) /\ wire[p] # <<>>
    BY <1>12 DEF ServerReads, MacTypes
  <2>2. Tail(wire[p]) \in Seq(Items)
    BY <2>1, HeadOf
  <2> QED  BY <1>12, <2>2 DEF ServerReads, MacTypes
<1> QED
  BY <1>1, <1>2, <1>3, <1>4, <1>5, <1>6, <1>7, <1>8, <1>9, <1>10, <1>11, <1>12
  DEF DeliveryNext, MacNext

-----------------------------------------------------------------------------
(* The way of a frame.                                                     *)

Places == {"outbox", "wire", "inHand", "mailbox"} \X Nat \X (Nat \ {0})

PlacesKnown == \A d \in Devices : \A a, e : Lies(d, a, e) => a \in Places /\ e \in Envs

\* Where a frame may lie, and what it is.
LEMMA LiesTyped == ServerTypes /\ MacTypes => PlacesKnown
<1> SUFFICES ASSUME ServerTypes, MacTypes, NEW d \in Devices, NEW a, NEW e, Lies(d, a, e)
             PROVE  a \in Places /\ e \in Envs
  BY DEF PlacesKnown
<1>1. CASE InOutbox(d, a, e)
  <2>1. PICK i \in DOMAIN outbox[d] : a = <<"outbox", 0, i>> /\ e = outbox[d][i]
    BY <1>1 DEF InOutbox
  <2>2. outbox[d] \in Seq(Envs)
    BY DEF MacTypes
  <2>3. i \in Nat \ {0} /\ outbox[d][i] \in Envs
    BY <2>2
  <2> QED  BY <2>1, <2>3 DEF Places
<1>2. CASE OnWire(d, a, e)
  <2>1. PICK p \in Peers : \E i \in DOMAIN wire[p] : a = <<"wire", p, i>> /\ e = wire[p][i].env
    BY <1>2 DEF OnWire
  <2>2. PICK i \in DOMAIN wire[p] : a = <<"wire", p, i>> /\ e = wire[p][i].env
    BY <2>1
  <2>3. wire[p] \in Seq(Items) /\ p \in Nat
    BY StoreAssumption DEF MacTypes
  <2>4. i \in Nat \ {0} /\ wire[p][i] \in Items
    BY <2>3
  <2> QED  BY <2>2, <2>3, <2>4 DEF Places, Items
<1>3. CASE InLoop(d, a, e)
  <2>1. PICK p \in Peers : inHand[p] # Nothing /\ a = <<"inHand", p, 1>> /\ e = inHand[p].env
    BY <1>3 DEF InLoop
  <2>2. inHand[p] \in InHands /\ p \in Nat
    BY <2>1, StoreAssumption DEF ServerTypes
  <2> QED  BY <2>1, <2>2 DEF Places, InHands
<1>4. CASE InMailbox(d, a, e)
  <2>1. PICK f \in frames[d] : a = <<"mailbox", 0, f.cursor>> /\ e = f.env
    BY <1>4 DEF InMailbox
  <2>2. f \in Rows
    BY DEF ServerTypes
  <2>3. f.cursor \in Nat \ {0} /\ f.env \in Envs
    BY <2>2 DEF Rows
  <2> QED  BY <2>1, <2>3 DEF Places
<1> QED  BY <1>1, <1>2, <1>3, <1>4 DEF Lies

\* The same after a step.
LEMMA LiesTypedNext ==
  ASSUME ServerTypes', MacTypes', NEW d \in Devices, NEW a, NEW e, Lies(d, a, e)'
  PROVE  a \in Places /\ e \in Envs
<1>1. PlacesKnown'
  BY LiesTyped, PTL
<1> QED  BY <1>1 DEF PlacesKnown

\* Frames that move without being copied stay in one place each.
LEMMA Moved ==
  ASSUME NEW d \in Devices, DistinctAt(d), NEW M,
         \A a, e : Lies(d, a, e)' => a \in Places /\ Lies(d, M[a], e),
         \A a, b \in Places : M[a] = M[b] => a = b
  PROVE  DistinctAt(d)'
  BY DEF DistinctAt

\* Frames that stay, or go for good.
LEMMA Stayed ==
  ASSUME NEW d \in Devices, DistinctAt(d), \A a, e : Lies(d, a, e)' => Lies(d, a, e)
  PROVE  DistinctAt(d)'
  BY DEF DistinctAt

\* Counters that were handed out stay so.
LEMMA StillIssued ==
  ASSUME NEW d \in Devices, IssuedAt(d), \A a, e : Lies(d, a, e)' => \E b : Lies(d, b, e),
         epochs'[d] = epochs[d], boots' = boots
  PROVE  IssuedAt(d)'
  BY DEF IssuedAt, Issued

\* What keeps the outbox and the sockets and at most drops frames of the server.
LEMMA WayKept ==
  ASSUME WayInv, UNCHANGED <<outbox, wire, epochs, boots>>,
         \A d \in Devices : \A f \in frames'[d] :
           \E g \in frames[d] : g.cursor = f.cursor /\ g.env = f.env,
         \A p \in Peers : inHand'[p] \in {inHand[p], Nothing}
  PROVE  WayInv'
<1> SUFFICES ASSUME NEW d \in Devices PROVE DistinctAt(d)' /\ IssuedAt(d)' /\ OrderedAt(d)'
  BY DEF WayInv
<1>1. ASSUME NEW a, NEW e, Lies(d, a, e)' PROVE Lies(d, a, e)
  <2>1. InOutbox(d, a, e)' => InOutbox(d, a, e)
    BY DEF InOutbox
  <2>2. OnWire(d, a, e)' => OnWire(d, a, e)
    BY DEF OnWire
  <2>3. InLoop(d, a, e)' => InLoop(d, a, e)
    BY DEF InLoop
  <2>4. InMailbox(d, a, e)' => InMailbox(d, a, e)
    BY DEF InMailbox
  <2> QED  BY <1>1, <2>1, <2>2, <2>3, <2>4 DEF Lies
<1>2. DistinctAt(d)'
  BY <1>1, Stayed DEF WayInv
<1>3. IssuedAt(d)'
  BY <1>1, StillIssued DEF WayInv
<1>4. OrderedAt(d)'
  BY DEF WayInv, OrderedAt
<1> QED  BY <1>2, <1>3, <1>4

\* A restart forgets the outboxes; whatever is on its way is of an earlier process.
LEMMA RestartWay ==
  ASSUME ServerTypes, MacTypes, WayInv, RestartBridge PROVE WayInv'
<1> SUFFICES ASSUME NEW d \in Devices PROVE DistinctAt(d)' /\ IssuedAt(d)' /\ OrderedAt(d)'
  BY DEF WayInv
<1>1. /\ outbox' = [x \in Devices |-> <<>>] /\ boots' = boots + 1
      /\ UNCHANGED <<wire, frames, inHand>>
  BY DEF RestartBridge, NewMac
<1>2. DOMAIN outbox'[d] = {}
  BY <1>1
<1>3. ASSUME NEW a, NEW e, Lies(d, a, e)' PROVE Lies(d, a, e)
  <2>1. ~InOutbox(d, a, e)'
    BY <1>2 DEF InOutbox
  <2>2. OnWire(d, a, e)' => OnWire(d, a, e)
    BY <1>1 DEF OnWire
  <2>3. InLoop(d, a, e)' => InLoop(d, a, e)
    BY <1>1 DEF InLoop
  <2>4. InMailbox(d, a, e)' => InMailbox(d, a, e)
    BY <1>1 DEF InMailbox
  <2> QED  BY <1>3, <2>1, <2>2, <2>3, <2>4 DEF Lies
<1>4. DistinctAt(d)'
  BY <1>3, Stayed DEF WayInv
<1>5. IssuedAt(d)'
  <2> SUFFICES ASSUME NEW a, NEW e, Lies(d, a, e)' PROVE e.boot < boots'
    BY DEF IssuedAt, Issued
  <2>1. Issued(d, e) /\ e \in Envs
    BY <1>3, LiesTyped DEF WayInv, IssuedAt, PlacesKnown
  <2>2. e.boot \in Nat /\ boots \in Nat
    BY <2>1 DEF Envs, MacTypes
  <2> QED  BY <1>1, <2>1, <2>2 DEF Issued
<1>6. OrderedAt(d)'
  BY <1>1, <1>2 DEF WayInv, OrderedAt
<1> QED  BY <1>4, <1>5, <1>6

\* routeOfflineEvent: the new frame has the largest counter of its epoch.
LEMMA RouteWay ==
  ASSUME ServerTypes, MacTypes, WayInv, NEW c \in Devices, RouteOfflineEvent(c)
  PROVE  WayInv'
<1>1. UNCHANGED <<wire, frames, inHand, boots>>
  BY DEF RouteOfflineEvent
<1>2. CASE UNCHANGED <<epochs, outbox>>
  BY <1>1, <1>2, WayKept
<1>3. ASSUME NEW es \in Seq(Epochs), NEW n \in Envs,
             epochs' = [epochs EXCEPT ![c] = es],
             \A i \in DOMAIN epochs[c] : i \in DOMAIN es /\ epochs[c][i].last <= es[i].last,
             Len(es) \in DOMAIN es,
             Len(es) \in DOMAIN epochs[c] => epochs[c][Len(es)].last < es[Len(es)].last,
             n.boot = boots, n.epoch = Len(es), n.counter = es[Len(es)].last,
             outbox' \in {outbox, [outbox EXCEPT ![c] = Append(@, n)]}
      PROVE  WayInv'
  <2> SUFFICES ASSUME NEW d \in Devices PROVE DistinctAt(d)' /\ IssuedAt(d)' /\ OrderedAt(d)'
    BY DEF WayInv
  <2>1. /\ epochs \in [Devices -> Seq(Epochs)] /\ outbox \in [Devices -> Seq(Envs)]
        /\ boots \in Nat /\ wire \in [Peers -> Seq(Items)]
    BY DEF MacTypes
  <2>2. CASE outbox'[d] = outbox[d]
    <3>1. ASSUME NEW a, NEW e, Lies(d, a, e)' PROVE Lies(d, a, e)
      <4>1. InOutbox(d, a, e)' => InOutbox(d, a, e)
        BY <2>2 DEF InOutbox
      <4>2. OnWire(d, a, e)' => OnWire(d, a, e)
        BY <1>1 DEF OnWire
      <4>3. InLoop(d, a, e)' => InLoop(d, a, e)
        BY <1>1 DEF InLoop
      <4>4. InMailbox(d, a, e)' => InMailbox(d, a, e)
        BY <1>1 DEF InMailbox
      <4> QED  BY <3>1, <4>1, <4>2, <4>3, <4>4 DEF Lies
    <3>2. DistinctAt(d)'
      BY <3>1, Stayed DEF WayInv
    <3>3. ASSUME NEW e \in Envs, Issued(d, e) PROVE Issued(d, e)'
      <4>1. CASE d # c
        BY <1>1, <1>3, <2>1, <3>3, <4>1 DEF Issued
      <4>2. CASE d = c /\ e.boot = boots /\ e.epoch \in DOMAIN epochs[c]
        <5>1. epochs'[c] = es
          BY <1>3, <2>1
        <5>2. epochs[c][e.epoch] \in Epochs /\ es[e.epoch] \in Epochs
          BY <1>3, <2>1, <4>2
        <5>3. epochs[c][e.epoch].last \in Nat /\ es[e.epoch].last \in Nat /\ e.counter \in Nat
          BY <5>2 DEF Epochs, Envs
        <5>4. e.counter <= epochs[c][e.epoch].last
          BY <2>1, <3>3, <4>2 DEF Issued
        <5>5. e.counter <= es[e.epoch].last
          BY <1>3, <4>2, <5>3, <5>4
        <5> QED  BY <1>1, <1>3, <4>2, <5>1, <5>5 DEF Issued
      <4>3. CASE d = c /\ e.boot < boots
        BY <1>1, <4>3 DEF Issued
      <4> QED  BY <3>3, <4>1, <4>2, <4>3 DEF Issued
    <3>4. IssuedAt(d)'
      <4> SUFFICES ASSUME NEW a, NEW e, Lies(d, a, e)' PROVE Issued(d, e)'
        BY DEF IssuedAt
      <4>1. Lies(d, a, e) /\ e \in Envs
        BY <3>1, LiesTyped DEF PlacesKnown
      <4> QED  BY <3>3, <4>1 DEF WayInv, IssuedAt
    <3>5. OrderedAt(d)'
      BY <1>1, <2>2 DEF WayInv, OrderedAt
    <3> QED  BY <3>2, <3>4, <3>5
  <2>3. CASE outbox'[d] # outbox[d]
    <3>1. d = c /\ outbox' = [outbox EXCEPT ![c] = Append(@, n)]
      BY <1>3, <2>1, <2>3
    <3> DEFINE o == outbox[d]
               m == Len(o) + 1
    <3>2. o \in Seq(Envs) /\ m \in Nat \ {0} /\ Len(o) \in Nat /\ DOMAIN o = 1..Len(o)
      BY <2>1
    <3>3. outbox'[d] = Append(o, n)
      BY <2>1, <3>1
    <3> HIDE DEF o
    <3>4. /\ DOMAIN outbox'[d] = 1..m
          /\ \A i \in DOMAIN o : outbox'[d][i] = o[i]
          /\ outbox'[d][m] = n
      BY <3>2, <3>3
    <3>5. ASSUME NEW e \in Envs, Issued(d, e) PROVE Older(e, n) /\ Issued(d, e)'
      <4>1. CASE e.boot < boots
        <5>1. e.boot \in Nat
          BY DEF Envs
        <5> QED  BY <1>1, <1>3, <2>1, <4>1, <5>1 DEF Older, Issued
      <4>2. CASE ~(e.boot < boots)
        <5>1. /\ e.boot = boots /\ e.epoch \in DOMAIN epochs[c]
              /\ e.counter <= epochs[c][e.epoch].last
          BY <3>1, <3>5, <4>2 DEF Issued
        <5>2. epochs[c][e.epoch] \in Epochs /\ es[e.epoch] \in Epochs /\ epochs'[c] = es
          BY <1>3, <2>1, <5>1
        <5>3. epochs[c][e.epoch].last \in Nat /\ es[e.epoch].last \in Nat /\ e.counter \in Nat
          BY <5>2 DEF Epochs, Envs
        <5>4. e.counter <= es[e.epoch].last /\ e.epoch \in DOMAIN es
          BY <1>3, <5>1, <5>3
        <5>5. Issued(d, e)'
          BY <1>1, <3>1, <5>1, <5>2, <5>4 DEF Issued
        <5>6. e.epoch = n.epoch => e.counter < n.counter
          BY <1>3, <5>1, <5>3
        <5> QED  BY <5>5, <5>6 DEF Older
      <4> QED  BY <4>1, <4>2
    <3>6. Issued(d, n)'
      <4>1. epochs'[d] = es
        BY <1>3, <2>1, <3>1
      <4>2. n.counter \in Nat
        BY DEF Envs
      <4> QED  BY <1>1, <1>3, <4>1, <4>2 DEF Issued
    <3>7. ASSUME NEW a, NEW e, Lies(d, a, e)'
          PROVE  Lies(d, a, e) \/ (a = <<"outbox", 0, m>> /\ e = n)
      <4>1. InOutbox(d, a, e)' => InOutbox(d, a, e) \/ (a = <<"outbox", 0, m>> /\ e = n)
        <5> SUFFICES ASSUME NEW i \in 1..m, a = <<"outbox", 0, i>>, e = outbox'[d][i]
                     PROVE  InOutbox(d, a, e) \/ (a = <<"outbox", 0, m>> /\ e = n)
          BY <3>4 DEF InOutbox
        <5>1. CASE i = m
          BY <3>4, <5>1
        <5>2. CASE i # m
          <6>1. i \in DOMAIN o /\ e = o[i]
            BY <3>2, <3>4, <5>2
          <6> QED  BY <6>1 DEF InOutbox, o
        <5> QED  BY <5>1, <5>2
      <4>2. OnWire(d, a, e)' => OnWire(d, a, e)
        BY <1>1 DEF OnWire
      <4>3. InLoop(d, a, e)' => InLoop(d, a, e)
        BY <1>1 DEF InLoop
      <4>4. InMailbox(d, a, e)' => InMailbox(d, a, e)
        BY <1>1 DEF InMailbox
      <4> QED  BY <3>7, <4>1, <4>2, <4>3, <4>4 DEF Lies
    <3>8. ASSUME NEW a, NEW e, Lies(d, a, e)
          PROVE  e \in Envs /\ Older(e, n) /\ ~SameCounter(e, n) /\ ~SameCounter(n, e)
                 /\ Issued(d, e)'
      <4>1. e \in Envs /\ Issued(d, e)
        BY <3>8, LiesTyped DEF PlacesKnown, WayInv, IssuedAt
      <4>2. Older(e, n) /\ Issued(d, e)'
        BY <3>5, <4>1
      <4>3. e.counter \in Nat /\ n.counter \in Nat
        BY <4>1 DEF Envs
      <4> QED  BY <4>1, <4>2, <4>3 DEF Older, SameCounter
    <3>9. DistinctAt(d)'
      <4> SUFFICES ASSUME NEW a, NEW b, NEW e, NEW g,
                          Lies(d, a, e)', Lies(d, b, g)', SameCounter(e, g)
                   PROVE  a = b
        BY DEF DistinctAt
      <4>1. CASE Lies(d, a, e) /\ Lies(d, b, g)
        BY <4>1 DEF WayInv, DistinctAt
      <4>2. CASE ~Lies(d, a, e) \/ ~Lies(d, b, g)
        BY <3>7, <3>8, <4>2
      <4> QED  BY <4>1, <4>2
    <3>10. IssuedAt(d)'
      BY <3>6, <3>7, <3>8 DEF IssuedAt
    <3>11. OrderedAt(d)'
      <4>1. \A i \in DOMAIN o : Older(o[i], n)
        <5> SUFFICES ASSUME NEW i \in DOMAIN o PROVE Older(o[i], n)
          OBVIOUS
        <5>1. Lies(d, <<"outbox", 0, i>>, o[i])
          BY DEF Lies, InOutbox, o
        <5> QED  BY <3>8, <5>1
      <4>2. \A p \in Peers : \A i \in DOMAIN wire[p] :
              wire[p][i].dev = d => Older(wire[p][i].env, n)
        <5> SUFFICES ASSUME NEW p \in Peers, NEW i \in DOMAIN wire[p], wire[p][i].dev = d
                     PROVE  Older(wire[p][i].env, n)
          OBVIOUS
        <5>1. Lies(d, <<"wire", p, i>>, wire[p][i].env)
          BY DEF Lies, OnWire
        <5> QED  BY <3>8, <5>1
      <4>3. ASSUME NEW i \in 1..m, NEW j \in 1..m, i < j
            PROVE  Older(outbox'[d][i], outbox'[d][j])
        <5>1. i \in DOMAIN o /\ outbox'[d][i] = o[i]
          BY <3>2, <3>4, <4>3
        <5>2. CASE j = m
          BY <3>4, <4>1, <5>1, <5>2
        <5>3. CASE j # m
          <6>1. j \in DOMAIN o /\ outbox'[d][j] = o[j]
            BY <3>2, <3>4, <5>3
          <6> QED  BY <4>3, <5>1, <6>1 DEF WayInv, OrderedAt, o
        <5> QED  BY <5>2, <5>3
      <4>4. ASSUME NEW p \in Peers, NEW i \in DOMAIN wire[p], wire[p][i].dev = d,
                   NEW j \in 1..m
            PROVE  Older(wire[p][i].env, outbox'[d][j])
        <5>1. CASE j = m
          BY <3>4, <4>2, <4>4, <5>1
        <5>2. CASE j # m
          <6>1. j \in DOMAIN o /\ outbox'[d][j] = o[j]
            BY <3>2, <3>4, <5>2
          <6> QED  BY <4>4, <6>1 DEF WayInv, OrderedAt, o
        <5> QED  BY <5>1, <5>2
      <4>5. \A p \in Peers : \A i, j \in DOMAIN wire[p] :
              wire[p][i].dev = d /\ wire[p][j].dev = d /\ i < j
                => Older(wire[p][i].env, wire[p][j].env)
        BY DEF WayInv, OrderedAt
      <4> HIDE DEF m
      <4> QED  BY <1>1, <3>4, <4>3, <4>4, <4>5 DEF OrderedAt
    <3> QED  BY <3>9, <3>10, <3>11
  <2> QED  BY <2>2, <2>3
<1> QED  BY <1>2, <1>3, Routed

\* Flush: the head of the outbox goes to the end of the socket.
LEMMA FlushWay ==
  ASSUME ServerTypes, MacTypes, ServerTypes', MacTypes', WayInv,
         NEW c \in Devices, FlushSend(c)
  PROVE  WayInv'
<1> DEFINE o == outbox[c]
<1>1. o \in Seq(Envs) /\ o # <<>> /\ link \in Peers
  BY DEF FlushSend, CanWrite, MacTypes
<1>2. PICK q \in Peers : q = link
  BY <1>1
<1>3. PICK n \in Nat : n = Len(wire[q])
  BY DEF MacTypes
<1>4. /\ wire \in [Peers -> Seq(Items)] /\ outbox \in [Devices -> Seq(Envs)]
      /\ DOMAIN wire[q] = 1..n
  BY <1>3 DEF MacTypes
<1>5. PICK h \in Envs : h = Head(o)
  BY <1>1, HeadOf
<1>6. PICK l \in Nat \ {0} : l = Len(o)
  BY <1>1, HeadOf
<1>7. /\ wire' = [wire EXCEPT ![q] = Append(@, [dev |-> c, env |-> h])]
      /\ outbox' = [outbox EXCEPT ![c] = Tail(@)]
      /\ UNCHANGED <<frames, inHand, epochs, boots>>
  BY <1>2, <1>5 DEF FlushSend
<1>8. /\ DOMAIN wire'[q] = 1..(n + 1)
      /\ \A i \in 1..n : wire'[q][i] = wire[q][i]
      /\ wire'[q][n + 1] = [dev |-> c, env |-> h]
      /\ \A p \in Peers : p # q => wire'[p] = wire[p]
  <2> DEFINE x == [dev |-> c, env |-> h]
             w == wire[q]
  <2>1. wire'[q] = Append(w, x)
    BY <1>4, <1>7
  <2>2. w \in Seq(Items) /\ x \in Items /\ Len(w) = n
    BY <1>3, <1>4 DEF Items
  <2> HIDE DEF w, x
  <2>3. /\ DOMAIN Append(w, x) = 1..(n + 1) /\ Append(w, x)[n + 1] = x
        /\ \A i \in 1..n : Append(w, x)[i] = w[i]
    BY <2>2
  <2>4. \A p \in Peers : p # q => wire'[p] = wire[p]
    BY <1>4, <1>7
  <2> QED  BY <2>1, <2>3, <2>4 DEF w, x
<1>9. /\ DOMAIN o = 1..l /\ o[1] = h
      /\ DOMAIN outbox'[c] = 1..(l - 1)
      /\ \A i \in 1..(l - 1) : i + 1 \in 1..l /\ outbox'[c][i] = o[i + 1]
      /\ \A d \in Devices : d # c => outbox'[d] = outbox[d]
  <2>1. outbox'[c] = Tail(o)
    BY <1>4, <1>7
  <2>2. \A d \in Devices : d # c => outbox'[d] = outbox[d]
    BY <1>4, <1>7
  <2> HIDE DEF o
  <2>3. /\ DOMAIN o = 1..l /\ o[1] = h /\ DOMAIN Tail(o) = 1..(l - 1)
        /\ \A i \in 1..(l - 1) : i + 1 \in 1..l /\ Tail(o)[i] = o[i + 1]
    BY <1>1, <1>5, <1>6
  <2> QED  BY <2>1, <2>2, <2>3
<1> SUFFICES ASSUME NEW d \in Devices PROVE DistinctAt(d)' /\ IssuedAt(d)' /\ OrderedAt(d)'
  BY DEF WayInv
<1>10. ASSUME NEW a, NEW e PROVE /\ InLoop(d, a, e)' => InLoop(d, a, e)
                                 /\ InMailbox(d, a, e)' => InMailbox(d, a, e)
  BY <1>7 DEF InLoop, InMailbox
<1>11. ASSUME NEW a, NEW e, OnWire(d, a, e)'
       PROVE  \/ OnWire(d, a, e) /\ a # <<"wire", q, n + 1>>
              \/ d = c /\ a = <<"wire", q, n + 1>> /\ e = h
  <2>1. PICK p \in Peers : \E i \in DOMAIN wire'[p] :
          wire'[p][i].dev = d /\ a = <<"wire", p, i>> /\ e = wire'[p][i].env
    BY <1>11 DEF OnWire
  <2>2. PICK i \in DOMAIN wire'[p] :
          wire'[p][i].dev = d /\ a = <<"wire", p, i>> /\ e = wire'[p][i].env
    BY <2>1
  <2>3. CASE p # q
    BY <1>8, <2>2, <2>3 DEF OnWire
  <2>4. CASE p = q /\ i = n + 1
    BY <1>8, <2>2, <2>4
  <2>5. CASE p = q /\ i # n + 1
    <3>1. i \in 1..n
      BY <1>3, <1>8, <2>5
    <3>2. wire[p][i].dev = d /\ e = wire[p][i].env /\ i \in DOMAIN wire[p]
      BY <1>4, <1>8, <2>2, <2>5, <3>1
    <3>3. OnWire(d, a, e)
      BY <2>2, <3>2 DEF OnWire
    <3> QED  BY <2>2, <2>5, <3>3
  <2> QED  BY <2>3, <2>4, <2>5
<1>12. \A p \in Peers : \A i, j \in DOMAIN wire[p] :
         wire[p][i].dev = d /\ wire[p][j].dev = d /\ i < j
           => Older(wire[p][i].env, wire[p][j].env)
  BY DEF WayInv, OrderedAt
<1>13. CASE d # c
  <2>1. outbox'[d] = outbox[d]
    BY <1>9, <1>13
  <2>2. ASSUME NEW a, NEW e, Lies(d, a, e)' PROVE Lies(d, a, e)
    <3>1. InOutbox(d, a, e)' => InOutbox(d, a, e)
      BY <2>1 DEF InOutbox
    <3> QED  BY <1>10, <1>11, <1>13, <2>2, <3>1 DEF Lies
  <2>3. DistinctAt(d)'
    BY <2>2, Stayed DEF WayInv
  <2>4. IssuedAt(d)'
    BY <1>7, <2>2, StillIssued DEF WayInv
  <2>5. ASSUME NEW p \in Peers, NEW i \in DOMAIN wire'[p], wire'[p][i].dev = d
        PROVE  i \in DOMAIN wire[p] /\ wire'[p][i] = wire[p][i]
    <3>1. CASE p # q
      BY <1>8, <2>5, <3>1
    <3>2. CASE p = q
      <4>1. i # n + 1
        BY <1>8, <1>13, <2>5, <3>2
      <4>2. i \in 1..n
        BY <1>8, <2>5, <3>2, <4>1
      <4> QED  BY <1>4, <1>8, <3>2, <4>2
    <3> QED  BY <3>1, <3>2
  <2>6. OrderedAt(d)'
    BY <2>1, <2>5 DEF WayInv, OrderedAt
  <2> QED  BY <2>3, <2>4, <2>6
<1>14. CASE d = c
  <2> DEFINE M == [a \in Places |->
                     IF a[1] = "outbox" THEN <<"outbox", a[2], a[3] + 1>>
                     ELSE IF a = <<"wire", q, n + 1>> THEN <<"outbox", 0, 1>> ELSE a]
  <2>1. \A a, b \in Places : M[a] = M[b] => a = b
    BY DEF Places
  <2>2. ASSUME NEW a, NEW e, Lies(d, a, e)' PROVE a \in Places /\ Lies(d, M[a], e)
    <3>1. a \in Places
      BY <2>2, LiesTypedNext
    <3>2. CASE InOutbox(d, a, e)'
      <4>1. PICK i \in 1..(l - 1) : a = <<"outbox", 0, i>> /\ e = o[i + 1]
        BY <1>9, <1>14, <3>2 DEF InOutbox
      <4>2. M[a] = <<"outbox", 0, i + 1>>
        BY <3>1, <4>1
      <4> HIDE DEF M
      <4> QED  BY <1>9, <1>14, <3>1, <4>1, <4>2 DEF Lies, InOutbox
    <3>3. CASE OnWire(d, a, e)'
      <4>1. CASE OnWire(d, a, e) /\ a # <<"wire", q, n + 1>>
        <5>1. a[1] = "wire"
          BY <4>1 DEF OnWire
        <5>2. M[a] = a
          BY <3>1, <4>1, <5>1
        <5> HIDE DEF M
        <5> QED  BY <3>1, <4>1, <5>2 DEF Lies
      <4>2. CASE a = <<"wire", q, n + 1>> /\ e = h
        <5>1. M[a] = <<"outbox", 0, 1>>
          BY <3>1, <4>2
        <5>2. InOutbox(d, <<"outbox", 0, 1>>, e)
          BY <1>6, <1>9, <1>14, <4>2 DEF InOutbox
        <5> HIDE DEF M
        <5> QED  BY <3>1, <5>1, <5>2 DEF Lies
      <4> QED  BY <1>11, <3>3, <4>1, <4>2
    <3>4. CASE InLoop(d, a, e)' \/ InMailbox(d, a, e)'
      <4>1. a[1] # "outbox" /\ a # <<"wire", q, n + 1>>
        BY <3>4 DEF InLoop, InMailbox
      <4>2. M[a] = a
        BY <3>1, <4>1
      <4> HIDE DEF M
      <4> QED  BY <1>10, <3>1, <3>4, <4>2 DEF Lies
    <3> QED  BY <2>2, <3>2, <3>3, <3>4 DEF Lies
  <2> HIDE DEF M
  <2>3. DistinctAt(d)'
    BY <2>1, <2>2, Moved DEF WayInv
  <2>4. IssuedAt(d)'
    BY <1>7, <2>2, StillIssued DEF WayInv
  <2>5. /\ \A i, j \in 1..l : i < j => Older(o[i], o[j])
        /\ \A p \in Peers : \A i \in DOMAIN wire[p] : wire[p][i].dev = d =>
             \A j \in 1..l : Older(wire[p][i].env, o[j])
    BY <1>9, <1>14 DEF WayInv, OrderedAt
  <2>6. ASSUME NEW i \in 1..(l - 1), NEW j \in 1..(l - 1), i < j
        PROVE  Older(outbox'[d][i], outbox'[d][j])
    <3>1. outbox'[d][i] = o[i + 1] /\ i + 1 \in 1..l
      BY <1>9, <1>14
    <3>2. outbox'[d][j] = o[j + 1] /\ j + 1 \in 1..l
      BY <1>9, <1>14
    <3>3. i + 1 < j + 1
      BY <2>6
    <3> QED  BY <2>5, <3>1, <3>2, <3>3
  <2>7. ASSUME NEW p \in Peers, NEW i \in DOMAIN wire'[p]
        PROVE  \/ i \in DOMAIN wire[p] /\ wire'[p][i] = wire[p][i]
               \/ p = q /\ i = n + 1 /\ wire'[p][i] = [dev |-> c, env |-> h]
    <3>1. CASE p # q
      BY <1>8, <2>7, <3>1
    <3>2. CASE p = q /\ i = n + 1
      BY <1>8, <3>2
    <3>3. CASE p = q /\ i # n + 1
      <4>1. i \in 1..n
        BY <1>8, <2>7, <3>3
      <4> QED  BY <1>4, <1>8, <3>3, <4>1
    <3> QED  BY <3>1, <3>2, <3>3
  <2>8. ASSUME NEW p \in Peers, NEW i \in DOMAIN wire'[p], wire'[p][i].dev = d,
               NEW j \in 1..(l - 1)
        PROVE  Older(wire'[p][i].env, outbox'[d][j])
    <3>1. outbox'[d][j] = o[j + 1] /\ j + 1 \in 1..l /\ 1 < j + 1 /\ 1 \in 1..l
      BY <1>9, <1>14
    <3>2. CASE i \in DOMAIN wire[p] /\ wire'[p][i] = wire[p][i]
      BY <2>5, <2>8, <3>1, <3>2
    <3>3. CASE wire'[p][i] = [dev |-> c, env |-> h]
      BY <1>9, <2>5, <3>1, <3>3
    <3> QED  BY <2>7, <3>2, <3>3
  <2>9. ASSUME NEW p \in Peers, NEW i \in DOMAIN wire'[p], NEW j \in DOMAIN wire'[p],
               i < j, wire'[p][i].dev = d, wire'[p][j].dev = d
        PROVE  Older(wire'[p][i].env, wire'[p][j].env)
    <3>1. CASE i \in DOMAIN wire[p] /\ wire'[p][i] = wire[p][i]
      <4>1. CASE j \in DOMAIN wire[p] /\ wire'[p][j] = wire[p][j]
        BY <1>12, <2>9, <3>1, <4>1
      <4>2. CASE wire'[p][j] = [dev |-> c, env |-> h]
        <5>1. wire'[p][j].env = o[1] /\ 1 \in 1..l
          BY <1>9, <4>2
        <5> QED  BY <2>5, <2>9, <3>1, <5>1
      <4> QED  BY <2>7, <4>1, <4>2
    <3>2. CASE p = q /\ i = n + 1
      <4>1. i \in 1..(n + 1) /\ j \in 1..(n + 1)
        BY <1>8, <3>2
      <4> QED  BY <2>9, <3>2, <4>1
    <3> QED  BY <2>7, <3>1, <3>2
  <2>10. DOMAIN outbox'[d] = 1..(l - 1)
    BY <1>9, <1>14
  <2>11. OrderedAt(d)'
    BY <2>6, <2>8, <2>9, <2>10 DEF OrderedAt
  <2> QED  BY <2>3, <2>4, <2>11
<1> QED  BY <1>13, <1>14

\* The server's read loop takes the head of a socket in hand, or refuses it.
LEMMA ReadsWay ==
  ASSUME ServerTypes, MacTypes, ServerTypes', MacTypes', WayInv,
         NEW q \in Peers, ServerReads(q)
  PROVE  WayInv'
<1> DEFINE w == wire[q]
<1>1. w \in Seq(Items) /\ w # <<>> /\ wire \in [Peers -> Seq(Items)]
  BY DEF ServerReads, MacTypes
<1>2. PICK n \in Nat \ {0} : n = Len(w)
  BY <1>1, HeadOf
<1>3. /\ inHand[q] = Nothing /\ wire' = [wire EXCEPT ![q] = Tail(@)]
      /\ inHand' \in {inHand, [inHand EXCEPT ![q] =
                               [dev |-> Head(w).dev, env |-> Head(w).env, read |-> now]]}
      /\ UNCHANGED <<frames, outbox, epochs, boots>>
  BY DEF ServerReads, ReadBridgeFrame
<1>4. /\ DOMAIN w = 1..n /\ Head(w) = w[1]
      /\ DOMAIN wire'[q] = 1..(n - 1)
      /\ \A i \in 1..(n - 1) : i + 1 \in 1..n /\ wire'[q][i] = w[i + 1]
      /\ \A p \in Peers : p # q => wire'[p] = wire[p]
  <2>1. wire'[q] = Tail(w)
    BY <1>1, <1>3
  <2>2. \A p \in Peers : p # q => wire'[p] = wire[p]
    BY <1>1, <1>3
  <2> HIDE DEF w
  <2>3. /\ DOMAIN w = 1..n /\ Head(w) = w[1] /\ DOMAIN Tail(w) = 1..(n - 1)
        /\ \A i \in 1..(n - 1) : i + 1 \in 1..n /\ Tail(w)[i] = w[i + 1]
    BY <1>1, <1>2
  <2> QED  BY <2>1, <2>2, <2>3
<1>5. ASSUME NEW p \in Peers, inHand'[p] # Nothing
      PROVE  \/ p # q /\ inHand'[p] = inHand[p]
             \/ p = q /\ inHand'[p].dev = w[1].dev /\ inHand'[p].env = w[1].env
  BY <1>3, <1>4, <1>5 DEF ServerTypes
<1> SUFFICES ASSUME NEW d \in Devices PROVE DistinctAt(d)' /\ IssuedAt(d)' /\ OrderedAt(d)'
  BY DEF WayInv
<1> DEFINE M == [a \in Places |->
                   IF a[1] = "wire" /\ a[2] = q THEN <<"wire", q, a[3] + 1>>
                   ELSE IF a = <<"inHand", q, 1>> THEN <<"wire", q, 1>> ELSE a]
<1>6. \A a, b \in Places : M[a] = M[b] => a = b
  BY DEF Places
<1>7. ASSUME NEW a, NEW e, Lies(d, a, e)' PROVE a \in Places /\ Lies(d, M[a], e)
  <2>1. a \in Places
    BY <1>7, LiesTypedNext
  <2>2. CASE InOutbox(d, a, e)' \/ InMailbox(d, a, e)'
    <3>1. a[1] # "wire" /\ a # <<"inHand", q, 1>>
      BY <2>2 DEF InOutbox, InMailbox
    <3>2. M[a] = a
      BY <2>1, <3>1
    <3>3. InOutbox(d, a, e) \/ InMailbox(d, a, e)
      BY <1>3, <2>2 DEF InOutbox, InMailbox
    <3> HIDE DEF M
    <3> QED  BY <2>1, <3>2, <3>3 DEF Lies
  <2>3. CASE OnWire(d, a, e)'
    <3>1. PICK p \in Peers : \E i \in DOMAIN wire'[p] :
            wire'[p][i].dev = d /\ a = <<"wire", p, i>> /\ e = wire'[p][i].env
      BY <2>3 DEF OnWire
    <3>2. PICK i \in DOMAIN wire'[p] :
            wire'[p][i].dev = d /\ a = <<"wire", p, i>> /\ e = wire'[p][i].env
      BY <3>1
    <3>3. CASE p # q
      <4>1. M[a] = a
        BY <2>1, <3>2, <3>3
      <4>2. OnWire(d, a, e)
        BY <1>4, <3>2, <3>3 DEF OnWire
      <4> HIDE DEF M
      <4> QED  BY <2>1, <4>1, <4>2 DEF Lies
    <3>4. CASE p = q
      <4>1. M[a] = <<"wire", q, i + 1>>
        BY <2>1, <3>2, <3>4
      <4>2. i + 1 \in DOMAIN wire[q] /\ wire[q][i + 1].dev = d /\ e = wire[q][i + 1].env
        BY <1>4, <3>2, <3>4
      <4>3. OnWire(d, <<"wire", q, i + 1>>, e)
        BY <4>2 DEF OnWire
      <4> HIDE DEF M
      <4> QED  BY <2>1, <4>1, <4>3 DEF Lies
    <3> QED  BY <3>3, <3>4
  <2>4. CASE InLoop(d, a, e)'
    <3>1. PICK p \in Peers : /\ inHand'[p] # Nothing /\ inHand'[p].dev = d
                             /\ a = <<"inHand", p, 1>> /\ e = inHand'[p].env
      BY <2>4 DEF InLoop
    <3>2. CASE p # q
      <4>1. M[a] = a
        BY <2>1, <3>1, <3>2
      <4>2. inHand'[p] = inHand[p]
        BY <1>5, <3>1, <3>2
      <4>3. InLoop(d, a, e)
        BY <3>1, <4>2 DEF InLoop
      <4> HIDE DEF M
      <4> QED  BY <2>1, <4>1, <4>3 DEF Lies
    <3>3. CASE p = q
      <4>1. M[a] = <<"wire", q, 1>>
        BY <2>1, <3>1, <3>3
      <4>2. w[1].dev = d /\ w[1].env = e
        BY <1>5, <3>1, <3>3
      <4>3. OnWire(d, <<"wire", q, 1>>, e)
        BY <1>4, <4>2 DEF OnWire
      <4> HIDE DEF M
      <4> QED  BY <2>1, <4>1, <4>3 DEF Lies
    <3> QED  BY <3>2, <3>3
  <2> QED  BY <1>7, <2>2, <2>3, <2>4 DEF Lies
<1> HIDE DEF M
<1>8. DistinctAt(d)'
  BY <1>6, <1>7, Moved DEF WayInv
<1>9. IssuedAt(d)'
  BY <1>3, <1>7, StillIssued DEF WayInv
<1>10. OrderedAt(d)'
  <2>1. ASSUME NEW p \in Peers, NEW i \in DOMAIN wire'[p]
        PROVE  \/ p # q /\ wire'[p] = wire[p]
               \/ p = q /\ i \in 1..(n - 1) /\ i + 1 \in DOMAIN wire[p] /\ wire'[p][i] = wire[p][i + 1]
    <3>1. CASE p # q
      BY <1>4, <3>1
    <3>2. CASE p = q
      BY <1>4, <2>1, <3>2
    <3> QED  BY <3>1, <3>2
  <2>2. ASSUME NEW p \in Peers, NEW i \in DOMAIN wire'[p], NEW j \in DOMAIN wire'[p],
               i < j, wire'[p][i].dev = d, wire'[p][j].dev = d
        PROVE  Older(wire'[p][i].env, wire'[p][j].env)
    <3>1. CASE p # q
      BY <1>4, <2>2, <3>1 DEF WayInv, OrderedAt
    <3>2. CASE p = q
      <4>1. /\ i + 1 \in DOMAIN wire[p] /\ wire'[p][i] = wire[p][i + 1]
            /\ j + 1 \in DOMAIN wire[p] /\ wire'[p][j] = wire[p][j + 1]
            /\ i \in 1..(n - 1) /\ j \in 1..(n - 1)
        BY <2>1, <3>2
      <4>2. i + 1 < j + 1
        BY <2>2, <4>1
      <4> QED  BY <2>2, <4>1, <4>2 DEF WayInv, OrderedAt
    <3> QED  BY <3>1, <3>2
  <2>3. ASSUME NEW p \in Peers, NEW i \in DOMAIN wire'[p], wire'[p][i].dev = d,
               NEW j \in DOMAIN outbox[d]
        PROVE  Older(wire'[p][i].env, outbox[d][j])
    <3>1. CASE p # q
      BY <1>4, <2>3, <3>1 DEF WayInv, OrderedAt
    <3>2. CASE p = q
      <4>1. i + 1 \in DOMAIN wire[p] /\ wire'[p][i] = wire[p][i + 1]
        BY <2>1, <3>2
      <4> QED  BY <2>3, <4>1 DEF WayInv, OrderedAt
    <3> QED  BY <3>1, <3>2
  <2>4. \A i, j \in DOMAIN outbox[d] : i < j => Older(outbox[d][i], outbox[d][j])
    BY DEF WayInv, OrderedAt
  <2> QED  BY <1>3, <2>2, <2>3, <2>4 DEF OrderedAt
<1> QED  BY <1>8, <1>9, <1>10

\* AppendFrame: what the read loop has in hand becomes the newest row, or is refused.
LEMMA AppendWay ==
  ASSUME ServerTypes, MacTypes, ServerTypes', MacTypes', WayInv,
         NEW q \in Peers, AppendFrame(q), UNCHANGED macVars
  PROVE  WayInv'
<1>1. inHand \in [Peers -> {Nothing} \cup InHands] /\ frames \in [Devices -> SUBSET Rows]
  BY DEF ServerTypes
<1>2. PICK x \in InHands : x = inHand[q] /\ x # Nothing
  BY <1>1 DEF AppendFrame
<1>3. x.dev \in Devices /\ x.env \in Envs
  BY DEF InHands
<1>4. PICK c \in Devices : c = x.dev
  BY <1>3
<1>5. /\ inHand' = [inHand EXCEPT ![q] = Nothing]
      /\ UNCHANGED <<outbox, wire, epochs, boots>>
  BY DEF AppendFrame
<1>6. \A p \in Peers : inHand'[p] \in {inHand[p], Nothing}
  BY <1>1, <1>5
<1>7. CASE ~CanAppend(c, x.env)
  <2>1. frames' = frames
    BY <1>2, <1>4, <1>7 DEF AppendFrame
  <2> QED  BY <1>5, <1>6, <2>1, WayKept
<1>8. CASE CanAppend(c, x.env)
  <2>1. PICK t : frames' = [frames EXCEPT ![c] = Kept(@, SizeOf[x.env], t) \cup {Row(c, x.env, t)}]
    BY <1>2, <1>4, <1>8 DEF AppendFrame
  <2>2. PICK r : r = Row(c, x.env, t)
    OBVIOUS
  <2>3. PICK K : K = Kept(frames[c], SizeOf[x.env], t) /\ K \subseteq frames[c]
    BY DEF Kept, Unacked
  <2>4. frames' = [frames EXCEPT ![c] = K \cup {r}]
    BY <1>1, <2>1, <2>2, <2>3
  <2>5. r.env = x.env /\ r.cursor \in Nat \ {0}
    <3>1. r \in Rows
      BY <1>1, <2>4 DEF ServerTypes
    <3> QED  BY <2>2, <3>1 DEF Row, Rows
  <2>6. /\ frames'[c] = K \cup {r}
        /\ \A d \in Devices : d # c => frames'[d] = frames[d]
    BY <1>1, <2>4
  <2> SUFFICES ASSUME NEW d \in Devices PROVE DistinctAt(d)' /\ IssuedAt(d)' /\ OrderedAt(d)'
    BY DEF WayInv
  <2>7. ASSUME NEW a, NEW e
        PROVE  /\ InOutbox(d, a, e)' => InOutbox(d, a, e)
               /\ OnWire(d, a, e)' => OnWire(d, a, e)
               /\ InLoop(d, a, e)' => InLoop(d, a, e) /\ a # <<"inHand", q, 1>>
    <3>1. InOutbox(d, a, e)' => InOutbox(d, a, e)
      BY <1>5 DEF InOutbox
    <3>2. OnWire(d, a, e)' => OnWire(d, a, e)
      BY <1>5 DEF OnWire
    <3>3. ASSUME InLoop(d, a, e)' PROVE InLoop(d, a, e) /\ a # <<"inHand", q, 1>>
      <4>1. PICK p \in Peers : /\ inHand'[p] # Nothing /\ inHand'[p].dev = d
                               /\ a = <<"inHand", p, 1>> /\ e = inHand'[p].env
        BY <3>3 DEF InLoop
      <4>2. p # q /\ inHand'[p] = inHand[p]
        BY <1>1, <1>5, <4>1
      <4> QED  BY <4>1, <4>2 DEF InLoop
    <3> QED  BY <3>1, <3>2, <3>3
  <2>8. OrderedAt(d)'
    BY <1>5 DEF WayInv, OrderedAt
  <2>9. CASE d # c
    <3>1. ASSUME NEW a, NEW e, Lies(d, a, e)' PROVE Lies(d, a, e)
      <4>1. InMailbox(d, a, e)' => InMailbox(d, a, e)
        BY <2>6, <2>9 DEF InMailbox
      <4> QED  BY <2>7, <3>1, <4>1 DEF Lies
    <3>2. DistinctAt(d)'
      BY <3>1, Stayed DEF WayInv
    <3>3. IssuedAt(d)'
      BY <1>5, <3>1, StillIssued DEF WayInv
    <3> QED  BY <2>8, <3>2, <3>3
  <2>10. CASE d = c
    <3> DEFINE hand == <<"inHand", q, 1>>
               box  == <<"mailbox", 0, r.cursor>>
    <3>1. Lies(d, hand, x.env)
      BY <1>2, <1>4, <2>10 DEF Lies, InLoop
    <3>2. ASSUME NEW a, NEW e, Lies(d, a, e)'
          PROVE  (Lies(d, a, e) /\ a # hand) \/ (a = box /\ e = x.env)
      <4>1. CASE InOutbox(d, a, e)'
        BY <2>7, <4>1 DEF Lies, InOutbox
      <4>2. CASE OnWire(d, a, e)'
        BY <2>7, <4>2 DEF Lies, OnWire
      <4>3. CASE InLoop(d, a, e)'
        BY <2>7, <4>3 DEF Lies
      <4>4. CASE InMailbox(d, a, e)'
        <5>1. PICK f \in K \cup {r} : a = <<"mailbox", 0, f.cursor>> /\ e = f.env
          BY <2>6, <2>10, <4>4 DEF InMailbox
        <5>2. CASE f = r
          BY <2>5, <5>1, <5>2
        <5>3. CASE f \in K
          <6>1. InMailbox(d, a, e)
            BY <2>3, <2>10, <5>1, <5>3 DEF InMailbox
          <6> QED  BY <5>1, <6>1 DEF Lies
        <5> QED  BY <5>2, <5>3
      <4> QED  BY <3>2, <4>1, <4>2, <4>3, <4>4 DEF Lies
    <3> HIDE DEF hand, box
    <3>3. DistinctAt(d)'
      <4> SUFFICES ASSUME NEW a, NEW b, NEW e, NEW g,
                          Lies(d, a, e)', Lies(d, b, g)', SameCounter(e, g)
                   PROVE  a = b
        BY DEF DistinctAt
      <4>1. /\ (Lies(d, a, e) /\ a # hand) \/ (a = box /\ e = x.env)
            /\ (Lies(d, b, g) /\ b # hand) \/ (b = box /\ g = x.env)
        BY <3>2
      <4>2. \A y, z, u, v : Lies(d, y, u) /\ Lies(d, z, v) /\ SameCounter(u, v) => y = z
        BY DEF WayInv, DistinctAt
      <4> QED  BY <3>1, <4>1, <4>2
    <3>4. IssuedAt(d)'
      BY <1>5, <3>1, <3>2, StillIssued DEF WayInv
    <3> QED  BY <2>8, <3>3, <3>4
  <2> QED  BY <2>9, <2>10
<1> QED  BY <1>7, <1>8

-----------------------------------------------------------------------------

\* Nothing is on its way at first.
LEMMA DeliveryInvInit == DeliveryInit => DeliveryInv
<1> SUFFICES ASSUME DeliveryInit PROVE DeliveryInv
  OBVIOUS
<1>1. ServerTypes
  BY DEF DeliveryInit, StoreInit, ServerTypes, DeviceRows
<1>2. MacTypes
  BY DEF DeliveryInit, MacTypes, Quiet
<1>3. ASSUME NEW d \in Devices PROVE DistinctAt(d) /\ IssuedAt(d) /\ OrderedAt(d)
  <2>1. /\ outbox[d] = <<>> /\ frames[d] = {}
        /\ \A p \in Peers : wire[p] = <<>> /\ inHand[p] = Nothing
    BY DEF DeliveryInit, StoreInit
  <2>2. DOMAIN outbox[d] = {} /\ \A p \in Peers : DOMAIN wire[p] = {}
    BY <2>1
  <2>3. \A a, e : ~Lies(d, a, e)
    BY <2>1, <2>2 DEF Lies, InOutbox, OnWire, InLoop, InMailbox
  <2> QED  BY <2>2, <2>3 DEF DistinctAt, IssuedAt, OrderedAt
<1> QED  BY <1>1, <1>2, <1>3 DEF DeliveryInv, WayInv

\* Every step keeps the invariant: the five that move, add or forget frames of the Mac
\* by a lemma each, the others because they at most drop frames of the server.
LEMMA DeliveryInvStep == DeliveryInv /\ [DeliveryNext]_deliveryVars => DeliveryInv'
<1> SUFFICES ASSUME DeliveryInv, [DeliveryNext]_deliveryVars PROVE DeliveryInv'
  OBVIOUS
<1>1. ServerTypes /\ MacTypes /\ WayInv
  BY DEF DeliveryInv
<1>2. CASE UNCHANGED deliveryVars
  <2>1. UNCHANGED <<outbox, wire, epochs, boots, frames, inHand>>
    BY <1>2 DEF deliveryVars
  <2>2. WayInv'
    BY <1>1, <2>1, WayKept
  <2>3. ServerTypes' /\ MacTypes'
    BY <1>1, <1>2 DEF deliveryVars, ServerTypes, MacTypes
  <2> QED  BY <2>2, <2>3 DEF DeliveryInv
<1>3. CASE DeliveryNext
  <2>1. ServerTypes' /\ MacTypes'
    BY <1>1, <1>3, ServerTypesStep, MacTypesStep
  <2> SUFFICES WayInv'
    BY <2>1 DEF DeliveryInv
  <2>2. CASE ServerNext
    <3>1. UNCHANGED macVars
      BY <2>2 DEF ServerNext
    <3>2. ASSUME NEW p \in Peers, AppendFrame(p) PROVE WayInv'
      BY <1>1, <2>1, <3>1, <3>2, AppendWay
    <3>3. ASSUME \A d \in Devices : \A f \in frames'[d] :
                   \E g \in frames[d] : g.cursor = f.cursor /\ g.env = f.env,
                 \A p \in Peers : inHand'[p] \in {inHand[p], Nothing}
          PROVE  WayInv'
      BY <1>1, <3>1, <3>3, WayKept
    <3>4. frames \in [Devices -> SUBSET Rows]
      BY <1>1 DEF ServerTypes
    <3>5. CASE Tick \/ CrashServer \/ \E d \in Devices : RegisterDevice(d)
      BY <3>3, <3>5 DEF Tick, CrashServer, RegisterDevice
    <3>6. CASE ExpireFrames \/ \E d \in Devices : RevokeDevice(d)
      BY <3>3, <3>4, <3>6 DEF ExpireFrames, RevokeDevice, Unacked
    <3>7. ASSUME NEW s \in Slots, NEW d \in Devices, RequestFetch(s, d) \/ RequestAck(s, d)
          PROVE  WayInv'
      BY <3>3, <3>7 DEF RequestFetch, RequestAck, Authenticate
    <3>8. ASSUME NEW s \in Slots,
                 DeleteExpired(s) \/ SelectFrames(s) \/ ReceiveFrames(s) \/ LoseCall(s)
          PROVE  WayInv'
      <4>1. CASE DeleteExpired(s)
        BY <3>3, <3>4, <4>1 DEF DeleteExpired
      <4>2. CASE SelectFrames(s) \/ ReceiveFrames(s) \/ LoseCall(s)
        BY <3>3, <3>4, <4>2 DEF SelectFrames, ReceiveFrames, LoseCall
      <4> QED  BY <3>8, <4>1, <4>2
    <3>9. ASSUME NEW s \in Slots, AckFrames(s) PROVE WayInv'
      <4>1. \A f \in Rows : /\ [f EXCEPT !.acked = TRUE].cursor = f.cursor
                            /\ [f EXCEPT !.acked = TRUE].env = f.env
        BY DEF Rows
      <4>2. inHand' = inHand
        BY <3>9 DEF AckFrames
      <4>3. ASSUME NEW d \in Devices, NEW f \in frames'[d]
            PROVE  \E g \in frames[d] : g.cursor = f.cursor /\ g.env = f.env
        <5>1. f \in frames[d] \/ \E g \in frames[d] : f = [g EXCEPT !.acked = TRUE]
          BY <3>4, <3>9, <4>3 DEF AckFrames
        <5>2. frames[d] \subseteq Rows
          BY <3>4
        <5> QED  BY <4>1, <5>1, <5>2
      <4> QED  BY <3>3, <4>2, <4>3
    <3> QED
      BY <2>2, <3>2, <3>5, <3>6, <3>7, <3>8, <3>9 DEF ServerNext, DeviceNext
  <2>3. CASE RestartBridge
    BY <1>1, <2>3, RestartWay
  <2>4. ASSUME NEW d \in Devices, RouteOfflineEvent(d) PROVE WayInv'
    BY <1>1, <2>4, RouteWay
  <2>5. ASSUME NEW d \in Devices, FlushSend(d) PROVE WayInv'
    BY <1>1, <2>1, <2>5, FlushWay
  <2>6. ASSUME NEW p \in Peers, ServerReads(p) PROVE WayInv'
    BY <1>1, <2>1, <2>6, ReadsWay
  <2>7. ASSUME UNCHANGED <<outbox, wire, epochs, boots, frames, inHand>> PROVE WayInv'
    BY <1>1, <2>7, WayKept
  <2>8. CASE Publish \/ TakeMilestone \/ Disconnect
    BY <2>7, <2>8 DEF Publish, TakeMilestone, Disconnect
  <2>9. ASSUME NEW d \in Devices,
               \/ RouteFlush(d) \/ ConnectFlush(d) \/ FlushFails(d) \/ FlushDone(d)
               \/ \E id \in Prekeys : UploadPrekeys(d, id)
               \/ GetPrekeyStatus(d)
        PROVE  WayInv'
    BY <2>7, <2>9
    DEF RouteFlush, ConnectFlush, BeginFlush, FlushFails, FlushDone, UploadPrekeys, GetPrekeyStatus
  <2>10. ASSUME NEW p \in Peers, Connect(p) \/ BreakSocket(p) PROVE WayInv'
    BY <2>7, <2>10 DEF Connect, BridgeConnects, BreakSocket
  <2> QED
    BY <1>3, <2>2, <2>3, <2>4, <2>5, <2>6, <2>8, <2>9, <2>10 DEF DeliveryNext, MacNext
<1> QED  BY <1>2, <1>3

\* A counter of an epoch's key seals one frame and that frame is in one place, through
\* broken flushes, reconnections, crashes of the server and restarts of the bridge.
THEOREM OnePlaceEach == DeliverySpec => []NoDuplicate
<1>1. ASSUME DeliveryInv PROVE NoDuplicate
  <2> SUFFICES ASSUME NEW d \in Devices, NEW x \in Copies(d), NEW y \in Copies(d),
                      SameCounter(x.env, y.env)
               PROVE  x.at = y.at
    BY DEF NoDuplicate
  <2>1. ASSUME NEW z \in Copies(d) PROVE Lies(d, z.at, z.env)
    <3>1. CASE \E i \in DOMAIN outbox[d] : z = [at |-> <<"outbox", 0, i>>, env |-> outbox[d][i]]
      BY <3>1 DEF Lies, InOutbox
    <3>2. CASE \E p \in Peers : \E i \in {j \in DOMAIN wire[p] : wire[p][j].dev = d} :
                 z = [at |-> <<"wire", p, i>>, env |-> wire[p][i].env]
      BY <3>2 DEF Lies, OnWire
    <3>3. CASE \E p \in {u \in Peers : inHand[u] # Nothing /\ inHand[u].dev = d} :
                 z = [at |-> <<"inHand", p, 1>>, env |-> inHand[p].env]
      BY <3>3 DEF Lies, InLoop
    <3>4. CASE \E f \in frames[d] : z = [at |-> <<"mailbox", 0, f.cursor>>, env |-> f.env]
      BY <3>4 DEF Lies, InMailbox
    <3> DEFINE W(p) == {[at |-> <<"wire", p, i>>, env |-> wire[p][i].env] :
                         i \in {j \in DOMAIN wire[p] : wire[p][j].dev = d}}
               O == {[at |-> <<"outbox", 0, i>>, env |-> outbox[d][i]] : i \in DOMAIN outbox[d]}
               H == {[at |-> <<"inHand", p, 1>>, env |-> inHand[p].env] :
                       p \in {u \in Peers : inHand[u] # Nothing /\ inHand[u].dev = d}}
               B == {[at |-> <<"mailbox", 0, f.cursor>>, env |-> f.env] : f \in frames[d]}
    <3>5. z \in O \cup (UNION {W(p) : p \in Peers}) \cup H \cup B
      BY <2>1 DEF Copies
    <3>6. z \in O => Lies(d, z.at, z.env)
      BY <3>1
    <3>7. ASSUME NEW p \in Peers, z \in W(p) PROVE Lies(d, z.at, z.env)
      BY <3>2, <3>7
    <3>8. z \in H => Lies(d, z.at, z.env)
      BY <3>3
    <3>9. z \in B => Lies(d, z.at, z.env)
      BY <3>4
    <3> HIDE DEF W, O, H, B
    <3>10. z \in O \/ z \in UNION {W(p) : p \in Peers} \/ z \in H \/ z \in B
      BY <3>5
    <3>11. z \in UNION {W(p) : p \in Peers} => \E p \in Peers : z \in W(p)
      OBVIOUS
    <3> QED  BY <3>6, <3>7, <3>8, <3>9, <3>10, <3>11
  <2> QED  BY <1>1, <2>1 DEF DeliveryInv, WayInv, DistinctAt
<1> QED  BY <1>1, DeliveryInvInit, DeliveryInvStep, PTL DEF DeliverySpec

\* What waits in an outbox and on every socket is in the order the Mac counted it.
THEOREM CountedOrder == DeliverySpec => []SentInOrder
<1>1. DeliveryInv => SentInOrder
  BY DEF DeliveryInv, WayInv, OrderedAt, SentInOrder
<1> QED  BY <1>1, DeliveryInvInit, DeliveryInvStep, PTL DEF DeliverySpec
=============================================================================

---------------------- MODULE RelayMailboxStore_proofs ----------------------
(***************************************************************************)
(* Proofs about the relay server's mailbox store, for every number of      *)
(* devices, handlers, bridge sockets and envelopes and for every capacity, *)
(* life time and fetch limit.                                              *)
(***************************************************************************)
EXTENDS RelayMailboxStore, SumLemmas

USE DEF tables, phone

-----------------------------------------------------------------------------
(* The inductive invariant.                                                *)

DeviceRows == [known : BOOLEAN, revoked : BOOLEAN, auth : Nat, next : Nat \ {0}]
Rows       == [cursor : Nat \ {0}, env : Envelopes, expires : Nat, acked : BOOLEAN]

Fetches == [op : {"fetch", "select"}, dev : Devices, after : Nat, at : Nat]
Acks    == [op : {"ack"}, dev : Devices, through : Nat]
Replies == [op : {"reply"}, dev : Devices, frames : SUBSET Rows]

InHands == [dev : Devices, env : Envelopes, read : Nat]

TypeOK ==
  /\ now \in Nat
  /\ device \in [Devices -> DeviceRows]
  /\ frames \in [Devices -> SUBSET Rows]
  /\ call \in [Slots -> {Idle} \cup Fetches \cup Acks \cup Replies]
  /\ inHand \in [Peers -> {Nothing} \cup InHands]
  /\ peer \in [Peers -> {"new", "open", "closed"}]
  /\ held \in [Devices -> Nat]
  /\ cursor \in [Devices -> Nat]
  /\ applied \in [Devices -> SUBSET Nat]
  /\ events \in Nat

\* A table S of a device's rows, with n as the next cursor: a cursor names one row, and
\* the next one none.
Ordered(S, n) ==
  /\ \A f \in S : f.cursor < n
  /\ \A f, g \in S : f.cursor = g.cursor => f = g

RowsOrdered == \A d \in Devices : Ordered(frames[d], device[d].next)

\* The times that handlers carry are not ahead of the clock.
TimesPast ==
  /\ \A p \in Peers : inHand[p] # Nothing => inHand[p].read <= now
  /\ \A s \in Slots : call[s].op \in {"fetch", "select"} => call[s].at <= now

\* The rows that the device has left behind and that are still due it has applied.
CursorCovers ==
  \A d \in Devices :
    /\ cursor[d] < device[d].next
    /\ \A f \in frames[d] : Live(f) /\ f.cursor <= cursor[d] => f.cursor \in applied[d]

\* A request under way lags behind the device's cursor; an answer under way leaves
\* out no row below its last one that is still due and that the device has not applied.
CallsLag ==
  \A s \in Slots :
    /\ call[s].op \in {"fetch", "select"} => call[s].after <= cursor[call[s].dev]
    /\ call[s].op = "ack" => call[s].through <= cursor[call[s].dev]
    /\ call[s].op = "reply" =>
         LET d == call[s].dev
         IN \A g \in call[s].frames :
              /\ g.cursor < device[d].next
              /\ \A f \in frames[d] : Live(f) /\ f.cursor <= g.cursor =>
                   f.cursor \in applied[d] \/ f.cursor \in Cursors(call[s].frames)

RowsInv == TypeOK /\ RowsOrdered /\ TimesPast /\ CursorCovers /\ CallsLag /\ RevokedEmpty /\ AckedWasApplied
-----------------------------------------------------------------------------
(* Types.                                                                  *)

\* What registering and appending make of a device's row.
LEMMA RowUpdates ==
  ASSUME NEW r \in DeviceRows
  PROVE  /\ Registered(r) \in DeviceRows
         /\ Registered(r).next = r.next /\ ~Registered(r).revoked
         /\ [r EXCEPT !.next = @ + 1] \in DeviceRows
         /\ [r EXCEPT !.next = @ + 1].next = r.next + 1
         /\ [r EXCEPT !.next = @ + 1].revoked = r.revoked
<1>1. Registered(r) \in DeviceRows
  <2> DEFINE a == [r EXCEPT !.known = TRUE]
             b == [a EXCEPT !.revoked = FALSE]
  <2>1. a \in DeviceRows /\ a.auth = r.auth
    BY DEF DeviceRows
  <2> HIDE DEF a
  <2>2. b \in DeviceRows /\ b.auth = r.auth
    BY <2>1 DEF DeviceRows
  <2> HIDE DEF b
  <2>3. [b EXCEPT !.auth = r.auth + 1] \in DeviceRows
    BY <2>2 DEF DeviceRows
  <2>4. Registered(r) = [b EXCEPT !.auth = r.auth + 1]
    BY DEF Registered, a, b, DeviceRows
  <2> QED  BY <2>3, <2>4
<1>2. Registered(r).next = r.next
  BY DEF Registered, DeviceRows
<1>3. ~Registered(r).revoked
  BY DEF Registered, DeviceRows
<1>4. [r EXCEPT !.next = @ + 1] \in DeviceRows
  BY DEF DeviceRows
<1>5. /\ [r EXCEPT !.next = @ + 1].next = r.next + 1
      /\ [r EXCEPT !.next = @ + 1].revoked = r.revoked
  BY DEF DeviceRows
<1> QED  BY <1>1, <1>2, <1>3, <1>4, <1>5

\* The largest of a bounded set of naturals that is not empty.
LEMMA MaxIs ==
  ASSUME NEW S, S \subseteq Nat, S # {}, NEW b \in Nat, \A n \in S : n <= b
  PROVE  Max(S) \in S /\ \A n \in S : n <= Max(S)
<1>1. \E x \in S : \A y \in S : x >= y
  BY GreatestNat
<1> QED  BY <1>1 DEF Max

\* What ReceiveFrames does to the cursor: it goes to the last new frame, if any.
LEMMA CursorMoves ==
  ASSUME TypeOK, CursorCovers, CallsLag, NEW s \in Slots, ReceiveFrames(s)
  PROVE  /\ call[s] \in Replies
         /\ LET d   == call[s].dev
                new == {f \in call[s].frames : f.cursor > cursor[d]}
            IN /\ cursor'[d] \in Nat /\ cursor'[d] < device[d].next
               /\ cursor[d] <= cursor'[d]
               /\ \A f \in new : f.cursor <= cursor'[d]
               /\ cursor'[d] = cursor[d] \/ \E g \in new : cursor'[d] = g.cursor
<1> DEFINE d   == call[s].dev
           new == {f \in call[s].frames : f.cursor > cursor[d]}
           C   == Cursors(new) \cup {cursor[d]}
<1>1. call[s] \in Replies
  BY DEF TypeOK, ReceiveFrames, Idle, Fetches, Acks, Replies
<1>2. d \in Devices /\ call[s].frames \subseteq Rows
  BY <1>1 DEF Replies
<1>3. device[d].next \in Nat /\ cursor[d] \in Nat /\ cursor[d] < device[d].next
  BY <1>2 DEF TypeOK, DeviceRows, CursorCovers
<1>4. \A f \in new : f.cursor \in Nat /\ f.cursor < device[d].next
  BY <1>1, <1>2 DEF CallsLag, ReceiveFrames, Rows
<1>5. C \subseteq Nat /\ C # {} /\ \A n \in C : n <= device[d].next
  BY <1>3, <1>4 DEF Cursors
<1>6. Max(C) \in C /\ \A n \in C : n <= Max(C)
  <2> HIDE DEF C
  <2> QED  BY <1>3, <1>5, MaxIs
<1>7. cursor'[d] = Max(C)
  BY <1>2 DEF ReceiveFrames, TypeOK
<1>8. \A f \in new : f.cursor \in C
  BY DEF Cursors
<1>9. Max(C) = cursor[d] \/ \E g \in new : Max(C) = g.cursor
  BY <1>6 DEF Cursors
<1>10. Max(C) \in Nat /\ Max(C) < device[d].next
  BY <1>3, <1>4, <1>9
<1>11. cursor[d] <= Max(C) /\ \A f \in new : f.cursor <= Max(C)
  BY <1>6, <1>8
<1> HIDE DEF C, new
<1> QED  BY <1>1, <1>7, <1>9, <1>10, <1>11 DEF new

\* Every step keeps the types.
LEMMA TypeStep ==
  ASSUME TypeOK, CursorCovers, CallsLag, [StoreNext]_storeVars
  PROVE  TypeOK'
<1> USE StoreAssumption DEF TypeOK
<1>1. CASE Tick
  BY <1>1 DEF Tick
<1>2. CASE ExpireFrames
  BY <1>2 DEF ExpireFrames, Unacked
<1>3. CASE CrashServer
  BY <1>3 DEF CrashServer
<1>4. ASSUME NEW d \in Devices, RegisterDevice(d) PROVE TypeOK'
  <2>1. Registered(device[d]) \in DeviceRows
    BY RowUpdates
  <2>2. held' \in [Devices -> Nat]
    BY <1>4 DEF RegisterDevice, DeviceRows
  <2>3. device' \in [Devices -> DeviceRows]
    BY <1>4, <2>1 DEF RegisterDevice
  <2> QED  BY <1>4, <2>2, <2>3 DEF RegisterDevice
<1>5. ASSUME NEW d \in Devices, RevokeDevice(d) PROVE TypeOK'
  <2>1. device' \in [Devices -> DeviceRows]
    BY <1>5, ZenonT(60) DEF RevokeDevice, DeviceRows
  <2> QED  BY <1>5, <2>1 DEF RevokeDevice
<1>6. ASSUME NEW p \in Peers, BridgeConnects(p) PROVE TypeOK'
  BY <1>6 DEF BridgeConnects
<1>7. ASSUME NEW p \in Peers, AppendFrame(p) PROVE TypeOK'
  <2>1. inHand[p] \in InHands
    BY <1>7 DEF AppendFrame
  <2> DEFINE d == inHand[p].dev
             env == inHand[p].env
  <2>2. d \in Devices /\ env \in Envelopes /\ inHand[p].read \in Nat
    BY <2>1 DEF InHands
  <2>3. \A t \in inHand[p].read..now : Row(d, env, t) \in Rows
    BY <2>2 DEF Row, Rows, DeviceRows
  <2>4. \A t : Kept(frames[d], SizeOf[env], t) \subseteq frames[d]
    BY DEF Kept, Unacked
  <2>5. CASE CanAppend(d, env)
    <3>1. device' \in [Devices -> DeviceRows]
      <4>1. device' = [device EXCEPT ![d] = [device[d] EXCEPT !.next = @ + 1]]
        BY <1>7, <2>2, <2>5 DEF AppendFrame
      <4> QED  BY <2>2, <4>1, RowUpdates
    <3>2. frames' \in [Devices -> SUBSET Rows]
      <4>1. PICK t \in inHand[p].read..now :
              frames' = [frames EXCEPT ![d] = Kept(@, SizeOf[env], t) \cup {Row(d, env, t)}]
        BY <1>7, <2>5 DEF AppendFrame
      <4> QED  BY <2>2, <2>3, <2>4, <4>1
    <3> QED  BY <1>7, <2>5, <3>1, <3>2 DEF AppendFrame
  <2>6. CASE ~CanAppend(d, env)
    BY <1>7, <2>6 DEF AppendFrame
  <2> QED  BY <2>5, <2>6
<1>8. ASSUME NEW p \in Peers, NEW d \in Devices, NEW env \in Envelopes,
             ReadBridgeFrame(p, d, env)
      PROVE  TypeOK'
  BY <1>8 DEF ReadBridgeFrame, InHands
<1>9. ASSUME NEW s \in Slots, NEW d \in Devices, RequestFetch(s, d) \/ RequestAck(s, d)
      PROVE  TypeOK'
  BY <1>9 DEF RequestFetch, RequestAck, Authenticate, Fetches, Acks
<1>10. ASSUME NEW s \in Slots, DeleteExpired(s) PROVE TypeOK'
  <2>1. call[s] \in Fetches
    BY <1>10 DEF DeleteExpired, Idle, Fetches, Acks, Replies
  <2>2. PICK t \in call[s].at..now :
          /\ frames' = [frames EXCEPT ![call[s].dev] = {f \in @ : LiveAt(f, t)}]
          /\ call' = [call EXCEPT ![s] = [call[s] EXCEPT !.op = "select", !.at = t]]
    BY <1>10 DEF DeleteExpired
  <2>3. t \in Nat /\ call[s].dev \in Devices
    BY <2>1 DEF Fetches
  <2>4. [call[s] EXCEPT !.op = "select", !.at = t] \in Fetches
    <3> DEFINE c == [call[s] EXCEPT !.op = "select"]
    <3>1. c \in Fetches
      BY <2>1 DEF Fetches
    <3> HIDE DEF c
    <3>2. [c EXCEPT !.at = t] \in Fetches
      BY <2>3, <3>1 DEF Fetches
    <3> QED  BY <3>2 DEF c
  <2>5. call' \in [Slots -> {Idle} \cup Fetches \cup Acks \cup Replies]
    BY <2>2, <2>4
  <2>6. frames' \in [Devices -> SUBSET Rows]
    BY <2>2, <2>3
  <2> QED  BY <1>10, <2>5, <2>6 DEF DeleteExpired
<1>15. ASSUME NEW s \in Slots, SelectFrames(s) PROVE TypeOK'
  <2>1. call[s] \in Fetches
    BY <1>15 DEF SelectFrames, Idle, Fetches, Acks, Replies
  <2>2. Selected(call[s].dev, call[s].after, call[s].at) \subseteq frames[call[s].dev]
    BY DEF Selected, FirstByCursor, Unacked
  <2>3. call' \in [Slots -> {Idle} \cup Fetches \cup Acks \cup Replies]
    BY <1>15, <2>1, <2>2 DEF SelectFrames, Fetches, Replies
  <2> QED  BY <1>15, <2>3 DEF SelectFrames
<1>11. ASSUME NEW s \in Slots, ReceiveFrames(s) PROVE TypeOK'
  <2>1. call[s] \in Replies /\ cursor'[call[s].dev] \in Nat
    BY <1>11, CursorMoves
  <2>2. call[s].dev \in Devices /\ call[s].frames \subseteq Rows
    BY <2>1 DEF Replies
  <2>3. cursor' \in [Devices -> Nat]
    BY <1>11, <2>1, <2>2 DEF ReceiveFrames
  <2>4. applied' \in [Devices -> SUBSET Nat]
    BY <1>11, <2>2 DEF ReceiveFrames, Cursors, Rows
  <2> QED  BY <1>11, <2>3, <2>4 DEF ReceiveFrames
<1>12. ASSUME NEW s \in Slots, LoseCall(s) PROVE TypeOK'
  BY <1>12 DEF LoseCall
<1>13. ASSUME NEW s \in Slots, AckFrames(s) PROVE TypeOK'
  <2>1. call[s] \in Acks
    BY <1>13 DEF AckFrames, Idle, Fetches, Acks, Replies
  <2>2. ASSUME NEW f \in Rows PROVE [f EXCEPT !.acked = TRUE] \in Rows
    BY DEF Rows
  <2>3. frames' \in [Devices -> SUBSET Rows]
    BY <1>13, <2>1, <2>2 DEF AckFrames, Acks
  <2> QED  BY <1>13, <2>3 DEF AckFrames
<1>14. CASE UNCHANGED storeVars
  BY <1>14 DEF storeVars
<1> QED  BY <1>1, <1>2, <1>3, <1>4, <1>5, <1>6, <1>7, <1>8, <1>9, <1>10, <1>11, <1>12,
            <1>13, <1>14, <1>15 DEF StoreNext, DeviceNext

\* Time passes for the handlers too.
LEMMA TimesStep ==
  ASSUME TypeOK, TimesPast, [StoreNext]_storeVars
  PROVE  TimesPast'
<1> USE DEF TypeOK, TimesPast
<1>0. now' \in Nat /\ now <= now'
  <2>1. now' = now \/ Tick
    BY DEF StoreNext, DeviceNext, ExpireFrames, CrashServer, RegisterDevice, RevokeDevice,
           BridgeConnects, AppendFrame, ReadBridgeFrame, RequestFetch, RequestAck, Authenticate,
           DeleteExpired, SelectFrames, ReceiveFrames, LoseCall, AckFrames, storeVars
  <2> QED  BY <2>1 DEF Tick
<1>1. ASSUME NEW p \in Peers, inHand'[p] # Nothing PROVE inHand'[p].read <= now'
  <2>1. CASE inHand'[p] = inHand[p]
    <3>1. inHand[p].read \in Nat /\ inHand[p].read <= now
      BY <1>1, <2>1 DEF InHands
    <3> QED  BY <1>0, <2>1, <3>1
  <2>2. ASSUME NEW q \in Peers, NEW d \in Devices, NEW env \in Envelopes,
               ReadBridgeFrame(q, d, env)
        PROVE  inHand'[p].read <= now'
    <3>1. inHand'[p] = inHand[p] \/ inHand'[p] = [dev |-> d, env |-> env, read |-> now]
      BY <2>2 DEF ReadBridgeFrame
    <3> QED  BY <1>0, <2>1, <3>1
  <2>3. ASSUME NEW q \in Peers, AppendFrame(q) PROVE inHand'[p] = inHand[p]
    BY <1>1, <2>3 DEF AppendFrame
  <2>4. CASE CrashServer
    BY <1>1, <2>4 DEF CrashServer
  <2> QED  BY <2>1, <2>2, <2>3, <2>4
           DEF StoreNext, DeviceNext, Tick, ExpireFrames, RegisterDevice, RevokeDevice,
               BridgeConnects, RequestFetch, RequestAck, Authenticate,
               DeleteExpired, SelectFrames, ReceiveFrames, LoseCall, AckFrames, storeVars
<1>2. ASSUME NEW s \in Slots, call'[s].op \in {"fetch", "select"} PROVE call'[s].at <= now'
  <2>1. CASE call'[s] = call[s]
    <3>1. call[s].at \in Nat /\ call[s].at <= now
      BY <1>2, <2>1 DEF Idle, Fetches, Acks, Replies
    <3> QED  BY <1>0, <2>1, <3>1
  <2>2. ASSUME NEW x \in Slots, NEW d \in Devices, RequestFetch(x, d) \/ RequestAck(x, d)
        PROVE  call'[s].at <= now'
    <3>1. \/ call'[s] = call[s]
          \/ call'[s] = [op |-> "fetch", dev |-> d, after |-> cursor[d], at |-> now]
          \/ call'[s] = [op |-> "ack", dev |-> d, through |-> cursor[d]]
      BY <2>2 DEF RequestFetch, RequestAck, Authenticate
    <3> QED  BY <1>0, <1>2, <2>1, <3>1
  <2>3. ASSUME NEW x \in Slots, DeleteExpired(x) PROVE call'[s].at <= now'
    <3>1. PICK t \in call[x].at..now : call' = [call EXCEPT ![x] = [call[x] EXCEPT !.op = "select", !.at = t]]
      BY <2>3 DEF DeleteExpired
    <3>2. CASE x = s
      <4>1. call[s] \in Fetches
        BY <2>3, <3>2 DEF DeleteExpired, Idle, Fetches, Acks, Replies
      <4>2. call'[s].at = t
        BY <3>1, <3>2, <4>1 DEF Fetches
      <4> QED  BY <1>0, <3>1, <3>2, <4>1, <4>2 DEF Fetches
    <3> QED  BY <2>1, <3>1, <3>2
  <2>4. ASSUME NEW x \in Slots, SelectFrames(x) \/ ReceiveFrames(x) \/ LoseCall(x) \/ AckFrames(x)
        PROVE  call'[s] = call[s]
    BY <1>2, <2>4 DEF SelectFrames, ReceiveFrames, LoseCall, AckFrames, Idle
  <2>5. CASE CrashServer
    BY <1>2, <2>5 DEF CrashServer, Idle
  <2> QED  BY <2>1, <2>2, <2>3, <2>4, <2>5
           DEF StoreNext, DeviceNext, Tick, ExpireFrames, RegisterDevice, RevokeDevice,
               BridgeConnects, AppendFrame, ReadBridgeFrame, storeVars
<1> QED  BY <1>1, <1>2
-----------------------------------------------------------------------------
(* What a step does to the tables.                                         *)

\* Rows of d leave: all of them, or only acknowledged and expired ones.
Shrinks(d) ==
  /\ frames'[d] \subseteq frames[d]
  /\ frames'[d] = {} \/ \A f \in Unacked(frames[d]) : Live(f) => f \in frames'[d]
  /\ device'[d].next = device[d].next
  /\ device'[d].revoked => device[d].revoked \/ frames'[d] = {}

Marked(f, c)       == IF f.cursor <= c THEN [f EXCEPT !.acked = TRUE] ELSE f
AckedThrough(S, c) == {Marked(f, c) : f \in S}

\* The rows of d up to a cursor the device has reached are acknowledged.
Acknowledges(d) ==
  /\ \E c \in Nat : c <= cursor[d] /\ frames'[d] = AckedThrough(frames[d], c)
  /\ device' = device /\ now' = now

\* A row joins those of d; nothing else changes.
Appends(d) ==
  /\ \E env \in Envelopes, t \in 0..now :
       /\ CanAppend(d, env)
       /\ frames' = [frames EXCEPT ![d] = Kept(@, SizeOf[env], t) \cup {Row(d, env, t)}]
  /\ device' = [device EXCEPT ![d].next = @ + 1]
  /\ now' = now

TableStep ==
  \/ now' = now + 1 /\ UNCHANGED <<device, frames>>
  \/ now' = now /\ \A d \in Devices : Shrinks(d) \/ Acknowledges(d)
  \/ \E d \in Devices : Appends(d)

\* Every step of the store is one of these.
LEMMA TablesChange ==
  ASSUME TypeOK, TimesPast, CallsLag, [StoreNext]_storeVars
  PROVE  TableStep
<1> USE DEF TypeOK, TableStep
<1>0. \A f \in Rows, t \in 0..now : Live(f) => LiveAt(f, t)
  BY DEF Live, LiveAt, Rows
<1>1. ASSUME UNCHANGED <<device, frames, now>> PROVE TableStep
  BY <1>1 DEF Shrinks, Unacked
<1>2. CASE Tick
  BY <1>2 DEF Tick
<1>3. CASE ExpireFrames
  <2>1. PICK t \in 0..now : frames' = [d \in Devices |-> {f \in Unacked(frames[d]) : LiveAt(f, t)}]
    BY <1>3 DEF ExpireFrames
  <2> QED  BY <1>0, <1>3, <2>1 DEF ExpireFrames, Shrinks, Unacked
<1>4. CASE CrashServer
  BY <1>1, <1>4 DEF CrashServer
<1>5. ASSUME NEW d \in Devices, RegisterDevice(d) PROVE TableStep
  <2>1. \A e \in Devices \ {d} : device'[e] = device[e]
    BY <1>5 DEF RegisterDevice
  <2>2. device'[d].next = device[d].next /\ ~device'[d].revoked
    BY <1>5, RowUpdates, ZenonT(60) DEF RegisterDevice
  <2> QED  BY <1>5, <2>1, <2>2 DEF RegisterDevice, Shrinks, Unacked
<1>6. ASSUME NEW d \in Devices, RevokeDevice(d) PROVE TableStep
  <2>1. \A e \in Devices \ {d} : device'[e] = device[e]
    BY <1>6 DEF RevokeDevice
  <2>2. device'[d].next = device[d].next
    BY <1>6 DEF RevokeDevice, DeviceRows
  <2> QED  BY <1>6, <2>1, <2>2 DEF RevokeDevice, Shrinks, Unacked
<1>7. ASSUME NEW p \in Peers, BridgeConnects(p) PROVE TableStep
  BY <1>1, <1>7 DEF BridgeConnects
<1>8. ASSUME NEW p \in Peers, AppendFrame(p) PROVE TableStep
  <2>1. inHand[p] \in InHands
    BY <1>8 DEF AppendFrame
  <2>2. CASE CanAppend(inHand[p].dev, inHand[p].env)
    <3> DEFINE d == inHand[p].dev
               env == inHand[p].env
    <3>1. PICK t \in inHand[p].read..now :
            frames' = [frames EXCEPT ![d] = Kept(@, SizeOf[env], t) \cup {Row(d, env, t)}]
      BY <1>8, <2>2 DEF AppendFrame
    <3>2. d \in Devices /\ env \in Envelopes /\ t \in 0..now
      BY <2>1 DEF InHands
    <3>3. Appends(d)
      BY <1>8, <2>2, <3>1, <3>2 DEF AppendFrame, Appends
    <3> QED  BY <3>2, <3>3
  <2>3. CASE ~CanAppend(inHand[p].dev, inHand[p].env)
    BY <1>1, <1>8, <2>3 DEF AppendFrame
  <2> QED  BY <2>2, <2>3
<1>9. ASSUME NEW p \in Peers, NEW d \in Devices, NEW env \in Envelopes,
             ReadBridgeFrame(p, d, env)
      PROVE  TableStep
  BY <1>1, <1>9 DEF ReadBridgeFrame
<1>10. ASSUME NEW s \in Slots, NEW d \in Devices, RequestFetch(s, d) \/ RequestAck(s, d)
       PROVE  TableStep
  BY <1>1, <1>10 DEF RequestFetch, RequestAck, Authenticate
<1>11. ASSUME NEW s \in Slots, DeleteExpired(s) PROVE TableStep
  <2>1. call[s].dev \in Devices /\ call[s].at \in Nat
    BY <1>11 DEF DeleteExpired, Idle, Fetches, Acks, Replies
  <2>2. PICK t \in call[s].at..now : frames' = [frames EXCEPT ![call[s].dev] = {f \in @ : LiveAt(f, t)}]
    BY <1>11 DEF DeleteExpired
  <2>3. t \in 0..now
    BY <2>1
  <2> QED  BY <1>0, <1>11, <2>1, <2>2, <2>3 DEF DeleteExpired, Shrinks, Unacked
<1>16. ASSUME NEW s \in Slots, SelectFrames(s) PROVE TableStep
  BY <1>1, <1>16 DEF SelectFrames
<1>12. ASSUME NEW s \in Slots, ReceiveFrames(s) PROVE TableStep
  BY <1>1, <1>12 DEF ReceiveFrames
<1>13. ASSUME NEW s \in Slots, LoseCall(s) PROVE TableStep
  BY <1>1, <1>13 DEF LoseCall
<1>14. ASSUME NEW s \in Slots, AckFrames(s) PROVE TableStep
  <2>1. call[s] \in Acks /\ call[s].through <= cursor[call[s].dev]
    BY <1>14 DEF AckFrames, Idle, Fetches, Acks, Replies, CallsLag
  <2>2. call[s].dev \in Devices /\ call[s].through \in Nat
    BY <2>1 DEF Acks
  <2>3. Acknowledges(call[s].dev)
    BY <1>14, <2>1, <2>2 DEF AckFrames, Acknowledges, AckedThrough, Marked
  <2>4. \A d \in Devices \ {call[s].dev} : Shrinks(d)
    BY <1>14 DEF AckFrames, Shrinks, Unacked
  <2> QED  BY <1>14, <2>3, <2>4 DEF AckFrames
<1>15. CASE UNCHANGED storeVars
  BY <1>1, <1>15 DEF storeVars
<1> QED  BY <1>2, <1>3, <1>4, <1>5, <1>6, <1>7, <1>8, <1>9, <1>10, <1>11, <1>12, <1>13,
            <1>14, <1>15, <1>16 DEF StoreNext, DeviceNext
-----------------------------------------------------------------------------
(* The order of the rows.                                                  *)

\* Rows that are deleted keep the order of a table.
LEMMA OrderedSubset ==
  ASSUME NEW S, NEW T, T \subseteq S, NEW n, Ordered(S, n)
  PROVE  Ordered(T, n)
  BY DEF Ordered

\* A row that is acknowledged keeps all else.
LEMMA MarkedRow ==
  ASSUME NEW f \in Rows, NEW c \in Nat
  PROVE  /\ Marked(f, c) \in Rows
         /\ Marked(f, c).cursor = f.cursor /\ Marked(f, c).expires = f.expires
         /\ Marked(f, c).acked <=> (f.acked \/ f.cursor <= c)
         /\ f.cursor > c => Marked(f, c) = f
<1>1. f.cursor \in Nat
  BY DEF Rows
<1>2. CASE f.cursor <= c
  <2> DEFINE g == [f EXCEPT !.acked = TRUE]
  <2>1. g \in Rows /\ g.cursor = f.cursor /\ g.expires = f.expires /\ g.acked
    BY DEF Rows
  <2>2. Marked(f, c) = g
    BY <1>2 DEF Marked
  <2> HIDE DEF g
  <2> QED  BY <1>1, <1>2, <2>1, <2>2
<1>3. CASE ~(f.cursor <= c)
  <2>1. Marked(f, c) = f
    BY <1>3 DEF Marked
  <2> QED  BY <1>1, <1>3, <2>1
<1> QED  BY <1>2, <1>3

\* An acknowledgement keeps the order.
LEMMA OrderedAcked ==
  ASSUME NEW S, S \subseteq Rows, NEW n \in Nat, NEW c \in Nat, Ordered(S, n)
  PROVE  Ordered(AckedThrough(S, c), n)
<1>1. ASSUME NEW f \in S PROVE Marked(f, c).cursor = f.cursor
  BY MarkedRow
<1>2. \A x \in AckedThrough(S, c) : \E f \in S : x = Marked(f, c)
  BY DEF AckedThrough
<1> QED  BY <1>1, <1>2 DEF Ordered

\* A row with the next cursor keeps the order.
LEMMA OrderedAppended ==
  ASSUME NEW S, S \subseteq Rows, NEW n \in Nat, Ordered(S, n), NEW r \in Rows, r.cursor = n
  PROVE  Ordered(S \cup {r}, n + 1)
<1>1. \A f \in S : f.cursor \in Nat
  BY DEF Rows
<1> QED  BY <1>1 DEF Ordered

\* The row a device's table gets.
LEMMA RowIs ==
  ASSUME TypeOK, NEW d \in Devices, NEW env \in Envelopes, NEW t \in 0..now
  PROVE  LET r == Row(d, env, t)
         IN /\ r \in Rows /\ r.cursor = device[d].next /\ r.expires = t + TTL
            /\ ~r.acked /\ r.env = env
  BY StoreAssumption DEF TypeOK, DeviceRows, Row, Rows

\* Facts about the row and the table of a device that a step leaves.
LEMMA AppendsTo ==
  ASSUME TypeOK, NEW d \in Devices, Appends(d)
  PROVE  /\ device'[d].next = device[d].next + 1
         /\ device'[d].revoked = device[d].revoked /\ ~device[d].revoked
         /\ \A e \in Devices \ {d} : device'[e] = device[e] /\ frames'[e] = frames[e]
         /\ \E env \in Envelopes, t \in 0..now :
              /\ CanAppend(d, env)
              /\ frames'[d] = Kept(frames[d], SizeOf[env], t) \cup {Row(d, env, t)}
<1>1. device'[d] = [device[d] EXCEPT !.next = @ + 1]
  BY DEF Appends, TypeOK
<1>2. device[d] \in DeviceRows
  BY DEF TypeOK
<1> QED  BY <1>1, <1>2, RowUpdates DEF Appends, CanAppend, DeviceActive, TypeOK

\* What stays when a row joins: rows not acknowledged.
LEMMA KeptRows ==
  ASSUME NEW S, NEW size, NEW t
  PROVE  Kept(S, size, t) \subseteq {f \in Unacked(S) : LiveAt(f, t)}
  BY DEF Kept

\* The rows stay in order.
LEMMA OrderStep ==
  ASSUME TypeOK, RowsOrdered, TableStep
  PROVE  RowsOrdered'
<1> SUFFICES ASSUME NEW d \in Devices PROVE Ordered(frames'[d], device'[d].next)
  BY DEF RowsOrdered
<1>2. /\ frames[d] \subseteq Rows /\ device[d].next \in Nat
      /\ Ordered(frames[d], device[d].next)
  BY DEF TypeOK, DeviceRows, RowsOrdered
<1>3. CASE Shrinks(d)
  BY <1>2, <1>3, OrderedSubset DEF Shrinks
<1>4. CASE Acknowledges(d)
  BY <1>2, <1>4, OrderedAcked DEF Acknowledges
<1>5. ASSUME NEW e \in Devices, Appends(e), e # d
      PROVE  Ordered(frames'[d], device'[d].next)
  <2>1. device'[d] = device[d] /\ frames'[d] = frames[d]
    BY <1>5, AppendsTo
  <2> QED  BY <1>2, <2>1
<1>6. CASE Appends(d)
  <2>1. PICK env \in Envelopes, t \in 0..now :
          frames'[d] = Kept(frames[d], SizeOf[env], t) \cup {Row(d, env, t)}
    BY <1>6, AppendsTo
  <2> DEFINE K == Kept(frames[d], SizeOf[env], t)
             r == Row(d, env, t)
  <2>2. K \subseteq frames[d]
    BY KeptRows DEF Unacked
  <2>3. r \in Rows /\ r.cursor = device[d].next
    BY RowIs
  <2> HIDE DEF K, r
  <2>4. Ordered(K, device[d].next)
    BY <1>2, <2>2, OrderedSubset
  <2>5. Ordered(K \cup {r}, device[d].next + 1)
    BY <1>2, <2>2, <2>3, <2>4, OrderedAppended
  <2>6. frames'[d] = K \cup {r}
    BY <2>1 DEF K, r
  <2> QED  BY <1>6, <2>5, <2>6, AppendsTo
<1>7. CASE UNCHANGED <<device, frames>>
  BY <1>2, <1>7
<1> QED  BY <1>3, <1>4, <1>5, <1>6, <1>7 DEF TableStep

\* Distinct rows have distinct cursors below the next one, so they are finitely many.
LEMMA RowsFinite ==
  ASSUME NEW S, S \subseteq Rows, NEW n \in Nat, Ordered(S, n)
  PROVE  IsFiniteSet(S)
<1> DEFINE c == [f \in S |-> f.cursor]
<1>1. c \in Injection(S, 0..n)
  BY DEF Ordered, Rows, Injection, IsInjective
<1>2. IsFiniteSet(0..n)
  BY FS_Interval
<1> HIDE DEF c
<1> QED  BY <1>1, <1>2, FS_Injection

-----------------------------------------------------------------------------
(* Acknowledgements, answers and the device's cursor.                      *)

\* A row after a step was there before it, with the same deadline, acknowledged if it is
\* or if the device has reached it, or has just joined under the next cursor. A row that
\* is still due was due before.
LEMMA RowsFrom ==
  ASSUME TypeOK, TableStep, NEW d \in Devices
  PROVE  /\ device[d].next \in Nat /\ device[d].next <= device'[d].next
         /\ \A g \in frames'[d] :
              \/ g.cursor = device[d].next /\ ~g.acked
              \/ \E f \in frames[d] : /\ f.cursor = g.cursor
                                      /\ g.expires > now' => Live(f)
                                      /\ g.acked => f.acked \/ f.cursor <= cursor[d]
<1>0. device[d].next \in Nat /\ cursor[d] \in Nat /\ frames[d] \subseteq Rows /\ now \in Nat
  BY DEF TypeOK, DeviceRows
<1>00. \A f \in frames[d] : \A g : f.expires = g.expires /\ g.expires > now' => Live(f)
  <2>1. \A f \in frames[d] : f.expires \in Nat
    BY <1>0 DEF Rows
  <2>2. now' = now \/ now' = now + 1
    BY DEF TableStep, Appends
  <2> QED  BY <1>0, <2>1, <2>2 DEF Live, LiveAt
<1>1. CASE Shrinks(d)
  BY <1>0, <1>00, <1>1 DEF Shrinks
<1>2. CASE Acknowledges(d)
  <2>1. PICK c \in Nat : c <= cursor[d] /\ frames'[d] = AckedThrough(frames[d], c)
    BY <1>2 DEF Acknowledges
  <2>2. ASSUME NEW f \in frames[d]
        PROVE  /\ f.cursor = Marked(f, c).cursor /\ f.expires = Marked(f, c).expires
               /\ Marked(f, c).acked => f.acked \/ f.cursor <= cursor[d]
    <3>1. f \in Rows /\ f.cursor \in Nat
      BY <1>0 DEF Rows
    <3> QED  BY <1>0, <2>1, <3>1, MarkedRow
  <2>3. \A g \in frames'[d] : \E f \in frames[d] : g = Marked(f, c)
    BY <2>1 DEF AckedThrough
  <2> QED  BY <1>0, <1>00, <1>2, <2>2, <2>3 DEF Acknowledges
<1>3. CASE Appends(d)
  <2>1. PICK env \in Envelopes, t \in 0..now :
          frames'[d] = Kept(frames[d], SizeOf[env], t) \cup {Row(d, env, t)}
    BY <1>3, AppendsTo
  <2>2. \A f \in Kept(frames[d], SizeOf[env], t) : f \in frames[d]
    BY KeptRows DEF Unacked
  <2>3. Row(d, env, t).cursor = device[d].next /\ ~Row(d, env, t).acked
    BY RowIs
  <2>4. \A f \in frames'[d] : f \in frames[d] \/ (f.cursor = device[d].next /\ ~f.acked)
    BY <2>1, <2>2, <2>3
  <2>5. \A g \in frames'[d] :
          \/ g.cursor = device[d].next /\ ~g.acked
          \/ \E f \in frames[d] : /\ f.cursor = g.cursor
                                  /\ g.expires > now' => Live(f)
                                  /\ g.acked => f.acked \/ f.cursor <= cursor[d]
    BY <1>00, <2>4
  <2> QED  BY <1>0, <1>3, <2>5, AppendsTo
<1>4. ASSUME NEW e \in Devices, Appends(e), e # d
      PROVE  device'[d] = device[d] /\ frames'[d] = frames[d]
  BY <1>4, AppendsTo
<1> QED  BY <1>0, <1>00, <1>1, <1>2, <1>3, <1>4 DEF TableStep

\* Only ReceiveFrames moves the device's cursor.
LEMMA CursorKept ==
  ASSUME [StoreNext]_storeVars, \A s \in Slots : ~ReceiveFrames(s)
  PROVE  UNCHANGED <<cursor, applied>>
  BY DEF StoreNext, DeviceNext, Tick, ExpireFrames, CrashServer, RegisterDevice,
         RevokeDevice,
         BridgeConnects, AppendFrame, ReadBridgeFrame, RequestFetch, RequestAck, Authenticate,
         DeleteExpired, SelectFrames, LoseCall, AckFrames, storeVars

\* The cursor never goes back and nothing applied is forgotten.
LEMMA PhoneForward ==
  ASSUME TypeOK, CursorCovers, CallsLag, [StoreNext]_storeVars, NEW d \in Devices
  PROVE  cursor[d] <= cursor'[d] /\ applied[d] \subseteq applied'[d]
<1>1. ASSUME NEW s \in Slots, ReceiveFrames(s)
      PROVE  cursor[d] <= cursor'[d] /\ applied[d] \subseteq applied'[d]
  <2>1. call[s].dev \in Devices /\ cursor[call[s].dev] <= cursor'[call[s].dev]
    BY <1>1, CursorMoves DEF Replies
  <2>2. d # call[s].dev => cursor'[d] = cursor[d] /\ cursor[d] \in Nat
    BY <1>1 DEF ReceiveFrames, TypeOK
  <2>3. applied[d] \subseteq applied'[d]
    BY <1>1, <2>1 DEF ReceiveFrames, TypeOK
  <2>4. cursor[d] <= cursor'[d]
    BY <2>1, <2>2
  <2> QED  BY <2>3, <2>4
<1> QED  BY <1>1, CursorKept DEF TypeOK

\* Nothing is acknowledged that the device has not applied.
LEMMA AckedStep ==
  ASSUME TypeOK, CursorCovers, CallsLag, AckedWasApplied, TableStep, [StoreNext]_storeVars
  PROVE  AckedWasApplied'
<1> SUFFICES ASSUME NEW d \in Devices, NEW g \in frames'[d], g.acked, g.expires > now'
             PROVE  g.cursor \in applied'[d]
  BY DEF AckedWasApplied, Live, LiveAt
<1>1. PICK f \in frames[d] : /\ f.cursor = g.cursor /\ (f.acked \/ f.cursor <= cursor[d])
                            /\ Live(f)
  BY RowsFrom
<1>2. f.cursor \in applied[d]
  BY <1>1 DEF AckedWasApplied, CursorCovers
<1> QED  BY <1>1, <1>2, PhoneForward

\* A revoked device keeps no rows.
LEMMA RevokedStep ==
  ASSUME TypeOK, RevokedEmpty, TableStep
  PROVE  RevokedEmpty'
<1> SUFFICES ASSUME NEW d \in Devices, device'[d].revoked PROVE frames'[d] = {}
  BY DEF RevokedEmpty
<1>1. CASE Shrinks(d)
  BY <1>1 DEF Shrinks, RevokedEmpty
<1>2. CASE Acknowledges(d)
  BY <1>2 DEF Acknowledges, RevokedEmpty, AckedThrough
<1>3. ASSUME NEW e \in Devices, Appends(e) PROVE frames'[d] = {}
  BY <1>3, AppendsTo DEF RevokedEmpty
<1> QED  BY <1>1, <1>2, <1>3 DEF TableStep, RevokedEmpty

\* The cursor covers what lies below it.
LEMMA CoverStep ==
  ASSUME TypeOK, CursorCovers, CallsLag, TableStep, [StoreNext]_storeVars
  PROVE  CursorCovers'
<1> SUFFICES ASSUME NEW d \in Devices
             PROVE  /\ cursor'[d] < device'[d].next
                    /\ \A g \in frames'[d] : g.expires > now' /\ g.cursor <= cursor'[d]
                                            => g.cursor \in applied'[d]
  BY DEF CursorCovers, Live, LiveAt
<1>0. /\ cursor[d] \in Nat /\ device[d].next \in Nat /\ cursor[d] < device[d].next
      /\ frames[d] \subseteq Rows
  BY DEF TypeOK, DeviceRows, CursorCovers
<1>1. CASE \A s \in Slots : ~ReceiveFrames(s)
  <2>1. cursor' = cursor /\ applied' = applied
    BY <1>1, CursorKept
  <2>2. device[d].next <= device'[d].next /\ device'[d].next \in Nat
    <3>1. TypeOK'
      BY TypeStep
    <3> QED  BY <3>1, RowsFrom DEF TypeOK, DeviceRows
  <2>3. ASSUME NEW g \in frames'[d], g.expires > now', g.cursor <= cursor[d]
        PROVE  g.cursor \in applied[d]
    <3>1. g.cursor # device[d].next
      BY <1>0, <2>3
    <3>2. PICK f \in frames[d] : f.cursor = g.cursor /\ Live(f)
      BY <2>3, <3>1, RowsFrom
    <3> QED  BY <2>3, <3>2 DEF CursorCovers
  <2> QED  BY <1>0, <2>1, <2>2, <2>3
<1>2. ASSUME NEW s \in Slots, ReceiveFrames(s)
      PROVE  /\ cursor'[d] < device'[d].next
             /\ \A g \in frames'[d] : g.expires > now' /\ g.cursor <= cursor'[d]
                                     => g.cursor \in applied'[d]
  <2>1. frames' = frames /\ device' = device /\ now' = now
    BY <1>2 DEF ReceiveFrames
  <2>2. CASE d # call[s].dev
    <3>1. cursor'[d] = cursor[d] /\ applied'[d] = applied[d]
      BY <1>2, <2>2 DEF ReceiveFrames, TypeOK
    <3> QED  BY <2>1, <3>1 DEF CursorCovers, Live, LiveAt
  <2>3. CASE d = call[s].dev
    <3> DEFINE new == {f \in call[s].frames : f.cursor > cursor[d]}
    <3>1. /\ call[s].frames \subseteq Rows
          /\ cursor'[d] < device[d].next
          /\ cursor'[d] = cursor[d] \/ \E g \in new : cursor'[d] = g.cursor
      BY <1>2, <2>3, CursorMoves DEF Replies
    <3>2. applied'[d] = applied[d] \cup Cursors(new)
      BY <1>2, <2>3 DEF ReceiveFrames, TypeOK
    <3>3. ASSUME NEW f \in frames[d], Live(f), f.cursor <= cursor'[d]
          PROVE  f.cursor \in applied'[d]
      <4>1. CASE f.cursor <= cursor[d]
        BY <3>2, <3>3, <4>1 DEF CursorCovers
      <4>2. CASE f.cursor > cursor[d]
        <5>1. f.cursor \in Nat
          BY <1>0 DEF Rows
        <5>2. PICK g \in new : cursor'[d] = g.cursor
          BY <1>0, <3>1, <3>3, <4>2, <5>1
        <5>3. f.cursor \in applied[d] \/ f.cursor \in Cursors(call[s].frames)
          BY <1>2, <2>3, <3>3, <5>2 DEF CallsLag, ReceiveFrames
        <5>4. f.cursor \in Cursors(call[s].frames) => f.cursor \in Cursors(new)
          BY <4>2 DEF Cursors
        <5> QED  BY <3>2, <5>3, <5>4
      <4>3. f.cursor \in Nat
        BY <1>0 DEF Rows
      <4> QED  BY <1>0, <4>1, <4>2, <4>3
    <3> QED  BY <2>1, <3>1, <3>3 DEF Live, LiveAt
  <2> QED  BY <2>2, <2>3
<1> QED  BY <1>1, <1>2

\* What a step makes of a request: it ends, waits, begins or is answered.
LEMMA CallsChange ==
  ASSUME TypeOK, [StoreNext]_storeVars, NEW s \in Slots
  PROVE  \/ call'[s] = Idle \/ call'[s] = call[s]
         \/ /\ cursor' = cursor
            /\ \E d \in Devices : \/ call'[s] = [op |-> "fetch", dev |-> d, after |-> cursor[d], at |-> now]
                                 \/ call'[s] = [op |-> "ack", dev |-> d, through |-> cursor[d]]
         \/ /\ cursor' = cursor /\ call[s] \in Fetches /\ call'[s] \in Fetches
            /\ call'[s].dev = call[s].dev /\ call'[s].after = call[s].after
         \/ SelectFrames(s)
<1> USE DEF TypeOK
<1>1. ASSUME UNCHANGED call PROVE call'[s] = call[s]
  BY <1>1
<1>2. CASE CrashServer
  BY <1>2 DEF CrashServer
<1>3. ASSUME NEW x \in Slots, NEW d \in Devices, RequestFetch(x, d) \/ RequestAck(x, d)
      PROVE  \/ call'[s] = call[s]
             \/ /\ cursor' = cursor
                /\ \/ call'[s] = [op |-> "fetch", dev |-> d, after |-> cursor[d], at |-> now]
                   \/ call'[s] = [op |-> "ack", dev |-> d, through |-> cursor[d]]
  BY <1>3 DEF RequestFetch, RequestAck, Authenticate
<1>4. ASSUME NEW x \in Slots, ReceiveFrames(x) \/ LoseCall(x) \/ AckFrames(x)
      PROVE  call'[s] = Idle \/ call'[s] = call[s]
  BY <1>4 DEF ReceiveFrames, LoseCall, AckFrames
<1>5. ASSUME NEW x \in Slots, x # s, DeleteExpired(x) \/ SelectFrames(x) PROVE call'[s] = call[s]
  BY <1>5 DEF DeleteExpired, SelectFrames
<1>9. ASSUME DeleteExpired(s)
      PROVE  /\ cursor' = cursor /\ call[s] \in Fetches /\ call'[s] \in Fetches
             /\ call'[s].dev = call[s].dev /\ call'[s].after = call[s].after
  <2>1. call[s] \in Fetches
    BY <1>9 DEF DeleteExpired, Idle, Fetches, Acks, Replies
  <2>2. PICK t \in call[s].at..now : call'[s] = [call[s] EXCEPT !.op = "select", !.at = t]
    BY <1>9 DEF DeleteExpired
  <2>3. t \in Nat
    BY <2>1 DEF Fetches
  <2>4. call'[s] = [op |-> "select", dev |-> call[s].dev, after |-> call[s].after, at |-> t]
    BY <2>1, <2>2 DEF Fetches
  <2> QED  BY <1>9, <2>1, <2>3, <2>4 DEF DeleteExpired, Fetches
<1>6. CASE Tick \/ ExpireFrames \/ UNCHANGED storeVars
  BY <1>1, <1>6 DEF Tick, ExpireFrames, storeVars
<1>7. ASSUME NEW d \in Devices, RegisterDevice(d) \/ RevokeDevice(d) PROVE call'[s] = call[s]
  BY <1>1, <1>7 DEF RegisterDevice, RevokeDevice
<1>8. ASSUME NEW p \in Peers, \/ BridgeConnects(p) \/ AppendFrame(p)
                             \/ \E d \in Devices, env \in Envelopes : ReadBridgeFrame(p, d, env)
      PROVE  call'[s] = call[s]
  BY <1>1, <1>8 DEF BridgeConnects, AppendFrame, ReadBridgeFrame
<1> QED  BY <1>2, <1>3, <1>4, <1>5, <1>6, <1>7, <1>8, <1>9 DEF StoreNext, DeviceNext

\* An answer holds every row up to its last one that has a cursor above the request's,
\* is not acknowledged and has not expired.
LEMMA SelectedHead ==
  ASSUME TypeOK, RowsOrdered, NEW d \in Devices, NEW after \in Nat, NEW t,
         NEW g \in Selected(d, after, t),
         NEW f \in frames[d], ~f.acked, LiveAt(f, t), f.cursor > after, f.cursor <= g.cursor
  PROVE  f \in Selected(d, after, t)
<1> DEFINE B == {x \in Unacked(frames[d]) : x.cursor > after /\ LiveAt(x, t)}
           F == {x \in B : x.cursor <= f.cursor}
           G == {x \in B : x.cursor <= g.cursor}
<1>1. IsFiniteSet(frames[d])
  <2>1. device[d].next \in Nat
    BY DEF TypeOK, DeviceRows
  <2> QED  BY <2>1, RowsFinite DEF TypeOK, RowsOrdered
<1>2. f \in B /\ g \in B
  BY DEF Selected, FirstByCursor, Unacked
<1>3. \A x \in frames[d] : x.cursor \in Nat
  BY DEF TypeOK, Rows
<1>4. F \in SUBSET G /\ G \in SUBSET frames[d]
  BY <1>2, <1>3 DEF Unacked
<1>5. IsFiniteSet(G) /\ Cardinality(F) <= Cardinality(G) /\ IsFiniteSet(F)
  <2> HIDE DEF F, G
  <2> QED  BY <1>1, <1>4, FS_Subset
<1>6. Cardinality(F) \in Nat /\ Cardinality(G) \in Nat
  BY <1>5, FS_CardinalityType
<1>7. Cardinality(G) <= FetchLimit
  BY DEF Selected, FirstByCursor
<1>8. Cardinality(F) <= FetchLimit
  <2> HIDE DEF F, G
  <2> QED  BY <1>5, <1>6, <1>7, StoreAssumption
<1> QED  BY <1>2, <1>8 DEF Selected, FirstByCursor

\* Requests and answers under way stay behind.
LEMMA CallsStep ==
  ASSUME TypeOK, RowsOrdered, TimesPast, CursorCovers, CallsLag, AckedWasApplied, TableStep,
         [StoreNext]_storeVars
  PROVE  CallsLag'
<1> SUFFICES ASSUME NEW s \in Slots
             PROVE  /\ call'[s].op \in {"fetch", "select"} => call'[s].after <= cursor'[call'[s].dev]
                    /\ call'[s].op = "ack" => call'[s].through <= cursor'[call'[s].dev]
                    /\ call'[s].op = "reply" =>
                         \A g \in call'[s].frames :
                           /\ g.cursor < device'[call'[s].dev].next
                           /\ \A f \in frames'[call'[s].dev] :
                                f.expires > now' /\ f.cursor <= g.cursor =>
                                \/ f.cursor \in applied'[call'[s].dev]
                                \/ f.cursor \in Cursors(call'[s].frames)
  BY DEF CallsLag, Cursors, Live, LiveAt
<1>1. CASE call'[s] = Idle
  BY <1>1 DEF Idle
<1>2. CASE /\ cursor' = cursor
           /\ \E d \in Devices : \/ call'[s] = [op |-> "fetch", dev |-> d, after |-> cursor[d], at |-> now]
                                \/ call'[s] = [op |-> "ack", dev |-> d, through |-> cursor[d]]
  BY <1>2 DEF TypeOK
<1>3. CASE call'[s] = call[s] /\ call[s] # Idle
  <2> DEFINE d == call[s].dev
  <2>0. d \in Devices
    BY <1>3 DEF TypeOK, Fetches, Acks, Replies
  <2>1. cursor[d] <= cursor'[d] /\ applied[d] \subseteq applied'[d]
    BY <2>0, PhoneForward
  <2>2. cursor[d] \in Nat /\ cursor'[d] \in Nat
    BY <2>0, TypeStep DEF TypeOK
  <2>3. CASE call[s].op \in {"fetch", "select"}
    <3>1. call[s].after \in Nat /\ call[s].after <= cursor[d]
      BY <1>3, <2>3 DEF CallsLag, TypeOK, Fetches, Acks, Replies
    <3> QED  BY <1>3, <2>1, <2>2, <2>3, <3>1
  <2>4. CASE call[s].op = "ack"
    <3>1. call[s].through \in Nat /\ call[s].through <= cursor[d]
      BY <1>3, <2>4 DEF CallsLag, TypeOK, Fetches, Acks, Replies
    <3> QED  BY <1>3, <2>1, <2>2, <2>4, <3>1
  <2>5. CASE call[s].op = "reply"
    <3>1. call[s].frames \subseteq Rows
      BY <1>3, <2>5 DEF TypeOK, Fetches, Acks, Replies
    <3>2. ASSUME NEW g \in call[s].frames
          PROVE  /\ g.cursor < device'[d].next
                 /\ \A f \in frames'[d] : f.expires > now' /\ f.cursor <= g.cursor =>
                       f.cursor \in applied'[d] \/ f.cursor \in Cursors(call[s].frames)
      <4>1. g.cursor \in Nat /\ g.cursor < device[d].next
        BY <2>5, <3>1 DEF CallsLag, Rows
      <4>2. device[d].next \in Nat /\ device'[d].next \in Nat /\ device[d].next <= device'[d].next
        BY <2>0, RowsFrom, TypeStep DEF TypeOK, DeviceRows
      <4>3. ASSUME NEW f \in frames'[d], f.expires > now', f.cursor <= g.cursor
            PROVE  f.cursor \in applied'[d] \/ f.cursor \in Cursors(call[s].frames)
        <5>1. f.cursor # device[d].next
          BY <4>1, <4>2, <4>3
        <5>2. PICK e \in frames[d] : e.cursor = f.cursor /\ Live(e)
          BY <2>0, <4>3, <5>1, RowsFrom
        <5> QED  BY <2>1, <2>5, <4>3, <5>2 DEF CallsLag
      <4> QED  BY <4>1, <4>2, <4>3
    <3> QED  BY <1>3, <2>5, <3>2
  <2> QED  BY <1>3, <2>3, <2>4, <2>5
<1>5. CASE /\ cursor' = cursor /\ call[s] \in Fetches /\ call'[s] \in Fetches
           /\ call'[s].dev = call[s].dev /\ call'[s].after = call[s].after
  BY <1>5 DEF CallsLag, Fetches
<1>4. CASE SelectFrames(s)
  <2> DEFINE d == call[s].dev
             R == Selected(d, call[s].after, call[s].at)
  <2>1. /\ d \in Devices /\ call[s].after \in Nat /\ call[s].after <= cursor[d]
        /\ call[s].at \in Nat /\ call[s].at <= now
    BY <1>4 DEF SelectFrames, CallsLag, TimesPast, TypeOK, Idle, Fetches, Acks, Replies
  <2>2. /\ call'[s] = [op |-> "reply", dev |-> d, frames |-> R]
        /\ frames' = frames /\ device' = device /\ applied' = applied /\ now' = now
    BY <1>4, <2>1 DEF SelectFrames, TypeOK
  <2>3. R \subseteq frames[d]
    BY DEF Selected, FirstByCursor, Unacked
  <2>4. \A f \in frames[d] : f.cursor \in Nat /\ f.cursor < device[d].next
    BY <2>1 DEF TypeOK, Rows, RowsOrdered, Ordered
  <2>5. ASSUME NEW g \in R, NEW f \in frames'[d], f.expires > now', f.cursor <= g.cursor
        PROVE  f.cursor \in applied[d] \/ f.cursor \in Cursors(R)
    <3>1. f \in frames[d] /\ Live(f) /\ LiveAt(f, call[s].at)
      <4>1. f \in frames[d] /\ f.expires > now
        BY <2>2, <2>5
      <4>2. f.expires \in Nat /\ now \in Nat
        BY <2>1, <4>1 DEF TypeOK, Rows
      <4> QED  BY <2>1, <4>1, <4>2 DEF Live, LiveAt
    <3>2. CASE f.acked
      BY <2>1, <3>1, <3>2 DEF AckedWasApplied
    <3>3. CASE f.cursor <= call[s].after
      <4>1. f.cursor <= cursor[d]
        BY <2>1, <2>4, <3>1, <3>3 DEF TypeOK
      <4> QED  BY <2>1, <3>1, <4>1 DEF CursorCovers
    <3>4. CASE ~f.acked /\ f.cursor > call[s].after
      <4>1. f \in R
        BY <2>1, <2>5, <3>1, <3>4, SelectedHead
      <4> QED  BY <4>1 DEF Cursors
    <3> QED  BY <2>1, <2>4, <3>1, <3>2, <3>3, <3>4
  <2> HIDE DEF R, d
  <2> QED  BY <2>2, <2>3, <2>4, <2>5
<1> QED  BY <1>1, <1>2, <1>3, <1>4, <1>5, CallsChange
-----------------------------------------------------------------------------
(* The capacity.                                                           *)

\* The bytes of rows are a natural, and fewer rows have no more of them.
LEMMA BytesSubset ==
  ASSUME NEW S, S \subseteq Rows, IsFiniteSet(S), NEW T \in SUBSET S
  PROVE  Bytes(S) \in Nat /\ Bytes(T) \in Nat /\ Bytes(T) <= Bytes(S)
<1> DEFINE w == [f \in S |-> SizeOf[f.env]]
           v == [f \in T |-> SizeOf[f.env]]
<1>1. IsFiniteSet(T)
  BY FS_Subset
<1>2. \A f \in S : w[f] \in Nat
  BY StoreAssumption DEF Rows
<1>3. Bytes(S) = SumFunctionOnSet(w, S) /\ Bytes(T) = SumFunctionOnSet(v, T)
  BY DEF Bytes, SumFunction
<1>4. \A f \in T : v[f] = w[f]
  OBVIOUS
<1> HIDE DEF w, v
<1>5. SumFunctionOnSet(v, T) = SumFunctionOnSet(w, T)
  BY <1>1, <1>4, SumSame
<1>6. Weights(w, S) /\ Weights(w, T)
  BY <1>1, <1>2 DEF Weights
<1>7. SumFunctionOnSet(w, S) \in Nat /\ SumFunctionOnSet(w, T) \in Nat
  BY <1>6, SumType
<1>8. SumFunctionOnSet(w, T) <= SumFunctionOnSet(w, S)
  BY <1>6, SumSubset
<1> QED  BY <1>3, <1>5, <1>7, <1>8

\* A row that joins adds the size of what it carries.
LEMMA BytesAdd ==
  ASSUME NEW S, S \subseteq Rows, IsFiniteSet(S), NEW r \in Rows, r \notin S
  PROVE  Bytes(S \cup {r}) = SizeOf[r.env] + Bytes(S)
<1> DEFINE T == S \cup {r}
           w == [f \in T |-> SizeOf[f.env]]
           v == [f \in S |-> SizeOf[f.env]]
<1>1. Weights(w, S) /\ w[r] \in Nat /\ w[r] = SizeOf[r.env]
  BY StoreAssumption DEF Rows, Weights
<1>2. Bytes(T) = SumFunctionOnSet(w, T) /\ Bytes(S) = SumFunctionOnSet(v, S)
  BY DEF Bytes, SumFunction
<1>3. \A f \in S : v[f] = w[f]
  OBVIOUS
<1> HIDE DEF w, v
<1>4. SumFunctionOnSet(v, S) = SumFunctionOnSet(w, S)
  BY <1>3, SumSame
<1>5. SumFunctionOnSet(w, S \cup {r}) = w[r] + SumFunctionOnSet(w, S)
  BY <1>1, SumAdd
<1> QED  BY <1>1, <1>2, <1>4, <1>5

\* What Kept leaves fits with a row of the given size.
LEMMA KeptFits ==
  ASSUME NEW S, S \subseteq Rows, IsFiniteSet(S), NEW size \in Nat, size <= MaxBytes, NEW t
  PROVE  Bytes(Kept(S, size, t)) + size <= MaxBytes
<1> DEFINE rest == {f \in Unacked(S) : LiveAt(f, t)}
           K == Kept(S, size, t)
           C == Cursors(K)
<1>1. rest \in SUBSET S /\ K \in SUBSET rest
  BY DEF Unacked, Kept
<1>2. \A f \in S : f.cursor \in Nat
  BY DEF Rows
<1>3. MaxBytes \in Nat
  BY StoreAssumption
<1>4. CASE K = {}
  <2>1. IsFiniteSet({}) /\ Bytes(K) = 0
    <3>1. [f \in {} |-> SizeOf[f.env]] = [f \in K |-> SizeOf[f.env]] /\ DOMAIN [f \in K |-> SizeOf[f.env]] = {}
      BY <1>4
    <3> QED  BY <3>1, SumEmpty, FS_EmptySet DEF Bytes, SumFunction
  <2> QED  BY <1>3, <2>1
<1>5. CASE K # {}
  <2>1. C \subseteq Nat /\ C # {}
    BY <1>1, <1>2, <1>5 DEF Cursors
  <2>2. PICK n \in C : \A m \in C : n <= m
    <3> HIDE DEF C
    <3> QED  BY <2>1, LeastNat
  <2>3. PICK f \in K : n = f.cursor
    BY DEF Cursors
  <2> DEFINE U == {g \in rest : g.cursor >= f.cursor}
  <2>4. Bytes(U) + size <= MaxBytes
    BY DEF Kept
  <2>5. \A g \in K : g.cursor \in Nat /\ f.cursor <= g.cursor
    BY <1>1, <1>2, <2>2, <2>3 DEF Cursors
  <2>6. K \in SUBSET U
    BY <1>1, <1>2, <2>3, <2>5
  <2>7. U \subseteq Rows /\ IsFiniteSet(U)
    <3>1. U \in SUBSET S
      BY <1>1
    <3> QED  BY <3>1, FS_Subset
  <2>8. Bytes(U) \in Nat /\ Bytes(K) \in Nat /\ Bytes(K) <= Bytes(U)
    <3> HIDE DEF U, K
    <3> QED  BY <2>6, <2>7, BytesSubset
  <2>9. Bytes(K) + size <= MaxBytes
    <3> HIDE DEF U, K
    <3> QED  BY <1>3, <2>4, <2>8
  <2> QED  BY <2>9
<1> QED  BY <1>4, <1>5

\* The table of a device is finite.
LEMMA TableFinite ==
  ASSUME TypeOK, RowsOrdered, NEW d \in Devices
  PROVE  IsFiniteSet(frames[d]) /\ frames[d] \subseteq Rows
<1>1. device[d].next \in Nat
  BY DEF TypeOK, DeviceRows
<1> QED  BY <1>1, RowsFinite DEF TypeOK, RowsOrdered

\* No step takes the rows to acknowledge over the capacity.
LEMMA CapacityStep ==
  ASSUME TypeOK, RowsOrdered, CapacityKept, TableStep
  PROVE  CapacityKept'
<1> SUFFICES ASSUME NEW d \in Devices PROVE Bytes(Unacked(frames'[d])) <= MaxBytes
  BY DEF CapacityKept, Bytes, Unacked
<1> DEFINE S == frames[d]
<1>1. IsFiniteSet(S) /\ S \subseteq Rows
  BY TableFinite
<1>2. Unacked(S) \subseteq Rows /\ IsFiniteSet(Unacked(S))
  <2>1. Unacked(S) \in SUBSET S
    BY DEF Unacked
  <2> QED  BY <1>1, <2>1, FS_Subset
<1>3. MaxBytes \in Nat /\ Bytes(Unacked(S)) <= MaxBytes
  BY StoreAssumption DEF CapacityKept
<1>4. ASSUME Unacked(frames'[d]) \in SUBSET Unacked(S)
      PROVE  Bytes(Unacked(frames'[d])) <= MaxBytes
  <2>1. /\ Bytes(Unacked(S)) \in Nat /\ Bytes(Unacked(frames'[d])) \in Nat
        /\ Bytes(Unacked(frames'[d])) <= Bytes(Unacked(S))
    BY <1>2, <1>4, BytesSubset
  <2> QED  BY <1>3, <2>1
<1>5. CASE Shrinks(d)
  <2>1. Unacked(frames'[d]) \in SUBSET Unacked(S)
    BY <1>5 DEF Shrinks, Unacked
  <2> QED  BY <1>4, <2>1
<1>6. CASE Acknowledges(d)
  <2>1. PICK c \in Nat : frames'[d] = AckedThrough(S, c)
    BY <1>6 DEF Acknowledges
  <2>2. ASSUME NEW f \in S, ~Marked(f, c).acked PROVE Marked(f, c) = f
    <3>1. f \in Rows /\ f.cursor \in Nat
      BY <1>1 DEF Rows
    <3> QED  BY <2>2, <3>1, MarkedRow
  <2>3. Unacked(frames'[d]) \in SUBSET Unacked(S)
    BY <2>1, <2>2 DEF AckedThrough, Unacked
  <2> QED  BY <1>4, <2>3
<1>7. CASE Appends(d)
  <2>1. PICK env \in Envelopes, t \in 0..now :
          /\ CanAppend(d, env)
          /\ frames'[d] = Kept(S, SizeOf[env], t) \cup {Row(d, env, t)}
    BY <1>7, AppendsTo
  <2> DEFINE K == Kept(S, SizeOf[env], t)
             r == Row(d, env, t)
  <2>2. /\ r \in Rows /\ r.env = env /\ r \notin S
    <3>1. \A f \in S : f.cursor # device[d].next
      BY <1>1 DEF RowsOrdered, Ordered, Rows, TypeOK, DeviceRows
    <3> QED  BY <3>1, RowIs
  <2>3. K \in SUBSET S
    BY KeptRows DEF Unacked
  <2>4. SizeOf[env] \in Nat /\ SizeOf[env] <= MaxBytes
    BY <2>1, StoreAssumption DEF CanAppend
  <2>5. Bytes(K) + SizeOf[env] <= MaxBytes
    BY <1>1, <2>4, KeptFits
  <2>6. Unacked(frames'[d]) \in SUBSET (K \cup {r})
    BY <2>1 DEF Unacked
  <2> HIDE DEF K, r
  <2>7. IsFiniteSet(K) /\ K \subseteq Rows /\ r \notin K
    BY <1>1, <2>2, <2>3, FS_Subset
  <2>8. Bytes(K \cup {r}) = SizeOf[env] + Bytes(K)
    BY <2>2, <2>7, BytesAdd
  <2>9. K \in SUBSET K
    OBVIOUS
  <2>10. Bytes(K) \in Nat
    BY <2>7, <2>9, BytesSubset
  <2>11. IsFiniteSet(K \cup {r}) /\ K \cup {r} \subseteq Rows
    BY <2>2, <2>7, FS_AddElement
  <2>12. /\ Bytes(Unacked(frames'[d])) \in Nat /\ Bytes(K \cup {r}) \in Nat
         /\ Bytes(Unacked(frames'[d])) <= Bytes(K \cup {r})
    BY <2>6, <2>11, BytesSubset
  <2> QED  BY <1>3, <2>4, <2>5, <2>8, <2>10, <2>12
<1>8. ASSUME NEW e \in Devices, Appends(e), e # d PROVE frames'[d] = frames[d]
  BY <1>8, AppendsTo
<1> QED  BY <1>3, <1>5, <1>6, <1>7, <1>8 DEF TableStep, Unacked
-----------------------------------------------------------------------------
(* The queue that the store implements.                                    *)

WaitingRows(d) == {f \in Unacked(frames[d]) : Live(f)}
Dues(S)        == {Due(f) : f \in S}

\* S holds with every row the later ones of Q.
IsTail(S, Q) == S \subseteq Q /\ \A f \in S, g \in Q : f.cursor <= g.cursor => g \in S

\* A tail of rows is those above some cursor.
LEMMA TailIsAbove ==
  ASSUME NEW n \in Nat, NEW Q, \A f \in Q : f.cursor \in 1..n, NEW S, IsTail(S, Q)
  PROVE  \E k \in 0..n : S = {f \in Q : f.cursor > k}
<1> USE DEF IsTail
<1>1. CASE S = Q
  <2>1. S = {f \in Q : f.cursor > 0}
    BY <1>1
  <2> QED  BY <2>1
<1>2. CASE S # Q
  <2> DEFINE out == Cursors(Q \ S)
  <2>1. out \subseteq Nat /\ out # {} /\ \A c \in out : c <= n
    BY <1>2 DEF Cursors
  <2>2. PICK k \in out : \A c \in out : c <= k
    <3> HIDE DEF out
    <3> QED  BY <2>1, GreatestNat
  <2>3. PICK e \in Q \ S : k = e.cursor
    BY DEF Cursors
  <2>4. \A f \in Q : f.cursor > k => f \in S
    BY <2>2, <2>3 DEF Cursors
  <2>5. \A f \in S : f.cursor > k
    BY <2>3
  <2>6. S = {f \in Q : f.cursor > k}
    BY <2>4, <2>5
  <2> QED  BY <2>3, <2>6
<1> QED  BY <1>1, <1>2

\* What waits above a cursor, or beyond a time, are the rows above or beyond it.
LEMMA DuesAbove ==
  ASSUME NEW S, NEW k
  PROVE  /\ Mailbox!Above(Dues(S), k) = Dues({f \in S : f.cursor > k})
         /\ Mailbox!Ahead(Dues(S), k) = Dues({f \in S : f.expires > k})
<1>1. \A f : Due(f).cursor = f.cursor /\ Due(f).expires = f.expires
  BY DEF Due
<1>2. Mailbox!Above(Dues(S), k) = Dues({f \in S : f.cursor > k})
  BY <1>1 DEF Dues, Mailbox!Above
<1>3. Mailbox!Ahead(Dues(S), k) = Dues({f \in S : f.expires > k})
  BY <1>1 DEF Dues, Mailbox!Ahead
<1> QED  BY <1>2, <1>3

\* Rows have cursors given out.
LEMMA RowsIssued ==
  ASSUME TypeOK, RowsOrdered, NEW d \in Devices
  PROVE  /\ \A f \in frames[d] : f \in Rows /\ f.cursor \in Nat /\ f.cursor \in 1..LastCursor[d]
         /\ LastCursor[d] = device[d].next - 1 /\ LastCursor[d] \in Nat /\ now \in Nat
<1>1. \A f \in frames[d] : f \in Rows /\ f.cursor \in Nat \ {0} /\ f.cursor < device[d].next
  BY DEF TypeOK, Rows, RowsOrdered, Ordered
<1>2. device[d].next \in Nat \ {0} /\ now \in Nat
  BY DEF TypeOK, DeviceRows
<1> QED  BY <1>1, <1>2 DEF LastCursor

\* The frames that wait for d are its rows.
LEMMA WaitingIs ==
  ASSUME NEW d \in Devices
  PROVE  /\ Waiting[d] = Dues(WaitingRows(d))
         /\ Waiting'[d] = Dues({f \in frames'[d] : ~f.acked /\ f.expires > now'})
<1>3. Waiting[d] = Dues(WaitingRows(d))
  BY DEF Waiting, WaitingRows, Dues
<1>4. Waiting'[d] = Dues({f \in frames'[d] : ~f.acked /\ f.expires > now'})
  <2>1. {g \in {f \in frames'[d] : ~f.acked} : g.expires > now'}
          = {f \in frames'[d] : ~f.acked /\ f.expires > now'}
    OBVIOUS
  <2>2. Waiting'[d] = {Due(f) : f \in {g \in {f \in frames'[d] : ~f.acked} : g.expires > now'}}
    BY DEF Waiting, Unacked, Live, LiveAt, Due
  <2> QED  BY <2>1, <2>2 DEF Dues
<1> QED  BY <1>3, <1>4

\* Frames of d leave from the head.
LEMMA DropsHead ==
  ASSUME TypeOK, RowsOrdered, CursorCovers, now' = now, NEW d \in Devices,
         Shrinks(d) \/ Acknowledges(d)
  PROVE  LastCursor'[d] = LastCursor[d] /\ \E k \in 0..LastCursor[d] : Waiting'[d] = Mailbox!Above(Waiting[d], k)
<1> DEFINE W == {f \in frames'[d] : ~f.acked /\ f.expires > now'}
           V(k) == {f \in WaitingRows(d) : f.cursor > k}
<1>1. LastCursor'[d] = LastCursor[d]
  BY DEF Shrinks, Acknowledges, LastCursor
<1>2. ASSUME NEW k \in 0..LastCursor[d], W = V(k)
      PROVE  \E c \in 0..LastCursor[d] : Waiting'[d] = Mailbox!Above(Waiting[d], c)
  <2>1. Waiting'[d] = Dues(V(k))
    BY <1>2, WaitingIs
  <2>2. Mailbox!Above(Waiting[d], k) = Dues(V(k))
    <3>1. Mailbox!Above(Dues(WaitingRows(d)), k) = Dues({f \in WaitingRows(d) : f.cursor > k})
      BY DuesAbove
    <3> QED  BY <3>1, WaitingIs
  <2>3. Waiting'[d] = Mailbox!Above(Waiting[d], k)
    BY <2>1, <2>2
  <2> QED  BY <2>3
<1>3. CASE Shrinks(d) /\ frames'[d] = {}
  <2>1. W = V(LastCursor[d])
    BY <1>3, RowsIssued DEF WaitingRows, Unacked
  <2>2. LastCursor[d] \in 0..LastCursor[d]
    BY RowsIssued
  <2> HIDE DEF W, V
  <2> QED  BY <1>1, <1>2, <2>1, <2>2
<1>4. CASE Shrinks(d) /\ \A f \in Unacked(frames[d]) : Live(f) => f \in frames'[d]
  <2>1. W = V(0)
    BY <1>4, RowsIssued DEF WaitingRows, Unacked, Shrinks, Live, LiveAt
  <2>2. 0 \in 0..LastCursor[d]
    BY RowsIssued
  <2> HIDE DEF W, V
  <2> QED  BY <1>1, <1>2, <2>1, <2>2
<1>5. CASE Acknowledges(d)
  <2>1. PICK c \in Nat : c <= cursor[d] /\ frames'[d] = AckedThrough(frames[d], c)
    BY <1>5 DEF Acknowledges
  <2>3. c \in 0..LastCursor[d]
    BY <2>1, RowsIssued DEF CursorCovers, TypeOK, DeviceRows
  <2>5. ASSUME NEW f \in frames[d]
        PROVE  /\ Marked(f, c).acked <=> (f.acked \/ f.cursor <= c)
               /\ f.cursor > c => Marked(f, c) = f
               /\ f.cursor \in Nat
    <3>1. f \in Rows /\ f.cursor \in Nat
      BY RowsIssued
    <3> QED  BY <3>1, MarkedRow
  <2>6. ASSUME NEW g \in W PROVE g \in V(c)
    <3>1. PICK f \in frames[d] : g = Marked(f, c)
      BY <2>1 DEF AckedThrough
    <3>2. ~f.acked /\ f.cursor > c
      BY <2>5, <3>1
    <3> QED  BY <2>5, <3>1, <3>2 DEF WaitingRows, Unacked, Live, LiveAt
  <2>7. ASSUME NEW g \in V(c) PROVE g \in W
    <3>1. g \in frames[d] /\ ~g.acked /\ g.expires > now /\ g.cursor > c
      BY DEF WaitingRows, Unacked, Live, LiveAt
    <3>2. g \in frames'[d]
      BY <2>1, <2>5, <3>1 DEF AckedThrough
    <3> QED  BY <3>1, <3>2
  <2>8. W = V(c)
    BY <2>6, <2>7
  <2> HIDE DEF W, V
  <2> QED  BY <1>1, <1>2, <2>3, <2>8
<1> QED  BY <1>3, <1>4, <1>5 DEF Shrinks

\* With a row that fits, Kept leaves the newer ones too.
LEMMA KeptTail ==
  ASSUME NEW S, S \subseteq Rows, IsFiniteSet(S), NEW size \in Nat, NEW t,
         NEW f \in Kept(S, size, t), NEW g \in Unacked(S), LiveAt(g, t), f.cursor <= g.cursor
  PROVE  g \in Kept(S, size, t)
<1> DEFINE rest == {x \in Unacked(S) : LiveAt(x, t)}
           F == {x \in rest : x.cursor >= f.cursor}
           G == {x \in rest : x.cursor >= g.cursor}
<1>1. \A x \in rest : x \in S /\ x.cursor \in Nat
  BY DEF Unacked, Rows
<1>2. f \in rest /\ g \in rest /\ Bytes(F) + size <= MaxBytes
  BY DEF Kept
<1>3. F \in SUBSET S /\ G \in SUBSET F
  BY <1>1, <1>2
<1>4. F \subseteq Rows /\ IsFiniteSet(F)
  <2> HIDE DEF F
  <2> QED  BY <1>3, FS_Subset
<1>5. Bytes(F) \in Nat /\ Bytes(G) \in Nat /\ Bytes(G) <= Bytes(F)
  <2> HIDE DEF F, G
  <2> QED  BY <1>3, <1>4, BytesSubset
<1>6. Bytes(G) + size <= MaxBytes
  <2> HIDE DEF F, G
  <2> QED  BY <1>2, <1>5, StoreAssumption
<1> QED  BY <1>2, <1>6 DEF Kept

\* A frame that is appended joins the queue of its device at the tail.
LEMMA AppendPuts ==
  ASSUME TypeOK, RowsOrdered, NEW d \in Devices, Appends(d)
  PROVE  Mailbox!Put(d)
<1>1. PICK env \in Envelopes, t \in 0..now :
        /\ CanAppend(d, env)
        /\ frames'[d] = Kept(frames[d], SizeOf[env], t) \cup {Row(d, env, t)}
  BY AppendsTo
<1> DEFINE K == {f \in Kept(frames[d], SizeOf[env], t) : Live(f)}
           r == Row(d, env, t)
           e == t + TTL
           R == Mailbox!Ahead({Mailbox!Frame(LastCursor[d] + 1, e)}, now)
<1>2. /\ device[d].next \in Nat \ {0} /\ now \in Nat /\ TTL \in Nat \ {0} /\ now' = now
      /\ SizeOf[env] \in Nat /\ t \in Nat /\ t <= now
  BY StoreAssumption DEF TypeOK, DeviceRows, Appends
<1>3. LastCursor' = [LastCursor EXCEPT ![d] = @ + 1] /\ LastCursor[d] + 1 = device[d].next
  <2>1. \A x \in Devices : LastCursor'[x] = IF x = d THEN LastCursor[d] + 1 ELSE LastCursor[x]
    BY <1>2, AppendsTo DEF LastCursor
  <2>2. LastCursor \in [Devices -> {LastCursor[x] : x \in Devices}] /\ DOMAIN LastCursor' = Devices
    BY DEF LastCursor
  <2>3. LastCursor' = [x \in Devices |-> LastCursor'[x]]
    BY DEF LastCursor
  <2>4. LastCursor[d] + 1 = device[d].next
    BY <1>2 DEF LastCursor
  <2> QED  BY <2>1, <2>2, <2>3, <2>4
<1>4. Waiting'[d] = Dues(K) \cup R
  <2> DEFINE last == {f \in {r} : f.expires > now}
  <2>1. \A f \in Kept(frames[d], SizeOf[env], t) : ~f.acked
    BY KeptRows DEF Unacked
  <2>2. ~r.acked /\ r.expires = e /\ r.cursor = LastCursor[d] + 1
    BY <1>3, RowIs
  <2>3. {f \in frames'[d] : ~f.acked /\ f.expires > now'} = K \cup last
    BY <1>1, <1>2, <2>1, <2>2 DEF Live, LiveAt
  <2>4. Waiting'[d] = Dues(K \cup last)
    BY <2>3, WaitingIs
  <2>5. Due(r) = Mailbox!Frame(LastCursor[d] + 1, e)
    BY <2>2 DEF Due, Mailbox!Frame
  <2>6. Dues(last) = R
    <3>1. Dues({r}) = {Due(r)}
      BY DEF Dues
    <3>2. Dues(last) = Mailbox!Ahead(Dues({r}), now)
      BY DuesAbove
    <3> QED  BY <2>5, <3>1, <3>2
  <2> HIDE DEF K, r, R, last
  <2>7. Dues(K \cup last) = Dues(K) \cup Dues(last)
    BY DEF Dues
  <2> QED  BY <2>4, <2>6, <2>7
<1>5. \A x \in Devices \ {d} : Waiting'[x] = Waiting[x]
  <2>1. \A x \in Devices \ {d} : frames'[x] = frames[x]
    BY AppendsTo
  <2>2. ASSUME NEW x \in Devices \ {d} PROVE Waiting'[x] = Waiting[x]
    <3>1. {f \in frames'[x] : ~f.acked /\ f.expires > now'} = WaitingRows(x)
      BY <1>2, <2>1 DEF WaitingRows, Unacked, Live, LiveAt
    <3> QED  BY <3>1, WaitingIs
  <2> QED  BY <2>2
<1>7. IsTail(K, WaitingRows(d))
  <2>1. K \subseteq WaitingRows(d)
    BY KeptRows DEF WaitingRows
  <2>2. \A f \in K, g \in WaitingRows(d) : f.cursor <= g.cursor => g \in K
    <3>1. ASSUME NEW f \in K, NEW g \in WaitingRows(d), f.cursor <= g.cursor PROVE g \in K
      <4>1. g \in Unacked(frames[d]) /\ Live(g) /\ g.expires \in Nat
        BY RowsIssued DEF WaitingRows, Unacked, Rows
      <4>2. LiveAt(g, t)
        BY <1>2, <4>1 DEF Live, LiveAt
      <4>3. g \in Kept(frames[d], SizeOf[env], t)
        BY <1>2, <3>1, <4>1, <4>2, KeptTail, TableFinite
      <4> QED  BY <4>1, <4>3
    <3> QED  BY <3>1
  <2> HIDE DEF K
  <2> QED  BY <2>1, <2>2 DEF IsTail
<1>8. PICK k \in 0..LastCursor[d] : K = {f \in WaitingRows(d) : f.cursor > k}
  <2> DEFINE Q == WaitingRows(d)
             n == LastCursor[d]
  <2>1. n \in Nat /\ \A f \in Q : f.cursor \in 1..n
    BY RowsIssued DEF WaitingRows, Unacked
  <2>2. IsTail(K, Q)
    BY <1>7
  <2> HIDE DEF K, Q, n
  <2>3. \E k \in 0..n : K = {f \in Q : f.cursor > k}
    BY <2>1, <2>2, TailIsAbove
  <2> QED  BY <2>3 DEF Q, n
<1>9. Dues(K) = Mailbox!Above(Waiting[d], k)
  <2>1. Mailbox!Above(Dues(WaitingRows(d)), k) = Dues({f \in WaitingRows(d) : f.cursor > k})
    BY DuesAbove
  <2> HIDE DEF K
  <2> QED  BY <1>8, <2>1, WaitingIs
<1>10. Waiting' = [Waiting EXCEPT ![d] = Mailbox!Above(@, k) \cup R]
  <2> HIDE DEF K, R
  <2> QED  BY <1>4, <1>5, <1>9 DEF Waiting
<1>11. e \in 1..(now + TTL)
  BY <1>2
<1> HIDE DEF K, r, e
<1>12. \E c \in 0..LastCursor[d], x \in 1..(now + TTL) :
         Waiting' = [Waiting EXCEPT ![d] = Mailbox!Above(@, c)
                       \cup Mailbox!Ahead({Mailbox!Frame(LastCursor[d] + 1, x)}, now)]
  BY <1>10, <1>11
<1> QED  BY <1>2, <1>3, <1>12 DEF Mailbox!Put

\* Time takes the frames that are due.
LEMMA TimePasses ==
  ASSUME TypeOK, RowsOrdered, now' = now + 1, UNCHANGED <<device, frames>>
  PROVE  Mailbox!Pass
<1>1. LastCursor' = LastCursor
  BY DEF LastCursor
<1>2. ASSUME NEW d \in Devices PROVE Waiting'[d] = Mailbox!Ahead(Waiting[d], now')
  <2>1. \A f \in frames[d] : f.expires \in Nat /\ now \in Nat
    BY RowsIssued DEF Rows, TypeOK
  <2>2. {f \in frames'[d] : ~f.acked /\ f.expires > now'} = {f \in WaitingRows(d) : f.expires > now'}
    BY <2>1 DEF WaitingRows, Unacked, Live, LiveAt
  <2>3. PICK t : t = now'
    OBVIOUS
  <2>4. Mailbox!Ahead(Dues(WaitingRows(d)), t) = Dues({f \in WaitingRows(d) : f.expires > t})
    BY DuesAbove
  <2> QED  BY <2>2, <2>3, <2>4, WaitingIs
<1>3. Waiting' = [d \in Devices |-> Mailbox!Ahead(Waiting[d], now')]
  BY <1>2 DEF Waiting
<1> QED  BY <1>1, <1>3 DEF Mailbox!Pass

\* Every step of the store is one of the queues, or none.
LEMMA QueueStep ==
  ASSUME TypeOK, RowsOrdered, CursorCovers, TableStep
  PROVE  Mailbox!Next
<1>1. CASE \E d \in Devices : Appends(d)
  BY <1>1, AppendPuts DEF Mailbox!Next
<1>2. CASE now' = now + 1 /\ UNCHANGED <<device, frames>>
  BY <1>2, TimePasses DEF Mailbox!Next
<1>3. CASE now' = now /\ \A d \in Devices : Shrinks(d) \/ Acknowledges(d)
  <2>1. \A d \in Devices :
          /\ LastCursor'[d] = LastCursor[d]
          /\ \E k \in 0..LastCursor[d] : Waiting'[d] = Mailbox!Above(Waiting[d], k)
    BY <1>3, DropsHead
  <2>2. LastCursor' = LastCursor
    BY <2>1 DEF LastCursor
  <2>3. Waiting' = [d \in Devices |-> Waiting'[d]]
    BY DEF Waiting
  <2>4. Mailbox!Drop
    BY <1>3, <2>1, <2>2, <2>3 DEF Mailbox!Drop
  <2> QED  BY <2>4 DEF Mailbox!Next
<1> QED  BY <1>1, <1>2, <1>3 DEF TableStep

-----------------------------------------------------------------------------
(* The theorems.                                                           *)

Inv == RowsInv /\ CapacityKept

\* A fresh store satisfies the invariant.
LEMMA InvInit == StoreInit => Inv
<1> SUFFICES ASSUME StoreInit PROVE Inv
  OBVIOUS
<1> USE DEF StoreInit
<1>1. TypeOK
  BY DEF TypeOK, DeviceRows
<1>2. RowsOrdered /\ TimesPast /\ RevokedEmpty /\ AckedWasApplied
  BY DEF RowsOrdered, Ordered, TimesPast, Idle, RevokedEmpty, AckedWasApplied
<1>3. CursorCovers
  BY DEF CursorCovers
<1>4. CallsLag
  BY DEF CallsLag, Idle
<1>5. CapacityKept
  <2>1. ASSUME NEW d \in Devices PROVE Bytes(Unacked(frames[d])) = 0
    <3>1. Unacked(frames[d]) = {}
      BY DEF Unacked
    <3>2. DOMAIN [f \in {} |-> SizeOf[f.env]] = {}
      OBVIOUS
    <3> QED  BY <3>1, <3>2, SumEmpty DEF Bytes, SumFunction
  <2> QED  BY <2>1, StoreAssumption DEF CapacityKept
<1> QED  BY <1>1, <1>2, <1>3, <1>4, <1>5 DEF Inv, RowsInv

\* Every step of the store and of its devices keeps the invariant.
LEMMA InvStep == Inv /\ [StoreNext]_storeVars => Inv'
<1> SUFFICES ASSUME Inv, [StoreNext]_storeVars PROVE Inv'
  OBVIOUS
<1> USE DEF Inv, RowsInv
<1>1. TableStep
  BY TablesChange
<1> QED  BY <1>1, TypeStep, OrderStep, TimesStep, CoverStep, CallsStep, RevokedStep, AckedStep, CapacityStep

\* The tables, the requests under way and what the device keeps are of their types.
THEOREM TypeCorrect == StoreSpec => []TypeOK
<1>1. Inv => TypeOK
  BY DEF Inv, RowsInv
<1> QED  BY <1>1, InvInit, InvStep, PTL DEF StoreSpec

\* A revoked device has no frames in the store.
THEOREM RevokedSafe == StoreSpec => []RevokedEmpty
<1>1. Inv => RevokedEmpty
  BY DEF Inv, RowsInv
<1> QED  BY <1>1, InvInit, InvStep, PTL DEF StoreSpec

\* The mailbox of a device never takes more than its capacity.
THEOREM CapacitySafe == StoreSpec => []CapacityKept
<1>1. Inv => CapacityKept
  BY DEF Inv
<1> QED  BY <1>1, InvInit, InvStep, PTL DEF StoreSpec

\* An acknowledgement covers only what the device has applied.
THEOREM AckedSafe == StoreSpec => []AckedWasApplied
<1>1. Inv => AckedWasApplied
  BY DEF Inv, RowsInv
<1> QED  BY <1>1, InvInit, InvStep, PTL DEF StoreSpec

\* The store implements MailboxQueue.
THEOREM StoreIsQueue == StoreSpec => ImplementsQueue
<1>1. StoreInit => Mailbox!Init
  <2> SUFFICES ASSUME StoreInit PROVE Mailbox!Init
    OBVIOUS
  <2>1. LastCursor = [d \in Devices |-> 0]
    BY DEF StoreInit, LastCursor
  <2>2. Waiting = [d \in Devices |-> {}]
    BY DEF StoreInit, Waiting, Unacked
  <2> QED  BY <2>1, <2>2 DEF StoreInit, Mailbox!Init
<1>2. Inv /\ [StoreNext]_storeVars => [Mailbox!Next]_<<Waiting, LastCursor, now>>
  BY TablesChange, QueueStep DEF Inv, RowsInv
<1> QED  BY <1>1, <1>2, InvInit, InvStep, PTL DEF StoreSpec, ImplementsQueue, Mailbox!Spec
=============================================================================

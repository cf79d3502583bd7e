-------------------------- MODULE RelayMailboxStore --------------------------
(***************************************************************************)
(* The offline mailbox of one route of the relay server: the tables        *)
(* route_devices and mailbox_frames of relay-server/internal/relay/        *)
(* store.go, the HTTP handlers of server.go that read and change them, the *)
(* bridge's read loop where it appends a frame, and the clean-up ticker of *)
(* main.go.                                                                *)
(*                                                                         *)
(* The pool has one connection (SetMaxOpenConns(1)), so a statement or a   *)
(* transaction is one step; a handler is as many steps as it has           *)
(* statements, and the steps of handlers interleave. A handler calls       *)
(* time.Now() before it waits for the connection, so the time a statement  *)
(* works with may be older than the statement. The tables survive a crash  *)
(* of the server, the handlers do not. The clock does not run backwards.   *)
(* Nothing revokes a route, so the route is active.                        *)
(*                                                                         *)
(* The device is the phone's application, external: it keeps a durable     *)
(* cursor, asks for what lies above it, applies what it receives in the    *)
(* order of the cursors and acknowledges through the cursor it has reached.*)
(***************************************************************************)
EXTENDS Integers, FiniteSets, FiniteSetsExt, Functions

CONSTANTS
  Devices,
  Slots,       \* handlers of the devices' HTTP requests that may run at a time
  Peers,       \* the bridge's websockets, in the order it dials them: 1..n
  Envelopes,   \* what a frame carries
  SizeOf,      \* [Envelopes -> Nat], bytes
  MaxBytes,    \* Config.MaxMailboxBytes
  TTL,         \* Config.MailboxTTL, in ticks of the clock
  FetchLimit,  \* frames of one FetchFrames
  MaxTime,     \* bound: the clock
  MaxCursor,   \* bound: frames appended for a device
  MaxEvents    \* bound: registrations, revocations and crashes

ASSUME StoreAssumption ==
  /\ SizeOf \in [Envelopes -> Nat \ {0}]
  /\ Peers \subseteq Nat \ {0}
  /\ MaxBytes \in Nat /\ TTL \in Nat \ {0} /\ FetchLimit \in Nat \ {0}
  /\ MaxTime \in Nat /\ MaxCursor \in Nat /\ MaxEvents \in Nat

VARIABLES
  now,      \* time.Now().Unix()
  device,   \* route_devices: [Devices -> [known, revoked, auth, next]]
  frames,   \* mailbox_frames: [Devices -> set of rows]
  call,     \* [Slots -> the request a handler works on]
  peer,     \* [Peers -> "new", "open" or "closed"], the bridge's websockets as the server sees them
  inHand,   \* [Peers -> the frame its read loop has found an active destination for]
  held,     \* the credential a device holds
  cursor,   \* the device's durable cursor
  applied,  \* the cursors of the frames the device has applied
  events    \* registrations, revocations and crashes so far

tables  == <<device, frames>>
phone   == <<held, cursor, applied>>
storeVars == <<now, tables, call, peer, inHand, phone, events>>

Nothing == [dev |-> "none"]
Idle    == [op |-> "idle"]

\* deviceActive: the WHERE clause of DeviceActive, AuthenticateDevice and AppendFrame.
DeviceActive(d) == device[d].known /\ ~device[d].revoked

LiveAt(f, t) == f.expires > t
Live(f)   == LiveAt(f, now)
Unacked(S) == {f \in S : ~f.acked}
Cursors(S) == {f.cursor : f \in S}
Bytes(S)  == SumFunction([f \in S |-> SizeOf[f.env]])

StoreInit ==
  /\ now = 0
  /\ device = [d \in Devices |-> [known |-> FALSE, revoked |-> FALSE, auth |-> 0, next |-> 1]]
  /\ frames = [d \in Devices |-> {}]
  /\ call = [s \in Slots |-> Idle]
  /\ peer = [p \in Peers |-> "new"]
  /\ inHand = [p \in Peers |-> Nothing]
  /\ held = [d \in Devices |-> 0]
  /\ cursor = [d \in Devices |-> 0]
  /\ applied = [d \in Devices |-> {}]
  /\ events = 0

Tick == now < MaxTime /\ now' = now + 1 /\ UNCHANGED <<tables, call, peer, inHand, phone, events>>

-----------------------------------------------------------------------------
(* The bridge's requests. *)

\* Mutant: INSERT OR REPLACE, which starts the cursors again.
Registered_FromOne(row) ==
  [row EXCEPT !.known = TRUE, !.revoked = FALSE, !.auth = @ + 1, !.next = 1]

\* The row a registration leaves: a new credential, and the cursor it had.
Registered(row) == [row EXCEPT !.known = TRUE, !.revoked = FALSE, !.auth = @ + 1]

\* handleRegisterDevice and RegisterDevice. The new credential reaches the device
\* with the bridge's answer to its pairing, or is lost on the way.
RegisterDevice(d) ==
  /\ events < MaxEvents
  /\ events' = events + 1
  /\ device' = [device EXCEPT ![d] = Registered(@)]
  /\ held' \in {held, [held EXCEPT ![d] = device[d].auth + 1]}
  /\ UNCHANGED <<now, frames, call, peer, inHand, cursor, applied>>

\* handleRevokeDevice and RevokeDevice: the row and the mailbox, in one transaction.
RevokeDevice(d) ==
  /\ events < MaxEvents
  /\ DeviceActive(d)
  /\ events' = events + 1
  /\ device' = [device EXCEPT ![d].revoked = TRUE]
  /\ frames' = [frames EXCEPT ![d] = {}]
  /\ UNCHANGED <<now, call, peer, inHand, phone>>

\* handleBridgeSocket and setBridge: the socket that was registered is closed. Its
\* read loop may still hold a frame, and carries it through.
BridgeConnects(p) ==
  /\ peer[p] = "new" /\ \A q \in Peers : q < p => peer[q] # "new"
  /\ peer' = [q \in Peers |-> IF q = p THEN "open" ELSE IF peer[q] = "open" THEN "closed" ELSE peer[q]]
  /\ UNCHANGED <<now, tables, call, inHand, phone, events>>

\* readBridgeFrames: a mailbox envelope for an active device; one for another device
\* ends the bridge's socket.
ReadBridgeFrame(p, d, env) ==
  /\ peer[p] = "open" /\ inHand[p] = Nothing
  /\ IF DeviceActive(d)
     THEN inHand' = [inHand EXCEPT ![p] = [dev |-> d, env |-> env, read |-> now]] /\ UNCHANGED peer
     ELSE peer' = [peer EXCEPT ![p] = "closed"] /\ UNCHANGED inHand
  /\ UNCHANGED <<now, tables, call, phone, events>>

\* Mutant: nothing makes room.
Kept_All(S, size, t) == {f \in Unacked(S) : LiveAt(f, t)}

\* What stays of a mailbox when a frame of size bytes joins it at the time t: nothing
\* expired or acknowledged, and of the rest the newest that fit with it.
Kept(S, size, t) ==
  LET rest == {f \in Unacked(S) : LiveAt(f, t)}
  IN {f \in rest : Bytes({g \in rest : g.cursor >= f.cursor}) + size <= MaxBytes}

\* The row INSERTed.
Row(d, env, t) == [cursor |-> device[d].next, env |-> env, expires |-> t + TTL, acked |-> FALSE]

\* Mutant: the read loop's look at the device is taken for the transaction's.
CanAppend_Checked(d, env) == SizeOf[env] <= MaxBytes

\* A frame too large, or for a device that is not active any more, is refused.
CanAppend(d, env) == SizeOf[env] <= MaxBytes /\ DeviceActive(d)

\* AppendFrame, one transaction, and what readBridgeFrames does with its result. The
\* time is one that readBridgeFrames read after it had looked at the device.
AppendFrame(p) ==
  /\ inHand[p] # Nothing
  /\ LET d == inHand[p].dev
         env == inHand[p].env
     IN IF CanAppend(d, env)
        THEN /\ device[d].next <= MaxCursor
             /\ \E t \in inHand[p].read..now :
                  frames' = [frames EXCEPT ![d] = Kept(@, SizeOf[env], t) \cup {Row(d, env, t)}]
             /\ device' = [device EXCEPT ![d].next = @ + 1]
             /\ UNCHANGED peer
        ELSE peer' = [peer EXCEPT ![p] = "closed"] /\ UNCHANGED tables
  /\ inHand' = [inHand EXCEPT ![p] = Nothing]
  /\ UNCHANGED <<now, call, phone, events>>

-----------------------------------------------------------------------------
(* The device's requests: authentication is a statement of its own. *)

Authenticate(s, d, request) ==
  /\ call[s] = Idle
  /\ DeviceActive(d) /\ held[d] = device[d].auth
  /\ call' = [call EXCEPT ![s] = request]
  /\ UNCHANGED <<now, tables, peer, inHand, phone, events>>

\* handleFetchMailbox, the device asking for what lies above its cursor.
RequestFetch(s, d) == Authenticate(s, d, [op |-> "fetch", dev |-> d, after |-> cursor[d], at |-> now])

\* handleAckMailbox; through = 0 is refused.
RequestAck(s, d) == cursor[d] > 0 /\ Authenticate(s, d, [op |-> "ack", dev |-> d, through |-> cursor[d]])

\* The first n of S by cursor: ORDER BY cursor LIMIT n.
FirstByCursor(S, n) == {f \in S : Cardinality({g \in S : g.cursor <= f.cursor}) <= n}

Selected(d, after, t) ==
  FirstByCursor({f \in Unacked(frames[d]) : f.cursor > after /\ LiveAt(f, t)}, FetchLimit)

\* FetchFrames, its DELETE, with a time read after the authentication.
DeleteExpired(s) ==
  /\ call[s].op = "fetch"
  /\ \E t \in call[s].at..now :
       /\ frames' = [frames EXCEPT ![call[s].dev] = {f \in @ : LiveAt(f, t)}]
       /\ call' = [call EXCEPT ![s] = [@ EXCEPT !.op = "select", !.at = t]]
  /\ UNCHANGED <<now, device, peer, inHand, phone, events>>

\* FetchFrames, its SELECT, with the same time.
SelectFrames(s) ==
  /\ call[s].op = "select"
  /\ LET d == call[s].dev
     IN call' = [call EXCEPT ![s] =
          [op |-> "reply", dev |-> d, frames |-> Selected(d, call[s].after, call[s].at)]]
  /\ UNCHANGED <<now, tables, peer, inHand, phone, events>>

\* The device receives the frames and applies the ones above its cursor.
ReceiveFrames(s) ==
  /\ call[s].op = "reply"
  /\ LET d == call[s].dev
         new == {f \in call[s].frames : f.cursor > cursor[d]}
     IN /\ applied' = [applied EXCEPT ![d] = @ \cup Cursors(new)]
        /\ cursor' = [cursor EXCEPT ![d] = Max(Cursors(new) \cup {@})]
  /\ call' = [call EXCEPT ![s] = Idle]
  /\ UNCHANGED <<now, tables, peer, inHand, held, events>>

\* The request or its answer is lost: the device's connection breaks.
LoseCall(s) ==
  /\ call[s] # Idle
  /\ call' = [call EXCEPT ![s] = Idle]
  /\ UNCHANGED <<now, tables, peer, inHand, phone, events>>

\* Mutant: cursor <= through + 1.
AckFrames_Next(s) ==
  /\ call[s].op = "ack"
  /\ LET d == call[s].dev
     IN frames' = [frames EXCEPT ![d] =
          {IF f.cursor <= call[s].through + 1 THEN [f EXCEPT !.acked = TRUE] ELSE f : f \in @}]
  /\ call' = [call EXCEPT ![s] = Idle]
  /\ UNCHANGED <<now, device, peer, inHand, phone, events>>

\* AckFrames.
AckFrames(s) ==
  /\ call[s].op = "ack"
  /\ LET d == call[s].dev
     IN frames' = [frames EXCEPT ![d] =
          {IF f.cursor <= call[s].through THEN [f EXCEPT !.acked = TRUE] ELSE f : f \in @}]
  /\ call' = [call EXCEPT ![s] = Idle]
  /\ UNCHANGED <<now, device, peer, inHand, phone, events>>

-----------------------------------------------------------------------------
\* cleanupMailbox and ExpireFrames, with the time at which the ticker fired.
ExpireFrames ==
  /\ \E t \in 0..now : frames' = [d \in Devices |-> {f \in Unacked(frames[d]) : LiveAt(f, t)}]
  /\ frames' # frames
  /\ UNCHANGED <<now, device, call, peer, inHand, phone, events>>

\* The server stops and starts again: OpenStore finds the tables as they were.
CrashServer ==
  /\ events < MaxEvents
  /\ events' = events + 1
  /\ call' = [s \in Slots |-> Idle]
  /\ inHand' = [p \in Peers |-> Nothing]
  /\ peer' = [p \in Peers |-> IF peer[p] = "open" THEN "closed" ELSE peer[p]]
  /\ UNCHANGED <<now, tables, phone>>

DeviceNext(s) ==
  \/ \E d \in Devices : RequestFetch(s, d) \/ RequestAck(s, d)
  \/ DeleteExpired(s) \/ SelectFrames(s) \/ ReceiveFrames(s) \/ LoseCall(s) \/ AckFrames(s)

StoreNext ==
  \/ Tick \/ ExpireFrames \/ CrashServer
  \/ \E d \in Devices : RegisterDevice(d) \/ RevokeDevice(d)
  \/ \E p \in Peers : BridgeConnects(p) \/ AppendFrame(p)
  \/ \E p \in Peers, d \in Devices, env \in Envelopes : ReadBridgeFrame(p, d, env)
  \/ \E s \in Slots : DeviceNext(s)

StoreSpec == StoreInit /\ [][StoreNext]_storeVars

-----------------------------------------------------------------------------
(* Properties. *)

\* A revoked device has no frames in the store, whatever request of the bridge or of
\* the device was half done when it was revoked (RevokeDevice, AppendFrame).
RevokedEmpty == \A d \in Devices : device[d].revoked => frames[d] = {}

\* The frames a device has yet to acknowledge never take more than the mailbox's
\* capacity, also after evictions, expiry and late acknowledgements (AppendFrame).
CapacityKept == \A d \in Devices : Bytes(Unacked(frames[d])) <= MaxBytes

\* An acknowledgement never covers a frame that is still due and that the device has not
\* applied: not when the answer to a fetch was lost or cut by the limit, not when a frame
\* joined between the two statements of a fetch, and not when it is carried out after the
\* device was revoked and registered again (AckFrames, FetchFrames, RegisterDevice).
AckedWasApplied ==
  \A d \in Devices : \A f \in frames[d] : f.acked /\ Live(f) => f.cursor \in applied[d]

\* The store is a queue for every device: what waits for it are the unacknowledged
\* rows that have not expired.
Due(f)  == [cursor |-> f.cursor, expires |-> f.expires]
Waiting == [d \in Devices |-> {Due(f) : f \in {g \in Unacked(frames[d]) : Live(g)}}]
LastCursor  == [d \in Devices |-> device[d].next - 1]
Mailbox == INSTANCE MailboxQueue WITH queued <- Waiting, issued <- LastCursor, clock <- now

\* The tables and every handler implement that queue: frames join at the tail under
\* fresh cursors, and leave from the head or because their time is over, whatever times
\* the handlers work with (AppendFrame, AckFrames, ExpireFrames, RevokeDevice,
\* RegisterDevice).
ImplementsQueue == Mailbox!Spec
=============================================================================

-------------------------- MODULE RelayDeviceChannel --------------------------
(***************************************************************************)
(* One online device connection (RelayDeviceConn, go-bridge/relay_conn.go, *)
(* relay_bulk_state.go, relay_bulk_correlation.go) between its inbound     *)
(* scheduler and the unified writer: how a request is admitted, how a      *)
(* newer history read supersedes an older one at every stage of its life,  *)
(* how a bulk result becomes a chunk group, and how cancel, completion and *)
(* Close clean up after it.                                                *)
(*                                                                         *)
(* The composition with RelayInboundScheduler is by conjunction: its       *)
(* actions take the messages in and out, and the scheduler's callbacks run *)
(* inside them, under its mutex.  The writer is reduced to what the        *)
(* connection sees of it: admitBulk may accept, overflow or be closed, run *)
(* begins, and later ends, the groups it holds, one at a time, and when it *)
(* is stopped fails those that are left.  RelayOutboundWriter is the full  *)
(* model of it.                                                            *)
(*                                                                         *)
(* Requests are bulk requests (history reads and read_file_v2); a history  *)
(* read is answered inside dispatch, a file read by a worker, at any time  *)
(* after dispatch, or not at all.  A renewed request has a fresh ID.       *)
(***************************************************************************)
EXTENDS RelayInboundScheduler

CONSTANTS
  Corrs, NoCorr,
  CorrsOf,                 \* the bulkCorrelationIds that a request may come with
  MaxActive, MaxRetired,   \* caps of the correlation registry
  MaxGen,                  \* bound on sessionBulkGenerations
  MaxRequests,             \* bound on the requests of the device at one time
  MaxUses                  \* bound: requests name a correlation until so many groups did

ASSUME ChannelAssumption ==
  /\ NoCorr \notin Corrs
  /\ CorrsOf \in [Msgs -> SUBSET (Corrs \cup {NoCorr})]
  /\ \A m \in Msgs : IsHistory[m] => CorrsOf[m] = {NoCorr}
  /\ MaxActive \in Nat /\ MaxRetired \in Nat
  /\ MaxGen \in Nat /\ MaxRequests \in Nat /\ MaxUses \in Nat

VARIABLES
  closed,        \* rc.closed
  reader,        \* the request the reader is handling
  classes,       \* the domain of requestClasses
  methods,       \* the domain of requestMethods
  corrs,         \* requestBulkCorrelations: the correlation, or NoCorr
  contexts,      \* bulkRequestContexts: the generation, 0 for no entry
  gens,          \* sessionBulkGenerations
  activeHandle,  \* activeBulkHandles: the request whose handle it is
  reqHandles,    \* the domain of requestBulkHandles
  corrActive, corrRetired,
  hp,            \* where the request, and then the reply to it, is
  ctx,           \* SendResult's bulkContext.generation, 0 for none
  corr,          \* SendResult's bulkCorrelationID
  handle,        \* the state of the group's handle
  group,         \* what the writer does with the group
  writer,        \* run of the writer: "open", "stopped" or, queue failed, "gone"
  uses           \* how many groups the correlation was admitted for

entries  == <<classes, methods, corrs, contexts>>
maps     == <<entries, gens, activeHandle, reqHandles>>
registry == <<corrActive, corrRetired, uses>>
reply    == <<hp, ctx, corr>>
bulk     == <<handle, group>>
connVars == <<closed, reader, maps, registry, reply, bulk, writer>>
vars     == <<schedVars, connVars>>

Arriving == {"none", "received", "registered"}
Replying == {"taken", "correlate", "install", "admit"}

Init ==
  /\ SchedInit
  /\ closed = FALSE /\ reader = NoMsg
  /\ classes = {} /\ methods = {} /\ reqHandles = {}
  /\ corrs = [m \in Msgs |-> NoCorr]
  /\ contexts = [m \in Msgs |-> 0]
  /\ gens = [k \in Keys |-> 0]
  /\ activeHandle = [k \in Keys |-> NoMsg]
  /\ corrActive = {} /\ corrRetired = {}
  /\ uses = [x \in Corrs |-> 0]
  /\ hp = [m \in Msgs |-> "none"]
  /\ ctx = [m \in Msgs |-> 0]
  /\ corr = [m \in Msgs |-> NoCorr]
  /\ handle = [m \in Msgs |-> "none"]
  /\ group = [m \in Msgs |-> "none"]
  /\ writer = "open"

\* OutboundBulkHandle.Cancel on the handles of S.
CancelAll(S) ==
  [m \in Msgs |-> IF m \in S /\ handle[m] = "active" THEN "cancelled" ELSE handle[m]]

\* RelayDeviceConn.Close under rc.mu.  requestMethods, requestBulkCorrelations and
\* requestBulkHandles stay.
CloseEffect ==
  /\ closed' = TRUE
  /\ classes' = {}
  /\ contexts' = [m \in Msgs |-> 0]
  /\ handle' = CancelAll({activeHandle[k] : k \in Keys})
  /\ activeHandle' = [k \in Keys |-> NoMsg]

----------------------------------------------------------------------------
(* The reader: handleInboundEnvelope.                                      *)

\* ReceiveJSON finds the connection open.
Receive(m) ==
  /\ ~closed /\ reader = NoMsg /\ ~signalling
  /\ ~sent[m] /\ hp[m] = "none"
  /\ Cardinality({n \in Msgs : hp[n] # "none"}) < MaxRequests
  /\ IsHistory[m] => gens[KeyOf[m]] < MaxGen
  /\ reader' = m
  /\ hp' = [hp EXCEPT ![m] = "received"]
  /\ UNCHANGED <<schedVars, closed, maps, registry, ctx, corr, bulk, writer>>

\* registerRequestClass notes the request before the scheduler sees it, and a file
\* read's correlation if there is one.
Register(m) ==
  /\ reader = m /\ hp[m] = "received"
  /\ hp' = [hp EXCEPT ![m] = "registered"]
  /\ classes' = classes \cup {m}
  /\ methods' = methods \cup {m}
  /\ \E x \in CorrsOf[m] :
       /\ x # NoCorr => SumFunction(uses) < MaxUses
       /\ corrs' = [corrs EXCEPT ![m] = x]
  /\ UNCHANGED <<schedVars, closed, reader, contexts, gens, activeHandle, reqHandles,
                 registry, ctx, corr, bulk, writer>>

\* Mutant: the running group of the session is not cancelled.
AdvanceCancels_None(m) == {}

\* The handles that advanceSessionBulkGeneration cancels.
AdvanceCancels(m) ==
  IF Replaces(m) /\ activeHandle[KeyOf[m]] # NoMsg THEN {activeHandle[KeyOf[m]]} ELSE {}

\* Mutant: a superseded request keeps its context.
ContextsAfter_Kept(m) ==
  IF Replaces(m) THEN [contexts EXCEPT ![m] = gens[KeyOf[m]] + 1] ELSE contexts

\* cleanupSupersededRequest for each request thrown out, then a context for m.  The
\* former leaves requestMethods alone.
ContextsAfter(m) ==
  [x \in Msgs |->
     IF x = m /\ Replaces(m) THEN gens[KeyOf[m]] + 1
     ELSE IF x \in Superseded(m) THEN 0
     ELSE contexts[x]]

\* enqueueMessage accepts the request and runs both callbacks under its mutex:
\* onSupersede for each request thrown out, onHistory for the new read.
AcceptRequest(m) ==
  /\ reader = m /\ hp[m] = "registered"
  /\ reader' = NoMsg
  /\ Enqueue(m)
  /\ classes' = classes \ Superseded(m)
  /\ contexts' = ContextsAfter(m)
  /\ gens' = IF Replaces(m) THEN [gens EXCEPT ![KeyOf[m]] = @ + 1] ELSE gens
  /\ handle' = CancelAll(AdvanceCancels(m))
  /\ activeHandle' = IF Replaces(m) THEN [activeHandle EXCEPT ![KeyOf[m]] = NoMsg]
                     ELSE activeHandle
  /\ hp' = [x \in Msgs |-> IF x \in Superseded(m) THEN "superseded" ELSE hp[x]]
  /\ UNCHANGED <<closed, methods, corrs, reqHandles, registry, ctx, corr, group, writer>>

\* No scheduler any more, it is stopped, or its queue is full: the reader closes
\* the connection.
RejectRequest(m) ==
  /\ reader = m /\ hp[m] = "registered" /\ ~signalling
  /\ closed \/ ~Accepts(m)
  /\ reader' = NoMsg
  /\ sent' = [sent EXCEPT ![m] = TRUE]
  /\ hp' = [hp EXCEPT ![m] = "done"]
  /\ CloseEffect
  /\ UNCHANGED <<pending, executor, wake, stopped, signalling, methods, corrs,
                 gens, reqHandles, registry, ctx, corr, group, writer>>

----------------------------------------------------------------------------
(* The executor.                                                           *)

\* run takes the next request and calls its handler.
Dispatch ==
  /\ Pop
  /\ hp' = [hp EXCEPT ![running'] = "serving"]
  /\ UNCHANGED <<closed, reader, maps, registry, ctx, corr, bulk, writer>>

\* The handler of a history read has called SendResult when it returns.
HandlerReturns ==
  /\ Dispatched
  /\ IsHistory[running] => hp[running] \in {"done", "unanswered"}
  /\ UNCHANGED connVars

\* Close stops the scheduler after it has released rc.mu.
StopScheduler ==
  /\ closed
  /\ CloseScheduler
  /\ UNCHANGED connVars

ExecutorStep ==
  /\ TakeWake \/ Exit \/ PopNone \/ Signal
  /\ UNCHANGED connVars

----------------------------------------------------------------------------
(* SendResult.                                                             *)

\* The request's entries are taken out of the maps under rc.mu.
TakeEntries(m) ==
  /\ classes' = classes \ {m}
  /\ methods' = methods \ {m}
  /\ corrs' = [corrs EXCEPT ![m] = NoCorr]
  /\ contexts' = [contexts EXCEPT ![m] = 0]

\* The result cannot be marshalled, or the file read is discarded because its
\* context is done: the request ends before its entries are taken.
Unanswered(m) ==
  /\ hp[m] = "serving"
  /\ hp' = [hp EXCEPT ![m] = "unanswered"]
  /\ UNCHANGED <<schedVars, closed, reader, maps, registry, ctx, corr, bulk, writer>>

\* What becomes of an answer in one frame: it waits in the writer for its delivery,
\* which a writer that is not open refuses, or Close follows.
Answers == IF writer = "open" THEN {"whole", "closing"} ELSE {"closing"}

\* The result is a whole frame, and waits in the writer for its delivery; or it
\* does not fit a group, or the writer is closed, and Close follows; or the
\* connection is closed already.
ReplyWhole(m) ==
  /\ hp[m] = "serving"
  /\ TakeEntries(m)
  /\ \E next \in IF closed THEN {"done"} ELSE Answers :
       hp' = [hp EXCEPT ![m] = next]
  /\ UNCHANGED <<schedVars, closed, reader, gens, activeHandle, reqHandles, registry, ctx,
                 corr, bulk, writer>>

\* A large result of a known bulk request becomes a group, which needs the context
\* and the correlation.
ReplyGroup(m) ==
  /\ hp[m] = "serving" /\ ~closed /\ m \in classes
  /\ TakeEntries(m)
  /\ ctx' = [ctx EXCEPT ![m] = contexts[m]]
  /\ corr' = [corr EXCEPT ![m] = corrs[m]]
  /\ hp' = [hp EXCEPT ![m] = "taken"]
  /\ UNCHANGED <<schedVars, closed, reader, gens, activeHandle, reqHandles, registry, bulk,
                 writer>>

\* Mutant: the generation is not compared again.
StillCurrent_Open(m) == ~closed

\* installHandleIfSessionBulkGenerationCurrent's test, under rc.mu.
StillCurrent(m) == ~closed /\ gens[KeyOf[m]] = ctx[m]

\* The new group's handle; for a history read it is installed if the read is
\* still the newest, and the reply ends here if not.
InstallHandle(m) ==
  /\ hp[m] = "taken"
  /\ IF ctx[m] = 0
     THEN /\ handle' = [handle EXCEPT ![m] = "active"]
          /\ hp' = [hp EXCEPT ![m] = "correlate"]
          /\ UNCHANGED activeHandle
     ELSE IF StillCurrent(m)
     THEN /\ handle' = [CancelAll({activeHandle[KeyOf[m]]}) EXCEPT ![m] = "active"]
          /\ activeHandle' = [activeHandle EXCEPT ![KeyOf[m]] = m]
          /\ hp' = [hp EXCEPT ![m] = "correlate"]
     ELSE /\ handle' = [handle EXCEPT ![m] = "cancelled"]
          /\ hp' = [hp EXCEPT ![m] = "done"]
          /\ UNCHANGED activeHandle
  /\ UNCHANGED <<schedVars, closed, reader, entries, gens, reqHandles, registry, ctx,
                 corr, group, writer>>

\* Mutant: the session keeps the handle of the group that was refused.
completeBulkHandle_Kept(m) == activeHandle

completeBulkHandle(m) ==
  IF ctx[m] # 0 /\ activeHandle[KeyOf[m]] = m
  THEN [activeHandle EXCEPT ![KeyOf[m]] = NoMsg] ELSE activeHandle

\* Mutant: a retired correlation may be used again.
PutIfAbsent_NoRetired(x) == x \notin corrActive /\ Cardinality(corrActive) < MaxActive

\* The registry admits x: neither active nor retired, and the active set has room.
PutIfAbsent(x) ==
  /\ x \notin corrActive
  /\ x \notin corrRetired
  /\ Cardinality(corrActive) < MaxActive

Correlate(m) ==
  /\ hp[m] = "correlate"
  /\ corr[m] = NoCorr \/ PutIfAbsent(corr[m])
  /\ corrActive' = corrActive \cup ({corr[m]} \ {NoCorr})
  /\ uses' = [x \in Corrs |-> IF x = corr[m] THEN uses[x] + 1 ELSE uses[x]]
  /\ hp' = [hp EXCEPT ![m] = "install"]
  /\ UNCHANGED <<schedVars, closed, reader, maps, corrRetired, ctx, corr, bulk, writer>>

\* Duplicate, reuse and a full registry are strict failures: Close.
CorrelateFails(m) ==
  /\ hp[m] = "correlate"
  /\ corr[m] # NoCorr /\ ~PutIfAbsent(corr[m])
  /\ handle' = CancelAll({m})
  /\ activeHandle' = completeBulkHandle(m)
  /\ hp' = [hp EXCEPT ![m] = "closing"]
  /\ UNCHANGED <<schedVars, closed, reader, entries, gens, reqHandles, registry, ctx,
                 corr, group, writer>>

\* installRequestBulkHandle for read_file_v2, so that cancel finds the group.
InstallRequestHandle(m) ==
  /\ hp[m] = "install"
  /\ reqHandles' = IF IsHistory[m] THEN reqHandles ELSE reqHandles \cup {m}
  /\ hp' = [hp EXCEPT ![m] = "admit"]
  /\ UNCHANGED <<schedVars, closed, reader, entries, gens, activeHandle, registry, ctx,
                 corr, bulk, writer>>

AdmitOk(m) ==
  /\ hp[m] = "admit" /\ writer = "open"
  /\ hp' = [hp EXCEPT ![m] = "done"]
  /\ group' = [group EXCEPT ![m] = "queued"]
  /\ UNCHANGED <<schedVars, closed, reader, maps, registry, ctx, corr, handle, writer>>

\* The bulk queue is full, and the short error result is to be delivered instead,
\* or not even that is possible; or the writer is closed: Close follows.
AdmitFails(m) ==
  /\ hp[m] = "admit"
  /\ \E next \in Answers : hp' = [hp EXCEPT ![m] = next]
  /\ handle' = CancelAll({m})
  /\ activeHandle' = completeBulkHandle(m)
  /\ UNCHANGED <<schedVars, closed, reader, entries, gens, reqHandles, registry, ctx,
                 corr, group, writer>>

\* The writer's answer to the whole frame; an error closes the connection.
Delivered(m) ==
  /\ hp[m] = "whole"
  /\ \E next \in {"done", "closing"} : hp' = [hp EXCEPT ![m] = next]
  /\ UNCHANGED <<schedVars, closed, reader, maps, registry, ctx, corr, bulk, writer>>

CloseReply(m) ==
  /\ hp[m] = "closing"
  /\ hp' = [hp EXCEPT ![m] = "done"]
  /\ CloseEffect
  /\ UNCHANGED <<schedVars, reader, methods, corrs, gens, reqHandles, registry, ctx, corr,
                 group, writer>>

Reply(m) ==
  \/ Unanswered(m) \/ ReplyWhole(m) \/ ReplyGroup(m) \/ InstallHandle(m)
  \/ Correlate(m) \/ CorrelateFails(m) \/ InstallRequestHandle(m)
  \/ AdmitOk(m) \/ AdmitFails(m) \/ Delivered(m) \/ CloseReply(m)

----------------------------------------------------------------------------
(* Cancel, Close, and the writer.                                          *)

\* handleCancelRequest, between two other dispatches of the executor, for a
\* request whose handle it finds.
CancelRequest(m) ==
  /\ rpc \in {"select", "pop"}
  /\ m \in reqHandles /\ handle[m] = "active"
  /\ handle' = CancelAll({m})
  /\ UNCHANGED <<schedVars, closed, reader, maps, registry, reply, group, writer>>

\* Close by anyone else: replaced, revoked, idle, a failed delivery.
CloseConn ==
  /\ ~closed
  /\ CloseEffect
  /\ UNCHANGED <<schedVars, reader, methods, corrs, gens, reqHandles, registry, reply, group,
                 writer>>

\* run holds one group at a time between the end of its turn and the last step of
\* its completion.
Completing == \E m \in Msgs : group[m] \in {"ending", "dropped", "failing"}

\* The first turn of a group: the commit CAS, or the group is over.
BeginGroup(m) ==
  /\ group[m] = "queued" /\ ~Completing /\ writer # "gone"
  /\ handle' = [handle EXCEPT ![m] = IF @ = "active" THEN "committed" ELSE @]
  /\ group' = [group EXCEPT ![m] = IF handle[m] = "active" THEN "sending" ELSE "ending"]
  /\ UNCHANGED <<schedVars, closed, reader, maps, registry, reply, writer>>

\* The last turn: all sent, expired, failed or the connection closed.
EndGroup(m) ==
  /\ group[m] = "sending" /\ ~Completing
  /\ group' = [group EXCEPT ![m] = "ending"]
  /\ UNCHANGED <<schedVars, closed, reader, maps, registry, reply, handle, writer>>

\* completeBulkHandle and completeRequestBulkHandle.
DropHandles(m) ==
  /\ group[m] = "ending"
  /\ activeHandle' = completeBulkHandle(m)
  /\ reqHandles' = reqHandles \ {m}
  /\ group' = [group EXCEPT ![m] = "dropped"]
  /\ UNCHANGED <<schedVars, closed, reader, entries, gens, registry, reply, handle,
                 writer>>

\* Retire, whose result run ignores: with a full retired set the correlation is
\* forgotten.  On an error Close follows.
RetireGroup(m) ==
  /\ group[m] = "dropped"
  /\ corrActive' = corrActive \ {corr[m]}
  /\ corrRetired' = IF corr[m] \in corrActive /\ Cardinality(corrRetired) < MaxRetired
                    THEN corrRetired \cup {corr[m]} ELSE corrRetired
  /\ \E next \in {"none"} \cup {"failing" : h \in {handle[m]} \cap {"committed"}} :
       group' = [group EXCEPT ![m] = next]
  /\ UNCHANGED <<schedVars, closed, reader, maps, uses, reply, handle, writer>>

CloseFailed(m) ==
  /\ group[m] = "failing"
  /\ group' = [group EXCEPT ![m] = "none"]
  /\ CloseEffect
  /\ UNCHANGED <<schedVars, reader, methods, corrs, gens, reqHandles, registry, reply, writer>>

Writer(m) ==
  BeginGroup(m) \/ EndGroup(m) \/ DropHandles(m) \/ RetireGroup(m) \/ CloseFailed(m)

\* closeConn or Close of the bridge client stops the writer that its devices share,
\* before it closes their connections.
StopWriter ==
  /\ writer = "open"
  /\ writer' = "stopped"
  /\ UNCHANGED <<schedVars, closed, reader, maps, registry, reply, bulk>>

\* failQueued: run, which goes back to its select only with no group begun, finds
\* stop and drops the groups that came in meanwhile.  Their handles are cancelled
\* and stay in the tables, and their correlations stay active.
FailQueued ==
  /\ writer = "stopped"
  /\ \A m \in Msgs : group[m] \in {"none", "queued"}
  /\ writer' = "gone"
  /\ handle' = CancelAll({m \in Msgs : group[m] = "queued"})
  /\ group' = [m \in Msgs |-> "none"]
  /\ UNCHANGED <<schedVars, closed, reader, maps, registry, reply>>

Over(m) == hp[m] \in {"done", "superseded", "unanswered"} /\ group[m] = "none"

\* The device sends a request of the same shape under a new request ID, while no
\* session has the old one's handle.  Entries that stay behind under the old ID are
\* there as long as the connection; the model forgets them.
RenewRequest(m) ==
  /\ Over(m) /\ m \notin {activeHandle[k] : k \in Keys}
  /\ Renew(m)
  /\ hp' = [hp EXCEPT ![m] = "none"]
  /\ handle' = [handle EXCEPT ![m] = "none"]
  /\ ctx' = [ctx EXCEPT ![m] = 0]
  /\ corr' = [corr EXCEPT ![m] = NoCorr]
  /\ classes' = classes \ {m} /\ methods' = methods \ {m}
  /\ corrs' = [corrs EXCEPT ![m] = NoCorr]
  /\ contexts' = [contexts EXCEPT ![m] = 0]
  /\ reqHandles' = reqHandles \ {m}
  /\ UNCHANGED <<closed, reader, gens, activeHandle, registry, group, writer>>

Next ==
  \/ \E m \in Msgs : \/ Receive(m) \/ Register(m) \/ AcceptRequest(m) \/ RejectRequest(m)
                     \/ Reply(m) \/ CancelRequest(m) \/ Writer(m) \/ RenewRequest(m)
  \/ Dispatch \/ HandlerReturns \/ StopScheduler \/ ExecutorStep
  \/ CloseConn \/ StopWriter \/ FailQueued

Spec == Init /\ [][Next]_vars

----------------------------------------------------------------------------
(* Properties.                                                             *)

\* The group of a history read begins only while no newer read of its session has
\* been received: the newer one cancels a waiting, an installed and a submitted
\* older one alike, and the older handler finds its generation stale.
SupersededNeverBegins ==
  [][\A m \in Msgs :
       handle[m] = "active" /\ handle'[m] = "committed" /\ ctx[m] # 0
         => gens[KeyOf[m]] = ctx[m]]_vars

\* Reply under way, or group in the writer.
InFlight(m) == hp[m] \in Replying \/ group[m] # "none"

\* A session's active handle is that of a group of the session in flight: SendResult
\* and run take the entry along.  Only the groups that failQueued drops leave theirs,
\* cancelled, until the connection is closed.
SessionHandleLive ==
  \A k \in Keys : activeHandle[k] # NoMsg =>
    /\ KeyOf[activeHandle[k]] = k
    /\ handle[activeHandle[k]] # "none"
    /\ ~InFlight(activeHandle[k]) => writer = "gone" /\ handle[activeHandle[k]] = "cancelled"

\* Queued for dispatch, or with its handler.
Pending(m) == reader = m \/ Waiting(m) \/ hp[m] = "serving"

\* What the five per-request tables of an open connection may hold: entries of
\* requests without a reply yet, handles of groups in flight, and three kinds of
\* leftovers.  A request that ends without SendResult's consent keeps everything it
\* had, a superseded one its method, and a group that overflowed or failed in the
\* queue its cancelled handle.
RequestEntriesLive ==
  ~closed => \A m \in Msgs :
    /\ m \in classes \/ corrs[m] # NoCorr \/ contexts[m] # 0
         => Pending(m) \/ hp[m] = "unanswered"
    /\ m \in methods => Pending(m) \/ hp[m] \in {"unanswered", "superseded"}
    /\ m \in reqHandles => InFlight(m) \/ handle[m] = "cancelled"

\* A correlation names one group on a connection: PutIfAbsent refuses its reuse,
\* unless the retired set was full when its group ended.
CorrelationRemembered ==
  \A x \in Corrs : uses[x] > 1 =>
    x \notin corrRetired /\ Cardinality(corrRetired) >= MaxRetired
=============================================================================

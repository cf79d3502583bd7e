----------------------- MODULE RelayDeviceChannel_proofs -----------------------
(***************************************************************************)
(* Proofs about RelayDeviceChannel: a superseded history read never        *)
(* begins, what the tables of the connection keep of a finished request is *)
(* what three ways of ending leave behind, and a correlation is admitted   *)
(* again only after the retired set was full.  The inductive invariant of  *)
(* the inbound scheduler is taken over from RelayInboundScheduler_proofs.  *)
(***************************************************************************)
EXTENDS RelayDeviceChannel, RelayInboundScheduler_proofs

Stages   == Arriving \cup Replying \cup 
              {"serving", "whole", "closing", "done", "superseded", "unanswered"}
Handles  == {"none", "active", "cancelled", "committed"}
Groups   == {"none", "queued", "sending", "ending", "dropped", "failing"}

ConnTypeOK ==
  /\ closed \in BOOLEAN /\ reader \in Msgs \cup {NoMsg}
  /\ classes \subseteq Msgs /\ methods \subseteq Msgs /\ reqHandles \subseteq Msgs
  /\ corrs \in [Msgs -> Corrs \cup {NoCorr}] /\ writer \in {"open", "stopped", "gone"}
  /\ contexts \in [Msgs -> Nat] /\ gens \in [Keys -> Nat]
  /\ activeHandle \in [Keys -> Msgs \cup {NoMsg}]
  /\ corrActive \subseteq Corrs /\ corrRetired \subseteq Corrs /\ uses \in [Corrs -> Nat]
  /\ hp \in [Msgs -> Stages] /\ ctx \in [Msgs -> Nat] /\ corr \in [Msgs -> Corrs \cup {NoCorr}]
  /\ handle \in [Msgs -> Handles] /\ group \in [Msgs -> Groups]

\* A queued request is registered, and the reader is done with it.
QueuedRegistered == \A m \in Held(queues) : hp[m] = "registered" /\ reader # m

\* A group is in the writer only after its reply is over, a handle is made only
\* when the group is, and it is committed by the group's first turn, after which it
\* is not active.
GroupAfterReply == \A m \in Msgs :
  /\ hp[m] # "done" => group[m] = "none"
  /\ hp[m] \in Arriving \cup {"serving", "taken"} => handle[m] = "none"
  /\ hp[m] \in {"correlate", "install", "admit"} \/ group[m] = "queued"
       => handle[m] \in {"active", "cancelled"}
  /\ group[m] \in {"sending", "ending", "dropped", "failing"} => handle[m] # "active"

\* The group m is on its way from its installation to the end of its last turn.
Installed(m) ==
  \/ hp[m] \in {"correlate", "install", "admit"}
  \/ group[m] \in {"queued", "sending", "ending"}

\* failQueued has dropped the group m.
Left(m) ==
  /\ writer = "gone"
  /\ hp[m] = "done" /\ group[m] = "none" /\ handle[m] = "cancelled"

\* A session's active handle is that of an installed group of the session, or of one
\* that failQueued has dropped.
HandleInstalled == \A k \in Keys : activeHandle[k] # NoMsg =>
  /\ KeyOf[activeHandle[k]] = k
  /\ ctx[activeHandle[k]] # 0
  /\ handle[activeHandle[k]] # "none"
  /\ Installed(activeHandle[k]) \/ Left(activeHandle[k])

\* A request's handle is that of an installed group, or cancelled.
RequestHandles == \A m \in reqHandles : Installed(m) \/ handle[m] = "cancelled"

\* A history read's group that may still begin is that of the newest read of the
\* session, and the session has its handle, so that a newer read cancels it.
ActiveIsNewest == \A m \in Msgs : handle[m] = "active" /\ ctx[m] # 0 =>
  /\ activeHandle[KeyOf[m]] = m
  /\ gens[KeyOf[m]] = ctx[m]

\* Queued or with its handler, on the set of the messages held.
PendingHeld(m) == reader = m \/ m \in Held(queues) \/ hp[m] = "serving"

\* The entries of the other four tables.
EntriesHeld == ~closed => \A m \in Msgs :
  /\ m \in classes \/ corrs[m] # NoCorr \/ contexts[m] # 0
       => PendingHeld(m) \/ hp[m] = "unanswered"
  /\ m \in methods => PendingHeld(m) \/ hp[m] \in {"unanswered", "superseded"}

\* Only file reads have correlations.
HistoryUncorrelated == \A m \in Msgs : IsHistory[m] => corrs[m] = NoCorr

\* As long as the retired set has room, a correlation that was used is active or
\* retired; what is retired was used once.
UsedRemembered ==
  /\ IsFiniteSet(corrRetired)
  /\ \A x \in Corrs :
       /\ x \in corrActive => uses[x] # 0 /\ x \notin corrRetired
       /\ x \in corrRetired => uses[x] = 1
       /\ Cardinality(corrRetired) < MaxRetired =>
            (uses[x] # 0 => uses[x] = 1 /\ x \in corrActive \cup corrRetired)

ChannelInv ==
  /\ SchedInv
  /\ ConnTypeOK
  /\ QueuedRegistered
  /\ GroupAfterReply
  /\ HandleInstalled
  /\ ActiveIsNewest
  /\ RequestHandles
  /\ EntriesHeld
  /\ HistoryUncorrelated
  /\ UsedRemembered

-----------------------------------------------------------------------------
(* Steps that leave the variables of a part alone.                         *)

\* A part of the invariant survives a step that changes none of its variables.
LEMMA Frame ==
  ASSUME ChannelInv
  PROVE  /\ UNCHANGED <<queues, hp, reader>> => QueuedRegistered'
         /\ UNCHANGED <<hp, group, handle>> => GroupAfterReply'
         /\ UNCHANGED <<activeHandle, ctx, handle, hp, group, writer>> => HandleInstalled'
         /\ UNCHANGED <<handle, ctx, activeHandle, gens>> => ActiveIsNewest'
         /\ UNCHANGED <<reqHandles, handle, hp, group>> => RequestHandles'
         /\ UNCHANGED <<closed, entries, reader, queues, hp>> => EntriesHeld'
         /\ UNCHANGED corrs => HistoryUncorrelated'
         /\ UNCHANGED registry => UsedRemembered'
<1> USE DEF entries, registry
<1>1. UNCHANGED <<queues, hp, reader>> => QueuedRegistered'
  BY DEF ChannelInv, QueuedRegistered
<1>2. UNCHANGED <<hp, group, handle>> => GroupAfterReply'
  BY DEF ChannelInv, GroupAfterReply
<1>3. UNCHANGED <<activeHandle, ctx, handle, hp, group, writer>> => HandleInstalled'
  BY DEF ChannelInv, HandleInstalled, Installed, Left
<1>4. UNCHANGED <<handle, ctx, activeHandle, gens>> => ActiveIsNewest'
  BY DEF ChannelInv, ActiveIsNewest
<1>5. UNCHANGED <<reqHandles, handle, hp, group>> => RequestHandles'
  BY DEF ChannelInv, RequestHandles, Installed
<1>6. UNCHANGED <<closed, entries, reader, queues, hp>> => EntriesHeld'
  BY DEF ChannelInv, EntriesHeld, PendingHeld
<1>7. UNCHANGED corrs => HistoryUncorrelated'
  BY DEF ChannelInv, HistoryUncorrelated
<1>8. UNCHANGED registry => UsedRemembered'
  BY DEF ChannelInv, UsedRemembered
<1> QED  BY <1>1, <1>2, <1>3, <1>4, <1>5, <1>6, <1>7, <1>8

\* The parts of the invariant that are the connection's own.
ConnInv ==
  /\ ConnTypeOK
  /\ QueuedRegistered
  /\ GroupAfterReply
  /\ HandleInstalled
  /\ ActiveIsNewest
  /\ RequestHandles
  /\ EntriesHeld
  /\ HistoryUncorrelated
  /\ UsedRemembered

-----------------------------------------------------------------------------
(* The connection's actions.                                               *)

\* Close cancels every group that may still begin: each session's active handle.
LEMMA CloseNewest ==
  ASSUME ChannelInv, CloseEffect, ctx' = ctx, gens' = gens
  PROVE  ActiveIsNewest'
<1> SUFFICES ASSUME NEW m \in Msgs, handle'[m] = "active", ctx[m] # 0 PROVE FALSE
  BY DEF ActiveIsNewest
<1>1. handle[m] = "active" /\ m \notin {activeHandle[k] : k \in Keys}
  BY DEF CloseEffect, CancelAll
<1>2. activeHandle[KeyOf[m]] = m /\ KeyOf[m] \in Keys
  BY <1>1, SchedulerAssumption DEF ChannelInv, ActiveIsNewest
<1> QED  BY <1>1, <1>2

\* The reader receives a request.
LEMMA ReceiveStep ==
  ASSUME ChannelInv, NEW m \in Msgs, Receive(m)
  PROVE  ConnInv'
<1> USE DEF vars, schedVars, pending, executor, connVars, maps, entries, registry, reply, bulk
<1>1. ConnTypeOK'
  BY DEF ChannelInv, Receive, ConnTypeOK, Stages, Arriving
<1>2. QueuedRegistered'
  BY DEF ChannelInv, Receive, QueuedRegistered
<1>3. GroupAfterReply'
  BY DEF ChannelInv, Receive, GroupAfterReply, Arriving
<1>4. HandleInstalled'
  BY DEF ChannelInv, Receive, HandleInstalled, Left, Installed
<1>5. EntriesHeld'
  BY SchedulerAssumption DEF ChannelInv, Receive, EntriesHeld, PendingHeld
<1>6. RequestHandles'
  BY DEF ChannelInv, Receive, RequestHandles, Installed
<1> QED  BY <1>1, <1>2, <1>3, <1>4, <1>5, <1>6, Frame DEF ConnInv, Receive

\* The reader registers it.
LEMMA RegisterStep ==
  ASSUME ChannelInv, NEW m \in Msgs, Register(m)
  PROVE  ConnInv'
<1> USE DEF vars, schedVars, pending, executor, connVars, maps, entries, registry, reply, bulk
<1>1. ConnTypeOK'
  <2>1. PICK x \in CorrsOf[m] : corrs' = [corrs EXCEPT ![m] = x]
    BY DEF Register
  <2>2. x \in Corrs \cup {NoCorr}
    BY ChannelAssumption
  <2> QED  BY <2>1, <2>2 DEF ChannelInv, Register, ConnTypeOK, Stages, Arriving
<1>2. QueuedRegistered'
  BY DEF ChannelInv, Register, QueuedRegistered
<1>3. GroupAfterReply'
  BY DEF ChannelInv, Register, GroupAfterReply, Arriving
<1>4. HandleInstalled'
  BY DEF ChannelInv, Register, HandleInstalled, Left, Installed
<1>5. EntriesHeld'
  BY DEF ChannelInv, Register, EntriesHeld, PendingHeld
<1>6. RequestHandles'
  BY DEF ChannelInv, Register, RequestHandles, Installed
<1>7. HistoryUncorrelated'
  BY ChannelAssumption DEF ChannelInv, Register, HistoryUncorrelated, ConnTypeOK
<1> QED  BY <1>1, <1>2, <1>3, <1>4, <1>5, <1>6, <1>7, Frame DEF ConnInv, Register

\* The reader gives up on it and closes the connection.
LEMMA RejectRequestStep ==
  ASSUME ChannelInv, NEW m \in Msgs, RejectRequest(m)
  PROVE  ConnInv'
<1> USE DEF vars, schedVars, pending, executor, connVars, maps, entries, registry, reply, bulk
<1>1. ConnTypeOK'
  BY DEF ChannelInv, RejectRequest, CloseEffect, CancelAll, ConnTypeOK, Stages, Handles
<1>2. QueuedRegistered'
  BY HeldHome, SchedulerAssumption
     DEF ChannelInv, SchedInv, RejectRequest, QueuedRegistered
<1>3. GroupAfterReply'
  BY DEF ChannelInv, RejectRequest, CloseEffect, CancelAll, GroupAfterReply, Arriving
<1>4. HandleInstalled'
  BY DEF ChannelInv, RejectRequest, CloseEffect, HandleInstalled
<1>5. ActiveIsNewest'
  BY CloseNewest DEF RejectRequest
<1>6. EntriesHeld'
  BY DEF ChannelInv, RejectRequest, CloseEffect, EntriesHeld
<1>7. RequestHandles'
  BY DEF ChannelInv, RejectRequest, CloseEffect, CancelAll, RequestHandles, Installed,
         ConnTypeOK
<1> QED  BY <1>1, <1>2, <1>3, <1>4, <1>5, <1>6, <1>7, Frame
            DEF ConnInv, RejectRequest, CloseEffect, CancelAll

\* The request ends before its entries are taken.
LEMMA UnansweredStep ==
  ASSUME ChannelInv, NEW m \in Msgs, Unanswered(m)
  PROVE  ConnInv'
<1> USE DEF vars, schedVars, pending, executor, connVars, maps, entries, registry, reply, bulk
<1>1. ConnTypeOK'
  BY DEF ChannelInv, Unanswered, ConnTypeOK, Stages
<1>2. QueuedRegistered'
  BY DEF ChannelInv, Unanswered, QueuedRegistered
<1>3. GroupAfterReply'
  BY DEF ChannelInv, Unanswered, GroupAfterReply, Arriving
<1>4. HandleInstalled'
  BY DEF ChannelInv, Unanswered, HandleInstalled, Left, Installed
<1>5. RequestHandles'
  BY DEF ChannelInv, Unanswered, RequestHandles, Installed
<1>6. EntriesHeld'
  BY DEF ChannelInv, Unanswered, EntriesHeld, PendingHeld, ConnTypeOK
<1> QED  BY <1>1, <1>2, <1>3, <1>4, <1>5, <1>6, Frame DEF ConnInv, Unanswered

\* The handler answers with a whole frame.
LEMMA ReplyWholeStep ==
  ASSUME ChannelInv, NEW m \in Msgs, ReplyWhole(m)
  PROVE  ConnInv'
<1> USE DEF vars, schedVars, pending, executor, connVars, maps, entries, registry, reply, bulk
<1>1. ConnTypeOK'
  BY DEF ChannelInv, ReplyWhole, TakeEntries, Answers, ConnTypeOK, Stages
<1>2. QueuedRegistered'
  BY DEF ChannelInv, ReplyWhole, Answers, QueuedRegistered
<1>3. GroupAfterReply'
  BY DEF ChannelInv, ReplyWhole, Answers, GroupAfterReply
<1>4. HandleInstalled'
  BY DEF ChannelInv, ReplyWhole, TakeEntries, HandleInstalled, Left, Installed, GroupAfterReply
<1>5. ActiveIsNewest'
  BY DEF ChannelInv, ReplyWhole, TakeEntries, ActiveIsNewest, GroupAfterReply
<1>6. EntriesHeld'
  BY DEF ChannelInv, ReplyWhole, TakeEntries, EntriesHeld, PendingHeld, ConnTypeOK
<1>7. RequestHandles'
  BY DEF ChannelInv, ReplyWhole, RequestHandles, Installed
<1>8. HistoryUncorrelated'
  BY DEF ChannelInv, ReplyWhole, TakeEntries, HistoryUncorrelated, ConnTypeOK
<1> QED  BY <1>1, <1>2, <1>3, <1>4, <1>5, <1>6, <1>7, <1>8, Frame DEF ConnInv, ReplyWhole, TakeEntries

\* The handler answers with a group.
LEMMA ReplyGroupStep ==
  ASSUME ChannelInv, NEW m \in Msgs, ReplyGroup(m)
  PROVE  ConnInv'
<1> USE DEF vars, schedVars, pending, executor, connVars, maps, entries, registry, reply, bulk
<1>1. ConnTypeOK'
  BY ChannelAssumption
     DEF ChannelInv, ReplyGroup, TakeEntries, ConnTypeOK, Stages, Replying
<1>2. QueuedRegistered'
  BY DEF ChannelInv, ReplyGroup, QueuedRegistered
<1>3. GroupAfterReply'
  BY DEF ChannelInv, ReplyGroup, GroupAfterReply
<1>4. HandleInstalled'
  BY DEF ChannelInv, ReplyGroup, TakeEntries, HandleInstalled, Left, Installed, GroupAfterReply
<1>5. ActiveIsNewest'
  BY DEF ChannelInv, ReplyGroup, TakeEntries, ActiveIsNewest, GroupAfterReply
<1>6. EntriesHeld'
  BY DEF ChannelInv, ReplyGroup, TakeEntries, EntriesHeld, PendingHeld, ConnTypeOK
<1>7. RequestHandles'
  BY DEF ChannelInv, ReplyGroup, RequestHandles, Installed
<1>8. HistoryUncorrelated'
  BY DEF ChannelInv, ReplyGroup, TakeEntries, HistoryUncorrelated, ConnTypeOK
<1> QED  BY <1>1, <1>2, <1>3, <1>4, <1>5, <1>6, <1>7, <1>8, Frame DEF ConnInv, ReplyGroup, TakeEntries

\* The group gets its handle.
LEMMA InstallHandleStep ==
  ASSUME ChannelInv, NEW m \in Msgs, InstallHandle(m)
  PROVE  ConnInv'
<1> USE DEF vars, schedVars, pending, executor, connVars, maps, entries, registry, reply, bulk
<1>1. /\ hp[m] = "taken" /\ group[m] = "none" /\ handle[m] = "none"
      /\ UNCHANGED <<schedVars, closed, reader, entries, gens, reqHandles, registry, ctx,
                     corr, group, writer>>
  BY DEF InstallHandle, ChannelInv, GroupAfterReply
<1>2. KeyOf[m] \in Keys /\ activeHandle[KeyOf[m]] # m
  BY <1>1, SchedulerAssumption DEF ChannelInv, HandleInstalled, Left, Installed
<1>3. hp' \in [Msgs -> Stages] /\ handle' \in [Msgs -> Handles]
      /\ activeHandle' \in [Keys -> Msgs \cup {NoMsg}]
      /\ hp' = [hp EXCEPT ![m] = hp'[m]] /\ hp'[m] \in {"correlate", "done"}
  BY <1>2, ZenonT(60) DEF InstallHandle, ChannelInv, ConnTypeOK, CancelAll, Stages, Replying, Handles
<1>4. ConnTypeOK'
  BY <1>1, <1>3 DEF ChannelInv, ConnTypeOK
<1>5. QueuedRegistered'
  <2>1. m \notin Held(queues)
    BY <1>1 DEF ChannelInv, QueuedRegistered
  <2> QED  BY <1>1, <1>3, <2>1, HeldHome
              DEF ChannelInv, SchedInv, ConnTypeOK, QueuedRegistered
<1>6. EntriesHeld'
  BY <1>1, <1>3 DEF ChannelInv, EntriesHeld, PendingHeld
<1>10. RequestHandles'
  <2>1. m \notin reqHandles
    BY <1>1 DEF ChannelInv, RequestHandles, Installed
  <2>2. \A x \in Msgs \ {m} : /\ hp'[x] = hp[x] /\ group'[x] = group[x]
                              /\ handle[x] = "cancelled" => handle'[x] = "cancelled"
    BY <1>1, <1>3 DEF InstallHandle, CancelAll, ChannelInv, ConnTypeOK
  <2> QED  BY <1>1, <2>1, <2>2 DEF ChannelInv, ConnTypeOK, RequestHandles, Installed
<1>7. CASE ctx[m] = 0
  <2>1. handle' = [handle EXCEPT ![m] = "active"] /\ hp' = [hp EXCEPT ![m] = "correlate"]
        /\ activeHandle' = activeHandle
    BY <1>7 DEF InstallHandle
  <2>2. GroupAfterReply' /\ HandleInstalled' /\ ActiveIsNewest'
    BY <1>1, <1>7, <2>1
       DEF ChannelInv, ConnTypeOK, GroupAfterReply, HandleInstalled, Left, Installed, ActiveIsNewest, Arriving
  <2> QED  BY <1>1, <1>4, <1>5, <1>6, <1>10, <2>2, Frame DEF ConnInv
<1>8. CASE ctx[m] # 0 /\ StillCurrent(m)
  <2> DEFINE old == CancelAll({activeHandle[KeyOf[m]]})
  <2>1. handle' = [old EXCEPT ![m] = "active"] /\ hp' = [hp EXCEPT ![m] = "correlate"]
        /\ activeHandle' = [activeHandle EXCEPT ![KeyOf[m]] = m]
    BY <1>8 DEF InstallHandle
  <2>2. \A x \in Msgs : handle'[x] = IF x = m THEN "active" ELSE old[x]
    BY <2>1 DEF CancelAll
  <2>3. \A x \in Msgs : /\ old[x] # "none" <=> handle[x] # "none"
                        /\ handle[x] = "cancelled" => old[x] = "cancelled"
                        /\ handle[x] = "active" => old[x] \in {"active", "cancelled"}
    BY DEF CancelAll
  <2>4. \A x \in Msgs : old[x] = "active" => handle[x] = "active" /\ activeHandle[KeyOf[m]] # x
    BY DEF CancelAll
  <2> HIDE DEF old
  <2>5. GroupAfterReply'
    BY <1>1, <2>1, <2>2, <2>3, <2>4 DEF ChannelInv, ConnTypeOK, GroupAfterReply, Arriving
  <2>6. HandleInstalled'
    BY <1>1, <1>2, <1>8, <2>1, <2>2, <2>3, SchedulerAssumption
       DEF ChannelInv, ConnTypeOK, HandleInstalled, Left, Installed
  <2>7. ActiveIsNewest'
    BY <1>1, <1>2, <1>8, <2>1, <2>2, <2>4, SchedulerAssumption
       DEF ChannelInv, ConnTypeOK, ActiveIsNewest, StillCurrent
  <2> QED  BY <1>1, <1>4, <1>5, <1>6, <1>10, <2>5, <2>6, <2>7, Frame DEF ConnInv
<1>9. CASE ctx[m] # 0 /\ ~StillCurrent(m)
  <2>1. handle' = [handle EXCEPT ![m] = "cancelled"] /\ hp' = [hp EXCEPT ![m] = "done"]
        /\ activeHandle' = activeHandle
    BY <1>9 DEF InstallHandle
  <2>2. GroupAfterReply' /\ HandleInstalled' /\ ActiveIsNewest'
    BY <1>1, <1>2, <2>1
       DEF ChannelInv, ConnTypeOK, GroupAfterReply, HandleInstalled, Left, Installed, ActiveIsNewest, Arriving
  <2> QED  BY <1>1, <1>4, <1>5, <1>6, <1>10, <2>2, Frame DEF ConnInv
<1> QED  BY <1>7, <1>8, <1>9

\* The registry admits the correlation of the group.
LEMMA CorrelateStep ==
  ASSUME ChannelInv, NEW m \in Msgs, Correlate(m)
  PROVE  ConnInv'
<1> USE DEF vars, schedVars, pending, executor, connVars, maps, entries, registry, reply, bulk
<1>1. ConnTypeOK'
  BY DEF ChannelInv, Correlate, ConnTypeOK, Stages, Replying
<1>2. QueuedRegistered'
  BY DEF ChannelInv, Correlate, QueuedRegistered
<1>3. GroupAfterReply'
  BY DEF ChannelInv, Correlate, GroupAfterReply, Arriving
<1>4. HandleInstalled'
  BY DEF ChannelInv, Correlate, HandleInstalled, Left, Installed
<1>5. EntriesHeld'
  BY DEF ChannelInv, Correlate, EntriesHeld, PendingHeld
<1>6. UsedRemembered'
  BY ChannelAssumption DEF ChannelInv, ConnTypeOK, Correlate, PutIfAbsent, UsedRemembered
<1>7. RequestHandles'
  BY DEF ChannelInv, Correlate, RequestHandles, Installed
<1> QED  BY <1>1, <1>2, <1>3, <1>4, <1>5, <1>6, <1>7, Frame DEF ConnInv, Correlate, PutIfAbsent

\* The registry refuses it.
LEMMA CorrelateFailsStep ==
  ASSUME ChannelInv, NEW m \in Msgs, CorrelateFails(m)
  PROVE  ConnInv'
<1> USE DEF vars, schedVars, pending, executor, connVars, maps, entries, registry, reply, bulk
<1>1. ConnTypeOK'
  BY DEF ChannelInv, CorrelateFails, completeBulkHandle, CancelAll, ConnTypeOK, Stages,
         Handles
<1>2. QueuedRegistered'
  BY DEF ChannelInv, CorrelateFails, QueuedRegistered
<1>3. GroupAfterReply'
  BY DEF ChannelInv, CorrelateFails, CancelAll, GroupAfterReply, Arriving
<1>4. HandleInstalled'
  BY DEF ChannelInv, CorrelateFails, completeBulkHandle, CancelAll, HandleInstalled, Left,
         Installed, ConnTypeOK
<1>5. ActiveIsNewest'
  BY DEF ChannelInv, CorrelateFails, completeBulkHandle, CancelAll, ActiveIsNewest
<1>6. EntriesHeld'
  BY DEF ChannelInv, CorrelateFails, EntriesHeld, PendingHeld
<1>7. RequestHandles'
  BY DEF ChannelInv, CorrelateFails, CancelAll, GroupAfterReply, ConnTypeOK, RequestHandles, Installed
<1> QED  BY <1>1, <1>2, <1>3, <1>4, <1>5, <1>6, <1>7, Frame
            DEF ConnInv, CorrelateFails, completeBulkHandle, CancelAll

\* The handle is made known to cancel.
LEMMA InstallRequestHandleStep ==
  ASSUME ChannelInv, NEW m \in Msgs, InstallRequestHandle(m)
  PROVE  ConnInv'
<1> USE DEF vars, schedVars, pending, executor, connVars, maps, entries, registry, reply, bulk
<1>1. ConnTypeOK'
  BY DEF ChannelInv, InstallRequestHandle, ConnTypeOK, Stages, Replying
<1>2. QueuedRegistered'
  BY DEF ChannelInv, InstallRequestHandle, QueuedRegistered
<1>3. GroupAfterReply'
  BY DEF ChannelInv, InstallRequestHandle, GroupAfterReply, Arriving
<1>4. HandleInstalled'
  BY DEF ChannelInv, InstallRequestHandle, HandleInstalled, Left, Installed
<1>5. EntriesHeld'
  BY DEF ChannelInv, InstallRequestHandle, EntriesHeld, PendingHeld
<1>6. RequestHandles'
  BY DEF ChannelInv, InstallRequestHandle, ConnTypeOK, RequestHandles, Installed
<1> QED  BY <1>1, <1>2, <1>3, <1>4, <1>5, <1>6, Frame DEF ConnInv, InstallRequestHandle

\* The writer takes the group.
LEMMA AdmitOkStep ==
  ASSUME ChannelInv, NEW m \in Msgs, AdmitOk(m)
  PROVE  ConnInv'
<1> USE DEF vars, schedVars, pending, executor, connVars, maps, entries, registry, reply, bulk
<1>1. ConnTypeOK'
  BY DEF ChannelInv, AdmitOk, ConnTypeOK, Stages, Groups
<1>2. QueuedRegistered'
  BY DEF ChannelInv, AdmitOk, QueuedRegistered
<1>3. GroupAfterReply'
  BY DEF ChannelInv, AdmitOk, GroupAfterReply, ConnTypeOK, Arriving
<1>4. HandleInstalled'
  BY DEF ChannelInv, AdmitOk, HandleInstalled, Left, Installed, ConnTypeOK
<1>5. EntriesHeld'
  BY DEF ChannelInv, AdmitOk, EntriesHeld, PendingHeld
<1>6. RequestHandles'
  BY DEF ChannelInv, AdmitOk, ConnTypeOK, RequestHandles, Installed
<1> QED  BY <1>1, <1>2, <1>3, <1>4, <1>5, <1>6, Frame DEF ConnInv, AdmitOk

\* The writer refuses it.
LEMMA AdmitFailsStep ==
  ASSUME ChannelInv, NEW m \in Msgs, AdmitFails(m)
  PROVE  ConnInv'
<1> USE DEF vars, schedVars, pending, executor, connVars, maps, entries, registry, reply, bulk
<1>1. ConnTypeOK'
  <2>1. PICK next \in Answers : hp' = [hp EXCEPT ![m] = next]
    BY DEF AdmitFails
  <2>2. hp' \in [Msgs -> Stages]
    BY <2>1 DEF ChannelInv, ConnTypeOK, Answers, Stages
  <2>3. handle' \in [Msgs -> Handles] /\ activeHandle' \in [Keys -> Msgs \cup {NoMsg}]
    BY SchedulerAssumption
       DEF ChannelInv, ConnTypeOK, AdmitFails, completeBulkHandle, CancelAll, Handles
  <2> QED  BY <2>2, <2>3 DEF ChannelInv, ConnTypeOK, AdmitFails
<1>2. QueuedRegistered'
  BY DEF ChannelInv, AdmitFails, QueuedRegistered
<1>3. GroupAfterReply'
  BY DEF ChannelInv, AdmitFails, Answers, CancelAll, GroupAfterReply, Arriving
<1>4. HandleInstalled'
  BY DEF ChannelInv, AdmitFails, completeBulkHandle, CancelAll, HandleInstalled, Left,
         Installed, ConnTypeOK
<1>5. ActiveIsNewest'
  BY DEF ChannelInv, AdmitFails, completeBulkHandle, CancelAll, ActiveIsNewest
<1>6. EntriesHeld'
  BY DEF ChannelInv, AdmitFails, EntriesHeld, PendingHeld
<1>7. RequestHandles'
  BY DEF ChannelInv, AdmitFails, CancelAll, GroupAfterReply, ConnTypeOK, RequestHandles, Installed
<1> QED  BY <1>1, <1>2, <1>3, <1>4, <1>5, <1>6, <1>7, Frame
            DEF ConnInv, AdmitFails, completeBulkHandle, CancelAll

\* The writer answers for the whole frame.
LEMMA DeliveredStep ==
  ASSUME ChannelInv, NEW m \in Msgs, Delivered(m)
  PROVE  ConnInv'
<1> USE DEF vars, schedVars, pending, executor, connVars, maps, entries, registry, reply, bulk
<1>1. ConnTypeOK'
  BY DEF ChannelInv, Delivered, ConnTypeOK, Stages
<1>2. QueuedRegistered'
  BY DEF ChannelInv, Delivered, QueuedRegistered
<1>3. GroupAfterReply'
  BY DEF ChannelInv, Delivered, GroupAfterReply, Arriving
<1>4. HandleInstalled'
  BY DEF ChannelInv, Delivered, HandleInstalled, Left, Installed
<1>5. EntriesHeld'
  BY DEF ChannelInv, Delivered, EntriesHeld, PendingHeld
<1>6. RequestHandles'
  BY DEF ChannelInv, Delivered, RequestHandles, Installed
<1> QED  BY <1>1, <1>2, <1>3, <1>4, <1>5, <1>6, Frame DEF ConnInv, Delivered

\* A reply that failed closes the connection.
LEMMA CloseReplyStep ==
  ASSUME ChannelInv, NEW m \in Msgs, CloseReply(m)
  PROVE  ConnInv'
<1> USE DEF vars, schedVars, pending, executor, connVars, maps, entries, registry, reply, bulk
<1>1. ConnTypeOK'
  BY DEF ChannelInv, CloseReply, CloseEffect, CancelAll, ConnTypeOK, Stages, Handles
<1>2. QueuedRegistered'
  BY DEF ChannelInv, CloseReply, QueuedRegistered
<1>3. GroupAfterReply'
  BY DEF ChannelInv, CloseReply, CloseEffect, CancelAll, GroupAfterReply, Arriving
<1>4. HandleInstalled'
  BY DEF ChannelInv, CloseReply, CloseEffect, HandleInstalled
<1>5. ActiveIsNewest'
  BY CloseNewest DEF CloseReply
<1>6. EntriesHeld'
  BY DEF ChannelInv, CloseReply, CloseEffect, EntriesHeld
<1>7. RequestHandles'
  BY DEF ChannelInv, CloseReply, CloseEffect, CancelAll, RequestHandles, Installed,
         ConnTypeOK
<1> QED  BY <1>1, <1>2, <1>3, <1>4, <1>5, <1>6, <1>7, Frame
            DEF ConnInv, CloseReply, CloseEffect, CancelAll

\* A request is cancelled.
LEMMA CancelRequestStep ==
  ASSUME ChannelInv, NEW m \in Msgs, CancelRequest(m)
  PROVE  ConnInv'
<1> USE DEF vars, schedVars, pending, executor, connVars, maps, entries, registry, reply, bulk
<1>1. ConnTypeOK'
  BY DEF ChannelInv, CancelRequest, CancelAll, ConnTypeOK, Handles
<1>2. GroupAfterReply'
  BY DEF ChannelInv, CancelRequest, CancelAll, GroupAfterReply
<1>3. HandleInstalled'
  BY DEF ChannelInv, CancelRequest, CancelAll, HandleInstalled, Left, Installed, ConnTypeOK
<1>4. ActiveIsNewest'
  BY DEF ChannelInv, CancelRequest, CancelAll, ActiveIsNewest
<1>5. RequestHandles'
  BY DEF ChannelInv, CancelRequest, CancelAll, RequestHandles, Installed,
         ConnTypeOK
<1> QED  BY <1>1, <1>2, <1>3, <1>4, <1>5, Frame DEF ConnInv, CancelRequest, CancelAll

\* The first turn of a group.
LEMMA BeginGroupStep ==
  ASSUME ChannelInv, NEW m \in Msgs, BeginGroup(m)
  PROVE  ConnInv'
<1> USE DEF vars, schedVars, pending, executor, connVars, maps, entries, registry, reply, bulk
<1>1. ConnTypeOK'
  BY DEF ChannelInv, BeginGroup, ConnTypeOK, Handles, Groups
<1>2. GroupAfterReply'
  BY DEF ChannelInv, BeginGroup, GroupAfterReply, ConnTypeOK
<1>3. HandleInstalled'
  BY DEF ChannelInv, BeginGroup, HandleInstalled, Left, Installed
<1>4. ActiveIsNewest'
  BY DEF ChannelInv, BeginGroup, ActiveIsNewest
<1>5. RequestHandles'
  BY DEF ChannelInv, BeginGroup, GroupAfterReply, ConnTypeOK, RequestHandles, Installed
<1> QED  BY <1>1, <1>2, <1>3, <1>4, <1>5, Frame DEF ConnInv, BeginGroup

\* The last turn of a group.
LEMMA EndGroupStep ==
  ASSUME ChannelInv, NEW m \in Msgs, EndGroup(m)
  PROVE  ConnInv'
<1> USE DEF vars, schedVars, pending, executor, connVars, maps, entries, registry, reply, bulk
<1>1. ConnTypeOK'
  BY DEF ChannelInv, EndGroup, ConnTypeOK, Groups
<1>2. GroupAfterReply'
  BY DEF ChannelInv, EndGroup, GroupAfterReply
<1>3. HandleInstalled'
  BY DEF ChannelInv, EndGroup, HandleInstalled, Left, Installed
<1>4. RequestHandles'
  BY DEF ChannelInv, EndGroup, ConnTypeOK, RequestHandles, Installed
<1> QED  BY <1>1, <1>2, <1>3, <1>4, Frame DEF ConnInv, EndGroup

\* The handles of a finished group are dropped.
LEMMA DropHandlesStep ==
  ASSUME ChannelInv, NEW m \in Msgs, DropHandles(m)
  PROVE  ConnInv'
<1> USE DEF vars, schedVars, pending, executor, connVars, maps, entries, registry, reply, bulk
<1>1. ConnTypeOK'
  BY DEF ChannelInv, DropHandles, completeBulkHandle, ConnTypeOK, Groups
<1>2. GroupAfterReply'
  BY DEF ChannelInv, DropHandles, GroupAfterReply
<1>3. HandleInstalled'
  BY DEF ChannelInv, DropHandles, completeBulkHandle, HandleInstalled, Left, Installed,
         ConnTypeOK
<1>4. ActiveIsNewest'
  BY DEF ChannelInv, DropHandles, completeBulkHandle, ActiveIsNewest, GroupAfterReply
<1>5. RequestHandles'
  BY DEF ChannelInv, DropHandles, ConnTypeOK, RequestHandles, Installed
<1> QED  BY <1>1, <1>2, <1>3, <1>4, <1>5, Frame DEF ConnInv, DropHandles, completeBulkHandle

\* The correlation of a finished group is retired.
LEMMA RetireGroupStep ==
  ASSUME ChannelInv, NEW m \in Msgs, RetireGroup(m)
  PROVE  ConnInv'
<1> USE DEF vars, schedVars, pending, executor, connVars, maps, entries, registry, reply, bulk
<1>1. ConnTypeOK'
  BY DEF ChannelInv, RetireGroup, ConnTypeOK, Groups
<1>2. GroupAfterReply'
  BY DEF ChannelInv, RetireGroup, GroupAfterReply
<1>3. HandleInstalled'
  BY DEF ChannelInv, RetireGroup, HandleInstalled, Left, Installed
<1>4. UsedRemembered'
  <2> DEFINE c == corr[m]
  <2>1. UsedRemembered /\ uses' = uses /\ corrActive' = corrActive \ {c}
    BY DEF ChannelInv, RetireGroup
  <2>2. CASE c \in corrActive /\ Cardinality(corrRetired) < MaxRetired
    <3>1. corrRetired' = corrRetired \cup {c} /\ IsFiniteSet(corrRetired \cup {c})
      BY <2>1, <2>2, FS_AddElement DEF RetireGroup, UsedRemembered
    <3> QED  BY <2>1, <2>2, <3>1 DEF UsedRemembered
  <2>3. CASE ~(c \in corrActive /\ Cardinality(corrRetired) < MaxRetired)
    <3>1. corrRetired' = corrRetired
      BY <2>3 DEF RetireGroup
    <3> HIDE DEF c
    <3> QED  BY <2>1, <2>3, <3>1 DEF UsedRemembered
  <2> QED  BY <2>2, <2>3
<1>5. RequestHandles'
  BY DEF ChannelInv, RetireGroup, RequestHandles, Installed
<1> QED  BY <1>1, <1>2, <1>3, <1>4, <1>5, Frame DEF ConnInv, RetireGroup

\* A group that failed closes the connection.
LEMMA CloseFailedStep ==
  ASSUME ChannelInv, NEW m \in Msgs, CloseFailed(m)
  PROVE  ConnInv'
<1> USE DEF vars, schedVars, pending, executor, connVars, maps, entries, registry, reply, bulk
<1>1. ConnTypeOK'
  BY DEF ChannelInv, CloseFailed, CloseEffect, CancelAll, ConnTypeOK, Handles, Groups
<1>2. GroupAfterReply'
  BY DEF ChannelInv, CloseFailed, CloseEffect, CancelAll, GroupAfterReply
<1>3. HandleInstalled'
  BY DEF ChannelInv, CloseFailed, CloseEffect, HandleInstalled
<1>4. ActiveIsNewest'
  BY CloseNewest DEF CloseFailed
<1>5. EntriesHeld'
  BY DEF ChannelInv, CloseFailed, CloseEffect, EntriesHeld
<1>6. RequestHandles'
  BY DEF ChannelInv, CloseFailed, CloseEffect, CancelAll, RequestHandles, Installed,
         ConnTypeOK
<1> QED  BY <1>1, <1>2, <1>3, <1>4, <1>5, <1>6, Frame
            DEF ConnInv, CloseFailed, CloseEffect, CancelAll

\* The writer is stopped.
LEMMA StopWriterStep ==
  ASSUME ChannelInv, StopWriter
  PROVE  ConnInv'
<1> USE DEF vars, schedVars, pending, executor, connVars, maps, entries, registry, reply, bulk
<1>1. ConnTypeOK'
  BY DEF ChannelInv, StopWriter, ConnTypeOK
<1>2. HandleInstalled'
  BY DEF ChannelInv, StopWriter, HandleInstalled, Left, Installed
<1> QED  BY <1>1, <1>2, Frame DEF ConnInv, StopWriter

\* run drops the groups it has not begun.
LEMMA FailQueuedStep ==
  ASSUME ChannelInv, FailQueued
  PROVE  ConnInv'
<1> USE DEF vars, schedVars, pending, executor, connVars, maps, entries, registry, reply, bulk
<1>1. ConnTypeOK'
  BY DEF ChannelInv, FailQueued, CancelAll, ConnTypeOK, Handles, Groups
<1>2. GroupAfterReply'
  BY DEF ChannelInv, FailQueued, CancelAll, GroupAfterReply
<1>3. \A m \in Msgs : /\ group[m] \in {"none", "queued"}
                      /\ group[m] = "queued" => hp[m] = "done" /\ handle'[m] = "cancelled"
                      /\ handle[m] = "cancelled" => handle'[m] = "cancelled"
                      /\ handle[m] # "none" => handle'[m] # "none"
                      /\ Installed(m) => Installed(m)' \/ (hp[m] = "done" /\ handle'[m] = "cancelled")
  BY DEF ChannelInv, FailQueued, CancelAll, GroupAfterReply, Installed
<1>4. HandleInstalled'
  <2> SUFFICES ASSUME NEW k \in Keys, activeHandle[k] # NoMsg
               PROVE  /\ KeyOf[activeHandle[k]] = k /\ ctx[activeHandle[k]] # 0
                      /\ handle'[activeHandle[k]] # "none"
                      /\ Installed(activeHandle[k])' \/ Left(activeHandle[k])'
    BY DEF FailQueued, HandleInstalled
  <2> DEFINE x == activeHandle[k]
  <2>1. x \in Msgs /\ KeyOf[x] = k /\ ctx[x] # 0 /\ handle[x] # "none"
    BY DEF ChannelInv, ConnTypeOK, HandleInstalled
  <2>2. Installed(x)
    BY DEF ChannelInv, HandleInstalled, Left, FailQueued
  <2>3. writer' = "gone" /\ group'[x] = "none" /\ hp' = hp /\ activeHandle' = activeHandle
    BY <2>1 DEF FailQueued
  <2> QED  BY <1>3, <2>1, <2>2, <2>3 DEF Left
<1>5. ActiveIsNewest'
  BY DEF ChannelInv, FailQueued, CancelAll, ActiveIsNewest
<1>6. RequestHandles'
  BY <1>3 DEF ChannelInv, ConnTypeOK, FailQueued, RequestHandles
<1> QED  BY <1>1, <1>2, <1>4, <1>5, <1>6, Frame DEF ConnInv, FailQueued

\* The device sends a request of the same shape again.
LEMMA RenewRequestStep ==
  ASSUME ChannelInv, NEW m \in Msgs, RenewRequest(m)
  PROVE  ConnInv'
<1> USE DEF vars, schedVars, pending, executor, connVars, maps, entries, registry, reply, bulk
<1>1. ConnTypeOK'
  BY DEF ChannelInv, RenewRequest, ConnTypeOK, Stages, Arriving, Handles
<1>2. QueuedRegistered'
  BY DEF ChannelInv, RenewRequest, Over, Renew, QueuedRegistered
<1>3. GroupAfterReply'
  BY DEF ChannelInv, RenewRequest, Over, GroupAfterReply, ConnTypeOK, Arriving
<1>4. HandleInstalled'
  BY DEF ChannelInv, RenewRequest, HandleInstalled, Left, Installed
<1>5. ActiveIsNewest'
  BY DEF ChannelInv, RenewRequest, ActiveIsNewest
<1>6. EntriesHeld'
  BY DEF ChannelInv, RenewRequest, Over, Renew, EntriesHeld, PendingHeld, ConnTypeOK
<1>7. RequestHandles'
  BY DEF ChannelInv, RenewRequest, Over, ConnTypeOK, RequestHandles, Installed
<1>8. HistoryUncorrelated'
  BY DEF ChannelInv, RenewRequest, HistoryUncorrelated, ConnTypeOK
<1> QED  BY <1>1, <1>2, <1>3, <1>4, <1>5, <1>6, <1>7, <1>8, Frame DEF ConnInv, RenewRequest, Renew

\* The connection is closed from elsewhere.
LEMMA CloseConnStep ==
  ASSUME ChannelInv, CloseConn
  PROVE  ConnInv'
<1> USE DEF vars, schedVars, pending, executor, connVars, maps, entries, registry, reply, bulk
<1>1. ConnTypeOK'
  BY DEF ChannelInv, CloseConn, CloseEffect, CancelAll, ConnTypeOK, Handles
<1>2. GroupAfterReply'
  BY DEF ChannelInv, CloseConn, CloseEffect, CancelAll, GroupAfterReply
<1>3. HandleInstalled'
  BY DEF ChannelInv, CloseConn, CloseEffect, HandleInstalled
<1>4. ActiveIsNewest'
  BY CloseNewest DEF CloseConn
<1>5. EntriesHeld'
  BY DEF ChannelInv, CloseConn, CloseEffect, EntriesHeld
<1>6. RequestHandles'
  BY DEF ChannelInv, CloseConn, CloseEffect, CancelAll, RequestHandles, Installed,
         ConnTypeOK
<1> QED  BY <1>1, <1>2, <1>3, <1>4, <1>5, <1>6, Frame
            DEF ConnInv, CloseConn, CloseEffect, CancelAll

-----------------------------------------------------------------------------
(* The actions that are the scheduler's too.                               *)

\* The scheduler takes the request in, and its callbacks run.
LEMMA AcceptRequestStep ==
  ASSUME ChannelInv, NEW m \in Msgs, AcceptRequest(m)
  PROVE  ConnInv'
<1> USE DEF vars, schedVars, pending, executor, connVars, maps, entries, registry, reply, bulk
<1>1. /\ reader = m /\ hp[m] = "registered" /\ reader' = NoMsg
      /\ Admit(m) /\ ~sent[m] /\ SchedInv /\ KeyOf[m] \in Keys
      /\ UNCHANGED <<closed, methods, corrs, reqHandles, registry, ctx, corr, group, writer>>
  BY SchedulerAssumption DEF AcceptRequest, Enqueue, ChannelInv
<1> DEFINE gone == Superseded(m)
<1>2. /\ Held(queues') = (Held(queues) \ gone) \cup {m} /\ m \notin Held(queues)
      /\ gone \subseteq Held(queues) /\ Held(queues) \subseteq Msgs
  BY <1>1, AdmitQueues, SupersededHeld, HeldHome DEF SchedInv
<1>3. /\ classes' = classes \ gone
      /\ hp' = [x \in Msgs |-> IF x \in gone THEN "superseded" ELSE hp[x]]
      /\ contexts' = ContextsAfter(m)
      /\ gens' = IF Replaces(m) THEN [gens EXCEPT ![KeyOf[m]] = @ + 1] ELSE gens
      /\ handle' = CancelAll(AdvanceCancels(m))
      /\ activeHandle' = IF Replaces(m) THEN [activeHandle EXCEPT ![KeyOf[m]] = NoMsg]
                         ELSE activeHandle
  BY DEF AcceptRequest
<1>4. \A x \in gone : hp[x] = "registered" /\ handle[x] = "none"
                        /\ group[x] = "none" /\ x # m
                    /\ corrs[x] = NoCorr
  BY <1>1, <1>2, SupersededHeld
     DEF ChannelInv, SchedInv, QueuedRegistered, GroupAfterReply, HistoryUncorrelated, Arriving
<1>5. \A x \in Msgs : /\ handle'[x] # "none" <=> handle[x] # "none"
                      /\ handle'[x] = "active" => handle[x] = "active"
                      /\ handle[x] \in {"active", "cancelled"} => handle'[x] \in {"active", "cancelled"}
                      /\ handle'[x] \in Handles
  BY <1>3 DEF CancelAll, ChannelInv, ConnTypeOK, Handles
<1>6. contexts' \in [Msgs -> Nat]
      /\ \A x \in Msgs : contexts'[x] # 0 => x = m \/ (x \notin gone /\ contexts[x] # 0)
  <2>1. \A x \in Msgs : contexts[x] \in Nat /\ gens[KeyOf[m]] + 1 \in Nat
    BY <1>1 DEF ChannelInv, ConnTypeOK
  <2> HIDE DEF gone
  <2>2. contexts' = [x \in Msgs |-> IF x = m /\ Replaces(m) THEN gens[KeyOf[m]] + 1
                                   ELSE IF x \in gone THEN 0 ELSE contexts[x]]
    BY <1>3 DEF ContextsAfter, gone
  <2> QED  BY <2>1, <2>2
<1> HIDE DEF gone
<1>7. ConnTypeOK'
  <2>1. hp' \in [Msgs -> Stages]
    BY <1>3 DEF ChannelInv, ConnTypeOK, Stages
  <2>2. handle' \in [Msgs -> Handles]
    BY <1>3, <1>5 DEF CancelAll
  <2>3. gens' \in [Keys -> Nat] /\ activeHandle' \in [Keys -> Msgs \cup {NoMsg}]
    BY <1>1, <1>3 DEF ChannelInv, ConnTypeOK
  <2> QED  BY <1>1, <1>3, <1>6, <2>1, <2>2, <2>3 DEF ChannelInv, ConnTypeOK
<1>8. QueuedRegistered'
  BY <1>1, <1>2, <1>3, SchedulerAssumption DEF ChannelInv, QueuedRegistered
<1>9. GroupAfterReply'
  BY <1>1, <1>3, <1>4, <1>5 DEF ChannelInv, ConnTypeOK, GroupAfterReply, Arriving, Handles
<1>10. HandleInstalled'
  <2> SUFFICES ASSUME NEW k \in Keys, activeHandle'[k] # NoMsg
               PROVE  /\ KeyOf[activeHandle'[k]] = k /\ ctx[activeHandle'[k]] # 0
                      /\ handle'[activeHandle'[k]] # "none"
                      /\ Installed(activeHandle[k])' \/ Left(activeHandle[k])'
    BY <1>1 DEF HandleInstalled
  <2> DEFINE x == activeHandle[k]
  <2>1. activeHandle'[k] = x /\ x \in Msgs
    BY <1>1, <1>3 DEF ChannelInv, ConnTypeOK
  <2>2. KeyOf[x] = k /\ ctx[x] # 0 /\ handle[x] # "none" /\ (Installed(x) \/ Left(x))
    BY <2>1 DEF ChannelInv, HandleInstalled
  <2>3. x \notin gone
    BY <1>4, <2>2 DEF Left
  <2> HIDE DEF x
  <2>4. /\ hp'[x] = hp[x] /\ group'[x] = group[x] /\ handle'[x] # "none"
        /\ handle[x] = "cancelled" => handle'[x] = "cancelled"
    BY <1>1, <1>3, <1>5, <2>1, <2>2, <2>3 DEF CancelAll
  <2> QED  BY <1>1, <2>1, <2>2, <2>4 DEF Installed, Left
<1>11. ActiveIsNewest'
  <2> SUFFICES ASSUME NEW x \in Msgs, handle'[x] = "active", ctx[x] # 0
               PROVE  activeHandle'[KeyOf[x]] = x /\ gens'[KeyOf[x]] = ctx[x]
    BY <1>1 DEF ActiveIsNewest
  <2>1. /\ handle[x] = "active" /\ KeyOf[x] \in Keys
        /\ activeHandle[KeyOf[x]] = x /\ gens[KeyOf[x]] = ctx[x] /\ x # NoMsg
    BY <1>5, SchedulerAssumption DEF ChannelInv, ActiveIsNewest
  <2>2. ~(Replaces(m) /\ KeyOf[x] = KeyOf[m])
    BY <1>3, <2>1 DEF CancelAll, AdvanceCancels
  <2> QED  BY <1>1, <1>3, <2>1, <2>2 DEF ChannelInv, ConnTypeOK
<1>12. EntriesHeld'
  <2> SUFFICES ASSUME ~closed, NEW x \in Msgs
               PROVE  /\ x \in classes' \/ corrs[x] # NoCorr \/ contexts'[x] # 0
                           => x \in Held(queues') \/ hp'[x] \in {"serving", "unanswered"}
                      /\ x \in methods
                           => x \in Held(queues') \/ hp'[x] \in {"serving", "unanswered", "superseded"}
    BY <1>1 DEF EntriesHeld, PendingHeld
  <2>1. /\ x \in classes \/ corrs[x] # NoCorr \/ contexts[x] # 0
             => reader = x \/ x \in Held(queues) \/ hp[x] \in {"serving", "unanswered"}
        /\ x \in methods
             => reader = x \/ x \in Held(queues) \/ hp[x] \in {"serving", "unanswered", "superseded"}
    BY DEF ChannelInv, EntriesHeld, PendingHeld
  <2>2. CASE x \in gone
    BY <1>1, <1>2, <1>3, <1>4, <1>6, <2>2
  <2>3. CASE x \notin gone
    BY <1>1, <1>2, <1>3, <1>6, <2>1, <2>3
  <2> QED  BY <2>2, <2>3
<1>13. RequestHandles'
  <2>1. \A x \in Msgs : /\ handle[x] = "cancelled" => handle'[x] = "cancelled"
                        /\ Installed(x) => Installed(x)'
    BY <1>1, <1>3, <1>4 DEF CancelAll, Installed
  <2>2. reqHandles' = reqHandles /\ reqHandles \subseteq Msgs
    BY <1>1 DEF ChannelInv, ConnTypeOK
  <2> QED  BY <2>1, <2>2 DEF ChannelInv, RequestHandles
<1> QED  BY <1>1, <1>7, <1>8, <1>9, <1>10, <1>11, <1>12, <1>13, Frame DEF ConnInv

\* run takes the next request, and its handler begins.
LEMMA DispatchStep ==
  ASSUME ChannelInv, Dispatch
  PROVE  ConnInv'
<1> USE DEF vars, schedVars, pending, executor, connVars, maps, entries, registry, reply, bulk
<1> DEFINE m == running'
<1>1. /\ m \in Held(queues) /\ Held(queues') = Held(queues) \ {m}
      /\ m \in Msgs /\ Held(queues) \subseteq Msgs
  BY PopQueues, HeldHome DEF Dispatch, ChannelInv, SchedInv
<1>2. /\ hp' = [hp EXCEPT ![m] = "serving"]
      /\ UNCHANGED <<closed, reader, maps, registry, ctx, corr, bulk, writer>>
  BY DEF Dispatch
<1> HIDE DEF m
<1>3. hp[m] = "registered" /\ handle[m] = "none" /\ group[m] = "none"
  BY <1>1 DEF ChannelInv, QueuedRegistered, GroupAfterReply, Arriving
<1>4. ConnTypeOK'
  BY <1>1, <1>2 DEF ChannelInv, ConnTypeOK, Stages
<1>5. QueuedRegistered'
  BY <1>1, <1>2 DEF ChannelInv, ConnTypeOK, QueuedRegistered
<1>6. GroupAfterReply'
  BY <1>1, <1>2, <1>3 DEF ChannelInv, ConnTypeOK, GroupAfterReply, Arriving
<1>7. HandleInstalled'
  BY <1>1, <1>2, <1>3 DEF ChannelInv, ConnTypeOK, HandleInstalled, Left, Installed
<1>8. EntriesHeld'
  BY <1>1, <1>2 DEF ChannelInv, ConnTypeOK, EntriesHeld, PendingHeld
<1>9. RequestHandles'
  BY <1>1, <1>2, <1>3 DEF ChannelInv, ConnTypeOK, RequestHandles, Installed
<1> QED  BY <1>2, <1>4, <1>5, <1>6, <1>7, <1>8, <1>9, Frame DEF ConnInv

\* The steps of the executor and of the reader that the connection does not see.
LEMMA UnseenStep ==
  ASSUME ChannelInv, UNCHANGED <<queues, connVars>>
  PROVE  ConnInv'
<1> USE DEF connVars, maps, entries, registry, reply, bulk
<1>1. ConnTypeOK'
  BY DEF ChannelInv, ConnTypeOK
<1> QED  BY <1>1, Frame DEF ConnInv

-----------------------------------------------------------------------------
(* The invariant of the scheduler.                                         *)

\* A step of the connection is one of the scheduler, or leaves it alone, but for
\* the request that a closed connection refuses on behalf of its scheduler.
LEMMA SchedulerStep ==
  ASSUME ChannelInv, [Next]_vars
  PROVE  SchedInv'
<1> USE DEF pending, executor
<1>1. CASE UNCHANGED schedVars
  <2>1. [SchedNext]_schedVars
    BY <1>1
  <2> QED  BY <2>1, SchedInvStep DEF ChannelInv
<1>2. ASSUME NEW m \in Msgs, RejectRequest(m) PROVE SchedInv'
  <2>1. SchedTypeOK' /\ HeldSent' /\ WakeupKept'
    BY <1>2, HeldHome
       DEF RejectRequest, ChannelInv, SchedInv, SchedTypeOK, HeldSent, WakeupKept, HasWork
  <2> QED  BY <1>2, <2>1, QuietInv DEF RejectRequest, ChannelInv
<1>3. CASE SchedNext
  BY <1>3, SchedInvStep DEF ChannelInv
<1>4. ASSUME NEW m \in Msgs,
             Receive(m) \/ Register(m) \/ Reply(m) \/ CancelRequest(m) \/ Writer(m)
      PROVE  UNCHANGED schedVars
  BY <1>4 DEF Receive, Register, Reply, CancelRequest, Writer, Unanswered, ReplyWhole, ReplyGroup,
              InstallHandle, Correlate, CorrelateFails, InstallRequestHandle, AdmitOk,
              AdmitFails, Delivered, CloseReply, BeginGroup, EndGroup, DropHandles,
              RetireGroup, CloseFailed
<1>5. ASSUME NEW m \in Msgs, AcceptRequest(m) \/ RenewRequest(m) PROVE SchedNext
  BY <1>5 DEF AcceptRequest, RenewRequest, SchedNext
<1>6. CASE Dispatch \/ HandlerReturns \/ StopScheduler \/ ExecutorStep
  BY <1>3, <1>6
     DEF Dispatch, HandlerReturns, StopScheduler, ExecutorStep, SchedNext, SchedRun
<1>7. CASE CloseConn \/ StopWriter \/ FailQueued \/ UNCHANGED vars
  BY <1>1, <1>7 DEF CloseConn, StopWriter, FailQueued, vars
<1> QED  BY <1>1, <1>2, <1>3, <1>4, <1>5, <1>6, <1>7 DEF Next

-----------------------------------------------------------------------------
(* The theorems.                                                           *)

\* The new connection satisfies the invariant.
LEMMA ChannelInvInit == Init => ChannelInv
<1> SUFFICES ASSUME Init PROVE ChannelInv
  OBVIOUS
<1>1. SchedInv
  BY SchedInvInit DEF Init
<1>2. Held(queues) = {}
  BY DEF Init, SchedInit, Held, Members
<1>3. ConnTypeOK
  BY DEF Init, ConnTypeOK, Stages, Arriving, Handles, Groups
<1>4. QueuedRegistered /\ GroupAfterReply /\ HandleInstalled /\ RequestHandles
  BY <1>2 DEF Init, QueuedRegistered, GroupAfterReply, HandleInstalled, RequestHandles
<1>5. ActiveIsNewest /\ EntriesHeld /\ HistoryUncorrelated /\ UsedRemembered
  BY FS_EmptySet DEF Init, ActiveIsNewest, EntriesHeld, HistoryUncorrelated, UsedRemembered
<1> QED  BY <1>1, <1>3, <1>4, <1>5 DEF ChannelInv

\* Every step keeps the invariant.
LEMMA ChannelInvStep == ChannelInv /\ [Next]_vars => ChannelInv'
<1> SUFFICES ASSUME ChannelInv, [Next]_vars PROVE ConnInv'
  BY SchedulerStep DEF ChannelInv, ConnInv
<1>1. ASSUME NEW m \in Msgs, Receive(m) \/ Register(m) \/ AcceptRequest(m) \/ RejectRequest(m)
      PROVE  ConnInv'
  BY <1>1, ReceiveStep, RegisterStep, AcceptRequestStep, RejectRequestStep
<1>2. ASSUME NEW m \in Msgs, Reply(m) PROVE ConnInv'
  BY <1>2, UnansweredStep, ReplyWholeStep, ReplyGroupStep, InstallHandleStep, CorrelateStep,
     CorrelateFailsStep, InstallRequestHandleStep, AdmitOkStep, AdmitFailsStep,
     DeliveredStep, CloseReplyStep DEF Reply
<1>3. ASSUME NEW m \in Msgs, CancelRequest(m) \/ RenewRequest(m) PROVE ConnInv'
  BY <1>3, CancelRequestStep, RenewRequestStep
<1>4. ASSUME NEW m \in Msgs, Writer(m) PROVE ConnInv'
  BY <1>4, BeginGroupStep, EndGroupStep, DropHandlesStep, RetireGroupStep,
     CloseFailedStep DEF Writer
<1>5. CASE HandlerReturns \/ StopScheduler \/ ExecutorStep \/ UNCHANGED vars
  <2>1. UNCHANGED <<queues, connVars>>
    BY <1>5 DEF HandlerReturns, StopScheduler, ExecutorStep, vars, schedVars, pending,
                Dispatched, CloseScheduler, TakeWake, Exit, PopNone, Signal
  <2> QED  BY <2>1, UnseenStep
<1>6. CASE Dispatch \/ CloseConn \/ StopWriter \/ FailQueued
  BY <1>6, DispatchStep, CloseConnStep, StopWriterStep, FailQueuedStep
<1> QED  BY <1>1, <1>2, <1>3, <1>4, <1>5, <1>6 DEF Next

\* The invariant holds in every reachable state.
LEMMA ChannelInvariant == Spec => []ChannelInv
  BY ChannelInvInit, ChannelInvStep, PTL DEF Spec

\* Every variable of the connection and of its scheduler keeps its type.
THEOREM ChannelTypes == Spec => [](SchedTypeOK /\ ConnTypeOK)
<1>1. ChannelInv => SchedTypeOK /\ ConnTypeOK
  BY DEF ChannelInv, SchedInv
<1> QED  BY <1>1, ChannelInvariant, PTL

\* The scheduler's counters stay exact and no wakeup is lost (QueueCounted,
\* WakeupKept) on a connection too, whose Close stops it at any time.
THEOREM ChannelScheduler == Spec => [](QueueCounted /\ WakeupKept)
<1>1. ChannelInv => QueueCounted /\ WakeupKept
  BY CountedQueues DEF ChannelInv, SchedInv
<1> QED  BY <1>1, ChannelInvariant, PTL

\* A session's active handle is that of a group in flight, or of one that failQueued
\* has cancelled (SessionHandleLive), however SendResult, supersession, the writer with
\* its end, and Close interleave.
THEOREM SessionHandleSafe == Spec => []SessionHandleLive
<1>1. ChannelInv => SessionHandleLive
  <2> SUFFICES ASSUME ChannelInv, NEW k \in Keys, activeHandle[k] # NoMsg
               PROVE  /\ KeyOf[activeHandle[k]] = k
                      /\ handle[activeHandle[k]] # "none"
                      /\ ~InFlight(activeHandle[k])
                           => writer = "gone" /\ handle[activeHandle[k]] = "cancelled"
    BY DEF SessionHandleLive
  <2> QED  BY DEF ChannelInv, HandleInstalled, Left, Installed, InFlight, Replying
<1> QED  BY <1>1, ChannelInvariant, PTL

\* The five per-request tables of an open connection hold nothing but entries of
\* requests without a reply yet, handles of groups in flight, and what three ways of
\* ending leave behind (RequestEntriesLive).
THEOREM RequestEntriesSafe == Spec => []RequestEntriesLive
<1>1. ChannelInv => RequestEntriesLive
  <2> SUFFICES ASSUME ChannelInv, ~closed, NEW m \in Msgs
               PROVE  /\ m \in classes \/ corrs[m] # NoCorr \/ contexts[m] # 0
                           => Pending(m) \/ hp[m] = "unanswered"
                      /\ m \in methods
                           => Pending(m) \/ hp[m] \in {"unanswered", "superseded"}
                      /\ m \in reqHandles => InFlight(m) \/ handle[m] = "cancelled"
    BY DEF RequestEntriesLive
  <2>1. PendingHeld(m) <=> Pending(m)
    BY WaitingHeld DEF ChannelInv, SchedInv, PendingHeld, Pending
  <2>2. m \in reqHandles => InFlight(m) \/ handle[m] = "cancelled"
    BY DEF ChannelInv, RequestHandles, Installed, InFlight, Replying
  <2> QED  BY <2>1, <2>2 DEF ChannelInv, EntriesHeld
<1> QED  BY <1>1, ChannelInvariant, PTL

\* A correlation is admitted a second time only if the retired set was full when its
\* group ended (CorrelationRemembered), for any number of correlations.
THEOREM CorrelationSafe == Spec => []CorrelationRemembered
<1>1. ChannelInv => CorrelationRemembered
  <2> SUFFICES ASSUME ChannelInv, NEW x \in Corrs, uses[x] > 1
               PROVE  x \notin corrRetired /\ Cardinality(corrRetired) >= MaxRetired
    BY DEF CorrelationRemembered
  <2>1. uses[x] \in Nat /\ uses[x] # 0 /\ uses[x] # 1
    BY DEF ChannelInv, ConnTypeOK
  <2>2. x \notin corrRetired /\ ~(Cardinality(corrRetired) < MaxRetired)
    BY <2>1 DEF ChannelInv, UsedRemembered
  <2>3. Cardinality(corrRetired) \in Nat /\ MaxRetired \in Nat
    BY FS_CardinalityType, ChannelAssumption DEF ChannelInv, UsedRemembered
  <2> QED  BY <2>2, <2>3
<1> QED  BY <1>1, ChannelInvariant, PTL

\* The group of a history read begins only while no newer read of its session has
\* been received (SupersededNeverBegins).
THEOREM SupersededSafe == Spec => SupersededNeverBegins
<1>1. ChannelInv /\ [Next]_vars =>
        [\A m \in Msgs :
           handle[m] = "active" /\ handle'[m] = "committed" /\ ctx[m] # 0
             => gens[KeyOf[m]] = ctx[m]]_vars
  BY DEF ChannelInv, ActiveIsNewest
<1> QED  BY <1>1, ChannelInvariant, PTL DEF Spec, SupersededNeverBegins
=============================================================================

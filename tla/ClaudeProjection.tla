-------------------------- MODULE ClaudeProjection --------------------------
(***************************************************************************)
(* How one Claude session's transcript becomes the projection a phone      *)
(* reads: ProjectionKernel's hydrate transaction and reducer               *)
(* (projection_kernel.go, projection_reducer.go), the pulls that start it  *)
(* and the goroutine that leads it (handlers_projection.go), the loop that *)
(* relays the growing file (handlers_relay.go) with its source ledger      *)
(* (projection_source_transaction.go), the coverage registry between the   *)
(* two (claude_relay_coverage.go), the asynchronous checkpoint writer, and *)
(* restarts of the bridge.                                                 *)
(*                                                                         *)
(* The transcript is a number of complete records: record 2t-1 is the      *)
(* prompt of turn t, record 2t its final answer. A cut, an offset and the  *)
(* ledger's cursor are numbers of records. Every pull is a cold one (it    *)
(* asks for revision 0) of a session with one transcript segment, whose    *)
(* agent is not attached to the bridge, so the file is the only source.    *)
(***************************************************************************)
EXTENDS Integers, Sequences, FiniteSets, SequencesExt

CONSTANTS
  MaxRevisions, \* ProjectionCheckpointPolicy.MaxRevisions
  MaxPulls,     \* bound: get_session_projection requests
  MaxRows,      \* bound: records in the transcript
  MaxProcs,     \* bound: no process starts once there were so many
  MaxBoots      \* bound: starts of the bridge that an operator causes

ASSUME ProjectionAssumption ==
  /\ MaxRevisions \in Nat \ {0} /\ MaxRows \in Nat \ {0}
  /\ MaxPulls \in Nat /\ MaxProcs \in Nat /\ MaxBoots \in Nat

Pulls == 1..MaxPulls

VARIABLES
  rows,         \* complete records in the transcript
  proc,         \* the process that writes it, 0 when there is none
  procs,        \* processes so far
  subscribed,   \* the phone's subscription to the session
  phase,        \* status.Phase of the kernel's session
  committed,    \* the authoritative reducer's projection
  committedCut, \* committedSourceCursor
  tx,           \* the hydrate transaction
  ledger,       \* claudeSourceState: cursor, and the records applied as batches
  relay,        \* claudeSessionFileRelayLoop
  gen,          \* the coverage registry's nextGen
  lease,        \* the coverage registry's lease
  pull,         \* [Pulls -> a request's handler]
  leader,       \* [Pulls -> the goroutine runProjectionHydrateTransaction of a request]
  disk,         \* the checkpoint file
  ckpt,         \* the session's checkpoint writer
  boots,        \* starts of the bridge
  foreign       \* whether a leader has ever committed a transaction that it did not begin

world   == <<rows, proc, procs, subscribed>>
kernel  == <<phase, committed, committedCut, tx>>
cover   == <<gen, lease>>
clients == <<pull, leader>>
store   == <<disk, ckpt>>
vars == <<world, kernel, ledger, relay, cover, clients, store, boots, foreign>>

TurnOf(r) == (r + 1) \div 2
IsUser(r) == r % 2 = 1

-----------------------------------------------------------------------------
(* ProjectionReducer. *)

\* text is what the turns show, in order; open the turns that have no terminal status;
\* active Execution.ActiveTurnID, 0 when the phase is idle; rev SyncRev.
Empty == [text |-> <<>>, turns |-> {}, open |-> {}, active |-> 0, rev |-> 0]

\* A prompt replaces the one its turn already shows; an answer is appended to the text.
\* Both make the turn the running one and settle every other; only the prompt reopens it.
ApplyRow(P, r) ==
  LET t == TurnOf(r) IN
  [text   |-> IF IsUser(r) /\ Contains(P.text, r) THEN P.text ELSE Append(P.text, r),
   turns  |-> P.turns \cup {t},
   open   |-> IF IsUser(r) \/ t \notin P.turns THEN {t} ELSE P.open \cap {t},
   active |-> t,
   rev    |-> P.rev + 1]

\* turn_completed and turn_aborted settle their turn and every other one.
ApplyEnd(P, t) == [P EXCEPT !.turns = @ \cup {t}, !.open = {}, !.active = 0, !.rev = @ + 1]

\* turn_started only arms the turn.
ApplyStart(P, t) == [P EXCEPT !.turns = @ \cup {t}, !.open = @ \cup {t}, !.active = t]

Apply(P, e) ==
  CASE e.ev = "row"   -> ApplyRow(P, e.n)
    [] e.ev = "end"   -> ApplyEnd(P, e.n)
    [] e.ev = "start" -> ApplyStart(P, e.n)

ApplyAll(P, es) == FoldLeft(Apply, P, es)

Row(r)   == [ev |-> "row", n |-> r]
End(t)   == [ev |-> "end", n |-> t]
Start(t) == [ev |-> "start", n |-> t]

\* What a record yields where nothing is held back: a final answer ends its turn.
EventsOf(r) == IF IsUser(r) THEN <<Row(r)>> ELSE <<Row(r), End(TurnOf(r))>>

\* Restore: healProjectionTurnConsistency settles every turn but the running one.
Restored(P) == [P EXCEPT !.open = @ \cap {P.active}]

\* mergeHydrateBaselineWithLiveExecution.
Merged(cold, live) ==
  CASE live = Empty \/ (live.active = 0) = (cold.active = 0) -> cold
    [] live.active # 0 /\ cold.active = 0 ->
         [cold EXCEPT !.active = live.active, !.open = @ \cup ({live.active} \cap cold.turns)]
    [] live.active = 0 /\ cold.active # 0 -> [cold EXCEPT !.active = 0, !.open = {}]

-----------------------------------------------------------------------------
NoTx == [id |-> 0, cut |-> 0, base |-> Empty, armed |-> {}, pending |-> <<>>,
         complete |-> FALSE, live |-> FALSE]
NoRelay == [st |-> "off", pc |-> "idle", gen |-> 0, offset |-> 0, until |-> 0, turn |-> 0,
            pid |-> 0, saw |-> FALSE, held |-> <<>>, died |-> FALSE, running |-> FALSE,
            synth |-> 0]
NoLedger == [cursor |-> -1, graph |-> {}]
NoLease == [gen |-> 0, cut |-> 0]
IdlePull == [pc |-> "idle", cut |-> 0, live |-> FALSE]
IdleLeader == [pc |-> "none", row |-> 0, src |-> 0, gen |-> 0, turns |-> {}, leased |-> FALSE,
               snap |-> Empty]
None == [cut |-> 0, proj |-> Empty]
NoCkpt == [pending |-> None, writing |-> None, timer |-> FALSE, force |-> FALSE, saved |-> 0]

Init ==
  /\ rows = 1 /\ proc \in {0, 1} /\ procs = proc /\ subscribed = FALSE
  /\ phase = "cold" /\ committed = Empty /\ committedCut = 0 /\ tx = NoTx
  /\ ledger = NoLedger /\ relay = NoRelay /\ gen = 0 /\ lease = NoLease
  /\ pull = [p \in Pulls |-> IdlePull] /\ leader = [p \in Pulls |-> IdleLeader]
  /\ disk = None /\ ckpt = NoCkpt /\ boots = 1 /\ foreign = FALSE

-----------------------------------------------------------------------------
(* The world: a process that writes, and a phone that leaves. *)

AppendRow ==
  /\ proc # 0 /\ rows < MaxRows
  /\ rows' = rows + 1
  /\ UNCHANGED <<proc, procs, subscribed, kernel, ledger, relay, cover, clients, store, boots, foreign>>

ProcStarts ==
  /\ proc = 0 /\ procs < MaxProcs
  /\ procs' = procs + 1 /\ proc' = procs'
  /\ UNCHANGED <<rows, subscribed, kernel, ledger, relay, cover, clients, store, boots, foreign>>

ProcDies ==
  /\ proc # 0
  /\ proc' = 0
  /\ UNCHANGED <<rows, procs, subscribed, kernel, ledger, relay, cover, clients, store, boots, foreign>>

PhoneLeaves ==
  /\ subscribed
  /\ subscribed' = FALSE
  /\ UNCHANGED <<rows, proc, procs, kernel, ledger, relay, cover, clients, store, boots, foreign>>

-----------------------------------------------------------------------------
(* The kernel. *)

Hydrating == phase = "hydrating"

\* MarkFailed: whatever transaction there is goes, with what it has queued.
MarkFailed == phase' = "failed" /\ tx' = NoTx /\ UNCHANGED <<committed, committedCut>>

\* IngestLive.
Ingest(es) ==
  IF Hydrating
  THEN tx' = [tx EXCEPT !.pending = @ \o es] /\ UNCHANGED <<phase, committed, committedCut>>
  ELSE committed' = ApplyAll(committed, es) /\ UNCHANGED <<phase, committedCut, tx>>

\* ApplyHydrateEvent: into the transaction of the moment, whoever leads it.
ApplyHydrate(es) ==
  IF Hydrating
  THEN /\ tx' = [tx EXCEPT !.base = ApplyAll(@, es),
                           !.armed = @ \cup {IF e.ev = "row" THEN TurnOf(e.n) ELSE e.n : e \in Range(es)}]
       /\ UNCHANGED <<phase, committed, committedCut>>
  ELSE UNCHANGED kernel

\* WaitHydrateCommitReady's condition.
CommitReady ==
  /\ tx.complete
  /\ tx.live \/ ApplyAll(Restored(tx.base), tx.pending).open \cap tx.armed = {}

\* CommitHydrateTransaction.
Baseline == Restored(Merged(tx.base, committed))
CommitTx ==
  /\ committed' = ApplyAll(Baseline, tx.pending)
  /\ committedCut' = tx.cut /\ phase' = "ready" /\ tx' = NoTx

-----------------------------------------------------------------------------
(* Checkpoints. *)

\* startCheckpointWriteLocked and scheduleCheckpointLocked.
Schedule(c) ==
  IF c.pending = None \/ c.writing # None THEN c
  ELSE IF c.force \/ c.pending.proj.rev - c.saved >= MaxRevisions
       THEN [c EXCEPT !.timer = FALSE, !.writing = c.pending, !.pending = None, !.force = FALSE]
       ELSE [c EXCEPT !.timer = TRUE]

\* StageCheckpoint.
Staged(c, cp, settled) ==
  IF cp.proj.rev <= c.saved /\ c.pending = None THEN c
  ELSE Schedule([c EXCEPT
         !.pending = IF c.pending = None \/ cp.proj.rev >= c.pending.proj.rev THEN cp ELSE c.pending,
         !.force = @ \/ settled])

\* Mutant: the timer's callback does not force the write.
CheckpointTimer_Unforced ==
  /\ ckpt.timer
  /\ ckpt' = Schedule([ckpt EXCEPT !.timer = FALSE])
  /\ UNCHANGED <<world, kernel, ledger, relay, cover, clients, disk, boots, foreign>>

CheckpointTimer ==
  /\ ckpt.timer
  /\ ckpt' = Schedule([ckpt EXCEPT !.timer = FALSE, !.force = TRUE])
  /\ UNCHANGED <<world, kernel, ledger, relay, cover, clients, disk, boots, foreign>>

\* Mutant: an older checkpoint that waits is not dropped.
Written_Keeps(c, ok) ==
  LET saved == IF ok /\ c.writing.proj.rev > c.saved THEN c.writing.proj.rev ELSE c.saved
  IN Schedule([c EXCEPT !.writing = None, !.saved = saved])

\* Save returns; what it could not write is not tried again.
Written(c, ok) ==
  LET saved   == IF ok /\ c.writing.proj.rev > c.saved THEN c.writing.proj.rev ELSE c.saved
      pending == IF c.pending # None /\ c.pending.proj.rev <= saved THEN None ELSE c.pending
  IN Schedule([c EXCEPT !.writing = None, !.saved = saved, !.pending = pending])

\* An error before the rename leaves the file; one after it, when the directory is opened
\* or synced, does not.
CheckpointSaved(ok) ==
  /\ ckpt.writing # None
  /\ disk' \in {ckpt.writing} \cup IF ok THEN {} ELSE {disk}
  /\ ckpt' = Written(ckpt, ok)
  /\ UNCHANGED <<world, kernel, ledger, relay, cover, clients, boots, foreign>>

-----------------------------------------------------------------------------
(* A pull. *)

\* startClaudeSessionFileRelayAt: nothing while a relay runs, or has yet to say it ended.
RelayFrom(offset) ==
  IF relay.st = "off" THEN [NoRelay EXCEPT !.st = "starting", !.offset = offset] ELSE relay

\* handleGetSessionProjection subscribes the phone; prepareProjectionHydrateSource cuts the file.
PullPrepare(p) ==
  /\ pull[p].pc = "idle" /\ \A q \in 1..p-1 : pull[q].pc # "idle"
  /\ subscribed' = TRUE
  /\ pull' = [pull EXCEPT ![p] = [@ EXCEPT !.pc = "prepared", !.cut = rows]]
  /\ UNCHANGED <<rows, proc, procs, kernel, ledger, relay, cover, leader, store, boots, foreign>>

\* The hook that starts the relay at the cut, and the sample of the process.
PullStartRelay(p) ==
  /\ pull[p].pc = "prepared"
  /\ relay' = RelayFrom(pull[p].cut)
  /\ pull' = [pull EXCEPT ![p] = [@ EXCEPT !.pc = "begin", !.live = proc # 0]]
  /\ UNCHANGED <<world, kernel, ledger, cover, leader, store, boots, foreign>>

\* BeginHydrateTransaction up to the load of the checkpoint: the first two return at once
\* (AlreadyReady; a failure whose RetryAt is ahead), the third joins, the last leads.
PullBegin(p) ==
  /\ pull[p].pc = "begin"
  /\ \/ /\ phase = "ready" /\ pull[p].cut = committedCut
        /\ pull' = [pull EXCEPT ![p].pc = "wait"]
        /\ UNCHANGED <<kernel, leader>>
     \/ /\ phase = "failed"
        /\ pull' = [pull EXCEPT ![p].pc = "done"]
        /\ UNCHANGED <<kernel, leader>>
     \/ /\ Hydrating
        /\ pull' = [pull EXCEPT ![p].pc = "wait"]
        /\ UNCHANGED <<kernel, leader>>
     \/ /\ ~Hydrating /\ ~(phase = "ready" /\ pull[p].cut = committedCut)
        /\ phase' = "hydrating"
        /\ tx' = [NoTx EXCEPT !.id = p, !.cut = pull[p].cut, !.live = pull[p].live]
        /\ pull' = [pull EXCEPT ![p].pc = "wait"]
        /\ leader' = [leader EXCEPT ![p].pc = "load"]
        /\ UNCHANGED <<committed, committedCut>>
  /\ UNCHANGED <<world, ledger, relay, cover, store, boots, foreign>>

\* The transaction is over, or the pull's budget is. A Ready answer starts the relay at the
\* committed cursor.
PullReturns(p) ==
  /\ pull[p].pc = "wait" /\ leader[p].pc # "load"
  /\ pull' = [pull EXCEPT ![p].pc = "done"]
  /\ relay' = IF phase = "ready" THEN RelayFrom(committedCut) ELSE relay
  /\ UNCHANGED <<world, kernel, ledger, cover, leader, store, boots, foreign>>

-----------------------------------------------------------------------------
(* The leader: runProjectionHydrateTransaction. *)

At(p, pc) == leader[p].pc = pc
Go(p, pc) == leader' = [leader EXCEPT ![p].pc = pc]

\* Mutant: a checkpoint of an earlier cut is taken too.
LeaderLoads_Older(p) ==
  /\ At(p, "load")
  /\ IF ~Hydrating \/ tx.id # p
     THEN Go(p, "done") /\ pull' = [pull EXCEPT ![p].pc = "done"] /\ UNCHANGED tx
     ELSE /\ LET hit == disk # None /\ disk.cut <= tx.cut
             IN /\ tx' = IF hit THEN [tx EXCEPT !.base = Restored(disk.proj)] ELSE tx
                /\ leader' = [leader EXCEPT ![p] = [@ EXCEPT !.pc = "source",
                                                   !.row = IF hit THEN tx.cut + 1 ELSE 1]]
          /\ UNCHANGED pull
  /\ UNCHANGED <<world, phase, committed, committedCut, ledger, relay, cover, store, boots, foreign>>

\* The rest of BeginHydrateTransaction, in the pull's own goroutine. LoadValidated takes a
\* checkpoint of exactly this cut. A transaction that is no longer the pull's is superseded.
LeaderLoads(p) ==
  /\ At(p, "load")
  /\ IF ~Hydrating \/ tx.id # p
     THEN Go(p, "done") /\ pull' = [pull EXCEPT ![p].pc = "done"] /\ UNCHANGED tx
     ELSE /\ LET hit == disk # None /\ disk.cut = tx.cut
             IN /\ tx' = IF hit THEN [tx EXCEPT !.base = Restored(disk.proj)] ELSE tx
                /\ leader' = [leader EXCEPT ![p] = [@ EXCEPT !.pc = "source",
                                                   !.row = IF hit THEN tx.cut + 1 ELSE 1]]
          /\ UNCHANGED pull
  /\ UNCHANGED <<world, phase, committed, committedCut, ledger, relay, cover, store, boots, foreign>>

\* HydrateSource: without a transaction the source is empty, and the whole history is read;
\* with one, nothing is read when the start is the cut already.
LeaderSource(p) ==
  /\ At(p, "source")
  /\ leader' = [leader EXCEPT ![p] =
       IF ~Hydrating THEN [@ EXCEPT !.pc = "produce", !.row = 1, !.src = 0]
       ELSE [@ EXCEPT !.pc = IF leader[p].row > pull[p].cut THEN "cover" ELSE "produce", !.src = tx.cut]]
  /\ UNCHANGED <<world, kernel, ledger, relay, cover, pull, store, boots, foreign>>

LeaderProduces(p) ==
  /\ At(p, "produce")
  /\ LET r    == leader[p].row
         last == IF leader[p].src = 0 THEN rows ELSE leader[p].src
     IN /\ ApplyHydrate(EventsOf(r))
        /\ leader' = [leader EXCEPT ![p] = [@ EXCEPT !.row = r + 1,
                                                     !.pc = IF r >= last THEN "cover" ELSE @]]
  /\ UNCHANGED <<world, ledger, relay, cover, pull, store, boots, foreign>>

Over == [IdleLeader EXCEPT !.pc = "done"]
LeaderEnds(p) == MarkFailed /\ leader' = [leader EXCEPT ![p] = Over]

\* coverClaudeTrailingUnansweredAsk and requestCoverage: an open turn needs the relay's word.
LeaderAsks(p) ==
  /\ At(p, "cover")
  /\ \/ /\ tx.base.open = {}
        /\ Go(p, "mark") /\ UNCHANGED kernel
     \/ /\ tx.base.open # {} /\ relay.st = "on"
        /\ leader' = [leader EXCEPT ![p] = [@ EXCEPT !.pc = "send", !.gen = relay.gen,
                                                     !.turns = tx.base.open]]
        /\ UNCHANGED kernel
     \/ /\ tx.base.open # {} /\ relay.st \in {"off", "ending"}
        /\ LeaderEnds(p)
  /\ UNCHANGED <<world, ledger, relay, cover, pull, store, boots, foreign>>

\* The request goes onto the channel that was read under the lock.
LeaderSends(p) ==
  /\ At(p, "send") /\ relay.st = "on" /\ relay.gen = leader[p].gen
  /\ Go(p, "asked")
  /\ UNCHANGED <<world, kernel, ledger, relay, cover, pull, store, boots, foreign>>

\* settleClaudeCoverageDeadTurns.
LeaderSettles(p) ==
  /\ At(p, "dead")
  /\ ApplyHydrate(SetToSeq({End(t) : t \in leader[p].turns}))
  /\ Go(p, "mark")
  /\ UNCHANGED <<world, ledger, relay, cover, pull, store, boots, foreign>>

\* MarkHydrateSourceIngestComplete.
LeaderMarks(p) ==
  /\ At(p, "mark")
  /\ tx' = IF Hydrating THEN [tx EXCEPT !.complete = TRUE] ELSE tx
  /\ Go(p, "wait")
  /\ UNCHANGED <<world, phase, committed, committedCut, ledger, relay, cover, pull, store, boots, foreign>>

\* WaitHydrateCommitReady: a transaction that is no longer there is an error too.
LeaderWaits(p) ==
  /\ At(p, "wait")
  /\ \/ Hydrating /\ CommitReady /\ Go(p, "commit") /\ UNCHANGED kernel
     \/ ~Hydrating /\ LeaderEnds(p)
  /\ UNCHANGED <<world, ledger, relay, cover, pull, store, boots, foreign>>

\* Mutant: a lease once issued is not looked at again.
LeaseValid_Any(p) == TRUE

\* validateAndCommit: the lease is of the registered relay, and of this cut.
LeaseValid(p) ==
  /\ relay.st = "on" /\ lease.gen = relay.gen /\ lease.cut = pull[p].cut

\* Mutant: a refused commit leaves the transaction as it is.
LeaderCommits_Silent(p) ==
  /\ At(p, "commit")
  /\ IF Hydrating /\ (leader[p].leased => LeaseValid(p))
     THEN /\ CommitTx
          /\ lease' = IF leader[p].leased THEN NoLease ELSE lease
          /\ leader' = [leader EXCEPT ![p] = [@ EXCEPT !.pc = "stage", !.snap = committed']]
          /\ foreign' = (foreign \/ tx.id # p)
     ELSE leader' = [leader EXCEPT ![p] = Over] /\ UNCHANGED <<kernel, lease, foreign>>
  /\ UNCHANGED <<world, ledger, relay, gen, pull, store, boots>>

LeaderCommits(p) ==
  /\ At(p, "commit")
  /\ IF Hydrating /\ (leader[p].leased => LeaseValid(p))
     THEN /\ CommitTx
          /\ lease' = IF leader[p].leased THEN NoLease ELSE lease
          /\ leader' = [leader EXCEPT ![p] = [@ EXCEPT !.pc = "stage", !.snap = committed']]
          /\ foreign' = (foreign \/ tx.id # p)
     ELSE LeaderEnds(p) /\ UNCHANGED <<lease, foreign>>
  /\ UNCHANGED <<world, ledger, relay, gen, pull, store, boots>>

LeaderStages(p) ==
  /\ At(p, "stage")
  /\ ckpt' = IF leader[p].src = 0 THEN ckpt
             ELSE Staged(ckpt, [cut |-> leader[p].src, proj |-> leader[p].snap], leader[p].snap.active = 0)
  /\ leader' = [leader EXCEPT ![p] = Over]
  /\ UNCHANGED <<world, kernel, ledger, relay, cover, pull, disk, boots, foreign>>

\* The background budget ends, the source or the checkpoint cannot be read, or the
\* coverage request times out.
LeaderFails(p) ==
  /\ leader[p].pc \in {"load", "source", "produce", "cover", "send", "asked", "wait"}
  /\ LeaderEnds(p)
  /\ UNCHANGED <<world, ledger, relay, cover, pull, store, boots, foreign>>

-----------------------------------------------------------------------------
(* The relay loop. *)

On == relay.st = "on"

\* The start of the loop: register, the ledger, the first look at process and file.
RelayStarts ==
  /\ relay.st = "starting"
  /\ gen' = gen + 1 /\ lease' = NoLease
  /\ ledger' = IF ledger = NoLedger THEN [NoLedger EXCEPT !.cursor = relay.offset] ELSE ledger
  /\ LET turn == TurnOf(relay.offset)
         arms == proc # 0 /\ IsUser(rows)
     IN /\ relay' = [relay EXCEPT !.st = "on", !.gen = gen', !.pid = proc, !.turn = turn,
                                  !.running = arms]
        /\ IF arms /\ turn # 0 THEN Ingest(<<Start(turn)>>) ELSE UNCHANGED kernel
  /\ UNCHANGED <<world, clients, store, boots, foreign>>

\* handleClaudeCoverageCommand, between two polls.
RelayCovers(p) ==
  /\ On /\ relay.pc = "idle" /\ At(p, "asked") /\ leader[p].gen = relay.gen
  /\ IF proc = 0
     THEN Go(p, "dead") /\ UNCHANGED <<relay, lease>>
     ELSE /\ relay' = [relay EXCEPT !.pid = proc]
          /\ lease' = [gen |-> relay.gen, cut |-> pull[p].cut]
          /\ leader' = [leader EXCEPT ![p] = [@ EXCEPT !.pc = "mark", !.leased = TRUE]]
  /\ UNCHANGED <<world, kernel, ledger, gen, pull, store, boots, foreign>>

\* flushHeldTerminals, one turn_completed per turn.
Held == [i \in DOMAIN relay.held |-> End(relay.held[i])]

\* The deferred unregister: the registry's entry and lease go, relayRunning not yet.
Exits(r) == [r EXCEPT !.st = "ending", !.pc = "idle", !.held = <<>>]

\* synthesizeClaudeTurnAbortedIfNeeded: the file's last record is a prompt.
Aborts == relay.turn # 0 /\ relay.synth # relay.turn /\ IsUser(rows)

\* The top of a poll: bind a process, or see that the bound one is dead.
RelayTicks ==
  /\ On /\ relay.pc = "idle"
  /\ LET pid == IF relay.pid = 0 THEN proc ELSE relay.pid
         dead == pid # 0 /\ pid # proc
         late == relay.pid = 0 /\ proc # 0
         abort == IF Aborts THEN <<End(relay.turn)>> ELSE <<>>
         gone == [relay EXCEPT !.pid = 0, !.died = TRUE, !.running = FALSE,
                               !.synth = IF Aborts THEN relay.turn ELSE @]
     IN \/ /\ dead /\ proc # 0                       \* claudeRelayReplacementRebind
           /\ relay' = [relay EXCEPT !.pid = proc]
           /\ UNCHANGED <<kernel, lease>>
        \/ /\ dead /\ proc = 0 /\ subscribed
           /\ Ingest(abort \o Held)
           /\ relay' = [gone EXCEPT !.pc = "scan", !.held = <<>>]
           /\ UNCHANGED lease
        \/ /\ dead /\ proc = 0 /\ ~subscribed
           /\ Ingest(abort \o Held)
           /\ relay' = Exits(gone)
           /\ lease' = NoLease
        \/ /\ ~dead
           /\ \E flush \in BOOLEAN :
                /\ ((relay.died /\ ~late) \/ ~IsUser(relay.offset)) => flush   \* the answer's text is there
                /\ Ingest(IF flush THEN Held ELSE <<>>)
                /\ relay' = [relay EXCEPT !.pc = "scan", !.pid = pid, !.died = @ /\ ~late,
                                          !.held = IF flush THEN <<>> ELSE @]
           /\ UNCHANGED lease
  /\ UNCHANGED <<world, ledger, gen, clients, store, boots, foreign>>

\* The rest of the poll: the records that are new, or the idle TTL.
RelayScans ==
  /\ On /\ relay.pc = "scan"
  /\ \/ /\ relay.offset < rows
        /\ relay' = [relay EXCEPT !.pc = "rows", !.until = rows]
        /\ UNCHANGED <<kernel, lease>>
     \/ /\ relay.offset >= rows
        /\ relay' = [relay EXCEPT !.pc = "idle"]
        /\ UNCHANGED <<kernel, lease>>
     \/ /\ relay.offset >= rows /\ ~relay.running /\ ~subscribed
        /\ relay.pid = 0 \/ relay.pid # proc
        /\ Ingest(Held)
        /\ relay' = Exits(relay)
        /\ lease' = NoLease
  /\ UNCHANGED <<world, ledger, gen, clients, store, boots, foreign>>

\* applyClaudeLiveSourceRecord reads the phase; a hydrating kernel's ledger is moved past
\* the record at once.
RelayReads ==
  /\ On /\ relay.pc = "rows"
  /\ relay' = [relay EXCEPT !.pc = "deliver", !.saw = Hydrating]
  /\ ledger' = IF Hydrating /\ relay.offset + 1 > ledger.cursor
               THEN [ledger EXCEPT !.cursor = relay.offset + 1] ELSE ledger
  /\ UNCHANGED <<world, kernel, cover, clients, store, boots, foreign>>

\* ApplyClaudeSourceRecordBatch's verdict on record r.
Verdict(r) ==
  CASE r = ledger.cursor + 1                          -> "apply"
    [] r = ledger.cursor \/ (r < ledger.cursor /\ r \in ledger.graph) -> "already"
    [] OTHER                                          -> "reject"

\* The record, as an event for IngestLive or as a batch. The end of a turn is held back in
\* both, and in the batch it is applied as well.
RelayDelivers ==
  /\ On /\ relay.pc = "deliver"
  /\ LET r == relay.offset + 1
         counts == relay.saw \/ Verdict(r) = "apply"
     IN /\ relay' = [relay EXCEPT
             !.offset = r, !.turn = TurnOf(r), !.saw = FALSE,
             !.pc = IF r = relay.until THEN "idle" ELSE "rows",
             !.held = IF counts /\ ~IsUser(r) THEN Append(@, TurnOf(r)) ELSE @,
             !.running = IF counts THEN IsUser(r) ELSE @]
        /\ \/ relay.saw /\ Ingest(<<Row(r)>>) /\ UNCHANGED ledger
           \/ /\ ~relay.saw /\ Verdict(r) = "apply"
              /\ committed' = ApplyAll(committed, EventsOf(r))
              /\ ledger' = [cursor |-> r, graph |-> ledger.graph \cup {r}]
              /\ UNCHANGED <<phase, committedCut, tx>>
           \/ ~relay.saw /\ Verdict(r) = "already" /\ UNCHANGED <<kernel, ledger>>
           \/ ~relay.saw /\ Verdict(r) = "reject" /\ MarkFailed /\ UNCHANGED ledger
  /\ UNCHANGED <<world, cover, clients, store, boots, foreign>>

\* clearRelayKindIf, last of the deferred calls.
RelayEnds ==
  /\ relay.st = "ending"
  /\ relay' = NoRelay
  /\ UNCHANGED <<world, kernel, ledger, cover, clients, store, boots, foreign>>

-----------------------------------------------------------------------------
(* The bridge stops and starts: only the checkpoint file stays, as it was before or    *)
(* after the write that was under way.                                                 *)
Reborn ==
  /\ boots' = boots + 1
  /\ subscribed' = FALSE
  /\ phase' = "cold" /\ committed' = Empty /\ committedCut' = 0 /\ tx' = NoTx
  /\ ledger' = NoLedger /\ relay' = NoRelay /\ gen' = 0 /\ lease' = NoLease
  /\ pull' = [p \in Pulls |-> IF pull[p].pc = "idle" THEN IdlePull ELSE [IdlePull EXCEPT !.pc = "done"]]
  /\ leader' = [p \in Pulls |-> IdleLeader]
  /\ disk' \in {disk} \cup ({ckpt.writing} \ {None})
  /\ ckpt' = NoCkpt
  /\ UNCHANGED <<rows, proc, procs, foreign>>

Restart == boots < MaxBoots /\ Reborn

\* A send on the channel that unregister has closed panics, and the process ends.
LeaderPanics(p) ==
  /\ At(p, "send") /\ ~(relay.st = "on" /\ relay.gen = leader[p].gen)
  /\ Reborn

-----------------------------------------------------------------------------
PullNext(p) == PullPrepare(p) \/ PullStartRelay(p) \/ PullBegin(p) \/ PullReturns(p)
LeaderStep(p) ==
  \/ LeaderLoads(p) \/ LeaderSource(p) \/ LeaderProduces(p) \/ LeaderAsks(p)
  \/ LeaderSends(p) \/ LeaderSettles(p) \/ LeaderMarks(p) \/ LeaderWaits(p)
  \/ LeaderCommits(p) \/ LeaderStages(p) \/ LeaderPanics(p)
RelayStep ==
  \/ RelayStarts \/ RelayTicks \/ RelayScans \/ RelayReads \/ RelayDelivers \/ RelayEnds

Next ==
  \/ AppendRow \/ ProcStarts \/ ProcDies \/ PhoneLeaves
  \/ \E p \in Pulls : PullNext(p) \/ LeaderStep(p) \/ LeaderFails(p) \/ RelayCovers(p)
  \/ RelayStep
  \/ CheckpointTimer \/ \E ok \in BOOLEAN : CheckpointSaved(ok)
  \/ Restart

Spec == Init /\ [][Next]_vars

\* Goroutines, tickers and timers run, and the budget of a leader that gets nowhere ends.
\* Nothing is assumed of the process or of the phone.
Fairness ==
  /\ WF_vars(RelayStep) /\ WF_vars(CheckpointTimer)
  /\ WF_vars(\E ok \in BOOLEAN : CheckpointSaved(ok))
  /\ \A p \in Pulls :
       /\ WF_vars(LeaderStep(p))
       /\ WF_vars(PullStartRelay(p) \/ PullBegin(p))
       /\ SF_vars(RelayCovers(p))
       /\ WF_vars(LeaderFails(p))

FairSpec == Spec /\ Fairness

-----------------------------------------------------------------------------
(* Properties. *)

Shown(P) == Range(P.text)

\* The leader of p commits the transaction that p began.
OwnCommit(p) == At(p, "commit") /\ leader'[p].pc = "stage" /\ tx.id = p

\* No leader of an earlier, failed transaction is still at work.
Lone(p) == \A q \in Pulls \ {p} : leader[q].pc \in {"none", "load", "stage", "done"}

\* As long as no leader has committed another pull's transaction, a commit publishes every
\* record below the cut the phone was promised: a leader that goes on after its transaction
\* failed, and reads into or marks the transaction of the moment, a checkpoint of another cut,
\* and a relay that feeds the transaction meanwhile, take nothing away (LoadValidated,
\* ApplyHydrateEvent, MarkHydrateSourceIngestComplete, CommitHydrateTransaction). A foreign
\* commit does: it publishes what its owner has read so far, and stages it as the checkpoint
\* of a cut.
CommitCovers ==
  [][\A p \in Pulls : OwnCommit(p) /\ ~foreign => 1..tx.cut \subseteq Shown(committed')]_vars

\* A turn that is open at the cut is committed as open only while the relay loop that was
\* asked about it is still the registered one and holds a lease of this cut: when the loop
\* ended or was replaced after it answered, the commit is refused (requestCoverage,
\* unregister, validateAndCommit).
CommitPinned ==
  [][\A p \in Pulls : OwnCommit(p) /\ Lone(p) /\ tx.base.open # {} =>
       On /\ lease.gen = relay.gen /\ lease.cut = tx.cut]_vars

\* A checkpoint whose Save succeeded is not replaced by an older one while the bridge runs,
\* however stagings, the timer and slow or failed writes interleave, so that what StageCheckpoint
\* drops as already persisted is in the file. Nothing is said of a file that a failed Save
\* renamed into place, nor of the file that an earlier bridge left (StageCheckpoint,
\* startCheckpointWriteLocked, Save).
SavedKept == ckpt.saved # 0 => disk.proj.rev >= ckpt.saved

\* A staged checkpoint does not wait for ever: it is handed to a write, or superseded
\* (scheduleCheckpointLocked, the timer).
CheckpointSettles == ckpt.pending # None ~> ckpt.pending = None

\* A hydrate transaction ends, committed or failed, also when the relay that was to cover
\* it ends, the process dies or the lease is lost (runProjectionHydrateTransaction).
HydrateEnds == Hydrating ~> ~Hydrating

\* The comment in applyClaudeLiveSourceRecord: the batch "cannot run here: it swaps the
\* committed reducer, which CommitHydrateTransaction would overwrite". So what the relay has
\* delivered is in a projection that is ready.
RelayedShown ==
  phase = "ready" /\ On /\ relay.pc = "idle" => 1..relay.offset \subseteq Shown(committed)
=============================================================================

------------------------- MODULE MCClaudeProjection -------------------------
(* ClaudeProjection for TLC: its constants are the bounds the configurations give. *)
EXTENDS ClaudeProjection

\* A state the bridge reaches: an earlier start loaded the first record and saved the
\* cut 1; this start began its first pull from that checkpoint and the relay at the
\* ledger's record 1; then the claude process ended with its relay, the second record
\* came, and a second process runs, nobody subscribed to it yet.
Reopened ==
  /\ rows = 2 /\ proc = 2 /\ procs = 2 /\ subscribed = FALSE
  /\ phase = "cold" /\ committed = Empty /\ committedCut = 0 /\ tx = NoTx
  /\ ledger = [NoLedger EXCEPT !.cursor = 1]
  /\ relay = NoRelay /\ gen = 1 /\ lease = NoLease
  /\ pull = [[p \in Pulls |-> IdlePull] EXCEPT ![1] = [pc |-> "begin", cut |-> 1, live |-> TRUE]]
  /\ leader = [p \in Pulls |-> IdleLeader]
  /\ disk = [cut |-> 1, proj |-> ApplyAll(Empty, EventsOf(1))]
  /\ ckpt = NoCkpt /\ boots = 2 /\ foreign = FALSE

\* The bridge from there on.
ReopenedSpec == Reopened /\ [][Next]_vars
=============================================================================

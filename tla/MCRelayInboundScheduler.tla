----------------------- MODULE MCRelayInboundScheduler -----------------------
(* Instances of RelayInboundScheduler for TLC. *)
EXTENDS RelayInboundScheduler, TLC

CONSTANTS m1, m2, m3, m4, m5, ka, fifo

\* Two history reads and an interactive request of one session, and two history
\* reads without a session.
MixKey     == m1 :> ka @@ m2 :> ka @@ m3 :> ka @@ m4 :> fifo @@ m5 :> fifo
MixClass   == m1 :> 4 @@ m2 :> 4 @@ m3 :> 1 @@ m4 :> 4 @@ m5 :> 4
MixHistory == m1 :> TRUE @@ m2 :> TRUE @@ m3 :> FALSE @@ m4 :> TRUE @@ m5 :> TRUE
MixBytes   == m1 :> 2 @@ m2 :> 1 @@ m3 :> 1 @@ m4 :> 1 @@ m5 :> 1
=============================================================================

------------------------ MODULE MCRelayServerSockets ------------------------
(* Instances of RelayServerSockets for TLC. *)
EXTENDS RelayServerSockets, TLC

CONSTANTS b1, b2, p1, p2, d1, d2

SoleDevice == p1 :> d1
\* Two sockets of one device: the old one and the one that replaces it.
OneDevice  == p1 :> d1 @@ p2 :> d1

\* Two frames of the first bridge and two of its successor, for that device.
SwapFrames == 1..4
SwapSrc    == 1 :> b1 @@ 2 :> b1 @@ 3 :> b2 @@ 4 :> b2
SwapKind   == 1 :> "online" @@ 2 :> "hello" @@ 3 :> "mailbox" @@ 4 :> "online"

\* Three frames of one bridge.
FlowFrames == 1..3
FlowSrc    == [f \in FlowFrames |-> b1]
FlowKind   == 1 :> "online" @@ 2 :> "mailbox" @@ 3 :> "online"

AllToOne  == [f \in Frames |-> d1]
UnitBytes == [f \in Frames |-> 1]
=============================================================================

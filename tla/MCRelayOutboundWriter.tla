------------------------ MODULE MCRelayOutboundWriter ------------------------
(* Instances of RelayOutboundWriter for TLC. *)
EXTENDS RelayOutboundWriter, TLC

CONSTANTS c1, c2, d1, d2, j1, j2, j3

SoleDevice == c1 :> d1
TwoDevices == c1 :> d1 @@ c2 :> d2

\* Two groups and a whole frame on one connection.
GroupConn   == j1 :> c1 @@ j2 :> c1 @@ j3 :> c1
GroupClass  == j1 :> Bulk @@ j2 :> Bulk @@ j3 :> Interactive
GroupBytes  == j1 :> 2 @@ j2 :> 1 @@ j3 :> 1
GroupChunks == j1 :> 2 @@ j2 :> 2 @@ j3 :> 0

\* Three metadata frames, two of one device.
TurnConn   == j1 :> c1 @@ j2 :> c1 @@ j3 :> c2
TurnClass  == j1 :> Metadata @@ j2 :> Metadata @@ j3 :> Metadata
TurnBytes  == j1 :> 1 @@ j2 :> 1 @@ j3 :> 1
TurnChunks == j1 :> 0 @@ j2 :> 0 @@ j3 :> 0

\* A control, an interactive and a normal frame.
ServeConn  == j1 :> c1 @@ j2 :> c1 @@ j3 :> c1
ServeClass == j1 :> Control @@ j2 :> Interactive @@ j3 :> Normal
=============================================================================

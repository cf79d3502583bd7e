----------------------- MODULE MCRelayOfflineDelivery -----------------------
(* Instances of RelayOfflineDelivery for TLC. *)
EXTENDS RelayOfflineDelivery, TLC

CONSTANTS d1, s1, k1, k2

Frames == [ev: 1..MaxPublished, boot: 1..MaxBoots, epoch: 1..2, counter: 1..MaxPublished]
UnitSize == [e \in Frames |-> 1]
=============================================================================

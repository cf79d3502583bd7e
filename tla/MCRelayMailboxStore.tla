------------------------ MODULE MCRelayMailboxStore ------------------------
(* Instances of RelayMailboxStore for TLC. *)
EXTENDS RelayMailboxStore, TLC

CONSTANTS d1, s1, small, large

TwoSizes == small :> 1 @@ large :> 2
=============================================================================

------------------------- MODULE MCRelayDeviceChannel -------------------------
(* Instances of RelayDeviceChannel for TLC. *)
EXTENDS RelayDeviceChannel, TLC

CONSTANTS m1, m2, m3, m4, ka, fifo, x1, x2

ReadClass == [m \in Msgs |-> 4]
ReadBytes == [m \in Msgs |-> 1]

\* Two history reads of one session, and two file reads that choose between the same
\* two correlations.
ReadKey     == m1 :> ka @@ m2 :> ka @@ m3 :> fifo @@ m4 :> fifo
ReadHistory == m1 :> TRUE @@ m2 :> TRUE @@ m3 :> FALSE @@ m4 :> FALSE
ReadCorrs   == [m \in {m1, m2} |-> {NoCorr}] @@ [m \in {m3, m4} |-> Corrs]

\* The two of a kind are alike.
Alike == Permutations({m1, m2}) \cup Permutations({m3, m4}) \cup Permutations(Corrs)
=============================================================================

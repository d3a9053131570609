-------------------------- MODULE MCPartitionPool --------------------------
(* Three workers, topics of 0, 1 or 4 partitions, channels of capacity 1, so   *)
(* that each stage blocks on the next one.                                     *)
EXTENDS PartitionPool, TLC

CONSTANTS w1, w2, w3
MCWorkers == {w1, w2, w3}
MCCounts  == {1, 4}
MCReplicasOf == 0 :> 3 @@ 1 :> 2 @@ 2 :> 3 @@ 3 :> 3
=============================================================================

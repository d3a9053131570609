---------------------------- MODULE MCOffsetCache ----------------------------
(* One partition that two groups consume and two other groups do not: the    *)
(* caches are shared by all four.  Lookups of other partitions would share    *)
(* nothing with these but the mutexes.                                        *)
EXTENDS OffsetCache, TLC

CONSTANTS p1, t1, g1, g2, g3, g4

MCPartitionOf == [l \in {g1, g2, g3, g4} |-> p1]
==============================================================================

------------------------- MODULE MCTopicSelection -------------------------
(* Three topics, up to three instances, a hash of eight values in an int that *)
(* is wider (64-bit targets) or as wide as the hash (32-bit targets).         *)
EXTENDS TopicSelection, TLC

CONSTANTS t1, t2, t3
TopicSymmetry == Permutations(Topics)
===========================================================================

---------------------------- MODULE MCShardIndex ----------------------------
(***************************************************************************)
(* Bounds for checking ShardIndex with TLC: two shards of two slots.       *)
(***************************************************************************)
EXTENDS ShardIndex, TLC

CONSTANTS s1, s2, d1, d2, k1, k2

TwoKeys  == k1 :> d1 @@ k2 :> d2
Symmetry == Permutations({s1, s2})
=============================================================================

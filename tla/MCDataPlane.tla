----------------------------- MODULE MCDataPlane -----------------------------
(***************************************************************************)
(* Instances of DataPlane for TLC: two stream slots in two shards.         *)
(***************************************************************************)
EXTENDS DataPlane, TLC

CONSTANTS i1, i2

MCIds == {i1, i2}
MCShardOf == i1 :> 1 @@ i2 :> NumShards
MCSymmetry == Permutations(Streams) \cup Permutations(Publishers)
=============================================================================

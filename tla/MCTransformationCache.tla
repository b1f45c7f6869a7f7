----------------------- MODULE MCTransformationCache -----------------------
(* TransformationCache for TLC: two nodes.                                 *)
EXTENDS TransformationCache, TLC

CONSTANTS north, south, f1

NodeSymmetry == Permutations(Nodes)
=============================================================================

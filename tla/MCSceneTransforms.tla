------------------------- MODULE MCSceneTransforms -------------------------
(* One scene, three nodes and two transforms: the cached transforms. *)
EXTENDS Scene, TLC
CONSTANTS s1, r1, a, b, c
OneRoot == s1 :> r1
=============================================================================

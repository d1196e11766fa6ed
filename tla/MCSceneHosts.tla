---------------------------- MODULE MCSceneHosts ----------------------------
(***************************************************************************)
(* Two scenes and three nodes that move between them, with three meshes,   *)
(* two of which share a skin; one transform.                               *)
(***************************************************************************)
EXTENDS SceneAttachments, TLC
Loops == INSTANCE HierarchyLoops
CONSTANTS s1, s2, r1, r2, a, b, c, twin1, twin2, single, shared, own
RootsOfTwo == s1 :> r1 @@ s2 :> r2
Skins      == twin1 :> shared @@ twin2 :> shared @@ single :> own
Renaming   == Permutations({a, b, c}) \cup Permutations({twin1, twin2})

(***************************************************************************)
(* In every reachable tree the closed forms of module Hierarchy are what   *)
(* the recursions of hierarchy.cpp compute.                                *)
(***************************************************************************)
ClosedFormsAgree == Loops!LoopsAgree(tree)
=============================================================================

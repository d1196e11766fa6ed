--------------------------- MODULE HierarchyLoops ---------------------------
(***************************************************************************)
(* The recursions and loops of hierarchy.cpp as the code writes them, to   *)
(* compare the closed forms of module Hierarchy with.  RECURSIVE operators *)
(* cannot be reasoned about by the provers: only TLC uses this module.     *)
(***************************************************************************)
EXTENDS Hierarchy

\* set_depth_recursive: stops at an item that already has its depth.
RECURSIVE SetDepthRecursive(_, _, _)
SetDepthRecursive(h, n, d) ==
  IF h.depth[n] = d
  THEN h
  ELSE FoldLeft(LAMBDA g, c : SetDepthRecursive(g, c, d + 1),
                [h EXCEPT !.depth[n] = d], h.children[n])

\* The body of set_parent, after its first return.
SetParentLoop(h, n, p, position) ==
  IF h.parent[n] = p THEN h
  ELSE SetDepthRecursive(Relink(h, n, p, position), n,
                         IF p = None THEN 0 ELSE h.depth[p] + 1)

AtEnd(h, p) == IF p = None THEN 0 ELSE ChildCount(h, p)

\* remove: set_parent on m_children.back() until there is none.
RECURSIVE GiveAwayChildren(_, _, _)
GiveAwayChildren(h, n, p) ==
  IF h.children[n] = <<>> THEN h
  ELSE GiveAwayChildren(SetParentLoop(h, Last(h.children[n]), p, AtEnd(h, p)),
                        n, p)

RemoveLoop(h, n) ==
  SetParentLoop(GiveAwayChildren(h, n, h.parent[n]), n, None, 0)

RECURSIVE RecursiveRemoveLoop(_, _)
RECURSIVE RemoveChildrenLoop(_, _)
RemoveChildrenLoop(h, n) ==
  IF h.children[n] = <<>> THEN h
  ELSE RemoveChildrenLoop(RecursiveRemoveLoop(h, Last(h.children[n])), n)
RecursiveRemoveLoop(h, n) == SetParentLoop(RemoveChildrenLoop(h, n), n, None, 0)

\* is_ancestor: follows m_parent.
RECURSIVE IsAncestorLoop(_, _, _)
IsAncestorLoop(h, n, candidate) ==
  /\ h.parent[n] # None
  /\ \/ h.parent[n] = candidate
     \/ IsAncestorLoop(h, h.parent[n], candidate)

(***************************************************************************)
(* On the tree h the closed forms compute what the code's recursions do:   *)
(* set_parent with its early return on an equal depth, remove and          *)
(* recursive_remove one child at a time, is_ancestor one parent at a time. *)
(***************************************************************************)
LoopsAgree(h) ==
  /\ \A n \in Item, p \in Item \cup {None} :
       (n # p /\ ~CreatesCycle(h, n, p)) =>
         \A position \in 0 .. AtEnd(h, p) :
            SetParent(h, n, p, position) = SetParentLoop(h, n, p, position)
  /\ \A n \in Item : /\ RemoveItem(h, n) = RemoveLoop(h, n)
                     /\ RecursiveRemove(h, n) = RecursiveRemoveLoop(h, n)
  /\ \A n, m \in Item : IsAncestor(h, n, m) <=> IsAncestorLoop(h, n, m)
=============================================================================

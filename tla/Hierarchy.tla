----------------------------- MODULE Hierarchy -----------------------------
(***************************************************************************)
(* The tree of erhe::Hierarchy items (src/erhe/item/hierarchy.cpp) as      *)
(* constant operators: a tree value h is a record of three functions,      *)
(*   parent[n]    the item m_parent points to, or None,                    *)
(*   children[n]  m_children, in order,                                    *)
(*   depth[n]     m_depth,                                                 *)
(* and every operation of the class is a function from h to the next h.    *)
(* The modules Scene and OperationStack keep such a value in a variable.   *)
(*                                                                         *)
(* Positions are the code's: they count from 0.                            *)
(***************************************************************************)
EXTENDS Naturals, SequencesExt

CONSTANTS Item,   \* the items that may ever be part of the tree
          None    \* the empty shared_ptr

ASSUME NoneAssumption == None \notin Item

-----------------------------------------------------------------------------
Hierarchies == [parent   : [Item -> Item \cup {None}],
                children : [Item -> Seq(Item)],
                depth    : [Item -> Nat]]

\* Every item constructed and none attached to another.
Orphans == [parent   |-> [n \in Item |-> None],
            children |-> [n \in Item |-> <<>>],
            depth    |-> [n \in Item |-> 0]]

Children(h, n) == {h.children[n][i] : i \in DOMAIN h.children[n]}

\* The items that a recursion over m_children which starts at n reaches: those
\* that no set can do without which has n and is closed under Children.
Subtree(h, n) ==
  {m \in Item : \A S \in SUBSET (Item \ {m}) :
      n \in S => \E x \in S : ~(Children(h, x) \subseteq S)}

IsAncestor(h, n, candidate) == n # candidate /\ n \in Subtree(h, candidate)

\* get_index_of_child for a child that is there.
IndexOf(s, n) == (CHOOSE i \in DOMAIN s : s[i] = n) - 1

\* Wrong: one before the first position when there is no parent.
IndexInParentOrBefore(h, n) ==
  IF h.parent[n] # None /\ n \in Children(h, h.parent[n])
  THEN IndexOf(h.children[h.parent[n]], n)
  ELSE 0 - 1

\* get_index_in_parent: 0 when there is no parent, or it lists no such child.
IndexInParent(h, n) ==
  IF h.parent[n] # None /\ n \in Children(h, h.parent[n])
  THEN IndexOf(h.children[h.parent[n]], n)
  ELSE 0

ChildCount(h, p) == Len(h.children[p])

\* handle_remove_child
Without(s, n) ==
  IF \E i \in DOMAIN s : s[i] = n THEN RemoveAt(s, IndexOf(s, n) + 1) ELSE s

\* handle_add_child: a position past the end appends.
With(s, position, n) ==
  InsertAt(s, (IF position < Len(s) THEN position ELSE Len(s)) + 1, n)

\* set_depth_recursive: the whole subtree moves by the same distance.
WithDepth(h, n, d) ==
  [h EXCEPT !.depth =
     [m \in Item |-> IF m \in Subtree(h, n)
                     THEN (h.depth[m] + d) - h.depth[n]
                     ELSE h.depth[m]]]

Relink(h, n, p, position) ==
  [h EXCEPT !.parent   = [h.parent EXCEPT ![n] = p],
            !.children = [m \in Item |->
               IF m = p THEN With(h.children[m], position, n)
               ELSE IF m = h.parent[n] THEN Without(h.children[m], n)
               ELSE h.children[m]]]

\* Wrong: the depths stay as they were.
SetParentOnly(h, n, p, position) ==
  IF h.parent[n] = p THEN h ELSE Relink(h, n, p, position)

(***************************************************************************)
(* set_parent(p, position), for n # p and p outside the subtree of n: for  *)
(* a p inside it set_depth_recursive does not return (see CreatesCycle).   *)
(***************************************************************************)
SetParent(h, n, p, position) ==
  IF h.parent[n] = p
  THEN h
  ELSE WithDepth(Relink(h, n, p, position), n,
                 IF p = None THEN 0 ELSE h.depth[p] + 1)

CreatesCycle(h, n, p) == p # None /\ p \in Subtree(h, n)

\* Erase and insert in get_mutable_children: set_parent is not involved.
Reposition(h, n, position) ==
  LET p == h.parent[n]
  IN  [h EXCEPT !.children[p] = With(Without(h.children[p], n), position, n)]

(***************************************************************************)
(* remove(): the children of n go, last one first, to the end of the list  *)
(* of its parent, if it has one, and then n leaves that list.              *)
(***************************************************************************)
RemoveItem(h, n) ==
  LET p     == h.parent[n]
      below == Subtree(h, n) \ {n}
  IN  [parent   |-> [m \in Item |-> IF m = n THEN None
                                    ELSE IF h.parent[m] = n THEN p
                                    ELSE h.parent[m]],
       children |-> [m \in Item |-> IF m = n THEN <<>>
                                    ELSE IF m = p
                                    THEN Without(h.children[m], n)
                                           \o Reverse(h.children[n])
                                    ELSE h.children[m]],
       depth    |-> [m \in Item |-> IF m = n THEN 0
                                    ELSE IF m \in below THEN h.depth[m] - 1
                                    ELSE h.depth[m]]]

\* recursive_remove(): every item of the subtree ends up an orphan.
RecursiveRemove(h, n) ==
  LET S == Subtree(h, n)
  IN  [parent   |-> [m \in Item |-> IF m \in S THEN None ELSE h.parent[m]],
       children |-> [m \in Item |-> IF m \in S THEN <<>>
                                    ELSE IF m = h.parent[n]
                                    THEN Without(h.children[m], n)
                                    ELSE h.children[m]],
       depth    |-> [m \in Item |-> IF m \in S THEN 0 ELSE h.depth[m]]]
-----------------------------------------------------------------------------
(***************************************************************************)
(* What hierarchy_sanity_check looks for, and that no list of children     *)
(* names an item twice.                                                    *)
(***************************************************************************)
ParentHasChild(h) ==
  \A n, p \in Item : h.parent[n] = p <=> n \in Children(h, p)

ChildOnce(h) ==
  \A p \in Item : \A i, j \in DOMAIN h.children[p] :
     h.children[p][i] = h.children[p][j] => i = j

DepthFromParent(h) ==
  \A n \in Item :
     h.depth[n] = IF h.parent[n] = None THEN 0 ELSE h.depth[h.parent[n]] + 1

WellFormed(h) == ParentHasChild(h) /\ ChildOnce(h) /\ DepthFromParent(h)
=============================================================================

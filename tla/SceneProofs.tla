---------------------------- MODULE SceneProofs ----------------------------
(***************************************************************************)
(* Proofs about modules Scene and SceneAttachments: the tree of nodes stays*)
(* a tree, every node has the host of its parent, the node vector of a     *)
(* scene holds the nodes below its root, a set_parent leaves them in their *)
(* place, an update refreshes them, and every attachment is listed by the  *)
(* scene of its node, for all numbers of nodes, scenes and attachments.    *)
(***************************************************************************)
EXTENDS SceneAttachments, HierarchyProofs, ListProofs

-----------------------------------------------------------------------------
(***************************************************************************)
(* The inductive invariant.  FlatIsReachable speaks of the tree alone and  *)
(* register_node of the hosts alone; what ties them is that the nodes      *)
(* hosted by a scene are those below its root.                             *)
(***************************************************************************)
HostTypes == /\ host   \in [Item -> SceneId \cup {None}]
             /\ flat   \in [SceneId -> Seq(Item)]
             /\ sorted \in [SceneId -> BOOLEAN]

RootsStay == \A s \in SceneId : tree.parent[Root[s]] = None /\ host[Root[s]] = s

Hosted(s) == {m \in Item : host[m] = s}

HostedIsReachable == \A s \in SceneId : Subtree(tree, Root[s]) = Hosted(s)

FlatIsHosted ==
  \A s \in SceneId : FlatNodes(s) = Hosted(s) \ {Root[s]} /\ IsInjective(flat[s])

IInv == /\ Tree(tree)
        /\ HostTypes
        /\ RootsStay
        /\ HostOfParent
        /\ HostedIsReachable
        /\ FlatIsHosted
-----------------------------------------------------------------------------
\* Everything below a node shares its host, and no root is below anything.
LEMMA SubtreeShares ==
  ASSUME IInv, NEW n \in Item
  PROVE  \A m \in Subtree(tree, n) :
           m \in Item /\ host[m] = host[n] /\ (m = n \/ m \in Movable)
<1> USE NoneAssumption, SceneAssumption
<1>1. tree \in Hierarchies
  BY DEF IInv, Tree
<1>2. \A x, y \in Item : y \in Children(tree, x) => tree.parent[y] = x
  BY DEF IInv, Tree, WellFormed, ParentHasChild
<1>3. \A x \in Item : tree.parent[x] # None => x \in Movable
  BY DEF IInv, RootsStay, Movable, Roots
<1>4. \A x \in Item : Children(tree, x) \subseteq Item
  BY <1>1 DEF Children, Hierarchies
<1> DEFINE S == {m \in Item : host[m] = host[n] /\ (m = n \/ m \in Movable)}
<1>5. ASSUME NEW x \in S, NEW y \in Children(tree, x) PROVE y \in S
  <2>1. y \in Item /\ tree.parent[y] = x /\ x # None
    BY <1>2, <1>4
  <2>2. y \in Movable
    BY <1>3, <2>1
  <2>3. host[y] = host[x]
    BY <2>1, <2>2 DEF IInv, HostOfParent, HostOf
  <2> QED BY <2>1, <2>2, <2>3
<1>6. ClosedIn(tree, S) /\ n \in S /\ S \in SUBSET Item
  BY <1>5 DEF ClosedIn
<1> QED BY <1>1, <1>6, SubtreeLeast

\* What MoveToHost does to the vectors.  Nodes that come are none that are there.
VectorsMove(nodes, from, to) ==
  \A s \in SceneId :
    /\ sorted'[s] = (sorted[s] /\ s # to)
    /\ s # to => flat'[s] = IF s = from THEN EraseAll(flat[s], nodes) ELSE flat[s]
    /\ FlatNodes(s)' = IF s = from THEN FlatNodes(s) \ nodes
                       ELSE IF s = to THEN FlatNodes(s) \cup nodes
                       ELSE FlatNodes(s)
    /\ (IsInjective(flat[s]) /\ (s = to => FlatNodes(s) \cap nodes = {}))
         => IsInjective(flat'[s])

LEMMA MoveToHostVectors ==
  ASSUME HostTypes, NEW nodes \in SUBSET Item,
         NEW from \in SceneId \cup {None}, NEW to \in SceneId \cup {None},
         from # to, MoveToHost(nodes, from, to)
  PROVE  HostTypes' /\ VectorsMove(nodes, from, to)
<1>1. PICK q \in Arrivals(nodes) :
         flat' = [s \in SceneId |-> IF s = from THEN EraseAll(flat[s], nodes)
                                    ELSE IF s = to THEN flat[s] \o q
                                    ELSE flat[s]]
  BY DEF MoveToHost
<1>2. /\ host' = [n \in Item |-> IF n \in nodes THEN to ELSE host[n]]
      /\ sorted' = [s \in SceneId |-> sorted[s] /\ s # to]
  BY DEF MoveToHost
<1>3. q \in Seq(Item) /\ IsInjective(q) /\ ToSet(q) = nodes
  <2>1. IsFiniteSet(nodes)
    BY FinitelyManyItems, FS_Subset
  <2>2. q \in SetToSeqs(nodes)
    BY DEF Arrivals
  <2>3. q \in Seq(nodes) /\ IsInjective(q) /\ ToSet(q) = nodes
    BY <2>1, <2>2, SetToSeqsLists
  <2> QED BY <2>3
<1>4. \A s \in SceneId : flat[s] \in Seq(Item)
  BY DEF HostTypes
<1>5. \A s \in SceneId :
         /\ EraseAll(flat[s], nodes) \in Seq(Item)
         /\ ToSet(EraseAll(flat[s], nodes)) = ToSet(flat[s]) \ nodes
         /\ IsInjective(flat[s]) => IsInjective(EraseAll(flat[s], nodes))
  BY <1>4, EraseAllLeaves
<1>6. \A s \in SceneId :
         /\ flat[s] \o q \in Seq(Item)
         /\ ToSet(flat[s] \o q) = ToSet(flat[s]) \cup nodes
         /\ (IsInjective(flat[s]) /\ ToSet(flat[s]) \cap nodes = {})
              => IsInjective(flat[s] \o q)
  BY <1>3, <1>4, ConcatLeaves
<1>7. \A s \in SceneId : flat'[s] = IF s = from THEN EraseAll(flat[s], nodes)
                                    ELSE IF s = to THEN flat[s] \o q
                                    ELSE flat[s]
  BY <1>1, Zenon
<1>8. HostTypes'
  <2>1. \A s \in SceneId : flat'[s] \in Seq(Item)
    BY <1>4, <1>5, <1>6, <1>7, Zenon
  <2>2. flat' = [s \in SceneId |-> flat'[s]]
    BY <1>1, <1>7, Zenon
  <2>3. flat' \in [SceneId -> Seq(Item)]
    BY <2>1, <2>2
  <2>4. host' \in [Item -> SceneId \cup {None}]
    BY <1>2 DEF HostTypes
  <2>5. sorted' \in [SceneId -> BOOLEAN]
    BY <1>2, Zenon
  <2> QED BY <2>3, <2>4, <2>5 DEF HostTypes
<1>9. ASSUME NEW s \in SceneId
      PROVE  /\ sorted'[s] = (sorted[s] /\ s # to)
             /\ s # to => flat'[s] = IF s = from THEN EraseAll(flat[s], nodes) ELSE flat[s]
             /\ FlatNodes(s)' = IF s = from THEN FlatNodes(s) \ nodes
                                ELSE IF s = to THEN FlatNodes(s) \cup nodes
                                ELSE FlatNodes(s)
             /\ (IsInjective(flat[s]) /\ (s = to => FlatNodes(s) \cap nodes = {}))
                  => IsInjective(flat'[s])
  <2>1. sorted'[s] = (sorted[s] /\ s # to)
    BY <1>2, Zenon
  <2>2. CASE s = from
    <3>1. flat'[s] = EraseAll(flat[s], nodes)
      BY <1>7, <2>2
    <3> QED BY <1>5, <2>1, <2>2, <3>1 DEF FlatNodes
  <2>3. CASE s = to
    <3>1. flat'[s] = flat[s] \o q
      BY <1>7, <2>3
    <3> QED BY <1>6, <2>1, <2>3, <3>1 DEF FlatNodes
  <2>4. CASE s # from /\ s # to
    <3>1. flat'[s] = flat[s]
      BY <1>7, <2>4
    <3> QED BY <2>1, <2>4, <3>1 DEF FlatNodes
  <2> QED BY <2>2, <2>3, <2>4
<1> QED BY <1>8, <1>9 DEF VectorsMove

\* What MoveToHost does to nodes that are where it takes them from.
LEMMA MoveToHostKeeps ==
  ASSUME HostTypes, RootsStay, FlatIsHosted,
         NEW nodes \in SUBSET Movable,
         NEW from \in SceneId \cup {None}, NEW to \in SceneId \cup {None},
         \A m \in nodes : host[m] = from,
         MoveToHost(nodes, from, to)
  PROVE  /\ host' = [m \in Item |-> IF m \in nodes THEN to ELSE host[m]]
         /\ HostTypes' /\ FlatIsHosted'
         /\ \A s \in SceneId : host'[Root[s]] = s
<1> USE NoneAssumption, SceneAssumption
<1>1. nodes \subseteq Item /\ \A s \in SceneId : Root[s] \notin nodes /\ Root[s] \in Item
  BY DEF Movable, Roots
<1>2. CASE from = to
  <2>1. host' = host /\ flat' = flat /\ sorted' = sorted
    BY <1>2 DEF MoveToHost, sceneVars
  <2>2. host' = [m \in Item |-> IF m \in nodes THEN to ELSE host[m]]
    BY <1>2, <2>1 DEF HostTypes
  <2>3. HostTypes'
    BY <2>1 DEF HostTypes
  <2>4. FlatIsHosted'
    BY <2>1 DEF FlatIsHosted, FlatNodes, Hosted
  <2>5. \A s \in SceneId : host'[Root[s]] = s
    BY <2>1 DEF RootsStay
  <2> QED BY <2>2, <2>3, <2>4, <2>5
<1>3. CASE from # to
  <2>1. host' = [m \in Item |-> IF m \in nodes THEN to ELSE host[m]]
    BY <1>3 DEF MoveToHost
  <2>2. /\ HostTypes'
        /\ \A s \in SceneId :
             /\ FlatNodes(s)' = IF s = from THEN FlatNodes(s) \ nodes
                                ELSE IF s = to THEN FlatNodes(s) \cup nodes
                                ELSE FlatNodes(s)
             /\ (IsInjective(flat[s]) /\ (s = to => FlatNodes(s) \cap nodes = {}))
                  => IsInjective(flat'[s])
    <3>1. nodes \in SUBSET Item
      BY <1>1
    <3>2. HostTypes' /\ VectorsMove(nodes, from, to)
      BY <3>1, <1>3, MoveToHostVectors
    <3> QED BY <3>2 DEF VectorsMove
  <2>3. \A s \in SceneId : host'[Root[s]] = s
    BY <1>1, <2>1 DEF RootsStay
  <2>4. ASSUME NEW s \in SceneId
        PROVE  /\ FlatNodes(s)' = {m \in Item : host'[m] = s} \ {Root[s]}
               /\ IsInjective(flat'[s])
    <3>1. FlatNodes(s) = {m \in Item : host[m] = s} \ {Root[s]} /\ IsInjective(flat[s])
      BY DEF FlatIsHosted, Hosted
    <3>2. s = to => FlatNodes(s) \cap nodes = {}
      BY <1>3, <3>1
    <3>3. IsInjective(flat'[s])
      BY <2>2, <3>1, <3>2
    <3>4. CASE s = from
      <4>1. FlatNodes(s)' = FlatNodes(s) \ nodes
        BY <2>2, <3>4
      <4> QED BY <1>1, <1>3, <2>1, <3>1, <3>3, <3>4, <4>1
    <3>5. CASE s = to
      <4>1. FlatNodes(s)' = FlatNodes(s) \cup nodes
        BY <1>3, <2>2, <3>5
      <4> QED BY <1>1, <1>3, <2>1, <3>1, <3>3, <3>5, <4>1
    <3>6. CASE s # from /\ s # to
      <4>1. FlatNodes(s)' = FlatNodes(s)
        BY <2>2, <3>6
      <4> QED BY <1>1, <1>3, <2>1, <3>1, <3>3, <3>6, <4>1
    <3> QED BY <3>4, <3>5, <3>6
  <2>5. FlatIsHosted'
    BY <2>4 DEF FlatIsHosted, Hosted
  <2> QED BY <2>1, <2>2, <2>3, <2>5
<1> QED BY <1>2, <1>3

LEMMA InitIInv == Init => IInv
<1> USE NoneAssumption, SceneAssumption
<1> SUFFICES ASSUME Init PROVE IInv
  OBVIOUS
<1>1. tree = Orphans /\ Tree(tree) /\ \A n \in Item : Subtree(tree, n) = {n}
  BY OrphansTree DEF Init
<1>2. \A n \in Item : tree.parent[n] = None
  BY <1>1 DEF Orphans
<1>3. ASSUME NEW s \in SceneId PROVE host[Root[s]] = s
  <2>1. Root[s] \in Item /\ \E t \in SceneId : Root[s] = Root[t]
    OBVIOUS
  <2>2. host[Root[s]] = CHOOSE t \in SceneId : Root[s] = Root[t]
    BY <2>1 DEF Init
  <2>3. host[Root[s]] \in SceneId /\ Root[s] = Root[host[Root[s]]]
    BY <2>1, <2>2
  <2> QED BY <2>3
<1>4. \A n \in Movable : n \in Item /\ host[n] = None
  BY DEF Init, Movable, Roots
<1>5. \A n \in Item : n \in Movable \/ \E s \in SceneId : n = Root[s]
  BY DEF Movable, Roots
<1>6. HostTypes
  <2>1. \A n \in Item : host[n] \in SceneId \cup {None}
    BY <1>3, <1>4, <1>5
  <2>2. host = [n \in Item |-> host[n]]
    BY DEF Init
  <2>3. host \in [Item -> SceneId \cup {None}]
    BY <2>1, <2>2
  <2>4. <<>> \in Seq(Item)
    OBVIOUS
  <2> QED BY <2>3, <2>4 DEF HostTypes, Init
<1>7. RootsStay
  BY <1>2, <1>3 DEF RootsStay
<1>8. HostOfParent
  BY <1>2, <1>4 DEF HostOfParent, HostOf
<1>9. \A s \in SceneId : Hosted(s) = {Root[s]}
  BY <1>3, <1>4, <1>5 DEF Hosted
<1>10. HostedIsReachable
  BY <1>1, <1>9 DEF HostedIsReachable
<1>11. FlatIsHosted
  <2>1. \A s \in SceneId : flat[s] = <<>>
    BY DEF Init
  <2>2. IsInjective(<<>>) /\ ToSet(<<>>) = {}
    BY DEF IsInjective, ToSet
  <2> QED BY <1>9, <2>1, <2>2 DEF FlatIsHosted, FlatNodes
<1> QED BY <1>1, <1>6, <1>7, <1>8, <1>10, <1>11 DEF IInv

\* set_parent
LEMMA SetParentKeepsIInv ==
  ASSUME IInv, NEW n \in Movable, NEW p \in Item \cup {None}, NEW position \in Nat,
         NodeSetParent(n, p, position)
  PROVE  IInv'
<1> USE NoneAssumption, SceneAssumption
<1> DEFINE S == Subtree(tree, n)
           to == HostOf(p)
<1>1. n \in Item /\ p \notin S /\ tree \in Hierarchies
  <2>1. tree \in Hierarchies /\ n \in Item
    BY DEF IInv, Tree, Movable
  <2>2. S \subseteq Item
    BY <2>1, SubtreeLeast
  <2> QED BY <2>1, <2>2 DEF NodeSetParent, CreatesCycle
<1>2. /\ Tree(tree')
      /\ tree'.parent = [tree.parent EXCEPT ![n] = p]
      /\ \A r \in Item \ S :
           Subtree(tree', r) = IF p \in Subtree(tree, r)
                               THEN Subtree(tree, r) \cup S
                               ELSE Subtree(tree, r) \ S
  BY <1>1, SetParentTree DEF IInv, NodeSetParent
<1>3. \A m \in S : m \in Item /\ m \in Movable /\ host[m] = host[n]
  BY <1>1, SubtreeShares
<1>4. host[n] = HostOf(tree.parent[n]) /\ host[n] \in SceneId \cup {None}
      /\ to \in SceneId \cup {None}
  BY <1>1 DEF IInv, HostOfParent, HostTypes, HostOf
<1>5. MoveToHost(S, host[n], to)
  <2>1. CASE tree.parent[n] = p
    BY <2>1, <1>4 DEF NodeSetParent, MoveToHost
  <2>2. CASE tree.parent[n] # p
    BY <2>2, <1>4 DEF NodeSetParent
  <2> QED BY <2>1, <2>2
<1>6. /\ host' = [m \in Item |-> IF m \in S THEN to ELSE host[m]]
      /\ HostTypes' /\ FlatIsHosted'
      /\ \A s \in SceneId : host'[Root[s]] = s
  <2>1. S \in SUBSET Movable
    BY <1>3
  <2> QED BY <2>1, <1>3, <1>4, <1>5, MoveToHostKeeps DEF IInv
<1>7. /\ \A m \in S \ {n} : tree.parent[m] \in S
      /\ n \in S /\ ClosedIn(tree, S)
  BY <1>1, SubtreeInTree, SubtreeLeast DEF IInv
<1>8. \A m \in Item : tree'.parent[m] = IF m = n THEN p ELSE tree.parent[m]
  BY <1>1, <1>2 DEF Hierarchies
<1>9. RootsStay'
  BY <1>6, <1>8 DEF IInv, RootsStay, Movable, Roots
<1>10. HostOfParent'
  <2> SUFFICES ASSUME NEW m \in Movable
               PROVE  host'[m] = IF tree'.parent[m] = None THEN None
                                 ELSE host'[tree'.parent[m]]
    BY DEF HostOfParent, HostOf, Movable
  <2>0. m \in Item /\ host'[m] = (IF m \in S THEN to ELSE host[m])
    BY <1>6 DEF Movable
  <2>1. p # None => host'[p] = host[p]
    BY <1>1, <1>6
  <2>2. CASE m = n
    BY <2>0, <2>1, <2>2, <1>7, <1>8 DEF HostOf
  <2>3. CASE m \in S \ {n}
    <3>1. tree.parent[m] \in S /\ tree.parent[m] \in Item /\ tree.parent[m] # None
      BY <2>3, <1>3, <1>7
    <3>2. host'[tree.parent[m]] = to
      BY <3>1, <1>6
    <3> QED BY <2>0, <2>3, <3>1, <3>2, <1>8 DEF HostOf
  <2>4. CASE m \notin S
    <3> DEFINE q == tree.parent[m]
    <3>1. tree'.parent[m] = q /\ q \in Item \cup {None}
      BY <2>0, <2>4, <1>1, <1>7, <1>8 DEF Hierarchies
    <3>2. q \notin S
      <4>1. q \in Item => m \in Children(tree, q)
        BY <2>0 DEF IInv, Tree, WellFormed, ParentHasChild
      <4> QED BY <4>1, <2>4, <1>3, <1>7 DEF ClosedIn
    <3>3. host[m] = HostOf(q)
      BY DEF IInv, HostOfParent
    <3>4. q # None => host'[q] = host[q]
      BY <3>1, <3>2, <1>6
    <3> HIDE DEF q
    <3> QED BY <2>0, <2>4, <3>1, <3>3, <3>4 DEF HostOf
  <2> QED BY <2>2, <2>3, <2>4
<1>11. HostedIsReachable'
  <2> SUFFICES ASSUME NEW s \in SceneId
               PROVE  Subtree(tree', Root[s]) = {m \in Item : host'[m] = s}
    BY DEF HostedIsReachable, Hosted
  <2> DEFINE R == Subtree(tree, Root[s])
  <2>1. R = {m \in Item : host[m] = s}
    BY DEF IInv, HostedIsReachable, Hosted
  <2>2. Root[s] \in Item \ S
    BY <1>3 DEF Movable, Roots
  <2>3. Subtree(tree', Root[s]) = IF p \in R THEN R \cup S ELSE R \ S
    BY <2>2, <1>2
  <2>4. p \in R <=> to = s
    BY <2>1 DEF HostOf
  <2>5. \A m \in Item : host'[m] = IF m \in S THEN to ELSE host[m]
    BY <1>6
  <2> HIDE DEF R, S, to
  <2> QED BY <2>1, <2>3, <2>4, <2>5, <1>3
<1> QED BY <1>2, <1>6, <1>9, <1>10, <1>11 DEF IInv

\* remove
LEMMA RemoveKeepsIInv ==
  ASSUME IInv, NEW n \in Movable, NodeRemove(n)
  PROVE  IInv'
<1> USE NoneAssumption, SceneAssumption
<1> DEFINE p == tree.parent[n]
<1>1. n \in Item /\ tree \in Hierarchies /\ p \in Item \cup {None}
  BY DEF IInv, Tree, Movable, Hierarchies
<1>2. /\ Tree(tree')
      /\ tree'.parent = [m \in Item |-> IF m = n THEN None
                                        ELSE IF tree.parent[m] = n THEN p
                                        ELSE tree.parent[m]]
      /\ \A r \in Item \ {n} : Subtree(tree', r) = Subtree(tree, r) \ {n}
  BY <1>1, RemoveItemTree DEF IInv, NodeRemove
<1>3. host[n] = HostOf(p) /\ host[n] \in SceneId \cup {None}
  BY <1>1 DEF IInv, HostOfParent, HostTypes
<1>4. MoveToHost({n}, host[n], None)
  BY <1>3 DEF NodeRemove
<1>5. /\ host' = [m \in Item |-> IF m \in {n} THEN None ELSE host[m]]
      /\ HostTypes' /\ FlatIsHosted'
      /\ \A s \in SceneId : host'[Root[s]] = s
  <2>1. {n} \in SUBSET Movable /\ \A m \in {n} : host[m] = host[n]
    OBVIOUS
  <2>2. None \in SceneId \cup {None}
    OBVIOUS
  <2> QED BY <2>1, <2>2, <1>3, <1>4, MoveToHostKeeps DEF IInv
<1>6. p # n
  BY <1>1, SubtreeInTree, SubtreeLeast DEF IInv
<1>7. \A m \in Item : /\ host'[m] = IF m = n THEN None ELSE host[m]
                      /\ tree'.parent[m] = IF m = n THEN None
                                           ELSE IF tree.parent[m] = n THEN p
                                           ELSE tree.parent[m]
  BY <1>2, <1>5
<1>8. RootsStay'
  BY <1>1, <1>5, <1>7 DEF IInv, RootsStay, Movable, Roots
<1>9. HostOfParent'
  <2> SUFFICES ASSUME NEW m \in Movable
               PROVE  host'[m] = IF tree'.parent[m] = None THEN None
                                 ELSE host'[tree'.parent[m]]
    BY DEF HostOfParent, HostOf, Movable
  <2>1. m \in Item /\ host[m] = HostOf(tree.parent[m])
        /\ tree.parent[m] \in Item \cup {None}
    BY <1>1 DEF IInv, HostOfParent, Movable, Hierarchies
  <2>2. CASE m = n
    BY <2>1, <2>2, <1>7 DEF HostOf
  <2>3. CASE m # n /\ tree.parent[m] = n
    BY <2>1, <2>3, <1>1, <1>3, <1>6, <1>7 DEF HostOf
  <2>4. CASE m # n /\ tree.parent[m] # n
    BY <2>1, <2>4, <1>7 DEF HostOf
  <2> QED BY <2>2, <2>3, <2>4
<1>10. HostedIsReachable'
  <2> SUFFICES ASSUME NEW s \in SceneId
               PROVE  Subtree(tree', Root[s]) = {m \in Item : host'[m] = s}
    BY DEF HostedIsReachable, Hosted
  <2>1. Subtree(tree, Root[s]) = {m \in Item : host[m] = s}
    BY DEF IInv, HostedIsReachable, Hosted
  <2>2. Root[s] \in Item \ {n}
    BY DEF Movable, Roots
  <2>3. Subtree(tree', Root[s]) = Subtree(tree, Root[s]) \ {n}
    BY <2>2, <1>2
  <2> QED BY <2>1, <2>3, <1>7
<1> QED BY <1>2, <1>5, <1>8, <1>9, <1>10 DEF IInv

\* recursive_remove
LEMMA RecursiveRemoveKeepsIInv ==
  ASSUME IInv, NEW n \in Item, NodeRecursiveRemove(n)
  PROVE  IInv'
<1> USE NoneAssumption, SceneAssumption
<1> DEFINE S == Subtree(tree, n)
           N == S \ Roots
<1>1. tree \in Hierarchies /\ n \in S
  BY SubtreeLeast DEF IInv, Tree
<1>2. /\ Tree(tree')
      /\ tree'.parent = [m \in Item |-> IF m \in S THEN None ELSE tree.parent[m]]
      /\ \A r \in S : Subtree(tree', r) = {r}
      /\ \A r \in Item \ S : Subtree(tree', r) = Subtree(tree, r) \ S
  BY RecursiveRemoveTree DEF IInv, NodeRecursiveRemove
<1>3. \A m \in S : m \in Item /\ host[m] = host[n] /\ (m = n \/ m \in Movable)
  BY SubtreeShares
<1>4. host[n] \in SceneId \cup {None} /\ MoveToHost(N, host[n], None)
  BY DEF IInv, HostTypes, NodeRecursiveRemove
<1>5. /\ host' = [m \in Item |-> IF m \in N THEN None ELSE host[m]]
      /\ HostTypes' /\ FlatIsHosted'
      /\ \A s \in SceneId : host'[Root[s]] = s
  <2>1. N \in SUBSET Movable /\ \A m \in N : host[m] = host[n]
    BY <1>3 DEF Movable
  <2> QED BY <2>1, <1>4, MoveToHostKeeps DEF IInv
<1>6. \A m \in Item : /\ host'[m] = IF m \in N THEN None ELSE host[m]
                      /\ tree'.parent[m] = IF m \in S THEN None ELSE tree.parent[m]
  BY <1>2, <1>5
<1>7. RootsStay'
  BY <1>5, <1>6 DEF IInv, RootsStay
<1>8. HostOfParent'
  <2> SUFFICES ASSUME NEW m \in Movable
               PROVE  host'[m] = IF tree'.parent[m] = None THEN None
                                 ELSE host'[tree'.parent[m]]
    BY DEF HostOfParent, HostOf, Movable
  <2>1. m \in Item /\ m \notin Roots /\ host[m] = HostOf(tree.parent[m])
        /\ tree.parent[m] \in Item \cup {None}
    BY <1>1 DEF IInv, HostOfParent, Movable, Hierarchies
  <2>2. CASE m \in S
    BY <2>1, <2>2, <1>6 DEF HostOf
  <2>3. CASE m \notin S
    <3> DEFINE q == tree.parent[m]
    <3>1. q \notin S
      <4>1. q \in Item => m \in Children(tree, q)
        BY <2>1 DEF IInv, Tree, WellFormed, ParentHasChild
      <4>2. ClosedIn(tree, S)
        BY <1>1, SubtreeLeast
      <4> QED BY <4>1, <4>2, <2>3, <1>3 DEF ClosedIn
    <3>2. tree'.parent[m] = q /\ host'[m] = host[m] /\ (q # None => host'[q] = host[q])
      BY <2>1, <2>3, <3>1, <1>6
    <3> QED BY <2>1, <3>2 DEF HostOf
  <2> QED BY <2>2, <2>3
<1>9. HostedIsReachable'
  <2> SUFFICES ASSUME NEW s \in SceneId
               PROVE  Subtree(tree', Root[s]) = {m \in Item : host'[m] = s}
    BY DEF HostedIsReachable, Hosted
  <2>1. Subtree(tree, Root[s]) = {m \in Item : host[m] = s}
    BY DEF IInv, HostedIsReachable, Hosted
  <2>2. Root[s] \in Roots /\ Root[s] \in Item /\ host[Root[s]] = s
    BY DEF IInv, RootsStay, Roots
  <2>3. CASE Root[s] \in S
    <3>1. Root[s] = n
      BY <2>2, <2>3, <1>3 DEF Movable
    <3>2. \A m \in S \ {n} : m \in N
      BY <1>3 DEF Movable
    <3>3. Subtree(tree', Root[s]) = {n}
      BY <2>3, <3>1, <1>2
    <3> QED BY <2>1, <2>2, <3>1, <3>2, <3>3, <1>6
  <2>4. CASE Root[s] \notin S
    <3>1. Subtree(tree', Root[s]) = Subtree(tree, Root[s]) \ S
      BY <2>2, <2>4, <1>2
    <3>2. \A m \in S : m \in N \/ host[m] # s
      <4> SUFFICES ASSUME NEW m \in S, m \in Roots PROVE host[m] # s
        OBVIOUS
      <4>1. PICK t \in SceneId : m = Root[t]
        BY DEF Roots
      <4>2. host[m] = t
        BY <4>1 DEF IInv, RootsStay
      <4> QED BY <4>1, <4>2, <2>4
    <3> QED BY <2>1, <3>1, <3>2, <1>6
  <2> QED BY <2>3, <2>4
<1> QED BY <1>2, <1>5, <1>7, <1>8, <1>9 DEF IInv

\* sort_transform_nodes: the same nodes, in other places.
LEMMA UpdateVectors ==
  ASSUME HostTypes, NEW s \in SceneId, UpdateNodeTransforms(s)
  PROVE  /\ HostTypes'
         /\ \A r \in SceneId : r # s => flat'[r] = flat[r] /\ sorted'[r] = sorted[r]
         /\ sorted'[s] = TRUE /\ flat'[s] \in Seq(Item)
         /\ sorted[s] => flat'[s] = flat[s]
         /\ ~sorted[s] => DepthOrdered(s)'
         /\ FlatNodes(s)' = FlatNodes(s)
         /\ IsInjective(flat[s]) => IsInjective(flat'[s])
<1>1. PICK q \in IF sorted[s] THEN {flat[s]} ELSE ByDepth(s) :
         flat' = [flat EXCEPT ![s] = q]
  BY DEF UpdateNodeTransforms
<1>2. tree' = tree /\ host' = host /\ sorted' = [sorted EXCEPT ![s] = TRUE]
  BY DEF UpdateNodeTransforms
<1>3. PICK v : v = flat[s] /\ v \in Seq(Item)
  BY DEF HostTypes
<1>4. /\ q \in Seq(Item) /\ ToSet(q) = ToSet(v)
      /\ IsInjective(v) => IsInjective(q)
      /\ sorted[s] => q = v
      /\ ~sorted[s] => \A i, j \in DOMAIN q : i < j => tree.depth[q[i]] <= tree.depth[q[j]]
  <2>1. CASE sorted[s]
    BY <1>1, <1>3, <2>1
  <2>2. CASE ~sorted[s]
    <3>1. q \in ByDepth(s)
      BY <1>1, <2>2
    <3>2. PICK place \in Bijection(DOMAIN v, DOMAIN v) : q = [i \in DOMAIN v |-> v[place[i]]]
      BY <1>3, <3>1 DEF ByDepth
    <3>3. \A i, j \in DOMAIN v : i < j => tree.depth[q[i]] <= tree.depth[q[j]]
      BY <1>3, <3>1 DEF ByDepth
    <3>4. /\ q \in Seq(Item) /\ DOMAIN q = DOMAIN v /\ ToSet(q) = ToSet(v)
          /\ IsInjective(v) => IsInjective(q)
      BY <1>3, <3>2, ReorderLeaves
    <3> QED BY <2>2, <3>3, <3>4
  <2> QED BY <2>1, <2>2
<1>5. \A r \in SceneId : flat'[r] = IF r = s THEN q ELSE flat[r]
  BY <1>1 DEF HostTypes
<1>6. \A r \in SceneId : sorted'[r] = IF r = s THEN TRUE ELSE sorted[r]
  BY <1>2 DEF HostTypes
<1>7. HostTypes'
  BY <1>1, <1>2, <1>4 DEF HostTypes
<1>8. ~sorted[s] => DepthOrdered(s)'
  BY <1>2, <1>4, <1>5 DEF DepthOrdered
<1> QED BY <1>3, <1>4, <1>5, <1>6, <1>7, <1>8 DEF FlatNodes

LEMMA UpdateKeepsFlat ==
  ASSUME HostTypes, FlatIsHosted, NEW s \in SceneId, UpdateNodeTransforms(s)
  PROVE  HostTypes' /\ FlatIsHosted'
<1>1. /\ HostTypes'
      /\ \A r \in SceneId : r # s => flat'[r] = flat[r]
      /\ FlatNodes(s)' = FlatNodes(s)
      /\ IsInjective(flat[s]) => IsInjective(flat'[s])
  BY UpdateVectors
<1>2. host' = host
  BY DEF UpdateNodeTransforms
<1>3. ASSUME NEW r \in SceneId
      PROVE  FlatNodes(r)' = Hosted(r)' \ {Root[r]} /\ IsInjective(flat'[r])
  <2>1. FlatNodes(r) = Hosted(r) \ {Root[r]} /\ IsInjective(flat[r])
    BY DEF FlatIsHosted
  <2>2. Hosted(r)' = Hosted(r)
    BY <1>2 DEF Hosted
  <2>3. FlatNodes(r)' = FlatNodes(r) /\ IsInjective(flat'[r])
    <3>1. CASE r = s
      BY <1>1, <2>1, <3>1
    <3>2. CASE r # s
      BY <1>1, <2>1, <3>2 DEF FlatNodes
    <3> QED BY <3>1, <3>2
  <2> QED BY <2>1, <2>2, <2>3
<1> QED BY <1>1, <1>3 DEF FlatIsHosted

LEMMA NextIInv == IInv /\ [Next]_vars => IInv'
<1> USE NoneAssumption, SceneAssumption
<1> SUFFICES ASSUME IInv, [Next]_vars PROVE IInv'
  OBVIOUS
<1>1. ASSUME NEW n \in Movable, NEW p \in Item \cup {None},
             NEW position \in 0 .. (IF p = None THEN 0 ELSE ChildCount(tree, p)),
             NodeSetParent(n, p, position)
      PROVE  IInv'
  BY <1>1, SetParentKeepsIInv
<1>2. ASSUME NEW n \in Movable, NodeRemove(n) PROVE IInv'
  BY <1>2, RemoveKeepsIInv
<1>3. ASSUME NEW n \in Item, NodeRecursiveRemove(n) PROVE IInv'
  BY <1>3, RecursiveRemoveKeepsIInv
<1>4. ASSUME tree' = tree, host' = host, HostTypes', FlatIsHosted' PROVE IInv'
  BY <1>4 DEF IInv, RootsStay, HostOfParent, HostOf, HostedIsReachable, Hosted
<1>5. ASSUME tree' = tree, UNCHANGED sceneVars PROVE IInv'
  <2>1. HostTypes' /\ FlatIsHosted'
    BY <1>5 DEF IInv, sceneVars, HostTypes, FlatIsHosted, FlatNodes, Hosted
  <2> QED BY <1>4, <1>5, <2>1 DEF sceneVars
<1>6. ASSUME NEW n \in Movable, NEW t \in Transform,
             SetParentFromNode(n, t) \/ SetWorldFromNode(n, t)
      PROVE  IInv'
  BY <1>5, <1>6 DEF SetParentFromNode, SetWorldFromNode
<1>7. ASSUME NEW n \in Bodies, BodyActivated(n) \/ BodyDeactivated(n) PROVE IInv'
  BY <1>5, <1>7 DEF BodyActivated, BodyDeactivated
<1>8. ASSUME NEW s \in SceneId, UpdateNodeTransforms(s) PROVE IInv'
  <2>1. HostTypes' /\ FlatIsHosted'
    BY <1>8, UpdateKeepsFlat DEF IInv
  <2> QED BY <1>4, <1>8, <2>1 DEF UpdateNodeTransforms
<1>9. CASE UNCHANGED vars
  BY <1>5, <1>9 DEF vars, sceneVars
<1> QED BY <1>1, <1>2, <1>3, <1>6, <1>7, <1>8, <1>9 DEF Next

LEMMA SpecIInv == Spec => []IInv
BY InitIInv, NextIInv, PTL DEF Spec
-----------------------------------------------------------------------------
(***************************************************************************)
(* In every state that any sequence of set_parent, remove and              *)
(* recursive_remove calls leads to, m_parent and m_children agree and      *)
(* m_depth counts the ancestors (hierarchy.cpp:316-362).                   *)
(***************************************************************************)
THEOREM TreeStaysWellFormed == Spec => []TreeWellFormed
<1>1. IInv => TreeWellFormed
  BY DEF IInv, Tree, TreeWellFormed
<1> QED BY <1>1, SpecIInv, PTL

(***************************************************************************)
(* Every node that is no root always has the host of its parent, or none   *)
(* if it has no parent (node_sanity_check, node.cpp:379-400).              *)
(***************************************************************************)
THEOREM HostFollowsParent == Spec => []HostOfParent
<1>1. IInv => HostOfParent
  BY DEF IInv
<1> QED BY <1>1, SpecIInv, PTL

(***************************************************************************)
(* The node vector of a scene always lists the nodes below its root, each  *)
(* once, however subtrees move within and between scenes                   *)
(* (scene.cpp:326-386).                                                    *)
(***************************************************************************)
THEOREM FlatStaysReachable == Spec => []FlatIsReachable
<1>1. IInv => FlatIsReachable
  BY DEF IInv, HostedIsReachable, FlatIsHosted, FlatIsReachable
<1> QED BY <1>1, SpecIInv, PTL

(***************************************************************************)
(* No ERHE_VERIFY of handle_item_host_update and register_node fails in    *)
(* any legal set_parent or remove (node.cpp:271, scene.cpp:337), and no    *)
(* node is registered where it is or erased from where it is not.          *)
(***************************************************************************)
THEOREM HostChecksAlwaysHold == Spec => []HostChecksHold
<1> USE NoneAssumption, SceneAssumption
<1>1. ASSUME IInv, NEW n \in Movable, NEW p \in Item \cup {None},
             n # p, ~CreatesCycle(tree, n, p)
      PROVE  HostChecks(Subtree(tree, n), HostOf(tree.parent[n]), HostOf(p))
  <2> DEFINE from == HostOf(tree.parent[n])
             to == HostOf(p)
  <2> SUFFICES ASSUME from # to, NEW m \in Subtree(tree, n)
               PROVE  /\ host[m] = from
                      /\ from # None => m \in FlatNodes(from)
                      /\ to # None => m \notin FlatNodes(to)
    BY DEF HostChecks
  <2>1. n \in Item /\ host[n] = from /\ from \in SceneId \cup {None}
        /\ to \in SceneId \cup {None}
    BY <1>1 DEF IInv, HostOfParent, HostTypes, HostOf, Movable
  <2>2. m \in Movable /\ m \in Item /\ host[m] = from
    BY <1>1, <2>1, SubtreeShares
  <2> HIDE DEF from, to
  <2>3. ASSUME from # None PROVE m \in FlatNodes(from)
    <3>1. from \in SceneId /\ m # Root[from]
      BY <2>1, <2>2, <2>3 DEF Movable, Roots
    <3> QED BY <1>1, <2>2, <3>1 DEF IInv, FlatIsHosted, Hosted
  <2>4. ASSUME to # None PROVE m \notin FlatNodes(to)
    BY <1>1, <2>1, <2>2, <2>4 DEF IInv, FlatIsHosted, Hosted
  <2> QED BY <2>2, <2>3, <2>4
<1>2. IInv => HostChecksHold
  BY <1>1 DEF HostChecksHold
<1> QED BY <1>2, SpecIInv, PTL
-----------------------------------------------------------------------------
(***************************************************************************)
(* The order of the vector.  A step that leaves m_nodes_sorted set leaves  *)
(* the nodes that stay in the order they had, or sorts them.               *)
(***************************************************************************)
Before(v, x, y) == \E i, j \in DOMAIN v : i < j /\ v[i] = x /\ v[j] = y

KeepsOrder(s) ==
  sorted'[s] => \/ DepthOrdered(s)'
                \/ /\ sorted[s]
                   /\ \A x, y \in FlatNodes(s)' : Before(flat'[s], x, y)
                                                    => Before(flat[s], x, y)

LEMMA EraseAllBefore ==
  ASSUME NEW A, NEW v \in Seq(A), NEW S, NEW x, NEW y, Before(EraseAll(v, S), x, y)
  PROVE  Before(v, x, y)
<1>1. PICK r : r = EraseAll(v, S)
  OBVIOUS
<1>2. r \in Seq(A)
  BY <1>1, EraseAllLeaves
<1>3. PICK a : LeftAt(a, r, v, S)
  BY <1>1, EraseAllAscends
<1>4. PICK i \in DOMAIN r, j \in DOMAIN r : i < j /\ r[i] = x /\ r[j] = y
  BY <1>1 DEF Before
<1>5. i \in 1 .. Len(r) /\ j \in 1 .. Len(r) /\ DOMAIN v = 1 .. Len(v)
  BY <1>2
<1>6. /\ a[i] \in 1 .. Len(v) /\ v[a[i]] = x /\ a[j] \in 1 .. Len(v) /\ v[a[j]] = y
      /\ a[i] < a[j]
  BY <1>3, <1>4, <1>5 DEF LeftAt, Ascends
<1> QED BY <1>5, <1>6 DEF Before

LEMMA MoveToHostOrder ==
  ASSUME HostTypes, NEW nodes \in SUBSET Item,
         NEW from \in SceneId \cup {None}, NEW to \in SceneId \cup {None},
         MoveToHost(nodes, from, to), NEW s \in SceneId
  PROVE  KeepsOrder(s)
<1>1. CASE from = to
  BY <1>1 DEF MoveToHost, sceneVars, KeepsOrder
<1>2. CASE from # to
  <2>1. /\ sorted'[s] = (sorted[s] /\ s # to)
        /\ s # to => flat'[s] = IF s = from THEN EraseAll(flat[s], nodes) ELSE flat[s]
    <3>1. VectorsMove(nodes, from, to)
      BY <1>2, MoveToHostVectors
    <3> QED BY <3>1 DEF VectorsMove
  <2> SUFFICES ASSUME sorted'[s], NEW x \in FlatNodes(s)', NEW y \in FlatNodes(s)',
                      Before(flat'[s], x, y)
               PROVE  sorted[s] /\ Before(flat[s], x, y)
    BY <2>1 DEF KeepsOrder
  <2>2. sorted[s] /\ s # to
    BY <2>1
  <2>3. flat[s] \in Seq(Item)
    BY DEF HostTypes
  <2>4. flat'[s] = flat[s] \/ flat'[s] = EraseAll(flat[s], nodes)
    BY <2>1, <2>2
  <2>5. CASE flat'[s] = flat[s]
    BY <2>2, <2>5
  <2>6. CASE flat'[s] = EraseAll(flat[s], nodes)
    BY <2>2, <2>3, <2>6, EraseAllBefore
  <2> QED BY <2>4, <2>5, <2>6
<1> QED BY <1>1, <1>2

LEMMA NextOrder ==
  ASSUME IInv, [Next]_vars, NEW s \in SceneId
  PROVE  KeepsOrder(s)
<1> USE NoneAssumption, SceneAssumption
<1>1. HostTypes /\ tree \in Hierarchies
  BY DEF IInv, Tree
<1>2. \A n \in Item : Subtree(tree, n) \subseteq Item
  BY <1>1, SubtreeLeast
<1>3. \A p \in Item \cup {None} : HostOf(p) \in SceneId \cup {None}
  BY <1>1 DEF HostTypes, HostOf
<1>4. \A n \in Item : tree.parent[n] \in Item \cup {None}
  BY <1>1 DEF Hierarchies
<1>5. ASSUME UNCHANGED sceneVars PROVE KeepsOrder(s)
  BY <1>5 DEF sceneVars, KeepsOrder
<1>6. ASSUME NEW n \in Movable, NEW p \in Item \cup {None}, NEW position \in Nat,
             NodeSetParent(n, p, position)
      PROVE  KeepsOrder(s)
  <2>1. CASE tree.parent[n] = p
    BY <1>5, <1>6, <2>1 DEF NodeSetParent
  <2>2. CASE tree.parent[n] # p
    <3>1. MoveToHost(Subtree(tree, n), HostOf(tree.parent[n]), HostOf(p))
      BY <1>6, <2>2 DEF NodeSetParent
    <3>2. n \in Item
      BY DEF Movable
    <3> QED BY <1>1, <1>2, <1>3, <1>4, <3>1, <3>2, MoveToHostOrder
  <2> QED BY <2>1, <2>2
<1>7. ASSUME NEW n \in Movable, NodeRemove(n) PROVE KeepsOrder(s)
  <2>1. MoveToHost({n}, HostOf(tree.parent[n]), None)
    BY <1>7 DEF NodeRemove
  <2>2. n \in Item /\ {n} \in SUBSET Item /\ None \in SceneId \cup {None}
    BY DEF Movable
  <2> QED BY <1>1, <1>3, <1>4, <2>1, <2>2, MoveToHostOrder
<1>8. ASSUME NEW n \in Item, NodeRecursiveRemove(n) PROVE KeepsOrder(s)
  <2>1. MoveToHost(Subtree(tree, n) \ Roots, host[n], None)
    BY <1>8 DEF NodeRecursiveRemove
  <2>2. Subtree(tree, n) \ Roots \in SUBSET Item
    BY <1>2
  <2>3. host[n] \in SceneId \cup {None} /\ None \in SceneId \cup {None}
    BY <1>1 DEF HostTypes
  <2> QED BY <1>1, <2>1, <2>2, <2>3, MoveToHostOrder
<1>9. ASSUME NEW n \in Movable, NEW t \in Transform,
             SetParentFromNode(n, t) \/ SetWorldFromNode(n, t)
      PROVE  KeepsOrder(s)
  BY <1>5, <1>9 DEF SetParentFromNode, SetWorldFromNode
<1>10. ASSUME NEW n \in Bodies, BodyActivated(n) \/ BodyDeactivated(n)
       PROVE  KeepsOrder(s)
  BY <1>5, <1>10 DEF BodyActivated, BodyDeactivated
<1>11. ASSUME NEW r \in SceneId, UpdateNodeTransforms(r) PROVE KeepsOrder(s)
  <2>1. /\ \A t \in SceneId : t # r => flat'[t] = flat[t] /\ sorted'[t] = sorted[t]
        /\ sorted[r] => flat'[r] = flat[r]
        /\ ~sorted[r] => DepthOrdered(r)'
    BY <1>1, <1>11, UpdateVectors
  <2>2. CASE s = r /\ ~sorted[s]
    BY <2>1, <2>2 DEF KeepsOrder
  <2>3. CASE s = r /\ sorted[s]
    BY <2>1, <2>3 DEF KeepsOrder
  <2>4. CASE s # r
    BY <2>1, <2>4 DEF KeepsOrder
  <2> QED BY <2>2, <2>3, <2>4
<1>12. CASE UNCHANGED vars
  BY <1>5, <1>12 DEF vars, sceneVars
<1> QED BY <1>6, <1>7, <1>8, <1>9, <1>10, <1>11, <1>12 DEF Next

\* A pair that a step turned the wrong way round moved within the scene.
LEMMA UnsortingStep ==
  ASSUME IInv, IInv', [Next]_vars, NEW s \in SceneId,
         NEW x, NEW y, <<x, y>> \in WrongWay(s)' \ WrongWay(s)
  PROVE  \E n \in {x, y} : /\ tree'.depth[n] # tree.depth[n]
                            /\ host[n] = s /\ host'[n] = s
<1>1. /\ x \in FlatNodes(s)' /\ y \in FlatNodes(s)'
      /\ sorted'[s] /\ tree'.depth[y] < tree'.depth[x] /\ Before(flat'[s], x, y)
  BY DEF WrongWay, Before
<1>2. ~DepthOrdered(s)'
  <2>1. PICK i \in DOMAIN flat'[s], j \in DOMAIN flat'[s] :
           i < j /\ flat'[s][i] = x /\ flat'[s][j] = y
    BY <1>1 DEF Before
  <2>2. x \in Item /\ y \in Item /\ tree'.depth \in [Item -> Nat]
    BY <1>1 DEF IInv, Tree, Hierarchies, FlatIsHosted, Hosted
  <2>3. ~(tree'.depth[x] <= tree'.depth[y])
    BY <1>1, <2>2
  <2> QED BY <2>1, <2>3 DEF DepthOrdered
<1>3. sorted[s] /\ Before(flat[s], x, y)
  BY <1>1, <1>2, NextOrder DEF KeepsOrder
<1>4. x \in FlatNodes(s) /\ y \in FlatNodes(s)
  BY <1>3 DEF Before, FlatNodes, ToSet
<1>5. \A n \in {x, y} : host[n] = s /\ host'[n] = s
  BY <1>1, <1>4 DEF IInv, FlatIsHosted, Hosted
<1>6. ~(tree.depth[y] < tree.depth[x])
  BY <1>3, <1>4 DEF WrongWay, Before
<1>7. tree'.depth[x] # tree.depth[x] \/ tree'.depth[y] # tree.depth[y]
  BY <1>1, <1>6
<1> QED BY <1>5, <1>7

(***************************************************************************)
(* In scenes of any size, m_nodes_sorted goes wrong in one way only: by a  *)
(* set_parent or remove within the scene that changes the depth of a       *)
(* listed node.  Arrivals clear it, and departures keep the order of the   *)
(* rest (scene.cpp:261, 326-386).                                          *)
(***************************************************************************)
THEOREM OrderLostByReparent == Spec => OnlyReparentUnsorts
<1>1. ASSUME IInv, IInv', [Next]_vars, NEW s \in SceneId,
             NEW pair \in WrongWay(s)' \ WrongWay(s)
      PROVE  \E n \in {pair[1], pair[2]} : /\ tree'.depth[n] # tree.depth[n]
                                            /\ host[n] = s /\ host'[n] = s
  <2>1. PICK x, y : pair = <<x, y>>
    BY DEF WrongWay
  <2>2. \E n \in {x, y} : /\ tree'.depth[n] # tree.depth[n]
                           /\ host[n] = s /\ host'[n] = s
    BY <1>1, <2>1, UnsortingStep
  <2> QED BY <2>1, <2>2
<1>2. IInv /\ IInv' /\ [Next]_vars
        => [\A s \in SceneId : \A pair \in WrongWay(s)' \ WrongWay(s) :
              \E n \in {pair[1], pair[2]} : /\ tree'.depth[n] # tree.depth[n]
                                            /\ host[n] = s /\ host'[n] = s]_vars
  BY <1>1
<1> QED BY <1>2, SpecIInv, PTL DEF Spec, OnlyReparentUnsorts
-----------------------------------------------------------------------------
\* The transforms are a group; what is needed of it is that Inv undoes Compose.
LEMMA ComposeType ==
  ASSUME NEW x \in Transform, NEW y \in Transform
  PROVE  Compose(x, y) \in Transform /\ Inv(x) \in Transform
<1>1. M \in Nat \ {0} /\ x \in Nat /\ y \in Nat /\ x <= M - 1
  BY SceneAssumption DEF Transform
<1>2. \A v \in Nat : v % M \in 0 .. M - 1
  BY <1>1
<1>3. x + y \in Nat /\ M - x \in Nat
  BY <1>1
<1> QED BY <1>2, <1>3 DEF Compose, Inv, Transform

LEMMA InverseCancels ==
  ASSUME NEW x \in Transform, NEW y \in Transform
  PROVE  Compose(x, Compose(Inv(x), y)) = y
<1>1. /\ M \in Nat \ {0} /\ x \in Nat /\ y \in Nat /\ x < M /\ y < M
  BY SceneAssumption DEF Transform
<1>2. \A v \in Nat : v < M => v % M = v
  BY <1>1
<1>3. \A v \in Nat : M <= v /\ v < 2 * M => v % M = v - M
  BY <1>1
<1>4. CASE x = 0
  <2>1. Inv(x) = 0
    BY <1>1, <1>3, <1>4 DEF Inv
  <2> QED BY <1>1, <1>2, <1>4, <2>1 DEF Compose
<1>5. CASE x # 0
  <2>1. Inv(x) = M - x /\ M - x \in Nat
    BY <1>1, <1>2, <1>5 DEF Inv
  <2>2. CASE y < x
    <3>1. Compose(Inv(x), y) = M - x + y
      BY <1>1, <1>2, <2>1, <2>2 DEF Compose
    <3> QED BY <1>1, <1>3, <2>2, <3>1 DEF Compose
  <2>3. CASE x <= y
    <3>1. Compose(Inv(x), y) = y - x
      BY <1>1, <1>3, <2>1, <2>3 DEF Compose
    <3> QED BY <1>1, <1>2, <2>3, <3>1 DEF Compose
  <2> QED BY <1>1, <2>2, <2>3
<1> QED BY <1>4, <1>5

\* The caches after each node that a pass over q comes to.
PassStep(v, n) ==
  IF n \in active \/ tree.parent[n] = None THEN v
  ELSE [v EXCEPT ![n] = Compose(v[tree.parent[n]], local[n])]

Passes(run, q, w) ==
  run[0] = w /\ \A k \in 1 .. Len(q) : run[k] = PassStep(run[k - 1], q[k])

LEMMA PassStepType ==
  ASSUME tree \in Hierarchies, local \in [Item -> Transform],
         NEW v \in [Item -> Transform], NEW n \in Item
  PROVE  PassStep(v, n) \in [Item -> Transform]
<1>1. tree.parent[n] \in Item \cup {None}
  BY DEF Hierarchies
<1>2. CASE n \in active \/ tree.parent[n] = None
  BY <1>2 DEF PassStep
<1>3. CASE ~(n \in active \/ tree.parent[n] = None)
  <2>1. Compose(v[tree.parent[n]], local[n]) \in Transform
    BY <1>1, <1>3, ComposeType
  <2> QED BY <1>3, <2>1 DEF PassStep
<1> QED BY <1>2, <1>3

LEMMA UpdatePassRuns ==
  ASSUME tree \in Hierarchies, local \in [Item -> Transform],
         NEW q \in Seq(Item), NEW w \in [Item -> Transform]
  PROVE  \E run \in [0 .. Len(q) -> [Item -> Transform]] :
           Passes(run, q, w) /\ UpdatePass(q, w) = run[Len(q)]
<1> DEFINE n == Len(q)
           C == [Item -> Transform]
           step == [k \in 1 .. n |-> [v \in C |-> PassStep(v, q[k])]]
           Iterates(f) ==
             f = [D \in SUBSET DOMAIN q |->
                    IF D = {} THEN w ELSE PassStep(f[D \ {Max(D)}], q[Max(D)])]
           it == CHOOSE f : Iterates(f)
<1>1. n \in Nat /\ DOMAIN q = 1 .. n /\ w \in C /\ \A k \in 1 .. n : q[k] \in Item
  OBVIOUS
<1>2. step \in [1 .. n -> [C -> C]]
  <2>1. \A k \in 1 .. n : \A v \in C : PassStep(v, q[k]) \in C
    BY <1>1, PassStepType
  <2> HIDE DEF C
  <2> QED BY <2>1
<1>3. UpdatePass(q, w) = it[1 .. n]
  BY <1>1 DEF UpdatePass, FoldLeft, MapThenFoldSet, PassStep
<1>4. \A D \in SUBSET (1 .. n) : D # {} => Max(D) \in 1 .. n
  BY <1>1, MaxOfSome
<1> HIDE DEF C
<1>5. PICK f \in [SUBSET (1 .. n) -> C] : Peels(n, w, step, f)
  <2> HIDE DEF step, n
  <2> QED BY <1>1, <1>2, PeelingExists
<1>6. \A k \in 1 .. n : \A v \in C : step[k][v] = PassStep(v, q[k])
  OBVIOUS
<1>7. Iterates(f)
  <2>1. \A D \in SUBSET (1 .. n) : D \ {Max(D)} \in SUBSET (1 .. n)
    OBVIOUS
  <2>2. ASSUME NEW D \in SUBSET (1 .. n)
        PROVE  f[D] = IF D = {} THEN w ELSE PassStep(f[D \ {Max(D)}], q[Max(D)])
    <3>1. f[D] = IF D = {} THEN w ELSE step[Max(D)][f[D \ {Max(D)}]]
      BY <1>5 DEF Peels
    <3>2. f[D \ {Max(D)}] \in C
      BY <2>1, <1>5
    <3> HIDE DEF step, n
    <3> QED BY <3>1, <3>2, <1>4, <1>6
  <2>3. f = [D \in SUBSET (1 .. n) |-> f[D]]
    BY <1>5
  <2> HIDE DEF step, n
  <2> QED BY <2>2, <2>3, <1>1
<1>8. \A D \in SUBSET (1 .. n) :
        it[D] = IF D = {} THEN w ELSE PassStep(it[D \ {Max(D)}], q[Max(D)])
  <2>1. Iterates(it)
    BY <1>7
  <2> HIDE DEF it
  <2> QED BY <2>1, <1>1
<1> HIDE DEF it, n
<1> DEFINE run == [k \in 0 .. n |-> it[1 .. k]]
<1>9. run[0] = w /\ run[n] = it[1 .. n]
  <2>1. 1 .. 0 = {} /\ {} \in SUBSET (1 .. n) /\ 0 \in 0 .. n /\ n \in 0 .. n
    BY <1>1
  <2> QED BY <2>1, <1>8
<1>10. ASSUME NEW k \in 1 .. n PROVE run[k] = PassStep(run[k - 1], q[k])
  <2>1. run[k] = it[1 .. k] /\ run[k - 1] = it[1 .. k - 1]
    BY <1>1
  <2>2. /\ 1 .. k \in SUBSET (1 .. n) /\ 1 .. k # {} /\ Max(1 .. k) = k
        /\ (1 .. k) \ {k} = 1 .. k - 1
    BY <1>1, PeelingCounts
  <2>3. it[1 .. k] = PassStep(it[(1 .. k) \ {Max(1 .. k)}], q[Max(1 .. k)])
    BY <2>2, <1>8
  <2> HIDE DEF run
  <2> QED BY <2>1, <2>2, <2>3
<1> HIDE DEF run
<1>11. \A k \in 0 .. n : run[k] \in C
  <2> DEFINE T == {k \in 0 .. n : run[k] \in C}
  <2>1. 0 \in T
    <3>1. 0 \in 0 .. n /\ run[0] \in C
      BY <1>1, <1>9
    <3> QED BY <3>1
  <2>2. ASSUME NEW k \in 0 .. n - 1, k \in T PROVE k + 1 \in T
    <3>1. k + 1 \in 1 .. n /\ (k + 1) - 1 = k /\ run[k] \in C /\ q[k + 1] \in Item
          /\ k + 1 \in 0 .. n
      BY <2>2, <1>1
    <3>2. run[k + 1] = PassStep(run[k], q[k + 1])
      BY <3>1, <1>10
    <3>3. run[k + 1] \in C
      BY <3>1, <3>2, PassStepType DEF C
    <3> QED BY <3>1, <3>3
  <2>3. 0 .. n \subseteq T
    <3> HIDE DEF T
    <3> QED BY <2>1, <2>2, <1>1, CountingUp
  <2> QED BY <2>3
<1>12. run \in [0 .. n -> C]
  BY <1>11 DEF run
<1>13. Passes(run, q, w)
  BY <1>9, <1>10 DEF Passes, n
<1> QED BY <1>3, <1>9, <1>12, <1>13 DEF n, C

TransformTypes == /\ local \in [Item -> Transform]
                  /\ world \in [Item -> Transform]
                  /\ active \subseteq Bodies

SceneInv == IInv /\ TransformTypes

LEMMA InitTransforms == Init => TransformTypes
<1> SUFFICES ASSUME Init PROVE TransformTypes
  OBVIOUS
<1>1. 0 \in Transform
  BY SceneAssumption DEF Transform
<1> QED BY <1>1 DEF Init, TransformTypes

LEMMA NextTransforms == SceneInv /\ [Next]_vars => TransformTypes'
<1> USE NoneAssumption, SceneAssumption
<1> SUFFICES ASSUME SceneInv, [Next]_vars PROVE TransformTypes'
  OBVIOUS
<1>1. /\ HostTypes /\ tree \in Hierarchies
      /\ local \in [Item -> Transform] /\ world \in [Item -> Transform]
      /\ active \subseteq Bodies
  BY DEF SceneInv, IInv, Tree, TransformTypes
<1>2. \A n \in Item : tree.parent[n] \in Item \cup {None}
  BY <1>1 DEF Hierarchies
<1>3. ASSUME NEW n \in Movable, NEW p \in Item \cup {None}, NEW position \in Nat,
             NodeSetParent(n, p, position)
      PROVE  TransformTypes'
  <2>1. n \in Item /\ world' = world /\ active' = active
    BY <1>3 DEF NodeSetParent, Movable
  <2>2. p # None => Compose(Inv(world[p]), world[n]) \in Transform
    BY <1>1, <2>1, ComposeType
  <2>3. local' = IF p = None THEN local
                 ELSE [local EXCEPT ![n] = Compose(Inv(world[p]), world[n])]
    BY <1>3 DEF NodeSetParent
  <2>4. local' \in [Item -> Transform]
    BY <1>1, <2>1, <2>2, <2>3
  <2> QED BY <1>1, <2>1, <2>4 DEF TransformTypes
<1>4. ASSUME NEW n \in Movable, NodeRemove(n) PROVE TransformTypes'
  <2> DEFINE p == tree.parent[n]
  <2>1. n \in Item /\ world' = world /\ active' = active /\ p \in Item \cup {None}
    BY <1>2, <1>4 DEF NodeRemove, Movable
  <2>2. p # None => \A m \in Item : Compose(Inv(world[p]), world[m]) \in Transform
    BY <1>1, <2>1, ComposeType
  <2>3. local' = [m \in Item |-> IF p # None /\ tree.parent[m] = n
                                 THEN Compose(Inv(world[p]), world[m])
                                 ELSE local[m]]
    BY <1>4 DEF NodeRemove
  <2> HIDE DEF p
  <2>4. local' \in [Item -> Transform]
    BY <1>1, <2>2, <2>3
  <2> QED BY <1>1, <2>1, <2>4 DEF TransformTypes
<1>5. ASSUME NEW n \in Item, NodeRecursiveRemove(n) PROVE TransformTypes'
  BY <1>1, <1>5 DEF NodeRecursiveRemove, TransformTypes
<1>6. \A n \in Item : ParentWorld(n) \in Transform
  <2>1. 0 \in Transform
    BY DEF Transform
  <2> QED BY <1>1, <1>2, <2>1 DEF ParentWorld
<1>7. ASSUME NEW n \in Movable, NEW t \in Transform, SetParentFromNode(n, t)
      PROVE  TransformTypes'
  <2>1. n \in Item /\ Compose(ParentWorld(n), t) \in Transform /\ active' = active
    BY <1>6, <1>7, ComposeType DEF Movable, SetParentFromNode
  <2>2. /\ local' = [local EXCEPT ![n] = t]
        /\ world' = [world EXCEPT ![n] = Compose(ParentWorld(n), t)]
    BY <1>7 DEF SetParentFromNode
  <2> QED BY <1>1, <2>1, <2>2 DEF TransformTypes
<1>8. ASSUME NEW n \in Movable, NEW t \in Transform, SetWorldFromNode(n, t)
      PROVE  TransformTypes'
  <2>1. n \in Item /\ Inv(ParentWorld(n)) \in Transform /\ active' = active
    BY <1>6, <1>8, ComposeType DEF Movable, SetWorldFromNode
  <2>2. Compose(Inv(ParentWorld(n)), t) \in Transform
    BY <2>1, ComposeType
  <2>3. /\ local' = [local EXCEPT ![n] = Compose(Inv(ParentWorld(n)), t)]
        /\ world' = [world EXCEPT ![n] = t]
    BY <1>8 DEF SetWorldFromNode
  <2> QED BY <1>1, <2>1, <2>2, <2>3 DEF TransformTypes
<1>9. ASSUME NEW n \in Bodies, BodyActivated(n) \/ BodyDeactivated(n)
      PROVE  TransformTypes'
  BY <1>1, <1>9 DEF BodyActivated, BodyDeactivated, TransformTypes
<1>10. ASSUME NEW s \in SceneId, UpdateNodeTransforms(s) PROVE TransformTypes'
  <2>1. flat'[s] \in Seq(Item) /\ world' = UpdatePass(flat'[s], world)
    BY <1>1, <1>10, UpdateVectors DEF UpdateNodeTransforms
  <2> DEFINE q == flat'[s]
  <2> HIDE DEF q
  <2>2. q \in Seq(Item) /\ world' = UpdatePass(q, world)
    BY <2>1 DEF q
  <2>3. PICK run \in [0 .. Len(q) -> [Item -> Transform]] :
           Passes(run, q, world) /\ UpdatePass(q, world) = run[Len(q)]
    BY <1>1, <2>2, UpdatePassRuns
  <2>4. Len(q) \in 0 .. Len(q)
    BY <2>2
  <2>5. world' \in [Item -> Transform]
    BY <2>2, <2>3, <2>4
  <2>6. local' = local /\ active' = active
    BY <1>10 DEF UpdateNodeTransforms
  <2> QED BY <1>1, <2>5, <2>6 DEF TransformTypes
<1>11. CASE UNCHANGED vars
  BY <1>1, <1>11 DEF vars, TransformTypes
<1> QED BY <1>3, <1>4, <1>5, <1>7, <1>8, <1>9, <1>10, <1>11 DEF Next

LEMMA SpecSceneInv == Spec => []SceneInv
<1>1. Init => SceneInv
  BY InitIInv, InitTransforms DEF SceneInv
<1>2. SceneInv /\ [Next]_vars => SceneInv'
  BY NextIInv, NextTransforms DEF SceneInv
<1> QED BY <1>1, <1>2, PTL DEF Spec

(***************************************************************************)
(* Every variable of the scenes keeps its type: update_node_transforms and *)
(* the transform setters never leave the set of transforms, and the sort   *)
(* and the erasures never bring something else into a scene's vector.      *)
(***************************************************************************)
THEOREM TypesStay == Spec => []TypeOK
<1>1. SceneInv => TypeOK
  BY DEF SceneInv, IInv, Tree, HostTypes, TransformTypes, TypeOK
<1> QED BY <1>1, SpecSceneInv, PTL
-----------------------------------------------------------------------------
LEMMA ReparentStep ==
  ASSUME SceneInv, [Next]_vars, tree' # tree, Consistent
  PROVE  Consistent' /\ world' = world
<1> USE NoneAssumption, SceneAssumption
<1>1. /\ tree \in Hierarchies
      /\ local \in [Item -> Transform] /\ world \in [Item -> Transform]
      /\ \A m \in Item : tree.parent[m] \in Item \cup {None}
  BY DEF SceneInv, IInv, Tree, TransformTypes, Hierarchies
<1>2. \A m \in Item : tree.parent[m] # None
                        => world[m] = Compose(world[tree.parent[m]], local[m])
  BY DEF Consistent, Fresh, ParentWorld
<1>3. ASSUME world' = world,
             \A m \in Item : tree'.parent[m] # None
                => world[m] = Compose(world[tree'.parent[m]], local'[m])
      PROVE  Consistent' /\ world' = world
  BY <1>3 DEF Consistent, Fresh, ParentWorld
<1>4. ASSUME NEW n \in Movable, NEW p \in Item \cup {None}, NEW position \in Nat,
             NodeSetParent(n, p, position)
      PROVE  Consistent' /\ world' = world
  <2>1. /\ n \in Item /\ world' = world /\ tree' = SetParent(tree, n, p, position)
        /\ local' = IF p = None THEN local
                    ELSE [local EXCEPT ![n] = Compose(Inv(world[p]), world[n])]
    BY <1>4 DEF NodeSetParent, Movable
  <2>2. tree.parent[n] # p
    BY <2>1 DEF SetParent
  <2>3. tree'.parent = [tree.parent EXCEPT ![n] = p]
    BY <2>1, <2>2 DEF SetParent, WithDepth, Relink, Hierarchies
  <2>4. \A m \in Item : tree'.parent[m] = IF m = n THEN p ELSE tree.parent[m]
    BY <1>1, <2>3 DEF Hierarchies
  <2>5. p # None => world[n] = Compose(world[p], Compose(Inv(world[p]), world[n]))
    BY <1>1, <2>1, InverseCancels
  <2>6. ASSUME NEW m \in Item, tree'.parent[m] # None
        PROVE  world[m] = Compose(world[tree'.parent[m]], local'[m])
    <3>1. CASE m = n
      <4>1. p # None /\ tree'.parent[m] = p
        BY <2>4, <2>6, <3>1
      <4>2. local'[m] = Compose(Inv(world[p]), world[n])
        BY <1>1, <2>1, <3>1, <4>1
      <4> QED BY <2>5, <3>1, <4>1, <4>2
    <3>2. CASE m # n
      <4>1. tree'.parent[m] = tree.parent[m]
        BY <2>4, <3>2
      <4>2. local'[m] = local[m]
        BY <1>1, <2>1, <3>2
      <4> QED BY <1>2, <2>6, <4>1, <4>2
    <3> QED BY <3>1, <3>2
  <2> QED BY <1>3, <2>1, <2>6
<1>5. ASSUME NEW n \in Movable, NodeRemove(n) PROVE Consistent' /\ world' = world
  <2> DEFINE p == tree.parent[n]
  <2>1. /\ n \in Item /\ world' = world /\ tree' = RemoveItem(tree, n)
        /\ local' = [m \in Item |-> IF p # None /\ tree.parent[m] = n
                                    THEN Compose(Inv(world[p]), world[m])
                                    ELSE local[m]]
    BY <1>5 DEF NodeRemove, Movable
  <2>2. \A m \in Item : tree'.parent[m] = IF m = n THEN None
                                          ELSE IF tree.parent[m] = n THEN p
                                          ELSE tree.parent[m]
    BY <2>1 DEF RemoveItem
  <2>3. p \in Item \cup {None}
    BY <1>1, <2>1
  <2> HIDE DEF p
  <2>4. ASSUME NEW m \in Item, tree'.parent[m] # None
        PROVE  world[m] = Compose(world[tree'.parent[m]], local'[m])
    <3>1. CASE tree.parent[m] = n
      <4>1. p # None /\ tree'.parent[m] = p
        BY <2>2, <2>4, <3>1
      <4>2. local'[m] = Compose(Inv(world[p]), world[m])
        BY <2>1, <3>1, <4>1
      <4>3. world[p] \in Transform /\ world[m] \in Transform
        BY <1>1, <2>3, <4>1
      <4> QED BY <4>1, <4>2, <4>3, InverseCancels
    <3>2. CASE tree.parent[m] # n
      <4>1. tree'.parent[m] = tree.parent[m] /\ local'[m] = local[m]
        BY <2>1, <2>2, <2>4, <3>2
      <4> QED BY <1>2, <2>4, <4>1
    <3> QED BY <3>1, <3>2
  <2> QED BY <1>3, <2>1, <2>4
<1>6. ASSUME NEW n \in Item, NodeRecursiveRemove(n) PROVE Consistent' /\ world' = world
  <2>1. world' = world /\ local' = local /\ tree' = RecursiveRemove(tree, n)
    BY <1>6 DEF NodeRecursiveRemove
  <2>2. \A m \in Item : tree'.parent[m] = IF m \in Subtree(tree, n) THEN None
                                          ELSE tree.parent[m]
    BY <2>1 DEF RecursiveRemove
  <2> QED BY <1>2, <1>3, <2>1, <2>2
<1>7. ASSUME NEW n \in Movable, NEW t \in Transform,
             SetParentFromNode(n, t) \/ SetWorldFromNode(n, t)
      PROVE  FALSE
  BY <1>7 DEF SetParentFromNode, SetWorldFromNode
<1>8. ASSUME NEW n \in Bodies, BodyActivated(n) \/ BodyDeactivated(n) PROVE FALSE
  BY <1>8 DEF BodyActivated, BodyDeactivated
<1>9. ASSUME NEW s \in SceneId, UpdateNodeTransforms(s) PROVE FALSE
  BY <1>9 DEF UpdateNodeTransforms
<1>10. CASE UNCHANGED vars
  BY <1>10 DEF vars
<1> QED BY <1>4, <1>5, <1>6, <1>7, <1>8, <1>9, <1>10 DEF Next

(***************************************************************************)
(* set_parent, remove and recursive_remove leave every node where it is in *)
(* the world: when all cached world transforms agree with the local ones   *)
(* they still do after it, the caches being the same (node.cpp:117-129).   *)
(***************************************************************************)
THEOREM ReparentingKeepsPlace == Spec => ReparentKeepsPlace
<1>1. SceneInv /\ [Next]_vars
        => [(tree' # tree /\ Consistent) => (Consistent' /\ world' = world)]_vars
  BY ReparentStep
<1> QED BY <1>1, SpecSceneInv, PTL DEF Spec, ReparentKeepsPlace

(***************************************************************************)
(* One pass over the vector of a scene in the order of the depths.  What   *)
(* it has gone over stays right: a later entry is no deeper's parent.      *)
(***************************************************************************)
LEMMA PassRefreshes ==
  ASSUME Tree(tree), local \in [Item -> Transform],
         NEW q \in Seq(Item), NEW w \in [Item -> Transform],
         \A i, j \in 1 .. Len(q) : i < j => tree.depth[q[i]] <= tree.depth[q[j]],
         NEW n \in ToSet(q), n \notin active, tree.parent[n] # None
  PROVE  UpdatePass(q, w)[n] = Compose(UpdatePass(q, w)[tree.parent[n]], local[n])
<1> USE NoneAssumption
<1> DEFINE l == Len(q)
<1>1. PICK run \in [0 .. l -> [Item -> Transform]] :
         Passes(run, q, w) /\ UpdatePass(q, w) = run[l]
  BY UpdatePassRuns DEF Tree
<1>2. /\ l \in Nat /\ DOMAIN q = 1 .. l /\ \A i \in 1 .. l : q[i] \in Item
  OBVIOUS
<1>3. /\ \A m \in Item : tree.parent[m] \in Item \cup {None} /\ tree.depth[m] \in Nat
      /\ \A m \in Item : tree.parent[m] # None
            => tree.depth[m] = tree.depth[tree.parent[m]] + 1
  BY DEF Tree, WellFormed, DepthFromParent, Hierarchies
<1> HIDE DEF l
<1> DEFINE Right(v, m) == (m \notin active /\ tree.parent[m] # None)
                            => v[m] = Compose(v[tree.parent[m]], local[m])
           T == {k \in 0 .. l : \A i \in 1 .. k : Right(run[k], q[i])}
<1>4. 0 \in T
  BY <1>2
<1>5. ASSUME NEW k \in 0 .. l - 1, k \in T PROVE k + 1 \in T
  <2> DEFINE v == run[k]
             x == q[k + 1]
             u == run[k + 1]
  <2>1. /\ k \in Nat /\ k + 1 \in 1 .. l /\ (k + 1) - 1 = k /\ k + 1 \in 0 .. l
        /\ k \in 0 .. l
    BY <1>2
  <2>2. v \in [Item -> Transform] /\ x \in Item /\ u = PassStep(v, x)
    BY <1>1, <1>2, <2>1 DEF Passes, l
  <2>3. \A i \in 1 .. k : Right(v, q[i])
    BY <1>5
  <2>4. \A i \in 1 .. k : i \in 1 .. l /\ q[i] \in Item /\ tree.depth[q[i]] <= tree.depth[x]
    BY <1>2, <2>1 DEF l
  <2> HIDE DEF v, x, u
  <2>5. ASSUME NEW i \in 1 .. k + 1 PROVE Right(u, q[i])
    <3> DEFINE m == q[i]
    <3>1. m = x \/ (m \in Item /\ tree.depth[m] <= tree.depth[x] /\ Right(v, m))
      <4>1. i = k + 1 \/ i \in 1 .. k
        BY <2>1
      <4> QED BY <4>1, <2>3, <2>4 DEF x
    <3> HIDE DEF m
    <3> SUFFICES ASSUME m \notin active, tree.parent[m] # None
                 PROVE  u[m] = Compose(u[tree.parent[m]], local[m])
      BY DEF m
    <3>2. m \in Item /\ tree.parent[m] \in Item /\ tree.depth[m] <= tree.depth[x]
          /\ tree.depth[m] = tree.depth[tree.parent[m]] + 1
          /\ tree.depth[tree.parent[m]] \in Nat /\ tree.depth[x] \in Nat
      BY <1>3, <2>2, <3>1
    <3>3. tree.parent[m] # x
      BY <3>2
    <3>4. CASE m = x
      <4>1. u = [v EXCEPT ![x] = Compose(v[tree.parent[x]], local[x])]
        BY <2>2, <3>4 DEF PassStep
      <4> QED BY <2>2, <3>2, <3>3, <3>4, <4>1
    <3>5. CASE m # x
      <4>1. u[m] = v[m] /\ u[tree.parent[m]] = v[tree.parent[m]]
        BY <2>2, <3>2, <3>3, <3>5 DEF PassStep
      <4> QED BY <3>1, <3>5, <4>1
    <3> QED BY <3>4, <3>5
  <2> QED BY <2>1, <2>5 DEF u
<1>6. l \in T
  <2> HIDE DEF T
  <2>1. 0 .. l \subseteq T
    BY <1>2, <1>4, <1>5, CountingUp
  <2> QED BY <1>2, <2>1
<1>7. PICK i \in 1 .. l : n = q[i]
  BY <1>2 DEF ToSet
<1>8. Right(run[l], n)
  BY <1>6, <1>7
<1> QED BY <1>1, <1>8

LEMMA UpdateStep ==
  ASSUME SceneInv, NEW s \in SceneId, UpdateNodeTransforms(s), DepthOrdered(s)',
         NEW n \in FlatNodes(s) \ active
  PROVE  Fresh(n)'
<1>1. /\ HostTypes /\ Tree(tree)
      /\ local \in [Item -> Transform] /\ world \in [Item -> Transform]
  BY DEF SceneInv, IInv, TransformTypes
<1>2. /\ flat'[s] \in Seq(Item) /\ world' = UpdatePass(flat'[s], world)
      /\ FlatNodes(s)' = FlatNodes(s)
  BY <1>1, UpdateVectors DEF UpdateNodeTransforms
<1>3. tree' = tree /\ local' = local /\ active' = active
  BY DEF UpdateNodeTransforms
<1>4. \A i, j \in DOMAIN flat'[s] :
         i < j => tree.depth[flat'[s][i]] <= tree.depth[flat'[s][j]]
  BY <1>3 DEF DepthOrdered
<1>5. n \in ToSet(flat'[s]) /\ n \notin active
  BY <1>2 DEF FlatNodes
<1> DEFINE q == flat'[s]
<1>6. q \in Seq(Item) /\ DOMAIN q = 1 .. Len(q)
  BY <1>2
<1> HIDE DEF q
<1>7. \A i, j \in 1 .. Len(q) : i < j => tree.depth[q[i]] <= tree.depth[q[j]]
  BY <1>4, <1>6 DEF q
<1>8. n \in ToSet(q) /\ world' = UpdatePass(q, world)
  BY <1>2, <1>5 DEF q
<1>9. tree.parent[n] # None => world'[n] = Compose(world'[tree.parent[n]], local[n])
  BY <1>1, <1>5, <1>6, <1>7, <1>8, PassRefreshes
<1> QED BY <1>3, <1>9 DEF Fresh, ParentWorld

(***************************************************************************)
(* An update that walks the vector of its scene in the order of the depths *)
(* makes the cache of every node of the scene right, but for those whose   *)
(* body is awake: parents come before their children (scene.cpp:257-271).  *)
(***************************************************************************)
THEOREM UpdatingRefreshes == Spec => UpdateRefreshes
<1>1. SceneInv => [\A s \in SceneId :
                     (UpdateNodeTransforms(s) /\ DepthOrdered(s)')
                       => \A n \in FlatNodes(s) \ active : Fresh(n)']_vars
  BY UpdateStep
<1> QED BY <1>1, SpecSceneInv, PTL DEF UpdateRefreshes
-----------------------------------------------------------------------------
(***************************************************************************)
(* Attachments: what moves with the nodes leaves the scenes as module Scene*)
(* has them, and every attachment is listed by the scene of its node.      *)
(***************************************************************************)
\* The parts of AttachmentsFollow that speak of the attachments.
AttachmentTypes ==
  /\ nodeOf \in [Attachment -> Movable \cup {None}]
  /\ attached \in [Item -> SUBSET Attachment]
  /\ listed \in [SceneId -> [Attachment -> 0 .. 1]]
  /\ rtScene \in [Attachment -> SceneId \cup {None}]
  /\ skins \in [SceneId -> SUBSET SkinsOf(Attachment)]

ListedWhereTheyHang ==
  \A x \in Attachment :
    /\ rtScene[x] = SceneOf(x)
    /\ \A s \in SceneId : listed[s][x] = IF SceneOf(x) = s THEN 1 ELSE 0

Lists == AttachmentTypes /\ SkinsListed /\ ListedWhereTheyHang

AttachmentInv == SceneInv /\ Lists /\ EndsOfAttachments
-----------------------------------------------------------------------------
LEMMA SceneOfType ==
  ASSUME HostTypes, AttachmentTypes, NEW x \in Attachment
  PROVE  SceneOf(x) \in SceneId \cup {None}
BY DEF HostTypes, AttachmentTypes, SceneOf, HostOf, Movable

(***************************************************************************)
(* HostUpdate moves the attachments that it is called for from the lists   *)
(* of one scene to those of the other, if that is how they move.           *)
(***************************************************************************)
LEMMA HostUpdateLists ==
  ASSUME HostTypes, Lists,
         NEW xs \in SUBSET Attachment,
         NEW from \in SceneId \cup {None}, NEW to \in SceneId \cup {None},
         \A x \in xs : SceneOf(x) = from,
         HostUpdate(xs, from, to),
         nodeOf' \in [Attachment -> Movable \cup {None}],
         attached' \in [Item -> SUBSET Attachment],
         \A x \in Attachment : SceneOf(x)' = IF x \in xs THEN to ELSE SceneOf(x)
  PROVE  Lists'
<1> USE SceneAssumption
<1>1. \A s \in SceneId : MeshesOf(s)' = IF from = to THEN MeshesOf(s)
                                        ELSE IF s = from THEN MeshesOf(s) \ xs
                                        ELSE IF s = to THEN MeshesOf(s) \cup xs
                                        ELSE MeshesOf(s)
  BY DEF MeshesOf
<1>2. \A s \in SceneId : MeshesOf(s) \subseteq Attachment
  BY DEF MeshesOf
<1>3. CASE from = to
  <2>1. listed' = listed /\ rtScene' = rtScene /\ skins' = skins
    BY <1>3 DEF HostUpdate
  <2>2. \A x \in Attachment : SceneOf(x)' = SceneOf(x)
    BY <1>3
  <2>3. AttachmentTypes'
    BY <2>1 DEF Lists, AttachmentTypes
  <2>4. ListedWhereTheyHang'
    BY <2>1, <2>2 DEF Lists, ListedWhereTheyHang
  <2>5. SkinsListed'
    BY <1>1, <1>3, <2>1 DEF Lists, SkinsListed
  <2> QED BY <2>3, <2>4, <2>5 DEF Lists
<1>4. CASE from # to
  <2>1. /\ listed' = [s \in SceneId |-> [x \in Attachment |->
                        IF x \notin xs THEN listed[s][x]
                        ELSE IF s = from THEN 0
                        ELSE IF s = to THEN listed[s][x] + 1
                        ELSE listed[s][x]]]
        /\ rtScene' = [x \in Attachment |-> IF x \in xs THEN to ELSE rtScene[x]]
        /\ skins' = [s \in SceneId |-> IF s = from THEN skins[s] \ SkinsOf(xs)
                                       ELSE IF s = to THEN skins[s] \cup SkinsOf(xs)
                                       ELSE skins[s]]
    BY <1>4 DEF HostUpdate
  <2>2. ASSUME NEW x \in Attachment
        PROVE  /\ rtScene'[x] = SceneOf(x)'
               /\ \A s \in SceneId : listed'[s][x] = IF SceneOf(x)' = s THEN 1 ELSE 0
    <3>1. /\ rtScene[x] = SceneOf(x)
          /\ \A s \in SceneId : listed[s][x] = IF SceneOf(x) = s THEN 1 ELSE 0
      BY DEF Lists, ListedWhereTheyHang
    <3>2. SceneOf(x)' = IF x \in xs THEN to ELSE SceneOf(x)
      OBVIOUS
    <3>3. CASE x \in xs
      BY <1>4, <2>1, <3>1, <3>2, <3>3
    <3>4. CASE x \notin xs
      BY <2>1, <3>1, <3>2, <3>4
    <3> QED BY <3>3, <3>4
  <2>3. ListedWhereTheyHang'
    BY <2>2 DEF ListedWhereTheyHang
  <2>4. AttachmentTypes'
    <3>1. \A s \in SceneId : \A x \in Attachment : listed'[s][x] \in 0 .. 1
      BY <2>2
    <3>2. listed' = [s \in SceneId |-> [x \in Attachment |-> listed'[s][x]]]
      BY <2>1
    <3>3. listed' \in [SceneId -> [Attachment -> 0 .. 1]]
      BY <3>1, <3>2
    <3>4. rtScene' \in [Attachment -> SceneId \cup {None}]
      BY <2>1 DEF Lists, AttachmentTypes
    <3>5. SkinsOf(xs) \subseteq SkinsOf(Attachment)
      BY DEF SkinsOf
    <3>6. skins' \in [SceneId -> SUBSET SkinsOf(Attachment)]
      BY <2>1, <3>5 DEF Lists, AttachmentTypes
    <3> QED BY <3>3, <3>4, <3>6 DEF AttachmentTypes
  <2>5. ASSUME NEW s \in SceneId
        PROVE  /\ skins'[s] \subseteq SkinsOf(MeshesOf(s)')
               /\ \A k \in SkinsOf(MeshesOf(s)') \ skins'[s] :
                    \E x \in Attachment \ MeshesOf(s)' : SkinOf[x] = k
    <3> DEFINE A == MeshesOf(s)
               B == MeshesOf(s)'
               old == skins[s]
               new == skins'[s]
    <3>1. /\ old \subseteq SkinsOf(A)
          /\ \A k \in SkinsOf(A) \ old : \E x \in Attachment \ A : SkinOf[x] = k
      BY DEF Lists, SkinsListed
    <3>2. CASE s = from
      <4>1. B = A \ xs /\ new = old \ SkinsOf(xs)
        BY <1>1, <1>4, <2>1, <3>2
      <4> HIDE DEF A, B, old, new
      <4>2. new \subseteq SkinsOf(B)
        BY <3>1, <4>1 DEF SkinsOf
      <4>3. ASSUME NEW k \in SkinsOf(B) \ new
            PROVE  \E x \in Attachment \ B : SkinOf[x] = k
        <5>1. k \in SkinsOf(A)
          BY <4>1 DEF SkinsOf
        <5>2. CASE k \in old
          <6>1. k \in SkinsOf(xs)
            BY <4>1, <5>2
          <6>2. PICK x \in xs : SkinOf[x] = k
            BY <6>1 DEF SkinsOf
          <6> QED BY <4>1, <6>2
        <5>3. CASE k \notin old
          BY <3>1, <4>1, <5>1, <5>3
        <5> QED BY <5>2, <5>3
      <4> QED BY <4>2, <4>3 DEF B, new
    <3>3. CASE s = to
      <4>1. B = A \cup xs /\ new = old \cup SkinsOf(xs)
        BY <1>1, <1>4, <2>1, <3>3
      <4> HIDE DEF A, B, old, new
      <4>2. new \subseteq SkinsOf(B)
        BY <3>1, <4>1 DEF SkinsOf
      <4>3. ASSUME NEW k \in SkinsOf(B) \ new
            PROVE  \E x \in Attachment \ B : SkinOf[x] = k
        <5>1. k \in SkinsOf(A) \ old /\ k # None /\ \A x \in xs : SkinOf[x] # k
          BY <4>1 DEF SkinsOf
        <5>2. PICK x \in Attachment \ A : SkinOf[x] = k
          BY <3>1, <5>1
        <5> QED BY <4>1, <5>1, <5>2
      <4> QED BY <4>2, <4>3 DEF B, new
    <3>4. CASE s # from /\ s # to
      <4>1. B = A /\ new = old
        BY <1>1, <2>1, <3>4
      <4> QED BY <3>1, <4>1
    <3> QED BY <3>2, <3>3, <3>4
  <2>6. SkinsListed'
    BY <2>5 DEF SkinsListed, SkinsOf
  <2> QED BY <2>3, <2>4, <2>6 DEF Lists
<1> QED BY <1>3, <1>4

\* Node::attach, Node::detach
LEMMA AttachKeeps ==
  ASSUME AttachmentInv, NEW x \in Attachment, NEW n \in Movable \cup {None}, Attach(x, n)
  PROVE  Lists' /\ EndsOfAttachments'
<1> USE NoneAssumption, AttachmentAssumption
<1> DEFINE old == nodeOf[x]
<1>1. /\ HostTypes /\ Lists /\ EndsOfAttachments /\ AttachmentTypes
      /\ Movable \subseteq Item
  BY DEF AttachmentInv, SceneInv, IInv, Lists, Movable
<1>2. /\ old # n
      /\ nodeOf' = [nodeOf EXCEPT ![x] = n]
      /\ attached' = [m \in Item |-> IF m = n THEN attached[m] \cup {x}
                                     ELSE IF m = old THEN attached[m] \ {x}
                                     ELSE attached[m]]
      /\ HostUpdate({x}, HostOf(old), HostOf(n))
      /\ host' = host
  BY DEF Attach, vars
<1>3. old \in Movable \cup {None}
  BY <1>1 DEF AttachmentTypes
<1>4. /\ nodeOf' \in [Attachment -> Movable \cup {None}]
      /\ attached' \in [Item -> SUBSET Attachment]
  <2> HIDE DEF old
  <2> QED BY <1>1, <1>2 DEF AttachmentTypes
<1>5. \A y \in Attachment : nodeOf'[y] = IF y = x THEN n ELSE nodeOf[y]
  BY <1>1, <1>2 DEF AttachmentTypes
<1>6. Lists'
  <2>1. HostOf(old) \in SceneId \cup {None} /\ HostOf(n) \in SceneId \cup {None}
    BY <1>1, <1>3 DEF HostTypes, HostOf
  <2>2. \A y \in {x} : SceneOf(y) = HostOf(old)
    BY DEF SceneOf
  <2>3. \A y \in Attachment : SceneOf(y)' = IF y \in {x} THEN HostOf(n) ELSE SceneOf(y)
    BY <1>2, <1>5 DEF SceneOf, HostOf
  <2>4. {x} \in SUBSET Attachment
    OBVIOUS
  <2> HIDE DEF old
  <2> QED BY <1>1, <1>2, <1>4, <2>1, <2>2, <2>3, <2>4, HostUpdateLists
<1>7. EndsOfAttachments'
  <2> SUFFICES ASSUME NEW m \in Item
               PROVE  attached'[m] = {y \in Attachment : nodeOf'[y] = m}
    BY DEF EndsOfAttachments
  <2>1. attached[m] = {y \in Attachment : nodeOf[y] = m}
    BY <1>1 DEF EndsOfAttachments
  <2>2. CASE m = n
    BY <1>2, <1>5, <2>1, <2>2
  <2>3. CASE m # n /\ m = old
    BY <1>2, <1>5, <2>1, <2>3
  <2>4. CASE m # n /\ m # old
    <3>1. x \notin attached[m]
      BY <2>1, <2>4
    <3> QED BY <1>2, <1>5, <2>1, <2>4, <3>1
  <2> QED BY <2>2, <2>3, <2>4
<1> QED BY <1>6, <1>7

\* Nodes that change their host together, with everything that hangs on them.
LEMMA MovedNodesKeep ==
  ASSUME AttachmentInv,
         NEW nodes \in SUBSET Movable,
         NEW from \in SceneId \cup {None}, NEW to \in SceneId \cup {None},
         \A m \in nodes : host[m] = from,
         MoveToHost(nodes, from, to),
         HostUpdate(Carried(nodes), from, to),
         UNCHANGED <<nodeOf, attached>>
  PROVE  Lists' /\ EndsOfAttachments'
<1> USE NoneAssumption
<1> DEFINE xs == Carried(nodes)
<1>1. /\ HostTypes /\ RootsStay /\ FlatIsHosted /\ Lists
      /\ EndsOfAttachments /\ AttachmentTypes /\ Movable \subseteq Item
  BY DEF AttachmentInv, SceneInv, IInv, Lists, Movable
<1>2. host' = [m \in Item |-> IF m \in nodes THEN to ELSE host[m]]
  <2>1. \A m \in nodes : host[m] = from
    OBVIOUS
  <2>2. MoveToHost(nodes, from, to)
    OBVIOUS
  <2> HIDE DEF xs
  <2>3. /\ host' = [m \in Item |-> IF m \in nodes THEN to ELSE host[m]]
        /\ HostTypes' /\ FlatIsHosted'
        /\ \A s \in SceneId : host'[Root[s]] = s
    BY <1>1, <2>1, <2>2, MoveToHostKeeps
  <2> QED BY <2>3
<1>3. xs = {x \in Attachment : nodeOf[x] \in nodes}
  <2>1. \A n \in nodes : attached[n] = {x \in Attachment : nodeOf[x] = n}
    BY <1>1 DEF EndsOfAttachments
  <2> QED BY <2>1 DEF Carried
<1>4. \A x \in Attachment : nodeOf[x] \in Item \cup {None}
  BY <1>1 DEF AttachmentTypes
<1>5. \A x \in xs : SceneOf(x) = from
  BY <1>1, <1>3, <1>4 DEF SceneOf, HostOf
<1>6. \A x \in Attachment : SceneOf(x)' = IF x \in xs THEN to ELSE SceneOf(x)
  <2>1. None \notin nodes
    BY <1>1
  <2> QED BY <1>1, <1>2, <1>3, <1>4, <2>1 DEF SceneOf, HostOf
<1>7. Lists'
  <2>1. xs \in SUBSET Attachment
    BY <1>3
  <2>2. /\ nodeOf' \in [Attachment -> Movable \cup {None}]
        /\ attached' \in [Item -> SUBSET Attachment]
    BY <1>1 DEF AttachmentTypes
  <2> QED BY <1>1, <1>5, <1>6, <2>1, <2>2, HostUpdateLists
<1>8. EndsOfAttachments'
  BY <1>1 DEF EndsOfAttachments
<1> QED BY <1>7, <1>8

\* The actions of AttachmentNext are, for the nodes, those of Scene.
LEMMA AttachmentStep == AttachmentNext => [Next]_vars
<1> SUFFICES ASSUME AttachmentNext PROVE [Next]_vars
  OBVIOUS
<1>1. ASSUME NEW n \in Movable, NEW p \in Item \cup {None},
             NEW position \in 0 .. (IF p = None THEN 0 ELSE ChildCount(tree, p)),
             SetParentWithAttachments(n, p, position)
      PROVE  Next
  BY <1>1 DEF SetParentWithAttachments, Next
<1>2. ASSUME NEW n \in Movable, RemoveWithAttachments(n) PROVE Next
  BY <1>2 DEF RemoveWithAttachments, Next
<1>3. ASSUME NEW n \in Item, RecursiveRemoveWithAttachments(n) PROVE Next
  BY <1>3 DEF RecursiveRemoveWithAttachments, Next
<1>4. ASSUME NEW s \in SceneId, UpdateNodeTransforms(s) PROVE Next
  BY <1>4 DEF Next
<1>5. ASSUME NEW x \in Attachment, NEW n, Attach(x, n) PROVE UNCHANGED vars
  BY <1>5 DEF Attach
<1> QED BY <1>1, <1>2, <1>3, <1>4, <1>5 DEF AttachmentNext, Detach

LEMMA InitAttachmentInv == AttachmentInit => AttachmentInv
<1> USE NoneAssumption, SceneAssumption
<1> SUFFICES ASSUME AttachmentInit PROVE AttachmentInv
  OBVIOUS
<1>1. SceneInv
  BY InitIInv, InitTransforms DEF AttachmentInit, SceneInv
<1>2. \A x \in Attachment : SceneOf(x) = None /\ nodeOf[x] = None
  BY DEF AttachmentInit, SceneOf, HostOf
<1>3. EndsOfAttachments
  BY <1>2 DEF AttachmentInit, EndsOfAttachments
<1>4. AttachmentTypes
  BY DEF AttachmentInit, AttachmentTypes
<1>5. ListedWhereTheyHang
  BY <1>2 DEF AttachmentInit, ListedWhereTheyHang
<1>6. SkinsListed
  <2>1. \A s \in SceneId : MeshesOf(s) = {}
    BY <1>2 DEF MeshesOf
  <2> QED BY <2>1 DEF AttachmentInit, SkinsListed, SkinsOf
<1> QED BY <1>1, <1>3, <1>4, <1>5, <1>6 DEF AttachmentInv, Lists

LEMMA NextAttachmentInv == AttachmentInv /\ [AttachmentNext]_allVars => AttachmentInv'
<1> USE NoneAssumption, SceneAssumption
<1> SUFFICES ASSUME AttachmentInv, [AttachmentNext]_allVars PROVE AttachmentInv'
  OBVIOUS
<1>1. SceneInv'
  <2>1. [Next]_vars
    BY AttachmentStep DEF allVars
  <2> QED BY <2>1, NextIInv, NextTransforms DEF AttachmentInv, SceneInv
<1> SUFFICES Lists' /\ EndsOfAttachments'
  BY <1>1 DEF AttachmentInv
<1>2. /\ IInv /\ HostTypes /\ RootsStay /\ HostOfParent /\ tree \in Hierarchies
      /\ Movable \subseteq Item
  BY DEF AttachmentInv, SceneInv, IInv, Tree, Movable
<1>3. \A n \in Movable : /\ host[n] = HostOf(tree.parent[n])
                         /\ host[n] \in SceneId \cup {None}
  BY <1>2 DEF HostOfParent, HostTypes
<1>4. \A n \in Item : \A m \in Subtree(tree, n) :
         m \in Item /\ host[m] = host[n] /\ (m = n \/ m \in Movable)
  BY <1>2, SubtreeShares
<1>5. ASSUME NEW n \in Movable, NEW p \in Item \cup {None}, NEW position \in Nat,
             SetParentWithAttachments(n, p, position)
      PROVE  Lists' /\ EndsOfAttachments'
  <2> DEFINE S == Subtree(tree, n)
             from == HostOf(tree.parent[n])
             to == HostOf(p)
  <2>1. /\ NodeSetParent(n, p, position) /\ HostUpdate(Carried(S), from, to)
        /\ UNCHANGED <<nodeOf, attached>>
    BY <1>5 DEF SetParentWithAttachments
  <2>2. MoveToHost(S, from, to)
    BY <2>1 DEF NodeSetParent, MoveToHost
  <2>3. to \in SceneId \cup {None}
    BY <1>2 DEF HostTypes, HostOf
  <2>4. S \in SUBSET Movable /\ from \in SceneId \cup {None} /\ \A m \in S : host[m] = from
    BY <1>2, <1>3, <1>4
  <2> HIDE DEF S, from, to
  <2> QED BY <2>1, <2>2, <2>3, <2>4, MovedNodesKeep
<1>6. ASSUME NEW n \in Movable, RemoveWithAttachments(n)
      PROVE  Lists' /\ EndsOfAttachments'
  <2> DEFINE S == {n}
             from == HostOf(tree.parent[n])
  <2>1. /\ MoveToHost(S, from, None) /\ HostUpdate(Carried(S), from, None)
        /\ UNCHANGED <<nodeOf, attached>>
    BY <1>6 DEF RemoveWithAttachments, NodeRemove
  <2>2. /\ S \in SUBSET Movable /\ from \in SceneId \cup {None}
        /\ None \in SceneId \cup {None} /\ \A m \in S : host[m] = from
    BY <1>3
  <2> HIDE DEF S, from
  <2> QED BY <2>1, <2>2, MovedNodesKeep
<1>7. ASSUME NEW n \in Item, RecursiveRemoveWithAttachments(n)
      PROVE  Lists' /\ EndsOfAttachments'
  <2> DEFINE S == Subtree(tree, n) \ Roots
             from == host[n]
  <2>1. /\ MoveToHost(S, from, None) /\ HostUpdate(Carried(S), from, None)
        /\ UNCHANGED <<nodeOf, attached>>
    BY <1>7 DEF RecursiveRemoveWithAttachments, NodeRecursiveRemove
  <2>2. /\ S \in SUBSET Movable /\ from \in SceneId \cup {None}
        /\ None \in SceneId \cup {None} /\ \A m \in S : host[m] = from
    BY <1>2, <1>4 DEF HostTypes, Movable
  <2> HIDE DEF S, from
  <2> QED BY <2>1, <2>2, MovedNodesKeep
<1>8. ASSUME UNCHANGED <<host, nodeOf, attached, listed, rtScene, skins>>
      PROVE  Lists' /\ EndsOfAttachments'
  BY <1>8 DEF AttachmentInv, Lists, AttachmentTypes, SkinsListed, MeshesOf, SceneOf,
              HostOf, ListedWhereTheyHang, EndsOfAttachments
<1>9. ASSUME NEW s \in SceneId, UpdateNodeTransforms(s), UNCHANGED attachmentVars
      PROVE  Lists' /\ EndsOfAttachments'
  BY <1>8, <1>9 DEF UpdateNodeTransforms, attachmentVars
<1>10. ASSUME NEW x \in Attachment, NEW n \in Movable, Attach(x, n)
       PROVE  Lists' /\ EndsOfAttachments'
  BY <1>10, AttachKeeps
<1>11. ASSUME NEW x \in Attachment, Detach(x) PROVE Lists' /\ EndsOfAttachments'
  BY <1>11, AttachKeeps DEF Detach
<1>12. CASE UNCHANGED allVars
  BY <1>8, <1>12 DEF allVars, vars, attachmentVars
<1> QED BY <1>5, <1>6, <1>7, <1>9, <1>10, <1>11, <1>12 DEF AttachmentNext
-----------------------------------------------------------------------------
(***************************************************************************)
(* Meshes, lights and cameras only follow: what they do never changes how  *)
(* the nodes move, so that everything proved of module Scene holds here.   *)
(***************************************************************************)
LEMMA AttachmentsOnlyFollow == AttachmentSpec => Spec
<1>1. AttachmentInit => Init
  BY DEF AttachmentInit
<1>2. [AttachmentNext]_allVars => [Next]_vars
  BY AttachmentStep DEF allVars
<1> QED BY <1>1, <1>2, PTL DEF AttachmentSpec, Spec

(***************************************************************************)
(* Whatever subtree moves, whatever hangs on it, attached and detached in  *)
(* or out of a scene: an attachment is listed by the scene of its node,    *)
(* once, and by no other, its ray tracing instance is in that scene, and   *)
(* node and attachment agree (node.cpp:246-310, mesh.cpp:106-160).         *)
(***************************************************************************)
THEOREM AttachmentsAlwaysFollow == AttachmentSpec => []AttachmentsFollow
<1>1. AttachmentSpec => []AttachmentInv
  BY InitAttachmentInv, NextAttachmentInv, PTL DEF AttachmentSpec
<1>2. AttachmentInv => AttachmentsFollow
  <2>1. SceneInv => TypeOK
    BY DEF SceneInv, IInv, Tree, HostTypes, TransformTypes, TypeOK
  <2> QED BY <2>1 DEF AttachmentInv, Lists, AttachmentTypes, AttachmentTypeOK,
                      ListedWhereTheyHang, AttachmentsFollow
<1> QED BY <1>1, <1>2, PTL
=============================================================================

------------------------------- MODULE Scene -------------------------------
(***************************************************************************)
(* Scenes of erhe::scene nodes (src/erhe/scene: node.cpp, scene.cpp).  A   *)
(* Node is a Hierarchy item that also has                                  *)
(*   host    the scene it is registered in (node_data.host), or None,      *)
(*   local   parent_from_node,  world  the cached world_from_node,         *)
(* and a Scene keeps                                                       *)
(*   flat    m_flat_node_vector, the nodes an update walks in this order,  *)
(*   sorted  m_nodes_sorted: the next update need not sort first.          *)
(* active holds the nodes whose rigid body is awake: they carry the flag   *)
(* no_transform_update (scene_root.cpp:135-170).                           *)
(* A transform is an element of the cyclic group of order M: matrices are  *)
(* composed and inverted here, and nothing else is done with them.         *)
(***************************************************************************)
EXTENDS Hierarchy, Lists, FiniteSets

CONSTANTS SceneId,  \* the scenes (a scene and its Scene_host are one)
          Root,     \* Root[s]: the implicit root node of scene s
          M,        \* number of transforms
          Bodies    \* the nodes with a dynamic rigid body


Transform     == 0 .. M - 1
Compose(a, b) == (a + b) % M
Inv(a)        == (M - a) % M
Roots         == {Root[s] : s \in SceneId}
\* Clients never move the root node of a scene.
Movable       == Item \ Roots

ASSUME SceneAssumption ==
  /\ None \notin SceneId
  /\ Root \in [SceneId -> Item]
  /\ \A s, t \in SceneId : Root[s] = Root[t] => s = t
  /\ M \in Nat \ {0}
  /\ Bodies \subseteq Movable

ASSUME FinitelyManyItems == IsFiniteSet(Item)

VARIABLES tree, host, flat, sorted, local, world, active
sceneVars == <<host, flat, sorted>>
vars == <<tree, host, flat, sorted, local, world, active>>

Init ==
  /\ tree   = Orphans
  /\ host   = [n \in Item |-> IF \E s \in SceneId : n = Root[s]
                              THEN CHOOSE s \in SceneId : n = Root[s]
                              ELSE None]
  /\ flat   = [s \in SceneId |-> <<>>]
  /\ sorted = [s \in SceneId |-> FALSE]
  /\ local  = [n \in Item |-> 0]
  /\ world  = [n \in Item |-> 0]
  /\ active = {}
-----------------------------------------------------------------------------
HostOf(p) == IF p = None THEN None ELSE host[p]

FlatNodes(s) == ToSet(flat[s])

\* The orders in which a moving subtree registers: a node before its children.
\* That of siblings is left open; register_node has the vector sorted anyway.
Arrivals(nodes) ==
  {q \in SetToSeqs(nodes) :
     \A i, j \in DOMAIN q : tree.parent[q[j]] = q[i] => i < j}

\* Wrong: the vector still counts as sorted when nodes have been added.
MoveToHostSorted(nodes, from, to) ==
  IF from = to
  THEN UNCHANGED sceneVars
  ELSE /\ host' = [n \in Item |-> IF n \in nodes THEN to ELSE host[n]]
       /\ flat' \in {[s \in SceneId |->
                        IF s = from THEN EraseAll(flat[s], nodes)
                        ELSE IF s = to THEN flat[s] \o q
                        ELSE flat[s]] : q \in Arrivals(nodes)}
       /\ UNCHANGED sorted

\* Wrong: the nodes are not registered with the scene they come to.
MoveToHostOnly(nodes, from, to) ==
  IF from = to
  THEN UNCHANGED sceneVars
  ELSE /\ host' = [n \in Item |-> IF n \in nodes THEN to ELSE host[n]]
       /\ flat' = [s \in SceneId |-> IF s = from THEN EraseAll(flat[s], nodes)
                                      ELSE flat[s]]
       /\ UNCHANGED sorted

(***************************************************************************)
(* handle_item_host_update(from, to) on every node of `nodes': erase it    *)
(* from the vector of one scene, append it to that of the other and clear  *)
(* m_nodes_sorted there, or leave the node without a host.                 *)
(***************************************************************************)
MoveToHost(nodes, from, to) ==
  IF from = to
  THEN UNCHANGED sceneVars
  ELSE /\ host'   = [n \in Item |-> IF n \in nodes THEN to ELSE host[n]]
       /\ flat'   \in {[s \in SceneId |->
                          IF s = from THEN EraseAll(flat[s], nodes)
                          ELSE IF s = to THEN flat[s] \o q
                          ELSE flat[s]] : q \in Arrivals(nodes)}
       /\ sorted' = [s \in SceneId |-> sorted[s] /\ s # to]

\* The ERHE_VERIFYs of handle_item_host_update and register_node, and the
\* errors that register_node and unregister_node log.
HostChecks(nodes, from, to) ==
  from # to => \A n \in nodes : /\ host[n] = from
                                /\ from # None => n \in FlatNodes(from)
                                /\ to # None => n \notin FlatNodes(to)

\* Wrong: the host changes for the node and not for its descendants.
NodeSetParentAlone(n, p, position) ==
  /\ n # p
  /\ ~CreatesCycle(tree, n, p)
  /\ tree' = SetParent(tree, n, p, position)
  /\ IF tree.parent[n] = p
     THEN UNCHANGED sceneVars
     ELSE MoveToHost({n}, HostOf(tree.parent[n]), HostOf(p))
  /\ UNCHANGED <<local, world, active>>

\* Node::set_parent: the cached world transform is kept, but not for an orphan.
NodeSetParent(n, p, position) ==
  /\ n # p
  /\ ~CreatesCycle(tree, n, p)
  /\ tree' = SetParent(tree, n, p, position)
  /\ IF tree.parent[n] = p
     THEN UNCHANGED sceneVars
     ELSE MoveToHost(Subtree(tree, n), HostOf(tree.parent[n]), HostOf(p))
  /\ local' = IF p = None THEN local
              ELSE [local EXCEPT ![n] = Compose(Inv(world[p]), world[n])]
  /\ UNCHANGED <<world, active>>

\* Wrong: the children lose their host along with the node.
NodeRemoveSubtree(n) ==
  /\ tree' = RemoveItem(tree, n)
  /\ MoveToHost(Subtree(tree, n), HostOf(tree.parent[n]), None)
  /\ UNCHANGED <<local, world, active>>

\* Hierarchy::remove on a node: its children keep their world transform.
NodeRemove(n) ==
  LET p == tree.parent[n]
  IN  /\ tree' = RemoveItem(tree, n)
      /\ MoveToHost({n}, HostOf(p), None)
      /\ local' = [m \in Item |-> IF p # None /\ tree.parent[m] = n
                                  THEN Compose(Inv(world[p]), world[m])
                                  ELSE local[m]]
      /\ UNCHANGED <<world, active>>

\* Hierarchy::recursive_remove; on a root node, as ~Scene does, the root stays.
NodeRecursiveRemove(n) ==
  /\ tree' = RecursiveRemove(tree, n)
  /\ MoveToHost(Subtree(tree, n) \ Roots, host[n], None)
  /\ UNCHANGED <<local, world, active>>
-----------------------------------------------------------------------------
ParentWorld(n) == IF tree.parent[n] = None THEN 0 ELSE world[tree.parent[n]]

\* set_parent_from_node and update_world_from_node: only n's own cache moves.
SetParentFromNode(n, t) ==
  /\ local' = [local EXCEPT ![n] = t]
  /\ world' = [world EXCEPT ![n] = Compose(ParentWorld(n), t)]
  /\ UNCHANGED <<tree, sceneVars, active>>

\* set_world_from_node, set_node_from_world
SetWorldFromNode(n, t) ==
  /\ local' = [local EXCEPT ![n] = Compose(Inv(ParentWorld(n)), t)]
  /\ world' = [world EXCEPT ![n] = t]
  /\ UNCHANGED <<tree, sceneVars, active>>

\* What std::sort may make of the vector: equal depths fall either way.
ByDepth(s) ==
  LET Places == DOMAIN flat[s]
  IN  {q \in {[i \in Places |-> flat[s][place[i]]] : place \in Bijection(Places, Places)} :
         \A i, j \in Places : i < j => tree.depth[q[i]] <= tree.depth[q[j]]}

\* Wrong: the parents' transforms are those from before the pass.
UpdatePassStale(q, w) ==
  [n \in Item |-> IF n \notin ToSet(q) \/ n \in active \/ tree.parent[n] = None
                 THEN w[n]
                 ELSE Compose(w[tree.parent[n]], local[n])]

\* One pass of update_transform over the vector; w is the cache.
UpdatePass(q, w) ==
  FoldLeft(LAMBDA v, n : IF n \in active \/ tree.parent[n] = None THEN v
                         ELSE [v EXCEPT ![n] =
                                 Compose(v[tree.parent[n]], local[n])],
           w, q)

\* Wrong: a sorted vector is taken for an up-to-date one.
UpdateWhenUnsorted(s) ==
  /\ flat' \in {[flat EXCEPT ![s] = q] :
                  q \in IF sorted[s] THEN {flat[s]} ELSE ByDepth(s)}
  /\ sorted' = [sorted EXCEPT ![s] = TRUE]
  /\ world' = IF sorted[s] THEN world ELSE UpdatePass(flat'[s], world)
  /\ UNCHANGED <<tree, host, local, active>>

\* Scene::update_node_transforms, with its sort_transform_nodes.
UpdateNodeTransforms(s) ==
  /\ flat' \in {[flat EXCEPT ![s] = q] :
                  q \in IF sorted[s] THEN {flat[s]} ELSE ByDepth(s)}
  /\ sorted' = [sorted EXCEPT ![s] = TRUE]
  /\ world' = UpdatePass(flat'[s], world)
  /\ UNCHANGED <<tree, host, local, active>>

\* The physics engine wakes the body of a node, or puts it to sleep.
BodyActivated(n) ==
  /\ active' = active \cup {n}
  /\ UNCHANGED <<tree, sceneVars, local, world>>

BodyDeactivated(n) ==
  /\ active' = active \ {n}
  /\ UNCHANGED <<tree, sceneVars, local, world>>

Next ==
  \/ \E n \in Movable, p \in Item \cup {None} :
       \E position \in 0 .. (IF p = None THEN 0 ELSE ChildCount(tree, p)) :
          NodeSetParent(n, p, position)
  \/ \E n \in Movable : NodeRemove(n)
  \/ \E n \in Item : NodeRecursiveRemove(n)
  \/ \E n \in Movable, t \in Transform :
       SetParentFromNode(n, t) \/ SetWorldFromNode(n, t)
  \/ \E n \in Bodies : BodyActivated(n) \/ BodyDeactivated(n)
  \/ \E s \in SceneId : UpdateNodeTransforms(s)

Spec == Init /\ [][Next]_vars

\* The editor updates every shown scene every frame.
FairSpec == Spec /\ \A s \in SceneId : WF_vars(UpdateNodeTransforms(s))
-----------------------------------------------------------------------------
TypeOK ==
  /\ tree   \in Hierarchies
  /\ host   \in [Item -> SceneId \cup {None}]
  /\ flat   \in [SceneId -> Seq(Item)]
  /\ sorted \in [SceneId -> BOOLEAN]
  /\ local  \in [Item -> Transform]
  /\ world  \in [Item -> Transform]
  /\ active \subseteq Bodies

(***************************************************************************)
(* After any sequence of set_parent, remove and recursive_remove calls the *)
(* links of the tree agree: m_parent and m_children name each other once,  *)
(* and m_depth counts the ancestors (hierarchy.cpp:316-362).               *)
(***************************************************************************)
TreeWellFormed == WellFormed(tree)

(***************************************************************************)
(* A scene's m_flat_node_vector lists exactly the nodes that can be        *)
(* reached from its root, each once, so that no node is updated or drawn   *)
(* for a scene it left, and none in the tree is missed or updated twice    *)
(* (scene.cpp:326-386).                                                    *)
(***************************************************************************)
FlatIsReachable ==
  \A s \in SceneId : /\ FlatNodes(s) = Subtree(tree, Root[s]) \ {Root[s]}
                     /\ IsInjective(flat[s])

(***************************************************************************)
(* Every node has the host of its parent, what node_sanity_check logs an   *)
(* error about (node.cpp:379-400), and no orphan has one.                  *)
(***************************************************************************)
HostOfParent ==
  \A n \in Movable : host[n] = HostOf(tree.parent[n])

(***************************************************************************)
(* None of the ERHE_VERIFYs of handle_item_host_update and register_node   *)
(* (node.cpp:271, scene.cpp:337) can fail in any legal set_parent or       *)
(* remove: every node of the moving subtree is where its host says, and    *)
(* not yet where it goes.                                                  *)
(***************************************************************************)
HostChecksHold ==
  \A n \in Movable : \A p \in Item \cup {None} :
     (n # p /\ ~CreatesCycle(tree, n, p))
       => HostChecks(Subtree(tree, n), HostOf(tree.parent[n]), HostOf(p))

\* The pairs that an update walks the wrong way round, for it does not sort.
WrongWay(s) ==
  {pair \in FlatNodes(s) \X FlatNodes(s) :
     /\ sorted[s] /\ tree.depth[pair[2]] < tree.depth[pair[1]]
     /\ \E i, j \in DOMAIN flat[s] : i < j /\ pair = <<flat[s][i], flat[s][j]>>}

(***************************************************************************)
(* The order that m_nodes_sorted vouches for is lost for two nodes only by *)
(* a set_parent or remove within the scene that changes the depth of one   *)
(* of them while it stays listed.  Nodes that arrive, at whatever depth,   *)
(* have the vector sorted again before it is walked, and the erasure of    *)
(* those that leave keeps the rest in order (scene.cpp:261, 326-386).      *)
(***************************************************************************)
OnlyReparentUnsorts ==
  [][\A s \in SceneId : \A pair \in WrongWay(s)' \ WrongWay(s) :
       \E n \in {pair[1], pair[2]} : /\ tree'.depth[n] # tree.depth[n]
                                     /\ host[n] = s /\ host'[n] = s]_vars

Fresh(n)   == tree.parent[n] # None => world[n] = Compose(ParentWorld(n), local[n])
Consistent == \A n \in Item : Fresh(n)

(***************************************************************************)
(* Reparenting and removing keep every node where it is in the world: if   *)
(* all cached world transforms agree with the local ones before, they do   *)
(* after, the caches being left alone (node.cpp:117-129).                  *)
(***************************************************************************)
ReparentKeepsPlace ==
  [][(tree' # tree /\ Consistent) => (Consistent' /\ world' = world)]_vars

(***************************************************************************)
(* One update_node_transforms makes every cache of the scene agree with    *)
(* the local transforms, if no set_parent within the scene has changed a   *)
(* depth since the vector was last sorted: nothing but register_node       *)
(* clears m_nodes_sorted (scene.cpp:257-271).                              *)
(***************************************************************************)
DepthOrdered(s) ==
  \A i, j \in DOMAIN flat[s] :
     i < j => tree.depth[flat[s][i]] <= tree.depth[flat[s][j]]

UpdateRefreshes ==
  [][\A s \in SceneId :
       (UpdateNodeTransforms(s) /\ DepthOrdered(s)')
         => \A n \in FlatNodes(s) \ active : Fresh(n)']_vars

(***************************************************************************)
(* The comment on Node_transforms says that world_from_node is calculated  *)
(* by update_transform (node.hpp:29): after an update of a scene, every    *)
(* node of it is where the local transforms put it.  A set_parent within   *)
(* the scene breaks that, for the vector is not sorted again.              *)
(***************************************************************************)
UpdateCalculatesWorld ==
  [][\A s \in SceneId : UpdateNodeTransforms(s)
       => \A n \in FlatNodes(s) \ active : Fresh(n)']_vars

(***************************************************************************)
(* A vector left in the wrong order by a set_parent within the scene only  *)
(* delays an update: once nothing but updates happens, the caches of every *)
(* scene end up right and stay so.                                         *)
(***************************************************************************)
TransformsSettle ==
  (<>[][\E s \in SceneId : UpdateNodeTransforms(s)]_vars)
    => <>[](\A s \in SceneId : \A n \in FlatNodes(s) \ active : Fresh(n))
=============================================================================

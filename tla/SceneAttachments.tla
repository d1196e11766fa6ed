-------------------------- MODULE SceneAttachments --------------------------
(***************************************************************************)
(* Node attachments (erhe::scene): meshes, lights and cameras hang on a    *)
(* node and follow it from scene to scene.  The node knows its attachments *)
(* and each attachment its node; the scene lists the meshes, lights and    *)
(* cameras of its nodes, the ray tracing scene the meshes, and both the    *)
(* renderer and the tools find them only there.                            *)
(*                                                                         *)
(* The modules of tree, hosts and flat vector are Scene's: each action     *)
(* that changes a node's host does here what the node's                    *)
(* handle_item_host_update does to the attachments of every node it is     *)
(* called for.  One list stands for the layers of a scene (a layer_id does *)
(* not change while a mesh is attached) and for its cameras.               *)
(***************************************************************************)
EXTENDS Scene

CONSTANTS Attachment,   \* meshes; lights and cameras go the same way, with less
          SkinOf        \* the skin of each, or None

ASSUME AttachmentAssumption == None \notin Attachment

VARIABLES nodeOf,       \* m_node of each attachment
          attached,     \* node_data.attachments of each node
          listed,       \* how often a scene's layer or camera vector lists it
          rtScene,      \* m_rt_scene: the ray tracing scene that holds the mesh
          skins         \* the skins in m_skins of each scene

attachmentVars == <<nodeOf, attached, listed, rtScene, skins>>
allVars == <<vars, attachmentVars>>

AttachmentInit ==
  /\ Init
  /\ nodeOf = [x \in Attachment |-> None]
  /\ attached = [n \in Item |-> {}]
  /\ listed = [s \in SceneId |-> [x \in Attachment |-> 0]]
  /\ rtScene = [x \in Attachment |-> None]
  /\ skins = [s \in SceneId |-> {}]
-----------------------------------------------------------------------------
Carried(nodes) == UNION {attached[n] : n \in nodes}
SkinsOf(xs) == {SkinOf[x] : x \in xs} \ {None}

\* Wrong: the attachments are only registered with the scene they come to.
HostUpdateRegisters(xs, from, to) ==
  IF from = to \/ to = None
  THEN UNCHANGED <<listed, rtScene, skins>>
  ELSE /\ listed' = [listed EXCEPT ![to] = [x \in Attachment |->
                       IF x \in xs THEN @[x] + 1 ELSE @[x]]]
       /\ rtScene' = [x \in Attachment |-> IF x \in xs THEN to ELSE rtScene[x]]
       /\ skins' = [skins EXCEPT ![to] = @ \cup SkinsOf(xs)]

(***************************************************************************)
(* handle_item_host_update(from, to) of every attachment in xs: taken out  *)
(* of all lists of the one scene, entered in those of the other.  A scene  *)
(* lists a skin while meshes with it come, and drops it with the first     *)
(* mesh that leaves (scene.cpp:434-457).                                   *)
(***************************************************************************)
HostUpdate(xs, from, to) ==
  IF from = to
  THEN UNCHANGED <<listed, rtScene, skins>>
  ELSE /\ listed' = [s \in SceneId |-> [x \in Attachment |->
                       IF x \notin xs THEN listed[s][x]
                       ELSE IF s = from THEN 0
                       ELSE IF s = to THEN listed[s][x] + 1
                       ELSE listed[s][x]]]
       /\ rtScene' = [x \in Attachment |-> IF x \in xs THEN to ELSE rtScene[x]]
       /\ skins' = [s \in SceneId |-> IF s = from THEN skins[s] \ SkinsOf(xs)
                                      ELSE IF s = to THEN skins[s] \cup SkinsOf(xs)
                                      ELSE skins[s]]

\* Node::attach and Node_attachment::set_node; the node it hung on gives it up.
\* Between nodes of one scene the scene's lists are not touched.
Attach(x, n) ==
  LET old == nodeOf[x]
  IN  /\ old # n
      /\ nodeOf' = [nodeOf EXCEPT ![x] = n]
      /\ attached' = [m \in Item |-> IF m = n THEN attached[m] \cup {x}
                                     ELSE IF m = old THEN attached[m] \ {x}
                                     ELSE attached[m]]
      /\ HostUpdate({x}, HostOf(old), HostOf(n))
      /\ UNCHANGED vars

\* Node::detach: set_node(nullptr).
Detach(x) == nodeOf[x] # None /\ Attach(x, None)

\* Wrong: only the node itself updates its attachments.
SetParentHere(n, p, position) ==
  /\ NodeSetParent(n, p, position)
  /\ HostUpdate(Carried({n}), HostOf(tree.parent[n]), HostOf(p))
  /\ UNCHANGED <<nodeOf, attached>>

\* Node::set_parent: the subtree comes along, with all that hangs on it.
SetParentWithAttachments(n, p, position) ==
  /\ NodeSetParent(n, p, position)
  /\ HostUpdate(Carried(Subtree(tree, n)), HostOf(tree.parent[n]), HostOf(p))
  /\ UNCHANGED <<nodeOf, attached>>

\* Hierarchy::remove: the children stay with the parent, and their host with them.
RemoveWithAttachments(n) ==
  /\ NodeRemove(n)
  /\ HostUpdate(Carried({n}), HostOf(tree.parent[n]), None)
  /\ UNCHANGED <<nodeOf, attached>>

\* Hierarchy::recursive_remove
RecursiveRemoveWithAttachments(n) ==
  /\ NodeRecursiveRemove(n)
  /\ HostUpdate(Carried(Subtree(tree, n) \ Roots), host[n], None)
  /\ UNCHANGED <<nodeOf, attached>>

AttachmentNext ==
  \/ \E x \in Attachment, n \in Movable : Attach(x, n)
  \/ \E x \in Attachment : Detach(x)
  \/ \E n \in Movable, p \in Item \cup {None} :
       \E position \in 0 .. (IF p = None THEN 0 ELSE ChildCount(tree, p)) :
          SetParentWithAttachments(n, p, position)
  \/ \E n \in Movable : RemoveWithAttachments(n)
  \/ \E n \in Item : RecursiveRemoveWithAttachments(n)
  \/ \E s \in SceneId : UpdateNodeTransforms(s) /\ UNCHANGED attachmentVars

AttachmentSpec == AttachmentInit /\ [][AttachmentNext]_allVars
-----------------------------------------------------------------------------
AttachmentTypeOK ==
  /\ TypeOK
  /\ nodeOf \in [Attachment -> Movable \cup {None}]
  /\ attached \in [Item -> SUBSET Attachment]
  /\ listed \in [SceneId -> [Attachment -> 0 .. 1]]
  /\ rtScene \in [Attachment -> SceneId \cup {None}]
  /\ skins \in [SceneId -> SUBSET SkinsOf(Attachment)]

SceneOf(x) == HostOf(nodeOf[x])
MeshesOf(s) == {x \in Attachment : SceneOf(x) = s}

\* What node_sanity_check looks for (node.cpp:403-415): both ends agree.
EndsOfAttachments == \A n \in Item : attached[n] = {x \in Attachment : nodeOf[x] = n}

\* A skin that a single mesh uses is listed exactly where that mesh is.  (One that
\* several use is dropped for all of them with the first that leaves.)
SkinsListed ==
  \A s \in SceneId :
    /\ skins[s] \subseteq SkinsOf(MeshesOf(s))
    /\ \A k \in SkinsOf(MeshesOf(s)) \ skins[s] :
         \E x \in Attachment \ MeshesOf(s) : SkinOf[x] = k

(***************************************************************************)
(* Whatever subtree moves, whatever hangs on it, attached and detached in  *)
(* or out of a scene, before or after: an attachment is listed by the      *)
(* scene of its node, once, and by no other, and its ray tracing instance  *)
(* is in that scene's; so attach_rt_to_scene never finds a mesh that is in *)
(* one already (mesh.cpp:138), and nothing is drawn or hit that is gone.   *)
(***************************************************************************)
AttachmentsFollow ==
  /\ AttachmentTypeOK /\ EndsOfAttachments /\ SkinsListed
  /\ \A x \in Attachment :
       /\ rtScene[x] = SceneOf(x)
       /\ \A s \in SceneId : listed[s][x] = IF SceneOf(x) = s THEN 1 ELSE 0
=============================================================================

--------------------------- MODULE OperationStack ---------------------------
(***************************************************************************)
(* The editor's Operation_stack (src/editor/operations/operation_stack.cpp)*)
(* with the callers that queue operations on it: drag and drop in the item *)
(* tree (windows/item_tree_window.cpp), the Attach and Delete buttons      *)
(* (windows/operations.cpp), and the commands of the selection             *)
(* (tools/selection_tool.cpp) and of the clipboard (tools/clipboard.cpp).  *)
(*                                                                         *)
(* Editor::tick (editor.cpp:136-153) runs the windows, then the commands   *)
(* bound to keys, then Operation_stack::update.  So a tick is at most one  *)
(* action of the mouse, some keys, and Update, and the callers construct   *)
(* their operations from what the tree and the selection are before those  *)
(* already queued were executed.                                           *)
(*                                                                         *)
(* before and after are history: before[i] is the tree at the start of     *)
(* executed[i], after[i] the tree that the undo of undone[i] replaced.     *)
(***************************************************************************)
EXTENDS Operations, Lists, FiniteSets

CONSTANTS RootItem,      \* the invisible root of the item tree
          Clones,        \* the items a clone can be
          InitialTrees,  \* the trees the editor may have loaded
          Inputs,        \* which callers are used
          MaxSelected,   \* bound on the items that clicks select
          MaxHistory,    \* bound on the operations kept
          MaxPerTick     \* bound on the inputs of one tick

ASSUME OperationStackAssumption ==
  /\ IsFiniteSet(Item) /\ RootItem \in Item /\ Clones \subseteq Item \ {RootItem}
  /\ \A h \in InitialTrees :
       /\ h \in Hierarchies /\ WellFormed(h)
       /\ h.parent[RootItem] = None /\ \A c \in Clones : h.parent[c] = None
  /\ MaxSelected \in Nat /\ MaxHistory \in Nat /\ MaxPerTick \in Nat \ {0}

VARIABLES m, queued, executed, undone, clipboard, made, given, before, after
history == <<before, after>>
vars == <<m, queued, executed, undone, clipboard, made, given, history>>

Init ==
  /\ m \in {[tree |-> h, selection |-> <<>>, flagged |-> {},
             status |-> "running"] : h \in InitialTrees}
  /\ queued = <<>> /\ executed = <<>> /\ undone = <<>>
  /\ clipboard = <<>> /\ made = {} /\ given = 0
  /\ before = <<>> /\ after = <<>>

Running  == m.status = "running"
Selected == ToSet(m.selection)
\* The items that the item tree window shows.
Shown    == Subtree(m.tree, RootItem) \ {RootItem}
-----------------------------------------------------------------------------
(***************************************************************************)
(* given counts the inputs of a tick from the first one that queues an     *)
(* operation; an input that finds the queue empty and leaves it empty may  *)
(* as well belong to an earlier tick.                                      *)
(***************************************************************************)
Input(kind) == kind \in Inputs /\ Running /\ given < MaxPerTick

\* The mouse comes before the keys.
Mouse(kind) == Input(kind) /\ given = 0

\* Bounds: on the history, and clicks only while fewer operations are kept.
Room      == Len(queued) + Len(executed) < MaxHistory
ClickRoom == Room /\ Len(executed) + Len(undone) < MaxHistory

Queue(ops) ==
  /\ Room
  /\ queued' = Append(queued, ops) /\ given' = given + 1
  /\ UNCHANGED <<executed, undone, history>>

Idle == UNCHANGED <<queued, executed, undone, given, history>>

\* item_update_selection: a click selects one item or nothing ...
Click(n) ==
  /\ Mouse("click") /\ ClickRoom
  /\ m' = [m EXCEPT !.selection = IF n \in m.flagged THEN <<>> ELSE <<n>>,
                    !.flagged   = IF n \in m.flagged THEN @ \ Selected
                                  ELSE (@ \ Selected) \cup {n}]
  /\ Idle /\ UNCHANGED <<clipboard, made>>

\* ... and with the control key it adds or removes one.
ControlClick(n) ==
  /\ Mouse("control_click") /\ ClickRoom
  /\ n \in m.flagged \/ Len(m.selection) < MaxSelected
  /\ m' = IF n \in m.flagged
          THEN [m EXCEPT !.selection = EraseAll(@, {n}),
                         !.flagged   = @ \ {n}]
          ELSE [m EXCEPT !.selection = IF n \in Selected THEN @ ELSE Append(@, n),
                         !.flagged   = @ \cup {n}]
  /\ Idle /\ UNCHANGED <<clipboard, made>>
-----------------------------------------------------------------------------
\* The whole selection is dragged if the item is in it, else the item alone.
Dragged(n) == IF n \in Selected THEN m.selection ELSE <<n>>

AncestorSelected(n) == \E x \in Selected : IsAncestor(m.tree, n, x)

\* Wrong: the target may be below the item.
MayMoveAnywhere(item, target, whole) ==
  item # target /\ (whole => ~AncestorSelected(item))

\* The checks that reposition and try_add_to_attach both make.
MayMove(item, target, whole) ==
  /\ item # target
  /\ ~IsAncestor(m.tree, target, item)
  /\ whole => ~AncestorSelected(item)

\* Those of the items that may be moved, in their order.
Movable(items, n, target) ==
  EraseAll(items, {x \in Item : ~MayMove(x, target, n \in Selected)})

\* Wrong: the selection is walked forwards for either placement.
MoveOpsForward(n, anchor, place) ==
  LET moved == Movable(Dragged(n), n, anchor)
      h     == m.tree
  IN  [i \in DOMAIN moved |->
         IF h.parent[anchor] # h.parent[moved[i]]
         THEN ParentChange(h, h.parent[anchor], moved[i], place, anchor)
         ELSE RepositionInParent(moved[i], place, anchor)]

\* move_selection and reposition: next to the anchor, under its parent.
MoveOps(n, anchor, place) ==
  LET items == IF place = "after" THEN Reverse(Dragged(n)) ELSE Dragged(n)
      moved == Movable(items, n, anchor)
      h     == m.tree
  IN  [i \in DOMAIN moved |->
         IF h.parent[anchor] # h.parent[moved[i]]
         THEN ParentChange(h, h.parent[anchor], moved[i], place, anchor)
         ELSE RepositionInParent(moved[i], place, anchor)]

\* attach_selection_to and try_add_to_attach: at the end of the target's list.
AttachOps(n, target) ==
  LET moved == Movable(Dragged(n), n, target)
  IN  [i \in DOMAIN moved |->
         ParentChange(m.tree, target, moved[i], "end", None)]

Drop(n, target, place) ==
  LET ops == IF place = "end" THEN AttachOps(n, target)
             ELSE MoveOps(n, target, place)
  IN  /\ Mouse("drop")
      /\ ops # <<>>
      /\ Queue(ops) /\ UNCHANGED <<m, clipboard, made>>

\* The Attach button: the first selected node becomes a child of the second.
AttachButton ==
  /\ Mouse("attach_button") /\ Len(m.selection) >= 2
  /\ Queue(<<ParentChange(m.tree, m.selection[2], m.selection[1], "end", None)>>)
  /\ UNCHANGED <<m, clipboard, made>>
-----------------------------------------------------------------------------
\* Wrong: what is below the selected items is not deleted.
DeleteOrdersFlat == SetToSeqs(Selected)

(***************************************************************************)
(* The orders that std::sort may give the items that delete_selection      *)
(* collected, once for each selected item whose subtree they are in:       *)
(* deepest first, those of equal depth either way.                         *)
(***************************************************************************)
DeleteOrders ==
  LET collected == UNION {{s} \X Subtree(m.tree, s) : s \in Selected}
      DeepestFirst(q) == \A i, j \in DOMAIN q :
         i < j => m.tree.depth[q[i][2]] >= m.tree.depth[q[j][2]]
  IN  {[i \in DOMAIN q |-> q[i][2]] :
         q \in {s \in SetToSeqs(collected) : DeepestFirst(s)}}

DeleteSelection ==
  /\ m.selection # <<>>
  /\ \E q \in DeleteOrders :
       Queue([i \in DOMAIN q |-> RemoveItemOp(m, q[i])])

Delete == Input("delete") /\ DeleteSelection /\ UNCHANGED <<m, clipboard, made>>

Cut ==
  /\ Input("cut") /\ DeleteSelection
  /\ clipboard' = m.selection /\ UNCHANGED <<m, made>>

Copy ==
  /\ Input("copy") /\ m.selection # <<>>
  /\ clipboard' = m.selection /\ Idle /\ UNCHANGED <<m, made>>

\* Wrong: the items themselves are inserted.
InsertThemselves(items, parents) ==
  /\ Queue([i \in DOMAIN items |-> InsertItem(m, items[i], parents[i])])
  /\ UNCHANGED <<m, made>>

(***************************************************************************)
(* clone() on every item, and an insertion of each clone.  The copy        *)
(* constructor copies the flags, and for an item with children it throws:  *)
(* it makes the clone the parent of their clones, and shared_from_this of  *)
(* an object under construction is std::bad_weak_ptr.                      *)
(***************************************************************************)
InsertClones(items, parents) ==
  IF \E i \in DOMAIN items : m.tree.children[items[i]] # <<>>
  THEN /\ m' = Stopped(m, "bad_weak_ptr")
       /\ Idle /\ UNCHANGED made
  ELSE \E S \in SUBSET (Clones \ made) :
         LET copy == CHOOSE q \in SetToSeqs(S) : TRUE
         IN  /\ Cardinality(S) = Len(items)
             /\ Queue([i \in DOMAIN items |->
                         InsertItem(m, copy[i], parents[i])])
             /\ m' = [m EXCEPT !.flagged = @ \cup
                        {copy[i] : i \in {j \in DOMAIN items : items[j] \in @}}]
             /\ made' = made \cup S

Duplicate ==
  /\ Input("duplicate") /\ m.selection # <<>>
  /\ InsertClones(m.selection, [i \in DOMAIN m.selection |->
                                 m.tree.parent[m.selection[i]]])
  /\ UNCHANGED clipboard

\* try_paste: with nothing selected an operation without parts is queued.
Paste ==
  /\ Input("paste")
  /\ LET items == IF m.selection = <<>> THEN <<>> ELSE clipboard
     IN  InsertClones(items, [i \in DOMAIN items |-> m.selection[1]])
  /\ UNCHANGED clipboard
-----------------------------------------------------------------------------
\* The program is gone: nothing it kept is looked at again.
Crash(why) ==
  /\ m' = Stopped(m, why)
  /\ Idle

UndoKey ==
  /\ Input("undo") /\ executed # <<>>
  /\ LET r == Undo(Last(executed), m)
     IN  IF r.m.status # "running" THEN Crash(r.m.status)
         ELSE /\ m'        = r.m
              /\ executed' = Front(executed)
              /\ undone'   = Append(undone, r.ops)
              /\ before'   = Front(before)
              /\ after'    = Append(after, m.tree)
              /\ given' = IF queued = <<>> THEN 0 ELSE given + 1
              /\ UNCHANGED queued
  /\ UNCHANGED <<clipboard, made>>

RedoKey ==
  /\ Input("redo") /\ undone # <<>>
  /\ LET r == Execute(Last(undone), m)
     IN  IF r.m.status # "running" THEN Crash(r.m.status)
         ELSE /\ m'        = r.m
              /\ undone'   = Front(undone)
              /\ executed' = Append(executed, r.ops)
              /\ after'    = Front(after)
              /\ before'   = Append(before, m.tree)
              /\ given' = IF queued = <<>> THEN 0 ELSE given + 1
              /\ UNCHANGED queued
  /\ UNCHANGED <<clipboard, made>>

\* Everything queued is executed, in order; then nothing can be redone.
Executed ==
  FoldLeft(LAMBDA r, ops :
             LET e == Execute(ops, r.m)
             IN  [m |-> e.m, done |-> Append(r.done, e.ops),
                  trees |-> Append(r.trees, r.m.tree)],
           [m |-> m, done |-> <<>>, trees |-> <<>>], queued)

\* Wrong: what was undone can still be redone after a new operation.
UpdateKeepsUndone ==
  /\ Running /\ queued # <<>>
  /\ LET r == Executed
     IN  IF r.m.status # "running" THEN Crash(r.m.status)
         ELSE /\ m'        = r.m
              /\ executed' = executed \o r.done
              /\ before'   = before \o r.trees
              /\ queued' = <<>> /\ given' = 0
              /\ UNCHANGED <<undone, after>>
  /\ UNCHANGED <<clipboard, made>>

Update ==
  /\ Running /\ queued # <<>>
  /\ LET r == Executed
     IN  IF r.m.status # "running" THEN Crash(r.m.status)
         ELSE /\ m'        = r.m
              /\ executed' = executed \o r.done
              /\ before'   = before \o r.trees
              /\ queued' = <<>> /\ undone' = <<>> /\ after' = <<>> /\ given' = 0
  /\ UNCHANGED <<clipboard, made>>

Next ==
  \/ \E n \in Shown : Click(n) \/ ControlClick(n)
  \/ \E n, target \in Shown, place \in Placements : Drop(n, target, place)
  \/ AttachButton
  \/ Delete \/ Cut \/ Copy \/ Duplicate \/ Paste
  \/ UndoKey \/ RedoKey
  \/ Update

Spec == Init /\ [][Next]_vars
-----------------------------------------------------------------------------
OperationType ==
  LET Kinds(kinds, moves) ==
        [kind : kinds, item : Item, before : Item \cup {None},
         after : Item \cup {None}, place : Placements,
         anchor : Item \cup {None}, index : Nat, moved : Seq(moves),
         selBefore : Seq(Item), selAfter : Seq(Item)]
  IN  Kinds({"parent_change", "reposition", "insert", "remove"},
            Kinds({"parent_change"}, {}))

TypeOK ==
  /\ m.tree \in Hierarchies /\ m.selection \in Seq(Item) /\ m.flagged \subseteq Item
  /\ m.status \in {"running", "verify_failed", "null_parent", "no_return",
                   "bad_weak_ptr"}
  /\ queued \in Seq(Seq(OperationType)) /\ executed \in Seq(Seq(OperationType))
  /\ undone \in Seq(Seq(OperationType))
  /\ clipboard \in Seq(Item) /\ made \subseteq Clones
  /\ given \in 0 .. MaxPerTick
  /\ before \in Seq(Hierarchies) /\ after \in Seq(Hierarchies)

(***************************************************************************)
(* No ERHE_VERIFY of an operation fails and no null parent is used, however*)
(* the operations, undos and redos follow each other: each is executed and *)
(* undone in the tree it was made for (item_parent_change_operation.cpp:52,*)
(* 77; item_reposition_in_parent_operation.cpp:50-64, 78-88).              *)
(***************************************************************************)
VerifyHolds == m.status \notin {"verify_failed", "null_parent"}

(***************************************************************************)
(* The comments of item_tree_window.cpp:204 and 284 say that an ancestor   *)
(* cannot be attached to a descendant: no operation makes a cycle, which   *)
(* set_depth_recursive would follow forever.                               *)
(***************************************************************************)
NeverBelowItself == m.status # "no_return"

(***************************************************************************)
(* The selection holds only items of the scene, each once, also after      *)
(* deletions, undo and redo, which put earlier selections back.            *)
(***************************************************************************)
SelectionInScene ==
  /\ TypeOK
  /\ Running => /\ Selected \subseteq Shown
                /\ Len(m.selection) = Cardinality(Selected)

(***************************************************************************)
(* What Selection::sanity_check (selection_tool.cpp:793-824) looks for: an *)
(* item of the scene has the flag `selected' just when it is selected.     *)
(***************************************************************************)
FlagsAgree == Running => m.flagged \cap Shown = Selected \cap Shown

(***************************************************************************)
(* What a queued operation will insert is nowhere yet: in no tree that undo*)
(* or redo can come back to, and not selected.  Undoing the insertion      *)
(* leaves the item without a parent, so it must not have had one           *)
(* (item_insert_remove_operation.cpp:50-57, 121-136).                      *)
(***************************************************************************)
Awaited ==
  UNION {{ops[i].item : i \in {j \in DOMAIN ops : ops[j].kind = "insert"}} :
           ops \in ToSet(queued)}
Fresh == (Clones \ made) \cup Awaited

InsertedOnce ==
  \A c \in Fresh :
    /\ c \notin Selected
    /\ \A h \in {m.tree} \cup ToSet(before) \cup ToSet(after) : h.parent[c] = None

(***************************************************************************)
(* The stack is an undo history of item trees: undo gives back exactly the *)
(* tree before the operation, with the order of all children and all       *)
(* depths, and redo exactly the one after it (operation_stack.cpp:93-129). *)
(***************************************************************************)
History == INSTANCE UndoHistory
             WITH past <- before, present <- m.tree, future <- after
ImplementsHistory == History!Spec

(***************************************************************************)
(* Undo and redo always come to their end: no verification of theirs fails *)
(* and no recursion of theirs runs on, whatever else was edited, undone and*)
(* redone before (item_parent_change_operation.cpp:77,                     *)
(* item_reposition_in_parent_operation.cpp:78-88).                         *)
(***************************************************************************)
UndoReturns == [][UndoKey \/ RedoKey => m'.status = "running"]_vars

(***************************************************************************)
(* A drop before or after an item leaves all that was dragged next to it,  *)
(* in the order of the selection (item_tree_window.cpp:105-133).           *)
(***************************************************************************)
DroppedTogether ==
  [][\A anchor \in Item, place \in {"before", "after"} :
       LET ops   == queued[1]
           items == {ops[i].item : i \in DOMAIN ops}
           row   == IF items \subseteq Selected
                    THEN EraseAll(m.selection, Item \ items)
                    ELSE SetToSeq(items)
           run   == IF place = "before" THEN Append(row, anchor)
                    ELSE <<anchor>> \o row
           list  == m'.tree.children[m'.tree.parent[anchor]]
       IN  /\ queued' = <<>> /\ Len(queued) = 1 /\ ops # <<>>
           /\ \A i \in DOMAIN ops : ops[i].place = place /\ ops[i].anchor = anchor
           => \E k \in 1 .. (Len(list) + 1 - Len(run)) :
                SubSeq(list, k, k + Len(run) - 1) = run]_vars

(***************************************************************************)
(* Deleting takes exactly the selected items and what is below them out of *)
(* the scene, and leaves every other item below the parent it had: though  *)
(* each removal hands its children to its own parent, none stays behind    *)
(* (selection_tool.cpp:326-388).                                           *)
(***************************************************************************)
DeleteIsExact ==
  [][/\ queued' = <<>> /\ Len(queued) = 1 /\ queued[1] # <<>>
     /\ \A i \in DOMAIN queued[1] : queued[1][i].kind = "remove"
     => /\ Shown' = Shown \ UNION {Subtree(m.tree, s) : s \in Selected}
        /\ \A n \in Shown' : m'.tree.parent[n] = m.tree.parent[n]]_vars
=============================================================================

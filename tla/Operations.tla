----------------------------- MODULE Operations -----------------------------
(***************************************************************************)
(* The undoable operations of the editor on the items of a scene           *)
(* (src/editor/operations), as functions on the part of the editor that    *)
(* they change, a record m of                                              *)
(*   tree       the item hierarchy,                                        *)
(*   selection  Selection::m_selection, in order,                          *)
(*   flagged    the items whose flag Item_flags::selected is set,          *)
(*   status     "running", or why the program is gone: an ERHE_VERIFY that *)
(*              failed, a recursion that never returns, a null pointer, an *)
(*              exception nobody catches.                                  *)
(* Executing or undoing an operation also changes the operation, which     *)
(* remembers positions: both return a record of the op and the next m.     *)
(***************************************************************************)
EXTENDS Hierarchy

Placements == {"end", "before", "after"}

\* The members of the three operation classes; each kind uses some.
Operation(kind, item, before, after) ==
  [kind |-> kind, item |-> item, before |-> before, after |-> after,
   place |-> "end", anchor |-> None, index |-> 0, moved |-> <<>>,
   selBefore |-> <<>>, selAfter |-> <<>>]

\* The constructors, which already read the tree and the selection.
ParentChange(h, parent, child, place, anchor) ==
  [Operation("parent_change", child, h.parent[child], parent)
     EXCEPT !.place = place, !.anchor = anchor]

RepositionInParent(child, place, anchor) ==
  [Operation("reposition", child, None, None)
     EXCEPT !.place = place, !.anchor = anchor]

\* Wrong: undoing would select what it takes away.
InsertItemSelected(m, item, parent) ==
  [Operation("insert", item, None, parent)
     EXCEPT !.selBefore = <<item>>, !.selAfter = <<item>>]

InsertItem(m, item, parent) ==
  [Operation("insert", item, None, parent)
     EXCEPT !.selBefore = m.selection, !.selAfter = m.selection]

\* Wrong: the selection is not cleared.
RemoveItemSelected(m, item) ==
  [Operation("remove", item, None, None)
     EXCEPT !.selBefore = m.selection, !.selAfter = m.selection]

RemoveItemOp(m, item) ==
  [Operation("remove", item, None, None) EXCEPT !.selBefore = m.selection]
-----------------------------------------------------------------------------
Stopped(m, why) == [m EXCEPT !.status = why]

Attach(m, n, p, position) ==
  IF CreatesCycle(m.tree, n, p) THEN Stopped(m, "no_return")
  ELSE [m EXCEPT !.tree = SetParent(@, n, p, position)]

SetSelection(m, items) ==
  [m EXCEPT !.selection = items,
            !.flagged   = (@ \ ToSet(m.selection)) \cup ToSet(items)]

\* Where the anchor says to go: its position in the list of its own parent.
Target(h, op, p) ==
  CASE op.place = "end"    -> IF p = None THEN 0 ELSE ChildCount(h, p)
    [] op.place = "before" -> IndexInParent(h, op.anchor)
    [] op.place = "after"  -> IndexInParent(h, op.anchor) + 1
-----------------------------------------------------------------------------
ExecuteParentChange(op, m) ==
  [op |-> [op EXCEPT !.index = IndexInParent(m.tree, op.item)],
   m  |-> IF m.tree.parent[op.item] # op.before
          THEN Stopped(m, "verify_failed")
          ELSE Attach(m, op.item, op.after, Target(m.tree, op, op.after))]

\* Wrong: the child goes back to the end of the list.
UndoParentChangeLast(op, m) ==
  [op |-> op,
   m  |-> IF m.tree.parent[op.item] # op.after
          THEN Stopped(m, "verify_failed")
          ELSE Attach(m, op.item, op.before, ChildCount(m.tree, op.before))]

UndoParentChange(op, m) ==
  [op |-> op,
   m  |-> IF m.tree.parent[op.item] # op.after
          THEN Stopped(m, "verify_failed")
          ELSE Attach(m, op.item, op.before, op.index)]

\* The anchor's position is taken after the item was erased from the list.
ExecuteReposition(op, m) ==
  LET h        == m.tree
      p        == h.parent[op.item]
      erased   == [h EXCEPT !.children[p] = Without(@, op.item)]
      position == Target(erased, op, p)
  IN  [op |-> [op EXCEPT !.index = IndexInParent(h, op.item)],
       m  |-> IF p = None THEN Stopped(m, "verify_failed")
              ELSE IF position > ChildCount(erased, p)
              THEN Stopped(m, "verify_failed")
              ELSE [m EXCEPT !.tree = Reposition(h, op.item, position)]]

UndoReposition(op, m) ==
  LET p == m.tree.parent[op.item]
  IN  [op |-> op,
       m  |-> IF p = None THEN Stopped(m, "verify_failed")
              ELSE IF op.index >= ChildCount(m.tree, p)
              THEN Stopped(m, "verify_failed")
              ELSE [m EXCEPT !.tree = Reposition(@, op.item, op.index)]]
-----------------------------------------------------------------------------
\* Steps run one after another; a program that is gone does nothing more.
InOrder(Step(_, _), ops, m) ==
  FoldLeft(LAMBDA r, op :
             IF r.m.status # "running"
             THEN [ops |-> Append(r.ops, op), m |-> r.m]
             ELSE [ops |-> Append(r.ops, Step(op, r.m).op),
                   m   |-> Step(op, r.m).m],
           [ops |-> <<>>, m |-> m], ops)

InReverse(Step(_, _), ops, m) ==
  LET r == InOrder(Step, Reverse(ops), m)
  IN  [ops |-> Reverse(r.ops), m |-> r.m]

\* set_parent and set_selection, at the end of execute.
Place(m, n, p, position, items) ==
  LET placed == Attach(m, n, p, position)
  IN  IF placed.status = "running" THEN SetSelection(placed, items) ELSE placed

ExecuteInsert(op, m) ==
  [op |-> [op EXCEPT !.index = 0],
   m  |-> Place(m, op.item, op.after, 0, op.selAfter)]

\* The children go to the end of the list of the parent, first one first.
ExecuteRemove(op, m) ==
  LET h     == m.tree
      p     == h.parent[op.item]
      moves == [i \in DOMAIN h.children[op.item] |->
                  ParentChange(h, p, h.children[op.item][i], "end", None)]
      r     == InOrder(ExecuteParentChange, moves, m)
      index == IndexInParent(h, op.item)
  IN  [op |-> [op EXCEPT !.before = p, !.index = index, !.moved = r.ops],
       m  |-> IF p = None /\ moves # <<>> THEN Stopped(m, "null_parent")
              ELSE IF r.m.status # "running" THEN r.m
              ELSE Place(r.m, op.item, op.after, index, op.selAfter)]

UndoInsertRemove(op, m) ==
  LET placed == Attach(m, op.item, op.before, op.index)
      r      == InReverse(UndoParentChange, op.moved, placed)
  IN  [op |-> [op EXCEPT !.after = IF op.kind = "remove"
                                   THEN m.tree.parent[op.item] ELSE @],
       m  |-> IF r.m.status = "running" THEN SetSelection(r.m, op.selBefore)
              ELSE r.m]
-----------------------------------------------------------------------------
ExecuteOne(op, m) ==
  CASE op.kind = "parent_change" -> ExecuteParentChange(op, m)
    [] op.kind = "reposition"    -> ExecuteReposition(op, m)
    [] op.kind = "insert"        -> ExecuteInsert(op, m)
    [] op.kind = "remove"        -> ExecuteRemove(op, m)

UndoOne(op, m) ==
  CASE op.kind = "parent_change"         -> UndoParentChange(op, m)
    [] op.kind = "reposition"            -> UndoReposition(op, m)
    [] op.kind \in {"insert", "remove"}  -> UndoInsertRemove(op, m)

\* A compound operation is the sequence of its operations.
Execute(ops, m) == InOrder(ExecuteOne, ops, m)

\* Wrong: undone first one first.
UndoForward(ops, m) == InOrder(UndoOne, ops, m)

Undo(ops, m) == InReverse(UndoOne, ops, m)
=============================================================================

-------------------------- MODULE MCOperationStack --------------------------
(* Small item trees and the callers that each run uses. *)
EXTENDS OperationStack, TLC
CONSTANTS root, a, b, c, k, l
Renaming == Permutations({a, b, c})

Below(h, n, p) == SetParent(h, n, p, ChildCount(h, p))
OfTwo   == Below(Below(Orphans, a, root), b, root)
Row     == {Below(OfTwo, c, root)}
RowOf2  == {OfTwo}
Nested  == {Below(Below(Orphans, a, root), b, a)}

Dragging  == {"click", "control_click", "drop", "delete", "undo", "redo"}
Copying   == {"control_click", "attach_button", "cut", "copy", "duplicate", "paste",
              "undo", "redo"}
Attaching == {"control_click", "attach_button"}
Cloning   == {"control_click", "duplicate"}
=============================================================================

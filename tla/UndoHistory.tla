---------------------------- MODULE UndoHistory ----------------------------
(***************************************************************************)
(* What an undo stack promises, whatever is edited: the present version,   *)
(* the versions that came before it, oldest first, and those that were     *)
(* undone, newest first.  Undo and redo move along the line and never make *)
(* a version; an edit extends the line and forgets what was undone.        *)
(***************************************************************************)
EXTENDS Naturals, Sequences

VARIABLES past, present, future

Front(s) == SubSeq(s, 1, Len(s) - 1)

Init == past = <<>> /\ future = <<>>

\* One or more edits in a row: any later versions may follow the present one.
Edit ==
  /\ Len(past') > Len(past)
  /\ SubSeq(past', 1, Len(past) + 1) = Append(past, present)
  /\ future' = <<>>

UndoEdit ==
  /\ past # <<>>
  /\ past' = Front(past)
  /\ present' = past[Len(past)]
  /\ future' = Append(future, present)

RedoEdit ==
  /\ future # <<>>
  /\ past' = Append(past, present)
  /\ present' = future[Len(future)]
  /\ future' = Front(future)

Next == Edit \/ UndoEdit \/ RedoEdit
Spec == Init /\ [][Next]_<<past, present, future>>
=============================================================================

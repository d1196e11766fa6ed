------------------------------- MODULE Lists -------------------------------
(***************************************************************************)
(* What the code does to a std::vector with an erase of all the elements   *)
(* that satisfy a condition: those that stay keep their order.             *)
(***************************************************************************)
EXTENDS Naturals, SequencesExt

EraseAll(s, S) ==
  FoldLeft(LAMBDA kept, x : IF x \in S THEN kept ELSE Append(kept, x), <<>>, s)
=============================================================================

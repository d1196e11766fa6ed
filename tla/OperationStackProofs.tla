------------------------ MODULE OperationStackProofs ------------------------
(***************************************************************************)
(* Proofs about module OperationStack, for all items, trees and callers:   *)
(* what is executed can be undone, and what was undone can be done again,  *)
(* in the tree it was done in and with the result it had; and if each tick *)
(* takes one input, what its callers rely on: that no verification fails,  *)
(* that the selection is of the scene, and what a drop and a deletion do.  *)
(***************************************************************************)
EXTENDS OperationStack, HierarchyProofs, ListProofs

-----------------------------------------------------------------------------
(***************************************************************************)
(* InOrder, for a step that is a function: does[op][x] is what the step    *)
(* makes of op and x.  O has the operations, M what they work on.          *)
(***************************************************************************)
Results(O, M) == [op : O, m : M]

\* One more step of a list.
OneMore(does, op, r) ==
  IF r.m.status # "running"
  THEN [ops |-> Append(r.ops, op), m |-> r.m]
  ELSE [ops |-> Append(r.ops, does[op][r.m].op), m |-> does[op][r.m].m]

\* os is what became of ops, and ms what was there before and after each of them.
Chain(does, ops, os, ms) ==
  \A k \in 1 .. Len(ops) :
    IF ms[k - 1].status # "running"
    THEN os[k] = ops[k] /\ ms[k] = ms[k - 1]
    ELSE os[k] = does[ops[k]][ms[k - 1]].op /\ ms[k] = does[ops[k]][ms[k - 1]].m

\* What becomes of ops and of x, each operation done after the one before it.
Runs(O, M, does, ops, x, result) ==
  \E os \in Seq(O), ms \in [0 .. Len(ops) -> M] :
    /\ Len(os) = Len(ops) /\ ms[0] = x /\ Chain(does, ops, os, ms)
    /\ result = [ops |-> os, m |-> ms[Len(ops)]]

\* FoldLeft takes its steps on subsets of the domain of ops, the last one first.
Folds(does, ops, x, f) ==
  \A D \in SUBSET (1 .. Len(ops)) :
    f[D] = IF D = {} THEN [ops |-> <<>>, m |-> x]
           ELSE OneMore(does, ops[Max(D)], f[D \ {Max(D)}])

\* The same over the sets of the operations and machines.
FoldsOn(O, M, does, ops, x, f) ==
  \A D \in SUBSET (1 .. Len(ops)) :
    /\ D = {} => f[D] = [ops |-> <<>>, m |-> x]
    /\ D # {} /\ f[D \ {Max(D)}] \in [ops : Seq(O), m : M]
         => f[D] = OneMore(does, ops[Max(D)], f[D \ {Max(D)}])

\* There is a function that FoldLeft may speak of ...
LEMMA FoldExists ==
  ASSUME NEW O, NEW M, NEW does \in [O -> [M -> Results(O, M)]],
         NEW ops \in Seq(O), NEW x \in M
  PROVE  \E f \in [SUBSET (1 .. Len(ops)) -> [ops : Seq(O), m : M]] :
           Folds(does, ops, x, f)
<1> DEFINE n == Len(ops)
           B == [ops : Seq(O), m : M]
           base == [ops |-> <<>>, m |-> x]
           step == [k \in 1 .. n |-> [r \in B |-> OneMore(does, ops[k], r)]]
<1>1. n \in Nat /\ base \in B /\ \A k \in 1 .. n : ops[k] \in O
  OBVIOUS
<1>2. ASSUME NEW op \in O, NEW r \in B PROVE OneMore(does, op, r) \in B
  <2>1. r.ops \in Seq(O) /\ r.m \in M
    OBVIOUS
  <2>2. does[op][r.m].op \in O /\ does[op][r.m].m \in M
    BY <2>1 DEF Results
  <2>3. Append(r.ops, op) \in Seq(O) /\ Append(r.ops, does[op][r.m].op) \in Seq(O)
    BY <2>1, <2>2
  <2> QED BY <2>1, <2>2, <2>3 DEF OneMore
<1> HIDE DEF B
<1>3. step \in [1 .. n -> [B -> B]]
  BY <1>1, <1>2
<1>4. \A D \in SUBSET (1 .. n) : D # {} => Max(D) \in 1 .. n
  BY <1>1, MaxOfSome
<1>5. PICK f \in [SUBSET (1 .. n) -> B] : Peels(n, base, step, f)
  <2> HIDE DEF step, n, base
  <2> QED BY <1>1, <1>3, PeelingExists
<1>6. \A k \in 1 .. n : \A r \in B : step[k][r] = OneMore(does, ops[k], r)
  OBVIOUS
<1>7. ASSUME NEW D \in SUBSET (1 .. n)
      PROVE  f[D] = IF D = {} THEN base ELSE OneMore(does, ops[Max(D)], f[D \ {Max(D)}])
  <2>1. f[D] = IF D = {} THEN base ELSE step[Max(D)][f[D \ {Max(D)}]]
    BY <1>5 DEF Peels
  <2>2. f[D \ {Max(D)}] \in B
    BY <1>5
  <2> HIDE DEF step, n, base
  <2> QED BY <2>1, <2>2, <1>4, <1>6
<1> HIDE DEF step
<1> QED BY <1>5, <1>7 DEF Folds, B, n, base

(***************************************************************************)
(* ... and whichever it is that it speaks of, its last value is what the   *)
(* operations do one after another.                                        *)
(***************************************************************************)
LEMMA FoldRuns ==
  ASSUME NEW O, NEW M, NEW does \in [O -> [M -> Results(O, M)]],
         NEW ops \in Seq(O), NEW x \in M, NEW it,
         FoldsOn(O, M, does, ops, x, it)
  PROVE  Runs(O, M, does, ops, x, it[1 .. Len(ops)])
<1> DEFINE n == Len(ops)
           B == [ops : Seq(O), m : M]
           run(k) == it[1 .. k]
<1>1. n \in Nat /\ \A k \in 1 .. n : ops[k] \in O
  OBVIOUS
<1>2. ASSUME NEW op \in O, NEW r \in B
      PROVE  /\ OneMore(does, op, r) \in B
             /\ Len(OneMore(does, op, r).ops) = Len(r.ops) + 1
             /\ \A i \in 1 .. Len(r.ops) : OneMore(does, op, r).ops[i] = r.ops[i]
             /\ r.m.status # "running" =>
                  /\ OneMore(does, op, r).ops[Len(r.ops) + 1] = op
                  /\ OneMore(does, op, r).m = r.m
             /\ r.m.status = "running" =>
                  /\ OneMore(does, op, r).ops[Len(r.ops) + 1] = does[op][r.m].op
                  /\ OneMore(does, op, r).m = does[op][r.m].m
  <2>1. r.ops \in Seq(O) /\ r.m \in M
    OBVIOUS
  <2>2. does[op][r.m].op \in O /\ does[op][r.m].m \in M
    BY <2>1 DEF Results
  <2>3. \A y \in O : /\ Append(r.ops, y) \in Seq(O) /\ Len(Append(r.ops, y)) = Len(r.ops) + 1
                     /\ \A i \in 1 .. Len(r.ops) : Append(r.ops, y)[i] = r.ops[i]
                     /\ Append(r.ops, y)[Len(r.ops) + 1] = y
    BY <2>1
  <2>4. CASE r.m.status # "running"
    <3>1. OneMore(does, op, r) = [ops |-> Append(r.ops, op), m |-> r.m]
      BY <2>4 DEF OneMore
    <3> QED BY <2>1, <2>3, <2>4, <3>1
  <2>5. CASE r.m.status = "running"
    <3>1. OneMore(does, op, r) = [ops |-> Append(r.ops, does[op][r.m].op), m |-> does[op][r.m].m]
      BY <2>5 DEF OneMore
    <3> HIDE DEF B
    <3> QED BY <2>2, <2>3, <2>5, <3>1 DEF B
  <2> QED BY <2>4, <2>5
<1>3. run(0) = [ops |-> <<>>, m |-> x]
  <2>1. 1 .. 0 = {} /\ {} \in SUBSET (1 .. n)
    OBVIOUS
  <2>2. it[{}] = [ops |-> <<>>, m |-> x]
    BY <2>1 DEF FoldsOn
  <2> QED BY <2>1, <2>2
<1>4. ASSUME NEW k \in 1 .. n, run(k - 1) \in B
      PROVE  run(k) = OneMore(does, ops[k], run(k - 1))
  <2>1. /\ 1 .. k \in SUBSET (1 .. n) /\ 1 .. k # {} /\ Max(1 .. k) = k
        /\ (1 .. k) \ {k} = 1 .. k - 1
    BY <1>1, PeelingCounts
  <2> QED BY <1>4, <2>1 DEF FoldsOn
<1> HIDE DEF run
<1>5. \A k \in 0 .. n : run(k) \in B /\ Len(run(k).ops) = k
  <2> DEFINE T == {k \in 0 .. n : run(k) \in B /\ Len(run(k).ops) = k}
  <2>1. 0 \in T
    <3>1. run(0) \in B /\ Len(run(0).ops) = 0
      <4>1. <<>> \in Seq(O) /\ Len(<<>>) = 0
        OBVIOUS
      <4>2. run(0).ops = <<>> /\ run(0).m = x
        BY <1>3
      <4>3. run(0) \in B
        <5> DEFINE e == <<>>
        <5>1. e \in Seq(O) /\ run(0) = [ops |-> e, m |-> x]
          BY <1>3
        <5> HIDE DEF e
        <5> QED BY <5>1
      <4> HIDE DEF B
      <4> QED BY <4>1, <4>2, <4>3
    <3> QED BY <1>1, <3>1
  <2>2. ASSUME NEW k \in 0 .. n - 1, k \in T PROVE k + 1 \in T
    <3>1. k + 1 \in 1 .. n /\ (k + 1) - 1 = k /\ run(k) \in B /\ Len(run(k).ops) = k
      BY <1>1, <2>2
    <3>2. run(k + 1) = OneMore(does, ops[k + 1], run(k))
      BY <1>4, <3>1
    <3> HIDE DEF B
    <3>3. run(k + 1) \in B /\ Len(run(k + 1).ops) = k + 1
      BY <1>1, <1>2, <3>1, <3>2
    <3> QED BY <3>1, <3>3
  <2>3. 0 .. n \subseteq T
    <3> HIDE DEF T, n
    <3> QED BY <1>1, <2>1, <2>2, CountingUp
  <2> QED BY <2>3
<1> DEFINE ms == [k \in 0 .. n |-> run(k).m]
           os == run(n).ops
<1>6. ms \in [0 .. n -> M] /\ os \in Seq(O) /\ Len(os) = n
  <2>1. \A k \in 0 .. n : run(k).m \in M /\ run(k).ops \in Seq(O)
    BY <1>5
  <2>2. n \in 0 .. n
    BY <1>1
  <2> QED BY <1>5, <2>1, <2>2
<1>7. \A k \in 0 .. n : \A i \in 1 .. k : run(k).ops[i] = run(i).ops[i]
  <2> DEFINE T == {k \in 0 .. n : \A i \in 1 .. k : run(k).ops[i] = run(i).ops[i]}
  <2>1. 0 \in T
    BY <1>1
  <2>2. ASSUME NEW k \in 0 .. n - 1, k \in T PROVE k + 1 \in T
    <3>1. /\ k + 1 \in 1 .. n /\ (k + 1) - 1 = k /\ run(k) \in B /\ Len(run(k).ops) = k
          /\ k + 1 \in 0 .. n
      BY <1>1, <1>5, <2>2
    <3>2. run(k + 1) = OneMore(does, ops[k + 1], run(k))
      BY <1>4, <3>1
    <3>3. \A i \in 1 .. k : run(k + 1).ops[i] = run(k).ops[i]
      <4>1. ops[k + 1] \in O
        BY <1>1, <3>1
      <4> HIDE DEF B, ms, os, T
      <4>2. \A i \in 1 .. Len(run(k).ops) :
              OneMore(does, ops[k + 1], run(k)).ops[i] = run(k).ops[i]
        BY <1>2, <3>1, <4>1
      <4> QED BY <3>1, <3>2, <4>2
    <3>4. ASSUME NEW i \in 1 .. k + 1 PROVE run(k + 1).ops[i] = run(i).ops[i]
      <4>1. CASE i = k + 1
        BY <4>1
      <4>2. CASE i # k + 1
        <5>1. i \in 1 .. k
          BY <4>2, <3>1
        <5> QED BY <5>1, <3>3, <2>2
      <4> QED BY <4>1, <4>2
    <3> QED BY <3>1, <3>4
  <2>3. 0 .. n \subseteq T
    <3> HIDE DEF T, n
    <3> QED BY <1>1, <2>1, <2>2, CountingUp
  <2> QED BY <2>3
<1>8. Chain(does, ops, os, ms)
  <2> SUFFICES ASSUME NEW k \in 1 .. n
               PROVE  IF ms[k - 1].status # "running"
                      THEN os[k] = ops[k] /\ ms[k] = ms[k - 1]
                      ELSE /\ os[k] = does[ops[k]][ms[k - 1]].op
                           /\ ms[k] = does[ops[k]][ms[k - 1]].m
    BY DEF Chain
  <2>1. /\ k - 1 \in 0 .. n /\ k \in 0 .. n /\ n \in 0 .. n /\ k \in 1 .. n
        /\ (k - 1) + 1 = k
    BY <1>1
  <2>2. run(k - 1) \in B /\ Len(run(k - 1).ops) = k - 1
    BY <2>1, <1>5
  <2>3. run(k) = OneMore(does, ops[k], run(k - 1))
    BY <2>2, <1>4
  <2>4. os[k] = run(k).ops[k] /\ ms[k] = run(k).m /\ ms[k - 1] = run(k - 1).m
    BY <2>1, <1>7
  <2> HIDE DEF B, os, ms
  <2>5. CASE run(k - 1).m.status # "running"
    <3>1. OneMore(does, ops[k], run(k - 1)).ops[k] = ops[k]
          /\ OneMore(does, ops[k], run(k - 1)).m = run(k - 1).m
      BY <1>1, <1>2, <2>1, <2>2, <2>5
    <3> QED BY <2>3, <2>4, <2>5, <3>1
  <2>6. CASE run(k - 1).m.status = "running"
    <3>1. /\ OneMore(does, ops[k], run(k - 1)).ops[k] = does[ops[k]][run(k - 1).m].op
          /\ OneMore(does, ops[k], run(k - 1)).m = does[ops[k]][run(k - 1).m].m
      BY <1>1, <1>2, <2>1, <2>2, <2>6
    <3> QED BY <2>3, <2>4, <2>6, <3>1
  <2> QED BY <2>5, <2>6
<1>9. run(n) = [ops |-> os, m |-> ms[n]]
  BY <1>1, <1>5
<1>10. ms[0] = x
  BY <1>1, <1>3
<1> QED BY <1>6, <1>8, <1>9, <1>10 DEF Runs, run

-----------------------------------------------------------------------------
(***************************************************************************)
(* What the operations are and what they work on.                          *)
(***************************************************************************)
Statuses == {"running", "verify_failed", "null_parent", "no_return", "bad_weak_ptr"}

\* The tree that is edited, with the selection and whether the program runs.
Machines ==
  {x \in [tree : Hierarchies, selection : Seq(Item), flagged : SUBSET Item,
          status : Statuses] : Tree(x.tree)}

\* Operations of some kinds, with the moves that a removal remembers.
OpsWith(kinds, moves) ==
  {op \in [kind : kinds, item : Item, before : Item \cup {None},
           after : Item \cup {None}, place : Placements, anchor : Item \cup {None},
           index : Nat, moved : Seq(moves), selBefore : Seq(Item), selAfter : Seq(Item)] :
     op.place # "end" => op.anchor # None}

Moves == OpsWith({"parent_change"}, {})
Ops   == OpsWith({"parent_change", "reposition", "insert", "remove"}, Moves)

IsRunning(x) == x.status = "running"

\* A failed check stops the program and changes nothing else.
LEMMA StoppedIs ==
  ASSUME NEW x \in Machines, NEW why \in Statuses
  PROVE  /\ Stopped(x, why) \in Machines /\ Stopped(x, why).status = why
         /\ Stopped(x, why).tree = x.tree /\ Stopped(x, why).selection = x.selection
BY DEF Machines, Stopped

\* get_index_in_parent is a position.
LEMMA IndexIsNat ==
  ASSUME NEW h \in Hierarchies, NEW n \in Item
  PROVE  IndexInParent(h, n) \in Nat
<1> USE NoneAssumption
<1>1. CASE h.parent[n] # None /\ n \in Children(h, h.parent[n])
  <2> DEFINE s == h.children[h.parent[n]]
  <2>1. s \in Seq(Item)
    BY <1>1 DEF Hierarchies
  <2>2. \E i \in DOMAIN s : s[i] = n
    BY <1>1 DEF Children
  <2>3. DOMAIN s = 1 .. Len(s) /\ Len(s) \in Nat
    BY <2>1
  <2> HIDE DEF s
  <2>4. IndexOf(s, n) \in Nat
    BY <2>2, <2>3 DEF IndexOf
  <2> QED BY <1>1, <2>4 DEF IndexInParent, s
<1>2. CASE ~(h.parent[n] # None /\ n \in Children(h, h.parent[n]))
  BY <1>2 DEF IndexInParent
<1> QED BY <1>1, <1>2

\* The place that an operation moves its item to is a position.
LEMMA TargetIsNat ==
  ASSUME NEW K, NEW V, NEW op \in OpsWith(K, V), NEW h \in Hierarchies,
         NEW p \in Item \cup {None}
  PROVE  Target(h, op, p) \in Nat
<1>1. op.place \in {"end", "before", "after"} /\ op.anchor \in Item \cup {None}
      /\ (op.place # "end" => op.anchor \in Item)
  BY DEF OpsWith, Placements
<1>2. CASE op.place = "end"
  <2>1. p # None => ChildCount(h, p) \in Nat
    BY DEF ChildCount, Hierarchies
  <2> QED BY <1>2, <2>1 DEF Target
<1>3. CASE op.place = "before"
  BY <1>1, <1>3, IndexIsNat DEF Target
<1>4. CASE op.place = "after"
  <2>1. IndexInParent(h, op.anchor) \in Nat
    BY <1>1, <1>4, IndexIsNat
  <2> QED BY <1>4, <2>1 DEF Target
<1> QED BY <1>1, <1>2, <1>3, <1>4

\* set_parent, with the check that it returns.
LEMMA AttachIs ==
  ASSUME NEW x \in Machines, NEW n \in Item, NEW p \in Item \cup {None}, NEW position \in Nat
  PROVE  LET y == Attach(x, n, p, position)
         IN  /\ y \in Machines /\ y.selection = x.selection
             /\ CreatesCycle(x.tree, n, p) => y.status = "no_return" /\ y.tree = x.tree
             /\ ~CreatesCycle(x.tree, n, p) =>
                  y.status = x.status /\ y.tree = SetParent(x.tree, n, p, position)
<1> USE NoneAssumption
<1> DEFINE y == Attach(x, n, p, position)
           g == SetParent(x.tree, n, p, position)
<1>1. Tree(x.tree)
  BY DEF Machines
<1>2. CASE CreatesCycle(x.tree, n, p)
  BY <1>2, StoppedIs DEF Attach, Statuses
<1>3. CASE ~CreatesCycle(x.tree, n, p)
  <2>1. p \notin Subtree(x.tree, n)
    BY <1>1, <1>3, SubtreeLeast DEF CreatesCycle, Tree
  <2>2. Tree(g)
    BY <1>1, <2>1, SetParentTree
  <2>3. y = [x EXCEPT !.tree = g]
    BY <1>3 DEF Attach
  <2> HIDE DEF g
  <2>4. g \in Hierarchies
    BY <2>2 DEF Tree
  <2>5. /\ y \in Machines /\ y.selection = x.selection
        /\ y.status = x.status /\ y.tree = g
    BY <2>2, <2>3, <2>4 DEF Machines
  <2> QED BY <1>3, <2>5 DEF g
<1> QED BY <1>2, <1>3

\* set_selection replaces the selection and leaves the tree.
LEMMA SelectionIs ==
  ASSUME NEW x \in Machines, NEW items \in Seq(Item)
  PROVE  LET y == SetSelection(x, items)
         IN  y \in Machines /\ y.status = x.status /\ y.tree = x.tree /\ y.selection = items
<1>1. ToSet(items) \subseteq Item
  BY DEF ToSet
<1> DEFINE F == (x.flagged \ ToSet(x.selection)) \cup ToSet(items)
<1>2. F \in SUBSET Item
  BY <1>1 DEF Machines
<1>3. SetSelection(x, items) = [x EXCEPT !.selection = items, !.flagged = F]
  BY DEF SetSelection
<1> HIDE DEF F
<1> QED BY <1>2, <1>3 DEF Machines

\* An operation that remembers a position.
LEMMA WithIndex ==
  ASSUME NEW K, NEW V, NEW op \in OpsWith(K, V), NEW k \in Nat
  PROVE  LET q == [op EXCEPT !.index = k]
         IN  /\ q \in OpsWith(K, V) /\ q.index = k
             /\ q.kind = op.kind /\ q.item = op.item /\ q.before = op.before
             /\ q.after = op.after /\ q.place = op.place /\ q.anchor = op.anchor
             /\ q.moved = op.moved
             /\ q.selBefore = op.selBefore /\ q.selAfter = op.selAfter
             /\ \A j : [q EXCEPT !.index = j] = [op EXCEPT !.index = j]
             /\ [q EXCEPT !.index = k] = q
BY DEF OpsWith

\* The parts of an operation.
LEMMA OpParts ==
  ASSUME NEW K, NEW V, NEW op \in OpsWith(K, V)
  PROVE  /\ op.kind \in K /\ op.item \in Item /\ op.before \in Item \cup {None}
         /\ op.after \in Item \cup {None} /\ op.index \in Nat /\ op.moved \in Seq(V)
         /\ op.anchor \in Item \cup {None} /\ op.place \in Placements
         /\ op.selBefore \in Seq(Item) /\ op.selAfter \in Seq(Item)
         /\ op.place # "end" => op.anchor \in Item
BY DEF OpsWith
-----------------------------------------------------------------------------
(***************************************************************************)
(* A change of parent, whether it is an operation of its own or a part of  *)
(* a removal.                                                              *)
(***************************************************************************)
MovesWell(op, h) ==
  h.parent[op.item] = op.before /\ ~CreatesCycle(h, op.item, op.after)

\* What the operation becomes, and what the tree becomes.
Remembering(op, h) == [op EXCEPT !.index = IndexInParent(h, op.item)]
Moved(op, h)       == SetParent(h, op.item, op.after, Target(h, op, op.after))

\* Executing a parent change: its checks, and the tree that comes of it.
LEMMA ParentChangeIs ==
  ASSUME NEW K, NEW V, NEW op \in OpsWith(K, V), NEW x \in Machines, IsRunning(x),
         NEW r, r = ExecuteParentChange(op, x)
  PROVE  /\ r.op = Remembering(op, x.tree)
         /\ r.op \in OpsWith(K, V) /\ r.m \in Machines /\ r.m.selection = x.selection
         /\ IsRunning(r.m) <=> MovesWell(op, x.tree)
         /\ IsRunning(r.m) => r.m.tree = Moved(op, x.tree)
<1> DEFINE h == x.tree
           k == IndexInParent(h, op.item)
           t == Target(h, op, op.after)
           y == Attach(x, op.item, op.after, t)
<1>1. h \in Hierarchies /\ op.item \in Item /\ op.after \in Item \cup {None}
  BY OpParts DEF Machines
<1>2. k \in Nat /\ t \in Nat
  BY <1>1, IndexIsNat, TargetIsNat
<1>3. r.op = [op EXCEPT !.index = k] /\ r.op \in OpsWith(K, V)
  BY <1>2, WithIndex DEF ExecuteParentChange
<1>4. r.m = IF h.parent[op.item] # op.before THEN Stopped(x, "verify_failed") ELSE y
  BY DEF ExecuteParentChange
<1>5. /\ y \in Machines /\ y.selection = x.selection
      /\ CreatesCycle(h, op.item, op.after) => y.status = "no_return"
      /\ ~CreatesCycle(h, op.item, op.after) =>
           y.status = x.status /\ y.tree = SetParent(h, op.item, op.after, t)
  BY <1>1, <1>2, AttachIs
<1>6. /\ Stopped(x, "verify_failed") \in Machines
      /\ Stopped(x, "verify_failed").status = "verify_failed"
      /\ Stopped(x, "verify_failed").selection = x.selection
  BY StoppedIs DEF Statuses
<1> HIDE DEF y, k, t
<1>7. /\ r.m \in Machines /\ r.m.selection = x.selection
      /\ IsRunning(r.m) <=> MovesWell(op, h)
      /\ IsRunning(r.m) => r.m.tree = SetParent(h, op.item, op.after, t)
  BY <1>4, <1>5, <1>6 DEF IsRunning, MovesWell
<1> QED BY <1>2, <1>3, <1>7 DEF k, t, Remembering, Moved

\* Undoing a parent change where the item is below its new parent.
LEMMA ParentUnchangeIs ==
  ASSUME NEW K, NEW V, NEW op \in OpsWith(K, V), NEW x \in Machines, IsRunning(x),
         NEW r, r = UndoParentChange(op, x)
  PROVE  /\ r.op = op /\ r.m \in Machines /\ r.m.selection = x.selection
         /\ x.tree.parent[op.item] = op.after /\ ~CreatesCycle(x.tree, op.item, op.before)
            => IsRunning(r.m) /\ r.m.tree = SetParent(x.tree, op.item, op.before, op.index)
<1> DEFINE y == Attach(x, op.item, op.before, op.index)
<1>1. op.item \in Item /\ op.before \in Item \cup {None} /\ op.index \in Nat
  BY OpParts
<1>2. r.op = op /\ r.m = IF x.tree.parent[op.item] # op.after
                         THEN Stopped(x, "verify_failed") ELSE y
  BY DEF UndoParentChange
<1>3. /\ y \in Machines /\ y.selection = x.selection
      /\ ~CreatesCycle(x.tree, op.item, op.before) =>
           y.status = x.status /\ y.tree = SetParent(x.tree, op.item, op.before, op.index)
  BY <1>1, AttachIs
<1>4. /\ Stopped(x, "verify_failed") \in Machines
      /\ Stopped(x, "verify_failed").selection = x.selection
  BY StoppedIs DEF Statuses
<1> HIDE DEF y
<1>5. /\ r.op = op /\ r.m \in Machines /\ r.m.selection = x.selection
      /\ x.tree.parent[op.item] = op.after /\ ~CreatesCycle(x.tree, op.item, op.before)
         => IsRunning(r.m) /\ r.m.tree = SetParent(x.tree, op.item, op.before, op.index)
  BY <1>2, <1>3, <1>4 DEF IsRunning
<1> QED BY <1>5

(***************************************************************************)
(* In the tree h the operation leads to g and remembers what it needs to   *)
(* be undone, and having remembered it does the same when it is done again.*)
(***************************************************************************)
LEMMA ParentChangeUndone ==
  ASSUME NEW K, NEW V, NEW op \in OpsWith(K, V), NEW h, Tree(h), MovesWell(op, h),
         NEW q, q = Remembering(op, h), NEW g, g = Moved(op, h)
  PROVE  /\ Tree(g) /\ q \in OpsWith(K, V)
         /\ g.parent = [h.parent EXCEPT ![op.item] = op.after]
         /\ Remembering(q, h) = q /\ Moved(q, h) = g /\ MovesWell(q, h)
         /\ q.item = op.item /\ q.after = op.after /\ q.before = op.before
         /\ q.kind = op.kind /\ q.selBefore = op.selBefore /\ q.selAfter = op.selAfter
         /\ g.parent[q.item] = q.after /\ ~CreatesCycle(g, q.item, q.before)
         /\ SetParent(g, q.item, q.before, q.index) = h
<1> USE NoneAssumption
<1> DEFINE n == op.item
           p == op.after
           o == op.before
           t == Target(h, op, p)
           k == IndexInParent(h, n)
<1>0. q = [op EXCEPT !.index = k] /\ g = SetParent(h, n, p, t)
  BY DEF Remembering, Moved
<1>1. n \in Item /\ p \in Item \cup {None} /\ o \in Item \cup {None} /\ h \in Hierarchies
  BY OpParts DEF Tree
<1>2. k \in Nat /\ t \in Nat
  BY <1>1, IndexIsNat, TargetIsNat
<1>3. /\ q \in OpsWith(K, V) /\ q.index = k /\ q.item = n /\ q.before = o /\ q.after = p
      /\ q.place = op.place /\ q.anchor = op.anchor /\ [q EXCEPT !.index = k] = q
      /\ q.kind = op.kind
      /\ q.selBefore = op.selBefore /\ q.selAfter = op.selAfter
  <2> HIDE DEF k
  <2> QED BY <1>0, <1>2 DEF OpsWith
<1>4. Target(h, q, p) = t
  BY <1>3 DEF Target
<1>5. h.parent[n] = o /\ ~CreatesCycle(h, n, p)
  BY DEF MovesWell
<1>6. p \notin Subtree(h, n) /\ o \notin Subtree(h, n)
  BY <1>1, <1>5, SubtreeLeast, SubtreeInTree DEF CreatesCycle
<1>7. /\ Tree(g) /\ g.parent = [h.parent EXCEPT ![n] = p] /\ Subtree(g, n) = Subtree(h, n)
  BY <1>0, <1>1, <1>2, <1>6, SetParentTree
<1>8. g.parent[n] = p
  BY <1>1, <1>7 DEF Hierarchies
<1>9. ~CreatesCycle(g, n, o)
  BY <1>6, <1>7 DEF CreatesCycle
<1>10. SetParent(g, n, o, k) = h
  <2>1. CASE o = p
    <3>1. g = h
      BY <1>0, <1>5, <2>1 DEF SetParent
    <3> QED BY <1>5, <3>1 DEF SetParent
  <2>2. CASE o # p
    <3>1. h.parent[n] # p
      BY <1>5, <2>2
    <3> HIDE DEF n, p, t, k
    <3>2. SetParent(SetParent(h, n, p, t), n, h.parent[n], IndexInParent(h, n)) = h
      BY <1>1, <1>2, <1>5, <3>1, SetParentUndone
    <3> QED BY <1>0, <1>5, <3>2 DEF n, p, t, k
  <2> QED BY <2>1, <2>2
<1>11. MovesWell(q, h)
  BY <1>3 DEF MovesWell
<1>12. Remembering(q, h) = q /\ Moved(q, h) = g
  <2> HIDE DEF t, k, n, p
  <2> QED BY <1>0, <1>3, <1>4 DEF Remembering, Moved, n, p, k, t
<1> HIDE DEF t, k
<1> QED BY <1>3, <1>7, <1>8, <1>9, <1>10, <1>11, <1>12
-----------------------------------------------------------------------------
(***************************************************************************)
(* Operations one after another, again.  In the tree t1 an operation op    *)
(* leads to t2 and becomes q, whatever is selected.                        *)
(***************************************************************************)
Leads(does, op, q, t1, t2) ==
  \A y \in Machines : IsRunning(y) /\ y.tree = t1 =>
     /\ does[op][y].op = q
     /\ IsRunning(does[op][y].m) /\ does[op][y].m.tree = t2

\* Operations that lead along the trees of ts, and operations that lead back.
LeadsAlong(does, ops, qs, ts) ==
  \A k \in 1 .. Len(ops) : Leads(does, ops[k], qs[k], ts[k - 1], ts[k])

LeadsBack(does, qs, ts) ==
  \A k \in 1 .. Len(qs) : Leads(does, qs[k], qs[k], ts[k], ts[k - 1])

\* If nothing has stopped the program at the end, nothing has on the way.
LEMMA ChainRan ==
  ASSUME NEW O, NEW does, NEW ops \in Seq(O), NEW os, NEW ms, Chain(does, ops, os, ms),
         IsRunning(ms[Len(ops)])
  PROVE  \A k \in 0 .. Len(ops) : IsRunning(ms[k])
<1> DEFINE n == Len(ops)
           T == {k \in 0 .. n : IsRunning(ms[n - k])}
<1>0. n \in Nat
  OBVIOUS
<1>1. 0 \in T
  BY <1>0
<1>2. ASSUME NEW k \in 0 .. n - 1, k \in T PROVE k + 1 \in T
  <2>1. n - k \in 1 .. n /\ (n - k) - 1 = n - (k + 1) /\ k + 1 \in 0 .. n
    BY <1>0
  <2>2. IsRunning(ms[n - k])
    BY <1>2
  <2>3. IsRunning(ms[(n - k) - 1])
    BY <2>1, <2>2 DEF Chain, IsRunning
  <2> QED BY <2>1, <2>3
<1>3. 0 .. n \subseteq T
  <2> HIDE DEF T, n
  <2> QED BY <1>0, <1>1, <1>2, CountingUp
<1>4. ASSUME NEW k \in 0 .. n PROVE IsRunning(ms[k])
  <2>1. n - k \in 0 .. n /\ n - (n - k) = k
    BY <1>0
  <2>2. n - k \in T
    BY <1>3, <2>1
  <2> QED BY <2>1, <2>2
<1> QED BY <1>4

\* The steps of InOrder as functions.
Moving ==
  [op \in Moves |-> [x \in Machines |->
     IF IsRunning(x) THEN ExecuteParentChange(op, x) ELSE [op |-> op, m |-> x]]]

MovingBack ==
  [op \in Moves |-> [x \in Machines |->
     IF IsRunning(x) THEN UndoParentChange(op, x) ELSE [op |-> op, m |-> x]]]

\* Both are functions of an operation and a machine.
LEMMA MovingType ==
  /\ Moving \in [Moves -> [Machines -> Results(Moves, Machines)]]
  /\ MovingBack \in [Moves -> [Machines -> Results(Moves, Machines)]]
<1>1. ASSUME NEW op \in Moves, NEW x \in Machines, IsRunning(x)
      PROVE  /\ ExecuteParentChange(op, x) \in Results(Moves, Machines)
             /\ UndoParentChange(op, x) \in Results(Moves, Machines)
  <2> DEFINE e == ExecuteParentChange(op, x)
             u == UndoParentChange(op, x)
  <2>1. e.op \in Moves /\ e.m \in Machines /\ u.op = op /\ u.m \in Machines
    BY <1>1, ParentChangeIs, ParentUnchangeIs DEF Moves
  <2>2. e = [op |-> e.op, m |-> e.m]
    BY DEF ExecuteParentChange
  <2>3. u = [op |-> u.op, m |-> u.m]
    BY DEF UndoParentChange
  <2> HIDE DEF e, u
  <2>4. e \in Results(Moves, Machines) /\ u \in Results(Moves, Machines)
    BY <2>1, <2>2, <2>3 DEF Results
  <2> QED BY <2>4 DEF e, u
<1>2. \A op \in Moves, x \in Machines : [op |-> op, m |-> x] \in Results(Moves, Machines)
  BY DEF Results
<1> QED BY <1>1, <1>2 DEF Moving, MovingBack

\* Executing a list of parent changes runs along them one by one.
LEMMA MovingRuns ==
  ASSUME NEW ops \in Seq(Moves), NEW x \in Machines
  PROVE  Runs(Moves, Machines, Moving, ops, x, InOrder(ExecuteParentChange, ops, x))
<1> DEFINE n == Len(ops)
           B == [ops : Seq(Moves), m : Machines]
           base == [ops |-> <<>>, m |-> x]
           More(op, r) == IF r.m.status # "running"
                          THEN [ops |-> Append(r.ops, op), m |-> r.m]
                          ELSE [ops |-> Append(r.ops, ExecuteParentChange(op, r.m).op),
                                m |-> ExecuteParentChange(op, r.m).m]
           Iterates(f) ==
             f = [D \in SUBSET DOMAIN ops |->
                    IF D = {} THEN base ELSE More(ops[Max(D)], f[D \ {Max(D)}])]
           it == CHOOSE f : Iterates(f)
<1>1. n \in Nat /\ DOMAIN ops = 1 .. n /\ \A k \in 1 .. n : ops[k] \in Moves
  OBVIOUS
<1>2. InOrder(ExecuteParentChange, ops, x) = it[1 .. n]
  BY <1>1 DEF InOrder, FoldLeft, MapThenFoldSet
<1>3. ASSUME NEW op \in Moves, NEW r \in B PROVE OneMore(Moving, op, r) = More(op, r)
  <2>1. r.m \in Machines
    OBVIOUS
  <2>2. IsRunning(r.m) => Moving[op][r.m] = ExecuteParentChange(op, r.m)
    BY <2>1 DEF Moving
  <2> QED BY <2>2 DEF OneMore, IsRunning
<1>4. \A D \in SUBSET (1 .. n) : D # {} => Max(D) \in 1 .. n
  BY <1>1, MaxOfSome
<1>5. \A D \in SUBSET (1 .. n) : D # {} => ops[Max(D)] \in Moves
  BY <1>1, <1>4
<1> HIDE DEF More, base
<1>6. PICK f \in [SUBSET (1 .. n) -> B] : Folds(Moving, ops, x, f)
  BY MovingType, FoldExists
<1> HIDE DEF B, n
<1>7. \A D \in SUBSET (1 .. n) :
         f[D] = IF D = {} THEN base ELSE More(ops[Max(D)], f[D \ {Max(D)}])
  <2> SUFFICES ASSUME NEW D \in SUBSET (1 .. n)
               PROVE  f[D] = IF D = {} THEN base ELSE More(ops[Max(D)], f[D \ {Max(D)}])
    OBVIOUS
  <2>1. f[D \ {Max(D)}] \in B
    BY <1>6
  <2>2. f[D] = IF D = {} THEN base ELSE OneMore(Moving, ops[Max(D)], f[D \ {Max(D)}])
    BY <1>6 DEF Folds, n, base
  <2> QED BY <2>1, <2>2, <1>3, <1>5
<1>8. Iterates(f)
  <2>1. f = [D \in SUBSET (1 .. n) |-> f[D]]
    BY <1>6
  <2> QED BY <2>1, <1>1, <1>7
<1>9. Iterates(it)
  BY <1>8
<1> HIDE DEF it
<1>10. \A D \in SUBSET (1 .. n) :
         it[D] = IF D = {} THEN base ELSE More(ops[Max(D)], it[D \ {Max(D)}])
  BY <1>1, <1>9
<1>11. FoldsOn(Moves, Machines, Moving, ops, x, it)
  <2> SUFFICES ASSUME NEW D \in SUBSET (1 .. n)
               PROVE  /\ D = {} => it[D] = base
                      /\ D # {} /\ it[D \ {Max(D)}] \in B
                           => it[D] = OneMore(Moving, ops[Max(D)], it[D \ {Max(D)}])
    BY DEF FoldsOn, n, B, base
  <2> QED BY <1>3, <1>5, <1>10
<1>12. Runs(Moves, Machines, Moving, ops, x, it[1 .. Len(ops)])
  BY <1>11, MovingType, FoldRuns
<1> QED BY <1>2, <1>12 DEF n

\* So does undoing a list of parent changes.
LEMMA MovingBackRuns ==
  ASSUME NEW ops \in Seq(Moves), NEW x \in Machines
  PROVE  Runs(Moves, Machines, MovingBack, ops, x, InOrder(UndoParentChange, ops, x))
<1> DEFINE n == Len(ops)
           B == [ops : Seq(Moves), m : Machines]
           base == [ops |-> <<>>, m |-> x]
           More(op, r) == IF r.m.status # "running"
                          THEN [ops |-> Append(r.ops, op), m |-> r.m]
                          ELSE [ops |-> Append(r.ops, UndoParentChange(op, r.m).op),
                                m |-> UndoParentChange(op, r.m).m]
           Iterates(f) ==
             f = [D \in SUBSET DOMAIN ops |->
                    IF D = {} THEN base ELSE More(ops[Max(D)], f[D \ {Max(D)}])]
           it == CHOOSE f : Iterates(f)
<1>1. n \in Nat /\ DOMAIN ops = 1 .. n /\ \A k \in 1 .. n : ops[k] \in Moves
  OBVIOUS
<1>2. InOrder(UndoParentChange, ops, x) = it[1 .. n]
  BY <1>1 DEF InOrder, FoldLeft, MapThenFoldSet
<1>3. ASSUME NEW op \in Moves, NEW r \in B PROVE OneMore(MovingBack, op, r) = More(op, r)
  <2>1. r.m \in Machines
    OBVIOUS
  <2>2. IsRunning(r.m) => MovingBack[op][r.m] = UndoParentChange(op, r.m)
    BY <2>1 DEF MovingBack
  <2> QED BY <2>2 DEF OneMore, IsRunning
<1>4. \A D \in SUBSET (1 .. n) : D # {} => Max(D) \in 1 .. n
  BY <1>1, MaxOfSome
<1>5. \A D \in SUBSET (1 .. n) : D # {} => ops[Max(D)] \in Moves
  BY <1>1, <1>4
<1> HIDE DEF More, base
<1>6. PICK f \in [SUBSET (1 .. n) -> B] : Folds(MovingBack, ops, x, f)
  BY MovingType, FoldExists
<1> HIDE DEF B, n
<1>7. \A D \in SUBSET (1 .. n) :
         f[D] = IF D = {} THEN base ELSE More(ops[Max(D)], f[D \ {Max(D)}])
  <2> SUFFICES ASSUME NEW D \in SUBSET (1 .. n)
               PROVE  f[D] = IF D = {} THEN base ELSE More(ops[Max(D)], f[D \ {Max(D)}])
    OBVIOUS
  <2>1. f[D \ {Max(D)}] \in B
    BY <1>6
  <2>2. f[D] = IF D = {} THEN base ELSE OneMore(MovingBack, ops[Max(D)], f[D \ {Max(D)}])
    BY <1>6 DEF Folds, n, base
  <2> QED BY <2>1, <2>2, <1>3, <1>5
<1>8. Iterates(f)
  <2>1. f = [D \in SUBSET (1 .. n) |-> f[D]]
    BY <1>6
  <2> QED BY <2>1, <1>1, <1>7
<1>9. Iterates(it)
  BY <1>8
<1> HIDE DEF it
<1>10. \A D \in SUBSET (1 .. n) :
         it[D] = IF D = {} THEN base ELSE More(ops[Max(D)], it[D \ {Max(D)}])
  BY <1>1, <1>9
<1>11. FoldsOn(Moves, Machines, MovingBack, ops, x, it)
  <2> SUFFICES ASSUME NEW D \in SUBSET (1 .. n)
               PROVE  /\ D = {} => it[D] = base
                      /\ D # {} /\ it[D \ {Max(D)}] \in B
                           => it[D] = OneMore(MovingBack, ops[Max(D)], it[D \ {Max(D)}])
    BY DEF FoldsOn, n, B, base
  <2> QED BY <1>3, <1>5, <1>10
<1>12. Runs(Moves, Machines, MovingBack, ops, x, it[1 .. Len(ops)])
  BY <1>11, MovingType, FoldRuns
<1> QED BY <1>2, <1>12 DEF n

\* What undoing one of them makes of a tree it can be undone in.
LEMMA MovingBackIs ==
  ASSUME NEW q \in Moves, NEW y \in Machines, IsRunning(y), y.tree.parent[q.item] = q.after,
         ~CreatesCycle(y.tree, q.item, q.before)
  PROVE  /\ MovingBack[q][y].op = q /\ IsRunning(MovingBack[q][y].m)
         /\ MovingBack[q][y].m.tree = SetParent(y.tree, q.item, q.before, q.index)
<1>1. MovingBack[q][y] = UndoParentChange(q, y)
  BY DEF MovingBack
<1> QED BY <1>1, ParentUnchangeIs DEF Moves

\* What executing one of them makes of a tree.
LEMMA MovingIs ==
  ASSUME NEW op \in Moves, NEW y \in Machines, IsRunning(y)
  PROVE  /\ Moving[op][y].op = Remembering(op, y.tree)
         /\ IsRunning(Moving[op][y].m) <=> MovesWell(op, y.tree)
         /\ IsRunning(Moving[op][y].m) => Moving[op][y].m.tree = Moved(op, y.tree)
<1>1. Moving[op][y] = ExecuteParentChange(op, y)
  BY DEF Moving
<1> QED BY <1>1, ParentChangeIs DEF Moves

(***************************************************************************)
(* A part of a removal that is executed in h leads to another tree, and    *)
(* what the part became leads back.                                        *)
(***************************************************************************)
LEMMA MovesLead ==
  ASSUME NEW op \in Moves, NEW h, Tree(h), MovesWell(op, h),
         NEW q, q = Remembering(op, h), NEW g, g = Moved(op, h)
  PROVE  /\ q \in Moves /\ Tree(g) /\ g.parent = [h.parent EXCEPT ![op.item] = op.after]
         /\ Leads(Moving, op, q, h, g) /\ Leads(MovingBack, q, q, g, h)
<1>1. /\ Tree(g) /\ q \in Moves /\ g.parent = [h.parent EXCEPT ![op.item] = op.after]
      /\ g.parent[q.item] = q.after /\ ~CreatesCycle(g, q.item, q.before)
      /\ SetParent(g, q.item, q.before, q.index) = h
  BY ParentChangeUndone DEF Moves
<1>2. ASSUME NEW y \in Machines, IsRunning(y), y.tree = h
      PROVE  /\ Moving[op][y].op = q
             /\ IsRunning(Moving[op][y].m) /\ Moving[op][y].m.tree = g
  BY <1>2, MovingIs
<1>3. ASSUME NEW y \in Machines, IsRunning(y), y.tree = g
      PROVE  /\ MovingBack[q][y].op = q
             /\ IsRunning(MovingBack[q][y].m) /\ MovingBack[q][y].m.tree = h
  <2>1. y.tree.parent[q.item] = q.after /\ ~CreatesCycle(y.tree, q.item, q.before)
    BY <1>1, <1>3
  <2>2. SetParent(y.tree, q.item, q.before, q.index) = h
    BY <1>1, <1>3
  <2>3. MovingBack[q][y].op = q /\ IsRunning(MovingBack[q][y].m)
        /\ MovingBack[q][y].m.tree = SetParent(y.tree, q.item, q.before, q.index)
    BY <1>1, <1>3, <2>1, MovingBackIs
  <2> QED BY <2>2, <2>3
<1>4. Leads(Moving, op, q, h, g) /\ Leads(MovingBack, q, q, g, h)
  BY <1>2, <1>3 DEF Leads
<1> QED BY <1>1, <1>4

\* Where an item is in a list.
LEMMA PositionIs ==
  ASSUME NEW S, NEW s \in Seq(S), NEW n \in S, OneToOne(s), NEW k \in 1 .. Len(s), s[k] = n
  PROVE  IndexOf(s, n) = k - 1
BY WithoutIs

\* An item that is added behind another one leaves that one's position.
LEMMA AppendKeepsIndex ==
  ASSUME NEW h, Tree(h), NEW c \in Item, NEW n \in Item, h.parent[c] = n,
         h.parent[n] # None, ~CreatesCycle(h, c, h.parent[n])
  PROVE  LET p == h.parent[n]
             g == SetParent(h, c, p, ChildCount(h, p))
         IN  g.parent[n] = p /\ IndexInParent(g, n) = IndexInParent(h, n)
<1> USE NoneAssumption
<1> DEFINE p == h.parent[n]
           s == h.children[p]
           t == With(s, Len(s), c)
           g == SetParent(h, c, p, Len(s))
<1>1. /\ h \in Hierarchies /\ h.parent \in [Item -> Item \cup {None}]
      /\ h.children \in [Item -> Seq(Item)] /\ p \in Item /\ s \in Seq(Item) /\ Len(s) \in Nat
  BY DEF Tree, Hierarchies
<1>2. p # n /\ c # n
  <2>1. n \in Subtree(h, n) /\ p \notin Subtree(h, n) /\ n \notin Subtree(h, c)
    BY SubtreeLeast, SubtreeInTree, <1>1
  <2>2. c \in Subtree(h, c)
    BY SubtreeLeast, <1>1
  <2> QED BY <2>1, <2>2
<1>3. OneToOne(s) /\ n \in Elements(s) /\ n \in Children(h, p) /\ c \notin Elements(s)
  BY <1>1, <1>2 DEF Tree, WellFormed, ChildOnce, OneToOne, ParentHasChild, Children, Elements
<1>7. g.parent[n] = p /\ g.children[p] = t
  <2>1. p \notin Subtree(h, c) /\ h.parent[c] # p
    BY <1>1, <1>2 DEF CreatesCycle
  <2> HIDE DEF p
  <2>2. g.parent = [h.parent EXCEPT ![c] = p]
    BY <1>1, <2>1, SetParentTree
  <2>3. g.children[p] = t
    BY <1>1, <2>1, NewParentLists
  <2> QED BY <1>1, <1>2, <2>2, <2>3 DEF p
<1>8. /\ t \in Seq(Item) /\ Len(t) = Len(s) + 1 /\ OneToOne(t)
      /\ \A i \in 1 .. Len(s) : t[i] = s[i]
  <2> HIDE DEF s, t
  <2>1. /\ t \in Seq(Item) /\ OneToOne(t)
    BY <1>1, <1>3, WithFacts DEF t
  <2>2. /\ Len(t) = Len(s) + 1
        /\ \A i \in 1 .. Len(t) :
             t[i] = IF i <= Len(s) THEN s[i] ELSE IF i = Len(s) + 1 THEN c ELSE s[i - 1]
    BY <1>1, WithIs DEF t
  <2>3. \A i \in 1 .. Len(s) : i \in 1 .. Len(t) /\ i <= Len(s)
    BY <1>1, <2>2
  <2> QED BY <2>1, <2>2, <2>3
<1> HIDE DEF g, t, s
<1>9. PICK k \in 1 .. Len(s) : s[k] = n
  BY <1>1, <1>3 DEF Elements
<1>10. IndexOf(s, n) = k - 1
  BY <1>1, <1>3, <1>9, WithoutIs
<1>11. k \in 1 .. Len(t) /\ t[k] = n
  BY <1>1, <1>8, <1>9
<1>12. IndexOf(t, n) = k - 1
  BY <1>8, <1>11, PositionIs
<1>13. n \in Children(g, p)
  BY <1>7, <1>8, <1>11 DEF Children
<1>14. IndexInParent(g, n) = IndexOf(t, n) /\ IndexInParent(h, n) = IndexOf(s, n)
  BY <1>1, <1>3, <1>7, <1>13 DEF IndexInParent, s
<1> QED BY <1>7, <1>10, <1>12, <1>14 DEF g, s, ChildCount
-----------------------------------------------------------------------------
(***************************************************************************)
(* A removal: the children go to the parent, one after another.            *)
(***************************************************************************)
Trees == {h \in Hierarchies : Tree(h)}

\* The parts that a removal makes for the children.
Handing(h, n) ==
  [i \in DOMAIN h.children[n] |->
     ParentChange(h, h.parent[n], h.children[n][i], "end", None)]

\* The parent changes by which remove hands the children on.
LEMMA HandingIs ==
  ASSUME NEW h, Tree(h), NEW n \in Item
  PROVE  /\ Handing(h, n) \in Seq(Moves)
         /\ Len(Handing(h, n)) = Len(h.children[n]) /\ h.children[n] \in Seq(Item)
         /\ \A k \in 1 .. Len(h.children[n]) :
              LET op == Handing(h, n)[k]
              IN  /\ op.item = h.children[n][k] /\ op.item \in Item /\ op.before = n
                  /\ op.after = h.parent[n] /\ op.place = "end"
                  /\ h.parent[op.item] = n
<1> USE NoneAssumption
<1> DEFINE s == h.children[n]
           p == h.parent[n]
           part(i) == ParentChange(h, p, s[i], "end", None)
<1>1. /\ h \in Hierarchies /\ s \in Seq(Item) /\ p \in Item \cup {None}
      /\ h.parent \in [Item -> Item \cup {None}]
  BY DEF Tree, Hierarchies
<1>2. DOMAIN s = 1 .. Len(s) /\ Len(s) \in Nat /\ \A i \in 1 .. Len(s) : s[i] \in Item
  BY <1>1
<1>3. \A i \in 1 .. Len(s) : h.parent[s[i]] = n
  BY <1>1, <1>2 DEF Tree, WellFormed, ParentHasChild, Children
<1> HIDE DEF s, p
<1>4. ASSUME NEW i \in 1 .. Len(s)
      PROVE  /\ part(i) \in Moves /\ part(i).item = s[i] /\ part(i).before = n
             /\ part(i).after = p /\ part(i).place = "end"
  <2>1. part(i) = [kind |-> "parent_change", item |-> s[i], before |-> n, after |-> p,
                   place |-> "end", anchor |-> None, index |-> 0, moved |-> <<>>,
                   selBefore |-> <<>>, selAfter |-> <<>>]
    <3> DEFINE o == Operation("parent_change", s[i], h.parent[s[i]], p)
    <3>1. o = [kind |-> "parent_change", item |-> s[i], before |-> n, after |-> p,
               place |-> "end", anchor |-> None, index |-> 0, moved |-> <<>>,
               selBefore |-> <<>>, selAfter |-> <<>>]
      BY <1>3 DEF Operation
    <3>2. part(i) = [o EXCEPT !.place = "end", !.anchor = None]
      BY DEF ParentChange
    <3> HIDE DEF o
    <3> QED BY <3>1, <3>2
  <2>2. <<>> \in Seq({}) /\ <<>> \in Seq(Item)
    OBVIOUS
  <2> HIDE DEF part
  <2> QED BY <1>1, <1>2, <2>1, <2>2 DEF Moves, OpsWith, Placements
<1> HIDE DEF part
<1>5. Handing(h, n) = [i \in 1 .. Len(s) |-> part(i)]
  BY <1>2 DEF Handing, part, s, p
<1>6. Handing(h, n) \in Seq(Moves) /\ Len(Handing(h, n)) = Len(s)
  BY <1>2, <1>4, <1>5
<1>7. \A k \in 1 .. Len(s) : Handing(h, n)[k] = part(k)
  BY <1>5
<1> QED BY <1>1, <1>2, <1>3, <1>4, <1>6, <1>7 DEF s, p

\* What the tree is after each of them.
LEMMA HandingTrees ==
  ASSUME NEW h, Tree(h), NEW n \in Item, h.parent[n] # None,
         NEW moves, moves = Handing(h, n)
  PROVE  \E ts \in [0 .. Len(moves) -> Trees] :
           /\ ts[0] = h
           /\ \A k \in 1 .. Len(moves) :
                MovesWell(moves[k], ts[k - 1]) /\ ts[k] = Moved(moves[k], ts[k - 1])
           /\ ts[Len(moves)].parent[n] = h.parent[n]
           /\ IndexInParent(ts[Len(moves)], n) = IndexInParent(h, n)
           /\ \A c \in Item : h.parent[c] = None => ts[Len(moves)].parent[c] = None
<1> USE NoneAssumption
<1> DEFINE N == Len(moves)
           p == h.parent[n]
           s == h.children[n]
           step == [k \in 1 .. N |-> [t \in Trees |->
                      IF MovesWell(moves[k], t) THEN Moved(moves[k], t) ELSE t]]
<1>1. /\ moves \in Seq(Moves) /\ N = Len(s) /\ s \in Seq(Item) /\ N \in Nat
      /\ \A k \in 1 .. N : /\ moves[k].item = s[k] /\ s[k] \in Item /\ moves[k].before = n
                           /\ moves[k].after = p /\ moves[k].place = "end"
                           /\ h.parent[s[k]] = n /\ moves[k] \in Moves
  BY HandingIs
<1>2. /\ h \in Trees /\ p \in Item /\ \A i, j \in 1 .. N : s[i] = s[j] => i = j
  BY <1>1 DEF Tree, Trees, WellFormed, ChildOnce, Hierarchies
<1>3. ASSUME NEW k \in 1 .. N, NEW t \in Trees, MovesWell(moves[k], t)
      PROVE  /\ Moved(moves[k], t) \in Trees
             /\ Moved(moves[k], t).parent = [t.parent EXCEPT ![s[k]] = p]
             /\ Moved(moves[k], t) = SetParent(t, s[k], p, ChildCount(t, p))
  <2>1. moves[k] \in Moves /\ moves[k].item = s[k] /\ moves[k].after = p /\ Tree(t)
    BY <1>1 DEF Trees
  <2>2. /\ Tree(Moved(moves[k], t))
        /\ Moved(moves[k], t).parent = [t.parent EXCEPT ![s[k]] = p]
    BY <1>3, <2>1, MovesLead
  <2>3. Moved(moves[k], t) = SetParent(t, s[k], p, ChildCount(t, p))
    BY <1>1, <1>2, <2>1 DEF Moved, Target
  <2> QED BY <2>2, <2>3 DEF Trees, Tree
<1>4. step \in [1 .. N -> [Trees -> Trees]]
  BY <1>3
<1>13. \A k \in 1 .. N : \A t \in Trees :
          step[k][t] = IF MovesWell(moves[k], t) THEN Moved(moves[k], t) ELSE t
  OBVIOUS
<1> HIDE DEF step
<1>5. PICK ts \in [0 .. N -> Trees] : Steps(N, h, step, ts)
  <2> HIDE DEF N
  <2> QED BY <1>1, <1>2, <1>4, StepsExist
<1>6. /\ ts[0] = h
      /\ \A k \in 1 .. N : ts[k] = IF MovesWell(moves[k], ts[k - 1])
                                   THEN Moved(moves[k], ts[k - 1]) ELSE ts[k - 1]
  <2>1. \A i \in 0 .. N : ts[i] = IF i = 0 THEN h ELSE step[i][ts[i - 1]]
    <3> HIDE DEF N
    <3>1. ts = [i \in 0 .. N |-> IF i = 0 THEN h ELSE step[i][ts[i - 1]]]
      BY <1>5 DEF Steps
    <3> QED BY <3>1
  <2>2. ts[0] = h
    <3>1. 0 \in 0 .. N
      BY <1>1
    <3> QED BY <2>1, <3>1
  <2>3. ASSUME NEW k \in 1 .. N
        PROVE  ts[k] = IF MovesWell(moves[k], ts[k - 1])
                       THEN Moved(moves[k], ts[k - 1]) ELSE ts[k - 1]
    <3>1. k \in 0 .. N /\ k # 0 /\ k - 1 \in 0 .. N
      BY <1>1
    <3>2. ts[k - 1] \in Trees
      BY <3>1, <1>5
    <3>3. ts[k] = step[k][ts[k - 1]]
      BY <2>1, <3>1
    <3> HIDE DEF N
    <3> QED BY <3>2, <3>3, <1>13
  <2> QED BY <2>2, <2>3
<1> DEFINE Good(k) == /\ ts[k].parent[n] = p
                      /\ IndexInParent(ts[k], n) = IndexInParent(h, n)
                      /\ \A c \in Item : h.parent[c] = None => ts[k].parent[c] = None
                      /\ \A j \in 1 .. N : j > k => ts[k].parent[s[j]] = n
           T == {k \in 0 .. N : Good(k)}
<1>7. 0 \in T
  BY <1>1, <1>6
<1>8. ASSUME NEW k \in 0 .. N - 1, k \in T
      PROVE  /\ k + 1 \in T /\ MovesWell(moves[k + 1], ts[k])
             /\ ts[k + 1] = Moved(moves[k + 1], ts[k])
  <2> DEFINE j == k + 1
             t == ts[k]
             c == s[j]
             g == Moved(moves[j], t)
  <2>1. j \in 1 .. N /\ j - 1 = k /\ j > k /\ j \in 0 .. N /\ k \in 0 .. N
    BY <1>1
  <2>2. /\ t \in Trees /\ c \in Item /\ t.parent[c] = n /\ t.parent[n] = p
        /\ moves[j].item = c /\ moves[j].before = n /\ moves[j].after = p
        /\ moves[j] \in Moves /\ t \in Hierarchies /\ Tree(t)
    BY <1>1, <1>5, <1>8, <2>1 DEF Trees
  <2>3. ~CreatesCycle(t, c, p)
    <3> SUFFICES ASSUME p \in Subtree(t, c) PROVE FALSE
      BY DEF CreatesCycle
    <3>1. n \in Children(t, p)
      BY <1>2, <2>2 DEF Tree, WellFormed, ParentHasChild
    <3>2. n \in Subtree(t, c)
      BY <2>2, <3>1, SubtreeLeast DEF ClosedIn
    <3>3. t.parent[c] \notin Subtree(t, c)
      BY <2>2, SubtreeInTree
    <3> QED BY <2>2, <3>2, <3>3
  <2>4. MovesWell(moves[j], t)
    BY <2>2, <2>3 DEF MovesWell
  <2> HIDE DEF j, t, c
  <2>5. ts[j] = g
    BY <1>6, <2>1, <2>4 DEF t
  <2>6. /\ g \in Trees /\ g.parent = [t.parent EXCEPT ![c] = p]
        /\ g = SetParent(t, c, p, ChildCount(t, p))
    BY <1>3, <2>1, <2>2, <2>4 DEF c
  <2>7. g.parent[n] = p /\ IndexInParent(g, n) = IndexInParent(t, n)
    BY <1>2, <2>2, <2>3, <2>6, AppendKeepsIndex
  <2> HIDE DEF g
  <2>8. t.parent \in [Item -> Item \cup {None}]
    BY <2>2 DEF Hierarchies
  <2>9. IndexInParent(t, n) = IndexInParent(h, n)
    BY <1>8 DEF t
  <2>10. ASSUME NEW d \in Item, h.parent[d] = None PROVE g.parent[d] = None
    <3>1. t.parent[d] = None
      BY <1>8, <2>10 DEF t
    <3>2. d # c
      BY <2>2, <3>1
    <3> QED BY <2>6, <2>8, <3>1, <3>2
  <2>11. ASSUME NEW i \in 1 .. N, i > j PROVE g.parent[s[i]] = n
    <3>1. i > k /\ i # j
      BY <2>1, <2>11 DEF j
    <3>2. t.parent[s[i]] = n /\ s[i] \in Item
      BY <1>1, <1>8, <3>1 DEF t
    <3>3. s[i] # c
      BY <1>2, <2>1, <3>1 DEF c
    <3> QED BY <2>6, <2>8, <3>2, <3>3
  <2>12. Good(j)
    BY <2>5, <2>7, <2>9, <2>10, <2>11
  <2>13. j \in T
    BY <2>1, <2>12
  <2> HIDE DEF T
  <2> QED BY <2>4, <2>5, <2>13 DEF j, t, g
<1>9. 0 .. N \subseteq T
  <2> HIDE DEF T, N
  <2> QED BY <1>1, <1>7, <1>8, CountingUp
<1>10. N \in T
  BY <1>1, <1>9
<1>11. ASSUME NEW k \in 1 .. N
       PROVE  MovesWell(moves[k], ts[k - 1]) /\ ts[k] = Moved(moves[k], ts[k - 1])
  <2>1. k - 1 \in 0 .. N - 1 /\ k - 1 \in 0 .. N /\ (k - 1) + 1 = k
    BY <1>1
  <2>2. k - 1 \in T
    BY <1>9, <2>1
  <2> HIDE DEF T, N
  <2> QED BY <1>8, <2>1, <2>2
<1>12. Good(N)
  BY <1>10
<1> QED BY <1>5, <1>6, <1>11, <1>12
\* A list of operations that lead from tree to tree, whatever runs them ...
LEMMA RunsLead ==
  ASSUME NEW O, NEW does \in [O -> [Machines -> Results(O, Machines)]],
         NEW ops \in Seq(O), NEW x \in Machines, NEW result,
         Runs(O, Machines, does, ops, x, result),
         NEW qs \in Seq(O), Len(qs) = Len(ops), NEW ts, IsRunning(x), x.tree = ts[0],
         LeadsAlong(does, ops, qs, ts)
  PROVE  /\ result = [ops |-> qs, m |-> result.m]
         /\ result.m \in Machines /\ IsRunning(result.m) /\ result.m.tree = ts[Len(ops)]
<1>1. PICK os \in Seq(O), ms \in [0 .. Len(ops) -> Machines] :
        /\ Len(os) = Len(ops) /\ ms[0] = x /\ Chain(does, ops, os, ms)
        /\ result = [ops |-> os, m |-> ms[Len(ops)]]
  BY DEF Runs
<1> DEFINE n == Len(ops)
           T == {k \in 0 .. n : IsRunning(ms[k]) /\ ms[k].tree = ts[k]}
<1>2. n \in Nat
  OBVIOUS
<1>3. ASSUME NEW k \in 1 .. n, k - 1 \in T
      PROVE  IsRunning(ms[k]) /\ ms[k].tree = ts[k] /\ os[k] = qs[k]
  <2>1. ms[k - 1] \in Machines /\ IsRunning(ms[k - 1]) /\ ms[k - 1].tree = ts[k - 1]
    BY <1>2, <1>3
  <2>2. os[k] = does[ops[k]][ms[k - 1]].op /\ ms[k] = does[ops[k]][ms[k - 1]].m
    BY <1>1, <2>1 DEF Chain, IsRunning
  <2>3. Leads(does, ops[k], qs[k], ts[k - 1], ts[k])
    BY DEF LeadsAlong
  <2> QED BY <2>1, <2>2, <2>3 DEF Leads
<1>4. 0 .. n \subseteq T
  <2>1. 0 \in T
    BY <1>1, <1>2
  <2>2. ASSUME NEW k \in 0 .. n - 1, k \in T PROVE k + 1 \in T
    <3>1. k + 1 \in 1 .. n /\ k + 1 \in 0 .. n /\ (k + 1) - 1 = k
      BY <1>2
    <3> HIDE DEF n
    <3> QED BY <1>3, <2>2, <3>1
  <2> HIDE DEF T, n
  <2> QED BY <1>2, <2>1, <2>2, CountingUp
<1>5. n \in T
  BY <1>2, <1>4
<1>6. ASSUME NEW k \in 1 .. n PROVE os[k] = qs[k]
  <2>1. k - 1 \in 0 .. n
    BY <1>2
  <2> HIDE DEF T
  <2>2. k - 1 \in T
    BY <1>4, <2>1
  <2> QED BY <1>3, <2>2
<1>7. os = qs
  BY <1>1, <1>6
<1>8. ms[n] \in Machines /\ IsRunning(ms[n]) /\ ms[n].tree = ts[n]
  BY <1>2, <1>5
<1> QED BY <1>1, <1>7, <1>8

\* ... lead back when they are undone last one first.
LEMMA RunsBack ==
  ASSUME NEW O, NEW does \in [O -> [Machines -> Results(O, Machines)]],
         NEW qs \in Seq(O), NEW x \in Machines, NEW result,
         Runs(O, Machines, does, Reverse(qs), x, result),
         NEW ts, IsRunning(x), x.tree = ts[Len(qs)],
         LeadsBack(does, qs, ts)
  PROVE  /\ Reverse(result.ops) = qs
         /\ result.m \in Machines /\ IsRunning(result.m) /\ result.m.tree = ts[0]
<1> DEFINE n == Len(qs)
           rs == Reverse(qs)
           us == [k \in 0 .. n |-> ts[n - k]]
<1>1. /\ rs \in Seq(O) /\ Len(rs) = n /\ n \in Nat /\ Reverse(rs) = qs
      /\ \A k \in 1 .. n : rs[k] = qs[n - k + 1]
  BY ReverseIs
<1>2. us[0] = ts[n] /\ us[n] = ts[0]
  BY <1>1
<1>3. ASSUME NEW k \in 1 .. n PROVE Leads(does, rs[k], rs[k], us[k - 1], us[k])
  <2> DEFINE j == n - k + 1
  <2>1. j \in 1 .. n /\ k - 1 \in 0 .. n /\ k \in 0 .. n /\ n - (k - 1) = j /\ n - k = j - 1
    BY <1>1
  <2>2. us[k - 1] = ts[j] /\ us[k] = ts[j - 1]
    BY <2>1
  <2>3. rs[k] = qs[j]
    BY <1>1
  <2>4. Leads(does, qs[j], qs[j], ts[j], ts[j - 1])
    BY <2>1 DEF LeadsBack
  <2> HIDE DEF us, rs, n, j
  <2> QED BY <2>2, <2>3, <2>4
<1> HIDE DEF us
<1>4. result = [ops |-> rs, m |-> result.m] /\ result.m \in Machines
      /\ IsRunning(result.m) /\ result.m.tree = us[n]
  <2> HIDE DEF rs, n
  <2>1. LeadsAlong(does, rs, rs, us)
    BY <1>1, <1>3 DEF LeadsAlong
  <2>2. x.tree = us[0] /\ Runs(O, Machines, does, rs, x, result)
    BY <1>2 DEF rs, n
  <2>3. result = [ops |-> rs, m |-> result.m] /\ result.m \in Machines
        /\ IsRunning(result.m) /\ result.m.tree = us[Len(rs)]
    BY <1>1, <2>1, <2>2, RunsLead
  <2> QED BY <1>1, <2>3
<1> QED BY <1>1, <1>2, <1>4

(***************************************************************************)
(* All the parts of a removal: they become the same parts and lead to the  *)
(* same tree whatever is selected, the item has kept its position, and     *)
(* undone they lead back.                                                  *)
(***************************************************************************)
LEMMA HandingLeads ==
  ASSUME NEW h, Tree(h), NEW n \in Item, h.parent[n] # None \/ h.children[n] = <<>>
  PROVE  \E qs \in Seq(Moves), t \in Trees :
           /\ t.parent[n] = h.parent[n] /\ IndexInParent(t, n) = IndexInParent(h, n)
           /\ \A c \in Item : h.parent[c] = None => t.parent[c] = None
           /\ \A y \in Machines : IsRunning(y) /\ y.tree = h =>
                LET r == InOrder(ExecuteParentChange, Handing(h, n), y)
                IN  r.ops = qs /\ r.m \in Machines /\ IsRunning(r.m) /\ r.m.tree = t
           /\ \A y \in Machines : IsRunning(y) /\ y.tree = t =>
                LET r == InReverse(UndoParentChange, qs, y)
                IN  r.m \in Machines /\ IsRunning(r.m) /\ r.m.tree = h
<1> DEFINE moves == Handing(h, n)
           N == Len(moves)
<1>1. /\ moves \in Seq(Moves) /\ N \in Nat /\ N = Len(h.children[n])
      /\ \A k \in 1 .. N : moves[k] \in Moves
  BY HandingIs
<1> HIDE DEF moves
<1>2. PICK ts \in [0 .. N -> Trees] :
        /\ ts[0] = h
        /\ \A k \in 1 .. N :
             MovesWell(moves[k], ts[k - 1]) /\ ts[k] = Moved(moves[k], ts[k - 1])
        /\ ts[N].parent[n] = h.parent[n] /\ IndexInParent(ts[N], n) = IndexInParent(h, n)
        /\ \A c \in Item : h.parent[c] = None => ts[N].parent[c] = None
  <2>1. CASE h.parent[n] # None
    BY <2>1, HandingTrees DEF moves
  <2>2. CASE h.children[n] = <<>>
    <3> DEFINE ts == [k \in 0 .. N |-> h]
    <3>1. N = 0 /\ h \in Trees
      BY <1>1, <2>2 DEF Trees, Tree
    <3>2. ts \in [0 .. N -> Trees] /\ ts[0] = h /\ ts[N] = h /\ \A k \in 1 .. N : FALSE
      BY <3>1
    <3> HIDE DEF ts, N
    <3> QED BY <3>2
  <2> QED BY <2>1, <2>2
<1> DEFINE qs == [k \in 1 .. N |-> Remembering(moves[k], ts[k - 1])]
<1>3. ASSUME NEW k \in 1 .. N
      PROVE  /\ qs[k] \in Moves /\ Leads(Moving, moves[k], qs[k], ts[k - 1], ts[k])
             /\ Leads(MovingBack, qs[k], qs[k], ts[k], ts[k - 1])
  <2>1. k - 1 \in 0 .. N
    BY <1>1
  <2>2. Tree(ts[k - 1]) /\ moves[k] \in Moves /\ MovesWell(moves[k], ts[k - 1])
        /\ ts[k] = Moved(moves[k], ts[k - 1]) /\ qs[k] = Remembering(moves[k], ts[k - 1])
    BY <1>1, <1>2, <2>1 DEF Trees
  <2> HIDE DEF qs, N
  <2> QED BY <2>2, MovesLead
<1>4. qs \in Seq(Moves) /\ Len(qs) = N
  <2>1. qs \in [1 .. N -> Moves]
    BY <1>3
  <2> HIDE DEF qs, N
  <2> QED BY <1>1, <2>1, FunctionIsList
<1> HIDE DEF qs
<1>5. ASSUME NEW y \in Machines, IsRunning(y), y.tree = h,
             NEW r, r = InOrder(ExecuteParentChange, moves, y)
      PROVE  r.ops = qs /\ r.m \in Machines /\ IsRunning(r.m) /\ r.m.tree = ts[N]
  <2>1. Runs(Moves, Machines, Moving, moves, y, r)
    BY <1>1, <1>5, MovingRuns
  <2>2. y.tree = ts[0]
    BY <1>2, <1>5
  <2>3. LeadsAlong(Moving, moves, qs, ts)
    BY <1>3 DEF LeadsAlong
  <2>4. Moving \in [Moves -> [Machines -> Results(Moves, Machines)]]
    BY MovingType
  <2>5. r = [ops |-> qs, m |-> r.m] /\ r.m \in Machines /\ IsRunning(r.m)
        /\ r.m.tree = ts[Len(moves)]
    BY <1>1, <1>4, <1>5, <2>1, <2>2, <2>3, <2>4, RunsLead
  <2> QED BY <2>5
<1>6. ASSUME NEW y \in Machines, IsRunning(y), y.tree = ts[N],
             NEW r, r = InReverse(UndoParentChange, qs, y)
      PROVE  r.m \in Machines /\ IsRunning(r.m) /\ r.m.tree = h
  <2> DEFINE e == InOrder(UndoParentChange, Reverse(qs), y)
  <2>1. Runs(Moves, Machines, MovingBack, Reverse(qs), y, e)
    <3>1. Reverse(qs) \in Seq(Moves)
      BY <1>4, ReverseIs
    <3> QED BY <3>1, MovingBackRuns
  <2>2. r.m = e.m
    BY <1>6 DEF InReverse
  <2>3. y.tree = ts[Len(qs)]
    BY <1>4, <1>6
  <2>4. LeadsBack(MovingBack, qs, ts)
    BY <1>3, <1>4 DEF LeadsBack
  <2>5. MovingBack \in [Moves -> [Machines -> Results(Moves, Machines)]]
    BY MovingType
  <2> HIDE DEF e
  <2>6. e.m \in Machines /\ IsRunning(e.m) /\ e.m.tree = ts[0]
    BY <1>4, <1>6, <2>1, <2>3, <2>4, <2>5, RunsBack
  <2> QED BY <1>2, <2>2, <2>6
<1>7. ts[N] \in Trees
  BY <1>1, <1>2
<1> HIDE DEF N
<1> QED BY <1>2, <1>4, <1>5, <1>6, <1>7 DEF moves
-----------------------------------------------------------------------------
(***************************************************************************)
(* The operations, each by itself.                                         *)
(***************************************************************************)

\* No operation of the list leaves G, and each becomes one that it is related to.
StaysIn(does, ops, G) ==
  \A k \in 1 .. Len(ops) : \A y \in Machines \cap G : does[ops[k]][y].m \in G

\* Each operation of the list becomes one that it is related to by R.
KeepsTo(does, ops, R) ==
  \A k \in 1 .. Len(ops) : \A y \in Machines :
     <<ops[k], ops[k]>> \in R /\ <<ops[k], does[ops[k]][y].op>> \in R

\* The type of what comes of a list, and what no step can leave.
LEMMA RunsStay ==
  ASSUME NEW O, NEW does \in [O -> [Machines -> Results(O, Machines)]],
         NEW ops \in Seq(O), NEW x \in Machines, NEW result,
         Runs(O, Machines, does, ops, x, result), NEW G, x \in G,
         StaysIn(does, ops, G)
  PROVE  /\ result \in [ops : Seq(O), m : Machines]
         /\ Len(result.ops) = Len(ops) /\ result.m \in G
<1>1. PICK os \in Seq(O), ms \in [0 .. Len(ops) -> Machines] :
        /\ Len(os) = Len(ops) /\ ms[0] = x /\ Chain(does, ops, os, ms)
        /\ result = [ops |-> os, m |-> ms[Len(ops)]]
  BY DEF Runs
<1> DEFINE n == Len(ops)
           T == {k \in 0 .. n : ms[k] \in G}
<1>2. n \in Nat
  OBVIOUS
<1>3. 0 .. n \subseteq T
  <2>1. 0 \in T
    BY <1>1, <1>2
  <2>2. ASSUME NEW k \in 0 .. n - 1, k \in T PROVE k + 1 \in T
    <3>1. k + 1 \in 1 .. n /\ k + 1 \in 0 .. n /\ (k + 1) - 1 = k /\ k \in 0 .. n
      BY <1>2
    <3>2. ms[k] \in Machines \cap G
      BY <2>2, <3>1
    <3>3. ms[k + 1] = ms[k] \/ ms[k + 1] = does[ops[k + 1]][ms[k]].m
      BY <1>1, <3>1 DEF Chain
    <3>4. does[ops[k + 1]][ms[k]].m \in G
      BY <3>1, <3>2 DEF StaysIn
    <3> HIDE DEF n
    <3> QED BY <3>1, <3>2, <3>3, <3>4
  <2> HIDE DEF T, n
  <2> QED BY <1>2, <2>1, <2>2, CountingUp
<1>4. n \in T /\ ms[n] \in Machines
  BY <1>2, <1>3
<1> QED BY <1>1, <1>4

\* What comes of each operation.
LEMMA RunsKeep ==
  ASSUME NEW O, NEW does \in [O -> [Machines -> Results(O, Machines)]],
         NEW ops \in Seq(O), NEW x \in Machines, NEW result,
         Runs(O, Machines, does, ops, x, result), NEW R,
         KeepsTo(does, ops, R)
  PROVE  \A k \in 1 .. Len(ops) : <<ops[k], result.ops[k]>> \in R
<1>1. PICK os \in Seq(O), ms \in [0 .. Len(ops) -> Machines] :
        /\ Len(os) = Len(ops) /\ ms[0] = x /\ Chain(does, ops, os, ms)
        /\ result = [ops |-> os, m |-> ms[Len(ops)]]
  BY DEF Runs
<1>2. ASSUME NEW k \in 1 .. Len(ops) PROVE <<ops[k], os[k]>> \in R
  <2>1. k - 1 \in 0 .. Len(ops)
    OBVIOUS
  <2>2. ms[k - 1] \in Machines
    BY <2>1
  <2>3. os[k] = ops[k] \/ os[k] = does[ops[k]][ms[k - 1]].op
    BY <1>1 DEF Chain
  <2> QED BY <2>2, <2>3 DEF KeepsTo
<1> QED BY <1>1, <1>2

\* The parts of a removal, done or undone, change the tree and not the selection.
LEMMA PartsAre ==
  ASSUME NEW ops \in Seq(Moves), NEW x \in Machines
  PROVE  /\ LET r == InOrder(ExecuteParentChange, ops, x)
            IN  r.ops \in Seq(Moves) /\ r.m \in Machines /\ r.m.selection = x.selection
         /\ LET r == InReverse(UndoParentChange, ops, x)
            IN  r.m \in Machines /\ r.m.selection = x.selection
<1> DEFINE G == {y \in Machines : y.selection = x.selection}
<1>1. ASSUME NEW op \in Moves, NEW y \in Machines \cap G
      PROVE  Moving[op][y].m \in G /\ MovingBack[op][y].m \in G
  <2>1. y \in Machines /\ y.selection = x.selection
    OBVIOUS
  <2>2. CASE IsRunning(y)
    <3>1. Moving[op][y] = ExecuteParentChange(op, y)
          /\ MovingBack[op][y] = UndoParentChange(op, y)
      BY <2>1, <2>2 DEF Moving, MovingBack
    <3>2. /\ Moving[op][y].m \in Machines /\ Moving[op][y].m.selection = y.selection
          /\ MovingBack[op][y].m \in Machines /\ MovingBack[op][y].m.selection = y.selection
      BY <2>1, <2>2, <3>1, ParentChangeIs, ParentUnchangeIs DEF Moves
    <3> QED BY <2>1, <3>2
  <2>3. CASE ~IsRunning(y)
    <3>1. Moving[op][y] = [op |-> op, m |-> y] /\ MovingBack[op][y] = [op |-> op, m |-> y]
      BY <2>1, <2>3 DEF Moving, MovingBack
    <3> QED BY <2>1, <3>1
  <2> QED BY <2>2, <2>3
<1>2. x \in G
  OBVIOUS
<1> DEFINE r == InOrder(ExecuteParentChange, ops, x)
           u == InOrder(UndoParentChange, Reverse(ops), x)
<1>3. /\ Runs(Moves, Machines, Moving, ops, x, r)
      /\ Runs(Moves, Machines, MovingBack, Reverse(ops), x, u) /\ Reverse(ops) \in Seq(Moves)
  BY ReverseIs, MovingRuns, MovingBackRuns
<1> HIDE DEF r, u, G
<1>4. r.ops \in Seq(Moves) /\ r.m \in Machines /\ r.m \in G
  <2>1. /\ StaysIn(Moving, ops, G)
        /\ Moving \in [Moves -> [Machines -> Results(Moves, Machines)]]
    BY <1>1, MovingType DEF StaysIn
  <2>2. r \in [ops : Seq(Moves), m : Machines] /\ r.m \in G
    BY <1>2, <1>3, <2>1, RunsStay
  <2> QED BY <2>2
<1>5. u.m \in Machines /\ u.m \in G
  <2> DEFINE os == Reverse(ops)
  <2>1. /\ StaysIn(MovingBack, os, G)
        /\ MovingBack \in [Moves -> [Machines -> Results(Moves, Machines)]]
    BY <1>1, <1>3, MovingType DEF StaysIn
  <2> HIDE DEF os
  <2>2. u \in [ops : Seq(Moves), m : Machines] /\ u.m \in G
    BY <1>2, <1>3, <2>1, RunsStay DEF os
  <2> QED BY <2>2
<1>6. InReverse(UndoParentChange, ops, x).m = u.m
  BY DEF InReverse, u
<1> QED BY <1>4, <1>5, <1>6 DEF r, G

\* set_parent and set_selection at the end of an insertion or a removal.
LEMMA PlaceIs ==
  ASSUME NEW x \in Machines, IsRunning(x), NEW n \in Item, NEW p \in Item \cup {None},
         NEW position \in Nat, NEW items \in Seq(Item)
  PROVE  LET y == Place(x, n, p, position, items)
         IN  /\ y \in Machines /\ y.selection \in {x.selection, items}
             /\ IsRunning(y) <=> ~CreatesCycle(x.tree, n, p)
             /\ IsRunning(y) => y.tree = SetParent(x.tree, n, p, position)
<1> DEFINE a == Attach(x, n, p, position)
           s == SetSelection(a, items)
<1>1. /\ a \in Machines /\ a.selection = x.selection
      /\ CreatesCycle(x.tree, n, p) => a.status = "no_return"
      /\ ~CreatesCycle(x.tree, n, p) =>
           a.status = x.status /\ a.tree = SetParent(x.tree, n, p, position)
  BY AttachIs
<1> HIDE DEF a
<1>2. /\ s \in Machines /\ s.status = a.status /\ s.tree = a.tree /\ s.selection = items
  BY <1>1, SelectionIs
<1> HIDE DEF s
<1>3. Place(x, n, p, position, items) = IF a.status = "running" THEN s ELSE a
  BY DEF Place, a, s
<1> QED BY <1>1, <1>2, <1>3 DEF IsRunning
\* A change of the position: where the anchor is when the item is off the list.
Erased(h, n)        == [h EXCEPT !.children[h.parent[n]] = Without(@, n)]
Landing(op, h)      == Target(Erased(h, op.item), op, h.parent[op.item])
Repositioned(op, h) == Reposition(h, op.item, Landing(op, h))
RepositionsWell(op, h) ==
  /\ h.parent[op.item] # None
  /\ Landing(op, h) <= ChildCount(Erased(h, op.item), h.parent[op.item])

\* Taking an item out of its list leaves a hierarchy.
LEMMA ErasedIs ==
  ASSUME NEW h, Tree(h), NEW n \in Item, h.parent[n] # None
  PROVE  Erased(h, n) \in Hierarchies
<1> DEFINE p == h.parent[n]
           s == Without(h.children[p], n)
<1>1. h \in Hierarchies /\ p \in Item /\ h.children[p] \in Seq(Item) /\ OneToOne(h.children[p])
  BY DEF Tree, Hierarchies, WellFormed, ChildOnce, OneToOne
<1>2. s \in Seq(Item)
  BY <1>1, WithoutFacts
<1> HIDE DEF s, p
<1>3. Erased(h, n) = [h EXCEPT !.children[p] = s]
  BY DEF Erased, s, p
<1> QED BY <1>1, <1>2, <1>3 DEF Hierarchies

\* The place that a reposition moves its item to is a position.
LEMMA LandingIsNat ==
  ASSUME NEW op \in Ops, NEW h, Tree(h), h.parent[op.item] # None
  PROVE  Landing(op, h) \in Nat
<1>1. op.item \in Item /\ h.parent[op.item] \in Item
  BY OpParts DEF Ops, Tree, Hierarchies
<1>2. Erased(h, op.item) \in Hierarchies
  BY <1>1, ErasedIs
<1> QED BY <1>1, <1>2, TargetIsNat DEF Landing, Ops

\* Executing a reposition: its checks, and the tree that comes of it.
LEMMA RepositionIs ==
  ASSUME NEW op \in Ops, NEW x \in Machines, IsRunning(x),
         NEW r, r = ExecuteReposition(op, x)
  PROVE  /\ r.op = Remembering(op, x.tree) /\ r.op \in Ops
         /\ r.m \in Machines /\ r.m.selection = x.selection
         /\ IsRunning(r.m) <=> RepositionsWell(op, x.tree)
         /\ IsRunning(r.m) => r.m.tree = Repositioned(op, x.tree)
<1> DEFINE h == x.tree
           n == op.item
           p == h.parent[n]
           k == IndexInParent(h, n)
           l == Landing(op, h)
           c == ChildCount(Erased(h, n), p)
           g == Repositioned(op, h)
           y == [x EXCEPT !.tree = g]
           v == Stopped(x, "verify_failed")
<1>1. Tree(h) /\ h \in Hierarchies /\ n \in Item
  BY OpParts DEF Machines, Ops, Tree
<1>2. k \in Nat
  BY <1>1, IndexIsNat
<1>3. r.op = [op EXCEPT !.index = k] /\ r.op \in Ops
  BY <1>2, WithIndex DEF ExecuteReposition, Ops
<1>4. v \in Machines /\ v.status = "verify_failed" /\ v.selection = x.selection
  BY StoppedIs DEF Statuses
<1>5. r.m = IF p = None THEN v ELSE IF l > c THEN v ELSE y
  BY DEF ExecuteReposition, Landing, Erased, Repositioned
<1>6. ASSUME p # None PROVE y \in Machines /\ IsRunning(y) /\ y.tree = g /\ y.selection = x.selection
  <2>1. l \in Nat
    BY <1>1, <1>6, LandingIsNat
  <2>2. Tree(g)
    BY <1>1, <1>6, <2>1, RepositionUndone DEF Repositioned
  <2> HIDE DEF g
  <2>3. g \in Hierarchies
    BY <2>2 DEF Tree
  <2> QED BY <2>2, <2>3 DEF Machines, IsRunning
<1>7. p # None => l \in Nat /\ c \in Nat
  <2>1. ASSUME p # None PROVE c \in Nat
    <3>1. p \in Item
      BY <1>1, <2>1 DEF Hierarchies
    <3>2. Erased(h, n) \in Hierarchies
      BY <1>1, <2>1, ErasedIs
    <3> HIDE DEF p
    <3> QED BY <3>1, <3>2 DEF ChildCount, Hierarchies
  <2> QED BY <1>1, <2>1, LandingIsNat
<1> HIDE DEF v, y, g, c, l
<1>8. /\ r.m \in Machines /\ r.m.selection = x.selection
      /\ IsRunning(r.m) <=> (p # None /\ l <= c)
      /\ IsRunning(r.m) => r.m.tree = g
  BY <1>4, <1>5, <1>6, <1>7 DEF IsRunning
<1> QED BY <1>3, <1>8 DEF RepositionsWell, Remembering, c, l, g

\* Undoing a reposition where the item has a parent.
LEMMA UnrepositionIs ==
  ASSUME NEW op \in Ops, NEW x \in Machines, IsRunning(x),
         NEW r, r = UndoReposition(op, x)
  PROVE  /\ r.op = op /\ r.m \in Machines /\ r.m.selection = x.selection
         /\ x.tree.parent[op.item] # None
            /\ op.index < ChildCount(x.tree, x.tree.parent[op.item])
            => IsRunning(r.m) /\ r.m.tree = Reposition(x.tree, op.item, op.index)
<1> DEFINE h == x.tree
           n == op.item
           p == h.parent[n]
           c == ChildCount(h, p)
           g == Reposition(h, n, op.index)
           y == [x EXCEPT !.tree = g]
           v == Stopped(x, "verify_failed")
<1>1. Tree(h) /\ h \in Hierarchies /\ n \in Item /\ op.index \in Nat
  BY OpParts DEF Machines, Ops, Tree
<1>4. v \in Machines /\ v.selection = x.selection
  BY StoppedIs DEF Statuses
<1>5. r.op = op /\ r.m = IF p = None THEN v ELSE IF op.index >= c THEN v ELSE y
  BY DEF UndoReposition
<1>6. ASSUME p # None
      PROVE  y \in Machines /\ IsRunning(y) /\ y.tree = g /\ y.selection = x.selection
  <2>2. Tree(g)
    BY <1>1, <1>6, RepositionUndone
  <2> HIDE DEF g
  <2>3. g \in Hierarchies
    BY <2>2 DEF Tree
  <2> QED BY <2>2, <2>3 DEF Machines, IsRunning
<1>7. p # None => c \in Nat
  <2>1. ASSUME p # None PROVE p \in Item
    BY <1>1, <2>1 DEF Hierarchies
  <2> HIDE DEF p
  <2> QED BY <1>1, <2>1 DEF ChildCount, Hierarchies
<1> HIDE DEF v, y, g, c
<1>8. /\ r.m \in Machines /\ r.m.selection = x.selection
      /\ p # None /\ op.index < c => IsRunning(r.m) /\ r.m.tree = g
  BY <1>1, <1>4, <1>5, <1>6, <1>7
<1> QED BY <1>5, <1>8 DEF c, g

\* Executing an insertion: its check, and the tree that comes of it.
LEMMA InsertIs ==
  ASSUME NEW op \in Ops, NEW x \in Machines, IsRunning(x), NEW r, r = ExecuteInsert(op, x)
  PROVE  /\ r.op = [op EXCEPT !.index = 0] /\ r.op \in Ops /\ r.m \in Machines
         /\ r.m.selection \in {x.selection, op.selAfter}
         /\ IsRunning(r.m) <=> ~CreatesCycle(x.tree, op.item, op.after)
         /\ IsRunning(r.m) => r.m.tree = SetParent(x.tree, op.item, op.after, 0)
<1>1. op.item \in Item /\ op.after \in Item \cup {None} /\ op.selAfter \in Seq(Item)
  BY OpParts DEF Ops
<1>2. r.op = [op EXCEPT !.index = 0] /\ r.op \in Ops
  BY WithIndex DEF ExecuteInsert, Ops
<1>3. r.m = Place(x, op.item, op.after, 0, op.selAfter)
  BY DEF ExecuteInsert
<1> DEFINE y == Place(x, op.item, op.after, 0, op.selAfter)
<1>4. /\ y \in Machines /\ y.selection \in {x.selection, op.selAfter}
      /\ IsRunning(y) <=> ~CreatesCycle(x.tree, op.item, op.after)
      /\ IsRunning(y) => y.tree = SetParent(x.tree, op.item, op.after, 0)
  BY <1>1, PlaceIs
<1> HIDE DEF y
<1> QED BY <1>2, <1>3, <1>4 DEF y

\* The operation that a removal becomes.
Removing(op, p, k, parts) == [op EXCEPT !.before = p, !.index = k, !.moved = parts]

\* A removal that remembers where its item was and what it moved.
LEMMA RemovingIs ==
  ASSUME NEW op \in Ops, NEW p \in Item \cup {None}, NEW k \in Nat, NEW parts \in Seq(Moves),
         NEW q, q = Removing(op, p, k, parts)
  PROVE  /\ q \in Ops /\ q.before = p /\ q.index = k /\ q.moved = parts
         /\ q.kind = op.kind /\ q.item = op.item /\ q.after = op.after
         /\ q.selBefore = op.selBefore /\ q.selAfter = op.selAfter
         /\ Removing(q, p, k, parts) = q
BY DEF Ops, OpsWith, Removing

\* Executing a removal: the children are handed on, then the item goes.
LEMMA RemoveIs ==
  ASSUME NEW op \in Ops, NEW x \in Machines, IsRunning(x), NEW r, r = ExecuteRemove(op, x),
         NEW e, e = InOrder(ExecuteParentChange, Handing(x.tree, op.item), x)
  PROVE  LET h == x.tree
             p == h.parent[op.item]
             k == IndexInParent(h, op.item)
         IN  /\ r.op = Removing(op, p, k, e.ops) /\ r.op \in Ops
             /\ e.ops \in Seq(Moves) /\ e.m \in Machines
             /\ r.m \in Machines /\ r.m.selection \in {x.selection, op.selAfter}
             /\ IsRunning(r.m) => p # None \/ h.children[op.item] = <<>>
             /\ (p # None \/ h.children[op.item] = <<>>) /\ IsRunning(e.m)
                => r.m = Place(e.m, op.item, op.after, k, op.selAfter)
<1> DEFINE h == x.tree
           n == op.item
           p == h.parent[n]
           k == IndexInParent(h, n)
           moves == Handing(h, n)
           y == Place(e.m, n, op.after, k, op.selAfter)
           v == Stopped(x, "null_parent")
<1>1. /\ Tree(h) /\ h \in Hierarchies /\ n \in Item /\ op.after \in Item \cup {None}
      /\ op.selAfter \in Seq(Item)
  BY OpParts DEF Machines, Ops, Tree
<1>2. k \in Nat /\ p \in Item \cup {None}
  BY <1>1, IndexIsNat DEF Hierarchies
<1>3. /\ moves \in Seq(Moves) /\ h.children[n] \in Seq(Item)
      /\ Len(moves) = Len(h.children[n])
  BY <1>1, HandingIs
<1>4. e.ops \in Seq(Moves) /\ e.m \in Machines /\ e.m.selection = x.selection
  <2> HIDE DEF moves
  <2>1. e = InOrder(ExecuteParentChange, moves, x)
    BY DEF moves
  <2> QED BY <1>3, <2>1, PartsAre
<1>5. r.op = Removing(op, p, k, e.ops)
  BY DEF ExecuteRemove, Removing, Handing
<1>6. r.op \in Ops
  <2> HIDE DEF h, n, p, k, moves, y, v
  <2>1. PICK parts \in Seq(Moves) : parts = e.ops
    BY <1>4
  <2>2. PICK q : q = Removing(op, p, k, parts)
    OBVIOUS
  <2>3. q \in Ops
    BY <1>2, <2>2, RemovingIs
  <2> QED BY <1>5, <2>1, <2>2, <2>3
<1>7. v \in Machines /\ v.status = "null_parent" /\ v.selection = x.selection
  BY StoppedIs DEF Statuses
<1>8. IsRunning(e.m) => y \in Machines /\ y.selection \in {e.m.selection, op.selAfter}
  <2> HIDE DEF n, k
  <2>1. n \in Item
    BY <1>1
  <2> QED BY <1>1, <1>2, <1>4, <2>1, PlaceIs
<1>9. r.m = IF p = None /\ moves # <<>> THEN v ELSE IF e.m.status # "running" THEN e.m ELSE y
  BY DEF ExecuteRemove, Handing
<1>10. moves = <<>> <=> h.children[n] = <<>>
  <2> HIDE DEF moves, h, n
  <2> QED BY <1>3
<1> HIDE DEF v, y, moves, p, k
<1>11. /\ r.m \in Machines /\ r.m.selection \in {x.selection, op.selAfter}
       /\ IsRunning(r.m) => p # None \/ h.children[n] = <<>>
       /\ (p # None \/ h.children[n] = <<>>) /\ IsRunning(e.m) => r.m = y
  BY <1>4, <1>7, <1>8, <1>9, <1>10 DEF IsRunning
<1> QED BY <1>4, <1>5, <1>6, <1>11 DEF y, p, k

\* The operation that an undone insertion or removal becomes.
TakenBack(op, p) == IF op.kind = "remove" THEN [op EXCEPT !.after = p] ELSE op

\* Undoing an insertion or a removal: the item goes back, then the children.
LEMMA UninsertIs ==
  ASSUME NEW op \in Ops, NEW x \in Machines, IsRunning(x), NEW r, r = UndoInsertRemove(op, x)
  PROVE  /\ r.op = TakenBack(op, x.tree.parent[op.item])
         /\ r.op \in Ops /\ r.op.kind = op.kind /\ r.op.item = op.item
         /\ r.op.selBefore = op.selBefore /\ r.op.selAfter = op.selAfter
         /\ r.m \in Machines /\ r.m.selection \in {x.selection, op.selBefore}
         /\ LET a == Attach(x, op.item, op.before, op.index)
                u == InReverse(UndoParentChange, op.moved, a)
            IN  a \in Machines /\ (IsRunning(u.m) => IsRunning(r.m) /\ r.m.tree = u.m.tree)
<1> DEFINE a == Attach(x, op.item, op.before, op.index)
           u == InReverse(UndoParentChange, op.moved, a)
           s == SetSelection(u.m, op.selBefore)
           p == x.tree.parent[op.item]
<1>1. /\ op.item \in Item /\ op.before \in Item \cup {None} /\ op.index \in Nat
      /\ op.moved \in Seq(Moves) /\ op.selBefore \in Seq(Item) /\ p \in Item \cup {None}
  BY OpParts DEF Ops, Machines, Hierarchies
<1>2. a \in Machines /\ a.selection = x.selection
  BY <1>1, AttachIs
<1> HIDE DEF a
<1>3. u.m \in Machines /\ u.m.selection = x.selection
  BY <1>1, <1>2, PartsAre
<1>4. s \in Machines /\ s.status = u.m.status /\ s.tree = u.m.tree /\ s.selection = op.selBefore
  BY <1>1, <1>3, SelectionIs
<1>5. r.m = IF u.m.status = "running" THEN s ELSE u.m
  BY DEF UndoInsertRemove, a
<1> HIDE DEF p, u
<1>6. r.op = TakenBack(op, p)
  <2>1. r.op = [op EXCEPT !.after = IF op.kind = "remove" THEN p ELSE op.after]
    BY DEF UndoInsertRemove, p
  <2>2. [op EXCEPT !.after = op.after] = op
    BY DEF Ops, OpsWith
  <2> QED BY <2>1, <2>2 DEF TakenBack
<1>7. /\ [op EXCEPT !.after = p] \in Ops
      /\ [op EXCEPT !.after = p].kind = op.kind /\ [op EXCEPT !.after = p].item = op.item
      /\ [op EXCEPT !.after = p].selBefore = op.selBefore
      /\ [op EXCEPT !.after = p].selAfter = op.selAfter
  BY <1>1 DEF Ops, OpsWith
<1> HIDE DEF s
<1>8. /\ r.op \in Ops /\ r.op.kind = op.kind /\ r.op.item = op.item
      /\ r.op.selBefore = op.selBefore /\ r.op.selAfter = op.selAfter
  BY <1>6, <1>7 DEF TakenBack
<1>9. /\ r.m \in Machines /\ r.m.selection \in {x.selection, op.selBefore}
      /\ IsRunning(u.m) => IsRunning(r.m) /\ r.m.tree = u.m.tree
  BY <1>3, <1>4, <1>5 DEF IsRunning
<1> QED BY <1>2, <1>6, <1>8, <1>9 DEF p, a, u
-----------------------------------------------------------------------------
(***************************************************************************)
(* Any operation.  What an operation is about stays; a removal takes its   *)
(* item out of the tree, and an insertion takes one that is in no tree.    *)
(***************************************************************************)
SameFor(q, op) == /\ q.kind = op.kind /\ q.item = op.item
                  /\ q.selBefore = op.selBefore /\ q.selAfter = op.selAfter

\* What the constructors leave in the fields that a kind does not use.
Sound(op) == /\ op.kind = "remove" => op.after = None
             /\ op.kind = "insert" => op.before = None /\ op.moved = <<>>

\* Remembering the index of an item twice is remembering it once.
LEMMA RememberingIs ==
  ASSUME NEW op \in Ops, NEW h \in Hierarchies
  PROVE  LET q == Remembering(op, h)
         IN  /\ SameFor(q, op) /\ q.index = IndexInParent(h, op.item)
             /\ q.place = op.place /\ q.anchor = op.anchor /\ q \in Ops
             /\ Remembering(q, h) = q
<1> DEFINE k == IndexInParent(h, op.item)
           q == [op EXCEPT !.index = k]
<1>1. k \in Nat
  BY IndexIsNat, OpParts DEF Ops
<1> HIDE DEF k
<1>2. /\ q.kind = op.kind /\ q.item = op.item /\ q.selBefore = op.selBefore
      /\ q.selAfter = op.selAfter /\ q.index = k /\ q.place = op.place
      /\ q.anchor = op.anchor /\ q \in Ops /\ [q EXCEPT !.index = k] = q
  BY <1>1 DEF Ops, OpsWith
<1>3. Remembering(op, h) = q /\ k = IndexInParent(h, op.item)
  BY DEF Remembering, k
<1> HIDE DEF q
<1> QED BY <1>2, <1>3 DEF SameFor, Remembering

\* Executing any operation: what kind it is and what it is about stays.
LEMMA OneIs ==
  ASSUME NEW op \in Ops, NEW x \in Machines, IsRunning(x), NEW r, r = ExecuteOne(op, x)
  PROVE  /\ r \in Results(Ops, Machines) /\ SameFor(r.op, op)
         /\ Sound(op) => Sound(r.op)
         /\ r.m.selection \in {x.selection, op.selAfter}
<1>0. /\ op.kind \in {"parent_change", "reposition", "insert", "remove"}
      /\ op.item \in Item /\ x.tree \in Hierarchies
  BY OpParts DEF Ops, Machines
<1>1. r.op \in Ops /\ r.m \in Machines => (r \in Results(Ops, Machines) <=> r = [op |-> r.op, m |-> r.m])
  BY DEF Results
<1>2. CASE op.kind = "parent_change"
  <2>1. r = ExecuteParentChange(op, x)
    BY <1>2 DEF ExecuteOne
  <2>2. /\ r.op = Remembering(op, x.tree) /\ r.op \in Ops /\ r.m \in Machines
        /\ r.m.selection = x.selection
    BY <2>1, ParentChangeIs DEF Ops
  <2>3. r = [op |-> r.op, m |-> r.m]
    BY <2>1 DEF ExecuteParentChange
  <2>4. SameFor(r.op, op)
    BY <1>0, <2>2, RememberingIs
  <2> QED BY <1>1, <1>2, <2>2, <2>3, <2>4 DEF SameFor, Sound
<1>3. CASE op.kind = "reposition"
  <2>1. r = ExecuteReposition(op, x)
    BY <1>3 DEF ExecuteOne
  <2>2. /\ r.op = Remembering(op, x.tree) /\ r.op \in Ops /\ r.m \in Machines
        /\ r.m.selection = x.selection
    BY <2>1, RepositionIs
  <2>3. r = [op |-> r.op, m |-> r.m]
    BY <2>1 DEF ExecuteReposition
  <2>4. SameFor(r.op, op)
    BY <1>0, <2>2, RememberingIs
  <2> QED BY <1>1, <1>3, <2>2, <2>3, <2>4 DEF SameFor, Sound
<1>4. CASE op.kind = "insert"
  <2>1. r = ExecuteInsert(op, x)
    BY <1>4 DEF ExecuteOne
  <2>2. /\ r.op = [op EXCEPT !.index = 0] /\ r.op \in Ops /\ r.m \in Machines
        /\ r.m.selection \in {x.selection, op.selAfter}
    BY <2>1, InsertIs
  <2>3. r = [op |-> r.op, m |-> r.m]
    BY <2>1 DEF ExecuteInsert
  <2>4. SameFor(r.op, op) /\ r.op.before = op.before /\ r.op.moved = op.moved
    <3> DEFINE q == [op EXCEPT !.index = 0]
    <3>1. /\ q.kind = op.kind /\ q.item = op.item /\ q.selBefore = op.selBefore
          /\ q.selAfter = op.selAfter /\ q.before = op.before /\ q.moved = op.moved
      BY DEF Ops, OpsWith
    <3> HIDE DEF q
    <3> QED BY <2>2, <3>1 DEF SameFor, q
  <2> QED BY <1>1, <1>4, <2>2, <2>3, <2>4 DEF SameFor, Sound
<1>5. CASE op.kind = "remove"
  <2> DEFINE p == x.tree.parent[op.item]
             k == IndexInParent(x.tree, op.item)
             e == InOrder(ExecuteParentChange, Handing(x.tree, op.item), x)
  <2>1. r = ExecuteRemove(op, x)
    BY <1>5 DEF ExecuteOne
  <2>2. /\ r.op = Removing(op, p, k, e.ops) /\ r.op \in Ops /\ e.ops \in Seq(Moves)
        /\ r.m \in Machines /\ r.m.selection \in {x.selection, op.selAfter}
    BY <2>1, RemoveIs
  <2>3. r = [op |-> r.op, m |-> r.m]
    BY <2>1 DEF ExecuteRemove
  <2>4. p \in Item \cup {None} /\ k \in Nat
    BY <1>0, IndexIsNat DEF Hierarchies
  <2> HIDE DEF e, p, k
  <2>5. SameFor(r.op, op) /\ r.op.after = op.after
    BY <2>2, <2>4, RemovingIs DEF SameFor
  <2> QED BY <1>1, <1>5, <2>2, <2>3, <2>5 DEF SameFor, Sound
<1> QED BY <1>0, <1>2, <1>3, <1>4, <1>5

\* Undoing any operation: what kind it is and what it is about stays.
LEMMA OneUndoneIs ==
  ASSUME NEW op \in Ops, NEW x \in Machines, IsRunning(x), NEW r, r = UndoOne(op, x)
  PROVE  /\ r \in Results(Ops, Machines) /\ SameFor(r.op, op)
         /\ r.m.selection \in {x.selection, op.selBefore}
<1>0. op.kind \in {"parent_change", "reposition", "insert", "remove"}
  BY OpParts DEF Ops
<1>1. r.op \in Ops /\ r.m \in Machines => (r \in Results(Ops, Machines) <=> r = [op |-> r.op, m |-> r.m])
  BY DEF Results
<1>2. CASE op.kind = "parent_change"
  <2>1. r = UndoParentChange(op, x)
    BY <1>2 DEF UndoOne
  <2>2. r.op = op /\ r.m \in Machines /\ r.m.selection = x.selection
    BY <2>1, ParentUnchangeIs DEF Ops
  <2>3. r = [op |-> r.op, m |-> r.m]
    BY <2>1 DEF UndoParentChange
  <2> QED BY <1>1, <2>2, <2>3 DEF SameFor
<1>3. CASE op.kind = "reposition"
  <2>1. r = UndoReposition(op, x)
    BY <1>3 DEF UndoOne
  <2>2. r.op = op /\ r.m \in Machines /\ r.m.selection = x.selection
    BY <2>1, UnrepositionIs
  <2>3. r = [op |-> r.op, m |-> r.m]
    BY <2>1 DEF UndoReposition
  <2> QED BY <1>1, <2>2, <2>3 DEF SameFor
<1>4. CASE op.kind \in {"insert", "remove"}
  <2>1. r = UndoInsertRemove(op, x)
    BY <1>4 DEF UndoOne
  <2>2. /\ r.op \in Ops /\ r.op.kind = op.kind /\ r.op.item = op.item
        /\ r.op.selBefore = op.selBefore /\ r.op.selAfter = op.selAfter
        /\ r.m \in Machines /\ r.m.selection \in {x.selection, op.selBefore}
    BY <2>1, UninsertIs
  <2>3. r = [op |-> r.op, m |-> r.m]
    BY <2>1 DEF UndoInsertRemove
  <2> QED BY <1>1, <2>2, <2>3 DEF SameFor
<1> QED BY <1>0, <1>2, <1>3, <1>4

\* The steps of Execute and Undo as functions.
Doing ==
  [op \in Ops |-> [x \in Machines |->
     IF IsRunning(x) THEN ExecuteOne(op, x) ELSE [op |-> op, m |-> x]]]

TakingBack ==
  [op \in Ops |-> [x \in Machines |->
     IF IsRunning(x) THEN UndoOne(op, x) ELSE [op |-> op, m |-> x]]]

\* Both are functions of an operation and a machine.
LEMMA DoingType ==
  /\ Doing \in [Ops -> [Machines -> Results(Ops, Machines)]]
  /\ TakingBack \in [Ops -> [Machines -> Results(Ops, Machines)]]
<1>1. ASSUME NEW op \in Ops, NEW x \in Machines, IsRunning(x)
      PROVE  /\ ExecuteOne(op, x) \in Results(Ops, Machines)
             /\ UndoOne(op, x) \in Results(Ops, Machines)
  BY <1>1, OneIs, OneUndoneIs
<1>2. \A op \in Ops, x \in Machines : [op |-> op, m |-> x] \in Results(Ops, Machines)
  BY DEF Results
<1> QED BY <1>1, <1>2 DEF Doing, TakingBack

\* Executing a compound operation runs along its parts one by one.
LEMMA DoingRuns ==
  ASSUME NEW ops \in Seq(Ops), NEW x \in Machines
  PROVE  Runs(Ops, Machines, Doing, ops, x, InOrder(ExecuteOne, ops, x))
<1> DEFINE n == Len(ops)
           B == [ops : Seq(Ops), m : Machines]
           base == [ops |-> <<>>, m |-> x]
           More(op, r) == IF r.m.status # "running"
                          THEN [ops |-> Append(r.ops, op), m |-> r.m]
                          ELSE [ops |-> Append(r.ops, ExecuteOne(op, r.m).op),
                                m |-> ExecuteOne(op, r.m).m]
           Iterates(f) ==
             f = [D \in SUBSET DOMAIN ops |->
                    IF D = {} THEN base ELSE More(ops[Max(D)], f[D \ {Max(D)}])]
           it == CHOOSE f : Iterates(f)
<1>1. n \in Nat /\ DOMAIN ops = 1 .. n /\ \A k \in 1 .. n : ops[k] \in Ops
  OBVIOUS
<1>2. InOrder(ExecuteOne, ops, x) = it[1 .. n]
  BY <1>1 DEF InOrder, FoldLeft, MapThenFoldSet
<1>3. ASSUME NEW op \in Ops, NEW r \in B PROVE OneMore(Doing, op, r) = More(op, r)
  <2>1. r.m \in Machines
    OBVIOUS
  <2>2. IsRunning(r.m) => Doing[op][r.m] = ExecuteOne(op, r.m)
    BY <2>1 DEF Doing
  <2> QED BY <2>2 DEF OneMore, IsRunning
<1>4. \A D \in SUBSET (1 .. n) : D # {} => Max(D) \in 1 .. n
  BY <1>1, MaxOfSome
<1>5. \A D \in SUBSET (1 .. n) : D # {} => ops[Max(D)] \in Ops
  BY <1>1, <1>4
<1> HIDE DEF More, base
<1>6. PICK f \in [SUBSET (1 .. n) -> B] : Folds(Doing, ops, x, f)
  BY DoingType, FoldExists
<1> HIDE DEF B, n
<1>7. \A D \in SUBSET (1 .. n) :
         f[D] = IF D = {} THEN base ELSE More(ops[Max(D)], f[D \ {Max(D)}])
  <2> SUFFICES ASSUME NEW D \in SUBSET (1 .. n)
               PROVE  f[D] = IF D = {} THEN base ELSE More(ops[Max(D)], f[D \ {Max(D)}])
    OBVIOUS
  <2>1. f[D \ {Max(D)}] \in B
    BY <1>6
  <2>2. f[D] = IF D = {} THEN base ELSE OneMore(Doing, ops[Max(D)], f[D \ {Max(D)}])
    BY <1>6 DEF Folds, n, base
  <2> QED BY <2>1, <2>2, <1>3, <1>5
<1>8. Iterates(f)
  <2>1. f = [D \in SUBSET (1 .. n) |-> f[D]]
    BY <1>6
  <2> QED BY <2>1, <1>1, <1>7
<1>9. Iterates(it)
  BY <1>8
<1> HIDE DEF it
<1>10. \A D \in SUBSET (1 .. n) :
         it[D] = IF D = {} THEN base ELSE More(ops[Max(D)], it[D \ {Max(D)}])
  BY <1>1, <1>9
<1>11. FoldsOn(Ops, Machines, Doing, ops, x, it)
  <2> SUFFICES ASSUME NEW D \in SUBSET (1 .. n)
               PROVE  /\ D = {} => it[D] = base
                      /\ D # {} /\ it[D \ {Max(D)}] \in B
                           => it[D] = OneMore(Doing, ops[Max(D)], it[D \ {Max(D)}])
    BY DEF FoldsOn, n, B, base
  <2> QED BY <1>3, <1>5, <1>10
<1>12. Runs(Ops, Machines, Doing, ops, x, it[1 .. Len(ops)])
  BY <1>11, DoingType, FoldRuns
<1> QED BY <1>2, <1>12 DEF n

\* Undoing a list of operations runs along them one by one.
LEMMA TakingBackRuns ==
  ASSUME NEW ops \in Seq(Ops), NEW x \in Machines
  PROVE  Runs(Ops, Machines, TakingBack, ops, x, InOrder(UndoOne, ops, x))
<1> DEFINE n == Len(ops)
           B == [ops : Seq(Ops), m : Machines]
           base == [ops |-> <<>>, m |-> x]
           More(op, r) == IF r.m.status # "running"
                          THEN [ops |-> Append(r.ops, op), m |-> r.m]
                          ELSE [ops |-> Append(r.ops, UndoOne(op, r.m).op),
                                m |-> UndoOne(op, r.m).m]
           Iterates(f) ==
             f = [D \in SUBSET DOMAIN ops |->
                    IF D = {} THEN base ELSE More(ops[Max(D)], f[D \ {Max(D)}])]
           it == CHOOSE f : Iterates(f)
<1>1. n \in Nat /\ DOMAIN ops = 1 .. n /\ \A k \in 1 .. n : ops[k] \in Ops
  OBVIOUS
<1>2. InOrder(UndoOne, ops, x) = it[1 .. n]
  BY <1>1 DEF InOrder, FoldLeft, MapThenFoldSet
<1>3. ASSUME NEW op \in Ops, NEW r \in B PROVE OneMore(TakingBack, op, r) = More(op, r)
  <2>1. r.m \in Machines
    OBVIOUS
  <2>2. IsRunning(r.m) => TakingBack[op][r.m] = UndoOne(op, r.m)
    BY <2>1 DEF TakingBack
  <2> QED BY <2>2 DEF OneMore, IsRunning
<1>4. \A D \in SUBSET (1 .. n) : D # {} => Max(D) \in 1 .. n
  BY <1>1, MaxOfSome
<1>5. \A D \in SUBSET (1 .. n) : D # {} => ops[Max(D)] \in Ops
  BY <1>1, <1>4
<1> HIDE DEF More, base
<1>6. PICK f \in [SUBSET (1 .. n) -> B] : Folds(TakingBack, ops, x, f)
  BY DoingType, FoldExists
<1> HIDE DEF B, n
<1>7. \A D \in SUBSET (1 .. n) :
         f[D] = IF D = {} THEN base ELSE More(ops[Max(D)], f[D \ {Max(D)}])
  <2> SUFFICES ASSUME NEW D \in SUBSET (1 .. n)
               PROVE  f[D] = IF D = {} THEN base ELSE More(ops[Max(D)], f[D \ {Max(D)}])
    OBVIOUS
  <2>1. f[D \ {Max(D)}] \in B
    BY <1>6
  <2>2. f[D] = IF D = {} THEN base ELSE OneMore(TakingBack, ops[Max(D)], f[D \ {Max(D)}])
    BY <1>6 DEF Folds, n, base
  <2> QED BY <2>1, <2>2, <1>3, <1>5
<1>8. Iterates(f)
  <2>1. f = [D \in SUBSET (1 .. n) |-> f[D]]
    BY <1>6
  <2> QED BY <2>1, <1>1, <1>7
<1>9. Iterates(it)
  BY <1>8
<1> HIDE DEF it
<1>10. \A D \in SUBSET (1 .. n) :
         it[D] = IF D = {} THEN base ELSE More(ops[Max(D)], it[D \ {Max(D)}])
  BY <1>1, <1>9
<1>11. FoldsOn(Ops, Machines, TakingBack, ops, x, it)
  <2> SUFFICES ASSUME NEW D \in SUBSET (1 .. n)
               PROVE  /\ D = {} => it[D] = base
                      /\ D # {} /\ it[D \ {Max(D)}] \in B
                           => it[D] = OneMore(TakingBack, ops[Max(D)], it[D \ {Max(D)}])
    BY DEF FoldsOn, n, B, base
  <2> QED BY <1>3, <1>5, <1>10
<1>12. Runs(Ops, Machines, TakingBack, ops, x, it[1 .. Len(ops)])
  BY <1>11, DoingType, FoldRuns
<1> QED BY <1>2, <1>12 DEF n
-----------------------------------------------------------------------------
(***************************************************************************)
(* In the tree h the operation op leads to g and becomes q; q leads from h *)
(* to g as well, and back when it is undone, whatever is selected.  What   *)
(* is in no tree stays in none, but for the item of the operation.         *)
(***************************************************************************)
Links(op, q, h, g) ==
  /\ q \in Ops /\ SameFor(q, op) /\ g \in Trees
  /\ Leads(Doing, op, q, h, g) /\ Leads(Doing, q, q, h, g) /\ Leads(TakingBack, q, q, g, h)
  /\ \A c \in Item \ {op.item} : h.parent[c] = None => g.parent[c] = None

\* A parent change that was executed leads there and back.
LEMMA ChangeLinks ==
  ASSUME NEW op \in Ops, op.kind = "parent_change", NEW x \in Machines, IsRunning(x),
         IsRunning(Doing[op][x].m)
  PROVE  \E q, g : Links(op, q, x.tree, g)
<1> DEFINE h == x.tree
<1>1. ASSUME NEW o \in Ops, o.kind = "parent_change", NEW y \in Machines, IsRunning(y)
      PROVE  /\ Doing[o][y].op = Remembering(o, y.tree)
             /\ IsRunning(Doing[o][y].m) <=> MovesWell(o, y.tree)
             /\ IsRunning(Doing[o][y].m) => Doing[o][y].m.tree = Moved(o, y.tree)
             /\ TakingBack[o][y] = UndoParentChange(o, y)
  <2>1. Doing[o][y] = ExecuteParentChange(o, y) /\ TakingBack[o][y] = UndoParentChange(o, y)
    BY <1>1 DEF Doing, TakingBack, ExecuteOne, UndoOne
  <2> QED BY <1>1, <2>1, ParentChangeIs DEF Ops
<1>2. MovesWell(op, h) /\ Tree(h) /\ h \in Hierarchies /\ op.item \in Item
  BY <1>1, OpParts DEF Machines, Tree, Ops
<1>3. PICK q : q = Remembering(op, h)
  OBVIOUS
<1>4. PICK g : g = Moved(op, h)
  OBVIOUS
<1> HIDE DEF h
<1>5. /\ Tree(g) /\ q \in Ops /\ g.parent = [h.parent EXCEPT ![op.item] = op.after]
      /\ Remembering(q, h) = q /\ Moved(q, h) = g /\ MovesWell(q, h)
      /\ SameFor(q, op) /\ q.kind = "parent_change"
      /\ g.parent[q.item] = q.after /\ ~CreatesCycle(g, q.item, q.before)
      /\ SetParent(g, q.item, q.before, q.index) = h
  BY <1>2, <1>3, <1>4, ParentChangeUndone DEF Ops, SameFor
<1>6. ASSUME NEW y \in Machines, IsRunning(y), y.tree = h
      PROVE  /\ Doing[op][y].op = q /\ IsRunning(Doing[op][y].m) /\ Doing[op][y].m.tree = g
             /\ Doing[q][y].op = q /\ IsRunning(Doing[q][y].m) /\ Doing[q][y].m.tree = g
  BY <1>1, <1>2, <1>3, <1>4, <1>5, <1>6
<1>7. ASSUME NEW y \in Machines, IsRunning(y), y.tree = g
      PROVE  /\ TakingBack[q][y].op = q
             /\ IsRunning(TakingBack[q][y].m) /\ TakingBack[q][y].m.tree = h
  <2>1. PICK u : u = UndoParentChange(q, y)
    OBVIOUS
  <2>2. y.tree.parent[q.item] = q.after /\ ~CreatesCycle(y.tree, q.item, q.before)
        /\ SetParent(y.tree, q.item, q.before, q.index) = h
    BY <1>5, <1>7
  <2>3. u.op = q /\ IsRunning(u.m) /\ u.m.tree = SetParent(y.tree, q.item, q.before, q.index)
    BY <1>5, <1>7, <2>1, <2>2, ParentUnchangeIs DEF Ops
  <2>4. TakingBack[q][y] = u
    BY <1>1, <1>5, <1>7, <2>1
  <2> QED BY <2>2, <2>3, <2>4
<1>8. \A c \in Item \ {op.item} : h.parent[c] = None => g.parent[c] = None
  BY <1>2, <1>5 DEF Hierarchies
<1>9. g \in Trees
  BY <1>5 DEF Trees, Tree
<1>10. Leads(Doing, op, q, h, g) /\ Leads(Doing, q, q, h, g) /\ Leads(TakingBack, q, q, g, h)
  BY <1>6, <1>7 DEF Leads
<1>11. Links(op, q, h, g)
  BY <1>5, <1>8, <1>9, <1>10 DEF Links
<1> QED BY <1>11 DEF h

\* A reposition that was executed leads there and back.
LEMMA RepositionLinks ==
  ASSUME NEW op \in Ops, op.kind = "reposition", NEW x \in Machines, IsRunning(x),
         IsRunning(Doing[op][x].m)
  PROVE  \E q, g : Links(op, q, x.tree, g)
<1> DEFINE h == x.tree
           n == op.item
           p == h.parent[n]
<1>1. ASSUME NEW o \in Ops, o.kind = "reposition", NEW y \in Machines, IsRunning(y)
      PROVE  /\ Doing[o][y].op = Remembering(o, y.tree)
             /\ IsRunning(Doing[o][y].m) <=> RepositionsWell(o, y.tree)
             /\ IsRunning(Doing[o][y].m) => Doing[o][y].m.tree = Repositioned(o, y.tree)
             /\ TakingBack[o][y] = UndoReposition(o, y)
  <2>1. Doing[o][y] = ExecuteReposition(o, y) /\ TakingBack[o][y] = UndoReposition(o, y)
    BY <1>1 DEF Doing, TakingBack, ExecuteOne, UndoOne
  <2> QED BY <1>1, <2>1, RepositionIs
<1>2. RepositionsWell(op, h) /\ Tree(h) /\ h \in Hierarchies /\ n \in Item
  BY <1>1, OpParts DEF Machines, Tree, Ops
<1>3. PICK q : q = Remembering(op, h)
  OBVIOUS
<1>4. PICK g : g = Repositioned(op, h)
  OBVIOUS
<1> HIDE DEF h
<1>5. /\ q \in Ops /\ SameFor(q, op) /\ q.kind = "reposition" /\ q.item = n
      /\ q.index = IndexInParent(h, n) /\ Remembering(q, h) = q
      /\ q.place = op.place /\ q.anchor = op.anchor
  BY <1>2, <1>3, RememberingIs DEF SameFor
<1>6. Landing(q, h) = Landing(op, h)
  BY <1>5 DEF Landing, Target
<1>7. Repositioned(q, h) = g /\ RepositionsWell(q, h)
  BY <1>2, <1>4, <1>5, <1>6 DEF Repositioned, RepositionsWell
<1>8. p # None /\ Landing(op, h) \in Nat
  BY <1>2, LandingIsNat DEF RepositionsWell
<1>9. /\ Tree(g) /\ g.parent = h.parent /\ ChildCount(g, p) = ChildCount(h, p)
      /\ IndexInParent(h, n) < ChildCount(h, p)
      /\ Reposition(g, n, IndexInParent(h, n)) = h
  <2> HIDE DEF n, p
  <2>1. g = Reposition(h, n, Landing(op, h))
    BY <1>4 DEF Repositioned, n
  <2> QED BY <1>2, <1>8, <2>1, RepositionUndone DEF p
<1>10. ASSUME NEW y \in Machines, IsRunning(y), y.tree = h
       PROVE  /\ Doing[op][y].op = q /\ IsRunning(Doing[op][y].m) /\ Doing[op][y].m.tree = g
              /\ Doing[q][y].op = q /\ IsRunning(Doing[q][y].m) /\ Doing[q][y].m.tree = g
  BY <1>1, <1>2, <1>3, <1>4, <1>5, <1>7, <1>10
<1>11. ASSUME NEW y \in Machines, IsRunning(y), y.tree = g
       PROVE  /\ TakingBack[q][y].op = q
              /\ IsRunning(TakingBack[q][y].m) /\ TakingBack[q][y].m.tree = h
  <2>1. PICK u : u = UndoReposition(q, y)
    OBVIOUS
  <2>2. y.tree.parent[q.item] = p
    BY <1>5, <1>9, <1>11
  <2>3. /\ y.tree.parent[q.item] # None
        /\ q.index < ChildCount(y.tree, y.tree.parent[q.item])
        /\ Reposition(y.tree, q.item, q.index) = h
    BY <1>5, <1>8, <1>9, <1>11, <2>2
  <2>4. u.op = q /\ IsRunning(u.m) /\ u.m.tree = Reposition(y.tree, q.item, q.index)
    BY <1>5, <1>11, <2>1, <2>3, UnrepositionIs
  <2>5. TakingBack[q][y] = u
    BY <1>1, <1>5, <1>11, <2>1
  <2> QED BY <2>3, <2>4, <2>5
<1>12. \A c \in Item \ {op.item} : h.parent[c] = None => g.parent[c] = None
  BY <1>9
<1>13. g \in Trees
  BY <1>9 DEF Trees, Tree
<1>14. Leads(Doing, op, q, h, g) /\ Leads(Doing, q, q, h, g) /\ Leads(TakingBack, q, q, g, h)
  BY <1>10, <1>11 DEF Leads
<1>15. Links(op, q, h, g)
  BY <1>5, <1>12, <1>13, <1>14 DEF Links
<1> QED BY <1>15 DEF h

\* A removal that was executed leads there and back, with all the children.
LEMMA RemoveLinks ==
  ASSUME NEW op \in Ops, op.kind = "remove", op.after = None, NEW x \in Machines, IsRunning(x),
         IsRunning(Doing[op][x].m)
  PROVE  \E q, g : Links(op, q, x.tree, g)
<1> USE NoneAssumption
<1> DEFINE h == x.tree
           n == op.item
           p == h.parent[n]
           k == IndexInParent(h, n)
<1>1. ASSUME NEW o \in Ops, o.kind = "remove", NEW y \in Machines, IsRunning(y)
      PROVE  Doing[o][y] = ExecuteRemove(o, y) /\ TakingBack[o][y] = UndoInsertRemove(o, y)
  BY <1>1 DEF Doing, TakingBack, ExecuteOne, UndoOne
<1>2. /\ Tree(h) /\ h \in Hierarchies /\ n \in Item /\ p \in Item \cup {None} /\ k \in Nat
      /\ op.selAfter \in Seq(Item)
  <2>1. Tree(h) /\ h \in Hierarchies
    BY DEF Machines, Tree
  <2>2. n \in Item /\ op.selAfter \in Seq(Item)
    BY OpParts DEF Ops
  <2> HIDE DEF h, n
  <2>3. p \in Item \cup {None}
    BY <2>1, <2>2 DEF Hierarchies
  <2>4. k \in Nat
    BY <2>1, <2>2, IndexIsNat
  <2> QED BY <2>1, <2>2, <2>3, <2>4
<1>3. p # None \/ h.children[n] = <<>>
  <2>1. PICK r : r = ExecuteRemove(op, x)
    OBVIOUS
  <2>2. PICK e : e = InOrder(ExecuteParentChange, Handing(h, n), x)
    OBVIOUS
  <2>3. IsRunning(r.m)
    BY <1>1, <2>1
  <2> QED BY <2>1, <2>2, <2>3, RemoveIs
<1> HIDE DEF h, n, k
<1>4. PICK qs \in Seq(Moves), t \in Trees :
        /\ t.parent[n] = p /\ IndexInParent(t, n) = k
        /\ \A c \in Item : h.parent[c] = None => t.parent[c] = None
        /\ \A y \in Machines : IsRunning(y) /\ y.tree = h =>
             LET r == InOrder(ExecuteParentChange, Handing(h, n), y)
             IN  r.ops = qs /\ r.m \in Machines /\ IsRunning(r.m) /\ r.m.tree = t
        /\ \A y \in Machines : IsRunning(y) /\ y.tree = t =>
             LET r == InReverse(UndoParentChange, qs, y)
             IN  r.m \in Machines /\ IsRunning(r.m) /\ r.m.tree = h
  BY <1>2, <1>3, HandingLeads DEF k
<1> HIDE DEF p
<1>5. PICK q : q = Removing(op, p, k, qs)
  OBVIOUS
<1>6. PICK g : g = SetParent(t, n, None, k)
  OBVIOUS
<1>7. /\ q \in Ops /\ SameFor(q, op) /\ q.kind = "remove" /\ q.item = n /\ q.after = None
      /\ q.before = p /\ q.index = k /\ q.moved = qs /\ Removing(q, p, k, qs) = q
  BY <1>2, <1>4, <1>5, RemovingIs DEF SameFor, n
<1>8. Tree(t) /\ t \in Hierarchies /\ ~CreatesCycle(t, n, None)
  BY <1>4 DEF Trees, CreatesCycle
<1>9. /\ Tree(g) /\ g \in Trees /\ g.parent = [t.parent EXCEPT ![n] = None]
      /\ Subtree(g, n) = Subtree(t, n)
  <2>1. None \notin Subtree(t, n)
    BY <1>2, <1>8, SubtreeLeast
  <2>2. /\ Tree(g) /\ g.parent = [t.parent EXCEPT ![n] = None]
        /\ Subtree(g, n) = Subtree(t, n)
    BY <1>2, <1>6, <1>8, <2>1, SetParentTree
  <2> QED BY <2>2 DEF Trees, Tree
<1>10. g.parent[n] = None
  BY <1>2, <1>8, <1>9 DEF Hierarchies
<1>11. ASSUME NEW o \in Ops, o.kind = "remove", o.item = n, o.after = None,
              Removing(o, p, k, qs) = q, o.selAfter \in Seq(Item),
              NEW y \in Machines, IsRunning(y), y.tree = h
       PROVE  Doing[o][y].op = q /\ IsRunning(Doing[o][y].m) /\ Doing[o][y].m.tree = g
  <2>1. PICK r : r = ExecuteRemove(o, y)
    OBVIOUS
  <2>2. PICK e : e = InOrder(ExecuteParentChange, Handing(y.tree, o.item), y)
    OBVIOUS
  <2>3. e.ops = qs /\ e.m \in Machines /\ IsRunning(e.m) /\ e.m.tree = t
    BY <1>4, <1>11, <2>2
  <2>4. /\ r.op = Removing(o, y.tree.parent[o.item], IndexInParent(y.tree, o.item), e.ops)
        /\ (y.tree.parent[o.item] # None \/ y.tree.children[o.item] = <<>>) /\ IsRunning(e.m)
           => r.m = Place(e.m, o.item, o.after, IndexInParent(y.tree, o.item), o.selAfter)
    <3>1. IsRunning(y)
      BY <1>11
    <3>2. r.op = Removing(o, y.tree.parent[o.item], IndexInParent(y.tree, o.item), e.ops)
      BY <2>1, <2>2, <3>1, RemoveIs
    <3>3. (y.tree.parent[o.item] # None \/ y.tree.children[o.item] = <<>>) /\ IsRunning(e.m)
           => r.m = Place(e.m, o.item, o.after, IndexInParent(y.tree, o.item), o.selAfter)
      BY <2>1, <2>2, <3>1, RemoveIs
    <3> QED BY <3>2, <3>3
  <2>5. y.tree.parent[o.item] = p /\ IndexInParent(y.tree, o.item) = k
        /\ y.tree.children[o.item] = h.children[n]
    BY <1>11 DEF p, k
  <2>6. r.op = q /\ r.m = Place(e.m, n, None, k, o.selAfter)
    BY <1>3, <1>11, <2>3, <2>4, <2>5
  <2>7. PICK z : z = Place(e.m, n, None, k, o.selAfter)
    OBVIOUS
  <2>8. IsRunning(z) /\ z.tree = SetParent(e.m.tree, n, None, k)
    <3>1. ~CreatesCycle(e.m.tree, n, None)
      BY DEF CreatesCycle
    <3> QED BY <1>2, <1>11, <2>3, <2>7, <3>1, PlaceIs
  <2>9. Doing[o][y] = r
    BY <1>1, <1>11, <2>1
  <2> QED BY <1>6, <2>3, <2>6, <2>7, <2>8, <2>9
<1>12. ASSUME NEW y \in Machines, IsRunning(y), y.tree = h
       PROVE  /\ Doing[op][y].op = q /\ IsRunning(Doing[op][y].m) /\ Doing[op][y].m.tree = g
              /\ Doing[q][y].op = q /\ IsRunning(Doing[q][y].m) /\ Doing[q][y].m.tree = g
  <2>1. op.item = n /\ Removing(op, p, k, qs) = q /\ q.selAfter = op.selAfter
    BY <1>5, <1>7 DEF SameFor, n
  <2> QED BY <1>2, <1>7, <1>11, <1>12, <2>1
<1>13. ~CreatesCycle(g, n, p) /\ SetParent(g, n, p, k) = t
  <2>1. CASE p = None
    <3>1. g = t
      BY <1>4, <1>6, <2>1 DEF SetParent
    <3> QED BY <1>4, <2>1, <3>1 DEF SetParent, CreatesCycle
  <2>2. CASE p # None
    <3>1. p \notin Subtree(t, n)
      BY <1>2, <1>4, <1>8, SubtreeInTree
    <3>2. SetParent(SetParent(t, n, None, k), n, t.parent[n], IndexInParent(t, n)) = t
      BY <1>2, <1>4, <1>8, <2>2, SetParentUndone
    <3> QED BY <1>4, <1>6, <1>9, <3>1, <3>2 DEF CreatesCycle
  <2> QED BY <2>1, <2>2
<1>14. ASSUME NEW y \in Machines, IsRunning(y), y.tree = g
       PROVE  /\ TakingBack[q][y].op = q
              /\ IsRunning(TakingBack[q][y].m) /\ TakingBack[q][y].m.tree = h
  <2>1. PICK r : r = UndoInsertRemove(q, y)
    OBVIOUS
  <2>2. PICK a : a = Attach(y, q.item, q.before, q.index)
    OBVIOUS
  <2>3. PICK u : u = InReverse(UndoParentChange, q.moved, a)
    OBVIOUS
  <2>4. a \in Machines /\ IsRunning(a) /\ a.tree = t
    <3>1. a = Attach(y, n, p, k) /\ ~CreatesCycle(y.tree, n, p) /\ SetParent(y.tree, n, p, k) = t
      BY <1>7, <1>13, <1>14, <2>2
    <3>2. a \in Machines /\ a.status = y.status /\ a.tree = SetParent(y.tree, n, p, k)
      BY <1>2, <3>1, AttachIs DEF p
    <3> QED BY <1>14, <3>1, <3>2 DEF IsRunning
  <2>5. u.m \in Machines /\ IsRunning(u.m) /\ u.m.tree = h
    BY <1>4, <1>7, <2>3, <2>4
  <2>6. /\ r.op = TakenBack(q, y.tree.parent[q.item])
        /\ IsRunning(u.m) => IsRunning(r.m) /\ r.m.tree = u.m.tree
    BY <1>7, <1>14, <2>1, <2>2, <2>3, UninsertIs
  <2>7. TakenBack(q, None) = q
    <3>1. [q EXCEPT !.after = q.after] = q
      BY <1>7 DEF Ops, OpsWith
    <3> QED BY <1>7, <3>1 DEF TakenBack
  <2>8. y.tree.parent[q.item] = None
    BY <1>7, <1>10, <1>14
  <2>9. TakingBack[q][y] = r
    BY <1>1, <1>7, <1>14, <2>1
  <2> QED BY <2>5, <2>6, <2>7, <2>8, <2>9
<1>15. \A c \in Item \ {op.item} : h.parent[c] = None => g.parent[c] = None
  BY <1>4, <1>8, <1>9 DEF Hierarchies, n
<1>16. Leads(Doing, op, q, h, g) /\ Leads(Doing, q, q, h, g) /\ Leads(TakingBack, q, q, g, h)
  BY <1>12, <1>14 DEF Leads
<1>17. Links(op, q, h, g)
  BY <1>7, <1>9, <1>15, <1>16 DEF Links
<1> QED BY <1>17 DEF h
\* Undoing no parts at all.
LEMMA NoPartsUndone ==
  ASSUME NEW x \in Machines, IsRunning(x), NEW r, r = InReverse(UndoParentChange, <<>>, x)
  PROVE  IsRunning(r.m) /\ r.m.tree = x.tree
<1>1. <<>> \in Seq(Moves) /\ Len(<<>>) = 0 /\ \A k \in 1 .. Len(<<>>) : FALSE
  OBVIOUS
<1>2. PICK e \in Seq(Moves) : e = <<>>
  BY <1>1
<1>3. PICK ts : ts = [k \in 0 .. 0 |-> x.tree]
  OBVIOUS
<1>4. Reverse(e) \in Seq(Moves) /\ x.tree = ts[Len(e)] /\ ts[0] = x.tree
  BY <1>1, <1>2, <1>3, ReverseIs
<1>5. PICK u : u = InOrder(UndoParentChange, Reverse(e), x)
  OBVIOUS
<1>6. Runs(Moves, Machines, MovingBack, Reverse(e), x, u)
  BY <1>4, <1>5, MovingBackRuns
<1>7. LeadsBack(MovingBack, e, ts)
  BY <1>1, <1>2 DEF LeadsBack
<1>8. MovingBack \in [Moves -> [Machines -> Results(Moves, Machines)]]
  BY MovingType
<1>9. IsRunning(u.m) /\ u.m.tree = ts[0]
  BY <1>4, <1>6, <1>7, <1>8, RunsBack
<1>10. r.m = u.m
  BY <1>2, <1>5 DEF InReverse
<1> QED BY <1>4, <1>9, <1>10

\* An insertion of an item that was nowhere leads there and back.
LEMMA InsertLinks ==
  ASSUME NEW op \in Ops, op.kind = "insert", op.before = None, op.moved = <<>>,
         NEW x \in Machines, IsRunning(x), x.tree.parent[op.item] = None,
         IsRunning(Doing[op][x].m)
  PROVE  \E q, g : Links(op, q, x.tree, g)
<1> USE NoneAssumption
<1> DEFINE h == x.tree
           n == op.item
           p == op.after
<1>1. ASSUME NEW o \in Ops, o.kind = "insert", NEW y \in Machines, IsRunning(y)
      PROVE  Doing[o][y] = ExecuteInsert(o, y) /\ TakingBack[o][y] = UndoInsertRemove(o, y)
  BY <1>1 DEF Doing, TakingBack, ExecuteOne, UndoOne
<1>2. Tree(h) /\ h \in Hierarchies /\ n \in Item /\ p \in Item \cup {None}
  BY OpParts DEF Machines, Tree, Ops
<1>3. ~CreatesCycle(h, n, p)
  <2>1. PICK r : r = ExecuteInsert(op, x)
    OBVIOUS
  <2>2. IsRunning(r.m)
    BY <1>1, <2>1
  <2> QED BY <2>1, <2>2, InsertIs
<1>4. PICK q : q = [op EXCEPT !.index = 0]
  OBVIOUS
<1>5. PICK g : g = SetParent(h, n, p, 0)
  OBVIOUS
<1>6. /\ q \in Ops /\ SameFor(q, op) /\ q.kind = "insert" /\ q.item = n /\ q.after = p
      /\ q.before = None /\ q.index = 0 /\ q.moved = <<>> /\ [q EXCEPT !.index = 0] = q
  BY <1>4 DEF SameFor, Ops, OpsWith, n, p
<1>7. h.parent[n] = None
  OBVIOUS
<1> HIDE DEF h, n, p
<1>8. Tree(g) /\ g \in Trees /\ g.parent = [h.parent EXCEPT ![n] = p]
  <2>1. p \notin Subtree(h, n)
    BY <1>2, <1>3, SubtreeLeast DEF CreatesCycle
  <2>2. Tree(g) /\ g.parent = [h.parent EXCEPT ![n] = p]
    BY <1>2, <1>5, <2>1, SetParentTree
  <2> QED BY <2>2 DEF Trees, Tree
<1>9. SetParent(g, n, None, 0) = h
  <2>1. CASE p = None
    <3>1. g = h
      BY <1>5, <1>7, <2>1 DEF SetParent
    <3> QED BY <1>7, <3>1 DEF SetParent
  <2>2. CASE p # None
    <3>1. SetParent(SetParent(h, n, p, 0), n, h.parent[n], IndexInParent(h, n)) = h
      BY <1>2, <1>3, <1>7, <2>2, SetParentUndone
    <3>2. IndexInParent(h, n) = 0
      BY <1>7 DEF IndexInParent
    <3> QED BY <1>5, <1>7, <3>1, <3>2
  <2> QED BY <2>1, <2>2
<1>10. ASSUME NEW o \in Ops, o.kind = "insert", o.item = n, o.after = p,
              [o EXCEPT !.index = 0] = q, NEW y \in Machines, IsRunning(y), y.tree = h
       PROVE  Doing[o][y].op = q /\ IsRunning(Doing[o][y].m) /\ Doing[o][y].m.tree = g
  <2>1. PICK r : r = ExecuteInsert(o, y)
    OBVIOUS
  <2>2. IsRunning(y) /\ ~CreatesCycle(y.tree, o.item, o.after)
    BY <1>3, <1>10
  <2>3. /\ r.op = [o EXCEPT !.index = 0] /\ IsRunning(r.m)
        /\ r.m.tree = SetParent(y.tree, o.item, o.after, 0)
    BY <2>1, <2>2, InsertIs
  <2>4. Doing[o][y] = r
    BY <1>1, <1>10, <2>1
  <2> QED BY <1>5, <1>10, <2>3, <2>4
<1>11. ASSUME NEW y \in Machines, IsRunning(y), y.tree = h
       PROVE  /\ Doing[op][y].op = q /\ IsRunning(Doing[op][y].m) /\ Doing[op][y].m.tree = g
              /\ Doing[q][y].op = q /\ IsRunning(Doing[q][y].m) /\ Doing[q][y].m.tree = g
  <2>1. op.item = n /\ op.after = p
    BY DEF n, p
  <2> QED BY <1>4, <1>6, <1>10, <1>11, <2>1
<1>12. ASSUME NEW y \in Machines, IsRunning(y), y.tree = g
       PROVE  /\ TakingBack[q][y].op = q
              /\ IsRunning(TakingBack[q][y].m) /\ TakingBack[q][y].m.tree = h
  <2>1. PICK r : r = UndoInsertRemove(q, y)
    OBVIOUS
  <2>2. PICK a : a = Attach(y, q.item, q.before, q.index)
    OBVIOUS
  <2>3. PICK u : u = InReverse(UndoParentChange, q.moved, a)
    OBVIOUS
  <2>4. a \in Machines /\ IsRunning(a) /\ a.tree = h
    <3>1. /\ a = Attach(y, n, None, 0) /\ ~CreatesCycle(y.tree, n, None)
          /\ SetParent(y.tree, n, None, 0) = h
      <4>1. a = Attach(y, n, None, 0)
        BY <1>6, <2>2
      <4>2. ~CreatesCycle(y.tree, n, None)
        BY DEF CreatesCycle
      <4> QED BY <1>9, <1>12, <4>1, <4>2
    <3>2. a \in Machines /\ a.status = y.status /\ a.tree = SetParent(y.tree, n, None, 0)
      <4>1. LET z == Attach(y, n, None, 0)
            IN  z \in Machines /\ (~CreatesCycle(y.tree, n, None) =>
                  z.status = y.status /\ z.tree = SetParent(y.tree, n, None, 0))
        BY <1>2, AttachIs
      <4> QED BY <3>1, <4>1
    <3> QED BY <1>12, <3>1, <3>2 DEF IsRunning
  <2>5. IsRunning(u.m) /\ u.m.tree = h
    BY <1>6, <2>3, <2>4, NoPartsUndone
  <2>6. /\ r.op = TakenBack(q, y.tree.parent[q.item])
        /\ IsRunning(u.m) => IsRunning(r.m) /\ r.m.tree = u.m.tree
    BY <1>6, <1>12, <2>1, <2>2, <2>3, UninsertIs
  <2>7. r.op = q
    BY <1>6, <2>6 DEF TakenBack
  <2>8. TakingBack[q][y] = r
    BY <1>1, <1>6, <1>12, <2>1
  <2> QED BY <2>5, <2>6, <2>7, <2>8
<1>13. \A c \in Item \ {op.item} : h.parent[c] = None => g.parent[c] = None
  BY <1>2, <1>8 DEF Hierarchies, n
<1>14. Leads(Doing, op, q, h, g) /\ Leads(Doing, q, q, h, g) /\ Leads(TakingBack, q, q, g, h)
  BY <1>11, <1>12 DEF Leads
<1>15. Links(op, q, h, g)
  BY <1>6, <1>8, <1>13, <1>14 DEF Links
<1> QED BY <1>15 DEF h

\* So every operation leads there and back, and stays as execution left it.
LEMMA AnyLinks ==
  ASSUME NEW op \in Ops, Sound(op), NEW x \in Machines, IsRunning(x),
         op.kind = "insert" => x.tree.parent[op.item] = None,
         IsRunning(Doing[op][x].m)
  PROVE  Links(op, Doing[op][x].op, x.tree, Doing[op][x].m.tree)
<1>1. op.kind \in {"parent_change", "reposition", "insert", "remove"}
  BY OpParts DEF Ops
<1>2. PICK q, g : Links(op, q, x.tree, g)
  BY <1>1, ChangeLinks, RepositionLinks, InsertLinks, RemoveLinks DEF Sound
<1>3. q = Doing[op][x].op /\ g = Doing[op][x].m.tree
  BY <1>2 DEF Links, Leads
<1> QED BY <1>2, <1>3
-----------------------------------------------------------------------------
(***************************************************************************)
(* Compound operations.                                                    *)
(***************************************************************************)
Compounds == Seq(Ops)

\* What a compound operation is about stays.
Alike(ops, qs) ==
  /\ Len(qs) = Len(ops)
  /\ \A k \in 1 .. Len(ops) :
       SameFor(qs[k], ops[k]) /\ (Sound(ops[k]) => Sound(qs[k]))

\* The selections that it puts back are of items in P.
SelectsIn(ops, P) ==
  \A k \in 1 .. Len(ops) :
     ToSet(ops[k].selBefore) \subseteq P /\ ToSet(ops[k].selAfter) \subseteq P

\* What Execute makes of a compound operation and of the machine.
LEMMA ExecuteIs ==
  ASSUME NEW ops \in Compounds, NEW x \in Machines, NEW r, r = Execute(ops, x)
  PROVE  /\ r.ops \in Compounds /\ r.m \in Machines /\ Alike(ops, r.ops)
         /\ \A P : ToSet(x.selection) \subseteq P /\ SelectsIn(ops, P)
                   => ToSet(r.m.selection) \subseteq P
         /\ ~IsRunning(x) => r.m = x
<1>1. Runs(Ops, Machines, Doing, ops, x, r)
  BY DoingRuns DEF Execute, Compounds
<1>2. Doing \in [Ops -> [Machines -> Results(Ops, Machines)]] /\ ops \in Seq(Ops)
  BY DoingType DEF Compounds
<1>3. ASSUME NEW op \in Ops, NEW y \in Machines
      PROVE  /\ Doing[op][y].op \in Ops /\ SameFor(Doing[op][y].op, op)
             /\ Sound(op) => Sound(Doing[op][y].op)
             /\ Doing[op][y].m \in Machines
             /\ Doing[op][y].m.selection \in {y.selection, op.selAfter}
             /\ ~IsRunning(y) => Doing[op][y].m = y
  <2>1. CASE IsRunning(y)
    <3>1. PICK e : e = ExecuteOne(op, y)
      OBVIOUS
    <3>2. Doing[op][y] = e
      BY <2>1, <3>1 DEF Doing
    <3>3. e \in Results(Ops, Machines) /\ SameFor(e.op, op) /\ (Sound(op) => Sound(e.op))
          /\ e.m.selection \in {y.selection, op.selAfter}
      BY <2>1, <3>1, OneIs
    <3>4. e.op \in Ops /\ e.m \in Machines
      BY <3>3 DEF Results
    <3> QED BY <2>1, <3>2, <3>3, <3>4
  <2>2. CASE ~IsRunning(y)
    <3>1. Doing[op][y] = [op |-> op, m |-> y]
      BY <2>2 DEF Doing
    <3> QED BY <3>1 DEF SameFor
  <2> QED BY <2>1, <2>2
<1>4. \A k \in 1 .. Len(ops) : ops[k] \in Ops
  BY <1>2
<1>5. /\ r.ops \in Seq(Ops) /\ r.m \in Machines /\ Len(r.ops) = Len(ops)
  <2>1. StaysIn(Doing, ops, Machines)
    BY <1>3, <1>4 DEF StaysIn
  <2>2. r \in [ops : Seq(Ops), m : Machines] /\ Len(r.ops) = Len(ops)
    BY <1>1, <1>2, <2>1, RunsStay
  <2> QED BY <2>2
<1>6. Alike(ops, r.ops)
  <2> DEFINE R == {w \in Ops \X Ops : SameFor(w[2], w[1]) /\ (Sound(w[1]) => Sound(w[2]))}
  <2>1. ASSUME NEW k \in 1 .. Len(ops), NEW y \in Machines
        PROVE  <<ops[k], ops[k]>> \in R /\ <<ops[k], Doing[ops[k]][y].op>> \in R
    <3>1. ops[k] \in Ops /\ Doing[ops[k]][y].op \in Ops
      BY <1>3, <1>4
    <3>2. SameFor(ops[k], ops[k])
      BY DEF SameFor
    <3>3. /\ SameFor(Doing[ops[k]][y].op, ops[k])
          /\ Sound(ops[k]) => Sound(Doing[ops[k]][y].op)
      BY <1>3, <3>1
    <3> QED BY <3>1, <3>2, <3>3
  <2> HIDE DEF R
  <2>2. KeepsTo(Doing, ops, R)
    BY <2>1 DEF KeepsTo
  <2>3. \A k \in 1 .. Len(ops) : <<ops[k], r.ops[k]>> \in R
    BY <1>1, <1>2, <2>2, RunsKeep
  <2>4. ASSUME NEW k \in 1 .. Len(ops)
        PROVE  SameFor(r.ops[k], ops[k]) /\ (Sound(ops[k]) => Sound(r.ops[k]))
    <3>1. <<ops[k], r.ops[k]>> \in R
      BY <2>3
    <3> QED BY <3>1 DEF R
  <2> QED BY <1>5, <2>4 DEF Alike
<1>7. ASSUME NEW P, ToSet(x.selection) \subseteq P, SelectsIn(ops, P)
      PROVE  ToSet(r.m.selection) \subseteq P
  <2> DEFINE G == {y \in Machines : ToSet(y.selection) \subseteq P}
  <2>1. ASSUME NEW k \in 1 .. Len(ops), NEW y \in Machines \cap G
        PROVE  Doing[ops[k]][y].m \in G
    <3>1. /\ Doing[ops[k]][y].m \in Machines
          /\ Doing[ops[k]][y].m.selection \in {y.selection, ops[k].selAfter}
      BY <1>3, <1>4
    <3>2. ToSet(y.selection) \subseteq P /\ ToSet(ops[k].selAfter) \subseteq P
      BY <1>7 DEF SelectsIn
    <3> QED BY <3>1, <3>2
  <2>2. x \in G
    BY <1>7
  <2> HIDE DEF G
  <2>3. StaysIn(Doing, ops, G)
    BY <2>1 DEF StaysIn
  <2>4. r.m \in G
    BY <1>1, <1>2, <2>2, <2>3, RunsStay
  <2> QED BY <2>4 DEF G
<1>8. ASSUME ~IsRunning(x) PROVE r.m = x
  <2>1. ASSUME NEW k \in 1 .. Len(ops), NEW y \in Machines \cap {x} PROVE Doing[ops[k]][y].m \in {x}
    BY <1>3, <1>4, <1>8
  <2>2. StaysIn(Doing, ops, {x})
    BY <2>1 DEF StaysIn
  <2>3. r.m \in {x}
    BY <1>1, <1>2, <2>2, RunsStay
  <2> QED BY <2>3
<1> QED BY <1>5, <1>6, <1>7, <1>8 DEF Compounds

\* What Undo makes of a compound operation and of the machine.
LEMMA UndoIs ==
  ASSUME NEW ops \in Compounds, NEW x \in Machines, NEW r, r = Undo(ops, x)
  PROVE  /\ r.ops \in Compounds /\ r.m \in Machines
         /\ \A P : ToSet(x.selection) \subseteq P /\ SelectsIn(ops, P)
                   => ToSet(r.m.selection) \subseteq P
<1> DEFINE rs == Reverse(ops)
<1>0. /\ rs \in Seq(Ops) /\ Len(rs) = Len(ops) /\ ops \in Seq(Ops) /\ Len(ops) \in Nat
      /\ \A k \in 1 .. Len(ops) : rs[k] = ops[Len(ops) - k + 1]
  BY ReverseIs DEF Compounds
<1> HIDE DEF rs
<1>1. PICK e : e = InOrder(UndoOne, rs, x)
  OBVIOUS
<1>2. Runs(Ops, Machines, TakingBack, rs, x, e)
  BY <1>0, <1>1, TakingBackRuns
<1>3. TakingBack \in [Ops -> [Machines -> Results(Ops, Machines)]]
  BY DoingType
<1>4. ASSUME NEW op \in Ops, NEW y \in Machines
      PROVE  /\ TakingBack[op][y].m \in Machines
             /\ TakingBack[op][y].m.selection \in {y.selection, op.selBefore}
  <2>1. CASE IsRunning(y)
    <3>1. PICK u : u = UndoOne(op, y)
      OBVIOUS
    <3>2. TakingBack[op][y] = u
      BY <2>1, <3>1 DEF TakingBack
    <3>3. u \in Results(Ops, Machines) /\ u.m.selection \in {y.selection, op.selBefore}
      BY <2>1, <3>1, OneUndoneIs
    <3>4. u.m \in Machines
      BY <3>3 DEF Results
    <3> QED BY <3>2, <3>3, <3>4
  <2>2. CASE ~IsRunning(y)
    <3>1. TakingBack[op][y] = [op |-> op, m |-> y]
      BY <2>2 DEF TakingBack
    <3> QED BY <3>1
  <2> QED BY <2>1, <2>2
<1>5. e.ops \in Seq(Ops) /\ e.m \in Machines
  <2>1. StaysIn(TakingBack, rs, Machines)
    BY <1>0, <1>4 DEF StaysIn
  <2>2. e \in [ops : Seq(Ops), m : Machines]
    BY <1>0, <1>2, <1>3, <2>1, RunsStay
  <2> QED BY <2>2
<1>6. ASSUME NEW P, ToSet(x.selection) \subseteq P, SelectsIn(ops, P)
      PROVE  ToSet(e.m.selection) \subseteq P
  <2> DEFINE G == {y \in Machines : ToSet(y.selection) \subseteq P}
  <2>1. ASSUME NEW k \in 1 .. Len(rs), NEW y \in Machines \cap G
        PROVE  TakingBack[rs[k]][y].m \in G
    <3>1. /\ TakingBack[rs[k]][y].m \in Machines
          /\ TakingBack[rs[k]][y].m.selection \in {y.selection, rs[k].selBefore}
      BY <1>0, <1>4
    <3>2. Len(ops) - k + 1 \in 1 .. Len(ops) /\ rs[k] = ops[Len(ops) - k + 1]
      BY <1>0
    <3>3. ToSet(y.selection) \subseteq P /\ ToSet(rs[k].selBefore) \subseteq P
      BY <1>6, <3>2 DEF SelectsIn
    <3> QED BY <3>1, <3>3
  <2>2. x \in G
    BY <1>6
  <2> HIDE DEF G
  <2>3. StaysIn(TakingBack, rs, G)
    BY <2>1 DEF StaysIn
  <2>4. e.m \in G
    BY <1>0, <1>2, <1>3, <2>2, <2>3, RunsStay
  <2> QED BY <2>4 DEF G
<1>7. r.m = e.m /\ r.ops = Reverse(e.ops)
  BY <1>1 DEF Undo, InReverse, rs
<1>8. Reverse(e.ops) \in Compounds
  BY <1>5, ReverseIs DEF Compounds
<1> QED BY <1>5, <1>6, <1>7, <1>8
\* The list leads from h to g, whatever is selected, and back when it is undone.
Follows(ops, h, g) ==
  /\ \A y \in Machines : IsRunning(y) /\ y.tree = h =>
       LET r == Execute(ops, y)
       IN  r.ops = ops /\ r.m \in Machines /\ IsRunning(r.m) /\ r.m.tree = g
  /\ \A y \in Machines : IsRunning(y) /\ y.tree = g =>
       LET r == Undo(ops, y)
       IN  r.ops = ops /\ r.m \in Machines /\ IsRunning(r.m) /\ r.m.tree = h

\* What is to be inserted is in no tree, and nothing else is done with it.
InsertsFresh(ops, h) ==
  \A k \in 1 .. Len(ops) : ops[k].kind = "insert" =>
    /\ h.parent[ops[k].item] = None
    /\ \A j \in 1 .. Len(ops) : j # k => ops[j].item # ops[k].item

(***************************************************************************)
(* A compound operation that has been executed leads back to the tree it   *)
(* was executed in, and from there to where it led.                        *)
(***************************************************************************)
THEOREM ExecuteFollows ==
  ASSUME NEW ops \in Compounds, NEW x \in Machines, IsRunning(x), NEW r, r = Execute(ops, x),
         IsRunning(r.m), \A k \in 1 .. Len(ops) : Sound(ops[k]), InsertsFresh(ops, x.tree)
  PROVE  /\ Follows(r.ops, x.tree, r.m.tree)
         /\ \A c \in Item :
              x.tree.parent[c] = None /\ (\A k \in 1 .. Len(ops) : ops[k].item # c)
              => r.m.tree.parent[c] = None
<1> DEFINE n == Len(ops)
<1>1. PICK os \in Seq(Ops), ms \in [0 .. Len(ops) -> Machines] :
        /\ Len(os) = Len(ops) /\ ms[0] = x /\ Chain(Doing, ops, os, ms)
        /\ r = [ops |-> os, m |-> ms[Len(ops)]]
  <2>1. Runs(Ops, Machines, Doing, ops, x, r)
    BY DoingRuns DEF Execute, Compounds
  <2> QED BY <2>1 DEF Runs
<1>2. n \in Nat /\ \A k \in 1 .. n : ops[k] \in Ops
  BY DEF Compounds
<1>3. \A k \in 0 .. n : IsRunning(ms[k])
  <2>1. IsRunning(ms[Len(ops)])
    BY <1>1
  <2> QED BY <1>1, <2>1, ChainRan DEF Compounds
<1> DEFINE ts == [k \in 0 .. n |-> ms[k].tree]
           Kept(k) == \A c \in Item :
              x.tree.parent[c] = None /\ (\A i \in 1 .. n : i <= k => ops[i].item # c)
              => ts[k].parent[c] = None
           T == {k \in 0 .. n : Kept(k)}
<1>4. /\ ts[0] = x.tree /\ ts[n] = r.m.tree
      /\ \A k \in 0 .. n : ts[k] = ms[k].tree /\ ms[k] \in Machines
  BY <1>1, <1>2
<1> HIDE DEF ts
<1>5. ASSUME NEW k \in 1 .. n, k - 1 \in T
      PROVE  Links(ops[k], os[k], ts[k - 1], ts[k]) /\ Kept(k)
  <2>1. k - 1 \in 0 .. n /\ k \in 0 .. n /\ ~(k <= k - 1)
    BY <1>2
  <2>2. PICK y : y = ms[k - 1]
    OBVIOUS
  <2>3. /\ y \in Machines /\ IsRunning(y) /\ y.tree = ts[k - 1] /\ IsRunning(ms[k])
        /\ ts[k] = ms[k].tree
    BY <1>3, <1>4, <2>1, <2>2
  <2>4. os[k] = Doing[ops[k]][y].op /\ ms[k] = Doing[ops[k]][y].m
    BY <1>1, <2>2, <2>3 DEF Chain, IsRunning
  <2>5. Kept(k - 1)
    BY <1>5
  <2>6. ops[k].kind = "insert" => y.tree.parent[ops[k].item] = None
    <3>1. ASSUME ops[k].kind = "insert" PROVE ts[k - 1].parent[ops[k].item] = None
      <4>1. /\ x.tree.parent[ops[k].item] = None
            /\ \A j \in 1 .. n : j # k => ops[j].item # ops[k].item
        BY <3>1 DEF InsertsFresh
      <4>2. \A i \in 1 .. n : i <= k - 1 => i # k
        BY <1>2, <2>1
      <4>3. ops[k].item \in Item
        BY <1>2, OpParts DEF Ops
      <4> QED BY <2>5, <4>1, <4>2, <4>3
    <3> QED BY <2>3, <3>1
  <2>7. Links(ops[k], os[k], ts[k - 1], ts[k])
    <3>1. ops[k] \in Ops /\ Sound(ops[k])
      BY <1>2
    <3>2. IsRunning(Doing[ops[k]][y].m)
      BY <2>3, <2>4
    <3>3. Links(ops[k], Doing[ops[k]][y].op, y.tree, Doing[ops[k]][y].m.tree)
      BY <2>3, <2>6, <3>1, <3>2, AnyLinks
    <3> QED BY <2>3, <2>4, <3>3
  <2>8. ASSUME NEW c \in Item, x.tree.parent[c] = None,
               \A i \in 1 .. n : i <= k => ops[i].item # c
        PROVE  ts[k].parent[c] = None
    <3>1. \A i \in 1 .. n : i <= k - 1 => i <= k
      BY <1>2
    <3>2. k <= k /\ ops[k].item # c
      BY <1>2, <2>8
    <3>3. ts[k - 1].parent[c] = None
      BY <2>5, <2>8, <3>1
    <3> QED BY <2>7, <3>2, <3>3 DEF Links
  <2> QED BY <2>7, <2>8
<1>6. 0 .. n \subseteq T
  <2>1. 0 \in T
    <3>1. 0 \in 0 .. n /\ Kept(0)
      BY <1>2, <1>4
    <3> QED BY <3>1
  <2>2. ASSUME NEW k \in 0 .. n - 1, k \in T PROVE k + 1 \in T
    <3>1. k + 1 \in 1 .. n /\ k + 1 \in 0 .. n /\ (k + 1) - 1 = k
      BY <1>2
    <3>2. Kept(k + 1)
      <4> HIDE DEF T, Kept, n
      <4> QED BY <1>5, <2>2, <3>1
    <3> QED BY <3>1, <3>2
  <2> HIDE DEF T, n
  <2> QED BY <1>2, <2>1, <2>2, CountingUp
<1>7. ASSUME NEW k \in 1 .. n PROVE Links(ops[k], os[k], ts[k - 1], ts[k])
  <2>1. k - 1 \in 0 .. n
    BY <1>2
  <2>2. k - 1 \in T
    <3> HIDE DEF T
    <3> QED BY <1>6, <2>1
  <2> HIDE DEF T
  <2> QED BY <1>5, <2>2
<1>8. n \in T
  <2>1. n \in 0 .. n
    BY <1>2
  <2> HIDE DEF T
  <2> QED BY <1>6, <2>1
<1>9. Kept(n) /\ \A i \in 1 .. n : i <= n
  BY <1>2, <1>8
<1>10. LeadsAlong(Doing, os, os, ts) /\ LeadsBack(TakingBack, os, ts)
  BY <1>1, <1>7 DEF Links, LeadsAlong, LeadsBack
<1>11. /\ Doing \in [Ops -> [Machines -> Results(Ops, Machines)]]
       /\ TakingBack \in [Ops -> [Machines -> Results(Ops, Machines)]]
  BY DoingType
<1>12. ASSUME NEW y \in Machines, IsRunning(y), y.tree = x.tree,
              NEW e, e = Execute(os, y)
       PROVE  e.ops = os /\ e.m \in Machines /\ IsRunning(e.m) /\ e.m.tree = r.m.tree
  <2>1. Runs(Ops, Machines, Doing, os, y, e)
    BY <1>12, DoingRuns DEF Execute
  <2>2. y.tree = ts[0] /\ Len(os) = n
    BY <1>1, <1>4, <1>12
  <2>3. e = [ops |-> os, m |-> e.m] /\ e.m \in Machines /\ IsRunning(e.m) /\ e.m.tree = ts[Len(os)]
    BY <1>10, <1>11, <1>12, <2>1, <2>2, RunsLead
  <2> QED BY <1>4, <2>2, <2>3
<1>13. ASSUME NEW y \in Machines, IsRunning(y), y.tree = r.m.tree,
              NEW u, u = Undo(os, y)
       PROVE  u.ops = os /\ u.m \in Machines /\ IsRunning(u.m) /\ u.m.tree = x.tree
  <2>1. PICK e : e = InOrder(UndoOne, Reverse(os), y)
    OBVIOUS
  <2>2. Runs(Ops, Machines, TakingBack, Reverse(os), y, e)
    <3>1. Reverse(os) \in Seq(Ops)
      BY ReverseIs
    <3> QED BY <2>1, <3>1, TakingBackRuns
  <2>3. y.tree = ts[Len(os)]
    BY <1>1, <1>4, <1>13
  <2>4. Reverse(e.ops) = os /\ e.m \in Machines /\ IsRunning(e.m) /\ e.m.tree = ts[0]
    BY <1>10, <1>11, <1>13, <2>2, <2>3, RunsBack
  <2>5. u.ops = Reverse(e.ops) /\ u.m = e.m
    BY <1>13, <2>1 DEF Undo, InReverse
  <2> QED BY <1>4, <2>4, <2>5
<1>14. r.ops = os
  BY <1>1
<1>15. Follows(os, x.tree, r.m.tree)
  BY <1>12, <1>13 DEF Follows
<1>16. ASSUME NEW c \in Item, x.tree.parent[c] = None, \A k \in 1 .. n : ops[k].item # c
       PROVE  r.m.tree.parent[c] = None
  BY <1>4, <1>9, <1>16
<1> QED BY <1>14, <1>15, <1>16
-----------------------------------------------------------------------------
(***************************************************************************)
(* Update: everything that is queued, one compound operation after another.*)
(***************************************************************************)
Batch == [m : Machines, done : Seq(Compounds), trees : Seq(Trees)]

\* What Update makes of one more compound operation.
NextBatch(ops, r) ==
  [m     |-> Execute(ops, r.m).m,
   done  |-> Append(r.done, Execute(ops, r.m).ops),
   trees |-> Append(r.trees, r.m.tree)]

\* run[k] is what there is after the first k of them.
Batches(run) ==
  /\ run[0] = [m |-> m, done |-> <<>>, trees |-> <<>>]
  /\ \A k \in 1 .. Len(queued) : run[k] = NextBatch(queued[k], run[k - 1])

\* One more compound operation.
LEMMA NextBatchIs ==
  ASSUME NEW ops \in Compounds, NEW r \in Batch
  PROVE  /\ NextBatch(ops, r) \in Batch
         /\ NextBatch(ops, r).m = Execute(ops, r.m).m
         /\ NextBatch(ops, r).done = Append(r.done, Execute(ops, r.m).ops)
         /\ NextBatch(ops, r).trees = Append(r.trees, r.m.tree)
<1>1. r.m \in Machines /\ r.done \in Seq(Compounds) /\ r.trees \in Seq(Trees)
  BY DEF Batch
<1>2. PICK e : e = Execute(ops, r.m)
  OBVIOUS
<1>3. e.m \in Machines /\ e.ops \in Compounds
  BY <1>1, <1>2, ExecuteIs
<1>4. r.m.tree \in Trees
  BY <1>1 DEF Machines, Trees, Tree
<1>5. Append(r.done, e.ops) \in Seq(Compounds) /\ Append(r.trees, r.m.tree) \in Seq(Trees)
  BY <1>1, <1>3, <1>4
<1>6. NextBatch(ops, r) = [m |-> e.m, done |-> Append(r.done, e.ops),
                           trees |-> Append(r.trees, r.m.tree)]
  BY <1>2 DEF NextBatch
<1> QED BY <1>2, <1>3, <1>5, <1>6 DEF Batch

\* Executed is the last of such a run.
LEMMA ExecutedRuns ==
  ASSUME m \in Machines, queued \in Seq(Compounds)
  PROVE  \E run \in [0 .. Len(queued) -> Batch] : Batches(run) /\ Executed = run[Len(queued)]
<1> DEFINE n == Len(queued)
           base == [m |-> m, done |-> <<>>, trees |-> <<>>]
           step == [k \in 1 .. n |-> [r \in Batch |-> NextBatch(queued[k], r)]]
           Iterates(f) ==
             f = [D \in SUBSET DOMAIN queued |->
                    IF D = {} THEN base
                    ELSE NextBatch(queued[Max(D)], f[D \ {Max(D)}])]
           it == CHOOSE f : Iterates(f)
<1>1. n \in Nat /\ DOMAIN queued = 1 .. n /\ \A k \in 1 .. n : queued[k] \in Compounds
  OBVIOUS
<1>2. base \in Batch
  <2>1. PICK none : none = <<>>
    OBVIOUS
  <2>2. none \in Seq(Compounds) /\ none \in Seq(Trees)
    BY <2>1
  <2>3. base = [m |-> m, done |-> none, trees |-> none]
    BY <2>1
  <2> HIDE DEF base
  <2> QED BY <2>2, <2>3 DEF Batch
<1>3. step \in [1 .. n -> [Batch -> Batch]]
  BY <1>1, NextBatchIs
<1>4. Executed = it[1 .. n]
  BY <1>1 DEF Executed, FoldLeft, MapThenFoldSet, NextBatch
<1>5. \A D \in SUBSET (1 .. n) : D # {} => Max(D) \in 1 .. n
  BY <1>1, MaxOfSome
<1>6. PICK f \in [SUBSET (1 .. n) -> Batch] : Peels(n, base, step, f)
  <2> HIDE DEF step, n, base
  <2> QED BY <1>1, <1>2, <1>3, PeelingExists
<1>7. \A k \in 1 .. n : \A r \in Batch : step[k][r] = NextBatch(queued[k], r)
  OBVIOUS
<1>8. Iterates(f)
  <2>1. ASSUME NEW D \in SUBSET (1 .. n)
        PROVE  f[D] = IF D = {} THEN base ELSE NextBatch(queued[Max(D)], f[D \ {Max(D)}])
    <3>1. f[D] = IF D = {} THEN base ELSE step[Max(D)][f[D \ {Max(D)}]]
      BY <1>6 DEF Peels
    <3>2. f[D \ {Max(D)}] \in Batch
      BY <1>6
    <3> HIDE DEF step, n, base
    <3> QED BY <3>1, <3>2, <1>5, <1>7
  <2>2. f = [D \in SUBSET (1 .. n) |-> f[D]]
    BY <1>6
  <2> HIDE DEF step, n, base
  <2> QED BY <2>1, <2>2, <1>1
<1>9. \A D \in SUBSET (1 .. n) :
        it[D] = IF D = {} THEN base ELSE NextBatch(queued[Max(D)], it[D \ {Max(D)}])
  <2>1. Iterates(it)
    BY <1>8
  <2> HIDE DEF it, base
  <2> QED BY <2>1, <1>1
<1> HIDE DEF it, n, base
<1> DEFINE run == [k \in 0 .. n |-> it[1 .. k]]
<1>10. run[0] = base /\ run[n] = it[1 .. n]
  <2>1. 1 .. 0 = {} /\ {} \in SUBSET (1 .. n) /\ 0 \in 0 .. n /\ n \in 0 .. n
    BY <1>1
  <2> QED BY <2>1, <1>9
<1>11. ASSUME NEW k \in 1 .. n PROVE run[k] = NextBatch(queued[k], run[k - 1])
  <2>1. run[k] = it[1 .. k] /\ run[k - 1] = it[1 .. k - 1]
    BY <1>1
  <2>2. /\ 1 .. k \in SUBSET (1 .. n) /\ 1 .. k # {} /\ Max(1 .. k) = k
        /\ (1 .. k) \ {k} = 1 .. k - 1
    BY <1>1, PeelingCounts
  <2> HIDE DEF run, step
  <2>3. it[1 .. k] = NextBatch(queued[Max(1 .. k)], it[(1 .. k) \ {Max(1 .. k)}])
    BY <2>2, <1>9
  <2> QED BY <2>1, <2>2, <2>3
<1> HIDE DEF run
<1>12. \A k \in 0 .. n : run[k] \in Batch
  <2> DEFINE T == {k \in 0 .. n : run[k] \in Batch}
  <2>1. 0 \in T
    <3>1. 0 \in 0 .. n /\ run[0] \in Batch
      BY <1>1, <1>2, <1>10
    <3> QED BY <3>1
  <2>2. ASSUME NEW k \in 0 .. n - 1, k \in T PROVE k + 1 \in T
    <3>1. k + 1 \in 1 .. n /\ (k + 1) - 1 = k /\ k + 1 \in 0 .. n /\ run[k] \in Batch
          /\ queued[k + 1] \in Compounds
      BY <1>1, <2>2
    <3>2. run[k + 1] = NextBatch(queued[k + 1], run[k])
      BY <3>1, <1>11
    <3>3. run[k + 1] \in Batch
      BY <3>1, <3>2, NextBatchIs
    <3> QED BY <3>1, <3>3
  <2>3. 0 .. n \subseteq T
    <3> HIDE DEF T
    <3> QED BY <1>1, <2>1, <2>2, CountingUp
  <2> QED BY <2>3
<1>13. run \in [0 .. n -> Batch]
  BY <1>12 DEF run
<1>14. Batches(run)
  BY <1>10, <1>11 DEF Batches, n, base
<1> QED BY <1>4, <1>10, <1>13, <1>14 DEF n
-----------------------------------------------------------------------------
(***************************************************************************)
(* The line of the trees.  Undoing the last executed operation leads from  *)
(* the present tree to the last of before, and so on to the first; redoing *)
(* leads along after in the same way.                                      *)
(***************************************************************************)
Pasts   == {w \in Compounds \X Trees \X Trees : Follows(w[1], w[2], w[3])}
Futures == {w \in Compounds \X Trees \X Trees : Follows(w[1], w[3], w[2])}

\* The tree that comes after the i-th of ts, when h comes last.
Ahead(ts, i, h) == IF i < Len(ts) THEN ts[i + 1] ELSE h

\* Each operation of opss is related by R to its tree and the one after it.
Line(R, opss, ts, h) ==
  /\ opss \in Seq(Compounds) /\ ts \in Seq(Trees) /\ Len(ts) = Len(opss)
  /\ \A i \in 1 .. Len(opss) : <<opss[i], ts[i], Ahead(ts, i, h)>> \in R

\* The line is one operation longer ...
LEMMA LineGrows ==
  ASSUME NEW R, NEW opss, NEW ts, NEW h \in Trees, NEW g, NEW ops \in Compounds,
         Line(R, opss, ts, h), <<ops, h, g>> \in R
  PROVE  Line(R, Append(opss, ops), Append(ts, h), g)
<1> DEFINE n == Len(opss)
           os == Append(opss, ops)
           us == Append(ts, h)
<1>1. opss \in Seq(Compounds) /\ ts \in Seq(Trees) /\ Len(ts) = n /\ n \in Nat
  BY DEF Line
<1>2. /\ os \in Seq(Compounds) /\ Len(os) = n + 1 /\ os[n + 1] = ops
      /\ \A i \in 1 .. n : os[i] = opss[i]
  BY <1>1
<1>3. /\ us \in Seq(Trees) /\ Len(us) = n + 1 /\ us[n + 1] = h
      /\ \A i \in 1 .. n : us[i] = ts[i]
  BY <1>1
<1> HIDE DEF os, us
<1>4. ASSUME NEW i \in 1 .. n + 1 PROVE <<os[i], us[i], Ahead(us, i, g)>> \in R
  <2>1. CASE i = n + 1
    <3>1. Ahead(us, i, g) = g
      BY <1>1, <1>3, <2>1 DEF Ahead
    <3> QED BY <1>2, <1>3, <2>1, <3>1
  <2>2. CASE i # n + 1
    <3>1. i \in 1 .. n /\ i < n + 1
      BY <1>1, <2>2
    <3>2. Ahead(us, i, g) = us[i + 1]
      BY <1>3, <3>1 DEF Ahead
    <3>3. us[i + 1] = Ahead(ts, i, h)
      <4>1. CASE i = n
        BY <1>1, <1>3, <4>1 DEF Ahead
      <4>2. CASE i # n
        <5>1. i + 1 \in 1 .. n /\ i < Len(ts)
          BY <1>1, <3>1, <4>2
        <5> QED BY <1>3, <5>1 DEF Ahead
      <4> QED BY <4>1, <4>2
    <3>4. <<opss[i], ts[i], Ahead(ts, i, h)>> \in R
      BY <3>1 DEF Line
    <3> QED BY <1>2, <1>3, <3>1, <3>2, <3>3, <3>4
  <2> QED BY <2>1, <2>2
<1>5. Line(R, os, us, g)
  BY <1>2, <1>3, <1>4 DEF Line
<1> QED BY <1>5 DEF os, us

\* ... and one shorter.
LEMMA LineShrinks ==
  ASSUME NEW R, NEW opss, NEW ts, NEW h, Line(R, opss, ts, h), opss # <<>>
  PROVE  /\ Line(R, Front(opss), Front(ts), Last(ts))
         /\ <<Last(opss), Last(ts), h>> \in R
         /\ Last(opss) \in Compounds /\ Last(ts) \in Trees
         /\ Last(ts) = ts[Len(ts)] /\ Front(ts) = SubSeq(ts, 1, Len(ts) - 1)
<1> DEFINE n == Len(opss)
           os == Front(opss)
           us == Front(ts)
<1>1. /\ opss \in Seq(Compounds) /\ ts \in Seq(Trees) /\ Len(ts) = n /\ n \in Nat /\ n >= 1
      /\ opss[n] \in Compounds /\ ts[n] \in Trees
  <2>1. opss \in Seq(Compounds) /\ ts \in Seq(Trees) /\ Len(ts) = n
    BY DEF Line
  <2>2. n \in Nat /\ n # 0
    BY <2>1
  <2>3. n \in 1 .. n
    BY <2>2
  <2> QED BY <2>1, <2>2, <2>3
<1>2. /\ os \in Seq(Compounds) /\ Len(os) = n - 1 /\ \A i \in 1 .. n - 1 : os[i] = opss[i]
  BY <1>1 DEF Front
<1>3. /\ us \in Seq(Trees) /\ Len(us) = n - 1 /\ \A i \in 1 .. n - 1 : us[i] = ts[i]
  BY <1>1 DEF Front
<1>4. Last(opss) = opss[n] /\ Last(ts) = ts[n]
  BY <1>1 DEF Last
<1> HIDE DEF os, us
<1>5. ASSUME NEW i \in 1 .. n - 1 PROVE <<os[i], us[i], Ahead(us, i, ts[n])>> \in R
  <2>1. i \in 1 .. n /\ i < Len(ts)
    BY <1>1
  <2>2. Ahead(ts, i, h) = ts[i + 1]
    BY <2>1 DEF Ahead
  <2>3. Ahead(us, i, ts[n]) = ts[i + 1]
    <3>1. CASE i = n - 1
      <4>1. i + 1 = n /\ ~(i < Len(us))
        BY <1>1, <1>3, <3>1
      <4> QED BY <4>1 DEF Ahead
    <3>2. CASE i # n - 1
      <4>1. i + 1 \in 1 .. n - 1 /\ i < Len(us)
        BY <1>1, <1>3, <3>2
      <4> QED BY <1>3, <4>1 DEF Ahead
    <3> QED BY <3>1, <3>2
  <2>4. <<opss[i], ts[i], Ahead(ts, i, h)>> \in R
    BY <2>1 DEF Line
  <2> QED BY <1>2, <1>3, <2>2, <2>3, <2>4
<1>6. <<opss[n], ts[n], h>> \in R
  <2>1. n \in 1 .. n /\ ~(n < Len(ts))
    BY <1>1
  <2>2. Ahead(ts, n, h) = h
    BY <2>1 DEF Ahead
  <2> QED BY <2>1, <2>2 DEF Line
<1>7. Line(R, os, us, ts[n])
  BY <1>2, <1>3, <1>5 DEF Line
<1> QED BY <1>1, <1>4, <1>6, <1>7 DEF os, us, Front, Last
-----------------------------------------------------------------------------
(***************************************************************************)
(* The inductive invariant.  Undo and redo find the trees that the line    *)
(* leads to, so an operation must be able to lead back before it is put    *)
(* into the line: a queued insertion is of an item that is nowhere until   *)
(* then, of which no other queued operation is, and that no selection      *)
(* which an operation puts back can bring in.                              *)
(***************************************************************************)
Pending ==
  \A i \in 1 .. Len(queued) : \A k \in 1 .. Len(queued[i]) :
    /\ Sound(queued[i][k])
    /\ queued[i][k].item \in Fresh =>
         /\ queued[i][k].kind = "insert" /\ queued[i][k].item \in made
         /\ \A j \in 1 .. Len(queued) : \A l \in 1 .. Len(queued[j]) :
              queued[j][l].item = queued[i][k].item => j = i /\ l = k

\* No operation of the list puts back a selection with items outside P.
SelectsOnly(opss, P) == \A i \in 1 .. Len(opss) : SelectsIn(opss[i], P)

\* No operation that is kept puts back a selection with a fresh item.
SelectsOthers ==
  /\ SelectsOnly(queued, Item \ Fresh) /\ SelectsOnly(executed, Item \ Fresh)
  /\ SelectsOnly(undone, Item \ Fresh)

\* The types.
Typed ==
  /\ m \in Machines /\ queued \in Seq(Compounds) /\ clipboard \in Seq(Item)
  /\ made \subseteq Clones /\ given \in 0 .. MaxPerTick

\* All of it.
IInv ==
  /\ Typed
  /\ Line(Pasts, executed, before, m.tree) /\ Line(Futures, undone, after, m.tree)
  /\ Pending /\ SelectsOthers /\ InsertedOnce

\* The items of the insertions among the operations of a list of lists.
InsertedBy(opss) ==
  UNION {{ops[i].item : i \in {j \in DOMAIN ops : ops[j].kind = "insert"}} :
           ops \in ToSet(opss)}

\* One of the operations inserts c.
Inserts(ops, c) == \E k \in 1 .. Len(ops) : ops[k].kind = "insert" /\ ops[k].item = c

\* Who is among the inserted items.
LEMMA InsertedByIs ==
  ASSUME NEW opss \in Seq(Compounds)
  PROVE  /\ \A c : c \in InsertedBy(opss) <=> \E i \in 1 .. Len(opss) : Inserts(opss[i], c)
         /\ InsertedBy(opss) \subseteq Item
<1>1. DOMAIN opss = 1 .. Len(opss)
      /\ \A i \in 1 .. Len(opss) : /\ opss[i] \in Seq(Ops)
                                   /\ DOMAIN opss[i] = 1 .. Len(opss[i])
  BY DEF Compounds
<1>2. ASSUME NEW i \in 1 .. Len(opss), NEW k \in 1 .. Len(opss[i])
      PROVE  opss[i][k].item \in Item
  <2>1. opss[i][k] \in Ops
    BY <1>1
  <2> QED BY <2>1, OpParts DEF Ops
<1>3. ASSUME NEW c
      PROVE  c \in InsertedBy(opss) <=> \E i \in 1 .. Len(opss) : Inserts(opss[i], c)
  <2> DEFINE Of(ops) == {ops[k].item : k \in {j \in DOMAIN ops : ops[j].kind = "insert"}}
  <2>1. c \in InsertedBy(opss) <=> \E ops \in ToSet(opss) : c \in Of(ops)
    BY DEF InsertedBy
  <2>2. ToSet(opss) = {opss[i] : i \in 1 .. Len(opss)}
    BY <1>1 DEF ToSet
  <2>3. ASSUME NEW i \in 1 .. Len(opss)
        PROVE  c \in Of(opss[i]) <=> Inserts(opss[i], c)
    <3>1. c \in Of(opss[i])
          <=> \E k \in DOMAIN opss[i] : opss[i][k].kind = "insert" /\ opss[i][k].item = c
      OBVIOUS
    <3>2. DOMAIN opss[i] = 1 .. Len(opss[i])
      BY <1>1
    <3> QED BY <3>1, <3>2, Zenon DEF Inserts
  <2> HIDE DEF Of
  <2>4. c \in InsertedBy(opss) <=> \E i \in 1 .. Len(opss) : c \in Of(opss[i])
    BY <2>1, <2>2, Zenon
  <2> QED BY <2>3, <2>4, Zenon
<1> QED BY <1>2, <1>3 DEF Inserts

\* What is in the tree below an item has a parent.
LEMMA BelowHasParent ==
  ASSUME NEW h, Tree(h), NEW n \in Item, NEW y \in Subtree(h, n), y # n
  PROVE  y \in Item /\ h.parent[y] # None
<1> DEFINE S == {n} \cup {x \in Item : h.parent[x] # None}
<1>1. h \in Hierarchies /\ ParentHasChild(h) /\ None \notin Item
  BY NoneAssumption DEF Tree, WellFormed
<1>2. ASSUME NEW x \in Item, NEW z \in Children(h, x) PROVE z \in S
  <2>1. z \in Item
    BY <1>1, <1>2 DEF Children, Hierarchies
  <2>2. h.parent[z] = x
    BY <1>1, <1>2, <2>1 DEF ParentHasChild
  <2> QED BY <1>1, <2>1, <2>2
<1>3. n \in S /\ S \in SUBSET Item /\ ClosedIn(h, S)
  BY <1>2 DEF ClosedIn
<1> HIDE DEF S
<1>4. Subtree(h, n) \subseteq S /\ Subtree(h, n) \subseteq Item
  BY <1>1, <1>3, SubtreeLeast
<1> QED BY <1>4 DEF S

\* What the windows show and what is selected is not fresh, nor what is below it.
LEMMA OthersAre ==
  ASSUME IInv
  PROVE  /\ Shown \subseteq Item \ Fresh /\ Selected \subseteq Item \ Fresh
         /\ \A s \in Selected : Subtree(m.tree, s) \subseteq Item \ Fresh
         /\ Tree(m.tree) /\ m.tree \in Hierarchies /\ m.selection \in Seq(Item)
         /\ \A c \in Fresh : m.tree.parent[c] = None
<1>1. m \in Machines
  BY DEF IInv, Typed
<1>2. Tree(m.tree) /\ m.tree \in Hierarchies /\ m.selection \in Seq(Item)
  BY <1>1 DEF Machines
<1>3. \A c \in Fresh : c \notin Selected /\ m.tree.parent[c] = None
  BY DEF IInv, InsertedOnce
<1>4. Selected \subseteq Item
  BY <1>2 DEF Selected, ToSet
<1>5. ASSUME NEW n \in Item, NEW y \in Subtree(m.tree, n), y # n
      PROVE  y \in Item \ Fresh
  BY <1>2, <1>3, <1>5, BelowHasParent
<1>6. RootItem \in Item
  BY OperationStackAssumption
<1>7. Shown \subseteq Item \ Fresh
  BY <1>5, <1>6 DEF Shown
<1> QED BY <1>2, <1>3, <1>4, <1>5, <1>7
-----------------------------------------------------------------------------
(***************************************************************************)
(* The actions.  What leaves the stack as it is keeps the invariant.       *)
(***************************************************************************)
LEMMA IdleKeeps ==
  ASSUME IInv, Idle, m' \in Machines, m'.tree = m.tree,
         ToSet(m'.selection) \subseteq Item \ Fresh,
         clipboard' \in Seq(Item), made' = made
  PROVE  IInv'
<1>1. /\ queued' = queued /\ executed' = executed /\ undone' = undone /\ given' = given
      /\ before' = before /\ after' = after
  BY DEF Idle, history
<1>2. Awaited' = Awaited /\ Fresh' = Fresh
  BY <1>1 DEF Awaited, Fresh
<1>3. Typed'
  BY <1>1 DEF IInv, Typed
<1>4. /\ Line(Pasts, executed', before', m'.tree)
      /\ Line(Futures, undone', after', m'.tree)
  BY <1>1 DEF IInv
<1>5. Pending'
  BY <1>1, <1>2 DEF IInv, Pending
<1>6. SelectsOthers'
  BY <1>1, <1>2 DEF IInv, SelectsOthers
<1>7. InsertedOnce'
  <2>1. Selected' = ToSet(m'.selection)
    BY DEF Selected
  <2>2. Selected' \cap Fresh' = {}
    BY <1>2, <2>1
  <2>3. \A c \in Fresh : \A h \in {m.tree} \cup ToSet(before) \cup ToSet(after) : h.parent[c] = None
    BY DEF IInv, InsertedOnce
  <2> QED BY <1>1, <1>2, <2>2, <2>3 DEF InsertedOnce
<1> QED BY <1>3, <1>4, <1>5, <1>6, <1>7 DEF IInv

\* The program stops.
LEMMA CrashKeeps ==
  ASSUME IInv, NEW why \in Statuses, m' = Stopped(m, why), Idle,
         clipboard' = clipboard, made' = made
  PROVE  IInv'
<1>1. m \in Machines /\ clipboard \in Seq(Item)
  BY DEF IInv, Typed
<1>2. m' \in Machines /\ m'.tree = m.tree /\ m'.selection = m.selection
  BY <1>1, StoppedIs
<1>3. ToSet(m'.selection) \subseteq Item \ Fresh
  BY <1>2, OthersAre DEF Selected
<1> QED BY <1>1, <1>2, <1>3, IdleKeeps

\* A click selects items that are shown, so none that is fresh.
LEMMA ClickKeeps ==
  ASSUME IInv, NEW n \in Shown, Click(n) \/ ControlClick(n)
  PROVE  IInv'
<1>1. n \in Item /\ n \notin Fresh /\ Selected \subseteq Item \ Fresh
      /\ m.selection \in Seq(Item) /\ m \in Machines /\ clipboard \in Seq(Item)
  BY OthersAre DEF IInv, Typed
<1>2. /\ Idle /\ clipboard' = clipboard /\ made' = made
  BY DEF Click, ControlClick
<1>3. PICK s, F : /\ m' = [m EXCEPT !.selection = s, !.flagged = F]
                  /\ s \in Seq(Item) /\ ToSet(s) \subseteq Selected \cup {n} /\ F \subseteq Item
  <2>0. m.flagged \subseteq Item /\ ToSet(m.selection) = Selected
    BY <1>1 DEF Machines, Selected
  <2>1. CASE Click(n)
    <3>1. PICK s : s = IF n \in m.flagged THEN <<>> ELSE <<n>>
      OBVIOUS
    <3>2. PICK F : F = IF n \in m.flagged THEN m.flagged \ Selected
                       ELSE (m.flagged \ Selected) \cup {n}
      OBVIOUS
    <3>3. m' = [m EXCEPT !.selection = s, !.flagged = F]
      BY <2>1, <3>1, <3>2 DEF Click
    <3>4. s \in Seq(Item) /\ ToSet(s) \subseteq {n}
      BY <1>1, <3>1 DEF ToSet
    <3>5. F \subseteq Item
      BY <1>1, <2>0, <3>2
    <3> QED BY <3>3, <3>4, <3>5
  <2>2. CASE ControlClick(n) /\ n \in m.flagged
    <3>1. PICK s : s = EraseAll(m.selection, {n})
      OBVIOUS
    <3>2. m' = [m EXCEPT !.selection = s, !.flagged = m.flagged \ {n}]
      BY <2>2, <3>1 DEF ControlClick
    <3>3. s \in Seq(Item) /\ ToSet(s) = ToSet(m.selection) \ {n}
      BY <1>1, <3>1, EraseAllLeaves
    <3> QED BY <2>0, <3>2, <3>3
  <2>3. CASE ControlClick(n) /\ n \notin m.flagged
    <3>1. PICK s : s = IF n \in Selected THEN m.selection ELSE Append(m.selection, n)
      OBVIOUS
    <3>2. m' = [m EXCEPT !.selection = s, !.flagged = m.flagged \cup {n}]
      BY <2>3, <3>1 DEF ControlClick
    <3>3. /\ Append(m.selection, n) \in Seq(Item)
          /\ ToSet(Append(m.selection, n)) = ToSet(m.selection) \cup {n}
      BY <1>1, AppendLeaves
    <3>4. s \in Seq(Item) /\ ToSet(s) \subseteq Selected \cup {n}
      BY <1>1, <2>0, <3>1, <3>3
    <3> QED BY <1>1, <2>0, <3>2, <3>4
  <2> QED BY <2>1, <2>2, <2>3
<1>4. m' \in Machines /\ m'.tree = m.tree /\ m'.selection = s
  BY <1>1, <1>3 DEF Machines
<1>5. ToSet(m'.selection) \subseteq Item \ Fresh
  BY <1>1, <1>3, <1>4
<1> QED BY <1>1, <1>2, <1>4, <1>5, IdleKeeps
-----------------------------------------------------------------------------
(***************************************************************************)
(* An operation is queued.  S has the clones that were made for it.        *)
(***************************************************************************)
QueuesWell(ops, S) ==
  /\ SelectsIn(ops, Item \ Fresh)
  /\ \A k \in 1 .. Len(ops) :
       /\ Sound(ops[k])
       /\ ops[k].kind = "insert" => ops[k].item \in S
       /\ ops[k].kind # "insert" => ops[k].item \notin Fresh
       /\ ops[k].kind = "insert" =>
            \A l \in 1 .. Len(ops) : ops[l].item = ops[k].item => l = k
  /\ \A c \in S : \E k \in 1 .. Len(ops) : ops[k].kind = "insert" /\ ops[k].item = c

\* Queueing operations of this kind keeps the invariant.
LEMMA QueueKeeps ==
  ASSUME IInv, NEW ops \in Compounds, Queue(ops), given < MaxPerTick,
         NEW S \in SUBSET (Clones \ made), QueuesWell(ops, S), made' = made \cup S,
         m' \in Machines, m'.tree = m.tree, m'.selection = m.selection,
         clipboard' \in Seq(Item)
  PROVE  IInv'
<1> DEFINE n == Len(queued)
<1>1. /\ queued' = Append(queued, ops) /\ given' = given + 1
      /\ executed' = executed /\ undone' = undone /\ before' = before /\ after' = after
  BY DEF Queue, history
<1>2. /\ queued \in Seq(Compounds) /\ n \in Nat /\ queued' \in Seq(Compounds)
      /\ Len(queued') = n + 1 /\ queued'[n + 1] = ops
      /\ \A i \in 1 .. n : queued'[i] = queued[i]
  BY <1>1 DEF IInv, Typed
<1> HIDE DEF n
<1>3. \A i \in 1 .. n + 1 : i = n + 1 \/ i \in 1 .. n
  BY <1>2
<1>4. n + 1 \in 1 .. n + 1 /\ \A i \in 1 .. n : i \in 1 .. n + 1 /\ i # n + 1
  BY <1>2
<1>5. Fresh = (Clones \ made) \cup InsertedBy(queued)
      /\ Fresh' = (Clones \ made') \cup InsertedBy(queued')
  BY DEF Fresh, Awaited, InsertedBy
<1>6. Fresh' = Fresh
  <2>1. \A c : c \in InsertedBy(queued) <=> \E i \in 1 .. n : Inserts(queued[i], c)
    BY <1>2, InsertedByIs DEF n
  <2>2. \A c : c \in InsertedBy(queued') <=> \E i \in 1 .. n + 1 : Inserts(queued'[i], c)
    BY <1>2, InsertedByIs
  <2>3. ASSUME NEW c PROVE c \in S <=> Inserts(ops, c)
    <3>1. \A k \in 1 .. Len(ops) : ops[k].kind = "insert" => ops[k].item \in S
      BY DEF QueuesWell
    <3>2. c \in S => Inserts(ops, c)
      BY DEF QueuesWell, Inserts
    <3> QED BY <3>1, <3>2 DEF Inserts
  <2>4. ASSUME NEW c PROVE c \in InsertedBy(queued') <=> c \in InsertedBy(queued) \cup S
    BY <1>2, <1>3, <1>4, <2>1, <2>2, <2>3
  <2>5. InsertedBy(queued') = InsertedBy(queued) \cup S
    BY <2>4
  <2> QED BY <1>5, <2>5
<1>7. S \subseteq Fresh /\ S \cap made = {}
  BY <1>5
<1>8. Typed'
  <2>1. given' \in 0 .. MaxPerTick
    BY <1>1, OperationStackAssumption DEF IInv, Typed
  <2>2. made' \subseteq Clones
    BY DEF IInv, Typed
  <2> QED BY <1>2, <2>1, <2>2 DEF Typed
<1>9. /\ Line(Pasts, executed', before', m'.tree)
      /\ Line(Futures, undone', after', m'.tree)
  BY <1>1 DEF IInv
<1>10. SelectsOthers'
  <2>1. SelectsOnly(queued, Item \ Fresh) /\ SelectsOnly(executed, Item \ Fresh)
        /\ SelectsOnly(undone, Item \ Fresh)
    BY DEF IInv, SelectsOthers
  <2>2. SelectsOnly(queued', Item \ Fresh)
    <3>1. \A i \in 1 .. n : SelectsIn(queued[i], Item \ Fresh)
      BY <2>1 DEF SelectsOnly, n
    <3>2. SelectsIn(ops, Item \ Fresh)
      BY DEF QueuesWell
    <3> QED BY <1>2, <1>3, <3>1, <3>2 DEF SelectsOnly
  <2> QED BY <1>1, <1>6, <2>1, <2>2 DEF SelectsOthers
<1>11. InsertedOnce'
  <2>1. Selected' = Selected
    BY DEF Selected
  <2> QED BY <1>1, <1>6, <2>1 DEF IInv, InsertedOnce
<1>12. Pending'
  <2> DEFINE Good(i, k) == /\ Sound(queued'[i][k])
                           /\ queued'[i][k].item \in Fresh =>
                                /\ queued'[i][k].kind = "insert"
                                /\ queued'[i][k].item \in made'
                                /\ \A j \in 1 .. n + 1 : \A l \in 1 .. Len(queued'[j]) :
                                     queued'[j][l].item = queued'[i][k].item
                                     => j = i /\ l = k
  <2>1. ASSUME NEW i \in 1 .. n, NEW k \in 1 .. Len(queued[i])
        PROVE  /\ Sound(queued[i][k])
               /\ queued[i][k].item \in Fresh =>
                    /\ queued[i][k].kind = "insert" /\ queued[i][k].item \in made
                    /\ \A j \in 1 .. n : \A l \in 1 .. Len(queued[j]) :
                         queued[j][l].item = queued[i][k].item => j = i /\ l = k
    BY DEF IInv, Pending, n
  <2>2. ASSUME NEW i \in 1 .. n, NEW k \in 1 .. Len(queued'[i]) PROVE Good(i, k)
    <3>1. queued'[i] = queued[i] /\ k \in 1 .. Len(queued[i])
      BY <1>2
    <3>2. ASSUME queued[i][k].item \in Fresh,
                 NEW j \in 1 .. n + 1, NEW l \in 1 .. Len(queued'[j]),
                 queued'[j][l].item = queued[i][k].item
          PROVE  j = i /\ l = k
      <4>1. CASE j = n + 1
        <5>1. queued'[j] = ops /\ queued[i][k].item \in made
          BY <1>2, <2>1, <3>1, <3>2, <4>1
        <5>2. ops[l].item \in S \/ ops[l].item \notin Fresh
          BY <3>2, <5>1 DEF QueuesWell
        <5> QED BY <1>7, <3>2, <5>1, <5>2
      <4>2. CASE j # n + 1
        <5>1. j \in 1 .. n /\ queued'[j] = queued[j]
          BY <1>2, <1>3, <4>2
        <5> QED BY <2>1, <3>1, <3>2, <5>1
      <4> QED BY <4>1, <4>2
    <3> QED BY <2>1, <3>1, <3>2
  <2>3. ASSUME NEW k \in 1 .. Len(ops) PROVE Good(n + 1, k)
    <3>1. /\ Sound(ops[k])
          /\ ops[k].kind = "insert" => ops[k].item \in S
          /\ ops[k].kind # "insert" => ops[k].item \notin Fresh
          /\ ops[k].kind = "insert" =>
               \A l \in 1 .. Len(ops) : ops[l].item = ops[k].item => l = k
      BY DEF QueuesWell
    <3>2. ASSUME ops[k].item \in Fresh,
                 NEW j \in 1 .. n + 1, NEW l \in 1 .. Len(queued'[j]),
                 queued'[j][l].item = ops[k].item
          PROVE  j = n + 1 /\ l = k
      <4>1. CASE j = n + 1
        BY <1>2, <3>1, <3>2, <4>1
      <4>2. CASE j # n + 1
        <5>1. j \in 1 .. n /\ queued'[j] = queued[j]
          BY <1>2, <1>3, <4>2
        <5>2. queued[j][l].item \in made
          BY <2>1, <3>2, <5>1
        <5> QED BY <1>7, <3>1, <3>2, <5>1, <5>2
      <4> QED BY <4>1, <4>2
    <3>3. queued'[n + 1] = ops
      BY <1>2
    <3>4. ops[k].item \in Fresh => ops[k].kind = "insert" /\ ops[k].item \in made'
      BY <3>1
    <3> QED BY <3>1, <3>2, <3>3, <3>4
  <2>4. \A i \in 1 .. n + 1 : \A k \in 1 .. Len(queued'[i]) : Good(i, k)
    <3> HIDE DEF Good
    <3> QED BY <1>2, <1>3, <2>2, <2>3
  <2> QED BY <1>2, <1>6, <2>4 DEF Pending
<1> QED BY <1>8, <1>9, <1>10, <1>11, <1>12 DEF IInv
\* What the constructors make.
LEMMA ConstructorsMake ==
  ASSUME NEW h \in Hierarchies, NEW x \in Machines, NEW n \in Item,
         NEW p \in Item \cup {None}, NEW place \in Placements, NEW anchor \in Item \cup {None},
         place # "end" => anchor # None
  PROVE  /\ LET op == ParentChange(h, p, n, place, anchor)
            IN  /\ op \in Ops /\ op.kind = "parent_change" /\ op.item = n
                /\ op.selBefore = <<>> /\ op.selAfter = <<>>
         /\ LET op == RepositionInParent(n, place, anchor)
            IN  /\ op \in Ops /\ op.kind = "reposition" /\ op.item = n
                /\ op.selBefore = <<>> /\ op.selAfter = <<>>
         /\ LET op == InsertItem(x, n, p)
            IN  /\ op \in Ops /\ op.kind = "insert" /\ op.item = n
                /\ op.before = None /\ op.moved = <<>>
                /\ op.selBefore = x.selection /\ op.selAfter = x.selection
         /\ LET op == RemoveItemOp(x, n)
            IN  /\ op \in Ops /\ op.kind = "remove" /\ op.item = n /\ op.after = None
                /\ op.selBefore = x.selection /\ op.selAfter = <<>>
<1>1. h.parent[n] \in Item \cup {None} /\ x.selection \in Seq(Item)
  BY DEF Hierarchies, Machines
<1>2. PICK none : none = <<>>
  OBVIOUS
<1>3. none \in Seq(Moves) /\ none \in Seq(Item)
  BY <1>2
<1>4. "end" \in Placements
  BY DEF Placements
<1>5. LET op == ParentChange(h, p, n, place, anchor)
      IN  /\ op \in Ops /\ op.kind = "parent_change" /\ op.item = n
          /\ op.selBefore = <<>> /\ op.selAfter = <<>>
  BY <1>1, <1>2, <1>3 DEF ParentChange, Operation, Ops, OpsWith
<1>6. LET op == RepositionInParent(n, place, anchor)
      IN  /\ op \in Ops /\ op.kind = "reposition" /\ op.item = n
          /\ op.selBefore = <<>> /\ op.selAfter = <<>>
  BY <1>2, <1>3 DEF RepositionInParent, Operation, Ops, OpsWith
<1>7. LET op == InsertItem(x, n, p)
      IN  /\ op \in Ops /\ op.kind = "insert" /\ op.item = n
          /\ op.before = None /\ op.moved = <<>>
          /\ op.selBefore = x.selection /\ op.selAfter = x.selection
  BY <1>1, <1>2, <1>3, <1>4 DEF InsertItem, Operation, Ops, OpsWith
<1>8. LET op == RemoveItemOp(x, n)
      IN  /\ op \in Ops /\ op.kind = "remove" /\ op.item = n /\ op.after = None
          /\ op.selBefore = x.selection /\ op.selAfter = <<>>
  BY <1>1, <1>2, <1>3, <1>4 DEF RemoveItemOp, Operation, Ops, OpsWith
<1> QED BY <1>5, <1>6, <1>7, <1>8

\* A list of operations, none an insertion, on items that are not fresh.
LEMMA OthersQueueWell ==
  ASSUME NEW n \in Nat, NEW ops, ops \in [1 .. n -> Ops],
         \A k \in 1 .. n :
           /\ ops[k].kind \in {"parent_change", "reposition", "remove"}
           /\ ops[k].kind = "remove" => ops[k].after = None
           /\ ops[k].item \in Item \ Fresh
           /\ ToSet(ops[k].selBefore) \subseteq Item \ Fresh
           /\ ToSet(ops[k].selAfter) \subseteq Item \ Fresh
  PROVE  ops \in Compounds /\ QueuesWell(ops, {})
<1>1. ops \in Seq(Ops) /\ Len(ops) = n
  BY FunctionIsList
<1>2. SelectsIn(ops, Item \ Fresh)
  BY <1>1 DEF SelectsIn
<1>3. \A k \in 1 .. n : Sound(ops[k]) /\ ops[k].kind # "insert" /\ ops[k].item \notin Fresh
  BY DEF Sound
<1> QED BY <1>1, <1>2, <1>3 DEF QueuesWell, Compounds
\* What is dragged is not fresh, and what may be moved of it is among it.
LEMMA DraggedIs ==
  ASSUME IInv, NEW n \in Shown, NEW target
  PROVE  /\ Dragged(n) \in Seq(Item) /\ ToSet(Dragged(n)) \subseteq Item \ Fresh
         /\ \A items \in {Dragged(n), Reverse(Dragged(n))} :
              LET moved == Movable(items, n, target)
              IN  /\ moved \in Seq(Item) /\ DOMAIN moved = 1 .. Len(moved) /\ Len(moved) \in Nat
                  /\ \A i \in 1 .. Len(moved) : moved[i] \in Item \ Fresh
<1>1. /\ n \in Item \ Fresh /\ m.selection \in Seq(Item) /\ Selected \subseteq Item \ Fresh
  BY OthersAre
<1>2. Dragged(n) \in Seq(Item) /\ ToSet(Dragged(n)) \subseteq Item \ Fresh
  <2>1. CASE n \in Selected
    BY <1>1, <2>1 DEF Dragged, Selected
  <2>2. CASE n \notin Selected
    <3>1. PICK s : s = <<n>>
      OBVIOUS
    <3>2. s \in Seq(Item) /\ ToSet(s) = {n}
      BY <1>1, <3>1 DEF ToSet
    <3> QED BY <1>1, <2>2, <3>1, <3>2 DEF Dragged
  <2> QED BY <2>1, <2>2
<1>3. PICK s : s = Dragged(n)
  OBVIOUS
<1>4. Reverse(s) \in Seq(Item) /\ ToSet(Reverse(s)) \subseteq ToSet(s)
  <2>1. s \in Seq(Item)
    BY <1>2, <1>3
  <2>2. /\ Reverse(s) \in Seq(Item) /\ Len(Reverse(s)) = Len(s)
        /\ \A k \in 1 .. Len(s) : Reverse(s)[k] = s[Len(s) - k + 1]
    BY <2>1, ReverseIs
  <2>3. \A k \in 1 .. Len(s) : Len(s) - k + 1 \in 1 .. Len(s)
    BY <2>1
  <2>4. DOMAIN s = 1 .. Len(s) /\ DOMAIN Reverse(s) = 1 .. Len(s)
    BY <2>1, <2>2
  <2> QED BY <2>2, <2>3, <2>4 DEF ToSet
<1>5. ASSUME NEW items \in Seq(Item), ToSet(items) \subseteq Item \ Fresh,
             NEW moved, moved = Movable(items, n, target)
      PROVE  /\ moved \in Seq(Item) /\ DOMAIN moved = 1 .. Len(moved) /\ Len(moved) \in Nat
             /\ \A i \in 1 .. Len(moved) : moved[i] \in Item \ Fresh
  <2>1. moved \in Seq(Item) /\ ToSet(moved) \subseteq ToSet(items)
    BY <1>5, EraseAllLeaves DEF Movable
  <2>2. DOMAIN moved = 1 .. Len(moved) /\ Len(moved) \in Nat
    BY <2>1
  <2>3. \A i \in 1 .. Len(moved) : moved[i] \in ToSet(moved)
    BY <2>2 DEF ToSet
  <2> QED BY <1>5, <2>1, <2>2, <2>3
<1>6. ASSUME NEW items \in {s, Reverse(s)}
      PROVE  items \in Seq(Item) /\ ToSet(items) \subseteq Item \ Fresh
  BY <1>2, <1>3, <1>4
<1> QED BY <1>2, <1>3, <1>5, <1>6

\* Drag and drop queues parent changes and repositions of shown items.
LEMMA DropKeeps ==
  ASSUME IInv, NEW n \in Shown, NEW target \in Shown, NEW place \in Placements,
         Drop(n, target, place)
  PROVE  IInv'
<1>1. /\ m \in Machines /\ m.tree \in Hierarchies /\ target \in Item /\ clipboard \in Seq(Item)
      /\ None \notin Item /\ "end" \in Placements
  BY OthersAre, NoneAssumption DEF IInv, Typed, Placements
<1>2. \A x \in Item : m.tree.parent[x] \in Item \cup {None}
  BY <1>1 DEF Hierarchies
<1>3. PICK none : none = <<>> /\ ToSet(none) = {}
  BY DEF ToSet
<1>4. PICK ops : ops = IF place = "end" THEN AttachOps(n, target) ELSE MoveOps(n, target, place)
  OBVIOUS
<1>5. ops \in Compounds /\ QueuesWell(ops, {})
  <2>1. CASE place = "end"
    <3>1. PICK moved : moved = Movable(Dragged(n), n, target)
      OBVIOUS
    <3>2. /\ moved \in Seq(Item) /\ DOMAIN moved = 1 .. Len(moved) /\ Len(moved) \in Nat
          /\ \A i \in 1 .. Len(moved) : moved[i] \in Item \ Fresh
      BY <3>1, DraggedIs
    <3>3. ops = [i \in 1 .. Len(moved) |-> ParentChange(m.tree, target, moved[i], "end", None)]
      BY <1>4, <2>1, <3>1, <3>2 DEF AttachOps
    <3>4. ASSUME NEW i \in 1 .. Len(moved)
          PROVE  /\ ops[i] \in Ops /\ ops[i].kind = "parent_change" /\ ops[i].item = moved[i]
                 /\ ops[i].selBefore = none /\ ops[i].selAfter = none
      BY <1>1, <1>3, <3>2, <3>3, ConstructorsMake
    <3>5. ops \in [1 .. Len(moved) -> Ops]
      BY <3>3, <3>4
    <3>6. \A k \in 1 .. Len(moved) :
            /\ ops[k].kind \in {"parent_change", "reposition", "remove"}
            /\ ops[k].kind = "remove" => ops[k].after = None
            /\ ops[k].item \in Item \ Fresh
            /\ ToSet(ops[k].selBefore) \subseteq Item \ Fresh
            /\ ToSet(ops[k].selAfter) \subseteq Item \ Fresh
      BY <1>3, <3>2, <3>4
    <3> QED BY <3>2, <3>5, <3>6, OthersQueueWell
  <2>2. CASE place # "end"
    <3>1. PICK items : items = IF place = "after" THEN Reverse(Dragged(n)) ELSE Dragged(n)
      OBVIOUS
    <3>2. PICK moved : moved = Movable(items, n, target)
      OBVIOUS
    <3>3. /\ moved \in Seq(Item) /\ DOMAIN moved = 1 .. Len(moved) /\ Len(moved) \in Nat
          /\ \A i \in 1 .. Len(moved) : moved[i] \in Item \ Fresh
      BY <3>1, <3>2, DraggedIs
    <3>4. ops = [i \in 1 .. Len(moved) |->
                   IF m.tree.parent[target] # m.tree.parent[moved[i]]
                   THEN ParentChange(m.tree, m.tree.parent[target], moved[i], place, target)
                   ELSE RepositionInParent(moved[i], place, target)]
      BY <1>4, <2>2, <3>1, <3>2, <3>3 DEF MoveOps
    <3>5. ASSUME NEW i \in 1 .. Len(moved)
          PROVE  /\ ops[i] \in Ops /\ ops[i].kind \in {"parent_change", "reposition"}
                 /\ ops[i].item = moved[i]
                 /\ ops[i].selBefore = none /\ ops[i].selAfter = none
      <4>1. target # None /\ moved[i] \in Item
        BY <1>1, <3>3
      <4>2. CASE m.tree.parent[target] # m.tree.parent[moved[i]]
        <5>1. ops[i] = ParentChange(m.tree, m.tree.parent[target], moved[i], place, target)
          BY <3>4, <4>2
        <5>2. PICK p \in Item \cup {None} : p = m.tree.parent[target]
          BY <1>1, <1>2
        <5>3. /\ ops[i] = ParentChange(m.tree, p, moved[i], place, target)
              /\ place # "end" => target # None
          BY <4>1, <5>1, <5>2
        <5>4. target \in Item \cup {None} /\ moved[i] \in Item /\ m.tree \in Hierarchies
          BY <1>1, <4>1
        <5> QED BY <1>1, <1>3, <5>3, <5>4, ConstructorsMake
      <4>3. CASE ~(m.tree.parent[target] # m.tree.parent[moved[i]])
        <5>1. ops[i] = RepositionInParent(moved[i], place, target)
          BY <3>4, <4>3
        <5> QED BY <1>1, <1>3, <4>1, <5>1, ConstructorsMake
      <4> QED BY <4>2, <4>3
    <3>6. ops \in [1 .. Len(moved) -> Ops]
      <4>1. DOMAIN ops = 1 .. Len(moved) /\ ops = [i \in 1 .. Len(moved) |-> ops[i]]
        BY <3>4
      <4> QED BY <3>5, <4>1
    <3>7. \A k \in 1 .. Len(moved) :
            /\ ops[k].kind \in {"parent_change", "reposition", "remove"}
            /\ ops[k].kind = "remove" => ops[k].after = None
            /\ ops[k].item \in Item \ Fresh
            /\ ToSet(ops[k].selBefore) \subseteq Item \ Fresh
            /\ ToSet(ops[k].selAfter) \subseteq Item \ Fresh
      BY <1>3, <3>3, <3>5
    <3> QED BY <3>3, <3>6, <3>7, OthersQueueWell
  <2> QED BY <2>1, <2>2
<1>6. /\ Queue(ops) /\ given < MaxPerTick /\ m' = m /\ clipboard' = clipboard
      /\ made' = made \cup {}
  BY <1>4 DEF Drop, Mouse, Input
<1> QED BY <1>1, <1>5, <1>6, QueueKeeps

\* The Attach button queues a parent change of a selected item.
LEMMA AttachButtonKeeps == ASSUME IInv, AttachButton PROVE IInv'
<1>1. /\ m \in Machines /\ m.tree \in Hierarchies /\ clipboard \in Seq(Item)
      /\ m.selection \in Seq(Item) /\ ToSet(m.selection) \subseteq Item \ Fresh
      /\ None \notin Item /\ "end" \in Placements
  BY OthersAre, NoneAssumption DEF IInv, Typed, Placements, Selected
<1>2. PICK s : s = m.selection
  OBVIOUS
<1>3. Len(s) >= 2
  BY <1>2 DEF AttachButton
<1>4. s[1] \in Item \ Fresh /\ s[2] \in Item
  <2>1. 1 \in DOMAIN s /\ 2 \in DOMAIN s
    BY <1>1, <1>2, <1>3
  <2>2. s[1] \in ToSet(s) /\ s[2] \in ToSet(s)
    BY <2>1 DEF ToSet
  <2> QED BY <1>1, <1>2, <2>2
<1>5. PICK none : none = <<>> /\ ToSet(none) = {}
  BY DEF ToSet
<1>6. PICK op : op = ParentChange(m.tree, s[2], s[1], "end", None)
  OBVIOUS
<1>7. /\ op \in Ops /\ op.kind = "parent_change" /\ op.item = s[1]
      /\ op.selBefore = none /\ op.selAfter = none
  BY <1>1, <1>4, <1>5, <1>6, ConstructorsMake
<1>8. PICK ops : ops = <<op>>
  OBVIOUS
<1>9. ops \in [1 .. 1 -> Ops] /\ \A k \in 1 .. 1 : ops[k] = op
  BY <1>7, <1>8
<1>10. ops \in Compounds /\ QueuesWell(ops, {})
  BY <1>4, <1>5, <1>7, <1>9, OthersQueueWell
<1>11. /\ Queue(ops) /\ given < MaxPerTick /\ m' = m /\ clipboard' = clipboard
       /\ made' = made \cup {}
  BY <1>2, <1>6, <1>8 DEF AttachButton, Mouse, Input
<1> QED BY <1>1, <1>10, <1>11, QueueKeeps
\* What is deleted is what is selected or below it.
LEMMA DeleteOrdersAre ==
  ASSUME IInv, NEW q \in DeleteOrders
  PROVE  DOMAIN q = 1 .. Len(q) /\ Len(q) \in Nat /\ \A i \in 1 .. Len(q) : q[i] \in Item \ Fresh
<1> DEFINE collected == UNION {{s} \X Subtree(m.tree, s) : s \in Selected}
<1>1. /\ Selected \subseteq Item
      /\ \A s \in Selected : Subtree(m.tree, s) \subseteq Item \ Fresh
  BY OthersAre
<1>2. \A w \in collected : w \in Item \X Item /\ w[2] \in Item \ Fresh
  <2>1. ASSUME NEW s \in Selected, NEW w \in {s} \X Subtree(m.tree, s)
        PROVE  w \in Item \X Item /\ w[2] \in Item \ Fresh
    BY <1>1
  <2> QED BY <2>1
<1>3. PICK q0 \in SetToSeqs(collected) : q = [i \in DOMAIN q0 |-> q0[i][2]]
  BY DEF DeleteOrders
<1> HIDE DEF collected
<1>4. IsFiniteSet(collected)
  <2>1. IsFiniteSet(Item \X Item)
    BY OperationStackAssumption, FS_Product
  <2> QED BY <1>2, <2>1, FS_Subset
<1>5. q0 \in Seq(collected)
  BY <1>3, <1>4, SetToSeqsLists
<1>6. DOMAIN q0 = 1 .. Len(q0) /\ Len(q0) \in Nat /\ \A i \in 1 .. Len(q0) : q0[i] \in collected
  BY <1>5
<1>7. \A i \in 1 .. Len(q0) : q[i] = q0[i][2] /\ q[i] \in Item \ Fresh
  BY <1>2, <1>3, <1>6
<1>8. q \in [1 .. Len(q0) -> Item]
  BY <1>3, <1>6, <1>7
<1>9. q \in Seq(Item) /\ Len(q) = Len(q0)
  BY <1>6, <1>8, FunctionIsList
<1> QED BY <1>6, <1>7, <1>8, <1>9

\* Deletion queues removals of what is selected or below it.
LEMMA DeleteKeeps ==
  ASSUME IInv, DeleteSelection, given < MaxPerTick, m' = m, made' = made,
         clipboard' \in Seq(Item)
  PROVE  IInv'
<1>1. /\ m \in Machines /\ m.tree \in Hierarchies /\ m.selection \in Seq(Item)
      /\ ToSet(m.selection) \subseteq Item \ Fresh
      /\ None \in Item \cup {None} /\ "end" \in Placements
  BY OthersAre DEF IInv, Typed, Placements, Selected
<1>2. PICK q \in DeleteOrders : Queue([i \in DOMAIN q |-> RemoveItemOp(m, q[i])])
  BY DEF DeleteSelection
<1>3. DOMAIN q = 1 .. Len(q) /\ Len(q) \in Nat /\ \A i \in 1 .. Len(q) : q[i] \in Item \ Fresh
  BY DeleteOrdersAre
<1>4. PICK ops : ops = [i \in 1 .. Len(q) |-> RemoveItemOp(m, q[i])]
  OBVIOUS
<1>5. PICK none : none = <<>> /\ ToSet(none) = {}
  BY DEF ToSet
<1>6. ASSUME NEW i \in 1 .. Len(q)
      PROVE  /\ ops[i] \in Ops /\ ops[i].kind = "remove" /\ ops[i].item = q[i]
             /\ ops[i].after = None
             /\ ops[i].selBefore = m.selection /\ ops[i].selAfter = none
  <2>1. q[i] \in Item /\ ops[i] = RemoveItemOp(m, q[i])
    BY <1>3, <1>4
  <2> QED BY <1>1, <1>5, <2>1, ConstructorsMake
<1>7. ops \in [1 .. Len(q) -> Ops]
  BY <1>4, <1>6
<1>8. \A k \in 1 .. Len(q) :
        /\ ops[k].kind \in {"parent_change", "reposition", "remove"}
        /\ ops[k].kind = "remove" => ops[k].after = None
        /\ ops[k].item \in Item \ Fresh
        /\ ToSet(ops[k].selBefore) \subseteq Item \ Fresh
        /\ ToSet(ops[k].selAfter) \subseteq Item \ Fresh
  BY <1>1, <1>3, <1>5, <1>6
<1>9. ops \in Compounds /\ QueuesWell(ops, {})
  BY <1>3, <1>7, <1>8, OthersQueueWell
<1>10. Queue(ops) /\ made' = made \cup {}
  BY <1>2, <1>3, <1>4
<1> QED BY <1>1, <1>9, <1>10, QueueKeeps

\* Delete and cut.
LEMMA DeleteAndCutKeep == ASSUME IInv, Delete \/ Cut PROVE IInv'
<1>1. m.selection \in Seq(Item) /\ clipboard \in Seq(Item)
  BY OthersAre DEF IInv, Typed
<1>2. DeleteSelection /\ given < MaxPerTick /\ m' = m /\ made' = made /\ clipboard' \in Seq(Item)
  BY <1>1 DEF Delete, Cut, Input
<1> QED BY <1>2, DeleteKeeps

\* Copying changes the clipboard alone.
LEMMA CopyKeeps == ASSUME IInv, Copy PROVE IInv'
<1>1. /\ m \in Machines /\ m.selection \in Seq(Item)
      /\ ToSet(m.selection) \subseteq Item \ Fresh
  BY OthersAre DEF IInv, Typed, Selected
<1>2. Idle /\ m' = m /\ made' = made /\ clipboard' = m.selection
  BY DEF Copy
<1> QED BY <1>1, <1>2, IdleKeeps
-----------------------------------------------------------------------------
\* A finite set can be listed.
LEMMA SetIsListed ==
  ASSUME NEW S, IsFiniteSet(S)
  PROVE  SetToSeqs(S) # {}
<1> DEFINE n == Cardinality(S)
<1>1. n \in Nat
  BY FS_CardinalityType
<1>2. ExistsBijection(1 .. n, S)
  BY FS_CardinalityType
<1>3. PICK f : f \in Bijection(1 .. n, S)
  BY <1>2 DEF ExistsBijection
<1>4. f \in [1 .. n -> S] /\ \A i, j \in 1 .. n : i # j => f[i] # f[j]
  BY <1>3 DEF Bijection, Injection, IsInjective
<1> QED BY <1>4 DEF SetToSeqs

\* A clone of each of the items is made, and an insertion of each clone.
LEMMA InsertClonesKeeps ==
  ASSUME IInv, NEW items \in Seq(Item), NEW parents,
         \A i \in 1 .. Len(items) : parents[i] \in Item \cup {None},
         InsertClones(items, parents), given < MaxPerTick, clipboard' = clipboard
  PROVE  IInv'
<1>1. /\ m \in Machines /\ m.tree \in Hierarchies /\ clipboard \in Seq(Item)
      /\ m.selection \in Seq(Item) /\ ToSet(m.selection) \subseteq Item \ Fresh
      /\ "end" \in Placements /\ m.flagged \subseteq Item
  BY OthersAre DEF IInv, Typed, Placements, Selected, Machines
<1>2. CASE \E i \in DOMAIN items : m.tree.children[items[i]] # <<>>
  <2>1. m' = Stopped(m, "bad_weak_ptr") /\ Idle /\ made' = made
    BY <1>2 DEF InsertClones
  <2>2. "bad_weak_ptr" \in Statuses
    BY DEF Statuses
  <2> QED BY <2>1, <2>2, CrashKeeps
<1>3. CASE ~(\E i \in DOMAIN items : m.tree.children[items[i]] # <<>>)
  <2>1. PICK S \in SUBSET (Clones \ made) :
          LET copy == CHOOSE q \in SetToSeqs(S) : TRUE
          IN  /\ Cardinality(S) = Len(items)
              /\ Queue([i \in DOMAIN items |-> InsertItem(m, copy[i], parents[i])])
              /\ m' = [m EXCEPT !.flagged = @ \cup
                         {copy[i] : i \in {j \in DOMAIN items : items[j] \in @}}]
              /\ made' = made \cup S
    BY <1>3 DEF InsertClones
  <2>2. PICK copy : copy = CHOOSE q \in SetToSeqs(S) : TRUE
    OBVIOUS
  <2>3. Cardinality(S) = Len(items) /\ made' = made \cup S
    BY <2>1
  <2>4. S \subseteq Item /\ IsFiniteSet(S)
    <3>1. S \subseteq Item
      BY OperationStackAssumption
    <3> QED BY <3>1, OperationStackAssumption, FS_Subset
  <2>5. copy \in SetToSeqs(S)
    BY <2>2, <2>4, SetIsListed
  <2>6. copy \in Seq(S) /\ IsInjective(copy) /\ ToSet(copy) = S
    BY <2>4, <2>5, SetToSeqsLists
  <2> DEFINE n == Len(items)
  <2>7. Len(copy) = n
    <3>1. Cardinality(ToSet(copy)) = Len(copy)
      BY <2>6, LengthOfInjective
    <3> QED BY <2>3, <2>6, <3>1
  <2>8. /\ n \in Nat /\ DOMAIN items = 1 .. n /\ DOMAIN copy = 1 .. n
        /\ \A i \in 1 .. n : copy[i] \in S
    BY <2>6, <2>7
  <2>9. PICK ops : ops = [i \in 1 .. n |-> InsertItem(m, copy[i], parents[i])]
    OBVIOUS
  <2>10. PICK F : F = m.flagged \cup {copy[i] : i \in {j \in DOMAIN items : items[j] \in m.flagged}}
    OBVIOUS
  <2>11. Queue(ops) /\ m' = [m EXCEPT !.flagged = F]
    BY <2>1, <2>2, <2>8, <2>9, <2>10
  <2> HIDE DEF n
  <2>12. F \subseteq Item
    BY <1>1, <2>4, <2>8, <2>10
  <2>13. m' \in Machines /\ m'.tree = m.tree /\ m'.selection = m.selection
    BY <1>1, <2>11, <2>12 DEF Machines
  <2>14. ASSUME NEW i \in 1 .. n
         PROVE  /\ ops[i] \in Ops /\ ops[i].kind = "insert" /\ ops[i].item = copy[i]
                /\ ops[i].before = None /\ ops[i].moved = <<>>
                /\ ops[i].selBefore = m.selection /\ ops[i].selAfter = m.selection
    <3>1. copy[i] \in Item /\ ops[i] = InsertItem(m, copy[i], parents[i])
      BY <2>4, <2>8, <2>9
    <3>2. PICK p \in Item \cup {None} : p = parents[i]
      BY DEF n
    <3> QED BY <1>1, <3>1, <3>2, ConstructorsMake
  <2>15. ops \in [1 .. n -> Ops]
    BY <2>9, <2>14
  <2>16. ops \in Seq(Ops) /\ Len(ops) = n
    BY <2>8, <2>15, FunctionIsList
  <2>17. QueuesWell(ops, S)
    <3>1. SelectsIn(ops, Item \ Fresh)
      BY <1>1, <2>14, <2>16 DEF SelectsIn
    <3>2. \A k \in 1 .. n : Sound(ops[k])
      BY <2>14 DEF Sound
    <3>3. \A k \in 1 .. n : ops[k].item \in S /\ ops[k].kind = "insert"
      BY <2>8, <2>14
    <3>4. \A k, l \in 1 .. n : ops[l].item = ops[k].item => l = k
      BY <2>6, <2>8, <2>14 DEF IsInjective
    <3>5. ASSUME NEW c \in S PROVE \E k \in 1 .. n : ops[k].kind = "insert" /\ ops[k].item = c
      <4>1. PICK k \in DOMAIN copy : copy[k] = c
        BY <2>6 DEF ToSet
      <4> QED BY <2>8, <2>14, <4>1
    <3> QED BY <2>16, <3>1, <3>2, <3>3, <3>4, <3>5 DEF QueuesWell
  <2> QED BY <1>1, <2>3, <2>11, <2>13, <2>16, <2>17, QueueKeeps DEF Compounds
<1> QED BY <1>2, <1>3

\* Duplicate inserts clones of what is selected.
LEMMA DuplicateKeeps == ASSUME IInv, Duplicate PROVE IInv'
<1>1. m.selection \in Seq(Item) /\ m.tree \in Hierarchies
  BY OthersAre
<1>2. PICK s : s = m.selection
  OBVIOUS
<1>3. PICK parents : parents = [i \in DOMAIN s |-> m.tree.parent[s[i]]]
  OBVIOUS
<1>4. InsertClones(s, parents) /\ given < MaxPerTick /\ clipboard' = clipboard
  BY <1>2, <1>3 DEF Duplicate, Input
<1>5. s \in Seq(Item) /\ \A i \in 1 .. Len(s) : parents[i] \in Item \cup {None}
  <2>1. s \in Seq(Item) /\ DOMAIN s = 1 .. Len(s) /\ \A i \in 1 .. Len(s) : s[i] \in Item
    BY <1>1, <1>2
  <2>2. \A x \in Item : m.tree.parent[x] \in Item \cup {None}
    BY <1>1 DEF Hierarchies
  <2> QED BY <1>3, <2>1, <2>2
<1> QED BY <1>4, <1>5, InsertClonesKeeps

\* Paste inserts clones of what is on the clipboard.
LEMMA PasteKeeps == ASSUME IInv, Paste PROVE IInv'
<1>1. m.selection \in Seq(Item) /\ clipboard \in Seq(Item)
  BY OthersAre DEF IInv, Typed
<1>2. PICK items : items = IF m.selection = <<>> THEN <<>> ELSE clipboard
  OBVIOUS
<1>3. PICK parents : parents = [i \in DOMAIN items |-> m.selection[1]]
  OBVIOUS
<1>4. InsertClones(items, parents) /\ given < MaxPerTick /\ clipboard' = clipboard
  BY <1>2, <1>3 DEF Paste, Input
<1>5. items \in Seq(Item) /\ \A i \in 1 .. Len(items) : parents[i] \in Item \cup {None}
  <2>1. CASE m.selection = <<>>
    <3>1. items = <<>>
      BY <1>2, <2>1
    <3>2. items \in Seq(Item) /\ 1 .. Len(items) = {}
      BY <3>1
    <3> QED BY <3>2
  <2>2. CASE m.selection # <<>>
    <3>1. items \in Seq(Item) /\ DOMAIN items = 1 .. Len(items)
      BY <1>1, <1>2, <2>2
    <3>2. m.selection[1] \in Item
      BY <1>1, <2>2
    <3> QED BY <1>3, <3>1, <3>2
  <2> QED BY <2>1, <2>2
<1> QED BY <1>4, <1>5, InsertClonesKeeps
-----------------------------------------------------------------------------
(***************************************************************************)
(* Undo and redo: one operation goes from one end of the line to the other.*)
(***************************************************************************)
LEMMA FrontIs ==
  ASSUME NEW S, NEW s, s \in Seq(S), s # <<>>
  PROVE  /\ Front(s) \in Seq(S) /\ Len(Front(s)) = Len(s) - 1
         /\ \A i \in 1 .. Len(s) - 1 : Front(s)[i] = s[i]
         /\ Last(s) = s[Len(s)]
<1>1. s \in Seq(S) /\ Len(s) \in Nat /\ Len(s) >= 1
  <2>1. Len(s) \in Nat /\ Len(s) # 0
    OBVIOUS
  <2> QED BY <2>1
<1> DEFINE n == Len(s)
<1>2. 1 \in 1 .. n + 1 /\ n - 1 \in 1 - 1 .. n
  BY <1>1
<1>3. /\ SubSeq(s, 1, n - 1) \in Seq(S) /\ Len(SubSeq(s, 1, n - 1)) = n - 1
      /\ \A i \in 1 .. n - 1 : SubSeq(s, 1, n - 1)[i] = s[i]
  <2>1. Len(SubSeq(s, 1, n - 1)) = IF 1 <= n - 1 THEN n - 1 - 1 + 1 ELSE 0
    BY <1>1, <1>2, SubSeqProperties
  <2>2. \A i \in 1 .. n - 1 - 1 + 1 : SubSeq(s, 1, n - 1)[i] = s[1 + i - 1]
    BY <1>1, <1>2, SubSeqProperties
  <2>3. SubSeq(s, 1, n - 1) \in Seq(S)
    BY <1>1, <1>2, SubSeqProperties
  <2> HIDE DEF n
  <2>4. n \in Nat /\ n >= 1
    BY <1>1 DEF n
  <2>5. n - 1 - 1 + 1 = n - 1 /\ \A i \in 1 .. n - 1 : 1 + i - 1 = i
    BY <2>4
  <2> QED BY <2>1, <2>2, <2>3, <2>4, <2>5
<1>4. Last(s) = s[Len(s)]
  BY DEF Last
<1> QED BY <1>3, <1>4 DEF Front

\* Moving an operation from one list to the other.
LEMMA SelectsOnlyMoves ==
  ASSUME NEW opss \in Seq(Compounds), NEW P, SelectsOnly(opss, P)
  PROVE  /\ \A ops \in Compounds : SelectsIn(ops, P) => SelectsOnly(Append(opss, ops), P)
         /\ opss # <<>> => SelectsOnly(Front(opss), P) /\ SelectsIn(Last(opss), P)
<1> DEFINE n == Len(opss)
<1>1. n \in Nat /\ \A i \in 1 .. n : opss[i] \in Compounds
  OBVIOUS
<1>2. ASSUME NEW ops \in Compounds, SelectsIn(ops, P) PROVE SelectsOnly(Append(opss, ops), P)
  <2>1. PICK os : os = Append(opss, ops)
    OBVIOUS
  <2>2. Len(os) = n + 1 /\ os[n + 1] = ops /\ \A i \in 1 .. n : os[i] = opss[i]
    BY <2>1
  <2>3. \A i \in 1 .. n + 1 : i = n + 1 \/ i \in 1 .. n
    BY <1>1
  <2> HIDE DEF n
  <2>4. \A i \in 1 .. n : SelectsIn(opss[i], P)
    BY DEF SelectsOnly, n
  <2>5. \A i \in 1 .. n + 1 : SelectsIn(os[i], P)
    BY <1>2, <2>2, <2>3, <2>4
  <2> QED BY <2>1, <2>2, <2>5 DEF SelectsOnly
<1>3. ASSUME opss # <<>> PROVE SelectsOnly(Front(opss), P) /\ SelectsIn(Last(opss), P)
  <2>1. n \in 1 .. n
    BY <1>1, <1>3
  <2> DEFINE os == Front(opss)
  <2>2. opss \in Seq(Compounds) /\ n \in Nat /\ n >= 1
    BY <2>1
  <2>3. Len(os) = n - 1 /\ \A i \in 1 .. n - 1 : os[i] = opss[i]
    BY <1>3, <2>2, FrontIs
  <2>5. \A i \in 1 .. n - 1 : i \in 1 .. n
    BY <1>1
  <2>4. Last(opss) = opss[n]
    BY DEF Last
  <2> HIDE DEF os
  <2> QED BY <2>1, <2>3, <2>4, <2>5 DEF SelectsOnly, os
<1> QED BY <1>2, <1>3

\* The trees that are in the history after it.
LEMMA HistoryMoves ==
  ASSUME NEW from \in Seq(Trees), from # <<>>, NEW to \in Seq(Trees), NEW h \in Trees
  PROVE  {Last(from)} \cup ToSet(Front(from)) \cup ToSet(Append(to, h))
           \subseteq {h} \cup ToSet(from) \cup ToSet(to)
<1> DEFINE n == Len(from)
<1>1. n \in 1 .. n /\ n \in Nat /\ DOMAIN from = 1 .. n
  OBVIOUS
<1>2. Last(from) = from[n]
  BY DEF Last
<1>3. PICK us : us = Front(from)
  OBVIOUS
<1>4. DOMAIN us = 1 .. n - 1 /\ \A i \in 1 .. n - 1 : us[i] = from[i] /\ i \in 1 .. n
  BY <1>1, <1>3 DEF Front
<1>5. ToSet(us) \subseteq ToSet(from)
  BY <1>1, <1>4 DEF ToSet
<1>6. Last(from) \in ToSet(from)
  BY <1>1, <1>2 DEF ToSet
<1>7. ToSet(Append(to, h)) = ToSet(to) \cup {h}
  BY AppendLeaves
<1> QED BY <1>3, <1>5, <1>6, <1>7

\* Both keep what concerns the operations that are queued.
LEMMA MovesKeep ==
  ASSUME IInv, given < MaxPerTick, NEW y \in Machines, m' = y,
         ToSet(y.selection) \subseteq Item \ Fresh,
         given' = IF queued = <<>> THEN 0 ELSE given + 1,
         queued' = queued, clipboard' = clipboard, made' = made,
         {y.tree} \cup ToSet(before') \cup ToSet(after')
           \subseteq {m.tree} \cup ToSet(before) \cup ToSet(after),
         Line(Pasts, executed', before', y.tree), Line(Futures, undone', after', y.tree),
         SelectsOnly(executed', Item \ Fresh), SelectsOnly(undone', Item \ Fresh)
  PROVE  IInv'
<1>1. Awaited' = Awaited /\ Fresh' = Fresh
  BY DEF Awaited, Fresh
<1>2. Typed'
  <2>1. given' \in 0 .. MaxPerTick
    BY OperationStackAssumption DEF IInv, Typed
  <2> QED BY <2>1 DEF IInv, Typed
<1>3. Pending'
  BY <1>1 DEF IInv, Pending
<1>4. SelectsOthers'
  BY <1>1 DEF IInv, SelectsOthers
<1>5. InsertedOnce'
  <2>1. Selected' = ToSet(y.selection)
    BY DEF Selected
  <2>2. \A c \in Fresh : \A h \in {m.tree} \cup ToSet(before) \cup ToSet(after) : h.parent[c] = None
    BY DEF IInv, InsertedOnce
  <2> QED BY <1>1, <2>1, <2>2 DEF InsertedOnce
<1>6. Line(Pasts, executed', before', m'.tree) /\ Line(Futures, undone', after', m'.tree)
  OBVIOUS
<1> QED BY <1>2, <1>3, <1>4, <1>5, <1>6 DEF IInv

\* Undo does not stop, and goes back to the last of before.
LEMMA UndoIsDone ==
  ASSUME IInv, UndoKey
  PROVE  /\ IInv' /\ IsRunning(m')
         /\ before # <<>> /\ before' = SubSeq(before, 1, Len(before) - 1)
         /\ m'.tree = before[Len(before)] /\ after' = Append(after, m.tree)
<1>1. /\ m \in Machines /\ IsRunning(m) /\ m.tree \in Trees /\ executed # <<>>
      /\ ToSet(m.selection) \subseteq Item \ Fresh /\ given < MaxPerTick
  <2>1. m \in Machines
    BY DEF IInv, Typed
  <2>2. IsRunning(m) /\ executed # <<>> /\ given < MaxPerTick
    BY DEF UndoKey, Input, Running, IsRunning
  <2>3. m.tree \in Trees
    BY <2>1 DEF Machines, Trees, Tree
  <2> QED BY <2>1, <2>2, <2>3, OthersAre DEF Selected
<1>2. PICK ops, h : ops = Last(executed) /\ h = Last(before)
  OBVIOUS
<1>3. /\ Line(Pasts, executed, before, m.tree) /\ Line(Futures, undone, after, m.tree)
      /\ executed \in Seq(Compounds) /\ undone \in Seq(Compounds)
      /\ before \in Seq(Trees) /\ after \in Seq(Trees) /\ Len(before) = Len(executed)
  BY DEF IInv, Line
<1>4. /\ Line(Pasts, Front(executed), Front(before), h)
      /\ <<ops, h, m.tree>> \in Pasts /\ ops \in Compounds /\ h \in Trees
      /\ h = before[Len(before)] /\ Front(before) = SubSeq(before, 1, Len(before) - 1)
  BY <1>1, <1>2, <1>3, LineShrinks
<1>5. Follows(ops, h, m.tree)
  BY <1>4 DEF Pasts
<1>6. PICK r : r = Undo(ops, m)
  OBVIOUS
<1>7. r.ops = ops /\ r.m \in Machines /\ IsRunning(r.m) /\ r.m.tree = h
  BY <1>1, <1>5, <1>6 DEF Follows
<1>8. /\ m' = r.m /\ executed' = Front(executed) /\ undone' = Append(undone, r.ops)
      /\ before' = Front(before) /\ after' = Append(after, m.tree)
      /\ given' = IF queued = <<>> THEN 0 ELSE given + 1
      /\ queued' = queued /\ clipboard' = clipboard /\ made' = made
  <2>1. r.m.status = "running"
    BY <1>7 DEF IsRunning
  <2> QED BY <1>2, <1>6, <2>1 DEF UndoKey
<1>9. /\ SelectsOnly(executed, Item \ Fresh) /\ SelectsOnly(undone, Item \ Fresh)
  BY DEF IInv, SelectsOthers
<1>10. SelectsOnly(executed', Item \ Fresh) /\ SelectsIn(ops, Item \ Fresh)
  BY <1>1, <1>2, <1>3, <1>8, <1>9, SelectsOnlyMoves
<1>11. SelectsOnly(undone', Item \ Fresh)
  BY <1>3, <1>4, <1>7, <1>8, <1>9, <1>10, SelectsOnlyMoves
<1>12. ToSet(r.m.selection) \subseteq Item \ Fresh
  BY <1>1, <1>4, <1>6, <1>10, UndoIs
<1>13. Line(Futures, undone', after', h)
  <2>1. <<ops, m.tree, h>> \in Futures
    BY <1>1, <1>4, <1>5 DEF Futures
  <2> QED BY <1>1, <1>3, <1>4, <1>7, <1>8, <2>1, LineGrows
<1>14. before # <<>>
  BY <1>1, <1>3
<1>15. {h} \cup ToSet(before') \cup ToSet(after')
         \subseteq {m.tree} \cup ToSet(before) \cup ToSet(after)
  BY <1>1, <1>2, <1>3, <1>8, <1>14, HistoryMoves
<1>16. IInv'
  BY <1>1, <1>4, <1>7, <1>8, <1>10, <1>11, <1>12, <1>13, <1>15, MovesKeep
<1> QED BY <1>4, <1>7, <1>8, <1>14, <1>16

\* Redo does not stop, and goes on to the last of after.
LEMMA RedoIsDone ==
  ASSUME IInv, RedoKey
  PROVE  /\ IInv' /\ IsRunning(m')
         /\ after # <<>> /\ after' = SubSeq(after, 1, Len(after) - 1)
         /\ m'.tree = after[Len(after)] /\ before' = Append(before, m.tree)
<1>1. /\ m \in Machines /\ IsRunning(m) /\ m.tree \in Trees /\ undone # <<>>
      /\ ToSet(m.selection) \subseteq Item \ Fresh /\ given < MaxPerTick
  <2>1. m \in Machines
    BY DEF IInv, Typed
  <2>2. IsRunning(m) /\ undone # <<>> /\ given < MaxPerTick
    BY DEF RedoKey, Input, Running, IsRunning
  <2>3. m.tree \in Trees
    BY <2>1 DEF Machines, Trees, Tree
  <2> QED BY <2>1, <2>2, <2>3, OthersAre DEF Selected
<1>2. PICK ops, h : ops = Last(undone) /\ h = Last(after)
  OBVIOUS
<1>3. /\ Line(Pasts, executed, before, m.tree) /\ Line(Futures, undone, after, m.tree)
      /\ executed \in Seq(Compounds) /\ undone \in Seq(Compounds)
      /\ before \in Seq(Trees) /\ after \in Seq(Trees) /\ Len(after) = Len(undone)
  BY DEF IInv, Line
<1>4. /\ Line(Futures, Front(undone), Front(after), h)
      /\ <<ops, h, m.tree>> \in Futures /\ ops \in Compounds /\ h \in Trees
      /\ h = after[Len(after)] /\ Front(after) = SubSeq(after, 1, Len(after) - 1)
  BY <1>1, <1>2, <1>3, LineShrinks
<1>5. Follows(ops, m.tree, h)
  BY <1>4 DEF Futures
<1>6. PICK r : r = Execute(ops, m)
  OBVIOUS
<1>7. r.ops = ops /\ r.m \in Machines /\ IsRunning(r.m) /\ r.m.tree = h
  BY <1>1, <1>5, <1>6 DEF Follows
<1>8. /\ m' = r.m /\ undone' = Front(undone) /\ executed' = Append(executed, r.ops)
      /\ after' = Front(after) /\ before' = Append(before, m.tree)
      /\ given' = IF queued = <<>> THEN 0 ELSE given + 1
      /\ queued' = queued /\ clipboard' = clipboard /\ made' = made
  <2>1. r.m.status = "running"
    BY <1>7 DEF IsRunning
  <2> QED BY <1>2, <1>6, <2>1 DEF RedoKey
<1>9. /\ SelectsOnly(executed, Item \ Fresh) /\ SelectsOnly(undone, Item \ Fresh)
  BY DEF IInv, SelectsOthers
<1>10. SelectsOnly(undone', Item \ Fresh) /\ SelectsIn(ops, Item \ Fresh)
  BY <1>1, <1>2, <1>3, <1>8, <1>9, SelectsOnlyMoves
<1>11. SelectsOnly(executed', Item \ Fresh)
  BY <1>3, <1>4, <1>7, <1>8, <1>9, <1>10, SelectsOnlyMoves
<1>12. ToSet(r.m.selection) \subseteq Item \ Fresh
  BY <1>1, <1>4, <1>6, <1>10, ExecuteIs
<1>13. Line(Pasts, executed', before', h)
  <2>1. <<ops, m.tree, h>> \in Pasts
    BY <1>1, <1>4, <1>5 DEF Pasts
  <2> QED BY <1>1, <1>3, <1>4, <1>7, <1>8, <2>1, LineGrows
<1>14. after # <<>>
  BY <1>1, <1>3
<1>15. {h} \cup ToSet(before') \cup ToSet(after')
         \subseteq {m.tree} \cup ToSet(before) \cup ToSet(after)
  <2>1. {h} \cup ToSet(after') \cup ToSet(before')
         \subseteq {m.tree} \cup ToSet(after) \cup ToSet(before)
    BY <1>1, <1>2, <1>3, <1>8, <1>14, HistoryMoves
  <2> QED BY <2>1
<1>16. IInv'
  BY <1>1, <1>4, <1>7, <1>8, <1>10, <1>11, <1>12, <1>13, <1>15, MovesKeep
<1> QED BY <1>4, <1>7, <1>8, <1>14, <1>16
-----------------------------------------------------------------------------
(***************************************************************************)
(* Update.  After the first k of the queued operations the line is as much *)
(* longer, and what is still to be inserted is still nowhere.              *)
(***************************************************************************)
Reached(k, r) ==
  /\ Line(Pasts, executed \o r.done, before \o r.trees, r.m.tree)
  /\ SelectsOnly(executed \o r.done, Item \ Fresh)
  /\ ToSet(r.m.selection) \subseteq Item \ Fresh
  /\ \A c \in Fresh :
       (\A i \in 1 .. Len(queued) : i <= k =>
          \A l \in 1 .. Len(queued[i]) : queued[i][l].item # c)
       => \A h \in {r.m.tree} \cup ToSet(before \o r.trees) : h.parent[c] = None
  /\ Len(r.trees) = k /\ Append(r.trees, r.m.tree)[1] = m.tree

\* Two lists and one more element.
LEMMA JoinAppend ==
  ASSUME NEW A, NEW s \in Seq(A), NEW t \in Seq(A), NEW x \in A
  PROVE  s \o Append(t, x) = Append(s \o t, x)
<1>1. Append(t, x) = t \o <<x>> /\ <<x>> \in Seq(A)
  BY AppendIsConcat
<1>2. Append(s \o t, x) = (s \o t) \o <<x>>
  <2>1. s \o t \in Seq(A)
    OBVIOUS
  <2> QED BY <2>1, AppendIsConcat
<1>3. s \o (t \o <<x>>) = (s \o t) \o <<x>>
  BY <1>1, ConcatAssociative
<1> QED BY <1>1, <1>2, <1>3

\* A queued insertion is of an item that is in no tree when its turn comes.
LEMMA TurnOfFresh ==
  ASSUME IInv, NEW k \in 1 .. Len(queued), NEW r \in Batch, Reached(k - 1, r)
  PROVE  InsertsFresh(queued[k], r.m.tree)
<1>1. queued \in Seq(Compounds) /\ Pending
  BY DEF IInv, Typed
<1> DEFINE ops == queued[k]
<1>2. SUFFICES ASSUME NEW l \in 1 .. Len(ops), ops[l].kind = "insert"
               PROVE  /\ r.m.tree.parent[ops[l].item] = None
                      /\ \A j \in 1 .. Len(ops) : j # l => ops[j].item # ops[l].item
  BY DEF InsertsFresh
<1>3. PICK c : c = ops[l].item
  OBVIOUS
<1>4. c \in Fresh
  <2>1. Inserts(queued[k], c)
    BY <1>2, <1>3 DEF Inserts
  <2>2. c \in InsertedBy(queued)
    BY <1>1, <2>1, InsertedByIs
  <2> QED BY <2>2 DEF Fresh, Awaited, InsertedBy
<1>5. \A j \in 1 .. Len(queued) : \A i \in 1 .. Len(queued[j]) :
        queued[j][i].item = c => j = k /\ i = l
  BY <1>1, <1>3, <1>4 DEF Pending
<1>6. \A i \in 1 .. Len(queued) : i <= k - 1 =>
        \A j \in 1 .. Len(queued[i]) : queued[i][j].item # c
  <2>1. \A i \in 1 .. Len(queued) : i <= k - 1 => i # k
    OBVIOUS
  <2> QED BY <1>5, <2>1
<1>7. r.m.tree.parent[c] = None
  BY <1>4, <1>6 DEF Reached
<1> QED BY <1>3, <1>5, <1>7

\* One more of the queued operations extends the line.
LEMMA BatchStep ==
  ASSUME IInv, NEW k \in 1 .. Len(queued), NEW r \in Batch, Reached(k - 1, r),
         IsRunning(r.m), NEW q, q = NextBatch(queued[k], r), IsRunning(q.m)
  PROVE  Reached(k, q)
<1>1. /\ queued \in Seq(Compounds) /\ Pending /\ executed \in Seq(Compounds)
      /\ before \in Seq(Trees)
  BY DEF IInv, Typed, Line
<1>2. PICK ops : ops = queued[k]
  OBVIOUS
<1>3. PICK x : x = r.m
  OBVIOUS
<1>4. PICK e : e = Execute(ops, x)
  OBVIOUS
<1>5. /\ ops \in Compounds /\ x \in Machines /\ r.done \in Seq(Compounds)
      /\ r.trees \in Seq(Trees) /\ IsRunning(x)
  BY <1>1, <1>2, <1>3 DEF Batch
<1>6. /\ q \in Batch /\ q.m = e.m /\ q.done = Append(r.done, e.ops)
      /\ q.trees = Append(r.trees, x.tree)
  BY <1>2, <1>3, <1>4, <1>5, NextBatchIs
<1>7. /\ e.ops \in Compounds /\ e.m \in Machines /\ Alike(ops, e.ops)
      /\ \A P : ToSet(x.selection) \subseteq P /\ SelectsIn(ops, P)
                => ToSet(e.m.selection) \subseteq P
  BY <1>4, <1>5, ExecuteIs
<1>8. x.tree \in Trees /\ e.m.tree \in Trees
  BY <1>5, <1>7 DEF Machines, Trees, Tree
<1>9. \A l \in 1 .. Len(ops) : Sound(ops[l])
  BY <1>1, <1>2 DEF Pending
<1>10. InsertsFresh(ops, x.tree)
  BY <1>2, <1>3, TurnOfFresh
<1>11. /\ Follows(e.ops, x.tree, e.m.tree)
       /\ \A c \in Item :
            x.tree.parent[c] = None /\ (\A l \in 1 .. Len(ops) : ops[l].item # c)
            => e.m.tree.parent[c] = None
  BY <1>4, <1>5, <1>6, <1>9, <1>10, ExecuteFollows
<1>12. /\ executed \o r.done \in Seq(Compounds) /\ before \o r.trees \in Seq(Trees)
       /\ executed \o q.done = Append(executed \o r.done, e.ops)
       /\ before \o q.trees = Append(before \o r.trees, x.tree)
  <2>1. executed \o r.done \in Seq(Compounds) /\ before \o r.trees \in Seq(Trees)
    BY <1>1, <1>5
  <2>2. executed \o q.done = Append(executed \o r.done, e.ops)
    <3>1. /\ executed \in Seq(Compounds) /\ r.done \in Seq(Compounds)
          /\ e.ops \in Compounds
      BY <1>1, <1>5, <1>7
    <3>2. executed \o Append(r.done, e.ops) = Append(executed \o r.done, e.ops)
      BY ONLY <3>1, JoinAppend
    <3> QED BY <1>6, <3>2
  <2>3. before \o q.trees = Append(before \o r.trees, x.tree)
    <3>1. /\ before \in Seq(Trees) /\ r.trees \in Seq(Trees)
          /\ x.tree \in Trees
      BY <1>1, <1>5, <1>8
    <3>2. before \o Append(r.trees, x.tree) = Append(before \o r.trees, x.tree)
      BY ONLY <3>1, JoinAppend
    <3> QED BY <1>6, <3>2
  <2> QED BY <2>1, <2>2, <2>3
<1>13. Line(Pasts, executed \o q.done, before \o q.trees, e.m.tree)
  <2>1. <<e.ops, x.tree, e.m.tree>> \in Pasts
    BY <1>7, <1>8, <1>11 DEF Pasts
  <2>2. Line(Pasts, executed \o r.done, before \o r.trees, x.tree)
    BY <1>3 DEF Reached
  <2> QED BY <1>7, <1>8, <1>12, <2>1, <2>2, LineGrows
<1>14. SelectsIn(ops, Item \ Fresh) /\ SelectsIn(e.ops, Item \ Fresh)
  <2>1. SelectsIn(ops, Item \ Fresh)
    BY <1>2 DEF IInv, SelectsOthers, SelectsOnly
  <2> QED BY <1>7, <2>1 DEF SelectsIn, Alike, SameFor
<1>15. SelectsOnly(executed \o q.done, Item \ Fresh)
  <2>1. SelectsOnly(executed \o r.done, Item \ Fresh)
    BY DEF Reached
  <2> QED BY <1>7, <1>12, <1>14, <2>1, SelectsOnlyMoves
<1>16. ToSet(e.m.selection) \subseteq Item \ Fresh
  <2>1. ToSet(x.selection) \subseteq Item \ Fresh
    BY <1>3 DEF Reached
  <2> QED BY <1>7, <1>14, <2>1
<1>17. ASSUME NEW c \in Fresh,
              \A i \in 1 .. Len(queued) : i <= k =>
                 \A l \in 1 .. Len(queued[i]) : queued[i][l].item # c
       PROVE  \A h \in {e.m.tree} \cup ToSet(before \o q.trees) : h.parent[c] = None
  <2>1. \A i \in 1 .. Len(queued) : i <= k - 1 => i <= k
    OBVIOUS
  <2>2. \A h \in {x.tree} \cup ToSet(before \o r.trees) : h.parent[c] = None
    BY <1>3, <1>17, <2>1 DEF Reached
  <2>3. \A l \in 1 .. Len(ops) : ops[l].item # c
    BY <1>2, <1>17
  <2>4. c \in Item
    <3>1. InsertedBy(queued) \subseteq Item
      BY <1>1, InsertedByIs
    <3> QED BY <3>1, OperationStackAssumption DEF Fresh, Awaited, InsertedBy
  <2>5. e.m.tree.parent[c] = None
    BY <1>11, <2>2, <2>3, <2>4
  <2>6. ToSet(before \o q.trees) = ToSet(before \o r.trees) \cup {x.tree}
    <3>1. PICK t : t = before \o r.trees
      OBVIOUS
    <3>2. t \in Seq(Trees) /\ before \o q.trees = Append(t, x.tree)
      BY <1>12, <3>1
    <3>3. ToSet(Append(t, x.tree)) = ToSet(t) \cup {x.tree}
      BY ONLY <1>8, <3>2, AppendLeaves
    <3> QED BY <3>1, <3>2, <3>3
  <2>7. ASSUME NEW h \in {e.m.tree} \cup ToSet(before \o q.trees)
        PROVE  h.parent[c] = None
    <3>1. h = e.m.tree \/ h \in {x.tree} \cup ToSet(before \o r.trees)
      BY <2>6, <2>7
    <3>2. CASE h = e.m.tree
      BY <2>5, <3>2
    <3>3. CASE h \in {x.tree} \cup ToSet(before \o r.trees)
      BY <2>2, <3>3
    <3> QED BY <3>1, <3>2, <3>3
  <2> QED BY <2>7
<1>18. Len(q.trees) = k /\ Append(q.trees, e.m.tree)[1] = m.tree
  <2>1. Len(r.trees) = k - 1 /\ Append(r.trees, x.tree)[1] = m.tree
    BY <1>3 DEF Reached
  <2>2. q.trees \in Seq(Trees) /\ q.trees[1] = m.tree /\ Len(q.trees) = k
    BY <1>5, <1>6, <1>8, <2>1
  <2> QED BY <1>8, <2>2
<1> QED BY <1>6, <1>13, <1>15, <1>16, <1>17, <1>18 DEF Reached

\* Joining a list without elements.
LEMMA JoinNothing ==
  ASSUME NEW A, NEW s \in Seq(A), NEW t, t = <<>>
  PROVE  s \o t = s
OBVIOUS

\* The beginning of a joined list.
LEMMA JoinBegins ==
  ASSUME NEW A, NEW s \in Seq(A), NEW t \in Seq(A), Len(t) >= 1
  PROVE  SubSeq(s \o t, 1, Len(s) + 1) = Append(s, t[1])
<1> DEFINE n == Len(s)
           u == s \o t
           b == SubSeq(u, 1, n + 1)
           a == Append(s, t[1])
<1>1. n \in Nat /\ Len(t) \in Nat
  OBVIOUS
<1>2. /\ u \in Seq(A) /\ Len(u) = n + Len(t)
      /\ \A i \in 1 .. n : u[i] = s[i]
      /\ u[n + 1] = t[1]
  BY JoinedLists
<1>3. /\ a \in Seq(A) /\ Len(a) = n + 1 /\ a[n + 1] = t[1]
      /\ \A i \in 1 .. n : a[i] = s[i]
  <2>1. t[1] \in A
    OBVIOUS
  <2> QED BY <2>1
<1> HIDE DEF n, u, a
<1>4. \A i \in 1 .. n + 1 : u[i] \in A
  BY <1>1, <1>2
<1>5. /\ b \in Seq(A) /\ Len(b) = n + 1
      /\ \A i \in 1 .. n + 1 : b[i] = u[i]
  <2>1. Len(b) = IF 1 <= n + 1 THEN n + 1 - 1 + 1 ELSE 0
    BY <1>1, <1>4, SubSeqProperties
  <2>2. \A i \in 1 .. n + 1 - 1 + 1 : b[i] = u[1 + i - 1]
    BY <1>1, <1>4, SubSeqProperties
  <2>3. b \in Seq(A)
    BY <1>1, <1>4, SubSeqProperties
  <2> HIDE DEF b
  <2>4. n + 1 - 1 + 1 = n + 1 /\ \A i \in 1 .. n + 1 : 1 + i - 1 = i
    BY <1>1
  <2> QED BY <1>1, <2>1, <2>2, <2>3, <2>4
<1> HIDE DEF b
<1>6. ASSUME NEW i \in 1 .. n + 1 PROVE b[i] = a[i]
  <2>1. i = n + 1 \/ i \in 1 .. n
    BY <1>1
  <2> QED BY <1>2, <1>3, <1>5, <2>1
<1>7. b = a
  BY <1>3, <1>5, <1>6
<1> QED BY <1>7 DEF a, b, n, u

\* The program that still runs at the end ran all the time.
LEMMA AllRan ==
  ASSUME m \in Machines, queued \in Seq(Compounds),
         NEW run \in [0 .. Len(queued) -> Batch], Batches(run), IsRunning(run[Len(queued)].m)
  PROVE  \A k \in 0 .. Len(queued) : IsRunning(run[k].m)
<1> DEFINE n == Len(queued)
           T == {j \in 0 .. n : IsRunning(run[n - j].m)}
<1>1. n \in Nat /\ \A k \in 1 .. n : queued[k] \in Compounds
  OBVIOUS
<1> HIDE DEF n
<1>2. 0 \in T
  BY <1>1 DEF n
<1>3. ASSUME NEW j \in 0 .. n - 1, j \in T PROVE j + 1 \in T
  <2>1. n - j \in 1 .. n /\ n - j \in 0 .. n /\ n - (j + 1) = (n - j) - 1
        /\ (n - j) - 1 \in 0 .. n /\ j + 1 \in 0 .. n
    BY <1>1
  <2>2. PICK k : k = n - j
    OBVIOUS
  <2>3. PICK r : r = run[k - 1]
    OBVIOUS
  <2>4. r \in Batch /\ run[k] = NextBatch(queued[k], r) /\ queued[k] \in Compounds
    BY <1>1, <2>1, <2>2, <2>3 DEF Batches, n
  <2>5. run[k].m = Execute(queued[k], r.m).m
    BY <2>4, NextBatchIs
  <2>6. IsRunning(run[k].m)
    BY <1>3, <2>2
  <2>7. r.m \in Machines
    BY <2>4 DEF Batch
  <2>8. ~IsRunning(r.m) => Execute(queued[k], r.m).m = r.m
    BY <2>4, <2>7, ExecuteIs
  <2>9. IsRunning(r.m)
    BY <2>5, <2>6, <2>8
  <2> QED BY <2>1, <2>2, <2>3, <2>9
<1>4. 0 .. n \subseteq T
  <2> HIDE DEF T
  <2> QED BY <1>1, <1>2, <1>3, CountingUp
<1>5. ASSUME NEW k \in 0 .. n PROVE IsRunning(run[k].m)
  <2>1. n - k \in 0 .. n /\ n - (n - k) = k
    BY <1>1
  <2>2. n - k \in T
    BY <1>4, <2>1
  <2> QED BY <2>1, <2>2
<1> QED BY <1>5 DEF n

\* All of what was queued is reached.
LEMMA AllReached ==
  ASSUME IInv, NEW r, r = Executed, IsRunning(r.m)
  PROVE  r \in Batch /\ Reached(Len(queued), r)
<1> DEFINE n == Len(queued)
<1>1. m \in Machines /\ queued \in Seq(Compounds) /\ n \in Nat
  BY DEF IInv, Typed
<1>2. PICK run \in [0 .. n -> Batch] : Batches(run) /\ r = run[n]
  BY <1>1, ExecutedRuns
<1>3. \A k \in 0 .. n : IsRunning(run[k].m)
  BY <1>1, <1>2, AllRan
<1> DEFINE T == {k \in 0 .. n : Reached(k, run[k])}
<1>4. 0 \in T
  <2>1. PICK b : b = run[0]
    OBVIOUS
  <2>2. PICK none : none = <<>>
    OBVIOUS
  <2>3. b.m = m /\ b.done = none /\ b.trees = none
    BY <1>2, <2>1, <2>2 DEF Batches
  <2>4. /\ Line(Pasts, executed, before, m.tree) /\ SelectsOnly(executed, Item \ Fresh)
        /\ executed \in Seq(Compounds) /\ before \in Seq(Trees)
    BY DEF IInv, SelectsOthers, Line
  <2>5. executed \o none = executed
    BY <2>2, <2>4, JoinNothing
  <2>6. before \o none = before
    BY <2>2, <2>4, JoinNothing
  <2>7. ToSet(m.selection) \subseteq Item \ Fresh
    BY OthersAre DEF Selected
  <2>8. \A c \in Fresh : \A h \in {m.tree} \cup ToSet(before) : h.parent[c] = None
    BY DEF IInv, InsertedOnce
  <2>9. Len(none) = 0 /\ Append(none, m.tree)[1] = m.tree
    BY <2>2
  <2>10. Reached(0, b)
    BY <2>3, <2>4, <2>5, <2>6, <2>7, <2>8, <2>9 DEF Reached
  <2> QED BY <1>1, <2>1, <2>10
<1>5. ASSUME NEW j \in 0 .. n - 1, j \in T PROVE j + 1 \in T
  <2>1. PICK k : k = j + 1
    OBVIOUS
  <2>2. k \in 1 .. n /\ k \in 0 .. n /\ k - 1 = j /\ k - 1 \in 0 .. n
    BY <1>1, <2>1
  <2>3. PICK q, s : q = run[k] /\ s = run[k - 1]
    OBVIOUS
  <2>4. /\ s \in Batch /\ q = NextBatch(queued[k], s)
        /\ IsRunning(s.m) /\ IsRunning(q.m) /\ Reached(k - 1, s)
    BY <1>2, <1>3, <1>5, <2>2, <2>3 DEF Batches
  <2>5. Reached(k, q)
    BY <2>2, <2>4, BatchStep
  <2> QED BY <2>1, <2>2, <2>3, <2>5
<1>6. 0 .. n \subseteq T
  <2> HIDE DEF T, n
  <2> QED BY <1>1, <1>4, <1>5, CountingUp
<1>7. n \in T
  BY <1>1, <1>6
<1> QED BY <1>1, <1>2, <1>7

\* What was executed is in the line, and nothing is queued any more.
LEMMA UpdateKeeps ==
  ASSUME IInv, queued # <<>>, NEW r \in Batch, Reached(Len(queued), r),
         m' = r.m, executed' = executed \o r.done, before' = before \o r.trees,
         queued' = <<>>, undone' = <<>>, after' = <<>>, given' = 0,
         clipboard' = clipboard, made' = made
  PROVE  IInv'
<1>1. PICK none : none = <<>>
  OBVIOUS
<1>2. none \in Seq(Compounds) /\ none \in Seq(Trees) /\ Len(none) = 0 /\ ToSet(none) = {}
  BY <1>1 DEF ToSet
<1>3. Awaited' = {} /\ Fresh' = Clones \ made
  <2>1. ToSet(queued') = {}
    BY <1>1, <1>2
  <2>2. Awaited' = {}
    BY <2>1 DEF Awaited
  <2> QED BY <2>2 DEF Fresh
<1>4. Fresh' \subseteq Fresh
  BY <1>3 DEF Fresh
<1>5. Typed'
  <2>1. r.m \in Machines
    BY DEF Batch
  <2>2. 0 \in 0 .. MaxPerTick
    BY OperationStackAssumption
  <2> QED BY <1>1, <1>2, <2>1, <2>2 DEF IInv, Typed
<1>6. Line(Pasts, executed', before', m'.tree)
  BY DEF Reached
<1>7. Line(Futures, undone', after', m'.tree)
  BY <1>1, <1>2 DEF Line
<1>8. Pending'
  BY <1>1, <1>2 DEF Pending
<1>9. SelectsOthers'
  <2>1. SelectsOnly(executed', Item \ Fresh)
    BY DEF Reached
  <2>2. SelectsOnly(executed', Item \ Fresh')
    BY <1>4, <2>1 DEF SelectsOnly, SelectsIn
  <2>3. SelectsOnly(queued', Item \ Fresh') /\ SelectsOnly(undone', Item \ Fresh')
    BY <1>1, <1>2 DEF SelectsOnly
  <2> QED BY <2>2, <2>3 DEF SelectsOthers
<1>10. InsertedOnce'
  <2>1. ASSUME NEW c \in Fresh'
        PROVE  /\ c \notin Selected'
               /\ \A h \in {m'.tree} \cup ToSet(before') \cup ToSet(after') : h.parent[c] = None
    <3>1. c \in Fresh /\ c \notin made
      BY <1>3, <1>4
    <3>2. c \notin Selected'
      <4>1. ToSet(r.m.selection) \subseteq Item \ Fresh
        BY DEF Reached
      <4> QED BY <3>1, <4>1 DEF Selected
    <3>3. \A i \in 1 .. Len(queued) : i <= Len(queued) =>
            \A l \in 1 .. Len(queued[i]) : queued[i][l].item # c
      BY <3>1 DEF IInv, Pending
    <3>4. \A h \in {r.m.tree} \cup ToSet(before \o r.trees) : h.parent[c] = None
      BY <3>1, <3>3 DEF Reached
    <3>5. ToSet(after') = {}
      BY <1>1, <1>2
    <3> QED BY <3>2, <3>4, <3>5
  <2> QED BY <2>1 DEF InsertedOnce
<1> QED BY <1>5, <1>6, <1>7, <1>8, <1>9, <1>10 DEF IInv

\* Update extends the line by all that was queued, or stops and leaves it.
LEMMA UpdateIsDone ==
  ASSUME IInv, Update
  PROVE  /\ IInv'
         /\ \/ /\ Len(before') > Len(before) /\ after' = <<>>
               /\ SubSeq(before', 1, Len(before) + 1) = Append(before, m.tree)
            \/ m'.tree = m.tree /\ before' = before /\ after' = after
<1>1. m \in Machines /\ queued \in Seq(Compounds) /\ queued # <<>>
      /\ clipboard' = clipboard /\ made' = made
  BY DEF IInv, Typed, Update
<1>2. PICK r : r = Executed
  OBVIOUS
<1>3. r \in Batch
  <2>1. PICK run \in [0 .. Len(queued) -> Batch] : r = run[Len(queued)]
    BY <1>1, <1>2, ExecutedRuns
  <2>2. Len(queued) \in 0 .. Len(queued)
    BY <1>1
  <2> QED BY <2>1, <2>2
<1>4. CASE ~IsRunning(r.m)
  <2>1. r.m.status \in Statuses
    BY <1>3 DEF Batch, Machines
  <2>2. Crash(r.m.status)
    BY <1>2, <1>4 DEF Update, IsRunning
  <2>3. PICK why \in Statuses : why = r.m.status
    BY <2>1
  <2>4. m' = Stopped(m, why) /\ Idle
    BY <2>2, <2>3 DEF Crash
  <2>5. IInv'
    BY <1>1, <2>3, <2>4, CrashKeeps
  <2>6. m'.tree = m.tree /\ before' = before /\ after' = after
    <3>1. Stopped(m, why).tree = m.tree
      BY <1>1, <2>3, StoppedIs
    <3> QED BY <2>4, <3>1 DEF Idle, history
  <2> QED BY <2>5, <2>6
<1>5. CASE IsRunning(r.m)
  <2>1. Reached(Len(queued), r)
    BY <1>2, <1>5, AllReached
  <2>2. /\ m' = r.m /\ executed' = executed \o r.done /\ before' = before \o r.trees
        /\ queued' = <<>> /\ undone' = <<>> /\ after' = <<>> /\ given' = 0
    BY <1>2, <1>5 DEF Update, IsRunning
  <2>3. IInv'
    BY <1>1, <1>3, <2>1, <2>2, UpdateKeeps
  <2>4. /\ before \in Seq(Trees) /\ r.trees \in Seq(Trees) /\ r.m.tree \in Trees
        /\ Len(r.trees) >= 1 /\ r.trees[1] = m.tree
    <3>1. Len(r.trees) = Len(queued) /\ Append(r.trees, r.m.tree)[1] = m.tree
      BY <2>1 DEF Reached
    <3>2. before \in Seq(Trees) /\ r.trees \in Seq(Trees)
      BY <1>3 DEF IInv, Line, Batch
    <3>3. r.m.tree \in Trees
      BY <1>3 DEF Batch, Machines, Trees, Tree
    <3>4. Len(queued) >= 1
      BY <1>1
    <3>5. Append(r.trees, r.m.tree)[1] = r.trees[1]
      BY <3>1, <3>2, <3>3, <3>4
    <3> QED BY <3>1, <3>2, <3>3, <3>4, <3>5
  <2>5. Len(before \o r.trees) > Len(before)
    BY <2>4
  <2>6. SubSeq(before \o r.trees, 1, Len(before) + 1) = Append(before, m.tree)
    BY <2>4, JoinBegins
  <2> QED BY <2>2, <2>3, <2>5, <2>6
<1> QED BY <1>4, <1>5
-----------------------------------------------------------------------------
(***************************************************************************)
(* What is true of the stack in every behaviour.                           *)
(***************************************************************************)
\* The editor starts with a tree that is well formed and without clones.
LEMMA InitHolds ==
  ASSUME Init
  PROVE  IInv
<1>1. PICK h \in InitialTrees : m = [tree |-> h, selection |-> <<>>, flagged |-> {},
                                     status |-> "running"]
  BY DEF Init
<1>2. PICK none : none = <<>>
  OBVIOUS
<1>3. /\ queued = none /\ executed = none /\ undone = none /\ clipboard = none
      /\ made = {} /\ given = 0 /\ before = none /\ after = none
  BY <1>2 DEF Init
<1>4. /\ none \in Seq(Compounds) /\ none \in Seq(Trees) /\ none \in Seq(Item)
      /\ Len(none) = 0 /\ ToSet(none) = {}
  BY <1>2 DEF ToSet
<1>5. h \in Hierarchies /\ Tree(h) /\ \A c \in Clones : h.parent[c] = None
  BY OperationStackAssumption DEF Tree
<1>6. m.tree = h /\ m.selection = none /\ m \in Machines
  <2>1. m = [tree |-> h, selection |-> none, flagged |-> {}, status |-> "running"]
    BY <1>1, <1>2
  <2> QED BY <1>4, <1>5, <2>1 DEF Machines, Statuses
<1>7. Fresh = Clones
  <2>1. Awaited = {}
    BY <1>3, <1>4 DEF Awaited
  <2> QED BY <1>3, <2>1 DEF Fresh
<1>8. Typed
  <2>1. 0 \in 0 .. MaxPerTick
    BY OperationStackAssumption
  <2> QED BY <1>3, <1>4, <1>6, <2>1 DEF Typed
<1>9. Line(Pasts, executed, before, m.tree) /\ Line(Futures, undone, after, m.tree)
  BY <1>3, <1>4 DEF Line
<1>10. Pending /\ SelectsOthers
  BY <1>3, <1>4 DEF Pending, SelectsOthers, SelectsOnly
<1>11. InsertedOnce
  <2>1. Selected = {}
    BY <1>4, <1>6 DEF Selected
  <2> QED BY <1>3, <1>4, <1>5, <1>6, <1>7, <2>1 DEF InsertedOnce
<1> QED BY <1>8, <1>9, <1>10, <1>11 DEF IInv

\* Everything that the user does except undo and redo waits for Update.
Callers ==
  \/ \E n \in Shown : Click(n) \/ ControlClick(n)
  \/ \E n, target \in Shown, place \in Placements : Drop(n, target, place)
  \/ AttachButton
  \/ Delete \/ Cut \/ Copy \/ Duplicate \/ Paste

\* The steps.
LEMMA NextIs == Next <=> Callers \/ UndoKey \/ RedoKey \/ Update
BY DEF Next, Callers

\* What only queues operations leaves the tree and its history.
LEMMA CallersKeep ==
  ASSUME IInv, Callers
  PROVE  IInv' /\ m'.tree = m.tree /\ before' = before /\ after' = after
<1>1. m \in Machines
  BY DEF IInv, Typed
<1>2. CASE \E n \in Shown : Click(n) \/ ControlClick(n)
  <2>1. PICK n \in Shown : Click(n) \/ ControlClick(n)
    BY <1>2
  <2>2. IInv'
    BY <2>1, ClickKeeps
  <2>3. m'.tree = m.tree /\ before' = before /\ after' = after
    BY <1>1, <2>1 DEF Click, ControlClick, Idle, history, Machines
  <2> QED BY <2>2, <2>3
<1>3. CASE \E n, target \in Shown, place \in Placements : Drop(n, target, place)
  <2>1. PICK n \in Shown, target \in Shown, place \in Placements : Drop(n, target, place)
    BY <1>3
  <2>2. IInv'
    BY <2>1, DropKeeps
  <2>3. m' = m /\ before' = before /\ after' = after
    BY <2>1 DEF Drop, Queue, history
  <2> QED BY <2>2, <2>3
<1>4. CASE AttachButton
  BY <1>4, AttachButtonKeeps DEF AttachButton, Queue, history
<1>5. CASE Delete \/ Cut
  <2>1. m' = m /\ before' = before /\ after' = after
    BY <1>5 DEF Delete, Cut, DeleteSelection, Queue, history
  <2> QED BY <1>5, <2>1, DeleteAndCutKeep
<1>6. CASE Copy
  BY <1>6, CopyKeeps DEF Copy, Idle, history
<1>7. ASSUME NEW items, NEW parents, InsertClones(items, parents)
      PROVE  m'.tree = m.tree /\ before' = before /\ after' = after
  <2>1. before' = before /\ after' = after
    BY <1>7 DEF InsertClones, Queue, Idle, history
  <2>2. m' = Stopped(m, "bad_weak_ptr") \/ \E F : m' = [m EXCEPT !.flagged = F]
    BY <1>7 DEF InsertClones
  <2>3. m'.tree = m.tree
    BY <1>1, <2>2 DEF Stopped, Machines
  <2> QED BY <2>1, <2>3
<1>8. CASE Duplicate
  BY <1>7, <1>8, DuplicateKeeps DEF Duplicate
<1>9. CASE Paste
  BY <1>7, <1>9, PasteKeeps DEF Paste
<1> QED BY <1>2, <1>3, <1>4, <1>5, <1>6, <1>8, <1>9 DEF Callers

\* Every step keeps the invariant.
LEMMA StepKeeps ==
  ASSUME IInv, [Next]_vars
  PROVE  IInv'
<1>1. CASE Callers
  BY <1>1, CallersKeep
<1>2. CASE UndoKey
  BY <1>2, UndoIsDone
<1>3. CASE RedoKey
  BY <1>3, RedoIsDone
<1>4. CASE Update
  BY <1>4, UpdateIsDone
<1>5. CASE UNCHANGED vars
  <2>1. /\ m' = m /\ queued' = queued /\ executed' = executed /\ undone' = undone
        /\ clipboard' = clipboard /\ made' = made /\ given' = given
        /\ before' = before /\ after' = after
    BY <1>5 DEF vars, history
  <2>2. Awaited' = Awaited /\ Fresh' = Fresh /\ Selected' = Selected
    BY <2>1 DEF Awaited, Fresh, Selected
  <2>3. Typed'
    BY <2>1 DEF IInv, Typed
  <2>4. Line(Pasts, executed', before', m'.tree) /\ Line(Futures, undone', after', m'.tree)
    BY <2>1 DEF IInv
  <2>5. Pending'
    BY <2>1, <2>2 DEF IInv, Pending
  <2>6. SelectsOthers'
    BY <2>1, <2>2 DEF IInv, SelectsOthers
  <2>7. InsertedOnce'
    BY <2>1, <2>2 DEF IInv, InsertedOnce
  <2> QED BY <2>3, <2>4, <2>5, <2>6, <2>7 DEF IInv
<1> QED BY <1>1, <1>2, <1>3, <1>4, <1>5, NextIs

(***************************************************************************)
(* The invariant holds in every state: however the user's commands follow  *)
(* each other, the trees of the history are what executing and undoing     *)
(* lead along, and what waits to be inserted is nowhere yet.               *)
(***************************************************************************)
THEOREM Inductive == Spec => []IInv
<1>1. Init => IInv
  BY InitHolds
<1>2. IInv /\ [Next]_vars => IInv'
  BY StepKeeps
<1> QED BY <1>1, <1>2, PTL DEF Spec

\* Lists over a larger set.
LEMMA SeqsGrow ==
  ASSUME NEW A, NEW B, A \subseteq B
  PROVE  Seq(A) \subseteq Seq(B)
<1> SUFFICES ASSUME NEW s \in Seq(A) PROVE s \in Seq(B)
  OBVIOUS
<1>1. Len(s) \in Nat /\ DOMAIN s = 1 .. Len(s) /\ \A i \in 1 .. Len(s) : s[i] \in B
  OBVIOUS
<1>2. s \in [1 .. Len(s) -> B]
  OBVIOUS
<1> QED BY <1>1, <1>2, SeqDef

\* Compound operations are lists of operations.
LEMMA CompoundsTyped == Compounds \subseteq Seq(OperationType)
<1>1. OpsWith({"parent_change"}, {})
        \subseteq [kind : {"parent_change"}, item : Item, before : Item \cup {None},
                   after : Item \cup {None}, place : Placements,
                   anchor : Item \cup {None}, index : Nat, moved : Seq({}),
                   selBefore : Seq(Item), selAfter : Seq(Item)]
  BY DEF OpsWith
<1> DEFINE PlainMoves ==
             [kind : {"parent_change"}, item : Item, before : Item \cup {None},
              after : Item \cup {None}, place : Placements,
              anchor : Item \cup {None}, index : Nat, moved : Seq({}),
              selBefore : Seq(Item), selAfter : Seq(Item)]
<1>2. Seq(Moves) \subseteq Seq(PlainMoves)
  <2>1. Moves \subseteq PlainMoves
    BY <1>1 DEF Moves
  <2> QED BY <2>1, SeqsGrow
<1>3. OperationType =
        [kind : {"parent_change", "reposition", "insert", "remove"}, item : Item,
         before : Item \cup {None}, after : Item \cup {None}, place : Placements,
         anchor : Item \cup {None}, index : Nat, moved : Seq(PlainMoves),
         selBefore : Seq(Item), selAfter : Seq(Item)]
  BY DEF OperationType
<1> HIDE DEF PlainMoves
<1>4. Ops \subseteq OperationType
  BY <1>2, <1>3 DEF Ops, OpsWith
<1> QED BY <1>4, SeqsGrow DEF Compounds

(***************************************************************************)
(* The tree is a hierarchy with the depths that belong to it, the lists of *)
(* operations are lists of operations, and an input is never counted past  *)
(* the bound of a tick (operation_stack.hpp:39-49).                        *)
(***************************************************************************)
THEOREM Types == Spec => []TypeOK
<1>1. IInv => TypeOK
  <2> SUFFICES ASSUME IInv PROVE TypeOK
    OBVIOUS
  <2>1. m \in Machines
    BY DEF IInv, Typed
  <2>2. Seq(Compounds) \subseteq Seq(Seq(OperationType)) /\ Seq(Trees) \subseteq Seq(Hierarchies)
    <3>1. Trees \subseteq Hierarchies
      BY DEF Trees
    <3> QED BY <3>1, CompoundsTyped, SeqsGrow
  <2>3. /\ queued \in Seq(Compounds) /\ executed \in Seq(Compounds)
        /\ undone \in Seq(Compounds) /\ before \in Seq(Trees) /\ after \in Seq(Trees)
    BY DEF IInv, Typed, Line
  <2>4. /\ m.tree \in Hierarchies /\ m.selection \in Seq(Item) /\ m.flagged \subseteq Item
        /\ m.status \in {"running", "verify_failed", "null_parent", "no_return",
                         "bad_weak_ptr"}
    BY <2>1 DEF Machines, Statuses
  <2>5. clipboard \in Seq(Item) /\ made \subseteq Clones /\ given \in 0 .. MaxPerTick
    BY DEF IInv, Typed
  <2> QED BY <2>2, <2>3, <2>4, <2>5 DEF TypeOK
<1> QED BY <1>1, Inductive, PTL

(***************************************************************************)
(* What a queued insertion will insert is nowhere until it is executed, so *)
(* undoing it finds the item as it was: without a parent and not selected  *)
(* (item_insert_remove_operation.cpp:50-57, 121-136).                      *)
(***************************************************************************)
THEOREM OnlyInsertedOnce == Spec => []InsertedOnce
<1>1. IInv => InsertedOnce
  BY DEF IInv
<1> QED BY <1>1, Inductive, PTL

(***************************************************************************)
(* Undo and redo always come to their end: none of their verifications     *)
(* fails and none of their recursions runs on, whatever else was edited,   *)
(* undone and redone before (operation_stack.cpp:101-129).                 *)
(***************************************************************************)
THEOREM UndoComesToAnEnd == Spec => UndoReturns
<1>1. IInv /\ [Next]_vars => [UndoKey \/ RedoKey => m'.status = "running"]_vars
  <2>1. ASSUME IInv, UndoKey \/ RedoKey PROVE m'.status = "running"
    BY <2>1, UndoIsDone, RedoIsDone DEF IsRunning
  <2> QED BY <2>1
<1> QED BY <1>1, Inductive, PTL DEF Spec, UndoReturns

(***************************************************************************)
(* The stack is an undo history of item trees: undo gives back exactly the *)
(* tree before the operation, with the order of all children and all       *)
(* depths, redo exactly the one after it, and executing what is queued     *)
(* forgets what was undone (operation_stack.cpp:66-129).                   *)
(***************************************************************************)
THEOREM StackIsHistory == Spec => ImplementsHistory
<1>1. Init => History!Init
  BY DEF Init, History!Init
<1>2. ASSUME IInv, [Next]_vars PROVE [History!Next]_<<before, m.tree, after>>
  <2>1. CASE Callers
    BY <1>2, <2>1, CallersKeep
  <2>2. CASE UndoKey
    <3>1. History!UndoEdit
      BY <1>2, <2>2, UndoIsDone DEF History!UndoEdit, History!Front
    <3> QED BY <3>1 DEF History!Next
  <2>3. CASE RedoKey
    <3>1. History!RedoEdit
      BY <1>2, <2>3, RedoIsDone DEF History!RedoEdit, History!Front
    <3> QED BY <3>1 DEF History!Next
  <2>4. CASE Update
    <3>1. History!Edit \/ (m'.tree = m.tree /\ before' = before /\ after' = after)
      BY <1>2, <2>4, UpdateIsDone DEF History!Edit
    <3> QED BY <3>1 DEF History!Next
  <2>5. CASE UNCHANGED vars
    BY <2>5 DEF vars, history
  <2> QED BY <1>2, <2>1, <2>2, <2>3, <2>4, <2>5, NextIs
<1> QED BY <1>1, <1>2, Inductive, PTL DEF Spec, ImplementsHistory, History!Spec
-----------------------------------------------------------------------------
(***************************************************************************)
(* What the callers promise of the operations they construct, when each is *)
(* executed before the next input.  The items of the scene are those below *)
(* the root, which is in no list of children.                              *)
(***************************************************************************)
Rooted(h) == Tree(h) /\ h.parent[RootItem] = None

ShownIn(h) == Subtree(h, RootItem) \ {RootItem}

\* The selections that only have items of the scene, each once.
Selections(h) == {s \in Seq(Item) : ToSet(s) \subseteq ShownIn(h) /\ IsInjective(s)}

\* Nothing is below two items that have no parent.
LEMMA ApartFromRoot ==
  ASSUME NEW h, Rooted(h), NEW c \in Item, c # RootItem,
         h.parent[c] = None
  PROVE  Subtree(h, RootItem) \cap Subtree(h, c) = {}
<1>1. /\ h \in Hierarchies /\ ParentHasChild(h) /\ None \notin Item /\ RootItem \in Item
  BY NoneAssumption, OperationStackAssumption DEF Rooted, Tree, WellFormed
<1>2. /\ \A z \in Subtree(h, c) \ {c} : h.parent[z] \in Subtree(h, c)
      /\ Subtree(h, c) \subseteq Item
  BY <1>1, SubtreeInTree, SubtreeLeast DEF Rooted
<1> DEFINE S == Subtree(h, RootItem) \ Subtree(h, c)
<1>3. RootItem \in S
  BY <1>1, <1>2, SubtreeLeast DEF Rooted
<1>4. ASSUME NEW x \in S, NEW z \in Children(h, x) PROVE z \in S
  <2>1. Subtree(h, RootItem) \subseteq Item /\ ClosedIn(h, Subtree(h, RootItem))
    BY <1>1, SubtreeLeast
  <2>2. z \in Subtree(h, RootItem) /\ x \in Item /\ z \in Item
    BY <1>4, <2>1 DEF ClosedIn
  <2>3. h.parent[z] = x
    BY <1>1, <1>4, <2>2 DEF ParentHasChild
  <2>4. z # c
    BY <1>1, <2>2, <2>3
  <2>5. z \notin Subtree(h, c)
    BY <1>2, <1>4, <2>3, <2>4
  <2> QED BY <2>2, <2>5
<1>5. S \in SUBSET Item /\ ClosedIn(h, S)
  <2>1. Subtree(h, RootItem) \subseteq Item
    BY <1>1, SubtreeLeast
  <2> QED BY <1>4, <2>1 DEF ClosedIn
<1> HIDE DEF S
<1>6. Subtree(h, RootItem) \subseteq S
  BY <1>1, <1>3, <1>5, SubtreeLeast
<1> QED BY <1>6 DEF S

\* The root is below no other item, and what is below an item of the scene is
\* in the scene.
LEMMA BelowShown ==
  ASSUME NEW h, Rooted(h), NEW c \in Subtree(h, RootItem), c # RootItem
  PROVE  /\ c \in Item /\ RootItem \notin Subtree(h, c)
         /\ Subtree(h, c) \subseteq Subtree(h, RootItem)
         /\ h.parent[c] \in Subtree(h, RootItem) /\ h.parent[c] \in Item
<1>1. /\ h \in Hierarchies /\ Tree(h) /\ None \notin Item /\ RootItem \in Item
  BY NoneAssumption, OperationStackAssumption DEF Rooted, Tree
<1>2. c \in Item /\ Subtree(h, RootItem) \in SUBSET Item /\ ClosedIn(h, Subtree(h, RootItem))
  BY <1>1, SubtreeLeast
<1>3. RootItem \notin Subtree(h, c)
  <2>1. Subtree(h, c) \subseteq Item
    BY <1>1, <1>2, SubtreeLeast
  <2>2. RootItem \in Subtree(h, c) => h.parent[RootItem] \in Subtree(h, c)
    BY <1>1, <1>2, SubtreeInTree
  <2> QED BY <1>1, <2>1, <2>2 DEF Rooted
<1>4. Subtree(h, c) \subseteq Subtree(h, RootItem)
  BY <1>1, <1>2, SubtreeLeast
<1>5. h.parent[c] \in Subtree(h, RootItem)
  BY <1>1, SubtreeInTree
<1> QED BY <1>2, <1>3, <1>4, <1>5

-----------------------------------------------------------------------------
(***************************************************************************)
(* Along a list of operations: what is so before each of them, if each     *)
(* hands it on, is so at the end.                                          *)
(***************************************************************************)
LEMMA RunsThrough ==
  ASSUME NEW O, NEW does \in [O -> [Machines -> Results(O, Machines)]],
         NEW ops \in Seq(O), NEW x \in Machines, IsRunning(x), NEW result,
         Runs(O, Machines, does, ops, x, result),
         NEW G, x \in G[0],
         \A k \in 1 .. Len(ops) : \A y \in Machines :
           IsRunning(y) /\ y \in G[k - 1]
           => IsRunning(does[ops[k]][y].m) /\ does[ops[k]][y].m \in G[k]
  PROVE  result.m \in Machines /\ IsRunning(result.m) /\ result.m \in G[Len(ops)]
<1>1. PICK os \in Seq(O), ms \in [0 .. Len(ops) -> Machines] :
        /\ Len(os) = Len(ops) /\ ms[0] = x /\ Chain(does, ops, os, ms)
        /\ result = [ops |-> os, m |-> ms[Len(ops)]]
  BY DEF Runs
<1> DEFINE n == Len(ops)
           T == {k \in 0 .. n : IsRunning(ms[k]) /\ ms[k] \in G[k]}
<1>2. n \in Nat
  OBVIOUS
<1>3. 0 .. n \subseteq T
  <2>1. 0 \in T
    BY <1>1, <1>2
  <2>2. ASSUME NEW k \in 0 .. n - 1, k \in T PROVE k + 1 \in T
    <3>1. k + 1 \in 1 .. n /\ k + 1 \in 0 .. n /\ (k + 1) - 1 = k /\ k \in 0 .. n
      BY <1>2
    <3>2. ms[k] \in Machines /\ IsRunning(ms[k]) /\ ms[k] \in G[k]
      BY <2>2, <3>1
    <3>3. ms[k + 1] = does[ops[k + 1]][ms[k]].m
      BY <1>1, <3>1, <3>2 DEF Chain, IsRunning
    <3>4. IsRunning(does[ops[k + 1]][ms[k]].m) /\ does[ops[k + 1]][ms[k]].m \in G[k + 1]
      BY <3>1, <3>2
    <3> HIDE DEF n
    <3> QED BY <3>1, <3>3, <3>4
  <2> HIDE DEF T, n
  <2> QED BY <1>2, <2>1, <2>2, CountingUp
<1>4. n \in T /\ ms[n] \in Machines
  BY <1>2, <1>3
<1> QED BY <1>1, <1>4

\* Nothing to do does nothing.
LEMMA RunsNothing ==
  ASSUME NEW O, NEW does, NEW ops \in Seq(O), NEW x, NEW result,
         Runs(O, Machines, does, ops, x, result), Len(ops) = 0
  PROVE  result.m = x
BY DEF Runs

\* What the last operation of a list makes of what was there before it.
LEMMA RunsLast ==
  ASSUME NEW O, NEW does \in [O -> [Machines -> Results(O, Machines)]],
         NEW ops \in Seq(O), NEW x \in Machines, NEW result,
         Runs(O, Machines, does, ops, x, result), IsRunning(result.m), Len(ops) # 0
  PROVE  \E y \in Machines : IsRunning(y) /\ result.m = does[ops[Len(ops)]][y].m
<1>1. PICK os \in Seq(O), ms \in [0 .. Len(ops) -> Machines] :
        /\ Len(os) = Len(ops) /\ ms[0] = x /\ Chain(does, ops, os, ms)
        /\ result = [ops |-> os, m |-> ms[Len(ops)]]
  BY DEF Runs
<1> DEFINE n == Len(ops)
<1>2. n \in 1 .. n /\ n - 1 \in 0 .. n
  OBVIOUS
<1>3. IsRunning(ms[n - 1]) /\ ms[n - 1] \in Machines
  BY <1>1, <1>2, ChainRan
<1>4. ms[n] = does[ops[n]][ms[n - 1]].m
  BY <1>1, <1>2, <1>3 DEF Chain, IsRunning
<1> QED BY <1>1, <1>3, <1>4

\* Placing an item that is placed selects what it is told to.
LEMMA PlaceSelects ==
  ASSUME NEW y \in Machines, NEW n \in Item, NEW p \in Item \cup {None},
         NEW position \in Nat, NEW items \in Seq(Item),
         IsRunning(Place(y, n, p, position, items))
  PROVE  Place(y, n, p, position, items).selection = items
<1>1. PICK a : a = Attach(y, n, p, position)
  OBVIOUS
<1>2. a \in Machines
  BY <1>1, AttachIs
<1>3. Place(y, n, p, position, items) = IF a.status = "running" THEN SetSelection(a, items) ELSE a
  BY <1>1 DEF Place
<1>4. Place(y, n, p, position, items) = SetSelection(a, items)
  BY <1>3 DEF IsRunning
<1> QED BY <1>2, <1>4, SelectionIs

\* An insertion or a removal that is done leaves its own selection.
LEMMA OneSelects ==
  ASSUME NEW op \in Ops, op.kind \in {"insert", "remove"}, NEW x \in Machines, IsRunning(x)
  PROVE  /\ IsRunning(ExecuteOne(op, x).m) => ExecuteOne(op, x).m.selection = op.selAfter
         /\ IsRunning(UndoOne(op, x).m) => UndoOne(op, x).m.selection = op.selBefore
<1>1. /\ op.item \in Item /\ op.after \in Item \cup {None} /\ op.before \in Item \cup {None}
      /\ op.index \in Nat /\ op.moved \in Seq(Moves)
      /\ op.selAfter \in Seq(Item) /\ op.selBefore \in Seq(Item)
  BY OpParts DEF Ops
<1>2. IsRunning(ExecuteOne(op, x).m) => ExecuteOne(op, x).m.selection = op.selAfter
  <2>1. CASE op.kind = "insert"
    <3>1. PICK z : z = ExecuteOne(op, x).m
      OBVIOUS
    <3>2. z = Place(x, op.item, op.after, 0, op.selAfter) /\ 0 \in Nat
      BY <2>1, <3>1 DEF ExecuteOne, ExecuteInsert
    <3>3. PICK n, p, s : n = op.item /\ p = op.after /\ s = op.selAfter
      OBVIOUS
    <3>4. IsRunning(Place(x, n, p, 0, s)) => Place(x, n, p, 0, s).selection = s
      BY <1>1, <3>2, <3>3, PlaceSelects
    <3> QED BY <3>1, <3>2, <3>3, <3>4
  <2>2. CASE op.kind = "remove"
    <3>1. PICK r : r = ExecuteRemove(op, x)
      OBVIOUS
    <3>2. PICK e : e = InOrder(ExecuteParentChange, Handing(x.tree, op.item), x)
      OBVIOUS
    <3>3. PICK p, k : p = x.tree.parent[op.item] /\ k = IndexInParent(x.tree, op.item)
      OBVIOUS
    <3>4. k \in Nat
      <4>1. x.tree \in Hierarchies
        BY DEF Machines
      <4>2. IndexInParent(x.tree, op.item) \in Nat
        BY <1>1, <4>1, IndexIsNat
      <4> QED BY <3>3, <4>2
    <3>5. e.m \in Machines
      BY <3>1, <3>2, RemoveIs
    <3>6. r.m = IF p = None /\ Handing(x.tree, op.item) # <<>> THEN Stopped(x, "null_parent")
                ELSE IF e.m.status # "running" THEN e.m
                ELSE Place(e.m, op.item, op.after, k, op.selAfter)
      BY <3>1, <3>2, <3>3 DEF ExecuteRemove, Handing
    <3>7. ~IsRunning(Stopped(x, "null_parent"))
      BY StoppedIs DEF Statuses, IsRunning
    <3>8. IsRunning(r.m) => r.m = Place(e.m, op.item, op.after, k, op.selAfter)
      BY <3>6, <3>7 DEF IsRunning
    <3>9. ExecuteOne(op, x).m = r.m
      BY <2>2, <3>1 DEF ExecuteOne
    <3>10. PICK y, n, t, s : y = e.m /\ n = op.item /\ t = op.after /\ s = op.selAfter
      OBVIOUS
    <3>11. IsRunning(Place(y, n, t, k, s)) => Place(y, n, t, k, s).selection = s
      BY <1>1, <3>4, <3>5, <3>10, PlaceSelects
    <3> QED BY <3>8, <3>9, <3>10, <3>11
  <2> QED BY <2>1, <2>2
<1>3. IsRunning(UndoOne(op, x).m) => UndoOne(op, x).m.selection = op.selBefore
  <2>1. PICK r : r = UndoInsertRemove(op, x)
    OBVIOUS
  <2>2. UndoOne(op, x).m = r.m
    BY <2>1 DEF UndoOne
  <2>3. PICK a : a = Attach(x, op.item, op.before, op.index)
    OBVIOUS
  <2>4. PICK u : u = InReverse(UndoParentChange, op.moved, a)
    OBVIOUS
  <2>5. r.m = IF u.m.status = "running" THEN SetSelection(u.m, op.selBefore) ELSE u.m
    BY <2>1, <2>3, <2>4 DEF UndoInsertRemove
  <2>6. a \in Machines
    BY <1>1, <2>3, AttachIs
  <2>7. u.m \in Machines
    <3>1. InReverse(UndoParentChange, op.moved, a).m \in Machines
      BY <1>1, <2>6, PartsAre
    <3> QED BY <2>4, <3>1
  <2>8. SetSelection(u.m, op.selBefore).selection = op.selBefore
    BY <1>1, <2>7, SelectionIs
  <2> QED BY <2>2, <2>5, <2>8 DEF IsRunning
<1> QED BY <1>2, <1>3
-----------------------------------------------------------------------------
(***************************************************************************)
(* An operation that leads from a tree h to a tree g turns selections of h *)
(* into selections of g and back: it leaves the selection and the items of *)
(* the scene alone, or all its parts select what is there afterwards.      *)
(***************************************************************************)
Turns(ops, h, g) ==
  /\ Rooted(h) /\ Rooted(g)
  /\ \/ /\ Subtree(g, RootItem) = Subtree(h, RootItem)
        /\ \A k \in 1 .. Len(ops) : ops[k].selBefore = <<>> /\ ops[k].selAfter = <<>>
     \/ /\ \A k \in 1 .. Len(ops) :
             /\ ops[k].kind \in {"insert", "remove"}
             /\ ops[k].selBefore \in Selections(h) /\ ops[k].selAfter \in Selections(g)
        /\ ops = <<>> => g = h

\* It is a selection of every tree to select nothing.
LEMMA NothingSelected ==
  ASSUME NEW h
  PROVE  <<>> \in Selections(h)
<1>1. PICK none : none = <<>>
  OBVIOUS
<1>2. none \in Seq(Item) /\ DOMAIN none = {} /\ ToSet(none) = {} /\ IsInjective(none)
  BY <1>1 DEF ToSet, IsInjective
<1> QED BY <1>1, <1>2 DEF Selections

\* Executing leads from selections to selections.
LEMMA ExecutingTurns ==
  ASSUME NEW ops \in Compounds, NEW h, NEW g, Turns(ops, h, g),
         NEW x \in Machines, x.tree = h, x.selection \in Selections(h),
         IsRunning(Execute(ops, x).m), Execute(ops, x).m.tree = g
  PROVE  Execute(ops, x).m.selection \in Selections(g)
<1>1. PICK r : r = Execute(ops, x)
  OBVIOUS
<1>2. Runs(Ops, Machines, Doing, ops, x, r)
  BY <1>1, DoingRuns DEF Execute, Compounds
<1>3. Doing \in [Ops -> [Machines -> Results(Ops, Machines)]] /\ ops \in Seq(Ops)
  BY DoingType DEF Compounds
<1>4. Len(ops) \in Nat /\ \A k \in 1 .. Len(ops) : ops[k] \in Ops
  BY <1>3
<1>5. CASE /\ Subtree(g, RootItem) = Subtree(h, RootItem)
           /\ \A k \in 1 .. Len(ops) : ops[k].selBefore = <<>> /\ ops[k].selAfter = <<>>
  <2> DEFINE G == {y \in Machines : y.selection \in Selections(h)}
  <2>1. ASSUME NEW k \in 1 .. Len(ops), NEW y \in Machines \cap G
        PROVE  Doing[ops[k]][y].m \in G
    <3>1. PICK op \in Ops : op = ops[k]
      BY <1>4
    <3>2. CASE IsRunning(y)
      <4>1. PICK q : q = ExecuteOne(op, y)
        OBVIOUS
      <4>2. q \in Results(Ops, Machines) /\ q.m.selection \in {y.selection, op.selAfter}
        BY <3>2, <4>1, OneIs
      <4>3. Doing[op][y] = q /\ q.m \in Machines
        BY <3>2, <4>1, <4>2 DEF Doing, Results
      <4>4. op.selAfter \in Selections(h)
        BY <1>5, <3>1, NothingSelected
      <4> QED BY <3>1, <4>2, <4>3, <4>4
    <3>3. CASE ~IsRunning(y)
      BY <3>1, <3>3 DEF Doing
    <3> QED BY <3>2, <3>3
  <2>2. x \in G
    OBVIOUS
  <2> HIDE DEF G
  <2>3. StaysIn(Doing, ops, G)
    BY <2>1 DEF StaysIn
  <2>4. r.m \in G
    BY <1>2, <1>3, <2>2, <2>3, RunsStay
  <2>5. Selections(g) = Selections(h)
    BY <1>5 DEF Selections, ShownIn
  <2> QED BY <1>1, <2>4, <2>5 DEF G
<1>6. CASE /\ \A k \in 1 .. Len(ops) :
                /\ ops[k].kind \in {"insert", "remove"}
                /\ ops[k].selBefore \in Selections(h) /\ ops[k].selAfter \in Selections(g)
           /\ ops = <<>> => g = h
  <2>1. IsRunning(r.m)
    BY <1>1
  <2>2. CASE Len(ops) = 0
    <3>1. r.m = x
      BY <1>2, <1>3, <2>2, RunsNothing
    <3>2. ops = <<>>
      BY <1>3, <2>2
    <3>3. g = h
      BY <1>6, <3>2
    <3> QED BY <1>1, <3>1, <3>3
  <2>3. CASE Len(ops) # 0
    <3>1. PICK y \in Machines : IsRunning(y) /\ r.m = Doing[ops[Len(ops)]][y].m
      BY <1>2, <1>3, <2>1, <2>3, RunsLast
    <3>2. Len(ops) \in 1 .. Len(ops)
      BY <1>3, <2>3
    <3>3. PICK op \in Ops : op = ops[Len(ops)]
      BY <1>4, <3>2
    <3>4. r.m = ExecuteOne(op, y).m
      BY <3>1, <3>3 DEF Doing
    <3>5. op.kind \in {"insert", "remove"} /\ op.selAfter \in Selections(g)
      BY <1>6, <3>2, <3>3
    <3>6. r.m.selection = op.selAfter
      BY <2>1, <3>1, <3>4, <3>5, OneSelects
    <3> QED BY <1>1, <3>5, <3>6
  <2> QED BY <2>2, <2>3
<1> QED BY <1>5, <1>6 DEF Turns

\* Undoing leads from selections to selections.
LEMMA UndoingTurns ==
  ASSUME NEW ops \in Compounds, NEW h, NEW g, Turns(ops, h, g),
         NEW x \in Machines, x.tree = g, x.selection \in Selections(g),
         IsRunning(Undo(ops, x).m), Undo(ops, x).m.tree = h
  PROVE  Undo(ops, x).m.selection \in Selections(h)
<1>1. PICK sq : sq = Reverse(ops)
  OBVIOUS
<1>2. PICK r : r = InOrder(UndoOne, sq, x)
  OBVIOUS
<1>3. Undo(ops, x).m = r.m
  BY <1>1, <1>2 DEF Undo, InReverse
<1>4. /\ sq \in Seq(Ops) /\ Len(sq) = Len(ops)
      /\ \A k \in 1 .. Len(ops) : sq[k] = ops[Len(ops) - k + 1]
      /\ ops \in Seq(Ops) /\ Len(ops) \in Nat
  BY <1>1, ReverseIs DEF Compounds
<1>5. \A k \in 1 .. Len(sq) : sq[k] \in Ops /\ \E j \in 1 .. Len(ops) : sq[k] = ops[j]
  <2>1. \A k \in 1 .. Len(ops) : Len(ops) - k + 1 \in 1 .. Len(ops)
    BY <1>4
  <2> QED BY <1>4, <2>1
<1>6. Runs(Ops, Machines, TakingBack, sq, x, r)
  BY <1>2, <1>4, TakingBackRuns
<1>7. TakingBack \in [Ops -> [Machines -> Results(Ops, Machines)]]
  BY DoingType
<1>8. CASE /\ Subtree(g, RootItem) = Subtree(h, RootItem)
           /\ \A k \in 1 .. Len(ops) : ops[k].selBefore = <<>> /\ ops[k].selAfter = <<>>
  <2> DEFINE G == {y \in Machines : y.selection \in Selections(g)}
  <2>1. ASSUME NEW k \in 1 .. Len(sq), NEW y \in Machines \cap G
        PROVE  TakingBack[sq[k]][y].m \in G
    <3>1. PICK op \in Ops : op = sq[k]
      BY <1>5
    <3>2. CASE IsRunning(y)
      <4>1. PICK q : q = UndoOne(op, y)
        OBVIOUS
      <4>2. q \in Results(Ops, Machines) /\ q.m.selection \in {y.selection, op.selBefore}
        BY <3>2, <4>1, OneUndoneIs
      <4>3. TakingBack[op][y] = q /\ q.m \in Machines
        BY <3>2, <4>1, <4>2 DEF TakingBack, Results
      <4>4. op.selBefore \in Selections(g)
        BY <1>5, <1>8, <3>1, NothingSelected
      <4> QED BY <3>1, <4>2, <4>3, <4>4
    <3>3. CASE ~IsRunning(y)
      BY <3>1, <3>3 DEF TakingBack
    <3> QED BY <3>2, <3>3
  <2>2. x \in G
    OBVIOUS
  <2> HIDE DEF G
  <2>3. StaysIn(TakingBack, sq, G)
    BY <2>1 DEF StaysIn
  <2>4. r.m \in G
    BY <1>4, <1>6, <1>7, <2>2, <2>3, RunsStay
  <2>5. Selections(g) = Selections(h)
    BY <1>8 DEF Selections, ShownIn
  <2> QED BY <1>3, <2>4, <2>5 DEF G
<1>9. CASE /\ \A k \in 1 .. Len(ops) :
                /\ ops[k].kind \in {"insert", "remove"}
                /\ ops[k].selBefore \in Selections(h) /\ ops[k].selAfter \in Selections(g)
           /\ ops = <<>> => g = h
  <2>1. IsRunning(r.m)
    BY <1>3
  <2>2. CASE Len(ops) = 0
    <3>1. Len(sq) = 0
      BY <1>4, <2>2
    <3>2. ops = <<>>
      BY <1>4, <2>2
    <3>3. r.m = x
      BY <1>4, <1>6, <3>1, RunsNothing
    <3>4. g = h
      BY <1>9, <3>2
    <3> QED BY <1>3, <3>3, <3>4
  <2>3. CASE Len(ops) # 0
    <3>1. Len(sq) # 0 /\ Len(sq) \in 1 .. Len(sq) /\ sq \in Seq(Ops)
      BY <1>4, <2>3
    <3>2. PICK y \in Machines : IsRunning(y) /\ r.m = TakingBack[sq[Len(sq)]][y].m
      BY <1>6, <1>7, <2>1, <3>1, RunsLast
    <3>3. PICK op \in Ops : op = sq[Len(sq)]
      BY <1>5, <3>1
    <3>4. r.m = UndoOne(op, y).m
      BY <3>2, <3>3 DEF TakingBack
    <3>5. op.kind \in {"insert", "remove"} /\ op.selBefore \in Selections(h)
      BY <1>5, <1>9, <3>1, <3>3
    <3>6. r.m.selection = op.selBefore
      BY <2>1, <3>2, <3>4, <3>5, OneSelects
    <3> QED BY <1>3, <3>5, <3>6
  <2> QED BY <2>2, <2>3
<1> QED BY <1>8, <1>9 DEF Turns
-----------------------------------------------------------------------------
\* Along a compound operation: what is so of the tree before each part.
LEMMA TreesThrough ==
  ASSUME NEW ops \in Compounds, NEW x \in Machines, IsRunning(x),
         NEW G, x.tree \in G[0],
         \A k \in 1 .. Len(ops) : \A y \in Machines :
           IsRunning(y) /\ y.tree \in G[k - 1]
           => LET r == ExecuteOne(ops[k], y).m IN IsRunning(r) /\ r.tree \in G[k]
  PROVE  LET r == Execute(ops, x).m
         IN  r \in Machines /\ IsRunning(r) /\ r.tree \in G[Len(ops)]
<1>1. PICK r : r = Execute(ops, x)
  OBVIOUS
<1>2. Runs(Ops, Machines, Doing, ops, x, r)
  BY <1>1, DoingRuns DEF Execute, Compounds
<1>3. Doing \in [Ops -> [Machines -> Results(Ops, Machines)]] /\ ops \in Seq(Ops)
  BY DoingType DEF Compounds
<1>4. Len(ops) \in Nat /\ \A k \in 1 .. Len(ops) : ops[k] \in Ops
  BY <1>3
<1> DEFINE H == [k \in 0 .. Len(ops) |-> {y \in Machines : y.tree \in G[k]}]
<1>5. x \in H[0]
  BY <1>4
<1>6. ASSUME NEW k \in 1 .. Len(ops), NEW y \in Machines, IsRunning(y), y \in H[k - 1]
      PROVE  IsRunning(Doing[ops[k]][y].m) /\ Doing[ops[k]][y].m \in H[k]
  <2>1. y.tree \in G[k - 1] /\ k \in 0 .. Len(ops)
    BY <1>4, <1>6
  <2>2. PICK op \in Ops : op = ops[k]
    BY <1>4
  <2>3. PICK e : e = ExecuteOne(op, y)
    OBVIOUS
  <2>4. e \in Results(Ops, Machines)
    BY <1>6, <2>3, OneIs
  <2>5. Doing[op][y] = e /\ e.m \in Machines
    BY <1>6, <2>3, <2>4 DEF Doing, Results
  <2>6. IsRunning(e.m) /\ e.m.tree \in G[k]
    BY <1>6, <2>1, <2>2, <2>3
  <2> QED BY <2>1, <2>2, <2>5, <2>6
<1>7. H[Len(ops)] = {y \in Machines : y.tree \in G[Len(ops)]}
  BY <1>4
<1> HIDE DEF H
<1>8. r.m \in Machines /\ IsRunning(r.m) /\ r.m \in H[Len(ops)]
  BY <1>2, <1>3, <1>5, <1>6, RunsThrough
<1> QED BY <1>1, <1>7, <1>8
-----------------------------------------------------------------------------
(***************************************************************************)
(* Drag and drop.  The items cs go below the item p, in their order: what  *)
(* is said of the tree after k of them.                                    *)
(***************************************************************************)
MovedParents(h, p, cs, k) ==
  [n \in Item |-> IF \E j \in 1 .. Len(cs) : j <= k /\ cs[j] = n THEN p ELSE h.parent[n]]

MovedTrees(h, p, cs, k) ==
  {g \in Trees :
     /\ g.parent = MovedParents(h, p, cs, k)
     /\ Subtree(g, RootItem) = Subtree(h, RootItem)
     /\ \A j \in 1 .. Len(cs) : p \notin Subtree(g, cs[j])}

\* What may be moved: items of the scene, each once, that p is not below.
MayGo(h, p, cs) ==
  /\ Rooted(h) /\ p \in Item /\ p \in Subtree(h, RootItem)
  /\ cs \in Seq(Item) /\ IsInjective(cs)
  /\ \A j \in 1 .. Len(cs) : cs[j] \in ShownIn(h) /\ p \notin Subtree(h, cs[j])

\* The operation that moves the item c, which may already be below p.
Goes(op, h, p, c, anchor) ==
  /\ op \in Ops /\ op.item = c
  /\ op.place # "end" => op.anchor = anchor /\ h.parent[anchor] = p /\ anchor \in Item
  /\ \/ /\ op.kind = "parent_change" /\ op.before = h.parent[c] /\ op.after = p
        /\ op.place # "end" => h.parent[c] # p
     \/ op.kind = "reposition" /\ h.parent[c] = p /\ op.place # "end"

\* The anchor is none of the items.
Elsewhere(anchor, cs) == \A j \in 1 .. Len(cs) : cs[j] # anchor

LEMMA MovedParentsStep ==
  ASSUME NEW h, NEW p, NEW cs \in Seq(Item), IsInjective(cs), NEW k \in 1 .. Len(cs),
         h.parent \in [Item -> Item \cup {None}]
  PROVE  /\ MovedParents(h, p, cs, k) = [MovedParents(h, p, cs, k - 1) EXCEPT ![cs[k]] = p]
         /\ MovedParents(h, p, cs, k - 1)[cs[k]] = h.parent[cs[k]]
<1>1. Len(cs) \in Nat /\ cs[k] \in Item /\ DOMAIN cs = 1 .. Len(cs)
  OBVIOUS
<1>2. \A j \in 1 .. Len(cs) : j <= k <=> j <= k - 1 \/ j = k
  BY <1>1
<1>3. \A j \in 1 .. Len(cs) : j <= k - 1 => cs[j] # cs[k]
  BY <1>1 DEF IsInjective
<1>4. MovedParents(h, p, cs, k - 1)[cs[k]] = h.parent[cs[k]]
  BY <1>1, <1>3 DEF MovedParents
<1> DEFINE a == MovedParents(h, p, cs, k)
           b == [MovedParents(h, p, cs, k - 1) EXCEPT ![cs[k]] = p]
<1>5. a = [n \in Item |-> a[n]] /\ b = [n \in Item |-> b[n]]
  BY DEF MovedParents
<1>6. ASSUME NEW n \in Item PROVE a[n] = b[n]
  <2>1. a[n] = IF \E j \in 1 .. Len(cs) : j <= k /\ cs[j] = n THEN p ELSE h.parent[n]
    BY DEF MovedParents
  <2>2. b[n] = IF n = cs[k] THEN p
               ELSE IF \E j \in 1 .. Len(cs) : j <= k - 1 /\ cs[j] = n THEN p ELSE h.parent[n]
    BY <1>1 DEF MovedParents
  <2>3. (\E j \in 1 .. Len(cs) : j <= k /\ cs[j] = n)
        <=> n = cs[k] \/ \E j \in 1 .. Len(cs) : j <= k - 1 /\ cs[j] = n
    BY <1>1, <1>2
  <2> HIDE DEF a, b
  <2> QED BY <2>1, <2>2, <2>3
<1> HIDE DEF a, b
<1>7. a = b
  BY <1>5, <1>6
<1> QED BY <1>4, <1>7 DEF a, b

\* The types of what moves.
LEMMA MovedTypes ==
  ASSUME NEW h, NEW p, NEW cs, MayGo(h, p, cs), NEW k \in 1 .. Len(cs),
         NEW l, NEW g \in MovedTrees(h, p, cs, l)
  PROVE  /\ cs[k] \in Item /\ p \in Item /\ p # None /\ RootItem \in Item /\ Len(cs) \in Nat
         /\ Tree(g) /\ g \in Hierarchies /\ p \notin Subtree(g, cs[k])
         /\ h.parent \in [Item -> Item \cup {None}] /\ g.parent \in [Item -> Item \cup {None}]
         /\ cs \in Seq(Item) /\ IsInjective(cs)
         /\ g.parent = MovedParents(h, p, cs, l)
         /\ Subtree(g, RootItem) = Subtree(h, RootItem)
<1>1. cs \in Seq(Item) /\ p \in Item /\ IsInjective(cs) /\ Tree(h) /\ None \notin Item
  BY NoneAssumption DEF MayGo, Rooted
<1>2. /\ g \in Trees /\ p \notin Subtree(g, cs[k]) /\ g.parent = MovedParents(h, p, cs, l)
      /\ Subtree(g, RootItem) = Subtree(h, RootItem)
  BY DEF MovedTrees
<1>3. g \in Hierarchies /\ Tree(g) /\ h \in Hierarchies
  BY <1>1, <1>2 DEF Trees, Tree
<1>4. cs[k] \in Item /\ Len(cs) \in Nat
  BY <1>1
<1>5. h.parent \in [Item -> Item \cup {None}] /\ g.parent \in [Item -> Item \cup {None}]
  BY <1>3 DEF Hierarchies
<1> QED BY <1>1, <1>2, <1>3, <1>4, <1>5, OperationStackAssumption

\* The parent below which an item of the scene is put keeps out of what moves.
LEMMA PutBelow ==
  ASSUME NEW g, Rooted(g), NEW c \in Subtree(g, RootItem), c # RootItem,
         NEW p \in Subtree(g, RootItem), p \notin Subtree(g, c), NEW position \in Nat,
         NEW t, t = SetParent(g, c, p, position)
  PROVE  /\ Tree(t) /\ t.parent = [g.parent EXCEPT ![c] = p]
         /\ Subtree(t, RootItem) = Subtree(g, RootItem)
         /\ \A d \in Item : p \notin Subtree(g, d) => p \notin Subtree(t, d)
<1>1. /\ Tree(g) /\ g \in Hierarchies /\ RootItem \in Item /\ c \in Item
      /\ RootItem \notin Subtree(g, c) /\ Subtree(g, c) \subseteq Subtree(g, RootItem)
  BY BelowShown, OperationStackAssumption DEF Rooted, Tree
<1>2. p \in Item \cup {None}
  BY <1>1, SubtreeLeast
<1>3. /\ Tree(t) /\ t.parent = [g.parent EXCEPT ![c] = p] /\ Subtree(t, c) = Subtree(g, c)
      /\ \A r \in Item \ Subtree(g, c) :
           Subtree(t, r) = IF p \in Subtree(g, r) THEN Subtree(g, r) \cup Subtree(g, c)
                           ELSE Subtree(g, r) \ Subtree(g, c)
  BY <1>1, <1>2, SetParentTree
<1>4. Subtree(t, RootItem) = Subtree(g, RootItem)
  BY <1>1, <1>3
<1>5. ASSUME NEW d \in Item, p \notin Subtree(g, d) PROVE p \notin Subtree(t, d)
  <2>1. CASE d \in Subtree(g, c)
    <3>1. t \in Hierarchies
      BY <1>3 DEF Tree
    <3>2. Subtree(t, d) \subseteq Subtree(t, c)
      BY <1>1, <1>3, <2>1, <3>1, BelowBelow
    <3> QED BY <1>3, <3>2
  <2>2. CASE d \notin Subtree(g, c)
    BY <1>3, <1>5, <2>2
  <2> QED BY <2>1, <2>2
<1> QED BY <1>3, <1>4, <1>5

LEMMA MovedBelow ==
  ASSUME NEW h, NEW p, NEW cs, MayGo(h, p, cs), NEW k \in 1 .. Len(cs),
         NEW g \in MovedTrees(h, p, cs, k - 1), NEW position \in Nat,
         NEW t, t = SetParent(g, cs[k], p, position)
  PROVE  t \in MovedTrees(h, p, cs, k)
<1>0. PICK c : c = cs[k]
  OBVIOUS
<1>1. /\ c \in Item /\ p \in Item /\ Tree(g) /\ g \in Hierarchies /\ Len(cs) \in Nat
      /\ p \notin Subtree(g, c) /\ h.parent \in [Item -> Item \cup {None}]
      /\ cs \in Seq(Item) /\ IsInjective(cs) /\ RootItem \in Item
      /\ g.parent = MovedParents(h, p, cs, k - 1)
      /\ Subtree(g, RootItem) = Subtree(h, RootItem)
  BY <1>0, MovedTypes
<1>2. Rooted(g)
  <2>1. h.parent[RootItem] = None /\ \A j \in 1 .. Len(cs) : cs[j] # RootItem
    BY DEF MayGo, Rooted, ShownIn
  <2> QED BY <1>1, <2>1 DEF Rooted, MovedParents
<1>3. c \in Subtree(g, RootItem) /\ c # RootItem /\ p \in Subtree(g, RootItem)
  BY <1>0, <1>1 DEF MayGo, ShownIn
<1>4. /\ Tree(t) /\ t.parent = [g.parent EXCEPT ![c] = p]
      /\ Subtree(t, RootItem) = Subtree(g, RootItem)
      /\ \A d \in Item : p \notin Subtree(g, d) => p \notin Subtree(t, d)
  BY <1>0, <1>1, <1>2, <1>3, PutBelow
<1>5. t.parent = MovedParents(h, p, cs, k)
  BY <1>0, <1>1, <1>4, MovedParentsStep
<1>6. \A j \in 1 .. Len(cs) : p \notin Subtree(t, cs[j])
  <2>1. \A j \in 1 .. Len(cs) : cs[j] \in Item /\ p \notin Subtree(g, cs[j])
    BY <1>1 DEF MovedTrees
  <2> QED BY <1>4, <2>1
<1>7. t \in Trees
  BY <1>4 DEF Trees, Tree
<1> QED BY <1>1, <1>4, <1>5, <1>6, <1>7 DEF MovedTrees

\* An item that is below the parent already only changes its place.
LEMMA MovedAlong ==
  ASSUME NEW h, NEW p, NEW cs, MayGo(h, p, cs), NEW k \in 1 .. Len(cs),
         NEW g \in MovedTrees(h, p, cs, k - 1), NEW position \in Nat,
         h.parent[cs[k]] = p
  PROVE  Reposition(g, cs[k], position) \in MovedTrees(h, p, cs, k)
<1> DEFINE c == cs[k]
           t == Reposition(g, c, position)
<1>1. /\ c \in Item /\ p \in Item /\ Tree(g) /\ g \in Hierarchies /\ Len(cs) \in Nat
      /\ h.parent \in [Item -> Item \cup {None}]
      /\ cs \in Seq(Item) /\ IsInjective(cs) /\ p # None
  BY MovedTypes
<1>2. g.parent = MovedParents(h, p, cs, k - 1)
  BY DEF MovedTrees
<1>3. g.parent[c] = p /\ g.parent = MovedParents(h, p, cs, k)
  <2>1. /\ MovedParents(h, p, cs, k) = [MovedParents(h, p, cs, k - 1) EXCEPT ![c] = p]
        /\ MovedParents(h, p, cs, k - 1)[c] = h.parent[c]
    BY <1>1, MovedParentsStep
  <2>2. MovedParents(h, p, cs, k - 1)[c] = p
    BY <2>1
  <2>3. [g.parent EXCEPT ![c] = p] = g.parent
    BY <1>1, <1>2, <2>2 DEF Hierarchies
  <2> QED BY <1>2, <2>1, <2>2, <2>3
<1>4. Tree(t) /\ t.parent = g.parent
  BY <1>1, <1>3, RepositionUndone
<1>5. \A r : Subtree(t, r) = Subtree(g, r)
  BY <1>1, <1>4, SameParentsSameTree
<1>6. t \in Trees
  BY <1>4 DEF Trees, Tree
<1> QED BY <1>3, <1>4, <1>5, <1>6 DEF MovedTrees

\* The place before or after an anchor is in the list of its parent.
LEMMA AnchorIsThere ==
  ASSUME NEW h, NEW p, NEW cs, MayGo(h, p, cs), NEW k \in 1 .. Len(cs),
         NEW g \in MovedTrees(h, p, cs, k - 1),
         NEW anchor \in Item, h.parent[anchor] = p, Elsewhere(anchor, cs)
  PROVE  /\ g.parent[anchor] = p /\ g.children[p] \in Seq(Item) /\ OneToOne(g.children[p])
         /\ \E i \in 1 .. Len(g.children[p]) :
              g.children[p][i] = anchor /\ IndexInParent(g, anchor) = i - 1
<1>1. /\ p \in Item /\ Tree(g) /\ g \in Hierarchies /\ p # None
  BY NoneAssumption DEF MayGo, MovedTrees, Trees, Tree
<1>2. g.parent[anchor] = p
  BY DEF MovedTrees, MovedParents, Elsewhere
<1>3. anchor \in Children(g, p)
  BY <1>1, <1>2 DEF Tree, WellFormed, ParentHasChild
<1>4. g.children[p] \in Seq(Item) /\ OneToOne(g.children[p])
  BY <1>1 DEF Tree, WellFormed, ChildOnce, OneToOne, Hierarchies
<1>5. PICK i \in 1 .. Len(g.children[p]) : g.children[p][i] = anchor
  BY <1>3, <1>4 DEF Children
<1>6. IndexOf(g.children[p], anchor) = i - 1
  BY <1>4, <1>5, WithoutIs
<1>7. IndexInParent(g, anchor) = i - 1
  BY <1>1, <1>2, <1>3, <1>6 DEF IndexInParent
<1> QED BY <1>2, <1>4, <1>5, <1>7

\* Where an anchor that is listed says to go.
LEMMA TargetAtAnchor ==
  ASSUME NEW h \in Hierarchies, NEW p \in Item, NEW op \in Ops, op.place # "end",
         h.parent[op.anchor] = p, OneToOne(h.children[p]),
         NEW i \in 1 .. Len(h.children[p]), h.children[p][i] = op.anchor, NEW q
  PROVE  Target(h, op, q) = IF op.place = "before" THEN i - 1 ELSE i
<1>1. h.children[p] \in Seq(Item) /\ op.anchor \in Item /\ op.place \in {"before", "after"}
  BY OpParts DEF Hierarchies, Ops, Placements
<1>2. IndexOf(h.children[p], op.anchor) = i - 1
  BY <1>1, WithoutIs
<1>3. op.anchor \in Children(h, p) /\ p # None
  BY <1>1, NoneAssumption DEF Children
<1>4. IndexInParent(h, op.anchor) = i - 1
  BY <1>2, <1>3 DEF IndexInParent
<1>5. CASE op.place = "before"
  BY <1>4, <1>5 DEF Target
<1>6. CASE op.place = "after"
  <2>1. Target(h, op, q) = IndexInParent(h, op.anchor) + 1
    BY <1>6 DEF Target
  <2>2. i \in Nat
    BY <1>1
  <2> QED BY <1>4, <1>6, <2>1, <2>2
<1> QED BY <1>1, <1>5, <1>6

\* The anchor is still listed once the item is taken out of the list.
LEMMA OthersListed ==
  ASSUME NEW g, Tree(g), NEW p \in Item, NEW n \in Item, NEW L, L = Without(g.children[p], n)
  PROVE  L \in Seq(Item) /\ OneToOne(L)
<1>1. g.children[p] \in Seq(Item) /\ OneToOne(g.children[p])
  BY DEF Tree, WellFormed, ChildOnce, OneToOne, Hierarchies
<1>2. /\ Without(g.children[p], n) \in Seq(Item) /\ OneToOne(Without(g.children[p], n))
      /\ Elements(Without(g.children[p], n)) = Elements(g.children[p]) \ {n}
  BY <1>1, WithoutFacts
<1> QED BY <1>2

LEMMA StillListed ==
  ASSUME NEW g, Tree(g), NEW p \in Item, NEW n \in Item, NEW anchor \in Item,
         g.parent[anchor] = p, anchor # n
  PROVE  \E i \in 1 .. Len(Without(g.children[p], n)) : Without(g.children[p], n)[i] = anchor
<1>1. g.children[p] \in Seq(Item) /\ OneToOne(g.children[p])
  BY DEF Tree, WellFormed, ChildOnce, OneToOne, Hierarchies
<1>2. /\ Without(g.children[p], n) \in Seq(Item) /\ OneToOne(Without(g.children[p], n))
      /\ Elements(Without(g.children[p], n)) = Elements(g.children[p]) \ {n}
  BY <1>1, WithoutFacts
<1>3. anchor \in Elements(g.children[p])
  BY DEF Tree, WellFormed, ParentHasChild, Children, Elements
<1>4. PICK L : L = Without(g.children[p], n)
  OBVIOUS
<1>5. anchor \in Elements(L) /\ L \in Seq(Item)
  BY <1>2, <1>3, <1>4
<1> QED BY <1>5, <1>4 DEF Elements

LEMMA LandingAtAnchor ==
  ASSUME NEW g, Tree(g), NEW p \in Item, NEW op \in Ops, op.place # "end",
         g.parent[op.item] = p, g.parent[op.anchor] = p, op.anchor # op.item,
         NEW L, L = Without(g.children[p], op.item)
  PROVE  /\ L \in Seq(Item) /\ OneToOne(L)
         /\ Erased(g, op.item).children[p] = L
         /\ \E i \in 1 .. Len(L) :
              /\ L[i] = op.anchor
              /\ Landing(op, g) = IF op.place = "before" THEN i - 1 ELSE i
<1>1. /\ g \in Hierarchies /\ op.item \in Item /\ op.anchor \in Item /\ p # None
  BY OpParts, NoneAssumption DEF Tree, Ops
<1>2. PICK n, anchor : n = op.item /\ anchor = op.anchor
  OBVIOUS
<1>3. L \in Seq(Item) /\ OneToOne(L)
  BY <1>1, <1>2, OthersListed
<1>4. PICK i \in 1 .. Len(L) : L[i] = anchor
  BY <1>1, <1>2, StillListed
<1>5. PICK e : e = Erased(g, op.item)
  OBVIOUS
<1>6. e \in Hierarchies /\ e.parent = g.parent /\ e.children[p] = L
  <2>1. e \in Hierarchies
    BY <1>1, <1>5, ErasedIs
  <2>2. e = [g EXCEPT !.children[p] = Without(@, op.item)]
    BY <1>5 DEF Erased
  <2> QED BY <1>1, <2>1, <2>2 DEF Hierarchies
<1>7. Target(e, op, p) = IF op.place = "before" THEN i - 1 ELSE i
  BY <1>2, <1>3, <1>4, <1>6, TargetAtAnchor
<1>8. Landing(op, g) = Target(e, op, p)
  BY <1>5 DEF Landing
<1> QED BY <1>2, <1>3, <1>4, <1>5, <1>6, <1>7, <1>8

\* Where an operation of a move leads.
Gone(op, g, c, p) ==
  IF op.kind = "parent_change" THEN SetParent(g, c, p, Target(g, op, p))
  ELSE Reposition(g, c, Landing(op, g))

\* Every operation of a move finds what it expects, and keeps to what is said.
LEMMA GoesStep ==
  ASSUME NEW h, NEW p, NEW cs, MayGo(h, p, cs), NEW k \in 1 .. Len(cs),
         NEW y \in Machines, IsRunning(y), NEW g, g = y.tree, g \in MovedTrees(h, p, cs, k - 1),
         NEW anchor, Elsewhere(anchor, cs),
         NEW op, Goes(op, h, p, cs[k], anchor), NEW r, r = ExecuteOne(op, y).m
  PROVE  IsRunning(r) /\ r.tree \in MovedTrees(h, p, cs, k) /\ r.tree = Gone(op, g, cs[k], p)
<1>0. PICK c : c = cs[k]
  OBVIOUS
<1>1. /\ c \in Item /\ p \in Item /\ p # None /\ Tree(g) /\ g \in Hierarchies
      /\ p \notin Subtree(g, c) /\ h.parent \in [Item -> Item \cup {None}]
      /\ cs \in Seq(Item) /\ IsInjective(cs) /\ g.parent = MovedParents(h, p, cs, k - 1)
  BY <1>0, MovedTypes
<1>2. g.parent[c] = h.parent[c]
  BY <1>0, <1>1, MovedParentsStep
<1>3. op \in Ops /\ op.item = c
  BY <1>0 DEF Goes
<1>4. CASE op.kind = "parent_change"
  <2>1. op.before = h.parent[c] /\ op.after = p
    BY <1>0, <1>4 DEF Goes
  <2>2. MovesWell(op, g)
    BY <1>1, <1>2, <1>3, <2>1 DEF MovesWell, CreatesCycle
  <2>3. PICK e : e = ExecuteParentChange(op, y)
    OBVIOUS
  <2>4. r = e.m
    BY <1>4, <2>3 DEF ExecuteOne
  <2>5. IsRunning(e.m) /\ e.m.tree = Moved(op, g)
    BY <1>3, <2>2, <2>3, ParentChangeIs DEF Ops
  <2>6. Moved(op, g) = SetParent(g, c, p, Target(g, op, p))
    BY <1>3, <2>1 DEF Moved
  <2>7. Target(g, op, p) \in Nat
    BY <1>1, <1>3, TargetIsNat DEF Ops
  <2>8. Moved(op, g) \in MovedTrees(h, p, cs, k)
    BY <1>0, <2>6, <2>7, MovedBelow
  <2> QED BY <1>0, <1>4, <2>4, <2>5, <2>6, <2>8 DEF Gone
<1>5. CASE op.kind # "parent_change"
  <2>1. op.kind = "reposition" /\ h.parent[c] = p /\ op.place # "end"
    BY <1>0, <1>5 DEF Goes
  <2>2. op.anchor = anchor /\ h.parent[anchor] = p /\ anchor \in Item /\ anchor # c
    BY <1>0, <2>1 DEF Goes, Elsewhere
  <2>3. g.parent[c] = p /\ g.parent[anchor] = p
    BY <1>1, <1>2, <2>1, <2>2 DEF MovedParents, Elsewhere
  <2>4. PICK L : L = Without(g.children[p], c)
    OBVIOUS
  <2>5. /\ L \in Seq(Item) /\ Erased(g, c).children[p] = L
        /\ \E i \in 1 .. Len(L) : Landing(op, g) = IF op.place = "before" THEN i - 1 ELSE i
    BY <1>1, <1>3, <2>1, <2>2, <2>3, <2>4, LandingAtAnchor
  <2>6. Landing(op, g) \in Nat /\ Landing(op, g) <= Len(L)
    BY <2>5
  <2>7. RepositionsWell(op, g)
    BY <1>1, <1>3, <2>3, <2>5, <2>6 DEF RepositionsWell, ChildCount
  <2>8. PICK e : e = ExecuteReposition(op, y)
    OBVIOUS
  <2>9. r = e.m
    BY <2>1, <2>8 DEF ExecuteOne
  <2>10. IsRunning(e.m) /\ e.m.tree = Repositioned(op, g)
    BY <1>3, <2>7, <2>8, RepositionIs
  <2>11. Repositioned(op, g) = Reposition(g, c, Landing(op, g))
    BY <1>3 DEF Repositioned
  <2>12. Repositioned(op, g) \in MovedTrees(h, p, cs, k)
    BY <1>0, <2>1, <2>6, <2>11, MovedAlong
  <2> QED BY <1>0, <1>5, <2>9, <2>10, <2>11, <2>12 DEF Gone
<1> QED BY <1>4, <1>5

\* The row at the anchor after k of the items cs.
RowAt(place, cs, anchor, k) ==
  [i \in 1 .. k + 1 |->
     IF place = "before" THEN IF i <= k THEN cs[i] ELSE anchor
     ELSE IF i = 1 THEN anchor ELSE cs[(k + 2) - i]]

LEMMA RowGrows ==
  ASSUME NEW S, NEW s \in Seq(S), OneToOne(s), NEW cs \in Seq(S), NEW k \in 1 .. Len(cs),
         NEW anchor, NEW place \in {"before", "after"},
         HasRow(s, k, RowAt(place, cs, anchor, k - 1)), NEW j \in 1 .. Len(s), s[j] = anchor,
         NEW position, position = IF place = "before" THEN j - 1 ELSE j
  PROVE  HasRow(With(s, position, cs[k]), k + 1, RowAt(place, cs, anchor, k))
<1> DEFINE W == RowAt(place, cs, anchor, k - 1)
           V == RowAt(place, cs, anchor, k)
           q == IF place = "before" THEN k - 1 ELSE 1
           a == IF place = "before" THEN k ELSE 1
<1>1. Len(cs) \in Nat /\ k \in Nat /\ cs[k] \in S /\ Len(s) \in Nat
  OBVIOUS
<1>2. PICK d \in Nat : RowFrom(d, s, k, W)
  BY DEF HasRow
<1>3. W[a] = anchor /\ a \in 1 .. k /\ q \in 0 .. k
  BY <1>1 DEF RowAt
<1>4. \A i \in 1 .. k + 1 : V[i] = IF i <= q THEN W[i] ELSE IF i = q + 1 THEN cs[k] ELSE W[i - 1]
  <2> TAKE i \in 1 .. k + 1
  <2>1. CASE place = "before"
    <3>1. V[i] = IF i <= k THEN cs[i] ELSE anchor
      BY <2>1 DEF RowAt
    <3>2. i <= k - 1 => W[i] = cs[i]
      BY <1>1, <2>1 DEF RowAt
    <3>3. i = k + 1 => W[i - 1] = anchor
      BY <1>1, <2>1 DEF RowAt
    <3> QED BY <1>1, <2>1, <3>1, <3>2, <3>3
  <2>2. CASE place = "after"
    <3>1. V[i] = IF i = 1 THEN anchor ELSE cs[(k + 2) - i]
      BY <2>2 DEF RowAt
    <3>2. i <= 1 => W[i] = anchor
      BY <1>1, <2>2 DEF RowAt
    <3>3. i > 2 => W[i - 1] = cs[(k + 2) - i]
      <4>1. ASSUME i > 2 PROVE W[i - 1] = cs[(k + 2) - i]
        <5>1. i - 1 \in 1 .. (k - 1) + 1 /\ i - 1 # 1
              /\ ((k - 1) + 2) - (i - 1) = (k + 2) - i
          BY <1>1, <4>1
        <5> QED BY <2>2, <5>1 DEF RowAt
      <4> QED BY <4>1
    <3>4. i = 2 => (k + 2) - i = k
      BY <1>1
    <3> QED BY <1>1, <2>2, <3>1, <3>2, <3>3, <3>4
  <2> QED BY <2>1, <2>2
<1>5. position = d + q
  <2>1. d + a \in 1 .. Len(s) /\ s[d + a] = anchor
    BY <1>1, <1>2, <1>3 DEF RowFrom
  <2>2. j = d + a
    BY <2>1 DEF OneToOne
  <2> QED BY <1>1, <2>2
<1> HIDE DEF W, V, q, a
<1>6. RowFrom(d, With(s, d + q, cs[k]), k + 1, V)
  BY <1>1, <1>2, <1>3, <1>4, RowWith
<1> QED BY <1>5, <1>6 DEF HasRow, V

\* Nothing is in the row that the item k does not come after.
LEMMA RowIsOthers ==
  ASSUME NEW cs \in Seq(Item), IsInjective(cs), NEW k \in 1 .. Len(cs), NEW anchor,
         Elsewhere(anchor, cs), NEW place
  PROVE  \A i \in 1 .. k : RowAt(place, cs, anchor, k - 1)[i] # cs[k]
<1>1. Len(cs) \in Nat /\ DOMAIN cs = 1 .. Len(cs) /\ k \in Nat /\ (k - 1) + 1 = k
  OBVIOUS
<1>2. ASSUME NEW j \in 1 .. Len(cs), j # k PROVE cs[j] # cs[k]
  BY <1>1, <1>2 DEF IsInjective
<1> USE DEF Elsewhere
<1> TAKE i \in 1 .. k
<1>3. CASE place = "before"
  <2>1. RowAt(place, cs, anchor, k - 1)[i] = IF i <= k - 1 THEN cs[i] ELSE anchor
    BY <1>1, <1>3 DEF RowAt
  <2>2. i <= k - 1 => i \in 1 .. Len(cs) /\ i # k
    BY <1>1
  <2> QED BY <1>2, <2>1, <2>2
<1>4. CASE place # "before"
  <2>1. RowAt(place, cs, anchor, k - 1)[i] = IF i = 1 THEN anchor ELSE cs[((k - 1) + 2) - i]
    BY <1>1, <1>4 DEF RowAt
  <2>2. i # 1 => ((k - 1) + 2) - i \in 1 .. Len(cs) /\ ((k - 1) + 2) - i # k
    BY <1>1
  <2> QED BY <1>2, <2>1, <2>2
<1> QED BY <1>3, <1>4

\* With the items before or after the anchor in a row.
MovedRows(h, p, cs, place, anchor, k) ==
  {g \in MovedTrees(h, p, cs, k) :
     place # "end" => HasRow(g.children[p], k + 1, RowAt(place, cs, anchor, k))}

LEMMA RowStep ==
  ASSUME NEW h, NEW p, NEW cs, MayGo(h, p, cs), NEW k \in 1 .. Len(cs),
         NEW place \in Placements, NEW anchor, Elsewhere(anchor, cs),
         NEW y \in Machines, IsRunning(y), y.tree \in MovedRows(h, p, cs, place, anchor, k - 1),
         NEW op, Goes(op, h, p, cs[k], anchor), op.place = place
  PROVE  LET r == ExecuteOne(op, y).m
         IN  IsRunning(r) /\ r.tree \in MovedRows(h, p, cs, place, anchor, k)
<1>0. PICK c, g, r : c = cs[k] /\ g = y.tree /\ r = ExecuteOne(op, y).m
  OBVIOUS
<1>1. g \in MovedTrees(h, p, cs, k - 1)
  BY <1>0 DEF MovedRows
<1>2. IsRunning(r) /\ r.tree \in MovedTrees(h, p, cs, k) /\ r.tree = Gone(op, g, c, p)
  BY <1>0, <1>1, GoesStep
<1>3. CASE place = "end"
  BY <1>0, <1>2, <1>3 DEF MovedRows
<1>4. CASE place # "end"
  <2>1. place \in {"before", "after"}
    BY <1>4 DEF Placements
  <2>2. /\ op \in Ops /\ op.item = c /\ op.anchor = anchor /\ h.parent[anchor] = p
        /\ anchor \in Item /\ anchor # c
    BY <1>0, <1>4 DEF Goes, Elsewhere
  <2>3. /\ c \in Item /\ p \in Item /\ p # None /\ Tree(g) /\ g \in Hierarchies
        /\ cs \in Seq(Item) /\ IsInjective(cs) /\ g.parent = MovedParents(h, p, cs, k - 1)
        /\ h.parent \in [Item -> Item \cup {None}] /\ k \in Nat /\ (k - 1) + 1 = k
    BY <1>0, <1>1, MovedTypes
  <2>4. g.parent[anchor] = p /\ g.parent[c] = h.parent[c]
    <3>1. g.parent[c] = h.parent[c]
      BY <1>0, <2>3, MovedParentsStep
    <3>2. g.parent[anchor] = p
      BY <2>2, <2>3 DEF MovedParents, Elsewhere
    <3> QED BY <3>1, <3>2
  <2>5. PICK s : s = g.children[p]
    OBVIOUS
  <2>6. PICK W : W = RowAt(place, cs, anchor, k - 1)
    OBVIOUS
  <2>7. s \in Seq(Item) /\ OneToOne(s) /\ HasRow(s, k, W)
    <3>1. s \in Seq(Item) /\ OneToOne(s)
      BY <2>3, <2>5 DEF Tree, WellFormed, ChildOnce, OneToOne, Hierarchies
    <3>2. HasRow(s, k, W)
      BY <1>0, <1>4, <2>3, <2>5, <2>6 DEF MovedRows
    <3> QED BY <3>1, <3>2
  <2>8. CASE op.kind = "parent_change"
    <3>1. h.parent[c] # p
      BY <1>0, <1>4, <2>8 DEF Goes
    <3>2. PICK j \in 1 .. Len(s) : s[j] = anchor
      <4>1. anchor \in Children(g, p)
        BY <2>2, <2>3, <2>4 DEF Tree, WellFormed, ParentHasChild
      <4> QED BY <2>5, <2>7, <4>1 DEF Children
    <3>3. PICK position : position = IF place = "before" THEN j - 1 ELSE j
      OBVIOUS
    <3>4. Target(g, op, p) = position
      BY <1>4, <2>2, <2>3, <2>4, <2>5, <2>7, <3>2, <3>3, TargetAtAnchor
    <3>5. HasRow(With(s, position, c), k + 1, RowAt(place, cs, anchor, k))
      BY <1>0, <2>1, <2>3, <2>6, <2>7, <3>2, <3>3, RowGrows
    <3>6. r.tree.children[p] = With(s, position, c)
      BY <1>2, <2>3, <2>4, <2>5, <2>8, <3>1, <3>4, NewParentLists DEF Gone
    <3> QED BY <1>0, <1>2, <3>5, <3>6 DEF MovedRows
  <2>9. CASE op.kind # "parent_change"
    <3>1. op.kind = "reposition" /\ g.parent[c] = p
      BY <1>0, <2>4, <2>9 DEF Goes
    <3>2. PICK L : L = Without(s, c)
      OBVIOUS
    <3>3. /\ L \in Seq(Item) /\ OneToOne(L)
          /\ \E j \in 1 .. Len(L) :
               /\ L[j] = op.anchor
               /\ Landing(op, g) = IF op.place = "before" THEN j - 1 ELSE j
      BY <1>4, <2>2, <2>3, <2>4, <2>5, <3>1, <3>2, LandingAtAnchor
    <3>4. PICK j \in 1 .. Len(L) :
            L[j] = anchor /\ Landing(op, g) = IF place = "before" THEN j - 1 ELSE j
      BY <2>2, <3>3
    <3>5. PICK i \in 1 .. Len(s) : s[i] = c
      <4>1. c \in Children(g, p)
        BY <2>3, <3>1 DEF Tree, WellFormed, ParentHasChild
      <4> QED BY <2>5, <2>7, <4>1 DEF Children
    <3>6. \A l \in 1 .. k : W[l] # c
      BY <1>0, <2>3, <2>6, RowIsOthers
    <3>7. HasRow(L, k, W)
      BY <2>3, <2>7, <3>2, <3>5, <3>6, RowWithout
    <3>8. PICK position : position = Landing(op, g)
      OBVIOUS
    <3>9. HasRow(With(L, position, c), k + 1, RowAt(place, cs, anchor, k))
      BY <1>0, <2>1, <2>3, <2>6, <3>3, <3>4, <3>7, <3>8, RowGrows
    <3>10. r.tree.children[p] = With(L, position, c)
      <4>1. r.tree = [g EXCEPT !.children[p] = With(Without(g.children[p], c), position, c)]
        BY <1>2, <2>9, <3>1, <3>8 DEF Reposition, Gone
      <4> QED BY <2>3, <2>5, <3>2, <4>1 DEF Hierarchies
    <3> QED BY <1>0, <1>2, <3>9, <3>10 DEF MovedRows
  <2> QED BY <2>8, <2>9
<1> QED BY <1>3, <1>4

\* What is said of moving the items cs one after another.
Going(ops, h, p, cs, place, anchor) ==
  /\ MayGo(h, p, cs) /\ place \in Placements /\ Elsewhere(anchor, cs)
  /\ place # "end" => anchor \in Item /\ h.parent[anchor] = p
  /\ ops \in Compounds /\ Len(ops) = Len(cs)
  /\ \A k \in 1 .. Len(cs) : Goes(ops[k], h, p, cs[k], anchor) /\ ops[k].place = place

LEMMA GoingBegins ==
  ASSUME NEW ops, NEW h, NEW p, NEW cs, NEW place, NEW anchor,
         Going(ops, h, p, cs, place, anchor)
  PROVE  h \in MovedRows(h, p, cs, place, anchor, 0)
<1>1. /\ MayGo(h, p, cs) /\ cs \in Seq(Item) /\ Len(cs) \in Nat /\ Tree(h)
      /\ h \in Hierarchies /\ p \in Item /\ None \notin Item
  BY NoneAssumption DEF Going, MayGo, Rooted, Tree
<1>2. h.parent = MovedParents(h, p, cs, 0)
  <2>1. \A j \in 1 .. Len(cs) : ~(j <= 0)
    BY <1>1
  <2>2. h.parent = [n \in Item |-> h.parent[n]]
    BY <1>1 DEF Hierarchies
  <2> QED BY <2>1, <2>2 DEF MovedParents
<1>3. h \in MovedTrees(h, p, cs, 0)
  BY <1>1, <1>2 DEF MovedTrees, MayGo, Trees
<1>4. ASSUME place # "end" PROVE HasRow(h.children[p], 0 + 1, RowAt(place, cs, anchor, 0))
  <2>1. anchor \in Item /\ h.parent[anchor] = p /\ h.children[p] \in Seq(Item)
    BY <1>1, <1>4 DEF Going, Hierarchies
  <2>2. anchor \in Children(h, p)
    BY <1>1, <2>1 DEF Tree, WellFormed, ParentHasChild
  <2>3. PICK i \in 1 .. Len(h.children[p]) : h.children[p][i] = anchor
    BY <2>1, <2>2 DEF Children
  <2>4. RowAt(place, cs, anchor, 0)[1] = anchor
    BY DEF RowAt
  <2>5. i - 1 \in Nat /\ (i - 1) + 1 <= Len(h.children[p]) /\ (i - 1) + 1 = i
    BY <2>1
  <2>6. \A l \in 1 .. 1 : l = 1
    OBVIOUS
  <2>7. RowFrom(i - 1, h.children[p], 1, RowAt(place, cs, anchor, 0))
    BY <2>3, <2>4, <2>5, <2>6 DEF RowFrom
  <2> QED BY <2>5, <2>7 DEF HasRow
<1> QED BY <1>3, <1>4 DEF MovedRows

LEMMA GoingRuns ==
  ASSUME NEW ops, NEW h, NEW p, NEW cs, NEW place, NEW anchor,
         Going(ops, h, p, cs, place, anchor), NEW x \in Machines, IsRunning(x), x.tree = h
  PROVE  LET r == Execute(ops, x).m
         IN  /\ r \in Machines /\ IsRunning(r)
             /\ r.tree \in MovedRows(h, p, cs, place, anchor, Len(cs))
<1> DEFINE G == [k \in 0 .. Len(cs) |-> MovedRows(h, p, cs, place, anchor, k)]
<1>1. /\ ops \in Compounds /\ Len(ops) = Len(cs) /\ Len(cs) \in Nat
      /\ MayGo(h, p, cs) /\ place \in Placements /\ Elsewhere(anchor, cs)
  BY DEF Going, MayGo
<1>2. x.tree \in G[0]
  BY <1>1, GoingBegins
<1>3. ASSUME NEW k \in 1 .. Len(ops), NEW y \in Machines, IsRunning(y), y.tree \in G[k - 1]
      PROVE  LET r == ExecuteOne(ops[k], y).m IN IsRunning(r) /\ r.tree \in G[k]
  <2>1. k \in 1 .. Len(cs) /\ k - 1 \in 0 .. Len(cs) /\ k \in 0 .. Len(cs)
    BY <1>1
  <2>2. y.tree \in MovedRows(h, p, cs, place, anchor, k - 1)
    BY <1>3, <2>1
  <2>3. Goes(ops[k], h, p, cs[k], anchor) /\ ops[k].place = place
    BY <2>1 DEF Going
  <2>4. PICK op : op = ops[k]
    OBVIOUS
  <2>5. LET r == ExecuteOne(op, y).m
        IN  IsRunning(r) /\ r.tree \in MovedRows(h, p, cs, place, anchor, k)
    BY <1>1, <1>3, <2>1, <2>2, <2>3, <2>4, RowStep
  <2> QED BY <2>1, <2>4, <2>5
<1>4. G[Len(cs)] = MovedRows(h, p, cs, place, anchor, Len(cs))
  BY <1>1
<1> HIDE DEF G
<1>5. LET r == Execute(ops, x).m
      IN  r \in Machines /\ IsRunning(r) /\ r.tree \in G[Len(ops)]
  BY <1>1, <1>2, <1>3, TreesThrough
<1> QED BY <1>1, <1>4, <1>5
-----------------------------------------------------------------------------
(***************************************************************************)
(* Drag and drop: what is dragged is a selection, and what of it may move  *)
(* goes next to the target or below it.                                    *)
(***************************************************************************)

\* Between the inputs of different ticks.
Steady == m \in Machines /\ Rooted(m.tree) /\ m.selection \in Selections(m.tree)

\* What may be moved of what is dragged, in the order it is moved in.
MovedBy(n, target, place) ==
  Movable(IF place = "after" THEN Reverse(Dragged(n)) ELSE Dragged(n), n, target)

\* The item that it is put below.
PutUnder(target, place) == IF place = "end" THEN target ELSE m.tree.parent[target]

LEMMA DraggedIsSelection ==
  ASSUME Steady, NEW n \in Shown
  PROVE  Dragged(n) \in Selections(m.tree)
<1>1. n \in Item /\ n \in ShownIn(m.tree) /\ m.selection \in Selections(m.tree)
  <2>1. m.tree \in Hierarchies /\ RootItem \in Item
    BY OperationStackAssumption DEF Steady, Rooted, Tree
  <2>2. Subtree(m.tree, RootItem) \subseteq Item
    BY <2>1, SubtreeLeast
  <2> QED BY <2>2 DEF Shown, ShownIn, Steady
<1>2. PICK s : s = <<n>>
  OBVIOUS
<1>3. s \in Seq(Item) /\ ToSet(s) = {n} /\ IsInjective(s)
  BY <1>1, <1>2 DEF ToSet, IsInjective
<1>4. s \in Selections(m.tree)
  BY <1>1, <1>3 DEF Selections
<1> QED BY <1>1, <1>2, <1>4 DEF Dragged

\* The target is not below what is moved.
LEMMA MovedByIs ==
  ASSUME Steady, NEW n \in Shown, NEW target \in Shown, NEW place \in Placements,
         NEW cs, cs = MovedBy(n, target, place)
  PROVE  /\ cs \in Seq(Item) /\ IsInjective(cs) /\ Len(cs) \in Nat
         /\ \A j \in 1 .. Len(cs) : /\ cs[j] \in ShownIn(m.tree) /\ cs[j] # target
                                    /\ target \notin Subtree(m.tree, cs[j])
<1>1. PICK s : s = Dragged(n)
  OBVIOUS
<1>2. s \in Seq(Item) /\ ToSet(s) \subseteq ShownIn(m.tree) /\ IsInjective(s)
  BY <1>1, DraggedIsSelection DEF Selections
<1>3. PICK items : items = IF place = "after" THEN Reverse(s) ELSE s
  OBVIOUS
<1>4. items \in Seq(Item) /\ ToSet(items) \subseteq ShownIn(m.tree) /\ IsInjective(items)
  BY <1>2, <1>3, ReverseInjective
<1>5. PICK S : S = {x \in Item : ~MayMove(x, target, n \in Selected)}
  OBVIOUS
<1>6. cs = EraseAll(items, S)
  BY <1>1, <1>3, <1>5 DEF MovedBy, Movable
<1>7. cs \in Seq(Item) /\ ToSet(cs) = ToSet(items) \ S /\ IsInjective(cs)
  BY <1>4, <1>6, EraseAllLeaves
<1>8. ASSUME NEW j \in 1 .. Len(cs)
      PROVE  /\ cs[j] \in ShownIn(m.tree) /\ cs[j] # target
             /\ target \notin Subtree(m.tree, cs[j])
  <2>1. cs[j] \in ToSet(cs) /\ cs[j] \in Item
    BY <1>7 DEF ToSet
  <2>2. MayMove(cs[j], target, n \in Selected)
    BY <1>5, <1>7, <2>1
  <2> QED BY <1>4, <1>7, <2>1, <2>2 DEF MayMove, IsAncestor
<1> QED BY <1>7, <1>8

LEMMA MovedMayGo ==
  ASSUME Steady, NEW n \in Shown, NEW target \in Shown, NEW place \in Placements,
         NEW cs, cs = MovedBy(n, target, place), NEW p, p = PutUnder(target, place)
  PROVE  MayGo(m.tree, p, cs)
<1>1. PICK h : h = m.tree
  OBVIOUS
<1>2. /\ Rooted(h) /\ h \in Hierarchies /\ target \in Subtree(h, RootItem) /\ target # RootItem
      /\ ParentHasChild(h)
  BY <1>1 DEF Steady, Rooted, Tree, WellFormed, Shown
<1>3. /\ cs \in Seq(Item) /\ IsInjective(cs)
      /\ \A j \in 1 .. Len(cs) : cs[j] \in ShownIn(h) /\ target \notin Subtree(h, cs[j])
  BY <1>1, MovedByIs
<1>4. /\ target \in Item /\ h.parent[target] \in Subtree(h, RootItem)
      /\ h.parent[target] \in Item
  BY <1>2, BelowShown
<1>5. p \in Item /\ p \in Subtree(h, RootItem)
  BY <1>1, <1>2, <1>4 DEF PutUnder
<1>6. ASSUME NEW c \in ShownIn(h), target \notin Subtree(h, c) PROVE p \notin Subtree(h, c)
  <2>1. CASE place = "end"
    BY <1>6, <2>1 DEF PutUnder
  <2>2. CASE place # "end"
    <3>1. p = h.parent[target]
      BY <1>1, <2>2 DEF PutUnder
    <3>2. target \in Children(h, p)
      BY <1>2, <1>4, <1>5, <3>1 DEF ParentHasChild
    <3>3. c \in Item
      BY <1>2, BelowShown DEF ShownIn
    <3>4. ClosedIn(h, Subtree(h, c))
      BY <1>2, <3>3, SubtreeLeast
    <3> QED BY <1>6, <3>2, <3>4 DEF ClosedIn
  <2> QED BY <2>1, <2>2
<1> QED BY <1>1, <1>2, <1>3, <1>5, <1>6 DEF MayGo

\* What the constructors of the moves leave.
LEMMA MovesMade ==
  ASSUME NEW h \in Hierarchies, NEW c \in Item, NEW p \in Item, NEW place \in Placements,
         NEW anchor \in Item \cup {None}, place # "end" => anchor # None
  PROVE  /\ LET op == ParentChange(h, p, c, place, anchor)
            IN  /\ op \in Ops /\ op.kind = "parent_change" /\ op.item = c
                /\ op.before = h.parent[c] /\ op.after = p
                /\ op.place = place /\ op.anchor = anchor
                /\ op.selBefore = <<>> /\ op.selAfter = <<>>
         /\ LET op == RepositionInParent(c, place, anchor)
            IN  /\ op \in Ops /\ op.kind = "reposition" /\ op.item = c
                /\ op.place = place /\ op.anchor = anchor
                /\ op.selBefore = <<>> /\ op.selAfter = <<>>
<1>1. PICK x : x \in Machines /\ x = [tree |-> Orphans, selection |-> <<>>, flagged |-> {},
                                     status |-> "running"]
  <2>1. Tree(Orphans) /\ Orphans \in Hierarchies
    BY OrphansTree DEF Tree
  <2>2. <<>> \in Seq(Item) /\ {} \in SUBSET Item
    OBVIOUS
  <2>3. PICK none : none = <<>>
    OBVIOUS
  <2> QED BY <2>1, <2>2, <2>3 DEF Machines, Statuses
<1>2. /\ ParentChange(h, p, c, place, anchor) \in Ops
      /\ RepositionInParent(c, place, anchor) \in Ops
  BY <1>1, ConstructorsMake
<1> QED BY <1>2 DEF ParentChange, RepositionInParent, Operation

\* A drop is a move of what may be moved.
AnchorOf(target, place) == IF place = "end" THEN None ELSE target
Dropped(n, target, place) ==
  IF place = "end" THEN AttachOps(n, target) ELSE MoveOps(n, target, place)

LEMMA DropIs ==
  ASSUME NEW n, NEW target, NEW place, NEW cs, cs = MovedBy(n, target, place),
         cs \in Seq(Item), NEW ops, ops = Dropped(n, target, place),
         NEW p, p = PutUnder(target, place)
  PROVE  ops = [k \in 1 .. Len(cs) |->
                  IF place = "end" \/ p # m.tree.parent[cs[k]]
                  THEN ParentChange(m.tree, p, cs[k], place, AnchorOf(target, place))
                  ELSE RepositionInParent(cs[k], place, AnchorOf(target, place))]
<1>1. DOMAIN cs = 1 .. Len(cs)
  OBVIOUS
<1>2. CASE place = "end"
  <2>1. cs = Movable(Dragged(n), n, target)
    BY <1>2 DEF MovedBy
  <2>2. ops = [k \in 1 .. Len(cs) |-> ParentChange(m.tree, target, cs[k], "end", None)]
    BY <1>1, <1>2, <2>1 DEF Dropped, AttachOps
  <2> QED BY <1>2, <2>2 DEF PutUnder, AnchorOf
<1>3. CASE place # "end"
  <2>1. cs = Movable(IF place = "after" THEN Reverse(Dragged(n)) ELSE Dragged(n), n, target)
    BY DEF MovedBy
  <2>2. ops = [k \in 1 .. Len(cs) |->
                 IF m.tree.parent[target] # m.tree.parent[cs[k]]
                 THEN ParentChange(m.tree, m.tree.parent[target], cs[k], place, target)
                 ELSE RepositionInParent(cs[k], place, target)]
    BY <1>1, <1>3, <2>1 DEF Dropped, MoveOps
  <2> QED BY <1>3, <2>2 DEF PutUnder, AnchorOf
<1> QED BY <1>2, <1>3

LEMMA DropGoes ==
  ASSUME Steady, NEW n \in Shown, NEW target \in Shown, NEW place \in Placements,
         NEW cs, cs = MovedBy(n, target, place), NEW ops, ops = Dropped(n, target, place)
  PROVE  /\ Going(ops, m.tree, PutUnder(target, place), cs, place, AnchorOf(target, place))
         /\ \A k \in 1 .. Len(ops) : /\ ops[k].selBefore = <<>> /\ ops[k].selAfter = <<>>
                                     /\ ops[k].kind \in {"parent_change", "reposition"}
                                     /\ ops[k].item = cs[k]
<1>1. PICK h, p, anchor :
        h = m.tree /\ p = PutUnder(target, place) /\ anchor = AnchorOf(target, place)
  OBVIOUS
<1>2. /\ cs \in Seq(Item) /\ Len(cs) \in Nat
      /\ \A j \in 1 .. Len(cs) : cs[j] \in Item /\ cs[j] # target
  <2>1. cs \in Seq(Item) /\ \A j \in 1 .. Len(cs) : cs[j] # target
    BY MovedByIs
  <2> QED BY <2>1
<1>3. MayGo(h, p, cs)
  BY <1>1, MovedMayGo
<1>4. h \in Hierarchies /\ p \in Item /\ None \notin Item
  BY <1>3, NoneAssumption DEF MayGo, Rooted, Tree
<1>5. target \in Item
  <2>1. RootItem \in Item
    BY OperationStackAssumption
  <2>2. Subtree(h, RootItem) \subseteq Item
    BY <1>4, <2>1, SubtreeLeast
  <2> QED BY <1>1, <2>2 DEF Shown
<1>6. /\ anchor \in Item \cup {None}
      /\ place # "end" => anchor = target /\ anchor # None
      /\ place # "end" => anchor \in Item /\ h.parent[anchor] = p
  BY <1>1, <1>4, <1>5 DEF AnchorOf, PutUnder
<1>7. Elsewhere(anchor, cs)
  <2>1. \A j \in 1 .. Len(cs) : cs[j] # anchor
    BY <1>1, <1>2, <1>4 DEF AnchorOf
  <2> QED BY <2>1 DEF Elsewhere
<1>8. ops = [k \in 1 .. Len(cs) |->
               IF place = "end" \/ p # h.parent[cs[k]]
               THEN ParentChange(h, p, cs[k], place, anchor)
               ELSE RepositionInParent(cs[k], place, anchor)]
  BY <1>1, <1>2, DropIs
<1>9. PICK none : none = <<>>
  OBVIOUS
<1>10. ASSUME NEW k \in 1 .. Len(cs)
       PROVE  /\ ops[k] \in Ops /\ Goes(ops[k], h, p, cs[k], anchor) /\ ops[k].place = place
              /\ ops[k].selBefore = none /\ ops[k].selAfter = none
              /\ ops[k].kind \in {"parent_change", "reposition"} /\ ops[k].item = cs[k]
  <2>0. PICK c \in Item : c = cs[k]
    BY <1>2
  <2>1. CASE place = "end" \/ p # h.parent[c]
    <3>1. PICK op : op = ParentChange(h, p, c, place, anchor)
      OBVIOUS
    <3>2. op = ops[k]
      BY <1>8, <2>0, <2>1, <3>1
    <3>3. /\ op \in Ops /\ op.kind = "parent_change" /\ op.item = c
          /\ op.before = h.parent[c] /\ op.after = p
          /\ op.place = place /\ op.anchor = anchor
          /\ op.selBefore = none /\ op.selAfter = none
      BY <1>4, <1>6, <1>9, <3>1, MovesMade
    <3>4. Goes(op, h, p, c, anchor)
      BY <1>6, <2>1, <3>3 DEF Goes
    <3> QED BY <2>0, <3>2, <3>3, <3>4
  <2>2. CASE ~(place = "end" \/ p # h.parent[c])
    <3>1. PICK op : op = RepositionInParent(c, place, anchor)
      OBVIOUS
    <3>2. op = ops[k]
      BY <1>8, <2>0, <2>2, <3>1
    <3>3. /\ op \in Ops /\ op.kind = "reposition" /\ op.item = c
          /\ op.place = place /\ op.anchor = anchor
          /\ op.selBefore = none /\ op.selAfter = none
      BY <1>4, <1>6, <1>9, <3>1, MovesMade
    <3>4. Goes(op, h, p, c, anchor)
      BY <1>6, <2>2, <3>3 DEF Goes
    <3> QED BY <2>0, <3>2, <3>3, <3>4
  <2> QED BY <2>1, <2>2
<1>11. ops \in Seq(Ops) /\ Len(ops) = Len(cs)
  <2>1. ops = [k \in 1 .. Len(cs) |-> ops[k]]
    BY <1>8
  <2>2. ops \in [1 .. Len(cs) -> Ops]
    BY <1>10, <2>1
  <2> QED BY <1>2, <2>2, FunctionIsList
<1>12. Going(ops, h, p, cs, place, anchor)
  BY <1>3, <1>6, <1>7, <1>10, <1>11 DEF Going, Compounds
<1> QED BY <1>1, <1>9, <1>10, <1>11, <1>12

\* A move leaves the items of the scene what they are.
LEMMA GoingTurns ==
  ASSUME NEW ops, NEW h, NEW p, NEW cs, NEW place, NEW anchor,
         Going(ops, h, p, cs, place, anchor), NEW x \in Machines, IsRunning(x), x.tree = h,
         \A k \in 1 .. Len(ops) : ops[k].selBefore = <<>> /\ ops[k].selAfter = <<>>
  PROVE  LET r == Execute(ops, x).m
         IN  IsRunning(r) /\ Turns(ops, h, r.tree)
<1>1. PICK r : r = Execute(ops, x).m
  OBVIOUS
<1>2. PICK n : n = Len(cs)
  OBVIOUS
<1>3. PICK g : g = r.tree
  OBVIOUS
<1>4. IsRunning(r) /\ g \in MovedRows(h, p, cs, place, anchor, n)
  BY <1>1, <1>2, <1>3, GoingRuns
<1>5. g \in MovedTrees(h, p, cs, n)
  BY <1>4 DEF MovedRows
<1>6. /\ g \in Trees /\ g.parent = MovedParents(h, p, cs, n)
      /\ Subtree(g, RootItem) = Subtree(h, RootItem)
  BY <1>5 DEF MovedTrees
<1>7. Rooted(h) /\ \A j \in 1 .. Len(cs) : cs[j] # RootItem
  BY DEF Going, MayGo, ShownIn
<1>8. Rooted(g)
  <2>1. RootItem \in Item /\ h.parent[RootItem] = None
    BY <1>7, OperationStackAssumption DEF Rooted
  <2>2. g.parent[RootItem] = None
    BY <1>6, <1>7, <2>1 DEF MovedParents
  <2> QED BY <1>6, <2>2 DEF Rooted, Trees
<1>9. Turns(ops, h, g)
  BY <1>6, <1>7, <1>8 DEF Turns
<1> QED BY <1>1, <1>3, <1>4, <1>9
-----------------------------------------------------------------------------
(***************************************************************************)
(* The Attach button, which alone does not look where it attaches.         *)
(***************************************************************************)

\* A compound operation of one part.
LEMMA OnePart ==
  ASSUME NEW ops \in Compounds, Len(ops) = 1, NEW x \in Machines, IsRunning(x)
  PROVE  Execute(ops, x).m = ExecuteOne(ops[1], x).m
<1>1. PICK result : result = Execute(ops, x)
  OBVIOUS
<1>2. Runs(Ops, Machines, Doing, ops, x, result)
  BY <1>1, DoingRuns DEF Execute, Compounds
<1>3. PICK os \in Seq(Ops), ms \in [0 .. Len(ops) -> Machines] :
        /\ Len(os) = Len(ops) /\ ms[0] = x /\ Chain(Doing, ops, os, ms)
        /\ result = [ops |-> os, m |-> ms[Len(ops)]]
  BY <1>2 DEF Runs
<1>4. 1 \in 1 .. Len(ops) /\ 1 - 1 = 0 /\ ops[1] \in Ops
  BY DEF Compounds
<1>5. ms[1] = Doing[ops[1]][x].m
  BY <1>3, <1>4 DEF Chain, IsRunning
<1>6. Doing[ops[1]][x] = ExecuteOne(ops[1], x)
  BY <1>4 DEF Doing
<1> QED BY <1>1, <1>3, <1>5, <1>6

\* A change of parent that would make a cycle does not return.
LEMMA CycleStops ==
  ASSUME NEW op \in Ops, op.kind = "parent_change", NEW x \in Machines, IsRunning(x),
         x.tree.parent[op.item] = op.before, CreatesCycle(x.tree, op.item, op.after)
  PROVE  ExecuteOne(op, x).m.status = "no_return"
<1>1. PICK y : y = Attach(x, op.item, op.after, Target(x.tree, op, op.after))
  OBVIOUS
<1>2. /\ op.item \in Item /\ op.after \in Item \cup {None} /\ x.tree \in Hierarchies
  BY OpParts DEF Ops, Machines
<1>3. Target(x.tree, op, op.after) \in Nat
  BY <1>2, TargetIsNat DEF Ops
<1>4. y.status = "no_return"
  BY <1>1, <1>2, <1>3, AttachIs
<1>5. ExecuteOne(op, x).m = y
  BY <1>1 DEF ExecuteOne, ExecuteParentChange
<1> QED BY <1>4, <1>5

Attached == <<ParentChange(m.tree, m.selection[2], m.selection[1], "end", None)>>

LEMMA AttachTurns ==
  ASSUME Steady, Len(m.selection) >= 2, NEW ops, ops = Attached,
         NEW x \in Machines, IsRunning(x), x.tree = m.tree
  PROVE  LET r == Execute(ops, x).m
         IN  r.status = "no_return" \/ (IsRunning(r) /\ Turns(ops, m.tree, r.tree))
<1>1. PICK h, c, p, s : h = m.tree /\ c = s[1] /\ p = s[2] /\ s = m.selection
  OBVIOUS
<1>2. /\ s \in Seq(Item) /\ Len(s) >= 2 /\ ToSet(s) \subseteq ShownIn(h)
      /\ Rooted(h) /\ h \in Hierarchies /\ None \notin Item
  BY <1>1, NoneAssumption DEF Steady, Selections, Rooted, Tree
<1>3. c \in Item /\ p \in Item /\ c \in ShownIn(h) /\ p \in Subtree(h, RootItem)
  BY <1>1, <1>2 DEF ToSet, ShownIn
<1>4. PICK op : op = ParentChange(h, p, c, "end", None)
  OBVIOUS
<1>5. PICK none : none = <<>>
  OBVIOUS
<1>6. /\ op \in Ops /\ op.kind = "parent_change" /\ op.item = c
      /\ op.before = h.parent[c] /\ op.after = p /\ op.place = "end"
      /\ op.selBefore = none /\ op.selAfter = none
  BY <1>2, <1>3, <1>4, <1>5, MovesMade DEF Placements
<1>7. ops = <<op>>
  BY <1>1, <1>4 DEF Attached
<1>8. ops \in Compounds /\ Len(ops) = 1 /\ ops[1] = op
  BY <1>6, <1>7 DEF Compounds
<1>9. PICK r : r = Execute(ops, x).m
  OBVIOUS
<1>10. CASE p \in Subtree(h, c)
  <2>1. CreatesCycle(h, c, p)
    BY <1>2, <1>3, <1>10 DEF CreatesCycle
  <2>2. ExecuteOne(op, x).m.status = "no_return"
    BY <1>1, <1>6, <2>1, CycleStops
  <2> QED BY <1>8, <1>9, <2>2, OnePart
<1>11. CASE p \notin Subtree(h, c)
  <2>1. PICK cs : cs = <<c>>
    OBVIOUS
  <2>2. cs \in Seq(Item) /\ Len(cs) = 1 /\ cs[1] = c /\ \A j \in 1 .. Len(cs) : j = 1
    BY <1>3, <2>1
  <2>3. IsInjective(cs)
    BY <2>2 DEF IsInjective
  <2>4. MayGo(h, p, cs)
    BY <1>2, <1>3, <1>11, <2>2, <2>3 DEF MayGo
  <2>5. Elsewhere(None, cs)
    BY <1>2, <1>3, <2>2 DEF Elsewhere
  <2>6. Goes(op, h, p, c, None)
    BY <1>6 DEF Goes
  <2>7. Going(ops, h, p, cs, "end", None)
    BY <1>6, <1>8, <2>2, <2>4, <2>5, <2>6 DEF Going, Placements
  <2>8. \A k \in 1 .. Len(ops) : ops[k].selBefore = none /\ ops[k].selAfter = none
    BY <1>6, <1>8
  <2> QED BY <1>1, <1>5, <2>7, <2>8, GoingTurns
<1> QED BY <1>9, <1>10, <1>11
-----------------------------------------------------------------------------
(***************************************************************************)
(* Deletion.  The items of D, which has all that is below what it has, are *)
(* taken out one after another, those below before those above.            *)
(***************************************************************************)
BelowFirst(h, q, D) ==
  /\ D \subseteq Item /\ q \in Seq(Item)
  /\ \A i \in 1 .. Len(q) : q[i] \in D
  /\ \A n \in D : \E i \in 1 .. Len(q) : q[i] = n
  /\ \A i, j \in 1 .. Len(q) : i < j => h.depth[q[i]] >= h.depth[q[j]]
  /\ \A n \in Item : h.parent[n] \in D => n \in D

\* The trees that the first k are taken out of.
TakenOut(h, q, k) ==
  {g \in Trees : \A n \in Item :
     g.parent[n] = IF \E j \in 1 .. Len(q) : j <= k /\ q[j] = n THEN None ELSE h.parent[n]}

\* The next one has no children any more.
LEMMA NoneLeftBelow ==
  ASSUME NEW h, Tree(h), NEW q, NEW D, BelowFirst(h, q, D), NEW k \in 1 .. Len(q),
         NEW g, g \in TakenOut(h, q, k - 1)
  PROVE  g.children[q[k]] = <<>>
<1>0. PICK n : n = q[k]
  OBVIOUS
<1>1. /\ n \in D /\ n \in Item /\ D \subseteq Item /\ Len(q) \in Nat /\ n # None
      /\ h.depth \in [Item -> Nat] /\ DepthFromParent(h)
      /\ g \in Hierarchies /\ ParentHasChild(g)
  <2>1. n \in D /\ D \subseteq Item /\ Len(q) \in Nat
    BY <1>0 DEF BelowFirst
  <2>2. h.depth \in [Item -> Nat] /\ DepthFromParent(h)
    BY DEF Tree, WellFormed, Hierarchies
  <2>3. g \in Hierarchies /\ ParentHasChild(g)
    BY DEF Tree, WellFormed, TakenOut, Trees
  <2> QED BY <2>1, <2>2, <2>3, NoneAssumption
<1>2. ASSUME NEW z \in Children(g, n) PROVE FALSE
  <2>1. z \in Item /\ g.parent[z] = n
    <3>1. z \in Item
      BY <1>1, <1>2 DEF Children, Hierarchies
    <3> QED BY <1>1, <1>2, <3>1 DEF ParentHasChild
  <2>2. h.parent[z] = n /\ ~(\E j \in 1 .. Len(q) : j <= k - 1 /\ q[j] = z)
    BY <1>1, <2>1, NoneAssumption DEF TakenOut
  <2>3. PICK j \in 1 .. Len(q) : q[j] = z
    BY <1>1, <2>1, <2>2 DEF BelowFirst
  <2>4. ~(j <= k - 1)
    BY <2>2, <2>3
  <2>5. h.depth[z] = h.depth[n] + 1 /\ h.depth[n] \in Nat
    <3>1. h.depth[z] = IF h.parent[z] = None THEN 0 ELSE h.depth[h.parent[z]] + 1
      BY <1>1, <2>1 DEF DepthFromParent
    <3>2. h.depth[n] \in Nat
      BY <1>1
    <3> QED BY <1>1, <2>2, <3>1, <3>2
  <2>6. j # k
    BY <1>0, <2>3, <2>5
  <2>7. k < j
    BY <1>1, <2>4, <2>6
  <2>8. h.depth[q[k]] >= h.depth[q[j]]
    BY <2>7 DEF BelowFirst
  <2> QED BY <1>0, <2>3, <2>5, <2>8
<1>3. g.children[n] \in Seq(Item)
  BY <1>1 DEF Hierarchies
<1>4. Len(g.children[n]) = 0
  <2>1. ASSUME Len(g.children[n]) # 0 PROVE FALSE
    <3>1. 1 \in DOMAIN g.children[n]
      BY <1>3, <2>1
    <3>2. g.children[n][1] \in Children(g, n)
      BY <3>1 DEF Children
    <3> QED BY <1>2, <3>2
  <2> QED BY <2>1
<1> QED BY <1>0, <1>3, <1>4

\* Removing an item without children only takes it out.
LEMMA RemovesBare ==
  ASSUME NEW op \in Ops, op.kind = "remove", op.after = None, NEW y \in Machines, IsRunning(y),
         y.tree.children[op.item] = <<>>
  PROVE  LET r == ExecuteOne(op, y).m
         IN  /\ IsRunning(r) /\ Tree(r.tree)
             /\ r.tree.parent = [y.tree.parent EXCEPT ![op.item] = None]
<1>1. PICK g, n : g = y.tree /\ n = op.item
  OBVIOUS
<1>2. /\ Tree(g) /\ g \in Hierarchies /\ n \in Item /\ op.selAfter \in Seq(Item)
      /\ g.children[n] = <<>>
  BY <1>1, OpParts DEF Ops, Machines
<1>3. PICK moves : moves = Handing(g, n)
  OBVIOUS
<1>4. moves \in Seq(Moves) /\ Len(moves) = 0
  BY <1>2, <1>3, HandingIs
<1>5. PICK e : e = InOrder(ExecuteParentChange, moves, y)
  OBVIOUS
<1>6. e.m = y
  <2>1. Runs(Moves, Machines, Moving, moves, y, e)
    BY <1>4, <1>5, MovingRuns
  <2> QED BY <1>4, <2>1, RunsNothing
<1>7. PICK r : r = ExecuteRemove(op, y)
  OBVIOUS
<1>8. PICK i \in Nat : i = IndexInParent(g, n)
  BY <1>2, IndexIsNat
<1>9. r.m = Place(y, n, None, i, op.selAfter)
  <2>1. e = InOrder(ExecuteParentChange, Handing(y.tree, op.item), y)
    BY <1>1, <1>3, <1>5
  <2>2. r.m = Place(e.m, op.item, op.after, IndexInParent(y.tree, op.item), op.selAfter)
    BY <1>1, <1>2, <1>6, <1>7, <2>1, RemoveIs
  <2> QED BY <1>1, <1>6, <1>8, <2>2
<1>10. PICK t : t = SetParent(g, n, None, i)
  OBVIOUS
<1>11. IsRunning(r.m) /\ r.m.tree = t
  <2>1. ~CreatesCycle(g, n, None)
    BY DEF CreatesCycle
  <2>2. None \in Item \cup {None}
    OBVIOUS
  <2>3. LET z == Place(y, n, None, i, op.selAfter)
        IN  /\ IsRunning(z) <=> ~CreatesCycle(y.tree, n, None)
            /\ IsRunning(z) => z.tree = SetParent(y.tree, n, None, i)
    BY <1>2, <2>2, PlaceIs
  <2> QED BY <1>1, <1>9, <1>10, <2>1, <2>3
<1>12. Tree(t) /\ t.parent = [g.parent EXCEPT ![n] = None]
  <2>1. None \notin Subtree(g, n) /\ None \in Item \cup {None}
    BY <1>2, SubtreeLeast, NoneAssumption
  <2> QED BY <1>2, <1>8, <1>10, <2>1, SetParentTree
<1>13. ExecuteOne(op, y) = r
  BY <1>7 DEF ExecuteOne
<1> QED BY <1>1, <1>11, <1>12, <1>13

LEMMA TakesOut ==
  ASSUME NEW h, Tree(h), NEW q, NEW D, BelowFirst(h, q, D), NEW k \in 1 .. Len(q),
         NEW y \in Machines, IsRunning(y), y.tree \in TakenOut(h, q, k - 1),
         NEW op \in Ops, op.kind = "remove", op.after = None, op.item = q[k]
  PROVE  LET r == ExecuteOne(op, y).m
         IN  IsRunning(r) /\ r.tree \in TakenOut(h, q, k)
<1>1. PICK g, n, r : g = y.tree /\ n = q[k] /\ r = ExecuteOne(op, y).m
  OBVIOUS
<1>2. n \in Item /\ Len(q) \in Nat
  BY <1>1 DEF BelowFirst
<1>3. g.children[n] = <<>>
  BY <1>1, NoneLeftBelow
<1>4. IsRunning(r) /\ Tree(r.tree) /\ r.tree.parent = [g.parent EXCEPT ![n] = None]
  BY <1>1, <1>3, RemovesBare
<1>5. g.parent \in [Item -> Item \cup {None}] /\ r.tree \in Trees
  BY <1>1, <1>4 DEF Machines, Hierarchies, Trees, Tree
<1>6. ASSUME NEW z \in Item
      PROVE  r.tree.parent[z] = IF \E j \in 1 .. Len(q) : j <= k /\ q[j] = z THEN None
                                ELSE h.parent[z]
  <2>1. g.parent[z] = IF \E j \in 1 .. Len(q) : j <= k - 1 /\ q[j] = z THEN None ELSE h.parent[z]
    BY <1>1 DEF TakenOut
  <2>2. \A j \in 1 .. Len(q) : j <= k <=> j <= k - 1 \/ j = k
    BY <1>2
  <2>3. r.tree.parent[z] = IF z = n THEN None ELSE g.parent[z]
    BY <1>4, <1>5
  <2> QED BY <1>1, <2>1, <2>2, <2>3
<1> QED BY <1>1, <1>4, <1>5, <1>6 DEF TakenOut

\* The tree that everything of D is taken out of.
Outside(h, D, g) ==
  g \in Trees /\ \A n \in Item : g.parent[n] = IF n \in D THEN None ELSE h.parent[n]

\* What removals are constructed for the items of q.
Removals(ops, q) ==
  /\ ops \in Compounds /\ Len(ops) = Len(q)
  /\ \A k \in 1 .. Len(ops) :
       ops[k].kind = "remove" /\ ops[k].after = None /\ ops[k].item = q[k]

LEMMA RemovalsRun ==
  ASSUME NEW h, Tree(h), NEW q, NEW D, BelowFirst(h, q, D), NEW ops, Removals(ops, q),
         NEW x \in Machines, IsRunning(x), x.tree = h
  PROVE  LET r == Execute(ops, x).m
         IN  IsRunning(r) /\ Outside(h, D, r.tree)
<1> DEFINE G == [k \in 0 .. Len(q) |-> TakenOut(h, q, k)]
<1>1. PICK N \in Nat : N = Len(q)
  BY DEF BelowFirst
<1>2. ops \in Compounds /\ Len(ops) = N /\ \A k \in 1 .. N : ops[k] \in Ops
  BY <1>1 DEF Removals, Compounds
<1>3. x.tree \in G[0]
  <2>1. h \in TakenOut(h, q, 0)
    <3>1. ~(\E j \in 1 .. Len(q) : j <= 0)
      BY <1>1
    <3> QED BY <3>1 DEF TakenOut, Trees, Tree
  <2> QED BY <1>1, <2>1
<1>4. ASSUME NEW k \in 1 .. N, NEW y \in Machines, IsRunning(y), y.tree \in G[k - 1]
      PROVE  IsRunning(ExecuteOne(ops[k], y).m) /\ ExecuteOne(ops[k], y).m.tree \in G[k]
  <2>1. k - 1 \in 0 .. N /\ k \in 0 .. N
    BY <1>1
  <2>2. y.tree \in TakenOut(h, q, k - 1)
    BY <1>1, <1>4, <2>1
  <2>3. PICK op \in Ops : op = ops[k]
    BY <1>2
  <2>4. op.kind = "remove" /\ op.after = None /\ op.item = q[k]
    BY <1>2, <2>3 DEF Removals
  <2>5. IsRunning(ExecuteOne(op, y).m) /\ ExecuteOne(op, y).m.tree \in TakenOut(h, q, k)
    BY <1>1, <1>4, <2>2, <2>4, TakesOut
  <2> QED BY <1>1, <2>1, <2>3, <2>5
<1>5. PICK r : r = Execute(ops, x).m
  OBVIOUS
<1>6. IsRunning(r) /\ r.tree \in G[N]
  <2> HIDE DEF G
  <2> QED BY <1>2, <1>3, <1>4, <1>5, TreesThrough
<1>7. r.tree \in TakenOut(h, q, N)
  BY <1>1, <1>6
<1>8. Outside(h, D, r.tree)
  <2>1. \A n \in Item : n \in D <=> \E j \in 1 .. Len(q) : j <= N /\ q[j] = n
    BY <1>1 DEF BelowFirst
  <2> QED BY <1>7, <2>1 DEF Outside, TakenOut
<1> QED BY <1>5, <1>6, <1>8

\* The scene loses what was taken out and nothing else.
LEMMA SceneLoses ==
  ASSUME NEW h, Rooted(h), NEW D \in SUBSET Item, RootItem \notin D,
         \A n \in Item : h.parent[n] \in D => n \in D, NEW g, Outside(h, D, g)
  PROVE  Rooted(g) /\ Subtree(g, RootItem) = Subtree(h, RootItem) \ D
<1>1. /\ h \in Hierarchies /\ g \in Hierarchies /\ RootItem \in Item /\ None \notin Item
      /\ ParentHasChild(h) /\ ParentHasChild(g) /\ h.parent[RootItem] = None
      /\ \A n \in Item : g.parent[n] = IF n \in D THEN None ELSE h.parent[n]
      /\ Tree(g)
  BY NoneAssumption, OperationStackAssumption DEF Rooted, Tree, WellFormed, Outside, Trees
<1>2. /\ Subtree(h, RootItem) \subseteq Item /\ RootItem \in Subtree(h, RootItem)
      /\ ClosedIn(h, Subtree(h, RootItem))
      /\ Subtree(g, RootItem) \subseteq Item /\ RootItem \in Subtree(g, RootItem)
      /\ ClosedIn(g, Subtree(g, RootItem))
  BY <1>1, SubtreeLeast
<1>3. ASSUME NEW x \in Item, NEW z, z \in Children(h, x)
      PROVE  z \in Item /\ h.parent[z] = x
  <2>1. z \in Item
    BY <1>1, <1>3 DEF Children, Hierarchies
  <2> QED BY <1>1, <1>3, <2>1 DEF ParentHasChild
<1>4. ASSUME NEW x \in Item, NEW z, z \in Children(g, x)
      PROVE  z \in Item /\ g.parent[z] = x
  <2>1. z \in Item
    BY <1>1, <1>4 DEF Children, Hierarchies
  <2> QED BY <1>1, <1>4, <2>1 DEF ParentHasChild
<1>5. PICK S : S = Subtree(h, RootItem) \ D
  OBVIOUS
<1>6. Subtree(g, RootItem) \subseteq S
  <2>1. ASSUME NEW x \in S, NEW z \in Children(g, x) PROVE z \in S
    <3>1. x \in Item /\ x \in Subtree(h, RootItem)
      BY <1>2, <1>5
    <3>2. z \in Item /\ g.parent[z] = x
      BY <1>4, <3>1
    <3>3. z \notin D /\ h.parent[z] = x
      BY <1>1, <3>1, <3>2
    <3>4. z \in Children(h, x)
      BY <1>1, <3>1, <3>2, <3>3 DEF ParentHasChild
    <3> QED BY <1>2, <1>5, <3>1, <3>3, <3>4 DEF ClosedIn
  <2>2. S \in SUBSET Item /\ RootItem \in S /\ ClosedIn(g, S)
    BY <1>2, <1>5, <2>1 DEF ClosedIn
  <2> QED BY <1>1, <2>2, SubtreeLeast
<1>7. PICK T : T = Subtree(g, RootItem) \cup D
  OBVIOUS
<1>8. Subtree(h, RootItem) \subseteq T
  <2>1. ASSUME NEW x \in T, NEW z \in Children(h, x) PROVE z \in T
    <3>1. x \in Item
      BY <1>2, <1>7
    <3>2. z \in Item /\ h.parent[z] = x
      BY <1>3, <3>1
    <3>3. CASE z \in D
      BY <1>7, <3>3
    <3>4. CASE z \notin D
      <4>1. x \notin D
        BY <3>2, <3>4
      <4>2. x \in Subtree(g, RootItem) /\ g.parent[z] = x
        BY <1>1, <1>7, <3>2, <3>4, <4>1
      <4>3. z \in Children(g, x)
        BY <1>1, <3>1, <3>2, <4>2 DEF ParentHasChild
      <4> QED BY <1>2, <1>7, <4>2, <4>3 DEF ClosedIn
    <3> QED BY <3>3, <3>4
  <2>2. T \in SUBSET Item /\ RootItem \in T /\ ClosedIn(h, T)
    BY <1>2, <1>7, <2>1 DEF ClosedIn
  <2> QED BY <1>1, <2>2, SubtreeLeast
<1>9. Rooted(g)
  BY <1>1 DEF Rooted
<1> QED BY <1>5, <1>6, <1>7, <1>8, <1>9

\* What is deleted with a selection.
Deleted(h, sel) == UNION {Subtree(h, s) : s \in ToSet(sel)}

LEMMA DeletedIs ==
  ASSUME NEW h, Rooted(h), NEW sel \in Selections(h)
  PROVE  /\ Deleted(h, sel) \in SUBSET Item /\ RootItem \notin Deleted(h, sel)
         /\ \A n \in Item : h.parent[n] \in Deleted(h, sel) => n \in Deleted(h, sel)
         /\ ToSet(sel) \subseteq Deleted(h, sel)
<1>1. /\ h \in Hierarchies /\ None \notin Item /\ ParentHasChild(h)
      /\ ToSet(sel) \subseteq ShownIn(h) /\ RootItem \in Item
  BY NoneAssumption, OperationStackAssumption DEF Rooted, Tree, WellFormed, Selections
<1>2. ASSUME NEW s \in ToSet(sel)
      PROVE  /\ s \in Item /\ RootItem \notin Subtree(h, s) /\ Subtree(h, s) \subseteq Item
             /\ s \in Subtree(h, s) /\ ClosedIn(h, Subtree(h, s))
  <2>1. s \in Item /\ RootItem \notin Subtree(h, s)
    BY <1>1, BelowShown DEF ShownIn
  <2> QED BY <1>1, <2>1, SubtreeLeast
<1>3. ASSUME NEW n \in Item, h.parent[n] \in Deleted(h, sel) PROVE n \in Deleted(h, sel)
  <2>1. PICK s \in ToSet(sel) : h.parent[n] \in Subtree(h, s)
    BY <1>3 DEF Deleted
  <2>2. h.parent[n] \in Item
    BY <1>2, <2>1
  <2>3. n \in Children(h, h.parent[n])
    BY <1>1, <2>2 DEF ParentHasChild
  <2>4. n \in Subtree(h, s)
    BY <1>2, <2>1, <2>3 DEF ClosedIn
  <2> QED BY <2>4 DEF Deleted
<1>4. Deleted(h, sel) \in SUBSET Item /\ RootItem \notin Deleted(h, sel)
  BY <1>2 DEF Deleted
<1>5. ToSet(sel) \subseteq Deleted(h, sel)
  BY <1>2 DEF Deleted
<1> QED BY <1>3, <1>4, <1>5

\* Each order that the sort may give has all that is deleted.
LEMMA OrdersDelete ==
  ASSUME Steady, NEW q \in DeleteOrders, NEW D, D = Deleted(m.tree, m.selection)
  PROVE  BelowFirst(m.tree, q, D)
<1> DEFINE collected == UNION {{s} \X Subtree(m.tree, s) : s \in Selected}
<1>1. PICK h : h = m.tree
  OBVIOUS
<1>2. Rooted(h) /\ m.selection \in Selections(h) /\ Selected = ToSet(m.selection)
  BY <1>1 DEF Steady, Selected
<1>3. D \in SUBSET Item /\ \A n \in Item : h.parent[n] \in D => n \in D
  BY <1>1, <1>2, DeletedIs
<1>4. PICK s \in SetToSeqs(collected) :
        /\ q = [i \in DOMAIN s |-> s[i][2]]
        /\ \A i, j \in DOMAIN s : i < j => h.depth[s[i][2]] >= h.depth[s[j][2]]
  BY <1>1 DEF DeleteOrders
<1>5. \A w \in collected : w[2] \in D
  BY <1>1, <1>2 DEF Deleted
<1>6. \A n \in D : \E w \in collected : w[2] = n
  <2> TAKE n \in D
  <2>1. PICK s1 \in Selected : n \in Subtree(h, s1)
    BY <1>1, <1>2 DEF Deleted
  <2>2. <<s1, n>> \in collected /\ <<s1, n>>[2] = n
    BY <1>1, <2>1
  <2> QED BY <2>2
<1>7. IsFiniteSet(collected)
  <2>1. collected \subseteq Item \X Item
    <3>1. Selected \subseteq D
      BY <1>1, <1>2, DeletedIs
    <3>2. \A s1 \in Selected : Subtree(h, s1) \subseteq D
      BY <1>1, <1>2 DEF Deleted
    <3> QED BY <1>1, <1>3, <3>1, <3>2
  <2>2. IsFiniteSet(Item \X Item)
    BY OperationStackAssumption, FS_Product
  <2> QED BY <2>1, <2>2, FS_Subset
<1> HIDE DEF collected
<1>8. s \in Seq(collected) /\ ToSet(s) = collected
  BY <1>7, SetToSeqsLists
<1>9. PICK N \in Nat : N = Len(s) /\ DOMAIN s = 1 .. N
  BY <1>8
<1>10. \A i \in 1 .. N : s[i] \in collected /\ q[i] = s[i][2] /\ q[i] \in D
  BY <1>4, <1>5, <1>8, <1>9
<1>11. q \in Seq(Item) /\ Len(q) = N
  <2>1. q = [i \in 1 .. N |-> q[i]]
    BY <1>4, <1>9
  <2>2. q \in [1 .. N -> Item]
    BY <1>3, <1>10, <2>1
  <2> QED BY <2>2, FunctionIsList
<1>12. ASSUME NEW n \in D PROVE \E i \in 1 .. N : q[i] = n
  <2>1. PICK w \in collected : w[2] = n
    BY <1>6
  <2>2. PICK i \in 1 .. N : s[i] = w
    BY <1>8, <1>9 DEF ToSet
  <2> QED BY <1>10, <2>1, <2>2
<1>13. \A i, j \in 1 .. N : i < j => h.depth[q[i]] >= h.depth[q[j]]
  BY <1>4, <1>9, <1>10
<1> QED BY <1>1, <1>3, <1>10, <1>11, <1>12, <1>13 DEF BelowFirst

\* What comes of a deletion.
DeletesExactly(ops, h, sel, g) ==
  ops # <<>> /\ (\A k \in 1 .. Len(ops) : ops[k].kind = "remove")
  => /\ ShownIn(g) = ShownIn(h) \ Deleted(h, sel)
     /\ \A n \in ShownIn(g) : g.parent[n] = h.parent[n]

LEMMA DeletionTurns ==
  ASSUME Steady, m.selection # <<>>, NEW q \in DeleteOrders,
         NEW ops, ops = [i \in DOMAIN q |-> RemoveItemOp(m, q[i])],
         NEW x \in Machines, IsRunning(x), x.tree = m.tree
  PROVE  LET r == Execute(ops, x).m
         IN  /\ IsRunning(r) /\ Turns(ops, m.tree, r.tree)
             /\ DeletesExactly(ops, m.tree, m.selection, r.tree)
             /\ ops \in Compounds
<1>1. PICK h, sel : h = m.tree /\ sel = m.selection
  OBVIOUS
<1>2. /\ Rooted(h) /\ Tree(h) /\ h \in Hierarchies /\ sel \in Selections(h) /\ sel \in Seq(Item)
      /\ m \in Machines
  BY <1>1 DEF Steady, Selections, Rooted, Tree
<1>3. PICK D : D = Deleted(h, sel)
  OBVIOUS
<1>4. /\ D \in SUBSET Item /\ RootItem \notin D /\ ToSet(sel) \subseteq D
      /\ \A n \in Item : h.parent[n] \in D => n \in D
  BY <1>2, <1>3, DeletedIs
<1>5. BelowFirst(h, q, D)
  BY <1>1, <1>3, OrdersDelete
<1>6. PICK N \in Nat : N = Len(q) /\ DOMAIN q = 1 .. N /\ \A i \in 1 .. N : q[i] \in Item
  BY <1>5 DEF BelowFirst
<1>7. PICK none : none = <<>>
  OBVIOUS
<1>8. ops = [i \in 1 .. N |-> RemoveItemOp(m, q[i])]
  BY <1>6
<1>9. ASSUME NEW i \in 1 .. N
      PROVE  /\ ops[i] \in Ops /\ ops[i].kind = "remove" /\ ops[i].item = q[i]
             /\ ops[i].after = None /\ ops[i].selBefore = sel /\ ops[i].selAfter = none
  <2>1. PICK n \in Item : n = q[i]
    BY <1>6
  <2>2. ops[i] = RemoveItemOp(m, n)
    BY <1>8, <2>1
  <2>3. None \in Item \cup {None} /\ "end" \in Placements
    BY DEF Placements
  <2> QED BY <1>1, <1>2, <1>7, <2>1, <2>2, <2>3, ConstructorsMake
<1>10. ops \in Compounds /\ Len(ops) = N
  <2>1. ops \in [1 .. N -> Ops]
    BY <1>8, <1>9
  <2> QED BY <2>1, FunctionIsList DEF Compounds
<1>11. Removals(ops, q)
  BY <1>6, <1>9, <1>10 DEF Removals
<1>12. N # 0
  <2>1. sel[1] \in ToSet(sel)
    BY <1>1, <1>2 DEF ToSet
  <2> QED BY <1>4, <1>5, <1>6, <2>1 DEF BelowFirst
<1>13. PICK r : r = Execute(ops, x).m
  OBVIOUS
<1>14. IsRunning(r) /\ Outside(h, D, r.tree)
  BY <1>1, <1>2, <1>5, <1>11, <1>13, RemovalsRun
<1>15. PICK g : g = r.tree
  OBVIOUS
<1>16. Rooted(g) /\ Subtree(g, RootItem) = Subtree(h, RootItem) \ D
  BY <1>2, <1>4, <1>14, <1>15, SceneLoses
<1>17. ops # none
  BY <1>7, <1>10, <1>12
<1>18. Turns(ops, h, g)
  <2>1. none \in Selections(g)
    BY <1>7, NothingSelected
  <2>2. \A k \in 1 .. Len(ops) :
          /\ ops[k].kind \in {"insert", "remove"}
          /\ ops[k].selBefore \in Selections(h) /\ ops[k].selAfter \in Selections(g)
    BY <1>2, <1>9, <1>10, <2>1
  <2> QED BY <1>2, <1>7, <1>16, <1>17, <2>2 DEF Turns
<1>19. DeletesExactly(ops, h, sel, g)
  <2>1. ShownIn(g) = ShownIn(h) \ Deleted(h, sel)
    BY <1>3, <1>16 DEF ShownIn
  <2>2. ASSUME NEW n \in ShownIn(g) PROVE g.parent[n] = h.parent[n]
    <3>1. n \notin D /\ n \in Subtree(h, RootItem)
      BY <1>16, <2>2 DEF ShownIn
    <3>2. n \in Item
      BY <1>2, <3>1, SubtreeLeast, OperationStackAssumption
    <3> QED BY <1>14, <1>15, <3>1, <3>2 DEF Outside
  <2> QED BY <2>1, <2>2 DEF DeletesExactly
<1> QED BY <1>1, <1>10, <1>13, <1>14, <1>15, <1>18, <1>19
-----------------------------------------------------------------------------
(***************************************************************************)
(* Insertion.  The items cs, which are in no tree, go below items of the   *)
(* scene, and the scene keeps what it had.                                 *)
(***************************************************************************)
Insertions(ops, h, sel, cs) ==
  /\ Rooted(h) /\ sel \in Selections(h) /\ cs \in Seq(Item) /\ IsInjective(cs)
  /\ ops \in Compounds /\ Len(ops) = Len(cs)
  /\ \A k \in 1 .. Len(cs) :
       /\ ops[k].kind = "insert" /\ ops[k].item = cs[k]
       /\ cs[k] # RootItem /\ h.parent[cs[k]] = None
       /\ ops[k].after \in Subtree(h, RootItem)
       /\ ops[k].selBefore = sel /\ ops[k].selAfter = sel

\* The trees that the first k of them are in.
Grown(h, cs, k) ==
  {g \in Trees :
     /\ g.parent[RootItem] = None /\ Subtree(h, RootItem) \subseteq Subtree(g, RootItem)
     /\ \A j \in 1 .. Len(cs) : j > k => g.parent[cs[j]] = None}

LEMMA InsertGrows ==
  ASSUME NEW ops, NEW h, NEW sel, NEW cs, Insertions(ops, h, sel, cs), NEW k \in 1 .. Len(cs),
         NEW y \in Machines, IsRunning(y), y.tree \in Grown(h, cs, k - 1)
  PROVE  LET r == ExecuteOne(ops[k], y).m
         IN  IsRunning(r) /\ r.tree \in Grown(h, cs, k)
<1>1. PICK g, op, c, p : g = y.tree /\ op = ops[k] /\ c = op.item /\ p = op.after
  OBVIOUS
<1>2. /\ op \in Ops /\ op.kind = "insert" /\ c = cs[k] /\ c # RootItem
      /\ p \in Subtree(h, RootItem)
  BY <1>1 DEF Insertions, Compounds
<1>3. /\ Tree(g) /\ g \in Hierarchies /\ Rooted(g) /\ RootItem \in Item /\ c \in Item
      /\ Subtree(h, RootItem) \subseteq Subtree(g, RootItem)
      /\ \A j \in 1 .. Len(cs) : j > k - 1 => g.parent[cs[j]] = None
  <2>1. g \in Grown(h, cs, k - 1)
    BY <1>1
  <2>2. c \in Item
    BY <1>1, <1>2, OpParts DEF Ops
  <2>3. RootItem \in Item
    BY OperationStackAssumption
  <2> QED BY <2>1, <2>2, <2>3 DEF Grown, Trees, Rooted
<1>4. g.parent[c] = None /\ Len(cs) \in Nat
  <2>1. k > k - 1 /\ Len(cs) \in Nat
    BY DEF Insertions
  <2> QED BY <1>2, <1>3, <2>1
<1>5. Subtree(g, RootItem) \cap Subtree(g, c) = {}
  BY <1>2, <1>3, <1>4, ApartFromRoot
<1>6. /\ p \in Subtree(g, RootItem) /\ p \in Item /\ p \notin Subtree(g, c)
      /\ RootItem \notin Subtree(g, c)
  <2>1. Subtree(g, RootItem) \subseteq Item /\ RootItem \in Subtree(g, RootItem)
    BY <1>3, SubtreeLeast
  <2>2. p \in Subtree(g, RootItem)
    BY <1>2, <1>3
  <2> QED BY <1>5, <2>1, <2>2
<1>7. PICK t : t = SetParent(g, c, p, 0)
  OBVIOUS
<1>8. /\ Tree(t) /\ t.parent = [g.parent EXCEPT ![c] = p]
      /\ \A r \in Item \ Subtree(g, c) :
           Subtree(t, r) = IF p \in Subtree(g, r) THEN Subtree(g, r) \cup Subtree(g, c)
                           ELSE Subtree(g, r) \ Subtree(g, c)
  BY <1>3, <1>6, <1>7, SetParentTree
<1>9. Subtree(t, RootItem) = Subtree(g, RootItem) \cup Subtree(g, c)
  BY <1>3, <1>6, <1>8
<1>10. PICK e : e = ExecuteInsert(op, y)
  OBVIOUS
<1>11. ExecuteOne(op, y) = e
  BY <1>2, <1>10 DEF ExecuteOne
<1>12. IsRunning(e.m) /\ e.m.tree = t
  <2>1. ~CreatesCycle(g, c, p)
    BY <1>6 DEF CreatesCycle
  <2>2. /\ IsRunning(e.m) <=> ~CreatesCycle(y.tree, op.item, op.after)
        /\ IsRunning(e.m) => e.m.tree = SetParent(y.tree, op.item, op.after, 0)
    BY <1>2, <1>10, InsertIs
  <2> QED BY <1>1, <1>7, <2>1, <2>2
<1>13. t \in Grown(h, cs, k)
  <2>1. g.parent \in [Item -> Item \cup {None}]
    BY <1>3 DEF Hierarchies
  <2>2. t.parent[RootItem] = None
    BY <1>2, <1>3, <1>8, <2>1 DEF Rooted
  <2>3. ASSUME NEW j \in 1 .. Len(cs), j > k PROVE t.parent[cs[j]] = None
    <3>1. j > k - 1 /\ j # k
      BY <1>4, <2>3
    <3>2. cs \in Seq(Item) /\ IsInjective(cs)
      BY DEF Insertions
    <3>3. cs[j] # c /\ cs[j] \in Item
      BY <1>2, <3>1, <3>2 DEF IsInjective
    <3> QED BY <1>3, <1>8, <2>1, <3>1, <3>3
  <2>4. t \in Trees
    BY <1>8 DEF Trees, Tree
  <2> QED BY <1>3, <1>9, <2>2, <2>3, <2>4 DEF Grown
<1> QED BY <1>1, <1>11, <1>12, <1>13

LEMMA InsertionsTurn ==
  ASSUME NEW ops, NEW h, NEW sel, NEW cs, Insertions(ops, h, sel, cs),
         NEW x \in Machines, IsRunning(x), x.tree = h
  PROVE  LET r == Execute(ops, x).m
         IN  IsRunning(r) /\ Turns(ops, h, r.tree)
<1> DEFINE G == [k \in 0 .. Len(cs) |-> Grown(h, cs, k)]
<1>1. PICK N \in Nat : N = Len(cs)
  BY DEF Insertions
<1>2. ops \in Compounds /\ Len(ops) = N
  BY <1>1 DEF Insertions
<1>3. x.tree \in G[0]
  <2>1. h \in Grown(h, cs, 0)
    BY DEF Insertions, Grown, Rooted, Trees, Tree
  <2> QED BY <1>1, <2>1
<1>4. ASSUME NEW k \in 1 .. N, NEW y \in Machines, IsRunning(y), y.tree \in G[k - 1]
      PROVE  IsRunning(ExecuteOne(ops[k], y).m) /\ ExecuteOne(ops[k], y).m.tree \in G[k]
  <2>1. k - 1 \in 0 .. N /\ k \in 0 .. N
    BY <1>1
  <2>2. y.tree \in Grown(h, cs, k - 1)
    BY <1>1, <1>4, <2>1
  <2>3. IsRunning(ExecuteOne(ops[k], y).m) /\ ExecuteOne(ops[k], y).m.tree \in Grown(h, cs, k)
    BY <1>1, <1>4, <2>2, InsertGrows
  <2> QED BY <1>1, <2>1, <2>3
<1>5. PICK r, g : r = Execute(ops, x).m /\ g = r.tree
  OBVIOUS
<1>6. IsRunning(r) /\ g \in G[N]
  <2> HIDE DEF G
  <2> QED BY <1>2, <1>3, <1>4, <1>5, TreesThrough
<1>7. g \in Grown(h, cs, N)
  BY <1>1, <1>6
<1>8. Rooted(h) /\ Rooted(g) /\ sel \in Selections(h) /\ sel \in Selections(g)
  BY <1>7 DEF Insertions, Grown, Rooted, Trees, Selections, ShownIn
<1>9. \A k \in 1 .. Len(ops) :
        /\ ops[k].kind \in {"insert", "remove"}
        /\ ops[k].selBefore \in Selections(h) /\ ops[k].selAfter \in Selections(g)
  BY <1>8 DEF Insertions
<1>10. ASSUME ops = <<>> PROVE g = h
  <2>1. PICK result : result = Execute(ops, x)
    OBVIOUS
  <2>2. Runs(Ops, Machines, Doing, ops, x, result)
    BY <1>2, <2>1, DoingRuns DEF Execute, Compounds
  <2>3. Len(ops) = 0
    BY <1>10
  <2>4. result.m = x
    BY <1>2, <2>2, <2>3, RunsNothing DEF Compounds
  <2> QED BY <1>5, <2>1, <2>4
<1>11. Turns(ops, h, g)
  BY <1>8, <1>9, <1>10 DEF Turns
<1> QED BY <1>5, <1>6, <1>11
-----------------------------------------------------------------------------
(***************************************************************************)
(* What is dropped before or after an item, in the order of the selection. *)
(***************************************************************************)
ItemsOf(ops) == {ops[i].item : i \in DOMAIN ops}

RowOf(items, sel) ==
  IF items \subseteq ToSet(sel) THEN EraseAll(sel, Item \ items) ELSE SetToSeq(items)

RunOf(row, place, anchor) ==
  IF place = "before" THEN Append(row, anchor) ELSE <<anchor>> \o row

\* The items of cs, which are moved last one first if they go behind an anchor.
Fits(row, cs, place) ==
  /\ row \in Seq(Item) /\ Len(row) = Len(cs)
  /\ \A i \in 1 .. Len(cs) : row[i] = IF place = "before" THEN cs[i] ELSE cs[(Len(cs) + 1) - i]

\* The selection without what cannot be moved.
LEMMA SelectionFits ==
  ASSUME NEW sel \in Seq(Item), NEW S, NEW place \in {"before", "after"},
         NEW cs, cs = EraseAll(IF place = "after" THEN Reverse(sel) ELSE sel, S)
  PROVE  ToSet(cs) \subseteq ToSet(sel) /\ Fits(EraseAll(sel, Item \ ToSet(cs)), cs, place)
<1>1. PICK T, row : T = Item \ ToSet(cs) /\ row = EraseAll(sel, T)
  OBVIOUS
<1>2. ToSet(sel) \subseteq Item
  BY DEF ToSet
<1>3. Reverse(sel) \in Seq(Item) /\ ToSet(Reverse(sel)) = ToSet(sel)
  BY ReverseInjective
<1>4. cs \in Seq(Item) /\ ToSet(cs) = ToSet(sel) \ S
  BY <1>3, EraseAllLeaves
<1>5. ToSet(sel) \ T = ToSet(sel) \ S
  BY <1>1, <1>2, <1>4
<1>6. CASE place = "before"
  <2>1. cs = EraseAll(sel, S)
    BY <1>6
  <2>2. row = cs
    BY <1>1, <1>5, <2>1, EraseAllSame
  <2> QED BY <1>1, <1>4, <1>6, <2>2 DEF Fits
<1>7. CASE place = "after"
  <2>1. cs = EraseAll(Reverse(sel), S)
    BY <1>7
  <2>2. /\ row \in Seq(Item) /\ Len(row) = Len(cs)
        /\ \A i \in 1 .. Len(row) : row[i] = cs[(Len(row) + 1) - i]
    BY <1>1, <1>5, <2>1, EraseAllBackwards
  <2> QED BY <1>1, <1>4, <1>7, <2>2 DEF Fits
<1> QED BY <1>6, <1>7

\* An item that is not selected, alone.
LEMMA OneListed ==
  ASSUME NEW n \in Item, NEW row, row = SetToSeq({n})
  PROVE  row \in Seq(Item) /\ Len(row) = 1 /\ row[1] = n
<1>1. Cardinality({n}) = 1
  BY FS_Singleton
<1>2. row = CHOOSE f \in [1 .. 1 -> {n}] : IsInjective(f)
  BY <1>1 DEF SetToSeq
<1>3. PICK f : f = [i \in 1 .. 1 |-> n]
  OBVIOUS
<1>4. f \in [1 .. 1 -> {n}] /\ IsInjective(f)
  BY <1>3 DEF IsInjective
<1>5. row \in [1 .. 1 -> {n}]
  BY <1>2, <1>4
<1>6. row \in Seq({n}) /\ Len(row) = 1
  BY <1>5, FunctionIsList
<1> QED BY <1>5, <1>6

LEMMA AloneFits ==
  ASSUME NEW n \in Item, NEW s, s = <<n>>, NEW S, NEW place \in {"before", "after"},
         NEW cs, cs = EraseAll(IF place = "after" THEN Reverse(s) ELSE s, S), Len(cs) # 0
  PROVE  ToSet(cs) = {n} /\ Fits(SetToSeq({n}), cs, place)
<1>1. s \in Seq(Item) /\ ToSet(s) = {n} /\ IsInjective(s)
  BY DEF ToSet, IsInjective
<1>2. Reverse(s) \in Seq(Item) /\ ToSet(Reverse(s)) = ToSet(s) /\ IsInjective(Reverse(s))
  BY <1>1, ReverseInjective
<1>3. cs \in Seq(Item) /\ ToSet(cs) = {n} \ S /\ IsInjective(cs)
  <2>1. PICK t : t = IF place = "after" THEN Reverse(s) ELSE s
    OBVIOUS
  <2>2. t \in Seq(Item) /\ ToSet(t) = {n} /\ IsInjective(t)
    BY <1>1, <1>2, <2>1
  <2>3. cs = EraseAll(t, S)
    BY <2>1
  <2> QED BY <2>2, <2>3, EraseAllLeaves
<1>4. 1 \in DOMAIN cs /\ cs[1] \in ToSet(cs)
  BY <1>3 DEF ToSet
<1>5. ToSet(cs) = {n} /\ cs[1] = n
  BY <1>3, <1>4
<1>6. Len(cs) = 1
  <2>1. Cardinality(ToSet(cs)) = Len(cs)
    BY <1>3, LengthOfInjective
  <2>2. Cardinality({n}) = 1
    BY FS_Singleton
  <2> QED BY <1>5, <2>1, <2>2
<1>7. PICK row : row = SetToSeq({n})
  OBVIOUS
<1>8. row \in Seq(Item) /\ Len(row) = 1 /\ row[1] = n
  BY <1>7, OneListed
<1>9. \A i \in 1 .. 1 : i = 1 /\ (1 + 1) - i = 1
  OBVIOUS
<1>10. Fits(row, cs, place)
  <2>1. ASSUME NEW i \in 1 .. Len(cs)
        PROVE  row[i] = IF place = "before" THEN cs[i] ELSE cs[(Len(cs) + 1) - i]
    BY <1>5, <1>6, <1>8, <1>9
  <2> QED BY <1>6, <1>8, <2>1 DEF Fits
<1> QED BY <1>5, <1>7, <1>10

\* The row of what is dropped.
LEMMA DroppedFits ==
  ASSUME Steady, NEW n \in Shown, NEW target, NEW place \in {"before", "after"},
         NEW cs, cs = MovedBy(n, target, place), Len(cs) # 0
  PROVE  Fits(RowOf(ToSet(cs), m.selection), cs, place)
<1>1. PICK sel, S : sel = m.selection /\ S = {x \in Item : ~MayMove(x, target, n \in Selected)}
  OBVIOUS
<1>2. sel \in Seq(Item) /\ Selected = ToSet(sel)
  BY <1>1 DEF Steady, Selections, Selected
<1>3. n \in Item
  <2>1. m.tree \in Hierarchies /\ RootItem \in Item
    BY OperationStackAssumption DEF Steady, Rooted, Tree
  <2> QED BY <2>1, SubtreeLeast DEF Shown
<1>4. PICK s : s = Dragged(n)
  OBVIOUS
<1>5. cs = EraseAll(IF place = "after" THEN Reverse(s) ELSE s, S)
  BY <1>1, <1>4 DEF MovedBy, Movable
<1>6. CASE n \in Selected
  <2>1. s = sel
    BY <1>1, <1>4, <1>6 DEF Dragged
  <2>2. ToSet(cs) \subseteq ToSet(sel) /\ Fits(EraseAll(sel, Item \ ToSet(cs)), cs, place)
    BY <1>2, <1>5, <2>1, SelectionFits
  <2> QED BY <1>1, <2>2 DEF RowOf
<1>7. CASE n \notin Selected
  <2>1. s = <<n>>
    BY <1>4, <1>7 DEF Dragged
  <2>2. ToSet(cs) = {n} /\ Fits(SetToSeq({n}), cs, place)
    BY <1>3, <1>5, <2>1, AloneFits
  <2> QED BY <1>1, <1>2, <1>7, <2>2 DEF RowOf
<1> QED BY <1>6, <1>7

\* A list with one element more in front.
LEMMA BehindFirst ==
  ASSUME NEW n \in Nat
  PROVE  \A i \in 1 .. n + 1 :
           i # 1 => i - 1 \in 1 .. n /\ (n + 1) - (i - 1) = (n + 2) - i
  OBVIOUS

LEMMA RunBehind ==
  ASSUME NEW row \in Seq(Item), NEW n, n = Len(row), NEW a \in Item,
         NEW run, run = <<a>> \o row
  PROVE  /\ run \in Seq(Item) /\ Len(run) = n + 1
         /\ \A i \in 1 .. n + 1 : run[i] = IF i = 1 THEN a ELSE row[i - 1]
<1>1. PICK one : one = <<a>>
  OBVIOUS
<1>2. one \in Seq(Item) /\ Len(one) = 1 /\ one[1] = a
  BY <1>1
<1>3. /\ run \in Seq(Item) /\ Len(run) = Len(one) + Len(row)
      /\ \A i \in 1 .. Len(one) : run[i] = one[i]
      /\ \A i \in 1 .. Len(row) : run[Len(one) + i] = row[i]
  BY <1>1, <1>2, JoinedLists
<1>4. n \in Nat /\ Len(run) = n + 1
  BY <1>2, <1>3
<1>5. ASSUME NEW i \in 1 .. n + 1 PROVE run[i] = IF i = 1 THEN a ELSE row[i - 1]
  <2>1. CASE i = 1
    BY <1>2, <1>3, <2>1
  <2>2. CASE i # 1
    <3>1. i - 1 \in 1 .. n /\ 1 + (i - 1) = i
      BY <1>4, <2>2
    <3> QED BY <1>2, <1>3, <2>2, <3>1
  <2> QED BY <2>1, <2>2
<1> QED BY <1>3, <1>4, <1>5

\* The run of what is dropped and of the anchor.
Reads(run, W, n) ==
  n \in Nat /\ n >= 1 /\ run \in Seq(Item) /\ Len(run) = n /\ \A i \in 1 .. n : run[i] = W[i]

LEMMA RunIs ==
  ASSUME NEW row, NEW cs \in Seq(Item), NEW place \in {"before", "after"}, NEW anchor \in Item,
         Fits(row, cs, place), NEW n, n = Len(cs), NEW run, run = RunOf(row, place, anchor)
  PROVE  Reads(run, RowAt(place, cs, anchor, n), n + 1)
<1>0. SUFFICES /\ run \in Seq(Item) /\ Len(run) = n + 1 /\ n \in Nat
               /\ \A i \in 1 .. n + 1 : run[i] = RowAt(place, cs, anchor, n)[i]
  BY DEF Reads
<1>1. /\ row \in Seq(Item) /\ Len(row) = n /\ n \in Nat
      /\ \A i \in 1 .. n : row[i] = IF place = "before" THEN cs[i] ELSE cs[(n + 1) - i]
  BY DEF Fits
<1>2. CASE place = "before"
  <2>1. run = Append(row, anchor)
    BY <1>2 DEF RunOf
  <2>2. run \in Seq(Item) /\ Len(run) = n + 1
    BY <1>1, <2>1
  <2>3. ASSUME NEW i \in 1 .. n + 1 PROVE run[i] = IF i <= n THEN cs[i] ELSE anchor
    BY <1>1, <1>2, <2>1
  <2>4. \A i \in 1 .. n + 1 :
          RowAt(place, cs, anchor, n)[i] = IF i <= n THEN cs[i] ELSE anchor
    BY <1>1, <1>2 DEF RowAt
  <2> QED BY <1>1, <2>2, <2>3, <2>4
<1>3. CASE place = "after"
  <2>1. run = <<anchor>> \o row
    BY <1>3 DEF RunOf
  <2>2. /\ run \in Seq(Item) /\ Len(run) = n + 1
        /\ \A i \in 1 .. n + 1 : run[i] = IF i = 1 THEN anchor ELSE row[i - 1]
    BY <1>1, <2>1, RunBehind
  <2>3. \A i \in 1 .. n + 1 :
          i # 1 => i - 1 \in 1 .. n /\ (n + 1) - (i - 1) = (n + 2) - i
    <3>1. n \in Nat
      BY <1>1
    <3> QED BY <3>1, BehindFirst
  <2>5. ASSUME NEW i \in 1 .. n + 1
        PROVE  run[i] = IF i = 1 THEN anchor ELSE cs[(n + 2) - i]
    <3>1. CASE i = 1
      BY <2>2, <3>1
    <3>2. CASE i # 1
      <4>1. i - 1 \in 1 .. n /\ (n + 1) - (i - 1) = (n + 2) - i
        BY <2>3, <3>2
      <4>2. PICK j \in 1 .. n : j = i - 1 /\ (n + 1) - j = (n + 2) - i
        BY <4>1
      <4>3. run[i] = row[j]
        BY <2>2, <3>2, <4>2
      <4>4. row[j] = cs[(n + 1) - j]
        BY <1>1, <1>3
      <4> QED BY <3>2, <4>2, <4>3, <4>4
    <3> QED BY <3>1, <3>2
  <2>6. \A i \in 1 .. n + 1 :
          RowAt(place, cs, anchor, n)[i] = IF i = 1 THEN anchor ELSE cs[(n + 2) - i]
    BY <1>1, <1>3 DEF RowAt
  <2> QED BY <1>1, <2>2, <2>5, <2>6
<1> QED BY <1>2, <1>3

\* The run is somewhere in the list.
TogetherIn(list, run) ==
  \E k \in 1 .. (Len(list) + 1 - Len(run)) : SubSeq(list, k, k + Len(run) - 1) = run

LEMMA RowIsTogether ==
  ASSUME NEW list \in Seq(Item), NEW run, NEW n, NEW W, HasRow(list, n, W), Reads(run, W, n)
  PROVE  TogetherIn(list, run)
<1>0. /\ run \in Seq(Item) /\ n \in Nat /\ Len(run) = n /\ n >= 1
      /\ \A i \in 1 .. n : run[i] = W[i]
  BY DEF Reads
<1>1. PICK d \in Nat : d + n <= Len(list) /\ \A i \in 1 .. n : list[d + i] = W[i]
  BY DEF HasRow, RowFrom
<1>2. PICK k \in Nat, e \in Nat : k = d + 1 /\ e = d + n
  BY <1>0
<1>3. /\ k \in 1 .. (Len(list) + 1 - n) /\ e = k + n - 1 /\ k <= e /\ (e - k) + 1 = n
      /\ k \in Int /\ e \in Int
  BY <1>0, <1>1, <1>2
<1>4. \A i \in k .. e : list[i] \in Item
  BY <1>0, <1>1, <1>2
<1>5. PICK t : t = SubSeq(list, k, e)
  OBVIOUS
<1>6. t \in Seq(Item) /\ Len(t) = n /\ \A i \in 1 .. n : t[i] = list[k + i - 1]
  BY <1>3, <1>4, <1>5, SubSeqProperties
<1>7. ASSUME NEW i \in 1 .. n PROVE t[i] = run[i]
  <2>1. k + i - 1 = d + i
    BY <1>2
  <2> QED BY <1>0, <1>1, <1>6, <2>1
<1>8. t = run
  BY <1>0, <1>6, <1>7
<1> QED BY <1>0, <1>3, <1>5, <1>8 DEF TogetherIn

\* What comes of a drop before or after an anchor.
AsDropped(ops, place, anchor) ==
  ops # <<>> /\ \A i \in 1 .. Len(ops) : ops[i].place = place /\ ops[i].anchor = anchor

DropsTogether(ops, sel, g) ==
  \A anchor \in Item, place \in {"before", "after"} :
    AsDropped(ops, place, anchor)
    => TogetherIn(g.children[g.parent[anchor]],
                  RunOf(RowOf(ItemsOf(ops), sel), place, anchor))

LEMMA DropIsTogether ==
  ASSUME Steady, NEW n \in Shown, NEW target \in Shown, NEW place \in Placements,
         NEW ops, ops = Dropped(n, target, place), ops # <<>>,
         NEW x \in Machines, IsRunning(x), x.tree = m.tree
  PROVE  DropsTogether(ops, m.selection, Execute(ops, x).m.tree)
<1>1. PICK cs, h, p, at, g :
        /\ cs = MovedBy(n, target, place) /\ h = m.tree /\ p = PutUnder(target, place)
        /\ at = AnchorOf(target, place) /\ g = Execute(ops, x).m.tree
  OBVIOUS
<1>2. Going(ops, h, p, cs, place, at) /\ \A k \in 1 .. Len(ops) : ops[k].item = cs[k]
  BY <1>1, DropGoes
<1>3. PICK N \in Nat : N = Len(cs) /\ N = Len(ops) /\ DOMAIN ops = 1 .. N /\ DOMAIN cs = 1 .. N
  BY <1>2 DEF Going, MayGo, Compounds
<1>4. N # 0
  BY <1>2, <1>3 DEF Going, Compounds
<1>5. cs \in Seq(Item) /\ p \in Item /\ ItemsOf(ops) = ToSet(cs)
  <2>1. ItemsOf(ops) = ToSet(cs)
    BY <1>2, <1>3 DEF ItemsOf, ToSet
  <2> QED BY <1>2, <2>1 DEF Going, MayGo
<1>6. g \in MovedRows(h, p, cs, place, at, N)
  BY <1>1, <1>2, <1>3, GoingRuns
<1>7. SUFFICES ASSUME NEW anchor \in Item, NEW where \in {"before", "after"},
                      AsDropped(ops, where, anchor)
               PROVE  TogetherIn(g.children[g.parent[anchor]],
                                 RunOf(RowOf(ItemsOf(ops), m.selection), where, anchor))
  BY <1>1 DEF DropsTogether
<1>8. place = where /\ at = anchor
  <2>1. ops[1].place = where /\ ops[1].anchor = anchor
    BY <1>3, <1>4, <1>7 DEF AsDropped
  <2>2. ops[1].place = place /\ Goes(ops[1], h, p, cs[1], at)
    BY <1>2, <1>3, <1>4 DEF Going
  <2>3. place # "end"
    BY <2>1, <2>2
  <2>4. ops[1].anchor = at
    BY <2>2, <2>3 DEF Goes
  <2> QED BY <2>1, <2>2, <2>4
<1>9. place # "end" /\ at \in Item /\ h.parent[at] = p /\ Elsewhere(at, cs)
  BY <1>2, <1>8 DEF Going
<1>10. /\ g \in Hierarchies /\ g.parent = MovedParents(h, p, cs, N)
       /\ HasRow(g.children[p], N + 1, RowAt(place, cs, at, N))
  BY <1>6, <1>9 DEF MovedRows, MovedTrees, Trees
<1>11. g.parent[at] = p
  BY <1>9, <1>10 DEF MovedParents, Elsewhere
<1>12. PICK row : row = RowOf(ToSet(cs), m.selection)
  OBVIOUS
<1>13. Fits(row, cs, place)
  BY <1>1, <1>3, <1>4, <1>8, <1>12, DroppedFits
<1>14. PICK run : run = RunOf(row, place, at)
  OBVIOUS
<1>15. Reads(run, RowAt(place, cs, at, N), N + 1)
  BY <1>3, <1>5, <1>8, <1>9, <1>13, <1>14, RunIs
<1>16. g.children[p] \in Seq(Item)
  BY <1>5, <1>10 DEF Hierarchies
<1>17. TogetherIn(g.children[p], run)
  BY <1>10, <1>15, <1>16, RowIsTogether
<1> QED BY <1>5, <1>8, <1>11, <1>12, <1>14, <1>17
-----------------------------------------------------------------------------
(***************************************************************************)
(* What the callers promise of the operations that they queue, if they are *)
(* executed in the tree h they were made for, with sel selected: they run  *)
(* to their end, but for those of the Attach button, and lead from         *)
(* selections to selections; deletions delete what is selected, and drops  *)
(* leave together what was dropped.                                        *)
(***************************************************************************)
Keeps(ops, h, sel, g) ==
  Turns(ops, h, g) /\ DeletesExactly(ops, h, sel, g) /\ DropsTogether(ops, sel, g)

Promised(ops, h, sel) ==
  \A x \in Machines : IsRunning(x) /\ x.tree = h =>
    LET r == Execute(ops, x).m
    IN  \/ IsRunning(r) /\ Keeps(ops, h, sel, r.tree)
        \/ r.status = "no_return" /\ "attach_button" \in Inputs

\* What does not go before or after an anchor, and what does not delete.
LEMMA NotDropped ==
  ASSUME NEW ops \in Compounds, NEW sel, NEW g, \A k \in 1 .. Len(ops) : ops[k].place = "end"
  PROVE  DropsTogether(ops, sel, g)
<1>1. Len(ops) \in Nat /\ (ops # <<>> => Len(ops) # 0)
  BY DEF Compounds
<1>2. ASSUME NEW anchor \in Item, NEW place \in {"before", "after"}, AsDropped(ops, place, anchor)
      PROVE  FALSE
  <2>1. 1 \in 1 .. Len(ops)
    BY <1>1, <1>2 DEF AsDropped
  <2>2. ops[1].place = place /\ ops[1].place = "end"
    BY <1>2, <2>1 DEF AsDropped
  <2> QED BY <2>2
<1> QED BY <1>2 DEF DropsTogether

LEMMA NotDeleted ==
  ASSUME NEW ops \in Compounds, NEW h, NEW sel, NEW g,
         \A k \in 1 .. Len(ops) : ops[k].kind # "remove"
  PROVE  DeletesExactly(ops, h, sel, g)
<1>1. Len(ops) \in Nat /\ (ops # <<>> => Len(ops) # 0)
  BY DEF Compounds
<1>2. ASSUME ops # <<>>, \A k \in 1 .. Len(ops) : ops[k].kind = "remove" PROVE FALSE
  <2>1. 1 \in 1 .. Len(ops)
    BY <1>1, <1>2
  <2> QED BY <1>2, <2>1
<1> QED BY <1>2 DEF DeletesExactly

LEMMA DropPromised ==
  ASSUME Steady, NEW n \in Shown, NEW target \in Shown, NEW place \in Placements,
         NEW ops, ops = Dropped(n, target, place), ops # <<>>
  PROVE  ops \in Compounds /\ Promised(ops, m.tree, m.selection)
<1>1. PICK cs, h, p, at, sel :
        /\ cs = MovedBy(n, target, place) /\ h = m.tree /\ p = PutUnder(target, place)
        /\ at = AnchorOf(target, place) /\ sel = m.selection
  OBVIOUS
<1>2. /\ Going(ops, h, p, cs, place, at)
      /\ \A k \in 1 .. Len(ops) : /\ ops[k].selBefore = <<>> /\ ops[k].selAfter = <<>>
                                  /\ ops[k].kind \in {"parent_change", "reposition"}
                                  /\ ops[k].item = cs[k]
  BY <1>1, DropGoes
<1>3. ops \in Compounds /\ \A k \in 1 .. Len(ops) : ops[k].kind # "remove"
  BY <1>2 DEF Going
<1>4. ASSUME NEW x \in Machines, IsRunning(x), x.tree = h
      PROVE  LET r == Execute(ops, x).m IN IsRunning(r) /\ Keeps(ops, h, sel, r.tree)
  <2>1. PICK r : r = Execute(ops, x).m
    OBVIOUS
  <2>2. \A k \in 1 .. Len(ops) : ops[k].selBefore = <<>> /\ ops[k].selAfter = <<>>
    BY <1>2
  <2>3. IsRunning(r) /\ Turns(ops, h, r.tree)
    BY <1>2, <1>4, <2>1, <2>2, GoingTurns
  <2>4. DropsTogether(ops, sel, r.tree)
    BY <1>1, <1>4, <2>1, DropIsTogether
  <2>5. DeletesExactly(ops, h, sel, r.tree)
    BY <1>3, NotDeleted
  <2> QED BY <2>1, <2>3, <2>4, <2>5 DEF Keeps
<1> QED BY <1>1, <1>3, <1>4 DEF Promised

LEMMA AttachPromised ==
  ASSUME Steady, Len(m.selection) >= 2, "attach_button" \in Inputs, NEW ops, ops = Attached
  PROVE  ops \in Compounds /\ Promised(ops, m.tree, m.selection)
<1>1. PICK h, c, p, sel : h = m.tree /\ c = sel[1] /\ p = sel[2] /\ sel = m.selection
  OBVIOUS
<1>2. c \in Item /\ p \in Item /\ h \in Hierarchies
  BY <1>1 DEF Steady, Selections, Rooted, Tree
<1>3. PICK op : op = ParentChange(h, p, c, "end", None)
  OBVIOUS
<1>4. op \in Ops /\ op.kind = "parent_change" /\ op.place = "end"
  BY <1>2, <1>3, MovesMade DEF Placements
<1>5. ops = <<op>>
  BY <1>1, <1>3 DEF Attached
<1>6. ops \in Compounds /\ \A k \in 1 .. Len(ops) : ops[k].kind # "remove" /\ ops[k].place = "end"
  BY <1>4, <1>5 DEF Compounds
<1>7. ASSUME NEW x \in Machines, IsRunning(x), x.tree = h, NEW r, r = Execute(ops, x).m
      PROVE  r.status = "no_return" \/ (IsRunning(r) /\ Keeps(ops, h, sel, r.tree))
  <2>1. r.status = "no_return" \/ (IsRunning(r) /\ Turns(ops, h, r.tree))
    BY <1>1, <1>7, AttachTurns
  <2>2. DropsTogether(ops, sel, r.tree) /\ DeletesExactly(ops, h, sel, r.tree)
    BY <1>6, NotDeleted, NotDropped
  <2> QED BY <2>1, <2>2 DEF Keeps
<1> QED BY <1>1, <1>6, <1>7 DEF Promised

LEMMA DeletePromised ==
  ASSUME Steady, m.selection # <<>>, NEW q \in DeleteOrders,
         NEW ops, ops = [i \in DOMAIN q |-> RemoveItemOp(m, q[i])]
  PROVE  Promised(ops, m.tree, m.selection)
<1>1. PICK h, sel : h = m.tree /\ sel = m.selection
  OBVIOUS
<1>2. ASSUME NEW x \in Machines, IsRunning(x), x.tree = h, NEW r, r = Execute(ops, x).m
      PROVE  IsRunning(r) /\ Keeps(ops, h, sel, r.tree)
  <2>1. /\ IsRunning(r) /\ Turns(ops, h, r.tree) /\ DeletesExactly(ops, h, sel, r.tree)
        /\ ops \in Compounds
    BY <1>1, <1>2, DeletionTurns
  <2>2. DOMAIN q = 1 .. Len(ops)
    BY <2>1 DEF Compounds
  <2>3. \A k \in 1 .. Len(ops) : ops[k].place = "end"
    BY <2>2 DEF RemoveItemOp, Operation
  <2>4. DropsTogether(ops, sel, r.tree)
    BY <2>1, <2>3, NotDropped
  <2> QED BY <2>1, <2>4 DEF Keeps
<1> QED BY <1>1, <1>2 DEF Promised

LEMMA InsertPromised ==
  ASSUME NEW ops, NEW h, NEW sel, NEW cs, Insertions(ops, h, sel, cs),
         \A k \in 1 .. Len(ops) : ops[k].place = "end"
  PROVE  Promised(ops, h, sel)
<1>1. ops \in Compounds /\ \A k \in 1 .. Len(ops) : ops[k].kind # "remove"
  BY DEF Insertions
<1>2. ASSUME NEW x \in Machines, IsRunning(x), x.tree = h, NEW r, r = Execute(ops, x).m
      PROVE  IsRunning(r) /\ Keeps(ops, h, sel, r.tree)
  <2>1. IsRunning(r) /\ Turns(ops, h, r.tree)
    BY <1>2, InsertionsTurn
  <2>2. DropsTogether(ops, sel, r.tree) /\ DeletesExactly(ops, h, sel, r.tree)
    BY <1>1, NotDeleted, NotDropped
  <2> QED BY <2>1, <2>2 DEF Keeps
<1> QED BY <1>2 DEF Promised
-----------------------------------------------------------------------------
(***************************************************************************)
(* The invariant of the editor whose user gives one input a tick.  The     *)
(* operation that waits was made for the tree and the selection that it    *)
(* will find; each operation of the line turns selections of the tree      *)
(* before it into selections of the tree after it, and back.               *)
(***************************************************************************)
TurnPasts   == {w \in Compounds \X Trees \X Trees : Turns(w[1], w[2], w[3])}
TurnFutures == {w \in Compounds \X Trees \X Trees : Turns(w[1], w[3], w[2])}

\* The only way in which the program can stop.
StopsOnly(status) ==
  /\ status \notin {"verify_failed", "null_parent"}
  /\ status = "no_return" => "attach_button" \in Inputs

Calm ==
  /\ StopsOnly(m.status)
  /\ Len(queued) <= 1 /\ (queued = <<>> <=> given = 0)
  /\ Running =>
       /\ Rooted(m.tree) /\ m.selection \in Selections(m.tree)
       /\ Line(TurnPasts, executed, before, m.tree)
       /\ Line(TurnFutures, undone, after, m.tree)
       /\ queued # <<>> => Promised(queued[1], m.tree, m.selection)

\* An input of a tick is the first.
LEMMA FirstInput ==
  ASSUME IInv, Calm, MaxPerTick = 1, Running, given < MaxPerTick
  PROVE  queued = <<>> /\ given = 0 /\ Steady
<1>1. given \in 0 .. 1 /\ given < 1 /\ m \in Machines
  BY DEF IInv, Typed
<1>2. given = 0
  BY <1>1
<1> QED BY <1>1, <1>2 DEF Calm, Steady

\* It selects, ...
LEMMA SelectingIsCalm ==
  ASSUME IInv, Calm, MaxPerTick = 1, Running, given < MaxPerTick, Idle,
         m'.tree = m.tree, m'.status = m.status, m'.selection \in Selections(m.tree)
  PROVE  Calm'
<1>1. queued = <<>> /\ given = 0
  BY FirstInput
<1>2. PICK none : none = <<>> /\ Len(none) = 0
  OBVIOUS
<1>3. /\ queued' = queued /\ executed' = executed /\ undone' = undone /\ given' = given
      /\ before' = before /\ after' = after
  BY DEF Idle, history
<1>4. StopsOnly(m.status)'
  BY DEF Calm, StopsOnly
<1>5. Rooted(m.tree)' /\ (m.selection \in Selections(m.tree))'
  BY DEF Calm, Rooted, Selections, ShownIn
<1>6. /\ Line(TurnPasts, executed, before, m.tree)
      /\ Line(TurnFutures, undone, after, m.tree)
  BY DEF Calm
<1>7. /\ Line(TurnPasts, executed, before, m.tree)'
      /\ Line(TurnFutures, undone, after, m.tree)'
  BY <1>3, <1>6 DEF Line, TurnPasts, TurnFutures, Compounds, Turns, Selections, ShownIn, Rooted
<1> QED BY <1>1, <1>2, <1>3, <1>4, <1>5, <1>7 DEF Calm

\* ... or queues an operation, ...
LEMMA QueueingIsCalm ==
  ASSUME IInv, Calm, MaxPerTick = 1, Running, given < MaxPerTick,
         NEW ops, Queue(ops), Promised(ops, m.tree, m.selection),
         m'.tree = m.tree, m'.status = m.status, m'.selection = m.selection
  PROVE  Calm'
<1>1. queued = <<>> /\ given = 0
  BY FirstInput
<1>2. PICK q : q = Append(queued, ops)
  OBVIOUS
<1>3. q[1] = ops /\ Len(q) = 1 /\ q # <<>>
  BY <1>1, <1>2
<1>4. /\ queued' = q /\ executed' = executed /\ undone' = undone /\ given' = 1
      /\ before' = before /\ after' = after
  BY <1>1, <1>2 DEF Queue, history
<1>5. StopsOnly(m.status)'
  BY DEF Calm, StopsOnly
<1>6. Rooted(m.tree) /\ m.selection \in Selections(m.tree)
  BY DEF Calm
<1>7. Rooted(m.tree)' /\ (m.selection \in Selections(m.tree))'
  BY <1>6
<1>8. /\ Line(TurnPasts, executed, before, m.tree)
      /\ Line(TurnFutures, undone, after, m.tree)
  BY DEF Calm
<1>9. /\ Line(TurnPasts, executed, before, m.tree)'
      /\ Line(TurnFutures, undone, after, m.tree)'
  BY <1>4, <1>8
<1>10. Promised(queued[1], m.tree, m.selection)'
  <2>1. queued'[1] = ops
    BY <1>3, <1>4
  <2>2. Promised(queued'[1], m'.tree, m'.selection)
    BY <2>1
  <2> QED BY <2>2
<1>11. Len(queued') <= 1 /\ (queued' = <<>> <=> given' = 0)
  <2>1. Len(queued') = 1 /\ given' = 1
    BY <1>3, <1>4
  <2>2. queued' # <<>>
    BY <1>3, <1>4
  <2>3. Len(queued') <= 1 /\ given' # 0
    BY <2>1
  <2> QED BY <2>2, <2>3
<1> QED BY <1>5, <1>7, <1>9, <1>10, <1>11 DEF Calm

\* ... or stops the program.
LEMMA StoppingIsCalm ==
  ASSUME Calm, Idle, StopsOnly(m'.status), m'.status # "running"
  PROVE  Calm'
<1>1. queued' = queued /\ given' = given
  BY DEF Idle
<1>2. ~Running'
  BY DEF Running
<1> QED BY <1>1, <1>2 DEF Calm, StopsOnly
-----------------------------------------------------------------------------
(***************************************************************************)
(* The inputs.                                                             *)
(***************************************************************************)

\* What is shown is an item, and can be added to a selection and taken out.
LEMMA ChosenIs ==
  ASSUME Steady, NEW n \in Shown, NEW s, s = m.selection
  PROVE  /\ n \in Item /\ <<>> \in Selections(m.tree) /\ <<n>> \in Selections(m.tree)
         /\ EraseAll(s, {n}) \in Selections(m.tree)
         /\ n \notin ToSet(s) => Append(s, n) \in Selections(m.tree)
<1>1. n \in Item /\ n \in ShownIn(m.tree) /\ s \in Selections(m.tree)
  <2>1. m.tree \in Hierarchies /\ RootItem \in Item
    BY OperationStackAssumption DEF Steady, Rooted, Tree
  <2>2. Subtree(m.tree, RootItem) \subseteq Item
    BY <2>1, SubtreeLeast
  <2> QED BY <2>2 DEF Shown, ShownIn, Steady
<1>2. s \in Seq(Item) /\ ToSet(s) \subseteq ShownIn(m.tree) /\ IsInjective(s)
  BY <1>1 DEF Selections
<1>3. PICK one : one = <<n>>
  OBVIOUS
<1>4. one \in Seq(Item) /\ ToSet(one) = {n} /\ IsInjective(one)
  BY <1>1, <1>3 DEF ToSet, IsInjective
<1>5. one \in Selections(m.tree)
  BY <1>1, <1>4 DEF Selections
<1>6. EraseAll(s, {n}) \in Selections(m.tree)
  <2>1. PICK t : t = EraseAll(s, {n})
    OBVIOUS
  <2>2. t \in Seq(Item) /\ ToSet(t) = ToSet(s) \ {n} /\ IsInjective(t)
    BY <1>2, <2>1, EraseAllLeaves
  <2>3. t \in Selections(m.tree)
    BY <1>2, <2>2 DEF Selections
  <2> QED BY <2>1, <2>3
<1>7. n \notin ToSet(s) => Append(s, n) \in Selections(m.tree)
  <2>1. PICK t : t = Append(s, n)
    OBVIOUS
  <2>2. /\ t \in Seq(Item) /\ ToSet(t) = ToSet(s) \cup {n}
        /\ n \notin ToSet(s) => IsInjective(t)
    BY <1>1, <1>2, <2>1, AppendLeaves
  <2>3. n \notin ToSet(s) => t \in Selections(m.tree)
    BY <1>1, <1>2, <2>2 DEF Selections
  <2> QED BY <2>1, <2>3
<1> QED BY <1>1, <1>3, <1>5, <1>6, <1>7, NothingSelected

LEMMA ClickIsCalm ==
  ASSUME IInv, Calm, MaxPerTick = 1, NEW n \in Shown, Click(n) \/ ControlClick(n)
  PROVE  Calm'
<1>1. Running /\ given < MaxPerTick /\ Idle
  BY DEF Click, ControlClick, Mouse, Input
<1>2. Steady
  BY <1>1, FirstInput
<1>3. PICK s : s = m.selection
  OBVIOUS
<1>4. /\ <<>> \in Selections(m.tree) /\ <<n>> \in Selections(m.tree)
      /\ EraseAll(s, {n}) \in Selections(m.tree) /\ s \in Selections(m.tree)
      /\ n \notin ToSet(s) => Append(s, n) \in Selections(m.tree)
  BY <1>2, <1>3, ChosenIs DEF Steady
<1>5. m'.tree = m.tree /\ m'.status = m.status /\ m'.selection \in Selections(m.tree)
  <2>1. CASE Click(n)
    <3>1. PICK t, f : /\ t = IF n \in m.flagged THEN <<>> ELSE <<n>>
                      /\ m' = [m EXCEPT !.selection = t, !.flagged = f]
      BY <2>1 DEF Click
    <3>2. t \in Selections(m.tree)
      BY <1>4, <3>1
    <3> QED BY <1>2, <3>1, <3>2 DEF Steady, Machines
  <2>2. CASE ControlClick(n)
    <3>1. CASE n \in m.flagged
      <4>1. PICK f : m' = [m EXCEPT !.selection = EraseAll(s, {n}), !.flagged = f]
        BY <1>3, <2>2, <3>1 DEF ControlClick
      <4> QED BY <1>2, <1>4, <4>1 DEF Steady, Machines
    <3>2. CASE n \notin m.flagged
      <4>1. PICK t, f : /\ t = IF n \in ToSet(s) THEN s ELSE Append(s, n)
                        /\ m' = [m EXCEPT !.selection = t, !.flagged = f]
        BY <1>3, <2>2, <3>2 DEF ControlClick, Selected
      <4>2. t \in Selections(m.tree)
        BY <1>4, <4>1
      <4> QED BY <1>2, <4>1, <4>2 DEF Steady, Machines
    <3> QED BY <3>1, <3>2
  <2> QED BY <2>1, <2>2
<1> QED BY <1>1, <1>5, SelectingIsCalm

LEMMA DropIsCalm ==
  ASSUME IInv, Calm, MaxPerTick = 1, NEW n \in Shown, NEW target \in Shown,
         NEW place \in Placements, Drop(n, target, place)
  PROVE  Calm'
<1>1. PICK ops : ops = Dropped(n, target, place)
  OBVIOUS
<1>2. Running /\ given < MaxPerTick /\ ops # <<>> /\ Queue(ops) /\ m' = m
  BY <1>1 DEF Drop, Dropped, Mouse, Input
<1>3. Steady
  BY <1>2, FirstInput
<1>4. Promised(ops, m.tree, m.selection)
  BY <1>1, <1>2, <1>3, DropPromised
<1> QED BY <1>2, <1>4, QueueingIsCalm

LEMMA AttachButtonIsCalm ==
  ASSUME IInv, Calm, MaxPerTick = 1, AttachButton
  PROVE  Calm'
<1>1. PICK ops : ops = Attached
  OBVIOUS
<1>2. /\ Running /\ given < MaxPerTick /\ Len(m.selection) >= 2 /\ Queue(ops) /\ m' = m
      /\ "attach_button" \in Inputs
  BY <1>1 DEF AttachButton, Attached, Mouse, Input
<1>3. Steady
  BY <1>2, FirstInput
<1>4. Promised(ops, m.tree, m.selection)
  BY <1>1, <1>2, <1>3, AttachPromised
<1> QED BY <1>2, <1>4, QueueingIsCalm

LEMMA DeleteIsCalm ==
  ASSUME IInv, Calm, MaxPerTick = 1, Delete \/ Cut
  PROVE  Calm'
<1>1. Running /\ given < MaxPerTick /\ DeleteSelection /\ m' = m
  BY DEF Delete, Cut, Input
<1>2. Steady
  BY <1>1, FirstInput
<1>3. PICK q \in DeleteOrders : Queue([i \in DOMAIN q |-> RemoveItemOp(m, q[i])])
  BY <1>1 DEF DeleteSelection
<1>4. PICK ops : ops = [i \in DOMAIN q |-> RemoveItemOp(m, q[i])]
  OBVIOUS
<1>5. Queue(ops) /\ m.selection # <<>>
  BY <1>1, <1>3, <1>4 DEF DeleteSelection
<1>6. Promised(ops, m.tree, m.selection)
  BY <1>2, <1>4, <1>5, DeletePromised
<1> QED BY <1>1, <1>5, <1>6, QueueingIsCalm

LEMMA CopyIsCalm ==
  ASSUME IInv, Calm, MaxPerTick = 1, Copy
  PROVE  Calm'
<1>1. Running /\ given < MaxPerTick /\ Idle /\ m' = m
  BY DEF Copy, Input
<1>2. m.selection \in Selections(m.tree)
  BY <1>1, FirstInput DEF Steady
<1> QED BY <1>1, <1>2, SelectingIsCalm

\* Clones are inserted: they are in no tree, and go below items of the scene.
LEMMA InsertClonesIsCalm ==
  ASSUME IInv, Calm, MaxPerTick = 1, Running, given < MaxPerTick,
         NEW items \in Seq(Item), NEW parents,
         \A i \in 1 .. Len(items) : parents[i] \in Subtree(m.tree, RootItem),
         InsertClones(items, parents)
  PROVE  Calm'
<1>1. Steady /\ m \in Machines
  BY FirstInput DEF Steady
<1>2. PICK h, sel : h = m.tree /\ sel = m.selection
  OBVIOUS
<1>3. /\ Rooted(h) /\ sel \in Selections(h) /\ sel \in Seq(Item) /\ h \in Hierarchies
      /\ Subtree(h, RootItem) \subseteq Item /\ "end" \in Placements
  <2>1. Rooted(h) /\ sel \in Selections(h) /\ h \in Hierarchies
    BY <1>1, <1>2 DEF Steady, Rooted, Tree
  <2>2. RootItem \in Item
    BY OperationStackAssumption
  <2> QED BY <2>1, <2>2, SubtreeLeast DEF Selections, Placements
<1>4. CASE \E i \in DOMAIN items : m.tree.children[items[i]] # <<>>
  <2>1. m' = Stopped(m, "bad_weak_ptr") /\ Idle
    BY <1>4 DEF InsertClones
  <2>2. m'.status = "bad_weak_ptr"
    BY <1>1, <2>1 DEF Stopped, Machines
  <2>3. StopsOnly(m'.status) /\ m'.status # "running"
    BY <2>2 DEF StopsOnly
  <2> QED BY <2>1, <2>3, StoppingIsCalm
<1>5. CASE ~(\E i \in DOMAIN items : m.tree.children[items[i]] # <<>>)
  <2>1. PICK S \in SUBSET (Clones \ made) :
          LET copy == CHOOSE q \in SetToSeqs(S) : TRUE
          IN  /\ Cardinality(S) = Len(items)
              /\ Queue([i \in DOMAIN items |-> InsertItem(m, copy[i], parents[i])])
              /\ m' = [m EXCEPT !.flagged = @ \cup
                         {copy[i] : i \in {j \in DOMAIN items : items[j] \in @}}]
              /\ made' = made \cup S
    BY <1>5 DEF InsertClones
  <2>2. PICK copy : copy = CHOOSE q \in SetToSeqs(S) : TRUE
    OBVIOUS
  <2>3. PICK n : n = Len(items)
    OBVIOUS
  <2>4. S \subseteq Item \ {RootItem} /\ IsFiniteSet(S) /\ Cardinality(S) = n
    <3>1. S \subseteq Item /\ S \subseteq Item \ {RootItem}
      BY OperationStackAssumption
    <3>2. Cardinality(S) = n
      BY <2>1, <2>3
    <3> QED BY <3>1, <3>2, OperationStackAssumption, FS_Subset
  <2>5. copy \in SetToSeqs(S)
    BY <2>2, <2>4, SetIsListed
  <2>6. copy \in Seq(S) /\ IsInjective(copy) /\ ToSet(copy) = S
    BY <2>4, <2>5, SetToSeqsLists
  <2>7. Len(copy) = n
    <3>1. Cardinality(ToSet(copy)) = Len(copy)
      BY <2>6, LengthOfInjective
    <3> QED BY <2>4, <2>6, <3>1
  <2>8. /\ n \in Nat /\ DOMAIN items = 1 .. n /\ DOMAIN copy = 1 .. n
        /\ \A i \in 1 .. n : copy[i] \in S
    BY <2>3, <2>6, <2>7
  <2>9. PICK ops : ops = [i \in 1 .. n |-> InsertItem(m, copy[i], parents[i])]
    OBVIOUS
  <2>10. Queue(ops)
    BY <2>1, <2>2, <2>8, <2>9
  <2>11. m'.tree = m.tree /\ m'.status = m.status /\ m'.selection = m.selection
    <3>1. PICK f : f = m.flagged \cup {copy[i] : i \in {j \in DOMAIN items : items[j] \in m.flagged}}
      OBVIOUS
    <3>2. m' = [m EXCEPT !.flagged = f]
      BY <2>1, <2>2, <3>1
    <3> QED BY <1>1, <3>2 DEF Machines
  <2>12. ASSUME NEW i \in 1 .. n
         PROVE  /\ ops[i] \in Ops /\ ops[i].kind = "insert" /\ ops[i].item = copy[i]
                /\ ops[i].selBefore = sel /\ ops[i].selAfter = sel
                /\ ops[i].after \in Subtree(h, RootItem) /\ ops[i].place = "end"
                /\ copy[i] # RootItem /\ h.parent[copy[i]] = None
    <3>1. PICK c, p, op : c = copy[i] /\ p = parents[i] /\ op = ops[i]
      OBVIOUS
    <3>2. c \in S /\ c \in Item /\ c # RootItem
      BY <2>4, <2>8, <3>1
    <3>3. p \in Subtree(h, RootItem) /\ p \in Item
      BY <1>2, <1>3, <2>3, <3>1
    <3>4. op = InsertItem(m, c, p)
      BY <2>9, <3>1
    <3>5. op \in Ops /\ op.kind = "insert" /\ op.item = c /\ op.selBefore = sel /\ op.selAfter = sel
      BY <1>1, <1>2, <1>3, <3>2, <3>3, <3>4, ConstructorsMake
    <3>6. op.after = p /\ op.place = "end"
      BY <3>4 DEF InsertItem, Operation
    <3>7. h.parent[c] = None
      BY <1>2, <3>2, OthersAre DEF Fresh
    <3> QED BY <3>1, <3>2, <3>3, <3>5, <3>6, <3>7
  <2>13. ops \in [1 .. n -> Ops]
    BY <2>9, <2>12
  <2>14. ops \in Seq(Ops) /\ Len(ops) = n
    BY <2>8, <2>13, FunctionIsList
  <2>15. copy \in Seq(Item)
    BY <2>4, <2>6
  <2>16. Insertions(ops, h, sel, copy)
    BY <1>3, <2>6, <2>7, <2>12, <2>14, <2>15 DEF Insertions, Compounds
  <2>17. Promised(ops, h, sel)
    BY <2>12, <2>14, <2>16, InsertPromised
  <2> QED BY <1>2, <2>10, <2>11, <2>17, QueueingIsCalm
<1> QED BY <1>4, <1>5

LEMMA DuplicateIsCalm ==
  ASSUME IInv, Calm, MaxPerTick = 1, Duplicate
  PROVE  Calm'
<1>1. PICK s : s = m.selection
  OBVIOUS
<1>2. PICK parents : parents = [i \in DOMAIN s |-> m.tree.parent[s[i]]]
  OBVIOUS
<1>3. InsertClones(s, parents) /\ given < MaxPerTick /\ Running
  BY <1>1, <1>2 DEF Duplicate, Input
<1>4. Rooted(m.tree) /\ s \in Selections(m.tree)
  BY <1>1, <1>3, FirstInput DEF Steady
<1>5. s \in Seq(Item) /\ DOMAIN s = 1 .. Len(s) /\ ToSet(s) \subseteq ShownIn(m.tree)
  BY <1>4 DEF Selections
<1>6. ASSUME NEW i \in 1 .. Len(s) PROVE parents[i] \in Subtree(m.tree, RootItem)
  <2>1. PICK c : c = s[i]
    OBVIOUS
  <2>2. c \in Subtree(m.tree, RootItem) /\ c # RootItem
    BY <1>5, <2>1 DEF ToSet, ShownIn
  <2>3. m.tree.parent[c] \in Subtree(m.tree, RootItem)
    BY <1>4, <2>2, BelowShown
  <2> QED BY <1>2, <1>5, <2>1, <2>3
<1> QED BY <1>3, <1>5, <1>6, InsertClonesIsCalm

LEMMA PasteIsCalm ==
  ASSUME IInv, Calm, MaxPerTick = 1, Paste
  PROVE  Calm'
<1>1. PICK s : s = m.selection
  OBVIOUS
<1>2. PICK items : items = IF s = <<>> THEN <<>> ELSE clipboard
  OBVIOUS
<1>3. PICK parents : parents = [i \in DOMAIN items |-> s[1]]
  OBVIOUS
<1>4. InsertClones(items, parents) /\ given < MaxPerTick /\ Running
  BY <1>1, <1>2, <1>3 DEF Paste, Input
<1>5. s \in Selections(m.tree) /\ clipboard \in Seq(Item)
  BY <1>1, <1>4, FirstInput DEF Steady, IInv, Typed
<1>6. s \in Seq(Item) /\ ToSet(s) \subseteq ShownIn(m.tree)
  BY <1>5 DEF Selections
<1>7. items \in Seq(Item) /\ \A i \in 1 .. Len(items) : parents[i] \in Subtree(m.tree, RootItem)
  <2>1. CASE s = <<>>
    <3>1. items = <<>>
      BY <1>2, <2>1
    <3>2. items \in Seq(Item) /\ 1 .. Len(items) = {}
      BY <3>1
    <3> QED BY <3>2
  <2>2. CASE s # <<>>
    <3>1. items \in Seq(Item) /\ DOMAIN items = 1 .. Len(items)
      BY <1>2, <1>5, <2>2
    <3>2. 1 \in DOMAIN s
      BY <1>6, <2>2
    <3>3. s[1] \in Subtree(m.tree, RootItem)
      BY <1>6, <3>2 DEF ToSet, ShownIn
    <3> QED BY <1>3, <3>1, <3>3
  <2> QED BY <2>1, <2>2
<1> QED BY <1>4, <1>7, InsertClonesIsCalm

-----------------------------------------------------------------------------
(***************************************************************************)
(* Undo, redo and Update.  What turns the machine into r.m, in a tick in   *)
(* which nothing is queued afterwards.                                     *)
(***************************************************************************)
LEMMA TurningIsCalm ==
  ASSUME queued' = <<>>, given' = 0, m' \in Machines, IsRunning(m'),
         Rooted(m'.tree), m'.selection \in Selections(m'.tree),
         Line(TurnPasts, executed', before', m'.tree),
         Line(TurnFutures, undone', after', m'.tree)
  PROVE  Calm'
<1>1. StopsOnly(m.status)'
  BY DEF IsRunning, StopsOnly
<1>2. Len(queued') <= 1 /\ (queued' = <<>> <=> given' = 0)
  <2>1. Len(queued') = 0
    OBVIOUS
  <2> QED BY <2>1
<1>3. /\ Rooted(m.tree)' /\ (m.selection \in Selections(m.tree))'
      /\ Line(TurnPasts, executed, before, m.tree)'
      /\ Line(TurnFutures, undone, after, m.tree)'
  OBVIOUS
<1>4. (queued # <<>> => Promised(queued[1], m.tree, m.selection))'
  OBVIOUS
<1> QED BY <1>1, <1>2, <1>3, <1>4 DEF Calm

LEMMA UndoIsCalm ==
  ASSUME IInv, Calm, MaxPerTick = 1, UndoKey
  PROVE  Calm'
<1>1. /\ m \in Machines /\ IsRunning(m) /\ m.tree \in Trees /\ executed # <<>>
      /\ queued = <<>> /\ given = 0
      /\ Rooted(m.tree) /\ m.selection \in Selections(m.tree)
  <2>1. Running /\ executed # <<>> /\ given < MaxPerTick
    BY DEF UndoKey, Input
  <2>2. queued = <<>> /\ given = 0 /\ Steady
    BY <2>1, FirstInput
  <2> QED BY <2>1, <2>2 DEF Steady, Running, IsRunning, Rooted, Trees, Tree
<1>2. PICK ops, h : ops = Last(executed) /\ h = Last(before)
  OBVIOUS
<1>3. Line(Pasts, executed, before, m.tree)
  BY DEF IInv
<1>4. /\ Line(TurnPasts, executed, before, m.tree)
      /\ Line(TurnFutures, undone, after, m.tree)
  BY <1>1 DEF Calm, Running, IsRunning
<1>5. <<ops, h, m.tree>> \in Pasts /\ ops \in Compounds /\ h \in Trees
  BY <1>1, <1>2, <1>3, LineShrinks
<1>6. Line(TurnPasts, Front(executed), Front(before), h) /\ <<ops, h, m.tree>> \in TurnPasts
  BY <1>1, <1>2, <1>4, LineShrinks
<1>7. Follows(ops, h, m.tree) /\ Turns(ops, h, m.tree)
  BY <1>5, <1>6 DEF Pasts, TurnPasts
<1>8. PICK r : r = Undo(ops, m)
  OBVIOUS
<1>9. r.ops = ops /\ r.m \in Machines /\ IsRunning(r.m) /\ r.m.tree = h
  BY <1>1, <1>7, <1>8 DEF Follows
<1>10. /\ m' = r.m /\ executed' = Front(executed) /\ undone' = Append(undone, ops)
       /\ before' = Front(before) /\ after' = Append(after, m.tree)
       /\ given' = 0 /\ queued' = queued
  <2>1. r.m.status = "running"
    BY <1>9 DEF IsRunning
  <2> QED BY <1>1, <1>2, <1>8, <1>9, <2>1 DEF UndoKey
<1>11. r.m.selection \in Selections(h)
  BY <1>1, <1>5, <1>7, <1>8, <1>9, UndoingTurns
<1>12. Line(TurnFutures, undone', after', h)
  <2>1. <<ops, m.tree, h>> \in TurnFutures
    BY <1>1, <1>5, <1>7 DEF TurnFutures
  <2> QED BY <1>1, <1>4, <1>5, <1>10, <2>1, LineGrows
<1>13. Rooted(h)
  BY <1>7 DEF Turns
<1> QED BY <1>1, <1>6, <1>9, <1>10, <1>11, <1>12, <1>13, TurningIsCalm

LEMMA RedoIsCalm ==
  ASSUME IInv, Calm, MaxPerTick = 1, RedoKey
  PROVE  Calm'
<1>1. /\ m \in Machines /\ IsRunning(m) /\ m.tree \in Trees /\ undone # <<>>
      /\ queued = <<>> /\ given = 0
      /\ Rooted(m.tree) /\ m.selection \in Selections(m.tree)
  <2>1. Running /\ undone # <<>> /\ given < MaxPerTick
    BY DEF RedoKey, Input
  <2>2. queued = <<>> /\ given = 0 /\ Steady
    BY <2>1, FirstInput
  <2> QED BY <2>1, <2>2 DEF Steady, Running, IsRunning, Rooted, Trees, Tree
<1>2. PICK ops, h : ops = Last(undone) /\ h = Last(after)
  OBVIOUS
<1>3. Line(Futures, undone, after, m.tree)
  BY DEF IInv
<1>4. /\ Line(TurnPasts, executed, before, m.tree)
      /\ Line(TurnFutures, undone, after, m.tree)
  BY <1>1 DEF Calm, Running, IsRunning
<1>5. <<ops, h, m.tree>> \in Futures /\ ops \in Compounds /\ h \in Trees
  BY <1>1, <1>2, <1>3, LineShrinks
<1>6. Line(TurnFutures, Front(undone), Front(after), h) /\ <<ops, h, m.tree>> \in TurnFutures
  BY <1>1, <1>2, <1>4, LineShrinks
<1>7. Follows(ops, m.tree, h) /\ Turns(ops, m.tree, h)
  BY <1>5, <1>6 DEF Futures, TurnFutures
<1>8. PICK r : r = Execute(ops, m)
  OBVIOUS
<1>9. r.ops = ops /\ r.m \in Machines /\ IsRunning(r.m) /\ r.m.tree = h
  BY <1>1, <1>7, <1>8 DEF Follows
<1>10. /\ m' = r.m /\ undone' = Front(undone) /\ executed' = Append(executed, ops)
       /\ after' = Front(after) /\ before' = Append(before, m.tree)
       /\ given' = 0 /\ queued' = queued
  <2>1. r.m.status = "running"
    BY <1>9 DEF IsRunning
  <2> QED BY <1>1, <1>2, <1>8, <1>9, <2>1 DEF RedoKey
<1>11. r.m.selection \in Selections(h)
  BY <1>1, <1>5, <1>7, <1>8, <1>9, ExecutingTurns
<1>12. Line(TurnPasts, executed', before', h)
  <2>1. <<ops, m.tree, h>> \in TurnPasts
    BY <1>1, <1>5, <1>7 DEF TurnPasts
  <2> QED BY <1>1, <1>4, <1>5, <1>10, <2>1, LineGrows
<1>13. Rooted(h)
  BY <1>7 DEF Turns
<1> QED BY <1>1, <1>6, <1>9, <1>10, <1>11, <1>12, <1>13, TurningIsCalm

\* What Update makes of the one operation that waits.
LEMMA ExecutedIsFirst ==
  ASSUME IInv, Len(queued) = 1, m.tree \in Trees, NEW e, e = Execute(queued[1], m),
         NEW r, r = Executed
  PROVE  /\ r.m = e.m /\ e.ops \in Compounds /\ e.m \in Machines
         /\ executed \o r.done = Append(executed, e.ops)
         /\ before \o r.trees = Append(before, m.tree)
<1>1. m \in Machines /\ queued \in Seq(Compounds)
  BY DEF IInv, Typed
<1>2. queued[1] \in Compounds /\ 1 \in 1 .. Len(queued)
  BY <1>1
<1>3. PICK none : none = <<>>
  OBVIOUS
<1>4. e.ops \in Compounds /\ e.m \in Machines
  BY <1>1, <1>2, ExecuteIs
<1>5. PICK run \in [0 .. Len(queued) -> Batch] : Batches(run) /\ r = run[Len(queued)]
  BY <1>1, ExecutedRuns
<1>6. run[0] = [m |-> m, done |-> none, trees |-> none]
  BY <1>3, <1>5 DEF Batches
<1>7. r = NextBatch(queued[1], run[0])
  <2>1. run[1] = NextBatch(queued[1], run[1 - 1])
    BY <1>2, <1>5 DEF Batches
  <2> QED BY <1>5, <2>1
<1>8. run[0].m = m /\ run[0].done = none /\ run[0].trees = none
  BY <1>6
<1>9. r.m = e.m /\ r.done = Append(none, e.ops) /\ r.trees = Append(none, m.tree)
  BY <1>7, <1>8 DEF NextBatch
<1>10. /\ executed \in Seq(Compounds) /\ before \in Seq(Trees)
       /\ none \in Seq(Compounds) /\ none \in Seq(Trees)
  BY <1>3 DEF IInv, Line
<1>11. executed \o r.done = Append(executed, e.ops)
  <2>1. executed \o none = executed
    BY <1>3, <1>10, JoinNothing
  <2>2. executed \o Append(none, e.ops) = Append(executed \o none, e.ops)
    BY <1>4, <1>10, JoinAppend
  <2> QED BY <1>9, <2>1, <2>2
<1>12. before \o r.trees = Append(before, m.tree)
  <2>1. before \o none = before
    BY <1>3, <1>10, JoinNothing
  <2>2. before \o Append(none, m.tree) = Append(before \o none, m.tree)
    BY <1>10, JoinAppend
  <2> QED BY <1>9, <2>1, <2>2
<1> QED BY <1>4, <1>9, <1>11, <1>12

\* What is executed turns as what was queued.
LEMMA AlikeTurns ==
  ASSUME NEW ops \in Compounds, NEW qs \in Compounds, Alike(ops, qs),
         NEW h, NEW g, Turns(ops, h, g)
  PROVE  Turns(qs, h, g)
<1>1. PICK n : n = Len(ops)
  OBVIOUS
<1>2. /\ n \in Nat /\ Len(qs) = n
      /\ \A k \in 1 .. n : /\ qs[k].kind = ops[k].kind
                           /\ qs[k].selBefore = ops[k].selBefore
                           /\ qs[k].selAfter = ops[k].selAfter
  BY <1>1 DEF Alike, SameFor, Compounds
<1>3. qs = <<>> => ops = <<>>
  <2>1. qs = <<>> => Len(qs) = 0
    OBVIOUS
  <2> QED BY <1>1, <1>2, <2>1 DEF Compounds
<1>4. Rooted(h) /\ Rooted(g)
  BY DEF Turns
<1>5. CASE /\ Subtree(g, RootItem) = Subtree(h, RootItem)
           /\ \A k \in 1 .. Len(ops) : ops[k].selBefore = <<>> /\ ops[k].selAfter = <<>>
  BY <1>1, <1>2, <1>4, <1>5 DEF Turns
<1>6. CASE /\ \A k \in 1 .. Len(ops) :
                /\ ops[k].kind \in {"insert", "remove"}
                /\ ops[k].selBefore \in Selections(h) /\ ops[k].selAfter \in Selections(g)
           /\ ops = <<>> => g = h
  BY <1>1, <1>2, <1>3, <1>4, <1>6 DEF Turns
<1> QED BY <1>5, <1>6 DEF Turns

\* The operation that waits is executed, or stops the program.
LEMMA UpdateRuns ==
  ASSUME IInv, Calm, Update, NEW e, e = Execute(queued[1], m)
  PROVE  /\ Len(queued) = 1
         /\ \/ /\ ~IsRunning(e.m) /\ StopsOnly(e.m.status)
               /\ m' = Stopped(m, e.m.status) /\ Idle
            \/ /\ IsRunning(e.m) /\ Keeps(queued[1], m.tree, m.selection, e.m.tree)
               /\ m' = e.m /\ executed' = Append(executed, e.ops)
               /\ before' = Append(before, m.tree)
               /\ queued' = <<>> /\ undone' = <<>> /\ after' = <<>> /\ given' = 0
<1>1. /\ m \in Machines /\ queued \in Seq(Compounds) /\ queued # <<>>
      /\ Running /\ IsRunning(m)
  BY DEF IInv, Typed, Update, Running, IsRunning
<1>2. Len(queued) = 1
  <2>1. Len(queued) <= 1
    BY DEF Calm
  <2>2. Len(queued) \in Nat /\ Len(queued) # 0
    BY <1>1
  <2> QED BY <2>1, <2>2
<1>3. Promised(queued[1], m.tree, m.selection) /\ Rooted(m.tree)
  BY <1>1 DEF Calm
<1>4. m.tree \in Trees
  BY <1>3 DEF Rooted, Trees, Tree
<1>5. \/ IsRunning(e.m) /\ Keeps(queued[1], m.tree, m.selection, e.m.tree)
      \/ e.m.status = "no_return" /\ "attach_button" \in Inputs
  BY <1>1, <1>3 DEF Promised
<1>6. PICK r : r = Executed
  OBVIOUS
<1>7. /\ r.m = e.m /\ executed \o r.done = Append(executed, e.ops)
      /\ before \o r.trees = Append(before, m.tree)
  BY <1>2, <1>4, <1>6, ExecutedIsFirst
<1>8. CASE IsRunning(e.m) /\ Keeps(queued[1], m.tree, m.selection, e.m.tree)
  <2>1. /\ m' = r.m /\ executed' = executed \o r.done /\ before' = before \o r.trees
        /\ queued' = <<>> /\ undone' = <<>> /\ after' = <<>> /\ given' = 0
    BY <1>6, <1>7, <1>8 DEF Update, IsRunning
  <2> QED BY <1>2, <1>7, <1>8, <2>1
<1>9. CASE e.m.status = "no_return" /\ "attach_button" \in Inputs
  <2>1. Crash(r.m.status)
    BY <1>6, <1>7, <1>9 DEF Update
  <2>2. m' = Stopped(m, e.m.status) /\ Idle
    BY <1>7, <2>1 DEF Crash
  <2>3. ~IsRunning(e.m) /\ StopsOnly(e.m.status)
    BY <1>9 DEF StopsOnly, IsRunning
  <2> QED BY <1>2, <2>2, <2>3
<1> QED BY <1>5, <1>8, <1>9

LEMMA UpdateIsCalm ==
  ASSUME IInv, Calm, Update
  PROVE  Calm'
<1>1. PICK ops, e : ops = queued[1] /\ e = Execute(ops, m)
  OBVIOUS
<1>2. /\ m \in Machines /\ queued \in Seq(Compounds) /\ queued # <<>> /\ Running
      /\ Rooted(m.tree) /\ m.selection \in Selections(m.tree)
      /\ Line(TurnPasts, executed, before, m.tree)
  BY DEF IInv, Typed, Update, Calm
<1>3. ops \in Compounds
  BY <1>1, <1>2
<1>4. e.ops \in Compounds /\ e.m \in Machines /\ Alike(ops, e.ops)
  BY <1>1, <1>2, <1>3, ExecuteIs
<1>5. CASE /\ ~IsRunning(e.m) /\ StopsOnly(e.m.status)
           /\ m' = Stopped(m, e.m.status) /\ Idle
  <2>1. m'.status = e.m.status
    BY <1>2, <1>5 DEF Stopped, Machines
  <2> QED BY <1>5, <2>1, StoppingIsCalm DEF IsRunning
<1>6. CASE /\ IsRunning(e.m) /\ Keeps(ops, m.tree, m.selection, e.m.tree)
           /\ m' = e.m /\ executed' = Append(executed, e.ops)
           /\ before' = Append(before, m.tree)
           /\ queued' = <<>> /\ undone' = <<>> /\ after' = <<>> /\ given' = 0
  <2>1. PICK h, g : h = m.tree /\ g = e.m.tree
    OBVIOUS
  <2>2. Turns(ops, h, g)
    BY <1>6, <2>1 DEF Keeps
  <2>3. Turns(e.ops, h, g)
    BY <1>3, <1>4, <2>2, AlikeTurns
  <2>4. Rooted(g) /\ Rooted(h)
    BY <2>2 DEF Turns
  <2>5. g \in Trees /\ h \in Trees
    BY <2>4 DEF Rooted, Trees, Tree
  <2>6. e.m.selection \in Selections(g)
    BY <1>1, <1>2, <1>3, <1>6, <2>1, <2>2, ExecutingTurns
  <2>7. Line(TurnPasts, executed', before', g)
    <3>1. <<e.ops, h, g>> \in TurnPasts
      BY <1>4, <2>3, <2>5 DEF TurnPasts
    <3> QED BY <1>2, <1>4, <1>6, <2>1, <2>5, <3>1, LineGrows
  <2>8. Line(TurnFutures, undone', after', g)
    <3>1. PICK none : none = <<>>
      OBVIOUS
    <3>2. none \in Seq(Compounds) /\ none \in Seq(Trees) /\ Len(none) = 0
      BY <3>1
    <3>3. Line(TurnFutures, none, none, g)
      BY <3>2 DEF Line
    <3> QED BY <1>6, <3>1, <3>3
  <2> QED BY <1>4, <1>6, <2>1, <2>4, <2>6, <2>7, <2>8, TurningIsCalm
<1> QED BY <1>1, <1>5, <1>6, UpdateRuns

-----------------------------------------------------------------------------
\* The editor starts with what is calm.
LEMMA InitIsCalm ==
  ASSUME Init
  PROVE  Calm
<1>1. PICK h \in InitialTrees : m = [tree |-> h, selection |-> <<>>, flagged |-> {},
                                     status |-> "running"]
  BY DEF Init
<1>2. PICK none : none = <<>>
  OBVIOUS
<1>3. /\ queued = none /\ executed = none /\ undone = none
      /\ given = 0 /\ before = none /\ after = none
  BY <1>2 DEF Init
<1>4. none \in Seq(Compounds) /\ none \in Seq(Trees) /\ Len(none) = 0
  BY <1>2
<1>5. Rooted(h)
  BY OperationStackAssumption DEF Rooted, Tree
<1>6. m.tree = h /\ m.selection = none /\ m.status = "running"
  BY <1>1, <1>2
<1>7. none \in Selections(h)
  BY <1>2, NothingSelected
<1>8. Line(TurnPasts, executed, before, m.tree) /\ Line(TurnFutures, undone, after, m.tree)
  BY <1>3, <1>4 DEF Line
<1>9. StopsOnly(m.status)
  BY <1>6 DEF StopsOnly
<1>10. Len(queued) <= 1 /\ queued = <<>> /\ given = 0
  BY <1>2, <1>3, <1>4
<1> QED BY <1>5, <1>6, <1>7, <1>8, <1>9, <1>10 DEF Calm

\* Whatever the user does, ...
LEMMA CallersAreCalm ==
  ASSUME IInv, Calm, MaxPerTick = 1, Callers
  PROVE  Calm'
<1>1. CASE \E n \in Shown : Click(n) \/ ControlClick(n)
  BY <1>1, ClickIsCalm
<1>2. CASE \E n, target \in Shown, place \in Placements : Drop(n, target, place)
  BY <1>2, DropIsCalm
<1>3. CASE AttachButton
  BY <1>3, AttachButtonIsCalm
<1>4. CASE Delete \/ Cut
  BY <1>4, DeleteIsCalm
<1>5. CASE Copy
  BY <1>5, CopyIsCalm
<1>6. CASE Duplicate
  BY <1>6, DuplicateIsCalm
<1>7. CASE Paste
  BY <1>7, PasteIsCalm
<1> QED BY <1>1, <1>2, <1>3, <1>4, <1>5, <1>6, <1>7 DEF Callers

\* ... and whatever becomes of it.
LEMMA StepIsCalm ==
  ASSUME IInv, Calm, MaxPerTick = 1, [Next]_vars
  PROVE  Calm'
<1>1. CASE Callers
  BY <1>1, CallersAreCalm
<1>2. CASE UndoKey
  BY <1>2, UndoIsCalm
<1>3. CASE RedoKey
  BY <1>3, RedoIsCalm
<1>4. CASE Update
  BY <1>4, UpdateIsCalm
<1>5. CASE UNCHANGED vars
  <2>1. /\ m' = m /\ queued' = queued /\ executed' = executed /\ undone' = undone
        /\ given' = given /\ before' = before /\ after' = after
    BY <1>5 DEF vars, history
  <2> QED BY <2>1 DEF Calm, Running
<1> QED BY <1>1, <1>2, <1>3, <1>4, <1>5, NextIs

(***************************************************************************)
(* Where each tick of the editor takes one input, every operation is       *)
(* executed in the tree it was made for, and leads from selections of the  *)
(* scene to selections of the scene (editor.cpp:136-153).                  *)
(***************************************************************************)
THEOREM EditorIsCalm ==
  ASSUME MaxPerTick = 1
  PROVE  Spec => [](IInv /\ Calm)
<1>1. Init => IInv /\ Calm
  BY InitHolds, InitIsCalm
<1>2. (IInv /\ Calm) /\ [Next]_vars => (IInv /\ Calm)'
  BY StepKeeps, StepIsCalm
<1> QED BY <1>1, <1>2, PTL DEF Spec

\* The operation that waits is there, and a list of operations.
LEMMA OneWaits ==
  ASSUME IInv, Len(queued) = 1, NEW ops, ops = queued[1]
  PROVE  queued # <<>> /\ ops \in Compounds /\ DOMAIN ops = 1 .. Len(ops)
<1>1. PICK none : none = <<>> /\ Len(none) = 0
  OBVIOUS
<1>2. queued # none
  BY <1>1
<1>3. queued \in Seq(Compounds) /\ 1 \in 1 .. Len(queued)
  BY DEF IInv, Typed
<1>4. ops \in Compounds
  BY <1>3
<1>5. DOMAIN ops = 1 .. Len(ops)
  BY <1>4 DEF Compounds
<1> QED BY <1>1, <1>2, <1>4, <1>5

\* Only Update leaves nothing of what was queued, if it does not stop.
LEMMA EmptiedByUpdate ==
  ASSUME IInv, Calm, MaxPerTick = 1, [Next]_vars, queued' = <<>>, Len(queued) = 1
  PROVE  Keeps(queued[1], m.tree, m.selection, m'.tree)
<1>1. queued # <<>> /\ queued' # queued
  <2>1. queued # <<>>
    BY OneWaits
  <2> QED BY <2>1
<1>2. ~(Running /\ given < MaxPerTick)
  BY <1>1, FirstInput
<1>3. ~Callers
  BY <1>2 DEF Callers, Click, ControlClick, Drop, AttachButton, Delete, Cut, Copy, Duplicate,
              Paste, Mouse, Input
<1>4. ~UndoKey /\ ~RedoKey
  BY <1>2 DEF UndoKey, RedoKey, Input
<1>5. ~UNCHANGED vars
  BY <1>1 DEF vars
<1>6. Update
  BY <1>3, <1>4, <1>5, NextIs
<1>7. PICK e : e = Execute(queued[1], m)
  OBVIOUS
<1>8. CASE Idle
  BY <1>1, <1>8 DEF Idle
<1>9. CASE Keeps(queued[1], m.tree, m.selection, e.m.tree) /\ m' = e.m
  BY <1>9
<1> QED BY <1>6, <1>7, <1>8, <1>9, UpdateRuns

(***************************************************************************)
(* No ERHE_VERIFY of an operation fails and no null parent is used: each   *)
(* operation is executed and undone in the tree it was made for            *)
(* (item_parent_change_operation.cpp:52, 77).                              *)
(***************************************************************************)
THEOREM VerificationsHold ==
  ASSUME MaxPerTick = 1
  PROVE  Spec => []VerifyHolds
<1>1. IInv /\ Calm => VerifyHolds
  BY DEF Calm, StopsOnly, VerifyHolds
<1> QED BY <1>1, EditorIsCalm, PTL

(***************************************************************************)
(* Without the Attach button, which does not look whether the new parent is*)
(* below the item, no operation makes a cycle: what the drag and drop of   *)
(* the item tree checks is enough (item_tree_window.cpp:204, 284).         *)
(***************************************************************************)
THEOREM NothingBelowItself ==
  ASSUME MaxPerTick = 1, "attach_button" \notin Inputs
  PROVE  Spec => []NeverBelowItself
<1>1. IInv /\ Calm => NeverBelowItself
  BY DEF Calm, StopsOnly, NeverBelowItself
<1> QED BY <1>1, EditorIsCalm, PTL

(***************************************************************************)
(* The selection holds only items of the scene, each once, also after      *)
(* deletions, undo and redo, which put earlier selections back             *)
(* (item_insert_remove_operation.cpp:57, 121-136).                         *)
(***************************************************************************)
THEOREM SelectionStaysInScene ==
  ASSUME MaxPerTick = 1
  PROVE  Spec => []SelectionInScene
<1>1. ASSUME TypeOK, IInv, Calm PROVE SelectionInScene
  <2>1. ASSUME Running
        PROVE  Selected \subseteq Shown /\ Len(m.selection) = Cardinality(Selected)
    <3>1. m.selection \in Selections(m.tree)
      BY <1>1, <2>1 DEF Calm
    <3>2. /\ m.selection \in Seq(Item) /\ IsInjective(m.selection)
          /\ ToSet(m.selection) \subseteq ShownIn(m.tree)
      BY <3>1 DEF Selections
    <3>3. Cardinality(ToSet(m.selection)) = Len(m.selection)
      BY <3>2, LengthOfInjective
    <3> QED BY <3>2, <3>3 DEF Selected, Shown, ShownIn
  <2> QED BY <1>1, <2>1 DEF SelectionInScene
<1>2. TypeOK /\ (IInv /\ Calm) => SelectionInScene
  BY <1>1
<1> QED BY <1>2, Types, EditorIsCalm, PTL

(***************************************************************************)
(* Deleting takes exactly the selected items and what is below them out of *)
(* the scene, and leaves every other item below the parent it had: though  *)
(* each removal hands its children to its own parent, and std::sort may    *)
(* put those of equal depth in any order, none stays behind                *)
(* (selection_tool.cpp:326-388).                                           *)
(***************************************************************************)
THEOREM DeletingIsExact ==
  ASSUME MaxPerTick = 1
  PROVE  Spec => DeleteIsExact
<1> DEFINE Deletes == /\ queued' = <<>> /\ Len(queued) = 1 /\ queued[1] # <<>>
                      /\ \A i \in DOMAIN queued[1] : queued[1][i].kind = "remove"
           Exactly == /\ Shown' = Shown \ UNION {Subtree(m.tree, s) : s \in Selected}
                      /\ \A n \in Shown' : m'.tree.parent[n] = m.tree.parent[n]
<1>1. ASSUME IInv, Calm, [Next]_vars, Deletes PROVE Exactly
  <2>1. PICK ops, h, sel, g : /\ ops = queued[1] /\ h = m.tree /\ sel = m.selection
                              /\ g = m'.tree
    OBVIOUS
  <2>2. Keeps(ops, h, sel, g)
    BY <1>1, <2>1, EmptiedByUpdate
  <2>3. DeletesExactly(ops, h, sel, g)
    BY <2>2 DEF Keeps
  <2>4. Len(queued) = 1
    BY <1>1
  <2>5. DOMAIN ops = 1 .. Len(ops)
    BY <1>1, <2>1, <2>4, OneWaits
  <2>6. ops # <<>> /\ \A k \in 1 .. Len(ops) : ops[k].kind = "remove"
    BY <1>1, <2>1, <2>5
  <2>7. /\ ShownIn(g) = ShownIn(h) \ Deleted(h, sel)
        /\ \A n \in ShownIn(g) : g.parent[n] = h.parent[n]
    BY <2>3, <2>6 DEF DeletesExactly
  <2>8. Shown = ShownIn(h) /\ Shown' = ShownIn(g)
    BY <2>1 DEF Shown, ShownIn
  <2>9. Deleted(h, sel) = UNION {Subtree(m.tree, s) : s \in Selected}
    BY <2>1 DEF Deleted, Selected
  <2> QED BY <2>1, <2>7, <2>8, <2>9
<1>2. (IInv /\ Calm) /\ [Next]_vars => [Deletes => Exactly]_vars
  BY <1>1
<1> QED BY <1>2, EditorIsCalm, PTL DEF Spec, DeleteIsExact

(***************************************************************************)
(* A drop before or after an item leaves all that was dragged next to it,  *)
(* in the order of the selection, wherever the dragged items were before   *)
(* (item_tree_window.cpp:105-133).                                         *)
(***************************************************************************)
THEOREM DropsStayTogether ==
  ASSUME MaxPerTick = 1
  PROVE  Spec => DroppedTogether
<1> DEFINE Together ==
      \A anchor \in Item, place \in {"before", "after"} :
         LET ops   == queued[1]
             items == {ops[i].item : i \in DOMAIN ops}
             row   == IF items \subseteq Selected
                      THEN EraseAll(m.selection, Item \ items)
                      ELSE SetToSeq(items)
             run   == IF place = "before" THEN Append(row, anchor)
                      ELSE <<anchor>> \o row
             list  == m'.tree.children[m'.tree.parent[anchor]]
         IN  /\ queued' = <<>> /\ Len(queued) = 1 /\ ops # <<>>
             /\ \A i \in DOMAIN ops : ops[i].place = place /\ ops[i].anchor = anchor
             => \E k \in 1 .. (Len(list) + 1 - Len(run)) :
                  SubSeq(list, k, k + Len(run) - 1) = run
<1>1. ASSUME IInv, Calm, [Next]_vars PROVE Together
  <2>1. ASSUME NEW anchor \in Item, NEW place \in {"before", "after"},
               queued' = <<>>, Len(queued) = 1, queued[1] # <<>>,
               \A i \in DOMAIN queued[1] : queued[1][i].place = place
                                           /\ queued[1][i].anchor = anchor
        PROVE  TogetherIn(m'.tree.children[m'.tree.parent[anchor]],
                          RunOf(RowOf(ItemsOf(queued[1]), m.selection), place, anchor))
    <3>1. PICK ops, sel, g : ops = queued[1] /\ sel = m.selection /\ g = m'.tree
      OBVIOUS
    <3>2. Keeps(ops, m.tree, sel, g)
      BY <1>1, <2>1, <3>1, EmptiedByUpdate
    <3>3. DropsTogether(ops, sel, g)
      BY <3>2 DEF Keeps
    <3>4. DOMAIN ops = 1 .. Len(ops)
      BY <1>1, <2>1, <3>1, OneWaits
    <3>5. AsDropped(ops, place, anchor)
      BY <2>1, <3>1, <3>4 DEF AsDropped
    <3>6. TogetherIn(g.children[g.parent[anchor]],
                     RunOf(RowOf(ItemsOf(ops), sel), place, anchor))
      BY <3>3, <3>5 DEF DropsTogether
    <3> QED BY <3>1, <3>6
  <2> QED BY <2>1 DEF TogetherIn, RunOf, RowOf, ItemsOf, Selected
<1>2. (IInv /\ Calm) /\ [Next]_vars => [Together]_vars
  BY <1>1
<1> QED BY <1>2, EditorIsCalm, PTL DEF Spec, DroppedTogether
=============================================================================

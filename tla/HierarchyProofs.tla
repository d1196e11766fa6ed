-------------------------- MODULE HierarchyProofs --------------------------
(***************************************************************************)
(* Facts about the operators of module Hierarchy, for every tree: what a   *)
(* subtree is, how set_parent, remove and recursive_remove change the      *)
(* subtree of every item, that they keep a tree well-formed, and that      *)
(* set_parent can be undone.                                               *)
(***************************************************************************)
EXTENDS Hierarchy, SequenceTheorems, TLAPS

Elements(s) == {s[i] : i \in DOMAIN s}
OneToOne(s) == \A i, j \in DOMAIN s : s[i] = s[j] => i = j

\* A tree as the code keeps it.
Tree(h) == h \in Hierarchies /\ WellFormed(h)
-----------------------------------------------------------------------------
(***************************************************************************)
(* Lists of children.                                                      *)
(***************************************************************************)

\* What the list is after handle_add_child: n stands after the first k.
LEMMA WithIs ==
  ASSUME NEW S, NEW s \in Seq(S), NEW n \in S, NEW position \in Nat
  PROVE  LET k == IF position < Len(s) THEN position ELSE Len(s)
             t == With(s, position, n)
         IN  /\ k \in Nat /\ k <= Len(s) /\ t \in Seq(S) /\ Len(t) = Len(s) + 1
             /\ \A i \in 1 .. Len(t) :
                  t[i] = IF i <= k THEN s[i] ELSE IF i = k + 1 THEN n ELSE s[i - 1]
<1> DEFINE k == IF position < Len(s) THEN position ELSE Len(s)
           t == With(s, position, n)
<1>1. k \in Nat /\ k <= Len(s) /\ Len(s) \in Nat
  OBVIOUS
<1>2. t = (SubSeq(s, 1, (k + 1) - 1) \o <<n>>) \o SubSeq(s, k + 1, Len(s))
  BY DEF With, InsertAt
<1> HIDE DEF k, t
<1>3. /\ t \in Seq(S) /\ Len(t) = Len(s) + 1
      /\ \A i \in 1 .. Len(t) :
           t[i] = IF i <= k THEN s[i] ELSE IF i = k + 1 THEN n ELSE s[i - 1]
  <2> DEFINE a == SubSeq(s, 1, (k + 1) - 1)
             b == <<n>>
             c == SubSeq(s, k + 1, Len(s))
  <2>1. /\ a \in Seq(S) /\ Len(a) = k /\ \A i \in 1 .. k : a[i] = s[i]
        /\ b \in Seq(S) /\ Len(b) = 1 /\ b[1] = n
        /\ c \in Seq(S) /\ Len(c) = Len(s) - k
        /\ \A i \in 1 .. Len(c) : c[i] = s[k + i]
    BY <1>1
  <2>2. t = (a \o b) \o c
    BY <1>2
  <2> HIDE DEF a, b, c
  <2> DEFINE d == a \o b
  <2>3. d \in Seq(S) /\ Len(d) = k + 1
        /\ \A i \in 1 .. k + 1 : d[i] = IF i <= k THEN s[i] ELSE n
    <3>1. /\ d \in Seq(S) /\ Len(d) = Len(a) + Len(b)
          /\ \A i \in 1 .. Len(a) + Len(b) :
               d[i] = IF i <= Len(a) THEN a[i] ELSE b[i - Len(a)]
      BY <2>1, ConcatProperties
    <3>2. Len(a) + Len(b) = k + 1 /\ (k + 1) - Len(a) = 1
      BY <1>1, <2>1
    <3>3. d[k + 1] = n
      BY <1>1, <2>1, <3>1, <3>2
    <3>4. \A i \in 1 .. k + 1 : i <= k \/ i = k + 1
      BY <1>1
    <3> QED BY <1>1, <2>1, <3>1, <3>2, <3>3, <3>4
  <2>4. t = d \o c
    BY <2>2
  <2> HIDE DEF d
  <2>5. /\ t \in Seq(S) /\ Len(t) = Len(s) + 1
        /\ \A i \in 1 .. Len(t) :
             t[i] = IF i <= k + 1 THEN d[i] ELSE c[i - (k + 1)]
    BY <1>1, <2>1, <2>3, <2>4, ConcatProperties
  <2>6. ASSUME NEW i \in 1 .. Len(t), i > k + 1 PROVE c[i - (k + 1)] = s[i - 1]
    <3>1. i - (k + 1) \in 1 .. Len(c) /\ k + (i - (k + 1)) = i - 1
      BY <1>1, <2>1, <2>5, <2>6
    <3> QED BY <3>1, <2>1
  <2>7. ASSUME NEW i \in 1 .. Len(t)
        PROVE  t[i] = IF i <= k THEN s[i] ELSE IF i = k + 1 THEN n ELSE s[i - 1]
    <3>1. CASE i <= k
      <4>1. i <= k + 1 /\ i \in 1 .. k + 1
        BY <1>1, <3>1
      <4>2. t[i] = d[i] /\ d[i] = s[i]
        BY <3>1, <4>1, <2>3, <2>5
      <4> QED BY <3>1, <4>2
    <3>2. CASE i = k + 1
      <4>1. i <= k + 1 /\ i \in 1 .. k + 1 /\ ~(i <= k)
        BY <1>1, <3>2
      <4>2. t[i] = d[i] /\ d[i] = n
        BY <4>1, <2>3, <2>5
      <4> QED BY <3>2, <4>1, <4>2
    <3>3. CASE i > k + 1
      <4>1. ~(i <= k + 1) /\ ~(i <= k) /\ i # k + 1
        BY <1>1, <3>3
      <4>2. t[i] = c[i - (k + 1)]
        BY <4>1, <2>5
      <4> QED BY <3>3, <4>1, <4>2, <2>6
    <3> QED BY <1>1, <3>1, <3>2, <3>3
  <2> QED BY <2>5, <2>7
<1> QED BY <1>1, <1>3 DEF k, t

\* handle_add_child puts one more child on the list, wherever that is.
LEMMA WithFacts ==
  ASSUME NEW S, NEW s \in Seq(S), NEW n \in S, NEW position \in Nat
  PROVE  /\ With(s, position, n) \in Seq(S)
         /\ Elements(With(s, position, n)) = Elements(s) \cup {n}
         /\ OneToOne(s) /\ n \notin Elements(s) => OneToOne(With(s, position, n))
<1> DEFINE k == IF position < Len(s) THEN position ELSE Len(s)
           t == With(s, position, n)
<1>1. k \in Nat /\ k <= Len(s) /\ Len(s) \in Nat
  OBVIOUS
<1>3. /\ t \in Seq(S) /\ Len(t) = Len(s) + 1
      /\ \A i \in 1 .. Len(t) :
           t[i] = IF i <= k THEN s[i] ELSE IF i = k + 1 THEN n ELSE s[i - 1]
  BY WithIs
<1> HIDE DEF k, t
<1>4. Elements(t) = Elements(s) \cup {n}
  <2>1. Elements(t) \subseteq Elements(s) \cup {n}
    <3>1. ASSUME NEW i \in 1 .. Len(t) PROVE t[i] = n \/ \E j \in DOMAIN s : t[i] = s[j]
      <4>1. i <= k => i \in DOMAIN s
        BY <1>1
      <4>2. ~(i <= k) /\ i # k + 1 => i - 1 \in DOMAIN s
        BY <1>1, <1>3
      <4> QED BY <1>3, <4>1, <4>2
    <3> QED BY <1>3, <3>1 DEF Elements
  <2>2. ASSUME NEW i \in 1 .. Len(s) PROVE s[i] \in Elements(t)
    <3>1. CASE i <= k
      BY <1>1, <1>3, <3>1 DEF Elements
    <3>2. CASE i > k
      <4>1. i + 1 \in 1 .. Len(t) /\ t[i + 1] = s[i]
        BY <1>1, <1>3, <3>2
      <4> QED BY <4>1, <1>3 DEF Elements
    <3> QED BY <1>1, <3>1, <3>2
  <2>3. n \in Elements(t)
    <3>1. k + 1 \in 1 .. Len(t) /\ t[k + 1] = n
      BY <1>1, <1>3
    <3> QED BY <3>1, <1>3 DEF Elements
  <2> QED BY <2>1, <2>2, <2>3 DEF Elements
<1>5. ASSUME OneToOne(s), n \notin Elements(s) PROVE OneToOne(t)
  <2> DEFINE old(i) == IF i <= k THEN i ELSE i - 1
  <2> SUFFICES ASSUME NEW i \in 1 .. Len(t), NEW j \in 1 .. Len(t), t[i] = t[j]
               PROVE  i = j
    BY <1>3 DEF OneToOne
  <2>1. \A x \in 1 .. Len(s) : s[x] \in Elements(s)
    BY DEF Elements
  <2>2. ASSUME NEW x \in 1 .. Len(t), x # k + 1
        PROVE  old(x) \in 1 .. Len(s) /\ t[x] = s[old(x)] /\ t[x] # n
    <3>1. old(x) \in 1 .. Len(s) /\ t[x] = s[old(x)]
      BY <1>1, <1>3, <2>2
    <3> QED BY <3>1, <2>1, <1>5
  <2>3. t[k + 1] = n
    BY <1>1, <1>3
  <2>4. CASE i = k + 1 \/ j = k + 1
    BY <2>2, <2>3, <2>4
  <2>5. CASE i # k + 1 /\ j # k + 1
    <3>1. old(i) = old(j)
      BY <2>2, <2>5, <1>5 DEF OneToOne
    <3> QED BY <3>1, <2>5, <1>1
  <2> QED BY <2>4, <2>5
<1> QED BY <1>3, <1>4, <1>5 DEF t

\* And after handle_remove_child: the k-th is gone.
LEMMA WithoutIs ==
  ASSUME NEW S, NEW s \in Seq(S), NEW n \in S, OneToOne(s), NEW k \in 1 .. Len(s), s[k] = n
  PROVE  /\ IndexOf(s, n) = k - 1
         /\ Without(s, n) \in Seq(S) /\ Len(Without(s, n)) = Len(s) - 1
         /\ \A i \in 1 .. Len(Without(s, n)) :
              Without(s, n)[i] = IF i < k THEN s[i] ELSE s[i + 1]
<1> DEFINE t == Without(s, n)
<1>0. Len(s) \in Nat /\ k \in Nat /\ 1 <= k /\ k <= Len(s) /\ DOMAIN s = 1 .. Len(s)
  OBVIOUS
<1>1. IndexOf(s, n) = k - 1
  <2>1. \A i \in DOMAIN s : s[i] = n <=> i = k
    BY DEF OneToOne
  <2>2. (CHOOSE i \in DOMAIN s : s[i] = n) = k
    BY <2>1
  <2> QED BY <2>2 DEF IndexOf
<1>2. t = SubSeq(s, 1, k - 1) \o SubSeq(s, k + 1, Len(s))
  <2>1. (k - 1) + 1 = k
    BY <1>0
  <2>2. IndexOf(s, n) + 1 = k
    BY <1>1, <2>1
  <2>3. \E i \in DOMAIN s : s[i] = n
    BY <1>0
  <2>4. t = RemoveAt(s, k)
    BY <2>2, <2>3 DEF Without
  <2> QED BY <2>4 DEF RemoveAt
<1> HIDE DEF t
<1>3. /\ t \in Seq(S) /\ Len(t) = Len(s) - 1
      /\ \A i \in 1 .. Len(t) : t[i] = IF i < k THEN s[i] ELSE s[i + 1]
  <2> DEFINE a == SubSeq(s, 1, k - 1)
             b == SubSeq(s, k + 1, Len(s))
  <2>1. /\ a \in Seq(S) /\ Len(a) = k - 1 /\ \A i \in 1 .. Len(a) : a[i] = s[i]
        /\ b \in Seq(S) /\ Len(b) = Len(s) - k
        /\ \A i \in 1 .. Len(b) : b[i] = s[k + i]
    BY <1>0
  <2>2. t = a \o b
    BY <1>2
  <2> HIDE DEF a, b
  <2>3. /\ t \in Seq(S) /\ Len(t) = Len(s) - 1
        /\ \A i \in 1 .. Len(t) : t[i] = IF i < k THEN a[i] ELSE b[i - (k - 1)]
    <3>1. /\ t \in Seq(S) /\ Len(t) = Len(a) + Len(b)
          /\ \A i \in 1 .. Len(a) + Len(b) : t[i] = IF i <= Len(a) THEN a[i] ELSE b[i - Len(a)]
      BY <2>1, <2>2, ConcatProperties
    <3>2. Len(a) + Len(b) = Len(s) - 1 /\ Len(a) = k - 1
      BY <1>0, <2>1
    <3>3. \A i \in 1 .. Len(s) - 1 : i <= k - 1 <=> i < k
      BY <1>0
    <3> QED BY <3>1, <3>2, <3>3
  <2>4. ASSUME NEW i \in 1 .. Len(t), i >= k PROVE b[i - (k - 1)] = s[i + 1]
    <3>1. i - (k - 1) \in 1 .. Len(b) /\ k + (i - (k - 1)) = i + 1
      BY <1>0, <2>1, <2>3, <2>4
    <3> QED BY <3>1, <2>1
  <2>5. ASSUME NEW i \in 1 .. Len(t), i < k PROVE a[i] = s[i]
    <3>1. i \in 1 .. Len(a)
      BY <1>0, <2>1, <2>5
    <3> QED BY <3>1, <2>1
  <2>6. ASSUME NEW i \in 1 .. Len(t) PROVE t[i] = IF i < k THEN s[i] ELSE s[i + 1]
    <3>1. t[i] = IF i < k THEN a[i] ELSE b[i - (k - 1)]
      BY <2>3
    <3>2. CASE i < k
      BY <3>1, <3>2, <2>5
    <3>3. CASE ~(i < k)
      <4>1. i >= k
        BY <1>0, <3>3
      <4> QED BY <3>1, <3>3, <4>1, <2>4
    <3> QED BY <3>2, <3>3
  <2> QED BY <2>3, <2>6
<1> QED BY <1>1, <1>3 DEF t

\* handle_remove_child takes the child off the list, if it is on it.
LEMMA WithoutFacts ==
  ASSUME NEW S, NEW s \in Seq(S), NEW n \in S, OneToOne(s)
  PROVE  /\ Without(s, n) \in Seq(S)
         /\ Elements(Without(s, n)) = Elements(s) \ {n}
         /\ OneToOne(Without(s, n))
<1>1. CASE n \notin Elements(s)
  BY <1>1 DEF Without, Elements, OneToOne
<1>2. CASE n \in Elements(s)
  <2> DEFINE k == IndexOf(s, n) + 1
             t == Without(s, n)
  <2>1. k \in 1 .. Len(s) /\ s[k] = n
    BY <1>2 DEF Elements, IndexOf
  <2>2. t = SubSeq(s, 1, k - 1) \o SubSeq(s, k + 1, Len(s))
    BY <1>2 DEF Without, RemoveAt, Elements
  <2> HIDE DEF k, t
  <2>3. /\ t \in Seq(S) /\ Len(t) = Len(s) - 1
        /\ \A i \in 1 .. Len(t) : t[i] = IF i < k THEN s[i] ELSE s[i + 1]
    BY <2>1, WithoutIs DEF t
  <2>4. Elements(t) \subseteq Elements(s) \ {n}
    BY <2>1, <2>3 DEF Elements, OneToOne
  <2>5. ASSUME NEW i \in 1 .. Len(s), s[i] # n PROVE s[i] \in Elements(t)
    <3>1. CASE i < k
      BY <2>1, <2>3, <3>1 DEF Elements
    <3>2. CASE i > k
      <4>1. i - 1 \in 1 .. Len(t) /\ t[i - 1] = s[i]
        BY <2>1, <2>3, <3>2
      <4> QED BY <4>1, <2>3 DEF Elements
    <3> QED BY <2>1, <2>5, <3>1, <3>2
  <2>6. Elements(s) \ {n} \subseteq Elements(t)
    BY <2>5 DEF Elements
  <2>7. OneToOne(t)
    <3> SUFFICES ASSUME NEW i \in 1 .. Len(t), NEW j \in 1 .. Len(t), t[i] = t[j]
                 PROVE  i = j
      BY <2>3 DEF OneToOne
    <3> DEFINE old(x) == IF x < k THEN x ELSE x + 1
    <3>1. /\ old(i) \in 1 .. Len(s) /\ t[i] = s[old(i)]
          /\ old(j) \in 1 .. Len(s) /\ t[j] = s[old(j)]
      BY <2>1, <2>3
    <3>2. DOMAIN s = 1 .. Len(s)
      OBVIOUS
    <3>3. s[old(i)] = s[old(j)]
      BY <3>1
    <3> HIDE DEF old
    <3>4. old(i) = old(j)
      BY <3>1, <3>2, <3>3 DEF OneToOne
    <3> QED BY <3>4, <2>1 DEF old
  <2> QED BY <2>3, <2>4, <2>6, <2>7 DEF t
<1> QED BY <1>1, <1>2

\* remove() hands its children over in reverse order.
LEMMA HandedOver ==
  ASSUME NEW S, NEW s \in Seq(S), NEW t \in Seq(S),
         OneToOne(s), OneToOne(t), Elements(s) \cap Elements(t) = {}
  PROVE  /\ s \o Reverse(t) \in Seq(S)
         /\ Elements(s \o Reverse(t)) = Elements(s) \cup Elements(t)
         /\ OneToOne(s \o Reverse(t))
<1> DEFINE r == Reverse(t)
           u == s \o r
<1>1. /\ r \in Seq(S) /\ Len(r) = Len(t)
      /\ \A i \in 1 .. Len(t) : r[i] = t[(Len(t) - i) + 1]
  BY DEF Reverse
<1> HIDE DEF r
<1>2. /\ u \in Seq(S) /\ Len(u) = Len(s) + Len(t)
      /\ \A i \in 1 .. Len(s) : u[i] = s[i]
      /\ \A i \in 1 .. Len(t) : u[Len(s) + i] = t[(Len(t) - i) + 1]
  <2>1. /\ u \in Seq(S) /\ Len(u) = Len(s) + Len(r)
        /\ \A i \in 1 .. Len(s) + Len(r) :
             u[i] = IF i <= Len(s) THEN s[i] ELSE r[i - Len(s)]
    BY <1>1, ConcatProperties
  <2> QED BY <2>1, <1>1
<1> HIDE DEF u
<1>3. Elements(u) \subseteq Elements(s) \cup Elements(t)
  <2> SUFFICES ASSUME NEW i \in 1 .. Len(u) PROVE u[i] \in Elements(s) \cup Elements(t)
    <3>1. DOMAIN u = 1 .. Len(u)
      BY <1>2
    <3> QED BY <3>1, Zenon DEF Elements
  <2>1. CASE i <= Len(s)
    BY <2>1, <1>2 DEF Elements
  <2>2. CASE i > Len(s)
    <3>1. i - Len(s) \in 1 .. Len(t) /\ i = Len(s) + (i - Len(s))
      BY <2>2, <1>2
    <3> DEFINE a == i - Len(s)
    <3>2. a \in 1 .. Len(t) /\ i = Len(s) + a
      BY <3>1
    <3> HIDE DEF a
    <3>3. u[i] = t[(Len(t) - a) + 1] /\ (Len(t) - a) + 1 \in 1 .. Len(t)
      BY <3>2, <1>2
    <3> QED BY <3>3 DEF Elements
  <2> QED BY <2>1, <2>2, <1>2
<1>4. Elements(s) \subseteq Elements(u)
  <2>1. /\ DOMAIN s = 1 .. Len(s) /\ DOMAIN u = 1 .. Len(u)
        /\ Len(s) \in Nat /\ Len(t) \in Nat
    BY <1>2
  <2>2. \A i \in 1 .. Len(s) : i \in 1 .. Len(u)
    BY <1>2, <2>1
  <2>3. \A i \in DOMAIN s : i \in DOMAIN u /\ u[i] = s[i]
    BY <1>2, <2>1, <2>2
  <2> QED BY <2>3, Zenon DEF Elements
<1>5. Elements(t) \subseteq Elements(u)
  <2> SUFFICES ASSUME NEW i \in 1 .. Len(t) PROVE t[i] \in Elements(u)
    BY DEF Elements
  <2> DEFINE a == (Len(t) - i) + 1
  <2>1. a \in 1 .. Len(t) /\ (Len(t) - a) + 1 = i
    OBVIOUS
  <2> HIDE DEF a
  <2>2. u[Len(s) + a] = t[i]
    BY <2>1, <1>2
  <2>3. Len(s) + a \in DOMAIN u
    BY <2>1, <1>2
  <2> QED BY <2>2, <2>3 DEF Elements
<1>6. OneToOne(u)
  <2>1. ASSUME NEW i \in 1 .. Len(u), NEW j \in 1 .. Len(u), i < j, u[i] = u[j]
        PROVE  FALSE
    <3>1. CASE j <= Len(s)
      <4>1. i \in DOMAIN s /\ j \in DOMAIN s /\ s[i] = s[j]
        BY <2>1, <3>1, <1>2
      <4> QED BY <2>1, <4>1 DEF OneToOne
    <3>2. CASE i > Len(s)
      <4> DEFINE a == i - Len(s)
                 b == j - Len(s)
      <4>1. a \in 1 .. Len(t) /\ b \in 1 .. Len(t) /\ i = Len(s) + a /\ j = Len(s) + b
        BY <2>1, <3>2, <1>2
      <4> HIDE DEF a, b
      <4>2. t[(Len(t) - a) + 1] = t[(Len(t) - b) + 1]
        BY <2>1, <4>1, <1>2
      <4> QED BY <2>1, <4>1, <4>2 DEF OneToOne
    <3>3. CASE i <= Len(s) /\ j > Len(s)
      <4> DEFINE b == j - Len(s)
      <4>1. b \in 1 .. Len(t) /\ j = Len(s) + b
        BY <3>3, <1>2
      <4> HIDE DEF b
      <4>2. s[i] = t[(Len(t) - b) + 1]
        BY <2>1, <3>3, <4>1, <1>2
      <4>3. s[i] \in Elements(s) /\ t[(Len(t) - b) + 1] \in Elements(t)
        BY <3>3, <4>1 DEF Elements
      <4> QED BY <4>2, <4>3
    <3> QED BY <2>1, <1>2, <3>1, <3>2, <3>3
  <2>2. DOMAIN u = 1 .. Len(u) /\ Len(u) \in Nat
    BY <1>2
  <2>3. \A i, j \in 1 .. Len(u) : i < j \/ j < i \/ i = j
    BY <2>2
  <2>4. \A i, j \in 1 .. Len(u) : u[i] = u[j] => i = j
    BY <2>1, <2>3
  <2> QED BY <2>2, <2>4 DEF OneToOne
<1> QED BY <1>2, <1>3, <1>4, <1>5, <1>6 DEF u, r
-----------------------------------------------------------------------------
(***************************************************************************)
(* Subtrees.                                                               *)
(***************************************************************************)
ClosedIn(h, S) == \A x \in S : Children(h, x) \subseteq S

\* A subtree is the least set that has its top and is closed under children.
LEMMA SubtreeLeast ==
  ASSUME NEW h \in Hierarchies, NEW n \in Item
  PROVE  /\ n \in Subtree(h, n) /\ Subtree(h, n) \subseteq Item
         /\ ClosedIn(h, Subtree(h, n))
         /\ \A S \in SUBSET Item : n \in S /\ ClosedIn(h, S) => Subtree(h, n) \subseteq S
<1>1. n \in Subtree(h, n) /\ Subtree(h, n) \subseteq Item
  BY DEF Subtree
<1>2. ASSUME NEW S \in SUBSET Item, n \in S, ClosedIn(h, S), NEW m \in Subtree(h, n)
      PROVE  m \in S
  <2> SUFFICES ASSUME m \notin S PROVE FALSE
    OBVIOUS
  <2>1. S \in SUBSET (Item \ {m})
    OBVIOUS
  <2>2. \E x \in S : ~(Children(h, x) \subseteq S)
    BY <1>2, <2>1 DEF Subtree
  <2> QED BY <1>2, <2>2 DEF ClosedIn
<1>3. ASSUME NEW x \in Subtree(h, n), NEW y \in Children(h, x)
      PROVE  y \in Subtree(h, n)
  <2>1. x \in Item /\ y \in Item
    BY <1>1 DEF Children, Hierarchies
  <2>2. ASSUME NEW S \in SUBSET (Item \ {y}), n \in S, ClosedIn(h, S) PROVE FALSE
    <3>1. x \in S
      BY <1>2, <2>2
    <3> QED BY <2>2, <3>1 DEF ClosedIn
  <2> QED BY <2>1, <2>2 DEF Subtree, ClosedIn
<1> QED BY <1>1, <1>2, <1>3 DEF ClosedIn

\* In a tree nothing is above its own parent: depths grow downwards.
LEMMA SubtreeInTree ==
  ASSUME NEW h, Tree(h), NEW n \in Item
  PROVE  /\ \A m \in Subtree(h, n) : m = n \/ h.depth[m] > h.depth[n]
         /\ \A m \in Subtree(h, n) \ {n} : h.parent[m] \in Subtree(h, n)
         /\ h.parent[n] \notin Subtree(h, n)
<1> USE NoneAssumption
<1>1. h \in Hierarchies /\ ParentHasChild(h) /\ DepthFromParent(h)
  BY DEF Tree, WellFormed
<1>2. \A m \in Item : h.depth[m] \in Nat /\ h.parent[m] \in Item \cup {None}
  BY <1>1 DEF Hierarchies
<1>3. \A x, y \in Item : y \in Children(h, x) =>
        h.parent[y] = x /\ h.depth[y] = h.depth[x] + 1
  BY <1>1 DEF ParentHasChild, DepthFromParent
<1>4. \A x \in Item : Children(h, x) \subseteq Item
  BY <1>1 DEF Children, Hierarchies
<1>5. \A m \in Subtree(h, n) : m = n \/ h.depth[m] > h.depth[n]
  <2> DEFINE S == {m \in Item : m = n \/ h.depth[m] > h.depth[n]}
  <2>1. ASSUME NEW x \in S, NEW y \in Children(h, x) PROVE y \in S
    BY <1>2, <1>3, <1>4
  <2>2. ClosedIn(h, S)
    BY <2>1 DEF ClosedIn
  <2> QED BY <2>2, <1>1, SubtreeLeast
<1>6. ASSUME NEW m \in Subtree(h, n), m # n, h.parent[m] \notin Subtree(h, n)
      PROVE  FALSE
  <2> DEFINE S == Subtree(h, n) \ {m}
  <2>1. ASSUME NEW x \in S, NEW y \in Children(h, x) PROVE y \in S
    <3>1. y \in Subtree(h, n) /\ x \in Item
      BY <1>1, SubtreeLeast DEF ClosedIn
    <3>2. h.parent[y] = x /\ y \in Item
      BY <3>1, <1>3, <1>4
    <3> QED BY <3>1, <3>2, <1>6
  <2>2. ClosedIn(h, S) /\ n \in S /\ S \in SUBSET Item
    BY <2>1, <1>1, <1>6, SubtreeLeast DEF ClosedIn
  <2>3. Subtree(h, n) \subseteq S
    BY <2>2, <1>1, SubtreeLeast
  <2> QED BY <2>3
<1>7. h.parent[n] \notin Subtree(h, n)
  <2>1. CASE h.parent[n] = None
    BY <2>1, <1>1, SubtreeLeast
  <2>2. CASE h.parent[n] \in Item
    <3>1. n \in Children(h, h.parent[n])
      BY <2>2, <1>1 DEF ParentHasChild
    <3>2. h.depth[n] = h.depth[h.parent[n]] + 1
      BY <3>1, <2>2, <1>3
    <3> QED BY <3>2, <2>2, <1>2, <1>5
  <2> QED BY <2>1, <2>2, <1>2
<1> QED BY <1>5, <1>6, <1>7

\* n goes below p: where p is, the subtree of n comes along.
LEMMA SubtreeMoves ==
  ASSUME NEW h, Tree(h), NEW g \in Hierarchies, NEW n \in Item, NEW p,
         p \notin Subtree(h, n),
         \A q \in Item : Children(g, q) = IF q = p THEN Children(h, q) \cup {n}
                                          ELSE Children(h, q) \ {n}
  PROVE  /\ Subtree(g, n) = Subtree(h, n)
         /\ \A r \in Item \ Subtree(h, n) :
              Subtree(g, r) = IF p \in Subtree(h, r)
                              THEN Subtree(h, r) \cup Subtree(h, n)
                              ELSE Subtree(h, r) \ Subtree(h, n)
<1>1. h \in Hierarchies
  BY DEF Tree
<1>2. \A x \in Item : /\ x \in Subtree(h, x) /\ Subtree(h, x) \subseteq Item
                      /\ ClosedIn(h, Subtree(h, x))
                      /\ x \in Subtree(g, x) /\ Subtree(g, x) \subseteq Item
                      /\ ClosedIn(g, Subtree(g, x))
  BY <1>1, SubtreeLeast
<1>3. \A x \in Item : \A S \in SUBSET Item :
        x \in S => /\ ClosedIn(h, S) => Subtree(h, x) \subseteq S
                   /\ ClosedIn(g, S) => Subtree(g, x) \subseteq S
  BY <1>1, SubtreeLeast
<1>4. Subtree(g, n) = Subtree(h, n)
  <2>1. ClosedIn(g, Subtree(h, n))
    BY <1>2 DEF ClosedIn
  <2>2. ClosedIn(h, Subtree(g, n))
    BY <1>2 DEF ClosedIn
  <2> QED BY <2>1, <2>2, <1>2, <1>3
<1>5. ASSUME NEW r \in Item, r \notin Subtree(h, n)
      PROVE  Subtree(g, r) = IF p \in Subtree(h, r)
                             THEN Subtree(h, r) \cup Subtree(h, n)
                             ELSE Subtree(h, r) \ Subtree(h, n)
  <2> DEFINE T == Subtree(g, r) \cup Subtree(h, n)
  <2>1. ClosedIn(h, T) /\ T \in SUBSET Item
    BY <1>2 DEF ClosedIn
  <2>2. Subtree(h, r) \subseteq T
    BY <2>1, <1>2, <1>3
  <2>3. CASE p \in Subtree(h, r)
    <3>1. ClosedIn(g, Subtree(h, r) \cup Subtree(h, n))
      BY <1>2 DEF ClosedIn
    <3>2. Subtree(g, r) \subseteq Subtree(h, r) \cup Subtree(h, n)
      BY <3>1, <1>2, <1>3
    <3>3. p \in Subtree(g, r) /\ p \in Item
      BY <2>2, <2>3, <1>2
    <3>4. n \in Subtree(g, r)
      BY <3>3, <1>2 DEF ClosedIn
    <3>5. Subtree(g, n) \subseteq Subtree(g, r)
      BY <3>4, <1>2, <1>3
    <3> QED BY <2>2, <2>3, <3>2, <3>5, <1>4
  <2>4. CASE p \notin Subtree(h, r)
    <3> DEFINE R == Subtree(h, r) \ Subtree(h, n)
    <3>1. ASSUME NEW x \in R, NEW y \in Children(g, x) PROVE y \in R
      <4>1. x \in Item /\ x # p
        BY <2>4, <1>2
      <4>2. y \in Children(h, x) /\ y # n
        BY <4>1
      <4>3. y \in Subtree(h, r)
        BY <4>2, <1>2 DEF ClosedIn
      <4>4. y \in Item /\ h.parent[y] = x
        BY <4>1, <4>2, <4>3, <1>2 DEF Tree, WellFormed, ParentHasChild
      <4>5. y \notin Subtree(h, n)
        BY <4>2, <4>4, SubtreeInTree
      <4> QED BY <4>3, <4>5
    <3>2. ClosedIn(g, R) /\ r \in R /\ R \in SUBSET Item
      BY <3>1, <1>2, <1>5 DEF ClosedIn
    <3>3. Subtree(g, r) \subseteq R
      BY <3>2, <1>3
    <3> QED BY <2>2, <2>4, <3>3
  <2> QED BY <2>3, <2>4
<1> QED BY <1>4, <1>5

\* n is taken out and its parent p gets its children: only n leaves a subtree.
LEMMA SubtreeLoses ==
  ASSUME NEW h, Tree(h), NEW g \in Hierarchies, NEW n \in Item,
         \A q \in Item : Children(g, q) =
           IF q = n THEN {}
           ELSE IF q = h.parent[n] THEN (Children(h, q) \ {n}) \cup Children(h, n)
           ELSE Children(h, q)
  PROVE  /\ Subtree(g, n) = {n}
         /\ \A r \in Item \ {n} : Subtree(g, r) = Subtree(h, r) \ {n}
<1> DEFINE p == h.parent[n]
<1>1. h \in Hierarchies
  BY DEF Tree
<1>2. \A x \in Item : /\ x \in Subtree(h, x) /\ Subtree(h, x) \subseteq Item
                      /\ ClosedIn(h, Subtree(h, x))
                      /\ x \in Subtree(g, x) /\ Subtree(g, x) \subseteq Item
                      /\ ClosedIn(g, Subtree(g, x))
  BY <1>1, SubtreeLeast
<1>3. \A x \in Item : \A S \in SUBSET Item :
        x \in S => /\ ClosedIn(h, S) => Subtree(h, x) \subseteq S
                   /\ ClosedIn(g, S) => Subtree(g, x) \subseteq S
  BY <1>1, SubtreeLeast
<1>4. /\ p # n /\ n \notin Children(h, n)
      /\ \A q \in Item : n \in Children(h, q) => q = p
  BY <1>1, <1>2, SubtreeInTree DEF Tree, WellFormed, ParentHasChild
<1>5. Subtree(g, n) = {n}
  <2>1. ClosedIn(g, {n})
    BY DEF ClosedIn
  <2> QED BY <2>1, <1>2, <1>3
<1>6. ASSUME NEW r \in Item, r # n
      PROVE  Subtree(g, r) = Subtree(h, r) \ {n}
  <2> DEFINE R == Subtree(h, r) \ {n}
  <2>1. ASSUME NEW x \in R, NEW y \in Children(g, x) PROVE y \in R
    <3>1. x \in Item /\ x \in Subtree(h, r) /\ x # n
      BY <1>2
    <3>2. CASE x = p
      <4>1. n \in Children(h, x)
        BY <3>1, <3>2 DEF Tree, WellFormed, ParentHasChild
      <4>2. n \in Subtree(h, r)
        BY <3>1, <4>1, <1>2, <1>6 DEF ClosedIn
      <4>3. Children(h, n) \subseteq Subtree(h, r) /\ Children(h, x) \subseteq Subtree(h, r)
        BY <3>1, <4>2, <1>2, <1>6 DEF ClosedIn
      <4>4. y \in (Children(h, x) \ {n}) \cup Children(h, n)
        BY <3>1, <3>2
      <4> QED BY <4>3, <4>4, <1>4
    <3>3. CASE x # p
      <4>1. y \in Children(h, x)
        BY <3>1, <3>3
      <4> QED BY <3>1, <3>3, <4>1, <1>2, <1>4, <1>6 DEF ClosedIn
    <3> QED BY <3>2, <3>3
  <2>2. ClosedIn(g, R) /\ r \in R /\ R \in SUBSET Item
    BY <2>1, <1>2, <1>6 DEF ClosedIn
  <2>3. Subtree(g, r) \subseteq R
    BY <2>2, <1>3
  <2>4. CASE p \in Subtree(g, r)
    <3> DEFINE T == Subtree(g, r) \cup {n}
    <3>1. p \in Item
      BY <2>4, <1>2
    <3>2. Children(h, n) \subseteq T
      BY <2>4, <3>1, <1>2, <1>4 DEF ClosedIn
    <3>3. ASSUME NEW x \in Subtree(g, r) PROVE Children(h, x) \subseteq T
      <4>1. x \in Item /\ x # n /\ Children(g, x) \subseteq Subtree(g, r)
        BY <2>3, <1>2 DEF ClosedIn
      <4>2. Children(h, x) \subseteq Children(g, x) \cup {n}
        BY <4>1
      <4> QED BY <4>1, <4>2
    <3>4. ClosedIn(h, T) /\ r \in T /\ T \in SUBSET Item
      BY <3>2, <3>3, <1>2 DEF ClosedIn
    <3>5. Subtree(h, r) \subseteq T
      BY <3>4, <1>3
    <3> QED BY <2>3, <3>5
  <2>5. CASE p \notin Subtree(g, r)
    <3>1. ASSUME NEW x \in Subtree(g, r) PROVE Children(h, x) \subseteq Subtree(g, r)
      <4>1. x \in Item /\ x # n /\ x # p /\ Children(g, x) \subseteq Subtree(g, r)
        BY <2>3, <2>5, <1>2 DEF ClosedIn
      <4> QED BY <4>1
    <3>2. ClosedIn(h, Subtree(g, r))
      BY <3>1 DEF ClosedIn
    <3>3. Subtree(h, r) \subseteq Subtree(g, r)
      BY <3>2, <1>2, <1>3
    <3> QED BY <2>3, <3>3
  <2> QED BY <2>4, <2>5
<1> QED BY <1>5, <1>6

\* The subtree of n is taken apart: the others lose what was in it.
LEMMA SubtreeDissolves ==
  ASSUME NEW h, Tree(h), NEW g \in Hierarchies, NEW n \in Item,
         \A q \in Item : Children(g, q) = IF q \in Subtree(h, n) THEN {}
                                          ELSE Children(h, q) \ {n}
  PROVE  /\ \A r \in Subtree(h, n) : Subtree(g, r) = {r}
         /\ \A r \in Item \ Subtree(h, n) :
              Subtree(g, r) = Subtree(h, r) \ Subtree(h, n)
<1>1. h \in Hierarchies
  BY DEF Tree
<1>2. \A x \in Item : /\ x \in Subtree(h, x) /\ Subtree(h, x) \subseteq Item
                      /\ ClosedIn(h, Subtree(h, x))
                      /\ x \in Subtree(g, x) /\ Subtree(g, x) \subseteq Item
                      /\ ClosedIn(g, Subtree(g, x))
  BY <1>1, SubtreeLeast
<1>3. \A x \in Item : \A S \in SUBSET Item :
        x \in S => /\ ClosedIn(h, S) => Subtree(h, x) \subseteq S
                   /\ ClosedIn(g, S) => Subtree(g, x) \subseteq S
  BY <1>1, SubtreeLeast
<1>4. ASSUME NEW r \in Subtree(h, n) PROVE Subtree(g, r) = {r}
  <2>1. r \in Item /\ Children(g, r) = {}
    BY <1>2
  <2>2. ClosedIn(g, {r})
    BY <2>1 DEF ClosedIn
  <2> QED BY <2>1, <2>2, <1>2, <1>3
<1>5. ASSUME NEW r \in Item, r \notin Subtree(h, n)
      PROVE  Subtree(g, r) = Subtree(h, r) \ Subtree(h, n)
  <2> DEFINE R == Subtree(h, r) \ Subtree(h, n)
             T == Subtree(g, r) \cup Subtree(h, n)
  <2>1. ASSUME NEW x \in R, NEW y \in Children(g, x) PROVE y \in R
    <3>1. x \in Item /\ x \in Subtree(h, r) /\ x \notin Subtree(h, n)
      BY <1>2
    <3>2. y \in Children(h, x) /\ y # n
      BY <3>1
    <3>3. y \in Subtree(h, r) /\ y \in Item
      BY <3>1, <3>2, <1>2 DEF ClosedIn
    <3>4. h.parent[y] = x
      BY <3>1, <3>2, <3>3 DEF Tree, WellFormed, ParentHasChild
    <3>5. y \notin Subtree(h, n)
      BY <3>1, <3>2, <3>4, SubtreeInTree
    <3> QED BY <3>3, <3>5
  <2>2. ClosedIn(g, R) /\ r \in R /\ R \in SUBSET Item
    BY <2>1, <1>2, <1>5 DEF ClosedIn
  <2>3. Subtree(g, r) \subseteq R
    BY <2>2, <1>3
  <2>4. ASSUME NEW x \in T PROVE Children(h, x) \subseteq T
    <3>1. CASE x \in Subtree(h, n)
      BY <3>1, <1>2 DEF ClosedIn
    <3>2. CASE x \notin Subtree(h, n)
      <4>1. x \in Item /\ Children(g, x) \subseteq Subtree(g, r)
        BY <3>2, <1>2 DEF ClosedIn
      <4>2. Children(h, x) \subseteq Children(g, x) \cup {n}
        BY <3>2, <4>1
      <4> QED BY <4>1, <4>2, <1>2
    <3> QED BY <3>1, <3>2
  <2>5. ClosedIn(h, T) /\ r \in T /\ T \in SUBSET Item
    BY <2>4, <1>2 DEF ClosedIn
  <2>6. Subtree(h, r) \subseteq T
    BY <2>5, <1>3
  <2> QED BY <2>3, <2>6
<1> QED BY <1>4, <1>5
-----------------------------------------------------------------------------
(***************************************************************************)
(* The operations.                                                         *)
(***************************************************************************)

\* The links after set_parent: the two lists have changed as they should.
LEMMA RelinkFacts ==
  ASSUME NEW h, Tree(h), NEW n \in Item, NEW p \in Item \cup {None},
         NEW position \in Nat, h.parent[n] # p
  PROVE  LET g == Relink(h, n, p, position) IN
         /\ g \in Hierarchies /\ ChildOnce(g) /\ ParentHasChild(g)
         /\ g.parent = [h.parent EXCEPT ![n] = p] /\ g.depth = h.depth
         /\ \A q \in Item : Children(g, q) = IF q = p THEN Children(h, q) \cup {n}
                                             ELSE Children(h, q) \ {n}
<1> USE NoneAssumption
<1> DEFINE g == Relink(h, n, p, position)
<1>1. /\ h.parent \in [Item -> Item \cup {None}] /\ h.depth \in [Item -> Nat]
      /\ h.children \in [Item -> Seq(Item)]
  BY DEF Tree, Hierarchies
<1>2. \A q \in Item : OneToOne(h.children[q])
  BY DEF Tree, WellFormed, ChildOnce, OneToOne
<1>3. \A m, q \in Item : h.parent[m] = q <=> m \in Elements(h.children[q])
  BY DEF Tree, WellFormed, ParentHasChild, Children, Elements
<1>4. ASSUME NEW q \in Item
      PROVE  /\ g.children[q] \in Seq(Item) /\ OneToOne(g.children[q])
             /\ Elements(g.children[q]) = IF q = p THEN Elements(h.children[q]) \cup {n}
                                          ELSE Elements(h.children[q]) \ {n}
  <2>1. g.children[q] = IF q = p THEN With(h.children[q], position, n)
                        ELSE IF q = h.parent[n] THEN Without(h.children[q], n)
                        ELSE h.children[q]
    BY <1>1 DEF Relink, Tree, Hierarchies
  <2>2. CASE q = p
    <3>1. n \notin Elements(h.children[q])
      BY <1>3, <2>2
    <3>2. g.children[q] = With(h.children[q], position, n)
      BY <2>1, <2>2
    <3>3. h.children[q] \in Seq(Item) /\ OneToOne(h.children[q])
      BY <1>1, <1>2
    <3> HIDE DEF g
    <3> QED BY <2>2, <3>1, <3>2, <3>3, WithFacts
  <2>3. CASE q # p /\ q = h.parent[n]
    <3>1. g.children[q] = Without(h.children[q], n)
      BY <2>1, <2>3
    <3>2. h.children[q] \in Seq(Item) /\ OneToOne(h.children[q])
      BY <1>1, <1>2
    <3> HIDE DEF g
    <3>3. /\ Without(h.children[q], n) \in Seq(Item)
          /\ Elements(Without(h.children[q], n)) = Elements(h.children[q]) \ {n}
          /\ OneToOne(Without(h.children[q], n))
      BY <3>2, WithoutFacts
    <3> QED BY <2>3, <3>1, <3>3
  <2>4. CASE q # p /\ q # h.parent[n]
    <3>1. g.children[q] = h.children[q]
      BY <2>1, <2>4
    <3>2. n \notin Elements(h.children[q])
      BY <1>3, <2>4
    <3>3. h.children[q] \in Seq(Item) /\ OneToOne(h.children[q])
      BY <1>1, <1>2
    <3>4. Elements(h.children[q]) \ {n} = Elements(h.children[q])
      BY <3>2
    <3> HIDE DEF g
    <3> QED BY <2>4, <3>1, <3>3, <3>4
  <2> QED BY <2>2, <2>3, <2>4
<1>5. g.parent = [h.parent EXCEPT ![n] = p] /\ g.depth = h.depth
  BY DEF Relink, Tree, Hierarchies
<1>6. g \in Hierarchies
  <2>1. g.children = [m \in Item |-> g.children[m]]
    BY DEF Relink, Tree, Hierarchies
  <2>2. g.children \in [Item -> Seq(Item)]
    BY <1>4, <2>1
  <2>3. g = [h EXCEPT !.parent = g.parent, !.children = g.children]
    BY DEF Relink, Tree, Hierarchies
  <2>4. g.parent \in [Item -> Item \cup {None}]
    BY <1>1, <1>5
  <2>5. h \in Hierarchies
    BY DEF Tree
  <2> HIDE DEF g
  <2> QED BY <2>2, <2>3, <2>4, <2>5 DEF Hierarchies
<1> HIDE DEF g
<1>7. \A q \in Item : Children(g, q) = IF q = p THEN Children(h, q) \cup {n}
                                       ELSE Children(h, q) \ {n}
  BY <1>4 DEF Children, Elements
<1>8. ChildOnce(g)
  BY <1>4 DEF ChildOnce, OneToOne
<1>9. ParentHasChild(g)
  <2>1. \A m, q \in Item : h.parent[m] = q <=> m \in Children(h, q)
    BY DEF Tree, WellFormed, ParentHasChild
  <2> QED BY <2>1, <1>1, <1>5, <1>7 DEF ParentHasChild
<1> QED BY <1>5, <1>6, <1>7, <1>8, <1>9 DEF g

\* set_parent keeps a tree a tree, and moves the subtree of the item.
LEMMA SetParentTree ==
  ASSUME NEW h, Tree(h), NEW n \in Item, NEW p \in Item \cup {None},
         NEW position \in Nat, p \notin Subtree(h, n)
  PROVE  LET g == SetParent(h, n, p, position) IN
         /\ Tree(g)
         /\ g.parent = [h.parent EXCEPT ![n] = p]
         /\ Subtree(g, n) = Subtree(h, n)
         /\ \A r \in Item \ Subtree(h, n) :
              Subtree(g, r) = IF p \in Subtree(h, r)
                              THEN Subtree(h, r) \cup Subtree(h, n)
                              ELSE Subtree(h, r) \ Subtree(h, n)
<1> USE NoneAssumption
<1> DEFINE S == Subtree(h, n)
           f == Relink(h, n, p, position)
           d == IF p = None THEN 0 ELSE h.depth[p] + 1
           g == SetParent(h, n, p, position)
<1>1. /\ h \in Hierarchies /\ h.parent \in [Item -> Item \cup {None}]
      /\ h.depth \in [Item -> Nat]
  BY DEF Tree, Hierarchies
<1>2. /\ \A m, q \in Item : h.parent[m] = q <=> m \in Children(h, q)
      /\ \A m \in Item :
           h.depth[m] = IF h.parent[m] = None THEN 0 ELSE h.depth[h.parent[m]] + 1
  BY DEF Tree, WellFormed, ParentHasChild, DepthFromParent
<1>3. CASE h.parent[n] = p
  <2>1. g = h
    BY <1>3 DEF SetParent
  <2>2. h.parent = [h.parent EXCEPT ![n] = p]
    BY <1>1, <1>3
  <2>3. \A q \in Item : Children(h, q) = IF q = p THEN Children(h, q) \cup {n}
                                         ELSE Children(h, q) \ {n}
    BY <1>2, <1>3
  <2> HIDE DEF g
  <2> QED BY <1>1, <2>1, <2>2, <2>3, SubtreeMoves DEF g
<1>4. CASE h.parent[n] # p
  <2>1. /\ f \in Hierarchies /\ ChildOnce(f) /\ ParentHasChild(f)
        /\ f.parent = [h.parent EXCEPT ![n] = p] /\ f.depth = h.depth
        /\ \A q \in Item : Children(f, q) = IF q = p THEN Children(h, q) \cup {n}
                                            ELSE Children(h, q) \ {n}
    BY <1>4, RelinkFacts
  <2>2. g = WithDepth(f, n, d)
    BY <1>4 DEF SetParent
  <2> HIDE DEF f, g
  <2>3. Subtree(f, n) = S
    BY <2>1, SubtreeMoves
  <2>4. /\ g.parent = f.parent /\ g.children = f.children
        /\ g.depth = [m \in Item |-> IF m \in S THEN (h.depth[m] + d) - h.depth[n]
                                     ELSE h.depth[m]]
        /\ g = [parent |-> g.parent, children |-> g.children, depth |-> g.depth]
    BY <2>1, <2>2, <2>3 DEF WithDepth, Hierarchies
  <2>5. d \in Nat
    BY <1>1
  <2>6. /\ \A m \in S : m \in Item /\ (m = n \/ h.depth[m] > h.depth[n])
        /\ \A m \in S \ {n} : h.parent[m] \in S
        /\ n \in S /\ S \subseteq Item /\ ClosedIn(h, S)
    BY <1>1, SubtreeInTree, SubtreeLeast
  <2>7. g \in Hierarchies
    <3>1. \A m \in Item : (IF m \in S THEN (h.depth[m] + d) - h.depth[n]
                           ELSE h.depth[m]) \in Nat
      BY <1>1, <2>5, <2>6
    <3>2. g.depth \in [Item -> Nat]
      BY <2>4, <3>1
    <3>3. f.parent \in [Item -> Item \cup {None}] /\ f.children \in [Item -> Seq(Item)]
      BY <2>1 DEF Hierarchies
    <3> QED BY <2>4, <3>2, <3>3 DEF Hierarchies
  <2>8. \A q \in Item : Children(g, q) = Children(f, q)
    BY <2>4 DEF Children
  <2>9. ParentHasChild(g) /\ ChildOnce(g)
    BY <2>1, <2>4, <2>8 DEF ParentHasChild, ChildOnce
  <2>10. DepthFromParent(g)
    <3> SUFFICES ASSUME NEW m \in Item
                 PROVE  g.depth[m] = IF g.parent[m] = None THEN 0
                                     ELSE g.depth[g.parent[m]] + 1
      BY DEF DepthFromParent
    <3>0. /\ g.parent[m] = IF m = n THEN p ELSE h.parent[m]
          /\ g.depth[m] = IF m \in S THEN (h.depth[m] + d) - h.depth[n] ELSE h.depth[m]
      BY <1>1, <2>1, <2>4
    <3>1. CASE m = n
      <4>1. g.depth[m] = d
        BY <3>0, <3>1, <1>1, <2>5, <2>6
      <4>2. p # None => g.depth[p] = h.depth[p]
        BY <2>4
      <4> QED BY <3>0, <3>1, <4>1, <4>2
    <3>2. CASE m \in S \ {n}
      <4> DEFINE q == h.parent[m]
      <4>1. q \in S /\ q \in Item /\ q # None /\ g.parent[m] = q
        BY <2>6, <3>0, <3>2
      <4>2. h.depth[m] = h.depth[q] + 1
        BY <1>2, <4>1
      <4>3. g.depth[q] = (h.depth[q] + d) - h.depth[n]
        BY <2>4, <4>1
      <4>4. h.depth[q] \in Nat /\ h.depth[n] \in Nat
        BY <1>1, <4>1
      <4> HIDE DEF q, d
      <4>5. (h.depth[m] + d) - h.depth[n] = ((h.depth[q] + d) - h.depth[n]) + 1
        BY <4>2, <4>4, <2>5
      <4> QED BY <3>0, <3>2, <4>1, <4>3, <4>5
    <3>3. CASE m \notin S
      <4>1. h.parent[m] \notin S
        <5> SUFFICES ASSUME h.parent[m] \in S PROVE FALSE
          OBVIOUS
        <5>1. m \in Children(h, h.parent[m])
          BY <1>2, <2>6
        <5> QED BY <5>1, <2>6, <3>3 DEF ClosedIn
      <4>2. h.parent[m] # None => g.depth[h.parent[m]] = h.depth[h.parent[m]]
        BY <1>1, <2>4, <4>1
      <4> QED BY <1>2, <2>6, <3>0, <3>3, <4>2
    <3> QED BY <3>1, <3>2, <3>3
  <2>11. Tree(g)
    BY <2>7, <2>9, <2>10 DEF Tree, WellFormed
  <2>12. \A q \in Item : Children(g, q) = IF q = p THEN Children(h, q) \cup {n}
                                          ELSE Children(h, q) \ {n}
    BY <2>1, <2>8
  <2> QED BY <2>1, <2>4, <2>7, <2>11, <2>12, SubtreeMoves DEF g
<1> QED BY <1>3, <1>4

\* remove keeps a tree a tree; the item leaves, and takes nothing with it.
LEMMA RemoveItemTree ==
  ASSUME NEW h, Tree(h), NEW n \in Item
  PROVE  LET g == RemoveItem(h, n) IN
         /\ Tree(g)
         /\ g.parent = [m \in Item |-> IF m = n THEN None
                                       ELSE IF h.parent[m] = n THEN h.parent[n]
                                       ELSE h.parent[m]]
         /\ Subtree(g, n) = {n}
         /\ \A r \in Item \ {n} : Subtree(g, r) = Subtree(h, r) \ {n}
<1> USE NoneAssumption
<1> DEFINE p == h.parent[n]
           S == Subtree(h, n)
           g == RemoveItem(h, n)
<1>1. /\ h \in Hierarchies /\ h.parent \in [Item -> Item \cup {None}]
      /\ h.depth \in [Item -> Nat] /\ h.children \in [Item -> Seq(Item)]
  BY DEF Tree, Hierarchies
<1>2. /\ \A m, q \in Item : h.parent[m] = q <=> m \in Elements(h.children[q])
      /\ \A m \in Item :
           h.depth[m] = IF h.parent[m] = None THEN 0 ELSE h.depth[h.parent[m]] + 1
      /\ \A q \in Item : OneToOne(h.children[q])
  BY DEF Tree, WellFormed, ParentHasChild, DepthFromParent, ChildOnce, OneToOne,
         Children, Elements
<1>3. /\ \A m \in S : m \in Item /\ (m = n \/ h.depth[m] > h.depth[n])
      /\ \A m \in S \ {n} : h.parent[m] \in S
      /\ n \in S /\ S \subseteq Item /\ ClosedIn(h, S)
      /\ p \notin S /\ p # n
  BY <1>1, SubtreeInTree, SubtreeLeast
<1>4. /\ g.parent = [m \in Item |-> IF m = n THEN None
                                    ELSE IF h.parent[m] = n THEN p
                                    ELSE h.parent[m]]
      /\ g.children = [m \in Item |-> IF m = n THEN <<>>
                                      ELSE IF m = p
                                      THEN Without(h.children[m], n)
                                             \o Reverse(h.children[n])
                                      ELSE h.children[m]]
      /\ g.depth = [m \in Item |-> IF m = n THEN 0
                                   ELSE IF m \in S \ {n} THEN h.depth[m] - 1
                                   ELSE h.depth[m]]
      /\ g = [parent |-> g.parent, children |-> g.children, depth |-> g.depth]
  BY DEF RemoveItem
<1> HIDE DEF g
<1>5. ASSUME NEW q \in Item
      PROVE  /\ g.children[q] \in Seq(Item) /\ OneToOne(g.children[q])
             /\ Elements(g.children[q]) =
                  IF q = n THEN {}
                  ELSE IF q = p
                  THEN (Elements(h.children[q]) \ {n}) \cup Elements(h.children[n])
                  ELSE Elements(h.children[q])
  <2>1. CASE q = n
    <3>1. g.children[q] = <<>>
      BY <1>4, <2>1
    <3> QED BY <2>1, <3>1 DEF Elements, OneToOne
  <2>2. CASE q # n /\ q = p
    <3> DEFINE s == Without(h.children[q], n)
               t == h.children[n]
    <3>1. g.children[q] = s \o Reverse(t)
      BY <1>4, <2>2
    <3>2. h.children[q] \in Seq(Item) /\ OneToOne(h.children[q])
          /\ t \in Seq(Item) /\ OneToOne(t)
      BY <1>1, <1>2
    <3>3. /\ s \in Seq(Item) /\ Elements(s) = Elements(h.children[q]) \ {n}
          /\ OneToOne(s)
      BY <3>2, WithoutFacts
    <3>4. \A m : m \in Elements(h.children[q]) /\ m \in Elements(t) => FALSE
      <4>1. \A m \in Elements(t) : m \in Item
        BY <3>2 DEF Elements
      <4> QED BY <4>1, <1>2, <2>2
    <3>5. Elements(s) \cap Elements(t) = {}
      BY <3>3, <3>4
    <3> HIDE DEF s, t
    <3>6. /\ s \o Reverse(t) \in Seq(Item)
          /\ Elements(s \o Reverse(t)) = Elements(s) \cup Elements(t)
          /\ OneToOne(s \o Reverse(t))
      BY <3>2, <3>3, <3>5, HandedOver
    <3> QED BY <2>2, <3>1, <3>3, <3>6 DEF t
  <2>3. CASE q # n /\ q # p
    <3>1. g.children[q] = h.children[q]
      BY <1>4, <2>3
    <3> QED BY <2>3, <3>1, <1>1, <1>2
  <2> QED BY <2>1, <2>2, <2>3
<1>6. g \in Hierarchies
  <2>1. g.children \in [Item -> Seq(Item)]
    BY <1>4, <1>5
  <2>2. g.parent \in [Item -> Item \cup {None}]
    BY <1>1, <1>4
  <2>3. \A m \in Item : (IF m = n THEN 0
                         ELSE IF m \in S \ {n} THEN h.depth[m] - 1
                         ELSE h.depth[m]) \in Nat
    BY <1>1, <1>3
  <2>4. g.depth \in [Item -> Nat]
    BY <1>4, <2>3
  <2> QED BY <1>4, <2>1, <2>2, <2>4 DEF Hierarchies
<1>7. \A q \in Item : Children(g, q) =
           IF q = n THEN {}
           ELSE IF q = p THEN (Children(h, q) \ {n}) \cup Children(h, n)
           ELSE Children(h, q)
  BY <1>5 DEF Children, Elements
<1>8. ChildOnce(g)
  BY <1>5 DEF ChildOnce, OneToOne
<1>9. ParentHasChild(g)
  <2> SUFFICES ASSUME NEW m \in Item, NEW q \in Item
               PROVE  g.parent[m] = q <=> m \in Children(g, q)
    BY DEF ParentHasChild
  <2>1. \A x, y \in Item : h.parent[x] = y <=> x \in Children(h, y)
    BY DEF Tree, WellFormed, ParentHasChild
  <2>2. g.parent[m] = IF m = n THEN None ELSE IF h.parent[m] = n THEN p
                      ELSE h.parent[m]
    BY <1>4
  <2>3. Children(g, q) = IF q = n THEN {}
                         ELSE IF q = p THEN (Children(h, q) \ {n}) \cup Children(h, n)
                         ELSE Children(h, q)
    BY <1>7
  <2>4. n \in Children(h, q) => q = p
    BY <2>1
  <2> QED BY <2>1, <2>2, <2>3, <2>4, <1>3
<1>10. DepthFromParent(g)
  <2> SUFFICES ASSUME NEW m \in Item
               PROVE  g.depth[m] = IF g.parent[m] = None THEN 0
                                   ELSE g.depth[g.parent[m]] + 1
    BY DEF DepthFromParent
  <2>0. /\ g.parent[m] = IF m = n THEN None ELSE IF h.parent[m] = n THEN p
                         ELSE h.parent[m]
        /\ \A x \in Item : g.depth[x] = IF x = n THEN 0
                                        ELSE IF x \in S \ {n} THEN h.depth[x] - 1
                                        ELSE h.depth[x]
        /\ \A x \in Item : h.depth[x] \in Nat
    BY <1>1, <1>4
  <2>1. CASE m = n
    BY <2>0, <2>1
  <2>2. CASE m # n /\ h.parent[m] = n
    <3>1. m \in S
      <4>1. m \in Children(h, n)
        BY <2>2 DEF Tree, WellFormed, ParentHasChild
      <4> QED BY <4>1, <1>3 DEF ClosedIn
    <3>2. g.depth[m] = h.depth[n]
      BY <2>0, <2>2, <3>1, <1>2
    <3>3. p # None => p \in Item /\ g.depth[p] = h.depth[p]
      BY <2>0, <1>1, <1>3
    <3> QED BY <2>0, <2>2, <3>2, <3>3, <1>2
  <2>3. CASE m \in S \ {n} /\ h.parent[m] # n
    <3> DEFINE q == h.parent[m]
    <3>1. q \in S \ {n} /\ q \in Item /\ q # None /\ g.parent[m] = q
      BY <2>0, <2>3, <1>3
    <3>2. h.depth[m] = h.depth[q] + 1
      BY <1>2, <3>1
    <3>3. g.depth[q] = h.depth[q] - 1 /\ g.depth[m] = h.depth[m] - 1
      BY <2>0, <2>3, <3>1
    <3> HIDE DEF q
    <3> QED BY <2>0, <3>1, <3>2, <3>3
  <2>4. CASE m \notin S
    <3>1. h.parent[m] \notin S
      <4> SUFFICES ASSUME h.parent[m] \in S PROVE FALSE
        OBVIOUS
      <4>1. m \in Children(h, h.parent[m])
        BY <1>3 DEF Tree, WellFormed, ParentHasChild
      <4> QED BY <4>1, <1>3, <2>4 DEF ClosedIn
    <3>2. g.depth[m] = h.depth[m] /\ g.parent[m] = h.parent[m]
      BY <2>0, <2>4, <3>1, <1>3
    <3>3. h.parent[m] # None => g.depth[h.parent[m]] = h.depth[h.parent[m]]
      BY <2>0, <3>1, <1>1, <1>3
    <3> QED BY <3>2, <3>3, <1>2
  <2> QED BY <2>1, <2>2, <2>3, <2>4
<1>11. Tree(g)
  BY <1>6, <1>8, <1>9, <1>10 DEF Tree, WellFormed
<1> QED BY <1>4, <1>6, <1>7, <1>11, SubtreeLoses DEF g

\* recursive_remove keeps a tree a tree; its items end up on their own.
LEMMA RecursiveRemoveTree ==
  ASSUME NEW h, Tree(h), NEW n \in Item
  PROVE  LET g == RecursiveRemove(h, n) IN
         /\ Tree(g)
         /\ g.parent = [m \in Item |-> IF m \in Subtree(h, n) THEN None
                                       ELSE h.parent[m]]
         /\ \A r \in Subtree(h, n) : Subtree(g, r) = {r}
         /\ \A r \in Item \ Subtree(h, n) :
              Subtree(g, r) = Subtree(h, r) \ Subtree(h, n)
<1> USE NoneAssumption
<1> DEFINE S == Subtree(h, n)
           g == RecursiveRemove(h, n)
<1>1. /\ h \in Hierarchies /\ h.parent \in [Item -> Item \cup {None}]
      /\ h.depth \in [Item -> Nat] /\ h.children \in [Item -> Seq(Item)]
  BY DEF Tree, Hierarchies
<1>2. /\ \A m, q \in Item : h.parent[m] = q <=> m \in Elements(h.children[q])
      /\ \A m \in Item :
           h.depth[m] = IF h.parent[m] = None THEN 0 ELSE h.depth[h.parent[m]] + 1
      /\ \A q \in Item : OneToOne(h.children[q])
  BY DEF Tree, WellFormed, ParentHasChild, DepthFromParent, ChildOnce, OneToOne,
         Children, Elements
<1>3. /\ \A m \in S \ {n} : h.parent[m] \in S
      /\ n \in S /\ S \subseteq Item /\ ClosedIn(h, S)
      /\ h.parent[n] \notin S
  BY <1>1, SubtreeInTree, SubtreeLeast
<1>4. /\ g.parent = [m \in Item |-> IF m \in S THEN None ELSE h.parent[m]]
      /\ g.children = [m \in Item |-> IF m \in S THEN <<>>
                                      ELSE IF m = h.parent[n]
                                      THEN Without(h.children[m], n)
                                      ELSE h.children[m]]
      /\ g.depth = [m \in Item |-> IF m \in S THEN 0 ELSE h.depth[m]]
      /\ g = [parent |-> g.parent, children |-> g.children, depth |-> g.depth]
  BY DEF RecursiveRemove
<1> HIDE DEF g
<1>5. ASSUME NEW q \in Item
      PROVE  /\ g.children[q] \in Seq(Item) /\ OneToOne(g.children[q])
             /\ Elements(g.children[q]) = IF q \in S THEN {}
                                          ELSE Elements(h.children[q]) \ {n}
  <2>0. h.children[q] \in Seq(Item) /\ OneToOne(h.children[q])
    BY <1>1, <1>2
  <2>1. CASE q \in S
    <3>1. g.children[q] = <<>>
      BY <1>4, <2>1
    <3> QED BY <2>1, <3>1 DEF Elements, OneToOne
  <2>2. CASE q \notin S /\ q = h.parent[n]
    <3>1. g.children[q] = Without(h.children[q], n)
      BY <1>4, <2>2
    <3>2. /\ Without(h.children[q], n) \in Seq(Item)
          /\ Elements(Without(h.children[q], n)) = Elements(h.children[q]) \ {n}
          /\ OneToOne(Without(h.children[q], n))
      BY <2>0, WithoutFacts
    <3> QED BY <2>2, <3>1, <3>2
  <2>3. CASE q \notin S /\ q # h.parent[n]
    <3>1. g.children[q] = h.children[q]
      BY <1>4, <2>3
    <3>2. n \notin Elements(h.children[q])
      BY <1>2, <2>3
    <3>3. Elements(h.children[q]) \ {n} = Elements(h.children[q])
      BY <3>2
    <3> QED BY <2>0, <2>3, <3>1, <3>3
  <2> QED BY <2>1, <2>2, <2>3
<1>6. g \in Hierarchies
  <2>1. g.children \in [Item -> Seq(Item)]
    BY <1>4, <1>5
  <2>2. g.parent \in [Item -> Item \cup {None}] /\ g.depth \in [Item -> Nat]
    BY <1>1, <1>4
  <2> QED BY <1>4, <2>1, <2>2 DEF Hierarchies
<1>7. \A q \in Item : Children(g, q) = IF q \in S THEN {} ELSE Children(h, q) \ {n}
  BY <1>5 DEF Children, Elements
<1>8. ChildOnce(g)
  BY <1>5 DEF ChildOnce, OneToOne
<1>9. \A m \in Item \ S : h.parent[m] \notin S
  <2> SUFFICES ASSUME NEW m \in Item \ S, h.parent[m] \in S PROVE FALSE
    OBVIOUS
  <2>1. m \in Children(h, h.parent[m])
    BY <1>3 DEF Tree, WellFormed, ParentHasChild
  <2> QED BY <2>1, <1>3 DEF ClosedIn
<1>10. ParentHasChild(g)
  <2>1. \A x, y \in Item : h.parent[x] = y <=> x \in Children(h, y)
    BY DEF Tree, WellFormed, ParentHasChild
  <2> SUFFICES ASSUME NEW m \in Item, NEW q \in Item
               PROVE  g.parent[m] = q <=> m \in Children(g, q)
    BY DEF ParentHasChild
  <2>2. g.parent[m] = IF m \in S THEN None ELSE h.parent[m]
    BY <1>4
  <2>3. Children(g, q) = IF q \in S THEN {} ELSE Children(h, q) \ {n}
    BY <1>7
  <2>4. m \in S /\ m # n /\ q \notin S => m \notin Children(h, q)
    BY <2>1, <1>3
  <2> QED BY <2>1, <2>2, <2>3, <2>4, <1>3, <1>9
<1>11. DepthFromParent(g)
  BY <1>1, <1>2, <1>3, <1>4, <1>9 DEF DepthFromParent
<1>12. Tree(g)
  BY <1>6, <1>8, <1>10, <1>11 DEF Tree, WellFormed
<1> QED BY <1>4, <1>6, <1>7, <1>12, SubtreeDissolves DEF g

\* Items as they are constructed are a tree, each of them its own subtree.
LEMMA OrphansTree == Tree(Orphans) /\ \A n \in Item : Subtree(Orphans, n) = {n}
<1> USE NoneAssumption
<1>1. Orphans \in Hierarchies
  <2>1. <<>> \in Seq(Item)
    OBVIOUS
  <2> QED BY <2>1 DEF Orphans, Hierarchies
<1>2. \A n \in Item : Children(Orphans, n) = {}
  BY DEF Children, Orphans
<1>3. WellFormed(Orphans)
  <2>1. ParentHasChild(Orphans)
    BY <1>2 DEF ParentHasChild, Orphans
  <2>2. ChildOnce(Orphans) /\ DepthFromParent(Orphans)
    BY DEF ChildOnce, DepthFromParent, Orphans
  <2> QED BY <2>1, <2>2 DEF WellFormed
<1>4. ASSUME NEW n \in Item PROVE Subtree(Orphans, n) = {n}
  <2>1. ClosedIn(Orphans, {n})
    BY <1>2 DEF ClosedIn
  <2> QED BY <2>1, <1>1, SubtreeLeast
<1> QED BY <1>1, <1>3, <1>4 DEF Tree
-----------------------------------------------------------------------------
(***************************************************************************)
(* Undoing a change of parent.                                             *)
(***************************************************************************)

\* A child that was put on a list can be taken off it ...
LEMMA TakenOff ==
  ASSUME NEW S, NEW s \in Seq(S), NEW n \in S, NEW position \in Nat,
         OneToOne(s), n \notin Elements(s)
  PROVE  Without(With(s, position, n), n) = s
<1> DEFINE k == IF position < Len(s) THEN position ELSE Len(s)
           t == With(s, position, n)
           u == Without(t, n)
<1>1. /\ k \in Nat /\ k <= Len(s) /\ Len(s) \in Nat /\ t \in Seq(S) /\ Len(t) = Len(s) + 1
      /\ \A i \in 1 .. Len(t) : t[i] = IF i <= k THEN s[i] ELSE IF i = k + 1 THEN n ELSE s[i - 1]
  BY WithIs
<1>0. OneToOne(t)
  BY WithFacts
<1> HIDE DEF k, t
<1>2. k + 1 \in 1 .. Len(t) /\ t[k + 1] = n
  BY <1>1
<1>3. /\ u \in Seq(S) /\ Len(u) = Len(t) - 1
      /\ \A i \in 1 .. Len(u) : u[i] = IF i < k + 1 THEN t[i] ELSE t[i + 1]
  <2> DEFINE j == k + 1
  <2>1. j \in 1 .. Len(t) /\ t[j] = n
    BY <1>2
  <2> HIDE DEF j
  <2>2. /\ u \in Seq(S) /\ Len(u) = Len(t) - 1
        /\ \A i \in 1 .. Len(u) : u[i] = IF i < j THEN t[i] ELSE t[i + 1]
    BY <1>0, <1>1, <2>1, WithoutIs
  <2> QED BY <2>2 DEF j
<1> HIDE DEF u
<1>4. Len(u) = Len(s)
  BY <1>1, <1>3
<1>5. ASSUME NEW i \in 1 .. Len(s) PROVE u[i] = s[i]
  <2>1. CASE i <= k
    <3>1. i < k + 1 /\ i \in 1 .. Len(t)
      BY <2>1, <1>1
    <3> QED BY <2>1, <3>1, <1>1, <1>3, <1>4
  <2>2. CASE i > k
    <3>1. ~(i < k + 1) /\ i + 1 \in 1 .. Len(t) /\ ~(i + 1 <= k) /\ i + 1 # k + 1 /\ (i + 1) - 1 = i
      BY <2>2, <1>1
    <3>2. t[i + 1] = s[i]
      BY <3>1, <1>1
    <3> QED BY <3>1, <3>2, <1>3, <1>4
  <2> QED BY <1>1, <2>1, <2>2
<1> QED BY <1>3, <1>4, <1>5, SeqEqual DEF u, t

\* ... and one that was taken off goes back to where it was.
LEMMA PutBack ==
  ASSUME NEW S, NEW s \in Seq(S), NEW n \in S, OneToOne(s), n \in Elements(s)
  PROVE  With(Without(s, n), IndexOf(s, n), n) = s
<1>1. PICK k \in 1 .. Len(s) : s[k] = n
  BY DEF Elements
<1> DEFINE t == Without(s, n)
           j == IndexOf(s, n)
           u == With(t, j, n)
<1>2. /\ j = k - 1 /\ t \in Seq(S) /\ Len(t) = Len(s) - 1
      /\ \A i \in 1 .. Len(t) : t[i] = IF i < k THEN s[i] ELSE s[i + 1]
  BY <1>1, WithoutIs
<1>3. Len(s) \in Nat /\ k \in Nat /\ 1 <= k /\ k <= Len(s)
  BY <1>1
<1> HIDE DEF t, j
<1>4. j \in Nat /\ j <= Len(t)
  BY <1>2, <1>3
<1>5. (IF j < Len(t) THEN j ELSE Len(t)) = j
  BY <1>2, <1>3
<1>6. /\ u \in Seq(S) /\ Len(u) = Len(t) + 1
      /\ \A i \in 1 .. Len(u) : u[i] = IF i <= j THEN t[i] ELSE IF i = j + 1 THEN n ELSE t[i - 1]
  BY <1>2, <1>4, <1>5, WithIs
<1> HIDE DEF u
<1>7. Len(u) = Len(s)
  BY <1>2, <1>3, <1>6
<1>8. ASSUME NEW i \in 1 .. Len(s) PROVE u[i] = s[i]
  <2>1. CASE i < k
    <3>1. i <= j /\ i \in 1 .. Len(t)
      BY <2>1, <1>2, <1>3
    <3> QED BY <2>1, <3>1, <1>2, <1>6, <1>7
  <2>2. CASE i = k
    <3>1. ~(i <= j) /\ i = j + 1
      BY <2>2, <1>2, <1>3
    <3> QED BY <2>2, <3>1, <1>1, <1>6, <1>7
  <2>3. CASE i > k
    <3>1. ~(i <= j) /\ i # j + 1 /\ i - 1 \in 1 .. Len(t) /\ ~(i - 1 < k) /\ (i - 1) + 1 = i
      BY <2>3, <1>2, <1>3
    <3>2. t[i - 1] = s[i]
      BY <3>1, <1>2
    <3> QED BY <3>1, <3>2, <1>6, <1>7
  <2> QED BY <1>3, <2>1, <2>2, <2>3
<1> QED BY <1>6, <1>7, <1>8, SeqEqual DEF u, t, j

\* A tree with other links, part by part.
LEMMA TreeWithLinks ==
  ASSUME NEW h \in Hierarchies, NEW x, NEW y
  PROVE  [h EXCEPT !.parent = x, !.children = y]
           = [parent |-> x, children |-> y, depth |-> h.depth]
<1> DEFINE e == [h EXCEPT !.parent = x, !.children = y]
           A == [Item -> Item \cup {None}] \cup {x}
           B == [Item -> Seq(Item)] \cup {y}
           C == [Item -> Nat]
<1>1. h \in [parent : A, children : B, depth : C] /\ x \in A /\ y \in B
  BY DEF Hierarchies
<1>2. e.parent = x /\ e.children = y /\ e.depth = h.depth
  BY DEF Hierarchies
<1> HIDE DEF A, B, C
<1>3. e \in [parent : A, children : B, depth : C]
  BY <1>1
<1> HIDE DEF e
<1>4. e = [parent |-> e.parent, children |-> e.children, depth |-> e.depth]
  BY <1>3
<1> QED BY <1>2, <1>4 DEF e

\* What Relink leaves.
LEMMA RelinkIs ==
  ASSUME NEW h \in Hierarchies, NEW n, NEW p, NEW position
  PROVE  LET f == Relink(h, n, p, position)
         IN  /\ f.parent = [h.parent EXCEPT ![n] = p] /\ f.depth = h.depth
             /\ f.children = [q \in Item |->
                   IF q = p THEN With(h.children[q], position, n)
                   ELSE IF q = h.parent[n] THEN Without(h.children[q], n)
                   ELSE h.children[q]]
             /\ f = [parent |-> f.parent, children |-> f.children, depth |-> f.depth]
<1> DEFINE f == Relink(h, n, p, position)
           x == [h.parent EXCEPT ![n] = p]
           y == [q \in Item |->
                   IF q = p THEN With(h.children[q], position, n)
                   ELSE IF q = h.parent[n] THEN Without(h.children[q], n)
                   ELSE h.children[q]]
<1>1. f = [h EXCEPT !.parent = x, !.children = y]
  BY DEF Relink
<1> HIDE DEF f, x, y
<1>2. f = [parent |-> x, children |-> y, depth |-> h.depth]
  BY <1>1, TreeWithLinks
<1>3. f.parent = x /\ f.children = y /\ f.depth = h.depth
  BY <1>2
<1>4. f = [parent |-> f.parent, children |-> f.children, depth |-> f.depth]
  BY <1>2, <1>3
<1> QED BY <1>3, <1>4 DEF f, x, y

\* What WithDepth leaves.
LEMMA WithDepthIs ==
  ASSUME NEW pa, NEW ch, NEW de, NEW f, f = [parent |-> pa, children |-> ch, depth |-> de],
         NEW n, NEW d
  PROVE  WithDepth(f, n, d) =
           [parent |-> pa, children |-> ch,
            depth |-> [q \in Item |-> IF q \in Subtree(f, n) THEN (de[q] + d) - de[n]
                                      ELSE de[q]]]
BY DEF WithDepth

\* The list of the new parent after set_parent.
LEMMA NewParentLists ==
  ASSUME NEW h \in Hierarchies, NEW n \in Item, NEW p \in Item, NEW position,
         h.parent[n] # p
  PROVE  SetParent(h, n, p, position).children[p] = With(h.children[p], position, n)
<1> DEFINE f == Relink(h, n, p, position)
           d == IF p = None THEN 0 ELSE h.depth[p] + 1
           g == SetParent(h, n, p, position)
<1>1. /\ f.parent = [h.parent EXCEPT ![n] = p] /\ f.depth = h.depth
      /\ f.children = [q \in Item |->
            IF q = p THEN With(h.children[q], position, n)
            ELSE IF q = h.parent[n] THEN Without(h.children[q], n) ELSE h.children[q]]
      /\ f = [parent |-> f.parent, children |-> f.children, depth |-> f.depth]
  BY RelinkIs
<1>2. g = WithDepth(f, n, d)
  BY DEF SetParent
<1> HIDE DEF f, g, d
<1>3. g = [parent |-> f.parent, children |-> f.children,
           depth |-> [q \in Item |-> IF q \in Subtree(f, n) THEN (f.depth[q] + d) - f.depth[n]
                                     ELSE f.depth[q]]]
  BY <1>1, <1>2, WithDepthIs
<1>4. g.children = f.children
  BY <1>3
<1> QED BY <1>1, <1>4 DEF g

(***************************************************************************)
(* Undoing set_parent: the item goes back to its parent, to the position   *)
(* that get_index_in_parent gave before, and the tree is what it was, with *)
(* the order of all children and all depths, wherever the item has been    *)
(* (item_parent_change_operation.cpp:46-90).                               *)
(***************************************************************************)
THEOREM SetParentUndone ==
  ASSUME NEW h, Tree(h), NEW n \in Item, NEW p \in Item \cup {None},
         NEW position \in Nat, h.parent[n] # p, ~CreatesCycle(h, n, p)
  PROVE  LET g == SetParent(h, n, p, position)
         IN  SetParent(g, n, h.parent[n], IndexInParent(h, n)) = h
<1> USE NoneAssumption
<1> DEFINE S == Subtree(h, n)
           o == h.parent[n]
           d == IF p = None THEN 0 ELSE h.depth[p] + 1
           f == Relink(h, n, p, position)
           g == SetParent(h, n, p, position)
           e == IF o = None THEN 0 ELSE g.depth[o] + 1
           k == IndexInParent(h, n)
           r == Relink(g, n, o, k)
           b == SetParent(g, n, o, k)
<1>1. /\ h.parent \in [Item -> Item \cup {None}] /\ h.depth \in [Item -> Nat]
      /\ h.children \in [Item -> Seq(Item)]
      /\ h = [parent |-> h.parent, children |-> h.children, depth |-> h.depth]
  BY DEF Tree, Hierarchies
<1>2. S \subseteq Item /\ n \in S /\ o \notin S /\ p \notin S
  BY SubtreeLeast, SubtreeInTree DEF Tree, CreatesCycle
<1>3. /\ Tree(g) /\ g.parent = [h.parent EXCEPT ![n] = p] /\ Subtree(g, n) = S
  BY <1>2, SetParentTree
<1>4. Subtree(f, n) = S
  <2>1. /\ f \in Hierarchies /\ ChildOnce(f) /\ ParentHasChild(f)
        /\ f.parent = [h.parent EXCEPT ![n] = p] /\ f.depth = h.depth
        /\ \A q \in Item : Children(f, q) = IF q = p THEN Children(h, q) \cup {n}
                                            ELSE Children(h, q) \ {n}
    BY RelinkFacts
  <2> HIDE DEF f
  <2> QED BY <1>2, <2>1, SubtreeMoves
<1>5. /\ g.children = [q \in Item |->
            IF q = p THEN With(h.children[q], position, n)
            ELSE IF q = o THEN Without(h.children[q], n) ELSE h.children[q]]
      /\ g.depth = [q \in Item |-> IF q \in S THEN (h.depth[q] + d) - h.depth[n]
                                   ELSE h.depth[q]]
  <2>1. g = WithDepth(f, n, d)
    BY DEF SetParent
  <2>2. /\ f.parent = [h.parent EXCEPT ![n] = p] /\ f.depth = h.depth
        /\ f.children = [q \in Item |->
            IF q = p THEN With(h.children[q], position, n)
            ELSE IF q = o THEN Without(h.children[q], n) ELSE h.children[q]]
        /\ f = [parent |-> f.parent, children |-> f.children, depth |-> f.depth]
    <3>1. h \in Hierarchies
      BY DEF Tree
    <3> QED BY <3>1, RelinkIs
  <2> HIDE DEF f, g, d
  <2>3. g = [parent |-> f.parent, children |-> f.children,
             depth |-> [q \in Item |-> IF q \in Subtree(f, n) THEN (f.depth[q] + d) - f.depth[n]
                                       ELSE f.depth[q]]]
    BY <2>1, <2>2, WithDepthIs
  <2>4. g.children = f.children /\ g.depth = [q \in Item |->
            IF q \in Subtree(f, n) THEN (f.depth[q] + d) - f.depth[n] ELSE f.depth[q]]
    BY <2>3
  <2> QED BY <1>4, <2>2, <2>4
<1>6. g.parent[n] = p /\ g = [parent |-> g.parent, children |-> g.children, depth |-> g.depth]
      /\ g.depth \in [Item -> Nat]
  BY <1>1, <1>3 DEF Tree, Hierarchies
<1>7. k \in Nat /\ (o # None => o \in Item /\ n \in Elements(h.children[o])
                              /\ k = IndexOf(h.children[o], n))
  <2>1. o = None => k = 0
    BY DEF IndexInParent
  <2>2. ASSUME o # None
        PROVE  /\ o \in Item /\ n \in Children(h, o) /\ n \in Elements(h.children[o])
    BY <1>1, <2>2 DEF Tree, WellFormed, ParentHasChild, Children, Elements
  <2>3. ASSUME o # None PROVE k = IndexOf(h.children[o], n)
    BY <2>2, <2>3 DEF IndexInParent
  <2>4. ASSUME o # None PROVE k \in Nat
    <3> DEFINE s == h.children[o]
    <3>2. s \in Seq(Item) /\ OneToOne(s) /\ n \in Elements(s)
      BY <1>1, <2>2, <2>4 DEF Tree, WellFormed, ChildOnce, OneToOne
    <3> HIDE DEF s
    <3>1. PICK j \in 1 .. Len(s) : s[j] = n
      BY <3>2 DEF Elements
    <3>0. k = IndexOf(s, n)
      BY <2>3, <2>4 DEF s
    <3> HIDE DEF k
    <3>3. k = j - 1
      BY <3>0, <3>1, <3>2, WithoutIs
    <3> QED BY <3>1, <3>2, <3>3
  <2> QED BY <2>1, <2>2, <2>3, <2>4
<1> HIDE DEF f, g, k, d
<1>8. b = WithDepth(r, n, e)
  BY <1>6 DEF SetParent
<1>9. Subtree(r, n) = S
  <2>1. o \notin Subtree(g, n) /\ g.parent[n] # o /\ o \in Item \cup {None}
    BY <1>1, <1>2, <1>3, <1>6
  <2> HIDE DEF o
  <2>2. /\ r \in Hierarchies /\ ChildOnce(r) /\ ParentHasChild(r)
        /\ r.parent = [g.parent EXCEPT ![n] = o] /\ r.depth = g.depth
        /\ \A q \in Item : Children(r, q) = IF q = o THEN Children(g, q) \cup {n}
                                            ELSE Children(g, q) \ {n}
    <3>1. Tree(g) /\ k \in Nat
      BY <1>3, <1>7
    <3> QED BY <3>1, <2>1, RelinkFacts
  <2> HIDE DEF r
  <2> QED BY <1>3, <2>1, <2>2, SubtreeMoves
<1>10. /\ r.parent = [g.parent EXCEPT ![n] = o] /\ r.depth = g.depth
       /\ r.children = [q \in Item |->
             IF q = o THEN With(g.children[q], k, n)
             ELSE IF q = g.parent[n] THEN Without(g.children[q], n)
             ELSE g.children[q]]
       /\ r = [parent |-> r.parent, children |-> r.children, depth |-> r.depth]
  <2>1. g \in Hierarchies
    BY <1>3 DEF Tree
  <2> QED BY <2>1, RelinkIs
<1>17. r.parent = h.parent
  <2>1. r.parent = [[h.parent EXCEPT ![n] = p] EXCEPT ![n] = o]
    BY <1>3, <1>10
  <2> HIDE DEF r
  <2> QED BY <1>1, <2>1
<1>11. \A q \in Item : r.children[q] = h.children[q]
  <2> SUFFICES ASSUME NEW q \in Item PROVE r.children[q] = h.children[q]
    OBVIOUS
  <2> DEFINE s == h.children[q]
  <2>1. r.children[q] = IF q = o THEN With(g.children[q], k, n)
                        ELSE IF q = p THEN Without(g.children[q], n)
                        ELSE g.children[q]
    BY <1>6, <1>10
  <2>2. g.children[q] = IF q = p THEN With(s, position, n)
                        ELSE IF q = o THEN Without(s, n) ELSE s
    BY <1>5
  <2>3. s \in Seq(Item) /\ OneToOne(s)
    BY <1>1 DEF Tree, WellFormed, ChildOnce, OneToOne
  <2>4. n \in Elements(s) <=> q = o
    BY <1>1 DEF Tree, WellFormed, ParentHasChild, Children, Elements
  <2> HIDE DEF s, r
  <2>5. CASE q = o
    <3>1. k = IndexOf(s, n)
      BY <1>1, <1>7, <2>5 DEF s
    <3>2. r.children[q] = With(Without(s, n), k, n)
      BY <2>1, <2>2, <2>5
    <3> QED BY <2>3, <2>4, <2>5, <3>1, <3>2, PutBack DEF s
  <2>6. CASE q = p
    <3>1. r.children[q] = Without(With(s, position, n), n)
      BY <2>1, <2>2, <2>6
    <3> QED BY <2>3, <2>4, <2>6, <3>1, TakenOff DEF s
  <2>7. CASE q # o /\ q # p
    BY <2>1, <2>2, <2>7 DEF s
  <2> QED BY <2>5, <2>6, <2>7
<1>12. /\ b.parent = r.parent /\ b.children = r.children
       /\ b.depth = [q \in Item |-> IF q \in S THEN (g.depth[q] + e) - g.depth[n] ELSE g.depth[q]]
       /\ b = [parent |-> b.parent, children |-> b.children, depth |-> b.depth]
  <2> HIDE DEF r, b, e
  <2>1. b = [parent |-> r.parent, children |-> r.children,
             depth |-> [q \in Item |-> IF q \in Subtree(r, n) THEN (r.depth[q] + e) - r.depth[n]
                                       ELSE r.depth[q]]]
    BY <1>8, <1>10, WithDepthIs
  <2>2. b.depth = [q \in Item |-> IF q \in Subtree(r, n) THEN (r.depth[q] + e) - r.depth[n]
                                  ELSE r.depth[q]]
    BY <2>1
  <2>3. b.parent = r.parent /\ b.children = r.children
        /\ b = [parent |-> b.parent, children |-> b.children, depth |-> b.depth]
    BY <2>1
  <2> QED BY <1>9, <1>10, <2>2, <2>3
<1>13. r.children = h.children
  <2> HIDE DEF r
  <2>1. r.children = [q \in Item |-> r.children[q]]
    BY <1>10
  <2> QED BY <1>1, <1>11, <2>1
<1>14. \A q \in Item : (IF q \in S THEN (g.depth[q] + e) - g.depth[n] ELSE g.depth[q]) = h.depth[q]
  <2>1. e = h.depth[n]
    <3>1. o # None => g.depth[o] = h.depth[o]
      BY <1>2, <1>5, <1>7
    <3>2. h.depth[n] = IF o = None THEN 0 ELSE h.depth[o] + 1
      BY DEF Tree, WellFormed, DepthFromParent
    <3> QED BY <3>1, <3>2
  <2>2. d \in Nat
    BY <1>1 DEF d
  <2>3. g.depth[n] = d
    BY <1>1, <1>2, <1>5, <2>2
  <2> SUFFICES ASSUME NEW q \in Item
               PROVE  (IF q \in S THEN (g.depth[q] + e) - g.depth[n] ELSE g.depth[q]) = h.depth[q]
    OBVIOUS
  <2>4. g.depth[q] = IF q \in S THEN (h.depth[q] + d) - h.depth[n] ELSE h.depth[q]
    BY <1>5
  <2>5. h.depth[q] \in Nat /\ h.depth[n] \in Nat
    BY <1>1
  <2> HIDE DEF S, e
  <2> QED BY <2>1, <2>2, <2>3, <2>4, <2>5
<1>15. b.depth = h.depth
  <2> HIDE DEF e, b, S
  <2> QED BY <1>1, <1>12, <1>14
<1> HIDE DEF r, b
<1>16. b = h
  BY <1>1, <1>12, <1>13, <1>15, <1>17
<1> QED BY <1>16 DEF b, g, k

(***************************************************************************)
(* Reposition: the list of the parent is another one of the same children, *)
(* and putting the child back where get_index_in_parent found it gives     *)
(* that list again (item_reposition_in_parent_operation.cpp:46-90).        *)
(***************************************************************************)
LEMMA RepositionUndone ==
  ASSUME NEW h, Tree(h), NEW n \in Item, h.parent[n] # None, NEW position \in Nat
  PROVE  LET g == Reposition(h, n, position)
         IN  /\ Tree(g) /\ g.parent = h.parent
             /\ ChildCount(g, h.parent[n]) = ChildCount(h, h.parent[n])
             /\ IndexInParent(h, n) \in Nat
             /\ IndexInParent(h, n) < ChildCount(h, h.parent[n])
             /\ Reposition(g, n, IndexInParent(h, n)) = h
<1> USE NoneAssumption
<1> DEFINE p == h.parent[n]
           s == h.children[p]
           t == With(Without(s, n), position, n)
           g == Reposition(h, n, position)
           k == IndexInParent(h, n)
<1>1. /\ h.parent \in [Item -> Item \cup {None}] /\ h.depth \in [Item -> Nat]
      /\ h.children \in [Item -> Seq(Item)] /\ p \in Item /\ s \in Seq(Item)
      /\ h = [parent |-> h.parent, children |-> h.children, depth |-> h.depth]
  BY DEF Tree, Hierarchies
<1>2. OneToOne(s) /\ n \in Elements(s) /\ n \in Children(h, p)
  BY <1>1 DEF Tree, WellFormed, ChildOnce, OneToOne, ParentHasChild, Children, Elements
<1>3. k = IndexOf(s, n)
  BY <1>1, <1>2 DEF IndexInParent
<1>4. /\ Without(s, n) \in Seq(Item) /\ OneToOne(Without(s, n))
      /\ Elements(Without(s, n)) = Elements(s) \ {n}
  <2> HIDE DEF s
  <2> QED BY <1>1, <1>2, WithoutFacts
<1>5. t \in Seq(Item) /\ Elements(t) = Elements(s) /\ OneToOne(t)
  <2>1. /\ t \in Seq(Item) /\ Elements(t) = (Elements(s) \ {n}) \cup {n} /\ OneToOne(t)
    <3> DEFINE u == Without(s, n)
    <3> HIDE DEF u, s
    <3>1. u \in Seq(Item) /\ OneToOne(u) /\ Elements(u) = Elements(s) \ {n}
      BY <1>4 DEF u
    <3>2. n \notin Elements(u)
      BY <3>1
    <3>3. /\ With(u, position, n) \in Seq(Item)
          /\ Elements(With(u, position, n)) = Elements(u) \cup {n}
          /\ OneToOne(u) /\ n \notin Elements(u) => OneToOne(With(u, position, n))
      BY <3>1, WithFacts
    <3> QED BY <3>1, <3>2, <3>3 DEF u
  <2> QED BY <2>1, <1>2
<1>6. k \in Nat /\ k < Len(s) /\ Len(t) = Len(s)
  <2> HIDE DEF s
  <2>0. DOMAIN s = 1 .. Len(s)
    BY <1>1
  <2>1. PICK i \in 1 .. Len(s) : s[i] = n
    BY <1>2, <2>0 DEF Elements
  <2>2. IndexOf(s, n) = i - 1 /\ Len(Without(s, n)) = Len(s) - 1
    BY <1>1, <1>2, <2>1, WithoutIs
  <2>3. Len(t) = Len(Without(s, n)) + 1
    BY <1>4, WithIs
  <2>4. Len(s) \in Nat
    BY <1>1
  <2> HIDE DEF t, k
  <2> QED BY <1>3, <2>1, <2>2, <2>3, <2>4
<1>7. With(Without(t, n), k, n) = s
  <2>1. Without(t, n) = Without(s, n)
    <3> DEFINE u == Without(s, n)
    <3>1. u \in Seq(Item) /\ OneToOne(u) /\ n \notin Elements(u)
      BY <1>4
    <3> HIDE DEF u
    <3>2. Without(With(u, position, n), n) = u
      BY <3>1, TakenOff
    <3> QED BY <3>2 DEF u
  <2>2. With(Without(s, n), IndexOf(s, n), n) = s
    BY <1>1, <1>2, PutBack
  <2> QED BY <1>3, <2>1, <2>2
<1>8. /\ g = [parent |-> h.parent, children |-> [h.children EXCEPT ![p] = t], depth |-> h.depth]
  <2>1. g = [h EXCEPT !.children = [h.children EXCEPT ![p] = t]]
    BY DEF Reposition
  <2> HIDE DEF g, t, p
  <2> QED BY <1>1, <2>1
<1> HIDE DEF t, k, s
<1>9. /\ g.parent = h.parent /\ g.children = [h.children EXCEPT ![p] = t] /\ g.depth = h.depth
      /\ g.children[p] = t
  BY <1>1, <1>8
<1>10. g \in Hierarchies
  BY <1>1, <1>5, <1>8 DEF Hierarchies
<1> HIDE DEF g
<1>11. \A q \in Item : Children(g, q) = Children(h, q)
  <2> SUFFICES ASSUME NEW q \in Item PROVE Children(g, q) = Children(h, q)
    OBVIOUS
  <2>1. CASE q = p
    <3>1. Children(g, q) = Elements(t)
      BY <1>9, <2>1 DEF Children, Elements
    <3>2. Children(h, q) = Elements(s)
      BY <2>1 DEF Children, Elements, s
    <3> QED BY <1>5, <3>1, <3>2
  <2>2. CASE q # p
    BY <1>1, <1>9, <2>2 DEF Children
  <2> QED BY <2>1, <2>2
<1>12. WellFormed(g)
  <2>1. ParentHasChild(g)
    BY <1>9, <1>11 DEF Tree, WellFormed, ParentHasChild
  <2>2. ChildOnce(g)
    <3> SUFFICES ASSUME NEW q \in Item PROVE OneToOne(g.children[q])
      BY DEF ChildOnce, OneToOne
    <3>1. CASE q = p
      BY <1>5, <1>9, <3>1
    <3>2. CASE q # p
      BY <1>1, <1>9, <3>2 DEF Tree, WellFormed, ChildOnce, OneToOne
    <3> QED BY <3>1, <3>2
  <2>3. DepthFromParent(g)
    BY <1>9 DEF Tree, WellFormed, DepthFromParent
  <2> QED BY <2>1, <2>2, <2>3 DEF WellFormed
<1>13. Reposition(g, n, k) = h
  <2>1. Reposition(g, n, k) = [g EXCEPT !.children = [g.children EXCEPT ![p] = s]]
    BY <1>7, <1>9 DEF Reposition
  <2>2. g = [parent |-> h.parent, children |-> g.children, depth |-> h.depth]
    BY <1>8, <1>9
  <2>3. [g.children EXCEPT ![p] = s] = h.children
    BY <1>1, <1>9 DEF s
  <2>4. Reposition(g, n, k) = [parent |-> h.parent, children |-> h.children, depth |-> h.depth]
    BY <2>1, <2>2, <2>3
  <2> QED BY <1>1, <2>4
<1> QED BY <1>3, <1>6, <1>9, <1>10, <1>12, <1>13 DEF Tree, ChildCount, g, k, s, t

\* What is below an item is below everything that the item is below.
LEMMA BelowBelow ==
  ASSUME NEW h \in Hierarchies, NEW n \in Item, NEW c \in Subtree(h, n)
  PROVE  Subtree(h, c) \subseteq Subtree(h, n)
<1>1. Subtree(h, n) \in SUBSET Item /\ ClosedIn(h, Subtree(h, n))
  BY SubtreeLeast
<1> QED BY <1>1, SubtreeLeast

\* What is below what is said by the parents alone.
LEMMA SameParentsSameTree ==
  ASSUME NEW h, Tree(h), NEW g, Tree(g), g.parent = h.parent
  PROVE  \A r : Subtree(g, r) = Subtree(h, r)
<1>1. /\ h \in Hierarchies /\ g \in Hierarchies
      /\ ParentHasChild(h) /\ ParentHasChild(g)
  BY DEF Tree, WellFormed
<1>2. ASSUME NEW q \in Item PROVE Children(g, q) = Children(h, q)
  <2>1. Children(g, q) \subseteq Item /\ Children(h, q) \subseteq Item
    BY <1>1 DEF Children, Hierarchies
  <2>2. \A z \in Item : z \in Children(g, q) <=> z \in Children(h, q)
    BY <1>1 DEF ParentHasChild
  <2> QED BY <2>1, <2>2
<1> QED BY <1>2 DEF Subtree
-----------------------------------------------------------------------------
(***************************************************************************)
(* Items next to each other in a list: n of them, W[1] first.              *)
(***************************************************************************)
RowFrom(d, s, n, W) == d + n <= Len(s) /\ \A i \in 1 .. n : s[d + i] = W[i]
HasRow(s, n, W)     == \E d \in Nat : RowFrom(d, s, n, W)

\* What is put into a row, or at one of its ends, makes it longer.
LEMMA RowWith ==
  ASSUME NEW S, NEW s \in Seq(S), NEW c \in S, NEW n \in Nat, NEW W,
         NEW d \in Nat, RowFrom(d, s, n, W), NEW q \in 0 .. n, NEW V,
         \A i \in 1 .. n + 1 : V[i] = IF i <= q THEN W[i] ELSE IF i = q + 1 THEN c ELSE W[i - 1]
  PROVE  RowFrom(d, With(s, d + q, c), n + 1, V)
<1> DEFINE t == With(s, d + q, c)
<1>1. Len(s) \in Nat /\ d + n <= Len(s) /\ d + q \in Nat
  BY DEF RowFrom
<1>2. /\ t \in Seq(S) /\ Len(t) = Len(s) + 1
      /\ \A i \in 1 .. Len(t) :
           t[i] = IF i <= d + q THEN s[i] ELSE IF i = (d + q) + 1 THEN c ELSE s[i - 1]
  <2>1. (IF d + q < Len(s) THEN d + q ELSE Len(s)) = d + q
    BY <1>1
  <2> QED BY <1>1, <2>1, WithIs
<1> HIDE DEF t
<1>3. ASSUME NEW i \in 1 .. n + 1 PROVE t[d + i] = V[i]
  <2>1. d + i \in 1 .. Len(t)
    BY <1>1, <1>2
  <2>2. CASE i <= q
    <3>1. i \in 1 .. n /\ d + i <= d + q
      BY <2>2
    <3>2. s[d + i] = W[i]
      BY <3>1 DEF RowFrom
    <3> QED BY <1>2, <2>1, <2>2, <3>1, <3>2
  <2>3. CASE i = q + 1
    BY <1>2, <2>1, <2>3
  <2>4. CASE i > q + 1
    <3>1. i - 1 \in 1 .. n /\ ~(d + i <= d + q) /\ d + i # (d + q) + 1 /\ (d + i) - 1 = d + (i - 1)
      BY <2>4
    <3>2. s[d + (i - 1)] = W[i - 1]
      BY <3>1 DEF RowFrom
    <3>3. t[d + i] = s[(d + i) - 1]
      BY <1>2, <2>1, <3>1
    <3>4. V[i] = W[i - 1]
      BY <2>4
    <3> QED BY <3>1, <3>2, <3>3, <3>4
  <2> QED BY <2>2, <2>3, <2>4
<1>4. d + (n + 1) <= Len(t)
  BY <1>1, <1>2
<1> QED BY <1>3, <1>4 DEF RowFrom, t

\* A row stays when something else leaves the list.
LEMMA RowWithout ==
  ASSUME NEW S, NEW s \in Seq(S), OneToOne(s), NEW c \in S, NEW k \in 1 .. Len(s), s[k] = c,
         NEW n \in Nat, NEW W, HasRow(s, n, W), \A i \in 1 .. n : W[i] # c
  PROVE  HasRow(Without(s, c), n, W)
<1> DEFINE t == Without(s, c)
<1>1. PICK d \in Nat : RowFrom(d, s, n, W)
  BY DEF HasRow
<1>2. /\ t \in Seq(S) /\ Len(t) = Len(s) - 1
      /\ \A i \in 1 .. Len(t) : t[i] = IF i < k THEN s[i] ELSE s[i + 1]
  BY WithoutIs
<1>3. Len(s) \in Nat /\ d + n <= Len(s) /\ \A i \in 1 .. n : s[d + i] = W[i]
  BY <1>1 DEF RowFrom
<1> HIDE DEF t
<1>4. k <= d \/ k > d + n
  <2>1. ASSUME k > d, k <= d + n PROVE FALSE
    <3>1. k - d \in 1 .. n /\ d + (k - d) = k
      BY <2>1, <1>3
    <3> QED BY <1>3, <3>1
  <2> QED BY <1>3, <2>1
<1>5. CASE k <= d
  <2>1. d - 1 \in Nat /\ (d - 1) + n <= Len(t)
    BY <1>2, <1>3, <1>5
  <2>2. ASSUME NEW i \in 1 .. n PROVE t[(d - 1) + i] = W[i]
    <3>1. (d - 1) + i \in 1 .. Len(t) /\ ~((d - 1) + i < k) /\ ((d - 1) + i) + 1 = d + i
      BY <1>2, <1>3, <1>5, <2>1
    <3>2. t[(d - 1) + i] = s[((d - 1) + i) + 1]
      BY <1>2, <3>1
    <3> QED BY <1>3, <3>1, <3>2
  <2> QED BY <2>1, <2>2 DEF HasRow, RowFrom, t
<1>6. CASE k > d + n
  <2>1. d + n <= Len(t)
    BY <1>2, <1>3, <1>6
  <2>2. ASSUME NEW i \in 1 .. n PROVE t[d + i] = W[i]
    <3>1. d + i \in 1 .. Len(t) /\ d + i < k
      BY <1>2, <1>3, <1>6, <2>1
    <3> QED BY <1>2, <1>3, <3>1
  <2> QED BY <2>1, <2>2 DEF HasRow, RowFrom, t
<1> QED BY <1>4, <1>5, <1>6
=============================================================================

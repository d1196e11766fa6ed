----------------------------- MODULE ListProofs -----------------------------
(***************************************************************************)
(* Facts about natural numbers and sequences that the proofs about the     *)
(* components share.  Induction is stated for sets of numbers, and the     *)
(* passes that FoldLeft makes for functions, so that a proof can use them  *)
(* with sets and functions of its own.                                     *)
(***************************************************************************)
EXTENDS Lists, Integers, FiniteSets, FiniteSetTheorems, SequenceTheorems,
        WellFoundedInduction, TLAPS

\* A set of natural numbers that is not empty has a least element.
LEMMA LeastNumber ==
  ASSUME NEW T \in SUBSET Nat, T # {}
  PROVE  \E n \in T : \A m \in T : n <= m
<1> DEFINE U == {1 .. n : n \in T}
<1>1. U \subseteq FiniteSubsetsOf(Nat) /\ U # {}
  <2>1. \A n \in T : 1 .. n \subseteq Nat /\ IsFiniteSet(1 .. n)
    BY FS_Interval
  <2> QED BY <2>1 DEF FiniteSubsetsOf
<1>2. IsWellFoundedOn(StrictSubsetOrdering(Nat), FiniteSubsetsOf(Nat))
  BY FS_StrictSubsetOrderingWellFounded
<1>3. PICK x \in U : \A y \in U : <<y, x>> \notin StrictSubsetOrdering(Nat)
  BY <1>1, <1>2, WFMin
<1>4. PICK n \in T : x = 1 .. n
  BY <1>3
<1>5. ASSUME NEW m \in T, m < n PROVE FALSE
  <2>1. 1 .. m \subseteq 1 .. n /\ n \in 1 .. n /\ n \notin 1 .. m
    BY <1>5
  <2>2. 1 .. m \subseteq Nat /\ 1 .. n \subseteq Nat
    OBVIOUS
  <2>3. <<1 .. m, 1 .. n>> \in StrictSubsetOrdering(Nat)
    BY <2>1, <2>2 DEF StrictSubsetOrdering
  <2> QED BY <2>3, <1>3, <1>4
<1> QED BY <1>5

\* Induction up to n, for the set T of the numbers that have the property.
LEMMA CountingUp ==
  ASSUME NEW n \in Nat, NEW T, 0 \in T,
         \A k \in 0 .. n - 1 : k \in T => k + 1 \in T
  PROVE  0 .. n \subseteq T
<1> DEFINE Bad == {k \in 0 .. n : k \notin T}
<1> SUFFICES ASSUME Bad # {} PROVE FALSE
  OBVIOUS
<1>1. PICK k \in Bad : \A m \in Bad : k <= m
  <2>1. Bad \in SUBSET Nat
    OBVIOUS
  <2> HIDE DEF Bad
  <2> QED BY <2>1, LeastNumber
<1>2. k # 0 /\ k - 1 \in 0 .. n - 1 /\ k - 1 \notin Bad /\ (k - 1) + 1 = k
  BY <1>1
<1>3. k - 1 \in T
  BY <1>2
<1> QED BY <1>1, <1>2, <1>3

\* The same for all natural numbers.
LEMMA CountingOn ==
  ASSUME NEW T, 0 \in T, \A k \in Nat : k \in T => k + 1 \in T
  PROVE  Nat \subseteq T
<1> SUFFICES ASSUME NEW n \in Nat PROVE n \in T
  OBVIOUS
<1>1. 0 .. n \subseteq T
  <2>1. \A k \in 0 .. n - 1 : k \in T => k + 1 \in T
    OBVIOUS
  <2> QED BY <2>1, CountingUp
<1> QED BY <1>1

LEMMA MaxOfSome ==
  ASSUME NEW n \in Nat, NEW S \in SUBSET (1 .. n), S # {}
  PROVE  Max(S) \in S /\ \A y \in S : y <= Max(S)
<1> DEFINE T == {m \in Nat : \A y \in S : y <= m}
<1>1. T \in SUBSET Nat /\ n \in T
  OBVIOUS
<1>2. PICK m \in T : \A k \in T : m <= k
  <2> HIDE DEF T
  <2> QED BY <1>1, LeastNumber
<1>3. m \in S
  <2> SUFFICES ASSUME m \notin S PROVE FALSE
    OBVIOUS
  <2>1. PICK y \in S : TRUE
    OBVIOUS
  <2>2. m \in Nat /\ y <= m /\ m >= 1
    BY <1>2, <2>1
  <2>3. m - 1 \in T
    BY <1>2, <2>2
  <2> QED BY <1>2, <2>2, <2>3
<1>4. m \in S /\ \A y \in S : m >= y
  BY <1>2, <1>3
<1>5. Max(S) \in S /\ \A y \in S : Max(S) >= y
  BY <1>4 DEF Max
<1> QED BY <1>5

LEMMA MinOfSome ==
  ASSUME NEW S \in SUBSET Nat, S # {}
  PROVE  Min(S) \in S /\ \A y \in S : Min(S) <= y
<1>1. \E x \in S : \A y \in S : x <= y
  BY LeastNumber
<1> QED BY <1>1 DEF Min

\* A finite set of natural numbers that is not empty has a greatest element.
LEMMA MaxOfFinite ==
  ASSUME NEW S \in SUBSET Nat, IsFiniteSet(S), S # {}
  PROVE  Max(S) \in S /\ \A y \in S : y <= Max(S)
<1> DEFINE HasMax(R) == \E x \in R : \A y \in R : y <= x
           T == {k \in Nat : \A R \in SUBSET Nat :
                               IsFiniteSet(R) /\ Cardinality(R) = k /\ R # {} => HasMax(R)}
<1>1. 0 \in T
  <2>1. \A R : IsFiniteSet(R) /\ Cardinality(R) = 0 => R = {}
    BY FS_EmptySet
  <2> QED BY <2>1
<1>2. ASSUME NEW k \in Nat, k \in T PROVE k + 1 \in T
  <2> SUFFICES ASSUME NEW R \in SUBSET Nat, IsFiniteSet(R), Cardinality(R) = k + 1, R # {}
               PROVE  HasMax(R)
    OBVIOUS
  <2>1. PICK x \in R : TRUE
    OBVIOUS
  <2>2. IsFiniteSet(R \ {x}) /\ Cardinality(R \ {x}) = k /\ R \ {x} \in SUBSET Nat
    <3>1. IsFiniteSet(R \ {x}) /\ Cardinality(R \ {x}) = Cardinality(R) - 1
      BY <2>1, FS_RemoveElement
    <3> QED BY <3>1
  <2>3. CASE R \ {x} = {}
    BY <2>1, <2>3
  <2>4. CASE R \ {x} # {}
    <3>1. PICK m \in R \ {x} : \A y \in R \ {x} : y <= m
      BY <1>2, <2>2, <2>4
    <3>2. m \in Nat /\ x \in Nat /\ \A y \in R : y \in Nat /\ (y = x \/ y <= m)
      BY <3>1
    <3>3. CASE m <= x
      BY <2>1, <3>2, <3>3
    <3>4. CASE ~(m <= x)
      BY <3>1, <3>2, <3>4
    <3> QED BY <3>3, <3>4
  <2> QED BY <2>3, <2>4
<1>3. Cardinality(S) \in T
  <2> HIDE DEF T
  <2>1. Nat \subseteq T
    BY <1>1, <1>2, CountingOn
  <2> QED BY <2>1, FS_CardinalityType
<1>4. PICK x \in S : \A y \in S : y <= x
  BY <1>3
<1>5. x \in S /\ \A y \in S : x >= y
  BY <1>4
<1>6. Max(S) \in S /\ \A y \in S : Max(S) >= y
  BY <1>5 DEF Max
<1> QED BY <1>6

(***************************************************************************)
(* FoldLeft takes the elements of the domain out of it, the last one       *)
(* first: f is what its recursion is at every subset of 1 .. n.            *)
(***************************************************************************)
Peels(n, base, step, f) ==
  f = [S \in SUBSET (1 .. n) |-> IF S = {} THEN base
                                 ELSE step[Max(S)][f[S \ {Max(S)}]]]

LEMMA PeelingExists ==
  ASSUME NEW n \in Nat, NEW B, NEW base \in B, NEW step \in [1 .. n -> [B -> B]]
  PROVE  \E f \in [SUBSET (1 .. n) -> B] : Peels(n, base, step, f)
<1> DEFINE T == {k \in 0 .. n : \E f \in [SUBSET (1 .. k) -> B] :
                                   Peels(k, base, step, f)}
<1>1. 0 \in T
  <2> DEFINE f == [S \in SUBSET (1 .. 0) |-> base]
  <2>1. \A S \in SUBSET (1 .. 0) : S = {}
    OBVIOUS
  <2>2. Peels(0, base, step, f)
    BY <2>1 DEF Peels
  <2>3. f \in [SUBSET (1 .. 0) -> B]
    OBVIOUS
  <2>4. 0 \in 0 .. n
    OBVIOUS
  <2> HIDE DEF f
  <2> QED BY <2>2, <2>3, <2>4
<1>2. ASSUME NEW k \in 0 .. n - 1, k \in T PROVE k + 1 \in T
  <2>1. PICK f \in [SUBSET (1 .. k) -> B] : Peels(k, base, step, f)
    BY <1>2
  <2> DEFINE g == [S \in SUBSET (1 .. k + 1) |->
                     IF k + 1 \in S THEN step[k + 1][f[S \ {k + 1}]] ELSE f[S]]
  <2>2. /\ k + 1 \in 1 .. n /\ k + 1 \notin 1 .. k /\ k \in Nat /\ k + 1 \in Nat
        /\ 1 .. k + 1 = 1 .. k \cup {k + 1}
    OBVIOUS
  <2>3. \A S \in SUBSET (1 .. k + 1) :
          /\ k + 1 \notin S => S \in SUBSET (1 .. k)
          /\ S \ {k + 1} \in SUBSET (1 .. k)
    BY <2>2
  <2>4. g \in [SUBSET (1 .. k + 1) -> B]
    BY <2>2, <2>3
  <2>5. ASSUME NEW S \in SUBSET (1 .. k + 1)
        PROVE  g[S] = IF S = {} THEN base ELSE step[Max(S)][g[S \ {Max(S)}]]
    <3>1. CASE k + 1 \in S
      <4>1. Max(S) \in S /\ \A y \in S : y <= Max(S)
        BY <2>2, <3>1, MaxOfSome
      <4>2. Max(S) = k + 1
        <5>1. Max(S) \in 1 .. k + 1 /\ k + 1 <= Max(S)
          BY <3>1, <4>1
        <5> QED BY <5>1
      <4>3. S \ {k + 1} \in SUBSET (1 .. k + 1) /\ k + 1 \notin S \ {k + 1}
        OBVIOUS
      <4>4. g[S \ {k + 1}] = f[S \ {k + 1}]
        BY <4>3
      <4>5. g[S] = step[k + 1][f[S \ {k + 1}]]
        BY <3>1
      <4> QED BY <3>1, <4>2, <4>4, <4>5
    <3>2. CASE k + 1 \notin S
      <4>1. S \in SUBSET (1 .. k) /\ g[S] = f[S]
        BY <2>3, <3>2
      <4>2. f[S] = IF S = {} THEN base ELSE step[Max(S)][f[S \ {Max(S)}]]
        BY <2>1, <4>1 DEF Peels
      <4>3. g[S \ {Max(S)}] = f[S \ {Max(S)}]
        <5>1. S \ {Max(S)} \in SUBSET (1 .. k + 1) /\ k + 1 \notin S \ {Max(S)}
          BY <3>2
        <5> QED BY <5>1
      <4> QED BY <4>1, <4>2, <4>3
    <3> QED BY <3>1, <3>2
  <2>6. Peels(k + 1, base, step, g)
    <3> HIDE DEF g
    <3>1. g = [S \in SUBSET (1 .. k + 1) |-> g[S]]
      BY <2>4
    <3> QED BY <3>1, <2>5 DEF Peels
  <2> HIDE DEF g
  <2> QED BY <2>2, <2>4, <2>6
<1>3. n \in T
  <2> HIDE DEF T
  <2>1. 0 .. n \subseteq T
    BY <1>1, <1>2, CountingUp
  <2> QED BY <2>1
<1> QED BY <1>3

\* What it takes out of 1 .. k first.
LEMMA PeelingCounts ==
  ASSUME NEW n \in Nat, NEW k \in 1 .. n
  PROVE  /\ 1 .. k \in SUBSET (1 .. n) /\ 1 .. k # {}
         /\ Max(1 .. k) = k
         /\ (1 .. k) \ {k} = 1 .. k - 1
<1>1. 1 .. k \in SUBSET (1 .. n) /\ k \in 1 .. k /\ 1 .. k # {}
  OBVIOUS
<1>2. Max(1 .. k) \in 1 .. k /\ \A y \in 1 .. k : y <= Max(1 .. k)
  BY <1>1, MaxOfSome
<1>3. (1 .. k) \ {k} = 1 .. k - 1
  OBVIOUS
<1> QED BY <1>1, <1>2, <1>3

(***************************************************************************)
(* A recursion over 0 .. n, one step a number: the function that a         *)
(* recursive definition of the form                                        *)
(*   f[i \in 0 .. n] == IF i = 0 THEN base ELSE step[i][f[i - 1]]          *)
(* speaks of exists, and its values stay in B.                             *)
(***************************************************************************)
Steps(n, base, step, f) ==
  f = [i \in 0 .. n |-> IF i = 0 THEN base ELSE step[i][f[i - 1]]]

LEMMA StepsExist ==
  ASSUME NEW n \in Nat, NEW B, NEW base \in B, NEW step \in [1 .. n -> [B -> B]]
  PROVE  \E f \in [0 .. n -> B] : Steps(n, base, step, f)
<1>1. PICK g \in [SUBSET (1 .. n) -> B] : Peels(n, base, step, g)
  BY PeelingExists
<1> DEFINE f == [i \in 0 .. n |-> g[1 .. i]]
<1>2. \A i \in 0 .. n : 1 .. i \in SUBSET (1 .. n)
  OBVIOUS
<1>3. f \in [0 .. n -> B]
  BY <1>1, <1>2
<1>4. \A S \in SUBSET (1 .. n) :
         g[S] = IF S = {} THEN base ELSE step[Max(S)][g[S \ {Max(S)}]]
  BY <1>1 DEF Peels
<1>5. ASSUME NEW i \in 0 .. n PROVE f[i] = IF i = 0 THEN base ELSE step[i][f[i - 1]]
  <2>1. CASE i = 0
    <3>1. 1 .. i = {} /\ f[i] = g[1 .. i]
      BY <2>1
    <3> QED BY <2>1, <3>1, <1>2, <1>4
  <2>2. CASE i # 0
    <3>1. i \in 1 .. n /\ i - 1 \in 0 .. n /\ f[i] = g[1 .. i] /\ f[i - 1] = g[1 .. i - 1]
      BY <2>2
    <3>2. /\ 1 .. i \in SUBSET (1 .. n) /\ 1 .. i # {} /\ Max(1 .. i) = i
          /\ (1 .. i) \ {i} = 1 .. i - 1
      BY <3>1, PeelingCounts
    <3> HIDE DEF f
    <3> QED BY <2>2, <3>1, <3>2, <1>4
  <2> QED BY <2>1, <2>2
<1>6. Steps(n, base, step, f)
  <2> HIDE DEF f
  <2>1. f = [i \in 0 .. n |-> f[i]]
    BY <1>3
  <2> QED BY <2>1, <1>5 DEF Steps
<1> HIDE DEF f
<1> QED BY <1>3, <1>6

\* The passes of EraseAll.
Erases(run, s, S) ==
  /\ run[0] = <<>>
  /\ \A k \in 1 .. Len(s) :
       run[k] = IF s[k] \in S THEN run[k - 1] ELSE Append(run[k - 1], s[k])

LEMMA EraseAllRuns ==
  ASSUME NEW A, NEW s \in Seq(A), NEW S
  PROVE  \E run \in [0 .. Len(s) -> Seq(A)] :
           Erases(run, s, S) /\ EraseAll(s, S) = run[Len(s)]
<1> DEFINE n == Len(s)
           step == [k \in 1 .. n |->
                      [q \in Seq(A) |-> IF s[k] \in S THEN q ELSE Append(q, s[k])]]
           Iterates(f) ==
             f = [D \in SUBSET DOMAIN s |->
                    IF D = {} THEN <<>>
                    ELSE IF s[Max(D)] \in S THEN f[D \ {Max(D)}]
                    ELSE Append(f[D \ {Max(D)}], s[Max(D)])]
           it == CHOOSE f : Iterates(f)
<1>1. n \in Nat /\ DOMAIN s = 1 .. n /\ <<>> \in Seq(A) /\ \A k \in 1 .. n : s[k] \in A
  OBVIOUS
<1>2. step \in [1 .. n -> [Seq(A) -> Seq(A)]]
  BY <1>1
<1>3. EraseAll(s, S) = it[1 .. n]
  BY <1>1 DEF EraseAll, FoldLeft, MapThenFoldSet
<1>4. \A D \in SUBSET (1 .. n) : D # {} => Max(D) \in 1 .. n
  BY <1>1, MaxOfSome
<1>5. PICK f \in [SUBSET (1 .. n) -> Seq(A)] : Peels(n, <<>>, step, f)
  <2> HIDE DEF step, n
  <2> QED BY <1>1, <1>2, PeelingExists
<1>6. \A k \in 1 .. n : \A q \in Seq(A) :
        step[k][q] = IF s[k] \in S THEN q ELSE Append(q, s[k])
  OBVIOUS
<1>7. Iterates(f)
  <2>1. \A D \in SUBSET (1 .. n) : D \ {Max(D)} \in SUBSET (1 .. n)
    OBVIOUS
  <2>2. ASSUME NEW D \in SUBSET (1 .. n)
        PROVE  f[D] = IF D = {} THEN <<>>
                      ELSE IF s[Max(D)] \in S THEN f[D \ {Max(D)}]
                      ELSE Append(f[D \ {Max(D)}], s[Max(D)])
    <3>1. f[D] = IF D = {} THEN <<>> ELSE step[Max(D)][f[D \ {Max(D)}]]
      BY <1>5 DEF Peels
    <3>2. f[D \ {Max(D)}] \in Seq(A)
      BY <2>1, <1>5
    <3> HIDE DEF step, n
    <3> QED BY <3>1, <3>2, <1>4, <1>6
  <2>3. f = [D \in SUBSET (1 .. n) |-> f[D]]
    BY <1>5
  <2> HIDE DEF step, n
  <2> QED BY <2>2, <2>3, <1>1
<1>8. \A D \in SUBSET (1 .. n) :
        it[D] = IF D = {} THEN <<>>
                ELSE IF s[Max(D)] \in S THEN it[D \ {Max(D)}]
                ELSE Append(it[D \ {Max(D)}], s[Max(D)])
  <2>1. Iterates(it)
    BY <1>7
  <2> HIDE DEF it
  <2> QED BY <2>1, <1>1
<1> HIDE DEF it, n
<1> DEFINE run == [k \in 0 .. n |-> it[1 .. k]]
<1>9. run[0] = <<>> /\ run[n] = it[1 .. n]
  <2>1. 1 .. 0 = {} /\ {} \in SUBSET (1 .. n) /\ 0 \in 0 .. n /\ n \in 0 .. n
    BY <1>1
  <2> QED BY <2>1, <1>8
<1>10. ASSUME NEW k \in 1 .. n
       PROVE  run[k] = IF s[k] \in S THEN run[k - 1] ELSE Append(run[k - 1], s[k])
  <2>1. run[k] = it[1 .. k] /\ run[k - 1] = it[1 .. k - 1]
    BY <1>1
  <2> HIDE DEF run
  <2>2. PICK D : D = 1 .. k
    OBVIOUS
  <2>3. /\ D \in SUBSET (1 .. n) /\ D # {} /\ Max(D) = k /\ D \ {Max(D)} = 1 .. k - 1
    BY <1>1, <2>2, PeelingCounts
  <2>4. it[D] = IF s[Max(D)] \in S THEN it[D \ {Max(D)}]
                ELSE Append(it[D \ {Max(D)}], s[Max(D)])
    BY <1>8, <2>3
  <2> QED BY <2>1, <2>2, <2>3, <2>4
<1> HIDE DEF run
<1>11. \A k \in 0 .. n : run[k] \in Seq(A)
  <2> DEFINE T == {k \in 0 .. n : run[k] \in Seq(A)}
  <2>1. 0 \in T
    <3>1. 0 \in 0 .. n /\ run[0] \in Seq(A)
      BY <1>1, <1>9
    <3> QED BY <3>1
  <2>2. ASSUME NEW k \in 0 .. n - 1, k \in T PROVE k + 1 \in T
    <3>1. k + 1 \in 1 .. n /\ (k + 1) - 1 = k /\ run[k] \in Seq(A) /\ s[k + 1] \in A
      BY <2>2, <1>1
    <3>2. run[k + 1] = IF s[k + 1] \in S THEN run[k] ELSE Append(run[k], s[k + 1])
      BY <3>1, <1>10
    <3>3. run[k + 1] \in Seq(A) /\ k + 1 \in 0 .. n
      BY <3>1, <3>2
    <3> QED BY <3>3
  <2>3. 0 .. n \subseteq T
    <3> HIDE DEF T
    <3> QED BY <2>1, <2>2, <1>1, CountingUp
  <2> QED BY <2>3
<1>12. run \in [0 .. n -> Seq(A)]
  BY <1>11 DEF run
<1>13. Erases(run, s, S)
  BY <1>9, <1>10 DEF Erases, n
<1> QED BY <1>3, <1>9, <1>12, <1>13 DEF n

(***************************************************************************)
(* What EraseAll leaves: h gives the positions the elements come from.     *)
(***************************************************************************)
KeptFrom(r, s, S, k, h) ==
  /\ h \in [1 .. Len(r) -> 1 .. k]
  /\ \A i, j \in 1 .. Len(r) : i < j => h[i] < h[j]
  /\ \A i \in 1 .. Len(r) : r[i] = s[h[i]] /\ r[i] \notin S
  /\ \A j \in 1 .. k : s[j] \notin S => \E i \in 1 .. Len(r) : h[i] = j

LEMMA EraseAllKeeps ==
  ASSUME NEW A, NEW s \in Seq(A), NEW S
  PROVE  /\ EraseAll(s, S) \in Seq(A)
         /\ \E h : KeptFrom(EraseAll(s, S), s, S, Len(s), h)
<1> DEFINE n == Len(s)
<1>1. PICK run \in [0 .. n -> Seq(A)] :
         Erases(run, s, S) /\ EraseAll(s, S) = run[n]
  BY EraseAllRuns
<1>2. n \in Nat /\ \A k \in 1 .. n : s[k] \in A
  OBVIOUS
<1> HIDE DEF n
<1> DEFINE T == {k \in 0 .. n : \E h : KeptFrom(run[k], s, S, k, h)}
<1>3. 0 \in T
  <2> DEFINE h == [i \in 1 .. 0 |-> 0]
  <2>1. KeptFrom(<<>>, s, S, 0, h)
    BY DEF KeptFrom
  <2>2. 0 \in 0 .. n
    BY <1>2
  <2> HIDE DEF h
  <2> QED BY <2>1, <2>2, <1>1 DEF Erases
<1>4. ASSUME NEW k \in 0 .. n - 1, k \in T PROVE k + 1 \in T
  <2>1. /\ k \in Nat /\ k + 1 \in 1 .. n /\ (k + 1) - 1 = k /\ k + 1 \in 0 .. n
        /\ k \in 0 .. n
    BY <1>2
  <2>2. PICK h : KeptFrom(run[k], s, S, k, h)
    BY <1>4
  <2> DEFINE r == run[k]
             x == s[k + 1]
  <2>3. r \in Seq(A) /\ x \in A /\ run[k + 1] = IF x \in S THEN r ELSE Append(r, x)
    BY <1>1, <1>2, <2>1 DEF Erases, n
  <2>4. KeptFrom(r, s, S, k, h)
    BY <2>2
  <2> HIDE DEF r, x
  <2>5. CASE x \in S
    <3>1. KeptFrom(r, s, S, k + 1, h)
      BY <2>1, <2>3, <2>4, <2>5 DEF KeptFrom, x
    <3> QED BY <2>1, <2>3, <2>5, <3>1
  <2>6. CASE x \notin S
    <3> DEFINE l == Len(r)
               q == Append(r, x)
               g == [i \in 1 .. l + 1 |-> IF i = l + 1 THEN k + 1 ELSE h[i]]
    <3>1. l \in Nat /\ Len(q) = l + 1 /\ q[l + 1] = x /\ \A i \in 1 .. l : q[i] = r[i]
      BY <2>3
    <3>2. /\ h \in [1 .. l -> 1 .. k]
          /\ \A i, j \in 1 .. l : i < j => h[i] < h[j]
          /\ \A i \in 1 .. l : r[i] = s[h[i]] /\ r[i] \notin S
          /\ \A j \in 1 .. k : s[j] \notin S => \E i \in 1 .. l : h[i] = j
      BY <2>4 DEF KeptFrom
    <3> HIDE DEF l, q
    <3>3. g \in [1 .. l + 1 -> 1 .. k + 1]
      BY <2>1, <3>1, <3>2
    <3>4. ASSUME NEW i \in 1 .. l + 1, NEW j \in 1 .. l + 1, i < j PROVE g[i] < g[j]
      <4>1. i \in 1 .. l /\ g[i] = h[i] /\ h[i] \in 1 .. k
        BY <3>1, <3>2, <3>4
      <4>2. CASE j = l + 1
        BY <4>1, <4>2, <2>1
      <4>3. CASE j # l + 1
        BY <4>1, <4>3, <3>1, <3>2, <3>4
      <4> QED BY <4>2, <4>3
    <3>5. ASSUME NEW i \in 1 .. l + 1 PROVE q[i] = s[g[i]] /\ q[i] \notin S
      <4>1. CASE i = l + 1
        BY <4>1, <3>1, <2>6 DEF x
      <4>2. CASE i # l + 1
        <5>1. i \in 1 .. l /\ g[i] = h[i]
          BY <3>1, <4>2
        <5> QED BY <5>1, <3>1, <3>2
      <4> QED BY <4>1, <4>2
    <3>6. ASSUME NEW j \in 1 .. k + 1, s[j] \notin S PROVE \E i \in 1 .. l + 1 : g[i] = j
      <4>1. CASE j = k + 1
        <5>1. l + 1 \in 1 .. l + 1 /\ g[l + 1] = k + 1
          BY <3>1
        <5> QED BY <5>1, <4>1
      <4>2. CASE j # k + 1
        <5>1. PICK i \in 1 .. l : h[i] = j
          BY <2>1, <3>2, <3>6, <4>2
        <5>2. i \in 1 .. l + 1 /\ g[i] = h[i]
          BY <3>1
        <5> QED BY <5>1, <5>2
      <4> QED BY <4>1, <4>2
    <3> HIDE DEF g
    <3>7. KeptFrom(q, s, S, k + 1, g)
      BY <3>1, <3>3, <3>4, <3>5, <3>6 DEF KeptFrom
    <3> QED BY <2>1, <2>3, <2>6, <3>7 DEF q
  <2> QED BY <2>5, <2>6
<1>5. n \in T
  <2> HIDE DEF T
  <2>1. 0 .. n \subseteq T
    BY <1>2, <1>3, <1>4, CountingUp
  <2> QED BY <1>2, <2>1
<1>6. run[n] \in Seq(A)
  BY <1>1, <1>2
<1> QED BY <1>1, <1>5, <1>6 DEF n

\* The elements it leaves, and that it leaves no element twice that was there once.
LEMMA EraseAllLeaves ==
  ASSUME NEW A, NEW s \in Seq(A), NEW S
  PROVE  /\ EraseAll(s, S) \in Seq(A)
         /\ ToSet(EraseAll(s, S)) = ToSet(s) \ S
         /\ IsInjective(s) => IsInjective(EraseAll(s, S))
<1> DEFINE r == EraseAll(s, S)
<1>1. r \in Seq(A)
  BY EraseAllKeeps
<1>2. PICK h : KeptFrom(r, s, S, Len(s), h)
  BY EraseAllKeeps
<1> HIDE DEF r
<1>3. /\ DOMAIN r = 1 .. Len(r) /\ DOMAIN s = 1 .. Len(s)
      /\ Len(r) \in Nat /\ Len(s) \in Nat
  BY <1>1
<1>4. ToSet(r) = ToSet(s) \ S
  BY <1>2, <1>3 DEF KeptFrom, ToSet
<1>5. ASSUME IsInjective(s) PROVE IsInjective(r)
  <2> SUFFICES ASSUME NEW i \in 1 .. Len(r), NEW j \in 1 .. Len(r), r[i] = r[j]
               PROVE  i = j
    BY <1>3 DEF IsInjective
  <2>1. h[i] \in 1 .. Len(s) /\ h[j] \in 1 .. Len(s) /\ s[h[i]] = s[h[j]]
    BY <1>2 DEF KeptFrom
  <2>2. h[i] = h[j]
    BY <2>1, <1>3, <1>5 DEF IsInjective
  <2> QED BY <2>1, <2>2, <1>2, <1>3 DEF KeptFrom
<1> QED BY <1>1, <1>4, <1>5 DEF r

\* A list that names no element twice is as long as it has elements.
LEMMA LengthOfInjective ==
  ASSUME NEW A, NEW s \in Seq(A), IsInjective(s)
  PROVE  IsFiniteSet(ToSet(s)) /\ Cardinality(ToSet(s)) = Len(s)
<1> DEFINE D == 1 .. Len(s)
<1>1. Len(s) \in Nat /\ DOMAIN s = D
  OBVIOUS
<1>2. IsFiniteSet(D) /\ Cardinality(D) = Len(s)
  <2>1. Cardinality(D) = IF 1 > Len(s) THEN 0 ELSE Len(s) - 1 + 1
    BY <1>1, FS_Interval
  <2> QED BY <1>1, <2>1, FS_Interval
<1>3. s \in Surjection(D, ToSet(s)) /\ s \in Injection(D, ToSet(s))
  <2> HIDE DEF D
  <2>1. s \in [D -> ToSet(s)]
    <3>1. s = [i \in D |-> s[i]]
      BY <1>1
    <3> QED BY <1>1, <3>1 DEF ToSet
  <2> QED BY <1>1, <2>1 DEF Surjection, Injection, IsInjective, ToSet
<1> HIDE DEF D
<1> QED BY <1>2, <1>3, FS_Surjection

\* SetToSeqs lists every element of a finite set, each once.
LEMMA SetToSeqsLists ==
  ASSUME NEW S, IsFiniteSet(S), NEW q \in SetToSeqs(S)
  PROVE  q \in Seq(S) /\ IsInjective(q) /\ ToSet(q) = S
<1> DEFINE n == Cardinality(S)
           D == 1 .. n
<1>1. n \in Nat
  BY FS_CardinalityType
<1>2. q \in [D -> S] /\ \A i, j \in D : i # j => q[i] # q[j]
  BY DEF SetToSeqs
<1>3. IsFiniteSet(D) /\ Cardinality(D) = n
  <2>1. Cardinality(D) = IF 1 > n THEN 0 ELSE n - 1 + 1
    BY <1>1, FS_Interval
  <2> QED BY <1>1, <2>1, FS_Interval
<1>4. q \in Injection(D, S) /\ DOMAIN q = D
  BY <1>2 DEF Injection, IsInjective
<1>5. q \in Seq(S)
  BY <1>1, <1>2
<1> HIDE DEF n, D
<1>6. q \in Surjection(D, S)
  BY <1>3, <1>4, FS_Injection DEF n
<1> QED BY <1>2, <1>4, <1>5, <1>6 DEF Surjection, IsInjective, ToSet

\* A function on 1 .. n is a list.
LEMMA FunctionIsList ==
  ASSUME NEW S, NEW n \in Nat, NEW f \in [1 .. n -> S]
  PROVE  f \in Seq(S) /\ Len(f) = n
OBVIOUS

\* One list after the other.
LEMMA ConcatLeaves ==
  ASSUME NEW A, NEW s \in Seq(A), NEW t \in Seq(A)
  PROVE  /\ s \o t \in Seq(A)
         /\ ToSet(s \o t) = ToSet(s) \cup ToSet(t)
         /\ (IsInjective(s) /\ IsInjective(t) /\ ToSet(s) \cap ToSet(t) = {})
              => IsInjective(s \o t)
<1>1. PICK q, m, n : q = s \o t /\ m = Len(s) /\ n = Len(t)
  OBVIOUS
<1>2. /\ m \in Nat /\ n \in Nat /\ q \in Seq(A)
      /\ DOMAIN s = 1 .. m /\ DOMAIN t = 1 .. n /\ DOMAIN q = 1 .. m + n
      /\ \A i \in 1 .. m : q[i] = s[i]
      /\ \A i \in m + 1 .. m + n : q[i] = t[i - m]
  BY <1>1
<1>3. /\ \A i \in 1 .. m + n : i \in 1 .. m \/ (i \in m + 1 .. m + n /\ i - m \in 1 .. n)
      /\ \A i \in 1 .. m : i \in 1 .. m + n
      /\ \A i \in 1 .. n : m + i \in 1 .. m + n /\ m + i \in m + 1 .. m + n /\ (m + i) - m = i
  BY <1>2
<1>4. ASSUME NEW i \in 1 .. m + n
      PROVE  \/ i \in 1 .. m /\ q[i] = s[i] /\ q[i] \in ToSet(s)
             \/ i - m \in 1 .. n /\ q[i] = t[i - m] /\ q[i] \in ToSet(t)
  BY <1>2, <1>3 DEF ToSet
<1>5. ToSet(q) = ToSet(s) \cup ToSet(t)
  <2>1. ToSet(q) \subseteq ToSet(s) \cup ToSet(t)
    BY <1>2, <1>4 DEF ToSet
  <2>2. ASSUME NEW i \in 1 .. m PROVE s[i] \in ToSet(q)
    BY <1>2, <1>3 DEF ToSet
  <2>3. ASSUME NEW i \in 1 .. n PROVE t[i] \in ToSet(q)
    <3>1. PICK k \in 1 .. m + n : k = m + i /\ k \in m + 1 .. m + n /\ k - m = i
      BY <1>3
    <3>2. q[k] = t[i]
      BY <1>2, <3>1
    <3> QED BY <1>2, <3>2 DEF ToSet
  <2>4. \A x \in ToSet(s) : \E i \in 1 .. m : x = s[i]
    BY <1>2 DEF ToSet
  <2>5. \A x \in ToSet(t) : \E i \in 1 .. n : x = t[i]
    BY <1>2 DEF ToSet
  <2> QED BY <2>1, <2>2, <2>3, <2>4, <2>5
<1>6. ASSUME IsInjective(s), IsInjective(t), ToSet(s) \cap ToSet(t) = {},
             NEW i \in 1 .. m + n, NEW j \in 1 .. m + n, q[i] = q[j]
      PROVE  i = j
  <2>1. CASE i \in 1 .. m /\ q[i] = s[i] /\ q[i] \in ToSet(s)
    <3>1. j \in 1 .. m /\ q[j] = s[j]
      BY <1>4, <1>6, <2>1
    <3> QED BY <1>2, <1>6, <2>1, <3>1 DEF IsInjective
  <2>2. CASE i - m \in 1 .. n /\ q[i] = t[i - m] /\ q[i] \in ToSet(t)
    <3>1. j - m \in 1 .. n /\ q[j] = t[j - m]
      BY <1>4, <1>6, <2>2
    <3>2. i - m = j - m
      BY <1>2, <1>6, <2>2, <3>1 DEF IsInjective
    <3> QED BY <1>2, <3>2
  <2> QED BY <1>4, <2>1, <2>2
<1>7. (IsInjective(s) /\ IsInjective(t) /\ ToSet(s) \cap ToSet(t) = {}) => IsInjective(q)
  BY <1>2, <1>6 DEF IsInjective
<1> QED BY <1>1, <1>2, <1>5, <1>7

\* A sort: the same elements in other places.
LEMMA ReorderLeaves ==
  ASSUME NEW A, NEW s \in Seq(A), NEW place \in Bijection(DOMAIN s, DOMAIN s),
         NEW q, q = [i \in DOMAIN s |-> s[place[i]]]
  PROVE  /\ q \in Seq(A) /\ DOMAIN q = DOMAIN s /\ ToSet(q) = ToSet(s)
         /\ IsInjective(s) => IsInjective(q)
<1>1. PICK n \in Nat : n = Len(s) /\ DOMAIN s = 1 .. n /\ \A i \in 1 .. n : s[i] \in A
  OBVIOUS
<1>2. /\ place \in [1 .. n -> 1 .. n]
      /\ \A i, j \in 1 .. n : place[i] = place[j] => i = j
      /\ \A k \in 1 .. n : \E i \in 1 .. n : place[i] = k
  BY <1>1 DEF Bijection, Injection, Surjection, IsInjective
<1>3. q = [i \in 1 .. n |-> s[place[i]]]
  BY <1>1
<1>4. \A i \in 1 .. n : place[i] \in 1 .. n /\ q[i] = s[place[i]]
  BY <1>2, <1>3
<1>5. q \in Seq(A) /\ DOMAIN q = 1 .. n
  <2>1. q \in [1 .. n -> A]
    BY <1>1, <1>3, <1>4
  <2>2. q \in Seq(A)
    BY <1>1, <2>1, FunctionIsList
  <2> QED BY <1>3, <2>2
<1>6. ToSet(q) = ToSet(s)
  BY <1>1, <1>2, <1>4, <1>5 DEF ToSet
<1>7. ASSUME IsInjective(s), NEW i \in 1 .. n, NEW j \in 1 .. n, q[i] = q[j] PROVE i = j
  <2>1. s[place[i]] = s[place[j]] /\ place[i] \in 1 .. n /\ place[j] \in 1 .. n
    BY <1>4, <1>7
  <2>2. place[i] = place[j]
    BY <1>1, <1>7, <2>1 DEF IsInjective
  <2> QED BY <1>2, <2>2
<1>8. IsInjective(s) => IsInjective(q)
  BY <1>5, <1>7 DEF IsInjective
<1> QED BY <1>1, <1>5, <1>6, <1>8

\* push_back: one more element, and none twice if it was not there.
LEMMA AppendLeaves ==
  ASSUME NEW A, NEW s \in Seq(A), NEW x \in A
  PROVE  /\ Append(s, x) \in Seq(A)
         /\ ToSet(Append(s, x)) = ToSet(s) \cup {x}
         /\ IsInjective(s) /\ x \notin ToSet(s) => IsInjective(Append(s, x))
<1> DEFINE n == Len(s)
           q == Append(s, x)
<1>1. /\ n \in Nat /\ DOMAIN s = 1 .. n /\ q \in Seq(A) /\ DOMAIN q = 1 .. n + 1
      /\ q[n + 1] = x /\ \A i \in 1 .. n : q[i] = s[i]
  OBVIOUS
<1>2. \A i \in 1 .. n + 1 : i = n + 1 \/ i \in 1 .. n
  BY <1>1
<1>3. n + 1 \in 1 .. n + 1 /\ \A i \in 1 .. n : i \in 1 .. n + 1
  BY <1>1
<1> HIDE DEF n, q
<1>4. ToSet(q) = ToSet(s) \cup {x}
  BY <1>1, <1>2, <1>3 DEF ToSet
<1>5. IsInjective(s) /\ x \notin ToSet(s) => IsInjective(q)
  BY <1>1, <1>2 DEF IsInjective, ToSet
<1> QED BY <1>1, <1>4, <1>5 DEF q

\* The elements of two lists that are joined.
LEMMA JoinedLists ==
  ASSUME NEW A, NEW s \in Seq(A), NEW t \in Seq(A)
  PROVE  /\ s \o t \in Seq(A) /\ Len(s \o t) = Len(s) + Len(t)
         /\ \A i \in 1 .. Len(s) : (s \o t)[i] = s[i]
         /\ \A i \in 1 .. Len(t) : (s \o t)[Len(s) + i] = t[i]
OBVIOUS

\* FlattenSeq joins the lists of a list, one after the other: run[k] is the first k of them.
Joins(run, s) == run[0] = <<>> /\ \A k \in 1 .. Len(s) : run[k] = run[k - 1] \o s[k]

\* Such a run exists for every list of lists.
LEMMA FlattenRuns ==
  ASSUME NEW A, NEW s \in Seq(Seq(A))
  PROVE  \E run \in [0 .. Len(s) -> Seq(A)] : Joins(run, s) /\ FlattenSeq(s) = run[Len(s)]
<1> DEFINE n == Len(s)
           step == [k \in 1 .. n |-> [q \in Seq(A) |-> q \o s[k]]]
           Iterates(g) == g = [i \in 1 .. n |-> IF i = 1 THEN s[i] ELSE g[i - 1] \o s[i]]
           it == CHOOSE g : Iterates(g)
<1>1. n \in Nat /\ <<>> \in Seq(A) /\ \A k \in 1 .. n : s[k] \in Seq(A)
  OBVIOUS
<1>2. step \in [1 .. n -> [Seq(A) -> Seq(A)]]
  BY <1>1
<1>3. PICK f \in [0 .. n -> Seq(A)] : Steps(n, <<>>, step, f)
  <2> HIDE DEF n, step
  <2> QED BY <1>1, <1>2, StepsExist
<1>4. \A k \in 1 .. n : \A q \in Seq(A) : step[k][q] = q \o s[k]
  OBVIOUS
<1>5. f[0] = <<>> /\ \A k \in 1 .. n : f[k] = f[k - 1] \o s[k]
  <2>1. \A i \in 0 .. n : f[i] = IF i = 0 THEN <<>> ELSE step[i][f[i - 1]]
    <3> HIDE DEF n, step
    <3> QED BY <1>3 DEF Steps
  <2> HIDE DEF n, step
  <2>2. \A k \in 1 .. n : k \in 0 .. n /\ k # 0 /\ f[k - 1] \in Seq(A)
    BY <1>1
  <2>3. 0 \in 0 .. n
    BY <1>1
  <2> QED BY <2>1, <2>2, <2>3, <1>4
<1>6. n = 0 => FlattenSeq(s) = <<>>
  BY DEF FlattenSeq
<1>7. n # 0 => FlattenSeq(s) = it[n]
  BY DEF FlattenSeq
<1>8. ASSUME n # 0 PROVE it[n] = f[n]
  <2>1. f[1] = s[1]
    <3>1. 1 \in 1 .. n /\ 1 - 1 = 0 /\ s[1] \in Seq(A)
      BY <1>1, <1>8
    <3>2. f[1] = f[1 - 1] \o s[1]
      BY <3>1, <1>5
    <3>3. f[1] = <<>> \o s[1]
      BY <3>1, <3>2, <1>5
    <3>4. <<>> \o s[1] = s[1]
      BY <3>1, ConcatEmptySeq
    <3> QED BY <3>3, <3>4
  <2>2. Iterates([i \in 1 .. n |-> f[i]])
    <3> DEFINE g == [i \in 1 .. n |-> f[i]]
    <3>1. ASSUME NEW i \in 1 .. n PROVE g[i] = IF i = 1 THEN s[i] ELSE g[i - 1] \o s[i]
      <4>1. CASE i = 1
        BY <2>1, <4>1
      <4>2. CASE i # 1
        <5>1. i - 1 \in 1 .. n
          BY <1>1, <4>2
        <5> QED BY <1>5, <4>2, <5>1
      <4> QED BY <4>1, <4>2
    <3> QED BY <3>1
  <2>3. Iterates(it)
    <3> HIDE DEF n
    <3> QED BY <2>2
  <2>4. \A i \in 1 .. n : it[i] = IF i = 1 THEN s[i] ELSE it[i - 1] \o s[i]
    <3> HIDE DEF it
    <3> QED BY <2>3
  <2> HIDE DEF it, step
  <2> DEFINE T == {k \in 0 .. n : k # 0 => it[k] = f[k]}
  <2>5. 0 \in T
    BY <1>1
  <2>6. ASSUME NEW k \in 0 .. n - 1, k \in T PROVE k + 1 \in T
    <3>1. k + 1 \in 1 .. n /\ (k + 1) - 1 = k /\ k + 1 \in 0 .. n
      BY <1>1
    <3>2. it[k + 1] = IF k + 1 = 1 THEN s[k + 1] ELSE it[k] \o s[k + 1]
      BY <2>4, <3>1
    <3>3. CASE k = 0
      BY <2>1, <3>1, <3>2, <3>3
    <3>4. CASE k # 0
      <4>1. it[k] = f[k] /\ k + 1 # 1
        BY <2>6, <3>1, <3>4
      <4>2. it[k + 1] = f[k] \o s[k + 1]
        BY <3>2, <4>1
      <4>3. f[k + 1] = f[k] \o s[k + 1]
        BY <1>5, <3>1
      <4> QED BY <3>1, <4>2, <4>3
    <3> QED BY <3>3, <3>4
  <2>7. n \in T
    <3> HIDE DEF T, n
    <3>1. 0 .. n \subseteq T
      BY <1>1, <2>5, <2>6, CountingUp
    <3> QED BY <1>1, <3>1
  <2> QED BY <1>8, <2>7
<1>9. FlattenSeq(s) = f[n]
  <2> HIDE DEF n, it, step
  <2> QED BY <1>5, <1>6, <1>7, <1>8
<1> HIDE DEF step, it
<1> QED BY <1>3, <1>5, <1>9 DEF Joins

\* It is the last list of any such run.
LEMMA FlattenIs ==
  ASSUME NEW A, NEW s \in Seq(Seq(A)), NEW run \in [0 .. Len(s) -> Seq(A)], Joins(run, s)
  PROVE  FlattenSeq(s) = run[Len(s)] /\ FlattenSeq(s) \in Seq(A)
<1> DEFINE n == Len(s)
<1>1. n \in Nat
  OBVIOUS
<1>2. PICK f \in [0 .. n -> Seq(A)] : Joins(f, s) /\ FlattenSeq(s) = f[n]
  BY FlattenRuns
<1> DEFINE T == {k \in 0 .. n : run[k] = f[k]}
<1>3. 0 \in T
  BY <1>1, <1>2 DEF Joins
<1>4. ASSUME NEW k \in 0 .. n - 1, k \in T PROVE k + 1 \in T
  <2>1. k + 1 \in 1 .. n /\ (k + 1) - 1 = k /\ k + 1 \in 0 .. n
    BY <1>1
  <2>2. run[k + 1] = run[k] \o s[k + 1] /\ f[k + 1] = f[k] \o s[k + 1]
    BY <2>1, <1>2 DEF Joins
  <2> QED BY <1>4, <2>1, <2>2
<1>5. n \in T
  <2> HIDE DEF T, n
  <2>1. 0 .. n \subseteq T
    BY <1>1, <1>3, <1>4, CountingUp
  <2> QED BY <1>1, <2>1
<1>6. run[n] = f[n] /\ run[n] \in Seq(A)
  BY <1>1, <1>5
<1> QED BY <1>2, <1>6

\* One more list at the end, or at the front.
LEMMA FlattenMore ==
  ASSUME NEW A, NEW s \in Seq(Seq(A)), NEW x \in Seq(A)
  PROVE  /\ FlattenSeq(s) \in Seq(A)
         /\ FlattenSeq(Append(s, x)) = FlattenSeq(s) \o x
         /\ FlattenSeq(<<x>> \o s) = x \o FlattenSeq(s)
<1> DEFINE n == Len(s)
           app == Append(s, x)
           con == <<x>> \o s
<1>1. n \in Nat /\ \A k \in 1 .. n : s[k] \in Seq(A)
  OBVIOUS
<1>2. PICK f \in [0 .. n -> Seq(A)] : Joins(f, s) /\ FlattenSeq(s) = f[n]
  BY FlattenRuns
<1>3. f[0] = <<>> /\ (\A k \in 1 .. n : f[k] = f[k - 1] \o s[k]) /\ f[n] \in Seq(A)
  BY <1>1, <1>2 DEF Joins
<1>4. /\ app \in Seq(Seq(A)) /\ Len(app) = n + 1 /\ app[n + 1] = x
      /\ \A k \in 1 .. n : app[k] = s[k]
  OBVIOUS
<1>5. /\ con \in Seq(Seq(A)) /\ Len(con) = n + 1 /\ con[1] = x
      /\ \A k \in 1 .. n : con[k + 1] = s[k]
  <2>1. <<x>> \in Seq(Seq(A)) /\ Len(<<x>>) = 1 /\ <<x>>[1] = x
    OBVIOUS
  <2>2. /\ con \in Seq(Seq(A)) /\ Len(con) = 1 + n
        /\ \A k \in 1 .. 1 + n : con[k] = IF k <= 1 THEN <<x>>[k] ELSE s[k - 1]
    BY <2>1, ConcatProperties
  <2>3. /\ 1 \in 1 .. 1 + n
        /\ \A k \in 1 .. n : k + 1 \in 1 .. 1 + n /\ ~(k + 1 <= 1) /\ (k + 1) - 1 = k
    BY <1>1
  <2> HIDE DEF con
  <2> QED BY <1>1, <2>1, <2>2, <2>3
<1> HIDE DEF n, app, con
<1>6. FlattenSeq(app) = f[n] \o x
  <2> DEFINE g == [k \in 0 .. n + 1 |-> IF k = n + 1 THEN f[n] \o x ELSE f[k]]
  <2>1. g \in [0 .. n + 1 -> Seq(A)] /\ g[n + 1] = f[n] \o x
    BY <1>1, <1>2, <1>3
  <2>2. Joins(g, app)
    <3>1. g[0] = <<>>
      BY <1>1, <1>3
    <3>2. ASSUME NEW k \in 1 .. n + 1 PROVE g[k] = g[k - 1] \o app[k]
      <4>1. CASE k = n + 1
        <5>1. k - 1 = n /\ n \in 0 .. n + 1 /\ n # n + 1 /\ n + 1 \in 0 .. n + 1
          BY <4>1, <1>1
        <5>2. g[k] = f[n] \o x /\ g[k - 1] = f[n] /\ app[k] = x
          BY <4>1, <5>1, <1>4
        <5> QED BY <5>2
      <4>2. CASE k # n + 1
        <5>1. k \in 1 .. n /\ k - 1 \in 0 .. n
          BY <1>1, <4>2
        <5>2. g[k] = f[k] /\ g[k - 1] = f[k - 1] /\ app[k] = s[k]
          BY <1>1, <1>4, <5>1
        <5> QED BY <1>3, <5>1, <5>2
      <4> QED BY <4>1, <4>2
    <3> HIDE DEF g
    <3> QED BY <3>1, <3>2, <1>4 DEF Joins
  <2> HIDE DEF g
  <2> QED BY <2>1, <2>2, <1>4, FlattenIs
<1>7. FlattenSeq(con) = x \o f[n]
  <2> DEFINE g == [k \in 0 .. n + 1 |-> IF k = 0 THEN <<>> ELSE x \o f[k - 1]]
  <2>0. \A k \in 0 .. n + 1 : k # 0 => k - 1 \in 0 .. n /\ f[k - 1] \in Seq(A) /\ x \o f[k - 1] \in Seq(A)
    BY <1>1, <1>2
  <2>1. g \in [0 .. n + 1 -> Seq(A)] /\ g[n + 1] = x \o f[n]
    BY <1>1, <2>0
  <2>2. Joins(g, con)
    <3>1. g[0] = <<>>
      BY <1>1
    <3>2. ASSUME NEW k \in 1 .. n + 1 PROVE g[k] = g[k - 1] \o con[k]
      <4>1. CASE k = 1
        <5>1. g[1] = x \o f[0] /\ g[0] = <<>>
          BY <1>1
        <5>2. x \o <<>> = x /\ <<>> \o x = x
          BY ConcatEmptySeq
        <5> QED BY <4>1, <5>1, <5>2, <1>3, <1>5
      <4>2. CASE k # 1
        <5>1. k - 1 \in 1 .. n /\ (k - 1) - 1 \in 0 .. n /\ (k - 1) + 1 = k
          BY <1>1, <4>2
        <5> DEFINE j == k - 1
                   y == f[j - 1]
        <5>2. j \in 1 .. n /\ j + 1 = k /\ j - 1 \in 0 .. n /\ j \in 0 .. n + 1 /\ k \in 0 .. n + 1
              /\ j # 0 /\ k # 0 /\ k - 1 = j
          BY <5>1, <1>1
        <5> HIDE DEF j
        <5>3. g[k] = x \o f[j] /\ g[k - 1] = x \o y
          BY <5>2
        <5>4. con[k] = s[j] /\ f[j] = y \o s[j]
          BY <5>2, <1>3, <1>5
        <5> DEFINE z == s[j]
        <5>5. x \in Seq(A) /\ y \in Seq(A) /\ z \in Seq(A)
          BY <1>1, <1>2, <5>2
        <5> HIDE DEF g, y, z
        <5>6. (x \o y) \o z = x \o (y \o z)
          BY <5>5, ConcatAssociative
        <5> QED BY <5>3, <5>4, <5>6 DEF z
      <4> QED BY <4>1, <4>2
    <3> HIDE DEF g
    <3> QED BY <3>1, <3>2, <1>5 DEF Joins
  <2> HIDE DEF g
  <2> QED BY <2>1, <2>2, <1>5, FlattenIs
<1> QED BY <1>2, <1>3, <1>6, <1>7 DEF app, con
-----------------------------------------------------------------------------
(***************************************************************************)
(* Lists read from their ends, and what is left of them.                   *)
(***************************************************************************)
\* A list read from its end.
LEMMA ReverseIs ==
  ASSUME NEW O, NEW qs \in Seq(O)
  PROVE  /\ Reverse(qs) \in Seq(O) /\ Len(Reverse(qs)) = Len(qs)
         /\ \A k \in 1 .. Len(qs) : Reverse(qs)[k] = qs[Len(qs) - k + 1]
         /\ Reverse(Reverse(qs)) = qs
<1> DEFINE n == Len(qs)
           r == Reverse(qs)
<1>1. n \in Nat /\ qs = [k \in 1 .. n |-> qs[k]] /\ \A k \in 1 .. n : qs[k] \in O
  OBVIOUS
<1> HIDE DEF n
<1>2. r = [k \in 1 .. n |-> qs[(n - k) + 1]]
  BY <1>1 DEF Reverse, n
<1>3. \A k \in 1 .. n : (n - k) + 1 \in 1 .. n /\ (n - ((n - k) + 1)) + 1 = k
  BY <1>1
<1>4. r \in Seq(O) /\ Len(r) = n
  <2>1. \A k \in 1 .. n : qs[(n - k) + 1] \in O
    BY <1>1, <1>3
  <2> HIDE DEF r
  <2>2. r \in [1 .. n -> O]
    BY <1>2, <2>1
  <2> QED BY <1>1, <2>2, FunctionIsList
<1>5. Reverse(r) = [k \in 1 .. n |-> r[(n - k) + 1]]
  BY <1>4 DEF Reverse
<1>6. Reverse(r) = [k \in 1 .. n |-> qs[k]]
  BY <1>2, <1>3, <1>5
<1>7. \A k \in 1 .. n : r[k] = qs[(n - k) + 1]
  BY <1>2
<1> QED BY <1>1, <1>4, <1>6, <1>7 DEF n

(***************************************************************************)
(* What an erase leaves of a list is said by the elements that stay.       *)
(***************************************************************************)
Ascends(a, n) == /\ n \in Nat /\ a \in [1 .. n -> Nat]
                 /\ \A i, j \in 1 .. n : i < j => a[i] < a[j]

SameNumbers(a, n, b, l) == /\ \A i \in 1 .. n : \E j \in 1 .. l : b[j] = a[i]
                           /\ \A j \in 1 .. l : \E i \in 1 .. n : a[i] = b[j]

LEMMA AscentBegins ==
  ASSUME NEW n, NEW a, Ascends(a, n), NEW l, NEW b, Ascends(b, l), SameNumbers(a, n, b, l)
  PROVE  n <= l /\ \A i \in 1 .. n : a[i] = b[i]
<1>1. /\ n \in Nat /\ l \in Nat /\ a \in [1 .. n -> Nat] /\ b \in [1 .. l -> Nat]
      /\ \A i, j \in 1 .. n : i < j => a[i] < a[j]
      /\ \A i, j \in 1 .. l : i < j => b[i] < b[j]
      /\ \A i \in 1 .. n : \E j \in 1 .. l : b[j] = a[i]
      /\ \A j \in 1 .. l : \E i \in 1 .. n : a[i] = b[j]
  BY DEF Ascends, SameNumbers
<1> DEFINE T == {k \in 0 .. n : k <= l /\ \A i \in 1 .. k : a[i] = b[i]}
<1>2. 0 \in T
  BY <1>1
<1>3. ASSUME NEW k \in 0 .. n - 1, k \in T PROVE k + 1 \in T
  <2>1. /\ k + 1 \in 1 .. n /\ k \in Nat /\ k <= l
        /\ \A i \in 1 .. k : a[i] = b[i] /\ i \in 1 .. n /\ i \in 1 .. l
    BY <1>1, <1>3
  <2>2. PICK j \in 1 .. l : b[j] = a[k + 1]
    BY <1>1, <2>1
  <2>3. j > k
    <3>1. ASSUME j <= k PROVE FALSE
      <4>1. j \in 1 .. k /\ j < k + 1 /\ j \in 1 .. n
        BY <2>1, <3>1
      <4>2. a[j] < a[k + 1] /\ a[j] = b[j] /\ a[j] \in Nat
        BY <1>1, <2>1, <4>1
      <4> QED BY <2>2, <4>2
    <3> QED BY <2>1, <3>1
  <2>4. k + 1 \in 1 .. l
    BY <1>1, <2>1, <2>3
  <2>5. PICK i \in 1 .. n : a[i] = b[k + 1]
    BY <1>1, <2>4
  <2>6. i > k
    <3>1. ASSUME i <= k PROVE FALSE
      <4>1. i \in 1 .. k /\ i < k + 1 /\ i \in 1 .. l
        BY <2>1, <3>1
      <4>2. b[i] < b[k + 1] /\ a[i] = b[i] /\ b[i] \in Nat
        BY <1>1, <2>1, <2>4, <4>1
      <4> QED BY <2>5, <4>2
    <3> QED BY <2>1, <3>1
  <2>7. a[k + 1] <= a[i] /\ b[k + 1] <= b[j]
    <3>1. a[k + 1] \in Nat /\ a[i] \in Nat /\ b[k + 1] \in Nat /\ b[j] \in Nat
      BY <1>1, <2>1, <2>4
    <3>2. i = k + 1 \/ k + 1 < i
      BY <2>1, <2>6
    <3>3. j = k + 1 \/ k + 1 < j
      BY <2>1, <2>3
    <3>4. k + 1 < i => a[k + 1] < a[i]
      BY <1>1, <2>1
    <3>5. k + 1 < j => b[k + 1] < b[j]
      BY <1>1, <2>4
    <3> QED BY <3>1, <3>2, <3>3, <3>4, <3>5
  <2>8. a[k + 1] = b[k + 1]
    <3>1. a[k + 1] \in Nat /\ b[k + 1] \in Nat
      BY <1>1, <2>1, <2>4
    <3> QED BY <2>2, <2>5, <2>7, <3>1
  <2>9. \A u \in 1 .. k + 1 : u \in 1 .. k \/ u = k + 1
    BY <2>1
  <2>10. \A u \in 1 .. k + 1 : a[u] = b[u]
    BY <2>1, <2>8, <2>9
  <2> QED BY <2>1, <2>4, <2>10
<1>4. 0 .. n \subseteq T
  <2> HIDE DEF T
  <2> QED BY <1>1, <1>2, <1>3, CountingUp
<1>5. n \in T
  <2> HIDE DEF T
  <2> QED BY <1>1, <1>4
<1> QED BY <1>5

\* Two ascents over the same numbers are the same.
LEMMA SameAscent ==
  ASSUME NEW n, NEW a, Ascends(a, n), NEW l, NEW b, Ascends(b, l), SameNumbers(a, n, b, l)
  PROVE  n = l /\ \A i \in 1 .. n : a[i] = b[i]
<1>1. n <= l /\ \A i \in 1 .. n : a[i] = b[i]
  BY AscentBegins
<1>2. SameNumbers(b, l, a, n)
  BY DEF SameNumbers
<1>3. l <= n
  BY <1>2, AscentBegins
<1> QED BY <1>1, <1>3 DEF Ascends

\* Which elements an erase leaves, in their order.
LeftAt(a, r, s, S) ==
  /\ Ascends(a, Len(r))
  /\ \A i \in 1 .. Len(r) : a[i] \in 1 .. Len(s) /\ r[i] = s[a[i]] /\ s[a[i]] \notin S
  /\ \A j \in 1 .. Len(s) : s[j] \notin S => \E i \in 1 .. Len(r) : a[i] = j

LEMMA EraseAllAscends ==
  ASSUME NEW A, NEW s \in Seq(A), NEW S, NEW r, r = EraseAll(s, S)
  PROVE  \E a : LeftAt(a, r, s, S)
<1>1. r \in Seq(A) /\ Len(r) \in Nat /\ Len(s) \in Nat
  BY EraseAllLeaves
<1>2. PICK a : KeptFrom(r, s, S, Len(s), a)
  BY EraseAllKeeps
<1>3. /\ a \in [1 .. Len(r) -> 1 .. Len(s)]
      /\ \A i, j \in 1 .. Len(r) : i < j => a[i] < a[j]
      /\ \A i \in 1 .. Len(r) : r[i] = s[a[i]] /\ r[i] \notin S
      /\ \A j \in 1 .. Len(s) : s[j] \notin S => \E i \in 1 .. Len(r) : a[i] = j
  BY <1>2 DEF KeptFrom
<1>4. Ascends(a, Len(r))
  <2>1. a \in [1 .. Len(r) -> Nat]
    BY <1>1, <1>3
  <2> QED BY <1>1, <1>3, <2>1 DEF Ascends
<1>5. \A i \in 1 .. Len(r) : a[i] \in 1 .. Len(s) /\ r[i] = s[a[i]] /\ s[a[i]] \notin S
  BY <1>3
<1> QED BY <1>3, <1>4, <1>5 DEF LeftAt

\* It is the same to erase what is not in the list.
LEMMA EraseAllSame ==
  ASSUME NEW A, NEW s \in Seq(A), NEW S, NEW T, ToSet(s) \ S = ToSet(s) \ T
  PROVE  EraseAll(s, S) = EraseAll(s, T)
<1>1. PICK r, q : r = EraseAll(s, S) /\ q = EraseAll(s, T)
  OBVIOUS
<1>2. r \in Seq(A) /\ q \in Seq(A)
  BY <1>1, EraseAllLeaves
<1>3. \A j \in 1 .. Len(s) : s[j] \notin S <=> s[j] \notin T
  <2> TAKE j \in 1 .. Len(s)
  <2>1. s[j] \in ToSet(s)
    BY DEF ToSet
  <2> QED BY <2>1
<1>4. PICK a : LeftAt(a, r, s, S)
  BY <1>1, EraseAllAscends
<1>5. PICK b : LeftAt(b, q, s, T)
  BY <1>1, EraseAllAscends
<1>6. SameNumbers(a, Len(r), b, Len(q))
  BY <1>3, <1>4, <1>5 DEF LeftAt, SameNumbers
<1>7. Len(r) = Len(q) /\ \A i \in 1 .. Len(r) : a[i] = b[i]
  <2>1. Ascends(a, Len(r)) /\ Ascends(b, Len(q))
    BY <1>4, <1>5 DEF LeftAt
  <2> QED BY <1>6, <2>1, SameAscent
<1>8. \A i \in 1 .. Len(r) : r[i] = q[i]
  BY <1>4, <1>5, <1>7 DEF LeftAt
<1> QED BY <1>1, <1>2, <1>7, <1>8

\* What is erased from the list read backwards.
LEMMA EraseAllBackwards ==
  ASSUME NEW A, NEW s \in Seq(A), NEW S, NEW T, ToSet(s) \ S = ToSet(s) \ T,
         NEW r, r = EraseAll(s, S), NEW q, q = EraseAll(Reverse(s), T)
  PROVE  /\ r \in Seq(A) /\ q \in Seq(A) /\ Len(r) = Len(q)
         /\ \A i \in 1 .. Len(r) : r[i] = q[(Len(r) + 1) - i]
<1>0. PICK t, N : t = Reverse(s) /\ N = Len(s)
  OBVIOUS
<1>1. /\ t \in Seq(A) /\ Len(t) = N /\ N \in Nat
      /\ \A k \in 1 .. N : t[k] = s[N - k + 1]
  BY <1>0, ReverseIs
<1>2. r \in Seq(A) /\ q \in Seq(A) /\ Len(r) \in Nat /\ Len(q) \in Nat
  BY <1>0, <1>1, EraseAllLeaves
<1>3. \A j \in 1 .. N : s[j] \notin S <=> s[j] \notin T
  <2> TAKE j \in 1 .. N
  <2>1. s[j] \in ToSet(s)
    BY <1>0 DEF ToSet
  <2> QED BY <2>1
<1>4. PICK a : LeftAt(a, r, s, S)
  BY EraseAllAscends
<1>5. PICK b : LeftAt(b, q, t, T)
  BY <1>0, <1>1, EraseAllAscends
<1>6. PICK n \in Nat : n = Len(q)
  BY <1>2
<1>7. /\ Ascends(b, n)
      /\ \A i \in 1 .. n : b[i] \in 1 .. N /\ q[i] = t[b[i]] /\ t[b[i]] \notin T
      /\ \A j \in 1 .. N : t[j] \notin T => \E i \in 1 .. n : b[i] = j
  BY <1>1, <1>5, <1>6 DEF LeftAt
<1>8. PICK c : c = [i \in 1 .. n |-> (N + 1) - b[(n + 1) - i]]
  OBVIOUS
<1>9. \A j \in 1 .. N : (N + 1) - j \in 1 .. N /\ N - j + 1 = (N + 1) - j
  BY <1>1
<1>10. \A i \in 1 .. n : (n + 1) - i \in 1 .. n /\ (n + 1) - ((n + 1) - i) = i
  BY <1>6
<1>11. ASSUME NEW i \in 1 .. n
       PROVE  c[i] \in 1 .. N /\ q[(n + 1) - i] = s[c[i]] /\ s[c[i]] \notin T
  <2>1. PICK j \in 1 .. n : j = (n + 1) - i
    BY <1>10
  <2>2. b[j] \in 1 .. N /\ q[j] = t[b[j]] /\ t[b[j]] \notin T
    BY <1>7
  <2>3. c[i] = (N + 1) - b[j]
    BY <1>8, <2>1
  <2>4. c[i] \in 1 .. N /\ t[b[j]] = s[c[i]]
    BY <1>1, <1>9, <2>2, <2>3
  <2> QED BY <2>1, <2>2, <2>4
<1>12. Ascends(c, n)
  <2>1. c \in [1 .. n -> Nat]
    <3>1. \A i \in 1 .. n : c[i] \in Nat
      BY <1>1, <1>11
    <3> QED BY <1>8, <3>1
  <2>2. ASSUME NEW i \in 1 .. n, NEW j \in 1 .. n, i < j PROVE c[i] < c[j]
    <3>1. PICK u \in 1 .. n, v \in 1 .. n : u = (n + 1) - j /\ v = (n + 1) - i
      BY <1>10
    <3>2. u < v
      BY <1>6, <2>2, <3>1
    <3>3. b[u] < b[v] /\ b[u] \in 1 .. N /\ b[v] \in 1 .. N
      BY <1>7, <3>2 DEF Ascends
    <3>4. c[i] = (N + 1) - b[v] /\ c[j] = (N + 1) - b[u]
      BY <1>8, <3>1
    <3> QED BY <1>1, <3>3, <3>4
  <2> QED BY <1>6, <2>1, <2>2 DEF Ascends
<1>13. ASSUME NEW j \in 1 .. N, s[j] \notin T PROVE \E i \in 1 .. n : c[i] = j
  <2>1. PICK k \in 1 .. N : k = (N + 1) - j
    BY <1>9
  <2>2. t[k] = s[j]
    <3>1. N - k + 1 = j
      BY <1>1, <2>1
    <3> QED BY <1>1, <3>1
  <2>3. PICK l \in 1 .. n : b[l] = k
    BY <1>7, <1>13, <2>2
  <2>4. PICK i \in 1 .. n : i = (n + 1) - l /\ (n + 1) - i = l
    BY <1>10
  <2>5. c[i] = (N + 1) - k
    BY <1>8, <2>3, <2>4
  <2>6. (N + 1) - k = j
    BY <1>1, <2>1
  <2> QED BY <2>5, <2>6
<1>14. /\ Ascends(a, Len(r))
       /\ \A i \in 1 .. Len(r) : a[i] \in 1 .. N /\ r[i] = s[a[i]] /\ s[a[i]] \notin S
       /\ \A j \in 1 .. N : s[j] \notin S => \E i \in 1 .. Len(r) : a[i] = j
  BY <1>0, <1>4 DEF LeftAt
<1>15. SameNumbers(a, Len(r), c, n)
  BY <1>3, <1>11, <1>13, <1>14 DEF SameNumbers
<1>16. Len(r) = n /\ \A i \in 1 .. Len(r) : a[i] = c[i]
  BY <1>12, <1>14, <1>15, SameAscent
<1>17. ASSUME NEW i \in 1 .. Len(r) PROVE r[i] = q[(Len(r) + 1) - i]
  <2>1. i \in 1 .. n /\ a[i] = c[i] /\ Len(r) = n
    BY <1>16
  <2>2. r[i] = s[a[i]] /\ q[(n + 1) - i] = s[c[i]]
    BY <1>11, <1>14, <2>1
  <2> QED BY <2>1, <2>2
<1> QED BY <1>2, <1>6, <1>16, <1>17

\* Nothing of a list is lost or doubled by reading it backwards.
LEMMA ReverseInjective ==
  ASSUME NEW A, NEW s \in Seq(A)
  PROVE  /\ Reverse(s) \in Seq(A) /\ ToSet(Reverse(s)) = ToSet(s)
         /\ IsInjective(s) => IsInjective(Reverse(s))
<1>0. PICK t, N : t = Reverse(s) /\ N = Len(s)
  OBVIOUS
<1>1. /\ t \in Seq(A) /\ Len(t) = N /\ N \in Nat
      /\ \A k \in 1 .. N : t[k] = s[N - k + 1]
  BY <1>0, ReverseIs
<1>2. DOMAIN s = 1 .. N /\ DOMAIN t = 1 .. N
  BY <1>0, <1>1
<1>3. \A k \in 1 .. N : N - k + 1 \in 1 .. N /\ N - (N - k + 1) + 1 = k
  BY <1>1
<1>4. ToSet(t) = ToSet(s)
  <2>1. ASSUME NEW k \in 1 .. N PROVE t[k] \in ToSet(s) /\ s[k] \in ToSet(t)
    <3>1. PICK l \in 1 .. N : l = N - k + 1 /\ N - l + 1 = k
      BY <1>3
    <3>2. t[k] = s[l] /\ t[l] = s[k]
      BY <1>1, <3>1
    <3> QED BY <1>2, <3>2 DEF ToSet
  <2> QED BY <1>2, <2>1 DEF ToSet
<1>5. ASSUME IsInjective(s), NEW i \in 1 .. N, NEW j \in 1 .. N, t[i] = t[j] PROVE i = j
  <2>1. PICK k \in 1 .. N, l \in 1 .. N : k = N - i + 1 /\ l = N - j + 1
    BY <1>3
  <2>2. s[k] = s[l]
    BY <1>1, <1>5, <2>1
  <2>3. k = l
    BY <1>2, <1>5, <2>2 DEF IsInjective
  <2> QED BY <1>1, <2>1, <2>3
<1>6. IsInjective(s) => IsInjective(t)
  BY <1>2, <1>5 DEF IsInjective
<1> QED BY <1>0, <1>1, <1>4, <1>6
=============================================================================

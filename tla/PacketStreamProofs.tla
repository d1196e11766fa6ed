------------------------- MODULE PacketStreamProofs -------------------------
(***************************************************************************)
(* Proofs about module PacketStream, for every number of connections and   *)
(* messages, all lengths, and all sizes of the buffers: calls are made on  *)
(* connected sockets only, the stream of a sound connection has no gaps,   *)
(* and each connection implements a message channel.                       *)
(***************************************************************************)
EXTENDS PacketStream, ListProofs

(***************************************************************************)
(* Ring buffers: what each operation does to the cells that a buffer holds,*)
(* whatever its offsets are and wherever it wraps.                         *)
(***************************************************************************)

\* Remainders of what is less than twice around.
LEMMA Around ==
  ASSUME NEW n \in Nat \ {0}, NEW a \in Int, -n <= a, a < 2 * n
  PROVE  /\ a % n = IF a < 0 THEN a + n ELSE IF a < n THEN a ELSE a - n
         /\ a % n \in 0 .. n - 1
BY SMT

\* The parts of a buffer.
LEMMA BufferParts ==
  ASSUME NEW n \in Nat \ {0}, NEW C, NEW b, IsBuffer(b, n, C)
  PROVE  /\ b.cells \in Seq(C) /\ Len(b.cells) = n /\ Capacity(b) = n
         /\ b.read \in 0 .. n - 1 /\ b.write \in 0 .. n - 1 /\ b.full \in BOOLEAN
         /\ b.full => b.read = b.write
         /\ b = [cells |-> b.cells, read |-> b.read, write |-> b.write, full |-> b.full]
         /\ DOMAIN b.cells = 1 .. n
         /\ \A j \in 1 .. n : b.cells[j] \in C
BY DEF IsBuffer, Capacity

\* What size() is, and where the write offset is then (ring_buffer.cpp:56-65).
LEMMA SizeOfBuffer ==
  ASSUME NEW n \in Nat \ {0}, NEW C, NEW b, IsBuffer(b, n, C)
  PROVE  /\ Size(b) \in 0 .. n /\ Free(b) = n - Size(b)
         /\ (Size(b) = n <=> b.full)
         /\ (Size(b) = 0 <=> IsEmpty(b))
         /\ b.write = IF b.read + Size(b) < n THEN b.read + Size(b) ELSE b.read + Size(b) - n
<1>1. Capacity(b) = n /\ b.read \in 0 .. n-1 /\ b.write \in 0 .. n-1
      /\ b.full \in BOOLEAN /\ (b.full => b.read = b.write)
  BY BufferParts
<1> DEFINE a == b.write - b.read
           r == b.read
           w == b.write
           z == Size(b)
<1>2. a \in Int /\ -n <= a /\ a < 2 * n
  BY <1>1
<1>3. /\ a % n = IF a < 0 THEN a + n ELSE IF a < n THEN a ELSE a - n
      /\ a % n \in 0 .. n - 1
  <2> HIDE DEF a
  <2> QED BY <1>2, Around
<1>4. z = IF b.full THEN n ELSE a % n
  BY <1>1 DEF Size
<1>5. /\ IsEmpty(b) = (~b.full /\ r = w) /\ Free(b) = n - z
  BY <1>1 DEF IsEmpty, Free
<1>6. a = w - r /\ r \in 0 .. n - 1 /\ w \in 0 .. n - 1
  BY <1>1
<1>7. b.full => r = w
  BY <1>1
<1> DEFINE full == b.full
<1>8. full \in BOOLEAN /\ (full => r = w) /\ (IsEmpty(b) <=> ~full /\ r = w)
  BY <1>1 DEF IsEmpty
<1>9. z = IF full THEN n ELSE a % n
  BY <1>4
<1> HIDE DEF a, r, w, z, full
<1>10. z \in 0 .. n /\ Free(b) = n - z /\ (z = n <=> full) /\ (z = 0 <=> IsEmpty(b))
       /\ w = IF r + z < n THEN r + z ELSE r + z - n
  <2>1. CASE full
    BY <1>5, <1>6, <1>8, <1>9, <2>1
  <2>2. CASE ~full
    <3>1. z = IF a < 0 THEN a + n ELSE a
      BY <1>3, <1>9, <1>6, <2>2
    <3> QED BY <3>1, <1>5, <1>6, <1>8, <2>2
  <2> QED BY <2>1, <2>2
<1> QED BY <1>10 DEF r, w, z, full

\* Where the i-th cell of what a buffer holds is.
Place(b, n, i) == IF b.read + i <= n THEN b.read + i ELSE b.read + i - n

\* What peek(k) sees.
LEMMA PeekedBuffer ==
  ASSUME NEW n \in Nat \ {0}, NEW C, NEW b, IsBuffer(b, n, C), NEW k \in Nat
  PROVE  /\ Peek(b, k) = [i \in 1 .. Lesser(Size(b), k) |-> b.cells[Place(b, n, i)]]
         /\ \A i \in 1 .. n : Place(b, n, i) \in 1 .. n
<1> DEFINE z == Size(b)
<1>1. /\ z \in 0 .. n /\ Capacity(b) = n /\ b.read \in 0 .. n - 1
  BY SizeOfBuffer, BufferParts
<1>2. ASSUME NEW i \in 1 .. n
      PROVE  /\ Place(b, n, i) \in 1 .. n
             /\ ((b.read + i - 1) % n) + 1 = Place(b, n, i)
  <2> DEFINE r == b.read
             a == r + i - 1
  <2>1. r \in 0 .. n - 1 /\ a \in Int /\ -n <= a /\ a < 2 * n /\ a = r + i - 1 /\ a >= 0
    BY <1>1
  <2>2. Place(b, n, i) = IF r + i <= n THEN r + i ELSE r + i - n
    BY DEF Place
  <2>3. a % n = IF a < 0 THEN a + n ELSE IF a < n THEN a ELSE a - n
    <3> HIDE DEF a
    <3> QED BY <2>1, Around
  <2> HIDE DEF r, a
  <2>4. Place(b, n, i) \in 1 .. n /\ (a % n) + 1 = Place(b, n, i)
    BY <2>1, <2>2, <2>3
  <2> QED BY <2>4 DEF r, a
<1> HIDE DEF z
<1>3. Peek(b, k) = [i \in 1 .. Lesser(z, k) |-> b.cells[((b.read + i - 1) % n) + 1]]
  BY <1>1 DEF Peek, z
<1>4. \A i \in 1 .. Lesser(z, k) : i \in 1 .. n
  BY <1>1 DEF Lesser
<1>5. Peek(b, k) = [i \in 1 .. Lesser(z, k) |-> b.cells[Place(b, n, i)]]
  BY <1>2, <1>3, <1>4
<1> QED BY <1>2, <1>5 DEF z

\* What a buffer holds, cell by cell.
LEMMA ContentsOfBuffer ==
  ASSUME NEW n \in Nat \ {0}, NEW C, NEW b, IsBuffer(b, n, C)
  PROVE  /\ Contents(b) \in Seq(C) /\ Len(Contents(b)) = Size(b)
         /\ \A i \in 1 .. n : Place(b, n, i) \in 1 .. n
         /\ \A i \in 1 .. Size(b) : Contents(b)[i] = b.cells[Place(b, n, i)]
<1> DEFINE z == Size(b)
           c == [i \in 1 .. z |-> b.cells[Place(b, n, i)]]
<1>1. z \in 0 .. n /\ \A j \in 1 .. n : b.cells[j] \in C
  BY SizeOfBuffer, BufferParts
<1>2. z \in Nat /\ Lesser(z, z) = z
  BY <1>1 DEF Lesser
<1> HIDE DEF z
<1>3. /\ Peek(b, z) = [i \in 1 .. Lesser(z, z) |-> b.cells[Place(b, n, i)]]
      /\ \A i \in 1 .. n : Place(b, n, i) \in 1 .. n
  BY <1>2, PeekedBuffer DEF z
<1>4. Contents(b) = c
  BY <1>2, <1>3 DEF Contents, z
<1>5. \A i \in 1 .. z : b.cells[Place(b, n, i)] \in C
  BY <1>1, <1>3
<1>6. c \in Seq(C) /\ Len(c) = z /\ \A i \in 1 .. z : c[i] = b.cells[Place(b, n, i)]
  BY <1>1, <1>5
<1> HIDE DEF c
<1> QED BY <1>3, <1>4, <1>6 DEF z

\* end_produce(k): a buffer that holds k more, if that is more than nothing.
LEMMA Produced ==
  ASSUME NEW n \in Nat \ {0}, NEW C, NEW b, IsBuffer(b, n, C), NEW k \in 0 .. Free(b)
  PROVE  /\ IsBuffer(EndProduce(b, k), n, C)
         /\ k # 0 \/ ~IsEmpty(b) => Size(EndProduce(b, k)) = Size(b) + k
         /\ EndProduce(b, k).cells = b.cells /\ EndProduce(b, k).read = b.read
<1> DEFINE q == EndProduce(b, k)
           r == b.read
           w == b.write
           v == (w + k) % n
           z == Size(b)
<1>1. /\ r \in 0 .. n - 1 /\ w \in 0 .. n - 1 /\ z \in 0 .. n /\ Free(b) = n - z
      /\ w = IF r + z < n THEN r + z ELSE r + z - n
      /\ (z = 0 <=> IsEmpty(b))
      /\ Capacity(b) = n
  BY SizeOfBuffer, BufferParts
<1>2. k \in 0 .. n - z
  BY <1>1
<1>3. v = (IF w + k < n THEN w + k ELSE w + k - n) /\ v \in 0 .. n - 1
  <2> DEFINE a == w + k
  <2>1. a \in Int /\ -n <= a /\ a < 2 * n /\ ~(a < 0)
    BY <1>1, <1>2
  <2>2. v = a % n /\ a = w + k
    OBVIOUS
  <2> HIDE DEF a, v, w
  <2>3. (a % n) = (IF a < n THEN a ELSE a - n) /\ a % n \in 0 .. n - 1
    BY <2>1, Around
  <2>4. v \in 0 .. n - 1 /\ v = IF a < n THEN a ELSE a - n
    BY <2>2, <2>3
  <2> QED BY <1>1, <1>2, <2>1, <2>2, <2>4
<1>4. q = [b EXCEPT !.write = v, !.full = v = r]
  BY <1>1 DEF EndProduce
<1>5. /\ IsBuffer(q, n, C) /\ q.cells = b.cells /\ q.read = r /\ q.write = v
      /\ (q.full <=> v = r)
  <2> HIDE DEF v, q
  <2> QED BY <1>3, <1>4, BufferParts DEF IsBuffer
<1> DEFINE y == Size(q)
<1>6. /\ y \in 0 .. n /\ (y = n <=> v = r)
      /\ v = IF r + y < n THEN r + y ELSE r + y - n
  <2> HIDE DEF q, v, r
  <2>1. /\ Size(q) \in 0 .. n /\ (Size(q) = n <=> q.full)
        /\ q.write = IF q.read + Size(q) < n THEN q.read + Size(q) ELSE q.read + Size(q) - n
    BY <1>5, SizeOfBuffer
  <2> QED BY <1>5, <2>1
<1> HIDE DEF q, r, w, v, z, y
<1>7. ASSUME k # 0 \/ z # 0 PROVE y = z + k
  BY <1>1, <1>2, <1>3, <1>6, <1>7
<1> QED BY <1>1, <1>5, <1>7 DEF q, r, y, z

\* write(s), when there is room for all of s.
LEMMA FilledBuffer ==
  ASSUME NEW n \in Nat \ {0}, NEW C, NEW b, IsBuffer(b, n, C),
         NEW s \in Seq(C), Len(s) <= Free(b)
  PROVE  /\ IsBuffer(Filled(b, s), n, C)
         /\ Filled(b, s).read = b.read /\ Filled(b, s).write = b.write
         /\ Size(Filled(b, s)) = Size(b) /\ IsEmpty(Filled(b, s)) = IsEmpty(b)
         /\ \A i \in 1 .. Size(b) + Len(s) :
              Filled(b, s).cells[Place(b, n, i)] =
                IF i <= Size(b) THEN b.cells[Place(b, n, i)] ELSE s[i - Size(b)]
<1> DEFINE q == Filled(b, s)
           r == b.read
           w == b.write
           z == Size(b)
           k == Len(s)
<1>1. /\ r \in 0 .. n - 1 /\ w \in 0 .. n - 1 /\ z \in 0 .. n /\ Free(b) = n - z
      /\ w = IF r + z < n THEN r + z ELSE r + z - n
      /\ Capacity(b) = n /\ b.cells \in Seq(C) /\ DOMAIN b.cells = 1 .. n
      /\ \A j \in 1 .. n : b.cells[j] \in C
  BY SizeOfBuffer, BufferParts
<1>2. k \in 0 .. n - z /\ DOMAIN s = 1 .. k /\ \A m \in 1 .. k : s[m] \in C
  BY <1>1
<1> DEFINE new(j) == ((j - 1 - w) % n) + 1
           cells == [j \in 1 .. n |-> IF new(j) \in 1 .. k THEN s[new(j)] ELSE b.cells[j]]
<1>3. q = [b EXCEPT !.cells = cells]
  BY <1>1, <1>2 DEF Filled
<1>4. \A j \in 1 .. n : cells[j] \in C
  BY <1>1, <1>2
<1>5. cells \in Seq(C) /\ Len(cells) = n
  <2> HIDE DEF new
  <2>1. cells \in [1 .. n -> C]
    BY <1>4
  <2> HIDE DEF cells
  <2> QED BY <2>1
<1>6. ASSUME NEW i \in 1 .. z + k
      PROVE  cells[Place(b, n, i)] =
               IF i <= z THEN b.cells[Place(b, n, i)] ELSE s[i - z]
  <2> DEFINE p == Place(b, n, i)
             a == p - 1 - w
  <2>1. i \in 1 .. n /\ p = (IF r + i <= n THEN r + i ELSE r + i - n)
    BY <1>1, <1>2 DEF Place
  <2>2. new(p) = (a % n) + 1 /\ a = p - 1 - w
    OBVIOUS
  <2> HIDE DEF p, a, new, r, w, z, k
  <2>3. p \in 1 .. n /\ a \in Int /\ -n <= a /\ a < 2 * n /\ a < n
    BY <1>1, <2>1, <2>2
  <2>4. a % n = IF a < 0 THEN a + n ELSE a
    BY <2>3, Around
  <2>5. new(p) = IF i <= z THEN n + i - z ELSE i - z
    BY <1>1, <1>2, <2>1, <2>2, <2>3, <2>4
  <2>6. cells[p] = IF new(p) \in 1 .. k THEN s[new(p)] ELSE b.cells[p]
    BY <2>3
  <2>7. CASE i <= z
    <3>1. new(p) \notin 1 .. k
      BY <1>1, <1>2, <2>1, <2>5, <2>7
    <3> QED BY <2>6, <2>7, <3>1 DEF p
  <2>8. CASE ~(i <= z)
    <3>1. new(p) = i - z /\ i - z \in 1 .. k
      BY <1>1, <1>2, <2>1, <2>5, <2>8
    <3> QED BY <2>6, <2>8, <3>1 DEF p
  <2> QED BY <2>7, <2>8
<1> HIDE DEF cells
<1>7. /\ IsBuffer(q, n, C) /\ q.cells = cells /\ q.read = b.read /\ q.write = b.write
      /\ q.full = b.full
  BY <1>3, <1>5, BufferParts DEF IsBuffer
<1>8. Size(q) = z /\ IsEmpty(q) = IsEmpty(b)
  <2>1. Capacity(q) = n
    BY <1>7, BufferParts
  <2> HIDE DEF q
  <2> QED BY <1>1, <1>7, <2>1 DEF Size, IsEmpty
<1> QED BY <1>6, <1>7, <1>8

\* write(s) of what fits: s comes after what the buffer held.
LEMMA WrittenBuffer ==
  ASSUME NEW n \in Nat \ {0}, NEW C, NEW b, IsBuffer(b, n, C),
         NEW s \in Seq(C), Len(s) \in 1 .. Free(b)
  PROVE  /\ IsBuffer(EndProduce(Filled(b, s), Len(s)), n, C)
         /\ Size(EndProduce(Filled(b, s), Len(s))) = Size(b) + Len(s)
         /\ Contents(EndProduce(Filled(b, s), Len(s))) = Contents(b) \o s
<1> DEFINE f == Filled(b, s)
           k == Len(s)
           q == EndProduce(f, k)
           z == Size(b)
<1>1. /\ IsBuffer(f, n, C) /\ f.read = b.read /\ Size(f) = z
      /\ \A i \in 1 .. z + k :
           f.cells[Place(b, n, i)] = IF i <= z THEN b.cells[Place(b, n, i)] ELSE s[i - z]
  BY FilledBuffer
<1>2. z \in 0 .. n /\ Free(b) = n - z /\ Free(f) = n - z
  BY <1>1, SizeOfBuffer
<1>3. k \in Nat /\ k # 0 /\ k \in 0 .. Free(f) /\ z + k \in 1 .. n
  BY <1>2
<1> HIDE DEF f, k
<1>4. IsBuffer(q, n, C) /\ Size(q) = z + k /\ q.cells = f.cells /\ q.read = b.read
  BY <1>1, <1>3, Produced
<1> HIDE DEF q
<1>5. \A i \in 1 .. n : Place(q, n, i) = Place(b, n, i)
  BY <1>4 DEF Place
<1>6. /\ Contents(q) \in Seq(C) /\ Len(Contents(q)) = z + k
      /\ \A i \in 1 .. z + k : Contents(q)[i] = f.cells[Place(b, n, i)]
  <2>1. /\ Contents(q) \in Seq(C) /\ Len(Contents(q)) = Size(q)
        /\ \A i \in 1 .. Size(q) : Contents(q)[i] = q.cells[Place(q, n, i)]
    <3>1. IsBuffer(q, n, C)
      BY <1>4
    <3> QED BY <3>1, ContentsOfBuffer
  <2>2. \A i \in 1 .. z + k : i \in 1 .. n
    BY <1>2, <1>3
  <2> HIDE DEF z
  <2> QED BY <1>4, <1>5, <2>1, <2>2
<1>7. /\ Contents(b) \in Seq(C) /\ Len(Contents(b)) = z
      /\ \A i \in 1 .. z : Contents(b)[i] = b.cells[Place(b, n, i)]
  BY ContentsOfBuffer
<1> DEFINE c == Contents(b)
           d == Contents(q)
<1>8. /\ c \o s \in Seq(C) /\ Len(c \o s) = z + k
      /\ \A i \in 1 .. z + k : (c \o s)[i] = IF i <= z THEN c[i] ELSE s[i - z]
  <2>1. k = Len(s)
    BY DEF k
  <2>2. c \in Seq(C) /\ Len(c) = z
    BY <1>7
  <2> HIDE DEF c, z
  <2>3. /\ c \o s \in Seq(C) /\ Len(c \o s) = Len(c) + Len(s)
        /\ \A i \in 1 .. Len(c) + Len(s) :
             (c \o s)[i] = IF i <= Len(c) THEN c[i] ELSE s[i - Len(c)]
    BY <2>2, ConcatProperties
  <2> QED BY <2>1, <2>2, <2>3
<1> HIDE DEF z
<1>9. \A i \in 1 .. z + k : d[i] = (c \o s)[i]
  <2>1. \A i \in 1 .. z + k : i <= z => i \in 1 .. z
    BY <1>2, <1>3
  <2> QED BY <1>1, <1>6, <1>7, <1>8, <2>1
<1>10. d = c \o s
  <2> HIDE DEF c, d
  <2>1. d \in Seq(C) /\ Len(d) = z + k
    BY <1>6 DEF d
  <2> QED BY <1>8, <1>9, <2>1, SeqEqual
<1> QED BY <1>4, <1>10 DEF f, k, q, z

\* end_consume(k): the first k cells are gone; end_consume(0) empties a full buffer.
LEMMA ConsumedBuffer ==
  ASSUME NEW n \in Nat \ {0}, NEW C, NEW b, IsBuffer(b, n, C), NEW k \in 0 .. Size(b),
         k # 0 \/ ~b.full
  PROVE  /\ IsBuffer(EndConsume(b, k), n, C)
         /\ Size(EndConsume(b, k)) = Size(b) - k
         /\ Contents(EndConsume(b, k)) = SubSeq(Contents(b), k + 1, Size(b))
<1> DEFINE q == EndConsume(b, k)
           r == b.read
           w == b.write
           v == (r + k) % n
           z == Size(b)
           y == Size(q)
<1>1. /\ r \in 0 .. n - 1 /\ w \in 0 .. n - 1 /\ z \in 0 .. n
      /\ w = IF r + z < n THEN r + z ELSE r + z - n
      /\ (z = n <=> b.full) /\ Capacity(b) = n
  BY SizeOfBuffer, BufferParts
<1>2. k \in 0 .. z
  OBVIOUS
<1>3. v = (IF r + k < n THEN r + k ELSE r + k - n) /\ v \in 0 .. n - 1
  <2> DEFINE a == r + k
  <2>1. a \in Int /\ -n <= a /\ a < 2 * n /\ ~(a < 0)
    BY <1>1, <1>2
  <2>2. v = a % n /\ a = r + k
    OBVIOUS
  <2> HIDE DEF a, v, r
  <2>3. (a % n) = (IF a < n THEN a ELSE a - n) /\ a % n \in 0 .. n - 1
    BY <2>1, Around
  <2>4. v \in 0 .. n - 1 /\ v = IF a < n THEN a ELSE a - n
    BY <2>2, <2>3
  <2> QED BY <1>1, <1>2, <2>1, <2>2, <2>4
<1>4. q = [b EXCEPT !.read = v, !.full = FALSE]
  BY <1>1 DEF EndConsume
<1>5. /\ IsBuffer(q, n, C) /\ q.cells = b.cells /\ q.read = v /\ q.write = w /\ ~q.full
  <2> HIDE DEF v, q
  <2> QED BY <1>3, <1>4, BufferParts DEF IsBuffer
<1>6. y \in 0 .. n - 1 /\ w = IF v + y < n THEN v + y ELSE v + y - n
  <2> HIDE DEF q, v, w
  <2>1. /\ Size(q) \in 0 .. n /\ (Size(q) = n <=> q.full)
        /\ q.write = IF q.read + Size(q) < n THEN q.read + Size(q) ELSE q.read + Size(q) - n
    BY <1>5, SizeOfBuffer
  <2> QED BY <1>5, <2>1
<1>7. y = z - k
  <2>1. k # 0 \/ z # n
    BY <1>1
  <2> HIDE DEF q, r, w, v, z, y
  <2> QED BY <1>1, <1>2, <1>3, <1>6, <2>1
<1>8. \A i \in 1 .. y : Place(q, n, i) = Place(b, n, k + i)
  <2>1. \A i \in 1 .. y : /\ Place(q, n, i) = IF v + i <= n THEN v + i ELSE v + i - n
                         /\ Place(b, n, k + i) = IF r + (k + i) <= n THEN r + (k + i)
                                                ELSE r + (k + i) - n
    BY <1>5 DEF Place
  <2> HIDE DEF q, r, w, v, z, y
  <2> QED BY <1>1, <1>2, <1>3, <1>7, <2>1
<1> HIDE DEF q
<1>9. /\ Contents(q) \in Seq(C) /\ Len(Contents(q)) = y
      /\ \A i \in 1 .. y : Contents(q)[i] = b.cells[Place(q, n, i)]
  <2>1. /\ Contents(q) \in Seq(C) /\ Len(Contents(q)) = Size(q)
        /\ \A i \in 1 .. Size(q) : Contents(q)[i] = q.cells[Place(q, n, i)]
    BY <1>5, ContentsOfBuffer
  <2> QED BY <1>5, <2>1
<1> DEFINE c == Contents(b)
           d == Contents(q)
           e == SubSeq(c, k + 1, z)
<1>10. c \in Seq(C) /\ Len(c) = z /\ \A i \in 1 .. z : c[i] = b.cells[Place(b, n, i)]
  BY ContentsOfBuffer
<1>11. d \in Seq(C) /\ Len(d) = y /\ \A i \in 1 .. y : d[i] = b.cells[Place(q, n, i)]
  BY <1>9
<1> HIDE DEF y, z, c, d
<1>12. e \in Seq(C) /\ Len(e) = y /\ \A i \in 1 .. y : e[i] = c[k + i]
  BY <1>1, <1>2, <1>7, <1>10
<1> HIDE DEF e
<1>13. \A i \in 1 .. y : k + i \in 1 .. z /\ d[i] = e[i]
  <2>1. \A i \in 1 .. y : k + i \in 1 .. z
    BY <1>1, <1>2, <1>7
  <2> QED BY <2>1, <1>8, <1>10, <1>11, <1>12
<1>14. d = e
  BY <1>11, <1>12, <1>13, SeqEqual
<1> QED BY <1>5, <1>7, <1>14 DEF q, y, z, c, d, e

\* What lies from the read offset on is what the buffer holds, up to the wrap.
LEMMA ReadableCells ==
  ASSUME NEW n \in Nat \ {0}, NEW C, NEW b, IsBuffer(b, n, C),
         NEW k \in 0 .. Readable(b), NEW m \in 0 .. k
  PROVE  /\ k \in 0 .. Size(b)
         /\ SubSeq(b.cells, b.read + m + 1, b.read + k) = SubSeq(Contents(b), m + 1, k)
<1> DEFINE r == b.read
           z == Size(b)
           c == Contents(b)
           d == b.cells
           x == SubSeq(d, r + m + 1, r + k)
           y == SubSeq(c, m + 1, k)
<1>1. /\ r \in 0 .. n - 1 /\ z \in 0 .. n /\ Capacity(b) = n
      /\ d \in Seq(C) /\ Len(d) = n
  BY SizeOfBuffer, BufferParts
<1>2. k \in 0 .. z /\ r + k <= n
  <2>1. k \in 0 .. Lesser(z, n - r)
    BY <1>1 DEF Readable
  <2> HIDE DEF r, z
  <2> QED BY <1>1, <2>1 DEF Lesser
<1>3. c \in Seq(C) /\ Len(c) = z /\ \A i \in 1 .. z : c[i] = d[Place(b, n, i)]
  BY ContentsOfBuffer
<1>4. \A i \in 1 .. k : Place(b, n, i) = r + i
  <2>1. \A i \in 1 .. k : Place(b, n, i) = IF r + i <= n THEN r + i ELSE r + i - n
    BY DEF Place
  <2> HIDE DEF r
  <2> QED BY <1>1, <1>2, <2>1
<1> HIDE DEF r, z, c, d
<1>5. /\ x \in Seq(C) /\ Len(x) = k - m /\ \A i \in 1 .. k - m : x[i] = d[r + m + i]
      /\ y \in Seq(C) /\ Len(y) = k - m /\ \A i \in 1 .. k - m : y[i] = c[m + i]
  BY <1>1, <1>2, <1>3
<1> HIDE DEF x, y
<1>6. \A i \in 1 .. k - m : m + i \in 1 .. k /\ m + i \in 1 .. z /\ r + (m + i) = r + m + i
  BY <1>1, <1>2
<1>7. \A i \in 1 .. k - m : x[i] = y[i]
  BY <1>3, <1>4, <1>5, <1>6
<1>8. x = y
  BY <1>5, <1>7, SeqEqual
<1> QED BY <1>2, <1>8 DEF r, z, c, d, x, y

\* rotate() keeps a buffer a buffer; the offsets stay.
LEMMA RotatedBuffer ==
  ASSUME NEW n \in Nat \ {0}, NEW C, NEW b, IsBuffer(b, n, C)
  PROVE  IsBuffer(Rotated(b), n, C) /\ Readable(Rotated(b)) = Readable(b)
<1> DEFINE q == Rotated(b)
           cells == [j \in 1 .. n |-> b.cells[((j - 1 + b.read) % n) + 1]]
<1>1. /\ b.read \in 0 .. n - 1 /\ Capacity(b) = n /\ b.cells \in Seq(C)
      /\ DOMAIN b.cells = 1 .. n /\ \A j \in 1 .. n : b.cells[j] \in C
  BY BufferParts
<1>2. q = [b EXCEPT !.cells = cells]
  BY <1>1 DEF Rotated
<1>3. \A j \in 1 .. n : ((j - 1 + b.read) % n) + 1 \in 1 .. n
  <2> SUFFICES ASSUME NEW j \in 1 .. n PROVE ((j - 1 + b.read) % n) + 1 \in 1 .. n
    OBVIOUS
  <2> DEFINE a == j - 1 + b.read
  <2>1. a \in Int /\ -n <= a /\ a < 2 * n
    BY <1>1
  <2>2. a % n \in 0 .. n - 1
    <3> HIDE DEF a
    <3> QED BY <2>1, Around
  <2> DEFINE x == a % n
  <2>3. x \in 0 .. n - 1
    BY <2>2
  <2> HIDE DEF x
  <2>4. x + 1 \in 1 .. n
    BY <2>3
  <2> QED BY <2>4 DEF x
<1>4. \A j \in 1 .. n : cells[j] \in C
  BY <1>1, <1>3
<1>5. cells \in Seq(C) /\ Len(cells) = n
  <2>1. cells \in [1 .. n -> C]
    BY <1>4
  <2> HIDE DEF cells
  <2> QED BY <2>1
<1> HIDE DEF cells
<1>6. /\ IsBuffer(q, n, C) /\ q.read = b.read /\ q.write = b.write /\ q.full = b.full
  BY <1>2, <1>5, BufferParts DEF IsBuffer
<1>7. Readable(q) = Readable(b)
  <2>1. Capacity(q) = n
    BY <1>6, BufferParts
  <2> HIDE DEF q
  <2> QED BY <1>1, <1>6, <2>1 DEF Readable, Size
<1> QED BY <1>6, <1>7

\* A new buffer, and what it holds.
LEMMA NewBufferIs ==
  ASSUME NEW n \in Nat \ {0}, NEW C, <<0, 0>> \in C
  PROVE  /\ IsBuffer(NewBuffer(n), n, C) /\ Contents(NewBuffer(n)) = << >>
         /\ IsEmpty(NewBuffer(n)) /\ ~NewBuffer(n).full /\ Size(NewBuffer(n)) = 0
<1> DEFINE b == NewBuffer(n)
           cells == [i \in 1 .. n |-> <<0, 0>>]
<1>1. cells \in Seq(C) /\ Len(cells) = n
  BY <<0, 0>> \in C
<1>2. b = [cells |-> cells, read |-> 0, write |-> 0, full |-> FALSE]
  BY DEF NewBuffer
<1> HIDE DEF cells, b
<1>3. IsBuffer(b, n, C) /\ IsEmpty(b) /\ ~b.full
  BY <1>1, <1>2 DEF IsBuffer, IsEmpty
<1>4. Size(b) = 0
  BY <1>3, SizeOfBuffer
<1>5. Contents(b) \in Seq(C) /\ Len(Contents(b)) = Size(b)
  BY <1>3, ContentsOfBuffer
<1>6. Contents(b) = << >>
  BY <1>4, <1>5
<1> QED BY <1>3, <1>4, <1>6 DEF b

\* An offset that is moved by nothing.
LEMMA NoTurn ==
  ASSUME NEW n \in Nat \ {0}, NEW a \in 0 .. n - 1
  PROVE  (a + 0) % n = a
<1>1. a + 0 = a /\ a \in Int /\ -n <= a /\ a < 2 * n /\ a >= 0 /\ a < n
  OBVIOUS
<1>2. a % n = a
  BY <1>1, Around
<1> QED BY <1>1, <1>2

\* end_produce(0) does nothing to a buffer that holds something, and end_consume(0)
\* nothing to one that is not full.
LEMMA MovedByNothing ==
  ASSUME NEW n \in Nat \ {0}, NEW C, NEW b, IsBuffer(b, n, C)
  PROVE  /\ ~IsEmpty(b) => EndProduce(b, 0) = b
         /\ ~b.full => EndConsume(b, 0) = b
<1>1. /\ b.read \in 0 .. n - 1 /\ b.write \in 0 .. n - 1 /\ Capacity(b) = n
      /\ b.full \in BOOLEAN /\ (b.full => b.read = b.write)
      /\ b = [cells |-> b.cells, read |-> b.read, write |-> b.write, full |-> b.full]
  BY BufferParts
<1>2. (b.write + 0) % n = b.write /\ (b.read + 0) % n = b.read
  BY <1>1, NoTurn
<1>3. EndProduce(b, 0) = [b EXCEPT !.write = b.write, !.full = b.write = b.read]
  BY <1>1, <1>2 DEF EndProduce
<1>4. EndConsume(b, 0) = [b EXCEPT !.read = b.read, !.full = FALSE]
  BY <1>1, <1>2 DEF EndConsume
<1>5. ASSUME ~IsEmpty(b) PROVE EndProduce(b, 0) = b
  <2>1. (b.write = b.read) = b.full
    BY <1>1, <1>5 DEF IsEmpty
  <2> QED BY <1>1, <1>3, <2>1
<1>6. ASSUME ~b.full PROVE EndConsume(b, 0) = b
  <2>1. b.full = FALSE
    BY <1>1, <1>6
  <2> QED BY <1>1, <1>4, <2>1
<1> QED BY <1>5, <1>6

\* Whatever is consumed, a buffer stays a buffer, and a full one is empty after
\* end_consume(0).
LEMMA ConsumedIsBuffer ==
  ASSUME NEW n \in Nat \ {0}, NEW C, NEW b, IsBuffer(b, n, C), NEW k \in 0 .. n
  PROVE  /\ IsBuffer(EndConsume(b, k), n, C)
         /\ ~EndConsume(b, k).full
         /\ EndConsume(b, 0).read = b.read /\ EndConsume(b, 0).write = b.write
<1>1. /\ b.read \in 0 .. n - 1 /\ b.write \in 0 .. n - 1 /\ Capacity(b) = n
  BY BufferParts
<1> DEFINE r == b.read
           a == r + k
<1>2. a \in Int /\ -n <= a /\ a < 2 * n /\ r \in Int /\ -n <= r /\ r < 2 * n
      /\ r >= 0 /\ r < n /\ r + 0 = r
  BY <1>1
<1>3. a % n \in 0 .. n - 1 /\ (r + 0) % n = r
  <2>1. (r + 0) % n = r
    BY <1>1, NoTurn
  <2>2. a % n \in 0 .. n - 1
    <3> HIDE DEF a, r
    <3> QED BY <1>2, Around
  <2> QED BY <2>1, <2>2
<1>4. EndConsume(b, k) = [b EXCEPT !.read = a % n, !.full = FALSE]
      /\ EndConsume(b, 0) = [b EXCEPT !.read = r, !.full = FALSE]
  <2>1. /\ EndConsume(b, k) = [b EXCEPT !.read = (r + k) % n, !.full = FALSE]
        /\ EndConsume(b, 0) = [b EXCEPT !.read = (r + 0) % n, !.full = FALSE]
    BY <1>1 DEF EndConsume
  <2> QED BY <2>1, <1>3
<1>5. a % n \in 0 .. n - 1
  BY <1>3
<1> DEFINE v == a % n
<1>6. v \in 0 .. n - 1 /\ EndConsume(b, k) = [b EXCEPT !.read = v, !.full = FALSE]
  BY <1>4, <1>5
<1> HIDE DEF v, a
<1> QED BY <1>1, <1>4, <1>6, BufferParts DEF IsBuffer

\* write() of what fits.
LEMMA WrittenIs ==
  ASSUME NEW n \in Nat \ {0}, NEW C, NEW b, IsBuffer(b, n, C),
         NEW s \in Seq(C), Len(s) \in 1 .. Free(b)
  PROVE  Written(b, s) = EndProduce(Filled(b, s), Len(s))
<1>1. Free(b) \in 0 .. n
  BY SizeOfBuffer
<1>2. Lesser(Free(b), Len(s)) = Len(s) /\ Len(s) # 0
  BY <1>1 DEF Lesser
<1>3. SubSeq(s, 1, Len(s)) = s
  OBVIOUS
<1> QED BY <1>2, <1>3 DEF Written

\* What peek() sees is what the buffer holds first.
LEMMA PeekIs ==
  ASSUME NEW n \in Nat \ {0}, NEW C, NEW b, IsBuffer(b, n, C), NEW k \in Nat
  PROVE  /\ Peek(b, k) \in Seq(C) /\ Len(Peek(b, k)) = Lesser(Size(b), k)
         /\ \A i \in 1 .. Lesser(Size(b), k) : Peek(b, k)[i] = Contents(b)[i]
<1> DEFINE z == Size(b)
           l == Lesser(z, k)
           p == Peek(b, k)
           c == Contents(b)
<1>1. z \in 0 .. n
  BY SizeOfBuffer
<1>2. l \in 0 .. z
  BY <1>1 DEF Lesser
<1>3. p = [i \in 1 .. l |-> b.cells[Place(b, n, i)]]
  BY PeekedBuffer
<1>4. c \in Seq(C) /\ Len(c) = z /\ \A i \in 1 .. z : c[i] = b.cells[Place(b, n, i)]
  BY ContentsOfBuffer
<1> HIDE DEF z, l, p, c
<1>5. \A i \in 1 .. l : i \in 1 .. z /\ c[i] \in C /\ p[i] = c[i]
  BY <1>1, <1>2, <1>3, <1>4
<1>6. p \in Seq(C) /\ Len(p) = l
  <2>1. p \in [1 .. l -> C]
    BY <1>3, <1>5
  <2> QED BY <1>2, <2>1
<1> QED BY <1>5, <1>6 DEF z, l, p, c

\* The bounds of what can be read or written at once.
LEMMA AtOnce ==
  ASSUME NEW n \in Nat \ {0}, NEW C, NEW b, IsBuffer(b, n, C)
  PROVE  /\ Readable(b) \in 0 .. Size(b)
         /\ Writable(b) \in 0 .. Free(b)
<1>1. Size(b) \in 0 .. n /\ Free(b) = n - Size(b)
  BY SizeOfBuffer
<1>2. b.read \in 0 .. n - 1 /\ b.write \in 0 .. n - 1 /\ Capacity(b) = n
  BY BufferParts
<1> DEFINE z == Size(b)
           f == Free(b)
<1>3. Readable(b) = Lesser(z, n - b.read) /\ Writable(b) = Lesser(f, n - b.write)
  BY <1>2 DEF Readable, Writable
<1>4. z \in 0 .. n /\ f = n - z
  BY <1>1
<1> HIDE DEF z, f
<1>5. Readable(b) \in 0 .. z /\ Writable(b) \in 0 .. f
  BY <1>2, <1>3, <1>4 DEF Lesser
<1> QED BY <1>5 DEF z, f

\* rotate() after end_consume(0) does not bring more to the front.
LEMMA RotatingGainsNothing ==
  ASSUME NEW n \in Nat \ {0}, NEW C, NEW b, IsBuffer(b, n, C)
  PROVE  /\ IsBuffer(Rotated(EndConsume(b, 0)), n, C)
         /\ Readable(Rotated(EndConsume(b, 0))) <= Readable(b)
<1> DEFINE q == EndConsume(b, 0)
<1>1. IsBuffer(q, n, C) /\ ~q.full /\ q.read = b.read /\ q.write = b.write
  <2>1. 0 \in 0 .. n
    OBVIOUS
  <2> QED BY <2>1, ConsumedIsBuffer
<1> HIDE DEF q
<1>2. IsBuffer(Rotated(q), n, C) /\ Readable(Rotated(q)) = Readable(q)
  BY <1>1, RotatedBuffer
<1>3. Readable(q) <= Readable(b)
  <2>1. Readable(b) \in 0 .. Size(b) /\ Size(b) \in 0 .. n
    BY AtOnce, SizeOfBuffer
  <2>2. CASE b.full
    <3>1. IsEmpty(q)
      BY <1>1, <2>2, BufferParts DEF IsEmpty
    <3>2. Readable(q) \in 0 .. Size(q) /\ Size(q) = 0
      BY <1>1, <3>1, AtOnce, SizeOfBuffer
    <3> QED BY <2>1, <3>2
  <2>3. CASE ~b.full
    <3>1. q = b
      BY <2>3, MovedByNothing DEF q
    <3> QED BY <2>1, <3>1
  <2> QED BY <2>2, <2>3
<1> QED BY <1>2, <1>3 DEF q

(***************************************************************************)
(* Messages, packets and cells.                                            *)
(***************************************************************************)
LEMMA MessagesAre ==
  /\ Messages = 1 .. Len(LengthOf) /\ 0 \notin Messages
  /\ Messages \subseteq Nat /\ Connections \subseteq Nat /\ 0 \notin Connections
  /\ \A m \in Messages : LengthOf[m] \in Nat
BY PacketStreamAssumption DEF Messages, Connections

\* The packet of a message, cell by cell.
LEMMA PacketIs ==
  ASSUME NEW m \in Messages
  PROVE  /\ Packet(m) \in Seq(Cells) /\ Len(Packet(m)) = HeaderSize + LengthOf[m]
         /\ \A n \in 1 .. HeaderSize + LengthOf[m] : Packet(m)[n] = <<m, n>>
<1> DEFINE p == Packet(m)
           l == HeaderSize + LengthOf[m]
<1>1. l \in Nat /\ p = [n \in 1 .. l |-> <<m, n>>]
  BY MessagesAre DEF Packet, HeaderSize
<1>2. \A n \in 1 .. l : p[n] = <<m, n>> /\ p[n] \in Cells
  <2>1. \A n \in DOMAIN p : p[n] \in {Packet(m)[j] : j \in DOMAIN Packet(m)}
    OBVIOUS
  <2>2. \A n \in DOMAIN p : p[n] \in Cells
    BY <2>1 DEF Cells
  <2> HIDE DEF p, l
  <2> QED BY <1>1, <2>2
<1> HIDE DEF p, l
<1>3. p \in Seq(Cells) /\ Len(p) = l
  <2>1. p \in [1 .. l -> Cells]
    BY <1>1, <1>2
  <2> QED BY <1>1, <2>1
<1> QED BY <1>2, <1>3 DEF p, l

\* A cell that is in second place of its packet is the length of a message.
LEMMA CellsAre ==
  ASSUME NEW c \in Cells
  PROVE  c = <<0, 0>> \/ (c[1] \in Messages /\ c = <<c[1], c[2]>>)
<1>1. CASE c \in {<<0, 0>>}
  BY <1>1
<1>2. CASE c \in UNION {{Packet(m)[n] : n \in DOMAIN Packet(m)} : m \in Messages}
  <2>1. PICK m \in Messages : c \in {Packet(m)[n] : n \in DOMAIN Packet(m)}
    BY <1>2
  <2>2. PICK n \in DOMAIN Packet(m) : c = Packet(m)[n]
    BY <2>1
  <2>3. c = <<m, n>>
    BY <2>2 DEF Packet
  <2> QED BY <2>3
<1> QED BY <1>1, <1>2 DEF Cells

\* The buffer of a connection that was never used.
LEMMA NoBufferIs ==
  /\ IsBuffer(NoBuffer, BufferSize, Cells) /\ Contents(NoBuffer) = <<>>
  /\ IsEmpty(NoBuffer) /\ ~NoBuffer.full /\ Size(NoBuffer) = 0
<1>1. <<0, 0>> \in Cells
  BY DEF Cells
<1> QED BY <1>1, NewBufferIs, PacketStreamAssumption DEF NoBuffer

(***************************************************************************)
(* The agenda.  What the server has still to do with a socket is done with *)
(* a connected one: a connection is closed by its last call, or all of its *)
(* calls are dropped; sockets that are closed wait for the sweep.          *)
(***************************************************************************)
IO == {"send", "send_again", "flush", "receive"}

\* What a call of the agenda needs from the server's end of its connection.
Callable(c, ends) ==
  /\ c.call \in IO => c.conn \in Connections /\ ends[c.conn] = "connected"
  /\ c.call \in {"send", "send_again"} => c.message \in Messages
  /\ c.call = "sweep" => c.conn \notin Connections
  /\ c.call = "accept" => c.conn \in Connections /\ ends[c.conn] = "queued"

\* c may stand before d: nothing follows the receive of a socket, which may close it;
\* the sweep comes after all clients, and accept last (server.cpp:61-85).
Before(c, d) ==
  /\ c.call = "receive" /\ d.call \in IO => c.conn # d.conn
  /\ c.call = "sweep" => d.call = "accept"
  /\ c.call # "accept"

\* An agenda in which this is so.
InOrder(s) == \A m, n \in DOMAIN s : m < n => Before(s[m], s[n])

\* A sweep comes after the m-th call.
Sweeps(s, m) == \E n \in DOMAIN s : m < n /\ s[n].call = "sweep"

\* The agenda s, for the clients in socks: a poll still has a sweep to come, for the
\* sockets that its calls close and for those closed before.
AgendaOK(s, socks, ends, polled) ==
  /\ \A n \in DOMAIN socks : ends[socks[n]] \in {"connected", "closed"}
  /\ \A n \in DOMAIN s : Callable(s[n], ends)
  /\ InOrder(s)
  /\ polled => \A m \in DOMAIN s : s[m].call \in IO => Sweeps(s, m)
  /\ polled /\ (\E n \in DOMAIN socks : ends[socks[n]] = "closed") => Sweeps(s, 0)

\* t is s without some of its calls: h says which stay, and what comes after the
\* first call and is a sweep stays.
Shrinks(t, s, h) ==
  /\ h \in [1 .. Len(t) -> 1 .. Len(s)]
  /\ \A i, j \in 1 .. Len(t) : i < j => h[i] < h[j]
  /\ \A i \in 1 .. Len(t) : t[i] = s[h[i]]
  /\ \A n \in 2 .. Len(s) : s[n].call = "sweep" => \E i \in 1 .. Len(t) : h[i] = n

\* A shorter agenda keeps its order, and its sweep.
LEMMA ShorterAgenda ==
  ASSUME NEW s \in Seq(Calls), NEW t \in Seq(Calls), NEW h, Shrinks(t, s, h),
         NEW socks, NEW ends, NEW polled, AgendaOK(s, socks, ends, polled)
  PROVE  /\ \A n \in DOMAIN t : Callable(t[n], ends)
         /\ InOrder(t)
         /\ polled => \A m \in DOMAIN t : t[m].call \in IO => Sweeps(t, m)
         /\ polled /\ s # <<>> /\ s[1].call \in IO => Sweeps(t, 0)
<1>1. /\ DOMAIN s = 1 .. Len(s) /\ DOMAIN t = 1 .. Len(t)
      /\ Len(s) \in Nat /\ Len(t) \in Nat
  OBVIOUS
<1>2. /\ h \in [1 .. Len(t) -> 1 .. Len(s)]
      /\ \A i, j \in 1 .. Len(t) : i < j => h[i] < h[j]
      /\ \A i \in 1 .. Len(t) : t[i] = s[h[i]]
      /\ \A n \in 2 .. Len(s) : s[n].call = "sweep" => \E i \in 1 .. Len(t) : h[i] = n
  BY DEF Shrinks
<1>3. \A n \in DOMAIN t : Callable(t[n], ends)
  BY <1>1, <1>2 DEF AgendaOK
<1>4. InOrder(t)
  <2> SUFFICES ASSUME NEW i \in 1 .. Len(t), NEW j \in 1 .. Len(t), i < j
               PROVE  Before(t[i], t[j])
    BY <1>1 DEF InOrder
  <2>1. h[i] \in 1 .. Len(s) /\ h[j] \in 1 .. Len(s) /\ h[i] < h[j]
    BY <1>2
  <2>2. Before(s[h[i]], s[h[j]])
    BY <1>1, <2>1 DEF AgendaOK, InOrder
  <2> QED BY <1>2, <2>2
<1>5. ASSUME polled, NEW m \in 1 .. Len(t), t[m].call \in IO
      PROVE  Sweeps(t, m)
  <2>1. h[m] \in 1 .. Len(s) /\ s[h[m]].call \in IO
    BY <1>2, <1>5
  <2>2. PICK n \in 1 .. Len(s) : h[m] < n /\ s[n].call = "sweep"
    BY <1>1, <1>5, <2>1 DEF AgendaOK, Sweeps
  <2>3. n \in 2 .. Len(s)
    BY <2>1, <2>2
  <2>4. PICK i \in 1 .. Len(t) : h[i] = n
    BY <1>2, <2>2, <2>3
  <2>5. m < i
    <3>1. m # i
      BY <2>1, <2>2, <2>4
    <3>2. ~(i < m)
      BY <1>2, <2>1, <2>2, <2>4
    <3> QED BY <3>1, <3>2
  <2> QED BY <1>1, <1>2, <2>2, <2>4, <2>5 DEF Sweeps
<1>6. ASSUME polled, s # <<>>, s[1].call \in IO PROVE Sweeps(t, 0)
  <2>1. 1 \in 1 .. Len(s)
    BY <1>1, <1>6
  <2>2. PICK n \in 1 .. Len(s) : 1 < n /\ s[n].call = "sweep"
    BY <1>1, <1>6, <2>1 DEF AgendaOK, Sweeps
  <2>3. n \in 2 .. Len(s)
    BY <2>2
  <2>4. PICK i \in 1 .. Len(t) : h[i] = n
    BY <1>2, <2>2, <2>3
  <2>5. 0 < i
    OBVIOUS
  <2> QED BY <1>1, <1>2, <2>2, <2>4, <2>5 DEF Sweeps
<1> QED BY <1>1, <1>3, <1>4, <1>5, <1>6

\* Two lists of calls, one after the other.
LEMMA JoinedAgendas ==
  ASSUME NEW s \in Seq(Calls), NEW t \in Seq(Calls), InOrder(s), InOrder(t),
         \A m \in DOMAIN s : \A n \in DOMAIN t : Before(s[m], t[n])
  PROVE  InOrder(s \o t)
<1> DEFINE q == s \o t
           k == Len(s)
           l == Len(t)
<1>1. /\ DOMAIN s = 1 .. k /\ DOMAIN t = 1 .. l /\ DOMAIN q = 1 .. k + l
      /\ k \in Nat /\ l \in Nat
      /\ \A i \in 1 .. k : q[i] = s[i]
      /\ \A i \in 1 .. k + l : i > k => q[i] = t[i - k]
  OBVIOUS
<1> HIDE DEF q, k, l
<1> SUFFICES ASSUME NEW m \in 1 .. k + l, NEW n \in 1 .. k + l, m < n
             PROVE  Before(q[m], q[n])
  BY <1>1 DEF InOrder, q
<1>2. CASE n <= k
  <2>1. m \in 1 .. k /\ n \in 1 .. k
    BY <1>1, <1>2
  <2> QED BY <2>1, <1>1 DEF InOrder
<1>3. CASE m <= k /\ n > k
  <2>1. m \in 1 .. k /\ n - k \in 1 .. l
    BY <1>1, <1>3
  <2> QED BY <2>1, <1>1, <1>3
<1>4. CASE m > k
  <2>1. m - k \in 1 .. l /\ n - k \in 1 .. l /\ m - k < n - k /\ n > k
    BY <1>1, <1>4
  <2> QED BY <2>1, <1>1, <1>4 DEF InOrder
<1> QED BY <1>1, <1>2, <1>3, <1>4

\* The first call is done and nothing else.
LEMMA TailShrinks ==
  ASSUME NEW s \in Seq(Calls), s # <<>>
  PROVE  /\ Tail(s) \in Seq(Calls) /\ Head(s) = s[1] /\ s[1] \in Calls
         /\ Len(s) \in Nat \ {0} /\ DOMAIN s = 1 .. Len(s)
         /\ DOMAIN Tail(s) = 1 .. Len(s) - 1
         /\ \A i \in 1 .. Len(s) - 1 : Tail(s)[i] = s[i + 1]
         /\ \E h : Shrinks(Tail(s), s, h)
<1> DEFINE l == Len(s)
           t == Tail(s)
           h == [i \in 1 .. l - 1 |-> i + 1]
<1>1. /\ t \in Seq(Calls) /\ Head(s) = s[1] /\ s[1] \in Calls
      /\ l \in Nat \ {0} /\ Len(t) = l - 1 /\ DOMAIN s = 1 .. l /\ DOMAIN t = 1 .. l - 1
      /\ \A i \in 1 .. l - 1 : t[i] = s[i + 1]
  OBVIOUS
<1> HIDE DEF l, t
<1>2. h \in [1 .. l - 1 -> 1 .. l]
  BY <1>1
<1>3. \A n \in 2 .. l : n - 1 \in 1 .. l - 1 /\ h[n - 1] = n
  BY <1>1
<1>4. \A i, j \in 1 .. l - 1 : i < j => h[i] < h[j]
  BY <1>1
<1>5. \A i \in 1 .. l - 1 : t[i] = s[h[i]]
  BY <1>1
<1> HIDE DEF h
<1>6. Shrinks(t, s, h)
  <2>1. \A n \in 2 .. Len(s) : \E i \in 1 .. Len(t) : h[i] = n
    BY <1>1, <1>3 DEF l
  <2> QED BY <1>1, <1>2, <1>4, <1>5, <2>1 DEF Shrinks, l
<1> QED BY <1>1, <1>6 DEF l, t

\* ::send fails: nothing more for this connection.
LEMMA DroppedCalls ==
  ASSUME NEW s \in Seq(Calls), s # <<>>, NEW S,
         \A c \in S : c.call # "sweep"
  PROVE  /\ EraseAll(Tail(s), S) \in Seq(Calls)
         /\ \A i \in DOMAIN EraseAll(Tail(s), S) :
              EraseAll(Tail(s), S)[i] \in ToSet(s) \ S
         /\ \E h : Shrinks(EraseAll(Tail(s), S), s, h)
<1> DEFINE l == Len(s)
           u == Tail(s)
           t == EraseAll(u, S)
<1>1. /\ u \in Seq(Calls) /\ l \in Nat \ {0} /\ Len(u) = l - 1 /\ DOMAIN s = 1 .. l
      /\ \A i \in 1 .. l - 1 : u[i] = s[i + 1]
  BY TailShrinks
<1> HIDE DEF l, u
<1>2. t \in Seq(Calls) /\ \E h : KeptFrom(t, u, S, Len(u), h)
  BY <1>1, EraseAllKeeps
<1>3. PICK h : KeptFrom(t, u, S, Len(u), h)
  BY <1>2
<1> HIDE DEF t
<1> DEFINE g == [i \in 1 .. Len(t) |-> h[i] + 1]
<1>4. /\ Len(t) \in Nat /\ DOMAIN t = 1 .. Len(t)
      /\ h \in [1 .. Len(t) -> 1 .. l - 1]
      /\ \A i, j \in 1 .. Len(t) : i < j => h[i] < h[j]
      /\ \A i \in 1 .. Len(t) : t[i] = u[h[i]] /\ t[i] \notin S
      /\ \A j \in 1 .. l - 1 : u[j] \notin S => \E i \in 1 .. Len(t) : h[i] = j
  BY <1>1, <1>2, <1>3 DEF KeptFrom
<1>5. ASSUME NEW i \in 1 .. Len(t)
      PROVE  /\ h[i] \in 1 .. l - 1 /\ h[i] + 1 \in 1 .. l
             /\ t[i] = s[h[i] + 1] /\ g[i] = h[i] + 1
  <2>1. h[i] \in 1 .. l - 1 /\ t[i] = u[h[i]]
    BY <1>4
  <2>2. h[i] + 1 \in 1 .. l
    BY <1>1, <2>1
  <2> QED BY <1>1, <2>1, <2>2
<1>6. g \in [1 .. Len(t) -> 1 .. l]
  BY <1>5
<1>7. \A i, j \in 1 .. Len(t) : i < j => g[i] < g[j]
  BY <1>4, <1>5
<1>8. ASSUME NEW n \in 2 .. l, s[n].call = "sweep" PROVE \E i \in 1 .. Len(t) : g[i] = n
  <2>1. n - 1 \in 1 .. l - 1 /\ (n - 1) + 1 = n /\ u[n - 1] = s[n]
    BY <1>1
  <2>2. u[n - 1] \notin S
    BY <2>1, <1>8
  <2>3. PICK i \in 1 .. Len(t) : h[i] = n - 1
    BY <1>4, <2>1, <2>2
  <2> QED BY <2>1, <2>3, <1>5
<1> HIDE DEF g
<1>9. Shrinks(t, s, g)
  BY <1>5, <1>6, <1>7, <1>8 DEF Shrinks, l
<1>10. \A i \in DOMAIN t : t[i] \in ToSet(s) \ S
  BY <1>1, <1>4, <1>5 DEF ToSet
<1> QED BY <1>2, <1>9, <1>10 DEF t, u

\* The call that ToDo makes.
LEMMA ToDoIs ==
  ASSUME NEW call \in {"send", "send_again", "flush", "receive", "sweep", "accept"},
         NEW i \in Connections \cup {0}, NEW m \in Messages \cup {0}
  PROVE  /\ ToDo(call, i, m) \in Calls /\ <<ToDo(call, i, m)>> \in Seq(Calls)
         /\ ToDo(call, i, m).call = call /\ ToDo(call, i, m).conn = i
         /\ ToDo(call, i, m).message = m
<1>1. i \in 0 .. MaxConnections
  BY PacketStreamAssumption DEF Connections
<1> QED BY <1>1 DEF ToDo, Calls

\* One call alone.
LEMMA OneCall ==
  ASSUME NEW c \in Calls
  PROVE  InOrder(<<c>>) /\ DOMAIN <<c>> = {1} /\ <<c>>[1] = c
BY DEF InOrder

\* A call after a call.
LEMMA TwoCalls ==
  ASSUME NEW c \in Calls, NEW d \in Calls
  PROVE  <<c>> \o <<d>> = <<c, d>>
<1> DEFINE A == Calls
<1>1. c \in A /\ d \in A
  OBVIOUS
<1> HIDE DEF A
<1> DEFINE x == <<c>>
           y == <<d>>
           z == <<c, d>>
<1>2. /\ x \in Seq(A) /\ Len(x) = 1 /\ x[1] = c
      /\ y \in Seq(A) /\ Len(y) = 1 /\ y[1] = d
      /\ z \in Seq(A) /\ Len(z) = 2 /\ z[1] = c /\ z[2] = d
  BY <1>1
<1> HIDE DEF x, y, z
<1>3. /\ x \o y \in Seq(A) /\ Len(x \o y) = 2
      /\ \A i \in 1 .. 2 : (x \o y)[i] = IF i <= 1 THEN x[i] ELSE y[i - 1]
  <2>1. /\ x \o y \in Seq(A) /\ Len(x \o y) = Len(x) + Len(y)
        /\ \A i \in 1 .. Len(x) + Len(y) :
             (x \o y)[i] = IF i <= Len(x) THEN x[i] ELSE y[i - Len(x)]
    BY <1>2, ConcatProperties
  <2> QED BY <1>2, <2>1
<1>4. \A i \in 1 .. 2 : (x \o y)[i] = z[i]
  <2>1. \A i \in 1 .. 2 : i = 1 \/ i = 2
    OBVIOUS
  <2> QED BY <1>2, <1>3, <2>1
<1>5. x \o y = z
  BY <1>2, <1>3, <1>4, SeqEqual
<1> QED BY <1>5 DEF x, y, z

\* What the list of clients holds.
SocksOK(socks, ends) ==
  /\ socks \in Seq(Connections) /\ IsInjective(socks)
  /\ \A n \in DOMAIN socks : ends[socks[n]] \in {"connected", "closed"}

\* What poll() does for one client: it may send, and then receive.
LEMMA CallsForOne ==
  ASSUME NEW i \in Connections, serverEnd[i] \in {"connected", "closed"}
  PROVE  /\ CallsFor(i) \in Seq(Calls) /\ InOrder(CallsFor(i))
         /\ \A n \in DOMAIN CallsFor(i) :
              /\ CallsFor(i)[n].call \in {"flush", "receive"} /\ CallsFor(i)[n].conn = i
              /\ Callable(CallsFor(i)[n], serverEnd)
<1> DEFINE f == ToDo("flush", i, 0)
           r == ToDo("receive", i, 0)
           c == CallsFor(i)
<1>1. /\ f \in Calls /\ f.call = "flush" /\ f.conn = i
      /\ r \in Calls /\ r.call = "receive" /\ r.conn = i
  BY ToDoIs
<1>2. c = <<>> \/ (serverEnd[i] = "connected" /\ c \in {<<>>, <<f>>, <<r>>, <<f, r>>})
  <2>1. CASE serverEnd[i] = "closed"
    BY <2>1 DEF CallsFor
  <2>2. CASE serverEnd[i] # "closed"
    <3>1. c = (IF SaysWritable(i) THEN <<f>> ELSE <<>>) \o (IF SaysReadable(i) THEN <<r>> ELSE <<>>)
      BY <2>2 DEF CallsFor
    <3> HIDE DEF c, f, r
    <3>2. <<f>> \o <<r>> = <<f, r>> /\ <<>> \o <<r>> = <<r>> /\ <<f>> \o <<>> = <<f>>
          /\ <<>> \o <<>> = <<>>
      <4>1. <<f>> \in Seq(Calls) /\ <<r>> \in Seq(Calls) /\ <<>> \in Seq(Calls)
        BY <1>1
      <4>2. <<>> \o <<r>> = <<r>> /\ <<f>> \o <<>> = <<f>> /\ <<>> \o <<>> = <<>>
        BY <4>1, ConcatEmptySeq
      <4>3. <<f>> \o <<r>> = <<f, r>>
        BY <1>1, TwoCalls
      <4> QED BY <4>2, <4>3
    <3>3. c \in {<<>>, <<f>>, <<r>>, <<f, r>>}
      <4>1. CASE SaysWritable(i) /\ SaysReadable(i)
        BY <3>1, <3>2, <4>1
      <4>2. CASE SaysWritable(i) /\ ~SaysReadable(i)
        BY <3>1, <3>2, <4>2
      <4>3. CASE ~SaysWritable(i) /\ SaysReadable(i)
        BY <3>1, <3>2, <4>3
      <4>4. CASE ~SaysWritable(i) /\ ~SaysReadable(i)
        BY <3>1, <3>2, <4>4
      <4> QED BY <4>1, <4>2, <4>3, <4>4
    <3>4. serverEnd[i] = "connected"
      BY <2>2
    <3> QED BY <3>3, <3>4
  <2> QED BY <2>1, <2>2
<1> HIDE DEF f, r, c
<1>3. \A n \in DOMAIN c : c[n] \in {f, r} /\ serverEnd[i] = "connected"
  <2>1. CASE c = <<>>
    BY <2>1
  <2>2. CASE c = <<f>>
    BY <1>2, <2>2
  <2>3. CASE c = <<r>>
    BY <1>2, <2>3
  <2>4. CASE c = <<f, r>>
    BY <1>2, <2>4
  <2> QED BY <1>2, <2>1, <2>2, <2>3, <2>4
<1>4. c \in Seq(Calls)
  <2>1. <<f>> \in Seq(Calls) /\ <<r>> \in Seq(Calls) /\ <<>> \in Seq(Calls)
    BY <1>1
  <2>2. <<f, r>> \in Seq(Calls)
    BY <1>1
  <2> QED BY <1>2, <2>1, <2>2
<1>5. InOrder(c)
  <2>1. \A m, n \in DOMAIN c : m < n => c[m] = f
    <3>1. CASE c = <<>>
      BY <3>1
    <3>2. CASE c = <<f>>
      BY <3>2
    <3>3. CASE c = <<r>>
      BY <3>3
    <3>4. CASE c = <<f, r>>
      BY <3>4
    <3> QED BY <1>2, <3>1, <3>2, <3>3, <3>4
  <2> QED BY <1>1, <2>1 DEF InOrder, Before
<1>6. Callable(f, serverEnd) \/ serverEnd[i] # "connected"
  BY <1>1 DEF Callable
<1>7. Callable(r, serverEnd) \/ serverEnd[i] # "connected"
  BY <1>1 DEF Callable
<1> QED BY <1>1, <1>3, <1>4, <1>5, <1>6, <1>7 DEF c

\* And for all of them.
Polled(s, k) ==
  /\ s \in Seq(Calls) /\ InOrder(s)
  /\ \A n \in DOMAIN s :
       /\ s[n].call \in {"flush", "receive"}
       /\ \E j \in 1 .. k : s[n].conn = clients[j]
       /\ Callable(s[n], serverEnd)

\* One client more.
LEMMA PolledMore ==
  ASSUME SocksOK(clients, serverEnd), NEW k \in 0 .. Len(clients) - 1, NEW s, Polled(s, k)
  PROVE  Polled(s \o CallsFor(clients[k + 1]), k + 1)
<1> DEFINE i == clients[k + 1]
           t == CallsFor(i)
<1>1. /\ clients \in Seq(Connections) /\ Len(clients) \in Nat /\ k \in Nat
      /\ DOMAIN clients = 1 .. Len(clients) /\ k + 1 \in DOMAIN clients /\ i \in Connections
      /\ \A j \in 1 .. k : j \in DOMAIN clients /\ j # k + 1 /\ j \in 1 .. k + 1
      /\ k + 1 \in 1 .. k + 1
  BY DEF SocksOK
<1>2. serverEnd[i] \in {"connected", "closed"}
  BY <1>1 DEF SocksOK
<1>3. \A j \in 1 .. k : clients[j] # i
  BY <1>1 DEF SocksOK, IsInjective
<1> HIDE DEF i
<1>4. /\ t \in Seq(Calls) /\ InOrder(t)
      /\ \A n \in DOMAIN t : /\ t[n].call \in {"flush", "receive"} /\ t[n].conn = i
                             /\ Callable(t[n], serverEnd)
  BY <1>1, <1>2, CallsForOne
<1>5. /\ s \in Seq(Calls) /\ InOrder(s)
      /\ \A n \in DOMAIN s : /\ s[n].call \in {"flush", "receive"}
                             /\ \E j \in 1 .. k : s[n].conn = clients[j]
                             /\ Callable(s[n], serverEnd)
  BY DEF Polled
<1> HIDE DEF t
<1>6. InOrder(s \o t)
  <2>1. ASSUME NEW m \in DOMAIN s, NEW n \in DOMAIN t PROVE Before(s[m], t[n])
    <3>1. s[m].conn # t[n].conn
      BY <1>3, <1>4, <1>5
    <3>2. s[m].call \notin {"sweep", "accept"}
      BY <1>5
    <3> QED BY <3>1, <3>2 DEF Before
  <2> QED BY <1>4, <1>5, <2>1, JoinedAgendas
<1> DEFINE q == s \o t
<1>7. /\ q \in Seq(Calls)
      /\ \A n \in DOMAIN q : \/ \E m \in DOMAIN s : q[n] = s[m]
                             \/ \E m \in DOMAIN t : q[n] = t[m]
  <2> DEFINE ls == Len(s)
             lt == Len(t)
  <2>1. /\ DOMAIN s = 1 .. ls /\ DOMAIN t = 1 .. lt /\ DOMAIN q = 1 .. ls + lt
        /\ ls \in Nat /\ lt \in Nat /\ q \in Seq(Calls)
        /\ \A n \in 1 .. ls : q[n] = s[n]
        /\ \A n \in 1 .. ls + lt : n > ls => q[n] = t[n - ls]
    BY <1>4, <1>5
  <2> HIDE DEF q, ls, lt
  <2>2. ASSUME NEW n \in 1 .. ls + lt
        PROVE  (\E m \in DOMAIN s : q[n] = s[m]) \/ (\E m \in DOMAIN t : q[n] = t[m])
    <3>1. CASE n <= ls
      <4>1. n \in 1 .. ls
        BY <2>1, <3>1
      <4> QED BY <4>1, <2>1
    <3>2. CASE n > ls
      <4>1. n - ls \in 1 .. lt
        BY <2>1, <3>2
      <4> QED BY <4>1, <2>1, <3>2
    <3> QED BY <3>1, <3>2, <2>1
  <2> QED BY <2>1, <2>2
<1> HIDE DEF q
<1>8. ASSUME NEW n \in DOMAIN q
      PROVE  /\ q[n].call \in {"flush", "receive"}
             /\ \E j \in 1 .. k + 1 : q[n].conn = clients[j]
             /\ Callable(q[n], serverEnd)
  <2>1. CASE \E m \in DOMAIN s : q[n] = s[m]
    <3>1. PICK m \in DOMAIN s : q[n] = s[m]
      BY <2>1
    <3>2. PICK j \in 1 .. k : s[m].conn = clients[j]
      BY <1>5
    <3>3. j \in 1 .. k + 1
      BY <1>1
    <3> QED BY <1>5, <3>1, <3>2, <3>3
  <2>2. CASE \E m \in DOMAIN t : q[n] = t[m]
    BY <1>1, <1>4, <2>2 DEF i
  <2> QED BY <1>7, <2>1, <2>2
<1>9. Polled(q, k + 1)
  BY <1>6, <1>7, <1>8 DEF Polled, q
<1> QED BY <1>9 DEF q, t, i

\* All clients.
LEMMA PolledAll ==
  ASSUME SocksOK(clients, serverEnd)
  PROVE  Polled(CallsForAll, Len(clients))
<1> DEFINE n == Len(clients)
           s == [j \in 1 .. n |-> CallsFor(clients[j])]
<1>1. /\ n \in Nat /\ DOMAIN clients = 1 .. n
      /\ \A j \in 1 .. n : clients[j] \in Connections
                           /\ serverEnd[clients[j]] \in {"connected", "closed"}
  BY DEF SocksOK
<1>2. CallsForAll = FlattenSeq(s)
  BY <1>1 DEF CallsForAll
<1>3. \A j \in 1 .. n : CallsFor(clients[j]) \in Seq(Calls)
  BY <1>1, CallsForOne
<1>4. s \in Seq(Seq(Calls)) /\ Len(s) = n /\ \A j \in 1 .. n : s[j] = CallsFor(clients[j])
  <2>1. s \in [1 .. n -> Seq(Calls)]
    BY <1>3
  <2> HIDE DEF n
  <2> QED BY <1>1, <2>1
<1> HIDE DEF n, s
<1>5. PICK run \in [0 .. n -> Seq(Calls)] : Joins(run, s) /\ FlattenSeq(s) = run[n]
  BY <1>4, FlattenRuns
<1> DEFINE T == {k \in 0 .. n : Polled(run[k], k)}
<1>6. 0 \in T
  <2>1. run[0] = <<>>
    BY <1>5 DEF Joins
  <2>2. Polled(<<>>, 0)
    BY DEF Polled, InOrder
  <2> QED BY <1>1, <2>1, <2>2
<1>7. ASSUME NEW k \in 0 .. n - 1, k \in T PROVE k + 1 \in T
  <2>1. k + 1 \in 1 .. n /\ (k + 1) - 1 = k /\ k + 1 \in 0 .. n
    <3> HIDE DEF T
    <3>1. n \in Nat
      BY <1>1
    <3> QED BY <3>1
  <2>2. run[k + 1] = run[k] \o CallsFor(clients[k + 1])
    BY <1>4, <1>5, <2>1 DEF Joins
  <2>3. Polled(run[k], k)
    BY <1>7
  <2>4. Polled(run[k] \o CallsFor(clients[k + 1]), k + 1)
    BY <2>3, PolledMore DEF n
  <2> QED BY <2>1, <2>2, <2>4
<1>8. n \in T
  <2> HIDE DEF T
  <2>1. 0 .. n \subseteq T
    BY <1>1, <1>6, <1>7, CountingUp
  <2> QED BY <1>1, <2>1
<1> QED BY <1>2, <1>5, <1>8 DEF n

\* The agenda that poll() makes.
LEMMA PollAgenda ==
  ASSUME SocksOK(clients, serverEnd)
  PROVE  /\ CallsForAll \o <<ToDo("sweep", 0, 0)>> \o CallsAccept \in Seq(Calls)
         /\ AgendaOK(CallsForAll \o <<ToDo("sweep", 0, 0)>> \o CallsAccept,
                     clients, serverEnd, TRUE)
<1> DEFINE s == CallsForAll
           x == ToDo("sweep", 0, 0)
           a == CallsAccept
           l == Len(s)
           q == (s \o <<x>>) \o a
<1>1. /\ s \in Seq(Calls) /\ InOrder(s)
      /\ \A n \in DOMAIN s : s[n].call \in {"flush", "receive"} /\ Callable(s[n], serverEnd)
  BY PolledAll DEF Polled
<1>2. /\ x \in Calls /\ x.call = "sweep" /\ x.conn = 0 /\ 0 \notin Connections
      /\ InOrder(<<x>>)
  BY ToDoIs, OneCall, MessagesAre
<1>3. /\ a \in Seq(Calls) /\ InOrder(a)
      /\ \A n \in DOMAIN a : a[n].call = "accept" /\ Callable(a[n], serverEnd)
  <2>1. CASE Backlog = {}
    BY <2>1 DEF CallsAccept, InOrder
  <2>2. CASE Backlog # {}
    <3> DEFINE i == Min(Backlog)
               c == ToDo("accept", i, 0)
    <3>1. Backlog \in SUBSET Nat
      BY MessagesAre DEF Backlog
    <3>2. i \in Backlog
      BY <2>2, <3>1, MinOfSome
    <3>3. i \in Connections /\ serverEnd[i] = "queued"
      BY <3>2 DEF Backlog
    <3>4. a = <<c>>
      BY <2>2 DEF CallsAccept
    <3> HIDE DEF i
    <3>5. c \in Calls /\ <<c>> \in Seq(Calls) /\ c.call = "accept" /\ c.conn = i
      BY <3>3, ToDoIs
    <3>6. Callable(c, serverEnd)
      BY <3>3, <3>5 DEF Callable, IO
    <3> HIDE DEF c
    <3>7. DOMAIN <<c>> = {1} /\ <<c>>[1] = c /\ InOrder(<<c>>)
      BY <3>5, OneCall
    <3> QED BY <3>4, <3>5, <3>6, <3>7
  <2> QED BY <2>1, <2>2
<1> HIDE DEF s, x, a
<1>4. DOMAIN <<x>> = {1} /\ <<x>>[1] = x /\ <<x>> \in Seq(Calls)
  BY <1>2
<1>5. s \o <<x>> \in Seq(Calls) /\ InOrder(s \o <<x>>)
  <2>1. \A m \in DOMAIN s : \A n \in DOMAIN <<x>> : Before(s[m], <<x>>[n])
    BY <1>1, <1>2, <1>4 DEF Before, IO
  <2>2. InOrder(s \o <<x>>)
    BY <1>1, <1>2, <1>4, <2>1, JoinedAgendas
  <2> QED BY <1>1, <1>4, <2>2
<1>6. /\ l \in Nat /\ DOMAIN s = 1 .. l
      /\ Len(s \o <<x>>) = l + 1 /\ (s \o <<x>>)[l + 1] = x
      /\ \A n \in 1 .. l : (s \o <<x>>)[n] = s[n]
  BY <1>1, <1>4
<1> DEFINE u == s \o <<x>>
<1> HIDE DEF u, l
<1>7. /\ u \in Seq(Calls) /\ InOrder(u) /\ DOMAIN u = 1 .. l + 1 /\ u[l + 1] = x
      /\ Len(u) = l + 1
      /\ \A n \in 1 .. l : u[n] = s[n]
  BY <1>5, <1>6 DEF u
<1>8. \A n \in 1 .. l + 1 : n = l + 1 \/ n \in 1 .. l
  BY <1>6
<1>9. InOrder(u \o a)
  <2>1. ASSUME NEW m \in DOMAIN u, NEW n \in DOMAIN a PROVE Before(u[m], a[n])
    <3>1. a[n].call = "accept" /\ u[m].call \in {"flush", "receive", "sweep"}
      BY <1>1, <1>2, <1>3, <1>6, <1>7, <1>8
    <3> QED BY <3>1 DEF Before, IO
  <2> QED BY <1>3, <1>7, <2>1, JoinedAgendas
<1> DEFINE w == u \o a
           k == Len(a)
<1>10. /\ w \in Seq(Calls) /\ k \in Nat /\ DOMAIN a = 1 .. k /\ DOMAIN w = 1 .. (l + 1) + k
       /\ \A n \in 1 .. l + 1 : w[n] = u[n]
       /\ \A n \in 1 .. (l + 1) + k : n > l + 1 => w[n] = a[n - (l + 1)]
  <2>1. /\ w \in Seq(Calls) /\ Len(w) = Len(u) + k
        /\ \A n \in 1 .. Len(u) + k : w[n] = IF n <= Len(u) THEN u[n] ELSE a[n - Len(u)]
    BY <1>3, <1>7, ConcatProperties
  <2>2. k \in Nat /\ DOMAIN a = 1 .. k /\ DOMAIN w = 1 .. Len(w)
    BY <1>3, <2>1
  <2> HIDE DEF w, k
  <2>3. \A n \in 1 .. l + 1 : n \in 1 .. (l + 1) + k /\ n <= l + 1
    BY <1>6, <2>2
  <2>4. \A n \in 1 .. (l + 1) + k : n > l + 1 => ~(n <= l + 1)
    BY <1>6, <2>2
  <2> QED BY <1>7, <2>1, <2>2, <2>3, <2>4
<1> HIDE DEF w, k
<1>11. l + 1 \in 1 .. (l + 1) + k /\ w[l + 1] = x
  BY <1>6, <1>7, <1>10
<1>12. ASSUME NEW n \in 1 .. (l + 1) + k
       PROVE  Callable(w[n], serverEnd) /\ (w[n].call \in IO => n < l + 1)
  <2>1. CASE n < l + 1
    <3>1. n \in 1 .. l /\ n \in 1 .. l + 1
      BY <1>6, <2>1
    <3> QED BY <3>1, <2>1, <1>1, <1>6, <1>7, <1>10
  <2>2. CASE n = l + 1
    BY <2>2, <1>2, <1>11 DEF Callable, IO
  <2>3. CASE n > l + 1
    <3>1. n - (l + 1) \in 1 .. k
      BY <1>6, <1>10, <2>3
    <3>2. w[n] = a[n - (l + 1)]
      BY <1>10, <2>3
    <3> QED BY <1>3, <1>10, <3>1, <3>2 DEF IO
  <2> QED BY <2>1, <2>2, <2>3, <1>6
<1>13. \A m \in DOMAIN w : w[m].call \in IO => Sweeps(w, m)
  BY <1>2, <1>10, <1>11, <1>12 DEF Sweeps
<1>14. Sweeps(w, 0)
  <2>1. 0 < l + 1
    BY <1>6
  <2> QED BY <2>1, <1>2, <1>10, <1>11 DEF Sweeps
<1>15. AgendaOK(w, clients, serverEnd, TRUE)
  BY <1>9, <1>10, <1>12, <1>13, <1>14 DEF AgendaOK, SocksOK, w
<1> QED BY <1>10, <1>15 DEF w, u, s, x, a

\* What the server's end of a connection may be.
Ends == {"none", "refused", "queued", "connected", "closed"}

\* The server's own state, and its agenda.
ServerTyped ==
  /\ listening \in BOOLEAN /\ fresh \in BOOLEAN
  /\ clients \in Seq(Connections) /\ IsInjective(clients)
  /\ agenda \in Seq(Calls)
  /\ serverEnd \in [Connections -> Ends]

Plan == AgendaOK(agenda, clients, serverEnd, fresh)

\* The client's state; unless it is closed it has a connection.
ClientTyped ==
  /\ client \in [state : {"closed", "connecting", "connected"}, conn : 0 .. MaxConnections,
                 doing : {"nothing", "receiving", "processing"}, again : BOOLEAN]
  /\ client.state # "closed" => client.conn \in Connections

\* Nothing was done with a connection before the server accepted it.
Unused(i) ==
  /\ sendBuffer[i] = NoBuffer /\ pipe[i] = <<>>
  /\ accepted[i] = <<>> /\ delivered[i] = <<>>

\* Connections in the order they are made, and an unused receive buffer while the
\* client has no connection.
Idle ==
  /\ \A i \in Connections : i > client.conn => serverEnd[i] = "none"
  /\ \A i \in Connections : serverEnd[i] \in {"none", "refused", "queued"} => Unused(i)
  /\ \/ client.state = "connected" /\ serverEnd[client.conn] \in {"connected", "closed"}
     \/ receiveBuffer = NoBuffer /\ client.doing = "nothing"

\* The call that is next.
LEMMA NextCall ==
  ASSUME ServerTyped, Plan, agenda # <<>>
  PROVE  /\ Head(agenda) = agenda[1] /\ 1 \in DOMAIN agenda
         /\ Tail(agenda) \in Seq(Calls) /\ Head(agenda) \in Calls
         /\ Callable(Head(agenda), serverEnd)
         /\ Conn \in 0 .. MaxConnections
         /\ Head(agenda).call \in IO \cup {"accept"} => Conn \in Connections
<1>1. /\ Head(agenda) = agenda[1] /\ Len(agenda) \in Nat \ {0}
      /\ DOMAIN agenda = 1 .. Len(agenda) /\ agenda[1] \in Calls
      /\ Tail(agenda) \in Seq(Calls)
  BY TailShrinks DEF ServerTyped
<1>2. 1 \in DOMAIN agenda
  BY <1>1
<1>3. Callable(agenda[1], serverEnd)
  BY <1>2 DEF Plan, AgendaOK
<1>4. Conn \in 0 .. MaxConnections
  BY <1>1 DEF Conn, Calls
<1> QED BY <1>1, <1>2, <1>3, <1>4 DEF Callable, Conn

\* The tail of the agenda, when nothing else changes.
LEMMA PlanGoesOn ==
  ASSUME ServerTyped, Plan, agenda # <<>>, Head(agenda).call \in IO
  PROVE  /\ AgendaOK(Tail(agenda), clients, serverEnd, fresh)
         /\ fresh => Sweeps(Tail(agenda), 0)
<1>1. PICK h : Shrinks(Tail(agenda), agenda, h)
  BY TailShrinks DEF ServerTyped
<1>2. agenda[1].call \in IO /\ Tail(agenda) \in Seq(Calls) /\ agenda \in Seq(Calls)
  BY NextCall DEF ServerTyped
<1> DEFINE t == Tail(agenda)
<1>3. /\ \A n \in DOMAIN t : Callable(t[n], serverEnd)
      /\ InOrder(t)
      /\ fresh => \A m \in DOMAIN t : t[m].call \in IO => Sweeps(t, m)
      /\ fresh => Sweeps(t, 0)
  BY <1>1, <1>2, ShorterAgenda DEF Plan
<1> QED BY <1>3 DEF Plan, AgendaOK

\* A call is put in front.
LEMMA PlanGrows ==
  ASSUME NEW t \in Seq(Calls), AgendaOK(t, clients, serverEnd, fresh),
         fresh => Sweeps(t, 0),
         NEW c \in Calls, c.call \in {"flush", "send_again"}, Callable(c, serverEnd)
  PROVE  /\ <<c>> \o t \in Seq(Calls)
         /\ AgendaOK(<<c>> \o t, clients, serverEnd, fresh)
         /\ fresh => Sweeps(<<c>> \o t, 0)
<1> DEFINE q == <<c>> \o t
           x == <<c>>
           l == Len(t)
<1>1. /\ x \in Seq(Calls) /\ InOrder(x) /\ DOMAIN x = {1} /\ x[1] = c /\ Len(x) = 1
  BY OneCall
<1>2. /\ q \in Seq(Calls) /\ l \in Nat /\ DOMAIN t = 1 .. l /\ DOMAIN q = 1 .. l + 1
      /\ q[1] = c /\ \A n \in 1 .. l : q[n + 1] = t[n]
  <2>1. /\ q \in Seq(Calls) /\ Len(q) = Len(x) + l
        /\ \A n \in 1 .. Len(x) + l : q[n] = IF n <= Len(x) THEN x[n] ELSE t[n - Len(x)]
    BY <1>1, ConcatProperties
  <2>2. l \in Nat /\ DOMAIN t = 1 .. l /\ DOMAIN q = 1 .. Len(q)
    BY <2>1
  <2> HIDE DEF q, l, x
  <2>3. \A n \in 1 .. l : n + 1 \in 1 .. 1 + l /\ ~(n + 1 <= 1) /\ (n + 1) - 1 = n
    BY <2>2
  <2>4. 1 \in 1 .. 1 + l /\ 1 + l = l + 1
    BY <2>2
  <2> QED BY <1>1, <2>1, <2>2, <2>3, <2>4
<1> HIDE DEF l
<1>3. /\ \A n \in DOMAIN clients : serverEnd[clients[n]] \in {"connected", "closed"}
      /\ \A n \in 1 .. l : Callable(t[n], serverEnd)
      /\ InOrder(t)
      /\ fresh => \A m \in 1 .. l : t[m].call \in IO => Sweeps(t, m)
  BY <1>2 DEF AgendaOK
<1>4. InOrder(q)
  <2>1. \A m \in DOMAIN x : \A n \in DOMAIN t : Before(x[m], t[n])
    BY <1>1 DEF Before
  <2> HIDE DEF x
  <2> QED BY <1>1, <1>3, <2>1, JoinedAgendas DEF x
<1> HIDE DEF q, x
<1>5. \A n \in 1 .. l + 1 : n = 1 \/ (n - 1 \in 1 .. l /\ q[n] = t[n - 1])
  <2>1. \A n \in 1 .. l + 1 : n = 1 \/ (n - 1 \in 1 .. l /\ (n - 1) + 1 = n)
    BY <1>2
  <2> QED BY <1>2, <2>1
<1>6. \A n \in 1 .. l + 1 : Callable(q[n], serverEnd)
  BY <1>2, <1>3, <1>5
<1>7. ASSUME NEW k \in 0 .. l, Sweeps(t, k) PROVE Sweeps(q, k + 1)
  <2>1. PICK n \in 1 .. l : k < n /\ t[n].call = "sweep"
    BY <1>2, <1>7 DEF Sweeps
  <2>2. n + 1 \in 1 .. l + 1 /\ k + 1 < n + 1 /\ q[n + 1].call = "sweep"
    BY <1>2, <2>1
  <2> QED BY <1>2, <2>2 DEF Sweeps
<1>8. ASSUME fresh PROVE Sweeps(q, 0) /\ Sweeps(q, 1)
  <2>1. Sweeps(q, 0 + 1)
    <3>1. Sweeps(t, 0) /\ 0 \in 0 .. l
      BY <1>2, <1>8
    <3> QED BY <3>1, <1>7
  <2>2. PICK n \in 1 .. l + 1 : 1 < n /\ q[n].call = "sweep"
    BY <1>2, <2>1 DEF Sweeps
  <2> QED BY <1>2, <2>2 DEF Sweeps
<1>9. ASSUME fresh, NEW m \in 1 .. l + 1, q[m].call \in IO PROVE Sweeps(q, m)
  <2>1. CASE m = 1
    BY <1>8, <1>9, <2>1
  <2>2. CASE m # 1
    <3>1. m - 1 \in 1 .. l /\ q[m] = t[m - 1] /\ (m - 1) + 1 = m /\ m - 1 \in 0 .. l
      BY <1>2, <1>5, <2>2
    <3>2. Sweeps(t, m - 1)
      BY <1>3, <1>9, <3>1
    <3>3. Sweeps(q, (m - 1) + 1)
      BY <1>7, <3>1, <3>2
    <3> QED BY <3>1, <3>3
  <2> QED BY <2>1, <2>2
<1>10. AgendaOK(q, clients, serverEnd, fresh)
  BY <1>2, <1>3, <1>4, <1>6, <1>8, <1>9 DEF AgendaOK
<1> QED BY <1>2, <1>8, <1>10 DEF q, x

\* A connection is closed when no call for it is left.
LEMMA PlanCloses ==
  ASSUME ServerTyped, Plan, NEW i \in Connections, serverEnd[i] = "connected",
         NEW t \in Seq(Calls), NEW h, Shrinks(t, agenda, h),
         agenda # <<>>, agenda[1].call \in IO,
         \A n \in DOMAIN t : t[n].call \in IO => t[n].conn # i
  PROVE  AgendaOK(t, clients, [serverEnd EXCEPT ![i] = "closed"], fresh)
<1> DEFINE e == [serverEnd EXCEPT ![i] = "closed"]
<1>1. /\ \A n \in DOMAIN t : Callable(t[n], serverEnd)
      /\ InOrder(t)
      /\ fresh => \A m \in DOMAIN t : t[m].call \in IO => Sweeps(t, m)
      /\ fresh => Sweeps(t, 0)
  BY ShorterAgenda DEF Plan, ServerTyped
<1>2. \A j \in Connections : e[j] = IF j = i THEN "closed" ELSE serverEnd[j]
  BY DEF ServerTyped
<1> HIDE DEF e
<1>3. ASSUME NEW n \in DOMAIN t PROVE Callable(t[n], e)
  <2>1. Callable(t[n], serverEnd)
    BY <1>1
  <2>2. t[n].call \in IO => t[n].conn # i
    OBVIOUS
  <2>3. t[n].call = "accept" => t[n].conn # i
    BY <2>1 DEF Callable
  <2> QED BY <1>2, <2>1, <2>2, <2>3 DEF Callable
<1>4. \A n \in DOMAIN clients : e[clients[n]] \in {"connected", "closed"}
  <2>1. \A n \in DOMAIN clients : clients[n] \in Connections
                                  /\ serverEnd[clients[n]] \in {"connected", "closed"}
    BY DEF ServerTyped, Plan, AgendaOK
  <2> QED BY <2>1, <1>2
<1> QED BY <1>1, <1>3, <1>4 DEF AgendaOK, e

\* A new connection, and one that was refused and is tried again.
LEMMA PlanOfOpening ==
  ASSUME ServerTyped, Plan, NEW i \in Connections, serverEnd[i] \in {"none", "refused"},
         NEW e \in Ends, serverEnd' = [serverEnd EXCEPT ![i] = e], UNCHANGED server
  PROVE  ServerTyped' /\ Plan'
<1>1. \A j \in Connections : j # i => serverEnd'[j] = serverEnd[j]
  BY DEF ServerTyped
<1>2. serverEnd' \in [Connections -> Ends]
  BY DEF ServerTyped
<1>3. ASSUME NEW c, Callable(c, serverEnd) PROVE Callable(c, serverEnd')
  BY <1>1, <1>3 DEF Callable
<1>4. \A n \in DOMAIN clients : serverEnd'[clients[n]] = serverEnd[clients[n]]
  <2>1. \A n \in DOMAIN clients : clients[n] \in Connections /\ clients[n] # i
    BY DEF ServerTyped, Plan, AgendaOK
  <2> QED BY <2>1, <1>1
<1>5. AgendaOK(agenda, clients, serverEnd', fresh)
  BY <1>3, <1>4 DEF Plan, AgendaOK
<1> QED BY <1>2, <1>5 DEF ServerTyped, Plan, server

\* The calls of poll() and broadcast() keep the plan, whether they succeed or fail.
LEMMA PlanOfCalls ==
  ASSUME ServerTyped, Plan, ServerGoesOn \/ Poll \/ \E m \in Messages : Broadcast(m)
  PROVE  ServerTyped' /\ Plan'
<1> DEFINE t == Tail(agenda)
<1>0. /\ listening \in BOOLEAN /\ fresh \in BOOLEAN /\ SocksOK(clients, serverEnd)
      /\ agenda \in Seq(Calls) /\ serverEnd \in [Connections -> Ends]
  BY DEF ServerTyped, Plan, AgendaOK, SocksOK
<1>1. ASSUME agenda # <<>>, Head(agenda).call \in IO, agenda' = t,
             UNCHANGED <<listening, clients, fresh, serverEnd>>
      PROVE  ServerTyped' /\ Plan'
  <2>1. AgendaOK(t, clients, serverEnd, fresh) /\ t \in Seq(Calls)
    BY <1>1, PlanGoesOn, NextCall
  <2> QED BY <1>1, <2>1 DEF ServerTyped, Plan
<1>2. CASE Poll
  <2>1. /\ agenda' \in Seq(Calls) /\ AgendaOK(agenda', clients, serverEnd, TRUE)
        /\ fresh' = TRUE /\ UNCHANGED <<listening, clients, serverEnd>>
    BY <1>0, <1>2, PollAgenda DEF Poll
  <2> QED BY <2>1 DEF ServerTyped, Plan
<1>3. ASSUME NEW m \in Messages, Broadcast(m) PROVE ServerTyped' /\ Plan'
  <2>1. /\ agenda = <<>> /\ fresh = TRUE /\ fresh' = FALSE
        /\ agenda' = [n \in DOMAIN clients |-> ToDo("send", clients[n], m)]
        /\ UNCHANGED <<listening, clients, serverEnd>>
    BY <1>0, <1>3 DEF Broadcast, ServerIdle
  <2> DEFINE l == Len(clients)
             q == [n \in 1 .. l |-> ToDo("send", clients[n], m)]
  <2>2. /\ l \in Nat /\ DOMAIN clients = 1 .. l /\ agenda' = q
        /\ \A n \in 1 .. l : clients[n] \in Connections
                             /\ serverEnd[clients[n]] \in {"connected", "closed"}
    BY <1>0, <2>1 DEF SocksOK
  <2>3. \A n \in 1 .. l : serverEnd[clients[n]] = "connected"
    <3>1. ~Sweeps(agenda, 0)
      BY <2>1 DEF Sweeps
    <3> QED BY <2>1, <2>2, <3>1 DEF Plan, AgendaOK
  <2>4. ASSUME NEW n \in 1 .. l
        PROVE  q[n] \in Calls /\ q[n].call = "send" /\ Callable(q[n], serverEnd)
    <3>1. /\ q[n] \in Calls /\ q[n].call = "send" /\ q[n].conn = clients[n]
          /\ q[n].message = m
      BY <2>2, ToDoIs
    <3> HIDE DEF q
    <3> QED BY <2>2, <2>3, <3>1 DEF Callable, IO
  <2> HIDE DEF q
  <2>5. DOMAIN q = 1 .. l /\ q \in Seq(Calls)
    <3>1. DOMAIN q = 1 .. l /\ q = [n \in 1 .. l |-> q[n]]
      BY DEF q
    <3>2. q \in [1 .. l -> Calls]
      BY <2>4, <3>1
    <3> HIDE DEF l
    <3> QED BY <2>2, <3>1, <3>2
  <2>6. InOrder(q)
    BY <2>4, <2>5 DEF InOrder, Before
  <2>7. AgendaOK(q, clients, serverEnd, FALSE)
    BY <2>2, <2>4, <2>5, <2>6 DEF AgendaOK
  <2> QED BY <2>1, <2>2, <2>5, <2>7 DEF ServerTyped, Plan
<1>4. CASE ServerReceivesEnd
  <2>1. /\ agenda # <<>> /\ Head(agenda).call = "receive" /\ agenda' = t
        /\ serverEnd' = [serverEnd EXCEPT ![Conn] = "closed"]
        /\ UNCHANGED <<listening, clients, fresh>>
    BY <1>4 DEF ServerReceivesEnd, Todo, CloseServerEnd
  <2>2. /\ Head(agenda) = agenda[1] /\ t \in Seq(Calls) /\ Conn \in Connections
        /\ serverEnd[Conn] = "connected" /\ agenda[1].call \in IO
        /\ agenda[1].conn = Conn
    BY <2>1, NextCall DEF Callable, IO, Conn
  <2>3. PICK h : Shrinks(t, agenda, h)
    BY <1>0, <2>1, TailShrinks
  <2>4. \A n \in DOMAIN t : t[n].call \in IO => t[n].conn # Conn
    <3>1. /\ Len(agenda) \in Nat \ {0} /\ DOMAIN agenda = 1 .. Len(agenda)
          /\ DOMAIN t = 1 .. Len(agenda) - 1
          /\ \A n \in 1 .. Len(agenda) - 1 : t[n] = agenda[n + 1]
      BY <1>0, <2>1, TailShrinks
    <3>2. \A n \in DOMAIN t : 1 \in DOMAIN agenda /\ n + 1 \in DOMAIN agenda /\ 1 < n + 1
      BY <3>1
    <3>3. \A n \in DOMAIN t : Before(agenda[1], t[n])
      BY <3>1, <3>2 DEF Plan, AgendaOK, InOrder
    <3> QED BY <2>1, <2>2, <3>3 DEF Before
  <2> DEFINE i == Conn
  <2>5. i \in Connections /\ serverEnd[i] = "connected" /\ serverEnd' = [serverEnd EXCEPT ![i] = "closed"]
        /\ \A n \in DOMAIN t : t[n].call \in IO => t[n].conn # i
    BY <2>1, <2>2, <2>4
  <2> HIDE DEF i, t
  <2>6. AgendaOK(t, clients, serverEnd', fresh)
    <3>1. t \in Seq(Calls) /\ agenda # <<>> /\ agenda[1].call \in IO
      BY <2>1, <2>2
    <3>2. AgendaOK(t, clients, [serverEnd EXCEPT ![i] = "closed"], fresh)
      BY <2>3, <2>5, <3>1, PlanCloses
    <3> QED BY <2>5, <3>2
  <2>7. serverEnd' \in [Connections -> Ends]
    BY <1>0, <2>5 DEF Ends
  <2> QED BY <2>1, <2>2, <2>6, <2>7 DEF ServerTyped, Plan
<1>5. CASE FlushFails
  <2> DEFINE S == {c \in ToSet(agenda) : c.conn = Conn}
             u == EraseAll(t, S)
  <2>1. /\ agenda # <<>> /\ Head(agenda).call = "flush" /\ agenda' = u
        /\ serverEnd' = [serverEnd EXCEPT ![Conn] = "closed"]
        /\ UNCHANGED <<listening, clients, fresh>>
    BY <1>5 DEF FlushFails, Todo, CloseServerEnd
  <2>2. /\ Head(agenda) = agenda[1] /\ Conn \in Connections
        /\ serverEnd[Conn] = "connected" /\ agenda[1].call \in IO
    BY <2>1, NextCall DEF Callable, IO, Conn
  <2>3. \A c \in S : c.call # "sweep"
    <3>1. \A c \in S : Callable(c, serverEnd) /\ c.conn \in Connections
      BY <2>2 DEF Plan, AgendaOK, ToSet
    <3> QED BY <3>1 DEF Callable
  <2>4. /\ u \in Seq(Calls) /\ (\A n \in DOMAIN u : u[n] \in ToSet(agenda) \ S)
        /\ \E h : Shrinks(u, agenda, h)
    <3> HIDE DEF S
    <3> QED BY <1>0, <2>1, <2>3, DroppedCalls
  <2>5. PICK h : Shrinks(u, agenda, h)
    BY <2>4
  <2>6. \A n \in DOMAIN u : u[n].conn # Conn
    BY <2>4
  <2> DEFINE i == Conn
  <2>7. i \in Connections /\ serverEnd[i] = "connected" /\ serverEnd' = [serverEnd EXCEPT ![i] = "closed"]
        /\ \A n \in DOMAIN u : u[n].call \in IO => u[n].conn # i
    BY <2>1, <2>2, <2>6
  <2> HIDE DEF i, u
  <2>8. AgendaOK(u, clients, serverEnd', fresh)
    BY <2>1, <2>2, <2>4, <2>5, <2>7, PlanCloses
  <2>9. serverEnd' \in [Connections -> Ends]
    BY <1>0, <2>7 DEF Ends
  <2> QED BY <2>1, <2>4, <2>8, <2>9 DEF ServerTyped, Plan
<1>6. CASE Sweep
  <2> DEFINE S == {i \in Connections : serverEnd[i] = "closed"}
             r == EraseAll(clients, S)
  <2>1. /\ agenda # <<>> /\ Head(agenda).call = "sweep" /\ agenda' = t
        /\ clients' = r /\ UNCHANGED <<listening, fresh, serverEnd>>
    BY <1>6 DEF Sweep, Todo
  <2>2. /\ Head(agenda) = agenda[1] /\ t \in Seq(Calls)
        /\ Len(agenda) \in Nat \ {0} /\ DOMAIN agenda = 1 .. Len(agenda)
        /\ DOMAIN t = 1 .. Len(agenda) - 1
        /\ \A n \in 1 .. Len(agenda) - 1 : t[n] = agenda[n + 1]
    BY <1>0, <2>1, TailShrinks
  <2>3. PICK h : Shrinks(t, agenda, h)
    BY <1>0, <2>1, TailShrinks
  <2>4. (\A n \in DOMAIN t : Callable(t[n], serverEnd)) /\ InOrder(t)
    BY <1>0, <2>2, <2>3, ShorterAgenda DEF Plan
  <2>5. \A n \in DOMAIN t : t[n].call = "accept"
    <3>1. \A n \in DOMAIN t : 1 \in DOMAIN agenda /\ n + 1 \in DOMAIN agenda /\ 1 < n + 1
      BY <2>2
    <3>2. \A n \in DOMAIN t : Before(agenda[1], t[n])
      BY <2>2, <3>1 DEF Plan, AgendaOK, InOrder
    <3> QED BY <2>1, <2>2, <3>2 DEF Before
  <2>6. /\ r \in Seq(Connections) /\ IsInjective(r) /\ ToSet(r) = ToSet(clients) \ S
    <3> HIDE DEF S
    <3> QED BY <1>0, EraseAllLeaves DEF SocksOK
  <2>7. \A n \in DOMAIN r : serverEnd[r[n]] = "connected"
    <3>1. ASSUME NEW n \in DOMAIN r PROVE serverEnd[r[n]] = "connected"
      <4> HIDE DEF r, S
      <4>1. r[n] \in ToSet(clients) /\ r[n] \notin S
        BY <2>6 DEF ToSet
      <4>2. r[n] \in Connections /\ serverEnd[r[n]] \in {"connected", "closed"}
        BY <1>0, <4>1 DEF SocksOK, ToSet
      <4> QED BY <4>1, <4>2 DEF S
    <3> QED BY <3>1
  <2> HIDE DEF r, t
  <2>8. AgendaOK(t, r, serverEnd, fresh)
    <3>1. \A n \in DOMAIN t : t[n].call \notin IO
      BY <2>5 DEF IO
    <3> QED BY <2>4, <2>7, <3>1 DEF AgendaOK
  <2> QED BY <2>1, <2>2, <2>6, <2>8 DEF ServerTyped, Plan
<1>7. CASE Accept
  <2> DEFINE r == Append(clients, Conn)
             i == Conn
  <2>1. /\ agenda # <<>> /\ Head(agenda).call = "accept" /\ agenda' = t
        /\ clients' = r /\ UNCHANGED <<listening, fresh>>
        /\ serverEnd' = [serverEnd EXCEPT ![i] = "connected"]
    BY <1>7 DEF Accept, Todo
  <2>2. i \in Connections /\ serverEnd[i] = "queued"
    BY <2>1, NextCall DEF Callable, Conn
  <2>3. agenda[1].call = "accept" /\ t = <<>> /\ ~Sweeps(agenda, 0)
    <3>1. /\ Head(agenda) = agenda[1]
          /\ Len(agenda) \in Nat \ {0} /\ DOMAIN agenda = 1 .. Len(agenda)
          /\ DOMAIN t = 1 .. Len(agenda) - 1 /\ t \in Seq(Calls)
      BY <1>0, <2>1, TailShrinks
    <3>2. Len(agenda) = 1
      <4> SUFFICES ASSUME Len(agenda) # 1 PROVE FALSE
        OBVIOUS
      <4>1. 1 \in DOMAIN agenda /\ 2 \in DOMAIN agenda /\ 1 < 2
        BY <3>1
      <4>2. Before(agenda[1], agenda[2])
        BY <4>1 DEF Plan, AgendaOK, InOrder
      <4> QED BY <2>1, <3>1, <4>2 DEF Before
    <3>3. DOMAIN t = {} /\ DOMAIN agenda = {1}
      BY <3>1, <3>2
    <3>4. t = <<>>
      BY <3>1, <3>3
    <3> QED BY <2>1, <3>1, <3>3, <3>4 DEF Sweeps
  <2>4. /\ r \in Seq(Connections) /\ ToSet(r) = ToSet(clients) \cup {i}
        /\ IsInjective(r)
    <3>1. i \notin ToSet(clients)
      BY <1>0, <2>2 DEF SocksOK, ToSet
    <3> HIDE DEF i
    <3> QED BY <1>0, <2>2, <3>1, AppendLeaves DEF SocksOK, i
  <2> HIDE DEF r, t, i
  <2>5. /\ serverEnd' \in [Connections -> Ends] /\ serverEnd'[i] = "connected"
        /\ \A j \in Connections : j # i => serverEnd'[j] = serverEnd[j]
    BY <1>0, <2>1, <2>2 DEF Ends
  <2>6. ASSUME NEW n \in DOMAIN r
        PROVE  /\ serverEnd'[r[n]] \in {"connected", "closed"}
               /\ fresh => serverEnd'[r[n]] # "closed"
    <3>1. r[n] = i \/ r[n] \in ToSet(clients)
      BY <2>4 DEF ToSet
    <3>2. CASE r[n] = i
      BY <2>5, <3>2
    <3>3. CASE r[n] # i
      <4>1. PICK m \in DOMAIN clients : r[n] = clients[m]
        BY <3>1, <3>3 DEF ToSet
      <4>2. /\ r[n] \in Connections /\ serverEnd[r[n]] \in {"connected", "closed"}
            /\ serverEnd'[r[n]] = serverEnd[r[n]]
        BY <1>0, <2>5, <3>3, <4>1 DEF SocksOK
      <4>3. fresh => serverEnd[clients[m]] # "closed"
        BY <2>3 DEF Plan, AgendaOK
      <4> QED BY <4>1, <4>2, <4>3
    <3> QED BY <3>2, <3>3
  <2>7. AgendaOK(t, r, serverEnd', fresh)
    BY <2>3, <2>6 DEF AgendaOK, InOrder
  <2> QED BY <2>1, <2>3, <2>4, <2>5, <2>7 DEF ServerTyped, Plan
<1>8. CASE SendFlushes
  <2> DEFINE m == Head(agenda).message
             c == ToDo("flush", Conn, 0)
             d == ToDo("send_again", Conn, m)
  <2>1. /\ agenda # <<>> /\ Head(agenda).call = "send" /\ agenda' = <<c, d>> \o t
        /\ UNCHANGED <<listening, clients, fresh, serverEnd>>
    BY <1>8 DEF SendFlushes, Todo
  <2>2. /\ Conn \in Connections /\ serverEnd[Conn] = "connected" /\ m \in Messages
        /\ t \in Seq(Calls)
    BY <2>1, NextCall DEF Callable, IO, Conn
  <2>3. /\ c \in Calls /\ c.call = "flush" /\ c.conn = Conn
        /\ d \in Calls /\ d.call = "send_again" /\ d.conn = Conn /\ d.message = m
    BY <2>2, ToDoIs
  <2> HIDE DEF c, d, t, m
  <2>4. Callable(c, serverEnd) /\ Callable(d, serverEnd)
    BY <2>2, <2>3 DEF Callable, IO
  <2>5. AgendaOK(t, clients, serverEnd, fresh) /\ (fresh => Sweeps(t, 0))
    BY <2>1, PlanGoesOn DEF IO, t
  <2> DEFINE q == <<d>> \o t
  <2>6. q \in Seq(Calls) /\ AgendaOK(q, clients, serverEnd, fresh) /\ (fresh => Sweeps(q, 0))
    BY <2>2, <2>3, <2>4, <2>5, PlanGrows
  <2>7. <<c, d>> \o t = <<c>> \o q
    <3>1. <<c, d>> = <<c>> \o <<d>>
      BY <2>3, TwoCalls
    <3>2. <<c>> \in Seq(Calls) /\ <<d>> \in Seq(Calls)
      BY <2>3
    <3> DEFINE x == <<c>>
               y == <<d>>
    <3>3. x \in Seq(Calls) /\ y \in Seq(Calls)
      BY <3>2
    <3> HIDE DEF x, y
    <3>4. (x \o y) \o t = x \o (y \o t)
      BY <2>2, <3>3, ConcatAssociative
    <3> QED BY <3>1, <3>4 DEF x, y
  <2> HIDE DEF q
  <2>8. <<c>> \o q \in Seq(Calls) /\ AgendaOK(<<c>> \o q, clients, serverEnd, fresh)
    BY <2>3, <2>4, <2>6, PlanGrows
  <2> QED BY <2>1, <2>7, <2>8 DEF ServerTyped, Plan
<1>9. CASE SendDropped
  BY <1>1, <1>9 DEF SendDropped, Todo, IO
<1>10. CASE SendWrites
  <2> DEFINE c == ToDo("flush", Conn, 0)
  <2>1. /\ agenda # <<>> /\ Head(agenda).call \in IO /\ agenda' = <<c>> \o t
        /\ UNCHANGED <<listening, clients, fresh, serverEnd>>
    BY <1>10 DEF SendWrites, Sending, Todo, IO
  <2>2. Conn \in Connections /\ serverEnd[Conn] = "connected" /\ t \in Seq(Calls)
    BY <2>1, NextCall DEF Callable, Conn
  <2>3. c \in Calls /\ c.call = "flush" /\ c.conn = Conn
    BY <2>2, ToDoIs
  <2> HIDE DEF c, t
  <2>4. Callable(c, serverEnd)
    BY <2>2, <2>3 DEF Callable, IO
  <2>5. AgendaOK(t, clients, serverEnd, fresh) /\ (fresh => Sweeps(t, 0))
    BY <2>1, PlanGoesOn DEF t
  <2>6. <<c>> \o t \in Seq(Calls) /\ AgendaOK(<<c>> \o t, clients, serverEnd, fresh)
    BY <2>2, <2>3, <2>4, <2>5, PlanGrows
  <2> QED BY <2>1, <2>6 DEF ServerTyped, Plan
<1>11. CASE FlushEnds
  BY <1>1, <1>11 DEF FlushEnds, Todo, IO
<1>12. CASE FlushSome
  <2>1. /\ agenda # <<>> /\ Head(agenda).call \in IO /\ (agenda' = agenda \/ agenda' = t)
        /\ UNCHANGED <<listening, clients, fresh, serverEnd>>
    BY <1>12 DEF FlushSome, Todo, IO
  <2> QED BY <1>1, <2>1 DEF ServerTyped, Plan
<1>13. CASE FlushBlocks
  BY <1>1, <1>13 DEF FlushBlocks, Todo, IO
<1> QED BY <1>2, <1>3, <1>4, <1>5, <1>6, <1>7, <1>8, <1>9, <1>10, <1>11, <1>12, <1>13
        DEF ServerGoesOn

(***************************************************************************)
(* Which actions change what.                                              *)
(***************************************************************************)
LEMMA ServerChanges ==
  ASSUME Next
  PROVE  \/ UNCHANGED <<server, serverEnd>>
         \/ Connect \/ ConnectAgain \/ Listen \/ Stop
         \/ ServerGoesOn \/ Poll \/ \E m \in Messages : Broadcast(m)
<1>1. CASE ClientOpens
  BY <1>1 DEF ClientOpens, Disconnect, server
<1>2. CASE ClientConnects
  BY <1>2 DEF ClientConnects, Connected, ConnectFails, server
<1>3. CASE ClientReceives
  BY <1>3 DEF ClientReceives, ReceiveBegins, ReceiveWhenFull, ReceiveSome, ReceiveNothing,
              ReceiveEnd, HeaderRefused, ProcessEnds, ProcessPacket, WrapRefused, server
<1> QED BY <1>1, <1>2, <1>3 DEF Next

\* The buffers the server writes to.
LEMMA SendBufferChanges ==
  ASSUME Next
  PROVE  \/ UNCHANGED sendBuffer
         \/ Stop \/ ServerReceivesEnd \/ FlushFails
         \/ SendDropped \/ SendWrites \/ FlushSome \/ FlushBlocks
<1>1. CASE ClientOpens
  BY <1>1 DEF ClientOpens, Connect, Disconnect
<1>2. CASE ClientConnects
  BY <1>2 DEF ClientConnects, Connected, ConnectAgain, ConnectFails
<1>3. CASE ClientReceives
  BY <1>3 DEF ClientReceives, ReceiveBegins, ReceiveWhenFull, ReceiveSome, ReceiveNothing,
              ReceiveEnd, HeaderRefused, ProcessEnds, ProcessPacket, WrapRefused
<1>4. CASE ServerGoesOn
  BY <1>4 DEF ServerGoesOn, Sweep, Accept, SendFlushes, FlushEnds
<1>5. CASE Listen \/ Poll \/ \E m \in Messages : Broadcast(m)
  BY <1>5 DEF Listen, Poll, Broadcast
<1> QED BY <1>1, <1>2, <1>3, <1>4, <1>5 DEF Next

\* What the system has of a connection.
LEMMA PipeChanges ==
  ASSUME Next
  PROVE  \/ UNCHANGED pipe
         \/ ConnectFails \/ Disconnect \/ ReceiveEnd \/ ReceiveSome \/ FlushSome
<1>1. CASE ClientOpens
  BY <1>1 DEF ClientOpens, Connect
<1>2. CASE ClientConnects
  BY <1>2 DEF ClientConnects, Connected, ConnectAgain
<1>3. CASE ClientReceives
  BY <1>3 DEF ClientReceives, ReceiveBegins, ReceiveWhenFull, ReceiveNothing,
              HeaderRefused, ProcessEnds, ProcessPacket, WrapRefused
<1>4. CASE ServerGoesOn
  BY <1>4 DEF ServerGoesOn, ServerReceivesEnd, Sweep, Accept, SendFlushes, SendDropped,
              SendWrites, FlushEnds, FlushBlocks, FlushFails
<1>5. CASE Listen \/ Stop \/ Poll \/ \E m \in Messages : Broadcast(m)
  BY <1>5 DEF Listen, Stop, Poll, Broadcast
<1> QED BY <1>1, <1>2, <1>3, <1>4, <1>5 DEF Next

\* The client's own state.
LEMMA ClientChanges ==
  ASSUME Next
  PROVE  \/ UNCHANGED <<client, receiveBuffer, failed>>
         \/ ClientOpens \/ Connected \/ ConnectFails \/ ClientReceives
<1>1. CASE ClientConnects
  BY <1>1 DEF ClientConnects, ConnectAgain
<1>2. CASE ServerGoesOn
  BY <1>2 DEF ServerGoesOn, ServerReceivesEnd, Sweep, Accept, SendFlushes, SendDropped,
              SendWrites, FlushEnds, FlushSome, FlushBlocks, FlushFails
<1>3. CASE Listen \/ Stop \/ Poll \/ \E m \in Messages : Broadcast(m)
  BY <1>3 DEF Listen, Stop, Poll, Broadcast
<1> QED BY <1>1, <1>2, <1>3 DEF Next

\* What the properties look back on.
LEMMA HistoryChanges ==
  ASSUME Next
  PROVE  \/ UNCHANGED history
         \/ ReceiveNothing \/ ProcessEnds \/ ProcessPacket
         \/ SendDropped \/ SendWrites \/ FlushBlocks
         \/ \E m \in Messages : Broadcast(m)
<1>1. CASE ClientOpens
  BY <1>1 DEF ClientOpens, Connect, Disconnect
<1>2. CASE ClientConnects
  BY <1>2 DEF ClientConnects, Connected, ConnectAgain, ConnectFails
<1>3. CASE ClientReceives
  BY <1>3 DEF ClientReceives, ReceiveBegins, ReceiveWhenFull, ReceiveSome,
              ReceiveEnd, HeaderRefused, WrapRefused
<1>4. CASE ServerGoesOn
  BY <1>4 DEF ServerGoesOn, ServerReceivesEnd, Sweep, Accept, SendFlushes,
              FlushEnds, FlushSome, FlushFails
<1>5. CASE Listen \/ Stop \/ Poll
  BY <1>5 DEF Listen, Stop, Poll
<1> QED BY <1>1, <1>2, <1>3, <1>4, <1>5 DEF Next

\* The agenda is in order after every step.
LEMMA PlanKept ==
  ASSUME ServerTyped, Plan, ClientTyped, Idle, Next
  PROVE  ServerTyped' /\ Plan'
<1>1. CASE UNCHANGED <<server, serverEnd>>
  BY <1>1 DEF ServerTyped, Plan, server
<1>2. CASE Connect
  <2> DEFINE i == client.conn + 1
             e == IF listening THEN "queued" ELSE "refused"
  <2>1. /\ client.conn \in 0 .. MaxConnections /\ client.conn < MaxConnections
        /\ serverEnd' = [serverEnd EXCEPT ![i] = e] /\ UNCHANGED server
    BY <1>2 DEF Connect, ClientTyped
  <2>2. i \in Connections /\ i > client.conn
    BY <2>1, PacketStreamAssumption DEF Connections
  <2>3. serverEnd[i] = "none" /\ e \in Ends
    BY <2>2 DEF Idle, Ends
  <2> HIDE DEF i, e
  <2> QED BY <2>1, <2>2, <2>3, PlanOfOpening
<1>3. CASE ConnectAgain
  <2> DEFINE i == client.conn
  <2>1. /\ i \in Connections /\ serverEnd[i] = "refused" /\ UNCHANGED server
        /\ serverEnd' = [serverEnd EXCEPT ![i] = "queued"]
    BY <1>3 DEF ConnectAgain, ClientIs, ClientTyped
  <2>2. "queued" \in Ends
    BY DEF Ends
  <2> HIDE DEF i
  <2> QED BY <2>1, <2>2, PlanOfOpening
<1>4. CASE Listen
  BY <1>4 DEF Listen, ServerTyped, Plan
<1>5. CASE Stop
  <2>1. /\ listening' = FALSE /\ clients' = <<>> /\ agenda = <<>>
        /\ UNCHANGED <<agenda, fresh>>
        /\ serverEnd' = [i \in Connections |->
                           IF serverEnd[i] \in {"queued", "connected"} THEN "closed"
                           ELSE serverEnd[i]]
    BY <1>5 DEF Stop, ServerIdle
  <2>2. serverEnd' \in [Connections -> Ends]
    BY <2>1 DEF ServerTyped, Ends
  <2>3. AgendaOK(<<>>, <<>>, serverEnd', fresh)
    BY DEF AgendaOK, InOrder
  <2>4. <<>> \in Seq(Connections) /\ IsInjective(<<>>)
    BY DEF IsInjective
  <2> QED BY <2>1, <2>2, <2>3, <2>4 DEF ServerTyped, Plan
<1> QED BY <1>1, <1>2, <1>3, <1>4, <1>5, ServerChanges, PlanOfCalls

(***************************************************************************)
(* The buffers and what is on its way.                                     *)
(***************************************************************************)
IsNetBuffer(b) == IsBuffer(b, BufferSize, Cells)

\* The buffers.
SendTyped ==
  DOMAIN sendBuffer = Connections /\ \A i \in Connections : IsNetBuffer(sendBuffer[i])

PipeTyped ==
  /\ DOMAIN pipe = Connections
  /\ \A i \in Connections : pipe[i] \in Seq(Cells) /\ Len(pipe[i]) <= PipeSize

ReceiveTyped == IsNetBuffer(receiveBuffer) /\ failed \in {"nothing", "magic", "wrap"}

\* What was accepted, delivered and spoilt.
HistoryTyped ==
  /\ DOMAIN accepted = Connections /\ DOMAIN delivered = Connections
  /\ \A i \in Connections :
       accepted[i] \in Seq(Messages) /\ delivered[i] \in Seq({0} \cup Messages)
  /\ spoilt \in [Connections -> {"nowhere", "send", "flush", "receive", "partial"}]
  /\ broadcasts \in 0 .. MaxBroadcasts

\* The operations on buffers, for buffers of this size.
LEMMA NetBuffers ==
  ASSUME NEW b, IsNetBuffer(b)
  PROVE  /\ BufferSize \in Nat \ {0} /\ IsBuffer(b, BufferSize, Cells)
         /\ Size(b) \in 0 .. BufferSize /\ Free(b) = BufferSize - Size(b)
         /\ Readable(b) \in 0 .. Size(b) /\ Writable(b) \in 0 .. Free(b)
         /\ IsNetBuffer(EndProduce(b, 0))
         /\ \A k \in 0 .. BufferSize : IsNetBuffer(EndConsume(b, k))
         /\ IsNetBuffer(Rotated(EndConsume(b, 0)))
         /\ Contents(b) \in Seq(Cells) /\ Len(Contents(b)) = Size(b)
<1>1. BufferSize \in Nat \ {0} /\ IsBuffer(b, BufferSize, Cells)
  BY PacketStreamAssumption DEF IsNetBuffer
<1>2. Size(b) \in 0 .. BufferSize /\ Free(b) = BufferSize - Size(b)
  BY <1>1, SizeOfBuffer
<1>3. Readable(b) \in 0 .. Size(b) /\ Writable(b) \in 0 .. Free(b)
  BY <1>1, AtOnce
<1>4. IsNetBuffer(EndProduce(b, 0))
  <2>1. 0 \in 0 .. Free(b)
    BY <1>1, <1>2
  <2> QED BY <1>1, <2>1, Produced DEF IsNetBuffer
<1>5. \A k \in 0 .. BufferSize : IsNetBuffer(EndConsume(b, k))
  BY <1>1, ConsumedIsBuffer DEF IsNetBuffer
<1>6. IsNetBuffer(Rotated(EndConsume(b, 0)))
  BY <1>1, RotatingGainsNothing DEF IsNetBuffer
<1>7. Contents(b) \in Seq(Cells) /\ Len(Contents(b)) = Size(b)
  BY <1>1, ContentsOfBuffer
<1> QED BY <1>1, <1>2, <1>3, <1>4, <1>5, <1>6, <1>7

\* write() of what fits, for a buffer of this size.
LEMMA WriteToBuffer ==
  ASSUME NEW b, IsNetBuffer(b), NEW s \in Seq(Cells), Len(s) \in 1 .. Free(b)
  PROVE  /\ IsNetBuffer(EndProduce(Filled(b, s), Len(s)))
         /\ Contents(EndProduce(Filled(b, s), Len(s))) = Contents(b) \o s
         /\ Written(b, s) = EndProduce(Filled(b, s), Len(s))
BY NetBuffers, WrittenBuffer, WrittenIs DEF IsNetBuffer

\* The packet that is written.
LEMMA PacketToWrite ==
  ASSUME ServerTyped, Plan, SendTyped, SendWrites
  PROVE  /\ Conn \in Connections /\ serverEnd[Conn] = "connected"
         /\ Head(agenda).message \in Messages
         /\ Packet(Head(agenda).message) \in Seq(Cells)
         /\ IsNetBuffer(sendBuffer[Conn])
         /\ Len(Packet(Head(agenda).message)) \in 1 .. Free(sendBuffer[Conn])
<1>1. agenda # <<>> /\ Head(agenda).call \in {"send", "send_again"}
  BY DEF SendWrites, Sending, Todo
<1>2. Conn \in Connections /\ serverEnd[Conn] = "connected" /\ Head(agenda).message \in Messages
  BY <1>1, NextCall DEF Callable, IO, Conn
<1> DEFINE m == Head(agenda).message
           b == sendBuffer[Conn]
<1>3. m \in Messages /\ IsNetBuffer(b) /\ Free(b) >= Len(Packet(m))
  BY <1>2 DEF SendTyped, SendWrites, Fits
<1> HIDE DEF m, b
<1>4. Packet(m) \in Seq(Cells) /\ Len(Packet(m)) = HeaderSize + LengthOf[m]
  BY <1>3, PacketIs
<1>5. LengthOf[m] \in Nat /\ Free(b) \in Int
  BY <1>3, MessagesAre, NetBuffers
<1>6. Len(Packet(m)) \in 1 .. Free(b)
  BY <1>3, <1>4, <1>5 DEF HeaderSize
<1> QED BY <1>2, <1>3, <1>4, <1>6 DEF m, b

\* What ::send takes.
LEMMA WhatIsSent ==
  ASSUME ServerTyped, Plan, SendTyped, PipeTyped, FlushSome
  PROVE  /\ Conn \in Connections /\ serverEnd[Conn] = "connected"
         /\ IsNetBuffer(sendBuffer[Conn])
         /\ \E k \in 1 .. Size(sendBuffer[Conn]) :
              /\ sendBuffer' = [sendBuffer EXCEPT ![Conn] = EndConsume(sendBuffer[Conn], k)]
              /\ HungUp(Conn) => pipe' = pipe
              /\ ~HungUp(Conn) =>
                   /\ pipe' = [pipe EXCEPT ![Conn] =
                                 pipe[Conn] \o SubSeq(Contents(sendBuffer[Conn]), 1, k)]
                   /\ k <= PipeSize - Len(pipe[Conn])
<1>1. agenda # <<>> /\ Head(agenda).call = "flush"
  BY DEF FlushSome, Todo
<1>2. Conn \in Connections /\ serverEnd[Conn] = "connected"
  BY <1>1, NextCall DEF Callable, IO, Conn
<1> DEFINE i == Conn
           b == sendBuffer[i]
<1>3. i \in Connections /\ IsNetBuffer(b)
  BY <1>2 DEF SendTyped
<1>4. PICK k \in 1 .. Lesser(Readable(b), Room(i)) :
        /\ sendBuffer' = [sendBuffer EXCEPT ![i] = EndConsume(b, k)]
        /\ pipe' = IF HungUp(i) THEN pipe
                   ELSE [pipe EXCEPT ![i] = pipe[i] \o SubSeq(b.cells, b.read + 1, b.read + k)]
  BY DEF FlushSome
<1> HIDE DEF i, b
<1>5. PipeSize \in Nat /\ BufferSize \in Nat /\ Len(pipe[i]) \in Nat
  BY <1>3, PacketStreamAssumption DEF PipeTyped
<1>6. Readable(b) \in 0 .. Size(b) /\ Size(b) \in 0 .. BufferSize
  BY <1>3, NetBuffers
<1>7. Room(i) \in Int /\ (~HungUp(i) => Room(i) = PipeSize - Len(pipe[i]))
  <2>1. CASE HungUp(i)
    BY <1>5, <2>1 DEF Room
  <2>2. CASE ~HungUp(i)
    <3>1. Room(i) = PipeSize - Len(pipe[i])
      BY <2>2 DEF Room
    <3> QED BY <1>5, <2>2, <3>1
  <2> QED BY <2>1, <2>2
<1>8. k \in 0 .. Readable(b) /\ k \in 1 .. Size(b) /\ k <= Room(i)
  BY <1>6, <1>7 DEF Lesser
<1>9. SubSeq(b.cells, b.read + 1, b.read + k) = SubSeq(Contents(b), 1, k)
  <2>1. IsBuffer(b, BufferSize, Cells) /\ BufferSize \in Nat \ {0} /\ 0 \in 0 .. k
    BY <1>3, <1>8, NetBuffers
  <2>2. SubSeq(b.cells, b.read + 0 + 1, b.read + k) = SubSeq(Contents(b), 0 + 1, k)
    BY <1>8, <2>1, ReadableCells
  <2>3. b.read \in Nat
    BY <2>1, BufferParts
  <2>4. b.read + 0 + 1 = b.read + 1 /\ 0 + 1 = 1
    BY <2>3
  <2> QED BY <2>2, <2>4
<1> QED BY <1>2, <1>3, <1>4, <1>7, <1>8, <1>9 DEF i, b

\* The send buffers of the server stay buffers.
LEMMA SendKept ==
  ASSUME ServerTyped, Plan, SendTyped, PipeTyped, Next
  PROVE  SendTyped'
<1>1. ASSUME NEW i \in Connections, NEW b, IsNetBuffer(b),
             sendBuffer' = [sendBuffer EXCEPT ![i] = b]
      PROVE  SendTyped'
  BY <1>1 DEF SendTyped
<1>2. IsNetBuffer(NoBuffer)
  BY NoBufferIs DEF IsNetBuffer
<1>3. CASE UNCHANGED sendBuffer
  BY <1>3 DEF SendTyped
<1>4. CASE Stop
  <2>1. sendBuffer' = [i \in Connections |-> NoBuffer]
    BY <1>4 DEF Stop
  <2> QED BY <1>2, <2>1 DEF SendTyped
<1>5. CASE ServerReceivesEnd \/ FlushFails
  <2>1. /\ agenda # <<>> /\ Head(agenda).call \in IO
        /\ sendBuffer' = [sendBuffer EXCEPT ![Conn] = NoBuffer]
    BY <1>5 DEF ServerReceivesEnd, FlushFails, CloseServerEnd, Todo, IO
  <2>2. Conn \in Connections
    BY <2>1, NextCall
  <2> QED BY <1>1, <1>2, <2>1, <2>2
<1>6. CASE SendDropped \/ FlushBlocks
  <2>1. /\ agenda # <<>> /\ Head(agenda).call \in IO
        /\ \/ sendBuffer' = [sendBuffer EXCEPT ![Conn] = EndProduce(sendBuffer[Conn], 0)]
           \/ sendBuffer' = [sendBuffer EXCEPT ![Conn] = EndConsume(sendBuffer[Conn], 0)]
    BY <1>6 DEF SendDropped, FlushBlocks, Todo, IO
  <2>2. Conn \in Connections
    BY <2>1, NextCall
  <2>3. IsNetBuffer(sendBuffer[Conn])
    BY <2>2 DEF SendTyped
  <2>4. 0 \in 0 .. BufferSize
    BY PacketStreamAssumption
  <2>5. IsNetBuffer(EndProduce(sendBuffer[Conn], 0)) /\ IsNetBuffer(EndConsume(sendBuffer[Conn], 0))
    BY <2>3, <2>4, NetBuffers
  <2> QED BY <1>1, <2>1, <2>2, <2>5
<1>7. CASE SendWrites
  <2> DEFINE p == Packet(Head(agenda).message)
  <2>1. /\ Conn \in Connections /\ p \in Seq(Cells) /\ IsNetBuffer(sendBuffer[Conn])
        /\ Len(p) \in 1 .. Free(sendBuffer[Conn])
    BY <1>7, PacketToWrite
  <2>2. sendBuffer' = [sendBuffer EXCEPT ![Conn] = Written(sendBuffer[Conn], p)]
    BY <1>7 DEF SendWrites
  <2> HIDE DEF p
  <2>3. IsNetBuffer(Written(sendBuffer[Conn], p))
    BY <2>1, WriteToBuffer
  <2> QED BY <1>1, <2>1, <2>2, <2>3
<1>8. CASE FlushSome
  <2>1. /\ Conn \in Connections /\ IsNetBuffer(sendBuffer[Conn])
        /\ \E k \in 1 .. Size(sendBuffer[Conn]) :
             sendBuffer' = [sendBuffer EXCEPT ![Conn] = EndConsume(sendBuffer[Conn], k)]
    BY <1>8, WhatIsSent
  <2>2. PICK k \in 1 .. Size(sendBuffer[Conn]) :
             sendBuffer' = [sendBuffer EXCEPT ![Conn] = EndConsume(sendBuffer[Conn], k)]
    BY <2>1
  <2>3. k \in 0 .. BufferSize
    BY <2>1, NetBuffers
  <2>4. IsNetBuffer(EndConsume(sendBuffer[Conn], k))
    BY <2>1, <2>3, NetBuffers
  <2> QED BY <1>1, <2>1, <2>2, <2>4
<1> QED BY <1>3, <1>4, <1>5, <1>6, <1>7, <1>8, SendBufferChanges

\* What is on its way fits into the system's buffers.
LEMMA PipeKept ==
  ASSUME ServerTyped, Plan, ClientTyped, SendTyped, PipeTyped, ReceiveTyped, Next
  PROVE  PipeTyped'
<1>1. PipeSize \in Nat
  BY PacketStreamAssumption
<1>2. ASSUME NEW i \in Connections, NEW s \in Seq(Cells), Len(s) <= PipeSize,
             pipe' = [pipe EXCEPT ![i] = s]
      PROVE  PipeTyped'
  BY <1>2 DEF PipeTyped
<1>3. CASE UNCHANGED pipe
  BY <1>3 DEF PipeTyped
<1>4. CASE ConnectFails \/ Disconnect \/ ReceiveEnd
  <2>1. client.state # "closed" /\ pipe' = [pipe EXCEPT ![client.conn] = <<>>]
    BY <1>4 DEF ConnectFails, Disconnect, ReceiveEnd, CloseClient, ClientIs, Doing
  <2>2. client.conn \in Connections /\ <<>> \in Seq(Cells) /\ Len(<<>>) <= PipeSize
    BY <1>1, <2>1 DEF ClientTyped
  <2> QED BY <1>2, <2>1, <2>2
<1>5. CASE ReceiveSome
  <2> DEFINE i == client.conn
             p == pipe[i]
             l == Len(p)
  <2>1. client.state # "closed"
    BY <1>5 DEF ReceiveSome, Doing, ClientIs
  <2>2. i \in Connections /\ p \in Seq(Cells) /\ l \in Nat /\ l <= PipeSize
    BY <2>1 DEF ClientTyped, PipeTyped
  <2>3. PICK k \in 1 .. Lesser(Writable(receiveBuffer), l) :
             pipe' = [pipe EXCEPT ![i] = SubSeq(p, k + 1, l)]
    BY <1>5 DEF ReceiveSome
  <2>4. Writable(receiveBuffer) \in Int
    BY NetBuffers DEF ReceiveTyped
  <2> HIDE DEF i, p
  <2>5. k \in 1 .. l
    BY <2>2, <2>3, <2>4 DEF Lesser
  <2>6. SubSeq(p, k + 1, l) \in Seq(Cells) /\ Len(SubSeq(p, k + 1, l)) = l - k
    BY <2>2, <2>5
  <2>7. Len(SubSeq(p, k + 1, l)) <= PipeSize
    <3> HIDE DEF l
    <3> QED BY <1>1, <2>2, <2>5, <2>6
  <2> QED BY <1>2, <2>2, <2>3, <2>6, <2>7
<1>6. CASE FlushSome
  <2> DEFINE i == Conn
             b == sendBuffer[i]
             p == pipe[i]
  <2>1. /\ i \in Connections /\ IsNetBuffer(b)
        /\ \E k \in 1 .. Size(b) :
             /\ HungUp(i) => pipe' = pipe
             /\ ~HungUp(i) => /\ pipe' = [pipe EXCEPT ![i] = p \o SubSeq(Contents(b), 1, k)]
                              /\ k <= PipeSize - Len(p)
    BY <1>6, WhatIsSent
  <2>2. PICK k \in 1 .. Size(b) :
             /\ HungUp(i) => pipe' = pipe
             /\ ~HungUp(i) => /\ pipe' = [pipe EXCEPT ![i] = p \o SubSeq(Contents(b), 1, k)]
                              /\ k <= PipeSize - Len(p)
    BY <2>1
  <2>3. p \in Seq(Cells) /\ Len(p) \in Nat
    BY <2>1 DEF PipeTyped
  <2>4. CASE HungUp(i)
    BY <1>3, <2>2, <2>4
  <2>5. CASE ~HungUp(i)
    <3> DEFINE c == Contents(b)
               z == Size(b)
    <3>1. c \in Seq(Cells) /\ Len(c) = z /\ z \in Nat /\ k \in 1 .. z
      BY <2>1, NetBuffers
    <3> HIDE DEF c, z, p, b
    <3> DEFINE d == SubSeq(c, 1, k)
    <3>2. d \in Seq(Cells) /\ Len(d) = k
      BY <3>1
    <3> HIDE DEF d
    <3>3. p \o d \in Seq(Cells) /\ Len(p \o d) = Len(p) + k
      BY <2>3, <3>2
    <3>4. Len(p \o d) <= PipeSize
      BY <1>1, <2>2, <2>3, <2>5, <3>1, <3>3
    <3>5. pipe' = [pipe EXCEPT ![i] = p \o d]
      BY <2>2, <2>5 DEF d, c
    <3> HIDE DEF i
    <3> QED BY <1>2, <2>1, <3>3, <3>4, <3>5
  <2> QED BY <2>4, <2>5
<1> QED BY <1>3, <1>4, <1>5, <1>6, PipeChanges

\* The length that a header gives.
LEMMA HeaderIs ==
  ASSUME ReceiveTyped
  PROVE  /\ Header \in Seq(Cells) /\ Len(Header) = Lesser(Size(receiveBuffer), HeaderSize)
         /\ PacketLength \in Nat /\ PacketSize = HeaderSize + PacketLength
<1>1. HeaderSize \in Nat /\ HeaderSize = 2
  BY DEF HeaderSize
<1>2. IsBuffer(receiveBuffer, BufferSize, Cells) /\ BufferSize \in Nat \ {0}
  BY NetBuffers DEF ReceiveTyped
<1>3. Header \in Seq(Cells) /\ Len(Header) = Lesser(Size(receiveBuffer), HeaderSize)
  BY <1>1, <1>2, PeekIs DEF Header
<1>4. PacketLength \in Nat
  <2>1. CASE Len(Header) < HeaderSize
    BY <2>1 DEF PacketLength
  <2>2. CASE ~(Len(Header) < HeaderSize)
    <3> DEFINE c == Header[2]
    <3>1. Len(Header) \in Nat
      BY <1>3
    <3>2. 2 \in 1 .. Len(Header)
      BY <1>1, <2>2, <3>1
    <3>3. c \in Cells
      BY <1>3, <3>2
    <3>4. PacketLength = IF c = <<0, 0>> THEN 0
                         ELSE IF c[2] = 2 THEN LengthOf[c[1]] ELSE BufferSize
      BY <2>2 DEF PacketLength, HeaderLength
    <3> HIDE DEF c
    <3>5. c = <<0, 0>> \/ LengthOf[c[1]] \in Nat
      BY <3>3, CellsAre, MessagesAre
    <3> QED BY <1>2, <3>4, <3>5
  <2> QED BY <2>1, <2>2
<1> QED BY <1>3, <1>4 DEF PacketSize

\* The receive buffer as process() finds it; rotate() is not for a packet in one piece.
LEMMA UnwrappedIs ==
  ASSUME ReceiveTyped
  PROVE  /\ IsNetBuffer(Unwrapped)
         /\ PacketSize <= Readable(Unwrapped) => Unwrapped = receiveBuffer
<1> DEFINE b == receiveBuffer
           q == Rotated(EndConsume(b, 0))
<1>1. IsNetBuffer(b)
  BY DEF ReceiveTyped
<1>2. IsNetBuffer(q)
  BY <1>1, NetBuffers
<1>3. Readable(q) <= Readable(b) /\ Readable(q) \in Int /\ Readable(b) \in Int
  <2>1. Readable(q) \in 0 .. Size(q) /\ Size(q) \in 0 .. BufferSize
    BY <1>2, NetBuffers
  <2>2. Readable(b) \in 0 .. Size(b) /\ Size(b) \in 0 .. BufferSize
    BY <1>1, NetBuffers
  <2>3. Readable(q) <= Readable(b)
    BY <1>1, NetBuffers, RotatingGainsNothing
  <2> QED BY <2>1, <2>2, <2>3
<1>4. PacketSize \in Nat
  BY HeaderIs DEF HeaderSize
<1>5. Unwrapped = IF Readable(b) < PacketSize THEN q ELSE b
  BY DEF Unwrapped
<1> HIDE DEF b, q
<1>6. PacketSize <= Readable(Unwrapped) => Unwrapped = b
  BY <1>3, <1>4, <1>5
<1> QED BY <1>1, <1>2, <1>5, <1>6 DEF b

\* The receive buffer stays a buffer.
LEMMA ReceiveKept ==
  ASSUME ClientTyped, PipeTyped, ReceiveTyped, Next
  PROVE  ReceiveTyped'
<1>1. IsNetBuffer(NoBuffer)
  BY NoBufferIs DEF IsNetBuffer
<1>2. 0 \in 0 .. BufferSize
  BY PacketStreamAssumption
<1>3. CASE UNCHANGED <<client, receiveBuffer, failed>>
  BY <1>3 DEF ReceiveTyped
<1>4. CASE Connect \/ ReceiveBegins \/ ReceiveWhenFull
  BY <1>4 DEF Connect, ReceiveBegins, ReceiveWhenFull, ReceiveTyped
<1>5. CASE Disconnect \/ Connected \/ ConnectFails \/ ReceiveEnd
  <2>1. receiveBuffer' = NoBuffer /\ failed' = failed
    BY <1>5 DEF Disconnect, Connected, ConnectFails, ReceiveEnd, CloseClient
  <2> QED BY <1>1, <2>1 DEF ReceiveTyped
<1>6. CASE ReceiveSome
  <2> DEFINE i == client.conn
             p == pipe[i]
             b == receiveBuffer
  <2>1. client.state # "closed" /\ failed' = failed
    BY <1>6 DEF ReceiveSome, Doing, ClientIs
  <2>2. i \in Connections /\ p \in Seq(Cells) /\ Len(p) \in Nat
    BY <2>1 DEF ClientTyped, PipeTyped
  <2>3. PICK k \in 1 .. Lesser(Writable(b), Len(p)) :
             b' = EndProduce(Filled(b, SubSeq(p, 1, k)), k)
    BY <1>6 DEF ReceiveSome
  <2>4. Writable(b) \in 0 .. Free(b) /\ Free(b) \in Int /\ IsNetBuffer(b)
    <3>1. IsNetBuffer(b)
      BY DEF ReceiveTyped
    <3> HIDE DEF b
    <3>2. Writable(b) \in 0 .. Free(b) /\ Size(b) \in 0 .. BufferSize
          /\ Free(b) = BufferSize - Size(b) /\ BufferSize \in Nat \ {0}
      BY <3>1, NetBuffers
    <3> QED BY <3>1, <3>2
  <2> DEFINE s == SubSeq(p, 1, k)
  <2>5. k \in 1 .. Len(p) /\ k \in 1 .. Free(b)
    <3> HIDE DEF b, p
    <3> QED BY <2>2, <2>3, <2>4 DEF Lesser
  <2>6. s \in Seq(Cells) /\ Len(s) = k
    <3> HIDE DEF p
    <3> QED BY <2>2, <2>5
  <2> HIDE DEF s
  <2>7. IsNetBuffer(EndProduce(Filled(b, s), Len(s)))
    BY <2>4, <2>5, <2>6, WriteToBuffer
  <2> QED BY <2>1, <2>3, <2>6, <2>7 DEF ReceiveTyped, s
<1>7. CASE ReceiveNothing
  <2>1. receiveBuffer' = EndProduce(receiveBuffer, 0) /\ failed' = failed
    BY <1>7 DEF ReceiveNothing
  <2>2. IsNetBuffer(EndProduce(receiveBuffer, 0))
    BY NetBuffers DEF ReceiveTyped
  <2> QED BY <2>1, <2>2 DEF ReceiveTyped
<1>8. CASE HeaderRefused
  BY <1>8 DEF HeaderRefused, ReceiveTyped
<1>9. CASE ProcessEnds
  <2>1. /\ receiveBuffer' \in {receiveBuffer, EndConsume(receiveBuffer, 0)}
        /\ failed' = failed
    BY <1>9 DEF ProcessEnds
  <2>2. IsNetBuffer(EndConsume(receiveBuffer, 0))
    BY <1>2, NetBuffers DEF ReceiveTyped
  <2> QED BY <2>1, <2>2 DEF ReceiveTyped
<1>10. CASE ProcessPacket
  <2>1. /\ receiveBuffer' = EndConsume(Unwrapped, PacketSize) /\ failed' = failed
        /\ ~(Size(receiveBuffer) < PacketSize)
    BY <1>10 DEF ProcessPacket, NoPacket
  <2>2. /\ PacketSize \in Nat /\ Size(receiveBuffer) \in 0 .. BufferSize
        /\ BufferSize \in Nat \ {0}
    BY HeaderIs, NetBuffers DEF HeaderSize, ReceiveTyped
  <2>3. PacketSize \in 0 .. BufferSize
    BY <2>1, <2>2
  <2>4. IsNetBuffer(EndConsume(Unwrapped, PacketSize))
    BY <2>3, UnwrappedIs, NetBuffers
  <2> QED BY <2>1, <2>4 DEF ReceiveTyped
<1>11. CASE WrapRefused
  BY <1>11, UnwrappedIs DEF WrapRefused, ReceiveTyped
<1> QED BY <1>3, <1>4, <1>5, <1>6, <1>7, <1>8, <1>9, <1>10, <1>11, ClientChanges
        DEF ClientOpens, ClientReceives

\* The client's state and its connection agree.
LEMMA ClientKept ==
  ASSUME ClientTyped, Next
  PROVE  ClientTyped'
<1> DEFINE C == [state : {"closed", "connecting", "connected"}, conn : 0 .. MaxConnections,
                 doing : {"nothing", "receiving", "processing"}, again : BOOLEAN]
<1>1. CASE UNCHANGED <<client, receiveBuffer, failed>>
  BY <1>1 DEF ClientTyped
<1>2. CASE Connect
  <2>1. /\ client \in C /\ client.conn < MaxConnections
        /\ client' = [client EXCEPT !.state = "connecting", !.conn = client.conn + 1]
    BY <1>2 DEF Connect, ClientTyped
  <2>2. client.conn + 1 \in 0 .. MaxConnections /\ client.conn + 1 \in Connections
    BY <2>1, PacketStreamAssumption DEF Connections
  <2>3. client' \in C /\ client'.conn = client.conn + 1
    BY <2>1, <2>2
  <2> QED BY <2>2, <2>3 DEF ClientTyped
<1>3. CASE Disconnect \/ ConnectFails \/ ReceiveEnd
  <2>1. client' = [client EXCEPT !.state = "closed", !.doing = "nothing", !.again = FALSE]
    BY <1>3 DEF Disconnect, ConnectFails, ReceiveEnd, CloseClient
  <2> QED BY <2>1 DEF ClientTyped
<1>4. CASE Connected
  BY <1>4 DEF Connected, ClientIs, ClientTyped
<1>5. CASE ReceiveBegins \/ ReceiveWhenFull \/ ReceiveNothing
  BY <1>5 DEF ReceiveBegins, ReceiveWhenFull, ReceiveNothing, Doing, ClientIs, ClientTyped
<1>6. CASE ReceiveSome
  <2>1. client \in C /\ client.state = "connected"
    BY <1>6 DEF ReceiveSome, Doing, ClientIs, ClientTyped
  <2>2. \E v \in BOOLEAN : client' = [client EXCEPT !.doing = "processing", !.again = v]
    <3>1. PICK k : client' = [client EXCEPT !.doing = "processing",
                   !.again = k = Writable(receiveBuffer) /\ WritesWrap(receiveBuffer)]
      BY <1>6 DEF ReceiveSome
    <3> DEFINE v == k = Writable(receiveBuffer) /\ WritesWrap(receiveBuffer)
    <3>2. v \in BOOLEAN /\ client' = [client EXCEPT !.doing = "processing", !.again = v]
      BY <3>1
    <3> QED BY <3>2
  <2>3. PICK v \in BOOLEAN : client' = [client EXCEPT !.doing = "processing", !.again = v]
    BY <2>2
  <2> QED BY <2>1, <2>3 DEF ClientTyped
<1>7. CASE ProcessEnds
  BY <1>7 DEF ProcessEnds, Doing, ClientIs, ClientTyped
<1>8. CASE HeaderRefused \/ ProcessPacket \/ WrapRefused
  BY <1>8 DEF HeaderRefused, ProcessPacket, WrapRefused, ClientTyped
<1> QED BY <1>1, <1>2, <1>3, <1>4, <1>5, <1>6, <1>7, <1>8, ClientChanges
        DEF ClientOpens, ClientReceives

\* The history is one of messages and connections.
LEMMA HistoryKept ==
  ASSUME ServerTyped, Plan, ClientTyped, SendTyped, HistoryTyped, Next
  PROVE  HistoryTyped'
<1> DEFINE W == {"nowhere", "send", "flush", "receive", "partial"}
<1>1. ASSUME NEW i, NEW where \in W, NEW really, Spoil(i, where, really)
      PROVE  spoilt' \in [Connections -> W]
  <2>1. spoilt' = [spoilt EXCEPT ![i] = IF really /\ spoilt[i] = "nowhere" THEN where
                                        ELSE spoilt[i]]
    BY <1>1 DEF Spoil
  <2> QED BY <2>1 DEF HistoryTyped
<1>2. CASE UNCHANGED history
  BY <1>2 DEF HistoryTyped, history
<1>3. CASE ReceiveNothing \/ ProcessEnds \/ SendDropped \/ FlushBlocks
  <2>1. UNCHANGED <<accepted, delivered, broadcasts>>
    BY <1>3 DEF ReceiveNothing, ProcessEnds, SendDropped, FlushBlocks
  <2>2. \E i, really : \E where \in W : Spoil(i, where, really)
    BY <1>3 DEF ReceiveNothing, ProcessEnds, SendDropped, FlushBlocks
  <2> QED BY <1>1, <2>1, <2>2 DEF HistoryTyped
<1>4. CASE ProcessPacket
  <2> DEFINE i == client.conn
             m == MessageAt(Unwrapped)
  <2>1. /\ delivered' = [delivered EXCEPT ![i] = Append(delivered[i], m)]
        /\ UNCHANGED <<accepted, spoilt, broadcasts>> /\ client.state # "closed"
    BY <1>4 DEF ProcessPacket, Doing, ClientIs
  <2>2. i \in Connections /\ m \in {0} \cup Messages
    BY <2>1 DEF ClientTyped, MessageAt
  <2> HIDE DEF i, m
  <2>3. Append(delivered[i], m) \in Seq({0} \cup Messages)
    BY <2>2 DEF HistoryTyped
  <2> QED BY <2>1, <2>2, <2>3 DEF HistoryTyped
<1>5. CASE SendWrites
  <2> DEFINE m == Head(agenda).message
  <2>1. /\ accepted' = [accepted EXCEPT ![Conn] = Append(accepted[Conn], m)]
        /\ UNCHANGED <<delivered, spoilt, broadcasts>>
    BY <1>5 DEF SendWrites
  <2>2. Conn \in Connections /\ m \in Messages
    BY <1>5, PacketToWrite
  <2> HIDE DEF m
  <2>3. Append(accepted[Conn], m) \in Seq(Messages)
    BY <2>2 DEF HistoryTyped
  <2> QED BY <2>1, <2>2, <2>3 DEF HistoryTyped
<1>6. ASSUME NEW m \in Messages, Broadcast(m) PROVE HistoryTyped'
  <2>1. /\ broadcasts < MaxBroadcasts /\ broadcasts' = broadcasts + 1
        /\ UNCHANGED <<accepted, delivered, spoilt>>
    BY <1>6 DEF Broadcast
  <2>2. broadcasts' \in 0 .. MaxBroadcasts
    BY <2>1, PacketStreamAssumption DEF HistoryTyped
  <2> QED BY <2>1, <2>2 DEF HistoryTyped
<1> QED BY <1>2, <1>3, <1>4, <1>5, <1>6, HistoryChanges

\* The ends of connections that the server has accepted.
Late == {"connected", "closed"}

\* The socket that is used is connected.
LEMMA ConnIsConnected ==
  ASSUME ServerTyped, Plan, agenda # <<>>, Head(agenda).call \in IO
  PROVE  Conn \in Connections /\ serverEnd[Conn] = "connected"
BY NextCall DEF Callable, Conn

\* What becomes of the server's end of a connection.
LEMMA EndsChange ==
  ASSUME ServerTyped, Plan, ClientTyped, Next, NEW i \in Connections
  PROVE  \/ serverEnd'[i] = serverEnd[i]
         \/ Connect /\ i = client.conn + 1
         \/ ConnectAgain /\ i = client.conn /\ serverEnd[i] = "refused"
         \/ serverEnd[i] \in {"queued", "connected"} /\ serverEnd'[i] \in Late
<1>0. serverEnd \in [Connections -> Ends]
  BY DEF ServerTyped
<1>1. CASE UNCHANGED <<server, serverEnd>>
  BY <1>1
<1>2. CASE Connect
  BY <1>0, <1>2 DEF Connect
<1>3. CASE ConnectAgain
  BY <1>0, <1>3 DEF ConnectAgain
<1>4. CASE Listen \/ Poll \/ \E m \in Messages : Broadcast(m)
  BY <1>4 DEF Listen, Poll, Broadcast
<1>5. CASE Stop
  BY <1>5 DEF Stop, Late
<1>6. CASE ServerReceivesEnd \/ FlushFails
  <2>1. /\ agenda # <<>> /\ Head(agenda).call \in IO
        /\ serverEnd' = [serverEnd EXCEPT ![Conn] = "closed"]
    BY <1>6 DEF ServerReceivesEnd, FlushFails, CloseServerEnd, Todo, IO
  <2>2. Conn \in Connections /\ serverEnd[Conn] = "connected"
    BY <2>1, ConnIsConnected
  <2> QED BY <1>0, <2>1, <2>2 DEF Late
<1>7. CASE Accept
  <2>1. /\ agenda # <<>> /\ Head(agenda).call = "accept"
        /\ serverEnd' = [serverEnd EXCEPT ![Conn] = "connected"]
    BY <1>7 DEF Accept, Todo
  <2>2. Conn \in Connections /\ serverEnd[Conn] = "queued"
    BY <2>1, NextCall DEF Callable, Conn
  <2> QED BY <1>0, <2>1, <2>2 DEF Late
<1>8. CASE Sweep \/ SendFlushes \/ SendDropped \/ SendWrites \/ FlushEnds \/ FlushSome \/ FlushBlocks
  BY <1>8 DEF Sweep, SendFlushes, SendDropped, SendWrites, FlushEnds, FlushSome, FlushBlocks
<1> QED BY <1>1, <1>2, <1>3, <1>4, <1>5, <1>6, <1>7, <1>8, ServerChanges DEF ServerGoesOn

\* The client's connection changes with connect() only.
LEMMA ConnChanges ==
  ASSUME ClientTyped, Next
  PROVE  IF Connect THEN client'.conn = client.conn + 1 /\ client.conn + 1 \in Connections
         ELSE client'.conn = client.conn
<1>1. CASE UNCHANGED <<client, receiveBuffer, failed>> /\ ~Connect
  BY <1>1
<1>2. CASE Connect
  <2>1. /\ client.conn < MaxConnections /\ client.conn \in 0 .. MaxConnections
        /\ client'.conn = client.conn + 1
    BY <1>2 DEF Connect, ClientTyped
  <2>2. client.conn + 1 \in Connections
    BY <2>1, PacketStreamAssumption DEF Connections
  <2> QED BY <1>2, <2>1, <2>2
<1>3. CASE (Disconnect \/ Connected \/ ConnectFails \/ ClientReceives) /\ ~Connect
  <2>1. CASE Disconnect \/ ConnectFails \/ ReceiveEnd
    BY <1>3, <2>1 DEF Disconnect, ConnectFails, ReceiveEnd, CloseClient, ClientTyped
  <2>2. CASE Connected \/ ReceiveBegins \/ ReceiveWhenFull \/ ReceiveSome \/ ReceiveNothing \/ ProcessEnds
    BY <1>3, <2>2 DEF Connected, ReceiveBegins, ReceiveWhenFull, ReceiveSome, ReceiveNothing,
                      ProcessEnds, ClientTyped
  <2>3. CASE HeaderRefused \/ ProcessPacket \/ WrapRefused
    BY <1>3, <2>3 DEF HeaderRefused, ProcessPacket, WrapRefused
  <2> QED BY <1>3, <2>1, <2>2, <2>3 DEF ClientReceives
<1> QED BY <1>1, <1>2, <1>3, ClientChanges DEF ClientOpens

\* What stays as it is of a connection that is not used.
LEMMA UnusedKept ==
  ASSUME ServerTyped, Plan, ClientTyped, SendTyped, PipeTyped, HistoryTyped, Idle, Next,
         NEW i \in Connections, serverEnd[i] \notin Late, Unused(i)
  PROVE  Unused(i)'
<1>1. sendBuffer'[i] = NoBuffer
  <2>1. CASE UNCHANGED sendBuffer
    BY <2>1 DEF Unused
  <2>2. CASE Stop
    BY <2>2 DEF Stop
  <2>3. CASE ServerReceivesEnd \/ FlushFails \/ SendDropped \/ SendWrites \/ FlushSome \/ FlushBlocks
    <3>1. agenda # <<>> /\ Head(agenda).call \in IO /\ \E b : sendBuffer' = [sendBuffer EXCEPT ![Conn] = b]
      <4>1. agenda # <<>> /\ Head(agenda).call \in IO
        BY <2>3 DEF ServerReceivesEnd, FlushFails, SendDropped, SendWrites, FlushSome,
                    FlushBlocks, Todo, Sending, IO
      <4>2. \E b : sendBuffer' = [sendBuffer EXCEPT ![Conn] = b]
        <5>1. CASE ServerReceivesEnd \/ FlushFails
          BY <5>1 DEF ServerReceivesEnd, FlushFails, CloseServerEnd
        <5>2. CASE SendDropped
          BY <5>2 DEF SendDropped
        <5>3. CASE SendWrites
          BY <5>3 DEF SendWrites
        <5>4. CASE FlushSome
          BY <5>4 DEF FlushSome
        <5>5. CASE FlushBlocks
          BY <5>5 DEF FlushBlocks
        <5> QED BY <2>3, <5>1, <5>2, <5>3, <5>4, <5>5
      <4> QED BY <4>1, <4>2
    <3>2. Conn # i
      BY <3>1, ConnIsConnected DEF Late
    <3> QED BY <3>1, <3>2 DEF SendTyped, Unused
  <2> QED BY <2>1, <2>2, <2>3, SendBufferChanges
<1>2. pipe'[i] = <<>>
  <2>1. CASE UNCHANGED pipe
    BY <2>1 DEF Unused
  <2>2. CASE ConnectFails \/ Disconnect \/ ReceiveEnd
    <3>1. pipe' = [pipe EXCEPT ![client.conn] = <<>>]
      BY <2>2 DEF ConnectFails, Disconnect, ReceiveEnd, CloseClient
    <3> QED BY <3>1 DEF PipeTyped, Unused
  <2>3. CASE ReceiveSome
    <3>1. client.doing = "receiving" /\ \E s : pipe' = [pipe EXCEPT ![client.conn] = s]
      BY <2>3 DEF ReceiveSome, Doing
    <3>2. client.conn # i
      BY <3>1 DEF Idle, Late
    <3> QED BY <3>1, <3>2 DEF PipeTyped, Unused
  <2>4. CASE FlushSome
    <3>1. agenda # <<>> /\ Head(agenda).call \in IO
      BY <2>4 DEF FlushSome, Todo, IO
    <3>2. Conn # i
      BY <3>1, ConnIsConnected DEF Late
    <3>3. pipe' = pipe \/ \E s : pipe' = [pipe EXCEPT ![Conn] = s]
      BY <2>4 DEF FlushSome
    <3> QED BY <3>2, <3>3 DEF PipeTyped, Unused
  <2> QED BY <2>1, <2>2, <2>3, <2>4, PipeChanges
<1>3. accepted'[i] = <<>> /\ delivered'[i] = <<>>
  <2>1. CASE UNCHANGED <<accepted, delivered>>
    BY <2>1 DEF Unused
  <2>2. CASE ProcessPacket
    <3>1. /\ client.doing = "processing" /\ UNCHANGED accepted
          /\ \E s : delivered' = [delivered EXCEPT ![client.conn] = s]
      BY <2>2 DEF ProcessPacket, Doing
    <3>2. client.conn # i
      BY <3>1 DEF Idle, Late
    <3> QED BY <3>1, <3>2 DEF HistoryTyped, Unused
  <2>3. CASE SendWrites
    <3>1. agenda # <<>> /\ Head(agenda).call \in IO
      BY <2>3 DEF SendWrites, Todo, Sending, IO
    <3>2. Conn # i
      BY <3>1, ConnIsConnected DEF Late
    <3>3. UNCHANGED delivered /\ \E s : accepted' = [accepted EXCEPT ![Conn] = s]
      BY <2>3 DEF SendWrites
    <3> QED BY <3>2, <3>3 DEF HistoryTyped, Unused
  <2>4. CASE UNCHANGED history \/ ReceiveNothing \/ ProcessEnds \/ SendDropped \/ FlushBlocks
             \/ \E m \in Messages : Broadcast(m)
    BY <2>1, <2>4 DEF history, ReceiveNothing, ProcessEnds, SendDropped, FlushBlocks, Broadcast
  <2> QED BY <2>2, <2>3, <2>4, HistoryChanges
<1> QED BY <1>1, <1>2, <1>3 DEF Unused

\* Connections that were not accepted stay unused.
LEMMA IdleKept ==
  ASSUME ServerTyped, Plan, ClientTyped, SendTyped, PipeTyped, HistoryTyped, Idle, Next
  PROVE  Idle'
<1>0. /\ client.conn \in 0 .. MaxConnections
      /\ \A i \in Connections : serverEnd[i] \in Ends
      /\ \A i \in Connections : i \in Nat
  BY MessagesAre DEF ClientTyped, ServerTyped
<1>1. ASSUME NEW i \in Connections, i > client'.conn PROVE serverEnd'[i] = "none"
  <2>1. i > client.conn /\ (Connect => i # client.conn + 1)
    BY <1>0, <1>1, ConnChanges
  <2>2. serverEnd[i] = "none" /\ i # client.conn
    BY <1>0, <2>1 DEF Idle
  <2> QED BY <2>1, <2>2, EndsChange
<1>2. ASSUME NEW i \in Connections, serverEnd'[i] \in {"none", "refused", "queued"}
      PROVE  Unused(i)'
  <2>1. serverEnd[i] \in {"none", "refused", "queued"}
    <3>1. Connect /\ i = client.conn + 1 => serverEnd[i] = "none"
      BY <1>0 DEF Idle
    <3> QED BY <1>2, <3>1, EndsChange DEF Late
  <2>2. Unused(i) /\ serverEnd[i] \notin Late
    BY <2>1 DEF Idle, Late
  <2> QED BY <2>2, UnusedKept
<1>3. \/ client'.state = "connected" /\ serverEnd'[client'.conn] \in Late
      \/ receiveBuffer' = NoBuffer /\ client'.doing = "nothing"
  <2>1. ASSUME client.state = "connected", serverEnd[client.conn] \in Late,
               client'.state = "connected", ~Connect
        PROVE  serverEnd'[client'.conn] \in Late
    <3>1. client'.conn = client.conn /\ client.conn \in Connections
      BY <2>1, ConnChanges DEF ClientTyped
    <3> DEFINE i == client.conn
    <3>2. i \in Connections /\ serverEnd[i] \in Late
      BY <2>1, <3>1
    <3>3. serverEnd'[i] \in Late
      <4> HIDE DEF i
      <4> QED BY <2>1, <3>2, EndsChange DEF Late
    <3> QED BY <3>1, <3>3
  <2>2. CASE UNCHANGED <<client, receiveBuffer, failed>> /\ ~Connect
    <3>1. client' = client /\ receiveBuffer' = receiveBuffer
      BY <2>2
    <3> QED BY <2>1, <2>2, <3>1 DEF Idle, Late
  <2>3. CASE Connect
    BY <2>3 DEF Connect, ClientIs, ClientTyped, Idle
  <2>4. CASE Disconnect \/ ConnectFails \/ ReceiveEnd
    BY <2>4 DEF Disconnect, ConnectFails, ReceiveEnd, CloseClient, ClientTyped
  <2>5. CASE Connected
    BY <2>5 DEF Connected, ClientIs, ClientTyped, Idle
  <2>6. CASE ReceiveBegins
    <3>1. /\ client.state = "connected" /\ client'.state = "connected" /\ ~Connect
          /\ pipe[client.conn] # <<>> \/ serverEnd[client.conn] = "closed"
          /\ client.conn \in Connections
      BY <2>6 DEF ReceiveBegins, Doing, ClientIs, Ended, ClientTyped, Connect
    <3>2. serverEnd[client.conn] \in Late
      BY <1>0, <3>1 DEF Idle, Unused, Late, Ends
    <3> QED BY <2>1, <3>1, <3>2
  <2>7. CASE ReceiveWhenFull \/ ReceiveSome \/ ReceiveNothing \/ HeaderRefused \/ ProcessEnds
             \/ ProcessPacket \/ WrapRefused
    <3>1. client.state = "connected" /\ client.doing # "nothing" /\ ~Connect
      BY <2>7 DEF ReceiveWhenFull, ReceiveSome, ReceiveNothing, HeaderRefused, ProcessEnds,
                  ProcessPacket, WrapRefused, Doing, ClientIs, Connect
    <3>2. client'.state = "connected"
      BY <2>7, <3>1 DEF ReceiveWhenFull, ReceiveSome, ReceiveNothing, HeaderRefused, ProcessEnds,
                        ProcessPacket, WrapRefused, ClientTyped
    <3>3. serverEnd[client.conn] \in Late
      BY <3>1 DEF Idle, Late
    <3> QED BY <2>1, <3>1, <3>2, <3>3
  <2> QED BY <2>2, <2>3, <2>4, <2>5, <2>6, <2>7, ClientChanges DEF ClientOpens, ClientReceives
<1> QED BY <1>1, <1>2, <1>3 DEF Idle, Late

(***************************************************************************)
(* The frame: who holds what, whatever is in the stream.                   *)
(***************************************************************************)
Frame ==
  /\ ServerTyped /\ Plan /\ ClientTyped /\ SendTyped /\ PipeTyped /\ ReceiveTyped
  /\ HistoryTyped /\ Idle

\* The frame holds at the start,
LEMMA FrameAtStart == ASSUME Init PROVE Frame
<1>1. IsNetBuffer(NoBuffer)
  BY NoBufferIs DEF IsNetBuffer
<1>2. ServerTyped /\ Plan
  BY DEF Init, ServerTyped, Plan, AgendaOK, InOrder, IsInjective, Ends
<1>3. ClientTyped
  BY PacketStreamAssumption DEF Init, ClientTyped
<1>4. SendTyped /\ ReceiveTyped
  BY <1>1 DEF Init, SendTyped, ReceiveTyped
<1>5. PipeTyped
  BY PacketStreamAssumption DEF Init, PipeTyped
<1>6. HistoryTyped
  BY PacketStreamAssumption DEF Init, HistoryTyped
<1>7. Idle
  BY DEF Init, Idle, Unused
<1> QED BY <1>2, <1>3, <1>4, <1>5, <1>6, <1>7 DEF Frame

\* every step keeps it,
LEMMA FrameKept == ASSUME Frame, [Next]_vars PROVE Frame'
<1>1. CASE Next
  BY <1>1, PlanKept, ClientKept, SendKept, PipeKept, ReceiveKept, HistoryKept, IdleKept
     DEF Frame
<1>2. CASE UNCHANGED vars
  BY <1>2 DEF Frame, vars, server, history, ServerTyped, Plan, ClientTyped, SendTyped,
              PipeTyped, ReceiveTyped, HistoryTyped, Idle, Unused
<1> QED BY <1>1, <1>2

\* and it has the types of TypeOK in it.
LEMMA FrameIsTyped == ASSUME Frame PROVE TypeOK
BY DEF Frame, ServerTyped, ClientTyped, SendTyped, PipeTyped, ReceiveTyped, HistoryTyped,
       IsNetBuffer, TypeOK, Ends

(***************************************************************************)
(* Every call of ::send and ::recv that poll() and broadcast() make is     *)
(* made on a connected socket (socket.cpp:243, 290, 341).                  *)
(***************************************************************************)
THEOREM ConnectedSockets == Spec => []UsesConnectedSockets
<1>1. Init => Frame
  BY FrameAtStart
<1>2. Frame /\ [Next]_vars => Frame'
  BY FrameKept
<1>3. Frame => UsesConnectedSockets
  <2> SUFFICES ASSUME Frame, Sending \/ Todo("flush") \/ Todo("receive")
               PROVE  serverEnd[Conn] = "connected"
    BY DEF UsesConnectedSockets
  <2>1. agenda # <<>> /\ Head(agenda).call \in IO
    BY DEF Sending, Todo, IO
  <2> QED BY <2>1, ConnIsConnected DEF Frame
<1> QED BY <1>1, <1>2, <1>3, PTL DEF Spec

(***************************************************************************)
(* Sequences that are cut and joined.                                      *)
(***************************************************************************)
LEMMA Pieces ==
  ASSUME NEW A, NEW s \in Seq(A), NEW k \in 0 .. Len(s)
  PROVE  /\ SubSeq(s, 1, k) \in Seq(A) /\ SubSeq(s, k + 1, Len(s)) \in Seq(A)
         /\ Len(SubSeq(s, 1, k)) = k /\ Len(SubSeq(s, k + 1, Len(s))) = Len(s) - k
         /\ SubSeq(s, 1, k) \o SubSeq(s, k + 1, Len(s)) = s
<1>1. /\ SubSeq(s, 1, k) \in Seq(A) /\ SubSeq(s, k + 1, Len(s)) \in Seq(A)
      /\ Len(SubSeq(s, 1, k)) = k /\ Len(SubSeq(s, k + 1, Len(s))) = Len(s) - k
  OBVIOUS
<1>2. Len(s) \in Nat
  OBVIOUS
<1>3. 1 \in 1 .. Len(s) + 1 /\ k \in 1 - 1 .. Len(s) /\ Len(s) \in k .. Len(s)
  BY <1>2
<1>4. SubSeq(s, 1, k) \o SubSeq(s, k + 1, Len(s)) = SubSeq(s, 1, Len(s))
  BY <1>3, ConcatAdjacentSubSeq
<1>5. SubSeq(s, 1, Len(s)) = s
  BY SubSeqFull
<1> QED BY <1>1, <1>4, <1>5

(***************************************************************************)
(* A stream of three parts: what the receive buffer holds, what is on its  *)
(* way, and the rest.                                                      *)
(***************************************************************************)
Joined(c, p, r, u) == (c \o p) \o r = u

\* What is first in a stream whose first part is long enough.
LEMMA FirstOfStream ==
  ASSUME NEW A, NEW c \in Seq(A), NEW p \in Seq(A), NEW rest \in Seq(A),
         NEW x \in Seq(A), NEW r \in Seq(A), Joined(c, p, rest, x \o r)
  PROVE  /\ \A j \in 1 .. Len(x) : j <= Len(c) => x[j] = c[j]
         /\ Len(x) <= Len(c) =>
              /\ SubSeq(c, 1, Len(x)) = x
              /\ Joined(SubSeq(c, Len(x) + 1, Len(c)), p, rest, r)
<1> DEFINE k == Len(x)
           l == Len(c)
           m == Len(p)
           n == Len(rest)
           h == Len(r)
           cp == c \o p
           all == cp \o rest
<1>1. k \in Nat /\ l \in Nat /\ m \in Nat /\ n \in Nat /\ h \in Nat
  OBVIOUS
<1>2. /\ cp \in Seq(A) /\ Len(cp) = l + m
      /\ \A j \in 1 .. l + m : cp[j] = IF j <= l THEN c[j] ELSE p[j - l]
  BY ConcatProperties
<1>3. all = x \o r
  BY DEF Joined
<1> HIDE DEF cp
<1>4. /\ Len(all) = (l + m) + n
      /\ \A j \in 1 .. (l + m) + n : all[j] = IF j <= l + m THEN cp[j] ELSE rest[j - (l + m)]
  <2>1. cp \in Seq(A) /\ Len(cp) = l + m
    BY <1>2
  <2>2. /\ Len(all) = Len(cp) + Len(rest)
        /\ \A j \in 1 .. Len(cp) + Len(rest) :
             all[j] = IF j <= Len(cp) THEN cp[j] ELSE rest[j - Len(cp)]
    BY <2>1, ConcatProperties
  <2> HIDE DEF all
  <2> QED BY <2>1, <2>2
<1> HIDE DEF all
<1>5. /\ Len(all) = k + h
      /\ \A j \in 1 .. k + h : all[j] = IF j <= k THEN x[j] ELSE r[j - k]
  BY <1>3, ConcatProperties
<1> HIDE DEF k, l, m, n, h
<1>6. ASSUME NEW j \in 1 .. k, j <= l PROVE x[j] = c[j]
  <2>1. j \in 1 .. k + h /\ j <= k /\ j \in 1 .. l + m /\ j <= l + m /\ j \in 1 .. (l + m) + n
    BY <1>1, <1>6
  <2>2. all[j] = x[j] /\ all[j] = cp[j] /\ cp[j] = c[j]
    BY <1>2, <1>4, <1>5, <1>6, <2>1
  <2> QED BY <2>2
<1>7. ASSUME k <= l
      PROVE  SubSeq(c, 1, k) = x /\ Joined(SubSeq(c, k + 1, l), p, rest, r)
  <2> DEFINE f == SubSeq(c, 1, k)
             g == SubSeq(c, k + 1, l)
             gp == g \o p
             v == gp \o rest
  <2>1. k \in 0 .. l
    BY <1>1, <1>7
  <2>2. /\ f \in Seq(A) /\ g \in Seq(A) /\ Len(f) = k /\ Len(g) = l - k
        /\ (\A j \in 1 .. k : f[j] = c[j]) /\ (\A j \in 1 .. l - k : g[j] = c[k + j])
    BY <2>1 DEF l
  <2> HIDE DEF f, g
  <2>3. f = x
    <3>1. \A j \in 1 .. k : j <= l
      BY <1>1, <2>1
    <3>2. \A j \in 1 .. Len(f) : f[j] = x[j]
      BY <1>6, <2>2, <3>1
    <3>3. Len(f) = Len(x)
      BY <2>2 DEF k
    <3> QED BY <2>2, <3>2, <3>3, SeqEqual
  <2>4. /\ gp \in Seq(A) /\ Len(gp) = (l - k) + m
        /\ \A j \in 1 .. (l - k) + m : gp[j] = IF j <= l - k THEN g[j] ELSE p[j - (l - k)]
    <3>1. /\ gp \in Seq(A) /\ Len(gp) = Len(g) + Len(p)
          /\ \A j \in 1 .. Len(g) + Len(p) : gp[j] = IF j <= Len(g) THEN g[j] ELSE p[j - Len(g)]
      BY <2>2, ConcatProperties
    <3> HIDE DEF gp
    <3> QED BY <2>2, <3>1 DEF m
  <2> HIDE DEF gp
  <2>5. /\ v \in Seq(A) /\ Len(v) = ((l - k) + m) + n
        /\ \A j \in 1 .. ((l - k) + m) + n :
             v[j] = IF j <= (l - k) + m THEN gp[j] ELSE rest[j - ((l - k) + m)]
    <3>1. gp \in Seq(A) /\ Len(gp) = (l - k) + m
      BY <2>4
    <3>2. /\ v \in Seq(A) /\ Len(v) = Len(gp) + Len(rest)
          /\ \A j \in 1 .. Len(gp) + Len(rest) :
               v[j] = IF j <= Len(gp) THEN gp[j] ELSE rest[j - Len(gp)]
      BY <3>1, ConcatProperties
    <3> HIDE DEF v
    <3> QED BY <3>1, <3>2 DEF n
  <2> HIDE DEF v
  <2>6. Len(v) = h
    BY <1>1, <1>4, <1>5, <2>1, <2>5
  <2>7. ASSUME NEW j \in 1 .. h PROVE v[j] = r[j]
    <3>1. k + j \in 1 .. k + h /\ ~(k + j <= k) /\ (k + j) - k = j
      BY <1>1
    <3>2. all[k + j] = r[j]
      BY <1>5, <3>1
    <3>3. k + j \in 1 .. (l + m) + n /\ j \in 1 .. ((l - k) + m) + n
      BY <1>1, <1>4, <1>5, <2>1, <3>1
    <3>4. CASE k + j <= l
      <4>1. k + j \in 1 .. l + m /\ k + j <= l + m /\ j \in 1 .. l - k /\ j <= l - k
            /\ j \in 1 .. (l - k) + m /\ j <= (l - k) + m
        BY <1>1, <2>1, <3>3, <3>4
      <4>2. all[k + j] = c[k + j]
        BY <1>2, <1>4, <3>3, <3>4, <4>1
      <4>3. v[j] = c[k + j]
        BY <2>2, <2>4, <2>5, <3>3, <4>1
      <4> QED BY <3>2, <4>2, <4>3
    <3>5. CASE ~(k + j <= l) /\ k + j <= l + m
      <4>1. /\ k + j \in 1 .. l + m /\ ~(j <= l - k) /\ j \in 1 .. (l - k) + m
            /\ j <= (l - k) + m /\ (k + j) - l = j - (l - k)
        BY <1>1, <2>1, <3>3, <3>5
      <4>2. all[k + j] = p[(k + j) - l]
        BY <1>2, <1>4, <3>3, <3>5, <4>1
      <4>3. v[j] = p[j - (l - k)]
        BY <2>4, <2>5, <3>3, <4>1
      <4> QED BY <3>2, <4>1, <4>2, <4>3
    <3>6. CASE ~(k + j <= l + m)
      <4>1. ~(j <= (l - k) + m) /\ (k + j) - (l + m) = j - ((l - k) + m)
        BY <1>1, <2>1, <3>3, <3>6
      <4>2. all[k + j] = rest[(k + j) - (l + m)]
        BY <1>4, <3>3, <3>6
      <4>3. v[j] = rest[j - ((l - k) + m)]
        BY <2>5, <3>3, <4>1
      <4> QED BY <3>2, <4>1, <4>2, <4>3
    <3> QED BY <3>4, <3>5, <3>6
  <2>8. v = r
    <3>1. Len(v) = Len(r) /\ \A j \in 1 .. Len(v) : v[j] = r[j]
      BY <2>6, <2>7 DEF h
    <3> QED BY <2>5, <3>1, SeqEqual
  <2> QED BY <2>3, <2>8 DEF Joined, v, gp, f, g
<1> QED BY <1>6, <1>7 DEF k, l

(***************************************************************************)
(* The packets of the messages acc from the d-th on.                       *)
(***************************************************************************)
Rest(acc, d) == FlattenSeq([n \in 1 .. Len(acc) - d |-> Packet(acc[d + n])])

\* The first packet of the rest, and one more at its end.
LEMMA RestIs ==
  ASSUME NEW acc \in Seq(Messages), NEW d \in 0 .. Len(acc)
  PROVE  /\ Rest(acc, d) \in Seq(Cells)
         /\ d = Len(acc) => Rest(acc, d) = <<>>
         /\ d < Len(acc) => /\ acc[d + 1] \in Messages
                            /\ Rest(acc, d) = Packet(acc[d + 1]) \o Rest(acc, d + 1)
         /\ \A m \in Messages : Rest(Append(acc, m), d) = Rest(acc, d) \o Packet(m)
<1> DEFINE l == Len(acc)
           s == [n \in 1 .. l - d |-> Packet(acc[d + n])]
<1>1. l \in Nat /\ \A n \in 1 .. l : acc[n] \in Messages
  OBVIOUS
<1>2. d \in 0 .. l
  OBVIOUS
<1> HIDE DEF l
<1>3. \A m \in Messages : Packet(m) \in Seq(Cells)
  BY PacketIs
<1>4. s \in Seq(Seq(Cells)) /\ Len(s) = l - d
  <2>1. \A n \in 1 .. l - d : d + n \in 1 .. l
    BY <1>1, <1>2
  <2>2. \A n \in 1 .. l - d : Packet(acc[d + n]) \in Seq(Cells)
    BY <1>1, <1>3, <2>1
  <2>3. l - d \in Nat
    BY <1>1, <1>2
  <2>4. s \in [1 .. l - d -> Seq(Cells)]
    BY <2>2
  <2> HIDE DEF s
  <2> QED BY <2>3, <2>4
<1>5. Rest(acc, d) = FlattenSeq(s)
  BY DEF Rest, l
<1>6. Rest(acc, d) \in Seq(Cells)
  <2> HIDE DEF s
  <2>1. <<>> \in Seq(Cells)
    OBVIOUS
  <2> QED BY <1>4, <1>5, <2>1, FlattenMore
<1>7. ASSUME d = l PROVE Rest(acc, d) = <<>>
  <2>1. s = <<>>
    <3> HIDE DEF s
    <3>1. Len(s) = 0
      BY <1>1, <1>4, <1>7
    <3> QED BY <1>4, <3>1
  <2>2. FlattenSeq(<<>>) = <<>>
    BY DEF FlattenSeq
  <2> QED BY <1>5, <2>1, <2>2
<1>8. ASSUME d < l
      PROVE  acc[d + 1] \in Messages /\ Rest(acc, d) = Packet(acc[d + 1]) \o Rest(acc, d + 1)
  <2> DEFINE t == [n \in 1 .. l - (d + 1) |-> Packet(acc[(d + 1) + n])]
             x == Packet(acc[d + 1])
             u == <<x>> \o t
  <2>1. d + 1 \in 1 .. l /\ d + 1 \in 0 .. l /\ l - (d + 1) \in Nat /\ l - d \in Nat
    BY <1>1, <1>2, <1>8
  <2>2. x \in Seq(Cells) /\ acc[d + 1] \in Messages
    BY <1>1, <1>3, <2>1
  <2>3. t \in Seq(Seq(Cells)) /\ Len(t) = l - (d + 1)
    <3>1. \A n \in 1 .. l - (d + 1) : (d + 1) + n \in 1 .. l
      BY <1>1, <1>2
    <3>2. \A n \in 1 .. l - (d + 1) : Packet(acc[(d + 1) + n]) \in Seq(Cells)
      BY <1>1, <1>3, <3>1
    <3>3. t \in [1 .. l - (d + 1) -> Seq(Cells)]
      BY <3>2
    <3> HIDE DEF t
    <3> QED BY <2>1, <3>3
  <2>4. \A n \in 1 .. l - (d + 1) : t[n] = Packet(acc[(d + 1) + n])
    OBVIOUS
  <2>5. \A n \in 1 .. l - d : s[n] = Packet(acc[d + n])
    OBVIOUS
  <2>6. x = Packet(acc[d + 1])
    OBVIOUS
  <2> HIDE DEF t, x, s
  <2> DEFINE o == <<x>>
  <2>7. o \in Seq(Seq(Cells)) /\ Len(o) = 1 /\ o[1] = x
    BY <2>2
  <2>8. /\ o \o t \in Seq(Seq(Cells)) /\ Len(o \o t) = 1 + Len(t)
        /\ \A n \in 1 .. 1 + Len(t) : (o \o t)[n] = IF n <= 1 THEN o[n] ELSE t[n - 1]
    <3> HIDE DEF o
    <3>1. /\ o \o t \in Seq(Seq(Cells)) /\ Len(o \o t) = Len(o) + Len(t)
          /\ \A n \in 1 .. Len(o) + Len(t) :
               (o \o t)[n] = IF n <= Len(o) THEN o[n] ELSE t[n - Len(o)]
      BY <2>3, <2>7, ConcatProperties
    <3> QED BY <2>7, <3>1
  <2>9. \A n \in 1 .. l - d : s[n] = (o \o t)[n]
    <3> HIDE DEF o
    <3> SUFFICES ASSUME NEW n \in 1 .. l - d PROVE s[n] = (o \o t)[n]
      OBVIOUS
    <3>1. n \in 1 .. 1 + Len(t)
      BY <1>1, <1>2, <2>1, <2>3
    <3>2. CASE n = 1
      BY <2>5, <2>6, <2>7, <2>8, <3>1, <3>2
    <3>3. CASE n # 1
      <4>1. n - 1 \in 1 .. l - (d + 1) /\ (d + 1) + (n - 1) = d + n /\ ~(n <= 1)
        BY <1>1, <1>2, <3>1, <3>3
      <4>2. (o \o t)[n] = t[n - 1]
        BY <2>8, <3>1, <4>1
      <4>3. t[n - 1] = Packet(acc[d + n])
        BY <2>4, <4>1
      <4> QED BY <2>5, <4>2, <4>3
    <3> QED BY <3>2, <3>3
  <2>10. s = o \o t
    <3> HIDE DEF o
    <3> DEFINE ot == o \o t
    <3>0. 1 + Len(t) = l - d
      BY <1>1, <1>2, <2>3
    <3>1. /\ ot \in Seq(Seq(Cells)) /\ Len(ot) = l - d
          /\ \A n \in 1 .. l - d : s[n] = ot[n]
      BY <2>8, <2>9, <3>0
    <3> HIDE DEF ot
    <3>2. s = ot
      BY <1>4, <3>1, SeqEqual
    <3> QED BY <3>2 DEF ot
  <2>11. FlattenSeq(<<x>> \o t) = x \o FlattenSeq(t)
    BY <2>2, <2>3, FlattenMore
  <2>12. Rest(acc, d + 1) = FlattenSeq(t)
    BY DEF Rest, t, l
  <2> QED BY <1>5, <2>2, <2>6, <2>10, <2>11, <2>12
<1>9. ASSUME NEW m \in Messages PROVE Rest(Append(acc, m), d) = Rest(acc, d) \o Packet(m)
  <2> DEFINE ac == Append(acc, m)
             x == Packet(m)
             t == [n \in 1 .. (l + 1) - d |-> Packet(ac[d + n])]
  <2>1. /\ ac \in Seq(Messages) /\ Len(ac) = l + 1 /\ ac[l + 1] = m
        /\ \A n \in 1 .. l : ac[n] = acc[n]
    BY AppendProperties DEF l
  <2>2. x \in Seq(Cells)
    BY <1>3
  <2> HIDE DEF ac
  <2>3. t \in Seq(Seq(Cells)) /\ Len(t) = (l + 1) - d
    <3>1. \A n \in 1 .. (l + 1) - d : d + n \in 1 .. l + 1
      BY <1>1, <1>2
    <3>2. \A n \in 1 .. l + 1 : ac[n] \in Messages
      BY <2>1
    <3>3. \A n \in 1 .. (l + 1) - d : Packet(ac[d + n]) \in Seq(Cells)
      BY <1>3, <3>1, <3>2
    <3>4. t \in [1 .. (l + 1) - d -> Seq(Cells)]
      BY <3>3
    <3>5. (l + 1) - d \in Nat
      BY <1>1, <1>2
    <3> HIDE DEF t
    <3> QED BY <3>4, <3>5
  <2>4. \A n \in 1 .. (l + 1) - d : t[n] = Packet(ac[d + n])
    OBVIOUS
  <2>5. \A n \in 1 .. l - d : s[n] = Packet(acc[d + n])
    OBVIOUS
  <2>6. Rest(ac, d) = FlattenSeq(t)
    BY <2>1 DEF Rest
  <2> HIDE DEF t, s
  <2> DEFINE q == Append(s, x)
  <2>7. /\ q \in Seq(Seq(Cells)) /\ Len(q) = (l - d) + 1 /\ q[(l - d) + 1] = x
        /\ \A n \in 1 .. l - d : q[n] = s[n]
    <3>1. /\ q \in Seq(Seq(Cells)) /\ Len(q) = Len(s) + 1 /\ q[Len(s) + 1] = x
          /\ \A n \in 1 .. Len(s) : q[n] = s[n]
      <4> HIDE DEF x
      <4> QED BY <1>4, <2>2, AppendProperties
    <3> HIDE DEF q
    <3> QED BY <1>4, <3>1
  <2> HIDE DEF q
  <2>8. \A n \in 1 .. (l + 1) - d : t[n] = q[n]
    <3> SUFFICES ASSUME NEW n \in 1 .. (l + 1) - d PROVE t[n] = q[n]
      OBVIOUS
    <3>1. CASE n = (l - d) + 1
      <4>1. d + n = l + 1
        BY <1>1, <1>2, <3>1
      <4> QED BY <2>1, <2>4, <2>7, <3>1, <4>1 DEF x
    <3>2. CASE n # (l - d) + 1
      <4>1. n \in 1 .. l - d /\ d + n \in 1 .. l
        BY <1>1, <1>2, <3>2
      <4> QED BY <2>1, <2>4, <2>5, <2>7, <4>1
    <3> QED BY <3>1, <3>2
  <2>9. t = q
    <3>1. Len(t) = Len(q) /\ \A n \in 1 .. Len(t) : t[n] = q[n]
      BY <1>1, <1>2, <2>3, <2>7, <2>8
    <3> QED BY <2>3, <2>7, <3>1, SeqEqual
  <2>10. FlattenSeq(Append(s, x)) = FlattenSeq(s) \o x
    <3> HIDE DEF x
    <3> QED BY <1>4, <2>2, FlattenMore
  <2> QED BY <1>5, <2>6, <2>9, <2>10 DEF q, ac
<1> QED BY <1>6, <1>7, <1>8, <1>9 DEF l

\* The first k of what is on its way are received.
LEMMA JoinedTake ==
  ASSUME NEW A, NEW c \in Seq(A), NEW p \in Seq(A), NEW r \in Seq(A), NEW u,
         Joined(c, p, r, u), NEW k \in 0 .. Len(p)
  PROVE  Joined(c \o SubSeq(p, 1, k), SubSeq(p, k + 1, Len(p)), r, u)
<1> DEFINE f == SubSeq(p, 1, k)
           g == SubSeq(p, k + 1, Len(p))
           cf == c \o f
           fg == f \o g
           cp == c \o p
<1>0. f \in Seq(A) /\ g \in Seq(A)
  BY Pieces
<1>1. fg = p
  BY Pieces
<1>2. cp \o r = u
  BY DEF Joined
<1> HIDE DEF f, g
<1>3. cf \o g = c \o fg
  BY <1>0, ConcatAssociative
<1> HIDE DEF cf, fg
<1>4. cf \o g = cp
  BY <1>1, <1>3
<1> HIDE DEF cp
<1>5. (cf \o g) \o r = u
  BY <1>2, <1>4
<1> QED BY <1>5 DEF Joined, cf, f, g

\* The first k of the rest are sent.
LEMMA JoinedSend ==
  ASSUME NEW A, NEW c \in Seq(A), NEW p \in Seq(A), NEW r \in Seq(A), NEW u,
         Joined(c, p, r, u), NEW k \in 0 .. Len(r)
  PROVE  Joined(c, p \o SubSeq(r, 1, k), SubSeq(r, k + 1, Len(r)), u)
<1> DEFINE f == SubSeq(r, 1, k)
           g == SubSeq(r, k + 1, Len(r))
           fg == f \o g
           cp == c \o p
           pf == p \o f
           cpf == cp \o f
<1>0. f \in Seq(A) /\ g \in Seq(A) /\ cp \in Seq(A)
  BY Pieces, ConcatProperties
<1>1. fg = r
  BY Pieces
<1>2. cp \o r = u
  BY DEF Joined
<1> HIDE DEF f, g
<1>3. cpf = c \o pf
  BY <1>0, ConcatAssociative
<1> HIDE DEF pf, cp
<1>4. cpf \o g = cp \o fg
  BY <1>0, ConcatAssociative
<1> HIDE DEF cpf, fg
<1>5. cpf \o g = u
  BY <1>1, <1>2, <1>4
<1>6. (c \o pf) \o g = u
  BY <1>3, <1>5
<1> QED BY <1>6 DEF Joined, pf, f, g

\* The rest grows.
LEMMA JoinedMore ==
  ASSUME NEW A, NEW c \in Seq(A), NEW p \in Seq(A), NEW r \in Seq(A), NEW u,
         Joined(c, p, r, u), NEW x \in Seq(A)
  PROVE  Joined(c, p, r \o x, u \o x)
<1> DEFINE cp == c \o p
           rx == r \o x
           cpr == cp \o r
<1>0. cp \in Seq(A)
  BY ConcatProperties
<1>1. cpr = u
  BY DEF Joined
<1> HIDE DEF cp
<1>2. cpr \o x = cp \o rx
  BY <1>0, ConcatAssociative
<1> HIDE DEF cpr, rx
<1>3. cp \o rx = u \o x
  BY <1>1, <1>2
<1> QED BY <1>3 DEF Joined, cp, rx

(***************************************************************************)
(* The stream of one connection: b receives, p is on its way, the server's *)
(* end is e with s to send, and u is still to be delivered.  Once the end  *)
(* is closed the rest is lost.                                             *)
(***************************************************************************)
Linked(b, p, e, s, u) ==
  \E rest \in Seq(Cells) :
    /\ Joined(Contents(b), p, rest, u)
    /\ e # "closed" => rest = Contents(s)

\* recv() takes k cells of what is on its way (socket.cpp:344-366).
LEMMA LinkedTake ==
  ASSUME NEW b, IsNetBuffer(b), NEW p \in Seq(Cells), NEW e, NEW s, NEW u,
         Linked(b, p, e, s, u), NEW k \in 1 .. Len(p), k \in 1 .. Free(b)
  PROVE  Linked(EndProduce(Filled(b, SubSeq(p, 1, k)), k), SubSeq(p, k + 1, Len(p)), e, s, u)
<1> DEFINE c == Contents(b)
           f == SubSeq(p, 1, k)
           g == SubSeq(p, k + 1, Len(p))
           q == EndProduce(Filled(b, f), k)
<1>1. PICK r \in Seq(Cells) : Joined(c, p, r, u) /\ (e # "closed" => r = Contents(s))
  BY DEF Linked
<1>2. c \in Seq(Cells)
  BY NetBuffers
<1>3. f \in Seq(Cells) /\ Len(f) = k
  OBVIOUS
<1>4. Contents(EndProduce(Filled(b, f), Len(f))) = c \o f
  <2> HIDE DEF f, c
  <2>1. Len(f) \in 1 .. Free(b)
    BY <1>3
  <2>2. Contents(EndProduce(Filled(b, f), Len(f))) = Contents(b) \o f
    BY <1>3, <2>1, WriteToBuffer
  <2> QED BY <2>2 DEF c
<1>5. Contents(q) = c \o f
  <2> HIDE DEF f, c
  <2> QED BY <1>3, <1>4
<1>6. Joined(c \o f, g, r, u)
  <2>1. k \in 0 .. Len(p)
    OBVIOUS
  <2> HIDE DEF c
  <2> QED BY <1>1, <1>2, <2>1, JoinedTake
<1> HIDE DEF c, f, g, q
<1> QED BY <1>1, <1>5, <1>6 DEF Linked, g, q, f

\* ::send takes k cells of the send buffer (socket.cpp:246-284).
LEMMA LinkedSend ==
  ASSUME NEW b, IsNetBuffer(b), NEW p \in Seq(Cells), NEW e, e # "closed",
         NEW s, IsNetBuffer(s), NEW u, Linked(b, p, e, s, u), NEW k \in 1 .. Readable(s)
  PROVE  Linked(b, p \o SubSeq(s.cells, s.read + 1, s.read + k), e, EndConsume(s, k), u)
<1> DEFINE c == Contents(b)
           r == Contents(s)
           q == EndConsume(s, k)
           f == SubSeq(r, 1, k)
           g == SubSeq(r, k + 1, Len(r))
<1>1. Joined(c, p, r, u) /\ c \in Seq(Cells)
  BY NetBuffers DEF Linked
<1>2. /\ r \in Seq(Cells) /\ Len(r) = Size(s) /\ Size(s) \in Nat /\ Readable(s) \in 0 .. Size(s)
      /\ BufferSize \in Nat \ {0} /\ IsBuffer(s, BufferSize, Cells)
  BY NetBuffers
<1>3. k \in 0 .. Size(s) /\ k # 0 /\ k \in 0 .. Len(r) /\ k \in 0 .. Readable(s) /\ 0 \in 0 .. k
  BY <1>2
<1>4. Contents(q) = g
  <2> HIDE DEF q
  <2>1. Contents(EndConsume(s, k)) = SubSeq(Contents(s), k + 1, Size(s))
    BY <1>2, <1>3, ConsumedBuffer
  <2> QED BY <1>2, <2>1 DEF q
<1>5. SubSeq(s.cells, s.read + 1, s.read + k) = f
  <2>1. SubSeq(s.cells, s.read + 0 + 1, s.read + k) = SubSeq(Contents(s), 0 + 1, k)
    BY <1>2, <1>3, ReadableCells
  <2>2. s.read + 0 + 1 = s.read + 1 /\ 0 + 1 = 1
    BY <1>2, BufferParts
  <2> QED BY <2>1, <2>2
<1>6. g \in Seq(Cells)
  <2> HIDE DEF r
  <2> QED BY <1>2, <1>3
<1>7. Joined(c, p \o f, g, u)
  <2> HIDE DEF c, r
  <2> QED BY <1>1, <1>2, <1>3, JoinedSend
<1> HIDE DEF c, r, q, f, g
<1>8. Joined(Contents(b), p \o SubSeq(s.cells, s.read + 1, s.read + k), g, u)
  BY <1>5, <1>7 DEF c
<1>9. g \in Seq(Cells) /\ g = Contents(EndConsume(s, k))
  BY <1>4, <1>6 DEF q
<1> QED BY <1>8, <1>9 DEF Linked

\* A packet is written to the send buffer (socket.cpp:311-318).
LEMMA LinkedMore ==
  ASSUME NEW b, IsNetBuffer(b), NEW p \in Seq(Cells), NEW e, e # "closed",
         NEW s, IsNetBuffer(s), NEW u, Linked(b, p, e, s, u),
         NEW x \in Seq(Cells), Len(x) \in 1 .. Free(s)
  PROVE  Linked(b, p, e, Written(s, x), u \o x)
<1> DEFINE c == Contents(b)
           r == Contents(s)
<1>1. Joined(c, p, r, u) /\ c \in Seq(Cells) /\ r \in Seq(Cells)
  BY NetBuffers DEF Linked
<1>2. Contents(Written(s, x)) = r \o x
  BY WriteToBuffer
<1> DEFINE rx == r \o x
<1> HIDE DEF c, r
<1>3. Joined(c, p, rx, u \o x)
  BY <1>1, JoinedMore
<1>4. rx \in Seq(Cells)
  BY <1>1, ConcatProperties
<1> HIDE DEF rx
<1>5. rx = Contents(Written(s, x))
  BY <1>2 DEF rx
<1> QED BY <1>3, <1>4, <1>5 DEF Linked, c

\* The first packet: what of it is received is in front, and once all of it is there it
\* can be consumed.
LEMMA LinkedFirst ==
  ASSUME NEW b, IsNetBuffer(b), NEW p \in Seq(Cells), NEW e, NEW s,
         NEW x \in Seq(Cells), NEW u \in Seq(Cells), Linked(b, p, e, s, x \o u)
  PROVE  /\ \A j \in 1 .. Len(x) : j <= Size(b) => x[j] = Contents(b)[j]
         /\ Len(x) \in 1 .. Size(b) => /\ SubSeq(Contents(b), 1, Len(x)) = x
                                       /\ Linked(EndConsume(b, Len(x)), p, e, s, u)
<1> DEFINE c == Contents(b)
           k == Len(x)
           g == SubSeq(c, k + 1, Len(c))
<1>1. PICK r \in Seq(Cells) : Joined(c, p, r, x \o u) /\ (e # "closed" => r = Contents(s))
  BY DEF Linked
<1>2. c \in Seq(Cells) /\ Len(c) = Size(b) /\ Size(b) \in Nat
      /\ BufferSize \in Nat \ {0} /\ IsBuffer(b, BufferSize, Cells)
  BY NetBuffers
<1>3. /\ \A j \in 1 .. Len(x) : j <= Len(c) => x[j] = c[j]
      /\ Len(x) <= Len(c) => SubSeq(c, 1, Len(x)) = x /\ Joined(g, p, r, u)
  <2> HIDE DEF c
  <2> QED BY <1>1, <1>2, FirstOfStream
<1>4. ASSUME k \in 1 .. Size(b) PROVE Linked(EndConsume(b, k), p, e, s, u)
  <2>1. k \in 0 .. Size(b) /\ k # 0 /\ Len(x) <= Len(c)
    BY <1>2, <1>4
  <2>2. Joined(g, p, r, u)
    BY <1>3, <2>1
  <2>3. Contents(EndConsume(b, k)) = g
    <3>1. Contents(EndConsume(b, k)) = SubSeq(Contents(b), k + 1, Size(b))
      BY <1>2, <2>1, ConsumedBuffer
    <3> QED BY <1>2, <3>1
  <2> HIDE DEF g, k
  <2> QED BY <1>1, <2>2, <2>3 DEF Linked
<1> HIDE DEF c
<1>5. ASSUME k \in 1 .. Size(b) PROVE SubSeq(c, 1, k) = x
  <2>1. Len(x) <= Len(c)
    BY <1>2, <1>5
  <2> QED BY <1>3, <2>1
<1> QED BY <1>2, <1>3, <1>4, <1>5 DEF c

\* Nothing is received of a stream that has nothing in it.
LEMMA LinkedToNothing ==
  ASSUME NEW b, IsNetBuffer(b), NEW p \in Seq(Cells), NEW e, NEW s, Linked(b, p, e, s, <<>>)
  PROVE  Size(b) = 0
<1> DEFINE c == Contents(b)
           cp == c \o p
<1>1. PICK r \in Seq(Cells) : Joined(c, p, r, <<>>)
  BY DEF Linked
<1>2. c \in Seq(Cells) /\ Len(c) = Size(b)
  BY NetBuffers
<1> HIDE DEF c
<1>3. cp \in Seq(Cells) /\ Len(cp) = Len(c) + Len(p)
  BY <1>2, ConcatProperties
<1>4. cp \o r = <<>>
  BY <1>1 DEF Joined
<1> HIDE DEF cp
<1>5. Len(cp \o r) = Len(cp) + Len(r)
  BY <1>3, ConcatProperties
<1>6. Len(c) \in Nat /\ Len(p) \in Nat /\ Len(r) \in Nat /\ Len(cp \o r) = 0
  BY <1>2, <1>4
<1> QED BY <1>2, <1>3, <1>5, <1>6

(***************************************************************************)
(* The invariant of the stream.                                            *)
(***************************************************************************)
Chain(i) == Linked(receiveBuffer, pipe[i], serverEnd[i], sendBuffer[i], Undelivered(i))

\* Every packet that was accepted fits in a buffer.
Fit ==
  \A i \in Connections : \A n \in 1 .. Len(accepted[i]) :
    HeaderSize + LengthOf[accepted[i][n]] <= BufferSize

\* No connection delivers what it has not accepted.
Behind == \A i \in Sound : Len(delivered[i]) <= Len(accepted[i])

\* As long as a sound connection lasts, its stream is in one piece.
Flow == \A i \in Sound : Running /\ ~HungUp(i) => Chain(i)

\* What StreamIntact calls undelivered.
LEMMA UndeliveredIs ==
  ASSUME NEW i \in Connections
  PROVE  Undelivered(i) = Rest(accepted[i], Len(delivered[i]))
BY DEF Undelivered, Rest

\* What the client finds where it looks for a header.
LEMMA FirstPacket ==
  ASSUME Frame, Fit, Behind, Flow, Doing("processing"), client.conn \in Sound,
         Len(Header) = HeaderSize
  PROVE  LET i == client.conn
             d == Len(delivered[i])
             m == accepted[i][d + 1]
         IN  /\ d < Len(accepted[i]) /\ m \in Messages
             /\ IsMagic /\ PacketLength = LengthOf[m]
             /\ PacketSize = Len(Packet(m)) /\ PacketSize <= BufferSize
             /\ Undelivered(i) = Packet(m) \o Rest(accepted[i], d + 1)
<1> DEFINE i == client.conn
           acc == accepted[i]
           d == Len(delivered[i])
           m == acc[d + 1]
           b == receiveBuffer
           c == Contents(b)
<1>1. /\ i \in Connections /\ acc \in Seq(Messages) /\ pipe[i] \in Seq(Cells)
      /\ delivered[i] \in Seq({0} \cup Messages)
      /\ IsNetBuffer(b) /\ d <= Len(acc)
  BY DEF Sound, Frame, HistoryTyped, PipeTyped, ReceiveTyped, Behind
<1>2. d \in 0 .. Len(acc) /\ d \in Nat /\ Len(acc) \in Nat
  <2>1. d \in Nat /\ Len(acc) \in Nat
    BY <1>1
  <2> HIDE DEF d, acc
  <2> QED BY <1>1, <2>1
<1>3. Chain(i)
  BY DEF Flow, Doing, ClientIs, HungUp
<1>4. Linked(b, pipe[i], serverEnd[i], sendBuffer[i], Rest(acc, d))
  BY <1>1, <1>3, UndeliveredIs DEF Chain
<1>5. /\ Size(b) \in Nat /\ Size(b) >= 2 /\ c \in Seq(Cells) /\ Len(c) = Size(b)
      /\ \A j \in 1 .. 2 : Header[j] = c[j]
  <2>1. Len(Header) = Lesser(Size(b), 2)
    BY HeaderIs DEF Frame, HeaderSize
  <2>2. Size(b) \in Nat /\ c \in Seq(Cells) /\ Len(c) = Size(b)
    BY <1>1, NetBuffers
  <2>3. Lesser(Size(b), 2) = 2
    BY <2>1 DEF HeaderSize
  <2>4. Size(b) >= 2
    BY <2>2, <2>3 DEF Lesser
  <2>5. IsBuffer(b, BufferSize, Cells) /\ BufferSize \in Nat \ {0} /\ 2 \in Nat
    BY <1>1, NetBuffers
  <2>6. \A j \in 1 .. Lesser(Size(b), 2) : Peek(b, 2)[j] = Contents(b)[j]
    <3> HIDE DEF b, c
    <3> QED BY <2>5, PeekIs
  <2> QED BY <2>2, <2>3, <2>4, <2>6 DEF Header, HeaderSize
<1> HIDE DEF i, acc, d, b, c
<1>6. d < Len(acc)
  <2>1. ASSUME d = Len(acc) PROVE FALSE
    <3>1. Rest(acc, d) = <<>>
      BY <1>1, <1>2, <2>1, RestIs
    <3>2. Size(b) = 0
      BY <1>1, <1>4, <3>1, LinkedToNothing
    <3> QED BY <1>5, <3>2
  <2> QED BY <1>2, <2>1
<1>7. m \in Messages /\ Rest(acc, d) = Packet(m) \o Rest(acc, d + 1)
  BY <1>1, <1>2, <1>6, RestIs
<1>8. d + 1 \in 0 .. Len(acc) /\ Rest(acc, d + 1) \in Seq(Cells)
  <2>1. d + 1 \in 0 .. Len(acc)
    BY <1>2, <1>6
  <2> QED BY <1>1, <2>1, RestIs
<1> HIDE DEF m
<1> DEFINE x == Packet(m)
           u == Rest(acc, d + 1)
<1>9. /\ x \in Seq(Cells) /\ Len(x) = 2 + LengthOf[m] /\ LengthOf[m] \in Nat
      /\ \A n \in 1 .. 2 + LengthOf[m] : x[n] = <<m, n>>
  BY <1>7, PacketIs, MessagesAre DEF HeaderSize
<1>10. \A j \in 1 .. Len(x) : j <= Size(b) => x[j] = c[j]
  <2>1. Linked(b, pipe[i], serverEnd[i], sendBuffer[i], x \o u)
    BY <1>4, <1>7
  <2> HIDE DEF x, u
  <2> QED BY <1>1, <1>8, <1>9, <2>1, LinkedFirst DEF c, u
<1>11. Header[1] = <<m, 1>> /\ Header[2] = <<m, 2>>
  <2>1. 1 \in 1 .. Len(x) /\ 2 \in 1 .. Len(x) /\ 1 <= Size(b) /\ 2 <= Size(b)
    BY <1>5, <1>9
  <2> HIDE DEF x
  <2> QED BY <1>5, <1>9, <1>10, <2>1
<1>12. IsMagic /\ PacketLength = LengthOf[m]
  <2>1. <<m, 2>> # <<0, 0>> /\ <<m, 2>>[1] = m /\ <<m, 2>>[2] = 2 /\ <<m, 1>>[2] = 1
    OBVIOUS
  <2>2. ~(Len(Header) < HeaderSize)
    BY DEF HeaderSize
  <2> QED BY <1>11, <2>1, <2>2 DEF IsMagic, PacketLength, HeaderLength
<1>13. PacketSize = Len(x) /\ PacketSize <= BufferSize
  <2>1. PacketSize = 2 + LengthOf[m]
    BY <1>12 DEF PacketSize, HeaderSize
  <2>2. d + 1 \in 1 .. Len(acc)
    BY <1>2, <1>6
  <2>3. 2 + LengthOf[m] <= BufferSize
    BY <1>1, <2>2 DEF Fit, HeaderSize, acc, m
  <2> QED BY <1>9, <2>1, <2>3
<1>14. Undelivered(i) = Rest(acc, d)
  BY <1>1, UndeliveredIs DEF acc, d
<1> QED BY <1>6, <1>7, <1>12, <1>13, <1>14 DEF i, d, acc, m

\* The packet that is processed is the next one.
LEMMA NextPacket ==
  ASSUME Frame, Fit, Behind, Flow, ProcessPacket, client.conn \in Sound
  PROVE  LET i == client.conn
             d == Len(delivered[i])
             m == accepted[i][d + 1]
         IN  /\ i \in Connections /\ d < Len(accepted[i]) /\ m \in Messages
             /\ MessageAt(Unwrapped) = m
             /\ Len(Packet(m)) \in 1 .. Size(receiveBuffer)
             /\ receiveBuffer' = EndConsume(receiveBuffer, Len(Packet(m)))
             /\ Undelivered(i) = Packet(m) \o Rest(accepted[i], d + 1)
<1> DEFINE i == client.conn
           d == Len(delivered[i])
           m == accepted[i][d + 1]
           b == receiveBuffer
           x == Packet(m)
           u == Rest(accepted[i], d + 1)
<1>1. /\ Doing("processing") /\ PacketLength # 0 /\ ~(Size(b) < PacketSize) /\ IsMagic
      /\ Readable(Unwrapped) >= PacketSize /\ b' = EndConsume(Unwrapped, PacketSize)
  BY DEF ProcessPacket, NoPacket
<1>2. Len(Header) = HeaderSize
  <2>1. Len(Header) = Lesser(Size(b), 2) /\ Size(b) \in Nat
    BY HeaderIs, NetBuffers DEF Frame, HeaderSize, ReceiveTyped
  <2>2. ~(Len(Header) < 2)
    BY <1>1 DEF PacketLength, HeaderSize
  <2> QED BY <2>1, <2>2 DEF Lesser, HeaderSize
<1>3. /\ d < Len(accepted[i]) /\ m \in Messages /\ PacketLength = LengthOf[m]
      /\ PacketSize = Len(x) /\ Undelivered(i) = x \o u
  BY <1>1, <1>2, FirstPacket
<1>4. /\ i \in Connections /\ IsNetBuffer(b) /\ accepted[i] \in Seq(Messages)
      /\ delivered[i] \in Seq({0} \cup Messages) /\ pipe[i] \in Seq(Cells)
  BY DEF Sound, Frame, HistoryTyped, PipeTyped, ReceiveTyped
<1>5. u \in Seq(Cells)
  <2>1. d + 1 \in 0 .. Len(accepted[i])
    BY <1>3, <1>4
  <2> QED BY <1>4, <2>1, RestIs
<1>6. Unwrapped = b
  <2>1. Readable(Unwrapped) \in 0 .. Size(Unwrapped) /\ Size(Unwrapped) \in 0 .. BufferSize
        /\ PacketSize \in Nat
    BY UnwrappedIs, NetBuffers, HeaderIs DEF Frame, HeaderSize
  <2>2. PacketSize <= Readable(Unwrapped)
    BY <1>1, <2>1
  <2> QED BY <2>2, UnwrappedIs DEF Frame
<1>7. /\ x \in Seq(Cells) /\ Len(x) = 2 + LengthOf[m] /\ LengthOf[m] \in Nat /\ LengthOf[m] # 0
      /\ \A n \in 1 .. 2 + LengthOf[m] : x[n] = <<m, n>>
  BY <1>1, <1>3, PacketIs, MessagesAre DEF HeaderSize
<1>8. /\ Len(x) \in 1 .. Size(b) /\ Len(x) \in 0 .. Readable(b) /\ 2 \in 0 .. Len(x)
      /\ Size(b) \in Nat /\ BufferSize \in Nat \ {0} /\ IsBuffer(b, BufferSize, Cells)
  <2>1. Readable(b) \in 0 .. Size(b) /\ Size(b) \in Nat /\ Readable(b) >= Len(x)
        /\ BufferSize \in Nat \ {0} /\ IsBuffer(b, BufferSize, Cells)
    BY <1>1, <1>3, <1>4, <1>6, NetBuffers
  <2> HIDE DEF x, b
  <2> QED BY <1>7, <2>1
<1>9. SubSeq(Contents(b), 1, Len(x)) = x
  <2>1. Linked(b, pipe[i], serverEnd[i], sendBuffer[i], x \o u)
    BY <1>1, <1>3 DEF Flow, Chain, Doing, ClientIs, HungUp
  <2>2. x \in Seq(Cells) /\ Len(x) \in 1 .. Size(b)
    BY <1>7, <1>8
  <2> HIDE DEF x, u, b
  <2>3. Len(x) \in 1 .. Size(b) => /\ SubSeq(Contents(b), 1, Len(x)) = x
                                   /\ Linked(EndConsume(b, Len(x)), pipe[i], serverEnd[i], sendBuffer[i], u)
    BY <1>4, <1>5, <2>1, <2>2, LinkedFirst
  <2> QED BY <2>2, <2>3
<1>10. MessageAt(b) = m
  <2> DEFINE k == Len(x)
             c == Contents(b)
             cells == SubSeq(b.cells, b.read + 2 + 1, b.read + k)
  <2>1. cells = SubSeq(c, 3, k)
    <3>1. SubSeq(b.cells, b.read + 2 + 1, b.read + k) = SubSeq(c, 2 + 1, k)
      <4> HIDE DEF b, x
      <4> QED BY <1>8, ReadableCells
    <3>2. 2 + 1 = 3
      OBVIOUS
    <3> QED BY <3>1, <3>2
  <2>2. SubSeq(c, 3, k) = SubSeq(x, 3, k)
    <3>1. c \in Seq(Cells) /\ Len(c) = Size(b)
      BY <1>4, NetBuffers
    <3>2. k \in 1 .. Len(c)
      BY <1>8, <3>1
    <3> HIDE DEF b, x, c
    <3> DEFINE y == SubSeq(c, 1, k)
    <3>3. y = x /\ \A j \in 1 .. k : y[j] = c[j]
      BY <1>9, <3>1, <3>2 DEF c
    <3>4. \A j \in 1 .. k : x[j] = c[j]
      BY <3>3
    <3>5. k \in Nat /\ k >= 2 /\ x \in Seq(Cells) /\ Len(x) = k
      BY <1>7
    <3> HIDE DEF k, y
    <3> DEFINE v == SubSeq(c, 3, k)
               w == SubSeq(x, 3, k)
    <3>6. v \in Seq(Cells) /\ Len(v) = k - 2 /\ \A j \in 1 .. k - 2 : v[j] = c[j + 2]
      BY <3>1, <3>2, <3>5
    <3>7. w \in Seq(Cells) /\ Len(w) = k - 2 /\ \A j \in 1 .. k - 2 : w[j] = x[j + 2]
      BY <3>5
    <3> HIDE DEF v, w
    <3>8. \A j \in 1 .. k - 2 : j + 2 \in 1 .. k
      BY <3>5
    <3>9. \A j \in 1 .. k - 2 : v[j] = w[j]
      BY <3>4, <3>6, <3>7, <3>8
    <3>10. v = w
      BY <3>6, <3>7, <3>9, SeqEqual
    <3> QED BY <3>10 DEF v, w
  <2>3. cells = Payload(m)
    <3>1. Payload(m) = SubSeq(x, 2 + 1, 2 + LengthOf[m]) /\ 2 + 1 = 3
      BY DEF Payload, HeaderSize
    <3>2. k = 2 + LengthOf[m]
      BY <1>7
    <3> HIDE DEF cells, k, x, c, m
    <3> QED BY <2>1, <2>2, <3>1, <3>2
  <2>4. cells[1][1] = m
    <3>1. 3 \in 1 .. 2 + LengthOf[m] /\ k \in Nat /\ 3 \in 1 .. k
      BY <1>7
    <3>2. SubSeq(x, 3, k)[1] = x[3]
      <4>1. x \in Seq(Cells) /\ k = Len(x)
        BY <1>7
      <4> HIDE DEF x
      <4> QED BY <3>1, <4>1
    <3>3. cells[1] = <<m, 3>>
      BY <1>7, <2>1, <2>2, <3>1, <3>2
    <3>4. <<m, 3>>[1] = m
      OBVIOUS
    <3> QED BY <3>3, <3>4
  <2>5. HeaderSize = 2 /\ PacketSize = k
    BY <1>3 DEF HeaderSize
  <2>6. MessageAt(b) = IF cells[1][1] \in Messages /\ cells = Payload(cells[1][1])
                       THEN cells[1][1] ELSE 0
    BY <2>5 DEF MessageAt
  <2> HIDE DEF cells
  <2> QED BY <1>3, <2>3, <2>4, <2>6
<1> QED BY <1>1, <1>3, <1>4, <1>6, <1>8, <1>10

\* What Spoil does.
LEMMA SpoilIs ==
  ASSUME HistoryTyped, NEW i \in Connections, NEW where, NEW really \in BOOLEAN,
         Spoil(i, where, really)
  PROVE  /\ DOMAIN spoilt' = Connections
         /\ \A j \in Connections :
              spoilt'[j] # spoilt[j] =>
                j = i /\ really /\ spoilt[i] = "nowhere" /\ spoilt'[i] = where
         /\ really /\ spoilt[i] = "nowhere" => spoilt'[i] = where
<1>1. spoilt' = [spoilt EXCEPT ![i] = IF really /\ spoilt[i] = "nowhere" THEN where
                                      ELSE spoilt[i]]
  BY DEF Spoil
<1> QED BY <1>1 DEF HistoryTyped

\* Spoil with its arguments in range.
Spoils(i, where, really) ==
  /\ i \in Connections /\ where # "nowhere" /\ really \in BOOLEAN /\ Spoil(i, where, really)

\* Where a connection is spoilt.
LEMMA SpoilChanges ==
  ASSUME Frame, Next
  PROVE  \/ UNCHANGED spoilt
         \/ ReceiveNothing /\ Spoils(client.conn, "receive", IsEmpty(receiveBuffer))
         \/ ProcessEnds /\ Spoils(client.conn, "partial", PacketLength # 0 /\ receiveBuffer.full)
         \/ SendDropped /\ Spoils(Conn, "send", IsEmpty(sendBuffer[Conn]))
         \/ FlushBlocks /\ Spoils(Conn, "flush", sendBuffer[Conn].full)
<1>1. CASE ReceiveNothing
  <2>1. Spoil(client.conn, "receive", IsEmpty(receiveBuffer)) /\ client.state = "connected"
    BY <1>1 DEF ReceiveNothing, Doing, ClientIs
  <2>2. client.conn \in Connections /\ IsEmpty(receiveBuffer) \in BOOLEAN
    BY <2>1 DEF Frame, ClientTyped, IsEmpty
  <2> QED BY <1>1, <2>1, <2>2 DEF Spoils
<1>2. CASE ProcessEnds
  <2> DEFINE really == PacketLength # 0 /\ receiveBuffer.full
  <2>1. Spoil(client.conn, "partial", really) /\ client.state = "connected"
    BY <1>2 DEF ProcessEnds, Doing, ClientIs
  <2>2. client.conn \in Connections /\ really \in BOOLEAN
    BY <2>1 DEF Frame, ClientTyped
  <2> HIDE DEF really
  <2>3. Spoils(client.conn, "partial", really)
    BY <2>1, <2>2 DEF Spoils
  <2> QED BY <1>2, <2>3 DEF really
<1>3. CASE SendDropped
  <2>1. Spoil(Conn, "send", IsEmpty(sendBuffer[Conn])) /\ agenda # <<>> /\ Head(agenda).call \in IO
    BY <1>3 DEF SendDropped, Todo, IO
  <2>2. Conn \in Connections /\ IsEmpty(sendBuffer[Conn]) \in BOOLEAN
    BY <2>1, ConnIsConnected DEF Frame, IsEmpty
  <2> QED BY <1>3, <2>1, <2>2 DEF Spoils
<1>4. CASE FlushBlocks
  <2>1. Spoil(Conn, "flush", sendBuffer[Conn].full) /\ agenda # <<>> /\ Head(agenda).call \in IO
    BY <1>4 DEF FlushBlocks, Todo, IO
  <2>2. Conn \in Connections
    BY <2>1, ConnIsConnected DEF Frame
  <2>3. IsNetBuffer(sendBuffer[Conn])
    BY <2>2 DEF Frame, SendTyped
  <2>4. sendBuffer[Conn].full \in BOOLEAN
    BY <2>3 DEF IsNetBuffer, IsBuffer
  <2> QED BY <1>4, <2>1, <2>2, <2>4 DEF Spoils
<1>5. CASE UNCHANGED history
  BY <1>5 DEF history
<1>6. CASE ProcessPacket \/ SendWrites \/ \E m \in Messages : Broadcast(m)
  BY <1>6 DEF ProcessPacket, SendWrites, Broadcast
<1> QED BY <1>1, <1>2, <1>3, <1>4, <1>5, <1>6, HistoryChanges

\* What was spoilt stays so.
LEMMA SoundShrinks == ASSUME Frame, Next PROVE Sound' \subseteq Sound
<1> SUFFICES ASSUME NEW j \in Connections, spoilt'[j] = "nowhere" PROVE spoilt[j] = "nowhere"
  BY DEF Sound
<1>1. ASSUME NEW i, NEW where, NEW really, Spoils(i, where, really) PROVE spoilt[j] = "nowhere"
  <2>1. spoilt'[j] # spoilt[j] => spoilt'[i] = where /\ j = i
    BY <1>1, SpoilIs DEF Spoils, Frame
  <2> QED BY <1>1, <2>1 DEF Spoils
<1> QED BY <1>1, SpoilChanges

\* A packet is accepted only if a buffer has room for it.
LEMMA FitKept == ASSUME Frame, Fit, Next PROVE Fit'
<1>1. CASE UNCHANGED accepted
  BY <1>1 DEF Fit
<1>2. CASE SendWrites
  <2> DEFINE m == Head(agenda).message
             j == Conn
  <2>1. accepted' = [accepted EXCEPT ![j] = Append(accepted[j], m)]
    BY <1>2 DEF SendWrites
  <2>2. /\ j \in Connections /\ m \in Messages /\ IsNetBuffer(sendBuffer[j])
        /\ Len(Packet(m)) \in 1 .. Free(sendBuffer[j])
    BY <1>2, PacketToWrite DEF Frame
  <2>3. /\ Free(sendBuffer[j]) = BufferSize - Size(sendBuffer[j]) /\ BufferSize \in Nat
        /\ Size(sendBuffer[j]) \in 0 .. BufferSize
    BY <2>2, NetBuffers
  <2>4. Len(Packet(m)) = HeaderSize + LengthOf[m]
    BY <2>2, PacketIs
  <2>5. HeaderSize + LengthOf[m] <= BufferSize
    BY <2>2, <2>3, <2>4
  <2>6. accepted[j] \in Seq(Messages) /\ DOMAIN accepted = Connections
    BY <2>2 DEF Frame, HistoryTyped
  <2> SUFFICES ASSUME NEW i \in Connections, NEW n \in 1 .. Len(accepted'[i])
               PROVE  HeaderSize + LengthOf[accepted'[i][n]] <= BufferSize
    BY DEF Fit
  <2> HIDE DEF m, j
  <2>7. CASE i # j
    BY <2>1, <2>6, <2>7 DEF Fit
  <2>8. CASE i = j
    <3>1. /\ accepted'[i] = Append(accepted[j], m) /\ Len(accepted'[i]) = Len(accepted[j]) + 1
          /\ accepted'[i][Len(accepted[j]) + 1] = m
          /\ \A l \in 1 .. Len(accepted[j]) : accepted'[i][l] = accepted[j][l]
      BY <2>1, <2>2, <2>6, <2>8, AppendProperties
    <3>2. n \in 1 .. Len(accepted[j]) \/ n = Len(accepted[j]) + 1
      BY <2>6, <3>1
    <3> QED BY <2>2, <2>5, <3>1, <3>2 DEF Fit
  <2> QED BY <2>7, <2>8
<1>3. CASE UNCHANGED history \/ ReceiveNothing \/ ProcessEnds \/ ProcessPacket \/ SendDropped
           \/ FlushBlocks \/ \E m \in Messages : Broadcast(m)
  BY <1>1, <1>3 DEF history, ReceiveNothing, ProcessEnds, ProcessPacket, SendDropped,
                    FlushBlocks, Broadcast
<1> QED BY <1>2, <1>3, HistoryChanges

\* Nothing is delivered that was not accepted.
LEMMA BehindKept == ASSUME Frame, Fit, Behind, Flow, Next PROVE Behind'
<1> SUFFICES ASSUME NEW i \in Sound' PROVE Len(delivered'[i]) <= Len(accepted'[i])
  BY DEF Behind
<1>1. i \in Sound /\ i \in Connections
  BY SoundShrinks DEF Sound
<1>2. /\ accepted[i] \in Seq(Messages) /\ delivered[i] \in Seq({0} \cup Messages)
      /\ Len(delivered[i]) <= Len(accepted[i])
      /\ DOMAIN accepted = Connections /\ DOMAIN delivered = Connections
  BY <1>1 DEF Frame, HistoryTyped, Behind
<1>3. CASE UNCHANGED <<accepted, delivered>>
  BY <1>2, <1>3
<1>4. CASE SendWrites
  <2> DEFINE m == Head(agenda).message
             j == Conn
  <2>1. accepted' = [accepted EXCEPT ![j] = Append(accepted[j], m)] /\ delivered' = delivered
    BY <1>4 DEF SendWrites
  <2>2. j \in Connections /\ m \in Messages
    BY <1>4, PacketToWrite DEF Frame
  <2> HIDE DEF m, j
  <2>3. CASE i # j
    BY <1>1, <1>2, <2>1, <2>3
  <2>4. CASE i = j
    <3>1. accepted'[i] = Append(accepted[i], m)
      BY <1>1, <1>2, <2>1, <2>4
    <3>2. Len(Append(accepted[i], m)) = Len(accepted[i]) + 1
      BY <1>2, <2>2, AppendProperties
    <3>3. Len(delivered[i]) \in Nat /\ Len(accepted[i]) \in Nat
      BY <1>2
    <3> QED BY <1>2, <2>1, <3>1, <3>2, <3>3
  <2> QED BY <2>3, <2>4
<1>5. CASE ProcessPacket
  <2> DEFINE j == client.conn
             m == MessageAt(Unwrapped)
  <2>1. delivered' = [delivered EXCEPT ![j] = Append(delivered[j], m)] /\ accepted' = accepted
    BY <1>5 DEF ProcessPacket
  <2>2. CASE i # j
    BY <1>1, <1>2, <2>1, <2>2
  <2>3. CASE i = j
    <3>1. Len(delivered[i]) < Len(accepted[i]) /\ m \in Messages
      BY <1>1, <1>5, <2>3, NextPacket
    <3> HIDE DEF m, j
    <3>2. delivered'[i] = Append(delivered[i], m)
      BY <1>1, <1>2, <2>1, <2>3
    <3>3. Len(Append(delivered[i], m)) = Len(delivered[i]) + 1
      BY <1>2, <3>1, AppendProperties
    <3>4. Len(delivered[i]) \in Nat /\ Len(accepted[i]) \in Nat
      BY <1>2
    <3> QED BY <2>1, <3>1, <3>2, <3>3, <3>4
  <2> QED BY <2>2, <2>3
<1>6. CASE UNCHANGED history \/ ReceiveNothing \/ ProcessEnds \/ SendDropped
           \/ FlushBlocks \/ \E m \in Messages : Broadcast(m)
  BY <1>3, <1>6 DEF history, ReceiveNothing, ProcessEnds, SendDropped, FlushBlocks, Broadcast
<1> QED BY <1>4, <1>5, <1>6, HistoryChanges

\* process() finds a header at the front in every step, or has not looked.
LEMMA HeadersKept ==
  ASSUME Frame, Fit, Behind, Flow, HeadersFound, Next
  PROVE  HeadersFound'
<1> SUFFICES ASSUME failed' = "magic" PROVE Connections # Sound'
  BY DEF HeadersFound
<1>1. CASE failed = "magic"
  <2>1. \E j \in Connections : j \notin Sound
    BY <1>1 DEF HeadersFound, Sound
  <2> QED BY <2>1, SoundShrinks
<1>2. CASE HeaderRefused
  <2>1. /\ Doing("processing") /\ Len(Header) = HeaderSize /\ ~IsMagic
        /\ client.conn \in Connections
    BY <1>2 DEF HeaderRefused, Doing, ClientIs, Frame, ClientTyped
  <2>2. client.conn \notin Sound
    BY <2>1, FirstPacket
  <2> QED BY <2>1, <2>2, SoundShrinks
<1>3. CASE failed' = failed
  BY <1>1, <1>3
<1>4. CASE WrapRefused
  BY <1>4 DEF WrapRefused
<1>5. HeaderRefused \/ WrapRefused \/ failed' = failed
  <2>1. CASE ClientOpens \/ Connected \/ ConnectFails
    BY <2>1 DEF ClientOpens, Connect, Disconnect, Connected, ConnectFails
  <2>2. CASE ClientReceives
    BY <2>2 DEF ClientReceives, ReceiveBegins, ReceiveWhenFull, ReceiveSome, ReceiveNothing,
                ReceiveEnd, ProcessEnds, ProcessPacket
  <2> QED BY <2>1, <2>2, ClientChanges
<1> QED BY <1>2, <1>3, <1>4, <1>5

\* No part of a packet is thrown away on a sound connection.
LEMMA PartialsKept ==
  ASSUME Frame, Fit, Behind, Flow, PartialPacketsKept, Next
  PROVE  PartialPacketsKept'
<1> SUFFICES ASSUME NEW j \in Connections PROVE spoilt'[j] # "partial"
  BY DEF PartialPacketsKept
<1>1. spoilt[j] # "partial"
  BY DEF PartialPacketsKept
<1>2. ASSUME NEW i, NEW where, NEW really, Spoils(i, where, really), where # "partial"
      PROVE  spoilt'[j] # "partial"
  <2>1. spoilt'[j] # spoilt[j] => spoilt'[i] = where /\ j = i
    BY <1>2, SpoilIs DEF Spoils, Frame
  <2> QED BY <1>1, <1>2, <2>1
<1>3. ASSUME ProcessEnds,
             Spoils(client.conn, "partial", PacketLength # 0 /\ receiveBuffer.full),
             spoilt'[j] # spoilt[j]
      PROVE  FALSE
  <2> DEFINE i == client.conn
             really == PacketLength # 0 /\ receiveBuffer.full
  <2>1. j = i /\ really /\ spoilt[i] = "nowhere"
    <3>1. i \in Connections /\ really \in BOOLEAN /\ Spoil(i, "partial", really)
      BY <1>3 DEF Spoils
    <3> HIDE DEF i, really
    <3> QED BY <1>3, <3>1, SpoilIs DEF Frame
  <2>2. i \in Sound /\ Doing("processing") /\ NoPacket /\ PacketLength # 0 /\ receiveBuffer.full
    BY <1>3, <2>1 DEF ProcessEnds, Sound
  <2>3. /\ Size(receiveBuffer) \in 0 .. BufferSize /\ BufferSize \in Nat
        /\ Size(receiveBuffer) = BufferSize
    <3>1. IsNetBuffer(receiveBuffer)
      BY DEF Frame, ReceiveTyped
    <3>2. IsBuffer(receiveBuffer, BufferSize, Cells) /\ BufferSize \in Nat \ {0}
      BY <3>1, NetBuffers
    <3> QED BY <2>2, <3>2, SizeOfBuffer
  <2>4. Len(Header) = HeaderSize
    <3>1. Len(Header) = Lesser(Size(receiveBuffer), 2)
      BY HeaderIs DEF Frame, HeaderSize
    <3>2. ~(Len(Header) < 2)
      BY <2>2 DEF PacketLength, HeaderSize
    <3> QED BY <2>3, <3>1, <3>2 DEF Lesser, HeaderSize
  <2>5. PacketSize <= BufferSize
    BY <2>2, <2>4, FirstPacket
  <2>6. Size(receiveBuffer) < PacketSize /\ PacketSize \in Nat
    BY <2>2, HeaderIs DEF NoPacket, Frame, HeaderSize
  <2> QED BY <2>3, <2>5, <2>6
<1> QED BY <1>1, <1>2, <1>3, SpoilChanges

\* The client's connection in a step that leaves it open.
LEMMA StillOpen ==
  ASSUME Frame, Next, ~Connect, Running', client'.state # "closed", client'.conn \in Sound'
  PROVE  /\ Running /\ client.state # "closed" /\ client.conn \in Sound
         /\ client'.conn = client.conn
<1>1. client'.conn = client.conn
  BY ConnChanges DEF Frame
<1>2. client.conn \in Sound
  BY <1>1, SoundShrinks
<1>3. Running /\ client.state # "closed"
  <2>1. CASE UNCHANGED <<client, receiveBuffer, failed>>
    BY <2>1 DEF Running
  <2>2. CASE Disconnect \/ Connected \/ ConnectFails
    BY <2>2 DEF Disconnect, Connected, ConnectFails, ClientIs
  <2>3. CASE ClientReceives
    BY <2>3 DEF ClientReceives, ReceiveBegins, ReceiveWhenFull, ReceiveSome, ReceiveNothing,
                ReceiveEnd, HeaderRefused, ProcessEnds, ProcessPacket, WrapRefused, Doing, ClientIs
  <2> QED BY <2>1, <2>2, <2>3, ClientChanges DEF ClientOpens
<1> QED BY <1>1, <1>2, <1>3

\* A stream stays what it is when the server's end is closed.
LEMMA LinkedStays ==
  ASSUME NEW b, NEW p, NEW e, NEW s, NEW u, Linked(b, p, e, s, u),
         NEW f, NEW t, f # "closed" => e # "closed" /\ t = s
  PROVE  Linked(b, p, f, t, u)
BY DEF Linked

\* Nothing is linked to nothing.
LEMMA LinkedAtStart ==
  ASSUME NEW e
  PROVE  Linked(NoBuffer, <<>>, e, NoBuffer, <<>>)
<1>1. Contents(NoBuffer) = <<>>
  BY NoBufferIs
<1>2. <<>> \in Seq(Cells) /\ (<<>> \o <<>>) \o <<>> = <<>>
  OBVIOUS
<1>3. Joined(<<>>, <<>>, <<>>, <<>>)
  BY <1>2 DEF Joined
<1> QED BY <1>1, <1>2, <1>3 DEF Linked

\* A connection that stays open, in a step that takes nothing from its stream and
\* puts nothing into it.
LEMMA ChainStays ==
  ASSUME NEW i \in Connections, Chain(i), UNCHANGED <<receiveBuffer, accepted, delivered>>,
         pipe'[i] = pipe[i],
         serverEnd'[i] # "closed" =>
           serverEnd[i] # "closed" /\ sendBuffer'[i] = sendBuffer[i]
  PROVE  Chain(i)'
<1>1. Undelivered(i)' = Undelivered(i)
  BY DEF Undelivered
<1>2. Linked(receiveBuffer, pipe[i], serverEnd'[i], sendBuffer'[i], Undelivered(i))
  BY LinkedStays DEF Chain
<1> QED BY <1>1, <1>2 DEF Chain

\* The client's connection, open and in one piece.
Steady(i) ==
  /\ i \in Connections /\ i \in Sound /\ i = client.conn /\ Chain(i)
  /\ Running /\ client.state # "closed"

\* The steps of the server and of the system that carries its calls.
ServerStep ==
  ConnectAgain \/ Listen \/ Stop \/ Poll \/ ServerGoesOn \/ \E m \in Messages : Broadcast(m)

\* What the server's steps, and the system's, leave alone.
LEMMA ServerStepIs ==
  ASSUME ClientTyped, ServerStep
  PROVE  /\ Next /\ ~Connect /\ UNCHANGED receiveBuffer
         /\ \/ UNCHANGED <<sendBuffer, pipe, accepted, delivered>>
            \/ Stop \/ ServerReceivesEnd \/ FlushFails
            \/ SendDropped \/ SendWrites \/ FlushSome \/ FlushBlocks
<1>1. Next
  BY DEF ServerStep, Next, ClientConnects
<1>2. ASSUME UNCHANGED client PROVE ~Connect
  BY <1>2 DEF Connect, ClientIs, ClientTyped
<1>3. CASE ConnectAgain \/ Listen \/ Stop \/ Poll \/ \E m \in Messages : Broadcast(m)
  <2>1. UNCHANGED <<client, receiveBuffer>>
    BY <1>3 DEF ConnectAgain, Listen, Stop, Poll, Broadcast
  <2>2. Stop \/ UNCHANGED <<sendBuffer, pipe, accepted, delivered>>
    BY <1>3 DEF ConnectAgain, Listen, Poll, Broadcast, history
  <2> QED BY <1>1, <1>2, <2>1, <2>2
<1>4. CASE ServerGoesOn
  <2>1. UNCHANGED <<client, receiveBuffer>>
    BY <1>4 DEF ServerGoesOn, ServerReceivesEnd, Sweep, Accept, SendFlushes, SendDropped,
                SendWrites, FlushEnds, FlushSome, FlushBlocks, FlushFails
  <2>2. ~Connect
    BY <1>2, <2>1
  <2>3. CASE Sweep \/ Accept \/ SendFlushes \/ FlushEnds
    BY <1>1, <2>1, <2>2, <2>3 DEF Sweep, Accept, SendFlushes, FlushEnds, history
  <2> QED BY <1>1, <1>4, <2>1, <2>2, <2>3 DEF ServerGoesOn
<1> QED BY <1>3, <1>4 DEF ServerStep

\* The server's steps.
LEMMA ServerSteps ==
  ASSUME Frame, Fit, Behind, ServerStep, NEW i, Steady(i), i \in Sound'
  PROVE  Chain(i)'
<1>a. Next /\ ~Connect /\ UNCHANGED receiveBuffer
  BY ServerStepIs DEF Frame
<1>0. /\ i \in Connections /\ Chain(i) /\ serverEnd[i] \in Ends
      /\ DOMAIN sendBuffer = Connections /\ IsNetBuffer(sendBuffer[i])
      /\ DOMAIN pipe = Connections /\ pipe[i] \in Seq(Cells)
      /\ IsNetBuffer(receiveBuffer) /\ UNCHANGED receiveBuffer
      /\ DOMAIN accepted = Connections
      /\ accepted[i] \in Seq(Messages) /\ delivered[i] \in Seq({0} \cup Messages)
      /\ Len(delivered[i]) <= Len(accepted[i])
      /\ ~HungUp(i)
  BY <1>a DEF Steady, Frame, SendTyped, PipeTyped, ReceiveTyped, HistoryTyped, Behind,
              ServerTyped, HungUp
<1>1. serverEnd'[i] # "closed" => serverEnd[i] # "closed"
  BY <1>0, <1>a, EndsChange DEF Frame
<1>2. CASE UNCHANGED <<sendBuffer, pipe, accepted, delivered>>
  <2>1. pipe'[i] = pipe[i] /\ sendBuffer'[i] = sendBuffer[i]
    BY <1>2
  <2> QED BY <1>0, <1>1, <1>2, <2>1, ChainStays
<1>3. CASE Stop
  <2>1. UNCHANGED <<accepted, delivered, pipe>> /\ sendBuffer' = [j \in Connections |-> NoBuffer]
    BY <1>3 DEF Stop, history
  <2>2. serverEnd'[i] # "closed" => serverEnd[i] \in {"none", "refused"}
    BY <1>0, <1>3 DEF Stop, Ends
  <2>3. serverEnd'[i] # "closed" => sendBuffer[i] = NoBuffer
    BY <1>0, <2>2 DEF Frame, Idle, Unused
  <2>4. sendBuffer'[i] = NoBuffer /\ pipe'[i] = pipe[i]
    BY <1>0, <2>1
  <2>5. serverEnd'[i] # "closed" => serverEnd[i] # "closed" /\ sendBuffer'[i] = sendBuffer[i]
    BY <1>1, <2>3, <2>4
  <2> QED BY <1>0, <2>1, <2>4, <2>5, ChainStays
<1>4. CASE ServerReceivesEnd \/ FlushFails
  <2>1. UNCHANGED <<accepted, delivered, pipe>>
    BY <1>4 DEF ServerReceivesEnd, FlushFails, history
  <2>2. /\ serverEnd' = [serverEnd EXCEPT ![Conn] = "closed"]
        /\ sendBuffer' = [sendBuffer EXCEPT ![Conn] = NoBuffer]
    BY <1>4 DEF ServerReceivesEnd, FlushFails, CloseServerEnd
  <2>3. serverEnd'[i] # "closed" => serverEnd[i] # "closed" /\ sendBuffer'[i] = sendBuffer[i]
    BY <1>0, <2>2 DEF Frame, ServerTyped
  <2>4. pipe'[i] = pipe[i]
    BY <2>1
  <2> QED BY <1>0, <2>1, <2>3, <2>4, ChainStays
<1>5. CASE SendDropped
  <2>1. /\ UNCHANGED <<accepted, delivered, pipe>> /\ Conn \in Connections
        /\ sendBuffer' = [sendBuffer EXCEPT ![Conn] = EndProduce(sendBuffer[Conn], 0)]
        /\ Spoil(Conn, "send", IsEmpty(sendBuffer[Conn]))
    BY <1>5, ConnIsConnected DEF SendDropped, Todo, IO, Frame
  <2>2. sendBuffer'[i] = sendBuffer[i]
    <3>1. CASE i # Conn
      BY <1>0, <2>1, <3>1
    <3>2. CASE i = Conn
      <4>1. ~IsEmpty(sendBuffer[i])
        <5>1. IsEmpty(sendBuffer[i]) \in BOOLEAN /\ spoilt'[i] = "nowhere" /\ spoilt[i] = "nowhere"
          BY DEF IsEmpty, Sound, Steady
        <5>2. IsEmpty(sendBuffer[i]) /\ spoilt[i] = "nowhere" => spoilt'[i] = "send"
          <6> DEFINE really == IsEmpty(sendBuffer[i])
          <6>1. Spoil(i, "send", really) /\ really \in BOOLEAN
            BY <2>1, <3>2, <5>1
          <6> HIDE DEF really
          <6>2. really /\ spoilt[i] = "nowhere" => spoilt'[i] = "send"
            BY <1>0, <6>1, SpoilIs DEF Frame
          <6> QED BY <6>2 DEF really
        <5> QED BY <5>1, <5>2
      <4>2. EndProduce(sendBuffer[i], 0) = sendBuffer[i]
        BY <1>0, <4>1, MovedByNothing, NetBuffers
      <4> QED BY <1>0, <2>1, <3>2, <4>2
    <3> QED BY <3>1, <3>2
  <2>3. pipe'[i] = pipe[i]
    BY <2>1
  <2> QED BY <1>0, <1>1, <2>1, <2>2, <2>3, ChainStays
<1>6. CASE FlushBlocks
  <2>1. /\ UNCHANGED <<accepted, delivered, pipe>> /\ Conn \in Connections
        /\ sendBuffer' = [sendBuffer EXCEPT ![Conn] = EndConsume(sendBuffer[Conn], 0)]
        /\ Spoil(Conn, "flush", sendBuffer[Conn].full)
    BY <1>6, ConnIsConnected DEF FlushBlocks, Todo, IO, Frame
  <2>2. sendBuffer'[i] = sendBuffer[i]
    <3>1. CASE i # Conn
      BY <1>0, <2>1, <3>1
    <3>2. CASE i = Conn
      <4>1. ~sendBuffer[i].full
        <5>1. spoilt'[i] = "nowhere" /\ spoilt[i] = "nowhere"
          BY DEF Sound, Steady
        <5>2. sendBuffer[i].full \in BOOLEAN
          BY <1>0 DEF IsNetBuffer, IsBuffer
        <5>3. sendBuffer[i].full /\ spoilt[i] = "nowhere" => spoilt'[i] = "flush"
          <6> DEFINE really == sendBuffer[i].full
          <6>1. Spoil(i, "flush", really) /\ really \in BOOLEAN
            BY <2>1, <3>2, <5>2
          <6> HIDE DEF really
          <6>2. really /\ spoilt[i] = "nowhere" => spoilt'[i] = "flush"
            BY <1>0, <6>1, SpoilIs DEF Frame
          <6> QED BY <6>2 DEF really
        <5> QED BY <5>1, <5>3
      <4>2. EndConsume(sendBuffer[i], 0) = sendBuffer[i]
        BY <1>0, <4>1, MovedByNothing, NetBuffers
      <4> QED BY <1>0, <2>1, <3>2, <4>2
    <3> QED BY <3>1, <3>2
  <2>3. pipe'[i] = pipe[i]
    BY <2>1
  <2> QED BY <1>0, <1>1, <2>1, <2>2, <2>3, ChainStays
<1>7. CASE SendWrites
  <2> DEFINE m == Head(agenda).message
             x == Packet(m)
  <2>1. /\ UNCHANGED <<delivered, pipe, serverEnd>>
        /\ sendBuffer' = [sendBuffer EXCEPT ![Conn] = Written(sendBuffer[Conn], x)]
        /\ accepted' = [accepted EXCEPT ![Conn] = Append(accepted[Conn], m)]
    BY <1>7 DEF SendWrites
  <2>2. /\ Conn \in Connections /\ serverEnd[Conn] = "connected" /\ m \in Messages
        /\ x \in Seq(Cells) /\ Len(x) \in 1 .. Free(sendBuffer[Conn])
    BY <1>7, PacketToWrite DEF Frame
  <2> HIDE DEF m
  <2>3. CASE i # Conn
    <3>1. accepted'[i] = accepted[i] /\ delivered'[i] = delivered[i]
          /\ sendBuffer'[i] = sendBuffer[i] /\ pipe'[i] = pipe[i] /\ serverEnd'[i] = serverEnd[i]
      BY <1>0, <2>1, <2>3
    <3>2. Undelivered(i)' = Undelivered(i)
      BY <3>1 DEF Undelivered
    <3> QED BY <1>0, <3>1, <3>2 DEF Chain
  <2>4. CASE i = Conn
    <3> DEFINE acc == accepted[i]
               d == Len(delivered[i])
    <3>1. /\ accepted'[i] = Append(acc, m) /\ sendBuffer'[i] = Written(sendBuffer[i], x)
          /\ pipe'[i] = pipe[i] /\ serverEnd'[i] = serverEnd[i] /\ delivered'[i] = delivered[i]
      BY <1>0, <2>1, <2>4
    <3>2. acc \in Seq(Messages) /\ d \in 0 .. Len(acc)
      <4>1. acc \in Seq(Messages) /\ d <= Len(acc) /\ d \in Nat /\ Len(acc) \in Nat
        BY <1>0
      <4> QED BY <4>1
    <3>3. Undelivered(i) = Rest(acc, d)
      BY <1>0, UndeliveredIs
    <3>4. Undelivered(i)' = Rest(Append(acc, m), d)
      BY <3>1 DEF Undelivered, Rest
    <3> HIDE DEF acc, d
    <3>5. Rest(Append(acc, m), d) = Rest(acc, d) \o x
      BY <2>2, <3>2, RestIs
    <3> HIDE DEF x
    <3>6. serverEnd[i] # "closed" /\ Len(x) \in 1 .. Free(sendBuffer[i])
      BY <2>2, <2>4
    <3>7. Linked(receiveBuffer, pipe[i], serverEnd[i], sendBuffer[i], Rest(acc, d))
      BY <1>0, <3>3 DEF Chain
    <3>8. Linked(receiveBuffer, pipe[i], serverEnd[i], Written(sendBuffer[i], x),
                 Rest(acc, d) \o x)
      BY <1>0, <2>2, <3>6, <3>7, LinkedMore
    <3> QED BY <1>0, <3>1, <3>4, <3>5, <3>8 DEF Chain
  <2> QED BY <2>3, <2>4
<1>8. CASE FlushSome
  <2>1. Conn \in Connections /\ serverEnd[Conn] = "connected"
    BY <1>8, ConnIsConnected DEF FlushSome, Todo, IO, Frame
  <2>2. UNCHANGED <<accepted, delivered, serverEnd>>
    BY <1>8 DEF FlushSome, history
  <2> DEFINE q == sendBuffer[Conn]
  <2>3. PICK k \in 1 .. Lesser(Readable(q), Room(Conn)) :
           /\ sendBuffer' = [sendBuffer EXCEPT ![Conn] = EndConsume(q, k)]
           /\ pipe' = IF HungUp(Conn) THEN pipe
                      ELSE [pipe EXCEPT ![Conn] =
                              pipe[Conn] \o SubSeq(q.cells, q.read + 1, q.read + k)]
    BY <1>8 DEF FlushSome
  <2>4. CASE i # Conn
    <3>1. sendBuffer'[i] = sendBuffer[i] /\ pipe'[i] = pipe[i]
      BY <1>0, <2>3, <2>4
    <3> QED BY <1>0, <1>1, <2>2, <3>1, ChainStays
  <2>5. CASE i = Conn
    <3>1. k \in 1 .. Readable(q)
      <4>1. IsNetBuffer(q)
        BY <1>0, <2>5
      <4> HIDE DEF q
      <4>2. Readable(q) \in Nat
        BY <4>1, NetBuffers
      <4>3. Room(Conn) \in Int
        <5>1. Len(pipe[Conn]) \in Int
          BY <1>0, <2>5
        <5> QED BY <5>1, PacketStreamAssumption DEF Room
      <4> QED BY <2>3, <4>2, <4>3 DEF Lesser
    <3>2. /\ sendBuffer'[i] = EndConsume(sendBuffer[i], k)
          /\ pipe'[i] = pipe[i] \o SubSeq(sendBuffer[i].cells, sendBuffer[i].read + 1,
                                          sendBuffer[i].read + k)
      BY <1>0, <2>3, <2>5
    <3>3. serverEnd[i] # "closed" /\ serverEnd'[i] = serverEnd[i]
      BY <2>1, <2>2, <2>5
    <3>4. k \in 1 .. Readable(sendBuffer[i])
      BY <2>5, <3>1
    <3>5. Linked(receiveBuffer, pipe[i], serverEnd[i], sendBuffer[i], Undelivered(i))
      BY <1>0 DEF Chain
    <3>6. Linked(receiveBuffer,
                 pipe[i] \o SubSeq(sendBuffer[i].cells, sendBuffer[i].read + 1,
                                   sendBuffer[i].read + k),
                 serverEnd[i], EndConsume(sendBuffer[i], k), Undelivered(i))
      BY <1>0, <3>3, <3>4, <3>5, LinkedSend
    <3>7. Undelivered(i)' = Undelivered(i)
      BY <2>2 DEF Undelivered
    <3> QED BY <1>0, <3>2, <3>3, <3>6, <3>7 DEF Chain
  <2> QED BY <2>4, <2>5
<1> QED BY <1>2, <1>3, <1>4, <1>5, <1>6, <1>7, <1>8, ServerStepIs DEF Frame

\* The client's steps.
LEMMA ClientSteps ==
  ASSUME Frame, Fit, Behind, Flow, Connected \/ ClientReceives, NEW i, Steady(i), i \in Sound',
         Running', client'.state # "closed"
  PROVE  Chain(i)'
<1>0. /\ i \in Connections /\ i = client.conn /\ i \in Sound /\ Chain(i)
      /\ DOMAIN pipe = Connections /\ pipe[i] \in Seq(Cells)
      /\ IsNetBuffer(receiveBuffer) /\ DOMAIN delivered = Connections
      /\ accepted[i] \in Seq(Messages) /\ delivered[i] \in Seq({0} \cup Messages)
      /\ spoilt[i] = "nowhere" /\ spoilt'[i] = "nowhere" /\ HistoryTyped
  BY DEF Steady, Frame, PipeTyped, ReceiveTyped, HistoryTyped, Sound
<1>1. UNCHANGED <<serverEnd, sendBuffer, accepted>>
  BY DEF Connected, ClientReceives, ReceiveBegins, ReceiveWhenFull, ReceiveSome, ReceiveNothing,
         ReceiveEnd, HeaderRefused, ProcessEnds, ProcessPacket, WrapRefused, history
<1>2. ASSUME UNCHANGED <<receiveBuffer, pipe, delivered>> PROVE Chain(i)'
  BY <1>0, <1>1, <1>2, ChainStays
<1>3. CASE Connected
  <2>1. receiveBuffer = NoBuffer
    BY <1>3 DEF Connected, ClientIs, Frame, Idle
  <2>2. receiveBuffer' = receiveBuffer
    BY <1>3, <2>1 DEF Connected
  <2>3. UNCHANGED <<receiveBuffer, pipe, delivered>>
    BY <1>3, <2>2 DEF Connected, history
  <2> QED BY <1>2, <2>3
<1>4. CASE ReceiveBegins \/ ReceiveWhenFull
  <2>1. UNCHANGED <<receiveBuffer, pipe, delivered>>
    BY <1>4 DEF ReceiveBegins, ReceiveWhenFull, history
  <2> QED BY <1>2, <2>1
<1>5. CASE ReceiveSome
  <2> DEFINE b == receiveBuffer
             p == pipe[i]
  <2>1. delivered' = delivered
    BY <1>5 DEF ReceiveSome, history
  <2>2. PICK k \in 1 .. Lesser(Writable(b), Len(p)) :
           /\ receiveBuffer' = EndProduce(Filled(b, SubSeq(p, 1, k)), k)
           /\ pipe' = [pipe EXCEPT ![i] = SubSeq(pipe[i], k + 1, Len(pipe[i]))]
    BY <1>0, <1>5 DEF ReceiveSome
  <2>3. k \in 1 .. Len(p) /\ k \in 1 .. Free(b)
    <3>1. Writable(b) \in 0 .. Free(b) /\ Free(b) = BufferSize - Size(b)
          /\ Size(b) \in 0 .. BufferSize /\ BufferSize \in Nat /\ Len(p) \in Nat
      BY <1>0, NetBuffers
    <3> HIDE DEF b, p
    <3>2. Writable(b) \in Int /\ Writable(b) <= Free(b) /\ Free(b) \in Int
      BY <3>1
    <3> QED BY <2>2, <3>1, <3>2 DEF Lesser
  <2>4. pipe'[i] = SubSeq(p, k + 1, Len(p))
    BY <1>0, <2>2
  <2>5. Linked(b, p, serverEnd[i], sendBuffer[i], Undelivered(i))
    BY <1>0 DEF Chain
  <2>6. Linked(EndProduce(Filled(b, SubSeq(p, 1, k)), k), SubSeq(p, k + 1, Len(p)),
               serverEnd[i], sendBuffer[i], Undelivered(i))
    <3> HIDE DEF b, p
    <3>1. IsNetBuffer(b) /\ p \in Seq(Cells)
      BY <1>0 DEF b, p
    <3> QED BY <2>3, <2>5, <3>1, LinkedTake
  <2>7. Undelivered(i)' = Undelivered(i)
    BY <1>1, <2>1 DEF Undelivered
  <2> QED BY <1>1, <2>2, <2>4, <2>6, <2>7 DEF Chain
<1>6. CASE ReceiveNothing
  <2>1. /\ receiveBuffer' = EndProduce(receiveBuffer, 0) /\ UNCHANGED <<pipe, delivered>>
        /\ Spoil(i, "receive", IsEmpty(receiveBuffer))
    BY <1>0, <1>6 DEF ReceiveNothing
  <2> DEFINE really == IsEmpty(receiveBuffer)
  <2>2. really \in BOOLEAN /\ Spoil(i, "receive", really)
    BY <2>1 DEF IsEmpty
  <2> HIDE DEF really
  <2>3. really => spoilt'[i] = "receive"
    BY <1>0, <2>2, SpoilIs
  <2>4. ~IsEmpty(receiveBuffer)
    BY <1>0, <2>3 DEF really
  <2>5. receiveBuffer' = receiveBuffer
    BY <1>0, <2>1, <2>4, MovedByNothing, NetBuffers
  <2> QED BY <1>2, <2>1, <2>5
<1>7. CASE ProcessEnds
  <2>1. /\ receiveBuffer' = IF PacketLength = 0 THEN receiveBuffer ELSE EndConsume(receiveBuffer, 0)
        /\ UNCHANGED <<pipe, delivered>>
        /\ Spoil(i, "partial", PacketLength # 0 /\ receiveBuffer.full)
    BY <1>0, <1>7 DEF ProcessEnds
  <2> DEFINE really == PacketLength # 0 /\ receiveBuffer.full
  <2>2. really \in BOOLEAN /\ Spoil(i, "partial", really)
    BY <2>1
  <2>3. PacketLength = 0 \/ ~receiveBuffer.full
    <3>1. really => spoilt'[i] = "partial"
      <4> HIDE DEF really
      <4> QED BY <1>0, <2>2, SpoilIs
    <3> QED BY <1>0, <3>1
  <2>4. receiveBuffer' = receiveBuffer
    <3>1. CASE PacketLength = 0
      BY <2>1, <3>1
    <3>2. CASE PacketLength # 0
      <4>1. EndConsume(receiveBuffer, 0) = receiveBuffer
        BY <1>0, <2>3, <3>2, MovedByNothing, NetBuffers
      <4> QED BY <2>1, <3>2, <4>1
    <3> QED BY <3>1, <3>2
  <2> QED BY <1>2, <2>1, <2>4
<1>8. CASE ProcessPacket
  <2> DEFINE d == Len(delivered[i])
             m == accepted[i][d + 1]
             x == Packet(m)
             u == Rest(accepted[i], d + 1)
  <2>1. /\ d < Len(accepted[i]) /\ m \in Messages /\ MessageAt(Unwrapped) = m
        /\ Len(x) \in 1 .. Size(receiveBuffer)
        /\ receiveBuffer' = EndConsume(receiveBuffer, Len(x))
        /\ Undelivered(i) = x \o u
    BY <1>0, <1>8, NextPacket
  <2>2. /\ pipe' = pipe
        /\ delivered' = [delivered EXCEPT ![i] = Append(delivered[i], MessageAt(Unwrapped))]
    BY <1>0, <1>8 DEF ProcessPacket
  <2>3. delivered'[i] = Append(delivered[i], m)
    BY <1>0, <2>1, <2>2
  <2>4. Len(delivered'[i]) = d + 1
    <3> HIDE DEF m
    <3>1. Len(Append(delivered[i], m)) = Len(delivered[i]) + 1
      BY <1>0, <2>1, AppendProperties
    <3> QED BY <2>3, <3>1
  <2>5. Undelivered(i)' = u
    BY <1>1, <2>4 DEF Undelivered, Rest
  <2>6. x \in Seq(Cells) /\ u \in Seq(Cells)
    <3>1. x \in Seq(Cells)
      BY <2>1, PacketIs
    <3>2. d + 1 \in 0 .. Len(accepted[i])
      <4>1. d \in Nat /\ Len(accepted[i]) \in Nat /\ d < Len(accepted[i])
        BY <1>0, <2>1
      <4> QED BY <4>1
    <3>3. u \in Seq(Cells)
      BY <1>0, <3>2, RestIs
    <3> QED BY <3>1, <3>3
  <2>7. Linked(receiveBuffer, pipe[i], serverEnd[i], sendBuffer[i], x \o u)
    BY <1>0, <2>1 DEF Chain
  <2> HIDE DEF x, u
  <2>8. Linked(EndConsume(receiveBuffer, Len(x)), pipe[i], serverEnd[i], sendBuffer[i], u)
    <3>1. Len(x) \in 1 .. Size(receiveBuffer) =>
            /\ SubSeq(Contents(receiveBuffer), 1, Len(x)) = x
            /\ Linked(EndConsume(receiveBuffer, Len(x)), pipe[i], serverEnd[i], sendBuffer[i], u)
      BY <1>0, <2>6, <2>7, LinkedFirst
    <3> QED BY <2>1, <3>1
  <2> QED BY <1>1, <2>1, <2>2, <2>5, <2>8 DEF Chain
<1>9. CASE ReceiveEnd
  BY <1>9 DEF ReceiveEnd, CloseClient, Frame, ClientTyped
<1>10. CASE HeaderRefused \/ WrapRefused
  BY <1>10 DEF HeaderRefused, WrapRefused, Running
<1> QED BY <1>3, <1>4, <1>5, <1>6, <1>7, <1>8, <1>9, <1>10 DEF ClientReceives

\* Every step keeps what is received, on its way and to be sent in one piece.
LEMMA FlowKept == ASSUME Frame, Fit, Behind, Flow, Next PROVE Flow'
<1> SUFFICES ASSUME NEW i \in Sound', Running', client'.state # "closed", client'.conn = i
             PROVE  Chain(i)'
  BY DEF Flow, HungUp
<1>1. CASE Connect
  <2>1. /\ i \in Connections /\ i = client.conn + 1 /\ client.conn \in Nat
        /\ UNCHANGED <<pipe, sendBuffer, accepted, delivered, receiveBuffer>>
    BY <1>1, ConnChanges DEF Connect, history, Frame, ClientTyped, Next, ClientOpens
  <2>2. serverEnd[i] = "none" /\ receiveBuffer = NoBuffer
    <3>1. i > client.conn
      BY <2>1
    <3>2. client.state = "closed"
      BY <1>1 DEF Connect, ClientIs
    <3> QED BY <2>1, <3>1, <3>2 DEF Frame, Idle
  <2>3. Unused(i)
    BY <2>1, <2>2 DEF Frame, Idle
  <2>4. Undelivered(i)' = <<>>
    <3>1. <<>> \in Seq(Messages) /\ Len(<<>>) = 0 /\ 0 \in 0 .. Len(<<>>)
      OBVIOUS
    <3>2. Rest(<<>>, 0) = <<>>
      BY <3>1, RestIs
    <3>3. accepted'[i] = <<>> /\ delivered'[i] = <<>>
      BY <2>1, <2>3 DEF Unused
    <3> QED BY <3>1, <3>2, <3>3 DEF Undelivered, Rest
  <2>5. receiveBuffer' = NoBuffer /\ pipe'[i] = <<>> /\ sendBuffer'[i] = NoBuffer
    BY <2>1, <2>2, <2>3 DEF Unused
  <2>6. Linked(NoBuffer, <<>>, serverEnd'[i], NoBuffer, <<>>)
    BY LinkedAtStart
  <2> QED BY <2>4, <2>5, <2>6 DEF Chain
<1>2. CASE ~Connect
  <2>1. Running /\ client.state # "closed" /\ i \in Sound /\ client.conn = i
    BY <1>2, StillOpen
  <2>2. Steady(i)
    BY <2>1 DEF Steady, Flow, Sound, HungUp
  <2>3. CASE Disconnect \/ ConnectFails
    BY <2>3 DEF Disconnect, ConnectFails, CloseClient, Frame, ClientTyped
  <2>4. CASE Connected \/ ClientReceives
    BY <2>2, <2>4, ClientSteps
  <2>5. CASE ServerStep
    BY <2>2, <2>5, ServerSteps
  <2> QED BY <1>2, <2>3, <2>4, <2>5 DEF Next, ClientOpens, ClientConnects, ServerStep
<1> QED BY <1>1, <1>2

(***************************************************************************)
(* The inductive invariant.                                                *)
(***************************************************************************)
Stream == Frame /\ Fit /\ Behind /\ Flow /\ HeadersFound /\ PartialPacketsKept

\* The inductive invariant holds at the start,
LEMMA StreamAtStart == ASSUME Init PROVE Stream
<1>1. Frame
  BY FrameAtStart
<1>2. Fit
  BY DEF Init, Fit
<1>3. Behind
  BY DEF Init, Behind, Sound
<1>4. Flow
  BY DEF Init, Flow, HungUp
<1>5. HeadersFound /\ PartialPacketsKept
  BY DEF Init, HeadersFound, PartialPacketsKept
<1> QED BY <1>1, <1>2, <1>3, <1>4, <1>5 DEF Stream

\* and every step keeps it.
LEMMA StreamKept == ASSUME Stream, [Next]_vars PROVE Stream'
<1>1. CASE Next
  BY <1>1, FrameKept, FitKept, BehindKept, FlowKept, HeadersKept, PartialsKept DEF Stream
<1>2. CASE UNCHANGED vars
  <2>1. Frame'
    BY FrameKept DEF Stream
  <2>2. UNCHANGED <<serverEnd, sendBuffer, pipe, client, receiveBuffer, failed,
                    accepted, delivered, spoilt>>
    BY <1>2 DEF vars, history
  <2>3. Fit' /\ Behind'
    BY <2>2 DEF Stream, Fit, Behind, Sound
  <2>4. Flow'
    <3>1. \A i : Chain(i) => Chain(i)'
      BY <2>2 DEF Chain, Undelivered
    <3> QED BY <2>2, <3>1 DEF Stream, Flow, Sound, Running, HungUp
  <2>5. HeadersFound' /\ PartialPacketsKept'
    BY <2>2 DEF Stream, HeadersFound, PartialPacketsKept, Sound
  <2> QED BY <2>1, <2>3, <2>4, <2>5 DEF Stream
<1> QED BY <1>1, <1>2

(***************************************************************************)
(* What send() took and the handler did not get is in the receive buffer,  *)
(* on its way and in the send buffer, without a gap, however the buffers   *)
(* wrap and however little ::send and ::recv take at a time; process()     *)
(* finds a header where it looks for one, and no part of a packet is thrown*)
(* away (socket.cpp:246-284, 344-366, 384).                                *)
(***************************************************************************)
THEOREM NoGaps == Spec => []StreamIntact
<1>1. Init => Stream
  BY StreamAtStart
<1>2. Stream /\ [Next]_vars => Stream'
  BY StreamKept
<1>3. Stream => StreamIntact
  <2> SUFFICES ASSUME Stream PROVE StreamIntact
    OBVIOUS
  <2>1. TypeOK /\ HeadersFound /\ PartialPacketsKept
    BY FrameIsTyped DEF Stream
  <2>2. ASSUME Running, NEW i \in Sound, serverEnd[i] = "connected", ~HungUp(i)
        PROVE  Contents(receiveBuffer) \o pipe[i] \o Contents(sendBuffer[i]) = Undelivered(i)
    <3>1. Chain(i)
      BY <2>2 DEF Stream, Flow
    <3>2. Joined(Contents(receiveBuffer), pipe[i], Contents(sendBuffer[i]), Undelivered(i))
      BY <2>2, <3>1 DEF Chain, Linked
    <3> QED BY <3>2 DEF Joined
  <2>3. NoGap
    BY <2>2 DEF NoGap
  <2> QED BY <2>1, <2>3 DEF StreamIntact
<1> QED BY <1>1, <1>2, <1>3, PTL DEF Spec

\* What a step does to the channels.
LEMMA ChannelStep ==
  ASSUME Stream, Next
  PROVE  Channel!Next \/ UNCHANGED <<accepted, delivered, Sound>>
<1>0. HistoryTyped /\ Frame
  BY DEF Stream, Frame
<1>1. ASSUME NEW i, NEW where, NEW really, Spoils(i, where, really),
             UNCHANGED <<accepted, delivered>>
      PROVE  Channel!Next \/ UNCHANGED <<accepted, delivered, Sound>>
  <2>1. /\ i \in Connections /\ where # "nowhere"
        /\ \A j \in Connections :
             spoilt'[j] # spoilt[j] => j = i /\ spoilt[i] = "nowhere" /\ spoilt'[i] = where
    BY <1>0, <1>1, SpoilIs DEF Spoils
  <2>2. Sound' = Sound \/ Sound' = Sound \ {i}
    BY <2>1 DEF Sound
  <2>3. CASE Sound' = Sound
    BY <1>1, <2>3
  <2>4. CASE Sound' = Sound \ {i}
    BY <1>1, <2>1, <2>4 DEF Channel!Next, Channel!Spoil
  <2> QED BY <2>2, <2>3, <2>4
<1>2. CASE UNCHANGED history
  BY <1>2 DEF history, Sound
<1>3. CASE ReceiveNothing \/ ProcessEnds \/ SendDropped \/ FlushBlocks
  <2>1. UNCHANGED <<accepted, delivered>>
    BY <1>3 DEF ReceiveNothing, ProcessEnds, SendDropped, FlushBlocks
  <2>2. UNCHANGED spoilt \/ \E i, where, really : Spoils(i, where, really)
    BY <1>0, SpoilChanges
  <2>3. CASE UNCHANGED spoilt
    BY <2>1, <2>3 DEF Sound
  <2> QED BY <1>1, <2>1, <2>2, <2>3
<1>4. CASE \E m \in Messages : Broadcast(m)
  BY <1>4 DEF Broadcast, Sound
<1>5. CASE SendWrites
  <2> DEFINE m == Head(agenda).message
  <2>1. /\ accepted' = [accepted EXCEPT ![Conn] = Append(accepted[Conn], m)]
        /\ UNCHANGED <<delivered, spoilt>>
    BY <1>5 DEF SendWrites
  <2>2. Conn \in Connections /\ m \in Messages
    BY <1>5, PacketToWrite DEF Stream, Frame
  <2>3. Sound' = Sound
    BY <2>1 DEF Sound
  <2> HIDE DEF m
  <2>4. Channel!Accept(Conn)
    BY <2>1, <2>2, <2>3 DEF Channel!Accept
  <2> QED BY <2>2, <2>4 DEF Channel!Next
<1>6. CASE ProcessPacket
  <2> DEFINE i == client.conn
             m == MessageAt(Unwrapped)
  <2>1. /\ delivered' = [delivered EXCEPT ![i] = Append(delivered[i], m)]
        /\ UNCHANGED <<accepted, spoilt>> /\ client.state # "closed"
    BY <1>6 DEF ProcessPacket, Doing, ClientIs
  <2>2. i \in Connections /\ m \in Messages \cup {0}
    BY <1>0, <2>1 DEF MessageAt, Frame, ClientTyped
  <2>3. Sound' = Sound
    BY <2>1 DEF Sound
  <2>4. CASE i \in Sound
    <3>1. m = accepted[i][Len(delivered[i]) + 1] /\ Len(delivered[i]) < Len(accepted[i])
      BY <1>6, <2>4, NextPacket DEF Stream
    <3> HIDE DEF i, m
    <3>2. Channel!Deliver(i)
      BY <2>1, <2>3, <2>4, <3>1 DEF Channel!Deliver
    <3> QED BY <2>2, <3>2 DEF Channel!Next
  <2>5. CASE i \notin Sound
    <3> HIDE DEF i, m
    <3>1. Channel!DeliverAny(i)
      BY <2>1, <2>2, <2>3, <2>5 DEF Channel!DeliverAny
    <3> QED BY <2>2, <3>1 DEF Channel!Next
  <2> QED BY <2>4, <2>5
<1> QED BY <1>2, <1>3, <1>4, <1>5, <1>6, HistoryChanges

(***************************************************************************)
(* Each connection is a message channel: what send() took is delivered in  *)
(* order and once, until a buffer of the connection is spoilt by           *)
(* end_produce(0) or end_consume(0).  send() accepts (socket.cpp:311-318), *)
(* a call of the handler delivers (socket.cpp:400-406), and all other steps*)
(* leave the channel alone or spoil it.                                    *)
(***************************************************************************)
THEOREM ChannelImplemented == Spec => ImplementsChannel
<1>1. Init => Channel!Init
  BY DEF Init, Channel!Init, Sound
<1>2. Init => Stream
  BY StreamAtStart
<1>3. Stream /\ [Next]_vars => Stream'
  BY StreamKept
<1>4. Stream /\ [Next]_vars => [Channel!Next]_<<accepted, delivered, Sound>>
  <2>1. ASSUME UNCHANGED vars PROVE UNCHANGED <<accepted, delivered, Sound>>
    BY <2>1 DEF vars, history, Sound
  <2> QED BY <2>1, ChannelStep
<1> QED BY <1>1, <1>2, <1>3, <1>4, PTL DEF Spec, ImplementsChannel, Channel!Spec

=============================================================================

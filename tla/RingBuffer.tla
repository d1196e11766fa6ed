----------------------------- MODULE RingBuffer -----------------------------
(***************************************************************************)
(* erhe::net::Ring_buffer (src/erhe/net/ring_buffer.cpp) as operators on   *)
(* values.  cells is m_buffer, in cells of any size instead of bytes, with *)
(* cells[o + 1] at offset o; read and write are the offsets, and full      *)
(* tells a full buffer from an empty one when they are equal.              *)
(***************************************************************************)
EXTENDS Integers, Sequences

CONSTANT Unwritten   \* what resize() fills the buffer with

NewBuffer(n) == [cells |-> [i \in 1 .. n |-> Unwritten],
                 read |-> 0, write |-> 0, full |-> FALSE]

IsBuffer(b, n, Cells) ==
  /\ b \in [cells : Seq(Cells), read : 0 .. n - 1, write : 0 .. n - 1, full : BOOLEAN]
  /\ Len(b.cells) = n
  /\ b.full => b.read = b.write

Lesser(m, n) == IF m <= n THEN m ELSE n

Capacity(b) == Len(b.cells)
IsEmpty(b)  == ~b.full /\ b.read = b.write
Size(b)     == IF b.full THEN Capacity(b) ELSE (b.write - b.read) % Capacity(b)
Free(b)     == Capacity(b) - Size(b)

\* begin_produce and begin_consume: what may be written and read from the
\* offset to the end of the memory, and whether there is more after the wrap.
Writable(b)    == Lesser(Free(b), Capacity(b) - b.write)
WritesWrap(b)  == Writable(b) < Free(b)
Readable(b)    == Lesser(Size(b), Capacity(b) - b.read)
ReadsWrap(b)   == Readable(b) < Size(b)

\* Wrong: the flag is only ever raised by a write that fills the buffer.
EndProduceFills(b, k) ==
  [b EXCEPT !.write = (@ + k) % Capacity(b), !.full = k = Capacity(b)]

EndProduce(b, k) ==
  LET w == (b.write + k) % Capacity(b)
  IN  [b EXCEPT !.write = w, !.full = w = b.read]

\* Wrong: the offset does not wrap until the next byte.
EndConsumeLate(b, k) ==
  [b EXCEPT !.read = (@ + k) % (Capacity(b) + 1), !.full = FALSE]

EndConsume(b, k) == [b EXCEPT !.read = (@ + k) % Capacity(b), !.full = FALSE]

\* s copied to the write offset, around the wrap.
Filled(b, s) ==
  [b EXCEPT !.cells =
     [j \in DOMAIN b.cells |->
        LET k == ((j - 1 - b.write) % Capacity(b)) + 1
        IN  IF k \in DOMAIN s THEN s[k] ELSE b.cells[j]]]

\* write(): as much of s as there is room for.
Written(b, s) ==
  LET k == Lesser(Free(b), Len(s))
  IN  IF k = 0 THEN b ELSE EndProduce(Filled(b, SubSeq(s, 1, k)), k)

\* rotate(): the memory moves, the offsets stay.
Rotated(b) ==
  [b EXCEPT !.cells =
     [j \in DOMAIN b.cells |-> b.cells[((j - 1 + b.read) % Capacity(b)) + 1]]]

Peek(b, k) ==
  [i \in 1 .. Lesser(Size(b), k) |-> b.cells[((b.read + i - 1) % Capacity(b)) + 1]]

Contents(b) == Peek(b, Size(b))
=============================================================================

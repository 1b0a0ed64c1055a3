--------------------------- MODULE OperatorProofs ---------------------------
(***************************************************************************)
(* Proofs about what the others rest on, for every input.  For every       *)
(* capacity, every set of bytes and every position of the wrap, the rings  *)
(* of RingBuffer are bounded FIFO queues; what select_best_mode promises,  *)
(* for every SNR and every backlog; that a DATA frame keeps its length;    *)
(* and, in the second half, that the broadcast port of BroadcastPath takes *)
(* in the frames of its clients and hands out what others broadcast, for   *)
(* any number of stations, of frames, and whatever is in them.             *)
(***************************************************************************)
EXTENDS Algorithms, BroadcastPath, SequenceTheorems, TLAPS

-----------------------------------------------------------------------------
(* Rings                                                                   *)

\* Indices are at most one lap ahead.
LEMMA ModOnce ==
    \A m \in Nat \ {0}, a \in Nat : a < 2 * m => a % m = IF a < m THEN a ELSE a - m
<1> SUFFICES ASSUME NEW m \in Nat \ {0}, NEW a \in Nat, a < 2 * m
             PROVE  a % m = IF a < m THEN a ELSE a - m
  OBVIOUS
<1>1. a = m * (a \div m) + (a % m) /\ 0 <= a % m /\ a % m < m /\ a \div m \in Int
  OBVIOUS
<1> QED BY <1>1

LEMMA RingTypes ==
    ASSUME NEW max \in Nat \ {0}, NEW Byte, NEW r \in Rings(max, Byte)
    PROVE  /\ r.max = max /\ r.head \in 0 .. max - 1 /\ r.tail \in 0 .. max - 1
           /\ r.full \in BOOLEAN /\ (r.full => r.head = r.tail)
           /\ r.buffer \in [0 .. max - 1 -> Byte]
           /\ r = [buffer |-> r.buffer, head |-> r.head, tail |-> r.tail,
                   full |-> r.full, max |-> r.max]
BY DEF Rings

\* What is in the ring and what is free make up the ring, and a ring filled or
\* emptied to the last byte is told apart.
THEOREM RingSizes ==
    ASSUME NEW max \in Nat \ {0}, NEW Byte, NEW r \in Rings(max, Byte)
    PROVE  /\ SizesAddUp(r)
           /\ Size(r) \in 0 .. max /\ FreeSize(r) \in 0 .. max
           /\ Size(r) = 0 <=> r.head = r.tail /\ ~r.full
           /\ FreeSize(r) = 0 <=> r.full
<1>1. /\ r.max = max /\ r.head \in 0 .. max - 1 /\ r.tail \in 0 .. max - 1
      /\ r.full \in BOOLEAN /\ (r.full => r.head = r.tail)
  BY RingTypes
<1>2. CASE r.full
  BY <1>1, <1>2, SMT DEF SizesAddUp, Size, FreeSize
<1>3. CASE ~r.full /\ r.head >= r.tail
  <2>1. Size(r) = r.head - r.tail /\ FreeSize(r) = max - (r.head - r.tail)
    BY <1>1, <1>3, SMT DEF Size, FreeSize
  <2> QED BY <1>1, <1>3, <2>1, SMT DEF SizesAddUp
<1>4. CASE ~r.full /\ ~(r.head >= r.tail)
  <2>1. Size(r) = max + r.head - r.tail /\ FreeSize(r) = r.tail - r.head
    BY <1>1, <1>4, SMT DEF Size, FreeSize
  <2> QED BY <1>1, <1>4, <2>1, SMT DEF SizesAddUp
<1> QED BY <1>1, <1>2, <1>3, <1>4

\* Where a copy of n bytes from index f is one piece.
LEMMA Pieces ==
    ASSUME NEW max \in Nat \ {0}, NEW Byte, NEW r \in Rings(max, Byte),
           NEW f \in 0 .. max - 1, NEW n \in 1 .. max
    PROVE  /\ (f + n) % r.max = IF f + n < max THEN f + n ELSE f + n - max
           /\ InOnePiece(r, f, n) <=> f + n < max
<1>1. r.max = max BY RingTypes
<1>2. (f + n) % max = IF f + n < max THEN f + n ELSE f + n - max
  <2> DEFINE a == f + n
  <2>1. a \in Nat /\ a < 2 * max OBVIOUS
  <2> HIDE DEF a
  <2>2. a % max = IF a < max THEN a ELSE a - max
    BY <2>1, ModOnce
  <2> QED BY <2>2 DEF a
<1> QED BY <1>1, <1>2 DEF InOnePiece

\* Stored with the modulus gone.
LEMMA ContentsAt ==
    ASSUME NEW max \in Nat \ {0}, NEW Byte, NEW r \in Rings(max, Byte)
    PROVE  /\ DOMAIN Stored(r) = 1 .. Size(r)
           /\ \A k \in 1 .. Size(r) :
                 Stored(r)[k] = r.buffer[IF r.tail + k - 1 < max THEN r.tail + k - 1
                                           ELSE r.tail + k - 1 - max]
           /\ Stored(r) \in Seq(Byte)
           /\ Len(Stored(r)) = Size(r)
<1>1. Size(r) \in 0 .. max /\ r.max = max /\ r.tail \in 0 .. max - 1
      /\ r.buffer \in [0 .. max - 1 -> Byte]
  BY RingTypes, RingSizes
<1>2. ASSUME NEW k \in 1 .. Size(r)
      PROVE  (r.tail + k - 1) % max = IF r.tail + k - 1 < max THEN r.tail + k - 1
                                      ELSE r.tail + k - 1 - max
  <2> DEFINE a == r.tail + k - 1
  <2>1. a \in Nat /\ a < 2 * max BY <1>1
  <2> HIDE DEF a
  <2>2. a % max = IF a < max THEN a ELSE a - max
    BY <2>1, ModOnce
  <2> QED BY <1>1, <2>2 DEF a
<1>3. \A k \in 1 .. Size(r) : Stored(r)[k] \in Byte
  <2> TAKE k \in 1 .. Size(r)
  <2> DEFINE a == r.tail + k - 1
             b == a % max
  <2>1. a \in Nat /\ a < 2 * max
    BY <1>1
  <2>3. b = IF a < max THEN a ELSE a - max
    <3> HIDE DEF a
    <3> QED BY <2>1, ModOnce
  <2>2. b \in 0 .. max - 1
    <3> HIDE DEF a, b
    <3> QED BY <2>1, <2>3
  <2> QED BY <1>1, <2>2 DEF Stored
<1>4. Stored(r) \in [1 .. Size(r) -> Byte]
  BY <1>3 DEF Stored
<1>5. Stored(r) \in Seq(Byte) /\ Len(Stored(r)) = Size(r)
  BY <1>1, <1>4
<1> QED BY <1>1, <1>2, <1>5 DEF Stored

\* A write that fits keeps the ring well formed and moves head past its bytes.
LEMMA WriteFields ==
    ASSUME NEW max \in Nat \ {0}, NEW Byte, NEW r \in Rings(max, Byte),
           NEW data \in Seq(Byte), CanWrite(r, Len(data)), data # <<>>
    PROVE  /\ Write(r, data) \in Rings(max, Byte)
           /\ Write(r, data).tail = r.tail
           /\ Size(Write(r, data)) = Size(r) + Len(data)
           /\ \A i \in 0 .. max - 1 :
                 Write(r, data).buffer[i] =
                     IF r.head + Len(data) < max
                     THEN IF r.head <= i /\ i < r.head + Len(data)
                          THEN data[i - r.head + 1] ELSE r.buffer[i]
                     ELSE IF r.head <= i THEN data[i - r.head + 1]
                     ELSE IF i < Len(data) - (max - r.head)
                          THEN data[max - r.head + i + 1] ELSE r.buffer[i]
<1> DEFINE n == Len(data)
           w == Write(r, data)
           h == (r.head + n) % max
<1>1. n \in 1 .. max /\ ~r.full /\ n <= FreeSize(r)
  <2>1. n \in Nat \ {0} OBVIOUS
  <2> QED BY <2>1, RingSizes DEF CanWrite
<1>2. /\ r.max = max /\ r.head \in 0 .. max - 1 /\ r.tail \in 0 .. max - 1
      /\ r.full \in BOOLEAN /\ r.buffer \in [0 .. max - 1 -> Byte]
  BY RingTypes
<1>3. /\ (r.head + n) % max = IF r.head + n < max THEN r.head + n ELSE r.head + n - max
      /\ InOnePiece(r, r.head, n) <=> r.head + n < max
  <2> DEFINE f == r.head
  <2>1. n \in 1 .. max /\ f \in 0 .. max - 1
    BY <1>1, <1>2
  <2> HIDE DEF n, f
  <2>2. /\ (f + n) % r.max = IF f + n < max THEN f + n ELSE f + n - max
        /\ InOnePiece(r, f, n) <=> f + n < max
    BY <2>1, Pieces
  <2>3. r.max = max
    BY <1>2
  <2> QED BY <2>2, <2>3 DEF f
<1>4. CopyIn(r, data) \in [0 .. max - 1 -> Byte]
      /\ \A i \in 0 .. max - 1 :
            CopyIn(r, data)[i] =
                IF r.head + n < max
                THEN IF r.head <= i /\ i < r.head + n
                     THEN data[i - r.head + 1] ELSE r.buffer[i]
                ELSE IF r.head <= i THEN data[i - r.head + 1]
                ELSE IF i < n - (max - r.head)
                     THEN data[max - r.head + i + 1] ELSE r.buffer[i]
  <2>1. \A j \in 1 .. n : data[j] \in Byte OBVIOUS
  <2>2. \A i \in 0 .. max - 1 : r.buffer[i] \in Byte BY <1>2
  <2> DEFINE piece(i) ==
          IF r.head + n < max
          THEN IF r.head <= i /\ i < r.head + n THEN data[i - r.head + 1] ELSE r.buffer[i]
          ELSE IF r.head <= i THEN data[i - r.head + 1]
          ELSE IF i < n - (max - r.head) THEN data[max - r.head + i + 1] ELSE r.buffer[i]
  <2>3. CopyIn(r, data) = [i \in 0 .. max - 1 |-> piece(i)]
    BY <1>2, <1>3 DEF CopyIn
  <2>4. \A i \in 0 .. max - 1 : piece(i) \in Byte
    BY <1>1, <1>2, <2>1, <2>2
  <2> HIDE DEF piece
  <2>5. CopyIn(r, data) \in [0 .. max - 1 -> Byte]
        /\ \A i \in 0 .. max - 1 : CopyIn(r, data)[i] = piece(i)
    BY <2>3, <2>4
  <2> QED BY <2>5 DEF piece
<1>5. Write(r, data) = Advance([r EXCEPT !.buffer = CopyIn(r, data)], n)
  BY DEF Write
<1>6. w = [buffer |-> CopyIn(r, data), head |-> h, tail |-> r.tail,
           full |-> h = r.tail, max |-> max]
  <2> DEFINE c == [buffer |-> CopyIn(r, data), head |-> r.head, tail |-> r.tail,
                   full |-> r.full, max |-> r.max]
  <2>1. [r EXCEPT !.buffer = CopyIn(r, data)] = c
    BY RingTypes
  <2> QED BY <1>1, <1>2, <1>5, <2>1 DEF Advance
<1> HIDE DEF w, h
<1>7. w \in Rings(max, Byte)
  BY <1>1, <1>2, <1>3, <1>4, <1>6 DEF Rings, h
<1>8. Size(w) = Size(r) + n
  <2>1. /\ w.full = (h = r.tail) /\ w.head = h /\ w.tail = r.tail /\ w.max = max
        /\ h = IF r.head + n < max THEN r.head + n ELSE r.head + n - max
    BY <1>3, <1>6 DEF h
  <2>2. /\ n \in 1 .. max
        /\ r.head >= r.tail => n <= max - (r.head - r.tail) /\ Size(r) = r.head - r.tail
        /\ r.head < r.tail => n <= r.tail - r.head /\ Size(r) = max + r.head - r.tail
    BY <1>1, <1>2 DEF Size, FreeSize
  <2> HIDE DEF n
  <2>3. CASE h = r.tail
    <3>1. Size(w) = max BY <2>1, <2>3 DEF Size
    <3> QED BY <1>2, <2>1, <2>2, <2>3, <3>1
  <2>4. CASE h # r.tail
    <3>1. Size(w) = IF h >= r.tail THEN h - r.tail ELSE max + h - r.tail
      BY <2>1, <2>4 DEF Size
    <3>2. Size(r) = IF r.head >= r.tail THEN r.head - r.tail ELSE max + r.head - r.tail
      BY <1>2, <2>2
    <3>3. /\ r.head \in 0 .. max - 1 /\ r.tail \in 0 .. max - 1 /\ n \in 1 .. max
          /\ h = IF r.head + n < max THEN r.head + n ELSE r.head + n - max
          /\ r.head >= r.tail => n <= max - (r.head - r.tail)
          /\ r.head < r.tail => n <= r.tail - r.head
      BY <1>2, <2>1, <2>2
    <3>4. (IF h >= r.tail THEN h - r.tail ELSE max + h - r.tail)
          = (IF r.head >= r.tail THEN r.head - r.tail ELSE max + r.head - r.tail) + n
      BY <2>4, <3>3, SMTT(20)
    <3> QED BY <3>1, <3>2, <3>4, Zenon
  <2> QED BY <2>3, <2>4
<1> QED BY <1>4, <1>6, <1>7, <1>8 DEF w

\* A write that fits appends exactly its bytes, in order, and touches no other,
\* wherever the ring wraps; the ring stays well formed.
THEOREM RingWrite ==
    ASSUME NEW max \in Nat \ {0}, NEW Byte, NEW r \in Rings(max, Byte),
           NEW data \in Seq(Byte), CanWrite(r, Len(data))
    PROVE  Write(r, data) \in Rings(max, Byte) /\ WriteAppends(r, data)
<1>1. CASE data = <<>>
  <2>1. Write(r, data) = r BY <1>1 DEF Write
  <2>2. Stored(r) \o data = Stored(r) BY <1>1, ContentsAt
  <2> QED BY <2>1, <2>2 DEF WriteAppends
<1>2. CASE data # <<>>
  <2> DEFINE w == Write(r, data)
             n == Len(data)
             c == Stored(r)
             size == Size(r)
             head == r.head
             tail == r.tail
  <2>1. /\ w \in Rings(max, Byte) /\ w.tail = tail /\ Size(w) = size + n
        /\ \A i \in 0 .. max - 1 :
              w.buffer[i] =
                  IF head + n < max
                  THEN IF head <= i /\ i < head + n
                       THEN data[i - head + 1] ELSE r.buffer[i]
                  ELSE IF head <= i THEN data[i - head + 1]
                  ELSE IF i < n - (max - head)
                       THEN data[max - head + i + 1] ELSE r.buffer[i]
    BY <1>2, WriteFields
  <2>2. /\ n \in 1 .. max /\ ~r.full
        /\ head \in 0 .. max - 1 /\ tail \in 0 .. max - 1 /\ size \in 0 .. max
        /\ size + n <= max
        /\ size = IF head >= tail THEN head - tail ELSE max + head - tail
    <3>1. n \in Nat \ {0} BY <1>2
    <3>2. Size(r) \in 0 .. max /\ FreeSize(r) \in 0 .. max /\ n <= FreeSize(r)
          /\ (FreeSize(r) = 0 <=> r.full) /\ Size(r) + FreeSize(r) = max
      BY RingSizes, RingTypes DEF CanWrite, SizesAddUp
    <3>3. n \in 1 .. max /\ ~r.full BY <3>1, <3>2
    <3> QED BY <3>2, <3>3, RingTypes DEF Size
  <2>3. /\ Stored(w) \in Seq(Byte) /\ Len(Stored(w)) = size + n
        /\ \A k \in 1 .. size + n :
              Stored(w)[k] = w.buffer[IF tail + k - 1 < max THEN tail + k - 1
                                        ELSE tail + k - 1 - max]
    BY <2>1, ContentsAt
  <2>4. /\ c \in Seq(Byte) /\ Len(c) = size
        /\ \A k \in 1 .. size :
              c[k] = r.buffer[IF tail + k - 1 < max THEN tail + k - 1
                              ELSE tail + k - 1 - max]
    BY ContentsAt
  <2> HIDE DEF w, n, c, size, head, tail
  <2>5. ASSUME NEW k \in 1 .. size + n
        PROVE  Stored(w)[k] = IF k <= size THEN c[k] ELSE data[k - size]
    <3> DEFINE i == IF tail + k - 1 < max THEN tail + k - 1 ELSE tail + k - 1 - max
    <3>1. i \in 0 .. max - 1 BY <2>2
    <3>2. Stored(w)[k] = w.buffer[i] BY <2>3
    <3>3. w.buffer[i] = IF head + n < max
                        THEN IF head <= i /\ i < head + n
                             THEN data[i - head + 1] ELSE r.buffer[i]
                        ELSE IF head <= i THEN data[i - head + 1]
                        ELSE IF i < n - (max - head)
                             THEN data[max - head + i + 1] ELSE r.buffer[i]
      BY <2>1, <3>1
    <3>4. CASE k <= size
      <4>1. c[k] = r.buffer[i] BY <2>4, <3>4
      <4>2. IF head + n < max THEN ~(head <= i /\ i < head + n)
            ELSE ~(head <= i) /\ ~(i < n - (max - head))
        BY <2>2, <3>4
      <4> QED BY <3>2, <3>3, <3>4, <4>1, <4>2
    <3>5. CASE ~(k <= size)
      <4>1. IF head + n < max THEN head <= i /\ i < head + n /\ i - head + 1 = k - size
            ELSE IF head <= i THEN i - head + 1 = k - size
            ELSE i < n - (max - head) /\ max - head + i + 1 = k - size
        BY <2>2, <3>5
      <4> QED BY <3>2, <3>3, <3>5, <4>1
    <3> QED BY <3>4, <3>5
  <2>6. Stored(w) = c \o data
    <3>1. c \o data \in Seq(Byte) /\ Len(c \o data) = size + n
          /\ \A k \in 1 .. size + n :
                (c \o data)[k] = IF k <= size THEN c[k] ELSE data[k - size]
      BY <2>4, ConcatProperties DEF n
    <3>2. Len(Stored(w)) = Len(c \o data) BY <2>3, <3>1
    <3>3. \A k \in 1 .. Len(Stored(w)) : Stored(w)[k] = (c \o data)[k]
      BY <2>3, <2>5, <3>1
    <3> QED BY <2>3, <3>1, <3>2, <3>3, SeqEqual
  <2> QED BY <2>1, <2>6 DEF w, c, WriteAppends
<1> QED BY <1>1, <1>2

\* A read of no more than there is returns the oldest bytes, in order, and
\* leaves the others as they were.
THEOREM RingRead ==
    ASSUME NEW max \in Nat \ {0}, NEW Byte, NEW r \in Rings(max, Byte),
           NEW n \in Nat, CanRead(r, n)
    PROVE  Read(r, n) \in Rings(max, Byte) /\ ReadTakesFront(r, n)
<1> DEFINE s == Read(r, n)
           c == Stored(r)
           size == Size(r)
           tail == r.tail
<1>1. /\ r.max = max /\ tail \in 0 .. max - 1
      /\ r.buffer \in [0 .. max - 1 -> Byte]
      /\ size \in 0 .. max /\ n \in 0 .. max /\ n <= size
  BY RingTypes, RingSizes DEF CanRead
<1>2. /\ c \in Seq(Byte) /\ Len(c) = size
      /\ \A k \in 1 .. size :
            c[k] = r.buffer[IF tail + k - 1 < max THEN tail + k - 1 ELSE tail + k - 1 - max]
  BY ContentsAt
<1>3. CASE n = 0
  <2>1. s = r BY <1>3 DEF Read
  <2>2. CopyOut(r, n) = <<>> BY <1>3 DEF CopyOut
  <2>3. SubSeq(c, 1, 0) = <<>> BY <1>2, SubSeqEmpty
  <2>4. SubSeq(c, 1, size) = c BY <1>2, SubSeqFull
  <2>5. CopyOut(r, 0) = SubSeq(c, 1, 0) BY <1>3, <2>2, <2>3
  <2>6. Stored(Read(r, 0)) = SubSeq(c, 0 + 1, size)
    <3>1. Read(r, 0) = r BY DEF Read
    <3>2. 0 + 1 = 1 OBVIOUS
    <3> QED BY <2>4, <3>1, <3>2, Zenon
  <2>7. Read(r, n) \in Rings(max, Byte) BY <2>1
  <2> HIDE DEF c, size, s
  <2>8. ReadTakesFront(r, 0) BY <2>5, <2>6 DEF ReadTakesFront, c, size
  <2> QED BY <1>3, <2>7, <2>8
<1>4. CASE n # 0
  <2> DEFINE t == IF tail + n < max THEN tail + n ELSE tail + n - max
  <2>1. n \in 1 .. max BY <1>1, <1>4
  <2>2. (tail + n) % max = t /\ (InOnePiece(r, tail, n) <=> tail + n < max)
    <3>1. \A f \in 0 .. max - 1 :
              /\ (f + n) % r.max = IF f + n < max THEN f + n ELSE f + n - max
              /\ InOnePiece(r, f, n) <=> f + n < max
      BY <2>1, Pieces
    <3> QED BY <1>1, <3>1
  <2>3. s = [buffer |-> r.buffer, head |-> r.head, tail |-> t, full |-> FALSE, max |-> max]
    BY <1>1, <1>4, <2>2 DEF Read, Retreat
  <2>4. s \in Rings(max, Byte) /\ Size(s) = size - n
    <3>1. /\ r.head \in 0 .. max - 1 /\ r.full \in BOOLEAN /\ (r.full => r.head = tail)
          /\ size = IF r.full THEN max ELSE IF r.head >= tail THEN r.head - tail
                    ELSE max + r.head - tail
      BY RingTypes DEF Size
    <3> HIDE DEF size, tail, s
    <3>2. t \in 0 .. max - 1 BY <1>1, <2>1
    <3>3. s \in Rings(max, Byte) BY <1>1, <2>3, <3>1, <3>2 DEF Rings
    <3>4. Size(s) = IF r.head >= t THEN r.head - t ELSE max + r.head - t
      BY <2>3 DEF Size
    <3>5. Size(s) = size - n
      <4>1. CASE tail + n < max
        <5>1. t = tail + n BY <4>1
        <5> HIDE DEF t
        <5> QED BY <1>1, <2>1, <3>1, <3>4, <4>1, <5>1
      <4>2. CASE ~(tail + n < max)
        <5>1. t = tail + n - max BY <4>2
        <5> HIDE DEF t
        <5> QED BY <1>1, <2>1, <3>1, <3>4, <4>2, <5>1
      <4> QED BY <4>1, <4>2
    <3> QED BY <3>3, <3>5
  <2>5. CopyOut(r, n) = SubSeq(c, 1, n)
    <3> DEFINE piece(k) == IF tail + n < max \/ k <= max - tail
                           THEN r.buffer[tail + k - 1] ELSE r.buffer[k - (max - tail) - 1]
    <3>1. CopyOut(r, n) = [k \in 1 .. n |-> piece(k)]
      BY <1>1, <2>2 DEF CopyOut
    <3> HIDE DEF size, tail, c
    <3>2. \A k \in 1 .. n : piece(k) = c[k]
      <4> TAKE k \in 1 .. n
      <4>1. k \in 1 .. size BY <1>1
      <4>2. c[k] = r.buffer[IF tail + k - 1 < max THEN tail + k - 1 ELSE tail + k - 1 - max]
        BY <1>2, <4>1
      <4>3. CASE tail + n < max \/ k <= max - tail
        <5>1. tail + k - 1 < max BY <1>1, <4>1, <4>3
        <5> QED BY <4>2, <4>3, <5>1
      <4>4. CASE ~(tail + n < max \/ k <= max - tail)
        <5>1. ~(tail + k - 1 < max) /\ k - (max - tail) - 1 = tail + k - 1 - max
          BY <1>1, <4>1, <4>4
        <5> QED BY <4>2, <4>4, <5>1
      <4> QED BY <4>3, <4>4
    <3>3. CopyOut(r, n) = [k \in 1 .. n |-> c[k]] BY <3>1, <3>2
    <3>4. \A k \in 1 .. n : c[k] \in Byte BY <1>1, <1>2, ElementOfSeq
    <3>5. CopyOut(r, n) \in Seq(Byte) /\ Len(CopyOut(r, n)) = n
          /\ \A k \in 1 .. n : CopyOut(r, n)[k] = c[k]
      BY <1>1, <3>3, <3>4
    <3>6. SubSeq(c, 1, n) \in Seq(Byte) /\ Len(SubSeq(c, 1, n)) = n
          /\ \A k \in 1 .. n : SubSeq(c, 1, n)[k] = c[k]
      BY <1>1, <2>1, <3>4, SubSeqProperties
    <3> QED BY <3>5, <3>6, SeqEqual
  <2>6. Stored(s) = SubSeq(c, n + 1, size)
    <3>1. /\ Stored(s) \in Seq(Byte) /\ Len(Stored(s)) = size - n
          /\ \A k \in 1 .. size - n :
                Stored(s)[k] = s.buffer[IF s.tail + k - 1 < max THEN s.tail + k - 1
                                          ELSE s.tail + k - 1 - max]
      BY <2>4, ContentsAt
    <3>2. s.buffer = r.buffer /\ s.tail = t BY <2>3
    <3> HIDE DEF size, tail, c, s
    <3>3. \A k \in 1 .. size - n : Stored(s)[k] = c[n + k]
      <4> TAKE k \in 1 .. size - n
      <4>1. n + k \in 1 .. size BY <1>1, <2>1
      <4>2. Stored(s)[k] = r.buffer[IF t + k - 1 < max THEN t + k - 1
                                      ELSE t + k - 1 - max]
        BY <3>1, <3>2
      <4>3. c[n + k] = r.buffer[IF tail + (n + k) - 1 < max THEN tail + (n + k) - 1
                                ELSE tail + (n + k) - 1 - max]
        BY <1>2, <4>1
      <4>4. (IF t + k - 1 < max THEN t + k - 1 ELSE t + k - 1 - max)
              = IF tail + (n + k) - 1 < max THEN tail + (n + k) - 1
                ELSE tail + (n + k) - 1 - max
        BY <1>1, <2>1, <4>1
      <4> QED BY <4>2, <4>3, <4>4
    <3>4. \A i \in n + 1 .. size : c[i] \in Byte BY <1>1, <1>2, ElementOfSeq
    <3>5. SubSeq(c, n + 1, size) \in Seq(Byte) /\ Len(SubSeq(c, n + 1, size)) = size - n
          /\ \A k \in 1 .. size - n : SubSeq(c, n + 1, size)[k] = c[n + 1 + k - 1]
      BY <1>1, <2>1, <3>4, SubSeqProperties
    <3>6. \A k \in 1 .. size - n : Stored(s)[k] = SubSeq(c, n + 1, size)[k]
      BY <1>1, <2>1, <3>3, <3>5
    <3> QED BY <3>1, <3>5, <3>6, SeqEqual
  <2> QED BY <2>4, <2>5, <2>6 DEF ReadTakesFront
<1> QED BY <1>3, <1>4

\* clear_buffer leaves an empty ring.
THEOREM RingClear ==
    ASSUME NEW max \in Nat \ {0}, NEW Byte, NEW r \in Rings(max, Byte)
    PROVE  Clear(r) \in Rings(max, Byte) /\ Stored(Clear(r)) = <<>>
<1>1. Clear(r) \in Rings(max, Byte)
  <2>1. Clear(r) = [buffer |-> r.buffer, head |-> 0, tail |-> 0, full |-> FALSE,
                    max |-> max]
    BY RingTypes DEF Clear
  <2> QED BY <2>1, RingTypes DEF Rings
<1>2. Size(Clear(r)) = 0 BY RingTypes DEF Clear, Size
<1>3. Stored(Clear(r)) \in Seq(Byte) /\ Len(Stored(Clear(r))) = 0
  BY <1>1, <1>2, ContentsAt
<1> QED BY <1>1, <1>3

-----------------------------------------------------------------------------
(* The choice of a mode                                                    *)

LEMMA ModesAre ==
    PayloadModes = {"datac15", "datac4", "datac3", "datac1", "datac17", "qam16c2", "qam16fm"}
  BY SMT DEF PayloadModes, Rank

LEMMA RanksAre ==
    /\ Rank["datac15"] = 0 /\ Rank["datac4"] = 1 /\ Rank["datac3"] = 2 /\ Rank["datac1"] = 3
    /\ Rank["datac17"] = 4 /\ Rank["qam16c2"] = 5 /\ Rank["qam16fm"] = 6
  BY SMT DEF Rank

LEMMA NumbersAre ==
    /\ \A m \in PayloadModes : Rank[m] \in Int
    /\ \A m \in PayloadModes \ {"datac15"} : MinSnr[m] \in Int
    /\ SnrHyst \in Nat
  BY ModesAre, RanksAre, SMT DEF MinSnr, SnrHyst

\* No mode is asked for that the bandwidth of the session does not allow:
\* select_best_mode clamps the mode it starts from and asks
\* arq_bandwidth_allows_mode for every wide one.
LEMMA BestIsAllowed ==
  ASSUME NEW mode \in PayloadModes, NEW snr \in Int, NEW backlog \in Int,
         NEW wide \in BOOLEAN, NEW retries \in Nat
  PROVE  WithinBandwidth(mode, snr, backlog, wide, retries)
  BY SMTT(60) DEF WithinBandwidth, SelectBestMode, ClampedMode, Allows, Fits, WideModes

\* The mode is one of the ladder, and clamping it again changes nothing.
LEMMA BestIsMode ==
  ASSUME NEW mode \in PayloadModes, NEW snr \in Int, NEW backlog \in Int,
         NEW wide \in BOOLEAN, NEW retries \in Nat
  PROVE  /\ SelectBestMode(mode, snr, backlog, wide, retries) \in PayloadModes
         /\ ClampedMode(wide, SelectBestMode(mode, snr, backlog, wide, retries))
                = SelectBestMode(mode, snr, backlog, wide, retries)
  <1>1. ClampedMode(wide, mode) \in PayloadModes
    BY ModesAre, SMT DEF ClampedMode
  <1>2. SelectBestMode(mode, snr, backlog, wide, retries) \in PayloadModes
    BY <1>1, ModesAre, SMT DEF SelectBestMode
  <1> QED
    BY <1>2, BestIsAllowed DEF WithinBandwidth, ClampedMode

\* The fastest mode that fits, or the floor when none does
Fastest(best, current, snr, backlog, wide) ==
    /\ best = "datac15" \/ Fits(current, best, snr, backlog, wide)
    /\ \A m \in PayloadModes : Rank[m] > Rank[best] => ~Fits(current, m, snr, backlog, wide)

\* The chain of conditions, asked from the fastest mode down, finds it.
LEMMA BestIsFastest ==
  ASSUME NEW mode \in PayloadModes, NEW snr \in Int, NEW backlog \in Int,
         NEW wide \in BOOLEAN, NEW retries \in Nat,
         retries < HardLossThreshold,
         ~(backlog <= UserBytes[ClampedMode(wide, mode)]),
         NEW best \in PayloadModes
  PROVE  SelectBestMode(mode, snr, backlog, wide, retries) = best
             <=> Fastest(best, ClampedMode(wide, mode), snr, backlog, wide)
  <1> DEFINE Can(m) == Fits(ClampedMode(wide, mode), m, snr, backlog, wide)
  <1>1. SelectBestMode(mode, snr, backlog, wide, retries) =
            IF Can("qam16fm") THEN "qam16fm"
            ELSE IF Can("qam16c2") THEN "qam16c2"
            ELSE IF Can("datac17") THEN "datac17"
            ELSE IF Can("datac1") THEN "datac1"
            ELSE IF Can("datac3") THEN "datac3"
            ELSE IF Can("datac4") THEN "datac4"
            ELSE "datac15"
    BY SMT DEF SelectBestMode, HardLossThreshold
  <1>2. Fastest(best, ClampedMode(wide, mode), snr, backlog, wide) <=>
            /\ best = "datac15" \/ Can(best)
            /\ \A m \in PayloadModes : Rank[m] > Rank[best] => ~Can(m)
    BY DEF Fastest
  <1> HIDE DEF Can
  <1> QED
    BY <1>1, <1>2, ModesAre, RanksAre, SMTT(60)

\* A mode is asked for less by a station that has it than by one that has a
\* slower one, and for a faster mode the margin is asked in any case.
LEMMA ThresholdFalls ==
  ASSUME NEW current \in PayloadModes, NEW best \in PayloadModes,
         NEW m \in PayloadModes \ {"datac15"}
  PROVE  /\ m = best => Threshold(best, m) <= Threshold(current, m)
         /\ Rank[m] > Rank[best] => Threshold(best, m) >= Threshold(current, m)
  BY NumbersAre, SMT DEF Threshold

\* The mode asked for is kept when nothing changes: select_best_mode cannot
\* make the stations negotiate to and fro.
LEMMA BestIsKept ==
  ASSUME NEW mode \in PayloadModes, NEW snr \in Int, NEW backlog \in Int,
         NEW wide \in BOOLEAN, NEW retries \in Nat
  PROVE  Settles(mode, snr, backlog, wide, retries)
  <1> DEFINE best == SelectBestMode(mode, snr, backlog, wide, retries)
             current == ClampedMode(wide, mode)
  <1>1. /\ best \in PayloadModes /\ ClampedMode(wide, best) = best
        /\ current \in PayloadModes
    BY BestIsMode, ModesAre, SMT DEF ClampedMode
  <1>2. SUFFICES ASSUME retries < HardLossThreshold
                 PROVE  SelectBestMode(best, snr, backlog, wide, retries) = best
    BY DEF Settles
  <1>3. CASE backlog <= UserBytes[best]
    BY <1>1, <1>2, <1>3, SMT DEF SelectBestMode, HardLossThreshold
  <1>4. CASE ~(backlog <= UserBytes[best])
    <2>1. CASE backlog <= UserBytes[current]
      \* Then best is current.
      BY <1>2, <1>4, <2>1, SMT DEF SelectBestMode, HardLossThreshold
    <2>2. CASE ~(backlog <= UserBytes[current])
      <3>1. Fastest(best, current, snr, backlog, wide)
        BY <1>1, <1>2, <2>2, BestIsFastest
      <3>2. best = "datac15" \/ Fits(best, best, snr, backlog, wide)
        <4>1. CASE best = "datac15"
          BY <4>1
        <4>2. CASE best # "datac15"
          <5>1. Fits(current, best, snr, backlog, wide)
            BY <3>1, <4>2 DEF Fastest
          <5>2. /\ Threshold(best, best) <= Threshold(current, best)
                /\ Threshold(best, best) \in Int /\ Threshold(current, best) \in Int
            BY <1>1, <4>2, ThresholdFalls, NumbersAre, SMT DEF Threshold
          <5> QED
            BY <5>1, <5>2, SMT DEF Fits
        <4> QED
          BY <4>1, <4>2
      <3>3. ASSUME NEW m \in PayloadModes, Rank[m] > Rank[best]
            PROVE  ~Fits(best, m, snr, backlog, wide)
        <4>1. m # "datac15"
          BY <1>1, <3>3, ModesAre, RanksAre, SMT
        <4>2. ~Fits(current, m, snr, backlog, wide)
          BY <3>1, <3>3 DEF Fastest
        <4>3. /\ Threshold(best, m) >= Threshold(current, m)
              /\ Threshold(best, m) \in Int /\ Threshold(current, m) \in Int
          BY <1>1, <3>3, <4>1, ThresholdFalls, NumbersAre, SMT DEF Threshold
        <4> QED
          BY <4>2, <4>3, SMT DEF Fits
      <3>4. Fastest(best, ClampedMode(wide, best), snr, backlog, wide)
        BY <1>1, <3>2, <3>3 DEF Fastest
      <3> QED
        BY <1>1, <1>2, <1>4, <3>4, BestIsFastest
    <2> QED
      BY <2>1, <2>2
  <1> QED
    BY <1>3, <1>4

-----------------------------------------------------------------------------
(* Lengths of frames                                                       *)

\* The sizes of the modes differ.
LEMMA SizeTellsMode == \A m \in ArqModes : ModeOfSize(PayloadBytes[m]) = m
<1>1. \A m, k \in ArqModes : PayloadBytes[k] = PayloadBytes[m] => k = m
  BY DEF ArqModes, PayloadBytes
<1> QED
  BY <1>1 DEF ModeOfSize

\* A length below 2048 is its low byte and the three bits above it.
BitsOf(n) ==
    (n % 256) + (IF Bit(n, 256) THEN 256 ELSE 0) + (IF Bit(n, 512) THEN 512 ELSE 0)
              + (IF Bit(n, 1024) THEN 1024 ELSE 0)

LEMMA ElevenBits == \A n \in 0 .. 2047 : BitsOf(n) = n
<1> SUFFICES ASSUME NEW n \in 0 .. 2047 PROVE BitsOf(n) = n
  OBVIOUS
<1> DEFINE q == n \div 256
<1>1. q \in 0 .. 7 /\ n = 256 * q + (n % 256) /\ n % 256 \in 0 .. 255
  OBVIOUS
<1>2. n \div 512 = q \div 2 /\ n \div 1024 = q \div 4
  OBVIOUS
<1>3. 256 * q = (IF q % 2 = 1 THEN 256 ELSE 0) + (IF (q \div 2) % 2 = 1 THEN 512 ELSE 0)
                  + (IF (q \div 4) % 2 = 1 THEN 1024 ELSE 0)
  BY <1>1
<1> QED
  BY <1>1, <1>2, <1>3 DEF Bit, BitsOf

\* What is left of the flags when a frame is not full.
LEMMA FlagsOfLength ==
  ASSUME NEW len \in Nat, NEW slot \in Nat, len # slot, NEW last \in BOOLEAN,
         NEW b \in LenFlags
  PROVE  HasFlag(BuildLength(len, slot, last), b) = IF Bit(len, b) THEN b ELSE 0
<1>1. b # BurstEnd
  BY DEF LenFlags, BurstEnd
<1> QED
  BY <1>1 DEF HasFlag, BuildLength

\* The receiver of a DATA frame delivers as many bytes as send_data_burst put
\* into it, for every mode, every length and either place in a burst: a frame
\* of 256, 512 or 1024 bytes is not taken for a full one.
LEMMA FieldsKeepLength ==
  ASSUME NEW m \in ArqModes, NEW len \in 1 .. SlotBytes(PayloadBytes[m]), NEW last \in BOOLEAN
  PROVE  LengthKept(m, len, last)
<1> DEFINE slot == SlotBytes(PayloadBytes[m])
           hdr == BuildLength(len, slot, last)
<1>1. slot \in 1 .. 2047
  BY DEF ArqModes, PayloadBytes, SlotBytes, FrameHdrSize
<1> HIDE DEF slot
<1>2. len \in 1 .. 2047 /\ len \in Nat /\ slot \in Nat /\ len <= slot
  <2>1. len \in 1 .. slot
    BY DEF slot
  <2> QED
    BY <1>1, <2>1
<1>3. ValidBytes(hdr, slot) = len
  <2>1. CASE len = slot
    <3>1. IsFull(hdr)
      BY <2>1 DEF IsFull, BuildLength, LenFlags, BurstEnd
    <3> QED
      BY <2>1, <3>1 DEF ValidBytes
  <2>2. CASE len # slot
    <3>1. /\ HasFlag(hdr, 256) = (IF Bit(len, 256) THEN 256 ELSE 0)
          /\ HasFlag(hdr, 512) = (IF Bit(len, 512) THEN 512 ELSE 0)
          /\ HasFlag(hdr, 1024) = (IF Bit(len, 1024) THEN 1024 ELSE 0)
      BY <1>2, <2>2, FlagsOfLength DEF LenFlags
    <3>2. hdr.payload_valid = len % 256
      BY <2>2 DEF BuildLength
    <3>3. hdr.payload_valid + HasFlag(hdr, 256) + HasFlag(hdr, 512) + HasFlag(hdr, 1024) = len
      <4>1. len \in 0 .. 2047
        BY <1>2
      <4>2. BitsOf(len) = len /\ len % 256 \in Int
        BY <4>1, ElevenBits
      <4> DEFINE x == IF Bit(len, 256) THEN 256 ELSE 0
                 y == IF Bit(len, 512) THEN 512 ELSE 0
                 z == IF Bit(len, 1024) THEN 1024 ELSE 0
      <4>3. BitsOf(len) = (len % 256) + x + y + z /\ x \in Int /\ y \in Int /\ z \in Int
        BY DEF BitsOf
      <4> HIDE DEF hdr, x, y, z
      <4>4. /\ hdr.payload_valid = len % 256 /\ HasFlag(hdr, 256) = x
            /\ HasFlag(hdr, 512) = y /\ HasFlag(hdr, 1024) = z
        BY <3>1, <3>2 DEF x, y, z
      <4> QED
        BY <4>2, <4>3, <4>4
    <3>4. ~ IsFull(hdr)
      <4> SUFFICES ASSUME IsFull(hdr) PROVE FALSE
        OBVIOUS
      <4>1. \A b \in LenFlags : HasFlag(hdr, b) = 0
        BY DEF IsFull, HasFlag
      <4>2. hdr.payload_valid = 0
        BY DEF IsFull
      <4> HIDE DEF hdr
      <4>3. 0 + 0 + 0 + 0 = len
        BY <3>3, <4>1, <4>2 DEF LenFlags
      <4> QED
        BY <1>2, <4>3
    <3> HIDE DEF hdr
    <3> QED
      BY <1>2, <3>3, <3>4 DEF ValidBytes
  <2> QED
    BY <2>1, <2>2
<1> QED
  BY <1>3, SizeTellsMode DEF LengthKept, slot

-----------------------------------------------------------------------------
(* Every input                                                             *)

\* write_buffer and read_buffer make a queue of any ring: whatever it holds,
\* wherever it wraps, and for as many bytes as it has room for or holds.
THEOREM RingsAreQueues ==
  ASSUME NEW max \in Nat \ {0}, NEW Byte, input \in RingInput(max, Byte)
  PROVE  RingIsQueue
<1>1. /\ input.r \in Rings(max, Byte) /\ input.data \in Seq(Byte)
      /\ input.n \in Nat
  BY DEF RingInput
<1>2. WriteAppends(input.r, input.data)
  BY <1>1, RingWrite DEF WriteAppends
<1>3. ReadTakesFront(input.r, input.n)
  BY <1>1, RingRead DEF ReadTakesFront
<1>4. SizesAddUp(input.r)
  BY <1>1, RingSizes
<1> QED
  BY <1>2, <1>3, <1>4 DEF RingIsQueue

\* No mode is asked for that the bandwidth of the session does not allow,
\* for all modes, SNR, backlogs and retries.
THEOREM BandwidthKept == ASSUME input \in ModeInput PROVE ModeWithinBandwidth
<1>1. /\ input.m \in PayloadModes /\ input.snr \in Int /\ input.backlog \in Int
      /\ input.wide \in BOOLEAN /\ input.retries \in Nat
  BY DEF ModeInput
<1> QED
  BY <1>1, BestIsAllowed DEF ModeWithinBandwidth

\* The mode asked for is the one asked for next: select_best_mode cannot make
\* the stations negotiate to and fro between two modes.
THEOREM ChoiceSettles == ASSUME input \in ModeInput PROVE ModeSettles
<1>1. /\ input.m \in PayloadModes /\ input.snr \in Int /\ input.backlog \in Int
      /\ input.wide \in BOOLEAN /\ input.retries \in Nat
  BY DEF ModeInput
<1> QED
  BY <1>1, BestIsKept DEF ModeSettles

\* The receiver of a DATA frame finds the mode by its size, and as many bytes
\* as were put into it: the length is kept in the fields of arq_protocol.h for
\* every mode and every length, 256, 512 and 1024 among them.
THEOREM LengthsKept == ASSUME input \in LengthInput PROVE DataLengthKept
<1>1. /\ input.m \in ArqModes /\ input.last \in BOOLEAN
      /\ input.len \in 1 .. SlotBytes(PayloadBytes[input.m])
  BY DEF LengthInput
<1> QED
  BY <1>1, FieldsKeepLength DEF DataLengthKept


-----------------------------------------------------------------------------
(* A stream of KISS bytes                                                  *)

KissStates ==
    [inFrame : BOOLEAN, escape : BOOLEAN, cmd : 0 .. 15 \cup {CmdUnknown}, frame : Seq(Octet)]

Streams == [busy : BOOLEAN, left : Seq(Octet), line : Seq(Octet), kiss : KissStates]

\* `left' is what follows the first j bytes of f.
Follows(left, f, j) ==
    /\ Len(left) = Len(f) - j
    /\ \A i \in 1 .. Len(left) : left[i] = f[j + i]

\* The decoder has made d of the first j bytes of f.
Made(d, f, j) ==
    /\ Len(d) = IF j < MaxPayload THEN j ELSE MaxPayload
    /\ \A i \in 1 .. Len(d) : d[i] = f[i]

\* As Tells, of the first m frames of w
TellsOf(t, w, m, afterJunk) ==
    /\ Len(t) >= m - 1
    /\ \A i \in 2 .. m :
           \/ t[Len(t) - m + i] = Room(w[i])
           \/ i = 2 /\ afterJunk /\ t[Len(t) - m + i] = AfterEscape(Room(w[i]))
    /\ ~afterJunk => Len(t) = m /\ \A i \in 1 .. m : t[i] = Room(w[i])

\* The client has not written a frame yet.
Before(c, w, t, afterJunk) ==
    /\ w = <<>> /\ ~c.busy
    /\ ~afterJunk => c.line = <<>> /\ c.kiss = KissReset /\ t = <<>>

\* The last frame has gone through.
Between(c, w, t, afterJunk) ==
    /\ w # <<>> /\ ~c.busy /\ c.line = <<>>
    /\ TellsOf(t, w, Len(w), afterJunk)
    /\ ~Closes(c.kiss)
    /\ c.kiss.escape => afterJunk /\ Len(w) = 1

\* The FEND in front of the last frame has not been read.
Opening(c, w, t, afterJunk) ==
    /\ w # <<>> /\ c.busy /\ c.line = <<FEND, w[Len(w)].cmd>> /\ c.left = w[Len(w)].frame
    /\ TellsOf(t, w, Len(w) - 1, afterJunk)
    /\ Closes(c.kiss) => afterJunk /\ Len(w) = 1
    /\ c.kiss.escape => afterJunk /\ Len(w) <= 2

\* The command of the last frame has not been read.
Commanding(c, w, t, afterJunk) ==
    /\ w # <<>> /\ c.busy /\ c.line = <<w[Len(w)].cmd>> /\ c.left = w[Len(w)].frame
    /\ TellsOf(t, w, Len(w) - 1, afterJunk)
    /\ c.kiss.inFrame /\ c.kiss.cmd = CmdUnknown /\ c.kiss.frame = <<>>
    /\ c.kiss.escape => afterJunk /\ Len(w) <= 2

\* What may be read of the frame f
Reading(g, f, w, afterJunk) ==
    \/ g = f
    \/ g = [f EXCEPT ![1] = Unescaped(TRUE, f[1])] /\ afterJunk /\ Len(w) <= 2

OpenAtFirst(c, w, j, afterJunk) == c.kiss.escape => j = 0 /\ afterJunk /\ Len(w) <= 2

\* Of the bytes of f, j are written.  All have been read, or all but the last,
\* or half of the last.
AllRead(c, w, g, j, afterJunk) ==
    /\ c.line = <<>> /\ c.busy
    /\ Made(c.kiss.frame, g, j) /\ OpenAtFirst(c, w, j, afterJunk)

LastUnread(c, w, g, f, j, afterJunk) ==
    /\ j > 0 /\ c.busy /\ c.line = Escaped(f[j])
    /\ Made(c.kiss.frame, g, j - 1) /\ OpenAtFirst(c, w, j - 1, afterJunk)

HalfRead(c, w, g, f, j, afterJunk) ==
    /\ j > 0 /\ c.busy /\ f[j] \in {FEND, FESC} /\ c.line = Tail(Escaped(f[j]))
    /\ Made(c.kiss.frame, g, j - 1) /\ (c.kiss.escape <=> j <= MaxPayload)

Closing(c, w, g, f, j, afterJunk) ==
    /\ ~c.busy /\ c.line = <<FEND>> /\ j = Len(f)
    /\ Made(c.kiss.frame, g, j) /\ OpenAtFirst(c, w, j, afterJunk)

At(c, w, t, g, j, afterJunk) ==
    LET f == w[Len(w)].frame
    IN  /\ Reading(g, f, w, afterJunk)
        /\ Follows(c.left, f, j)
        /\ \/ AllRead(c, w, g, j, afterJunk) \/ LastUnread(c, w, g, f, j, afterJunk)
           \/ HalfRead(c, w, g, f, j, afterJunk) \/ Closing(c, w, g, f, j, afterJunk)

\* The bytes of the last frame are being read.
Within(c, w, t, afterJunk) ==
    /\ w # <<>>
    /\ TellsOf(t, w, Len(w) - 1, afterJunk)
    /\ c.kiss.inFrame /\ c.kiss.cmd = w[Len(w)].cmd
    /\ \E g \in Seq(Octet), j \in 0 .. Len(w[Len(w)].frame) : At(c, w, t, g, j, afterJunk)

\* The first frame is lost: its FEND ended what was junk.
Lost(c, w, t, afterJunk) ==
    /\ afterJunk /\ Len(w) = 1 /\ ~c.kiss.inFrame
    /\ IF c.busy THEN \A i \in 1 .. Len(c.line) : c.line[i] # FEND
       ELSE c.line = <<FEND>>

StreamInv(c, w, t, afterJunk) ==
    /\ c \in Streams /\ w \in Seq(KissFrames) /\ t \in Seq(KissFrames)
    /\ \/ Before(c, w, t, afterJunk) \/ Between(c, w, t, afterJunk)
       \/ Opening(c, w, t, afterJunk) \/ Commanding(c, w, t, afterJunk)
       \/ Within(c, w, t, afterJunk) \/ Lost(c, w, t, afterJunk)

-----------------------------------------------------------------------------

LEMMA TellsAll ==
    ASSUME NEW w \in Seq(KissFrames), NEW t \in Seq(KissFrames), NEW afterJunk \in BOOLEAN
    PROVE  Tells(t, w, afterJunk) <=> TellsOf(t, w, Len(w), afterJunk)
<1>1. DOMAIN w = 1 .. Len(w) /\ DOMAIN t = 1 .. Len(t) /\ Len(w) \in Nat /\ Len(t) \in Nat
  BY LenProperties
<1>2. t = [i \in DOMAIN w |-> Room(w[i])] <=>
          Len(t) = Len(w) /\ \A i \in 1 .. Len(w) : t[i] = Room(w[i])
  <2>1. ASSUME Len(t) = Len(w), \A i \in 1 .. Len(w) : t[i] = Room(w[i])
        PROVE  t = [i \in DOMAIN w |-> Room(w[i])]
    <3>1. t = [i \in 1 .. Len(t) |-> t[i]]
      BY <1>1, LenProperties
    <3> QED BY <2>1, <3>1, <1>1
  <2>2. ASSUME t = [i \in DOMAIN w |-> Room(w[i])]
        PROVE  Len(t) = Len(w) /\ \A i \in 1 .. Len(w) : t[i] = Room(w[i])
    <3>1. DOMAIN t = 1 .. Len(w)
      BY <2>2, <1>1
    <3>2. Len(t) = Len(w)
      BY <3>1, <1>1
    <3> QED BY <3>2, <2>2, <1>1
  <2> QED BY <2>1, <2>2
<1> QED BY <1>2 DEF Tells, TellsOf

\* A rest is one before the first frame or between two.
LEMMA RestTells ==
    ASSUME NEW c, NEW w, NEW t, NEW afterJunk \in BOOLEAN, StreamInv(c, w, t, afterJunk),
           Rests(c)
    PROVE  Tells(t, w, afterJunk)
<1>1. c \in Streams /\ w \in Seq(KissFrames) /\ t \in Seq(KissFrames) /\ ~c.busy /\ c.line = <<>>
  BY DEF StreamInv, Rests
<1>2. CASE Before(c, w, t, afterJunk)
  <2>1. Len(w) = 0 /\ Len(t) \in Nat /\ (~afterJunk => Len(t) = 0)
    BY <1>1, <1>2, LenProperties, EmptySeq DEF Before
  <2>2. TellsOf(t, w, 0, afterJunk)
    BY <2>1 DEF TellsOf
  <2> QED BY <2>1, <2>2, TellsAll, <1>1
<1>3. CASE Between(c, w, t, afterJunk)
  BY <1>3, <1>1, TellsAll DEF Between
<1>4. ~Lost(c, w, t, afterJunk)
  <2>1. c.line # <<FEND>>
    BY <1>1
  <2> QED BY <1>1, <2>1 DEF Lost
<1>5. ~Within(c, w, t, afterJunk)
  <2>1. c.line # <<FEND>>
    BY <1>1
  <2> QED BY <1>1, <2>1 DEF Within, At, AllRead, LastUnread, HalfRead, Closing
<1> QED BY <1>1, <1>2, <1>3, <1>4, <1>5 DEF StreamInv, Opening, Commanding

LEMMA EscapedBytes ==
    ASSUME NEW b \in Octet
    PROVE  /\ Escaped(b) \in Seq(Octet) /\ Escaped(b) # <<>>
           /\ \A i \in 1 .. Len(Escaped(b)) : Escaped(b)[i] # FEND
<1>1. {FEND, FESC, TFEND, TFESC} \subseteq Octet /\ FEND # FESC /\ FEND # TFEND /\ FEND # TFESC
  BY DEF Octet, FEND, FESC, TFEND, TFESC
<1>2. CASE b = FEND
  <2>1. Escaped(b) = <<FESC, TFEND>>
    BY <1>2 DEF Escaped
  <2> QED BY <2>1, <1>1
<1>3. CASE b # FEND /\ b = FESC
  <2>1. Escaped(b) = <<FESC, TFESC>>
    BY <1>3 DEF Escaped
  <2> QED BY <2>1, <1>1
<1>4. CASE b # FEND /\ b # FESC
  <2>1. Escaped(b) = <<b>>
    BY <1>4 DEF Escaped
  <2> QED BY <2>1, <1>1, <1>4
<1> QED BY <1>2, <1>3, <1>4

LEMMA FreshStream ==
    StreamInv(Fresh, <<>>, <<>>, FALSE)
<1>1. <<>> \in Seq(KissFrames) /\ <<>> \in Seq(Octet)
  BY EmptySeq
<1>2. Fresh \in Streams
  BY <1>1 DEF Fresh, Streams, KissReset, KissStates, CmdUnknown
<1> QED BY <1>1, <1>2 DEF StreamInv, Before, Fresh

\* What a client writes before its first frame
LEMMA JunkWritten ==
    ASSUME NEW c, NEW t, NEW afterJunk \in BOOLEAN, StreamInv(c, <<>>, t, afterJunk),
           NEW byte \in Octet
    PROVE  StreamInv([c EXCEPT !.line = <<byte>>], <<>>, t, TRUE)
<1>1. c \in Streams /\ <<>> \in Seq(KissFrames) /\ t \in Seq(KissFrames)
  BY DEF StreamInv
<1>2. Len(<<>>) = 0
  BY EmptySeq
<1>3. ~c.busy
  BY <1>2 DEF StreamInv, Before, Between, Opening, Commanding, Within, Lost
<1>4. [c EXCEPT !.line = <<byte>>] \in Streams
  BY <1>1 DEF Streams
<1> QED BY <1>1, <1>3, <1>4 DEF StreamInv, Before, Streams

LEMMA FrameBegins ==
    ASSUME NEW c, NEW w, NEW t, NEW afterJunk \in BOOLEAN, StreamInv(c, w, t, afterJunk),
           Rests(c), NEW f \in KissFrames
    PROVE  StreamInv(BeginsFrame(c, f), Append(w, f), t, afterJunk)
<1> DEFINE d == BeginsFrame(c, f)
           x == Append(w, f)
<1>1. c \in Streams /\ w \in Seq(KissFrames) /\ t \in Seq(KissFrames) /\ ~c.busy /\ c.line = <<>>
  BY DEF StreamInv, Rests
<1>2. x \in Seq(KissFrames) /\ Len(x) = Len(w) + 1 /\ x[Len(x)] = f
      /\ \A i \in 1 .. Len(w) : x[i] = w[i]
  BY <1>1, AppendProperties
<1>3. Len(w) \in Nat /\ Len(t) \in Nat
  BY <1>1, LenProperties
<1>4. /\ d \in Streams /\ d.busy /\ d.line = <<FEND, f.cmd>> /\ d.left = f.frame
      /\ d.kiss = c.kiss
  <2>1. FEND \in Octet /\ f.cmd \in Octet /\ f.frame \in Seq(Octet)
    BY DEF KissFrames, DataCommands, Ax25Commands, CmdAx25, CmdCallsign, CmdData, Octet, FEND
  <2>2. <<FEND, f.cmd>> \in Seq(Octet)
    BY <2>1
  <2> QED BY <1>1, <2>1, <2>2 DEF BeginsFrame, Streams
<1>5. x # <<>>
  BY <1>2, <1>3, EmptySeq
<1>6. TellsOf(t, w, Len(w), afterJunk)
  BY RestTells, TellsAll, <1>1
<1>7. TellsOf(t, x, Len(x) - 1, afterJunk)
  BY <1>2, <1>3, <1>6 DEF TellsOf
<1>8. (Closes(c.kiss) => afterJunk /\ Len(x) = 1) /\ (c.kiss.escape => afterJunk /\ Len(x) <= 2)
  <2>1. CASE Before(c, w, t, afterJunk)
    <3>1. Len(w) = 0
      BY <2>1, EmptySeq DEF Before
    <3> QED BY <3>1, <1>2, <2>1 DEF Before, KissReset, Closes
  <2>2. CASE Between(c, w, t, afterJunk)
    <3>1. ~Closes(c.kiss) /\ (c.kiss.escape => afterJunk) /\ (c.kiss.escape => Len(w) = 1)
      BY <2>2 DEF Between
    <3>2. Len(w) = 1 => Len(x) <= 2
      BY <1>2, <1>3
    <3> HIDE DEF x
    <3> QED BY <3>1, <3>2
  <2>3. c.line # <<FEND>>
    BY <1>1
  <2> QED BY <2>1, <2>2, <2>3, <1>1 DEF StreamInv, Opening, Commanding, Within, Lost, At,
          AllRead, LastUnread, HalfRead, Closing
<1>9. Opening(d, x, t, afterJunk)
  BY <1>2, <1>4, <1>5, <1>7, <1>8 DEF Opening
<1> QED BY <1>1, <1>2, <1>4, <1>9 DEF StreamInv

LEMMA PieceWrites ==
    ASSUME NEW c, NEW w, NEW t, NEW afterJunk \in BOOLEAN, StreamInv(c, w, t, afterJunk),
           CanWritePiece(c)
    PROVE  StreamInv(PieceWritten(c), w, t, afterJunk)
<1> DEFINE d == PieceWritten(c)
<1>1. c \in Streams /\ w \in Seq(KissFrames) /\ t \in Seq(KissFrames) /\ c.busy /\ c.line = <<>>
  BY DEF StreamInv, CanWritePiece
<1>2. c.left \in Seq(Octet) /\ Len(c.left) \in Nat
  BY <1>1, LenProperties DEF Streams
<1>3. c.left = <<>> <=> Len(c.left) = 0
  BY <1>2, EmptySeq
<1>4. ASSUME c.left # <<>>
      PROVE  /\ Head(c.left) \in Octet /\ Head(c.left) = c.left[1] /\ Tail(c.left) \in Seq(Octet)
             /\ Len(Tail(c.left)) = Len(c.left) - 1
             /\ \A i \in 1 .. Len(c.left) - 1 : Tail(c.left)[i] = c.left[i + 1]
  BY <1>2, <1>4, HeadTailProperties
<1>5. \A b \in Octet : Escaped(b) \in Seq(Octet) /\ \A i \in 1 .. Len(Escaped(b)) : Escaped(b)[i] # FEND
  BY EscapedBytes
<1>6. d \in Streams /\ d.kiss = c.kiss
  <2>1. CASE c.left = <<>>
    <3>1. <<FEND>> \in Seq(Octet)
      BY DEF Octet, FEND
    <3> QED BY <1>1, <2>1, <3>1 DEF PieceWritten, Streams
  <2>2. CASE c.left # <<>>
    BY <1>1, <1>4, <1>5, <2>2 DEF PieceWritten, Streams
  <2> QED BY <2>1, <2>2
<1>7. CASE Within(c, w, t, afterJunk)
  <2> DEFINE f == w[Len(w)].frame
  <2>1. w # <<>> /\ Len(w) \in Nat \ {0} /\ f \in Seq(Octet) /\ Len(f) \in Nat
    <3>1. w # <<>> /\ Len(w) \in Nat \ {0}
      BY <1>1, <1>7, EmptySeq, LenProperties DEF Within
    <3>2. w[Len(w)] \in KissFrames
      BY <1>1, <3>1, ElementOfSeq
    <3> QED BY <3>1, <3>2, LenProperties DEF KissFrames
  <2>2. PICK g \in Seq(Octet), j \in 0 .. Len(f) : At(c, w, t, g, j, afterJunk)
    BY <1>7 DEF Within
  <2>3. Reading(g, f, w, afterJunk) /\ Follows(c.left, f, j) /\ AllRead(c, w, g, j, afterJunk)
    <3>1. c.line # <<FEND>> /\ \A b : c.line # Escaped(b) /\ (b \in {FEND, FESC} => c.line # Tail(Escaped(b)))
      BY <1>1 DEF Escaped, FEND, FESC, TFEND, TFESC
    <3> QED BY <2>2, <3>1 DEF At, LastUnread, HalfRead, Closing
  <2>4. CASE c.left = <<>>
    <3>1. d.line = <<FEND>> /\ ~d.busy /\ d.left = c.left /\ j = Len(f)
      BY <2>4, <2>3, <1>1, <1>3, <2>1 DEF PieceWritten, Streams, Follows
    <3>2. At(d, w, t, g, j, afterJunk)
      BY <3>1, <2>3, <1>6 DEF At, Closing, AllRead, OpenAtFirst
    <3> QED BY <3>2, <1>1, <1>6, <1>7 DEF StreamInv, Within
  <2>5. CASE c.left # <<>>
    <3>1. d.line = Escaped(c.left[1]) /\ d.busy /\ d.left = Tail(c.left)
      BY <2>5, <1>1, <1>4 DEF PieceWritten, Streams
    <3>2. j + 1 \in 0 .. Len(f) /\ c.left[1] = f[j + 1]
      BY <2>5, <2>3, <1>2, <1>3, <2>1 DEF Follows
    <3>3. Follows(d.left, f, j + 1)
      <4>1. Len(c.left) = Len(f) - j /\ \A i \in 1 .. Len(c.left) : c.left[i] = f[j + i]
        BY <2>3 DEF Follows
      <4>2. Len(d.left) = Len(f) - (j + 1)
        BY <4>1, <3>1, <1>4, <2>5, <1>2, <2>1
      <4>3. ASSUME NEW i \in 1 .. Len(d.left)
            PROVE  d.left[i] = f[j + 1 + i]
        <5>1. i \in 1 .. Len(c.left) - 1 /\ i + 1 \in 1 .. Len(c.left) /\ j + (i + 1) = j + 1 + i
          BY <4>1, <4>2, <1>2, <2>1
        <5>2. d.left[i] = c.left[i + 1]
          BY <5>1, <3>1, <1>4, <2>5
        <5> QED BY <5>1, <5>2, <4>1
      <4> QED BY <4>2, <4>3 DEF Follows
    <3>4. LastUnread(d, w, g, f, j + 1, afterJunk)
      BY <3>1, <3>2, <2>3, <1>6 DEF LastUnread, AllRead, OpenAtFirst
    <3>5. At(d, w, t, g, j + 1, afterJunk)
      BY <3>3, <3>4, <2>3 DEF At
    <3> QED BY <3>5, <3>2, <1>1, <1>6, <1>7 DEF StreamInv, Within
  <2> QED BY <2>4, <2>5
<1>8. CASE Lost(c, w, t, afterJunk)
  <2>1. Lost(d, w, t, afterJunk)
    <3>1. CASE c.left = <<>>
      BY <1>1, <1>6, <1>8, <3>1 DEF PieceWritten, Lost, Streams
    <3>2. CASE c.left # <<>>
      BY <1>1, <1>4, <1>5, <1>6, <1>8, <3>2 DEF PieceWritten, Lost, Streams
    <3> QED BY <3>1, <3>2
  <2> QED BY <2>1, <1>1, <1>6 DEF StreamInv
<1>9. c.line # <<FEND, w[Len(w)].cmd>> /\ c.line # <<w[Len(w)].cmd>>
  BY <1>1
<1> QED BY <1>1, <1>7, <1>8, <1>9 DEF StreamInv, Before, Between, Opening, Commanding

-----------------------------------------------------------------------------

LEMMA KissReadTypes ==
    ASSUME NEW k \in KissStates, NEW b \in Octet
    PROVE  KissRead(k, b) \in KissStates
<1>1. Unescaped(k.escape, b) \in Octet
  BY DEF Unescaped, Octet, FEND, FESC
<1>2. Append(k.frame, Unescaped(k.escape, b)) \in Seq(Octet)
  BY <1>1, AppendProperties DEF KissStates
<1>3. b % 16 \in 0 .. 15
  BY DEF Octet
<1>4. <<>> \in Seq(Octet)
  BY EmptySeq
<1> QED BY <1>2, <1>3, <1>4 DEF KissRead, End, KissStates

LEMMA DecodedTypes ==
    ASSUME NEW k \in KissStates, NEW b \in Octet, NEW t \in Seq(KissFrames)
    PROVE  /\ t \o Decoded(k, b) \in Seq(KissFrames)
           /\ Decoded(k, b) = <<>> => t \o Decoded(k, b) = t
           /\ Decoded(k, b) \in Seq(KissFrames)
<1>1. Decoded(k, b) \in Seq(KissFrames)
  <2>1. CASE b = FEND /\ Closes(k) /\ k.frame # <<>>
    <3>1. [cmd |-> k.cmd, frame |-> k.frame] \in KissFrames
      BY <2>1 DEF Closes, CarriesData, KissFrames, KissStates
    <3> QED BY <2>1, <3>1 DEF Decoded
  <2>2. CASE ~(b = FEND /\ Closes(k) /\ k.frame # <<>>)
    <3>1. Decoded(k, b) = <<>>
      BY <2>2 DEF Decoded
    <3> QED BY <3>1, EmptySeq
  <2> QED BY <2>1, <2>2
<1>2. t \o <<>> = t
  BY ConcatEmptySeq
<1> QED BY <1>1, <1>2, ConcatProperties

\* In a stream that is read, what is on its way
LEMMA ReadFacts ==
    ASSUME NEW c \in Streams, c.line # <<>>
    PROVE  /\ Head(c.line) \in Octet /\ Head(c.line) = c.line[1]
           /\ ByteRead(c) \in Streams
           /\ ByteRead(c).busy = c.busy /\ ByteRead(c).left = c.left
           /\ ByteRead(c).line = Tail(c.line)
           /\ ByteRead(c).kiss = KissRead(c.kiss, Head(c.line))
<1>1. c.line \in Seq(Octet) /\ c.kiss \in KissStates
  BY DEF Streams
<1>2. Head(c.line) \in Octet /\ Head(c.line) = c.line[1] /\ Tail(c.line) \in Seq(Octet)
  BY <1>1, HeadTailProperties
<1>3. KissRead(c.kiss, Head(c.line)) \in KissStates
  BY <1>1, <1>2, KissReadTypes
<1> QED BY <1>2, <1>3 DEF ByteRead, Streams

LEMMA OpeningReads ==
    ASSUME NEW c, NEW w, NEW t, NEW afterJunk \in BOOLEAN, StreamInv(c, w, t, afterJunk),
           Opening(c, w, t, afterJunk)
    PROVE  StreamInv(ByteRead(c), w, t \o FramesRead(c), afterJunk)
<1> DEFINE d == ByteRead(c)
<1>1. c \in Streams /\ w \in Seq(KissFrames) /\ t \in Seq(KissFrames)
  BY DEF StreamInv
<1>2. w[Len(w)] \in KissFrames
  BY <1>1, ElementOfSeq, EmptySeq, LenProperties DEF Opening
<1>3. w[Len(w)].cmd \in Octet /\ w[Len(w)].cmd # FEND /\ FEND \in Octet
  BY <1>2 DEF KissFrames, DataCommands, Ax25Commands, CmdAx25, CmdCallsign, CmdData, Octet, FEND
<1>4. c.line # <<>> /\ Head(c.line) = FEND /\ Tail(c.line) = <<w[Len(w)].cmd>>
  BY <1>3 DEF Opening
<1>5. /\ d \in Streams /\ d.busy = c.busy /\ d.left = c.left /\ d.line = <<w[Len(w)].cmd>>
      /\ d.kiss = End(c.kiss) /\ c.kiss \in KissStates
  BY <1>1, <1>4, ReadFacts DEF KissRead, Streams
<1>6. t \o FramesRead(c) \in Seq(KissFrames)
  BY <1>1, <1>3, <1>4, <1>5, DecodedTypes DEF FramesRead
<1>7. CASE Closes(c.kiss)
  <2>1. ~d.kiss.inFrame /\ afterJunk /\ Len(w) = 1
    BY <1>5, <1>7 DEF End, Opening, KissStates
  <2>2. \A i \in 1 .. Len(d.line) : d.line[i] # FEND
    BY <1>5, <1>3
  <2>3. Lost(d, w, t \o FramesRead(c), afterJunk)
    BY <2>1, <2>2, <1>5 DEF Lost, Opening
  <2> QED BY <2>3, <1>1, <1>5, <1>6 DEF StreamInv
<1>8. CASE ~Closes(c.kiss)
  <2>1. t \o FramesRead(c) = t
    BY <1>1, <1>3, <1>4, <1>5, <1>8, DecodedTypes DEF FramesRead, Decoded
  <2>2. /\ d.kiss.inFrame /\ d.kiss.cmd = CmdUnknown /\ d.kiss.frame = <<>>
        /\ d.kiss.escape = c.kiss.escape
    BY <1>5, <1>8 DEF End, KissStates
  <2>3. Commanding(d, w, t, afterJunk)
    BY <2>2, <1>5 DEF Opening, Commanding
  <2> QED BY <2>1, <2>3, <1>1, <1>5 DEF StreamInv
<1> QED BY <1>7, <1>8

LEMMA CommandReads ==
    ASSUME NEW c, NEW w, NEW t, NEW afterJunk \in BOOLEAN, StreamInv(c, w, t, afterJunk),
           Commanding(c, w, t, afterJunk)
    PROVE  StreamInv(ByteRead(c), w, t \o FramesRead(c), afterJunk)
<1> DEFINE d == ByteRead(c)
           f == w[Len(w)].frame
<1>1. c \in Streams /\ w \in Seq(KissFrames) /\ t \in Seq(KissFrames)
  BY DEF StreamInv
<1>2. w[Len(w)] \in KissFrames
  BY <1>1, ElementOfSeq, EmptySeq, LenProperties DEF Commanding
<1>3. /\ w[Len(w)].cmd \in Octet /\ w[Len(w)].cmd # FEND /\ w[Len(w)].cmd % 16 = w[Len(w)].cmd
      /\ f \in Seq(Octet) /\ Len(f) \in Nat
  BY <1>2, LenProperties DEF KissFrames, DataCommands, Ax25Commands, CmdAx25, CmdCallsign, CmdData, Octet, FEND
<1>4. c.line # <<>> /\ Head(c.line) = w[Len(w)].cmd /\ Tail(c.line) = <<>>
  BY <1>3 DEF Commanding
<1>5. /\ d \in Streams /\ d.busy = c.busy /\ d.left = c.left /\ d.line = <<>>
      /\ d.kiss = KissRead(c.kiss, w[Len(w)].cmd) /\ c.kiss \in KissStates
  BY <1>1, <1>4, ReadFacts DEF Streams
<1>6. t \o FramesRead(c) = t
  BY <1>1, <1>3, <1>4, <1>5, DecodedTypes DEF FramesRead, Decoded
<1>7. Len(<<>>) = 0 /\ 0 < MaxPayload
  BY EmptySeq, SizeAssumption
<1>8. /\ d.kiss.inFrame /\ d.kiss.cmd = w[Len(w)].cmd /\ d.kiss.frame = <<>>
      /\ d.kiss.escape = c.kiss.escape
  BY <1>3, <1>5, <1>7, SizeAssumption DEF KissRead, Commanding, KissStates
<1>9. At(d, w, t, f, 0, afterJunk)
  <2>1. Reading(f, f, w, afterJunk)
    BY DEF Reading
  <2>2. Follows(d.left, f, 0)
    BY <1>5, <1>3 DEF Commanding, Follows
  <2>3. Made(d.kiss.frame, f, 0)
    BY <1>7, <1>8 DEF Made
  <2>4. OpenAtFirst(d, w, 0, afterJunk)
    BY <1>8 DEF Commanding, OpenAtFirst
  <2> QED BY <2>1, <2>2, <2>3, <2>4, <1>5 DEF At, AllRead, Commanding
<1>10. Within(d, w, t, afterJunk)
  BY <1>3, <1>8, <1>9 DEF Within, Commanding
<1> QED BY <1>1, <1>5, <1>6, <1>10 DEF StreamInv

LEMMA LostReads ==
    ASSUME NEW c, NEW w, NEW t, NEW afterJunk \in BOOLEAN, StreamInv(c, w, t, afterJunk),
           Lost(c, w, t, afterJunk), c.line # <<>>
    PROVE  StreamInv(ByteRead(c), w, t \o FramesRead(c), afterJunk)
<1> DEFINE d == ByteRead(c)
<1>1. c \in Streams /\ w \in Seq(KissFrames) /\ t \in Seq(KissFrames) /\ c.kiss \in KissStates
      /\ c.line \in Seq(Octet)
  BY DEF StreamInv, Streams
<1>2. /\ d \in Streams /\ d.busy = c.busy /\ d.line = Tail(c.line)
      /\ d.kiss = KissRead(c.kiss, Head(c.line)) /\ Head(c.line) = c.line[1]
      /\ Head(c.line) \in Octet
  BY <1>1, ReadFacts
<1>3. t \o FramesRead(c) = t
  BY <1>1, <1>2, DecodedTypes DEF FramesRead, Decoded, Closes, Lost
<1>4. CASE c.busy
  <2>1. Head(c.line) # FEND
    BY <1>1, <1>2, <1>4, EmptySeq, LenProperties DEF Lost
  <2>2. d.kiss = c.kiss
    BY <1>2, <2>1 DEF KissRead, Lost
  <2>3. \A i \in 1 .. Len(Tail(c.line)) : Tail(c.line)[i] = c.line[i + 1] /\ i + 1 \in 1 .. Len(c.line)
    BY <1>1, HeadTailProperties, LenProperties
  <2>4. Lost(d, w, t, afterJunk)
    BY <1>2, <1>4, <2>2, <2>3 DEF Lost
  <2> QED BY <2>4, <1>1, <1>2, <1>3 DEF StreamInv
<1>5. CASE ~c.busy
  <2>1. Head(c.line) = FEND /\ Tail(c.line) = <<>>
    <3>1. c.line = <<FEND>>
      BY <1>5 DEF Lost
    <3> QED BY <3>1
  <2>2. d.kiss.cmd = CmdUnknown
    BY <1>1, <1>2, <2>1 DEF KissRead, End, Closes, Lost, KissStates
  <2>3. ~Closes(d.kiss)
    BY <2>2 DEF Closes, CarriesData, CmdUnknown, DataCommands, Ax25Commands, CmdAx25, CmdCallsign,
       CmdData
  <2>4. Len(t) \in Nat /\ Len(w) = 1 /\ afterJunk /\ w # <<>>
    <3>1. Len(w) = 1 /\ afterJunk /\ Len(<<>>) = 0
      BY EmptySeq DEF Lost
    <3>2. w # <<>>
      BY <3>1
    <3>3. Len(t) \in Nat
      BY <1>1, LenProperties
    <3> QED BY <3>1, <3>2, <3>3
  <2>5. TellsOf(t, w, Len(w), afterJunk)
    BY <2>4 DEF TellsOf
  <2>6. Between(d, w, t, afterJunk)
    BY <1>2, <1>5, <2>1, <2>3, <2>4, <2>5 DEF Between
  <2> QED BY <2>6, <1>1, <1>2, <1>3 DEF StreamInv
<1> QED BY <1>4, <1>5

\* What both readings of a frame have in common
LEMMA ReadingFacts ==
    ASSUME NEW f \in Seq(Octet), f # <<>>, NEW w \in Seq(KissFrames), NEW afterJunk \in BOOLEAN,
           NEW g, Reading(g, f, w, afterJunk)
    PROVE  /\ g \in Seq(Octet) /\ Len(g) = Len(f)
           /\ \A i \in 2 .. Len(f) : g[i] = f[i]
           /\ Len(f) \in Nat \ {0} /\ f[1] \in Octet
           /\ 1 \in 1 .. Len(f)
<1>1. Len(f) \in Nat \ {0} /\ 1 \in 1 .. Len(f) /\ f[1] \in Octet
  BY EmptySeq, LenProperties, ElementOfSeq
<1>2. g # f => g = [f EXCEPT ![1] = Unescaped(TRUE, f[1])] /\ afterJunk /\ Len(w) <= 2
  BY DEF Reading
<1>3. Unescaped(TRUE, f[1]) \in Octet
  BY <1>1 DEF Unescaped, Octet, FEND, FESC
<1>4. CASE g = f
  BY <1>4, <1>1
<1>5. CASE g = [f EXCEPT ![1] = Unescaped(TRUE, f[1])]
  <2>1. g \in Seq(Octet) /\ Len(g) = Len(f) /\ \A i \in 1 .. Len(f) : g[i] = IF i = 1 THEN Unescaped(TRUE, f[1]) ELSE f[i]
    <3> DEFINE u == Unescaped(TRUE, f[1])
    <3>1. u \in Octet /\ 1 \in 1 .. Len(f) /\ g = [f EXCEPT ![1] = u]
      BY <1>1, <1>3, <1>5
    <3> HIDE DEF u
    <3>2. /\ [f EXCEPT ![1] = u] \in Seq(Octet) /\ Len([f EXCEPT ![1] = u]) = Len(f)
          /\ \A i \in 1 .. Len(f) : [f EXCEPT ![1] = u][i] = IF i = 1 THEN u ELSE f[i]
      BY <3>1, ExceptSeq
    <3>3. g \in Seq(Octet) /\ Len(g) = Len(f) /\ \A i \in 1 .. Len(f) : g[i] = IF i = 1 THEN u ELSE f[i]
      BY <3>1, <3>2
    <3> USE DEF u
    <3> QED BY <3>3
  <2>2. ASSUME NEW i \in 2 .. Len(f)
        PROVE  g[i] = f[i]
    <3>1. i \in 1 .. Len(f) /\ i # 1
      BY <1>1
    <3> QED BY <3>1, <2>1
  <2> QED BY <2>1, <2>2, <1>1, <1>2
<1> QED BY <1>2, <1>4, <1>5

\* The byte x, j-th of the frame, is read: one more byte is made, or there is
\* no room for it.
LEMMA ByteMade ==
    ASSUME NEW f \in Seq(Octet), f # <<>>, NEW w \in Seq(KissFrames), NEW afterJunk \in BOOLEAN,
           NEW g \in Seq(Octet), Reading(g, f, w, afterJunk), NEW j \in 1 .. Len(f),
           NEW m \in Seq(Octet), Made(m, g, j - 1), NEW d \in Seq(Octet), NEW b \in Octet,
           Len(m) >= MaxPayload => d = m,
           Len(m) < MaxPayload => d = Append(m, b),
           Len(m) < MaxPayload =>
               b = f[j] \/ (j = 1 /\ afterJunk /\ Len(w) <= 2 /\ b = Unescaped(TRUE, f[1]))
    PROVE  \E h \in Seq(Octet) : Reading(h, f, w, afterJunk) /\ Made(d, h, j)
<1>1. /\ Len(g) = Len(f) /\ (\A i \in 2 .. Len(f) : g[i] = f[i]) /\ Len(f) \in Nat \ {0}
      /\ f[1] \in Octet
  <2>1. g \in Seq(Octet) /\ Len(g) = Len(f) /\ \A i \in 2 .. Len(f) : g[i] = f[i]
    BY ReadingFacts
  <2>2. Len(f) \in Nat \ {0} /\ f[1] \in Octet
    BY ReadingFacts
  <2> QED BY <2>1, <2>2
<1>2. MaxPayload \in Nat /\ MaxPayload > 3
  BY SizeAssumption
<1>3. m \in Seq(Octet) /\ Len(m) \in Nat
  BY LenProperties
<1>4. Len(m) = IF j - 1 < MaxPayload THEN j - 1 ELSE MaxPayload
  BY DEF Made
<1>5. CASE Len(m) >= MaxPayload
  <2>1. Len(d) = MaxPayload /\ j > MaxPayload
    BY <1>1, <1>2, <1>3, <1>4, <1>5
  <2>2. Made(d, g, j)
    BY <2>1, <1>5, <1>2, <1>1 DEF Made
  <2> QED BY <2>2
<1>6. CASE Len(m) < MaxPayload
  <2>1. Len(m) = j - 1 /\ j <= MaxPayload
    BY <1>1, <1>2, <1>3, <1>4, <1>6
  <2>2. d = Append(m, b)
    BY <1>2, <1>3, <1>6
  <2>3. Len(d) = j /\ d[j] = b /\ \A i \in 1 .. j - 1 : d[i] = g[i]
    <3>1. Len(d) = Len(m) + 1 /\ d[Len(m) + 1] = b /\ \A i \in 1 .. Len(m) : d[i] = m[i]
      BY <2>2, <1>3, AppendProperties
    <3>2. Len(m) + 1 = j
      BY <2>1, <1>1
    <3> QED BY <3>1, <3>2, <2>1 DEF Made
  <2>4. CASE j = 1
    <3>1. PICK h \in Seq(Octet) : Reading(h, f, w, afterJunk) /\ h[1] = b
      <4>1. CASE b = f[1]
        BY <4>1 DEF Reading
      <4>2. CASE b # f[1]
        <5> DEFINE h == [f EXCEPT ![1] = Unescaped(TRUE, f[1])]
        <5>1. Reading(h, f, w, afterJunk)
          BY <4>2, <2>4, <1>6 DEF Reading
        <5>3. h[1] = b
          <6>1. 1 \in DOMAIN f /\ b = Unescaped(TRUE, f[1])
            BY <4>2, <2>4, <1>6, <1>1, LenProperties
          <6> QED BY <6>1
        <5> HIDE DEF h
        <5>4. h \in Seq(Octet)
          BY <5>1, ReadingFacts
        <5> QED BY <5>1, <5>3, <5>4
      <4> QED BY <4>1, <4>2
    <3>2. Made(d, h, j)
      BY <3>1, <2>1, <2>3, <2>4, <1>2 DEF Made
    <3> QED BY <3>1, <3>2
  <2>5. CASE j # 1
    <3>1. b = f[j] /\ g[j] = f[j]
      <4>1. j \in 2 .. Len(f)
        BY <2>5, <1>1
      <4> QED BY <4>1, <2>5, <1>6, <1>1
    <3>2. Made(d, g, j)
      BY <3>1, <2>1, <2>3, <1>2 DEF Made
    <3> QED BY <3>2
  <2> QED BY <2>4, <2>5
<1> QED BY <1>2, <1>3, <1>5, <1>6


\* A byte of data within a frame
LEMMA DataByte ==
    ASSUME NEW k \in KissStates, k.inFrame, k.cmd \in DataCommands, NEW b \in Octet, b # FEND
    PROVE  /\ KissRead(k, b).inFrame /\ KissRead(k, b).cmd = k.cmd
           /\ Len(k.frame) >= MaxPayload => KissRead(k, b) = k
           /\ Len(k.frame) < MaxPayload /\ b = FESC =>
                  KissRead(k, b).frame = k.frame /\ KissRead(k, b).escape
           /\ Len(k.frame) < MaxPayload /\ b # FESC =>
                  /\ KissRead(k, b).frame = Append(k.frame, Unescaped(k.escape, b))
                  /\ ~KissRead(k, b).escape
<1>1. k.cmd # CmdUnknown /\ CarriesData(k.cmd)
  BY DEF CarriesData, DataCommands, Ax25Commands, CmdAx25, CmdCallsign, CmdData, CmdUnknown
<1>2. Len(k.frame) \in Nat /\ MaxPayload \in Nat
  BY LenProperties, SizeAssumption DEF KissStates
<1>3. Len(k.frame) >= MaxPayload <=> ~(Len(k.frame) < MaxPayload)
  BY <1>2
<1> QED BY <1>1, <1>3 DEF KissRead, KissStates

\* What a decoder makes of a whole frame
LEMMA FrameMade ==
    ASSUME NEW w \in Seq(KissFrames), w # <<>>, NEW afterJunk \in BOOLEAN, NEW g,
           Reading(g, w[Len(w)].frame, w, afterJunk), NEW d \in Seq(Octet),
           Made(d, g, Len(w[Len(w)].frame))
    PROVE  /\ d # <<>>
           /\ \/ [cmd |-> w[Len(w)].cmd, frame |-> d] = Room(w[Len(w)])
              \/ /\ afterJunk /\ Len(w) <= 2
                 /\ [cmd |-> w[Len(w)].cmd, frame |-> d] = AfterEscape(Room(w[Len(w)]))
<1> DEFINE x == w[Len(w)]
           f == x.frame
           m == IF Len(f) < MaxPayload THEN Len(f) ELSE MaxPayload
           r == SubSeq(f, 1, m)
<1>1. x \in KissFrames
  BY ElementOfSeq, EmptySeq, LenProperties
<1>2. f \in Seq(Octet) /\ f # <<>> /\ Len(f) \in Nat \ {0}
  BY <1>1, EmptySeq, LenProperties DEF KissFrames
<1> HIDE DEF x
<1>3. MaxPayload \in Nat /\ MaxPayload > 3
  BY SizeAssumption
<1>4. m \in 1 .. Len(f) /\ 1 \in 1 .. m
  BY <1>2, <1>3
<1>5. Len(d) = m /\ \A i \in 1 .. m : d[i] = g[i]
  BY <1>2, <1>3 DEF Made, x
<1>6. r \in Seq(Octet) /\ Len(r) = m /\ \A i \in 1 .. m : r[i] = f[i]
  <2>1. r \in Seq(Octet)
    BY <1>2, <1>4, SubSeqProperties
  <2>2. Len(r) = m
    BY <1>2, <1>4, SubSeqProperties
  <2>3. \A i \in 1 .. m : r[i] = f[i]
    BY <1>2, <1>4, SubSeqProperties
  <2> QED BY <2>1, <2>2, <2>3
<1>7. Room(x) = [cmd |-> x.cmd, frame |-> r]
  BY DEF Room, Cut
<1> HIDE DEF r, m
<1>8. d # <<>>
  BY <1>4, <1>5, EmptySeq
<1>9. CASE g = f
  <2>1. d = r
    BY <1>5, <1>6, <1>9, SeqEqual
  <2> QED BY <2>1, <1>7, <1>8 DEF x
<1>10. CASE g = [f EXCEPT ![1] = Unescaped(TRUE, f[1])] /\ afterJunk /\ Len(w) <= 2
  <2> DEFINE u == Unescaped(TRUE, f[1])
  <2>1. u \in Octet
    <3>1. f[1] \in Octet
      BY <1>2, ElementOfSeq
    <3> QED BY <3>1 DEF Unescaped, Octet, FEND, FESC
  <2>2. g = [f EXCEPT ![1] = u]
    BY <1>10
  <2>3. r[1] = f[1]
    BY <1>4, <1>6
  <2>4. AfterEscape(Room(x)) = [cmd |-> x.cmd, frame |-> [r EXCEPT ![1] = u]]
    <3> DEFINE y == Room(x)
    <3>1. y = [cmd |-> x.cmd, frame |-> r] /\ y.frame = r
      BY <1>7
    <3>2. AfterEscape(y) = [y EXCEPT !.frame = [r EXCEPT ![1] = u]]
      BY <3>1, <2>3 DEF AfterEscape
    <3> HIDE DEF y
    <3>3. AfterEscape(y) = [cmd |-> x.cmd, frame |-> [r EXCEPT ![1] = u]]
      BY <3>1, <3>2
    <3> QED BY <3>3 DEF y
  <2> HIDE DEF u
  <2>5. \A i \in 1 .. Len(f) : g[i] = IF i = 1 THEN u ELSE f[i]
    BY <2>2, <1>2, LenProperties
  <2>6. /\ [r EXCEPT ![1] = u] \in Seq(Octet) /\ Len([r EXCEPT ![1] = u]) = m
        /\ \A i \in 1 .. m : [r EXCEPT ![1] = u][i] = IF i = 1 THEN u ELSE r[i]
    BY <1>4, <1>6, <2>1, ExceptSeq
  <2>7. \A i \in 1 .. m : d[i] = [r EXCEPT ![1] = u][i]
    <3>1. SUFFICES ASSUME NEW i \in 1 .. m PROVE d[i] = [r EXCEPT ![1] = u][i]
      OBVIOUS
    <3>2. i \in 1 .. Len(f)
      BY <1>2, <1>4
    <3> QED BY <3>2, <1>5, <1>6, <2>5, <2>6
  <2>8. d = [r EXCEPT ![1] = u]
    BY <2>6, <2>7, <1>5, SeqEqual
  <2> QED BY <2>4, <2>8, <1>8, <1>10 DEF x
<1>11. (g = f) \/ (g = [f EXCEPT ![1] = Unescaped(TRUE, f[1])] /\ afterJunk /\ Len(w) <= 2)
  BY DEF Reading, x
<1> QED BY <1>9, <1>10, <1>11

\* The last frame has been decoded.
LEMMA OneMoreTold ==
    ASSUME NEW w \in Seq(KissFrames), w # <<>>, NEW t \in Seq(KissFrames),
           NEW afterJunk \in BOOLEAN, TellsOf(t, w, Len(w) - 1, afterJunk), NEW e \in KissFrames,
           e = Room(w[Len(w)])
               \/ (afterJunk /\ Len(w) <= 2 /\ e = AfterEscape(Room(w[Len(w)])))
    PROVE  TellsOf(Append(t, e), w, Len(w), afterJunk)
<1> DEFINE n == Len(w)
           v == Append(t, e)
<1>1. n \in Nat \ {0} /\ Len(t) \in Nat
  BY EmptySeq, LenProperties
<1>2. Len(v) = Len(t) + 1 /\ v[Len(t) + 1] = e /\ \A i \in 1 .. Len(t) : v[i] = t[i]
  BY AppendProperties
<1> HIDE DEF n, v
<1>3. /\ Len(t) >= n - 2
      /\ \A i \in 2 .. n - 1 :
            \/ t[Len(t) - (n - 1) + i] = Room(w[i])
            \/ i = 2 /\ afterJunk /\ t[Len(t) - (n - 1) + i] = AfterEscape(Room(w[i]))
      /\ ~afterJunk => Len(t) = n - 1 /\ \A i \in 1 .. n - 1 : t[i] = Room(w[i])
  <2>1. n - 1 - 1 = n - 2
    BY <1>1
  <2> QED BY <2>1 DEF TellsOf, n
<1>4. Len(v) >= n - 1
  BY <1>1, <1>2, <1>3
<1>5. ASSUME NEW i \in 2 .. n
      PROVE  \/ v[Len(v) - n + i] = Room(w[i])
             \/ i = 2 /\ afterJunk /\ v[Len(v) - n + i] = AfterEscape(Room(w[i]))
  <2>1. CASE i = n
    <3>1. Len(v) - n + i = Len(t) + 1
      BY <2>1, <1>1, <1>2
    <3>2. v[Len(v) - n + i] = e
      BY <3>1, <1>2
    <3>3. Len(w) <= 2 => i = 2
      BY <2>1, <1>1 DEF n
    <3> QED BY <3>2, <3>3, <2>1 DEF n
  <2>2. CASE i # n
    <3>1. i \in 2 .. n - 1 /\ Len(v) - n + i = Len(t) - (n - 1) + i
      BY <2>2, <1>1, <1>2
    <3>2. Len(t) - (n - 1) + i \in 1 .. Len(t)
      BY <3>1, <1>1, <1>3
    <3>3. v[Len(v) - n + i] = t[Len(t) - (n - 1) + i]
      BY <3>1, <3>2, <1>2
    <3> QED BY <3>1, <3>3, <1>3
  <2> QED BY <2>1, <2>2
<1>6. ASSUME ~afterJunk
      PROVE  Len(v) = n /\ \A i \in 1 .. n : v[i] = Room(w[i])
  <2>1. Len(v) = n /\ Len(t) + 1 = n
    BY <1>1, <1>2, <1>3, <1>6
  <2>2. ASSUME NEW i \in 1 .. n
        PROVE  v[i] = Room(w[i])
    <3>1. CASE i = n
      BY <3>1, <2>1, <1>2, <1>6 DEF n
    <3>2. CASE i # n
      <4>1. i \in 1 .. n - 1 /\ i \in 1 .. Len(t)
        BY <3>2, <2>1, <1>1
      <4> QED BY <4>1, <1>2, <1>3, <1>6
    <3> QED BY <3>1, <3>2
  <2> QED BY <2>1, <2>2
<1>7. TellsOf(v, w, n, afterJunk)
  BY <1>4, <1>5, <1>6 DEF TellsOf
<1> QED BY <1>7 DEF v, n


LEMMA WithinReads ==
    ASSUME NEW c, NEW w, NEW t, NEW afterJunk \in BOOLEAN, StreamInv(c, w, t, afterJunk),
           Within(c, w, t, afterJunk), c.line # <<>>
    PROVE  StreamInv(ByteRead(c), w, t \o FramesRead(c), afterJunk)
<1> DEFINE d == ByteRead(c)
           n == Len(w)
           f == w[n].frame
           b == Head(c.line)
           k == c.kiss
<1>1. c \in Streams /\ w \in Seq(KissFrames) /\ t \in Seq(KissFrames) /\ w # <<>>
  BY DEF StreamInv, Within
<1>2. w[n] \in KissFrames /\ n \in Nat \ {0}
  BY <1>1, ElementOfSeq, EmptySeq, LenProperties
<1>3. f \in Seq(Octet) /\ f # <<>> /\ Len(f) \in Nat \ {0} /\ w[n].cmd \in DataCommands
  BY <1>2, EmptySeq, LenProperties DEF KissFrames
<1>4. k \in KissStates /\ k.inFrame /\ k.cmd = w[n].cmd /\ c.line \in Seq(Octet) /\ k.frame \in Seq(Octet)
  BY <1>1 DEF Streams, Within, KissStates
<1>5. /\ b \in Octet /\ b = c.line[1] /\ d \in Streams /\ d.busy = c.busy /\ d.left = c.left
      /\ d.line = Tail(c.line) /\ d.kiss = KissRead(k, b)
  BY <1>1, ReadFacts
<1>6. d.kiss \in KissStates /\ d.kiss.frame \in Seq(Octet)
  BY <1>5 DEF Streams, KissStates
<1>7. PICK g \in Seq(Octet), j \in 0 .. Len(f) : At(c, w, t, g, j, afterJunk)
  BY DEF Within
<1>8. Reading(g, f, w, afterJunk) /\ Follows(c.left, f, j)
  BY <1>7 DEF At
<1>9. MaxPayload \in Nat /\ MaxPayload > 3 /\ Len(k.frame) \in Nat
  BY <1>4, SizeAssumption, LenProperties
<1>10. TellsOf(t, w, n - 1, afterJunk)
  BY DEF Within
<1>11. b # FEND => t \o FramesRead(c) = t
  BY <1>1, <1>4, <1>5, DecodedTypes DEF FramesRead, Decoded
<1> HIDE DEF d, n, f, b, k
<1>12. /\ b # FEND => d.kiss.inFrame /\ d.kiss.cmd = w[n].cmd
       /\ b # FEND /\ Len(k.frame) >= MaxPayload => d.kiss = k
       /\ b # FEND /\ Len(k.frame) < MaxPayload /\ b = FESC => d.kiss.frame = k.frame /\ d.kiss.escape
       /\ b # FEND /\ Len(k.frame) < MaxPayload /\ b # FESC =>
              d.kiss.frame = Append(k.frame, Unescaped(k.escape, b)) /\ ~d.kiss.escape
  BY <1>3, <1>4, <1>5, DataByte
\* It remains to find a place in the frame.
<1>13. ASSUME b # FEND, NEW h \in Seq(Octet), At(d, w, t, h, j, afterJunk)
       PROVE  StreamInv(d, w, t \o FramesRead(c), afterJunk)
  <2>1. Within(d, w, t, afterJunk)
    BY <1>1, <1>10, <1>12, <1>13 DEF Within, n, f
  <2> QED BY <2>1, <1>1, <1>5, <1>11, <1>13 DEF StreamInv
\* A byte that is not special, or the second of the two for one that is
<1>14. ASSUME j > 0, c.busy, Made(k.frame, g, j - 1), c.line = <<b>>, b # FEND, b # FESC,
              Len(k.frame) < MaxPayload =>
                  Unescaped(k.escape, b) = f[j]
                  \/ (j = 1 /\ afterJunk /\ n <= 2 /\ Unescaped(k.escape, b) = Unescaped(TRUE, f[1])),
              Len(k.frame) >= MaxPayload => ~k.escape
       PROVE  StreamInv(d, w, t \o FramesRead(c), afterJunk)
  <2> DEFINE u == Unescaped(k.escape, b)
  <2>1. u \in Octet
    BY <1>5 DEF Unescaped, Octet, FEND, FESC
  <2>2. j \in 1 .. Len(f)
    BY <1>3, <1>14
  <2>3. /\ Len(k.frame) >= MaxPayload => d.kiss.frame = k.frame
        /\ Len(k.frame) < MaxPayload => d.kiss.frame = Append(k.frame, u)
    BY <1>9, <1>12, <1>14
  <2>4. Len(k.frame) < MaxPayload =>
            u = f[j] \/ (j = 1 /\ afterJunk /\ n <= 2 /\ u = Unescaped(TRUE, f[1]))
    BY <1>14
  <2>5. k \in KissStates /\ Made(k.frame, g, j - 1) /\ d.kiss.frame \in Seq(Octet)
    BY <1>4, <1>6, <1>14
  <2> HIDE DEF u
  <2>6. \E h \in Seq(Octet) : Reading(h, f, w, afterJunk) /\ Made(d.kiss.frame, h, j)
    <3>1. Len(k.frame) < MaxPayload =>
              u = f[j] \/ (j = 1 /\ afterJunk /\ Len(w) <= 2 /\ u = Unescaped(TRUE, f[1]))
      BY <2>4 DEF n
    <3>2. /\ f \in Seq(Octet) /\ f # <<>> /\ w \in Seq(KissFrames) /\ g \in Seq(Octet)
          /\ Reading(g, f, w, afterJunk) /\ d.kiss.frame \in Seq(Octet)
          /\ k.frame \in Seq(Octet) /\ Made(k.frame, g, j - 1)
      BY <1>1, <1>3, <1>4, <1>8, <2>5
    <3> DEFINE m == k.frame
               v == d.kiss.frame
    <3> HIDE DEF m, v
    <3>3. /\ m \in Seq(Octet) /\ Made(m, g, j - 1) /\ v \in Seq(Octet)
          /\ Len(m) >= MaxPayload => v = m
          /\ Len(m) < MaxPayload => v = Append(m, u)
          /\ Len(m) < MaxPayload =>
                 u = f[j] \/ (j = 1 /\ afterJunk /\ Len(w) <= 2 /\ u = Unescaped(TRUE, f[1]))
      BY <2>3, <3>1, <3>2 DEF m, v
    <3>4. \E h \in Seq(Octet) : Reading(h, f, w, afterJunk) /\ Made(v, h, j)
      BY <2>1, <2>2, <3>2, <3>3, ByteMade
    <3> QED BY <3>4 DEF v
  <2>7. PICK h \in Seq(Octet) : Reading(h, f, w, afterJunk) /\ Made(d.kiss.frame, h, j)
    BY <2>6
  <2>8. ~d.kiss.escape
    BY <1>9, <1>12, <1>14
  <2>9. d.line = <<>> /\ d.busy
    BY <1>5, <1>14
  <2>10. AllRead(d, w, h, j, afterJunk)
    BY <2>7, <2>8, <2>9 DEF AllRead, OpenAtFirst
  <2>11. At(d, w, t, h, j, afterJunk)
    BY <1>5, <1>8, <2>7, <2>10 DEF At, f, n
  <2> QED BY <2>11, <1>13, <1>14
<1>15. Len(k.frame) >= MaxPayload => j >= MaxPayload \/ ~Made(k.frame, g, j)
  BY <1>3, <1>9 DEF Made
<1>16. Made(k.frame, g, j - 1) =>
          (Len(k.frame) >= MaxPayload <=> j > MaxPayload) /\ (Len(k.frame) >= MaxPayload => j - 1 # 0)
  BY <1>3, <1>9 DEF Made
<1>17. CASE LastUnread(c, w, g, f, j, afterJunk)
  <2>1. /\ j > 0 /\ c.busy /\ c.line = Escaped(f[j]) /\ Made(k.frame, g, j - 1)
        /\ k.escape => j = 1 /\ afterJunk /\ n <= 2
    BY <1>3, <1>17 DEF LastUnread, OpenAtFirst, k, n
  <2>2. CASE f[j] \in {FEND, FESC}
    <3>1. b = FESC /\ b # FEND /\ d.line = Tail(Escaped(f[j]))
      <4>1. c.line[1] = FESC
        BY <2>1, <2>2 DEF Escaped
      <4> QED BY <4>1, <2>1, <1>5 DEF FESC, FEND
    <3>2. Made(d.kiss.frame, g, j - 1) /\ (d.kiss.escape <=> j <= MaxPayload)
      <4>1. CASE Len(k.frame) >= MaxPayload
        BY <4>1, <3>1, <2>1, <1>3, <1>9, <1>12, <1>16
      <4>2. CASE Len(k.frame) < MaxPayload
        BY <4>2, <3>1, <2>1, <1>3, <1>9, <1>12, <1>16
      <4> QED BY <4>1, <4>2, <1>9
    <3>3. HalfRead(d, w, g, f, j, afterJunk)
      BY <2>1, <2>2, <3>1, <3>2, <1>5 DEF HalfRead
    <3>4. At(d, w, t, g, j, afterJunk)
      BY <3>3, <1>5, <1>8 DEF At, f, n
    <3> QED BY <3>1, <3>4, <1>13 DEF d
  <2>3. CASE f[j] \notin {FEND, FESC}
    <3>1. c.line = <<f[j]>>
      BY <2>1, <2>3 DEF Escaped
    <3>2. b = f[j] /\ c.line = <<b>> /\ b # FEND /\ b # FESC
      BY <3>1, <2>3, <1>5
    <3>3. /\ Unescaped(k.escape, b) = f[j]
             \/ (j = 1 /\ afterJunk /\ n <= 2 /\ Unescaped(k.escape, b) = Unescaped(TRUE, f[1]))
      <4>1. k.escape \in BOOLEAN
        BY <1>4 DEF KissStates
      <4>2. CASE k.escape = TRUE
        BY <4>2, <2>1, <3>2
      <4>3. CASE k.escape = FALSE
        BY <4>3, <3>2 DEF Unescaped
      <4> QED BY <4>1, <4>2, <4>3
    <3>4. Len(k.frame) >= MaxPayload => ~k.escape
      BY <2>1, <1>3, <1>16
    <3> QED BY <2>1, <3>2, <3>3, <3>4, <1>14 DEF d
  <2> QED BY <2>2, <2>3
<1>18. CASE HalfRead(c, w, g, f, j, afterJunk)
  <2>1. /\ j > 0 /\ c.busy /\ f[j] \in {FEND, FESC} /\ c.line = Tail(Escaped(f[j]))
        /\ Made(k.frame, g, j - 1) /\ (k.escape <=> j <= MaxPayload)
    BY <1>18 DEF HalfRead, k
  <2>2. c.line = IF f[j] = FEND THEN <<TFEND>> ELSE <<TFESC>>
    BY <2>1 DEF Escaped
  <2>3. c.line = <<b>> /\ b = (IF f[j] = FEND THEN TFEND ELSE TFESC)
    BY <2>2, <1>5
  <2>4. b # FEND /\ b # FESC /\ Unescaped(TRUE, b) = f[j]
    BY <2>1, <2>3 DEF Unescaped, FEND, FESC, TFEND, TFESC
  <2>5. k.escape \in BOOLEAN
    BY <1>4 DEF KissStates
  <2>6. ASSUME Len(k.frame) < MaxPayload
        PROVE  Unescaped(k.escape, b) = f[j]
    <3>1. ~(j > MaxPayload)
      BY <2>1, <2>6, <1>9, <1>16
    <3>2. k.escape = TRUE
      BY <3>1, <2>1, <2>5, <1>3, <1>9
    <3> QED BY <3>2, <2>4
  <2>7. Len(k.frame) >= MaxPayload => ~k.escape
    BY <2>1, <1>3, <1>9, <1>16
  <2> QED BY <2>1, <2>3, <2>4, <2>6, <2>7, <1>14 DEF d
<1>19. CASE Closing(c, w, g, f, j, afterJunk)
  <2>1. /\ ~c.busy /\ c.line = <<FEND>> /\ Made(k.frame, g, Len(f))
        /\ ~k.escape
    BY <1>3, <1>19 DEF Closing, OpenAtFirst, k
  <2>2. b = FEND /\ d.line = <<>>
    BY <2>1, <1>5
  <2>3. Closes(k)
    BY <1>3, <1>4 DEF Closes, CarriesData
  <2>4. ~d.kiss.inFrame /\ ~d.kiss.escape
    BY <1>4, <1>5, <2>1, <2>2, <2>3 DEF KissRead, End, KissStates
  <2>5. /\ k.frame # <<>>
        /\ \/ [cmd |-> w[n].cmd, frame |-> k.frame] = Room(w[n])
           \/ /\ afterJunk /\ n <= 2
              /\ [cmd |-> w[n].cmd, frame |-> k.frame] = AfterEscape(Room(w[n]))
    BY <1>1, <1>4, <1>8, <2>1, FrameMade DEF n, f
  <2> DEFINE e == [cmd |-> w[n].cmd, frame |-> k.frame]
  <2>6. e \in KissFrames
    BY <1>3, <1>4, <2>5 DEF KissFrames
  <2>7. t \o FramesRead(c) = Append(t, e)
    <3>1. FramesRead(c) = <<e>>
      BY <1>4, <2>2, <2>3, <2>5 DEF FramesRead, Decoded, b, k
    <3> HIDE DEF e
    <3> QED BY <3>1, <1>1, <2>6, AppendIsConcat
  <2>8. TellsOf(Append(t, e), w, n, afterJunk)
    BY <1>1, <1>10, <2>5, <2>6, OneMoreTold DEF n
  <2>9. Append(t, e) \in Seq(KissFrames)
    BY <1>1, <2>6, AppendProperties
  <2> HIDE DEF e
  <2>10. Between(d, w, Append(t, e), afterJunk)
    BY <1>1, <1>5, <2>1, <2>2, <2>4, <2>8 DEF Between, Closes, n
  <2> QED BY <1>1, <1>5, <2>7, <2>9, <2>10 DEF StreamInv, d
<1>20. ~AllRead(c, w, g, j, afterJunk)
  BY DEF AllRead
<1> QED BY <1>7, <1>17, <1>18, <1>19, <1>20 DEF At, d, f, n

\* Junk is read.
LEMMA BeforeReads ==
    ASSUME NEW c, NEW w, NEW t, NEW afterJunk \in BOOLEAN, StreamInv(c, w, t, afterJunk),
           Before(c, w, t, afterJunk), c.line # <<>>
    PROVE  StreamInv(ByteRead(c), w, t \o FramesRead(c), afterJunk)
<1>1. c \in Streams /\ w \in Seq(KissFrames) /\ t \in Seq(KissFrames) /\ c.kiss \in KissStates
  BY DEF StreamInv, Streams
<1>2. ByteRead(c) \in Streams /\ ByteRead(c).busy = c.busy /\ Head(c.line) \in Octet
  BY <1>1, ReadFacts
<1>3. t \o FramesRead(c) \in Seq(KissFrames)
  BY <1>1, <1>2, DecodedTypes DEF FramesRead
<1>4. Before(ByteRead(c), w, t \o FramesRead(c), afterJunk)
  BY <1>2 DEF Before
<1> QED BY <1>1, <1>2, <1>3, <1>4 DEF StreamInv

\* Every byte that is read keeps the stream as it should be.
LEMMA StreamReads ==
    ASSUME NEW c, NEW w, NEW t, NEW afterJunk \in BOOLEAN, StreamInv(c, w, t, afterJunk),
           c.line # <<>>
    PROVE  /\ StreamInv(ByteRead(c), w, t \o FramesRead(c), afterJunk)
           /\ FramesRead(c) \in Seq(KissFrames) /\ Len(FramesRead(c)) <= 1
<1>1. c \in Streams /\ t \in Seq(KissFrames) /\ c.kiss \in KissStates
  BY DEF StreamInv, Streams
<1>2. Head(c.line) \in Octet
  BY <1>1, ReadFacts
<1>3. FramesRead(c) \in Seq(KissFrames)
  BY <1>1, <1>2, DecodedTypes DEF FramesRead
<1>4. Len(FramesRead(c)) <= 1
  <2>1. Len(<<>>) = 0 /\ \A x : Len(<<x>>) = 1
    BY EmptySeq
  <2> QED BY <2>1 DEF FramesRead, Decoded
<1>5. ~Between(c, w, t, afterJunk)
  BY DEF Between
<1>6. StreamInv(ByteRead(c), w, t \o FramesRead(c), afterJunk)
  BY <1>5, BeforeReads, OpeningReads, CommandReads, WithinReads, LostReads DEF StreamInv
<1> QED BY <1>3, <1>4, <1>6


-----------------------------------------------------------------------------
(* The modem frame of a broadcast, and what a station makes of it          *)

LEMMA CutFacts ==
    ASSUME NEW f \in Seq(Octet), NEW n \in Nat
    PROVE  LET m == IF Len(f) < n THEN Len(f) ELSE n
           IN  /\ Cut(f, n) \in Seq(Octet) /\ Len(Cut(f, n)) = m
               /\ \A i \in 1 .. m : Cut(f, n)[i] = f[i]
<1> DEFINE m == IF Len(f) < n THEN Len(f) ELSE n
<1>1. Len(f) \in Nat /\ m \in Nat /\ m <= Len(f)
  BY LenProperties
<1>2. Cut(f, n) = SubSeq(f, 1, m)
  BY DEF Cut
<1> HIDE DEF m
<1>3. \A i \in 1 .. m : f[i] \in Octet
  BY <1>1, ElementOfSeq
<1>4. SubSeq(f, 1, m) \in Seq(Octet)
  BY <1>1, <1>3, SubSeqProperties
<1>5. Len(SubSeq(f, 1, m)) = m
  <2>1. Len(SubSeq(f, 1, m)) = IF 1 <= m THEN m - 1 + 1 ELSE 0
    BY <1>1, <1>3, SubSeqProperties
  <2> QED BY <2>1, <1>1
<1>6. ASSUME NEW i \in 1 .. m
      PROVE  SubSeq(f, 1, m)[i] = f[i]
  <2>1. \A k \in 1 .. m - 1 + 1 : SubSeq(f, 1, m)[k] = f[1 + k - 1]
    BY <1>1, <1>3, SubSeqProperties
  <2>2. i \in 1 .. m - 1 + 1 /\ 1 + i - 1 = i
    BY <1>1
  <2> QED BY <2>1, <2>2
<1> QED BY <1>2, <1>4, <1>5, <1>6 DEF m

LEMMA PaddedFacts ==
    ASSUME NEW f \in Seq(Octet), Len(f) <= FrameSize
    PROVE  /\ Padded(f) \in Seq(Octet) /\ Len(Padded(f)) = FrameSize
           /\ \A i \in 1 .. Len(f) : Padded(f)[i] = f[i]
<1> DEFINE z == [i \in 1 .. FrameSize - Len(f) |-> 0]
<1>1. Len(f) \in Nat /\ FrameSize \in Nat /\ FrameSize - Len(f) \in Nat
  BY LenProperties, SizeAssumption
<1>2. z \in Seq(Octet) /\ Len(z) = FrameSize - Len(f)
  <2>1. 0 \in Octet
    BY DEF Octet
  <2>2. z \in [1 .. FrameSize - Len(f) -> Octet]
    BY <2>1
  <2> HIDE DEF z
  <2>3. z \in Seq(Octet)
    BY <2>2, <1>1, SeqDef
  <2>4. DOMAIN z = 1 .. FrameSize - Len(f)
    BY <2>2
  <2> QED BY <2>3, <2>4, <1>1, LenProperties
<1> HIDE DEF z
<1>3. Padded(f) = f \o z
  BY DEF Padded, z
<1>4. /\ f \o z \in Seq(Octet) /\ Len(f \o z) = Len(f) + Len(z)
      /\ \A i \in 1 .. Len(f) + Len(z) : (f \o z)[i] = IF i <= Len(f) THEN f[i] ELSE z[i - Len(f)]
  BY <1>2, ConcatProperties
<1>5. \A i \in 1 .. Len(f) : i \in 1 .. Len(f) + Len(z) /\ i <= Len(f)
  BY <1>1, <1>2
<1> QED BY <1>1, <1>2, <1>3, <1>4, <1>5

LEMMA WithHeaderFacts ==
    ASSUME NEW f \in Seq(Octet), f # <<>>, NEW cmd \in Ax25Commands
    PROVE  LET c == Cut(f, PayloadRoom)
               x == WithHeader(f, cmd)
           IN  /\ c \in Seq(Octet) /\ Len(c) \in 1 .. FrameSize - 3
               /\ x \in Seq(Octet) /\ Len(x) = 3 + Len(c)
               /\ x[1] = 128 + (IF cmd = CmdAx25 THEN 3 ELSE 1)
               /\ x[2] * 256 + x[3] = Len(c)
               /\ \A i \in 1 .. Len(c) : x[3 + i] = c[i]
<1> DEFINE c == Cut(f, PayloadRoom)
           n == Len(c)
           h == 128 + (IF cmd = CmdAx25 THEN 3 ELSE 1)
           p == <<h, n \div 256, n % 256>>
<1>1. PayloadRoom = FrameSize - 3 /\ PayloadRoom \in Nat \ {0} /\ FrameSize < 65536 /\ FrameSize \in Nat
  BY SizeAssumption DEF PayloadRoom, LenSize
<1>2. Len(f) \in Nat \ {0}
  BY EmptySeq, LenProperties
<1>3. c \in Seq(Octet) /\ n = IF Len(f) < PayloadRoom THEN Len(f) ELSE PayloadRoom
  BY <1>1, CutFacts
<1> HIDE DEF c
<1>4. n \in 1 .. FrameSize - 3 /\ n \in Nat /\ n < 65536
  BY <1>1, <1>2, <1>3
<1>5. WithHeader(f, cmd) = p \o c
  <2>1. Header(BroadcastData, IF cmd = CmdAx25 THEN 3 ELSE 1) = h
    BY DEF Header, BroadcastData
  <2> QED BY <2>1 DEF WithHeader, LenSize, c
<1> HIDE DEF n
<1>6. n \div 256 \in Octet /\ n % 256 \in Octet /\ (n \div 256) * 256 + (n % 256) = n
  BY <1>4 DEF Octet
<1>7. h \in Octet
  BY DEF Octet
<1> HIDE DEF h
<1>8. p \in Seq(Octet) /\ Len(p) = 3 /\ p[1] = h /\ p[2] = n \div 256 /\ p[3] = n % 256
  BY <1>6, <1>7
<1> HIDE DEF p
<1>9. /\ p \o c \in Seq(Octet) /\ Len(p \o c) = Len(p) + Len(c)
      /\ \A i \in 1 .. Len(p) + Len(c) : (p \o c)[i] = IF i <= Len(p) THEN p[i] ELSE c[i - Len(p)]
  <2>1. p \in Seq(Octet) /\ c \in Seq(Octet)
    BY <1>3, <1>8
  <2> QED BY <2>1, ConcatProperties
<1>10. (p \o c)[1] = p[1] /\ (p \o c)[2] = p[2] /\ (p \o c)[3] = p[3] /\ Len(p \o c) = 3 + n
  BY <1>4, <1>8, <1>9 DEF n
<1>11. ASSUME NEW i \in 1 .. n
       PROVE  (p \o c)[3 + i] = c[i]
  <2>1. 3 + i \in 1 .. Len(p) + Len(c) /\ ~(3 + i <= Len(p)) /\ 3 + i - Len(p) = i
    BY <1>4, <1>8 DEF n
  <2> QED BY <2>1, <1>9
<1>12. (p \o c)[2] * 256 + (p \o c)[3] = n
  BY <1>6, <1>8, <1>10
<1>13. (p \o c)[1] = 128 + (IF cmd = CmdAx25 THEN 3 ELSE 1)
  BY <1>8, <1>10 DEF h
<1> QED BY <1>3, <1>4, <1>5, <1>9, <1>10, <1>11, <1>12, <1>13 DEF c, n

\* A broadcast of packet radio has the length and the kind of its payload in
\* front.
LEMMA PacketFrame ==
    ASSUME NEW f \in Seq(Octet), f # <<>>, NEW cmd \in Ax25Commands
    PROVE  LET c == Cut(f, PayloadRoom)
               d == ModemFrame(f, cmd)
           IN  /\ c \in Seq(Octet) /\ Len(c) \in 1 .. FrameSize - 3
               /\ d \in Seq(Octet) /\ Len(d) = FrameSize
               /\ d[1] = 128 + (IF cmd = CmdAx25 THEN 3 ELSE 1)
               /\ d[2] * 256 + d[3] = Len(c)
               /\ \A i \in 1 .. Len(c) : d[3 + i] = c[i]
<1> DEFINE c == Cut(f, PayloadRoom)
           x == WithHeader(f, cmd)
           y == Padded(x)
<1>1. /\ c \in Seq(Octet) /\ Len(c) \in 1 .. FrameSize - 3
      /\ x \in Seq(Octet) /\ Len(x) = 3 + Len(c)
      /\ x[1] = 128 + (IF cmd = CmdAx25 THEN 3 ELSE 1)
      /\ x[2] * 256 + x[3] = Len(c)
      /\ \A i \in 1 .. Len(c) : x[3 + i] = c[i]
  BY WithHeaderFacts
<1> HIDE DEF c, x
<1>2. FrameSize \in Nat /\ Len(x) <= FrameSize /\ ~(Len(x) > FrameSize)
  BY <1>1, SizeAssumption
<1>3. ModemFrame(f, cmd) = y
  BY <1>2 DEF ModemFrame, x
<1>4. y \in Seq(Octet) /\ Len(y) = FrameSize /\ \A i \in 1 .. Len(x) : y[i] = x[i]
  BY <1>1, <1>2, PaddedFacts
<1> HIDE DEF y
<1>5. y[1] = x[1] /\ y[2] = x[2] /\ y[3] = x[3]
  BY <1>1, <1>2, <1>4
<1>6. \A i \in 1 .. Len(c) : y[3 + i] = c[i]
  BY <1>1, <1>2, <1>4
<1> QED BY <1>1, <1>3, <1>4, <1>5, <1>6 DEF c

LEMMA RawFrame ==
    ASSUME NEW f \in Seq(Octet), f # <<>>, ModemFrame(f, CmdData) # <<>>
    PROVE  LET d == ModemFrame(f, CmdData)
           IN  d = Padded(f) /\ d \in Seq(Octet) /\ Len(d) = FrameSize /\ d[1] = f[1]
<1>1. CmdData \notin Ax25Commands
  BY DEF Ax25Commands, CmdData, CmdAx25, CmdCallsign
<1>2. ~(Len(f) > FrameSize) /\ ModemFrame(f, CmdData) = Padded(f)
  BY <1>1 DEF ModemFrame
<1>3. Len(f) \in Nat \ {0} /\ FrameSize \in Nat
  BY EmptySeq, LenProperties, SizeAssumption
<1>4. Len(f) <= FrameSize
  BY <1>2, <1>3
<1>5. Padded(f) \in Seq(Octet) /\ Len(Padded(f)) = FrameSize /\ \A i \in 1 .. Len(f) : Padded(f)[i] = f[i]
  BY <1>4, PaddedFacts
<1> QED BY <1>2, <1>3, <1>5

LEMMA ModemFrameTypes ==
    ASSUME NEW of \in KissFrames, ModemFrame(of.frame, of.cmd) # <<>>
    PROVE  ModemFrame(of.frame, of.cmd) \in Seq(Octet) /\ Len(ModemFrame(of.frame, of.cmd)) = FrameSize
<1>1. of.frame \in Seq(Octet) /\ of.frame # <<>> /\ (of.cmd \in Ax25Commands \/ of.cmd = CmdData)
  BY DEF KissFrames, DataCommands
<1>2. CASE of.cmd \in Ax25Commands
  <2>1. ASSUME NEW f \in Seq(Octet), f # <<>>, NEW cmd \in Ax25Commands
        PROVE  ModemFrame(f, cmd) \in Seq(Octet) /\ Len(ModemFrame(f, cmd)) = FrameSize
    BY <2>1, PacketFrame
  <2> QED BY <1>1, <1>2, <2>1
<1>3. CASE of.cmd = CmdData
  BY <1>1, <1>3, RawFrame
<1> QED BY <1>1, <1>2, <1>3

\* What bcast_get_tx_payload may cut out of a frame
LEMMA PayloadTypes ==
    ASSUME NEW d \in Seq(Octet), Len(d) = FrameSize, NEW r \in {CmdCallsign, CmdData}
    PROVE  /\ TxPayload(d, r).cmd \in DataCommands
           /\ TxPayload(d, r).frame \in Seq(Octet)
           /\ Len(TxPayload(d, r).frame) <= FrameSize
<1>1. FrameSize \in Nat /\ FrameSize > 3
  BY SizeAssumption
<1>2. {CmdAx25, CmdCallsign, CmdData} \subseteq DataCommands
  BY DEF DataCommands, Ax25Commands
<1>3. \A i \in 1 .. FrameSize : d[i] \in Octet
  BY ElementOfSeq
<1> DEFINE b == SubSeq(d, 2 + LenSize, FrameSize)
           n == d[2] * 256 + d[3]
<1>4. b \in Seq(Octet) /\ Len(b) = FrameSize - 3
  <2>1. \A i \in 4 .. FrameSize : d[i] \in Octet
    BY <1>1, <1>3
  <2>2. b = SubSeq(d, 4, FrameSize)
    BY DEF LenSize
  <2> HIDE DEF b
  <2>3. SubSeq(d, 4, FrameSize) \in Seq(Octet)
    BY <1>1, <2>1, SubSeqProperties
  <2>4. Len(SubSeq(d, 4, FrameSize)) = IF 4 <= FrameSize THEN FrameSize - 4 + 1 ELSE 0
    BY <1>1, <2>1, SubSeqProperties
  <2> QED BY <2>2, <2>3, <2>4, <1>1
<1>5. n \in Nat
  <2>1. d[2] \in Octet /\ d[3] \in Octet
    BY <1>1, <1>3
  <2>2. \A x, y \in Octet : x * 256 + y \in Nat
    BY DEF Octet
  <2> QED BY <2>1, <2>2
<1> HIDE DEF b, n
<1>6. Cut(b, n) \in Seq(Octet) /\ Len(Cut(b, n)) = IF Len(b) < n THEN Len(b) ELSE n
  BY <1>4, <1>5, CutFacts
<1>7. Len(Cut(b, n)) <= FrameSize
  BY <1>1, <1>4, <1>5, <1>6
<1>8. d # <<>> /\ Tail(d) \in Seq(Octet) /\ Len(Tail(d)) = FrameSize - 1
  <2>1. d # <<>>
    BY <1>1, EmptySeq
  <2> QED BY <2>1, HeadTailProperties
<1>9. Len(Tail(d)) <= FrameSize /\ Len(d) <= FrameSize
  BY <1>1, <1>8
<1>10. CASE HasLength(d[1])
  <2>1. TxPayload(d, r).frame = Cut(b, n) /\ TxPayload(d, r).cmd \in {CmdAx25, CmdCallsign}
    BY <1>10 DEF TxPayload, b, n
  <2> QED BY <2>1, <1>2, <1>6, <1>7
<1>11. CASE ~HasLength(d[1])
  <2>1. TxPayload(d, r).frame \in {d, Tail(d)} /\ TxPayload(d, r).cmd = r
    BY <1>11 DEF TxPayload
  <2> QED BY <2>1, <1>2, <1>8, <1>9
<1> QED BY <1>10, <1>11

\* What is written to a client is what is to be heard there.
LEMMA PayloadShown ==
    ASSUME NEW of \in KissFrames, NEW r \in {CmdCallsign, CmdData}, NEW d,
           d = ModemFrame(of.frame, of.cmd), d # <<>>
    PROVE  Shows(of, r, TxPayload(d, r))
<1> DEFINE f == of.frame
<1>1. f \in Seq(Octet) /\ f # <<>> /\ of.cmd \in DataCommands
  BY DEF KissFrames
<1>2. FrameSize \in Nat /\ FrameSize > 3
  BY SizeAssumption
<1>3. CASE of.cmd \in Ax25Commands
  <2> DEFINE c == Cut(f, PayloadRoom)
             b == SubSeq(d, 2 + LenSize, FrameSize)
  <2>1. /\ c \in Seq(Octet) /\ Len(c) \in 1 .. FrameSize - 3
        /\ d \in Seq(Octet) /\ Len(d) = FrameSize
        /\ d[1] = 128 + (IF of.cmd = CmdAx25 THEN 3 ELSE 1)
        /\ d[2] * 256 + d[3] = Len(c)
        /\ \A i \in 1 .. Len(c) : d[3 + i] = c[i]
    BY <1>1, <1>3, PacketFrame
  <2> HIDE DEF c
  <2>2. HasLength(d[1]) /\ (IsStandard(d[1]) <=> of.cmd = CmdAx25)
    BY <2>1 DEF HasLength, IsStandard, PacketType, BroadcastData
  <2>3. (IF IsStandard(d[1]) THEN CmdAx25 ELSE CmdCallsign) = of.cmd
    BY <1>3, <2>2 DEF Ax25Commands
  <2>4. TxPayload(d, r) = [cmd |-> of.cmd, frame |-> Cut(b, Len(c))]
    BY <2>1, <2>2, <2>3 DEF TxPayload
  <2>5. /\ b \in Seq(Octet) /\ Len(b) = FrameSize - 3
        /\ \A i \in 1 .. FrameSize - 3 : b[i] = d[3 + i]
    <3>1. \A i \in 4 .. FrameSize : d[i] \in Octet
      BY <1>2, <2>1, ElementOfSeq
    <3>2. b = SubSeq(d, 4, FrameSize)
      BY DEF LenSize
    <3> HIDE DEF b
    <3>3. SubSeq(d, 4, FrameSize) \in Seq(Octet)
      BY <1>2, <3>1, SubSeqProperties
    <3>4. Len(SubSeq(d, 4, FrameSize)) = IF 4 <= FrameSize THEN FrameSize - 4 + 1 ELSE 0
      BY <1>2, <3>1, SubSeqProperties
    <3>5. \A i \in 1 .. FrameSize - 4 + 1 : SubSeq(d, 4, FrameSize)[i] = d[4 + i - 1]
      BY <1>2, <3>1, SubSeqProperties
    <3>6. ASSUME NEW i \in 1 .. FrameSize - 3
          PROVE  b[i] = d[3 + i]
      <4>1. i \in 1 .. FrameSize - 4 + 1 /\ 4 + i - 1 = 3 + i
        BY <1>2
      <4> QED BY <4>1, <3>2, <3>5
    <3> QED BY <3>2, <3>3, <3>4, <3>6, <1>2
  <2> HIDE DEF b
  <2>6. Cut(b, Len(c)) = c
    <3>1. Len(c) \in Nat /\ ~(Len(b) < Len(c))
      BY <1>2, <2>1, <2>5
    <3>2. /\ Cut(b, Len(c)) \in Seq(Octet) /\ Len(Cut(b, Len(c))) = Len(c)
          /\ \A i \in 1 .. Len(c) : Cut(b, Len(c))[i] = b[i]
      BY <3>1, <2>5, CutFacts
    <3>3. \A i \in 1 .. Len(c) : b[i] = c[i]
      BY <1>2, <2>1, <2>5
    <3>4. \A i \in 1 .. Len(Cut(b, Len(c))) : Cut(b, Len(c))[i] = c[i]
      BY <3>2, <3>3
    <3> QED BY <3>2, <3>4, <2>1, SeqEqual
  <2>7. of.cmd # CmdData
    BY <1>3 DEF Ax25Commands, CmdAx25, CmdCallsign, CmdData
  <2> QED BY <2>4, <2>6, <2>7 DEF Shows, c
<1>4. CASE of.cmd = CmdData
  <2>1. d = Padded(f) /\ d[1] = f[1]
    BY <1>1, <1>4, RawFrame
  <2>2. of.cmd \notin Ax25Commands
    BY <1>4 DEF Ax25Commands, CmdAx25, CmdCallsign, CmdData
  <2>3. ASSUME ~HasLength(f[1])
        PROVE  /\ TxPayload(d, r).cmd = r
               /\ TxPayload(d, r).frame = IF r = CmdData THEN Padded(f) ELSE Tail(Padded(f))
    <3>1. TxPayload(d, r) = [cmd |-> r, frame |-> IF r = CmdData THEN d ELSE Tail(d)]
      BY <2>1, <2>3 DEF TxPayload
    <3> QED BY <3>1, <2>1
  <2> HIDE DEF f
  <2>4. of.frame = f
    BY DEF f
  <2> QED BY <2>2, <2>3, <2>4 DEF Shows
<1> QED BY <1>1, <1>3, <1>4 DEF DataCommands


-----------------------------------------------------------------------------
(* The stations                                                            *)

Replies == {CmdCallsign, CmdData}

\* A frame in a ring: what the modem gets, and the broadcast it was made of.
RingEntries ==
    {e \in [data : Seq(Octet), of : KissFrames] :
        e.data = ModemFrame(e.of.frame, e.of.cmd) /\ Len(e.data) = FrameSize}

DueFrames ==
    {x \in [cmd : DataCommands, frame : Seq(Octet) \ {<<>>}, of : KissFrames, reply : Replies] :
        Len(x.frame) <= MaxPayload /\ Shows(x.of, x.reply, [cmd |-> x.cmd, frame |-> x.frame])}

\* The frames of what is due
Sent(q) == [i \in DOMAIN q |-> [cmd |-> q[i].cmd, frame |-> q[i].frame]]

PathTypes ==
    /\ port \in [Stations -> {"serving", "leaving", "joining"}]
    /\ sender \in [Stations -> {"look", "read", "write", "gone"}]
    /\ reply \in [Stations -> Replies]
    /\ inbound \in [Stations -> Streams] /\ outbound \in [Stations -> Streams]
    /\ txRing \in [Stations -> Seq(RingEntries)] /\ rxRing \in [Stations -> Seq(RingEntries)]
    /\ junk \in [Stations -> Nat] /\ clients \in [Stations -> Nat]
    /\ written \in [Stations -> Seq(KissFrames)] /\ taken \in [Stations -> Seq(KissFrames)]
    /\ heard \in [Stations -> Seq(KissFrames)] /\ due \in [Stations -> Seq(DueFrames)]

InboundInv(s) == StreamInv(inbound[s], written[s], taken[s], junk[s] > 0)

OutboundInv(s) == StreamInv(outbound[s], Sent(due[s]), heard[s], FALSE)

\* send_thread begins a frame only when it has finished the one before, and is
\* there as long as the client is.
SenderInv(s) ==
    /\ sender[s] \in {"look", "read"} => Rests(outbound[s])
    /\ Serving(s) => sender[s] # "gone"

PathInv ==
    /\ PathTypes
    /\ \A s \in Stations : InboundInv(s) /\ OutboundInv(s) /\ SenderInv(s)

-----------------------------------------------------------------------------

LEMMA SentAppends ==
    ASSUME NEW q \in Seq(DueFrames), NEW x \in DueFrames
    PROVE  /\ Sent(q) \in Seq(KissFrames) /\ Len(Sent(q)) = Len(q)
           /\ [cmd |-> x.cmd, frame |-> x.frame] \in KissFrames
           /\ Sent(Append(q, x)) = Append(Sent(q), [cmd |-> x.cmd, frame |-> x.frame])
<1> DEFINE K(y) == [cmd |-> y.cmd, frame |-> y.frame]
<1>1. \A y \in DueFrames : K(y) \in KissFrames
  BY DEF DueFrames, KissFrames
<1> HIDE DEF K
<1>2. ASSUME NEW p \in Seq(DueFrames)
      PROVE  /\ Sent(p) \in Seq(KissFrames) /\ Len(Sent(p)) = Len(p)
             /\ \A i \in 1 .. Len(p) : Sent(p)[i] = K(p[i])
  <2>1. Len(p) \in Nat /\ DOMAIN p = 1 .. Len(p) /\ \A i \in 1 .. Len(p) : p[i] \in DueFrames
    BY LenProperties, ElementOfSeq
  <2>2. Sent(p) = [i \in 1 .. Len(p) |-> K(p[i])]
    BY <2>1 DEF Sent, K
  <2> HIDE DEF Sent
  <2>3. Sent(p) \in [1 .. Len(p) -> KissFrames]
    BY <2>1, <2>2, <1>1
  <2>4. Sent(p) \in Seq(KissFrames)
    BY <2>1, <2>3, SeqDef
  <2>5. Len(Sent(p)) = Len(p)
    BY <2>1, <2>3, <2>4, LenProperties
  <2> QED BY <2>2, <2>4, <2>5
<1>3. /\ Append(q, x) \in Seq(DueFrames) /\ Len(Append(q, x)) = Len(q) + 1
      /\ Append(q, x)[Len(q) + 1] = x /\ \A i \in 1 .. Len(q) : Append(q, x)[i] = q[i]
  BY AppendProperties
<1>4. K(x) \in KissFrames /\ Len(q) \in Nat
  BY <1>1, LenProperties
<1>5. /\ Sent(q) \in Seq(KissFrames) /\ Len(Sent(q)) = Len(q)
      /\ \A i \in 1 .. Len(q) : Sent(q)[i] = K(q[i])
  BY <1>2
<1> DEFINE l == Sent(Append(q, x))
           r == Append(Sent(q), K(x))
<1>6. l \in Seq(KissFrames) /\ Len(l) = Len(q) + 1 /\ \A i \in 1 .. Len(q) + 1 : l[i] = K(Append(q, x)[i])
  BY <1>2, <1>3
<1>7. /\ r \in Seq(KissFrames) /\ Len(r) = Len(q) + 1
      /\ r[Len(q) + 1] = K(x) /\ \A i \in 1 .. Len(q) : r[i] = K(q[i])
  BY <1>4, <1>5, AppendProperties
<1> HIDE DEF l, r
<1>8. ASSUME NEW i \in 1 .. Len(l)
      PROVE  l[i] = r[i]
  <2>1. CASE i = Len(q) + 1
    BY <2>1, <1>3, <1>4, <1>6, <1>7
  <2>2. CASE i # Len(q) + 1
    <3>1. i \in 1 .. Len(q) /\ i \in 1 .. Len(q) + 1
      BY <2>2, <1>4, <1>6
    <3> QED BY <3>1, <1>3, <1>6, <1>7
  <2> QED BY <2>1, <2>2
<1>9. l = r
  BY <1>6, <1>7, <1>8, SeqEqual
<1> QED BY <1>1, <1>5, <1>9 DEF l, r, K

LEMMA SentEmpty ==
    Sent(<<>>) = <<>>
<1>1. DOMAIN Sent(<<>>) = {}
  BY DEF Sent
<1> QED BY <1>1 DEF Sent

\* What has been decoded of a stream without junk
LEMMA StreamTells ==
    ASSUME NEW c, NEW w, NEW t, StreamInv(c, w, t, FALSE)
    PROVE  /\ Len(t) \in Nat /\ Len(w) \in Nat /\ Len(t) <= Len(w)
           /\ Rests(c) => Len(t) = Len(w)
           /\ \A i \in 1 .. Len(t) : t[i] = Room(w[i])
<1>1. w \in Seq(KissFrames) /\ t \in Seq(KissFrames)
  BY DEF StreamInv
<1>2. Len(w) \in Nat /\ Len(t) \in Nat
  BY <1>1, LenProperties
<1>3. \E m \in {Len(w) - 1, Len(w)} : Len(t) = m /\ \A i \in 1 .. m : t[i] = Room(w[i])
  <2>1. CASE Before(c, w, t, FALSE)
    <3>1. Len(w) = 0 /\ Len(t) = 0
      BY <2>1, EmptySeq DEF Before
    <3> QED BY <3>1
  <2>2. CASE Between(c, w, t, FALSE)
    BY <2>2 DEF Between, TellsOf
  <2>3. CASE Opening(c, w, t, FALSE) \/ Commanding(c, w, t, FALSE) \/ Within(c, w, t, FALSE)
    BY <2>3 DEF Opening, Commanding, Within, TellsOf
  <2>4. ~Lost(c, w, t, FALSE)
    BY DEF Lost
  <2> QED BY <2>1, <2>2, <2>3, <2>4 DEF StreamInv
<1>4. Rests(c) => Len(t) = Len(w)
  <2>1. SUFFICES ASSUME Rests(c) PROVE Len(t) = Len(w)
    OBVIOUS
  <2>2. Tells(t, w, FALSE)
    BY <2>1, RestTells
  <2> QED BY <2>2, <1>1, TellsAll DEF TellsOf
<1> QED BY <1>2, <1>3, <1>4

\* KissResyncs and BroadcastKept follow.
LEMMA PathSafe ==
    PathInv => KissResyncs /\ BroadcastKept
<1>1. SUFFICES ASSUME PathInv PROVE KissResyncs /\ BroadcastKept
  OBVIOUS
<1>2. KissResyncs
  <2>1. SUFFICES ASSUME NEW s \in Stations, Rests(inbound[s])
                 PROVE  Tells(taken[s], written[s], junk[s] > 0)
    BY DEF KissResyncs
  <2>2. StreamInv(inbound[s], written[s], taken[s], junk[s] > 0)
    BY <1>1 DEF PathInv, InboundInv
  <2>3. (junk[s] > 0) \in BOOLEAN
    OBVIOUS
  <2> QED BY <2>1, <2>2, <2>3, RestTells
<1>3. BroadcastKept
  <2>1. SUFFICES ASSUME NEW s \in Stations
                 PROVE  /\ Len(heard[s]) <= Len(due[s])
                        /\ Serving(s) /\ sender[s] # "write" => Len(heard[s]) = Len(due[s])
                        /\ \A i \in DOMAIN heard[s] : Shows(due[s][i].of, due[s][i].reply, heard[s][i])
    BY DEF BroadcastKept
  <2> DEFINE q == due[s]
             h == heard[s]
  <2>2. q \in Seq(DueFrames) /\ h \in Seq(KissFrames)
    BY <1>1 DEF PathInv, PathTypes
  <2>3. StreamInv(outbound[s], Sent(q), h, FALSE)
    BY <1>1 DEF PathInv, OutboundInv
  <2> HIDE DEF q, h
  <2>4. /\ Len(h) \in Nat /\ Len(Sent(q)) \in Nat /\ Len(h) <= Len(Sent(q))
        /\ Rests(outbound[s]) => Len(h) = Len(Sent(q))
        /\ \A i \in 1 .. Len(h) : h[i] = Room(Sent(q)[i])
    <3> DEFINE c == outbound[s]
               w == Sent(q)
    <3>1. StreamInv(c, w, h, FALSE)
      BY <2>3
    <3> HIDE DEF c, w
    <3>2. /\ Len(h) \in Nat /\ Len(w) \in Nat /\ Len(h) <= Len(w)
          /\ Rests(c) => Len(h) = Len(w)
          /\ \A i \in 1 .. Len(h) : h[i] = Room(w[i])
      BY <3>1, StreamTells
    <3> QED BY <3>2 DEF c, w
  <2>5. DOMAIN q = 1 .. Len(q) /\ DOMAIN h = 1 .. Len(h) /\ Len(q) \in Nat
    BY <2>2, LenProperties
  <2>6. Len(Sent(q)) = Len(q)
    <3>1. DOMAIN Sent(q) = 1 .. Len(q)
      BY <2>5 DEF Sent
    <3>2. Sent(q) \in Seq(KissFrames)
      BY <2>3 DEF StreamInv
    <3> QED BY <3>1, <3>2, <2>5, LenProperties
  <2>7. Serving(s) /\ sender[s] # "write" => Len(h) = Len(q)
    <3>1. sender[s] \in {"look", "read", "write", "gone"} /\ SenderInv(s)
      BY <1>1 DEF PathInv, PathTypes
    <3> QED BY <3>1, <2>4, <2>6 DEF SenderInv
  <2>8. ASSUME NEW i \in DOMAIN h
        PROVE  Shows(q[i].of, q[i].reply, h[i])
    <3>1. i \in 1 .. Len(h) /\ i \in DOMAIN q
      <4>1. i \in 1 .. Len(h)
        BY <2>5
      <4>2. i \in 1 .. Len(q)
        <5>1. Len(h) \in Nat /\ Len(q) \in Nat /\ Len(h) <= Len(q)
          BY <2>4, <2>5, <2>6
        <5> QED BY <5>1, <4>1
      <4> QED BY <4>1, <4>2, <2>5
    <3>2. q[i] \in DueFrames
      BY <3>1, <2>2, <2>5, ElementOfSeq
    <3> DEFINE x == q[i]
               f == [cmd |-> x.cmd, frame |-> x.frame]
    <3>3. Sent(q)[i] = f
      BY <3>1 DEF Sent
    <3> HIDE DEF x
    <3>4. f.frame \in Seq(Octet) /\ Len(f.frame) <= MaxPayload /\ Shows(x.of, x.reply, f)
      BY <3>2 DEF DueFrames, x
    <3>5. Room(f) = f
      <4>1. Len(f.frame) \in Nat /\ MaxPayload \in Nat
        BY <3>4, LenProperties, SizeAssumption
      <4>2. /\ Cut(f.frame, MaxPayload) \in Seq(Octet)
            /\ Len(Cut(f.frame, MaxPayload)) = IF Len(f.frame) < MaxPayload THEN Len(f.frame) ELSE MaxPayload
            /\ \A k \in 1 .. IF Len(f.frame) < MaxPayload THEN Len(f.frame) ELSE MaxPayload :
                   Cut(f.frame, MaxPayload)[k] = f.frame[k]
        BY <3>4, <4>1, CutFacts
      <4>3. (IF Len(f.frame) < MaxPayload THEN Len(f.frame) ELSE MaxPayload) = Len(f.frame)
        BY <3>4, <4>1
      <4>4. Cut(f.frame, MaxPayload) = f.frame
        BY <3>4, <4>2, <4>3, SeqEqual
      <4> QED BY <4>4 DEF Room
    <3>6. h[i] = f
      BY <3>1, <3>3, <3>5, <2>4
    <3> QED BY <3>4, <3>6 DEF x
  <2> QED BY <2>4, <2>6, <2>7, <2>8 DEF q, h
<1> QED BY <1>2, <1>3


\* What the invariant says of a station stays where nothing of it changes.
LEMMA InboundSame ==
    ASSUME NEW r, InboundInv(r), inbound'[r] = inbound[r], written'[r] = written[r],
           taken'[r] = taken[r], junk'[r] = junk[r]
    PROVE  InboundInv(r)'
BY DEF InboundInv

LEMMA OutboundSame ==
    ASSUME NEW r, OutboundInv(r), outbound'[r] = outbound[r], due'[r] = due[r],
           heard'[r] = heard[r]
    PROVE  OutboundInv(r)'
BY DEF OutboundInv, Sent

LEMMA SenderSame ==
    ASSUME NEW r, SenderInv(r), outbound'[r] = outbound[r], sender'[r] = sender[r],
           port'[r] = port[r]
    PROVE  SenderInv(r)'
BY DEF SenderInv, Serving

LEMMA HangUpKeeps ==
    ASSUME PathInv, NEW s \in Stations, HangUp(s)
    PROVE  PathInv'
<1>1. PathTypes'
  BY DEF PathInv, PathTypes, HangUp, streams, bcastRings, history
<1>2. ASSUME NEW r \in Stations
      PROVE  InboundInv(r)' /\ OutboundInv(r)' /\ SenderInv(r)'
  <2>1. InboundInv(r)' /\ OutboundInv(r)'
    BY InboundSame, OutboundSame DEF PathInv, HangUp, streams, history
  <2>2. SenderInv(r)'
    BY DEF PathInv, PathTypes, HangUp, SenderInv, Serving, streams
  <2> QED BY <2>1, <2>2
<1> QED BY <1>1, <1>2 DEF PathInv


LEMMA FreshStation ==
    ASSUME NEW s, inbound[s] = Fresh, outbound[s] = Fresh, junk[s] = 0, written[s] = <<>>,
           taken[s] = <<>>, due[s] = <<>>, heard[s] = <<>>
    PROVE  InboundInv(s) /\ OutboundInv(s)
<1>1. (junk[s] > 0) = FALSE
  OBVIOUS
<1>2. InboundInv(s)
  BY <1>1, FreshStream DEF InboundInv
<1>3. OutboundInv(s)
  BY SentEmpty, FreshStream DEF OutboundInv
<1> QED BY <1>2, <1>3

LEMMA FreshRests ==
    Fresh \in Streams /\ Rests(Fresh)
BY FreshStream DEF StreamInv, Rests, Fresh

LEMMA PathInitially ==
    PathInit => PathInv
<1>1. SUFFICES ASSUME PathInit PROVE PathInv
  OBVIOUS
<1>2. PathTypes
  <2>1. \A S : <<>> \in Seq(S)
    BY EmptySeq
  <2>2. CmdData \in Replies
    BY DEF Replies
  <2> QED BY <1>1, <2>1, <2>2, FreshRests DEF PathInit, PathTypes
<1>3. ASSUME NEW s \in Stations
      PROVE  InboundInv(s) /\ OutboundInv(s) /\ SenderInv(s)
  <2>1. InboundInv(s) /\ OutboundInv(s)
    BY <1>1, FreshStation DEF PathInit
  <2>2. SenderInv(s)
    BY <1>1 DEF PathInit, SenderInv, Serving
  <2> QED BY <2>1, <2>2
<1> QED BY <1>2, <1>3 DEF PathInv

LEMMA ClientJunkKeeps ==
    ASSUME PathInv, NEW s \in Stations, ClientJunk(s)
    PROVE  PathInv'
<1>1. PICK byte \in JunkBytes : inbound' = [inbound EXCEPT ![s].line = <<byte>>]
  BY DEF ClientJunk
<1>2. byte \in Octet
  BY PathAssumption
<1> DEFINE c == inbound[s]
           d == [c EXCEPT !.line = <<byte>>]
<1>3. InboundInv(s) /\ written[s] = <<>> /\ junk[s] \in Nat /\ c \in Streams
  BY DEF PathInv, PathTypes, ClientJunk
<1>4. (junk[s] > 0) \in BOOLEAN /\ StreamInv(c, <<>>, taken[s], junk[s] > 0)
  BY <1>3 DEF InboundInv
<1>5. StreamInv(d, <<>>, taken[s], TRUE)
  BY <1>2, <1>4, JunkWritten
<1>6. d \in Streams
  BY <1>5 DEF StreamInv
<1>7. inbound' = [inbound EXCEPT ![s] = d]
  BY <1>1 DEF PathInv, PathTypes
<1> HIDE DEF c, d
<1>8. PathTypes'
  <2>1. inbound' \in [Stations -> Streams]
    BY <1>6, <1>7 DEF PathInv, PathTypes
  <2>2. junk' \in [Stations -> Nat]
    BY <1>3 DEF PathInv, PathTypes, ClientJunk
  <2>3. UNCHANGED <<port, outbound, bcastRings, reply, sender, clients, written, taken, due, heard>>
    BY DEF ClientJunk
  <2> QED BY <2>1, <2>2, <2>3 DEF PathInv, PathTypes, bcastRings
<1>9. InboundInv(s)'
  <2>1. (junk'[s] > 0) = TRUE
    BY <1>3 DEF PathInv, PathTypes, ClientJunk
  <2>2. inbound'[s] = d /\ written'[s] = <<>> /\ taken'[s] = taken[s]
    BY <1>3, <1>7 DEF PathInv, PathTypes, ClientJunk
  <2> QED BY <1>5, <2>1, <2>2 DEF InboundInv
<1>10. ASSUME NEW r \in Stations
       PROVE  InboundInv(r)' /\ OutboundInv(r)' /\ SenderInv(r)'
  <2>1. r # s => InboundInv(r)'
    BY <1>7, InboundSame DEF PathInv, PathTypes, ClientJunk
  <2>2. OutboundInv(r)' /\ SenderInv(r)'
    BY OutboundSame, SenderSame DEF PathInv, ClientJunk
  <2> QED BY <1>9, <2>1, <2>2
<1> QED BY <1>8, <1>10 DEF PathInv

LEMMA ClientBeginsKeeps ==
    ASSUME PathInv, NEW s \in Stations, ClientBegins(s)
    PROVE  PathInv'
<1>1. PICK f \in ClientFrames : /\ inbound' = [inbound EXCEPT ![s] = BeginsFrame(@, f)]
                                /\ written' = [written EXCEPT ![s] = Append(@, f)]
  BY DEF ClientBegins
<1>2. f \in KissFrames
  BY PathAssumption
<1>3. StreamInv(inbound[s], written[s], taken[s], junk[s] > 0) /\ Rests(inbound[s])
      /\ (junk[s] > 0) \in BOOLEAN
  BY DEF PathInv, InboundInv, ClientBegins
<1> DEFINE d == BeginsFrame(inbound[s], f)
           w == Append(written[s], f)
<1>4. StreamInv(d, w, taken[s], junk[s] > 0)
  BY <1>2, <1>3, FrameBegins
<1>5. d \in Streams /\ w \in Seq(KissFrames)
  BY <1>4 DEF StreamInv
<1>6. inbound' = [inbound EXCEPT ![s] = d] /\ written' = [written EXCEPT ![s] = w]
  BY <1>1
<1> HIDE DEF d, w
<1>7. PathTypes'
  BY <1>5, <1>6 DEF PathInv, PathTypes, ClientBegins, bcastRings
<1>8. InboundInv(s)'
  <2>1. inbound'[s] = d /\ written'[s] = w /\ taken' = taken /\ junk' = junk
    BY <1>6 DEF PathInv, PathTypes, ClientBegins
  <2> QED BY <1>4, <2>1 DEF InboundInv
<1>9. ASSUME NEW r \in Stations
      PROVE  InboundInv(r)' /\ OutboundInv(r)' /\ SenderInv(r)'
  <2>1. r # s => InboundInv(r)'
    BY <1>6, InboundSame DEF PathInv, PathTypes, ClientBegins
  <2>2. OutboundInv(r)' /\ SenderInv(r)'
    BY OutboundSame, SenderSame DEF PathInv, ClientBegins
  <2> QED BY <1>8, <2>1, <2>2
<1> QED BY <1>7, <1>9 DEF PathInv

LEMMA ClientWritesKeeps ==
    ASSUME PathInv, NEW s \in Stations, ClientWrites(s)
    PROVE  PathInv'
<1> DEFINE d == PieceWritten(inbound[s])
<1>1. StreamInv(inbound[s], written[s], taken[s], junk[s] > 0) /\ CanWritePiece(inbound[s])
      /\ (junk[s] > 0) \in BOOLEAN
  BY DEF PathInv, InboundInv, ClientWrites
<1>2. StreamInv(d, written[s], taken[s], junk[s] > 0)
  BY <1>1, PieceWrites
<1>3. d \in Streams
  BY <1>2 DEF StreamInv
<1>4. inbound' = [inbound EXCEPT ![s] = d]
  BY DEF ClientWrites
<1> HIDE DEF d
<1>5. PathTypes'
  BY <1>3, <1>4 DEF PathInv, PathTypes, ClientWrites, bcastRings, history
<1>6. InboundInv(s)'
  <2>1. inbound'[s] = d /\ written' = written /\ taken' = taken /\ junk' = junk
    BY <1>4 DEF PathInv, PathTypes, ClientWrites, history
  <2> QED BY <1>2, <2>1 DEF InboundInv
<1>7. ASSUME NEW r \in Stations
      PROVE  InboundInv(r)' /\ OutboundInv(r)' /\ SenderInv(r)'
  <2>1. r # s => InboundInv(r)'
    BY <1>4, InboundSame DEF PathInv, PathTypes, ClientWrites, history
  <2>2. OutboundInv(r)' /\ SenderInv(r)'
    BY OutboundSame, SenderSame DEF PathInv, ClientWrites, history
  <2> QED BY <1>6, <2>1, <2>2
<1> QED BY <1>5, <1>7 DEF PathInv

LEMMA ClientReadsKeeps ==
    ASSUME PathInv, NEW s \in Stations, ClientReads(s)
    PROVE  PathInv'
<1> DEFINE c == outbound[s]
           d == ByteRead(c)
           t == heard[s] \o FramesRead(c)
           w == Sent(due[s])
<1>1. StreamInv(c, w, heard[s], FALSE) /\ c.line # <<>>
  BY DEF PathInv, OutboundInv, ClientReads
<1>2. StreamInv(d, w, t, FALSE)
  <2> HIDE DEF w
  <2> QED BY <1>1, StreamReads
<1>3. d \in Streams /\ t \in Seq(KissFrames)
  BY <1>2 DEF StreamInv
<1>4. outbound' = [outbound EXCEPT ![s] = d] /\ heard' = [heard EXCEPT ![s] = t]
  BY DEF ClientReads
<1> HIDE DEF c, d, t
<1>5. PathTypes'
  <2>1. outbound' \in [Stations -> Streams] /\ heard' \in [Stations -> Seq(KissFrames)]
    BY <1>3, <1>4 DEF PathInv, PathTypes
  <2>2. UNCHANGED <<port, inbound, bcastRings, reply, sender, clients, junk, written, taken, due>>
    BY DEF ClientReads
  <2> QED BY <2>1, <2>2 DEF PathInv, PathTypes, bcastRings
<1>6. OutboundInv(s)'
  <2>1. outbound'[s] = d /\ heard'[s] = t /\ due' = due
    BY <1>4 DEF PathInv, PathTypes, ClientReads
  <2>2. Sent(due'[s]) = w
    BY <2>1
  <2> HIDE DEF w
  <2> QED BY <1>2, <2>1, <2>2 DEF OutboundInv
<1>7. SenderInv(s)'
  <2>1. sender' = sender /\ port' = port /\ outbound'[s] = d
    BY <1>4 DEF PathInv, PathTypes, ClientReads
  <2>2. ~Rests(c)
    BY <1>1 DEF Rests
  <2> QED BY <2>1, <2>2 DEF PathInv, SenderInv, Serving, c
<1>8. ASSUME NEW r \in Stations
      PROVE  InboundInv(r)' /\ OutboundInv(r)' /\ SenderInv(r)'
  <2>1. r # s => OutboundInv(r)' /\ SenderInv(r)'
    BY <1>4, OutboundSame, SenderSame DEF PathInv, PathTypes, ClientReads
  <2>2. InboundInv(r)'
    BY InboundSame DEF PathInv, ClientReads
  <2> QED BY <1>6, <1>7, <2>1, <2>2
<1> QED BY <1>5, <1>8 DEF PathInv


\* What recv_thread hands to the modem is made of the frame it has decoded.
LEMMA EntryMade ==
    ASSUME NEW of \in KissFrames, ModemFrame(of.frame, of.cmd) # <<>>
    PROVE  [data |-> ModemFrame(of.frame, of.cmd), of |-> of] \in RingEntries
BY ModemFrameTypes DEF RingEntries

LEMMA StationReadsKeeps ==
    ASSUME PathInv, NEW s \in Stations, StationReads(s)
    PROVE  PathInv'
<1> DEFINE c == inbound[s]
           d == ByteRead(c)
           fs == FramesRead(c)
           t == taken[s] \o fs
<1>1. StreamInv(c, written[s], taken[s], junk[s] > 0) /\ c.line # <<>>
      /\ (junk[s] > 0) \in BOOLEAN
  BY DEF PathInv, InboundInv, StationReads
<1>2. StreamInv(d, written[s], t, junk[s] > 0) /\ fs \in Seq(KissFrames) /\ Len(fs) <= 1
  BY <1>1, StreamReads
<1>3. d \in Streams /\ t \in Seq(KissFrames) /\ taken[s] \in Seq(KissFrames)
  BY <1>1, <1>2 DEF StreamInv
<1>4. inbound' = [inbound EXCEPT ![s] = d]
      /\ UNCHANGED <<port, outbound, rxRing, sender, clients, junk, written, due, heard>>
  BY DEF StationReads
<1> HIDE DEF d, fs, t
<1>5. /\ taken' = [taken EXCEPT ![s] = t]
      /\ reply' \in [Stations -> Replies] /\ txRing' \in [Stations -> Seq(RingEntries)]
  <2>1. CASE fs = <<>>
    <3>1. UNCHANGED <<taken, reply, txRing>>
      BY <2>1 DEF StationReads, fs
    <3>2. t = taken[s]
      BY <2>1, <1>3, ConcatEmptySeq DEF t
    <3> QED BY <3>1, <3>2 DEF PathInv, PathTypes
  <2>2. CASE fs # <<>>
    <3> DEFINE f == Head(fs)
    <3>1. f \in KissFrames /\ fs = <<f>>
      <4>1. Len(fs) = 1
        <5>1. Len(fs) \in Nat
          BY <1>2, LenProperties
        <5>2. Len(fs) # 0
          BY <2>2, <1>2, EmptySeq
        <5>3. Len(fs) <= 1
          BY <1>2
        <5> QED BY <5>1, <5>2, <5>3
      <4>2. f \in KissFrames /\ f = fs[1]
        BY <2>2, <1>2, HeadTailProperties
      <4>3. <<fs[1]>> \in Seq(KissFrames) /\ Len(<<fs[1]>>) = 1 /\ <<fs[1]>>[1] = fs[1]
        BY <4>2
      <4>4. fs = <<fs[1]>>
        BY <4>1, <4>3, <1>2, SeqEqual
      <4> QED BY <4>2, <4>4
    <3>2. Process(s, f)
      BY <2>2 DEF StationReads, fs
    <3> HIDE DEF f
    <3>3. t = Append(taken[s], f)
      BY <3>1, <1>3, AppendIsConcat DEF t
    <3>4. taken' = [taken EXCEPT ![s] = t]
      BY <3>2, <3>3 DEF Process
    <3>5. reply' \in [Stations -> Replies]
      <4>1. ReplyCmd(f.cmd) \in Replies
        BY DEF ReplyCmd, Replies
      <4> QED BY <3>2, <4>1 DEF Process, PathInv, PathTypes
    <3>6. txRing' \in [Stations -> Seq(RingEntries)]
      <4> DEFINE m == ModemFrame(f.frame, f.cmd)
                 e == [data |-> m, of |-> f]
      <4>1. CASE m = <<>>
        BY <3>2, <4>1 DEF Process, PathInv, PathTypes
      <4>2. CASE m # <<>>
        <5>1. e \in RingEntries
          BY <3>1, <4>2, EntryMade
        <5>2. txRing' = [txRing EXCEPT ![s] = Append(@, e)]
          BY <3>2, <4>2 DEF Process
        <5> HIDE DEF e
        <5>3. txRing \in [Stations -> Seq(RingEntries)]
          BY DEF PathInv, PathTypes
        <5>4. Append(txRing[s], e) \in Seq(RingEntries)
          BY <5>1, <5>3, AppendProperties
        <5> QED BY <5>2, <5>3, <5>4
      <4> QED BY <4>1, <4>2
    <3> QED BY <3>4, <3>5, <3>6
  <2> QED BY <2>1, <2>2
<1>6. PathTypes'
  <2>1. inbound' \in [Stations -> Streams] /\ taken' \in [Stations -> Seq(KissFrames)]
    BY <1>3, <1>4, <1>5 DEF PathInv, PathTypes
  <2> QED BY <2>1, <1>4, <1>5 DEF PathInv, PathTypes
<1>7. InboundInv(s)'
  <2>1. inbound'[s] = d /\ taken'[s] = t /\ written' = written /\ junk' = junk
    BY <1>4, <1>5 DEF PathInv, PathTypes
  <2> QED BY <1>2, <2>1 DEF InboundInv
<1>8. ASSUME NEW r \in Stations
      PROVE  InboundInv(r)' /\ OutboundInv(r)' /\ SenderInv(r)'
  <2>1. r # s => InboundInv(r)'
    BY <1>4, <1>5, InboundSame DEF PathInv, PathTypes
  <2>2. OutboundInv(r)' /\ SenderInv(r)'
    BY <1>4, OutboundSame, SenderSame DEF PathInv
  <2> QED BY <1>7, <2>1, <2>2
<1> QED BY <1>6, <1>8 DEF PathInv

LEMMA AirKeeps ==
    ASSUME PathInv, NEW s \in Stations, Air(s)
    PROVE  PathInv'
<1>1. txRing \in [Stations -> Seq(RingEntries)] /\ rxRing \in [Stations -> Seq(RingEntries)]
      /\ txRing[s] # <<>>
  BY DEF PathInv, PathTypes, Air
<1>2. Head(txRing[s]) \in RingEntries /\ Tail(txRing[s]) \in Seq(RingEntries)
  BY <1>1, HeadTailProperties
<1>3. txRing' \in [Stations -> Seq(RingEntries)]
  BY <1>1, <1>2 DEF Air
<1>4. rxRing' \in [Stations -> Seq(RingEntries)]
  <2>1. PICK hearers \in SUBSET (Stations \ {s}) :
            rxRing' = [r \in Stations |-> IF r \in hearers THEN Append(rxRing[r], Head(txRing[s]))
                                          ELSE rxRing[r]]
    BY DEF Air
  <2>2. \A r \in Stations : Append(rxRing[r], Head(txRing[s])) \in Seq(RingEntries)
    BY <1>1, <1>2, AppendProperties
  <2> QED BY <1>1, <2>1, <2>2
<1>5. UNCHANGED <<port, streams, reply, sender, history>>
  BY DEF Air
<1>6. PathTypes'
  BY <1>3, <1>4, <1>5 DEF PathInv, PathTypes, streams, history
<1>7. ASSUME NEW r \in Stations
      PROVE  InboundInv(r)' /\ OutboundInv(r)' /\ SenderInv(r)'
  BY <1>5, InboundSame, OutboundSame, SenderSame DEF PathInv, streams, history
<1> QED BY <1>6, <1>7 DEF PathInv

LEMMA SenderLooksKeeps ==
    ASSUME PathInv, NEW s \in Stations, SenderLooks(s)
    PROVE  PathInv'
<1>1. /\ sender[s] = "look"
      /\ IF Serving(s) THEN sender' = [sender EXCEPT ![s] = "read"]
         ELSE sender' = [sender EXCEPT ![s] = "gone"]
      /\ UNCHANGED <<port, streams, bcastRings, reply, history>>
  BY DEF SenderLooks
<1>2. PathTypes'
  BY <1>1 DEF PathInv, PathTypes, streams, bcastRings, history
<1>3. ASSUME NEW r \in Stations
      PROVE  InboundInv(r)' /\ OutboundInv(r)' /\ SenderInv(r)'
  <2>1. InboundInv(r)' /\ OutboundInv(r)'
    BY <1>1, InboundSame, OutboundSame DEF PathInv, streams, history
  <2>2. SenderInv(r)'
    BY <1>1 DEF PathInv, PathTypes, SenderInv, Serving, Rests, streams
  <2> QED BY <2>1, <2>2
<1> QED BY <1>2, <1>3 DEF PathInv

LEMMA SenderReadsKeeps ==
    ASSUME PathInv, NEW s \in Stations, SenderReads(s)
    PROVE  PathInv'
<1> DEFINE e == Head(rxRing[s])
           p == TxPayload(e.data, reply[s])
           x == [cmd |-> p.cmd, frame |-> p.frame, of |-> e.of, reply |-> reply[s]]
           f == [cmd |-> p.cmd, frame |-> p.frame]
<1>1. /\ rxRing \in [Stations -> Seq(RingEntries)] /\ rxRing[s] # <<>>
      /\ reply[s] \in Replies /\ sender[s] = "read" /\ Rests(outbound[s])
      /\ due[s] \in Seq(DueFrames)
  BY DEF PathInv, PathTypes, SenderReads, SenderInv
<1>2. e \in RingEntries /\ Tail(rxRing[s]) \in Seq(RingEntries)
  BY <1>1, HeadTailProperties
<1>3. rxRing' \in [Stations -> Seq(RingEntries)]
  BY <1>1, <1>2 DEF SenderReads
<1>4. UNCHANGED <<port, inbound, txRing, reply, clients, junk, written, taken, heard>>
  BY DEF SenderReads
<1>5. /\ rxRing' = [rxRing EXCEPT ![s] = Tail(@)]
      /\ IF p.frame = <<>>
         THEN sender' = [sender EXCEPT ![s] = "look"] /\ UNCHANGED <<outbound, due>>
         ELSE /\ sender' = [sender EXCEPT ![s] = "write"]
              /\ outbound' = [outbound EXCEPT ![s] = BeginsFrame(@, p)]
              /\ due' = [due EXCEPT ![s] = Append(@, x)]
  BY DEF SenderReads
<1>6. e.of \in KissFrames /\ e.data = ModemFrame(e.of.frame, e.of.cmd) /\ e.data \in Seq(Octet)
      /\ Len(e.data) = FrameSize
  BY <1>2 DEF RingEntries
<1> HIDE DEF e
<1>7. CASE p.frame = <<>>
  <2> HIDE DEF p
  <2>1. sender' = [sender EXCEPT ![s] = "look"] /\ UNCHANGED <<outbound, due>>
    BY <1>5, <1>7
  <2>2. PathTypes'
    BY <1>3, <1>4, <2>1 DEF PathInv, PathTypes
  <2>3. ASSUME NEW r \in Stations
        PROVE  InboundInv(r)' /\ OutboundInv(r)' /\ SenderInv(r)'
    <3>1. InboundInv(r)' /\ OutboundInv(r)'
      BY <1>4, <2>1, InboundSame, OutboundSame DEF PathInv
    <3>2. SenderInv(r)'
      BY <1>1, <1>4, <2>1 DEF PathInv, PathTypes, SenderInv, Serving, Rests
    <3> QED BY <3>1, <3>2
  <2> QED BY <2>2, <2>3 DEF PathInv
<1>8. CASE p.frame # <<>>
  <2>1. /\ p.cmd \in DataCommands /\ p.frame \in Seq(Octet) /\ Len(p.frame) <= FrameSize
    BY <1>1, <1>6, PayloadTypes DEF Replies
  <2>2. Len(p.frame) <= MaxPayload
    <3>1. Len(p.frame) \in Nat
      BY <2>1, LenProperties
    <3> QED BY <2>1, <3>1, SizeAssumption
  <2>3. e.data # <<>>
    BY <1>6, EmptySeq, SizeAssumption
  <2>4. Shows(e.of, reply[s], p)
    BY <1>1, <1>6, <2>3, PayloadShown DEF Replies
  <2>5. sender' = [sender EXCEPT ![s] = "write"]
        /\ outbound' = [outbound EXCEPT ![s] = BeginsFrame(@, p)]
        /\ due' = [due EXCEPT ![s] = Append(@, x)]
    BY <1>5, <1>8
  <2> HIDE DEF p
  <2>6. Shows(e.of, reply[s], f)
    BY <2>4 DEF Shows
  <2>7. x \in DueFrames
    BY <1>1, <1>6, <1>8, <2>1, <2>2, <2>6 DEF DueFrames
  <2> DEFINE c == BeginsFrame(outbound[s], f)
             q == Append(due[s], x)
  <2>8. f \in KissFrames
    BY <1>8, <2>1 DEF KissFrames
  <2>9. BeginsFrame(outbound[s], p) = c
    BY DEF BeginsFrame
  <2>10. Sent(q) = Append(Sent(due[s]), f)
    <3>1. Sent(q) = Append(Sent(due[s]), [cmd |-> x.cmd, frame |-> x.frame])
      BY <1>1, <2>7, SentAppends
    <3>2. [cmd |-> x.cmd, frame |-> x.frame] = f
      OBVIOUS
    <3> QED BY <3>1, <3>2
  <2> HIDE DEF f, x
  <2>11. StreamInv(c, Sent(q), heard[s], FALSE)
    <3>1. StreamInv(outbound[s], Sent(due[s]), heard[s], FALSE)
      BY DEF PathInv, OutboundInv
    <3> DEFINE w == Sent(due[s])
    <3> HIDE DEF w
    <3>2. StreamInv(outbound[s], w, heard[s], FALSE)
      BY <3>1 DEF w
    <3>3. StreamInv(BeginsFrame(outbound[s], f), Append(w, f), heard[s], FALSE)
      BY <1>1, <2>8, <3>2, FrameBegins
    <3> QED BY <2>10, <3>3 DEF w
  <2>12. c \in Streams
    BY <2>11 DEF StreamInv
  <2>13. q \in Seq(DueFrames)
    BY <1>1, <2>7, AppendProperties
  <2>14. outbound' = [outbound EXCEPT ![s] = c] /\ due' = [due EXCEPT ![s] = q]
    BY <2>5, <2>9
  <2> HIDE DEF c, q
  <2>15. PathTypes'
    BY <1>3, <1>4, <2>5, <2>12, <2>13, <2>14 DEF PathInv, PathTypes
  <2>16. outbound'[s] = c /\ due'[s] = q /\ heard'[s] = heard[s] /\ sender'[s] = "write"
    BY <1>4, <2>5, <2>14 DEF PathInv, PathTypes
  <2>17. OutboundInv(s)'
    BY <2>11, <2>16 DEF OutboundInv, Sent
  <2>18. SenderInv(s)'
    BY <2>16 DEF SenderInv
  <2>19. ASSUME NEW r \in Stations
         PROVE  InboundInv(r)' /\ OutboundInv(r)' /\ SenderInv(r)'
    <3>1. InboundInv(r)'
      BY <1>4, InboundSame DEF PathInv
    <3>2. r # s => OutboundInv(r)' /\ SenderInv(r)'
      BY <1>4, <2>5, <2>14, OutboundSame, SenderSame DEF PathInv, PathTypes
    <3> QED BY <2>17, <2>18, <3>1, <3>2
  <2> QED BY <2>15, <2>19 DEF PathInv
<1> QED BY <1>7, <1>8

LEMMA SenderWritesKeeps ==
    ASSUME PathInv, NEW s \in Stations, SenderWrites(s)
    PROVE  PathInv'
<1>1. sender[s] = "write" /\ UNCHANGED <<port, inbound, bcastRings, reply, history>>
  BY DEF SenderWrites
<1>2. CASE outbound[s].busy
  <2> DEFINE d == PieceWritten(outbound[s])
             w == Sent(due[s])
  <2>1. CanWritePiece(outbound[s]) /\ outbound' = [outbound EXCEPT ![s] = d] /\ sender' = sender
    BY <1>2 DEF SenderWrites
  <2>2. StreamInv(outbound[s], w, heard[s], FALSE)
    BY DEF PathInv, OutboundInv
  <2> HIDE DEF w
  <2>3. StreamInv(d, w, heard[s], FALSE)
    BY <2>1, <2>2, PieceWrites
  <2>4. d \in Streams
    BY <2>3 DEF StreamInv
  <2> HIDE DEF d
  <2>5. PathTypes'
    BY <1>1, <2>1, <2>4 DEF PathInv, PathTypes, bcastRings, history
  <2>6. OutboundInv(s)'
    <3>1. outbound'[s] = d /\ due' = due /\ heard' = heard
      BY <1>1, <2>1 DEF PathInv, PathTypes, history
    <3>2. Sent(due'[s]) = w
      BY <3>1 DEF w
    <3> QED BY <2>3, <3>1, <3>2 DEF OutboundInv
  <2>7. ASSUME NEW r \in Stations
        PROVE  InboundInv(r)' /\ OutboundInv(r)' /\ SenderInv(r)'
    <3>1. InboundInv(r)'
      BY <1>1, InboundSame DEF PathInv, history
    <3>2. r # s => OutboundInv(r)' /\ SenderInv(r)'
      BY <1>1, <2>1, OutboundSame, SenderSame DEF PathInv, PathTypes, history
    <3>3. SenderInv(s)'
      BY <1>1, <2>1 DEF SenderInv
    <3> QED BY <2>6, <3>1, <3>2, <3>3
  <2> QED BY <2>5, <2>7 DEF PathInv
<1>3. CASE ~outbound[s].busy
  <2>1. Rests(outbound[s]) /\ sender' = [sender EXCEPT ![s] = "look"] /\ outbound' = outbound
    BY <1>3 DEF SenderWrites, Rests
  <2>2. PathTypes'
    BY <1>1, <2>1 DEF PathInv, PathTypes, bcastRings, history
  <2>3. ASSUME NEW r \in Stations
        PROVE  InboundInv(r)' /\ OutboundInv(r)' /\ SenderInv(r)'
    <3>1. InboundInv(r)' /\ OutboundInv(r)'
      BY <1>1, <2>1, InboundSame, OutboundSame DEF PathInv, history
    <3>2. SenderInv(r)'
      BY <1>1, <2>1 DEF PathInv, PathTypes, SenderInv, Serving, Rests
    <3> QED BY <3>1, <3>2
  <2> QED BY <2>2, <2>3 DEF PathInv
<1> QED BY <1>2, <1>3

LEMMA SenderFailsKeeps ==
    ASSUME PathInv, NEW s \in Stations, SenderFails(s)
    PROVE  PathInv'
<1>1. PathTypes'
  BY DEF PathInv, PathTypes, SenderFails, streams, bcastRings, history
<1>2. ASSUME NEW r \in Stations
      PROVE  InboundInv(r)' /\ OutboundInv(r)' /\ SenderInv(r)'
  <2>1. InboundInv(r)' /\ OutboundInv(r)'
    BY InboundSame, OutboundSame DEF PathInv, SenderFails, streams, history
  <2>2. SenderInv(r)'
    BY DEF PathInv, PathTypes, SenderFails, SenderInv, Serving, Rests, streams
  <2> QED BY <2>1, <2>2
<1> QED BY <1>1, <1>2 DEF PathInv

LEMMA ClearsRxKeeps ==
    ASSUME PathInv, NEW s \in Stations, ClearsRx(s)
    PROVE  PathInv'
<1>1. PathTypes'
  <2>1. <<>> \in Seq(RingEntries)
    BY EmptySeq
  <2> QED BY <2>1 DEF PathInv, PathTypes, ClearsRx, streams, history
<1>2. ASSUME NEW r \in Stations
      PROVE  InboundInv(r)' /\ OutboundInv(r)' /\ SenderInv(r)'
  <2>1. InboundInv(r)' /\ OutboundInv(r)'
    BY InboundSame, OutboundSame DEF PathInv, ClearsRx, streams, history
  <2>2. SenderInv(r)'
    BY DEF PathInv, PathTypes, ClearsRx, SenderInv, Serving, Rests, streams
  <2> QED BY <2>1, <2>2
<1> QED BY <1>1, <1>2 DEF PathInv

LEMMA AcceptsKeeps ==
    ASSUME PathInv, NEW s \in Stations, Accepts(s)
    PROVE  PathInv'
<1>1. PathTypes'
  <2>1. \A S : <<>> \in Seq(S)
    BY EmptySeq
  <2>2. CmdData \in Replies
    BY DEF Replies
  <2> QED BY <2>1, <2>2, FreshRests DEF PathInv, PathTypes, Accepts, bcastRings
<1>2. /\ inbound'[s] = Fresh /\ outbound'[s] = Fresh /\ junk'[s] = 0 /\ written'[s] = <<>>
      /\ taken'[s] = <<>> /\ due'[s] = <<>> /\ heard'[s] = <<>> /\ sender'[s] = "look"
  BY DEF PathInv, PathTypes, Accepts
<1>3. InboundInv(s)' /\ OutboundInv(s)'
  <2>1. InboundInv(s)'
    <3>1. (junk'[s] > 0) = FALSE
      BY <1>2
    <3> QED BY <1>2, <3>1, FreshStream DEF InboundInv
  <2>2. OutboundInv(s)'
    BY <1>2, SentEmpty, FreshStream DEF OutboundInv, Sent
  <2> QED BY <2>1, <2>2
<1>4. SenderInv(s)'
  BY <1>2, FreshRests DEF SenderInv
<1>5. ASSUME NEW r \in Stations, r # s
      PROVE  InboundInv(r)' /\ OutboundInv(r)' /\ SenderInv(r)'
  <2>1. /\ inbound'[r] = inbound[r] /\ outbound'[r] = outbound[r] /\ junk'[r] = junk[r]
        /\ written'[r] = written[r] /\ taken'[r] = taken[r] /\ due'[r] = due[r]
        /\ heard'[r] = heard[r] /\ sender'[r] = sender[r] /\ port'[r] = port[r]
    BY <1>5 DEF PathInv, PathTypes, Accepts
  <2> QED BY <2>1, InboundSame, OutboundSame, SenderSame DEF PathInv
<1> QED BY <1>1, <1>3, <1>4, <1>5 DEF PathInv

LEMMA PathStutters ==
    ASSUME PathInv, UNCHANGED pathVars
    PROVE  PathInv'
<1>1. PathTypes'
  BY DEF PathInv, PathTypes, pathVars, streams, bcastRings, history
<1>2. ASSUME NEW r \in Stations
      PROVE  InboundInv(r)' /\ OutboundInv(r)' /\ SenderInv(r)'
  BY InboundSame, OutboundSame, SenderSame DEF PathInv, pathVars, streams, history
<1> QED BY <1>1, <1>2 DEF PathInv

LEMMA PathKeeps ==
    PathInv /\ [PathNext]_pathVars => PathInv'
<1>1. ASSUME PathInv, NEW s \in Stations, PathStep(s)
      PROVE  PathInv'
  BY <1>1, ClientJunkKeeps, ClientBeginsKeeps, ClientWritesKeeps, ClientReadsKeeps,
     StationReadsKeeps, AirKeeps, SenderLooksKeeps, SenderReadsKeeps, SenderWritesKeeps,
     SenderFailsKeeps, HangUpKeeps, ClearsRxKeeps, AcceptsKeeps DEF PathStep
<1> QED BY <1>1, PathStutters DEF PathNext

\* Each of the two streams of every client is where kiss_read and
\* kiss_write_frame can have got to, whatever of it has been read; the rings
\* hold modem frames of the configured size made of broadcasts; send_thread
\* is between two frames whenever it looks for one, and alive while it has a
\* client.
THEOREM BroadcastInvariant ==
    PathSpec => []PathInv
<1> QED BY PathInitially, PathKeeps, PTL DEF PathSpec

\* From the second frame on, kiss_read decodes what a client sends, whatever
\* came before the first one, but for an escape that was left open; and all
\* of it if nothing came before, whatever the client before was in the middle
\* of.
THEOREM KissResyncsHolds ==
    PathSpec => []KissResyncs
<1>1. PathInv => KissResyncs
  BY PathSafe
<1> QED BY <1>1, BroadcastInvariant, PTL

\* A client hears the broadcasts of others whole and in the order in which
\* send_thread took them: packet radio byte for byte and in its KISS command,
\* raw frames filled up as its own framing has it.
THEOREM BroadcastKeptHolds ==
    PathSpec => []BroadcastKept
<1>1. PathInv => BroadcastKept
  BY PathSafe
<1> QED BY <1>1, BroadcastInvariant, PTL

=============================================================================

----------------------------- MODULE RingBuffer -----------------------------
(***************************************************************************)
(* The byte rings of common/ring_buffer_posix.c that connect the threads:  *)
(* head is where the next byte goes, tail where the next one comes from,   *)
(* `full' tells a full ring from an empty one when they meet.              *)
(*                                                                         *)
(* Every operation here is what one critical section does once it may go   *)
(* on.  Waiting until it may is up to the module that uses the ring        *)
(* (write_buffer waits for CanWrite, read_buffer for CanRead).             *)
(***************************************************************************)
EXTENDS Integers, Sequences

Rings(max, Byte) ==
    {r \in [buffer : [0 .. max - 1 -> Byte], head : 0 .. max - 1,
            tail : 0 .. max - 1, full : BOOLEAN, max : {max}] :
        r.full => r.head = r.tail}

Size(r) ==
    IF r.full THEN r.max
    ELSE IF r.head >= r.tail THEN r.head - r.tail
    ELSE r.max + r.head - r.tail

FreeSize(r) ==
    IF r.full THEN 0
    ELSE IF r.head >= r.tail THEN r.max - (r.head - r.tail)
    ELSE r.tail - r.head

CanWrite(r, n) == FreeSize(r) >= n
CanRead(r, n) == Size(r) >= n

\* advance_pointer_n: a write to a full ring would push its oldest bytes out.
Advance(r, n) ==
    LET head == (r.head + n) % r.max
        tail == IF r.full THEN (r.tail + n) % r.max ELSE r.tail
    IN  [r EXCEPT !.head = head, !.tail = tail, !.full = head = tail]

\* retreat_pointer_n
Retreat(r, n) == [buffer |-> r.buffer, head |-> r.head, tail |-> (r.tail + n) % r.max,
                  full |-> FALSE, max |-> r.max]

\* n bytes from index `from' do not pass the end of the buffer.  When they end
\* just there the index wraps to 0 and the second of the two copies is empty.
InOnePiece(r, from, n) == (from + n) % r.max > from

\* Wrong: the part behind the wrap starts again with the first byte.
CopyInRestart(r, data) ==
    LET end == r.max - r.head
    IN  [i \in DOMAIN r.buffer |->
            IF InOnePiece(r, r.head, Len(data))
            THEN IF r.head <= i /\ i < r.head + Len(data)
                 THEN data[i - r.head + 1] ELSE r.buffer[i]
            ELSE IF r.head <= i THEN data[i - r.head + 1]
            ELSE IF i < Len(data) - end THEN data[i + 1] ELSE r.buffer[i]]

\* The one or two memcpy of write_buffer, at most max - head bytes in the first.
CopyIn(r, data) ==
    LET end == r.max - r.head
    IN  [i \in DOMAIN r.buffer |->
            IF InOnePiece(r, r.head, Len(data))
            THEN IF r.head <= i /\ i < r.head + Len(data)
                 THEN data[i - r.head + 1] ELSE r.buffer[i]
            ELSE IF r.head <= i THEN data[i - r.head + 1]
            ELSE IF i < Len(data) - end THEN data[end + i + 1] ELSE r.buffer[i]]

\* The one or two memcpy of read_buffer
CopyOut(r, n) ==
    LET end == r.max - r.tail
    IN  [k \in 1 .. n |->
            IF InOnePiece(r, r.tail, n) \/ k <= end
            THEN r.buffer[r.tail + k - 1]
            ELSE r.buffer[k - end - 1]]

\* write_buffer, read_buffer and clear_buffer
Write(r, data) ==
    IF data = <<>> THEN r ELSE Advance([r EXCEPT !.buffer = CopyIn(r, data)], Len(data))

Read(r, n) == IF n = 0 THEN r ELSE Retreat(r, n)

Clear(r) == [buffer |-> r.buffer, head |-> 0, tail |-> 0, full |-> FALSE, max |-> r.max]

-----------------------------------------------------------------------------

\* The bytes in the ring, oldest first: what the ring stands for.
Stored(r) == [k \in 1 .. Size(r) |-> r.buffer[(r.tail + k - 1) % r.max]]

\* A ring is a bounded FIFO of bytes: a write that fits appends, a read that
\* is covered takes from the front, whatever the position of the wrap.
WriteAppends(r, data) ==
    CanWrite(r, Len(data)) => Stored(Write(r, data)) = Stored(r) \o data

ReadTakesFront(r, n) ==
    CanRead(r, n) =>
        /\ CopyOut(r, n) = SubSeq(Stored(r), 1, n)
        /\ Stored(Read(r, n)) = SubSeq(Stored(r), n + 1, Size(r))

SizesAddUp(r) == Size(r) + FreeSize(r) = r.max

=============================================================================

------------------------------ MODULE ArqFrames ------------------------------
(***************************************************************************)
(* The length of a DATA frame on the air.  A frame is always as long as its *)
(* mode makes it; how much of it is data is in one byte of the header and  *)
(* three bits of the flags, and a full frame is told by zeros there.  The  *)
(* receiver finds the mode by the size of the frame.                       *)
(***************************************************************************)
EXTENDS Integers

\* arq_mode_table: payload_bytes
PayloadBytes == [datac16 |-> 14, datac15 |-> 30, datac4 |-> 54, datac3 |-> 126,
                 datac1 |-> 510, datac17 |-> 1180, qam16c2 |-> 1213, qam16fm |-> 256]

ArqModes == DOMAIN PayloadBytes

FrameHdrSize == 8
SlotBytes(size) == size - FrameHdrSize

\* ARQ_FLAG_LEN_HI, LEN_B9 and LEN_B10, by the bit of the length they stand for
LenFlags == {256, 512, 1024}
BurstEnd == 4

Bit(n, b) == (n \div b) % 2 = 1

\* send_data_burst; BURST_END is set when the whole burst is known.
BuildLength(len, slot, last) ==
    [payload_valid |-> IF len = slot THEN 0 ELSE len % 256,
     flags |-> {b \in LenFlags : len # slot /\ Bit(len, b)}
               \cup (IF last THEN {BurstEnd} ELSE {})]

\* Wrong: a multiple of 256 is taken for a full frame.
FullByByte(hdr) == hdr.payload_valid = 0

IsFull(hdr) == hdr.payload_valid = 0 /\ hdr.flags \cap LenFlags = {}

\* arq_handle_incoming_frame
ModeOfSize(size) ==
    IF \E m \in ArqModes : PayloadBytes[m] = size
    THEN CHOOSE m \in ArqModes : PayloadBytes[m] = size
    ELSE "datac15"

HasFlag(hdr, b) == IF b \in hdr.flags THEN b ELSE 0

ValidBytes(hdr, slot) ==
    LET n == hdr.payload_valid + HasFlag(hdr, 256) + HasFlag(hdr, 512) + HasFlag(hdr, 1024)
    IN  IF IsFull(hdr) \/ n > slot THEN slot ELSE n

-----------------------------------------------------------------------------

\* The receiver delivers as many bytes as were sent, for every mode and every
\* length a burst can have, with the mode found from the size alone.
LengthKept(m, len, last) ==
    LET size == PayloadBytes[m]
        hdr  == BuildLength(len, SlotBytes(size), last)
    IN  ModeOfSize(size) = m /\ ValidBytes(hdr, SlotBytes(size)) = len

=============================================================================

-------------------------- MODULE BroadcastFraming --------------------------
(***************************************************************************)
(* What becomes of a broadcast on its way from one client to another: KISS *)
(* to the station (kiss_read), a modem frame of fixed size with the length *)
(* in front (bcast_process_decoded_frame), and KISS again to the client of *)
(* a station that received it (bcast_get_tx_payload, kiss_write_frame).    *)
(***************************************************************************)
EXTENDS Integers, Sequences

CONSTANTS
    FrameSize,    \* broadcast_frame_size_cfg: bytes of a modem frame
    MaxPayload    \* MAX_PAYLOAD of kiss.h: room for a frame being decoded

\* The length of a payload has two bytes.
ASSUME SizeAssumption ==
    /\ FrameSize \in Nat /\ MaxPayload \in Nat
    /\ 3 < FrameSize /\ FrameSize <= MaxPayload /\ MaxPayload < 65536

Octet == 0 .. 255

FEND == 192
FESC == 219
TFEND == 220
TFESC == 221

CmdAx25 == 0
CmdCallsign == 1
CmdData == 2
CmdUnknown == 254

Ax25Commands == {CmdAx25, CmdCallsign}
DataCommands == Ax25Commands \cup {CmdData}
CarriesData(cmd) == cmd \in DataCommands

\* A frame with the KISS command it comes in
KissFrames == [cmd : DataCommands, frame : Seq(Octet) \ {<<>>}]

Cut(frame, n) == SubSeq(frame, 1, IF Len(frame) < n THEN Len(frame) ELSE n)

-----------------------------------------------------------------------------
(* kiss.c                                                                  *)

\* kiss_reset_state, as recv_thread does for every client
KissReset == [inFrame |-> FALSE, escape |-> FALSE, cmd |-> CmdUnknown, frame |-> <<>>]

Unescaped(escape, byte) ==
    IF escape /\ byte = TFEND THEN FEND
    ELSE IF escape /\ byte = TFESC THEN FESC ELSE byte

\* Wrong: a FEND ends whatever there is.
ClosesAny(k) == k.inFrame

\* Whether a FEND ends a frame
Closes(k) == k.inFrame /\ CarriesData(k.cmd)

\* Otherwise it begins one.  An open escape survives both.
End(k) ==
    IF Closes(k) THEN [k EXCEPT !.inFrame = FALSE]
    ELSE [k EXCEPT !.inFrame = TRUE, !.cmd = CmdUnknown, !.frame = <<>>]

KissRead(k, byte) ==
    IF byte = FEND THEN End(k)
    ELSE IF ~k.inFrame \/ Len(k.frame) >= MaxPayload THEN k
    ELSE IF k.frame = <<>> /\ k.cmd = CmdUnknown THEN [k EXCEPT !.cmd = byte % 16]
    ELSE IF ~CarriesData(k.cmd) THEN k
    ELSE IF byte = FESC THEN [k EXCEPT !.escape = TRUE]
    ELSE [k EXCEPT !.frame = Append(@, Unescaped(k.escape, byte)), !.escape = FALSE]

\* The frame that kiss_read returns with this byte, if any.  One without bytes
\* is passed over by its caller.
Decoded(k, byte) ==
    IF byte = FEND /\ Closes(k) /\ k.frame # <<>>
    THEN <<[cmd |-> k.cmd, frame |-> k.frame]>> ELSE <<>>

\* What kiss_write_frame writes in the place of a byte
Escaped(byte) ==
    IF byte = FEND THEN <<FESC, TFEND>>
    ELSE IF byte = FESC THEN <<FESC, TFESC>> ELSE <<byte>>

-----------------------------------------------------------------------------
(* tcp_interfaces.c                                                        *)

\* write_frame_header: the type in three bits, the extension in five
BroadcastControl == 3
BroadcastData == 4
Header(type, ext) == type * 32 + ext
PacketType(byte) == byte \div 32
HasLength(byte) == PacketType(byte) = BroadcastData /\ byte % 2 = 1
IsStandard(byte) == (byte \div 2) % 2 = 1

\* process_received_frame: which modem frames are broadcasts
IsBroadcast(f) == PacketType(f[1]) \in {BroadcastControl, BroadcastData}

LenSize == 2
PayloadRoom == FrameSize - 1 - LenSize

\* bcast_reply_cmd
ReplyCmd(cmd) == IF cmd \in Ax25Commands THEN CmdCallsign ELSE CmdData

\* Wrong: the length counts what is put in front of the payload.
WithHeaderCounted(frame, cmd) ==
    LET n == Len(Cut(frame, PayloadRoom)) + 1 + LenSize
    IN  <<Header(BroadcastData, IF cmd = CmdAx25 THEN 3 ELSE 1), n \div 256, n % 256>>
            \o Cut(frame, PayloadRoom)

\* The extension says that there is a length, and which KISS it came in.
WithHeader(frame, cmd) ==
    LET n == Len(Cut(frame, PayloadRoom))
    IN  <<Header(BroadcastData, IF cmd = CmdAx25 THEN 3 ELSE 1), n \div 256, n % 256>>
            \o Cut(frame, PayloadRoom)

Padded(frame) == frame \o [i \in 1 .. FrameSize - Len(frame) |-> 0]

\* bcast_process_decoded_frame: the modem frame, or nothing
ModemFrame(frame, cmd) ==
    LET f == IF cmd \in Ax25Commands THEN WithHeader(frame, cmd) ELSE frame
    IN  IF Len(f) > FrameSize THEN <<>> ELSE Padded(f)

\* bcast_get_tx_payload
TxPayload(f, reply) ==
    IF HasLength(f[1])
    THEN [cmd |-> IF IsStandard(f[1]) THEN CmdAx25 ELSE CmdCallsign,
          frame |-> Cut(SubSeq(f, 2 + LenSize, FrameSize), f[2] * 256 + f[3])]
    ELSE [cmd |-> reply, frame |-> IF reply = CmdData THEN f ELSE Tail(f)]

=============================================================================

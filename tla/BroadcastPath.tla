---------------------------- MODULE BroadcastPath ----------------------------
(***************************************************************************)
(* The broadcast port of stations that hear each other: the client and its *)
(* two TCP streams of KISS bytes, recv_thread and send_thread, and         *)
(* tcp_server_thread, that takes in one client after another.  Between the *)
(* rings of the stations is the modem, of which ModemTx shows that it      *)
(* sends whole frames; here a frame is heard by some stations or none.     *)
(*                                                                         *)
(* A KISS byte stream is written piece by piece: the FEND and the command, *)
(* each byte of the payload, the FEND.  The next piece is written when the *)
(* one before has been read.  A decoder sees the same bytes however many   *)
(* wait for it.                                                            *)
(***************************************************************************)
EXTENDS BroadcastFraming

CONSTANTS
    Stations,
    RingFrames,    \* how many frames each of the two rings holds
    \* Bounds on what is explored; none of them is in the code.
    ClientFrames,  \* what clients write, as KISS frames
    MaxClients,    \* clients of a station, one after the other
    MaxWritten,    \* how many frames a client writes
    JunkBytes, MaxJunk   \* what it may write before, and how much

ASSUME PathAssumption ==
    /\ RingFrames \in Nat \ {0} /\ {MaxClients, MaxWritten, MaxJunk} \subseteq Nat
    /\ ClientFrames \subseteq KissFrames
    /\ JunkBytes \subseteq Octet

VARIABLES
    port,      \* tcp_server_thread: "serving" a client, "leaving", "joining"
    inbound,   \* the stream from the client, with its writer and its decoder
    outbound,  \* the stream to the client
    txRing,    \* data_tx_buffer_broadcast
    rxRing,    \* data_rx_buffer_broadcast
    reply,     \* bcast_reply_cmd
    sender,    \* send_thread: "look", "read", "write" or "gone"
    clients,   \* history: how many clients there were
    \* History of the client that is connected
    junk,      \* how many bytes it wrote before its first frame
    written,   \* the frames it has written
    taken,     \* the frames that recv_thread has decoded
    due,       \* the frames that send_thread began to write, and their origin
    heard      \* the frames it has decoded

streams == <<inbound, outbound>>
bcastRings == <<txRing, rxRing>>
history == <<clients, junk, written, taken, due, heard>>
pathVars == <<port, streams, bcastRings, reply, sender, history>>

-----------------------------------------------------------------------------
(* A stream of KISS bytes                                                  *)

\* What is left to be written of a frame, the bytes on their way, and the
\* state of the decoder
Fresh == [busy |-> FALSE, left |-> <<>>, line |-> <<>>, kiss |-> KissReset]

\* kiss_write_frame
BeginsFrame(c, f) == [c EXCEPT !.busy = TRUE, !.left = f.frame, !.line = <<FEND, f.cmd>>]

CanWritePiece(c) == c.busy /\ c.line = <<>>

PieceWritten(c) ==
    IF c.left = <<>> THEN [c EXCEPT !.busy = FALSE, !.line = <<FEND>>]
    ELSE [c EXCEPT !.left = Tail(@), !.line = Escaped(Head(c.left))]

ByteRead(c) == [c EXCEPT !.line = Tail(@), !.kiss = KissRead(@, Head(c.line))]

FramesRead(c) == Decoded(c.kiss, Head(c.line))

Rests(c) == ~c.busy /\ c.line = <<>>

-----------------------------------------------------------------------------
(* The client                                                              *)

Serving(s) == port[s] = "serving"

\* Whatever comes before the first frame: bytes of no frame, frames of other
\* commands, the end of a frame that was begun elsewhere.
ClientJunk(s) ==
    /\ Serving(s) /\ Rests(inbound[s]) /\ written[s] = <<>> /\ junk[s] < MaxJunk
    /\ \E byte \in JunkBytes :
           inbound' = [inbound EXCEPT ![s].line = <<byte>>]
    /\ junk' = [junk EXCEPT ![s] = @ + 1]
    /\ UNCHANGED <<port, outbound, bcastRings, reply, sender, clients, written, taken, due, heard>>

ClientBegins(s) ==
    /\ Serving(s) /\ Rests(inbound[s]) /\ Len(written[s]) < MaxWritten
    /\ \E f \in ClientFrames :
           /\ inbound' = [inbound EXCEPT ![s] = BeginsFrame(@, f)]
           /\ written' = [written EXCEPT ![s] = Append(@, f)]
    /\ UNCHANGED <<port, outbound, bcastRings, reply, sender, clients, junk, taken, due, heard>>

ClientWrites(s) ==
    /\ Serving(s) /\ CanWritePiece(inbound[s])
    /\ inbound' = [inbound EXCEPT ![s] = PieceWritten(@)]
    /\ UNCHANGED <<port, outbound, bcastRings, reply, sender, history>>

ClientReads(s) ==
    /\ Serving(s) /\ outbound[s].line # <<>>
    /\ outbound' = [outbound EXCEPT ![s] = ByteRead(@)]
    /\ heard' = [heard EXCEPT ![s] = @ \o FramesRead(outbound[s])]
    /\ UNCHANGED <<port, inbound, bcastRings, reply, sender, clients, junk, written, taken, due>>

-----------------------------------------------------------------------------
(* The station                                                             *)

\* bcast_process_decoded_frame: latch the framing of the client, and write
\* the modem frame to the ring, waiting for room.
Process(s, f) ==
    LET data == ModemFrame(f.frame, f.cmd)
    IN  /\ taken' = [taken EXCEPT ![s] = Append(@, f)]
        /\ reply' = [reply EXCEPT ![s] = ReplyCmd(f.cmd)]
        /\ IF data = <<>> THEN UNCHANGED txRing
           ELSE /\ Len(txRing[s]) < RingFrames
                /\ txRing' = [txRing EXCEPT ![s] = Append(@, [data |-> data, of |-> f])]

\* recv_thread
StationReads(s) ==
    /\ Serving(s) /\ inbound[s].line # <<>>
    /\ inbound' = [inbound EXCEPT ![s] = ByteRead(@)]
    /\ IF FramesRead(inbound[s]) = <<>> THEN UNCHANGED <<taken, reply, txRing>>
       ELSE Process(s, Head(FramesRead(inbound[s])))
    /\ UNCHANGED <<port, outbound, rxRing, sender, clients, junk, written, due, heard>>

\* The modem: what is no broadcast by its header is not for this port.
Air(s) ==
    /\ txRing[s] # <<>>
    /\ txRing' = [txRing EXCEPT ![s] = Tail(@)]
    /\ \E hearers \in SUBSET (Stations \ {s}) :
           /\ IsBroadcast(Head(txRing[s]).data) \/ hearers = {}
           /\ \A r \in hearers : Len(rxRing[r]) < RingFrames
           /\ rxRing' = [r \in Stations |-> IF r \in hearers
                                            THEN Append(rxRing[r], Head(txRing[s]))
                                            ELSE rxRing[r]]
    /\ UNCHANGED <<port, streams, reply, sender, history>>

\* send_thread: size_buffer says that there is a frame.
SenderLooks(s) ==
    /\ sender[s] = "look"
    /\ IF Serving(s) THEN rxRing[s] # <<>> /\ sender' = [sender EXCEPT ![s] = "read"]
       ELSE sender' = [sender EXCEPT ![s] = "gone"]
    /\ UNCHANGED <<port, streams, bcastRings, reply, history>>

\* read_buffer waits, should the ring have been cleared since.
SenderReads(s) ==
    /\ sender[s] = "read" /\ rxRing[s] # <<>>
    /\ rxRing' = [rxRing EXCEPT ![s] = Tail(@)]
    /\ LET e == Head(rxRing[s])
           p == TxPayload(e.data, reply[s])
       IN  IF p.frame = <<>>
           THEN sender' = [sender EXCEPT ![s] = "look"] /\ UNCHANGED <<outbound, due>>
           ELSE /\ sender' = [sender EXCEPT ![s] = "write"]
                /\ outbound' = [outbound EXCEPT ![s] = BeginsFrame(@, p)]
                /\ due' = [due EXCEPT ![s] = Append(@, [cmd |-> p.cmd, frame |-> p.frame,
                                                       of |-> e.of, reply |-> reply[s]])]
    /\ UNCHANGED <<port, inbound, txRing, reply, clients, junk, written, taken, heard>>

SenderWrites(s) ==
    /\ Serving(s) /\ sender[s] = "write"
    /\ IF outbound[s].busy
       THEN /\ CanWritePiece(outbound[s])
            /\ outbound' = [outbound EXCEPT ![s] = PieceWritten(@)]
            /\ UNCHANGED sender
       ELSE /\ outbound[s].line = <<>>
            /\ sender' = [sender EXCEPT ![s] = "look"]
            /\ UNCHANGED outbound
    /\ UNCHANGED <<port, inbound, bcastRings, reply, history>>

\* send_all fails when the client has left.
SenderFails(s) ==
    /\ ~Serving(s) /\ sender[s] = "write"
    /\ sender' = [sender EXCEPT ![s] = "gone"]
    /\ UNCHANGED <<port, streams, bcastRings, reply, history>>

\* recv_thread finds that the client has left, and sets bcast_client_done.
HangUp(s) ==
    /\ Serving(s)
    /\ port' = [port EXCEPT ![s] = "leaving"]
    /\ UNCHANGED <<streams, bcastRings, reply, sender, history>>

ClearsRx(s) ==
    /\ port[s] = "leaving"
    /\ port' = [port EXCEPT ![s] = "joining"]
    /\ rxRing' = [rxRing EXCEPT ![s] = <<>>]
    /\ UNCHANGED <<streams, txRing, reply, sender, history>>

\* When send_thread has ended, the next client is accepted.
Accepts(s) ==
    /\ port[s] = "joining" /\ sender[s] = "gone" /\ clients[s] < MaxClients
    /\ clients' = [clients EXCEPT ![s] = @ + 1]
    /\ port' = [port EXCEPT ![s] = "serving"]
    /\ sender' = [sender EXCEPT ![s] = "look"]
    /\ reply' = [reply EXCEPT ![s] = CmdData]
    /\ inbound' = [inbound EXCEPT ![s] = Fresh]
    /\ outbound' = [outbound EXCEPT ![s] = Fresh]
    /\ junk' = [junk EXCEPT ![s] = 0]
    /\ written' = [written EXCEPT ![s] = <<>>]
    /\ taken' = [taken EXCEPT ![s] = <<>>]
    /\ due' = [due EXCEPT ![s] = <<>>]
    /\ heard' = [heard EXCEPT ![s] = <<>>]
    /\ UNCHANGED bcastRings

-----------------------------------------------------------------------------

PathInit ==
    /\ port = [s \in Stations |-> "joining"]
    /\ sender = [s \in Stations |-> "gone"]
    /\ reply = [s \in Stations |-> CmdData]
    /\ inbound = [s \in Stations |-> Fresh] /\ outbound = inbound
    /\ txRing = [s \in Stations |-> <<>>] /\ rxRing = txRing
    /\ junk = [s \in Stations |-> 0] /\ clients = junk
    /\ written = [s \in Stations |-> <<>>]
    /\ taken = written /\ due = written /\ heard = written

PathStep(s) ==
    \/ ClientJunk(s) \/ ClientBegins(s) \/ ClientWrites(s) \/ ClientReads(s)
    \/ StationReads(s) \/ Air(s)
    \/ SenderLooks(s) \/ SenderReads(s) \/ SenderWrites(s) \/ SenderFails(s)
    \/ HangUp(s) \/ ClearsRx(s) \/ Accepts(s)

PathNext == \E s \in Stations : PathStep(s)

PathSpec == PathInit /\ [][PathNext]_pathVars

-----------------------------------------------------------------------------

\* What a decoder can make of a frame: it has room for so much.
Room(f) == [cmd |-> f.cmd, frame |-> Cut(f.frame, MaxPayload)]

AfterEscape(f) == [f EXCEPT !.frame = [f.frame EXCEPT ![1] = Unescaped(TRUE, f.frame[1])]]

\* The frames t were decoded from a stream of the frames w.
Tells(t, w, afterJunk) ==
    LET Got(i) == t[Len(t) - Len(w) + i]
    IN  /\ Len(t) >= Len(w) - 1
        /\ \A i \in 2 .. Len(w) :
               \/ Got(i) = Room(w[i])
               \/ i = 2 /\ afterJunk /\ Got(i) = AfterEscape(Room(w[i]))
        /\ ~afterJunk => t = [i \in DOMAIN w |-> Room(w[i])]

\* Whatever bytes came before, the frames of a client are decoded whole from
\* the second one on; but an escape that was left open before a FEND applies
\* to the next byte of data.  Without such bytes all frames are decoded, and
\* nothing else, also when the client before left in the middle of one.
KissResyncs ==
    \A s \in Stations :
        Rests(inbound[s]) => Tells(taken[s], written[s], junk[s] > 0)

\* What the client of another station is to hear of a frame, when its own
\* framing was `r'.  A packet radio frame comes byte for byte, cut to the room
\* of a modem frame, and in the KISS command that it was sent in.  A raw frame
\* comes filled up, and without its header to a client of packet radio, if the
\* header does not claim a length.
Shows(of, r, f) ==
    /\ of.cmd \in Ax25Commands =>
           f.cmd = of.cmd /\ f.frame = Cut(of.frame, PayloadRoom)
    /\ of.cmd = CmdData /\ ~HasLength(of.frame[1]) =>
           /\ f.cmd = r
           /\ f.frame = IF r = CmdData THEN Padded(of.frame) ELSE Tail(Padded(of.frame))

\* Broadcasts arrive as they were sent, one after the other.
BroadcastKept ==
    \A s \in Stations :
        /\ Len(heard[s]) <= Len(due[s])
        /\ Serving(s) /\ sender[s] # "write" => Len(heard[s]) = Len(due[s])
        /\ \A i \in DOMAIN heard[s] : Shows(due[s][i].of, due[s][i].reply, heard[s][i])

=============================================================================

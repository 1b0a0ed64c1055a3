----------------------------- MODULE Algorithms -----------------------------
(***************************************************************************)
(* The algorithms without a state of their own of which everything can be  *)
(* said for all inputs: the rings, the choice of a mode, the length of a   *)
(* frame.  The variable is the input that one of them is given; what it    *)
(* does with it is an invariant.                                           *)
(***************************************************************************)
EXTENDS RingBuffer, ModeChoice, ArqFrames

VARIABLE input

Is(kind) == input.kind = kind

\* A ring, bytes to write to it, and how many to read
RingInput(max, Byte) ==
    [kind : {"ring"}, r : Rings(max, Byte), data : Seq(Byte), n : Nat]

\* A mode, what the station knows, and how its last bursts went
ModeInput ==
    [kind : {"mode"}, m : PayloadModes, snr : Int, wide : BOOLEAN, backlog : Int,
     retries : Nat]

\* A frame of a mode with as many bytes of data as it has room for, or fewer
LengthInput ==
    {i \in [kind : {"length"}, m : ArqModes, len : Nat, last : BOOLEAN] :
        i.len \in 1 .. SlotBytes(PayloadBytes[i.m])}

-----------------------------------------------------------------------------

\* The ring of ring_buffer_posix.c is a queue in every position of the wrap.
RingIsQueue ==
    Is("ring") => /\ WriteAppends(input.r, input.data)
                  /\ ReadTakesFront(input.r, input.n)
                  /\ SizesAddUp(input.r)

\* select_best_mode has no two modes to go to and fro between.
ModeSettles ==
    Is("mode") => Settles(input.m, input.snr, input.backlog, input.wide, input.retries)

\* select_best_mode keeps to the bandwidth of the session.
ModeWithinBandwidth ==
    Is("mode") => WithinBandwidth(input.m, input.snr, input.backlog, input.wide, input.retries)

\* The receiver of a DATA frame finds its mode and its length.
DataLengthKept == Is("length") => LengthKept(input.m, input.len, input.last)

=============================================================================

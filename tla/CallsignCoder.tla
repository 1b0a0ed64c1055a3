---------------------------- MODULE CallsignCoder ----------------------------
(***************************************************************************)
(* The arithmetic coder of arith.c, that packs a callsign into the ten     *)
(* bytes a CALL or ACCEPT has for it, or the thirteen of a CQ.  A callsign *)
(* is a sequence of indices into `symbols', a code a sequence of bits.     *)
(***************************************************************************)
EXTENDS Integers, Sequences, SequencesExt

CONSTANTS
    CodeBits,     \* CODE_BITS, 32 in the code
    ReadAhead,    \* max_read_ahead: 24 in the code, CodeBits less a byte
    MaxOutput     \* CALLSIGN_MAX_SIZE

NumSymbols == 38
Eof == NumSymbols - 1
Symbols == 0 .. Eof - 1

MaxCode == 2 ^ CodeBits - 1
Half == 2 ^ (CodeBits - 1)
Quarter == Half \div 2

\* Every symbol is as likely: cum_freq[i] = i.
Narrowed(c, sym) ==
    LET range == c.high - c.low + 1
    IN  [c EXCEPT !.high = c.low + (range * (sym + 1)) \div NumSymbols - 1,
                  !.low = c.low + (range * sym) \div NumSymbols]

InMiddle(c) == c.low >= Quarter /\ c.high < Half + Quarter

\* The interval without its first digit, which is in `from', twice as large
Doubled(c, from) == [c EXCEPT !.low = 2 * (@ - from), !.high = 2 * (@ - from) + 1]

-----------------------------------------------------------------------------
(* arithmetic_encode                                                       *)

\* A bit, and the opposite ones that were pending on it
Emit(e, bit) ==
    [e EXCEPT !.bits = @ \o <<bit>> \o [i \in 1 .. e.pending |-> 1 - bit], !.pending = 0]

RECURSIVE EncodeShift(_)
EncodeShift(e) ==
    IF e.high < Half THEN EncodeShift(Doubled(Emit(e, 0), 0))
    ELSE IF e.low >= Half THEN EncodeShift(Doubled(Emit(e, 1), Half))
    ELSE IF InMiddle(e) THEN EncodeShift(Doubled([e EXCEPT !.pending = @ + 1], Quarter))
    ELSE e

Encode(callsign) ==
    LET Step(e, sym) == EncodeShift(Narrowed(e, sym))
        start == [low |-> 0, high |-> MaxCode, pending |-> 0, bits |-> <<>>]
        e == FoldLeft(Step, start, Append(callsign, Eof))
    IN  Emit([e EXCEPT !.pending = @ + 1], IF e.low < Quarter THEN 0 ELSE 1).bits

\* encode_callsign_payload: what does not fit is cut off, the rest is zero.
OnAir(bits, cap) == [i \in 1 .. 8 * cap |-> IF i <= Len(bits) THEN bits[i] ELSE 0]

-----------------------------------------------------------------------------
(* arithmetic_decode                                                       *)

\* Wrong: nothing is read behind the end.
CanReadInside(code, pos) == pos < Len(code)

\* br_read_bit: zeros behind the end, but not for ever
CanReadBit(code, pos) == pos < Len(code) + ReadAhead - 1
ReadBit(code, pos) == IF pos < Len(code) THEN code[pos + 1] ELSE 0

\* The value takes the next bit.
Shifted(code, d, from) ==
    [Doubled(d, from) EXCEPT !.value = 2 * (@ - from) + ReadBit(code, d.pos), !.pos = @ + 1]

RECURSIVE DecodeShift(_, _)
DecodeShift(code, d) ==
    IF ~(d.high < Half \/ d.low >= Half \/ InMiddle(d)) THEN d
    ELSE IF ~CanReadBit(code, d.pos) THEN [d EXCEPT !.ended = TRUE]
    ELSE DecodeShift(code, Shifted(code, d, IF d.high < Half THEN 0
                                            ELSE IF d.low >= Half THEN Half ELSE Quarter))

NextSymbol(d) == ((d.value - d.low + 1) * NumSymbols - 1) \div (d.high - d.low + 1)

RECURSIVE DecodeFrom(_, _)
DecodeFrom(code, d) ==
    LET sym == NextSymbol(d)
    IN  IF sym = Eof \/ Len(d.out) >= MaxOutput - 1 \/ d.ended THEN d.out
        ELSE DecodeFrom(code, DecodeShift(code, Narrowed([d EXCEPT !.out = Append(@, sym)], sym)))

Decode(code) ==
    LET start == [low |-> 0, high |-> MaxCode, value |-> 0, pos |-> 0, out |-> <<>>,
                  ended |-> FALSE]
        First(d, i) == [d EXCEPT !.value = 2 * @ + ReadBit(code, d.pos), !.pos = @ + 1]
    IN  DecodeFrom(code, FoldLeft(First, start, [i \in 1 .. CodeBits |-> i]))

-----------------------------------------------------------------------------

\* A callsign arrives as it was sent if it has no more characters than surely
\* fit, also when its code ends with the last bit of the frame and the decoder
\* looks on behind it.  Of a longer one, that is cut, those characters arrive.
CallsignKept(callsign, cap, surely) ==
    LET got == Decode(OnAir(Encode(callsign), cap))
    IN  IF Len(callsign) <= surely THEN got = callsign
        ELSE SubSeq(got, 1, surely) = SubSeq(callsign, 1, surely)

=============================================================================

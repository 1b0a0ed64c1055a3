------------------------------ MODULE MCLibrary ------------------------------
(* The parts that the others rest on.  A behaviour takes up one of them: it  *)
(* picks an input for one of the pure functions, and each invariant is about *)
(* the inputs of its kind; or it lets threads use a channel, the log, or     *)
(* arq_conn.                                                                 *)
EXTENDS SequencesExt, Algorithms, CallsignCoder, BroadcastPath, Chan, HermesLog, ArqConn

CONSTANTS b1, b2

-----------------------------------------------------------------------------

\* Every state of a ring of three bytes, every write and every read that fits
PickRing ==
    \E r \in Rings(3, 0 .. 1), d \in BoundedSeq(2 .. 3, 3), n \in 0 .. 3 :
        input' = [kind |-> "ring", r |-> r, data |-> d, n |-> n]

\* Around every threshold, of SNR and of backlog
Around(f, d) == UNION {{f[m] - 1, f[m], f[m] + 1, f[m] + d} : m \in DOMAIN f}

PickMode ==
    \E m \in PayloadModes, snr \in Around(MinSnr, SnrHyst), wide \in BOOLEAN,
       backlog \in Around(MinBacklog, 40) \cup Around(UserBytes, 0),
       retries \in {0, HardLossThreshold} :
        input' = [kind |-> "mode", m |-> m, snr |-> snr, wide |-> wide, backlog |-> backlog,
                  retries |-> retries]

PickLength ==
    \E m \in ArqModes, last \in BOOLEAN : \E len \in 1 .. SlotBytes(PayloadBytes[m]) :
        input' = [kind |-> "length", m |-> m, len |-> len, last |-> last]

\* All of up to two characters, and long ones of two kinds of characters
Callsigns ==
    {<<a>> : a \in Symbols} \cup {<<a, b>> : a, b \in Symbols}
    \cup {[i \in 1 .. n |-> IF i <= k THEN a ELSE b] :
              n \in 3 .. MaxOutput - 1, k \in 1 .. MaxOutput - 1, a, b \in {0, 17, 36}}

PickCallsign == \E c \in Callsigns : input' = [kind |-> "callsign", callsign |-> c]

\* The payloads of broadcasts: bytes that KISS or the header is about, and long
\* frames
Marked == {0, FEND, FESC, TFEND, Header(BroadcastData, 1)}
Payloads ==
    {<<a>> : a \in Marked} \cup {<<FESC, a>> : a \in Marked}
    \cup {[i \in 1 .. n |-> IF i = 3 THEN FEND ELSE 96] : n \in 3 .. MaxPayload + 1}
MCFrames == [cmd : DataCommands, frame : Payloads]

\* Bytes 2 and 3 are a command of data and one of none.
MCJunk == {2, 3, FEND, FESC, TFEND}

PickBroadcast == \E f \in MCFrames : input' = [kind |-> "broadcast", f |-> f]

PickKiss ==
    \E p \in BoundedSeq({3, TFEND, FESC}, 2) \ {<<>>} :
        input' = [kind |-> "kiss", f |-> [cmd |-> CmdData, frame |-> p]]

PickInput ==
    Is("none") /\ (PickRing \/ PickMode \/ PickLength \/ PickCallsign
                  \/ PickBroadcast \/ PickKiss)
    /\ UNCHANGED <<vars, logVars, connVars, pathVars>>

PickThreads ==
    /\ Is("none") /\ \E k \in {"channel", "log", "conn"} : input' = [kind |-> k]
    /\ UNCHANGED <<vars, logVars, connVars, pathVars>>

UseChannel == Is("channel") /\ Next /\ UNCHANGED <<input, logVars, connVars, pathVars>>

UseLog == Is("log") /\ LogNext /\ UNCHANGED <<input, vars, connVars, pathVars>>

UseConn == Is("conn") /\ ConnNext /\ UNCHANGED <<input, vars, logVars, pathVars>>

\* Each client of b1 broadcasts that frame, each of b2 a short one at most,
\* that b1 does not hear.
UseBroadcast ==
    /\ Is("broadcast") /\ PathNext
    /\ junk' = junk /\ rxRing'[b1] = <<>>
    /\ written'[b1] \in {<<>>, <<input.f>>}
    /\ written'[b2] \in {<<>>, <<[cmd |-> CmdCallsign, frame |-> <<128>>]>>}
    /\ UNCHANGED <<input, vars, logVars, connVars>>

\* A client of b1 writes anything, and then that frame twice.
UseKiss ==
    /\ Is("kiss") /\ PathStep(b1) /\ rxRing' = rxRing
    /\ \A i \in DOMAIN written'[b1] : written'[b1][i] = input.f
    /\ UNCHANGED <<input, vars, logVars, connVars>>

LibraryInit == input = [kind |-> "none"] /\ Init /\ LogInit /\ ConnInit /\ PathInit

LibraryNext == PickInput \/ PickThreads \/ UseChannel \/ UseLog \/ UseConn \/ UseBroadcast \/ UseKiss

LibrarySpec == LibraryInit /\ [][LibraryNext]_<<input, vars, logVars, connVars, pathVars>>

-----------------------------------------------------------------------------

\* Callsigns of up to 14 characters pass through the ten bytes of a CALL.
CallKeepsCallsign == Is("callsign") => CallsignKept(input.callsign, 10, 14)

=============================================================================

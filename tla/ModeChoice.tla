----------------------------- MODULE ModeChoice -----------------------------
(***************************************************************************)
(* select_best_mode of arq_fsm.c: the payload mode a station asks for, from *)
(* the mode it has, the SNR it believes in (the peer's report and the      *)
(* correction of OLLA, in tenths of a dB), the bytes that wait, and the    *)
(* retries in a row.                                                       *)
(***************************************************************************)
EXTENDS Integers

\* mode_rank, and the thresholds and least backlogs of arq_protocol.h
Rank == [datac15 |-> 0, datac4 |-> 1, datac3 |-> 2, datac1 |-> 3, datac17 |-> 4,
         qam16c2 |-> 5, qam16fm |-> 6]

PayloadModes == DOMAIN Rank

MinSnr == [datac4 |-> -60, datac3 |-> -10, datac1 |-> 30, datac17 |-> 70,
           qam16c2 |-> 130, qam16fm |-> 145]

MinBacklog == [datac4 |-> 31, datac3 |-> 56, datac1 |-> 126, datac17 |-> 503,
               qam16c2 |-> 1173, qam16fm |-> 200]

\* payload_bytes less the header of a frame
UserBytes == [datac15 |-> 22, datac4 |-> 46, datac3 |-> 118, datac1 |-> 502,
              datac17 |-> 1172, qam16c2 |-> 1205, qam16fm |-> 248]

SnrHyst == 50
HardLossThreshold == 8

WideModes == {"datac1", "datac17", "qam16c2", "qam16fm"}

\* arq_bandwidth_allows_mode
Allows(wide, m) == wide \/ m \notin WideModes

\* Wrong: the session may have become narrow since the mode was chosen.
UnclampedMode(wide, m) == m

\* clamp_payload_mode_to_bandwidth
ClampedMode(wide, m) == IF Allows(wide, m) THEN m ELSE "datac3"

\* Wrong: the margin is asked of the mode there is, not of a faster one.
MarginToStay(current, m) == IF Rank[current] >= Rank[m] THEN MinSnr[m] + SnrHyst ELSE MinSnr[m]

\* What a mode asks of the SNR: a margin more when it is faster than the mode
\* there is.
Threshold(current, m) == IF Rank[current] >= Rank[m] THEN MinSnr[m] ELSE MinSnr[m] + SnrHyst

\* Every mode but the floor has a threshold.
Fits(current, m, snr, backlog, wide) ==
    /\ Allows(wide, m)
    /\ snr >= Threshold(current, m)
    /\ backlog >= MinBacklog[m]

\* The fastest that fits, once the backlog is worth asking for another mode;
\* after a long run of retries the floor at once.
SelectBestMode(mode, snr, backlog, wide, retries) ==
    LET current == ClampedMode(wide, mode)
        Can(m) == Fits(current, m, snr, backlog, wide)
    IN  IF retries >= HardLossThreshold /\ Rank[current] > 0 THEN "datac15"
        ELSE IF backlog <= UserBytes[current] THEN current
        ELSE IF Can("qam16fm") THEN "qam16fm"
        ELSE IF Can("qam16c2") THEN "qam16c2"
        ELSE IF Can("datac17") THEN "datac17"
        ELSE IF Can("datac1") THEN "datac1"
        ELSE IF Can("datac3") THEN "datac3"
        ELSE IF Can("datac4") THEN "datac4"
        ELSE "datac15"

-----------------------------------------------------------------------------

\* Under the same SNR, backlog and bandwidth the mode that was asked for is
\* kept: stations do not exchange mode requests for ever between two modes,
\* though the hysteresis and the limits on the backlog depend on the mode.
Settles(mode, snr, backlog, wide, retries) ==
    retries < HardLossThreshold =>
        LET best == SelectBestMode(mode, snr, backlog, wide, retries)
        IN  SelectBestMode(best, snr, backlog, wide, retries) = best

\* No mode is asked for that the bandwidth of the session does not allow, also
\* when the session has a wide mode and has since become narrow.
WithinBandwidth(mode, snr, backlog, wide, retries) ==
    Allows(wide, SelectBestMode(mode, snr, backlog, wide, retries))

=============================================================================

----------------------------- MODULE MCModemTx ------------------------------
(* A station with two payload modes.                                        *)
EXTENDS ModemTx

\* Units of a frame: no mode takes as many as another.
MCSize == [ctl |-> 2, lo |-> 3, hi |-> 4]
=============================================================================

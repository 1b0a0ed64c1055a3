----------------------------- MODULE MCHostPath -----------------------------
(* The host's side of one modem, small enough for TLC.                      *)
EXTENDS HostPath
=============================================================================

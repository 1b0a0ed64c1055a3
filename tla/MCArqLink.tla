----------------------------- MODULE MCArqLink -----------------------------
(* Two stations, small enough for TLC: the caller and the callee.           *)
EXTENDS ArqLink, MCLive, TLC

CONSTANTS caller, callee

\* What the hosts do
Dial == (caller :> {"CONNECT"}) @@ (callee :> {"LISTEN"})
DialHang == (caller :> {"CONNECT", "DISCONNECT"}) @@ (callee :> {"LISTEN"})

\* What they write
Writes(m, n) == (caller :> m) @@ (callee :> n)
Writes20 == Writes(2, 0)
Writes30 == Writes(3, 0)
Writes21 == Writes(2, 1)

LinkView ==
    <<[s \in Station |-> [Live(st[s]) EXCEPT !.host = "idle"]], onair, wire, ended>>

\* When each session has been left by one of its stations, no new one comes
\* and the promises about both ends of a session have no more to say.
TillOverView ==
    IF SessionIds \subseteq UNION {ended[s] : s \in Station} THEN <<>> ELSE LinkView
=============================================================================

------------------------------ MODULE ArqLink ------------------------------
(***************************************************************************)
(* Two stations of ArqFsm on one radio channel.                            *)
(*                                                                         *)
(* wire[r] holds the frames the other station has sent and station r has   *)
(* not decoded yet.  The channel is half-duplex: who transmits hears       *)
(* nothing, and two transmissions at once are both lost.  A frame may fade *)
(* at any time and any number of times; it is never duplicated or          *)
(* reordered on the air.  A frame may be decoded before its sender drops   *)
(* PTT (the decoder is ahead of the tail by some 150 ms) or after.         *)
(***************************************************************************)
EXTENDS ArqFsm

VARIABLES
    wire,
    ended   \* history: the ids of the sessions each station has left

linkVars == <<st, onair, wire, ended>>

ASSUME PairAssumption == \E a, b \in Station : a # b /\ Station = {a, b}

Peer(s) == CHOOSE t \in Station : t # s

LinkInit ==
    /\ Init
    /\ wire = [s \in Station |-> <<>>]
    /\ ended = [s \in Station |-> {}]

\* Keying up costs the station what it was receiving.  The peer's decoder has
\* done with one burst when the next begins.
Key(s) ==
    /\ wire[Peer(s)] = <<>>
    /\ TxStart(s)
    /\ wire' = [wire EXCEPT ![s] = <<>>,
                            ![Peer(s)] = IF onair[Peer(s)] # <<>> THEN <<>>
                                         ELSE onair'[s]]

Fade(r) ==
    /\ wire[r] # <<>>
    /\ wire' = [wire EXCEPT ![r] = Tail(@)]
    /\ UNCHANGED <<st, onair>>

\* The frame is decoded and handled.  One that no handler takes changes
\* nothing: it might as well fade.
Decode(r) ==
    /\ wire[r] # <<>> /\ TxRoom(r) /\ CanDecode(r, Head(wire[r]))
    /\ OnFrame(r, Head(wire[r]))
    /\ wire' = [wire EXCEPT ![r] = Tail(@)]
    /\ UNCHANGED onair

\* Session ids are the caller's clock; here a call's id has not been used.
FreshCall(s) ==
    InConn(s, "CALLING") \/ st'[s].conn_state # "CALLING"
        \/ \A t \in Station : st'[s].session_id > st[t].session_id

LinkCommand(s) == HostCommand(s) /\ FreshCall(s)

\* What one station does alone leaves the channel as it is.
Alone(s) ==
    /\ \/ LinkCommand(s) \/ HostData(s) \/ Timer(s) \/ DataReady(s) \/ DrainOver(s)
       \/ TxEnd(s)
    /\ UNCHANGED wire

Leaves(s) == InConn(s, "CONNECTED") /\ st'[s].conn_state # "CONNECTED"

RecordEnds ==
    ended' = [s \in Station |-> IF Leaves(s) THEN ended[s] \cup {st[s].session_id}
                                ELSE ended[s]]

LinkStep(s) == Alone(s) \/ Key(s) \/ Fade(s) \/ Decode(s)

LinkNext == (\E s \in Station : LinkStep(s)) /\ RecordEnds

LinkSpec == LinkInit /\ [][LinkNext]_linkVars

-----------------------------------------------------------------------------

\* The two ends of one session that neither has left.
SameSession(a, b) ==
    /\ InConn(a, "CONNECTED") /\ InConn(b, "CONNECTED")
    /\ st[a].session_id = st[b].session_id
    /\ st[a].session_id \notin ended[a] \cup ended[b]

\* What is handed to one application is what the other one wrote: in order,
\* without gaps or repetitions.
DeliveredIsPrefix ==
    \A a, b \in Station :
        a # b /\ SameSession(a, b) => IsPrefix(st[b].rxlog, st[a].txlog)

\* A frame leaves the window only when the peer has delivered it, also when a
\* frame of the peer is taken for the acknowledgement.
AckedIsDelivered ==
    \A a, b \in Station :
        a # b /\ SameSession(a, b) =>
            Len(st[a].txlog) - Len(st[a].tx_window) <= Len(st[b].rxlog)

-----------------------------------------------------------------------------
(* The streams of ArqStream that a state of the link stands for.           *)

InCall(s, value, none) == IF InConn(s, "CONNECTED") THEN value ELSE none

Stream == INSTANCE ArqStream WITH
    call <- [s \in Station |-> InCall(s, st[s].session_id, 0)],
    left <- ended,
    sent <- [s \in Station |-> InCall(s, st[s].txlog, <<>>)],
    confirmed <- [s \in Station |->
                     InCall(s, Len(st[s].txlog) - Len(st[s].tx_window), 0)],
    got <- [s \in Station |-> InCall(s, st[s].rxlog, <<>>)]

\* Every step of two stations and their lossy channel is a step of the stream
\* service or none: beside order and completeness, nothing handed over or
\* confirmed is ever taken back, a session starts with empty streams, and
\* joining and leaving are the only ways its streams are reset.
ImplementsStream == Stream!Spec

=============================================================================

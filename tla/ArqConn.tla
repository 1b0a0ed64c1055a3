------------------------------- MODULE ArqConn -------------------------------
(***************************************************************************)
(* arq_conn of arq.c: who called whom, and whether the host wants to be    *)
(* called.  The command bridge and the event loop's callbacks write it     *)
(* without a lock; what the command bridge tells the state machine, it     *)
(* posts after that as an event, which is handled later still.  Of the     *)
(* state machine there is what leads to those callbacks; the peers may     *)
(* send anything.                                                          *)
(***************************************************************************)
EXTENDS Integers, Sequences

CONSTANTS
    Me, Peers,      \* callsigns
    MaxCalls,       \* CONNECT commands
    MaxInbox        \* events that wait when another one is posted

Nobody == "nobody"

ASSUME CallsignAssumption ==
    /\ Me \notin Peers /\ Nobody \notin Peers \cup {Me}
    /\ MaxCalls \in Nat /\ MaxInbox \in Nat

VARIABLES
    arq_conn,       \* src_addr, dst_addr, listen
    sess,           \* the session
    inbox,          \* the event queue
    asking,         \* the event the command bridge is about to post
    posting,        \* the event loop has seen `listen' and will post APP_LISTEN
    calls,          \* CONNECT commands so far; their numbers are session ids
    reported,       \* source and destination of the last CONNECTED
    hasty,          \* a CONNECT came while the station was not at rest
    crossed         \* a LISTEN OFF came while a call was accepted, or ended

connVars == <<arq_conn, sess, inbox, asking, posting, calls, reported, hasty, crossed>>

ConnStates == {"DISCONNECTED", "LISTENING", "CALLING", "ACCEPTING", "CONNECTED", "DISCONNECTING"}

EventIds == {"APP_CONNECT", "APP_DISCONNECT", "APP_LISTEN", "APP_STOP_LISTEN",
             "RX_CALL", "RX_ACCEPT", "RX_DATA", "RX_DISCONNECT"}

\* A session id is the number of the CONNECT, or this one for calls of the peers.
\* 0, which nobody sends, is that of no session yet.
TheirCall == MaxCalls + 1

Events == [id : EventIds, session_id : 0 .. TheirCall, from : Peers \cup {Nobody}]

Event(id, session, from) == [id |-> id, session_id |-> session, from |-> from]

NoEvent == Event("none", 0, Nobody)

InConnState(states) == sess.conn_state \in states

Mine(e) == e.session_id = sess.session_id

Resting ==
    /\ InConnState({"DISCONNECTED", "LISTENING"}) /\ ~sess.pending_disconnect_notify
    /\ inbox = <<>> /\ ~posting

AtRest == Resting /\ asking = NoEvent

\* evq_push
Post(e) == Len(inbox) <= MaxInbox /\ inbox' = Append(inbox, e)

-----------------------------------------------------------------------------
(* The command bridge: handle_cmd                                          *)

\* It takes one command after the other.
Ask(e) == asking = NoEvent /\ asking' = e

ConnectCommand ==
    /\ calls < MaxCalls /\ calls' = calls + 1
    /\ \E p \in Peers : /\ arq_conn' = [arq_conn EXCEPT !.src_addr = Me, !.dst_addr = p]
                        /\ Ask(Event("APP_CONNECT", calls', p))
    /\ hasty' = (hasty \/ ~AtRest)
    /\ UNCHANGED <<sess, inbox, posting, reported, crossed>>

\* DISCONNECT, ABORT and CLIENT_DISCONNECT
DisconnectCommand ==
    /\ Ask(Event("APP_DISCONNECT", 0, Nobody))
    /\ UNCHANGED <<arq_conn, sess, inbox, posting, calls, reported, hasty, crossed>>

ListenOn ==
    /\ arq_conn' = [arq_conn EXCEPT !.listen = TRUE] /\ Ask(Event("APP_LISTEN", 0, Nobody))
    /\ crossed' = FALSE
    /\ UNCHANGED <<sess, inbox, posting, calls, reported, hasty>>

ListenOff ==
    /\ arq_conn' = [arq_conn EXCEPT !.listen = FALSE] /\ Ask(Event("APP_STOP_LISTEN", 0, Nobody))
    /\ crossed' = posting
    /\ UNCHANGED <<sess, inbox, posting, calls, reported, hasty>>

IsConnect(e) == e.id = "APP_CONNECT"

PostCommand ==
    /\ asking # NoEvent /\ asking' = NoEvent /\ Post(asking)
    /\ hasty' = (hasty \/ (IsConnect(asking) /\ ~Resting))
    /\ UNCHANGED <<arq_conn, sess, posting, calls, reported, crossed>>

\* The receive thread: a call, or a frame of this session or of another one.  The
\* name in an ACCEPT is not looked at.
HearFrame ==
    /\ \/ \E p \in Peers : Post(Event("RX_CALL", TheirCall, p))
       \/ \E id \in {"RX_ACCEPT", "RX_DATA", "RX_DISCONNECT"}, n \in {TheirCall, sess.session_id} \ {0} :
             Post(Event(id, n, Nobody))
    /\ UNCHANGED <<asking, arq_conn, sess, posting, calls, reported, hasty, crossed>>

-----------------------------------------------------------------------------
(* The callbacks                                                           *)

ConnectWaits(q) == IsConnect(asking) \/ \E i \in DOMAIN q : IsConnect(q[i])

\* Wrong: the names are left as they are.
NamesKept == UNCHANGED arq_conn

ClearNames == arq_conn' = [arq_conn EXCEPT !.src_addr = Nobody, !.dst_addr = Nobody]

PostsListen == posting' = arq_conn.listen

\* cb_notify_disconnected up to its look at `listen', and enter_idle_after_call.
\* After it, a CONNECT is hasty only if it is still on its way.
EndCall(pending) ==
    /\ ClearNames /\ PostsListen
    /\ sess' = [sess EXCEPT !.conn_state = IF sess.listen_enabled THEN "LISTENING" ELSE "DISCONNECTED",
                            !.pending_disconnect_notify = pending]
    /\ hasty' = ConnectWaits(inbox')

EndsCall == EndCall(sess.pending_disconnect_notify)

\* cb_notify_disconnected, its end
PostListen ==
    /\ posting /\ posting' = FALSE
    /\ inbox' = Append(inbox, Event("APP_LISTEN", 0, Nobody))
    /\ UNCHANGED <<asking, arq_conn, sess, calls, reported, hasty, crossed>>

\* tnc_send_connected
Line(c) ==
    <<IF c.src_addr = Nobody THEN Me ELSE c.src_addr, IF c.dst_addr = Nobody THEN Me ELSE c.dst_addr>>

\* cb_notify_connected: who has not called was called.
NotifyConnected ==
    /\ arq_conn' = IF arq_conn.src_addr # Nobody THEN arq_conn
                   ELSE [arq_conn EXCEPT !.src_addr = sess.remote_call, !.dst_addr = Me]
    /\ reported' = Line(arq_conn')

-----------------------------------------------------------------------------
(* The event loop                                                          *)

\* A new call, out or in
Attempt(state, e) ==
    sess' = [sess EXCEPT !.conn_state = state, !.session_id = e.session_id, !.remote_call = e.from]

OnConnect(e) ==
    /\ e.id = "APP_CONNECT" /\ InConnState({"DISCONNECTED", "LISTENING", "ACCEPTING"})
    /\ Attempt("CALLING", e)
    /\ UNCHANGED <<arq_conn, posting, reported, hasty, crossed>>

\* A session that still has data to send goes on, and is left later: LeaveSession.
OnDisconnect(e) ==
    /\ e.id = "APP_DISCONNECT"
    /\ \/ InConnState({"CALLING", "ACCEPTING"}) /\ EndsCall
       \/ InConnState({"CONNECTED"})
          /\ sess' \in {sess, [sess EXCEPT !.conn_state = "DISCONNECTING"]}
          /\ UNCHANGED <<arq_conn, posting, hasty>>
    /\ UNCHANGED <<reported, crossed>>

OnListen(e) ==
    /\ e.id = "APP_LISTEN"
    /\ sess' = [sess EXCEPT !.listen_enabled = TRUE,
                            !.conn_state = IF @ = "DISCONNECTED" THEN "LISTENING" ELSE @]
    /\ UNCHANGED <<arq_conn, posting, reported, hasty, crossed>>

\* Wrong: only the intention is recorded.
IntentOnly(state) == state

StopsListening(state) == IF state = "LISTENING" THEN "DISCONNECTED" ELSE state

OnStopListen(e) ==
    /\ e.id = "APP_STOP_LISTEN"
    /\ sess' = [sess EXCEPT !.listen_enabled = FALSE, !.conn_state = StopsListening(@)]
    /\ crossed' = (crossed \/ InConnState({"ACCEPTING"}))
    /\ UNCHANGED <<arq_conn, posting, reported, hasty>>

OnCall(e) ==
    /\ e.id = "RX_CALL" /\ InConnState({"LISTENING"}) /\ Attempt("ACCEPTING", e)
    /\ UNCHANGED <<arq_conn, posting, reported, hasty, crossed>>

Connect(role) ==
    /\ NotifyConnected
    /\ sess' = [sess EXCEPT !.conn_state = "CONNECTED", !.role = role]
    /\ UNCHANGED <<posting, hasty, crossed>>

OnAccept(e) == e.id = "RX_ACCEPT" /\ InConnState({"CALLING"}) /\ Mine(e) /\ Connect("CALLER")

\* RX_DATA stands for RX_ACK, too; in LISTENING it is of a call that was given up.
OnData(e) ==
    /\ e.id = "RX_DATA" /\ (InConnState({"ACCEPTING"}) \/ (InConnState({"LISTENING"}) /\ Mine(e)))
    /\ Connect("CALLEE")

\* The host is told when the answer has been sent, in DISCONNECTED.
OnRxDisconnect(e) ==
    /\ e.id = "RX_DISCONNECT" /\ Mine(e)
    /\ \/ InConnState({"CONNECTED"})
          /\ sess' = [sess EXCEPT !.conn_state = "DISCONNECTED", !.pending_disconnect_notify = TRUE]
          /\ UNCHANGED <<arq_conn, posting, hasty>>
       \/ InConnState({"DISCONNECTING"}) /\ EndsCall
    /\ UNCHANGED <<reported, crossed>>

HasHandler(e) ==
    \/ IsConnect(e) /\ InConnState({"DISCONNECTED", "LISTENING", "ACCEPTING"})
    \/ e.id = "APP_DISCONNECT" /\ InConnState({"CALLING", "ACCEPTING", "CONNECTED"})
    \/ e.id \in {"APP_LISTEN", "APP_STOP_LISTEN"}
    \/ e.id = "RX_CALL" /\ InConnState({"LISTENING"})
    \/ e.id = "RX_ACCEPT" /\ InConnState({"CALLING"}) /\ Mine(e)
    \/ e.id = "RX_DATA" /\ (InConnState({"ACCEPTING"}) \/ (InConnState({"LISTENING"}) /\ Mine(e)))
    \/ e.id = "RX_DISCONNECT" /\ InConnState({"CONNECTED", "DISCONNECTING"}) /\ Mine(e)

Drop(e) == ~HasHandler(e) /\ UNCHANGED <<arq_conn, sess, posting, reported, hasty, crossed>>

\* arq_event_loop_worker and arq_fsm_dispatch
Dispatch ==
    /\ ~posting /\ inbox # <<>> /\ inbox' = Tail(inbox)
    /\ LET e == Head(inbox)
       IN  \/ OnConnect(e) \/ OnDisconnect(e) \/ OnListen(e) \/ OnStopListen(e)
           \/ OnCall(e) \/ OnAccept(e) \/ OnData(e) \/ OnRxDisconnect(e) \/ Drop(e)
    /\ UNCHANGED <<asking, calls>>

\* A retry timer with no retry left.  ACCEPTING goes back to LISTENING, also when
\* the host does not want to listen any more.
GiveUp ==
    /\ ~posting /\ UNCHANGED inbox
    /\ \/ InConnState({"CALLING", "DISCONNECTING"}) /\ EndsCall
       \/ InConnState({"ACCEPTING"}) /\ sess' = [sess EXCEPT !.conn_state = "LISTENING"]
          /\ UNCHANGED <<arq_conn, posting, hasty>>
    /\ UNCHANGED <<asking, calls, reported, crossed>>

\* The peer is not heard any more, or a deferred disconnect is due.
LeaveSession ==
    /\ ~posting /\ InConnState({"CONNECTED"}) /\ sess' = [sess EXCEPT !.conn_state = "DISCONNECTING"]
    /\ UNCHANGED <<asking, arq_conn, inbox, posting, calls, reported, hasty, crossed>>

\* fsm_disconnected, TX_COMPLETE
AnswerSent ==
    /\ ~posting /\ InConnState({"DISCONNECTED"}) /\ sess.pending_disconnect_notify
    /\ UNCHANGED inbox /\ EndCall(FALSE)
    /\ UNCHANGED <<asking, calls, reported, crossed>>

ConnInit ==
    /\ arq_conn = [src_addr |-> Nobody, dst_addr |-> Nobody, listen |-> FALSE]
    /\ sess = [conn_state |-> "DISCONNECTED", session_id |-> 0, remote_call |-> Nobody, role |-> "NONE",
               listen_enabled |-> FALSE, pending_disconnect_notify |-> FALSE]
    /\ inbox = <<>> /\ asking = NoEvent /\ posting = FALSE /\ calls = 0 /\ reported = <<Nobody, Nobody>>
    /\ hasty = FALSE /\ crossed = FALSE

ConnNext ==
    \/ ConnectCommand \/ DisconnectCommand \/ ListenOn \/ ListenOff \/ PostCommand \/ HearFrame
    \/ PostListen \/ Dispatch \/ GiveUp \/ LeaveSession \/ AnswerSent

ConnSpec == ConnInit /\ [][ConnNext]_connVars

-----------------------------------------------------------------------------
(* Properties *)

Conns == [src_addr : Peers \cup {Me, Nobody}, dst_addr : Peers \cup {Me, Nobody}, listen : BOOLEAN]

Sessions == [conn_state : ConnStates, session_id : 0 .. TheirCall, remote_call : Peers \cup {Nobody},
             role : {"NONE", "CALLER", "CALLEE"}, listen_enabled : BOOLEAN,
             pending_disconnect_notify : BOOLEAN]

\* arq_conn, the session and what waits have their types, and who is called or
\* calls has a name.
ConnTypeOK ==
    /\ arq_conn \in Conns
    /\ sess \in Sessions
    /\ inbox \in Seq(Events) /\ asking \in Events \cup {NoEvent}
    /\ calls \in 0 .. MaxCalls
    /\ posting \in BOOLEAN /\ hasty \in BOOLEAN /\ crossed \in BOOLEAN
    /\ sess.conn_state \notin {"DISCONNECTED", "LISTENING"} => sess.remote_call \in Peers

\* CONNECTED names the station that called as the source and the one it called as
\* the destination, whatever calls there were before and whatever of them failed:
\* if each CONNECT found the station at rest, and the host has been told of the end
\* of the session before.
SourceIsCaller ==
    InConnState({"CONNECTED"}) /\ ~hasty /\ ~IsConnect(asking) /\ ~sess.pending_disconnect_notify =>
        reported = IF sess.role = "CALLER" THEN <<Me, sess.remote_call>> ELSE <<sess.remote_call, Me>>

\* A station at rest listens exactly if its host wants it to, in whatever state it
\* was told, but for a LISTEN OFF that came while a call was being accepted, or
\* between the look at `listen' and the APP_LISTEN of the end of a call.
ListenObeyed ==
    AtRest /\ ~crossed => (sess.conn_state = "LISTENING" <=> arq_conn.listen)

=============================================================================

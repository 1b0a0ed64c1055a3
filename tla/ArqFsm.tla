------------------------------- MODULE ArqFsm -------------------------------
(***************************************************************************)
(* The two-level ARQ state machine of datalink_arq/arq_fsm.c: one action   *)
(* per handler of arq_fsm_dispatch, for each station.  Level 1 is the      *)
(* connection, level 2 (dflow_state) the data flow inside CONNECTED.       *)
(*                                                                         *)
(* st[s] is station s: its session (arq_session_t), the application's TX   *)
(* ring and the modem's action queue.  onair[s] is the burst its           *)
(* transmitter is sending, <<>> when PTT is off.                           *)
(*                                                                         *)
(* The specification at the end is OPEN: the peer is any sequence of       *)
(* frames the decoder may hand over.  ArqLink closes it with a second      *)
(* station and a half-duplex channel.                                      *)
(***************************************************************************)
EXTENDS ArqSession, SequencesExt

CONSTANTS
    Station,
    \* Bounds on what is explored; none of them is in the code.
    MaxUnits,       \* units each application hands over
    MaxRx,          \* units a peer sends in a session
    TxqBound,       \* modem actions queued when an event is handled
    Commands        \* the commands each host gives: LISTEN, CONNECT, ...

ASSUME BoundAssumption ==
    MaxUnits \in [Station -> Nat] /\ MaxRx \in Nat /\ TxqBound \in Nat \ {0}

VARIABLES st, onair

Become(s, r) == st' = [st EXCEPT ![s] = r]

InConn(s, state) == st[s].conn_state = state
InFlow(s, state) == InConn(s, "CONNECTED") /\ st[s].dflow_state = state

-----------------------------------------------------------------------------
(* The application.  Commands reach the FSM through the command bridge     *)
(* (handle_cmd), data through the payload bridge.                          *)

\* arq_payload_bridge_worker writes the ring, then posts APP_DATA_READY.
HostWrite(s) ==
    /\ st[s].written < MaxUnits[s]
    /\ Become(s, [st[s] EXCEPT !.written = @ + 1,
                               !.backlog = Append(@, st[s].written + 1),
                               !.data_ready = @ + 1])

\* Wrong: the drain deadline is looked at in one state only.
OverdueWhenIss(r) ==
    r.conn_state = "CONNECTED" /\ r.pending_disconnect = "overdue"
        /\ r.dflow_state = "IDLE_ISS"

\* Once the drain deadline of a deferred disconnect has passed, any event that
\* reaches a connected session tears it down instead of being handled.
Overdue(r) == r.conn_state = "CONNECTED" /\ r.pending_disconnect = "overdue"

\* LISTEN ON and LISTEN OFF set listen_enabled in whatever state.
AppListen(r) ==
    IF Overdue(r) THEN StartDisconnect(r)
    ELSE IF r.conn_state = "DISCONNECTED" THEN SessEnter(r, "LISTENING", "none")
    ELSE r

AppStopListen(r) ==
    IF Overdue(r) THEN StartDisconnect(r)
    ELSE IF r.conn_state = "LISTENING" THEN SessEnter(r, "DISCONNECTED", "none")
    ELSE r

HostListen(s) == Become(s, AppListen([st[s] EXCEPT !.listen_enabled = TRUE]))

HostStopListen(s) == Become(s, AppStopListen([st[s] EXCEPT !.listen_enabled = FALSE]))

\* fsm_disconnected, APP_CONNECT
StartCall(r, sid) ==
    SessEnter(SendCtrlFrame([r EXCEPT !.session_id = sid,
                                      !.tx_retries_left = CallSlots,
                                      !.pending_disconnect = "no",
                                      !.payload_mode = SafeMode,
                                      !.peer_tx_mode = SafeMode],
                            "CALL"),
              "CALLING", "TIMER_RETRY")

\* APP_CONNECT: from LISTENING and ACCEPTING through DISCONNECTED; ignored
\* while a call is up or coming down.
AppConnect(r, sid) ==
    LET idle == SessEnter(r, "DISCONNECTED", "none")
    IN  CASE r.conn_state = "DISCONNECTED" -> StartCall(r, sid)
          [] r.conn_state = "LISTENING"    -> StartCall(idle, sid)
          [] r.conn_state = "ACCEPTING"    -> StartCall(NotifyCancelPending(idle), sid)
          [] OTHER -> IF Overdue(r) THEN StartDisconnect(r) ELSE r

HostConnect(s, sid) == Become(s, AppConnect(st[s], sid))

\* APP_DISCONNECT once connected: deferred while there is something to drain.
Draining(r) == HasBacklog(r) \/ r.dflow_state \in {"DATA_TX", "WAIT_ACK"}

\* APP_DISCONNECT in any state
AppDisconnect(r) ==
    CASE r.conn_state = "CALLING"   -> EndCall(r)
      [] r.conn_state = "ACCEPTING" -> EndCall(NotifyCancelPending(r))
      [] r.conn_state = "CONNECTED" ->
             IF Draining(r) /\ ~Overdue(r)
             THEN [r EXCEPT !.pending_disconnect = "draining"]
             ELSE StartDisconnect(r)
      [] OTHER -> r

\* DISCONNECT answers the host before the handshake on the air.
HostDisconnect(s) == Become(s, AppDisconnect([st[s] EXCEPT !.host = "idle"]))

\* The control client's socket closes: APP_DISCONNECT, no answer to give.
HostClientGone(s) == Become(s, AppDisconnect(st[s]))

\* ABORT: clear_connection_data empties the application's ring and the rings
\* of the modem, whose actions then find no bytes and send nothing.
HostAbort(s) ==
    Become(s, AppDisconnect([st[s] EXCEPT !.host = "idle", !.backlog = <<>>,
                                          !.txq = <<>>]))

\* CQFRAME: the command thread puts a frame in the modem's queue itself.
HostCq(s) == Become(s, SendControl(st[s], PlainFrame("CQ", 0)))

-----------------------------------------------------------------------------
(* Level 1: call set-up and teardown *)

\* Frames of another session are dropped once connected.
SessionMatches(r, f) ==
    r.conn_state \in {"CONNECTED", "DISCONNECTING"} => f.sid = r.session_id

ListeningRxCall(s, f) ==
    /\ InConn(s, "LISTENING") /\ f.type = "CALL"
    /\ Become(s, SessEnter([st[s] EXCEPT !.session_id = f.sid,
                                         !.tx_retries_left = AcceptSlots,
                                         !.payload_mode = SafeMode,
                                         !.peer_tx_mode = SafeMode,
                                         !.host = "pending"],
                           "ACCEPTING", "TIMER_RETRY"))

\* We gave up calling, the callee is still answering.
ListeningRxAccept(s, f) ==
    /\ InConn(s, "LISTENING") /\ f.type = "ACCEPT" /\ f.sid = st[s].session_id
    /\ Become(s, SendCtrlFrame(st[s], "DISCONNECT"))

BecomeCallee(r, f) ==
    LET r1 == EnterIdleIrs(StartSession(r, "CALLEE"))
    IN  IF f.type = "DATA" THEN ReceiveData(r1, f) ELSE r1

\* The safety net for an ACCEPTING that timed out while the caller connected.
ListeningRxTraffic(s, f) ==
    /\ InConn(s, "LISTENING") /\ f.type \in {"DATA", "ACK"}
    /\ f.sid = st[s].session_id
    /\ Become(s, BecomeCallee([st[s] EXCEPT !.pending_disconnect = "no"], f))

\* No session check, and a deferred disconnect is not cleared.
AcceptingRxTraffic(s, f) ==
    /\ InConn(s, "ACCEPTING") /\ f.type \in {"DATA", "ACK"}
    /\ Become(s, BecomeCallee(st[s], f))

AcceptingRxCall(s, f) ==
    /\ InConn(s, "ACCEPTING") /\ f.type = "CALL"
    /\ Become(s, [st[s] EXCEPT !.tx_retries_left = AcceptSlots])

CallingRxAccept(s, f, wanted) ==
    /\ InConn(s, "CALLING") /\ f.type = "ACCEPT" /\ f.sid = st[s].session_id
    /\ LET up == StartSession([st[s] EXCEPT !.pending_disconnect = "no",
                                            !.pending_connect_confirm = FALSE,
                                            !.need_initial_guard = HasBacklog(st[s])],
                              "CALLER")
       IN  Become(s, IF HasBacklog(st[s]) THEN EnterIdleIssGuarded(up, wanted)
                     ELSE ArmConnectConfirm(up))

\* The callee missed our confirmation and is still retrying ACCEPT.
ConnectedRxAccept(s, f) ==
    /\ InFlow(s, "IDLE_ISS") /\ f.type = "ACCEPT" /\ f.sid = st[s].session_id
    /\ st[s].role = "CALLER" /\ ~st[s].pending_connect_confirm
    /\ Become(s, ArmConnectConfirm(st[s]))

\* The host is told when our answering DISCONNECT has been sent.
ConnectedRxDisconnect(s, f) ==
    /\ InConn(s, "CONNECTED") /\ f.type = "DISCONNECT" /\ SessionMatches(st[s], f)
    /\ Become(s, SessEnter([SendCtrlFrame(st[s], "DISCONNECT") EXCEPT
                                !.pending_disconnect = "no",
                                !.pending_disconnect_notify = TRUE],
                           "DISCONNECTED", "none"))

DisconnectingRxDisconnect(s, f) ==
    /\ InConn(s, "DISCONNECTING") /\ f.type = "DISCONNECT" /\ SessionMatches(st[s], f)
    /\ Become(s, EndCall(st[s]))

\* The probe is answered in every data-flow state: behind a guard when idle,
\* at once when busy.
ConnectedRxKeepalive(s, f) ==
    LET r == [st[s] EXCEPT !.keepalive_miss_count = 0]
        idle == r.dflow_state \in {"IDLE_ISS", "IDLE_IRS"}
    IN  /\ InConn(s, "CONNECTED") /\ f.type = "KEEPALIVE" /\ SessionMatches(r, f)
        /\ r.dflow_state \notin {"KEEPALIVE_TX", "KEEPALIVE_WAIT", "KEEPALIVE_ACK_TX"}
        /\ Become(s, IF idle
                     THEN DflowEnter([r EXCEPT !.keepalive_ack_from_irs =
                                                    r.dflow_state = "IDLE_IRS"],
                                     "KEEPALIVE_ACK_TX", "TIMER_ACK")
                     ELSE SendCtrlFrame(r, "KEEPALIVE_ACK"))

Armed(s, event) == st[s].deadline = event

\* The event loop disarms the deadline before it dispatches the event.
Fired(s) == [st[s] EXCEPT !.deadline = "none"]

\* Wrong: the retries are counted down for ever.
CallingRetryUncounted(s) ==
    /\ InConn(s, "CALLING") /\ Armed(s, "TIMER_RETRY")
    /\ Become(s, SendCtrlFrame([st[s] EXCEPT !.tx_retries_left = @ - 1], "CALL"))

\* CALLING: TIMER_RETRY
CallingRetry(s) ==
    /\ InConn(s, "CALLING") /\ Armed(s, "TIMER_RETRY")
    /\ LET r == st[s]
       IN  Become(s, IF r.tx_retries_left > 0
                     THEN SendCtrlFrame([r EXCEPT !.tx_retries_left = @ - 1], "CALL")
                     ELSE EndCall(r))

\* ACCEPTING: TIMER_RETRY.  LISTENING whatever listen_enabled says.
AcceptingRetry(s) ==
    /\ InConn(s, "ACCEPTING") /\ Armed(s, "TIMER_RETRY")
    /\ LET r == st[s]
       IN  Become(s, IF r.tx_retries_left > 0
                     THEN SendCtrlFrame([r EXCEPT !.tx_retries_left = @ - 1], "ACCEPT")
                     ELSE SessEnter(NotifyCancelPending(r), "LISTENING", "none"))

\* DISCONNECTING: TIMER_ACK ends the guard, TIMER_RETRY the wait for an answer.
DisconnectingGuardOver(s) ==
    /\ InConn(s, "DISCONNECTING") /\ Armed(s, "TIMER_ACK")
    /\ Become(s, [SendCtrlFrame(st[s], "DISCONNECT") EXCEPT !.deadline = "TIMER_RETRY"])

DisconnectingRetry(s) ==
    /\ InConn(s, "DISCONNECTING") /\ Armed(s, "TIMER_RETRY")
    /\ LET r == st[s]
       IN  Become(s, IF r.tx_retries_left > 0
                     THEN SendCtrlFrame([r EXCEPT !.tx_retries_left = @ - 1], "DISCONNECT")
                     ELSE EndCall(r))

\* DISCONNECTED: the answering DISCONNECT has been sent.
DisconnectedTxComplete(s) ==
    /\ InConn(s, "DISCONNECTED") /\ st[s].pending_disconnect_notify
    /\ Become(s, EndCall([st[s] EXCEPT !.pending_disconnect_notify = FALSE]))

\* Wrong: a TX_COMPLETE that comes when ACCEPTING is over arms its timer.
LateAcceptingTxComplete(s) == Become(s, [st[s] EXCEPT !.deadline = "TIMER_RETRY"])

\* ACCEPTING: the receive window starts when our ACCEPT has been sent.
AcceptingTxComplete(s) ==
    /\ InConn(s, "ACCEPTING")
    /\ Become(s, [st[s] EXCEPT !.deadline = "TIMER_RETRY"])

-----------------------------------------------------------------------------
(* Level 2, the sender: IDLE_ISS, DATA_TX, WAIT_ACK *)

IdleIssDataReady(s, burst) ==
    /\ InFlow(s, "IDLE_ISS") /\ HasBacklog(st[s])
    /\ LET r == [st[s] EXCEPT !.data_ready = @ - 1]
       IN  Become(s, IF r.need_initial_guard
                     THEN TransmitGuarded([r EXCEPT !.need_initial_guard = FALSE])
                     ELSE TransmitNow(r, burst))

\* TURN_REQ is honoured when idle, in the guard before a transmission, while
\* waiting for an ACK, and again by a station that has yielded already.
YieldsTurn(r) ==
    \/ r.dflow_state \in {"IDLE_ISS", "WAIT_ACK", "IDLE_IRS"}
    \/ r.dflow_state = "DATA_TX" /\ r.deadline = "TIMER_ACK"

RxTurnReq(s, f) ==
    /\ InConn(s, "CONNECTED") /\ f.type = "TURN_REQ" /\ SessionMatches(st[s], f)
    /\ YieldsTurn(st[s])
    /\ Become(s, DflowEnter(st[s], "TURN_ACK_TX", "TIMER_ACK"))

DataTxGuardOver(s, burst) ==
    /\ InFlow(s, "DATA_TX") /\ Armed(s, "TIMER_ACK")
    /\ Become(s, SendDataBurst(Fired(s), burst))

\* Any TX_COMPLETE will do: it does not say which frame was sent.
DataTxComplete(s) ==
    /\ InFlow(s, "DATA_TX")
    /\ Become(s, DflowEnter(st[s], "WAIT_ACK", "TIMER_ACK"))

\* A cumulative ACK that confirms something: all of the window, and the turn
\* is kept or (HAS_DATA) given; or a part of it, and the rest goes again.
WaitAckRxAck(s, f, wanted) ==
    LET r == st[s]
        n == AckedCount(r.tx_window, f.seq)
        slid == [SlideWindow(r, n) EXCEPT !.tx_retries_left = DataSlots,
                                          !.peer_has_data = f.has_data]
    IN  /\ InFlow(s, "WAIT_ACK") /\ f.type = "ACK" /\ SessionMatches(r, f)
        /\ n > 0
        /\ Become(s, IF slid.tx_window # <<>> THEN TransmitGuarded(slid)
                     ELSE IF f.has_data THEN EnterIdleIrs(slid)
                     ELSE EnterIdleIssGuarded(slid, wanted))

\* No ACK in time, retries left: the whole window again.  A deferred
\* disconnect leaves the window one retry.
WaitAckRetransmit(s, burst) ==
    LET left == IF st[s].pending_disconnect # "no" THEN 1 ELSE st[s].tx_retries_left
    IN  /\ InFlow(s, "WAIT_ACK") /\ Armed(s, "TIMER_ACK")
        /\ st[s].tx_retries_left > 0
        /\ Become(s, TransmitNow([st[s] EXCEPT !.tx_retries_left = left - 1], burst))

\* Retries exhausted.  dead: no progress for ARQ_NO_PROGRESS_TIMEOUT_S.
WaitAckExhausted(s, dead, burst, wanted) ==
    LET r == st[s]
        again == [r EXCEPT !.tx_retries_left = DataSlots]
    IN  /\ InFlow(s, "WAIT_ACK") /\ Armed(s, "TIMER_ACK")
        /\ r.tx_retries_left = 0
        /\ Become(s,
             IF dead \/ r.pending_disconnect # "no"
             THEN SessEnter([SendCtrlFrame(r, "DISCONNECT") EXCEPT
                                 !.pending_disconnect = "no",
                                 !.tx_retries_left = DisconnectSlots],
                            "DISCONNECTING", "TIMER_RETRY")
             ELSE IF UpgradeStarts(again, wanted) THEN StartModeReq(again, wanted)
             ELSE TransmitNow(again, burst))

\* Wrong: a retransmission of the peer's is taken as an ACK too.
WaitAckRxDataImplicit(s, f, burst) ==
    /\ InFlow(s, "WAIT_ACK") /\ f.type = "DATA" /\ SessionMatches(st[s], f)
    /\ Become(s, ReceiveData(ImplicitAck(st[s]), f))

\* DATA while we wait for an ACK: a new frame is taken as an ACK of our own
\* window; for a duplicate our window goes again at once.
WaitAckRxData(s, f, burst) ==
    /\ InFlow(s, "WAIT_ACK") /\ f.type = "DATA" /\ SessionMatches(st[s], f)
    /\ Become(s, IF IsNew(st[s], f) THEN ReceiveData(ImplicitAck(st[s]), f)
                 ELSE TransmitNow([st[s] EXCEPT !.peer_tx_mode = f.mode], burst))

-----------------------------------------------------------------------------
(* Level 2, the receiver: IDLE_IRS, DATA_RX, ACK_TX *)

RxData(s, f) ==
    /\ InConn(s, "CONNECTED") /\ f.type = "DATA" /\ SessionMatches(st[s], f)
    /\ st[s].dflow_state \in {"IDLE_ISS", "IDLE_IRS", "DATA_RX", "TURN_REQ_WAIT"}
    /\ Become(s, ReceiveData(st[s], f))

\* quiet: nothing received for ARQ_IRS_INACTIVITY_S; looked at first.
IdleIrsPeerBacklog(s, quiet) ==
    /\ InFlow(s, "IDLE_IRS") /\ Armed(s, "TIMER_PEER_BACKLOG")
    /\ LET r == Fired(s)
       IN  Become(s, IF quiet
                     THEN SendKeepalive([r EXCEPT !.keepalive_miss_count = 0,
                                                  !.keepalive_from_irs = TRUE])
                     ELSE IF HasBacklog(r)
                     THEN SendTurnReq([r EXCEPT !.tx_retries_left = TurnReqRetries])
                     ELSE EnterIdleIrs(r))

\* The turn is requested whether or not the backlog is still there.
IdleIrsDataReady(s) ==
    /\ InFlow(s, "IDLE_IRS")
    /\ Become(s, SendTurnReq([st[s] EXCEPT !.data_ready = @ - 1,
                                           !.tx_retries_left = TurnReqRetries]))

DataRxGuardOver(s) ==
    /\ InFlow(s, "DATA_RX") /\ Armed(s, "TIMER_ACK")
    /\ Become(s, DflowEnter([SendAck(st[s]) EXCEPT
                                 !.acktx_had_has_data = HasBacklog(st[s])],
                            "ACK_TX", "none"))

AckTxConfirm(s) ==
    /\ InFlow(s, "ACK_TX") /\ Armed(s, "TIMER_ACK") /\ st[s].pending_connect_confirm
    /\ Become(s, DflowEnter(SendAck(st[s]), "ACK_TX", "none"))

\* ACK sent.  The last-but-one case waits ARQ_TURN_WAIT_AFTER_ACK_MS, the last
\* ARQ_PEER_PAYLOAD_HOLD_S; both with TIMER_PEER_BACKLOG.
AckTxComplete(s, burst, wanted) ==
    LET r == [st[s] EXCEPT !.pending_connect_confirm = FALSE]
    IN  /\ InFlow(s, "ACK_TX")
        /\ Become(s, IF st[s].pending_connect_confirm
                     THEN IF HasBacklog(r) THEN EnterIdleIssGuarded(r, wanted)
                          ELSE EnterIdleIss(r, burst)
                     ELSE IF ~r.peer_has_data /\ r.acktx_had_has_data
                     THEN EnterIdleIssGuarded(r, wanted)
                     ELSE EnterIdleIrs(r))

-----------------------------------------------------------------------------
(* Level 2, taking the turn *)

TurnReqTxComplete(s) ==
    /\ InFlow(s, "TURN_REQ_TX")
    /\ Become(s, DflowEnter(st[s], "TURN_REQ_WAIT", "TIMER_RETRY"))

TurnReqRxTurnAck(s, f, wanted) ==
    /\ InFlow(s, "TURN_REQ_WAIT") /\ f.type = "TURN_ACK" /\ SessionMatches(st[s], f)
    /\ Become(s, EnterIdleIssGuarded(st[s], wanted))

TurnReqRetry(s) ==
    /\ InFlow(s, "TURN_REQ_WAIT") /\ Armed(s, "TIMER_RETRY")
    /\ LET r == st[s]
       IN  Become(s, IF r.tx_retries_left > 0
                     THEN SendTurnReq([r EXCEPT !.tx_retries_left = @ - 1])
                     ELSE EnterIdleIrs(r))

TurnAckGuardOver(s) ==
    /\ InFlow(s, "TURN_ACK_TX") /\ Armed(s, "TIMER_ACK")
    /\ Become(s, SendCtrlFrame(Fired(s), "TURN_ACK"))

\* TURN_ACK or MODE_ACK sent: the turn is the peer's.
GaveTurnTxComplete(s) ==
    /\ InConn(s, "CONNECTED") /\ st[s].dflow_state \in {"TURN_ACK_TX", "MODE_ACK_TX"}
    /\ Become(s, EnterIdleIrs(st[s]))

-----------------------------------------------------------------------------
(* Level 2, keepalive *)

KeepaliveTxComplete(s) ==
    /\ InFlow(s, "KEEPALIVE_TX")
    /\ Become(s, DflowEnter(st[s], "KEEPALIVE_WAIT", "TIMER_RETRY"))

AfterKeepalive(r, from_irs, wanted) ==
    IF from_irs THEN EnterIdleIrs(r) ELSE EnterIdleIssGuarded(r, wanted)

\* An answer, or the peer's own probe, which is answered.
KeepaliveWaitRx(s, f, wanted) ==
    /\ InFlow(s, "KEEPALIVE_WAIT") /\ f.type \in {"KEEPALIVE", "KEEPALIVE_ACK"}
    /\ SessionMatches(st[s], f)
    /\ LET r == [st[s] EXCEPT !.keepalive_miss_count = 0]
       IN  Become(s, AfterKeepalive(IF f.type = "KEEPALIVE"
                                    THEN SendCtrlFrame(r, "KEEPALIVE_ACK") ELSE r,
                                    r.keepalive_from_irs, wanted))

\* Giving up keeps a deferred disconnect deferred: only its purpose is gone.
KeepaliveMiss(s) ==
    /\ InFlow(s, "KEEPALIVE_WAIT") /\ Armed(s, "TIMER_RETRY")
    /\ LET r == [st[s] EXCEPT !.keepalive_miss_count = @ + 1]
       IN  Become(s, IF r.keepalive_miss_count >= KeepaliveMissLimit
                     THEN SessEnter([SendCtrlFrame(r, "DISCONNECT") EXCEPT
                                         !.tx_retries_left = DisconnectSlots],
                                    "DISCONNECTING", "TIMER_RETRY")
                     ELSE SendKeepalive(r))

KeepaliveAckGuardOver(s) ==
    /\ InFlow(s, "KEEPALIVE_ACK_TX") /\ Armed(s, "TIMER_ACK")
    /\ Become(s, SendCtrlFrame(Fired(s), "KEEPALIVE_ACK"))

KeepaliveAckTxComplete(s, wanted) ==
    /\ InFlow(s, "KEEPALIVE_ACK_TX")
    /\ Become(s, AfterKeepalive(st[s], st[s].keepalive_ack_from_irs, wanted))

-----------------------------------------------------------------------------
(* Level 2, mode negotiation.  MODE_REQ and MODE_ACK are not among the     *)
(* frames whose session is checked.                                        *)

\* The receiver follows with its decoder.  In WAIT_ACK the request is taken
\* as an ACK of our own window.
RxModeReq(s, f) ==
    LET r == IF st[s].dflow_state = "WAIT_ACK" THEN ImplicitAck(st[s]) ELSE st[s]
    IN  /\ InConn(s, "CONNECTED") /\ f.type = "MODE_REQ"
        /\ st[s].dflow_state \in {"WAIT_ACK", "IDLE_IRS"}
        /\ Become(s, DflowEnter([r EXCEPT !.peer_tx_mode = f.mode],
                                "MODE_ACK_TX", "TIMER_ACK"))

ModeAckGuardOver(s) ==
    /\ InFlow(s, "MODE_ACK_TX") /\ Armed(s, "TIMER_ACK")
    /\ Become(s, SendModeNegotiation(Fired(s), "MODE_ACK", st[s].peer_tx_mode))

\* pending_tx_mode = 0: that was the notice that we keep our mode; no answer.
ModeReqTxComplete(s, burst) ==
    LET r == [st[s] EXCEPT !.tx_retries_left = DataSlots]
    IN  /\ InFlow(s, "MODE_REQ_TX")
        /\ Become(s, IF st[s].pending_tx_mode # "none"
                     THEN DflowEnter(st[s], "MODE_REQ_WAIT", "TIMER_RETRY")
                     ELSE IF HasBacklog(r) THEN TransmitGuarded(r)
                     ELSE EnterIdleIss(r, burst))

ModeReqRxModeAck(s, f, wanted) ==
    /\ InFlow(s, "MODE_REQ_WAIT") /\ f.type = "MODE_ACK"
    /\ Become(s, EnterIdleIssGuarded([st[s] EXCEPT !.payload_mode = f.mode], wanted))

\* Wrong: the retries end in the state that waits for a TX_COMPLETE, with
\* nothing sent.
ModeReqRetrySilent(s) ==
    /\ InFlow(s, "MODE_REQ_WAIT") /\ Armed(s, "TIMER_RETRY")
    /\ Become(s, DflowEnter([st[s] EXCEPT !.pending_tx_mode = "none"],
                            "MODE_REQ_TX", "none"))

\* Out of retries: tell the peer to go back to the mode we did not leave.
ModeReqRetry(s) ==
    /\ InFlow(s, "MODE_REQ_WAIT") /\ Armed(s, "TIMER_RETRY")
    /\ LET r == st[s]
           again == SendModeNegotiation([r EXCEPT !.tx_retries_left = @ - 1],
                                        "MODE_REQ", r.pending_tx_mode)
           revert == SendModeNegotiation([r EXCEPT !.pending_tx_mode = "none"],
                                         "MODE_REQ", r.payload_mode)
       IN  Become(s, DflowEnter(IF r.tx_retries_left > 0 THEN again ELSE revert,
                                "MODE_REQ_TX", "none"))

-----------------------------------------------------------------------------
(* arq_fsm_dispatch, by kind of event *)

ForcedTeardown(s) == Overdue(st[s]) /\ Become(s, StartDisconnect(st[s]))

\* Only these are checked against the session.
SessionChecked == {"DATA", "ACK", "DISCONNECT", "TURN_REQ", "TURN_ACK",
                   "KEEPALIVE", "KEEPALIVE_ACK"}

\* A frame that changes something.  Any other frame is as good as lost.
HandleFrame(s, f) ==
    \/ ListeningRxCall(s, f) \/ ListeningRxAccept(s, f) \/ ListeningRxTraffic(s, f)
    \/ AcceptingRxTraffic(s, f) \/ AcceptingRxCall(s, f)
    \/ ConnectedRxAccept(s, f) \/ ConnectedRxDisconnect(s, f)
    \/ DisconnectingRxDisconnect(s, f) \/ ConnectedRxKeepalive(s, f)
    \/ RxTurnReq(s, f) \/ RxData(s, f) \/ RxModeReq(s, f)
    \/ \E burst \in BurstSizes : WaitAckRxData(s, f, burst)
    \/ \E wanted \in PayloadModes :
          \/ CallingRxAccept(s, f, wanted) \/ WaitAckRxAck(s, f, wanted)
          \/ TurnReqRxTurnAck(s, f, wanted) \/ KeepaliveWaitRx(s, f, wanted)
          \/ ModeReqRxModeAck(s, f, wanted)

OnFrame(s, f) ==
    IF Overdue(st[s])
    THEN (f.type \in SessionChecked => SessionMatches(st[s], f)) /\ ForcedTeardown(s)
    ELSE HandleFrame(s, f)

\* In KEEPALIVE_TX and TURN_REQ_TX the deadline set with the frame is for a
\* TX_COMPLETE that does not come, and no handler looks at it.
TimerUnhandled(s) ==
    /\ InConn(s, "CONNECTED") /\ st[s].dflow_state \in {"KEEPALIVE_TX", "TURN_REQ_TX"}
    /\ Armed(s, "TIMER_RETRY")
    /\ Become(s, Fired(s))

HandleTimer(s) ==
    \/ CallingRetry(s) \/ AcceptingRetry(s)
    \/ DisconnectingGuardOver(s) \/ DisconnectingRetry(s)
    \/ \E burst \in BurstSizes : DataTxGuardOver(s, burst) \/ WaitAckRetransmit(s, burst)
    \/ \E burst \in BurstSizes, wanted \in PayloadModes, dead \in BOOLEAN :
          WaitAckExhausted(s, dead, burst, wanted)
    \/ \E quiet \in BOOLEAN : IdleIrsPeerBacklog(s, quiet)
    \/ DataRxGuardOver(s) \/ AckTxConfirm(s)
    \/ TurnReqRetry(s) \/ TurnAckGuardOver(s)
    \/ KeepaliveMiss(s) \/ KeepaliveAckGuardOver(s)
    \/ ModeAckGuardOver(s) \/ ModeReqRetry(s)
    \/ TimerUnhandled(s)

OnTimer(s) ==
    /\ st[s].deadline # "none"
    /\ IF Overdue(st[s]) THEN ForcedTeardown(s) ELSE HandleTimer(s)

TxCompleteIgnored(s) ==
    /\ \/ st[s].conn_state \in {"LISTENING", "CALLING", "DISCONNECTING"}
       \/ InConn(s, "DISCONNECTED") /\ ~st[s].pending_disconnect_notify
       \/ /\ InConn(s, "CONNECTED")
          /\ st[s].dflow_state \in {"IDLE_ISS", "WAIT_ACK", "IDLE_IRS", "DATA_RX",
                                    "TURN_REQ_WAIT", "KEEPALIVE_WAIT", "MODE_REQ_WAIT"}
    /\ UNCHANGED st

HandleTxComplete(s) ==
    \/ DisconnectedTxComplete(s) \/ AcceptingTxComplete(s)
    \/ DataTxComplete(s) \/ TurnReqTxComplete(s) \/ GaveTurnTxComplete(s)
    \/ KeepaliveTxComplete(s)
    \/ \E burst \in BurstSizes : ModeReqTxComplete(s, burst)
    \/ \E wanted \in PayloadModes : KeepaliveAckTxComplete(s, wanted)
    \/ \E burst \in BurstSizes, wanted \in PayloadModes : AckTxComplete(s, burst, wanted)
    \/ TxCompleteIgnored(s)

OnTxComplete(s) == IF Overdue(st[s]) THEN ForcedTeardown(s) ELSE HandleTxComplete(s)

\* APP_DATA_READY matters in two idle states only.
DataReadyIgnored(s) ==
    /\ ~ (InFlow(s, "IDLE_ISS") /\ HasBacklog(st[s]))
    /\ ~ InFlow(s, "IDLE_IRS")
    /\ Become(s, [st[s] EXCEPT !.data_ready = @ - 1])

HandleDataReady(s) ==
    \/ \E burst \in BurstSizes : IdleIssDataReady(s, burst)
    \/ IdleIrsDataReady(s)
    \/ DataReadyIgnored(s)

OnDataReady(s) ==
    /\ st[s].data_ready > 0
    /\ IF Overdue(st[s])
       THEN Become(s, StartDisconnect([st[s] EXCEPT !.data_ready = @ - 1]))
       ELSE HandleDataReady(s)

DrainDeadlinePasses(s) ==
    /\ st[s].pending_disconnect = "draining"
    /\ Become(s, [st[s] EXCEPT !.pending_disconnect = "overdue"])

-----------------------------------------------------------------------------
(* The transmitter: tx_thread of modem/modem.c and the action queue of     *)
(* arq_modem.c.                                                            *)

\* arq_modem_dequeue: the first control action, or else the oldest one.
NextAction(q) ==
    LET controls == {i \in 1 .. Len(q) : q[i].control}
    IN  IF controls = {} THEN 1 ELSE CHOOSE i \in controls : \A j \in controls : i <= j

\* Bringing the modem to the action's mode records that mode as the session's
\* payload_mode, unless it is the control mode or the modem is in it already.
RecordedModes(r, b) ==
    IF b.control THEN {r.payload_mode} ELSE {r.payload_mode, b.frames[1].mode}

\* An action is taken and keyed: TX_STARTED, which only an overdue disconnect
\* reacts to.
TxStart(s) ==
    /\ onair[s] = <<>> /\ st[s].txq # <<>>
    /\ LET k == NextAction(st[s].txq)
           b == st[s].txq[k]
       IN  /\ onair' = [onair EXCEPT ![s] = b.frames]
           /\ \E mode \in RecordedModes(st[s], b) :
                 LET r == [st[s] EXCEPT !.txq = RemoveAt(@, k), !.payload_mode = mode]
                 IN  Become(s, IF Overdue(r) THEN StartDisconnect(r) ELSE r)

\* PTT off: TX_COMPLETE.
TxEnd(s) ==
    /\ onair[s] # <<>>
    /\ onair' = [onair EXCEPT ![s] = <<>>]
    /\ OnTxComplete(s)

-----------------------------------------------------------------------------
(* The specification of one station with an arbitrary peer *)

\* The receiver is off while we transmit (rx_thread drains the capture ring),
\* and its payload decoder listens in peer_tx_mode only.
CanDecode(s, f) ==
    /\ onair[s] = <<>>
    /\ f.type = "DATA" => f.mode = st[s].peer_tx_mode

\* Frames as a station builds them.  A CQ is shown to the host, no more.
ShortTypes == {"CALL", "ACCEPT", "DISCONNECT", "TURN_REQ", "TURN_ACK",
               "KEEPALIVE", "KEEPALIVE_ACK"}
ShortFrames == {PlainFrame(type, sid) : type \in ShortTypes, sid \in SessionIds}

DataFrames ==
    {DataFrame(sid, seq, mode, 1) :
         sid \in SessionIds, seq \in 0 .. SeqSpace - 1, mode \in PayloadModes}
AckFrames ==
    {AckFrame(sid, seq, has_data) :
         sid \in SessionIds, seq \in 0 .. SeqSpace - 1, has_data \in BOOLEAN}
ModeFrames ==
    {ModeFrame(type, sid, mode) :
         type \in {"MODE_REQ", "MODE_ACK"}, sid \in SessionIds, mode \in PayloadModes}
PeerFrames == ShortFrames \cup DataFrames \cup AckFrames \cup ModeFrames

\* MaxRx bounds how much the peer sends in a session, TxqBound how far the
\* FSM runs ahead of the transmitter: every wait is longer than a frame.
TxRoom(s) == Len(st[s].txq) < TxqBound

RxFrame(s, f) ==
    /\ TxRoom(s) /\ CanDecode(s, f)
    /\ f.type = "DATA" /\ InConn(s, "CONNECTED") => Len(st[s].rxlog) < MaxRx
    /\ OnFrame(s, f)
    /\ UNCHANGED onair

Command(s) ==
    \/ "LISTEN" \in Commands[s] /\ HostListen(s)
    \/ "STOP_LISTEN" \in Commands[s] /\ HostStopListen(s)
    \/ "CONNECT" \in Commands[s] /\ \E sid \in SessionIds : HostConnect(s, sid)
    \/ "DISCONNECT" \in Commands[s] /\ HostDisconnect(s)
    \/ "CLIENT_GONE" \in Commands[s] /\ HostClientGone(s)
    \/ "ABORT" \in Commands[s] /\ HostAbort(s)
    \/ "CQ" \in Commands[s] /\ HostCq(s)

HostCommand(s) == TxRoom(s) /\ Command(s) /\ UNCHANGED onair
HostData(s) == HostWrite(s) /\ UNCHANGED onair
Timer(s) == TxRoom(s) /\ OnTimer(s) /\ UNCHANGED onair
DataReady(s) == TxRoom(s) /\ OnDataReady(s) /\ UNCHANGED onair
DrainOver(s) == DrainDeadlinePasses(s) /\ UNCHANGED onair

vars == <<st, onair>>

Init ==
    /\ st = [s \in Station |-> InitSession]
    /\ onair = [s \in Station |-> <<>>]

Local(s) ==
    \/ HostCommand(s) \/ HostData(s) \/ Timer(s) \/ DataReady(s) \/ DrainOver(s)
    \/ TxEnd(s)

Next ==
    \E s \in Station :
        \/ Local(s)
        \/ TxStart(s)
        \/ \E f \in PeerFrames : RxFrame(s, f)

Spec == Init /\ [][Next]_vars

\* The event loop runs, the transmitter takes what is queued and stops
\* keying, and clocks advance.  Nothing is assumed of the host or the peer.
StationFairness ==
    \A s \in Station :
        /\ WF_vars(Timer(s)) /\ WF_vars(DataReady(s)) /\ WF_vars(DrainOver(s))
        /\ WF_vars(TxStart(s)) /\ WF_vars(TxEnd(s))

FairSpec == Spec /\ StationFairness

-----------------------------------------------------------------------------
(* Properties of a station, whatever its peer sends *)

TypeOK ==
    /\ st \in [Station -> Session]
    /\ onair \in [Station -> Seq(Frame)]

\* The go-back-N window is the tail of what was read from the application:
\* its frames have consecutive numbers ending at tx_seq - 1 and carry exactly
\* the units read with those numbers, so that a retransmission sends what the
\* number stands for, across ACKs, yields, mode changes and timeouts.  No
\* number is reused while its frame is unacknowledged, and the receiver has
\* delivered exactly the numbers below rx_expected.
WindowOf(r) ==
    LET w == r.tx_window
    IN  /\ Len(w) <= BurstFrames
        /\ Len(w) <= r.tx_seq
        /\ r.tx_seq = Len(r.txlog)
        /\ r.rx_expected = Len(r.rxlog)
        /\ \A i \in 1 .. Len(w) :
              /\ w[i].seq = r.tx_seq - Len(w) + i - 1
              /\ w[i].unit = r.txlog[w[i].seq + 1]

WindowIsTail == \A s \in Station : WindowOf(st[s])

\* The deadline that is armed is one the state has a handler for, and a state
\* that waits for the peer has one armed: no handler leaves behind the
\* deadline of the state before, whatever order events come in.
DeadlineOf(r) ==
    LET d == r.deadline
    IN  CASE r.conn_state \in {"DISCONNECTED", "LISTENING"} -> d = "none"
          [] r.conn_state \in {"CALLING", "ACCEPTING"} -> d = "TIMER_RETRY"
          [] r.conn_state = "DISCONNECTING" -> d \in {"TIMER_ACK", "TIMER_RETRY"}
          [] OTHER ->
             CASE r.dflow_state \in {"IDLE_ISS", "MODE_REQ_TX"} -> d = "none"
               [] r.dflow_state \in {"WAIT_ACK", "DATA_RX"} -> d = "TIMER_ACK"
               [] r.dflow_state \in {"TURN_REQ_WAIT", "MODE_REQ_WAIT",
                                     "KEEPALIVE_WAIT"} -> d = "TIMER_RETRY"
               [] r.dflow_state = "IDLE_IRS" -> d = "TIMER_PEER_BACKLOG"
               [] r.dflow_state = "ACK_TX" ->
                     d = "none" \/ (d = "TIMER_ACK" /\ r.pending_connect_confirm)
               [] r.dflow_state \in {"TURN_REQ_TX", "KEEPALIVE_TX"} ->
                     d \in {"none", "TIMER_RETRY"}
               [] OTHER -> d \in {"none", "TIMER_ACK"}

DeadlineFitsState == \A s \in Station : DeadlineOf(st[s])

\* A connected station that is not idle as ISS is never left with nothing to
\* happen: a deadline is armed, or a frame is queued or on the air whose
\* TX_COMPLETE is still to come.
NeverStranded ==
    \A s \in Station :
        InConn(s, "CONNECTED") /\ st[s].dflow_state # "IDLE_ISS"
            => st[s].deadline # "none" \/ st[s].txq # <<>> \/ onair[s] # <<>>

HostOf(r) ==
    /\ r.host = "pending" => r.conn_state = "ACCEPTING"
    /\ r.host = "connected" =>
          r.conn_state \in {"CONNECTED", "DISCONNECTING"} \/ r.pending_disconnect_notify
    /\ r.conn_state = "CONNECTED" => r.host = "connected" \/ r.pending_disconnect # "no"

\* The host and the session agree, though the host is told of the end of a
\* session only after the last frame and its own DISCONNECT is answered before
\* the first: it believes in a session while there is one or its end is still
\* to be told, in an incoming call while one is being answered, and a session
\* it does not know of is one it has asked to end.
HostInStep == \A s \in Station : HostOf(st[s])

\* A session does not begin with the deferred disconnect of the one before:
\* "clear stale deferred disconnect" (fsm_listening, fsm_calling).
SessionStartsClean ==
    [][\A s \in Station :
          ~InConn(s, "CONNECTED") /\ st'[s].conn_state = "CONNECTED"
              => st'[s].pending_disconnect = "no"]_vars

\* "Deferred DISCONNECT: TX buffer drained", "last ACK received" (enter_idle_iss):
\* unless it is forced, a disconnect the application asked for waits until no
\* frame is unacknowledged.
DrainsBeforeDisconnect ==
    [][\A s \in Station :
          /\ InConn(s, "CONNECTED") /\ ~Overdue(st[s])
          /\ st'[s].conn_state = "DISCONNECTING" /\ st'[s].deadline = "TIMER_ACK"
          => st'[s].tx_window = <<>>]_vars

\* A window keeps the payload mode it was built for until it is empty: a frame
\* "retransmitted after a mode change" has another size at the receiver (the
\* regression maybe_upgrade_mode describes).  The mode changes in other
\* handlers than the one that asks, and when a burst is keyed.
ModeKeptInFlight ==
    [][\A s \in Station :
          /\ st[s].tx_window # <<>>
          /\ InConn(s, "CONNECTED") /\ st'[s].conn_state = "CONNECTED"
          => st'[s].payload_mode = st[s].payload_mode]_vars

\* "Defer notify_disconnected until TX done" (arq_session_t): the host does get
\* to hear that the peer ended the session.
DisconnectIsTold ==
    \A s \in Station :
        st[s].host = "connected" /\ st[s].pending_disconnect_notify
            ~> st[s].host = "idle"

\* "The deferral is bounded three ways and can never hang" (fsm_connected): a
\* disconnect put off until the data has drained does end the session, whatever
\* the peer sends or does not send.
DeferredDisconnectEnds ==
    \A s \in Station :
        InConn(s, "CONNECTED") /\ st[s].pending_disconnect # "no"
            ~> ~InConn(s, "CONNECTED")

=============================================================================

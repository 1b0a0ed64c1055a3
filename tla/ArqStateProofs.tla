--------------------------- MODULE ArqStateProofs ---------------------------
(***************************************************************************)
(* Proofs about one station of ArqFsm, for every value of the constants    *)
(* and whatever its peer sends: DeadlineFitsState, HostInStep, and         *)
(* NeverStranded for a host that does not ABORT.                           *)
(***************************************************************************)
EXTENDS ArqFsmProofs

-----------------------------------------------------------------------------
(* The deadline and the host.  Both properties speak of seven fields of a   *)
(* session.  Most helpers leave them alone (Like); the rest enter a state   *)
(* and arm its deadline; their lemmas say that the session FitsState after  *)
(* that, if it was UpInStep (connected, with a host in step) before.  A     *)
(* handler that does not end in one of those keeps what it finds.           *)

Readable(r) ==
    {"conn_state", "dflow_state", "deadline", "pending_connect_confirm", "host",
     "pending_disconnect", "pending_disconnect_notify"} \subseteq DOMAIN r

(* q reads like r. *)
Like(q, r) ==
    /\ Readable(q)
    /\ q.conn_state = r.conn_state
    /\ q.dflow_state = r.dflow_state
    /\ q.deadline = r.deadline
    /\ q.pending_connect_confirm = r.pending_connect_confirm
    /\ q.host = r.host
    /\ q.pending_disconnect = r.pending_disconnect
    /\ q.pending_disconnect_notify = r.pending_disconnect_notify

FitsState(r) == Readable(r) /\ DeadlineOf(r) /\ HostOf(r)
UpInStep(r) == Readable(r) /\ HostOf(r) /\ r.conn_state = "CONNECTED"

LEMMA SessionReadable == ASSUME NEW r \in Session PROVE Readable(r)
  BY DEF Session, Readable

LEMMA LikeKeeps ==
    ASSUME NEW q, NEW r, Like(q, r)
    PROVE  (FitsState(r) => FitsState(q)) /\ (UpInStep(r) => UpInStep(q))
  BY DEF Like, FitsState, UpInStep, DeadlineOf, HostOf

-----------------------------------------------------------------------------
(* Helpers that leave the seven fields alone *)

LEMMA SendControlLike ==
    ASSUME NEW r, Readable(r), NEW f
    PROVE  Like(SendControl(r, f), r)
  BY DEF SendControl, Like, Readable

LEMMA SendCtrlFrameLike ==
    ASSUME NEW r, Readable(r), NEW type
    PROVE  Like(SendCtrlFrame(r, type), r)
  BY SendControlLike DEF SendCtrlFrame

LEMMA SendAckLike ==
    ASSUME NEW r, Readable(r)
    PROVE  Like(SendAck(r), r)
  BY SendControlLike DEF SendAck

LEMMA SendModeNegotiationLike ==
    ASSUME NEW r, Readable(r), NEW type, NEW mode
    PROVE  Like(SendModeNegotiation(r, type, mode), r)
  BY SendControlLike DEF SendModeNegotiation

LEMMA SendDataBurstLike ==
    ASSUME NEW r, Readable(r), NEW burst
    PROVE  Like(SendDataBurst(r, burst), r)
  BY DEF SendDataBurst, Like, Readable

LEMMA SlideWindowLike ==
    ASSUME NEW r, Readable(r), NEW n
    PROVE  Like(SlideWindow(r, n), r)
  BY DEF SlideWindow, Like, Readable

LEMMA ImplicitAckLike ==
    ASSUME NEW r, Readable(r)
    PROVE  Like(ImplicitAck(r), r)
  BY DEF ImplicitAck, Like, Readable

LEMMA DeliverRxCheckedLike ==
    ASSUME NEW r, Readable(r), NEW f
    PROVE  Like(DeliverRxChecked(r, f), r)
  BY DEF DeliverRxChecked, Like, Readable

-----------------------------------------------------------------------------
(* Helpers that enter a state *)

LEMMA DflowEnterUp ==
    ASSUME NEW r, UpInStep(r), NEW state, NEW event
    PROVE  LET q == DflowEnter(r, state, event)
           IN  /\ UpInStep(q) /\ q.dflow_state = state /\ q.deadline = event
               /\ q.pending_connect_confirm = r.pending_connect_confirm
  BY DEF DflowEnter, Readable, UpInStep, HostOf

LEMMA SessEnterSets ==
    ASSUME NEW r, Readable(r), NEW state, NEW event
    PROVE  LET q == SessEnter(r, state, event)
           IN  /\ Readable(q) /\ q.conn_state = state /\ q.deadline = event
               /\ q.host = r.host
               /\ q.pending_disconnect = r.pending_disconnect
               /\ q.pending_disconnect_notify = r.pending_disconnect_notify
  BY DEF SessEnter, Readable

(* Where no deadline belongs, the host must have heard already. *)
LEMMA RestFit ==
    ASSUME NEW r, Readable(r), NEW state \in {"DISCONNECTED", "LISTENING"},
           r.host = "idle" \/ (r.host = "connected" /\ r.pending_disconnect_notify)
    PROVE  FitsState(SessEnter(r, state, "none"))
  BY SessEnterSets DEF FitsState, DeadlineOf, HostOf

LEMMA StartDisconnectFit ==
    ASSUME NEW r, Readable(r), r.host # "pending"
    PROVE  FitsState(StartDisconnect(r))
<1> DEFINE q == [r EXCEPT !.pending_disconnect = "no", !.tx_retries_left = DisconnectSlots]
<1>1. Readable(q) /\ q.host = r.host
  BY DEF Readable
<1> HIDE DEF q
<1>2. LET p == SessEnter(q, "DISCONNECTING", "TIMER_ACK")
      IN  Readable(p) /\ p.conn_state = "DISCONNECTING" /\ p.deadline = "TIMER_ACK"
          /\ p.host = r.host
  BY <1>1, SessEnterSets
<1>3. FitsState(SessEnter(q, "DISCONNECTING", "TIMER_ACK"))
  BY <1>2 DEF FitsState, DeadlineOf, HostOf
<1> QED
  BY <1>3 DEF StartDisconnect, q

LEMMA EndCallFit ==
    ASSUME NEW r, Readable(r)
    PROVE  FitsState(EndCall(r))
<1>1. Readable(NotifyDisconnected(r)) /\ NotifyDisconnected(r).host = "idle"
  BY DEF NotifyDisconnected, Readable
<1> QED
  BY <1>1, RestFit DEF EndCall, EnterIdleAfterCall

LEMMA NotifyCancelPendingIdle ==
    ASSUME NEW r, Readable(r)
    PROVE  LET q == NotifyCancelPending(r)
           IN  Readable(q) /\ q.host = "idle" /\ q.conn_state = r.conn_state
  BY DEF NotifyCancelPending, Readable

LEMMA StartSessionUp ==
    ASSUME NEW r, Readable(r), NEW role
    PROVE  UpInStep(StartSession(r, role))
<1> DEFINE q == [r EXCEPT !.tx_seq = 0, !.rx_expected = 0, !.tx_window = <<>>,
                          !.txlog = <<>>, !.rxlog = <<>>, !.role = role,
                          !.tx_retries_left = DataSlots,
                          !.payload_mode = SafeMode, !.peer_tx_mode = SafeMode,
                          !.pending_tx_mode = "none", !.host = "connected"]
<1>1. Readable(q) /\ q.host = "connected"
  BY DEF Readable
<1> HIDE DEF q
<1>2. LET p == SessEnter(q, "CONNECTED", "none")
      IN  Readable(p) /\ p.host = "connected" /\ p.conn_state = "CONNECTED"
  BY <1>1, SessEnterSets
<1>3. UpInStep(SessEnter(q, "CONNECTED", "none"))
  BY <1>2 DEF UpInStep, HostOf
<1> QED
  BY <1>3 DEF StartSession, q

-----------------------------------------------------------------------------
(* Data-flow states, entered from a connected session *)

LEMMA EnterIdleIrsFit == ASSUME NEW r, UpInStep(r) PROVE FitsState(EnterIdleIrs(r))
  BY DflowEnterUp DEF EnterIdleIrs, FitsState, UpInStep, DeadlineOf

LEMMA TransmitGuardedFit == ASSUME NEW r, UpInStep(r) PROVE FitsState(TransmitGuarded(r))
  BY DflowEnterUp DEF TransmitGuarded, FitsState, UpInStep, DeadlineOf

LEMMA TransmitNowFit ==
    ASSUME NEW r, UpInStep(r), NEW burst
    PROVE  FitsState(TransmitNow(r, burst))
<1>1. FitsState(DflowEnter(r, "DATA_TX", "none"))
  BY DflowEnterUp DEF FitsState, UpInStep, DeadlineOf
<1> QED
  BY <1>1, SendDataBurstLike, LikeKeeps DEF TransmitNow, FitsState

LEMMA ArmConnectConfirmFit == ASSUME NEW r, UpInStep(r) PROVE FitsState(ArmConnectConfirm(r))
<1> DEFINE q == [r EXCEPT !.pending_connect_confirm = TRUE]
<1>1. UpInStep(q) /\ q.pending_connect_confirm
  BY DEF UpInStep, Readable, HostOf
<1> HIDE DEF q
<1>2. FitsState(DflowEnter(q, "ACK_TX", "TIMER_ACK"))
  BY <1>1, DflowEnterUp DEF FitsState, UpInStep, DeadlineOf
<1> QED
  BY <1>2 DEF ArmConnectConfirm, q

LEMMA StartModeReqFit ==
    ASSUME NEW r, UpInStep(r), NEW wanted
    PROVE  FitsState(StartModeReq(r, wanted))
<1> DEFINE q == [r EXCEPT !.pending_tx_mode = wanted, !.tx_retries_left = ModeReqRetries]
<1>1. Like(q, r)
  BY DEF UpInStep, Like, Readable
<1>2. UpInStep(q)
  BY <1>1, LikeKeeps
<1> HIDE DEF q
<1>3. UpInStep(SendModeNegotiation(q, "MODE_REQ", wanted))
  BY <1>2, SendModeNegotiationLike, LikeKeeps DEF UpInStep
<1>4. FitsState(DflowEnter(SendModeNegotiation(q, "MODE_REQ", wanted), "MODE_REQ_TX", "none"))
  BY <1>3, DflowEnterUp DEF FitsState, UpInStep, DeadlineOf
<1> QED
  BY <1>4 DEF StartModeReq, q

LEMMA UpDisconnects == ASSUME NEW r, UpInStep(r) PROVE FitsState(StartDisconnect(r))
  BY StartDisconnectFit DEF UpInStep, HostOf

LEMMA EnterIdleIssFit ==
    ASSUME NEW r, UpInStep(r), NEW burst
    PROVE  FitsState(EnterIdleIss(r, burst))
<1> DEFINE f == [r EXCEPT !.tx_retries_left = DataSlots]
<1>1. UpInStep(f)
  <2>1. Like(f, r)
    BY DEF UpInStep, Like, Readable
  <2> QED
    BY <2>1, LikeKeeps
<1> HIDE DEF f
<1>2. FitsState(TransmitNow(f, burst)) /\ FitsState(DflowEnter(f, "IDLE_ISS", "none"))
  BY <1>1, TransmitNowFit, DflowEnterUp DEF FitsState, UpInStep, DeadlineOf
<1> QED
  BY <1>2, UpDisconnects DEF EnterIdleIss, f

LEMMA EnterIdleIssGuardedFit ==
    ASSUME NEW r, UpInStep(r), NEW wanted
    PROVE  FitsState(EnterIdleIssGuarded(r, wanted))
<1> DEFINE f == [r EXCEPT !.tx_retries_left = DataSlots]
<1>1. UpInStep(f)
  <2>1. Like(f, r)
    BY DEF UpInStep, Like, Readable
  <2> QED
    BY <2>1, LikeKeeps
<1> HIDE DEF f
<1>2. FitsState(TransmitGuarded(f)) /\ FitsState(DflowEnter(f, "IDLE_ISS", "none"))
  BY <1>1, TransmitGuardedFit, DflowEnterUp DEF FitsState, UpInStep, DeadlineOf
<1> QED
  BY <1>2, StartModeReqFit, UpDisconnects DEF EnterIdleIssGuarded, f

LEMMA SendTurnReqFit == ASSUME NEW r, UpInStep(r) PROVE FitsState(SendTurnReq(r))
<1>1. UpInStep(SendCtrlFrame(r, "TURN_REQ"))
  BY SendCtrlFrameLike, LikeKeeps DEF UpInStep
<1> QED
  BY <1>1, DflowEnterUp DEF SendTurnReq, FitsState, UpInStep, DeadlineOf

LEMMA SendKeepaliveFit == ASSUME NEW r, UpInStep(r) PROVE FitsState(SendKeepalive(r))
<1>1. UpInStep(SendCtrlFrame(r, "KEEPALIVE"))
  BY SendCtrlFrameLike, LikeKeeps DEF UpInStep
<1> QED
  BY <1>1, DflowEnterUp DEF SendKeepalive, FitsState, UpInStep, DeadlineOf

LEMMA ReceiveDataFit ==
    ASSUME NEW r, UpInStep(r), NEW f
    PROVE  FitsState(ReceiveData(r, f))
<1> DEFINE d == DeliverRxChecked(r, f)
           q == [d EXCEPT !.peer_tx_mode = f.mode, !.peer_has_data = ~IsNew(r, f)]
<1>1. UpInStep(d)
  BY DeliverRxCheckedLike, LikeKeeps DEF UpInStep
<1> HIDE DEF d
<1>2. UpInStep(q)
  <2>1. Like(q, d)
    BY <1>1 DEF UpInStep, Like, Readable
  <2> QED
    BY <1>1, <2>1, LikeKeeps
<1> HIDE DEF q
<1>3. FitsState(DflowEnter(q, "DATA_RX", "TIMER_ACK"))
  BY <1>2, DflowEnterUp DEF FitsState, UpInStep, DeadlineOf
<1> QED
  BY <1>3 DEF ReceiveData, q, d

LEMMA AfterKeepaliveFit ==
    ASSUME NEW r, UpInStep(r), NEW from_irs, NEW wanted
    PROVE  FitsState(AfterKeepalive(r, from_irs, wanted))
  BY EnterIdleIrsFit, EnterIdleIssGuardedFit DEF AfterKeepalive

LEMMA BecomeCalleeFit ==
    ASSUME NEW r, Readable(r), NEW f
    PROVE  FitsState(BecomeCallee(r, f))
<1> DEFINE q == EnterIdleIrs(StartSession(r, "CALLEE"))
<1>1. FitsState(q) /\ UpInStep(q)
  BY StartSessionUp, EnterIdleIrsFit, DflowEnterUp DEF EnterIdleIrs
<1> HIDE DEF q
<1> QED
  BY <1>1, ReceiveDataFit DEF BecomeCallee, q

-----------------------------------------------------------------------------
(* Commands *)

LEMMA AppListenFit == ASSUME NEW r, FitsState(r) PROVE FitsState(AppListen(r))
<1>1. ASSUME r.conn_state = "DISCONNECTED" PROVE FitsState(SessEnter(r, "LISTENING", "none"))
  BY <1>1, SessEnterSets DEF FitsState, DeadlineOf, HostOf
<1>2. ASSUME Overdue(r) PROVE FitsState(StartDisconnect(r))
  BY <1>2, UpDisconnects DEF FitsState, UpInStep, Overdue
<1> QED
  BY <1>1, <1>2 DEF AppListen

LEMMA AppStopListenFit == ASSUME NEW r, FitsState(r) PROVE FitsState(AppStopListen(r))
<1>1. ASSUME r.conn_state = "LISTENING" PROVE FitsState(SessEnter(r, "DISCONNECTED", "none"))
  BY <1>1, SessEnterSets DEF FitsState, DeadlineOf, HostOf
<1>2. ASSUME Overdue(r) PROVE FitsState(StartDisconnect(r))
  BY <1>2, UpDisconnects DEF FitsState, UpInStep, Overdue
<1> QED
  BY <1>1, <1>2 DEF AppStopListen

LEMMA StartCallFit ==
    ASSUME NEW r, Readable(r), NEW sid,
           r.host # "pending",
           r.host = "connected" => r.pending_disconnect_notify
    PROVE  FitsState(StartCall(r, sid))
<1> DEFINE q == [r EXCEPT !.session_id = sid, !.tx_retries_left = CallSlots,
                          !.pending_disconnect = "no",
                          !.payload_mode = SafeMode, !.peer_tx_mode = SafeMode]
           c == SendCtrlFrame(q, "CALL")
<1>1. /\ Readable(q) /\ q.host = r.host
      /\ q.pending_disconnect_notify = r.pending_disconnect_notify
  BY DEF Readable
<1> HIDE DEF q
<1>2. /\ Readable(c) /\ c.host = r.host
      /\ c.pending_disconnect_notify = r.pending_disconnect_notify
  BY <1>1, SendCtrlFrameLike DEF Like
<1> HIDE DEF c
<1>3. FitsState(SessEnter(c, "CALLING", "TIMER_RETRY"))
  BY <1>2, SessEnterSets DEF FitsState, DeadlineOf, HostOf
<1> QED
  BY <1>3 DEF StartCall, q, c

LEMMA AppConnectFit == ASSUME NEW r, FitsState(r), NEW sid PROVE FitsState(AppConnect(r, sid))
<1> DEFINE idle == SessEnter(r, "DISCONNECTED", "none")
<1>1. /\ Readable(idle) /\ idle.host = r.host
      /\ idle.pending_disconnect_notify = r.pending_disconnect_notify
  BY SessEnterSets DEF FitsState
<1> HIDE DEF idle
<1>2. CASE r.conn_state = "DISCONNECTED"
  BY <1>2, StartCallFit DEF AppConnect, FitsState, HostOf
<1>3. CASE r.conn_state = "LISTENING"
  <2>1. FitsState(StartCall(idle, sid))
    BY <1>1, <1>3, StartCallFit DEF FitsState, HostOf
  <2> QED
    BY <1>3, <2>1 DEF AppConnect, idle
<1>4. CASE r.conn_state = "ACCEPTING"
  <2>1. FitsState(StartCall(NotifyCancelPending(idle), sid))
    BY <1>1, NotifyCancelPendingIdle, StartCallFit
  <2> QED
    BY <1>4, <2>1 DEF AppConnect, idle
<1>5. CASE r.conn_state \notin {"DISCONNECTED", "LISTENING", "ACCEPTING"}
  <2>1. ASSUME Overdue(r) PROVE FitsState(StartDisconnect(r))
    BY <2>1, UpDisconnects DEF FitsState, UpInStep, Overdue
  <2> QED
    BY <1>5, <2>1 DEF AppConnect
<1> QED
  BY <1>2, <1>3, <1>4, <1>5

(* DISCONNECT and ABORT have answered the host before: what is known of the  *)
(* session then is its deadline, and that its host is idle.                  *)
LEMMA AppDisconnectFit ==
    ASSUME NEW r, Readable(r), DeadlineOf(r), HostOf(r) \/ r.host = "idle"
    PROVE  FitsState(AppDisconnect(r))
<1>1. CASE r.conn_state = "CALLING"
  BY <1>1, EndCallFit DEF AppDisconnect
<1>2. CASE r.conn_state = "ACCEPTING"
  BY <1>2, EndCallFit, NotifyCancelPendingIdle DEF AppDisconnect
<1>3. CASE r.conn_state = "CONNECTED"
  <2> DEFINE q == [r EXCEPT !.pending_disconnect = "draining"]
  <2>1. /\ Readable(q) /\ q.conn_state = r.conn_state /\ q.dflow_state = r.dflow_state
        /\ q.deadline = r.deadline /\ q.host = r.host
        /\ q.pending_connect_confirm = r.pending_connect_confirm
        /\ q.pending_disconnect = "draining"
    BY DEF Readable
  <2> HIDE DEF q
  <2>2. FitsState(q)
    <3>1. DeadlineOf(q)
      BY <2>1 DEF DeadlineOf
    <3>2. HostOf(q)
      BY <1>3, <2>1 DEF HostOf
    <3> QED
      BY <2>1, <3>1, <3>2 DEF FitsState
  <2>3. FitsState(StartDisconnect(r))
    BY <1>3, StartDisconnectFit DEF HostOf
  <2> QED
    BY <1>3, <2>2, <2>3 DEF AppDisconnect, q
<1>4. CASE r.conn_state \notin {"CALLING", "ACCEPTING", "CONNECTED"}
  <2>1. HostOf(r)
    BY <1>4 DEF HostOf
  <2> QED
    BY <1>4, <2>1 DEF AppDisconnect, FitsState
<1> QED
  BY <1>1, <1>2, <1>3, <1>4

-----------------------------------------------------------------------------
(* Steps of a station *)

(* The station's next session is fit. *)
StepFit(s) == \E r : FitsState(r) /\ Become(s, r)

LEMMA LikeStep ==
    ASSUME NEW s, FitsState(st[s]), NEW q, Like(q, st[s]), Become(s, q)
    PROVE  StepFit(s)
  BY LikeKeeps DEF StepFit

LEMMA CommandFit ==
    ASSUME NEW s \in Station, FitsState(st[s]), Command(s)
    PROVE  StepFit(s)
<1> Readable(st[s]) /\ DeadlineOf(st[s]) /\ HostOf(st[s])
  BY DEF FitsState
<1>1. CASE HostListen(s)
  <2>1. Like([st[s] EXCEPT !.listen_enabled = TRUE], st[s])
    BY DEF Like, Readable
  <2> QED
    BY <1>1, <2>1, LikeKeeps, AppListenFit DEF HostListen, StepFit
<1>2. CASE HostStopListen(s)
  <2>1. Like([st[s] EXCEPT !.listen_enabled = FALSE], st[s])
    BY DEF Like, Readable
  <2> QED
    BY <1>2, <2>1, LikeKeeps, AppStopListenFit DEF HostStopListen, StepFit
<1>3. CASE \E sid \in SessionIds : HostConnect(s, sid)
  BY <1>3, AppConnectFit DEF HostConnect, StepFit
<1>4. CASE HostDisconnect(s)
  <2> DEFINE q == [st[s] EXCEPT !.host = "idle"]
  <2>1. Readable(q) /\ q.host = "idle" /\ DeadlineOf(q)
    BY DEF Readable, DeadlineOf
  <2> HIDE DEF q
  <2> QED
    BY <1>4, <2>1, AppDisconnectFit DEF HostDisconnect, StepFit, q
<1>5. CASE HostClientGone(s)
  BY <1>5, AppDisconnectFit DEF HostClientGone, StepFit
<1>6. CASE HostAbort(s)
  <2> DEFINE q == [st[s] EXCEPT !.host = "idle", !.backlog = <<>>, !.txq = <<>>]
  <2>1. Readable(q) /\ q.host = "idle" /\ DeadlineOf(q)
    BY DEF Readable, DeadlineOf
  <2> HIDE DEF q
  <2> QED
    BY <1>6, <2>1, AppDisconnectFit DEF HostAbort, StepFit, q
<1>7. CASE HostCq(s)
  BY <1>7, SendControlLike, LikeStep DEF HostCq
<1> QED
  BY <1>1, <1>2, <1>3, <1>4, <1>5, <1>6, <1>7 DEF Command

LEMMA CallFrameFit ==
    ASSUME NEW s \in Station, FitsState(st[s]), NEW f,
           \/ ListeningRxCall(s, f) \/ ListeningRxAccept(s, f)
           \/ ListeningRxTraffic(s, f)
           \/ AcceptingRxTraffic(s, f) \/ AcceptingRxCall(s, f)
           \/ \E wanted \in PayloadModes : CallingRxAccept(s, f, wanted)
    PROVE  StepFit(s)
<1> Readable(st[s])
  BY DEF FitsState
<1>1. CASE ListeningRxCall(s, f)
  <2> DEFINE q == [st[s] EXCEPT !.session_id = f.sid, !.tx_retries_left = AcceptSlots,
                                !.payload_mode = SafeMode, !.peer_tx_mode = SafeMode,
                                !.host = "pending"]
  <2>1. Readable(q) /\ q.host = "pending"
    BY DEF Readable
  <2> HIDE DEF q
  <2>2. FitsState(SessEnter(q, "ACCEPTING", "TIMER_RETRY"))
    BY <2>1, SessEnterSets DEF FitsState, DeadlineOf, HostOf
  <2> QED
    BY <1>1, <2>2 DEF ListeningRxCall, StepFit, q
<1>2. CASE ListeningRxAccept(s, f)
  BY <1>2, SendCtrlFrameLike, LikeStep DEF ListeningRxAccept
<1>3. CASE ListeningRxTraffic(s, f)
  <2>1. Readable([st[s] EXCEPT !.pending_disconnect = "no"])
    BY DEF Readable
  <2> QED
    BY <1>3, <2>1, BecomeCalleeFit DEF ListeningRxTraffic, StepFit
<1>4. CASE AcceptingRxTraffic(s, f)
  BY <1>4, BecomeCalleeFit DEF AcceptingRxTraffic, StepFit
<1>5. CASE AcceptingRxCall(s, f)
  <2>1. Like([st[s] EXCEPT !.tx_retries_left = AcceptSlots], st[s])
    BY DEF Like, Readable
  <2> QED
    BY <1>5, <2>1, LikeStep DEF AcceptingRxCall
<1>6. ASSUME NEW wanted \in PayloadModes, CallingRxAccept(s, f, wanted)
      PROVE  StepFit(s)
  <2> DEFINE q == [st[s] EXCEPT !.pending_disconnect = "no",
                                !.pending_connect_confirm = FALSE,
                                !.need_initial_guard = HasBacklog(st[s])]
  <2>1. Readable(q)
    BY DEF Readable
  <2> HIDE DEF q
  <2>2. UpInStep(StartSession(q, "CALLER"))
    BY <2>1, StartSessionUp
  <2> QED
    BY <1>6, <2>2, EnterIdleIssGuardedFit, ArmConnectConfirmFit
    DEF CallingRxAccept, StepFit, q
<1> QED
  BY <1>1, <1>2, <1>3, <1>4, <1>5, <1>6

LEMMA ConnectedFrameFit ==
    ASSUME NEW s \in Station, FitsState(st[s]), NEW f,
           \/ ConnectedRxAccept(s, f) \/ ConnectedRxDisconnect(s, f)
           \/ DisconnectingRxDisconnect(s, f) \/ ConnectedRxKeepalive(s, f)
           \/ RxTurnReq(s, f) \/ RxModeReq(s, f)
    PROVE  StepFit(s)
<1> Readable(st[s]) /\ (InConn(s, "CONNECTED") => UpInStep(st[s]))
  BY DEF FitsState, UpInStep, InConn
<1>1. CASE ConnectedRxAccept(s, f)
  BY <1>1, ArmConnectConfirmFit DEF ConnectedRxAccept, InFlow, StepFit
<1>2. CASE ConnectedRxDisconnect(s, f)
  <2> DEFINE c == SendCtrlFrame(st[s], "DISCONNECT")
             q == [c EXCEPT !.pending_disconnect = "no", !.pending_disconnect_notify = TRUE]
  <2>1. UpInStep(c)
    BY <1>2, SendCtrlFrameLike, LikeKeeps DEF ConnectedRxDisconnect
  <2> HIDE DEF c
  <2>2. Readable(q) /\ q.host = c.host /\ q.pending_disconnect_notify
    BY <2>1 DEF UpInStep, Readable
  <2>3. c.host # "pending"
    BY <2>1 DEF UpInStep, HostOf
  <2> HIDE DEF q
  <2>4. FitsState(SessEnter(q, "DISCONNECTED", "none"))
    BY <2>2, <2>3, SessEnterSets DEF FitsState, DeadlineOf, HostOf
  <2> QED
    BY <1>2, <2>4 DEF ConnectedRxDisconnect, StepFit, q, c
<1>3. CASE DisconnectingRxDisconnect(s, f)
  BY <1>3, EndCallFit DEF DisconnectingRxDisconnect, StepFit
<1>4. CASE ConnectedRxKeepalive(s, f)
  <2> DEFINE r == [st[s] EXCEPT !.keepalive_miss_count = 0]
             irs == r.dflow_state = "IDLE_IRS"
             q == [r EXCEPT !.keepalive_ack_from_irs = irs]
  <2>1. UpInStep(st[s]) /\ Like(r, st[s])
    BY <1>4 DEF ConnectedRxKeepalive, Like, Readable
  <2>2. Become(s, IF r.dflow_state \in {"IDLE_ISS", "IDLE_IRS"}
                  THEN DflowEnter(q, "KEEPALIVE_ACK_TX", "TIMER_ACK")
                  ELSE SendCtrlFrame(r, "KEEPALIVE_ACK"))
    BY <1>4 DEF ConnectedRxKeepalive
  <2> HIDE DEF r, irs
  <2>3. UpInStep(r) /\ FitsState(r)
    BY <2>1, LikeKeeps
  <2>4. UpInStep(q)
    <3>1. Like(q, r)
      BY <2>3 DEF UpInStep, Like, Readable
    <3> QED
      BY <2>3, <3>1, LikeKeeps
  <2> HIDE DEF q
  <2>5. FitsState(DflowEnter(q, "KEEPALIVE_ACK_TX", "TIMER_ACK"))
    BY <2>4, DflowEnterUp DEF FitsState, UpInStep, DeadlineOf
  <2>6. FitsState(SendCtrlFrame(r, "KEEPALIVE_ACK"))
    BY <2>3, SendCtrlFrameLike, LikeKeeps DEF UpInStep
  <2> QED
    BY <2>2, <2>5, <2>6 DEF StepFit
<1>5. CASE RxTurnReq(s, f)
  <2>1. FitsState(DflowEnter(st[s], "TURN_ACK_TX", "TIMER_ACK"))
    BY <1>5, DflowEnterUp DEF RxTurnReq, FitsState, UpInStep, DeadlineOf
  <2> QED
    BY <1>5, <2>1 DEF RxTurnReq, StepFit
<1>6. CASE RxModeReq(s, f)
  <2> DEFINE r == IF st[s].dflow_state = "WAIT_ACK" THEN ImplicitAck(st[s]) ELSE st[s]
             q == [r EXCEPT !.peer_tx_mode = f.mode]
  <2>1. UpInStep(r)
    BY <1>6, ImplicitAckLike, LikeKeeps DEF RxModeReq
  <2>2. Become(s, DflowEnter(q, "MODE_ACK_TX", "TIMER_ACK"))
    BY <1>6 DEF RxModeReq
  <2> HIDE DEF r
  <2>3. UpInStep(q)
    <3>1. Like(q, r)
      BY <2>1 DEF UpInStep, Like, Readable
    <3> QED
      BY <2>1, <3>1, LikeKeeps
  <2> HIDE DEF q
  <2>4. FitsState(DflowEnter(q, "MODE_ACK_TX", "TIMER_ACK"))
    BY <2>3, DflowEnterUp DEF FitsState, UpInStep, DeadlineOf
  <2> QED
    BY <2>2, <2>4 DEF StepFit
<1> QED
  BY <1>1, <1>2, <1>3, <1>4, <1>5, <1>6

LEMMA StreamFrameFit ==
    ASSUME NEW s \in Station, FitsState(st[s]), NEW f, NEW burst, NEW wanted,
           \/ RxData(s, f) \/ WaitAckRxData(s, f, burst) \/ WaitAckRxAck(s, f, wanted)
    PROVE  StepFit(s)
<1> Readable(st[s]) /\ UpInStep(st[s])
  BY DEF FitsState, UpInStep, InConn, InFlow, RxData, WaitAckRxData, WaitAckRxAck
<1>1. CASE RxData(s, f)
  BY <1>1, ReceiveDataFit DEF RxData, StepFit
<1>2. CASE WaitAckRxData(s, f, burst)
  <2>1. UpInStep(ImplicitAck(st[s]))
    BY ImplicitAckLike, LikeKeeps
  <2>2. UpInStep([st[s] EXCEPT !.peer_tx_mode = f.mode])
    <3>1. Like([st[s] EXCEPT !.peer_tx_mode = f.mode], st[s])
      BY DEF Like, Readable
    <3> QED
      BY <3>1, LikeKeeps
  <2>3. /\ FitsState(ReceiveData(ImplicitAck(st[s]), f))
        /\ FitsState(TransmitNow([st[s] EXCEPT !.peer_tx_mode = f.mode], burst))
    BY <2>1, <2>2, ReceiveDataFit, TransmitNowFit
  <2> QED
    BY <1>2, <2>3 DEF WaitAckRxData, StepFit
<1>3. CASE WaitAckRxAck(s, f, wanted)
  <2> DEFINE q == SlideWindow(st[s], AckedCount(st[s].tx_window, f.seq))
             slid == [q EXCEPT !.tx_retries_left = DataSlots, !.peer_has_data = f.has_data]
  <2>1. UpInStep(q)
    BY SlideWindowLike, LikeKeeps
  <2>2. Become(s, IF slid.tx_window # <<>> THEN TransmitGuarded(slid)
                  ELSE IF f.has_data THEN EnterIdleIrs(slid)
                  ELSE EnterIdleIssGuarded(slid, wanted))
    BY <1>3 DEF WaitAckRxAck
  <2> HIDE DEF q
  <2>3. UpInStep(slid)
    <3>1. Like(slid, q)
      BY <2>1 DEF UpInStep, Like, Readable
    <3> QED
      BY <2>1, <3>1, LikeKeeps
  <2> HIDE DEF slid
  <2> QED
    BY <2>2, <2>3, TransmitGuardedFit, EnterIdleIrsFit, EnterIdleIssGuardedFit DEF StepFit
<1> QED
  BY <1>1, <1>2, <1>3

LEMMA AnswerFrameFit ==
    ASSUME NEW s \in Station, FitsState(st[s]), NEW f, NEW wanted,
           \/ TurnReqRxTurnAck(s, f, wanted) \/ KeepaliveWaitRx(s, f, wanted)
           \/ ModeReqRxModeAck(s, f, wanted)
    PROVE  StepFit(s)
<1> Readable(st[s]) /\ UpInStep(st[s])
  BY DEF FitsState, UpInStep, InConn, InFlow, TurnReqRxTurnAck, KeepaliveWaitRx, ModeReqRxModeAck
<1>1. CASE TurnReqRxTurnAck(s, f, wanted)
  BY <1>1, EnterIdleIssGuardedFit DEF TurnReqRxTurnAck, StepFit
<1>2. CASE KeepaliveWaitRx(s, f, wanted)
  <2> DEFINE r == [st[s] EXCEPT !.keepalive_miss_count = 0]
             q == IF f.type = "KEEPALIVE" THEN SendCtrlFrame(r, "KEEPALIVE_ACK") ELSE r
  <2>1. Like(r, st[s])
    BY DEF Like, Readable
  <2>2. Become(s, AfterKeepalive(q, r.keepalive_from_irs, wanted))
    BY <1>2 DEF KeepaliveWaitRx
  <2> HIDE DEF r
  <2>3. UpInStep(r)
    BY <2>1, LikeKeeps
  <2>4. UpInStep(q)
    BY <2>3, SendCtrlFrameLike, LikeKeeps DEF UpInStep
  <2> HIDE DEF q
  <2> QED
    BY <2>2, <2>4, AfterKeepaliveFit DEF StepFit
<1>3. CASE ModeReqRxModeAck(s, f, wanted)
  <2>1. Like([st[s] EXCEPT !.payload_mode = f.mode], st[s])
    BY DEF Like, Readable
  <2>2. UpInStep([st[s] EXCEPT !.payload_mode = f.mode])
    BY <2>1, LikeKeeps
  <2> QED
    BY <1>3, <2>2, EnterIdleIssGuardedFit DEF ModeReqRxModeAck, StepFit
<1> QED
  BY <1>1, <1>2, <1>3

LEMMA HandleFrameFit ==
    ASSUME NEW s \in Station, FitsState(st[s]), NEW f, HandleFrame(s, f)
    PROVE  StepFit(s)
  BY CallFrameFit, ConnectedFrameFit, StreamFrameFit, AnswerFrameFit DEF HandleFrame

LEMMA ForcedTeardownFit ==
    ASSUME NEW s \in Station, FitsState(st[s]), ForcedTeardown(s)
    PROVE  StepFit(s)
  BY UpDisconnects DEF ForcedTeardown, Overdue, FitsState, UpInStep, StepFit

-----------------------------------------------------------------------------
(* Timers *)

LEMMA CallTimerFit ==
    ASSUME NEW s \in Station, FitsState(st[s]),
           \/ CallingRetry(s) \/ AcceptingRetry(s)
           \/ DisconnectingGuardOver(s) \/ DisconnectingRetry(s)
    PROVE  StepFit(s)
<1> DEFINE less == [st[s] EXCEPT !.tx_retries_left = @ - 1]
<1>1. Readable(st[s]) /\ FitsState(less)
  <2>1. Like(less, st[s])
    BY DEF FitsState, Like, Readable
  <2> QED
    BY <2>1, LikeKeeps DEF FitsState
<1> HIDE DEF less
<1>2. \A type : FitsState(SendCtrlFrame(less, type))
  BY <1>1, SendCtrlFrameLike, LikeKeeps DEF FitsState
<1>3. CASE CallingRetry(s)
  BY <1>1, <1>2, <1>3, EndCallFit DEF CallingRetry, StepFit, less
<1>4. CASE AcceptingRetry(s)
  <2>1. FitsState(SessEnter(NotifyCancelPending(st[s]), "LISTENING", "none"))
    BY <1>1, NotifyCancelPendingIdle, RestFit
  <2> QED
    BY <1>2, <1>4, <2>1 DEF AcceptingRetry, StepFit, less
<1>5. CASE DisconnectingGuardOver(s)
  <2> DEFINE c == SendCtrlFrame(st[s], "DISCONNECT")
             q == [c EXCEPT !.deadline = "TIMER_RETRY"]
  <2>1. FitsState(c) /\ c.conn_state = "DISCONNECTING"
    BY <1>1, <1>5, SendCtrlFrameLike, LikeKeeps DEF DisconnectingGuardOver, InConn, Like
  <2> HIDE DEF c
  <2>2. FitsState(q)
    BY <2>1 DEF FitsState, Readable, DeadlineOf, HostOf
  <2> QED
    BY <1>5, <2>2 DEF DisconnectingGuardOver, StepFit, c
<1>6. CASE DisconnectingRetry(s)
  BY <1>1, <1>2, <1>6, EndCallFit DEF DisconnectingRetry, StepFit, less
<1> QED
  BY <1>3, <1>4, <1>5, <1>6

(* In a state whose deadline may be gone, firing it leaves a fit session. *)
LEMMA FiredUp ==
    ASSUME NEW s, UpInStep(st[s])
    PROVE  /\ UpInStep(Fired(s)) /\ Fired(s).deadline = "none"
           /\ Fired(s).dflow_state = st[s].dflow_state
  BY DEF Fired, UpInStep, Readable, HostOf

LEMMA StreamTimerFit ==
    ASSUME NEW s \in Station, FitsState(st[s]), NEW burst, NEW wanted, NEW dead,
           \/ DataTxGuardOver(s, burst) \/ WaitAckRetransmit(s, burst)
           \/ WaitAckExhausted(s, dead, burst, wanted)
           \/ DataRxGuardOver(s) \/ AckTxConfirm(s)
    PROVE  StepFit(s)
<1>1. UpInStep(st[s]) /\ Readable(st[s])
  BY DEF FitsState, UpInStep, InConn, InFlow, DataTxGuardOver, WaitAckRetransmit,
         WaitAckExhausted, DataRxGuardOver, AckTxConfirm
<1>2. CASE DataTxGuardOver(s, burst)
  <2>1. FitsState(Fired(s))
    BY <1>1, <1>2, FiredUp DEF DataTxGuardOver, InFlow, FitsState, UpInStep, DeadlineOf
  <2>2. FitsState(SendDataBurst(Fired(s), burst))
    BY <2>1, SendDataBurstLike, LikeKeeps DEF FitsState
  <2> QED
    BY <1>2, <2>2 DEF DataTxGuardOver, StepFit
<1>3. CASE WaitAckRetransmit(s, burst)
  <2> DEFINE left == IF st[s].pending_disconnect # "no" THEN 1 ELSE st[s].tx_retries_left
             q == [st[s] EXCEPT !.tx_retries_left = left - 1]
  <2>1. Become(s, TransmitNow(q, burst))
    BY <1>3 DEF WaitAckRetransmit
  <2> HIDE DEF left
  <2>2. Like(q, st[s])
    BY <1>1 DEF Like, Readable
  <2> HIDE DEF q
  <2> QED
    BY <1>1, <2>1, <2>2, LikeKeeps, TransmitNowFit DEF StepFit
<1>4. CASE WaitAckExhausted(s, dead, burst, wanted)
  <2> DEFINE again == [st[s] EXCEPT !.tx_retries_left = DataSlots]
             c == SendCtrlFrame(st[s], "DISCONNECT")
             bye == [c EXCEPT !.pending_disconnect = "no",
                              !.tx_retries_left = DisconnectSlots]
  <2>1. Like(again, st[s])
    BY <1>1 DEF Like, Readable
  <2>2. Become(s, IF dead \/ st[s].pending_disconnect # "no"
                  THEN SessEnter(bye, "DISCONNECTING", "TIMER_RETRY")
                  ELSE IF UpgradeStarts(again, wanted) THEN StartModeReq(again, wanted)
                  ELSE TransmitNow(again, burst))
    BY <1>4 DEF WaitAckExhausted
  <2>3. UpInStep(c)
    BY <1>1, SendCtrlFrameLike, LikeKeeps
  <2> HIDE DEF again, c
  <2>4. Readable(bye) /\ bye.host # "pending"
    BY <2>3 DEF UpInStep, Readable, HostOf
  <2> HIDE DEF bye
  <2>5. FitsState(SessEnter(bye, "DISCONNECTING", "TIMER_RETRY"))
    BY <2>4, SessEnterSets DEF FitsState, DeadlineOf, HostOf
  <2>6. UpInStep(again)
    BY <1>1, <2>1, LikeKeeps
  <2> QED
    BY <2>2, <2>5, <2>6, StartModeReqFit, TransmitNowFit DEF StepFit
<1>5. CASE DataRxGuardOver(s)
  <2> DEFINE a == SendAck(st[s])
             q == [a EXCEPT !.acktx_had_has_data = HasBacklog(st[s])]
  <2>1. UpInStep(a)
    BY <1>1, SendAckLike, LikeKeeps
  <2> HIDE DEF a
  <2>2. UpInStep(q)
    <3>1. Like(q, a)
      BY <2>1 DEF UpInStep, Like, Readable
    <3> QED
      BY <2>1, <3>1, LikeKeeps
  <2> HIDE DEF q
  <2>3. FitsState(DflowEnter(q, "ACK_TX", "none"))
    BY <2>2, DflowEnterUp DEF FitsState, UpInStep, DeadlineOf
  <2> QED
    BY <1>5, <2>3 DEF DataRxGuardOver, StepFit, q, a
<1>6. CASE AckTxConfirm(s)
  <2>1. UpInStep(SendAck(st[s]))
    BY <1>1, SendAckLike, LikeKeeps
  <2>2. FitsState(DflowEnter(SendAck(st[s]), "ACK_TX", "none"))
    BY <2>1, DflowEnterUp DEF FitsState, UpInStep, DeadlineOf
  <2> QED
    BY <1>6, <2>2 DEF AckTxConfirm, StepFit
<1> QED
  BY <1>2, <1>3, <1>4, <1>5, <1>6

LEMMA TurnTimerFit ==
    ASSUME NEW s \in Station, FitsState(st[s]), NEW quiet,
           \/ IdleIrsPeerBacklog(s, quiet) \/ TurnReqRetry(s) \/ TurnAckGuardOver(s)
           \/ KeepaliveMiss(s) \/ KeepaliveAckGuardOver(s)
    PROVE  StepFit(s)
<1>1. UpInStep(st[s]) /\ Readable(st[s])
  BY DEF FitsState, UpInStep, InConn, InFlow, IdleIrsPeerBacklog, TurnReqRetry, TurnAckGuardOver,
         KeepaliveMiss, KeepaliveAckGuardOver
<1>2. UpInStep(Fired(s)) /\ Readable(Fired(s))
  BY <1>1, FiredUp DEF UpInStep
<1>3. CASE IdleIrsPeerBacklog(s, quiet)
  <2>1. Like([Fired(s) EXCEPT !.keepalive_miss_count = 0, !.keepalive_from_irs = TRUE], Fired(s))
    BY <1>2 DEF Like, Readable
  <2>2. Like([Fired(s) EXCEPT !.tx_retries_left = TurnReqRetries], Fired(s))
    BY <1>2 DEF Like, Readable
  <2>3. /\ UpInStep([Fired(s) EXCEPT !.keepalive_miss_count = 0, !.keepalive_from_irs = TRUE])
        /\ UpInStep([Fired(s) EXCEPT !.tx_retries_left = TurnReqRetries])
    BY <1>2, <2>1, <2>2, LikeKeeps
  <2> QED
    BY <1>2, <1>3, <2>3, SendKeepaliveFit, SendTurnReqFit, EnterIdleIrsFit
    DEF IdleIrsPeerBacklog, StepFit
<1>4. CASE TurnReqRetry(s)
  <2>1. Like([st[s] EXCEPT !.tx_retries_left = @ - 1], st[s])
    BY <1>1 DEF Like, Readable
  <2>2. UpInStep([st[s] EXCEPT !.tx_retries_left = @ - 1])
    BY <1>1, <2>1, LikeKeeps
  <2> QED
    BY <1>1, <1>4, <2>2, SendTurnReqFit, EnterIdleIrsFit DEF TurnReqRetry, StepFit
<1>5. CASE TurnAckGuardOver(s)
  <2>1. FitsState(Fired(s))
    BY <1>1, <1>5, FiredUp DEF TurnAckGuardOver, InFlow, FitsState, UpInStep, DeadlineOf
  <2>2. FitsState(SendCtrlFrame(Fired(s), "TURN_ACK"))
    BY <1>2, <2>1, SendCtrlFrameLike, LikeKeeps
  <2> QED
    BY <1>5, <2>2 DEF TurnAckGuardOver, StepFit
<1>6. CASE KeepaliveMiss(s)
  <2> DEFINE r == [st[s] EXCEPT !.keepalive_miss_count = @ + 1]
             c == SendCtrlFrame(r, "DISCONNECT")
             bye == [c EXCEPT !.tx_retries_left = DisconnectSlots]
  <2>1. Like(r, st[s])
    BY <1>1 DEF Like, Readable
  <2>2. Become(s, IF r.keepalive_miss_count >= KeepaliveMissLimit
                  THEN SessEnter(bye, "DISCONNECTING", "TIMER_RETRY")
                  ELSE SendKeepalive(r))
    BY <1>6 DEF KeepaliveMiss
  <2> HIDE DEF r
  <2>3. UpInStep(r)
    BY <1>1, <2>1, LikeKeeps
  <2>4. UpInStep(c)
    BY <2>3, SendCtrlFrameLike, LikeKeeps DEF UpInStep
  <2> HIDE DEF c
  <2>5. Readable(bye) /\ bye.host # "pending"
    BY <2>4 DEF UpInStep, Readable, HostOf
  <2> HIDE DEF bye
  <2>6. FitsState(SessEnter(bye, "DISCONNECTING", "TIMER_RETRY"))
    BY <2>5, SessEnterSets DEF FitsState, DeadlineOf, HostOf
  <2> QED
    BY <2>2, <2>3, <2>6, SendKeepaliveFit DEF StepFit
<1>7. CASE KeepaliveAckGuardOver(s)
  <2>1. FitsState(Fired(s))
    BY <1>1, <1>7, FiredUp DEF KeepaliveAckGuardOver, InFlow, FitsState, UpInStep, DeadlineOf
  <2>2. FitsState(SendCtrlFrame(Fired(s), "KEEPALIVE_ACK"))
    BY <1>2, <2>1, SendCtrlFrameLike, LikeKeeps
  <2> QED
    BY <1>7, <2>2 DEF KeepaliveAckGuardOver, StepFit
<1> QED
  BY <1>3, <1>4, <1>5, <1>6, <1>7

LEMMA ModeTimerFit ==
    ASSUME NEW s \in Station, FitsState(st[s]),
           ModeAckGuardOver(s) \/ ModeReqRetry(s) \/ TimerUnhandled(s)
    PROVE  StepFit(s)
<1>1. UpInStep(st[s]) /\ Readable(st[s])
  BY DEF FitsState, UpInStep, InConn, InFlow, ModeAckGuardOver, ModeReqRetry, TimerUnhandled
<1>2. CASE ModeAckGuardOver(s)
  <2>1. FitsState(Fired(s))
    BY <1>1, <1>2, FiredUp DEF ModeAckGuardOver, InFlow, FitsState, UpInStep, DeadlineOf
  <2>2. FitsState(SendModeNegotiation(Fired(s), "MODE_ACK", st[s].peer_tx_mode))
    BY <2>1, SendModeNegotiationLike, LikeKeeps DEF FitsState
  <2> QED
    BY <1>2, <2>2 DEF ModeAckGuardOver, StepFit
<1>3. CASE ModeReqRetry(s)
  <2> DEFINE less == [st[s] EXCEPT !.tx_retries_left = @ - 1]
             none == [st[s] EXCEPT !.pending_tx_mode = "none"]
             q == IF st[s].tx_retries_left > 0
                  THEN SendModeNegotiation(less, "MODE_REQ", st[s].pending_tx_mode)
                  ELSE SendModeNegotiation(none, "MODE_REQ", st[s].payload_mode)
  <2>1. Like(less, st[s]) /\ Like(none, st[s])
    BY <1>1 DEF Like, Readable
  <2> HIDE DEF less, none
  <2>2. UpInStep(less) /\ UpInStep(none)
    BY <1>1, <2>1, LikeKeeps
  <2>3. UpInStep(q)
    BY <2>2, SendModeNegotiationLike, LikeKeeps DEF UpInStep
  <2>4. Become(s, DflowEnter(q, "MODE_REQ_TX", "none"))
    BY <1>3 DEF ModeReqRetry, less, none
  <2> HIDE DEF q
  <2>5. FitsState(DflowEnter(q, "MODE_REQ_TX", "none"))
    BY <2>3, DflowEnterUp DEF FitsState, UpInStep, DeadlineOf
  <2> QED
    BY <2>4, <2>5 DEF StepFit
<1>4. CASE TimerUnhandled(s)
  <2>1. FitsState(Fired(s))
    BY <1>1, <1>4, FiredUp DEF TimerUnhandled, FitsState, UpInStep, DeadlineOf
  <2> QED
    BY <1>4, <2>1 DEF TimerUnhandled, StepFit
<1> QED
  BY <1>2, <1>3, <1>4

LEMMA OnTimerFit ==
    ASSUME NEW s \in Station, FitsState(st[s]), OnTimer(s)
    PROVE  StepFit(s)
<1>1. CASE HandleTimer(s)
  BY <1>1, CallTimerFit, StreamTimerFit, TurnTimerFit, ModeTimerFit DEF HandleTimer
<1> QED
  BY <1>1, ForcedTeardownFit DEF OnTimer

-----------------------------------------------------------------------------
(* TX_COMPLETE, APP_DATA_READY, the drain deadline and the transmitter *)

LEMMA OnTxCompleteFit ==
    ASSUME NEW s \in Station, FitsState(st[s]), OnTxComplete(s)
    PROVE  StepFit(s) \/ UNCHANGED st
<1> Readable(st[s]) /\ (InConn(s, "CONNECTED") => UpInStep(st[s]))
  BY DEF FitsState, UpInStep, InConn
<1>1. CASE ForcedTeardown(s)
  BY <1>1, ForcedTeardownFit
<1>2. CASE DisconnectedTxComplete(s)
  <2>1. Readable([st[s] EXCEPT !.pending_disconnect_notify = FALSE])
    BY DEF Readable
  <2> QED
    BY <1>2, <2>1, EndCallFit DEF DisconnectedTxComplete, StepFit
<1>3. CASE AcceptingTxComplete(s)
  <2>1. FitsState([st[s] EXCEPT !.deadline = "TIMER_RETRY"])
    BY <1>3 DEF AcceptingTxComplete, InConn, FitsState, Readable, DeadlineOf, HostOf
  <2> QED
    BY <1>3, <2>1 DEF AcceptingTxComplete, StepFit
<1>4. CASE DataTxComplete(s)
  <2>1. FitsState(DflowEnter(st[s], "WAIT_ACK", "TIMER_ACK"))
    BY <1>4, DflowEnterUp DEF DataTxComplete, InFlow, FitsState, UpInStep, DeadlineOf
  <2> QED
    BY <1>4, <2>1 DEF DataTxComplete, StepFit
<1>5. CASE TurnReqTxComplete(s)
  <2>1. FitsState(DflowEnter(st[s], "TURN_REQ_WAIT", "TIMER_RETRY"))
    BY <1>5, DflowEnterUp DEF TurnReqTxComplete, InFlow, FitsState, UpInStep, DeadlineOf
  <2> QED
    BY <1>5, <2>1 DEF TurnReqTxComplete, StepFit
<1>6. CASE GaveTurnTxComplete(s)
  BY <1>6, EnterIdleIrsFit DEF GaveTurnTxComplete, StepFit
<1>7. CASE KeepaliveTxComplete(s)
  <2>1. FitsState(DflowEnter(st[s], "KEEPALIVE_WAIT", "TIMER_RETRY"))
    BY <1>7, DflowEnterUp DEF KeepaliveTxComplete, InFlow, FitsState, UpInStep, DeadlineOf
  <2> QED
    BY <1>7, <2>1 DEF KeepaliveTxComplete, StepFit
<1>8. ASSUME NEW burst \in BurstSizes, ModeReqTxComplete(s, burst)
      PROVE  StepFit(s)
  <2> DEFINE r == [st[s] EXCEPT !.tx_retries_left = DataSlots]
  <2>1. UpInStep(st[s]) /\ Like(r, st[s])
    BY <1>8 DEF ModeReqTxComplete, InFlow, Like, Readable
  <2>2. UpInStep(r)
    BY <2>1, LikeKeeps
  <2>3. Become(s, IF st[s].pending_tx_mode # "none"
                  THEN DflowEnter(st[s], "MODE_REQ_WAIT", "TIMER_RETRY")
                  ELSE IF HasBacklog(r) THEN TransmitGuarded(r)
                  ELSE EnterIdleIss(r, burst))
    BY <1>8 DEF ModeReqTxComplete
  <2> HIDE DEF r
  <2>4. FitsState(DflowEnter(st[s], "MODE_REQ_WAIT", "TIMER_RETRY"))
    BY <2>1, DflowEnterUp DEF FitsState, UpInStep, DeadlineOf
  <2> QED
    BY <2>2, <2>3, <2>4, TransmitGuardedFit, EnterIdleIssFit DEF StepFit
<1>9. ASSUME NEW wanted \in PayloadModes, KeepaliveAckTxComplete(s, wanted)
      PROVE  StepFit(s)
  BY <1>9, AfterKeepaliveFit DEF KeepaliveAckTxComplete, InFlow, StepFit
<1>10. ASSUME NEW burst \in BurstSizes, NEW wanted \in PayloadModes,
              AckTxComplete(s, burst, wanted)
       PROVE  StepFit(s)
  <2> DEFINE r == [st[s] EXCEPT !.pending_connect_confirm = FALSE]
  <2>1. UpInStep(r)
    BY <1>10 DEF AckTxComplete, InFlow, UpInStep, Readable, HostOf
  <2>2. Become(s, IF st[s].pending_connect_confirm
                  THEN IF HasBacklog(r) THEN EnterIdleIssGuarded(r, wanted)
                       ELSE EnterIdleIss(r, burst)
                  ELSE IF ~r.peer_has_data /\ r.acktx_had_has_data
                  THEN EnterIdleIssGuarded(r, wanted)
                  ELSE EnterIdleIrs(r))
    BY <1>10 DEF AckTxComplete
  <2> HIDE DEF r
  <2> QED
    BY <2>1, <2>2, EnterIdleIssGuardedFit, EnterIdleIssFit, EnterIdleIrsFit DEF StepFit
<1>11. CASE TxCompleteIgnored(s)
  BY <1>11 DEF TxCompleteIgnored
<1> QED
  BY <1>1, <1>2, <1>3, <1>4, <1>5, <1>6, <1>7, <1>8, <1>9, <1>10, <1>11
  DEF OnTxComplete, HandleTxComplete

LEMMA OnDataReadyFit ==
    ASSUME NEW s \in Station, FitsState(st[s]), OnDataReady(s)
    PROVE  StepFit(s)
<1> DEFINE r == [st[s] EXCEPT !.data_ready = @ - 1]
<1>1. Like(r, st[s]) /\ r.conn_state = st[s].conn_state
  BY DEF FitsState, Like, Readable
<1>2. CASE Become(s, StartDisconnect(r)) /\ Overdue(st[s])
  <2>1. UpInStep(r)
    BY <1>1, <1>2, LikeKeeps DEF Overdue, FitsState, UpInStep
  <2> QED
    BY <1>2, <2>1, UpDisconnects DEF StepFit
<1>3. ASSUME NEW burst \in BurstSizes, IdleIssDataReady(s, burst)
      PROVE  StepFit(s)
  <2> DEFINE q == [r EXCEPT !.need_initial_guard = FALSE]
  <2>1. Become(s, IF r.need_initial_guard THEN TransmitGuarded(q) ELSE TransmitNow(r, burst))
    BY <1>3 DEF IdleIssDataReady
  <2>2. UpInStep(r)
    BY <1>1, <1>3, LikeKeeps DEF IdleIssDataReady, InFlow, InConn, FitsState, UpInStep
  <2> HIDE DEF r
  <2>3. UpInStep(q)
    <3>1. Like(q, r)
      BY <2>2 DEF UpInStep, Like, Readable
    <3> QED
      BY <2>2, <3>1, LikeKeeps
  <2> HIDE DEF q
  <2> QED
    BY <2>1, <2>2, <2>3, TransmitGuardedFit, TransmitNowFit DEF StepFit
<1>4. CASE IdleIrsDataReady(s)
  <2> DEFINE q == [r EXCEPT !.tx_retries_left = TurnReqRetries]
  <2>1. Become(s, SendTurnReq(q))
    BY <1>4 DEF IdleIrsDataReady
  <2>2. UpInStep(r)
    BY <1>1, <1>4, LikeKeeps DEF IdleIrsDataReady, InFlow, InConn, FitsState, UpInStep
  <2> HIDE DEF r
  <2>3. UpInStep(q)
    <3>1. Like(q, r)
      BY <2>2 DEF UpInStep, Like, Readable
    <3> QED
      BY <2>2, <3>1, LikeKeeps
  <2> HIDE DEF q
  <2> QED
    BY <2>1, <2>3, SendTurnReqFit DEF StepFit
<1>5. CASE DataReadyIgnored(s)
  BY <1>1, <1>5, LikeStep DEF DataReadyIgnored
<1> QED
  BY <1>2, <1>3, <1>4, <1>5 DEF OnDataReady, HandleDataReady

LEMMA HostWriteFit ==
    ASSUME NEW s \in Station, FitsState(st[s]), HostWrite(s)
    PROVE  StepFit(s)
<1> DEFINE q == [st[s] EXCEPT !.written = @ + 1,
                              !.backlog = Append(@, st[s].written + 1),
                              !.data_ready = @ + 1]
<1>1. Like(q, st[s])
  BY DEF FitsState, Like, Readable
<1> QED
  BY <1>1, LikeStep DEF HostWrite

LEMMA DrainDeadlinePassesFit ==
    ASSUME NEW s \in Station, FitsState(st[s]), DrainDeadlinePasses(s)
    PROVE  StepFit(s)
<1>1. FitsState([st[s] EXCEPT !.pending_disconnect = "overdue"])
  BY DEF DrainDeadlinePasses, FitsState, Readable, DeadlineOf, HostOf
<1> QED
  BY <1>1 DEF DrainDeadlinePasses, StepFit

LEMMA TxStartFit ==
    ASSUME NEW s \in Station, FitsState(st[s]), TxStart(s)
    PROVE  StepFit(s)
<1>1. PICK queue, mode :
         LET r == [st[s] EXCEPT !.txq = queue, !.payload_mode = mode]
         IN  Become(s, IF Overdue(r) THEN StartDisconnect(r) ELSE r)
  BY DEF TxStart
<1> DEFINE r == [st[s] EXCEPT !.txq = queue, !.payload_mode = mode]
<1>2. Like(r, st[s])
  BY DEF FitsState, Like, Readable
<1>3. Become(s, IF Overdue(r) THEN StartDisconnect(r) ELSE r)
  BY <1>1
<1> HIDE DEF r
<1>4. FitsState(r)
  BY <1>2, LikeKeeps
<1>5. ASSUME Overdue(r) PROVE FitsState(StartDisconnect(r))
  BY <1>4, <1>5, UpDisconnects DEF Overdue, FitsState, UpInStep
<1> QED
  BY <1>3, <1>4, <1>5 DEF StepFit

-----------------------------------------------------------------------------
(* The inductive invariant: with TypeOK, which makes the fields readable *)

StateInv == DeadlineFitsState /\ HostInStep

LEMMA StateInvInit == Init => StateInv
  BY DEF Init, InitSession, StateInv, DeadlineFitsState, HostInStep, DeadlineOf, HostOf

LEMMA StateInvNext == TypeOK /\ StateInv /\ [OpenNext]_vars => StateInv'
<1> SUFFICES ASSUME TypeOK, StateInv, [OpenNext]_vars PROVE StateInv'
  OBVIOUS
<1>1. \A s \in Station : FitsState(st[s])
  BY SessionReadable DEF TypeOK, StateInv, DeadlineFitsState, HostInStep, FitsState
<1>2. (\E s \in Station : StepFit(s)) \/ UNCHANGED st
  <2>1. ASSUME NEW s \in Station, HostCommand(s) PROVE StepFit(s)
    BY <1>1, <2>1, CommandFit DEF HostCommand
  <2>2. ASSUME NEW s \in Station, HostData(s) PROVE StepFit(s)
    BY <1>1, <2>2, HostWriteFit DEF HostData
  <2>3. ASSUME NEW s \in Station, Timer(s) PROVE StepFit(s)
    BY <1>1, <2>3, OnTimerFit DEF Timer
  <2>4. ASSUME NEW s \in Station, DataReady(s) PROVE StepFit(s)
    BY <1>1, <2>4, OnDataReadyFit DEF DataReady
  <2>5. ASSUME NEW s \in Station, DrainOver(s) PROVE StepFit(s)
    BY <1>1, <2>5, DrainDeadlinePassesFit DEF DrainOver
  <2>6. ASSUME NEW s \in Station, TxEnd(s) PROVE StepFit(s) \/ UNCHANGED st
    BY <1>1, <2>6, OnTxCompleteFit DEF TxEnd
  <2>7. ASSUME NEW s \in Station, TxStart(s) PROVE StepFit(s)
    BY <1>1, <2>7, TxStartFit
  <2>8. ASSUME NEW s \in Station, Hears(s) PROVE StepFit(s)
    <3>1. PICK f \in Frame : ForcedTeardown(s) \/ HandleFrame(s, f)
      BY <2>8 DEF Hears, OnFrame
    <3> QED
      BY <1>1, <3>1, ForcedTeardownFit, HandleFrameFit
  <2> QED
    BY <2>1, <2>2, <2>3, <2>4, <2>5, <2>6, <2>7, <2>8 DEF OpenNext, Local, vars
<1>3. CASE UNCHANGED st
  BY <1>3 DEF StateInv, DeadlineFitsState, HostInStep
<1>4. ASSUME NEW s \in Station, StepFit(s) PROVE StateInv'
  <2>1. PICK r : FitsState(r) /\ st' = [st EXCEPT ![s] = r]
    BY <1>4 DEF StepFit, Become
  <2>2. \A t \in Station : st'[t] = IF t = s THEN r ELSE st[t]
    BY <2>1 DEF TypeOK
  <2> QED
    BY <1>1, <2>1, <2>2 DEF StateInv, DeadlineFitsState, HostInStep, FitsState
<1> QED
  BY <1>2, <1>3, <1>4

LEMMA StateInductive == OpenSpec => []StateInv
<1>1. IInv => TypeOK
  BY DEF IInv
<1> QED
  BY <1>1, StateInvInit, StateInvNext, Inductive, PTL DEF OpenSpec

(* In every state of the connection and of the data flow, the one deadline of *)
(* arq_fsm.c is unarmed or names an event that the state handles, and a state *)
(* that waits for the peer has it armed: whatever the order of commands,      *)
(* frames, timers and completed transmissions, and whatever the retry counts. *)
THEOREM DeadlineFits == Spec => []DeadlineFitsState
<1>1. StateInv => DeadlineFitsState
  BY DEF StateInv
<1> QED
  BY <1>1, StateInductive, SpecIsOpen, PTL

(* What the host was last told (cb_notify_*, the answers of handle_cmd) fits  *)
(* the session, whatever the peer sends and whenever commands are given.      *)
THEOREM HostStaysInStep == Spec => []HostInStep
<1>1. StateInv => HostInStep
  BY DEF StateInv
<1> QED
  BY <1>1, StateInductive, SpecIsOpen, PTL

-----------------------------------------------------------------------------
(* No station is stranded whose host does not ABORT.  (With ABORT the rings *)
(* are emptied under a transmission that is about to start.)                *)
(*                                                                          *)
(* A session is Due when it waits for a transmission to complete and for    *)
(* nothing else.  The invariant Moving says that something is then queued   *)
(* or on the air.  It needs two more facts: a station that is to transmit   *)
(* data has some (Working), and a queued action has frames (Queue), or      *)
(* taking it would not put anything on the air.                             *)

NoAbort == \A s \in Station : "ABORT" \notin Commands[s]

(* A queue of bursts that are not empty. *)
Queue(q) == \E S : q \in Seq(S) /\ \A b \in S : b.frames # <<>>

Legible(r) ==
    /\ {"conn_state", "dflow_state", "deadline", "txq", "backlog", "tx_window", "tx_seq"}
           \subseteq DOMAIN r
    /\ Queue(r.txq) /\ r.backlog \in Seq(Nat) /\ r.tx_window \in Seq(Slot)
    /\ r.tx_seq \in Nat

HasWork(r) == r.backlog # <<>> \/ r.tx_window # <<>>

Working(r) ==
    r.conn_state = "CONNECTED" /\ r.dflow_state \in {"DATA_TX", "WAIT_ACK"} => HasWork(r)

Due(r) ==
    /\ r.conn_state = "CONNECTED"
    /\ \/ r.deadline = "none" /\ r.dflow_state # "IDLE_ISS"
       \/ r.dflow_state \in {"TURN_REQ_TX", "KEEPALIVE_TX"}

(* With a transmission on the air or not. *)
MovingWith(r, air) ==
    Legible(r) /\ Working(r) /\ (Due(r) => r.txq # <<>> \/ air # <<>>)

Moving(r) == MovingWith(r, <<>>)

LEMMA MovingIsEnough == ASSUME NEW r, Moving(r), NEW air PROVE MovingWith(r, air)
  BY DEF Moving, MovingWith

-----------------------------------------------------------------------------
(* Queues *)

LEMMA AppendQueue ==
    ASSUME NEW q, Queue(q), NEW b, b.frames # <<>>
    PROVE  Queue(Append(q, b)) /\ Append(q, b) # <<>>
<1>1. PICK S : q \in Seq(S) /\ \A c \in S : c.frames # <<>>
  BY DEF Queue
<1> DEFINE T == S \cup {b}
<1>2. q \in Seq(T) /\ b \in T
  BY <1>1
<1>3. \A c \in T : c.frames # <<>>
  BY <1>1
<1> HIDE DEF T
<1>4. Append(q, b) \in Seq(T) /\ Len(Append(q, b)) = Len(q) + 1 /\ Len(q) \in Nat
  BY <1>2
<1>5. Append(q, b) # <<>>
  BY <1>4
<1> QED
  BY <1>3, <1>4, <1>5 DEF Queue

LEMMA EmptyQueue == Queue(<<>>)
<1>1. <<>> \in Seq({})
  OBVIOUS
<1> QED
  BY <1>1 DEF Queue

LEMMA RemoveAtQueue ==
    ASSUME NEW q, Queue(q), NEW k \in 1 .. Len(q)
    PROVE  Queue(RemoveAt(q, k)) /\ q[k].frames # <<>>
<1>1. PICK S : q \in Seq(S) /\ \A c \in S : c.frames # <<>>
  BY DEF Queue
<1>2. q[k] \in S
  BY <1>1
<1>3. SubSeq(q, 1, k - 1) \in Seq(S) /\ SubSeq(q, k + 1, Len(q)) \in Seq(S)
  BY <1>1
<1>4. RemoveAt(q, k) \in Seq(S)
  BY <1>3 DEF RemoveAt
<1> QED
  BY <1>1, <1>2, <1>4 DEF Queue

-----------------------------------------------------------------------------
(* Helpers that send something *)

(* q is r with something queued. *)
Queues(q, r) ==
    /\ Legible(q) /\ q.txq # <<>>
    /\ q.conn_state = r.conn_state /\ q.dflow_state = r.dflow_state
    /\ q.deadline = r.deadline
    /\ HasWork(r) => HasWork(q)
    /\ q.backlog # <<>> => r.backlog # <<>>

LEMMA SendControlSends ==
    ASSUME NEW r, Legible(r), NEW f
    PROVE  Queues(SendControl(r, f), r)
<1> DEFINE b == [control |-> TRUE, frames |-> <<f>>]
<1>1. b.frames # <<>>
  OBVIOUS
<1> HIDE DEF b
<1>2. Queue(Append(r.txq, b)) /\ Append(r.txq, b) # <<>>
  BY <1>1, AppendQueue DEF Legible
<1>3. Queues([r EXCEPT !.txq = Append(@, b)], r)
  BY <1>2 DEF Queues, Legible, HasWork
<1> QED
  BY <1>3 DEF SendControl, b

LEMMA SendCtrlFrameSends ==
    ASSUME NEW r, Legible(r), NEW type
    PROVE  Queues(SendCtrlFrame(r, type), r)
  BY SendControlSends DEF SendCtrlFrame

LEMMA SendAckSends == ASSUME NEW r, Legible(r) PROVE Queues(SendAck(r), r)
  BY SendControlSends DEF SendAck

LEMMA SendModeNegotiationSends ==
    ASSUME NEW r, Legible(r), NEW type, NEW mode
    PROVE  Queues(SendModeNegotiation(r, type, mode), r)
  BY SendControlSends DEF SendModeNegotiation

(* A station that has work sends a burst of it. *)
LEMMA SendDataBurstSends ==
    ASSUME NEW r, Legible(r), HasWork(r), NEW burst \in BurstSizes
    PROVE  Queues(SendDataBurst(r, burst), r)
<1> DEFINE n == FreshCount(r, burst)
           fresh == [i \in 1 .. n |-> [seq |-> r.tx_seq + i - 1, unit |-> r.backlog[i]]]
           w == r.tx_window \o fresh
           rest == SubSeq(r.backlog, n + 1, Len(r.backlog))
<1>1. r.tx_window \in Seq(Slot) /\ r.backlog \in Seq(Nat) /\ r.tx_seq \in Nat
  BY DEF Legible
<1>2. burst \in Nat /\ burst >= 1
  BY WindowAssumption DEF BurstSizes
<1>3. n \in 0 .. Len(r.backlog) /\ (r.tx_window = <<>> => n >= 1)
  <2>1. ASSUME NEW l \in Nat, NEW k \in Nat, l > 0 \/ k > 0
        PROVE  LET room == IF l < burst THEN burst - l ELSE 0
                   m == IF room < k THEN room ELSE k
               IN  m \in 0 .. k /\ (l = 0 => m >= 1)
    BY <1>2, <2>1
  <2>2. /\ Len(r.tx_window) \in Nat /\ Len(r.backlog) \in Nat
        /\ r.tx_window = <<>> <=> Len(r.tx_window) = 0
        /\ r.backlog = <<>> <=> Len(r.backlog) = 0
    BY <1>1
  <2> QED
    BY <2>1, <2>2 DEF FreshCount, HasWork
<1> HIDE DEF n
<1>4. fresh \in Seq(Slot) /\ Len(fresh) = n
  <2>1. \A i \in 1 .. n : [seq |-> r.tx_seq + i - 1, unit |-> r.backlog[i]] \in Slot
    <3> TAKE i \in 1 .. n
    <3>1. i \in Nat /\ i >= 1 /\ i \in 1 .. Len(r.backlog)
      BY <1>1, <1>3
    <3>2. r.tx_seq + i - 1 \in Nat /\ r.backlog[i] \in Nat
      BY <1>1, <3>1
    <3> QED
      BY <3>2 DEF Slot
  <2> QED
    BY <1>3, <2>1
<1> HIDE DEF fresh
<1>5. w \in Seq(Slot) /\ w # <<>> /\ Len(w) >= 1
  BY <1>1, <1>3, <1>4
<1>6. rest \in Seq(Nat) /\ (rest # <<>> => r.backlog # <<>>)
  BY <1>1, <1>3
<1>7. WindowBurst(r, w).frames # <<>>
  <2>1. Len(w) \in Nat /\ Len(w) >= 1
    BY <1>5
  <2> DEFINE F(i) == DataFrame(r.session_id, w[i].seq % SeqSpace, r.payload_mode, w[i].unit)
             fs == [i \in 1 .. Len(w) |-> F(i)]
  <2> HIDE DEF F
  <2>2. fs # <<>>
    <3>1. 1 \in DOMAIN fs
      BY <2>1
    <3> QED
      BY <3>1
  <2>3. WindowBurst(r, w).frames = fs
    BY DEF WindowBurst, F
  <2> QED
    BY <2>2, <2>3
<1> HIDE DEF w, rest
<1>8. Queue(Append(r.txq, WindowBurst(r, w))) /\ Append(r.txq, WindowBurst(r, w)) # <<>>
  BY <1>7, AppendQueue DEF Legible
<1> DEFINE q == [r EXCEPT !.tx_window = w,
                          !.tx_seq = @ + n,
                          !.backlog = rest,
                          !.txlog = @ \o SubSeq(r.backlog, 1, n),
                          !.txq = Append(@, WindowBurst(r, w))]
<1>9. /\ q.txq = Append(r.txq, WindowBurst(r, w)) /\ q.tx_window = w /\ q.backlog = rest
      /\ q.conn_state = r.conn_state /\ q.dflow_state = r.dflow_state
      /\ q.deadline = r.deadline /\ q.tx_seq = r.tx_seq + n /\ DOMAIN q = DOMAIN r
  BY DEF Legible
<1>10. SendDataBurst(r, burst) = q
  BY <1>5 DEF SendDataBurst, q, w, fresh, n, rest
<1> HIDE DEF q
<1>11. Queues(q, r)
  <2>1. q.tx_seq \in Nat
    BY <1>1, <1>3, <1>9
  <2> QED
    BY <2>1, <1>5, <1>6, <1>8, <1>9 DEF Queues, Legible, HasWork
<1> QED
  BY <1>10, <1>11

(* q is r but for fields that nothing here looks at. *)
WorksLike(q, r) ==
    /\ Legible(q)
    /\ q.conn_state = r.conn_state /\ q.dflow_state = r.dflow_state
    /\ q.deadline = r.deadline
    /\ q.txq = r.txq /\ q.backlog = r.backlog /\ q.tx_window = r.tx_window

LEMMA SameKeeps ==
    ASSUME NEW q, NEW r, WorksLike(q, r)
    PROVE  /\ HasWork(q) <=> HasWork(r)
           /\ \A air : MovingWith(r, air) => MovingWith(q, air)
  BY DEF WorksLike, HasWork, MovingWith, Working, Due

(* Sending something keeps a station moving, whatever is on the air. *)
LEMMA SentMoving ==
    ASSUME NEW q, NEW r, Queues(q, r), Working(r)
    PROVE  Moving(q)
  BY DEF Queues, Moving, MovingWith, Working

-----------------------------------------------------------------------------
(* Helpers that enter a state *)

LEMMA DflowEnterSets ==
    ASSUME NEW r, Legible(r), NEW state, NEW event
    PROVE  LET q == DflowEnter(r, state, event)
           IN  /\ Legible(q) /\ q.dflow_state = state /\ q.deadline = event
               /\ q.conn_state = r.conn_state
               /\ q.txq = r.txq /\ q.backlog = r.backlog /\ q.tx_window = r.tx_window
  BY DEF DflowEnter, Legible

(* A data-flow state may be entered when its deadline is armed, or something *)
(* is queued; and only with work to do when it transmits data.               *)
LEMMA EnterMoving ==
    ASSUME NEW r, Legible(r), NEW state, NEW event,
           state \in {"DATA_TX", "WAIT_ACK"} => HasWork(r),
           \/ event # "none" /\ state \notin {"TURN_REQ_TX", "KEEPALIVE_TX"}
           \/ event = "none" /\ state = "IDLE_ISS"
           \/ r.txq # <<>>
    PROVE  Moving(DflowEnter(r, state, event))
<1> DEFINE q == DflowEnter(r, state, event)
<1>1. /\ Legible(q) /\ q.dflow_state = state /\ q.deadline = event
      /\ q.txq = r.txq /\ q.backlog = r.backlog /\ q.tx_window = r.tx_window
  BY DflowEnterSets
<1> HIDE DEF q
<1>2. Moving(q)
  BY <1>1 DEF Moving, MovingWith, Working, Due, HasWork
<1> QED
  BY <1>2 DEF q

LEMMA SessEnterLegible ==
    ASSUME NEW r, Legible(r), NEW state, NEW event
    PROVE  LET q == SessEnter(r, state, event)
           IN  /\ Legible(q) /\ q.conn_state = state
               /\ q.txq = r.txq /\ q.backlog = r.backlog /\ q.tx_window = r.tx_window
  BY DEF SessEnter, Legible

(* A station that is not connected waits for nothing here. *)
LEMMA Away ==
    ASSUME NEW r, Legible(r), r.conn_state # "CONNECTED"
    PROVE  Moving(r)
  BY DEF Moving, MovingWith, Working, Due

LEMMA AwayMoving ==
    ASSUME NEW r, Legible(r), NEW state, state # "CONNECTED", NEW event
    PROVE  Moving(SessEnter(r, state, event))
  BY SessEnterLegible, Away

LEMMA StartDisconnectMoving ==
    ASSUME NEW r, Legible(r)
    PROVE  Moving(StartDisconnect(r))
<1> DEFINE q == [r EXCEPT !.pending_disconnect = "no", !.tx_retries_left = DisconnectSlots]
<1>1. Legible(q)
  BY DEF Legible
<1> HIDE DEF q
<1>2. Moving(SessEnter(q, "DISCONNECTING", "TIMER_ACK"))
  BY <1>1, AwayMoving
<1> QED
  BY <1>2 DEF StartDisconnect, q

LEMMA EndCallMoving == ASSUME NEW r, Legible(r) PROVE Moving(EndCall(r))
<1> DEFINE q == NotifyDisconnected(r)
           state == IF q.listen_enabled THEN "LISTENING" ELSE "DISCONNECTED"
<1>1. Legible(q)
  <2>1. <<>> \in Seq(Nat)
    OBVIOUS
  <2> QED
    BY <2>1 DEF NotifyDisconnected, Legible
<1>2. state # "CONNECTED"
  OBVIOUS
<1> HIDE DEF q, state
<1>3. Moving(SessEnter(q, state, "none"))
  BY <1>1, <1>2, AwayMoving
<1> QED
  BY <1>3 DEF EndCall, EnterIdleAfterCall, q, state

LEMMA NotifyCancelPendingLegible ==
    ASSUME NEW r, Legible(r)
    PROVE  Legible(NotifyCancelPending(r))
  BY DEF NotifyCancelPending, Legible

LEMMA StartSessionLegible ==
    ASSUME NEW r, Legible(r), NEW role
    PROVE  LET q == StartSession(r, role)
           IN  Legible(q) /\ q.backlog = r.backlog
<1> DEFINE q == [r EXCEPT !.tx_seq = 0, !.rx_expected = 0, !.tx_window = <<>>,
                          !.txlog = <<>>, !.rxlog = <<>>, !.role = role,
                          !.tx_retries_left = DataSlots,
                          !.payload_mode = SafeMode, !.peer_tx_mode = SafeMode,
                          !.pending_tx_mode = "none", !.host = "connected"]
<1>1. Legible(q) /\ q.backlog = r.backlog
  <2>1. <<>> \in Seq(Slot)
    OBVIOUS
  <2> QED
    BY <2>1 DEF Legible
<1> HIDE DEF q
<1>2. LET p == SessEnter(q, "CONNECTED", "none")
      IN  Legible(p) /\ p.backlog = q.backlog
  BY <1>1, SessEnterLegible
<1> QED
  BY <1>1, <1>2 DEF StartSession, q

-----------------------------------------------------------------------------
(* Data-flow states *)

LEMMA EnterIdleIrsMoving == ASSUME NEW r, Legible(r) PROVE Moving(EnterIdleIrs(r))
  BY EnterMoving DEF EnterIdleIrs

LEMMA EnterIdleIssMovingHere ==
    ASSUME NEW r, Legible(r)
    PROVE  Moving(DflowEnter(r, "IDLE_ISS", "none"))
  BY EnterMoving

LEMMA TransmitGuardedMoving ==
    ASSUME NEW r, Legible(r), HasWork(r)
    PROVE  Moving(TransmitGuarded(r))
  BY EnterMoving DEF TransmitGuarded

LEMMA TransmitNowMoving ==
    ASSUME NEW r, Legible(r), HasWork(r), NEW burst \in BurstSizes
    PROVE  Moving(TransmitNow(r, burst))
<1> DEFINE q == DflowEnter(r, "DATA_TX", "none")
<1>1. Legible(q) /\ HasWork(q)
  BY DflowEnterSets DEF HasWork
<1> HIDE DEF q
<1>2. Working(q)
  BY <1>1 DEF Working
<1>3. Moving(SendDataBurst(q, burst))
  BY <1>1, <1>2, SendDataBurstSends, SentMoving
<1> QED
  BY <1>3 DEF TransmitNow, q

LEMMA ArmConnectConfirmMoving ==
    ASSUME NEW r, Legible(r)
    PROVE  Moving(ArmConnectConfirm(r))
<1> DEFINE q == [r EXCEPT !.pending_connect_confirm = TRUE]
<1>1. Legible(q)
  BY DEF Legible
<1> HIDE DEF q
<1>2. Moving(DflowEnter(q, "ACK_TX", "TIMER_ACK"))
  BY <1>1, EnterMoving
<1> QED
  BY <1>2 DEF ArmConnectConfirm, q

LEMMA StartModeReqMoving ==
    ASSUME NEW r, Legible(r), NEW wanted
    PROVE  Moving(StartModeReq(r, wanted))
<1> DEFINE q == [r EXCEPT !.pending_tx_mode = wanted, !.tx_retries_left = ModeReqRetries]
           p == SendModeNegotiation(q, "MODE_REQ", wanted)
<1>1. Legible(q)
  BY DEF Legible
<1> HIDE DEF q
<1>2. Legible(p) /\ p.txq # <<>>
  BY <1>1, SendModeNegotiationSends DEF Queues
<1> HIDE DEF p
<1>3. Moving(DflowEnter(p, "MODE_REQ_TX", "none"))
  BY <1>2, EnterMoving
<1> QED
  BY <1>3 DEF StartModeReq, p, q

LEMMA EnterIdleIssMoving ==
    ASSUME NEW r, Legible(r), NEW burst \in BurstSizes
    PROVE  Moving(EnterIdleIss(r, burst))
<1> DEFINE f == [r EXCEPT !.tx_retries_left = DataSlots]
<1>1. Legible(f) /\ f.backlog = r.backlog
  BY DEF Legible
<1> HIDE DEF f
<1>2. HasBacklog(r) => HasWork(f)
  BY <1>1 DEF HasBacklog, HasWork
<1> QED
  BY <1>1, <1>2, TransmitNowMoving, StartDisconnectMoving, EnterIdleIssMovingHere
  DEF EnterIdleIss, f

LEMMA EnterIdleIssGuardedMoving ==
    ASSUME NEW r, Legible(r), NEW wanted
    PROVE  Moving(EnterIdleIssGuarded(r, wanted))
<1> DEFINE f == [r EXCEPT !.tx_retries_left = DataSlots]
<1>1. Legible(f) /\ f.backlog = r.backlog
  BY DEF Legible
<1> HIDE DEF f
<1>2. HasBacklog(r) => HasWork(f)
  BY <1>1 DEF HasBacklog, HasWork
<1> QED
  BY <1>1, <1>2, StartModeReqMoving, TransmitGuardedMoving, StartDisconnectMoving,
     EnterIdleIssMovingHere
  DEF EnterIdleIssGuarded, f

LEMMA SendTurnReqMoving == ASSUME NEW r, Legible(r) PROVE Moving(SendTurnReq(r))
<1>1. LET q == SendCtrlFrame(r, "TURN_REQ") IN Legible(q) /\ q.txq # <<>>
  BY SendCtrlFrameSends DEF Queues
<1> QED
  BY <1>1, EnterMoving DEF SendTurnReq

LEMMA SendKeepaliveMoving == ASSUME NEW r, Legible(r) PROVE Moving(SendKeepalive(r))
<1>1. LET q == SendCtrlFrame(r, "KEEPALIVE") IN Legible(q) /\ q.txq # <<>>
  BY SendCtrlFrameSends DEF Queues
<1> QED
  BY <1>1, EnterMoving DEF SendKeepalive

LEMMA ReceiveDataMoving ==
    ASSUME NEW r, Legible(r), NEW f
    PROVE  Moving(ReceiveData(r, f))
<1> DEFINE d == DeliverRxChecked(r, f)
           q == [d EXCEPT !.peer_tx_mode = f.mode, !.peer_has_data = ~IsNew(r, f)]
<1>1. Legible(d)
  BY DEF DeliverRxChecked, Legible
<1> HIDE DEF d
<1>2. Legible(q)
  BY <1>1 DEF Legible
<1> HIDE DEF q
<1>3. Moving(DflowEnter(q, "DATA_RX", "TIMER_ACK"))
  BY <1>2, EnterMoving
<1> QED
  BY <1>3 DEF ReceiveData, q, d

LEMMA AfterKeepaliveMoving ==
    ASSUME NEW r, Legible(r), NEW from_irs, NEW wanted
    PROVE  Moving(AfterKeepalive(r, from_irs, wanted))
  BY EnterIdleIrsMoving, EnterIdleIssGuardedMoving DEF AfterKeepalive

LEMMA BecomeCalleeMoving ==
    ASSUME NEW r, Legible(r), NEW f
    PROVE  Moving(BecomeCallee(r, f))
<1> DEFINE q == EnterIdleIrs(StartSession(r, "CALLEE"))
<1>1. Moving(q) /\ Legible(q)
  BY StartSessionLegible, EnterIdleIrsMoving DEF Moving, MovingWith
<1> HIDE DEF q
<1> QED
  BY <1>1, ReceiveDataMoving DEF BecomeCallee, q

-----------------------------------------------------------------------------
(* Commands *)

LEMMA AppListenMoving ==
    ASSUME NEW r, NEW air, MovingWith(r, air)
    PROVE  MovingWith(AppListen(r), air)
<1>1. Legible(r)
  BY DEF MovingWith
<1>2. Moving(StartDisconnect(r)) /\ Moving(SessEnter(r, "LISTENING", "none"))
  BY <1>1, StartDisconnectMoving, AwayMoving
<1> QED
  BY <1>2, MovingIsEnough DEF AppListen

LEMMA AppStopListenMoving ==
    ASSUME NEW r, NEW air, MovingWith(r, air)
    PROVE  MovingWith(AppStopListen(r), air)
<1>1. Legible(r)
  BY DEF MovingWith
<1>2. Moving(StartDisconnect(r)) /\ Moving(SessEnter(r, "DISCONNECTED", "none"))
  BY <1>1, StartDisconnectMoving, AwayMoving
<1> QED
  BY <1>2, MovingIsEnough DEF AppStopListen

LEMMA StartCallMoving ==
    ASSUME NEW r, Legible(r), NEW sid
    PROVE  Moving(StartCall(r, sid))
<1> DEFINE q == [r EXCEPT !.session_id = sid, !.tx_retries_left = CallSlots,
                          !.pending_disconnect = "no",
                          !.payload_mode = SafeMode, !.peer_tx_mode = SafeMode]
           c == SendCtrlFrame(q, "CALL")
<1>1. Legible(q)
  BY DEF Legible
<1> HIDE DEF q
<1>2. Legible(c)
  BY <1>1, SendCtrlFrameSends DEF Queues
<1> HIDE DEF c
<1>3. Moving(SessEnter(c, "CALLING", "TIMER_RETRY"))
  BY <1>2, AwayMoving
<1> QED
  BY <1>3 DEF StartCall, q, c

LEMMA AppConnectMoving ==
    ASSUME NEW r, NEW air, MovingWith(r, air), NEW sid
    PROVE  MovingWith(AppConnect(r, sid), air)
<1> DEFINE idle == SessEnter(r, "DISCONNECTED", "none")
<1>1. Legible(r)
  BY DEF MovingWith
<1>2. Legible(idle) /\ Legible(NotifyCancelPending(idle))
  BY <1>1, SessEnterLegible, NotifyCancelPendingLegible
<1> HIDE DEF idle
<1>3. /\ Moving(StartCall(r, sid)) /\ Moving(StartCall(idle, sid))
      /\ Moving(StartCall(NotifyCancelPending(idle), sid))
      /\ Moving(StartDisconnect(r))
  BY <1>1, <1>2, StartCallMoving, StartDisconnectMoving
<1>4. CASE r.conn_state = "DISCONNECTED"
  BY <1>3, <1>4, MovingIsEnough DEF AppConnect
<1>5. CASE r.conn_state = "LISTENING"
  BY <1>3, <1>5, MovingIsEnough DEF AppConnect, idle
<1>6. CASE r.conn_state = "ACCEPTING"
  BY <1>3, <1>6, MovingIsEnough DEF AppConnect, idle
<1>7. CASE r.conn_state \notin {"DISCONNECTED", "LISTENING", "ACCEPTING"}
  BY <1>3, <1>7, MovingIsEnough DEF AppConnect
<1> QED
  BY <1>4, <1>5, <1>6, <1>7

LEMMA AppDisconnectMoving ==
    ASSUME NEW r, NEW air, MovingWith(r, air)
    PROVE  MovingWith(AppDisconnect(r), air)
<1>1. Legible(r)
  BY DEF MovingWith
<1>2. /\ Moving(EndCall(r)) /\ Moving(EndCall(NotifyCancelPending(r)))
      /\ Moving(StartDisconnect(r))
  BY <1>1, NotifyCancelPendingLegible, EndCallMoving, StartDisconnectMoving
<1> DEFINE q == [r EXCEPT !.pending_disconnect = "draining"]
<1>3. WorksLike(q, r)
  BY <1>1 DEF WorksLike, Legible
<1>4. MovingWith(q, air)
  BY <1>3, SameKeeps
<1> HIDE DEF q
<1>5. CASE r.conn_state = "CALLING"
  BY <1>2, <1>5, MovingIsEnough DEF AppDisconnect
<1>6. CASE r.conn_state = "ACCEPTING"
  BY <1>2, <1>6, MovingIsEnough DEF AppDisconnect
<1>7. CASE r.conn_state = "CONNECTED"
  BY <1>2, <1>4, <1>7, MovingIsEnough DEF AppDisconnect, q
<1>8. CASE r.conn_state \notin {"CALLING", "ACCEPTING", "CONNECTED"}
  BY <1>8 DEF AppDisconnect
<1> QED
  BY <1>5, <1>6, <1>7, <1>8

-----------------------------------------------------------------------------
(* Steps of a station.  Unless the step ends a transmission, what is on the *)
(* air stays there.                                                         *)

StepAdvances(s, air) == \E r : MovingWith(r, air) /\ Become(s, r)

LEMMA MovingStep ==
    ASSUME NEW s, NEW q, Moving(q), Become(s, q), NEW air
    PROVE  StepAdvances(s, air)
  BY MovingIsEnough DEF StepAdvances

LEMMA SameStep ==
    ASSUME NEW s, NEW air, MovingWith(st[s], air), NEW q, WorksLike(q, st[s]), Become(s, q)
    PROVE  StepAdvances(s, air)
  BY SameKeeps DEF StepAdvances

LEMMA CommandAdvances ==
    ASSUME NEW s \in Station, NEW air, MovingWith(st[s], air),
           NoAbort, Command(s)
    PROVE  StepAdvances(s, air)
<1>1. Legible(st[s]) /\ Working(st[s])
  BY DEF MovingWith
<1>2. CASE HostListen(s)
  <2>1. WorksLike([st[s] EXCEPT !.listen_enabled = TRUE], st[s])
    BY <1>1 DEF WorksLike, Legible
  <2> QED
    BY <1>2, <2>1, SameKeeps, AppListenMoving DEF HostListen, StepAdvances
<1>3. CASE HostStopListen(s)
  <2>1. WorksLike([st[s] EXCEPT !.listen_enabled = FALSE], st[s])
    BY <1>1 DEF WorksLike, Legible
  <2> QED
    BY <1>3, <2>1, SameKeeps, AppStopListenMoving DEF HostStopListen, StepAdvances
<1>4. CASE \E sid \in SessionIds : HostConnect(s, sid)
  BY <1>4, AppConnectMoving DEF HostConnect, StepAdvances
<1>5. CASE HostDisconnect(s)
  <2>1. WorksLike([st[s] EXCEPT !.host = "idle"], st[s])
    BY <1>1 DEF WorksLike, Legible
  <2> QED
    BY <1>5, <2>1, SameKeeps, AppDisconnectMoving DEF HostDisconnect, StepAdvances
<1>6. CASE HostClientGone(s)
  BY <1>6, AppDisconnectMoving DEF HostClientGone, StepAdvances
<1>7. CASE HostCq(s)
  <2>1. Moving(SendControl(st[s], PlainFrame("CQ", 0)))
    BY <1>1, SendControlSends, SentMoving
  <2> QED
    BY <1>7, <2>1, MovingStep DEF HostCq
<1> QED
  BY <1>2, <1>3, <1>4, <1>5, <1>6, <1>7 DEF Command, NoAbort

-----------------------------------------------------------------------------
(* Frames *)

LEMMA CallFrameAdvances ==
    ASSUME NEW s \in Station, NEW air, MovingWith(st[s], air), NEW f,
           \/ ListeningRxCall(s, f) \/ ListeningRxAccept(s, f)
           \/ ListeningRxTraffic(s, f)
           \/ AcceptingRxTraffic(s, f) \/ AcceptingRxCall(s, f)
           \/ \E wanted \in PayloadModes : CallingRxAccept(s, f, wanted)
    PROVE  StepAdvances(s, air)
<1>1. Legible(st[s]) /\ Working(st[s])
  BY DEF MovingWith
<1>2. CASE ListeningRxCall(s, f)
  <2> DEFINE q == [st[s] EXCEPT !.session_id = f.sid, !.tx_retries_left = AcceptSlots,
                                !.payload_mode = SafeMode, !.peer_tx_mode = SafeMode,
                                !.host = "pending"]
  <2>1. Legible(q)
    BY <1>1 DEF Legible
  <2> HIDE DEF q
  <2>2. Moving(SessEnter(q, "ACCEPTING", "TIMER_RETRY"))
    BY <2>1, AwayMoving
  <2> QED
    BY <1>2, <2>2, MovingStep DEF ListeningRxCall, q
<1>3. CASE ListeningRxAccept(s, f)
  <2>1. Moving(SendCtrlFrame(st[s], "DISCONNECT"))
    BY <1>1, SendCtrlFrameSends, SentMoving
  <2> QED
    BY <1>3, <2>1, MovingStep DEF ListeningRxAccept
<1>4. CASE ListeningRxTraffic(s, f)
  <2>1. Legible([st[s] EXCEPT !.pending_disconnect = "no"])
    BY <1>1 DEF Legible
  <2> QED
    BY <1>4, <2>1, BecomeCalleeMoving, MovingStep DEF ListeningRxTraffic
<1>5. CASE AcceptingRxTraffic(s, f)
  BY <1>1, <1>5, BecomeCalleeMoving, MovingStep DEF AcceptingRxTraffic
<1>6. CASE AcceptingRxCall(s, f)
  <2>1. WorksLike([st[s] EXCEPT !.tx_retries_left = AcceptSlots], st[s])
    BY <1>1 DEF WorksLike, Legible
  <2> QED
    BY <1>6, <2>1, SameStep DEF AcceptingRxCall
<1>7. ASSUME NEW wanted \in PayloadModes, CallingRxAccept(s, f, wanted)
      PROVE  StepAdvances(s, air)
  <2> DEFINE q == [st[s] EXCEPT !.pending_disconnect = "no",
                                !.pending_connect_confirm = FALSE,
                                !.need_initial_guard = HasBacklog(st[s])]
             up == StartSession(q, "CALLER")
  <2>1. Legible(q)
    BY <1>1 DEF Legible
  <2>2. Become(s, IF HasBacklog(st[s]) THEN EnterIdleIssGuarded(up, wanted)
                  ELSE ArmConnectConfirm(up))
    BY <1>7 DEF CallingRxAccept
  <2> HIDE DEF q
  <2>3. Legible(up)
    BY <2>1, StartSessionLegible
  <2> HIDE DEF up
  <2> QED
    BY <2>2, <2>3, EnterIdleIssGuardedMoving, ArmConnectConfirmMoving, MovingStep
<1> QED
  BY <1>2, <1>3, <1>4, <1>5, <1>6, <1>7

LEMMA ConnectedFrameAdvances ==
    ASSUME NEW s \in Station, NEW air, MovingWith(st[s], air), NEW f,
           \/ ConnectedRxAccept(s, f) \/ ConnectedRxDisconnect(s, f)
           \/ DisconnectingRxDisconnect(s, f) \/ ConnectedRxKeepalive(s, f)
           \/ RxTurnReq(s, f) \/ RxModeReq(s, f)
    PROVE  StepAdvances(s, air)
<1>1. Legible(st[s]) /\ Working(st[s])
  BY DEF MovingWith
<1>2. CASE ConnectedRxAccept(s, f)
  BY <1>1, <1>2, ArmConnectConfirmMoving, MovingStep DEF ConnectedRxAccept
<1>3. CASE ConnectedRxDisconnect(s, f)
  <2> DEFINE c == SendCtrlFrame(st[s], "DISCONNECT")
             q == [c EXCEPT !.pending_disconnect = "no", !.pending_disconnect_notify = TRUE]
  <2>1. Legible(c)
    BY <1>1, SendCtrlFrameSends DEF Queues
  <2> HIDE DEF c
  <2>2. Legible(q)
    BY <2>1 DEF Legible
  <2> HIDE DEF q
  <2>3. Moving(SessEnter(q, "DISCONNECTED", "none"))
    BY <2>2, AwayMoving
  <2> QED
    BY <1>3, <2>3, MovingStep DEF ConnectedRxDisconnect, q, c
<1>4. CASE DisconnectingRxDisconnect(s, f)
  BY <1>1, <1>4, EndCallMoving, MovingStep DEF DisconnectingRxDisconnect
<1>5. CASE ConnectedRxKeepalive(s, f)
  <2> DEFINE r == [st[s] EXCEPT !.keepalive_miss_count = 0]
             irs == r.dflow_state = "IDLE_IRS"
             q == [r EXCEPT !.keepalive_ack_from_irs = irs]
  <2>1. WorksLike(r, st[s])
    BY <1>1 DEF WorksLike, Legible
  <2>2. Become(s, IF r.dflow_state \in {"IDLE_ISS", "IDLE_IRS"}
                  THEN DflowEnter(q, "KEEPALIVE_ACK_TX", "TIMER_ACK")
                  ELSE SendCtrlFrame(r, "KEEPALIVE_ACK"))
    BY <1>5 DEF ConnectedRxKeepalive
  <2> HIDE DEF r, irs
  <2>3. Legible(r) /\ Working(r)
    BY <1>1, <2>1 DEF WorksLike, Working, HasWork
  <2>4. Legible(q)
    BY <2>3 DEF Legible
  <2> HIDE DEF q
  <2>5. Moving(DflowEnter(q, "KEEPALIVE_ACK_TX", "TIMER_ACK"))
    BY <2>4, EnterMoving
  <2>6. Moving(SendCtrlFrame(r, "KEEPALIVE_ACK"))
    BY <2>3, SendCtrlFrameSends, SentMoving
  <2> QED
    BY <2>2, <2>5, <2>6, MovingStep
<1>6. CASE RxTurnReq(s, f)
  <2>1. Moving(DflowEnter(st[s], "TURN_ACK_TX", "TIMER_ACK"))
    BY <1>1, EnterMoving
  <2> QED
    BY <1>6, <2>1, MovingStep DEF RxTurnReq
<1>7. CASE RxModeReq(s, f)
  <2> DEFINE r == IF st[s].dflow_state = "WAIT_ACK" THEN ImplicitAck(st[s]) ELSE st[s]
             q == [r EXCEPT !.peer_tx_mode = f.mode]
  <2>1. Legible(r)
    <3>1. <<>> \in Seq(Slot)
      OBVIOUS
    <3> QED
      BY <1>1, <3>1 DEF ImplicitAck, Legible
  <2>2. Become(s, DflowEnter(q, "MODE_ACK_TX", "TIMER_ACK"))
    BY <1>7 DEF RxModeReq
  <2> HIDE DEF r
  <2>3. Legible(q)
    BY <2>1 DEF Legible
  <2> HIDE DEF q
  <2>4. Moving(DflowEnter(q, "MODE_ACK_TX", "TIMER_ACK"))
    BY <2>3, EnterMoving
  <2> QED
    BY <2>2, <2>4, MovingStep
<1> QED
  BY <1>2, <1>3, <1>4, <1>5, <1>6, <1>7

LEMMA StreamFrameAdvances ==
    ASSUME NEW s \in Station, NEW air, MovingWith(st[s], air), Good(st[s]),
           NEW f, f.seq \in Nat, NEW burst \in BurstSizes, NEW wanted,
           \/ RxData(s, f) \/ WaitAckRxData(s, f, burst) \/ WaitAckRxAck(s, f, wanted)
    PROVE  StepAdvances(s, air)
<1>1. Legible(st[s]) /\ Working(st[s])
  BY DEF MovingWith
<1>2. CASE RxData(s, f)
  BY <1>1, <1>2, ReceiveDataMoving, MovingStep DEF RxData
<1>3. CASE WaitAckRxData(s, f, burst)
  <2> DEFINE q == [st[s] EXCEPT !.peer_tx_mode = f.mode]
  <2>1. Legible(ImplicitAck(st[s]))
    <3>1. <<>> \in Seq(Slot)
      OBVIOUS
    <3> QED
      BY <1>1, <3>1 DEF ImplicitAck, Legible
  <2>2. WorksLike(q, st[s])
    BY <1>1 DEF WorksLike, Legible
  <2>3. Become(s, IF IsNew(st[s], f) THEN ReceiveData(ImplicitAck(st[s]), f)
                  ELSE TransmitNow(q, burst))
    BY <1>3 DEF WaitAckRxData
  <2> HIDE DEF q
  <2>4. Legible(q) /\ HasWork(q)
    BY <1>1, <1>3, <2>2, SameKeeps DEF WaitAckRxData, InFlow, InConn, Working, WorksLike
  <2>5. Moving(ReceiveData(ImplicitAck(st[s]), f)) /\ Moving(TransmitNow(q, burst))
    BY <2>1, <2>4, ReceiveDataMoving, TransmitNowMoving
  <2> QED
    BY <2>3, <2>5, MovingStep
<1>4. CASE WaitAckRxAck(s, f, wanted)
  <2> DEFINE n == AckedCount(st[s].tx_window, f.seq)
             q == SlideWindow(st[s], n)
             slid == [q EXCEPT !.tx_retries_left = DataSlots, !.peer_has_data = f.has_data]
  <2>1. n \in 0 .. Len(st[s].tx_window)
    BY AckedCountBound
  <2>2. Become(s, IF slid.tx_window # <<>> THEN TransmitGuarded(slid)
                  ELSE IF f.has_data THEN EnterIdleIrs(slid)
                  ELSE EnterIdleIssGuarded(slid, wanted))
    BY <1>4 DEF WaitAckRxAck
  <2> HIDE DEF n
  <2>3. Legible(q)
    <3>1. SubSeq(st[s].tx_window, n + 1, Len(st[s].tx_window)) \in Seq(Slot)
      BY <1>1, <2>1 DEF Legible
    <3> QED
      BY <1>1, <3>1 DEF SlideWindow, Legible
  <2> HIDE DEF q
  <2>4. Legible(slid)
    BY <2>3 DEF Legible
  <2> HIDE DEF slid
  <2>5. slid.tx_window # <<>> => HasWork(slid)
    BY DEF HasWork
  <2>6. CASE slid.tx_window # <<>>
    BY <2>2, <2>4, <2>5, <2>6, TransmitGuardedMoving, MovingStep
  <2>7. CASE slid.tx_window = <<>>
    BY <2>2, <2>4, <2>7, EnterIdleIrsMoving, EnterIdleIssGuardedMoving, MovingStep
  <2> QED
    BY <2>6, <2>7
<1> QED
  BY <1>2, <1>3, <1>4

LEMMA AnswerFrameAdvances ==
    ASSUME NEW s \in Station, NEW air, MovingWith(st[s], air), NEW f, NEW wanted,
           \/ TurnReqRxTurnAck(s, f, wanted) \/ KeepaliveWaitRx(s, f, wanted)
           \/ ModeReqRxModeAck(s, f, wanted)
    PROVE  StepAdvances(s, air)
<1>1. Legible(st[s])
  BY DEF MovingWith
<1>2. CASE TurnReqRxTurnAck(s, f, wanted)
  BY <1>1, <1>2, EnterIdleIssGuardedMoving, MovingStep DEF TurnReqRxTurnAck
<1>3. CASE KeepaliveWaitRx(s, f, wanted)
  <2> DEFINE r == [st[s] EXCEPT !.keepalive_miss_count = 0]
             q == IF f.type = "KEEPALIVE" THEN SendCtrlFrame(r, "KEEPALIVE_ACK") ELSE r
  <2>1. Legible(r)
    BY <1>1 DEF Legible
  <2>2. Become(s, AfterKeepalive(q, r.keepalive_from_irs, wanted))
    BY <1>3 DEF KeepaliveWaitRx
  <2> HIDE DEF r
  <2>3. Legible(q)
    BY <2>1, SendCtrlFrameSends DEF Queues
  <2> HIDE DEF q
  <2> QED
    BY <2>2, <2>3, AfterKeepaliveMoving, MovingStep
<1>4. CASE ModeReqRxModeAck(s, f, wanted)
  <2>1. Legible([st[s] EXCEPT !.payload_mode = f.mode])
    BY <1>1 DEF Legible
  <2> QED
    BY <1>4, <2>1, EnterIdleIssGuardedMoving, MovingStep DEF ModeReqRxModeAck
<1> QED
  BY <1>2, <1>3, <1>4

LEMMA HandleFrameAdvances ==
    ASSUME NEW s \in Station, NEW air, MovingWith(st[s], air), Good(st[s]),
           NEW f, f.seq \in Nat, HandleFrame(s, f)
    PROVE  StepAdvances(s, air)
<1>1. 1 \in BurstSizes
  BY DEF BurstSizes
<1>2. ASSUME NEW burst \in BurstSizes, NEW wanted,
             \/ RxData(s, f) \/ WaitAckRxData(s, f, burst) \/ WaitAckRxAck(s, f, wanted)
      PROVE  StepAdvances(s, air)
  BY <1>2, StreamFrameAdvances
<1> QED
  BY <1>1, <1>2, CallFrameAdvances, ConnectedFrameAdvances, AnswerFrameAdvances DEF HandleFrame

LEMMA ForcedTeardownAdvances ==
    ASSUME NEW s \in Station, NEW air, Legible(st[s]), ForcedTeardown(s)
    PROVE  StepAdvances(s, air)
  BY StartDisconnectMoving, MovingStep DEF ForcedTeardown

-----------------------------------------------------------------------------
(* Timers *)

(* Firing keeps the data and the state, and forgets the deadline. *)
LEMMA FiredLegible ==
    ASSUME NEW s, Legible(st[s])
    PROVE  /\ Legible(Fired(s)) /\ Fired(s).txq = st[s].txq
           /\ Fired(s).conn_state = st[s].conn_state
           /\ Fired(s).dflow_state = st[s].dflow_state
           /\ HasWork(Fired(s)) <=> HasWork(st[s])
           /\ Working(st[s]) => Working(Fired(s))
  BY DEF Fired, Legible, HasWork, Working

LEMMA CallTimerAdvances ==
    ASSUME NEW s \in Station, NEW air, MovingWith(st[s], air),
           \/ CallingRetry(s) \/ AcceptingRetry(s)
           \/ DisconnectingGuardOver(s) \/ DisconnectingRetry(s)
    PROVE  StepAdvances(s, air)
<1> DEFINE less == [st[s] EXCEPT !.tx_retries_left = @ - 1]
<1>1. Legible(st[s]) /\ Legible(less) /\ Working(less)
  BY DEF MovingWith, Legible, Working, HasWork
<1> HIDE DEF less
<1>2. \A type : Moving(SendCtrlFrame(less, type))
  BY <1>1, SendCtrlFrameSends, SentMoving
<1>3. Moving(EndCall(st[s]))
  BY <1>1, EndCallMoving
<1>4. CASE CallingRetry(s)
  BY <1>2, <1>3, <1>4, MovingStep DEF CallingRetry, less
<1>5. CASE AcceptingRetry(s)
  <2>1. Moving(SessEnter(NotifyCancelPending(st[s]), "LISTENING", "none"))
    BY <1>1, NotifyCancelPendingLegible, AwayMoving
  <2> QED
    BY <1>2, <1>5, <2>1, MovingStep DEF AcceptingRetry, less
<1>6. CASE DisconnectingGuardOver(s)
  <2> DEFINE c == SendCtrlFrame(st[s], "DISCONNECT")
             q == [c EXCEPT !.deadline = "TIMER_RETRY"]
  <2>1. Legible(c) /\ c.conn_state = "DISCONNECTING"
    BY <1>1, <1>6, SendCtrlFrameSends DEF DisconnectingGuardOver, InConn, Queues
  <2> HIDE DEF c
  <2>2. Legible(q) /\ q.conn_state = "DISCONNECTING"
    BY <2>1 DEF Legible
  <2> HIDE DEF q
  <2>3. Moving(q)
    BY <2>2, Away
  <2> QED
    BY <1>6, <2>3, MovingStep DEF DisconnectingGuardOver, c, q
<1>7. CASE DisconnectingRetry(s)
  BY <1>2, <1>3, <1>7, MovingStep DEF DisconnectingRetry, less
<1> QED
  BY <1>4, <1>5, <1>6, <1>7

LEMMA StreamTimerAdvances ==
    ASSUME NEW s \in Station, NEW air, MovingWith(st[s], air),
           NEW burst \in BurstSizes, NEW wanted, NEW dead,
           \/ DataTxGuardOver(s, burst) \/ WaitAckRetransmit(s, burst)
           \/ WaitAckExhausted(s, dead, burst, wanted)
           \/ DataRxGuardOver(s) \/ AckTxConfirm(s)
    PROVE  StepAdvances(s, air)
<1>1. Legible(st[s]) /\ Working(st[s])
  BY DEF MovingWith
<1>2. CASE DataTxGuardOver(s, burst)
  <2>1. Legible(Fired(s)) /\ HasWork(Fired(s)) /\ Working(Fired(s))
    BY <1>1, <1>2, FiredLegible DEF DataTxGuardOver, InFlow, InConn, Working
  <2>2. Moving(SendDataBurst(Fired(s), burst))
    BY <2>1, SendDataBurstSends, SentMoving
  <2> QED
    BY <1>2, <2>2, MovingStep DEF DataTxGuardOver
<1>3. CASE WaitAckRetransmit(s, burst)
  <2> DEFINE left == IF st[s].pending_disconnect # "no" THEN 1 ELSE st[s].tx_retries_left
             q == [st[s] EXCEPT !.tx_retries_left = left - 1]
  <2>1. Become(s, TransmitNow(q, burst))
    BY <1>3 DEF WaitAckRetransmit
  <2> HIDE DEF left
  <2>2. WorksLike(q, st[s])
    BY <1>1 DEF WorksLike, Legible
  <2> HIDE DEF q
  <2>3. Legible(q) /\ HasWork(q)
    BY <1>1, <1>3, <2>2, SameKeeps DEF WaitAckRetransmit, InFlow, InConn, Working, WorksLike
  <2> QED
    BY <2>1, <2>3, TransmitNowMoving, MovingStep
<1>4. CASE WaitAckExhausted(s, dead, burst, wanted)
  <2> DEFINE again == [st[s] EXCEPT !.tx_retries_left = DataSlots]
             c == SendCtrlFrame(st[s], "DISCONNECT")
             bye == [c EXCEPT !.pending_disconnect = "no",
                              !.tx_retries_left = DisconnectSlots]
  <2>1. WorksLike(again, st[s])
    BY <1>1 DEF WorksLike, Legible
  <2>2. Become(s, IF dead \/ st[s].pending_disconnect # "no"
                  THEN SessEnter(bye, "DISCONNECTING", "TIMER_RETRY")
                  ELSE IF UpgradeStarts(again, wanted) THEN StartModeReq(again, wanted)
                  ELSE TransmitNow(again, burst))
    BY <1>4 DEF WaitAckExhausted
  <2>3. Legible(c)
    BY <1>1, SendCtrlFrameSends DEF Queues
  <2> HIDE DEF again, c
  <2>4. Legible(bye)
    BY <2>3 DEF Legible
  <2> HIDE DEF bye
  <2>5. Legible(again) /\ HasWork(again)
    BY <1>1, <1>4, <2>1, SameKeeps DEF WaitAckExhausted, InFlow, InConn, Working, WorksLike
  <2>6. /\ Moving(SessEnter(bye, "DISCONNECTING", "TIMER_RETRY"))
        /\ Moving(StartModeReq(again, wanted)) /\ Moving(TransmitNow(again, burst))
    BY <2>4, <2>5, AwayMoving, StartModeReqMoving, TransmitNowMoving
  <2> QED
    BY <2>2, <2>6, MovingStep
<1>5. CASE DataRxGuardOver(s)
  <2> DEFINE a == SendAck(st[s])
             q == [a EXCEPT !.acktx_had_has_data = HasBacklog(st[s])]
  <2>1. Legible(a) /\ a.txq # <<>>
    BY <1>1, SendAckSends DEF Queues
  <2> HIDE DEF a
  <2>2. Legible(q) /\ q.txq # <<>>
    BY <2>1 DEF Legible
  <2> HIDE DEF q
  <2>3. Moving(DflowEnter(q, "ACK_TX", "none"))
    BY <2>2, EnterMoving
  <2> QED
    BY <1>5, <2>3, MovingStep DEF DataRxGuardOver, q, a
<1>6. CASE AckTxConfirm(s)
  <2>1. Legible(SendAck(st[s])) /\ SendAck(st[s]).txq # <<>>
    BY <1>1, SendAckSends DEF Queues
  <2>2. Moving(DflowEnter(SendAck(st[s]), "ACK_TX", "none"))
    BY <2>1, EnterMoving
  <2> QED
    BY <1>6, <2>2, MovingStep DEF AckTxConfirm
<1> QED
  BY <1>2, <1>3, <1>4, <1>5, <1>6

LEMMA TurnTimerAdvances ==
    ASSUME NEW s \in Station, NEW air, MovingWith(st[s], air), NEW quiet,
           \/ IdleIrsPeerBacklog(s, quiet) \/ TurnReqRetry(s) \/ TurnAckGuardOver(s)
           \/ KeepaliveMiss(s) \/ KeepaliveAckGuardOver(s)
    PROVE  StepAdvances(s, air)
<1>1. Legible(st[s]) /\ Working(st[s])
  BY DEF MovingWith
<1>2. Legible(Fired(s)) /\ Working(Fired(s))
  BY <1>1, FiredLegible
<1>3. CASE IdleIrsPeerBacklog(s, quiet)
  <2>1. /\ Legible([Fired(s) EXCEPT !.keepalive_miss_count = 0, !.keepalive_from_irs = TRUE])
        /\ Legible([Fired(s) EXCEPT !.tx_retries_left = TurnReqRetries])
    BY <1>2 DEF Legible
  <2> QED
    BY <1>2, <1>3, <2>1, SendKeepaliveMoving, SendTurnReqMoving, EnterIdleIrsMoving,
       MovingStep
    DEF IdleIrsPeerBacklog
<1>4. CASE TurnReqRetry(s)
  <2>1. Legible([st[s] EXCEPT !.tx_retries_left = @ - 1])
    BY <1>1 DEF Legible
  <2> QED
    BY <1>1, <1>4, <2>1, SendTurnReqMoving, EnterIdleIrsMoving, MovingStep DEF TurnReqRetry
<1>5. CASE TurnAckGuardOver(s)
  <2>1. Moving(SendCtrlFrame(Fired(s), "TURN_ACK"))
    BY <1>2, SendCtrlFrameSends, SentMoving
  <2> QED
    BY <1>5, <2>1, MovingStep DEF TurnAckGuardOver
<1>6. CASE KeepaliveMiss(s)
  <2> DEFINE r == [st[s] EXCEPT !.keepalive_miss_count = @ + 1]
             c == SendCtrlFrame(r, "DISCONNECT")
             bye == [c EXCEPT !.tx_retries_left = DisconnectSlots]
  <2>1. Legible(r)
    BY <1>1 DEF Legible
  <2>2. Become(s, IF r.keepalive_miss_count >= KeepaliveMissLimit
                  THEN SessEnter(bye, "DISCONNECTING", "TIMER_RETRY")
                  ELSE SendKeepalive(r))
    BY <1>6 DEF KeepaliveMiss
  <2> HIDE DEF r
  <2>3. Legible(c)
    BY <2>1, SendCtrlFrameSends DEF Queues
  <2> HIDE DEF c
  <2>4. Legible(bye)
    BY <2>3 DEF Legible
  <2> HIDE DEF bye
  <2>5. Moving(SessEnter(bye, "DISCONNECTING", "TIMER_RETRY")) /\ Moving(SendKeepalive(r))
    BY <2>1, <2>4, AwayMoving, SendKeepaliveMoving
  <2> QED
    BY <2>2, <2>5, MovingStep
<1>7. CASE KeepaliveAckGuardOver(s)
  <2>1. Moving(SendCtrlFrame(Fired(s), "KEEPALIVE_ACK"))
    BY <1>2, SendCtrlFrameSends, SentMoving
  <2> QED
    BY <1>7, <2>1, MovingStep DEF KeepaliveAckGuardOver
<1> QED
  BY <1>3, <1>4, <1>5, <1>6, <1>7

(* TimerUnhandled forgets a deadline; but the transmission that the state    *)
(* waits for is still to come.                                               *)
LEMMA ModeTimerAdvances ==
    ASSUME NEW s \in Station, NEW air, MovingWith(st[s], air),
           ModeAckGuardOver(s) \/ ModeReqRetry(s) \/ TimerUnhandled(s)
    PROVE  StepAdvances(s, air)
<1>1. Legible(st[s]) /\ Working(st[s])
  BY DEF MovingWith
<1>2. Legible(Fired(s)) /\ Working(Fired(s))
  BY <1>1, FiredLegible
<1>3. CASE ModeAckGuardOver(s)
  <2>1. Moving(SendModeNegotiation(Fired(s), "MODE_ACK", st[s].peer_tx_mode))
    BY <1>2, SendModeNegotiationSends, SentMoving
  <2> QED
    BY <1>3, <2>1, MovingStep DEF ModeAckGuardOver
<1>4. CASE ModeReqRetry(s)
  <2> DEFINE less == [st[s] EXCEPT !.tx_retries_left = @ - 1]
             none == [st[s] EXCEPT !.pending_tx_mode = "none"]
             q == IF st[s].tx_retries_left > 0
                  THEN SendModeNegotiation(less, "MODE_REQ", st[s].pending_tx_mode)
                  ELSE SendModeNegotiation(none, "MODE_REQ", st[s].payload_mode)
  <2>1. Legible(less) /\ Legible(none)
    BY <1>1 DEF Legible
  <2> HIDE DEF less, none
  <2>2. Legible(q) /\ q.txq # <<>>
    BY <2>1, SendModeNegotiationSends DEF Queues
  <2>3. Become(s, DflowEnter(q, "MODE_REQ_TX", "none"))
    BY <1>4 DEF ModeReqRetry, less, none
  <2> HIDE DEF q
  <2>4. Moving(DflowEnter(q, "MODE_REQ_TX", "none"))
    BY <2>2, EnterMoving
  <2> QED
    BY <2>3, <2>4, MovingStep
<1>5. CASE TimerUnhandled(s)
  <2>1. Due(st[s])
    BY <1>5 DEF TimerUnhandled, InConn, Due
  <2>2. MovingWith(Fired(s), air)
    BY <1>1, <1>2, <2>1, FiredLegible DEF MovingWith
  <2> QED
    BY <1>5, <2>2 DEF TimerUnhandled, StepAdvances
<1> QED
  BY <1>3, <1>4, <1>5

LEMMA OnTimerAdvances ==
    ASSUME NEW s \in Station, NEW air, MovingWith(st[s], air), OnTimer(s)
    PROVE  StepAdvances(s, air)
<1>1. CASE HandleTimer(s)
  <2>1. ASSUME NEW burst \in BurstSizes, NEW wanted, NEW dead,
               \/ DataTxGuardOver(s, burst) \/ WaitAckRetransmit(s, burst)
               \/ WaitAckExhausted(s, dead, burst, wanted)
        PROVE  StepAdvances(s, air)
    BY <2>1, StreamTimerAdvances
  <2>2. ASSUME DataRxGuardOver(s) \/ AckTxConfirm(s)
        PROVE  StepAdvances(s, air)
    <3>1. 1 \in BurstSizes
      BY DEF BurstSizes
    <3> QED
      BY <2>2, <3>1, StreamTimerAdvances
  <2> QED
    BY <1>1, <2>1, <2>2, CallTimerAdvances, TurnTimerAdvances, ModeTimerAdvances DEF HandleTimer
<1>2. CASE ForcedTeardown(s)
  BY <1>2, ForcedTeardownAdvances DEF MovingWith
<1> QED
  BY <1>1, <1>2 DEF OnTimer

-----------------------------------------------------------------------------
(* TX_COMPLETE: nothing is on the air any more *)

LEMMA OnTxCompleteAdvances ==
    ASSUME NEW s \in Station, NEW air, MovingWith(st[s], air), DeadlineOf(st[s]),
           OnTxComplete(s)
    PROVE  StepAdvances(s, <<>>) \/ (Moving(st[s]) /\ UNCHANGED st)
<1>0. Legible(st[s]) /\ Working(st[s])
  BY DEF MovingWith
<1>1. CASE ForcedTeardown(s)
  BY <1>0, <1>1, ForcedTeardownAdvances
<1>2. CASE DisconnectedTxComplete(s)
  <2>1. Legible([st[s] EXCEPT !.pending_disconnect_notify = FALSE])
    BY <1>0 DEF Legible
  <2> QED
    BY <1>2, <2>1, EndCallMoving, MovingStep DEF DisconnectedTxComplete
<1>3. CASE AcceptingTxComplete(s)
  <2> DEFINE q == [st[s] EXCEPT !.deadline = "TIMER_RETRY"]
  <2>1. Legible(q) /\ q.conn_state = "ACCEPTING"
    BY <1>0, <1>3 DEF AcceptingTxComplete, InConn, Legible
  <2> HIDE DEF q
  <2> QED
    BY <1>3, <2>1, Away, MovingStep DEF AcceptingTxComplete, q
<1>4. CASE DataTxComplete(s)
  <2>1. HasWork(st[s])
    BY <1>0, <1>4 DEF DataTxComplete, InFlow, InConn, Working
  <2>2. Moving(DflowEnter(st[s], "WAIT_ACK", "TIMER_ACK"))
    BY <1>0, <2>1, EnterMoving
  <2> QED
    BY <1>4, <2>2, MovingStep DEF DataTxComplete
<1>5. CASE TurnReqTxComplete(s)
  <2>1. Moving(DflowEnter(st[s], "TURN_REQ_WAIT", "TIMER_RETRY"))
    BY <1>0, EnterMoving
  <2> QED
    BY <1>5, <2>1, MovingStep DEF TurnReqTxComplete
<1>6. CASE GaveTurnTxComplete(s)
  BY <1>0, <1>6, EnterIdleIrsMoving, MovingStep DEF GaveTurnTxComplete
<1>7. CASE KeepaliveTxComplete(s)
  <2>1. Moving(DflowEnter(st[s], "KEEPALIVE_WAIT", "TIMER_RETRY"))
    BY <1>0, EnterMoving
  <2> QED
    BY <1>7, <2>1, MovingStep DEF KeepaliveTxComplete
<1>8. ASSUME NEW burst \in BurstSizes, ModeReqTxComplete(s, burst)
      PROVE  StepAdvances(s, <<>>)
  <2> DEFINE r == [st[s] EXCEPT !.tx_retries_left = DataSlots]
  <2>1. Legible(r)
    BY <1>0 DEF Legible
  <2>2. Become(s, IF st[s].pending_tx_mode # "none"
                  THEN DflowEnter(st[s], "MODE_REQ_WAIT", "TIMER_RETRY")
                  ELSE IF HasBacklog(r) THEN TransmitGuarded(r)
                  ELSE EnterIdleIss(r, burst))
    BY <1>8 DEF ModeReqTxComplete
  <2> HIDE DEF r
  <2>3. HasBacklog(r) => Moving(TransmitGuarded(r))
    BY <2>1, TransmitGuardedMoving DEF HasBacklog, HasWork
  <2>4. Moving(DflowEnter(st[s], "MODE_REQ_WAIT", "TIMER_RETRY"))
    BY <1>0, EnterMoving
  <2>5. Moving(EnterIdleIss(r, burst))
    BY <2>1, EnterIdleIssMoving
  <2> QED
    BY <2>2, <2>3, <2>4, <2>5, MovingStep
<1>9. ASSUME NEW wanted \in PayloadModes, KeepaliveAckTxComplete(s, wanted)
      PROVE  StepAdvances(s, <<>>)
  BY <1>0, <1>9, AfterKeepaliveMoving, MovingStep DEF KeepaliveAckTxComplete
<1>10. ASSUME NEW burst \in BurstSizes, NEW wanted \in PayloadModes,
              AckTxComplete(s, burst, wanted)
       PROVE  StepAdvances(s, <<>>)
  <2> DEFINE r == [st[s] EXCEPT !.pending_connect_confirm = FALSE]
  <2>1. Legible(r)
    BY <1>0 DEF Legible
  <2>2. Become(s, IF st[s].pending_connect_confirm
                  THEN IF HasBacklog(r) THEN EnterIdleIssGuarded(r, wanted)
                       ELSE EnterIdleIss(r, burst)
                  ELSE IF ~r.peer_has_data /\ r.acktx_had_has_data
                  THEN EnterIdleIssGuarded(r, wanted)
                  ELSE EnterIdleIrs(r))
    BY <1>10 DEF AckTxComplete
  <2> HIDE DEF r
  <2> QED
    BY <2>1, <2>2, EnterIdleIssGuardedMoving, EnterIdleIssMoving, EnterIdleIrsMoving,
       MovingStep
<1>11. CASE TxCompleteIgnored(s)
  <2>1. ~Due(st[s])
    BY <1>11 DEF TxCompleteIgnored, InConn, Due, DeadlineOf
  <2> QED
    BY <1>0, <1>11, <2>1 DEF TxCompleteIgnored, Moving, MovingWith
<1> QED
  BY <1>1, <1>2, <1>3, <1>4, <1>5, <1>6, <1>7, <1>8, <1>9, <1>10, <1>11
  DEF OnTxComplete, HandleTxComplete

-----------------------------------------------------------------------------
(* The application's data, the drain deadline and the transmitter *)

LEMMA OnDataReadyAdvances ==
    ASSUME NEW s \in Station, NEW air, MovingWith(st[s], air), OnDataReady(s)
    PROVE  StepAdvances(s, air)
<1> DEFINE r == [st[s] EXCEPT !.data_ready = @ - 1]
<1>1. Legible(st[s]) /\ WorksLike(r, st[s])
  BY DEF MovingWith, WorksLike, Legible
<1>2. Legible(r)
  BY <1>1 DEF WorksLike
<1>3. CASE Become(s, StartDisconnect(r))
  BY <1>2, <1>3, StartDisconnectMoving, MovingStep
<1>4. ASSUME NEW burst \in BurstSizes, IdleIssDataReady(s, burst)
      PROVE  StepAdvances(s, air)
  <2> DEFINE q == [r EXCEPT !.need_initial_guard = FALSE]
  <2>1. Become(s, IF r.need_initial_guard THEN TransmitGuarded(q) ELSE TransmitNow(r, burst))
    BY <1>4 DEF IdleIssDataReady
  <2>2. HasWork(r)
    BY <1>1, <1>4, SameKeeps DEF IdleIssDataReady, HasBacklog, HasWork
  <2> HIDE DEF r
  <2>3. Legible(q) /\ HasWork(q)
    BY <1>2, <2>2 DEF Legible, HasWork
  <2> HIDE DEF q
  <2> QED
    BY <1>2, <2>1, <2>2, <2>3, TransmitGuardedMoving, TransmitNowMoving, MovingStep
<1>5. CASE IdleIrsDataReady(s)
  <2> DEFINE q == [r EXCEPT !.tx_retries_left = TurnReqRetries]
  <2>1. Become(s, SendTurnReq(q))
    BY <1>5 DEF IdleIrsDataReady
  <2> HIDE DEF r
  <2>2. Legible(q)
    BY <1>2 DEF Legible
  <2> HIDE DEF q
  <2> QED
    BY <2>1, <2>2, SendTurnReqMoving, MovingStep
<1>6. CASE DataReadyIgnored(s)
  BY <1>1, <1>6, SameStep DEF DataReadyIgnored
<1> QED
  BY <1>3, <1>4, <1>5, <1>6 DEF OnDataReady, HandleDataReady

LEMMA HostWriteAdvances ==
    ASSUME NEW s \in Station, NEW air, MovingWith(st[s], air), st[s] \in Session,
           HostWrite(s)
    PROVE  StepAdvances(s, air)
<1> DEFINE b == Append(st[s].backlog, st[s].written + 1)
           q == [st[s] EXCEPT !.written = @ + 1, !.backlog = b, !.data_ready = @ + 1]
<1>1. b \in Seq(Nat) /\ b # <<>>
  <2>1. st[s].backlog \in Seq(Nat) /\ st[s].written \in Nat
    BY DEF Session
  <2>2. b \in Seq(Nat) /\ Len(b) = Len(st[s].backlog) + 1 /\ Len(st[s].backlog) \in Nat
    BY <2>1
  <2> QED
    BY <2>2
<1>2. Become(s, q)
  BY DEF HostWrite
<1> HIDE DEF b
<1>3. /\ Legible(q) /\ q.backlog = b /\ q.txq = st[s].txq
      /\ q.conn_state = st[s].conn_state /\ q.dflow_state = st[s].dflow_state
      /\ q.deadline = st[s].deadline
  BY <1>1 DEF MovingWith, Legible
<1> HIDE DEF q
<1>4. MovingWith(q, air)
  BY <1>1, <1>3 DEF MovingWith, Working, HasWork, Due
<1> QED
  BY <1>2, <1>4 DEF StepAdvances

LEMMA DrainDeadlinePassesAdvances ==
    ASSUME NEW s \in Station, NEW air, MovingWith(st[s], air), DrainDeadlinePasses(s)
    PROVE  StepAdvances(s, air)
<1>1. WorksLike([st[s] EXCEPT !.pending_disconnect = "overdue"], st[s])
  BY DEF MovingWith, WorksLike, Legible
<1> QED
  BY <1>1, SameStep DEF DrainDeadlinePasses

(* A burst that is taken from the queue is on the air, and is not empty. *)
LEMMA TxStartAdvances ==
    ASSUME NEW s \in Station, NEW air, MovingWith(st[s], air),
           st[s].txq \in Seq(Burst), s \in DOMAIN onair, TxStart(s)
    PROVE  StepAdvances(s, onair'[s])
<1> DEFINE k == NextAction(st[s].txq)
<1>1. PICK mode :
         /\ st[s].txq # <<>>
         /\ onair' = [onair EXCEPT ![s] = st[s].txq[k].frames]
         /\ LET r == [st[s] EXCEPT !.txq = RemoveAt(@, k), !.payload_mode = mode]
            IN  Become(s, IF Overdue(r) THEN StartDisconnect(r) ELSE r)
  BY DEF TxStart
<1>2. k \in 1 .. Len(st[s].txq)
  BY <1>1, NextActionInQueue
<1> HIDE DEF k
<1> DEFINE rest == RemoveAt(st[s].txq, k)
           r == [st[s] EXCEPT !.txq = rest, !.payload_mode = mode]
<1>3. Queue(rest) /\ st[s].txq[k].frames # <<>>
  BY <1>2, RemoveAtQueue DEF MovingWith, Legible
<1>4. onair'[s] # <<>>
  BY <1>1, <1>3
<1>5. Become(s, IF Overdue(r) THEN StartDisconnect(r) ELSE r)
  BY <1>1
<1> HIDE DEF rest
<1>6. Legible(r) /\ Working(r)
  BY <1>3 DEF MovingWith, Legible, Working, HasWork
<1> HIDE DEF r
<1>7. MovingWith(r, onair'[s])
  BY <1>4, <1>6 DEF MovingWith
<1>8. Moving(StartDisconnect(r))
  BY <1>6, StartDisconnectMoving
<1> QED
  BY <1>5, <1>7, <1>8, MovingIsEnough DEF StepAdvances

-----------------------------------------------------------------------------
(* The inductive invariant: with IInv, which types the queues, and StateInv, *)
(* by which a station that ignores a TX_COMPLETE was not waiting for it.     *)

ProgressInv == \A s \in Station : MovingWith(st[s], onair[s])

LEMMA ProgressInit == Init => ProgressInv
<1> SUFFICES ASSUME Init, NEW s \in Station PROVE MovingWith(st[s], onair[s])
  BY DEF ProgressInv
<1>1. st[s] = InitSession
  BY DEF Init
<1>2. <<>> \in Seq(Nat) /\ <<>> \in Seq(Slot)
  OBVIOUS
<1>3. Legible(InitSession)
  BY <1>2, EmptyQueue DEF Legible, InitSession
<1>4. InitSession.conn_state # "CONNECTED"
  BY DEF InitSession
<1> QED
  BY <1>1, <1>3, <1>4, Away, MovingIsEnough

LEMMA ProgressNext ==
    NoAbort /\ IInv /\ StateInv /\ ProgressInv /\ [OpenNext]_vars => ProgressInv'
<1> SUFFICES ASSUME NoAbort, IInv, StateInv, ProgressInv, [OpenNext]_vars PROVE ProgressInv'
  OBVIOUS
<1>1. /\ st \in [Station -> Session] /\ onair \in [Station -> Seq(Frame)]
      /\ \A s \in Station : Good(st[s]) /\ DeadlineOf(st[s]) /\ MovingWith(st[s], onair[s])
  BY DEF IInv, TypeOK, WindowIsTail, Good, StateInv, DeadlineFitsState, ProgressInv
<1>2. ASSUME NEW s \in Station, StepAdvances(s, onair[s]), UNCHANGED onair
      PROVE  ProgressInv'
  <2>1. PICK r : MovingWith(r, onair[s]) /\ st' = [st EXCEPT ![s] = r]
    BY <1>2 DEF StepAdvances, Become
  <2>2. \A t \in Station : st'[t] = IF t = s THEN r ELSE st[t]
    BY <1>1, <2>1
  <2> QED
    BY <1>1, <1>2, <2>1, <2>2 DEF ProgressInv
<1>3. ASSUME NEW s \in Station, NEW air, onair' = [onair EXCEPT ![s] = air],
             StepAdvances(s, air) \/ (MovingWith(st[s], air) /\ UNCHANGED st)
      PROVE  ProgressInv'
  <2>1. PICK r : MovingWith(r, air) /\ (st' = [st EXCEPT ![s] = r] \/ (r = st[s] /\ st' = st))
    BY <1>3 DEF StepAdvances, Become
  <2>2. \A t \in Station : /\ st'[t] = IF t = s THEN r ELSE st[t]
                           /\ onair'[t] = IF t = s THEN air ELSE onair[t]
    BY <1>1, <1>3, <2>1
  <2> QED
    BY <1>1, <2>1, <2>2 DEF ProgressInv
<1>4. CASE UNCHANGED vars
  BY <1>1, <1>4 DEF vars, ProgressInv
<1>5. ASSUME NEW s \in Station, HostCommand(s) PROVE ProgressInv'
  BY <1>1, <1>2, <1>5, CommandAdvances DEF HostCommand
<1>6. ASSUME NEW s \in Station, HostData(s) PROVE ProgressInv'
  BY <1>1, <1>2, <1>6, HostWriteAdvances DEF HostData
<1>7. ASSUME NEW s \in Station, Timer(s) PROVE ProgressInv'
  BY <1>1, <1>2, <1>7, OnTimerAdvances DEF Timer
<1>8. ASSUME NEW s \in Station, DataReady(s) PROVE ProgressInv'
  BY <1>1, <1>2, <1>8, OnDataReadyAdvances DEF DataReady
<1>9. ASSUME NEW s \in Station, DrainOver(s) PROVE ProgressInv'
  BY <1>1, <1>2, <1>9, DrainDeadlinePassesAdvances DEF DrainOver
<1>10. ASSUME NEW s \in Station, TxEnd(s) PROVE ProgressInv'
  <2>1. onair' = [onair EXCEPT ![s] = <<>>] /\ OnTxComplete(s)
    BY <1>10 DEF TxEnd
  <2>2. StepAdvances(s, <<>>) \/ (Moving(st[s]) /\ UNCHANGED st)
    BY <1>1, <2>1, OnTxCompleteAdvances
  <2> QED
    BY <1>3, <2>1, <2>2 DEF Moving
<1>11. ASSUME NEW s \in Station, TxStart(s) PROVE ProgressInv'
  <2>1. PICK air : onair' = [onair EXCEPT ![s] = air]
    BY <1>11 DEF TxStart
  <2>2. st[s].txq \in Seq(Burst) /\ s \in DOMAIN onair
    BY <1>1 DEF Session
  <2>3. StepAdvances(s, onair'[s])
    BY <1>1, <1>11, <2>2, TxStartAdvances
  <2>4. onair'[s] = air
    BY <1>1, <2>1
  <2> QED
    BY <1>3, <2>1, <2>3, <2>4
<1>12. ASSUME NEW s \in Station, Hears(s) PROVE ProgressInv'
  <2>1. PICK f \in Frame : (ForcedTeardown(s) \/ HandleFrame(s, f)) /\ UNCHANGED onair
    BY <1>12 DEF Hears, OnFrame
  <2>2. f.seq \in Nat
    BY WindowAssumption DEF Frame
  <2>3. StepAdvances(s, onair[s])
    BY <1>1, <2>1, <2>2, ForcedTeardownAdvances, HandleFrameAdvances DEF MovingWith
  <2> QED
    BY <1>2, <2>1, <2>3
<1> QED
  BY <1>4, <1>5, <1>6, <1>7, <1>8, <1>9, <1>10, <1>11, <1>12 DEF OpenNext, Local

LEMMA OpenStationsMove == NoAbort => (OpenSpec => []NeverStranded)
<1>1. ProgressInv => NeverStranded
  BY DEF ProgressInv, NeverStranded, InConn, MovingWith, Due
<1> SUFFICES ASSUME NoAbort PROVE OpenSpec => []NeverStranded
  OBVIOUS
<1>2. IInv /\ StateInv /\ ProgressInv /\ [OpenNext]_vars => ProgressInv'
  BY ProgressNext
<1> QED
  BY <1>1, <1>2, ProgressInit, Inductive, StateInductive, PTL DEF OpenSpec

(* A connected station always has something to wait for that will happen: a  *)
(* deadline, or the end of a transmission that is queued or on the air.  No  *)
(* order of frames, timers and completed transmissions strands it in a state *)
(* that waits for the TX_COMPLETE of a frame that was never queued, if its   *)
(* host does not ABORT.                                                      *)
THEOREM StationsMove == NoAbort => (Spec => []NeverStranded)
  BY OpenStationsMove, SpecIsOpen, PTL

=============================================================================

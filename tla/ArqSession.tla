----------------------------- MODULE ArqSession -----------------------------
(***************************************************************************)
(* The ARQ session of one station and the helpers of                       *)
(* datalink_arq/arq_fsm.c, as operators from a session record to a         *)
(* session record.  A helper does everything the C function does to the    *)
(* state: queues frames for the modem, reads the application's TX ring,    *)
(* arms or disarms the one deadline, tells the host.                       *)
(*                                                                         *)
(* Abstractions, the same in every module that uses this one:              *)
(*  - time: deadline_ms/deadline_event become `deadline', the event that   *)
(*    will fire ("none" when deadline_ms is UINT64_MAX); a comparison with *)
(*    the clock that no property distinguishes is a choice;                *)
(*  - pending_disconnect and disconnect_deadline_ms are one field: "overdue" *)
(*    once the drain deadline has passed;                                  *)
(*  - tx_seq and rx_expected are kept unwrapped.  They are uint8_t in the  *)
(*    code: whatever leaves the station, and every comparison with what    *)
(*    arrives, is taken modulo SeqSpace (256 in the code);                   *)
(*  - the bytes of a frame are one unit, the number of the piece of the    *)
(*    application's stream they carry; txlog and rxlog are history: the    *)
(*    units read from the application, and handed to it, since the session *)
(*    was established;                                                     *)
(*  - SNR, the speed ladder and OLLA only decide which payload mode is     *)
(*    wanted: the wanted mode is a parameter.                              *)
(*                                                                         *)
(* A definition whose comment begins "Wrong:" is a mutated form of the one *)
(* below it.  No action uses it: the properties that catch it are tested   *)
(* with it.                                                                *)
(***************************************************************************)
EXTENDS Integers, Sequences

CONSTANTS
    PayloadModes,       \* FreeDV payload modes of arq_mode_table
    SafeMode,           \* FREEDV_MODE_DATAC15, where every session starts
    BroadcastMode,      \* initial_payload_mode, the startup decoder mode
    SessionIds,         \* what a caller's clock may give as session_id
    SeqSpace,             \* 256: tx_seq and rx_expected are uint8_t
    BurstFrames,        \* burst_frames of the mode table, <= ARQ_BURST_MAX
    CallSlots,          \* ARQ_CALL_RETRY_SLOTS
    AcceptSlots,        \* ARQ_ACCEPT_RETRY_SLOTS
    DataSlots,          \* ARQ_DATA_RETRY_SLOTS
    DisconnectSlots,    \* ARQ_DISCONNECT_RETRY_SLOTS
    TurnReqRetries,     \* ARQ_TURN_REQ_RETRIES
    ModeReqRetries,     \* ARQ_MODE_REQ_RETRIES
    KeepaliveMissLimit  \* ARQ_KEEPALIVE_MISS_LIMIT

ASSUME ModeAssumption ==
    /\ SafeMode \in PayloadModes
    /\ BroadcastMode \in PayloadModes
    /\ "none" \notin PayloadModes

\* A full window must stay distinguishable after the wrap: 5 < 256.
ASSUME WindowAssumption ==
    /\ BurstFrames \in Nat \ {0}
    /\ SeqSpace \in Nat
    /\ BurstFrames < SeqSpace

\* 0 is "no session" in arq_fsm_dispatch; a caller always sets the low bit.
ASSUME SessionIdAssumption == SessionIds \subseteq Nat \ {0} /\ SessionIds # {}

ASSUME SlotAssumption ==
    /\ CallSlots \in Nat /\ AcceptSlots \in Nat /\ DataSlots \in Nat \ {0}
    /\ DisconnectSlots \in Nat /\ TurnReqRetries \in Nat /\ ModeReqRetries \in Nat
    /\ KeepaliveMissLimit \in Nat \ {0}

-----------------------------------------------------------------------------
(* Types *)

ConnStates == {"DISCONNECTED", "LISTENING", "CALLING",
               "ACCEPTING", "CONNECTED", "DISCONNECTING"}

DflowStates == {"IDLE_ISS", "DATA_TX", "WAIT_ACK", "IDLE_IRS", "DATA_RX", "ACK_TX",
                "TURN_REQ_TX", "TURN_REQ_WAIT", "TURN_ACK_TX",
                "MODE_REQ_TX", "MODE_REQ_WAIT", "MODE_ACK_TX",
                "KEEPALIVE_TX", "KEEPALIVE_WAIT", "KEEPALIVE_ACK_TX"}

TimerEvents == {"TIMER_RETRY", "TIMER_ACK", "TIMER_PEER_BACKLOG"}

FrameTypes == {"CALL", "ACCEPT", "CQ", "DATA", "ACK", "DISCONNECT",
               "TURN_REQ", "TURN_ACK", "KEEPALIVE", "KEEPALIVE_ACK",
               "MODE_REQ", "MODE_ACK"}

\* seq: tx_seq of DATA, rx_ack_seq of ACK.  has_data: ARQ_FLAG_HAS_DATA.
\* mode: the mode of the slot a DATA frame is sent in; the mode a MODE_REQ or
\* MODE_ACK names.  unit: what a DATA frame carries.
Frame == [type : FrameTypes, sid : Nat, seq : 0 .. SeqSpace - 1,
          has_data : BOOLEAN, mode : PayloadModes \cup {"none"}, unit : Nat]

\* One modem action: the frames of one PTT burst, DATA unless it is control.
Burst == {b \in [control : BOOLEAN, frames : Seq(Frame)] :
             b.control \/ (b.frames # <<>> /\ b.frames[1].mode \in PayloadModes)}

Slot == [seq : Nat, unit : Nat]

Session ==
    [conn_state : ConnStates, dflow_state : DflowStates,
     role : {"NONE", "CALLER", "CALLEE"}, session_id : Nat,
     tx_seq : Nat, rx_expected : Nat,
     payload_mode : PayloadModes, peer_tx_mode : PayloadModes,
     pending_tx_mode : PayloadModes \cup {"none"},
     tx_retries_left : Nat, tx_window : Seq(Slot),
     peer_has_data : BOOLEAN, acktx_had_has_data : BOOLEAN,
     listen_enabled : BOOLEAN,
     pending_disconnect : {"no", "draining", "overdue"},
     pending_disconnect_notify : BOOLEAN,
     pending_connect_confirm : BOOLEAN, need_initial_guard : BOOLEAN,
     keepalive_miss_count : Nat,
     keepalive_from_irs : BOOLEAN, keepalive_ack_from_irs : BOOLEAN,
     deadline : TimerEvents \cup {"none"},
     backlog : Seq(Nat),                          \* g_app_tx_buf
     data_ready : Nat,                            \* APP_DATA_READY not yet dispatched
     txq : Seq(Burst),                            \* modem actions and their ring bytes
     host : {"idle", "pending", "connected"},     \* what the TNC was last told
     txlog : Seq(Nat), rxlog : Seq(Nat),
     written : Nat]                               \* units the application wrote, ever

\* arq_fsm_init, then arq_init: the decoder starts in the broadcast mode.
InitSession ==
    [conn_state |-> "DISCONNECTED", dflow_state |-> "IDLE_ISS",
     role |-> "NONE", session_id |-> 0, tx_seq |-> 0, rx_expected |-> 0,
     payload_mode |-> SafeMode, peer_tx_mode |-> BroadcastMode,
     pending_tx_mode |-> "none", tx_retries_left |-> 0, tx_window |-> <<>>,
     peer_has_data |-> FALSE, acktx_had_has_data |-> FALSE,
     listen_enabled |-> FALSE,
     pending_disconnect |-> "no", pending_disconnect_notify |-> FALSE,
     pending_connect_confirm |-> FALSE, need_initial_guard |-> FALSE,
     keepalive_miss_count |-> 0,
     keepalive_from_irs |-> FALSE, keepalive_ack_from_irs |-> FALSE,
     deadline |-> "none",
     backlog |-> <<>>, data_ready |-> 0, txq |-> <<>>, host |-> "idle",
     txlog |-> <<>>, rxlog |-> <<>>, written |-> 0]

-----------------------------------------------------------------------------
(* Frames, and what a station sends *)

PlainFrame(type, sid) ==
    [type |-> type, sid |-> sid, seq |-> 0, has_data |-> FALSE,
     mode |-> "none", unit |-> 0]

DataFrame(sid, seq, mode, unit) ==
    [PlainFrame("DATA", sid) EXCEPT !.seq = seq, !.mode = mode, !.unit = unit]

AckFrame(sid, seq, has_data) ==
    [PlainFrame("ACK", sid) EXCEPT !.seq = seq, !.has_data = has_data]

ModeFrame(type, sid, mode) == [PlainFrame(type, sid) EXCEPT !.mode = mode]

HasBacklog(r) == r.backlog # <<>>

\* send_frame and cb_send_tx_frame: the bytes go to a ring, one action to the
\* modem's queue once the whole burst is in the ring.
SendControl(r, f) ==
    [r EXCEPT !.txq = Append(@, [control |-> TRUE, frames |-> <<f>>])]

\* send_ctrl_frame and send_call_accept
SendCtrlFrame(r, type) == SendControl(r, PlainFrame(type, r.session_id))

\* send_ack: the cumulative ACK names the next frame wanted, and HAS_DATA
\* announces that this station will take the turn.
SendAck(r) ==
    SendControl(r, AckFrame(r.session_id, r.rx_expected % SeqSpace, HasBacklog(r)))

SendModeNegotiation(r, type, mode) ==
    SendControl(r, ModeFrame(type, r.session_id, mode))

\* Wrong: a retransmission takes new numbers.
WindowBurstRenumbered(r, w) ==
    [control |-> FALSE,
     frames |-> [i \in 1 .. Len(w) |->
                    DataFrame(r.session_id, (r.tx_seq + i - 1) % SeqSpace,
                              r.payload_mode, w[i].unit)]]

\* The whole window is one burst: unacknowledged frames first, as they were.
WindowBurst(r, w) ==
    [control |-> FALSE,
     frames |-> [i \in 1 .. Len(w) |->
                    DataFrame(r.session_id, w[i].seq % SeqSpace, r.payload_mode, w[i].unit)]]

\* How many fresh units top the window up to `burst' frames.
FreshCount(r, burst) ==
    LET room == IF Len(r.tx_window) < burst THEN burst - Len(r.tx_window) ELSE 0
    IN  IF room < Len(r.backlog) THEN room ELSE Len(r.backlog)

\* send_data_burst: nothing at all happens when there is nothing to send.
SendDataBurst(r, burst) ==
    LET n == FreshCount(r, burst)
        fresh == [i \in 1 .. n |-> [seq |-> r.tx_seq + i - 1, unit |-> r.backlog[i]]]
        w == r.tx_window \o fresh
    IN  IF w = <<>> THEN r
        ELSE [r EXCEPT !.tx_window = w,
                       !.tx_seq = @ + n,
                       !.backlog = SubSeq(@, n + 1, Len(@)),
                       !.txlog = @ \o SubSeq(r.backlog, 1, n),
                       !.txq = Append(@, WindowBurst(r, w))]

\* During the startup window a burst is one frame.
BurstSizes == {1, BurstFrames}

-----------------------------------------------------------------------------
(* State entry *)

\* sess_enter
SessEnter(r, state, event) ==
    LET e == [r EXCEPT !.conn_state = state, !.deadline = event,
                       !.pending_connect_confirm =
                           IF state = "CONNECTED" THEN @ ELSE FALSE,
                       !.need_initial_guard = IF state = "CONNECTED" THEN @ ELSE FALSE]
    IN  IF state \in {"DISCONNECTED", "LISTENING"}
        THEN [e EXCEPT !.dflow_state = "IDLE_ISS", !.peer_tx_mode = BroadcastMode]
        ELSE e

DflowEnter(r, state, event) ==
    [r EXCEPT !.dflow_state = state, !.deadline = event]

EnterIdleIrs(r) == DflowEnter(r, "IDLE_IRS", "TIMER_PEER_BACKLOG")

EnterIdleAfterCall(r) ==
    SessEnter(r, IF r.listen_enabled THEN "LISTENING" ELSE "DISCONNECTED", "none")

\* Into DISCONNECTING behind the channel guard: the DISCONNECT goes out when
\* TIMER_ACK fires.
StartDisconnect(r) ==
    SessEnter([r EXCEPT !.pending_disconnect = "no",
                        !.tx_retries_left = DisconnectSlots],
              "DISCONNECTING", "TIMER_ACK")

\* cb_notify_disconnected: what the application still had queued is dropped.
\* (The APP_LISTEN it posts finds the state enter_idle_after_call chose.)
NotifyDisconnected(r) == [r EXCEPT !.host = "idle", !.backlog = <<>>]

NotifyCancelPending(r) == [r EXCEPT !.host = "idle"]

\* Wrong: the host is not told.
EndCallUntold(r) == EnterIdleAfterCall(r)

\* The DISCONNECT handshake is over, or a call is given up.
EndCall(r) == EnterIdleAfterCall(NotifyDisconnected(r))

\* Wrong: a session begins with the receive counter of the one before.
StartSessionKeepsExpected(r, role) ==
    SessEnter([r EXCEPT !.tx_seq = 0, !.tx_window = <<>>,
                        !.txlog = <<>>, !.rxlog = <<>>, !.role = role,
                        !.tx_retries_left = DataSlots,
                        !.payload_mode = SafeMode, !.peer_tx_mode = SafeMode,
                        !.pending_tx_mode = "none", !.host = "connected"],
              "CONNECTED", "none")

\* The reset every transition into CONNECTED makes, with notify_connected.
StartSession(r, role) ==
    SessEnter([r EXCEPT !.tx_seq = 0, !.rx_expected = 0, !.tx_window = <<>>,
                        !.txlog = <<>>, !.rxlog = <<>>,
                        !.role = role,
                        !.tx_retries_left = DataSlots,
                        !.payload_mode = SafeMode, !.peer_tx_mode = SafeMode,
                        !.pending_tx_mode = "none",
                        !.host = "connected"],
              "CONNECTED", "none")

ArmConnectConfirm(r) ==
    DflowEnter([r EXCEPT !.pending_connect_confirm = TRUE], "ACK_TX", "TIMER_ACK")

\* Wrong: frames of the window would go again in another mode.
UpgradeStartsEarly(r, wanted) == wanted # r.payload_mode

\* maybe_upgrade_mode fires when another mode is wanted, but never while
\* frames built for the current mode are unacknowledged.
UpgradeStarts(r, wanted) == wanted # r.payload_mode /\ r.tx_window = <<>>

StartModeReq(r, wanted) ==
    DflowEnter(SendModeNegotiation([r EXCEPT !.pending_tx_mode = wanted,
                                             !.tx_retries_left = ModeReqRetries],
                                   "MODE_REQ", wanted),
               "MODE_REQ_TX", "none")

\* Send the window now: DATA_TX with no deadline, until TX_COMPLETE.
TransmitNow(r, burst) == SendDataBurst(DflowEnter(r, "DATA_TX", "none"), burst)

\* Send it when the guard has elapsed.
TransmitGuarded(r) == DflowEnter(r, "DATA_TX", "TIMER_ACK")

EnterIdleIss(r, burst) ==
    LET f == [r EXCEPT !.tx_retries_left = DataSlots]
    IN  IF HasBacklog(r) THEN TransmitNow(f, burst)
        ELSE IF r.pending_disconnect # "no" THEN StartDisconnect(r)
        ELSE DflowEnter(f, "IDLE_ISS", "none")

EnterIdleIssGuarded(r, wanted) ==
    LET f == [r EXCEPT !.tx_retries_left = DataSlots]
    IN  IF HasBacklog(r) /\ UpgradeStarts(r, wanted) THEN StartModeReq(r, wanted)
        ELSE IF HasBacklog(r) THEN TransmitGuarded(f)
        ELSE IF r.pending_disconnect # "no" THEN StartDisconnect(r)
        ELSE DflowEnter(f, "IDLE_ISS", "none")

SendTurnReq(r) ==
    DflowEnter(SendCtrlFrame(r, "TURN_REQ"), "TURN_REQ_TX", "TIMER_RETRY")

\* A frame is sent, then a wait for its answer that TIMER_RETRY ends.
SendKeepalive(r) ==
    DflowEnter(SendCtrlFrame(r, "KEEPALIVE"), "KEEPALIVE_TX", "TIMER_RETRY")

-----------------------------------------------------------------------------
(* Receiving *)

IsNew(r, f) == f.seq = r.rx_expected % SeqSpace

\* Wrong: a retransmission is delivered again.
DeliverRxUnchecked(r, f) ==
    [r EXCEPT !.rx_expected = @ + 1, !.rxlog = Append(@, f.unit)]

\* deliver_rx_checked
DeliverRxChecked(r, f) ==
    IF IsNew(r, f)
    THEN [r EXCEPT !.rx_expected = @ + 1, !.rxlog = Append(@, f.unit)]
    ELSE r

\* RX_DATA wherever it is taken: deliver if new, hold the turn back for the
\* peer if it is a duplicate, arm the ACK.  A DATA frame never has HAS_DATA.
ReceiveData(r, f) ==
    DflowEnter([DeliverRxChecked(r, f) EXCEPT !.peer_tx_mode = f.mode,
                                              !.peer_has_data = ~IsNew(r, f)],
               "DATA_RX", "TIMER_ACK")

\* Wrong: the ACK is read as the last number received, not the next wanted.
AckedCountInclusive(w, a) ==
    LET d == (a - w[1].seq + 1) % SeqSpace
    IN  IF w # <<>> /\ d <= Len(w) THEN d ELSE 0

\* Frames an ACK with cumulative number a confirms: the distance from the
\* window's base, 0 when it points outside the window.
AckedCount(w, a) ==
    LET d == (a - w[1].seq) % SeqSpace
    IN  IF w # <<>> /\ d <= Len(w) THEN d ELSE 0

\* Wrong: the newest frames are dropped, not the oldest.
SlideWindowNewest(r, n) == [r EXCEPT !.tx_window = SubSeq(@, 1, Len(@) - n)]

SlideWindow(r, n) == [r EXCEPT !.tx_window = SubSeq(@, n + 1, Len(@))]

\* RX_DATA (new) or MODE_REQ in WAIT_ACK is taken as an ACK of the window.
ImplicitAck(r) == [r EXCEPT !.tx_window = <<>>, !.tx_retries_left = DataSlots]

=============================================================================

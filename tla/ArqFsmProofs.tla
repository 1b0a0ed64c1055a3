---------------------------- MODULE ArqFsmProofs ----------------------------
(***************************************************************************)
(* Proofs about one station of ArqFsm, for every value of the constants    *)
(* and whatever its peer sends: the type invariant, WindowIsTail, the      *)
(* integrity of the go-back-N window, and ModeKeptInFlight.                *)
(*                                                                         *)
(* The first two are carried by one predicate of a session, Good.  A lemma *)
(* for each helper of ArqSession says that it takes a good session to a    *)
(* good one, a lemma for each handler of ArqFsm that its step does.  Only  *)
(* five fields matter to WindowOf: updating any other one keeps a session  *)
(* good (Keeps), and five helpers that do touch them have proofs of their  *)
(* own.  The second half does the same for the mode, with Settled.         *)
(***************************************************************************)
EXTENDS ArqFsm, TLAPS, WellFoundedInduction

Good(r) == r \in Session /\ WindowOf(r)

(* The types of the fields of a session. *)
LEMMA Fields ==
    ASSUME NEW r, Good(r)
    PROVE  /\ r.conn_state \in ConnStates
           /\ r.dflow_state \in DflowStates
           /\ r.role \in {"NONE", "CALLER", "CALLEE"}
           /\ r.session_id \in Nat
           /\ r.tx_seq \in Nat
           /\ r.rx_expected \in Nat
           /\ r.payload_mode \in PayloadModes
           /\ r.peer_tx_mode \in PayloadModes
           /\ r.pending_tx_mode \in PayloadModes \cup {"none"}
           /\ r.tx_retries_left \in Nat
           /\ r.tx_window \in Seq(Slot)
           /\ r.peer_has_data \in BOOLEAN
           /\ r.acktx_had_has_data \in BOOLEAN
           /\ r.listen_enabled \in BOOLEAN
           /\ r.pending_disconnect \in {"no", "draining", "overdue"}
           /\ r.pending_disconnect_notify \in BOOLEAN
           /\ r.pending_connect_confirm \in BOOLEAN
           /\ r.need_initial_guard \in BOOLEAN
           /\ r.keepalive_miss_count \in Nat
           /\ r.keepalive_from_irs \in BOOLEAN
           /\ r.keepalive_ack_from_irs \in BOOLEAN
           /\ r.deadline \in TimerEvents \cup {"none"}
           /\ r.backlog \in Seq(Nat)
           /\ r.data_ready \in Nat
           /\ r.txq \in Seq(Burst)
           /\ r.host \in {"idle", "pending", "connected"}
           /\ r.txlog \in Seq(Nat)
           /\ r.rxlog \in Seq(Nat)
           /\ r.written \in Nat
  BY DEF Good, Session

(* WindowOf reads five fields only. *)
LEMMA Keeps ==
    ASSUME NEW r, Good(r)
    PROVE  /\ \A v \in ConnStates : Good([r EXCEPT !.conn_state = v])
           /\ \A v \in DflowStates : Good([r EXCEPT !.dflow_state = v])
           /\ \A v \in {"NONE", "CALLER", "CALLEE"} : Good([r EXCEPT !.role = v])
           /\ \A v \in Nat : Good([r EXCEPT !.session_id = v])
           /\ \A v \in PayloadModes : Good([r EXCEPT !.payload_mode = v])
           /\ \A v \in PayloadModes : Good([r EXCEPT !.peer_tx_mode = v])
           /\ \A v \in PayloadModes \cup {"none"} : Good([r EXCEPT !.pending_tx_mode = v])
           /\ \A v \in Nat : Good([r EXCEPT !.tx_retries_left = v])
           /\ \A v \in BOOLEAN : Good([r EXCEPT !.peer_has_data = v])
           /\ \A v \in BOOLEAN : Good([r EXCEPT !.acktx_had_has_data = v])
           /\ \A v \in BOOLEAN : Good([r EXCEPT !.listen_enabled = v])
           /\ \A v \in {"no", "draining", "overdue"} : Good([r EXCEPT !.pending_disconnect = v])
           /\ \A v \in BOOLEAN : Good([r EXCEPT !.pending_disconnect_notify = v])
           /\ \A v \in BOOLEAN : Good([r EXCEPT !.pending_connect_confirm = v])
           /\ \A v \in BOOLEAN : Good([r EXCEPT !.need_initial_guard = v])
           /\ \A v \in Nat : Good([r EXCEPT !.keepalive_miss_count = v])
           /\ \A v \in BOOLEAN : Good([r EXCEPT !.keepalive_from_irs = v])
           /\ \A v \in BOOLEAN : Good([r EXCEPT !.keepalive_ack_from_irs = v])
           /\ \A v \in TimerEvents \cup {"none"} : Good([r EXCEPT !.deadline = v])
           /\ \A v \in Seq(Nat) : Good([r EXCEPT !.backlog = v])
           /\ \A v \in Nat : Good([r EXCEPT !.data_ready = v])
           /\ \A v \in Seq(Burst) : Good([r EXCEPT !.txq = v])
           /\ \A v \in {"idle", "pending", "connected"} : Good([r EXCEPT !.host = v])
           /\ \A v \in Nat : Good([r EXCEPT !.written = v])
<1>1. ASSUME NEW v \in ConnStates PROVE Good([r EXCEPT !.conn_state = v])
  BY DEF Good, Session, WindowOf
<1>2. ASSUME NEW v \in DflowStates PROVE Good([r EXCEPT !.dflow_state = v])
  BY DEF Good, Session, WindowOf
<1>3. ASSUME NEW v \in {"NONE", "CALLER", "CALLEE"} PROVE Good([r EXCEPT !.role = v])
  BY DEF Good, Session, WindowOf
<1>4. ASSUME NEW v \in Nat PROVE Good([r EXCEPT !.session_id = v])
  BY DEF Good, Session, WindowOf
<1>5. ASSUME NEW v \in PayloadModes PROVE Good([r EXCEPT !.payload_mode = v])
  BY DEF Good, Session, WindowOf
<1>6. ASSUME NEW v \in PayloadModes PROVE Good([r EXCEPT !.peer_tx_mode = v])
  BY DEF Good, Session, WindowOf
<1>7. ASSUME NEW v \in PayloadModes \cup {"none"} PROVE Good([r EXCEPT !.pending_tx_mode = v])
  BY DEF Good, Session, WindowOf
<1>8. ASSUME NEW v \in Nat PROVE Good([r EXCEPT !.tx_retries_left = v])
  BY DEF Good, Session, WindowOf
<1>9. ASSUME NEW v \in BOOLEAN PROVE Good([r EXCEPT !.peer_has_data = v])
  BY DEF Good, Session, WindowOf
<1>10. ASSUME NEW v \in BOOLEAN PROVE Good([r EXCEPT !.acktx_had_has_data = v])
  BY DEF Good, Session, WindowOf
<1>11. ASSUME NEW v \in BOOLEAN PROVE Good([r EXCEPT !.listen_enabled = v])
  BY DEF Good, Session, WindowOf
<1>12. ASSUME NEW v \in {"no", "draining", "overdue"}
       PROVE  Good([r EXCEPT !.pending_disconnect = v])
  BY DEF Good, Session, WindowOf
<1>13. ASSUME NEW v \in BOOLEAN PROVE Good([r EXCEPT !.pending_disconnect_notify = v])
  BY DEF Good, Session, WindowOf
<1>14. ASSUME NEW v \in BOOLEAN PROVE Good([r EXCEPT !.pending_connect_confirm = v])
  BY DEF Good, Session, WindowOf
<1>15. ASSUME NEW v \in BOOLEAN PROVE Good([r EXCEPT !.need_initial_guard = v])
  BY DEF Good, Session, WindowOf
<1>16. ASSUME NEW v \in Nat PROVE Good([r EXCEPT !.keepalive_miss_count = v])
  BY DEF Good, Session, WindowOf
<1>17. ASSUME NEW v \in BOOLEAN PROVE Good([r EXCEPT !.keepalive_from_irs = v])
  BY DEF Good, Session, WindowOf
<1>18. ASSUME NEW v \in BOOLEAN PROVE Good([r EXCEPT !.keepalive_ack_from_irs = v])
  BY DEF Good, Session, WindowOf
<1>19. ASSUME NEW v \in TimerEvents \cup {"none"} PROVE Good([r EXCEPT !.deadline = v])
  BY DEF Good, Session, WindowOf
<1>20. ASSUME NEW v \in Seq(Nat) PROVE Good([r EXCEPT !.backlog = v])
  BY DEF Good, Session, WindowOf
<1>21. ASSUME NEW v \in Nat PROVE Good([r EXCEPT !.data_ready = v])
  BY DEF Good, Session, WindowOf
<1>22. ASSUME NEW v \in Seq(Burst) PROVE Good([r EXCEPT !.txq = v])
  BY DEF Good, Session, WindowOf
<1>23. ASSUME NEW v \in {"idle", "pending", "connected"} PROVE Good([r EXCEPT !.host = v])
  BY DEF Good, Session, WindowOf
<1>24. ASSUME NEW v \in Nat PROVE Good([r EXCEPT !.written = v])
  BY DEF Good, Session, WindowOf
<1> QED
  BY <1>1, <1>2, <1>3, <1>4, <1>5, <1>6, <1>7, <1>8, <1>9, <1>10, <1>11, <1>12,
     <1>13, <1>14, <1>15, <1>16, <1>17, <1>18, <1>19, <1>20, <1>21, <1>22, <1>23, <1>24

-----------------------------------------------------------------------------
(* Helpers that leave the stream alone *)

LEMMA ModType == ASSUME NEW n \in Nat PROVE n % SeqSpace \in 0 .. SeqSpace - 1
  BY WindowAssumption

LEMMA HasBacklogType == ASSUME NEW r PROVE HasBacklog(r) \in BOOLEAN
  BY DEF HasBacklog

LEMMA PlainFrameType ==
    ASSUME NEW type \in FrameTypes, NEW sid \in Nat
    PROVE  PlainFrame(type, sid) \in Frame
  BY WindowAssumption DEF PlainFrame, Frame

LEMMA DataFrameType ==
    ASSUME NEW sid \in Nat, NEW seq \in 0 .. SeqSpace - 1, NEW mode \in PayloadModes,
           NEW unit \in Nat
    PROVE  DataFrame(sid, seq, mode, unit) \in Frame /\ DataFrame(sid, seq, mode, unit).mode = mode
<1> DEFINE p == PlainFrame("DATA", sid)
<1>1. p \in Frame
  BY PlainFrameType DEF FrameTypes
<1> HIDE DEF p
<1>2. /\ [p EXCEPT !.seq = seq, !.mode = mode, !.unit = unit] \in Frame
      /\ [p EXCEPT !.seq = seq, !.mode = mode, !.unit = unit].mode = mode
  BY <1>1 DEF Frame
<1> QED
  BY <1>2 DEF DataFrame, p

LEMMA AckFrameType ==
    ASSUME NEW sid \in Nat, NEW seq \in 0 .. SeqSpace - 1, NEW has_data \in BOOLEAN
    PROVE  AckFrame(sid, seq, has_data) \in Frame /\ AckFrame(sid, seq, has_data).type = "ACK"
<1> DEFINE p == PlainFrame("ACK", sid)
<1>1. p \in Frame /\ p.type = "ACK"
  BY PlainFrameType DEF FrameTypes, PlainFrame
<1> HIDE DEF p
<1>2. /\ [p EXCEPT !.seq = seq, !.has_data = has_data] \in Frame
      /\ [p EXCEPT !.seq = seq, !.has_data = has_data].type = "ACK"
  BY <1>1 DEF Frame
<1> QED
  BY <1>2 DEF AckFrame, p

LEMMA ModeFrameType ==
    ASSUME NEW type \in FrameTypes, NEW sid \in Nat, NEW mode \in PayloadModes \cup {"none"}
    PROVE  ModeFrame(type, sid, mode) \in Frame /\ ModeFrame(type, sid, mode).mode = mode
  BY PlainFrameType DEF ModeFrame, Frame

LEMMA SendControlGood ==
    ASSUME NEW r, Good(r), NEW f \in Frame
    PROVE  Good(SendControl(r, f))
<1>1. [control |-> TRUE, frames |-> <<f>>] \in Burst
  BY DEF Burst
<1>2. Append(r.txq, [control |-> TRUE, frames |-> <<f>>]) \in Seq(Burst)
  BY <1>1, Fields
<1> QED
  BY <1>2, Keeps DEF SendControl

LEMMA SendCtrlFrameGood ==
    ASSUME NEW r, Good(r), NEW type \in FrameTypes
    PROVE  Good(SendCtrlFrame(r, type))
  BY SendControlGood, PlainFrameType, Fields DEF SendCtrlFrame

LEMMA SendAckGood ==
    ASSUME NEW r, Good(r)
    PROVE  Good(SendAck(r))
<1>1. AckFrame(r.session_id, r.rx_expected % SeqSpace, HasBacklog(r)) \in Frame
  BY AckFrameType, ModType, HasBacklogType, Fields
<1> QED
  BY <1>1, SendControlGood DEF SendAck

LEMMA SendModeNegotiationGood ==
    ASSUME NEW r, Good(r), NEW type \in FrameTypes,
           NEW mode \in PayloadModes \cup {"none"}
    PROVE  Good(SendModeNegotiation(r, type, mode))
  BY ModeFrameType, SendControlGood, Fields DEF SendModeNegotiation

LEMMA SessEnterGood ==
    ASSUME NEW r, Good(r), NEW state \in ConnStates,
           NEW event \in TimerEvents \cup {"none"}
    PROVE  Good(SessEnter(r, state, event))
  BY ModeAssumption, Fields, Keeps DEF SessEnter, DflowStates

LEMMA DflowEnterGood ==
    ASSUME NEW r, Good(r), NEW state \in DflowStates,
           NEW event \in TimerEvents \cup {"none"}
    PROVE  Good(DflowEnter(r, state, event))
  BY Keeps DEF DflowEnter

LEMMA EnterIdleIrsGood == ASSUME NEW r, Good(r) PROVE Good(EnterIdleIrs(r))
  BY DflowEnterGood DEF EnterIdleIrs, DflowStates, TimerEvents

LEMMA EnterIdleAfterCallGood == ASSUME NEW r, Good(r) PROVE Good(EnterIdleAfterCall(r))
  BY SessEnterGood DEF EnterIdleAfterCall, ConnStates

LEMMA StartDisconnectGood == ASSUME NEW r, Good(r) PROVE Good(StartDisconnect(r))
<1>1. Good([r EXCEPT !.pending_disconnect = "no", !.tx_retries_left = DisconnectSlots])
  BY SlotAssumption, Keeps
<1> QED
  BY <1>1, SessEnterGood DEF StartDisconnect, ConnStates, TimerEvents

LEMMA NotifyDisconnectedGood == ASSUME NEW r, Good(r) PROVE Good(NotifyDisconnected(r))
<1>1. <<>> \in Seq(Nat)
  OBVIOUS
<1> QED
  BY <1>1, Keeps DEF NotifyDisconnected

LEMMA NotifyCancelPendingGood == ASSUME NEW r, Good(r) PROVE Good(NotifyCancelPending(r))
  BY Keeps DEF NotifyCancelPending

LEMMA EndCallGood == ASSUME NEW r, Good(r) PROVE Good(EndCall(r))
  BY NotifyDisconnectedGood, EnterIdleAfterCallGood DEF EndCall

LEMMA ArmConnectConfirmGood == ASSUME NEW r, Good(r) PROVE Good(ArmConnectConfirm(r))
<1>1. Good([r EXCEPT !.pending_connect_confirm = TRUE])
  BY Keeps
<1> QED
  BY <1>1, DflowEnterGood DEF ArmConnectConfirm, DflowStates, TimerEvents

LEMMA StartModeReqGood ==
    ASSUME NEW r, Good(r), NEW wanted \in PayloadModes
    PROVE  Good(StartModeReq(r, wanted))
<1>1. Good([r EXCEPT !.pending_tx_mode = wanted, !.tx_retries_left = ModeReqRetries])
  BY SlotAssumption, Keeps
<1>2. Good(SendModeNegotiation([r EXCEPT !.pending_tx_mode = wanted,
                                         !.tx_retries_left = ModeReqRetries],
                               "MODE_REQ", wanted))
  BY <1>1, SendModeNegotiationGood DEF FrameTypes
<1> QED
  BY <1>2, DflowEnterGood DEF StartModeReq, DflowStates

LEMMA TransmitGuardedGood == ASSUME NEW r, Good(r) PROVE Good(TransmitGuarded(r))
  BY DflowEnterGood DEF TransmitGuarded, DflowStates, TimerEvents

LEMMA SendTurnReqGood == ASSUME NEW r, Good(r) PROVE Good(SendTurnReq(r))
<1>1. Good(SendCtrlFrame(r, "TURN_REQ"))
  BY SendCtrlFrameGood DEF FrameTypes
<1> QED
  BY <1>1, DflowEnterGood DEF SendTurnReq, DflowStates, TimerEvents

LEMMA SendKeepaliveGood == ASSUME NEW r, Good(r) PROVE Good(SendKeepalive(r))
<1>1. Good(SendCtrlFrame(r, "KEEPALIVE"))
  BY SendCtrlFrameGood DEF FrameTypes
<1> QED
  BY <1>1, DflowEnterGood DEF SendKeepalive, DflowStates, TimerEvents

-----------------------------------------------------------------------------
(* Helpers that move the stream *)

(* A session starts with an empty stream. *)
LEMMA StartSessionGood ==
    ASSUME NEW r, Good(r), NEW role \in {"NONE", "CALLER", "CALLEE"}
    PROVE  Good(StartSession(r, role))
<1> DEFINE q == [r EXCEPT !.tx_seq = 0, !.rx_expected = 0, !.tx_window = <<>>,
                          !.txlog = <<>>, !.rxlog = <<>>]
<1>1. q \in Session
  <2>1. <<>> \in Seq(Nat) /\ <<>> \in Seq(Slot) /\ 0 \in Nat
    OBVIOUS
  <2> QED
    BY <2>1 DEF Good, Session
<1>2. /\ q.tx_seq = 0 /\ q.rx_expected = 0
      /\ q.tx_window = <<>> /\ q.txlog = <<>> /\ q.rxlog = <<>>
  BY DEF Good, Session
<1>3. WindowOf(q)
  BY <1>2, WindowAssumption DEF WindowOf
<1>4. Good(q)
  BY <1>1, <1>3 DEF Good
<1> HIDE DEF q
<1>5. Good([q EXCEPT !.role = role,
                     !.tx_retries_left = DataSlots,
                     !.payload_mode = SafeMode, !.peer_tx_mode = SafeMode,
                     !.pending_tx_mode = "none",
                     !.host = "connected"])
  BY <1>4, Keeps, SlotAssumption, ModeAssumption
<1> QED
  BY <1>5, SessEnterGood DEF StartSession, ConnStates, q

(* Concatenation of streams. *)
LEMMA ConcatFacts ==
    ASSUME NEW p \in Seq(Nat), NEW q \in Seq(Nat)
    PROVE  /\ p \o q \in Seq(Nat)
           /\ Len(p \o q) = Len(p) + Len(q)
           /\ \A i \in 1 .. Len(p) : (p \o q)[i] = p[i]
           /\ \A i \in 1 .. Len(q) : (p \o q)[Len(p) + i] = q[i]
  OBVIOUS

(* A burst never grows beyond what the mode table allows. *)
LEMMA FreshCountBound ==
    ASSUME NEW r, Good(r), NEW burst \in BurstSizes
    PROVE  /\ FreshCount(r, burst) \in 0 .. Len(r.backlog)
           /\ Len(r.tx_window) + FreshCount(r, burst) <= BurstFrames
<1>1. burst \in Nat /\ BurstFrames \in Nat /\ burst <= BurstFrames
  BY WindowAssumption DEF BurstSizes
<1>2. Len(r.tx_window) \in Nat /\ Len(r.tx_window) <= BurstFrames
  BY Fields DEF Good, WindowOf
<1>3. Len(r.backlog) \in Nat
  BY Fields
<1>4. ASSUME NEW l \in Nat, NEW k \in Nat, l <= BurstFrames
      PROVE  LET room == IF l < burst THEN burst - l ELSE 0
                 n == IF room < k THEN room ELSE k
             IN  n \in 0 .. k /\ l + n <= BurstFrames
  BY <1>1, <1>4
<1> QED
  BY <1>2, <1>3, <1>4 DEF FreshCount

(* Fresh units extend the window and the log by the same numbers. *)
LEMMA SendDataBurstGood ==
    ASSUME NEW r, Good(r), NEW burst \in BurstSizes
    PROVE  Good(SendDataBurst(r, burst))
<1> DEFINE n == FreshCount(r, burst)
           fresh == [i \in 1 .. n |-> [seq |-> r.tx_seq + i - 1, unit |-> r.backlog[i]]]
           w == r.tx_window \o fresh
           log == r.txlog \o SubSeq(r.backlog, 1, n)
           q == [r EXCEPT !.tx_window = w,
                          !.tx_seq = @ + n,
                          !.backlog = SubSeq(@, n + 1, Len(@)),
                          !.txlog = log,
                          !.txq = Append(@, WindowBurst(r, w))]
<1>1. /\ r.tx_window \in Seq(Slot) /\ r.tx_seq \in Nat /\ r.backlog \in Seq(Nat)
      /\ r.txlog \in Seq(Nat) /\ r.txq \in Seq(Burst)
  BY Fields
<1>2. n \in 0 .. Len(r.backlog) /\ Len(r.tx_window) + n <= BurstFrames
  BY FreshCountBound
<1> HIDE DEF n
<1>3. /\ fresh \in Seq(Slot) /\ Len(fresh) = n
      /\ \A i \in 1 .. n : fresh[i] = [seq |-> r.tx_seq + i - 1, unit |-> r.backlog[i]]
  <2>1. \A i \in 1 .. n : [seq |-> r.tx_seq + i - 1, unit |-> r.backlog[i]] \in Slot
    <3> TAKE i \in 1 .. n
    <3>1. i \in Nat /\ i >= 1 /\ i \in 1 .. Len(r.backlog)
      BY <1>1, <1>2
    <3>2. r.tx_seq + i - 1 \in Nat /\ r.backlog[i] \in Nat
      BY <1>1, <3>1
    <3> QED
      BY <3>2 DEF Slot
  <2> QED
    BY <1>2, <2>1
<1>4. /\ w \in Seq(Slot) /\ Len(w) = Len(r.tx_window) + n
      /\ \A i \in 1 .. Len(r.tx_window) : w[i] = r.tx_window[i]
      /\ \A i \in Len(r.tx_window) + 1 .. Len(w) : w[i] = fresh[i - Len(r.tx_window)]
  BY <1>1, <1>2, <1>3
<1> HIDE DEF fresh
<1>5. /\ log \in Seq(Nat) /\ Len(log) = Len(r.txlog) + n
      /\ \A i \in 1 .. Len(r.txlog) : log[i] = r.txlog[i]
      /\ \A i \in 1 .. n : log[Len(r.txlog) + i] = r.backlog[i]
  <2> DEFINE taken == SubSeq(r.backlog, 1, n)
  <2>1. taken \in Seq(Nat) /\ Len(taken) = n /\ \A i \in 1 .. n : taken[i] = r.backlog[i]
    BY <1>1, <1>2
  <2> HIDE DEF taken
  <2>2. /\ r.txlog \o taken \in Seq(Nat)
        /\ Len(r.txlog \o taken) = Len(r.txlog) + Len(taken)
        /\ \A i \in 1 .. Len(r.txlog) : (r.txlog \o taken)[i] = r.txlog[i]
        /\ \A i \in 1 .. Len(taken) : (r.txlog \o taken)[Len(r.txlog) + i] = taken[i]
    BY <1>1, <2>1, ConcatFacts
  <2> QED
    BY <2>1, <2>2 DEF taken
<1> HIDE DEF w, log
<1>6. CASE w = <<>>
  BY <1>6 DEF SendDataBurst, w, fresh, n
<1>7. CASE w # <<>>
  <2>1. WindowBurst(r, w) \in Burst
    <3> DEFINE F(i) == DataFrame(r.session_id, w[i].seq % SeqSpace, r.payload_mode, w[i].unit)
    <3>1. \A i \in 1 .. Len(w) : F(i) \in Frame /\ F(i).mode \in PayloadModes
      <4> TAKE i \in 1 .. Len(w)
      <4>1. w[i] \in Slot
        BY <1>4
      <4>2. w[i].seq % SeqSpace \in 0 .. SeqSpace - 1 /\ w[i].unit \in Nat
        BY <4>1, ModType DEF Slot
      <4> QED
        BY <4>2, DataFrameType, Fields
    <3>2. Len(w) \in Nat /\ Len(w) > 0
      BY <1>4, <1>7
    <3> DEFINE fs == [i \in 1 .. Len(w) |-> F(i)]
    <3> HIDE DEF F
    <3>3. fs \in Seq(Frame) /\ fs # <<>> /\ fs[1].mode \in PayloadModes
      BY <3>1, <3>2
    <3>4. WindowBurst(r, w) = [control |-> FALSE, frames |-> fs]
      BY DEF WindowBurst, F
    <3> QED
      BY <3>3, <3>4 DEF Burst
  <2>2. /\ Append(r.txq, WindowBurst(r, w)) \in Seq(Burst)
        /\ r.tx_seq + n \in Nat
        /\ SubSeq(r.backlog, n + 1, Len(r.backlog)) \in Seq(Nat)
    BY <1>1, <1>2, <2>1
  <2>3. q \in Session
    BY <1>4, <1>5, <2>2 DEF Good, Session
  <2>4. /\ q.tx_window = w /\ q.tx_seq = r.tx_seq + n /\ q.txlog = log
        /\ q.rx_expected = r.rx_expected /\ q.rxlog = r.rxlog
    BY DEF Good, Session
  <2>5. WindowOf(q)
    <3>1. WindowOf(r)
      BY DEF Good
    <3>2. /\ Len(w) <= BurstFrames /\ Len(w) <= q.tx_seq
          /\ q.tx_seq = Len(log) /\ q.rx_expected = Len(q.rxlog)
      BY <1>1, <1>2, <1>4, <1>5, <2>4, <3>1 DEF WindowOf
    <3>3. ASSUME NEW i \in 1 .. Len(w)
          PROVE  w[i].seq = q.tx_seq - Len(w) + i - 1 /\ w[i].unit = log[w[i].seq + 1]
      <4>1. CASE i \in 1 .. Len(r.tx_window)
        <5>1. /\ r.tx_window[i].seq = r.tx_seq - Len(r.tx_window) + i - 1
              /\ r.tx_window[i].unit = r.txlog[r.tx_window[i].seq + 1]
          BY <3>1, <4>1 DEF WindowOf
        <5>2. Len(r.tx_window) <= r.tx_seq /\ r.tx_seq = Len(r.txlog)
          BY <3>1 DEF WindowOf
        <5>3. Len(r.tx_window) \in Nat /\ n \in Nat /\ i \in Nat
          BY <1>1, <1>2, <4>1
        <5>4. r.tx_window[i].seq + 1 \in 1 .. Len(r.txlog)
          <6>1. ASSUME NEW l \in Nat, NEW t \in Nat, NEW j \in 1 .. l, l <= t
                PROVE  t - l + j - 1 + 1 \in 1 .. t
            BY <6>1
          <6>2. r.tx_seq - Len(r.tx_window) + i - 1 + 1 \in 1 .. r.tx_seq
            BY <1>1, <4>1, <5>2, <5>3, <6>1
          <6> QED
            BY <5>1, <5>2, <6>2
        <5>5. w[i] = r.tx_window[i]
          BY <1>4, <4>1
        <5>6. r.tx_seq - Len(r.tx_window) + i - 1 = q.tx_seq - Len(w) + i - 1
          BY <1>1, <1>4, <2>4, <5>3
        <5>7. w[i].unit = log[w[i].seq + 1]
          BY <1>5, <5>1, <5>4, <5>5
        <5> QED
          BY <5>1, <5>5, <5>6, <5>7
      <4>2. CASE i \in Len(r.tx_window) + 1 .. Len(w)
        <5>1. i - Len(r.tx_window) \in 1 .. n
          BY <1>1, <1>2, <1>4, <4>2
        <5>2. /\ w[i].seq = r.tx_seq + (i - Len(r.tx_window)) - 1
              /\ w[i].unit = r.backlog[i - Len(r.tx_window)]
          BY <1>3, <1>4, <4>2, <5>1
        <5>3. r.tx_seq = Len(r.txlog)
          BY <3>1 DEF WindowOf
        <5>4. w[i].seq + 1 = Len(r.txlog) + (i - Len(r.tx_window))
          BY <1>1, <5>2, <5>3
        <5>5. log[w[i].seq + 1] = r.backlog[i - Len(r.tx_window)]
          BY <1>5, <5>1, <5>4
        <5>6. w[i].seq = q.tx_seq - Len(w) + i - 1
          <6>1. Len(r.tx_window) \in Nat /\ n \in Nat /\ i \in Int
            BY <1>1, <1>2, <1>4, <4>2
          <6>2. Len(w) = Len(r.tx_window) + n /\ q.tx_seq = r.tx_seq + n /\ r.tx_seq \in Nat
            BY <1>1, <1>4, <2>4
          <6>3. w[i].seq = r.tx_seq + (i - Len(r.tx_window)) - 1
            BY <5>2
          <6> HIDE DEF q
          <6> QED
            BY <6>1, <6>2, <6>3
        <5> QED
          BY <5>2, <5>5, <5>6
      <4> QED
        BY <1>1, <1>4, <4>1, <4>2
    <3> QED
      BY <2>4, <3>2, <3>3 DEF WindowOf
  <2>6. Good(q)
    BY <2>3, <2>5 DEF Good
  <2> QED
    BY <1>7, <2>6 DEF SendDataBurst, w, fresh, log, n
<1> QED
  BY <1>6, <1>7

(* A unit delivered extends the log and moves rx_expected. *)
LEMMA DeliverRxCheckedGood ==
    ASSUME NEW r, Good(r), NEW f \in Frame
    PROVE  Good(DeliverRxChecked(r, f))
<1> DEFINE q == [r EXCEPT !.rx_expected = @ + 1, !.rxlog = Append(@, f.unit)]
<1>1. r.rx_expected \in Nat /\ r.rxlog \in Seq(Nat) /\ f.unit \in Nat
  BY Fields DEF Frame
<1>2. /\ Append(r.rxlog, f.unit) \in Seq(Nat)
      /\ Len(Append(r.rxlog, f.unit)) = Len(r.rxlog) + 1
  BY <1>1
<1>3. q \in Session
  <2>1. ASSUME NEW e \in Nat, NEW log \in Seq(Nat)
        PROVE  [r EXCEPT !.rx_expected = e, !.rxlog = log] \in Session
    BY DEF Good, Session
  <2>2. r.rx_expected + 1 \in Nat
    BY <1>1
  <2> QED
    BY <1>2, <2>1, <2>2
<1>4. /\ q.rx_expected = r.rx_expected + 1 /\ q.rxlog = Append(r.rxlog, f.unit)
      /\ q.tx_window = r.tx_window /\ q.tx_seq = r.tx_seq /\ q.txlog = r.txlog
  BY DEF Good, Session
<1>5. WindowOf(q)
  BY <1>2, <1>4 DEF Good, WindowOf
<1> QED
  BY <1>3, <1>5 DEF DeliverRxChecked, Good

LEMMA ReceiveDataGood ==
    ASSUME NEW r, Good(r), NEW f \in Frame, f.mode \in PayloadModes
    PROVE  Good(ReceiveData(r, f))
<1> DEFINE fresh == ~IsNew(r, f)
           q == DeliverRxChecked(r, f)
<1>1. Good(q)
  BY DeliverRxCheckedGood
<1>2. fresh \in BOOLEAN
  OBVIOUS
<1> HIDE DEF fresh, q
<1>3. Good([q EXCEPT !.peer_tx_mode = f.mode, !.peer_has_data = fresh])
  BY <1>1, <1>2, Keeps
<1> QED
  BY <1>3, DflowEnterGood DEF ReceiveData, DflowStates, TimerEvents, fresh, q

(* An ACK confirms at most the whole window. *)
LEMMA AckedCountBound ==
    ASSUME NEW r, Good(r), NEW a \in Nat
    PROVE  AckedCount(r.tx_window, a) \in 0 .. Len(r.tx_window)
<1>1. r.tx_window \in Seq(Slot)
  BY Fields
<1>2. CASE r.tx_window = <<>>
  BY <1>2 DEF AckedCount
<1>3. CASE r.tx_window # <<>>
  <2>1. r.tx_window[1].seq \in Nat
    <3>1. r.tx_window[1] \in Slot
      BY <1>1, <1>3
    <3> QED
      BY <3>1 DEF Slot
  <2>2. (a - r.tx_window[1].seq) % SeqSpace \in Nat
    BY <2>1, WindowAssumption
  <2> QED
    BY <1>1, <2>2 DEF AckedCount
<1> QED
  BY <1>2, <1>3

(* What is left of a window is still the tail of the stream. *)
LEMMA SlideWindowGood ==
    ASSUME NEW r, Good(r), NEW n \in 0 .. Len(r.tx_window)
    PROVE  Good(SlideWindow(r, n))
<1> DEFINE w == SubSeq(r.tx_window, n + 1, Len(r.tx_window))
           q == [r EXCEPT !.tx_window = w]
<1>1. r.tx_window \in Seq(Slot) /\ r.tx_seq \in Nat /\ n \in Nat
  BY Fields
<1>2. /\ w \in Seq(Slot) /\ Len(w) = Len(r.tx_window) - n
      /\ \A i \in 1 .. Len(w) : w[i] = r.tx_window[n + i]
  BY <1>1
<1> HIDE DEF w
<1>3. q \in Session
  BY <1>2 DEF Good, Session
<1>4. /\ q.tx_window = w /\ q.rx_expected = r.rx_expected /\ q.rxlog = r.rxlog
      /\ q.tx_seq = r.tx_seq /\ q.txlog = r.txlog
  BY DEF Good, Session
<1>5. WindowOf(q)
  <2>1. WindowOf(r)
    BY DEF Good
  <2>2. /\ Len(w) <= BurstFrames /\ Len(w) <= r.tx_seq
        /\ r.tx_seq = Len(r.txlog) /\ r.rx_expected = Len(r.rxlog)
    <3>1. Len(r.tx_window) \in Nat /\ BurstFrames \in Nat
      BY <1>1, WindowAssumption
    <3> QED
      BY <1>1, <1>2, <2>1, <3>1 DEF WindowOf
  <2>3. ASSUME NEW i \in 1 .. Len(w)
        PROVE  w[i].seq = r.tx_seq - Len(w) + i - 1 /\ w[i].unit = r.txlog[w[i].seq + 1]
    <3>1. Len(r.tx_window) \in Nat /\ n + i \in 1 .. Len(r.tx_window) /\ i \in Nat
      BY <1>1, <1>2
    <3>2. /\ r.tx_window[n + i].seq = r.tx_seq - Len(r.tx_window) + (n + i) - 1
          /\ r.tx_window[n + i].unit = r.txlog[r.tx_window[n + i].seq + 1]
      BY <2>1, <3>1 DEF WindowOf
    <3>3. r.tx_seq - Len(r.tx_window) + (n + i) - 1 = r.tx_seq - Len(w) + i - 1
      BY <1>1, <1>2, <3>1
    <3> QED
      BY <1>2, <3>2, <3>3
  <2> QED
    BY <1>4, <2>2, <2>3 DEF WindowOf
<1> QED
  BY <1>3, <1>5 DEF SlideWindow, Good, w

LEMMA ImplicitAckGood == ASSUME NEW r, Good(r) PROVE Good(ImplicitAck(r))
<1> DEFINE q == [r EXCEPT !.tx_window = <<>>]
<1>1. q \in Session
  <2>1. <<>> \in Seq(Slot)
    OBVIOUS
  <2> QED
    BY <2>1 DEF Good, Session
<1>2. /\ q.tx_window = <<>> /\ q.rx_expected = r.rx_expected /\ q.rxlog = r.rxlog
      /\ q.tx_seq = r.tx_seq /\ q.txlog = r.txlog /\ r.tx_seq \in Nat
  BY DEF Good, Session
<1>3. WindowOf(q)
  BY <1>2, WindowAssumption DEF Good, WindowOf
<1>4. Good(q)
  BY <1>1, <1>3 DEF Good
<1> HIDE DEF q
<1>5. Good([q EXCEPT !.tx_retries_left = DataSlots])
  BY <1>4, Keeps, SlotAssumption
<1> QED
  BY <1>5 DEF ImplicitAck, q

-----------------------------------------------------------------------------
(* Helpers made of those *)

LEMMA TransmitNowGood ==
    ASSUME NEW r, Good(r), NEW burst \in BurstSizes
    PROVE  Good(TransmitNow(r, burst))
<1>1. Good(DflowEnter(r, "DATA_TX", "none"))
  BY DflowEnterGood DEF DflowStates
<1> QED
  BY <1>1, SendDataBurstGood DEF TransmitNow

LEMMA EnterIdleIssGood ==
    ASSUME NEW r, Good(r), NEW burst \in BurstSizes
    PROVE  Good(EnterIdleIss(r, burst))
<1>1. Good([r EXCEPT !.tx_retries_left = DataSlots])
  BY Keeps, SlotAssumption
<1> QED
  BY <1>1, TransmitNowGood, StartDisconnectGood, DflowEnterGood
  DEF EnterIdleIss, DflowStates

LEMMA EnterIdleIssGuardedGood ==
    ASSUME NEW r, Good(r), NEW wanted \in PayloadModes
    PROVE  Good(EnterIdleIssGuarded(r, wanted))
<1>1. Good([r EXCEPT !.tx_retries_left = DataSlots])
  BY Keeps, SlotAssumption
<1> QED
  BY <1>1, StartModeReqGood, TransmitGuardedGood, StartDisconnectGood, DflowEnterGood
  DEF EnterIdleIssGuarded, DflowStates

LEMMA AppListenGood == ASSUME NEW r, Good(r) PROVE Good(AppListen(r))
  BY StartDisconnectGood, SessEnterGood DEF AppListen, ConnStates

LEMMA AppStopListenGood == ASSUME NEW r, Good(r) PROVE Good(AppStopListen(r))
  BY StartDisconnectGood, SessEnterGood DEF AppStopListen, ConnStates

LEMMA StartCallGood ==
    ASSUME NEW r, Good(r), NEW sid \in SessionIds
    PROVE  Good(StartCall(r, sid))
<1> DEFINE q == [r EXCEPT !.session_id = sid, !.tx_retries_left = CallSlots,
                          !.pending_disconnect = "no",
                          !.payload_mode = SafeMode, !.peer_tx_mode = SafeMode]
<1>1. Good(q)
  BY Keeps, SessionIdAssumption, SlotAssumption, ModeAssumption
<1> HIDE DEF q
<1>2. Good(SendCtrlFrame(q, "CALL"))
  BY <1>1, SendCtrlFrameGood DEF FrameTypes
<1> QED
  BY <1>2, SessEnterGood DEF StartCall, ConnStates, TimerEvents, q

LEMMA AppConnectGood ==
    ASSUME NEW r, Good(r), NEW sid \in SessionIds
    PROVE  Good(AppConnect(r, sid))
<1>1. Good(SessEnter(r, "DISCONNECTED", "none"))
  BY SessEnterGood DEF ConnStates
<1>2. Good(NotifyCancelPending(SessEnter(r, "DISCONNECTED", "none")))
  BY <1>1, NotifyCancelPendingGood
<1> QED
  BY <1>1, <1>2, StartCallGood, StartDisconnectGood DEF AppConnect

LEMMA AppDisconnectGood == ASSUME NEW r, Good(r) PROVE Good(AppDisconnect(r))
<1>1. Good(EndCall(r)) /\ Good(EndCall(NotifyCancelPending(r)))
  BY EndCallGood, NotifyCancelPendingGood
<1>2. Good([r EXCEPT !.pending_disconnect = "draining"])
  BY Keeps
<1> QED
  BY <1>1, <1>2, StartDisconnectGood DEF AppDisconnect

LEMMA BecomeCalleeGood ==
    ASSUME NEW r, Good(r), NEW f \in Frame, f.type = "DATA" => f.mode \in PayloadModes
    PROVE  Good(BecomeCallee(r, f))
<1>1. Good(EnterIdleIrs(StartSession(r, "CALLEE")))
  BY StartSessionGood, EnterIdleIrsGood
<1> QED
  BY <1>1, ReceiveDataGood DEF BecomeCallee

LEMMA AfterKeepaliveGood ==
    ASSUME NEW r, Good(r), NEW from_irs, NEW wanted \in PayloadModes
    PROVE  Good(AfterKeepalive(r, from_irs, wanted))
  BY EnterIdleIrsGood, EnterIdleIssGuardedGood DEF AfterKeepalive

-----------------------------------------------------------------------------
(* Steps of a station: every handler makes one station's session another   *)
(* good one.                                                               *)

AllGood == st \in [Station -> Session] /\ WindowIsTail

LEMMA StationGood ==
    ASSUME AllGood, NEW s \in Station
    PROVE  Good(st[s])
  BY DEF AllGood, WindowIsTail, Good

LEMMA BecomeGood ==
    ASSUME AllGood, NEW s \in Station, NEW r, Good(r), Become(s, r)
    PROVE  AllGood'
  BY DEF AllGood, WindowIsTail, Good, Become

LEMMA StutterGood == ASSUME AllGood, UNCHANGED st PROVE AllGood'
  BY DEF AllGood, WindowIsTail, WindowOf

LEMMA FiredGood ==
    ASSUME AllGood, NEW s \in Station
    PROVE  Good(Fired(s))
  BY StationGood, Keeps DEF Fired

(* The application's data and commands. *)

LEMMA HostWriteGood ==
    ASSUME AllGood, NEW s \in Station, HostWrite(s)
    PROVE  AllGood'
<1>1. Good(st[s]) /\ st[s].written + 1 \in Nat /\ st[s].data_ready + 1 \in Nat
  BY StationGood, Fields
<1>2. Append(st[s].backlog, st[s].written + 1) \in Seq(Nat)
  BY <1>1, Fields
<1>3. Good([st[s] EXCEPT !.written = @ + 1,
                         !.backlog = Append(@, st[s].written + 1),
                         !.data_ready = @ + 1])
  BY <1>1, <1>2, Keeps
<1> QED
  BY <1>3, BecomeGood DEF HostWrite

LEMMA CommandGood ==
    ASSUME AllGood, NEW s \in Station, Command(s)
    PROVE  AllGood'
<1> Good(st[s])
  BY StationGood
<1>1. CASE HostListen(s)
  <2>1. Good([st[s] EXCEPT !.listen_enabled = TRUE])
    BY Keeps
  <2> QED
    BY <1>1, <2>1, AppListenGood, BecomeGood DEF HostListen
<1>2. CASE HostStopListen(s)
  <2>1. Good([st[s] EXCEPT !.listen_enabled = FALSE])
    BY Keeps
  <2> QED
    BY <1>2, <2>1, AppStopListenGood, BecomeGood DEF HostStopListen
<1>3. CASE \E sid \in SessionIds : HostConnect(s, sid)
  BY <1>3, AppConnectGood, BecomeGood DEF HostConnect
<1>4. CASE HostDisconnect(s)
  <2>1. Good([st[s] EXCEPT !.host = "idle"])
    BY Keeps
  <2> QED
    BY <1>4, <2>1, AppDisconnectGood, BecomeGood DEF HostDisconnect
<1>5. CASE HostClientGone(s)
  BY <1>5, AppDisconnectGood, BecomeGood DEF HostClientGone
<1>6. CASE HostAbort(s)
  <2>1. <<>> \in Seq(Nat) /\ <<>> \in Seq(Burst)
    OBVIOUS
  <2>2. Good([st[s] EXCEPT !.host = "idle", !.backlog = <<>>, !.txq = <<>>])
    BY <2>1, Keeps
  <2> QED
    BY <1>6, <2>2, AppDisconnectGood, BecomeGood DEF HostAbort
<1>7. CASE HostCq(s)
  <2>1. PlainFrame("CQ", 0) \in Frame
    BY PlainFrameType DEF FrameTypes
  <2> QED
    BY <1>7, <2>1, SendControlGood, BecomeGood DEF HostCq
<1> QED
  BY <1>1, <1>2, <1>3, <1>4, <1>5, <1>6, <1>7 DEF Command

(* What a decoder hands over, or a station builds. *)
WellFormed(f) ==
    /\ f \in Frame
    /\ f.type \in {"DATA", "MODE_REQ", "MODE_ACK"} => f.mode \in PayloadModes

LEMMA CallFrameGood ==
    ASSUME AllGood, NEW s \in Station, NEW f, WellFormed(f),
           \/ ListeningRxCall(s, f) \/ ListeningRxAccept(s, f)
           \/ ListeningRxTraffic(s, f)
           \/ AcceptingRxTraffic(s, f) \/ AcceptingRxCall(s, f)
           \/ \E wanted \in PayloadModes : CallingRxAccept(s, f, wanted)
    PROVE  AllGood'
<1> Good(st[s]) /\ f \in Frame /\ f.sid \in Nat
  BY StationGood DEF WellFormed, Frame
<1>1. CASE ListeningRxCall(s, f)
  <2>1. Good([st[s] EXCEPT !.session_id = f.sid, !.tx_retries_left = AcceptSlots,
                           !.payload_mode = SafeMode, !.peer_tx_mode = SafeMode,
                           !.host = "pending"])
    BY Keeps, SlotAssumption, ModeAssumption
  <2> QED
    BY <1>1, <2>1, SessEnterGood, BecomeGood DEF ListeningRxCall, ConnStates, TimerEvents
<1>2. CASE ListeningRxAccept(s, f)
  BY <1>2, SendCtrlFrameGood, BecomeGood DEF ListeningRxAccept, FrameTypes
<1>3. CASE ListeningRxTraffic(s, f)
  <2>1. Good([st[s] EXCEPT !.pending_disconnect = "no"])
    BY Keeps
  <2> QED
    BY <1>3, <2>1, BecomeCalleeGood, BecomeGood DEF ListeningRxTraffic, WellFormed
<1>4. CASE AcceptingRxTraffic(s, f)
  BY <1>4, BecomeCalleeGood, BecomeGood DEF AcceptingRxTraffic, WellFormed
<1>5. CASE AcceptingRxCall(s, f)
  <2>1. Good([st[s] EXCEPT !.tx_retries_left = AcceptSlots])
    BY Keeps, SlotAssumption
  <2> QED
    BY <1>5, <2>1, BecomeGood DEF AcceptingRxCall
<1>6. ASSUME NEW wanted \in PayloadModes, CallingRxAccept(s, f, wanted)
      PROVE  AllGood'
  <2> DEFINE q == [st[s] EXCEPT !.pending_disconnect = "no",
                                !.pending_connect_confirm = FALSE,
                                !.need_initial_guard = HasBacklog(st[s])]
  <2>1. Good(q)
    BY Keeps, HasBacklogType
  <2> HIDE DEF q
  <2>2. Good(StartSession(q, "CALLER"))
    BY <2>1, StartSessionGood
  <2>3. /\ Good(EnterIdleIssGuarded(StartSession(q, "CALLER"), wanted))
        /\ Good(ArmConnectConfirm(StartSession(q, "CALLER")))
    BY <2>2, EnterIdleIssGuardedGood, ArmConnectConfirmGood
  <2> QED
    BY <1>6, <2>3, BecomeGood DEF CallingRxAccept, q
<1> QED
  BY <1>1, <1>2, <1>3, <1>4, <1>5, <1>6

LEMMA ConnectedFrameGood ==
    ASSUME AllGood, NEW s \in Station, NEW f, WellFormed(f),
           \/ ConnectedRxAccept(s, f) \/ ConnectedRxDisconnect(s, f)
           \/ DisconnectingRxDisconnect(s, f) \/ ConnectedRxKeepalive(s, f)
           \/ RxTurnReq(s, f) \/ RxModeReq(s, f)
    PROVE  AllGood'
<1> Good(st[s])
  BY StationGood
<1>1. CASE ConnectedRxAccept(s, f)
  BY <1>1, ArmConnectConfirmGood, BecomeGood DEF ConnectedRxAccept
<1>2. CASE ConnectedRxDisconnect(s, f)
  <2>1. Good(SendCtrlFrame(st[s], "DISCONNECT"))
    BY SendCtrlFrameGood DEF FrameTypes
  <2>2. Good([SendCtrlFrame(st[s], "DISCONNECT") EXCEPT !.pending_disconnect = "no",
                                                        !.pending_disconnect_notify = TRUE])
    BY <2>1, Keeps
  <2> QED
    BY <1>2, <2>2, SessEnterGood, BecomeGood DEF ConnectedRxDisconnect, ConnStates
<1>3. CASE DisconnectingRxDisconnect(s, f)
  BY <1>3, EndCallGood, BecomeGood DEF DisconnectingRxDisconnect
<1>4. CASE ConnectedRxKeepalive(s, f)
  <2> DEFINE r == [st[s] EXCEPT !.keepalive_miss_count = 0]
             irs == r.dflow_state = "IDLE_IRS"
  <2>1. Good(r) /\ irs \in BOOLEAN
    BY Keeps
  <2>2. Become(s, IF r.dflow_state \in {"IDLE_ISS", "IDLE_IRS"}
                  THEN DflowEnter([r EXCEPT !.keepalive_ack_from_irs = irs],
                                  "KEEPALIVE_ACK_TX", "TIMER_ACK")
                  ELSE SendCtrlFrame(r, "KEEPALIVE_ACK"))
    BY <1>4 DEF ConnectedRxKeepalive
  <2> HIDE DEF r, irs
  <2>3. Good([r EXCEPT !.keepalive_ack_from_irs = irs])
    BY <2>1, Keeps
  <2>4. /\ Good(DflowEnter([r EXCEPT !.keepalive_ack_from_irs = irs],
                           "KEEPALIVE_ACK_TX", "TIMER_ACK"))
        /\ Good(SendCtrlFrame(r, "KEEPALIVE_ACK"))
    BY <2>1, <2>3, DflowEnterGood, SendCtrlFrameGood
    DEF DflowStates, TimerEvents, FrameTypes
  <2> QED
    BY <2>2, <2>4, BecomeGood
<1>5. CASE RxTurnReq(s, f)
  BY <1>5, DflowEnterGood, BecomeGood DEF RxTurnReq, DflowStates, TimerEvents
<1>6. CASE RxModeReq(s, f)
  <2> DEFINE r == IF st[s].dflow_state = "WAIT_ACK" THEN ImplicitAck(st[s]) ELSE st[s]
  <2>1. Good(r)
    BY ImplicitAckGood
  <2>2. f.mode \in PayloadModes
    BY <1>6 DEF RxModeReq, WellFormed
  <2>3. Become(s, DflowEnter([r EXCEPT !.peer_tx_mode = f.mode],
                             "MODE_ACK_TX", "TIMER_ACK"))
    BY <1>6 DEF RxModeReq
  <2> HIDE DEF r
  <2>4. Good([r EXCEPT !.peer_tx_mode = f.mode])
    BY <2>1, <2>2, Keeps
  <2> QED
    BY <2>3, <2>4, DflowEnterGood, BecomeGood DEF DflowStates, TimerEvents
<1> QED
  BY <1>1, <1>2, <1>3, <1>4, <1>5, <1>6

LEMMA StreamFrameGood ==
    ASSUME AllGood, NEW s \in Station, NEW f, WellFormed(f),
           NEW burst \in BurstSizes, NEW wanted \in PayloadModes,
           \/ RxData(s, f) \/ WaitAckRxData(s, f, burst) \/ WaitAckRxAck(s, f, wanted)
    PROVE  AllGood'
<1> Good(st[s]) /\ f \in Frame
  BY StationGood DEF WellFormed
<1>1. CASE RxData(s, f)
  BY <1>1, ReceiveDataGood, BecomeGood DEF RxData, WellFormed
<1>2. CASE WaitAckRxData(s, f, burst)
  <2>1. f.mode \in PayloadModes
    BY <1>2 DEF WaitAckRxData, WellFormed
  <2>2. Good(ReceiveData(ImplicitAck(st[s]), f))
    BY <2>1, ImplicitAckGood, ReceiveDataGood
  <2>3. Good([st[s] EXCEPT !.peer_tx_mode = f.mode])
    BY <2>1, Keeps
  <2>4. Good(TransmitNow([st[s] EXCEPT !.peer_tx_mode = f.mode], burst))
    BY <2>3, TransmitNowGood
  <2> QED
    BY <1>2, <2>2, <2>4, BecomeGood DEF WaitAckRxData
<1>3. CASE WaitAckRxAck(s, f, wanted)
  <2> DEFINE n == AckedCount(st[s].tx_window, f.seq)
             q == SlideWindow(st[s], n)
             slid == [q EXCEPT !.tx_retries_left = DataSlots, !.peer_has_data = f.has_data]
  <2>1. f.seq \in Nat /\ f.has_data \in BOOLEAN
    BY WindowAssumption DEF Frame
  <2>2. Good(q)
    BY <2>1, AckedCountBound, SlideWindowGood
  <2>3. Become(s, IF slid.tx_window # <<>> THEN TransmitGuarded(slid)
                  ELSE IF f.has_data THEN EnterIdleIrs(slid)
                  ELSE EnterIdleIssGuarded(slid, wanted))
    BY <1>3 DEF WaitAckRxAck
  <2> HIDE DEF q
  <2>4. Good(slid)
    BY <2>1, <2>2, Keeps, SlotAssumption
  <2> HIDE DEF slid
  <2> QED
    BY <2>3, <2>4, TransmitGuardedGood, EnterIdleIrsGood, EnterIdleIssGuardedGood, BecomeGood
<1> QED
  BY <1>1, <1>2, <1>3

LEMMA AnswerFrameGood ==
    ASSUME AllGood, NEW s \in Station, NEW f, WellFormed(f), NEW wanted \in PayloadModes,
           \/ TurnReqRxTurnAck(s, f, wanted) \/ KeepaliveWaitRx(s, f, wanted)
           \/ ModeReqRxModeAck(s, f, wanted)
    PROVE  AllGood'
<1> Good(st[s])
  BY StationGood
<1>1. CASE TurnReqRxTurnAck(s, f, wanted)
  BY <1>1, EnterIdleIssGuardedGood, BecomeGood DEF TurnReqRxTurnAck
<1>2. CASE KeepaliveWaitRx(s, f, wanted)
  <2> DEFINE r == [st[s] EXCEPT !.keepalive_miss_count = 0]
             q == IF f.type = "KEEPALIVE" THEN SendCtrlFrame(r, "KEEPALIVE_ACK") ELSE r
  <2>1. Good(r)
    BY Keeps
  <2>2. Good(q)
    BY <2>1, SendCtrlFrameGood DEF FrameTypes
  <2>3. Become(s, AfterKeepalive(q, r.keepalive_from_irs, wanted))
    BY <1>2 DEF KeepaliveWaitRx
  <2> HIDE DEF q, r
  <2> QED
    BY <2>2, <2>3, AfterKeepaliveGood, BecomeGood
<1>3. CASE ModeReqRxModeAck(s, f, wanted)
  <2>1. f.mode \in PayloadModes
    BY <1>3 DEF ModeReqRxModeAck, WellFormed
  <2>2. Good([st[s] EXCEPT !.payload_mode = f.mode])
    BY <2>1, Keeps
  <2> QED
    BY <1>3, <2>2, EnterIdleIssGuardedGood, BecomeGood DEF ModeReqRxModeAck
<1> QED
  BY <1>1, <1>2, <1>3

LEMMA HandleFrameGood ==
    ASSUME AllGood, NEW s \in Station, NEW f, WellFormed(f), HandleFrame(s, f)
    PROVE  AllGood'
<1>1. 1 \in BurstSizes /\ SafeMode \in PayloadModes
  BY ModeAssumption DEF BurstSizes
<1> QED
  BY <1>1, CallFrameGood, ConnectedFrameGood, StreamFrameGood, AnswerFrameGood
  DEF HandleFrame

LEMMA ForcedTeardownGood ==
    ASSUME AllGood, NEW s \in Station, ForcedTeardown(s)
    PROVE  AllGood'
  BY StationGood, StartDisconnectGood, BecomeGood DEF ForcedTeardown

(* The deadline that has passed. *)

LEMMA CallTimerGood ==
    ASSUME AllGood, NEW s \in Station,
           \/ CallingRetry(s) \/ AcceptingRetry(s)
           \/ DisconnectingGuardOver(s) \/ DisconnectingRetry(s)
    PROVE  AllGood'
<1> Good(st[s])
  BY StationGood
<1>1. ASSUME st[s].tx_retries_left > 0
      PROVE  Good([st[s] EXCEPT !.tx_retries_left = @ - 1])
  <2>1. st[s].tx_retries_left - 1 \in Nat
    BY <1>1, Fields
  <2> QED
    BY <2>1, Keeps
<1>2. Good(EndCall(st[s]))
  BY EndCallGood
<1>3. CASE CallingRetry(s)
  BY <1>1, <1>2, <1>3, SendCtrlFrameGood, BecomeGood DEF CallingRetry, FrameTypes
<1>4. CASE AcceptingRetry(s)
  <2>1. Good(SessEnter(NotifyCancelPending(st[s]), "LISTENING", "none"))
    BY NotifyCancelPendingGood, SessEnterGood DEF ConnStates
  <2> QED
    BY <1>1, <1>4, <2>1, SendCtrlFrameGood, BecomeGood DEF AcceptingRetry, FrameTypes
<1>5. CASE DisconnectingGuardOver(s)
  <2>1. Good(SendCtrlFrame(st[s], "DISCONNECT"))
    BY SendCtrlFrameGood DEF FrameTypes
  <2>2. Good([SendCtrlFrame(st[s], "DISCONNECT") EXCEPT !.deadline = "TIMER_RETRY"])
    BY <2>1, Keeps DEF TimerEvents
  <2> QED
    BY <1>5, <2>2, BecomeGood DEF DisconnectingGuardOver
<1>6. CASE DisconnectingRetry(s)
  BY <1>1, <1>2, <1>6, SendCtrlFrameGood, BecomeGood DEF DisconnectingRetry, FrameTypes
<1> QED
  BY <1>3, <1>4, <1>5, <1>6

LEMMA StreamTimerGood ==
    ASSUME AllGood, NEW s \in Station, NEW burst \in BurstSizes,
           NEW wanted \in PayloadModes, NEW dead \in BOOLEAN,
           \/ DataTxGuardOver(s, burst) \/ WaitAckRetransmit(s, burst)
           \/ WaitAckExhausted(s, dead, burst, wanted)
           \/ DataRxGuardOver(s) \/ AckTxConfirm(s)
    PROVE  AllGood'
<1> Good(st[s])
  BY StationGood
<1>1. CASE DataTxGuardOver(s, burst)
  BY <1>1, FiredGood, SendDataBurstGood, BecomeGood DEF DataTxGuardOver
<1>2. CASE WaitAckRetransmit(s, burst)
  <2> DEFINE left == IF st[s].pending_disconnect # "no" THEN 1 ELSE st[s].tx_retries_left
  <2>1. left - 1 \in Nat
    BY <1>2, Fields DEF WaitAckRetransmit
  <2>2. Become(s, TransmitNow([st[s] EXCEPT !.tx_retries_left = left - 1], burst))
    BY <1>2 DEF WaitAckRetransmit
  <2> HIDE DEF left
  <2>3. Good([st[s] EXCEPT !.tx_retries_left = left - 1])
    BY <2>1, Keeps
  <2> QED
    BY <2>2, <2>3, TransmitNowGood, BecomeGood
<1>3. CASE WaitAckExhausted(s, dead, burst, wanted)
  <2> DEFINE again == [st[s] EXCEPT !.tx_retries_left = DataSlots]
             bye == [SendCtrlFrame(st[s], "DISCONNECT") EXCEPT
                        !.pending_disconnect = "no", !.tx_retries_left = DisconnectSlots]
  <2>1. Good(again)
    BY Keeps, SlotAssumption
  <2>2. Good(bye)
    <3>1. Good(SendCtrlFrame(st[s], "DISCONNECT"))
      BY SendCtrlFrameGood DEF FrameTypes
    <3> QED
      BY <3>1, Keeps, SlotAssumption
  <2>3. Become(s, IF dead \/ st[s].pending_disconnect # "no"
                  THEN SessEnter(bye, "DISCONNECTING", "TIMER_RETRY")
                  ELSE IF UpgradeStarts(again, wanted) THEN StartModeReq(again, wanted)
                  ELSE TransmitNow(again, burst))
    BY <1>3 DEF WaitAckExhausted
  <2> HIDE DEF again, bye
  <2>4. Good(SessEnter(bye, "DISCONNECTING", "TIMER_RETRY"))
    BY <2>2, SessEnterGood DEF ConnStates, TimerEvents
  <2>5. Good(StartModeReq(again, wanted)) /\ Good(TransmitNow(again, burst))
    BY <2>1, StartModeReqGood, TransmitNowGood
  <2> QED
    BY <2>3, <2>4, <2>5, BecomeGood
<1>4. CASE DataRxGuardOver(s)
  <2>1. Good(SendAck(st[s]))
    BY SendAckGood
  <2>2. Good([SendAck(st[s]) EXCEPT !.acktx_had_has_data = HasBacklog(st[s])])
    BY <2>1, HasBacklogType, Keeps
  <2> QED
    BY <1>4, <2>2, DflowEnterGood, BecomeGood DEF DataRxGuardOver, DflowStates
<1>5. CASE AckTxConfirm(s)
  <2>1. Good(SendAck(st[s]))
    BY SendAckGood
  <2> QED
    BY <1>5, <2>1, DflowEnterGood, BecomeGood DEF AckTxConfirm, DflowStates
<1> QED
  BY <1>1, <1>2, <1>3, <1>4, <1>5

LEMMA TurnTimerGood ==
    ASSUME AllGood, NEW s \in Station, NEW quiet \in BOOLEAN,
           \/ IdleIrsPeerBacklog(s, quiet) \/ TurnReqRetry(s) \/ TurnAckGuardOver(s)
           \/ KeepaliveMiss(s) \/ KeepaliveAckGuardOver(s)
    PROVE  AllGood'
<1> Good(st[s]) /\ Good(Fired(s))
  BY StationGood, FiredGood
<1>1. CASE IdleIrsPeerBacklog(s, quiet)
  <2>1. Good([Fired(s) EXCEPT !.keepalive_miss_count = 0, !.keepalive_from_irs = TRUE])
    BY Keeps
  <2>2. Good([Fired(s) EXCEPT !.tx_retries_left = TurnReqRetries])
    BY Keeps, SlotAssumption
  <2> QED
    BY <1>1, <2>1, <2>2, SendKeepaliveGood, SendTurnReqGood, EnterIdleIrsGood, BecomeGood
    DEF IdleIrsPeerBacklog
<1>2. CASE TurnReqRetry(s)
  <2>1. ASSUME st[s].tx_retries_left > 0
        PROVE  Good([st[s] EXCEPT !.tx_retries_left = @ - 1])
    <3>1. st[s].tx_retries_left - 1 \in Nat
      BY <2>1, Fields
    <3> QED
      BY <3>1, Keeps
  <2> QED
    BY <1>2, <2>1, SendTurnReqGood, EnterIdleIrsGood, BecomeGood DEF TurnReqRetry
<1>3. CASE TurnAckGuardOver(s)
  BY <1>3, SendCtrlFrameGood, BecomeGood DEF TurnAckGuardOver, FrameTypes
<1>4. CASE KeepaliveMiss(s)
  <2> DEFINE r == [st[s] EXCEPT !.keepalive_miss_count = @ + 1]
             bye == [SendCtrlFrame(r, "DISCONNECT") EXCEPT !.tx_retries_left = DisconnectSlots]
  <2>1. Good(r)
    <3>1. st[s].keepalive_miss_count + 1 \in Nat
      BY Fields
    <3> QED
      BY <3>1, Keeps
  <2>2. Become(s, IF r.keepalive_miss_count >= KeepaliveMissLimit
                  THEN SessEnter(bye, "DISCONNECTING", "TIMER_RETRY")
                  ELSE SendKeepalive(r))
    BY <1>4 DEF KeepaliveMiss
  <2> HIDE DEF r
  <2>3. Good(bye)
    <3>1. Good(SendCtrlFrame(r, "DISCONNECT"))
      BY <2>1, SendCtrlFrameGood DEF FrameTypes
    <3> QED
      BY <3>1, Keeps, SlotAssumption
  <2> HIDE DEF bye
  <2>4. Good(SessEnter(bye, "DISCONNECTING", "TIMER_RETRY")) /\ Good(SendKeepalive(r))
    BY <2>1, <2>3, SessEnterGood, SendKeepaliveGood DEF ConnStates, TimerEvents
  <2> QED
    BY <2>2, <2>4, BecomeGood
<1>5. CASE KeepaliveAckGuardOver(s)
  BY <1>5, SendCtrlFrameGood, BecomeGood DEF KeepaliveAckGuardOver, FrameTypes
<1> QED
  BY <1>1, <1>2, <1>3, <1>4, <1>5

LEMMA ModeTimerGood ==
    ASSUME AllGood, NEW s \in Station,
           ModeAckGuardOver(s) \/ ModeReqRetry(s) \/ TimerUnhandled(s)
    PROVE  AllGood'
<1> Good(st[s]) /\ Good(Fired(s))
  BY StationGood, FiredGood
<1>1. CASE ModeAckGuardOver(s)
  BY <1>1, Fields, SendModeNegotiationGood, BecomeGood DEF ModeAckGuardOver, FrameTypes
<1>2. CASE ModeReqRetry(s)
  <2> DEFINE again == SendModeNegotiation([st[s] EXCEPT !.tx_retries_left = @ - 1],
                                          "MODE_REQ", st[s].pending_tx_mode)
             revert == SendModeNegotiation([st[s] EXCEPT !.pending_tx_mode = "none"],
                                           "MODE_REQ", st[s].payload_mode)
  <2>1. ASSUME st[s].tx_retries_left > 0 PROVE Good(again)
    <3>1. st[s].tx_retries_left - 1 \in Nat /\ st[s].pending_tx_mode \in PayloadModes \cup {"none"}
      BY <2>1, Fields
    <3>2. Good([st[s] EXCEPT !.tx_retries_left = @ - 1])
      BY <3>1, Keeps
    <3> QED
      BY <3>1, <3>2, SendModeNegotiationGood DEF FrameTypes
  <2>2. Good(revert)
    <3>1. Good([st[s] EXCEPT !.pending_tx_mode = "none"]) /\ st[s].payload_mode \in PayloadModes
      BY Keeps, Fields
    <3> QED
      BY <3>1, SendModeNegotiationGood DEF FrameTypes
  <2>3. Become(s, DflowEnter(IF st[s].tx_retries_left > 0 THEN again ELSE revert,
                             "MODE_REQ_TX", "none"))
    BY <1>2 DEF ModeReqRetry
  <2> HIDE DEF again, revert
  <2> QED
    BY <2>1, <2>2, <2>3, DflowEnterGood, BecomeGood DEF DflowStates
<1>3. CASE TimerUnhandled(s)
  BY <1>3, BecomeGood DEF TimerUnhandled
<1> QED
  BY <1>1, <1>2, <1>3

LEMMA OnTimerGood ==
    ASSUME AllGood, NEW s \in Station, OnTimer(s)
    PROVE  AllGood'
<1>1. 1 \in BurstSizes /\ SafeMode \in PayloadModes /\ TRUE \in BOOLEAN
  BY ModeAssumption DEF BurstSizes
<1>2. CASE HandleTimer(s)
  BY <1>1, <1>2, CallTimerGood, StreamTimerGood, TurnTimerGood, ModeTimerGood
  DEF HandleTimer
<1> QED
  BY <1>2, ForcedTeardownGood DEF OnTimer

(* TX_COMPLETE. *)
LEMMA OnTxCompleteGood ==
    ASSUME AllGood, NEW s \in Station, OnTxComplete(s)
    PROVE  AllGood'
<1> Good(st[s])
  BY StationGood
<1>1. CASE ForcedTeardown(s)
  BY <1>1, ForcedTeardownGood
<1>2. CASE DisconnectedTxComplete(s)
  <2>1. Good([st[s] EXCEPT !.pending_disconnect_notify = FALSE])
    BY Keeps
  <2> QED
    BY <1>2, <2>1, EndCallGood, BecomeGood DEF DisconnectedTxComplete
<1>3. CASE AcceptingTxComplete(s)
  <2>1. Good([st[s] EXCEPT !.deadline = "TIMER_RETRY"])
    BY Keeps DEF TimerEvents
  <2> QED
    BY <1>3, <2>1, BecomeGood DEF AcceptingTxComplete
<1>4. CASE DataTxComplete(s)
  BY <1>4, DflowEnterGood, BecomeGood DEF DataTxComplete, DflowStates, TimerEvents
<1>5. CASE TurnReqTxComplete(s)
  BY <1>5, DflowEnterGood, BecomeGood DEF TurnReqTxComplete, DflowStates, TimerEvents
<1>6. CASE GaveTurnTxComplete(s)
  BY <1>6, EnterIdleIrsGood, BecomeGood DEF GaveTurnTxComplete
<1>7. CASE KeepaliveTxComplete(s)
  BY <1>7, DflowEnterGood, BecomeGood DEF KeepaliveTxComplete, DflowStates, TimerEvents
<1>8. ASSUME NEW burst \in BurstSizes, ModeReqTxComplete(s, burst)
      PROVE  AllGood'
  <2>1. Good([st[s] EXCEPT !.tx_retries_left = DataSlots])
    BY Keeps, SlotAssumption
  <2>2. Good(DflowEnter(st[s], "MODE_REQ_WAIT", "TIMER_RETRY"))
    BY DflowEnterGood DEF DflowStates, TimerEvents
  <2> QED
    BY <1>8, <2>1, <2>2, TransmitGuardedGood, EnterIdleIssGood, BecomeGood
    DEF ModeReqTxComplete
<1>9. ASSUME NEW wanted \in PayloadModes, KeepaliveAckTxComplete(s, wanted)
      PROVE  AllGood'
  BY <1>9, AfterKeepaliveGood, BecomeGood DEF KeepaliveAckTxComplete
<1>10. ASSUME NEW burst \in BurstSizes, NEW wanted \in PayloadModes,
              AckTxComplete(s, burst, wanted)
       PROVE  AllGood'
  <2>1. Good([st[s] EXCEPT !.pending_connect_confirm = FALSE])
    BY Keeps
  <2> QED
    BY <1>10, <2>1, EnterIdleIssGuardedGood, EnterIdleIssGood, EnterIdleIrsGood, BecomeGood
    DEF AckTxComplete
<1>11. CASE TxCompleteIgnored(s)
  BY <1>11, StutterGood DEF TxCompleteIgnored
<1> QED
  BY <1>1, <1>2, <1>3, <1>4, <1>5, <1>6, <1>7, <1>8, <1>9, <1>10, <1>11
  DEF OnTxComplete, HandleTxComplete

(* APP_DATA_READY. *)
LEMMA OnDataReadyGood ==
    ASSUME AllGood, NEW s \in Station, OnDataReady(s)
    PROVE  AllGood'
<1> DEFINE r == [st[s] EXCEPT !.data_ready = @ - 1]
<1>1. Good(r)
  <2>1. Good(st[s]) /\ st[s].data_ready - 1 \in Nat
    BY StationGood, Fields DEF OnDataReady
  <2> QED
    BY <2>1, Keeps
<1>2. CASE Become(s, StartDisconnect(r))
  BY <1>1, <1>2, StartDisconnectGood, BecomeGood
<1>3. ASSUME NEW burst \in BurstSizes, IdleIssDataReady(s, burst)
      PROVE  AllGood'
  <2>1. Become(s, IF r.need_initial_guard
                  THEN TransmitGuarded([r EXCEPT !.need_initial_guard = FALSE])
                  ELSE TransmitNow(r, burst))
    BY <1>3 DEF IdleIssDataReady
  <2> HIDE DEF r
  <2>2. Good([r EXCEPT !.need_initial_guard = FALSE])
    BY <1>1, Keeps
  <2> QED
    BY <1>1, <2>1, <2>2, TransmitGuardedGood, TransmitNowGood, BecomeGood
<1>4. CASE IdleIrsDataReady(s)
  <2>1. Become(s, SendTurnReq([r EXCEPT !.tx_retries_left = TurnReqRetries]))
    BY <1>4 DEF IdleIrsDataReady
  <2> HIDE DEF r
  <2>2. Good([r EXCEPT !.tx_retries_left = TurnReqRetries])
    BY <1>1, Keeps, SlotAssumption
  <2> QED
    BY <2>1, <2>2, SendTurnReqGood, BecomeGood
<1>5. CASE DataReadyIgnored(s)
  BY <1>1, <1>5, BecomeGood DEF DataReadyIgnored
<1> QED
  BY <1>2, <1>3, <1>4, <1>5 DEF OnDataReady, HandleDataReady

LEMMA DrainDeadlinePassesGood ==
    ASSUME AllGood, NEW s \in Station, DrainDeadlinePasses(s)
    PROVE  AllGood'
  BY StationGood, Keeps, BecomeGood DEF DrainDeadlinePasses

(* The transmitter's queue. *)

(* A non-empty set of indices has a first one. *)
LEMMA FirstIndex ==
    ASSUME NEW I \in SUBSET Nat, I # {}
    PROVE  \E i \in I : \A j \in I : i <= j
<1>1. PICK i \in I : \A j \in I : ~ (<<j, i>> \in OpToRel(<, Nat))
  BY NatLessThanWellFounded, WFMin
<1>2. \A j \in I : ~ (j < i)
  BY <1>1 DEF OpToRel
<1> QED
  BY <1>2

LEMMA NextActionInQueue ==
    ASSUME NEW q \in Seq(Burst), q # <<>>
    PROVE  NextAction(q) \in 1 .. Len(q)
<1> DEFINE controls == {i \in 1 .. Len(q) : q[i].control}
<1>1. Len(q) \in Nat /\ Len(q) >= 1
  OBVIOUS
<1>2. CASE controls = {}
  BY <1>1, <1>2 DEF NextAction
<1>3. CASE controls # {}
  <2>1. \E i \in controls : \A j \in controls : i <= j
    <3>1. controls \in SUBSET Nat
      BY <1>1
    <3> HIDE DEF controls
    <3> QED
      BY <1>3, <3>1, FirstIndex
  <2>2. (CHOOSE i \in controls : \A j \in controls : i <= j) \in controls
    BY <2>1
  <2> QED
    BY <1>3, <2>2 DEF NextAction
<1> QED
  BY <1>2, <1>3

LEMMA RemoveAtType ==
    ASSUME NEW q \in Seq(Burst), NEW k \in 1 .. Len(q)
    PROVE  RemoveAt(q, k) \in Seq(Burst)
<1>1. SubSeq(q, 1, k - 1) \in Seq(Burst) /\ SubSeq(q, k + 1, Len(q)) \in Seq(Burst)
  OBVIOUS
<1> QED
  BY <1>1 DEF RemoveAt

LEMMA TxStartGood ==
    ASSUME AllGood, onair \in [Station -> Seq(Frame)], NEW s \in Station, TxStart(s)
    PROVE  AllGood' /\ onair' \in [Station -> Seq(Frame)]
<1> DEFINE k == NextAction(st[s].txq)
           b == st[s].txq[k]
           queue == RemoveAt(st[s].txq, k)
<1>1. Good(st[s]) /\ st[s].txq \in Seq(Burst) /\ st[s].txq # <<>>
  BY StationGood, Fields DEF TxStart
<1>2. k \in 1 .. Len(st[s].txq)
  BY <1>1, NextActionInQueue
<1>3. b \in Burst /\ queue \in Seq(Burst)
  BY <1>1, <1>2, RemoveAtType
<1>4. PICK mode \in RecordedModes(st[s], b) :
         LET r == [st[s] EXCEPT !.txq = queue, !.payload_mode = mode]
         IN  Become(s, IF Overdue(r) THEN StartDisconnect(r) ELSE r)
  BY DEF TxStart
<1>5. onair' = [onair EXCEPT ![s] = b.frames]
  BY DEF TxStart
<1> HIDE DEF b, queue, k
<1>6. b.frames \in Seq(Frame) /\ RecordedModes(st[s], b) \subseteq PayloadModes
  <2>1. b.frames \in Seq(Frame) /\ (b.control \/ b.frames[1].mode \in PayloadModes)
    BY <1>3 DEF Burst
  <2>2. st[s].payload_mode \in PayloadModes
    BY <1>1, Fields
  <2> QED
    BY <2>1, <2>2 DEF RecordedModes
<1>7. onair' \in [Station -> Seq(Frame)]
  BY <1>5, <1>6
<1>8. AllGood'
  <2> DEFINE r == [st[s] EXCEPT !.txq = queue, !.payload_mode = mode]
  <2>1. Good(r)
    BY <1>1, <1>3, <1>6, Keeps
  <2>2. Become(s, IF Overdue(r) THEN StartDisconnect(r) ELSE r)
    BY <1>4
  <2> HIDE DEF r
  <2> QED
    BY <2>1, <2>2, StartDisconnectGood, BecomeGood
<1> QED
  BY <1>7, <1>8

-----------------------------------------------------------------------------
(* The inductive invariant *)

IInv == TypeOK /\ WindowIsTail

LEMMA InitGood == Init => IInv
<1> SUFFICES ASSUME Init PROVE IInv
  OBVIOUS
<1>1. InitSession \in Session
  <2>1. <<>> \in Seq(Nat) /\ <<>> \in Seq(Slot) /\ <<>> \in Seq(Burst)
    OBVIOUS
  <2> QED
    BY <2>1, ModeAssumption DEF InitSession, Session, ConnStates, DflowStates
<1>2. WindowOf(InitSession)
  BY WindowAssumption DEF InitSession, WindowOf
<1>3. <<>> \in Seq(Frame)
  OBVIOUS
<1> QED
  BY <1>1, <1>2, <1>3 DEF Init, IInv, TypeOK, WindowIsTail

LEMMA PeerFramesWellFormed == \A f \in PeerFrames : WellFormed(f)
<1>1. \A f \in ShortFrames : WellFormed(f)
  <2>1. ASSUME NEW type \in ShortTypes, NEW sid \in SessionIds
        PROVE  PlainFrame(type, sid) \in Frame /\ PlainFrame(type, sid).type = type
    BY SessionIdAssumption, PlainFrameType DEF PlainFrame, FrameTypes, ShortTypes
  <2> QED
    BY <2>1 DEF ShortFrames, ShortTypes, WellFormed
<1>2. \A f \in DataFrames : WellFormed(f)
  BY SessionIdAssumption, DataFrameType DEF DataFrames, WellFormed
<1>3. \A f \in AckFrames : WellFormed(f)
  BY SessionIdAssumption, AckFrameType DEF AckFrames, WellFormed
<1>4. \A f \in ModeFrames : WellFormed(f)
  BY SessionIdAssumption, ModeFrameType DEF ModeFrames, WellFormed, FrameTypes
<1> QED
  BY <1>1, <1>2, <1>3, <1>4 DEF PeerFrames

(* A station with any peer at all: every well-formed frame may be decoded, as *)
(* often as it comes.  The theorems are proved of such stations.  Those of    *)
(* Spec, whose peer sends no more than MaxRx units in a session, are among    *)
(* them, and so are those of a link.                                          *)
Hears(s) == \E f \in Frame : WellFormed(f) /\ TxRoom(s) /\ OnFrame(s, f) /\ UNCHANGED onair

OpenNext == \E s \in Station : Local(s) \/ TxStart(s) \/ Hears(s)

OpenSpec == Init /\ [][OpenNext]_vars

LEMMA SpecIsOpen == Spec => OpenSpec
<1>1. [Next]_vars => [OpenNext]_vars
  <2>1. ASSUME NEW s \in Station, NEW f \in PeerFrames, RxFrame(s, f) PROVE Hears(s)
    <3>1. WellFormed(f) /\ f \in Frame
      BY PeerFramesWellFormed DEF WellFormed
    <3> QED
      BY <2>1, <3>1 DEF RxFrame, Hears
  <2> QED
    BY <2>1 DEF Next, OpenNext
<1> QED
  BY <1>1, PTL DEF Spec, OpenSpec

LEMMA NextGood == IInv /\ [OpenNext]_vars => IInv'
<1> SUFFICES ASSUME IInv, [OpenNext]_vars PROVE IInv'
  OBVIOUS
<1>1. AllGood /\ onair \in [Station -> Seq(Frame)]
  BY DEF IInv, TypeOK, AllGood
<1>2. AllGood' /\ onair' \in [Station -> Seq(Frame)]
  <2>1. CASE UNCHANGED vars
    BY <1>1, <2>1, StutterGood DEF vars
  <2>2. ASSUME NEW s \in Station, HostCommand(s) PROVE AllGood' /\ UNCHANGED onair
    BY <1>1, <2>2, CommandGood DEF HostCommand
  <2>3. ASSUME NEW s \in Station, HostData(s) PROVE AllGood' /\ UNCHANGED onair
    BY <1>1, <2>3, HostWriteGood DEF HostData
  <2>4. ASSUME NEW s \in Station, Timer(s) PROVE AllGood' /\ UNCHANGED onair
    BY <1>1, <2>4, OnTimerGood DEF Timer
  <2>5. ASSUME NEW s \in Station, DataReady(s) PROVE AllGood' /\ UNCHANGED onair
    BY <1>1, <2>5, OnDataReadyGood DEF DataReady
  <2>6. ASSUME NEW s \in Station, DrainOver(s) PROVE AllGood' /\ UNCHANGED onair
    BY <1>1, <2>6, DrainDeadlinePassesGood DEF DrainOver
  <2>7. ASSUME NEW s \in Station, TxEnd(s)
        PROVE  AllGood' /\ onair' \in [Station -> Seq(Frame)]
    <3>1. onair' = [onair EXCEPT ![s] = <<>>] /\ OnTxComplete(s)
      BY <2>7 DEF TxEnd
    <3>2. <<>> \in Seq(Frame)
      OBVIOUS
    <3> QED
      BY <1>1, <3>1, <3>2, OnTxCompleteGood
  <2>8. ASSUME NEW s \in Station, TxStart(s)
        PROVE  AllGood' /\ onair' \in [Station -> Seq(Frame)]
    BY <1>1, <2>8, TxStartGood
  <2>9. ASSUME NEW s \in Station, Hears(s) PROVE AllGood' /\ UNCHANGED onair
    <3>1. PICK f \in Frame :
              WellFormed(f) /\ (ForcedTeardown(s) \/ HandleFrame(s, f)) /\ UNCHANGED onair
      BY <2>9 DEF Hears, OnFrame
    <3> QED
      BY <1>1, <3>1, ForcedTeardownGood, HandleFrameGood
  <2> QED
    BY <1>1, <2>1, <2>2, <2>3, <2>4, <2>5, <2>6, <2>7, <2>8, <2>9 DEF OpenNext, Local
<1> QED
  BY <1>2 DEF IInv, TypeOK, AllGood

LEMMA Inductive == OpenSpec => []IInv
  BY InitGood, NextGood, PTL DEF OpenSpec

(* Every session a station reaches, whatever its peer sends and whatever its *)
(* host asks for, has fields of the right types.                             *)
THEOREM TypeCorrect == Spec => []TypeOK
<1>1. IInv => TypeOK
  BY DEF IInv
<1> QED
  BY <1>1, Inductive, SpecIsOpen, PTL

(* The go-back-N window of arq_fsm.c is always the tail of what was read     *)
(* from the application: a sequence number that is unacknowledged stands for *)
(* one unit, the same at every retransmission, for every burst size and      *)
(* retry count and with any peer.                                            *)
THEOREM WindowIntegrity == Spec => []WindowIsTail
<1>1. IInv => WindowIsTail
  BY DEF IInv
<1> QED
  BY <1>1, Inductive, SpecIsOpen, PTL

-----------------------------------------------------------------------------
(* The payload mode of a window.  A queued burst has the payload mode that  *)
(* the session has now, because the mode changes only when nothing is       *)
(* queued; and a mode is asked for with an empty window only, which stays   *)
(* empty until the answer.                                                  *)

Requesting == {"MODE_REQ_TX", "MODE_REQ_WAIT"}

BuiltFor(b, mode) == ~b.control => \A i \in DOMAIN b.frames : b.frames[i].mode = mode

BuiltQueue(q, mode) == \E S : q \in Seq(S) /\ \A b \in S : BuiltFor(b, mode)

Shown(r) ==
    {"conn_state", "dflow_state", "txq", "payload_mode", "tx_window"} \subseteq DOMAIN r

Settled(r) ==
    /\ Shown(r) /\ BuiltQueue(r.txq, r.payload_mode)
    /\ r.dflow_state \in Requesting => r.tx_window = <<>>

KeepsMode(q, r) == Settled(q) /\ q.payload_mode = r.payload_mode

(* q is r but for what is queued and for fields that nothing here looks at. *)
Follows(q, r) ==
    KeepsMode(q, r) /\ q.dflow_state = r.dflow_state /\ q.tx_window = r.tx_window

Alike(q, r) ==
    /\ Shown(q) /\ q.txq = r.txq /\ q.payload_mode = r.payload_mode
    /\ q.dflow_state = r.dflow_state /\ q.tx_window = r.tx_window

LEMMA AlikeFollows == ASSUME NEW r, Settled(r), NEW q, Alike(q, r) PROVE Follows(q, r)
  BY DEF Settled, Alike, Follows, KeepsMode

LEMMA KeepsOn ==
    ASSUME NEW r, NEW p, KeepsMode(p, r), NEW q, KeepsMode(q, p)
    PROVE  KeepsMode(q, r)
  BY DEF KeepsMode

LEMMA AppendBuilt ==
    ASSUME NEW mode, NEW q, BuiltQueue(q, mode), NEW b, BuiltFor(b, mode)
    PROVE  BuiltQueue(Append(q, b), mode)
<1>1. PICK S : q \in Seq(S) /\ \A c \in S : BuiltFor(c, mode)
  BY DEF BuiltQueue
<1>2. Append(q, b) \in Seq(S \cup {b}) /\ \A c \in S \cup {b} : BuiltFor(c, mode)
  BY <1>1
<1> QED
  BY <1>2 DEF BuiltQueue

LEMMA EmptyBuilt == ASSUME NEW mode PROVE BuiltQueue(<<>>, mode)
<1> DEFINE S == {}
<1>1. <<>> \in Seq(S) /\ \A b \in S : BuiltFor(b, mode)
  OBVIOUS
<1> HIDE DEF S
<1> QED
  BY <1>1 DEF BuiltQueue

LEMMA RemoveAtBuilt ==
    ASSUME NEW mode, NEW q, BuiltQueue(q, mode), NEW k \in 1 .. Len(q)
    PROVE  BuiltQueue(RemoveAt(q, k), mode) /\ BuiltFor(q[k], mode)
<1>1. PICK S : q \in Seq(S) /\ \A c \in S : BuiltFor(c, mode)
  BY DEF BuiltQueue
<1>2. q[k] \in S
  BY <1>1
<1>3. SubSeq(q, 1, k - 1) \in Seq(S) /\ SubSeq(q, k + 1, Len(q)) \in Seq(S)
  BY <1>1
<1>4. RemoveAt(q, k) \in Seq(S)
  BY <1>3 DEF RemoveAt
<1> QED
  BY <1>1, <1>2, <1>4 DEF BuiltQueue

-----------------------------------------------------------------------------
(* Helpers *)

LEMMA SendControlFollows ==
    ASSUME NEW r, Settled(r), NEW f
    PROVE  Follows(SendControl(r, f), r)
<1> DEFINE b == [control |-> TRUE, frames |-> <<f>>]
<1>1. BuiltFor(b, r.payload_mode)
  BY DEF BuiltFor
<1> HIDE DEF b
<1>2. BuiltQueue(Append(r.txq, b), r.payload_mode)
  BY <1>1, AppendBuilt DEF Settled
<1>3. Follows([r EXCEPT !.txq = Append(@, b)], r)
  BY <1>2 DEF Follows, KeepsMode, Settled, Shown
<1> QED
  BY <1>3 DEF SendControl, b

LEMMA SendCtrlFrameFollows ==
    ASSUME NEW r, Settled(r), NEW type
    PROVE  Follows(SendCtrlFrame(r, type), r)
  BY SendControlFollows DEF SendCtrlFrame

LEMMA SendAckFollows == ASSUME NEW r, Settled(r) PROVE Follows(SendAck(r), r)
  BY SendControlFollows DEF SendAck

LEMMA SendModeNegotiationFollows ==
    ASSUME NEW r, Settled(r), NEW type, NEW mode
    PROVE  Follows(SendModeNegotiation(r, type, mode), r)
  BY SendControlFollows DEF SendModeNegotiation

(* A burst is built for the mode of the session. *)
LEMMA SendDataBurstKeeps ==
    ASSUME NEW r, Settled(r), r.dflow_state \notin Requesting, NEW burst
    PROVE  KeepsMode(SendDataBurst(r, burst), r)
<1>1. ASSUME NEW w PROVE BuiltFor(WindowBurst(r, w), r.payload_mode)
  BY DEF BuiltFor, WindowBurst, DataFrame, PlainFrame
<1>2. ASSUME NEW w, NEW seq, NEW rest, NEW log
      PROVE  KeepsMode([r EXCEPT !.tx_window = w, !.tx_seq = seq, !.backlog = rest,
                                 !.txlog = log, !.txq = Append(@, WindowBurst(r, w))], r)
  <2> DEFINE b == WindowBurst(r, w)
  <2>1. BuiltQueue(Append(r.txq, b), r.payload_mode)
    BY <1>1, AppendBuilt DEF Settled
  <2> HIDE DEF b
  <2>2. KeepsMode([r EXCEPT !.tx_window = w, !.tx_seq = seq, !.backlog = rest,
                            !.txlog = log, !.txq = Append(@, b)], r)
    BY <2>1 DEF KeepsMode, Settled, Shown
  <2> QED
    BY <2>2 DEF b
<1>3. KeepsMode(r, r)
  BY DEF KeepsMode
<1> DEFINE n == FreshCount(r, burst)
           fresh == [i \in 1 .. n |-> [seq |-> r.tx_seq + i - 1, unit |-> r.backlog[i]]]
           w == r.tx_window \o fresh
<1>4. SendDataBurst(r, burst) =
         IF w = <<>> THEN r
         ELSE [r EXCEPT !.tx_window = w, !.tx_seq = @ + n,
                        !.backlog = SubSeq(@, n + 1, Len(@)),
                        !.txlog = @ \o SubSeq(r.backlog, 1, n),
                        !.txq = Append(@, WindowBurst(r, w))]
  BY DEF SendDataBurst
<1> HIDE DEF w, n
<1>5. KeepsMode([r EXCEPT !.tx_window = w, !.tx_seq = r.tx_seq + n,
                          !.backlog = SubSeq(r.backlog, n + 1, Len(r.backlog)),
                          !.txlog = r.txlog \o SubSeq(r.backlog, 1, n),
                          !.txq = Append(@, WindowBurst(r, w))], r)
  BY <1>2
<1> QED
  BY <1>3, <1>4, <1>5

LEMMA DflowEnterKeeps ==
    ASSUME NEW r, Settled(r), NEW state, state \notin Requesting \/ r.tx_window = <<>>,
           NEW event
    PROVE  LET q == DflowEnter(r, state, event)
           IN  KeepsMode(q, r) /\ q.dflow_state = state /\ q.tx_window = r.tx_window
  BY DEF DflowEnter, KeepsMode, Settled, Shown

LEMMA SessEnterKeeps ==
    ASSUME NEW r, Settled(r), NEW state, NEW event
    PROVE  LET q == SessEnter(r, state, event)
           IN  KeepsMode(q, r) /\ q.txq = r.txq /\ q.tx_window = r.tx_window
  BY DEF SessEnter, KeepsMode, Settled, Shown, Requesting

LEMMA StartDisconnectKeeps == ASSUME NEW r, Settled(r) PROVE KeepsMode(StartDisconnect(r), r)
<1> DEFINE q == [r EXCEPT !.pending_disconnect = "no", !.tx_retries_left = DisconnectSlots]
<1>1. Alike(q, r)
  BY DEF Settled, Alike, Shown
<1>2. StartDisconnect(r) = SessEnter(q, "DISCONNECTING", "TIMER_ACK")
  BY DEF StartDisconnect
<1> HIDE DEF q
<1> QED
  BY <1>1, <1>2, AlikeFollows, SessEnterKeeps, KeepsOn DEF Follows, KeepsMode

LEMMA NotifyCancelPendingFollows ==
    ASSUME NEW r, Settled(r)
    PROVE  Follows(NotifyCancelPending(r), r) /\ NotifyCancelPending(r).txq = r.txq
<1>1. Alike(NotifyCancelPending(r), r)
  BY DEF NotifyCancelPending, Settled, Alike, Shown
<1> QED
  BY <1>1, AlikeFollows DEF Alike

LEMMA EndCallKeeps == ASSUME NEW r, Settled(r) PROVE KeepsMode(EndCall(r), r)
<1> DEFINE q == NotifyDisconnected(r)
<1>1. Alike(q, r)
  BY DEF NotifyDisconnected, Settled, Alike, Shown
<1> HIDE DEF q
<1>2. Follows(q, r)
  BY <1>1, AlikeFollows
<1>3. KeepsMode(EnterIdleAfterCall(q), q)
  BY <1>2, SessEnterKeeps DEF EnterIdleAfterCall, Follows, KeepsMode
<1> QED
  BY <1>2, <1>3, KeepsOn DEF Follows, EndCall, q

(* A session starts with nothing queued. *)
LEMMA StartSessionSettles ==
    ASSUME NEW r, Shown(r), r.txq = <<>>, NEW role
    PROVE  Settled(StartSession(r, role))
<1> DEFINE q == [r EXCEPT !.tx_seq = 0, !.rx_expected = 0, !.tx_window = <<>>,
                          !.txlog = <<>>, !.rxlog = <<>>, !.role = role,
                          !.tx_retries_left = DataSlots,
                          !.payload_mode = SafeMode, !.peer_tx_mode = SafeMode,
                          !.pending_tx_mode = "none", !.host = "connected"]
<1>1. Shown(q) /\ q.txq = <<>> /\ q.tx_window = <<>>
  BY DEF Shown
<1>2. StartSession(r, role) = SessEnter(q, "CONNECTED", "none")
  BY DEF StartSession
<1> HIDE DEF q
<1>3. Settled(q)
  BY <1>1, EmptyBuilt DEF Settled
<1> QED
  BY <1>2, <1>3, SessEnterKeeps DEF KeepsMode

LEMMA EnterIdleIrsKeeps == ASSUME NEW r, Settled(r) PROVE KeepsMode(EnterIdleIrs(r), r)
  BY DflowEnterKeeps DEF EnterIdleIrs, Requesting

LEMMA TransmitGuardedKeeps == ASSUME NEW r, Settled(r) PROVE KeepsMode(TransmitGuarded(r), r)
  BY DflowEnterKeeps DEF TransmitGuarded, Requesting

LEMMA TransmitNowKeeps ==
    ASSUME NEW r, Settled(r), NEW burst
    PROVE  KeepsMode(TransmitNow(r, burst), r)
<1> DEFINE q == DflowEnter(r, "DATA_TX", "none")
<1>1. KeepsMode(q, r) /\ q.dflow_state = "DATA_TX"
  BY DflowEnterKeeps DEF Requesting
<1> HIDE DEF q
<1>2. KeepsMode(SendDataBurst(q, burst), q)
  BY <1>1, SendDataBurstKeeps DEF KeepsMode, Requesting
<1> QED
  BY <1>1, <1>2, KeepsOn DEF TransmitNow, q

LEMMA ArmConnectConfirmKeeps ==
    ASSUME NEW r, Settled(r)
    PROVE  KeepsMode(ArmConnectConfirm(r), r)
<1> DEFINE q == [r EXCEPT !.pending_connect_confirm = TRUE]
<1>1. Alike(q, r)
  BY DEF Settled, Alike, Shown
<1> HIDE DEF q
<1>2. Follows(q, r)
  BY <1>1, AlikeFollows
<1>3. KeepsMode(DflowEnter(q, "ACK_TX", "TIMER_ACK"), q)
  BY <1>2, DflowEnterKeeps DEF Follows, KeepsMode, Requesting
<1> QED
  BY <1>2, <1>3, KeepsOn DEF Follows, ArmConnectConfirm, q

(* A mode is asked for with an empty window. *)
LEMMA StartModeReqKeeps ==
    ASSUME NEW r, Settled(r), r.tx_window = <<>>, NEW wanted
    PROVE  KeepsMode(StartModeReq(r, wanted), r)
<1> DEFINE q == [r EXCEPT !.pending_tx_mode = wanted, !.tx_retries_left = ModeReqRetries]
           p == SendModeNegotiation(q, "MODE_REQ", wanted)
<1>1. Alike(q, r)
  BY DEF Settled, Alike, Shown
<1> HIDE DEF q
<1>2. Follows(q, r)
  BY <1>1, AlikeFollows
<1>3. Follows(p, q)
  BY <1>2, SendModeNegotiationFollows DEF Follows, KeepsMode
<1> HIDE DEF p
<1>4. Settled(p) /\ p.tx_window = <<>>
  BY <1>2, <1>3 DEF Follows, KeepsMode
<1>5. KeepsMode(DflowEnter(p, "MODE_REQ_TX", "none"), p)
  BY <1>4, DflowEnterKeeps
<1> QED
  BY <1>2, <1>3, <1>5, KeepsOn DEF Follows, StartModeReq, p, q

LEMMA RetriesFollow ==
    ASSUME NEW r, Settled(r), NEW n
    PROVE  Follows([r EXCEPT !.tx_retries_left = n], r)
<1>1. Alike([r EXCEPT !.tx_retries_left = n], r)
  BY DEF Settled, Alike, Shown
<1> QED
  BY <1>1, AlikeFollows

LEMMA EnterIdleIssKeeps ==
    ASSUME NEW r, Settled(r), NEW burst
    PROVE  KeepsMode(EnterIdleIss(r, burst), r)
<1> DEFINE f == [r EXCEPT !.tx_retries_left = DataSlots]
<1>1. Follows(f, r)
  BY RetriesFollow
<1> HIDE DEF f
<1>2. KeepsMode(TransmitNow(f, burst), f) /\ KeepsMode(DflowEnter(f, "IDLE_ISS", "none"), f)
  BY <1>1, TransmitNowKeeps, DflowEnterKeeps DEF Follows, KeepsMode, Requesting
<1>3. /\ KeepsMode(TransmitNow(f, burst), r) /\ KeepsMode(DflowEnter(f, "IDLE_ISS", "none"), r)
      /\ KeepsMode(StartDisconnect(r), r)
  BY <1>1, <1>2, KeepsOn, StartDisconnectKeeps DEF Follows
<1> QED
  BY <1>3 DEF EnterIdleIss, f

LEMMA EnterIdleIssGuardedKeeps ==
    ASSUME NEW r, Settled(r), NEW wanted
    PROVE  KeepsMode(EnterIdleIssGuarded(r, wanted), r)
<1> DEFINE f == [r EXCEPT !.tx_retries_left = DataSlots]
<1>1. Follows(f, r)
  BY RetriesFollow
<1> HIDE DEF f
<1>2. KeepsMode(TransmitGuarded(f), f) /\ KeepsMode(DflowEnter(f, "IDLE_ISS", "none"), f)
  BY <1>1, TransmitGuardedKeeps, DflowEnterKeeps DEF Follows, KeepsMode, Requesting
<1>3. /\ KeepsMode(TransmitGuarded(f), r) /\ KeepsMode(DflowEnter(f, "IDLE_ISS", "none"), r)
      /\ KeepsMode(StartDisconnect(r), r)
      /\ UpgradeStarts(r, wanted) => KeepsMode(StartModeReq(r, wanted), r)
  BY <1>1, <1>2, KeepsOn, StartDisconnectKeeps, StartModeReqKeeps DEF Follows, UpgradeStarts
<1> QED
  BY <1>3 DEF EnterIdleIssGuarded, f

LEMMA SpeakKeeps ==
    ASSUME NEW r, Settled(r), NEW type, NEW state, state \notin Requesting, NEW event
    PROVE  KeepsMode(DflowEnter(SendCtrlFrame(r, type), state, event), r)
<1> DEFINE q == SendCtrlFrame(r, type)
<1>1. Follows(q, r)
  BY SendCtrlFrameFollows
<1> HIDE DEF q
<1>2. KeepsMode(DflowEnter(q, state, event), q)
  BY <1>1, DflowEnterKeeps DEF Follows, KeepsMode
<1> QED
  BY <1>1, <1>2, KeepsOn DEF Follows, q

LEMMA SendTurnReqKeeps == ASSUME NEW r, Settled(r) PROVE KeepsMode(SendTurnReq(r), r)
  BY SpeakKeeps DEF SendTurnReq, Requesting

LEMMA SendKeepaliveKeeps == ASSUME NEW r, Settled(r) PROVE KeepsMode(SendKeepalive(r), r)
  BY SpeakKeeps DEF SendKeepalive, Requesting

LEMMA ReceiveDataKeeps ==
    ASSUME NEW r, Settled(r), NEW f
    PROVE  KeepsMode(ReceiveData(r, f), r)
<1> DEFINE d == DeliverRxChecked(r, f)
           q == [d EXCEPT !.peer_tx_mode = f.mode, !.peer_has_data = ~IsNew(r, f)]
<1>1. Alike(d, r)
  BY DEF DeliverRxChecked, Settled, Alike, Shown
<1> HIDE DEF d
<1>2. Alike(q, r)
  BY <1>1 DEF Alike, Shown
<1>3. ReceiveData(r, f) = DflowEnter(q, "DATA_RX", "TIMER_ACK")
  BY DEF ReceiveData, d
<1> HIDE DEF q
<1>4. Follows(q, r)
  BY <1>2, AlikeFollows
<1>5. KeepsMode(DflowEnter(q, "DATA_RX", "TIMER_ACK"), q)
  BY <1>4, DflowEnterKeeps DEF Follows, KeepsMode, Requesting
<1> QED
  BY <1>3, <1>4, <1>5, KeepsOn DEF Follows

LEMMA AfterKeepaliveKeeps ==
    ASSUME NEW r, Settled(r), NEW from_irs, NEW wanted
    PROVE  KeepsMode(AfterKeepalive(r, from_irs, wanted), r)
  BY EnterIdleIrsKeeps, EnterIdleIssGuardedKeeps DEF AfterKeepalive

LEMMA BecomeCalleeSettles ==
    ASSUME NEW r, Shown(r), r.txq = <<>>, NEW f
    PROVE  Settled(BecomeCallee(r, f))
<1> DEFINE q == EnterIdleIrs(StartSession(r, "CALLEE"))
<1>1. Settled(q)
  BY StartSessionSettles, EnterIdleIrsKeeps DEF KeepsMode
<1> HIDE DEF q
<1> QED
  BY <1>1, ReceiveDataKeeps DEF BecomeCallee, KeepsMode, q

-----------------------------------------------------------------------------
(* Commands.  A session's steps keep the mode, or find nothing queued and no *)
(* window of a connection.                                                   *)

StepKeeps(s) == \E r : KeepsMode(r, st[s]) /\ Become(s, r)

StepSettles(s) ==
    \E r : /\ Settled(r) /\ Become(s, r)
           /\ r.payload_mode = st[s].payload_mode
                 \/ ~InConn(s, "CONNECTED") \/ st[s].tx_window = <<>>

LEMMA KeepsSettles == ASSUME NEW s, StepKeeps(s) PROVE StepSettles(s)
  BY DEF StepKeeps, StepSettles, KeepsMode

LEMMA KeepsStep ==
    ASSUME NEW s, NEW p, Follows(p, st[s]), NEW q, KeepsMode(q, p), Become(s, q)
    PROVE  StepKeeps(s)
  BY KeepsOn DEF StepKeeps, Follows

LEMMA FollowsStep ==
    ASSUME NEW s, NEW q, Follows(q, st[s]), Become(s, q)
    PROVE  StepKeeps(s)
  BY DEF StepKeeps, Follows

LEMMA AppListenKeeps ==
    ASSUME NEW r, Settled(r)
    PROVE  KeepsMode(AppListen(r), r) /\ KeepsMode(AppStopListen(r), r)
<1>1. KeepsMode(r, r)
  BY DEF KeepsMode
<1> QED
  BY <1>1, StartDisconnectKeeps, SessEnterKeeps DEF AppListen, AppStopListen

LEMMA AppDisconnectKeeps ==
    ASSUME NEW r, Settled(r)
    PROVE  KeepsMode(AppDisconnect(r), r)
<1>1. KeepsMode(EndCall(r), r) /\ KeepsMode(StartDisconnect(r), r) /\ KeepsMode(r, r)
  BY EndCallKeeps, StartDisconnectKeeps DEF KeepsMode
<1>2. KeepsMode(EndCall(NotifyCancelPending(r)), r)
  <2> DEFINE q == NotifyCancelPending(r)
  <2>1. Follows(q, r)
    BY NotifyCancelPendingFollows
  <2> HIDE DEF q
  <2>2. KeepsMode(EndCall(q), r)
    BY <2>1, EndCallKeeps, KeepsOn DEF Follows, KeepsMode
  <2> QED
    BY <2>2 DEF q
<1>3. KeepsMode([r EXCEPT !.pending_disconnect = "draining"], r)
  <2>1. Alike([r EXCEPT !.pending_disconnect = "draining"], r)
    BY DEF Settled, Alike, Shown
  <2> QED
    BY <2>1, AlikeFollows DEF Follows
<1> QED
  BY <1>1, <1>2, <1>3 DEF AppDisconnect

(* A call is made with nothing queued. *)
LEMMA StartCallSettles ==
    ASSUME NEW r, Settled(r), r.txq = <<>>, NEW sid
    PROVE  Settled(StartCall(r, sid))
<1> DEFINE q == [r EXCEPT !.session_id = sid, !.tx_retries_left = CallSlots,
                          !.pending_disconnect = "no",
                          !.payload_mode = SafeMode, !.peer_tx_mode = SafeMode]
           c == SendCtrlFrame(q, "CALL")
<1>1. Settled(q)
  BY EmptyBuilt DEF Settled, Shown
<1> HIDE DEF q
<1>2. Settled(c)
  BY <1>1, SendCtrlFrameFollows DEF Follows, KeepsMode
<1> HIDE DEF c
<1>3. Settled(SessEnter(c, "CALLING", "TIMER_RETRY"))
  BY <1>2, SessEnterKeeps DEF KeepsMode
<1> QED
  BY <1>3 DEF StartCall, q, c

LEMMA ConnectSettles ==
    ASSUME NEW s \in Station, Settled(st[s]), st[s].txq = <<>>, NEW sid, HostConnect(s, sid)
    PROVE  StepSettles(s)
<1> DEFINE idle == SessEnter(st[s], "DISCONNECTED", "none")
           call == NotifyCancelPending(idle)
<1>1. Settled(idle) /\ idle.txq = <<>>
  BY SessEnterKeeps DEF KeepsMode
<1> HIDE DEF idle
<1>2. Settled(call) /\ call.txq = <<>>
  BY <1>1, NotifyCancelPendingFollows DEF Follows, KeepsMode
<1> HIDE DEF call
<1>3. /\ Settled(StartCall(st[s], sid)) /\ Settled(StartCall(idle, sid))
      /\ Settled(StartCall(call, sid))
  BY <1>1, <1>2, StartCallSettles
<1>4. CASE st[s].conn_state \in {"DISCONNECTED", "LISTENING", "ACCEPTING"}
  <2>1. \E q : Settled(q) /\ Become(s, q)
    BY <1>3, <1>4 DEF HostConnect, AppConnect, idle, call
  <2> QED
    BY <1>4, <2>1 DEF StepSettles, InConn
<1>5. CASE st[s].conn_state \notin {"DISCONNECTED", "LISTENING", "ACCEPTING"}
  <2>1. Become(s, IF Overdue(st[s]) THEN StartDisconnect(st[s]) ELSE st[s])
    BY <1>5 DEF HostConnect, AppConnect
  <2>2. KeepsMode(StartDisconnect(st[s]), st[s]) /\ KeepsMode(st[s], st[s])
    BY StartDisconnectKeeps DEF KeepsMode
  <2> QED
    BY <2>1, <2>2, KeepsSettles DEF StepKeeps
<1> QED
  BY <1>4, <1>5

LEMMA CommandSettles ==
    ASSUME NEW s \in Station, Settled(st[s]), st[s].txq = <<>>, Command(s)
    PROVE  StepSettles(s)
<1> DEFINE on == [st[s] EXCEPT !.listen_enabled = TRUE]
           off == [st[s] EXCEPT !.listen_enabled = FALSE]
           told == [st[s] EXCEPT !.host = "idle"]
           none == [st[s] EXCEPT !.host = "idle", !.backlog = <<>>, !.txq = <<>>]
<1>1. Alike(on, st[s]) /\ Alike(off, st[s]) /\ Alike(told, st[s]) /\ Alike(none, st[s])
  BY DEF Settled, Alike, Shown
<1> HIDE DEF on, off, told, none
<1>2. /\ Follows(on, st[s]) /\ Follows(off, st[s])
      /\ Follows(told, st[s]) /\ Follows(none, st[s])
  BY <1>1, AlikeFollows
<1>3. Settled(on) /\ Settled(off) /\ Settled(told) /\ Settled(none)
  BY <1>2 DEF Follows, KeepsMode
<1>4. CASE \E sid \in SessionIds : HostConnect(s, sid)
  BY <1>4, ConnectSettles
<1>5. CASE HostListen(s)
  BY <1>2, <1>3, <1>5, AppListenKeeps, KeepsStep, KeepsSettles DEF HostListen, on
<1>6. CASE HostStopListen(s)
  BY <1>2, <1>3, <1>6, AppListenKeeps, KeepsStep, KeepsSettles DEF HostStopListen, off
<1>7. CASE HostDisconnect(s)
  BY <1>2, <1>3, <1>7, AppDisconnectKeeps, KeepsStep, KeepsSettles DEF HostDisconnect, told
<1>8. CASE HostClientGone(s)
  BY <1>8, AppDisconnectKeeps, KeepsSettles DEF HostClientGone, StepKeeps
<1>9. CASE HostAbort(s)
  BY <1>2, <1>3, <1>9, AppDisconnectKeeps, KeepsStep, KeepsSettles DEF HostAbort, none
<1>10. CASE HostCq(s)
  BY <1>10, SendControlFollows, FollowsStep, KeepsSettles DEF HostCq
<1> QED
  BY <1>4, <1>5, <1>6, <1>7, <1>8, <1>9, <1>10 DEF Command

-----------------------------------------------------------------------------
(* Frames *)

LEMMA CallFrameSettles ==
    ASSUME NEW s \in Station, Settled(st[s]), st[s].txq = <<>>, NEW f,
           \/ ListeningRxCall(s, f) \/ ListeningRxAccept(s, f)
           \/ ListeningRxTraffic(s, f)
           \/ AcceptingRxTraffic(s, f) \/ AcceptingRxCall(s, f)
           \/ \E wanted \in PayloadModes : CallingRxAccept(s, f, wanted)
    PROVE  StepSettles(s)
<1> Shown(st[s])
  BY DEF Settled
<1>1. CASE ListeningRxCall(s, f)
  <2> DEFINE q == [st[s] EXCEPT !.session_id = f.sid, !.tx_retries_left = AcceptSlots,
                                !.payload_mode = SafeMode, !.peer_tx_mode = SafeMode,
                                !.host = "pending"]
  <2>1. Settled(q)
    BY EmptyBuilt DEF Settled, Shown
  <2>2. Become(s, SessEnter(q, "ACCEPTING", "TIMER_RETRY")) /\ ~InConn(s, "CONNECTED")
    BY <1>1 DEF ListeningRxCall, InConn
  <2> HIDE DEF q
  <2>3. Settled(SessEnter(q, "ACCEPTING", "TIMER_RETRY"))
    BY <2>1, SessEnterKeeps DEF KeepsMode
  <2> QED
    BY <2>2, <2>3 DEF StepSettles
<1>2. CASE ListeningRxAccept(s, f)
  BY <1>2, SendCtrlFrameFollows, FollowsStep, KeepsSettles DEF ListeningRxAccept
<1>3. CASE ListeningRxTraffic(s, f)
  <2> DEFINE q == [st[s] EXCEPT !.pending_disconnect = "no"]
  <2>1. Shown(q) /\ q.txq = <<>>
    BY DEF Shown
  <2>2. Become(s, BecomeCallee(q, f)) /\ ~InConn(s, "CONNECTED")
    BY <1>3 DEF ListeningRxTraffic, InConn
  <2> HIDE DEF q
  <2> QED
    BY <2>1, <2>2, BecomeCalleeSettles DEF StepSettles
<1>4. CASE AcceptingRxTraffic(s, f)
  BY <1>4, BecomeCalleeSettles DEF AcceptingRxTraffic, InConn, StepSettles
<1>5. CASE AcceptingRxCall(s, f)
  BY <1>5, RetriesFollow, FollowsStep, KeepsSettles DEF AcceptingRxCall
<1>6. ASSUME NEW wanted \in PayloadModes, CallingRxAccept(s, f, wanted)
      PROVE  StepSettles(s)
  <2> DEFINE q == [st[s] EXCEPT !.pending_disconnect = "no",
                                !.pending_connect_confirm = FALSE,
                                !.need_initial_guard = HasBacklog(st[s])]
             up == StartSession(q, "CALLER")
  <2>1. Shown(q) /\ q.txq = <<>>
    BY DEF Shown
  <2>2. /\ Become(s, IF HasBacklog(st[s]) THEN EnterIdleIssGuarded(up, wanted)
                     ELSE ArmConnectConfirm(up))
        /\ ~InConn(s, "CONNECTED")
    BY <1>6 DEF CallingRxAccept, InConn
  <2> HIDE DEF q
  <2>3. Settled(up)
    BY <2>1, StartSessionSettles
  <2> HIDE DEF up
  <2>4. Settled(EnterIdleIssGuarded(up, wanted)) /\ Settled(ArmConnectConfirm(up))
    BY <2>3, EnterIdleIssGuardedKeeps, ArmConnectConfirmKeeps DEF KeepsMode
  <2> QED
    BY <2>2, <2>4 DEF StepSettles
<1> QED
  BY <1>1, <1>2, <1>3, <1>4, <1>5, <1>6

LEMMA ConnectedFrameKeeps ==
    ASSUME NEW s \in Station, Settled(st[s]), NEW f,
           \/ ConnectedRxAccept(s, f) \/ ConnectedRxDisconnect(s, f)
           \/ DisconnectingRxDisconnect(s, f) \/ ConnectedRxKeepalive(s, f)
           \/ RxTurnReq(s, f) \/ RxModeReq(s, f)
    PROVE  StepKeeps(s)
<1>1. CASE ConnectedRxAccept(s, f)
  BY <1>1, ArmConnectConfirmKeeps DEF ConnectedRxAccept, StepKeeps
<1>2. CASE ConnectedRxDisconnect(s, f)
  <2> DEFINE c == SendCtrlFrame(st[s], "DISCONNECT")
             q == [c EXCEPT !.pending_disconnect = "no", !.pending_disconnect_notify = TRUE]
  <2>1. Follows(c, st[s])
    BY SendCtrlFrameFollows
  <2>2. Become(s, SessEnter(q, "DISCONNECTED", "none"))
    BY <1>2 DEF ConnectedRxDisconnect
  <2> HIDE DEF c
  <2>3. Alike(q, c)
    BY <2>1 DEF Follows, KeepsMode, Settled, Alike, Shown
  <2> HIDE DEF q
  <2>4. Follows(q, c)
    BY <2>1, <2>3, AlikeFollows DEF Follows, KeepsMode
  <2>5. KeepsMode(SessEnter(q, "DISCONNECTED", "none"), c)
    BY <2>4, SessEnterKeeps, KeepsOn DEF Follows, KeepsMode
  <2> QED
    BY <2>1, <2>2, <2>5, KeepsStep
<1>3. CASE DisconnectingRxDisconnect(s, f)
  BY <1>3, EndCallKeeps DEF DisconnectingRxDisconnect, StepKeeps
<1>4. CASE ConnectedRxKeepalive(s, f)
  <2> DEFINE r == [st[s] EXCEPT !.keepalive_miss_count = 0]
             irs == r.dflow_state = "IDLE_IRS"
             q == [r EXCEPT !.keepalive_ack_from_irs = irs]
  <2>1. Alike(r, st[s])
    BY DEF Settled, Alike, Shown
  <2>2. Become(s, IF r.dflow_state \in {"IDLE_ISS", "IDLE_IRS"}
                  THEN DflowEnter(q, "KEEPALIVE_ACK_TX", "TIMER_ACK")
                  ELSE SendCtrlFrame(r, "KEEPALIVE_ACK"))
    BY <1>4 DEF ConnectedRxKeepalive
  <2> HIDE DEF r, irs
  <2>3. Alike(q, st[s])
    BY <2>1 DEF Alike, Shown
  <2> HIDE DEF q
  <2>4. Follows(r, st[s]) /\ Follows(q, st[s])
    BY <2>1, <2>3, AlikeFollows
  <2>5. /\ KeepsMode(DflowEnter(q, "KEEPALIVE_ACK_TX", "TIMER_ACK"), q)
        /\ Follows(SendCtrlFrame(r, "KEEPALIVE_ACK"), r)
    BY <2>4, DflowEnterKeeps, SendCtrlFrameFollows DEF Follows, KeepsMode, Requesting
  <2> QED
    BY <2>2, <2>4, <2>5, KeepsStep DEF Follows
<1>5. CASE RxTurnReq(s, f)
  <2>1. KeepsMode(DflowEnter(st[s], "TURN_ACK_TX", "TIMER_ACK"), st[s])
    BY DflowEnterKeeps DEF Requesting
  <2> QED
    BY <1>5, <2>1 DEF RxTurnReq, StepKeeps
<1>6. CASE RxModeReq(s, f)
  <2> DEFINE r == IF st[s].dflow_state = "WAIT_ACK" THEN ImplicitAck(st[s]) ELSE st[s]
             q == [r EXCEPT !.peer_tx_mode = f.mode]
  <2>1. Become(s, DflowEnter(q, "MODE_ACK_TX", "TIMER_ACK"))
    BY <1>6 DEF RxModeReq
  <2>2. KeepsMode(r, st[s])
    BY DEF ImplicitAck, Requesting, Settled, Shown, KeepsMode
  <2> HIDE DEF r
  <2>3. Alike(q, r)
    BY <2>2 DEF KeepsMode, Settled, Alike, Shown
  <2> HIDE DEF q
  <2>4. KeepsMode(q, st[s])
    BY <2>2, <2>3, AlikeFollows, KeepsOn DEF Follows, KeepsMode
  <2>5. KeepsMode(DflowEnter(q, "MODE_ACK_TX", "TIMER_ACK"), q)
    BY <2>4, DflowEnterKeeps DEF KeepsMode, Requesting
  <2> QED
    BY <2>1, <2>4, <2>5, KeepsOn DEF StepKeeps
<1> QED
  BY <1>1, <1>2, <1>3, <1>4, <1>5, <1>6

LEMMA StreamFrameKeeps ==
    ASSUME NEW s \in Station, Settled(st[s]), NEW f, NEW burst, NEW wanted,
           \/ RxData(s, f) \/ WaitAckRxData(s, f, burst) \/ WaitAckRxAck(s, f, wanted)
    PROVE  StepKeeps(s)
<1>1. CASE RxData(s, f)
  BY <1>1, ReceiveDataKeeps DEF RxData, StepKeeps
<1>2. CASE WaitAckRxData(s, f, burst)
  <2> DEFINE a == ImplicitAck(st[s])
             p == [st[s] EXCEPT !.peer_tx_mode = f.mode]
  <2>1. KeepsMode(a, st[s])
    BY DEF ImplicitAck, Settled, Shown, KeepsMode
  <2>2. Alike(p, st[s])
    BY DEF Settled, Alike, Shown
  <2>3. Become(s, IF IsNew(st[s], f) THEN ReceiveData(a, f) ELSE TransmitNow(p, burst))
    BY <1>2 DEF WaitAckRxData
  <2> HIDE DEF a, p
  <2>4. KeepsMode(p, st[s])
    BY <2>2, AlikeFollows DEF Follows
  <2>5. KeepsMode(ReceiveData(a, f), st[s]) /\ KeepsMode(TransmitNow(p, burst), st[s])
    BY <2>1, <2>4, ReceiveDataKeeps, TransmitNowKeeps, KeepsOn DEF KeepsMode
  <2> QED
    BY <2>3, <2>5 DEF StepKeeps
<1>3. CASE WaitAckRxAck(s, f, wanted)
  <2> DEFINE q == SlideWindow(st[s], AckedCount(st[s].tx_window, f.seq))
             slid == [q EXCEPT !.tx_retries_left = DataSlots, !.peer_has_data = f.has_data]
  <2>1. Become(s, IF slid.tx_window # <<>> THEN TransmitGuarded(slid)
                  ELSE IF f.has_data THEN EnterIdleIrs(slid)
                  ELSE EnterIdleIssGuarded(slid, wanted))
    BY <1>3 DEF WaitAckRxAck
  <2>2. KeepsMode(q, st[s])
    BY <1>3 DEF WaitAckRxAck, InFlow, SlideWindow, Requesting, Settled, Shown, KeepsMode
  <2> HIDE DEF q
  <2>3. Alike(slid, q)
    BY <2>2 DEF KeepsMode, Settled, Alike, Shown
  <2> HIDE DEF slid
  <2>4. KeepsMode(slid, st[s])
    BY <2>2, <2>3, AlikeFollows, KeepsOn DEF Follows, KeepsMode
  <2>5. /\ KeepsMode(TransmitGuarded(slid), st[s]) /\ KeepsMode(EnterIdleIrs(slid), st[s])
        /\ KeepsMode(EnterIdleIssGuarded(slid, wanted), st[s])
    BY <2>4, TransmitGuardedKeeps, EnterIdleIrsKeeps, EnterIdleIssGuardedKeeps, KeepsOn
    DEF KeepsMode
  <2> QED
    BY <2>1, <2>5 DEF StepKeeps
<1> QED
  BY <1>1, <1>2, <1>3

(* The answer to a mode request comes when nothing is queued or in the window. *)
LEMMA AnswerFrameSettles ==
    ASSUME NEW s \in Station, Settled(st[s]), st[s].txq = <<>>, NEW f, NEW wanted,
           \/ TurnReqRxTurnAck(s, f, wanted) \/ KeepaliveWaitRx(s, f, wanted)
           \/ ModeReqRxModeAck(s, f, wanted)
    PROVE  StepSettles(s)
<1>1. CASE TurnReqRxTurnAck(s, f, wanted)
  BY <1>1, EnterIdleIssGuardedKeeps, KeepsSettles DEF TurnReqRxTurnAck, StepKeeps
<1>2. CASE KeepaliveWaitRx(s, f, wanted)
  <2> DEFINE r == [st[s] EXCEPT !.keepalive_miss_count = 0]
             q == IF f.type = "KEEPALIVE" THEN SendCtrlFrame(r, "KEEPALIVE_ACK") ELSE r
  <2>1. Alike(r, st[s])
    BY DEF Settled, Alike, Shown
  <2>2. Become(s, AfterKeepalive(q, r.keepalive_from_irs, wanted))
    BY <1>2 DEF KeepaliveWaitRx
  <2> HIDE DEF r
  <2>3. Follows(r, st[s])
    BY <2>1, AlikeFollows
  <2>4. KeepsMode(q, r)
    BY <2>3, SendCtrlFrameFollows DEF Follows, KeepsMode
  <2> HIDE DEF q
  <2>5. KeepsMode(AfterKeepalive(q, r.keepalive_from_irs, wanted), r)
    BY <2>4, AfterKeepaliveKeeps, KeepsOn DEF KeepsMode
  <2> QED
    BY <2>2, <2>3, <2>5, KeepsStep, KeepsSettles
<1>3. CASE ModeReqRxModeAck(s, f, wanted)
  <2> DEFINE q == [st[s] EXCEPT !.payload_mode = f.mode]
  <2>1. st[s].tx_window = <<>>
    BY <1>3 DEF ModeReqRxModeAck, InFlow, Settled, Requesting
  <2>2. Settled(q)
    BY <2>1, EmptyBuilt DEF Settled, Shown
  <2>3. Become(s, EnterIdleIssGuarded(q, wanted))
    BY <1>3 DEF ModeReqRxModeAck
  <2> HIDE DEF q
  <2>4. Settled(EnterIdleIssGuarded(q, wanted))
    BY <2>2, EnterIdleIssGuardedKeeps DEF KeepsMode
  <2> QED
    BY <2>1, <2>3, <2>4 DEF StepSettles
<1> QED
  BY <1>1, <1>2, <1>3

LEMMA ForcedTeardownKeeps ==
    ASSUME NEW s \in Station, Settled(st[s]), ForcedTeardown(s)
    PROVE  StepKeeps(s)
  BY StartDisconnectKeeps DEF ForcedTeardown, StepKeeps

LEMMA OnFrameSettles ==
    ASSUME NEW s \in Station, Settled(st[s]), st[s].txq = <<>>, NEW f, OnFrame(s, f)
    PROVE  StepSettles(s)
<1>1. CASE HandleFrame(s, f)
  BY <1>1, CallFrameSettles, ConnectedFrameKeeps, StreamFrameKeeps, AnswerFrameSettles,
     KeepsSettles DEF HandleFrame
<1>2. CASE ForcedTeardown(s)
  BY <1>2, ForcedTeardownKeeps, KeepsSettles
<1> QED
  BY <1>1, <1>2 DEF OnFrame

-----------------------------------------------------------------------------
(* Timers *)

LEMMA FiredFollows == ASSUME NEW s, Settled(st[s]) PROVE Follows(Fired(s), st[s])
<1>1. Alike(Fired(s), st[s])
  BY DEF Fired, Settled, Alike, Shown
<1> QED
  BY <1>1, AlikeFollows

LEMMA ByeKeeps ==
    ASSUME NEW r, Settled(r), NEW q, Alike(q, SendCtrlFrame(r, "DISCONNECT"))
    PROVE  KeepsMode(SessEnter(q, "DISCONNECTING", "TIMER_RETRY"), r)
<1> DEFINE c == SendCtrlFrame(r, "DISCONNECT")
<1>1. Follows(c, r)
  BY SendCtrlFrameFollows
<1> HIDE DEF c
<1>2. Follows(q, c)
  BY <1>1, AlikeFollows DEF Follows, KeepsMode, c
<1>3. KeepsMode(SessEnter(q, "DISCONNECTING", "TIMER_RETRY"), q)
  BY <1>2, SessEnterKeeps DEF Follows, KeepsMode
<1> QED
  BY <1>1, <1>2, <1>3, KeepsOn DEF Follows

LEMMA CallTimerKeeps ==
    ASSUME NEW s \in Station, Settled(st[s]),
           \/ CallingRetry(s) \/ AcceptingRetry(s)
           \/ DisconnectingGuardOver(s) \/ DisconnectingRetry(s)
    PROVE  StepKeeps(s)
<1> DEFINE less == [st[s] EXCEPT !.tx_retries_left = @ - 1]
<1>1. Follows(less, st[s])
  BY RetriesFollow
<1> HIDE DEF less
<1>2. \A type : KeepsMode(SendCtrlFrame(less, type), st[s])
  BY <1>1, SendCtrlFrameFollows, KeepsOn DEF Follows, KeepsMode
<1>3. KeepsMode(EndCall(st[s]), st[s])
  BY EndCallKeeps
<1>4. CASE CallingRetry(s)
  BY <1>2, <1>3, <1>4 DEF CallingRetry, less, StepKeeps
<1>5. CASE AcceptingRetry(s)
  <2> DEFINE q == NotifyCancelPending(st[s])
  <2>1. Follows(q, st[s])
    BY NotifyCancelPendingFollows
  <2> HIDE DEF q
  <2>2. KeepsMode(SessEnter(q, "LISTENING", "none"), st[s])
    BY <2>1, SessEnterKeeps, KeepsOn DEF Follows, KeepsMode
  <2> QED
    BY <1>2, <1>5, <2>2 DEF AcceptingRetry, less, q, StepKeeps
<1>6. CASE DisconnectingGuardOver(s)
  <2> DEFINE c == SendCtrlFrame(st[s], "DISCONNECT")
             q == [c EXCEPT !.deadline = "TIMER_RETRY"]
  <2>1. Follows(c, st[s])
    BY SendCtrlFrameFollows
  <2> HIDE DEF c
  <2>2. Alike(q, c)
    BY <2>1 DEF Follows, KeepsMode, Settled, Alike, Shown
  <2> HIDE DEF q
  <2>3. KeepsMode(q, st[s])
    BY <2>1, <2>2, AlikeFollows, KeepsOn DEF Follows, KeepsMode
  <2> QED
    BY <1>6, <2>3 DEF DisconnectingGuardOver, c, q, StepKeeps
<1>7. CASE DisconnectingRetry(s)
  BY <1>2, <1>3, <1>7 DEF DisconnectingRetry, less, StepKeeps
<1> QED
  BY <1>4, <1>5, <1>6, <1>7

LEMMA StreamTimerKeeps ==
    ASSUME NEW s \in Station, Settled(st[s]), NEW burst, NEW wanted, NEW dead,
           \/ DataTxGuardOver(s, burst) \/ WaitAckRetransmit(s, burst)
           \/ WaitAckExhausted(s, dead, burst, wanted)
           \/ DataRxGuardOver(s) \/ AckTxConfirm(s)
    PROVE  StepKeeps(s)
<1>1. CASE DataTxGuardOver(s, burst)
  <2> DEFINE q == Fired(s)
  <2>1. Follows(q, st[s]) /\ st[s].dflow_state \notin Requesting
    BY <1>1, FiredFollows DEF DataTxGuardOver, InFlow, Requesting
  <2>2. Become(s, SendDataBurst(q, burst))
    BY <1>1 DEF DataTxGuardOver
  <2> HIDE DEF q
  <2>3. KeepsMode(SendDataBurst(q, burst), q)
    BY <2>1, SendDataBurstKeeps DEF Follows, KeepsMode
  <2> QED
    BY <2>1, <2>2, <2>3, KeepsStep
<1>2. CASE WaitAckRetransmit(s, burst)
  <2> DEFINE left == IF st[s].pending_disconnect # "no" THEN 1 ELSE st[s].tx_retries_left
             q == [st[s] EXCEPT !.tx_retries_left = left - 1]
  <2>1. Become(s, TransmitNow(q, burst))
    BY <1>2 DEF WaitAckRetransmit
  <2> HIDE DEF left
  <2>2. Follows(q, st[s])
    BY RetriesFollow
  <2> HIDE DEF q
  <2> QED
    BY <2>1, <2>2, TransmitNowKeeps, KeepsStep DEF Follows, KeepsMode
<1>3. CASE WaitAckExhausted(s, dead, burst, wanted)
  <2> DEFINE again == [st[s] EXCEPT !.tx_retries_left = DataSlots]
             c == SendCtrlFrame(st[s], "DISCONNECT")
             bye == [c EXCEPT !.pending_disconnect = "no",
                              !.tx_retries_left = DisconnectSlots]
  <2>1. Become(s, IF dead \/ st[s].pending_disconnect # "no"
                  THEN SessEnter(bye, "DISCONNECTING", "TIMER_RETRY")
                  ELSE IF UpgradeStarts(again, wanted) THEN StartModeReq(again, wanted)
                  ELSE TransmitNow(again, burst))
    BY <1>3 DEF WaitAckExhausted
  <2>2. Follows(c, st[s])
    BY SendCtrlFrameFollows
  <2>3. Alike(bye, c)
    BY <2>2 DEF Follows, KeepsMode, Settled, Alike, Shown
  <2> HIDE DEF bye
  <2>4. KeepsMode(SessEnter(bye, "DISCONNECTING", "TIMER_RETRY"), st[s])
    BY <2>3, ByeKeeps
  <2>5. Follows(again, st[s])
    BY RetriesFollow
  <2> HIDE DEF again
  <2>6. /\ KeepsMode(TransmitNow(again, burst), st[s])
        /\ UpgradeStarts(again, wanted) => KeepsMode(StartModeReq(again, wanted), st[s])
    BY <2>5, TransmitNowKeeps, StartModeReqKeeps, KeepsOn
    DEF Follows, KeepsMode, UpgradeStarts
  <2> QED
    BY <2>1, <2>4, <2>6 DEF StepKeeps
<1>4. CASE DataRxGuardOver(s)
  <2> DEFINE a == SendAck(st[s])
             q == [a EXCEPT !.acktx_had_has_data = HasBacklog(st[s])]
  <2>1. Follows(a, st[s])
    BY SendAckFollows
  <2> HIDE DEF a
  <2>2. Alike(q, a)
    BY <2>1 DEF Follows, KeepsMode, Settled, Alike, Shown
  <2> HIDE DEF q
  <2>3. KeepsMode(q, st[s])
    BY <2>1, <2>2, AlikeFollows, KeepsOn DEF Follows, KeepsMode
  <2>4. KeepsMode(DflowEnter(q, "ACK_TX", "none"), st[s])
    BY <2>3, DflowEnterKeeps, KeepsOn DEF KeepsMode, Requesting
  <2> QED
    BY <1>4, <2>4 DEF DataRxGuardOver, q, a, StepKeeps
<1>5. CASE AckTxConfirm(s)
  <2> DEFINE a == SendAck(st[s])
  <2>1. Follows(a, st[s])
    BY SendAckFollows
  <2> HIDE DEF a
  <2>2. KeepsMode(DflowEnter(a, "ACK_TX", "none"), a)
    BY <2>1, DflowEnterKeeps DEF Follows, KeepsMode, Requesting
  <2> QED
    BY <1>5, <2>1, <2>2, KeepsStep DEF AckTxConfirm, a
<1> QED
  BY <1>1, <1>2, <1>3, <1>4, <1>5

LEMMA TurnTimerKeeps ==
    ASSUME NEW s \in Station, Settled(st[s]), NEW quiet,
           \/ IdleIrsPeerBacklog(s, quiet) \/ TurnReqRetry(s) \/ TurnAckGuardOver(s)
           \/ KeepaliveMiss(s) \/ KeepaliveAckGuardOver(s)
    PROVE  StepKeeps(s)
<1>1. Follows(Fired(s), st[s])
  BY FiredFollows
<1>2. Settled(Fired(s))
  BY <1>1 DEF Follows, KeepsMode
<1>3. CASE IdleIrsPeerBacklog(s, quiet)
  <2> DEFINE probe == [Fired(s) EXCEPT !.keepalive_miss_count = 0,
                                       !.keepalive_from_irs = TRUE]
             ask == [Fired(s) EXCEPT !.tx_retries_left = TurnReqRetries]
  <2>1. Alike(probe, Fired(s)) /\ Alike(ask, Fired(s))
    BY <1>2 DEF Settled, Alike, Shown
  <2> HIDE DEF probe, ask
  <2>2. KeepsMode(probe, st[s]) /\ KeepsMode(ask, st[s])
    BY <1>1, <1>2, <2>1, AlikeFollows, KeepsOn DEF Follows
  <2>3. /\ KeepsMode(SendKeepalive(probe), st[s]) /\ KeepsMode(SendTurnReq(ask), st[s])
        /\ KeepsMode(EnterIdleIrs(Fired(s)), st[s])
    BY <1>1, <2>2, SendKeepaliveKeeps, SendTurnReqKeeps, EnterIdleIrsKeeps, KeepsOn
    DEF Follows, KeepsMode
  <2> QED
    BY <1>3, <2>3 DEF IdleIrsPeerBacklog, StepKeeps, probe, ask
<1>4. CASE TurnReqRetry(s)
  <2> DEFINE q == [st[s] EXCEPT !.tx_retries_left = @ - 1]
  <2>1. Follows(q, st[s])
    BY RetriesFollow
  <2> HIDE DEF q
  <2>2. KeepsMode(SendTurnReq(q), st[s]) /\ KeepsMode(EnterIdleIrs(st[s]), st[s])
    BY <2>1, SendTurnReqKeeps, EnterIdleIrsKeeps, KeepsOn DEF Follows, KeepsMode
  <2> QED
    BY <1>4, <2>2 DEF TurnReqRetry, q, StepKeeps
<1>5. CASE TurnAckGuardOver(s)
  <2>1. KeepsMode(SendCtrlFrame(Fired(s), "TURN_ACK"), Fired(s))
    BY <1>2, SendCtrlFrameFollows DEF Follows
  <2> QED
    BY <1>1, <1>5, <2>1, KeepsStep DEF TurnAckGuardOver
<1>6. CASE KeepaliveMiss(s)
  <2> DEFINE r == [st[s] EXCEPT !.keepalive_miss_count = @ + 1]
             bye == [SendCtrlFrame(r, "DISCONNECT") EXCEPT !.tx_retries_left = DisconnectSlots]
  <2>1. Alike(r, st[s])
    BY DEF Settled, Alike, Shown
  <2>2. Become(s, IF r.keepalive_miss_count >= KeepaliveMissLimit
                  THEN SessEnter(bye, "DISCONNECTING", "TIMER_RETRY")
                  ELSE SendKeepalive(r))
    BY <1>6 DEF KeepaliveMiss
  <2> HIDE DEF r
  <2>3. Follows(r, st[s])
    BY <2>1, AlikeFollows
  <2>4. Shown(SendCtrlFrame(r, "DISCONNECT"))
    BY <2>3, SendCtrlFrameFollows DEF Follows, KeepsMode, Settled
  <2>5. Alike(bye, SendCtrlFrame(r, "DISCONNECT"))
    <3> DEFINE c == SendCtrlFrame(r, "DISCONNECT")
    <3>1. Shown(c)
      BY <2>4
    <3> HIDE DEF c
    <3>2. Alike([c EXCEPT !.tx_retries_left = DisconnectSlots], c)
      BY <3>1 DEF Alike, Shown
    <3> QED
      BY <3>2 DEF c
  <2> HIDE DEF bye
  <2>6. KeepsMode(SessEnter(bye, "DISCONNECTING", "TIMER_RETRY"), r)
    BY <2>3, <2>5, ByeKeeps DEF Follows, KeepsMode
  <2>7. KeepsMode(SendKeepalive(r), r)
    BY <2>3, SendKeepaliveKeeps DEF Follows, KeepsMode
  <2> QED
    BY <2>2, <2>3, <2>6, <2>7, KeepsStep
<1>7. CASE KeepaliveAckGuardOver(s)
  <2>1. KeepsMode(SendCtrlFrame(Fired(s), "KEEPALIVE_ACK"), Fired(s))
    BY <1>2, SendCtrlFrameFollows DEF Follows
  <2> QED
    BY <1>1, <1>7, <2>1, KeepsStep DEF KeepaliveAckGuardOver
<1> QED
  BY <1>3, <1>4, <1>5, <1>6, <1>7

(* A mode is asked for again, or kept, with the window still empty. *)
LEMMA ModeTimerKeeps ==
    ASSUME NEW s \in Station, Settled(st[s]),
           ModeAckGuardOver(s) \/ ModeReqRetry(s) \/ TimerUnhandled(s)
    PROVE  StepKeeps(s)
<1>1. CASE ModeAckGuardOver(s)
  <2> DEFINE q == Fired(s)
             mode == st[s].peer_tx_mode
  <2>1. Follows(q, st[s])
    BY FiredFollows
  <2>2. Become(s, SendModeNegotiation(q, "MODE_ACK", mode))
    BY <1>1 DEF ModeAckGuardOver
  <2> HIDE DEF q, mode
  <2>3. KeepsMode(SendModeNegotiation(q, "MODE_ACK", mode), q)
    BY <2>1, SendModeNegotiationFollows DEF Follows, KeepsMode
  <2> QED
    BY <2>1, <2>2, <2>3, KeepsStep
<1>2. CASE ModeReqRetry(s)
  <2> DEFINE less == [st[s] EXCEPT !.tx_retries_left = @ - 1]
             none == [st[s] EXCEPT !.pending_tx_mode = "none"]
             again == SendModeNegotiation(less, "MODE_REQ", st[s].pending_tx_mode)
             revert == SendModeNegotiation(none, "MODE_REQ", st[s].payload_mode)
             q == IF st[s].tx_retries_left > 0 THEN again ELSE revert
  <2>1. Alike(none, st[s])
    BY DEF Settled, Alike, Shown
  <2>2. Become(s, DflowEnter(q, "MODE_REQ_TX", "none"))
    BY <1>2 DEF ModeReqRetry
  <2>3. Follows(less, st[s])
    BY RetriesFollow
  <2> HIDE DEF less, none
  <2>4. Follows(none, st[s])
    BY <2>1, AlikeFollows
  <2>5. Follows(again, less) /\ Follows(revert, none)
    BY <2>3, <2>4, SendModeNegotiationFollows DEF Follows, KeepsMode
  <2> HIDE DEF again, revert
  <2>6. Follows(q, st[s])
    BY <2>3, <2>4, <2>5 DEF Follows, KeepsMode
  <2> HIDE DEF q
  <2>7. q.tx_window = <<>> /\ Settled(q)
    BY <1>2, <2>6 DEF ModeReqRetry, InFlow, Follows, KeepsMode, Settled, Requesting
  <2>8. KeepsMode(DflowEnter(q, "MODE_REQ_TX", "none"), q)
    BY <2>7, DflowEnterKeeps
  <2> QED
    BY <2>2, <2>6, <2>8, KeepsStep
<1>3. CASE TimerUnhandled(s)
  BY <1>3, FiredFollows, FollowsStep DEF TimerUnhandled
<1> QED
  BY <1>1, <1>2, <1>3

LEMMA OnTimerKeeps ==
    ASSUME NEW s \in Station, Settled(st[s]), OnTimer(s)
    PROVE  StepKeeps(s)
<1>1. CASE HandleTimer(s)
  BY <1>1, CallTimerKeeps, StreamTimerKeeps, TurnTimerKeeps, ModeTimerKeeps DEF HandleTimer
<1>2. CASE ForcedTeardown(s)
  BY <1>2, ForcedTeardownKeeps
<1> QED
  BY <1>1, <1>2 DEF OnTimer

-----------------------------------------------------------------------------
(* TX_COMPLETE, the application's data and the transmitter *)

LEMMA CallTxCompleteKeeps ==
    ASSUME NEW s \in Station, Settled(st[s]),
           DisconnectedTxComplete(s) \/ AcceptingTxComplete(s)
    PROVE  StepKeeps(s)
<1> DEFINE told == [st[s] EXCEPT !.pending_disconnect_notify = FALSE]
           armed == [st[s] EXCEPT !.deadline = "TIMER_RETRY"]
<1>1. Alike(told, st[s]) /\ Alike(armed, st[s])
  BY DEF Settled, Alike, Shown
<1> HIDE DEF told, armed
<1>2. Follows(told, st[s]) /\ Follows(armed, st[s])
  BY <1>1, AlikeFollows
<1>3. KeepsMode(EndCall(told), told)
  BY <1>2, EndCallKeeps DEF Follows, KeepsMode
<1> QED
  BY <1>2, <1>3, KeepsStep, FollowsStep
  DEF DisconnectedTxComplete, AcceptingTxComplete, told, armed

LEMMA StreamTxCompleteKeeps ==
    ASSUME NEW s \in Station, Settled(st[s]), NEW burst, NEW wanted,
           \/ DataTxComplete(s) \/ TurnReqTxComplete(s) \/ GaveTurnTxComplete(s)
           \/ KeepaliveTxComplete(s) \/ KeepaliveAckTxComplete(s, wanted)
           \/ AckTxComplete(s, burst, wanted)
    PROVE  StepKeeps(s)
<1>1. \A state, event : state \notin Requesting =>
         KeepsMode(DflowEnter(st[s], state, event), st[s])
  BY DflowEnterKeeps
<1>2. CASE DataTxComplete(s) \/ TurnReqTxComplete(s) \/ KeepaliveTxComplete(s)
  BY <1>1, <1>2
  DEF DataTxComplete, TurnReqTxComplete, KeepaliveTxComplete, Requesting, StepKeeps
<1>3. CASE GaveTurnTxComplete(s) \/ KeepaliveAckTxComplete(s, wanted)
  BY <1>3, EnterIdleIrsKeeps, AfterKeepaliveKeeps
  DEF GaveTurnTxComplete, KeepaliveAckTxComplete, StepKeeps
<1>4. CASE AckTxComplete(s, burst, wanted)
  <2> DEFINE r == [st[s] EXCEPT !.pending_connect_confirm = FALSE]
  <2>1. Alike(r, st[s])
    BY DEF Settled, Alike, Shown
  <2>2. Become(s, IF st[s].pending_connect_confirm
                  THEN IF HasBacklog(r) THEN EnterIdleIssGuarded(r, wanted)
                       ELSE EnterIdleIss(r, burst)
                  ELSE IF ~r.peer_has_data /\ r.acktx_had_has_data
                  THEN EnterIdleIssGuarded(r, wanted)
                  ELSE EnterIdleIrs(r))
    BY <1>4 DEF AckTxComplete
  <2> HIDE DEF r
  <2>3. Follows(r, st[s])
    BY <2>1, AlikeFollows
  <2>4. /\ KeepsMode(EnterIdleIssGuarded(r, wanted), r)
        /\ KeepsMode(EnterIdleIss(r, burst), r) /\ KeepsMode(EnterIdleIrs(r), r)
    BY <2>3, EnterIdleIssGuardedKeeps, EnterIdleIssKeeps, EnterIdleIrsKeeps
    DEF Follows, KeepsMode
  <2> QED
    BY <2>2, <2>3, <2>4, KeepsStep
<1> QED
  BY <1>2, <1>3, <1>4

(* The request has been sent, and the window is still empty; or it was the   *)
(* notice that the mode stays.                                               *)
LEMMA ModeReqTxCompleteKeeps ==
    ASSUME NEW s \in Station, Settled(st[s]), NEW burst, ModeReqTxComplete(s, burst)
    PROVE  StepKeeps(s)
<1> DEFINE r == [st[s] EXCEPT !.tx_retries_left = DataSlots]
<1>1. Become(s, IF st[s].pending_tx_mode # "none"
                THEN DflowEnter(st[s], "MODE_REQ_WAIT", "TIMER_RETRY")
                ELSE IF HasBacklog(r) THEN TransmitGuarded(r)
                ELSE EnterIdleIss(r, burst))
  BY DEF ModeReqTxComplete
<1>2. st[s].tx_window = <<>>
  BY DEF ModeReqTxComplete, InFlow, Settled, Requesting
<1>3. KeepsMode(DflowEnter(st[s], "MODE_REQ_WAIT", "TIMER_RETRY"), st[s])
  BY <1>2, DflowEnterKeeps
<1>4. Follows(r, st[s])
  BY RetriesFollow
<1> HIDE DEF r
<1>5. KeepsMode(TransmitGuarded(r), st[s]) /\ KeepsMode(EnterIdleIss(r, burst), st[s])
  BY <1>4, TransmitGuardedKeeps, EnterIdleIssKeeps, KeepsOn DEF Follows, KeepsMode
<1> QED
  BY <1>1, <1>3, <1>5 DEF StepKeeps

LEMMA OnTxCompleteKeeps ==
    ASSUME NEW s \in Station, Settled(st[s]), OnTxComplete(s)
    PROVE  StepKeeps(s) \/ UNCHANGED st
<1>1. CASE HandleTxComplete(s)
  BY <1>1, CallTxCompleteKeeps, StreamTxCompleteKeeps, ModeReqTxCompleteKeeps
  DEF HandleTxComplete, TxCompleteIgnored
<1>2. CASE ForcedTeardown(s)
  BY <1>2, ForcedTeardownKeeps
<1> QED
  BY <1>1, <1>2 DEF OnTxComplete

LEMMA OnDataReadyKeeps ==
    ASSUME NEW s \in Station, Settled(st[s]), OnDataReady(s)
    PROVE  StepKeeps(s)
<1> DEFINE r == [st[s] EXCEPT !.data_ready = @ - 1]
<1>1. Alike(r, st[s])
  BY DEF Settled, Alike, Shown
<1>2. \/ Become(s, StartDisconnect(r)) \/ Become(s, r)
      \/ \E burst \in BurstSizes :
            Become(s, IF r.need_initial_guard
                      THEN TransmitGuarded([r EXCEPT !.need_initial_guard = FALSE])
                      ELSE TransmitNow(r, burst))
      \/ Become(s, SendTurnReq([r EXCEPT !.tx_retries_left = TurnReqRetries]))
  BY DEF OnDataReady, HandleDataReady, IdleIssDataReady, IdleIrsDataReady, DataReadyIgnored
<1> HIDE DEF r
<1>3. Follows(r, st[s]) /\ Settled(r)
  BY <1>1, AlikeFollows DEF Follows, KeepsMode
<1> DEFINE free == [r EXCEPT !.need_initial_guard = FALSE]
           ask == [r EXCEPT !.tx_retries_left = TurnReqRetries]
<1>4. Alike(free, r) /\ Alike(ask, r)
  BY <1>3 DEF Settled, Alike, Shown
<1> HIDE DEF free, ask
<1>5. KeepsMode(free, r) /\ KeepsMode(ask, r)
  BY <1>3, <1>4, AlikeFollows DEF Follows
<1>6. /\ KeepsMode(TransmitGuarded(free), r) /\ KeepsMode(SendTurnReq(ask), r)
      /\ KeepsMode(StartDisconnect(r), r) /\ \A burst : KeepsMode(TransmitNow(r, burst), r)
  BY <1>3, <1>5, TransmitGuardedKeeps, SendTurnReqKeeps, StartDisconnectKeeps,
     TransmitNowKeeps, KeepsOn DEF KeepsMode
<1> QED
  BY <1>2, <1>3, <1>6, KeepsStep, FollowsStep DEF free, ask

LEMMA HostKeeps ==
    ASSUME NEW s \in Station, Settled(st[s]), HostWrite(s) \/ DrainDeadlinePasses(s)
    PROVE  StepKeeps(s)
<1> DEFINE put == [st[s] EXCEPT !.written = @ + 1,
                                !.backlog = Append(@, st[s].written + 1),
                                !.data_ready = @ + 1]
           late == [st[s] EXCEPT !.pending_disconnect = "overdue"]
<1>1. Alike(put, st[s]) /\ Alike(late, st[s])
  BY DEF Settled, Alike, Shown
<1>2. Become(s, put) \/ Become(s, late)
  BY DEF HostWrite, DrainDeadlinePasses
<1> HIDE DEF put, late
<1> QED
  BY <1>1, <1>2, AlikeFollows, FollowsStep

(* The mode that keying a burst records is the one the session has.          *)
LEMMA TxStartKeeps ==
    ASSUME NEW s \in Station, Settled(st[s]), st[s].txq \in Seq(Burst), TxStart(s)
    PROVE  StepKeeps(s)
<1> DEFINE k == NextAction(st[s].txq)
<1>1. PICK mode \in RecordedModes(st[s], st[s].txq[k]) :
         LET r == [st[s] EXCEPT !.txq = RemoveAt(@, k), !.payload_mode = mode]
         IN  Become(s, IF Overdue(r) THEN StartDisconnect(r) ELSE r)
  BY DEF TxStart
<1>2. k \in 1 .. Len(st[s].txq)
  BY NextActionInQueue DEF TxStart
<1> HIDE DEF k
<1> DEFINE b == st[s].txq[k]
           rest == RemoveAt(st[s].txq, k)
           r == [st[s] EXCEPT !.txq = rest, !.payload_mode = mode]
<1>3. BuiltQueue(rest, st[s].payload_mode) /\ BuiltFor(b, st[s].payload_mode)
  BY <1>2, RemoveAtBuilt DEF Settled
<1>4. mode = st[s].payload_mode
  <2>1. b \in Burst
    BY <1>2
  <2> HIDE DEF b
  <2>2. ~b.control => b.frames \in Seq(Frame) /\ b.frames # <<>>
    BY <2>1 DEF Burst
  <2>3. ~b.control => 1 \in DOMAIN b.frames
    BY <2>2
  <2>4. mode \in RecordedModes(st[s], b)
    BY <1>1 DEF b
  <2> QED
    BY <1>3, <2>3, <2>4 DEF BuiltFor, RecordedModes
<1>5. Become(s, IF Overdue(r) THEN StartDisconnect(r) ELSE r)
  BY <1>1
<1> HIDE DEF rest
<1>6. KeepsMode(r, st[s])
  BY <1>3, <1>4 DEF KeepsMode, Settled, Shown
<1> HIDE DEF r
<1>7. KeepsMode(StartDisconnect(r), st[s])
  BY <1>6, StartDisconnectKeeps, KeepsOn DEF KeepsMode
<1> QED
  BY <1>5, <1>6, <1>7 DEF StepKeeps

-----------------------------------------------------------------------------
(* The inductive invariant, and what a step does to the mode *)

ModeInv == \A s \in Station : Settled(st[s])

ModeStep ==
    \A s \in Station :
        /\ st[s].tx_window # <<>>
        /\ InConn(s, "CONNECTED") /\ st'[s].conn_state = "CONNECTED"
        => st'[s].payload_mode = st[s].payload_mode

LEMMA ModeInit == Init => ModeInv
<1> SUFFICES ASSUME Init, NEW s \in Station PROVE Settled(st[s])
  BY DEF ModeInv
<1>1. st[s] = InitSession
  BY DEF Init
<1>2. Shown(InitSession) /\ InitSession.txq = <<>> /\ InitSession.tx_window = <<>>
  BY DEF Shown, InitSession
<1> QED
  BY <1>1, <1>2, EmptyBuilt DEF Settled

LEMMA EmptyRoom ==
    ASSUME TxqBound = 1, NEW s, st[s].txq \in Seq(Burst), TxRoom(s)
    PROVE  st[s].txq = <<>>
<1>1. Len(st[s].txq) \in Nat
  OBVIOUS
<1>2. Len(st[s].txq) = 0
  BY <1>1 DEF TxRoom
<1> QED
  BY <1>2

(* A settled step of one station *)
LEMMA SettledNext ==
    ASSUME st \in [Station -> Session], ModeInv, NEW s \in Station,
           StepSettles(s) \/ UNCHANGED st
    PROVE  ModeInv' /\ ModeStep
<1>1. ASSUME StepSettles(s) PROVE ModeInv' /\ ModeStep
  <2>1. PICK r : /\ Settled(r) /\ st' = [st EXCEPT ![s] = r]
                 /\ r.payload_mode = st[s].payload_mode
                       \/ ~InConn(s, "CONNECTED") \/ st[s].tx_window = <<>>
    BY <1>1 DEF StepSettles, Become
  <2>2. \A t \in Station : st'[t] = IF t = s THEN r ELSE st[t]
    BY <2>1
  <2> QED
    BY <2>1, <2>2 DEF ModeInv, ModeStep
<1>2. CASE UNCHANGED st
  BY <1>2 DEF ModeInv, ModeStep
<1> QED
  BY <1>1, <1>2

LEMMA LocalSettles ==
    ASSUME TxqBound = 1, st \in [Station -> Session], ModeInv, NEW s \in Station,
           Local(s) \/ TxStart(s)
    PROVE  StepSettles(s) \/ UNCHANGED st
<1>1. Settled(st[s]) /\ st[s].txq \in Seq(Burst)
  <2>1. st[s] \in Session
    OBVIOUS
  <2> QED
    BY <2>1 DEF Session, ModeInv
<1>2. CASE HostCommand(s)
  BY <1>1, <1>2, EmptyRoom, CommandSettles DEF HostCommand
<1>3. CASE HostData(s) \/ DrainOver(s)
  BY <1>1, <1>3, HostKeeps, KeepsSettles DEF HostData, DrainOver
<1>4. CASE Timer(s) \/ DataReady(s)
  BY <1>1, <1>4, OnTimerKeeps, OnDataReadyKeeps, KeepsSettles DEF Timer, DataReady
<1>5. CASE TxEnd(s)
  BY <1>1, <1>5, OnTxCompleteKeeps, KeepsSettles DEF TxEnd
<1>6. CASE TxStart(s)
  BY <1>1, <1>6, TxStartKeeps, KeepsSettles
<1> QED
  BY <1>2, <1>3, <1>4, <1>5, <1>6 DEF Local

LEMMA FrameSettles ==
    ASSUME TxqBound = 1, st \in [Station -> Session], ModeInv, NEW s \in Station, NEW f,
           TxRoom(s), OnFrame(s, f)
    PROVE  StepSettles(s)
<1>1. st[s] \in Session
  OBVIOUS
<1>2. Settled(st[s]) /\ st[s].txq \in Seq(Burst)
  BY <1>1 DEF Session, ModeInv
<1> QED
  BY <1>2, EmptyRoom, OnFrameSettles

LEMMA ModeNext ==
    ASSUME TxqBound = 1, IInv, ModeInv, [OpenNext]_vars
    PROVE  ModeInv' /\ ModeStep
<1>1. st \in [Station -> Session]
  BY DEF IInv, TypeOK
<1>2. CASE UNCHANGED st
  BY <1>2 DEF ModeInv, ModeStep
<1>3. ASSUME NEW s \in Station, Local(s) \/ TxStart(s) PROVE ModeInv' /\ ModeStep
  BY <1>1, <1>3, LocalSettles, SettledNext
<1>4. ASSUME NEW s \in Station, Hears(s) PROVE ModeInv' /\ ModeStep
  BY <1>1, <1>4, FrameSettles, SettledNext DEF Hears
<1> QED
  BY <1>2, <1>3, <1>4 DEF OpenNext, vars

LEMMA OpenModeStays == TxqBound = 1 => (OpenSpec => ModeKeptInFlight)
<1> SUFFICES ASSUME TxqBound = 1 PROVE OpenSpec => ModeKeptInFlight
  OBVIOUS
<1>1. IInv /\ ModeInv /\ [OpenNext]_vars => ModeInv' /\ ModeStep
  BY ModeNext
<1>2. ModeStep => \A s \in Station :
                     /\ st[s].tx_window # <<>>
                     /\ InConn(s, "CONNECTED") /\ st'[s].conn_state = "CONNECTED"
                     => st'[s].payload_mode = st[s].payload_mode
  BY DEF ModeStep
<1> QED
  BY <1>1, <1>2, ModeInit, Inductive, PTL DEF OpenSpec, ModeKeptInFlight

(* A connection's payload mode does not change while a frame of its window   *)
(* is unacknowledged, whatever mode requests and answers the peer sends, in  *)
(* whatever order timers and frames come: the bursts that are queued have    *)
(* the session's mode, so keying one records no other, and a mode is asked   *)
(* for, and answered, with an empty window.                                  *)
THEOREM ModeStays == TxqBound = 1 => (Spec => ModeKeptInFlight)
  BY OpenModeStays, SpecIsOpen, PTL

=============================================================================

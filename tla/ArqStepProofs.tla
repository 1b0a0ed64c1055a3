--------------------------- MODULE ArqStepProofs ----------------------------
(***************************************************************************)
(* What a step of one station may do to the two streams of a session and   *)
(* to the modem's queue, for every value of the constants and whatever the *)
(* peer sends: Moves(r, q, f) of a step that takes the session from r to q *)
(* with frame f decoded or none.  A lemma for each helper of ArqSession    *)
(* and each handler of ArqFsm says that it moves so.  The second half says *)
(* what a step may do about who sends, while a burst is one frame (Turns,  *)
(* Implies, Keyed).  ArqLinkProofs needs no more of the state machine.     *)
(***************************************************************************)
EXTENDS ArqFsmProofs

Up(r) == r.conn_state = "CONNECTED"

(* How much of what was written the peer is taken to have. *)
Base(r) == Len(r.txlog) - Len(r.tx_window)

(* What the application wrote and nothing has dropped. *)
Load(r) == Len(r.txlog) + Len(r.backlog)

(* Having something to send, or being about to. *)
Busy(r) ==
    Up(r) /\ r.dflow_state \in {"DATA_TX", "WAIT_ACK", "MODE_REQ_TX", "MODE_REQ_WAIT"}
Active(r) == HasBacklog(r) \/ Busy(r)

Actions(r) == {r.txq[i] : i \in 1 .. Len(r.txq)}

Control(f) == [control |-> TRUE, frames |-> <<f>>]

(* fs are the units of log with the numbers from k on. *)
RunAt(fs, log, k) ==
    /\ k \in Nat /\ k + Len(fs) <= Len(log)
    /\ \A i \in 1 .. Len(fs) :
          /\ fs[i].type = "DATA"
          /\ fs[i].seq = (k + i - 1) % SeqSpace
          /\ fs[i].unit = log[k + i]

Sent(f) == WellFormed(f) /\ (f.type # "CQ" => f.sid \in SessionIds)

(* What a station may put into its queue in a step that leaves it as q. *)
FreshControl(f, q) ==
    /\ Sent(f) /\ f.type # "DATA"
    /\ f.type = "CALL" => q.conn_state = "CALLING"
    /\ f.type = "ACK" => Up(q) /\ f.seq = Len(q.rxlog) % SeqSpace
    /\ f.type = "MODE_REQ" => Busy(q)

FreshData(fs, q) ==
    /\ Up(q) /\ fs # <<>> /\ fs \in Seq(Frame)
    /\ \A i \in 1 .. Len(fs) : Sent(fs[i])
    /\ \E k \in Base(q) .. Len(q.txlog) : RunAt(fs, q.txlog, k)

Fresh(b, q) ==
    \/ \E f \in Frame : b = Control(f) /\ FreshControl(f, q)
    \/ ~b.control /\ FreshData(b.frames, q)

(* t goes on where s ends. *)
Grows(s, t) == Len(s) <= Len(t) /\ \A i \in 1 .. Len(s) : s[i] = t[i]

(* The id of a session that is more than an empty record is a caller's. *)
IdOf(r) == r.conn_state \notin {"DISCONNECTED", "LISTENING"} => r.session_id \in SessionIds

(* A mode request that is waited for names a mode. *)
Asks(r) == Up(r) /\ r.dflow_state = "MODE_REQ_WAIT" => r.pending_tx_mode \in PayloadModes

(* A step inside a session. *)
InSession(r, q, f) ==
    /\ Grows(r.txlog, q.txlog)
    /\ \/ q.rxlog = r.rxlog
       \/ /\ f.type = "DATA" /\ f.seq = Len(r.rxlog) % SeqSpace
          /\ q.rxlog = Append(r.rxlog, f.unit)
    /\ \/ Base(q) = Base(r)
       \/ /\ f.type = "ACK" /\ q.txlog = r.txlog
          /\ Base(q) = Base(r) + AckedCount(r.tx_window, f.seq)
       \/ /\ f.type \in {"DATA", "MODE_REQ"} /\ q.txlog = r.txlog
          /\ Base(q) = Len(r.txlog)

(* A step into a session. *)
Joins(r, q, f) ==
    /\ f.type \in {"DATA", "ACK", "ACCEPT"}
    /\ q.session_id = r.session_id
    /\ q.txlog = <<>> /\ q.tx_window = <<>>
    /\ \/ q.rxlog = <<>>
       \/ f.type = "DATA" /\ f.seq = 0 /\ q.rxlog = <<f.unit>>

(* No frame was decoded in the step. *)
NoFrame == [type |-> "none"]

(* A step outside sessions. *)
Apart(r, q, f) ==
    \/ q.session_id = r.session_id
    \/ f = NoFrame /\ q.conn_state = "CALLING" /\ r.conn_state # "CALLING"
    \/ f.type = "CALL" /\ q.session_id = f.sid /\ q.txq = r.txq

Moves(r, q, f) ==
    /\ Good(q) /\ IdOf(q) /\ Asks(q)
    /\ q.written = r.written /\ Load(q) <= Load(r)
    /\ Active(q) => Active(r)
    /\ \A b \in Actions(q) : b \in Actions(r) \/ Fresh(b, q)
    /\ Up(r) => q.session_id = r.session_id /\ q.conn_state # "CALLING"
    /\ Up(r) /\ Up(q) => InSession(r, q, f)
    /\ ~Up(r) /\ Up(q) => Joins(r, q, f)
    /\ ~Up(r) /\ ~Up(q) => Apart(r, q, f)

-----------------------------------------------------------------------------
(* Helpers *)

SessionFields ==
    {"conn_state", "dflow_state", "role", "session_id", "tx_seq", "rx_expected",
     "payload_mode", "peer_tx_mode", "pending_tx_mode", "tx_retries_left", "tx_window",
     "peer_has_data", "acktx_had_has_data", "listen_enabled", "pending_disconnect",
     "pending_disconnect_notify", "pending_connect_confirm", "need_initial_guard",
     "keepalive_miss_count", "keepalive_from_irs", "keepalive_ack_from_irs", "deadline",
     "backlog", "data_ready", "txq", "host", "txlog", "rxlog", "written"}

Whole(r) == DOMAIN r = SessionFields

LEMMA GoodWhole == ASSUME NEW r, Good(r) PROVE Whole(r)
  BY DEF Good, Session, Whole, SessionFields

(* q and r have the same streams. *)
Same(q, r) ==
    /\ Whole(q)
    /\ q.session_id = r.session_id /\ q.written = r.written
    /\ q.txlog = r.txlog /\ q.rxlog = r.rxlog
    /\ q.tx_window = r.tx_window /\ q.backlog = r.backlog
    /\ q.tx_seq = r.tx_seq /\ q.rx_expected = r.rx_expected

(* q is r but for fields that nothing here looks at. *)
Twin(q, r) ==
    /\ Same(q, r) /\ q.txq = r.txq
    /\ q.conn_state = r.conn_state /\ q.dflow_state = r.dflow_state
    /\ q.pending_tx_mode = r.pending_tx_mode

LEMMA DflowEnterSame ==
    ASSUME NEW r, Whole(r), NEW state, NEW event
    PROVE  LET q == DflowEnter(r, state, event)
           IN  /\ Same(q, r) /\ q.txq = r.txq
               /\ q.conn_state = r.conn_state /\ q.dflow_state = state
  BY DEF DflowEnter, Same, Whole, SessionFields

LEMMA SessEnterSame ==
    ASSUME NEW r, Whole(r), NEW state, NEW event
    PROVE  LET q == SessEnter(r, state, event)
           IN  /\ Same(q, r) /\ q.txq = r.txq /\ q.conn_state = state
  BY DEF SessEnter, Same, Whole, SessionFields

LEMMA SendControlSame ==
    ASSUME NEW r, Whole(r), NEW f
    PROVE  LET q == SendControl(r, f)
           IN  /\ Same(q, r) /\ q.txq = Append(r.txq, Control(f))
               /\ q.conn_state = r.conn_state /\ q.dflow_state = r.dflow_state
               /\ q.pending_tx_mode = r.pending_tx_mode
  BY DEF SendControl, Control, Same, Whole, SessionFields

LEMMA StartDisconnectSame ==
    ASSUME NEW r, Whole(r)
    PROVE  LET q == StartDisconnect(r)
           IN  Same(q, r) /\ q.txq = r.txq /\ q.conn_state = "DISCONNECTING"
<1> DEFINE p == [r EXCEPT !.pending_disconnect = "no", !.tx_retries_left = DisconnectSlots]
<1>1. Twin(p, r)
  BY DEF Twin, Same, Whole, SessionFields
<1> HIDE DEF p
<1>2. LET q == SessEnter(p, "DISCONNECTING", "TIMER_ACK")
      IN  Same(q, p) /\ q.txq = p.txq /\ q.conn_state = "DISCONNECTING"
  BY <1>1, SessEnterSame DEF Twin, Same
<1> QED
  BY <1>1, <1>2 DEF StartDisconnect, p, Twin, Same

(* The call is over: the streams are left as they are, the backlog is gone. *)
LEMMA EndCallSame ==
    ASSUME NEW r, Whole(r)
    PROVE  LET q == EndCall(r)
           IN  /\ Whole(q) /\ q.txq = r.txq /\ q.session_id = r.session_id
               /\ q.written = r.written /\ q.txlog = r.txlog /\ q.backlog = <<>>
               /\ q.rxlog = r.rxlog /\ q.tx_window = r.tx_window
               /\ q.conn_state \in {"DISCONNECTED", "LISTENING"}
<1> DEFINE p == [r EXCEPT !.host = "idle", !.backlog = <<>>]
<1>1. /\ Whole(p) /\ p.txq = r.txq /\ p.session_id = r.session_id
      /\ p.written = r.written /\ p.txlog = r.txlog /\ p.backlog = <<>>
      /\ p.rxlog = r.rxlog /\ p.tx_window = r.tx_window
  BY DEF Whole, SessionFields
<1> HIDE DEF p
<1>2. \A state \in {"DISCONNECTED", "LISTENING"} :
         LET q == SessEnter(p, state, "none")
         IN  Same(q, p) /\ q.txq = p.txq /\ q.conn_state = state
  BY <1>1, SessEnterSame
<1>3. EndCall(r) = SessEnter(p, IF p.listen_enabled THEN "LISTENING" ELSE "DISCONNECTED",
                             "none")
  BY DEF EndCall, EnterIdleAfterCall, NotifyDisconnected, p
<1> QED
  BY <1>1, <1>2, <1>3 DEF Same

-----------------------------------------------------------------------------
(* What is sent *)

LEMMA PlainSent ==
    ASSUME NEW type \in ShortTypes, NEW sid \in SessionIds
    PROVE  Sent(PlainFrame(type, sid)) /\ PlainFrame(type, sid).type = type
<1>1. PlainFrame(type, sid) \in PeerFrames
  BY DEF PeerFrames, ShortFrames
<1> QED
  BY <1>1, PeerFramesWellFormed DEF Sent, PlainFrame

LEMMA AckSent ==
    ASSUME NEW sid \in SessionIds, NEW n \in Nat, NEW has_data \in BOOLEAN
    PROVE  LET f == AckFrame(sid, n % SeqSpace, has_data)
           IN  Sent(f) /\ f.type = "ACK" /\ f.seq = n % SeqSpace
<1>1. AckFrame(sid, n % SeqSpace, has_data) \in PeerFrames
  BY ModType DEF PeerFrames, AckFrames
<1> QED
  BY <1>1, PeerFramesWellFormed DEF Sent, AckFrame, PlainFrame

LEMMA ModeSent ==
    ASSUME NEW sid \in SessionIds, NEW type \in {"MODE_REQ", "MODE_ACK"},
           NEW mode \in PayloadModes
    PROVE  LET f == ModeFrame(type, sid, mode) IN Sent(f) /\ f.type = type
<1>1. ModeFrame(type, sid, mode) \in PeerFrames
  BY DEF PeerFrames, ModeFrames
<1> QED
  BY <1>1, PeerFramesWellFormed DEF Sent, ModeFrame, PlainFrame

LEMMA GrowsItself == ASSUME NEW s \in Seq(Nat) PROVE Grows(s, s)
  BY DEF Grows

LEMMA LoadType == ASSUME NEW r, Good(r) PROVE Load(r) \in Nat
<1>1. r.txlog \in Seq(Nat) /\ r.backlog \in Seq(Nat)
  BY Fields
<1>2. Len(r.txlog) \in Nat /\ Len(r.backlog) \in Nat
  BY <1>1
<1>3. \A m, n \in Nat : m + n \in Nat
  OBVIOUS
<1> QED
  BY <1>2, <1>3 DEF Load

LEMMA AppendActions ==
    ASSUME NEW r, NEW q, NEW S, NEW b, r.txq \in Seq(S), q.txq = Append(r.txq, b)
    PROVE  \A c \in Actions(q) : c \in Actions(r) \/ c = b
<1> SUFFICES ASSUME NEW i \in 1 .. Len(q.txq) PROVE q.txq[i] \in Actions(r) \/ q.txq[i] = b
  BY DEF Actions
<1>1. Len(r.txq) \in Nat /\ Len(q.txq) = Len(r.txq) + 1
  OBVIOUS
<1>2. CASE i \in 1 .. Len(r.txq)
  <2>1. q.txq[i] = r.txq[i]
    BY <1>2
  <2> QED
    BY <1>2, <2>1 DEF Actions
<1>3. CASE i = Len(r.txq) + 1
  BY <1>3
<1> QED
  BY <1>1, <1>2, <1>3

(* q is where r is, or has left it. *)
Stays(q, r) ==
    \/ q.conn_state \in {r.conn_state, "DISCONNECTED", "LISTENING"}
    \/ Up(r) /\ q.conn_state = "DISCONNECTING"

(* q is r, in the same session or leaving it, after sending something or not. *)
Carries(q, r) ==
    /\ Stays(q, r)
    /\ q.session_id = r.session_id /\ q.written = r.written /\ q.rxlog = r.rxlog
    /\ Grows(r.txlog, q.txlog) /\ Base(q) = Base(r) /\ Load(q) <= Load(r)
    /\ Active(q) => Active(r)
    /\ Asks(q)
    /\ \A b \in Actions(q) : b \in Actions(r) \/ Fresh(b, q)

LEMMA CarriesStill ==
    ASSUME NEW r, Good(r), NEW q, Same(q, r), q.txq = r.txq, Stays(q, r),
           Busy(q) => Active(r), Asks(q)
    PROVE  Carries(q, r)
<1>1. Grows(r.txlog, r.txlog) /\ Load(r) \in Nat
  BY Fields, GrowsItself, LoadType
<1>2. Base(q) = Base(r) /\ Load(q) = Load(r) /\ Actions(q) = Actions(r)
  BY DEF Same, Base, Load, Actions
<1>3. Active(q) => Active(r)
  BY DEF Same, Active, HasBacklog
<1> QED
  BY <1>1, <1>2, <1>3 DEF Carries, Same

LEMMA CarriesControl ==
    ASSUME NEW r, Good(r), NEW q, Same(q, r), NEW f, q.txq = Append(r.txq, Control(f)),
           Stays(q, r), FreshControl(f, q), Busy(q) => Active(r), Asks(q)
    PROVE  Carries(q, r)
<1>1. Grows(r.txlog, r.txlog) /\ Load(r) \in Nat /\ r.txq \in Seq(Burst)
  BY Fields, GrowsItself, LoadType
<1>2. Base(q) = Base(r) /\ Load(q) = Load(r)
  BY DEF Same, Base, Load
<1>3. Active(q) => Active(r)
  BY DEF Same, Active, HasBacklog
<1>4. Fresh(Control(f), q)
  BY DEF Fresh, FreshControl, Sent, WellFormed
<1>5. \A b \in Actions(q) : b \in Actions(r) \/ Fresh(b, q)
  BY <1>1, <1>4, AppendActions
<1> QED
  BY <1>1, <1>2, <1>3, <1>5 DEF Carries, Same

(* Two steps that carry. *)
LEMMA CarriesAfter ==
    ASSUME NEW r, NEW p, NEW q, Same(p, r), p.txq = r.txq,
           p.conn_state = r.conn_state, Active(p) => Active(r), Carries(q, p)
    PROVE  Carries(q, r)
<1>1. Base(p) = Base(r) /\ Load(p) = Load(r) /\ Actions(p) = Actions(r)
  BY DEF Same, Base, Load, Actions
<1> QED
  BY <1>1 DEF Carries, Same, Stays, Up

LEMMA TwinActive == ASSUME NEW r, NEW p, Twin(p, r) PROVE Active(p) <=> Active(r)
  BY DEF Twin, Same, Active, HasBacklog, Busy, Up


-----------------------------------------------------------------------------
(* The window as a burst *)

(* A burst of the window is a run of what was written, from Base on. *)
LEMMA WindowRun ==
    ASSUME NEW q, Good(q), q.tx_window # <<>>, Up(q), NEW sid \in SessionIds,
           NEW mode \in PayloadModes,
           NEW fs, fs = [i \in 1 .. Len(q.tx_window) |->
                            DataFrame(sid, q.tx_window[i].seq % SeqSpace, mode,
                                      q.tx_window[i].unit)]
    PROVE  FreshData(fs, q)
<1> DEFINE w == q.tx_window
<1>1. /\ w \in Seq(Slot) /\ q.tx_seq \in Nat /\ q.txlog \in Seq(Nat) /\ sid \in Nat
  BY Fields, SessionIdAssumption
<1>2. Len(w) \in Nat /\ Len(w) > 0 /\ Len(w) <= q.tx_seq /\ q.tx_seq = Len(q.txlog)
  BY <1>1 DEF Good, WindowOf
<1>3. Base(q) = q.tx_seq - Len(w)
  BY <1>2 DEF Base
<1>4. Base(q) \in Nat /\ Base(q) + Len(w) = Len(q.txlog) /\ Base(q) \in Base(q) .. Len(q.txlog)
  <2> HIDE DEF w
  <2> QED
    BY <1>1, <1>2, <1>3
<1>a. \A i \in 1 .. Len(w) : /\ w[i].seq = Base(q) + i - 1
                             /\ w[i].unit = q.txlog[w[i].seq + 1]
                             /\ w[i] \in Slot
  <2>1. \A i \in 1 .. Len(w) : /\ w[i].seq = q.tx_seq - Len(w) + i - 1
                               /\ w[i].unit = q.txlog[w[i].seq + 1]
    BY DEF Good, WindowOf
  <2> HIDE DEF w
  <2> QED
    BY <1>1, <1>3, <2>1
<1>5. \A i \in 1 .. Len(w) :
        LET f == DataFrame(sid, w[i].seq % SeqSpace, mode, w[i].unit)
        IN  /\ Sent(f) /\ f \in Frame /\ f.type = "DATA"
            /\ f.seq = (Base(q) + i - 1) % SeqSpace /\ f.unit = q.txlog[Base(q) + i]
  <2> TAKE i \in 1 .. Len(w)
  <2> DEFINE f == DataFrame(sid, w[i].seq % SeqSpace, mode, w[i].unit)
  <2>1. w[i].seq \in Nat /\ w[i].unit \in Nat /\ w[i].seq % SeqSpace \in 0 .. SeqSpace - 1
    BY <1>a, ModType DEF Slot
  <2>2. f \in Frame /\ f.mode = mode
    BY <1>1, <2>1, DataFrameType
  <2>3. f.type = "DATA" /\ f.sid = sid /\ f.seq = w[i].seq % SeqSpace /\ f.unit = w[i].unit
    BY DEF DataFrame, PlainFrame
  <2> HIDE DEF f
  <2>4. w[i].seq + 1 = Base(q) + i
    BY <1>a, <1>4
  <2>5. Sent(f)
    BY <2>2, <2>3 DEF Sent, WellFormed
  <2>6. f.seq = (Base(q) + i - 1) % SeqSpace /\ f.unit = q.txlog[Base(q) + i]
    BY <1>a, <2>3, <2>4
  <2> QED
    BY <2>2, <2>3, <2>5, <2>6 DEF f
<1> DEFINE F(i) == DataFrame(sid, w[i].seq % SeqSpace, mode, w[i].unit)
<1>6. /\ \A i \in 1 .. Len(w) : F(i) \in Frame
      /\ fs = [i \in 1 .. Len(w) |-> F(i)]
  BY <1>5
<1>7. \A i \in 1 .. Len(w) :
         /\ Sent(F(i)) /\ F(i).type = "DATA"
         /\ F(i).seq = (Base(q) + i - 1) % SeqSpace /\ F(i).unit = q.txlog[Base(q) + i]
  BY <1>5
<1> HIDE DEF F, w
<1>8. /\ fs \in Seq(Frame) /\ fs # <<>> /\ Len(fs) = Len(w)
      /\ \A i \in 1 .. Len(fs) : fs[i] = F(i)
  BY <1>2, <1>6
<1>9. RunAt(fs, q.txlog, Base(q))
  <2>1. Base(q) + Len(fs) <= Len(q.txlog)
    BY <1>2, <1>4, <1>8
  <2> QED
    BY <1>4, <1>7, <1>8, <2>1 DEF RunAt
<1> QED
  BY <1>4, <1>7, <1>8, <1>9 DEF FreshData

LEMMA ConcatLength ==
    ASSUME NEW S, NEW p \in Seq(S), NEW q \in Seq(S)
    PROVE  Len(p \o q) = Len(p) + Len(q)
  OBVIOUS

(* The window with n fresh units at its end. *)
LEMMA FreshWindow ==
    ASSUME NEW w \in Seq(Slot), NEW b \in Seq(Nat), NEW seq \in Nat, NEW n \in 0 .. Len(b)
    PROVE  /\ n \in Nat
           /\ Len(w \o [i \in 1 .. n |-> [seq |-> seq + i - 1, unit |-> b[i]]]) = Len(w) + n
<1> DEFINE fresh == [i \in 1 .. n |-> [seq |-> seq + i - 1, unit |-> b[i]]]
<1>1. \A i \in 1 .. n : [seq |-> seq + i - 1, unit |-> b[i]] \in Slot
  <2> TAKE i \in 1 .. n
  <2>1. i \in Nat /\ i >= 1 /\ i \in 1 .. Len(b)
    OBVIOUS
  <2>2. seq + i - 1 \in Nat /\ b[i] \in Nat
    BY <2>1
  <2> QED
    BY <2>2 DEF Slot
<1>2. fresh \in Seq(Slot) /\ Len(fresh) = n
  BY <1>1
<1> HIDE DEF fresh
<1>3. Len(w \o fresh) = Len(w) + Len(fresh)
  BY <1>2, ConcatLength
<1>4. n \in Nat
  OBVIOUS
<1> QED
  BY <1>2, <1>3, <1>4 DEF fresh

LEMMA SumBack ==
    ASSUME NEW l \in Nat, NEW b \in Nat, NEW n \in Nat
    PROVE  l + n + (b - n) = l + b /\ l + b \in Nat
  OBVIOUS

LEMMA BurstCarries ==
    ASSUME NEW r, Good(r), Up(r), r.session_id \in SessionIds, Asks(r),
           NEW burst \in BurstSizes
    PROVE  LET q == SendDataBurst(r, burst)
           IN  /\ Carries(q, r)
               /\ q.conn_state = r.conn_state /\ q.dflow_state = r.dflow_state
<1> DEFINE n == FreshCount(r, burst)
           fresh == [i \in 1 .. n |-> [seq |-> r.tx_seq + i - 1, unit |-> r.backlog[i]]]
           w == r.tx_window \o fresh
           taken == SubSeq(r.backlog, 1, n)
           rest == SubSeq(r.backlog, n + 1, Len(r.backlog))
           q == SendDataBurst(r, burst)
<1>1. /\ r.tx_window \in Seq(Slot) /\ r.tx_seq \in Nat /\ r.backlog \in Seq(Nat)
      /\ r.txlog \in Seq(Nat) /\ r.txq \in Seq(Burst) /\ r.payload_mode \in PayloadModes
      /\ Whole(r)
  BY Fields, GoodWhole
<1>2. n \in 0 .. Len(r.backlog)
  BY FreshCountBound
<1>3. Good(q)
  BY SendDataBurstGood
<1>4. CASE w = <<>>
  <2>1. q = r
    BY <1>4 DEF SendDataBurst
  <2>2. Same(q, r) /\ q.txq = r.txq /\ (Busy(q) => Active(r)) /\ Stays(q, r)
    BY <1>1, <2>1 DEF Same, Active, Stays
  <2> QED
    BY <2>1, <2>2, CarriesStill
<1>5. CASE w # <<>>
  <2>1. /\ q.tx_window = w /\ q.backlog = rest /\ q.txlog = r.txlog \o taken
        /\ q.txq = Append(r.txq, WindowBurst(r, w))
        /\ q.session_id = r.session_id /\ q.written = r.written /\ q.rxlog = r.rxlog
        /\ q.conn_state = r.conn_state /\ q.dflow_state = r.dflow_state
        /\ q.pending_tx_mode = r.pending_tx_mode
    BY <1>1, <1>5 DEF SendDataBurst, Whole, SessionFields
  <2>3. Len(w) = Len(r.tx_window) + n /\ n \in Nat
    BY <1>1, <1>2, FreshWindow
  <2>4. taken \in Seq(Nat) /\ Len(taken) = n /\ rest \in Seq(Nat) /\ Len(rest) = Len(r.backlog) - n
    <3> HIDE DEF n
    <3> QED
      BY <1>1, <1>2
  <2>5. WindowBurst(r, w).control = FALSE
        /\ WindowBurst(r, w).frames = [i \in 1 .. Len(w) |->
              DataFrame(r.session_id, w[i].seq % SeqSpace, r.payload_mode, w[i].unit)]
    BY DEF WindowBurst
  <2> HIDE DEF q, w, fresh, taken, rest, n
  <2>6. Grows(r.txlog, q.txlog) /\ Len(q.txlog) = Len(r.txlog) + n
    <3>1. /\ Len(q.txlog) = Len(r.txlog) + n
          /\ \A i \in 1 .. Len(r.txlog) : q.txlog[i] = r.txlog[i]
      <4>1. /\ Len(r.txlog \o taken) = Len(r.txlog) + Len(taken)
            /\ \A i \in 1 .. Len(r.txlog) : (r.txlog \o taken)[i] = r.txlog[i]
        BY <1>1, <2>4, ConcatFacts
      <4> QED
        BY <2>1, <2>4, <4>1
    <3>2. Len(r.txlog) \in Nat /\ n \in Nat
      BY <1>1, <2>3
    <3> QED
      BY <3>1, <3>2 DEF Grows
  <2>7. Base(q) = Base(r) /\ Load(q) = Load(r) /\ Load(r) \in Nat
    <3>1. /\ Len(r.txlog) \in Nat /\ Len(r.tx_window) \in Nat /\ Len(r.backlog) \in Nat
      BY <1>1
    <3>2. Base(q) = Base(r)
      BY <2>1, <2>3, <2>6, <3>1 DEF Base
    <3>3. Load(q) = Load(r) /\ Load(r) \in Nat
      <4>1. Load(q) = Len(r.txlog) + n + (Len(r.backlog) - n)
        BY <2>1, <2>4, <2>6 DEF Load
      <4>2. Len(r.txlog) + n + (Len(r.backlog) - n) = Len(r.txlog) + Len(r.backlog)
        <5> DEFINE l == Len(r.txlog)
                   b == Len(r.backlog)
        <5>1. l \in Nat /\ b \in Nat /\ n \in Nat
          BY <2>3, <3>1
        <5> HIDE DEF l, b
        <5>2. l + n + (b - n) = l + b
          BY <5>1, SumBack
        <5> QED
          BY <5>2 DEF l, b
      <4> QED
        BY <4>1, <4>2, LoadType DEF Load
    <3> QED
      BY <3>2, <3>3
  <2>8. Active(q) => Active(r)
    <3>1. r.backlog = <<>> => q.backlog = <<>>
      BY <1>1, <1>2, <2>1, <2>4
    <3> QED
      BY <2>1, <3>1 DEF Active, Busy, Up, HasBacklog
  <2>9. Asks(q) /\ Up(q) /\ Stays(q, r)
    BY <2>1 DEF Asks, Up, Stays
  <2>10. Fresh(WindowBurst(r, w), q)
    <3>1. FreshData(WindowBurst(r, w).frames, q)
      BY <1>1, <1>3, <1>5, <2>1, <2>5, <2>9, WindowRun
    <3> QED
      BY <2>5, <3>1 DEF Fresh
  <2>11. \A b \in Actions(q) : b \in Actions(r) \/ Fresh(b, q)
    <3>1. \A b \in Actions(q) : b \in Actions(r) \/ b = WindowBurst(r, w)
      BY <1>1, <2>1, AppendActions
    <3> QED
      BY <2>10, <3>1
  <2>12. Carries(q, r)
    BY <2>1, <2>6, <2>7, <2>8, <2>9, <2>11 DEF Carries
  <2> QED
    BY <2>1, <2>12 DEF q
<1> QED
  BY <1>4, <1>5


-----------------------------------------------------------------------------
(* Helpers in a session *)

Fit(r) == Good(r) /\ Up(r) /\ r.session_id \in SessionIds

LEMMA TwinFit == ASSUME NEW r, Fit(r), NEW p, Good(p), Twin(p, r) PROVE Fit(p)
  BY DEF Fit, Twin, Same, Up

LEMMA TwinCarries ==
    ASSUME NEW r, NEW p, NEW q, Twin(p, r), Carries(q, p) PROVE Carries(q, r)
  BY TwinActive, CarriesAfter DEF Twin

LEMMA TwinAsks == ASSUME NEW r, NEW p, Twin(p, r), Asks(r) PROVE Asks(p)
  BY DEF Twin, Asks, Up

(* p is r with one frame sent that any state may send. *)
Speaks(p, r) ==
    /\ Same(p, r) /\ p.conn_state = r.conn_state /\ p.dflow_state = r.dflow_state
    /\ p.pending_tx_mode = r.pending_tx_mode
    /\ \E f \in Frame : /\ p.txq = Append(r.txq, Control(f))
                        /\ \A x : FreshControl(f, x)

LEMMA SendCtrlFrameSpeaks ==
    ASSUME NEW r, Whole(r), r.session_id \in SessionIds, NEW type \in ShortTypes \ {"CALL"}
    PROVE  Speaks(SendCtrlFrame(r, type), r)
<1> DEFINE f == PlainFrame(type, r.session_id)
<1>1. Sent(f) /\ f.type = type
  BY PlainSent
<1>2. f \in Frame /\ \A x : FreshControl(f, x)
  BY <1>1 DEF FreshControl, ShortTypes, Sent, WellFormed
<1> QED
  BY <1>2, SendControlSame DEF Speaks, SendCtrlFrame

LEMMA SpeaksCarries ==
    ASSUME NEW r, Good(r), NEW p, Speaks(p, r), NEW q, Same(q, p), q.txq = p.txq,
           Stays(q, r), Busy(q) => Active(r), Asks(q)
    PROVE  Carries(q, r)
<1>1. PICK f \in Frame : p.txq = Append(r.txq, Control(f)) /\ FreshControl(f, q)
  BY DEF Speaks
<1>2. Same(q, r)
  BY DEF Speaks, Same
<1> QED
  BY <1>1, <1>2, CarriesControl

LEMMA DflowEnterCarries ==
    ASSUME NEW r, Fit(r), NEW state, NEW event, state # "MODE_REQ_WAIT",
           state \in {"DATA_TX", "WAIT_ACK", "MODE_REQ_TX"} => Active(r)
    PROVE  Carries(DflowEnter(r, state, event), r)
<1> DEFINE q == DflowEnter(r, state, event)
<1>1. /\ Same(q, r) /\ q.txq = r.txq /\ q.conn_state = r.conn_state /\ q.dflow_state = state
  BY GoodWhole, DflowEnterSame DEF Fit
<1> HIDE DEF q
<1>2. (Busy(q) => Active(r)) /\ Asks(q) /\ Stays(q, r)
  BY <1>1 DEF Busy, Asks, Stays
<1> QED
  BY <1>1, <1>2, CarriesStill DEF Fit, q

LEMMA EnterIdleIrsCarries == ASSUME NEW r, Fit(r) PROVE Carries(EnterIdleIrs(r), r)
  BY DflowEnterCarries DEF EnterIdleIrs

LEMMA StartDisconnectCarries ==
    ASSUME NEW r, Good(r), Up(r) PROVE Carries(StartDisconnect(r), r)
<1>1. LET q == StartDisconnect(r)
      IN  Same(q, r) /\ q.txq = r.txq /\ q.conn_state = "DISCONNECTING"
  BY GoodWhole, StartDisconnectSame
<1> QED
  BY <1>1, CarriesStill DEF Busy, Asks, Up, Stays

LEMMA EndCallCarries ==
    ASSUME NEW r, Good(r) PROVE Carries(EndCall(r), r)
<1> DEFINE q == EndCall(r)
<1>1. /\ q.txq = r.txq /\ q.session_id = r.session_id
      /\ q.written = r.written /\ q.txlog = r.txlog /\ q.backlog = <<>>
      /\ q.rxlog = r.rxlog /\ q.tx_window = r.tx_window
      /\ q.conn_state \in {"DISCONNECTED", "LISTENING"}
  BY GoodWhole, EndCallSame
<1> HIDE DEF q
<1>2. Len(r.txlog) \in Nat /\ Len(r.backlog) \in Nat /\ Len(<<>>) = 0 /\ Grows(r.txlog, r.txlog)
  BY Fields, GrowsItself
<1>3. \A m, n \in Nat : m + 0 <= m + n
  OBVIOUS
<1>4. Base(q) = Base(r) /\ Load(q) <= Load(r) /\ Actions(q) = Actions(r)
  BY <1>1, <1>2, <1>3 DEF Base, Load, Actions
<1>5. Stays(q, r) /\ ~Active(q) /\ Asks(q)
  BY <1>1 DEF Up, Active, Busy, Asks, HasBacklog, Stays
<1> QED
  BY <1>1, <1>2, <1>4, <1>5 DEF Carries, q

LEMMA TransmitGuardedCarries ==
    ASSUME NEW r, Fit(r), Active(r) PROVE Carries(TransmitGuarded(r), r)
  BY DflowEnterCarries DEF TransmitGuarded

LEMMA TransmitNowCarries ==
    ASSUME NEW r, Fit(r), Active(r), NEW burst \in BurstSizes
    PROVE  Carries(TransmitNow(r, burst), r)
<1> DEFINE p == DflowEnter(r, "DATA_TX", "none")
<1>1. /\ Same(p, r) /\ p.txq = r.txq /\ p.conn_state = r.conn_state /\ p.dflow_state = "DATA_TX"
  BY GoodWhole, DflowEnterSame DEF Fit
<1>2. Good(p)
  BY DflowEnterGood DEF DflowStates, Fit
<1> HIDE DEF p
<1>3. Up(p) /\ Asks(p) /\ p.session_id \in SessionIds
  BY <1>1 DEF Fit, Up, Asks, Same
<1>4. Carries(SendDataBurst(p, burst), p)
  BY <1>2, <1>3, BurstCarries
<1> QED
  BY <1>1, <1>4, CarriesAfter DEF TransmitNow, p

LEMMA StartModeReqCarries ==
    ASSUME NEW r, Fit(r), Active(r), NEW wanted \in PayloadModes
    PROVE  Carries(StartModeReq(r, wanted), r)
<1> DEFINE p == [r EXCEPT !.pending_tx_mode = wanted, !.tx_retries_left = ModeReqRetries]
           f == ModeFrame("MODE_REQ", p.session_id, wanted)
           m == SendControl(p, f)
           q == DflowEnter(m, "MODE_REQ_TX", "none")
<1>1. Same(p, r) /\ p.txq = r.txq /\ p.conn_state = r.conn_state
  BY GoodWhole DEF Same, Whole, SessionFields, Fit
<1>2. Sent(f) /\ f.type = "MODE_REQ"
  BY <1>1, ModeSent DEF Fit, Same
<1> HIDE DEF p, f
<1>3. Same(m, p) /\ m.txq = Append(p.txq, Control(f)) /\ m.conn_state = p.conn_state
  BY <1>1, SendControlSame DEF Same
<1> HIDE DEF m
<1>4. Same(q, m) /\ q.txq = m.txq /\ q.conn_state = m.conn_state /\ q.dflow_state = "MODE_REQ_TX"
  BY <1>3, DflowEnterSame DEF Same
<1>5. q = StartModeReq(r, wanted)
  BY DEF StartModeReq, SendModeNegotiation, q, m, f, p
<1> HIDE DEF q
<1>6. Same(q, r) /\ q.txq = Append(r.txq, Control(f)) /\ Busy(q) /\ Asks(q) /\ Stays(q, r)
  BY <1>1, <1>3, <1>4 DEF Same, Busy, Asks, Up, Fit, Stays
<1>7. FreshControl(f, q)
  BY <1>2, <1>6 DEF FreshControl
<1> QED
  BY <1>5, <1>6, <1>7, CarriesControl DEF Fit

LEMMA SlotsTwin ==
    ASSUME NEW r, Fit(r), NEW n \in Nat
    PROVE  LET p == [r EXCEPT !.tx_retries_left = n] IN Twin(p, r) /\ Fit(p)
<1> DEFINE p == [r EXCEPT !.tx_retries_left = n]
<1>1. Twin(p, r) /\ Good(p)
  BY GoodWhole, Keeps DEF Twin, Same, Whole, SessionFields, Fit
<1> QED
  BY <1>1, TwinFit

LEMMA EnterIdleIssCarries ==
    ASSUME NEW r, Fit(r), NEW burst \in BurstSizes
    PROVE  Carries(EnterIdleIss(r, burst), r)
<1> DEFINE p == [r EXCEPT !.tx_retries_left = DataSlots]
<1>1. Twin(p, r) /\ Fit(p)
  BY SlotsTwin, SlotAssumption
<1>2. EnterIdleIss(r, burst) =
         IF HasBacklog(r) THEN TransmitNow(p, burst)
         ELSE IF r.pending_disconnect # "no" THEN StartDisconnect(r)
         ELSE DflowEnter(p, "IDLE_ISS", "none")
  BY DEF EnterIdleIss
<1> HIDE DEF p
<1>3. HasBacklog(r) => Carries(TransmitNow(p, burst), p)
  BY <1>1, TwinActive, TransmitNowCarries DEF Active
<1>4. Carries(DflowEnter(p, "IDLE_ISS", "none"), p)
  BY <1>1, DflowEnterCarries
<1>5. Carries(StartDisconnect(r), r)
  BY StartDisconnectCarries DEF Fit
<1> QED
  BY <1>1, <1>2, <1>3, <1>4, <1>5, TwinCarries

LEMMA EnterIdleIssGuardedCarries ==
    ASSUME NEW r, Fit(r), NEW wanted \in PayloadModes
    PROVE  Carries(EnterIdleIssGuarded(r, wanted), r)
<1> DEFINE p == [r EXCEPT !.tx_retries_left = DataSlots]
<1>1. Twin(p, r) /\ Fit(p)
  BY SlotsTwin, SlotAssumption
<1>2. EnterIdleIssGuarded(r, wanted) =
         IF HasBacklog(r) /\ UpgradeStarts(r, wanted) THEN StartModeReq(r, wanted)
         ELSE IF HasBacklog(r) THEN TransmitGuarded(p)
         ELSE IF r.pending_disconnect # "no" THEN StartDisconnect(r)
         ELSE DflowEnter(p, "IDLE_ISS", "none")
  BY DEF EnterIdleIssGuarded
<1> HIDE DEF p
<1>3. HasBacklog(r) => Carries(TransmitGuarded(p), p) /\ Carries(StartModeReq(r, wanted), r)
  BY <1>1, TwinActive, TransmitGuardedCarries, StartModeReqCarries DEF Active
<1>4. Carries(DflowEnter(p, "IDLE_ISS", "none"), p)
  BY <1>1, DflowEnterCarries
<1>5. Carries(StartDisconnect(r), r)
  BY StartDisconnectCarries DEF Fit
<1> QED
  BY <1>1, <1>2, <1>3, <1>4, <1>5, TwinCarries

(* A frame of one word, then a state that waits for what comes of it. *)
LEMMA SpeakAndEnter ==
    ASSUME NEW r, Fit(r), NEW type \in ShortTypes \ {"CALL"},
           NEW state, NEW event,
           state \notin {"DATA_TX", "WAIT_ACK", "MODE_REQ_TX", "MODE_REQ_WAIT"}
    PROVE  Carries(DflowEnter(SendCtrlFrame(r, type), state, event), r)
<1> DEFINE p == SendCtrlFrame(r, type)
           q == DflowEnter(p, state, event)
<1>1. Speaks(p, r)
  BY GoodWhole, SendCtrlFrameSpeaks DEF Fit
<1> HIDE DEF p
<1>2. Same(q, p) /\ q.txq = p.txq /\ q.dflow_state = state /\ q.conn_state = r.conn_state
  BY <1>1, DflowEnterSame DEF Speaks, Same
<1> HIDE DEF q
<1>3. ~Busy(q) /\ Asks(q) /\ Stays(q, r)
  BY <1>2 DEF Busy, Asks, Up, Stays
<1>4. Carries(q, r)
  BY <1>1, <1>2, <1>3, SpeaksCarries DEF Fit
<1> QED
  BY <1>4 DEF q, p

LEMMA SendTurnReqCarries == ASSUME NEW r, Fit(r) PROVE Carries(SendTurnReq(r), r)
  BY SpeakAndEnter DEF SendTurnReq, ShortTypes

LEMMA SendKeepaliveCarries == ASSUME NEW r, Fit(r) PROVE Carries(SendKeepalive(r), r)
  BY SpeakAndEnter DEF SendKeepalive, ShortTypes

LEMMA AfterKeepaliveCarries ==
    ASSUME NEW r, Fit(r), NEW from_irs, NEW wanted \in PayloadModes
    PROVE  Carries(AfterKeepalive(r, from_irs, wanted), r)
  BY EnterIdleIrsCarries, EnterIdleIssGuardedCarries DEF AfterKeepalive

(* A frame of one word and no new state. *)
LEMMA SendCtrlFrameCarries ==
    ASSUME NEW r, Good(r), r.session_id \in SessionIds, Asks(r),
           NEW type \in ShortTypes \ {"CALL"}
    PROVE  Carries(SendCtrlFrame(r, type), r)
<1> DEFINE p == SendCtrlFrame(r, type)
<1>1. Speaks(p, r)
  BY GoodWhole, SendCtrlFrameSpeaks
<1> HIDE DEF p
<1>2. Same(p, p) /\ (Busy(p) => Active(r)) /\ Asks(p) /\ Stays(p, r)
  BY <1>1 DEF Speaks, Same, Asks, Active, Busy, Up, Stays
<1>3. Carries(p, r)
  BY <1>1, <1>2, SpeaksCarries
<1> QED
  BY <1>3 DEF p

(* The last frame of a session, and what it leaves. *)
LEMMA SpeakAndLeave ==
    ASSUME NEW r, Good(r), Up(r), NEW p, Speaks(p, r), NEW m, Twin(m, p),
           NEW state \in {"DISCONNECTED", "DISCONNECTING"}, NEW event
    PROVE  Carries(SessEnter(m, state, event), r)
<1> DEFINE q == SessEnter(m, state, event)
<1>1. Same(q, m) /\ q.txq = m.txq /\ q.conn_state = state
  BY SessEnterSame DEF Twin, Same
<1> HIDE DEF q
<1>2. Same(q, p) /\ q.txq = p.txq /\ ~Up(q) /\ Stays(q, r)
  BY <1>1 DEF Twin, Same, Up, Stays
<1>3. ~Busy(q) /\ Asks(q) /\ Stays(q, r)
  BY <1>2 DEF Busy, Asks, Up, Stays
<1>4. Carries(q, r)
  BY <1>2, <1>3, SpeaksCarries
<1> QED
  BY <1>1, <1>2, <1>4 DEF q

(* A frame of one word, and then what carries on from there. *)
LEMMA SpeaksThenCarries ==
    ASSUME NEW r, Good(r), Up(r), NEW p, Speaks(p, r), NEW q, Carries(q, p)
    PROVE  Carries(q, r)
<1>1. PICK f \in Frame : /\ p.txq = Append(r.txq, Control(f))
                        /\ \A x : FreshControl(f, x)
  BY DEF Speaks
<1>2. Base(p) = Base(r) /\ Load(p) = Load(r) /\ (Active(p) => Active(r))
  BY DEF Speaks, Same, Base, Load, Active, HasBacklog, Busy, Up
<1>3. Fresh(Control(f), q)
  BY <1>1 DEF Fresh
<1>4. \A b \in Actions(p) : b \in Actions(r) \/ b = Control(f)
  <2>1. r.txq \in Seq(Burst)
    BY Fields
  <2> QED
    BY <1>1, <2>1, AppendActions
<1>5. \A b \in Actions(q) : b \in Actions(r) \/ Fresh(b, q)
  BY <1>3, <1>4 DEF Carries
<1>6. Stays(q, r)
  BY DEF Carries, Stays, Speaks, Up
<1> QED
  BY <1>2, <1>5, <1>6 DEF Carries, Speaks, Same

(* What a step that carries is. *)
LEMMA CarriesMoves ==
    ASSUME NEW r, IdOf(r), NEW q, Good(q), Carries(q, r), NEW f
    PROVE  Moves(r, q, f)
<1>1. IdOf(q) /\ (Up(r) => q.conn_state # "CALLING") /\ (Up(q) => Up(r))
  BY DEF IdOf, Up, Carries, Stays
<1>2. Up(r) /\ Up(q) => InSession(r, q, f)
  BY DEF InSession, Carries
<1>3. ~Up(r) /\ ~Up(q) => Apart(r, q, f)
  BY DEF Apart, Carries
<1> QED
  BY <1>1, <1>2, <1>3 DEF Moves, Carries

(* p is r, or less of it: what is left of the backlog and the queue. *)
Drops(p, r) ==
    /\ Whole(p)
    /\ p.conn_state = r.conn_state /\ p.dflow_state = r.dflow_state
    /\ p.pending_tx_mode = r.pending_tx_mode
    /\ p.session_id = r.session_id /\ p.written = r.written
    /\ p.txlog = r.txlog /\ p.rxlog = r.rxlog /\ p.tx_window = r.tx_window
    /\ Load(p) <= Load(r) /\ Load(p) \in Nat /\ Load(r) \in Nat
    /\ HasBacklog(p) => HasBacklog(r)
    /\ Actions(p) \subseteq Actions(r)

LEMMA TwinDrops == ASSUME NEW r, Good(r), NEW p, Twin(p, r) PROVE Drops(p, r)
<1>1. Load(p) = Load(r) /\ Load(r) \in Nat /\ Actions(p) = Actions(r)
  BY LoadType DEF Twin, Same, Load, Actions
<1> QED
  BY <1>1 DEF Twin, Same, Drops, HasBacklog

LEMMA DropsCarries ==
    ASSUME NEW r, NEW p, Drops(p, r), NEW q, Good(q), Carries(q, p)
    PROVE  Carries(q, r)
<1>1. Load(q) \in Nat
  BY LoadType
<1>2. Base(p) = Base(r) /\ Load(q) <= Load(r)
  BY <1>1 DEF Drops, Base, Carries
<1>3. Active(q) => Active(r)
  BY DEF Drops, Carries, Active, Busy, Up
<1>4. Stays(q, r)
  BY DEF Drops, Carries, Stays, Up
<1> QED
  BY <1>2, <1>3, <1>4 DEF Drops, Carries

LEMMA DropsItself ==
    ASSUME NEW r, Good(r), Asks(r), NEW p, Drops(p, r), Good(p)
    PROVE  Carries(p, r)
<1>1. Same(p, p) /\ Asks(p) /\ Stays(p, p) /\ (Busy(p) => Active(p))
  BY DEF Drops, Asks, Up, Same, Stays, Active
<1> QED
  BY <1>1, CarriesStill, DropsCarries

-----------------------------------------------------------------------------
(* The handlers of one station, in the groups of ArqFsmProofs *)

Able(s) == AllGood /\ AllGood' /\ IdOf(st[s]) /\ Asks(st[s])

LEMMA BecomeIs ==
    ASSUME NEW s \in Station, Able(s), NEW q, Become(s, q)
    PROVE  st'[s] = q /\ Good(q)
<1>1. st'[s] = q
  BY DEF Able, AllGood, Become
<1>2. Good(st'[s])
  BY DEF Able, AllGood, WindowIsTail, Good
<1> QED
  BY <1>1, <1>2

LEMMA CarriesStep ==
    ASSUME NEW s \in Station, Able(s), NEW q, Become(s, q), Carries(q, st[s]), NEW f
    PROVE  Moves(st[s], st'[s], f)
  BY BecomeIs, CarriesMoves DEF Able

LEMMA CarriedStep ==
    ASSUME NEW s \in Station, Able(s), NEW q, Become(s, q), Carries(q, st[s])
    PROVE  Carries(st'[s], st[s])
  BY BecomeIs

LEMMA AbleFit ==
    ASSUME NEW s \in Station, Able(s)
    PROVE  Good(st[s]) /\ Whole(st[s]) /\ (InConn(s, "CONNECTED") => Fit(st[s]))
<1>1. Good(st[s])
  BY StationGood DEF Able
<1> QED
  BY <1>1, GoodWhole DEF Able, Fit, IdOf, Up, InConn

LEMMA FiredTwin ==
    ASSUME NEW s \in Station, Able(s)
    PROVE  Twin(Fired(s), st[s]) /\ (InConn(s, "CONNECTED") => Fit(Fired(s)))
<1>1. Twin(Fired(s), st[s]) /\ Good(Fired(s))
  BY AbleFit, FiredGood DEF Fired, Twin, Same, Whole, SessionFields, Able
<1> QED
  BY <1>1, AbleFit, TwinFit

(* Leaving LISTENING, or going there. *)
LEMMA RestCarries ==
    ASSUME NEW r, Good(r), NEW p, Twin(p, r), NEW state \in {"DISCONNECTED", "LISTENING"},
           NEW event
    PROVE  Carries(SessEnter(p, state, event), r)
<1> DEFINE q == SessEnter(p, state, event)
<1>1. Same(q, p) /\ q.txq = p.txq /\ q.conn_state = state
  BY SessEnterSame DEF Twin, Same
<1> HIDE DEF q
<1>2. Same(q, r) /\ q.txq = r.txq /\ ~Busy(q) /\ Asks(q) /\ Stays(q, r)
  BY <1>1 DEF Twin, Same, Busy, Asks, Up, Stays
<1> QED
  BY <1>2, CarriesStill DEF q

LEMMA StartCallMoves ==
    ASSUME NEW r, Good(r), ~Up(r), r.conn_state # "CALLING",
           NEW p, Same(p, r), p.txq = r.txq, NEW sid \in SessionIds,
           Good(StartCall(p, sid))
    PROVE  Moves(r, StartCall(p, sid), NoFrame)
<1> DEFINE c == [p EXCEPT !.session_id = sid, !.tx_retries_left = CallSlots,
                          !.pending_disconnect = "no",
                          !.payload_mode = SafeMode, !.peer_tx_mode = SafeMode]
           call == PlainFrame("CALL", c.session_id)
           m == SendControl(c, call)
           q == SessEnter(m, "CALLING", "TIMER_RETRY")
<1>1. /\ Whole(c) /\ c.session_id = sid /\ c.written = r.written /\ c.txlog = r.txlog
      /\ c.backlog = r.backlog /\ c.txq = r.txq
  BY DEF Same, Whole, SessionFields
<1>2. q = StartCall(p, sid)
  BY DEF StartCall, SendCtrlFrame, q, m, call, c
<1> HIDE DEF c
<1>3. Sent(call) /\ call.type = "CALL"
  BY <1>1, PlainSent DEF ShortTypes
<1> HIDE DEF call
<1>4. Same(m, c) /\ m.txq = Append(c.txq, Control(call))
  BY <1>1, SendControlSame
<1> HIDE DEF m
<1>5. Same(q, m) /\ q.txq = m.txq /\ q.conn_state = "CALLING"
  BY <1>4, SessEnterSame DEF Same
<1> HIDE DEF q
<1>6. /\ q.session_id = sid /\ q.written = r.written /\ q.txlog = r.txlog
      /\ q.backlog = r.backlog /\ q.txq = Append(r.txq, Control(call))
  BY <1>1, <1>4, <1>5 DEF Same
<1>7. /\ ~Up(q) /\ IdOf(q) /\ Asks(q) /\ (Active(q) => Active(r)) /\ Apart(r, q, NoFrame)
      /\ Load(q) = Load(r) /\ Load(r) \in Nat
  BY <1>5, <1>6, LoadType DEF Up, IdOf, Asks, Active, Busy, HasBacklog, Apart, Load
<1>8. Fresh(Control(call), q)
  BY <1>3, <1>5 DEF Fresh, FreshControl, Sent, WellFormed
<1>9. \A b \in Actions(q) : b \in Actions(r) \/ Fresh(b, q)
  <2>1. r.txq \in Seq(Burst)
    BY Fields
  <2>2. \A b \in Actions(q) : b \in Actions(r) \/ b = Control(call)
    BY <1>6, <2>1, AppendActions
  <2> QED
    BY <1>8, <2>2
<1> QED
  BY <1>2, <1>6, <1>7, <1>9 DEF Moves

LEMMA AppDisconnectCarries ==
    ASSUME NEW r, Good(r), Asks(r), NEW p, Drops(p, r), Good(p)
    PROVE  Carries(AppDisconnect(p), r)
<1> Good(AppDisconnect(p))
  BY AppDisconnectGood
<1>1. CASE p.conn_state = "CALLING"
  BY <1>1, EndCallCarries, DropsCarries DEF AppDisconnect
<1>2. CASE p.conn_state = "ACCEPTING"
  <2> DEFINE c == NotifyCancelPending(p)
  <2>1. Good(c) /\ Twin(c, p)
    BY NotifyCancelPendingGood
    DEF NotifyCancelPending, Twin, Same, Whole, SessionFields, Drops
  <2> HIDE DEF c
  <2>2. Carries(EndCall(c), p)
    BY <2>1, EndCallCarries, TwinCarries
  <2> QED
    BY <1>2, <2>2, DropsCarries DEF AppDisconnect, c
<1>3. CASE p.conn_state = "CONNECTED"
  <2> DEFINE c == [p EXCEPT !.pending_disconnect = "draining"]
  <2>1. Carries(StartDisconnect(p), r)
    BY <1>3, StartDisconnectCarries, StartDisconnectGood, DropsCarries DEF Up
  <2>2. Twin(c, p) /\ Good(c)
    BY Keeps DEF Twin, Same, Whole, SessionFields, Drops
  <2>3. AppDisconnect(p) = IF Draining(p) /\ ~Overdue(p) THEN c ELSE StartDisconnect(p)
    BY <1>3 DEF AppDisconnect
  <2> HIDE DEF c
  <2>4. Asks(p)
    BY DEF Drops, Asks, Up
  <2>5. Carries(c, p)
    BY <2>2, <2>4, TwinDrops, DropsItself
  <2> QED
    BY <2>1, <2>2, <2>3, <2>5, DropsCarries
<1>4. CASE p.conn_state \notin {"CALLING", "ACCEPTING", "CONNECTED"}
  <2>1. AppDisconnect(p) = p
    BY <1>4 DEF AppDisconnect
  <2> QED
    BY <2>1, DropsItself
<1> QED
  BY <1>1, <1>2, <1>3, <1>4

LEMMA CommandMoves ==
    ASSUME NEW s \in Station, Able(s), Command(s)
    PROVE  Moves(st[s], st'[s], NoFrame)
<1> Good(st[s]) /\ Whole(st[s]) /\ Asks(st[s]) /\ IdOf(st[s])
  BY AbleFit DEF Able
<1>1. ASSUME NEW p, Twin(p, st[s]), Good(p), Become(s, AppListen(p)) \/ Become(s, AppStopListen(p))
      PROVE  Moves(st[s], st'[s], NoFrame)
  <2>1. Overdue(p) => Carries(StartDisconnect(p), st[s])
    BY <1>1, StartDisconnectCarries, TwinCarries DEF Overdue, Up
  <2>2. Carries(p, st[s])
    BY <1>1, TwinDrops, DropsItself
  <2>3. \A state \in {"DISCONNECTED", "LISTENING"} : Carries(SessEnter(p, state, "none"), st[s])
    BY <1>1, RestCarries
  <2>4. CASE Become(s, AppListen(p))
    <3>1. Carries(AppListen(p), st[s])
      BY <2>1, <2>2, <2>3 DEF AppListen
    <3> QED
      BY <2>4, <3>1, CarriesStep
  <2>5. CASE Become(s, AppStopListen(p))
    <3>1. Carries(AppStopListen(p), st[s])
      BY <2>1, <2>2, <2>3 DEF AppStopListen
    <3> QED
      BY <2>5, <3>1, CarriesStep
  <2> QED
    BY <1>1, <2>4, <2>5
<1>2. CASE HostListen(s) \/ HostStopListen(s)
  <2>1. \A b \in BOOLEAN : LET p == [st[s] EXCEPT !.listen_enabled = b]
                           IN  Twin(p, st[s]) /\ Good(p)
    BY Keeps DEF Twin, Same, Whole, SessionFields
  <2> QED
    BY <1>1, <1>2, <2>1 DEF HostListen, HostStopListen
<1>3. ASSUME NEW sid \in SessionIds, HostConnect(s, sid)
      PROVE  Moves(st[s], st'[s], NoFrame)
  <2> DEFINE r == st[s]
             idle == SessEnter(r, "DISCONNECTED", "none")
             told == NotifyCancelPending(idle)
  <2>1. Become(s, AppConnect(r, sid))
    BY <1>3 DEF HostConnect
  <2>2. st'[s] = AppConnect(r, sid) /\ Good(AppConnect(r, sid))
    BY <2>1, BecomeIs
  <2>3. Same(idle, r) /\ idle.txq = r.txq
    BY SessEnterSame
  <2>4. Same(told, r) /\ told.txq = r.txq
    <3> HIDE DEF idle
    <3> QED
      BY <2>3 DEF NotifyCancelPending, Same, Whole, SessionFields
  <2>5. CASE r.conn_state \in {"DISCONNECTED", "LISTENING", "ACCEPTING"}
    <3>1. Same(r, r) /\ r.txq = r.txq /\ ~Up(r) /\ r.conn_state # "CALLING"
      BY <2>5 DEF Same, Up
    <3>2. AppConnect(r, sid) = StartCall(r, sid) \/ AppConnect(r, sid) = StartCall(idle, sid)
             \/ AppConnect(r, sid) = StartCall(told, sid)
      BY <2>5 DEF AppConnect
    <3> HIDE DEF r, idle, told
    <3>3. Good(r)
      BY DEF r
    <3>4. Moves(r, AppConnect(r, sid), NoFrame)
      BY <2>2, <2>3, <2>4, <3>1, <3>2, <3>3, StartCallMoves
    <3> QED
      BY <2>2, <3>4 DEF r
  <2>6. CASE r.conn_state \notin {"DISCONNECTED", "LISTENING", "ACCEPTING"}
    <3>1. AppConnect(r, sid) = IF Overdue(r) THEN StartDisconnect(r) ELSE r
      BY <2>6 DEF AppConnect
    <3>2. Overdue(r) => Carries(StartDisconnect(r), r)
      BY StartDisconnectCarries DEF Overdue, Up
    <3>3. Twin(r, r)
      BY DEF Twin, Same
    <3>4. Carries(r, r)
      BY <3>3, TwinDrops, DropsItself
    <3> QED
      BY <2>1, <3>1, <3>2, <3>4, CarriesStep
  <2> QED
    BY <2>5, <2>6
<1>4. CASE HostDisconnect(s)
  <2> DEFINE p == [st[s] EXCEPT !.host = "idle"]
  <2>1. Twin(p, st[s]) /\ Good(p)
    BY Keeps DEF Twin, Same, Whole, SessionFields
  <2>2. Become(s, AppDisconnect(p))
    BY <1>4 DEF HostDisconnect
  <2> HIDE DEF p
  <2> QED
    BY <2>1, <2>2, TwinDrops, AppDisconnectCarries, CarriesStep
<1>5. CASE HostClientGone(s)
  <2>1. Twin(st[s], st[s])
    BY DEF Twin, Same
  <2> QED
    BY <1>5, <2>1, TwinDrops, AppDisconnectCarries, CarriesStep DEF HostClientGone
<1>6. CASE HostAbort(s)
  <2> DEFINE r == st[s]
             p == [r EXCEPT !.host = "idle", !.backlog = <<>>, !.txq = <<>>]
  <2>1. <<>> \in Seq(Nat) /\ <<>> \in Seq(Burst)
    OBVIOUS
  <2>2. Good(p)
    BY <2>1, Keeps
  <2>3. /\ Whole(p) /\ p.conn_state = r.conn_state /\ p.dflow_state = r.dflow_state
        /\ p.pending_tx_mode = r.pending_tx_mode
        /\ p.session_id = r.session_id /\ p.written = r.written
        /\ p.txlog = r.txlog /\ p.rxlog = r.rxlog /\ p.tx_window = r.tx_window
        /\ p.backlog = <<>> /\ p.txq = <<>>
    BY DEF Whole, SessionFields
  <2>4. Become(s, AppDisconnect(p))
    BY <1>6 DEF HostAbort
  <2> HIDE DEF p
  <2>5. Load(p) <= Load(r) /\ Load(p) \in Nat /\ Load(r) \in Nat
    <3>1. Len(r.txlog) \in Nat /\ Len(r.backlog) \in Nat /\ Len(<<>>) = 0
      BY Fields
    <3>2. Load(p) = Len(r.txlog) + 0 /\ Load(r) = Len(r.txlog) + Len(r.backlog)
      BY <2>3, <3>1 DEF Load
    <3>3. \A m, n \in Nat : m + 0 <= m + n
      OBVIOUS
    <3> QED
      BY <2>2, <3>1, <3>2, <3>3, LoadType
  <2>6. Actions(p) = {}
    BY <2>3 DEF Actions
  <2>7. Drops(p, r)
    BY <2>3, <2>5, <2>6 DEF Drops, HasBacklog
  <2> QED
    BY <2>2, <2>4, <2>7, AppDisconnectCarries, CarriesStep
<1>7. CASE HostCq(s)
  <2> DEFINE cq == PlainFrame("CQ", 0)
             q == SendControl(st[s], cq)
  <2>1. cq \in Frame /\ cq.type = "CQ"
    BY PlainFrameType DEF FrameTypes, PlainFrame
  <2> HIDE DEF cq
  <2>2. /\ Same(q, st[s]) /\ q.txq = Append(st[s].txq, Control(cq))
        /\ q.conn_state = st[s].conn_state /\ q.dflow_state = st[s].dflow_state
        /\ q.pending_tx_mode = st[s].pending_tx_mode
    BY SendControlSame
  <2>3. Become(s, q)
    BY <1>7 DEF HostCq, cq
  <2> HIDE DEF q
  <2>4. FreshControl(cq, q)
    BY <2>1 DEF FreshControl, Sent, WellFormed
  <2>5. Stays(q, st[s]) /\ Asks(q) /\ (Busy(q) => Active(st[s]))
    BY <2>2 DEF Stays, Asks, Up, Busy, Active
  <2> QED
    BY <2>2, <2>3, <2>4, <2>5, CarriesControl, CarriesStep
<1> QED
  BY <1>2, <1>3, <1>4, <1>5, <1>6, <1>7 DEF Command

-----------------------------------------------------------------------------
(* Frames *)

LEMMA ReceiveDataIs ==
    ASSUME NEW r, Good(r), NEW f
    PROVE  LET q == ReceiveData(r, f)
           IN  /\ q.conn_state = r.conn_state /\ q.dflow_state = "DATA_RX"
               /\ q.session_id = r.session_id /\ q.written = r.written /\ q.txq = r.txq
               /\ q.txlog = r.txlog /\ q.tx_window = r.tx_window /\ q.backlog = r.backlog
               /\ \/ q.rxlog = r.rxlog
                  \/ f.seq = Len(r.rxlog) % SeqSpace /\ q.rxlog = Append(r.rxlog, f.unit)
<1> DEFINE d == DeliverRxChecked(r, f)
           held == ~IsNew(r, f)
           e == [d EXCEPT !.peer_tx_mode = f.mode, !.peer_has_data = held]
           q == DflowEnter(e, "DATA_RX", "TIMER_ACK")
<1>1. Whole(r) /\ r.rx_expected = Len(r.rxlog)
  BY GoodWhole DEF Good, WindowOf
<1>2. /\ Whole(d)
      /\ d.conn_state = r.conn_state /\ d.session_id = r.session_id /\ d.written = r.written
      /\ d.txq = r.txq /\ d.txlog = r.txlog /\ d.tx_window = r.tx_window
      /\ d.backlog = r.backlog
      /\ \/ d.rxlog = r.rxlog
         \/ f.seq = Len(r.rxlog) % SeqSpace /\ d.rxlog = Append(r.rxlog, f.unit)
  <2>1. CASE IsNew(r, f)
    <3>1. /\ Whole(d)
          /\ d.conn_state = r.conn_state /\ d.session_id = r.session_id /\ d.written = r.written
          /\ d.txq = r.txq /\ d.txlog = r.txlog /\ d.tx_window = r.tx_window
          /\ d.backlog = r.backlog /\ d.rxlog = Append(r.rxlog, f.unit)
      BY <1>1, <2>1 DEF DeliverRxChecked, Whole, SessionFields
    <3> QED
      BY <1>1, <2>1, <3>1 DEF IsNew
  <2>2. CASE ~IsNew(r, f)
    BY <1>1, <2>2 DEF DeliverRxChecked
  <2> QED
    BY <2>1, <2>2
<1>3. q = ReceiveData(r, f)
  BY DEF ReceiveData
<1> HIDE DEF d, held
<1>4. /\ Whole(e)
      /\ e.conn_state = d.conn_state /\ e.session_id = d.session_id /\ e.written = d.written
      /\ e.txq = d.txq /\ e.txlog = d.txlog /\ e.tx_window = d.tx_window
      /\ e.backlog = d.backlog /\ e.rxlog = d.rxlog
  BY <1>2 DEF Whole, SessionFields
<1> HIDE DEF e
<1>5. Same(q, e) /\ q.txq = e.txq /\ q.conn_state = e.conn_state /\ q.dflow_state = "DATA_RX"
  BY <1>4, DflowEnterSame
<1> HIDE DEF q
<1> QED
  BY <1>2, <1>3, <1>4, <1>5 DEF Same

(* A step into a session. *)
LEMMA JoinMoves ==
    ASSUME NEW r, Good(r), ~Up(r), r.session_id \in SessionIds,
           NEW f, f.type \in {"DATA", "ACK", "ACCEPT"}, NEW q, Good(q),
           q.session_id = r.session_id, q.written = r.written, q.backlog = r.backlog,
           q.txlog = <<>>, q.tx_window = <<>>,
           \/ q.rxlog = <<>>
           \/ f.type = "DATA" /\ f.seq = 0 /\ q.rxlog = <<f.unit>>,
           Busy(q) => HasBacklog(r), Asks(q),
           \A b \in Actions(q) : b \in Actions(r) \/ Fresh(b, q),
           Up(q)
    PROVE  Moves(r, q, f)
<1>1. Load(q) <= Load(r)
  <2>1. Len(r.txlog) \in Nat /\ Len(r.backlog) \in Nat /\ Len(<<>>) = 0
    BY Fields
  <2>2. Load(q) = 0 + Len(r.backlog) /\ Load(r) = Len(r.txlog) + Len(r.backlog)
    BY <2>1 DEF Load
  <2>3. \A m, n \in Nat : 0 + n <= m + n
    OBVIOUS
  <2> QED
    BY <2>1, <2>2, <2>3
<1>2. Joins(r, q, f) /\ (Active(q) => Active(r)) /\ IdOf(q)
  BY DEF Joins, Active, HasBacklog, IdOf
<1> QED
  BY <1>1, <1>2 DEF Moves

LEMMA StartSessionIs ==
    ASSUME NEW r, Good(r), NEW role \in {"CALLER", "CALLEE"}
    PROVE  LET q == StartSession(r, role)
           IN  /\ Good(q) /\ Up(q)
               /\ q.session_id = r.session_id /\ q.written = r.written /\ q.txq = r.txq
               /\ q.backlog = r.backlog
               /\ q.txlog = <<>> /\ q.rxlog = <<>> /\ q.tx_window = <<>>
<1> DEFINE p == [r EXCEPT !.tx_seq = 0, !.rx_expected = 0, !.tx_window = <<>>,
                          !.txlog = <<>>, !.rxlog = <<>>,
                          !.role = role,
                          !.tx_retries_left = DataSlots,
                          !.payload_mode = SafeMode, !.peer_tx_mode = SafeMode,
                          !.pending_tx_mode = "none",
                          !.host = "connected"]
           q == SessEnter(p, "CONNECTED", "none")
<1>1. /\ Whole(p)
      /\ p.session_id = r.session_id /\ p.written = r.written /\ p.txq = r.txq
      /\ p.backlog = r.backlog
      /\ p.txlog = <<>> /\ p.rxlog = <<>> /\ p.tx_window = <<>>
  BY GoodWhole DEF Whole, SessionFields
<1>2. q = StartSession(r, role) /\ Good(StartSession(r, role))
  BY StartSessionGood DEF StartSession
<1> HIDE DEF p
<1>3. Same(q, p) /\ q.txq = p.txq /\ q.conn_state = "CONNECTED"
  BY <1>1, SessEnterSame
<1> HIDE DEF q
<1> QED
  BY <1>1, <1>2, <1>3 DEF Same, Up

LEMMA BecomeCalleeMoves ==
    ASSUME NEW r, Good(r), ~Up(r), r.session_id \in SessionIds, NEW p, Good(p), Twin(p, r),
           NEW f, Sent(f), f.type \in {"DATA", "ACK"}
    PROVE  Moves(r, BecomeCallee(p, f), f)
<1> DEFINE u == StartSession(p, "CALLEE")
           i == EnterIdleIrs(u)
           q == ReceiveData(i, f)
<1>1. /\ Good(u) /\ Up(u)
      /\ u.session_id = r.session_id /\ u.written = r.written /\ u.txq = r.txq
      /\ u.backlog = r.backlog
      /\ u.txlog = <<>> /\ u.rxlog = <<>> /\ u.tx_window = <<>>
  BY StartSessionIs DEF Twin, Same
<1>2. BecomeCallee(p, f) = IF f.type = "DATA" THEN q ELSE i
  BY DEF BecomeCallee
<1> HIDE DEF u
<1>3. Good(i) /\ Same(i, u) /\ i.txq = u.txq /\ Up(i) /\ ~Busy(i) /\ Asks(i)
  BY <1>1, GoodWhole, EnterIdleIrsGood, DflowEnterSame DEF EnterIdleIrs, Up, Busy, Asks
<1> HIDE DEF i
<1>4. CASE f.type = "DATA"
  <2>1. Good(q)
    BY <1>3, <1>4, ReceiveDataGood DEF Sent, WellFormed
  <2>2. /\ q.conn_state = i.conn_state /\ q.dflow_state = "DATA_RX"
        /\ q.session_id = i.session_id /\ q.written = i.written /\ q.txq = i.txq
        /\ q.txlog = i.txlog /\ q.tx_window = i.tx_window /\ q.backlog = i.backlog
        /\ \/ q.rxlog = i.rxlog
           \/ f.seq = Len(i.rxlog) % SeqSpace /\ q.rxlog = Append(i.rxlog, f.unit)
    BY <1>3, ReceiveDataIs
  <2> HIDE DEF q
  <2>3. Len(<<>>) % SeqSpace = 0 /\ Append(<<>>, f.unit) = <<f.unit>>
    BY WindowAssumption
  <2>4. q.rxlog = <<>> \/ (f.seq = 0 /\ q.rxlog = <<f.unit>>)
    BY <1>1, <1>3, <2>2, <2>3 DEF Same
  <2>5. Up(q) /\ ~Busy(q) /\ Asks(q) /\ Actions(q) = Actions(r)
    BY <1>1, <1>3, <2>2 DEF Up, Busy, Asks, Actions
  <2>6. /\ q.session_id = r.session_id /\ q.written = r.written /\ q.backlog = r.backlog
        /\ q.txlog = <<>> /\ q.tx_window = <<>>
    BY <1>1, <1>3, <2>2 DEF Same
  <2>7. Moves(r, q, f)
    BY <1>4, <2>1, <2>4, <2>5, <2>6, JoinMoves
  <2> QED
    BY <1>2, <1>4, <2>7
<1>5. CASE f.type = "ACK"
  <2>1. Actions(i) = Actions(r)
    BY <1>1, <1>3 DEF Actions
  <2>2. /\ i.session_id = r.session_id /\ i.written = r.written /\ i.backlog = r.backlog
        /\ i.txlog = <<>> /\ i.tx_window = <<>> /\ i.rxlog = <<>>
    BY <1>1, <1>3 DEF Same
  <2>3. Moves(r, i, f)
    BY <1>3, <1>5, <2>1, <2>2, JoinMoves
  <2> QED
    BY <1>2, <1>5, <2>3
<1> QED
  BY <1>4, <1>5

(* The first frame of the caller waits for a guard. *)
LEMMA EnterIdleIssGuardedWaits ==
    ASSUME NEW r, Good(r), NEW wanted
    PROVE  LET q == EnterIdleIssGuarded(r, wanted)
           IN  /\ q.txlog = r.txlog /\ q.rxlog = r.rxlog /\ q.tx_window = r.tx_window
               /\ q.backlog = r.backlog /\ q.written = r.written
               /\ q.session_id = r.session_id
<1> DEFINE p == [r EXCEPT !.tx_retries_left = DataSlots]
           a == [r EXCEPT !.pending_tx_mode = wanted, !.tx_retries_left = ModeReqRetries]
           m == SendControl(a, ModeFrame("MODE_REQ", a.session_id, wanted))
<1>1. Whole(r)
  BY GoodWhole
<1>2. Same(p, r) /\ Same(a, r)
  BY <1>1 DEF Same, Whole, SessionFields
<1>3. EnterIdleIssGuarded(r, wanted) =
         IF HasBacklog(r) /\ UpgradeStarts(r, wanted) THEN DflowEnter(m, "MODE_REQ_TX", "none")
         ELSE IF HasBacklog(r) THEN DflowEnter(p, "DATA_TX", "TIMER_ACK")
         ELSE IF r.pending_disconnect # "no" THEN StartDisconnect(r)
         ELSE DflowEnter(p, "IDLE_ISS", "none")
  BY DEF EnterIdleIssGuarded, StartModeReq, SendModeNegotiation, TransmitGuarded
<1> HIDE DEF p, a
<1>4. Same(m, r)
  <2>1. Same(m, a)
    BY <1>2, SendControlSame DEF Same
  <2> QED
    BY <1>2, <2>1 DEF Same
<1> HIDE DEF m
<1>5. \A state, event : Same(DflowEnter(m, state, event), r) /\ Same(DflowEnter(p, state, event), r)
  BY <1>2, <1>4, DflowEnterSame DEF Same
<1>6. Same(StartDisconnect(r), r)
  BY <1>1, StartDisconnectSame
<1>7. Same(EnterIdleIssGuarded(r, wanted), r)
  BY <1>3, <1>5, <1>6
<1> QED
  BY <1>7 DEF Same

LEMMA CallingRxAcceptMoves ==
    ASSUME NEW s \in Station, Able(s), NEW f, Sent(f), NEW wanted \in PayloadModes,
           CallingRxAccept(s, f, wanted)
    PROVE  Moves(st[s], st'[s], f)
<1> DEFINE r == st[s]
           first == HasBacklog(r)
           p == [r EXCEPT !.pending_disconnect = "no", !.pending_connect_confirm = FALSE,
                          !.need_initial_guard = first]
           u == StartSession(p, "CALLER")
           q == IF HasBacklog(r) THEN EnterIdleIssGuarded(u, wanted) ELSE ArmConnectConfirm(u)
<1>1. /\ Good(r) /\ ~Up(r) /\ r.session_id \in SessionIds /\ IdOf(r)
      /\ f.type = "ACCEPT" /\ Become(s, q)
  BY AbleFit DEF CallingRxAccept, Up, Able, IdOf, InConn
<1>2. Good(q) /\ st'[s] = q
  BY <1>1, BecomeIs
<1>3. first \in BOOLEAN
  BY HasBacklogType
<1> HIDE DEF first
<1>4. Twin(p, r) /\ Good(p)
  BY <1>1, <1>3, GoodWhole, Keeps DEF Twin, Same, Whole, SessionFields
<1> HIDE DEF p
<1>5. /\ Good(u) /\ Up(u)
      /\ u.session_id = r.session_id /\ u.written = r.written /\ u.txq = r.txq
      /\ u.backlog = r.backlog
      /\ u.txlog = <<>> /\ u.rxlog = <<>> /\ u.tx_window = <<>>
  BY <1>4, StartSessionIs DEF Twin, Same
<1> HIDE DEF u
<1>6. Fit(u) /\ Actions(u) = Actions(r)
  BY <1>1, <1>5 DEF Fit, Actions
<1>7. CASE HasBacklog(r)
  <2>1. q = EnterIdleIssGuarded(u, wanted)
    BY <1>7
  <2>2. /\ q.txlog = <<>> /\ q.rxlog = <<>> /\ q.tx_window = <<>>
        /\ q.backlog = r.backlog /\ q.written = r.written /\ q.session_id = r.session_id
    BY <1>5, <2>1, EnterIdleIssGuardedWaits
  <2>3. Carries(q, u)
    BY <1>6, <2>1, EnterIdleIssGuardedCarries
  <2> HIDE DEF q
  <2>4. Asks(q) /\ \A b \in Actions(q) : b \in Actions(r) \/ Fresh(b, q)
    BY <1>6, <2>3 DEF Carries
  <2>5. CASE Up(q)
    BY <1>1, <1>2, <1>7, <2>2, <2>4, <2>5, JoinMoves
  <2>6. CASE ~Up(q)
    <3>1. IdOf(q) /\ Apart(r, q, f) /\ (Active(q) => Active(r))
      BY <1>1, <1>7, <2>2, <2>6 DEF IdOf, Apart, Active
    <3>2. Load(q) <= Load(r)
      <4>1. Len(r.txlog) \in Nat /\ Len(r.backlog) \in Nat /\ Len(<<>>) = 0
        BY <1>1, Fields
      <4>2. Load(q) = 0 + Len(r.backlog) /\ Load(r) = Len(r.txlog) + Len(r.backlog)
        BY <2>2, <4>1 DEF Load
      <4>3. \A m, n \in Nat : 0 + n <= m + n
        OBVIOUS
      <4> QED
        BY <4>1, <4>2, <4>3
    <3> HIDE DEF r
    <3>3. Moves(r, q, f)
      BY <1>1, <1>2, <2>2, <2>4, <2>6, <3>1, <3>2 DEF Moves
    <3> QED
      BY <1>2, <3>3 DEF r
  <2> QED
    BY <2>5, <2>6
<1>8. CASE ~HasBacklog(r)
  <2> DEFINE a == [u EXCEPT !.pending_connect_confirm = TRUE]
  <2>1. q = DflowEnter(a, "ACK_TX", "TIMER_ACK")
    BY <1>8 DEF ArmConnectConfirm
  <2>2. Twin(a, u)
    BY <1>5, GoodWhole DEF Twin, Same, Whole, SessionFields
  <2> HIDE DEF a, q
  <2>3. Same(q, a) /\ q.txq = a.txq /\ q.conn_state = a.conn_state /\ q.dflow_state = "ACK_TX"
    BY <2>1, <2>2, DflowEnterSame DEF Twin, Same
  <2>4. Up(q) /\ ~Busy(q) /\ Asks(q) /\ Actions(q) = Actions(r)
    BY <1>5, <1>6, <2>2, <2>3 DEF Up, Busy, Asks, Actions, Twin
  <2>5. /\ q.txlog = <<>> /\ q.rxlog = <<>> /\ q.tx_window = <<>>
        /\ q.backlog = r.backlog /\ q.written = r.written /\ q.session_id = r.session_id
    BY <1>5, <2>2, <2>3 DEF Twin, Same
  <2> QED
    BY <1>1, <1>2, <2>4, <2>5, JoinMoves
<1> QED
  BY <1>7, <1>8

LEMMA CallFrameMoves ==
    ASSUME NEW s \in Station, Able(s), NEW f, Sent(f),
           \/ ListeningRxCall(s, f) \/ ListeningRxAccept(s, f)
           \/ ListeningRxTraffic(s, f)
           \/ AcceptingRxTraffic(s, f) \/ AcceptingRxCall(s, f)
           \/ \E wanted \in PayloadModes : CallingRxAccept(s, f, wanted)
    PROVE  Moves(st[s], st'[s], f)
<1> DEFINE r == st[s]
<1>0. Good(r) /\ Whole(r) /\ IdOf(r) /\ Asks(r)
  BY AbleFit DEF Able
<1>1. CASE ListeningRxCall(s, f)
  <2> DEFINE p == [r EXCEPT !.session_id = f.sid, !.tx_retries_left = AcceptSlots,
                            !.payload_mode = SafeMode, !.peer_tx_mode = SafeMode,
                            !.host = "pending"]
             q == SessEnter(p, "ACCEPTING", "TIMER_RETRY")
  <2>1. Become(s, q) /\ f.type = "CALL" /\ ~Up(r) /\ f.sid \in SessionIds
    BY <1>1 DEF ListeningRxCall, InConn, Up, Sent
  <2>2. st'[s] = q /\ Good(q)
    BY <2>1, BecomeIs
  <2>3. /\ Whole(p) /\ p.session_id = f.sid /\ p.written = r.written /\ p.txq = r.txq
        /\ p.backlog = r.backlog /\ p.txlog = r.txlog
    BY <1>0 DEF Whole, SessionFields
  <2> HIDE DEF p
  <2>4. Same(q, p) /\ q.txq = p.txq /\ q.conn_state = "ACCEPTING"
    BY <2>3, SessEnterSame
  <2> HIDE DEF q
  <2>5. /\ q.session_id = f.sid /\ q.written = r.written /\ q.txq = r.txq
        /\ q.backlog = r.backlog /\ q.txlog = r.txlog
    BY <2>3, <2>4 DEF Same
  <2>6. /\ ~Up(q) /\ IdOf(q) /\ Asks(q) /\ (Active(q) => Active(r)) /\ Apart(r, q, f)
        /\ Load(q) = Load(r) /\ Load(r) \in Nat /\ Actions(q) = Actions(r)
    BY <1>0, <2>1, <2>4, <2>5, LoadType
    DEF Up, IdOf, Asks, Active, Busy, HasBacklog, Apart, Load, Actions
  <2> HIDE DEF r
  <2>7. Moves(r, q, f)
    BY <2>1, <2>2, <2>5, <2>6 DEF Moves
  <2> QED
    BY <2>2, <2>7 DEF r
<1>2. CASE ListeningRxAccept(s, f)
  <2>1. f.type = "ACCEPT" /\ f.sid = r.session_id /\ Become(s, SendCtrlFrame(r, "DISCONNECT"))
    BY <1>2 DEF ListeningRxAccept
  <2>2. r.session_id \in SessionIds
    BY <2>1 DEF Sent
  <2>3. Carries(SendCtrlFrame(r, "DISCONNECT"), r)
    BY <1>0, <2>2, SendCtrlFrameCarries DEF ShortTypes
  <2> QED
    BY <2>1, <2>3, CarriesStep
<1>3. CASE ListeningRxTraffic(s, f)
  <2> DEFINE p == [r EXCEPT !.pending_disconnect = "no"]
  <2>1. /\ f.type \in {"DATA", "ACK"} /\ f.sid = r.session_id /\ ~Up(r)
        /\ Become(s, BecomeCallee(p, f))
    BY <1>3 DEF ListeningRxTraffic, InConn, Up
  <2>2. r.session_id \in SessionIds
    BY <2>1 DEF Sent
  <2>3. Twin(p, r) /\ Good(p)
    BY <1>0, Keeps DEF Twin, Same, Whole, SessionFields
  <2> HIDE DEF p
  <2> QED
    BY <1>0, <2>1, <2>2, <2>3, BecomeCalleeMoves, BecomeIs
<1>4. CASE AcceptingRxTraffic(s, f)
  <2>1. f.type \in {"DATA", "ACK"} /\ ~Up(r) /\ Become(s, BecomeCallee(r, f))
        /\ r.session_id \in SessionIds /\ Twin(r, r)
    BY <1>0, <1>4 DEF AcceptingRxTraffic, InConn, Up, IdOf, Twin, Same
  <2> QED
    BY <1>0, <2>1, BecomeCalleeMoves, BecomeIs
<1>5. CASE AcceptingRxCall(s, f)
  <2> DEFINE p == [r EXCEPT !.tx_retries_left = AcceptSlots]
  <2>1. Twin(p, r) /\ Good(p)
    BY <1>0, Keeps, SlotAssumption DEF Twin, Same, Whole, SessionFields
  <2>2. Become(s, p)
    BY <1>5 DEF AcceptingRxCall
  <2> HIDE DEF p
  <2> QED
    BY <1>0, <2>1, <2>2, TwinDrops, DropsItself, CarriesStep
<1>6. CASE \E wanted \in PayloadModes : CallingRxAccept(s, f, wanted)
  BY <1>6, CallingRxAcceptMoves
<1> QED
  BY <1>1, <1>2, <1>3, <1>4, <1>5, <1>6

LEMMA ArmConnectConfirmCarries ==
    ASSUME NEW r, Fit(r) PROVE Carries(ArmConnectConfirm(r), r)
<1> DEFINE p == [r EXCEPT !.pending_connect_confirm = TRUE]
<1>1. Twin(p, r) /\ Good(p)
  BY GoodWhole, Keeps DEF Twin, Same, Whole, SessionFields, Fit
<1> HIDE DEF p
<1>2. Carries(DflowEnter(p, "ACK_TX", "TIMER_ACK"), p)
  BY <1>1, TwinFit, DflowEnterCarries
<1> QED
  BY <1>1, <1>2, TwinCarries DEF ArmConnectConfirm, p

LEMMA ConnectedFrameMoves ==
    ASSUME NEW s \in Station, Able(s), NEW f, Sent(f),
           \/ ConnectedRxAccept(s, f) \/ ConnectedRxDisconnect(s, f)
           \/ DisconnectingRxDisconnect(s, f) \/ ConnectedRxKeepalive(s, f)
           \/ RxTurnReq(s, f) \/ RxModeReq(s, f)
    PROVE  Moves(st[s], st'[s], f)
<1> DEFINE r == st[s]
<1>0. /\ Good(r) /\ Whole(r) /\ IdOf(r) /\ Asks(r)
      /\ InConn(s, "CONNECTED") => Fit(r) /\ Up(r)
  BY AbleFit DEF Able, Fit
<1>1. CASE ConnectedRxAccept(s, f)
  <2>1. Fit(r) /\ Become(s, ArmConnectConfirm(r))
    BY <1>0, <1>1 DEF ConnectedRxAccept, InFlow
  <2> QED
    BY <2>1, ArmConnectConfirmCarries, CarriesStep
<1>2. CASE ConnectedRxDisconnect(s, f)
  <2> DEFINE p == SendCtrlFrame(r, "DISCONNECT")
             m == [p EXCEPT !.pending_disconnect = "no", !.pending_disconnect_notify = TRUE]
  <2>1. Fit(r) /\ Become(s, SessEnter(m, "DISCONNECTED", "none"))
    BY <1>0, <1>2 DEF ConnectedRxDisconnect
  <2>2. Speaks(p, r)
    BY <1>0, <2>1, SendCtrlFrameSpeaks DEF ShortTypes, Fit
  <2> HIDE DEF p
  <2>3. Twin(m, p)
    BY <2>2 DEF Speaks, Twin, Same, Whole, SessionFields
  <2> HIDE DEF m
  <2> QED
    BY <1>0, <2>1, <2>2, <2>3, SpeakAndLeave, CarriesStep DEF Fit
<1>3. CASE DisconnectingRxDisconnect(s, f)
  BY <1>0, <1>3, EndCallCarries, CarriesStep DEF DisconnectingRxDisconnect
<1>4. CASE ConnectedRxKeepalive(s, f)
  <2> DEFINE p == [r EXCEPT !.keepalive_miss_count = 0]
             irs == p.dflow_state = "IDLE_IRS"
             m == [p EXCEPT !.keepalive_ack_from_irs = irs]
  <2>1. Become(s, IF p.dflow_state \in {"IDLE_ISS", "IDLE_IRS"}
                  THEN DflowEnter(m, "KEEPALIVE_ACK_TX", "TIMER_ACK")
                  ELSE SendCtrlFrame(p, "KEEPALIVE_ACK")) /\ Fit(r)
    BY <1>0, <1>4 DEF ConnectedRxKeepalive
  <2>2. Twin(p, r) /\ Good(p) /\ irs \in BOOLEAN
    BY <1>0, Keeps DEF Twin, Same, Whole, SessionFields
  <2>3. Fit(p) /\ Asks(p)
    BY <1>0, <2>1, <2>2, TwinFit, TwinAsks
  <2> HIDE DEF p, irs
  <2>4. Twin(m, p) /\ Good(m)
    BY <2>2, Keeps DEF Twin, Same, Whole, SessionFields
  <2>5. Carries(DflowEnter(m, "KEEPALIVE_ACK_TX", "TIMER_ACK"), r)
    <3>1. Fit(m)
      BY <2>3, <2>4, TwinFit
    <3> HIDE DEF m
    <3> QED
      BY <2>2, <2>4, <3>1, DflowEnterCarries, TwinCarries
  <2>6. Carries(SendCtrlFrame(p, "KEEPALIVE_ACK"), r)
    BY <2>2, <2>3, SendCtrlFrameCarries, TwinCarries DEF Fit, ShortTypes
  <2> HIDE DEF m
  <2> QED
    BY <2>1, <2>5, <2>6, CarriesStep
<1>5. CASE RxTurnReq(s, f)
  <2>1. Fit(r) /\ Become(s, DflowEnter(r, "TURN_ACK_TX", "TIMER_ACK"))
    BY <1>0, <1>5 DEF RxTurnReq
  <2> QED
    BY <2>1, DflowEnterCarries, CarriesStep
<1>6. CASE RxModeReq(s, f)
  <2> DEFINE p == IF r.dflow_state = "WAIT_ACK" THEN ImplicitAck(r) ELSE r
             m == [p EXCEPT !.peer_tx_mode = f.mode]
             q == DflowEnter(m, "MODE_ACK_TX", "TIMER_ACK")
  <2>1. Up(r) /\ f.type = "MODE_REQ" /\ Become(s, q)
    BY <1>0, <1>6 DEF RxModeReq
  <2>2. st'[s] = q /\ Good(q)
    BY <2>1, BecomeIs
  <2>3. /\ Whole(p) /\ p.conn_state = r.conn_state
        /\ p.session_id = r.session_id /\ p.written = r.written /\ p.txq = r.txq
        /\ p.txlog = r.txlog /\ p.rxlog = r.rxlog /\ p.backlog = r.backlog
        /\ p.tx_window = r.tx_window \/ p.tx_window = <<>>
    BY <1>0 DEF ImplicitAck, Whole, SessionFields
  <2> HIDE DEF p
  <2>4. Twin(m, p)
    BY <2>3 DEF Twin, Same, Whole, SessionFields
  <2> HIDE DEF m
  <2>5. Same(q, m) /\ q.txq = m.txq /\ q.conn_state = m.conn_state
        /\ q.dflow_state = "MODE_ACK_TX"
    BY <2>4, DflowEnterSame DEF Twin, Same
  <2> HIDE DEF q
  <2>6. /\ q.conn_state = r.conn_state
        /\ q.session_id = r.session_id /\ q.written = r.written /\ q.txq = r.txq
        /\ q.txlog = r.txlog /\ q.rxlog = r.rxlog /\ q.backlog = r.backlog
        /\ q.tx_window = r.tx_window \/ q.tx_window = <<>>
    BY <2>3, <2>4, <2>5 DEF Twin, Same
  <2>7. Base(q) = Base(r) \/ Base(q) = Len(r.txlog)
    <3>1. Len(r.txlog) \in Nat /\ Len(r.txlog) - Len(<<>>) = Len(r.txlog)
      BY <1>0, Fields
    <3>2. q.tx_window = <<>> => Base(q) = Len(r.txlog)
      BY <2>6, <3>1 DEF Base
    <3>3. q.tx_window = r.tx_window => Base(q) = Base(r)
      BY <2>6 DEF Base
    <3> QED
      BY <2>6, <3>2, <3>3
  <2>8. InSession(r, q, f)
    BY <1>0, <2>1, <2>6, <2>7, GrowsItself, Fields DEF InSession
  <2>9. /\ Up(q) /\ IdOf(q) /\ Asks(q) /\ (Active(q) => Active(r)) /\ q.conn_state # "CALLING"
        /\ Load(q) = Load(r) /\ Load(r) \in Nat /\ Actions(q) = Actions(r)
    BY <1>0, <2>1, <2>5, <2>6, LoadType
    DEF Up, IdOf, Asks, Active, Busy, HasBacklog, Load, Actions
  <2> HIDE DEF r
  <2>10. Moves(r, q, f)
    BY <2>1, <2>2, <2>6, <2>8, <2>9 DEF Moves
  <2> QED
    BY <2>2, <2>10 DEF r
<1> QED
  BY <1>1, <1>2, <1>3, <1>4, <1>5, <1>6

LEMMA ReceiveDataMoves ==
    ASSUME NEW r, Good(r), Up(r), IdOf(r), NEW p, Good(p), p = r \/ p = ImplicitAck(r),
           NEW f, Sent(f), f.type = "DATA"
    PROVE  Moves(r, ReceiveData(p, f), f)
<1> DEFINE q == ReceiveData(p, f)
<1>1. Good(q)
  BY ReceiveDataGood DEF Sent, WellFormed
<1>2. /\ q.conn_state = p.conn_state /\ q.dflow_state = "DATA_RX"
      /\ q.session_id = p.session_id /\ q.written = p.written /\ q.txq = p.txq
      /\ q.txlog = p.txlog /\ q.tx_window = p.tx_window /\ q.backlog = p.backlog
      /\ \/ q.rxlog = p.rxlog
         \/ f.seq = Len(p.rxlog) % SeqSpace /\ q.rxlog = Append(p.rxlog, f.unit)
  BY ReceiveDataIs
<1> HIDE DEF q
<1>3. /\ p.conn_state = r.conn_state
      /\ p.session_id = r.session_id /\ p.written = r.written /\ p.txq = r.txq
      /\ p.txlog = r.txlog /\ p.rxlog = r.rxlog /\ p.backlog = r.backlog
      /\ p.tx_window = r.tx_window \/ p.tx_window = <<>>
  BY GoodWhole DEF ImplicitAck, Whole, SessionFields
<1>4. Base(q) = Base(r) \/ Base(q) = Len(r.txlog)
  <2>1. Len(r.txlog) \in Nat /\ Len(r.txlog) - Len(<<>>) = Len(r.txlog)
    BY Fields
  <2>2. p.tx_window = <<>> => Base(q) = Len(r.txlog)
    BY <1>2, <1>3, <2>1 DEF Base
  <2>3. p.tx_window = r.tx_window => Base(q) = Base(r)
    BY <1>2, <1>3 DEF Base
  <2> QED
    BY <1>3, <2>2, <2>3
<1>5. InSession(r, q, f)
  BY <1>2, <1>3, <1>4, GrowsItself, Fields DEF InSession
<1>6. /\ Up(q) /\ IdOf(q) /\ Asks(q) /\ (Active(q) => Active(r)) /\ q.conn_state # "CALLING"
      /\ Load(q) = Load(r) /\ Load(r) \in Nat /\ Actions(q) = Actions(r)
  BY <1>2, <1>3, LoadType
  DEF Up, IdOf, Asks, Active, Busy, HasBacklog, Load, Actions
<1>7. Moves(r, q, f)
  BY <1>1, <1>2, <1>3, <1>5, <1>6 DEF Moves
<1> QED
  BY <1>7 DEF q

LEMMA SlideWindowIs ==
    ASSUME NEW r, Good(r), NEW n \in 0 .. Len(r.tx_window)
    PROVE  LET p == SlideWindow(r, n)
           IN  /\ Whole(p) /\ p.conn_state = r.conn_state /\ p.dflow_state = r.dflow_state
               /\ p.session_id = r.session_id /\ p.written = r.written /\ p.txq = r.txq
               /\ p.txlog = r.txlog /\ p.rxlog = r.rxlog /\ p.backlog = r.backlog
               /\ Base(p) = Base(r) + n
<1> DEFINE w == SubSeq(r.tx_window, n + 1, Len(r.tx_window))
           p == SlideWindow(r, n)
<1>1. /\ Whole(p) /\ p.conn_state = r.conn_state /\ p.dflow_state = r.dflow_state
      /\ p.session_id = r.session_id /\ p.written = r.written /\ p.txq = r.txq
      /\ p.txlog = r.txlog /\ p.rxlog = r.rxlog /\ p.backlog = r.backlog
      /\ p.tx_window = w
  BY GoodWhole DEF SlideWindow, Whole, SessionFields
<1>2. r.tx_window \in Seq(Slot) /\ Len(r.txlog) \in Nat
  BY Fields
<1>3. Len(r.tx_window) \in Nat /\ n \in Nat
  BY <1>2
<1>4. Len(w) = Len(r.tx_window) - n
  BY <1>2
<1> HIDE DEF w, p
<1>5. Base(p) = Base(r) + n
  BY <1>1, <1>2, <1>3, <1>4 DEF Base
<1> QED
  BY <1>1, <1>5 DEF p

LEMMA WaitAckRxAckMoves ==
    ASSUME NEW s \in Station, Able(s), NEW f, Sent(f), NEW wanted \in PayloadModes,
           WaitAckRxAck(s, f, wanted)
    PROVE  Moves(st[s], st'[s], f)
<1> DEFINE r == st[s]
           n == AckedCount(r.tx_window, f.seq)
           w == SlideWindow(r, n)
           p == [w EXCEPT !.tx_retries_left = DataSlots, !.peer_has_data = f.has_data]
           q == IF p.tx_window # <<>> THEN TransmitGuarded(p)
                ELSE IF f.has_data THEN EnterIdleIrs(p)
                ELSE EnterIdleIssGuarded(p, wanted)
<1>1. Good(r) /\ IdOf(r) /\ Fit(r) /\ Up(r) /\ f.seq \in Nat /\ f.has_data \in BOOLEAN
  BY AbleFit, WindowAssumption
  DEF WaitAckRxAck, InFlow, Able, Fit, Sent, WellFormed, Frame
<1>2. Become(s, q) /\ r.dflow_state = "WAIT_ACK" /\ f.type = "ACK"
  BY DEF WaitAckRxAck, InFlow
<1>3. n \in 0 .. Len(r.tx_window)
  BY <1>1, AckedCountBound
<1>4. /\ Good(w) /\ Whole(w) /\ w.conn_state = r.conn_state /\ w.dflow_state = r.dflow_state
      /\ w.session_id = r.session_id /\ w.written = r.written /\ w.txq = r.txq
      /\ w.txlog = r.txlog /\ w.rxlog = r.rxlog /\ w.backlog = r.backlog
      /\ Base(w) = Base(r) + n
  BY <1>1, <1>3, SlideWindowIs, SlideWindowGood
<1> HIDE DEF w
<1>5. Twin(p, w) /\ Good(p)
  BY <1>1, <1>4, Keeps, SlotAssumption DEF Twin, Same, Whole, SessionFields
<1> HIDE DEF p
<1>6. /\ p.conn_state = r.conn_state /\ p.dflow_state = "WAIT_ACK"
      /\ p.session_id = r.session_id /\ p.written = r.written /\ p.txq = r.txq
      /\ p.txlog = r.txlog /\ p.rxlog = r.rxlog /\ p.backlog = r.backlog
      /\ Base(p) = Base(r) + n
  BY <1>2, <1>4, <1>5 DEF Twin, Same, Base
<1>7. Fit(p) /\ Active(p) /\ Active(r)
  BY <1>1, <1>2, <1>5, <1>6 DEF Fit, Up, Active, Busy
<1>8. Carries(q, p) /\ q.txlog = p.txlog
  <2>1. Carries(TransmitGuarded(p), p) /\ TransmitGuarded(p).txlog = p.txlog
    BY <1>5, <1>7, TransmitGuardedCarries, DflowEnterSame DEF TransmitGuarded, Same, Twin
  <2>2. Carries(EnterIdleIrs(p), p) /\ EnterIdleIrs(p).txlog = p.txlog
    BY <1>5, <1>7, EnterIdleIrsCarries, DflowEnterSame DEF EnterIdleIrs, Same, Twin
  <2>3. /\ Carries(EnterIdleIssGuarded(p, wanted), p)
        /\ EnterIdleIssGuarded(p, wanted).txlog = p.txlog
    BY <1>5, <1>7, EnterIdleIssGuardedCarries, EnterIdleIssGuardedWaits
  <2> QED
    BY <2>1, <2>2, <2>3
<1>9. st'[s] = q /\ Good(q)
  BY <1>2, BecomeIs
<1> HIDE DEF q
<1>10. InSession(r, q, f)
  <2>1. Grows(r.txlog, q.txlog) /\ q.txlog = r.txlog /\ q.rxlog = r.rxlog
    BY <1>6, <1>8 DEF Carries
  <2>2. Base(q) = Base(r) + AckedCount(r.tx_window, f.seq)
    BY <1>6, <1>8 DEF Carries
  <2> QED
    BY <1>2, <2>1, <2>2 DEF InSession
<1>11. Load(q) <= Load(r) /\ Actions(p) = Actions(r)
  BY <1>6, <1>8 DEF Load, Carries, Actions
<1>12. IdOf(q) /\ q.conn_state # "CALLING" /\ q.session_id = r.session_id
       /\ q.written = r.written /\ Asks(q)
  BY <1>1, <1>6, <1>8 DEF IdOf, Carries, Stays, Up
<1>13. \A b \in Actions(q) : b \in Actions(r) \/ Fresh(b, q)
  BY <1>8, <1>11 DEF Carries
<1> HIDE DEF r
<1>14. Moves(r, q, f)
  BY <1>1, <1>7, <1>9, <1>10, <1>11, <1>12, <1>13 DEF Moves
<1> QED
  BY <1>9, <1>14 DEF r

LEMMA StreamFrameMoves ==
    ASSUME NEW s \in Station, Able(s), NEW f, Sent(f),
           NEW burst \in BurstSizes, NEW wanted \in PayloadModes,
           \/ RxData(s, f) \/ WaitAckRxData(s, f, burst) \/ WaitAckRxAck(s, f, wanted)
    PROVE  Moves(st[s], st'[s], f)
<1> DEFINE r == st[s]
<1>0. /\ Good(r) /\ Whole(r) /\ IdOf(r)
      /\ InConn(s, "CONNECTED") => Fit(r) /\ Up(r)
  BY AbleFit DEF Able, Fit
<1>1. CASE RxData(s, f)
  <2>1. Up(r) /\ f.type = "DATA" /\ Become(s, ReceiveData(r, f))
    BY <1>0, <1>1 DEF RxData
  <2> QED
    BY <1>0, <2>1, ReceiveDataMoves, BecomeIs
<1>2. CASE WaitAckRxData(s, f, burst)
  <2>1. /\ Up(r) /\ Fit(r) /\ f.type = "DATA" /\ r.dflow_state = "WAIT_ACK"
        /\ Become(s, IF IsNew(r, f) THEN ReceiveData(ImplicitAck(r), f)
                     ELSE TransmitNow([r EXCEPT !.peer_tx_mode = f.mode], burst))
    BY <1>0, <1>2 DEF WaitAckRxData, InFlow
  <2>2. CASE IsNew(r, f)
    <3>1. Become(s, ReceiveData(ImplicitAck(r), f))
      BY <2>1, <2>2
    <3> QED
      BY <1>0, <2>1, <3>1, ImplicitAckGood, ReceiveDataMoves, BecomeIs
  <2>3. CASE ~IsNew(r, f)
    <3> DEFINE p == [r EXCEPT !.peer_tx_mode = f.mode]
    <3>1. f.mode \in PayloadModes
      BY <2>1 DEF Sent, WellFormed
    <3>2. Become(s, TransmitNow(p, burst))
      BY <2>1, <2>3
    <3>3. Twin(p, r) /\ Good(p)
      BY <1>0, <3>1, Keeps DEF Twin, Same, Whole, SessionFields
    <3> HIDE DEF p
    <3>4. Fit(p) /\ Active(p)
      BY <2>1, <3>3, TwinFit, TwinActive DEF Active, Busy
    <3> QED
      BY <3>2, <3>3, <3>4, TransmitNowCarries, TwinCarries, CarriesStep
  <2> QED
    BY <2>2, <2>3
<1>3. CASE WaitAckRxAck(s, f, wanted)
  BY <1>3, WaitAckRxAckMoves
<1> QED
  BY <1>1, <1>2, <1>3

LEMMA AnswerFrameMoves ==
    ASSUME NEW s \in Station, Able(s), NEW f, Sent(f), NEW wanted \in PayloadModes,
           \/ TurnReqRxTurnAck(s, f, wanted) \/ KeepaliveWaitRx(s, f, wanted)
           \/ ModeReqRxModeAck(s, f, wanted)
    PROVE  Moves(st[s], st'[s], f)
<1> DEFINE r == st[s]
<1>0. /\ Good(r) /\ Whole(r) /\ Fit(r) /\ Asks(r)
  BY AbleFit DEF Able, TurnReqRxTurnAck, KeepaliveWaitRx, ModeReqRxModeAck, InFlow
<1>1. CASE TurnReqRxTurnAck(s, f, wanted)
  BY <1>0, <1>1, EnterIdleIssGuardedCarries, CarriesStep DEF TurnReqRxTurnAck
<1>2. CASE KeepaliveWaitRx(s, f, wanted)
  <2> DEFINE p == [r EXCEPT !.keepalive_miss_count = 0]
             m == SendCtrlFrame(p, "KEEPALIVE_ACK")
             a == IF f.type = "KEEPALIVE" THEN m ELSE p
             q == AfterKeepalive(a, p.keepalive_from_irs, wanted)
  <2>1. Become(s, q) /\ r.dflow_state = "KEEPALIVE_WAIT"
    BY <1>2 DEF KeepaliveWaitRx, InFlow
  <2>2. Twin(p, r) /\ Good(p)
    BY <1>0, Keeps DEF Twin, Same, Whole, SessionFields
  <2>3. Fit(p) /\ Asks(p) /\ Whole(p)
    BY <1>0, <2>2, TwinFit, TwinAsks, GoodWhole
  <2>4. p.keepalive_from_irs \in BOOLEAN
    BY <2>2, Fields
  <2> HIDE DEF p
  <2>5. Speaks(m, p) /\ Good(m)
    BY <2>3, SendCtrlFrameSpeaks, SendCtrlFrameGood DEF Fit, ShortTypes, FrameTypes
  <2>6. Fit(m)
    BY <2>3, <2>5 DEF Speaks, Same, Fit, Up
  <2> HIDE DEF m
  <2>7. CASE f.type # "KEEPALIVE"
    <3>1. q = AfterKeepalive(p, p.keepalive_from_irs, wanted)
      BY <2>7
    <3> QED
      BY <2>1, <2>2, <2>3, <3>1, AfterKeepaliveCarries, TwinCarries, CarriesStep
  <2>8. CASE f.type = "KEEPALIVE"
    <3>1. q = AfterKeepalive(m, p.keepalive_from_irs, wanted)
      BY <2>8
    <3> HIDE DEF q
    <3>2. Carries(q, m)
      BY <2>6, <3>1, AfterKeepaliveCarries
    <3>3. Carries(q, p)
      BY <2>3, <2>5, <3>2, SpeaksThenCarries DEF Fit
    <3> QED
      BY <2>1, <2>2, <3>3, TwinCarries, CarriesStep
  <2> QED
    BY <2>7, <2>8
<1>3. CASE ModeReqRxModeAck(s, f, wanted)
  <2> DEFINE p == [r EXCEPT !.payload_mode = f.mode]
  <2>1. f.mode \in PayloadModes /\ Become(s, EnterIdleIssGuarded(p, wanted))
    BY <1>3 DEF ModeReqRxModeAck, Sent, WellFormed
  <2>2. Twin(p, r) /\ Good(p)
    BY <1>0, <2>1, Keeps DEF Twin, Same, Whole, SessionFields
  <2> HIDE DEF p
  <2> QED
    BY <1>0, <2>1, <2>2, TwinFit, EnterIdleIssGuardedCarries, TwinCarries, CarriesStep
<1> QED
  BY <1>1, <1>2, <1>3

LEMMA HandleFrameMoves ==
    ASSUME NEW s \in Station, Able(s), NEW f, Sent(f), HandleFrame(s, f)
    PROVE  Moves(st[s], st'[s], f)
<1>1. 1 \in BurstSizes /\ SafeMode \in PayloadModes
  BY ModeAssumption DEF BurstSizes
<1> QED
  BY <1>1, CallFrameMoves, ConnectedFrameMoves, StreamFrameMoves, AnswerFrameMoves
  DEF HandleFrame

LEMMA ForcedTeardownCarries ==
    ASSUME NEW s \in Station, Able(s), ForcedTeardown(s)
    PROVE  Carries(st'[s], st[s])
<1>1. Good(st[s]) /\ Up(st[s]) /\ Become(s, StartDisconnect(st[s]))
  BY AbleFit DEF ForcedTeardown, Overdue, Up
<1> QED
  BY <1>1, StartDisconnectCarries, CarriedStep

(* The deadline that has passed. *)

(* What SendCtrlFrameCarries says, for a caller and its CALL. *)
LEMMA SendCallCarries ==
    ASSUME NEW r, Good(r), r.session_id \in SessionIds, r.conn_state = "CALLING"
    PROVE  Carries(SendCtrlFrame(r, "CALL"), r)
<1> DEFINE f == PlainFrame("CALL", r.session_id)
           q == SendCtrlFrame(r, "CALL")
<1>1. Sent(f) /\ f.type = "CALL"
  BY PlainSent DEF ShortTypes
<1>2. q = SendControl(r, f)
  BY DEF SendCtrlFrame
<1> HIDE DEF f, q
<1>3. /\ Same(q, r) /\ q.txq = Append(r.txq, Control(f)) /\ q.conn_state = r.conn_state
  BY <1>2, GoodWhole, SendControlSame
<1>4. FreshControl(f, q) /\ Stays(q, r) /\ ~Busy(q) /\ Asks(q)
  BY <1>1, <1>3 DEF FreshControl, Stays, Busy, Asks, Up
<1> QED
  BY <1>3, <1>4, CarriesControl DEF q

LEMMA CallTimerCarries ==
    ASSUME NEW s \in Station, Able(s),
           \/ CallingRetry(s) \/ AcceptingRetry(s)
           \/ DisconnectingGuardOver(s) \/ DisconnectingRetry(s)
    PROVE  Carries(st'[s], st[s])
<1> DEFINE r == st[s]
           p == [r EXCEPT !.tx_retries_left = @ - 1]
<1>0. /\ Good(r) /\ Whole(r) /\ Asks(r) /\ r.session_id \in SessionIds
  BY AbleFit DEF Able, IdOf, CallingRetry, AcceptingRetry, DisconnectingGuardOver,
                 DisconnectingRetry, InConn
<1>1. r.tx_retries_left > 0 => Twin(p, r) /\ Good(p) /\ Asks(p)
  <2>1. r.tx_retries_left > 0 => r.tx_retries_left - 1 \in Nat
    BY <1>0, Fields
  <2> QED
    BY <1>0, <2>1, Keeps, TwinAsks DEF Twin, Same, Whole, SessionFields
<1>2. Carries(EndCall(r), r)
  BY <1>0, EndCallCarries
<1>3. CASE CallingRetry(s)
  <2>1. /\ r.conn_state = "CALLING"
        /\ Become(s, IF r.tx_retries_left > 0 THEN SendCtrlFrame(p, "CALL") ELSE EndCall(r))
    BY <1>3 DEF CallingRetry, InConn
  <2> HIDE DEF p
  <2>2. r.tx_retries_left > 0 => Carries(SendCtrlFrame(p, "CALL"), r)
    BY <1>0, <1>1, <2>1, SendCallCarries, TwinCarries DEF Twin, Same
  <2> QED
    BY <1>2, <2>1, <2>2, CarriedStep
<1>4. CASE AcceptingRetry(s)
  <2> DEFINE c == NotifyCancelPending(r)
  <2>1. Become(s, IF r.tx_retries_left > 0 THEN SendCtrlFrame(p, "ACCEPT")
                  ELSE SessEnter(c, "LISTENING", "none"))
    BY <1>4 DEF AcceptingRetry
  <2> HIDE DEF p
  <2>2. r.tx_retries_left > 0 => Carries(SendCtrlFrame(p, "ACCEPT"), r)
    BY <1>0, <1>1, SendCtrlFrameCarries, TwinCarries DEF Twin, Same, ShortTypes
  <2>3. Twin(c, r)
    BY <1>0 DEF NotifyCancelPending, Twin, Same, Whole, SessionFields
  <2> HIDE DEF c
  <2>4. Carries(SessEnter(c, "LISTENING", "none"), r)
    BY <1>0, <2>3, RestCarries
  <2> QED
    BY <2>1, <2>2, <2>4, CarriedStep
<1>5. CASE DisconnectingGuardOver(s)
  <2> DEFINE m == SendCtrlFrame(r, "DISCONNECT")
             q == [m EXCEPT !.deadline = "TIMER_RETRY"]
  <2>1. r.conn_state = "DISCONNECTING" /\ Become(s, q)
    BY <1>5 DEF DisconnectingGuardOver, InConn
  <2>2. Speaks(m, r)
    BY <1>0, SendCtrlFrameSpeaks DEF ShortTypes
  <2> HIDE DEF m
  <2>3. Same(q, m) /\ q.txq = m.txq /\ q.conn_state = "DISCONNECTING"
    BY <2>1, <2>2 DEF Speaks, Same, Whole, SessionFields
  <2> HIDE DEF q
  <2>4. Stays(q, r) /\ ~Busy(q) /\ Asks(q)
    BY <2>1, <2>3 DEF Stays, Busy, Asks, Up
  <2> QED
    BY <1>0, <2>1, <2>2, <2>3, <2>4, SpeaksCarries, CarriedStep
<1>6. CASE DisconnectingRetry(s)
  <2>1. Become(s, IF r.tx_retries_left > 0 THEN SendCtrlFrame(p, "DISCONNECT") ELSE EndCall(r))
    BY <1>6 DEF DisconnectingRetry
  <2> HIDE DEF p
  <2>2. r.tx_retries_left > 0 => Carries(SendCtrlFrame(p, "DISCONNECT"), r)
    BY <1>0, <1>1, SendCtrlFrameCarries, TwinCarries DEF Twin, Same, ShortTypes
  <2> QED
    BY <1>2, <2>1, <2>2, CarriedStep
<1> QED
  BY <1>3, <1>4, <1>5, <1>6

(* The cumulative ACK names the next unit wanted. *)
LEMMA SendAckCarries ==
    ASSUME NEW r, Fit(r), NEW m, Twin(m, SendAck(r))
    PROVE  Carries(DflowEnter(m, "ACK_TX", "none"), r)
<1> DEFINE f == AckFrame(r.session_id, r.rx_expected % SeqSpace, HasBacklog(r))
           q == DflowEnter(m, "ACK_TX", "none")
<1>1. r.rx_expected = Len(r.rxlog) /\ r.rx_expected \in Nat /\ HasBacklog(r) \in BOOLEAN
  BY Fields, HasBacklogType DEF Fit, Good, WindowOf
<1>2. Sent(f) /\ f.type = "ACK" /\ f.seq = Len(r.rxlog) % SeqSpace
  BY <1>1, AckSent DEF Fit
<1>3. SendAck(r) = SendControl(r, f)
  BY DEF SendAck
<1> HIDE DEF f
<1>4. /\ Same(m, r) /\ m.txq = Append(r.txq, Control(f)) /\ m.conn_state = r.conn_state
  BY <1>3, GoodWhole, SendControlSame DEF Fit, Twin, Same
<1>5. /\ Same(q, m) /\ q.txq = m.txq /\ q.conn_state = m.conn_state /\ q.dflow_state = "ACK_TX"
  BY <1>4, DflowEnterSame DEF Same
<1> HIDE DEF q
<1>6. Same(q, r) /\ q.txq = Append(r.txq, Control(f)) /\ Up(q) /\ Stays(q, r)
  BY <1>4, <1>5 DEF Same, Stays, Up, Fit
<1>7. FreshControl(f, q) /\ ~Busy(q) /\ Asks(q)
  BY <1>2, <1>5, <1>6 DEF FreshControl, Busy, Asks, Same
<1> QED
  BY <1>6, <1>7, CarriesControl DEF Fit, q

LEMMA StreamTimerCarries ==
    ASSUME NEW s \in Station, Able(s), NEW burst \in BurstSizes,
           NEW wanted \in PayloadModes, NEW dead \in BOOLEAN,
           \/ DataTxGuardOver(s, burst) \/ WaitAckRetransmit(s, burst)
           \/ WaitAckExhausted(s, dead, burst, wanted)
           \/ DataRxGuardOver(s) \/ AckTxConfirm(s)
    PROVE  Carries(st'[s], st[s])
<1> DEFINE r == st[s]
<1>0. /\ Good(r) /\ Whole(r) /\ Fit(r) /\ Asks(r)
  BY AbleFit DEF Able, DataTxGuardOver, WaitAckRetransmit, WaitAckExhausted,
                 DataRxGuardOver, AckTxConfirm, InFlow
<1>1. CASE DataTxGuardOver(s, burst)
  <2>1. Twin(Fired(s), r) /\ Fit(Fired(s)) /\ Become(s, SendDataBurst(Fired(s), burst))
    BY <1>1, FiredTwin DEF DataTxGuardOver, InFlow
  <2>2. Asks(Fired(s))
    BY <1>0, <2>1, TwinAsks
  <2>3. Carries(SendDataBurst(Fired(s), burst), Fired(s))
    BY <2>1, <2>2, BurstCarries DEF Fit
  <2> QED
    BY <2>1, <2>3, TwinCarries, CarriedStep
<1>2. CASE WaitAckRetransmit(s, burst)
  <2> DEFINE left == IF r.pending_disconnect # "no" THEN 1 ELSE r.tx_retries_left
             p == [r EXCEPT !.tx_retries_left = left - 1]
  <2>1. left - 1 \in Nat
    BY <1>0, <1>2, Fields DEF WaitAckRetransmit
  <2>2. Become(s, TransmitNow(p, burst)) /\ r.dflow_state = "WAIT_ACK"
    BY <1>2 DEF WaitAckRetransmit, InFlow
  <2> HIDE DEF left
  <2>3. Twin(p, r) /\ Fit(p)
    BY <1>0, <2>1, SlotsTwin
  <2>4. Active(r)
    BY <1>0, <2>2 DEF Active, Busy, Fit
  <2> HIDE DEF p
  <2>5. Carries(TransmitNow(p, burst), p)
    BY <2>3, <2>4, TwinActive, TransmitNowCarries
  <2> QED
    BY <2>2, <2>3, <2>5, TwinCarries, CarriedStep
<1>3. CASE WaitAckExhausted(s, dead, burst, wanted)
  <2> DEFINE again == [r EXCEPT !.tx_retries_left = DataSlots]
             m == SendCtrlFrame(r, "DISCONNECT")
             bye == [m EXCEPT !.pending_disconnect = "no",
                              !.tx_retries_left = DisconnectSlots]
  <2>1. Become(s, IF dead \/ r.pending_disconnect # "no"
                  THEN SessEnter(bye, "DISCONNECTING", "TIMER_RETRY")
                  ELSE IF UpgradeStarts(again, wanted) THEN StartModeReq(again, wanted)
                  ELSE TransmitNow(again, burst))
        /\ r.dflow_state = "WAIT_ACK"
    BY <1>3 DEF WaitAckExhausted, InFlow
  <2>2. Twin(again, r) /\ Fit(again)
    BY <1>0, SlotsTwin, SlotAssumption
  <2>3. Active(r)
    BY <1>0, <2>1 DEF Active, Busy, Fit
  <2> HIDE DEF again
  <2>4. Carries(StartModeReq(again, wanted), r) /\ Carries(TransmitNow(again, burst), r)
    BY <2>2, <2>3, TwinActive, TransmitNowCarries, StartModeReqCarries, TwinCarries
  <2>5. Speaks(m, r)
    BY <1>0, SendCtrlFrameSpeaks DEF ShortTypes, Fit
  <2> HIDE DEF m
  <2>6. Twin(bye, m)
    BY <2>5 DEF Speaks, Twin, Same, Whole, SessionFields
  <2> HIDE DEF bye
  <2>7. Carries(SessEnter(bye, "DISCONNECTING", "TIMER_RETRY"), r)
    BY <1>0, <2>5, <2>6, SpeakAndLeave DEF Fit
  <2> QED
    BY <2>1, <2>4, <2>7, CarriedStep
<1>4. CASE DataRxGuardOver(s)
  <2> DEFINE m == [SendAck(r) EXCEPT !.acktx_had_has_data = HasBacklog(r)]
  <2>1. Whole(SendAck(r))
    BY <1>0, SendAckGood, GoodWhole
  <2>2. Twin(m, SendAck(r))
    BY <2>1 DEF Twin, Same, Whole, SessionFields
  <2>3. Become(s, DflowEnter(m, "ACK_TX", "none"))
    BY <1>4 DEF DataRxGuardOver
  <2> HIDE DEF m
  <2> QED
    BY <1>0, <2>2, <2>3, SendAckCarries, CarriedStep
<1>5. CASE AckTxConfirm(s)
  <2>1. Twin(SendAck(r), SendAck(r))
    BY <1>0, SendAckGood, GoodWhole DEF Twin, Same
  <2> QED
    BY <1>0, <1>5, <2>1, SendAckCarries, CarriedStep DEF AckTxConfirm
<1> QED
  BY <1>1, <1>2, <1>3, <1>4, <1>5

LEMMA TurnTimerCarries ==
    ASSUME NEW s \in Station, Able(s), NEW quiet \in BOOLEAN,
           \/ IdleIrsPeerBacklog(s, quiet) \/ TurnReqRetry(s) \/ TurnAckGuardOver(s)
           \/ KeepaliveMiss(s) \/ KeepaliveAckGuardOver(s)
    PROVE  Carries(st'[s], st[s])
<1> DEFINE r == st[s]
           c == Fired(s)
<1>0. /\ Good(r) /\ Whole(r) /\ Fit(r) /\ Asks(r) /\ Twin(c, r) /\ Fit(c) /\ Good(c) /\ Whole(c)
      /\ Asks(c)
  <2>1. /\ Good(r) /\ Whole(r) /\ Fit(r) /\ Asks(r) /\ Twin(c, r) /\ Fit(c)
    BY AbleFit, FiredTwin
    DEF Able, IdleIrsPeerBacklog, TurnReqRetry, TurnAckGuardOver, KeepaliveMiss,
        KeepaliveAckGuardOver, InFlow
  <2> HIDE DEF c, r
  <2> QED
    BY <2>1, GoodWhole, TwinAsks DEF Fit
<1>1. CASE IdleIrsPeerBacklog(s, quiet)
  <2> DEFINE k == [c EXCEPT !.keepalive_miss_count = 0, !.keepalive_from_irs = TRUE]
             t == [c EXCEPT !.tx_retries_left = TurnReqRetries]
  <2>1. Become(s, IF quiet THEN SendKeepalive(k)
                  ELSE IF HasBacklog(c) THEN SendTurnReq(t) ELSE EnterIdleIrs(c))
    BY <1>1 DEF IdleIrsPeerBacklog
  <2> HIDE DEF c, r
  <2>2. Twin(k, c) /\ Good(k)
    BY <1>0, Keeps DEF Twin, Same, Whole, SessionFields
  <2>3. Twin(t, c) /\ Fit(t)
    BY <1>0, SlotsTwin, SlotAssumption
  <2>4. Fit(k)
    BY <1>0, <2>2, TwinFit
  <2> HIDE DEF k, t
  <2>5. Carries(SendKeepalive(k), c) /\ Carries(SendTurnReq(t), c) /\ Carries(EnterIdleIrs(c), c)
    BY <1>0, <2>2, <2>3, <2>4, SendKeepaliveCarries, SendTurnReqCarries,
       EnterIdleIrsCarries, TwinCarries
  <2> QED
    BY <1>0, <2>1, <2>5, TwinCarries, CarriedStep DEF r
<1>2. CASE TurnReqRetry(s)
  <2> DEFINE t == [r EXCEPT !.tx_retries_left = @ - 1]
  <2>1. Become(s, IF r.tx_retries_left > 0 THEN SendTurnReq(t) ELSE EnterIdleIrs(r))
    BY <1>2 DEF TurnReqRetry
  <2>2. r.tx_retries_left > 0 => Twin(t, r) /\ Fit(t)
    <3>1. r.tx_retries_left > 0 => r.tx_retries_left - 1 \in Nat
      BY <1>0, Fields
    <3> QED
      BY <1>0, <3>1, SlotsTwin
  <2> HIDE DEF t
  <2>3. Carries(EnterIdleIrs(r), r) /\ (r.tx_retries_left > 0 => Carries(SendTurnReq(t), r))
    BY <1>0, <2>2, SendTurnReqCarries, EnterIdleIrsCarries, TwinCarries
  <2> QED
    BY <2>1, <2>3, CarriedStep
<1>3. ASSUME NEW type \in ShortTypes \ {"CALL"}, Become(s, SendCtrlFrame(c, type))
      PROVE  Carries(st'[s], st[s])
  <2>1. Carries(SendCtrlFrame(c, type), c)
    BY <1>0, SendCtrlFrameCarries DEF Fit
  <2> QED
    BY <1>0, <1>3, <2>1, TwinCarries, CarriedStep
<1>4. CASE KeepaliveMiss(s)
  <2> DEFINE p == [r EXCEPT !.keepalive_miss_count = @ + 1]
             m == SendCtrlFrame(p, "DISCONNECT")
             bye == [m EXCEPT !.tx_retries_left = DisconnectSlots]
  <2>1. Become(s, IF p.keepalive_miss_count >= KeepaliveMissLimit
                  THEN SessEnter(bye, "DISCONNECTING", "TIMER_RETRY")
                  ELSE SendKeepalive(p))
    BY <1>4 DEF KeepaliveMiss
  <2>2. Twin(p, r) /\ Good(p)
    <3>1. r.keepalive_miss_count + 1 \in Nat
      BY <1>0, Fields
    <3> QED
      BY <1>0, <3>1, Keeps DEF Twin, Same, Whole, SessionFields
  <2> HIDE DEF p
  <2>3. Fit(p)
    BY <1>0, <2>2, TwinFit
  <2>4. Speaks(m, p)
    BY <2>3, GoodWhole, SendCtrlFrameSpeaks DEF ShortTypes, Fit
  <2> HIDE DEF m
  <2>5. Twin(bye, m)
    BY <2>4 DEF Speaks, Twin, Same, Whole, SessionFields
  <2> HIDE DEF bye
  <2>6. Carries(SessEnter(bye, "DISCONNECTING", "TIMER_RETRY"), p)
    BY <2>3, <2>4, <2>5, SpeakAndLeave DEF Fit
  <2>7. Carries(SendKeepalive(p), p)
    BY <2>3, SendKeepaliveCarries
  <2> QED
    BY <2>1, <2>2, <2>6, <2>7, TwinCarries, CarriedStep
<1> QED
  BY <1>1, <1>2, <1>3, <1>4 DEF TurnAckGuardOver, KeepaliveAckGuardOver, ShortTypes

LEMMA ModeTimerCarries ==
    ASSUME NEW s \in Station, Able(s),
           ModeAckGuardOver(s) \/ ModeReqRetry(s) \/ TimerUnhandled(s)
    PROVE  Carries(st'[s], st[s])
<1> DEFINE r == st[s]
           c == Fired(s)
<1>0. /\ Good(r) /\ Whole(r) /\ Fit(r) /\ Asks(r) /\ Twin(c, r) /\ Fit(c) /\ Good(c) /\ Whole(c)
      /\ Asks(c)
  <2>1. /\ Good(r) /\ Whole(r) /\ Fit(r) /\ Asks(r) /\ Twin(c, r) /\ Fit(c)
    BY AbleFit, FiredTwin DEF Able, ModeAckGuardOver, ModeReqRetry, TimerUnhandled, InFlow
  <2> HIDE DEF c, r
  <2> QED
    BY <2>1, GoodWhole, TwinAsks DEF Fit
<1>1. CASE ModeAckGuardOver(s)
  <2> DEFINE a == ModeFrame("MODE_ACK", c.session_id, r.peer_tx_mode)
             q == SendControl(c, a)
  <2>1. Become(s, q)
    BY <1>1 DEF ModeAckGuardOver, SendModeNegotiation
  <2>2. Sent(a) /\ a.type = "MODE_ACK"
    BY <1>0, Fields, ModeSent DEF Fit
  <2> HIDE DEF a, c, r
  <2>3. /\ Same(q, c) /\ q.txq = Append(c.txq, Control(a))
        /\ q.conn_state = c.conn_state /\ q.dflow_state = c.dflow_state
        /\ q.pending_tx_mode = c.pending_tx_mode
    BY <1>0, SendControlSame
  <2> HIDE DEF q
  <2>4. FreshControl(a, q) /\ Stays(q, c) /\ (Busy(q) => Active(c)) /\ Asks(q)
    BY <1>0, <2>2, <2>3 DEF FreshControl, Stays, Busy, Active, Asks, Up
  <2>5. Carries(q, c)
    BY <1>0, <2>3, <2>4, CarriesControl
  <2> QED
    BY <1>0, <2>1, <2>5, TwinCarries, CarriedStep DEF r
<1>2. CASE ModeReqRetry(s)
  <2>1. r.dflow_state = "MODE_REQ_WAIT" /\ r.pending_tx_mode \in PayloadModes
    BY <1>0, <1>2 DEF ModeReqRetry, InFlow, Asks, Fit
  <2> DEFINE pa == [r EXCEPT !.tx_retries_left = @ - 1]
             pr == [r EXCEPT !.pending_tx_mode = "none"]
  <2>2. ASSUME NEW p \in {pa, pr}, NEW mode \in PayloadModes,
               Become(s, DflowEnter(SendModeNegotiation(p, "MODE_REQ", mode),
                                    "MODE_REQ_TX", "none"))
        PROVE  Carries(st'[s], st[s])
    <3> DEFINE a == ModeFrame("MODE_REQ", p.session_id, mode)
               m == SendControl(p, a)
               q == DflowEnter(m, "MODE_REQ_TX", "none")
    <3>1. Become(s, q)
      BY <2>2 DEF SendModeNegotiation
    <3>2. Same(p, r) /\ p.txq = r.txq /\ p.conn_state = r.conn_state
      BY <1>0 DEF Same, Whole, SessionFields
    <3>3. Sent(a) /\ a.type = "MODE_REQ"
      BY <1>0, <3>2, ModeSent DEF Fit, Same
    <3> HIDE DEF a, pa, pr, r
    <3>4. Same(m, p) /\ m.txq = Append(p.txq, Control(a)) /\ m.conn_state = p.conn_state
      BY <3>2, SendControlSame DEF Same
    <3> HIDE DEF m
    <3>5. Same(q, m) /\ q.txq = m.txq /\ q.conn_state = m.conn_state
          /\ q.dflow_state = "MODE_REQ_TX"
      BY <3>4, DflowEnterSame DEF Same
    <3> HIDE DEF q
    <3>6. Same(q, r) /\ q.txq = Append(r.txq, Control(a)) /\ Stays(q, r) /\ Up(q)
      BY <1>0, <3>2, <3>4, <3>5 DEF Same, Stays, Up, Fit
    <3>7. FreshControl(a, q) /\ Asks(q) /\ Active(r)
      BY <1>0, <2>1, <3>3, <3>5, <3>6 DEF FreshControl, Asks, Active, Busy, Fit
    <3>8. Carries(q, r)
      BY <1>0, <3>6, <3>7, CarriesControl
    <3> QED
      BY <3>1, <3>8, CarriedStep DEF r
  <2>3. Become(s, DflowEnter(IF r.tx_retries_left > 0
                             THEN SendModeNegotiation(pa, "MODE_REQ", r.pending_tx_mode)
                             ELSE SendModeNegotiation(pr, "MODE_REQ", r.payload_mode),
                             "MODE_REQ_TX", "none"))
    BY <1>2 DEF ModeReqRetry
  <2>4. r.payload_mode \in PayloadModes
    BY <1>0, Fields
  <2> HIDE DEF pa, pr
  <2> QED
    BY <2>1, <2>2, <2>3, <2>4
<1>3. CASE TimerUnhandled(s)
  <2>1. Carries(c, r)
    BY <1>0, TwinDrops, DropsItself
  <2> QED
    BY <1>3, <2>1, CarriedStep DEF TimerUnhandled
<1> QED
  BY <1>1, <1>2, <1>3

LEMMA OnTimerCarries ==
    ASSUME NEW s \in Station, Able(s), OnTimer(s)
    PROVE  Carries(st'[s], st[s])
<1>1. 1 \in BurstSizes /\ SafeMode \in PayloadModes /\ TRUE \in BOOLEAN
  BY ModeAssumption DEF BurstSizes
<1>2. CASE HandleTimer(s)
  BY <1>1, <1>2, CallTimerCarries, StreamTimerCarries, TurnTimerCarries, ModeTimerCarries
  DEF HandleTimer
<1> QED
  BY <1>2, ForcedTeardownCarries DEF OnTimer

LEMMA StillCarries ==
    ASSUME NEW r, Good(r), Asks(r)
    PROVE  Carries(r, r)
  BY GoodWhole, TwinDrops, DropsItself DEF Twin, Same

(* TX_COMPLETE.  Outside a session it sends nothing. *)
LEMMA OnTxCompleteCarries ==
    ASSUME NEW s \in Station, Able(s), OnTxComplete(s)
    PROVE  /\ Carries(st'[s], st[s])
           /\ ~Up(st[s]) => /\ ~Up(st'[s]) /\ st'[s].txq = st[s].txq
                            /\ st'[s].session_id = st[s].session_id
<1> DEFINE r == st[s]
<1>0. /\ Good(r) /\ Whole(r) /\ Asks(r)
      /\ InConn(s, "CONNECTED") => Fit(r) /\ Up(r) /\ Good(r)
  BY AbleFit DEF Able, Fit
<1>1. CASE ForcedTeardown(s)
  BY <1>1, ForcedTeardownCarries DEF ForcedTeardown, Overdue, Up
<1>2. CASE DisconnectedTxComplete(s)
  <2> DEFINE p == [r EXCEPT !.pending_disconnect_notify = FALSE]
  <2>1. Become(s, EndCall(p)) /\ r.conn_state = "DISCONNECTED"
    BY <1>2 DEF DisconnectedTxComplete, InConn
  <2>2. Twin(p, r) /\ Good(p)
    BY <1>0, Keeps DEF Twin, Same, Whole, SessionFields
  <2> HIDE DEF p
  <2>3. Carries(EndCall(p), r)
    BY <2>2, EndCallCarries, TwinCarries
  <2>4. /\ EndCall(p).txq = p.txq /\ EndCall(p).session_id = p.session_id
        /\ ~Up(EndCall(p))
    BY <2>2, GoodWhole, EndCallSame DEF Up
  <2>5. st'[s] = EndCall(p)
    BY <2>1, BecomeIs
  <2> QED
    BY <2>1, <2>2, <2>3, <2>4, <2>5, CarriedStep DEF Twin, Same
<1>3. CASE AcceptingTxComplete(s)
  <2> DEFINE p == [r EXCEPT !.deadline = "TIMER_RETRY"]
  <2>1. Become(s, p) /\ r.conn_state = "ACCEPTING"
    BY <1>3 DEF AcceptingTxComplete, InConn
  <2>2. Twin(p, r) /\ Good(p)
    BY <1>0, Keeps DEF Twin, Same, Whole, SessionFields, TimerEvents
  <2> HIDE DEF p
  <2>3. Carries(p, r)
    BY <1>0, <2>2, TwinDrops, DropsItself
  <2>4. st'[s] = p
    BY <2>1, BecomeIs
  <2>5. ~Up(p) /\ p.txq = r.txq /\ p.session_id = r.session_id
    BY <2>1, <2>2 DEF Twin, Same, Up
  <2> QED
    BY <2>1, <2>3, <2>4, <2>5, CarriedStep
<1>4. ASSUME NEW state \in {"TURN_REQ_WAIT", "KEEPALIVE_WAIT", "IDLE_IRS"}, NEW event,
             InConn(s, "CONNECTED"), Become(s, DflowEnter(r, state, event))
      PROVE  Carries(st'[s], r) /\ Up(r)
  BY <1>0, <1>4, DflowEnterCarries, CarriedStep
<1>5. CASE DataTxComplete(s)
  <2>1. Fit(r) /\ Up(r) /\ Active(r) /\ Become(s, DflowEnter(r, "WAIT_ACK", "TIMER_ACK"))
    BY <1>0, <1>5 DEF DataTxComplete, InFlow, Active, Busy
  <2> QED
    BY <2>1, DflowEnterCarries, CarriedStep
<1>6. CASE TurnReqTxComplete(s) \/ GaveTurnTxComplete(s) \/ KeepaliveTxComplete(s)
  BY <1>4, <1>6
  DEF TurnReqTxComplete, GaveTurnTxComplete, KeepaliveTxComplete, InFlow, EnterIdleIrs
<1>7. ASSUME NEW burst \in BurstSizes, ModeReqTxComplete(s, burst)
      PROVE  Carries(st'[s], r) /\ Up(r)
  <2> DEFINE p == [r EXCEPT !.tx_retries_left = DataSlots]
             w == DflowEnter(r, "MODE_REQ_WAIT", "TIMER_RETRY")
  <2>1. /\ Fit(r) /\ Up(r) /\ r.dflow_state = "MODE_REQ_TX"
        /\ Become(s, IF r.pending_tx_mode # "none" THEN w
                     ELSE IF HasBacklog(p) THEN TransmitGuarded(p)
                     ELSE EnterIdleIss(p, burst))
    BY <1>0, <1>7 DEF ModeReqTxComplete, InFlow
  <2>2. Twin(p, r) /\ Fit(p)
    BY <2>1, SlotsTwin, SlotAssumption
  <2> HIDE DEF p
  <2>3. HasBacklog(p) => Carries(TransmitGuarded(p), r)
    BY <2>2, TransmitGuardedCarries, TwinCarries DEF Active
  <2>4. Carries(EnterIdleIss(p, burst), r)
    BY <2>2, EnterIdleIssCarries, TwinCarries
  <2>5. r.pending_tx_mode # "none" => Carries(w, r)
    <3>1. /\ Same(w, r) /\ w.txq = r.txq /\ w.conn_state = r.conn_state
          /\ w.pending_tx_mode = r.pending_tx_mode
      BY <1>0, DflowEnterSame DEF DflowEnter, Whole, SessionFields
    <3> HIDE DEF w
    <3>2. r.pending_tx_mode # "none" => r.pending_tx_mode \in PayloadModes
      BY <1>0, Fields
    <3>3. Stays(w, r) /\ Active(r) /\ (r.pending_tx_mode # "none" => Asks(w))
      BY <2>1, <3>1, <3>2 DEF Stays, Active, Busy, Asks
    <3> QED
      BY <1>0, <3>1, <3>3, CarriesStill
  <2> HIDE DEF w
  <2> QED
    BY <2>1, <2>3, <2>4, <2>5, CarriedStep
<1>8. ASSUME NEW wanted \in PayloadModes, KeepaliveAckTxComplete(s, wanted)
      PROVE  Carries(st'[s], r) /\ Up(r)
  <2>1. Fit(r) /\ Up(r) /\ Become(s, AfterKeepalive(r, r.keepalive_ack_from_irs, wanted))
    BY <1>0, <1>8 DEF KeepaliveAckTxComplete, InFlow
  <2>2. r.keepalive_ack_from_irs \in BOOLEAN
    BY <1>0, Fields
  <2> QED
    BY <2>1, <2>2, AfterKeepaliveCarries, CarriedStep
<1>9. ASSUME NEW burst \in BurstSizes, NEW wanted \in PayloadModes,
             AckTxComplete(s, burst, wanted)
      PROVE  Carries(st'[s], r) /\ Up(r)
  <2> DEFINE p == [r EXCEPT !.pending_connect_confirm = FALSE]
  <2>1. /\ Fit(r) /\ Up(r)
        /\ Become(s, IF r.pending_connect_confirm
                     THEN IF HasBacklog(p) THEN EnterIdleIssGuarded(p, wanted)
                          ELSE EnterIdleIss(p, burst)
                     ELSE IF ~p.peer_has_data /\ p.acktx_had_has_data
                     THEN EnterIdleIssGuarded(p, wanted)
                     ELSE EnterIdleIrs(p))
    BY <1>0, <1>9 DEF AckTxComplete, InFlow
  <2>2. Twin(p, r) /\ Good(p)
    BY <1>0, Keeps DEF Twin, Same, Whole, SessionFields
  <2> HIDE DEF p
  <2>3. Fit(p)
    BY <2>1, <2>2, TwinFit
  <2>4. /\ Carries(EnterIdleIssGuarded(p, wanted), r) /\ Carries(EnterIdleIss(p, burst), r)
        /\ Carries(EnterIdleIrs(p), r)
    BY <2>2, <2>3, EnterIdleIssGuardedCarries, EnterIdleIssCarries, EnterIdleIrsCarries,
       TwinCarries
  <2> QED
    BY <2>1, <2>4, CarriedStep
<1>10. CASE TxCompleteIgnored(s)
  <2>1. st'[s] = st[s]
    BY <1>10 DEF TxCompleteIgnored
  <2> QED
    BY <1>0, <2>1, StillCarries
<1> QED
  BY <1>1, <1>2, <1>3, <1>5, <1>6, <1>7, <1>8, <1>9, <1>10 DEF OnTxComplete, HandleTxComplete

(* APP_DATA_READY. *)
LEMMA OnDataReadyCarries ==
    ASSUME NEW s \in Station, Able(s), OnDataReady(s)
    PROVE  Carries(st'[s], st[s])
<1> DEFINE r == st[s]
           p == [r EXCEPT !.data_ready = @ - 1]
<1>0. /\ Good(r) /\ Whole(r) /\ Asks(r)
      /\ InConn(s, "CONNECTED") => Fit(r)
  BY AbleFit DEF Able
<1>1. Twin(p, r) /\ Good(p)
  <2>1. r.data_ready - 1 \in Nat
    BY <1>0, Fields DEF OnDataReady
  <2> QED
    BY <1>0, <2>1, Keeps DEF Twin, Same, Whole, SessionFields
<1>2. InConn(s, "CONNECTED") => Fit(p)
  BY <1>0, <1>1, TwinFit
<1>3. CASE Become(s, StartDisconnect(p)) /\ Overdue(r)
  <2> HIDE DEF p
  <2>1. Up(p)
    BY <1>1, <1>3 DEF Overdue, Twin, Up
  <2> QED
    BY <1>1, <1>3, <2>1, StartDisconnectCarries, TwinCarries, CarriedStep
<1>4. ASSUME NEW burst \in BurstSizes, IdleIssDataReady(s, burst)
      PROVE  Carries(st'[s], r)
  <2> DEFINE g == [p EXCEPT !.need_initial_guard = FALSE]
  <2>1. /\ Become(s, IF p.need_initial_guard THEN TransmitGuarded(g) ELSE TransmitNow(p, burst))
        /\ Fit(p) /\ HasBacklog(r)
    BY <1>2, <1>4 DEF IdleIssDataReady, InFlow
  <2> HIDE DEF p
  <2>2. Twin(g, p) /\ Good(g)
    BY <1>1, Keeps DEF Twin, Same, Whole, SessionFields
  <2> HIDE DEF g
  <2>3. Active(p) /\ Active(g) /\ Fit(g)
    BY <1>1, <2>1, <2>2, TwinFit, TwinActive DEF Active
  <2>4. Carries(TransmitGuarded(g), p) /\ Carries(TransmitNow(p, burst), p)
    BY <2>1, <2>2, <2>3, TransmitGuardedCarries, TransmitNowCarries, TwinCarries
  <2> QED
    BY <1>1, <2>1, <2>4, TwinCarries, CarriedStep
<1>5. CASE IdleIrsDataReady(s)
  <2> DEFINE t == [p EXCEPT !.tx_retries_left = TurnReqRetries]
  <2>1. Become(s, SendTurnReq(t)) /\ Fit(p)
    BY <1>2, <1>5 DEF IdleIrsDataReady, InFlow
  <2> HIDE DEF p
  <2>2. Twin(t, p) /\ Fit(t)
    BY <2>1, SlotsTwin, SlotAssumption
  <2> HIDE DEF t
  <2>3. Carries(SendTurnReq(t), p)
    BY <2>2, SendTurnReqCarries, TwinCarries
  <2> QED
    BY <1>1, <2>1, <2>3, TwinCarries, CarriedStep
<1>6. CASE DataReadyIgnored(s)
  <2> HIDE DEF p
  <2>1. Carries(p, r)
    BY <1>0, <1>1, TwinDrops, DropsItself
  <2> QED
    BY <1>6, <2>1, CarriedStep DEF DataReadyIgnored, p
<1> QED
  BY <1>3, <1>4, <1>5, <1>6 DEF OnDataReady, HandleDataReady

LEMMA DrainDeadlinePassesCarries ==
    ASSUME NEW s \in Station, Able(s), DrainDeadlinePasses(s)
    PROVE  Carries(st'[s], st[s]) /\ st'[s].txq = st[s].txq
<1> DEFINE r == st[s]
           p == [r EXCEPT !.pending_disconnect = "overdue"]
<1>0. /\ Good(r) /\ Whole(r) /\ Asks(r)
  BY AbleFit DEF Able
<1>1. Twin(p, r) /\ Good(p)
  BY <1>0, Keeps DEF Twin, Same, Whole, SessionFields
<1>2. Become(s, p)
  BY DEF DrainDeadlinePasses
<1> HIDE DEF p
<1>3. Carries(st'[s], r)
  BY <1>0, <1>1, <1>2, TwinDrops, DropsItself, CarriedStep
<1> QED
  BY <1>1, <1>2, <1>3, BecomeIs DEF Twin

(* The transmitter takes an action from the queue. *)

LEMMA RemoveAtFrom ==
    ASSUME NEW S, NEW q \in Seq(S), NEW k \in 1 .. Len(q)
    PROVE  \A i \in 1 .. Len(RemoveAt(q, k)) :
              \E j \in 1 .. Len(q) : RemoveAt(q, k)[i] = q[j]
<1> DEFINE a == SubSeq(q, 1, k - 1)
           b == SubSeq(q, k + 1, Len(q))
<1>1. Len(q) \in Nat /\ k \in Nat /\ k >= 1
  OBVIOUS
<1>2. /\ a \in Seq(S) /\ Len(a) = k - 1
      /\ \A i \in 1 .. Len(a) : a[i] = q[i] /\ i \in 1 .. Len(q)
  BY <1>1
<1>3. /\ b \in Seq(S) /\ Len(b) = Len(q) - k
      /\ \A i \in 1 .. Len(b) : b[i] = q[k + i] /\ k + i \in 1 .. Len(q)
  BY <1>1
<1>4. RemoveAt(q, k) = a \o b
  BY DEF RemoveAt
<1> HIDE DEF a, b
<1>a. a \in Seq(S) /\ b \in Seq(S)
  BY <1>2, <1>3
<1>5. \A i \in 1 .. Len(a \o b) :
         (a \o b)[i] = IF i <= Len(a) THEN a[i] ELSE b[i - Len(a)]
  BY <1>a
<1>6. Len(a) \in Nat /\ Len(b) \in Nat /\ Len(a \o b) = Len(a) + Len(b)
  BY <1>a
<1> SUFFICES ASSUME NEW i \in 1 .. Len(a \o b) PROVE \E j \in 1 .. Len(q) : (a \o b)[i] = q[j]
  BY <1>4
<1>7. CASE i <= Len(a)
  <2>1. i \in 1 .. Len(a)
    BY <1>6, <1>7
  <2> QED
    BY <1>2, <1>5, <1>7, <2>1
<1>8. CASE ~ (i <= Len(a))
  <2>1. i - Len(a) \in 1 .. Len(b)
    BY <1>6, <1>8
  <2> QED
    BY <1>3, <1>5, <1>8, <2>1
<1> QED
  BY <1>7, <1>8

LEMMA TxStartCarries ==
    ASSUME NEW s \in Station, Able(s), TxStart(s)
    PROVE  /\ Carries(st'[s], st[s]) /\ Actions(st'[s]) \subseteq Actions(st[s])
           /\ \E b \in Actions(st[s]) : onair' = [onair EXCEPT ![s] = b.frames]
           /\ onair[s] = <<>>
<1> DEFINE r == st[s]
           k == NextAction(r.txq)
           b == r.txq[k]
           queue == RemoveAt(r.txq, k)
<1>0. /\ Good(r) /\ Whole(r) /\ Asks(r) /\ r.txq \in Seq(Burst)
  BY AbleFit, Fields DEF Able
<1>1. r.txq # <<>> /\ onair[s] = <<>> /\ onair' = [onair EXCEPT ![s] = b.frames]
  BY DEF TxStart
<1>2. k \in 1 .. Len(r.txq)
  BY <1>0, <1>1, NextActionInQueue
<1>3. b \in Actions(r) /\ b \in Burst
  BY <1>0, <1>2 DEF Actions
<1>4. PICK mode \in RecordedModes(r, b) :
         LET p == [r EXCEPT !.txq = queue, !.payload_mode = mode]
         IN  Become(s, IF Overdue(p) THEN StartDisconnect(p) ELSE p)
  BY DEF TxStart
<1>5. queue \in Seq(Burst) /\ \A i \in 1 .. Len(queue) : \E j \in 1 .. Len(r.txq) : queue[i] = r.txq[j]
  BY <1>0, <1>2, RemoveAtType, RemoveAtFrom
<1> HIDE DEF b, queue, k
<1>6. mode \in PayloadModes
  <2>1. b.control \/ b.frames[1].mode \in PayloadModes
    BY <1>3 DEF Burst
  <2>2. r.payload_mode \in PayloadModes
    BY <1>0, Fields
  <2> QED
    BY <1>4, <2>1, <2>2 DEF RecordedModes
<1> DEFINE p == [r EXCEPT !.txq = queue, !.payload_mode = mode]
<1>7. Become(s, IF Overdue(p) THEN StartDisconnect(p) ELSE p)
  BY <1>4
<1>8. /\ Whole(p) /\ p.txq = queue
      /\ p.conn_state = r.conn_state /\ p.dflow_state = r.dflow_state
      /\ p.pending_tx_mode = r.pending_tx_mode
      /\ p.session_id = r.session_id /\ p.written = r.written /\ p.backlog = r.backlog
      /\ p.txlog = r.txlog /\ p.rxlog = r.rxlog /\ p.tx_window = r.tx_window
  BY <1>0 DEF Whole, SessionFields
<1>9. Good(p)
  BY <1>0, <1>5, <1>6, Keeps
<1> HIDE DEF p
<1>10. Actions(p) \subseteq Actions(r)
  BY <1>5, <1>8 DEF Actions
<1>11. Drops(p, r)
  <2>1. Load(p) = Load(r) /\ Load(r) \in Nat
    BY <1>0, <1>8, LoadType DEF Load
  <2> QED
    BY <1>8, <1>10, <2>1 DEF Drops, HasBacklog
<1>12. Carries(p, r)
  BY <1>0, <1>9, <1>11, DropsItself
<1>13. Overdue(p) => Carries(StartDisconnect(p), r)
  BY <1>9, <1>11, StartDisconnectCarries, StartDisconnectGood, DropsCarries DEF Overdue, Up
<1>14. Carries(st'[s], r)
  BY <1>7, <1>12, <1>13, CarriedStep
<1>15. StartDisconnect(p).txq = p.txq
  BY <1>8, StartDisconnectSame
<1>16. st'[s] \in {p, StartDisconnect(p)}
  BY <1>7, BecomeIs
<1>17. Actions(st'[s]) \subseteq Actions(r)
  BY <1>10, <1>15, <1>16 DEF Actions
<1> QED
  BY <1>1, <1>3, <1>14, <1>17

(* The application's data: one unit more is to be sent. *)
Wrote(r, q) ==
    /\ Good(q)
    /\ q.conn_state = r.conn_state /\ q.session_id = r.session_id /\ q.txq = r.txq
    /\ q.dflow_state = r.dflow_state /\ q.pending_tx_mode = r.pending_tx_mode
    /\ q.txlog = r.txlog /\ q.rxlog = r.rxlog /\ q.tx_window = r.tx_window
    /\ q.written = r.written + 1 /\ Load(q) = Load(r) + 1

LEMMA HostWriteMoves ==
    ASSUME NEW s \in Station, Able(s), HostWrite(s)
    PROVE  Wrote(st[s], st'[s]) /\ st[s].written < MaxUnits[s]
<1> DEFINE r == st[s]
           q == [r EXCEPT !.written = @ + 1, !.backlog = Append(@, r.written + 1),
                          !.data_ready = @ + 1]
<1>1. Good(r) /\ Whole(r)
  BY AbleFit
<1>2. Become(s, q) /\ r.written < MaxUnits[s]
  BY DEF HostWrite
<1>3. st'[s] = q /\ Good(q)
  BY <1>2, BecomeIs
<1>4. /\ q.conn_state = r.conn_state /\ q.session_id = r.session_id /\ q.txq = r.txq
      /\ q.dflow_state = r.dflow_state /\ q.pending_tx_mode = r.pending_tx_mode
      /\ q.txlog = r.txlog /\ q.rxlog = r.rxlog /\ q.tx_window = r.tx_window
      /\ q.written = r.written + 1 /\ q.backlog = Append(r.backlog, r.written + 1)
  BY <1>1 DEF Whole, SessionFields
<1> HIDE DEF q
<1>5. Load(q) = Load(r) + 1
  <2>1. r.backlog \in Seq(Nat) /\ r.txlog \in Seq(Nat) /\ r.written + 1 \in Nat
    BY <1>1, Fields
  <2>2. Len(Append(r.backlog, r.written + 1)) = Len(r.backlog) + 1
    BY <2>1
  <2>3. Len(r.backlog) \in Nat /\ Len(r.txlog) \in Nat
    BY <2>1
  <2>4. \A m, n \in Nat : m + (n + 1) = m + n + 1
    OBVIOUS
  <2> QED
    BY <1>4, <2>2, <2>3, <2>4 DEF Load
<1> QED
  BY <1>2, <1>3, <1>4, <1>5 DEF Wrote

-----------------------------------------------------------------------------
(* Who may send data.  While a burst is one frame, one side of a session at *)
(* most has data in hand or may come to have some without a frame of the    *)
(* peer's that gives it the turn; the exceptions are what follows a lost    *)
(* ACK.  Turns(r, q, f) says what a step may do about that.                 *)

\* A window on its way.
InHand(r) == r.dflow_state \in {"DATA_TX", "WAIT_ACK"} /\ r.tx_window # <<>>

\* A sender, or a state that only a sender's steps lead to and back.
HasTurn(r) ==
    \/ r.dflow_state \in {"IDLE_ISS", "DATA_TX", "WAIT_ACK", "MODE_REQ_TX", "MODE_REQ_WAIT"}
    \/ r.dflow_state = "KEEPALIVE_ACK_TX" /\ ~r.keepalive_ack_from_irs
    \/ r.dflow_state = "ACK_TX" /\ r.pending_connect_confirm

\* A station that is, or becomes without being told, a sender.
MayTake(r) ==
    \/ HasTurn(r)
    \/ r.dflow_state = "DATA_RX" /\ ~r.peer_has_data
    \/ r.dflow_state = "ACK_TX" /\ ~r.peer_has_data /\ r.acktx_had_has_data

\* The caller's first ACK is still to be sent.
Confirming(r) == r.pending_connect_confirm /\ r.deadline = "TIMER_ACK"

Poised(r) ==
    /\ r.pending_connect_confirm => Up(r) /\ r.dflow_state = "ACK_TX"
    /\ Up(r) =>
          /\ r.dflow_state \in {"KEEPALIVE_TX", "KEEPALIVE_WAIT"} => r.keepalive_from_irs
          /\ r.dflow_state \in {"MODE_REQ_TX", "MODE_REQ_WAIT"} => r.tx_window = <<>>

\* f brought a unit.
Brings(r, q, f) == f.type = "DATA" /\ q.rxlog # (IF Up(r) THEN r.rxlog ELSE <<>>)

\* q has in hand what r has.
Holds(q, r) == InHand(q) /\ q.tx_window = r.tx_window /\ q.txlog = r.txlog

(* What a station that has the turn, or has not, puts into its queue. *)
UttersControl(r, q, g) ==
    /\ g.type \notin {"ACCEPT", "DATA"}
    /\ g.type = "MODE_REQ" => HasTurn(q) /\ q.tx_window = <<>>
    /\ g.type = "TURN_ACK" => ~MayTake(q)
    /\ g.type = "ACK" => g.has_data \/ ~MayTake(q) \/ (Confirming(r) /\ q.rxlog = r.rxlog)
    /\ Up(r) /\ InHand(r) => r.txq = <<>>

Adds(r, q) ==
    \/ q.txq \in {r.txq, <<>>}
    \/ \E g : q.txq = Append(r.txq, Control(g)) /\ UttersControl(r, q, g)
    \/ \E b : ~b.control /\ r.txq = <<>> /\ q.txq = Append(<<>>, b) /\ InHand(q)

Turns(r, q, f) ==
    /\ Poised(q)
    /\ Up(q) =>
          /\ MayTake(q) =>
                \/ Up(r) /\ MayTake(r)
                \/ f.type \in {"TURN_ACK", "ACCEPT"}
                \/ Brings(r, q, f)
          /\ Confirming(q) => (Up(r) /\ Confirming(r)) \/ f.type = "ACCEPT"
          /\ Adds(r, q)
    /\ Up(r) /\ Up(q) =>
          /\ f = NoFrame /\ HasTurn(r) => HasTurn(q)
          /\ Confirming(q) => q.rxlog = r.rxlog
          /\ InHand(r) =>
                \/ Holds(q, r)
                \/ f # NoFrame /\ ~MayTake(q)
                \/ f.type = "ACK" /\ ~f.has_data
                \/ Brings(r, q, f)

-----------------------------------------------------------------------------
(* Helpers *)

\* q and r are alike but for the data flow.
Rest(q, r) ==
    /\ Whole(q)
    /\ q.conn_state = r.conn_state
    /\ q.pending_connect_confirm = r.pending_connect_confirm
    /\ q.peer_has_data = r.peer_has_data
    /\ q.acktx_had_has_data = r.acktx_had_has_data
    /\ q.keepalive_from_irs = r.keepalive_from_irs
    /\ q.keepalive_ack_from_irs = r.keepalive_ack_from_irs
    /\ q.rxlog = r.rxlog

Kept(q, r) == Rest(q, r) /\ q.tx_window = r.tx_window /\ q.txlog = r.txlog

Flows(q, r) == q.dflow_state = r.dflow_state /\ q.deadline = r.deadline

AsBefore(q, r) == Kept(q, r) /\ Flows(q, r) /\ q.txq = r.txq

Gone(q) == ~Up(q) /\ ~q.pending_connect_confirm

LEMMA KeptOn == ASSUME NEW r, NEW p, NEW q, Kept(p, r), Kept(q, p) PROVE Kept(q, r)
  BY DEF Kept, Rest

LEMMA DflowEnterKept ==
    ASSUME NEW r, Whole(r), NEW state, NEW event
    PROVE  LET q == DflowEnter(r, state, event)
           IN  /\ Kept(q, r) /\ q.txq = r.txq
               /\ q.dflow_state = state /\ q.deadline = event
  BY DEF DflowEnter, Kept, Rest, Whole, SessionFields

LEMMA SendControlKept ==
    ASSUME NEW r, Whole(r), NEW f
    PROVE  LET q == SendControl(r, f)
           IN  Kept(q, r) /\ Flows(q, r) /\ q.txq = Append(r.txq, Control(f))
  BY DEF SendControl, Control, Kept, Rest, Flows, Whole, SessionFields

LEMMA SendCtrlFrameKept ==
    ASSUME NEW r, Whole(r), NEW type
    PROVE  LET q == SendCtrlFrame(r, type)
           IN  /\ Kept(q, r) /\ Flows(q, r)
               /\ \E f : f.type = type /\ q.txq = Append(r.txq, Control(f))
<1>1. PlainFrame(type, r.session_id).type = type
  BY DEF PlainFrame
<1> QED
  BY <1>1, SendControlKept DEF SendCtrlFrame

LEMMA SendAckKept ==
    ASSUME NEW r, Whole(r)
    PROVE  LET q == SendAck(r)
           IN  /\ Kept(q, r) /\ Flows(q, r)
               /\ \E f : /\ f.type = "ACK" /\ f.has_data = HasBacklog(r)
                         /\ q.txq = Append(r.txq, Control(f))
<1> DEFINE f == AckFrame(r.session_id, r.rx_expected % SeqSpace, HasBacklog(r))
<1>1. f.type = "ACK" /\ f.has_data = HasBacklog(r)
  BY DEF AckFrame, PlainFrame
<1> HIDE DEF f
<1> QED
  BY <1>1, SendControlKept DEF SendAck, f

LEMMA SendModeNegotiationKept ==
    ASSUME NEW r, Whole(r), NEW type, NEW mode
    PROVE  LET q == SendModeNegotiation(r, type, mode)
           IN  /\ Kept(q, r) /\ Flows(q, r)
               /\ \E f : f.type = type /\ q.txq = Append(r.txq, Control(f))
<1>1. ModeFrame(type, r.session_id, mode).type = type
  BY DEF ModeFrame, PlainFrame
<1> QED
  BY <1>1, SendControlKept DEF SendModeNegotiation

LEMMA SessEnterGone ==
    ASSUME NEW r, Whole(r), NEW state, state # "CONNECTED", NEW event
    PROVE  Gone(SessEnter(r, state, event))
  BY DEF SessEnter, Gone, Up, Whole, SessionFields

LEMMA StartDisconnectGone == ASSUME NEW r, Whole(r) PROVE Gone(StartDisconnect(r))
<1>1. Whole([r EXCEPT !.pending_disconnect = "no", !.tx_retries_left = DisconnectSlots])
  BY DEF Whole, SessionFields
<1> QED
  BY <1>1, SessEnterGone DEF StartDisconnect

LEMMA EndCallGone == ASSUME NEW r, Whole(r) PROVE Gone(EndCall(r))
<1>1. Whole(NotifyDisconnected(r))
  BY DEF NotifyDisconnected, Whole, SessionFields
<1> QED
  BY <1>1, SessEnterGone DEF EndCall, EnterIdleAfterCall


\* The three ways to go on as a sender: in DATA_TX behind a guard, with a mode
\* request, idle; or the session is over.
Sends(q, r) ==
    \/ Gone(q)
    \/ /\ Kept(q, r)
       /\ \/ q.dflow_state \in {"DATA_TX", "IDLE_ISS"} /\ q.txq = r.txq
          \/ /\ q.dflow_state = "MODE_REQ_TX" /\ q.tx_window = <<>>
             /\ \E f : f.type = "MODE_REQ" /\ q.txq = Append(r.txq, Control(f))

LEMMA TransmitGuardedKept ==
    ASSUME NEW r, Whole(r)
    PROVE  LET q == TransmitGuarded(r)
           IN  Kept(q, r) /\ q.dflow_state = "DATA_TX" /\ q.txq = r.txq
  BY DflowEnterKept DEF TransmitGuarded

LEMMA StartModeReqKept ==
    ASSUME NEW r, Whole(r), NEW wanted
    PROVE  LET q == StartModeReq(r, wanted)
           IN  /\ Kept(q, r) /\ q.dflow_state = "MODE_REQ_TX"
               /\ \E f : f.type = "MODE_REQ" /\ q.txq = Append(r.txq, Control(f))
<1> DEFINE p == [r EXCEPT !.pending_tx_mode = wanted, !.tx_retries_left = ModeReqRetries]
           m == SendModeNegotiation(p, "MODE_REQ", wanted)
           q == DflowEnter(m, "MODE_REQ_TX", "none")
<1>1. AsBefore(p, r)
  BY DEF AsBefore, Kept, Flows, Rest, Whole, SessionFields
<1> HIDE DEF p
<1>2. Kept(m, p) /\ \E f : f.type = "MODE_REQ" /\ m.txq = Append(p.txq, Control(f))
  BY <1>1, SendModeNegotiationKept DEF AsBefore, Kept, Rest
<1> HIDE DEF m
<1>3. Kept(q, m) /\ q.txq = m.txq /\ q.dflow_state = "MODE_REQ_TX"
  BY <1>2, DflowEnterKept DEF Kept, Rest
<1>4. q = StartModeReq(r, wanted)
  BY DEF StartModeReq, q, m, p
<1> HIDE DEF q
<1>5. Kept(q, r)
  BY <1>1, <1>2, <1>3, KeptOn DEF AsBefore
<1> QED
  BY <1>1, <1>2, <1>3, <1>4, <1>5 DEF AsBefore

LEMMA SlotsAsBefore ==
    ASSUME NEW r, Whole(r), NEW n
    PROVE  AsBefore([r EXCEPT !.tx_retries_left = n], r)
  BY DEF AsBefore, Kept, Flows, Rest, Whole, SessionFields

LEMMA SendsOn == ASSUME NEW r, NEW p, NEW q, AsBefore(p, r), Sends(q, p) PROVE Sends(q, r)
  BY KeptOn DEF Sends, AsBefore

LEMMA EnterIdleIssGuardedSends ==
    ASSUME NEW r, Whole(r), NEW wanted
    PROVE  Sends(EnterIdleIssGuarded(r, wanted), r)
<1> DEFINE p == [r EXCEPT !.tx_retries_left = DataSlots]
<1>1. AsBefore(p, r) /\ Whole(p)
  BY SlotsAsBefore DEF AsBefore, Kept, Rest
<1>2. EnterIdleIssGuarded(r, wanted) =
         IF HasBacklog(r) /\ UpgradeStarts(r, wanted) THEN StartModeReq(r, wanted)
         ELSE IF HasBacklog(r) THEN TransmitGuarded(p)
         ELSE IF r.pending_disconnect # "no" THEN StartDisconnect(r)
         ELSE DflowEnter(p, "IDLE_ISS", "none")
  BY DEF EnterIdleIssGuarded
<1> HIDE DEF p
<1>3. UpgradeStarts(r, wanted) => Sends(StartModeReq(r, wanted), r)
  <2>1. ASSUME UpgradeStarts(r, wanted) PROVE Sends(StartModeReq(r, wanted), r)
    <3>1. r.tx_window = <<>>
      BY <2>1 DEF UpgradeStarts
    <3> QED
      BY <3>1, StartModeReqKept DEF Sends, Kept
  <2> QED
    BY <2>1
<1>4. Sends(TransmitGuarded(p), p) /\ Sends(DflowEnter(p, "IDLE_ISS", "none"), p)
  BY <1>1, TransmitGuardedKept, DflowEnterKept DEF Sends
<1>5. Sends(StartDisconnect(r), r)
  BY StartDisconnectGone DEF Sends
<1> QED
  BY <1>1, <1>2, <1>3, <1>4, <1>5, SendsOn

\* With nothing to send it only goes idle.
LEMMA EnterIdleIssSends ==
    ASSUME NEW r, Whole(r), NEW burst, ~HasBacklog(r)
    PROVE  Sends(EnterIdleIss(r, burst), r)
<1> DEFINE p == [r EXCEPT !.tx_retries_left = DataSlots]
<1>1. AsBefore(p, r) /\ Whole(p)
  BY SlotsAsBefore DEF AsBefore, Kept, Rest
<1>2. EnterIdleIss(r, burst) =
         IF r.pending_disconnect # "no" THEN StartDisconnect(r)
         ELSE DflowEnter(p, "IDLE_ISS", "none")
  BY DEF EnterIdleIss
<1> HIDE DEF p
<1>3. Sends(DflowEnter(p, "IDLE_ISS", "none"), r)
  BY <1>1, DflowEnterKept, SendsOn DEF Sends
<1>4. Sends(StartDisconnect(r), r)
  BY StartDisconnectGone DEF Sends
<1> QED
  BY <1>2, <1>3, <1>4

\* The window is sent, a new one when there was none.
Fires(q, r) ==
    /\ Rest(q, r)
    /\ r.tx_window # <<>> => q.tx_window = r.tx_window /\ q.txlog = r.txlog
    /\ \/ Kept(q, r) /\ q.txq = r.txq /\ r.tx_window = <<>>
       \/ q.tx_window # <<>> /\ \E b : ~b.control /\ q.txq = Append(r.txq, b)

LEMMA SendDataBurstFires ==
    ASSUME BurstFrames = 1, NEW r, Good(r), NEW burst \in BurstSizes
    PROVE  LET q == SendDataBurst(r, burst) IN Fires(q, r) /\ Flows(q, r)
<1> DEFINE n == FreshCount(r, burst)
           fresh == [i \in 1 .. n |-> [seq |-> r.tx_seq + i - 1, unit |-> r.backlog[i]]]
           w == r.tx_window \o fresh
           taken == SubSeq(r.backlog, 1, n)
           rest == SubSeq(r.backlog, n + 1, Len(r.backlog))
           q == SendDataBurst(r, burst)
<1>1. /\ r.tx_window \in Seq(Slot) /\ r.backlog \in Seq(Nat)
      /\ r.txlog \in Seq(Nat) /\ Whole(r) /\ Len(r.tx_window) <= 1 /\ r.tx_seq \in Nat
  BY Fields, GoodWhole DEF Good, WindowOf
<1>2. CASE w = <<>>
  <2>1. q = r /\ r.tx_window = <<>>
    <3>1. q = r
      BY <1>2 DEF SendDataBurst
    <3>2. Len(w) = Len(r.tx_window) + n /\ n \in Nat
      BY <1>1, FreshCountBound, FreshWindow
    <3> DEFINE k == Len(r.tx_window)
    <3>3. k \in Nat /\ Len(w) = k + n
      BY <1>1, <3>2
    <3> HIDE DEF n, w, k
    <3>4. Len(w) = 0
      BY <1>2
    <3>5. k = 0
      BY <3>2, <3>3, <3>4
    <3>6. Len(r.tx_window) = 0
      BY <3>5 DEF k
    <3> QED
      BY <1>1, <3>1, <3>6
  <2> QED
    BY <1>1, <2>1 DEF Fires, Flows, Kept, Rest
<1>3. CASE w # <<>>
  <2>1. /\ Rest(q, r) /\ Flows(q, r)
        /\ q.tx_window = w /\ q.txlog = r.txlog \o taken
        /\ q.txq = Append(r.txq, WindowBurst(r, w))
    BY <1>1, <1>3 DEF SendDataBurst, Rest, Flows, Whole, SessionFields
  <2>2. ~ WindowBurst(r, w).control
    BY DEF WindowBurst
  <2>3. ASSUME r.tx_window # <<>>
        PROVE  w = r.tx_window /\ r.txlog \o taken = r.txlog
    <3>1. n = 0
      <4>1. Len(r.tx_window) = 1
        <5>1. \A t \in Seq(Slot) : t # <<>> => Len(t) \in Nat /\ Len(t) > 0
          OBVIOUS
        <5> DEFINE k == Len(r.tx_window)
        <5>2. k \in Nat /\ k > 0 /\ k <= 1
          BY <1>1, <2>3, <5>1
        <5> HIDE DEF k
        <5>3. k = 1
          BY <5>2
        <5> QED
          BY <5>3 DEF k
      <4>2. burst = 1
        BY DEF BurstSizes
      <4>3. Len(r.backlog) \in Nat
        BY <1>1
      <4> QED
        BY <4>1, <4>2, <4>3 DEF FreshCount
    <3>2. fresh = <<>> /\ taken = <<>>
      BY <3>1
    <3> HIDE DEF fresh, taken
    <3> QED
      BY <1>1, <3>2
  <2> HIDE DEF w, taken, q
  <2>4. q.tx_window # <<>>
    BY <1>3, <2>1
  <2> QED
    BY <2>1, <2>2, <2>3, <2>4 DEF Fires, q
<1> QED
  BY <1>2, <1>3

LEMMA TransmitNowFires ==
    ASSUME BurstFrames = 1, NEW r, Good(r), NEW burst \in BurstSizes
    PROVE  LET q == TransmitNow(r, burst)
           IN  Fires(q, r) /\ q.dflow_state = "DATA_TX" /\ q.deadline = "none"
<1> DEFINE p == DflowEnter(r, "DATA_TX", "none")
           q == SendDataBurst(p, burst)
<1>1. Kept(p, r) /\ p.txq = r.txq /\ p.dflow_state = "DATA_TX" /\ p.deadline = "none"
  BY GoodWhole, DflowEnterKept
<1>2. Good(p)
  BY DflowEnterGood DEF DflowStates
<1> HIDE DEF p
<1>3. Fires(q, p) /\ Flows(q, p)
  BY <1>2, SendDataBurstFires
<1> HIDE DEF q
<1>4. Rest(q, r)
  BY <1>1, <1>3 DEF Fires, Kept, Rest
<1>5. Fires(q, r) /\ q.dflow_state = "DATA_TX" /\ q.deadline = "none"
  BY <1>1, <1>3, <1>4, KeptOn DEF Fires, Flows, Kept
<1> QED
  BY <1>5 DEF TransmitNow, q, p

LEMMA EnterIdleIrsKept ==
    ASSUME NEW r, Whole(r)
    PROVE  LET q == EnterIdleIrs(r)
           IN  Kept(q, r) /\ q.dflow_state = "IDLE_IRS" /\ q.txq = r.txq
  BY DflowEnterKept DEF EnterIdleIrs

LEMMA SpeakAndEnterKept ==
    ASSUME NEW r, Whole(r), NEW type, NEW state, NEW event
    PROVE  LET q == DflowEnter(SendCtrlFrame(r, type), state, event)
           IN  /\ Kept(q, r) /\ q.dflow_state = state /\ q.deadline = event
               /\ \E f : f.type = type /\ q.txq = Append(r.txq, Control(f))
<1> DEFINE m == SendCtrlFrame(r, type)
           q == DflowEnter(m, state, event)
<1>1. Kept(m, r) /\ \E f : f.type = type /\ m.txq = Append(r.txq, Control(f))
  BY SendCtrlFrameKept
<1> HIDE DEF m
<1>2. Kept(q, m) /\ q.txq = m.txq /\ q.dflow_state = state /\ q.deadline = event
  BY <1>1, DflowEnterKept DEF Kept, Rest
<1> HIDE DEF q
<1>3. Kept(q, r)
  BY <1>1, <1>2, KeptOn
<1>4. \E f : f.type = type /\ q.txq = Append(r.txq, Control(f))
  BY <1>1, <1>2
<1> QED
  BY <1>2, <1>3, <1>4 DEF q, m

\* A unit that is new is delivered.
LEMMA ReceiveDataKept ==
    ASSUME NEW r, Whole(r), r.rxlog \in Seq(Nat), NEW f
    PROVE  LET q == ReceiveData(r, f)
           IN  /\ Whole(q) /\ q.conn_state = r.conn_state
               /\ q.pending_connect_confirm = r.pending_connect_confirm
               /\ q.dflow_state = "DATA_RX" /\ q.txq = r.txq
               /\ q.peer_has_data \/ q.rxlog # r.rxlog
               /\ IsNew(r, f) => q.rxlog # r.rxlog
<1> DEFINE d == DeliverRxChecked(r, f)
           held == ~IsNew(r, f)
           e == [d EXCEPT !.peer_tx_mode = f.mode, !.peer_has_data = held]
           q == DflowEnter(e, "DATA_RX", "TIMER_ACK")
<1>1. /\ Whole(d) /\ d.conn_state = r.conn_state
      /\ d.pending_connect_confirm = r.pending_connect_confirm /\ d.txq = r.txq
      /\ held \/ d.rxlog = Append(r.rxlog, f.unit)
  <2>1. CASE IsNew(r, f)
    BY <2>1 DEF DeliverRxChecked, Whole, SessionFields
  <2>2. CASE ~IsNew(r, f)
    BY <2>2 DEF DeliverRxChecked
  <2> QED
    BY <2>1, <2>2
<1>2. q = ReceiveData(r, f)
  BY DEF ReceiveData
<1> HIDE DEF d, held
<1>3. /\ Whole(e) /\ e.conn_state = d.conn_state
      /\ e.pending_connect_confirm = d.pending_connect_confirm
      /\ e.txq = d.txq /\ e.rxlog = d.rxlog /\ e.peer_has_data = held
  BY <1>1 DEF Whole, SessionFields
<1> HIDE DEF e
<1>4. Kept(q, e) /\ q.txq = e.txq /\ q.dflow_state = "DATA_RX"
  BY <1>3, DflowEnterKept
<1> HIDE DEF q
<1>5. held \/ q.rxlog # r.rxlog
  <2>1. Append(r.rxlog, f.unit) # r.rxlog
    <3>1. Len(Append(r.rxlog, f.unit)) = Len(r.rxlog) + 1 /\ Len(r.rxlog) \in Nat
      OBVIOUS
    <3> QED
      BY <3>1
  <2> QED
    BY <1>1, <1>3, <1>4, <2>1 DEF Kept, Rest
<1>6. q.peer_has_data = held
  BY <1>3, <1>4 DEF Kept, Rest
<1>7. IsNew(r, f) => q.rxlog # r.rxlog
  BY <1>5 DEF held
<1> QED
  BY <1>1, <1>2, <1>3, <1>4, <1>5, <1>6, <1>7 DEF Kept, Rest

-----------------------------------------------------------------------------
(* Kinds of steps *)

LEMMA GoneTurns == ASSUME NEW r, NEW q, Gone(q), NEW f PROVE Turns(r, q, f)
  BY DEF Turns, Gone, Poised

LEMMA AsBeforeTurns ==
    ASSUME NEW r, Poised(r), NEW q, Kept(q, r), Flows(q, r), q.txq \in {r.txq, <<>>}, NEW f
    PROVE  Turns(r, q, f)
  BY DEF Turns, Adds, Kept, Flows, Rest, Poised, Up, MayTake, HasTurn, Confirming, Holds, InHand

LEMMA SpeaksTurns ==
    ASSUME NEW r, Poised(r), NEW q, Kept(q, r), Flows(q, r), NEW f,
           NEW g, q.txq = Append(r.txq, Control(g)), UttersControl(r, q, g)
    PROVE  Turns(r, q, f)
<1>1. Adds(r, q)
  BY DEF Adds
<1> QED
  BY <1>1 DEF Turns, Kept, Flows, Rest, Poised, Up, MayTake, HasTurn, Confirming, Holds, InHand

\* The turn is the peer's, or its frame takes it.
LEMMA YieldsTurns ==
    ASSUME NEW r, NEW q, Poised(q), ~MayTake(q), ~q.pending_connect_confirm, Adds(r, q),
           NEW f, f # NoFrame \/ ~HasTurn(r)
    PROVE  Turns(r, q, f)
<1>1. InHand(r) => HasTurn(r)
  BY DEF InHand, HasTurn
<1> QED
  BY <1>1 DEF Turns, Confirming

\* It goes on as a sender.
LEMMA SendsTurns ==
    ASSUME NEW r, NEW p, p.txq = r.txq, ~p.pending_connect_confirm, NEW q, Sends(q, p),
           NEW f, (Up(r) /\ MayTake(r)) \/ f.type \in {"TURN_ACK", "ACCEPT"},
           ~(Up(r) /\ InHand(r)) \/ (f.type = "ACK" /\ ~f.has_data /\ r.txq = <<>>)
    PROVE  Turns(r, q, f)
<1>1. CASE Gone(q)
  BY <1>1, GoneTurns
<1>2. CASE ~Gone(q)
  <2>1. /\ ~q.pending_connect_confirm /\ HasTurn(q)
        /\ q.dflow_state \in {"DATA_TX", "IDLE_ISS", "MODE_REQ_TX"}
        /\ q.dflow_state = "MODE_REQ_TX" => q.tx_window = <<>>
    BY <1>2 DEF Sends, Kept, Rest, HasTurn
  <2>2. Adds(r, q)
    <3>1. CASE q.txq = r.txq
      BY <3>1 DEF Adds
    <3>2. ASSUME NEW g, q.dflow_state = "MODE_REQ_TX", g.type = "MODE_REQ",
                 q.txq = Append(r.txq, Control(g))
          PROVE  Adds(r, q)
      BY <2>1, <3>2 DEF Adds, UttersControl
    <3> QED
      BY <1>2, <3>1, <3>2 DEF Sends
  <2>3. Poised(q)
    BY <2>1 DEF Poised
  <2> QED
    BY <2>1, <2>2, <2>3 DEF Turns, Confirming
<1> QED
  BY <1>1, <1>2

\* It sends its window.
LEMMA FiresTurns ==
    ASSUME NEW r, Poised(r), Up(r), r.txq = <<>>, MayTake(r), r.dflow_state # "ACK_TX",
           NEW p, AsBefore(p, r), NEW q, Fires(q, p), q.dflow_state = "DATA_TX", NEW f
    PROVE  Turns(r, q, f)
<1>1. /\ Whole(q) /\ q.conn_state = r.conn_state /\ ~q.pending_connect_confirm
      /\ q.rxlog = r.rxlog
      /\ r.tx_window # <<>> => q.tx_window = r.tx_window /\ q.txlog = r.txlog
  BY DEF Fires, AsBefore, Kept, Rest, Poised
<1>2. Adds(r, q)
  <2>1. CASE q.txq = r.txq
    BY <2>1 DEF Adds
  <2>2. ASSUME NEW b, ~b.control, q.txq = Append(<<>>, b), q.tx_window # <<>>
        PROVE  Adds(r, q)
    BY <2>2 DEF Adds, InHand
  <2> QED
    BY <2>1, <2>2 DEF Fires, AsBefore
<1>3. Poised(q) /\ HasTurn(q)
  BY <1>1 DEF Poised, HasTurn
<1> QED
  BY <1>1, <1>2, <1>3 DEF Turns, Confirming, Holds, InHand

\* It takes a DATA frame.
LEMMA ReceivesTurns ==
    ASSUME NEW r, NEW p, Whole(p), p.rxlog \in Seq(Nat), p.txq = r.txq,
           ~p.pending_connect_confirm,
           p.rxlog = (IF Up(r) THEN r.rxlog ELSE <<>>), NEW f, f.type = "DATA"
    PROVE  Turns(r, ReceiveData(p, f), f)
<1> DEFINE q == ReceiveData(p, f)
<1>1. /\ ~q.pending_connect_confirm /\ q.dflow_state = "DATA_RX" /\ q.txq = r.txq
      /\ q.peer_has_data \/ q.rxlog # p.rxlog
  <2>1. /\ q.pending_connect_confirm = p.pending_connect_confirm
        /\ q.dflow_state = "DATA_RX" /\ q.txq = p.txq
        /\ q.peer_has_data \/ q.rxlog # p.rxlog
    BY ReceiveDataKept
  <2> HIDE DEF q
  <2> QED
    BY <2>1
<1> HIDE DEF q
<1>2. f # NoFrame
  BY DEF NoFrame
<1>3. Poised(q) /\ Adds(r, q) /\ ~Confirming(q)
  BY <1>1 DEF Poised, Adds, Confirming
<1>4. MayTake(q) => Brings(r, q, f)
  BY <1>1 DEF MayTake, HasTurn, Brings
<1> QED
  BY <1>2, <1>3, <1>4 DEF Turns, q

-----------------------------------------------------------------------------
(* The handlers *)

LEMMA TurnsStep ==
    ASSUME NEW s \in Station, Able(s), NEW q, Become(s, q), NEW f, Turns(st[s], q, f)
    PROVE  Turns(st[s], st'[s], f)
  BY BecomeIs

LEMMA AsBeforeTurnsStill ==
    ASSUME NEW r, Poised(r), NEW q, AsBefore(q, r), NEW f PROVE Turns(r, q, f)
  BY AsBeforeTurns DEF AsBefore

LEMMA AppListenTurns ==
    ASSUME NEW r, Poised(r), NEW p, AsBefore(p, r), NEW f PROVE Turns(r, AppListen(p), f)
<1>1. Whole(p)
  BY DEF AsBefore, Kept, Rest
<1> QED
  BY <1>1, AsBeforeTurnsStill, GoneTurns, StartDisconnectGone, SessEnterGone DEF AppListen

LEMMA AppStopListenTurns ==
    ASSUME NEW r, Poised(r), NEW p, AsBefore(p, r), NEW f PROVE Turns(r, AppStopListen(p), f)
<1>1. Whole(p)
  BY DEF AsBefore, Kept, Rest
<1> QED
  BY <1>1, AsBeforeTurnsStill, GoneTurns, StartDisconnectGone, SessEnterGone DEF AppStopListen

LEMMA StartCallGone == ASSUME NEW r, Whole(r), NEW sid PROVE Gone(StartCall(r, sid))
<1> DEFINE p == [r EXCEPT !.session_id = sid, !.tx_retries_left = CallSlots,
                          !.pending_disconnect = "no",
                          !.payload_mode = SafeMode, !.peer_tx_mode = SafeMode]
<1>1. Whole(p)
  BY DEF Whole, SessionFields
<1>2. StartCall(r, sid) = SessEnter(SendCtrlFrame(p, "CALL"), "CALLING", "TIMER_RETRY")
  BY DEF StartCall
<1> HIDE DEF p
<1>3. Whole(SendCtrlFrame(p, "CALL"))
  BY <1>1, SendCtrlFrameKept DEF Kept, Rest
<1> QED
  BY <1>2, <1>3, SessEnterGone

LEMMA AppConnectTurns ==
    ASSUME NEW r, Whole(r), Poised(r), NEW sid, NEW f PROVE Turns(r, AppConnect(r, sid), f)
<1> DEFINE idle == SessEnter(r, "DISCONNECTED", "none")
<1>1. Whole(idle)
  BY DEF SessEnter, Whole, SessionFields
<1> HIDE DEF idle
<1>2. Whole(NotifyCancelPending(idle))
  BY <1>1 DEF NotifyCancelPending, Whole, SessionFields
<1>3. /\ Turns(r, StartCall(r, sid), f) /\ Turns(r, StartCall(idle, sid), f)
      /\ Turns(r, StartCall(NotifyCancelPending(idle), sid), f)
      /\ Turns(r, StartDisconnect(r), f)
  BY <1>1, <1>2, GoneTurns, StartCallGone, StartDisconnectGone
<1>4. Turns(r, r, f)
  BY AsBeforeTurnsStill DEF AsBefore, Kept, Flows, Rest
<1> QED
  BY <1>3, <1>4 DEF AppConnect, idle

LEMMA AppDisconnectTurns ==
    ASSUME NEW r, Poised(r), NEW p, Kept(p, r), Flows(p, r), p.txq \in {r.txq, <<>>}, NEW f
    PROVE  Turns(r, AppDisconnect(p), f)
<1>1. Whole(p)
  BY DEF Kept, Rest
<1>2. Whole(NotifyCancelPending(p))
  BY <1>1 DEF NotifyCancelPending, Whole, SessionFields
<1>3. /\ Turns(r, EndCall(p), f) /\ Turns(r, EndCall(NotifyCancelPending(p)), f)
      /\ Turns(r, StartDisconnect(p), f)
  BY <1>1, <1>2, GoneTurns, EndCallGone, StartDisconnectGone
<1>4. Turns(r, p, f) /\ Turns(r, [p EXCEPT !.pending_disconnect = "draining"], f)
  <2> DEFINE d == [p EXCEPT !.pending_disconnect = "draining"]
  <2>1. Kept(d, p) /\ Flows(d, p) /\ d.txq = p.txq
    BY <1>1 DEF Kept, Flows, Rest, Whole, SessionFields
  <2> HIDE DEF d
  <2>2. Kept(d, r) /\ Flows(d, r) /\ d.txq \in {r.txq, <<>>}
    BY <2>1, KeptOn DEF Flows
  <2> QED
    BY <2>2, AsBeforeTurns DEF d
<1> QED
  BY <1>3, <1>4 DEF AppDisconnect

LEMMA CommandTurns ==
    ASSUME NEW s \in Station, Able(s), Poised(st[s]), st[s].txq = <<>>, Command(s), NEW f
    PROVE  Turns(st[s], st'[s], f)
<1> DEFINE r == st[s]
<1>0. Whole(r)
  BY AbleFit
<1>1. ASSUME HostListen(s) PROVE Turns(r, st'[s], f)
  <2> DEFINE p == [r EXCEPT !.listen_enabled = TRUE]
  <2>1. AsBefore(p, r)
    BY <1>0 DEF AsBefore, Kept, Flows, Rest, Whole, SessionFields
  <2>2. Become(s, AppListen(p))
    BY <1>1 DEF HostListen
  <2> HIDE DEF p, r
  <2> QED
    BY <2>1, <2>2, AppListenTurns, TurnsStep DEF r
<1>2. ASSUME HostStopListen(s) PROVE Turns(r, st'[s], f)
  <2> DEFINE p == [r EXCEPT !.listen_enabled = FALSE]
  <2>1. AsBefore(p, r)
    BY <1>0 DEF AsBefore, Kept, Flows, Rest, Whole, SessionFields
  <2>2. Become(s, AppStopListen(p))
    BY <1>2 DEF HostStopListen
  <2> HIDE DEF p, r
  <2> QED
    BY <2>1, <2>2, AppStopListenTurns, TurnsStep DEF r
<1>3. ASSUME NEW sid, HostConnect(s, sid) PROVE Turns(r, st'[s], f)
  BY <1>0, <1>3, AppConnectTurns, TurnsStep DEF HostConnect
<1>4. ASSUME HostDisconnect(s) PROVE Turns(r, st'[s], f)
  <2> DEFINE p == [r EXCEPT !.host = "idle"]
  <2>1. Kept(p, r) /\ Flows(p, r) /\ p.txq = r.txq
    BY <1>0 DEF Kept, Flows, Rest, Whole, SessionFields
  <2>2. Become(s, AppDisconnect(p))
    BY <1>4 DEF HostDisconnect
  <2> HIDE DEF p, r
  <2> QED
    BY <2>1, <2>2, AppDisconnectTurns, TurnsStep DEF r
<1>5. ASSUME HostClientGone(s) PROVE Turns(r, st'[s], f)
  <2>1. Kept(r, r) /\ Flows(r, r)
    BY <1>0 DEF Kept, Flows, Rest
  <2> QED
    BY <1>5, <2>1, AppDisconnectTurns, TurnsStep DEF HostClientGone
<1>6. ASSUME HostAbort(s) PROVE Turns(r, st'[s], f)
  <2> DEFINE p == [r EXCEPT !.host = "idle", !.backlog = <<>>, !.txq = <<>>]
  <2>1. Kept(p, r) /\ Flows(p, r) /\ p.txq = <<>>
    BY <1>0 DEF Kept, Flows, Rest, Whole, SessionFields
  <2>2. Become(s, AppDisconnect(p))
    BY <1>6 DEF HostAbort
  <2> HIDE DEF p, r
  <2> QED
    BY <2>1, <2>2, AppDisconnectTurns, TurnsStep DEF r
<1>7. ASSUME HostCq(s) PROVE Turns(r, st'[s], f)
  <2> DEFINE g == PlainFrame("CQ", 0)
             q == SendControl(r, g)
  <2>1. g.type = "CQ"
    BY DEF PlainFrame
  <2>2. Become(s, q)
    BY <1>7 DEF HostCq
  <2> HIDE DEF g
  <2>3. Kept(q, r) /\ Flows(q, r) /\ q.txq = Append(r.txq, Control(g))
    BY <1>0, SendControlKept
  <2> HIDE DEF q
  <2>4. UttersControl(r, q, g)
    BY <2>1 DEF UttersControl
  <2>5. Turns(r, q, f)
    BY <2>3, <2>4, SpeaksTurns
  <2> QED
    BY <2>2, <2>5, TurnsStep
<1> QED
  BY <1>1, <1>2, <1>3, <1>4, <1>5, <1>6, <1>7 DEF Command

LEMMA StartSessionSets ==
    ASSUME NEW r, Whole(r), NEW role
    PROVE  LET q == StartSession(r, role)
           IN  /\ Whole(q) /\ Up(q) /\ q.txq = r.txq
               /\ q.pending_connect_confirm = r.pending_connect_confirm
               /\ q.rxlog = <<>> /\ q.tx_window = <<>> /\ q.rx_expected = 0
<1> DEFINE p == [r EXCEPT !.tx_seq = 0, !.rx_expected = 0, !.tx_window = <<>>,
                          !.txlog = <<>>, !.rxlog = <<>>,
                          !.role = role,
                          !.tx_retries_left = DataSlots,
                          !.payload_mode = SafeMode, !.peer_tx_mode = SafeMode,
                          !.pending_tx_mode = "none",
                          !.host = "connected"]
<1>1. /\ Whole(p) /\ p.txq = r.txq /\ p.rxlog = <<>> /\ p.tx_window = <<>>
      /\ p.rx_expected = 0 /\ p.pending_connect_confirm = r.pending_connect_confirm
  BY DEF Whole, SessionFields
<1>2. StartSession(r, role) = SessEnter(p, "CONNECTED", "none")
  BY DEF StartSession
<1> HIDE DEF p
<1> QED
  BY <1>1, <1>2 DEF SessEnter, Up, Whole, SessionFields

\* A callee starts as the receiver.
LEMMA BecomeCalleeTurns ==
    ASSUME NEW r, ~Up(r), NEW p, Whole(p), ~p.pending_connect_confirm, p.txq = r.txq,
           NEW f, f.type \in {"DATA", "ACK"}
    PROVE  Turns(r, BecomeCallee(p, f), f)
<1> DEFINE u == StartSession(p, "CALLEE")
           i == EnterIdleIrs(u)
<1>1. /\ Whole(u) /\ Up(u) /\ u.txq = r.txq /\ ~u.pending_connect_confirm
      /\ u.rxlog = <<>>
  <2>1. u.pending_connect_confirm = p.pending_connect_confirm
    BY StartSessionSets
  <2>2. Whole(u) /\ Up(u) /\ u.txq = r.txq /\ u.rxlog = <<>>
    BY StartSessionSets
  <2> HIDE DEF u
  <2> QED
    BY <2>1, <2>2
<1>2. BecomeCallee(p, f) = IF f.type = "DATA" THEN ReceiveData(i, f) ELSE i
  BY DEF BecomeCallee
<1> HIDE DEF u
<1>3. Kept(i, u) /\ i.dflow_state = "IDLE_IRS" /\ i.txq = u.txq
  BY <1>1, EnterIdleIrsKept
<1> HIDE DEF i
<1>4. /\ Whole(i) /\ i.txq = r.txq /\ ~i.pending_connect_confirm /\ i.rxlog = <<>>
  BY <1>1, <1>3 DEF Kept, Rest
<1>5. f.type = "DATA" => Turns(r, ReceiveData(i, f), f)
  <2>1. <<>> \in Seq(Nat)
    OBVIOUS
  <2> QED
    BY <1>4, <2>1, ReceivesTurns
<1>6. Turns(r, i, f)
  <2>1. Poised(i) /\ ~MayTake(i) /\ Adds(r, i)
    BY <1>3, <1>4 DEF Poised, MayTake, HasTurn, Adds
  <2>2. f # NoFrame
    BY DEF NoFrame
  <2> QED
    BY <1>4, <2>1, <2>2, YieldsTurns
<1> QED
  BY <1>2, <1>5, <1>6

LEMMA ArmConnectConfirmTurns ==
    ASSUME NEW r, NEW p, Whole(p), Up(p), p.txq = r.txq, NEW f, f.type = "ACCEPT",
           Up(r) => p.rxlog = r.rxlog /\ ~InHand(r)
    PROVE  Turns(r, ArmConnectConfirm(p), f)
<1> DEFINE e == [p EXCEPT !.pending_connect_confirm = TRUE]
           q == DflowEnter(e, "ACK_TX", "TIMER_ACK")
<1>1. /\ Whole(e) /\ e.conn_state = p.conn_state /\ e.txq = p.txq /\ e.rxlog = p.rxlog
      /\ e.pending_connect_confirm
  BY DEF Whole, SessionFields
<1> HIDE DEF e
<1>2. Kept(q, e) /\ q.txq = e.txq /\ q.dflow_state = "ACK_TX"
  BY <1>1, DflowEnterKept
<1>3. q = ArmConnectConfirm(p)
  BY DEF ArmConnectConfirm, e
<1> HIDE DEF q
<1>4. /\ q.conn_state = p.conn_state /\ q.txq = r.txq /\ q.rxlog = p.rxlog
      /\ q.pending_connect_confirm
  BY <1>1, <1>2 DEF Kept, Rest
<1>5. Poised(q) /\ Adds(r, q) /\ HasTurn(q)
  BY <1>2, <1>4 DEF Poised, Up, Adds, HasTurn
<1>6. f # NoFrame
  BY DEF NoFrame
<1>7. Turns(r, q, f)
  BY <1>4, <1>5, <1>6 DEF Turns, Up
<1> QED
  BY <1>3, <1>7

LEMMA CallFrameTurns ==
    ASSUME NEW s \in Station, Able(s), Poised(st[s]), NEW f, NEW wanted \in PayloadModes,
           \/ ListeningRxCall(s, f) \/ ListeningRxAccept(s, f) \/ ListeningRxTraffic(s, f)
           \/ AcceptingRxTraffic(s, f) \/ AcceptingRxCall(s, f)
           \/ CallingRxAccept(s, f, wanted)
    PROVE  Turns(st[s], st'[s], f)
<1> DEFINE r == st[s]
<1>0. Whole(r)
  BY AbleFit
<1>1. ASSUME ListeningRxCall(s, f) PROVE Turns(r, st'[s], f)
  <2> DEFINE p == [r EXCEPT !.session_id = f.sid, !.tx_retries_left = AcceptSlots,
                            !.payload_mode = SafeMode, !.peer_tx_mode = SafeMode,
                            !.host = "pending"]
  <2>1. Whole(p)
    BY <1>0 DEF Whole, SessionFields
  <2>2. Become(s, SessEnter(p, "ACCEPTING", "TIMER_RETRY"))
    BY <1>1 DEF ListeningRxCall
  <2> HIDE DEF p
  <2>3. Gone(SessEnter(p, "ACCEPTING", "TIMER_RETRY"))
    BY <2>1, SessEnterGone
  <2> QED
    BY <2>2, <2>3, GoneTurns, TurnsStep
<1>2. ASSUME ListeningRxAccept(s, f) PROVE Turns(r, st'[s], f)
  <2>1. r.conn_state = "LISTENING" /\ Become(s, SendCtrlFrame(r, "DISCONNECT"))
    BY <1>2 DEF ListeningRxAccept, InConn
  <2>2. Gone(SendCtrlFrame(r, "DISCONNECT"))
    <3>1. Kept(SendCtrlFrame(r, "DISCONNECT"), r)
      BY <1>0, SendCtrlFrameKept
    <3> QED
      BY <2>1, <3>1 DEF Kept, Rest, Gone, Up, Poised
  <2> QED
    BY <2>1, <2>2, GoneTurns, TurnsStep
<1>3. ASSUME ListeningRxTraffic(s, f) PROVE Turns(r, st'[s], f)
  <2> DEFINE p == [r EXCEPT !.pending_disconnect = "no"]
  <2>1. ~Up(r) /\ Become(s, BecomeCallee(p, f)) /\ f.type \in {"DATA", "ACK"}
    BY <1>3 DEF ListeningRxTraffic, InConn, Up
  <2>2. Whole(p) /\ p.txq = r.txq /\ p.pending_connect_confirm = r.pending_connect_confirm
    BY <1>0 DEF Whole, SessionFields
  <2> HIDE DEF p
  <2>3. ~p.pending_connect_confirm
    BY <2>1, <2>2 DEF Poised
  <2>4. Turns(r, BecomeCallee(p, f), f)
    BY <2>1, <2>2, <2>3, BecomeCalleeTurns
  <2> QED
    BY <2>1, <2>4, TurnsStep
<1>4. ASSUME AcceptingRxTraffic(s, f) PROVE Turns(r, st'[s], f)
  <2>1. ~Up(r) /\ Become(s, BecomeCallee(r, f)) /\ f.type \in {"DATA", "ACK"}
    BY <1>4 DEF AcceptingRxTraffic, InConn, Up
  <2>2. ~r.pending_connect_confirm
    BY <2>1 DEF Poised
  <2>3. Turns(r, BecomeCallee(r, f), f)
    BY <1>0, <2>1, <2>2, BecomeCalleeTurns
  <2> QED
    BY <2>1, <2>3, TurnsStep
<1>5. ASSUME AcceptingRxCall(s, f) PROVE Turns(r, st'[s], f)
  <2>1. AsBefore([r EXCEPT !.tx_retries_left = AcceptSlots], r)
    BY <1>0, SlotsAsBefore
  <2> QED
    BY <1>5, <2>1, AsBeforeTurnsStill, TurnsStep DEF AcceptingRxCall
<1>6. ASSUME CallingRxAccept(s, f, wanted) PROVE Turns(r, st'[s], f)
  <2> DEFINE p == [r EXCEPT !.pending_disconnect = "no", !.pending_connect_confirm = FALSE,
                            !.need_initial_guard = HasBacklog(r)]
             up == StartSession(p, "CALLER")
  <2>1. /\ ~Up(r) /\ f.type = "ACCEPT"
        /\ Become(s, IF HasBacklog(r) THEN EnterIdleIssGuarded(up, wanted)
                     ELSE ArmConnectConfirm(up))
    BY <1>6 DEF CallingRxAccept, InConn, Up
  <2>2. Whole(p) /\ p.txq = r.txq /\ p.pending_connect_confirm = FALSE
    BY <1>0 DEF Whole, SessionFields
  <2> HIDE DEF p
  <2>3. /\ Whole(up) /\ Up(up) /\ up.txq = r.txq
        /\ up.pending_connect_confirm = p.pending_connect_confirm
    BY <2>2, StartSessionSets
  <2> HIDE DEF up
  <2>4. ~up.pending_connect_confirm
    BY <2>2, <2>3
  <2>5. Turns(r, EnterIdleIssGuarded(up, wanted), f)
    BY <2>1, <2>3, <2>4, EnterIdleIssGuardedSends, SendsTurns
  <2>6. Turns(r, ArmConnectConfirm(up), f)
    BY <2>1, <2>3, ArmConnectConfirmTurns
  <2> QED
    BY <2>1, <2>5, <2>6, TurnsStep
<1> QED
  BY <1>1, <1>2, <1>3, <1>4, <1>5, <1>6

LEMMA ConnectedFrameTurns ==
    ASSUME NEW s \in Station, Able(s), Poised(st[s]), st[s].txq = <<>>, NEW f,
           \/ ConnectedRxAccept(s, f) \/ ConnectedRxDisconnect(s, f)
           \/ DisconnectingRxDisconnect(s, f) \/ ConnectedRxKeepalive(s, f)
           \/ RxTurnReq(s, f) \/ RxModeReq(s, f)
    PROVE  Turns(st[s], st'[s], f)
<1> DEFINE r == st[s]
<1>0. Whole(r)
  BY AbleFit
<1>1. ASSUME ConnectedRxAccept(s, f) PROVE Turns(r, st'[s], f)
  <2>1. /\ Up(r) /\ r.dflow_state = "IDLE_ISS" /\ f.type = "ACCEPT"
        /\ Become(s, ArmConnectConfirm(r))
    BY <1>1 DEF ConnectedRxAccept, InFlow, InConn, Up
  <2>2. Turns(r, ArmConnectConfirm(r), f)
    BY <1>0, <2>1, ArmConnectConfirmTurns DEF InHand
  <2> QED
    BY <2>1, <2>2, TurnsStep
<1>2. ASSUME ConnectedRxDisconnect(s, f) PROVE Turns(r, st'[s], f)
  <2> DEFINE m == SendCtrlFrame(r, "DISCONNECT")
             p == [m EXCEPT !.pending_disconnect = "no", !.pending_disconnect_notify = TRUE]
  <2>1. Become(s, SessEnter(p, "DISCONNECTED", "none"))
    BY <1>2 DEF ConnectedRxDisconnect
  <2>2. Whole(m)
    BY <1>0, SendCtrlFrameKept DEF Kept, Rest
  <2> HIDE DEF m
  <2>3. Whole(p)
    BY <2>2 DEF Whole, SessionFields
  <2> HIDE DEF p
  <2> QED
    BY <2>1, <2>3, SessEnterGone, GoneTurns, TurnsStep
<1>3. ASSUME DisconnectingRxDisconnect(s, f) PROVE Turns(r, st'[s], f)
  BY <1>0, <1>3, EndCallGone, GoneTurns, TurnsStep DEF DisconnectingRxDisconnect
<1>4. ASSUME ConnectedRxKeepalive(s, f) PROVE Turns(r, st'[s], f)
  <2> DEFINE p == [r EXCEPT !.keepalive_miss_count = 0]
             irs == p.dflow_state = "IDLE_IRS"
             a == [p EXCEPT !.keepalive_ack_from_irs = irs]
             q == DflowEnter(a, "KEEPALIVE_ACK_TX", "TIMER_ACK")
             m == SendCtrlFrame(p, "KEEPALIVE_ACK")
  <2>1. /\ Up(r) /\ f.type = "KEEPALIVE"
        /\ Become(s, IF p.dflow_state \in {"IDLE_ISS", "IDLE_IRS"} THEN q ELSE m)
    BY <1>4 DEF ConnectedRxKeepalive, InConn, Up
  <2>2. AsBefore(p, r)
    BY <1>0 DEF AsBefore, Kept, Flows, Rest, Whole, SessionFields
  <2> HIDE DEF p
  <2>3. Whole(p) /\ p.dflow_state = r.dflow_state
    BY <2>2 DEF AsBefore, Kept, Rest, Flows
  <2>4. CASE r.dflow_state \in {"IDLE_ISS", "IDLE_IRS"}
    <3>1. /\ Whole(a) /\ a.conn_state = p.conn_state /\ a.txq = p.txq
          /\ a.pending_connect_confirm = p.pending_connect_confirm
          /\ a.keepalive_ack_from_irs = irs
      BY <2>3 DEF Whole, SessionFields
    <3> HIDE DEF a
    <3>2. Kept(q, a) /\ q.txq = a.txq /\ q.dflow_state = "KEEPALIVE_ACK_TX"
      BY <3>1, DflowEnterKept
    <3> HIDE DEF q
    <3>3. /\ q.txq = r.txq /\ q.pending_connect_confirm = r.pending_connect_confirm
          /\ q.keepalive_ack_from_irs = irs
      BY <2>2, <3>1, <3>2 DEF AsBefore, Kept, Rest
    <3>4. ~q.pending_connect_confirm
      BY <2>4, <3>3 DEF Poised
    <3>5. Poised(q) /\ Adds(r, q) /\ ~Confirming(q)
      BY <3>2, <3>3, <3>4 DEF Poised, Adds, Confirming
    <3>6. MayTake(q) => MayTake(r)
      BY <2>3, <2>4, <3>2, <3>3 DEF MayTake, HasTurn
    <3>7. ~InHand(r)
      BY <2>4 DEF InHand
    <3>8. f # NoFrame
      BY <2>1 DEF NoFrame
    <3>9. Turns(r, q, f)
      BY <2>1, <3>5, <3>6, <3>7, <3>8 DEF Turns
    <3> QED
      BY <2>1, <2>3, <2>4, <3>9, TurnsStep
  <2>5. CASE r.dflow_state \notin {"IDLE_ISS", "IDLE_IRS"}
    <3>1. Kept(m, p) /\ Flows(m, p)
      BY <2>3, SendCtrlFrameKept
    <3>2. PICK g : g.type = "KEEPALIVE_ACK" /\ m.txq = Append(p.txq, Control(g))
      BY <2>3, SendCtrlFrameKept
    <3> HIDE DEF m
    <3>3. Kept(m, r) /\ Flows(m, r) /\ m.txq = Append(r.txq, Control(g))
      BY <2>2, <3>1, <3>2, KeptOn DEF AsBefore, Flows
    <3>4. Turns(r, m, f)
      BY <3>2, <3>3, SpeaksTurns DEF UttersControl
    <3> QED
      BY <2>1, <2>3, <2>5, <3>4, TurnsStep
  <2> QED
    BY <2>4, <2>5
<1>5. ASSUME RxTurnReq(s, f) PROVE Turns(r, st'[s], f)
  <2> DEFINE q == DflowEnter(r, "TURN_ACK_TX", "TIMER_ACK")
  <2>1. Become(s, q) /\ f.type = "TURN_REQ" /\ r.dflow_state # "ACK_TX"
    BY <1>5 DEF RxTurnReq, YieldsTurn
  <2>2. Kept(q, r) /\ q.txq = r.txq /\ q.dflow_state = "TURN_ACK_TX"
    BY <1>0, DflowEnterKept
  <2> HIDE DEF q
  <2>3. /\ ~q.pending_connect_confirm /\ f # NoFrame
    BY <2>1, <2>2 DEF Kept, Rest, Poised, NoFrame
  <2>4. Poised(q) /\ ~MayTake(q) /\ Adds(r, q)
    BY <2>2, <2>3 DEF Poised, MayTake, HasTurn, Adds
  <2> QED
    BY <2>1, <2>3, <2>4, YieldsTurns, TurnsStep
<1>6. ASSUME RxModeReq(s, f) PROVE Turns(r, st'[s], f)
  <2> DEFINE i == IF r.dflow_state = "WAIT_ACK" THEN ImplicitAck(r) ELSE r
             p == [i EXCEPT !.peer_tx_mode = f.mode]
             q == DflowEnter(p, "MODE_ACK_TX", "TIMER_ACK")
  <2>1. Become(s, q) /\ f.type = "MODE_REQ" /\ r.dflow_state # "ACK_TX"
    BY <1>6 DEF RxModeReq
  <2>2. Whole(i) /\ i.txq = r.txq /\ i.pending_connect_confirm = r.pending_connect_confirm
    BY <1>0 DEF ImplicitAck, Whole, SessionFields
  <2> HIDE DEF i
  <2>3. Whole(p) /\ p.txq = i.txq /\ p.pending_connect_confirm = i.pending_connect_confirm
    BY <2>2 DEF Whole, SessionFields
  <2> HIDE DEF p
  <2>4. Kept(q, p) /\ q.txq = p.txq /\ q.dflow_state = "MODE_ACK_TX"
    BY <2>3, DflowEnterKept
  <2> HIDE DEF q
  <2>5. q.txq = r.txq /\ q.pending_connect_confirm = r.pending_connect_confirm
    BY <2>2, <2>3, <2>4 DEF Kept, Rest
  <2>6. ~q.pending_connect_confirm /\ f # NoFrame
    BY <2>1, <2>5 DEF Poised, NoFrame
  <2>7. Poised(q) /\ ~MayTake(q) /\ Adds(r, q)
    BY <2>4, <2>5, <2>6 DEF Poised, MayTake, HasTurn, Adds
  <2> QED
    BY <2>1, <2>6, <2>7, YieldsTurns, TurnsStep
<1> QED
  BY <1>1, <1>2, <1>3, <1>4, <1>5, <1>6

LEMMA StreamFrameTurns ==
    ASSUME BurstFrames = 1, NEW s \in Station, Able(s), Poised(st[s]), st[s].txq = <<>>,
           NEW f, Sent(f), NEW burst \in BurstSizes, NEW wanted \in PayloadModes,
           RxData(s, f) \/ WaitAckRxData(s, f, burst) \/ WaitAckRxAck(s, f, wanted)
    PROVE  Turns(st[s], st'[s], f)
<1> DEFINE r == st[s]
<1>0. Whole(r) /\ Good(r) /\ r.rxlog \in Seq(Nat)
  BY AbleFit, Fields
<1>1. ASSUME RxData(s, f) PROVE Turns(r, st'[s], f)
  <2>1. Up(r) /\ f.type = "DATA" /\ r.dflow_state # "ACK_TX" /\ Become(s, ReceiveData(r, f))
    BY <1>1 DEF RxData, InConn, Up
  <2>2. ~r.pending_connect_confirm
    BY <2>1 DEF Poised
  <2> QED
    BY <1>0, <2>1, <2>2, ReceivesTurns, TurnsStep
<1>2. ASSUME WaitAckRxData(s, f, burst) PROVE Turns(r, st'[s], f)
  <2> DEFINE i == ImplicitAck(r)
             p == [r EXCEPT !.peer_tx_mode = f.mode]
  <2>1. /\ Up(r) /\ f.type = "DATA" /\ r.dflow_state = "WAIT_ACK"
        /\ Become(s, IF IsNew(r, f) THEN ReceiveData(i, f) ELSE TransmitNow(p, burst))
    BY <1>2 DEF WaitAckRxData, InFlow, InConn, Up
  <2>2. ~r.pending_connect_confirm
    BY <2>1 DEF Poised
  <2>3. /\ Whole(i) /\ i.rxlog = r.rxlog /\ i.txq = r.txq
        /\ i.pending_connect_confirm = r.pending_connect_confirm
    BY <1>0 DEF ImplicitAck, Whole, SessionFields
  <2> HIDE DEF i
  <2>4. Turns(r, ReceiveData(i, f), f)
    BY <1>0, <2>1, <2>2, <2>3, ReceivesTurns
  <2>5. AsBefore(p, r) /\ Good(p)
    <3>1. f.mode \in PayloadModes
      BY <2>1 DEF Sent, WellFormed
    <3> QED
      BY <1>0, <3>1, Keeps DEF AsBefore, Kept, Flows, Rest, Whole, SessionFields
  <2> HIDE DEF p
  <2>6. Turns(r, TransmitNow(p, burst), f)
    <3>1. Fires(TransmitNow(p, burst), p) /\ TransmitNow(p, burst).dflow_state = "DATA_TX"
      BY <2>5, TransmitNowFires
    <3>2. MayTake(r)
      BY <2>1 DEF MayTake, HasTurn
    <3> QED
      BY <2>1, <2>5, <3>1, <3>2, FiresTurns
  <2> QED
    BY <2>1, <2>4, <2>6, TurnsStep
<1>3. ASSUME WaitAckRxAck(s, f, wanted) PROVE Turns(r, st'[s], f)
  <2> DEFINE n == AckedCount(r.tx_window, f.seq)
             w == SlideWindow(r, n)
             p == [w EXCEPT !.tx_retries_left = DataSlots, !.peer_has_data = f.has_data]
  <2>1. /\ Up(r) /\ f.type = "ACK" /\ r.dflow_state = "WAIT_ACK" /\ n > 0
        /\ Become(s, IF p.tx_window # <<>> THEN TransmitGuarded(p)
                     ELSE IF f.has_data THEN EnterIdleIrs(p)
                     ELSE EnterIdleIssGuarded(p, wanted))
    BY <1>3 DEF WaitAckRxAck, InFlow, InConn, Up
  <2>2. n \in 0 .. Len(r.tx_window)
    <3>1. f.seq \in Nat
      BY DEF Sent, WellFormed, Frame
    <3> QED
      BY <1>0, <3>1, AckedCountBound
  <2> HIDE DEF n
  <2>3. /\ Whole(w) /\ w.txq = r.txq
        /\ w.pending_connect_confirm = r.pending_connect_confirm
        /\ w.tx_window = SubSeq(r.tx_window, n + 1, Len(r.tx_window))
    BY <1>0 DEF SlideWindow, Whole, SessionFields
  <2> HIDE DEF w
  <2>4. w.tx_window = <<>>
    <3>1. r.tx_window \in Seq(Slot) /\ Len(r.tx_window) <= 1
      BY <1>0, Fields DEF Good, WindowOf
    <3>2. n + 1 > Len(r.tx_window) /\ n \in Nat /\ Len(r.tx_window) \in Nat
      BY <2>1, <2>2, <3>1
    <3> QED
      BY <2>3, <3>1, <3>2
  <2>5. /\ Whole(p) /\ p.txq = w.txq /\ p.tx_window = w.tx_window
        /\ p.pending_connect_confirm = w.pending_connect_confirm
    BY <2>3 DEF Whole, SessionFields
  <2> HIDE DEF p
  <2>6. p.txq = r.txq /\ ~p.pending_connect_confirm /\ p.tx_window = <<>>
    <3>1. ~r.pending_connect_confirm
      BY <2>1 DEF Poised
    <3> QED
      BY <2>3, <2>4, <2>5, <3>1
  <2>7. CASE f.has_data
    <3> DEFINE q == EnterIdleIrs(p)
    <3>1. Kept(q, p) /\ q.dflow_state = "IDLE_IRS" /\ q.txq = p.txq
      BY <2>5, EnterIdleIrsKept
    <3> HIDE DEF q
    <3>2. ~q.pending_connect_confirm /\ q.txq = r.txq
      BY <2>6, <3>1 DEF Kept, Rest
    <3>3. Poised(q) /\ ~MayTake(q) /\ Adds(r, q) /\ f # NoFrame
      BY <2>1, <3>1, <3>2 DEF Poised, MayTake, HasTurn, Adds, NoFrame
    <3>4. Turns(r, q, f)
      BY <3>2, <3>3, YieldsTurns
    <3> QED
      BY <2>1, <2>6, <2>7, <3>4, TurnsStep DEF q
  <2>8. CASE ~f.has_data
    <3>1. Sends(EnterIdleIssGuarded(p, wanted), p)
      BY <2>5, EnterIdleIssGuardedSends
    <3>2. MayTake(r)
      BY <2>1 DEF MayTake, HasTurn
    <3>3. Turns(r, EnterIdleIssGuarded(p, wanted), f)
      BY <2>1, <2>6, <2>8, <3>1, <3>2, SendsTurns
    <3> QED
      BY <2>1, <2>6, <2>8, <3>3, TurnsStep
  <2> QED
    BY <2>7, <2>8
<1> QED
  BY <1>1, <1>2, <1>3

LEMMA AnswerFrameTurns ==
    ASSUME NEW s \in Station, Able(s), Poised(st[s]), NEW f, NEW wanted \in PayloadModes,
           \/ TurnReqRxTurnAck(s, f, wanted) \/ KeepaliveWaitRx(s, f, wanted)
           \/ ModeReqRxModeAck(s, f, wanted)
    PROVE  Turns(st[s], st'[s], f)
<1> DEFINE r == st[s]
<1>0. Whole(r)
  BY AbleFit
<1>1. ASSUME TurnReqRxTurnAck(s, f, wanted) PROVE Turns(r, st'[s], f)
  <2>1. /\ r.dflow_state = "TURN_REQ_WAIT" /\ f.type = "TURN_ACK"
        /\ Become(s, EnterIdleIssGuarded(r, wanted))
    BY <1>1 DEF TurnReqRxTurnAck, InFlow
  <2>2. ~r.pending_connect_confirm /\ ~InHand(r)
    BY <2>1 DEF Poised, InHand
  <2>3. Turns(r, EnterIdleIssGuarded(r, wanted), f)
    BY <1>0, <2>1, <2>2, EnterIdleIssGuardedSends, SendsTurns
  <2> QED
    BY <2>1, <2>3, TurnsStep
<1>2. ASSUME KeepaliveWaitRx(s, f, wanted) PROVE Turns(r, st'[s], f)
  <2> DEFINE k == [r EXCEPT !.keepalive_miss_count = 0]
             p == IF f.type = "KEEPALIVE" THEN SendCtrlFrame(k, "KEEPALIVE_ACK") ELSE k
             q == EnterIdleIrs(p)
  <2>1. /\ Up(r) /\ r.dflow_state = "KEEPALIVE_WAIT"
        /\ f.type \in {"KEEPALIVE", "KEEPALIVE_ACK"}
        /\ Become(s, AfterKeepalive(p, k.keepalive_from_irs, wanted))
    BY <1>2 DEF KeepaliveWaitRx, InFlow, InConn, Up
  <2>2. AsBefore(k, r)
    BY <1>0 DEF AsBefore, Kept, Flows, Rest, Whole, SessionFields
  <2> HIDE DEF k
  <2>3. Whole(k)
    BY <2>2 DEF AsBefore, Kept, Rest
  <2>4. /\ Kept(p, k)
        /\ \/ p.txq = k.txq
           \/ \E g : g.type = "KEEPALIVE_ACK" /\ p.txq = Append(k.txq, Control(g))
    <3>1. Kept(k, k)
      BY <2>3 DEF Kept, Rest
    <3> QED
      BY <2>3, <3>1, SendCtrlFrameKept
  <2> HIDE DEF p
  <2>5. Kept(q, p) /\ q.dflow_state = "IDLE_IRS" /\ q.txq = p.txq
    BY <2>4, EnterIdleIrsKept DEF Kept, Rest
  <2> HIDE DEF q
  <2>6. q.pending_connect_confirm = r.pending_connect_confirm
    BY <2>2, <2>4, <2>5 DEF AsBefore, Kept, Rest
  <2>7. ~q.pending_connect_confirm /\ f # NoFrame
    BY <2>1, <2>6 DEF Poised, NoFrame
  <2>8. Poised(q) /\ ~MayTake(q)
    BY <2>5, <2>7 DEF Poised, MayTake, HasTurn
  <2>9. Adds(r, q)
    <3>1. CASE p.txq = k.txq
      BY <2>2, <2>5, <3>1 DEF Adds, AsBefore
    <3>2. ASSUME NEW g, g.type = "KEEPALIVE_ACK", p.txq = Append(k.txq, Control(g))
          PROVE  Adds(r, q)
      <4>1. UttersControl(r, q, g)
        BY <2>1, <3>2 DEF UttersControl, InHand
      <4> QED
        BY <2>2, <2>5, <3>2, <4>1 DEF Adds, AsBefore
    <3> QED
      BY <2>4, <3>1, <3>2
  <2>10. Turns(r, q, f)
    BY <2>7, <2>8, <2>9, YieldsTurns
  <2>11. k.keepalive_from_irs
    BY <2>1, <2>2 DEF Poised, AsBefore, Kept, Rest
  <2> QED
    BY <2>1, <2>10, <2>11, TurnsStep DEF AfterKeepalive, q
<1>3. ASSUME ModeReqRxModeAck(s, f, wanted) PROVE Turns(r, st'[s], f)
  <2> DEFINE p == [r EXCEPT !.payload_mode = f.mode]
  <2>1. Up(r) /\ r.dflow_state = "MODE_REQ_WAIT" /\ Become(s, EnterIdleIssGuarded(p, wanted))
    BY <1>3 DEF ModeReqRxModeAck, InFlow, InConn, Up
  <2>2. Whole(p) /\ p.txq = r.txq /\ p.pending_connect_confirm = r.pending_connect_confirm
    BY <1>0 DEF Whole, SessionFields
  <2> HIDE DEF p
  <2>3. ~p.pending_connect_confirm /\ ~InHand(r) /\ MayTake(r)
    <3>1. ~r.pending_connect_confirm /\ ~InHand(r) /\ MayTake(r)
      BY <2>1 DEF Poised, InHand, MayTake, HasTurn
    <3> QED
      BY <2>2, <3>1
  <2>4. Turns(r, EnterIdleIssGuarded(p, wanted), f)
    BY <2>1, <2>2, <2>3, EnterIdleIssGuardedSends, SendsTurns
  <2> QED
    BY <2>1, <2>4, TurnsStep
<1> QED
  BY <1>1, <1>2, <1>3

LEMMA ForcedTeardownTurns ==
    ASSUME NEW s \in Station, Able(s), ForcedTeardown(s), NEW f
    PROVE  Turns(st[s], st'[s], f)
  BY AbleFit, StartDisconnectGone, GoneTurns, TurnsStep DEF ForcedTeardown

LEMMA OnFrameTurns ==
    ASSUME BurstFrames = 1, NEW s \in Station, Able(s), Poised(st[s]), st[s].txq = <<>>,
           NEW f, Sent(f), OnFrame(s, f)
    PROVE  Turns(st[s], st'[s], f)
<1>1. CASE ForcedTeardown(s)
  BY <1>1, ForcedTeardownTurns
<1>2. CASE HandleFrame(s, f)
  <2>1. PICK wanted \in PayloadModes : TRUE
    BY ModeAssumption
  <2>2. CASE \/ ListeningRxCall(s, f) \/ ListeningRxAccept(s, f) \/ ListeningRxTraffic(s, f)
             \/ AcceptingRxTraffic(s, f) \/ AcceptingRxCall(s, f)
    BY <2>1, <2>2, CallFrameTurns
  <2>3. CASE \/ ConnectedRxAccept(s, f) \/ ConnectedRxDisconnect(s, f)
             \/ DisconnectingRxDisconnect(s, f) \/ ConnectedRxKeepalive(s, f)
             \/ RxTurnReq(s, f) \/ RxModeReq(s, f)
    BY <2>3, ConnectedFrameTurns
  <2>4. CASE RxData(s, f)
    BY <2>1, <2>4, StreamFrameTurns DEF BurstSizes
  <2>5. CASE \E burst \in BurstSizes : WaitAckRxData(s, f, burst)
    BY <2>1, <2>5, StreamFrameTurns
  <2>6. ASSUME NEW w \in PayloadModes, CallingRxAccept(s, f, w)
        PROVE  Turns(st[s], st'[s], f)
    BY <2>6, CallFrameTurns
  <2>7. ASSUME NEW w \in PayloadModes, WaitAckRxAck(s, f, w)
        PROVE  Turns(st[s], st'[s], f)
    BY <2>7, StreamFrameTurns DEF BurstSizes
  <2>8. ASSUME NEW w \in PayloadModes,
               \/ TurnReqRxTurnAck(s, f, w) \/ KeepaliveWaitRx(s, f, w)
               \/ ModeReqRxModeAck(s, f, w)
        PROVE  Turns(st[s], st'[s], f)
    BY <2>8, AnswerFrameTurns
  <2> QED
    BY <1>2, <2>2, <2>3, <2>4, <2>5, <2>6, <2>7, <2>8 DEF HandleFrame
<1> QED
  BY <1>1, <1>2 DEF OnFrame

LEMMA FiredKept ==
    ASSUME NEW s \in Station, Able(s)
    PROVE  LET p == Fired(s)
           IN  /\ Kept(p, st[s]) /\ p.dflow_state = st[s].dflow_state
               /\ p.deadline = "none" /\ p.txq = st[s].txq /\ Good(p)
  BY AbleFit, FiredGood DEF Fired, Kept, Rest, Whole, SessionFields, Able

\* Control frames outside sessions.
LEMMA CallTimerTurns ==
    ASSUME NEW s \in Station, Able(s), Poised(st[s]), NEW f,
           \/ CallingRetry(s) \/ AcceptingRetry(s)
           \/ DisconnectingGuardOver(s) \/ DisconnectingRetry(s)
    PROVE  Turns(st[s], st'[s], f)
<1> DEFINE r == st[s]
           p == [r EXCEPT !.tx_retries_left = @ - 1]
<1>0. Whole(r)
  BY AbleFit
<1>1. ~Up(r) /\ ~r.pending_connect_confirm
  BY DEF CallingRetry, AcceptingRetry, DisconnectingGuardOver, DisconnectingRetry, InConn,
         Up, Poised
<1>2. AsBefore(p, r)
  BY <1>0 DEF AsBefore, Kept, Flows, Rest, Whole, SessionFields
<1> HIDE DEF p
<1>3. Whole(p)
  BY <1>2 DEF AsBefore, Kept, Rest
<1>4. \A type : Gone(SendCtrlFrame(p, type))
  <2> TAKE type
  <2>1. Kept(SendCtrlFrame(p, type), p)
    BY <1>3, SendCtrlFrameKept
  <2>2. Kept(SendCtrlFrame(p, type), r)
    BY <1>2, <2>1, KeptOn DEF AsBefore
  <2> QED
    BY <1>1, <2>2 DEF Gone, Up, Kept, Rest
<1>5. Gone(EndCall(r))
  BY <1>0, EndCallGone
<1>6. Gone(SessEnter(NotifyCancelPending(r), "LISTENING", "none"))
  <2>1. Whole(NotifyCancelPending(r))
    BY <1>0 DEF NotifyCancelPending, Whole, SessionFields
  <2> QED
    BY <2>1, SessEnterGone
<1>7. Gone([SendCtrlFrame(r, "DISCONNECT") EXCEPT !.deadline = "TIMER_RETRY"])
  <2> DEFINE m == SendCtrlFrame(r, "DISCONNECT")
  <2>1. Kept(m, r)
    BY <1>0, SendCtrlFrameKept
  <2> HIDE DEF m
  <2> QED
    BY <1>1, <2>1 DEF Gone, Up, Kept, Rest, Whole, SessionFields, m
<1>8. CASE CallingRetry(s)
  <2>1. Become(s, IF r.tx_retries_left > 0 THEN SendCtrlFrame(p, "CALL") ELSE EndCall(r))
    BY <1>8 DEF CallingRetry, p
  <2> QED
    BY <1>4, <1>5, <2>1, GoneTurns, TurnsStep
<1>9. CASE AcceptingRetry(s)
  <2>1. Become(s, IF r.tx_retries_left > 0 THEN SendCtrlFrame(p, "ACCEPT")
                  ELSE SessEnter(NotifyCancelPending(r), "LISTENING", "none"))
    BY <1>9 DEF AcceptingRetry, p
  <2> QED
    BY <1>4, <1>6, <2>1, GoneTurns, TurnsStep
<1>10. CASE DisconnectingGuardOver(s)
  BY <1>7, <1>10, GoneTurns, TurnsStep DEF DisconnectingGuardOver
<1>11. CASE DisconnectingRetry(s)
  <2>1. Become(s, IF r.tx_retries_left > 0 THEN SendCtrlFrame(p, "DISCONNECT") ELSE EndCall(r))
    BY <1>11 DEF DisconnectingRetry, p
  <2> QED
    BY <1>4, <1>5, <2>1, GoneTurns, TurnsStep
<1> QED
  BY <1>8, <1>9, <1>10, <1>11

LEMMA StreamTimerTurns ==
    ASSUME BurstFrames = 1, NEW s \in Station, Able(s), Poised(st[s]), st[s].txq = <<>>,
           NEW f, NEW burst \in BurstSizes, NEW wanted \in PayloadModes, NEW dead \in BOOLEAN,
           \/ DataTxGuardOver(s, burst) \/ WaitAckRetransmit(s, burst)
           \/ WaitAckExhausted(s, dead, burst, wanted)
    PROVE  Turns(st[s], st'[s], f)
<1> DEFINE r == st[s]
<1>0. Whole(r) /\ Good(r)
  BY AbleFit
<1>1. /\ Up(r) /\ r.dflow_state \in {"DATA_TX", "WAIT_ACK"} /\ MayTake(r)
      /\ ~r.pending_connect_confirm /\ r.dflow_state # "ACK_TX"
  <2>1. Up(r) /\ r.dflow_state \in {"DATA_TX", "WAIT_ACK"}
    BY DEF DataTxGuardOver, WaitAckRetransmit, WaitAckExhausted, InFlow, InConn, Up
  <2> QED
    BY <2>1 DEF MayTake, HasTurn, Poised
<1>2. ASSUME NEW n \in Nat
      PROVE  Turns(r, TransmitNow([r EXCEPT !.tx_retries_left = n], burst), f)
  <2> DEFINE p == [r EXCEPT !.tx_retries_left = n]
  <2>1. AsBefore(p, r) /\ Good(p)
    BY <1>0, <1>2, SlotsAsBefore, Keeps
  <2> HIDE DEF p
  <2>2. Fires(TransmitNow(p, burst), p) /\ TransmitNow(p, burst).dflow_state = "DATA_TX"
    BY <2>1, TransmitNowFires
  <2>3. Turns(r, TransmitNow(p, burst), f)
    BY <1>1, <2>1, <2>2, FiresTurns
  <2> QED
    BY <2>3 DEF p
<1>3. ASSUME DataTxGuardOver(s, burst) PROVE Turns(r, st'[s], f)
  <2> DEFINE p == Fired(s)
             q == SendDataBurst(p, burst)
  <2>1. Become(s, q) /\ r.dflow_state = "DATA_TX"
    BY <1>3 DEF DataTxGuardOver, InFlow
  <2>2. Kept(p, r) /\ p.txq = r.txq /\ p.dflow_state = r.dflow_state /\ Good(p)
    BY FiredKept
  <2> HIDE DEF p
  <2>3. Fires(q, p) /\ Flows(q, p)
    BY <2>2, SendDataBurstFires
  <2> HIDE DEF q
  <2>4. Fires(q, r) /\ q.dflow_state = "DATA_TX"
    <3>1. Rest(q, r)
      BY <2>2, <2>3 DEF Fires, Kept, Rest
    <3> QED
      BY <2>1, <2>2, <2>3, <3>1, KeptOn DEF Fires, Flows, Kept
  <2>5. AsBefore(r, r)
    BY <1>0 DEF AsBefore, Kept, Flows, Rest
  <2>6. Turns(r, q, f)
    BY <1>1, <2>4, <2>5, FiresTurns
  <2> QED
    BY <2>1, <2>6, TurnsStep
<1>4. ASSUME WaitAckRetransmit(s, burst) PROVE Turns(r, st'[s], f)
  <2> DEFINE left == IF r.pending_disconnect # "no" THEN 1 ELSE r.tx_retries_left
  <2>1. left - 1 \in Nat
    <3>1. r.tx_retries_left \in Nat /\ r.tx_retries_left > 0
      BY <1>0, <1>4, Fields DEF WaitAckRetransmit
    <3> QED
      BY <3>1
  <2>2. Become(s, TransmitNow([r EXCEPT !.tx_retries_left = left - 1], burst))
    BY <1>4 DEF WaitAckRetransmit
  <2> HIDE DEF left
  <2>3. Turns(r, TransmitNow([r EXCEPT !.tx_retries_left = left - 1], burst), f)
    BY <1>2, <2>1
  <2> QED
    BY <2>2, <2>3, TurnsStep
<1>5. ASSUME WaitAckExhausted(s, dead, burst, wanted) PROVE Turns(r, st'[s], f)
  <2> DEFINE m == SendCtrlFrame(r, "DISCONNECT")
             g == [m EXCEPT !.pending_disconnect = "no", !.tx_retries_left = DisconnectSlots]
             again == [r EXCEPT !.tx_retries_left = DataSlots]
  <2>1. Become(s, IF dead \/ r.pending_disconnect # "no"
                  THEN SessEnter(g, "DISCONNECTING", "TIMER_RETRY")
                  ELSE IF UpgradeStarts(again, wanted) THEN StartModeReq(again, wanted)
                  ELSE TransmitNow(again, burst))
    BY <1>5 DEF WaitAckExhausted
  <2>2. Turns(r, SessEnter(g, "DISCONNECTING", "TIMER_RETRY"), f)
    <3>1. Whole(m)
      BY <1>0, SendCtrlFrameKept DEF Kept, Rest
    <3> HIDE DEF m
    <3>2. Whole(g)
      BY <3>1 DEF Whole, SessionFields
    <3> HIDE DEF g
    <3> QED
      BY <3>2, SessEnterGone, GoneTurns
  <2>3. AsBefore(again, r) /\ DataSlots \in Nat
    BY <1>0, SlotsAsBefore, SlotAssumption
  <2>4. Turns(r, TransmitNow(again, burst), f)
    BY <1>2, <2>3
  <2> HIDE DEF again
  <2>5. ASSUME UpgradeStarts(again, wanted) PROVE Turns(r, StartModeReq(again, wanted), f)
    <3> DEFINE q == StartModeReq(again, wanted)
    <3>1. again.tx_window = <<>> /\ r.tx_window = <<>>
      BY <2>3, <2>5 DEF UpgradeStarts, AsBefore, Kept
    <3>2. Sends(q, again)
      BY <2>3, <3>1, StartModeReqKept DEF Sends, Kept, AsBefore, Rest
    <3>3. again.txq = r.txq /\ ~again.pending_connect_confirm /\ ~InHand(r)
      BY <1>1, <2>3, <3>1 DEF AsBefore, Kept, Rest, InHand
    <3> QED
      BY <1>1, <3>2, <3>3, SendsTurns
  <2> QED
    BY <2>1, <2>2, <2>4, <2>5, TurnsStep
<1> QED
  BY <1>3, <1>4, <1>5

\* A receiver asks for something.
LEMMA AsksTurns ==
    ASSUME NEW r, ~HasTurn(r), NEW q, ~q.pending_connect_confirm,
           q.dflow_state \in {"TURN_REQ_TX", "KEEPALIVE_TX", "IDLE_IRS"},
           q.dflow_state = "KEEPALIVE_TX" => q.keepalive_from_irs,
           \/ q.txq = r.txq
           \/ \E g : /\ g.type \in {"TURN_REQ", "KEEPALIVE"}
                     /\ q.txq = Append(r.txq, Control(g)),
           NEW f
    PROVE  Turns(r, q, f)
<1>1. Poised(q) /\ ~MayTake(q)
  BY DEF Poised, MayTake, HasTurn
<1>2. ~InHand(r)
  BY DEF InHand, HasTurn
<1>3. Adds(r, q)
  <2>1. CASE q.txq = r.txq
    BY <2>1 DEF Adds
  <2>2. ASSUME NEW g, g.type \in {"TURN_REQ", "KEEPALIVE"}, q.txq = Append(r.txq, Control(g))
        PROVE  Adds(r, q)
    BY <1>2, <2>2 DEF Adds, UttersControl
  <2> QED
    BY <2>1, <2>2
<1> QED
  BY <1>1, <1>3, YieldsTurns

LEMMA SendTurnReqTurns ==
    ASSUME NEW r, ~HasTurn(r), NEW p, Whole(p), p.txq = r.txq,
           ~p.pending_connect_confirm, NEW f
    PROVE  Turns(r, SendTurnReq(p), f)
<1> DEFINE q == DflowEnter(SendCtrlFrame(p, "TURN_REQ"), "TURN_REQ_TX", "TIMER_RETRY")
<1>1. /\ Kept(q, p) /\ q.dflow_state = "TURN_REQ_TX"
      /\ \E g : g.type = "TURN_REQ" /\ q.txq = Append(p.txq, Control(g))
  BY SpeakAndEnterKept
<1>2. q = SendTurnReq(p)
  BY DEF SendTurnReq
<1> HIDE DEF q
<1>3. q.pending_connect_confirm = p.pending_connect_confirm
  BY <1>1 DEF Kept, Rest
<1>4. ~q.pending_connect_confirm
  BY <1>3
<1>5. Turns(r, q, f)
  BY <1>1, <1>4, AsksTurns
<1> QED
  BY <1>2, <1>5

LEMMA SendKeepaliveTurns ==
    ASSUME NEW r, ~HasTurn(r), NEW p, Whole(p), p.txq = r.txq, p.keepalive_from_irs,
           ~p.pending_connect_confirm, NEW f
    PROVE  Turns(r, SendKeepalive(p), f)
<1> DEFINE q == DflowEnter(SendCtrlFrame(p, "KEEPALIVE"), "KEEPALIVE_TX", "TIMER_RETRY")
<1>1. /\ Kept(q, p) /\ q.dflow_state = "KEEPALIVE_TX"
      /\ \E g : g.type = "KEEPALIVE" /\ q.txq = Append(p.txq, Control(g))
  BY SpeakAndEnterKept
<1>2. q = SendKeepalive(p)
  BY DEF SendKeepalive
<1> HIDE DEF q
<1>3. q.pending_connect_confirm = p.pending_connect_confirm
      /\ q.keepalive_from_irs = p.keepalive_from_irs
  BY <1>1 DEF Kept, Rest
<1>4. ~q.pending_connect_confirm /\ q.keepalive_from_irs
  BY <1>3
<1>5. Turns(r, q, f)
  BY <1>1, <1>4, AsksTurns
<1> QED
  BY <1>2, <1>5

LEMMA EnterIdleIrsTurns ==
    ASSUME NEW r, NEW p, Whole(p), p.txq = r.txq, ~p.pending_connect_confirm,
           NEW f, f # NoFrame \/ ~HasTurn(r)
    PROVE  Turns(r, EnterIdleIrs(p), f)
<1> DEFINE q == EnterIdleIrs(p)
<1>1. Kept(q, p) /\ q.dflow_state = "IDLE_IRS" /\ q.txq = p.txq
  BY EnterIdleIrsKept
<1> HIDE DEF q
<1>2. q.pending_connect_confirm = p.pending_connect_confirm
  BY <1>1 DEF Kept, Rest
<1>3. ~q.pending_connect_confirm
  BY <1>2
<1>4. Poised(q) /\ ~MayTake(q) /\ Adds(r, q)
  BY <1>1, <1>3 DEF Poised, MayTake, HasTurn, Adds
<1>5. Turns(r, q, f)
  BY <1>3, <1>4, YieldsTurns
<1> QED
  BY <1>5 DEF q

LEMMA ReceiverTimerTurns ==
    ASSUME NEW s \in Station, Able(s), Poised(st[s]), st[s].txq = <<>>, NEW f,
           NEW quiet \in BOOLEAN,
           IdleIrsPeerBacklog(s, quiet) \/ DataRxGuardOver(s) \/ AckTxConfirm(s)
    PROVE  Turns(st[s], st'[s], f)
<1> DEFINE r == st[s]
<1>0. Whole(r)
  BY AbleFit
<1>1. ASSUME IdleIrsPeerBacklog(s, quiet) PROVE Turns(r, st'[s], f)
  <2> DEFINE p == Fired(s)
             k == [p EXCEPT !.keepalive_miss_count = 0, !.keepalive_from_irs = TRUE]
             t == [p EXCEPT !.tx_retries_left = TurnReqRetries]
  <2>1. /\ r.dflow_state = "IDLE_IRS"
        /\ Become(s, IF quiet THEN SendKeepalive(k)
                     ELSE IF HasBacklog(p) THEN SendTurnReq(t)
                     ELSE EnterIdleIrs(p))
    BY <1>1 DEF IdleIrsPeerBacklog, InFlow
  <2>2. Kept(p, r) /\ p.txq = r.txq
    BY FiredKept
  <2> HIDE DEF p
  <2>3. ~HasTurn(r) /\ ~r.pending_connect_confirm
    BY <2>1 DEF HasTurn, Poised
  <2>4. Whole(p) /\ p.pending_connect_confirm = r.pending_connect_confirm
    BY <2>2 DEF Kept, Rest
  <2>5. ~p.pending_connect_confirm
    BY <2>3, <2>4
  <2>6. /\ Whole(k) /\ k.txq = p.txq /\ k.keepalive_from_irs
        /\ k.pending_connect_confirm = p.pending_connect_confirm
    BY <2>4 DEF Whole, SessionFields
  <2>7. /\ Whole(t) /\ t.txq = p.txq
        /\ t.pending_connect_confirm = p.pending_connect_confirm
    BY <2>4 DEF Whole, SessionFields
  <2> HIDE DEF k, t
  <2>8. ~k.pending_connect_confirm /\ ~t.pending_connect_confirm
    BY <2>5, <2>6, <2>7
  <2>9. Turns(r, SendKeepalive(k), f)
    BY <2>2, <2>3, <2>6, <2>8, SendKeepaliveTurns
  <2>10. Turns(r, SendTurnReq(t), f)
    BY <2>2, <2>3, <2>7, <2>8, SendTurnReqTurns
  <2>11. Turns(r, EnterIdleIrs(p), f)
    BY <2>2, <2>3, <2>4, <2>5, EnterIdleIrsTurns
  <2> QED
    BY <2>1, <2>9, <2>10, <2>11, TurnsStep
<1>2. ASSUME DataRxGuardOver(s) PROVE Turns(r, st'[s], f)
  <2> DEFINE m == SendAck(r)
             has == HasBacklog(r)
             a == [m EXCEPT !.acktx_had_has_data = has]
             q == DflowEnter(a, "ACK_TX", "none")
  <2>1. Up(r) /\ r.dflow_state = "DATA_RX" /\ Become(s, q)
    BY <1>2 DEF DataRxGuardOver, InFlow, InConn, Up
  <2>2. Kept(m, r)
    BY <1>0, SendAckKept
  <2>3. PICK g : g.type = "ACK" /\ g.has_data = has /\ m.txq = Append(r.txq, Control(g))
    BY <1>0, SendAckKept
  <2> HIDE DEF m, has
  <2>4. /\ Whole(a) /\ a.conn_state = m.conn_state /\ a.txq = m.txq
        /\ a.pending_connect_confirm = m.pending_connect_confirm
        /\ a.peer_has_data = m.peer_has_data /\ a.acktx_had_has_data = has
    BY <2>2 DEF Whole, SessionFields, Kept, Rest
  <2> HIDE DEF a
  <2>5. Kept(q, a) /\ q.txq = a.txq /\ q.dflow_state = "ACK_TX"
    BY <2>4, DflowEnterKept
  <2> HIDE DEF q
  <2>6. /\ q.txq = Append(r.txq, Control(g))
        /\ q.pending_connect_confirm = r.pending_connect_confirm
        /\ q.peer_has_data = r.peer_has_data /\ q.acktx_had_has_data = g.has_data
    BY <2>2, <2>3, <2>4, <2>5 DEF Kept, Rest
  <2>7. ~q.pending_connect_confirm /\ ~HasTurn(r) /\ ~InHand(r)
    <3>1. ~r.pending_connect_confirm /\ ~HasTurn(r) /\ ~InHand(r)
      BY <2>1 DEF Poised, HasTurn, InHand
    <3> QED
      BY <2>6, <3>1
  <2>8. Poised(q) /\ ~Confirming(q)
    BY <2>5, <2>7 DEF Poised, Confirming
  <2>9. MayTake(q) => MayTake(r) /\ g.has_data
    BY <2>1, <2>5, <2>6, <2>7 DEF MayTake, HasTurn
  <2>10. Adds(r, q)
    <3>1. UttersControl(r, q, g)
      BY <2>3, <2>7, <2>9 DEF UttersControl
    <3> QED
      BY <2>6, <3>1 DEF Adds
  <2>11. Turns(r, q, f)
    BY <2>1, <2>7, <2>8, <2>9, <2>10 DEF Turns
  <2> QED
    BY <2>1, <2>11, TurnsStep
<1>3. ASSUME AckTxConfirm(s) PROVE Turns(r, st'[s], f)
  <2> DEFINE m == SendAck(r)
             q == DflowEnter(m, "ACK_TX", "none")
  <2>1. /\ Up(r) /\ r.dflow_state = "ACK_TX" /\ r.pending_connect_confirm
        /\ r.deadline = "TIMER_ACK" /\ Become(s, q)
    BY <1>3 DEF AckTxConfirm, InFlow, InConn, Up, Armed
  <2>2. Kept(m, r)
    BY <1>0, SendAckKept
  <2>3. PICK g : g.type = "ACK" /\ m.txq = Append(r.txq, Control(g))
    BY <1>0, SendAckKept
  <2> HIDE DEF m
  <2>4. Kept(q, m) /\ q.txq = m.txq /\ q.dflow_state = "ACK_TX" /\ q.deadline = "none"
    BY <2>2, DflowEnterKept DEF Kept, Rest
  <2> HIDE DEF q
  <2>5. Kept(q, r) /\ q.txq = Append(r.txq, Control(g))
    BY <2>2, <2>3, <2>4, KeptOn
  <2>6. q.conn_state = r.conn_state /\ q.pending_connect_confirm
    BY <2>1, <2>5 DEF Kept, Rest
  <2>7. Poised(q) /\ ~Confirming(q) /\ HasTurn(q)
    BY <2>1, <2>4, <2>6 DEF Poised, Up, Confirming, HasTurn
  <2>8. MayTake(r) /\ ~InHand(r) /\ Confirming(r)
    BY <2>1 DEF MayTake, HasTurn, InHand, Confirming
  <2>9. Adds(r, q)
    <3>0. q.rxlog = r.rxlog
      BY <2>5 DEF Kept, Rest
    <3>1. UttersControl(r, q, g)
      BY <2>3, <2>8, <3>0 DEF UttersControl
    <3> QED
      BY <2>5, <3>1 DEF Adds
  <2>10. Turns(r, q, f)
    BY <2>1, <2>7, <2>8, <2>9 DEF Turns
  <2> QED
    BY <2>1, <2>10, TurnsStep
<1> QED
  BY <1>1, <1>2, <1>3

\* What was waited for behind a guard is sent.
LEMMA GuardOverTurns ==
    ASSUME NEW s \in Station, Able(s), Poised(st[s]), st[s].txq = <<>>, NEW f,
           st[s].dflow_state # "ACK_TX", NEW q, Become(s, q),
           Kept(q, Fired(s)), Flows(q, Fired(s)),
           NEW g, q.txq = Append(st[s].txq, Control(g)),
           \/ g.type \in {"MODE_ACK", "KEEPALIVE_ACK"}
           \/ g.type = "TURN_ACK" /\ st[s].dflow_state = "TURN_ACK_TX"
    PROVE  Turns(st[s], st'[s], f)
<1> DEFINE r == st[s]
           p == Fired(s)
<1>1. Kept(p, r) /\ p.dflow_state = r.dflow_state
  BY FiredKept
<1> HIDE DEF p
<1>2. Kept(q, r) /\ q.dflow_state = r.dflow_state
  BY <1>1, KeptOn DEF Flows, p
<1>3. q.conn_state = r.conn_state /\ q.pending_connect_confirm = r.pending_connect_confirm
      /\ q.keepalive_from_irs = r.keepalive_from_irs
      /\ q.tx_window = r.tx_window /\ q.txlog = r.txlog /\ q.rxlog = r.rxlog
      /\ q.keepalive_ack_from_irs = r.keepalive_ack_from_irs
      /\ q.peer_has_data = r.peer_has_data /\ q.acktx_had_has_data = r.acktx_had_has_data
  BY <1>2 DEF Kept, Rest
<1>4. ~q.pending_connect_confirm
  <2>1. ~r.pending_connect_confirm
    BY DEF Poised
  <2> QED
    BY <1>3, <2>1
<1> HIDE DEF r
<1>5. Poised(q)
  BY <1>2, <1>3, <1>4 DEF Poised, Up, r
<1>6. (HasTurn(q) <=> HasTurn(r)) /\ (MayTake(q) <=> MayTake(r)) /\ (Up(q) <=> Up(r))
  BY <1>2, <1>3 DEF HasTurn, MayTake, Up
<1>7. Adds(r, q)
  <2>1. g.type = "TURN_ACK" => ~MayTake(q)
    BY <1>2 DEF MayTake, HasTurn, r
  <2>2. UttersControl(r, q, g)
    BY <2>1 DEF UttersControl, r
  <2> QED
    BY <2>2 DEF Adds, r
<1>8. InHand(r) => Holds(q, r)
  BY <1>2, <1>3 DEF InHand, Holds
<1>9. Turns(r, q, f)
  BY <1>4, <1>5, <1>6, <1>7, <1>8 DEF Turns, Confirming
<1> QED
  BY <1>9, TurnsStep DEF r

LEMMA TurnTimerTurns ==
    ASSUME NEW s \in Station, Able(s), Poised(st[s]), st[s].txq = <<>>, NEW f,
           \/ TurnReqRetry(s) \/ TurnAckGuardOver(s)
           \/ KeepaliveMiss(s) \/ KeepaliveAckGuardOver(s) \/ ModeAckGuardOver(s)
    PROVE  Turns(st[s], st'[s], f)
<1> DEFINE r == st[s]
<1>0. Whole(r)
  BY AbleFit
<1>1. ASSUME TurnReqRetry(s) PROVE Turns(r, st'[s], f)
  <2> DEFINE p == [r EXCEPT !.tx_retries_left = @ - 1]
  <2>1. /\ r.dflow_state = "TURN_REQ_WAIT"
        /\ Become(s, IF r.tx_retries_left > 0 THEN SendTurnReq(p) ELSE EnterIdleIrs(r))
    BY <1>1 DEF TurnReqRetry, InFlow
  <2>2. Whole(p) /\ p.txq = r.txq /\ p.pending_connect_confirm = r.pending_connect_confirm
    BY <1>0 DEF Whole, SessionFields
  <2> HIDE DEF p
  <2>3. ~HasTurn(r) /\ ~r.pending_connect_confirm
    BY <2>1 DEF HasTurn, Poised
  <2>4. ~p.pending_connect_confirm
    BY <2>2, <2>3
  <2>5. Turns(r, SendTurnReq(p), f) /\ Turns(r, EnterIdleIrs(r), f)
    BY <1>0, <2>2, <2>3, <2>4, SendTurnReqTurns, EnterIdleIrsTurns
  <2> QED
    BY <2>1, <2>5, TurnsStep
<1>2. ASSUME KeepaliveMiss(s) PROVE Turns(r, st'[s], f)
  <2> DEFINE p == [r EXCEPT !.keepalive_miss_count = @ + 1]
             m == SendCtrlFrame(p, "DISCONNECT")
             g == [m EXCEPT !.tx_retries_left = DisconnectSlots]
  <2>1. /\ Up(r) /\ r.dflow_state = "KEEPALIVE_WAIT"
        /\ Become(s, IF p.keepalive_miss_count >= KeepaliveMissLimit
                     THEN SessEnter(g, "DISCONNECTING", "TIMER_RETRY")
                     ELSE SendKeepalive(p))
    BY <1>2 DEF KeepaliveMiss, InFlow, InConn, Up
  <2>2. /\ Whole(p) /\ p.txq = r.txq /\ p.pending_connect_confirm = r.pending_connect_confirm
        /\ p.keepalive_from_irs = r.keepalive_from_irs
    BY <1>0 DEF Whole, SessionFields
  <2> HIDE DEF p
  <2>3. ~HasTurn(r) /\ ~r.pending_connect_confirm /\ r.keepalive_from_irs
    BY <2>1 DEF HasTurn, Poised
  <2>4. ~p.pending_connect_confirm /\ p.keepalive_from_irs
    BY <2>2, <2>3
  <2>5. Turns(r, SendKeepalive(p), f)
    BY <2>2, <2>3, <2>4, SendKeepaliveTurns
  <2>6. Whole(m)
    BY <2>2, SendCtrlFrameKept DEF Kept, Rest
  <2> HIDE DEF m
  <2>7. Whole(g)
    BY <2>6 DEF Whole, SessionFields
  <2> HIDE DEF g
  <2>8. Turns(r, SessEnter(g, "DISCONNECTING", "TIMER_RETRY"), f)
    BY <2>7, SessEnterGone, GoneTurns
  <2> QED
    BY <2>1, <2>5, <2>8, TurnsStep
<1>3. Whole(Fired(s)) /\ Fired(s).txq = r.txq
  BY FiredKept DEF Kept, Rest
<1>4. ASSUME TurnAckGuardOver(s) PROVE Turns(r, st'[s], f)
  <2> DEFINE q == SendCtrlFrame(Fired(s), "TURN_ACK")
  <2>1. Become(s, q) /\ r.dflow_state = "TURN_ACK_TX"
    BY <1>4 DEF TurnAckGuardOver, InFlow
  <2>2. Kept(q, Fired(s)) /\ Flows(q, Fired(s))
    BY <1>3, SendCtrlFrameKept
  <2>3. PICK g : g.type = "TURN_ACK" /\ q.txq = Append(Fired(s).txq, Control(g))
    BY <1>3, SendCtrlFrameKept
  <2> HIDE DEF q
  <2> QED
    BY <1>3, <2>1, <2>2, <2>3, GuardOverTurns
<1>5. ASSUME KeepaliveAckGuardOver(s) PROVE Turns(r, st'[s], f)
  <2> DEFINE q == SendCtrlFrame(Fired(s), "KEEPALIVE_ACK")
  <2>1. Become(s, q) /\ r.dflow_state = "KEEPALIVE_ACK_TX"
    BY <1>5 DEF KeepaliveAckGuardOver, InFlow
  <2>2. Kept(q, Fired(s)) /\ Flows(q, Fired(s))
    BY <1>3, SendCtrlFrameKept
  <2>3. PICK g : g.type = "KEEPALIVE_ACK" /\ q.txq = Append(Fired(s).txq, Control(g))
    BY <1>3, SendCtrlFrameKept
  <2> HIDE DEF q
  <2> QED
    BY <1>3, <2>1, <2>2, <2>3, GuardOverTurns
<1>6. ASSUME ModeAckGuardOver(s) PROVE Turns(r, st'[s], f)
  <2> DEFINE q == SendModeNegotiation(Fired(s), "MODE_ACK", r.peer_tx_mode)
  <2>1. Become(s, q) /\ r.dflow_state = "MODE_ACK_TX"
    BY <1>6 DEF ModeAckGuardOver, InFlow
  <2>2. Kept(q, Fired(s)) /\ Flows(q, Fired(s))
    BY <1>3, SendModeNegotiationKept
  <2>3. PICK g : g.type = "MODE_ACK" /\ q.txq = Append(Fired(s).txq, Control(g))
    BY <1>3, SendModeNegotiationKept
  <2> HIDE DEF q
  <2> QED
    BY <1>3, <2>1, <2>2, <2>3, GuardOverTurns
<1> QED
  BY <1>1, <1>2, <1>4, <1>5, <1>6

LEMMA ModeReqRetryTurns ==
    ASSUME NEW s \in Station, Able(s), Poised(st[s]), st[s].txq = <<>>, NEW f,
           ModeReqRetry(s)
    PROVE  Turns(st[s], st'[s], f)
<1> DEFINE r == st[s]
           p == [r EXCEPT !.tx_retries_left = @ - 1]
           n == [r EXCEPT !.pending_tx_mode = "none"]
           again == SendModeNegotiation(p, "MODE_REQ", r.pending_tx_mode)
           revert == SendModeNegotiation(n, "MODE_REQ", r.payload_mode)
           m == IF r.tx_retries_left > 0 THEN again ELSE revert
           q == DflowEnter(m, "MODE_REQ_TX", "none")
<1>0. Whole(r)
  BY AbleFit
<1>1. Up(r) /\ r.dflow_state = "MODE_REQ_WAIT" /\ Become(s, q)
  BY DEF ModeReqRetry, InFlow, InConn, Up
<1>2. Kept(p, r) /\ p.txq = r.txq /\ Kept(n, r) /\ n.txq = r.txq
  BY <1>0 DEF Kept, Rest, Whole, SessionFields
<1> HIDE DEF p, n
<1>3. Whole(p) /\ Whole(n)
  BY <1>2 DEF Kept, Rest
<1>4. /\ Kept(again, p) /\ \E g : g.type = "MODE_REQ" /\ again.txq = Append(p.txq, Control(g))
      /\ Kept(revert, n) /\ \E g : g.type = "MODE_REQ" /\ revert.txq = Append(n.txq, Control(g))
  BY <1>3, SendModeNegotiationKept
<1> HIDE DEF again, revert
<1>5. Kept(m, r) /\ \E g : g.type = "MODE_REQ" /\ m.txq = Append(r.txq, Control(g))
  BY <1>2, <1>4, KeptOn
<1> HIDE DEF m
<1>6. Kept(q, m) /\ q.txq = m.txq /\ q.dflow_state = "MODE_REQ_TX"
  BY <1>5, DflowEnterKept DEF Kept, Rest
<1> HIDE DEF q
<1>7. r.tx_window = <<>> /\ ~r.pending_connect_confirm /\ MayTake(r) /\ ~InHand(r)
  BY <1>1 DEF Poised, MayTake, HasTurn, InHand
<1>8. Sends(q, r)
  <2>1. Kept(q, r) /\ \E g : g.type = "MODE_REQ" /\ q.txq = Append(r.txq, Control(g))
    BY <1>5, <1>6, KeptOn
  <2> QED
    BY <1>6, <1>7, <2>1 DEF Sends, Kept
<1>9. Turns(r, q, f)
  BY <1>1, <1>7, <1>8, SendsTurns
<1> QED
  BY <1>1, <1>9, TurnsStep

LEMMA TimerUnhandledTurns ==
    ASSUME NEW s \in Station, Able(s), Poised(st[s]), NEW f, TimerUnhandled(s)
    PROVE  Turns(st[s], st'[s], f)
<1> DEFINE r == st[s]
           q == Fired(s)
<1>1. /\ r.dflow_state \in {"KEEPALIVE_TX", "TURN_REQ_TX"} /\ Up(r) /\ Become(s, q)
  BY DEF TimerUnhandled, InConn, Up
<1>2. Kept(q, r) /\ q.dflow_state = r.dflow_state /\ q.txq = r.txq
  BY FiredKept
<1> HIDE DEF q
<1>3. /\ q.pending_connect_confirm = r.pending_connect_confirm
      /\ q.keepalive_from_irs = r.keepalive_from_irs
  BY <1>2 DEF Kept, Rest
<1>4. /\ ~r.pending_connect_confirm /\ ~HasTurn(r)
      /\ r.dflow_state = "KEEPALIVE_TX" => r.keepalive_from_irs
  BY <1>1 DEF Poised, HasTurn
<1>5. Turns(r, q, f)
  BY <1>1, <1>2, <1>3, <1>4, AsksTurns
<1> QED
  BY <1>1, <1>5, TurnsStep

LEMMA OnTimerTurns ==
    ASSUME BurstFrames = 1, NEW s \in Station, Able(s), Poised(st[s]), st[s].txq = <<>>,
           OnTimer(s), NEW f
    PROVE  Turns(st[s], st'[s], f)
<1>1. CASE ForcedTeardown(s)
  BY <1>1, ForcedTeardownTurns
<1>2. CASE HandleTimer(s)
  <2>1. PICK wanted \in PayloadModes : TRUE
    BY ModeAssumption
  <2>2. CASE \/ CallingRetry(s) \/ AcceptingRetry(s)
             \/ DisconnectingGuardOver(s) \/ DisconnectingRetry(s)
    BY <2>2, CallTimerTurns
  <2>3. ASSUME NEW burst \in BurstSizes, DataTxGuardOver(s, burst) \/ WaitAckRetransmit(s, burst)
        PROVE  Turns(st[s], st'[s], f)
    <3>1. TRUE \in BOOLEAN
      OBVIOUS
    <3> QED
      BY <2>1, <2>3, <3>1, StreamTimerTurns
  <2>4. ASSUME NEW burst \in BurstSizes, NEW w \in PayloadModes, NEW dead \in BOOLEAN,
               WaitAckExhausted(s, dead, burst, w)
        PROVE  Turns(st[s], st'[s], f)
    BY <2>4, StreamTimerTurns
  <2>5. ASSUME NEW quiet \in BOOLEAN,
               IdleIrsPeerBacklog(s, quiet) \/ DataRxGuardOver(s) \/ AckTxConfirm(s)
        PROVE  Turns(st[s], st'[s], f)
    BY <2>5, ReceiverTimerTurns
  <2>6. CASE \/ TurnReqRetry(s) \/ TurnAckGuardOver(s)
             \/ KeepaliveMiss(s) \/ KeepaliveAckGuardOver(s) \/ ModeAckGuardOver(s)
    BY <2>6, TurnTimerTurns
  <2>7. CASE ModeReqRetry(s) \/ TimerUnhandled(s)
    BY <2>7, ModeReqRetryTurns, TimerUnhandledTurns
  <2> QED
    BY <1>2, <2>2, <2>3, <2>4, <2>5, <2>6, <2>7 DEF HandleTimer
<1> QED
  BY <1>1, <1>2 DEF OnTimer

LEMMA DataTxCompleteTurns ==
    ASSUME NEW s \in Station, Able(s), Poised(st[s]), NEW f,
           \/ DataTxComplete(s) \/ TurnReqTxComplete(s) \/ GaveTurnTxComplete(s)
           \/ KeepaliveTxComplete(s)
    PROVE  Turns(st[s], st'[s], f)
<1> DEFINE r == st[s]
<1>0. Whole(r)
  BY AbleFit
<1>1. ASSUME DataTxComplete(s) PROVE Turns(r, st'[s], f)
  <2> DEFINE q == DflowEnter(r, "WAIT_ACK", "TIMER_ACK")
  <2>1. Up(r) /\ r.dflow_state = "DATA_TX" /\ Become(s, q)
    BY <1>1 DEF DataTxComplete, InFlow, InConn, Up
  <2>2. Kept(q, r) /\ q.dflow_state = "WAIT_ACK" /\ q.txq = r.txq
    BY <1>0, DflowEnterKept
  <2> HIDE DEF q
  <2>3. ~r.pending_connect_confirm
    BY <2>1 DEF Poised
  <2>4. ~q.pending_connect_confirm
    <3>1. q.pending_connect_confirm = r.pending_connect_confirm
      BY <2>2 DEF Kept, Rest
    <3> QED
      BY <2>3, <3>1
  <2>5. Poised(q) /\ HasTurn(q) /\ Adds(r, q) /\ ~Confirming(q) /\ MayTake(r)
    BY <2>1, <2>2, <2>4 DEF Poised, HasTurn, Adds, Confirming, MayTake
  <2>6. InHand(r) => Holds(q, r)
    BY <2>2 DEF InHand, Holds, Kept
  <2>7. Turns(r, q, f)
    BY <2>1, <2>5, <2>6 DEF Turns
  <2> QED
    BY <2>1, <2>7, TurnsStep
<1>2. ASSUME NEW state \in {"TURN_REQ_WAIT", "KEEPALIVE_WAIT"}, NEW event,
             Become(s, DflowEnter(r, state, event)), Up(r),
             state = "TURN_REQ_WAIT" => r.dflow_state = "TURN_REQ_TX",
             state = "KEEPALIVE_WAIT" => r.dflow_state = "KEEPALIVE_TX"
      PROVE  Turns(r, st'[s], f)
  <2> DEFINE q == DflowEnter(r, state, event)
  <2>1. Kept(q, r) /\ q.dflow_state = state /\ q.txq = r.txq
    BY <1>0, DflowEnterKept
  <2>2. Become(s, q)
    BY <1>2
  <2> HIDE DEF q
  <2>3. /\ ~r.pending_connect_confirm
        /\ r.dflow_state \in {"TURN_REQ_TX", "KEEPALIVE_TX"}
        /\ state = "KEEPALIVE_WAIT" => r.keepalive_from_irs
    BY <1>2 DEF Poised
  <2>4. ~HasTurn(r)
    BY <2>3 DEF HasTurn
  <2>5. /\ q.pending_connect_confirm = r.pending_connect_confirm
        /\ q.keepalive_from_irs = r.keepalive_from_irs
    BY <2>1 DEF Kept, Rest
  <2>6. ~q.pending_connect_confirm /\ (state = "KEEPALIVE_WAIT" => q.keepalive_from_irs)
    BY <2>3, <2>5
  <2>7. Poised(q) /\ ~MayTake(q) /\ Adds(r, q)
    BY <1>2, <2>1, <2>6 DEF Poised, MayTake, HasTurn, Adds
  <2>8. Turns(r, q, f)
    BY <2>4, <2>6, <2>7, YieldsTurns
  <2> QED
    BY <2>2, <2>8, TurnsStep
<1>3. ASSUME GaveTurnTxComplete(s) PROVE Turns(r, st'[s], f)
  <2>1. r.dflow_state \in {"TURN_ACK_TX", "MODE_ACK_TX"} /\ Become(s, EnterIdleIrs(r))
    BY <1>3 DEF GaveTurnTxComplete
  <2>2. ~HasTurn(r) /\ ~r.pending_connect_confirm
    BY <2>1 DEF HasTurn, Poised
  <2>3. Turns(r, EnterIdleIrs(r), f)
    BY <1>0, <2>2, EnterIdleIrsTurns
  <2> QED
    BY <2>1, <2>3, TurnsStep
<1>4. ASSUME TurnReqTxComplete(s) PROVE Turns(r, st'[s], f)
  BY <1>2, <1>4 DEF TurnReqTxComplete, InFlow, InConn, Up
<1>5. ASSUME KeepaliveTxComplete(s) PROVE Turns(r, st'[s], f)
  BY <1>2, <1>5 DEF KeepaliveTxComplete, InFlow, InConn, Up
<1> QED
  BY <1>1, <1>3, <1>4, <1>5

LEMMA ModeReqTxCompleteTurns ==
    ASSUME NEW s \in Station, Able(s), Poised(st[s]), NEW f, NEW burst \in BurstSizes,
           ModeReqTxComplete(s, burst)
    PROVE  Turns(st[s], st'[s], f)
<1> DEFINE r == st[s]
           p == [r EXCEPT !.tx_retries_left = DataSlots]
           q == DflowEnter(r, "MODE_REQ_WAIT", "TIMER_RETRY")
<1>0. Whole(r)
  BY AbleFit
<1>1. /\ Up(r) /\ r.dflow_state = "MODE_REQ_TX"
      /\ Become(s, IF r.pending_tx_mode # "none" THEN q
                   ELSE IF HasBacklog(p) THEN TransmitGuarded(p) ELSE EnterIdleIss(p, burst))
  BY DEF ModeReqTxComplete, InFlow, InConn, Up
<1>2. r.tx_window = <<>> /\ ~r.pending_connect_confirm /\ MayTake(r) /\ ~InHand(r)
  BY <1>1 DEF Poised, MayTake, HasTurn, InHand
<1>3. AsBefore(p, r)
  BY <1>0, SlotsAsBefore
<1>4. Kept(q, r) /\ q.txq = r.txq /\ q.dflow_state = "MODE_REQ_WAIT"
  BY <1>0, DflowEnterKept
<1> HIDE DEF p, q
<1>5. Whole(p) /\ p.txq = r.txq /\ p.pending_connect_confirm = r.pending_connect_confirm
  BY <1>3 DEF AsBefore, Kept, Rest
<1>6. ~p.pending_connect_confirm
  BY <1>2, <1>5
<1>7. Sends(TransmitGuarded(p), p) /\ (~HasBacklog(p) => Sends(EnterIdleIss(p, burst), p))
  BY <1>5, TransmitGuardedKept, EnterIdleIssSends DEF Sends
<1>8. /\ Turns(r, TransmitGuarded(p), f)
      /\ ~HasBacklog(p) => Turns(r, EnterIdleIss(p, burst), f)
  BY <1>1, <1>2, <1>5, <1>6, <1>7, SendsTurns
<1>9. Turns(r, q, f)
  <2>1. q.pending_connect_confirm = r.pending_connect_confirm /\ q.tx_window = r.tx_window
    BY <1>4 DEF Kept, Rest
  <2>2. ~q.pending_connect_confirm /\ q.tx_window = <<>>
    BY <1>2, <2>1
  <2>3. Poised(q) /\ HasTurn(q) /\ Adds(r, q)
    BY <1>4, <2>2 DEF Poised, HasTurn, Adds
  <2> QED
    BY <1>1, <1>2, <2>2, <2>3 DEF Turns, Confirming
<1> QED
  BY <1>1, <1>8, <1>9, TurnsStep

LEMMA AnswerTxCompleteTurns ==
    ASSUME NEW s \in Station, Able(s), Poised(st[s]), NEW f,
           NEW burst \in BurstSizes, NEW wanted \in PayloadModes,
           KeepaliveAckTxComplete(s, wanted) \/ AckTxComplete(s, burst, wanted)
    PROVE  Turns(st[s], st'[s], f)
<1> DEFINE r == st[s]
<1>0. Whole(r)
  BY AbleFit
<1>1. ASSUME KeepaliveAckTxComplete(s, wanted) PROVE Turns(r, st'[s], f)
  <2>1. /\ Up(r) /\ r.dflow_state = "KEEPALIVE_ACK_TX"
        /\ Become(s, IF r.keepalive_ack_from_irs THEN EnterIdleIrs(r)
                     ELSE EnterIdleIssGuarded(r, wanted))
    BY <1>1 DEF KeepaliveAckTxComplete, AfterKeepalive, InFlow, InConn, Up
  <2>2. ~r.pending_connect_confirm /\ ~InHand(r)
    BY <2>1 DEF Poised, InHand
  <2>3. ASSUME r.keepalive_ack_from_irs PROVE Turns(r, EnterIdleIrs(r), f)
    <3>1. ~HasTurn(r)
      BY <2>1, <2>3 DEF HasTurn
    <3> QED
      BY <1>0, <2>2, <3>1, EnterIdleIrsTurns
  <2>4. ASSUME ~r.keepalive_ack_from_irs PROVE Turns(r, EnterIdleIssGuarded(r, wanted), f)
    <3>1. MayTake(r)
      BY <2>1, <2>4 DEF MayTake, HasTurn
    <3>2. Sends(EnterIdleIssGuarded(r, wanted), r)
      BY <1>0, EnterIdleIssGuardedSends
    <3> QED
      BY <2>1, <2>2, <3>1, <3>2, SendsTurns
  <2>5. \/ r.keepalive_ack_from_irs /\ Become(s, EnterIdleIrs(r))
        \/ ~r.keepalive_ack_from_irs /\ Become(s, EnterIdleIssGuarded(r, wanted))
    BY <2>1
  <2> QED
    BY <2>3, <2>4, <2>5, TurnsStep
<1>2. ASSUME AckTxComplete(s, burst, wanted) PROVE Turns(r, st'[s], f)
  <2> DEFINE p == [r EXCEPT !.pending_connect_confirm = FALSE]
  <2>1. /\ Up(r) /\ r.dflow_state = "ACK_TX"
        /\ Become(s, IF r.pending_connect_confirm
                     THEN IF HasBacklog(p) THEN EnterIdleIssGuarded(p, wanted)
                          ELSE EnterIdleIss(p, burst)
                     ELSE IF ~p.peer_has_data /\ p.acktx_had_has_data
                     THEN EnterIdleIssGuarded(p, wanted) ELSE EnterIdleIrs(p))
    BY <1>2 DEF AckTxComplete, InFlow, InConn, Up
  <2>2. /\ Whole(p) /\ p.txq = r.txq /\ ~p.pending_connect_confirm
        /\ p.peer_has_data = r.peer_has_data /\ p.acktx_had_has_data = r.acktx_had_has_data
    BY <1>0 DEF Whole, SessionFields
  <2> HIDE DEF p
  <2>3. Sends(EnterIdleIssGuarded(p, wanted), p)
        /\ (~HasBacklog(p) => Sends(EnterIdleIss(p, burst), p))
    BY <2>2, EnterIdleIssGuardedSends, EnterIdleIssSends
  <2>4. ~InHand(r)
    BY <2>1 DEF InHand
  <2>5. ASSUME MayTake(r)
        PROVE  /\ Turns(r, EnterIdleIssGuarded(p, wanted), f)
               /\ ~HasBacklog(p) => Turns(r, EnterIdleIss(p, burst), f)
    BY <2>1, <2>2, <2>3, <2>4, <2>5, SendsTurns
  <2>6. ~r.pending_connect_confirm => Turns(r, EnterIdleIrs(p), f)
    <3>1. ~r.pending_connect_confirm => ~HasTurn(r)
      BY <2>1 DEF HasTurn
    <3> QED
      BY <2>2, <3>1, EnterIdleIrsTurns
  <2>7. r.pending_connect_confirm => MayTake(r)
    BY <2>1 DEF MayTake, HasTurn
  <2>8. ~p.peer_has_data /\ p.acktx_had_has_data => MayTake(r)
    <3>1. ~p.peer_has_data /\ p.acktx_had_has_data => ~r.peer_has_data /\ r.acktx_had_has_data
      BY <2>2
    <3> QED
      BY <2>1, <3>1 DEF MayTake
  <2>9. \/ r.pending_connect_confirm /\ Become(s, EnterIdleIssGuarded(p, wanted))
        \/ /\ r.pending_connect_confirm /\ ~HasBacklog(p)
           /\ Become(s, EnterIdleIss(p, burst))
        \/ /\ ~p.peer_has_data /\ p.acktx_had_has_data
           /\ Become(s, EnterIdleIssGuarded(p, wanted))
        \/ ~r.pending_connect_confirm /\ Become(s, EnterIdleIrs(p))
    BY <2>1
  <2> QED
    BY <2>5, <2>6, <2>7, <2>8, <2>9, TurnsStep
<1> QED
  BY <1>1, <1>2

LEMMA OnTxCompleteTurns ==
    ASSUME NEW s \in Station, Able(s), Poised(st[s]), OnTxComplete(s), NEW f
    PROVE  Turns(st[s], st'[s], f)
<1> DEFINE r == st[s]
<1>0. Whole(r)
  BY AbleFit
<1>1. CASE ForcedTeardown(s)
  BY <1>1, ForcedTeardownTurns
<1>2. CASE DisconnectedTxComplete(s)
  <2> DEFINE p == [r EXCEPT !.pending_disconnect_notify = FALSE]
  <2>1. Become(s, EndCall(p))
    BY <1>2 DEF DisconnectedTxComplete
  <2>2. Whole(p)
    BY <1>0 DEF Whole, SessionFields
  <2> HIDE DEF p
  <2>3. Turns(r, EndCall(p), f)
    BY <2>2, EndCallGone, GoneTurns
  <2> QED
    BY <2>1, <2>3, TurnsStep
<1>3. CASE AcceptingTxComplete(s)
  <2> DEFINE p == [r EXCEPT !.deadline = "TIMER_RETRY"]
  <2>1. Become(s, p) /\ r.conn_state = "ACCEPTING"
    BY <1>3 DEF AcceptingTxComplete, InConn
  <2>2. /\ p.conn_state = r.conn_state
        /\ p.pending_connect_confirm = r.pending_connect_confirm
    BY <1>0 DEF Whole, SessionFields
  <2>3. ~r.pending_connect_confirm
    BY <2>1 DEF Poised, Up
  <2> HIDE DEF p
  <2>4. ~p.pending_connect_confirm
    BY <2>2, <2>3
  <2>5. Turns(r, p, f)
    BY <2>1, <2>2, <2>4, GoneTurns DEF Gone, Up
  <2> QED
    BY <2>1, <2>5, TurnsStep
<1>4. CASE TxCompleteIgnored(s)
  <2>1. st'[s] = st[s]
    BY <1>4 DEF TxCompleteIgnored
  <2>2. AsBefore(r, r)
    BY <1>0 DEF AsBefore, Kept, Flows, Rest
  <2> QED
    BY <2>1, <2>2, AsBeforeTurnsStill
<1>5. 1 \in BurstSizes /\ SafeMode \in PayloadModes
  BY ModeAssumption DEF BurstSizes
<1> QED
  BY <1>1, <1>2, <1>3, <1>4, <1>5, DataTxCompleteTurns, ModeReqTxCompleteTurns,
     AnswerTxCompleteTurns
  DEF OnTxComplete, HandleTxComplete

LEMMA OnDataReadyTurns ==
    ASSUME BurstFrames = 1, NEW s \in Station, Able(s), Poised(st[s]), st[s].txq = <<>>,
           OnDataReady(s), NEW f
    PROVE  Turns(st[s], st'[s], f)
<1> DEFINE r == st[s]
           p == [r EXCEPT !.data_ready = @ - 1]
<1>0. Good(r) /\ Whole(r)
  BY AbleFit DEF Able
<1>1. AsBefore(p, r) /\ Good(p)
  <2>1. r.data_ready - 1 \in Nat
    BY <1>0, Fields DEF OnDataReady
  <2> QED
    BY <1>0, <2>1, Keeps DEF AsBefore, Kept, Flows, Rest, Whole, SessionFields
<1>2. Whole(p) /\ p.txq = r.txq /\ p.pending_connect_confirm = r.pending_connect_confirm
  BY <1>1 DEF AsBefore, Kept, Rest
<1>3. CASE Become(s, StartDisconnect(p)) /\ Overdue(r)
  <2> HIDE DEF p
  <2> QED
    BY <1>2, <1>3, StartDisconnectGone, GoneTurns, TurnsStep
<1>4. ASSUME NEW burst \in BurstSizes, IdleIssDataReady(s, burst)
      PROVE  Turns(r, st'[s], f)
  <2> DEFINE g == [p EXCEPT !.need_initial_guard = FALSE]
  <2>1. /\ Up(r) /\ r.dflow_state = "IDLE_ISS"
        /\ Become(s, IF p.need_initial_guard THEN TransmitGuarded(g) ELSE TransmitNow(p, burst))
    BY <1>4 DEF IdleIssDataReady, InFlow, InConn, Up
  <2>2. ~r.pending_connect_confirm /\ MayTake(r) /\ ~InHand(r)
    BY <2>1 DEF Poised, MayTake, HasTurn, InHand
  <2> HIDE DEF p
  <2>3. /\ Whole(g) /\ g.txq = r.txq
        /\ g.pending_connect_confirm = p.pending_connect_confirm
    BY <1>2 DEF Whole, SessionFields
  <2> HIDE DEF g
  <2>4. ~g.pending_connect_confirm
    BY <1>2, <2>2, <2>3
  <2>5. Turns(r, TransmitGuarded(g), f)
    <3>1. Sends(TransmitGuarded(g), g)
      BY <2>3, TransmitGuardedKept DEF Sends
    <3> QED
      BY <2>1, <2>2, <2>3, <2>4, <3>1, SendsTurns
  <2>6. Turns(r, TransmitNow(p, burst), f)
    <3>1. Fires(TransmitNow(p, burst), p) /\ TransmitNow(p, burst).dflow_state = "DATA_TX"
      BY <1>1, TransmitNowFires
    <3> QED
      BY <1>1, <2>1, <2>2, <3>1, FiresTurns
  <2> QED
    BY <2>1, <2>5, <2>6, TurnsStep
<1>5. CASE IdleIrsDataReady(s)
  <2> DEFINE t == [p EXCEPT !.tx_retries_left = TurnReqRetries]
  <2>1. Become(s, SendTurnReq(t)) /\ r.dflow_state = "IDLE_IRS"
    BY <1>5 DEF IdleIrsDataReady, InFlow
  <2> HIDE DEF p
  <2>2. /\ Whole(t) /\ t.txq = r.txq
        /\ t.pending_connect_confirm = p.pending_connect_confirm
    BY <1>2 DEF Whole, SessionFields
  <2> HIDE DEF t
  <2>3. ~HasTurn(r) /\ ~r.pending_connect_confirm
    BY <2>1 DEF HasTurn, Poised
  <2>4. ~t.pending_connect_confirm
    BY <1>2, <2>2, <2>3
  <2>5. Turns(r, SendTurnReq(t), f)
    BY <2>2, <2>3, <2>4, SendTurnReqTurns
  <2> QED
    BY <2>1, <2>5, TurnsStep
<1>6. CASE DataReadyIgnored(s)
  <2> HIDE DEF p
  <2>1. Turns(r, p, f)
    BY <1>1, AsBeforeTurnsStill
  <2> QED
    BY <1>6, <2>1, TurnsStep DEF DataReadyIgnored, p
<1> QED
  BY <1>3, <1>4, <1>5, <1>6 DEF OnDataReady, HandleDataReady

LEMMA HostWriteTurns ==
    ASSUME NEW s \in Station, Able(s), Poised(st[s]), HostWrite(s), NEW f
    PROVE  Turns(st[s], st'[s], f)
<1> DEFINE r == st[s]
           q == [r EXCEPT !.written = @ + 1, !.backlog = Append(@, r.written + 1),
                          !.data_ready = @ + 1]
<1>1. Whole(r)
  BY AbleFit
<1>2. Become(s, q)
  BY DEF HostWrite
<1>3. AsBefore(q, r)
  BY <1>1 DEF AsBefore, Kept, Flows, Rest, Whole, SessionFields
<1> HIDE DEF q
<1> QED
  BY <1>2, <1>3, AsBeforeTurnsStill, TurnsStep

LEMMA DrainDeadlinePassesTurns ==
    ASSUME NEW s \in Station, Able(s), Poised(st[s]), DrainDeadlinePasses(s), NEW f
    PROVE  Turns(st[s], st'[s], f)
<1> DEFINE r == st[s]
           q == [r EXCEPT !.pending_disconnect = "overdue"]
<1>1. Whole(r)
  BY AbleFit
<1>2. Become(s, q)
  BY DEF DrainDeadlinePasses
<1>3. AsBefore(q, r)
  BY <1>1 DEF AsBefore, Kept, Flows, Rest, Whole, SessionFields
<1> HIDE DEF q
<1> QED
  BY <1>2, <1>3, AsBeforeTurnsStill, TurnsStep

-----------------------------------------------------------------------------
(* What is taken for an ACK: a window goes when a new unit comes, or a mode  *)
(* request, and only one that is on its way.                                 *)
Implies(r, q, f) ==
    Up(r) /\ Up(q) /\ f.type \in {"DATA", "MODE_REQ"} /\ Base(q) # Base(r) =>
        InHand(r) /\ (f.type = "DATA" => q.rxlog # r.rxlog)

LEMMA WaitAckRxDataImplies ==
    ASSUME NEW s \in Station, Able(s), NEW f, Sent(f), NEW burst \in BurstSizes,
           WaitAckRxData(s, f, burst)
    PROVE  Implies(st[s], st'[s], f)
<1> DEFINE r == st[s]
           i == ImplicitAck(r)
           p == [r EXCEPT !.peer_tx_mode = f.mode]
<1>0. /\ Whole(r) /\ Good(r) /\ r.rxlog \in Seq(Nat)
      /\ InConn(s, "CONNECTED") => Fit(r)
  BY AbleFit, Fields
<1>1. /\ Up(r) /\ f.type = "DATA" /\ r.dflow_state = "WAIT_ACK" /\ Fit(r)
      /\ Become(s, IF IsNew(r, f) THEN ReceiveData(i, f) ELSE TransmitNow(p, burst))
  BY <1>0 DEF WaitAckRxData, InFlow, InConn, Up
<1>2. CASE IsNew(r, f)
  <2> DEFINE q == ReceiveData(i, f)
  <2>1. /\ Whole(i) /\ Good(i) /\ i.rxlog = r.rxlog /\ i.txlog = r.txlog /\ i.tx_window = <<>>
        /\ i.rx_expected = r.rx_expected
    <3>1. Good(i)
      BY <1>0, ImplicitAckGood
    <3> QED
      BY <1>0, <3>1 DEF ImplicitAck, Whole, SessionFields
  <2> HIDE DEF i
  <2>2. IsNew(i, f)
    BY <1>2, <2>1 DEF IsNew
  <2>3. q.rxlog # r.rxlog
    BY <1>0, <2>1, <2>2, ReceiveDataKept
  <2>4. q.txlog = r.txlog /\ q.tx_window = <<>>
    BY <2>1, ReceiveDataIs
  <2> HIDE DEF q
  <2>5. r.tx_window = <<>> => Base(q) = Base(r)
    BY <2>4 DEF Base
  <2>6. st'[s] = q
    BY <1>1, <1>2, BecomeIs DEF q
  <2> QED
    BY <1>1, <2>3, <2>5, <2>6 DEF Implies, InHand
<1>3. CASE ~IsNew(r, f)
  <2>1. Twin(p, r) /\ Good(p)
    <3>1. f.mode \in PayloadModes
      BY <1>1 DEF Sent, WellFormed
    <3> QED
      BY <1>0, <3>1, Keeps DEF Twin, Same, Whole, SessionFields
  <2>2. Become(s, TransmitNow(p, burst))
    BY <1>1, <1>3
  <2>3. Base(p) = Base(r) /\ Fit(p) /\ Active(p) /\ Up(p)
    <3>1. Active(r)
      BY <1>1 DEF Active, Busy
    <3> QED
      BY <1>1, <2>1, <3>1, TwinFit, TwinActive DEF Twin, Same, Base, Up
  <2> HIDE DEF p
  <2>4. Carries(TransmitNow(p, burst), p)
    BY <2>3, TransmitNowCarries
  <2>5. Up(TransmitNow(p, burst)) => Base(TransmitNow(p, burst)) = Base(p)
    BY <2>3, <2>4 DEF Carries
  <2>6. st'[s] = TransmitNow(p, burst)
    BY <2>2, BecomeIs
  <2> QED
    BY <2>3, <2>5, <2>6 DEF Implies
<1> QED
  BY <1>2, <1>3

LEMMA OnFrameImplies ==
    ASSUME NEW s \in Station, Able(s), NEW f, Sent(f), OnFrame(s, f)
    PROVE  Implies(st[s], st'[s], f)
<1> DEFINE r == st[s]
<1>0. Whole(r) /\ Good(r)
  BY AbleFit
<1>1. CASE ForcedTeardown(s)
  <2>1. ~Up(st'[s])
    BY <1>0, <1>1, StartDisconnectGone, BecomeIs DEF ForcedTeardown, Gone
  <2> QED
    BY <2>1 DEF Implies
<1>2. CASE RxData(s, f)
  <2> DEFINE q == ReceiveData(r, f)
  <2>1. Become(s, q)
    BY <1>2 DEF RxData
  <2>2. q.txlog = r.txlog /\ q.tx_window = r.tx_window
    BY <1>0, ReceiveDataIs
  <2> HIDE DEF q
  <2> QED
    BY <2>1, <2>2, BecomeIs DEF Implies, Base
<1>3. CASE RxModeReq(s, f)
  <2> DEFINE i == IF r.dflow_state = "WAIT_ACK" THEN ImplicitAck(r) ELSE r
             e == [i EXCEPT !.peer_tx_mode = f.mode]
             q == DflowEnter(e, "MODE_ACK_TX", "TIMER_ACK")
  <2>1. Become(s, q)
    BY <1>3 DEF RxModeReq
  <2>2. /\ Whole(i) /\ i.txlog = r.txlog
        /\ \/ i.tx_window = r.tx_window
           \/ r.dflow_state = "WAIT_ACK" /\ i.tx_window = <<>>
    BY <1>0 DEF ImplicitAck, Whole, SessionFields
  <2> HIDE DEF i
  <2>3. Whole(e) /\ e.txlog = i.txlog /\ e.tx_window = i.tx_window
    BY <2>2 DEF Whole, SessionFields
  <2> HIDE DEF e
  <2>4. q.txlog = e.txlog /\ q.tx_window = e.tx_window
    BY <2>3, DflowEnterKept DEF Kept
  <2> HIDE DEF q
  <2>5. Base(q) = Base(r) \/ InHand(r)
    BY <2>2, <2>3, <2>4 DEF Base, InHand
  <2>6. f.type = "MODE_REQ"
    BY <1>3 DEF RxModeReq
  <2> QED
    BY <2>1, <2>5, <2>6, BecomeIs DEF Implies
<1>4. CASE \E burst \in BurstSizes : WaitAckRxData(s, f, burst)
  BY <1>4, WaitAckRxDataImplies
<1>5. CASE \/ ListeningRxTraffic(s, f) \/ AcceptingRxTraffic(s, f)
           \/ f.type \notin {"DATA", "MODE_REQ"}
  BY <1>5 DEF ListeningRxTraffic, AcceptingRxTraffic, InConn, Implies, Up
<1> QED
  BY <1>1, <1>2, <1>3, <1>4, <1>5
  DEF OnFrame, HandleFrame, ListeningRxCall, ListeningRxAccept, AcceptingRxCall,
      ConnectedRxAccept, ConnectedRxDisconnect, DisconnectingRxDisconnect,
      ConnectedRxKeepalive, RxTurnReq, CallingRxAccept, WaitAckRxAck,
      TurnReqRxTurnAck, KeepaliveWaitRx, ModeReqRxModeAck

(* The transmitter takes an action; the rest stays, or the session is over.  *)
Keyed(r, q) ==
    /\ Poised(q)
    /\ Up(q) => Kept(q, r) /\ Flows(q, r)
    /\ Actions(q) \subseteq Actions(r)
    /\ Len(r.txq) = 1 => q.txq = <<>>

LEMMA TxStartKeyed ==
    ASSUME NEW s \in Station, Able(s), Poised(st[s]), TxStart(s)
    PROVE  Keyed(st[s], st'[s])
<1> DEFINE r == st[s]
           k == NextAction(r.txq)
           b == r.txq[k]
           queue == RemoveAt(r.txq, k)
<1>0. /\ Good(r) /\ Whole(r) /\ r.txq \in Seq(Burst)
  BY AbleFit, Fields DEF Able
<1>1. r.txq # <<>>
  BY DEF TxStart
<1>2. k \in 1 .. Len(r.txq)
  BY <1>0, <1>1, NextActionInQueue
<1>3. PICK mode \in RecordedModes(r, b) :
         LET p == [r EXCEPT !.txq = queue, !.payload_mode = mode]
         IN  Become(s, IF Overdue(p) THEN StartDisconnect(p) ELSE p)
  BY DEF TxStart
<1>4. Len(r.txq) = 1 => queue = <<>>
  <2> SUFFICES ASSUME Len(r.txq) = 1 PROVE queue = <<>>
    OBVIOUS
  <2> DEFINE t == r.txq
  <2>1. t \in Seq(Burst) /\ k = 1 /\ Len(t) = 1
    BY <1>0, <1>2
  <2> HIDE DEF t, k
  <2>2. RemoveAt(t, k) = SubSeq(t, 1, 0) \o SubSeq(t, 2, 1)
    BY <2>1 DEF RemoveAt
  <2>3. SubSeq(t, 1, 0) = <<>> /\ SubSeq(t, 2, 1) = <<>>
    BY <2>1
  <2> QED
    BY <2>2, <2>3 DEF t
<1>5. Actions(st'[s]) \subseteq Actions(r)
  BY TxStartCarries
<1> DEFINE p == [r EXCEPT !.txq = queue, !.payload_mode = mode]
<1>6. Become(s, IF Overdue(p) THEN StartDisconnect(p) ELSE p)
  BY <1>3
<1> HIDE DEF queue, b, k
<1>7. Kept(p, r) /\ Flows(p, r) /\ p.txq = queue
  BY <1>0 DEF Kept, Flows, Rest, Whole, SessionFields
<1> HIDE DEF p
<1>8. CASE Become(s, StartDisconnect(p))
  <2>1. Gone(StartDisconnect(p)) /\ StartDisconnect(p).txq = p.txq
    BY <1>7, StartDisconnectGone, StartDisconnectSame DEF Kept, Rest
  <2> QED
    BY <1>4, <1>5, <1>7, <1>8, <2>1, BecomeIs DEF Keyed, Gone, Poised
<1>9. CASE Become(s, p)
  <2>1. Poised(p)
    <3>1. /\ p.conn_state = r.conn_state /\ p.dflow_state = r.dflow_state
          /\ p.pending_connect_confirm = r.pending_connect_confirm
          /\ p.keepalive_from_irs = r.keepalive_from_irs /\ p.tx_window = r.tx_window
      BY <1>7 DEF Kept, Rest, Flows
    <3> QED
      BY <3>1 DEF Poised, Up
  <2> QED
    BY <1>4, <1>5, <1>7, <1>9, <2>1, BecomeIs DEF Keyed
<1> QED
  BY <1>6, <1>8, <1>9

=============================================================================

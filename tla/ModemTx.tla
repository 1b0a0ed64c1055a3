------------------------------- MODULE ModemTx -------------------------------
(***************************************************************************)
(* The way of a frame from the state machine to the transmitter: the three *)
(* rings and the action queue, cb_send_tx_frame, which fills them from two *)
(* threads, and tx_thread, which empties them, by the actions of the queue *)
(* or, when there is none, by what the rings hold.                         *)
(*                                                                         *)
(* A frame is as many units as its mode takes; a ring is a queue of units, *)
(* so a frame can be read in part.  Of the state machine there is what the *)
(* transmit thread reads of it, and when it sends: ArqFsm has the rest.    *)
(* A burst of data is one frame.                                           *)
(***************************************************************************)
EXTENDS Integers, Sequences, SequencesExt

CONSTANTS
    Ctl,        \* the control mode
    Size,       \* units a frame takes, of Ctl and of each payload mode
    Base,       \* the payload mode a session begins with
    Startup,    \* the mode of the command line, that of broadcasts
    QueueSlots, \* capacity of the action queue
    \* Bounds on what is explored; none of them is in the code.
    Ahead,      \* actions not taken yet when the state machine sends again
    Sends, Cqs, Broadcasts, Aborts,     \* of each kind,
    Inputs                              \* and of all together

Modes == DOMAIN Size
PayloadModes == Modes \ {Ctl}

ASSUME ModeAssumption ==
    /\ Ctl \in Modes /\ {Base, Startup} \subseteq PayloadModes
    /\ \A m \in Modes : Size[m] \in Nat \ {0}
    /\ \A m, n \in Modes : Size[m] = Size[n] => m = n
    /\ QueueSlots \in Nat \ {0}

VARIABLES
    ring,     \* data_tx_buffer_arq, .._arq_control, .._broadcast
    q,        \* the action queue of arq_modem.c
    pend,     \* pending_burst_frames, the static of cb_send_tx_frame
    caller,   \* the event loop and the command bridge in cb_send_tx_frame
    fsm,      \* what the state machine is doing
    window,   \* the mode of the unacknowledged frame, or "none"
    payload,  \* sess->payload_mode
    mode,     \* the modem's mode
    t,        \* the transmit thread
    done,     \* TX_COMPLETE events the state machine has not seen
    cut,      \* history: a frame has been read by the size of another mode
    count     \* what has been sent of each kind

threads == <<caller, t>>
session == <<fsm, window, payload>>

vars == <<ring, q, pend, threads, session, mode, done, cut, count>>

Rings == {"data", "ctl", "bcast"}

\* A frame can be told from the one before it and the one after.
Frame(number, m) == [k \in 1 .. Size[m] |-> <<number % 2, m, k>>]

More(kind, bound) ==
    /\ count[kind] < bound
    /\ count.sends + count.cqs + count.bcast + count.aborts < Inputs
    /\ count' = [count EXCEPT ![kind] = @ + 1]

-----------------------------------------------------------------------------
(* cb_send_tx_frame                                                        *)

NoCall == [pc |-> "idle"]

Idle(who) == caller[who] = NoCall
At(who, pc) == caller[who].pc = pc

\* g_sess_lock: the event loop holds it while it dispatches.
Unlocked == Idle("loop")

Calls(who, to, m, frame) ==
    caller' = [caller EXCEPT ![who] = [pc |-> "write", to |-> to, mode |-> m,
                                       frame |-> frame, saw |-> 0]]

Write(who) ==
    /\ At(who, "write")
    /\ ring' = [ring EXCEPT ![caller[who].to] = @ \o caller[who].frame]
    /\ caller' = [caller EXCEPT ![who].pc = "count", ![who].saw = pend]
    /\ UNCHANGED <<q, pend, t, session, mode, done, count, cut>>

\* pending_burst_frames++, with no lock
Count(who) ==
    /\ At(who, "count")
    /\ pend' = caller[who].saw + 1
    /\ caller' = [caller EXCEPT ![who].pc = "take"]
    /\ UNCHANGED <<ring, q, t, session, mode, done, count, cut>>

\* The other thread may have counted this frame among its own.
Take(who) ==
    /\ At(who, "take")
    /\ pend' = 0
    /\ caller' = [caller EXCEPT ![who] = IF pend = 0 THEN NoCall
                                         ELSE [@ EXCEPT !.pc = "enqueue", !.saw = pend]]
    /\ UNCHANGED <<ring, q, t, session, mode, done, count, cut>>

\* Wrong: the newest action is always taken.
EnqueuedAnyway(action) == Append(q, action)

\* arq_modem_enqueue: nobody looks whether there was room.
Enqueued(action) == IF Len(q) < QueueSlots THEN Append(q, action) ELSE q

Enqueue(who) ==
    /\ At(who, "enqueue")
    /\ LET c == caller[who]
       IN  q' = Enqueued([to |-> c.to, mode |-> c.mode, size |-> Len(c.frame),
                          frames |-> c.saw])
    /\ caller' = [caller EXCEPT ![who] = NoCall]
    /\ UNCHANGED <<ring, pend, t, session, mode, done, count, cut>>

SendTxFrame(who) == Write(who) \/ Count(who) \/ Take(who) \/ Enqueue(who)

-----------------------------------------------------------------------------
(* The state machine, in the event loop                                    *)

\* "iss", "dataTx", "waitAck", "modeReq" (being sent), "modeWait"; "other" is
\* whatever else leaves preferred_tx_mode at the control mode.
FsmStates == {"iss", "dataTx", "waitAck", "modeReq", "modeWait", "other"}

\* Whether the transmit thread has nothing of this ring left.
Out(to) == ring[to] = <<>> /\ ~(t.pc \in {"read", "key"} /\ t.from = to)

\* A control frame is sent in every state, and may or may not change it.
SendControl ==
    /\ Idle("loop") /\ More("sends", Sends) /\ Len(q) < Ahead
    /\ \/ fsm' \in {fsm, "other"}
       \/ fsm = "iss" /\ window = "none" /\ fsm' = "modeReq"
    /\ Calls("loop", "ctl", Ctl, Frame(count.sends + count.cqs, Ctl))
    /\ UNCHANGED <<ring, q, pend, t, window, payload, mode, done, cut>>

\* send_data_burst: an unacknowledged frame goes again as it was built, but in
\* the payload mode of now.
SendData ==
    /\ Idle("loop") /\ More("sends", Sends) /\ Len(q) < Ahead
    /\ fsm \in {"iss", "waitAck", "other"} /\ fsm' = "dataTx"
    /\ window' = IF window = "none" THEN payload ELSE window
    /\ Calls("loop", "data", payload, Frame(count.sends, window'))
    /\ UNCHANGED <<ring, q, pend, t, payload, mode, done, cut>>

TxComplete ==
    /\ Idle("loop") /\ done > 0
    /\ done' = done - 1
    /\ fsm' = CASE fsm = "dataTx" -> "waitAck"
                [] fsm = "modeReq" -> "modeWait"
                [] OTHER -> fsm
    /\ UNCHANGED <<ring, q, pend, threads, window, payload, mode, count, cut>>

\* The peer answers what has been transmitted, or is silent.
Acked ==
    /\ Idle("loop") /\ fsm = "waitAck" /\ Out("data")
    /\ window' = "none" /\ fsm' \in {"iss", "other"}
    /\ UNCHANGED <<ring, q, pend, threads, payload, mode, done, count, cut>>

ModeAnswered ==
    /\ Idle("loop") /\ fsm = "modeWait" /\ fsm' = "iss"
    /\ payload' = payload \/ (Out("ctl") /\ payload' \in PayloadModes)
    /\ UNCHANGED <<ring, q, pend, threads, window, mode, done, count, cut>>

\* The turn comes back; or the session ends and the next one begins.
TurnOrSession ==
    /\ Idle("loop") /\ fsm \in {"waitAck", "other"}
    /\ \/ fsm = "other" /\ fsm' = "iss" /\ UNCHANGED <<window, payload>>
       \/ fsm' = "other" /\ window' = "none" /\ payload' = Base
    /\ UNCHANGED <<ring, q, pend, threads, mode, done, count, cut>>

EventLoop ==
    \/ SendTxFrame("loop") \/ SendControl \/ SendData \/ TxComplete \/ Acked
    \/ ModeAnswered \/ TurnOrSession

-----------------------------------------------------------------------------
(* The command bridge: CQFRAME and ABORT                                   *)

SendCq ==
    /\ Idle("cmd") /\ More("cqs", Cqs)
    /\ Calls("cmd", "ctl", Ctl, Frame(count.sends + count.cqs, Ctl))
    /\ UNCHANGED <<ring, q, pend, t, session, mode, done, cut>>

\* clear_connection_data empties the rings but not the action queue.
Abort ==
    /\ Idle("cmd") /\ More("aborts", Aborts)
    /\ ring' = [ring EXCEPT !.data = <<>>]
    /\ caller' = [caller EXCEPT !.cmd = [pc |-> "clear"]]
    /\ UNCHANGED <<q, pend, t, session, mode, done, cut>>

ClearControl ==
    /\ At("cmd", "clear")
    /\ ring' = [ring EXCEPT !.ctl = <<>>]
    /\ caller' = [caller EXCEPT !.cmd = NoCall]
    /\ UNCHANGED <<q, pend, t, session, mode, done, count, cut>>

CmdBridge == SendTxFrame("cmd") \/ SendCq \/ Abort \/ ClearControl

\* bcast_process_decoded_frame: frames of one size, for the startup mode.
Broadcast ==
    /\ More("bcast", Broadcasts)
    /\ ring' = [ring EXCEPT !.bcast = @ \o Frame(count.bcast, Startup)]
    /\ UNCHANGED <<q, pend, threads, session, mode, done, cut>>

-----------------------------------------------------------------------------
(* The transmit thread: tx_thread                                          *)

\* arq_modem_preferred_tx_mode
PreferredTxMode == IF fsm \in {"iss", "dataTx"} THEN payload ELSE Ctl

Top == [pc |-> "top"]

\* arq_get_runtime_snapshot, under the lock of the session
Snapshot ==
    /\ t = Top /\ Unlocked
    /\ \E backlog \in BOOLEAN :
          t' = [pc |-> "look", want |-> PreferredTxMode, arq |-> backlog \/ window # "none"]
    /\ UNCHANGED <<ring, q, pend, caller, session, mode, done, count, cut>>

\* maybe_switch_modem_mode records the switch in the session.
AfterSwitch(new, record, on) == IF new # mode THEN record ELSE on

\* The sizes of the rings, then the switch to the mode the session prefers or
\* to that of broadcasts, which is put off when the last one was just before.
\* The size of a frame is looked at after it, once.
Look ==
    /\ t.pc = "look"
    /\ LET target == IF t.arq \/ ring.data # <<>> \/ ring.ctl # <<>> THEN t.want
                     ELSE IF ring.bcast # <<>> THEN Startup ELSE mode
       IN  /\ mode' \in {mode, target}
           /\ t' = [pc |-> AfterSwitch(mode', "record", "dequeue"), size |-> Size[mode']]
    /\ UNCHANGED <<ring, q, pend, caller, session, done, count, cut>>

\* arq_set_active_modem_mode: the control mode is not for the session to
\* remember.
Record ==
    /\ t.pc \in {"record", "recordAction"} /\ Unlocked
    /\ payload' = IF mode = Ctl THEN payload ELSE mode
    /\ t' = [t EXCEPT !.pc = IF @ = "record" THEN "dequeue" ELSE "check"]
    /\ UNCHANGED <<ring, q, pend, caller, fsm, window, mode, done, count, cut>>

\* arq_modem_dequeue: the first control action, or else the first of all.
IsFirstOut(i) ==
    IF \E j \in DOMAIN q : q[j].to = "ctl"
    THEN q[i].to = "ctl" /\ \A j \in 1 .. i - 1 : q[j].to # "ctl"
    ELSE i = 1

\* With a forced switch to the action's mode
Dequeue ==
    /\ t.pc = "dequeue"
    /\ \E i \in DOMAIN q :
          /\ IsFirstOut(i)
          /\ q' = RemoveAt(q, i) /\ mode' = q[i].mode
          /\ t' = [pc |-> AfterSwitch(q[i].mode, "recordAction", "check"), size |-> t.size,
                   from |-> q[i].to, frames |-> q[i].frames, built |-> q[i].size]
    /\ UNCHANGED <<ring, pend, caller, session, done, count, cut>>

\* At once when something is in a ring, else after ARQ_ACTION_WAIT_MS
NoAction ==
    /\ t.pc = "dequeue" /\ q = <<>>
    /\ t' = [t EXCEPT !.pc = "fallback"]
    /\ UNCHANGED <<ring, q, pend, caller, session, mode, done, count, cut>>

\* Wrong: bytes in the ring are taken for a frame.
HasSome(r, n) == Len(ring[r]) > 0

\* size_buffer
Has(r, n) == Len(ring[r]) >= n

ReadsFrom(r, frames, need) ==
    [pc |-> "read", size |-> t.size, from |-> r, frames |-> frames, need |-> need]

\* An action is given up when its frames are not of the modem's mode, or not
\* all in the ring.
Check ==
    /\ t.pc = "check"
    /\ t' = IF t.built = Size[mode] /\ Has(t.from, Size[mode] * t.frames)
            THEN ReadsFrom(t.from, t.frames, Size[mode] * t.frames)
            ELSE [pc |-> "fallback", size |-> t.size]
    /\ UNCHANGED <<ring, q, pend, caller, session, mode, done, count, cut>>

\* One frame of the size there was at the top of the loop
TakesFrom(r, else) == t' = IF Has(r, t.size) THEN ReadsFrom(r, 1, t.size) ELSE else

\* Wrong: nothing is sent but by an action.
FallbackNone ==
    /\ t.pc = "fallback"
    /\ t' = [t EXCEPT !.pc = "bcast"]
    /\ UNCHANGED <<ring, q, pend, caller, session, mode, done, count, cut>>

\* Wrong: the fallback is for data.
FallbackData ==
    /\ t.pc = "fallback"
    /\ TakesFrom("data", [t EXCEPT !.pc = "bcast"])
    /\ UNCHANGED <<ring, q, pend, caller, session, mode, done, count, cut>>

Fallback ==
    /\ t.pc = "fallback"
    /\ TakesFrom(IF t.size = Size[Ctl] THEN "ctl" ELSE "data", [t EXCEPT !.pc = "bcast"])
    /\ UNCHANGED <<ring, q, pend, caller, session, mode, done, count, cut>>

\* Wrong: a broadcast is read by the size of any mode.
BroadcastAnySize ==
    /\ t.pc = "bcast"
    /\ TakesFrom("bcast", Top)
    /\ UNCHANGED <<ring, q, pend, caller, session, mode, done, count, cut>>

BroadcastTurn ==
    /\ t.pc = "bcast"
    /\ IF t.size = Size[Startup] THEN TakesFrom("bcast", Top) ELSE t' = Top
    /\ UNCHANGED <<ring, q, pend, caller, session, mode, done, count, cut>>

\* read_buffer waits until there is as much.
Read ==
    /\ t.pc = "read" /\ Len(ring[t.from]) >= t.need
    /\ t' = [pc |-> "key", size |-> t.size, from |-> t.from, frames |-> t.frames,
             units |-> SubSeq(ring[t.from], 1, t.need)]
    /\ ring' = [ring EXCEPT ![t.from] = SubSeq(@, t.need + 1, Len(@))]
    /\ cut' = (cut \/ \E i \in 1 .. t.need : Size[ring[t.from][i][2]] * t.frames # t.need)
    /\ UNCHANGED <<q, pend, caller, session, mode, done, count>>

\* send_modulated_data cuts what was read into frames of the modem's mode.
Key ==
    /\ t.pc = "key"
    /\ done' = done + 1
    /\ t' = IF t.from = "bcast" THEN Top ELSE [pc |-> "bcast", size |-> t.size]
    /\ UNCHANGED <<ring, q, pend, caller, session, mode, count, cut>>

TxThread ==
    \/ Snapshot \/ Look \/ Record \/ Dequeue \/ NoAction \/ Check \/ Fallback
    \/ BroadcastTurn \/ Read \/ Key

-----------------------------------------------------------------------------

Init ==
    /\ ring = [r \in Rings |-> <<>>] /\ q = <<>> /\ pend = 0
    /\ caller = [who \in {"loop", "cmd"} |-> NoCall]
    /\ fsm = "other" /\ window = "none" /\ payload = Base
    /\ mode = Startup /\ t = Top
    /\ done = 0 /\ cut = FALSE
    /\ count = [sends |-> 0, cqs |-> 0, bcast |-> 0, aborts |-> 0]

Next == EventLoop \/ CmdBridge \/ Broadcast \/ TxThread

Spec == Init /\ [][Next]_vars

\* The transmit thread runs, the commands in progress go on, and a switch of
\* mode is not put off for ever.
FairSpec ==
    /\ Spec
    /\ WF_t(TxThread) /\ WF_caller(SendTxFrame("loop"))
    /\ WF_caller(SendTxFrame("cmd") \/ ClearControl)
    /\ SF_mode(Look) /\ WF_done(TxComplete)

-----------------------------------------------------------------------------
(* Properties                                                              *)

TypeOK ==
    /\ \A r \in Rings : \A i \in DOMAIN ring[r] : ring[r][i] \in (0 .. 1) \X Modes \X Nat
    /\ Len(q) <= QueueSlots
    /\ \A i \in DOMAIN q : q[i].mode \in Modes /\ q[i].frames \in Nat \ {0}
    /\ pend \in Nat /\ done \in Nat /\ cut \in BOOLEAN
    /\ fsm \in FsmStates /\ window \in PayloadModes \cup {"none"}
    /\ payload \in PayloadModes /\ mode \in Modes

Aborted == count.aborts > 0

\* read_buffer never keeps the transmit thread waiting for bytes that are not
\* there, in whichever order the two threads write frames and queue actions:
\* only an ABORT between the look at the size and the read can do that.
ReadNeverWaits == t.pc = "read" => Len(ring[t.from]) >= t.need \/ Aborted

\* units are so many whole frames of mode m.
Whole(units, frames, m) ==
    /\ Len(units) = frames * Size[m]
    /\ \A j \in 0 .. frames - 1 : \E number \in 0 .. 1 :
          SubSeq(units, j * Size[m] + 1, j * Size[m] + Size[m]) = Frame(number, m)

\* What is keyed are whole frames of the modem's mode, though the mode is
\* changed by the session, by actions and for broadcasts, frames go out without
\* their actions, two threads count their frames together, actions are dropped,
\* and an ABORT clears the rings.  Only data may be cut, and that begins with a
\* frame read by the size of another mode: one taken before an action changed
\* the mode, or before a switch that was put off.  (Frames keyed in a mode of
\* another size are not spoken of.)
FramesWhole ==
    t.pc = "key" /\ Len(t.units) = t.frames * Size[mode] =>
        Whole(t.units, t.frames, mode) \/ (t.from = "data" /\ cut)

\* A burst that was handed over is keyed, so that DATA_TX is left: also when
\* its action was dropped, or given up, or counted among those of a CQ.
BurstEnds == []<>(fsm # "dataTx") \/ <>Aborted

\* A control frame does not stay in its ring, whatever became of its action,
\* if the session comes back to states that do not ask for the payload mode;
\* unless an ABORT has left the transmit thread waiting for bytes.
ControlGoesOut ==
    []<>(fsm \notin {"iss", "dataTx"}) =>
        []<>(ring.ctl = <<>>) \/ <>[](t.pc = "read" /\ Len(ring[t.from]) < t.need)

=============================================================================

---------------------------- MODULE ModemTxProofs ----------------------------
(* Proofs about ModemTx, for any modes, frame sizes and capacity of the     *)
(* action queue.                                                            *)
EXTENDS ModemTx, TLAPS, WellFoundedInduction

Units == (0 .. 1) \X Modes \X Nat

Actions == [to : {"data", "ctl"}, mode : Modes, size : Nat, frames : Nat \ {0}]

\* Who is in cb_send_tx_frame has a frame, and who has taken the counter has
\* frames to queue an action for.
Sending(pcs, counts) ==
    [pc : pcs, to : {"data", "ctl"}, mode : Modes, frame : Seq(Units), saw : counts]

CallStates ==
    {NoCall, [pc |-> "clear"]}
    \cup Sending({"write", "count", "take"}, Nat) \cup Sending({"enqueue"}, Nat \ {0})

RingsOK == ring \in [Rings -> Seq(Units)]
QueueOK == q \in Seq(Actions) /\ Len(q) <= QueueSlots
CountsOK ==
    /\ pend \in Nat /\ done \in Nat /\ cut \in BOOLEAN
    /\ count \in [sends : Nat, cqs : Nat, bcast : Nat, aborts : Nat]
CallersOK == caller \in [{"loop", "cmd"} -> CallStates]
SessionOK ==
    /\ fsm \in FsmStates /\ window \in PayloadModes \cup {"none"}
    /\ payload \in PayloadModes /\ mode \in Modes

Frames == Nat \ {0}

ThreadOK ==
    \/ t = Top
    \/ t \in [pc : {"look"}, want : Modes, arq : BOOLEAN]
    \/ t \in [pc : {"record", "dequeue", "fallback", "bcast"}, size : Nat]
    \/ t \in [pc : {"recordAction", "check"}, size : Nat, from : {"data", "ctl"},
              frames : Frames, built : Nat]
    \/ t \in [pc : {"read"}, size : Nat, from : Rings, frames : Frames, need : Nat]
    \/ t \in [pc : {"key"}, size : Nat, from : Rings, frames : Frames, units : Seq(Units)]

Typed == RingsOK /\ QueueOK /\ CountsOK /\ CallersOK /\ SessionOK /\ ThreadOK

\* Only an ABORT clears the rings.
ClearIsAbort == caller["cmd"].pc = "clear" => Aborted

IInv == Typed /\ ReadNeverWaits /\ ClearIsAbort

-----------------------------------------------------------------------------
(* Pieces                                                                  *)

LEMMA FrameTyped ==
  ASSUME NEW number \in Nat, NEW m \in Modes
  PROVE  Frame(number, m) \in Seq(Units) /\ Len(Frame(number, m)) = Size[m]
<1>1. Size[m] \in Nat /\ number % 2 \in 0 .. 1
  BY ModeAssumption
<1>2. \A k \in 1 .. Size[m] : <<number % 2, m, k>> \in Units
  BY <1>1 DEF Units
<1> QED
  BY <1>1, <1>2 DEF Frame

LEMMA MoreCounts ==
  ASSUME CountsOK, NEW kind \in {"sends", "cqs", "bcast", "aborts"}, NEW bound, More(kind, bound)
  PROVE  /\ count' \in [sends : Nat, cqs : Nat, bcast : Nat, aborts : Nat]
         /\ count'.aborts >= count.aborts
         /\ kind = "aborts" => count'.aborts > 0
  BY DEF CountsOK, More

\* As long as the transmit thread does not move and no ring loses anything, or
\* an ABORT has been counted, it goes on finding what it has seen.
LEMMA StillThere ==
  ASSUME Typed, ReadNeverWaits, t' = t, count.aborts' \in Nat,
         count.aborts' >= count.aborts,
         \/ count.aborts' > 0
         \/ \A r \in Rings : Len(ring'[r]) \in Nat /\ Len(ring'[r]) >= Len(ring[r])
  PROVE  ThreadOK' /\ ReadNeverWaits'
<1>1. ThreadOK'
  BY DEF Typed, ThreadOK
<1>2. ASSUME t.pc = "read"
      PROVE  Len(ring'[t.from]) >= t.need \/ count.aborts' > 0
  <2>1. t.from \in Rings /\ t.need \in Nat /\ count.aborts \in Nat
    BY <1>2 DEF Typed, ThreadOK, Top, CountsOK
  <2>2. Len(ring[t.from]) \in Nat
    BY <2>1 DEF Typed, RingsOK
  <2> QED
    BY <1>2, <2>1, <2>2 DEF ReadNeverWaits, Aborted
<1> QED
  BY <1>1, <1>2 DEF ReadNeverWaits, Aborted

-----------------------------------------------------------------------------
(* cb_send_tx_frame                                                        *)

LEMMA SendTxFrameGood ==
  ASSUME IInv, NEW who \in {"loop", "cmd"}, SendTxFrame(who)
  PROVE  IInv'
<1>1. t' = t /\ SessionOK' /\ count' = count /\ done' = done /\ cut' = cut
  BY DEF SendTxFrame, Write, Count, Take, Enqueue, session, IInv, Typed, SessionOK
<1>2. \/ caller[who] \in Sending({"write", "count", "take"}, Nat)
      \/ caller[who] \in Sending({"enqueue"}, Nat \ {0})
  <2>1. caller[who] \in CallStates
    BY DEF IInv, Typed, CallersOK
  <2>2. caller[who].pc \in {"write", "count", "take", "enqueue"}
    BY DEF SendTxFrame, Write, Count, Take, Enqueue, At
  <2>3. caller[who] # NoCall /\ caller[who] # [pc |-> "clear"]
    BY <2>2 DEF NoCall
  <2> QED
    BY <2>1, <2>3 DEF CallStates
<1>5. ClearIsAbort'
  <2>1. caller'["cmd"].pc = "clear" => caller["cmd"].pc = "clear"
    <3> DEFINE keeps(c) == caller' = [caller EXCEPT ![who] = c] /\ c.pc # "clear"
    <3>1. CASE Write(who)
      <4>1. keeps([caller[who] EXCEPT !.pc = "count", !.saw = pend])
        BY <1>2, <3>1 DEF Write, Sending
      <4> QED
        BY <4>1 DEF IInv, Typed, CallersOK
    <3>2. CASE Count(who)
      <4>1. keeps([caller[who] EXCEPT !.pc = "take"])
        BY <1>2, <3>2 DEF Count, Sending
      <4> QED
        BY <4>1 DEF IInv, Typed, CallersOK
    <3>3. CASE Take(who)
      <4>1. keeps(IF pend = 0 THEN NoCall
                  ELSE [caller[who] EXCEPT !.pc = "enqueue", !.saw = pend])
        BY <1>2, <3>3 DEF Take, Sending, NoCall
      <4> QED
        BY <4>1 DEF IInv, Typed, CallersOK
    <3>4. CASE Enqueue(who)
      <4>1. keeps(NoCall)
        BY <3>4 DEF Enqueue, NoCall
      <4> QED
        BY <4>1 DEF IInv, Typed, CallersOK
    <3> QED
      BY <3>1, <3>2, <3>3, <3>4 DEF SendTxFrame
  <2> QED
    BY <1>1, <2>1 DEF IInv, ClearIsAbort, Aborted
<1>3. CASE Write(who)
  <2>1. caller[who].to \in {"data", "ctl"} /\ caller[who].frame \in Seq(Units)
    BY <1>2 DEF Sending
  <2>2. \A r \in Rings : ring[r] \in Seq(Units)
    BY DEF IInv, Typed, RingsOK
  <2>3. /\ ring' \in [Rings -> Seq(Units)]
        /\ \A r \in Rings : Len(ring'[r]) \in Nat /\ Len(ring'[r]) >= Len(ring[r])
    <3> DEFINE to == caller[who].to
               new == ring[to] \o caller[who].frame
    <3>1. ring' = [ring EXCEPT ![to] = new] /\ to \in Rings
      BY <1>3, <2>1 DEF Write, Rings
    <3>2. new \in Seq(Units) /\ Len(new) \in Nat /\ Len(new) >= Len(ring[to])
      <4> DEFINE old == ring[to]
                 frame == caller[who].frame
      <4>1. old \in Seq(Units) /\ frame \in Seq(Units)
        BY <2>1, <2>2, <3>1
      <4> HIDE DEF old, frame
      <4>2. old \o frame \in Seq(Units) /\ Len(old \o frame) = Len(old) + Len(frame)
            /\ Len(old) \in Nat /\ Len(frame) \in Nat
        BY <4>1
      <4>3. Len(old \o frame) \in Nat /\ Len(old \o frame) >= Len(old)
        BY <4>2
      <4> QED
        BY <4>2, <4>3 DEF old, frame
    <3>3. \A r \in Rings : ring'[r] = IF r = to THEN new ELSE ring[r]
      BY <3>1 DEF IInv, Typed, RingsOK
    <3> HIDE DEF to, new
    <3>4. ring' \in [Rings -> Seq(Units)]
      BY <2>2, <3>1, <3>2 DEF IInv, Typed, RingsOK
    <3>5. \A r \in Rings : Len(ring[r]) \in Nat
      BY <2>2
    <3> QED
      BY <3>2, <3>3, <3>4, <3>5
  <2>4. CallersOK'
    <3>1. caller[who].pc = "write" /\ pend \in Nat
      BY <1>3 DEF Write, At, IInv, Typed, CountsOK
    <3>2. [caller[who] EXCEPT !.pc = "count", !.saw = pend] \in CallStates
      BY <1>2, <3>1 DEF Sending, CallStates
    <3>3. caller' = [caller EXCEPT ![who] = [@ EXCEPT !.pc = "count", !.saw = pend]]
      BY <1>3 DEF Write, IInv, Typed, CallersOK
    <3> QED
      BY <3>2, <3>3 DEF IInv, Typed, CallersOK
  <2>5. UNCHANGED <<q, pend>>
    BY <1>3 DEF Write
  <2>6. count.aborts \in Nat
    BY DEF IInv, Typed, CountsOK
  <2>7. ThreadOK' /\ ReadNeverWaits'
    BY <1>1, <2>3, <2>6, StillThere DEF IInv
  <2> QED
    BY <1>1, <1>5, <2>3, <2>4, <2>5, <2>7 DEF IInv, Typed, RingsOK, QueueOK, CountsOK
<1>4. CASE Count(who) \/ Take(who) \/ Enqueue(who)
  <2>1. ring' = ring
    BY <1>4 DEF Count, Take, Enqueue
  <2>2. count.aborts \in Nat /\ \A r \in Rings : Len(ring[r]) \in Nat
    BY DEF IInv, Typed, CountsOK, RingsOK
  <2>3. ThreadOK' /\ ReadNeverWaits'
    BY <1>1, <2>1, <2>2, StillThere DEF IInv
  <2>4. pend' \in Nat
    BY <1>2, <1>4 DEF Count, Take, Enqueue, At, Sending, IInv, Typed, CountsOK
  <2>5. CallersOK'
    <3>1. CASE Count(who)
      <4>1. [caller[who] EXCEPT !.pc = "take"] \in CallStates
        BY <1>2, <3>1 DEF Count, At, Sending, CallStates
      <4>2. caller' = [caller EXCEPT ![who] = [@ EXCEPT !.pc = "take"]]
        BY <3>1 DEF Count, IInv, Typed, CallersOK
      <4> QED
        BY <4>1, <4>2 DEF IInv, Typed, CallersOK
    <3>2. CASE Take(who)
      <4>1. pend \in Nat
        BY DEF IInv, Typed, CountsOK
      <4>2. ASSUME pend # 0
            PROVE  [caller[who] EXCEPT !.pc = "enqueue", !.saw = pend] \in CallStates
        BY <1>2, <3>2, <4>1, <4>2 DEF Take, At, Sending, CallStates
      <4>3. caller' = [caller EXCEPT ![who] = IF pend = 0 THEN NoCall
                                              ELSE [@ EXCEPT !.pc = "enqueue", !.saw = pend]]
        BY <3>2 DEF Take
      <4> QED
        BY <4>2, <4>3 DEF IInv, Typed, CallersOK, CallStates
    <3>3. CASE Enqueue(who)
      BY <3>3 DEF Enqueue, IInv, Typed, CallersOK, CallStates
    <3> QED
      BY <1>4, <3>1, <3>2, <3>3
  <2>6. QueueOK'
    <3>1. CASE Count(who) \/ Take(who)
      BY <3>1 DEF Count, Take, IInv, Typed, QueueOK
    <3>2. CASE Enqueue(who)
      <4>1. caller[who] \in Sending({"enqueue"}, Nat \ {0})
        BY <1>2, <3>2 DEF Enqueue, At, Sending
      <4> DEFINE a == [to |-> caller[who].to, mode |-> caller[who].mode,
                       size |-> Len(caller[who].frame), frames |-> caller[who].saw]
      <4>2. a \in Actions
        BY <4>1 DEF Sending, Actions
      <4>3. q' = Enqueued(a)
        BY <3>2 DEF Enqueue
      <4> HIDE DEF a
      <4> QED
        BY <4>2, <4>3, ModeAssumption DEF Enqueued, IInv, Typed, QueueOK
    <3> QED
      BY <1>4, <3>1, <3>2
  <2> QED
    BY <1>1, <1>5, <2>1, <2>3, <2>4, <2>5, <2>6 DEF IInv, Typed, RingsOK, CountsOK
<1> QED
  BY <1>3, <1>4 DEF SendTxFrame

-----------------------------------------------------------------------------
(* The state machine, the commands, broadcasts                             *)

LEMMA CallTyped ==
  ASSUME IInv, NEW who \in {"loop", "cmd"}, NEW to \in {"data", "ctl"}, NEW m \in Modes,
         NEW frame \in Seq(Units), Calls(who, to, m, frame)
  PROVE  CallersOK'
<1>1. [pc |-> "write", to |-> to, mode |-> m, frame |-> frame, saw |-> 0] \in CallStates
  BY DEF CallStates, Sending
<1> QED
  BY <1>1 DEF Calls, IInv, Typed, CallersOK

LEMMA FsmGood ==
  ASSUME IInv,
         SendControl \/ SendData \/ TxComplete \/ Acked \/ ModeAnswered \/ TurnOrSession
  PROVE  IInv'
<1>1. UNCHANGED <<ring, q, pend, t, mode, cut>>
  BY DEF SendControl, SendData, TxComplete, Acked, ModeAnswered, TurnOrSession, threads
<1>2. /\ count.sends \in Nat /\ count.cqs \in Nat /\ Ctl \in Modes
      /\ PayloadModes \subseteq Modes
  BY ModeAssumption DEF IInv, Typed, CountsOK, PayloadModes
<1>3. /\ count' \in [sends : Nat, cqs : Nat, bcast : Nat, aborts : Nat]
      /\ count'.aborts >= count.aborts
  <2>1. CASE SendControl \/ SendData
    <3>1. \E bound : More("sends", bound)
      BY <2>1 DEF SendControl, SendData
    <3> QED
      BY <3>1, MoreCounts DEF IInv, Typed
  <2>2. CASE count' = count
    BY <2>2 DEF IInv, Typed, CountsOK
  <2> QED
    BY <2>1, <2>2 DEF TxComplete, Acked, ModeAnswered, TurnOrSession
<1>4. ThreadOK' /\ ReadNeverWaits'
  <2>1. count.aborts' \in Nat /\ \A r \in Rings : Len(ring[r]) \in Nat
    BY <1>3 DEF IInv, Typed, RingsOK
  <2> QED
    BY <1>1, <1>3, <2>1, StillThere DEF IInv
<1>5. done' \in Nat
  BY DEF SendControl, SendData, TxComplete, Acked, ModeAnswered, TurnOrSession, IInv, Typed,
         CountsOK
<1>6. SessionOK'
  <2>1. mode' \in Modes
    BY <1>1 DEF IInv, Typed, SessionOK
  <2>2. payload' \in PayloadModes
    BY ModeAssumption DEF SendControl, SendData, TxComplete, Acked, ModeAnswered, TurnOrSession,
           IInv, Typed, SessionOK
  <2>3. window' \in PayloadModes \cup {"none"}
    BY DEF SendControl, SendData, TxComplete, Acked, ModeAnswered, TurnOrSession, IInv, Typed,
           SessionOK
  <2>4. fsm' \in FsmStates
    BY DEF SendControl, SendData, TxComplete, Acked, ModeAnswered, TurnOrSession, IInv, Typed,
           SessionOK, FsmStates
  <2> QED
    BY <2>1, <2>2, <2>3, <2>4 DEF SessionOK
<1>7. CallersOK'
  <2>1. CASE SendControl
    <3>1. Frame(count.sends + count.cqs, Ctl) \in Seq(Units)
      BY <1>2, FrameTyped
    <3> QED
      BY <1>2, <2>1, <3>1, CallTyped DEF SendControl
  <2>2. CASE SendData
    <3>1. payload \in Modes /\ window' \in Modes
      BY <1>2, <2>2 DEF SendData, IInv, Typed, SessionOK
    <3>2. Frame(count.sends, window') \in Seq(Units)
      BY <1>2, <3>1, FrameTyped
    <3> QED
      BY <2>2, <3>1, <3>2, CallTyped DEF SendData
  <2>3. CASE TxComplete \/ Acked \/ ModeAnswered \/ TurnOrSession
    BY <2>3 DEF TxComplete, Acked, ModeAnswered, TurnOrSession, threads, IInv, Typed, CallersOK
  <2> QED
    BY <2>1, <2>2, <2>3
<1>8. ClearIsAbort'
  <2>1. caller'["cmd"] = caller["cmd"]
    BY DEF SendControl, SendData, TxComplete, Acked, ModeAnswered, TurnOrSession, threads, Calls,
           IInv, Typed, CallersOK
  <2> QED
    BY <1>3, <2>1 DEF IInv, ClearIsAbort, Aborted, Typed, CountsOK
<1> QED
  BY <1>1, <1>3, <1>4, <1>5, <1>6, <1>7, <1>8 DEF IInv, Typed, RingsOK, QueueOK, CountsOK

LEMMA CommandGood ==
  ASSUME IInv, SendCq \/ Abort \/ ClearControl \/ Broadcast
  PROVE  IInv'
<1>1. UNCHANGED <<q, pend, t, session, mode, done, cut>>
  BY DEF SendCq, Abort, ClearControl, Broadcast, threads
<1>2. /\ \A r \in Rings : ring[r] \in Seq(Units) /\ Len(ring[r]) \in Nat
      /\ {"data", "ctl", "bcast"} = Rings /\ <<>> \in Seq(Units)
  BY DEF IInv, Typed, RingsOK, Rings
<1>3. /\ count' \in [sends : Nat, cqs : Nat, bcast : Nat, aborts : Nat]
      /\ count'.aborts >= count.aborts
      /\ Abort \/ ClearControl => count'.aborts > 0
  <2>1. CASE SendCq
    <3>1. ~Abort /\ ~ClearControl
      BY <2>1 DEF SendCq, Abort, ClearControl, Idle, At, Calls, NoCall, IInv, Typed, CallersOK
    <3> QED
      BY <2>1, <3>1, MoreCounts DEF SendCq, IInv, Typed
  <2>2. CASE Abort
    BY <2>2, MoreCounts DEF Abort, IInv, Typed
  <2>3. CASE ClearControl
    BY <2>3 DEF ClearControl, At, IInv, ClearIsAbort, Aborted, Typed, CountsOK
  <2>4. CASE Broadcast
    <3>1. ~Abort
      BY <2>4, MoreCounts DEF Broadcast, Abort, threads, Idle, NoCall, IInv, Typed, CallersOK
    <3> QED
      BY <2>3, <2>4, <3>1, MoreCounts DEF Broadcast, IInv, Typed
  <2> QED
    BY <2>1, <2>2, <2>3, <2>4
<1>4. CallersOK' /\ ClearIsAbort'
  <2>1. CASE SendCq
    <3>1. Frame(count.sends + count.cqs, Ctl) \in Seq(Units) /\ Ctl \in Modes
      BY FrameTyped, ModeAssumption DEF IInv, Typed, CountsOK
    <3>2. CallersOK'
      BY <2>1, <3>1, CallTyped DEF SendCq
    <3>3. caller'["cmd"].pc = "write"
      BY <2>1 DEF SendCq, Calls, IInv, Typed, CallersOK
    <3> QED
      BY <3>2, <3>3 DEF ClearIsAbort
  <2>2. CASE Abort
    BY <1>3, <2>2 DEF Abort, IInv, Typed, CallersOK, CallStates, ClearIsAbort, Aborted
  <2>3. CASE ClearControl
    BY <2>3 DEF ClearControl, IInv, Typed, CallersOK, CallStates, ClearIsAbort, NoCall
  <2>4. CASE Broadcast
    BY <1>3, <2>4 DEF Broadcast, threads, IInv, Typed, CallersOK, ClearIsAbort, Aborted, CountsOK
  <2> QED
    BY <2>1, <2>2, <2>3, <2>4
<1>5. /\ ring' \in [Rings -> Seq(Units)]
      /\ \/ count'.aborts > 0
         \/ \A r \in Rings : Len(ring'[r]) \in Nat /\ Len(ring'[r]) >= Len(ring[r])
  <2>1. CASE SendCq
    BY <1>2, <2>1 DEF SendCq, IInv, Typed, RingsOK
  <2>2. CASE Abort \/ ClearControl
    <3>1. ring' = [ring EXCEPT !.data = <<>>] \/ ring' = [ring EXCEPT !.ctl = <<>>]
      BY <2>2 DEF Abort, ClearControl
    <3> QED
      BY <1>2, <1>3, <2>2, <3>1 DEF IInv, Typed, RingsOK
  <2>3. CASE Broadcast
    <3> DEFINE frame == Frame(count.bcast, Startup)
               new == ring["bcast"] \o frame
    <3>1. frame \in Seq(Units)
      BY FrameTyped, ModeAssumption DEF IInv, Typed, CountsOK, PayloadModes
    <3> HIDE DEF frame
    <3>2. new \in Seq(Units) /\ Len(new) \in Nat /\ Len(new) >= Len(ring["bcast"])
      BY <1>2, <3>1
    <3>3. ring' = [ring EXCEPT !["bcast"] = new]
      BY <2>3 DEF Broadcast, frame
    <3> HIDE DEF new
    <3> QED
      BY <1>2, <3>2, <3>3 DEF IInv, Typed, RingsOK
  <2> QED
    BY <2>1, <2>2, <2>3
<1>6. ThreadOK' /\ ReadNeverWaits'
  BY <1>1, <1>3, <1>5, StillThere DEF IInv
<1> QED
  BY <1>1, <1>3, <1>4, <1>5, <1>6
     DEF IInv, Typed, RingsOK, QueueOK, CountsOK, SessionOK, session

-----------------------------------------------------------------------------
(* The transmit thread                                                     *)

LEMMA TxLooksGood ==
  ASSUME IInv, Snapshot \/ Look \/ Record \/ NoAction
  PROVE  IInv'
<1>1. UNCHANGED <<ring, q, pend, caller, fsm, window, done, count, cut>>
  BY DEF Snapshot, Look, Record, NoAction, session
<1>2. PayloadModes \subseteq Modes /\ Ctl \in Modes /\ \A m \in Modes : Size[m] \in Nat
  BY ModeAssumption DEF PayloadModes
<1>3. CASE Snapshot
  <2>1. PreferredTxMode \in Modes
    BY <1>2 DEF PreferredTxMode, IInv, Typed, SessionOK
  <2>2. t' \in [pc : {"look"}, want : Modes, arq : BOOLEAN] /\ UNCHANGED <<payload, mode>>
    BY <1>3, <2>1 DEF Snapshot, session
  <2> QED
    BY <1>1, <2>2 DEF IInv, Typed, RingsOK, QueueOK, CountsOK, CallersOK, SessionOK, ThreadOK,
         ReadNeverWaits, ClearIsAbort, Aborted
<1>4. CASE Look
  <2>1. t \in [pc : {"look"}, want : Modes, arq : BOOLEAN]
    BY <1>4 DEF Look, IInv, Typed, ThreadOK, Top
  <2>2. mode' \in Modes /\ payload' = payload
    BY <1>4, <2>1, ModeAssumption DEF Look, session, IInv, Typed, SessionOK, PayloadModes
  <2>3. t' \in [pc : {"record", "dequeue"}, size : Nat]
    BY <1>2, <1>4, <2>2 DEF Look, AfterSwitch
  <2>4. t' \in [pc : {"record", "dequeue", "fallback", "bcast"}, size : Nat] /\ t'.pc # "read"
    BY <2>3
  <2> QED
    BY <1>1, <2>2, <2>4 DEF IInv, Typed, RingsOK, QueueOK, CountsOK, CallersOK, SessionOK,
         ThreadOK, ReadNeverWaits, ClearIsAbort, Aborted
<1>5. CASE Record
  <2>1. mode' = mode /\ payload' \in PayloadModes
    BY <1>5 DEF Record, IInv, Typed, SessionOK, PayloadModes
  <2>2. /\ t' \in [pc : {"dequeue"}, size : Nat]
              \cup [pc : {"check"}, size : Nat, from : {"data", "ctl"}, frames : Frames,
                    built : Nat]
    <3>1. \/ t \in [pc : {"record"}, size : Nat]
          \/ t \in [pc : {"recordAction"}, size : Nat, from : {"data", "ctl"},
                    frames : Frames, built : Nat]
      BY <1>5 DEF Record, IInv, Typed, ThreadOK, Top
    <3> QED
      BY <1>5, <3>1 DEF Record
  <2>3. ThreadOK' /\ t'.pc # "read"
    BY <2>2 DEF ThreadOK
  <2> QED
    BY <1>1, <2>1, <2>3 DEF IInv, Typed, RingsOK, QueueOK, CountsOK, CallersOK, SessionOK,
         ReadNeverWaits, ClearIsAbort, Aborted
<1>6. CASE NoAction
  <2>1. t \in [pc : {"dequeue"}, size : Nat]
    BY <1>6 DEF NoAction, IInv, Typed, ThreadOK, Top
  <2>2. ThreadOK' /\ t'.pc # "read" /\ UNCHANGED <<payload, mode>>
    BY <1>6, <2>1 DEF NoAction, ThreadOK, session
  <2> QED
    BY <1>1, <2>2 DEF IInv, Typed, RingsOK, QueueOK, CountsOK, CallersOK, SessionOK,
         ReadNeverWaits, ClearIsAbort, Aborted
<1> QED
  BY <1>3, <1>4, <1>5, <1>6

LEMMA DequeueGood ==
  ASSUME IInv, Dequeue
  PROVE  IInv'
<1>1. UNCHANGED <<ring, pend, caller, fsm, window, payload, done, count, cut>>
  BY DEF Dequeue, session
<1>2. PICK i \in DOMAIN q :
        /\ q' = RemoveAt(q, i) /\ mode' = q[i].mode
        /\ t' = [pc |-> AfterSwitch(q[i].mode, "recordAction", "check"), size |-> t.size,
                 from |-> q[i].to, frames |-> q[i].frames, built |-> q[i].size]
  BY DEF Dequeue
<1>3. q \in Seq(Actions) /\ Len(q) <= QueueSlots /\ i \in 1 .. Len(q) /\ q[i] \in Actions
  BY <1>2 DEF IInv, Typed, QueueOK
<1>4. q' \in Seq(Actions) /\ Len(q') <= QueueSlots
  <2>1. SubSeq(q, 1, i - 1) \in Seq(Actions) /\ Len(SubSeq(q, 1, i - 1)) = i - 1
    BY <1>3
  <2>2. /\ SubSeq(q, i + 1, Len(q)) \in Seq(Actions)
        /\ Len(SubSeq(q, i + 1, Len(q))) = Len(q) - i
    BY <1>3
  <2>3. q' = SubSeq(q, 1, i - 1) \o SubSeq(q, i + 1, Len(q))
    BY <1>2 DEF RemoveAt
  <2>4. q' \in Seq(Actions) /\ Len(q') = (i - 1) + (Len(q) - i)
    BY <2>1, <2>2, <2>3
  <2> QED
    BY <1>3, <2>4, ModeAssumption
<1>5. mode' \in Modes
  BY <1>2, <1>3 DEF Actions
<1>6. t' \in [pc : {"recordAction", "check"}, size : Nat, from : {"data", "ctl"},
              frames : Frames, built : Nat]
  <2>1. t.size \in Nat
    BY DEF Dequeue, IInv, Typed, ThreadOK, Top
  <2> QED
    BY <1>2, <1>3, <2>1 DEF Actions, Frames, AfterSwitch
<1>7. ThreadOK' /\ t'.pc # "read"
  BY <1>6 DEF ThreadOK
<1> QED
  BY <1>1, <1>4, <1>5, <1>7 DEF IInv, Typed, RingsOK, QueueOK, CountsOK, CallersOK, SessionOK,
     ReadNeverWaits, ClearIsAbort, Aborted

\* A thread that goes on to read has just seen that there is enough.
LEMMA ReadsSeen ==
  ASSUME IInv, NEW r \in Rings, NEW frames \in Frames, NEW need \in Nat, t.size \in Nat,
         Has(r, need), ring' = ring, t' = ReadsFrom(r, frames, need)
  PROVE  ThreadOK' /\ ReadNeverWaits'
<1>1. t' \in [pc : {"read"}, size : Nat, from : Rings, frames : Frames, need : Nat]
  BY DEF ReadsFrom
<1>2. t'.from = r /\ t'.need = need
  BY DEF ReadsFrom
<1> QED
  BY <1>1, <1>2 DEF ThreadOK, ReadNeverWaits, Has

LEMMA TxSizesGood ==
  ASSUME IInv, Check \/ Fallback \/ BroadcastTurn
  PROVE  IInv'
<1>1. UNCHANGED <<ring, q, pend, caller, fsm, window, payload, mode, done, count, cut>>
  BY DEF Check, Fallback, BroadcastTurn, session
<1>2. t.size \in Nat /\ t.pc \in {"check", "fallback", "bcast"}
  BY DEF Check, Fallback, BroadcastTurn, IInv, Typed, ThreadOK, Top
<1>3. ASSUME NEW r \in Rings, NEW else, TakesFrom(r, else),
             \/ else = Top
             \/ else \in [pc : {"record", "dequeue", "fallback", "bcast"}, size : Nat]
      PROVE  ThreadOK' /\ ReadNeverWaits'
  <2>1. CASE Has(r, t.size)
    BY <1>1, <1>2, <1>3, <2>1, ReadsSeen DEF TakesFrom, Frames
  <2>2. CASE ~Has(r, t.size)
    BY <1>3, <2>2 DEF TakesFrom, ThreadOK, ReadNeverWaits, Top
  <2> QED
    BY <2>1, <2>2
<1>4. CASE Check
  <2>1. t \in [pc : {"check"}, size : Nat, from : {"data", "ctl"}, frames : Frames, built : Nat]
    BY <1>4 DEF Check, IInv, Typed, ThreadOK, Top
  <2> DEFINE need == Size[mode] * t.frames
  <2>2. need \in Nat
    <3>1. Size[mode] \in Nat /\ t.frames \in Nat
      BY <2>1, ModeAssumption DEF IInv, Typed, SessionOK, Frames
    <3> QED
      BY <3>1
  <2>3. \/ t' = [pc |-> "fallback", size |-> t.size]
        \/ Has(t.from, need) /\ t' = ReadsFrom(t.from, t.frames, need)
    BY <1>4 DEF Check
  <2> HIDE DEF need
  <2>4. ThreadOK' /\ ReadNeverWaits'
    <3>1. CASE t' = [pc |-> "fallback", size |-> t.size]
      BY <1>2, <3>1 DEF ThreadOK, ReadNeverWaits
    <3>2. CASE Has(t.from, need) /\ t' = ReadsFrom(t.from, t.frames, need)
      <4>1. t.from \in Rings /\ t.frames \in Frames
        BY <2>1 DEF Rings
      <4> QED
        BY <1>1, <1>2, <2>2, <3>2, <4>1, ReadsSeen
    <3> QED
      BY <2>3, <3>1, <3>2
  <2> QED
    BY <1>1, <2>4 DEF IInv, Typed, RingsOK, QueueOK, CountsOK, CallersOK, SessionOK,
         ClearIsAbort, Aborted
<1>5. CASE Fallback
  <2>1. t \in [pc : {"fallback"}, size : Nat]
    BY <1>5 DEF Fallback, IInv, Typed, ThreadOK, Top
  <2>2. [t EXCEPT !.pc = "bcast"] \in [pc : {"record", "dequeue", "fallback", "bcast"}, size : Nat]
    BY <2>1
  <2>3. ThreadOK' /\ ReadNeverWaits'
    BY <1>3, <1>5, <2>2 DEF Fallback, Rings
  <2> QED
    BY <1>1, <2>3 DEF IInv, Typed, RingsOK, QueueOK, CountsOK, CallersOK, SessionOK,
         ClearIsAbort, Aborted
<1>6. CASE BroadcastTurn
  <2>1. ThreadOK' /\ ReadNeverWaits'
    <3>1. CASE TakesFrom("bcast", Top)
      BY <1>3, <3>1 DEF Rings
    <3>2. CASE t' = Top
      BY <3>2 DEF ThreadOK, ReadNeverWaits, Top
    <3> QED
      BY <1>6, <3>1, <3>2 DEF BroadcastTurn
  <2> QED
    BY <1>1, <2>1 DEF IInv, Typed, RingsOK, QueueOK, CountsOK, CallersOK, SessionOK,
         ClearIsAbort, Aborted
<1> QED
  BY <1>4, <1>5, <1>6

LEMMA ReadKeyGood ==
  ASSUME IInv, Read \/ Key
  PROVE  IInv'
<1>1. UNCHANGED <<q, pend, caller, fsm, window, payload, mode, count>>
  BY DEF Read, Key, session
<1>2. CASE Read
  <2>1. t \in [pc : {"read"}, size : Nat, from : Rings, frames : Frames, need : Nat]
    BY <1>2 DEF Read, IInv, Typed, ThreadOK, Top
  <2> DEFINE old == ring[t.from]
  <2>2. old \in Seq(Units) /\ t.need \in 0 .. Len(old)
    BY <1>2, <2>1 DEF Read, IInv, Typed, RingsOK
  <2>3. SubSeq(old, 1, t.need) \in Seq(Units) /\ SubSeq(old, t.need + 1, Len(old)) \in Seq(Units)
    BY <2>2
  <2>4. ring' = [ring EXCEPT ![t.from] = SubSeq(old, t.need + 1, Len(old))]
    BY <1>2 DEF Read
  <2>5. ring' \in [Rings -> Seq(Units)]
    BY <2>1, <2>3, <2>4 DEF IInv, Typed, RingsOK
  <2>6. t' \in [pc : {"key"}, size : Nat, from : Rings, frames : Frames, units : Seq(Units)]
    BY <1>2, <2>1, <2>3 DEF Read
  <2>7. ThreadOK' /\ t'.pc # "read" /\ done' = done
    BY <1>2, <2>6 DEF ThreadOK, Read
  <2>8. cut' \in BOOLEAN
    BY <1>2 DEF Read
  <2>9. CountsOK'
    BY <1>1, <2>7, <2>8 DEF IInv, Typed, CountsOK
  <2> QED
    BY <1>1, <2>5, <2>7, <2>9 DEF IInv, Typed, RingsOK, QueueOK, CountsOK, CallersOK, SessionOK,
         ReadNeverWaits, ClearIsAbort, Aborted
<1>3. CASE Key
  <2>1. t.size \in Nat /\ ring' = ring /\ done' \in Nat /\ cut' = cut
    BY <1>3 DEF Key, IInv, Typed, ThreadOK, Top, CountsOK
  <2>2. ThreadOK' /\ t'.pc # "read"
    BY <1>3, <2>1 DEF Key, ThreadOK, Top
  <2> QED
    BY <1>1, <2>1, <2>2 DEF IInv, Typed, RingsOK, QueueOK, CountsOK, CallersOK, SessionOK,
         ReadNeverWaits, ClearIsAbort, Aborted
<1> QED
  BY <1>2, <1>3

-----------------------------------------------------------------------------
(* The theorems                                                            *)

LEMMA InitGood == Init => IInv
<1> SUFFICES ASSUME Init PROVE IInv
  OBVIOUS
<1>1. RingsOK /\ QueueOK /\ CountsOK
  <2>1. cut \in BOOLEAN
    BY DEF Init
  <2> QED
    BY <2>1, ModeAssumption DEF Init, RingsOK, QueueOK, CountsOK
<1>2. CallersOK /\ ClearIsAbort
  BY DEF Init, CallersOK, CallStates, ClearIsAbort, NoCall
<1>3. SessionOK
  BY ModeAssumption DEF Init, SessionOK, FsmStates, PayloadModes
<1>4. ThreadOK /\ ReadNeverWaits
  BY DEF Init, ThreadOK, ReadNeverWaits, Top
<1> QED
  BY <1>1, <1>2, <1>3, <1>4 DEF IInv, Typed

LEMMA NextGood == IInv /\ [Next]_vars => IInv'
<1> SUFFICES ASSUME IInv, [Next]_vars PROVE IInv'
  OBVIOUS
<1>1. CASE EventLoop
  BY <1>1, SendTxFrameGood, FsmGood DEF EventLoop
<1>2. CASE CmdBridge
  BY <1>2, SendTxFrameGood, CommandGood DEF CmdBridge
<1>3. CASE Broadcast
  BY <1>3, CommandGood
<1>4. CASE TxThread
  BY <1>4, TxLooksGood, DequeueGood, TxSizesGood, ReadKeyGood DEF TxThread
<1>5. CASE UNCHANGED vars
  BY <1>5 DEF vars, threads, session, IInv, Typed, RingsOK, QueueOK, CountsOK, CallersOK,
       SessionOK, ThreadOK, ReadNeverWaits, ClearIsAbort, Aborted
<1> QED
  BY <1>1, <1>2, <1>3, <1>4, <1>5 DEF Next

LEMMA Inductive == Spec => []IInv
  BY InitGood, NextGood, PTL DEF Spec

\* The rings, the action queue, the modes and the counters keep their types and
\* the queue its capacity, whatever the two threads that send and the one that
\* transmits do between each other's steps: an action always has frames.
THEOREM ModemTxTypes == Spec => []TypeOK
<1>1. IInv => TypeOK
  <2> SUFFICES ASSUME IInv PROVE TypeOK
    OBVIOUS
  <2>1. \A r \in Rings : \A i \in DOMAIN ring[r] : ring[r][i] \in (0 .. 1) \X Modes \X Nat
    BY DEF IInv, Typed, RingsOK, Units
  <2>2. \A i \in DOMAIN q : q[i].mode \in Modes /\ q[i].frames \in Nat \ {0}
    <3>1. \A i \in DOMAIN q : q[i] \in Actions
      BY DEF IInv, Typed, QueueOK
    <3> QED
      BY <3>1 DEF Actions
  <2> QED
    BY <2>1, <2>2 DEF TypeOK, IInv, Typed, QueueOK, CountsOK, SessionOK
<1> QED
  BY <1>1, Inductive, PTL

\* The transmit thread of modem.c does not wait in read_buffer for bytes that
\* are not there, for any modes, frame sizes and capacity of the action queue,
\* though actions are lost, counted together, or left without their bytes:
\* unless there has been an ABORT.
THEOREM TxThreadNeverWaits == Spec => []ReadNeverWaits
<1>1. IInv => ReadNeverWaits
  BY DEF IInv
<1> QED
  BY <1>1, Inductive, PTL

-----------------------------------------------------------------------------
(* Whole frames                                                             *)

\* s begins with a frame, and in it every frame is whole and followed by the
\* beginning of another.
Aligned(s) ==
    \A i \in DOMAIN s :
        /\ s[i][3] \in 1 .. Size[s[i][2]]
        /\ i = 1 => s[i][3] = 1
        /\ s[i][3] < Size[s[i][2]] =>
              i + 1 \in DOMAIN s /\ s[i + 1] = <<s[i][1], s[i][2], s[i][3] + 1>>
        /\ s[i][3] = Size[s[i][2]] /\ i + 1 \in DOMAIN s => s[i + 1][3] = 1

Of(s, m) == \A i \in DOMAIN s : s[i][2] = m

\* A frame of cb_send_tx_frame.
Built(to, frame) ==
    Aligned(frame) /\ (to = "ctl" => Of(frame, Ctl) /\ Len(frame) = Size[Ctl])

CallersBuilt ==
    \A who \in {"loop", "cmd"} :
        caller[who].pc \in {"write", "count", "take", "enqueue"} =>
            Built(caller[who].to, caller[who].frame)

QueueBuilt == \A i \in DOMAIN q : q[i].to = "ctl" => q[i].size = Size[Ctl]

RingsWhole ==
    /\ Aligned(ring["data"]) \/ cut
    /\ Aligned(ring["ctl"]) /\ Of(ring["ctl"], Ctl)
    /\ Aligned(ring["bcast"]) /\ Of(ring["bcast"], Startup)

ThreadWhole ==
    /\ t.pc \notin {"top", "look"} => t.size # 0
    /\ t.pc = "read" => t.need # 0
    /\ t.pc \in {"recordAction", "check"} /\ t.from = "ctl" => t.built = Size[Ctl]
    /\ t.pc = "read" /\ t.from = "ctl" => t.need = t.frames * Size[Ctl]
    /\ t.pc = "read" /\ t.from = "bcast" => t.need = t.frames * Size[Startup]
    /\ t.pc = "key" =>
          (t.from = "data" /\ cut) \/ \E m \in Modes : Whole(t.units, t.frames, m)

WholeInv == CallersBuilt /\ QueueBuilt /\ RingsWhole /\ ThreadWhole

LEMMA FrameBuilt ==
  ASSUME NEW number \in Nat, NEW m \in Modes
  PROVE  Aligned(Frame(number, m)) /\ Of(Frame(number, m), m)
<1> DEFINE f == Frame(number, m)
           b == number % 2
<1>1. Size[m] \in Nat \ {0} /\ f \in Seq(Units) /\ Len(f) = Size[m]
  BY ModeAssumption, FrameTyped
<1>2. DOMAIN f = 1 .. Size[m] /\ \A k \in 1 .. Size[m] : f[k] = <<b, m, k>>
  BY DEF Frame
<1> HIDE DEF f, b
<1>3. Of(f, m)
  BY <1>2 DEF Of
<1>4. Aligned(f)
  <2> SUFFICES ASSUME NEW i \in DOMAIN f
               PROVE  /\ f[i][3] \in 1 .. Size[f[i][2]]
                      /\ i = 1 => f[i][3] = 1
                      /\ f[i][3] < Size[f[i][2]] =>
                            i + 1 \in DOMAIN f /\ f[i + 1] = <<f[i][1], f[i][2], f[i][3] + 1>>
                      /\ f[i][3] = Size[f[i][2]] /\ i + 1 \in DOMAIN f => f[i + 1][3] = 1
    BY DEF Aligned
  <2>1. i \in 1 .. Size[m] /\ f[i] = <<b, m, i>>
    BY <1>2
  <2>2. f[i][1] = b /\ f[i][2] = m /\ f[i][3] = i
    BY <2>1
  <2>3. i < Size[m] => i + 1 \in 1 .. Size[m] /\ f[i + 1] = <<b, m, i + 1>>
    BY <1>1, <1>2, <2>1
  <2>4. ~ (i = Size[m] /\ i + 1 \in 1 .. Size[m])
    BY <1>1, <2>1
  <2> QED
    BY <1>1, <1>2, <2>1, <2>2, <2>3, <2>4
<1> QED
  BY <1>3, <1>4 DEF f

LEMMA AlignedConcat ==
  ASSUME NEW a \in Seq(Units), NEW b \in Seq(Units), Aligned(a), Aligned(b)
  PROVE  Aligned(a \o b)
<1> DEFINE s == a \o b
<1>1. /\ Len(a) \in Nat /\ Len(b) \in Nat /\ DOMAIN a = 1 .. Len(a) /\ DOMAIN b = 1 .. Len(b)
      /\ DOMAIN s = 1 .. (Len(a) + Len(b))
      /\ \A i \in 1 .. (Len(a) + Len(b)) : s[i] = IF i <= Len(a) THEN a[i] ELSE b[i - Len(a)]
  OBVIOUS
<1>2. \A i \in DOMAIN a : a[i][3] \in Nat /\ a[i][2] \in Modes
  BY DEF Units
<1>3. \A i \in DOMAIN b : b[i][3] \in Nat /\ b[i][2] \in Modes
  BY DEF Units
<1>4. \A m \in Modes : Size[m] \in Nat
  BY ModeAssumption
<1> HIDE DEF s
<1> DEFINE n == Len(a)
           good(i) == /\ s[i][3] \in 1 .. Size[s[i][2]]
                      /\ i = 1 => s[i][3] = 1
                      /\ s[i][3] < Size[s[i][2]] =>
                            i + 1 \in DOMAIN s /\ s[i + 1] = <<s[i][1], s[i][2], s[i][3] + 1>>
                      /\ s[i][3] = Size[s[i][2]] /\ i + 1 \in DOMAIN s => s[i + 1][3] = 1
<1>5. ASSUME NEW i \in 1 .. n PROVE good(i)
  <2>1. i \in DOMAIN a /\ i \in DOMAIN s /\ s[i] = a[i]
    BY <1>1
  <2>2. i < n => s[i + 1] = a[i + 1] /\ i + 1 \in DOMAIN a /\ i + 1 \in DOMAIN s
    BY <1>1
  <2>3. i = n /\ i + 1 \in DOMAIN s => s[i + 1] = b[1] /\ 1 \in DOMAIN b
    BY <1>1
  <2>4. i + 1 \in DOMAIN a => i < n
    BY <1>1
  <2>5. i = n \/ i < n
    <3>1. n \in Nat
      BY <1>1
    <3> HIDE DEF n
    <3> QED
      BY <3>1
  <2> QED
    BY <2>1, <2>2, <2>3, <2>4, <2>5 DEF Aligned
<1>6. ASSUME NEW i \in (n + 1) .. (n + Len(b)) PROVE good(i)
  <2> DEFINE j == i - n
  <2>1. j \in DOMAIN b /\ i \in DOMAIN s /\ s[i] = b[j] /\ (i = 1 => j = 1)
    BY <1>1
  <2>2. (i + 1 \in DOMAIN s <=> j + 1 \in DOMAIN b)
    BY <1>1
  <2>3. i + 1 \in DOMAIN s => s[i + 1] = b[j + 1]
    <3>1. i + 1 \in DOMAIN s => i + 1 \in 1 .. (n + Len(b)) /\ ~ (i + 1 <= n)
      BY <1>1
    <3>2. (i + 1) - n = j + 1
      BY <1>1
    <3> QED
      BY <1>1, <3>1, <3>2
  <2> HIDE DEF j
  <2> QED
    BY <2>1, <2>2, <2>3 DEF Aligned
<1>7. \A i \in DOMAIN s : i \in 1 .. n \/ i \in (n + 1) .. (n + Len(b))
  BY <1>1
<1>8. \A i \in DOMAIN s : good(i)
  BY <1>5, <1>6, <1>7
<1>9. Aligned(s)
  BY <1>8 DEF Aligned
<1> QED
  BY <1>9 DEF s

LEMMA OfConcat ==
  ASSUME NEW a \in Seq(Units), NEW b \in Seq(Units), NEW m, Of(a, m), Of(b, m)
  PROVE  Of(a \o b, m)
<1>1. /\ Len(a) \in Nat /\ Len(b) \in Nat
      /\ \A i \in DOMAIN (a \o b) :
            IF i <= Len(a) THEN i \in DOMAIN a /\ (a \o b)[i] = a[i]
            ELSE i - Len(a) \in DOMAIN b /\ (a \o b)[i] = b[i - Len(a)]
  OBVIOUS
<1> QED
  BY <1>1 DEF Of

LEMMA EmptyAligned == Aligned(<<>>) /\ \A m : Of(<<>>, m)
  BY DEF Aligned, Of

LEMMA FirstIndex ==
  ASSUME NEW I \in SUBSET Nat, I # {}
  PROVE  \E i \in I : \A j \in I : i <= j
<1>1. PICK i \in I : \A j \in I : ~ (<<j, i>> \in OpToRel(<, Nat))
  BY NatLessThanWellFounded, WFMin
<1>2. \A j \in I : ~ (j < i)
  BY <1>1 DEF OpToRel
<1> QED
  BY <1>2

\* Behind a unit that ends a frame, or at the beginning, there is a whole frame.
LEMMA FrameThere ==
  ASSUME NEW s \in Seq(Units), Aligned(s), NEW i \in Nat, NEW m \in Modes,
         i + 1 \in DOMAIN s, s[i + 1][2] = m, s[i + 1][3] = 1
  PROVE  /\ i + Size[m] \in DOMAIN s
         /\ \A k \in 1 .. Size[m] : s[i + k] = <<s[i + 1][1], m, k>>
         /\ i + Size[m] + 1 \in DOMAIN s => s[i + Size[m] + 1][3] = 1
<1> DEFINE b == s[i + 1][1]
           size == Size[m]
           holds(k) == i + k \in DOMAIN s /\ s[i + k] = <<b, m, k>>
           wrong == {k \in 1 .. size : ~ holds(k)}
<1>1. size \in Nat \ {0} /\ DOMAIN s = 1 .. Len(s) /\ Len(s) \in Nat
  BY ModeAssumption
<1>2. holds(1)
  <2>1. s[i + 1] \in Units
    OBVIOUS
  <2> QED
    BY <2>1 DEF Units
<1>3. ASSUME NEW k \in 1 .. size, k < size, holds(k) PROVE holds(k + 1)
  <2>1. s[i + k][1] = b /\ s[i + k][2] = m /\ s[i + k][3] = k
    BY <1>3
  <2>2. i + k + 1 \in DOMAIN s /\ s[i + k + 1] = <<b, m, k + 1>>
    BY <1>3, <2>1 DEF Aligned
  <2>3. i + k + 1 = i + (k + 1)
    BY <1>1
  <2> QED
    BY <2>2, <2>3
<1> HIDE DEF size, holds
<1>4. wrong = {}
  <2> SUFFICES ASSUME wrong # {} PROVE FALSE
    OBVIOUS
  <2>1. wrong \in SUBSET Nat
    BY <1>1
  <2>2. PICK k \in wrong : \A j \in wrong : k <= j
    <3> HIDE DEF wrong
    <3> QED
      BY <2>1, FirstIndex
  <2>3. k \in 1 .. size /\ ~ holds(k)
    BY <2>2
  <2>4. k # 1
    BY <1>2, <2>3
  <2>5. k - 1 \in 1 .. size /\ k - 1 < size /\ (k - 1) + 1 = k /\ ~ (k <= k - 1)
    BY <1>1, <2>3, <2>4
  <2>6. holds(k - 1)
    BY <2>2, <2>5
  <2> QED
    BY <1>3, <2>3, <2>5, <2>6
<1>5. \A k \in 1 .. size : holds(k)
  BY <1>4
<1>6. holds(size)
  BY <1>1, <1>5
<1>7. i + size \in DOMAIN s /\ s[i + size][2] = m /\ s[i + size][3] = size
  BY <1>6 DEF holds
<1>8. i + size + 1 \in DOMAIN s => s[i + size + 1][3] = 1
  BY <1>7 DEF Aligned, size
<1> QED
  BY <1>5, <1>7, <1>8 DEF holds, size

LEMMA RestOf ==
  ASSUME NEW s \in Seq(Units), NEW n \in 0 .. Len(s)
  PROVE  /\ SubSeq(s, n + 1, Len(s)) \in Seq(Units)
         /\ Len(SubSeq(s, n + 1, Len(s))) = Len(s) - n
         /\ \A i \in 1 .. (Len(s) - n) : SubSeq(s, n + 1, Len(s))[i] = s[n + i]
<1> DEFINE len == Len(s)
           rest == SubSeq(s, n + 1, len)
<1>1. len \in Nat /\ n \in Nat /\ n <= len
  OBVIOUS
<1>2. rest \in Seq(Units) /\ Len(rest) = len - n
  BY <1>1
<1>3. ASSUME NEW i \in 1 .. (len - n) PROVE rest[i] = s[n + i]
  <2>1. rest = [k \in 1 .. (len - (n + 1) + 1) |-> s[k + (n + 1) - 1]]
    BY DEF SubSeq
  <2> HIDE DEF len
  <2>2. i \in 1 .. (len - (n + 1) + 1) /\ i + (n + 1) - 1 = n + i
    BY <1>1
  <2> HIDE DEF rest
  <2> QED
    BY <2>1, <2>2
<1> QED
  BY <1>2, <1>3

LEMMA Cancel ==
  ASSUME NEW a \in Nat, NEW b \in Nat, NEW n \in Nat \ {0}, n * a = n * b
  PROVE  a = b
  OBVIOUS

LEMMA SumTimes ==
  ASSUME NEW a \in Nat, NEW b \in Nat, NEW c \in Nat
  PROVE  (a + b) * c = a * c + b * c /\ a * c \in Nat /\ 1 * c = c
  OBVIOUS

\* So many units of one mode are so many whole frames, and what is left begins
\* with a frame.
LEMMA TakeFrames ==
  ASSUME NEW s \in Seq(Units), Aligned(s), NEW frames \in Nat, NEW m \in Modes,
         NEW n \in 0 .. Len(s), n = frames * Size[m], \A i \in 1 .. n : s[i][2] = m
  PROVE  /\ Whole(SubSeq(s, 1, n), frames, m)
         /\ Aligned(SubSeq(s, n + 1, Len(s)))
<1> DEFINE size == Size[m]
           begins(j) == j * size + 1 \in DOMAIN s => s[j * size + 1][3] = 1
           wrong == {j \in 0 .. frames : ~ begins(j)}
<1>1. size \in Nat \ {0} /\ DOMAIN s = 1 .. Len(s) /\ Len(s) \in Nat
  BY ModeAssumption
<1>2. ASSUME NEW j \in 0 .. frames - 1
      PROVE  j * size \in Nat /\ j * size + size <= n /\ j * size + 1 \in DOMAIN s
             /\ j * size + 1 \in 1 .. n /\ (j + 1) * size = j * size + size
  <2>1. j \in Nat /\ frames - 1 - j \in Nat /\ j + 1 + (frames - 1 - j) = frames
    OBVIOUS
  <2> DEFINE rest == frames - 1 - j
             a == j * size
             c == rest * size
  <2>2. a \in Nat /\ c \in Nat
    BY <1>1, <2>1, SumTimes
  <2>3. (j + 1) * size = a + size
    <3>1. 1 \in Nat /\ size \in Nat
      BY <1>1
    <3> HIDE DEF size
    <3> QED
      BY <2>1, <3>1, SumTimes
  <2>4. frames * size = (j + 1) * size + c
    <3>1. j + 1 \in Nat /\ rest \in Nat /\ size \in Nat /\ frames = (j + 1) + rest
      BY <1>1, <2>1
    <3> HIDE DEF size, rest
    <3> QED
      BY <3>1, SumTimes
  <2>5. n = a + size + c
    BY <2>3, <2>4
  <2> HIDE DEF a, c, rest, size
  <2>6. a + size <= n /\ a + 1 \in 1 .. n /\ a + 1 \in DOMAIN s
    BY <1>1, <2>2, <2>5
  <2> QED
    BY <2>2, <2>3, <2>6 DEF a
<1>3. begins(0)
  <2>1. 0 * size + 1 = 1
    BY <1>1
  <2> QED
    BY <2>1 DEF Aligned
<1>4. ASSUME NEW j \in 0 .. frames - 1, begins(j)
      PROVE  /\ begins(j + 1)
             /\ \A k \in 1 .. size : s[j * size + k] = <<s[j * size + 1][1], m, k>>
  <2> DEFINE i == j * size
  <2>1. i \in Nat /\ i + 1 \in DOMAIN s /\ s[i + 1][2] = m /\ s[i + 1][3] = 1
        /\ (j + 1) * size = i + size
    BY <1>2, <1>4
  <2> HIDE DEF i
  <2>2. /\ i + size + 1 \in DOMAIN s => s[i + size + 1][3] = 1
        /\ \A k \in 1 .. size : s[i + k] = <<s[i + 1][1], m, k>>
    BY <2>1, FrameThere
  <2> QED
    BY <2>1, <2>2 DEF i
<1>5. wrong = {}
  <2> SUFFICES ASSUME wrong # {} PROVE FALSE
    OBVIOUS
  <2>1. wrong \in SUBSET Nat
    OBVIOUS
  <2>2. PICK j \in wrong : \A i \in wrong : j <= i
    <3> HIDE DEF wrong
    <3> QED
      BY <2>1, FirstIndex
  <2>3. j \in 0 .. frames /\ ~ begins(j)
    BY <2>2
  <2> HIDE DEF begins
  <2>4. j # 0
    BY <1>3, <2>3
  <2>5. j - 1 \in 0 .. frames - 1 /\ j - 1 \in 0 .. frames /\ (j - 1) + 1 = j /\ ~ (j <= j - 1)
    BY <2>3, <2>4
  <2>6. begins(j - 1)
    BY <2>2, <2>5
  <2> QED
    BY <1>4, <2>3, <2>5, <2>6
<1>6. \A j \in 0 .. frames : begins(j)
  BY <1>5
<1>7. Whole(SubSeq(s, 1, n), frames, m)
  <2> DEFINE units == SubSeq(s, 1, n)
  <2>1. units \in Seq(Units) /\ Len(units) = n /\ \A k \in 1 .. n : units[k] = s[k]
    BY <1>1
  <2>2. ASSUME NEW j \in 0 .. frames - 1
        PROVE  \E number \in 0 .. 1 :
                  SubSeq(units, j * size + 1, j * size + size) = Frame(number, m)
    <3> DEFINE a == j * size
               b == s[a + 1][1]
               part == SubSeq(units, a + 1, a + size)
    <3>1. a \in Nat /\ a + size <= n /\ a + 1 \in DOMAIN s
      BY <1>2
    <3>2. j \in 0 .. frames
      OBVIOUS
    <3>3. \A k \in 1 .. size : s[a + k] = <<b, m, k>>
      BY <1>4, <1>6, <3>2
    <3>4. b \in 0 .. 1
      BY <3>1 DEF Units
    <3> HIDE DEF units, size, a, b
    <3>5. /\ part = [k \in 1 .. size |-> units[a + k]]
          /\ \A k \in 1 .. size : a + k \in 1 .. n
      <4>1. size \in Nat /\ n \in Nat /\ a + size <= Len(units)
        BY <1>1, <2>1, <3>1
      <4>2. part \in Seq(Units) /\ Len(part) = size
        BY <2>1, <3>1, <4>1
      <4>3. \A k \in 1 .. size : part[k] = units[a + k]
        BY <2>1, <3>1, <4>1
      <4>4. \A k \in 1 .. size : a + k \in 1 .. n
        BY <2>1, <3>1, <4>1
      <4> HIDE DEF part
      <4> QED
        BY <4>2, <4>3, <4>4
    <3>6. part = [k \in 1 .. size |-> <<b, m, k>>]
      BY <2>1, <3>3, <3>5
    <3>7. b % 2 = b
      BY <3>4
    <3>8. part = Frame(b, m)
      BY <3>6, <3>7 DEF Frame, size
    <3> QED
      BY <3>4, <3>8 DEF a
  <2> QED
    BY <2>1, <2>2 DEF Whole
<1>8. Aligned(SubSeq(s, n + 1, Len(s)))
  <2> DEFINE rest == SubSeq(s, n + 1, Len(s))
  <2>1. DOMAIN rest = 1 .. (Len(s) - n) /\ \A i \in 1 .. (Len(s) - n) : rest[i] = s[n + i]
    <3>1. rest \in Seq(Units) /\ Len(rest) = Len(s) - n
      BY RestOf
    <3>2. \A i \in 1 .. (Len(s) - n) : rest[i] = s[n + i]
      BY RestOf
    <3> HIDE DEF rest
    <3> QED
      BY <3>1, <3>2
  <2>2. n + 1 \in DOMAIN s => s[n + 1][3] = 1
    BY <1>6
  <2> HIDE DEF rest, begins
  <2> SUFFICES ASSUME NEW i \in DOMAIN rest
               PROVE  /\ rest[i][3] \in 1 .. Size[rest[i][2]]
                      /\ i = 1 => rest[i][3] = 1
                      /\ rest[i][3] < Size[rest[i][2]] =>
                            /\ i + 1 \in DOMAIN rest
                            /\ rest[i + 1] = <<rest[i][1], rest[i][2], rest[i][3] + 1>>
                      /\ rest[i][3] = Size[rest[i][2]] /\ i + 1 \in DOMAIN rest =>
                            rest[i + 1][3] = 1
    BY DEF Aligned, rest
  <2> DEFINE j == n + i
  <2>3. i \in Nat /\ n \in Nat /\ j \in DOMAIN s /\ rest[i] = s[j] /\ (i = 1 => j = n + 1)
    BY <1>1, <2>1
  <2>4. j + 1 \in DOMAIN s <=> i + 1 \in DOMAIN rest
    <3> DEFINE len == Len(s)
    <3>1. len \in Nat /\ i \in Nat /\ n \in Nat /\ DOMAIN s = 1 .. len
      BY <1>1, <2>3
    <3>2. DOMAIN rest = 1 .. (len - n)
      BY <2>1
    <3> HIDE DEF len, rest
    <3> QED
      BY <3>1, <3>2
  <2>5. i + 1 \in DOMAIN rest => rest[i + 1] = s[j + 1]
    <3>1. n + (i + 1) = j + 1
      BY <2>3
    <3> QED
      BY <2>1, <3>1
  <2> HIDE DEF j
  <2> QED
    BY <2>2, <2>3, <2>4, <2>5 DEF Aligned
<1> QED
  BY <1>7, <1>8

SendingPcs == {"write", "count", "take", "enqueue"}

LEMMA CallerChanged ==
  ASSUME Typed, CallersBuilt, NEW who \in {"loop", "cmd"}, NEW c,
         caller' = [caller EXCEPT ![who] = c], c.pc \in SendingPcs => Built(c.to, c.frame)
  PROVE  CallersBuilt'
<1>1. \A w \in {"loop", "cmd"} : caller'[w] = IF w = who THEN c ELSE caller[w]
  BY DEF Typed, CallersOK
<1> QED
  BY <1>1 DEF CallersBuilt, SendingPcs

LEMMA Unmoved ==
  ASSUME UNCHANGED <<t, cut>>, ThreadWhole
  PROVE  ThreadWhole'
  BY DEF ThreadWhole, Whole

LEMMA SendTxFrameWhole ==
  ASSUME IInv, WholeInv, NEW who \in {"loop", "cmd"}, SendTxFrame(who)
  PROVE  WholeInv'
<1> DEFINE c == caller[who]
<1>1. UNCHANGED <<t, cut>> /\ c.pc \in SendingPcs
  BY DEF SendTxFrame, Write, Count, Take, Enqueue, At, SendingPcs
<1>2. Built(c.to, c.frame) /\ c \in Sending(SendingPcs, Nat)
  <2>1. Built(c.to, c.frame)
    BY <1>1 DEF WholeInv, CallersBuilt, SendingPcs
  <2>2. c \in CallStates /\ c # NoCall /\ c # [pc |-> "clear"]
    BY <1>1 DEF IInv, Typed, CallersOK, SendingPcs, NoCall
  <2>3. c \in Sending(SendingPcs, Nat)
    BY <2>2 DEF CallStates, Sending, SendingPcs
  <2> QED
    BY <2>1, <2>3
<1>3. ThreadWhole'
  BY <1>1, Unmoved DEF WholeInv
<1>4. CASE Write(who)
  <2> DEFINE to == c.to
             frame == c.frame
             new == ring[to] \o frame
  <2>1. to \in {"data", "ctl"} /\ frame \in Seq(Units) /\ ring[to] \in Seq(Units)
    BY <1>2 DEF Sending, IInv, Typed, RingsOK, Rings
  <2>2. /\ ring' = [ring EXCEPT ![to] = new] /\ UNCHANGED <<q, cut>>
        /\ caller' = [caller EXCEPT ![who].pc = "count", ![who].saw = pend]
    BY <1>4 DEF Write
  <2>3. CallersBuilt'
    <3> DEFINE d == [c EXCEPT !.pc = "count", !.saw = pend]
    <3>1. caller' = [caller EXCEPT ![who] = d]
      BY <2>2 DEF IInv, Typed, CallersOK
    <3>2. d.to = c.to /\ d.frame = c.frame
      BY <1>2 DEF Sending
    <3> HIDE DEF d, c
    <3> QED
      BY <1>2, <3>1, <3>2, CallerChanged DEF IInv, WholeInv
  <2>4. RingsWhole'
    <3>1. Aligned(frame) /\ (to = "ctl" => Of(frame, Ctl))
      BY <1>2 DEF Built
    <3>2. \A x \in Rings : ring'[x] = IF x = to THEN new ELSE ring[x]
      BY <2>2 DEF IInv, Typed, RingsOK
    <3> HIDE DEF to, frame
    <3>3. Aligned(ring[to]) => Aligned(new)
      BY <2>1, <3>1, AlignedConcat
    <3>4. to = "ctl" => Of(new, Ctl)
      BY <2>1, <3>1, OfConcat DEF WholeInv, RingsWhole
    <3> HIDE DEF new
    <3> QED
      BY <2>1, <2>2, <3>2, <3>3, <3>4 DEF WholeInv, RingsWhole, Rings
  <2> QED
    BY <1>3, <2>2, <2>3, <2>4 DEF WholeInv, QueueBuilt
<1>5. CASE Count(who) \/ Take(who) \/ Enqueue(who)
  <2>1. ring' = ring
    BY <1>5 DEF Count, Take, Enqueue
  <2>2. RingsWhole'
    BY <1>1, <2>1 DEF WholeInv, RingsWhole
  <2>3. CallersBuilt'
    <3>1. PICK d : /\ caller' = [caller EXCEPT ![who] = d]
                   /\ d = NoCall \/ (d.to = c.to /\ d.frame = c.frame)
      <4>1. CASE Count(who)
        <5> DEFINE d == [c EXCEPT !.pc = "take"]
        <5>1. caller' = [caller EXCEPT ![who] = d]
          BY <4>1 DEF Count, IInv, Typed, CallersOK
        <5>2. d.to = c.to /\ d.frame = c.frame
          BY <1>2 DEF Sending
        <5> HIDE DEF d
        <5> QED
          BY <5>1, <5>2
      <4>2. CASE Take(who)
        <5> DEFINE d == [c EXCEPT !.pc = "enqueue", !.saw = pend]
        <5>1. caller' = [caller EXCEPT ![who] = IF pend = 0 THEN NoCall ELSE d]
          BY <4>2 DEF Take
        <5>2. d.to = c.to /\ d.frame = c.frame
          BY <1>2 DEF Sending
        <5> HIDE DEF d
        <5> QED
          BY <5>1, <5>2
      <4>3. CASE Enqueue(who)
        BY <4>3 DEF Enqueue
      <4> QED
        BY <1>5, <4>1, <4>2, <4>3
    <3> HIDE DEF c
    <3> QED
      BY <1>2, <3>1, CallerChanged DEF IInv, WholeInv, NoCall, SendingPcs
  <2>4. QueueBuilt'
    <3>1. CASE Count(who) \/ Take(who)
      BY <3>1 DEF Count, Take, WholeInv, QueueBuilt
    <3>2. CASE Enqueue(who)
      <4> DEFINE a == [to |-> c.to, mode |-> c.mode, size |-> Len(c.frame), frames |-> c.saw]
      <4>1. a.to = "ctl" => a.size = Size[Ctl]
        BY <1>2 DEF Built
      <4>2. q' = IF Len(q) < QueueSlots THEN Append(q, a) ELSE q
        BY <3>2 DEF Enqueue, Enqueued
      <4>3. q \in Seq(Actions)
        BY DEF IInv, Typed, QueueOK
      <4> HIDE DEF a
      <4>4. \A i \in DOMAIN q' : (i \in DOMAIN q /\ q'[i] = q[i]) \/ q'[i] = a
        BY <4>2, <4>3
      <4> QED
        BY <4>1, <4>4 DEF WholeInv, QueueBuilt
    <3> QED
      BY <1>5, <3>1, <3>2
  <2> QED
    BY <1>3, <2>2, <2>3, <2>4 DEF WholeInv
<1> QED
  BY <1>4, <1>5 DEF SendTxFrame

LEMMA CallBuilt ==
  ASSUME IInv, WholeInv, NEW who \in {"loop", "cmd"}, NEW to \in {"data", "ctl"}, NEW m,
         NEW number \in Nat, NEW n \in Modes, to = "ctl" => n = Ctl,
         Calls(who, to, m, Frame(number, n))
  PROVE  CallersBuilt'
<1> DEFINE frame == Frame(number, n)
           c == [pc |-> "write", to |-> to, mode |-> m, frame |-> frame, saw |-> 0]
<1>1. Built(to, frame)
  BY FrameBuilt, FrameTyped DEF Built
<1>2. c.to = to /\ c.frame = frame /\ caller' = [caller EXCEPT ![who] = c]
  BY DEF Calls
<1> HIDE DEF c, frame
<1> QED
  BY <1>1, <1>2, CallerChanged DEF IInv, WholeInv

LEMMA FsmWhole ==
  ASSUME IInv, WholeInv,
         SendControl \/ SendData \/ TxComplete \/ Acked \/ ModeAnswered \/ TurnOrSession
  PROVE  WholeInv'
<1>1. UNCHANGED <<ring, q, t, cut>>
  BY DEF SendControl, SendData, TxComplete, Acked, ModeAnswered, TurnOrSession, threads
<1>2. RingsWhole' /\ QueueBuilt' /\ ThreadWhole'
  BY <1>1, Unmoved DEF WholeInv, RingsWhole, QueueBuilt
<1>3. CallersBuilt'
  <2>1. /\ count.sends \in Nat /\ count.sends + count.cqs \in Nat /\ Ctl \in Modes
        /\ payload \in Modes /\ window \in Modes \cup {"none"}
    BY ModeAssumption DEF IInv, Typed, CountsOK, SessionOK, PayloadModes
  <2>2. CASE SendControl
    BY <2>1, <2>2, CallBuilt DEF SendControl
  <2>3. CASE SendData
    <3>1. window' \in Modes
      BY <2>1, <2>3 DEF SendData
    <3> QED
      BY <2>1, <2>3, <3>1, CallBuilt DEF SendData
  <2>4. CASE caller' = caller
    BY <2>4 DEF WholeInv, CallersBuilt
  <2> QED
    BY <2>2, <2>3, <2>4 DEF TxComplete, Acked, ModeAnswered, TurnOrSession, threads
<1> QED
  BY <1>2, <1>3 DEF WholeInv

LEMMA CommandWhole ==
  ASSUME IInv, WholeInv, SendCq \/ Abort \/ ClearControl \/ Broadcast
  PROVE  WholeInv'
<1>1. UNCHANGED <<q, t, cut>>
  BY DEF SendCq, Abort, ClearControl, Broadcast, threads
<1>2. QueueBuilt' /\ ThreadWhole'
  BY <1>1, Unmoved DEF WholeInv, QueueBuilt
<1>3. CallersBuilt'
  <2>1. CASE SendCq
    <3>1. count.sends + count.cqs \in Nat /\ Ctl \in Modes
      BY ModeAssumption DEF IInv, Typed, CountsOK
    <3> QED
      BY <2>1, <3>1, CallBuilt DEF SendCq
  <2>2. CASE Abort \/ ClearControl
    <3>1. PICK d \in {NoCall, [pc |-> "clear"]} : caller' = [caller EXCEPT !["cmd"] = d]
      BY <2>2 DEF Abort, ClearControl
    <3>2. d.pc \notin SendingPcs
      BY DEF NoCall, SendingPcs
    <3> QED
      BY <3>1, <3>2, CallerChanged DEF IInv, WholeInv
  <2>3. CASE Broadcast
    BY <2>3 DEF Broadcast, threads, WholeInv, CallersBuilt
  <2> QED
    BY <2>1, <2>2, <2>3
<1>4. RingsWhole'
  <2>1. CASE SendCq
    BY <1>1, <2>1 DEF SendCq, WholeInv, RingsWhole
  <2>2. CASE Abort \/ ClearControl
    <3>1. \E r \in {"data", "ctl"} : ring' = [ring EXCEPT ![r] = <<>>]
      BY <2>2 DEF Abort, ClearControl
    <3> QED
      BY <1>1, <3>1, EmptyAligned DEF WholeInv, RingsWhole, IInv, Typed, RingsOK, Rings
  <2>3. CASE Broadcast
    <3> DEFINE frame == Frame(count.bcast, Startup)
               old == ring["bcast"]
    <3>1. count.bcast \in Nat /\ Startup \in Modes /\ old \in Seq(Units)
      BY ModeAssumption DEF IInv, Typed, CountsOK, RingsOK, Rings, PayloadModes
    <3>2. frame \in Seq(Units) /\ Aligned(frame) /\ Of(frame, Startup)
      BY <3>1, FrameTyped, FrameBuilt
    <3>3. ring' = [ring EXCEPT !["bcast"] = old \o frame]
      BY <2>3 DEF Broadcast
    <3> HIDE DEF frame, old
    <3>4. Aligned(old) /\ Of(old, Startup)
      BY DEF WholeInv, RingsWhole, old
    <3>5. Aligned(old \o frame) /\ Of(old \o frame, Startup)
      BY <3>1, <3>2, <3>4, AlignedConcat, OfConcat
    <3> QED
      BY <1>1, <3>3, <3>5 DEF WholeInv, RingsWhole, IInv, Typed, RingsOK, Rings
  <2> QED
    BY <2>1, <2>2, <2>3
<1> QED
  BY <1>2, <1>3, <1>4 DEF WholeInv

\* Steps of the transmit thread that read nothing
LEMMA TxMoves ==
  ASSUME IInv, WholeInv,
         Snapshot \/ Look \/ Record \/ Dequeue \/ NoAction \/ Check \/ Fallback
            \/ BroadcastTurn \/ Key
  PROVE  WholeInv'
<1>1. UNCHANGED <<ring, caller, cut>>
  BY DEF Snapshot, Look, Record, Dequeue, NoAction, Check, Fallback, BroadcastTurn, Key
<1>2. CallersBuilt' /\ RingsWhole'
  BY <1>1 DEF WholeInv, CallersBuilt, RingsWhole
<1>3. /\ \A m \in Modes : Size[m] \in Nat \ {0}
      /\ Ctl \in Modes /\ Startup \in Modes
  BY ModeAssumption DEF PayloadModes
<1>4. QueueBuilt'
  <2>1. CASE Dequeue
    <3>1. PICK i \in DOMAIN q : q' = RemoveAt(q, i)
      BY <2>1 DEF Dequeue
    <3>2. \A j \in DOMAIN q' : \E k \in DOMAIN q : q'[j] = q[k]
      <4>1. q \in Seq(Actions) /\ i \in 1 .. Len(q)
        BY <3>1 DEF IInv, Typed, QueueOK
      <4> DEFINE a == SubSeq(q, 1, i - 1)
                 b == SubSeq(q, i + 1, Len(q))
      <4>2. q' = a \o b
        BY <3>1 DEF RemoveAt
      <4>3. /\ a \in Seq(Actions) /\ b \in Seq(Actions)
            /\ \A j \in DOMAIN a : \E k \in DOMAIN q : a[j] = q[k]
            /\ \A j \in DOMAIN b : \E k \in DOMAIN q : b[j] = q[k]
        BY <4>1
      <4> HIDE DEF a, b
      <4>4. \A j \in DOMAIN (a \o b) :
               \/ j \in DOMAIN a /\ (a \o b)[j] = a[j]
               \/ j - Len(a) \in DOMAIN b /\ (a \o b)[j] = b[j - Len(a)]
        BY <4>3
      <4> QED
        BY <4>2, <4>3, <4>4
    <3> QED
      BY <3>2 DEF WholeInv, QueueBuilt
  <2>2. CASE q' = q
    BY <2>2 DEF WholeInv, QueueBuilt
  <2> QED
    BY <2>1, <2>2 DEF Snapshot, Look, Record, NoAction, Check, Fallback, BroadcastTurn, Key
<1>5. CASE Snapshot
  BY <1>2, <1>4, <1>5 DEF Snapshot, WholeInv, ThreadWhole
<1>6. CASE Look
  <2>1. mode' \in Modes
    <3>1. t \in [pc : {"look"}, want : Modes, arq : BOOLEAN]
      BY <1>6 DEF Look, IInv, Typed, ThreadOK, Top
    <3> QED
      BY <1>3, <1>6, <3>1 DEF Look, IInv, Typed, SessionOK
  <2>2. t'.size = Size[mode'] /\ t'.pc \in {"record", "dequeue"}
    BY <1>6 DEF Look, AfterSwitch
  <2> QED
    BY <1>2, <1>3, <1>4, <2>1, <2>2 DEF WholeInv, ThreadWhole
<1>7. CASE Record
  <2>1. \/ t \in [pc : {"record"}, size : Nat]
        \/ t \in [pc : {"recordAction"}, size : Nat, from : {"data", "ctl"},
                  frames : Frames, built : Nat]
    BY <1>7 DEF Record, IInv, Typed, ThreadOK, Top
  <2>2. CASE t \in [pc : {"record"}, size : Nat]
    <3>1. t'.pc = "dequeue" /\ t'.size = t.size /\ t.size # 0
      BY <1>7, <2>2 DEF Record, WholeInv, ThreadWhole
    <3> QED
      BY <1>2, <1>4, <3>1 DEF WholeInv, ThreadWhole
  <2>3. CASE t \in [pc : {"recordAction"}, size : Nat, from : {"data", "ctl"},
                    frames : Frames, built : Nat]
    <3>1. /\ t'.pc = "check" /\ t'.size = t.size /\ t'.from = t.from /\ t'.built = t.built
          /\ t.size # 0 /\ (t.from = "ctl" => t.built = Size[Ctl])
      BY <1>7, <2>3 DEF Record, WholeInv, ThreadWhole
    <3> QED
      BY <1>2, <1>4, <3>1 DEF WholeInv, ThreadWhole
  <2> QED
    BY <2>1, <2>2, <2>3
<1>8. CASE Dequeue
  <2>1. PICK i \in DOMAIN q :
           t' = [pc |-> AfterSwitch(q[i].mode, "recordAction", "check"), size |-> t.size,
                 from |-> q[i].to, frames |-> q[i].frames, built |-> q[i].size]
    BY <1>8 DEF Dequeue
  <2>2. /\ t'.pc \in {"recordAction", "check"} /\ t'.size = t.size
        /\ t'.from = q[i].to /\ t'.built = q[i].size
    BY <2>1 DEF AfterSwitch
  <2>3. t.size # 0 /\ (q[i].to = "ctl" => q[i].size = Size[Ctl])
    BY <1>8 DEF Dequeue, WholeInv, ThreadWhole, QueueBuilt
  <2> QED
    BY <1>2, <1>4, <2>2, <2>3 DEF WholeInv, ThreadWhole
<1>9. CASE NoAction
  <2>1. t \in [pc : {"dequeue"}, size : Nat]
    BY <1>9 DEF NoAction, IInv, Typed, ThreadOK, Top
  <2>2. t'.pc = "fallback" /\ t'.size = t.size /\ t.size # 0
    BY <1>9, <2>1 DEF NoAction, WholeInv, ThreadWhole
  <2> QED
    BY <1>2, <1>4, <2>2 DEF WholeInv, ThreadWhole
<1>10. CASE Check
  <2>1. t \in [pc : {"check"}, size : Nat, from : {"data", "ctl"}, frames : Frames, built : Nat]
    BY <1>10 DEF Check, IInv, Typed, ThreadOK, Top
  <2>2. t.size # 0 /\ (t.from = "ctl" => t.built = Size[Ctl])
    BY <2>1 DEF WholeInv, ThreadWhole
  <2>3. CASE t' = [pc |-> "fallback", size |-> t.size]
    BY <1>2, <1>4, <2>2, <2>3 DEF WholeInv, ThreadWhole
  <2>4. CASE t.built = Size[mode] /\ t' = ReadsFrom(t.from, t.frames, Size[mode] * t.frames)
    <3> DEFINE size == Size[mode]
               frames == t.frames
    <3>1. size \in Nat \ {0} /\ frames \in Nat \ {0}
      BY <1>3, <2>1 DEF IInv, Typed, SessionOK, Frames
    <3>2. /\ t'.pc = "read" /\ t'.size = t.size /\ t'.from = t.from
          /\ t'.frames = frames /\ t'.need = size * frames
      BY <2>4 DEF ReadsFrom
    <3>3. t.from = "ctl" => size = Size[Ctl]
      BY <2>2, <2>4
    <3>4. t.from # "bcast"
      BY <2>1
    <3> HIDE DEF size, frames
    <3>5. size * frames = frames * size /\ size * frames # 0
      BY <3>1
    <3> QED
      BY <1>2, <1>4, <2>2, <3>2, <3>3, <3>4, <3>5 DEF WholeInv, ThreadWhole
  <2> QED
    BY <1>10, <2>3, <2>4 DEF Check
<1>11. CASE Fallback \/ BroadcastTurn
  <2>1. t \in [pc : {"fallback", "bcast"}, size : Nat]
    BY <1>11 DEF Fallback, BroadcastTurn, IInv, Typed, ThreadOK, Top
  <2>2. t.size # 0
    BY <2>1 DEF WholeInv, ThreadWhole
  <2>3. CASE t' = Top \/ t' = [t EXCEPT !.pc = "bcast"]
    <3>1. t'.pc = "top" \/ (t'.pc = "bcast" /\ t'.size = t.size)
      BY <2>1, <2>3 DEF Top
    <3> QED
      BY <1>2, <1>4, <2>2, <3>1 DEF WholeInv, ThreadWhole
  <2>4. ASSUME NEW r, t' = ReadsFrom(r, 1, t.size), r = "ctl" => t.size = Size[Ctl],
               r = "bcast" => t.size = Size[Startup]
        PROVE  WholeInv'
    <3>1. /\ t'.pc = "read" /\ t'.size = t.size /\ t'.from = r
          /\ t'.frames = 1 /\ t'.need = t.size
      BY <2>4 DEF ReadsFrom
    <3>2. 1 * Size[Ctl] = Size[Ctl] /\ 1 * Size[Startup] = Size[Startup]
      BY <1>3
    <3> QED
      BY <1>2, <1>4, <2>2, <2>4, <3>1, <3>2 DEF WholeInv, ThreadWhole
  <2>5. CASE Fallback
    BY <2>3, <2>4, <2>5 DEF Fallback, TakesFrom
  <2>6. CASE BroadcastTurn
    BY <2>3, <2>4, <2>6 DEF BroadcastTurn, TakesFrom
  <2> QED
    BY <1>11, <2>5, <2>6
<1>12. CASE Key
  <2>1. t \in [pc : {"key"}, size : Nat, from : Rings, frames : Frames, units : Seq(Units)]
    BY <1>12 DEF Key, IInv, Typed, ThreadOK, Top
  <2>2. t.size # 0
    BY <2>1 DEF WholeInv, ThreadWhole
  <2>3. t'.pc = "top" \/ (t'.pc = "bcast" /\ t'.size = t.size)
    BY <1>12 DEF Key, Top
  <2> QED
    BY <1>2, <1>4, <2>2, <2>3 DEF WholeInv, ThreadWhole
<1> QED
  BY <1>5, <1>6, <1>7, <1>8, <1>9, <1>10, <1>11, <1>12

\* A ring of one mode is read by the frame.
LEMMA ReadOne ==
  ASSUME NEW s \in Seq(Units), NEW m \in Modes, Aligned(s), Of(s, m),
         NEW frames \in Nat, NEW n \in 0 .. Len(s), n = frames * Size[m]
  PROVE  /\ Whole(SubSeq(s, 1, n), frames, m)
         /\ Aligned(SubSeq(s, n + 1, Len(s))) /\ Of(SubSeq(s, n + 1, Len(s)), m)
<1>1. \A i \in 1 .. n : s[i][2] = m
  BY DEF Of
<1>2. /\ Whole(SubSeq(s, 1, n), frames, m)
      /\ Aligned(SubSeq(s, n + 1, Len(s)))
  BY <1>1, TakeFrames
<1>3. Of(SubSeq(s, n + 1, Len(s)), m)
  <2> DEFINE rest == SubSeq(s, n + 1, Len(s))
  <2>1. /\ rest \in Seq(Units) /\ Len(rest) = Len(s) - n
        /\ \A i \in 1 .. (Len(s) - n) : rest[i] = s[n + i]
    BY RestOf
  <2>2. \A i \in 1 .. (Len(s) - n) : n + i \in DOMAIN s
    OBVIOUS
  <2> HIDE DEF rest
  <2>3. ASSUME NEW i \in DOMAIN rest PROVE rest[i][2] = m
    <3>1. i \in 1 .. (Len(s) - n)
      BY <2>1
    <3>2. n + i \in DOMAIN s /\ rest[i] = s[n + i]
      BY <2>1, <2>2, <3>1
    <3> QED
      BY <3>2 DEF Of
  <2> QED
    BY <2>3 DEF Of, rest
<1> QED
  BY <1>2, <1>3

\* Data that is not cut by a read was read by the frame.
LEMMA ReadData ==
  ASSUME NEW s \in Seq(Units), Aligned(s), NEW frames \in Nat \ {0}, NEW n \in 1 .. Len(s),
         \A i \in 1 .. n : Size[s[i][2]] * frames = n
  PROVE  /\ \E m \in Modes : Whole(SubSeq(s, 1, n), frames, m)
         /\ Aligned(SubSeq(s, n + 1, Len(s)))
<1>1. \A i \in 1 .. n : s[i][2] \in Modes
  BY DEF Units
<1> DEFINE m == s[1][2]
<1>2. 1 \in 1 .. n
  OBVIOUS
<1>3. m \in Modes /\ Size[m] * frames = n
  BY <1>1, <1>2
<1>4. ASSUME NEW i \in 1 .. n PROVE s[i][2] = m
  <2> DEFINE a == Size[s[i][2]]
             b == Size[m]
  <2>1. a \in Nat /\ b \in Nat /\ a * frames = b * frames
    BY <1>1, <1>3, ModeAssumption
  <2>2. a = b
    <3> HIDE DEF a, b
    <3>1. a * frames = frames * a /\ b * frames = frames * b
      BY <2>1
    <3>2. frames * a = frames * b
      BY <2>1, <3>1
    <3> QED
      BY <2>1, <3>2, Cancel
  <2> QED
    BY <1>1, <1>3, <2>2, ModeAssumption
<1>5. n = frames * Size[m]
  <2> DEFINE b == Size[m]
  <2>1. b \in Nat /\ b * frames = n
    BY <1>3, ModeAssumption
  <2> HIDE DEF b
  <2>2. n = frames * b
    BY <2>1
  <2> QED
    BY <2>2 DEF b
<1> HIDE DEF m
<1> QED
  BY <1>3, <1>4, <1>5, TakeFrames

LEMMA ReadWhole ==
  ASSUME IInv, WholeInv, Read
  PROVE  WholeInv'
<1> DEFINE r == t.from
           s == ring[r]
           n == t.need
           frames == t.frames
           units == SubSeq(s, 1, n)
           rest == SubSeq(s, n + 1, Len(s))
<1>1. t \in [pc : {"read"}, size : Nat, from : Rings, frames : Frames, need : Nat]
  BY DEF Read, IInv, Typed, ThreadOK, Top
<1>2. /\ UNCHANGED <<q, caller>> /\ ring' = [ring EXCEPT ![r] = rest]
      /\ t' = [pc |-> "key", size |-> t.size, from |-> r, frames |-> frames, units |-> units]
      /\ cut' = (cut \/ \E i \in 1 .. n : Size[s[i][2]] * frames # n)
      /\ Len(s) >= n
  BY DEF Read
<1>3. /\ s \in Seq(Units) /\ r \in Rings /\ frames \in Nat \ {0} /\ n \in 1 .. Len(s)
      /\ t.size # 0
  <2>1. n # 0 /\ t.size # 0
    BY <1>1 DEF WholeInv, ThreadWhole
  <2>2. s \in Seq(Units) /\ n \in Nat
    BY <1>1 DEF IInv, Typed, RingsOK
  <2> QED
    BY <1>1, <1>2, <2>1, <2>2 DEF Frames
<1>4. CallersBuilt' /\ QueueBuilt'
  BY <1>2 DEF WholeInv, CallersBuilt, QueueBuilt
<1>5. /\ t'.pc = "key" /\ t'.size = t.size /\ t'.from = r /\ t'.frames = frames
      /\ t'.units = units
  BY <1>2
<1>6. \A x \in Rings : ring'[x] = IF x = r THEN rest ELSE ring[x]
  BY <1>2 DEF IInv, Typed, RingsOK
<1>7. /\ Aligned(ring["data"]) \/ cut
      /\ Aligned(ring["ctl"]) /\ Of(ring["ctl"], Ctl)
      /\ Aligned(ring["bcast"]) /\ Of(ring["bcast"], Startup)
  BY DEF WholeInv, RingsWhole
<1>8. cut => cut'
  BY <1>2
<1>9. CASE r \in {"ctl", "bcast"}
  <2> DEFINE m == IF r = "ctl" THEN Ctl ELSE Startup
  <2>1. m \in Modes /\ Aligned(s) /\ Of(s, m)
    BY <1>7, <1>9, ModeAssumption DEF PayloadModes
  <2>2. n = frames * Size[m]
    BY <1>1, <1>9 DEF WholeInv, ThreadWhole
  <2> HIDE DEF m, s, n, frames
  <2>3. Whole(units, frames, m) /\ Aligned(rest) /\ Of(rest, m)
    BY <1>3, <2>1, <2>2, ReadOne
  <2> HIDE DEF units, rest
  <2>4. RingsWhole'
    BY <1>6, <1>7, <1>8, <1>9, <2>3 DEF RingsWhole, Rings, m
  <2>5. ThreadWhole'
    BY <1>3, <1>5, <2>1, <2>3 DEF ThreadWhole, Whole
  <2> QED
    BY <1>4, <2>4, <2>5 DEF WholeInv
<1>10. CASE r = "data"
  <2>1. ASSUME ~ cut'
        PROVE  (\E m \in Modes : Whole(units, frames, m)) /\ Aligned(rest)
    <3>1. ~ cut /\ \A i \in 1 .. n : Size[s[i][2]] * frames = n
      BY <1>2, <2>1
    <3>2. Aligned(s)
      BY <1>7, <1>10, <3>1
    <3> HIDE DEF s, n, frames
    <3> QED
      BY <1>3, <3>1, <3>2, ReadData
  <2> HIDE DEF s, n, frames, units, rest
  <2>2. RingsWhole'
    BY <1>6, <1>7, <1>10, <2>1 DEF RingsWhole, Rings
  <2>3. ThreadWhole'
    BY <1>3, <1>5, <1>10, <2>1 DEF ThreadWhole, Whole
  <2> QED
    BY <1>4, <2>2, <2>3 DEF WholeInv
<1> QED
  BY <1>3, <1>9, <1>10 DEF Rings

LEMMA WholeStarts == Init => WholeInv
<1> SUFFICES ASSUME Init PROVE WholeInv
  OBVIOUS
<1>1. CallersBuilt /\ QueueBuilt
  BY DEF Init, CallersBuilt, QueueBuilt, NoCall
<1>2. RingsWhole
  BY EmptyAligned DEF Init, RingsWhole, Rings
<1>3. ThreadWhole
  BY DEF Init, ThreadWhole, Top
<1> QED
  BY <1>1, <1>2, <1>3 DEF WholeInv

LEMMA WholeStays == IInv /\ WholeInv /\ [Next]_vars => WholeInv'
<1> SUFFICES ASSUME IInv, WholeInv, [Next]_vars PROVE WholeInv'
  OBVIOUS
<1>1. CASE EventLoop
  BY <1>1, SendTxFrameWhole, FsmWhole DEF EventLoop
<1>2. CASE CmdBridge
  BY <1>2, SendTxFrameWhole, CommandWhole DEF CmdBridge
<1>3. CASE Broadcast
  BY <1>3, CommandWhole
<1>4. CASE TxThread
  BY <1>4, TxMoves, ReadWhole DEF TxThread
<1>5. CASE UNCHANGED vars
  <2>1. UNCHANGED <<ring, q, caller, t, cut>>
    BY <1>5 DEF vars, threads
  <2> QED
    BY <2>1, Unmoved DEF WholeInv, CallersBuilt, QueueBuilt, RingsWhole
<1> QED
  BY <1>1, <1>2, <1>3, <1>4, <1>5 DEF Next

\* What send_modulated_data keys in a mode of its size are whole frames of that
\* mode, for any modes, frame sizes, queue and order of the threads' steps: a
\* control frame and a broadcast always, data until a frame has been read by a
\* size that another mode left behind.
THEOREM FramesAreWhole == Spec => []FramesWhole
<1>1. IInv /\ WholeInv => FramesWhole
  <2> SUFFICES ASSUME IInv, WholeInv, t.pc = "key", Len(t.units) = t.frames * Size[mode],
                      ~ (t.from = "data" /\ cut)
               PROVE  Whole(t.units, t.frames, mode)
    BY DEF FramesWhole
  <2>1. PICK m \in Modes : Whole(t.units, t.frames, m)
    BY DEF WholeInv, ThreadWhole
  <2>2. t \in [pc : {"key"}, size : Nat, from : Rings, frames : Frames, units : Seq(Units)]
    BY DEF IInv, Typed, ThreadOK, Top
  <2> DEFINE a == Size[m]
             b == Size[mode]
             frames == t.frames
  <2>3. /\ mode \in Modes /\ a \in Nat /\ b \in Nat /\ frames \in Nat \ {0}
        /\ frames * a = frames * b
    BY <2>1, <2>2, ModeAssumption DEF Whole, IInv, Typed, SessionOK, Frames
  <2>4. a = b
    <3> HIDE DEF a, b, frames
    <3> QED
      BY <2>3, Cancel
  <2>5. m = mode
    BY <2>3, <2>4, ModeAssumption
  <2> QED
    BY <2>1, <2>5
<1>2. Spec => []WholeInv
  BY WholeStarts, WholeStays, Inductive, PTL DEF Spec
<1> QED
  BY <1>1, <1>2, Inductive, PTL

=============================================================================

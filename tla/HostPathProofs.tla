--------------------------- MODULE HostPathProofs ---------------------------
(***************************************************************************)
(* The queues, rings and locks between the host and the state machine keep *)
(* their types and capacities, cb_tx_read never waits, and no byte of an   *)
(* earlier session is queued or buffered once CONNECTED has been announced,*)
(* for all capacities, commands and inputs.                                *)
(***************************************************************************)
EXTENDS HostPath, TLAPS, SequenceTheorems

LoopTyped == loop.events \in Seq(Events) /\ loop.n \in Nat

\* What the command bridge carries is the event it is going to push.
BridgeTyped == ~At(cmdBridge, "recv") => cmdBridge.arg \in Events

ReactorTyped == At(reactor, "read") => reactor.arg \in Nat

\* g_app_tx_mtx is held from the look at the size to the read, so that the
\* other writers of the ring can only have added to it.
HeldWhileReading == At(loop, "readTx") => app = "loop" /\ tx >= loop.n

IInv ==
    /\ TypeOK /\ LoopTyped /\ BridgeTyped /\ ReactorTyped /\ HeldWhileReading

LEMMA WakeKeeps == ASSUME rxSleep \subseteq {"reactor", "loop"}, WakeRx
                  PROVE  rxSleep' \subseteq {"reactor", "loop"}
  BY Zenon DEF WakeRx, Signal

LEMMA PushKeeps ==
  ASSUME NEW ev \in Events, evq \in Seq(Events), Len(evq) <= EvqSlots
  PROVE  Pushed(ev) \in Seq(Events) /\ Len(Pushed(ev)) <= EvqSlots
  BY CapacityAssumption, SMT DEF Pushed

LEMMA SubmitKeeps ==
  ASSUME NEW to, NEW cmd \in HostCommands,
         to \in Seq(HostCommands), Len(to) <= CmdSlots
  PROVE  /\ Submitted(to, cmd) \in Seq(HostCommands)
         /\ Len(Submitted(to, cmd)) <= CmdSlots
  BY CapacityAssumption, SMT DEF Submitted

LEMMA InitGood == Init => IInv
<1> SUFFICES ASSUME Init PROVE IInv
  OBVIOUS
<1>1. ctl \in BOOLEAN /\ data \in BOOLEAN /\ linked \in BOOLEAN
      /\ rxSleep \subseteq {"reactor", "loop"}
  BY Zenon DEF Init
<1>2. /\ cmds = <<>> /\ payloads = 0 /\ tnc = <<>> /\ evq = <<>>
      /\ tx = 0 /\ rx = <<>> /\ sess = "none" /\ app = "none"
      /\ session = 0 /\ told = 0 /\ handed = <<>> /\ left = MaxInputs
  BY DEF Init
<1>3. TypeOK
  BY <1>1, <1>2, CapacityAssumption, SMT DEF TypeOK
<1>4. LoopTyped /\ BridgeTyped /\ ReactorTyped /\ HeldWhileReading
  BY SMT DEF Init, LoopTyped, BridgeTyped, ReactorTyped, HeldWhileReading, At, Go
<1> QED
  BY <1>3, <1>4 DEF IInv

LEMMA ReactorGood == IInv /\ Reactor => IInv'
<1> SUFFICES ASSUME IInv, Reactor PROVE IInv'
  OBVIOUS
<1>1. CASE DrainLine
  BY <1>1, CapacityAssumption, SMTT(30) DEF IInv, TypeOK, LoopTyped, BridgeTyped, ReactorTyped,
         HeldWhileReading, At, Events, DrainLine, rings, locks, threads, clients, fsm
<1>2. CASE CtlPort
  <2>1. /\ cmds' \in Seq(HostCommands) /\ Len(cmds') <= CmdSlots
        /\ left' \in Nat
    <3>1. \/ cmds' = cmds
          \/ \E c \in HostCommands : cmds' = Submitted(cmds, c)
          \/ \E c, d \in HostCommands : cmds' = Submitted(Submitted(cmds, c), d)
      BY <1>2 DEF CtlPort, HostCommands
    <3>2. left' = left \/ (left > 0 /\ left' = left - 1)
      BY <1>2 DEF CtlPort
    <3>3. /\ cmds \in Seq(HostCommands) /\ Len(cmds) <= CmdSlots
          /\ left \in Nat
      BY DEF IInv, TypeOK
    <3>4. /\ cmds' \in Seq(HostCommands)
          /\ Len(cmds') <= CmdSlots
      BY <3>1, <3>3, SubmitKeeps
    <3>5. left' \in Nat
      BY <3>2, <3>3, SMT
    <3> QED
      BY <3>4, <3>5
  <2>4. ctl' \in BOOLEAN /\ data' \in BOOLEAN
    BY <1>2, Zenon DEF CtlPort, IInv, TypeOK, clients
  <2>2. UNCHANGED <<payloads, tnc, evq, rings, locks, loop, cmdBridge, fsm, told>>
    BY <1>2 DEF CtlPort
  <2>3. reactor' = Go("data") /\ handed' = <<>>
    BY <1>2 DEF CtlPort
  <2> QED
    BY <2>1, <2>2, <2>3, <2>4, SMTT(30) DEF IInv, TypeOK, LoopTyped, BridgeTyped, ReactorTyped,
         HeldWhileReading, At, Events, Go, rings, locks, fsm
<1>3. CASE DataPort
  BY <1>3, CapacityAssumption, SMTT(30) DEF IInv, TypeOK, LoopTyped, BridgeTyped, ReactorTyped,
         HeldWhileReading, At, Events, DataPort, ReportIfDue, Go, With, rings, locks, fsm, host
<1>4. CASE Report
  BY <1>4, CapacityAssumption, SMTT(30) DEF IInv, TypeOK, LoopTyped, BridgeTyped, ReactorTyped,
         HeldWhileReading, At, Events, Report, ReportIfDue, Go, With, channels, rings, locks, clients, fsm, host
<1>5. CASE SnapshotBacklog
  BY <1>5, CapacityAssumption, SMTT(30) DEF IInv, TypeOK, LoopTyped, BridgeTyped, ReactorTyped,
         HeldWhileReading, At, Events, SnapshotBacklog, With, channels, rings, locks, clients, fsm, host
<1>6. CASE SnapshotSession
  BY <1>6, CapacityAssumption, SMTT(30) DEF IInv, TypeOK, LoopTyped, BridgeTyped, ReactorTyped,
         HeldWhileReading, At, Events, SnapshotSession, Go, With, channels, rings, locks, clients, fsm, host
<1>7. CASE SendBuffer
  BY <1>7, CapacityAssumption, SMTT(30) DEF IInv, TypeOK, LoopTyped, BridgeTyped, ReactorTyped,
         HeldWhileReading, At, Events, SendBuffer, SendLine, RoomForLine, Go, rings, locks, clients, fsm, host
<1>8. CASE SizeRx
  BY <1>8, CapacityAssumption, SMTT(30) DEF IInv, TypeOK, LoopTyped, BridgeTyped, ReactorTyped,
         HeldWhileReading, At, Events, SizeRx, Go, With, channels, rings, locks, clients, fsm, host
<1>9. CASE ReadRx
  <2>4. rxSleep' \subseteq {"reactor", "loop"}
    BY <1>9, WakeKeeps, Zenon DEF ReadRx, IInv, TypeOK
  <2>1. /\ rx' \in Seq(Nat) /\ Len(rx') <= RxRoom /\ handed' \in Seq(Nat)
    <3>1. CASE Len(rx) >= reactor.arg
      <4>1. /\ handed' = SubSeq(rx, 1, reactor.arg)
            /\ rx' = SubSeq(rx, reactor.arg + 1, Len(rx)) /\ WakeRx
        BY <1>9, <3>1 DEF ReadRx
      <4>2. rx \in Seq(Nat) /\ Len(rx) <= RxRoom /\ reactor.arg \in Nat
        BY <1>9 DEF ReadRx, IInv, TypeOK, ReactorTyped
      <4>3. handed' \in Seq(Nat)
        BY <3>1, <4>1, <4>2, SubSeqProperties, SMT
      <4>4. rx' \in Seq(Nat) /\ Len(rx') <= Len(rx)
        BY <3>1, <4>1, <4>2, SubSeqProperties, SMT
      <4> QED
        BY <4>2, <4>3, <4>4, CapacityAssumption, LenProperties, SMT
    <3>2. CASE ~(Len(rx) >= reactor.arg)
      BY <1>9, <3>2, SMT DEF ReadRx, IInv, TypeOK
    <3> QED
      BY <3>1, <3>2
  <2>2. UNCHANGED <<cmds, payloads, tnc, evq, tx, locks, loop, cmdBridge, clients, fsm, told, left>>
    BY <1>9 DEF ReadRx, channels
  <2>3. reactor' = Go("drain") \/ reactor' = reactor
    BY <1>9 DEF ReadRx
  <2> QED
    BY <2>1, <2>2, <2>3, <2>4, SMTT(30) DEF IInv, TypeOK, LoopTyped, BridgeTyped, ReactorTyped,
         HeldWhileReading, At, Events, Go, locks, clients, fsm
<1> QED
  BY <1>1, <1>2, <1>3, <1>4, <1>5, <1>6, <1>7, <1>8, <1>9 DEF Reactor

LEMMA EventLoopGood == IInv /\ EventLoop => IInv'
<1> SUFFICES ASSUME IInv, EventLoop PROVE IInv'
  OBVIOUS
<1>1. CASE TakeEvents
  BY <1>1, CapacityAssumption, SMTT(30) DEF IInv, TypeOK, LoopTyped, BridgeTyped, ReactorTyped,
         HeldWhileReading, At, Events, TakeEvents, rings, clients, fsm, host
<1>2. CASE Dispatch
  <2>4. linked' \in BOOLEAN
    BY <1>2, Zenon DEF Dispatch, Handle, IInv, TypeOK, fsm
  <2>1. /\ session' \in Nat
        /\ loop'.pc # "readTx" /\ loop'.events = Tail(loop.events) /\ loop'.n \in Nat
    <3>1. session' = session \/ session' = session + 1
      BY <1>2 DEF Dispatch, Handle, fsm
    <3>2. \E pc \in {"clearRx", "flushTx", "sizeTx", "deliver", "dispatch"} :
             \E n \in FrameLens \cup {0} : Calls(pc, n)
      BY <1>2 DEF Dispatch, Handle
    <3>3. session' \in Nat
      BY <3>1, SMT DEF IInv, TypeOK
    <3>4. FrameLens \cup {0} \subseteq Nat
      BY CapacityAssumption, SMT
    <3>5. loop'.pc # "readTx" /\ loop'.events = Tail(loop.events) /\ loop'.n \in Nat
      BY <3>2, <3>4, SMT DEF Calls
    <3> QED
      BY <3>3, <3>5
  <2>2. loop'.events \in Seq(Events)
    BY <1>2, <2>1, SMT DEF Dispatch, IInv, LoopTyped
  <2>3. UNCHANGED <<channels, rings, locks, reactor, cmdBridge, clients, host, left>>
    BY <1>2 DEF Dispatch
  <2> QED
    BY <2>1, <2>2, <2>3, <2>4, SMTT(30) DEF IInv, TypeOK, LoopTyped, BridgeTyped, ReactorTyped,
         HeldWhileReading, At, Events, channels, rings, locks, clients, host
<1>3. CASE EventsDone
  BY <1>3, CapacityAssumption, SMTT(30) DEF IInv, TypeOK, LoopTyped, BridgeTyped, ReactorTyped,
         HeldWhileReading, At, Events, EventsDone, LoopGoes, channels, rings, clients, fsm, host
<1>4. CASE ClearRx
  <2>1. /\ rx' \in Seq(Nat) /\ Len(rx') <= RxRoom
        /\ rxSleep' \subseteq {"reactor", "loop"}
    BY <1>4, CapacityAssumption, WakeKeeps, SMT DEF ClearRx, IInv, TypeOK
  <2>2. UNCHANGED <<cmds, payloads, tnc, evq, tx, locks, clients, fsm, host, left>>
    BY <1>4 DEF ClearRx, channels
  <2>3. LoopGoes("tell") /\ UNCHANGED <<reactor, cmdBridge>>
    BY <1>4 DEF ClearRx, threads
  <2> QED
    BY <2>1, <2>2, <2>3, SMTT(30) DEF IInv, TypeOK, LoopTyped, BridgeTyped, ReactorTyped,
         HeldWhileReading, At, Events, LoopGoes, locks, clients, fsm, host
<1>5. CASE FlushTx
  BY <1>5, CapacityAssumption, SMTT(30) DEF IInv, TypeOK, LoopTyped, BridgeTyped, ReactorTyped,
         HeldWhileReading, At, Events, FlushTx, LoopGoes, channels, locks, clients, fsm, host
<1>6. CASE Tell
  BY <1>6, CapacityAssumption, SMTT(30) DEF IInv, TypeOK, LoopTyped, BridgeTyped, ReactorTyped,
         HeldWhileReading, At, Events, Tell, RoomForLine, LoopGoes, channels, rings, locks, clients, fsm, host
<1>7. CASE SendNotice
  BY <1>7, CapacityAssumption, SMTT(30) DEF IInv, TypeOK, LoopTyped, BridgeTyped, ReactorTyped,
         HeldWhileReading, At, Events, SendNotice, SendLine, RoomForLine, LoopGoes, rings, locks, clients, fsm, host
<1>8. CASE SizeTx
  BY <1>8, CapacityAssumption, SMTT(30) DEF IInv, TypeOK, LoopTyped, BridgeTyped, ReactorTyped,
         HeldWhileReading, At, Events, SizeTx, LoopGoes, channels, rings, clients, fsm, host
<1>9. CASE ReadTx
  BY <1>9, CapacityAssumption, SMTT(30) DEF IInv, TypeOK, LoopTyped, BridgeTyped, ReactorTyped,
         HeldWhileReading, At, Events, ReadTx, LoopGoes, channels, clients, fsm, host
<1>10. CASE DeliverRx
  <2>4. rxSleep' \subseteq {"reactor", "loop"}
    BY <1>10, WakeKeeps, Zenon DEF DeliverRx, IInv, TypeOK
  <2>1. rx' \in Seq(Nat) /\ Len(rx') <= RxRoom
    <3>1. CASE Len(rx) + loop.n <= RxRoom
      <4>1. /\ [i \in 1 .. loop.n |-> session] \in Seq(Nat)
            /\ Len([i \in 1 .. loop.n |-> session]) = loop.n
        <5>1. loop.n \in Nat /\ session \in Nat
          BY DEF IInv, TypeOK, LoopTyped
        <5> QED
          BY <5>1, SMT
      <4>2. rx' = rx \o [i \in 1 .. loop.n |-> session] /\ WakeRx
        BY <1>10, <3>1 DEF DeliverRx
      <4> QED
        BY <3>1, <4>1, <4>2, ConcatProperties, SMT DEF IInv, TypeOK, LoopTyped
    <3>2. CASE ~(Len(rx) + loop.n <= RxRoom)
      BY <1>10, <3>2, SMT DEF DeliverRx, IInv, TypeOK
    <3> QED
      BY <3>1, <3>2
  <2>2. UNCHANGED <<cmds, payloads, tnc, evq, tx, locks, clients, fsm, host, left>>
    BY <1>10 DEF DeliverRx, channels
  <2>3. /\ LoopGoes("dispatch") \/ (loop' = loop /\ loop.pc = "deliver")
        /\ UNCHANGED <<reactor, cmdBridge>>
    BY <1>10 DEF DeliverRx, At
  <2> QED
    BY <2>1, <2>2, <2>3, <2>4, SMTT(30) DEF IInv, TypeOK, LoopTyped, BridgeTyped, ReactorTyped,
         HeldWhileReading, At, Events, LoopGoes, locks, clients, fsm, host
<1> QED
  BY <1>1, <1>2, <1>3, <1>4, <1>5, <1>6, <1>7, <1>8, <1>9, <1>10 DEF EventLoop

LEMMA CmdBridgeGood == IInv /\ CmdBridge => IInv'
<1> SUFFICES ASSUME IInv, CmdBridge PROVE IInv'
  OBVIOUS
<1>1. CASE TakeCmd
  BY <1>1, CapacityAssumption, SMTT(30) DEF IInv, TypeOK, LoopTyped, BridgeTyped, ReactorTyped,
         HeldWhileReading, At, Events, TakeCmd, HostCommands, With, rings, locks, clients, fsm, host
<1>2. CASE AbortClearsTx
  BY <1>2, CapacityAssumption, SMTT(30) DEF IInv, TypeOK, LoopTyped, BridgeTyped, ReactorTyped,
         HeldWhileReading, At, Events, AbortClearsTx, With, BridgeGoes, channels, locks, clients, fsm, host
<1>3. CASE AbortClearsRx
  <2>1. /\ rx' \in Seq(Nat) /\ Len(rx') <= RxRoom
        /\ rxSleep' \subseteq {"reactor", "loop"}
    BY <1>3, CapacityAssumption, WakeKeeps, SMT DEF AbortClearsRx, IInv, TypeOK
  <2>2. UNCHANGED <<cmds, payloads, tnc, evq, tx, locks, clients, fsm, host, left>>
    BY <1>3 DEF AbortClearsRx, channels
  <2>3. BridgeGoes("tell") /\ cmdBridge.pc = "clearRx" /\ UNCHANGED <<reactor, loop>>
    BY <1>3 DEF AbortClearsRx, At
  <2> QED
    BY <2>1, <2>2, <2>3, SMTT(30) DEF IInv, TypeOK, LoopTyped, BridgeTyped, ReactorTyped,
         HeldWhileReading, At, Events, BridgeGoes, With, locks, clients, fsm, host
<1>4. CASE TellDisconnected
  BY <1>4, CapacityAssumption, SMTT(30) DEF IInv, TypeOK, LoopTyped, BridgeTyped, ReactorTyped,
         HeldWhileReading, At, Events, TellDisconnected, With, BridgeGoes, RoomForLine, channels, rings, locks, clients, fsm, host
<1>5. CASE SendDisconnected
  BY <1>5, CapacityAssumption, SMTT(30) DEF IInv, TypeOK, LoopTyped, BridgeTyped, ReactorTyped,
         HeldWhileReading, At, Events, SendDisconnected, SendLine, RoomForLine, With, BridgeGoes, rings, locks, clients, fsm, host
<1>6. CASE PushCommand
  BY <1>6, CapacityAssumption, PushKeeps, SMTT(30) DEF IInv, TypeOK, LoopTyped, BridgeTyped, ReactorTyped,
         HeldWhileReading, At, Events, PushCommand, Go, rings, locks, clients, fsm, host
<1> QED
  BY <1>1, <1>2, <1>3, <1>4, <1>5, <1>6 DEF CmdBridge

LEMMA PayloadBridgeGood == IInv /\ PayloadBridge => IInv'
<1> SUFFICES ASSUME IInv, PayloadBridge PROVE IInv'
  OBVIOUS
<1>1. CASE TakeChunk
  BY <1>1, CapacityAssumption, SMTT(30) DEF IInv, TypeOK, LoopTyped, BridgeTyped, ReactorTyped,
         HeldWhileReading, At, Events, TakeChunk, Go, rings, locks, clients, fsm, host
<1>2. CASE WriteTx
  BY <1>2, CapacityAssumption, SMTT(30) DEF IInv, TypeOK, LoopTyped, BridgeTyped, ReactorTyped,
         HeldWhileReading, At, Events, WriteTx, Go, channels, locks, clients, fsm, host
<1>3. CASE PushDataReady
  BY <1>3, CapacityAssumption, PushKeeps, SMTT(30) DEF IInv, TypeOK, LoopTyped, BridgeTyped, ReactorTyped,
         HeldWhileReading, At, Events, PushDataReady, Go, rings, locks, clients, fsm, host
<1> QED
  BY <1>1, <1>2, <1>3 DEF PayloadBridge

LEMMA ModemFrameGood == IInv /\ ModemFrame => IInv'
  BY PushKeeps, SMTT(30) DEF ModemFrame, IInv, TypeOK, LoopTyped, BridgeTyped, ReactorTyped,
         HeldWhileReading, At, Events,
     rings, locks, threads, clients, fsm, host

LEMMA StutterGood == IInv /\ UNCHANGED vars => IInv'
  BY SMTT(30) DEF vars, IInv, TypeOK, LoopTyped, BridgeTyped, ReactorTyped,
         HeldWhileReading, At, Events,
     channels, rings, locks, threads, clients, fsm, host

LEMMA Inductive == Spec => []IInv
<1>1. IInv /\ [Next]_vars => IInv'
  BY ReactorGood, EventLoopGood, CmdBridgeGood, PayloadBridgeGood, ModemFrameGood, StutterGood
  DEF Next
<1> QED
  BY InitGood, <1>1, PTL DEF Spec

\* The channels, the event queue and the rings never hold more than the code
\* gives them room for, and what is in them is of its type: an event that finds
\* its queue full is dropped, a chunk or a command refused.
THEOREM HostPathTypes == Spec => []TypeOK
<1>1. IInv => TypeOK
  BY DEF IInv
<1> QED
  BY <1>1, Inductive, PTL

\* cb_tx_read finds the bytes it has seen, whatever the payload bridge, an
\* ABORT or the end of a session do to the ring: it never waits in read_buffer
\* with g_sess_lock and g_app_tx_mtx held.
THEOREM ReadNeverWaits == Spec => []TxReadNeverWaits
<1>1. IInv => TxReadNeverWaits
  BY DEF IInv, HeldWhileReading, TxReadNeverWaits
<1> QED
  BY <1>1, Inductive, PTL

-----------------------------------------------------------------------------
(* The bytes of a session before                                            *)

\* No byte in the ring is of a session before k.
Fresh(k) == \A i \in DOMAIN rx : rx[i] >= k

\* A line CONNECTED is on its way, or has been written, only when the bytes of
\* the sessions before are gone.
LinesFresh == \A j \in DOMAIN tnc : tnc[j] <= session /\ Fresh(tnc[j])
ToldFresh == told <= session /\ Fresh(told)

\* Between ClearRx and the CONNECTED
NoticeFresh ==
    /\ loop.pc \in {"tell", "send"} /\ linked => Fresh(session)
    /\ loop.pc = "flushTx" => ~linked

HandedFresh == \A i \in DOMAIN handed : handed[i] >= told

StaleInv == LinesFresh /\ ToldFresh /\ NoticeFresh /\ HandedFresh

\* What is added to the ring is of the session that is up.
LEMMA FreshStays ==
  ASSUME IInv, NEW k \in Nat, k <= session, Fresh(k), session' = session,
         \A i \in DOMAIN rx' : rx'[i] = session \/ \E j \in DOMAIN rx : rx'[i] = rx[j]
  PROVE  Fresh(k)'
<1>1. session \in Nat /\ \A j \in DOMAIN rx : rx[j] \in Nat /\ rx[j] >= k
  BY DEF IInv, TypeOK, Fresh
<1>2. \A i \in DOMAIN rx' : rx'[i] >= k
  BY <1>1
<1> QED
  BY <1>2 DEF Fresh

\* Steps that touch neither the ring nor a line, and in which the loop does not
\* come to tell of a session
LEMMA AsideFresh ==
  ASSUME StaleInv, UNCHANGED <<rx, tnc, told, fsm>>, handed' = handed \/ handed' = <<>>,
         loop' = loop \/ loop'.pc \notin {"tell", "send", "flushTx"}
                      \/ (loop.pc = "tell" /\ loop'.pc = "send")
  PROVE  StaleInv'
<1>1. UNCHANGED <<rx, tnc, told, session, linked>>
  BY DEF fsm
<1>2. HandedFresh'
  BY <1>1 DEF StaleInv, HandedFresh
<1>3. NoticeFresh'
  BY <1>1 DEF StaleInv, NoticeFresh, Fresh
<1> QED
  BY <1>1, <1>2, <1>3 DEF StaleInv, LinesFresh, ToldFresh, Fresh

LEMMA ReactorFresh == ASSUME IInv, StaleInv, Reactor PROVE StaleInv'
<1>1. CASE CtlPort \/ DataPort \/ Report \/ SnapshotBacklog \/ SnapshotSession \/ SizeRx
  <2>1. UNCHANGED <<rx, tnc, told, fsm, loop>>
    BY <1>1 DEF CtlPort, DataPort, Report, SnapshotBacklog, SnapshotSession, SizeRx, channels,
           rings, host
  <2>2. handed' = handed \/ handed' = <<>>
    BY <1>1 DEF CtlPort, DataPort, Report, SnapshotBacklog, SnapshotSession, SizeRx, host
  <2> QED
    BY <2>1, <2>2, AsideFresh
<1>2. CASE DrainLine
  <2>1. /\ tnc # <<>> /\ tnc' = Tail(tnc) /\ handed' = <<>>
        /\ told' = IF ctl /\ Head(tnc) > 0 THEN Head(tnc) ELSE told
        /\ UNCHANGED <<rx, loop, session, linked>>
    BY <1>2 DEF DrainLine, rings, threads, fsm
  <2>2. tnc \in Seq(Nat)
    BY DEF IInv, TypeOK
  <2>3. /\ 1 \in DOMAIN tnc /\ Head(tnc) = tnc[1]
        /\ \A j \in DOMAIN Tail(tnc) : j + 1 \in DOMAIN tnc /\ Tail(tnc)[j] = tnc[j + 1]
    BY <2>1, <2>2
  <2>4. LinesFresh'
    BY <2>1, <2>3 DEF StaleInv, LinesFresh, Fresh
  <2>5. ToldFresh'
    BY <2>1, <2>3 DEF StaleInv, LinesFresh, ToldFresh, Fresh
  <2> QED
    BY <2>1, <2>4, <2>5 DEF StaleInv, NoticeFresh, HandedFresh, Fresh
<1>3. CASE SendBuffer
  <2>1. tnc' = Append(tnc, 0) /\ UNCHANGED <<rx, loop, session, linked, told, handed>>
    BY <1>3 DEF SendBuffer, SendLine, rings, fsm, host
  <2>2. tnc \in Seq(Nat) /\ session \in Nat /\ rx \in Seq(Nat)
    BY DEF IInv, TypeOK
  <2>3. Fresh(0) /\ 0 <= session
    BY <2>2 DEF Fresh
  <2>4. \A j \in DOMAIN tnc' : (j \in DOMAIN tnc /\ tnc'[j] = tnc[j]) \/ tnc'[j] = 0
    BY <2>1, <2>2
  <2>5. LinesFresh'
    BY <2>1, <2>3, <2>4 DEF StaleInv, LinesFresh, Fresh
  <2> QED
    BY <2>1, <2>5 DEF StaleInv, ToldFresh, NoticeFresh, HandedFresh, Fresh
<1>4. CASE ReadRx
  <2>1. UNCHANGED <<tnc, loop, session, linked, told>>
    BY <1>4 DEF ReadRx, channels, fsm
  <2>2. /\ \A i \in DOMAIN rx' : \E j \in DOMAIN rx : rx'[i] = rx[j]
        /\ handed' = handed \/ \A i \in DOMAIN handed' : \E j \in DOMAIN rx : handed'[i] = rx[j]
    <3> DEFINE n == reactor.arg
    <3>1. rx \in Seq(Nat) /\ n \in Nat
      BY <1>4 DEF ReadRx, IInv, TypeOK, ReactorTyped
    <3>2. CASE Len(rx) >= n
      <4>1. handed' = SubSeq(rx, 1, n) /\ rx' = SubSeq(rx, n + 1, Len(rx))
        BY <1>4, <3>2 DEF ReadRx
      <4> HIDE DEF n
      <4>2. \A i \in DOMAIN handed' : i \in DOMAIN rx /\ handed'[i] = rx[i]
        BY <3>1, <3>2, <4>1
      <4>3. \A i \in DOMAIN rx' : n + i \in DOMAIN rx /\ rx'[i] = rx[n + i]
        BY <3>1, <3>2, <4>1
      <4> QED
        BY <4>2, <4>3
    <3>3. CASE ~ (Len(rx) >= n)
      BY <1>4, <3>3 DEF ReadRx
    <3> QED
      BY <3>2, <3>3
  <2>3. ASSUME NEW k, Fresh(k) PROVE Fresh(k)'
    BY <2>2, <2>3 DEF Fresh
  <2>4. HandedFresh'
    BY <2>1, <2>2 DEF StaleInv, HandedFresh, ToldFresh, Fresh
  <2>5. LinesFresh' /\ ToldFresh' /\ NoticeFresh'
    BY <2>1, <2>3 DEF StaleInv, LinesFresh, ToldFresh, NoticeFresh
  <2> QED
    BY <2>4, <2>5 DEF StaleInv
<1> QED
  BY <1>1, <1>2, <1>3, <1>4 DEF Reactor

LEMMA EventLoopFresh == ASSUME IInv, StaleInv, EventLoop PROVE StaleInv'
<1>1. CASE TakeEvents \/ EventsDone \/ SizeTx \/ ReadTx \/ Tell
  <2>1. UNCHANGED <<rx, tnc, told, fsm, handed>>
    BY <1>1 DEF TakeEvents, EventsDone, SizeTx, ReadTx, Tell, channels, rings, host
  <2>2. \/ loop'.pc \notin {"tell", "send", "flushTx"}
        \/ loop.pc = "tell" /\ loop'.pc = "send"
    BY <1>1 DEF TakeEvents, EventsDone, SizeTx, ReadTx, Tell, LoopGoes, At
  <2> QED
    BY <2>1, <2>2, AsideFresh
<1>2. CASE Dispatch
  <2>1. UNCHANGED <<rx, tnc, told, handed>>
    BY <1>2 DEF Dispatch, channels, rings, host
  <2>2. /\ session' \in {session, session + 1} /\ session \in Nat
        /\ loop'.pc \notin {"tell", "send"}
        /\ loop'.pc = "flushTx" => ~linked'
    BY <1>2 DEF Dispatch, Handle, Calls, fsm, IInv, TypeOK
  <2>3. told \in Nat /\ \A j \in DOMAIN tnc : tnc[j] \in Nat
    BY DEF IInv, TypeOK
  <2> QED
    BY <2>1, <2>2, <2>3 DEF StaleInv, LinesFresh, ToldFresh, NoticeFresh, HandedFresh, Fresh
<1>3. CASE ClearRx
  <2>1. rx' = <<>> /\ loop'.pc = "tell" /\ UNCHANGED <<tnc, told, handed, session, linked>>
    BY <1>3 DEF ClearRx, LoopGoes, channels, fsm, host
  <2>2. \A k : Fresh(k)'
    BY <2>1 DEF Fresh
  <2> QED
    BY <2>1, <2>2 DEF StaleInv, LinesFresh, ToldFresh, NoticeFresh, HandedFresh
<1>4. CASE FlushTx
  <2>1. loop.pc = "flushTx" /\ loop'.pc = "tell"
        /\ UNCHANGED <<rx, tnc, told, handed, session, linked>>
    BY <1>4 DEF FlushTx, LoopGoes, At, channels, fsm, host
  <2> QED
    BY <2>1 DEF StaleInv, LinesFresh, ToldFresh, NoticeFresh, HandedFresh, Fresh
<1>5. CASE SendNotice
  <2> DEFINE k == IF linked THEN session ELSE 0
  <2>1. /\ tnc' = Append(tnc, k) /\ loop.pc = "send" /\ loop'.pc = "dispatch"
        /\ UNCHANGED <<rx, told, handed, session, linked>>
    BY <1>5 DEF SendNotice, SendLine, LoopGoes, At, rings, fsm, host
  <2>2. tnc \in Seq(Nat) /\ session \in Nat /\ rx \in Seq(Nat)
    BY DEF IInv, TypeOK
  <2>3. Fresh(k) /\ k <= session /\ k \in Nat
    BY <2>1, <2>2 DEF StaleInv, NoticeFresh, Fresh
  <2> HIDE DEF k
  <2>4. \A j \in DOMAIN tnc' : (j \in DOMAIN tnc /\ tnc'[j] = tnc[j]) \/ tnc'[j] = k
    BY <2>1, <2>2, <2>3
  <2>5. LinesFresh'
    BY <2>1, <2>3, <2>4 DEF StaleInv, LinesFresh, Fresh
  <2> QED
    BY <2>1, <2>5 DEF StaleInv, ToldFresh, NoticeFresh, HandedFresh, Fresh
<1>6. CASE DeliverRx
  <2>1. UNCHANGED <<tnc, told, handed, session, linked>>
    BY <1>6 DEF DeliverRx, channels, fsm, host
  <2>2. loop'.pc \notin {"tell", "send", "flushTx"}
    BY <1>6 DEF DeliverRx, LoopGoes, At
  <2>3. \A i \in DOMAIN rx' : rx'[i] = session \/ \E j \in DOMAIN rx : rx'[i] = rx[j]
    <3> DEFINE n == loop.n
               new == [i \in 1 .. n |-> session]
    <3>1. rx \in Seq(Nat) /\ n \in Nat /\ session \in Nat
      BY DEF IInv, TypeOK, LoopTyped
    <3>2. new \in Seq(Nat) /\ Len(new) = n /\ \A i \in 1 .. n : new[i] = session
      BY <3>1
    <3>3. rx' = rx \/ rx' = rx \o new
      BY <1>6 DEF DeliverRx
    <3> HIDE DEF n, new
    <3>4. \A i \in DOMAIN (rx \o new) :
             \/ i \in DOMAIN rx /\ (rx \o new)[i] = rx[i]
             \/ (rx \o new)[i] = session
      BY <3>1, <3>2
    <3> QED
      BY <3>3, <3>4
  <2>4. told \in Nat /\ \A j \in DOMAIN tnc : tnc[j] \in Nat
    BY DEF IInv, TypeOK
  <2>5. ToldFresh'
    BY <2>1, <2>3, <2>4, FreshStays DEF StaleInv, ToldFresh
  <2>6. LinesFresh'
    <3> SUFFICES ASSUME NEW j \in DOMAIN tnc PROVE tnc[j] <= session /\ Fresh(tnc[j])'
      BY <2>1 DEF LinesFresh
    <3> DEFINE k == tnc[j]
    <3>1. k \in Nat /\ k <= session /\ Fresh(k)
      BY <2>4 DEF StaleInv, LinesFresh
    <3>2. \A i \in DOMAIN rx' : rx'[i] >= k
      <4>1. session \in Nat /\ \A i \in DOMAIN rx : rx[i] >= k
        BY <3>1 DEF Fresh, IInv, TypeOK
      <4> HIDE DEF k
      <4> QED
        BY <2>3, <3>1, <4>1
    <3> QED
      BY <2>1, <3>1, <3>2 DEF Fresh
  <2> QED
    BY <2>1, <2>2, <2>5, <2>6 DEF StaleInv, NoticeFresh, HandedFresh
<1> QED
  BY <1>1, <1>2, <1>3, <1>4, <1>5, <1>6 DEF EventLoop

LEMMA BridgesFresh ==
  ASSUME IInv, StaleInv, CmdBridge \/ PayloadBridge \/ ModemFrame \/ UNCHANGED vars
  PROVE  StaleInv'
<1>1. CASE AbortClearsRx
  <2>1. rx' = <<>> /\ UNCHANGED <<tnc, told, handed, session, linked, loop>>
    BY <1>1 DEF AbortClearsRx, channels, fsm, host
  <2>2. \A k : Fresh(k)'
    BY <2>1 DEF Fresh
  <2> QED
    BY <2>1, <2>2 DEF StaleInv, LinesFresh, ToldFresh, NoticeFresh, HandedFresh
<1>2. CASE SendDisconnected
  <2>1. tnc' = Append(tnc, 0) /\ UNCHANGED <<rx, loop, session, linked, told, handed>>
    BY <1>2 DEF SendDisconnected, SendLine, rings, fsm, host
  <2>2. tnc \in Seq(Nat) /\ session \in Nat /\ rx \in Seq(Nat)
    BY DEF IInv, TypeOK
  <2>3. Fresh(0) /\ 0 <= session
    BY <2>2 DEF Fresh
  <2>4. \A j \in DOMAIN tnc' : (j \in DOMAIN tnc /\ tnc'[j] = tnc[j]) \/ tnc'[j] = 0
    BY <2>1, <2>2
  <2>5. LinesFresh'
    BY <2>1, <2>3, <2>4 DEF StaleInv, LinesFresh, Fresh
  <2> QED
    BY <2>1, <2>5 DEF StaleInv, ToldFresh, NoticeFresh, HandedFresh, Fresh
<1>3. CASE TakeCmd \/ AbortClearsTx \/ TellDisconnected \/ PushCommand \/ PayloadBridge
           \/ ModemFrame \/ UNCHANGED vars
  <2>1. UNCHANGED <<rx, tnc, told, handed, fsm, loop>>
    BY <1>3 DEF TakeCmd, AbortClearsTx, TellDisconnected, PushCommand, PayloadBridge, TakeChunk,
           WriteTx, PushDataReady, ModemFrame, vars, channels, rings, threads, host
  <2> QED
    BY <2>1, AsideFresh
<1> QED
  BY <1>1, <1>2, <1>3 DEF CmdBridge

\* Once the host has been told CONNECTED, it is handed no byte of an earlier
\* session, for any capacities, any frames and any commands: cb_notify_connected
\* empties the ring before the line is sent, and what is delivered after that
\* is of this session or a later one.
THEOREM NoStaleBytes == Spec => NoStaleAfterConnected
<1>1. Init => StaleInv
  <2> SUFFICES ASSUME Init PROVE StaleInv
    OBVIOUS
  <2>1. tnc = <<>> /\ rx = <<>> /\ handed = <<>> /\ told = 0 /\ session = 0 /\ loop.pc = "wait"
    BY DEF Init
  <2> QED
    BY <2>1 DEF StaleInv, LinesFresh, ToldFresh, NoticeFresh, HandedFresh, Fresh
<1>2. IInv /\ StaleInv /\ [Next]_vars => StaleInv'
  BY ReactorFresh, EventLoopFresh, BridgesFresh DEF Next
<1>3. IInv /\ StaleInv /\ StaleInv' /\ [Next]_vars =>
         [\A i \in DOMAIN handed' : handed'[i] >= told]_vars
  <2> SUFFICES ASSUME IInv, StaleInv, StaleInv', Next
               PROVE  \A i \in DOMAIN handed' : handed'[i] >= told
    BY DEF vars
  <2>1. CASE DrainLine
    BY <2>1 DEF DrainLine
  <2>2. CASE told' = told
    BY <2>2 DEF StaleInv, HandedFresh
  <2>3. Reactor => DrainLine \/ told' = told
    BY DEF Reactor, CtlPort, DataPort, Report, SnapshotBacklog, SnapshotSession, SendBuffer,
           SizeRx, ReadRx, host
  <2>4. EventLoop => told' = told
    BY DEF EventLoop, TakeEvents, Dispatch, EventsDone, ClearRx, FlushTx, Tell, SendNotice,
           SizeTx, ReadTx, DeliverRx, host
  <2>5. CmdBridge \/ PayloadBridge \/ ModemFrame => told' = told
    BY DEF CmdBridge, TakeCmd, AbortClearsTx, AbortClearsRx, TellDisconnected, SendDisconnected,
           PushCommand, PayloadBridge, TakeChunk, WriteTx, PushDataReady, ModemFrame, host
  <2> QED
    BY <2>1, <2>2, <2>3, <2>4, <2>5 DEF Next
<1>4. Spec => []StaleInv
  BY <1>1, <1>2, Inductive, PTL DEF Spec
<1> QED
  BY <1>3, <1>4, Inductive, PTL DEF Spec, NoStaleAfterConnected

=============================================================================

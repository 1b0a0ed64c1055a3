------------------------------ MODULE HostPath ------------------------------
(***************************************************************************)
(* What is between the host's two sockets and the ARQ state machine: the   *)
(* reactor thread of tcp_interfaces.c, and the event loop and the two      *)
(* bridges of arq.c, over bounded channels, byte rings, the event queue    *)
(* and the locks g_sess_lock and g_app_tx_mtx.  The grain is a critical    *)
(* section: a step is what a thread does under one lock, or between two.   *)
(*                                                                         *)
(* The rings are the bounded FIFO queues OperatorProofs proves them to     *)
(* be.  Of the bytes on their way to the air only the number matters here, *)
(* of those on their way to the host the session they belong to.           *)
(* The state machine itself is ArqFsm.  Here an event may lead to any of   *)
(* the callbacks that it leads to there.                                   *)
(***************************************************************************)
EXTENDS Integers, Sequences

CONSTANTS
    CmdSlots, PayloadSlots, TncSlots, EvqSlots,     \* capacities
    TxRoom, RxRoom,                                 \* bytes the rings hold
    \* Bounds on what is explored; none of them is in the code.
    MaxInputs,  \* commands, chunks and frames together
    FrameLens,  \* how many bytes a frame may bring
    Commands    \* the lines of the host that reach the state machine

ASSUME CapacityAssumption ==
    /\ {CmdSlots, PayloadSlots, TncSlots, EvqSlots} \subseteq Nat \ {0}
    /\ {TxRoom, RxRoom} \subseteq Nat \ {0}
    /\ MaxInputs \in Nat
    /\ FrameLens \subseteq 1 .. RxRoom
    /\ Commands \subseteq {"CONNECT", "DISCONNECT", "ABORT"}

VARIABLES
    cmds,            \* the channel tcp_cmd
    payloads,        \* how many chunks are in the channel tcp_payload
    tnc,             \* the channel tnc_tx_chan: lines for the control client
    evq,             \* the event queue of arq.c
    tx,              \* how many bytes are in the ring g_app_tx_buf
    rx,              \* the ring data_rx_buffer_arq
    sess, app,       \* who holds g_sess_lock and g_app_tx_mtx
    rxSleep,         \* who waits for the condition of rx
    reactor, loop, cmdBridge, payloadBridge,     \* the threads
    ctl, data,       \* a client is on the control, on the data port
    session, linked, \* sessions so far, and whether one is up (FSM)
    told, handed,    \* the last CONNECTED written, the last bytes written
    left             \* how many inputs may still come

channels == <<cmds, payloads, tnc, evq>>
rings == <<tx, rx, rxSleep>>
locks == <<sess, app>>
threads == <<reactor, loop, cmdBridge, payloadBridge>>
clients == <<ctl, data>>
fsm == <<session, linked>>
host == <<told, handed>>

vars == <<channels, rings, locks, threads, clients, fsm, host, left>>

\* A thread is where it is, and what it carries there.
At(thread, pc) == thread.pc = pc
Go(pc) == [pc |-> pc, arg |-> 0]
With(pc, arg) == [pc |-> pc, arg |-> arg]

-----------------------------------------------------------------------------
(* Shared pieces                                                           *)

\* Wrong: the last slot is taken for two.
PushedOneTooMany(ev) == IF Len(evq) <= EvqSlots THEN Append(evq, ev) ELSE evq

\* evq_push: an event that finds the queue full is dropped.
Pushed(ev) == IF Len(evq) < EvqSlots THEN Append(evq, ev) ELSE evq

\* chan_select with one channel to send on, first half: whether there is room.
\* The second half is a chan_send that waits for room, should another thread
\* have taken it meanwhile.
RoomForLine == Len(tnc) < TncSlots

SendLine(line) == RoomForLine /\ tnc' = Append(tnc, line)

\* COND_SIGNAL of the rx ring wakes one of the threads that wait for it.
Signal(sleepers) == IF sleepers = {} THEN {{}} ELSE {sleepers \ {t} : t \in sleepers}

WakeRx == rxSleep' \in Signal(rxSleep)

-----------------------------------------------------------------------------
(* The reactor: arq_reactor_thread, one iteration of its loop              *)

HostCommands == Commands \cup {"CLIENT_CONNECT", "CLIENT_DISCONNECT"}

\* drain_tnc_queue_to_ctl.  Without a client tcp_write fails and the line is
\* gone.
DrainLine ==
    /\ At(reactor, "drain") /\ tnc # <<>>
    /\ tnc' = Tail(tnc)
    /\ told' = IF ctl /\ Head(tnc) > 0 THEN Head(tnc) ELSE told
    /\ handed' = <<>>
    /\ UNCHANGED <<cmds, payloads, evq, rings, locks, threads, clients, fsm, left>>

\* arq_submit_tcp_cmd: only the reactor sends on tcp_cmd, so chan_select does
\* not wait here; a command that finds the channel full is refused.
Submitted(to, cmd) == IF Len(to) < CmdSlots THEN Append(to, cmd) ELSE to

\* With no line left, poll and the control port: nothing, a new client, a line,
\* or the client hangs up.  A new client takes the place of the old one.
CtlPort ==
    /\ At(reactor, "drain") /\ tnc = <<>>
    /\ reactor' = Go("data") /\ handed' = <<>>
    /\ \/ UNCHANGED <<cmds, clients, left>>
       \/ /\ ~ctl /\ ctl' = TRUE
          /\ cmds' = Submitted(cmds, "CLIENT_CONNECT")
          /\ UNCHANGED <<data, left>>
       \/ /\ ctl /\ left > 0
          /\ \E c \in Commands : cmds' = Submitted(cmds, c)
          /\ left' = left - 1
          /\ UNCHANGED clients
       \/ /\ ctl /\ left > 0
          /\ ctl' \in BOOLEAN /\ data' = FALSE
          /\ LET gone == Submitted(cmds, "CLIENT_DISCONNECT")
             IN  cmds' = IF ctl' THEN Submitted(gone, "CLIENT_CONNECT") ELSE gone
          /\ left' = left - 1
    /\ UNCHANGED <<payloads, tnc, evq, rings, locks, loop, cmdBridge, payloadBridge, fsm,
                   told>>

\* When a periodic report is due, it is made before rx is looked at.
ReportIfDue == reactor' = Go("size") \/ (ctl /\ reactor' = With("backlog", "size"))

\* The data port.  A chunk that was queued is followed by a BUFFER report; one
\* that finds the channel full is lost.
DataPort ==
    /\ At(reactor, "data")
    /\ \/ ReportIfDue /\ data' \in BOOLEAN /\ UNCHANGED <<payloads, left>>
       \/ /\ data /\ left > 0
          /\ left' = left - 1
          /\ IF payloads < PayloadSlots
             THEN payloads' = payloads + 1 /\ reactor' = With("backlog", "report")
             ELSE UNCHANGED payloads /\ ReportIfDue
          /\ UNCHANGED data
    /\ UNCHANGED <<cmds, tnc, evq, rings, locks, loop, cmdBridge, payloadBridge, ctl, fsm,
                   host>>

Report ==
    /\ At(reactor, "report") /\ ReportIfDue
    /\ UNCHANGED <<channels, rings, locks, loop, cmdBridge, payloadBridge, clients, fsm, host,
                   left>>

\* arq_get_runtime_snapshot takes the two locks one after the other.
SnapshotBacklog ==
    /\ At(reactor, "backlog") /\ app = "none"
    /\ reactor' = With("snapshot", reactor.arg)
    /\ UNCHANGED <<channels, rings, locks, loop, cmdBridge, payloadBridge, clients, fsm, host,
                   left>>

\* tnc_send_buffer: no line when the value is the last one sent, or no room.
SnapshotSession ==
    /\ At(reactor, "snapshot") /\ sess = "none"
    /\ \/ reactor' = Go(reactor.arg)
       \/ RoomForLine /\ reactor' = With("send", reactor.arg)
    /\ UNCHANGED <<channels, rings, locks, loop, cmdBridge, payloadBridge, clients, fsm, host,
                   left>>

SendBuffer ==
    /\ At(reactor, "send") /\ SendLine(0)
    /\ reactor' = Go(reactor.arg)
    /\ UNCHANGED <<cmds, payloads, evq, rings, locks, loop, cmdBridge, payloadBridge, clients,
                   fsm, host, left>>

\* size_buffer, then read_buffer of as much: between the two the ring is not
\* locked.
SizeRx ==
    /\ At(reactor, "size")
    /\ reactor' = IF data /\ rx # <<>> THEN With("read", Len(rx)) ELSE Go("drain")
    /\ UNCHANGED <<channels, rings, locks, loop, cmdBridge, payloadBridge, clients, fsm, host,
                   left>>

ReadRx ==
    /\ At(reactor, "read") /\ "reactor" \notin rxSleep
    /\ IF Len(rx) >= reactor.arg
       THEN /\ handed' = SubSeq(rx, 1, reactor.arg)
            /\ rx' = SubSeq(rx, reactor.arg + 1, Len(rx))
            /\ WakeRx
            /\ reactor' = Go("drain")
       ELSE /\ rxSleep' = rxSleep \cup {"reactor"}
            /\ UNCHANGED <<rx, handed, reactor>>
    /\ UNCHANGED <<channels, tx, locks, loop, cmdBridge, payloadBridge, clients, fsm, told,
                   left>>

Reactor ==
    \/ DrainLine \/ CtlPort \/ DataPort \/ Report
    \/ SnapshotBacklog \/ SnapshotSession \/ SendBuffer \/ SizeRx \/ ReadRx

-----------------------------------------------------------------------------
(* The event loop: arq_event_loop_worker and the callbacks of the FSM      *)

Events == {"APP_CONNECT", "APP_DISCONNECT", "APP_DATA_READY", "RX_DATA", "TIMER"}

\* All that is queued is taken at once and dispatched under g_sess_lock; then
\* the deadline, if it has passed.
TakeEvents ==
    /\ At(loop, "wait") /\ sess = "none"
    /\ sess' = "loop" /\ evq' = <<>>
    /\ loop' = [pc |-> "dispatch", events |-> Append(evq, "TIMER"), n |-> 0]
    /\ UNCHANGED <<cmds, payloads, tnc, rings, app, reactor, cmdBridge, payloadBridge, clients,
                   fsm, host, left>>

LoopGoes(pc) == loop' = [pc |-> pc, events |-> loop.events, n |-> 0]

\* What the handler of the event at the head calls back into arq.c first.
Calls(pc, n) == loop' = [pc |-> pc, events |-> Tail(loop.events), n |-> n]

Handle(ev) ==
    \/ ev = "APP_CONNECT" /\ ~linked
       /\ linked' = TRUE /\ session' = session + 1 /\ Calls("clearRx", 0)
    \/ ev \in {"APP_DISCONNECT", "TIMER"} /\ linked
       /\ linked' = FALSE /\ Calls("flushTx", 0) /\ UNCHANGED session
    \/ ev \in {"APP_DATA_READY", "TIMER"} /\ linked
       /\ Calls("sizeTx", 0) /\ UNCHANGED fsm
    \/ ev = "RX_DATA" /\ linked
       /\ \E n \in FrameLens : Calls("deliver", n)
       /\ UNCHANGED fsm
    \/ Calls("dispatch", 0) /\ UNCHANGED fsm

Dispatch ==
    /\ At(loop, "dispatch") /\ loop.events # <<>>
    /\ Handle(Head(loop.events))
    /\ UNCHANGED <<channels, rings, locks, reactor, cmdBridge, payloadBridge, clients, host,
                   left>>

\* Wrong: an early return leaves the lock taken.
EventsDoneStillLocked ==
    /\ At(loop, "dispatch") /\ loop.events = <<>>
    /\ LoopGoes("wait")
    /\ UNCHANGED <<channels, rings, locks, reactor, cmdBridge, payloadBridge, clients, fsm,
                   host, left>>

EventsDone ==
    /\ At(loop, "dispatch") /\ loop.events = <<>>
    /\ sess' = "none"
    /\ LoopGoes("wait")
    /\ UNCHANGED <<channels, rings, app, reactor, cmdBridge, payloadBridge, clients, fsm, host,
                   left>>

\* Wrong: what the last session left in the ring stays there.
KeepRx ==
    /\ At(loop, "clearRx")
    /\ LoopGoes("tell")
    /\ UNCHANGED <<channels, rings, locks, reactor, cmdBridge, payloadBridge, clients, fsm,
                   host, left>>

\* cb_notify_connected: the stale bytes go before the host is told.
ClearRx ==
    /\ At(loop, "clearRx")
    /\ rx' = <<>> /\ WakeRx
    /\ LoopGoes("tell")
    /\ UNCHANGED <<channels, tx, locks, reactor, cmdBridge, payloadBridge, clients, fsm, host,
                   left>>

\* cb_notify_disconnected, with listening off
FlushTx ==
    /\ At(loop, "flushTx") /\ app = "none"
    /\ tx' = 0
    /\ LoopGoes("tell")
    /\ UNCHANGED <<channels, rx, rxSleep, locks, reactor, cmdBridge, payloadBridge, clients,
                   fsm, host, left>>

\* tnc_send_connected, tnc_send_disconnected
Tell ==
    /\ At(loop, "tell")
    /\ LoopGoes(IF RoomForLine THEN "send" ELSE "dispatch")
    /\ UNCHANGED <<channels, rings, locks, reactor, cmdBridge, payloadBridge, clients, fsm,
                   host, left>>

SendNotice ==
    /\ At(loop, "send") /\ SendLine(IF linked THEN session ELSE 0)
    /\ LoopGoes("dispatch")
    /\ UNCHANGED <<cmds, payloads, evq, rings, locks, reactor, cmdBridge, payloadBridge,
                   clients, fsm, host, left>>

\* cb_tx_read: the size is looked at and the bytes are read under one lock,
\* at most as many as the frame takes.
SizeTx ==
    /\ At(loop, "sizeTx") /\ app = "none"
    /\ \/ tx = 0 /\ LoopGoes("dispatch") /\ UNCHANGED app
       \/ \E n \in 1 .. tx :
             loop' = [pc |-> "readTx", events |-> loop.events, n |-> n] /\ app' = "loop"
    /\ UNCHANGED <<channels, rings, sess, reactor, cmdBridge, payloadBridge, clients, fsm,
                   host, left>>

ReadTx ==
    /\ At(loop, "readTx") /\ tx >= loop.n
    /\ tx' = tx - loop.n /\ app' = "none"
    /\ LoopGoes("dispatch")
    /\ UNCHANGED <<channels, rx, rxSleep, sess, reactor, cmdBridge, payloadBridge, clients,
                   fsm, host, left>>

\* cb_deliver_rx_data: write_buffer waits for room, with g_sess_lock held.
DeliverRx ==
    /\ At(loop, "deliver") /\ "loop" \notin rxSleep
    /\ IF Len(rx) + loop.n <= RxRoom
       THEN /\ rx' = rx \o [i \in 1 .. loop.n |-> session] /\ WakeRx
            /\ LoopGoes("dispatch")
       ELSE /\ rxSleep' = rxSleep \cup {"loop"}
            /\ UNCHANGED <<rx, loop>>
    /\ UNCHANGED <<channels, tx, locks, reactor, cmdBridge, payloadBridge, clients, fsm, host,
                   left>>

EventLoop ==
    \/ TakeEvents \/ Dispatch \/ EventsDone \/ ClearRx \/ FlushTx \/ Tell \/ SendNotice
    \/ SizeTx \/ ReadTx \/ DeliverRx

-----------------------------------------------------------------------------
(* The command bridge: arq_cmd_bridge_worker and handle_cmd                *)

\* DISCONNECT is answered at once, ABORT after the rings have been emptied;
\* CLIENT_DISCONNECT is not answered, and CLIENT_CONNECT, like the lines that
\* set an option, is no event.
TakeCmd ==
    /\ At(cmdBridge, "recv") /\ cmds # <<>>
    /\ cmds' = Tail(cmds)
    /\ cmdBridge' = CASE Head(cmds) = "CONNECT" -> With("push", "APP_CONNECT")
                      [] Head(cmds) = "DISCONNECT" -> With("tell", "APP_DISCONNECT")
                      [] Head(cmds) = "ABORT" -> With("clearTx", "APP_DISCONNECT")
                      [] Head(cmds) = "CLIENT_DISCONNECT" -> With("push", "APP_DISCONNECT")
                      [] Head(cmds) = "CLIENT_CONNECT" -> cmdBridge
    /\ UNCHANGED <<payloads, tnc, evq, rings, locks, reactor, loop, payloadBridge, clients,
                   fsm, host, left>>

BridgeGoes(pc) == cmdBridge' = With(pc, cmdBridge.arg)

\* Wrong: the ring's own lock is taken for enough.
AbortClearsTxUnlocked ==
    /\ At(cmdBridge, "clearTx")
    /\ tx' = 0 /\ BridgeGoes("clearRx")
    /\ UNCHANGED <<channels, rx, rxSleep, locks, reactor, loop, payloadBridge, clients, fsm,
                   host, left>>

\* clear_connection_data
AbortClearsTx ==
    /\ At(cmdBridge, "clearTx") /\ app = "none"
    /\ tx' = 0 /\ BridgeGoes("clearRx")
    /\ UNCHANGED <<channels, rx, rxSleep, locks, reactor, loop, payloadBridge, clients, fsm,
                   host, left>>

AbortClearsRx ==
    /\ At(cmdBridge, "clearRx")
    /\ rx' = <<>> /\ WakeRx /\ BridgeGoes("tell")
    /\ UNCHANGED <<channels, tx, locks, reactor, loop, payloadBridge, clients, fsm, host,
                   left>>

TellDisconnected ==
    /\ At(cmdBridge, "tell")
    /\ BridgeGoes(IF RoomForLine THEN "send" ELSE "push")
    /\ UNCHANGED <<channels, rings, locks, reactor, loop, payloadBridge, clients, fsm, host,
                   left>>

SendDisconnected ==
    /\ At(cmdBridge, "send") /\ SendLine(0)
    /\ BridgeGoes("push")
    /\ UNCHANGED <<cmds, payloads, evq, rings, locks, reactor, loop, payloadBridge, clients,
                   fsm, host, left>>

PushCommand ==
    /\ At(cmdBridge, "push")
    /\ evq' = Pushed(cmdBridge.arg)
    /\ cmdBridge' = Go("recv")
    /\ UNCHANGED <<cmds, payloads, tnc, rings, locks, reactor, loop, payloadBridge, clients,
                   fsm, host, left>>

CmdBridge ==
    \/ TakeCmd \/ AbortClearsTx \/ AbortClearsRx \/ TellDisconnected \/ SendDisconnected
    \/ PushCommand

-----------------------------------------------------------------------------
(* The payload bridge: arq_payload_bridge_worker.  It does not take        *)
(* g_app_tx_mtx.                                                           *)

TakeChunk ==
    /\ At(payloadBridge, "recv") /\ payloads > 0
    /\ payloads' = payloads - 1 /\ payloadBridge' = Go("write")
    /\ UNCHANGED <<cmds, tnc, evq, rings, locks, reactor, loop, cmdBridge, clients, fsm, host,
                   left>>

WriteTx ==
    /\ At(payloadBridge, "write") /\ tx < TxRoom
    /\ tx' = tx + 1 /\ payloadBridge' = Go("push")
    /\ UNCHANGED <<channels, rx, rxSleep, locks, reactor, loop, cmdBridge, clients, fsm, host,
                   left>>

PushDataReady ==
    /\ At(payloadBridge, "push")
    /\ evq' = Pushed("APP_DATA_READY") /\ payloadBridge' = Go("recv")
    /\ UNCHANGED <<cmds, payloads, tnc, rings, locks, reactor, loop, cmdBridge, clients, fsm,
                   host, left>>

PayloadBridge == TakeChunk \/ WriteTx \/ PushDataReady

-----------------------------------------------------------------------------

\* arq_handle_incoming_frame, in the modem's receive thread
ModemFrame ==
    /\ left > 0 /\ left' = left - 1
    /\ evq' = Pushed("RX_DATA")
    /\ UNCHANGED <<cmds, payloads, tnc, rings, locks, threads, clients, fsm, host>>

Init ==
    /\ cmds = <<>> /\ payloads = 0 /\ tnc = <<>> /\ evq = <<>>
    /\ tx = 0 /\ rx = <<>> /\ rxSleep = {}
    /\ sess = "none" /\ app = "none"
    /\ reactor = Go("drain") /\ cmdBridge = Go("recv") /\ payloadBridge = Go("recv")
    /\ loop = [pc |-> "wait", events |-> <<>>, n |-> 0]
    /\ ctl = FALSE /\ data = FALSE
    /\ session = 0 /\ linked = FALSE
    /\ told = 0 /\ handed = <<>>
    /\ left = MaxInputs

Next == Reactor \/ EventLoop \/ CmdBridge \/ PayloadBridge \/ ModemFrame

Spec == Init /\ [][Next]_vars

\* The threads are scheduled, and who waits for a lock or for room in a
\* channel that is free again and again gets it in the end.  The payload bridge
\* shares what it waits for with nobody.
FairSpec ==
    /\ Spec
    /\ SF_<<reactor, tnc, rxSleep>>(Reactor) /\ SF_<<loop, rxSleep>>(EventLoop)
    /\ SF_<<cmdBridge, cmds>>(CmdBridge) /\ WF_payloadBridge(PayloadBridge)

-----------------------------------------------------------------------------
(* Properties                                                              *)

TypeOK ==
    /\ cmds \in Seq(HostCommands) /\ Len(cmds) <= CmdSlots
    /\ payloads \in 0 .. PayloadSlots
    /\ tnc \in Seq(Nat) /\ Len(tnc) <= TncSlots
    /\ evq \in Seq(Events) /\ Len(evq) <= EvqSlots
    /\ tx \in 0 .. TxRoom
    /\ rx \in Seq(Nat) /\ Len(rx) <= RxRoom
    /\ rxSleep \subseteq {"reactor", "loop"}
    /\ sess \in {"none", "loop"} /\ app \in {"none", "loop"}
    /\ ctl \in BOOLEAN /\ data \in BOOLEAN
    /\ left \in Nat /\ session \in Nat /\ linked \in BOOLEAN /\ told \in Nat /\ handed \in Seq(Nat)

\* cb_tx_read never waits in read_buffer, which it would do holding both
\* locks: whatever the bridges and the reactor do between the look at the
\* size and the read, the bytes are still there.
TxReadNeverWaits == At(loop, "readTx") => tx >= loop.n

\* Once the host has been told CONNECTED for a session, no byte of an earlier
\* one is written to its data port, whatever was in the ring or in the
\* reactor's hands when the session began.
NoStaleAfterConnected ==
    [][\A i \in DOMAIN handed' : handed'[i] >= told]_vars

\* Three ways the reactor stops for good.
WaitsForSession ==  \* the loop holds the session and waits for room in rx or tnc
    At(reactor, "snapshot") /\ sess = "loop"
        /\ ("loop" \in rxSleep \/ (At(loop, "send") /\ ~RoomForLine))
WaitsForCleared ==  \* rx was emptied after its size was taken
    At(reactor, "read") /\ "reactor" \in rxSleep
WaitsForItself ==   \* tnc was filled after the look, and nobody else drains it
    At(reactor, "send") /\ ~RoomForLine

\* The reactor comes round to its sockets again and again, unless it is stuck
\* in one of these: no other circular wait over locks, rings and channels.
ReactorServes ==
    []<>At(reactor, "data")
        \/ <>[]WaitsForSession \/ <>[]WaitsForCleared \/ <>[]WaitsForItself

\* As long as the reactor comes round, the event loop takes and dispatches
\* events, except when no client takes the bytes of the frame it delivers.
LoopServes ==
    []<>At(reactor, "data") =>
        \/ []<>At(loop, "dispatch")
        \/ <>[](At(loop, "deliver") /\ Len(rx) + loop.n > RxRoom /\ ~data)

=============================================================================

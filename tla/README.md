# MercuryFM: a verification of the ARQ data link

MercuryFM is a TNC for HF/FM radio: an application talks to it over TCP (the
VARA command set), and it carries the application's byte stream to another
station over half-duplex radio with the FreeDV modems. Its core is the ARQ data
link in `datalink_arq/`: a two-level state machine, one thread that runs it, and
a transmit and a receive thread in `modem/modem.c`.

This directory holds TLA+ models of that core, TLC configurations that check
them, and proofs checked by TLAPS. `PROJECT.json` lists components, runs,
mutants, the lines every definition translates, findings, hazards and theorems.
Line numbers below refer to `src/datalink_arq/arq_fsm.c` unless a file is named.

## 1. Inventory

| Component | State | Operations | Speaks to |
|---|---|---|---|
| ARQ state machine (`arq_fsm.c`, `arq_fsm.h`) | `arq_session_t`: connection state, data-flow state, sequence counters, go-back-N window, modes, one deadline, pending flags | `arq_fsm_dispatch` for commands, received frames, timers, TX events | callbacks into the runtime |
| ARQ runtime (`arq.c`) | event queue (64), the session under `g_sess_lock`, the application's TX ring, `arq_conn` (names and options, no lock) | event loop, command bridge, payload bridge, decoding of frames, callbacks | FSM, action queue, TNC, modem threads |
| Modem action queue (`arq_modem.c`) | 64 actions | enqueue, dequeue (control first), PTT events | FSM to transmit thread |
| Transmit and receive threads (`modem/modem.c`) | the active mode, three TX rings, two decoders | key a burst, switch mode, decode | action queue, event queue, radio |
| Frame codecs, mode tables, callsign coder (`arq_protocol.c`, `arith.c`) | none | build and parse | FSM, runtime |
| Channels (`common/chan.c`, `arq_channels.c`) | bounded queues | send, receive, select | TNC to ARQ bridges |
| Ring buffers (`common/ring_buffer_posix.c`) | bytes, mutex, condition | blocking read and write | everybody |
| TNC interface (`data_interfaces/`) | sockets, status queue | commands in, notices out | channels |
| Broadcast and KISS (`datalink_broadcast/`, the broadcast port of `tcp_interfaces.c`) | two KISS streams for each client, with a decoder and a thread each, two rings, `bcast_reply_cmd`, `bcast_client_done` | clients come and go, KISS in and out | modem threads, clients |
| Framer, CRC (`modem/framer.c`, `common/crc6.c`) | none | header byte | modem threads |
| Log (`common/hermes_log.c`) | queue of entries (1024), one condition, the file and the one it replaced | log, print, change files, shut down | everybody |
| Radio control, audio, GUI, main, configuration | devices, pages | I/O | |

**How they interact.** A command reaches the FSM as an event posted by the
command bridge. Data takes another way: the payload bridge writes the TX ring,
then posts `APP_DATA_READY`. The FSM reads the ring when it builds a burst, puts
the frames in a modem ring and one action in the action queue. The transmit
thread takes the action, keys the radio (`TX_STARTED`) and unkeys it
(`TX_COMPLETE`, which does not say what was sent). The receive thread discards
what it hears while the station transmits, decodes control frames always and
payload frames in `peer_tx_mode` only, and posts events. The FSM has one
deadline and the event it will fire.

**What is hard.** Nothing on the air is reliable, and every answer races a
timeout; who may transmit is a token (the turn) that is itself handed over by
frames that fade; `TX_COMPLETE` is matched to a frame only by the state it finds;
a new DATA frame from the peer counts as an ACK; the host's commands arrive in
any state; a disconnect is put off until data has drained; the payload mode is
negotiated between two bursts, and the frames in flight belong to the old one.

**What makes each part correct.**

- FSM, one station: the deadline armed is one the state handles, and no state
  waits for something that cannot come; the window is always the tail of what
  was read from the application; what the host was told agrees with the state; a
  deferred disconnect ends.
- FSM, two stations: what one application is handed is a prefix of what the
  other wrote; a frame leaves the window only once it was delivered; a window
  keeps its payload mode.
- Runtime and TNC: four threads, two locks, channels and rings wait for each other
  in no circle but those named; bytes of one session are not handed over in the
  next; a look at a size is still true at the read.
- `arq_conn`: CONNECTED names the caller first, whatever calls there were before;
  the station listens if its host wants it to.
- Transmit thread: what is keyed are whole frames; what was handed over goes out,
  with its action or without; no wait for bytes that are not there.
- Rings and channels: bytes and messages come out once and in order, at every
  position of the wrap; no wake-up is lost; who closes wakes everybody.
- Log: no thread that logs stops in the log; all that was accepted is printed, into
  a file that is still open.
- Choice of a mode: within the bandwidth, and settled when nothing changes.
- Broadcast port: what a client hears is what another one wrote, in its framing and
  in order, whoever was connected before; the KISS decoder finds back after junk.
- Codecs: parsing undoes building, over every length.

## 2. Modules

| Module | What it is |
|---|---|
| `ArqSession` | the session record, and the helpers of `arq_fsm.c` (sending, state entry, receiving) as operators from session to session |
| `ArqFsm` | one action for each handler, the modem's action queue, the transmitter; the open specification of stations with arbitrary peers; the properties of a station |
| `ArqLink` | two stations of `ArqFsm` and a half-duplex lossy channel; the properties of a connection |
| `ArqStream` | what a connection promises the applications: two byte streams for each session. `ArqLink` implements it |
| `HostPath` | the reactor of `tcp_interfaces.c`, the event loop and the two bridges of `arq.c`, with the channels, rings, event queue and locks between them |
| `ModemTx` | `cb_send_tx_frame` in two threads, the three TX rings, the action queue, and `tx_thread` |
| `Chan`, `Fifo` | a buffered channel of `chan.c` over `queue.c`, used by any number of threads; the bounded queue it implements |
| `HermesLog` | the worker, the threads that log, the log's files and its shutdown |
| `ArqConn` | `arq_conn`, written by the command bridge and by the callbacks of the event loop: the names in CONNECTED, and LISTEN |
| `RingBuffer` | the arithmetic and copying of `ring_buffer_posix.c` |
| `ModeChoice` | `select_best_mode` |
| `ArqFrames` | the length and mode of a DATA frame on the air |
| `CallsignCoder` | the arithmetic coder of `arith.c` and the room of a callsign in a CALL |
| `BroadcastFraming` | the KISS decoder and the escapes of its encoder, the broadcast header with its length, padding, and the way back to a client |
| `BroadcastPath` | the broadcast port of several stations: clients, `recv_thread`, `send_thread`, `tcp_server_thread`, the two rings, and a modem that is heard or not |
| `Algorithms` | the inputs of `RingBuffer`, `ModeChoice` and `ArqFrames`, and what these do with any of them |
| `ArqFsmProofs`, `ArqStateProofs` | theorems about one station: types, window, the mode of a window; deadline and host, no station stranded |
| `ArqStepProofs`, `ArqLinkProofs` | what a step of a station may do to the streams and the queue; theorems about two stations: order, acknowledgement, the stream service |
| `HostPathProofs`, `ModemTxProofs`, `ThreadProofs` | theorems about the threads: who never waits, no stale bytes; whole frames; the channel as a queue, the log and `arq_conn` |
| `OperatorProofs` | theorems about `Algorithms` and `BroadcastPath` |
| `MCLive`, `MCArqFsm`, `MCArqLink`, `MCHostPath`, `MCModemTx`, `MCLibrary` | views, bounds and inputs for TLC |

The same code appears at several grains. `ArqFsm` has the whole state machine, with
the queues around it as good as synchronous; `HostPath` and `ModemTx` have the
threads around it at the grain of a critical section, and of the state machine
only what those threads see of it; `ArqConn` has a command cut where the threads
interleave (write, post, handle), and of the state machine what leads to the
callbacks that touch `arq_conn`. `Chan` and `RingBuffer` justify that the two
of them use channels and rings as bounded queues.

### From code to model

`st[s]` is everything a station holds: the fields of `arq_session_t` under their
own names, `backlog` (`g_app_tx_buf`), `data_ready` (the `APP_DATA_READY` events
still in the queue), `txq` (the actions together with their bytes), and `host`,
what the TNC was last told. `onair[s]` is the burst being transmitted.
`txlog` and `rxlog` are history: what has been read from the application and
handed to it in this session. `written` numbers what the application writes.

A handler is an action named state first, then event: `WaitAckRxAck`,
`DisconnectingRetry`, `ModeReqTxComplete`. An action takes in all the handler
does, also what it does through helpers and callbacks. Frames that no handler
takes change nothing (`HandleFrame` has no disjunct for them); timers and
`TX_COMPLETE` that no handler takes are actions (`TimerUnhandled`,
`TxCompleteIgnored`), because the deadline or the transmission is used up.
`OnFrame`, `OnTimer`, `OnTxComplete` and `OnDataReady` put the overdue check of
`fsm_connected` (1228) in front.

| Code | Model |
|---|---|
| `deadline_ms`, `deadline_event` | `deadline`, the event or `"none"` |
| `pending_disconnect`, `disconnect_deadline_ms` | `pending_disconnect`: `"no"`, `"draining"`, `"overdue"` |
| `tx_seq`, `rx_expected` (`uint8_t`) | unwrapped; modulo `SeqSpace` in frames and in comparisons |
| `tx_window[]`, `tx_window_count` | `tx_window`, a sequence of numbers and units |
| a piece of the byte stream | a unit, its number |
| which mode the ladder wants | the parameter `wanted` |
| how much time has passed | choices: `quiet`, `dead`, `burst` (the startup window) |

**Abstractions to know of.**

- `ArqFsm`: but for `APP_DATA_READY`, an event is handled when it is posted. SNR,
  OLLA and hysteresis are replaced by an arbitrary wanted mode, which allows more
  than the code does. A sequence of frames stands for a ring and its actions, so
  that a burst goes out with its own bytes (`ModemTx` has them apart). `rxlog` is
  what was handed to the receive ring (`HostPath` has the ring and its clearing).
  The mode recorded by `maybe_switch_modem_mode` is the burst's mode
  (`RecordedModes`). Frames with session id 0, which no station sends, are left
  out. `TIMER_KEEPALIVE` is never armed, so its handler (1306) is unreachable and
  has no action, nor has the `TIMER_ACK` branch of `TURN_REQ_TX`.
- `HostPath`: an event may lead to any callback it leads to in `arq_fsm.c`. Of the
  bytes for the air only the number is kept, of those for the host the session.
  A reactor iteration takes at most one line, one chunk and one delivery; lines
  that set an option are like `CLIENT_CONNECT`, which is no event, and are
  answered by the reactor like a report. The lines that the modem's threads send
  (PTT, SNR) are left out: they are sent with `chan_select` and hold no lock.
- `ModemTx`: a frame is as many units as its mode takes, a unit carries the
  parity of its frame, its mode and its place in it; a burst of data is one frame,
  as in all modes of the table. `cut` is history: data has been read by a size
  that was not its mode's. The state machine is reduced to when it sends and what
  `arq_modem_preferred_tx_mode` reads. A switch of mode may be put off (the code's
  hold time), forced for an action.
- `Chan`: a step is what a thread does under `m_mu`, up to the unlock or the wait.
  The mutexes `r_mu` and `w_mu` are for unbuffered channels, of which there are
  none. `by`, `put` and `got` are history.
- `HermesLog`: an entry is the file it goes to; its text is left out, and a call
  below the level is one that does nothing. The log is there from the start:
  `main` calls `hermes_log_init` once, before there are threads. It sets a file at
  most once and never calls `hermes_log_close_file`; the model has both, as often
  as there are files.
- `ArqConn`: a session id is the number of the CONNECT, and one more for all calls
  of the peers. The peers send anything; a timer fires, a deferred disconnect is
  carried out (`LeaveSession`) and an answer is sent (`AnswerSent`) at any time,
  which the code's clocks only restrict. `asking` is the event between the command
  bridge's write and its `evq_push`, `posting` the event loop between its look at
  `listen` and its. Events are not dropped. MYCALL is set and does not change, and
  there are no secondary callsigns. `hasty` and `crossed` are history: they mark
  the races for which the properties promise nothing (section 3).
- `CallsignCoder` uses 24 bits where the code has 32: TLC's integers are 32 bits
  wide. The precision left, 22 bits against 37 symbols, is ample for 15 of them.
- `BroadcastPath`: `FrameSize` and `MaxPayload` are parameters, small in the run. A
  KISS frame is written in pieces (the FEND and the command, a byte or its escape, the
  FEND), and a piece when the one before has been read: the decoder keeps its state
  from byte to byte, and how many wait for it changes nothing. The writer of the
  stream that comes in is the client's own KISS (external), the same as the
  station's. Between the rings is `Air`: a frame is heard by any stations that have
  room for it, or by none. `of` and `reply` in an entry, and all from `clients` on, are
  history. What a client writes before its first frame (`junk`) is any bytes; after
  it, it writes frames.

**The channel** (`ArqLink`, external). A frame fades or is decoded, in order,
before its sender unkeys or after. Who transmits hears nothing; when two
transmit at once both transmissions are lost. A caller's session id is one that
neither station has at the time (`FreshCall`): in the code it is seven bits of a
clock, so a repetition is possible and not covered.

## 3. Runs

All runs say `CHECK_DEADLOCK FALSE`: once the bounded host has given its data and
commands, an idle station really may stop.

| Run | Bounds beyond the common ones | Shows |
|---|---|---|
| `station_calls` | every command, two session ids, two units, bursts of two, numbers modulo 3 | `TypeOK`, `DeadlineFitsState`, `HostInStep`, `WindowIsTail` in every order of commands, frames and timeouts |
| `drain` | CONNECT and DISCONNECT, one unit, fairness | `DeferredDisconnectEnds` without ABORT |
| `link_turns` | 2 + 1 units, numbers modulo 2 | `DeliveredIsPrefix`, `AckedIsDelivered` with turns |
| `link_modes` | 3 units one way in bursts of two, two modes, numbers modulo 3 | the same with partial loss, `NeverStranded` under negotiation, and `ModeKeptInFlight` |
| `link_calls` | 2 units one way, two session ids, hang-up | `ImplementsStream`: two sessions are two pairs of streams, whatever is left of the first |
| `host_path` | channels and rings of one or two places, an event queue of two, three inputs | `TxReadNeverWaits`, `NoStaleAfterConnected`; `ReactorServes` and `LoopServes`: the circular waits there are, and no others |
| `modem_tx` | a control and two payload modes of 2, 3 and 4 units, one place in the action queue, three inputs of frames, CQs, broadcasts and ABORTs | `ReadNeverWaits`, `FramesWhole`; `BurstEnds`, `ControlGoesOut`: nothing stays behind |
| `library` | below | the operators against their definitions; the channel under four threads: `NoLostWakeup`, `CloseWakesAll`, `SelectWaitsOvertaken`, `ImplementsFifo`; the log under three: `NobodyOversleeps`, `ShutdownWakesAll`, `EntryHasItsFile`, `ShutdownPrintsAll`; `arq_conn` under the command bridge and the event loop: `SourceIsCaller`, `ListenObeyed`; the broadcast port of two stations: `KissResyncs`, `BroadcastKept` |

Common bounds of the runs of `ArqFsm` and `ArqLink`: one payload mode, one session id, bursts of one, `MaxRx` = 1 unit
from the arbitrary peer, one retry of each kind in the station runs and zero or
one in the link runs, one missed keepalive, one queued action. `MaxUnits`,
`MaxRx`, `TxqBound` and `Commands` are bounds of the models, not of the code; all
are declared in `ArqFsm`. The numbers of distinct states lie between tens of
thousands and a million (`library`).

*Why they are enough.* One retry left and none are the two cases every handler
distinguishes, and `KeepaliveMissLimit` 1 and 2 those of the keepalive. The
smallest sequence space in which a full window can be told from an empty one
(`SeqSpace` = burst + 1) makes the numbers wrap within two or three frames: a bug
of the wrap-around that needs 256 frames in the code needs three here. Two units
make a stream with a before and an after; with a third the mode changes in the
middle and the numbers wrap. `TxqBound` is how far the FSM runs ahead of the transmitter. With 1,
the transmitter takes a queued action before the next event, as every wait of
the FSM is longer than that takes (guards of 700 and 900 ms against a loop that
polls every 100 ms). A host command
with no bound on its number is given as often as the state allows.

In `host_path` a capacity of one place makes every channel and ring full and empty
within an input; the event queue and the receive ring have two, so that one of
their items can be overtaken by a clear or a drop. `MaxInputs` 3 is a command, a
chunk and a frame, or two commands and a frame: a session, its end and another.
In `modem_tx` three sizes tell every frame and every rest of a frame apart, and
one place in the action queue makes it full whenever both threads send. `Ahead`
says how many actions may be waiting when the state machine sends again.
`library` gives the ring every state of three bytes; `select_best_mode` every
threshold and its neighbours; the length every mode and every length; the
callsign coder all pairs of characters and long runs of three kinds of them. Its
broadcasts are of two kinds. In one a client of one station, and the one after it,
write a frame each, of the bytes that KISS and the header are about, in each of the
three commands, shorter than a modem frame (`FrameSize` 5) and longer than what the
decoder has room for (`MaxPayload` 6), while a client of the other latches either
framing, hangs up and is replaced. In the other a client writes up to four bytes of
junk, all that the decoder tells apart, and then a frame twice: `KissResyncs` excepts
the first. Its channel has two places, two senders and two receivers: enough for a signal to go
to a thread that finds nothing left, and for one to be overtaken. Its log has two
places, two files and two threads beside the worker: the queue is full with both
asleep, and a file can be replaced while an entry for it waits. In its `arq_conn` there is one
CONNECT, two peers and an event that waits when another is posted: a call of the
station's own before, after or in the middle of calls of two others, and commands
as often as one likes.

`ModeKeptInFlight` is checked with `TxqBound` 1 only: with two actions queued
and a peer that acknowledges what was never sent, a burst built before a mode
change can be keyed after it and record its mode for the session.

The types of `HermesLog`, `ArqConn` and `BroadcastPath` are in no run: `LogTypes`,
`ConnTypes` and `BroadcastInvariant` prove them (section 4).

*Views.* Safety runs of two kinds use a `VIEW`: `Live` (in `MCLive`) drops the
session fields that the current state does not read before they are set again,
and `StationView` also the contents of what is queued, of which a lone station
reads no more than whether it is control and its mode, and `txlog` and `rxlog`
but for their lengths. `TillOverView`, of `link_turns` and `link_calls`, looks no
further once each session has been left by one of its ends, when what those runs
check promises nothing more. The liveness runs use none. What `WindowIsTail` says of
unconnected stations, the view would not show; the proof covers it.

*Fairness.* `ArqFsm!FairSpec` has weak fairness for each station's timers, for the
handling of a posted `APP_DATA_READY`, for the drain deadline passing, for keying
and for unkeying: threads that loop for ever and clocks that advance. Nothing is
assumed of the host, the peer or the channel.

`HostPath!FairSpec` has strong fairness for the reactor, the event loop and the
command bridge: what they wait for, a mutex or room in a channel, is given back
again and again by the others, and a mutex that is free again and again is
granted; the payload bridge shares what it waits for with nobody, and weak
fairness is enough. `ModemTx!FairSpec` has weak fairness for the transmit thread,
for a call under way and for the handling of a `TX_COMPLETE`, and strong fairness
for a switch of mode, which the hold time puts off but not for ever. The state
machine need not send, nor the peer answer. In both, liveness properties name the
ways out that the code has (`WaitsForSession`, an ABORT): what they show is that
there are no others.

### Disagreements between the code and what it says

Each of these runs checks one statement of the repository, quoted in
`PROJECT.json`, and finds a behaviour of the code that contradicts it.

| Run | Property | Statement | What the code does |
|---|---|---|---|
| `abort_hang` | `DeferredDisconnectEnds` | the deferral "can never hang" | ABORT in the guard before a transmission: nothing is left to send, no event follows |
| `stale_disconnect` | `SessionStartsClean` | stale deferred disconnects are cleared | one survives failed keepalives and ends the next incoming session |
| `untold_disconnect` | `DisconnectIsTold` | the host is told once the answer is sent | not after a LISTEN or CONNECT in between |
| `undrained` | `DrainsBeforeDisconnect` | disconnect after the "last ACK received" | not after a yield in `WAIT_ACK` |

`drain` and `abort_hang` check the same property, without and with ABORT: the
promise holds but for that command. In the same way `NeverStranded` is checked
in runs without ABORT.

The model follows the code in these places too, where a comment says something
else; no run is spent on them:

- ABORT is "without deferral" (`arq.c:455`), yet it is deferred in `DATA_TX` and
  `WAIT_ACK` like any disconnect (1260);
- TURN_REQ is "intentionally ignored in WAIT_ACK" (1713), yet it is answered and
  the turn given up (1547);
- exhausted retries lead to a slower mode (1648), but the undelivered window
  itself keeps `maybe_upgrade_mode` from asking for it (519);
- the safety net of LISTENING is for calls that were being accepted (975), but
  takes back any session that ended (978): the properties of `ArqLink` compare
  two stations only while neither has left the session (`SameSession`);
- a new DATA frame confirms what was sent (1674), but with bursts of two and data
  both ways only a part of the burst may have arrived: `AckedIsDelivered` is
  checked for bursts of one (`link_turns`, `link_calls`) and for one-way bursts
  (`link_modes`). All modes have `burst_frames` 1 today;
- the revert of a failed mode request resets the peer's decoder (2147), but it is
  sent once and may be lost; then nothing is received until modes agree again,
  and nothing is lost.

What the modules of the threads and of the algorithms follow, too:

- the log has one condition for the worker and for those that wait for room, and
  signals it (`hermes_log.c`). That is enough only because the queue has a place
  for every thread that logs (`LogAssumption`; 1024 in `main.c:632`): with three
  threads and two places TLC finds `NobodyOversleeps` violated;
- "`<sourcecall>` is always the station that initiated the session"
  (`docs/TNC.md:370`): not if the host is `hasty`, as CONNECT writes the names at
  once and not when it is handled (`arq.c:414`). A CONNECT in a session, or right
  after a DISCONNECT, which is answered at once (`arq.c:450`), leaves its own names
  in place of those of the session, or loses them to the end of the session
  before. Nor if the end of the last session was never told (`untold_disconnect`),
  for then its names are still there. Without either, TLC finds `SourceIsCaller`
  violated;
- "LISTEN ON/OFF is honoured in any state" (2219), but who gives up a call that it
  was accepting enters LISTENING whatever the host wants by then (1145); and a
  LISTEN OFF may fall between the look at `listen` and the `APP_LISTEN` of the
  callback at the end of a call (`arq.c:252`), which is handled after it.
  `ListenObeyed` excepts just these two (`crossed`);
- `chan_select` "if none can proceed, -1 is returned" (`chan.c:415`) may wait: it
  looks and acts under two locks. `SelectWaitsOvertaken` shows that this takes
  another thread of the same side; `tnc_queue_line` has several senders, and one
  of them, the reactor, is also the only receiver (`WaitsForItself`);
- the reactor stops for good in two more ways (`ReactorServes`): the event loop
  waits for room in the receive ring, or in the channel of lines, with the session
  locked that the reactor's report needs (`WaitsForSession`), or the ring is
  cleared between the reactor's look and its read (`WaitsForCleared`);
- "tx_thread is safe: it size-checks every ring before its blocking reads"
  (`modem.c:659`): an ABORT between the look (1418) and the read (1431) makes it
  wait; `ReadNeverWaits` and its proof show that nothing else does;
- a broadcast in an idle session, or a size taken before an action changed the
  mode, switches the session's `payload_mode` (`modem.c:1345`, `arq.c:911`), where
  the comment there says it is for "data modes" that were negotiated (`arq.c:906`);
  the same size cuts a broadcast into frames of another mode (`modem.c:1450`), and
  data that is read by it (1439), after an action has forced a mode or a switch was
  put off, leaves the ring between two frames for all the data that follows, as
  nothing but the number of bytes says where a frame begins. `FramesWhole` excepts
  what comes after that (`cut`), and nothing else;
- ABORT empties the rings but leaves the action queue as it is (`arq.c:976`): the
  actions are given up one by one (`Check`);
- a line for the host that finds `tnc_tx_chan` full is dropped, CONNECTED and
  DISCONNECTED among them (`tcp_interfaces.c:150`); a chunk of payload that finds
  `tcp_payload` full likewise, and so is an event in a full queue (`arq.c:125`);
- bytes written before a DISCONNECT or ABORT may be overtaken by it, as they go
  by another channel and another thread (`arq.c:340`, `493`);
- callsigns of 15 characters can be too long for the ten bytes of a CALL and are
  cut without notice (`arq_protocol.c:400`); up to 14 all pass
  (`CallKeepsCallsign`);
- `select_best_mode` promises a drop to the floor after a long run of failures
  (`arq_fsm.c:405`), but while the last SNR heard supports the mode, however old
  it is, `record_tx_outcome` returns before it counts a retry (`arq_fsm.c:350`),
  and `maybe_upgrade_mode` runs only when nothing is unacknowledged;
- `arq_protocol_encode_snr` says round and truncates toward zero below -0.5 dB
  (`arq_protocol.c:196`);
- an open KISS escape survives the FEND (`kiss.c:42`): the second frame after junk
  is right but for its first byte (`KissResyncs`);
- `tcp_server_thread` clears the receive ring for the next broadcast client, and a
  second look at `bcast_client_done` is to close the race with it
  (`tcp_interfaces.c:1007`). Between that look and the read the ring may still be
  cleared: `send_thread` then waits in `read_buffer` for the next broadcast, which is
  lost, and only after it is a new client accepted (`SenderReads`, `Accepts`).

## 4. Proofs

The theorems about `ArqFsm` hold for every set of stations, modes, session ids,
retry limits, burst size, sequence space and bounds allowed by the named
assumptions of `ArqSession` and `ArqFsm` (burst smaller than the sequence space,
session ids not 0, modes that are not `"none"`), and for every sequence of frames
from the peer:

- `TypeCorrect`: `Spec => []TypeOK`;
- `WindowIntegrity`: `Spec => []WindowIsTail`. The window's frames have
  consecutive numbers up to `tx_seq - 1` and carry the units read with those
  numbers; the receive counter is the number of units delivered. So a
  retransmission always sends what its number stands for.
- `DeadlineFits`: `Spec => []DeadlineFitsState`. No handler leaves the deadline
  of another state behind;
- `HostStaysInStep`: `Spec => []HostInStep`;
- `StationsMove`: `NoAbort => (Spec => []NeverStranded)`, for hosts that do not
  give ABORT;
- `ModeStays`: `TxqBound = 1 => (Spec => ModeKeptInFlight)`.

Those about `ArqLink` hold for any two stations, any data, any number of calls and
hang-ups, and any losses and collisions (`PairAssumption`):

- `DeliveredInOrder`: `NoWrap => (LinkSpec => []DeliveredIsPrefix)`, while no more
  is written than there are sequence numbers;
- `AckedInOrder`: `LinkSpec /\ []AckedIsDelivered => []DeliveredIsPrefix`, however
  often the numbers come round;
- `OneWayAckedIsDelivered`, `OneWayDeliveredInOrder`: when only one application
  writes (`OneSided`), both hold, without a bound on what it writes;
- `AckedLinkStreams`, `OneWayLinkStreams`: `LinkSpec => ImplementsStream`, the
  refinement of `ArqStream`, under `[]AckedIsDelivered` or `OneSided`;
- `AckedHolds`, `DeliveredHolds`, `LinkStreams`: with bursts of one frame
  (`BurstFrames = 1`, as in every row of `arq_mode_table`) all three hold with data
  both ways, and without a condition on the behaviour;
- `LinkModeStays`, `LinkStationsMove`: `ModeKeptInFlight`, and `NeverStranded`
  without ABORT, of both stations.

All of these have `TxqBound = 1`, as have all runs of the link: the transmitter
takes an action before the state machine handles the next event, because every wait
of the state machine is longer than that takes (section 3). The hypothesis is
needed: with two actions queued the CALL of a new session overtakes data of the one
before, which the called station, as it takes any data for the completion of the
call that it is accepting (1085, without a look at the session), delivers.

Those about the threads hold for all capacities, modes and frame sizes
(`CapacityAssumption`, `ModeAssumption`), and for any finite sets of threads
(`ChanAssumption`):

- `HostPathTypes`, `ReadNeverWaits` (`HostPathProofs`), `ModemTxTypes`,
  `TxThreadNeverWaits` (`ModemTxProofs`): types and capacities, and that a read
  after a look at the size finds the bytes;
- `NoStaleBytes` (`HostPathProofs`): `Spec => NoStaleAfterConnected`, for any
  frames and commands;
- `FramesAreWhole` (`ModemTxProofs`): `Spec => []FramesWhole`, for any modes and any
  sizes of their frames;
- `ChanTypes`, `NoWakeupLost`, `ClosedIsAwake`, `SelectSeldomWaits`, and
  `ChanIsFifo`: `Spec => Queue!Spec`, the refinement (`ThreadProofs`).

- `LogTypes`, `LogAwake`, `LogStopsAwake`, `FilesOutliveEntries`,
  `ShutdownKeepsEntries` (`ThreadProofs`): for any threads, files and a capacity
  of at least as many places as threads (`LogAssumption`).

- `ConnTypes`, `CallerIsNamed`, `ListenHonoured` (`ThreadProofs`): for any peers, any
  number of calls and events in the queue (`CallsignAssumption`).

Those about the broadcast port (`OperatorProofs`) hold for any stations, clients,
frames and bytes of junk, and any sizes of frame, decoder and rings (`SizeAssumption`,
`PathAssumption`):

- `BroadcastInvariant`: `PathSpec => []PathInv`, types and the inductive invariant;
- `KissResyncsHolds`: `PathSpec => []KissResyncs`;
- `BroadcastKeptHolds`: `PathSpec => []BroadcastKept`.

Those about operators have no specification: the invariants of `Algorithms` hold
for every input.

- `RingsAreQueues`: `RingIsQueue`, for every size of ring and every position of the
  wrap; `RingSizes`, `RingWrite`, `RingRead` and `RingClear` add that a ring stays a
  ring;
- `BandwidthKept`, `ChoiceSettles`: `ModeWithinBandwidth` and `ModeSettles`, for all
  integer SNR, backlogs and retries;
- `LengthsKept`: `DataLengthKept`, for every mode, length and place in a burst.

What is proved of one station is proved of `OpenSpec` (`ArqFsmProofs`), a station
that may decode any well-formed frame at any time. `SpecIsOpen` and, for the link,
`LinkIsOpen` say that each step of these specifications is one of it.

*The window (`ArqFsmProofs`).* `WindowIsTail` is not inductive without types (an ACK's distance
is only meaningful for a number in range, `SubSeq` only for a sequence), and the
types need it: the window must not be longer than what was sent for its indices
into `txlog` to make sense. The invariant is their conjunction, `IInv`. It is
stated for one session as `Good(r)`; each helper of `ArqSession` has a lemma that
it preserves `Good` (`SendDataBurstGood` and `SlideWindowGood` carry the
arithmetic: topping up appends numbers from `tx_seq`, an ACK drops a prefix no
longer than the window). Handlers are compositions of helpers, so a lemma for
each group of events (`CommandGood`, `HandleFrameGood`, `OnTimerGood`,
`OnTxCompleteGood`, `OnDataReadyGood`, `TxStartGood`) only combines them, and
`NextGood` combines those. `BurstSizes` lets a burst be one frame (the startup
window) or `BurstFrames`; the window bound holds for both because a full window
is never topped up.

*The mode of a window (`ArqFsmProofs`).* The mode is written by the transmit thread,
which records that of the burst it keys, and at the end of a negotiation. `Settled`
says why neither meets a window: a queued burst of data has the session's mode, so
that keying it records no other; and a mode is asked for with an empty window, which
stays empty until the answer. Each handler leaves mode and window as they were
(`KeepsMode`), or the session settled. With two actions queued, a burst built before
a change of mode is keyed after it.

*The deadline and the host (`ArqStateProofs`).* `DeadlineFitsState` and
`HostInStep` are inductive together with the types; `StateInv` is their
conjunction. They need each other in no handler, but they read the same seven
fields of a session, and one walk through the handlers does for both. A helper
either leaves the seven fields alone (`Like`) or enters a state and arms its
deadline, after which the session fits (`FitsState`) if before it was connected with
a host in step (`UpInStep`), or, for those that end a session, whatever it was before.

*No station is stranded (`ArqStateProofs`).* `NeverStranded` is not inductive:
a station that waits for its transmission must not only have something queued,
taking it from the queue must put something on the air; and the states that send
data from a timer must have data then. The invariant `ProgressInv` says that a
station which waits for a `TX_COMPLETE` and nothing else (`Due`, which takes in
the two states whose deadline no handler looks at) has a burst queued or on the
air, that queued bursts have frames (`Queue`), and that `DATA_TX` and `WAIT_ACK`
have a backlog or a window (`Working`). Two steps need the theorems before: an
ACK that slides the window (`IInv`), and a `TX_COMPLETE` that is ignored, where
`DeadlineOf` says that the state was not waiting for it. ABORT breaks `Working`
and empties the queue; that is the behaviour `abort_hang` exhibits.

*The link (`ArqStepProofs`, `ArqLinkProofs`).* The argument is cut in two where a
station ends. `ArqStepProofs` says of each helper and handler what its step may do
to the two streams of a session and to the queue, with a frame decoded or without
(`Moves`): the logs only grow, the receiving one by the unit of a frame whose number
is due; the window gives up only what an ACK says, or all of it for a frame taken for
one; what is queued is a control frame of this session or a run of the stream
(`RunAt`). `ArqLinkProofs` then needs no handler. Its invariant `LinkInv` has, beside
the types, `StationInv` for a queue, `WireInv` for what is on a wire, and for each
direction `Pair`: who is not in the session has nothing of it on its way, and the
other one has got nothing (`NotYet`); data on its way is a run of the sender's stream
that begins at most a burst behind the receiver (`Flow`); what was delivered is a
prefix (`Prefix`). Each step of the link is that of a station that takes a frame from
its wire or none (`TakeFacts`), or that keys (`KeyFacts`). A number tells which unit
it stands for only while the receiver is not behind what the sender has given up, or
no number has come round. That is the side condition `AllTold`; it follows from
`NoWrap`, from `AckedIsDelivered`, or from `OneWayInv`: who never writes sends no
data (`Silent`, `MuteWire`), so that what is taken for an ACK is one, and says no more
than was delivered (`AckOf`). For the refinement, `LinkStepStreams` maps each step to
one of `ArqStream` or to none.

*The turn (`ArqStepProofs`, `ArqLinkProofs`).* With data both ways a DATA or a MODE_REQ
of the peer is taken for the ACK of the whole window (`WaitAckRxData`), and whether
it is one depends on who has the turn. That is not one station at most: when the
ACK that hands over the turn is lost, both believe to have it, and both may have a
frame in hand. What does hold is in `TurnPair`: if both may send (`MayTake`), then one
of them has in hand only what the other one has already delivered (`Known`). A DATA
is taken for an ACK only if it brings a unit (`Implies`); what its sender has in hand
had then not been delivered, so it is the taker's window that has, and to confirm it
is right (`ImpliedIs`). A MODE_REQ is sent with an empty window, by who has been
confirmed all that was delivered, and the same follows. The rest of `TurnPair` says
that what is queued or on the air is still meant (`Honest`): DATA by who has it in
hand, TURN_ACK and an ACK without data by who has given up the turn, or, of the
caller's first ACK, by who has been given nothing. `Turns` and `Implies` say of each
handler what it may do about that, and need bursts of one: a lone frame in hand fills
the window, so that it is repeated as it is and nothing is added to it.

*The threads (`HostPathProofs`, `ModemTxProofs`).* What a thread has looked at must
stay true until it acts. In `HostPath` the invariant adds to the types that the
event loop holds `g_app_tx_mtx` from the look to the read (`HeldWhileReading`), and
that of the others only the payload bridge touches the ring without it, and only
adds. In `ModemTx` no lock protects the ring, and `StillThere` does the work: no
step of another thread makes a ring shorter, but for `clear_connection_data`, of
which `ClearIsAbort` says that the ABORT has been counted.

*Stale bytes (`HostPathProofs`).* `StaleInv` follows CONNECTED from the clearing of the
receive ring to the host: while the event loop is between the two (`NoticeFresh`),
the line waits (`LinesFresh`), and after it has been written (`ToldFresh`), the ring
holds no byte of a session before the one that the line is about, as what is added is
of the session that is up (`FreshStays`); so what is handed over is not older than
what was last told (`HandedFresh`).

*Whole frames (`ModemTxProofs`).* Each ring is a run of whole frames from its first
unit on (`RingsWhole`, with `Aligned`), as long as every writer adds a frame and every
reader takes whole ones. The writers are two threads in the middle of
`cb_send_tx_frame` (`CallersBuilt`); an action for a control frame has the size of one
(`QueueBuilt`); what the transmit thread is about to read, or has read, is whole, or
marked by `cut` (`ThreadWhole`): data is read by the size of its action or, without
one, by that of the mode seen last, and `cut` records when a frame that was read had
another size.

*The channel (`ThreadProofs`).* `NoLostWakeup` is inductive with the types
(`WakeInv`), but each step has to count: a step moves one thread between asleep,
woken and neither, and the lemmas on sizes say once what that does to the number
of those asleep and woken. A signal that goes to nobody is one for which nobody
was asleep. `SelectWaitsOvertaken` is not inductive: a thread must first find the
channel full that it saw with room, and `SelectInv` says that who is on the way
after a look and was not overtaken still finds room, or a message. For
`ChanIsFifo` the mapping is `Contents`, the messages read from `next` on around
the end of the array; `AddAppends` and `RemoveTakesFirst` show that `queue_add` and
`queue_remove` are `Append` and `Tail` of it; sequences are compared element by
element.

*The log (`ThreadProofs`).* A thread goes to sleep in the log only when the queue
is full, and then there are as many entries as threads; each entry taken wakes a
thread if one sleeps, so that those asleep are never more than the entries left.
That needs the worker to be awake when there are entries, and when it falls asleep
there are none, hence nobody else sleeps. `EnqueueKeeps` and `TakeKeeps` do this
count, on `SignalWakesOne`. The files need `FilesHeld`: what anybody has in hand is
open until the clean-up, and then the worker has left an empty queue.

*`arq_conn` (`ThreadProofs`).* Neither property is inductive: both are about the end
of a way that begins with a write of the command bridge. `NamesInv` follows the
names: while the host is not hasty, a CONNECT in the queue is the first event of an
idle station and the names are its own (`ConnectIsNext`), they stay while the
station calls, and otherwise, until a call comes in, there are none (`NamesFit`).
`ListenInv` follows `listen`: as long as an event about it waits, the last of them
says what `listen` says (`LastSaid`), and when none waits the session agrees with it
(`ListenFits`). `TakenListen` and `ListenPosted` are the two facts about queues this
takes. `TypeInv` adds to the types that every call has a name.

*The operators (`OperatorProofs`).* The ring: a copy is split into the pieces before
and after the wrap and the contents compared element by element. The mode: a case
split over the seven modes, on the lemma that from the mode that was chosen no
higher mode's threshold is lower than it was.

*The length of a frame (`OperatorProofs`).* `BitsOf` puts a length below 2048 together
from its byte and three bits. That no length but a full frame's is told by zeros
follows; that the sizes in the table tell the modes apart is a case split.

*The broadcast port (`OperatorProofs`).* Neither property is inductive, as both speak
of a stream that rests, or of frames that have arrived. `StreamInv` says for one
stream, in or out, where the writer is in its frame and where the decoder then must
be: before the first frame (`Before`), between two (`Between`), at the opening FEND, at
the command, within the payload (`Within`, with the bytes read so far and an escape
that is half read), or in a frame that is lost as its opening FEND was taken for the
end of the junk (`Lost`). What was decoded is what was written, cut to the room of the
decoder; an escape is open at the first byte of a frame only after junk, and only in
one of the first two frames. `PieceWrites` and `StreamReads` are the steps of a
stream, and serve both directions: `InboundInv` and `OutboundInv` are `StreamInv` for
the client and for `send_thread`. `SenderInv` adds that `send_thread` rests between
frames, so that none begins inside another, and `PathTypes` that each entry of the
rings is the modem frame of a broadcast. `PayloadShown` is then the arithmetic of the header: the
length in two bytes and the type above the extension give back what was sent.

*Only model-checked:*

- `CallKeepsCallsign`: what the recursive definitions of `CallsignCoder` compute, for
  which the provers have no induction.
- Liveness (`DeferredDisconnectEnds`, `ReactorServes`, `LoopServes`, `BurstEnds`,
  `ControlGoesOut`), which needs fairness and `ENABLED`.

All other invariants and action properties of the passing runs are proved.
`AckedIsDelivered` is proved for bursts of one, and for bursts of any size with data
one way; for longer bursts with data both ways it is false (section 3).

## 5. Plan

What was planned is there: the state machine and the link (`ArqSession`, `ArqFsm`,
`ArqLink`), the abstract stream (`ArqStream`), the transmit path (`ModemTx`), the
runtime and the TNC (`HostPath`), channels, rings and the log (`Chan`,
`RingBuffer`, `HermesLog`), `arq_conn` (`ArqConn`), the broadcast port
(`BroadcastPath`), the algorithms, and the proofs. In order of importance, what would
come next:

1. Liveness of the link on a channel that does not fade for ever: a call is set
   up, data is delivered, a turn is handed over.
2. The order of the steps of `arq_shutdown`, once something calls it.
3. The bandwidth of a session, written where a CALL or ACCEPT is decoded
   (`arq.c:610`) and cleared by CONNECT and CANCELPENDING: what the two sides
   report, and whether it is the same (`docs/TNC.md:366`).
4. The receive thread with its two decoders, and the OLLA offset.
5. The arithmetic coder as a machine that takes a digit a step, with encoder and
   decoder side by side, to prove `CallKeepsCallsign` from the nesting of intervals.

### Not modelled

- Sound, radio and GUI I/O and configuration have no protocol state; what they do is
  calls to devices. `arq_timing.c` only records.
- Start-up and shutdown. `arq_shutdown` (`arq.c:836`) closes the channels, wakes the
  event loop and joins the three threads (`CloseWakesAll` is what that relies on; a
  payload bridge that waits for room in the ring is not woken by it), but nothing in
  the repository calls it; `interfaces_shutdown` is called only when start-up fails
  (`main.c:699`).
- The unbuffered channels, the senders of numbers and `queue_peek`, which nothing
  in the program uses, and `crc6`.
- FreeDV, ffaudio, iniparser, mongoose and hamlib are vendored: signal processing,
  tables and protocols of others. They are most of the lines of the repository, as
  are the noise and code tables among them, so that the share of all lines which
  these modules translate is small though they cover the data link.

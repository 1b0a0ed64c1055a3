-------------------------------- MODULE Chan --------------------------------
(***************************************************************************)
(* A buffered channel of common/chan.c over a queue of common/queue.c: the *)
(* kind of all channels of the bus of arq_channels.c and of the one for    *)
(* the lines to the control client.  Threads send and receive, or try to   *)
(* with chan_select, and sleep on the two conditions of the channel.       *)
(*                                                                         *)
(* A step is what a thread does under m_mu: up to the unlock, or up to the *)
(* wait on a condition.  A thread that has been woken has still to take    *)
(* m_mu, and others may take it before.                                    *)
(***************************************************************************)
EXTENDS Integers, Sequences, FiniteSets

CONSTANTS Writers, Readers, Msgs, Capacity

ASSUME ChanAssumption ==
    /\ IsFiniteSet(Writers) /\ IsFiniteSet(Readers)
    /\ Writers \cap Readers = {}
    /\ Capacity \in Nat \ {0}
    /\ "none" \notin Msgs

Threads == Writers \cup Readers

VARIABLES
    data, next, size,   \* the queue
    closed,
    pc,                 \* where a thread is
    by,                 \* how it came there: "call", "select"; or "overtaken"
    put, got            \* the message sent, received in the last step, or "none"

queue == <<data, next, size>>
vars == <<queue, closed, pc, by, put, got>>

\* Nothing goes in or out.
Quiet == put' = "none" /\ got' = "none" /\ UNCHANGED queue

\* called: before chan_is_closed; locking: before m_mu is taken; sleep: in
\* pthread_cond_wait; woken: on the way out of it.
Places == {"idle", "called", "locking", "sleep", "woken"}

Asleep(side) == {t \in side : pc[t] = "sleep"}
Woken(side) == {t \in side : pc[t] = "woken"}

\* w_waiting, r_waiting: who is woken counts until it has m_mu.
Waiting(side) == Cardinality(Asleep(side) \cup Woken(side))

-----------------------------------------------------------------------------
(* queue.c *)

\* The k-th place from the oldest message.  Neither index is ever twice round.
Place(k) == IF next + k >= Capacity THEN next + k - Capacity ELSE next + k

Contents == [k \in 1 .. size |-> data[Place(k - 1)]]

\* Wrong: the place after the last is not the first.
QueueAddUnwrapped(m) ==
    /\ data' = [data EXCEPT ![next + size] = m]
    /\ size' = size + 1 /\ put' = m
    /\ got' = "none" /\ UNCHANGED next

\* queue_add
QueueAdd(m) ==
    /\ data' = [data EXCEPT ![Place(size)] = m]
    /\ size' = size + 1 /\ put' = m
    /\ got' = "none" /\ UNCHANGED next

\* Wrong: one place too many before the index begins again.
QueueRemoveUnwrapped ==
    /\ got' = data[next]
    /\ next' = (next + 1) % (Capacity + 1) /\ size' = size - 1
    /\ put' = "none" /\ UNCHANGED data

\* queue_remove
QueueRemove ==
    /\ got' = data[next]
    /\ next' = Place(1) /\ size' = size - 1
    /\ put' = "none" /\ UNCHANGED data

-----------------------------------------------------------------------------
(* chan.c *)

\* Thread t is done, and one of those asleep on the other side is woken.
Signal(t, side) ==
    IF Waiting(side) > 0 /\ Asleep(side) # {}
    THEN \E u \in Asleep(side) : pc' = [pc EXCEPT ![t] = "idle", ![u] = "woken"]
    ELSE pc' = [pc EXCEPT ![t] = "idle"]

\* Wrong: only the first message of an empty queue is worth a signal.
SignalFirst(t) ==
    IF size > 0 THEN pc' = [pc EXCEPT ![t] = "idle"] ELSE Signal(t, Readers)

\* The end of a buffered_chan_send
SignalReader(t) == Signal(t, Readers)

\* Wrong: as if there were always one more place.
CanProceedAlways(t) == IF t \in Writers THEN size <= Capacity ELSE size >= 0

\* chan_can_send, chan_can_recv
CanProceed(t) == IF t \in Writers THEN size < Capacity ELSE size > 0

Begin(t) == IF t \in Writers THEN "called" ELSE "locking"

\* chan_select with one channel: whether the operation can proceed is looked at
\* under m_mu, the operation takes it again.
Select(t) ==
    /\ pc[t] = "idle" /\ CanProceed(t)
    /\ pc' = [pc EXCEPT ![t] = Begin(t)] /\ by' = [by EXCEPT ![t] = "select"]
    /\ Quiet /\ UNCHANGED closed

\* chan_send, chan_recv
Call(t) ==
    /\ pc[t] = "idle"
    /\ pc' = [pc EXCEPT ![t] = Begin(t)] /\ by' = [by EXCEPT ![t] = "call"]
    /\ Quiet /\ UNCHANGED closed

\* errno is EPIPE.
Refused(t) ==
    /\ pc' = [pc EXCEPT ![t] = "idle"] /\ by' = [by EXCEPT ![t] = "call"]
    /\ Quiet /\ UNCHANGED closed

\* chan_is_closed, before the first lock of a chan_send
LooksClosed(t) ==
    /\ pc[t] = "called"
    /\ IF closed THEN Refused(t)
       ELSE /\ pc' = [pc EXCEPT ![t] = "locking"]
            /\ Quiet /\ UNCHANGED <<closed, by>>

Locks(t) == pc[t] \in {"locking", "woken"}

\* Those of its side that are under way after a look of chan_select are late.
Overtakes(t, side) ==
    by' = [u \in Threads |->
              IF u = t THEN "call"
              ELSE IF u \in side /\ pc[u] # "idle" /\ by[u] = "select" THEN "overtaken"
              ELSE by[u]]

\* pthread_cond_wait gives m_mu back.
Sleep(t) ==
    /\ pc' = [pc EXCEPT ![t] = "sleep"]
    /\ Quiet /\ UNCHANGED <<closed, by>>

\* buffered_chan_send, from the lock or from the return of the wait
Send(t) ==
    /\ t \in Writers /\ Locks(t)
    /\ \/ closed /\ Refused(t)
       \/ ~closed /\ size = Capacity /\ Sleep(t)
       \/ /\ ~closed /\ size # Capacity
          /\ \E m \in Msgs : QueueAdd(m)
          /\ SignalReader(t) /\ Overtakes(t, Writers)
          /\ UNCHANGED closed

\* buffered_chan_recv: a closed channel is emptied first.
Recv(t) ==
    /\ t \in Readers /\ Locks(t)
    /\ \/ size = 0 /\ closed /\ Refused(t)
       \/ size = 0 /\ ~closed /\ Sleep(t)
       \/ /\ size # 0 /\ QueueRemove
          /\ Signal(t, Writers) /\ Overtakes(t, Readers)
          /\ UNCHANGED closed

\* Wrong: of several that wait only one is woken.
CloseSignals ==
    /\ ~closed /\ closed' = TRUE
    /\ pc' \in {[pc EXCEPT ![t] = "woken"] : t \in Asleep(Threads)}
                 \cup (IF Asleep(Threads) = {} THEN {pc} ELSE {})
    /\ Quiet /\ UNCHANGED by

\* chan_close: both conditions are broadcast.
Close ==
    /\ ~closed /\ closed' = TRUE
    /\ pc' = [t \in Threads |-> IF pc[t] = "sleep" THEN "woken" ELSE pc[t]]
    /\ Quiet /\ UNCHANGED by

\* pthread_cond_wait may return without a signal.
SpuriousWake(t) ==
    /\ pc[t] = "sleep"
    /\ pc' = [pc EXCEPT ![t] = "woken"]
    /\ Quiet /\ UNCHANGED <<closed, by>>

Continue(t) == LooksClosed(t) \/ Send(t) \/ Recv(t)

Init ==
    /\ data = [k \in 0 .. Capacity - 1 |-> "none"] /\ next = 0 /\ size = 0
    /\ closed = FALSE
    /\ pc = [t \in Threads |-> "idle"] /\ by = [t \in Threads |-> "call"]
    /\ put = "none" /\ got = "none"

Next ==
    \/ \E t \in Threads : Select(t) \/ Call(t) \/ Continue(t) \/ SpuriousWake(t)
    \/ Close

Spec == Init /\ [][Next]_vars

-----------------------------------------------------------------------------
(* Properties *)

TypeOK ==
    /\ data \in [0 .. Capacity - 1 -> Msgs \cup {"none"}]
    /\ next \in 0 .. Capacity - 1 /\ size \in 0 .. Capacity
    /\ closed \in BOOLEAN
    /\ pc \in [Threads -> Places] /\ \A t \in Readers : pc[t] # "called"
    /\ by \in [Threads -> {"call", "select", "overtaken"}]
    /\ put \in Msgs \cup {"none"} /\ got \in Msgs \cup {"none"}

\* No wake-up is lost, though a signal may go to a thread that finds nothing
\* left, or come when those that wait are already awake: a thread sleeps only
\* while as many of its side are on their way as there are messages, or free
\* places, to take.
NoLostWakeup ==
    /\ Asleep(Readers) # {} => size <= Cardinality(Woken(Readers))
    /\ Asleep(Writers) # {} => Capacity - size <= Cardinality(Woken(Writers))

\* chan_close leaves nobody asleep, and nobody goes to sleep after it who was
\* between his look and the lock: the bridges can be joined.
CloseWakesAll == closed => Asleep(Threads) = {}

\* chan_select waits only when another thread of its side has been faster after
\* its look: a channel with one sender is never waited for by a try to send.
SelectWaitsOvertaken == \A t \in Threads : pc[t] = "sleep" => by[t] # "select"

\* The channel is a bounded FIFO queue.
Queue == INSTANCE Fifo WITH items <- Contents
ImplementsFifo == Queue!Spec

=============================================================================

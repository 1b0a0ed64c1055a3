---------------------------- MODULE ThreadProofs ----------------------------
(***************************************************************************)
(* Proofs about what threads share: a channel of Chan, for any threads,    *)
(* messages and capacity; the log of HermesLog, for any threads, files and *)
(* capacity; and the arq_conn of ArqConn, for any peers, any number of     *)
(* calls and an event queue of any length.                                 *)
(***************************************************************************)
EXTENDS Chan, HermesLog, ArqConn, FiniteSetTheorems, SequenceTheorems, TLAPS

-----------------------------------------------------------------------------
(* The channel.  A step changes the two sets a side is about, those asleep   *)
(* and those woken, in one of four ways; what follows for their sizes is     *)
(* proved once.                                                              *)

-----------------------------------------------------------------------------
(* Types                                                                   *)

\* What a signal does: it wakes one that sleeps on the other side, if any does.
LEMMA SignalWakes ==
  ASSUME TypeOK, NEW side \in {Writers, Readers}, NEW t \in Threads, Signal(t, side)
  PROVE  \/ Asleep(side) = {} /\ pc' = [pc EXCEPT ![t] = "idle"]
         \/ \E u \in Asleep(side) : pc' = [pc EXCEPT ![t] = "idle", ![u] = "woken"]
<1>1. IsFiniteSet(side)
  BY ChanAssumption
<1>2. Asleep(side) \cup Woken(side) \in SUBSET side
  BY DEF Asleep, Woken
<1>3. IsFiniteSet(Asleep(side) \cup Woken(side))
  BY <1>1, <1>2, FS_Subset
<1>4. Asleep(side) # {} => Waiting(side) > 0
  BY <1>3, FS_EmptySet, FS_CardinalityType DEF Waiting
<1> QED
  BY <1>4 DEF Signal

LEMMA SignalTyped ==
  ASSUME TypeOK, NEW side \in {Writers, Readers}, NEW t \in Threads, Signal(t, side)
  PROVE  pc' \in [Threads -> Places] /\ \A r \in Readers : pc'[r] # "called"
<1>1. side \subseteq Threads
  BY DEF Threads
<1>2. CASE pc' = [pc EXCEPT ![t] = "idle"]
  BY <1>2 DEF TypeOK, Places
<1>3. ASSUME NEW u \in Asleep(side), pc' = [pc EXCEPT ![t] = "idle", ![u] = "woken"]
      PROVE  pc' \in [Threads -> Places] /\ \A r \in Readers : pc'[r] # "called"
  <2>1. u \in Threads
    BY <1>1, <1>3 DEF Asleep
  <2> QED
    BY <1>3, <2>1 DEF TypeOK, Places, Threads
<1> QED
  BY <1>2, <1>3, SignalWakes

LEMMA TypeInit == Init => TypeOK
<1> SUFFICES ASSUME Init
             PROVE  TypeOK
  OBVIOUS
<1>1. data \in [0 .. Capacity - 1 -> Msgs \cup {"none"}]
  BY DEF Init
<1>2. next \in 0 .. Capacity - 1 /\ size \in 0 .. Capacity
  BY ChanAssumption DEF Init
<1>3. pc \in [Threads -> Places] /\ \A t \in Readers : pc[t] # "called"
  BY DEF Init, Places, Threads
<1>4. by \in [Threads -> {"call", "select", "overtaken"}]
  BY DEF Init
<1> QED
  BY <1>1, <1>2, <1>3, <1>4 DEF Init, TypeOK

LEMMA QuietTyped ==
  ASSUME TypeOK, Quiet
  PROVE  /\ data' \in [0 .. Capacity - 1 -> Msgs \cup {"none"}]
         /\ next' \in 0 .. Capacity - 1 /\ size' \in 0 .. Capacity
         /\ put' \in Msgs \cup {"none"} /\ got' \in Msgs \cup {"none"}
  BY DEF TypeOK, Quiet, queue

LEMMA SendTyped ==
  ASSUME TypeOK, NEW t \in Threads, Send(t)
  PROVE  TypeOK'
<1>1. CASE closed /\ Refused(t)
  BY <1>1, QuietTyped DEF TypeOK, Refused, Places
<1>2. CASE ~closed /\ size = Capacity /\ Sleep(t)
  BY <1>2, QuietTyped DEF TypeOK, Sleep, Places
<1>3. ASSUME ~closed, size # Capacity, NEW m \in Msgs, QueueAdd(m), SignalReader(t),
             Overtakes(t, Writers), UNCHANGED closed
      PROVE  TypeOK'
  <2>1. Place(size) \in 0 .. Capacity - 1
    BY <1>3, ChanAssumption DEF TypeOK, Place
  <2>2. data' \in [0 .. Capacity - 1 -> Msgs \cup {"none"}]
    BY <1>3, <2>1 DEF TypeOK, QueueAdd
  <2>3. next' \in 0 .. Capacity - 1 /\ size' \in 0 .. Capacity
    BY <1>3, ChanAssumption DEF TypeOK, QueueAdd
  <2>4. pc' \in [Threads -> Places] /\ \A r \in Readers : pc'[r] # "called"
    BY <1>3, SignalTyped DEF SignalReader
  <2>5. by' \in [Threads -> {"call", "select", "overtaken"}]
    BY <1>3 DEF TypeOK, Overtakes
  <2> QED
    BY <1>3, <2>2, <2>3, <2>4, <2>5 DEF TypeOK, QueueAdd
<1> QED
  BY <1>1, <1>2, <1>3 DEF Send

LEMMA RecvTyped ==
  ASSUME TypeOK, NEW t \in Threads, Recv(t)
  PROVE  TypeOK'
<1>1. CASE size = 0 /\ closed /\ Refused(t)
  BY <1>1, QuietTyped DEF TypeOK, Refused, Places
<1>2. CASE size = 0 /\ ~closed /\ Sleep(t)
  BY <1>2, QuietTyped DEF TypeOK, Sleep, Places
<1>3. ASSUME size # 0, QueueRemove, Signal(t, Writers), Overtakes(t, Readers), UNCHANGED closed
      PROVE  TypeOK'
  <2>1. next' \in 0 .. Capacity - 1 /\ size' \in 0 .. Capacity
    BY <1>3, ChanAssumption DEF TypeOK, QueueRemove, Place
  <2>2. pc' \in [Threads -> Places] /\ \A r \in Readers : pc'[r] # "called"
    BY <1>3, SignalTyped
  <2>3. by' \in [Threads -> {"call", "select", "overtaken"}]
    BY <1>3 DEF TypeOK, Overtakes
  <2>4. got' \in Msgs \cup {"none"}
    BY <1>3 DEF TypeOK, QueueRemove
  <2> QED
    BY <1>3, <2>1, <2>2, <2>3, <2>4 DEF TypeOK, QueueRemove
<1> QED
  BY <1>1, <1>2, <1>3 DEF Recv

LEMMA TypeNext ==
  ASSUME TypeOK, [Next]_vars
  PROVE  TypeOK'
<1>1. ASSUME NEW t \in Threads, Select(t)
      PROVE  TypeOK'
  BY <1>1, QuietTyped, ChanAssumption DEF TypeOK, Select, Begin, Places, Threads
<1>2. ASSUME NEW t \in Threads, Call(t)
      PROVE  TypeOK'
  BY <1>2, QuietTyped, ChanAssumption DEF TypeOK, Call, Begin, Places, Threads
<1>3. ASSUME NEW t \in Threads, LooksClosed(t)
      PROVE  TypeOK'
  <2>1. CASE Refused(t)
    BY <2>1, QuietTyped DEF TypeOK, Refused, Places
  <2>2. CASE pc' = [pc EXCEPT ![t] = "locking"] /\ Quiet /\ UNCHANGED <<closed, by>>
    BY <2>2, QuietTyped DEF TypeOK, Places
  <2> QED
    BY <1>3, <2>1, <2>2 DEF LooksClosed
<1>4. ASSUME NEW t \in Threads, SpuriousWake(t)
      PROVE  TypeOK'
  BY <1>4, QuietTyped DEF TypeOK, SpuriousWake, Places
<1>5. CASE Close
  <2>1. pc' \in [Threads -> Places] /\ \A r \in Readers : pc'[r] # "called"
    BY <1>5 DEF TypeOK, Close, Places, Threads
  <2> QED
    BY <1>5, <2>1, QuietTyped DEF TypeOK, Close
<1>6. CASE UNCHANGED vars
  BY <1>6 DEF TypeOK, vars, queue
<1> QED
  BY <1>1, <1>2, <1>3, <1>4, <1>5, <1>6, SendTyped, RecvTyped DEF Next, Continue

\* The indices of the queue stay inside it, whatever the threads do, and no
\* more than its capacity is in it.
THEOREM ChanTypes == Spec => []TypeOK
  BY TypeInit, TypeNext, PTL DEF Spec

-----------------------------------------------------------------------------
(* Nobody sleeps in vain                                                   *)

\* Those who sleep on one side, and those who are on their way.
LEMMA SidesFinite ==
  ASSUME NEW side \in {Writers, Readers}
  PROVE  IsFiniteSet(Woken(side)) /\ Cardinality(Woken(side)) \in Nat
<1>1. IsFiniteSet(side) /\ Woken(side) \in SUBSET side
  BY ChanAssumption DEF Woken
<1> QED
  BY <1>1, FS_Subset, FS_CardinalityType

\* Room for `room' threads is no reason to sleep if as many are on their way.
Served(side, room) == Asleep(side) # {} => room <= Cardinality(Woken(side))

\* One of those asleep is woken: one more may be served.
LEMMA WakeServes ==
  ASSUME NEW side \in {Writers, Readers}, NEW room \in Int, Served(side, room),
         NEW u \in Asleep(side),
         Asleep(side)' \subseteq Asleep(side), Woken(side)' = Woken(side) \cup {u}
  PROVE  Asleep(side)' # {} => room + 1 <= Cardinality(Woken(side)')
<1>1. u \notin Woken(side)
  BY DEF Asleep, Woken
<1>2. Cardinality(Woken(side) \cup {u}) = Cardinality(Woken(side)) + 1
  BY <1>1, SidesFinite, FS_AddElement
<1> QED
  BY <1>2, SidesFinite DEF Served

\* A thread of the side takes what there is room for, on its way or not.
LEMMA TakeServes ==
  ASSUME NEW side \in {Writers, Readers}, NEW room \in Int, Served(side, room), NEW t,
         Asleep(side)' \subseteq Asleep(side), Woken(side)' = Woken(side) \ {t}
  PROVE  Asleep(side)' # {} => room - 1 <= Cardinality(Woken(side)')
<1>1. Cardinality(Woken(side) \ {t}) >= Cardinality(Woken(side)) - 1
  <2>1. IsFiniteSet(Woken(side)) /\ Cardinality(Woken(side)) \in Nat
    BY SidesFinite
  <2>2. Cardinality(Woken(side) \ {t}) = IF t \in Woken(side) THEN Cardinality(Woken(side)) - 1
                                        ELSE Cardinality(Woken(side))
    BY <2>1, FS_RemoveElement
  <2> QED
    BY <2>1, <2>2
<1>2. Cardinality(Woken(side) \ {t}) \in Nat
  BY SidesFinite, FS_RemoveElement, FS_CardinalityType
<1> QED
  BY <1>1, <1>2, SidesFinite DEF Served

\* A wake-up without cause changes nothing for the others.
LEMMA SpuriousServes ==
  ASSUME NEW side \in {Writers, Readers}, NEW room \in Int, Served(side, room), NEW u,
         Asleep(side)' \subseteq Asleep(side), Woken(side)' = Woken(side) \cup {u}
  PROVE  Asleep(side)' # {} => room <= Cardinality(Woken(side)')
<1>1. Cardinality(Woken(side) \cup {u}) >= Cardinality(Woken(side))
  <2>1. IsFiniteSet(Woken(side)) /\ Cardinality(Woken(side)) \in Nat
    BY SidesFinite
  <2>2. Cardinality(Woken(side) \cup {u}) = IF u \in Woken(side) THEN Cardinality(Woken(side))
                                           ELSE Cardinality(Woken(side)) + 1
    BY <2>1, FS_AddElement
  <2> QED
    BY <2>1, <2>2
<1>2. Cardinality(Woken(side) \cup {u}) \in Nat
  BY SidesFinite, FS_AddElement, FS_CardinalityType
<1> QED
  BY <1>1, <1>2, SidesFinite DEF Served

WakeInv == NoLostWakeup /\ CloseWakesAll

\* The two parts of NoLostWakeup, by side.
LEMMA WakeParts ==
  NoLostWakeup <=> Served(Readers, size) /\ Served(Writers, Capacity - size)
  BY DEF NoLostWakeup, Served

\* A step of thread t that neither sleeps nor signals, and moves no message,
\* takes t from those on their way, or puts it among them.
LEMMA NobodySignalled ==
  ASSUME TypeOK, WakeInv, NEW t \in Threads, NEW to \in Places \ {"sleep", "woken"},
         pc[t] \notin {"sleep", "woken"}, pc' = [pc EXCEPT ![t] = to],
         UNCHANGED size, closed' = closed
  PROVE  WakeInv'
<1>1. \A side \in {Writers, Readers, Threads} :
        Asleep(side)' = Asleep(side) /\ Woken(side)' = Woken(side)
  BY DEF TypeOK, Asleep, Woken, Threads
<1> QED
  BY <1>1 DEF WakeInv, NoLostWakeup, CloseWakesAll

\* A thread that is refused leaves a closed channel, where nobody sleeps.
LEMMA RefusedWakes ==
  ASSUME TypeOK, WakeInv, NEW t \in Threads, closed, Refused(t)
  PROVE  WakeInv'
<1>1. Asleep(Threads) = {}
  BY DEF WakeInv, CloseWakesAll
<1>2. Asleep(Threads)' = {} /\ Asleep(Readers)' = {} /\ Asleep(Writers)' = {}
  BY <1>1 DEF TypeOK, Refused, Asleep, Threads
<1> QED
  BY <1>2 DEF WakeInv, NoLostWakeup, CloseWakesAll

\* Going to sleep on an open channel that has nothing for this side.
LEMMA SleepWakes ==
  ASSUME TypeOK, WakeInv, NEW t \in Threads, Locks(t), ~closed, Sleep(t),
         \/ t \in Writers /\ size = Capacity
         \/ t \in Readers /\ size = 0
  PROVE  WakeInv'
<1>1. size' = size /\ closed' = closed
  BY DEF Sleep, Quiet, queue
<1>2. \A side \in {Writers, Readers} :
        t \notin side => Asleep(side)' = Asleep(side) /\ Woken(side)' = Woken(side)
  BY DEF TypeOK, Sleep, Asleep, Woken, Threads
<1>3. \A side \in {Writers, Readers} : Cardinality(Woken(side)') \in Nat
  <2> SUFFICES ASSUME NEW side \in {Writers, Readers}
               PROVE  Cardinality(Woken(side)') \in Nat
    OBVIOUS
  <2>1. IsFiniteSet(side) /\ Woken(side)' \in SUBSET side
    BY ChanAssumption DEF Woken
  <2> QED
    BY <2>1, FS_Subset, FS_CardinalityType
<1>4. CASE t \in Writers /\ size = Capacity
  <2>1. t \notin Readers
    BY <1>4, ChanAssumption
  <2> QED
    BY <1>1, <1>2, <1>3, <1>4, <2>1, ChanAssumption DEF WakeInv, NoLostWakeup, CloseWakesAll
<1>5. CASE t \in Readers /\ size = 0
  <2>1. t \notin Writers
    BY <1>5, ChanAssumption
  <2> QED
    BY <1>1, <1>2, <1>3, <1>5, <2>1, ChanAssumption DEF WakeInv, NoLostWakeup, CloseWakesAll
<1> QED
  BY <1>4, <1>5

\* The end of an operation by thread t of the side `own': t takes what there is
\* room for on its side, and there is room for one more on the other.
LEMMA DoneWakes ==
  ASSUME TypeOK, NEW own \in {Writers, Readers}, NEW other \in {Writers, Readers}, own # other,
         NEW t \in own, Locks(t), Signal(t, other),
         NEW mine \in Int, Served(own, mine), NEW theirs \in Int, Served(other, theirs)
  PROVE  /\ Asleep(own)' # {} => mine - 1 <= Cardinality(Woken(own)')
         /\ Asleep(other)' # {} => theirs + 1 <= Cardinality(Woken(other)')
         /\ Asleep(Threads) = {} => Asleep(Threads)' = {}
<1>1. t \in Threads /\ t \notin other /\ own \subseteq Threads /\ other \subseteq Threads
      /\ own \cap other = {}
  BY ChanAssumption DEF Threads
<1>2. pc[t] \notin {"sleep", "idle"}
  BY DEF Locks
<1>3. CASE Asleep(other) = {} /\ pc' = [pc EXCEPT ![t] = "idle"]
  <2>1. Asleep(own)' = Asleep(own) /\ Woken(own)' = Woken(own) \ {t}
    BY <1>1, <1>2, <1>3 DEF TypeOK, Asleep, Woken
  <2>2. Asleep(other)' = {} /\ Asleep(Threads)' = Asleep(Threads)
    BY <1>1, <1>2, <1>3 DEF TypeOK, Asleep
  <2> QED
    BY <2>1, <2>2, TakeServes
<1>4. ASSUME NEW u \in Asleep(other), pc' = [pc EXCEPT ![t] = "idle", ![u] = "woken"]
      PROVE  /\ Asleep(own)' # {} => mine - 1 <= Cardinality(Woken(own)')
             /\ Asleep(other)' # {} => theirs + 1 <= Cardinality(Woken(other)')
             /\ Asleep(Threads) = {} => Asleep(Threads)' = {}
  <2>1. u \in other /\ u # t /\ pc[u] = "sleep"
    BY <1>1, <1>4 DEF Asleep
  <2>2. pc' = [s \in Threads |-> IF s = t THEN "idle" ELSE IF s = u THEN "woken" ELSE pc[s]]
    BY <1>1, <1>4, <2>1 DEF TypeOK
  <2>3. Asleep(own)' = Asleep(own) /\ Woken(own)' = Woken(own) \ {t}
    BY <1>1, <1>2, <2>1, <2>2 DEF Asleep, Woken
  <2>4. Asleep(other)' \subseteq Asleep(other) /\ Woken(other)' = Woken(other) \cup {u}
    BY <1>1, <1>2, <2>1, <2>2 DEF Asleep, Woken
  <2>5. Asleep(Threads)' \subseteq Asleep(Threads)
    BY <1>1, <1>2, <2>1, <2>2 DEF Asleep
  <2> QED
    BY <1>4, <2>3, <2>4, <2>5, TakeServes, WakeServes
<1> QED
  BY <1>1, <1>3, <1>4, SignalWakes

LEMMA SendWakes ==
  ASSUME TypeOK, WakeInv, NEW t \in Threads, Send(t)
  PROVE  WakeInv'
<1>1. t \in Writers /\ Locks(t)
  BY DEF Send
<1>2. CASE closed /\ Refused(t)
  BY <1>2, RefusedWakes
<1>3. CASE ~closed /\ size = Capacity /\ Sleep(t)
  BY <1>1, <1>3, SleepWakes
<1>4. ASSUME ~closed, NEW m \in Msgs, QueueAdd(m), SignalReader(t), UNCHANGED closed
      PROVE  WakeInv'
  <2>1. size \in Int /\ Capacity - size \in Int /\ size' = size + 1
    BY <1>4, ChanAssumption DEF TypeOK, QueueAdd
  <2>2. Served(Readers, size) /\ Served(Writers, Capacity - size)
    BY WakeParts DEF WakeInv
  <2>3. Writers # Readers
    BY <1>1, ChanAssumption
  <2>4. /\ Asleep(Writers)' # {} => (Capacity - size) - 1 <= Cardinality(Woken(Writers)')
        /\ Asleep(Readers)' # {} => size + 1 <= Cardinality(Woken(Readers)')
    BY <1>1, <1>4, <2>1, <2>2, <2>3, DoneWakes DEF SignalReader
  <2>5. Capacity - size' = (Capacity - size) - 1
    BY <2>1, ChanAssumption
  <2> QED
    BY <1>4, <2>1, <2>4, <2>5 DEF WakeInv, NoLostWakeup, CloseWakesAll
<1> QED
  BY <1>2, <1>3, <1>4 DEF Send

LEMMA RecvWakes ==
  ASSUME TypeOK, WakeInv, NEW t \in Threads, Recv(t)
  PROVE  WakeInv'
<1>1. t \in Readers /\ Locks(t)
  BY DEF Recv
<1>2. CASE size = 0 /\ closed /\ Refused(t)
  BY <1>2, RefusedWakes
<1>3. CASE size = 0 /\ ~closed /\ Sleep(t)
  BY <1>1, <1>3, SleepWakes
<1>4. ASSUME QueueRemove, Signal(t, Writers), UNCHANGED closed
      PROVE  WakeInv'
  <2>1. size \in Int /\ Capacity - size \in Int /\ size' = size - 1
    BY <1>4, ChanAssumption DEF TypeOK, QueueRemove
  <2>2. Served(Readers, size) /\ Served(Writers, Capacity - size)
    BY WakeParts DEF WakeInv
  <2>3. Writers # Readers
    BY <1>1, ChanAssumption
  <2>4. /\ Asleep(Readers)' # {} => size - 1 <= Cardinality(Woken(Readers)')
        /\ Asleep(Writers)' # {} => (Capacity - size) + 1 <= Cardinality(Woken(Writers)')
        /\ Asleep(Threads) = {} => Asleep(Threads)' = {}
    BY <1>1, <1>4, <2>1, <2>2, <2>3, DoneWakes
  <2>5. Capacity - size' = (Capacity - size) + 1
    BY <2>1, ChanAssumption
  <2> QED
    BY <1>4, <2>1, <2>4, <2>5 DEF WakeInv, NoLostWakeup, CloseWakesAll
<1> QED
  BY <1>2, <1>3, <1>4 DEF Recv

LEMMA WakeNext ==
  ASSUME TypeOK, WakeInv, [Next]_vars
  PROVE  WakeInv'
<1>1. ASSUME NEW t \in Threads, Select(t) \/ Call(t)
      PROVE  WakeInv'
  <2>1. Begin(t) \in Places \ {"sleep", "woken"}
    BY DEF Begin, Places
  <2>2. size' = size /\ closed' = closed
    BY <1>1 DEF Select, Call, Quiet, queue
  <2> QED
    BY <1>1, <2>1, <2>2, NobodySignalled DEF Select, Call
<1>2. ASSUME NEW t \in Threads, LooksClosed(t)
      PROVE  WakeInv'
  <2>1. CASE closed
    BY <1>2, <2>1, RefusedWakes DEF LooksClosed
  <2>2. CASE ~closed
    <3>1. /\ pc[t] = "called" /\ pc' = [pc EXCEPT ![t] = "locking"]
          /\ size' = size /\ closed' = closed
      BY <1>2, <2>2 DEF LooksClosed, Quiet, queue
    <3>2. "locking" \in Places \ {"sleep", "woken"}
      BY DEF Places
    <3> QED
      BY <3>1, <3>2, NobodySignalled
  <2> QED
    BY <2>1, <2>2
<1>3. ASSUME NEW t \in Threads, SpuriousWake(t)
      PROVE  WakeInv'
  <2>1. size' = size /\ closed' = closed
    BY <1>3 DEF SpuriousWake, Quiet, queue
  <2>2. \A side \in {Writers, Readers, Threads} :
          /\ Asleep(side)' \subseteq Asleep(side)
          /\ t \in side => Woken(side)' = Woken(side) \cup {t}
          /\ t \notin side => Woken(side)' = Woken(side) /\ Asleep(side)' = Asleep(side)
    BY <1>3 DEF TypeOK, SpuriousWake, Asleep, Woken, Threads
  <2>3. size \in Int /\ Capacity - size \in Int
    BY ChanAssumption DEF TypeOK
  <2>4. Served(Readers, size) /\ Served(Writers, Capacity - size)
    BY WakeParts DEF WakeInv
  <2>5. Asleep(Readers)' # {} => size <= Cardinality(Woken(Readers)')
    BY <2>2, <2>3, <2>4, SpuriousServes DEF Served
  <2>6. Asleep(Writers)' # {} => Capacity - size <= Cardinality(Woken(Writers)')
    BY <2>2, <2>3, <2>4, SpuriousServes DEF Served
  <2> QED
    BY <2>1, <2>2, <2>5, <2>6 DEF WakeInv, NoLostWakeup, CloseWakesAll
<1>4. CASE Close
  <2>1. Asleep(Threads)' = {} /\ Asleep(Readers)' = {} /\ Asleep(Writers)' = {}
    BY <1>4 DEF TypeOK, Close, Asleep, Threads
  <2> QED
    BY <2>1 DEF WakeInv, NoLostWakeup, CloseWakesAll
<1>5. CASE UNCHANGED vars
  BY <1>5 DEF vars, queue, WakeInv, NoLostWakeup, CloseWakesAll, Asleep, Woken
<1> QED
  BY <1>1, <1>2, <1>3, <1>4, <1>5, SendWakes, RecvWakes DEF Next, Continue

LEMMA WakeInit == Init => WakeInv
  BY DEF Init, WakeInv, NoLostWakeup, CloseWakesAll, Asleep, Threads

LEMMA WakeInductive == Spec => []WakeInv
  BY WakeInit, WakeNext, ChanTypes, PTL DEF Spec

\* buffered_chan_send and buffered_chan_recv lose no wake-up, for any number of
\* threads and any capacity: whoever sleeps is not needed yet.
THEOREM NoWakeupLost == Spec => []NoLostWakeup
<1>1. WakeInv => NoLostWakeup
  BY DEF WakeInv
<1> QED
  BY <1>1, WakeInductive, PTL

\* After chan_close nobody is asleep in the channel, nor will be.
THEOREM ClosedIsAwake == Spec => []CloseWakesAll
<1>1. WakeInv => CloseWakesAll
  BY DEF WakeInv
<1> QED
  BY <1>1, WakeInductive, PTL

-----------------------------------------------------------------------------
(* chan_select                                                             *)

\* Who has looked and was not overtaken has not slept, and what was seen holds.
SelectInv ==
    \A t \in Threads : by[t] = "select" => pc[t] \in {"called", "locking"} /\ CanProceed(t)

\* A step of thread t after which t has not looked, that moves no message.
LEMMA SelectKept ==
  ASSUME TypeOK, SelectInv, NEW t \in Threads, UNCHANGED size, by'[t] # "select",
         \A u \in Threads \ {t} : pc'[u] = pc[u] /\ by'[u] = by[u]
  PROVE  SelectInv'
  BY DEF SelectInv, CanProceed

\* The end of a Send or Recv overtakes those of the side that have looked; for
\* the other side there is more than before.
LEMMA SelectOvertaken ==
  ASSUME TypeOK, SelectInv, NEW own \in {Writers, Readers}, NEW other \in {Writers, Readers},
         own # other, NEW t \in own, Signal(t, other), Overtakes(t, own), size' \in Int,
         own = Writers => size' >= size, own = Readers => size' <= size
  PROVE  SelectInv'
<1> SUFFICES ASSUME NEW u \in Threads, by'[u] = "select"
             PROVE  pc'[u] \in {"called", "locking"} /\ CanProceed(u)'
  BY DEF SelectInv
<1>1. u # t /\ by[u] = "select" /\ u \notin own
  BY DEF Overtakes, SelectInv
<1>2. pc[u] \in {"called", "locking"} /\ CanProceed(u)
  BY <1>1 DEF SelectInv
<1>3. u \in other /\ t \in Threads
  BY <1>1 DEF Threads
<1>4. pc'[u] = pc[u]
  <2>1. CASE pc' = [pc EXCEPT ![t] = "idle"]
    BY <1>1, <2>1 DEF TypeOK
  <2>2. ASSUME NEW v \in Asleep(other), pc' = [pc EXCEPT ![t] = "idle", ![v] = "woken"]
        PROVE  pc'[u] = pc[u]
    BY <1>1, <1>2, <2>2 DEF TypeOK, Asleep
  <2> QED
    BY <1>3, <2>1, <2>2, SignalWakes
<1>5. CanProceed(u)'
  BY <1>1, <1>2, <1>3, ChanAssumption DEF TypeOK, CanProceed
<1> QED
  BY <1>2, <1>4, <1>5

LEMMA SelectNext ==
  ASSUME TypeOK, SelectInv, [Next]_vars
  PROVE  SelectInv'
<1>1. ASSUME NEW t \in Threads, Select(t)
      PROVE  SelectInv'
  BY <1>1 DEF TypeOK, Select, SelectInv, CanProceed, Begin, Quiet, queue
<1>2. ASSUME NEW t \in Threads, Call(t)
      PROVE  SelectInv'
  BY <1>2, SelectKept DEF TypeOK, Call, Quiet, queue
<1>3. ASSUME NEW t \in Threads, Refused(t)
      PROVE  SelectInv'
  BY <1>3, SelectKept DEF TypeOK, Refused, Quiet, queue
<1>4. ASSUME NEW t \in Threads, LooksClosed(t), ~closed
      PROVE  SelectInv'
  BY <1>4 DEF TypeOK, LooksClosed, SelectInv, CanProceed, Quiet, queue
<1>5. ASSUME NEW t \in Threads, Sleep(t), Locks(t), ~CanProceed(t)
      PROVE  SelectInv'
  <2>1. by[t] # "select"
    BY <1>5 DEF SelectInv
  <2> QED
    BY <1>5, <2>1, SelectKept DEF TypeOK, Sleep, Quiet, queue
<1>6. ASSUME NEW t \in Threads, Send(t)
      PROVE  SelectInv'
  <2>1. CASE ~closed /\ size = Capacity /\ Sleep(t)
    <3>1. Locks(t) /\ ~CanProceed(t)
      BY <1>6, <2>1, ChanAssumption DEF Send, CanProceed
    <3> QED
      BY <1>5, <2>1, <3>1
  <2>2. ASSUME NEW m \in Msgs, QueueAdd(m), SignalReader(t), Overtakes(t, Writers)
        PROVE  SelectInv'
    <3>1. t \in Writers /\ Writers # Readers
      BY <1>6, ChanAssumption DEF Send
    <3>2. size' \in Int /\ size' >= size
      BY <2>2 DEF TypeOK, QueueAdd
    <3> QED
      BY <2>2, <3>1, <3>2, SelectOvertaken DEF SignalReader
  <2> QED
    BY <1>3, <1>6, <2>1, <2>2 DEF Send
<1>7. ASSUME NEW t \in Threads, Recv(t)
      PROVE  SelectInv'
  <2>1. CASE size = 0 /\ ~closed /\ Sleep(t)
    <3>1. Locks(t) /\ ~CanProceed(t)
      BY <1>7, <2>1, ChanAssumption DEF Recv, CanProceed
    <3> QED
      BY <1>5, <2>1, <3>1
  <2>2. ASSUME QueueRemove, Signal(t, Writers), Overtakes(t, Readers)
        PROVE  SelectInv'
    <3>1. t \in Readers /\ Writers # Readers
      BY <1>7, ChanAssumption DEF Recv
    <3>2. size' \in Int /\ size' <= size
      BY <2>2 DEF TypeOK, QueueRemove
    <3> QED
      BY <2>2, <3>1, <3>2, SelectOvertaken
  <2> QED
    BY <1>3, <1>7, <2>1, <2>2 DEF Recv
<1>8. ASSUME NEW t \in Threads, SpuriousWake(t)
      PROVE  SelectInv'
  <2>1. by[t] # "select"
    BY <1>8 DEF SelectInv, SpuriousWake
  <2> QED
    BY <1>8, <2>1, SelectKept DEF TypeOK, SpuriousWake, Quiet, queue
<1>9. CASE Close
  BY <1>9 DEF TypeOK, Close, SelectInv, CanProceed, Quiet, queue
<1>10. CASE UNCHANGED vars
  BY <1>10 DEF vars, queue, SelectInv, CanProceed
<1> QED
  BY <1>1, <1>2, <1>3, <1>4, <1>6, <1>7, <1>8, <1>9, <1>10 DEF Next, Continue, LooksClosed

\* A try to send or to receive with chan_select comes to wait only if another
\* thread of its side was faster after its look.
THEOREM SelectSeldomWaits == Spec => []SelectWaitsOvertaken
<1>1. Init => SelectInv
  BY DEF Init, SelectInv
<1>2. SelectInv => SelectWaitsOvertaken
  BY DEF SelectInv, SelectWaitsOvertaken
<1> QED
  BY <1>1, <1>2, SelectNext, ChanTypes, PTL DEF Spec

-----------------------------------------------------------------------------
(* The channel is a queue                                                  *)

LEMMA PlacesDiffer ==
  ASSUME TypeOK, NEW j \in 0 .. Capacity - 1, NEW k \in 0 .. Capacity - 1
  PROVE  Place(j) \in 0 .. Capacity - 1 /\ (j # k => Place(j) # Place(k))
  BY ChanAssumption DEF TypeOK, Place

LEMMA ContentsSeq ==
  ASSUME TypeOK
  PROVE  /\ Contents \in Seq(Msgs \cup {"none"}) /\ Len(Contents) = size
         /\ \A k \in 1 .. size : Contents[k] = data[Place(k - 1)]
<1>1. \A k \in 1 .. size : data[Place(k - 1)] \in Msgs \cup {"none"}
  BY PlacesDiffer, ChanAssumption DEF TypeOK
<1> QED
  BY <1>1 DEF Contents, TypeOK

LEMMA AddAppends ==
  ASSUME TypeOK, NEW m \in Msgs, size # Capacity, QueueAdd(m)
  PROVE  Contents' = Append(Contents, m)
<1>1. size \in 0 .. Capacity - 1 /\ size' = size + 1 /\ next' = next
  BY ChanAssumption DEF TypeOK, QueueAdd
<1>2. \A k \in 0 .. Capacity - 1 : Place(k)' = Place(k)
  BY <1>1 DEF Place
<1>3. data'[Place(size)] = m
  BY <1>1, PlacesDiffer DEF TypeOK, QueueAdd
<1>4. \A k \in 1 .. size : data'[Place(k - 1)] = data[Place(k - 1)]
  <2> SUFFICES ASSUME NEW k \in 1 .. size
               PROVE  data'[Place(k - 1)] = data[Place(k - 1)]
    OBVIOUS
  <2>1. k - 1 \in 0 .. Capacity - 1 /\ k - 1 # size
    BY <1>1, ChanAssumption
  <2>2. Place(k - 1) # Place(size) /\ Place(k - 1) \in 0 .. Capacity - 1
    BY <1>1, <2>1, PlacesDiffer
  <2> QED
    BY <2>2 DEF TypeOK, QueueAdd
<1>5. Contents' = [k \in 1 .. size + 1 |-> IF k = size + 1 THEN m ELSE Contents[k]]
  <2>1. Contents' = [k \in 1 .. size + 1 |-> data'[Place(k - 1)']]
    BY <1>1 DEF Contents
  <2>2. \A k \in 1 .. size + 1 : k - 1 \in 0 .. Capacity - 1
    BY <1>1, ChanAssumption
  <2>3. \A k \in 1 .. size + 1 :
          data'[Place(k - 1)'] = IF k = size + 1 THEN m ELSE Contents[k]
    <3> SUFFICES ASSUME NEW k \in 1 .. size + 1
                 PROVE  data'[Place(k - 1)'] = IF k = size + 1 THEN m ELSE Contents[k]
      OBVIOUS
    <3>1. CASE k = size + 1
      BY <1>1, <1>2, <1>3, <3>1
    <3>2. CASE k # size + 1
      BY <1>1, <1>2, <1>4, <2>2, <3>2, ContentsSeq
    <3> QED
      BY <3>1, <3>2
  <2> QED
    BY <2>1, <2>3
<1> DEFINE S == Msgs \cup {"none"}
<1>6. Contents \in Seq(S) /\ Len(Contents) = size /\ size \in Nat /\ m \in S
  BY <1>1, ContentsSeq
<1>7. Contents' \in Seq(S) /\ Len(Contents') = size + 1
  <2>1. \A k \in 1 .. size + 1 : (IF k = size + 1 THEN m ELSE Contents[k]) \in S
    BY <1>6
  <2> QED
    BY <1>5, <1>6, <2>1
<1>8. Append(Contents, m) \in Seq(S) /\ Len(Append(Contents, m)) = size + 1
  BY <1>6, AppendProperties
<1>9. \A k \in 1 .. size + 1 : Contents'[k] = Append(Contents, m)[k]
  <2> SUFFICES ASSUME NEW k \in 1 .. size + 1
               PROVE  Contents'[k] = Append(Contents, m)[k]
    OBVIOUS
  <2>1. Contents'[k] = IF k = size + 1 THEN m ELSE Contents[k]
    BY <1>5
  <2>2. /\ \A i \in 1 .. Len(Contents) : Append(Contents, m)[i] = Contents[i]
        /\ Append(Contents, m)[Len(Contents) + 1] = m
    BY <1>6, AppendProperties
  <2> QED
    BY <1>6, <2>1, <2>2
<1> HIDE DEF S
<1> QED
  BY <1>7, <1>8, <1>9, SeqEqual

LEMMA RemoveTakesFirst ==
  ASSUME TypeOK, size # 0, QueueRemove
  PROVE  Contents # <<>> /\ Contents' = Tail(Contents) /\ got' = Head(Contents)
<1>1. size \in 1 .. Capacity /\ size' = size - 1 /\ next' = Place(1) /\ data' = data
  BY ChanAssumption DEF TypeOK, QueueRemove
<1>2. \A k \in 1 .. size - 1 : Place(k - 1)' = Place(k)
  BY <1>1, ChanAssumption DEF TypeOK, Place
<1>3. Place(0) = next
  BY ChanAssumption DEF TypeOK, Place
<1>4. Contents # <<>> /\ got' = Head(Contents)
  BY <1>1, <1>3, ContentsSeq DEF QueueRemove
<1>5. Contents' = [k \in 1 .. size - 1 |-> Contents[k + 1]]
  <2>1. Contents' = [k \in 1 .. size - 1 |-> data[Place(k - 1)']]
    BY <1>1 DEF Contents
  <2>2. \A k \in 1 .. size - 1 : data[Place(k - 1)'] = Contents[k + 1]
    BY <1>1, <1>2, ContentsSeq
  <2> QED
    BY <2>1, <2>2
<1> DEFINE S == Msgs \cup {"none"}
<1>6. Contents \in Seq(S) /\ Len(Contents) = size /\ size \in Nat \ {0}
  BY <1>1, ContentsSeq
<1>7. Contents' \in Seq(S) /\ Len(Contents') = size - 1
  <2>1. \A k \in 1 .. size - 1 : Contents[k + 1] \in S
    BY <1>6
  <2> QED
    BY <1>5, <1>6, <2>1
<1>8. /\ Tail(Contents) \in Seq(S) /\ Len(Tail(Contents)) = size - 1
      /\ \A k \in 1 .. size - 1 : Tail(Contents)[k] = Contents[k + 1]
  BY <1>4, <1>6, HeadTailProperties
<1>9. \A k \in 1 .. size - 1 : Contents'[k] = Tail(Contents)[k]
  BY <1>5, <1>8
<1> HIDE DEF S
<1>10. Contents' = Tail(Contents)
  BY <1>7, <1>8, <1>9, SeqEqual
<1> QED
  BY <1>4, <1>10

LEMMA QuietContents ==
  ASSUME Quiet
  PROVE  Contents' = Contents /\ put' = "none" /\ got' = "none"
  BY DEF Quiet, queue, Contents, Place

LEMMA FifoStep ==
  ASSUME TypeOK, [Next]_vars
  PROVE  [Queue!Next]_<<Contents, closed, put, got>>
<1>1. ASSUME Quiet, closed => closed'
      PROVE  Queue!Next
  BY <1>1, QuietContents DEF Queue!Next, Queue!Other
<1>2. ASSUME NEW t \in Threads, Send(t)
      PROVE  Queue!Next
  <2>1. ASSUME ~closed, size # Capacity, NEW m \in Msgs, QueueAdd(m), UNCHANGED closed
        PROVE  Queue!Next
    <3>1. Contents' = Append(Contents, m) /\ Len(Contents) < Capacity
      BY <2>1, AddAppends, ContentsSeq, ChanAssumption DEF TypeOK
    <3> QED
      BY <2>1, <3>1 DEF Queue!Next, Queue!Put, QueueAdd
  <2> QED
    BY <1>1, <1>2, <2>1 DEF Send, Refused, Sleep
<1>3. ASSUME NEW t \in Threads, Recv(t)
      PROVE  Queue!Next
  <2>1. ASSUME size # 0, QueueRemove, UNCHANGED closed
        PROVE  Queue!Next
    BY <2>1, RemoveTakesFirst DEF Queue!Next, Queue!Get, QueueRemove
  <2> QED
    BY <1>1, <1>3, <2>1 DEF Recv, Refused, Sleep
<1>4. ASSUME NEW t \in Threads, Select(t) \/ Call(t) \/ LooksClosed(t) \/ SpuriousWake(t)
      PROVE  Queue!Next
  BY <1>1, <1>4 DEF Select, Call, LooksClosed, Refused, SpuriousWake
<1>5. CASE Close
  BY <1>1, <1>5 DEF Close
<1>6. CASE UNCHANGED vars
  BY <1>6 DEF vars, queue, Contents, Place
<1> QED
  BY <1>2, <1>3, <1>4, <1>5, <1>6 DEF Next, Continue

\* However many threads use it, for any capacity, the channel is a bounded FIFO
\* queue that takes nothing after its end and gives out what it has.
THEOREM ChanIsFifo == Spec => ImplementsFifo
<1>1. Init => Queue!Init
  BY DEF Init, Queue!Init, Contents
<1> QED
  BY <1>1, FifoStep, ChanTypes, PTL DEF Spec, ImplementsFifo, Queue!Spec

-----------------------------------------------------------------------------
(* The log.  The signal of an entry and the signal of a place may each go to *)
(* anyone; what an entry more or less does to those that sleep is shown      *)
(* once, and the files need only that no file is closed while the log runs.  *)

Usable(f) == f \in open \cup {"none"}

\* Until the clean-up all that anyone has in hand can still be written to; after
\* it the worker is gone and the queue is empty.
FilesHeld ==
    /\ running => initialized
    /\ initialized =>
         /\ Usable(file) /\ Usable(deferred)
         /\ \A i \in DOMAIN entries : Usable(entries[i])
         /\ \A t \in LogThreads : Usable(entry[t])
    /\ place[Worker] = "exited" => ~running /\ entries = <<>> /\ entry[Worker] = "none"
    /\ ~initialized => place[Worker] = "exited"
    /\ place[Worker] # "printing" => entry[Worker] = "none"

LogInv == LogTypeOK /\ NobodyOversleeps /\ ShutdownWakesAll /\ FilesHeld

-----------------------------------------------------------------------------
(* Who sleeps                                                              *)

LEMMA SleepersFinite ==
  ASSUME LogTypeOK
  PROVE  /\ IsFiniteSet(Sleepers(Loggers))
         /\ Cardinality(Sleepers(Loggers)) \in Nat
         /\ Cardinality(Sleepers(Loggers)) <= Cardinality(Loggers)
         /\ Cardinality(Sleepers(Loggers)) = 0 <=> Sleepers(Loggers) = {}
<1>1. Sleepers(Loggers) \subseteq Loggers
  BY DEF Sleepers
<1>2. IsFiniteSet(Loggers)
  BY LogAssumption
<1>3. IsFiniteSet(Sleepers(Loggers)) /\ Cardinality(Sleepers(Loggers)) <= Cardinality(Loggers)
  BY <1>1, <1>2, FS_Subset
<1> QED
  BY <1>3, FS_CardinalityType, FS_EmptySet

LEMMA FewerSleep ==
  ASSUME LogTypeOK, Sleepers(Loggers)' \subseteq Sleepers(Loggers)
  PROVE  /\ Cardinality(Sleepers(Loggers)') \in Nat
         /\ Cardinality(Sleepers(Loggers)') <= Cardinality(Sleepers(Loggers))
  BY SleepersFinite, FS_Subset, FS_CardinalityType

LEMMA OneWakes ==
  ASSUME LogTypeOK, NEW u \in Sleepers(Loggers), Sleepers(Loggers)' = Sleepers(Loggers) \ {u}
  PROVE  Cardinality(Sleepers(Loggers)') = Cardinality(Sleepers(Loggers)) - 1
  BY SleepersFinite, FS_RemoveElement

\* A signal wakes one of those that sleep, if any does; the others stay.
LEMMA SignalWakesOne ==
  ASSUME LogTypeOK, NEW t \in LogThreads, NEW p \in LogPlaces \ {"asleep"},
         place[t] # "asleep", SignalAny(t, p)
  PROVE  /\ place' \in [LogThreads -> LogPlaces]
         /\ place'[t] = p
         /\ \A v \in LogThreads : v # t => place'[v] = place[v] \/ (place[v] = "asleep" /\ place'[v] = "woken")
         /\ \/ Sleepers(LogThreads) = {} /\ Sleepers(LogThreads)' = {}
            \/ \E u \in Sleepers(LogThreads) :
                  Sleepers(LogThreads)' = Sleepers(LogThreads) \ {u}
<1>1. CASE Sleepers(LogThreads) = {} /\ place' = [place EXCEPT ![t] = p]
  <2>1. place' \in [LogThreads -> LogPlaces] /\ place'[t] = p
    BY <1>1 DEF LogTypeOK
  <2>2. \A v \in LogThreads : v # t => place'[v] = place[v]
    BY <1>1 DEF LogTypeOK
  <2>3. \A v \in LogThreads : place'[v] # "asleep"
    BY <1>1, <2>1, <2>2 DEF Sleepers
  <2>4. Sleepers(LogThreads)' = {}
    BY <2>3 DEF Sleepers, LogThreads
  <2> QED
    BY <1>1, <2>1, <2>2, <2>4
<1>2. ASSUME NEW u \in Sleepers(LogThreads), place' = [place EXCEPT ![t] = p, ![u] = "woken"]
      PROVE  /\ place' \in [LogThreads -> LogPlaces]
             /\ place'[t] = p
             /\ \A v \in LogThreads : v # t => place'[v] = place[v] \/ (place[v] = "asleep" /\ place'[v] = "woken")
             /\ Sleepers(LogThreads)' = Sleepers(LogThreads) \ {u}
  <2>1. u \in LogThreads /\ u # t /\ place[u] = "asleep"
    BY <1>2 DEF Sleepers
  <2>2. place' \in [LogThreads -> LogPlaces] /\ place'[t] = p /\ place'[u] = "woken"
    BY <1>2, <2>1 DEF LogTypeOK, LogPlaces
  <2>3. \A v \in LogThreads : v # t /\ v # u => place'[v] = place[v]
    BY <1>2, <2>1 DEF LogTypeOK
  <2>4. \A v \in LogThreads : place'[v] = "asleep" <=> place[v] = "asleep" /\ v # u
    BY <2>1, <2>2, <2>3
  <2>5. Sleepers(LogThreads)' = Sleepers(LogThreads) \ {u}
    BY <2>4 DEF Sleepers, LogThreads
  <2> QED
    BY <2>1, <2>2, <2>3, <2>5
<1> QED
  BY <1>1, <1>2 DEF SignalAny

\* Of the loggers alone: one of them wakes, unless the worker sleeps, or nobody.
LEMMA SleepingLoggers ==
  /\ Sleepers(Loggers) = Sleepers(LogThreads) \ {Worker}
  /\ Sleepers(Loggers)' = Sleepers(LogThreads)' \ {Worker}
  /\ (Worker \in Sleepers(LogThreads) <=> place[Worker] = "asleep")
  /\ (Worker \in Sleepers(LogThreads)' <=> place'[Worker] = "asleep")
  BY LogAssumption DEF Sleepers, LogThreads

-----------------------------------------------------------------------------
(* One lemma for each kind of step                                         *)

\* An entry more: who waits for entries does not go on sleeping.
LEMMA EnqueueKeeps ==
  ASSUME LogInv, NEW t \in Loggers, NEW e \in LogFiles \cup {"none"},
         place[t] \in {"idle", "woken"}, running, Usable(e), Enqueue(t, e),
         UNCHANGED <<initialized, running, file, deferred, open>>
  PROVE  LogInv'
<1>0. t \in LogThreads /\ t # Worker /\ Len(entries) \in Nat /\ place \in [LogThreads -> LogPlaces]
  BY LogAssumption DEF LogThreads, LogInv, LogTypeOK
<1>1. ASSUME LogFull, WaitOnLog(t), entry' = [entry EXCEPT ![t] = e], UNCHANGED entries
      PROVE  LogInv'
  <2>1. place' \in [LogThreads -> LogPlaces] /\ place'[Worker] = place[Worker]
    BY <1>0, <1>1 DEF WaitOnLog, LogPlaces
  <2>2. LogTypeOK'
    BY <1>0, <1>1, <2>1 DEF LogInv, LogTypeOK
  <2>3. Cardinality(Sleepers(Loggers)') <= Cardinality(Loggers) /\ Cardinality(Sleepers(Loggers)') \in Nat
    <3>1. Sleepers(Loggers)' \subseteq Loggers
      BY DEF Sleepers
    <3> QED
      BY <3>1, LogAssumption, FS_Subset, FS_CardinalityType
  <2>4. Cardinality(Loggers) \in Nat /\ Cardinality(Loggers) <= LogCapacity
    BY LogAssumption, FS_CardinalityType
  <2>5. NobodyOversleeps'
    BY <1>0, <1>1, <2>1, <2>3, <2>4, LogAssumption DEF LogFull, LogInv, NobodyOversleeps
  <2>6. FilesHeld'
    BY <1>1, <1>0, <2>1 DEF LogInv, LogTypeOK, FilesHeld, Usable
  <2> QED
    BY <2>2, <2>5, <2>6 DEF LogInv, ShutdownWakesAll
<1>2. ASSUME ~LogFull, entries' = Append(entries, e), SignalAny(t, "idle"),
             entry' = [entry EXCEPT ![t] = "none"]
      PROVE  LogInv'
  <2>1. /\ place' \in [LogThreads -> LogPlaces]
        /\ place'[Worker] = place[Worker] \/ (place[Worker] = "asleep" /\ place'[Worker] = "woken")
        /\ \/ Sleepers(LogThreads) = {} /\ Sleepers(LogThreads)' = {}
           \/ \E u \in Sleepers(LogThreads) : Sleepers(LogThreads)' = Sleepers(LogThreads) \ {u}
    BY <1>0, <1>2, SignalWakesOne DEF LogInv, LogPlaces, LogThreads
  <2>2. Len(entries') = Len(entries) + 1
    BY <1>2 DEF LogInv, LogTypeOK
  <2>3. LogTypeOK'
    <3>1. Len(entries') <= LogCapacity
      BY <1>0, <1>2, <2>2, LogAssumption DEF LogFull
    <3>2. entries' \in Seq(LogFiles \cup {"none"})
      BY <1>2 DEF LogInv, LogTypeOK
    <3>3. entry' \in [LogThreads -> LogFiles \cup {"none"}]
      BY <1>2 DEF LogInv, LogTypeOK
    <3> QED
      BY <2>1, <3>1, <3>2, <3>3 DEF LogInv, LogTypeOK
  <2>4. Cardinality(Sleepers(Loggers)') \in Nat
        /\ Cardinality(Sleepers(Loggers)') <= Cardinality(Sleepers(Loggers))
    BY <2>1, SleepingLoggers, FewerSleep DEF LogInv
  <2>5. place'[Worker] # "asleep"
    <3>1. CASE place[Worker] # "asleep"
      BY <2>1, <3>1
    <3>2. CASE place[Worker] = "asleep"
      <4>1. entries = <<>> /\ Cardinality(Sleepers(Loggers)) <= 0
        BY <3>2 DEF LogInv, NobodyOversleeps
      <4>2. Sleepers(Loggers) = {}
        BY <4>1, SleepersFinite DEF LogInv
      <4> QED
        BY <2>1, <3>2, <4>2, SleepingLoggers
    <3> QED
      BY <3>1, <3>2
  <2>6. NobodyOversleeps'
    <3>1. Cardinality(Sleepers(Loggers)) <= Len(entries) /\ Cardinality(Sleepers(Loggers)) \in Nat
      BY SleepersFinite DEF LogInv, NobodyOversleeps
    <3> QED
      BY <1>0, <2>2, <2>4, <2>5, <3>1 DEF NobodyOversleeps
  <2>7. \A i \in DOMAIN entries' : Usable(entries'[i])
    BY <1>2 DEF LogInv, LogTypeOK, FilesHeld, Usable
  <2>8. place[Worker] # "exited"
    BY DEF LogInv, FilesHeld
  <2>9. \A v \in LogThreads : entry'[v] = "none" \/ entry'[v] = entry[v]
    BY <1>0, <1>2 DEF LogInv, LogTypeOK
  <2>10. FilesHeld'
    <3>1. place'[Worker] # "exited" /\ (place'[Worker] # "printing" => entry'[Worker] = "none")
      BY <1>0, <2>1, <2>8, <2>9 DEF LogInv, FilesHeld, LogThreads
    <3> QED
      BY <2>7, <2>9, <3>1 DEF LogInv, FilesHeld, Usable
  <2> QED
    BY <2>3, <2>6, <2>10 DEF LogInv, ShutdownWakesAll
<1> QED
  BY <1>1, <1>2 DEF Enqueue

\* An entry less: one of those that wait for room does not go on sleeping.
LEMMA TakeKeeps ==
  ASSUME LogInv, WorkerTakes
  PROVE  LogInv'
<1>0. /\ Worker \in LogThreads /\ place \in [LogThreads -> LogPlaces] /\ entries \in Seq(LogFiles \cup {"none"})
      /\ place[Worker] \in {"locking", "woken"} /\ ~Stops
      /\ UNCHANGED <<initialized, running, file, deferred, open>>
  BY DEF LogThreads, LogInv, LogTypeOK, WorkerTakes, AtLock
<1>1. ASSUME entries = <<>>, WaitOnLog(Worker), UNCHANGED <<entries, entry>>
      PROVE  LogInv'
  <2>1. running
    BY <1>0, <1>1 DEF Stops
  <2>2. place' \in [LogThreads -> LogPlaces] /\ place'[Worker] = "asleep"
    BY <1>0, <1>1 DEF WaitOnLog, LogPlaces
  <2>3. Sleepers(Loggers)' = Sleepers(Loggers)
    BY <1>0, <1>1, LogAssumption DEF WaitOnLog, Sleepers, LogThreads
  <2>4. NobodyOversleeps'
    BY <1>1, <2>3 DEF LogInv, NobodyOversleeps
  <2> QED
    BY <1>0, <1>1, <2>1, <2>2, <2>4 DEF LogInv, LogTypeOK, ShutdownWakesAll, FilesHeld, Usable
<1>2. ASSUME entries # <<>>, entry' = [entry EXCEPT ![Worker] = Head(entries)],
             entries' = Tail(entries), WakeLogger(Worker, "printing")
      PROVE  LogInv'
  <2>1. /\ place' \in [LogThreads -> LogPlaces]
        /\ place'[Worker] = "printing"
        /\ \/ Sleepers(LogThreads) = {} /\ Sleepers(LogThreads)' = {}
           \/ \E u \in Sleepers(LogThreads) : Sleepers(LogThreads)' = Sleepers(LogThreads) \ {u}
    BY <1>0, <1>2, SignalWakesOne DEF LogInv, LogPlaces, WakeLogger
  <2>2. /\ Head(entries) \in LogFiles \cup {"none"} /\ Head(entries) = entries[1] /\ 1 \in DOMAIN entries
        /\ Tail(entries) \in Seq(LogFiles \cup {"none"}) /\ Len(entries) \in Nat
        /\ Len(Tail(entries)) = Len(entries) - 1
        /\ \A i \in DOMAIN Tail(entries) : i + 1 \in DOMAIN entries /\ Tail(entries)[i] = entries[i + 1]
    BY <1>0, <1>2
  <2>3. LogTypeOK'
    <3>1. Len(entries') <= LogCapacity
      BY <1>2, <2>2, LogAssumption DEF LogInv, LogTypeOK
    <3>2. entry' \in [LogThreads -> LogFiles \cup {"none"}]
      BY <1>2, <2>2 DEF LogInv, LogTypeOK
    <3> QED
      BY <1>0, <1>2, <2>1, <2>2, <3>1, <3>2 DEF LogInv, LogTypeOK
  <2>4. Cardinality(Sleepers(Loggers)') <= Len(entries')
    <3>1. Cardinality(Sleepers(Loggers)) <= Len(entries)
      BY DEF LogInv, NobodyOversleeps
    <3>2. CASE Sleepers(LogThreads) = {} /\ Sleepers(LogThreads)' = {}
      <4>1. Sleepers(Loggers)' = {}
        BY <3>2, SleepingLoggers
      <4> QED
        BY <1>2, <2>2, <4>1, FS_EmptySet
    <3>3. ASSUME NEW u \in Sleepers(LogThreads), Sleepers(LogThreads)' = Sleepers(LogThreads) \ {u}
          PROVE  Cardinality(Sleepers(Loggers)') <= Len(entries')
      <4>1. u # Worker
        BY <1>0, <3>3 DEF Sleepers
      <4>2. u \in Sleepers(Loggers) /\ Sleepers(Loggers)' = Sleepers(Loggers) \ {u}
        BY <3>3, <4>1, SleepingLoggers
      <4>3. Cardinality(Sleepers(Loggers)') = Cardinality(Sleepers(Loggers)) - 1
        BY <4>2, OneWakes DEF LogInv
      <4> QED
        BY <1>2, <2>2, <3>1, <4>3, SleepersFinite DEF LogInv
    <3> QED
      BY <2>1, <3>2, <3>3
  <2>5. ShutdownWakesAll'
    BY <1>0, <2>1 DEF LogInv, ShutdownWakesAll
  <2>6. initialized
    BY <1>0 DEF LogInv, FilesHeld
  <2>7. \A v \in LogThreads : entry'[v] = entries[1] \/ entry'[v] = entry[v]
    BY <1>0, <1>2, <2>2 DEF LogInv, LogTypeOK
  <2>8. (\A i \in DOMAIN entries' : Usable(entries'[i])) /\ (\A v \in LogThreads : Usable(entry'[v]))
    BY <1>2, <2>2, <2>6, <2>7 DEF LogInv, FilesHeld
  <2>9. FilesHeld'
    BY <1>0, <2>1, <2>6, <2>8 DEF LogInv, FilesHeld, Usable
  <2> QED
    BY <2>1, <2>3, <2>4, <2>5, <2>9 DEF LogInv, NobodyOversleeps
<1> QED
  BY <1>1, <1>2 DEF WorkerTakes

\* Who is moved to a place awake is one sleeper less, if he was one.
LEMMA MoveKeeps ==
  ASSUME LogInv, NEW t \in LogThreads, NEW p \in LogPlaces \ {"asleep", "exited", "printing"},
         place[t] # "exited", place' = [place EXCEPT ![t] = p], UNCHANGED entries,
         \/ entry' = entry /\ place[t] # "printing"
         \/ entry' = [entry EXCEPT ![t] = "none"],
         UNCHANGED <<initialized, running, file, deferred, open>>
  PROVE  LogInv'
<1>1. /\ place' \in [LogThreads -> LogPlaces] /\ place'[t] = p
      /\ \A v \in LogThreads : v # t => place'[v] = place[v]
  BY DEF LogInv, LogTypeOK
<1>2. entry' \in [LogThreads -> LogFiles \cup {"none"}]
      /\ \A v \in LogThreads : entry'[v] = entry[v] \/ entry'[v] = "none"
  BY DEF LogInv, LogTypeOK
<1>3. Sleepers(Loggers)' \subseteq Sleepers(Loggers) /\ Sleepers(LogThreads)' \subseteq Sleepers(LogThreads)
  BY <1>1 DEF Sleepers, LogThreads
<1>4. Cardinality(Sleepers(Loggers)') \in Nat
      /\ Cardinality(Sleepers(Loggers)') <= Cardinality(Sleepers(Loggers))
  BY <1>3, FewerSleep DEF LogInv
<1>5. LogTypeOK'
  BY <1>1, <1>2 DEF LogInv, LogTypeOK
<1>6. Worker \in LogThreads
  BY DEF LogThreads
<1>7. NobodyOversleeps'
  <2>1. Cardinality(Sleepers(Loggers)) <= Len(entries) /\ Cardinality(Sleepers(Loggers)) \in Nat
        /\ Len(entries) \in Nat
    BY SleepersFinite DEF LogInv, NobodyOversleeps, LogTypeOK
  <2>2. Cardinality(Sleepers(Loggers)') <= Len(entries')
    BY <1>4, <2>1
  <2> QED
    BY <1>1, <1>6, <2>2 DEF LogInv, NobodyOversleeps
<1>8. ShutdownWakesAll'
  BY <1>3 DEF LogInv, ShutdownWakesAll
<1>9. FilesHeld'
  <2>1. entry'[Worker] = "none" \/ (place[Worker] = "printing" /\ t # Worker)
    <3>1. CASE entry' = entry /\ place[t] # "printing"
      BY <3>1 DEF LogInv, FilesHeld
    <3>2. CASE entry' = [entry EXCEPT ![t] = "none"]
      <4>1. CASE t = Worker
        BY <1>6, <3>2, <4>1 DEF LogInv, LogTypeOK
      <4>2. CASE t # Worker
        BY <1>6, <3>2, <4>2 DEF LogInv, LogTypeOK, FilesHeld
      <4> QED
        BY <4>1, <4>2
    <3> QED
      BY <3>1, <3>2
  <2> QED
    BY <1>1, <1>2, <1>6, <2>1 DEF LogInv, FilesHeld, Usable
<1> QED
  BY <1>5, <1>7, <1>8, <1>9 DEF LogInv

LEMMA LogStart == LogInit => LogInv
<1> SUFFICES ASSUME LogInit
             PROVE  LogInv
  OBVIOUS
<1>1. Worker \in LogThreads /\ place[Worker] = "locking"
  BY DEF LogInit, LogThreads
<1>2. Sleepers(LogThreads) = {} /\ Sleepers(Loggers) = {}
  BY DEF LogInit, Sleepers, LogThreads
<1>3. LogTypeOK
  BY LogAssumption DEF LogInit, LogTypeOK, LogPlaces
<1>4. NobodyOversleeps
  BY <1>1, <1>2, FS_EmptySet DEF LogInit, NobodyOversleeps
<1>5. FilesHeld
  BY <1>1 DEF LogInit, FilesHeld, Usable
<1> QED
  BY <1>2, <1>3, <1>4, <1>5 DEF LogInv, ShutdownWakesAll

LEMMA LogStep ==
  ASSUME LogInv, [LogNext]_logVars
  PROVE  LogInv'
<1>0. Worker \in LogThreads /\ Loggers \subseteq LogThreads /\ Worker \notin Loggers
  BY LogAssumption DEF LogThreads
<1>1. CASE LogShutdown
  <2>1. /\ place' \in [LogThreads -> LogPlaces]
        /\ \A v \in LogThreads : place'[v] # "asleep"
        /\ (place'[Worker] = "exited" <=> place[Worker] = "exited")
    BY <1>0, <1>1 DEF LogInv, LogTypeOK, LogShutdown, WakeEverybody, LogPlaces
  <2>2. Sleepers(Loggers)' = {} /\ Sleepers(LogThreads)' = {}
    BY <1>0, <2>1 DEF Sleepers
  <2>3. NobodyOversleeps'
    BY <1>0, <1>1, <2>1, <2>2, FS_EmptySet DEF LogInv, LogTypeOK, NobodyOversleeps, LogShutdown
  <2>4. place'[Worker] = "printing" <=> place[Worker] = "printing"
    BY <1>0, <1>1 DEF LogInv, LogTypeOK, LogShutdown, WakeEverybody
  <2>5. LogTypeOK'
    BY <1>1, <2>1 DEF LogInv, LogTypeOK, LogShutdown
  <2>6. FilesHeld'
    BY <1>1, <2>1, <2>4 DEF LogInv, FilesHeld, Usable, LogShutdown
  <2> QED
    BY <2>2, <2>3, <2>5, <2>6 DEF LogInv, ShutdownWakesAll
<1>2. CASE LogCleanUp
  <2>1. entries = <<>>
    BY <1>2 DEF LogInv, FilesHeld, LogCleanUp
  <2>2. Sleepers(Loggers)' = Sleepers(Loggers) /\ Sleepers(LogThreads)' = Sleepers(LogThreads)
    BY <1>2 DEF Sleepers, LogCleanUp
  <2>3. NobodyOversleeps'
    BY <1>2, <2>1, <2>2 DEF LogInv, NobodyOversleeps, LogCleanUp
  <2> QED
    BY <1>2, <2>1, <2>2, <2>3 DEF LogInv, LogTypeOK, ShutdownWakesAll, FilesHeld, LogCleanUp
<1>3. CASE SetFile \/ CloseFile
  <2>1. /\ UNCHANGED <<entries, initialized, running, place, entry>>
        /\ deferred' = Retired /\ open \subseteq open' /\ open' \subseteq LogFiles
        /\ file' \in open' \cup {"none"}
    BY <1>3 DEF LogInv, LogTypeOK, SetFile, CloseFile, StillOpen
  <2>2. Sleepers(Loggers)' = Sleepers(Loggers) /\ Sleepers(LogThreads)' = Sleepers(LogThreads)
    BY <2>1 DEF Sleepers
  <2>3. LogTypeOK'
    BY <2>1 DEF LogInv, LogTypeOK, Retired
  <2>4. FilesHeld'
    BY <2>1 DEF LogInv, FilesHeld, Usable, Retired
  <2> QED
    BY <2>1, <2>2, <2>3, <2>4 DEF LogInv, NobodyOversleeps, ShutdownWakesAll
<1>4. CASE WorkerTakes
  BY <1>4, TakeKeeps
<1>5. CASE WorkerPrints
  BY <1>0, <1>5, MoveKeeps DEF WorkerPrints, LogPlaces
<1>6. CASE WorkerExits
  <2>1. place' \in [LogThreads -> LogPlaces] /\ place'[Worker] = "exited"
        /\ entries = <<>> /\ ~running
        /\ UNCHANGED <<entries, initialized, running, entry, file, deferred, open>>
    BY <1>0, <1>6 DEF LogInv, LogTypeOK, LogPlaces, WorkerExits, Stops
  <2>2. entry[Worker] = "none"
    BY <1>6 DEF LogInv, FilesHeld, WorkerExits, AtLock
  <2>3. Sleepers(Loggers)' = Sleepers(Loggers) /\ Sleepers(LogThreads)' \subseteq Sleepers(LogThreads)
    BY <1>0, <1>6, <2>1 DEF LogInv, LogTypeOK, Sleepers, LogThreads, WorkerExits
  <2>4. LogTypeOK'
    BY <2>1 DEF LogInv, LogTypeOK
  <2>5. NobodyOversleeps'
    BY <2>1, <2>3 DEF LogInv, NobodyOversleeps
  <2>6. ShutdownWakesAll'
    BY <2>1, <2>3 DEF LogInv, ShutdownWakesAll
  <2>7. FilesHeld'
    BY <2>1, <2>2 DEF LogInv, FilesHeld, Usable
  <2> QED
    BY <2>4, <2>5, <2>6, <2>7 DEF LogInv
<1>7. ASSUME NEW t \in Loggers, Logf(t)
      PROVE  LogInv'
  <2>1. PICK e \in {"none", file} : Enqueue(t, e)
    BY <1>7 DEF Logf
  <2>2. e \in LogFiles \cup {"none"} /\ Usable(e)
    BY <1>7 DEF Logf, LogInv, LogTypeOK, FilesHeld, Usable
  <2> QED
    BY <1>7, <2>1, <2>2, EnqueueKeeps DEF Logf
<1>8. ASSUME NEW t \in Loggers, LogfWoken(t)
      PROVE  LogInv'
  <2>1. CASE running
    <3>1. entry[t] \in LogFiles \cup {"none"} /\ Usable(entry[t])
      BY <1>0, <2>1 DEF LogInv, LogTypeOK, FilesHeld
    <3> QED
      BY <1>8, <2>1, <3>1, EnqueueKeeps DEF LogfWoken
  <2>2. CASE ~running
    BY <1>0, <1>8, <2>2, MoveKeeps DEF LogfWoken, LogPlaces
  <2> QED
    BY <2>1, <2>2
<1>9. ASSUME NEW t \in LogThreads, LogSpurious(t)
      PROVE  LogInv'
  BY <1>9, MoveKeeps DEF LogSpurious, LogPlaces
<1>10. CASE UNCHANGED logVars
  <2>1. Sleepers(Loggers)' = Sleepers(Loggers) /\ Sleepers(LogThreads)' = Sleepers(LogThreads)
    BY <1>10 DEF Sleepers, logVars
  <2> QED
    BY <1>10, <2>1 DEF LogInv, LogTypeOK, NobodyOversleeps, ShutdownWakesAll, FilesHeld, Usable, logVars
<1> QED
  BY <1>1, <1>2, <1>3, <1>4, <1>5, <1>6, <1>7, <1>8, <1>9, <1>10 DEF LogNext

-----------------------------------------------------------------------------
(* The theorems                                                            *)

LEMMA LogInvariant == LogSpec => []LogInv
<1>1. LogInit => LogInv
  BY LogStart
<1>2. LogInv /\ [LogNext]_logVars => LogInv'
  BY LogStep
<1> QED
  BY <1>1, <1>2, PTL DEF LogSpec

\* Types, and a queue that is never over its capacity: what finds it full waits.
THEOREM LogTypes == LogSpec => []LogTypeOK
<1>1. LogInv => LogTypeOK
  BY DEF LogInv
<1> QED
  BY <1>1, LogInvariant, PTL

\* Nobody oversleeps in the log of hermes_log.c, however many threads log, as long
\* as the queue has a place for each of them.
THEOREM LogAwake == LogSpec => []NobodyOversleeps
<1>1. LogInv => NobodyOversleeps
  BY DEF LogInv
<1> QED
  BY <1>1, LogInvariant, PTL

\* The shutdown of the log leaves nobody asleep and lets nobody fall asleep.
THEOREM LogStopsAwake == LogSpec => []ShutdownWakesAll
<1>1. LogInv => ShutdownWakesAll
  BY DEF LogInv
<1> QED
  BY <1>1, LogInvariant, PTL

\* No entry is printed into a file that was closed, however often files change.
THEOREM FilesOutliveEntries == LogSpec => []EntryHasItsFile
<1>1. LogInv => EntryHasItsFile
  BY DEF LogInv, FilesHeld, EntryHasItsFile, Usable, LogThreads
<1> QED
  BY <1>1, LogInvariant, PTL

\* The queue of the log is empty when it is freed.
THEOREM ShutdownKeepsEntries == LogSpec => ShutdownPrintsAll
<1>1. LogInv /\ [LogNext]_logVars => [initialized /\ ~initialized' => entries = <<>>]_logVars
  <2> SUFFICES ASSUME LogInv, LogNext, initialized, ~initialized'
               PROVE  entries = <<>>
    OBVIOUS
  <2>1. LogCleanUp
    BY DEF LogNext, LogShutdown, SetFile, CloseFile, WorkerTakes, WorkerPrints, WorkerExits,
           Logf, LogfWoken, LogSpurious
  <2> QED
    BY <2>1 DEF LogInv, FilesHeld, LogCleanUp
<1> QED
  BY <1>1, LogInvariant, PTL DEF LogSpec, ShutdownPrintsAll

-----------------------------------------------------------------------------
(* arq_conn.  First its types: then what CONNECTED names, from the invariant *)
(* that ties the names to the CONNECT on its way; last `listen', from the    *)
(* invariant that the last one of the waiting events says what it says.      *)

\* Who calls or is called is somebody; a session has a number only then.
Named(e) ==
    /\ e.id \in {"APP_CONNECT", "RX_CALL"} => e.from \in Peers
    /\ e.id = "RX_DATA" => e.session_id # 0

CallsNamed ==
    /\ Named(asking) /\ \A i \in DOMAIN inbox : Named(inbox[i])
    /\ sess.session_id # 0 => sess.remote_call \in Peers

TypeInv == ConnTypeOK /\ CallsNamed

LEMMA Appended ==
  ASSUME NEW S, NEW q \in Seq(S), NEW e \in S
  PROVE  /\ Append(q, e) \in Seq(S) /\ Len(q) \in Nat
         /\ DOMAIN q = 1 .. Len(q) /\ DOMAIN Append(q, e) = 1 .. Len(q) + 1
         /\ \A i \in DOMAIN q : Append(q, e)[i] = q[i]
         /\ Append(q, e)[Len(q) + 1] = e
  OBVIOUS

LEMMA Shifted ==
  ASSUME NEW S, NEW q \in Seq(S), q # <<>>
  PROVE  /\ Tail(q) \in Seq(S) /\ Len(q) \in Nat \ {0}
         /\ DOMAIN q = 1 .. Len(q) /\ DOMAIN Tail(q) = 1 .. Len(q) - 1
         /\ \A i \in DOMAIN Tail(q) : i + 1 \in DOMAIN q /\ Tail(q)[i] = q[i + 1]
         /\ Head(q) = q[1] /\ Head(q) \in S /\ 1 \in DOMAIN q
  OBVIOUS

LEMMA LastOfTyped ==
  ASSUME NEW S, NEW q \in Seq(S), NEW e, Append(q, e) \in Seq(S)
  PROVE  e \in S
  OBVIOUS

LEMMA PostedIsNamed ==
  ASSUME TypeInv, NEW e \in Events, Named(e), inbox' = Append(inbox, e)
  PROVE  inbox' \in Seq(Events) /\ \A i \in DOMAIN inbox' : Named(inbox'[i])
<1>1. inbox \in Seq(Events) /\ \A i \in DOMAIN inbox : Named(inbox[i])
  BY DEF TypeInv, ConnTypeOK, CallsNamed
<1> QED
  BY <1>1, Appended

LEMMA TypeStart == ConnInit => TypeInv
<1> SUFFICES ASSUME ConnInit
             PROVE  TypeInv
  OBVIOUS
<1>1. ConnTypeOK
  <2>1. arq_conn \in Conns
    BY DEF ConnInit, Conns
  <2>2. sess \in Sessions
    <3>1. 0 \in 0 .. TheirCall
      BY CallsignAssumption DEF TheirCall
    <3> QED
      BY <3>1 DEF ConnInit, Sessions, ConnStates
  <2>3. calls \in 0 .. MaxCalls
    BY CallsignAssumption DEF ConnInit
  <2>4. inbox \in Seq(Events) /\ asking \in Events \cup {NoEvent}
    BY DEF ConnInit
  <2>5. posting \in BOOLEAN /\ hasty \in BOOLEAN /\ crossed \in BOOLEAN
    BY DEF ConnInit
  <2>6. sess.conn_state = "DISCONNECTED"
    BY DEF ConnInit
  <2> QED
    BY <2>1, <2>2, <2>3, <2>4, <2>5, <2>6 DEF ConnTypeOK
<1>2. CallsNamed
  BY DEF ConnInit, CallsNamed, NoEvent, Event, Named
<1> QED
  BY <1>1, <1>2 DEF TypeInv

LEMMA EndTypes ==
  ASSUME TypeInv, NEW pending \in BOOLEAN, EndCall(pending), crossed' \in BOOLEAN,
         inbox' \in Seq(Events), \A i \in DOMAIN inbox' : Named(inbox'[i]), UNCHANGED <<asking, calls>>
  PROVE  TypeInv'
<1>1. sess' \in [conn_state : {"LISTENING", "DISCONNECTED"}, session_id : 0 .. TheirCall,
                 remote_call : Peers \cup {Nobody}, role : {"NONE", "CALLER", "CALLEE"},
                 listen_enabled : BOOLEAN, pending_disconnect_notify : BOOLEAN]
      /\ sess'.session_id = sess.session_id /\ sess'.remote_call = sess.remote_call
  <2>1. PICK c \in {"LISTENING", "DISCONNECTED"} :
           sess' = [sess EXCEPT !.conn_state = c, !.pending_disconnect_notify = pending]
    BY DEF EndCall
  <2> QED
    BY <2>1 DEF TypeInv, ConnTypeOK, Sessions
<1>2. arq_conn' \in [src_addr : Peers \cup {Me, Nobody}, dst_addr : Peers \cup {Me, Nobody}, listen : BOOLEAN]
  BY DEF EndCall, ClearNames, TypeInv, ConnTypeOK, Conns
<1>3. hasty' \in BOOLEAN
  BY DEF EndCall, ConnectWaits
<1>4. posting' \in BOOLEAN
  BY DEF EndCall, PostsListen, TypeInv, ConnTypeOK, Conns
<1>5. sess'.conn_state \in ConnStates /\ sess'.conn_state \in {"DISCONNECTED", "LISTENING"}
  BY <1>1 DEF ConnStates
<1>6. ConnTypeOK'
  BY <1>1, <1>2, <1>3, <1>4, <1>5 DEF TypeInv, ConnTypeOK, Sessions, Conns
<1>7. CallsNamed'
  BY <1>1 DEF TypeInv, CallsNamed
<1> QED
  BY <1>6, <1>7 DEF TypeInv

LEMMA AttemptTypes ==
  ASSUME TypeInv, NEW e \in Events, e.from \in Peers, NEW state \in ConnStates, Attempt(state, e)
  PROVE  sess' \in Sessions /\ sess'.remote_call \in Peers
  BY DEF Attempt, TypeInv, ConnTypeOK, Sessions, Events

\* A handler has an event of the queue.
LEMMA HandlerTypes ==
  ASSUME TypeInv, NEW e \in Events, Named(e), ~posting, inbox' \in Seq(Events),
         \A i \in DOMAIN inbox' : Named(inbox'[i]), UNCHANGED <<asking, calls>>,
         \/ OnConnect(e) \/ OnDisconnect(e) \/ OnListen(e) \/ OnStopListen(e)
         \/ OnCall(e) \/ OnAccept(e) \/ OnData(e) \/ OnRxDisconnect(e) \/ Drop(e)
  PROVE  TypeInv'
<1>0. hasty \in BOOLEAN /\ crossed \in BOOLEAN /\ posting \in BOOLEAN /\ arq_conn.listen \in BOOLEAN /\ ConnectWaits(inbox') \in BOOLEAN
  BY DEF TypeInv, ConnTypeOK, ConnectWaits, Conns
<1> USE <1>0, CallsignAssumption DEF TypeInv, ConnTypeOK, CallsNamed, ConnStates, TheirCall, InConnState, Events, EventIds, Sessions, Conns
<1>1. CASE OnConnect(e)
  <2>1. sess' \in Sessions /\ sess'.remote_call \in Peers
    BY <1>1, AttemptTypes DEF OnConnect, Named
  <2> QED
    BY <1>1, <2>1 DEF OnConnect
<1>2. CASE OnDisconnect(e)
  <2>1. CASE EndsCall
    BY <1>2, <2>1, EndTypes DEF OnDisconnect, EndsCall
  <2>2. CASE UNCHANGED <<arq_conn, posting, hasty>> /\ InConnState({"CONNECTED"})
             /\ sess' \in {sess, [sess EXCEPT !.conn_state = "DISCONNECTING"]}
    <3>1. CASE sess' = sess
      BY <1>2, <2>2, <3>1 DEF OnDisconnect
    <3>2. CASE sess' = [sess EXCEPT !.conn_state = "DISCONNECTING"]
      BY <1>2, <2>2, <3>2 DEF OnDisconnect
    <3> QED
      BY <2>2, <3>1, <3>2
  <2> QED
    BY <1>2, <2>1, <2>2 DEF OnDisconnect
<1>3. CASE OnListen(e)
  <2>1. sess'.conn_state \in ConnStates
        /\ (sess'.conn_state # sess.conn_state => sess'.conn_state = "LISTENING")
    BY <1>3 DEF OnListen
  <2>2. sess' = [sess EXCEPT !.conn_state = sess'.conn_state, !.listen_enabled = TRUE]
    BY <1>3 DEF OnListen
  <2>3. sess' \in Sessions /\ sess'.session_id = sess.session_id /\ sess'.remote_call = sess.remote_call
    BY <2>1, <2>2
  <2> QED
    BY <1>3, <2>1, <2>3 DEF OnListen
<1>4. CASE OnStopListen(e)
  <2>1. PICK c \in ConnStates : /\ sess' = [sess EXCEPT !.listen_enabled = FALSE, !.conn_state = c]
                                /\ c # sess.conn_state => c = "DISCONNECTED"
    BY <1>4 DEF OnStopListen, StopsListening
  <2>2. crossed' \in BOOLEAN
    BY <1>4 DEF OnStopListen
  <2>3. sess' \in Sessions /\ sess'.session_id = sess.session_id /\ sess'.remote_call = sess.remote_call
        /\ (sess'.conn_state # sess.conn_state => sess'.conn_state = "DISCONNECTED")
    BY <2>1
  <2> QED
    BY <1>4, <2>2, <2>3 DEF OnStopListen
<1>5. CASE OnCall(e)
  <2>1. sess' \in Sessions /\ sess'.remote_call \in Peers
    BY <1>5, AttemptTypes DEF OnCall, Named
  <2> QED
    BY <1>5, <2>1 DEF OnCall
<1>6. CASE OnAccept(e)
  BY <1>6 DEF OnAccept, Connect, NotifyConnected
<1>7. CASE OnData(e)
  BY <1>7 DEF OnData, Connect, NotifyConnected, Mine, Named
<1>8. CASE OnRxDisconnect(e)
  <2>1. CASE EndsCall
    BY <1>8, <2>1, EndTypes DEF OnRxDisconnect, EndsCall
  <2>2. CASE UNCHANGED <<arq_conn, posting, hasty>>
             /\ sess' = [sess EXCEPT !.conn_state = "DISCONNECTED", !.pending_disconnect_notify = TRUE]
    <3>1. sess' \in Sessions /\ sess'.conn_state = "DISCONNECTED"
          /\ sess'.session_id = sess.session_id /\ sess'.remote_call = sess.remote_call
      BY <2>2
    <3> QED
      BY <1>8, <2>2, <3>1 DEF OnRxDisconnect
  <2> QED
    BY <1>8, <2>1, <2>2 DEF OnRxDisconnect
<1>9. CASE Drop(e)
  BY <1>9 DEF Drop
<1> QED
  BY <1>1, <1>2, <1>3, <1>4, <1>5, <1>6, <1>7, <1>8, <1>9

LEMMA TypeStep ==
  ASSUME TypeInv, [ConnNext]_connVars
  PROVE  TypeInv'
<1>0. /\ hasty \in BOOLEAN /\ crossed \in BOOLEAN /\ posting \in BOOLEAN /\ arq_conn.listen \in BOOLEAN
      /\ ConnectWaits(inbox') \in BOOLEAN /\ AtRest \in BOOLEAN /\ Resting \in BOOLEAN
      /\ inbox \in Seq(Events)
  BY DEF TypeInv, ConnTypeOK, ConnectWaits, AtRest, Resting, Conns
<1> USE <1>0
<1>1. CASE ConnectCommand
  <2>1. PICK p \in Peers : /\ arq_conn' = [arq_conn EXCEPT !.src_addr = Me, !.dst_addr = p]
                           /\ Ask(Event("APP_CONNECT", calls', p))
    BY <1>1 DEF ConnectCommand
  <2>2. asking' \in Events /\ Named(asking')
    BY <1>1, <2>1, CallsignAssumption DEF ConnectCommand, Ask, Event, Events, EventIds, Named, TypeInv, ConnTypeOK, TheirCall
  <2> QED
    <3>1. hasty' \in BOOLEAN
      BY <1>1 DEF ConnectCommand
    <3>2. arq_conn' \in Conns /\ calls' \in 0 .. MaxCalls
      <4>1. calls \in Nat /\ calls < MaxCalls /\ calls' = calls + 1
        BY <1>1, CallsignAssumption DEF ConnectCommand, TypeInv, ConnTypeOK
      <4>2. arq_conn' \in Conns
        BY <2>1 DEF TypeInv, ConnTypeOK, Conns
      <4> QED
        BY <4>1, <4>2, CallsignAssumption
    <3> QED
      BY <1>1, <2>2, <3>1, <3>2 DEF ConnectCommand, TypeInv, ConnTypeOK, CallsNamed
<1>2. CASE DisconnectCommand \/ ListenOn \/ ListenOff
  <2>1. asking' \in Events /\ Named(asking')
    BY <1>2, CallsignAssumption DEF DisconnectCommand, ListenOn, ListenOff, Ask, Event, Events, EventIds, Named, TheirCall
  <2>2. arq_conn' \in Conns /\ crossed' \in BOOLEAN
    BY <1>2 DEF DisconnectCommand, ListenOn, ListenOff, TypeInv, ConnTypeOK, Conns
  <2> QED
    BY <1>2, <2>1, <2>2 DEF DisconnectCommand, ListenOn, ListenOff, TypeInv, ConnTypeOK, CallsNamed
<1>3. CASE PostCommand
  <2>1. asking \in Events /\ Named(asking)
    BY <1>3 DEF PostCommand, TypeInv, ConnTypeOK, CallsNamed
  <2>2. inbox' \in Seq(Events) /\ \A i \in DOMAIN inbox' : Named(inbox'[i])
    BY <1>3, <2>1, PostedIsNamed DEF PostCommand, Post
  <2>3. Named(NoEvent)
    BY DEF Named, NoEvent, Event
  <2> QED
    BY <1>3, <2>2, <2>3 DEF PostCommand, TypeInv, ConnTypeOK, CallsNamed
<1>4. CASE HearFrame
  <2>1. PICK e \in Events : Named(e) /\ Post(e)
    <3>1. CASE \E p \in Peers : Post(Event("RX_CALL", TheirCall, p))
      BY <3>1, CallsignAssumption DEF Event, Events, EventIds, Named, TheirCall
    <3>2. ASSUME NEW id \in {"RX_ACCEPT", "RX_DATA", "RX_DISCONNECT"},
                 NEW n \in {TheirCall, sess.session_id} \ {0}, Post(Event(id, n, Nobody))
          PROVE  \E e \in Events : Named(e) /\ Post(e)
      <4>1. n \in 0 .. TheirCall
        BY CallsignAssumption DEF TypeInv, ConnTypeOK, Sessions, TheirCall
      <4>2. Event(id, n, Nobody) \in Events /\ Named(Event(id, n, Nobody))
        BY <4>1 DEF Event, Events, EventIds, Named
      <4> QED
        BY <3>2, <4>2
    <3> QED
      BY <1>4, <3>1, <3>2 DEF HearFrame
  <2>2. inbox' \in Seq(Events) /\ \A i \in DOMAIN inbox' : Named(inbox'[i])
    BY <2>1, PostedIsNamed DEF Post
  <2> QED
    BY <1>4, <2>2 DEF HearFrame, TypeInv, ConnTypeOK, CallsNamed
<1>5. CASE PostListen
  <2>1. Event("APP_LISTEN", 0, Nobody) \in Events /\ Named(Event("APP_LISTEN", 0, Nobody))
    BY CallsignAssumption DEF Event, Events, EventIds, Named, TheirCall
  <2>2. inbox' \in Seq(Events) /\ \A i \in DOMAIN inbox' : Named(inbox'[i])
    BY <1>5, <2>1, PostedIsNamed DEF PostListen
  <2> QED
    BY <1>5, <2>2 DEF PostListen, TypeInv, ConnTypeOK, CallsNamed
<1>6. CASE Dispatch
  <2>1. PICK e \in Events :
          /\ Named(e)
          /\ \/ OnConnect(e) \/ OnDisconnect(e) \/ OnListen(e) \/ OnStopListen(e)
             \/ OnCall(e) \/ OnAccept(e) \/ OnData(e) \/ OnRxDisconnect(e) \/ Drop(e)
    BY <1>6, Shifted DEF Dispatch, TypeInv, CallsNamed
  <2>2. inbox' \in Seq(Events) /\ \A i \in DOMAIN inbox' : Named(inbox'[i])
    BY <1>6, Shifted DEF Dispatch, TypeInv, CallsNamed
  <2> QED
    BY <1>6, <2>1, <2>2, HandlerTypes DEF Dispatch
<1>7. CASE GiveUp \/ LeaveSession \/ AnswerSent
  <2>1. CASE EndCall(sess.pending_disconnect_notify) \/ EndCall(FALSE)
    <3>1. sess.pending_disconnect_notify \in BOOLEAN /\ crossed \in BOOLEAN /\ inbox \in Seq(Events)
          /\ \A i \in DOMAIN inbox : Named(inbox[i])
      BY DEF TypeInv, ConnTypeOK, CallsNamed, Sessions
    <3>2. UNCHANGED <<inbox, asking, calls, crossed>>
      BY <1>7 DEF GiveUp, LeaveSession, AnswerSent
    <3> QED
      BY <2>1, <3>1, <3>2, EndTypes
  <2>2. ASSUME NEW c \in {"LISTENING", "DISCONNECTING"}, sess' = [sess EXCEPT !.conn_state = c],
               InConnState({"ACCEPTING", "CONNECTED"}),
               UNCHANGED <<asking, arq_conn, inbox, posting, calls, hasty, crossed>>
        PROVE  TypeInv'
    BY <2>2 DEF TypeInv, ConnTypeOK, CallsNamed, ConnStates, InConnState, Sessions
  <2> QED
    BY <1>7, <2>1, <2>2 DEF GiveUp, LeaveSession, AnswerSent, EndsCall, InConnState
<1>8. CASE UNCHANGED connVars
  BY <1>8 DEF connVars, TypeInv, ConnTypeOK, CallsNamed
<1> QED
  BY <1>1, <1>2, <1>3, <1>4, <1>5, <1>6, <1>7, <1>8 DEF ConnNext

-----------------------------------------------------------------------------
(* Whom CONNECTED names                                                    *)

\* A CONNECT in the queue, of a host that is not hasty, is the next event of a
\* station that does nothing else.
ConnectIsNext ==
    \A i \in DOMAIN inbox : IsConnect(inbox[i]) =>
        /\ i = 1 /\ InConnState({"DISCONNECTED", "LISTENING"})
        /\ ~sess.pending_disconnect_notify /\ ~posting /\ ~IsConnect(asking)
        /\ arq_conn.src_addr = Me /\ arq_conn.dst_addr = inbox[1].from

\* The names are there from the CONNECT on, and not before.
NamesFit ==
    /\ IsConnect(asking) => arq_conn.src_addr = Me /\ arq_conn.dst_addr = asking.from
    /\ InConnState({"CALLING"}) =>
         /\ ~IsConnect(asking)
         /\ arq_conn.src_addr = Me /\ arq_conn.dst_addr = sess.remote_call
    /\ ~ConnectWaits(inbox) /\ ~sess.pending_disconnect_notify
       /\ InConnState({"DISCONNECTED", "LISTENING", "ACCEPTING"}) => arq_conn.src_addr = Nobody

NamesInv == TypeInv /\ (~hasty => ConnectIsNext /\ NamesFit) /\ SourceIsCaller

LEMMA NamesStart == ConnInit => NamesInv
<1> SUFFICES ASSUME ConnInit
             PROVE  NamesInv
  OBVIOUS
<1>1. ConnectIsNext /\ NamesFit /\ SourceIsCaller
  BY DEF ConnInit, ConnectIsNext, NamesFit, SourceIsCaller, InConnState, IsConnect, NoEvent, Event
<1> QED
  BY <1>1, TypeStart DEF NamesInv

\* After the end of a call there are no names, or a CONNECT on its way is hasty.
LEMMA EndNames ==
  ASSUME TypeInv, TypeInv', NEW pending \in BOOLEAN, EndCall(pending), UNCHANGED asking
  PROVE  NamesInv'
<1>1. sess'.conn_state \in {"DISCONNECTED", "LISTENING"} /\ arq_conn'.src_addr = Nobody
  BY DEF EndCall, ClearNames, TypeInv, ConnTypeOK, Sessions, Conns
<1>2. hasty' <=> ConnectWaits(inbox)'
  BY DEF EndCall, ConnectWaits
<1>3. ~hasty' => (ConnectIsNext /\ NamesFit)'
  BY <1>1, <1>2 DEF ConnectWaits, ConnectIsNext, NamesFit, InConnState
<1>4. SourceIsCaller'
  BY <1>1 DEF SourceIsCaller, InConnState
<1> QED
  BY <1>3, <1>4 DEF NamesInv

\* One event less: if it was not a CONNECT, what waits is the same.
LEMMA TakenNames ==
  ASSUME NamesInv, ~hasty, inbox # <<>>, inbox' = Tail(inbox), UNCHANGED asking
  PROVE  /\ \A i \in DOMAIN inbox' : ~IsConnect(inbox'[i])
         /\ ~IsConnect(Head(inbox)) => \A i \in DOMAIN inbox : ~IsConnect(inbox[i])
<1>1. inbox \in Seq(Events)
  BY DEF NamesInv, TypeInv, ConnTypeOK
<1>2. \A i \in DOMAIN inbox : IsConnect(inbox[i]) => i = 1
  BY DEF NamesInv, ConnectIsNext
<1>3. \A i \in DOMAIN inbox' : i \in Nat \ {0} /\ i + 1 \in DOMAIN inbox /\ inbox'[i] = inbox[i + 1]
  BY <1>1, Shifted
<1>4. \A i \in DOMAIN inbox' : ~IsConnect(inbox'[i])
  BY <1>2, <1>3
<1>5. Head(inbox) = inbox[1]
  BY <1>1, Shifted
<1> QED
  BY <1>2, <1>4, <1>5

LEMMA HandlerNames ==
  ASSUME NamesInv, TypeInv', ~posting, inbox # <<>>, inbox' = Tail(inbox), UNCHANGED <<asking, calls>>,
         NEW e \in Events, e = Head(inbox),
         \/ OnConnect(e) \/ OnDisconnect(e) \/ OnListen(e) \/ OnStopListen(e)
         \/ OnCall(e) \/ OnAccept(e) \/ OnData(e) \/ OnRxDisconnect(e) \/ Drop(e)
  PROVE  NamesInv'
<1>0. e = inbox[1] /\ 1 \in DOMAIN inbox /\ sess \in Sessions /\ arq_conn \in Conns
  BY Shifted DEF NamesInv, TypeInv, ConnTypeOK
<1>a. sess.pending_disconnect_notify \in BOOLEAN
  BY DEF NamesInv, TypeInv, ConnTypeOK, Sessions
<1>b. ~hasty => /\ \A i \in DOMAIN inbox' : ~IsConnect(inbox'[i])
                /\ ~IsConnect(e) => \A i \in DOMAIN inbox : ~IsConnect(inbox[i])
  BY TakenNames
<1>1. CASE OnConnect(e)
  <2>1. UNCHANGED <<arq_conn, hasty>> /\ sess'.conn_state = "CALLING" /\ sess'.remote_call = e.from
    BY <1>0, <1>1 DEF OnConnect, Attempt, Sessions
  <2>2. ~hasty => /\ ~IsConnect(asking)
                  /\ arq_conn.src_addr = Me /\ arq_conn.dst_addr = e.from
    BY <1>0, <1>1 DEF OnConnect, NamesInv, ConnectIsNext, IsConnect
  <2> QED
    BY <1>b, <2>1, <2>2 DEF NamesInv, ConnectIsNext, NamesFit, SourceIsCaller, InConnState
<1>2. ASSUME EndsCall
      PROVE  NamesInv'
  BY <1>2, <1>a, EndNames DEF EndsCall, NamesInv
\* The other handlers leave no CONNECT in the queue, and no call of its own begins.
<1>3. ASSUME ~IsConnect(e), UNCHANGED <<arq_conn, hasty>>,
             sess'.conn_state \in {"DISCONNECTING"} \/
             (sess'.conn_state = "CONNECTED" /\ sess' = sess /\ reported' = reported) \/
             (sess'.conn_state = "CALLING" /\ sess.conn_state = "CALLING" /\ sess'.remote_call = sess.remote_call) \/
             (sess'.conn_state \in {"DISCONNECTED", "LISTENING", "ACCEPTING"} /\
               (sess'.pending_disconnect_notify \/
                (InConnState({"DISCONNECTED", "LISTENING", "ACCEPTING"})
                 /\ sess'.pending_disconnect_notify = sess.pending_disconnect_notify)))
      PROVE  NamesInv'
  <2>1. ~hasty' => ConnectIsNext'
    BY <1>b, <1>3 DEF ConnectIsNext
  <2>2. ~hasty' => ConnectWaits(inbox)' = ConnectWaits(inbox)
    BY <1>b, <1>3 DEF ConnectWaits
  <2>3. ~hasty' => NamesFit'
    BY <1>3, <2>2 DEF NamesInv, NamesFit, InConnState
  <2>4. SourceIsCaller'
    BY <1>3 DEF NamesInv, SourceIsCaller, InConnState
  <2> QED
    BY <2>1, <2>3, <2>4 DEF NamesInv
<1>4. CASE OnDisconnect(e) /\ ~EndsCall
  BY <1>0, <1>4, <1>3 DEF OnDisconnect, Sessions, IsConnect, InConnState
<1>5. CASE OnListen(e) \/ OnStopListen(e)
  <2>1. PICK c \in ConnStates, l \in BOOLEAN :
           /\ sess' = [sess EXCEPT !.listen_enabled = l, !.conn_state = c]
           /\ c # sess.conn_state => {c, sess.conn_state} \subseteq {"DISCONNECTED", "LISTENING"}
    <3>1. CASE OnListen(e)
      <4>1. PICK c \in ConnStates :
               /\ sess' = [sess EXCEPT !.listen_enabled = TRUE, !.conn_state = c]
               /\ c # sess.conn_state => {c, sess.conn_state} \subseteq {"DISCONNECTED", "LISTENING"}
        BY <1>0, <3>1 DEF OnListen, Sessions, ConnStates
      <4> QED
        BY <4>1
    <3>2. CASE OnStopListen(e)
      <4>1. PICK c \in ConnStates :
               /\ sess' = [sess EXCEPT !.listen_enabled = FALSE, !.conn_state = c]
               /\ c # sess.conn_state => {c, sess.conn_state} \subseteq {"DISCONNECTED", "LISTENING"}
        BY <1>0, <3>2 DEF OnStopListen, StopsListening, Sessions, ConnStates
      <4> QED
        BY <4>1
    <3> QED
      BY <1>5, <3>1, <3>2
  <2>2. UNCHANGED <<arq_conn, hasty, reported>> /\ ~IsConnect(e)
    BY <1>5 DEF OnListen, OnStopListen, IsConnect
  <2>3. sess'.conn_state \in ConnStates /\ sess'.pending_disconnect_notify = sess.pending_disconnect_notify
        /\ sess'.remote_call = sess.remote_call /\ sess'.role = sess.role
        /\ (sess'.conn_state # sess.conn_state =>
               {sess'.conn_state, sess.conn_state} \subseteq {"DISCONNECTED", "LISTENING"})
    BY <1>0, <2>1 DEF Sessions
  <2>4. ~hasty' => ConnectIsNext'
    BY <1>b, <2>2 DEF ConnectIsNext
  <2>5. ~hasty' => ConnectWaits(inbox)' = ConnectWaits(inbox)
    BY <1>b, <2>2 DEF ConnectWaits
  <2>6. ~hasty' => NamesFit'
    BY <2>2, <2>3, <2>5 DEF NamesInv, NamesFit, InConnState, ConnStates
  <2>7. SourceIsCaller'
    BY <2>2, <2>3 DEF NamesInv, SourceIsCaller, InConnState
  <2> QED
    BY <2>4, <2>6, <2>7 DEF NamesInv
<1>6. CASE OnCall(e)
  BY <1>0, <1>6, <1>3 DEF OnCall, Attempt, Sessions, IsConnect, InConnState
<1>7. CASE OnAccept(e) \/ OnData(e)
  <2>1. sess.remote_call \in Peers /\ sess'.conn_state = "CONNECTED" /\ UNCHANGED hasty
        /\ sess'.remote_call = sess.remote_call /\ ~IsConnect(e)
        /\ sess'.pending_disconnect_notify = sess.pending_disconnect_notify
    BY <1>0, <1>7 DEF OnAccept, OnData, Connect, Sessions, IsConnect, InConnState, TypeInv, ConnTypeOK
  <2>2. ~hasty' => ConnectIsNext'
    BY <1>b, <2>1 DEF ConnectIsNext
  <2>3. ~hasty' => NamesFit'
    BY <1>0, <1>7, <2>1, CallsignAssumption DEF NamesInv, NamesFit, InConnState, OnAccept, OnData, Connect, NotifyConnected
  <2>4. SourceIsCaller'
    <3> SUFFICES ASSUME ~hasty, ~IsConnect(asking), ~sess.pending_disconnect_notify
                 PROVE  reported' = IF sess'.role = "CALLER" THEN <<Me, sess'.remote_call>>
                                                              ELSE <<sess'.remote_call, Me>>
      BY <2>1 DEF SourceIsCaller
    <3>1. CASE OnAccept(e)
      <4>1. arq_conn' = arq_conn /\ arq_conn.src_addr = Me /\ arq_conn.dst_addr = sess.remote_call
        BY <3>1, CallsignAssumption DEF OnAccept, Connect, NotifyConnected, NamesInv, NamesFit
      <4>2. reported' = <<Me, sess.remote_call>> /\ sess'.role = "CALLER"
        BY <1>0, <2>1, <3>1, <4>1, CallsignAssumption DEF OnAccept, Connect, NotifyConnected, Line, Sessions
      <4> QED
        BY <2>1, <4>2
    <3>2. CASE OnData(e)
      <4>1. ~ConnectWaits(inbox)
        BY <1>b, <2>1 DEF ConnectWaits
      <4>2. arq_conn.src_addr = Nobody
        BY <3>2, <4>1 DEF OnData, NamesInv, NamesFit, InConnState
      <4>3. arq_conn'.src_addr = sess.remote_call /\ arq_conn'.dst_addr = Me
        BY <1>0, <3>2, <4>2 DEF OnData, Connect, NotifyConnected, Conns
      <4>4. reported' = <<sess.remote_call, Me>> /\ sess'.role = "CALLEE"
        BY <1>0, <2>1, <3>2, <4>3, CallsignAssumption DEF OnData, Connect, NotifyConnected, Line, Sessions
      <4> QED
        BY <2>1, <4>4
    <3> QED
      BY <1>7, <3>1, <3>2
  <2> QED
    BY <2>2, <2>3, <2>4 DEF NamesInv
<1>8. CASE OnRxDisconnect(e) /\ ~EndsCall
  BY <1>0, <1>8, <1>3 DEF OnRxDisconnect, Sessions, IsConnect, InConnState
<1>9. CASE Drop(e)
  <2>1. sess' = sess /\ UNCHANGED <<arq_conn, hasty, reported>>
    BY <1>9 DEF Drop
  <2>2. ~hasty => ~IsConnect(e)
    BY <1>0, <1>9 DEF Drop, HasHandler, NamesInv, ConnectIsNext, InConnState
  <2>3. ~hasty' => ConnectIsNext'
    BY <1>b, <2>1 DEF ConnectIsNext
  <2>4. ~hasty' => ConnectWaits(inbox)' = ConnectWaits(inbox)
    BY <1>b, <2>1, <2>2 DEF ConnectWaits
  <2>5. ~hasty' => NamesFit'
    BY <2>1, <2>4 DEF NamesInv, NamesFit, InConnState
  <2> QED
    BY <2>1, <2>3, <2>5 DEF NamesInv, SourceIsCaller, InConnState
<1> QED
  BY <1>1, <1>2, <1>4, <1>5, <1>6, <1>7, <1>8, <1>9 DEF OnDisconnect, OnRxDisconnect

LEMMA NamesStep ==
  ASSUME NamesInv, [ConnNext]_connVars
  PROVE  NamesInv'
<1>t. TypeInv'
  BY TypeStep DEF NamesInv
<1>0. inbox \in Seq(Events) /\ sess \in Sessions /\ arq_conn \in Conns
      /\ sess.pending_disconnect_notify \in BOOLEAN
  BY DEF NamesInv, TypeInv, ConnTypeOK, Sessions
<1>1. CASE ConnectCommand
  <2>1. PICK p \in Peers : /\ arq_conn' = [arq_conn EXCEPT !.src_addr = Me, !.dst_addr = p]
                           /\ Ask(Event("APP_CONNECT", calls', p))
    BY <1>1 DEF ConnectCommand
  <2>2. arq_conn'.src_addr = Me /\ arq_conn'.dst_addr = p /\ IsConnect(asking') /\ asking'.from = p
    BY <1>0, <2>1 DEF Ask, Event, IsConnect, Conns
  <2>3. ~hasty' => ~hasty /\ inbox = <<>> /\ ~InConnState({"CALLING"})
    BY <1>1 DEF ConnectCommand, AtRest, Resting, InConnState
  <2>4. UNCHANGED <<sess, inbox, reported>>
    BY <1>1 DEF ConnectCommand
  <2>5. ~hasty' => (ConnectIsNext /\ NamesFit)'
    BY <2>2, <2>3, <2>4 DEF ConnectIsNext, NamesFit, ConnectWaits, InConnState
  <2> QED
    BY <1>t, <2>2, <2>5 DEF NamesInv, SourceIsCaller
<1>2. CASE DisconnectCommand \/ ListenOn \/ ListenOff
  <2>1. /\ UNCHANGED <<sess, inbox, posting, reported, hasty>>
        /\ ~IsConnect(asking) /\ ~IsConnect(asking')
        /\ arq_conn'.src_addr = arq_conn.src_addr /\ arq_conn'.dst_addr = arq_conn.dst_addr
    BY <1>0, <1>2 DEF DisconnectCommand, ListenOn, ListenOff, Ask, IsConnect, NoEvent, Event, Conns
  <2>2. ~hasty' => (ConnectIsNext /\ NamesFit)'
    BY <2>1 DEF NamesInv, ConnectIsNext, NamesFit, ConnectWaits, InConnState
  <2> QED
    BY <1>t, <2>1, <2>2 DEF NamesInv, SourceIsCaller, InConnState
<1>3. CASE PostCommand
  <2>1. /\ UNCHANGED <<arq_conn, sess, posting, reported>> /\ asking' = NoEvent /\ ~IsConnect(asking')
        /\ inbox' = Append(inbox, asking) /\ asking \in Events
    BY <1>3 DEF PostCommand, Post, IsConnect, NoEvent, Event, NamesInv, TypeInv, ConnTypeOK
  <2>2. ~hasty' => ~hasty /\ (IsConnect(asking) => Resting)
    BY <1>3 DEF PostCommand
  <2>3. \A i \in DOMAIN inbox' : (i \in DOMAIN inbox /\ inbox'[i] = inbox[i]) \/ (i = Len(inbox) + 1 /\ inbox'[i] = asking)
    BY <1>0, <2>1, Appended
  <2>4. (\A i \in DOMAIN inbox : i \in DOMAIN inbox' /\ inbox'[i] = inbox[i])
        /\ Len(inbox) + 1 \in DOMAIN inbox' /\ inbox'[Len(inbox) + 1] = asking
    BY <1>0, <2>1, Appended
  <2>5. CASE ~hasty' /\ IsConnect(asking)
    <3>1. inbox = <<>> /\ Len(inbox) + 1 = 1 /\ InConnState({"DISCONNECTED", "LISTENING"})
          /\ ~sess.pending_disconnect_notify /\ ~posting
      BY <2>2, <2>5 DEF Resting
    <3>2. ConnectIsNext'
      BY <2>1, <2>2, <2>3, <2>4, <2>5, <3>1 DEF ConnectIsNext, NamesInv, NamesFit, InConnState
    <3>3. ConnectWaits(inbox)'
      BY <2>4, <2>5 DEF ConnectWaits
    <3> QED
      BY <1>t, <2>1, <2>2, <2>5, <3>1, <3>2, <3>3 DEF NamesInv, NamesFit, SourceIsCaller, InConnState
  <2>6. CASE ~hasty' /\ ~IsConnect(asking)
    <3>1. ConnectIsNext'
      <4> SUFFICES ASSUME NEW i \in DOMAIN inbox', IsConnect(inbox'[i])
                   PROVE  /\ i = 1 /\ InConnState({"DISCONNECTED", "LISTENING"})
                          /\ ~sess.pending_disconnect_notify /\ ~posting
                          /\ arq_conn.src_addr = Me /\ arq_conn.dst_addr = inbox'[1].from
        BY <2>1 DEF ConnectIsNext, InConnState
      <4>1. i \in DOMAIN inbox /\ inbox'[i] = inbox[i]
        BY <2>3, <2>6
      <4> QED
        BY <2>2, <2>4, <2>6, <4>1 DEF NamesInv, ConnectIsNext
    <3>2. ConnectWaits(inbox)' <=> ConnectWaits(inbox)
      BY <2>1, <2>3, <2>4, <2>6 DEF ConnectWaits
    <3> QED
      BY <1>t, <2>1, <2>2, <2>6, <3>1, <3>2 DEF NamesInv, NamesFit, SourceIsCaller, InConnState
  <2> QED
    BY <1>t, <2>5, <2>6 DEF NamesInv, SourceIsCaller
<1>4. CASE HearFrame \/ PostListen
  <2>1. PICK e : ~IsConnect(e) /\ inbox' = Append(inbox, e) /\ e \in Events
    <3>1. CASE HearFrame
      <4>1. PICK e : ~IsConnect(e) /\ inbox' = Append(inbox, e)
        BY <3>1 DEF HearFrame, Post, Event, IsConnect
      <4> QED
        BY <1>0, <1>t, <3>1, <4>1, LastOfTyped DEF TypeInv, ConnTypeOK
    <3>2. CASE PostListen
      BY <3>2, CallsignAssumption DEF PostListen, Event, IsConnect, Events, EventIds, TheirCall
    <3> QED
      BY <1>4, <3>1, <3>2
  <2>2. UNCHANGED <<asking, arq_conn, sess, reported, hasty>> /\ (posting' => posting)
    BY <1>4 DEF HearFrame, PostListen
  <2>3. \A i \in DOMAIN inbox' : (i \in DOMAIN inbox /\ inbox'[i] = inbox[i]) \/ (inbox'[i] = e)
    BY <1>0, <2>1, Appended
  <2>4. \A i \in DOMAIN inbox : i \in DOMAIN inbox' /\ inbox'[i] = inbox[i]
    BY <1>0, <2>1, Appended
  <2>5. ~hasty' => ConnectIsNext'
    BY <2>1, <2>2, <2>3, <2>4 DEF NamesInv, ConnectIsNext, InConnState
  <2>6. ConnectWaits(inbox)' <=> ConnectWaits(inbox)
    BY <2>1, <2>2, <2>3, <2>4 DEF ConnectWaits
  <2> QED
    BY <1>t, <2>2, <2>5, <2>6 DEF NamesInv, NamesFit, SourceIsCaller, InConnState
<1>5. CASE Dispatch
  BY <1>0, <1>t, <1>5, Shifted, HandlerNames DEF Dispatch
<1>6. CASE GiveUp \/ LeaveSession \/ AnswerSent
  <2>1. UNCHANGED <<asking, inbox>>
    BY <1>6 DEF GiveUp, LeaveSession, AnswerSent
  <2>2. CASE EndCall(sess.pending_disconnect_notify) \/ EndCall(FALSE)
    BY <1>0, <1>t, <2>1, <2>2, EndNames DEF NamesInv
  <2>3. ASSUME NEW c \in {"LISTENING", "DISCONNECTING"}, sess' = [sess EXCEPT !.conn_state = c],
               \/ c = "LISTENING" /\ InConnState({"ACCEPTING"})
               \/ c = "DISCONNECTING" /\ InConnState({"CONNECTED"}),
               UNCHANGED <<asking, arq_conn, inbox, posting, calls, hasty, crossed, reported>>
        PROVE  NamesInv'
    <3>1. sess'.conn_state = c /\ sess'.pending_disconnect_notify = sess.pending_disconnect_notify
      BY <1>0, <2>3 DEF Sessions
    <3>2. ~hasty' => (ConnectIsNext /\ NamesFit)'
      BY <2>3, <3>1 DEF NamesInv, ConnectIsNext, NamesFit, ConnectWaits, InConnState
    <3> QED
      BY <1>t, <2>3, <3>1, <3>2 DEF NamesInv, SourceIsCaller, InConnState
  <2> QED
    BY <1>6, <2>2, <2>3 DEF GiveUp, LeaveSession, AnswerSent, EndsCall, InConnState
<1>7. CASE UNCHANGED connVars
  BY <1>t, <1>7 DEF connVars, NamesInv, ConnectIsNext, NamesFit, ConnectWaits, SourceIsCaller, InConnState
<1> QED
  BY <1>1, <1>2, <1>3, <1>4, <1>5, <1>6, <1>7 DEF ConnNext

-----------------------------------------------------------------------------
(* Whether the station listens                                             *)

IsListen(e) == e.id \in {"APP_LISTEN", "APP_STOP_LISTEN"}

\* The last one of them in the queue says what the host wants.
LastSaid ==
    \A i \in DOMAIN inbox :
        IsListen(inbox[i]) /\ (\A j \in DOMAIN inbox : j > i => ~IsListen(inbox[j])) =>
            (inbox[i].id = "APP_LISTEN" <=> arq_conn.listen)

Untold == IsListen(asking) \/ \E i \in DOMAIN inbox : IsListen(inbox[i])

ListenFits ==
    /\ sess.listen_enabled <=> arq_conn.listen
    /\ InConnState({"LISTENING", "ACCEPTING"}) => sess.listen_enabled
    /\ InConnState({"DISCONNECTED"}) /\ ~sess.pending_disconnect_notify => ~sess.listen_enabled

ListenSaid ==
    /\ posting => arq_conn.listen
    /\ IsListen(asking) => (asking.id = "APP_LISTEN" <=> arq_conn.listen)
    /\ ~IsListen(asking) => LastSaid
    /\ ~Untold => ListenFits

ListenInv == TypeInv /\ (~crossed => ListenSaid)

LEMMA ListenStart == ConnInit => ListenInv
<1> SUFFICES ASSUME ConnInit
             PROVE  ListenInv
  OBVIOUS
<1>1. ListenSaid
  BY DEF ConnInit, ListenSaid, LastSaid, ListenFits, InConnState, IsListen, NoEvent, Event
<1> QED
  BY <1>1, TypeStart DEF ListenInv

\* An event more that says nothing of it
LEMMA OtherPosted ==
  ASSUME TypeInv, NEW e \in Events, ~IsListen(e), inbox' = Append(inbox, e), UNCHANGED arq_conn, LastSaid
  PROVE  LastSaid'
<1>0. inbox \in Seq(Events)
  BY DEF TypeInv, ConnTypeOK
<1>1. \A i \in DOMAIN inbox' : (i \in DOMAIN inbox /\ inbox'[i] = inbox[i]) \/ inbox'[i] = e
  BY <1>0, Appended
<1>2. \A i \in DOMAIN inbox : i \in DOMAIN inbox' /\ inbox'[i] = inbox[i]
  BY <1>0, Appended
<1> QED
  BY <1>1, <1>2 DEF LastSaid

\* An event more that says what the host wants
LEMMA ListenPosted ==
  ASSUME TypeInv, NEW e \in Events, IsListen(e), inbox' = Append(inbox, e),
         e.id = "APP_LISTEN" <=> arq_conn'.listen
  PROVE  LastSaid' /\ Untold'
<1>0. inbox \in Seq(Events)
  BY DEF TypeInv, ConnTypeOK
<1>1. \A i \in DOMAIN inbox' : i \in Nat /\ (i < Len(inbox) + 1 \/ inbox'[i] = e)
  BY <1>0, Appended
<1>2. Len(inbox) + 1 \in DOMAIN inbox' /\ inbox'[Len(inbox) + 1] = e
  BY <1>0, Appended
<1> QED
  BY <1>1, <1>2 DEF LastSaid, Untold

\* One event less
LEMMA TakenListen ==
  ASSUME TypeInv, inbox # <<>>, inbox' = Tail(inbox), UNCHANGED asking
  PROVE  /\ LastSaid /\ arq_conn'.listen = arq_conn.listen => LastSaid'
         /\ Untold' => Untold
         /\ Untold => Untold' \/ IsListen(Head(inbox))
         /\ LastSaid /\ ~Untold' /\ IsListen(Head(inbox)) =>
               (Head(inbox).id = "APP_LISTEN" <=> arq_conn.listen)
<1>0. inbox \in Seq(Events)
  BY DEF TypeInv, ConnTypeOK
<1>1. \A i \in DOMAIN inbox' : i \in Nat \ {0} /\ i + 1 \in DOMAIN inbox /\ inbox'[i] = inbox[i + 1]
  BY <1>0, Shifted
<1>2. \A i \in DOMAIN inbox : i = 1 \/ (i \in Nat /\ i - 1 \in DOMAIN inbox' /\ inbox'[i - 1] = inbox[i])
  <2> SUFFICES ASSUME NEW i \in DOMAIN inbox, i # 1
               PROVE  i \in Nat /\ i - 1 \in DOMAIN inbox' /\ inbox'[i - 1] = inbox[i]
    OBVIOUS
  <2>1. i \in Nat /\ i - 1 \in DOMAIN inbox'
    BY <1>0, Shifted
  <2>2. inbox'[i - 1] = inbox[(i - 1) + 1] /\ (i - 1) + 1 = i
    BY <1>1, <2>1
  <2> QED
    BY <2>1, <2>2
<1>3. Head(inbox) = inbox[1] /\ 1 \in DOMAIN inbox
  BY <1>0, Shifted
<1>4. ASSUME LastSaid, arq_conn'.listen = arq_conn.listen
      PROVE  LastSaid'
  <2> SUFFICES ASSUME NEW i \in DOMAIN inbox', IsListen(inbox'[i]),
                      \A j \in DOMAIN inbox' : j > i => ~IsListen(inbox'[j])
               PROVE  inbox'[i].id = "APP_LISTEN" <=> arq_conn'.listen
    BY DEF LastSaid
  <2>1. i \in Nat \ {0} /\ i + 1 \in DOMAIN inbox /\ inbox'[i] = inbox[i + 1]
    BY <1>1
  <2>2. \A j \in DOMAIN inbox : j > i + 1 => ~IsListen(inbox[j])
    <3> SUFFICES ASSUME NEW j \in DOMAIN inbox, j > i + 1
                 PROVE  ~IsListen(inbox[j])
      OBVIOUS
    <3>1. j \in Nat /\ j # 1
      BY <1>0, <2>1
    <3>2. j - 1 \in DOMAIN inbox' /\ inbox'[j - 1] = inbox[j] /\ j - 1 > i
      BY <1>2, <2>1, <3>1
    <3> QED
      BY <3>2
  <2> QED
    BY <1>4, <2>1, <2>2 DEF LastSaid
<1>5. Untold' => Untold
  BY <1>1 DEF Untold
<1>6. Untold => Untold' \/ IsListen(Head(inbox))
  BY <1>2, <1>3 DEF Untold
<1>7. ASSUME LastSaid, ~Untold', IsListen(Head(inbox))
      PROVE  Head(inbox).id = "APP_LISTEN" <=> arq_conn.listen
  <2>1. \A j \in DOMAIN inbox : j > 1 => ~IsListen(inbox[j])
    <3> SUFFICES ASSUME NEW j \in DOMAIN inbox, j > 1
                 PROVE  ~IsListen(inbox[j])
      OBVIOUS
    <3>1. j \in Nat /\ j # 1
      BY <1>0
    <3>2. j - 1 \in DOMAIN inbox' /\ inbox'[j - 1] = inbox[j]
      BY <1>2, <3>1
    <3> QED
      BY <1>7, <3>2 DEF Untold
  <2> QED
    BY <1>3, <1>7, <2>1 DEF LastSaid
<1> QED
  BY <1>4, <1>5, <1>6, <1>7

\* The callbacks of the event loop leave `listen' alone, and post what it says.
LEMMA HandlerListen ==
  ASSUME ListenInv, TypeInv', ~posting, inbox # <<>>, inbox' = Tail(inbox), UNCHANGED asking,
         NEW e \in Events, e = Head(inbox),
         \/ OnConnect(e) \/ OnDisconnect(e) \/ OnListen(e) \/ OnStopListen(e)
         \/ OnCall(e) \/ OnAccept(e) \/ OnData(e) \/ OnRxDisconnect(e) \/ Drop(e)
  PROVE  ListenInv'
<1>0. sess \in Sessions /\ arq_conn \in Conns /\ sess.pending_disconnect_notify \in BOOLEAN
  BY DEF ListenInv, TypeInv, ConnTypeOK, Sessions
<1>1. arq_conn'.listen = arq_conn.listen
  BY <1>0 DEF OnConnect, OnDisconnect, OnListen, OnStopListen, OnCall, OnAccept, OnData, OnRxDisconnect, Drop,
              Connect, NotifyConnected, EndsCall, EndCall, ClearNames, Conns
<1>2. crossed' \/ ~crossed
  BY DEF OnConnect, OnDisconnect, OnListen, OnStopListen, OnCall, OnAccept, OnData, OnRxDisconnect, Drop, Connect
<1>3. posting' => arq_conn'.listen
  BY <1>0, <1>1 DEF OnConnect, OnDisconnect, OnListen, OnStopListen, OnCall, OnAccept, OnData, OnRxDisconnect,
                    Drop, Connect, EndsCall, EndCall, PostsListen, Conns
<1>4. ~crossed /\ ~IsListen(asking) => LastSaid'
  BY <1>1, TakenListen DEF ListenInv, ListenSaid
<1>5. ASSUME ~crossed', ~Untold'
      PROVE  ListenFits'
  <2>1. ~crossed /\ ~IsListen(asking) /\ LastSaid
    BY <1>2, <1>5 DEF Untold, ListenInv, ListenSaid
  <2>2. CASE IsListen(e)
    <3>1. e.id = "APP_LISTEN" <=> arq_conn.listen
      BY <1>5, <2>1, <2>2, TakenListen DEF ListenInv
    <3>2. CASE OnListen(e)
      BY <1>0, <1>1, <3>1, <3>2 DEF OnListen, ListenFits, InConnState, Sessions
    <3>3. CASE OnStopListen(e)
      <4>1. ~InConnState({"ACCEPTING"}) /\ ~arq_conn.listen
        BY <1>5, <3>1, <3>3 DEF OnStopListen
      <4>2. sess'.listen_enabled = FALSE /\ sess'.conn_state = StopsListening(sess.conn_state)
        BY <1>0, <3>3 DEF OnStopListen, Sessions
      <4> QED
        BY <1>1, <4>1, <4>2 DEF ListenFits, InConnState, StopsListening
    <3> QED
      BY <2>2, <3>2, <3>3 DEF IsListen, OnConnect, IsConnect, OnDisconnect, OnCall, OnAccept, OnData, OnRxDisconnect,
                              Drop, HasHandler
  <2>3. CASE ~IsListen(e)
    <3>1. ListenFits
      BY <1>5, <2>1, <2>3, TakenListen DEF ListenInv, ListenSaid
    <3>2. CASE OnConnect(e) \/ OnCall(e)
      BY <1>0, <1>1, <3>1, <3>2 DEF OnConnect, OnCall, Attempt, ListenFits, InConnState, Sessions
    <3>3. CASE OnAccept(e) \/ OnData(e)
      BY <1>0, <1>1, <3>1, <3>3 DEF OnAccept, OnData, Connect, ListenFits, InConnState, Sessions
    <3>4. CASE EndsCall
      BY <1>0, <1>1, <3>1, <3>4 DEF EndsCall, EndCall, ListenFits, InConnState, Sessions
    <3>5. CASE OnDisconnect(e) /\ ~EndsCall
      BY <1>0, <1>1, <3>1, <3>5 DEF OnDisconnect, ListenFits, InConnState, Sessions
    <3>6. CASE OnRxDisconnect(e) /\ ~EndsCall
      BY <1>0, <1>1, <3>1, <3>6 DEF OnRxDisconnect, ListenFits, InConnState, Sessions
    <3>7. CASE Drop(e)
      BY <1>1, <3>1, <3>7 DEF Drop, ListenFits, InConnState
    <3> QED
      BY <2>3, <3>2, <3>3, <3>4, <3>5, <3>6, <3>7 DEF IsListen, OnListen, OnStopListen
  <2> QED
    BY <2>2, <2>3
<1>6. ~crossed' => ListenSaid'
  BY <1>1, <1>2, <1>3, <1>4, <1>5 DEF ListenInv, ListenSaid, IsListen
<1> QED
  BY <1>6 DEF ListenInv

LEMMA ListenStep ==
  ASSUME ListenInv, [ConnNext]_connVars
  PROVE  ListenInv'
<1>t. TypeInv'
  BY TypeStep DEF ListenInv
<1>0. inbox \in Seq(Events) /\ sess \in Sessions /\ arq_conn \in Conns
      /\ sess.pending_disconnect_notify \in BOOLEAN /\ TypeInv
  BY DEF ListenInv, TypeInv, ConnTypeOK, Sessions
<1>1. CASE ConnectCommand \/ DisconnectCommand
  <2>1. /\ UNCHANGED <<sess, inbox, posting, crossed>> /\ arq_conn'.listen = arq_conn.listen
        /\ ~IsListen(asking) /\ ~IsListen(asking')
    <3>1. CASE ConnectCommand
      <4>1. PICK p \in Peers : /\ arq_conn' = [arq_conn EXCEPT !.src_addr = Me, !.dst_addr = p]
                               /\ Ask(Event("APP_CONNECT", calls', p))
        BY <3>1 DEF ConnectCommand
      <4>2. ~IsListen(asking) /\ ~IsListen(asking')
        BY <4>1 DEF Ask, IsListen, NoEvent, Event
      <4> QED
        BY <1>0, <3>1, <4>1, <4>2 DEF ConnectCommand, Conns
    <3>2. CASE DisconnectCommand
      BY <3>2 DEF DisconnectCommand, Ask, IsListen, NoEvent, Event
    <3> QED
      BY <1>1, <3>1, <3>2
  <2> QED
    BY <1>t, <2>1 DEF ListenInv, ListenSaid, LastSaid, Untold, ListenFits, InConnState
<1>2. CASE ListenOn
  <2>1. IsListen(asking') /\ asking'.id = "APP_LISTEN" /\ arq_conn'.listen = TRUE
    BY <1>0, <1>2 DEF ListenOn, Ask, IsListen, Event, Conns
  <2> QED
    BY <1>t, <2>1 DEF ListenInv, ListenSaid, Untold
<1>3. CASE ListenOff
  <2>1. IsListen(asking') /\ asking'.id = "APP_STOP_LISTEN" /\ arq_conn'.listen = FALSE
        /\ (~crossed' => ~posting')
    BY <1>0, <1>3 DEF ListenOff, Ask, IsListen, Event, Conns
  <2> QED
    BY <1>t, <2>1 DEF ListenInv, ListenSaid, Untold
<1>4. CASE PostCommand
  <2>1. /\ UNCHANGED <<arq_conn, sess, posting, crossed>> /\ ~IsListen(asking')
        /\ inbox' = Append(inbox, asking) /\ asking \in Events
    BY <1>0, <1>4 DEF PostCommand, Post, IsListen, NoEvent, Event, TypeInv, ConnTypeOK
  <2>2. CASE IsListen(asking)
    <3>1. ~crossed => LastSaid' /\ Untold'
      BY <1>0, <2>1, <2>2, ListenPosted DEF ListenInv, ListenSaid
    <3> QED
      BY <1>t, <2>1, <3>1 DEF ListenInv, ListenSaid
  <2>3. CASE ~IsListen(asking)
    <3>1. LastSaid => LastSaid'
      BY <1>0, <2>1, <2>3, OtherPosted
    <3>2. ~Untold' => ~Untold
      BY <1>0, <2>1, <2>3, Appended DEF Untold
    <3> QED
      BY <1>t, <2>1, <2>3, <3>1, <3>2 DEF ListenInv, ListenSaid, ListenFits, InConnState
  <2> QED
    BY <2>2, <2>3
<1>5. CASE HearFrame
  <2>1. UNCHANGED <<asking, arq_conn, sess, posting, crossed>>
    BY <1>5 DEF HearFrame
  <2>2. PICK e : ~IsListen(e) /\ inbox' = Append(inbox, e)
    BY <1>5 DEF HearFrame, Post, Event, IsListen
  <2>3. e \in Events
    BY <1>0, <1>t, <2>2, LastOfTyped DEF TypeInv, ConnTypeOK
  <2>4. LastSaid => LastSaid'
    BY <1>0, <2>1, <2>2, <2>3, OtherPosted
  <2>5. ~Untold' => ~Untold
    BY <1>0, <2>1, <2>2, <2>3, Appended DEF Untold
  <2> QED
    BY <1>t, <2>1, <2>4, <2>5 DEF ListenInv, ListenSaid, ListenFits, InConnState
<1>6. CASE PostListen
  <2>1. UNCHANGED <<asking, arq_conn, sess, crossed>> /\ posting /\ ~posting'
    BY <1>6 DEF PostListen
  <2>2. Event("APP_LISTEN", 0, Nobody) \in Events /\ IsListen(Event("APP_LISTEN", 0, Nobody))
        /\ Event("APP_LISTEN", 0, Nobody).id = "APP_LISTEN"
    BY CallsignAssumption DEF Event, Events, EventIds, TheirCall, IsListen
  <2>3. ~crossed => LastSaid' /\ Untold'
    BY <1>0, <1>6, <2>1, <2>2, ListenPosted DEF PostListen, ListenInv, ListenSaid
  <2> QED
    BY <1>t, <2>1, <2>3 DEF ListenInv, ListenSaid
<1>7. CASE Dispatch
  BY <1>0, <1>t, <1>7, Shifted, HandlerListen DEF Dispatch
<1>8. CASE GiveUp \/ LeaveSession \/ AnswerSent
  <2>1. UNCHANGED <<asking, inbox, crossed>>
    BY <1>8 DEF GiveUp, LeaveSession, AnswerSent
  <2>2. ASSUME NEW pending \in BOOLEAN, EndCall(pending)
        PROVE  ListenInv'
    <3>1. arq_conn'.listen = arq_conn.listen /\ (posting' => arq_conn.listen)
      BY <1>0, <2>2 DEF EndCall, ClearNames, PostsListen, Conns
    <3>2. ListenFits => ListenFits'
      BY <1>0, <2>2, <3>1 DEF EndCall, ListenFits, InConnState, Sessions
    <3>3. LastSaid => LastSaid'
      BY <2>1, <3>1 DEF LastSaid
    <3> QED
      BY <1>t, <2>1, <3>1, <3>2, <3>3 DEF ListenInv, ListenSaid, Untold
  <2>3. ASSUME NEW c \in {"LISTENING", "DISCONNECTING"}, sess' = [sess EXCEPT !.conn_state = c],
               c = "LISTENING" => InConnState({"ACCEPTING"}), UNCHANGED <<arq_conn, posting>>
        PROVE  ListenInv'
    <3>1. ListenFits => ListenFits'
      BY <1>0, <2>3 DEF ListenFits, InConnState, Sessions
    <3> QED
      BY <1>t, <2>1, <2>3, <3>1 DEF ListenInv, ListenSaid, LastSaid, Untold
  <2> QED
    BY <1>0, <1>8, <2>2, <2>3 DEF GiveUp, LeaveSession, AnswerSent, EndsCall
<1>9. CASE UNCHANGED connVars
  BY <1>t, <1>9 DEF connVars, ListenInv, ListenSaid, LastSaid, Untold, ListenFits, InConnState
<1> QED
  BY <1>1, <1>2, <1>3, <1>4, <1>5, <1>6, <1>7, <1>8, <1>9 DEF ConnNext

-----------------------------------------------------------------------------
(* The theorems                                                            *)

LEMMA NamesInvariant == ConnSpec => []NamesInv
<1>1. ConnInit => NamesInv
  BY NamesStart
<1>2. NamesInv /\ [ConnNext]_connVars => NamesInv'
  BY NamesStep
<1> QED
  BY <1>1, <1>2, PTL DEF ConnSpec

LEMMA ListenInvariant == ConnSpec => []ListenInv
<1>1. ConnInit => ListenInv
  BY ListenStart
<1>2. ListenInv /\ [ConnNext]_connVars => ListenInv'
  BY ListenStep
<1> QED
  BY <1>1, <1>2, PTL DEF ConnSpec

\* Types of arq_conn and of what leads to its callbacks; nobody is called or calls
\* without a name.
THEOREM ConnTypes == ConnSpec => []ConnTypeOK
<1>1. NamesInv => ConnTypeOK
  BY DEF NamesInv, TypeInv
<1> QED
  BY <1>1, NamesInvariant, PTL

\* CONNECTED names the right source, for any peers and any number of calls, lost
\* ones, stale frames and events that wait among them, if no CONNECT was hasty.
THEOREM CallerIsNamed == ConnSpec => []SourceIsCaller
<1>1. NamesInv => SourceIsCaller
  BY DEF NamesInv
<1> QED
  BY <1>1, NamesInvariant, PTL

\* LISTEN is honoured, but for what crossed it.
THEOREM ListenHonoured == ConnSpec => []ListenObeyed
<1>1. ListenInv => ListenObeyed
  <2> SUFFICES ASSUME ListenInv, AtRest, ~crossed
               PROVE  sess.conn_state = "LISTENING" <=> arq_conn.listen
    BY DEF ListenObeyed
  <2>1. ~Untold
    BY DEF AtRest, Resting, Untold, IsListen, NoEvent, Event
  <2> QED
    BY <2>1 DEF ListenInv, ListenSaid, ListenFits, AtRest, Resting, InConnState
<1> QED
  BY <1>1, ListenInvariant, PTL

=============================================================================

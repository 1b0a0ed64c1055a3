--------------------------- MODULE ArqLinkProofs ----------------------------
(***************************************************************************)
(* Proofs about two stations on one channel (ArqLink): what a session      *)
(* delivers is what was written, in order; what leaves a window has been   *)
(* delivered; the link implements the stream service of ArqStream; and     *)
(* each of the two is a station with a peer (LinkIsOpen), so that what is  *)
(* proved of one station holds of both.                                    *)
(*                                                                         *)
(* No handler of the state machine appears: the invariants LinkInv and,    *)
(* for data both ways, TurnInv hold whatever two stations do whose steps   *)
(* are only such as ArqStepProofs says.                                    *)
(***************************************************************************)
EXTENDS ArqLink, ArqStepProofs, ArqStateProofs

-----------------------------------------------------------------------------
(* The link.  x and y are the sessions of its two ends, v is the wire of x *)
(* and w the wire of y.                                                    *)

StreamTypes == {"DATA", "ACK", "MODE_REQ"}

(* What tells the peer nothing about the streams. *)
Quiet(b) == b.control /\ b.frames[1].type \notin StreamTypes
QuietWire(v) == \A i \in 1 .. Len(v) : v[i].type \notin StreamTypes
Resting(y) == \A b \in Actions(y) : Quiet(b)

AllData(v) == \A i \in 1 .. Len(v) : v[i].type = "DATA"

(* An end that is not in the session has nothing on its way that belongs to *)
(* it, and the other one has neither got nor given up anything.             *)
NotYet(x, y, v) ==
    ~Up(y) => /\ Resting(y) /\ QuietWire(v)
              /\ Up(x) => x.rxlog = <<>> /\ Base(x) = 0

(* DATA on its way is a run of the sender's stream, and the receiver is no *)
(* further ahead of it than a retransmission may be behind.                *)
Flow(x, y, w) ==
    Up(x) /\ AllData(w) =>
        \E k \in 0 .. Len(x.txlog) :
            RunAt(w, x.txlog, k) /\ (Up(y) => Len(y.rxlog) <= k + BurstFrames)

Prefix(x, y) == Up(x) /\ Up(y) => Grows(y.rxlog, x.txlog)

Pair(x, y, v, w) == NotYet(x, y, v) /\ Flow(x, y, w) /\ Prefix(x, y)

(* What a step of one end does that matters to the other. *)
Goes(r, q, f) ==
    /\ Good(q)
    /\ Up(r) => q.session_id = r.session_id
    /\ Up(r) /\ Up(q) => InSession(r, q, f)
    /\ ~Up(r) /\ Up(q) => Joins(r, q, f)
    /\ ~Up(r) /\ ~Up(q) => Apart(r, q, f)
    /\ ~Up(q) => \A b \in Actions(q) : b \in Actions(r) \/ Quiet(b)

(* The wire of an end that takes f, or loses a frame, or neither. *)
Takes(v, u, f) ==
    \/ u = v /\ f = NoFrame
    \/ v # <<>> /\ u = Tail(v) /\ f \in {Head(v), NoFrame}

(* A sequence of one frame, or of DATA only, is on a wire. *)
OneBurst(v) == AllData(v) \/ Len(v) = 1

LEMMA FreshQuiet ==
    ASSUME NEW q, ~Up(q), NEW b, Fresh(b, q)
    PROVE  Quiet(b)
<1>1. ~ FreshData(b.frames, q)
  BY DEF FreshData
<1>2. PICK f \in Frame : b = Control(f) /\ FreshControl(f, q)
  BY <1>1 DEF Fresh
<1>3. f.type \notin StreamTypes
  BY <1>2 DEF FreshControl, StreamTypes, Busy
<1> QED
  BY <1>2, <1>3 DEF Quiet, Control

LEMMA MovesGoes == ASSUME NEW r, NEW q, NEW f, Moves(r, q, f) PROVE Goes(r, q, f)
  BY FreshQuiet DEF Moves, Goes

LEMMA CarriesGoes ==
    ASSUME NEW r, IdOf(r), NEW q, Good(q), Carries(q, r) PROVE Goes(r, q, NoFrame)
  BY CarriesMoves, MovesGoes

LEMMA WroteGoes ==
    ASSUME NEW r, Good(r), NEW q, Wrote(r, q) PROVE Goes(r, q, NoFrame)
<1>1. Base(q) = Base(r) /\ Actions(q) = Actions(r) /\ Grows(r.txlog, q.txlog)
  BY Fields, GrowsItself DEF Wrote, Base, Actions
<1> QED
  BY <1>1 DEF Wrote, Goes, InSession, Apart, Up

LEMMA ItselfGoes == ASSUME NEW r, Good(r) PROVE Goes(r, r, NoFrame)
<1>1. Grows(r.txlog, r.txlog)
  BY Fields, GrowsItself
<1> QED
  BY <1>1 DEF Goes, InSession, Apart

LEMMA GrowsOn ==
    ASSUME NEW s \in Seq(Nat), NEW t \in Seq(Nat), NEW u \in Seq(Nat), Grows(s, t), Grows(t, u)
    PROVE  Grows(s, u)
<1>1. Len(s) \in Nat /\ Len(t) \in Nat /\ Len(u) \in Nat
  OBVIOUS
<1> QED
  BY <1>1 DEF Grows

LEMMA TailIs ==
    ASSUME NEW S, NEW v \in Seq(S), v # <<>>
    PROVE  /\ Tail(v) \in Seq(S) /\ Len(v) \in Nat /\ Len(v) > 0
           /\ Len(Tail(v)) = Len(v) - 1 /\ Head(v) = v[1] /\ Head(v) \in S
           /\ \A i \in 1 .. Len(Tail(v)) : Tail(v)[i] = v[i + 1] /\ i + 1 \in 1 .. Len(v)
  OBVIOUS

LEMMA RunGrows ==
    ASSUME NEW v \in Seq(Frame), NEW log \in Seq(Nat), NEW more \in Seq(Nat), Grows(log, more),
           NEW k, RunAt(v, log, k)
    PROVE  RunAt(v, more, k)
<1>1. Len(v) \in Nat /\ Len(log) \in Nat /\ Len(more) \in Nat
  OBVIOUS
<1>2. k \in Nat /\ k + Len(v) <= Len(log) /\ Len(log) <= Len(more)
  BY DEF RunAt, Grows
<1>3. k + Len(v) <= Len(more)
  BY <1>1, <1>2
<1>4. \A i \in 1 .. Len(v) : k + i \in 1 .. Len(log)
  BY <1>1, <1>2
<1>5. \A i \in 1 .. Len(v) : more[k + i] = log[k + i]
  BY <1>4 DEF Grows
<1> QED
  BY <1>2, <1>3, <1>5 DEF RunAt

LEMMA RunTail ==
    ASSUME NEW v \in Seq(Frame), v # <<>>, NEW log \in Seq(Nat), NEW k, RunAt(v, log, k)
    PROVE  /\ RunAt(Tail(v), log, k + 1) /\ k + 1 \in 0 .. Len(log)
           /\ Head(v).type = "DATA" /\ Head(v).seq = k % SeqSpace
           /\ Head(v).unit = log[k + 1]
<1>1. /\ Len(v) \in Nat /\ Len(v) > 0 /\ Len(Tail(v)) = Len(v) - 1 /\ Head(v) = v[1]
      /\ \A i \in 1 .. Len(Tail(v)) : Tail(v)[i] = v[i + 1] /\ i + 1 \in 1 .. Len(v)
  BY TailIs
<1>2. Len(log) \in Nat /\ k \in Nat /\ k + Len(v) <= Len(log)
  BY DEF RunAt
<1>3. k + 1 \in Nat /\ k + 1 + Len(Tail(v)) <= Len(log) /\ k + 1 \in 0 .. Len(log)
  BY <1>1, <1>2
<1>4. \A i \in 1 .. Len(v) :
         v[i].type = "DATA" /\ v[i].seq = (k + i - 1) % SeqSpace /\ v[i].unit = log[k + i]
  BY DEF RunAt
<1>5. 1 \in 1 .. Len(v) /\ k + 1 - 1 = k
  BY <1>1, <1>2
<1>6. Head(v).type = "DATA" /\ Head(v).seq = k % SeqSpace /\ Head(v).unit = log[k + 1]
  BY <1>1, <1>4, <1>5
<1>7. ASSUME NEW i \in 1 .. Len(Tail(v))
      PROVE  /\ Tail(v)[i].type = "DATA"
             /\ Tail(v)[i].seq = (k + 1 + i - 1) % SeqSpace
             /\ Tail(v)[i].unit = log[k + 1 + i]
  <2>1. Tail(v)[i] = v[i + 1] /\ i + 1 \in 1 .. Len(v)
    BY <1>1
  <2>2. k + (i + 1) - 1 = k + 1 + i - 1 /\ k + (i + 1) = k + 1 + i
    BY <1>2
  <2>3. /\ v[i + 1].type = "DATA" /\ v[i + 1].seq = (k + (i + 1) - 1) % SeqSpace
        /\ v[i + 1].unit = log[k + (i + 1)]
    BY <1>4, <2>1
  <2> QED
    BY <2>1, <2>2, <2>3
<1> QED
  BY <1>3, <1>6, <1>7 DEF RunAt

LEMMA RunEmpty ==
    ASSUME NEW log \in Seq(Nat)
    PROVE  RunAt(<<>>, log, Len(log)) /\ Len(log) \in 0 .. Len(log)
<1>1. Len(log) \in Nat /\ Len(<<>>) = 0
  OBVIOUS
<1> QED
  BY <1>1 DEF RunAt

LEMMA BaseType ==
    ASSUME NEW x, Good(x)
    PROVE  /\ Base(x) \in Nat /\ Len(x.txlog) \in Nat /\ Len(x.rxlog) \in Nat
           /\ Base(x) <= Len(x.txlog) /\ Len(x.txlog) <= Base(x) + BurstFrames
           /\ Len(x.txlog) = Base(x) + Len(x.tx_window) /\ Len(x.tx_window) \in Nat
<1>1. x.txlog \in Seq(Nat) /\ x.rxlog \in Seq(Nat) /\ x.tx_window \in Seq(Slot)
  BY Fields
<1>2. Len(x.tx_window) <= BurstFrames /\ Len(x.tx_window) <= Len(x.txlog)
  BY DEF Good, WindowOf
<1>3. Len(x.txlog) \in Nat /\ Len(x.rxlog) \in Nat /\ Len(x.tx_window) \in Nat /\ BurstFrames \in Nat
  BY <1>1, WindowAssumption
<1>4. \A l, w, b \in Nat : w <= b /\ w <= l => /\ l - w \in Nat /\ l - w <= l
                                              /\ l <= l - w + b /\ l = l - w + w
  OBVIOUS
<1> QED
  BY <1>2, <1>3, <1>4 DEF Base

(* Two numbers that are not SeqSpace apart are told apart modulo SeqSpace. *)
LEMMA ModDistinct ==
    ASSUME NEW m \in Nat, NEW n \in Nat, m % SeqSpace = n % SeqSpace,
           m < n + SeqSpace, n < m + SeqSpace
    PROVE  m = n
<1> DEFINE a == m \div SeqSpace
           b == n \div SeqSpace
           c == m % SeqSpace
<1>1. SeqSpace \in Nat /\ SeqSpace > 0
  BY WindowAssumption
<1>2. a \in Int /\ m = SeqSpace * a + c /\ c \in Int
  BY <1>1
<1>3. b \in Int /\ n = SeqSpace * b + c
  BY <1>1
<1> HIDE DEF a, b, c
<1>4. \A i, j \in Int : i < j => SeqSpace * i + SeqSpace <= SeqSpace * j
  <2> SUFFICES ASSUME NEW i \in Int, NEW j \in Int, i < j
               PROVE  SeqSpace * i + SeqSpace <= SeqSpace * j
    OBVIOUS
  <2>1. SeqSpace * i + SeqSpace = SeqSpace * (i + 1)
    BY <1>1
  <2>2. i + 1 <= j
    OBVIOUS
  <2>3. SeqSpace * (i + 1) <= SeqSpace * j
    BY <1>1, <2>2
  <2> QED
    BY <2>1, <2>3
<1>5. a = b
  <2>1. ~ (a < b) /\ ~ (b < a)
    <3>1. SeqSpace * a \in Int /\ SeqSpace * b \in Int
      BY <1>1, <1>2, <1>3
    <3> QED
      BY <1>1, <1>2, <1>3, <1>4, <3>1
  <2> QED
    BY <1>2, <1>3, <2>1
<1> QED
  BY <1>2, <1>3, <1>5

(* The run whose first number is the one wanted begins with the unit wanted. *)
LEMMA NextUnit ==
    ASSUME NEW x, Good(x), NEW v \in Seq(Frame), v # <<>>, NEW k, RunAt(v, x.txlog, k),
           NEW n \in Nat, Head(v).seq = n % SeqSpace, n <= k + BurstFrames,
           Base(x) <= n \/ Len(x.txlog) <= SeqSpace
    PROVE  k = n /\ n < Len(x.txlog) /\ Head(v).unit = x.txlog[n + 1]
<1>1. x.txlog \in Seq(Nat)
  BY Fields
<1>2. k + 1 \in 0 .. Len(x.txlog) /\ k \in Nat /\ Head(v).seq = k % SeqSpace
      /\ Head(v).unit = x.txlog[k + 1]
  BY <1>1, RunTail DEF RunAt
<1>3. /\ Base(x) \in Nat /\ Len(x.txlog) \in Nat /\ Len(x.txlog) <= Base(x) + BurstFrames
      /\ BurstFrames \in Nat /\ SeqSpace \in Nat /\ BurstFrames < SeqSpace
  BY BaseType, WindowAssumption
<1>4. k < n + SeqSpace /\ n < k + SeqSpace
  BY <1>2, <1>3
<1>5. k = n
  BY <1>2, <1>4, ModDistinct
<1> QED
  BY <1>2, <1>3, <1>5

LEMMA GrowsByOne ==
    ASSUME NEW rx \in Seq(Nat), NEW log \in Seq(Nat), Grows(rx, log), Len(rx) < Len(log)
    PROVE  Grows(Append(rx, log[Len(rx) + 1]), log)
<1>1. Len(rx) \in Nat /\ Len(log) \in Nat
  OBVIOUS
<1>2. log[Len(rx) + 1] \in Nat
  BY <1>1
<1> DEFINE more == Append(rx, log[Len(rx) + 1])
<1>3. Len(more) = Len(rx) + 1 /\ more[Len(rx) + 1] = log[Len(rx) + 1]
      /\ \A i \in 1 .. Len(rx) : more[i] = rx[i]
  BY <1>1, <1>2
<1> HIDE DEF more
<1>4. \A i \in 1 .. Len(more) : i \in 1 .. Len(rx) \/ i = Len(rx) + 1
  BY <1>1, <1>3
<1>5. \A i \in 1 .. Len(more) : more[i] = log[i]
  BY <1>3, <1>4 DEF Grows
<1>6. Grows(more, log)
  BY <1>1, <1>3, <1>5 DEF Grows
<1> QED
  BY <1>6 DEF more

LEMMA TakesQuiet ==
    ASSUME NEW v \in Seq(Frame), NEW u, NEW f, Takes(v, u, f), QuietWire(v)
    PROVE  QuietWire(u) /\ f.type \notin StreamTypes
<1>1. CASE u = v /\ f = NoFrame
  BY <1>1 DEF NoFrame, StreamTypes
<1>2. CASE v # <<>> /\ u = Tail(v) /\ f \in {Head(v), NoFrame}
  <2>1. /\ 1 \in 1 .. Len(v) /\ Head(v) = v[1]
        /\ \A i \in 1 .. Len(u) : u[i] = v[i + 1] /\ i + 1 \in 1 .. Len(v)
    BY <1>2, TailIs
  <2>2. NoFrame.type \notin StreamTypes
    BY DEF NoFrame, StreamTypes
  <2> QED
    BY <1>2, <2>1, <2>2 DEF QuietWire
<1> QED
  BY <1>1, <1>2 DEF Takes

(* The two ends of a session: v is the wire of the one that steps from r to *)
(* q, and takes f or not, w the wire of its peer y.                          *)
StepOf(r, q, y, v, u, w, f) ==
    /\ Good(r) /\ Good(y) /\ Goes(r, q, f) /\ (Up(r) => Up(q))
    /\ v \in Seq(Frame) /\ u \in Seq(Frame) /\ w \in Seq(Frame)
    /\ Takes(v, u, f) /\ OneBurst(v) /\ (v = <<>> \/ w = <<>>)
    /\ Pair(r, y, v, w) /\ Pair(y, r, w, v)

(* The pair in which the station that steps is the sender. *)
LEMMA SenderPair ==
    ASSUME NEW r, NEW q, NEW y, NEW v, NEW u, NEW w, NEW f, StepOf(r, q, y, v, u, w, f)
    PROVE  Pair(q, y, u, w)
<1> Good(q) /\ Good(r) /\ Good(y) /\ v \in Seq(Frame) /\ w \in Seq(Frame)
  BY DEF StepOf, Goes
<1>0. /\ r.txlog \in Seq(Nat) /\ q.txlog \in Seq(Nat) /\ y.txlog \in Seq(Nat)
      /\ r.rxlog \in Seq(Nat) /\ q.rxlog \in Seq(Nat) /\ y.rxlog \in Seq(Nat)
  BY Fields
<1>1. CASE ~Up(q)
  <2>1. ~Up(r) /\ (~Up(y) => Resting(y) /\ QuietWire(v))
    BY <1>1 DEF StepOf, Pair, NotYet
  <2>2. ~Up(y) => QuietWire(u)
    BY <2>1, TakesQuiet DEF StepOf
  <2> QED
    BY <1>1, <2>1, <2>2 DEF Pair, NotYet, Flow, Prefix
<1>2. CASE Up(r) /\ Up(q)
  <2>1. InSession(r, q, f)
    BY <1>2 DEF StepOf, Goes
  <2>2. NotYet(q, y, u)
    <3> SUFFICES ASSUME ~Up(y) PROVE Resting(y) /\ QuietWire(u) /\ q.rxlog = <<>> /\ Base(q) = 0
      BY DEF NotYet
    <3>1. Resting(y) /\ QuietWire(v) /\ r.rxlog = <<>> /\ Base(r) = 0
      BY <1>2 DEF StepOf, Pair, NotYet
    <3>2. QuietWire(u) /\ f.type \notin StreamTypes
      BY <3>1, TakesQuiet DEF StepOf
    <3> QED
      BY <2>1, <3>1, <3>2 DEF InSession, StreamTypes
  <2>3. Flow(q, y, w)
    <3> SUFFICES ASSUME AllData(w)
                 PROVE  \E k \in 0 .. Len(q.txlog) :
                           /\ RunAt(w, q.txlog, k)
                           /\ Up(y) => Len(y.rxlog) <= k + BurstFrames
      BY DEF Flow
    <3>1. PICK k \in 0 .. Len(r.txlog) :
             RunAt(w, r.txlog, k) /\ (Up(y) => Len(y.rxlog) <= k + BurstFrames)
      BY <1>2 DEF StepOf, Pair, Flow
    <3>2. RunAt(w, q.txlog, k)
      BY <1>0, <2>1, <3>1, RunGrows DEF InSession
    <3>3. k \in 0 .. Len(q.txlog)
      BY <1>0, <2>1 DEF InSession, Grows
    <3> QED
      BY <3>1, <3>2, <3>3
  <2>4. Prefix(q, y)
    <3>1. Up(y) => Grows(y.rxlog, r.txlog)
      BY <1>2 DEF StepOf, Pair, Prefix
    <3> QED
      BY <1>0, <2>1, <3>1, GrowsOn DEF InSession, Prefix
  <2> QED
    BY <2>2, <2>3, <2>4 DEF Pair
<1>3. CASE ~Up(r) /\ Up(q)
  <2>1. /\ f.type \in {"DATA", "ACK", "ACCEPT"} /\ q.txlog = <<>> /\ q.tx_window = <<>>
        /\ f.type # "DATA" => q.rxlog = <<>>
    BY <1>3 DEF StepOf, Goes, Joins
  <2>2. v # <<>> /\ w = <<>>
    BY <2>1 DEF StepOf, Takes, NoFrame
  <2>3. Up(y) => y.rxlog = <<>> /\ Base(y) = 0
    BY <1>3 DEF StepOf, Pair, NotYet
  <2>4. Len(<<>>) = 0 /\ BurstFrames \in Nat /\ Base(q) = 0
    BY <2>1, WindowAssumption DEF Base
  <2>5. NotYet(q, y, u)
    <3> SUFFICES ASSUME ~Up(y) PROVE Resting(y) /\ QuietWire(u) /\ q.rxlog = <<>> /\ Base(q) = 0
      BY DEF NotYet
    <3>1. Resting(y) /\ QuietWire(v)
      BY DEF StepOf, Pair, NotYet
    <3>2. QuietWire(u) /\ f.type \notin StreamTypes
      BY <3>1, TakesQuiet DEF StepOf
    <3> QED
      BY <2>1, <2>4, <3>1, <3>2 DEF StreamTypes
  <2>6. Flow(q, y, w)
    <3>1. RunAt(w, q.txlog, 0) /\ 0 \in 0 .. Len(q.txlog)
      BY <1>0, <2>1, <2>2, <2>4, RunEmpty
    <3>2. Up(y) => Len(y.rxlog) <= 0 + BurstFrames
      BY <2>3, <2>4
    <3> QED
      BY <3>1, <3>2 DEF Flow
  <2>7. Prefix(q, y)
    BY <2>1, <2>3, <2>4 DEF Prefix, Grows
  <2> QED
    BY <2>5, <2>6, <2>7 DEF Pair
<1> QED
  BY <1>1, <1>2, <1>3

(* Either what has left the window has been delivered, or the numbers have  *)
(* not come round yet.                                                       *)
Told(x, y) == Base(x) <= Len(y.rxlog) \/ Len(x.txlog) <= SeqSpace

(* The unit a DATA frame delivers is the next one of its sender. *)
LEMMA Delivers ==
    ASSUME NEW r, NEW q, NEW y, NEW v, NEW u, NEW w, NEW f, StepOf(r, q, y, v, u, w, f),
           Up(y), Up(q), f.type = "DATA", Up(r) => Told(y, r),
           NEW rx \in Seq(Nat), rx = IF Up(r) THEN r.rxlog ELSE <<>>,
           f.seq = Len(rx) % SeqSpace
    PROVE  Grows(rx, y.txlog) /\ Grows(Append(rx, f.unit), y.txlog)
<1>1. Good(y) /\ v \in Seq(Frame) /\ v # <<>> /\ f = Head(v) /\ OneBurst(v)
  BY DEF StepOf, Takes, NoFrame
<1>2. AllData(v)
  <2>1. Head(v) = v[1]
    BY <1>1
  <2>2. \A i \in 1 .. 1 : i = 1
    OBVIOUS
  <2> QED
    BY <1>1, <2>1, <2>2 DEF OneBurst, AllData
<1>3. PICK k \in 0 .. Len(y.txlog) :
         RunAt(v, y.txlog, k) /\ (Up(r) => Len(r.rxlog) <= k + BurstFrames)
  BY <1>2 DEF StepOf, Pair, Flow
<1>4. y.txlog \in Seq(Nat) /\ Len(y.txlog) \in Nat
  BY <1>1, Fields
<1>5. Len(rx) \in Nat /\ Len(<<>>) = 0 /\ BurstFrames \in Nat /\ k \in Nat
  BY <1>4, WindowAssumption
<1>6. Grows(rx, y.txlog)
  <2>1. Up(r) => Grows(r.rxlog, y.txlog)
    BY DEF StepOf, Pair, Prefix
  <2>2. Grows(<<>>, y.txlog)
    BY <1>4 DEF Grows
  <2> QED
    BY <2>1, <2>2
<1>7. Len(rx) <= k + BurstFrames
  BY <1>3, <1>5
<1>8. Base(y) <= Len(rx) \/ Len(y.txlog) <= SeqSpace
  <2>1. ~Up(r) => Base(y) = 0
    BY DEF StepOf, Pair, NotYet
  <2> QED
    BY <1>5, <2>1 DEF Told
<1>9. Len(rx) < Len(y.txlog) /\ f.unit = y.txlog[Len(rx) + 1]
  <2> DEFINE n == Len(rx)
  <2>1. n \in Nat /\ Head(v).seq = n % SeqSpace /\ n <= k + BurstFrames
        /\ (Base(y) <= n \/ Len(y.txlog) <= SeqSpace)
    BY <1>1, <1>5, <1>7, <1>8
  <2> HIDE DEF n
  <2>2. n < Len(y.txlog) /\ Head(v).unit = y.txlog[n + 1]
    BY <1>1, <1>3, <2>1, NextUnit
  <2> QED
    BY <1>1, <2>2 DEF n
<1> QED
  BY <1>4, <1>6, <1>9, GrowsByOne

(* The pair in which it is the receiver. *)
LEMMA ReceiverPair ==
    ASSUME NEW r, NEW q, NEW y, NEW v, NEW u, NEW w, NEW f, StepOf(r, q, y, v, u, w, f),
           Up(r) /\ Up(y) => Told(y, r)
    PROVE  Pair(y, q, w, u)
<1> Good(q) /\ Good(r) /\ Good(y) /\ v \in Seq(Frame) /\ u \in Seq(Frame)
  BY DEF StepOf, Goes
<1>0. /\ r.txlog \in Seq(Nat) /\ q.txlog \in Seq(Nat) /\ y.txlog \in Seq(Nat)
      /\ r.rxlog \in Seq(Nat) /\ q.rxlog \in Seq(Nat) /\ y.rxlog \in Seq(Nat)
      /\ Len(y.txlog) \in Nat /\ Len(r.rxlog) \in Nat /\ Len(q.rxlog) \in Nat
      /\ BurstFrames \in Nat
  BY Fields, WindowAssumption
<1>1. NotYet(y, q, w)
  <2> SUFFICES ASSUME ~Up(q)
               PROVE  /\ Resting(q) /\ QuietWire(w)
                      /\ Up(y) => y.rxlog = <<>> /\ Base(y) = 0
    BY DEF NotYet
  <2>1. ~Up(r) /\ Resting(r) /\ QuietWire(w) /\ (Up(y) => y.rxlog = <<>> /\ Base(y) = 0)
    BY DEF StepOf, Pair, NotYet
  <2> QED
    BY <2>1 DEF StepOf, Goes, Resting
<1> DEFINE rx == IF Up(r) THEN r.rxlog ELSE <<>>
<1>2. rx \in Seq(Nat) /\ Len(rx) \in Nat /\ Len(<<>>) = 0
  BY <1>0
<1>3. Up(q) => \/ q.rxlog = rx
               \/ f.type = "DATA" /\ f.seq = Len(rx) % SeqSpace /\ q.rxlog = Append(rx, f.unit)
  <2>1. CASE Up(q) /\ Up(r)
    BY <2>1 DEF StepOf, Goes, InSession
  <2>2. CASE Up(q) /\ ~Up(r)
    <3>1. \/ q.rxlog = <<>>
          \/ f.type = "DATA" /\ f.seq = 0 /\ q.rxlog = <<f.unit>>
      BY <2>2 DEF StepOf, Goes, Joins
    <3>2. 0 % SeqSpace = 0 /\ Append(<<>>, f.unit) = <<f.unit>>
      BY WindowAssumption
    <3> QED
      BY <1>2, <2>2, <3>1, <3>2
  <2> QED
    BY <2>1, <2>2
<1>4. Up(y) /\ Up(q) => Len(rx) <= Len(y.txlog)
  <2>1. Up(y) /\ Up(r) => Grows(r.rxlog, y.txlog)
    BY DEF StepOf, Pair, Prefix
  <2> QED
    BY <1>0, <1>2, <2>1 DEF Grows
<1>5. Prefix(y, q)
  <2> SUFFICES ASSUME Up(y), Up(q) PROVE Grows(q.rxlog, y.txlog)
    BY DEF Prefix
  <2>1. CASE q.rxlog = rx
    <3>1. Up(r) => Grows(r.rxlog, y.txlog)
      BY DEF StepOf, Pair, Prefix
    <3>2. Grows(<<>>, y.txlog)
      BY <1>0, <1>2 DEF Grows
    <3> QED
      BY <2>1, <3>1, <3>2
  <2>2. CASE /\ f.type = "DATA" /\ f.seq = Len(rx) % SeqSpace
             /\ q.rxlog = Append(rx, f.unit)
    <3> HIDE DEF rx
    <3>1. rx = IF Up(r) THEN r.rxlog ELSE <<>>
      BY DEF rx
    <3> QED
      BY <1>2, <2>2, <3>1, Delivers
  <2> QED
    BY <1>3, <2>1, <2>2
<1>6. Flow(y, q, u)
  <2> SUFFICES ASSUME Up(y), AllData(u)
               PROVE  \E k \in 0 .. Len(y.txlog) :
                         /\ RunAt(u, y.txlog, k)
                         /\ Up(q) => Len(q.rxlog) <= k + BurstFrames
    BY DEF Flow
  <2>1. ASSUME AllData(v)
        PROVE  \E k \in 0 .. Len(y.txlog) :
                  RunAt(v, y.txlog, k) /\ Len(rx) <= k + BurstFrames
    BY <1>0, <1>2, <2>1 DEF StepOf, Pair, Flow
  <2>2. CASE u = v /\ f = NoFrame
    <3>1. Up(q) => q.rxlog = rx
      BY <1>3, <2>2 DEF NoFrame
    <3> QED
      BY <2>1, <2>2, <3>1
  <2>3. CASE v # <<>> /\ u = Tail(v) /\ f \in {Head(v), NoFrame} /\ AllData(v)
    <3>1. PICK k \in 0 .. Len(y.txlog) :
             RunAt(v, y.txlog, k) /\ Len(rx) <= k + BurstFrames
      BY <2>1, <2>3
    <3>2. RunAt(u, y.txlog, k + 1) /\ k + 1 \in 0 .. Len(y.txlog)
      BY <1>0, <2>3, <3>1, RunTail
    <3>3. Up(q) => Len(q.rxlog) <= Len(rx) + 1
      <4> HIDE DEF rx
      <4> QED
        BY <1>2, <1>3
    <3>4. Up(q) => Len(q.rxlog) <= k + 1 + BurstFrames
      <4> HIDE DEF rx
      <4>1. k \in Nat
        BY <1>0
      <4> QED
        BY <1>0, <1>2, <3>1, <3>3, <4>1
    <3> QED
      BY <3>2, <3>4
  <2>4. CASE v # <<>> /\ u = Tail(v) /\ f \in {Head(v), NoFrame} /\ ~AllData(v)
    <3>1. Len(v) = 1
      BY <2>4 DEF StepOf, OneBurst
    <3>2. u = <<>> /\ Head(v).type # "DATA"
      <4>1. Head(v) = v[1] /\ (\A i \in 1 .. Len(v) : i = 1) /\ Len(Tail(v)) = 0
            /\ Tail(v) \in Seq(Frame)
        BY <2>4, <3>1, TailIs
      <4>2. \A t \in Seq(Frame) : Len(t) = 0 => t = <<>>
        OBVIOUS
      <4> QED
        BY <2>4, <4>1, <4>2 DEF AllData
    <3>3. Up(q) => q.rxlog = rx
      BY <1>3, <2>4, <3>2 DEF NoFrame
    <3>4. RunAt(u, y.txlog, Len(y.txlog)) /\ Len(y.txlog) \in 0 .. Len(y.txlog)
      BY <1>0, <3>2, RunEmpty
    <3>5. Up(q) => Len(q.rxlog) <= Len(y.txlog) + BurstFrames
      <4>1. \A m, n, b \in Nat : m <= n => m <= n + b
        OBVIOUS
      <4> QED
        BY <1>0, <1>2, <1>4, <3>3, <4>1
    <3> QED
      BY <3>4, <3>5
  <2> QED
    BY <2>2, <2>3, <2>4 DEF StepOf, Takes
<1> QED
  BY <1>1, <1>5, <1>6 DEF Pair

(* What is in the queue of a session was put there by one that was where it *)
(* is now.                                                                  *)
QueuedControl(f, r) ==
    /\ Sent(f) /\ f.type # "DATA"
    /\ f.type = "CALL" => ~Up(r)
    /\ f.type = "ACK" /\ Up(r) => f.seq = Len(r.rxlog) % SeqSpace

QueuedData(fs, r) ==
    /\ fs \in Seq(Frame) /\ fs # <<>>
    /\ \A i \in 1 .. Len(fs) : Sent(fs[i]) /\ fs[i].type = "DATA"
    /\ Up(r) => \E k \in Base(r) .. Len(r.txlog) : RunAt(fs, r.txlog, k)

Queued(b, r) ==
    \/ \E f \in Frame : b = Control(f) /\ QueuedControl(f, r)
    \/ ~b.control /\ QueuedData(b.frames, r)

Calls(b) == b.control /\ b.frames[1].type = "CALL"

QueueOf(r) ==
    /\ \A b \in Actions(r) : Queued(b, r)
    /\ (\E b \in Actions(r) : Calls(b)) => Resting(r)

LEMMA NoFrameGoes ==
    ASSUME NEW r, NEW q, Goes(r, q, NoFrame)
    PROVE  /\ Up(q) => /\ Up(r) /\ q.rxlog = r.rxlog /\ Base(q) = Base(r)
                       /\ Grows(r.txlog, q.txlog)
  BY DEF Goes, InSession, Joins, NoFrame

(* The frames of an action, on the wire. *)
LEMMA QueuedFrames ==
    ASSUME NEW r, NEW b, Queued(b, r)
    PROVE  /\ b.frames \in Seq(Frame) /\ OneBurst(b.frames)
           /\ \A i \in 1 .. Len(b.frames) : Sent(b.frames[i])
           /\ Quiet(b) => QuietWire(b.frames)
           /\ (\E i \in 1 .. Len(b.frames) : b.frames[i].type = "CALL") => Calls(b) /\ ~Up(r)
           /\ AllData(b.frames) => ~b.control
<1>1. CASE \E f \in Frame : b = Control(f) /\ QueuedControl(f, r)
  <2>1. PICK f \in Frame : b = Control(f) /\ QueuedControl(f, r)
    BY <1>1
  <2>2. /\ b.frames = <<f>> /\ b.control = TRUE
        /\ Len(<<f>>) = 1 /\ <<f>>[1] = f /\ <<f>> \in Seq(Frame)
        /\ \A i \in 1 .. Len(<<f>>) : <<f>>[i] = f
    BY <2>1 DEF Control
  <2> QED
    BY <2>1, <2>2 DEF QueuedControl, OneBurst, AllData, Quiet, QuietWire, Calls
<1>2. CASE ~b.control /\ QueuedData(b.frames, r)
  BY <1>2 DEF QueuedData, OneBurst, AllData, Quiet
<1> QED
  BY <1>1, <1>2 DEF Queued

(* One end keys up: it loses what it was receiving, and its peer, which has *)
(* nothing left to decode, gets its burst or, when it is keyed too, nothing. *)
KeyOf(r, q, y, v, w, b) ==
    /\ Good(r) /\ Good(y) /\ Goes(r, q, NoFrame) /\ (Up(r) => Up(q))
    /\ QueueOf(r) /\ b \in Actions(r)
    /\ w \in {<<>>, b.frames}
    /\ Pair(r, y, v, <<>>) /\ Pair(y, r, <<>>, v)

LEMMA KeyerPair ==
    ASSUME NEW r, NEW q, NEW y, NEW v, NEW w, NEW b, KeyOf(r, q, y, v, w, b)
    PROVE  Pair(q, y, <<>>, w)
<1> Good(q) /\ Good(r) /\ Good(y) /\ Queued(b, r)
  BY DEF KeyOf, Goes, QueueOf
<1>0. /\ r.txlog \in Seq(Nat) /\ q.txlog \in Seq(Nat) /\ y.rxlog \in Seq(Nat)
      /\ Len(q.txlog) \in Nat /\ Len(y.rxlog) \in Nat /\ BurstFrames \in Nat
      /\ Len(r.txlog) \in Nat
  BY Fields, WindowAssumption
<1>1. Up(q) => /\ Up(r) /\ q.rxlog = r.rxlog /\ Base(q) = Base(r)
               /\ Grows(r.txlog, q.txlog)
  BY NoFrameGoes DEF KeyOf
<1>2. Up(q) /\ Up(y) => Grows(y.rxlog, r.txlog)
  BY <1>1 DEF KeyOf, Pair, Prefix
<1>3. Prefix(q, y)
  BY <1>0, <1>1, <1>2, GrowsOn DEF Prefix
<1>4. NotYet(q, y, <<>>)
  <2>1. QuietWire(<<>>)
    BY DEF QuietWire
  <2> QED
    BY <1>1, <2>1 DEF KeyOf, Pair, NotYet
<1>5. Flow(q, y, w)
  <2> SUFFICES ASSUME Up(q), AllData(w)
               PROVE  \E k \in 0 .. Len(q.txlog) :
                         /\ RunAt(w, q.txlog, k)
                         /\ Up(y) => Len(y.rxlog) <= k + BurstFrames
    BY DEF Flow
  <2>1. Up(y) => Len(y.rxlog) <= Len(r.txlog)
    BY <1>2 DEF Grows
  <2>2. Len(r.txlog) <= Len(q.txlog)
    BY <1>1 DEF Grows
  <2>3. CASE w = <<>>
    <3>1. RunAt(w, q.txlog, Len(q.txlog)) /\ Len(q.txlog) \in 0 .. Len(q.txlog)
      BY <1>0, <2>3, RunEmpty
    <3>2. Up(y) => Len(y.rxlog) <= Len(q.txlog) + BurstFrames
      BY <1>0, <2>1, <2>2
    <3> QED
      BY <3>1, <3>2
  <2>4. CASE w = b.frames
    <3>1. PICK k \in Base(r) .. Len(r.txlog) : RunAt(w, r.txlog, k)
      <4>1. ~b.control
        BY <2>4, QueuedFrames
      <4>2. QueuedData(b.frames, r)
        BY <4>1 DEF Queued, Control
      <4> QED
        BY <1>1, <2>4, <4>2 DEF QueuedData
    <3>2. w \in Seq(Frame)
      BY <2>4, QueuedFrames
    <3>3. RunAt(w, q.txlog, k)
      BY <1>0, <1>1, <3>1, <3>2, RunGrows
    <3>4. /\ Base(r) \in Nat /\ Len(r.txlog) <= Base(r) + BurstFrames
      BY BaseType
    <3>5. k \in 0 .. Len(q.txlog) /\ (Up(y) => Len(y.rxlog) <= k + BurstFrames)
      BY <1>0, <2>1, <2>2, <3>4
    <3> QED
      BY <3>3, <3>5
  <2> QED
    BY <2>3, <2>4 DEF KeyOf
<1> QED
  BY <1>3, <1>4, <1>5 DEF Pair

LEMMA HearerPair ==
    ASSUME NEW r, NEW q, NEW y, NEW v, NEW w, NEW b, KeyOf(r, q, y, v, w, b)
    PROVE  Pair(y, q, w, <<>>)
<1> Good(q) /\ Good(r) /\ Good(y) /\ Queued(b, r)
  BY DEF KeyOf, Goes, QueueOf
<1>0. /\ y.txlog \in Seq(Nat) /\ Len(y.txlog) \in Nat /\ Len(r.rxlog) \in Nat
      /\ BurstFrames \in Nat
  BY Fields, WindowAssumption
<1>1. Up(q) => Up(r) /\ q.rxlog = r.rxlog
  BY NoFrameGoes DEF KeyOf
<1>2. Prefix(y, q)
  BY <1>1 DEF KeyOf, Pair, Prefix
<1>3. NotYet(y, q, w)
  <2> SUFFICES ASSUME ~Up(q)
               PROVE  /\ Resting(q) /\ QuietWire(w)
                      /\ Up(y) => y.rxlog = <<>> /\ Base(y) = 0
    BY DEF NotYet
  <2>1. ~Up(r) /\ Resting(r) /\ (Up(y) => y.rxlog = <<>> /\ Base(y) = 0)
    BY DEF KeyOf, Pair, NotYet
  <2>2. Resting(q)
    BY <2>1 DEF KeyOf, Goes, Resting
  <2>3. QuietWire(<<>>) /\ QuietWire(b.frames)
    BY <2>1, QueuedFrames DEF KeyOf, Resting, QuietWire
  <2> QED
    BY <2>1, <2>2, <2>3 DEF KeyOf
<1>4. Flow(y, q, <<>>)
  <2>1. RunAt(<<>>, y.txlog, Len(y.txlog)) /\ Len(y.txlog) \in 0 .. Len(y.txlog)
    BY <1>0, RunEmpty
  <2>2. Up(y) /\ Up(q) => Len(q.rxlog) <= Len(y.txlog) + BurstFrames
    <3>1. Up(y) /\ Up(q) => Len(r.rxlog) <= Len(y.txlog)
      BY <1>1 DEF KeyOf, Pair, Prefix, Grows
    <3> QED
      BY <1>0, <1>1, <3>1
  <2> QED
    BY <2>1, <2>2 DEF Flow
<1> QED
  BY <1>2, <1>3, <1>4 DEF Pair

(* The queue after a step that found it empty, and after one that did not. *)
LEMMA FreshQueued ==
    ASSUME NEW q, NEW b, Fresh(b, q)
    PROVE  Queued(b, q) /\ (Calls(b) => q.conn_state = "CALLING")
<1>1. ASSUME NEW f \in Frame, b = Control(f), FreshControl(f, q)
      PROVE  Queued(b, q) /\ (Calls(b) => q.conn_state = "CALLING")
  <2>1. QueuedControl(f, q)
    BY <1>1 DEF FreshControl, QueuedControl, Up
  <2> QED
    BY <1>1, <2>1 DEF Queued, Control, Calls, FreshControl
<1>2. ASSUME ~b.control, FreshData(b.frames, q)
      PROVE  Queued(b, q) /\ (Calls(b) => q.conn_state = "CALLING")
  <2>1. QueuedData(b.frames, q)
    BY <1>2 DEF FreshData, QueuedData, RunAt
  <2> QED
    BY <1>2, <2>1 DEF Queued, Calls
<1> QED
  BY <1>1, <1>2 DEF Fresh

LEMMA IdleQueue ==
    ASSUME NEW r, r.txq = <<>>, NEW q, NEW f, Moves(r, q, f)
    PROVE  QueueOf(q)
<1>1. Actions(r) = {}
  BY DEF Actions
<1>2. \A b \in Actions(q) : Fresh(b, q)
  BY <1>1 DEF Moves
<1>3. q.conn_state = "CALLING" => Resting(q)
  BY <1>2, FreshQuiet DEF Resting, Up
<1> QED
  BY <1>2, <1>3, FreshQueued DEF QueueOf

LEMMA QueuedOn ==
    ASSUME NEW r, Good(r), NEW q, Good(q), Goes(r, q, NoFrame), NEW b, Queued(b, r)
    PROVE  Queued(b, q)
<1>1. Up(q) => /\ Up(r) /\ q.rxlog = r.rxlog /\ Base(q) = Base(r)
               /\ Grows(r.txlog, q.txlog)
  BY NoFrameGoes
<1>2. ASSUME NEW f \in Frame, b = Control(f), QueuedControl(f, r)
      PROVE  Queued(b, q)
  <2>1. f.type = "CALL" => ~Up(q)
    BY <1>1, <1>2 DEF QueuedControl
  <2>2. QueuedControl(f, q)
    BY <1>1, <1>2, <2>1 DEF QueuedControl
  <2> QED
    BY <1>2, <2>2 DEF Queued
<1>3. ASSUME ~b.control, QueuedData(b.frames, r)
      PROVE  Queued(b, q)
  <2>1. ASSUME Up(q)
        PROVE  \E k \in Base(q) .. Len(q.txlog) : RunAt(b.frames, q.txlog, k)
    <3>1. PICK k \in Base(r) .. Len(r.txlog) : RunAt(b.frames, r.txlog, k)
      BY <1>1, <1>3, <2>1 DEF QueuedData
    <3>2. r.txlog \in Seq(Nat) /\ q.txlog \in Seq(Nat) /\ b.frames \in Seq(Frame)
      BY <1>3, Fields DEF QueuedData
    <3>3. RunAt(b.frames, q.txlog, k)
      BY <1>1, <2>1, <3>1, <3>2, RunGrows
    <3>4. Len(r.txlog) \in Nat /\ Len(q.txlog) \in Nat /\ Len(r.txlog) <= Len(q.txlog)
          /\ Base(r) \in Nat /\ Base(q) = Base(r)
      BY <1>1, <2>1, <3>2, BaseType DEF Grows
    <3>5. k \in Base(q) .. Len(q.txlog)
      BY <3>4
    <3> QED
      BY <3>3, <3>5
  <2> QED
    BY <1>3, <2>1 DEF Queued, QueuedData
<1> QED
  BY <1>2, <1>3 DEF Queued

LEMMA CarriedQueue ==
    ASSUME NEW r, Good(r), IdOf(r), NEW q, Good(q), Carries(q, r), QueueOf(r),
           ~Up(r) => Actions(q) \subseteq Actions(r)
    PROVE  QueueOf(q)
<1>1. Goes(r, q, NoFrame)
  BY CarriesGoes
<1>2. \A b \in Actions(q) : Queued(b, q)
  BY <1>1, QueuedOn, FreshQueued DEF Carries, QueueOf
<1>3. ASSUME NEW c \in Actions(q), Calls(c)
      PROVE  Resting(q)
  <2>1. ~Up(q)
    <3>1. PICK f \in Frame : c = Control(f) /\ QueuedControl(f, q)
      BY <1>2, <1>3 DEF Queued, Calls
    <3> QED
      BY <1>3, <3>1 DEF QueuedControl, Calls, Control
  <2>2. CASE ~Up(r)
    BY <1>3, <2>2 DEF QueueOf, Resting
  <2>3. CASE Up(r)
    <3>1. c \notin Actions(r)
      <4>1. c \in Actions(r) => \E f \in Frame : c = Control(f) /\ QueuedControl(f, r)
        BY <1>3 DEF QueueOf, Queued, Calls
      <4> QED
        BY <1>3, <2>3, <4>1 DEF QueuedControl, Calls, Control
    <3>2. q.conn_state = "CALLING"
      BY <1>3, <3>1, FreshQueued DEF Carries
    <3> QED
      BY <2>3, <3>2 DEF Carries, Stays, Up
  <2> QED
    BY <2>2, <2>3
<1> QED
  BY <1>2, <1>3 DEF QueueOf

LEMMA WroteQueue ==
    ASSUME NEW r, Good(r), NEW q, Wrote(r, q), QueueOf(r)
    PROVE  QueueOf(q)
<1>1. Actions(q) = Actions(r) /\ Goes(r, q, NoFrame) /\ Good(q)
  BY WroteGoes DEF Wrote, Actions
<1>2. \A b \in Actions(q) : Queued(b, q)
  BY <1>1, QueuedOn DEF QueueOf
<1> QED
  BY <1>1, <1>2 DEF QueueOf, Resting

-----------------------------------------------------------------------------
(* The invariant of the link *)

(* Both ends have the id of one session that neither has been out of.  Of a *)
(* call that is being set up this holds too.                                *)
Share(a, b) ==
    st[a].session_id = st[b].session_id /\ st[a].session_id \notin ended[a] \cup ended[b]

CallOn(v) == \E i \in 1 .. Len(v) : v[i].type = "CALL"

LinkTypes ==
    /\ AllGood /\ onair \in [Station -> Seq(Frame)]
    /\ wire \in [Station -> Seq(Frame)] /\ ended \in [Station -> SUBSET Nat]

(* Each station, and each wire *)
StationInv(s) ==
    /\ IdOf(st[s]) /\ Asks(st[s]) /\ QueueOf(st[s])
    /\ Load(st[s]) <= st[s].written /\ st[s].written <= MaxUnits[s]

WireInv(s) == OneBurst(wire[s]) /\ \A i \in 1 .. Len(wire[s]) : Sent(wire[s][i])

(* The two of them *)
ChannelInv(a, b) ==
    /\ wire[a] = <<>> \/ wire[b] = <<>>
    /\ CallOn(wire[b]) => ~Up(st[a]) /\ Resting(st[a])
    /\ Share(a, b) => Pair(st[a], st[b], wire[a], wire[b])

LinkInv ==
    /\ LinkTypes
    /\ \A s \in Station : StationInv(s) /\ WireInv(s)
    /\ \A a, b \in Station : a # b => ChannelInv(a, b)

(* What a call's id has been checked for. *)
NewId(s, p) ==
    st'[s].conn_state = "CALLING" /\ st[s].conn_state # "CALLING" =>
        st'[s].session_id > st[p].session_id

LEMMA NewIdApart ==
    ASSUME NEW m \in Nat, NEW n \in Nat, m > n
    PROVE  m # n
  OBVIOUS

(* Station s steps, and its peer p does not. *)
StepFacts(s, p) ==
    /\ LinkInv /\ s # p /\ s \in Station /\ p \in Station /\ Station = {s, p}
    /\ AllGood' /\ onair' \in [Station -> Seq(Frame)] /\ st'[p] = st[p] /\ RecordEnds

LEMMA EndsAre ==
    ASSUME NEW s, NEW p, StepFacts(s, p), Share(s, p)', NEW f, Goes(st[s], st'[s], f)
    PROVE  /\ Up(st[s]) => Up(st'[s])
           /\ ended'[s] = ended[s] /\ ended'[p] = ended[p]
           /\ st'[s].session_id = st[s].session_id => Share(s, p)
<1>1. ended'[p] = ended[p]
  BY DEF StepFacts, RecordEnds, Leaves, InConn
<1>2. Up(st[s]) => Up(st'[s])
  <2> SUFFICES ASSUME Up(st[s]), ~Up(st'[s]) PROVE FALSE
    OBVIOUS
  <2>1. st'[s].session_id = st[s].session_id
    BY DEF Goes
  <2>2. st[s].session_id \in ended'[s]
    BY DEF StepFacts, RecordEnds, Leaves, InConn, Up
  <2> QED
    BY <2>1, <2>2 DEF Share
<1>3. ended'[s] = ended[s]
  BY <1>2 DEF StepFacts, RecordEnds, Leaves, InConn, Up
<1>4. st'[s].session_id = st[s].session_id => Share(s, p)
  BY <1>1, <1>3 DEF Share, StepFacts
<1> QED
  BY <1>1, <1>2, <1>3, <1>4

(* What station s does, with the frame f or none. *)
Does(s, f) ==
    \/ Moves(st[s], st'[s], f)
    \/ f = NoFrame /\ Wrote(st[s], st'[s]) /\ st[s].written < MaxUnits[s]

(* A step that takes a frame from the wire or leaves it as it is. *)
TakeFacts(s, p, f) ==
    /\ StepFacts(s, p) /\ Does(s, f)
    /\ IdOf(st'[s]) /\ Asks(st'[s]) /\ QueueOf(st'[s])
    /\ Load(st'[s]) <= st'[s].written /\ st'[s].written <= MaxUnits[s]
    /\ Goes(st[s], st'[s], f)
    /\ Takes(wire[s], wire'[s], f) /\ wire' = [wire EXCEPT ![s] = wire'[s]]
    /\ f # NoFrame => st[s].txq = <<>>
    /\ f = NoFrame => NewId(s, p)

AllTold ==
    \A a, b \in Station :
        a # b /\ Share(a, b) /\ Up(st[a]) /\ Up(st[b]) => Told(st[a], st[b])

(* The two stations as an end that steps and one that does not. *)
LEMMA TakeStep ==
    ASSUME NEW s, NEW p, NEW f, TakeFacts(s, p, f), Share(s, p)',
           st'[s].session_id = st[s].session_id
    PROVE  /\ Share(s, p) /\ Share(p, s)
           /\ StepOf(st[s], st'[s], st[p], wire[s], wire'[s], wire[p], f)
<1> DEFINE v == wire[s]
           u == wire'[s]
<1>0. /\ s \in Station /\ p \in Station /\ s # p /\ LinkInv
      /\ Good(st[s]) /\ Good(st[p]) /\ v \in Seq(Frame) /\ wire[p] \in Seq(Frame)
  <2>1. s \in Station /\ p \in Station /\ s # p /\ LinkInv
    BY DEF TakeFacts, StepFacts
  <2> QED
    BY <2>1, StationGood DEF LinkInv, LinkTypes
<1>1. Up(st[s]) => Up(st'[s])
  BY EndsAre DEF TakeFacts
<1>2. ChannelInv(s, p) /\ ChannelInv(p, s) /\ WireInv(s)
  BY <1>0 DEF LinkInv
<1>3. u \in Seq(Frame)
  <2>1. v # <<>> => Tail(v) \in Seq(Frame)
    BY <1>0, TailIs
  <2>2. u = v \/ (v # <<>> /\ u = Tail(v))
    BY DEF TakeFacts, Takes
  <2> QED
    BY <1>0, <2>1, <2>2
<1>4. Share(s, p) /\ Share(p, s)
  BY EndsAre DEF TakeFacts, Share
<1>5. /\ Pair(st[s], st[p], v, wire[p]) /\ Pair(st[p], st[s], wire[p], v)
      /\ v = <<>> \/ wire[p] = <<>>
  BY <1>2, <1>4 DEF ChannelInv
<1> QED
  BY <1>0, <1>1, <1>2, <1>3, <1>4, <1>5 DEF StepOf, TakeFacts, WireInv

LEMMA TakePair ==
    ASSUME NEW s, NEW p, NEW f, TakeFacts(s, p, f), AllTold, Share(s, p)'
    PROVE  /\ Pair(st'[s], st'[p], wire'[s], wire'[p])
           /\ Pair(st'[p], st'[s], wire'[p], wire'[s])
<1> DEFINE r == st[s]
           q == st'[s]
           y == st[p]
           v == wire[s]
           u == wire'[s]
           w == wire[p]
<1>0. /\ s \in Station /\ p \in Station /\ s # p /\ LinkInv /\ Good(r) /\ Good(q) /\ Good(y)
      /\ v \in Seq(Frame) /\ w \in Seq(Frame) /\ wire'[p] = w /\ st'[p] = y
  <2>1. /\ s \in Station /\ p \in Station /\ s # p /\ LinkInv /\ Good(q)
        /\ wire'[p] = w /\ st'[p] = y
    BY DEF TakeFacts, StepFacts, LinkInv, LinkTypes, Goes
  <2> QED
    BY <2>1, StationGood DEF LinkInv, LinkTypes
<1>1. Up(r) => Up(q)
  BY EndsAre DEF TakeFacts
<1>2. ChannelInv(s, p) /\ ChannelInv(p, s) /\ WireInv(s)
  BY <1>0 DEF LinkInv
<1>4. CASE q.session_id = r.session_id
  <2>1. Share(p, s) /\ StepOf(r, q, y, v, u, w, f)
    BY <1>4, TakeStep
  <2>2. Up(r) /\ Up(y) => Told(y, r)
    BY <1>0, <2>1 DEF AllTold
  <2> HIDE DEF r, q, y, v, u, w
  <2>3. Pair(q, y, u, w) /\ Pair(y, q, w, u)
    BY <2>1, <2>2, SenderPair, ReceiverPair
  <2> QED
    BY <1>0, <2>3 DEF q, u
<1>5. CASE q.session_id # r.session_id
  <2>1. ~Up(r) /\ ~Up(q) /\ Apart(r, q, f)
    BY <1>1, <1>5 DEF TakeFacts, Goes, Joins
  <2>2. ~ (f = NoFrame /\ q.conn_state = "CALLING" /\ r.conn_state # "CALLING")
    <3>1. q.session_id = y.session_id /\ q.session_id \in Nat /\ y.session_id \in Nat
      BY <1>0, Fields DEF Share
    <3> QED
      BY <3>1, NewIdApart DEF TakeFacts, NewId
  <2>3. f.type = "CALL" /\ q.txq = r.txq
    BY <1>5, <2>1, <2>2 DEF Apart
  <2>4. f # NoFrame /\ v # <<>> /\ u = Tail(v) /\ f = Head(v)
    BY <2>3 DEF TakeFacts, Takes, NoFrame
  <2>5. 1 \in 1 .. Len(v) /\ v[1].type = "CALL" /\ Tail(v) \in Seq(Frame)
        /\ Len(Tail(v)) = Len(v) - 1
    BY <1>0, <2>3, <2>4, TailIs
  <2>6. Len(v) = 1 /\ CallOn(v)
    BY <1>2, <2>5 DEF WireInv, OneBurst, AllData, CallOn
  <2>7. u = <<>>
    <3>1. \A t \in Seq(Frame) : Len(t) = 0 => t = <<>>
      OBVIOUS
    <3>2. Len(Tail(v)) = 0
      BY <2>5, <2>6
    <3> QED
      BY <2>4, <2>5, <3>1, <3>2
  <2>8. w = <<>> /\ ~Up(y) /\ Resting(y)
    BY <1>2, <2>4, <2>6 DEF ChannelInv
  <2>9. Resting(q)
    <3>1. Actions(q) = {}
      BY <2>3, <2>4 DEF TakeFacts, Actions
    <3> QED
      BY <3>1 DEF Resting
  <2>10. QuietWire(<<>>)
    BY DEF QuietWire
  <2> QED
    BY <1>0, <2>1, <2>7, <2>8, <2>9, <2>10 DEF Pair, NotYet, Flow, Prefix
<1> QED
  BY <1>4, <1>5

LEMMA EndedType ==
    ASSUME NEW s, NEW p, StepFacts(s, p)
    PROVE  ended' \in [Station -> SUBSET Nat]
<1>1. \A t \in Station : st[t].session_id \in Nat
  BY StationGood, Fields DEF StepFacts, LinkInv, LinkTypes
<1>2. \A t \in Station : ended[t] \in SUBSET Nat
  BY DEF StepFacts, LinkInv, LinkTypes
<1> QED
  BY <1>1, <1>2 DEF StepFacts, RecordEnds

LEMMA TakesKeeps ==
    ASSUME NEW v \in Seq(Frame), NEW u, NEW f, Takes(v, u, f)
    PROVE  /\ u \in Seq(Frame)
           /\ v = <<>> => u = <<>> /\ f = NoFrame
           /\ OneBurst(v) => OneBurst(u)
           /\ CallOn(u) => CallOn(v)
           /\ (\A i \in 1 .. Len(v) : Sent(v[i])) => \A i \in 1 .. Len(u) : Sent(u[i])
           /\ f # NoFrame => v # <<>> /\ f = v[1] /\ 1 \in 1 .. Len(v)
<1>1. CASE u = v /\ f = NoFrame
  BY <1>1
<1>2. CASE v # <<>> /\ u = Tail(v) /\ f \in {Head(v), NoFrame}
  <2>1. /\ u \in Seq(Frame) /\ Len(u) = Len(v) - 1 /\ Head(v) = v[1] /\ Len(v) > 0
        /\ \A i \in 1 .. Len(u) : u[i] = v[i + 1] /\ i + 1 \in 1 .. Len(v)
        /\ Len(v) \in Nat
    BY <1>2, TailIs
  <2>2. OneBurst(v) => OneBurst(u)
    <3>1. CASE AllData(v)
      BY <2>1, <3>1 DEF OneBurst, AllData
    <3>2. CASE Len(v) = 1
      <4>1. \A i \in 1 .. Len(u) : FALSE
        BY <2>1, <3>2
      <4> QED
        BY <4>1 DEF OneBurst, AllData
    <3> QED
      BY <3>1, <3>2 DEF OneBurst
  <2>3. CallOn(u) => CallOn(v)
    BY <2>1 DEF CallOn
  <2>4. 1 \in 1 .. Len(v)
    BY <2>1
  <2> QED
    BY <1>2, <2>1, <2>2, <2>3, <2>4
<1> QED
  BY <1>1, <1>2 DEF Takes

(* The same conclusion for the pairs in both orders is the invariant. *)
LEMMA BothWays ==
    ASSUME NEW s, NEW p, StepFacts(s, p), LinkTypes',
           StationInv(s)', StationInv(p)', WireInv(s)', WireInv(p)',
           ChannelInv(s, p)', ChannelInv(p, s)'
    PROVE  LinkInv'
  BY DEF StepFacts, LinkInv

LEMMA TakeSafe ==
    ASSUME NEW s, NEW p, NEW f, TakeFacts(s, p, f), AllTold
    PROVE  LinkInv'
<1>0. /\ s \in Station /\ p \in Station /\ s # p /\ LinkInv /\ st'[p] = st[p]
      /\ wire' = [wire EXCEPT ![s] = wire'[s]] /\ Takes(wire[s], wire'[s], f)
  BY DEF TakeFacts, StepFacts
<1>1. /\ wire[s] \in Seq(Frame) /\ wire[p] \in Seq(Frame)
      /\ wire \in [Station -> Seq(Frame)] /\ wire'[p] = wire[p]
  BY <1>0 DEF LinkInv, LinkTypes
<1>2. /\ wire'[s] \in Seq(Frame)
      /\ wire[s] = <<>> => wire'[s] = <<>> /\ f = NoFrame
      /\ OneBurst(wire[s]) => OneBurst(wire'[s])
      /\ CallOn(wire'[s]) => CallOn(wire[s])
      /\ (\A i \in 1 .. Len(wire[s]) : Sent(wire[s][i]))
            => \A i \in 1 .. Len(wire'[s]) : Sent(wire'[s][i])
  BY <1>0, <1>1, TakesKeeps
<1>3. /\ WireInv(s) /\ WireInv(p) /\ StationInv(p)
      /\ ChannelInv(s, p) /\ ChannelInv(p, s)
  BY <1>0 DEF LinkInv
<1>4. LinkTypes'
  <2>1. wire' \in [Station -> Seq(Frame)]
    BY <1>0, <1>1, <1>2
  <2>2. ended' \in [Station -> SUBSET Nat]
    BY EndedType DEF TakeFacts
  <2> QED
    BY <2>1, <2>2 DEF TakeFacts, StepFacts, LinkTypes
<1>5. StationInv(s)' /\ StationInv(p)'
  BY <1>0, <1>3 DEF StationInv, TakeFacts
<1>6. WireInv(s)' /\ WireInv(p)'
  BY <1>1, <1>2, <1>3 DEF WireInv
<1>7. ChannelInv(s, p)'
  <2>1. wire'[s] = <<>> \/ wire'[p] = <<>>
    BY <1>1, <1>2, <1>3 DEF ChannelInv
  <2>2. ASSUME CallOn(wire'[p])
        PROVE  ~Up(st'[s]) /\ Resting(st'[s])
    <3>1. CallOn(wire[p])
      BY <1>1, <2>2
    <3>2. wire[p] # <<>>
      <4>1. \A i \in 1 .. Len(<<>>) : FALSE
        OBVIOUS
      <4> QED
        BY <3>1, <4>1 DEF CallOn
    <3>3. f = NoFrame
      BY <1>2, <1>3, <3>2 DEF ChannelInv
    <3>4. ~Up(st[s]) /\ Resting(st[s])
      BY <1>3, <3>1 DEF ChannelInv
    <3>5. Goes(st[s], st'[s], NoFrame)
      BY <3>3 DEF TakeFacts
    <3>6. ~Up(st'[s])
      BY <3>4, <3>5, NoFrameGoes
    <3> QED
      BY <3>4, <3>5, <3>6 DEF Goes, Resting
  <2>3. Share(s, p)' => Pair(st'[s], st'[p], wire'[s], wire'[p])
    BY TakePair
  <2> QED
    BY <2>1, <2>2, <2>3 DEF ChannelInv, CallOn
<1>8. ChannelInv(p, s)'
  <2>1. wire'[s] = <<>> \/ wire'[p] = <<>>
    BY <1>1, <1>2, <1>3 DEF ChannelInv
  <2>2. CallOn(wire'[s]) => ~Up(st'[p]) /\ Resting(st'[p])
    BY <1>0, <1>2, <1>3 DEF ChannelInv
  <2>3. Share(p, s)' => Pair(st'[p], st'[s], wire'[p], wire'[s])
    <3>1. Share(p, s)' => Share(s, p)'
      BY DEF Share
    <3> QED
      BY <3>1, TakePair
  <2> QED
    BY <2>1, <2>2, <2>3 DEF ChannelInv, CallOn
<1> QED
  BY <1>4, <1>5, <1>6, <1>7, <1>8, BothWays DEF TakeFacts

(* Station s keys up with action b. *)
KeyFacts(s, p, b) ==
    /\ StepFacts(s, p) /\ StationInv(s)' /\ Does(s, NoFrame)
    /\ Goes(st[s], st'[s], NoFrame) /\ st'[s].session_id = st[s].session_id
    /\ b \in Actions(st[s])
    /\ wire[p] = <<>> /\ wire'[s] = <<>> /\ wire'[p] \in {<<>>, b.frames}
    /\ wire' = [wire EXCEPT ![s] = wire'[s], ![p] = wire'[p]]

LEMMA KeyStep ==
    ASSUME NEW s, NEW p, NEW b, KeyFacts(s, p, b), Share(s, p)'
    PROVE  /\ Share(s, p) /\ Share(p, s)
           /\ KeyOf(st[s], st'[s], st[p], wire[s], wire'[p], b)
<1>1. Share(s, p) /\ Share(p, s) /\ (Up(st[s]) => Up(st'[s]))
  BY EndsAre DEF KeyFacts, Share
<1>2. /\ Good(st[s]) /\ Good(st[p]) /\ QueueOf(st[s])
      /\ ChannelInv(s, p) /\ ChannelInv(p, s)
  <2>1. LinkInv /\ s \in Station /\ p \in Station /\ s # p
    BY DEF KeyFacts, StepFacts
  <2> QED
    BY <2>1, StationGood DEF LinkInv, LinkTypes, StationInv
<1>3. Pair(st[s], st[p], wire[s], <<>>) /\ Pair(st[p], st[s], <<>>, wire[s])
  BY <1>1, <1>2 DEF ChannelInv, KeyFacts
<1> QED
  BY <1>1, <1>2, <1>3 DEF KeyOf, KeyFacts

LEMMA KeyPair ==
    ASSUME NEW s, NEW p, NEW b, KeyFacts(s, p, b), Share(s, p)'
    PROVE  /\ Pair(st'[s], st'[p], wire'[s], wire'[p])
           /\ Pair(st'[p], st'[s], wire'[p], wire'[s])
<1>1. KeyOf(st[s], st'[s], st[p], wire[s], wire'[p], b)
  BY KeyStep
<1>2. st'[p] = st[p] /\ wire'[s] = <<>>
  BY DEF KeyFacts, StepFacts
<1> QED
  BY <1>1, <1>2, KeyerPair, HearerPair

LEMMA KeySafe ==
    ASSUME NEW s, NEW p, NEW b, KeyFacts(s, p, b)
    PROVE  LinkInv'
<1>0. /\ s \in Station /\ p \in Station /\ s # p /\ LinkInv /\ st'[p] = st[p]
      /\ wire'[s] = <<>> /\ wire'[p] \in {<<>>, b.frames}
  BY DEF KeyFacts, StepFacts
<1>1. /\ WireInv(s) /\ WireInv(p) /\ StationInv(s) /\ StationInv(p)
      /\ wire \in [Station -> Seq(Frame)]
  BY <1>0 DEF LinkInv, LinkTypes
<1>2. /\ b.frames \in Seq(Frame) /\ OneBurst(b.frames)
      /\ \A i \in 1 .. Len(b.frames) : Sent(b.frames[i])
      /\ CallOn(b.frames) => Calls(b) /\ ~Up(st[s])
  <2>1. Queued(b, st[s])
    BY <1>1 DEF StationInv, QueueOf, KeyFacts
  <2> QED
    BY <2>1, QueuedFrames DEF CallOn
<1>3. /\ <<>> \in Seq(Frame) /\ OneBurst(<<>>) /\ ~CallOn(<<>>)
      /\ \A i \in 1 .. Len(<<>>) : Sent(<<>>[i])
  <2>1. \A i \in 1 .. Len(<<>>) : FALSE
    OBVIOUS
  <2> QED
    BY <2>1 DEF OneBurst, AllData, CallOn
<1>4. LinkTypes'
  <2>1. wire' \in [Station -> Seq(Frame)]
    BY <1>0, <1>1, <1>2, <1>3 DEF KeyFacts
  <2>2. ended' \in [Station -> SUBSET Nat]
    BY EndedType DEF KeyFacts
  <2> QED
    BY <2>1, <2>2 DEF KeyFacts, StepFacts, LinkTypes
<1>5. StationInv(s)' /\ StationInv(p)'
  BY <1>0, <1>1 DEF StationInv, KeyFacts
<1>6. WireInv(s)' /\ WireInv(p)'
  BY <1>0, <1>2, <1>3 DEF WireInv
<1>7. ChannelInv(s, p)'
  <2>1. ASSUME CallOn(wire'[p])
        PROVE  ~Up(st'[s]) /\ Resting(st'[s])
    <3>1. Calls(b) /\ ~Up(st[s])
      BY <1>0, <1>2, <1>3, <2>1
    <3>2. Resting(st[s])
      BY <1>1, <3>1 DEF KeyFacts, StationInv, QueueOf
    <3>3. ~Up(st'[s])
      BY <3>1, NoFrameGoes DEF KeyFacts
    <3> QED
      BY <3>2, <3>3 DEF KeyFacts, Goes, Resting
  <2>2. Share(s, p)' => Pair(st'[s], st'[p], wire'[s], wire'[p])
    BY KeyPair
  <2> QED
    BY <1>0, <2>1, <2>2 DEF ChannelInv, CallOn
<1>8. ChannelInv(p, s)'
  <2>1. ~CallOn(wire'[s])
    BY <1>0, <1>3
  <2>2. Share(p, s)' => Pair(st'[p], st'[s], wire'[p], wire'[s])
    <3>1. Share(p, s)' => Share(s, p)'
      BY DEF Share
    <3> QED
      BY <3>1, KeyPair
  <2> QED
    BY <1>0, <2>1, <2>2 DEF ChannelInv, CallOn
<1> QED
  BY <1>4, <1>5, <1>6, <1>7, <1>8, BothWays DEF KeyFacts

-----------------------------------------------------------------------------
(* No step of one station changes the other. *)

Others(s) == \A t \in Station : t # s => st'[t] = st[t]

LEMMA BecomeOthers ==
    ASSUME AllGood, NEW s \in Station, NEW r, Become(s, r)
    PROVE  Others(s)
  BY DEF AllGood, Become, Others

LEMMA CommandOthers ==
    ASSUME AllGood, NEW s \in Station, Command(s)
    PROVE  Others(s)
  BY BecomeOthers DEF Command, HostListen, HostStopListen, HostConnect, HostDisconnect,
     HostClientGone, HostAbort, HostCq

LEMMA HandleFrameOthers ==
    ASSUME AllGood, NEW s \in Station, NEW f, HandleFrame(s, f)
    PROVE  Others(s)
<1>1. CASE \/ ListeningRxCall(s, f) \/ ListeningRxAccept(s, f) \/ ListeningRxTraffic(s, f)
           \/ AcceptingRxTraffic(s, f) \/ AcceptingRxCall(s, f)
           \/ ConnectedRxAccept(s, f) \/ ConnectedRxDisconnect(s, f)
  BY <1>1, BecomeOthers DEF ListeningRxCall, ListeningRxAccept, ListeningRxTraffic,
     AcceptingRxTraffic, AcceptingRxCall, ConnectedRxAccept, ConnectedRxDisconnect
<1>2. CASE \/ DisconnectingRxDisconnect(s, f) \/ ConnectedRxKeepalive(s, f)
           \/ RxTurnReq(s, f) \/ RxData(s, f) \/ RxModeReq(s, f)
           \/ \E burst \in BurstSizes : WaitAckRxData(s, f, burst)
  BY <1>2, BecomeOthers DEF DisconnectingRxDisconnect, ConnectedRxKeepalive, RxTurnReq, RxData,
     RxModeReq, WaitAckRxData
<1>3. CASE \E wanted \in PayloadModes :
              \/ CallingRxAccept(s, f, wanted) \/ WaitAckRxAck(s, f, wanted)
              \/ TurnReqRxTurnAck(s, f, wanted) \/ KeepaliveWaitRx(s, f, wanted)
              \/ ModeReqRxModeAck(s, f, wanted)
  BY <1>3, BecomeOthers DEF CallingRxAccept, WaitAckRxAck, TurnReqRxTurnAck, KeepaliveWaitRx,
     ModeReqRxModeAck
<1> QED
  BY <1>1, <1>2, <1>3 DEF HandleFrame

LEMMA HandleTimerOthers ==
    ASSUME AllGood, NEW s \in Station, HandleTimer(s)
    PROVE  Others(s)
<1>1. CASE \/ CallingRetry(s) \/ AcceptingRetry(s)
           \/ DisconnectingGuardOver(s) \/ DisconnectingRetry(s)
           \/ DataRxGuardOver(s) \/ AckTxConfirm(s)
           \/ \E quiet \in BOOLEAN : IdleIrsPeerBacklog(s, quiet)
  BY <1>1, BecomeOthers DEF CallingRetry, AcceptingRetry, DisconnectingGuardOver,
     DisconnectingRetry, DataRxGuardOver, AckTxConfirm, IdleIrsPeerBacklog
<1>2. CASE \E burst \in BurstSizes : DataTxGuardOver(s, burst) \/ WaitAckRetransmit(s, burst)
  BY <1>2, BecomeOthers DEF DataTxGuardOver, WaitAckRetransmit
<1>3. CASE \E burst \in BurstSizes, wanted \in PayloadModes, dead \in BOOLEAN :
              WaitAckExhausted(s, dead, burst, wanted)
  BY <1>3, BecomeOthers DEF WaitAckExhausted
<1>4. CASE \/ TurnReqRetry(s) \/ TurnAckGuardOver(s)
           \/ KeepaliveMiss(s) \/ KeepaliveAckGuardOver(s)
           \/ ModeAckGuardOver(s) \/ ModeReqRetry(s) \/ TimerUnhandled(s)
  BY <1>4, BecomeOthers DEF TurnReqRetry, TurnAckGuardOver, KeepaliveMiss,
     KeepaliveAckGuardOver, ModeAckGuardOver, ModeReqRetry, TimerUnhandled
<1> QED
  BY <1>1, <1>2, <1>3, <1>4 DEF HandleTimer

LEMMA OnTxCompleteOthers ==
    ASSUME AllGood, NEW s \in Station, OnTxComplete(s)
    PROVE  Others(s)
<1>1. CASE \/ ForcedTeardown(s)
           \/ DisconnectedTxComplete(s) \/ AcceptingTxComplete(s)
           \/ DataTxComplete(s) \/ TurnReqTxComplete(s) \/ GaveTurnTxComplete(s)
           \/ KeepaliveTxComplete(s)
  BY <1>1, BecomeOthers DEF ForcedTeardown, DisconnectedTxComplete, AcceptingTxComplete,
     DataTxComplete, TurnReqTxComplete, GaveTurnTxComplete, KeepaliveTxComplete
<1>2. CASE \/ \E burst \in BurstSizes : ModeReqTxComplete(s, burst)
           \/ \E wanted \in PayloadModes : KeepaliveAckTxComplete(s, wanted)
           \/ \E burst \in BurstSizes, wanted \in PayloadModes : AckTxComplete(s, burst, wanted)
  BY <1>2, BecomeOthers DEF ModeReqTxComplete, KeepaliveAckTxComplete, AckTxComplete
<1>3. CASE TxCompleteIgnored(s)
  BY <1>3 DEF TxCompleteIgnored, Others
<1> QED
  BY <1>1, <1>2, <1>3 DEF OnTxComplete, HandleTxComplete

LEMMA LocalOthers ==
    ASSUME AllGood, NEW s \in Station,
           \/ HostWrite(s) \/ OnTimer(s) \/ OnDataReady(s) \/ DrainDeadlinePasses(s)
           \/ TxStart(s) \/ \E f : OnFrame(s, f)
    PROVE  Others(s)
<1>1. CASE HostWrite(s) \/ DrainDeadlinePasses(s) \/ ForcedTeardown(s)
  BY <1>1, BecomeOthers DEF HostWrite, DrainDeadlinePasses, ForcedTeardown
<1>2. CASE OnTimer(s)
  BY <1>1, <1>2, HandleTimerOthers DEF OnTimer
<1>3. CASE OnDataReady(s)
  BY <1>3, BecomeOthers DEF OnDataReady, HandleDataReady, IdleIssDataReady, IdleIrsDataReady,
     DataReadyIgnored
<1>4. CASE TxStart(s)
  BY <1>4, BecomeOthers DEF TxStart
<1>5. ASSUME NEW f, OnFrame(s, f) PROVE Others(s)
  BY <1>1, <1>5, HandleFrameOthers DEF OnFrame
<1> QED
  BY <1>1, <1>2, <1>3, <1>4, <1>5

-----------------------------------------------------------------------------
(* The steps of the link *)

(* What is common to the steps of a station. *)
LEMMA StepIs ==
    ASSUME LinkInv, NEW s \in Station, NEW p \in Station, s # p, Station = {s, p}, RecordEnds,
           AllGood', onair' \in [Station -> Seq(Frame)], Others(s)
    PROVE  /\ StepFacts(s, p) /\ Able(s) /\ StationInv(s)
           /\ Good(st[s]) /\ Good(st'[s])
<1>1. StationInv(s) /\ AllGood
  BY DEF LinkInv, LinkTypes
<1>2. Able(s)
  BY <1>1 DEF Able, StationInv
<1>3. Good(st[s]) /\ Good(st'[s])
  BY <1>1, StationGood DEF AllGood, WindowIsTail, Good
<1> QED
  BY <1>1, <1>2, <1>3 DEF StepFacts, Others

LEMMA Idle ==
    ASSUME TxqBound = 1, NEW s, Good(st[s]), TxRoom(s)
    PROVE  st[s].txq = <<>>
<1>1. st[s].txq \in Seq(Burst)
  BY Fields
<1>2. \A t \in Seq(Burst) : Len(t) < 1 => t = <<>>
  OBVIOUS
<1> QED
  BY <1>1, <1>2 DEF TxRoom

LEMMA MovesFacts ==
    ASSUME NEW r, Good(r), NEW q, NEW f, Moves(r, q, f), NEW m \in Nat,
           Load(r) <= r.written, r.written <= m
    PROVE  IdOf(q) /\ Asks(q) /\ Goes(r, q, f) /\ Load(q) <= q.written /\ q.written <= m
<1>1. Good(q) /\ q.written = r.written /\ Load(q) <= Load(r) /\ IdOf(q) /\ Asks(q)
  BY DEF Moves
<1>2. Load(r) \in Nat /\ Load(q) \in Nat /\ r.written \in Nat
  BY <1>1, LoadType, Fields
<1> QED
  BY <1>1, <1>2, MovesGoes

LEMMA WroteFacts ==
    ASSUME NEW r, Good(r), IdOf(r), Asks(r), NEW q, Wrote(r, q), NEW m \in Nat,
           Load(r) <= r.written, r.written < m
    PROVE  IdOf(q) /\ Asks(q) /\ Goes(r, q, NoFrame) /\ Load(q) <= q.written /\ q.written <= m
<1>1. IdOf(q) /\ Asks(q)
  BY DEF Wrote, IdOf, Asks, Up
<1>2. Load(r) \in Nat /\ r.written \in Nat
  BY LoadType, Fields
<1>3. Load(q) = Load(r) + 1 /\ q.written = r.written + 1
  BY DEF Wrote
<1> QED
  BY <1>1, <1>2, <1>3, WroteGoes

(* A step that takes no frame. *)
LEMMA AloneGood ==
    ASSUME AllGood, onair \in [Station -> Seq(Frame)], NEW s \in Station, Alone(s)
    PROVE  AllGood' /\ onair' \in [Station -> Seq(Frame)] /\ Others(s)
<1>1. CASE LinkCommand(s)
  BY <1>1, CommandGood, CommandOthers DEF LinkCommand, HostCommand
<1>2. CASE HostData(s)
  BY <1>2, HostWriteGood, LocalOthers DEF HostData
<1>3. CASE Timer(s)
  BY <1>3, OnTimerGood, LocalOthers DEF Timer
<1>4. CASE DataReady(s)
  BY <1>4, OnDataReadyGood, LocalOthers DEF DataReady
<1>5. CASE DrainOver(s)
  BY <1>5, DrainDeadlinePassesGood, LocalOthers DEF DrainOver
<1>6. CASE TxEnd(s)
  <2>1. <<>> \in Seq(Frame)
    OBVIOUS
  <2> QED
    BY <1>6, <2>1, OnTxCompleteGood, OnTxCompleteOthers DEF TxEnd
<1> QED
  BY <1>1, <1>2, <1>3, <1>4, <1>5, <1>6 DEF Alone

(* What the invariant needs to know of such a step. *)
Fares(s, p) ==
    /\ IdOf(st'[s]) /\ Asks(st'[s]) /\ QueueOf(st'[s])
    /\ Load(st'[s]) <= st'[s].written /\ st'[s].written <= MaxUnits[s]
    /\ Goes(st[s], st'[s], NoFrame) /\ NewId(s, p) /\ Does(s, NoFrame)

LEMMA CarriesFares ==
    ASSUME NEW s \in Station, NEW p, Able(s), StationInv(s), Good(st[s]), Good(st'[s]),
           Carries(st'[s], st[s]), QueueOf(st'[s])
    PROVE  Fares(s, p)
<1>1. Moves(st[s], st'[s], NoFrame)
  BY CarriesMoves DEF Able
<1>2. MaxUnits[s] \in Nat
  BY BoundAssumption
<1>3. NewId(s, p)
  BY DEF Carries, Stays, NewId
<1> QED
  BY <1>1, <1>2, <1>3, MovesFacts DEF Fares, StationInv, Does

LEMMA AloneFares ==
    ASSUME TxqBound = 1, NEW s \in Station, NEW p \in Station, Able(s), StationInv(s),
           Good(st[s]), Good(st'[s]), Alone(s)
    PROVE  Fares(s, p)
<1>0. IdOf(st[s]) /\ Asks(st[s]) /\ QueueOf(st[s]) /\ MaxUnits[s] \in Nat
      /\ Load(st[s]) <= st[s].written /\ st[s].written <= MaxUnits[s]
  BY BoundAssumption DEF StationInv
<1>1. CASE LinkCommand(s)
  <2>1. Moves(st[s], st'[s], NoFrame) /\ st[s].txq = <<>>
    BY <1>1, CommandMoves, Idle DEF LinkCommand, HostCommand
  <2>2. QueueOf(st'[s])
    BY <2>1, IdleQueue
  <2>3. NewId(s, p)
    BY <1>1 DEF LinkCommand, FreshCall, NewId, InConn
  <2> QED
    BY <1>0, <2>1, <2>2, <2>3, MovesFacts DEF Fares, Does
<1>2. CASE HostData(s)
  <2>1. Wrote(st[s], st'[s]) /\ st[s].written < MaxUnits[s]
    BY <1>2, HostWriteMoves DEF HostData
  <2>2. QueueOf(st'[s])
    BY <1>0, <2>1, WroteQueue
  <2>3. NewId(s, p)
    BY <2>1 DEF Wrote, NewId
  <2> QED
    BY <1>0, <2>1, <2>2, <2>3, WroteFacts DEF Fares, Does
<1>3. CASE Timer(s) \/ DataReady(s)
  <2>1. Carries(st'[s], st[s]) /\ st[s].txq = <<>>
    BY <1>3, OnTimerCarries, OnDataReadyCarries, Idle DEF Timer, DataReady
  <2>2. Moves(st[s], st'[s], NoFrame)
    BY <1>0, <2>1, CarriesMoves
  <2>3. QueueOf(st'[s])
    BY <2>1, <2>2, IdleQueue
  <2> QED
    BY <2>1, <2>3, CarriesFares
<1>4. CASE DrainOver(s) \/ TxEnd(s)
  <2>1. Carries(st'[s], st[s]) /\ (~Up(st[s]) => st'[s].txq = st[s].txq)
    BY <1>4, DrainDeadlinePassesCarries, OnTxCompleteCarries DEF DrainOver, TxEnd
  <2>2. ~Up(st[s]) => Actions(st'[s]) \subseteq Actions(st[s])
    BY <2>1 DEF Actions
  <2>3. QueueOf(st'[s])
    BY <1>0, <2>1, <2>2, CarriedQueue
  <2> QED
    BY <2>1, <2>3, CarriesFares
<1> QED
  BY <1>1, <1>2, <1>3, <1>4 DEF Alone

LEMMA AloneTakes ==
    ASSUME TxqBound = 1, LinkInv, NEW s \in Station, NEW p \in Station, s # p,
           Station = {s, p}, RecordEnds, Alone(s)
    PROVE  TakeFacts(s, p, NoFrame)
<1>1. AllGood' /\ onair' \in [Station -> Seq(Frame)] /\ Others(s)
  BY AloneGood DEF LinkInv, LinkTypes
<1>2. StepFacts(s, p) /\ Able(s) /\ StationInv(s) /\ Good(st[s]) /\ Good(st'[s])
  BY <1>1, StepIs
<1>3. Fares(s, p)
  BY <1>2, AloneFares
<1>4. Takes(wire[s], wire'[s], NoFrame) /\ wire' = [wire EXCEPT ![s] = wire'[s]]
  BY DEF Alone, Takes, LinkInv, LinkTypes
<1> QED
  BY <1>2, <1>3, <1>4 DEF TakeFacts, Fares

LEMMA FadeTakes ==
    ASSUME LinkInv, NEW s \in Station, NEW p \in Station, s # p,
           Station = {s, p}, RecordEnds, Fade(s)
    PROVE  TakeFacts(s, p, NoFrame)
<1>1. AllGood' /\ onair' \in [Station -> Seq(Frame)] /\ Others(s) /\ st'[s] = st[s]
  BY StutterGood DEF Fade, LinkInv, LinkTypes, Others
<1>2. StepFacts(s, p) /\ StationInv(s) /\ Good(st[s])
  BY <1>1, StepIs
<1>3. Goes(st[s], st'[s], NoFrame) /\ NewId(s, p) /\ Does(s, NoFrame)
  <2>1. Moves(st[s], st[s], NoFrame)
    BY <1>2, StillCarries, CarriesMoves DEF StationInv
  <2> QED
    BY <1>1, <1>2, <2>1, ItselfGoes DEF NewId, Does
<1>4. Takes(wire[s], wire'[s], NoFrame) /\ wire' = [wire EXCEPT ![s] = wire'[s]]
  BY DEF Fade, Takes, LinkInv, LinkTypes
<1> QED
  BY <1>1, <1>2, <1>3, <1>4 DEF TakeFacts, StationInv

(* A frame that has been sent takes a station as Moves says. *)
LEMMA OnFrameMoves ==
    ASSUME NEW s \in Station, Able(s), NEW f, Sent(f), OnFrame(s, f), Good(st'[s])
    PROVE  Moves(st[s], st'[s], f)
<1>1. CASE ForcedTeardown(s)
  BY <1>1, ForcedTeardownCarries, CarriesMoves DEF Able
<1>2. CASE HandleFrame(s, f)
  BY <1>2, HandleFrameMoves
<1> QED
  BY <1>1, <1>2 DEF OnFrame

LEMMA DecodeTakes ==
    ASSUME TxqBound = 1, LinkInv, NEW s \in Station, NEW p \in Station, s # p,
           Station = {s, p}, RecordEnds, Decode(s)
    PROVE  TakeFacts(s, p, Head(wire[s]))
<1> DEFINE f == Head(wire[s])
<1>0. /\ wire[s] # <<>> /\ TxRoom(s) /\ OnFrame(s, f) /\ onair' = onair
      /\ wire' = [wire EXCEPT ![s] = Tail(wire[s])]
      /\ wire \in [Station -> Seq(Frame)]
  BY DEF Decode, LinkInv, LinkTypes
<1>1. Sent(f)
  <2>1. WireInv(s)
    BY DEF LinkInv
  <2>2. f = wire[s][1] /\ 1 \in 1 .. Len(wire[s])
    BY <1>0, TailIs
  <2> QED
    BY <2>1, <2>2 DEF WireInv
<1> HIDE DEF f
<1>2. AllGood' /\ onair' \in [Station -> Seq(Frame)] /\ Others(s)
  <2>1. AllGood /\ onair \in [Station -> Seq(Frame)]
    BY DEF LinkInv, LinkTypes
  <2>2. AllGood'
    BY <1>0, <1>1, <2>1, HandleFrameGood, ForcedTeardownGood DEF OnFrame, Sent
  <2> QED
    BY <1>0, <2>1, <2>2, LocalOthers
<1>3. StepFacts(s, p) /\ Able(s) /\ StationInv(s) /\ Good(st[s]) /\ Good(st'[s])
  BY <1>2, StepIs
<1>4. Moves(st[s], st'[s], f) /\ st[s].txq = <<>>
  BY <1>0, <1>1, <1>3, OnFrameMoves, Idle
<1>5. QueueOf(st'[s])
  BY <1>4, IdleQueue
<1>6. /\ IdOf(st'[s]) /\ Asks(st'[s]) /\ Goes(st[s], st'[s], f)
      /\ Load(st'[s]) <= st'[s].written /\ st'[s].written <= MaxUnits[s]
  <2>1. MaxUnits[s] \in Nat
    BY BoundAssumption
  <2> QED
    BY <1>3, <1>4, <2>1, MovesFacts DEF StationInv
<1>7. Takes(wire[s], wire'[s], f) /\ wire' = [wire EXCEPT ![s] = wire'[s]]
  BY <1>0 DEF Takes, f
<1>8. f # NoFrame
  <2>1. f.type \in FrameTypes
    BY <1>1 DEF Sent, WellFormed, Frame
  <2> QED
    BY <2>1 DEF NoFrame, FrameTypes
<1>9. TakeFacts(s, p, f)
  BY <1>3, <1>4, <1>5, <1>6, <1>7, <1>8 DEF TakeFacts, Does
<1> QED
  BY <1>9 DEF f

LEMMA KeyUpKeys ==
    ASSUME LinkInv, NEW s \in Station, NEW p \in Station, s # p, Station = {s, p},
           Peer(s) = p, RecordEnds, Key(s)
    PROVE  \E b : KeyFacts(s, p, b)
<1>0. /\ TxStart(s) /\ wire[p] = <<>>
      /\ wire' = [wire EXCEPT ![s] = <<>>,
                              ![p] = IF onair[p] # <<>> THEN <<>> ELSE onair'[s]]
  BY DEF Key
<1>1. /\ AllGood /\ onair \in [Station -> Seq(Frame)] /\ wire \in [Station -> Seq(Frame)]
  BY DEF LinkInv, LinkTypes
<1>2. AllGood' /\ onair' \in [Station -> Seq(Frame)] /\ Others(s)
  BY <1>0, <1>1, TxStartGood, LocalOthers
<1>3. StepFacts(s, p) /\ Able(s) /\ StationInv(s) /\ Good(st[s]) /\ Good(st'[s])
  BY <1>2, StepIs
<1>4. Carries(st'[s], st[s]) /\ Actions(st'[s]) \subseteq Actions(st[s])
  BY <1>0, <1>3, TxStartCarries
<1>5. PICK b \in Actions(st[s]) : onair' = [onair EXCEPT ![s] = b.frames]
  BY <1>0, <1>3, TxStartCarries
<1>6. QueueOf(st'[s])
  BY <1>3, <1>4, CarriedQueue DEF StationInv
<1>7. Fares(s, p)
  BY <1>3, <1>4, <1>6, CarriesFares
<1>8. wire'[s] = <<>> /\ wire'[p] \in {<<>>, b.frames}
      /\ wire' = [wire EXCEPT ![s] = wire'[s], ![p] = wire'[p]]
  <2>1. onair'[s] = b.frames
    BY <1>1, <1>5
  <2>2. wire'[s] = <<>>
        /\ wire'[p] = (IF onair[p] # <<>> THEN <<>> ELSE onair'[s])
    BY <1>0, <1>1
  <2> QED
    BY <1>0, <2>1, <2>2
<1>9. KeyFacts(s, p, b)
  <2>1. StationInv(s)'
    BY <1>7 DEF Fares, StationInv
  <2>2. st'[s].session_id = st[s].session_id
    BY <1>4 DEF Carries
  <2> QED
    BY <1>0, <1>3, <1>7, <1>8, <2>1, <2>2 DEF KeyFacts, Fares
<1> QED
  BY <1>9

LEMMA ThePeer ==
    ASSUME NEW s \in Station
    PROVE  \E p \in Station : s # p /\ Station = {s, p} /\ Peer(s) = p
<1>1. PICK a \in Station, b \in Station : a # b /\ Station = {a, b}
  BY PairAssumption
<1>2. \E p \in Station : s # p /\ Station = {s, p}
  BY <1>1
<1>3. PICK p \in Station : s # p /\ Station = {s, p}
  BY <1>2
<1>4. \A t \in Station : t # s <=> t = p
  BY <1>3
<1>5. Peer(s) = p
  BY <1>3, <1>4 DEF Peer
<1> QED
  BY <1>3, <1>5

(* Every step of the link is one of the two kinds. *)
LEMMA LinkSteps ==
    ASSUME TxqBound = 1, LinkInv, LinkNext
    PROVE  \E s, p \in Station :
              \/ \E f : TakeFacts(s, p, f)
              \/ \E b : KeyFacts(s, p, b)
<1>1. PICK s \in Station : LinkStep(s)
  BY DEF LinkNext
<1>2. RecordEnds
  BY DEF LinkNext
<1>3. PICK p \in Station : s # p /\ Station = {s, p} /\ Peer(s) = p
  BY ThePeer
<1> QED
  BY <1>1, <1>2, <1>3, AloneTakes, KeyUpKeys, FadeTakes, DecodeTakes DEF LinkStep

LEMMA LinkStepSafe ==
    ASSUME TxqBound = 1, LinkInv, AllTold, [LinkNext]_linkVars
    PROVE  LinkInv'
<1>1. CASE LinkNext
  BY <1>1, LinkSteps, TakeSafe, KeySafe
<1>2. CASE UNCHANGED linkVars
  BY <1>2, StutterGood DEF linkVars, LinkInv, LinkTypes, StationInv, WireInv, ChannelInv, Share
<1> QED
  BY <1>1, <1>2

LEMMA LinkStarts == LinkInit => LinkInv
<1> SUFFICES ASSUME LinkInit PROVE LinkInv
  OBVIOUS
<1>1. AllGood /\ onair \in [Station -> Seq(Frame)]
  BY InitGood DEF LinkInit, IInv, TypeOK, AllGood, Good
<1>2. /\ \A s \in Station : st[s] = InitSession /\ wire[s] = <<>> /\ ended[s] = {}
      /\ wire \in [Station -> Seq(Frame)] /\ ended \in [Station -> SUBSET Nat]
  <2>1. <<>> \in Seq(Frame)
    OBVIOUS
  <2> QED
    BY <2>1 DEF LinkInit, Init
<1> DEFINE r == InitSession
<1>3. /\ r.conn_state = "DISCONNECTED" /\ r.txq = <<>> /\ r.txlog = <<>> /\ r.backlog = <<>>
      /\ r.written = 0
  BY DEF InitSession
<1> HIDE DEF r
<1>4. Len(<<>>) = 0 /\ \A i \in 1 .. Len(<<>>) : FALSE
  OBVIOUS
<1>5. Actions(r) = {}
  BY <1>3, <1>4 DEF Actions
<1>6. IdOf(r) /\ Asks(r) /\ QueueOf(r) /\ Load(r) = 0 /\ ~Up(r) /\ Resting(r)
  BY <1>3, <1>4, <1>5 DEF IdOf, Asks, QueueOf, Load, Up, Resting
<1>7. \A s \in Station : StationInv(s) /\ WireInv(s)
  <2>1. \A s \in Station : MaxUnits[s] \in Nat
    BY BoundAssumption
  <2>2. \A n \in Nat : 0 <= n
    OBVIOUS
  <2> QED
    BY <1>2, <1>3, <1>4, <1>6, <2>1, <2>2 DEF StationInv, WireInv, OneBurst, AllData, r
<1>8. QuietWire(<<>>) /\ ~CallOn(<<>>)
  BY <1>4 DEF QuietWire, CallOn
<1>9. ASSUME NEW a \in Station, NEW b \in Station PROVE ChannelInv(a, b)
  BY <1>2, <1>6, <1>8 DEF ChannelInv, Pair, NotYet, Flow, Prefix, CallOn, r
<1> QED
  BY <1>1, <1>2, <1>7, <1>9 DEF LinkInv, LinkTypes

(* What is handed over is a beginning of what was written. *)
LEMMA LinkDelivers == LinkInv => DeliveredIsPrefix
<1> SUFFICES ASSUME LinkInv, NEW a \in Station, NEW b \in Station, a # b, SameSession(a, b)
             PROVE  IsPrefix(st[b].rxlog, st[a].txlog)
  BY DEF DeliveredIsPrefix
<1>1. Grows(st[b].rxlog, st[a].txlog)
  BY DEF LinkInv, ChannelInv, Share, SameSession, InConn, Up, Pair, Prefix
<1>2. st[a].txlog \in Seq(Nat) /\ st[b].rxlog \in Seq(Nat)
  BY StationGood, Fields DEF LinkInv, LinkTypes
<1> QED
  BY <1>1, <1>2 DEF IsPrefix, Grows

-----------------------------------------------------------------------------
(* Data one way only: an application that writes nothing makes its station  *)
(* a receiver.  It sends no DATA and asks for no mode, so that only an ACK   *)
(* empties the peer's window.                                                *)

Mute(b) == b.control /\ b.frames[1].type # "MODE_REQ"
MuteWire(v) == \A i \in 1 .. Len(v) : v[i].type \notin {"DATA", "MODE_REQ"}
Silent(r) == ~Active(r) /\ r.txlog = <<>> /\ \A b \in Actions(r) : Mute(b)

(* x has given up no more than y has, and v, the wire of x, says no other. *)
AckOf(x, y, v) ==
    Up(x) /\ Up(y) =>
        /\ Base(x) <= Len(y.rxlog)
        /\ \A i \in 1 .. Len(v) :
              v[i].type = "ACK" => \E n \in Base(x) .. Len(y.rxlog) : v[i].seq = n % SeqSpace

OneWay(a, b) ==
    /\ Silent(st[b]) /\ MuteWire(wire[a])
    /\ Share(a, b) => AckOf(st[a], st[b], wire[a])

LEMMA NothingWritten ==
    ASSUME NEW r, Good(r), Load(r) <= r.written, r.written <= 0
    PROVE  r.txlog = <<>> /\ r.backlog = <<>>
<1>1. r.txlog \in Seq(Nat) /\ r.backlog \in Seq(Nat) /\ r.written \in Nat
  BY Fields
<1>2. Len(r.txlog) \in Nat /\ Len(r.backlog) \in Nat
  BY <1>1
<1> DEFINE a == Len(r.txlog)
           b == Len(r.backlog)
           n == r.written
<1>3. a \in Nat /\ b \in Nat /\ n \in Nat /\ a + b <= n /\ n <= 0
  BY <1>1, <1>2 DEF Load
<1> HIDE DEF a, b, n
<1>4. a = 0 /\ b = 0
  BY <1>3
<1>5. \A t \in Seq(Nat) : Len(t) = 0 => t = <<>>
  OBVIOUS
<1> QED
  BY <1>1, <1>4, <1>5 DEF a, b

LEMMA FreshMute ==
    ASSUME NEW q, Good(q), ~Active(q), q.txlog = <<>>, NEW b, Fresh(b, q)
    PROVE  Mute(b)
<1>1. ASSUME NEW f \in Frame, b = Control(f), FreshControl(f, q)
      PROVE  Mute(b)
  BY <1>1 DEF FreshControl, Active, Mute, Control
<1>2. ~ FreshData(b.frames, q)
  <2> SUFFICES ASSUME FreshData(b.frames, q) PROVE FALSE
    OBVIOUS
  <2>1. /\ b.frames \in Seq(Frame) /\ b.frames # <<>>
        /\ \E k \in Nat : k + Len(b.frames) <= Len(q.txlog)
    BY DEF FreshData, RunAt
  <2>2. \A t \in Seq(Frame) : t # <<>> => Len(t) \in Nat /\ Len(t) > 0
    OBVIOUS
  <2>3. Len(q.txlog) = 0
    OBVIOUS
  <2> QED
    BY <2>1, <2>2, <2>3
<1> QED
  BY <1>1, <1>2 DEF Fresh

LEMMA SilentOn ==
    ASSUME NEW r, Silent(r), NEW q, NEW f, Moves(r, q, f), Load(q) <= q.written, q.written <= 0
    PROVE  Silent(q)
<1>1. Good(q) /\ ~Active(q)
  BY DEF Moves, Silent
<1>2. q.txlog = <<>>
  BY <1>1, NothingWritten
<1>3. \A b \in Actions(q) : Mute(b)
  BY <1>1, <1>2, FreshMute DEF Moves, Silent
<1> QED
  BY <1>1, <1>2, <1>3 DEF Silent

LEMMA MuteFrames ==
    ASSUME NEW r, NEW b, Mute(b), Queued(b, r)
    PROVE  /\ MuteWire(b.frames)
           /\ Up(r) => \A i \in 1 .. Len(b.frames) :
                 b.frames[i].type = "ACK" => b.frames[i].seq = Len(r.rxlog) % SeqSpace
<1>1. PICK f \in Frame : b = Control(f) /\ QueuedControl(f, r)
  BY DEF Queued, Mute
<1>2. b.frames = <<f>> /\ b.frames[1] = f /\ \A i \in 1 .. Len(b.frames) : b.frames[i] = f
  BY <1>1 DEF Control
<1> QED
  BY <1>1, <1>2 DEF QueuedControl, MuteWire, Mute

(* What an ACK with number n confirms, n being no further off than the window. *)
LEMMA ModOf ==
    ASSUME NEW m \in 0 .. SeqSpace - 1, NEW k \in Int
    PROVE  (SeqSpace * k + m) % SeqSpace = m
<1> DEFINE n == SeqSpace * k + m
           a == n \div SeqSpace
           c == n % SeqSpace
<1>1. SeqSpace \in Nat /\ SeqSpace > 0 /\ SeqSpace * k \in Int
  BY WindowAssumption
<1>2. n \in Int /\ a \in Int /\ n = SeqSpace * a + c /\ c \in 0 .. SeqSpace - 1
  BY <1>1
<1>3. n = SeqSpace * k + m
  OBVIOUS
<1> HIDE DEF a, c, n
<1>4. \A i, j \in Int : i < j => SeqSpace * i + SeqSpace <= SeqSpace * j
  <2> SUFFICES ASSUME NEW i \in Int, NEW j \in Int, i < j
               PROVE  SeqSpace * i + SeqSpace <= SeqSpace * j
    OBVIOUS
  <2>1. SeqSpace * i + SeqSpace = SeqSpace * (i + 1)
    BY <1>1
  <2>2. i + 1 <= j
    OBVIOUS
  <2>3. SeqSpace * (i + 1) <= SeqSpace * j
    BY <1>1, <2>2
  <2> QED
    BY <2>1, <2>3
<1>5. a = k
  <2>1. SeqSpace * a \in Int
    BY <1>1, <1>2
  <2>2. ~ (a < k) /\ ~ (k < a)
    BY <1>1, <1>2, <1>3, <1>4, <2>1
  <2> QED
    BY <1>2, <2>2
<1> QED
  BY <1>1, <1>2, <1>3, <1>5 DEF c, n

LEMMA AckedIs ==
    ASSUME NEW x, Good(x), NEW n \in Nat, Base(x) <= n, n <= Len(x.txlog)
    PROVE  Base(x) + AckedCount(x.tx_window, n % SeqSpace) \in {Base(x), n}
<1> DEFINE w == x.tx_window
           d == ((n % SeqSpace) - w[1].seq) % SeqSpace
           m == n - Base(x)
           k == n \div SeqSpace
<1>1. /\ Base(x) \in Nat /\ Len(x.txlog) = Base(x) + Len(w) /\ Len(w) \in Nat
      /\ Len(w) <= BurstFrames /\ BurstFrames \in Nat /\ BurstFrames < SeqSpace
      /\ SeqSpace \in Nat
  BY BaseType, WindowAssumption DEF Good, WindowOf
<1>2. CASE w = <<>>
  BY <1>1, <1>2 DEF AckedCount
<1>3. CASE w # <<>>
  <2>1. x.tx_seq = Len(x.txlog) /\ w \in Seq(Slot) /\ Len(w) > 0 /\ 1 \in 1 .. Len(w)
    <3>1. x.tx_seq = Len(x.txlog) /\ w \in Seq(Slot)
      BY Fields DEF Good, WindowOf
    <3>2. \A t \in Seq(Slot) : t # <<>> => Len(t) > 0 /\ 1 \in 1 .. Len(t)
      OBVIOUS
    <3> QED
      BY <1>3, <3>1, <3>2
  <2>2. w[1].seq = x.tx_seq - Len(w) + 1 - 1
    BY <2>1 DEF Good, WindowOf
  <2>3. w[1].seq = Base(x)
    BY <1>1, <2>1, <2>2
  <2>4. m \in 0 .. SeqSpace - 1 /\ n = (SeqSpace * k) + (n % SeqSpace) /\ k \in Int
        /\ n % SeqSpace \in Int
    <3>1. n \in Nat /\ SeqSpace > 0 /\ n <= Len(x.txlog)
      BY <1>1
    <3>2. m \in 0 .. SeqSpace - 1
      BY <1>1, <3>1
    <3>3. n = (SeqSpace * (n \div SeqSpace)) + (n % SeqSpace)
          /\ n \div SeqSpace \in Int /\ n % SeqSpace \in Int
      <4> HIDE DEF w, d, m
      <4> QED
        BY <1>1, <3>1
    <3> QED
      BY <3>2, <3>3
  <2> HIDE DEF m, k
  <2>5. m = n - Base(x)
    BY DEF m
  <2>6. SeqSpace * k \in Int /\ -k \in Int /\ SeqSpace * (-k) = - (SeqSpace * k)
    BY <1>1, <2>4
  <2> DEFINE c == n % SeqSpace
             g == SeqSpace * k
             h == SeqSpace * (-k)
  <2>7. c - Base(x) = h + m
    <3>1. /\ c \in Int /\ g \in Int /\ h \in Int /\ n \in Int /\ Base(x) \in Int
          /\ n = g + c /\ h = -g /\ m = n - Base(x)
      BY <1>1, <2>4, <2>5, <2>6
    <3> HIDE DEF c, g, h
    <3> QED
      BY <3>1
  <2>8. d = m
    BY <2>3, <2>4, <2>6, <2>7, ModOf
  <2>9. AckedCount(w, n % SeqSpace) = (IF w # <<>> /\ d <= Len(w) THEN d ELSE 0)
    BY DEF AckedCount
  <2>10. AckedCount(w, n % SeqSpace) \in {m, 0}
    BY <2>8, <2>9
  <2> QED
    BY <1>1, <2>4, <2>5, <2>10
<1> QED
  BY <1>2, <1>3

LEMMA MuteTaken ==
    ASSUME NEW v \in Seq(Frame), NEW u, NEW f, Takes(v, u, f), MuteWire(v)
    PROVE  MuteWire(u) /\ f.type \notin {"DATA", "MODE_REQ"}
<1>1. CASE u = v /\ f = NoFrame
  BY <1>1 DEF NoFrame
<1>2. CASE v # <<>> /\ u = Tail(v) /\ f \in {Head(v), NoFrame}
  <2>1. /\ 1 \in 1 .. Len(v) /\ Head(v) = v[1]
        /\ \A i \in 1 .. Len(u) : u[i] = v[i + 1] /\ i + 1 \in 1 .. Len(v)
    BY <1>2, TailIs
  <2>2. NoFrame.type \notin {"DATA", "MODE_REQ"}
    BY DEF NoFrame
  <2> QED
    BY <1>2, <2>1, <2>2 DEF MuteWire
<1> QED
  BY <1>1, <1>2 DEF Takes

(* Whoever takes a frame that is not DATA has taken the last one of a burst. *)
LEMMA LastTaken ==
    ASSUME NEW v \in Seq(Frame), NEW u, NEW f, Takes(v, u, f), OneBurst(v),
           f # NoFrame, f.type # "DATA"
    PROVE  u = <<>> /\ f = v[1] /\ 1 \in 1 .. Len(v)
<1>1. v # <<>> /\ u = Tail(v) /\ f = Head(v)
  BY DEF Takes
<1>2. Tail(v) \in Seq(Frame) /\ Len(Tail(v)) = Len(v) - 1 /\ Head(v) = v[1] /\ 1 \in 1 .. Len(v)
  BY <1>1, TailIs
<1>3. Len(v) = 1
  BY <1>1, <1>2 DEF OneBurst, AllData
<1>4. Len(u) = 0 /\ u \in Seq(Frame)
  BY <1>1, <1>2, <1>3
<1>5. \A t \in Seq(Frame) : Len(t) = 0 => t = <<>>
  OBVIOUS
<1> QED
  BY <1>1, <1>2, <1>4, <1>5

(* The writer takes a frame. *)
LEMMA WriterTakes ==
    ASSUME NEW r, NEW q, NEW y, NEW v, NEW u, NEW w, NEW f, StepOf(r, q, y, v, u, w, f),
           MuteWire(v), Up(r) => AckOf(r, y, v)
    PROVE  AckOf(q, y, u)
<1> SUFFICES ASSUME Up(q), Up(y)
             PROVE  /\ Base(q) <= Len(y.rxlog)
                    /\ \A i \in 1 .. Len(u) :
                          u[i].type = "ACK" =>
                             \E n \in Base(q) .. Len(y.rxlog) : u[i].seq = n % SeqSpace
  BY DEF AckOf
<1>0. /\ Good(r) /\ Good(q) /\ Good(y) /\ v \in Seq(Frame) /\ Takes(v, u, f) /\ OneBurst(v)
      /\ Len(y.rxlog) \in Nat /\ Base(q) \in Nat
  BY BaseType DEF StepOf, Goes
<1>1. f.type \notin {"DATA", "MODE_REQ"}
  BY <1>0, MuteTaken
<1>2. \A i \in 1 .. Len(<<>>) : FALSE
  OBVIOUS
<1>3. CASE ~Up(r)
  <2>1. Joins(r, q, f)
    BY <1>3 DEF StepOf, Goes
  <2>2. f # NoFrame /\ Base(q) = 0
    <3>1. Len(<<>>) = 0
      OBVIOUS
    <3> QED
      BY <2>1, <3>1 DEF Joins, NoFrame, Base
  <2>3. u = <<>>
    BY <1>0, <1>1, <2>2, LastTaken
  <2> QED
    BY <1>0, <1>2, <2>2, <2>3
<1>4. CASE Up(r)
  <2>1. InSession(r, q, f) /\ AckOf(r, y, v)
    BY <1>4 DEF StepOf, Goes
  <2>2. /\ Base(r) <= Len(y.rxlog)
        /\ \A i \in 1 .. Len(v) :
              v[i].type = "ACK" => \E n \in Base(r) .. Len(y.rxlog) : v[i].seq = n % SeqSpace
    BY <1>4, <2>1 DEF AckOf
  <2>3. CASE Base(q) = Base(r)
    <3>1. CASE u = v
      BY <2>2, <2>3, <3>1
    <3>2. CASE v # <<>> /\ u = Tail(v)
      <4>1. \A i \in 1 .. Len(u) : u[i] = v[i + 1] /\ i + 1 \in 1 .. Len(v)
        BY <1>0, <3>2, TailIs
      <4> QED
        BY <2>2, <2>3, <4>1
    <3> QED
      BY <1>0, <3>1, <3>2 DEF Takes
  <2>4. CASE f.type = "ACK" /\ Base(q) = Base(r) + AckedCount(r.tx_window, f.seq)
    <3>1. u = <<>> /\ f = v[1] /\ 1 \in 1 .. Len(v)
      BY <1>0, <2>4, LastTaken DEF NoFrame
    <3>2. PICK n \in Base(r) .. Len(y.rxlog) : f.seq = n % SeqSpace
      BY <2>2, <2>4, <3>1
    <3>3. Len(y.rxlog) <= Len(r.txlog)
      BY <1>4 DEF StepOf, Pair, Prefix, Grows
    <3>4. Base(r) \in Nat /\ Len(r.txlog) \in Nat
      BY <1>0, BaseType
    <3>5. n \in Nat /\ Base(r) <= n /\ n <= Len(r.txlog) /\ n <= Len(y.rxlog)
      BY <1>0, <3>3, <3>4
    <3>6. Base(q) \in {Base(r), n}
      BY <1>0, <2>4, <3>2, <3>5, AckedIs
    <3> QED
      BY <1>2, <2>2, <3>1, <3>5, <3>6
  <2> QED
    BY <1>1, <2>1, <2>3, <2>4 DEF InSession
<1> QED
  BY <1>3, <1>4

(* The reader takes a frame. *)
LEMMA ReaderTakes ==
    ASSUME NEW r, NEW q, NEW y, NEW v, NEW u, NEW w, NEW f, StepOf(r, q, y, v, u, w, f),
           AckOf(y, r, w)
    PROVE  AckOf(y, q, w)
<1> SUFFICES ASSUME Up(y), Up(q)
             PROVE  /\ Base(y) <= Len(q.rxlog)
                    /\ \A i \in 1 .. Len(w) :
                          w[i].type = "ACK" =>
                             \E n \in Base(y) .. Len(q.rxlog) : w[i].seq = n % SeqSpace
  BY DEF AckOf
<1>0. /\ Good(r) /\ Good(q) /\ Good(y) /\ Len(r.rxlog) \in Nat /\ Len(q.rxlog) \in Nat
      /\ Base(y) \in Nat /\ r.rxlog \in Seq(Nat)
  BY BaseType, Fields DEF StepOf, Goes
<1>1. CASE ~Up(r)
  <2>1. QuietWire(w) /\ Base(y) = 0
    BY <1>1 DEF StepOf, Pair, NotYet
  <2> QED
    BY <1>0, <2>1 DEF QuietWire, StreamTypes
<1>2. CASE Up(r)
  <2>1. InSession(r, q, f)
    BY <1>2 DEF StepOf, Goes
  <2>2. Len(r.rxlog) <= Len(q.rxlog)
    <3>1. \A e : q.rxlog = Append(r.rxlog, e) => Len(q.rxlog) = Len(r.rxlog) + 1
      BY <1>0
    <3> QED
      BY <1>0, <2>1, <3>1 DEF InSession
  <2>3. Base(y) .. Len(r.rxlog) \subseteq Base(y) .. Len(q.rxlog)
        /\ (Base(y) <= Len(r.rxlog) => Base(y) <= Len(q.rxlog))
    BY <1>0, <2>2
  <2> QED
    BY <1>2, <2>3 DEF AckOf
<1> QED
  BY <1>1, <1>2

(* Either keys up. *)
LEMMA WriterKeys ==
    ASSUME NEW r, NEW q, NEW y, NEW v, NEW w, NEW b, KeyOf(r, q, y, v, w, b), AckOf(r, y, v)
    PROVE  AckOf(q, y, <<>>)
<1>1. Up(q) => Up(r) /\ Base(q) = Base(r)
  BY NoFrameGoes DEF KeyOf
<1>2. \A i \in 1 .. Len(<<>>) : FALSE
  OBVIOUS
<1> QED
  BY <1>1, <1>2 DEF AckOf

LEMMA ReaderKeys ==
    ASSUME NEW r, NEW q, NEW y, NEW v, NEW w, NEW b, KeyOf(r, q, y, v, w, b), Mute(b),
           AckOf(y, r, <<>>)
    PROVE  AckOf(y, q, w)
<1>1. Up(q) => Up(r) /\ q.rxlog = r.rxlog
  BY NoFrameGoes DEF KeyOf
<1>2. Queued(b, r) /\ Good(r) /\ Good(y) /\ w \in {<<>>, b.frames}
  BY DEF KeyOf, QueueOf
<1>3. \A i \in 1 .. Len(<<>>) : FALSE
  OBVIOUS
<1>4. Up(r) => \A i \in 1 .. Len(w) : w[i].type = "ACK" => w[i].seq = Len(r.rxlog) % SeqSpace
  BY <1>2, <1>3, MuteFrames
<1>5. Base(y) \in Nat /\ Len(r.rxlog) \in Nat
  BY <1>2, BaseType
<1>6. Base(y) <= Len(r.rxlog) => Len(r.rxlog) \in Base(y) .. Len(r.rxlog)
  BY <1>5
<1> QED
  BY <1>1, <1>4, <1>6 DEF AckOf

(* What the reader does. *)
LEMMA ReaderSilent ==
    ASSUME NEW b, Silent(st[b]), MaxUnits[b] = 0,
           Good(st[b]), NEW f, Does(b, f), Good(st'[b]),
           Load(st'[b]) <= st'[b].written, st'[b].written <= MaxUnits[b]
    PROVE  Silent(st'[b])
<1>1. ~ (st[b].written < MaxUnits[b])
  <2>1. st[b].written \in Nat
    BY Fields
  <2> QED
    BY <2>1
<1> QED
  BY <1>1, SilentOn DEF Does

LEMMA SameId ==
    ASSUME NEW r, NEW q, NEW f, Goes(r, q, f), Up(q)
    PROVE  q.session_id = r.session_id
  BY DEF Goes, Joins

LEMMA OneWayTakes ==
    ASSUME NEW a, NEW b, OneWay(a, b), MaxUnits[b] = 0, NEW f,
           TakeFacts(a, b, f) \/ TakeFacts(b, a, f)
    PROVE  OneWay(a, b)'
<1>1. CASE TakeFacts(a, b, f)
  <2>1. /\ st'[b] = st[b] /\ wire[a] \in Seq(Frame) /\ Takes(wire[a], wire'[a], f)
        /\ Goes(st[a], st'[a], f)
    BY <1>1 DEF TakeFacts, StepFacts, LinkInv, LinkTypes
  <2>2. MuteWire(wire'[a])
    BY <2>1, MuteTaken DEF OneWay
  <2>3. ASSUME Share(a, b)'
        PROVE  AckOf(st'[a], st[b], wire'[a])
    <3>1. CASE Up(st'[a])
      <4>1. /\ Share(a, b)
            /\ StepOf(st[a], st'[a], st[b], wire[a], wire'[a], wire[b], f)
        BY <1>1, <2>1, <2>3, <3>1, SameId, TakeStep
      <4> QED
        BY <4>1, WriterTakes DEF OneWay
    <3> QED
      BY <3>1 DEF AckOf
  <2> QED
    BY <2>1, <2>2, <2>3 DEF OneWay
<1>2. CASE TakeFacts(b, a, f)
  <2>1. /\ st'[a] = st[a] /\ wire'[a] = wire[a] /\ Goes(st[b], st'[b], f) /\ Good(st'[b])
        /\ LinkInv /\ b \in Station /\ Does(b, f)
        /\ Load(st'[b]) <= st'[b].written /\ st'[b].written <= MaxUnits[b]
    BY <1>2 DEF TakeFacts, StepFacts, LinkInv, LinkTypes, Goes
  <2>2. Good(st[b])
    BY <2>1, StationGood DEF LinkInv, LinkTypes
  <2>3. Silent(st'[b])
    BY <2>1, <2>2, ReaderSilent DEF OneWay
  <2>4. ASSUME Share(a, b)'
        PROVE  AckOf(st[a], st'[b], wire[a])
    <3>1. CASE Up(st'[b])
      <4>1. Share(b, a)'
        BY <2>4 DEF Share
      <4>2. /\ Share(a, b)
            /\ StepOf(st[b], st'[b], st[a], wire[b], wire'[b], wire[a], f)
        BY <1>2, <2>1, <3>1, <4>1, SameId, TakeStep
      <4> QED
        BY <4>2, ReaderTakes DEF OneWay
    <3> QED
      BY <3>1 DEF AckOf
  <2> QED
    BY <2>1, <2>3, <2>4 DEF OneWay
<1> QED
  BY <1>1, <1>2

LEMMA OneWayKeys ==
    ASSUME NEW a, NEW b, OneWay(a, b), MaxUnits[b] = 0, NEW c,
           KeyFacts(a, b, c) \/ KeyFacts(b, a, c)
    PROVE  OneWay(a, b)'
<1>0. MuteWire(<<>>)
  <2>1. \A i \in 1 .. Len(<<>>) : FALSE
    OBVIOUS
  <2> QED
    BY <2>1 DEF MuteWire
<1>1. CASE KeyFacts(a, b, c)
  <2>1. st'[b] = st[b] /\ wire'[a] = <<>>
    BY <1>1 DEF KeyFacts, StepFacts
  <2>2. ASSUME Share(a, b)'
        PROVE  AckOf(st'[a], st[b], <<>>)
    <3>1. Share(a, b) /\ KeyOf(st[a], st'[a], st[b], wire[a], wire'[b], c)
      BY <1>1, <2>2, KeyStep
    <3> QED
      BY <3>1, WriterKeys DEF OneWay
  <2> QED
    BY <1>0, <2>1, <2>2 DEF OneWay
<1>2. CASE KeyFacts(b, a, c)
  <2>1. /\ st'[a] = st[a] /\ wire[a] = <<>> /\ wire'[a] \in {<<>>, c.frames}
        /\ LinkInv /\ b \in Station /\ Does(b, NoFrame) /\ Good(st'[b])
        /\ Load(st'[b]) <= st'[b].written /\ st'[b].written <= MaxUnits[b]
        /\ c \in Actions(st[b])
    BY <1>2 DEF KeyFacts, StepFacts, StationInv, Goes
  <2>2. Good(st[b]) /\ StationInv(b)
    BY <2>1, StationGood DEF LinkInv, LinkTypes
  <2>3. Silent(st'[b])
    BY <2>1, <2>2, ReaderSilent DEF OneWay
  <2>4. Mute(c) /\ Queued(c, st[b])
    BY <2>1, <2>2 DEF OneWay, Silent, StationInv, QueueOf
  <2>5. MuteWire(wire'[a])
    BY <1>0, <2>1, <2>4, MuteFrames
  <2>6. ASSUME Share(a, b)'
        PROVE  AckOf(st[a], st'[b], wire'[a])
    <3>1. Share(b, a)'
      BY <2>6 DEF Share
    <3>2. Share(a, b) /\ KeyOf(st[b], st'[b], st[a], wire[b], wire'[a], c)
      BY <1>2, <3>1, KeyStep
    <3> QED
      BY <2>1, <2>4, <3>2, ReaderKeys DEF OneWay
  <2> QED
    BY <2>1, <2>3, <2>5, <2>6 DEF OneWay
<1> QED
  BY <1>1, <1>2

(* Of a reader nothing can be said too early, and the writer is told no more *)
(* than the reader has.                                                       *)
LEMMA OneWayAcked ==
    ASSUME LinkInv, NEW a \in Station, NEW b \in Station, a # b, Station = {a, b}, OneWay(a, b)
    PROVE  AckedIsDelivered /\ AllTold
<1>1. ASSUME NEW x \in Station, NEW y \in Station, x # y, Share(x, y), Up(st[x]), Up(st[y])
      PROVE  Base(st[x]) <= Len(st[y].rxlog)
  <2>1. CASE x = a /\ y = b
    BY <1>1, <2>1 DEF OneWay, AckOf
  <2>2. CASE x = b /\ y = a
    <3>1. Good(st[b]) /\ Good(st[a]) /\ st[b].txlog = <<>> /\ Len(<<>>) = 0
      BY StationGood DEF LinkInv, LinkTypes, OneWay, Silent
    <3>2. Base(st[b]) \in Nat /\ Base(st[b]) <= Len(st[b].txlog) /\ Len(st[a].rxlog) \in Nat
      BY <3>1, BaseType
    <3> QED
      BY <2>2, <3>1, <3>2
  <2> QED
    BY <1>1, <2>1, <2>2
<1>2. AllTold
  BY <1>1 DEF AllTold, Told
<1>3. AckedIsDelivered
  BY <1>1 DEF AckedIsDelivered, SameSession, InConn, Share, Up, Base
<1> QED
  BY <1>2, <1>3

LEMMA OneWayStarts ==
    ASSUME LinkInit, NEW a \in Station, NEW b \in Station
    PROVE  OneWay(a, b)
<1>1. st[a] = InitSession /\ st[b] = InitSession /\ wire[a] = <<>>
  BY DEF LinkInit, Init
<1> DEFINE r == InitSession
<1>2. /\ r.conn_state = "DISCONNECTED" /\ r.txq = <<>> /\ r.txlog = <<>> /\ r.backlog = <<>>
  BY DEF InitSession
<1> HIDE DEF r
<1>3. \A i \in 1 .. Len(<<>>) : FALSE
  OBVIOUS
<1>4. Silent(r)
  BY <1>2, <1>3 DEF Silent, Active, HasBacklog, Busy, Up, Actions
<1>5. MuteWire(<<>>) /\ ~Up(r)
  BY <1>2, <1>3 DEF MuteWire, Up
<1> QED
  BY <1>1, <1>4, <1>5 DEF OneWay, AckOf, r

LEMMA OneWaySafe ==
    ASSUME TxqBound = 1, LinkInv, NEW a \in Station, NEW b \in Station, a # b,
           Station = {a, b}, MaxUnits[b] = 0, OneWay(a, b), [LinkNext]_linkVars
    PROVE  OneWay(a, b)'
<1>1. CASE LinkNext
  <2>1. PICK s \in Station, p \in Station :
           (\E f : TakeFacts(s, p, f)) \/ (\E c : KeyFacts(s, p, c))
    BY <1>1, LinkSteps
  <2>2. s # p
    BY <2>1 DEF TakeFacts, KeyFacts, StepFacts
  <2>3. (s = a /\ p = b) \/ (s = b /\ p = a)
    <3>1. s \in {a, b} /\ p \in {a, b}
      OBVIOUS
    <3> QED
      BY <2>2, <3>1
  <2> QED
    BY <2>1, <2>3, OneWayTakes, OneWayKeys
<1>2. CASE UNCHANGED linkVars
  BY <1>2 DEF linkVars, OneWay, Share
<1> QED
  BY <1>1, <1>2

OneWayInv == \A a, b \in Station : a # b /\ MaxUnits[b] = 0 => OneWay(a, b)

LEMMA OneWayStepSafe ==
    ASSUME TxqBound = 1, LinkInv, OneWayInv, [LinkNext]_linkVars
    PROVE  OneWayInv'
<1> SUFFICES ASSUME NEW a \in Station, NEW b \in Station, a # b, MaxUnits[b] = 0
             PROVE  OneWay(a, b)'
  BY DEF OneWayInv
<1>1. Station = {a, b}
  BY PairAssumption
<1> QED
  BY <1>1, OneWaySafe DEF OneWayInv

-----------------------------------------------------------------------------
(* The theorems.  TxqBound = 1 is the model's way to say that a station     *)
(* waits until what it sent is on the air.                                  *)

NoWrap == \A s \in Station : MaxUnits[s] <= SeqSpace

OneSided == \E s \in Station : MaxUnits[s] = 0

LEMMA NoWrapTold == ASSUME LinkInv, NoWrap PROVE AllTold
<1> SUFFICES ASSUME NEW a \in Station PROVE Len(st[a].txlog) <= SeqSpace
  BY DEF AllTold, Told
<1>1. /\ Good(st[a]) /\ Load(st[a]) <= st[a].written /\ st[a].written <= MaxUnits[a]
      /\ MaxUnits[a] <= SeqSpace
  BY StationGood DEF LinkInv, LinkTypes, StationInv, NoWrap
<1>2. st[a].txlog \in Seq(Nat) /\ st[a].backlog \in Seq(Nat) /\ st[a].written \in Nat
  BY <1>1, Fields
<1>3. Len(st[a].txlog) \in Nat /\ Len(st[a].backlog) \in Nat
  BY <1>2
<1>4. MaxUnits[a] \in Nat /\ SeqSpace \in Nat
  BY BoundAssumption, WindowAssumption
<1> DEFINE t == Len(st[a].txlog)
           b == Len(st[a].backlog)
           n == st[a].written
<1>5. /\ t \in Nat /\ b \in Nat /\ n \in Nat /\ MaxUnits[a] \in Nat /\ SeqSpace \in Nat
      /\ t + b <= n /\ n <= MaxUnits[a] /\ MaxUnits[a] <= SeqSpace
  BY <1>1, <1>2, <1>3, <1>4 DEF Load
<1> HIDE DEF t, b, n
<1>6. t <= SeqSpace
  BY <1>5
<1> QED
  BY <1>6 DEF t

LEMMA AckedTold == AckedIsDelivered => AllTold
  BY DEF AckedIsDelivered, SameSession, InConn, AllTold, Told, Share, Up, Base

LEMMA OneSidedTold ==
    ASSUME LinkInv, OneWayInv, OneSided
    PROVE  AckedIsDelivered /\ AllTold
<1>1. PICK b \in Station : MaxUnits[b] = 0
  BY DEF OneSided
<1>2. PICK a \in Station : a # b /\ Station = {a, b}
  BY ThePeer
<1>3. OneWay(a, b)
  BY <1>1, <1>2 DEF OneWayInv
<1> QED
  BY <1>2, <1>3, OneWayAcked

LEMMA OneWayInvStarts == LinkInit => OneWayInv
  BY OneWayStarts DEF OneWayInv

(* While no number has come round, what one application is handed is, in    *)
(* order and without gaps or repetitions, what the other one wrote          *)
(* (check_accept_rx, send_data_burst): even after an ACK that was none.     *)
THEOREM DeliveredInOrder == TxqBound = 1 /\ NoWrap => (LinkSpec => []DeliveredIsPrefix)
<1> SUFFICES ASSUME TxqBound = 1, NoWrap PROVE LinkSpec => []DeliveredIsPrefix
  OBVIOUS
<1>1. LinkInv /\ [LinkNext]_linkVars => LinkInv'
  BY LinkStepSafe, NoWrapTold
<1> QED
  BY <1>1, LinkStarts, LinkDelivers, PTL DEF LinkSpec

(* However often the numbers come round, it is, as long as a window gives up *)
(* only what has been delivered.                                             *)
THEOREM AckedInOrder ==
    TxqBound = 1 => (LinkSpec /\ []AckedIsDelivered => []DeliveredIsPrefix)
<1> SUFFICES ASSUME TxqBound = 1
             PROVE  LinkSpec /\ []AckedIsDelivered => []DeliveredIsPrefix
  OBVIOUS
<1>1. LinkInv /\ AckedIsDelivered /\ [LinkNext]_linkVars => LinkInv'
  BY LinkStepSafe, AckedTold
<1> QED
  BY <1>1, LinkStarts, LinkDelivers, PTL DEF LinkSpec

LEMMA OneSidedInvs ==
    TxqBound = 1 /\ OneSided => (LinkSpec => [](LinkInv /\ OneWayInv))
<1> SUFFICES ASSUME TxqBound = 1, OneSided PROVE LinkSpec => [](LinkInv /\ OneWayInv)
  OBVIOUS
<1>1. LinkInv /\ OneWayInv /\ [LinkNext]_linkVars => (LinkInv /\ OneWayInv)'
  BY LinkStepSafe, OneWayStepSafe, OneSidedTold
<1> QED
  BY <1>1, LinkStarts, OneWayInvStarts, PTL DEF LinkSpec

(* When only one application writes, however much, a frame leaves the window *)
(* only when the peer has delivered it (WAIT_ACK, send_ack).                 *)
THEOREM OneWayAckedIsDelivered ==
    TxqBound = 1 /\ OneSided => (LinkSpec => []AckedIsDelivered)
<1> SUFFICES ASSUME TxqBound = 1, OneSided PROVE LinkSpec => []AckedIsDelivered
  OBVIOUS
<1>1. LinkInv /\ OneWayInv => AckedIsDelivered
  BY OneSidedTold
<1> QED
  BY <1>1, OneSidedInvs, PTL

(* And so everything arrives in order, however often the numbers come round. *)
THEOREM OneWayDeliveredInOrder ==
    TxqBound = 1 /\ OneSided => (LinkSpec => []DeliveredIsPrefix)
  BY OneSidedInvs, LinkDelivers, PTL

-----------------------------------------------------------------------------
(* What holds of each station and each wire by itself, whatever has been     *)
(* told: the types, and that only well-formed frames are queued and sent.    *)

HalfInv ==
    /\ AllGood /\ onair \in [Station -> Seq(Frame)] /\ wire \in [Station -> Seq(Frame)]
    /\ \A s \in Station : StationInv(s) /\ WireInv(s)

LEMMA HalfStarts == LinkInit => HalfInv
  BY LinkStarts DEF LinkInv, LinkTypes, HalfInv

(* The station that steps, when types are kept and the other one stays. *)
LEMMA HalfIs ==
    ASSUME HalfInv, NEW s \in Station, AllGood'
    PROVE  Able(s) /\ StationInv(s) /\ WireInv(s) /\ Good(st[s]) /\ Good(st'[s])
<1>1. StationInv(s) /\ WireInv(s) /\ AllGood
  BY DEF HalfInv
<1>2. Good(st[s]) /\ Good(st'[s])
  BY <1>1, StationGood DEF AllGood, WindowIsTail, Good
<1> QED
  BY <1>1, <1>2 DEF Able, StationInv

LEMMA HalfNext ==
    ASSUME HalfInv, NEW s \in Station, AllGood', onair' \in [Station -> Seq(Frame)],
           Others(s), StationInv(s)', wire' \in [Station -> Seq(Frame)],
           \A t \in Station : WireInv(t)'
    PROVE  HalfInv'
<1>1. ASSUME NEW t \in Station, t # s PROVE StationInv(t)'
  BY <1>1 DEF HalfInv, Others, StationInv
<1> QED
  BY <1>1 DEF HalfInv

LEMMA HalfAlone ==
    ASSUME TxqBound = 1, HalfInv, NEW s \in Station, Alone(s)
    PROVE  HalfInv'
<1>1. AllGood' /\ onair' \in [Station -> Seq(Frame)] /\ Others(s)
  BY AloneGood DEF HalfInv
<1>2. Fares(s, s)
  BY <1>1, HalfIs, AloneFares
<1>3. wire' = wire
  BY DEF Alone
<1>4. wire' \in [Station -> Seq(Frame)] /\ \A t \in Station : WireInv(t)'
  BY <1>3 DEF HalfInv, WireInv
<1> QED
  BY <1>1, <1>2, <1>4, HalfNext DEF Fares, StationInv

(* A wire that loses its first frame. *)
LEMMA HalfTail ==
    ASSUME HalfInv, NEW s \in Station, wire[s] # <<>>,
           wire' = [wire EXCEPT ![s] = Tail(@)]
    PROVE  /\ wire' \in [Station -> Seq(Frame)] /\ \A t \in Station : WireInv(t)'
           /\ Sent(Head(wire[s]))
<1>1. /\ wire \in [Station -> Seq(Frame)] /\ \A t \in Station : WireInv(t)
      /\ wire[s] \in Seq(Frame)
  BY DEF HalfInv
<1>2. Takes(wire[s], Tail(wire[s]), Head(wire[s]))
  BY DEF Takes
<1>3. Tail(wire[s]) \in Seq(Frame) /\ Head(wire[s]) = wire[s][1] /\ 1 \in 1 .. Len(wire[s])
  BY <1>1, TailIs
<1>4. Sent(Head(wire[s]))
  BY <1>1, <1>3 DEF WireInv
<1>5. OneBurst(Tail(wire[s])) /\ \A i \in 1 .. Len(Tail(wire[s])) : Sent(Tail(wire[s])[i])
  BY <1>1, <1>2, TakesKeeps DEF WireInv
<1>6. \A t \in Station : wire'[t] = IF t = s THEN Tail(wire[s]) ELSE wire[t]
  BY <1>1
<1>7. \A t \in Station : WireInv(t)'
  BY <1>1, <1>5, <1>6 DEF WireInv
<1> QED
  BY <1>1, <1>3, <1>4, <1>7

LEMMA HalfFade == ASSUME HalfInv, NEW s \in Station, Fade(s) PROVE HalfInv'
<1>1. /\ AllGood' /\ onair' \in [Station -> Seq(Frame)] /\ Others(s) /\ st' = st
  BY StutterGood DEF Fade, HalfInv, Others
<1>2. StationInv(s)'
  BY <1>1 DEF HalfInv, StationInv
<1>3. wire' \in [Station -> Seq(Frame)] /\ \A t \in Station : WireInv(t)'
  BY HalfTail DEF Fade
<1> QED
  BY <1>1, <1>2, <1>3, HalfNext

LEMMA HalfDecode ==
    ASSUME TxqBound = 1, HalfInv, NEW s \in Station, Decode(s)
    PROVE  HalfInv'
<1> DEFINE f == Head(wire[s])
<1>1. /\ wire[s] # <<>> /\ TxRoom(s) /\ OnFrame(s, f) /\ onair' = onair
      /\ wire' = [wire EXCEPT ![s] = Tail(@)]
  BY DEF Decode
<1>2. /\ wire' \in [Station -> Seq(Frame)] /\ (\A t \in Station : WireInv(t)') /\ Sent(f)
  BY <1>1, HalfTail
<1> HIDE DEF f
<1>3. AllGood /\ onair \in [Station -> Seq(Frame)]
  BY DEF HalfInv
<1>4. AllGood'
  BY <1>1, <1>2, <1>3, HandleFrameGood, ForcedTeardownGood DEF OnFrame, Sent
<1>5. Others(s) /\ onair' \in [Station -> Seq(Frame)]
  BY <1>1, <1>3, LocalOthers
<1>6. Able(s) /\ StationInv(s) /\ Good(st[s]) /\ Good(st'[s])
  BY <1>4, HalfIs
<1>7. Moves(st[s], st'[s], f) /\ st[s].txq = <<>>
  BY <1>1, <1>2, <1>6, OnFrameMoves, Idle
<1>8. MaxUnits[s] \in Nat
  BY BoundAssumption
<1>9. StationInv(s)'
  BY <1>6, <1>7, <1>8, IdleQueue, MovesFacts DEF StationInv
<1> QED
  BY <1>2, <1>4, <1>5, <1>9, HalfNext

LEMMA HalfKey == ASSUME HalfInv, NEW s \in Station, Key(s) PROVE HalfInv'
<1>1. PICK p \in Station : s # p /\ Station = {s, p} /\ Peer(s) = p
  BY ThePeer
<1>2. /\ TxStart(s)
      /\ wire' = [wire EXCEPT ![s] = <<>>,
                              ![p] = IF onair[p] # <<>> THEN <<>> ELSE onair'[s]]
  BY <1>1 DEF Key
<1>3. AllGood /\ onair \in [Station -> Seq(Frame)] /\ wire \in [Station -> Seq(Frame)]
  BY DEF HalfInv
<1>4. AllGood' /\ onair' \in [Station -> Seq(Frame)] /\ Others(s)
  BY <1>2, <1>3, TxStartGood, LocalOthers
<1>5. Able(s) /\ StationInv(s) /\ Good(st[s]) /\ Good(st'[s])
  BY <1>4, HalfIs
<1>6. Carries(st'[s], st[s]) /\ Actions(st'[s]) \subseteq Actions(st[s])
  BY <1>2, <1>5, TxStartCarries
<1>7. PICK b \in Actions(st[s]) : onair' = [onair EXCEPT ![s] = b.frames]
  BY <1>2, <1>5, TxStartCarries
<1>8. QueueOf(st'[s])
  BY <1>5, <1>6, CarriedQueue DEF StationInv
<1>9. StationInv(s)'
  BY <1>5, <1>6, <1>8, CarriesFares DEF Fares, StationInv
<1>10. /\ b.frames \in Seq(Frame) /\ OneBurst(b.frames)
       /\ \A i \in 1 .. Len(b.frames) : Sent(b.frames[i])
  BY <1>5, <1>7, QueuedFrames DEF StationInv, QueueOf
<1>11. /\ <<>> \in Seq(Frame) /\ OneBurst(<<>>) /\ \A i \in 1 .. Len(<<>>) : Sent(<<>>[i])
  <2>1. \A i \in 1 .. Len(<<>>) : FALSE
    OBVIOUS
  <2> QED
    BY <2>1 DEF OneBurst, AllData
<1>12. onair'[s] = b.frames
  BY <1>3, <1>7
<1>13. wire'[s] = <<>> /\ wire'[p] \in {<<>>, b.frames}
  BY <1>1, <1>2, <1>3, <1>12
<1>14. wire' \in [Station -> Seq(Frame)]
  BY <1>2, <1>3, <1>10, <1>11, <1>12
<1>15. \A t \in Station : WireInv(t)'
  BY <1>1, <1>10, <1>11, <1>13 DEF WireInv
<1> QED
  BY <1>4, <1>9, <1>14, <1>15, HalfNext

LEMMA HalfInductive == TxqBound = 1 => (LinkSpec => []HalfInv)
<1> SUFFICES ASSUME TxqBound = 1 PROVE LinkSpec => []HalfInv
  OBVIOUS
<1>1. HalfInv /\ [LinkNext]_linkVars => HalfInv'
  <2> SUFFICES ASSUME HalfInv, [LinkNext]_linkVars PROVE HalfInv'
    OBVIOUS
  <2>1. ASSUME NEW s \in Station, LinkStep(s) PROVE HalfInv'
    BY <2>1, HalfAlone, HalfFade, HalfDecode, HalfKey DEF LinkStep
  <2>2. CASE UNCHANGED linkVars
    BY <2>2, StutterGood DEF linkVars, HalfInv, StationInv, WireInv
  <2> QED
    BY <2>1, <2>2 DEF LinkNext
<1> QED
  BY <1>1, HalfStarts, PTL DEF LinkSpec

(* Each station of a link is a station with a peer, so that what was proved  *)
(* of one station holds of both.                                             *)
LEMMA LinkIsOpen == TxqBound = 1 => (LinkSpec => OpenSpec)
<1> SUFFICES ASSUME TxqBound = 1 PROVE LinkSpec => OpenSpec
  OBVIOUS
<1>1. HalfInv /\ [LinkNext]_linkVars => [OpenNext]_vars
  <2> SUFFICES ASSUME HalfInv, [LinkNext]_linkVars PROVE OpenNext \/ UNCHANGED vars
    BY DEF vars
  <2>1. ASSUME NEW s \in Station, Alone(s) \/ Key(s) PROVE OpenNext
    BY <2>1 DEF Alone, LinkCommand, Key, Local, OpenNext
  <2>2. ASSUME NEW s \in Station, Decode(s) PROVE OpenNext
    <3> DEFINE f == Head(wire[s])
    <3>1. wire[s] # <<>> /\ TxRoom(s) /\ OnFrame(s, f) /\ UNCHANGED onair
      BY <2>2 DEF Decode
    <3>2. wire' = [wire EXCEPT ![s] = Tail(@)]
      BY <2>2 DEF Decode
    <3>3. Sent(f)
      BY <3>1, <3>2, HalfTail
    <3> HIDE DEF f
    <3>4. WellFormed(f) /\ f \in Frame
      BY <3>3 DEF Sent, WellFormed
    <3> QED
      BY <3>1, <3>4 DEF Hears, OpenNext
  <2> QED
    BY <2>1, <2>2 DEF LinkNext, LinkStep, Fade, linkVars, vars
<1>2. LinkInit => Init
  BY DEF LinkInit
<1> QED
  BY <1>1, <1>2, HalfInductive, PTL DEF LinkSpec, OpenSpec

(* The two stations of a link keep the mode of a window as a station does    *)
(* with any peer (ModeStays).                                                *)
THEOREM LinkModeStays == TxqBound = 1 => (LinkSpec => ModeKeptInFlight)
  BY OpenModeStays, LinkIsOpen, PTL

(* Neither station of a link is stranded, whatever fades and whichever       *)
(* answers cross, if the hosts do not ABORT (StationsMove).                  *)
THEOREM LinkStationsMove == TxqBound = 1 /\ NoAbort => (LinkSpec => []NeverStranded)
  BY OpenStationsMove, LinkIsOpen, PTL

-----------------------------------------------------------------------------
(* The link implements the stream service. *)

callBar == [s \in Station |-> InCall(s, st[s].session_id, 0)]
sentBar == [s \in Station |-> InCall(s, st[s].txlog, <<>>)]
confirmedBar == [s \in Station |-> InCall(s, Len(st[s].txlog) - Len(st[s].tx_window), 0)]
gotBar == [s \in Station |-> InCall(s, st[s].rxlog, <<>>)]

(* What the service is in, in the words of the link. *)
LEMMA BarIs ==
    ASSUME NEW s \in Station
    PROVE  /\ Up(st[s]) => /\ callBar[s] = st[s].session_id /\ sentBar[s] = st[s].txlog
                           /\ confirmedBar[s] = Base(st[s]) /\ gotBar[s] = st[s].rxlog
           /\ ~Up(st[s]) => /\ callBar[s] = 0 /\ sentBar[s] = <<>>
                            /\ confirmedBar[s] = 0 /\ gotBar[s] = <<>>
  BY DEF callBar, sentBar, confirmedBar, gotBar, InCall, InConn, Up, Base

LEMMA BarNext ==
    ASSUME NEW s \in Station
    PROVE  /\ Up(st'[s]) => /\ callBar'[s] = st'[s].session_id /\ sentBar'[s] = st'[s].txlog
                            /\ confirmedBar'[s] = Base(st'[s]) /\ gotBar'[s] = st'[s].rxlog
           /\ ~Up(st'[s]) => /\ callBar'[s] = 0 /\ sentBar'[s] = <<>>
                             /\ confirmedBar'[s] = 0 /\ gotBar'[s] = <<>>
  BY DEF callBar, sentBar, confirmedBar, gotBar, InCall, InConn, Up, Base

LEMMA GrowsPrefix ==
    ASSUME NEW s \in Seq(Nat), NEW t \in Seq(Nat), Grows(s, t)
    PROVE  IsPrefix(s, t)
  BY DEF IsPrefix, Grows

LEMMA StreamJoin ==
    ASSUME NEW s, NEW p, StepFacts(s, p), NEW f, Goes(st[s], st'[s], f),
           IdOf(st'[s]), ~Up(st[s]), Up(st'[s])
    PROVE  Stream!Join(s)
<1>1. Joins(st[s], st'[s], f) /\ s \in Station /\ st'[p] = st[p] /\ Station = {s, p} /\ s # p
      /\ ended \in [Station -> SUBSET Nat]
  BY DEF Goes, StepFacts, LinkInv, LinkTypes
<1>2. ended' = ended
  BY <1>1 DEF StepFacts, RecordEnds, Leaves, InConn, Up
<1>3. st'[s].session_id \in SessionIds
  BY DEF IdOf, Up
<1>4. callBar[s] = 0 /\ callBar'[s] = st'[s].session_id
  BY <1>1, BarIs, BarNext
<1>5. sentBar'[s] = <<>> /\ confirmedBar'[s] = 0 /\ gotBar'[s] = st'[s].rxlog
  <2>1. Len(<<>>) - Len(<<>>) = 0
    OBVIOUS
  <2>2. st'[s].txlog = <<>> /\ st'[s].tx_window = <<>>
    BY <1>1 DEF Joins
  <2>3. Base(st'[s]) = 0
    BY <2>1, <2>2 DEF Base
  <2> QED
    BY <1>1, <2>2, <2>3, BarNext
<1>6. Len(gotBar'[s]) <= 1
  <2>1. Len(<<>>) <= 1 /\ \A e : Len(<<e>>) <= 1
    OBVIOUS
  <2> QED
    BY <1>1, <1>5, <2>1 DEF Joins
<1> QED
  BY <1>2, <1>3, <1>4, <1>5, <1>6 DEF Stream!Join, callBar, sentBar, confirmedBar, gotBar

LEMMA StreamLeave ==
    ASSUME NEW s, NEW p, StepFacts(s, p), IdOf(st[s]), Up(st[s]), ~Up(st'[s])
    PROVE  Stream!Leave(s)
<1>1. s \in Station /\ st'[p] = st[p] /\ Station = {s, p} /\ s # p
      /\ ended \in [Station -> SUBSET Nat]
  BY DEF StepFacts, LinkInv, LinkTypes
<1>2. st[s].session_id # 0
  BY SessionIdAssumption DEF IdOf, Up
<1>3. callBar[s] = st[s].session_id /\ callBar'[s] = 0
      /\ sentBar'[s] = <<>> /\ confirmedBar'[s] = 0 /\ gotBar'[s] = <<>>
  BY <1>1, BarIs, BarNext
<1>4. ended' = [ended EXCEPT ![s] = @ \cup {callBar[s]}]
  BY <1>1, <1>3 DEF StepFacts, RecordEnds, Leaves, InConn, Up
<1> QED
  BY <1>2, <1>3, <1>4 DEF Stream!Leave, callBar, sentBar, confirmedBar, gotBar

LEMMA StreamExchange ==
    ASSUME NEW s, NEW p, StepFacts(s, p), NEW f, Goes(st[s], st'[s], f),
           f = NoFrame \/ f \in Frame, IdOf(st[s]), Up(st[s]), Up(st'[s])
    PROVE  Stream!Exchange(s)
<1> DEFINE r == st[s]
           q == st'[s]
<1>1. s \in Station /\ st'[p] = st[p] /\ Station = {s, p} /\ s # p
      /\ ended \in [Station -> SUBSET Nat] /\ Good(r) /\ Good(q)
      /\ InSession(r, q, f) /\ q.session_id = r.session_id
  <2>1. s \in Station /\ LinkInv
    BY DEF StepFacts
  <2> QED
    BY <2>1, StationGood DEF StepFacts, LinkInv, LinkTypes, Goes
<1>2. r.session_id # 0
  BY SessionIdAssumption DEF IdOf, Up
<1>3. ended' = ended
  BY <1>1 DEF StepFacts, RecordEnds, Leaves, InConn, Up
<1>4. /\ callBar[s] = r.session_id /\ callBar'[s] = r.session_id
      /\ sentBar[s] = r.txlog /\ sentBar'[s] = q.txlog
      /\ confirmedBar[s] = Base(r) /\ confirmedBar'[s] = Base(q)
      /\ gotBar[s] = r.rxlog /\ gotBar'[s] = q.rxlog
  BY <1>1, BarIs, BarNext
<1> HIDE DEF r, q
<1>5. /\ r.txlog \in Seq(Nat) /\ q.txlog \in Seq(Nat)
      /\ r.rxlog \in Seq(Nat) /\ q.rxlog \in Seq(Nat)
  BY <1>1, Fields
<1>6. IsPrefix(r.txlog, q.txlog)
  BY <1>1, <1>5, GrowsPrefix DEF InSession
<1>7. IsPrefix(r.rxlog, q.rxlog) /\ Len(q.rxlog) <= Len(r.rxlog) + 1
  <2>1. CASE q.rxlog = r.rxlog
    <3>1. Grows(r.rxlog, r.rxlog) /\ Len(r.rxlog) \in Nat
      BY <1>5, GrowsItself
    <3> QED
      BY <1>5, <2>1, <3>1, GrowsPrefix
  <2>2. ASSUME NEW e, q.rxlog = Append(r.rxlog, e)
        PROVE  IsPrefix(r.rxlog, q.rxlog) /\ Len(q.rxlog) <= Len(r.rxlog) + 1
    <3>1. Len(r.rxlog) \in Nat /\ Len(q.rxlog) = Len(r.rxlog) + 1
          /\ \A i \in 1 .. Len(r.rxlog) : q.rxlog[i] = r.rxlog[i]
      BY <1>5, <2>2
    <3>2. Grows(r.rxlog, q.rxlog)
      BY <3>1 DEF Grows
    <3> QED
      BY <1>5, <3>1, <3>2, GrowsPrefix
  <2> QED
    BY <1>1, <2>1, <2>2 DEF InSession
<1>8. Base(r) <= Base(q) /\ Base(q) <= Len(r.txlog)
  <2>1. /\ Base(r) \in Nat /\ Len(r.txlog) \in Nat /\ Base(r) <= Len(r.txlog)
        /\ Len(r.txlog) = Base(r) + Len(r.tx_window) /\ Len(r.tx_window) \in Nat
    BY <1>1, BaseType
  <2>2. CASE Base(q) \in {Base(r), Len(r.txlog)}
    BY <2>1, <2>2
  <2>3. CASE f.type = "ACK" /\ Base(q) = Base(r) + AckedCount(r.tx_window, f.seq)
             /\ Base(q) # Base(r)
    <3>1. AckedCount(r.tx_window, f.seq) <= Len(r.tx_window)
          /\ AckedCount(r.tx_window, f.seq) \in Nat
      <4>1. f.seq \in Nat
        BY <2>3, WindowAssumption DEF NoFrame, Frame
      <4>2. AckedCount(r.tx_window, f.seq) \in 0 .. Len(r.tx_window)
        BY <1>1, <4>1, AckedCountBound
      <4> QED
        BY <2>1, <4>2
    <3> QED
      BY <2>1, <2>3, <3>1
  <2> QED
    BY <1>1, <2>2, <2>3 DEF InSession
<1>9. /\ callBar[s] # 0 /\ callBar'[s] = callBar[s]
      /\ IsPrefix(sentBar[s], sentBar'[s])
      /\ confirmedBar[s] <= confirmedBar'[s] /\ confirmedBar'[s] <= Len(sentBar[s])
      /\ IsPrefix(gotBar[s], gotBar'[s]) /\ Len(gotBar'[s]) <= Len(gotBar[s]) + 1
      /\ UNCHANGED ended
  <2>1. callBar[s] # 0 /\ callBar'[s] = callBar[s]
    BY <1>2, <1>4
  <2>2. IsPrefix(sentBar[s], sentBar'[s])
    BY <1>4, <1>6
  <2>3. confirmedBar[s] <= confirmedBar'[s] /\ confirmedBar'[s] <= Len(sentBar[s])
    BY <1>4, <1>8
  <2>4. IsPrefix(gotBar[s], gotBar'[s]) /\ Len(gotBar'[s]) <= Len(gotBar[s]) + 1
    BY <1>4, <1>7
  <2> QED
    BY <1>3, <2>1, <2>2, <2>3, <2>4
<1> QED
  BY <1>9
  DEF Stream!Exchange, IsPrefix, Stream!IsPrefix, callBar, sentBar, confirmedBar, gotBar

(* Nothing the service knows of changes. *)
LEMMA StreamRests ==
    ASSUME NEW s, NEW p, StepFacts(s, p), ~Up(st[s]), ~Up(st'[s])
    PROVE  UNCHANGED <<callBar, ended, sentBar, confirmedBar, gotBar>>
<1>1. s \in Station /\ p \in Station /\ st'[p] = st[p] /\ Station = {s, p}
      /\ ended \in [Station -> SUBSET Nat]
  BY DEF StepFacts, LinkInv, LinkTypes
<1>2. ended' = ended
  BY <1>1 DEF StepFacts, RecordEnds, Leaves, InConn, Up
<1>3. \A t \in Station : /\ callBar'[t] = callBar[t] /\ sentBar'[t] = sentBar[t]
                          /\ confirmedBar'[t] = confirmedBar[t] /\ gotBar'[t] = gotBar[t]
  <2>1. \A t \in Station : (Up(st'[t]) <=> Up(st[t])) /\ (Up(st[t]) => st'[t] = st[t])
    BY <1>1
  <2> QED
    BY <2>1, BarIs, BarNext
<1>4. /\ callBar' = callBar /\ sentBar' = sentBar
      /\ confirmedBar' = confirmedBar /\ gotBar' = gotBar
  BY <1>3 DEF callBar, sentBar, confirmedBar, gotBar
<1> QED
  BY <1>2, <1>4

LEMMA StreamOnly ==
    ASSUME NEW s, NEW p, StepFacts(s, p)
    PROVE  Stream!Only(s)
<1>1. p \in Station /\ st'[p] = st[p] /\ Station = {s, p}
  BY DEF StepFacts
<1>2. /\ callBar'[p] = callBar[p] /\ sentBar'[p] = sentBar[p]
      /\ confirmedBar'[p] = confirmedBar[p] /\ gotBar'[p] = gotBar[p]
  BY <1>1, BarIs, BarNext
<1>3. \A t \in Station \ {s} : t = p
  BY <1>1
<1> QED
  BY <1>2, <1>3 DEF Stream!Only, callBar, sentBar, confirmedBar, gotBar

LEMMA StreamFaithful ==
    ASSUME DeliveredIsPrefix', AckedIsDelivered'
    PROVE  Stream!Faithful'
<1> SUFFICES ASSUME NEW a \in Station, NEW b \in Station,
                    a # b, callBar'[a] # 0, callBar'[a] = callBar'[b],
                    callBar'[a] \notin ended'[a] \cup ended'[b]
             PROVE  IsPrefix(gotBar'[b], sentBar'[a]) /\ confirmedBar'[a] <= Len(gotBar'[b])
  BY DEF Stream!Faithful, Stream!Shared, IsPrefix, Stream!IsPrefix,
         callBar, sentBar, confirmedBar, gotBar
<1>1. Up(st'[a]) /\ Up(st'[b])
  BY BarNext
<1>2. SameSession(a, b)'
  BY <1>1, BarNext DEF SameSession, InConn, Up
<1>3. IsPrefix(st'[b].rxlog, st'[a].txlog)
      /\ Len(st'[a].txlog) - Len(st'[a].tx_window) <= Len(st'[b].rxlog)
  BY <1>2 DEF DeliveredIsPrefix, AckedIsDelivered
<1> QED
  BY <1>1, <1>3, BarNext DEF Base

LEMMA StreamStep ==
    ASSUME NEW s, NEW p, StepFacts(s, p), NEW f, Goes(st[s], st'[s], f),
           f = NoFrame \/ f \in Frame, IdOf(st[s]), IdOf(st'[s]),
           DeliveredIsPrefix', AckedIsDelivered'
    PROVE  [Stream!Next]_(Stream!streamVars)
<1>1. Stream!Only(s) /\ Stream!Faithful' /\ s \in Station
  BY StreamOnly, StreamFaithful DEF StepFacts
<1>2. CASE ~Up(st[s]) /\ ~Up(st'[s])
  <2>1. UNCHANGED <<callBar, ended, sentBar, confirmedBar, gotBar>>
    BY <1>2, StreamRests
  <2>2. UNCHANGED Stream!streamVars
    BY <2>1 DEF Stream!streamVars, callBar, sentBar, confirmedBar, gotBar
  <2> QED
    BY <2>2
<1>3. CASE ~Up(st[s]) /\ Up(st'[s])
  BY <1>1, <1>3, StreamJoin DEF Stream!Next
<1>4. CASE Up(st[s]) /\ ~Up(st'[s])
  BY <1>1, <1>4, StreamLeave DEF Stream!Next
<1>5. CASE Up(st[s]) /\ Up(st'[s])
  BY <1>1, <1>5, StreamExchange DEF Stream!Next
<1> QED
  BY <1>2, <1>3, <1>4, <1>5

LEMMA LinkStepStreams ==
    ASSUME TxqBound = 1, LinkInv, [LinkNext]_linkVars, DeliveredIsPrefix', AckedIsDelivered'
    PROVE  [Stream!Next]_(Stream!streamVars)
<1>1. CASE LinkNext
  <2>1. PICK s \in Station, p \in Station :
           (\E f : TakeFacts(s, p, f)) \/ (\E b : KeyFacts(s, p, b))
    BY <1>1, LinkSteps
  <2>2. IdOf(st[s])
    BY DEF LinkInv, StationInv
  <2>3. ASSUME NEW f, TakeFacts(s, p, f)
        PROVE  [Stream!Next]_(Stream!streamVars)
    <3>1. f = NoFrame \/ f \in Frame
      <4>1. wire[s] \in Seq(Frame) /\ Takes(wire[s], wire'[s], f)
        BY <2>3 DEF TakeFacts, LinkInv, LinkTypes
      <4>2. wire[s] # <<>> => Head(wire[s]) \in Frame
        BY <4>1, TailIs
      <4> QED
        BY <4>1, <4>2 DEF Takes
    <3> QED
      BY <2>2, <2>3, <3>1, StreamStep DEF TakeFacts
  <2>4. ASSUME NEW b, KeyFacts(s, p, b)
        PROVE  [Stream!Next]_(Stream!streamVars)
    BY <2>2, <2>4, StreamStep DEF KeyFacts, StationInv
  <2> QED
    BY <2>1, <2>3, <2>4
<1>2. CASE UNCHANGED linkVars
  BY <1>2 DEF linkVars, Stream!streamVars, InCall, InConn
<1> QED
  BY <1>1, <1>2

LEMMA StreamStarts == LinkInit => Stream!Init
<1> SUFFICES ASSUME LinkInit PROVE Stream!Init
  OBVIOUS
<1>1. \A s \in Station : ~Up(st[s])
  BY DEF LinkInit, Init, InitSession, Up
<1> QED
  BY <1>1 DEF Stream!Init, LinkInit, InCall, InConn, Up

(* Refinement: a link whose windows give up only what has been delivered    *)
(* implements the stream service, however often the numbers come round; and *)
(* when only one application writes, it does so without any condition.       *)
THEOREM AckedLinkStreams == TxqBound = 1 => (LinkSpec /\ []AckedIsDelivered => ImplementsStream)
<1> SUFFICES ASSUME TxqBound = 1
             PROVE  LinkSpec /\ []AckedIsDelivered => ImplementsStream
  OBVIOUS
<1>1. LinkInv /\ AckedIsDelivered /\ [LinkNext]_linkVars => LinkInv'
  BY LinkStepSafe, AckedTold
<1>2. LinkInv /\ LinkInv' /\ AckedIsDelivered' /\ [LinkNext]_linkVars
         => [Stream!Next]_(Stream!streamVars)
  <2>1. LinkInv' => DeliveredIsPrefix'
    BY LinkDelivers, PTL
  <2> QED
    BY <2>1, LinkStepStreams
<1> QED
  BY <1>1, <1>2, LinkStarts, StreamStarts, PTL DEF LinkSpec, ImplementsStream, Stream!Spec

THEOREM OneWayLinkStreams == TxqBound = 1 /\ OneSided => (LinkSpec => ImplementsStream)
  BY AckedLinkStreams, OneWayAckedIsDelivered, PTL

-----------------------------------------------------------------------------
(* Data both ways, while a burst is one frame.  Two stations that both think *)
(* they may send are told apart by what has been delivered: one of them has  *)
(* in hand what the other one has already got, so that a frame of the other  *)
(* one is as good as the ACK it takes it for.                                *)

\* A burst is in the queue alone, and while it is in hand.
Lone(r) == Up(r) => \A b \in Actions(r) : ~b.control => InHand(r) /\ r.txq = <<b>>

\* What x has in hand has been delivered to y.
Known(x, y) == InHand(x) /\ Len(x.txlog) <= Len(y.rxlog)

\* g is a frame of x that is queued, or on w, the wire of the peer.
Pends(x, w, g) ==
    \/ \E b \in Actions(x) : \E i \in 1 .. Len(b.frames) : g = b.frames[i]
    \/ \E i \in 1 .. Len(w) : g = w[i]

\* What a frame that x has sent says is still so.
Honest(x, y, g) ==
    /\ g.type # "ACCEPT"
    /\ g.type = "DATA" => InHand(x)
    /\ g.type = "MODE_REQ" => HasTurn(x) /\ (Up(y) => Len(y.rxlog) <= Base(x))
    /\ g.type = "TURN_ACK" => ~MayTake(x)
    /\ g.type = "ACK" => g.has_data \/ ~MayTake(x) \/ x.rxlog = <<>>

TurnPair(x, y, w) ==
    Up(x) =>
        /\ \A g : Pends(x, w, g) => Honest(x, y, g)
        /\ (\E i \in 1 .. Len(w) : w[i].type = "DATA") =>
              \A b \in Actions(x) : b.control => b.frames[1].type # "MODE_REQ"
        /\ Confirming(x) => x.rxlog = <<>>
        /\ Up(y) /\ MayTake(x) /\ MayTake(y) => Known(x, y) \/ Known(y, x)

TurnInv ==
    /\ \A s \in Station : Poised(st[s]) /\ Lone(st[s])
    /\ \A a, b \in Station :
          a # b /\ Share(a, b) =>
              TurnPair(st[a], st[b], wire[b]) /\ AckOf(st[a], st[b], wire[a])

(* A step of one end of a session, with what is known of both. *)
TurnStepOf(r, q, y, v, u, w, f) ==
    /\ StepOf(r, q, y, v, u, w, f) /\ Turns(r, q, f) /\ Implies(r, q, f)
    /\ QueueOf(q) /\ QueueOf(y) /\ Lone(r) /\ Poised(r) /\ (f # NoFrame => r.txq = <<>>)
    /\ TurnPair(r, y, w) /\ TurnPair(y, r, v) /\ AckOf(r, y, v) /\ AckOf(y, r, w)

LEMMA AddsActions ==
    ASSUME NEW r, NEW q, Good(r), Adds(r, q), NEW b \in Actions(q)
    PROVE  \/ b \in Actions(r) /\ (q.txq = r.txq \/ \E g : q.txq = Append(r.txq, Control(g)) /\ UttersControl(r, q, g))
           \/ \E g : b = Control(g) /\ UttersControl(r, q, g)
           \/ ~b.control /\ InHand(q) /\ q.txq = <<b>>
<1>0. r.txq \in Seq(Burst)
  BY Fields
<1>2. PICK i \in 1 .. Len(q.txq) : b = q.txq[i]
  BY DEF Actions
<1>4. CASE q.txq = <<>>
  BY <1>2, <1>4
<1>5. ASSUME NEW g, q.txq = Append(r.txq, Control(g)), UttersControl(r, q, g)
      PROVE  \/ b \in Actions(r)
             \/ b = Control(g)
  <2>1. Len(q.txq) = Len(r.txq) + 1 /\ Len(r.txq) \in Nat
    BY <1>0, <1>5
  <2>2. \A j \in 1 .. Len(r.txq) : q.txq[j] = r.txq[j]
    BY <1>0, <1>5
  <2>3. q.txq[Len(r.txq) + 1] = Control(g)
    BY <1>0, <1>5
  <2>4. i \in 1 .. Len(r.txq) \/ i = Len(r.txq) + 1
    BY <1>2, <2>1
  <2> QED
    BY <1>2, <2>2, <2>3, <2>4 DEF Actions
<1>6. ASSUME NEW c, ~c.control, q.txq = Append(<<>>, c), InHand(q)
      PROVE  ~b.control /\ InHand(q) /\ q.txq = <<b>>
  <2>1. q.txq = <<c>> /\ Len(<<c>>) = 1 /\ <<c>>[1] = c
    BY <1>6
  <2>2. b = c
    BY <1>2, <2>1
  <2> QED
    BY <1>6, <2>1, <2>2
<1>7. ASSUME NEW g, q.txq = Append(r.txq, Control(g)), UttersControl(r, q, g)
      PROVE  \/ b \in Actions(r) /\ \E h : q.txq = Append(r.txq, Control(h)) /\ UttersControl(r, q, h)
             \/ \E h : b = Control(h) /\ UttersControl(r, q, h)
  BY <1>5, <1>7
<1>8. ASSUME NEW c, ~c.control, q.txq = Append(<<>>, c), InHand(q)
      PROVE  ~b.control /\ InHand(q) /\ q.txq = <<b>>
  BY <1>6, <1>8
<1>9. q.txq = r.txq => b \in Actions(r)
  BY <1>2 DEF Actions
<1>10. q.txq # <<>>
  BY <1>4
<1> QED
  BY <1>7, <1>8, <1>9, <1>10 DEF Adds

LEMMA TurnsLone ==
    ASSUME NEW r, NEW q, NEW f, Good(r), Lone(r), Turns(r, q, f), Goes(r, q, f),
           f # NoFrame => r.txq = <<>>
    PROVE  Lone(q)
<1> SUFFICES ASSUME Up(q), NEW b \in Actions(q), ~b.control
             PROVE  InHand(q) /\ q.txq = <<b>>
  BY DEF Lone
<1>1. Adds(r, q)
  BY DEF Turns
<1>2. b \in Actions(r) => Up(r) /\ f = NoFrame /\ InHand(r) /\ r.txq = <<b>>
  <2> SUFFICES ASSUME b \in Actions(r) PROVE Up(r) /\ f = NoFrame /\ InHand(r) /\ r.txq = <<b>>
    OBVIOUS
  <2>1. r.txq # <<>>
    <3>1. Len(<<>>) = 0
      OBVIOUS
    <3> QED
      BY <3>1 DEF Actions
  <2>2. f = NoFrame
    BY <2>1
  <2>3. Up(r)
    BY <2>2, NoFrameGoes
  <2> QED
    BY <2>2, <2>3 DEF Lone
<1>3. CASE b \in Actions(r) /\ q.txq = r.txq
  <2>1. Holds(q, r)
    BY <1>2, <1>3 DEF Turns, NoFrame, Brings
  <2> QED
    BY <1>2, <1>3, <2>1 DEF Holds
<1>4. ~ (b \in Actions(r) /\ \E g : UttersControl(r, q, g))
  <2>1. \A c : <<c>> # <<>>
    OBVIOUS
  <2> QED
    BY <1>2, <2>1 DEF UttersControl
<1>5. \A g : b # Control(g)
  BY DEF Control
<1> QED
  BY <1>1, <1>3, <1>4, <1>5, AddsActions

(* The frame that is taken is one that was under way, and so is what is left. *)
LEMMA TakenPends ==
    ASSUME NEW v \in Seq(Frame), NEW u, NEW f, Takes(v, u, f)
    PROVE  /\ f # NoFrame => v # <<>> /\ f = v[1] /\ 1 \in 1 .. Len(v)
           /\ \A i \in 1 .. Len(u) : \E j \in 1 .. Len(v) : u[i] = v[j]
           /\ f.type = "DATA" /\ OneBurst(v) => AllData(v) /\ AllData(u)
<1>1. CASE u = v /\ f = NoFrame
  BY <1>1 DEF NoFrame
<1>2. CASE v # <<>> /\ u = Tail(v) /\ f \in {Head(v), NoFrame}
  <2>1. /\ 1 \in 1 .. Len(v) /\ Head(v) = v[1] /\ Len(v) \in Nat /\ Len(u) = Len(v) - 1
        /\ \A i \in 1 .. Len(u) : u[i] = v[i + 1] /\ i + 1 \in 1 .. Len(v)
    BY <1>2, TailIs
  <2>2. ASSUME f.type = "DATA", OneBurst(v) PROVE AllData(v) /\ AllData(u)
    <3>1. f = v[1]
      BY <1>2, <2>1, <2>2 DEF NoFrame
    <3>2. Len(v) = 1 => \A i \in 1 .. Len(v) : i = 1
      OBVIOUS
    <3>3. AllData(v)
      BY <2>2, <3>1, <3>2 DEF OneBurst, AllData
    <3> QED
      BY <2>1, <3>3 DEF AllData
  <2> QED
    BY <1>2, <2>1, <2>2
<1> QED
  BY <1>1, <1>2 DEF Takes

(* The lengths of the four streams after a step. *)
LEMMA TurnLengths ==
    ASSUME NEW r, NEW q, NEW y, NEW v, NEW u, NEW w, NEW f, TurnStepOf(r, q, y, v, u, w, f)
    PROVE  /\ Pair(q, y, u, w) /\ Pair(y, q, w, u)
           /\ Up(q) /\ Up(y) => Len(y.rxlog) <= Len(q.txlog) /\ Len(q.rxlog) <= Len(y.txlog)
           /\ Up(r) /\ Up(q) => Len(r.rxlog) <= Len(q.rxlog)
<1>0. StepOf(r, q, y, v, u, w, f) /\ AckOf(y, r, w)
  BY DEF TurnStepOf
<1>1. Up(r) /\ Up(y) => Told(y, r)
  BY <1>0 DEF AckOf, Told
<1>2. Pair(q, y, u, w) /\ Pair(y, q, w, u)
  BY <1>0, <1>1, SenderPair, ReceiverPair
<1>3. Up(q) /\ Up(y) => Len(y.rxlog) <= Len(q.txlog) /\ Len(q.rxlog) <= Len(y.txlog)
  BY <1>2 DEF Pair, Prefix, Grows
<1>4. ASSUME Up(r), Up(q) PROVE Len(r.rxlog) <= Len(q.rxlog)
  <2>1. InSession(r, q, f) /\ r.rxlog \in Seq(Nat)
    BY <1>0, <1>4, Fields DEF StepOf, Goes
  <2>2. Len(r.rxlog) \in Nat /\ \A e : Len(Append(r.rxlog, e)) = Len(r.rxlog) + 1
    BY <2>1
  <2> QED
    BY <2>1, <2>2 DEF InSession
<1> QED
  BY <1>2, <1>3, <1>4

LEMMA HeldWindow ==
    ASSUME NEW x, Good(x), InHand(x)
    PROVE  Base(x) < Len(x.txlog) /\ MayTake(x)
<1>1. x.tx_window \in Seq(Slot) /\ x.tx_window # <<>>
  BY Fields DEF InHand
<1>2. \A t \in Seq(Slot) : t # <<>> => Len(t) > 0
  OBVIOUS
<1>3. /\ Len(x.txlog) = Base(x) + Len(x.tx_window) /\ Len(x.tx_window) \in Nat
      /\ Base(x) \in Nat /\ Len(x.tx_window) > 0
  BY <1>1, <1>2, BaseType
<1> QED
  BY <1>3 DEF InHand, MayTake, HasTurn

(* The frame that is taken is one that its sender could still stand by. *)
LEMMA TakenHonest ==
    ASSUME NEW r, NEW q, NEW y, NEW v, NEW u, NEW w, NEW f, TurnStepOf(r, q, y, v, u, w, f),
           Up(y), f # NoFrame
    PROVE  Honest(y, r, f)
<1>1. v \in Seq(Frame) /\ Takes(v, u, f) /\ TurnPair(y, r, v)
  BY DEF TurnStepOf, StepOf
<1>2. Pends(y, v, f)
  BY <1>1, TakenPends DEF Pends
<1> QED
  BY <1>1, <1>2 DEF TurnPair

(* Who brings a unit has no more than it in hand. *)
LEMMA BringsKnown ==
    ASSUME BurstFrames = 1, NEW r, NEW q, NEW y, NEW v, NEW u, NEW w, NEW f,
           TurnStepOf(r, q, y, v, u, w, f), Up(q), Up(y), Brings(r, q, f)
    PROVE  Known(y, q) /\ (Up(r) => Len(r.rxlog) < Len(y.txlog))
<1>0. /\ Good(y) /\ Good(r) /\ StepOf(r, q, y, v, u, w, f) /\ AckOf(y, r, w)
      /\ Goes(r, q, f)
  BY DEF TurnStepOf, StepOf
<1>1. f.type = "DATA" /\ f # NoFrame
  BY DEF Brings, NoFrame
<1>2. InHand(y)
  BY <1>1, TakenHonest DEF Honest
<1>3. /\ Base(y) \in Nat /\ Len(y.txlog) \in Nat /\ Len(y.txlog) <= Base(y) + 1
      /\ Len(r.rxlog) \in Nat /\ r.rxlog \in Seq(Nat)
  BY <1>0, BaseType, Fields
<1>4. CASE Up(r)
  <2>1. InSession(r, q, f) /\ Base(y) <= Len(r.rxlog)
    BY <1>0, <1>4 DEF Goes, AckOf
  <2>2. q.rxlog = Append(r.rxlog, f.unit)
    BY <1>4, <2>1 DEF InSession, Brings
  <2>3. Len(q.rxlog) = Len(r.rxlog) + 1
    BY <1>3, <2>2
  <2>4. Len(q.rxlog) <= Len(y.txlog)
    BY TurnLengths
  <2> QED
    BY <1>2, <1>3, <2>1, <2>3, <2>4 DEF Known
<1>5. CASE ~Up(r)
  <2>1. Joins(r, q, f) /\ Base(y) = 0
    BY <1>0, <1>5 DEF Goes, StepOf, Pair, NotYet
  <2>2. q.rxlog = <<f.unit>>
    BY <1>5, <2>1 DEF Joins, Brings
  <2>3. Len(q.rxlog) = 1
    BY <2>2
  <2> QED
    BY <1>2, <1>3, <1>5, <2>1, <2>3 DEF Known
<1> QED
  BY <1>4, <1>5

(* Two that may both send are told apart after the step too. *)
LEMMA BothTake ==
    ASSUME BurstFrames = 1, NEW r, NEW q, NEW y, NEW v, NEW u, NEW w, NEW f,
           TurnStepOf(r, q, y, v, u, w, f), Up(q), Up(y), MayTake(q), MayTake(y)
    PROVE  Known(q, y) \/ Known(y, q)
<1>0. Turns(r, q, f) /\ TurnPair(r, y, w) /\ Good(r) /\ Good(y) /\ Good(q)
  BY DEF TurnStepOf, StepOf, Goes
<1>1. ~ (f.type \in {"TURN_ACK", "ACCEPT"})
  <2>1. f.type \in {"TURN_ACK", "ACCEPT"} => f # NoFrame
    BY DEF NoFrame
  <2> QED
    BY <2>1, TakenHonest DEF Honest
<1>2. CASE Brings(r, q, f)
  BY <1>2, BringsKnown
<1>3. CASE ~Brings(r, q, f)
  <2>1. Up(r) /\ MayTake(r)
    BY <1>0, <1>1, <1>3 DEF Turns
  <2>2. Known(r, y) \/ Known(y, r)
    BY <1>0, <2>1 DEF TurnPair
  <2>3. Len(r.rxlog) <= Len(q.rxlog) /\ Len(r.rxlog) \in Nat /\ Len(q.rxlog) \in Nat
        /\ Len(y.txlog) \in Nat
    BY <1>0, <2>1, TurnLengths, BaseType
  <2>4. Known(y, r) => Known(y, q)
    BY <2>3 DEF Known
  <2>5. ASSUME Known(r, y) PROVE Known(q, y)
    <3>1. InHand(r) /\ Len(r.txlog) <= Len(y.rxlog)
      BY <2>5 DEF Known
    <3>2. ~ (f.type = "ACK" /\ ~f.has_data)
      <4> SUFFICES ASSUME f.type = "ACK", ~f.has_data PROVE FALSE
        OBVIOUS
      <4>1. f # NoFrame
        BY DEF NoFrame
      <4>2. y.rxlog = <<>>
        BY <4>1, TakenHonest DEF Honest
      <4>3. Len(y.rxlog) = 0
        BY <4>2
      <4>4. Base(r) < Len(r.txlog) /\ Base(r) \in Nat /\ Len(r.txlog) \in Nat
        BY <1>0, <3>1, HeldWindow, BaseType
      <4> QED
        BY <3>1, <4>3, <4>4
    <3>3. Holds(q, r)
      BY <1>0, <1>3, <2>1, <3>1, <3>2 DEF Turns
    <3> QED
      BY <3>1, <3>3 DEF Known, Holds
  <2> QED
    BY <2>2, <2>4, <2>5
<1> QED
  BY <1>2, <1>3


(* What is put into the queue is so when it is put there. *)
LEMMA UtteredHonest ==
    ASSUME NEW r, NEW q, NEW y, Good(q), Prefix(q, y), Up(q), NEW g, UttersControl(r, q, g),
           Confirming(r) => r.rxlog = <<>>
    PROVE  Honest(q, y, g)
<1>1. g.type = "MODE_REQ" /\ Up(y) => Len(y.rxlog) <= Base(q)
  <2> SUFFICES ASSUME g.type = "MODE_REQ", Up(y) PROVE Len(y.rxlog) <= Base(q)
    OBVIOUS
  <2>1. Len(y.rxlog) <= Len(q.txlog) /\ q.tx_window = <<>>
    BY DEF Prefix, Grows, UttersControl
  <2>2. Base(q) = Len(q.txlog)
    <3>1. Len(q.txlog) = Base(q) + Len(q.tx_window) /\ Base(q) \in Nat /\ Len(q.tx_window) = 0
      BY <2>1, BaseType
    <3> QED
      BY <3>1
  <2> QED
    BY <2>1, <2>2
<1>2. g.type = "ACK" => g.has_data \/ ~MayTake(q) \/ q.rxlog = <<>>
  BY DEF UttersControl
<1>3. g.type # "ACCEPT" /\ g.type # "DATA"
  BY DEF UttersControl
<1>4. (g.type = "MODE_REQ" => HasTurn(q)) /\ (g.type = "TURN_ACK" => ~MayTake(q))
  BY DEF UttersControl
<1> QED
  BY <1>1, <1>2, <1>3, <1>4 DEF Honest

(* A frame of an action is its only one, or is DATA. *)
LEMMA FramesOf ==
    ASSUME NEW r, NEW b, Queued(b, r), NEW i \in 1 .. Len(b.frames)
    PROVE  IF b.control THEN b.frames[i] = b.frames[1] /\ b.frames[i].type # "DATA"
           ELSE b.frames[i].type = "DATA"
<1>1. ASSUME NEW g \in Frame, b = Control(g), QueuedControl(g, r)
      PROVE  b.control /\ b.frames[i] = b.frames[1] /\ b.frames[i].type # "DATA"
  <2>1. b.frames = <<g>> /\ b.control = TRUE /\ Len(<<g>>) = 1 /\ <<g>>[1] = g
    BY <1>1 DEF Control
  <2>2. i = 1
    BY <2>1
  <2> QED
    BY <1>1, <2>1, <2>2 DEF QueuedControl
<1>2. ASSUME ~b.control, QueuedData(b.frames, r)
      PROVE  b.frames[i].type = "DATA"
  BY <1>2 DEF QueuedData
<1> QED
  BY <1>1, <1>2 DEF Queued

(* What was said before a step without a frame is still so after it. *)
LEMMA StillHonest ==
    ASSUME NEW r, NEW q, NEW y, Turns(r, q, NoFrame), Goes(r, q, NoFrame), Up(q),
           NEW g, Honest(r, y, g)
    PROVE  Honest(q, y, g)
<1>0. NoFrame.type = "none"
  BY DEF NoFrame
<1>1. Up(r) /\ q.rxlog = r.rxlog /\ Base(q) = Base(r)
  BY NoFrameGoes
<1>2. ~Brings(r, q, NoFrame)
  BY <1>0 DEF Brings
<1>3. MayTake(q) => MayTake(r)
  BY <1>0, <1>2 DEF Turns
<1>4. HasTurn(r) => HasTurn(q)
  BY <1>1 DEF Turns
<1>5. InHand(r) => InHand(q)
  <2>1. InHand(r) => Holds(q, r)
    BY <1>0, <1>1, <1>2 DEF Turns
  <2> QED
    BY <2>1 DEF Holds
<1> QED
  BY <1>1, <1>3, <1>4, <1>5 DEF Honest

(* The frames of the one that steps. *)
LEMMA StepperHonest ==
    ASSUME NEW r, NEW q, NEW y, NEW v, NEW u, NEW w, NEW f, TurnStepOf(r, q, y, v, u, w, f),
           Up(q), NEW g, Pends(q, w, g)
    PROVE  Honest(q, y, g)
<1>0. /\ Good(r) /\ Good(q) /\ Turns(r, q, f) /\ Goes(r, q, f) /\ QueueOf(q) /\ TurnPair(r, y, w)
      /\ v = <<>> \/ w = <<>>
      /\ f # NoFrame => r.txq = <<>> /\ v # <<>>
      /\ Poised(r)
  BY TakesKeeps DEF TurnStepOf, StepOf, Goes
<1>1. f = NoFrame => Up(r)
  BY <1>0, NoFrameGoes
<1>2. \A i \in 1 .. Len(<<>>) : FALSE
  OBVIOUS
<1>3. ASSUME Pends(r, w, g), f = NoFrame PROVE Honest(q, y, g)
  <2>1. Honest(r, y, g)
    BY <1>0, <1>1, <1>3 DEF TurnPair
  <2> QED
    BY <1>0, <1>3, <2>1, StillHonest
<1>4. ASSUME NEW i \in 1 .. Len(w), g = w[i] PROVE Honest(q, y, g)
  <2>1. f = NoFrame
    BY <1>0, <1>2, <1>4
  <2>2. Pends(r, w, g)
    BY <1>4 DEF Pends
  <2> QED
    BY <1>3, <2>1, <2>2
<1>5. ASSUME NEW b \in Actions(q), NEW i \in 1 .. Len(b.frames), g = b.frames[i]
      PROVE  Honest(q, y, g)
  <2>1. Adds(r, q) /\ Queued(b, q)
    BY <1>0 DEF Turns, QueueOf
  <2>2. CASE b \in Actions(r)
    <3>1. r.txq # <<>>
      BY <1>2, <2>2 DEF Actions
    <3>2. Pends(r, w, g)
      BY <1>5, <2>2 DEF Pends
    <3> QED
      BY <1>0, <1>3, <3>1, <3>2
  <2>3. ASSUME NEW h, b = Control(h), UttersControl(r, q, h) PROVE Honest(q, y, g)
    <3>1. g = h
      <4>1. b.frames = <<h>> /\ Len(<<h>>) = 1 /\ <<h>>[1] = h
        BY <2>3 DEF Control
      <4> QED
        BY <1>5, <4>1
    <3>2. Confirming(r) => r.rxlog = <<>>
      <4>1. Confirming(r) => Up(r)
        BY <1>0 DEF Confirming, Poised
      <4> QED
        BY <1>0, <4>1 DEF TurnPair
    <3>3. Prefix(q, y)
      BY TurnLengths DEF Pair
    <3> QED
      BY <1>0, <2>3, <3>1, <3>2, <3>3, UtteredHonest
  <2>4. CASE ~b.control /\ InHand(q)
    <3>1. g.type = "DATA"
      BY <1>5, <2>1, <2>4, FramesOf
    <3> QED
      BY <2>4, <3>1 DEF Honest
  <2> QED
    BY <1>0, <2>1, <2>2, <2>3, <2>4, AddsActions
<1> QED
  BY <1>4, <1>5 DEF Pends

LEMMA StepperTurns ==
    ASSUME BurstFrames = 1, NEW r, NEW q, NEW y, NEW v, NEW u, NEW w, NEW f,
           TurnStepOf(r, q, y, v, u, w, f)
    PROVE  TurnPair(q, y, w)
<1> SUFFICES ASSUME Up(q) PROVE TurnPair(q, y, w)
  BY DEF TurnPair
<1>0. /\ Good(r) /\ Good(q) /\ Good(y) /\ Turns(r, q, f) /\ Goes(r, q, f) /\ TurnPair(r, y, w)
      /\ v = <<>> \/ w = <<>>
      /\ f # NoFrame => v # <<>>
  BY TakesKeeps DEF TurnStepOf, StepOf, Goes
<1>1. \A g : Pends(q, w, g) => Honest(q, y, g)
  BY StepperHonest
<1>2. ASSUME NEW i \in 1 .. Len(w), w[i].type = "DATA",
             NEW b \in Actions(q), b.control, b.frames[1].type = "MODE_REQ"
      PROVE  FALSE
  <2>1. f = NoFrame
    <3>1. \A j \in 1 .. Len(<<>>) : FALSE
      OBVIOUS
    <3> QED
      BY <1>0, <1>2, <3>1
  <2>2. Up(r)
    BY <1>0, <2>1, NoFrameGoes
  <2>3. b \notin Actions(r)
    BY <1>0, <1>2, <2>2 DEF TurnPair
  <2>4. PICK h : b = Control(h) /\ UttersControl(r, q, h)
    BY <1>0, <1>2, <2>3, AddsActions DEF Turns
  <2>5. h.type = "MODE_REQ"
    <3>1. b.frames = <<h>> /\ <<h>>[1] = h
      BY <2>4 DEF Control
    <3> QED
      BY <1>2, <3>1
  <2>6. q.tx_window = <<>>
    BY <2>4, <2>5 DEF UttersControl
  <2>7. Honest(q, y, w[i])
    BY <1>1, <1>2 DEF Pends
  <2> QED
    BY <1>2, <2>6, <2>7 DEF Honest, InHand
<1>3. Confirming(q) => q.rxlog = <<>>
  <2> SUFFICES ASSUME Confirming(q) PROVE q.rxlog = <<>>
    OBVIOUS
  <2>1. CASE Up(r) /\ Confirming(r)
    BY <1>0, <2>1 DEF Turns, TurnPair
  <2>2. CASE f.type = "ACCEPT"
    <3>1. ~Up(y)
      <4>1. f # NoFrame
        BY <2>2 DEF NoFrame
      <4> QED
        BY <2>2, <4>1, TakenHonest DEF Honest
    <3>2. NotYet(q, y, u)
      BY TurnLengths DEF Pair
    <3> QED
      BY <3>1, <3>2 DEF NotYet
  <2> QED
    BY <1>0, <2>1, <2>2 DEF Turns
<1>4. Up(y) /\ MayTake(q) /\ MayTake(y) => Known(q, y) \/ Known(y, q)
  BY BothTake
<1> QED
  BY <1>1, <1>2, <1>3, <1>4 DEF TurnPair

(* The frames of its peer, of which it may have taken one. *)
LEMMA PeerTurns ==
    ASSUME BurstFrames = 1, NEW r, NEW q, NEW y, NEW v, NEW u, NEW w, NEW f,
           TurnStepOf(r, q, y, v, u, w, f)
    PROVE  TurnPair(y, q, u)
<1> SUFFICES ASSUME Up(y) PROVE TurnPair(y, q, u)
  BY DEF TurnPair
<1>0. /\ Good(r) /\ Good(q) /\ Good(y) /\ Goes(r, q, f) /\ TurnPair(y, r, v)
      /\ v \in Seq(Frame) /\ Takes(v, u, f) /\ OneBurst(v) /\ QueueOf(y)
  BY DEF TurnStepOf, StepOf, Goes
<1>1. \A g : Pends(y, u, g) => Pends(y, v, g)
  BY <1>0, TakenPends DEF Pends
<1>2. f.type = "DATA" =>
         /\ AllData(v) /\ AllData(u) /\ 1 \in 1 .. Len(v) /\ f = v[1]
         /\ \A b \in Actions(y) : b.control => b.frames[1].type # "MODE_REQ"
  <2> SUFFICES ASSUME f.type = "DATA"
               PROVE  /\ AllData(v) /\ AllData(u) /\ 1 \in 1 .. Len(v) /\ f = v[1]
                      /\ \A b \in Actions(y) : b.control => b.frames[1].type # "MODE_REQ"
    OBVIOUS
  <2>1. f # NoFrame
    BY DEF NoFrame
  <2>2. AllData(v) /\ AllData(u) /\ 1 \in 1 .. Len(v) /\ f = v[1]
    BY <1>0, <2>1, TakenPends
  <2> QED
    BY <1>0, <2>2 DEF TurnPair
<1>3. ASSUME NEW g, Pends(y, u, g), g.type = "MODE_REQ", Up(q)
      PROVE  Len(q.rxlog) <= Base(y)
  <2>1. f.type # "DATA"
    <3> SUFFICES ASSUME f.type = "DATA" PROVE FALSE
      OBVIOUS
    <3>1. ASSUME NEW i \in 1 .. Len(u), g = u[i] PROVE FALSE
      BY <1>2, <1>3, <3>1 DEF AllData
    <3>2. ASSUME NEW b \in Actions(y), NEW i \in 1 .. Len(b.frames), g = b.frames[i]
          PROVE  FALSE
      <4>1. Queued(b, y)
        BY <1>0 DEF QueueOf
      <4>2. b.control /\ b.frames[1] = g
        BY <1>3, <3>2, <4>1, FramesOf
      <4> QED
        BY <1>2, <1>3, <4>2
    <3> QED
      BY <1>3, <3>1, <3>2 DEF Pends
  <2>2. CASE Up(r)
    <3>1. q.rxlog = r.rxlog
      BY <1>0, <1>3, <2>1, <2>2 DEF Goes, InSession
    <3>2. Honest(y, r, g)
      BY <1>0, <1>1, <1>3 DEF TurnPair
    <3> QED
      BY <1>3, <2>2, <3>1, <3>2 DEF Honest
  <2>3. CASE ~Up(r)
    <3>1. q.rxlog = <<>>
      BY <1>0, <1>3, <2>1, <2>3 DEF Goes, Joins
    <3>2. Len(q.rxlog) = 0 /\ Base(y) \in Nat
      BY <1>0, <3>1, BaseType
    <3> QED
      BY <3>2
  <2> QED
    BY <2>2, <2>3
<1>4. ASSUME NEW g, Pends(y, u, g) PROVE Honest(y, q, g)
  <2>1. Honest(y, r, g)
    BY <1>0, <1>1, <1>4 DEF TurnPair
  <2> QED
    BY <1>3, <1>4, <2>1 DEF Honest
<1>5. (\E i \in 1 .. Len(u) : u[i].type = "DATA") => \E i \in 1 .. Len(v) : v[i].type = "DATA"
  BY <1>0, TakenPends
<1>6. Up(q) /\ MayTake(q) /\ MayTake(y) => Known(q, y) \/ Known(y, q)
  BY BothTake
<1> QED
  BY <1>0, <1>4, <1>5, <1>6 DEF TurnPair


(* A frame of the peer that is taken for an ACK confirms what has arrived. *)
LEMMA ImpliedIs ==
    ASSUME BurstFrames = 1, NEW r, NEW q, NEW y, NEW v, NEW u, NEW w, NEW f,
           TurnStepOf(r, q, y, v, u, w, f), Up(r), Up(q), Up(y),
           f.type \in {"DATA", "MODE_REQ"}, Base(q) # Base(r)
    PROVE  Len(r.txlog) <= Len(y.rxlog)
<1>0. /\ Good(r) /\ Good(y) /\ TurnPair(r, y, w) /\ Implies(r, q, f)
  BY DEF TurnStepOf, StepOf
<1>1. InHand(r) /\ (f.type = "DATA" => q.rxlog # r.rxlog)
  BY <1>0 DEF Implies
<1>2. MayTake(r)
  BY <1>0, <1>1, HeldWindow
<1>3. Honest(y, r, f)
  <2>1. f # NoFrame
    BY DEF NoFrame
  <2> QED
    BY <2>1, TakenHonest
<1>4. MayTake(y)
  BY <1>3 DEF Honest, InHand, HasTurn, MayTake
<1>5. ~Known(y, r)
  <2>1. /\ Len(r.rxlog) \in Nat /\ Len(y.txlog) \in Nat /\ Base(y) \in Nat
        /\ InHand(y) => Base(y) < Len(y.txlog)
    BY <1>0, BaseType, HeldWindow
  <2>2. CASE f.type = "DATA"
    <3>1. Brings(r, q, f)
      BY <1>1, <2>2 DEF Brings
    <3>2. Len(r.rxlog) < Len(y.txlog)
      BY <3>1, BringsKnown
    <3> QED
      BY <2>1, <3>2 DEF Known
  <2>3. CASE f.type = "MODE_REQ"
    <3>1. Len(r.rxlog) <= Base(y)
      BY <1>3, <2>3 DEF Honest
    <3> QED
      BY <2>1, <3>1 DEF Known
  <2> QED
    BY <2>2, <2>3
<1>6. Known(r, y)
  BY <1>0, <1>2, <1>4, <1>5 DEF TurnPair
<1> QED
  BY <1>6 DEF Known

LEMMA StepperAcked ==
    ASSUME BurstFrames = 1, NEW r, NEW q, NEW y, NEW v, NEW u, NEW w, NEW f,
           TurnStepOf(r, q, y, v, u, w, f)
    PROVE  AckOf(q, y, u)
<1> SUFFICES ASSUME Up(q), Up(y)
             PROVE  /\ Base(q) <= Len(y.rxlog)
                    /\ \A i \in 1 .. Len(u) :
                          u[i].type = "ACK" =>
                             \E n \in Base(q) .. Len(y.rxlog) : u[i].seq = n % SeqSpace
  BY DEF AckOf
<1>0. /\ Good(r) /\ Good(q) /\ Good(y) /\ v \in Seq(Frame) /\ Takes(v, u, f) /\ OneBurst(v)
      /\ Len(y.rxlog) \in Nat /\ Base(q) \in Nat /\ Goes(r, q, f) /\ AckOf(r, y, v)
      /\ Pair(r, y, v, w)
  BY BaseType DEF TurnStepOf, StepOf, Goes
<1>1. f.type # "ACK" /\ f # NoFrame => \A i \in 1 .. Len(u) : u[i].type # "ACK"
  <2> SUFFICES ASSUME f.type # "ACK", f # NoFrame
               PROVE  \A i \in 1 .. Len(u) : u[i].type # "ACK"
    OBVIOUS
  <2>1. CASE f.type = "DATA"
    BY <1>0, <2>1, TakenPends DEF AllData
  <2>2. CASE f.type # "DATA"
    <3>1. u = <<>> /\ \A i \in 1 .. Len(<<>>) : FALSE
      BY <1>0, <2>2, LastTaken
    <3> QED
      BY <3>1
  <2> QED
    BY <2>1, <2>2
<1>2. f.type = "ACK" => u = <<>> /\ f = v[1] /\ 1 \in 1 .. Len(v) /\ f # NoFrame
  BY <1>0, LastTaken DEF NoFrame
<1>3. \A i \in 1 .. Len(<<>>) : FALSE
  OBVIOUS
<1>4. CASE ~Up(r)
  <2>1. Joins(r, q, f)
    BY <1>0, <1>4 DEF Goes
  <2>2. f # NoFrame /\ Base(q) = 0
    <3>1. Len(<<>>) = 0
      OBVIOUS
    <3> QED
      BY <2>1, <3>1 DEF Joins, NoFrame, Base
  <2> QED
    BY <1>0, <1>1, <1>2, <1>3, <2>2
<1>5. CASE Up(r)
  <2>1. InSession(r, q, f)
    BY <1>0, <1>5 DEF Goes
  <2>2. /\ Base(r) <= Len(y.rxlog)
        /\ \A i \in 1 .. Len(v) :
              v[i].type = "ACK" => \E n \in Base(r) .. Len(y.rxlog) : v[i].seq = n % SeqSpace
    BY <1>0, <1>5 DEF AckOf
  <2>3. CASE Base(q) = Base(r)
    <3>1. \A i \in 1 .. Len(u) : \E j \in 1 .. Len(v) : u[i] = v[j]
      BY <1>0, TakenPends
    <3> QED
      BY <2>2, <2>3, <3>1
  <2>4. CASE f.type = "ACK" /\ Base(q) = Base(r) + AckedCount(r.tx_window, f.seq)
    <3>2. PICK n \in Base(r) .. Len(y.rxlog) : f.seq = n % SeqSpace
      BY <1>2, <2>2, <2>4
    <3>3. Len(y.rxlog) <= Len(r.txlog)
      BY <1>0, <1>5 DEF Pair, Prefix, Grows
    <3>4. Base(r) \in Nat /\ Len(r.txlog) \in Nat
      BY <1>0, BaseType
    <3>5. n \in Nat /\ Base(r) <= n /\ n <= Len(r.txlog) /\ n <= Len(y.rxlog)
      BY <1>0, <3>3, <3>4
    <3>6. Base(q) \in {Base(r), n}
      BY <1>0, <2>4, <3>2, <3>5, AckedIs
    <3> QED
      BY <1>2, <1>3, <2>2, <2>4, <3>5, <3>6
  <2>5. CASE /\ f.type \in {"DATA", "MODE_REQ"} /\ Base(q) = Len(r.txlog)
             /\ Base(q) # Base(r)
    <3>1. Base(q) <= Len(y.rxlog)
      BY <1>5, <2>5, ImpliedIs
    <3>2. f # NoFrame /\ f.type # "ACK"
      BY <2>5 DEF NoFrame
    <3> QED
      BY <1>1, <3>1, <3>2
  <2> QED
    BY <2>1, <2>3, <2>4, <2>5 DEF InSession
<1> QED
  BY <1>4, <1>5

LEMMA TurnsTaken ==
    ASSUME BurstFrames = 1, NEW r, NEW q, NEW y, NEW v, NEW u, NEW w, NEW f,
           TurnStepOf(r, q, y, v, u, w, f)
    PROVE  /\ TurnPair(q, y, w) /\ TurnPair(y, q, u)
           /\ AckOf(q, y, u) /\ AckOf(y, q, w)
  BY StepperTurns, PeerTurns, StepperAcked, ReaderTakes DEF TurnStepOf

(* One of them keys up. *)
LEMMA KeyedHonest ==
    ASSUME NEW r, NEW q, Keyed(r, q), Up(q), Base(q) = Base(r), NEW x, NEW y, NEW g
    PROVE  /\ Honest(r, y, g) => Honest(q, y, g)
           /\ Up(r) /\ Honest(x, r, g) => Honest(x, q, g)
<1>1. Kept(q, r) /\ Flows(q, r)
  BY DEF Keyed
<1>2. InHand(q) = InHand(r) /\ q.rxlog = r.rxlog
  BY <1>1 DEF Kept, Rest, Flows, InHand
<1>3. HasTurn(q) <=> HasTurn(r)
  BY <1>1 DEF Kept, Rest, Flows, HasTurn
<1>4. MayTake(q) <=> MayTake(r)
  BY <1>1, <1>3 DEF Kept, Rest, Flows, MayTake
<1> QED
  BY <1>2, <1>3, <1>4 DEF Honest

LEMMA TurnsKeyed ==
    ASSUME NEW r, NEW q, NEW y, NEW v, NEW w, NEW b, KeyOf(r, q, y, v, w, b), Keyed(r, q),
           Lone(r), TurnPair(r, y, <<>>), TurnPair(y, r, v), AckOf(r, y, v), AckOf(y, r, <<>>)
    PROVE  /\ TurnPair(q, y, w) /\ TurnPair(y, q, <<>>)
           /\ AckOf(q, y, <<>>) /\ AckOf(y, q, w)
<1>0. /\ Good(r) /\ Good(q) /\ Good(y) /\ Goes(r, q, NoFrame) /\ b \in Actions(r)
      /\ Queued(b, r) /\ w \in {<<>>, b.frames} /\ Actions(q) \subseteq Actions(r)
      /\ (Up(r) => Up(q))
  BY DEF KeyOf, Goes, QueueOf, Keyed
<1>1. Up(q) => Up(r) /\ Base(q) = Base(r) /\ q.rxlog = r.rxlog /\ Kept(q, r) /\ Flows(q, r)
  BY <1>0, NoFrameGoes DEF Keyed
<1>2. \A i \in 1 .. Len(<<>>) : FALSE
  OBVIOUS
<1>3. Up(q) => /\ MayTake(q) <=> MayTake(r)
               /\ Confirming(q) <=> Confirming(r)
               /\ Known(q, y) <=> Known(r, y)
               /\ Known(y, q) <=> Known(y, r)
  <2> SUFFICES ASSUME Up(q)
               PROVE  /\ MayTake(q) <=> MayTake(r)
                      /\ Confirming(q) <=> Confirming(r)
                      /\ Known(q, y) <=> Known(r, y)
                      /\ Known(y, q) <=> Known(y, r)
    OBVIOUS
  <2>1. Kept(q, r) /\ Flows(q, r)
    BY <1>1
  <2>2. (Confirming(q) <=> Confirming(r)) /\ (Known(q, y) <=> Known(r, y))
        /\ (Known(y, q) <=> Known(y, r))
    BY <2>1 DEF Kept, Rest, Flows, Confirming, Known, InHand
  <2>3. HasTurn(q) <=> HasTurn(r)
    BY <2>1 DEF Kept, Rest, Flows, HasTurn
  <2>4. MayTake(q) <=> MayTake(r)
    BY <2>1, <2>3 DEF Kept, Rest, Flows, MayTake
  <2> QED
    BY <2>2, <2>4
<1>4. Up(q) /\ Up(y) /\ MayTake(q) /\ MayTake(y) => Known(q, y) \/ Known(y, q)
  BY <1>1, <1>3 DEF TurnPair
<1>5. TurnPair(q, y, w)
  <2> SUFFICES ASSUME Up(q) PROVE TurnPair(q, y, w)
    BY DEF TurnPair
  <2>1. ASSUME NEW g, Pends(q, w, g) PROVE Honest(q, y, g)
    <3>1. Pends(r, <<>>, g)
      BY <1>0, <1>2, <2>1 DEF Pends
    <3>2. Honest(r, y, g)
      BY <1>1, <3>1 DEF TurnPair
    <3> QED
      BY <1>1, <3>2, KeyedHonest
  <2>2. ASSUME NEW i \in 1 .. Len(w), w[i].type = "DATA" PROVE Actions(q) = {}
    <3>1. w = b.frames
      BY <1>0, <1>2, <2>2
    <3>2. ~b.control
      BY <1>0, <2>2, <3>1, FramesOf
    <3>3. r.txq = <<b>>
      BY <1>0, <1>1, <3>2 DEF Lone
    <3>4. q.txq = <<>>
      BY <3>3 DEF Keyed
    <3> QED
      BY <1>2, <3>4 DEF Actions
  <2>3. Confirming(q) => q.rxlog = <<>>
    BY <1>1, <1>3 DEF TurnPair
  <2> QED
    BY <1>4, <2>1, <2>2, <2>3 DEF TurnPair
<1>6. TurnPair(y, q, <<>>)
  <2> SUFFICES ASSUME Up(y) PROVE TurnPair(y, q, <<>>)
    BY DEF TurnPair
  <2>1. ASSUME NEW g, Pends(y, <<>>, g) PROVE Honest(y, q, g)
    <3>1. Pends(y, v, g)
      BY <1>2, <2>1 DEF Pends
    <3>2. Honest(y, r, g)
      BY <3>1 DEF TurnPair
    <3>3. CASE Up(q)
      BY <1>1, <3>2, <3>3, KeyedHonest
    <3>4. CASE ~Up(q)
      BY <3>2, <3>4 DEF Honest
    <3> QED
      BY <3>3, <3>4
  <2> QED
    BY <1>2, <1>4, <2>1 DEF TurnPair
<1>7. AckOf(y, q, w)
  <2> SUFFICES ASSUME Up(y), Up(q) PROVE AckOf(y, q, w)
    BY DEF AckOf
  <2>1. Base(y) <= Len(r.rxlog) /\ Base(y) \in Nat /\ Len(r.rxlog) \in Nat
    BY <1>0, <1>1, BaseType DEF AckOf
  <2>2. ASSUME NEW i \in 1 .. Len(w), w[i].type = "ACK" PROVE w[i].seq = Len(r.rxlog) % SeqSpace
    <3>1. w = b.frames
      BY <1>0, <1>2, <2>2
    <3>2. b.control
      BY <1>0, <2>2, <3>1, FramesOf
    <3>3. PICK h \in Frame : b = Control(h) /\ QueuedControl(h, r)
      BY <1>0, <3>2 DEF Queued
    <3>4. b.frames = <<h>> /\ <<h>>[1] = h /\ Len(<<h>>) = 1
      BY <3>3 DEF Control
    <3>5. w[i] = h
      BY <3>1, <3>4
    <3> QED
      BY <1>1, <2>2, <3>3, <3>5 DEF QueuedControl
  <2>3. Len(r.rxlog) \in Base(y) .. Len(r.rxlog)
    BY <2>1
  <2> QED
    BY <1>1, <2>1, <2>2, <2>3 DEF AckOf
<1> QED
  BY <1>5, <1>6, <1>7, WriterKeys

LEMMA KeyedLone ==
    ASSUME NEW r, NEW q, Keyed(r, q), Goes(r, q, NoFrame), Lone(r)
    PROVE  Lone(q)
<1> SUFFICES ASSUME Up(q), NEW b \in Actions(q), ~b.control PROVE FALSE
  BY DEF Lone
<1>1. Up(r) /\ b \in Actions(r)
  BY NoFrameGoes DEF Keyed
<1>2. Len(r.txq) = 1
  <2>1. r.txq = <<b>>
    BY <1>1 DEF Lone
  <2> QED
    BY <2>1
<1>3. q.txq = <<>>
  BY <1>2 DEF Keyed
<1>4. \A i \in 1 .. Len(<<>>) : FALSE
  OBVIOUS
<1> QED
  BY <1>3, <1>4 DEF Actions


-----------------------------------------------------------------------------
(* The steps of the link *)

TurnTakes(s, p, f) ==
    TakeFacts(s, p, f) /\ Turns(st[s], st'[s], f) /\ Implies(st[s], st'[s], f)

TurnKeys(s, p, b) == KeyFacts(s, p, b) /\ Keyed(st[s], st'[s])

LEMMA NoFrameImplies == ASSUME NEW r, NEW q PROVE Implies(r, q, NoFrame)
  BY DEF Implies, NoFrame

LEMMA AloneTurns ==
    ASSUME TxqBound = 1, BurstFrames = 1, NEW s \in Station, Able(s), Good(st[s]),
           Poised(st[s]), Alone(s)
    PROVE  Turns(st[s], st'[s], NoFrame)
<1>1. CASE LinkCommand(s)
  BY <1>1, CommandTurns, Idle DEF LinkCommand, HostCommand
<1>2. CASE HostData(s)
  BY <1>2, HostWriteTurns DEF HostData
<1>3. CASE Timer(s) \/ DataReady(s)
  BY <1>3, OnTimerTurns, OnDataReadyTurns, Idle DEF Timer, DataReady
<1>4. CASE DrainOver(s) \/ TxEnd(s)
  BY <1>4, DrainDeadlinePassesTurns, OnTxCompleteTurns DEF DrainOver, TxEnd
<1> QED
  BY <1>1, <1>2, <1>3, <1>4 DEF Alone

LEMMA LinkTurnSteps ==
    ASSUME TxqBound = 1, BurstFrames = 1, LinkInv, \A s \in Station : Poised(st[s]), LinkNext
    PROVE  \E s, p \in Station :
              (\E f : TurnTakes(s, p, f)) \/ (\E b : TurnKeys(s, p, b))
<1>1. PICK s \in Station : LinkStep(s)
  BY DEF LinkNext
<1>2. PICK p \in Station : s # p /\ Station = {s, p} /\ Peer(s) = p
  BY ThePeer
<1>3. RecordEnds /\ AllGood /\ onair \in [Station -> Seq(Frame)] /\ Good(st[s])
  BY StationGood DEF LinkNext, LinkInv, LinkTypes
<1>4. CASE Alone(s)
  <2>1. AllGood' /\ onair' \in [Station -> Seq(Frame)] /\ Others(s)
    BY <1>3, <1>4, AloneGood
  <2>2. Able(s)
    BY <1>2, <1>3, <2>1, StepIs
  <2>3. TakeFacts(s, p, NoFrame)
    BY <1>2, <1>3, <1>4, AloneTakes
  <2>4. Turns(st[s], st'[s], NoFrame)
    BY <1>3, <1>4, <2>2, AloneTurns
  <2> QED
    BY <2>3, <2>4, NoFrameImplies DEF TurnTakes
<1>5. CASE Fade(s)
  <2>1. TakeFacts(s, p, NoFrame)
    BY <1>2, <1>3, <1>5, FadeTakes
  <2>2. st'[s] = st[s]
    BY <1>5 DEF Fade
  <2>3. AsBefore(st'[s], st[s])
    BY <1>3, <2>2, GoodWhole DEF AsBefore, Kept, Rest, Flows
  <2>4. Turns(st[s], st'[s], NoFrame)
    BY <2>3, AsBeforeTurnsStill
  <2> QED
    BY <2>1, <2>4, NoFrameImplies DEF TurnTakes
<1>6. CASE Decode(s)
  <2> DEFINE f == Head(wire[s])
  <2>1. TakeFacts(s, p, f)
    BY <1>2, <1>3, <1>6, DecodeTakes
  <2>2. Sent(f)
    <3>1. wire[s] # <<>> /\ wire[s] \in Seq(Frame) /\ WireInv(s)
      BY <1>6 DEF Decode, LinkInv, LinkTypes
    <3>2. f = wire[s][1] /\ 1 \in 1 .. Len(wire[s])
      BY <3>1, TailIs
    <3> QED
      BY <3>1, <3>2 DEF WireInv
  <2>3. OnFrame(s, f) /\ onair' = onair /\ st[s].txq = <<>>
    BY <1>3, <1>6, Idle DEF Decode
  <2> HIDE DEF f
  <2>4. AllGood' /\ Others(s)
    BY <1>3, <2>2, <2>3, LocalOthers, HandleFrameGood, ForcedTeardownGood DEF OnFrame, Sent
  <2>5. Able(s)
    BY <1>2, <1>3, <2>3, <2>4, StepIs
  <2>6. Turns(st[s], st'[s], f)
    BY <2>2, <2>3, <2>5, OnFrameTurns
  <2>7. Implies(st[s], st'[s], f)
    BY <2>2, <2>3, <2>5, OnFrameImplies
  <2> QED
    BY <2>1, <2>6, <2>7 DEF TurnTakes
<1>7. CASE Key(s)
  <2>1. PICK b : KeyFacts(s, p, b)
    BY <1>2, <1>3, <1>7, KeyUpKeys
  <2>2. TxStart(s)
    BY <1>7 DEF Key
  <2>3. Able(s)
    <3>1. AllGood' /\ onair' \in [Station -> Seq(Frame)] /\ Others(s)
      BY <1>3, <2>2, TxStartGood, LocalOthers
    <3> QED
      BY <1>2, <1>3, <3>1, StepIs
  <2>4. Keyed(st[s], st'[s])
    BY <2>2, <2>3, TxStartKeyed
  <2> QED
    BY <2>1, <2>4 DEF TurnKeys
<1> QED
  BY <1>1, <1>4, <1>5, <1>6, <1>7 DEF LinkStep

(* An end that takes the id of a call is in no session, nor is its peer. *)
LEMMA NewIdDown ==
    ASSUME NEW s, NEW p, NEW f, TakeFacts(s, p, f), Share(s, p)',
           st'[s].session_id # st[s].session_id
    PROVE  ~Up(st'[s]) /\ ~Up(st[p])
<1> DEFINE r == st[s]
           q == st'[s]
           y == st[p]
           v == wire[s]
<1>0. /\ s \in Station /\ p \in Station /\ s # p /\ LinkInv /\ Good(q) /\ Good(y)
      /\ v \in Seq(Frame) /\ st'[p] = y
  <2>1. s \in Station /\ p \in Station /\ s # p /\ LinkInv /\ Good(q) /\ st'[p] = y
    BY DEF TakeFacts, StepFacts, Goes
  <2> QED
    BY <2>1, StationGood DEF LinkInv, LinkTypes
<1>1. Up(r) => Up(q)
  BY EndsAre DEF TakeFacts
<1>2. ~Up(r) /\ ~Up(q) /\ Apart(r, q, f)
  BY <1>1 DEF TakeFacts, Goes, Joins
<1>3. ~ (f = NoFrame /\ q.conn_state = "CALLING" /\ r.conn_state # "CALLING")
  <2>1. q.session_id = y.session_id /\ q.session_id \in Nat /\ y.session_id \in Nat
    BY <1>0, Fields DEF Share
  <2> QED
    BY <2>1, NewIdApart DEF TakeFacts, NewId
<1>4. f.type = "CALL"
  BY <1>2, <1>3 DEF Apart
<1>5. f # NoFrame /\ v # <<>> /\ f = v[1] /\ 1 \in 1 .. Len(v)
  BY <1>0, <1>4, TakesKeeps DEF TakeFacts, NoFrame
<1>6. ChannelInv(p, s)
  BY <1>0 DEF LinkInv
<1> QED
  BY <1>2, <1>4, <1>5, <1>6 DEF ChannelInv, CallOn

(* What is to be said of the two ends of a session. *)
TurnEnds(a, b) ==
    /\ TurnPair(st[a], st[b], wire[b]) /\ TurnPair(st[b], st[a], wire[a])
    /\ AckOf(st[a], st[b], wire[a]) /\ AckOf(st[b], st[a], wire[b])

LEMMA TurnInvTakes ==
    ASSUME BurstFrames = 1, NEW s, NEW p, NEW f, TurnTakes(s, p, f), TurnInv, Share(s, p)'
    PROVE  TurnEnds(s, p)'
<1>0. /\ TakeFacts(s, p, f) /\ s \in Station /\ p \in Station /\ s # p /\ LinkInv
      /\ st'[p] = st[p] /\ wire'[p] = wire[p]
  BY DEF TurnTakes, TakeFacts, StepFacts, LinkInv, LinkTypes
<1>1. CASE st'[s].session_id = st[s].session_id
  <2>1. /\ Share(s, p) /\ Share(p, s)
        /\ StepOf(st[s], st'[s], st[p], wire[s], wire'[s], wire[p], f)
    BY <1>0, <1>1, TakeStep
  <2>2. QueueOf(st'[s]) /\ QueueOf(st[p]) /\ (f # NoFrame => st[s].txq = <<>>)
    BY <1>0 DEF TakeFacts, LinkInv, StationInv
  <2>3. Lone(st[s]) /\ Poised(st[s])
    BY <1>0 DEF TurnInv
  <2>4. /\ TurnPair(st[s], st[p], wire[p]) /\ TurnPair(st[p], st[s], wire[s])
        /\ AckOf(st[s], st[p], wire[s]) /\ AckOf(st[p], st[s], wire[p])
    BY <1>0, <2>1 DEF TurnInv
  <2>5. TurnStepOf(st[s], st'[s], st[p], wire[s], wire'[s], wire[p], f)
    BY <2>1, <2>2, <2>3, <2>4 DEF TurnStepOf, TurnTakes
  <2> QED
    BY <1>0, <2>5, TurnsTaken DEF TurnEnds
<1>2. CASE st'[s].session_id # st[s].session_id
  BY <1>0, <1>2, NewIdDown DEF TurnEnds, TurnPair, AckOf
<1> QED
  BY <1>1, <1>2

LEMMA TurnInvKeys ==
    ASSUME NEW s, NEW p, NEW b, TurnKeys(s, p, b), TurnInv, Share(s, p)'
    PROVE  TurnEnds(s, p)'
<1>0. /\ KeyFacts(s, p, b) /\ s \in Station /\ p \in Station /\ s # p
      /\ st'[p] = st[p] /\ wire[p] = <<>> /\ wire'[s] = <<>> /\ Keyed(st[s], st'[s])
  BY DEF TurnKeys, KeyFacts, StepFacts
<1>1. /\ Share(s, p) /\ Share(p, s)
      /\ KeyOf(st[s], st'[s], st[p], wire[s], wire'[p], b)
  BY <1>0, KeyStep
<1>2. /\ Lone(st[s]) /\ TurnPair(st[s], st[p], <<>>) /\ TurnPair(st[p], st[s], wire[s])
      /\ AckOf(st[s], st[p], wire[s]) /\ AckOf(st[p], st[s], <<>>)
  BY <1>0, <1>1 DEF TurnInv
<1>3. /\ TurnPair(st'[s], st[p], wire'[p]) /\ TurnPair(st[p], st'[s], <<>>)
      /\ AckOf(st'[s], st[p], <<>>) /\ AckOf(st[p], st'[s], wire'[p])
  BY <1>0, <1>1, <1>2, TurnsKeyed
<1> QED
  BY <1>0, <1>3 DEF TurnEnds

LEMMA TurnInvSafe ==
    ASSUME TxqBound = 1, BurstFrames = 1, LinkInv, TurnInv, [LinkNext]_linkVars
    PROVE  TurnInv'
<1>1. CASE LinkNext
  <2>1. \A s \in Station : Poised(st[s]) /\ Lone(st[s]) /\ Good(st[s])
    BY StationGood DEF TurnInv, LinkInv, LinkTypes
  <2>2. PICK s \in Station, p \in Station :
           (\E f : TurnTakes(s, p, f)) \/ (\E b : TurnKeys(s, p, b))
    BY <1>1, <2>1, LinkTurnSteps
  <2>3. s # p /\ Station = {s, p} /\ st'[p] = st[p]
    BY <2>2 DEF TurnTakes, TurnKeys, TakeFacts, KeyFacts, StepFacts
  <2>4. Poised(st'[s]) /\ Lone(st'[s])
    <3>1. ASSUME NEW f, TurnTakes(s, p, f) PROVE Poised(st'[s]) /\ Lone(st'[s])
      <4>1. /\ Turns(st[s], st'[s], f) /\ Goes(st[s], st'[s], f)
            /\ f # NoFrame => st[s].txq = <<>>
        BY <3>1 DEF TurnTakes, TakeFacts
      <4>2. Lone(st'[s])
        BY <2>1, <4>1, TurnsLone
      <4> QED
        BY <4>1, <4>2 DEF Turns
    <3>2. ASSUME NEW b, TurnKeys(s, p, b) PROVE Poised(st'[s]) /\ Lone(st'[s])
      <4>1. Keyed(st[s], st'[s]) /\ Goes(st[s], st'[s], NoFrame)
        BY <3>2 DEF TurnKeys, KeyFacts
      <4> QED
        BY <2>1, <4>1, KeyedLone DEF Keyed
    <3> QED
      BY <2>2, <3>1, <3>2
  <2>5. Share(s, p)' => TurnEnds(s, p)'
    BY <2>2, TurnInvTakes, TurnInvKeys
  <2>6. \A t \in Station : Poised(st'[t]) /\ Lone(st'[t])
    BY <2>1, <2>3, <2>4
  <2>7. ASSUME NEW a \in Station, NEW b \in Station, a # b, Share(a, b)'
        PROVE  /\ TurnPair(st'[a], st'[b], wire'[b]) /\ AckOf(st'[a], st'[b], wire'[a])
    <3>1. (a = s /\ b = p) \/ (a = p /\ b = s)
      BY <2>3, <2>7
    <3>2. Share(s, p)'
      BY <2>7, <3>1 DEF Share
    <3> QED
      BY <2>5, <3>1, <3>2 DEF TurnEnds
  <2> QED
    BY <2>6, <2>7 DEF TurnInv
<1>2. CASE UNCHANGED linkVars
  BY <1>2 DEF linkVars, TurnInv, Share
<1> QED
  BY <1>1, <1>2

LEMMA TurnInvStarts == LinkInit => TurnInv
<1> SUFFICES ASSUME LinkInit PROVE TurnInv
  OBVIOUS
<1>1. \A s \in Station : st[s] = InitSession
  BY DEF LinkInit, Init
<1> DEFINE r == InitSession
<1>2. /\ r.conn_state = "DISCONNECTED" /\ r.pending_connect_confirm = FALSE
  BY DEF InitSession
<1> HIDE DEF r
<1>3. ~Up(r) /\ Poised(r) /\ Lone(r)
  BY <1>2 DEF Up, Poised, Lone
<1> QED
  BY <1>1, <1>3 DEF TurnInv, TurnPair, AckOf, r

LEMMA TurnInvAcked == ASSUME TurnInv PROVE AckedIsDelivered
  BY DEF TurnInv, AckOf, AckedIsDelivered, SameSession, InConn, Share, Up, Base

LEMMA TurnInvs ==
    TxqBound = 1 /\ BurstFrames = 1 => (LinkSpec => [](LinkInv /\ TurnInv))
<1> SUFFICES ASSUME TxqBound = 1, BurstFrames = 1 PROVE LinkSpec => [](LinkInv /\ TurnInv)
  OBVIOUS
<1>1. LinkInv /\ TurnInv /\ [LinkNext]_linkVars => (LinkInv /\ TurnInv)'
  BY LinkStepSafe, TurnInvSafe, TurnInvAcked, AckedTold
<1> QED
  BY <1>1, LinkStarts, TurnInvStarts, PTL DEF LinkSpec

(* With bursts of one frame, which is what every mode of the program has      *)
(* (arq_mode_table), a frame leaves the window only when the                  *)
(* peer has delivered it, whoever writes and however much: also when a DATA   *)
(* or a MODE_REQ of the peer is taken for the ACK that was lost (WAIT_ACK).   *)
THEOREM AckedHolds ==
    TxqBound = 1 /\ BurstFrames = 1 => (LinkSpec => []AckedIsDelivered)
<1> SUFFICES ASSUME TxqBound = 1, BurstFrames = 1 PROVE LinkSpec => []AckedIsDelivered
  OBVIOUS
<1>1. LinkInv /\ TurnInv => AckedIsDelivered
  BY TurnInvAcked
<1> QED
  BY <1>1, TurnInvs, PTL

(* And so each application is handed, in order and without gaps or            *)
(* repetitions, what the other one wrote, however often the numbers come      *)
(* round (check_accept_rx, send_data_burst).                                  *)
THEOREM DeliveredHolds ==
    TxqBound = 1 /\ BurstFrames = 1 => (LinkSpec => []DeliveredIsPrefix)
  BY TurnInvs, LinkDelivers, PTL

(* And so the link is the stream service of ArqStream, in both directions.    *)
THEOREM LinkStreams ==
    TxqBound = 1 /\ BurstFrames = 1 => (LinkSpec => ImplementsStream)
  BY AckedHolds, AckedLinkStreams, PTL

=============================================================================

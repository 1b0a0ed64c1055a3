------------------------------ MODULE MCArqFsm ------------------------------
(* One station against an arbitrary peer, small enough for TLC.             *)
EXTENDS ArqFsm, MCLive

UnitEach(n) == [s \in Station |-> n]
NoUnit == UnitEach(0)
OneUnit == UnitEach(1)
TwoUnits == UnitEach(2)

\* What the host does.
CommandsEach(c) == [s \in Station |-> c]
AllButAbort ==
    CommandsEach({"LISTEN", "STOP_LISTEN", "CONNECT", "DISCONNECT", "CLIENT_GONE", "CQ"})
AllCommands == [s \in Station |-> AllButAbort[s] \cup {"ABORT"}]
DialCommands == CommandsEach({"CONNECT", "DISCONNECT"})
AnswerCommands == CommandsEach({"LISTEN", "DISCONNECT"})
AbortCommands == CommandsEach({"CONNECT", "ABORT"})

\* What is in a queued frame decides nothing at the station that sends it,
\* except the payload mode a burst was built for.
Queued(b) == IF b.control THEN "control" ELSE b.frames[1].mode

StationView ==
    <<[s \in Station |->
         [Live(st[s]) EXCEPT !.txq = [i \in 1 .. Len(@) |-> Queued(@[i])],
                       !.txlog = Len(@), !.rxlog = Len(@)]],
      [s \in Station |-> onair[s] # <<>>]>>

=============================================================================

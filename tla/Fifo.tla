-------------------------------- MODULE Fifo --------------------------------
(* What a channel of common/chan.c promises: messages come out once and in  *)
(* the order they went in, no more than Capacity are under way, nothing goes *)
(* in after chan_close, and what is in then still comes out.                 *)
EXTENDS Naturals, Sequences

CONSTANTS Msgs, Capacity

VARIABLES items, closed,
    put, got    \* the message that the last step put in, took out

Init == items = <<>> /\ closed = FALSE /\ put = "none" /\ got = "none"

Put(m) ==
    /\ ~closed /\ Len(items) < Capacity
    /\ items' = Append(items, m) /\ put' = m /\ got' = "none"
    /\ UNCHANGED closed

Get ==
    /\ items # <<>>
    /\ items' = Tail(items) /\ got' = Head(items) /\ put' = "none"
    /\ UNCHANGED closed

\* An operation that is refused, or only begun; or the end of the channel.
Other ==
    /\ closed => closed'
    /\ put' = "none" /\ got' = "none" /\ UNCHANGED items

Next == (\E m \in Msgs : Put(m)) \/ Get \/ Other

Spec == Init /\ [][Next]_<<items, closed, put, got>>

=============================================================================

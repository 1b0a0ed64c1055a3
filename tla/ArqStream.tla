------------------------------ MODULE ArqStream ------------------------------
(***************************************************************************)
(* What the ARQ promises the two applications, with no frames, windows,    *)
(* timers or radio: a session is a pair of byte streams, one each way,     *)
(* that start empty.  ArqLink implements it (ImplementsStream there).      *)
(*                                                                         *)
(* A station joins and leaves a session on its own: nobody can promise     *)
(* that the peer learns of it.  The promises about the streams hold while  *)
(* both ends are in the session and neither has been out of it.            *)
(***************************************************************************)
EXTENDS Naturals, Sequences, SequencesExt

CONSTANTS Station, SessionIds

VARIABLES
    call,       \* call[s]: the session s is in, 0 when in none
    left,       \* left[s]: the sessions s has left
    sent,       \* sent[s]: the units taken from the application of s, in order
    confirmed,  \* confirmed[s]: how many of them s may forget
    got         \* got[s]: the units handed to the application of s

streamVars == <<call, left, sent, confirmed, got>>

Init ==
    /\ call = [s \in Station |-> 0]
    /\ left = [s \in Station |-> {}]
    /\ sent = [s \in Station |-> <<>>]
    /\ confirmed = [s \in Station |-> 0]
    /\ got = [s \in Station |-> <<>>]

Shared(a, b) ==
    /\ a # b /\ call[a] # 0 /\ call[a] = call[b]
    /\ call[a] \notin left[a] \cup left[b]

\* Bytes arrive in order, without gaps or repetitions, and are confirmed to
\* their sender only once they have arrived.
Faithful ==
    \A a, b \in Station :
        Shared(a, b) => /\ IsPrefix(got[b], sent[a])
                        /\ confirmed[a] <= Len(got[b])

\* Only station s moves.
Only(s) ==
    \A t \in Station \ {s} :
        /\ call'[t] = call[t] /\ sent'[t] = sent[t]
        /\ confirmed'[t] = confirmed[t] /\ got'[t] = got[t]

\* The frame that brings a station into a session may carry the first unit.
Join(s) ==
    /\ call[s] = 0 /\ call'[s] \in SessionIds
    /\ sent'[s] = <<>> /\ confirmed'[s] = 0 /\ Len(got'[s]) <= 1
    /\ UNCHANGED left

Leave(s) ==
    /\ call[s] # 0 /\ call'[s] = 0
    /\ left' = [left EXCEPT ![s] = @ \cup {call[s]}]
    /\ sent'[s] = <<>> /\ confirmed'[s] = 0 /\ got'[s] = <<>>

\* In a session: units are taken, confirmed, handed over, never taken back.
Exchange(s) ==
    /\ call[s] # 0 /\ call'[s] = call[s]
    /\ IsPrefix(sent[s], sent'[s])
    /\ confirmed[s] <= confirmed'[s] /\ confirmed'[s] <= Len(sent[s])
    /\ IsPrefix(got[s], got'[s]) /\ Len(got'[s]) <= Len(got[s]) + 1
    /\ UNCHANGED left

Next ==
    /\ \E s \in Station : (Join(s) \/ Leave(s) \/ Exchange(s)) /\ Only(s)
    /\ Faithful'

Spec == Init /\ [][Next]_streamVars

=============================================================================

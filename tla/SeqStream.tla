----------------------------- MODULE SeqStream -----------------------------
(***************************************************************************)
(* What the source server promises to the receiver: after a restart point  *)
(* was agreed on, the pipe carries the transactions from that seqno on,    *)
(* whole, each one once and in order.  SourceServer implements it;         *)
(* RecvPool is composed with it.                                           *)
(***************************************************************************)
EXTENDS Integers, Sequences

VARIABLES
    avail,  \* seqno of the last transaction the source instance committed
    next,   \* seqno of the next transaction to send
    chan    \* seqnos of the transactions sent and not yet received

streamVars == <<avail, next, chan>>

Init == avail \in Nat /\ next \in 1 .. avail + 1 /\ chan = << >>

\* The source instance commits a transaction.
Grow == avail' = avail + 1 /\ UNCHANGED <<next, chan>>

\* The two sides agree to restart at seqno s; what was in the pipe is drained,
\* or gone with the connection.
Restart(s) == s \in 1 .. avail + 1 /\ next' = s /\ chan' = << >> /\ UNCHANGED avail

\* n transactions are sent at once.
Send(n) ==
    /\ n >= 1 /\ next + n <= avail + 1
    /\ chan' = chan \o [i \in 1 .. n |-> next + i - 1]
    /\ next' = next + n
    /\ UNCHANGED avail

Receive == chan # << >> /\ chan' = Tail(chan) /\ UNCHANGED <<avail, next>>

Next ==
    \/ Grow \/ Receive
    \/ \E s \in 1 .. avail + 1 : Restart(s)
    \/ \E n \in 1 .. avail : Send(n)

Spec == Init /\ [][Next]_streamVars

============================================================================

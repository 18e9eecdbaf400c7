----------------------------- MODULE CommitLog -----------------------------
(***************************************************************************)
(* What the journal pool promises to the source server, without slots,     *)
(* latches and processes: committed transactions lie one after the other   *)
(* in a virtual address space, the last one may be followed by one         *)
(* reservation that is still to be committed or given up, and a prefix of  *)
(* the committed ones is published.  JnlPool implements it; SourceServer   *)
(* reads it.                                                               *)
(*                                                                         *)
(* This is the pool of BG databases.  On MM databases a transaction may be *)
(* published just before it is committed.                                  *)
(***************************************************************************)
EXTENDS Integers, Sequences

CONSTANT Lens   \* lengths a transaction may reserve (tot_jrec_len)

ASSUME CommitLogAssumption == Lens \subseteq Nat \ {0}

VARIABLES
    log,                \* the committed transactions, in order
    write_addr,         \* end of the published ones
    rsrv_write_addr,    \* end of the reserved space
    lastwrite_len       \* length of the last reservation

logVars == <<log, write_addr, rsrv_write_addr, lastwrite_len>>

Transaction == [start_write_addr : Nat, tot_jrec_len : Lens]

\* Where the first s transactions end.
End(s) == IF s = 0 THEN 0 ELSE log[s].start_write_addr + log[s].tot_jrec_len

\* Length of the last committed transaction.
LastLen == IF log = << >> THEN 0 ELSE log[Len(log)].tot_jrec_len

Init ==
    /\ log = << >>
    /\ write_addr = 0
    /\ rsrv_write_addr = 0
    /\ lastwrite_len = 0

\* A process reserves len bytes.  It stores the length first, ...
StoreLength(len) ==
    /\ rsrv_write_addr = End(Len(log))
    /\ lastwrite_len = LastLen
    /\ lastwrite_len' = len
    /\ UNCHANGED <<log, write_addr, rsrv_write_addr>>

\* ... then the end of the reserved space.
StoreAddr ==
    /\ rsrv_write_addr = End(Len(log))
    /\ rsrv_write_addr' = rsrv_write_addr + lastwrite_len
    /\ UNCHANGED <<log, write_addr, lastwrite_len>>

\* The reservation becomes a transaction when jnl_seqno is incremented.
Commit ==
    /\ rsrv_write_addr = End(Len(log)) + lastwrite_len
    /\ lastwrite_len \in Lens
    /\ log' = Append(log, [start_write_addr |-> End(Len(log)),
                           tot_jrec_len |-> lastwrite_len])
    /\ UNCHANGED <<write_addr, rsrv_write_addr, lastwrite_len>>

\* The reservation is given up: the commit fails, or its process is killed.
Abort ==
    /\ rsrv_write_addr' = End(Len(log))
    /\ lastwrite_len' = LastLen
    /\ UNCHANGED <<log, write_addr>>

\* More transactions are published, whole ones and in order.
Publish ==
    /\ \E s \in DOMAIN log : write_addr < End(s) /\ write_addr' = End(s)
    /\ UNCHANGED <<log, rsrv_write_addr, lastwrite_len>>

Next ==
    \/ \E len \in Lens : StoreLength(len)
    \/ StoreAddr \/ Commit \/ Abort \/ Publish

Spec == Init /\ [][Next]_logVars

============================================================================

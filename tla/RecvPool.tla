------------------------------ MODULE RecvPool ------------------------------
(***************************************************************************)
(* The receive pool of a replicating instance: a ring of journal records   *)
(* in shared memory that the receiver server fills from the pipe and the   *)
(* update process empties into the database.  The two use no lock: they    *)
(* rely on the order of their stores to write, write_wrap, wrapped and     *)
(* read, and on flags by which one asks the other to start again.          *)
(*                                                                         *)
(* The source server is SeqStream, which SourceServer implements.  One     *)
(* cell of the pool is one record.  A message to the source server takes   *)
(* effect when it is sent: they arrive in order, and the pipe is drained   *)
(* before the one that restarts the stream.                                *)
(***************************************************************************)
EXTENDS Integers, Sequences

CONSTANTS
    NumTrans,       \* bound: number of transactions the source has committed
    Lens,           \* number of records of a transaction
    PoolSize,       \* recvpool_size
    MaxPipe,        \* bound: transactions in the pipe
    FaultSets,      \* which faults may happen in one behaviour, each one once
    Races           \* which of the races below may happen

\* slow_rollback: after a bad transaction the receiver drains the pipe and fills
\* the pool again while the update process is still in OP_TROLLBACK.
\* handshake: gtmrecv_poll_actions finds something to do before the source server
\* has answered REPL_START_JNL_SEQNO.

Faults == {"upd_killed", "rcvr_killed", "reset", "bad_trans", "rollback"}

\* RECVPOOL_HIGH_WATERMARK_PCTG and RECVPOOL_LOW_WATERMARK_PCTG.
high_watermark == (90 * PoolSize) \div 100

low_watermark == (80 * PoolSize) \div 100

\* A transaction that does not fit into the pool is the error REPLTRANS2BIG.
ASSUME RecvPoolAssumption ==
    /\ NumTrans \in Nat
    /\ PoolSize \in Nat
    /\ low_watermark >= 1
    /\ Lens \subseteq 1 .. PoolSize
    /\ MaxPipe \in Nat \ {0}
    /\ FaultSets \subseteq SUBSET Faults
    /\ Races \subseteq {"slow_rollback", "handshake"}

VARIABLES
    lens,           \* number of records of each transaction
    data,           \* what the cells of the pool hold
    \* recvpool_ctl
    write, write_wrap, wrapped, jnl_seqno,
    \* upd_proc_local and gtmrecv_local
    read, read_jnl_seqno, bad_trans, onln_rlbk_flg, restart,
    \* The receiver server.
    rpc, write_loc, local_wrap, cur, xoff_sent, reported,
    \* The update process: its jnl_seqno is upd_seqno.
    upc, temp_read, upd_seqno, tupd_num,
    \* The database of this instance: transactions in it, and whether an online
    \* rollback took some of them away that the update process has not seen.
    applied, rolled_back,
    \* The source server and the pipe.
    avail, next, chan, sending,
    faults          \* the faults that happened

ctlVars  == <<write, write_wrap, wrapped>>
updVars  == <<upc, temp_read, upd_seqno, tupd_num>>
dbVars   == <<applied, rolled_back>>
rcvrVars == <<rpc, write_loc, local_wrap, cur, xoff_sent, reported>>
srcVars  == <<avail, next, chan, sending>>
vars == <<lens, data, ctlVars, jnl_seqno, read, read_jnl_seqno, bad_trans,
          onln_rlbk_flg, restart, rcvrVars, updVars, dbVars, srcVars, faults>>

Trans == 1 .. NumTrans

\* The transaction of no message, and the record of a cell never written.
NoTrans == 0

NoRecord == <<NoTrans, 0>>

Stream == INSTANCE SeqStream

Larger(a, b) == IF a < b THEN b ELSE a

Init ==
    /\ lens \in [Trans -> Lens]
    /\ data = [i \in 0 .. PoolSize - 1 |-> NoRecord]
    /\ write = 0 /\ write_wrap = PoolSize /\ wrapped = FALSE
    /\ jnl_seqno = 0
    /\ read = 0 /\ read_jnl_seqno = 0
    /\ bad_trans = FALSE /\ onln_rlbk_flg = FALSE
    /\ restart = "NO_RESTART"
    /\ rpc = "connect" /\ write_loc = 0 /\ local_wrap = PoolSize
    /\ cur = NoTrans /\ xoff_sent = FALSE /\ reported = FALSE
    /\ upc = "init" /\ temp_read = 0 /\ upd_seqno = 1 /\ tupd_num = 0
    /\ applied = 0 /\ rolled_back = FALSE
    /\ avail = NumTrans /\ next = 1 /\ chan = << >> /\ sending = FALSE
    /\ faults = {}

\* Fault f happens now.
Fault(f) ==
    /\ f \notin faults
    /\ \E fs \in FaultSets : faults \union {f} \subseteq fs
    /\ faults' = faults \union {f}

----------------------------------------------------------------------------
(* The source server.                                                      *)

SourceSend ==
    /\ sending /\ Len(chan) < MaxPipe
    /\ Stream!Send(1)
    /\ UNCHANGED <<lens, data, ctlVars, jnl_seqno, read, read_jnl_seqno,
                   bad_trans, onln_rlbk_flg, restart, rcvrVars, updVars, dbVars,
                   sending, faults>>

\* REPL_XOFF_ACK_ME and the draining of the pipe, or the end of a connection.
Drain == Stream!Restart(next) /\ sending' = FALSE

----------------------------------------------------------------------------
(* The receiver server: do_main_loop.                                      *)

\* gtmrecv_est_conn.
Connect ==
    /\ rpc = "connect"
    /\ rpc' = "start"
    /\ xoff_sent' = FALSE
    /\ UNCHANGED <<lens, data, ctlVars, jnl_seqno, read, read_jnl_seqno,
                   bad_trans, onln_rlbk_flg, restart, write_loc, local_wrap, cur,
                   reported, updVars, dbVars, srcVars, faults>>

\* REPL_START_JNL_SEQNO, once the update process has written jnl_seqno.
SendStart ==
    /\ rpc = "start"
    /\ jnl_seqno # 0
    /\ Stream!Restart(jnl_seqno) /\ sending' = TRUE
    /\ rpc' = "handshake"
    /\ write_loc' = write /\ local_wrap' = write_wrap /\ cur' = NoTrans
    /\ UNCHANGED <<lens, data, ctlVars, jnl_seqno, read, read_jnl_seqno,
                   bad_trans, onln_rlbk_flg, restart, xoff_sent, reported,
                   updVars, dbVars, faults>>

\* REPL_WILL_RESTART_WITH_INFO.
WillRestart ==
    /\ rpc = "handshake"
    /\ rpc' = "recv"
    /\ UNCHANGED <<lens, data, ctlVars, jnl_seqno, read, read_jnl_seqno,
                   bad_trans, onln_rlbk_flg, restart, write_loc, local_wrap, cur,
                   xoff_sent, reported, updVars, dbVars, srcVars, faults>>

\* Mutant of SpaceUsed: the pool counts as wrapped.
SpaceUsedWrapped(wrap, pos) == pos + PoolSize - read

\* do_flow_control
SpaceUsed(wrap, pos) ==
    IF wrap /\ pos <= read THEN pos + PoolSize - read ELSE pos - read

FlowControl(wrap, pos) ==
    LET xoff == SpaceUsed(wrap, pos) >= high_watermark /\ ~xoff_sent
        xon  == SpaceUsed(wrap, pos) < low_watermark /\ xoff_sent
    IN  /\ xoff_sent' = (xoff \/ (xoff_sent /\ ~xon))
        /\ sending' = (xon \/ (sending /\ ~xoff))

\* Mutant of NeedsWrap: one record too late.
NeedsWrapLate(len) == write_loc + len > PoolSize + 1

NeedsWrap(len) == write_loc + len > PoolSize

\* A message arrives, and prepare_recvpool_for_write if the pool need not wrap.
ReceiveTrans ==
    /\ rpc = "recv"
    /\ Stream!Receive
    /\ cur' = Head(chan)
    /\ IF NeedsWrap(lens[cur'])
       THEN rpc' = "wrap" /\ UNCHANGED <<xoff_sent, sending>>
       ELSE rpc' = "copy" /\ FlowControl(wrapped, write_loc)
    /\ UNCHANGED <<lens, data, ctlVars, jnl_seqno, read, read_jnl_seqno,
                   bad_trans, onln_rlbk_flg, restart, write_loc, local_wrap,
                   reported, updVars, dbVars, faults>>

\* Nothing to receive: perhaps the source server may go on.
IdleFlowControl ==
    /\ rpc = "recv" /\ chan = << >>
    /\ xoff_sent
    /\ FlowControl(wrapped, write_loc) /\ ~xoff_sent'
    /\ UNCHANGED <<lens, data, ctlVars, jnl_seqno, read, read_jnl_seqno,
                   bad_trans, onln_rlbk_flg, restart, rpc, write_loc, local_wrap,
                   cur, reported, updVars, dbVars, avail, next, chan,
                   faults>>

\* prepare_recvpool_for_write wraps the pool, in three stores that are ordered by
\* memory barriers: write_wrap ...
WrapEnd ==
    /\ rpc = "wrap"
    /\ ~wrapped
    /\ write_wrap' = write_loc /\ local_wrap' = write_loc
    /\ rpc' = "wrap_write"
    /\ UNCHANGED <<lens, data, write, wrapped, jnl_seqno, read, read_jnl_seqno,
                   bad_trans, onln_rlbk_flg, restart, write_loc, cur, xoff_sent,
                   reported, updVars, dbVars, srcVars, faults>>

\* ... write ...
WrapWrite ==
    /\ rpc = "wrap_write"
    /\ write' = 0 /\ write_loc' = 0
    /\ rpc' = "wrap_flag"
    /\ UNCHANGED <<lens, data, write_wrap, wrapped, jnl_seqno, read,
                   read_jnl_seqno, bad_trans, onln_rlbk_flg, restart, local_wrap,
                   cur, xoff_sent, reported, updVars, dbVars, srcVars, faults>>

\* ... and wrapped.
WrapFlag ==
    /\ rpc = "wrap_flag"
    /\ wrapped' = TRUE
    /\ FlowControl(TRUE, write_loc)
    /\ rpc' = "copy"
    /\ UNCHANGED <<lens, data, write, write_wrap, jnl_seqno, read, read_jnl_seqno,
                   bad_trans, onln_rlbk_flg, restart, write_loc, local_wrap, cur,
                   reported, updVars, dbVars, avail, next, chan,
                   faults>>

\* Mutant of RoomFor: the receiver does not wait for the update process.
RoomUnchecked(future_write) == TRUE

RoomFor(future_write) == wrapped => read > future_write

\* copy_to_recvpool: the next n records of the message.
CopyToRecvpool(n) ==
    /\ rpc = "copy"
    /\ write_loc + n <= write + lens[cur]
    /\ RoomFor(write_loc + n)
    /\ data' = [i \in DOMAIN data |->
                   IF i \in write_loc .. write_loc + n - 1
                   THEN <<cur, i - write + 1>> ELSE data[i]]
    /\ write_loc' = write_loc + n
    /\ local_wrap' = Larger(local_wrap, write_loc')
    /\ rpc' = IF write_loc' = write + lens[cur] THEN "process" ELSE "copy"
    /\ UNCHANGED <<lens, ctlVars, jnl_seqno, read, read_jnl_seqno, bad_trans,
                   onln_rlbk_flg, restart, cur, xoff_sent, reported, updVars,
                   dbVars, srcVars, faults>>

\* process_tr_buff, up to the memory barrier ...
ProcessTrBuff ==
    /\ rpc = "process"
    /\ write_wrap' = local_wrap
    /\ jnl_seqno' = jnl_seqno + 1
    /\ rpc' = "publish"
    /\ UNCHANGED <<lens, data, write, wrapped, read, read_jnl_seqno, bad_trans,
                   onln_rlbk_flg, restart, write_loc, local_wrap, cur, xoff_sent,
                   reported, updVars, dbVars, srcVars, faults>>

\* ... and behind it.
PublishWrite ==
    /\ rpc = "publish"
    /\ write' = write_loc
    /\ cur' = NoTrans
    /\ rpc' = "recv"
    /\ UNCHANGED <<lens, data, write_wrap, wrapped, jnl_seqno, read,
                   read_jnl_seqno, bad_trans, onln_rlbk_flg, restart, write_loc,
                   local_wrap, xoff_sent, reported, updVars, dbVars, srcVars,
                   faults>>

----------------------------------------------------------------------------
(* The receiver server: gtmrecv_poll_actions, called wherever it waits.    *)

Polls ==
    \/ rpc \in {"connect", "recv", "copy"}
    \/ rpc = "start" /\ jnl_seqno = 0
    \/ rpc = "handshake" /\ "handshake" \in Races
    \/ rpc = "wrap" /\ wrapped

\* gtmrecv_wait_for_jnl_seqno: back to the start of do_main_loop.
WaitForJnlSeqno ==
    /\ rpc' = IF rpc = "connect" THEN "connect" ELSE "start"
    /\ cur' = NoTrans

ResetPool == write' = 0 /\ write_wrap' = PoolSize /\ wrapped' = FALSE

\* Mutant of UnknownSeqno: the number is kept.
KeptSeqno == jnl_seqno

\* Only the update process knows which transaction is next.
UnknownSeqno == 0

\* The update process is found dead.
PollDead ==
    /\ Polls
    /\ upc = "dead" /\ ~reported
    /\ reported' = TRUE
    /\ jnl_seqno' = UnknownSeqno
    /\ bad_trans' = FALSE /\ onln_rlbk_flg' = FALSE
    /\ IF rpc = "handshake" THEN UNCHANGED srcVars ELSE Drain
    /\ WaitForJnlSeqno
    /\ UNCHANGED <<lens, data, ctlVars, read, read_jnl_seqno, restart, write_loc,
                   local_wrap, xoff_sent, updVars, dbVars, faults>>

\* An operator asked to start the update process again.
PollStartUpd ==
    /\ Polls
    /\ upc = "dead" /\ reported
    /\ ResetPool
    /\ upc' = "init"
    /\ reported' = FALSE
    /\ WaitForJnlSeqno
    /\ UNCHANGED <<lens, data, jnl_seqno, read, read_jnl_seqno, bad_trans,
                   onln_rlbk_flg, restart, write_loc, local_wrap, xoff_sent,
                   temp_read, upd_seqno, tupd_num, dbVars, srcVars, faults>>

\* The update process met a bad transaction: REPL_BADTRANS if there is a connection
\* and the source server has answered.
PollBadTrans ==
    /\ Polls /\ rpc # "start"
    /\ bad_trans /\ ~onln_rlbk_flg
    /\ upc = "bad" => "slow_rollback" \in Races
    /\ ResetPool
    /\ bad_trans' = FALSE
    /\ jnl_seqno' = read_jnl_seqno
    /\ write_loc' = 0 /\ local_wrap' = PoolSize /\ cur' = NoTrans
    /\ IF rpc \in {"connect", "handshake"}
       THEN UNCHANGED <<rpc, srcVars>>
       ELSE /\ Stream!Restart(read_jnl_seqno) /\ sending' = TRUE
            /\ rpc' = "recv"
    /\ UNCHANGED <<lens, data, read, read_jnl_seqno, onln_rlbk_flg, restart,
                   xoff_sent, reported, updVars, dbVars, faults>>

\* The update process met an online rollback: the connection is closed.
PollRollback ==
    /\ Polls
    /\ onln_rlbk_flg
    /\ ResetPool
    /\ onln_rlbk_flg' = FALSE
    /\ jnl_seqno' = 0
    /\ Drain
    /\ rpc' = "connect" /\ cur' = NoTrans
    /\ UNCHANGED <<lens, data, read, read_jnl_seqno, bad_trans, restart, write_loc,
                   local_wrap, xoff_sent, reported, updVars, dbVars, faults>>

----------------------------------------------------------------------------
(* The connection breaks, the receiver server is killed and started again. *)

ConnectionReset ==
    /\ rpc \in {"start", "handshake", "recv", "copy"}
    /\ Fault("reset")
    /\ Drain
    /\ rpc' = "connect" /\ cur' = NoTrans
    /\ UNCHANGED <<lens, data, ctlVars, jnl_seqno, read, read_jnl_seqno, bad_trans,
                   onln_rlbk_flg, restart, write_loc, local_wrap, xoff_sent,
                   reported, updVars, dbVars>>

KillReceiver ==
    /\ rpc # "down"
    /\ Fault("rcvr_killed")
    /\ Drain
    /\ rpc' = "down" /\ write_loc' = 0 /\ local_wrap' = PoolSize
    /\ cur' = NoTrans /\ xoff_sent' = FALSE /\ reported' = FALSE
    /\ UNCHANGED <<lens, data, ctlVars, jnl_seqno, read, read_jnl_seqno, bad_trans,
                   onln_rlbk_flg, restart, updVars, dbVars>>

\* gtmrecv attaches to the existing pool.
RestartReceiver ==
    /\ rpc = "down"
    /\ restart' = "RCVR_RESTARTED"
    /\ upc' = IF upc = "dead" THEN "init" ELSE upc
    /\ rpc' = "restarting"
    /\ UNCHANGED <<lens, data, ctlVars, jnl_seqno, read, read_jnl_seqno, bad_trans,
                   onln_rlbk_flg, write_loc, local_wrap, cur, xoff_sent, reported,
                   temp_read, upd_seqno, tupd_num, dbVars, srcVars, faults>>

UpdAnswered == restart # "RCVR_RESTARTED" \/ upc = "dead"

ReceiverRestarted ==
    /\ rpc = "restarting"
    /\ UpdAnswered
    /\ bad_trans' = FALSE
    /\ ResetPool
    /\ restart' = "NO_RESTART"
    /\ rpc' = "connect"
    /\ UNCHANGED <<lens, data, jnl_seqno, read, read_jnl_seqno, onln_rlbk_flg,
                   write_loc, local_wrap, cur, xoff_sent, reported, updVars,
                   dbVars, srcVars, faults>>

----------------------------------------------------------------------------
(* The update process.                                                     *)

\* What the update process leaves alone, except where an action says otherwise.
rcvrOwn == <<lens, data, write, write_wrap, rcvrVars, srcVars>>

\* updproc: where to start is read from the journal pool.
UpdInit ==
    /\ upc = "init"
    /\ read' = 0 /\ read_jnl_seqno' = 0
    /\ upd_seqno' = applied + 1 /\ jnl_seqno' = applied + 1
    /\ rolled_back' = FALSE
    /\ temp_read' = 0 /\ tupd_num' = 0
    /\ upc' = "init_read"
    /\ UNCHANGED <<rcvrOwn, wrapped, bad_trans, onln_rlbk_flg, restart, applied,
                   faults>>

UpdInitRead ==
    /\ upc = "init_read"
    /\ read_jnl_seqno' = upd_seqno
    /\ upc' = "top"
    /\ UNCHANGED <<rcvrOwn, wrapped, jnl_seqno, read, bad_trans, onln_rlbk_flg,
                   restart, temp_read, upd_seqno, tupd_num, dbVars, faults>>

\* updproc_actions: the receiver server was started again and asks for jnl_seqno.
UpdRestarted ==
    /\ upc = "top" /\ restart = "RCVR_RESTARTED"
    /\ jnl_seqno' = upd_seqno
    /\ read' = 0
    /\ restart' = "UPD_RESTARTED"
    /\ temp_read' = 0 /\ tupd_num' = 0
    /\ UNCHANGED <<rcvrOwn, wrapped, read_jnl_seqno, bad_trans, onln_rlbk_flg, upc,
                   upd_seqno, dbVars, faults>>

\* updproc_ch: back to updproc, which tells the receiver and waits for its answer.
OnlineRollbackSeen ==
    /\ rolled_back' = FALSE
    /\ onln_rlbk_flg' = TRUE
    /\ upc' = "rollback"

\* The top of the loop, up to the test of wrapped.
UpdTop ==
    /\ upc = "top" /\ restart = "NO_RESTART"
    /\ IF bad_trans \/ onln_rlbk_flg
       THEN ~onln_rlbk_flg /\ rolled_back /\ OnlineRollbackSeen
       ELSE /\ upc' = IF tupd_num = 0 /\ ~wrapped THEN "compare" ELSE "end"
            /\ UNCHANGED <<rolled_back, onln_rlbk_flg>>
    /\ UNCHANGED <<rcvrOwn, wrapped, jnl_seqno, read, read_jnl_seqno, bad_trans,
                   restart, temp_read, upd_seqno, tupd_num, applied, faults>>

\* Is there something to process?
UpdCompare ==
    /\ upc = "compare"
    /\ IF write = read /\ rolled_back
       THEN OnlineRollbackSeen
       ELSE /\ upc' = IF write = read THEN "top" ELSE "end"
            /\ UNCHANGED <<rolled_back, onln_rlbk_flg>>
    /\ UNCHANGED <<rcvrOwn, wrapped, jnl_seqno, read, read_jnl_seqno, bad_trans,
                   restart, temp_read, upd_seqno, tupd_num, applied, faults>>

UpdRollback ==
    /\ upc = "rollback"
    /\ jnl_seqno = 0
    /\ upc' = "init"
    /\ UNCHANGED <<rcvrOwn, wrapped, jnl_seqno, read, read_jnl_seqno, bad_trans,
                   onln_rlbk_flg, restart, temp_read, upd_seqno, tupd_num, dbVars,
                   faults>>

\* Is this the end of the data before the wrap?
UpdEnd ==
    /\ upc = "end"
    /\ upc' = IF temp_read >= write_wrap THEN "wrapped" ELSE "record"
    /\ UNCHANGED <<rcvrOwn, wrapped, jnl_seqno, read, read_jnl_seqno, bad_trans,
                   onln_rlbk_flg, restart, temp_read, upd_seqno, tupd_num, dbVars,
                   faults>>

\* The update process wraps: first read ...
UpdWrapRead ==
    /\ upc = "wrapped"
    /\ IF wrapped
       THEN upc' = "unwrap" /\ temp_read' = 0 /\ read' = 0
       ELSE upc' = "top" /\ UNCHANGED <<temp_read, read>>
    /\ UNCHANGED <<rcvrOwn, wrapped, jnl_seqno, read_jnl_seqno, bad_trans,
                   onln_rlbk_flg, restart, upd_seqno, tupd_num, dbVars, faults>>

\* ... then wrapped.
UpdWrapFlag ==
    /\ upc = "unwrap"
    /\ wrapped' = FALSE
    /\ upc' = "reread"
    /\ UNCHANGED <<rcvrOwn, jnl_seqno, read, read_jnl_seqno, bad_trans,
                   onln_rlbk_flg, restart, temp_read, upd_seqno, tupd_num, dbVars,
                   faults>>

UpdReread ==
    /\ upc = "reread"
    /\ upc' = IF write = 0 THEN "top" ELSE "record"
    /\ UNCHANGED <<rcvrOwn, wrapped, jnl_seqno, read, read_jnl_seqno, bad_trans,
                   onln_rlbk_flg, restart, temp_read, upd_seqno, tupd_num, dbVars,
                   faults>>

\* The record at temp_read is the next one of this transaction.
GoodRecord == /\ temp_read < PoolSize
              /\ upd_seqno \in Trans
              /\ data[temp_read] = <<upd_seqno, tupd_num + 1>>

\* A record is processed.  The last one of a transaction commits it.
UpdRecord ==
    /\ upc = "record"
    /\ GoodRecord
    /\ IF tupd_num + 1 = lens[upd_seqno]
       THEN upc' = "commit" /\ UNCHANGED <<temp_read, tupd_num>>
       ELSE upc' = "top" /\ temp_read' = temp_read + 1 /\ tupd_num' = tupd_num + 1
    /\ UNCHANGED <<rcvrOwn, wrapped, jnl_seqno, read, read_jnl_seqno, bad_trans,
                   onln_rlbk_flg, restart, upd_seqno, dbVars, faults>>

\* The record is not as it should be, or does not fit into the database.
UpdBadRecord ==
    /\ upc = "record"
    /\ IF GoodRecord THEN Fault("bad_trans") ELSE UNCHANGED faults
    /\ bad_trans' = TRUE
    /\ upc' = "bad"
    /\ UNCHANGED <<rcvrOwn, wrapped, jnl_seqno, read, read_jnl_seqno,
                   onln_rlbk_flg, restart, temp_read, upd_seqno, tupd_num, dbVars>>

\* OP_TROLLBACK, and the transaction will be read again.
UpdBadTrans ==
    /\ upc = "bad"
    /\ read' = 0 /\ temp_read' = 0 /\ tupd_num' = 0
    /\ upc' = "top"
    /\ UNCHANGED <<rcvrOwn, wrapped, jnl_seqno, read_jnl_seqno, bad_trans,
                   onln_rlbk_flg, restart, upd_seqno, dbVars, faults>>

UpdCommit ==
    /\ upc = "commit"
    /\ IF rolled_back
       THEN OnlineRollbackSeen /\ UNCHANGED applied
       ELSE /\ applied' = upd_seqno
            /\ upc' = "advance"
            /\ UNCHANGED <<rolled_back, onln_rlbk_flg>>
    /\ UNCHANGED <<rcvrOwn, wrapped, jnl_seqno, read, read_jnl_seqno, bad_trans,
                   restart, temp_read, upd_seqno, tupd_num, faults>>

UpdAdvance ==
    /\ upc = "advance"
    /\ upd_seqno' = upd_seqno + 1 /\ read_jnl_seqno' = upd_seqno + 1
    /\ temp_read' = temp_read + 1 /\ read' = temp_read + 1
    /\ tupd_num' = 0
    /\ upc' = "top"
    /\ UNCHANGED <<rcvrOwn, wrapped, jnl_seqno, bad_trans, onln_rlbk_flg, restart,
                   dbVars, faults>>

KillUpd ==
    /\ upc # "dead"
    /\ Fault("upd_killed")
    /\ upc' = "dead" /\ temp_read' = 0 /\ tupd_num' = 0
    /\ UNCHANGED <<rcvrOwn, wrapped, jnl_seqno, read, read_jnl_seqno, bad_trans,
                   onln_rlbk_flg, restart, upd_seqno, dbVars>>

\* mupip journal -rollback -online takes the last transactions away.
OnlineRollback ==
    /\ Fault("rollback")
    /\ \E s \in 0 .. applied - 1 : applied' = s
    /\ rolled_back' = TRUE
    /\ UNCHANGED <<rcvrOwn, wrapped, jnl_seqno, read, read_jnl_seqno, bad_trans,
                   onln_rlbk_flg, restart, updVars>>

----------------------------------------------------------------------------

Receive ==
    \/ Connect \/ SendStart \/ WillRestart \/ ReceiveTrans \/ IdleFlowControl
    \/ WrapEnd \/ WrapWrite \/ WrapFlag
    \/ \E n \in 1 .. PoolSize : CopyToRecvpool(n)
    \/ ProcessTrBuff \/ PublishWrite

Poll == PollDead \/ PollStartUpd \/ PollBadTrans \/ PollRollback

Update ==
    \/ UpdInit \/ UpdInitRead \/ UpdRestarted \/ UpdTop \/ UpdCompare
    \/ UpdRollback \/ UpdEnd \/ UpdWrapRead \/ UpdWrapFlag \/ UpdReread
    \/ UpdRecord \/ UpdBadTrans \/ UpdCommit \/ UpdAdvance
    \/ UpdBadRecord

Next ==
    \/ SourceSend
    \/ Receive \/ Poll \/ RestartReceiver \/ ReceiverRestarted
    \/ Update
    \/ ConnectionReset \/ KillReceiver \/ KillUpd \/ OnlineRollback

Spec == Init /\ [][Next]_vars

\* The three processes run, and an operator starts again what was killed.
FairSpec ==
    /\ Spec
    /\ WF_vars(SourceSend)
    /\ WF_vars(Receive)
    /\ WF_vars(Poll)
    /\ WF_vars(RestartReceiver \/ ReceiverRestarted)
    /\ WF_vars(Update)

----------------------------------------------------------------------------
(* Properties.                                                             *)

Receiving == {"handshake", "recv", "wrap", "wrap_write", "wrap_flag", "copy",
              "process", "publish"}

\* Types, and the bounds of the offsets into the pool.
TypeOK ==
    /\ data \in [0 .. PoolSize - 1 -> (Trans \union {NoTrans}) \X (0 .. PoolSize)]
    /\ write \in 0 .. PoolSize /\ write_wrap \in 0 .. PoolSize
    /\ wrapped \in BOOLEAN
    /\ jnl_seqno \in 0 .. NumTrans + 1
    /\ read \in 0 .. PoolSize /\ read_jnl_seqno \in 0 .. NumTrans + 1
    /\ bad_trans \in BOOLEAN /\ onln_rlbk_flg \in BOOLEAN
    /\ restart \in {"NO_RESTART", "RCVR_RESTARTED", "UPD_RESTARTED"}
    /\ rpc \in Receiving \union {"down", "restarting", "connect", "start"}
    /\ write_loc \in 0 .. PoolSize /\ local_wrap \in 0 .. PoolSize
    /\ cur \in Trans \union {NoTrans}
    /\ xoff_sent \in BOOLEAN /\ reported \in BOOLEAN
    /\ upc \in {"dead", "init", "init_read", "top", "compare", "rollback", "end",
                "wrapped", "unwrap", "reread", "record", "bad", "commit",
                "advance"}
    /\ temp_read \in 0 .. PoolSize
    /\ upd_seqno \in 1 .. NumTrans + 1
    /\ tupd_num \in 0 .. PoolSize
    /\ applied \in 0 .. NumTrans /\ rolled_back \in BOOLEAN
    /\ avail = NumTrans
    /\ next \in 1 .. NumTrans + 1 /\ chan \in Seq(Trans) /\ sending \in BOOLEAN
    /\ faults \subseteq Faults

\* The update process never reads a record of the pool that is stale, overwritten
\* or not yet there: the record at temp_read is the next one of the transaction it
\* is at, and the pool does not wrap in the middle of a transaction ("receive pool
\* cannot wrap in the middle of TP", updproc_actions).
ReadsNextRecord ==
    /\ upc = "record" => GoodRecord
    /\ upc = "wrapped" => tupd_num = 0

\* The receiver stores what arrives without looking at its seqno: jnl_seqno, by
\* which it asks for more after a new connection, is the seqno of the transaction
\* that the pipe brings next (process_tr_buff, do_main_loop).
PipeContinuesPool ==
    rpc \in Receiving =>
        jnl_seqno = (IF cur # NoTrans THEN cur
                     ELSE IF chan # << >> THEN Head(chan) ELSE next)
                    + (IF rpc = "publish" THEN 1 ELSE 0)

\* Every transaction of the source is applied, although the pool is small, the
\* source is told to stop and to go on, connections break and processes are killed
\* and started again.
EventuallyApplied == <>[](applied = NumTrans)

\* A receiver server that "will trigger update process to reset
\* recvpool_ctl->jnl_seqno" after a crash gets its answer (gtmrecv).
RestartIsAnswered == restart = "RCVR_RESTARTED" ~> restart # "RCVR_RESTARTED"

============================================================================

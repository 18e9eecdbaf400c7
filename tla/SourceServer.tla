---------------------------- MODULE SourceServer ----------------------------
(***************************************************************************)
(* The source server: it sends the committed transactions to the receiver, *)
(* reading them from the journal pool without any lock or, when updaters   *)
(* have lapped it, from the journal files, and keeps read_addr in step     *)
(* with read_jnl_seqno so that it can return to the pool.                  *)
(*                                                                         *)
(* The pool is the one of CommitLog.  Every read of a shared field that    *)
(* another process may change before the next one is a step of its own.    *)
(***************************************************************************)
EXTENDS CommitLog

CONSTANTS
    PoolSize,       \* jnlpool_size
    StartSeqno,     \* start_jnl_seqno: transactions before it are only in files
    BadSeqnos,      \* transactions marked JRT_BAD in the pool
    MaxSeqno,       \* bound: seqno of the last transaction
    NullLen,        \* NULL_RECLEN
    Races           \* which of the races below may happen

\* file_first: the process of a transaction that is in the journal files has not yet
\* completed it in the pool, or another process has the latch, so that
\* repl_phase2_cleanup does not publish it.
\* late_publish: space is reserved in the pool while write_addr is still behind the
\* read_addr of a server that was started again.
\* future_length: lastwrite_len is the length of a reservation that is not yet, or
\* no more, counted in rsrv_write_addr when gtmsource_srch_restart relies on it.
\* shrinking: a reservation is given up while gtmsource_srch_restart runs, so that
\* the pool has overflowed at its first check and has not at the second one.
\* salvaged_length: the files have a NULL record in place of a longer transaction
\* whose process died.
ASSUME SourceAssumption ==
    /\ PoolSize \in Nat \ {0}
    /\ StartSeqno \in Nat \ {0}
    /\ MaxSeqno \in Nat
    /\ NullLen \in Nat \ {0}
    /\ Races \subseteq {"file_first", "late_publish", "future_length", "shrinking",
                        "salvaged_length"}

VARIABLES
    filed,                  \* seqno of the last transaction in the journal files
    salvaged,               \* those that are only a NULL record there
    \* gtmsource_local, and the global gtmsource_save_read_jnl_seqno.
    read_state, read_addr, read_jnl_seqno, save_read_jnl_seqno,
    \* The server process and its local variables.
    pc,
    stop_read_at,           \* gtmsource_readpool: write_addr as first read
    copied,                 \* gtmsource_readpool: what is in the buffer
    recvd_jnl_seqno,        \* gtmsource_srch_restart: its argument
    cur_read_addr, cur_read_jnl_seqno, prev_tr_size,
    \* The pipe.
    chan

localVars == <<stop_read_at, copied, recvd_jnl_seqno, cur_read_addr,
               cur_read_jnl_seqno, prev_tr_size>>
readVars  == <<read_state, read_addr, read_jnl_seqno, save_read_jnl_seqno>>
fileVars  == <<filed, salvaged>>
vars      == <<logVars, fileVars, readVars, pc, localVars, chan>>

Searching == {"srch_first", "srch_cmp", "srch_wait", "srch_loop", "srch_step",
              "srch_end"}
Points == {"waiting", "sending", "copy", "check"} \union Searching

jnl_seqno == StartSeqno + Len(log)

\* Virtual address and length of transaction s.
Start(s) == End(s - StartSeqno)

Length(s) == log[s - StartSeqno + 1].tot_jrec_len

Larger(a, b) == IF a < b THEN b ELSE a

\* A transaction of the buffer that is not the one it is taken for.
Garbage == 0

----------------------------------------------------------------------------

\* The pool was just created.
SourceInit ==
    /\ Init
    /\ filed = StartSeqno - 1
    /\ salvaged = {}
    /\ read_state = "READ_POOL"
    /\ read_addr = 0
    /\ read_jnl_seqno = StartSeqno
    /\ save_read_jnl_seqno = 0
    /\ pc = "waiting"
    /\ stop_read_at = 0 /\ copied = FALSE
    /\ recvd_jnl_seqno = 1
    /\ cur_read_addr = 0 /\ cur_read_jnl_seqno = 1
    /\ prev_tr_size = 0
    /\ chan = << >>

\* The local variables are gone when their function returns.
Return ==
    /\ stop_read_at' = 0 /\ copied' = FALSE
    /\ recvd_jnl_seqno' = 1
    /\ cur_read_addr' = 0 /\ cur_read_jnl_seqno' = 1
    /\ prev_tr_size' = 0

\* The server reads the pool at an address that is not yet published.
AheadOfPool == read_state = "READ_POOL" /\ write_addr < read_addr

\* What updaters do to the pool.
Updaters ==
    /\ \/ jnl_seqno <= MaxSeqno /\ \E len \in Lens : StoreLength(len)
       \/ /\ jnl_seqno <= MaxSeqno
          /\ AheadOfPool => "late_publish" \in Races
          /\ StoreAddr
       \/ Commit \/ Publish
       \/ (pc = "srch_loop" => "shrinking" \in Races) /\ Abort
    /\ UNCHANGED <<fileVars, readVars, pc, localVars, chan>>

\* FINISH_JNL_PHASE2_IN_JNLBUFF: the records of the next transaction are in the
\* journal files, before or after write_addr passes it.
FileComplete ==
    /\ filed < jnl_seqno - 1
    /\ filed' = filed + 1
    /\ salvaged' \in {salvaged} \union
           IF "salvaged_length" \in Races /\ Length(filed + 1) > NullLen
           THEN {salvaged \union {filed + 1}} ELSE {}
    /\ UNCHANGED <<logVars, readVars, pc, localVars, chan>>

----------------------------------------------------------------------------
(* gtmsource_get_jnlrecs.                                                  *)

\* The subtraction of the code is unsigned.
jnlpool_hasnt_overflowed(addr) ==
    addr <= rsrv_write_addr /\ rsrv_write_addr - addr <= PoolSize

\* Nobody is inside UPDATE_JPL_RSRV_WRITE_ADDR, as when the server holds the lock.
NoReservation == rsrv_write_addr = End(Len(log)) /\ lastwrite_len = LastLen

\* End of the transactions that are complete in the pool: the published ones, and
\* those whose processes went on to write them to the files.
Complete ==
    IF "file_first" \in Races THEN write_addr
    ELSE Larger(write_addr, Start(filed + 1))

\* Mutant of repl_phase2_cleanup: the call is missing.
NoCleanup == UNCHANGED logVars

\* The server publishes what is complete.
repl_phase2_cleanup ==
    /\ write_addr' = Complete
    /\ UNCHANGED <<log, rsrv_write_addr, lastwrite_len>>

\* Mutant of SwitchToFile: the address still stands for the old sync point.
SwitchKeepsSync ==
    /\ read_state' = "READ_FILE"
    /\ UNCHANGED <<read_addr, read_jnl_seqno, save_read_jnl_seqno>>

SwitchToFile ==
    /\ read_state' = "READ_FILE"
    /\ save_read_jnl_seqno' = read_jnl_seqno
    /\ UNCHANGED <<read_addr, read_jnl_seqno>>

\* gtmsource_get_jnlrecs, and gtmsource_readpool up to the first overflow check
\* (gtmsource_readpool.c:84-97).
ReadPool ==
    /\ pc = "sending" /\ read_state = "READ_POOL"
    /\ repl_phase2_cleanup
    /\ \/ /\ read_addr = write_addr'
          /\ UNCHANGED <<pc, stop_read_at, readVars>>
       \/ /\ read_addr # write_addr'
          /\ IF jnlpool_hasnt_overflowed(read_addr)
             THEN pc' = "copy" /\ stop_read_at' = write_addr' /\ UNCHANGED readVars
             ELSE SwitchToFile /\ UNCHANGED <<pc, stop_read_at>>
    /\ UNCHANGED <<fileVars, copied, recvd_jnl_seqno, cur_read_addr,
                   cur_read_jnl_seqno, prev_tr_size, chan>>

\* Some committed transaction reaches a pool's length beyond addr: its process
\* may have written over what was there.
Overwritten(addr) == End(Len(log)) - addr > PoolSize

\* memcpy to the buffer.
CopyFromPool ==
    /\ pc = "copy"
    /\ copied' \in
           IF read_addr = Start(read_jnl_seqno) /\ read_addr < write_addr
           THEN IF Overwritten(read_addr) THEN BOOLEAN ELSE {TRUE}
           ELSE {FALSE}
    /\ pc' = "check"
    /\ UNCHANGED <<logVars, fileVars, readVars, stop_read_at, recvd_jnl_seqno,
                   cur_read_addr, cur_read_jnl_seqno, prev_tr_size, chan>>

\* The first n transactions of the buffer are whole, and none is JRT_BAD.
Whole(n) ==
    /\ read_jnl_seqno + n <= jnl_seqno
    /\ Start(read_jnl_seqno + n) <= stop_read_at
    /\ \A i \in 0 .. n - 1 : read_jnl_seqno + i \notin BadSeqnos

\* Mutant of RecheckPool: what was copied is sent without another look.
RecheckNothing(overflow) == FALSE

RecheckPool(overflow) == overflow \/ (copied /\ read_jnl_seqno \in BadSeqnos)

\* gtmsource_readpool after the copy: the second check and, if it is passed, as
\* many transactions as fit into the buffer.
SendFromPool ==
    /\ pc = "check"
    /\ pc' = "sending"
    /\ \/ /\ RecheckPool(~jnlpool_hasnt_overflowed(read_addr))
          /\ SwitchToFile
          /\ UNCHANGED chan
       \/ /\ ~RecheckPool(~jnlpool_hasnt_overflowed(read_addr))
          /\ \E n \in 1 .. MaxSeqno :
                /\ IF copied
                   THEN /\ Whole(n)
                        /\ chan' = chan \o [i \in 1 .. n |-> read_jnl_seqno + i - 1]
                        /\ read_addr' = Start(read_jnl_seqno + n)
                   ELSE /\ n = 1
                        /\ chan' = Append(chan, Garbage)
                        /\ \E len \in Lens : read_addr' = read_addr + len
                /\ read_jnl_seqno' = read_jnl_seqno + n
          /\ UNCHANGED <<read_state, save_read_jnl_seqno>>
    /\ Return
    /\ UNCHANGED <<logVars, fileVars>>

FileLength(s) == IF s \in salvaged THEN NullLen ELSE Length(s)

\* The address of transaction s is known when s is read from the files.
InSync(s) == save_read_jnl_seqno <= s

\* gtmsource_readfiles: the next transaction is read from the journal files, and
\* the server returns to the pool if what follows is there.  If write_addr is behind
\* the new read_addr, it first publishes what is complete.
ReadFiles ==
    LET addr == IF InSync(read_jnl_seqno)
                THEN read_addr + FileLength(read_jnl_seqno) ELSE read_addr
        file2pool == InSync(read_jnl_seqno) /\ jnlpool_hasnt_overflowed(addr)
    IN
    /\ pc = "sending" /\ read_state = "READ_FILE"
    /\ read_jnl_seqno < jnl_seqno
    /\ read_jnl_seqno <= filed
    /\ IF file2pool /\ write_addr < addr THEN repl_phase2_cleanup
       ELSE UNCHANGED logVars
    /\ read_state' = IF file2pool THEN "READ_POOL" ELSE "READ_FILE"
    /\ read_addr' = addr
    /\ read_jnl_seqno' = read_jnl_seqno + 1
    /\ chan' = Append(chan, read_jnl_seqno)
    /\ UNCHANGED <<fileVars, save_read_jnl_seqno, pc, localVars>>

----------------------------------------------------------------------------
(* gtmsource_srch_restart: the receiver asks for seqno s.                  *)

\* Mutant of SyncWithPool: one too many.
SyncBehindPool ==
    /\ NoReservation
    /\ read_state' = "READ_FILE"
    /\ save_read_jnl_seqno' = jnl_seqno + 1
    /\ read_addr' = rsrv_write_addr

\* The server forgot the address of s: it starts from the end of the pool.
SyncWithPool ==
    /\ NoReservation
    /\ read_state' = "READ_FILE"
    /\ save_read_jnl_seqno' = jnl_seqno
    /\ read_addr' = rsrv_write_addr

\* In READ_FILE state read_addr belongs to the seqno the server is at if it is
\* past the sync point.
SyncForFile ==
    save_read_jnl_seqno' = Larger(save_read_jnl_seqno, read_jnl_seqno)

\* The receiver has the transactions before s.  They were sent by this server or
\* by that of another instance, which got them from here.
MayAskFor(s) == \/ s - 1 <= filed
                \/ s >= StartSeqno /\ Start(s) <= write_addr

SrchRestart(s) ==
    /\ pc \in {"waiting", "sending"}
    /\ MayAskFor(s)
    /\ chan' = << >>
    /\ IF s <= read_jnl_seqno /\ read_state = "READ_POOL"
       THEN /\ pc' = "srch_first"
            /\ recvd_jnl_seqno' = s
            /\ cur_read_addr' = read_addr
            /\ cur_read_jnl_seqno' = read_jnl_seqno
            /\ UNCHANGED readVars
       ELSE /\ pc' = "sending"
            /\ read_jnl_seqno' = s
            /\ IF s <= read_jnl_seqno
               THEN SyncForFile /\ UNCHANGED <<read_state, read_addr>>
               ELSE IF read_state = "READ_POOL" \/ s > save_read_jnl_seqno
                    THEN SyncWithPool
                    ELSE UNCHANGED <<read_state, read_addr, save_read_jnl_seqno>>
            /\ UNCHANGED <<recvd_jnl_seqno, cur_read_addr, cur_read_jnl_seqno>>
    /\ UNCHANGED <<logVars, fileVars, stop_read_at, copied, prev_tr_size>>

GoOnSearching ==
    /\ jnlpool_hasnt_overflowed(cur_read_addr)
    /\ cur_read_jnl_seqno > recvd_jnl_seqno
    /\ cur_read_jnl_seqno > StartSeqno

StepBack(size) ==
    /\ cur_read_addr' = cur_read_addr - size
    /\ cur_read_jnl_seqno' = cur_read_jnl_seqno - 1

\* The length of the last transaction is not in the pool but in lastwrite_len,
\* which is read first ...
SrchLastwriteLen ==
    /\ pc = "srch_first"
    /\ IF GoOnSearching
       THEN prev_tr_size' = lastwrite_len /\ pc' = "srch_cmp"
       ELSE pc' = "srch_loop" /\ UNCHANGED prev_tr_size
    /\ UNCHANGED <<logVars, fileVars, readVars, stop_read_at, copied,
                   recvd_jnl_seqno, cur_read_addr, cur_read_jnl_seqno, chan>>

\* There is no more input: cur_read_addr is the end of the reserved space.
AtEnd == rsrv_write_addr = cur_read_addr

\* ... and used if nothing is reserved behind cur_read_addr.
SrchAtEnd ==
    /\ pc = "srch_cmp"
    /\ IF AtEnd
       THEN /\ "future_length" \in Races \/ prev_tr_size = LastLen
            /\ StepBack(prev_tr_size)
       ELSE UNCHANGED <<cur_read_addr, cur_read_jnl_seqno>>
    /\ pc' = "srch_wait"
    /\ UNCHANGED <<logVars, fileVars, readVars, stop_read_at, copied,
                   recvd_jnl_seqno, prev_tr_size, chan>>

Readable == cur_read_addr # write_addr

\* The transaction behind cur_read_addr is not published: wait for it.
SrchWait ==
    /\ pc = "srch_wait"
    /\ \/ Readable /\ pc' = "srch_loop" /\ UNCHANGED logVars
       \/ ~Readable /\ repl_phase2_cleanup /\ UNCHANGED pc
    /\ UNCHANGED <<fileVars, readVars, localVars, chan>>

\* prev_jnldata_len is read from the header of the transaction at cur_read_addr.
\* If that is not there (yet, or any more) it is some number.
SrchPrevLen ==
    /\ pc = "srch_loop"
    /\ IF GoOnSearching
       THEN /\ prev_tr_size' \in
                   IF /\ cur_read_addr = Start(cur_read_jnl_seqno)
                      /\ cur_read_addr < Complete
                      /\ ~Overwritten(cur_read_addr)
                   THEN {Length(cur_read_jnl_seqno - 1)} ELSE Lens
            /\ pc' = "srch_step"
       ELSE pc' = "srch_end" /\ UNCHANGED prev_tr_size
    /\ UNCHANGED <<logVars, fileVars, readVars, stop_read_at, copied,
                   recvd_jnl_seqno, cur_read_addr, cur_read_jnl_seqno, chan>>

\* It is trusted if the transaction before it was not overwritten.
SrchStep ==
    /\ pc = "srch_step"
    /\ IF /\ prev_tr_size <= cur_read_addr
          /\ jnlpool_hasnt_overflowed(cur_read_addr - prev_tr_size)
       THEN StepBack(prev_tr_size) /\ pc' = "srch_loop"
       ELSE pc' = "srch_end" /\ UNCHANGED <<cur_read_addr, cur_read_jnl_seqno>>
    /\ UNCHANGED <<logVars, fileVars, readVars, stop_read_at, copied,
                   recvd_jnl_seqno, prev_tr_size, chan>>

\* The result: the pool has recvd_jnl_seqno, or read_addr is the sync point.
SrchEnd ==
    /\ pc = "srch_end"
    /\ IF /\ jnlpool_hasnt_overflowed(cur_read_addr)
          /\ cur_read_jnl_seqno = recvd_jnl_seqno
          /\ cur_read_jnl_seqno >= StartSeqno
       THEN UNCHANGED <<read_state, save_read_jnl_seqno>>
       ELSE /\ read_state' = "READ_FILE"
            /\ save_read_jnl_seqno' = Larger(cur_read_jnl_seqno, StartSeqno)
    /\ read_addr' = IF cur_read_jnl_seqno < StartSeqno THEN 0 ELSE cur_read_addr
    /\ read_jnl_seqno' = recvd_jnl_seqno
    /\ pc' = "sending"
    /\ Return
    /\ UNCHANGED <<logVars, fileVars, chan>>

----------------------------------------------------------------------------
(* Connections, and the server itself, come and go.                        *)

\* The receiver takes a transaction from the pipe.
Receive ==
    /\ chan # << >>
    /\ chan' = Tail(chan)
    /\ UNCHANGED <<logVars, fileVars, readVars, pc, localVars>>

ConnectionReset ==
    /\ pc = "sending"
    /\ pc' = "waiting"
    /\ chan' = << >>
    /\ UNCHANGED <<logVars, fileVars, readVars, localVars>>

\* gtmsource: a server that was killed, or shut down, is started again.  It finds
\* its slot in the pool, or takes a new one.
gtmsource ==
    /\ NoReservation
    /\ read_jnl_seqno' \in {1, read_jnl_seqno}
    /\ read_addr' = rsrv_write_addr
    /\ IF read_jnl_seqno' < jnl_seqno
       THEN read_state' = "READ_FILE" /\ save_read_jnl_seqno' = jnl_seqno
       ELSE read_state' = "READ_POOL" /\ save_read_jnl_seqno' = 0
    /\ pc' = "waiting"
    /\ Return
    /\ chan' = << >>
    /\ UNCHANGED <<logVars, fileVars>>

Read == ReadPool \/ CopyFromPool \/ SendFromPool \/ ReadFiles

Search == SrchLastwriteLen \/ SrchAtEnd \/ SrchWait \/ SrchPrevLen \/ SrchStep
          \/ SrchEnd

SourceNext ==
    \/ Updaters \/ FileComplete
    \/ Read \/ Search
    \/ \E s \in 1 .. jnl_seqno : SrchRestart(s)
    \/ Receive \/ ConnectionReset \/ gtmsource

SourceSpec == SourceInit /\ [][SourceNext]_vars

----------------------------------------------------------------------------
(* Properties.                                                             *)

\* Types of the server's state.
TypeOK ==
    /\ filed \in Nat
    /\ salvaged \subseteq 1 .. filed
    /\ read_state \in {"READ_POOL", "READ_FILE"}
    /\ read_addr \in Nat
    /\ read_jnl_seqno \in 1 .. jnl_seqno
    /\ save_read_jnl_seqno \in 0 .. jnl_seqno
    /\ pc \in Points
    /\ stop_read_at \in Nat
    /\ copied \in BOOLEAN
    /\ recvd_jnl_seqno \in 1 .. jnl_seqno
    /\ cur_read_addr \in Nat
    /\ cur_read_jnl_seqno \in 1 .. jnl_seqno
    /\ prev_tr_size \in Nat
    /\ chan \in Seq(Nat)

\* read_addr is "Virtual address of the next journal record in the merged journal
\* file to read": in READ_POOL state the address of read_jnl_seqno; in READ_FILE
\* state that of the seqno up to which the files are read without counting, or of
\* read_jnl_seqno beyond it.  The search keeps its own pair in step, too
\* (gtmsource_readpool, gtmsource_readfiles, gtmsource_srch_restart).
ReadAddrIsSeqno ==
    /\ read_addr = Start(IF read_state = "READ_POOL" THEN read_jnl_seqno
                         ELSE Larger(read_jnl_seqno, save_read_jnl_seqno))
    /\ pc \in Searching => cur_read_addr = Start(cur_read_jnl_seqno)

\* "there should be data to be read, if not how did we end up here?": although the
\* server comes back from the files, or is started again, at an address that
\* write_addr has not reached, gtmsource_readpool is entered only when a transaction
\* behind read_addr is published (repl_phase2_cleanup in gtmsource_get_jnlrecs and
\* gtmsource_readfiles).
PoolHasData == pc \in {"copy", "check"} => read_addr < stop_read_at

Stream == INSTANCE SeqStream WITH
              avail <- jnl_seqno - 1,
              next  <- IF pc \in Searching THEN recvd_jnl_seqno
                       ELSE read_jnl_seqno

\* The pipe carries whole transactions only, none twice and none left out, from
\* the seqno asked for on, although the pool is read without a lock and is left and
\* entered again: no torn copy passes the second check, no search ends at a wrong
\* address.
SendsStream == Stream!Spec

============================================================================

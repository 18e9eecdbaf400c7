------------------------------ MODULE JnlPool ------------------------------
(***************************************************************************)
(* The journal pool of a replicated YottaDB instance: how updating         *)
(* processes reserve space for the journal records of a transaction under  *)
(* the pool's critical section, fill it outside of it in any order, and    *)
(* how the records are published, in order, to the source server.          *)
(*                                                                         *)
(* One step of the model is one store (or one group of stores no other     *)
(* process can tell apart) to the shared memory, so that a process can be  *)
(* killed (kill -9) between any two of them.  The comments CMTxx are the   *)
(* steps of the commit protocol listed in sr_port/secshr_db_clnup.c.       *)
(***************************************************************************)
EXTENDS Integers, Sequences, FiniteSets

CONSTANTS
    Updaters,    \* processes that commit transactions (t_end, tp_tend)
    Source,      \* the source server
    NoPid,       \* the pid 0 of zeroed shared memory
    ArraySize,   \* JPL_PHASE2_COMMIT_ARRAY_SIZE
    Lens,        \* lengths a transaction may reserve (tot_jrec_len)
    PoolSize,    \* jnlpool_size
    MaxSeqno,    \* bound: no transaction is started after this seqno
    MaxCommits,  \* bound: how many transactions one process commits
    MaxKills,    \* bound: how many processes may be killed
    KillPoints,  \* program points at which a process may be killed
    WhenWritten, \* when a transaction's records are written, see Written
    Errors       \* why a commit may fail: the instance is "frozen", or a
                 \* runtime error at one of the points "crit", "reserved"

Pids == Updaters \union {Source}

\* The values of WhenWritten: a non-TP transaction on an MM database writes its
\* records before CMT07, one that updates a bitmap block after CMT08 but still
\* inside crit, any other one after it released crit (CMT16, CMT17).
Written == {"before_seqno", "in_crit", "after_crit"}

ASSUME JnlPoolAssumption ==
    /\ NoPid \notin Pids
    /\ Source \notin Updaters
    /\ ArraySize \in Nat /\ ArraySize >= 2
    /\ Lens \subseteq Nat \ {0}
    /\ PoolSize \in Nat \ {0}
    /\ MaxSeqno \in Nat
    /\ MaxCommits \in Nat
    /\ MaxKills \in Nat
    /\ WhenWritten \subseteq Written
    /\ Errors \subseteq {"frozen", "crit", "reserved"}

VARIABLES
    \* Shared memory: jnlpool_ctl.
    phase2_commit_index1,   \* oldest slot in use
    phase2_commit_index2,   \* next free slot
    phase2_commit_array,    \* the slots
    rsrv_write_addr,        \* end of the reserved space
    write_addr,             \* end of the space the source server may read
    lastwrite_len,          \* length of the last reservation
    jnl_seqno,              \* seqno the next transaction will have
    \* Shared memory: the robust mutex, the pid noted in it, the latch.
    crit, in_crit, phase2_commit_latch,
    \* The processes.
    alive,      \* those not killed
    pc,         \* where each one is in its commit
    cl,         \* where each one is in repl_phase2_cleanup, if it is in it
    index2,     \* local variable of repl_phase2_cleanup: index2 as first read
    index1,     \* local variable of repl_phase2_cleanup: index1 as computed
    jrs,        \* private: the slot reserved and when it is to be written
    holder,     \* argument of mutex_clean_dead_owner
    \* History.
    log         \* transactions that were given a seqno (CMT07), in order

jplVars  == <<phase2_commit_index1, phase2_commit_index2, phase2_commit_array,
              rsrv_write_addr, write_addr, lastwrite_len, jnl_seqno>>
lockVars == <<crit, in_crit, phase2_commit_latch, holder>>
procVars == <<alive, pc, cl, index2, index1, jrs>>
vars     == <<jplVars, lockVars, procVars, log>>

Points == {"idle", "locked", "crit", "slot", "lastlen", "rsrv", "reserved",
           "written", "seqno", "error", "undo", "leave", "unlock", "phase2",
           "salvage"}
CleanupPoints == {"none", "want", "latched", "published"}

\* Indices of phase2_commit_array.
Indices == 0 .. ArraySize - 1

Slot == [jnl_seqno : Nat, process_id : Pids \union {NoPid},
         start_write_addr : Nat, tot_jrec_len : Nat, prev_jrec_len : Nat,
         write_complete : BOOLEAN]

ZeroSlot == [jnl_seqno |-> 0, process_id |-> NoPid, start_write_addr |-> 0,
             tot_jrec_len |-> 0, prev_jrec_len |-> 0, write_complete |-> FALSE]

Jrs == [phase2_commit_index : Indices, when : Written, pending : BOOLEAN]

NoJrs == [phase2_commit_index |-> 0, when |-> "after_crit", pending |-> FALSE]

----------------------------------------------------------------------------
(* The ring of slots.                                                      *)

\* Mutant of Incr: the index does not wrap around.
IncrNoWrap(i) == i + 1

Incr(i) == IF i + 1 = ArraySize THEN 0 ELSE i + 1

Decr(i) == IF i = 0 THEN ArraySize - 1 ELSE i - 1

\* Number of slots from i up to, not including, j.
Dist(i, j) == IF i <= j THEN j - i ELSE j - i + ArraySize

\* The slot k places after i.
At(i, k) == IF i + k < ArraySize THEN i + k ELSE i + k - ArraySize

LastCmt == phase2_commit_array[Decr(phase2_commit_index2)]

EndOf(s) == s.start_write_addr + s.tot_jrec_len

Init ==
    /\ phase2_commit_index1 = 0
    /\ phase2_commit_index2 = 0
    /\ phase2_commit_array = [i \in Indices |-> ZeroSlot]
    /\ rsrv_write_addr = 0
    /\ write_addr = 0
    /\ lastwrite_len = 0
    /\ jnl_seqno = 1
    /\ crit = NoPid /\ in_crit = NoPid /\ phase2_commit_latch = NoPid
    /\ holder = NoPid
    /\ alive = Pids
    /\ pc = [p \in Pids |-> "idle"]
    /\ cl = [p \in Pids |-> "none"]
    /\ index1 = [p \in Pids |-> 0]
    /\ index2 = [p \in Pids |-> 0]
    /\ jrs = [p \in Pids |-> NoJrs]
    /\ log = << >>

\* Process p is alive, at point l of its commit and not in repl_phase2_cleanup.
Ready(p, l) == p \in alive /\ pc[p] = l /\ cl[p] = "none"

GoTo(p, l) == pc' = [pc EXCEPT ![p] = l]

CallCleanup(p) == cl' = [cl EXCEPT ![p] = "want"]

----------------------------------------------------------------------------
(* grab_lock and rel_lock: the robust mutex of the pool.                   *)

\* An updater takes the lock to commit, the source server when there is
\* something left to publish.
WantsLock(p) ==
    IF p = Source
    THEN write_addr # rsrv_write_addr
    ELSE /\ jnl_seqno <= MaxSeqno
         /\ Cardinality({s \in DOMAIN log : log[s].process_id = p}) < MaxCommits

\* pthread_mutex_trylock or pthread_mutex_timedlock returns 0.
Lock(p) ==
    /\ Ready(p, "idle")
    /\ WantsLock(p)
    /\ crit = NoPid
    /\ crit' = p
    /\ GoTo(p, "locked")
    /\ UNCHANGED <<jplVars, in_crit, phase2_commit_latch, holder, alive, cl,
                   index2, index1, jrs, log>>

\* The same call returns EOWNERDEAD: mutex_clean_dead_owner is entered with the
\* pid noted in in_crit, and clears it first.
LockOwnerDead(p) ==
    /\ Ready(p, "idle")
    /\ WantsLock(p)
    /\ crit \in Pids \ alive
    /\ crit' = p
    /\ holder' = in_crit
    /\ in_crit' = NoPid
    /\ GoTo(p, "salvage")
    /\ UNCHANGED <<jplVars, phase2_commit_latch, alive, cl, index2, index1,
                   jrs, log>>

\* Mutant of UndoCMT03: lastwrite_len is not restored.
UndoAddrOnly ==
    /\ rsrv_write_addr' = LastCmt.start_write_addr
    /\ UNCHANGED lastwrite_len

\* What mutex_clean_dead_owner and t_commit_cleanup store to roll the last
\* reservation back, before they take its slot out of the ring.
UndoCMT03 ==
    /\ rsrv_write_addr' = LastCmt.start_write_addr
    /\ lastwrite_len' = LastCmt.prev_jrec_len

\* Mutant of RollBack: the slot is removed, the space stays reserved.
RollBackIndexOnly ==
    /\ phase2_commit_index2' = Decr(phase2_commit_index2)
    /\ UNCHANGED <<rsrv_write_addr, lastwrite_len>>

\* What mutex_clean_dead_owner does with the pool when the reservation of the
\* process that died in crit is complete but got no seqno.
RollBack ==
    /\ UndoCMT03
    /\ phase2_commit_index2' = Decr(phase2_commit_index2)

\* Mutants of Reset: lastwrite_len is forgotten; the address is computed as in
\* RollBack.
ResetAddrOnly ==
    /\ rsrv_write_addr' = EndOf(LastCmt)
    /\ UNCHANGED <<lastwrite_len, phase2_commit_index2>>

ResetToStart ==
    /\ rsrv_write_addr' = LastCmt.start_write_addr
    /\ lastwrite_len' = LastCmt.tot_jrec_len
    /\ UNCHANGED phase2_commit_index2

\* ... and when its own slot is not the last one in use: forget what it may
\* have stored of the next reservation.
Reset ==
    /\ rsrv_write_addr' = EndOf(LastCmt)
    /\ lastwrite_len' = LastCmt.tot_jrec_len
    /\ UNCHANGED phase2_commit_index2

\* The rest of mutex_clean_dead_owner; the mutex is then made consistent.
mutex_clean_dead_owner(p) ==
    /\ Ready(p, "salvage")
    /\ IF \/ phase2_commit_index1 = phase2_commit_index2
          \/ LastCmt.process_id # holder
       THEN Reset
       ELSE IF LastCmt.jnl_seqno = jnl_seqno
            THEN RollBack
            ELSE UNCHANGED <<rsrv_write_addr, lastwrite_len,
                             phase2_commit_index2>>
    /\ GoTo(p, "locked")
    /\ holder' = NoPid
    /\ UNCHANGED <<phase2_commit_index1, phase2_commit_array, write_addr,
                   jnl_seqno, crit, in_crit, phase2_commit_latch, alive, cl,
                   index2, index1, jrs, log>>

\* grab_lock notes the pid in in_crit once it has the mutex (CMT02 is done).
NoteInCrit(p) ==
    /\ Ready(p, "locked")
    /\ in_crit' = p
    /\ GoTo(p, "crit")
    /\ UNCHANGED <<jplVars, crit, phase2_commit_latch, holder, alive, cl,
                   index2, index1, jrs, log>>

\* rel_lock clears in_crit before ...
ClearInCrit(p) ==
    /\ Ready(p, "leave")
    /\ in_crit' = NoPid
    /\ GoTo(p, "unlock")
    /\ UNCHANGED <<jplVars, crit, phase2_commit_latch, holder, alive, cl,
                   index2, index1, jrs, log>>

\* ... it unlocks the mutex (CMT15).
Unlock(p) ==
    /\ Ready(p, "unlock")
    /\ crit' = NoPid
    /\ IF jrs[p].pending
       THEN GoTo(p, "phase2") /\ UNCHANGED jrs
       ELSE GoTo(p, "idle") /\ jrs' = [jrs EXCEPT ![p] = NoJrs]
    /\ UNCHANGED <<jplVars, in_crit, phase2_commit_latch, holder, alive, cl,
                   index2, index1, log>>

----------------------------------------------------------------------------
(* t_end and tp_tend: the steps of a commit that concern the pool.         *)

\* The instance is frozen: the commit is restarted before it reserves anything.
InstanceFrozen(p) ==
    /\ "frozen" \in Errors
    /\ p \in Updaters
    /\ Ready(p, "crit")
    /\ GoTo(p, "leave")
    /\ UNCHANGED <<jplVars, lockVars, alive, cl, index2, index1, jrs, log>>

\* Mutant of Full: it is never checked.
NeverFull == FALSE

Full == Incr(phase2_commit_index2) = phase2_commit_index1

\* UPDATE_JPL_RSRV_WRITE_ADDR finds the slot array full: it waits, in crit, for
\* repl_phase2_cleanup to free a slot.
ArrayFull(p) ==
    /\ p \in Updaters
    /\ Ready(p, "crit")
    /\ Full
    /\ CallCleanup(p)
    /\ UNCHANGED <<jplVars, lockVars, alive, pc, index2, index1, jrs, log>>

\* Mutant of NewSlot: write_complete keeps the value of the slot's previous use.
StaleSlot(p, len) ==
    [jnl_seqno |-> jnl_seqno, process_id |-> p,
     start_write_addr |-> rsrv_write_addr, tot_jrec_len |-> len,
     prev_jrec_len |-> lastwrite_len,
     write_complete |->
         phase2_commit_array[phase2_commit_index2].write_complete]

NewSlot(p, len) ==
    [jnl_seqno |-> jnl_seqno, process_id |-> p,
     start_write_addr |-> rsrv_write_addr, tot_jrec_len |-> len,
     prev_jrec_len |-> lastwrite_len, write_complete |-> FALSE]

\* UPDATE_JPL_RSRV_WRITE_ADDR fills a free slot that is not yet in the ring ...
FillSlot(p, len, when) ==
    /\ p \in Updaters
    /\ Ready(p, "crit")
    /\ ~Full
    /\ phase2_commit_array' =
           [phase2_commit_array EXCEPT ![phase2_commit_index2] =
               NewSlot(p, len)]
    /\ jrs' = [jrs EXCEPT ![p] =
                  [phase2_commit_index |-> phase2_commit_index2, when |-> when,
                   pending |-> TRUE]]
    /\ GoTo(p, "slot")
    /\ UNCHANGED <<phase2_commit_index1, phase2_commit_index2, rsrv_write_addr,
                   write_addr, lastwrite_len, jnl_seqno, lockVars, alive, cl,
                   index2, index1, log>>

MySlot(p) == phase2_commit_array[jrs[p].phase2_commit_index]

\* ... then stores lastwrite_len, ...
SetLastwriteLen(p) ==
    /\ Ready(p, "slot")
    /\ lastwrite_len' = MySlot(p).tot_jrec_len
    /\ GoTo(p, "lastlen")
    /\ UNCHANGED <<phase2_commit_index1, phase2_commit_index2,
                   phase2_commit_array, rsrv_write_addr, write_addr, jnl_seqno,
                   lockVars, alive, cl, index2, index1, jrs, log>>

\* ... rsrv_write_addr, ...
SetRsrvWriteAddr(p) ==
    /\ Ready(p, "lastlen")
    /\ rsrv_write_addr' = EndOf(MySlot(p))
    /\ GoTo(p, "rsrv")
    /\ UNCHANGED <<phase2_commit_index1, phase2_commit_index2,
                   phase2_commit_array, write_addr, lastwrite_len, jnl_seqno,
                   lockVars, alive, cl, index2, index1, jrs, log>>

\* ... and last the index that puts the slot in the ring (CMT03 is done).
SetIndex2(p) ==
    /\ Ready(p, "rsrv")
    /\ phase2_commit_index2' = Incr(phase2_commit_index2)
    /\ GoTo(p, "reserved")
    /\ UNCHANGED <<phase2_commit_index1, phase2_commit_array, rsrv_write_addr,
                   write_addr, lastwrite_len, jnl_seqno, lockVars, alive, cl,
                   index2, index1, jrs, log>>

\* jnl_pool_write does not overwrite what was not published: p has room when
\* its last byte is less than a pool away from write_addr.  A transaction
\* larger than the pool is not copied at all.
HasRoom(p) ==
    \/ MySlot(p).tot_jrec_len > PoolSize
    \/ write_addr >= EndOf(MySlot(p)) - PoolSize

\* The points at which p writes its records, and where it goes from there.
WritePoint(p) ==
    CASE jrs[p].when = "before_seqno" -> "reserved"
      [] jrs[p].when = "in_crit"      -> "seqno"
      [] jrs[p].when = "after_crit"   -> "phase2"

\* Mutant of AfterWrite: CMT07 is skipped if the records were written before.
AfterWriteNoSeqno(p) ==
    CASE jrs[p].when = "before_seqno" -> "leave"
      [] jrs[p].when = "in_crit"      -> "leave"
      [] jrs[p].when = "after_crit"   -> "idle"

AfterWrite(p) ==
    CASE jrs[p].when = "before_seqno" -> "written"
      [] jrs[p].when = "in_crit"      -> "leave"
      [] jrs[p].when = "after_crit"   -> "idle"

\* jnl_pool_write waits for room, calling repl_phase2_cleanup.
WaitForRoom(p) ==
    /\ p \in Updaters
    /\ Ready(p, WritePoint(p))
    /\ ~HasRoom(p)
    /\ CallCleanup(p)
    /\ UNCHANGED <<jplVars, lockVars, alive, pc, index2, index1, jrs, log>>

\* jpl_phase2_write_complete: the records are in the pool (CMT06b, CMT10a or
\* CMT17).  repl_phase2_cleanup is called for two of the slots only.
jpl_phase2_write_complete(p) ==
    /\ p \in Updaters
    /\ Ready(p, WritePoint(p))
    /\ HasRoom(p)
    /\ phase2_commit_array' =
           [phase2_commit_array EXCEPT
               ![jrs[p].phase2_commit_index] =
                   [@ EXCEPT !.write_complete = TRUE]]
    /\ IF jrs[p].phase2_commit_index \in {0, ArraySize \div 2}
       THEN CallCleanup(p)
       ELSE UNCHANGED cl
    /\ GoTo(p, AfterWrite(p))
    /\ jrs' = [jrs EXCEPT ![p] = IF pc[p] = "phase2" THEN NoJrs
                                 ELSE [@ EXCEPT !.pending = FALSE]]
    /\ UNCHANGED <<phase2_commit_index1, phase2_commit_index2, rsrv_write_addr,
                   write_addr, lastwrite_len, jnl_seqno, lockVars, alive,
                   index2, index1, log>>

\* SET_JNL_SEQNO (CMT07): from here on the transaction is rolled forward.
SET_JNL_SEQNO(p) ==
    /\ p \in Updaters
    /\ \/ Ready(p, "reserved") /\ jrs[p].when # "before_seqno"
       \/ Ready(p, "written")
    /\ jnl_seqno' = jnl_seqno + 1
    /\ log' = Append(log, [process_id |-> p,
                           start_write_addr |-> MySlot(p).start_write_addr,
                           tot_jrec_len |-> MySlot(p).tot_jrec_len])
    /\ GoTo(p, IF pc[p] = "written" \/ jrs[p].when = "after_crit"
               THEN "leave" ELSE "seqno")
    /\ UNCHANGED <<phase2_commit_index1, phase2_commit_index2,
                   phase2_commit_array, rsrv_write_addr, write_addr,
                   lastwrite_len, lockVars, alive, cl, index2, index1, jrs>>

\* A runtime error before CMT07 transfers control to t_ch, t_commit_cleanup.
CommitError(p) ==
    /\ p \in Updaters
    /\ \E l \in Errors \ {"frozen"} : Ready(p, l)
    /\ GoTo(p, "error")
    /\ UNCHANGED <<jplVars, lockVars, alive, cl, index2, index1, jrs, log>>

\* t_commit_cleanup undoes CMT03 if the last slot in use is its own ...
t_commit_cleanup(p) ==
    /\ Ready(p, "error")
    /\ IF /\ phase2_commit_index1 # phase2_commit_index2
          /\ LastCmt.process_id = p
       THEN UndoCMT03 /\ GoTo(p, "undo")
       ELSE /\ UNCHANGED <<rsrv_write_addr, lastwrite_len>>
            /\ GoTo(p, "leave")
    /\ jrs' = [jrs EXCEPT ![p] = NoJrs]
    /\ UNCHANGED <<phase2_commit_index1, phase2_commit_index2,
                   phase2_commit_array, write_addr, jnl_seqno, lockVars, alive,
                   cl, index2, index1, log>>

\* Mutant of RemoveSlot: the slot stays in the ring.
LeaveSlot(p) ==
    /\ Ready(p, "undo")
    /\ GoTo(p, "leave")
    /\ UNCHANGED <<jplVars, lockVars, alive, cl, index2, index1, jrs, log>>

\* ... and takes the slot out of the ring last.
RemoveSlot(p) ==
    /\ Ready(p, "undo")
    /\ phase2_commit_index2' = Decr(phase2_commit_index2)
    /\ GoTo(p, "leave")
    /\ UNCHANGED <<phase2_commit_index1, phase2_commit_array, rsrv_write_addr,
                   write_addr, lastwrite_len, jnl_seqno, lockVars, alive, cl,
                   index2, index1, jrs, log>>

----------------------------------------------------------------------------
(* The source server.                                                      *)

\* gtmsource_get_jnlrecs, outside crit: the oldest slot is complete.
SourcePoll(p) ==
    /\ p = Source
    /\ Ready(p, "idle")
    /\ phase2_commit_index1 # phase2_commit_index2
    /\ phase2_commit_array[phase2_commit_index1].write_complete
    /\ phase2_commit_latch = NoPid
    /\ CallCleanup(p)
    /\ UNCHANGED <<jplVars, lockVars, alive, pc, index2, index1, jrs, log>>

\* gtmsource_process: nothing was published for a while, so the server took the
\* lock (Lock, LockOwnerDead) to let repl_phase2_cleanup look for dead pids.
SourceSalvage(p) ==
    /\ p = Source
    /\ Ready(p, "crit")
    /\ CallCleanup(p)
    /\ GoTo(p, "leave")
    /\ UNCHANGED <<jplVars, lockVars, alive, index2, index1, jrs, log>>

----------------------------------------------------------------------------
(* repl_phase2_cleanup, called by any process with or without crit.        *)

\* Mutant of CleanupLatch: nobody waits for the latch.
CleanupNoLatch(p) ==
    /\ p \in alive /\ cl[p] = "want"
    /\ phase2_commit_latch' = p
    /\ index2' = [index2 EXCEPT ![p] = phase2_commit_index2]
    /\ cl' = [cl EXCEPT ![p] = "latched"]
    /\ UNCHANGED <<jplVars, crit, in_crit, holder, alive, pc, index1, jrs, log>>

\* grab_latch, which takes the latch away from a dead process; index2 is read.
CleanupLatch(p) ==
    /\ p \in alive /\ cl[p] = "want"
    /\ phase2_commit_latch \notin alive
    /\ phase2_commit_latch' = p
    /\ index2' = [index2 EXCEPT ![p] = phase2_commit_index2]
    /\ cl' = [cl EXCEPT ![p] = "latched"]
    /\ UNCHANGED <<jplVars, crit, in_crit, holder, alive, pc, index1, jrs, log>>

\* Mutants of DeadCmts: crit is not needed; the slots before the end of the array
\* are not looked at when those in use wrap around.
DeadCmtsWithoutCrit(p) ==
    LET top == IF phase2_commit_index1 < index2[p] THEN index2[p] ELSE ArraySize
        dead(i) == /\ ~phase2_commit_array[i].write_complete
                   /\ phase2_commit_array[i].process_id \notin alive
    IN  IF phase2_commit_index1 # index2[p]
        THEN {i \in phase2_commit_index1 .. top - 1 :
                 \A j \in phase2_commit_index1 .. i : dead(j)}
        ELSE {}

DeadCmtsNoWrap(p) ==
    LET top == index2[p]
        dead(i) == /\ ~phase2_commit_array[i].write_complete
                   /\ phase2_commit_array[i].process_id \notin alive
    IN  IF crit = p /\ phase2_commit_index1 # index2[p]
        THEN {i \in phase2_commit_index1 .. top - 1 :
                 \A j \in phase2_commit_index1 .. i : dead(j)}
        ELSE {}

\* Slots of dead processes at the head of the ring, not wrapping around, that
\* repl_phase2_salvage turns into JRT_NULL records when the caller holds crit.
DeadCmts(p) ==
    LET top == IF phase2_commit_index1 < index2[p] THEN index2[p] ELSE ArraySize
        dead(i) == /\ ~phase2_commit_array[i].write_complete
                   /\ phase2_commit_array[i].process_id \notin alive
    IN  IF crit = p /\ phase2_commit_index1 # index2[p]
        THEN {i \in phase2_commit_index1 .. top - 1 :
                 \A j \in phase2_commit_index1 .. i : dead(j)}
        ELSE {}

repl_phase2_salvage(D) ==
    [i \in Indices |->
        IF i \in D THEN [phase2_commit_array[i] EXCEPT !.write_complete = TRUE]
                   ELSE phase2_commit_array[i]]

\* The k slots of array a from the head on are complete, and the next one, if
\* there is one before index j, is not.
Completed(a, j, k) ==
    /\ \A m \in 0 .. k - 1 : a[At(phase2_commit_index1, m)].write_complete
    /\ \/ k = Dist(phase2_commit_index1, j)
       \/ ~a[At(phase2_commit_index1, k)].write_complete

\* rel_latch; the local variables are gone.
Return(p) ==
    /\ phase2_commit_latch' = NoPid
    /\ cl' = [cl EXCEPT ![p] = "none"]
    /\ index1' = [index1 EXCEPT ![p] = 0]
    /\ index2' = [index2 EXCEPT ![p] = 0]

\* The body of repl_phase2_cleanup up to SET_JPL_WRITE_ADDR.
CleanupPublish(p) ==
    LET a == repl_phase2_salvage(DeadCmts(p))
        d == Dist(phase2_commit_index1, index2[p])
    IN
    /\ p \in alive /\ cl[p] = "latched"
    /\ phase2_commit_array' = a
    /\ \E k \in 0 .. d :
          /\ Completed(a, index2[p], k)
          /\ IF k = 0
             THEN Return(p) /\ UNCHANGED write_addr
             ELSE /\ write_addr' =
                         IF k < d
                         THEN a[At(phase2_commit_index1, k)].start_write_addr
                         ELSE EndOf(a[At(phase2_commit_index1, k - 1)])
                  /\ index1' = [index1 EXCEPT ![p] = At(phase2_commit_index1, k)]
                  /\ cl' = [cl EXCEPT ![p] = "published"]
                  /\ UNCHANGED <<phase2_commit_latch, index2>>
    /\ UNCHANGED <<phase2_commit_index1, phase2_commit_index2, rsrv_write_addr,
                   lastwrite_len, jnl_seqno, crit, in_crit, holder, alive, pc,
                   jrs, log>>

\* The slots before the new index1 are free only now.
CleanupFree(p) ==
    /\ p \in alive /\ cl[p] = "published"
    /\ phase2_commit_index1' = index1[p]
    /\ Return(p)
    /\ UNCHANGED <<phase2_commit_index2, phase2_commit_array, rsrv_write_addr,
                   write_addr, lastwrite_len, jnl_seqno, crit, in_crit, holder,
                   alive, pc, jrs, log>>

----------------------------------------------------------------------------
(* kill -9.                                                                *)

\* Where p can be killed.  Between the write of its records and CMT07 the call
\* of repl_phase2_cleanup is not a point of its own.
Point(p) == IF cl[p] = "none" \/ pc[p] = "written" THEN pc[p] ELSE cl[p]

Kill(p) ==
    /\ p \in alive
    /\ Point(p) \in KillPoints
    /\ Cardinality(Pids \ alive) < MaxKills
    /\ alive' = alive \ {p}
    /\ UNCHANGED <<jplVars, lockVars, pc, cl, index2, index1, jrs, log>>


----------------------------------------------------------------------------

\* The workload is over: everybody is idle and nobody wants the lock.
Quiescent ==
    /\ \A p \in alive : Ready(p, "idle") /\ ~WantsLock(p)
    /\ UNCHANGED vars

\* What a process does by itself.
Step(p) ==
    \/ Lock(p) \/ LockOwnerDead(p) \/ mutex_clean_dead_owner(p)
    \/ NoteInCrit(p) \/ ClearInCrit(p) \/ Unlock(p)
    \/ ArrayFull(p)
    \/ \E len \in Lens, when \in WhenWritten : FillSlot(p, len, when)
    \/ SetLastwriteLen(p) \/ SetRsrvWriteAddr(p) \/ SetIndex2(p)
    \/ WaitForRoom(p) \/ jpl_phase2_write_complete(p)
    \/ SET_JNL_SEQNO(p)
    \/ t_commit_cleanup(p) \/ RemoveSlot(p)
    \/ SourcePoll(p) \/ SourceSalvage(p)
    \/ CleanupLatch(p) \/ CleanupPublish(p) \/ CleanupFree(p)

\* What happens to it.
Mishap(p) == InstanceFrozen(p) \/ CommitError(p) \/ Kill(p)

Next == (\E p \in Pids : Step(p) \/ Mishap(p)) \/ Quiescent

Spec == Init /\ [][Next]_vars

\* A live process keeps running; nothing obliges a process to be killed or a
\* commit to fail.  A process that waits for the latch or for the mutex gets it
\* if it is free again and again: who holds the latch in a loop sleeps between
\* two calls (SLEEP_USEC in jnl_pool_write), who waits for it spins and retries.
FairSpec ==
    /\ Spec
    /\ \A p \in Pids : /\ WF_vars(Step(p))
                        /\ SF_vars(CleanupLatch(p))
                        /\ SF_vars(Lock(p) \/ LockOwnerDead(p))

----------------------------------------------------------------------------
(* Properties.                                                             *)

\* Types of the shared fields and of the private state of the processes.
TypeOK ==
    /\ phase2_commit_index1 \in Indices
    /\ phase2_commit_index2 \in Indices
    /\ phase2_commit_array \in [Indices -> Slot]
    /\ rsrv_write_addr \in Nat
    /\ write_addr \in Nat
    /\ lastwrite_len \in Nat
    /\ jnl_seqno \in Nat
    /\ crit \in Pids \union {NoPid}
    /\ in_crit \in Pids \union {NoPid}
    /\ phase2_commit_latch \in Pids \union {NoPid}
    /\ holder \in Pids \union {NoPid}
    /\ alive \subseteq Pids
    /\ pc \in [Pids -> Points]
    /\ cl \in [Pids -> CleanupPoints]
    /\ index1 \in [Pids -> Indices]
    /\ index2 \in [Pids -> Indices]
    /\ jrs \in [Pids -> Jrs]
    /\ log \in Seq([process_id : Pids, start_write_addr : Nat,
                     tot_jrec_len : Nat])

LogEnd(s) == IF s = 0 THEN 0
             ELSE log[s].start_write_addr + log[s].tot_jrec_len

\* The transactions that were given a seqno lie one after the other in the pool,
\* without a gap or an overlap, whatever was rolled back or salvaged in between:
\* the source server finds the next one by adding up lengths
\* (gtmsource_readpool).
LogContiguous ==
    /\ jnl_seqno = Len(log) + 1
    /\ \A s \in DOMAIN log : log[s].start_write_addr = LogEnd(s - 1)

\* Nobody is between the first store of UPDATE_JPL_RSRV_WRITE_ADDR and
\* SET_JNL_SEQNO, or undoing that.
BetweenCommits ==
    \/ crit = NoPid
    \/ pc[crit] \in {"locked", "crit", "seqno", "leave", "unlock"}

\* Between commits the reserved space ends where the last transaction ends, and
\* lastwrite_len is its length (mutex_clean_dead_owner, t_commit_cleanup: "reset
\* jpl to what it was BEFORE Step CMT03 began").
NothingLeftReserved ==
    BetweenCommits =>
        /\ rsrv_write_addr = LogEnd(Len(log))
        /\ lastwrite_len = IF log = << >> THEN 0 ELSE log[Len(log)].tot_jrec_len

InUse == {At(phase2_commit_index1, k) :
             k \in 0 .. Dist(phase2_commit_index1, phase2_commit_index2) - 1}

\* The slots in use describe, in order, the latest transactions, and at most one
\* more that has no seqno yet; each one's prev_jrec_len is the length of the one
\* before it (gtmsource_srch_restart follows that chain backwards).
RingIsEndOfLog ==
    LET d == Dist(phase2_commit_index1, phase2_commit_index2)
        slot(k) == phase2_commit_array[At(phase2_commit_index1, k)]
    IN  \A k \in 0 .. d - 1 :
          /\ slot(k).jnl_seqno \in 1 .. Len(log) + 1
          /\ slot(k).jnl_seqno + (d - 1 - k) \in {Len(log), Len(log) + 1}
          /\ k > 0 => slot(k).jnl_seqno = slot(k - 1).jnl_seqno + 1
          /\ k > 0 => slot(k).prev_jrec_len = slot(k - 1).tot_jrec_len
          /\ LET s == slot(k).jnl_seqno
             IN  /\ slot(k).start_write_addr = LogEnd(s - 1)
                 /\ s <= Len(log) =>
                        /\ slot(k).process_id = log[s].process_id
                        /\ slot(k).tot_jrec_len = log[s].tot_jrec_len

\* What the source server may read ends at the end of a transaction that was
\* given a seqno, or, on an MM database, of the one about to get it (the comment
\* at the end of gtmsource_readpool).
PublishedIsCommitted ==
    \/ \E s \in 0 .. Len(log) : write_addr = LogEnd(s)
    \/ /\ crit \in Updaters
       /\ pc[crit] = "written"
       /\ write_addr = EndOf(MySlot(crit))

\* No transaction is published before its records, and those of all earlier
\* ones, were written by its process or, if that is dead, salvaged; none that left
\* the ring was left unpublished.
PublishedIsWritten ==
    /\ write_addr <= rsrv_write_addr
    /\ \A p \in alive : jrs[p].pending =>
                           write_addr <= MySlot(p).start_write_addr
    /\ \A i \in InUse :
          phase2_commit_array[i].start_write_addr < write_addr =>
              phase2_commit_array[i].write_complete
    /\ IF phase2_commit_index1 = phase2_commit_index2
       THEN write_addr = EndOf(LastCmt)
       ELSE phase2_commit_array[phase2_commit_index1].start_write_addr
                <= write_addr

\* What was published is never taken back.
WriteAddrGrows == [][write_addr' >= write_addr]_vars

\* The pool as the source server sees it.
Log == INSTANCE CommitLog WITH
           log <- [s \in DOMAIN log |->
                      [start_write_addr |-> log[s].start_write_addr,
                       tot_jrec_len     |-> log[s].tot_jrec_len]]

\* The slots, the latch, the rollback and the salvage together do what CommitLog
\* says: space is reserved behind the last transaction, by one process at a time
\* and length first, then committed or given back, and whole transactions are
\* published in order (UPDATE_JPL_RSRV_WRITE_ADDR, mutex_clean_dead_owner,
\* t_commit_cleanup, repl_phase2_cleanup).
ImplementsCommitLog == Log!Spec

\* Every transaction that was given a seqno is eventually published, also if its
\* process is killed before it wrote its records: the source server, if it is not
\* killed itself and nobody else does it, salvages it.
EventuallyPublished ==
    \A s \in 1 .. MaxSeqno :
        Len(log) >= s ~> \/ Source \notin alive
                         \/ Len(log) >= s /\ write_addr >= LogEnd(s)

============================================================================

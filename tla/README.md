# A TLA+ model of YottaDB's shared-memory protocols

YottaDB has no server process: every M process maps the database, the lock
space and the journal pool into its own address space and works on them directly.
What keeps them consistent is a set of protocols between equal processes, any of
which may be stopped, interrupted or killed with `kill -9` between two stores.
This project models those protocols, checks them with TLC on small instances and
proves some of their properties with TLAPS for instances of any size.

Three groups of components are modelled. The first is the **commit** of a TP
transaction over several regions: its optimistic reads, validation, the two phases,
restarts, errors and the recovery of the cache. The second is **replication**: a
transaction enters the journal pool, the source server reads it there or in the
journal files and sends it, the receiver server puts it into the receive pool, the
update process takes it out and applies it. The third is **M LOCKs**: the protocol
between lockers, and the hash table in which they find the nodes.

| file | what it is |
|---|---|
| `TpCommit.tla` | TP transactions: reads, validation, commit, retries, errors, cache recovery |
| `JnlPool.tla` | the journal pool: reservation, phase 2 writes, publication, recovery |
| `CommitLog.tla` | abstract: what the pool promises to the source server; `JnlPool` implements it |
| `SourceServer.tla` | the source server over `CommitLog`: reading the pool and the files, restart points |
| `SeqStream.tla` | abstract: what the source server promises to the receiver; `SourceServer` implements it |
| `RecvPool.tla` | receiver server, receive pool and update process, with `SeqStream` as the source |
| `MLock.tla` | the lock tree of a region, LOCK commands, garbage collection, exit, kill |
| `MlkHash.tla` | the lock hash table: displacement, rehash, resize, re-attachment |
| `MC*.tla`, `*.cfg` | the instances for TLC |
| `JnlPoolProofs.tla` | type correctness of `JnlPool`, proved |
| `JnlPoolSafety.tla` | the inductive invariant of `JnlPool` and its six safety properties, proved |
| `JnlPoolRefinement.tla` | `JnlPool` implements `CommitLog`, proved |
| `TpCommitProofs.tla` | types, `EarlyTnSettled`, `FinalRetryCodes` and `ValidationHolds` of `TpCommit`, proved |
| `SourceProofs.tla` | types, `ReadAddrIsSeqno` and `PoolHasData` of `SourceServer`, and that it implements `SeqStream`, proved |
| `RecvPoolProofs.tla` | types, `ReadsNextRecord` and `PipeContinuesPool` of `RecvPool`, proved |
| `MLockProofs.tla` | types and all six safety invariants of `MLock`, proved |
| `MlkHashProofs.tla` | types, `UsedmapExact` and `EveryNodeFound` of `MlkHash`, proved |
| `PROJECT.json` | components, runs, mutants, the map from definitions to source lines, findings, hazards, theorems |

## Inventory of the system

For each part: the state it keeps, what changes it, whom it meets, what is hard
about it, and what makes it correct.

**Commit** (`t_end.c`, `tp_tend.c`, with the list of steps CMT01 to CMT19 in
`secshr_db_clnup.c`). State: histories of the blocks read, the write set, the
early and current transaction number of each region, the seqno. A commit takes
crit of all its regions, validates, reserves journal space, updates, leaves crit
and finishes in a second phase. Meets everything below. Hard: optimistic
validation, several regions, kills between any two steps, errors in the middle.
Correct: serializable; all or nothing across regions; a killed commit is rolled
forward or back by the next holder of crit.

**Journal pool** (`gtmsource.h`, `gtmsource_inline.h`, `jnl_pool_write.c`,
`repl_phase2_cleanup.c`, `repl_phase2_salvage.c`). State: `jnlpool_ctl` with the
ring `phase2_commit_array`, the addresses `rsrv_write_addr` and `write_addr`, and
`jnl_seqno`. Committers reserve under the pool's lock and write outside of it, in
any order; whoever comes by publishes the complete prefix. The source server
reads up to `write_addr`. Hard: completion out of order, a full ring, a full pool,
dead processes in the middle of the ring. Correct: transactions lie one after the
other without gaps in seqno order, none is readable before it is written, none is
lost, each becomes readable eventually.

**Journal pool lock** (`grab_lock.c`, `rel_lock.c`, `mutex.c`, `grab_latch.c`).
State: a robust mutex, the pid noted in `in_crit`, the phase 2 latch. Hard: the
owner dies; the next one has to find out from shared memory how far it came.
Correct: afterwards the pool is as if the dead process had committed or had never
started.

**Journal buffer and journal file output** (`jnl_phase2_cleanup.c`,
`jnl_output_sp.c`). The same slot ring once per region, with `dskaddr` following
`freeaddr` under the latch `io_in_prog`. Correct: the file is a prefix of the
committed records.

**Source server** (`gtmsource_readpool.c`, `gtmsource_readfiles.c`,
`gtmsource_process.c`, `gtmsource_process_ops.c`, `gtmsource.c`). State:
`read_state` (pool or files), `read_addr`, `read_jnl_seqno` and
`gtmsource_save_read_jnl_seqno`. Copies from the pool without a lock and checks
afterwards that it was not overtaken; else it continues from the journal files, and
returns to the pool when it has caught up. After a new connection it searches
backwards through the pool for the seqno the receiver asks for. Hard: every field it
relies on changes under its eyes, and two positions (an address, a seqno) have to
stay in step while it reads files, where there are no addresses. Correct: nothing
torn, skipped or repeated is sent.

**Receiver server, receive pool, update process** (`gtmrecv.c`,
`gtmrecv_process.c`, `gtmrecv_poll_actions.c`, `updproc.c`). State: `recvpool_ctl`
with `write`, `write_wrap`, `wrapped`, `jnl_seqno`; `upd_proc_local` with `read`,
`read_jnl_seqno`, `bad_trans`, `onln_rlbk_flg`; `gtmrecv_local->restart`. Two
processes share a ring without any lock. Hard: the order of the stores at a wrap,
flow control over a pipe that still holds data, restarts of either side, of the
connection, and an online rollback, each of which makes both start again from an
agreed seqno. Correct: the update process reads what was written, in order, and
everything arrives.

**Buffer cache** (`wcs_recover.c`, `wcs_wtstart.c`, `wcs_flu.c`, `t_qread.c`,
`tp_hist.c`). State: cache records, twins, active queue, pins. Correct: a block
read in crit is the latest; recovery rebuilds the queues.

**M LOCKs** (`op_lock2.c`, `op_unlock.c`, `op_decrlock.c`, `mlk_*.c`). State, in
shared memory: the tree of `mlk_shrblk`s (owner, sequence, queue of waiting pids),
free lists of `mlk_shrblk`s and `mlk_prcblk`s, lock crit, the garbage collection
latch; private: one `mlk_pvtblk` per name with level, sequence, the blocking node
and its sequence. Waiters poll a sequence number without crit. Hard: several
names taken all or none, owners that die, exit without crit, a lock space that is
full, nodes reused behind a waiter's pointer. Correct: no two processes hold
related names; a process owns what it believes it holds; a wait ends.

**Lock hash table** (`mlk_shrhash_find_bucket.c`, `mlk_shrhash_resize.c`,
`mlk_rehash.c`). Hopscotch hashing in shared memory with a used map per bucket;
moved to a new segment, larger or hashed anew, while others are attached. Hard: a
search that fails half way has moved entries already; a table changes between two
entries into crit; a failed insertion sets flags that make the next attempt collect,
rehash or resize. Correct: every node is found; the retries end.

**Timers and deferred
events**, **instance freeze**, **auto-relink**, **database open and rundown**,
**journal recovery**, **local variables**, **compiler**, **triggers and
utilities**: not modelled, with the reason in `PROJECT.json`.

How they meet: a commit calls the journal pool between taking and leaving crit and
again outside; the source server calls `repl_phase2_cleanup` on its own, and is the
one that salvages when nobody commits; an instance freeze makes a commit fail in
the middle. LOCKs are independent of commits unless `lock_crit_with_db` makes them
share crit, which only changes which mutex `crit` in `MLock` is.

## TpCommit

*State.* Of a region `curr_tn`, `early_tn`, the owner of `crit`, `wc_blocked`,
`last_wcs_recover_tn`, and `pidcnt`, the processes counted in
`wcs_phase2_commit_pidcnt`. Of a block `bt` (its tn in the history), the buffer `buf`
(tn and contents), `in_tend` and `cycle` of its cache record, and `stopped`, a buffer
built by `secshr_db_clnup` that the cache learns of in `wcs_recover`. Of a process the
point `pc`, and in `try` what `sgm_info` and `gvcst_search` keep until the next try:
`start_tn` of each region, the history of blocks read with tn and cycle, the write set;
`t_tries` and `tp_reg_list` survive a restart. History variables: `before` (the
transactions that had ended when this one began), `log` (what each committed
transaction read and wrote).

*Steps.* Reading: `TpSetSgm` notes `start_tn` (in the final retry `insert_region` takes
crit first, or `TpSetSgmNeedsCrit` gives up), `Search` notes tn and cycle, `TQread` waits
for phase 2 of another commit, `ReadBuffer` looks at the contents, `TpHist` checks and
adds to the history. `tp_tend`: `CheckRegion` outside crit, with the fast path of a
transaction that needs no validation; `TpTendGrabCrit` or `TpTendHasCrit`, and
`Validate`, region by region; `Cmt04`, `StartCommit`, `BgUpdatePhase1` for each block,
`Cmt12` (CMT11 to CMT14), and outside crit `BgUpdatePhase2` for each block, in the three
stores a reader can tell apart (tn, half-built contents, contents), and `Cmt19`. Errors:
`RollBack` before CMT08; `Phase1Error`, `Phase2Error` from there on, finished by
`ClnupCmt12`, `ClnupCmt14`, `ClnupSkip` and phase 2. `RecoverStart`, `RecoverRebuild`,
`RecoverTn`, `RecoverEnd` are `wcs_recover`, called when crit is got on a region whose
cache is blocked. `tp_restart`: `HelpOut`, `Helped`, `Restart`, `TpCritAllRegions`.

*Abstracted.* A block is a leaf that is never split, and its contents are the process
that wrote it last; the levels of a search, clues, index-modification checks, bitmaps,
NOISOLATION and private copies in the transaction are left out. A program is a fixed
sequence of operations. Journalling (CMT05 to CMT07) is in `JnlPool`. Buffers are not
reused for other blocks, except by recovery; writers and twins are left out, and no wait
times out. The reads that `tp_hist` makes outside crit (`tp_hist.c:204`, 300-312, 484) are one step, `lostcr` before
`blkmod`, and so are `wc_blocked` (`tp_tend.c:334`) and `early_tn` (395) in `CheckRegion`; regions no longer used
(310-321) and the check for crit needed (364-379) do not occur with fixed programs. In `ClnupCmt12`
`early_tn` is always ahead of `curr_tn`, and a buffer is always found (`secshr_finish_CMT08_to_CMT14.c:355-371`, 509-515 are left out). MM databases, freezes, online rollback and kills inside a commit are not
modelled.

## JnlPool

*State.* The fields of `jnlpool_ctl` under their own names; `crit` (the robust
mutex), `in_crit`, `phase2_commit_latch`; for each process the point `pc` of its
commit, the point `cl` inside `repl_phase2_cleanup`, that function's `index1` and
`index2`, and the private record `jrs` of its reservation. `log` is a history
variable: the transactions that were given a seqno.

*Steps.* One store to shared memory, or a group nobody else can tell apart, is one
action, so a kill can come between any two: `Lock`/`LockOwnerDead`, `NoteInCrit`,
`ArrayFull` and `FillSlot`, `SetLastwriteLen`, `SetRsrvWriteAddr` (the macro
`UPDATE_JPL_RSRV_WRITE_ADDR`), `WaitForRoom` and the write (`jnl_pool_write`,
`jpl_phase2_write_complete`), `SET_JNL_SEQNO`, `ClearInCrit`, `Unlock`;
`CleanupLatch`, `CleanupPublish`, `CleanupFree` (`repl_phase2_cleanup`, with
salvage of dead processes if the caller has crit); `mutex_clean_dead_owner`;
`CommitError` and `t_commit_cleanup`; `SourcePoll`, `SourceSalvage`; `Kill`.

*Abstracted.* Record contents; addresses are not taken modulo the pool size (the
code keeps both forms); supplementary stream seqnos; connection set-up; a write
into the pool is one step. `SourcePoll` is that of a server in READ_POOL state, without the wait count
(`gtmsource_process.c:1900-1911`); the stores of `mutex_clean_dead_owner` (`mutex.c:1251-1263`) are one step.

## CommitLog, and what JnlPool promises

`CommitLog` has no processes: `log`, of which a prefix ending at `write_addr` is
published, and at most one reservation behind it, made in two stores
(`StoreLength`, `StoreAddr`), then committed or given up. `JnlPool!ImplementsCommitLog`
is the refinement; the mapping only hides the slots, the latch and the processes.
The two stores are kept apart on purpose: the source server reads both fields
without a lock. `CommitLog` is the pool of BG databases. On MM databases, where records are written
before the seqno is incremented, a transaction may be published one step before it
is committed; `JnlPoolOnce` includes them and checks `PublishedIsCommitted`, which
allows exactly that.

## SourceServer

*State.* That of `CommitLog`; `filed` is the last transaction in the journal files,
`salvaged` the ones that are only a NULL record there; the fields of
`gtmsource_local` under their names; the local variables of
`gtmsource_readpool` (`stop_read_at`, what was copied) and of
`gtmsource_srch_restart` (`cur_read_addr`, `cur_read_jnl_seqno`, `prev_tr_size`);
`chan` is the pipe. A transaction that is copied after updaters overwrote it is `Garbage`.

*Steps.* The updaters are the actions of `CommitLog`. `FileComplete`: the journal
files have one more transaction. `ReadPool`, `CopyFromPool`, `SendFromPool`: the
first overflow check, the copy, the second check. `ReadFiles`: the files, the
counting of lengths into `read_addr` beyond `save_read_jnl_seqno`, the return to
the pool. The files may be ahead of `write_addr` (`gtmsource_process_ops.c:986`), and a
new server starts at `rsrv_write_addr`, so `read_addr` may be an address that is not
published (`AheadOfPool`). `repl_phase2_cleanup` then publishes what is complete; it is part of
`ReadPool`, `ReadFiles` and `SrchWait`, where the code calls it. `PoolHasData` is the
assertion at `gtmsource_readpool.c:86` that this is enough. `SrchRestart`, `SrchLastwriteLen`, `SrchAtEnd`, `SrchWait`, `SrchPrevLen`, `SrchStep`,
`SrchEnd`: `gtmsource_srch_restart`, one read of a shared field per step.
`Receive`, `ConnectionReset`, and `gtmsource`, the start of a new server process.

*Refinement.* `SendsStream` is `SeqStream!Spec` with `next` mapped to the seqno read
next, or to the one asked for while it is searched.

*Races.* The constant `Races` names five interleavings the code does not exclude and
that break `ReadAddrIsSeqno`, `PoolHasData` or `TypeOK`; see "Deviations without a run".

*Abstracted.* Which journal file holds a seqno and the search in it; JNLFILEONLY
(`gtmsource_readfiles.c:2135`), with which the server never returns to the pool; the end of a batch
at the next history record (`gtmsource_readfiles.c:2023-2033`), which only makes it shorter;
filters, history records, heartbeats, supplementary streams; the text of the
handshake.

## RecvPool

*State.* The fields of `recvpool_ctl`, `upd_proc_local` and `gtmrecv_local` named
above; `data`, the cells of the ring, one per record; the program points `rpc` of
the receiver and `upc` of the update process with their local variables; `applied`,
the transactions in the database; the variables of `SeqStream` and `sending`, which
the flow control messages switch.

*Steps.* The receiver stores a message in the order of the code: wrap (`write_wrap`,
then `write`, then `wrapped`), copy, process, publish `write` and `jnl_seqno`; `Poll`
is `gtmrecv_poll_actions`, which restarts the stream after a bad transaction, a dead
update process or an online rollback. The update process reads `wrapped`, `write`,
`write_wrap` each in a step of its own, then a record, then commits and advances
`read`. Faults, each at most once per behaviour and in the combinations `FaultSets` lists:
`KillUpd`, `KillReceiver`, `ConnectionReset`, `UpdBadRecord` (`bad_trans`), `OnlineRollback`.

*Races.* `slow_rollback` and `handshake`, as above.

*Abstracted.* The length of records in bytes, filters and compression, history
records, `-updateresync`, streams, the update helpers, shutdown; the error for a second bad
transaction with the same seqno (`updproc.c:1351-1383`).

## MLock

*State.* `tree` is the set of names that have a `mlk_shrblk`; `owner` and
`pending` its fields. Sequence numbers are represented by what they are for:
`valid` is the set of owned nodes whose sequence is the one in the owner's private
block, and `blocked[p][n]` is the blocking node while its sequence is the
remembered one, and `Changed` afterwards. Fields of the private blocks: `level`,
`nodptr`, `blocked`. The variables of `op_lock2` are `req`, `idx`, `bck`, `waits`,
`yield`, `already`. Names are abstract; `Prefix[n]` is the set of names `n` extends.

*Steps.* A section between `GRAB_LOCK_CRIT_AND_SYNC` and `REL_LOCK_CRIT` is one
step; what is done outside is a step of its own. `Request` starts `op_lock2`;
`TryGot`, `TryBlocked`, `TryAlready` are the pass over the names; `mlk_bckout` backs
one name out; `Expire`, `TimedOut`, `Interrupt`, `mlk_unpend` end a wait without the
lock; `WakeUp` is the sequence comparison after a sleep; `RetryGot`,
`Undo`, `RetryBlocked`, `CheckOwn` the attempt that follows. `mlk_lock` is the search
and the grant (`mlk_shrblk_find`, `mlk_find_blocking_child_lock`,
`mlk_prcblk_add`, `mlk_prcblk_delete`, the fairness rule). `StartGC`,
`prepare_for_gc`, `fill_pid_table`, `check_pids`, `clean_pids`, `GcNotNeeded` are
garbage collection. `op_decrlock`, `op_unlock`, `Release` release locks;
`Exit`, `mlk_nocrit_unlock`, `NocritOwner`, `NocritSequence`, `ExitDone` are the
exit handler; `Kill` is `kill -9`.

*Abstracted.* Subscripts, their storage and hash table; the order of siblings
(whichever blocking child is met first is a choice); ZALLOCATE; locks inside TP;
GT.CM; LKE; the length of sleeps (a signal only shortens one). A process is not
killed inside a section under crit.

## MlkHash

*State.* `segs`, one table per shared memory segment ever created, each bucket with
`blk`, `hash` and `usedmap`; the fields of `mlk_ctldata` (`num_blkhash`, `hash_shmid`,
`hash_seed` and the three flags in `needed`); `crit`, `lock_gc_in_progress`; per
process the attached segment `mlkhash_shmid`, the one about to be attached, the
seed its private hashes were made with, its flags `raised` and `hash_fail_cnt`;
`blocks`, the nodes of the tree in order of creation, with owner and waiters, which
only keep a node from being deleted.

*Steps.* `Lock` is `mlk_lock` under crit with the whole search, insertion and
displacement of `mlk_shrhash_find_bucket`; `StartMaintenance`, `prepare_for_gc`,
`MaintainRehash`, `MaintainResize`, `StartCleaning`, `clean_pids` are the path through
garbage collection with crit given up in between; `SeeNewTable` and `Reattach` are
`grab_lock_crit_and_sync`, with crit released for the `shmat` and the failure EINVAL
when the segment was replaced again; `Retry` and `TimeOut` are the loop of
`op_lock2`; `lke_rehash` and `lke_growhash` the operator.

*Abstracted.* Subscript strings; process deaths and wakeups (`MLock` has them).
The seeds are three instead of 2^128: `HashOf` gives the hash of every name with each.

## Runs

States are distinct states found by TLC with two workers.

| run | expected | states | question |
|---|---|---|---|
| `JnlPoolRepeat` | pass | 2,094,621 | two committers, three transactions each, a ring of three slots, one kill anywhere but inside the reservation macro, failing commits: is the log contiguous, the ring its end, nothing published early, late or twice, and is it a `CommitLog`? |
| `JnlPoolOnce` | pass | 26,083 | two committers once each through a ring with room for one, BG and MM, two kills anywhere except on MM between CMT06b and CMT07: does recovery undo a partial reservation, and is every committed transaction published in the end? |
| `JnlPoolKilledInReservation` | violation | | the kill `JnlPoolRepeat` leaves out |
| `MLockMain` | pass | 1,347,606 | two processes, lists of names, timeouts, a full lock space, one queue entry, a kill and an exit with swapped stores: exclusion, the tree, all-or-nothing, queues |
| `MLockLive` | pass | 55,003 | three processes, a name and one that extends it, interrupts, a kill and an exit: is what is held owned, is no blocker stale, does every LOCK without timeout end? |
| `MLockOrphan` | violation | | a dead waiter in a full lock space |
| `Source` | pass | 1,348,064 | updaters lap the server, files ahead of the pool, a JRT_BAD transaction, broken connections, restarts, any seqno asked for: is the position right, is there something to read where the pool is read, is what is sent a `SeqStream`? |
| `RecvPool` | pass | 809,145 | four transactions through three cells with two faults: is every record read the next one, does everything arrive? |
| `RecvPoolRollbackKill` | violation | | a receiver killed before it answers an online rollback |
| `MlkHash` | pass | 334,177 | two processes, three names, hashes that collide in another way with every seed, an operator: are the used maps exact, is every node found, do retries end? |
| `TpCommit` | pass | 382,441 | transactions over two regions in opposite orders, each updating what the other reads, on two blocks of a region, and a reader beside two updates, with two errors: are the outcomes strictly serializable, does what validation found hold until the commit, is a final retry refused only for what crit cannot prevent, does every transaction end? |
| `TpCommitWindow` | violation | | a transaction that reads while `secshr_db_clnup` is between `curr_tn` and `wc_blocked` |

*Bounds.* A ring of three slots is full with two transactions in flight and wraps
around with the third; pool size 3 with lengths 1 and 2 makes writers wait;
`MaxSeqno`, `MaxCommits` and `MaxCommands` bound repetition (two commands let a
process come back to a lock whose queue remembers it; three commits let a process
meet its own old slot); `MaxKills` and `MaxExits` bound failures. Names `^a`,
`^a(1)`, `^c` give a prefix, an extension and an unrelated name, `MaxBlk` 2 of the
3 nodes they need makes garbage collection run, `MaxPrc` 1 leaves waiters without
a queue entry. In `Source`, six seqnos over a pool of three let the server be lapped,
read files, return and be lapped again; the transactions before `StartSeqno` are only
in files. In `RecvPool`, four transactions of up to two records wrap the ring of three
cells twice; the watermarks (90% and 80%) are both 2 cells, so XOFF and XON both
happen. In `MlkHash` a neighbourhood of two makes displacement fail as well as succeed,
and two larger sizes let a resize follow a resize. In `TpCommit`, two regions are the
fewest that can be committed or met in different orders; `CDB_STAGNATE` is 2 where the
code has 3, which still gives a try that releases its crits when it fails, one that keeps
them, and the final retry; two errors let a commit fail while the cache is being recovered
from the first. The same instances pass with 1 and 3. Symmetry is used in safety runs only.
Limits of single runs: the ring of two slots in `JnlPoolOnce` has one in use at a time, so the order of slots is
checked by `JnlPoolRepeat` and the theorem; `MLockMain` has one queue entry, `MLockLive` no garbage collection
and a tree of two names, so "at most once" in `QueuedIsWaiting`, `HeldIsOwned` beside garbage collection and
unrelated names in `BlockedIsCurrent` rest on `MLockProofs`.
`Source` and the violation of `RecvPool` do not check deadlock: with every bound
reached the updaters stop, and a blocked update process is what the violation shows.

*Fairness.* `JnlPool`: a live process continues (WF); the latch and the mutex are
strongly fair, since every waiter retries and the kernel's mutex or the sleeping
loop of `grab_latch` does not exclude one process forever. `MLock`: steps of a live
process are strongly fair, for the same reason (lock crit and the garbage
collection latch); `op_unlock` is weakly fair: an application does not keep its
locks forever. `RecvPool`: the source, the receiver, its polls and the update process
run (WF), and an operator starts again what was killed. `MlkHash`: strong fairness of
the steps inside `mlk_lock`, written with the explicit condition `CanStep`, because TLC
evaluates that instead of ENABLED; nothing is assumed of new requests, releases or LKE.
`TpCommit`: every process keeps running its steps (WF); weak fairness is enough for crit
too, since each program ends and so nobody can take crit from a waiter forever. Errors are
not fair. Nothing is
assumed of kills, exits, timeouts or interrupts anywhere. The liveness runs of `MLock` have
one name per LOCK command: with several the code relies on random delays to end a
livelock, which fairness does not express.

Every property of a passing run has a mutant in `PROJECT.json`: a definition of the
model with a plausible mistake, for which TLC finds the property violated.

## What the runs found

1. *Killed inside the reservation* (`mutex.c:1244`). Recovery recognises a partial
   reservation by the last slot not being the dead process's. If its previous
   transaction is still in that slot, the reservation is left in place.
2. *Last entry of a queue* (`mlk_shrclean.c:98`, `:149`). Garbage collection stops
   before the last entry, so a dead waiter keeps its node forever.
3. *Receiver killed during an online rollback* (`updproc.c:229`). The update process
   waits for `jnl_seqno` to become 0 and does not look at `restart`; the new receiver
   waits for the answer to `restart`. Both wait until an operator stops one.
4. *Reader beside a failed commit* (`secshr_finish_CMT08_to_CMT14.c:508`). `curr_tn` is
   incremented before `wc_blocked` is set. A read-only transaction that starts in between
   takes the old contents of a block phase 1 did not reach for current ones, and the fast path
   of `tp_tend` commits it without validation. On its own that is an old but consistent state;
   together with a block of another region that a later transaction updated it is not. The
   attempt to prove `Serializable` led to this; the programs of the run `TpCommit` have no
   third transaction that could make it visible.

The passing runs say the complement: without the kill or the reader in question, the
properties hold.

### Deviations without a run

These are reached by giving a constant another value; each alone makes TLC violate
the property named.

- `JnlPool`, `Errors = {"crit"}`: `NothingLeftReserved`. `t_commit_cleanup.c:256` takes the
  previous, committed transaction for the one that failed, if it is still in the last
  slot and the error comes between lock and reservation.
- `JnlPool`, an MM commit killed between CMT06b and CMT07 (kill point `written`):
  `WriteAddrGrows`. `mutex.c:1228` rolls back what was already published.
- `MLock`, `Reordered = TRUE`: `HeldIsOwned`. A comment at `mlk_nocrit_unlock.c:50` says the
  order of the two stores does not matter; if the sequence is stored last, it
  overwrites that of the next owner, whose `mlk_unlock` then does nothing. Needs a
  compiler or a processor that reorders the stores.
- `SourceServer`, `file_first` in `Races`: `PoolHasData`, and `SendsStream`. A transaction is in the
  files and `repl_phase2_cleanup` cannot publish it, because its process is still between
  `FINISH_JNL_PHASE2_IN_JNLBUFF` and `FINISH_JNL_PHASE2_IN_JNLPOOL_IF_NEEDED` (`jnl.h:1441-1443`), or
  because another process has the latch when `gtmsource_get_jnlrecs` looks. The server then
  reads the pool behind `write_addr`; `gtmsource_readfiles.c:2142` asserts that this does not happen,
  `gtmsource_process_ops.c:986-992` explains that it can.
- `SourceServer`, the other `Races`: `ReadAddrIsSeqno`, and with `future_length` `TypeOK`. They are
  `late_publish` (`gtmsource_process_ops.c:795`: the search of a server that was started again
  waits only while its address equals `write_addr`, not while it is past it, and reads a length
  that is not there yet if space is reserved meanwhile), `future_length` and `shrinking` (`gtmsource_process_ops.c:769`:
  `lastwrite_len` is stored before `rsrv_write_addr`, and read without a lock, between
  the two or after a rollback), `salvaged_length`
  (`jnl_phase2_salvage.c:128`: a NULL record in the file, a longer space in the pool).
- `RecvPool`, `Races`: `slow_rollback` (`updproc.c:1313`), where the receiver refills the pool
  before the update process has finished rolling back; `handshake`
  (`gtmrecv_poll_actions.c:545`), an action polled for before the source has answered.
- `RecvPool`, a bad transaction and an online rollback in one of the `FaultSets`:
  `PipeContinuesPool`. `bad_trans` stays set when the online rollback is answered; the receiver's
  next poll then takes `jnl_seqno` from the `read_jnl_seqno` of before the rollback
  (`gtmrecv_poll_actions.c:629`) and asks for it, while the update process starts at an earlier one.

## Proofs

`JnlPoolProofs!TypeCorrect`: `Spec => []TypeOK`, for every ring size of at least 2,
any processes, lengths, kill points and errors. `TypeOK` is inductive; the
arithmetic of the ring is in the lemma `RingType`.

`JnlPoolSafety`: the safety properties of the pool, all from one inductive invariant,
`IInv` (theorem `PoolInvariant`), for any number of processes and any ring and pool size.
The parts of `IInv`, and why each is needed:

- `LockInv`: who is at a point inside crit has the lock, and `in_crit` names it. Without
  it nothing is known of what a dead owner had done.
- `LogInv`: transactions lie one after the other, and none is empty; so an address
  determines a transaction.
- the ring: the slot `k` places after `index1` describes the transaction with seqno `First + k`, or
  the one reservation (`SlotIs`). The last slot is then what `mutex_clean_dead_owner` and
  `t_commit_cleanup` take it for. The process in crit, or the dead one it recovers from,
  is `Owner`; what `rsrv_write_addr` and `lastwrite_len` are depends on its `Stage`.
- the cleaner: who walks the ring under the latch has passed only complete slots, and
  `write_addr` and `index1` differ only between its two stores.

The theorems assume `CleanFaults`, which excludes what the runs show to be wrong, no more:
a kill inside the reservation macro (first finding), an MM commit killed between CMT06b
and CMT07 and an error between lock and reservation (the first two deviations
above), and a recovering process that is itself killed (the hazard at `mutex.c:1209`). The kill
points and errors of `JnlPoolRepeat` satisfy it; `JnlPoolOnce` goes beyond it, with processes
that commit only once.

`JnlPoolRefinement!Refinement`: `Spec => ImplementsCommitLog` under the same assumption,
for BG databases: an MM commit publishes before it takes its seqno, and the mapping of
`JnlPool` leaves that out. Each action is shown to be one of `CommitLog` or a
stutter; the invariant supplies what `Publish` needs, that `write_addr` moves from the end
of one transaction to the end of another.

`TpCommitProofs`: four of the safety properties of `TpCommit`, for any regions, blocks, programs,
`CDB_STAGNATE` and number of errors, from the invariant `IInv` (theorem `CommitInvariant`):

- `Notes`, `Place`: what a transaction has noted is about regions in `tp_reg_list`, and the region
  or operation it is at is one it has.
- `Crits`: the crits it has at each point: those below `at` while it gets them, all of them
  at CMT04, those from `at` on in phase 1, none of an updated region in phase 2.
- `EarlyTn`, `Ahead`: `early_tn` is `curr_tn + 1` exactly in the regions where the owner of crit is
  between CMT04 and CMT12, or between the stores of `wcs_recover`. `EarlyTnSettled` is the case in which
  there is no owner. `ClnupCmt12` is where it is subtle: some regions are over, some not.
- `OwnTn`, `Settling`, `BlkTn`: no buffer and no `bt` has a tn ahead of its region, and
  `bt->tn = curr_tn` only while the owner of crit is about to increment `curr_tn`. Phase 2 writes its
  tn outside crit; `OwnTn` says that tn is over by then.
- `FinalTry`: in the final retry all crits are held, so the tn and cycle noted of a block are
  still those of the region and the cache; with `BlkTn` that makes the tests of `tp_hist` and `tp_tend`
  succeed. That gives `FinalRetryCodes`.

A step of one process leaves these alone for the others, because it changes only what
its crits protect (`Mine`, lemma `Others`); a step that touches no tn leaves regions and
blocks alone (`QuietStep`). The other lemmas are one per action.

`ValidationHolds` (theorem `ValidationKept`) is inductive together with `IInv`: `Crits` says that the crit of a
validated region is held (`ValidatedHeld`), every step changes `bt` and cycles only under the crit of the process
that makes it (`Guarded`), and the process itself recovers only the cache of a region it has not validated yet
(`RecoverValid`).

`SourceProofs`: types, `ReadAddrIsSeqno`, `PoolHasData` and the refinement `SendsStream` of `SourceServer`, for
every pool size, first seqno, lengths and set of bad transactions, from the invariant `IInv`
(theorem `SourceInvariant`). The theorems assume `NoRaces`, `Races = {}`, as the run `Source` does:
with each of the five races alone TLC finds one of these properties violated. The parts of `IInv`:

- `LogInv`: the pool of `CommitLog`. Addresses grow with seqnos, so an address that is at most
  `write_addr` stands for a published transaction, and a step of an updater moves none (`Grown`).
- `RangeInv`: the seqno that `read_addr` stands for is in the pool's range, so that it has an address.
- `CopyInv`: a copy that is not the transaction wanted was overwritten by then, and stays so: `log` only
  grows, so the second check of `gtmsource_readpool` sees the overflow (`OverwrittenOverflows`).
- `PublishedInv`: what the server has sent is complete, that is published or in the files (`Done`), also where
  `write_addr` is behind. While it is behind a server that reads the pool, all transactions are in the files and
  nothing is reserved; so `repl_phase2_cleanup` publishes up to `read_addr`, and what is beyond is published data.
- `SearchInv`: the search is at a complete transaction, at or behind the one asked for;
  `prev_tr_size` is the length of the one before it, or was read from an overwritten part of the pool,
  and then the check after it refuses the step. At `rsrv_write_addr` it is at
  the end of the pool and nothing is reserved there.

The refinement maps a commit to `Grow`, a batch from the pool to `Send(n)`, a transaction from the files
to `Send(1)`, a restart point, a reset and a new server to `Restart`; a search is invisible, because the
seqno asked for is `next` from the request on.

`RecvPoolProofs`: types, `ReadsNextRecord` and `PipeContinuesPool` of `RecvPool`, for every pool size,
number and length of transactions, from the invariant `IInv` (theorem `RecvPoolInvariant`). The theorems
assume `Excluded`: `Races = {}`, and no set of faults with both a bad transaction and an online rollback,
for the reasons given above. All other combinations of the five faults are
allowed, also those that the run leaves out because of liveness (a rollback and a killed receiver).
The parts of `IInv`:

- `ReadInv`, `Layout`: the cells from `temp_read` on hold, record by record (`Chain`, `Succ`), what
  follows the position of the update process, up to the last transaction published. The pool is `folded` or
  not, which is not the same as `wrapped`: the receiver folds it when it stores `write`, before
  `wrapped`, the update process unfolds it when it stores `read`, before `wrapped`. Each
  test that the update process has passed says where `temp_read` is.
- `FillInv`: the cells between `write` and `write_loc` hold the transaction that arrives, and
  `local_wrap` is what `write_wrap` will be. `RoomFor` keeps the copy behind `read`, and below
  `write_wrap` if the pool is folded.
- `PipeInv`: the pipe carries consecutive transactions that follow the last one published.
- `FlagInv`, `FreshInv`: what `restart`, `bad_trans`, `onln_rlbk_flg`, `reported` and `jnl_seqno = 0` say about
  the two processes: who starts again is at offset 0, and does not rely on the pool until
  the other has emptied it (`Relies`).

`ChainRead` and `ChainExtend` are what reading a record and publishing a transaction do to a chain; the
other lemmas are one per action.

`MLockProofs!Exclusion`: `Spec => []LockExclusion`. `LockExclusion` is not inductive:
a grant looks at longer names only where the tree has nodes. `ExclInv` adds that a
name outside the tree has no owner (`OwnedInTree`) and the type of `owner`. Every
action either grants one lock through `mlk_lock` (lemma `LockExcl`), or only gives
locks up (`ShrinkExcl`), or changes no lock (`SameExcl`). It does not depend on
the order of the stores at exit.

`MLockProofs!Held`: `Spec => []HeldIsOwned` if the stores at exit are in program order
(`~Reordered`; the third deviation above is why it is needed). `HeldInv` follows a command: all names
before `idx` are held during a pass (`CmdOK`), the name waited for is not held, those
not yet backed out are held, garbage collection has only dead pids in its table when
it cleans, and a process in the middle of `mlk_nocrit_unlock` still owns its node. The
lemma `Combine` reduces a step of `p` to what it does for `p` and that it leaves the
locks of other live processes alone (`Undisturbed`).

The other four safety invariants of `MLock` and its types are proved for either order of the stores
at exit, each from an inductive invariant of its own that uses those before it:

- `NothingKept`: `Spec => []AllOrNothing`. `AllOrNothing` says nothing of a command that is still taking
  locks or backing out. `PassInv` does: during a pass the levels are those before the command plus one for
  each name up to `idx`, during the backing out plus one for the names between `bck` and `idx`
  (`Counted`, with `Plus` for the levels); `Shape` ties `idx`, `bck` and `new` to the point in `op_lock2`.
- `TreeIntact`: `Spec => []TreeOK`. `TreeInv` adds that the tree and the set of queue entries are
  finite, without which a cardinality says nothing. `mlk_shrblk_find` may stop half-way for lack of
  space, and what it created by then is a prefix-closed part of the path (`Shortest`); deletion takes
  nodes without owner, queue and children, so no prefix of a node that stays (`ParentOf`).
- `QueuesCurrent`: `Spec => []QueuedIsWaiting`. `QueueInv` says of a live process that the queue it is in is
  that of its target, that the target is in `nodptr`, so that `mlk_unpend` finds the entry, and that it does not own the
  target. A step of another process only draws entries out of queues (`Drawn`).
- `BlockersCurrent`: `Spec => []BlockedIsCurrent`. `BlockInv` says it of every remembered node at every
  point, also of locks a process is not waiting for at the moment, because `mlk_lock` may return to them.
- `Types`: `Spec => []TypeOK`. The one hard part is `yield`: `YieldAfter` is a recursive function
  along a path. That it has a solution and what its type is are proved by way of a shortest prefix for
  which they would fail (`LeastNumber`, from the existence of a minimum in a well-founded order), since
  an induction theorem that takes a predicate cannot be used.

`MlkHashProofs`: types, `UsedmapExact` and `EveryNodeFound` of `MlkHash`, for every number of processes,
tree of names, hash function, neighbourhood, table sizes and number of seeds, from the invariant `IInv`
(lemma `Invariant`). What a table must be is `Good(n, t, A, g)`: in its first `n` buckets each node of `A`
is in exactly one bucket, with the hash `g` gives it, and every `usedmap` is exact. The lemmas:

- `GoodMoved`, `GoodInsert`, `GoodDelete`: one displacement, one insertion and one deletion keep it; so
  does a search for a bucket (`FindGood`, `AddGood`), also when displacement gives up half-way and
  leaves the table with some nodes moved and the new one not inserted.
- `AddAllGood`, `RehashPassesGood`, `ResizeTriesGood`: the loops that fill a new table, with a failed pass
  in between. `DeleteAllGood` empties buckets for a set of nodes that is closed downward.
- The loops are recursive functions. That they have a solution, and what holds at their end, follows
  from `LoopExists` and `LoopEnds`, by way of the least value of a decreasing measure for which it would
  fail (`LeastNumber`).
- `Preorder`: the tree is visited node by node because `Before` is a strict total order on a
  prefix-closed tree (`BeforeTotal`, `BeforeTransitive`, `RankedOf`).

The parts of `IInv`: `TableOK`, the current table is `Good` for the nodes of the tree and the current seed;
`AttOK`, who is in lock crit has the current segment attached, without which it would insert into a table
that was given up; `ReqOK`, a command names a node; `OwnOK`, `CtlOK`, `FailOK`, the types of the rest.

Assumptions on the constants are `JnlPoolAssumption`, `MLockAssumption`, `MlkHashAssumption`, `TpCommitAssumption`,
`CommitLogAssumption`, `SourceAssumption` and `RecvPoolAssumption`: each beginning of a path in the
lock tree is the path of the node it ends in, table sizes have a maximum and exceed both the
neighbourhood and the number of nodes,
prefixes form a tree (a name does not extend itself, and extends finitely many), requests are non-empty lists without repetition (`mlk_pvtblk_insert`
merges equal names), programs are sequences of operations on blocks, regions are
numbered from 1 (their ftok order), a transaction fits into the receive pool, bounds are
numbers.

*Only model-checked.* Liveness. `Serializable`: it does not hold of all programs (finding 4).
TLC finds no other reason: with the states left out in which a transaction takes the fast path
of `tp_tend` in a region while another is between the two stores, the program of
`TpCommitWindow` and three more with three processes satisfy it.

## Not modelled

`PROJECT.json` lists every component with its reason. The largest gaps are the journal
buffers and journal files, non-TP transactions (`t_end`), the writers of the cache, and a
process killed inside a commit; they are next in the plan. The map covers a small part of
the repository, because most of its lines are the compiler, the runtime library of M,
utilities and per-platform code: sequential, private to a process, and without state
that a model of processes would add to. Of the modelled parts: ZALLOCATE, locks inside TP, GT.CM and
LKE CLEAR for `MLock`; the compaction of subscripts for garbage collection; journal
file search, filters, history records and supplementary streams for replication.

## Plan

In this order:

1. `TpCommit`: journal buffers and their phase 2, non-TP transactions, processes killed
   between two steps; composed with `CommitLog`.
2. For `MLock`: ZALLOCATE; the `lock_sequence` counter itself.
3. Writers and twins of the buffer cache, journal output.

------------------------------ MODULE TpCommit ------------------------------
(***************************************************************************)
(* The optimistic commit of TP transactions over several regions: what a   *)
(* transaction notes while it reads blocks outside crit (tp_set_sgm,       *)
(* gvcst_search, t_qread, tp_hist), its validation and two-phase commit    *)
(* (tp_tend), its retries (tp_restart) and what becomes of it when the     *)
(* commit meets an error: undone before Step CMT08 (t_commit_cleanup),     *)
(* finished from there on (secshr_db_clnup), with the cache rebuilt by     *)
(* the next process that gets crit (wcs_recover).                          *)
(*                                                                         *)
(* A process runs one transaction, a sequence of operations on blocks.  A  *)
(* region is a BG database; its blocks are leaf blocks that are never      *)
(* split.  What a block holds is abstracted to the process that wrote it.  *)
(***************************************************************************)
EXTENDS Integers, FiniteSets, SequencesExt

CONSTANTS
    Pids,           \* the processes, and the transaction of each
    NoPid,
    Garbage,        \* what a reader finds in a buffer that is being changed
    Regions,        \* the regions, numbered by their ftok order
    Blocks,
    Reg,            \* the region of a block
    Programs,       \* the assignments of programs to processes to be checked
    CDB_STAGNATE,   \* the try that is made holding crit on every region
    MaxErrors       \* bound: commits that meet an error

ASSUME TpCommitAssumption ==
    /\ NoPid \notin Pids /\ Garbage \notin Pids \union {NoPid}
    /\ Regions \subseteq Nat \ {0}
    /\ Reg \in [Blocks -> Regions]
    /\ Programs \subseteq [Pids -> Seq([blk : Blocks, upd : BOOLEAN])]
    /\ CDB_STAGNATE \in Nat \ {0}
    /\ MaxErrors \in Nat

VARIABLES
    prog,           \* the operations [blk, upd] of each transaction, <<>> if there is none
    \* Of a region: trans_hist, the owner of crit, and node_local.  The counter
    \* wcs_phase2_commit_pidcnt is the set of the processes counted in it.
    curr_tn, early_tn, crit, wc_blocked, last_wcs_recover_tn, pidcnt,
    \* Of a block: bt->tn, the buffer and its cache record.  stopped is the buffer
    \* secshr_db_clnup built for it that the cache does not know of yet.
    bt, buf, in_tend, cycle, stopped,
    t,              \* what a process knows of its transaction
    before,         \* transactions that had ended when this one began
    log,            \* committed transactions: what they read and wrote
    errors          \* commits that met an error

regVars == <<curr_tn, early_tn, crit, wc_blocked, last_wcs_recover_tn, pidcnt>>
blkVars == <<bt, buf, in_tend, cycle, stopped>>
histVars == <<before, log, errors>>
vars == <<prog, regVars, blkVars, t, histVars>>

NoTn == 0
NoHist == [tn |-> NoTn, cycle |-> 0]
NoBuf == [tn |-> NoTn, val |-> NoPid]
NoRegion == 0

\* What a try starts with; sgm_info of each region and the local variables of
\* gvcst_search.  start_tn is NoTn in a region the try has not touched.
FreshTry ==
    [op |-> 1, tn |-> NoTn, cycle |-> 0, val |-> NoPid,
     start_tn |-> [r \in Regions |-> NoTn],
     hist |-> [b \in Blocks |-> NoHist],
     rd |-> [b \in Blocks |-> {}], cw_set |-> {},
     do_validation |-> FALSE, todo |-> {}, build |-> {}]

\* The rest survives a restart: tp_reg_list and t_tries.
NewTransaction ==
    [pc |-> "begin", try |-> FreshTry, t_tries |-> 0, tp_reg_list |-> {},
     at |-> NoRegion, status |-> "normal", ret |-> "none", clnup |-> FALSE]

Init ==
    /\ prog \in Programs
    /\ curr_tn = [r \in Regions |-> 1] /\ early_tn = curr_tn
    /\ crit = [r \in Regions |-> NoPid]
    /\ wc_blocked = [r \in Regions |-> FALSE]
    /\ last_wcs_recover_tn = [r \in Regions |-> NoTn]
    /\ pidcnt = [r \in Regions |-> {}]
    /\ bt = [b \in Blocks |-> NoTn] /\ buf = [b \in Blocks |-> NoBuf]
    /\ in_tend = [b \in Blocks |-> NoPid]
    /\ cycle = [b \in Blocks |-> 1] /\ stopped = [b \in Blocks |-> NoBuf]
    /\ t = [p \in Pids |-> [NewTransaction EXCEPT
                              !.pc = IF prog[p] = <<>> THEN "done" ELSE "begin"]]
    /\ before = [p \in Pids |-> {}]
    /\ log = [p \in {} |-> NoBuf] /\ errors = 0

At(p, pc) == t[p].pc = pc

Go(p, pc) == t' = [t EXCEPT ![p].pc = pc]

\* The transaction of p fails in region r with a restart code.
Fail(p, r, code) ==
    t' = [t EXCEPT ![p].pc = "restart", ![p].at = r, ![p].status = code]

FinalRetry(p) == t[p].t_tries >= CDB_STAGNATE

\* NEED_TO_RELEASE_CRIT.
ReleasesCrit(p) == CDB_STAGNATE - 1 > t[p].t_tries

HasCrit(p, r) == crit[r] = p

\* rel_crit on the regions of a set.
RelCrit(p, rs) ==
    crit' = [r \in Regions |-> IF r \in rs /\ HasCrit(p, r) THEN NoPid ELSE crit[r]]

\* The regions of tp_reg_list in their order: the one after r, or NoRegion.
NextReg(p, r) ==
    LET later == {s \in t[p].tp_reg_list : s > r}
    IN IF later = {} THEN NoRegion ELSE Min(later)

FirstReg(p) == NextReg(p, NoRegion)

Updated(p, r) == \E b \in t[p].try.cw_set : Reg[b] = r

BlocksOf(r) == {b \in Blocks : Reg[b] = r}

\* Get crit on r, and rebuild its cache first if it is suspect.
GrabCrit(p, r, pc) ==
    /\ crit[r] = NoPid
    /\ crit' = [crit EXCEPT ![r] = p]
    /\ t' = [t EXCEPT ![p].pc = IF wc_blocked[r] THEN "recover" ELSE pc,
                      ![p].at = r, ![p].ret = pc]

----------------------------------------------------------------------------
(* Operations of a transaction.                                            *)

Ended == {p \in Pids : At(p, "done")}

\* op_tstart.
Begin(p) ==
    /\ At(p, "begin")
    /\ Go(p, "op")
    /\ before' = [before EXCEPT ![p] = Ended]
    /\ UNCHANGED <<prog, regVars, blkVars, log, errors>>

CurOp(p) == prog[p][t[p].try.op]
CurBlk(p) == CurOp(p).blk
CurReg(p) == Reg[CurBlk(p)]

\* Mutant of TpSetSgm: a region first used in the final retry is used without crit.
TpSetSgmNoCrit(p) ==
    LET r == CurReg(p) IN
    /\ At(p, "op")
    /\ t' = [t EXCEPT ![p].pc = "search",
                      ![p].try.start_tn[r] = IF @ = NoTn THEN curr_tn[r] ELSE @,
                      ![p].tp_reg_list = @ \union {r}]
    /\ UNCHANGED <<prog, regVars, blkVars, histVars>>

\* tp_set_sgm: the first use of a region in this try notes its curr_tn.  In the
\* final retry insert_region has to have crit on it first.
TpSetSgm(p) ==
    LET r == CurReg(p) IN
    /\ At(p, "op")
    /\ \/ t[p].try.start_tn[r] # NoTn /\ Go(p, "search") /\ UNCHANGED crit
       \/ /\ t[p].try.start_tn[r] = NoTn
          /\ FinalRetry(p) => HasCrit(p, r)
          /\ t' = [t EXCEPT ![p].pc = "search", ![p].try.start_tn[r] = curr_tn[r],
                            ![p].tp_reg_list = @ \union {r}]
          /\ UNCHANGED crit
       \/ /\ t[p].try.start_tn[r] = NoTn /\ FinalRetry(p)
          /\ GrabCrit(p, r, "op")
    /\ UNCHANGED <<prog, curr_tn, early_tn, wc_blocked, last_wcs_recover_tn, pidcnt,
                   blkVars, histVars>>

\* grab_crit_immediate fails: waiting for crit here could be a deadlock.
TpSetSgmNeedsCrit(p) ==
    LET r == CurReg(p) IN
    /\ At(p, "op") /\ FinalRetry(p)
    /\ crit[r] \notin {NoPid, p}
    /\ t' = [t EXCEPT ![p].pc = "restart", ![p].at = r, ![p].status = "needcrit",
                      ![p].tp_reg_list = @ \union {r}]
    /\ UNCHANGED <<prog, regVars, blkVars, histVars>>

\* gvcst_search notes curr_tn before it calls t_qread, which notes the cycle of the
\* cache record.  A block that is in the history with this cycle is used as it is.
Search(p) ==
    LET b == CurBlk(p) IN
    /\ At(p, "search")
    /\ t' = [t EXCEPT ![p].pc = IF t[p].try.hist[b].cycle = cycle[b]
                                THEN "read" ELSE "qread",
                      ![p].try.tn = curr_tn[Reg[b]], ![p].try.cycle = cycle[b]]
    /\ UNCHANGED <<prog, regVars, blkVars, histVars>>

\* wcs_phase2_commit_wait.
TQread(p) ==
    /\ At(p, "qread")
    /\ in_tend[CurBlk(p)] = NoPid
    /\ Go(p, "read")
    /\ UNCHANGED <<prog, regVars, blkVars, histVars>>

\* Mutant of ReadBuffer: curr_tn is noted when the block has been read.
ReadBufferNotesTn(p) ==
    LET b == CurBlk(p) IN
    /\ At(p, "read")
    /\ t' = [t EXCEPT ![p].pc = "hist", ![p].try.tn = curr_tn[Reg[b]],
                      ![p].try.val = IF cycle[b] = t[p].try.cycle
                                     THEN buf[b].val ELSE Garbage]
    /\ UNCHANGED <<prog, regVars, blkVars, histVars>>

\* The contents of the buffer, which may have been given to another block.
ReadBuffer(p) ==
    LET b == CurBlk(p) IN
    /\ At(p, "read")
    /\ t' = [t EXCEPT ![p].pc = "hist",
                      ![p].try.val = IF cycle[b] = t[p].try.cycle
                                     THEN buf[b].val ELSE Garbage]
    /\ UNCHANGED <<prog, regVars, blkVars, histVars>>

\* The entry of tp_hist for the block: its tn is that of the first read.
HistEntry(p, b) ==
    [tn |-> IF t[p].try.hist[b] = NoHist THEN t[p].try.tn ELSE t[p].try.hist[b].tn,
     cycle |-> t[p].try.cycle]

\* What tp_hist finds out about the block just read.
TpHistStatus(p) ==
    LET b == CurBlk(p)
        h == HistEntry(p, b)
    IN  CASE h.cycle # cycle[b] -> "lostcr"
          [] h.cycle = cycle[b] /\ (in_tend[b] # NoPid \/ h.tn <= buf[b].tn) -> "blkmod"
          [] h.cycle = cycle[b] /\ in_tend[b] = NoPid /\ h.tn > buf[b].tn ->
                IF t[p].try.start_tn[Reg[b]] <= last_wcs_recover_tn[Reg[b]]
                THEN "wcs_recover" ELSE "normal"

TpHist(p) ==
    LET b == CurBlk(p)
        last == t[p].try.op = Len(prog[p])
    IN
    /\ At(p, "hist")
    /\ \/ /\ TpHistStatus(p) = "normal"
          /\ t' = [t EXCEPT
                    ![p].pc = IF last THEN "check" ELSE "op",
                    ![p].at = IF last THEN Min(t[p].tp_reg_list) ELSE NoRegion,
                    ![p].try = [t[p].try EXCEPT
                        !.op = @ + 1,
                        !.hist[b] = HistEntry(p, b),
                        !.rd[b] = @ \union {t[p].try.val},
                        !.cw_set = IF CurOp(p).upd THEN @ \union {b} ELSE @]]
       \/ /\ TpHistStatus(p) # "normal"
          /\ Fail(p, Reg[b], TpHistStatus(p))
    /\ UNCHANGED <<prog, regVars, blkVars, histVars>>

----------------------------------------------------------------------------
(* tp_tend: validation.                                                    *)

\* What a committed transaction leaves in the history of the behaviour.
LogEntry(p) == [rd |-> t[p].try.rd, wr |-> t[p].try.cw_set]

\* Writes of a transaction count from Step CMT08 on.
AddToLog(p) ==
    log' = [q \in DOMAIN log \union {p} |-> IF q = p THEN LogEntry(p) ELSE log[q]]

\* A region that was only read needs no validation while no commit has started in it
\* since the transaction first used it.
NeedsValidation(p, r) ==
    Updated(p, r) \/ t[p].try.start_tn[r] # early_tn[r]

\* The loop over tp_reg_list outside crit.
CheckRegion(p) ==
    LET r == t[p].at
        dv == t[p].try.do_validation \/ NeedsValidation(p, r)
    IN
    /\ At(p, "check")
    /\ \/ /\ wc_blocked[r] /\ Fail(p, r, "helpedout")
          /\ UNCHANGED <<crit, log>>
       \/ /\ ~wc_blocked[r] /\ NextReg(p, r) # NoRegion
          /\ t' = [t EXCEPT ![p].at = NextReg(p, r), ![p].try.do_validation = dv]
          /\ UNCHANGED <<crit, log>>
       \/ /\ ~wc_blocked[r] /\ NextReg(p, r) = NoRegion /\ dv
          /\ t' = [t EXCEPT ![p].pc = "crit", ![p].at = FirstReg(p)]
          /\ UNCHANGED <<crit, log>>
       \/ /\ ~wc_blocked[r] /\ NextReg(p, r) = NoRegion /\ ~dv
          /\ RelCrit(p, t[p].tp_reg_list)
          /\ AddToLog(p)
          /\ Go(p, "done")
    /\ UNCHANGED <<prog, curr_tn, early_tn, wc_blocked, last_wcs_recover_tn, pidcnt,
                   blkVars, before, errors>>

\* Step CMT01, unless this is the final retry.
TpTendGrabCrit(p) ==
    /\ At(p, "crit")
    /\ GrabCrit(p, t[p].at, "validate")
    /\ UNCHANGED <<prog, curr_tn, early_tn, wc_blocked, last_wcs_recover_tn, pidcnt,
                   blkVars, histVars>>

\* The end of tp_tend for a transaction that fails in region r: the crits it got,
\* up to that of r, are released unless the next try is the final retry.
Failed(p, r, code) ==
    /\ Fail(p, r, code)
    /\ IF ReleasesCrit(p) THEN RelCrit(p, {s \in t[p].tp_reg_list : s <= r})
                          ELSE UNCHANGED crit

TpTendHasCrit(p) ==
    LET r == t[p].at IN
    /\ At(p, "crit") /\ HasCrit(p, r)
    /\ \/ wc_blocked[r] /\ Failed(p, r, "helpedout")
       \/ ~wc_blocked[r] /\ Go(p, "validate") /\ UNCHANGED crit
    /\ UNCHANGED <<prog, curr_tn, early_tn, wc_blocked, last_wcs_recover_tn, pidcnt,
                   blkVars, histVars>>

InHist(p, r) == {b \in BlocksOf(r) : t[p].try.hist[b] # NoHist}

\* Was the optimistic concurrency justified?
ValidationStatus(p, r) ==
    LET h == t[p].try.hist IN
    IF \E b \in InHist(p, r) : h[b].tn <= bt[b] THEN "blkmod"
    ELSE IF \E b \in InHist(p, r) : b \in t[p].try.cw_set /\ h[b].cycle # cycle[b]
    THEN "lostcr" ELSE "normal"

\* Mutant of Validate: a region that was only read is not needed any more.
ValidateReleases(p) ==
    LET r == t[p].at IN
    /\ At(p, "validate")
    /\ \/ /\ ValidationStatus(p, r) # "normal"
          /\ Failed(p, r, ValidationStatus(p, r))
       \/ /\ ValidationStatus(p, r) = "normal"
          /\ t' = [t EXCEPT ![p].pc = IF NextReg(p, r) = NoRegion THEN "cmt04" ELSE "crit",
                            ![p].at = IF NextReg(p, r) = NoRegion
                                      THEN FirstReg(p) ELSE NextReg(p, r)]
          /\ RelCrit(p, IF Updated(p, r) THEN {} ELSE {r})
    /\ UNCHANGED <<prog, curr_tn, early_tn, wc_blocked, last_wcs_recover_tn, pidcnt,
                   blkVars, histVars>>

Validate(p) ==
    LET r == t[p].at IN
    /\ At(p, "validate")
    /\ \/ /\ ValidationStatus(p, r) # "normal"
          /\ Failed(p, r, ValidationStatus(p, r))
       \/ /\ ValidationStatus(p, r) = "normal"
          /\ t' = [t EXCEPT ![p].pc = IF NextReg(p, r) = NoRegion THEN "cmt04" ELSE "crit",
                            ![p].at = IF NextReg(p, r) = NoRegion
                                      THEN FirstReg(p) ELSE NextReg(p, r)]
          /\ UNCHANGED crit
    /\ UNCHANGED <<prog, curr_tn, early_tn, wc_blocked, last_wcs_recover_tn, pidcnt,
                   blkVars, histVars>>

----------------------------------------------------------------------------
(* tp_tend: the commit, by the steps secshr_db_clnup numbers.              *)

\* Step CMT04, in all updated regions before the commit begins in any.
Cmt04(p) ==
    LET r == t[p].at IN
    /\ At(p, "cmt04") /\ r # NoRegion
    /\ early_tn' = IF Updated(p, r) THEN [early_tn EXCEPT ![r] = curr_tn[r] + 1]
                                    ELSE early_tn
    /\ t' = [t EXCEPT ![p].at = NextReg(p, r)]
    /\ UNCHANGED <<prog, curr_tn, crit, wc_blocked, last_wcs_recover_tn, pidcnt,
                   blkVars, histVars>>

\* Steps CMT05 to CMT07 are journalling.  Then the commit begins.
StartCommit(p) ==
    /\ At(p, "cmt04") /\ t[p].at = NoRegion
    /\ t' = [t EXCEPT ![p].pc = "phase1", ![p].at = FirstReg(p),
                      ![p].try.todo = t[p].try.cw_set, ![p].try.build = t[p].try.cw_set]
    /\ UNCHANGED <<prog, regVars, blkVars, histVars>>

\* Cw-set elements of region r that phase 1, or phase 2, has yet to reach.
Phase1Blocks(p, r) == t[p].try.todo \intersect BlocksOf(r)
Phase2Blocks(p, r) == t[p].try.build \intersect BlocksOf(r)

\* Steps CMT08 and CMT10: bg_update_phase1 pins the buffer of a block.
BgUpdatePhase1(p) ==
    LET r == t[p].at IN
    /\ At(p, "phase1")
    /\ \E b \in Phase1Blocks(p, r) :
        /\ in_tend[b] = NoPid
        /\ bt' = [bt EXCEPT ![b] = curr_tn[r]]
        /\ in_tend' = [in_tend EXCEPT ![b] = p]
        /\ t' = [t EXCEPT ![p].try.todo = @ \ {b}]
    /\ pidcnt' = [pidcnt EXCEPT ![r] = @ \union {p}]
    /\ AddToLog(p)
    /\ UNCHANGED <<prog, curr_tn, early_tn, crit, wc_blocked, last_wcs_recover_tn,
                   buf, cycle, stopped, before, errors>>

\* Where the commit goes on when phase 1 is over in region r.
AfterPhase1(p, r) ==
    [t EXCEPT ![p].pc = IF NextReg(p, r) = NoRegion THEN "phase2" ELSE "phase1",
              ![p].at = IF NextReg(p, r) = NoRegion THEN FirstReg(p) ELSE NextReg(p, r),
              ![p].try.start_tn[r] = curr_tn[r]]

\* Steps CMT11 to CMT14.  A region that was only read releases its crit here too.
Cmt12(p) ==
    LET r == t[p].at IN
    /\ At(p, "phase1") /\ Phase1Blocks(p, r) = {}
    /\ curr_tn' = IF Updated(p, r) THEN [curr_tn EXCEPT ![r] = @ + 1] ELSE curr_tn
    /\ RelCrit(p, {r})
    /\ t' = AfterPhase1(p, r)
    /\ AddToLog(p)
    /\ UNCHANGED <<prog, early_tn, wc_blocked, last_wcs_recover_tn, pidcnt, blkVars,
                   before, errors>>

\* Step CMT18, outside crit: gvcst_blk_build stores the tn of the block before it
\* changes the contents.
BgUpdatePhase2(p) ==
    LET r == t[p].at
        tn == t[p].try.start_tn[r]
    IN
    /\ At(p, "phase2")
    /\ \E b \in Phase2Blocks(p, r) :
        \/ /\ in_tend[b] = p /\ buf[b].tn # tn
           /\ buf' = [buf EXCEPT ![b].tn = tn]
           /\ UNCHANGED <<in_tend, stopped, t>>
        \/ /\ in_tend[b] = p /\ buf[b].tn = tn /\ buf[b].val # Garbage
           /\ buf' = [buf EXCEPT ![b].val = Garbage]
           /\ UNCHANGED <<in_tend, stopped, t>>
        \/ /\ in_tend[b] = p /\ buf[b].val = Garbage
           /\ buf' = [buf EXCEPT ![b].val = p]
           /\ in_tend' = [in_tend EXCEPT ![b] = NoPid]
           /\ t' = [t EXCEPT ![p].try.build = @ \ {b}]
           /\ UNCHANGED stopped
        \/ /\ in_tend[b] # p
           /\ stopped' = [stopped EXCEPT ![b] = [tn |-> tn, val |-> p]]
           /\ t' = [t EXCEPT ![p].try.build = @ \ {b}]
           /\ UNCHANGED <<buf, in_tend>>
    /\ UNCHANGED <<prog, regVars, bt, cycle, histVars>>

\* Mutant of Cmt19: the process stays counted in pidcnt.
Cmt19StaysCounted(p) ==
    LET r == t[p].at IN
    /\ At(p, "phase2") /\ Phase2Blocks(p, r) = {}
    /\ wc_blocked' = IF t[p].clnup /\ p \in pidcnt[r]
                     THEN [wc_blocked EXCEPT ![r] = TRUE] ELSE wc_blocked
    /\ t' = [t EXCEPT ![p].at = NextReg(p, r),
                      ![p].pc = IF NextReg(p, r) = NoRegion THEN "done" ELSE "phase2"]
    /\ UNCHANGED <<prog, curr_tn, early_tn, crit, last_wcs_recover_tn, pidcnt, blkVars,
                   histVars>>

\* Phase 2 is over in region r: DECR_WCS_PHASE2_COMMIT_PIDCNT and Step CMT19.  When
\* secshr_db_clnup does this it asks for a recovery of the cache first.
Cmt19(p) ==
    LET r == t[p].at IN
    /\ At(p, "phase2") /\ Phase2Blocks(p, r) = {}
    /\ wc_blocked' = IF t[p].clnup /\ p \in pidcnt[r]
                     THEN [wc_blocked EXCEPT ![r] = TRUE] ELSE wc_blocked
    /\ pidcnt' = [pidcnt EXCEPT ![r] = @ \ {p}]
    /\ t' = [t EXCEPT ![p].at = NextReg(p, r),
                      ![p].pc = IF NextReg(p, r) = NoRegion THEN "done" ELSE "phase2"]
    /\ UNCHANGED <<prog, curr_tn, early_tn, crit, last_wcs_recover_tn, blkVars, histVars>>

----------------------------------------------------------------------------
(* Errors in the commit: t_commit_cleanup.                                 *)

CommitError == errors < MaxErrors /\ errors' = errors + 1

\* Mutant of RollBack: early_tn stays.
RollBackKeepsEarlyTn(p) ==
    /\ At(p, "cmt04")
    /\ CommitError
    /\ RelCrit(p, t[p].tp_reg_list)
    /\ Go(p, "done")
    /\ UNCHANGED <<prog, curr_tn, early_tn, wc_blocked, last_wcs_recover_tn, pidcnt,
                   blkVars, before, log>>

\* An error before Step CMT08: Steps CMT04 and CMT01 are undone, and the transaction
\* ends in the error trap.
RollBack(p) ==
    /\ At(p, "cmt04")
    /\ CommitError
    /\ early_tn' = [r \in Regions |-> IF Updated(p, r) /\ early_tn[r] = curr_tn[r] + 1
                                      THEN curr_tn[r] ELSE early_tn[r]]
    /\ RelCrit(p, t[p].tp_reg_list)
    /\ Go(p, "done")
    /\ UNCHANGED <<prog, curr_tn, wc_blocked, last_wcs_recover_tn, pidcnt, blkVars,
                   before, log>>

\* bg_update_phase1 fails for a block, before or after its bt_put.
Phase1Error(p) ==
    LET r == t[p].at IN
    /\ At(p, "phase1")
    /\ \E b \in Phase1Blocks(p, r) :
        bt' \in {bt, [bt EXCEPT ![b] = curr_tn[r]]}
    /\ CommitError
    /\ t' = [t EXCEPT ![p].pc = "clnup", ![p].clnup = TRUE, ![p].at = FirstReg(p)]
    /\ AddToLog(p)
    /\ UNCHANGED <<prog, regVars, buf, in_tend, cycle, stopped, before>>

\* bg_update_phase2 fails for a block.
Phase2Error(p) ==
    LET r == t[p].at IN
    /\ At(p, "phase2") /\ ~t[p].clnup
    /\ \E b \in Phase2Blocks(p, r) : buf[b].val # Garbage
    /\ CommitError
    /\ t' = [t EXCEPT ![p].pc = "clnup", ![p].clnup = TRUE, ![p].at = FirstReg(p)]
    /\ UNCHANGED <<prog, regVars, blkVars, before, log>>

\* secshr_finish_CMT08_to_CMT14 in a region whose crit is still held.  The blocks
\* phase 1 did not reach get a free cache record, marked stopped.
ClnupCmt12(p) ==
    LET r == t[p].at IN
    /\ At(p, "clnup") /\ HasCrit(p, r) /\ Updated(p, r)
    /\ stopped' = [b \in Blocks |-> IF b \in Phase1Blocks(p, r)
                                    THEN [tn |-> curr_tn[r], val |-> Garbage]
                                    ELSE stopped[b]]
    /\ pidcnt' = [pidcnt EXCEPT ![r] = @ \union {p}]
    /\ curr_tn' = [curr_tn EXCEPT ![r] = @ + 1]
    /\ t' = [t EXCEPT ![p].pc = "clnup_cmt14", ![p].try.start_tn[r] = curr_tn[r],
                      ![p].try.todo = @ \ BlocksOf(r)]
    /\ UNCHANGED <<prog, early_tn, crit, wc_blocked, last_wcs_recover_tn, bt, buf,
                   in_tend, cycle, histVars>>

AfterClnup(p, r) ==
    [t EXCEPT ![p].pc = IF NextReg(p, r) = NoRegion THEN "phase2" ELSE "clnup",
              ![p].at = IF NextReg(p, r) = NoRegion THEN FirstReg(p) ELSE NextReg(p, r)]

\* The next process that gets crit has to recover the cache.
ClnupCmt14(p) ==
    LET r == t[p].at IN
    /\ At(p, "clnup_cmt14")
    /\ wc_blocked' = [wc_blocked EXCEPT ![r] = TRUE]
    /\ RelCrit(p, {r})
    /\ t' = AfterClnup(p, r)
    /\ UNCHANGED <<prog, curr_tn, early_tn, last_wcs_recover_tn, pidcnt, blkVars, histVars>>

\* A region that was only read, or whose Step CMT14 is done.
ClnupSkip(p) ==
    LET r == t[p].at IN
    /\ At(p, "clnup") /\ ~(HasCrit(p, r) /\ Updated(p, r))
    /\ RelCrit(p, {r})
    /\ t' = AfterClnup(p, r)
    /\ UNCHANGED <<prog, curr_tn, early_tn, wc_blocked, last_wcs_recover_tn, pidcnt,
                   blkVars, histVars>>

----------------------------------------------------------------------------
(* wcs_recover, in crit.                                                   *)

\* Once no process is in phase 2 of a commit in this region.
RecoverStart(p) ==
    LET r == t[p].at IN
    /\ At(p, "recover")
    /\ pidcnt[r] = {}
    /\ wc_blocked' = [wc_blocked EXCEPT ![r] = TRUE]
    /\ early_tn' = [early_tn EXCEPT ![r] = curr_tn[r] + 1]
    /\ last_wcs_recover_tn' = [last_wcs_recover_tn EXCEPT ![r] = curr_tn[r]]
    /\ Go(p, "rebuild")
    /\ UNCHANGED <<prog, curr_tn, crit, pidcnt, blkVars, histVars>>

\* bt_refresh and the loop over the cache records: a stopped one takes the place of
\* the buffer of its block, a clean one is given up, the others stay.  A block that
\* has no bt is as old as oldest_hist_tn, which is curr_tn - 1.
RecoverRebuild(p) ==
    LET r == t[p].at
        new == {b \in BlocksOf(r) : stopped[b] # NoBuf}
    IN
    /\ At(p, "rebuild")
    /\ \E clean \in SUBSET (BlocksOf(r) \ new) :
        /\ bt' = [b \in Blocks |-> IF b \in clean THEN curr_tn[r] - 1
                                   ELSE IF Reg[b] = r THEN curr_tn[r] ELSE bt[b]]
        /\ cycle' = [b \in Blocks |-> IF b \in clean \union new
                                      THEN cycle[b] + 1 ELSE cycle[b]]
    /\ buf' = [b \in Blocks |-> IF b \in new THEN stopped[b] ELSE buf[b]]
    /\ stopped' = [b \in Blocks |-> IF b \in new THEN NoBuf ELSE stopped[b]]
    /\ in_tend' = [b \in Blocks |-> IF b \in new THEN NoPid ELSE in_tend[b]]
    /\ Go(p, "recover_tn")
    /\ UNCHANGED <<prog, regVars, histVars>>

RecoverTn(p) ==
    LET r == t[p].at IN
    /\ At(p, "recover_tn")
    /\ curr_tn' = [curr_tn EXCEPT ![r] = @ + 1]
    /\ Go(p, "resume")
    /\ UNCHANGED <<prog, early_tn, crit, wc_blocked, last_wcs_recover_tn, pidcnt,
                   blkVars, histVars>>

\* SIGNAL_WRITERS_TO_RESUME.
RecoverEnd(p) ==
    /\ At(p, "resume")
    /\ wc_blocked' = [wc_blocked EXCEPT ![t[p].at] = FALSE]
    /\ Go(p, t[p].ret)
    /\ UNCHANGED <<prog, curr_tn, early_tn, crit, last_wcs_recover_tn, pidcnt, blkVars,
                   histVars>>

----------------------------------------------------------------------------
(* tp_restart.                                                             *)

\* helpedout: recover the cache of the region, with crit got for this or held.
HelpOut(p) ==
    LET r == t[p].at IN
    /\ At(p, "restart") /\ t[p].status = "helpedout"
    /\ \/ GrabCrit(p, r, "helped")
       \/ /\ HasCrit(p, r)
          /\ t' = [t EXCEPT ![p].pc = "recover", ![p].ret = "helped"]
          /\ UNCHANGED crit
    /\ UNCHANGED <<prog, curr_tn, early_tn, wc_blocked, last_wcs_recover_tn, pidcnt,
                   blkVars, histVars>>

\* Mutant of NextTry: nothing stops the counter at the final retry.
NextTryUncapped(p, tries) ==
    t' = [t EXCEPT ![p].pc = IF tries = CDB_STAGNATE THEN "crit_all" ELSE "op",
                   ![p].at = NoRegion, ![p].ret = "none", ![p].status = "normal",
                   ![p].try = FreshTry, ![p].t_tries = @ + 1]

\* The next try begins: with crit on all regions if it is the final retry.
NextTry(p, tries) ==
    t' = [t EXCEPT ![p].pc = IF tries = CDB_STAGNATE THEN "crit_all" ELSE "op",
                   ![p].at = NoRegion, ![p].ret = "none", ![p].status = "normal",
                   ![p].try = FreshTry, ![p].t_tries = tries]

\* Crit was held before only in the final retry, which gives up all crits.
Helped(p) ==
    /\ At(p, "helped")
    /\ RelCrit(p, IF FinalRetry(p) THEN t[p].tp_reg_list ELSE {t[p].at})
    /\ NextTry(p, IF FinalRetry(p) THEN CDB_STAGNATE ELSE t[p].t_tries + 1)
    /\ UNCHANGED <<prog, curr_tn, early_tn, wc_blocked, last_wcs_recover_tn, pidcnt,
                   blkVars, histVars>>

\* The other restart codes.  needcrit gives up all crits, to get them in order.
Restart(p) ==
    /\ At(p, "restart") /\ t[p].status # "helpedout"
    /\ IF t[p].status = "needcrit" THEN RelCrit(p, t[p].tp_reg_list) ELSE UNCHANGED crit
    /\ NextTry(p, IF FinalRetry(p) THEN CDB_STAGNATE ELSE t[p].t_tries + 1)
    /\ UNCHANGED <<prog, curr_tn, early_tn, wc_blocked, last_wcs_recover_tn, pidcnt,
                   blkVars, histVars>>

\* The regions tp_crit_all_regions has yet to get crit on.
NotHeld(p) == {r \in t[p].tp_reg_list : ~HasCrit(p, r)}

TpCritAllRegions(p) ==
    /\ At(p, "crit_all")
    /\ \/ NotHeld(p) # {} /\ GrabCrit(p, Min(NotHeld(p)), "crit_all")
       \/ NotHeld(p) = {} /\ Go(p, "op") /\ UNCHANGED crit
    /\ UNCHANGED <<prog, curr_tn, early_tn, wc_blocked, last_wcs_recover_tn, pidcnt,
                   blkVars, histVars>>

----------------------------------------------------------------------------
Step(p) ==
    \/ Begin(p) \/ TpSetSgm(p) \/ TpSetSgmNeedsCrit(p) \/ Search(p) \/ TQread(p)
    \/ ReadBuffer(p) \/ TpHist(p)
    \/ CheckRegion(p) \/ TpTendGrabCrit(p) \/ TpTendHasCrit(p) \/ Validate(p)
    \/ Cmt04(p) \/ StartCommit(p) \/ BgUpdatePhase1(p) \/ Cmt12(p)
    \/ BgUpdatePhase2(p) \/ Cmt19(p)
    \/ ClnupCmt12(p) \/ ClnupCmt14(p) \/ ClnupSkip(p)
    \/ RecoverStart(p) \/ RecoverRebuild(p) \/ RecoverTn(p) \/ RecoverEnd(p)
    \/ HelpOut(p) \/ Helped(p) \/ Restart(p) \/ TpCritAllRegions(p)

Error(p) == RollBack(p) \/ Phase1Error(p) \/ Phase2Error(p)

\* Every transaction has ended.
Finished == Ended = Pids /\ UNCHANGED vars

Next == (\E p \in Pids : Step(p) \/ Error(p)) \/ Finished

Spec == Init /\ [][Next]_vars

FairSpec == Spec /\ \A p \in Pids : WF_vars(Step(p))

----------------------------------------------------------------------------
(* Properties.                                                             *)

Vals == Pids \union {NoPid, Garbage}
Bufs == [tn : Nat, val : Vals]

Tries ==
    [op : Nat, tn : Nat, cycle : Nat, val : Vals, start_tn : [Regions -> Nat],
     hist : [Blocks -> [tn : Nat, cycle : Nat]], rd : [Blocks -> SUBSET Vals],
     cw_set : SUBSET Blocks, do_validation : BOOLEAN, todo : SUBSET Blocks,
     build : SUBSET Blocks]

\* Every variable has its type.
TypeOK ==
    /\ curr_tn \in [Regions -> Nat] /\ early_tn \in [Regions -> Nat]
    /\ crit \in [Regions -> Pids \union {NoPid}] /\ wc_blocked \in [Regions -> BOOLEAN]
    /\ last_wcs_recover_tn \in [Regions -> Nat] /\ pidcnt \in [Regions -> SUBSET Pids]
    /\ bt \in [Blocks -> Nat] /\ buf \in [Blocks -> Bufs]
    /\ in_tend \in [Blocks -> Pids \union {NoPid}]
    /\ cycle \in [Blocks -> Nat] /\ stopped \in [Blocks -> Bufs]
    /\ before \in [Pids -> SUBSET Pids]
    /\ DOMAIN log \subseteq Pids
    /\ \A p \in DOMAIN log :
        log[p] \in [rd : [Blocks -> SUBSET Vals], wr : SUBSET Blocks]
    /\ \A p \in Pids :
        /\ t[p].try \in Tries /\ t[p].t_tries \in 0 .. CDB_STAGNATE
        /\ t[p].tp_reg_list \subseteq Regions
        /\ t[p].at \in Regions \union {NoRegion} /\ t[p].clnup \in BOOLEAN

\* What block b holds after the first n transactions of a serial execution.
HoldsAfter(s, n, b) ==
    LET writers == {i \in 1 .. n : b \in log[s[i]].wr}
    IN IF writers = {} THEN NoPid ELSE s[Max(writers)]

\* What the database holds, with the buffers a recovery of the cache will take over.
Contents(b) == IF stopped[b] # NoBuf THEN stopped[b].val ELSE buf[b].val

\* A serial execution of the committed transactions that respects real time, in which
\* each of them reads what it read, and which leaves what the database holds.
Explains(s) ==
    /\ \A i, j \in 1 .. Len(s) : i < j => s[j] \notin before[s[i]]
    /\ \A i \in 1 .. Len(s), b \in Blocks :
        log[s[i]].rd[b] \subseteq {HoldsAfter(s, i - 1, b)}
    /\ Ended = Pids => \A b \in Blocks : Contents(b) = HoldsAfter(s, Len(s), b)

\* Transactions are serializable, in an order that agrees with real time, and none of
\* them is lost: what the notes taken outside crit (the tn of gvcst_search, start_tn,
\* the cycle), early_tn, the histories in the bt and the recovery of the cache are for.
Serializable == \E s \in SetToSeqs(DOMAIN log) : Explains(s)

RecoveryPoints == {"recover", "rebuild", "recover_tn", "resume"}

\* The regions p has validated, and has neither given up nor committed in since.
Validated(p) ==
    {r \in t[p].tp_reg_list :
        \/ /\ \/ t[p].pc \in {"crit", "validate"}
              \/ t[p].pc \in RecoveryPoints /\ t[p].ret = "validate"
           /\ r < t[p].at
        \/ At(p, "cmt04")
        \/ At(p, "phase1") /\ r >= t[p].at}

\* What p found in the validation of a region is still so when its commit reaches a
\* block, whatever it had to wait for in other regions in between: nobody changed a block
\* it read, and those it will change are in the buffers it has noted.
ValidationHolds ==
    \A p \in Pids : \A b \in Blocks \ (IF At(p, "phase1")
                                        THEN t[p].try.cw_set \ t[p].try.todo ELSE {}) :
        Reg[b] \in Validated(p) /\ t[p].try.hist[b] # NoHist =>
            /\ bt[b] < t[p].try.hist[b].tn
            /\ b \in t[p].try.cw_set => t[p].try.hist[b].cycle = cycle[b]

\* A restart in the final retry is one that crit on all regions cannot prevent: the
\* assertions CDB_STAGNATE > t_tries beside the other restart codes in tp_hist and
\* tp_tend.
FinalRetryCodes ==
    \A p \in Pids : At(p, "restart") /\ FinalRetry(p) =>
        t[p].status \in {"helpedout", "needcrit", "wcs_recover"}

\* A process that gets crit finds curr_tn equal to early_tn: whoever had crit before has
\* finished, or undone, what it began (ASSERT_CURR_TN_EQUALS_EARLY_TN).
EarlyTnSettled == \A r \in Regions : crit[r] = NoPid => early_tn[r] = curr_tn[r]

\* Every transaction ends, however often it restarts: processes that wait for crit, for
\* a buffer in phase 2 or for pidcnt do not wait for each other.
EventuallyEnds == <>(Ended = Pids)

=============================================================================

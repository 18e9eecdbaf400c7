--------------------------- MODULE TpCommitProofs ---------------------------
(***************************************************************************)
(* Proofs about TpCommit, for every set of processes, regions and blocks,  *)
(* every assignment of programs, CDB_STAGNATE and number of errors.        *)
(***************************************************************************)
EXTENDS TpCommit, SequenceTheorems, WellFoundedInduction, TLAPS

----------------------------------------------------------------------------
(* The inductive invariant.  Types first, with what a process may be at.   *)

OpPoints == {"search", "qread", "read", "hist"}
CommitPoints == {"phase1", "phase2", "clnup", "clnup_cmt14"}
Points ==
    {"begin", "op", "check", "crit", "validate", "cmt04", "restart", "helped",
     "crit_all", "done"} \union OpPoints \union CommitPoints \union RecoveryPoints
Codes == {"normal", "lostcr", "blkmod", "wcs_recover", "helpedout", "needcrit"}

Txns ==
    [pc : Points, try : Tries, t_tries : 0 .. CDB_STAGNATE,
     tp_reg_list : SUBSET Regions, at : Regions \union {NoRegion}, status : Codes,
     ret : {"none", "op", "validate", "helped", "crit_all"}, clnup : BOOLEAN]

RegTypes ==
    /\ curr_tn \in [Regions -> Nat \ {0}] /\ early_tn \in [Regions -> Nat]
    /\ crit \in [Regions -> Pids \union {NoPid}] /\ wc_blocked \in [Regions -> BOOLEAN]
    /\ last_wcs_recover_tn \in [Regions -> Nat] /\ pidcnt \in [Regions -> SUBSET Pids]

BlkTypes ==
    /\ bt \in [Blocks -> Nat] /\ buf \in [Blocks -> Bufs]
    /\ in_tend \in [Blocks -> Pids \union {NoPid}]
    /\ cycle \in [Blocks -> Nat \ {0}] /\ stopped \in [Blocks -> Bufs]

HistTypes ==
    /\ before \in [Pids -> SUBSET Pids]
    /\ DOMAIN log \subseteq Pids
    /\ \A p \in DOMAIN log :
        log[p] \in [rd : [Blocks -> SUBSET Vals], wr : SUBSET Blocks]

ProgType == prog \in [Pids -> Seq([blk : Blocks, upd : BOOLEAN])]

TxnType == t \in [Pids -> Txns]

Types == RegTypes /\ BlkTypes /\ HistTypes /\ ProgType /\ TxnType

\* Process p is recovering the cache, and goes on at pc afterwards.
RecoversFor(p, pc) == t[p].pc \in RecoveryPoints /\ t[p].ret = pc

\* The regions a transaction has used are in tp_reg_list, and its notes are about them.
Notes(p) ==
    /\ \A r \in Regions : t[p].try.start_tn[r] # NoTn => r \in t[p].tp_reg_list
    /\ \A b \in Blocks : t[p].try.hist[b] # NoHist => t[p].try.start_tn[Reg[b]] # NoTn
    /\ \A b \in t[p].try.cw_set : t[p].try.start_tn[Reg[b]] # NoTn
    /\ t[p].try.todo \subseteq t[p].try.cw_set /\ t[p].try.build \subseteq t[p].try.cw_set

\* Where a process is, its operation is one of its program and t[p].at a region of
\* tp_reg_list, if the code uses them there.
Place(p) ==
    /\ ~At(p, "done") => 1 <= Len(prog[p])
    /\ At(p, "begin") => t[p].t_tries = 0 /\ t[p].try = FreshTry
    /\ At(p, "crit_all") \/ RecoversFor(p, "crit_all") => t[p].try = FreshTry
    /\ t[p].pc \in {"op"} \union OpPoints \/ RecoversFor(p, "op") =>
        t[p].try.op \in 1 .. Len(prog[p])
    /\ t[p].pc \in OpPoints => t[p].try.start_tn[CurReg(p)] # NoTn
    /\ t[p].pc \in {"check", "crit", "validate", "restart"} \union CommitPoints =>
        t[p].at \in t[p].tp_reg_list
    /\ RecoversFor(p, "validate") => t[p].at \in t[p].tp_reg_list
    /\ At(p, "cmt04") => /\ t[p].at \in t[p].tp_reg_list \union {NoRegion}
                         /\ t[p].tp_reg_list # {}
    /\ t[p].pc \in RecoveryPoints => t[p].ret # "none"
    /\ t[p].pc \in RecoveryPoints \union {"helped"} =>
        t[p].at \in Regions /\ HasCrit(p, t[p].at)

\* The crits process p has at each point of tp_tend and of its cleanup.
Crits(p) ==
    /\ At(p, "crit") => \A r \in t[p].tp_reg_list : r < t[p].at => HasCrit(p, r)
    /\ At(p, "validate") \/ RecoversFor(p, "validate") =>
        \A r \in t[p].tp_reg_list : r <= t[p].at => HasCrit(p, r)
    /\ At(p, "cmt04") => \A r \in t[p].tp_reg_list : HasCrit(p, r)
    /\ At(p, "phase1") => \A r \in t[p].tp_reg_list : r >= t[p].at => HasCrit(p, r)
    /\ t[p].pc \in {"phase1", "clnup", "clnup_cmt14"} => \A r \in Regions :
        Updated(p, r) /\ HasCrit(p, r) => r >= t[p].at
    /\ At(p, "clnup_cmt14") => Updated(p, t[p].at) /\ HasCrit(p, t[p].at)
    /\ At(p, "phase2") => \A r \in Regions : Updated(p, r) => ~HasCrit(p, r)

\* Process p, which has crit on r, has set early_tn of r and not yet curr_tn.
Ahead(p, r) ==
    \/ At(p, "cmt04") /\ Updated(p, r) /\ (t[p].at = NoRegion \/ r < t[p].at)
    \/ t[p].pc \in {"phase1", "clnup"} /\ Updated(p, r)
    \/ At(p, "clnup_cmt14") /\ Updated(p, r) /\ r # t[p].at
    \/ t[p].pc \in {"rebuild", "recover_tn"} /\ r = t[p].at

\* curr_tn and early_tn differ only while the process that has crit makes them differ.
EarlyTn(r) ==
    early_tn[r] = IF crit[r] \in Pids /\ Ahead(crit[r], r)
                  THEN curr_tn[r] + 1 ELSE curr_tn[r]

\* A commit that has ended in region r had a tn that is over.
OwnTn(p) ==
    t[p].pc \in CommitPoints => \A r \in Regions :
        Updated(p, r) /\ (HasCrit(p, r) => At(p, "clnup_cmt14") /\ r = t[p].at) =>
            t[p].try.start_tn[r] < curr_tn[r]

\* The process that has crit on r has given a block of r the tn it will leave behind.
Settling(p, r) ==
    \/ t[p].pc \in {"phase1", "clnup"} /\ Updated(p, r)
    \/ At(p, "clnup_cmt14") /\ Updated(p, r) /\ r # t[p].at
    \/ At(p, "recover_tn") /\ r = t[p].at

\* No tn in the cache is ahead of the region's.
BlkTn(b) ==
    /\ buf[b].tn < curr_tn[Reg[b]] /\ stopped[b].tn < curr_tn[Reg[b]]
    /\ bt[b] <= curr_tn[Reg[b]]
    /\ bt[b] = curr_tn[Reg[b]] => crit[Reg[b]] \in Pids /\ Settling(crit[Reg[b]], Reg[b])

\* A try up to its commit.
InTry(p) ==
    t[p].pc \in {"op", "check", "crit", "validate"} \union OpPoints \/ RecoversFor(p, "op")

\* In the final retry all crits are held, so what was noted of a block stays true.
FinalTry(p) ==
    /\ InTry(p) =>
        /\ \A r \in t[p].tp_reg_list : HasCrit(p, r)
        /\ \A b \in Blocks : t[p].try.hist[b] # NoHist =>
            /\ t[p].try.hist[b].tn = curr_tn[Reg[b]]
            /\ t[p].try.hist[b].cycle = cycle[b] /\ in_tend[b] = NoPid
    /\ t[p].pc \in {"qread", "read", "hist"} =>
        t[p].try.tn = curr_tn[CurReg(p)] /\ t[p].try.cycle = cycle[CurBlk(p)]
    /\ t[p].pc \in {"read", "hist"} => in_tend[CurBlk(p)] = NoPid
    /\ RecoversFor(p, "op") => t[p].try.start_tn[t[p].at] = NoTn
    /\ ~RecoversFor(p, "validate")
    /\ At(p, "restart") => t[p].status \in {"helpedout", "needcrit", "wcs_recover"}

Proc(p) ==
    Notes(p) /\ Place(p) /\ Crits(p) /\ OwnTn(p) /\ (FinalRetry(p) => FinalTry(p))

IInv ==
    /\ Types
    /\ \A p \in Pids : Proc(p)
    /\ \A r \in Regions : EarlyTn(r)
    /\ \A b \in Blocks : BlkTn(b)

----------------------------------------------------------------------------
(* The order of the regions.                                               *)

\* A set of natural numbers that is not empty has a least element, and that is Min.
LEMMA MinIsLeast ==
    ASSUME NEW S, S \subseteq Nat, S # {}
    PROVE  Min(S) \in S /\ \A y \in S : Min(S) <= y
<1> DEFINE less == {ss \in Nat \X Nat : ss[1] < ss[2]}
<1>1. IsWellFoundedOn(less, Nat)
  BY NatLessThanWellFounded DEF OpToRel
<1> HIDE DEF less
<1>2. PICK x \in S : \A y \in S : ~(<<y, x>> \in less)
  BY <1>1, WFMin
<1>3. \A y \in S : <<y, x>> \in Nat \X Nat /\ <<y, x>>[1] = y /\ <<y, x>>[2] = x
  OBVIOUS
<1>4. \A y \in S : ~(y < x)
  BY <1>2, <1>3 DEF less
<1>5. \A y \in S : x <= y
  BY <1>4
<1> QED BY <1>5 DEF Min

\* Regions are numbered from 1.
LEMMA RegionNumbers == \A r \in Regions : r \in Nat /\ r > 0 /\ ~(r <= 0) /\ r # NoRegion
<1> SUFFICES ASSUME NEW r \in Regions PROVE r \in Nat /\ r > 0 /\ ~(r <= 0) /\ r # NoRegion
  OBVIOUS
<1>1. r \in Nat /\ r # 0
  BY TpCommitAssumption
<1> QED BY <1>1 DEF NoRegion

\* The region after r in tp_reg_list, of all those after it the first.
LEMMA NextRegIs ==
    ASSUME Types, NEW p \in Pids, NEW r \in Regions \union {NoRegion}
    PROVE  /\ NextReg(p, r) \in t[p].tp_reg_list \union {NoRegion}
           /\ NextReg(p, r) = NoRegion => \A s \in t[p].tp_reg_list : s <= r
           /\ NextReg(p, r) # NoRegion => /\ NextReg(p, r) > r
                                          /\ \A s \in t[p].tp_reg_list :
                                                s > r => s >= NextReg(p, r)
<1> DEFINE later == {s \in t[p].tp_reg_list : s > r}
<1>1. t[p].tp_reg_list \subseteq Regions /\ Regions \subseteq Nat \ {0} /\ r \in Nat
  BY TpCommitAssumption DEF Types, TxnType, Txns, NoRegion
<1>2. CASE later = {}
  <2>1. NextReg(p, r) = NoRegion
    BY <1>2 DEF NextReg
  <2>2. \A s \in t[p].tp_reg_list : s <= r
    BY <1>1, <1>2
  <2> QED BY <2>1, <2>2
<1>3. CASE later # {}
  <2>1. Min(later) \in later /\ \A y \in later : Min(later) <= y
    BY <1>1, <1>3, MinIsLeast
  <2>2. NextReg(p, r) = Min(later)
    BY <1>3 DEF NextReg
  <2> QED BY <1>1, <2>1, <2>2 DEF NoRegion
<1> QED BY <1>2, <1>3

\* The first region of tp_reg_list.
LEMMA FirstRegIs ==
    ASSUME Types, NEW p \in Pids, t[p].tp_reg_list # {}
    PROVE  FirstReg(p) \in t[p].tp_reg_list /\ \A s \in t[p].tp_reg_list : FirstReg(p) <= s
<1>1. t[p].tp_reg_list \subseteq Regions /\ Regions \subseteq Nat \ {0}
  BY TpCommitAssumption DEF Types, TxnType, Txns
<1>2. /\ FirstReg(p) \in t[p].tp_reg_list \union {NoRegion}
      /\ FirstReg(p) = NoRegion => \A s \in t[p].tp_reg_list : s <= NoRegion
      /\ FirstReg(p) # NoRegion =>
            \A s \in t[p].tp_reg_list : s > NoRegion => s >= FirstReg(p)
  BY NextRegIs DEF FirstReg
<1> DEFINE list == t[p].tp_reg_list
           first == FirstReg(p)
<1>3. \A s \in list : s \in Nat /\ s > NoRegion /\ ~(s <= NoRegion)
  BY <1>1, RegionNumbers DEF NoRegion
<1> HIDE DEF list, first
<1>4. first # NoRegion
  BY <1>2, <1>3 DEF list, first
<1> QED BY <1>2, <1>3, <1>4 DEF list, first

\* The operation a transaction is at.
LEMMA CurBlkIs ==
    ASSUME Types, NEW p \in Pids, t[p].try.op \in 1 .. Len(prog[p])
    PROVE  CurBlk(p) \in Blocks /\ CurReg(p) \in Regions /\ CurReg(p) = Reg[CurBlk(p)]
<1>1. prog[p] \in Seq([blk : Blocks, upd : BOOLEAN])
  BY DEF Types, ProgType
<1>2. \A n \in 1 .. Len(prog[p]) : prog[p][n] \in [blk : Blocks, upd : BOOLEAN]
  BY <1>1, ElementOfSeq
<1>3. CurBlk(p) \in Blocks
  BY <1>2 DEF CurBlk, CurOp
<1> QED BY <1>3, TpCommitAssumption DEF CurReg

----------------------------------------------------------------------------
(* What a step of one process leaves alone for the others.                 *)

\* Process p changes its own transaction, and in a region only what its crit protects.
Mine(p) ==
    /\ prog' = prog
    /\ \A q \in Pids : q # p => t'[q] = t[q]
    /\ \A r \in Regions :
        /\ crit'[r] = crit[r] \/ (crit[r] \in {p, NoPid} /\ crit'[r] \in {p, NoPid})
        /\ curr_tn'[r] = curr_tn[r] \/ (crit[r] = p /\ curr_tn'[r] > curr_tn[r])
        /\ early_tn'[r] = early_tn[r] \/ crit[r] = p
    /\ \A b \in Blocks :
        /\ cycle'[b] = cycle[b] \/ crit[Reg[b]] = p
        /\ in_tend'[b] \in {in_tend[b], NoPid} \/ crit[Reg[b]] = p

\* What the invariant says of a process is not affected by a step of another one.
LEMMA Others ==
    ASSUME Types, Types', NEW p \in Pids, NEW q \in Pids, q # p, Mine(p), Proc(q)
    PROVE  Proc(q)'
<1> USE DEF Mine
<1>1. t'[q] = t[q] /\ prog' = prog
  OBVIOUS
<1>2. \A r \in Regions : HasCrit(q, r)' <=> HasCrit(q, r)
  BY TpCommitAssumption DEF HasCrit
<1>3. \A r \in Regions : HasCrit(q, r) => curr_tn'[r] = curr_tn[r]
  BY DEF HasCrit
<1>4. \A b \in Blocks : HasCrit(q, Reg[b]) =>
        cycle'[b] = cycle[b] /\ in_tend'[b] \in {in_tend[b], NoPid}
  BY TpCommitAssumption DEF HasCrit
<1>5. \A r \in Regions : curr_tn'[r] >= curr_tn[r]
  BY DEF Types, RegTypes
<1>6. t[q].tp_reg_list \subseteq Regions /\ t[q].try.cw_set \subseteq Blocks
      /\ t[q].try \in Tries
  BY DEF Types, TxnType, Txns, Tries
<1>7. /\ \A pc : At(q, pc)' <=> At(q, pc)
      /\ \A pc : RecoversFor(q, pc)' <=> RecoversFor(q, pc)
      /\ \A r : Updated(q, r)' <=> Updated(q, r)
      /\ CurBlk(q)' = CurBlk(q) /\ CurReg(q)' = CurReg(q)
      /\ FinalRetry(q)' <=> FinalRetry(q)
      /\ InTry(q)' <=> InTry(q)
  BY <1>1 DEF At, RecoversFor, Updated, CurBlk, CurReg, CurOp, FinalRetry, InTry
<1>8. Notes(q)' /\ Place(q)'
  BY <1>1, <1>2, <1>7 DEF Proc, Notes, Place
<1>9. Crits(q)'
  <2>1. \A r \in t[q].tp_reg_list : HasCrit(q, r)' <=> HasCrit(q, r)
    BY <1>2, <1>6
  <2>2. At(q, "clnup_cmt14") => t[q].at \in Regions
    BY <1>6 DEF Proc, Place, At, CommitPoints
  <2> QED BY <2>1, <2>2, <1>1, <1>2, <1>7 DEF Proc, Crits
<1>10. OwnTn(q)'
  <2> SUFFICES ASSUME t[q].pc \in CommitPoints, NEW r \in Regions, Updated(q, r),
                      HasCrit(q, r) => At(q, "clnup_cmt14") /\ r = t[q].at
               PROVE  t[q].try.start_tn[r] < curr_tn'[r]
    BY <1>1, <1>2, <1>7 DEF OwnTn
  <2>1. t[q].try.start_tn[r] < curr_tn[r]
    BY DEF Proc, OwnTn
  <2>2. t[q].try.start_tn[r] \in Nat /\ curr_tn[r] \in Nat /\ curr_tn'[r] \in Nat
    BY <1>6 DEF Types, RegTypes, Tries
  <2> QED BY <2>1, <2>2, <1>5
<1>11. ASSUME FinalRetry(q) PROVE FinalTry(q)'
  <2>1. FinalTry(q)
    BY <1>11 DEF Proc
  <2>2. \A b \in Blocks : t[q].try.hist[b] # NoHist => Reg[b] \in t[q].tp_reg_list
    BY TpCommitAssumption DEF Proc, Notes
  <2>3. t[q].pc \in OpPoints =>
            CurBlk(q) \in Blocks /\ CurReg(q) = Reg[CurBlk(q)] /\ CurReg(q) \in t[q].tp_reg_list
    <3> SUFFICES ASSUME t[q].pc \in OpPoints
                 PROVE  CurBlk(q) \in Blocks /\ CurReg(q) = Reg[CurBlk(q)]
                        /\ CurReg(q) \in t[q].tp_reg_list
      OBVIOUS
    <3>1. t[q].try.op \in 1 .. Len(prog[q]) /\ t[q].try.start_tn[CurReg(q)] # NoTn
      BY DEF Proc, Place
    <3>2. CurBlk(q) \in Blocks /\ CurReg(q) \in Regions
      BY <3>1, CurBlkIs
    <3> QED BY <3>1, <3>2 DEF CurReg, Proc, Notes
  <2>4. InTry(q) => \A b \in Blocks : t[q].try.hist[b] # NoHist => HasCrit(q, Reg[b])
    BY <2>1, <2>2 DEF FinalTry
  <2>5. t[q].pc \in OpPoints => HasCrit(q, CurReg(q))
    BY <2>1, <2>3 DEF FinalTry, InTry
  <2>6. \A r \in t[q].tp_reg_list : HasCrit(q, r)' <=> HasCrit(q, r)
    BY <1>2, <1>6
  <2>7. InTry(q) => \A b \in Blocks : t[q].try.hist[b] # NoHist =>
            /\ t[q].try.hist[b].tn = curr_tn'[Reg[b]]
            /\ t[q].try.hist[b].cycle = cycle'[b] /\ in_tend'[b] = NoPid
    BY <2>1, <2>4, <1>3, <1>4, TpCommitAssumption DEF FinalTry
  <2>8. t[q].pc \in OpPoints =>
            /\ curr_tn'[CurReg(q)] = curr_tn[CurReg(q)]
            /\ cycle'[CurBlk(q)] = cycle[CurBlk(q)]
            /\ in_tend'[CurBlk(q)] \in {in_tend[CurBlk(q)], NoPid}
    BY <2>3, <2>5, <1>3, <1>4, TpCommitAssumption
  <2> QED BY <2>1, <2>6, <2>7, <2>8, <1>1, <1>7 DEF FinalTry, OpPoints
<1> QED BY <1>7, <1>8, <1>9, <1>10, <1>11 DEF Proc

\* A step of p that touches no tn, between points where p is not in the course of
\* changing one.
Quiet(p) ==
    /\ UNCHANGED <<curr_tn, early_tn, bt, buf, stopped>>
    /\ \A r \in Regions :
        /\ HasCrit(p, r) => ~Ahead(p, r) /\ ~Settling(p, r)
        /\ HasCrit(p, r)' => ~Ahead(p, r)'

\* Such a step keeps what the invariant says of regions and of blocks.
LEMMA QuietStep ==
    ASSUME Types, Types', NEW p \in Pids, Mine(p), Quiet(p),
           \A r \in Regions : EarlyTn(r), \A b \in Blocks : BlkTn(b)
    PROVE  (\A r \in Regions : EarlyTn(r)') /\ (\A b \in Blocks : BlkTn(b)')
<1>1. \A q \in Pids : q # p => \A r \in Regions :
        (Ahead(q, r)' <=> Ahead(q, r)) /\ (Settling(q, r)' <=> Settling(q, r))
  BY DEF Mine, Ahead, Settling, At, Updated
<1>2. \A r \in Regions : crit[r] \in Pids \union {NoPid} /\ crit'[r] \in Pids \union {NoPid}
  BY DEF Types, RegTypes
<1>3. ASSUME NEW r \in Regions PROVE EarlyTn(r)'
  <2>1. CASE crit'[r] = crit[r] /\ crit[r] \in Pids /\ crit[r] # p
    BY <2>1, <1>1 DEF Quiet, EarlyTn
  <2>2. CASE crit'[r] \in {p, NoPid} /\ crit[r] \in {p, NoPid}
    <3>1. early_tn[r] = curr_tn[r]
      BY <2>2, TpCommitAssumption DEF Quiet, EarlyTn, HasCrit
    <3>2. ~(crit[r] \in Pids /\ Ahead(crit[r], r))'
      BY <2>2, TpCommitAssumption DEF Quiet, HasCrit
    <3> QED BY <3>1, <3>2 DEF Quiet, EarlyTn
  <2> QED BY <2>1, <2>2, <1>2 DEF Mine
<1>4. ASSUME NEW b \in Blocks PROVE BlkTn(b)'
  <2> DEFINE r == Reg[b]
  <2>0. r \in Regions
    BY TpCommitAssumption
  <2>1. CASE crit'[r] = crit[r] /\ crit[r] \in Pids /\ crit[r] # p
    BY <2>0, <2>1, <1>1 DEF Quiet, BlkTn
  <2>2. CASE crit'[r] \in {p, NoPid} /\ crit[r] \in {p, NoPid}
    <3>1. bt[b] # curr_tn[r]
      BY <2>0, <2>2, TpCommitAssumption DEF Quiet, BlkTn, HasCrit
    <3> QED BY <3>1 DEF Quiet, BlkTn
  <2> QED BY <2>0, <2>1, <2>2, <1>2 DEF Mine
<1> QED BY <1>3, <1>4

\* Enough for a step to preserve the invariant.
LEMMA Combine ==
    ASSUME IInv, NEW p \in Pids, Types', Mine(p), Proc(p)',
           \A r \in Regions : EarlyTn(r)', \A b \in Blocks : BlkTn(b)'
    PROVE  IInv'
<1>1. \A q \in Pids : Proc(q)'
  <2> SUFFICES ASSUME NEW q \in Pids, q # p PROVE Proc(q)'
    OBVIOUS
  <2> QED BY Others DEF IInv
<1> QED BY <1>1 DEF IInv

\* The same for a step that touches no tn.
LEMMA CombineQuiet ==
    ASSUME IInv, NEW p \in Pids, Types', Mine(p), Quiet(p), Proc(p)'
    PROVE  IInv'
<1>1. (\A r \in Regions : EarlyTn(r)') /\ (\A b \in Blocks : BlkTn(b)')
  BY QuietStep DEF IInv
<1> QED BY <1>1, Combine

----------------------------------------------------------------------------
(* The operations of a transaction.                                        *)

\* What is known of a process before its step.
LEMMA Known ==
    ASSUME IInv, NEW p \in Pids
    PROVE  /\ Types /\ Proc(p) /\ t[p] \in Txns /\ t[p].try \in Tries
           /\ prog[p] \in Seq([blk : Blocks, upd : BOOLEAN])
           /\ t[p].tp_reg_list \subseteq Regions
BY DEF IInv, Types, TxnType, ProgType, Txns

\* op_tstart.
LEMMA BeginInv == ASSUME IInv, NEW p \in Pids, Begin(p) PROVE IInv'
<1> USE DEF Begin, Go, At
<1>0. /\ Types /\ Proc(p) /\ t[p] \in Txns /\ t[p].try \in Tries
  BY Known
<1>1. /\ t' = [t EXCEPT ![p].pc = "op"]
      /\ t'[p] = [t[p] EXCEPT !.pc = "op"] /\ t[p].pc = "begin"
      /\ t[p].t_tries = 0 /\ t[p].try = FreshTry /\ 1 <= Len(prog[p])
  BY <1>0 DEF Types, TxnType, Proc, Place
<1>2. Types'
  <2>1. TxnType'
    BY ZenonT(60), <1>0, <1>1 DEF Types, TxnType, Txns, Points
  <2> QED BY <2>1, <1>0 DEF Types, RegTypes, BlkTypes, HistTypes, ProgType, regVars, blkVars,
                            Ended
<1>3. Mine(p)
  BY <1>0, <1>1 DEF Mine, Types, TxnType, regVars, blkVars
<1>4. Quiet(p)
  BY <1>1 DEF Quiet, regVars, blkVars, Ahead, Settling, RecoveryPoints
<1>5. Proc(p)'
  <2>1. Notes(p)' /\ Place(p)'
    BY <1>0, <1>1, <1>2 DEF Proc, Notes, Place, FreshTry, OpPoints, CommitPoints, RecoveryPoints,
          RecoversFor, Types, ProgType
  <2>2. Crits(p)' /\ OwnTn(p)'
    BY <1>1 DEF Crits, OwnTn, CommitPoints, RecoversFor, RecoveryPoints
  <2>3. ~FinalRetry(p)'
    BY <1>1, TpCommitAssumption DEF FinalRetry
  <2> QED BY <2>1, <2>2, <2>3 DEF Proc
<1> QED BY <1>2, <1>3, <1>4, <1>5, CombineQuiet

\* A process that is not between the validation of a region and the end of its commit,
\* nor making a tn in a recovery of the cache.
Idle(p) ==
    \/ t[p].pc \in {"begin", "op", "check", "restart", "helped", "crit_all", "done"}
                        \union OpPoints
    \/ t[p].pc \in {"recover", "resume"} /\ t[p].ret # "validate"

\* Nothing is promised of the crits and the tns of such a process.
LEMMA IdleIs ==
    ASSUME NEW p
    PROVE  /\ Idle(p) => /\ Crits(p) /\ OwnTn(p)
                         /\ \A r \in Regions : ~Ahead(p, r) /\ ~Settling(p, r)
           /\ Idle(p)' => /\ Crits(p)' /\ OwnTn(p)'
                          /\ \A r \in Regions : ~Ahead(p, r)' /\ ~Settling(p, r)'
BY DEF Idle, Crits, OwnTn, Ahead, Settling, At, RecoversFor, RecoveryPoints, OpPoints,
       CommitPoints

\* tp_set_sgm.  In the final retry a region is noted with its crit held.
LEMMA TpSetSgmInv == ASSUME IInv, NEW p \in Pids, TpSetSgm(p) PROVE IInv'
<1> USE DEF At
<1> DEFINE r == CurReg(p)
<1>0. /\ Types /\ Proc(p) /\ t[p] \in Txns /\ t[p].try \in Tries
      /\ t[p].tp_reg_list \subseteq Regions
  BY Known
<1>1. /\ t[p].pc = "op" /\ t[p].try.op \in 1 .. Len(prog[p])
      /\ UNCHANGED <<prog, curr_tn, early_tn, wc_blocked, last_wcs_recover_tn, pidcnt,
                     bt, buf, in_tend, cycle, stopped, before, log, errors>>
  BY <1>0 DEF TpSetSgm, Proc, Place, blkVars, histVars
<1>2. r \in Regions /\ CurBlk(p) \in Blocks
  BY <1>0, <1>1, CurBlkIs
<1>3. ~FinalRetry(p) \/ FinalTry(p)
  BY <1>0 DEF Proc
<1>4. CASE t[p].try.start_tn[r] # NoTn /\ Go(p, "search") /\ UNCHANGED crit
  <2>1. t' = [t EXCEPT ![p].pc = "search"] /\ t'[p] = [t[p] EXCEPT !.pc = "search"]
    BY <1>0, <1>4 DEF Go, Types, TxnType
  <2>2. Types'
    <3>1. TxnType'
      BY <1>0, <2>1 DEF Types, TxnType, Txns, Points, OpPoints
    <3> QED BY <3>1, <1>0, <1>1, <1>4 DEF Types, RegTypes, BlkTypes, HistTypes, ProgType
  <2>3. Mine(p)
    BY <1>0, <1>1, <1>4, <2>1 DEF Mine, Types, TxnType
  <2>4. Idle(p) /\ Idle(p)'
    BY <1>1, <2>1 DEF Idle, OpPoints
  <2>5. Quiet(p)
    BY <1>1, <2>4, IdleIs DEF Quiet
  <2>6. /\ t'[p].pc = "search" /\ t'[p].try = t[p].try /\ CurReg(p)' = r
        /\ t'[p].tp_reg_list = t[p].tp_reg_list
    BY <1>0, <1>1, <2>1 DEF CurReg, CurBlk, CurOp, Txns
  <2>7. Notes(p)'
    BY <1>0, <2>6 DEF Proc, Notes
  <2>8. Place(p)'
    BY <1>0, <1>1, <1>4, <2>6 DEF Proc, Place, OpPoints, CommitPoints, RecoveryPoints,
        RecoversFor
  <2>9. FinalRetry(p)' => FinalTry(p)'
    BY <1>1, <1>3, <1>4, <2>1 DEF FinalRetry, FinalTry, InTry, OpPoints, RecoversFor,
        RecoveryPoints, HasCrit
  <2> QED BY <2>2, <2>3, <2>4, <2>5, <2>7, <2>8, <2>9, IdleIs, CombineQuiet DEF Proc
<1>5. CASE /\ t[p].try.start_tn[r] = NoTn
           /\ FinalRetry(p) => HasCrit(p, r)
           /\ t' = [t EXCEPT ![p].pc = "search", ![p].try.start_tn[r] = curr_tn[r],
                             ![p].tp_reg_list = @ \union {r}]
           /\ UNCHANGED crit
  <2>1. t'[p] = [t[p] EXCEPT !.pc = "search", !.try.start_tn[r] = curr_tn[r],
                             !.tp_reg_list = @ \union {r}]
    BY <1>0, <1>5 DEF Types, TxnType
  <2>2. t'[p].try = [t[p].try EXCEPT !.start_tn[r] = curr_tn[r]]
    BY <1>0, <2>1 DEF Txns
  <2>3. /\ t'[p].pc = "search" /\ t'[p].tp_reg_list = t[p].tp_reg_list \union {r}
        /\ t'[p].t_tries = t[p].t_tries /\ t'[p].at = t[p].at /\ t'[p].ret = t[p].ret
    BY <1>0, <2>1 DEF Txns
  <2>4. /\ t'[p].try.start_tn = [t[p].try.start_tn EXCEPT ![r] = curr_tn[r]]
        /\ t'[p].try.hist = t[p].try.hist /\ t'[p].try.cw_set = t[p].try.cw_set
        /\ t'[p].try.op = t[p].try.op /\ t'[p].try.todo = t[p].try.todo
        /\ t'[p].try.build = t[p].try.build
    BY <1>0, <2>2 DEF Tries
  <2>5. curr_tn[r] \in Nat /\ curr_tn[r] # NoTn
    BY <1>0, <1>2 DEF Types, RegTypes, NoTn
  <2>6. Types'
    <3>1. t'[p].try \in Tries
      BY SMTT(30), <1>0, <1>2, <2>2, <2>5 DEF Tries
    <3>2. t'[p] = [t[p] EXCEPT !.pc = "search", !.try = t'[p].try,
                               !.tp_reg_list = @ \union {r}]
      BY <1>0, <2>1 DEF Txns
    <3>3. \A y \in Tries, z \in SUBSET Regions :
            [t[p] EXCEPT !.pc = "search", !.try = y, !.tp_reg_list = z] \in Txns
      BY <1>0 DEF Txns, Points, OpPoints
    <3>4. TxnType'
      BY ZenonT(60), <1>0, <1>2, <1>5, <3>1, <3>2, <3>3 DEF Types, TxnType
    <3> QED BY <3>4, <1>0, <1>1, <1>5 DEF Types, RegTypes, BlkTypes, HistTypes, ProgType
  <2>7. Mine(p)
    BY <1>0, <1>1, <1>5 DEF Mine, Types, TxnType
  <2>8. Idle(p) /\ Idle(p)'
    BY <1>1, <2>3 DEF Idle, OpPoints
  <2>9. Quiet(p)
    BY <1>1, <2>8, IdleIs DEF Quiet
  <2>10. CurReg(p)' = r
    BY <1>1, <2>4 DEF CurReg, CurBlk, CurOp
  <2>11. \A s \in Regions : t'[p].try.start_tn[s] # NoTn <=> t[p].try.start_tn[s] # NoTn \/ s = r
    BY <1>0, <2>4, <2>5 DEF Tries
  <2>12. Notes(p)'
    <3>1. \A b \in Blocks : Reg[b] \in Regions
      BY TpCommitAssumption
    <3>2. t[p].try.cw_set \subseteq Blocks
      BY <1>0 DEF Tries
    <3> QED BY <3>1, <3>2, <1>0, <2>3, <2>4, <2>11 DEF Proc, Notes
  <2>13. Place(p)'
    BY <1>0, <1>1, <1>2, <2>3, <2>4, <2>10, <2>11 DEF Proc, Place, OpPoints, CommitPoints,
        RecoveryPoints, RecoversFor
  <2>14. FinalRetry(p)' => FinalTry(p)'
    BY ZenonT(60), <1>1, <1>3, <1>5, <2>3, <2>4 DEF FinalRetry, FinalTry, InTry, OpPoints, RecoversFor,
        RecoveryPoints, HasCrit
  <2> QED BY <2>6, <2>7, <2>8, <2>9, <2>12, <2>13, <2>14, IdleIs, CombineQuiet DEF Proc
<1>6. CASE t[p].try.start_tn[r] = NoTn /\ FinalRetry(p) /\ GrabCrit(p, r, "op")
  <2>1. PICK pc \in {"recover", "op"} :
          /\ crit[r] = NoPid /\ crit' = [crit EXCEPT ![r] = p]
          /\ t' = [t EXCEPT ![p].pc = pc, ![p].at = r, ![p].ret = "op"]
    BY <1>6, Zenon DEF GrabCrit
  <2>2. t'[p] = [t[p] EXCEPT !.pc = pc, !.at = r, !.ret = "op"]
    BY <1>0, <2>1 DEF Types, TxnType
  <2>3. Types'
    <3>1. TxnType'
      BY <1>0, <1>2, <2>1 DEF Types, TxnType, Txns, Points, RecoveryPoints
    <3> QED BY <3>1, <1>0, <1>1, <2>1 DEF Types, RegTypes, BlkTypes, HistTypes, ProgType
  <2>4. Mine(p)
    BY <1>0, <1>1, <2>1 DEF Mine, Types, TxnType, RegTypes
  <2>5. Idle(p) /\ Idle(p)'
    BY <1>1, <2>2 DEF Idle, OpPoints
  <2>6. Quiet(p)
    BY <1>1, <2>5, IdleIs DEF Quiet
  <2>7. \A s \in Regions : HasCrit(p, s)' <=> HasCrit(p, s) \/ s = r
    BY <1>0, <1>2, <2>1, TpCommitAssumption DEF HasCrit, Types, RegTypes
  <2>8. /\ t'[p].pc = pc /\ t'[p].try = t[p].try /\ t'[p].at = r /\ t'[p].ret = "op"
        /\ t'[p].tp_reg_list = t[p].tp_reg_list
    BY <1>0, <2>2 DEF Txns
  <2>9. Notes(p)'
    BY <1>0, <2>8 DEF Proc, Notes
  <2>10. Place(p)'
    BY <1>0, <1>1, <1>2, <2>1, <2>7, <2>8 DEF Proc, Place, OpPoints, CommitPoints,
        RecoveryPoints, RecoversFor
  <2>11. FinalTry(p)'
    BY <1>0, <1>1, <1>2, <1>3, <1>6, <2>7, <2>8 DEF FinalTry, InTry, OpPoints, RecoversFor,
        RecoveryPoints
  <2> QED BY <2>3, <2>4, <2>5, <2>6, <2>9, <2>10, <2>11, IdleIs, CombineQuiet DEF Proc
<1> QED BY <1>4, <1>5, <1>6 DEF TpSetSgm

\* A step that only changes the transaction of p, and crits from or to p, and what is
\* known of the transactions of the past.
LEMMA LoggedStep ==
    ASSUME Types, NEW p \in Pids, NEW x \in Txns, t' = [t EXCEPT ![p] = x], HistTypes',
           UNCHANGED <<prog, curr_tn, early_tn, wc_blocked, last_wcs_recover_tn, pidcnt,
                       bt, buf, in_tend, cycle, stopped>>,
           crit' \in [Regions -> Pids \union {NoPid}],
           \A r \in Regions : \/ crit'[r] = crit[r]
                              \/ crit[r] \in {p, NoPid} /\ crit'[r] \in {p, NoPid}
    PROVE  Types' /\ Mine(p) /\ t'[p] = x
<1>1. Types'
  BY DEF Types, TxnType, RegTypes, BlkTypes, ProgType
<1>2. Mine(p) /\ t'[p] = x
  BY DEF Types, TxnType, RegTypes, Mine
<1> QED BY <1>1, <1>2

\* The same without the past.
LEMMA OwnStep ==
    ASSUME Types, NEW p \in Pids, NEW x \in Txns, t' = [t EXCEPT ![p] = x],
           UNCHANGED <<prog, curr_tn, early_tn, wc_blocked, last_wcs_recover_tn, pidcnt,
                       bt, buf, in_tend, cycle, stopped, before, log>>,
           crit' \in [Regions -> Pids \union {NoPid}],
           \A r \in Regions : \/ crit'[r] = crit[r]
                              \/ crit[r] \in {p, NoPid} /\ crit'[r] \in {p, NoPid}
    PROVE  Types' /\ Mine(p) /\ t'[p] = x
<1>1. HistTypes'
  BY DEF Types, HistTypes
<1> QED BY <1>1, LoggedStep

\* A transaction that is committed is noted with what it read and wrote.
LEMMA AddToLogIs ==
    ASSUME Types, NEW p \in Pids, AddToLog(p), before' = before
    PROVE  HistTypes'
<1>1. t[p].try \in Tries
  BY DEF Types, TxnType, Txns
<1>2. LogEntry(p) \in [rd : [Blocks -> SUBSET Vals], wr : SUBSET Blocks]
  BY <1>1 DEF LogEntry, Tries
<1> QED BY <1>2 DEF Types, HistTypes, AddToLog

\* rel_crit on a set of regions.
LEMMA RelCritIs ==
    ASSUME Types, NEW p \in Pids, NEW rs, RelCrit(p, rs)
    PROVE  /\ crit' \in [Regions -> Pids \union {NoPid}]
           /\ \A r \in Regions : \/ crit'[r] = crit[r]
                                 \/ crit[r] \in {p, NoPid} /\ crit'[r] \in {p, NoPid}
           /\ \A r \in Regions : HasCrit(p, r)' <=> HasCrit(p, r) /\ r \notin rs
BY TpCommitAssumption DEF RelCrit, HasCrit, Types, RegTypes

\* Getting crit on a region: what follows is a recovery of its cache, or what was meant.
LEMMA GrabCritIs ==
    ASSUME Types, NEW p \in Pids, NEW r \in Regions, NEW pc, GrabCrit(p, r, pc)
    PROVE  /\ \E c \in {"recover", pc} :
                t' = [t EXCEPT ![p].pc = c, ![p].at = r, ![p].ret = pc]
           /\ crit[r] = NoPid
           /\ crit' \in [Regions -> Pids \union {NoPid}]
           /\ \A s \in Regions : \/ crit'[s] = crit[s]
                                 \/ crit[s] \in {p, NoPid} /\ crit'[s] \in {p, NoPid}
           /\ \A s \in Regions : HasCrit(p, s)' <=> HasCrit(p, s) \/ s = r
<1>1. \E c \in {"recover", pc} : t' = [t EXCEPT ![p].pc = c, ![p].at = r, ![p].ret = pc]
  BY Zenon DEF GrabCrit
<1>2. crit[r] = NoPid /\ crit' = [crit EXCEPT ![r] = p]
  BY DEF GrabCrit
<1> QED BY <1>1, <1>2, TpCommitAssumption DEF HasCrit, Types, RegTypes

\* What a transaction updates is in its regions.
LEMMA UpdatedIs ==
    ASSUME Types, NEW p \in Pids, Notes(p)
    PROVE  \A r \in Regions : Updated(p, r) => r \in t[p].tp_reg_list
<1>1. t[p].try.cw_set \subseteq Blocks
  BY DEF Types, TxnType, Txns, Tries
<1> QED BY <1>1, TpCommitAssumption DEF Updated, Notes

\* grab_crit_immediate fails.
LEMMA NeedsCritInv == ASSUME IInv, NEW p \in Pids, TpSetSgmNeedsCrit(p) PROVE IInv'
<1> USE DEF At
<1> DEFINE r == CurReg(p)
           x == [t[p] EXCEPT !.pc = "restart", !.at = r, !.status = "needcrit",
                             !.tp_reg_list = @ \union {r}]
<1>0. /\ Types /\ Proc(p) /\ t[p] \in Txns /\ t[p].try \in Tries
      /\ t[p].tp_reg_list \subseteq Regions
  BY Known
<1>1. /\ t[p].pc = "op" /\ t[p].try.op \in 1 .. Len(prog[p])
      /\ UNCHANGED <<prog, regVars, blkVars, histVars>>
      /\ t' = [t EXCEPT ![p] = x]
  BY <1>0 DEF TpSetSgmNeedsCrit, Proc, Place, Types, TxnType, Txns
<1>2. r \in Regions
  BY <1>0, <1>1, CurBlkIs
<1>3. x \in Txns
  BY <1>0, <1>2 DEF Txns, Points, Codes
<1>4. Types' /\ Mine(p) /\ t'[p] = x
  <2> HIDE DEF x
  <2>1. crit' = crit /\ crit \in [Regions -> Pids \union {NoPid}]
    BY <1>0, <1>1 DEF Types, RegTypes, regVars
  <2> QED BY <2>1, <1>0, <1>1, <1>3, OwnStep DEF regVars, blkVars, histVars
<1>5. /\ t'[p].pc = "restart" /\ t'[p].try = t[p].try /\ t'[p].at = r
      /\ t'[p].tp_reg_list = t[p].tp_reg_list \union {r} /\ t'[p].status = "needcrit"
  BY <1>0, <1>4 DEF Txns
<1> HIDE DEF x
<1>6. Idle(p) /\ Idle(p)'
  BY <1>1, <1>5 DEF Idle
<1>7. Quiet(p)
  BY <1>1, <1>6, IdleIs DEF Quiet, regVars, blkVars
<1>8. Notes(p)'
  BY <1>0, <1>5 DEF Proc, Notes
<1>9. Place(p)'
  BY <1>0, <1>1, <1>5 DEF Proc, Place, OpPoints, CommitPoints, RecoveryPoints, RecoversFor
<1>10. FinalTry(p)'
  BY <1>5 DEF FinalTry, InTry, OpPoints, RecoversFor, RecoveryPoints
<1> QED BY <1>4, <1>6, <1>7, <1>8, <1>9, <1>10, IdleIs, CombineQuiet DEF Proc

\* gvcst_search.  In the final retry what it notes is what crit protects.
LEMMA SearchInv == ASSUME IInv, NEW p \in Pids, Search(p) PROVE IInv'
<1> USE DEF At
<1> DEFINE b == CurBlk(p)
<1>0. /\ Types /\ Proc(p) /\ t[p] \in Txns /\ t[p].try \in Tries
      /\ t[p].tp_reg_list \subseteq Regions
  BY Known
<1>1. /\ t[p].pc = "search" /\ t[p].try.op \in 1 .. Len(prog[p])
      /\ UNCHANGED <<prog, regVars, blkVars, histVars>>
      /\ t[p].try.start_tn[CurReg(p)] # NoTn
  BY <1>0 DEF Search, Proc, Place, OpPoints
<1>2. b \in Blocks /\ CurReg(p) \in Regions /\ CurReg(p) = Reg[b]
  BY <1>0, <1>1, CurBlkIs
<1>3. curr_tn[Reg[b]] \in Nat /\ cycle[b] \in Nat \ {0}
  BY <1>0, <1>2 DEF Types, RegTypes, BlkTypes
<1>4. PICK pc \in {"read", "qread"} :
        /\ t' = [t EXCEPT ![p].pc = pc, ![p].try.tn = curr_tn[Reg[b]],
                          ![p].try.cycle = cycle[b]]
        /\ pc = "read" => t[p].try.hist[b].cycle = cycle[b]
  BY DEF Search
<1> DEFINE y == [t[p].try EXCEPT !.tn = curr_tn[Reg[b]], !.cycle = cycle[b]]
           x == [t[p] EXCEPT !.pc = pc, !.try = y]
<1>5. y \in Tries /\ t' = [t EXCEPT ![p] = x]
  <2>1. y \in Tries
    BY <1>0, <1>3 DEF Tries
  <2>2. t' = [t EXCEPT ![p] = x]
    BY <1>0, <1>4 DEF Types, TxnType, Txns
  <2> QED BY <2>1, <2>2
<1>6. /\ y.op = t[p].try.op /\ y.start_tn = t[p].try.start_tn /\ y.hist = t[p].try.hist
      /\ y.cw_set = t[p].try.cw_set /\ y.todo = t[p].try.todo /\ y.build = t[p].try.build
      /\ y.tn = curr_tn[Reg[b]] /\ y.cycle = cycle[b]
  BY <1>0 DEF Tries
<1> HIDE DEF y
<1>7. x \in Txns
  BY <1>0, <1>5 DEF Txns, Points, OpPoints
<1>8. Types' /\ Mine(p) /\ t'[p] = x
  <2> HIDE DEF x
  <2>1. crit' = crit /\ crit \in [Regions -> Pids \union {NoPid}]
    BY <1>0, <1>1 DEF Types, RegTypes, regVars
  <2> QED BY <2>1, <1>0, <1>1, <1>5, <1>7, OwnStep DEF regVars, blkVars, histVars
<1>9. /\ t'[p].pc = pc /\ t'[p].try = y /\ t'[p].at = t[p].at
      /\ t'[p].tp_reg_list = t[p].tp_reg_list /\ t'[p].t_tries = t[p].t_tries
      /\ CurBlk(p)' = CurBlk(p) /\ CurReg(p)' = CurReg(p)
  BY <1>0, <1>1, <1>6, <1>8 DEF Txns, CurReg, CurBlk, CurOp
<1> HIDE DEF x
<1>10. Idle(p) /\ Idle(p)'
  BY <1>1, <1>9 DEF Idle, OpPoints
<1>11. Quiet(p)
  BY <1>1, <1>10, IdleIs DEF Quiet, regVars, blkVars
<1>12. Notes(p)'
  BY <1>0, <1>6, <1>9 DEF Proc, Notes
<1>13. Place(p)'
  BY <1>0, <1>1, <1>6, <1>9 DEF Proc, Place, OpPoints, CommitPoints, RecoveryPoints,
      RecoversFor
<1>14. ASSUME FinalRetry(p)' PROVE FinalTry(p)'
  <2>1. FinalTry(p)
    BY <1>0, <1>9, <1>14 DEF Proc, FinalRetry
  <2>2. pc = "read" => t[p].try.hist[b] # NoHist
    BY <1>3, <1>4 DEF NoHist
  <2>3. pc = "read" => in_tend[b] = NoPid
    BY <1>1, <1>2, <2>1, <2>2 DEF FinalTry, InTry, OpPoints
  <2> QED BY <2>1, <2>3, <1>1, <1>2, <1>6, <1>9
          DEF FinalTry, InTry, OpPoints, RecoversFor, RecoveryPoints, regVars, blkVars, HasCrit
<1> QED BY <1>8, <1>10, <1>11, <1>12, <1>13, <1>14, IdleIs, CombineQuiet DEF Proc

\* wcs_phase2_commit_wait.
LEMMA TQreadInv == ASSUME IInv, NEW p \in Pids, TQread(p) PROVE IInv'
<1> USE DEF At
<1> DEFINE x == [t[p] EXCEPT !.pc = "read"]
<1>0. /\ Types /\ Proc(p) /\ t[p] \in Txns /\ t[p].try \in Tries
      /\ t[p].tp_reg_list \subseteq Regions
  BY Known
<1>1. /\ t[p].pc = "qread" /\ UNCHANGED <<prog, regVars, blkVars, histVars>>
      /\ in_tend[CurBlk(p)] = NoPid /\ t' = [t EXCEPT ![p] = x]
  BY <1>0 DEF TQread, Go, Types, TxnType, Txns
<1>2. x \in Txns
  BY <1>0 DEF Txns, Points, OpPoints
<1>3. Types' /\ Mine(p) /\ t'[p] = x
  <2> HIDE DEF x
  <2>1. crit' = crit /\ crit \in [Regions -> Pids \union {NoPid}]
    BY <1>0, <1>1 DEF Types, RegTypes, regVars
  <2> QED BY <2>1, <1>0, <1>1, <1>2, OwnStep DEF regVars, blkVars, histVars
<1>4. /\ t'[p].pc = "read" /\ t'[p].try = t[p].try /\ t'[p].at = t[p].at
      /\ t'[p].tp_reg_list = t[p].tp_reg_list /\ t'[p].t_tries = t[p].t_tries
      /\ CurBlk(p)' = CurBlk(p) /\ CurReg(p)' = CurReg(p)
  BY <1>0, <1>1, <1>3 DEF Txns, CurReg, CurBlk, CurOp
<1> HIDE DEF x
<1>5. Idle(p) /\ Idle(p)'
  BY <1>1, <1>4 DEF Idle, OpPoints
<1>6. Quiet(p)
  BY <1>1, <1>5, IdleIs DEF Quiet, regVars, blkVars
<1>7. Notes(p)'
  BY <1>0, <1>4 DEF Proc, Notes
<1>8. Place(p)'
  BY <1>0, <1>1, <1>4 DEF Proc, Place, OpPoints, CommitPoints, RecoveryPoints, RecoversFor
<1>9. FinalRetry(p)' => FinalTry(p)'
  BY <1>0, <1>1, <1>4 DEF Proc, FinalRetry, FinalTry, InTry, OpPoints, RecoversFor,
      RecoveryPoints, regVars, blkVars, HasCrit
<1> QED BY <1>3, <1>5, <1>6, <1>7, <1>8, <1>9, IdleIs, CombineQuiet DEF Proc

\* The contents of the buffer.
LEMMA ReadBufferInv == ASSUME IInv, NEW p \in Pids, ReadBuffer(p) PROVE IInv'
<1> USE DEF At
<1> DEFINE b == CurBlk(p)
<1>0. /\ Types /\ Proc(p) /\ t[p] \in Txns /\ t[p].try \in Tries
      /\ t[p].tp_reg_list \subseteq Regions
  BY Known
<1>1. /\ t[p].pc = "read" /\ t[p].try.op \in 1 .. Len(prog[p])
      /\ UNCHANGED <<prog, regVars, blkVars, histVars>>
  BY <1>0 DEF ReadBuffer, Proc, Place, OpPoints
<1>2. b \in Blocks
  BY <1>0, <1>1, CurBlkIs
<1>3. PICK v \in Vals : t' = [t EXCEPT ![p].pc = "hist", ![p].try.val = v]
  <2>1. buf[b].val \in Vals /\ Garbage \in Vals
    BY <1>0, <1>2 DEF Types, BlkTypes, Bufs, Vals
  <2> QED BY <2>1 DEF ReadBuffer
<1> DEFINE y == [t[p].try EXCEPT !.val = v]
           x == [t[p] EXCEPT !.pc = "hist", !.try = y]
<1>4. y \in Tries
  BY <1>0 DEF Tries
<1>5. t' = [t EXCEPT ![p] = x]
  BY <1>0, <1>3 DEF Types, TxnType, Txns
<1>6. /\ y.op = t[p].try.op /\ y.start_tn = t[p].try.start_tn /\ y.hist = t[p].try.hist
      /\ y.cw_set = t[p].try.cw_set /\ y.todo = t[p].try.todo /\ y.build = t[p].try.build
      /\ y.tn = t[p].try.tn /\ y.cycle = t[p].try.cycle
  BY <1>0 DEF Tries
<1> HIDE DEF y
<1>7. x \in Txns
  BY <1>0, <1>4 DEF Txns, Points, OpPoints
<1>8. Types' /\ Mine(p) /\ t'[p] = x
  <2> HIDE DEF x
  <2>1. crit' = crit /\ crit \in [Regions -> Pids \union {NoPid}]
    BY <1>0, <1>1 DEF Types, RegTypes, regVars
  <2> QED BY <2>1, <1>0, <1>1, <1>5, <1>7, OwnStep DEF regVars, blkVars, histVars
<1>9. /\ t'[p].pc = "hist" /\ t'[p].try = y /\ t'[p].at = t[p].at
      /\ t'[p].tp_reg_list = t[p].tp_reg_list /\ t'[p].t_tries = t[p].t_tries
      /\ CurBlk(p)' = CurBlk(p) /\ CurReg(p)' = CurReg(p)
  BY <1>0, <1>1, <1>6, <1>8 DEF Txns, CurReg, CurBlk, CurOp
<1> HIDE DEF x
<1>10. Idle(p) /\ Idle(p)'
  BY <1>1, <1>9 DEF Idle, OpPoints
<1>11. Quiet(p)
  BY <1>1, <1>10, IdleIs DEF Quiet, regVars, blkVars
<1>12. Notes(p)'
  BY <1>0, <1>6, <1>9 DEF Proc, Notes
<1>13. Place(p)'
  BY <1>0, <1>1, <1>6, <1>9 DEF Proc, Place, OpPoints, CommitPoints, RecoveryPoints,
      RecoversFor
<1>14. FinalRetry(p)' => FinalTry(p)'
  BY <1>0, <1>1, <1>6, <1>9 DEF Proc, FinalRetry, FinalTry, InTry, OpPoints, RecoversFor,
      RecoveryPoints, regVars, blkVars, HasCrit
<1> QED BY <1>8, <1>10, <1>11, <1>12, <1>13, <1>14, IdleIs, CombineQuiet DEF Proc

\* In the final retry tp_hist finds the block as it was, and as old as its tn says.
LEMMA TpHistStatusIs ==
    ASSUME IInv, NEW p \in Pids, At(p, "hist")
    PROVE  /\ TpHistStatus(p) \in Codes
           /\ FinalRetry(p) => TpHistStatus(p) \in {"normal", "wcs_recover"}
<1> USE DEF At
<1> DEFINE b == CurBlk(p)
           h == HistEntry(p, b)
<1>0. /\ Types /\ Proc(p) /\ t[p].try \in Tries
  BY Known
<1>1. t[p].try.op \in 1 .. Len(prog[p])
  BY <1>0 DEF Proc, Place, OpPoints
<1>2. b \in Blocks /\ CurReg(p) \in Regions /\ CurReg(p) = Reg[b]
  BY <1>0, <1>1, CurBlkIs
<1>3. /\ t[p].try.hist[b] \in [tn : Nat, cycle : Nat] /\ t[p].try.tn \in Nat
      /\ buf[b].tn \in Nat /\ curr_tn[Reg[b]] \in Nat
  BY <1>0, <1>2 DEF Types, BlkTypes, RegTypes, Tries, Bufs
<1>4. h.tn \in Nat /\ h.cycle = t[p].try.cycle
  BY <1>3 DEF HistEntry
<1>5. TpHistStatus(p) \in Codes
  <2>1. CASE h.cycle # cycle[b]
    BY <2>1 DEF TpHistStatus, Codes
  <2>2. CASE h.cycle = cycle[b] /\ (in_tend[b] # NoPid \/ h.tn <= buf[b].tn)
    BY <2>2 DEF TpHistStatus, Codes
  <2>3. CASE h.cycle = cycle[b] /\ in_tend[b] = NoPid /\ h.tn > buf[b].tn
    <3>1. TpHistStatus(p) = IF t[p].try.start_tn[Reg[b]] <= last_wcs_recover_tn[Reg[b]]
                            THEN "wcs_recover" ELSE "normal"
      BY <2>3, <1>3, <1>4 DEF TpHistStatus
    <3> QED BY <3>1 DEF Codes
  <2> QED BY <2>1, <2>2, <2>3, <1>3, <1>4
<1>6. ASSUME FinalRetry(p) PROVE TpHistStatus(p) \in {"normal", "wcs_recover"}
  <2>1. FinalTry(p)
    BY <1>0, <1>6 DEF Proc
  <2>2. h.cycle = cycle[b] /\ in_tend[b] = NoPid
    BY <1>2, <1>4, <2>1 DEF FinalTry
  <2>3. h.tn = curr_tn[Reg[b]]
    BY <1>2, <2>1 DEF FinalTry, HistEntry, InTry, OpPoints
  <2>4. buf[b].tn < curr_tn[Reg[b]]
    BY <1>2 DEF IInv, BlkTn
  <2>5. TpHistStatus(p) = IF t[p].try.start_tn[Reg[b]] <= last_wcs_recover_tn[Reg[b]]
                          THEN "wcs_recover" ELSE "normal"
    BY <2>2, <2>3, <2>4, <1>3, <1>4 DEF TpHistStatus
  <2> QED BY <2>5
<1> QED BY <1>5, <1>6

\* tp_hist: the block becomes part of the history, or the transaction restarts.
LEMMA TpHistInv == ASSUME IInv, NEW p \in Pids, TpHist(p) PROVE IInv'
<1> USE DEF At
<1> DEFINE b == CurBlk(p)
           h == HistEntry(p, b)
<1>0. /\ Types /\ Proc(p) /\ t[p] \in Txns /\ t[p].try \in Tries
      /\ t[p].tp_reg_list \subseteq Regions
  BY Known
<1>1. /\ t[p].pc = "hist" /\ t[p].try.op \in 1 .. Len(prog[p])
      /\ UNCHANGED <<prog, regVars, blkVars, histVars>>
      /\ t[p].try.start_tn[CurReg(p)] # NoTn
  BY <1>0 DEF TpHist, Proc, Place, OpPoints
<1>2. b \in Blocks /\ CurReg(p) \in Regions /\ CurReg(p) = Reg[b]
      /\ CurReg(p) \in t[p].tp_reg_list /\ Len(prog[p]) \in Nat
  <2>1. b \in Blocks /\ CurReg(p) \in Regions /\ CurReg(p) = Reg[b]
    BY <1>0, <1>1, CurBlkIs
  <2>2. CurReg(p) \in t[p].tp_reg_list
    BY <2>1, <1>0, <1>1 DEF Proc, Notes
  <2>3. prog[p] \in Seq([blk : Blocks, upd : BOOLEAN])
    BY Known
  <2> QED BY <2>1, <2>2, <2>3, LenProperties
<1>3. crit' = crit /\ crit \in [Regions -> Pids \union {NoPid}]
  BY <1>0, <1>1 DEF Types, RegTypes, regVars
<1>4. CASE TpHistStatus(p) # "normal"
  <2> DEFINE x == [t[p] EXCEPT !.pc = "restart", !.at = Reg[b], !.status = TpHistStatus(p)]
  <2>1. t' = [t EXCEPT ![p] = x]
    BY <1>0, <1>4 DEF TpHist, Fail, Types, TxnType, Txns
  <2>2. TpHistStatus(p) \in Codes
    BY <1>1, TpHistStatusIs
  <2>3. x \in Txns
    BY <1>0, <1>2, <2>2 DEF Txns, Points
  <2>4. Types' /\ Mine(p) /\ t'[p] = x
    <3> HIDE DEF x
    <3> QED BY <1>0, <1>1, <1>3, <2>1, <2>3, OwnStep DEF regVars, blkVars, histVars
  <2>5. /\ t'[p].pc = "restart" /\ t'[p].try = t[p].try /\ t'[p].at = CurReg(p)
        /\ t'[p].tp_reg_list = t[p].tp_reg_list /\ t'[p].status = TpHistStatus(p)
        /\ t'[p].t_tries = t[p].t_tries
    BY <1>0, <1>2, <2>4 DEF Txns
  <2> HIDE DEF x
  <2>6. Idle(p) /\ Idle(p)'
    BY <1>1, <2>5 DEF Idle, OpPoints
  <2>7. Quiet(p)
    BY <1>1, <2>6, IdleIs DEF Quiet, regVars, blkVars
  <2>8. Notes(p)'
    BY <1>0, <2>5 DEF Proc, Notes
  <2>9. Place(p)'
    BY <1>0, <1>1, <1>2, <2>5 DEF Proc, Place, OpPoints, CommitPoints, RecoveryPoints,
        RecoversFor
  <2>10. FinalRetry(p)' => FinalTry(p)'
    <3>1. FinalRetry(p)' => TpHistStatus(p) = "wcs_recover"
      BY <1>1, <1>4, <2>5, TpHistStatusIs DEF FinalRetry
    <3> QED BY <3>1, <2>5 DEF FinalTry, InTry, OpPoints, RecoversFor, RecoveryPoints
  <2> QED BY <2>4, <2>6, <2>7, <2>8, <2>9, <2>10, IdleIs, CombineQuiet DEF Proc
<1>5. CASE TpHistStatus(p) = "normal"
  <2> DEFINE y == [t[p].try EXCEPT
                        !.op = @ + 1, !.hist[b] = h, !.rd[b] = @ \union {t[p].try.val},
                        !.cw_set = IF CurOp(p).upd THEN @ \union {b} ELSE @]
  <2>1. t' = [t EXCEPT
                ![p].pc = IF t[p].try.op = Len(prog[p]) THEN "check" ELSE "op",
                ![p].at = IF t[p].try.op = Len(prog[p])
                          THEN Min(t[p].tp_reg_list) ELSE NoRegion,
                ![p].try = y]
    BY <1>5, Zenon DEF TpHist
  <2>2. PICK pc \in {"check", "op"}, at \in t[p].tp_reg_list \union {NoRegion} :
          /\ t' = [t EXCEPT ![p].pc = pc, ![p].at = at, ![p].try = y]
          /\ pc = "check" => at \in t[p].tp_reg_list
          /\ pc = "op" => t[p].try.op # Len(prog[p])
    <3> HIDE DEF y
    <3>1. Min(t[p].tp_reg_list) \in t[p].tp_reg_list
      <4>1. t[p].tp_reg_list \subseteq Nat /\ t[p].tp_reg_list # {}
        BY <1>0, <1>2, RegionNumbers
      <4> QED BY <4>1, MinIsLeast
    <3>2. CASE t[p].try.op = Len(prog[p])
      BY <3>1, <3>2, <2>1 DEF y
    <3>3. CASE t[p].try.op # Len(prog[p])
      BY <3>3, <2>1 DEF y
    <3> QED BY <3>2, <3>3
  <2> DEFINE x == [t[p] EXCEPT !.pc = pc, !.at = at, !.try = y]
  <2>3. h \in [tn : Nat, cycle : Nat]
    <3>1. t[p].try.hist[b] \in [tn : Nat, cycle : Nat] /\ t[p].try.tn \in Nat
          /\ t[p].try.cycle \in Nat
      BY <1>0, <1>2 DEF Tries
    <3> QED BY <3>1 DEF HistEntry
  <2> DEFINE c == y.cw_set
  <2>20. c \in {t[p].try.cw_set, t[p].try.cw_set \union {b}}
    BY <1>0 DEF Tries
  <2>4. y \in Tries
    <3> DEFINE hs == [t[p].try.hist EXCEPT ![b] = h]
               rs == [t[p].try.rd EXCEPT ![b] = @ \union {t[p].try.val}]
               o == t[p].try.op + 1
    <3>1. hs \in [Blocks -> [tn : Nat, cycle : Nat]] /\ rs \in [Blocks -> SUBSET Vals]
      BY <1>0, <1>2, <2>3 DEF Tries
    <3>2. y = [t[p].try EXCEPT !.op = o, !.hist = hs, !.rd = rs, !.cw_set = c]
      BY <1>0 DEF Tries
    <3>3. o \in Nat /\ c \in SUBSET Blocks
      BY SMTT(30), <1>0, <1>2 DEF Tries
    <3>4. \A o1 \in Nat, hs1 \in [Blocks -> [tn : Nat, cycle : Nat]],
             rs1 \in [Blocks -> SUBSET Vals], c1 \in SUBSET Blocks :
            [t[p].try EXCEPT !.op = o1, !.hist = hs1, !.rd = rs1, !.cw_set = c1] \in Tries
      BY <1>0 DEF Tries
    <3> HIDE DEF hs, rs, o, c, y
    <3> QED BY <3>1, <3>2, <3>3, <3>4
  <2>5. t' = [t EXCEPT ![p] = x]
    <3> HIDE DEF y
    <3> QED BY <1>0, <2>2 DEF Types, TxnType, Txns
  <2>6. /\ y.op = t[p].try.op + 1 /\ y.start_tn = t[p].try.start_tn
        /\ y.hist = [t[p].try.hist EXCEPT ![b] = h]
        /\ y.cw_set = c /\ y.todo = t[p].try.todo /\ y.build = t[p].try.build
    BY <1>0 DEF Tries
  <2>7. \A a \in Blocks : y.hist[a] = IF a = b THEN h ELSE t[p].try.hist[a]
    BY <1>0, <2>6 DEF Tries
  <2> HIDE DEF y
  <2>8. x \in Txns
    BY <1>0, <2>4 DEF Txns, Points
  <2>9. Types' /\ Mine(p) /\ t'[p] = x
    <3> HIDE DEF x
    <3> QED BY <1>0, <1>1, <1>3, <2>5, <2>8, OwnStep DEF regVars, blkVars, histVars
  <2>10. /\ t'[p].pc = pc /\ t'[p].try = y /\ t'[p].at = at /\ t'[p].ret = t[p].ret
         /\ t'[p].tp_reg_list = t[p].tp_reg_list /\ t'[p].t_tries = t[p].t_tries
    BY <1>0, <2>9 DEF Txns
  <2> HIDE DEF x
  <2>11. Idle(p) /\ Idle(p)'
    BY <1>1, <2>10 DEF Idle, OpPoints
  <2>12. Quiet(p)
    BY <1>1, <2>11, IdleIs DEF Quiet, regVars, blkVars
  <2>13. Notes(p)'
    <3>1. Notes(p) /\ t[p].try.start_tn[Reg[b]] # NoTn
      BY <1>0, <1>1, <1>2 DEF Proc
    <3>2. \A a \in Blocks : y.hist[a] # NoHist => y.start_tn[Reg[a]] # NoTn
      BY <3>1, <2>6, <2>7 DEF Notes
    <3>3. /\ \A a \in c : y.start_tn[Reg[a]] # NoTn
          /\ y.todo \subseteq c /\ y.build \subseteq c
      BY <3>1, <2>6, <2>20 DEF Notes
    <3> QED BY <3>1, <3>2, <3>3, <2>6, <2>10 DEF Notes
  <2>14. Place(p)'
    <3>1. pc = "op" => y.op \in 1 .. Len(prog[p])
      BY <1>1, <1>2, <2>2, <2>6
    <3> QED BY <3>1, <1>0, <1>1, <1>2, <2>2, <2>10 DEF Proc, Place, OpPoints, CommitPoints,
        RecoveryPoints, RecoversFor
  <2>15. ASSUME FinalRetry(p)' PROVE FinalTry(p)'
    <3>1. FinalTry(p)
      BY <1>0, <2>10, <2>15 DEF Proc, FinalRetry
    <3>2. h.tn = curr_tn[Reg[b]] /\ h.cycle = cycle[b] /\ in_tend[b] = NoPid
      BY <1>1, <1>2, <3>1 DEF FinalTry, HistEntry, InTry, OpPoints
    <3> QED BY <3>1, <3>2, <1>1, <2>7, <2>10
            DEF FinalTry, InTry, OpPoints, RecoversFor, RecoveryPoints, regVars, blkVars, HasCrit
  <2> QED BY <2>9, <2>11, <2>12, <2>13, <2>14, <2>15, IdleIs, CombineQuiet DEF Proc
<1> QED BY <1>4, <1>5

----------------------------------------------------------------------------
(* Validation.                                                             *)

\* The loop over the regions outside crit.
LEMMA CheckRegionInv == ASSUME IInv, NEW p \in Pids, CheckRegion(p) PROVE IInv'
<1> USE DEF At
<1> DEFINE r == t[p].at
<1>0. /\ Types /\ Proc(p) /\ t[p] \in Txns /\ t[p].try \in Tries
      /\ t[p].tp_reg_list \subseteq Regions
  BY Known
<1>1. /\ t[p].pc = "check" /\ r \in t[p].tp_reg_list
      /\ UNCHANGED <<prog, curr_tn, early_tn, wc_blocked, last_wcs_recover_tn, pidcnt,
                     bt, buf, in_tend, cycle, stopped, before>>
  BY <1>0 DEF CheckRegion, Proc, Place, blkVars
<1>2. crit \in [Regions -> Pids \union {NoPid}] /\ r \in Regions
  BY <1>0, <1>1 DEF Types, RegTypes
<1>3. Idle(p)
  BY <1>1 DEF Idle
<1>4. CASE Fail(p, r, "helpedout") /\ UNCHANGED <<crit, log>>
  <2> DEFINE x == [t[p] EXCEPT !.pc = "restart", !.at = r, !.status = "helpedout"]
  <2>1. t' = [t EXCEPT ![p] = x]
    BY <1>0, <1>4 DEF Fail, Types, TxnType, Txns
  <2>2. x \in Txns
    BY <1>0, <1>2 DEF Txns, Points, Codes
  <2>3. Types' /\ Mine(p) /\ t'[p] = x
    <3> HIDE DEF x
    <3> QED BY <1>0, <1>1, <1>2, <1>4, <2>1, <2>2, OwnStep
  <2>4. /\ t'[p].pc = "restart" /\ t'[p].try = t[p].try /\ t'[p].at = r
        /\ t'[p].tp_reg_list = t[p].tp_reg_list /\ t'[p].status = "helpedout"
    BY <1>0, <2>3 DEF Txns
  <2> HIDE DEF x
  <2>5. Idle(p)'
    BY <2>4 DEF Idle
  <2>6. Quiet(p)
    BY <1>1, <1>3, <2>5, IdleIs DEF Quiet
  <2>7. Notes(p)' /\ Place(p)'
    BY <1>0, <1>1, <2>4 DEF Proc, Notes, Place, OpPoints, CommitPoints, RecoveryPoints,
        RecoversFor
  <2>8. FinalTry(p)'
    BY <2>4 DEF FinalTry, InTry, OpPoints, RecoversFor, RecoveryPoints
  <2> QED BY <2>3, <2>5, <2>6, <2>7, <2>8, IdleIs, CombineQuiet DEF Proc
<1>5. ASSUME NEW dv \in BOOLEAN, NextReg(p, r) # NoRegion, UNCHANGED <<crit, log>>,
             t' = [t EXCEPT ![p].at = NextReg(p, r), ![p].try.do_validation = dv]
      PROVE  IInv'
  <2> DEFINE n == NextReg(p, r)
             y == [t[p].try EXCEPT !.do_validation = dv]
             x == [t[p] EXCEPT !.at = n, !.try = y]
  <2>0. n \in t[p].tp_reg_list
    BY <1>0, <1>2, <1>5, NextRegIs
  <2> HIDE DEF n
  <2>1. y \in Tries
    BY <1>0 DEF Tries
  <2>2. t' = [t EXCEPT ![p] = x]
    BY <1>0, <1>5 DEF Types, TxnType, Txns, n
  <2>3. /\ y.op = t[p].try.op /\ y.start_tn = t[p].try.start_tn /\ y.hist = t[p].try.hist
        /\ y.cw_set = t[p].try.cw_set /\ y.todo = t[p].try.todo /\ y.build = t[p].try.build
    BY <1>0 DEF Tries
  <2> HIDE DEF y
  <2>4. x \in Txns
    BY <1>0, <2>0, <2>1 DEF Txns
  <2>5. Types' /\ Mine(p) /\ t'[p] = x
    <3> HIDE DEF x
    <3> QED BY <1>0, <1>1, <1>2, <1>5, <2>2, <2>4, OwnStep
  <2>6. /\ t'[p].pc = "check" /\ t'[p].try = y /\ t'[p].at = n
        /\ t'[p].tp_reg_list = t[p].tp_reg_list /\ t'[p].t_tries = t[p].t_tries
    BY <1>0, <1>1, <2>5 DEF Txns
  <2> HIDE DEF x
  <2>7. Idle(p)'
    BY <2>6 DEF Idle
  <2>8. Quiet(p)
    BY <1>1, <1>3, <2>7, IdleIs DEF Quiet
  <2>9. Notes(p)' /\ Place(p)'
    BY <1>0, <1>1, <2>0, <2>3, <2>6 DEF Proc, Notes, Place, OpPoints, CommitPoints,
        RecoveryPoints, RecoversFor
  <2>10. FinalRetry(p)' => FinalTry(p)'
    BY <1>0, <1>1, <1>5, <2>3, <2>6 DEF Proc, FinalRetry, FinalTry, InTry, OpPoints,
        RecoversFor, RecoveryPoints, HasCrit
  <2> QED BY <2>5, <2>7, <2>8, <2>9, <2>10, IdleIs, CombineQuiet DEF Proc
<1>6. CASE /\ t' = [t EXCEPT ![p].pc = "crit", ![p].at = FirstReg(p)]
           /\ UNCHANGED <<crit, log>>
  <2> DEFINE n == FirstReg(p)
             x == [t[p] EXCEPT !.pc = "crit", !.at = n]
  <2>0. n \in t[p].tp_reg_list /\ \A s \in t[p].tp_reg_list : n <= s
    BY <1>0, <1>1, FirstRegIs
  <2>1. t' = [t EXCEPT ![p] = x]
    BY <1>0, <1>6 DEF Types, TxnType, Txns
  <2> HIDE DEF n
  <2>2. x \in Txns
    BY <1>0, <2>0 DEF Txns, Points
  <2>3. Types' /\ Mine(p) /\ t'[p] = x
    <3> HIDE DEF x
    <3> QED BY <1>0, <1>1, <1>2, <1>6, <2>1, <2>2, OwnStep
  <2>4. /\ t'[p].pc = "crit" /\ t'[p].try = t[p].try /\ t'[p].at = n
        /\ t'[p].tp_reg_list = t[p].tp_reg_list /\ t'[p].t_tries = t[p].t_tries
    BY <1>0, <2>3 DEF Txns
  <2> HIDE DEF x
  <2>5. Quiet(p)
    BY <1>1, <1>3, <2>4, IdleIs DEF Quiet, Ahead
  <2>6. Notes(p)' /\ Place(p)'
    BY <1>0, <1>1, <2>0, <2>4 DEF Proc, Notes, Place, OpPoints, CommitPoints,
        RecoveryPoints, RecoversFor
  <2>7. Crits(p)' /\ OwnTn(p)'
    <3>1. \A s \in t[p].tp_reg_list : ~(s < n)
      BY <1>0, <2>0, RegionNumbers
    <3> QED BY <3>1, <2>4 DEF Crits, OwnTn, CommitPoints, RecoversFor, RecoveryPoints
  <2>8. FinalRetry(p)' => FinalTry(p)'
    BY <1>0, <1>1, <1>6, <2>4 DEF Proc, FinalRetry, FinalTry, InTry, OpPoints,
        RecoversFor, RecoveryPoints, HasCrit
  <2> QED BY <2>3, <2>5, <2>6, <2>7, <2>8, CombineQuiet DEF Proc
<1>7. CASE RelCrit(p, t[p].tp_reg_list) /\ AddToLog(p) /\ Go(p, "done")
  <2> DEFINE x == [t[p] EXCEPT !.pc = "done"]
  <2>1. t' = [t EXCEPT ![p] = x]
    BY <1>0, <1>7 DEF Go, Types, TxnType, Txns
  <2>2. x \in Txns
    BY <1>0 DEF Txns, Points
  <2>3. Types' /\ Mine(p) /\ t'[p] = x
    <3>1. HistTypes'
      BY <1>0, <1>1, <1>7, AddToLogIs
    <3>2. /\ crit' \in [Regions -> Pids \union {NoPid}]
          /\ \A s \in Regions : \/ crit'[s] = crit[s]
                                \/ crit[s] \in {p, NoPid} /\ crit'[s] \in {p, NoPid}
      BY <1>0, <1>7, RelCritIs
    <3> HIDE DEF x
    <3> QED BY <3>1, <3>2, <1>0, <1>1, <2>1, <2>2, LoggedStep
  <2>4. /\ t'[p].pc = "done" /\ t'[p].try = t[p].try
        /\ t'[p].tp_reg_list = t[p].tp_reg_list
    BY <1>0, <2>3 DEF Txns
  <2> HIDE DEF x
  <2>5. Idle(p)'
    BY <2>4 DEF Idle
  <2>6. Quiet(p)
    BY <1>1, <1>3, <2>5, IdleIs DEF Quiet
  <2>7. Notes(p)' /\ Place(p)'
    BY <1>0, <2>4 DEF Proc, Notes, Place, OpPoints, CommitPoints, RecoveryPoints, RecoversFor
  <2>8. FinalTry(p)'
    BY <2>4 DEF FinalTry, InTry, OpPoints, RecoversFor, RecoveryPoints
  <2> QED BY <2>3, <2>5, <2>6, <2>7, <2>8, IdleIs, CombineQuiet DEF Proc
<1>8. (t[p].try.do_validation \/ NeedsValidation(p, r)) \in BOOLEAN
  BY <1>0 DEF Tries
<1> QED BY <1>4, <1>5, <1>6, <1>7, <1>8 DEF CheckRegion

\* Step CMT01.  In the final retry crit is held already.
LEMMA TpTendGrabCritInv == ASSUME IInv, NEW p \in Pids, TpTendGrabCrit(p) PROVE IInv'
<1> USE DEF At
<1> DEFINE r == t[p].at
<1>0. /\ Types /\ Proc(p) /\ t[p] \in Txns /\ t[p].try \in Tries
      /\ t[p].tp_reg_list \subseteq Regions
  BY Known
<1>1. /\ t[p].pc = "crit" /\ r \in t[p].tp_reg_list /\ r \in Regions
      /\ UNCHANGED <<prog, curr_tn, early_tn, wc_blocked, last_wcs_recover_tn, pidcnt,
                     bt, buf, in_tend, cycle, stopped, before, log>>
      /\ GrabCrit(p, r, "validate")
  BY <1>0 DEF TpTendGrabCrit, Proc, Place, blkVars, histVars
<1>2. PICK pc \in {"recover", "validate"} :
        t' = [t EXCEPT ![p].pc = pc, ![p].at = r, ![p].ret = "validate"]
  BY <1>1, Zenon DEF GrabCrit
<1>3. /\ crit[r] = NoPid
      /\ crit' \in [Regions -> Pids \union {NoPid}]
      /\ \A s \in Regions : \/ crit'[s] = crit[s]
                            \/ crit[s] \in {p, NoPid} /\ crit'[s] \in {p, NoPid}
      /\ \A s \in Regions : HasCrit(p, s)' <=> HasCrit(p, s) \/ s = r
  BY <1>0, <1>1, GrabCritIs
<1>4. ~FinalRetry(p)
  BY <1>0, <1>1, <1>3, TpCommitAssumption DEF Proc, FinalTry, InTry, HasCrit
<1> DEFINE x == [t[p] EXCEPT !.pc = pc, !.at = r, !.ret = "validate"]
<1>5. t' = [t EXCEPT ![p] = x] /\ x \in Txns
  <2>1. t' = [t EXCEPT ![p] = x]
    BY <1>0, <1>2 DEF Types, TxnType, Txns
  <2>2. x \in Txns
    BY <1>0 DEF Txns, Points, RecoveryPoints
  <2> QED BY <2>1, <2>2
<1>6. Types' /\ Mine(p) /\ t'[p] = x
  <2> HIDE DEF x
  <2> QED BY <1>0, <1>1, <1>3, <1>5, OwnStep
<1>7. /\ t'[p].pc = pc /\ t'[p].try = t[p].try /\ t'[p].at = r /\ t'[p].ret = "validate"
      /\ t'[p].tp_reg_list = t[p].tp_reg_list /\ t'[p].t_tries = t[p].t_tries
  BY <1>0, <1>6 DEF Txns
<1> HIDE DEF x
<1>8. Quiet(p)
  BY <1>1, <1>7 DEF Quiet, Ahead, Settling
<1>9. Notes(p)' /\ Place(p)'
  BY <1>0, <1>1, <1>3, <1>7 DEF Proc, Notes, Place, OpPoints, CommitPoints,
      RecoveryPoints, RecoversFor
<1>10. Crits(p)' /\ OwnTn(p)'
  <2>1. \A s \in t[p].tp_reg_list : s <= r => s < r \/ s = r
    BY <1>0, <1>1, RegionNumbers
  <2>2. \A s \in t[p].tp_reg_list : s < r => HasCrit(p, s)
    BY <1>0, <1>1 DEF Proc, Crits
  <2> QED BY <2>1, <2>2, <1>0, <1>3, <1>7 DEF Crits, OwnTn, CommitPoints, RecoversFor,
          RecoveryPoints
<1> QED BY <1>4, <1>6, <1>7, <1>8, <1>9, <1>10, CombineQuiet DEF Proc, FinalRetry

\* A transaction that fails keeps its crits, or gives some up.
LEMMA FailedIs ==
    ASSUME Types, NEW p \in Pids, NEW r, NEW code, Failed(p, r, code)
    PROVE  /\ t' = [t EXCEPT ![p].pc = "restart", ![p].at = r, ![p].status = code]
           /\ crit' \in [Regions -> Pids \union {NoPid}]
           /\ \A s \in Regions : \/ crit'[s] = crit[s]
                                 \/ crit[s] \in {p, NoPid} /\ crit'[s] \in {p, NoPid}
<1>1. CASE RelCrit(p, {s \in t[p].tp_reg_list : s <= r})
  BY <1>1, RelCritIs DEF Failed, Fail
<1>2. CASE UNCHANGED crit
  BY <1>2 DEF Failed, Fail, Types, RegTypes
<1> QED BY <1>1, <1>2 DEF Failed

\* A failure during validation with a code that the final retry may have.
LEMMA FailedInv ==
    ASSUME IInv, NEW p \in Pids, t[p].pc \in {"crit", "validate"},
           NEW r \in t[p].tp_reg_list, NEW code \in Codes, Failed(p, r, code),
           FinalRetry(p) => code = "helpedout",
           UNCHANGED <<prog, curr_tn, early_tn, wc_blocked, last_wcs_recover_tn, pidcnt,
                       bt, buf, in_tend, cycle, stopped, before, log>>
    PROVE  IInv'
<1> USE DEF At
<1>0. /\ Types /\ Proc(p) /\ t[p] \in Txns /\ t[p].try \in Tries
      /\ t[p].tp_reg_list \subseteq Regions
  BY Known
<1> DEFINE x == [t[p] EXCEPT !.pc = "restart", !.at = r, !.status = code]
<1>1. /\ t' = [t EXCEPT ![p].pc = "restart", ![p].at = r, ![p].status = code]
      /\ crit' \in [Regions -> Pids \union {NoPid}]
      /\ \A s \in Regions : \/ crit'[s] = crit[s]
                            \/ crit[s] \in {p, NoPid} /\ crit'[s] \in {p, NoPid}
  BY <1>0, FailedIs
<1>2. t' = [t EXCEPT ![p] = x]
  BY <1>0, <1>1 DEF Types, TxnType, Txns
<1>3. x \in Txns
  BY <1>0 DEF Txns, Points
<1>4. Types' /\ Mine(p) /\ t'[p] = x
  <2> HIDE DEF x
  <2> QED BY <1>0, <1>1, <1>2, <1>3, OwnStep
<1>5. /\ t'[p].pc = "restart" /\ t'[p].try = t[p].try /\ t'[p].at = r
      /\ t'[p].tp_reg_list = t[p].tp_reg_list /\ t'[p].status = code
      /\ t'[p].t_tries = t[p].t_tries
  BY <1>0, <1>4 DEF Txns
<1> HIDE DEF x
<1>6. Idle(p)'
  BY <1>5 DEF Idle
<1>7. Quiet(p)
  BY <1>5 DEF Quiet, Ahead, Settling
<1>8. Notes(p)' /\ Place(p)'
  BY <1>0, <1>5 DEF Proc, Notes, Place, OpPoints, CommitPoints, RecoveryPoints, RecoversFor
<1>9. FinalRetry(p)' => FinalTry(p)'
  BY <1>5 DEF FinalRetry, FinalTry, InTry, OpPoints, RecoversFor, RecoveryPoints
<1> QED BY <1>4, <1>6, <1>7, <1>8, <1>9, IdleIs, CombineQuiet DEF Proc

\* A region whose crit is held.
LEMMA TpTendHasCritInv == ASSUME IInv, NEW p \in Pids, TpTendHasCrit(p) PROVE IInv'
<1> USE DEF At
<1> DEFINE r == t[p].at
<1>0. /\ Types /\ Proc(p) /\ t[p] \in Txns /\ t[p].try \in Tries
      /\ t[p].tp_reg_list \subseteq Regions
  BY Known
<1>1. /\ t[p].pc = "crit" /\ r \in t[p].tp_reg_list /\ r \in Regions /\ HasCrit(p, r)
      /\ UNCHANGED <<prog, curr_tn, early_tn, wc_blocked, last_wcs_recover_tn, pidcnt,
                     bt, buf, in_tend, cycle, stopped, before, log>>
  BY <1>0 DEF TpTendHasCrit, Proc, Place, blkVars, histVars
<1>2. CASE Failed(p, r, "helpedout")
  BY <1>1, <1>2, FailedInv DEF Codes
<1>3. CASE Go(p, "validate") /\ UNCHANGED crit
  <2> DEFINE x == [t[p] EXCEPT !.pc = "validate"]
  <2>1. t' = [t EXCEPT ![p] = x]
    BY <1>0, <1>3 DEF Go, Types, TxnType, Txns
  <2>2. x \in Txns
    BY <1>0 DEF Txns, Points
  <2>3. crit \in [Regions -> Pids \union {NoPid}]
    BY <1>0 DEF Types, RegTypes
  <2>4. Types' /\ Mine(p) /\ t'[p] = x
    <3> HIDE DEF x
    <3> QED BY <1>0, <1>1, <1>3, <2>1, <2>2, <2>3, OwnStep
  <2>5. /\ t'[p].pc = "validate" /\ t'[p].try = t[p].try /\ t'[p].at = r
        /\ t'[p].tp_reg_list = t[p].tp_reg_list /\ t'[p].t_tries = t[p].t_tries
    BY <1>0, <2>4 DEF Txns
  <2> HIDE DEF x
  <2>6. Quiet(p)
    BY <1>1, <2>5 DEF Quiet, Ahead, Settling
  <2>7. Notes(p)' /\ Place(p)'
    BY <1>0, <1>1, <2>5 DEF Proc, Notes, Place, OpPoints, CommitPoints, RecoveryPoints,
        RecoversFor
  <2>8. Crits(p)' /\ OwnTn(p)'
    <3>1. \A s \in t[p].tp_reg_list : s <= r => s < r \/ s = r
      BY <1>0, <1>1, RegionNumbers
    <3>2. \A s \in t[p].tp_reg_list : s < r => HasCrit(p, s)
      BY <1>0, <1>1 DEF Proc, Crits
    <3> QED BY <3>1, <3>2, <1>1, <1>3, <2>5 DEF Crits, OwnTn, CommitPoints, RecoversFor,
            RecoveryPoints, HasCrit
  <2>9. FinalRetry(p)' => FinalTry(p)'
    BY <1>0, <1>1, <1>3, <2>5 DEF Proc, FinalRetry, FinalTry, InTry, OpPoints,
        RecoversFor, RecoveryPoints, HasCrit
  <2> QED BY <2>4, <2>6, <2>7, <2>8, <2>9, CombineQuiet DEF Proc
<1> QED BY <1>2, <1>3 DEF TpTendHasCrit

\* In the final retry validation cannot fail.
LEMMA ValidationStatusIs ==
    ASSUME IInv, NEW p \in Pids, At(p, "validate")
    PROVE  /\ ValidationStatus(p, t[p].at) \in Codes
           /\ FinalRetry(p) => ValidationStatus(p, t[p].at) = "normal"
<1> USE DEF At
<1> DEFINE r == t[p].at
<1>0. /\ Types /\ Proc(p) /\ t[p].tp_reg_list \subseteq Regions /\ t[p].try \in Tries
  BY Known
<1>1. r \in t[p].tp_reg_list /\ r \in Regions
  BY <1>0 DEF Proc, Place
<1>2. ValidationStatus(p, r) \in Codes
  BY DEF ValidationStatus, Codes
<1>3. ASSUME FinalRetry(p) PROVE ValidationStatus(p, r) = "normal"
  <2>1. FinalTry(p)
    BY <1>0, <1>3 DEF Proc
  <2>2. ASSUME NEW b \in InHist(p, r)
        PROVE  ~(t[p].try.hist[b].tn <= bt[b]) /\ t[p].try.hist[b].cycle = cycle[b]
    <3>1. b \in Blocks /\ Reg[b] = r /\ t[p].try.hist[b] # NoHist
      BY DEF InHist, BlocksOf
    <3>2. t[p].try.hist[b].tn = curr_tn[r] /\ t[p].try.hist[b].cycle = cycle[b]
          /\ crit[r] = p
      BY <1>1, <2>1, <3>1 DEF FinalTry, InTry, HasCrit
    <3>3. bt[b] <= curr_tn[r] /\ bt[b] # curr_tn[r]
      BY <3>1, <3>2 DEF IInv, BlkTn, Settling
    <3>4. bt[b] \in Nat /\ curr_tn[r] \in Nat
      BY <1>0, <1>1, <3>1 DEF Types, BlkTypes, RegTypes
    <3> QED BY <3>2, <3>3, <3>4
  <2> QED BY <2>2 DEF ValidationStatus
<1> QED BY <1>2, <1>3

\* Validation of a region: on to the next one, to the commit, or a restart.
LEMMA ValidateInv == ASSUME IInv, NEW p \in Pids, Validate(p) PROVE IInv'
<1> USE DEF At
<1> DEFINE r == t[p].at
           n == NextReg(p, r)
<1>0. /\ Types /\ Proc(p) /\ t[p] \in Txns /\ t[p].try \in Tries
      /\ t[p].tp_reg_list \subseteq Regions
  BY Known
<1>1. /\ t[p].pc = "validate" /\ r \in t[p].tp_reg_list /\ r \in Regions
      /\ UNCHANGED <<prog, curr_tn, early_tn, wc_blocked, last_wcs_recover_tn, pidcnt,
                     bt, buf, in_tend, cycle, stopped, before, log>>
  BY <1>0 DEF Validate, Proc, Place, blkVars, histVars
<1>2. CASE ValidationStatus(p, r) # "normal"
  <2>1. Failed(p, r, ValidationStatus(p, r))
    BY <1>2 DEF Validate
  <2>2. ValidationStatus(p, r) \in Codes /\ ~FinalRetry(p)
    BY <1>1, <1>2, ValidationStatusIs
  <2> QED BY <1>1, <2>1, <2>2, FailedInv
<1>3. CASE ValidationStatus(p, r) = "normal"
  <2>0. /\ n \in t[p].tp_reg_list \union {NoRegion}
        /\ n = NoRegion => \A s \in t[p].tp_reg_list : s <= r
        /\ n # NoRegion => n > r /\ \A s \in t[p].tp_reg_list : s > r => s >= n
    BY <1>0, <1>1, NextRegIs
  <2>1. FirstReg(p) \in t[p].tp_reg_list /\ \A s \in t[p].tp_reg_list : FirstReg(p) <= s
    BY <1>0, <1>1, FirstRegIs
  <2>2. PICK pc \in {"cmt04", "crit"}, a \in t[p].tp_reg_list :
          /\ t' = [t EXCEPT ![p].pc = pc, ![p].at = a] /\ crit' = crit
          /\ pc = "cmt04" => n = NoRegion /\ a = FirstReg(p)
          /\ pc = "crit" => n # NoRegion /\ a = n
    <3>1. CASE n = NoRegion
      BY <1>3, <2>0, <2>1, <3>1 DEF Validate
    <3>2. CASE n # NoRegion
      BY <1>3, <2>0, <2>1, <3>2 DEF Validate
    <3> QED BY <3>1, <3>2
  <2> HIDE DEF n
  <2> DEFINE x == [t[p] EXCEPT !.pc = pc, !.at = a]
  <2>3. t' = [t EXCEPT ![p] = x]
    BY <1>0, <2>2 DEF Types, TxnType, Txns
  <2>4. x \in Txns
    BY <1>0 DEF Txns, Points
  <2>5. crit \in [Regions -> Pids \union {NoPid}]
    BY <1>0 DEF Types, RegTypes
  <2>6. Types' /\ Mine(p) /\ t'[p] = x
    <3> HIDE DEF x
    <3> QED BY <1>0, <1>1, <2>2, <2>3, <2>4, <2>5, OwnStep
  <2>7. /\ t'[p].pc = pc /\ t'[p].try = t[p].try /\ t'[p].at = a
        /\ t'[p].tp_reg_list = t[p].tp_reg_list /\ t'[p].t_tries = t[p].t_tries
    BY <1>0, <2>6 DEF Txns
  <2> HIDE DEF x
  <2>8. \A s \in t[p].tp_reg_list : s <= r => HasCrit(p, s)
    BY <1>0, <1>1 DEF Proc, Crits
  <2>9. Quiet(p)
    <3>1. \A s \in Regions : Updated(p, s) => s \in t[p].tp_reg_list
      BY <1>0, UpdatedIs DEF Proc
    <3>2. \A s \in t[p].tp_reg_list : pc = "cmt04" => ~(s < a) /\ a # NoRegion
      BY <1>0, <2>1, <2>2, RegionNumbers
    <3>3. \A s \in Regions : Updated(p, s)' <=> Updated(p, s)
      BY <2>7 DEF Updated
    <3>4. \A s \in Regions : ~Ahead(p, s)'
      BY <3>1, <3>2, <3>3, <2>7 DEF Ahead
    <3> QED BY <3>4, <1>1 DEF Quiet, Ahead, Settling
  <2>10. Notes(p)' /\ Place(p)'
    BY <1>0, <1>1, <2>7 DEF Proc, Notes, Place, OpPoints, CommitPoints, RecoveryPoints,
        RecoversFor
  <2>11. Crits(p)' /\ OwnTn(p)'
    <3>1. pc = "cmt04" => \A s \in t[p].tp_reg_list : HasCrit(p, s)
      BY <2>0, <2>2, <2>8
    <3>2. pc = "crit" => \A s \in t[p].tp_reg_list : s < a => HasCrit(p, s)
      <4>1. \A s \in t[p].tp_reg_list : pc = "crit" /\ s < a => s <= r
        BY <1>0, <1>1, <2>0, <2>2, RegionNumbers
      <4> QED BY <4>1, <2>8
    <3> QED BY <3>1, <3>2, <2>2, <2>7 DEF Crits, OwnTn, CommitPoints, RecoversFor,
            RecoveryPoints, HasCrit
  <2>12. FinalRetry(p)' => FinalTry(p)'
    BY <1>0, <1>1, <2>2, <2>7 DEF Proc, FinalRetry, FinalTry, InTry, OpPoints,
        RecoversFor, RecoveryPoints, HasCrit
  <2> QED BY <2>6, <2>9, <2>10, <2>11, <2>12, CombineQuiet DEF Proc
<1> QED BY <1>2, <1>3

----------------------------------------------------------------------------
(* tp_restart.                                                             *)

\* What a try starts with.
LEMMA FreshTryIs ==
    /\ FreshTry \in Tries /\ FreshTry.op = 1
    /\ FreshTry.start_tn = [r \in Regions |-> NoTn]
    /\ FreshTry.hist = [b \in Blocks |-> NoHist]
    /\ FreshTry.cw_set = {} /\ FreshTry.todo = {} /\ FreshTry.build = {}
BY DEF FreshTry, Tries, NoTn, NoHist, Vals

\* The next try.
LEMMA NextTryInv ==
    ASSUME IInv, NEW p \in Pids, t[p].pc \in {"helped", "restart"},
           NextTry(p, IF FinalRetry(p) THEN CDB_STAGNATE ELSE t[p].t_tries + 1),
           crit' \in [Regions -> Pids \union {NoPid}],
           \A r \in Regions : \/ crit'[r] = crit[r]
                              \/ crit[r] \in {p, NoPid} /\ crit'[r] \in {p, NoPid},
           UNCHANGED <<prog, curr_tn, early_tn, wc_blocked, last_wcs_recover_tn, pidcnt,
                       bt, buf, in_tend, cycle, stopped, before, log>>
    PROVE  IInv'
<1> USE DEF At
<1>0. /\ Types /\ Proc(p) /\ t[p] \in Txns /\ t[p].try \in Tries
      /\ t[p].tp_reg_list \subseteq Regions
  BY Known
<1> DEFINE n == IF FinalRetry(p) THEN CDB_STAGNATE ELSE t[p].t_tries + 1
<1>1. n \in 0 .. CDB_STAGNATE
  BY <1>0, TpCommitAssumption DEF Txns, FinalRetry
<1>2. PICK pc \in {"crit_all", "op"} :
        /\ t' = [t EXCEPT ![p].pc = pc, ![p].at = NoRegion, ![p].ret = "none",
                          ![p].status = "normal", ![p].try = FreshTry, ![p].t_tries = n]
        /\ pc = "op" => n # CDB_STAGNATE
  BY DEF NextTry
<1> HIDE DEF n
<1> DEFINE x == [t[p] EXCEPT !.pc = pc, !.at = NoRegion, !.ret = "none",
                             !.status = "normal", !.try = FreshTry, !.t_tries = n]
<1>3. t' = [t EXCEPT ![p] = x]
  BY <1>0, <1>2 DEF Types, TxnType, Txns
<1>4. x \in Txns
  BY <1>0, <1>1, FreshTryIs DEF Txns, Points, Codes
<1>5. Types' /\ Mine(p) /\ t'[p] = x
  <2> HIDE DEF x
  <2> QED BY <1>0, <1>3, <1>4, OwnStep
<1>6. /\ t'[p].pc = pc /\ t'[p].try = FreshTry /\ t'[p].t_tries = n
      /\ t'[p].tp_reg_list = t[p].tp_reg_list
  BY <1>0, <1>5 DEF Txns
<1> HIDE DEF x
<1>7. Idle(p) /\ Idle(p)'
  BY <1>6 DEF Idle
<1>8. Quiet(p)
  BY <1>7, IdleIs DEF Quiet
<1>9. Notes(p)'
  <2>1. \A b \in Blocks : Reg[b] \in Regions
    BY TpCommitAssumption
  <2> QED BY <2>1, <1>6, FreshTryIs DEF Notes
<1>10. Place(p)'
  <2>1. 1 <= Len(prog[p])
    BY <1>0 DEF Proc, Place
  <2>2. prog[p] \in Seq([blk : Blocks, upd : BOOLEAN])
    BY Known
  <2>3. 1 \in 1 .. Len(prog[p])
    BY <2>1, <2>2
  <2> QED BY <2>1, <2>3, <1>6, FreshTryIs DEF Place, OpPoints, CommitPoints, RecoveryPoints,
          RecoversFor
<1>11. FinalRetry(p)' => FinalTry(p)'
  <2>1. FinalRetry(p)' => pc = "crit_all"
    BY <1>1, <1>2, <1>6, TpCommitAssumption DEF FinalRetry
  <2> QED BY <2>1, <1>6 DEF FinalTry, InTry, OpPoints, RecoversFor, RecoveryPoints
<1> QED BY <1>5, <1>7, <1>8, <1>9, <1>10, <1>11, IdleIs, CombineQuiet DEF Proc

\* tp_restart after the cache was recovered.
LEMMA HelpedInv == ASSUME IInv, NEW p \in Pids, Helped(p) PROVE IInv'
<1>1. Types
  BY Known
<1>2. /\ crit' \in [Regions -> Pids \union {NoPid}]
      /\ \A r \in Regions : \/ crit'[r] = crit[r]
                            \/ crit[r] \in {p, NoPid} /\ crit'[r] \in {p, NoPid}
  <2> DEFINE rs == IF FinalRetry(p) THEN t[p].tp_reg_list ELSE {t[p].at}
  <2>1. RelCrit(p, rs)
    BY DEF Helped
  <2> HIDE DEF rs
  <2> QED BY <1>1, <2>1, RelCritIs
<1>3. t[p].pc = "helped"
  BY DEF Helped, At
<1>4. UNCHANGED <<prog, curr_tn, early_tn, wc_blocked, last_wcs_recover_tn, pidcnt,
                  bt, buf, in_tend, cycle, stopped, before, log>>
  BY DEF Helped, blkVars, histVars
<1> QED BY <1>2, <1>3, <1>4, NextTryInv DEF Helped

\* tp_restart for the other codes.
LEMMA RestartInv == ASSUME IInv, NEW p \in Pids, Restart(p) PROVE IInv'
<1>1. Types
  BY Known
<1>2. /\ crit' \in [Regions -> Pids \union {NoPid}]
      /\ \A r \in Regions : \/ crit'[r] = crit[r]
                            \/ crit[r] \in {p, NoPid} /\ crit'[r] \in {p, NoPid}
  <2>1. CASE RelCrit(p, t[p].tp_reg_list)
    BY <1>1, <2>1, RelCritIs
  <2>2. CASE UNCHANGED crit
    BY <1>1, <2>2 DEF Types, RegTypes
  <2> QED BY <2>1, <2>2 DEF Restart
<1>3. t[p].pc = "restart"
  BY DEF Restart, At
<1>4. UNCHANGED <<prog, curr_tn, early_tn, wc_blocked, last_wcs_recover_tn, pidcnt,
                  bt, buf, in_tend, cycle, stopped, before, log>>
  BY DEF Restart, blkVars, histVars
<1> QED BY <1>2, <1>3, <1>4, NextTryInv DEF Restart

\* tp_restart gets crit, or has it, to recover the cache.
LEMMA HelpOutInv == ASSUME IInv, NEW p \in Pids, HelpOut(p) PROVE IInv'
<1> USE DEF At
<1> DEFINE r == t[p].at
<1>0. /\ Types /\ Proc(p) /\ t[p] \in Txns /\ t[p].try \in Tries
      /\ t[p].tp_reg_list \subseteq Regions
  BY Known
<1>1. /\ t[p].pc = "restart" /\ r \in t[p].tp_reg_list /\ r \in Regions
      /\ UNCHANGED <<prog, curr_tn, early_tn, wc_blocked, last_wcs_recover_tn, pidcnt,
                     bt, buf, in_tend, cycle, stopped, before, log>>
  BY <1>0 DEF HelpOut, Proc, Place, blkVars, histVars
<1>2. PICK pc \in {"recover", "helped"} :
        t' = [t EXCEPT ![p].pc = pc, ![p].at = r, ![p].ret = "helped"]
  <2>1. CASE GrabCrit(p, r, "helped")
    BY <2>1, Zenon DEF GrabCrit
  <2>2. CASE t' = [t EXCEPT ![p].pc = "recover", ![p].ret = "helped"]
    BY <1>0, <2>2 DEF Types, TxnType, Txns
  <2> QED BY <2>1, <2>2 DEF HelpOut
<1>3. /\ crit' \in [Regions -> Pids \union {NoPid}]
      /\ \A s \in Regions : \/ crit'[s] = crit[s]
                            \/ crit[s] \in {p, NoPid} /\ crit'[s] \in {p, NoPid}
      /\ \A s \in Regions : s = r => HasCrit(p, s)'
  <2>1. CASE GrabCrit(p, r, "helped")
    BY <1>0, <1>1, <2>1, GrabCritIs
  <2>2. CASE HasCrit(p, r) /\ UNCHANGED crit
    BY <1>0, <2>2 DEF Types, RegTypes, HasCrit
  <2> QED BY <2>1, <2>2 DEF HelpOut
<1> DEFINE x == [t[p] EXCEPT !.pc = pc, !.at = r, !.ret = "helped"]
<1>4. t' = [t EXCEPT ![p] = x]
  BY <1>0, <1>2 DEF Types, TxnType, Txns
<1>5. x \in Txns
  BY <1>0 DEF Txns, Points, RecoveryPoints
<1>6. Types' /\ Mine(p) /\ t'[p] = x
  <2> HIDE DEF x
  <2> QED BY <1>0, <1>1, <1>3, <1>4, <1>5, OwnStep
<1>7. /\ t'[p].pc = pc /\ t'[p].try = t[p].try /\ t'[p].at = r /\ t'[p].ret = "helped"
      /\ t'[p].tp_reg_list = t[p].tp_reg_list
  BY <1>0, <1>6 DEF Txns
<1> HIDE DEF x
<1>8. Idle(p) /\ Idle(p)'
  BY <1>1, <1>7 DEF Idle
<1>9. Quiet(p)
  BY <1>1, <1>8, IdleIs DEF Quiet
<1>10. Notes(p)' /\ Place(p)'
  BY <1>0, <1>1, <1>3, <1>7 DEF Proc, Notes, Place, OpPoints, CommitPoints,
      RecoveryPoints, RecoversFor
<1>11. FinalTry(p)'
  BY <1>7 DEF FinalTry, InTry, OpPoints, RecoversFor, RecoveryPoints
<1> QED BY <1>6, <1>8, <1>9, <1>10, <1>11, IdleIs, CombineQuiet DEF Proc

\* tp_crit_all_regions.
LEMMA TpCritAllRegionsInv == ASSUME IInv, NEW p \in Pids, TpCritAllRegions(p) PROVE IInv'
<1> USE DEF At
<1>0. /\ Types /\ Proc(p) /\ t[p] \in Txns /\ t[p].try \in Tries
      /\ t[p].tp_reg_list \subseteq Regions
  BY Known
<1>1. /\ t[p].pc = "crit_all" /\ t[p].try = FreshTry
      /\ UNCHANGED <<prog, curr_tn, early_tn, wc_blocked, last_wcs_recover_tn, pidcnt,
                     bt, buf, in_tend, cycle, stopped, before, log>>
  BY <1>0 DEF TpCritAllRegions, Proc, Place, blkVars, histVars
<1>2. Idle(p)
  BY <1>1 DEF Idle
<1>3. CASE NotHeld(p) # {} /\ GrabCrit(p, Min(NotHeld(p)), "crit_all")
  <2> DEFINE r == Min(NotHeld(p))
  <2>1. r \in Regions
    <3>1. NotHeld(p) \subseteq Nat /\ NotHeld(p) \subseteq Regions
      BY <1>0, RegionNumbers DEF NotHeld
    <3> QED BY <3>1, <1>3, MinIsLeast
  <2>2. GrabCrit(p, r, "crit_all")
    BY <1>3
  <2> HIDE DEF r
  <2>3. PICK pc \in {"recover", "crit_all"} :
          t' = [t EXCEPT ![p].pc = pc, ![p].at = r, ![p].ret = "crit_all"]
    BY <2>2, Zenon DEF GrabCrit
  <2>4. /\ crit' \in [Regions -> Pids \union {NoPid}]
        /\ \A s \in Regions : \/ crit'[s] = crit[s]
                              \/ crit[s] \in {p, NoPid} /\ crit'[s] \in {p, NoPid}
        /\ \A s \in Regions : s = r => HasCrit(p, s)'
    BY <1>0, <2>1, <2>2, GrabCritIs
  <2> DEFINE x == [t[p] EXCEPT !.pc = pc, !.at = r, !.ret = "crit_all"]
  <2>5. t' = [t EXCEPT ![p] = x]
    BY <1>0, <2>3 DEF Types, TxnType, Txns
  <2>6. x \in Txns
    BY <1>0, <2>1 DEF Txns, Points, RecoveryPoints
  <2>7. Types' /\ Mine(p) /\ t'[p] = x
    <3> HIDE DEF x
    <3> QED BY <1>0, <1>1, <2>4, <2>5, <2>6, OwnStep
  <2>8. /\ t'[p].pc = pc /\ t'[p].try = t[p].try /\ t'[p].at = r /\ t'[p].ret = "crit_all"
        /\ t'[p].tp_reg_list = t[p].tp_reg_list
    BY <1>0, <2>7 DEF Txns
  <2> HIDE DEF x
  <2>9. Idle(p)'
    BY <2>8 DEF Idle
  <2>10. Quiet(p)
    BY <1>1, <1>2, <2>9, IdleIs DEF Quiet
  <2>11. Notes(p)' /\ Place(p)'
    BY <1>0, <1>1, <2>1, <2>4, <2>8 DEF Proc, Notes, Place, OpPoints, CommitPoints,
        RecoveryPoints, RecoversFor
  <2>12. FinalTry(p)'
    BY <2>8 DEF FinalTry, InTry, OpPoints, RecoversFor, RecoveryPoints
  <2> QED BY <2>7, <2>9, <2>10, <2>11, <2>12, IdleIs, CombineQuiet DEF Proc
<1>4. CASE NotHeld(p) = {} /\ Go(p, "op") /\ UNCHANGED crit
  <2> DEFINE x == [t[p] EXCEPT !.pc = "op"]
  <2>1. t' = [t EXCEPT ![p] = x]
    BY <1>0, <1>4 DEF Go, Types, TxnType, Txns
  <2>2. x \in Txns
    BY <1>0 DEF Txns, Points
  <2>3. crit \in [Regions -> Pids \union {NoPid}]
    BY <1>0 DEF Types, RegTypes
  <2>4. Types' /\ Mine(p) /\ t'[p] = x
    <3> HIDE DEF x
    <3> QED BY <1>0, <1>1, <1>4, <2>1, <2>2, <2>3, OwnStep
  <2>5. /\ t'[p].pc = "op" /\ t'[p].try = FreshTry
        /\ t'[p].tp_reg_list = t[p].tp_reg_list
    BY <1>0, <1>1, <2>4 DEF Txns
  <2> HIDE DEF x
  <2>6. Idle(p)'
    BY <2>5 DEF Idle
  <2>7. Quiet(p)
    BY <1>1, <1>2, <2>6, IdleIs DEF Quiet
  <2>8. Notes(p)' /\ Place(p)'
    <3>1. 1 <= Len(prog[p])
      BY <1>0, <1>1 DEF Proc, Place
    <3>2. prog[p] \in Seq([blk : Blocks, upd : BOOLEAN])
      BY Known
    <3>3. 1 \in 1 .. Len(prog[p])
      BY <3>1, <3>2
    <3>4. Place(p)'
      BY <3>1, <3>3, <1>1, <2>5, FreshTryIs DEF Place, OpPoints, CommitPoints,
          RecoveryPoints, RecoversFor
    <3>5. Notes(p)'
      BY <1>0, <1>1, <2>5 DEF Proc, Notes
    <3> QED BY <3>4, <3>5
  <2>9. FinalTry(p)'
    <3>1. \A r \in t[p].tp_reg_list : HasCrit(p, r)'
      BY <1>4 DEF NotHeld, HasCrit
    <3> QED BY <3>1, <2>5, FreshTryIs DEF FinalTry, InTry, OpPoints, RecoversFor, RecoveryPoints
  <2> QED BY <2>4, <2>6, <2>7, <2>8, <2>9, IdleIs, CombineQuiet DEF Proc
<1> QED BY <1>3, <1>4 DEF TpCritAllRegions

----------------------------------------------------------------------------
(* wcs_recover, and what the steps that touch a tn leave alone.            *)

\* A region whose crit p does not have.
LEMMA EarlyRest ==
    ASSUME Types, Types', NEW p \in Pids, Mine(p), NEW r \in Regions, EarlyTn(r),
           crit[r] # p, crit'[r] = p => ~Ahead(p, r)'
    PROVE  EarlyTn(r)'
<1>1. crit[r] \in Pids \union {NoPid} /\ crit'[r] \in Pids \union {NoPid}
  BY DEF Types, RegTypes
<1>2. curr_tn'[r] = curr_tn[r] /\ early_tn'[r] = early_tn[r]
  BY DEF Mine
<1>3. CASE crit[r] = NoPid
  <2>1. crit'[r] \in {p, NoPid}
    BY <1>3 DEF Mine
  <2>2. early_tn[r] = curr_tn[r]
    BY <1>3, TpCommitAssumption DEF EarlyTn
  <2>3. ~(crit[r] \in Pids /\ Ahead(crit[r], r))'
    BY <2>1, TpCommitAssumption
  <2> QED BY <1>2, <2>2, <2>3 DEF EarlyTn
<1>4. CASE crit[r] \in Pids
  <2>1. crit'[r] = crit[r] /\ t'[crit[r]] = t[crit[r]]
    BY <1>4, TpCommitAssumption DEF Mine
  <2>2. (crit[r] \in Pids /\ Ahead(crit[r], r))' <=> (crit[r] \in Pids /\ Ahead(crit[r], r))
    BY <2>1 DEF Ahead, At, Updated
  <2> QED BY <1>2, <2>2 DEF EarlyTn
<1> QED BY <1>1, <1>3, <1>4

\* A block of a region whose crit p does not have: its buffer may be changed.
LEMMA BlkRest ==
    ASSUME Types, Types', NEW p \in Pids, Mine(p), NEW b \in Blocks, BlkTn(b),
           crit[Reg[b]] # p, bt'[b] = bt[b],
           buf'[b].tn < curr_tn[Reg[b]], stopped'[b].tn < curr_tn[Reg[b]]
    PROVE  BlkTn(b)'
<1> DEFINE r == Reg[b]
<1>0. r \in Regions
  BY TpCommitAssumption
<1>1. crit[r] \in Pids \union {NoPid} /\ crit'[r] \in Pids \union {NoPid}
  BY <1>0 DEF Types, RegTypes
<1>2. curr_tn'[r] = curr_tn[r]
  BY <1>0 DEF Mine
<1>3. CASE crit[r] = NoPid
  BY <1>2, <1>3, TpCommitAssumption DEF BlkTn
<1>4. CASE crit[r] \in Pids
  <2>1. crit'[r] = crit[r] /\ t'[crit[r]] = t[crit[r]]
    BY <1>0, <1>4, TpCommitAssumption DEF Mine
  <2>2. (crit[r] \in Pids /\ Settling(crit[r], r))' <=> (crit[r] \in Pids /\ Settling(crit[r], r))
    BY <2>1 DEF Settling, At, Updated
  <2> QED BY <1>2, <2>2 DEF BlkTn
<1> QED BY <1>1, <1>3, <1>4

\* What is known of a process that recovers the cache.
LEMMA RecoveryIs ==
    ASSUME IInv, NEW p \in Pids, t[p].pc \in RecoveryPoints
    PROVE  /\ Types /\ Proc(p) /\ t[p] \in Txns /\ t[p].at \in Regions
           /\ crit[t[p].at] = p
           /\ t[p].ret \in {"op", "validate", "helped", "crit_all"}
BY Known DEF Proc, Place, HasCrit, Txns

\* What the invariant says of a process at a point of the recovery, it says at the next.
LEMMA RecoveryStep ==
    ASSUME IInv, NEW p \in Pids, t[p].pc \in RecoveryPoints, NEW pc \in RecoveryPoints,
           t' = [t EXCEPT ![p].pc = pc], UNCHANGED <<prog, crit>>,
           \A r \in Regions : r # t[p].at => curr_tn'[r] = curr_tn[r],
           \A b \in Blocks : Reg[b] # t[p].at =>
                cycle'[b] = cycle[b] /\ in_tend'[b] = in_tend[b]
    PROVE  /\ TxnType' /\ ProgType' /\ Proc(p)'
           /\ t'[p].pc = pc /\ t'[p].at = t[p].at
           /\ \A q \in Pids : q # p => t'[q] = t[q]
<1> USE DEF At
<1>0. /\ Types /\ Proc(p) /\ t[p] \in Txns /\ t[p].at \in Regions /\ crit[t[p].at] = p
  BY RecoveryIs
<1>1. TxnType' /\ ProgType'
  BY <1>0 DEF Types, TxnType, ProgType, Txns, Points
<1>2. /\ t'[p].pc = pc /\ t'[p].try = t[p].try /\ t'[p].at = t[p].at
      /\ t'[p].ret = t[p].ret /\ t'[p].tp_reg_list = t[p].tp_reg_list
      /\ t'[p].t_tries = t[p].t_tries
  BY <1>0 DEF Types, TxnType, Txns
<1>3. \A q \in Pids : q # p => t'[q] = t[q]
  BY <1>0 DEF Types, TxnType
<1>4. Notes(p)'
  BY <1>0, <1>2 DEF Proc, Notes
<1>5. Place(p)'
  BY <1>0, <1>2 DEF Proc, Place, OpPoints, CommitPoints, RecoveryPoints, RecoversFor, HasCrit
<1>6. Crits(p)' /\ OwnTn(p)'
  BY <1>0, <1>2 DEF Proc, Crits, OwnTn, CommitPoints, RecoveryPoints, RecoversFor, HasCrit
<1>7. ASSUME FinalRetry(p)' PROVE FinalTry(p)'
  <2>1. FinalTry(p)
    BY <1>0, <1>2, <1>7 DEF Proc, FinalRetry
  <2>2. RecoversFor(p, "op") => \A b \in Blocks : t[p].try.hist[b] # NoHist =>
            /\ curr_tn'[Reg[b]] = curr_tn[Reg[b]]
            /\ cycle'[b] = cycle[b] /\ in_tend'[b] = in_tend[b]
    <3>1. RecoversFor(p, "op") => \A b \in Blocks : t[p].try.hist[b] # NoHist =>
            Reg[b] # t[p].at
      BY <1>0, <2>1 DEF FinalTry, Proc, Notes
    <3> QED BY <3>1, TpCommitAssumption
  <2> QED BY <2>1, <2>2, <1>2 DEF FinalTry, InTry, OpPoints, RecoversFor, RecoveryPoints,
          HasCrit
<1> QED BY <1>1, <1>2, <1>3, <1>4, <1>5, <1>6, <1>7 DEF Proc

\* wcs_recover sets early_tn.
LEMMA RecoverStartInv == ASSUME IInv, NEW p \in Pids, RecoverStart(p) PROVE IInv'
<1> USE DEF At
<1> DEFINE r == t[p].at
<1>1. t[p].pc = "recover" /\ t[p].pc \in RecoveryPoints /\ "rebuild" \in RecoveryPoints
  BY DEF RecoverStart, RecoveryPoints
<1>2. /\ Types /\ Proc(p) /\ t[p] \in Txns /\ r \in Regions /\ crit[r] = p
  BY <1>1, RecoveryIs
<1>3. /\ t' = [t EXCEPT ![p].pc = "rebuild"]
      /\ early_tn' = [early_tn EXCEPT ![r] = curr_tn[r] + 1]
      /\ UNCHANGED <<prog, curr_tn, crit, pidcnt, bt, buf, in_tend, cycle, stopped, before,
                     log>>
  BY DEF RecoverStart, Go, blkVars, histVars
<1>4. /\ TxnType' /\ ProgType' /\ Proc(p)' /\ t'[p].pc = "rebuild" /\ t'[p].at = r
      /\ \A q \in Pids : q # p => t'[q] = t[q]
  BY <1>1, <1>3, RecoveryStep
<1>5. Types'
  <2>1. RegTypes'
    BY <1>2, <1>3 DEF RecoverStart, Types, RegTypes
  <2> QED BY <2>1, <1>2, <1>3, <1>4 DEF Types, BlkTypes, HistTypes
<1>6. Mine(p)
  BY <1>2, <1>3, <1>4 DEF Mine, Types, RegTypes
<1>7. ASSUME NEW s \in Regions PROVE EarlyTn(s)'
  <2>0. EarlyTn(s)
    BY DEF IInv
  <2>1. CASE s = r
    <3>1. early_tn'[s] = curr_tn[s] + 1 /\ crit'[s] = p
      BY <1>2, <1>3, <2>1 DEF Types, RegTypes
    <3>2. Ahead(p, s)'
      BY <1>4, <2>1 DEF Ahead
    <3> QED BY <3>1, <3>2, <1>3 DEF EarlyTn
  <2>2. CASE s # r /\ crit[s] = p
    <3>1. ~Ahead(p, s) /\ ~Ahead(p, s)'
      BY <1>1, <1>4, <2>2 DEF Ahead
    <3>2. early_tn'[s] = early_tn[s]
      BY <1>2, <1>3, <2>2 DEF Types, RegTypes
    <3> QED BY <2>0, <2>2, <3>1, <3>2, <1>3 DEF EarlyTn
  <2>3. CASE crit[s] # p
    BY <2>0, <2>3, <1>2, <1>3, <1>5, <1>6, EarlyRest
  <2> QED BY <2>1, <2>2, <2>3
<1>8. ASSUME NEW b \in Blocks PROVE BlkTn(b)'
  <2>0. BlkTn(b)
    BY DEF IInv
  <2>1. CASE crit[Reg[b]] = p
    BY <2>0, <2>1, <1>1, <1>3 DEF BlkTn, Settling
  <2>2. CASE crit[Reg[b]] # p
    <3>1. buf'[b].tn < curr_tn[Reg[b]] /\ stopped'[b].tn < curr_tn[Reg[b]]
      BY <2>0, <1>3 DEF BlkTn
    <3> QED BY <3>1, <2>0, <2>2, <1>2, <1>3, <1>5, <1>6, BlkRest
  <2> QED BY <2>1, <2>2
<1> QED BY <1>4, <1>5, <1>6, <1>7, <1>8, Combine

\* wcs_recover rebuilds the cache.
LEMMA RecoverRebuildInv == ASSUME IInv, NEW p \in Pids, RecoverRebuild(p) PROVE IInv'
<1> USE DEF At
<1> DEFINE r == t[p].at
           new == {b \in BlocksOf(r) : stopped[b] # NoBuf}
<1>1. t[p].pc = "rebuild" /\ t[p].pc \in RecoveryPoints /\ "recover_tn" \in RecoveryPoints
  BY DEF RecoverRebuild, RecoveryPoints
<1>2. /\ Types /\ Proc(p) /\ t[p] \in Txns /\ r \in Regions /\ crit[r] = p
  BY <1>1, RecoveryIs
<1>3. PICK clean \in SUBSET (BlocksOf(r) \ new) :
        /\ bt' = [b \in Blocks |-> IF b \in clean THEN curr_tn[r] - 1
                                   ELSE IF Reg[b] = r THEN curr_tn[r] ELSE bt[b]]
        /\ cycle' = [b \in Blocks |-> IF b \in clean \union new
                                      THEN cycle[b] + 1 ELSE cycle[b]]
        /\ buf' = [b \in Blocks |-> IF b \in new THEN stopped[b] ELSE buf[b]]
        /\ stopped' = [b \in Blocks |-> IF b \in new THEN NoBuf ELSE stopped[b]]
        /\ in_tend' = [b \in Blocks |-> IF b \in new THEN NoPid ELSE in_tend[b]]
        /\ t' = [t EXCEPT ![p].pc = "recover_tn"]
        /\ UNCHANGED <<prog, curr_tn, early_tn, crit, wc_blocked, last_wcs_recover_tn, pidcnt,
                       before, log>>
  BY DEF RecoverRebuild, Go, regVars, histVars
<1>4. \A b \in clean \union new : b \in Blocks /\ Reg[b] = r
  BY DEF BlocksOf
<1> HIDE DEF new
<1>5. /\ TxnType' /\ ProgType' /\ Proc(p)' /\ t'[p].pc = "recover_tn" /\ t'[p].at = r
      /\ \A q \in Pids : q # p => t'[q] = t[q]
  <2>1. \A b \in Blocks : Reg[b] # r => cycle'[b] = cycle[b] /\ in_tend'[b] = in_tend[b]
    BY <1>3, <1>4
  <2> QED BY <2>1, <1>1, <1>3, RecoveryStep
<1>6. Types'
  <2>1. bt' \in [Blocks -> Nat]
    <3>1. curr_tn[r] \in Nat /\ curr_tn[r] - 1 \in Nat
      BY <1>2 DEF Types, RegTypes
    <3> QED BY <3>1, <1>2, <1>3 DEF Types, BlkTypes
  <2>2. NoBuf \in Bufs
    BY DEF NoBuf, Bufs, Vals, NoTn
  <2>3. BlkTypes'
    BY <2>1, <2>2, <1>2, <1>3 DEF Types, BlkTypes
  <2> QED BY <2>3, <1>2, <1>3, <1>5 DEF Types, RegTypes, HistTypes
<1>7. Mine(p)
  BY <1>2, <1>3, <1>4, <1>5 DEF Mine, Types, RegTypes
<1>8. ASSUME NEW s \in Regions PROVE EarlyTn(s)'
  <2>0. EarlyTn(s)
    BY DEF IInv
  <2>1. CASE crit[s] = p
    <3>1. Ahead(p, s)' <=> Ahead(p, s)
      BY <1>1, <1>5 DEF Ahead
    <3> QED BY <3>1, <2>0, <2>1, <1>3 DEF EarlyTn
  <2>2. CASE crit[s] # p
    BY <2>0, <2>2, <1>2, <1>3, <1>6, <1>7, EarlyRest
  <2> QED BY <2>1, <2>2
<1>9. ASSUME NEW b \in Blocks PROVE BlkTn(b)'
  <2>0. BlkTn(b) /\ Reg[b] \in Regions
    BY TpCommitAssumption DEF IInv
  <2>1. buf'[b].tn < curr_tn[Reg[b]] /\ stopped'[b].tn < curr_tn[Reg[b]]
    <3>1. curr_tn[Reg[b]] > NoTn
      BY <2>0, <1>2 DEF Types, RegTypes, NoTn
    <3> QED BY <3>1, <2>0, <1>3 DEF BlkTn, NoBuf, NoTn
  <2>2. CASE Reg[b] = r
    <3>1. bt'[b] <= curr_tn[r]
      BY <2>2, <1>2, <1>3 DEF Types, RegTypes
    <3>2. Settling(p, r)'
      BY <1>5 DEF Settling
    <3> QED BY <3>1, <3>2, <2>1, <2>2, <1>2, <1>3, <1>5 DEF BlkTn, Settling
  <2>3. CASE Reg[b] # r /\ crit[Reg[b]] = p
    <3>1. bt'[b] = bt[b]
      BY <2>3, <1>3, <1>4
    <3>2. bt[b] # curr_tn[Reg[b]]
      BY <2>0, <2>3, <1>1 DEF BlkTn, Settling
    <3> QED BY <3>1, <3>2, <2>0, <2>1, <1>3 DEF BlkTn
  <2>4. CASE crit[Reg[b]] # p
    <3>1. bt'[b] = bt[b]
      BY <2>4, <1>2, <1>3, <1>4
    <3> QED BY <3>1, <2>0, <2>1, <2>4, <1>2, <1>6, <1>7, BlkRest
  <2> QED BY <2>2, <2>3, <2>4
<1> QED BY <1>5, <1>6, <1>7, <1>8, <1>9, Combine

\* wcs_recover gives the region its next tn.
LEMMA RecoverTnInv == ASSUME IInv, NEW p \in Pids, RecoverTn(p) PROVE IInv'
<1> USE DEF At
<1> DEFINE r == t[p].at
<1>1. t[p].pc = "recover_tn" /\ t[p].pc \in RecoveryPoints /\ "resume" \in RecoveryPoints
  BY DEF RecoverTn, RecoveryPoints
<1>2. /\ Types /\ Proc(p) /\ t[p] \in Txns /\ r \in Regions /\ crit[r] = p
  BY <1>1, RecoveryIs
<1>3. /\ t' = [t EXCEPT ![p].pc = "resume"]
      /\ curr_tn' = [curr_tn EXCEPT ![r] = @ + 1]
      /\ UNCHANGED <<prog, early_tn, crit, wc_blocked, last_wcs_recover_tn, pidcnt, bt, buf,
                     in_tend, cycle, stopped, before, log>>
  BY DEF RecoverTn, Go, blkVars, histVars
<1>4. /\ curr_tn[r] \in Nat /\ curr_tn'[r] = curr_tn[r] + 1
      /\ \A s \in Regions : s # r => curr_tn'[s] = curr_tn[s]
  BY <1>2, <1>3 DEF Types, RegTypes
<1>5. /\ TxnType' /\ ProgType' /\ Proc(p)' /\ t'[p].pc = "resume" /\ t'[p].at = r
      /\ \A q \in Pids : q # p => t'[q] = t[q]
  BY <1>1, <1>3, <1>4, RecoveryStep
<1>6. Types'
  <2>1. RegTypes'
    BY <1>2, <1>3 DEF Types, RegTypes
  <2> QED BY <2>1, <1>2, <1>3, <1>5 DEF Types, BlkTypes, HistTypes
<1>7. Mine(p)
  BY <1>2, <1>3, <1>4, <1>5 DEF Mine
<1>8. ASSUME NEW s \in Regions PROVE EarlyTn(s)'
  <2>0. EarlyTn(s)
    BY DEF IInv
  <2>1. CASE crit[s] = p
    <3>1. (Ahead(p, s) <=> s = r) /\ ~Ahead(p, s)'
      BY <1>1, <1>5 DEF Ahead
    <3>2. early_tn[s] = IF s = r THEN curr_tn[s] + 1 ELSE curr_tn[s]
      BY <3>1, <2>0, <2>1 DEF EarlyTn
    <3> QED BY <3>1, <3>2, <2>1, <1>3, <1>4 DEF EarlyTn
  <2>2. CASE crit[s] # p
    BY <2>0, <2>2, <1>2, <1>3, <1>6, <1>7, EarlyRest
  <2> QED BY <2>1, <2>2
<1>9. ASSUME NEW b \in Blocks PROVE BlkTn(b)'
  <2>0. BlkTn(b) /\ Reg[b] \in Regions
    BY TpCommitAssumption DEF IInv
  <2>1. /\ buf[b].tn \in Nat /\ stopped[b].tn \in Nat /\ bt[b] \in Nat
    BY <1>2 DEF Types, BlkTypes, Bufs
  <2>2. CASE Reg[b] = r
    BY <2>0, <2>1, <2>2, <1>3, <1>4 DEF BlkTn
  <2>3. CASE Reg[b] # r /\ crit[Reg[b]] = p
    <3>1. bt[b] # curr_tn[Reg[b]]
      BY <2>0, <2>3, <1>1 DEF BlkTn, Settling
    <3> QED BY <3>1, <2>0, <2>3, <1>3, <1>4 DEF BlkTn
  <2>4. CASE crit[Reg[b]] # p
    <3>1. buf'[b].tn < curr_tn[Reg[b]] /\ stopped'[b].tn < curr_tn[Reg[b]]
      BY <2>0, <1>3 DEF BlkTn
    <3> QED BY <3>1, <2>0, <2>4, <1>2, <1>3, <1>6, <1>7, BlkRest
  <2> QED BY <2>2, <2>3, <2>4
<1> QED BY <1>5, <1>6, <1>7, <1>8, <1>9, Combine

\* The end of wcs_recover, back where crit was wanted.
LEMMA RecoverEndInv == ASSUME IInv, NEW p \in Pids, RecoverEnd(p) PROVE IInv'
<1> USE DEF At
<1> DEFINE pc == t[p].ret
           x == [t[p] EXCEPT !.pc = pc]
<1>1. t[p].pc = "resume" /\ t[p].pc \in RecoveryPoints
  BY DEF RecoverEnd, RecoveryPoints
<1>2. /\ Types /\ Proc(p) /\ t[p] \in Txns /\ t[p].at \in Regions /\ crit[t[p].at] = p
      /\ pc \in {"op", "validate", "helped", "crit_all"}
  BY <1>1, RecoveryIs
<1>3. /\ t' = [t EXCEPT ![p] = x]
      /\ UNCHANGED <<prog, curr_tn, early_tn, crit, last_wcs_recover_tn, pidcnt, bt, buf,
                     in_tend, cycle, stopped, before, log>>
  BY <1>2 DEF RecoverEnd, Go, blkVars, histVars, Types, TxnType, Txns
<1>4. x \in Txns
  BY <1>2 DEF Txns, Points
<1>5. t'[p] = x /\ TxnType' /\ \A q \in Pids : q # p => t'[q] = t[q]
  <2> HIDE DEF x
  <2> QED BY <1>2, <1>3, <1>4 DEF Types, TxnType
<1>6. /\ t'[p].pc = pc /\ t'[p].try = t[p].try /\ t'[p].at = t[p].at /\ t'[p].ret = t[p].ret
      /\ t'[p].tp_reg_list = t[p].tp_reg_list /\ t'[p].t_tries = t[p].t_tries
  BY <1>2, <1>5 DEF Txns
<1> HIDE DEF x
<1>7. Types'
  <2>1. RegTypes'
    BY <1>2, <1>3 DEF RecoverEnd, Types, RegTypes
  <2> QED BY <2>1, <1>2, <1>3, <1>5 DEF Types, BlkTypes, HistTypes, ProgType
<1>8. Mine(p)
  BY <1>3, <1>5 DEF Mine
<1>9. Quiet(p)
  BY <1>1, <1>2, <1>3, <1>6 DEF Quiet, Ahead, Settling
<1>10. Notes(p)'
  BY <1>2, <1>6 DEF Proc, Notes
<1>11. Place(p)'
  BY <1>1, <1>2, <1>3, <1>6 DEF Proc, Place, OpPoints, CommitPoints, RecoveryPoints, RecoversFor,
      HasCrit
<1>12. Crits(p)' /\ OwnTn(p)'
  BY <1>1, <1>2, <1>3, <1>6 DEF Proc, Crits, OwnTn, CommitPoints, RecoveryPoints, RecoversFor,
      HasCrit
<1>13. FinalRetry(p)' => FinalTry(p)'
  BY <1>1, <1>2, <1>3, <1>6 DEF Proc, FinalRetry, FinalTry, InTry, OpPoints, RecoveryPoints,
      RecoversFor, HasCrit
<1> QED BY <1>7, <1>8, <1>9, <1>10, <1>11, <1>12, <1>13, CombineQuiet DEF Proc

----------------------------------------------------------------------------
(* The commit.                                                             *)

\* The final retry has nothing more to promise once the commit has begun.
LEMMA CommitFinal ==
    ASSUME NEW p
    PROVE  t'[p].pc \in {"cmt04", "done"} \union CommitPoints => FinalTry(p)'
BY DEF FinalTry, InTry, At, RecoversFor, RecoveryPoints, OpPoints, CommitPoints

\* Step CMT04.
LEMMA Cmt04Inv == ASSUME IInv, NEW p \in Pids, Cmt04(p) PROVE IInv'
<1> USE DEF At
<1> DEFINE r == t[p].at
           n == NextReg(p, r)
           x == [t[p] EXCEPT !.at = n]
<1>0. /\ Types /\ Proc(p) /\ t[p] \in Txns /\ t[p].try \in Tries
      /\ t[p].tp_reg_list \subseteq Regions
  BY Known
<1>1. /\ t[p].pc = "cmt04" /\ r \in t[p].tp_reg_list /\ r \in Regions /\ r # NoRegion
      /\ UNCHANGED <<prog, curr_tn, crit, wc_blocked, last_wcs_recover_tn, pidcnt,
                     bt, buf, in_tend, cycle, stopped, before, log>>
      /\ t' = [t EXCEPT ![p] = x]
  BY <1>0 DEF Cmt04, Proc, Place, blkVars, histVars, Types, TxnType, Txns
<1>2. /\ \A s \in t[p].tp_reg_list : crit[s] = p
      /\ \A s \in Regions : Updated(p, s) => s \in t[p].tp_reg_list
  BY <1>0, <1>1, UpdatedIs DEF Proc, Crits, HasCrit
<1>3. /\ n \in t[p].tp_reg_list \union {NoRegion}
      /\ n = NoRegion => \A s \in t[p].tp_reg_list : s <= r
      /\ n # NoRegion => n > r /\ \A s \in t[p].tp_reg_list : s > r => s >= n
  BY <1>0, <1>1, NextRegIs
<1> HIDE DEF n
<1>4. x \in Txns
  BY <1>0, <1>3 DEF Txns
<1>5. t'[p] = x /\ TxnType' /\ \A q \in Pids : q # p => t'[q] = t[q]
  <2> HIDE DEF x
  <2> QED BY <1>0, <1>1, <1>4 DEF Types, TxnType
<1>6. /\ t'[p].pc = "cmt04" /\ t'[p].try = t[p].try /\ t'[p].at = n
      /\ t'[p].tp_reg_list = t[p].tp_reg_list
      /\ \A s : Updated(p, s)' <=> Updated(p, s)
  BY <1>0, <1>1, <1>5 DEF Txns, Updated
<1> HIDE DEF x
<1>7. /\ early_tn' \in [Regions -> Nat]
      /\ \A s \in Regions : s # r => early_tn'[s] = early_tn[s]
      /\ early_tn'[r] = IF Updated(p, r) THEN curr_tn[r] + 1 ELSE early_tn[r]
  <2>1. early_tn \in [Regions -> Nat] /\ curr_tn[r] + 1 \in Nat
    BY <1>0, <1>1 DEF Types, RegTypes
  <2>2. CASE Updated(p, r)
    BY <1>1, <2>1, <2>2 DEF Cmt04
  <2>3. CASE ~Updated(p, r)
    BY <1>1, <2>1, <2>3 DEF Cmt04
  <2> QED BY <2>2, <2>3
<1>8. Types'
  BY <1>0, <1>1, <1>5, <1>7 DEF Types, RegTypes, BlkTypes, HistTypes, ProgType
<1>9. Mine(p)
  BY <1>1, <1>2, <1>5, <1>7 DEF Mine
<1>10. Notes(p)' /\ Place(p)'
  BY <1>0, <1>1, <1>3, <1>6 DEF Proc, Notes, Place, OpPoints, CommitPoints, RecoveryPoints,
      RecoversFor
<1>11. Crits(p)' /\ OwnTn(p)'
  BY <1>1, <1>2, <1>6 DEF Crits, OwnTn, CommitPoints, RecoveryPoints, RecoversFor, HasCrit
<1>12. ASSUME NEW s \in Regions PROVE EarlyTn(s)'
  <2>0. EarlyTn(s)
    BY DEF IInv
  <2>1. CASE s = r
    <3>1. Ahead(p, s)' <=> Updated(p, s)
      BY <1>1, <1>3, <1>6, <2>1 DEF Ahead
    <3>2. ~Ahead(p, s) /\ crit[s] = p
      BY <1>0, <1>1, <1>2, <2>1, RegionNumbers DEF Ahead
    <3> QED BY <3>1, <3>2, <2>0, <2>1, <1>1, <1>7 DEF EarlyTn
  <2>2. CASE s # r /\ crit[s] = p
    <3>1. Updated(p, s) => (s < r <=> n = NoRegion \/ s < n)
      BY <1>0, <1>1, <1>2, <1>3, <2>2, RegionNumbers
    <3>2. Ahead(p, s)' <=> Ahead(p, s)
      BY <3>1, <1>1, <1>6 DEF Ahead
    <3> QED BY <3>2, <2>0, <2>2, <1>1, <1>7 DEF EarlyTn
  <2>3. CASE crit[s] # p
    BY <2>0, <2>3, <1>0, <1>1, <1>8, <1>9, EarlyRest
  <2> QED BY <2>1, <2>2, <2>3
<1>13. ASSUME NEW b \in Blocks PROVE BlkTn(b)'
  <2>0. BlkTn(b)
    BY DEF IInv
  <2>1. CASE crit[Reg[b]] = p
    BY <2>0, <2>1, <1>1 DEF BlkTn, Settling
  <2>2. CASE crit[Reg[b]] # p
    <3>1. buf'[b].tn < curr_tn[Reg[b]] /\ stopped'[b].tn < curr_tn[Reg[b]]
      BY <2>0, <1>1 DEF BlkTn
    <3> QED BY <3>1, <2>0, <2>2, <1>0, <1>1, <1>8, <1>9, BlkRest
  <2> QED BY <2>1, <2>2
<1> QED BY <1>6, <1>8, <1>9, <1>10, <1>11, <1>12, <1>13, CommitFinal, Combine DEF Proc

\* The commit begins.
LEMMA StartCommitInv == ASSUME IInv, NEW p \in Pids, StartCommit(p) PROVE IInv'
<1> USE DEF At
<1> DEFINE n == FirstReg(p)
           y == [t[p].try EXCEPT !.todo = t[p].try.cw_set, !.build = t[p].try.cw_set]
           x == [t[p] EXCEPT !.pc = "phase1", !.at = n, !.try = y]
<1>0. /\ Types /\ Proc(p) /\ t[p] \in Txns /\ t[p].try \in Tries
      /\ t[p].tp_reg_list \subseteq Regions
  BY Known
<1>1. /\ t[p].pc = "cmt04" /\ t[p].at = NoRegion /\ t[p].tp_reg_list # {}
      /\ UNCHANGED <<prog, regVars, blkVars, histVars>>
      /\ \A s \in t[p].tp_reg_list : crit[s] = p
      /\ \A s \in Regions : Updated(p, s) => s \in t[p].tp_reg_list
  BY <1>0, UpdatedIs DEF StartCommit, Proc, Place, Crits, HasCrit
<1>2. n \in t[p].tp_reg_list /\ \A s \in t[p].tp_reg_list : n <= s
  BY <1>0, <1>1, FirstRegIs
<1>3. y \in Tries
  BY <1>0 DEF Tries
<1>4. t' = [t EXCEPT ![p] = x]
  BY <1>0 DEF StartCommit, Types, TxnType, Txns
<1>5. /\ y.op = t[p].try.op /\ y.start_tn = t[p].try.start_tn /\ y.hist = t[p].try.hist
      /\ y.cw_set = t[p].try.cw_set /\ y.todo = t[p].try.cw_set /\ y.build = t[p].try.cw_set
  BY <1>0 DEF Tries
<1> HIDE DEF n, y
<1>6. x \in Txns
  BY <1>0, <1>2, <1>3 DEF Txns, Points, CommitPoints
<1>7. Types' /\ Mine(p) /\ t'[p] = x
  <2> HIDE DEF x
  <2>1. crit' = crit /\ crit \in [Regions -> Pids \union {NoPid}]
    BY <1>0, <1>1 DEF Types, RegTypes, regVars
  <2> QED BY <2>1, <1>0, <1>1, <1>4, <1>6, OwnStep DEF regVars, blkVars, histVars
<1>8. /\ t'[p].pc = "phase1" /\ t'[p].try = y /\ t'[p].at = n
      /\ t'[p].tp_reg_list = t[p].tp_reg_list
      /\ \A s : Updated(p, s)' <=> Updated(p, s)
      /\ \A s \in Regions : crit'[s] = crit[s]
  BY <1>0, <1>1, <1>5, <1>7 DEF Txns, Updated, regVars
<1> HIDE DEF x
<1>9. Notes(p)' /\ Place(p)'
  BY <1>0, <1>1, <1>2, <1>5, <1>8 DEF Proc, Notes, Place, OpPoints, CommitPoints,
      RecoveryPoints, RecoversFor
<1>10. Crits(p)'
  <2>1. \A s \in t[p].tp_reg_list : s >= n
    BY <1>0, <1>2, RegionNumbers
  <2> QED BY <2>1, <1>0, <1>1, <1>8 DEF Crits, RecoveryPoints, RecoversFor, HasCrit
<1>11. OwnTn(p)'
  BY <1>1, <1>8 DEF OwnTn, HasCrit
<1>12. ASSUME NEW s \in Regions PROVE EarlyTn(s)'
  <2>0. EarlyTn(s)
    BY DEF IInv
  <2>1. CASE crit[s] = p
    <3>1. Ahead(p, s)' <=> Ahead(p, s)
      BY <1>1, <1>8 DEF Ahead
    <3> QED BY <3>1, <2>0, <2>1, <1>1 DEF EarlyTn, regVars
  <2>2. CASE crit[s] # p
    BY <2>0, <2>2, <1>0, <1>8, <1>7, EarlyRest
  <2> QED BY <2>1, <2>2
<1>13. ASSUME NEW b \in Blocks PROVE BlkTn(b)'
  <2>0. BlkTn(b)
    BY DEF IInv
  <2>1. CASE crit[Reg[b]] = p
    BY <2>0, <2>1, <1>1 DEF BlkTn, Settling, regVars, blkVars
  <2>2. CASE crit[Reg[b]] # p
    <3>1. buf'[b].tn < curr_tn[Reg[b]] /\ stopped'[b].tn < curr_tn[Reg[b]] /\ bt'[b] = bt[b]
      BY <2>0, <1>1 DEF BlkTn, blkVars
    <3> QED BY <3>1, <2>0, <2>2, <1>0, <1>7, BlkRest
  <2> QED BY <2>1, <2>2
<1> QED BY <1>7, <1>8, <1>9, <1>10, <1>11, <1>12, <1>13, CommitFinal, Combine
        DEF Proc, CommitPoints

\* What is known in phase 1: the crit of the region is held.
LEMMA Phase1Is ==
    ASSUME IInv, NEW p \in Pids, At(p, "phase1")
    PROVE  /\ t[p].at \in t[p].tp_reg_list /\ t[p].at \in Regions /\ crit[t[p].at] = p
           /\ \A s \in Regions : Updated(p, s) => s \in t[p].tp_reg_list
           /\ \A b \in Phase1Blocks(p, t[p].at) :
                b \in Blocks /\ Reg[b] = t[p].at /\ Updated(p, t[p].at)
<1>0. /\ Types /\ Proc(p) /\ t[p].tp_reg_list \subseteq Regions
  BY Known
<1>1. t[p].at \in t[p].tp_reg_list /\ t[p].at \in Regions
  BY <1>0 DEF Proc, Place, At, CommitPoints
<1>2. crit[t[p].at] = p
  BY <1>0, <1>1, RegionNumbers DEF Proc, Crits, HasCrit
<1>3. \A b \in Phase1Blocks(p, t[p].at) :
        b \in Blocks /\ Reg[b] = t[p].at /\ Updated(p, t[p].at)
  BY <1>0 DEF Phase1Blocks, BlocksOf, Updated, Proc, Notes
<1> QED BY <1>0, <1>1, <1>2, <1>3, UpdatedIs DEF Proc

\* bg_update_phase1 gives a block the tn of the region, whose crit is held.
LEMMA BgUpdatePhase1Inv == ASSUME IInv, NEW p \in Pids, BgUpdatePhase1(p) PROVE IInv'
<1> USE DEF At
<1> DEFINE r == t[p].at
<1>0. /\ Types /\ Proc(p) /\ t[p] \in Txns /\ t[p].try \in Tries
      /\ t[p].tp_reg_list \subseteq Regions
  BY Known
<1>1. PICK b \in Phase1Blocks(p, r) :
        /\ bt' = [bt EXCEPT ![b] = curr_tn[r]]
        /\ in_tend' = [in_tend EXCEPT ![b] = p]
        /\ t' = [t EXCEPT ![p].try.todo = @ \ {b}]
  BY DEF BgUpdatePhase1
<1>2. /\ t[p].pc = "phase1" /\ AddToLog(p)
      /\ pidcnt' = [pidcnt EXCEPT ![r] = @ \union {p}]
      /\ UNCHANGED <<prog, curr_tn, early_tn, crit, wc_blocked, last_wcs_recover_tn,
                     buf, cycle, stopped, before>>
  BY DEF BgUpdatePhase1
<1>3. /\ r \in t[p].tp_reg_list /\ r \in Regions /\ crit[r] = p
      /\ b \in Blocks /\ Reg[b] = r /\ Updated(p, r)
  BY <1>2, Phase1Is
<1> DEFINE y == [t[p].try EXCEPT !.todo = @ \ {b}]
           x == [t[p] EXCEPT !.try = y]
<1>4. y \in Tries
  BY <1>0 DEF Tries
<1>5. t' = [t EXCEPT ![p] = x]
  BY <1>0, <1>1 DEF Types, TxnType, Txns
<1>6. /\ y.op = t[p].try.op /\ y.start_tn = t[p].try.start_tn /\ y.hist = t[p].try.hist
      /\ y.cw_set = t[p].try.cw_set /\ y.todo \subseteq t[p].try.todo
      /\ y.build = t[p].try.build
  BY <1>0 DEF Tries
<1> HIDE DEF y
<1>7. x \in Txns
  BY <1>0, <1>4 DEF Txns
<1>8. t'[p] = x /\ TxnType' /\ \A q \in Pids : q # p => t'[q] = t[q]
  <2> HIDE DEF x
  <2> QED BY <1>0, <1>5, <1>7 DEF Types, TxnType
<1>9. /\ t'[p].pc = "phase1" /\ t'[p].try = y /\ t'[p].at = r
      /\ t'[p].tp_reg_list = t[p].tp_reg_list
      /\ \A s : Updated(p, s)' <=> Updated(p, s)
  BY <1>0, <1>2, <1>6, <1>8 DEF Txns, Updated
<1> HIDE DEF x
<1>10. Types'
  <2>1. RegTypes'
    BY <1>0, <1>2, <1>3 DEF Types, RegTypes
  <2>2. BlkTypes'
    <3>1. curr_tn[r] \in Nat
      BY <1>0, <1>3 DEF Types, RegTypes
    <3> QED BY <3>1, <1>0, <1>1, <1>2, <1>3 DEF Types, BlkTypes
  <2>3. HistTypes'
    BY <1>0, <1>2, AddToLogIs
  <2> QED BY <2>1, <2>2, <2>3, <1>0, <1>2, <1>8 DEF Types, ProgType
<1>11. Mine(p)
  BY <1>0, <1>1, <1>2, <1>3, <1>8 DEF Mine, Types, BlkTypes
<1>12. Notes(p)' /\ Place(p)'
  BY <1>0, <1>2, <1>3, <1>6, <1>9 DEF Proc, Notes, Place, OpPoints, CommitPoints,
      RecoveryPoints, RecoversFor
<1>13. Crits(p)' /\ OwnTn(p)'
  BY <1>0, <1>2, <1>6, <1>9 DEF Proc, Crits, OwnTn, CommitPoints, RecoveryPoints,
      RecoversFor, HasCrit
<1>14. ASSUME NEW s \in Regions PROVE EarlyTn(s)'
  <2>0. EarlyTn(s)
    BY DEF IInv
  <2>1. CASE crit[s] = p
    <3>1. Ahead(p, s)' <=> Ahead(p, s)
      BY <1>2, <1>9 DEF Ahead
    <3> QED BY <3>1, <2>0, <2>1, <1>2 DEF EarlyTn
  <2>2. CASE crit[s] # p
    BY <2>0, <2>2, <1>0, <1>2, <1>10, <1>11, EarlyRest
  <2> QED BY <2>1, <2>2
<1>15. ASSUME NEW a \in Blocks PROVE BlkTn(a)'
  <2>0. BlkTn(a)
    BY DEF IInv
  <2>1. \A s : Settling(p, s)' <=> Settling(p, s)
    BY <1>2, <1>9 DEF Settling
  <2>2. bt'[a] = IF a = b THEN curr_tn[r] ELSE bt[a]
    BY <1>0, <1>1, <1>3 DEF Types, BlkTypes
  <2>3. CASE a = b
    <3>1. Settling(p, r)
      BY <1>2, <1>3 DEF Settling
    <3>2. curr_tn[r] \in Nat
      BY <1>0, <1>3 DEF Types, RegTypes
    <3> QED BY <3>1, <3>2, <2>0, <2>1, <2>2, <2>3, <1>2, <1>3 DEF BlkTn
  <2>4. CASE a # b /\ crit[Reg[a]] = p
    BY <2>0, <2>1, <2>2, <2>4, <1>2 DEF BlkTn
  <2>5. CASE a # b /\ crit[Reg[a]] # p
    <3>1. buf'[a].tn < curr_tn[Reg[a]] /\ stopped'[a].tn < curr_tn[Reg[a]] /\ bt'[a] = bt[a]
      BY <2>0, <2>2, <2>5, <1>2 DEF BlkTn
    <3> QED BY <3>1, <2>0, <2>5, <1>0, <1>10, <1>11, BlkRest
  <2> QED BY <2>3, <2>4, <2>5
<1> QED BY <1>9, <1>10, <1>11, <1>12, <1>13, <1>14, <1>15, CommitFinal, Combine
        DEF Proc, CommitPoints

\* The next region of the commit, if there is one.
LEMMA OnFrom ==
    ASSUME Types, NEW p \in Pids, NEW r \in t[p].tp_reg_list
    PROVE  \/ /\ NextReg(p, r) = NoRegion /\ \A s \in t[p].tp_reg_list : ~(s > r)
              /\ FirstReg(p) \in t[p].tp_reg_list
           \/ /\ NextReg(p, r) # NoRegion /\ NextReg(p, r) \in t[p].tp_reg_list
              /\ NextReg(p, r) > r
              /\ \A s \in t[p].tp_reg_list : s > r <=> s >= NextReg(p, r)
<1> DEFINE n == NextReg(p, r)
<1>1. \A s \in t[p].tp_reg_list : s \in Regions /\ s \in Nat
  BY RegionNumbers DEF Types, TxnType, Txns
<1>2. /\ n \in t[p].tp_reg_list \union {NoRegion}
      /\ n = NoRegion => \A s \in t[p].tp_reg_list : s <= r
      /\ n # NoRegion => n > r /\ \A s \in t[p].tp_reg_list : s > r => s >= n
  BY <1>1, NextRegIs
<1>3. FirstReg(p) \in t[p].tp_reg_list
  BY FirstRegIs
<1> HIDE DEF n
<1>4. CASE n = NoRegion
  BY <1>1, <1>2, <1>3, <1>4 DEF n
<1>5. CASE n # NoRegion
  <2>1. \A s \in t[p].tp_reg_list : s > r <=> s >= n
    BY <1>1, <1>2, <1>5
  <2> QED BY <2>1, <1>2, <1>5 DEF n
<1> QED BY <1>4, <1>5

\* Steps CMT11 to CMT14 in a region.
LEMMA Cmt12Inv == ASSUME IInv, NEW p \in Pids, Cmt12(p) PROVE IInv'
<1> USE DEF At
<1> DEFINE r == t[p].at
           n == NextReg(p, r)
<1>0. /\ Types /\ Proc(p) /\ t[p] \in Txns /\ t[p].try \in Tries
      /\ t[p].tp_reg_list \subseteq Regions
  BY Known
<1>1. /\ t[p].pc = "phase1" /\ AddToLog(p) /\ RelCrit(p, {r}) /\ t' = AfterPhase1(p, r)
      /\ curr_tn' = IF Updated(p, r) THEN [curr_tn EXCEPT ![r] = @ + 1] ELSE curr_tn
      /\ UNCHANGED <<prog, early_tn, wc_blocked, last_wcs_recover_tn, pidcnt,
                     bt, buf, in_tend, cycle, stopped, before>>
  BY DEF Cmt12, blkVars
<1>2. /\ r \in t[p].tp_reg_list /\ r \in Regions /\ crit[r] = p
      /\ \A s \in Regions : Updated(p, s) => s \in t[p].tp_reg_list
  BY <1>1, Phase1Is
<1>3. /\ crit' \in [Regions -> Pids \union {NoPid}]
      /\ \A s \in Regions : \/ crit'[s] = crit[s]
                            \/ crit[s] \in {p, NoPid} /\ crit'[s] \in {p, NoPid}
      /\ \A s \in Regions : (crit'[s] = p) <=> (crit[s] = p /\ s # r)
  <2>1. \A s \in Regions : HasCrit(p, s)' <=> HasCrit(p, s) /\ s \notin {r}
    BY <1>0, <1>1, RelCritIs
  <2> QED BY <2>1, <1>0, <1>1, RelCritIs DEF HasCrit
<1>4. PICK pc \in {"phase2", "phase1"}, a \in t[p].tp_reg_list :
        /\ t' = [t EXCEPT ![p].pc = pc, ![p].at = a, ![p].try.start_tn[r] = curr_tn[r]]
        /\ pc = "phase2" => \A s \in t[p].tp_reg_list : ~(s > r)
        /\ pc = "phase1" => a > r /\ \A s \in t[p].tp_reg_list : s > r <=> s >= a
  <2>1. CASE n = NoRegion
    BY <1>0, <1>1, <1>2, <2>1, OnFrom DEF AfterPhase1
  <2>2. CASE n # NoRegion
    <3>1. t' = [t EXCEPT ![p].pc = "phase1", ![p].at = n, ![p].try.start_tn[r] = curr_tn[r]]
      BY <1>1, <2>2 DEF AfterPhase1
    <3>2. n \in t[p].tp_reg_list /\ n > r /\ \A s \in t[p].tp_reg_list : s > r <=> s >= n
      BY <1>0, <1>2, <2>2, OnFrom
    <3> HIDE DEF n, r
    <3> QED BY <3>1, <3>2
  <2> QED BY <2>1, <2>2
<1> HIDE DEF n
<1> DEFINE y == [t[p].try EXCEPT !.start_tn[r] = curr_tn[r]]
           x == [t[p] EXCEPT !.pc = pc, !.at = a, !.try = y]
<1>5. curr_tn[r] \in Nat \ {0} /\ curr_tn[r] # NoTn
  BY <1>0, <1>2 DEF Types, RegTypes, NoTn
<1>6. y \in Tries
  BY <1>0, <1>5 DEF Tries
<1>7. t' = [t EXCEPT ![p] = x]
  BY <1>0, <1>4 DEF Types, TxnType, Txns
<1>8. /\ y.op = t[p].try.op /\ y.hist = t[p].try.hist
      /\ y.start_tn = [t[p].try.start_tn EXCEPT ![r] = curr_tn[r]]
      /\ y.cw_set = t[p].try.cw_set /\ y.todo = t[p].try.todo
      /\ y.build = t[p].try.build
  BY <1>0 DEF Tries
<1>9. \A s \in Regions : y.start_tn[s] = IF s = r THEN curr_tn[r] ELSE t[p].try.start_tn[s]
  BY <1>0, <1>8 DEF Tries
<1> HIDE DEF y
<1>10. x \in Txns
  BY <1>0, <1>6 DEF Txns, Points, CommitPoints
<1>11. t'[p] = x /\ TxnType' /\ \A q \in Pids : q # p => t'[q] = t[q]
  <2> HIDE DEF x
  <2> QED BY <1>0, <1>7, <1>10 DEF Types, TxnType
<1>12. /\ t'[p].pc = pc /\ t'[p].try = y /\ t'[p].at = a
       /\ t'[p].tp_reg_list = t[p].tp_reg_list
       /\ \A s : Updated(p, s)' <=> Updated(p, s)
  BY <1>0, <1>8, <1>11 DEF Txns, Updated
<1> HIDE DEF x
<1>13. /\ curr_tn' \in [Regions -> Nat \ {0}]
       /\ \A s \in Regions : s # r => curr_tn'[s] = curr_tn[s]
       /\ curr_tn'[r] = IF Updated(p, r) THEN curr_tn[r] + 1 ELSE curr_tn[r]
  <2>1. curr_tn \in [Regions -> Nat \ {0}]
    BY <1>0 DEF Types, RegTypes
  <2>2. CASE Updated(p, r)
    BY <1>1, <1>2, <2>1, <2>2
  <2>3. CASE ~Updated(p, r)
    BY <1>1, <1>2, <2>1, <2>3
  <2> QED BY <2>2, <2>3
<1>14. Types'
  <2>1. HistTypes'
    BY <1>0, <1>1, AddToLogIs
  <2> QED BY <2>1, <1>0, <1>1, <1>3, <1>11, <1>13 DEF Types, RegTypes, BlkTypes, ProgType
<1>15. Mine(p)
  BY <1>0, <1>1, <1>2, <1>3, <1>5, <1>11, <1>13 DEF Mine
<1>16. Notes(p)' /\ Place(p)'
  <2>1. Notes(p)'
    <3>1. Notes(p) /\ \A b \in Blocks : Reg[b] \in Regions
      BY <1>0, TpCommitAssumption DEF Proc
    <3>2. t[p].try.cw_set \subseteq Blocks
      BY <1>0 DEF Tries
    <3>3. \A s \in Regions : t[p].try.start_tn[s] # NoTn => y.start_tn[s] # NoTn
      BY <1>5, <1>9
    <3>4. \A s \in Regions : y.start_tn[s] # NoTn => s \in t[p].tp_reg_list
      BY <1>2, <1>9, <3>1 DEF Notes
    <3> QED BY <3>1, <3>2, <3>3, <3>4, <1>8, <1>12 DEF Notes
  <2>2. Place(p)'
    BY <1>0, <1>1, <1>12 DEF Proc, Place, OpPoints, CommitPoints, RecoveryPoints, RecoversFor
  <2> QED BY <2>1, <2>2
<1>17. \A s \in Regions : Updated(p, s) /\ crit[s] = p => s >= r
  BY <1>0, <1>1 DEF Proc, Crits, HasCrit
<1>18. \A s \in Regions : Updated(p, s) /\ crit[s] = p /\ s # r => pc = "phase1" /\ s >= a
  <2>1. \A s \in Regions : s >= r /\ s # r => s > r
    BY <1>2, RegionNumbers
  <2> QED BY <2>1, <1>2, <1>4, <1>17
<1>19. Crits(p)'
  <2>1. pc = "phase1" => \A s \in t[p].tp_reg_list : s >= a => crit'[s] = p
    <3>1. \A s \in t[p].tp_reg_list : s >= r => crit[s] = p
      BY <1>0, <1>1 DEF Proc, Crits, HasCrit
    <3>2. \A s \in t[p].tp_reg_list : pc = "phase1" /\ s >= a => s >= r /\ s # r
      BY <1>0, <1>2, <1>4, RegionNumbers
    <3> QED BY <3>1, <3>2, <1>0, <1>3
  <2> QED BY <2>1, <1>3, <1>12, <1>18 DEF Crits, RecoveryPoints, RecoversFor, HasCrit
<1>20. OwnTn(p)'
  <2> SUFFICES ASSUME NEW s \in Regions, Updated(p, s), crit'[s] # p
               PROVE  y.start_tn[s] < curr_tn'[s]
    BY <1>12 DEF OwnTn, HasCrit
  <2>1. CASE s = r
    BY <2>1, <1>5, <1>9, <1>13
  <2>2. CASE s # r
    <3>1. t[p].try.start_tn[s] < curr_tn[s]
      BY <2>2, <1>0, <1>1, <1>3 DEF Proc, OwnTn, HasCrit, CommitPoints
    <3> QED BY <3>1, <2>2, <1>9, <1>13
  <2> QED BY <2>1, <2>2
<1>21. ASSUME NEW s \in Regions PROVE EarlyTn(s)'
  <2>0. EarlyTn(s)
    BY DEF IInv
  <2>1. CASE s = r
    <3>1. Ahead(p, s) <=> Updated(p, s)
      BY <1>1 DEF Ahead
    <3>2. crit'[s] = NoPid
      BY <2>1, <1>2, <1>3
    <3> QED BY <3>1, <3>2, <2>0, <2>1, <1>1, <1>2, <1>13, TpCommitAssumption DEF EarlyTn
  <2>2. CASE s # r /\ crit[s] = p
    <3>1. Ahead(p, s)' <=> Ahead(p, s)
      BY <2>2, <1>1, <1>12, <1>18 DEF Ahead
    <3>2. crit'[s] = p /\ curr_tn'[s] = curr_tn[s]
      BY <2>2, <1>3, <1>13
    <3> QED BY <3>1, <3>2, <2>0, <2>2, <1>1 DEF EarlyTn
  <2>3. CASE crit[s] # p
    BY <2>0, <2>3, <1>0, <1>3, <1>14, <1>15, EarlyRest
  <2> QED BY <2>1, <2>2, <2>3
<1>22. ASSUME NEW b \in Blocks PROVE BlkTn(b)'
  <2>0. BlkTn(b) /\ Reg[b] \in Regions
    BY TpCommitAssumption DEF IInv
  <2>1. buf[b].tn \in Nat /\ stopped[b].tn \in Nat /\ bt[b] \in Nat
    BY <1>0 DEF Types, BlkTypes, Bufs
  <2>2. CASE Reg[b] = r
    <3>1. CASE Updated(p, r)
      BY <3>1, <2>0, <2>1, <2>2, <1>1, <1>5, <1>13 DEF BlkTn
    <3>2. CASE ~Updated(p, r)
      <4>1. bt[b] # curr_tn[r]
        BY <3>2, <2>0, <2>2, <1>1, <1>2 DEF BlkTn, Settling
      <4> QED BY <4>1, <3>2, <2>0, <2>2, <1>1, <1>13 DEF BlkTn
    <3> QED BY <3>1, <3>2
  <2>3. CASE Reg[b] # r /\ crit[Reg[b]] = p
    <3>1. Settling(p, Reg[b]) => Settling(p, Reg[b])'
      BY <2>0, <2>3, <1>1, <1>12, <1>18 DEF Settling
    <3>2. crit'[Reg[b]] = p /\ curr_tn'[Reg[b]] = curr_tn[Reg[b]]
      BY <2>0, <2>3, <1>3, <1>13
    <3> QED BY <3>1, <3>2, <2>0, <2>3, <1>1 DEF BlkTn
  <2>4. CASE crit[Reg[b]] # p
    <3>1. buf'[b].tn < curr_tn[Reg[b]] /\ stopped'[b].tn < curr_tn[Reg[b]]
      BY <2>0, <1>1 DEF BlkTn
    <3> QED BY <3>1, <2>0, <2>4, <1>0, <1>1, <1>14, <1>15, BlkRest
  <2> QED BY <2>2, <2>3, <2>4
<1> QED BY <1>12, <1>14, <1>15, <1>16, <1>19, <1>20, <1>21, <1>22, CommitFinal, Combine
        DEF Proc, CommitPoints

\* What is known in phase 2: the crits of the updated regions are released, and what
\* was their curr_tn is over.
LEMMA Phase2Is ==
    ASSUME IInv, NEW p \in Pids, At(p, "phase2")
    PROVE  /\ t[p].at \in t[p].tp_reg_list /\ t[p].at \in Regions
           /\ \A s \in Regions : Updated(p, s) =>
                ~HasCrit(p, s) /\ t[p].try.start_tn[s] < curr_tn[s]
           /\ \A b \in Phase2Blocks(p, t[p].at) :
                b \in Blocks /\ Reg[b] = t[p].at /\ Updated(p, t[p].at)
<1>0. /\ Types /\ Proc(p) /\ t[p].tp_reg_list \subseteq Regions
  BY Known
<1>1. t[p].at \in t[p].tp_reg_list /\ t[p].at \in Regions
  BY <1>0 DEF Proc, Place, At, CommitPoints
<1>2. \A s \in Regions : Updated(p, s) =>
        ~HasCrit(p, s) /\ t[p].try.start_tn[s] < curr_tn[s]
  BY <1>0 DEF Proc, Crits, OwnTn, At, CommitPoints
<1>3. \A b \in Phase2Blocks(p, t[p].at) :
        b \in Blocks /\ Reg[b] = t[p].at /\ Updated(p, t[p].at)
  BY <1>0 DEF Phase2Blocks, BlocksOf, Updated, Proc, Notes
<1> QED BY <1>1, <1>2, <1>3

\* Step CMT18 changes buffers outside crit, with a tn that is over.
LEMMA BgUpdatePhase2Inv == ASSUME IInv, NEW p \in Pids, BgUpdatePhase2(p) PROVE IInv'
<1> USE DEF At
<1> DEFINE r == t[p].at
           tn == t[p].try.start_tn[r]
<1>0. /\ Types /\ Proc(p) /\ t[p] \in Txns /\ t[p].try \in Tries
      /\ t[p].tp_reg_list \subseteq Regions
  BY Known
<1>1. /\ t[p].pc = "phase2"
      /\ UNCHANGED <<prog, curr_tn, early_tn, crit, wc_blocked, last_wcs_recover_tn, pidcnt,
                     bt, cycle, before, log>>
  BY DEF BgUpdatePhase2, regVars, histVars
<1>2. PICK b \in Phase2Blocks(p, r) :
        /\ \/ buf' = [buf EXCEPT ![b].tn = tn]
           \/ \E v \in {Garbage, p} : buf' = [buf EXCEPT ![b].val = v]
           \/ buf' = buf
        /\ in_tend' \in {in_tend, [in_tend EXCEPT ![b] = NoPid]}
        /\ stopped' \in {stopped, [stopped EXCEPT ![b] = [tn |-> tn, val |-> p]]}
        /\ t' = t \/ t' = [t EXCEPT ![p].try.build = @ \ {b}]
  <2>1. PICK b \in Phase2Blocks(p, r) :
        \/ /\ buf' = [buf EXCEPT ![b].tn = tn] /\ UNCHANGED <<in_tend, stopped, t>>
        \/ /\ buf' = [buf EXCEPT ![b].val = Garbage] /\ UNCHANGED <<in_tend, stopped, t>>
        \/ /\ buf' = [buf EXCEPT ![b].val = p] /\ in_tend' = [in_tend EXCEPT ![b] = NoPid]
           /\ t' = [t EXCEPT ![p].try.build = @ \ {b}] /\ UNCHANGED stopped
        \/ /\ stopped' = [stopped EXCEPT ![b] = [tn |-> tn, val |-> p]]
           /\ t' = [t EXCEPT ![p].try.build = @ \ {b}] /\ UNCHANGED <<buf, in_tend>>
    BY Zenon DEF BgUpdatePhase2
  <2> HIDE DEF r, tn
  <2> QED BY <2>1, Zenon
<1>3. /\ r \in t[p].tp_reg_list /\ r \in Regions /\ b \in Blocks /\ Reg[b] = r
      /\ Updated(p, r) /\ tn < curr_tn[r] /\ tn \in Nat
  BY <1>0, <1>1, Phase2Is DEF Tries
<1>4. /\ buf' \in [Blocks -> Bufs]
      /\ \A a \in Blocks : buf'[a].tn = buf[a].tn \/ (a = b /\ buf'[a].tn = tn)
  <2>1. buf \in [Blocks -> Bufs] /\ Garbage \in Vals /\ p \in Vals
    BY <1>0 DEF Types, BlkTypes, Vals
  <2> QED BY <2>1, <1>2, <1>3 DEF Bufs
<1>5. /\ stopped' \in [Blocks -> Bufs] /\ in_tend' \in [Blocks -> Pids \union {NoPid}]
      /\ \A a \in Blocks : in_tend'[a] \in {in_tend[a], NoPid}
      /\ \A a \in Blocks : stopped'[a].tn = stopped[a].tn \/ (a = b /\ stopped'[a].tn = tn)
  <2>1. /\ stopped \in [Blocks -> Bufs] /\ in_tend \in [Blocks -> Pids \union {NoPid}]
        /\ p \in Vals
    BY <1>0 DEF Types, BlkTypes, Vals
  <2> QED BY <2>1, <1>2, <1>3 DEF Bufs
<1> DEFINE y == [t[p].try EXCEPT !.build = t'[p].try.build]
           x == [t[p] EXCEPT !.try = y]
<1>6. t' = [t EXCEPT ![p] = x] /\ t'[p].try.build \subseteq t[p].try.build
  <2>1. CASE t' = t
    BY <2>1, <1>0 DEF Types, TxnType, Txns, Tries
  <2>2. CASE t' = [t EXCEPT ![p].try.build = @ \ {b}]
    BY <2>2, <1>0 DEF Types, TxnType, Txns, Tries
  <2> QED BY <1>2, <2>1, <2>2
<1>7. y \in Tries
  BY <1>0, <1>6 DEF Tries
<1>8. /\ y.op = t[p].try.op /\ y.start_tn = t[p].try.start_tn /\ y.hist = t[p].try.hist
      /\ y.cw_set = t[p].try.cw_set /\ y.todo = t[p].try.todo
      /\ y.build \subseteq t[p].try.build
  BY <1>0, <1>6 DEF Tries
<1> HIDE DEF y
<1>9. x \in Txns
  BY <1>0, <1>7 DEF Txns
<1>10. t'[p] = x /\ TxnType' /\ \A q \in Pids : q # p => t'[q] = t[q]
  <2> HIDE DEF x
  <2> QED BY <1>0, <1>6, <1>9 DEF Types, TxnType
<1>11. /\ t'[p].pc = "phase2" /\ t'[p].try = y /\ t'[p].at = r
       /\ t'[p].tp_reg_list = t[p].tp_reg_list
       /\ \A s : Updated(p, s)' <=> Updated(p, s)
  BY <1>0, <1>1, <1>8, <1>10 DEF Txns, Updated
<1> HIDE DEF x
<1>12. Types'
  BY <1>0, <1>1, <1>4, <1>5, <1>10 DEF Types, RegTypes, BlkTypes, HistTypes, ProgType
<1>13. Mine(p)
  BY <1>1, <1>5, <1>10 DEF Mine
<1>14. Notes(p)' /\ Place(p)'
  BY <1>0, <1>1, <1>3, <1>8, <1>11 DEF Proc, Notes, Place, OpPoints, CommitPoints,
      RecoveryPoints, RecoversFor
<1>15. Crits(p)' /\ OwnTn(p)'
  BY <1>0, <1>1, <1>8, <1>11 DEF Proc, Crits, OwnTn, CommitPoints, RecoveryPoints,
      RecoversFor, HasCrit
<1>16. \A s : ~Ahead(p, s) /\ ~Ahead(p, s)' /\ ~Settling(p, s) /\ ~Settling(p, s)'
  BY <1>1, <1>11 DEF Ahead, Settling
<1>17. ASSUME NEW s \in Regions PROVE EarlyTn(s)'
  <2>0. EarlyTn(s)
    BY DEF IInv
  <2>1. CASE crit[s] = p
    BY <2>0, <2>1, <1>1, <1>16 DEF EarlyTn
  <2>2. CASE crit[s] # p
    BY <2>0, <2>2, <1>0, <1>1, <1>12, <1>13, EarlyRest
  <2> QED BY <2>1, <2>2
<1>18. ASSUME NEW a \in Blocks PROVE BlkTn(a)'
  <2>0. BlkTn(a)
    BY DEF IInv
  <2>1. buf'[a].tn < curr_tn[Reg[a]] /\ stopped'[a].tn < curr_tn[Reg[a]] /\ bt'[a] = bt[a]
    BY <2>0, <1>1, <1>3, <1>4, <1>5 DEF BlkTn
  <2>2. CASE crit[Reg[a]] = p
    BY <2>0, <2>1, <2>2, <1>1, <1>16 DEF BlkTn
  <2>3. CASE crit[Reg[a]] # p
    BY <2>0, <2>1, <2>3, <1>0, <1>12, <1>13, BlkRest
  <2> QED BY <2>2, <2>3
<1> QED BY <1>11, <1>12, <1>13, <1>14, <1>15, <1>17, <1>18, CommitFinal, Combine
        DEF Proc, CommitPoints

\* Phase 2 is over in a region.
LEMMA Cmt19Inv == ASSUME IInv, NEW p \in Pids, Cmt19(p) PROVE IInv'
<1> USE DEF At
<1> DEFINE r == t[p].at
           n == NextReg(p, r)
<1>0. /\ Types /\ Proc(p) /\ t[p] \in Txns /\ t[p].try \in Tries
      /\ t[p].tp_reg_list \subseteq Regions
  BY Known
<1>1. /\ t[p].pc = "phase2" /\ r \in t[p].tp_reg_list /\ r \in Regions
      /\ wc_blocked' = IF t[p].clnup /\ p \in pidcnt[r]
                       THEN [wc_blocked EXCEPT ![r] = TRUE] ELSE wc_blocked
      /\ pidcnt' = [pidcnt EXCEPT ![r] = @ \ {p}]
      /\ UNCHANGED <<prog, curr_tn, early_tn, crit, last_wcs_recover_tn,
                     bt, buf, in_tend, cycle, stopped, before, log>>
      /\ t' = [t EXCEPT ![p].at = n, ![p].pc = IF n = NoRegion THEN "done" ELSE "phase2"]
  BY Phase2Is DEF Cmt19, blkVars, histVars
<1>2. n \in t[p].tp_reg_list \union {NoRegion}
  BY <1>0, <1>1, NextRegIs
<1> HIDE DEF n
<1> DEFINE pc == IF n = NoRegion THEN "done" ELSE "phase2"
           x == [t[p] EXCEPT !.at = n, !.pc = pc]
<1>3. /\ pc \in {"done", "phase2"}
      /\ pc = "phase2" => n \in t[p].tp_reg_list
      /\ t' = [t EXCEPT ![p] = x]
  BY <1>0, <1>1, <1>2 DEF Types, TxnType, Txns
<1> HIDE DEF pc
<1>4. x \in Txns
  BY <1>0, <1>2, <1>3 DEF Txns, Points, CommitPoints
<1>5. t'[p] = x /\ TxnType' /\ \A q \in Pids : q # p => t'[q] = t[q]
  <2> HIDE DEF x
  <2> QED BY <1>0, <1>3, <1>4 DEF Types, TxnType
<1>6. /\ t'[p].pc = pc /\ t'[p].try = t[p].try /\ t'[p].at = n
      /\ t'[p].tp_reg_list = t[p].tp_reg_list
      /\ \A s : Updated(p, s)' <=> Updated(p, s)
  BY <1>0, <1>5 DEF Txns, Updated
<1> HIDE DEF x
<1>7. Types'
  <2>1. wc_blocked' \in [Regions -> BOOLEAN] /\ pidcnt' \in [Regions -> SUBSET Pids]
    BY <1>0, <1>1 DEF Types, RegTypes
  <2> QED BY <2>1, <1>0, <1>1, <1>5 DEF Types, RegTypes, BlkTypes, HistTypes, ProgType
<1>8. Mine(p)
  BY <1>1, <1>5 DEF Mine
<1>9. Quiet(p)
  BY <1>1, <1>3, <1>6 DEF Quiet, Ahead, Settling
<1>10. Notes(p)' /\ Place(p)'
  BY <1>0, <1>1, <1>3, <1>6 DEF Proc, Notes, Place, OpPoints, CommitPoints,
      RecoveryPoints, RecoversFor
<1>11. Crits(p)' /\ OwnTn(p)'
  BY <1>0, <1>1, <1>3, <1>6 DEF Proc, Crits, OwnTn, CommitPoints, RecoveryPoints,
      RecoversFor, HasCrit
<1> QED BY <1>3, <1>6, <1>7, <1>8, <1>9, <1>10, <1>11, CommitFinal, CombineQuiet
        DEF Proc, CommitPoints

\* secshr_db_clnup finishes Steps CMT08 to CMT12 in a region whose crit is held.
LEMMA ClnupCmt12Inv == ASSUME IInv, NEW p \in Pids, ClnupCmt12(p) PROVE IInv'
<1> USE DEF At
<1> DEFINE r == t[p].at
<1>0. /\ Types /\ Proc(p) /\ t[p] \in Txns /\ t[p].try \in Tries
      /\ t[p].tp_reg_list \subseteq Regions
  BY Known
<1>1. /\ t[p].pc = "clnup" /\ crit[r] = p /\ Updated(p, r)
      /\ stopped' = [b \in Blocks |-> IF b \in Phase1Blocks(p, r)
                                      THEN [tn |-> curr_tn[r], val |-> Garbage]
                                      ELSE stopped[b]]
      /\ pidcnt' = [pidcnt EXCEPT ![r] = @ \union {p}]
      /\ curr_tn' = [curr_tn EXCEPT ![r] = @ + 1]
      /\ t' = [t EXCEPT ![p].pc = "clnup_cmt14", ![p].try.start_tn[r] = curr_tn[r],
                        ![p].try.todo = @ \ BlocksOf(r)]
      /\ UNCHANGED <<prog, early_tn, crit, wc_blocked, last_wcs_recover_tn, bt, buf,
                     in_tend, cycle, before, log>>
  BY DEF ClnupCmt12, HasCrit, histVars
<1>2. r \in t[p].tp_reg_list /\ r \in Regions
  BY <1>0, <1>1 DEF Proc, Place, CommitPoints
<1>3. curr_tn[r] \in Nat \ {0} /\ curr_tn[r] # NoTn
  BY <1>0, <1>2 DEF Types, RegTypes, NoTn
<1> DEFINE y == [t[p].try EXCEPT !.start_tn[r] = curr_tn[r], !.todo = @ \ BlocksOf(r)]
           x == [t[p] EXCEPT !.pc = "clnup_cmt14", !.try = y]
<1>4. y \in Tries
  BY <1>0, <1>3 DEF Tries
<1>5. t' = [t EXCEPT ![p] = x]
  BY <1>0, <1>1 DEF Types, TxnType, Txns
<1>6. /\ y.op = t[p].try.op /\ y.hist = t[p].try.hist
      /\ y.start_tn = [t[p].try.start_tn EXCEPT ![r] = curr_tn[r]]
      /\ y.cw_set = t[p].try.cw_set /\ y.todo \subseteq t[p].try.todo
      /\ y.build = t[p].try.build
  BY <1>0 DEF Tries
<1>7. \A s \in Regions : y.start_tn[s] = IF s = r THEN curr_tn[r] ELSE t[p].try.start_tn[s]
  BY <1>0, <1>6 DEF Tries
<1> HIDE DEF y
<1>8. x \in Txns
  BY <1>0, <1>4 DEF Txns, Points, CommitPoints
<1>9. t'[p] = x /\ TxnType' /\ \A q \in Pids : q # p => t'[q] = t[q]
  <2> HIDE DEF x
  <2> QED BY <1>0, <1>5, <1>8 DEF Types, TxnType
<1>10. /\ t'[p].pc = "clnup_cmt14" /\ t'[p].try = y /\ t'[p].at = r
       /\ t'[p].tp_reg_list = t[p].tp_reg_list
       /\ \A s : Updated(p, s)' <=> Updated(p, s)
  BY <1>0, <1>6, <1>9 DEF Txns, Updated
<1> HIDE DEF x
<1>11. /\ curr_tn' \in [Regions -> Nat \ {0}] /\ pidcnt' \in [Regions -> SUBSET Pids]
       /\ \A s \in Regions : s # r => curr_tn'[s] = curr_tn[s]
       /\ curr_tn'[r] = curr_tn[r] + 1
  BY <1>0, <1>1, <1>2, <1>3 DEF Types, RegTypes
<1>12. /\ stopped' \in [Blocks -> Bufs]
       /\ \A b \in Blocks : \/ stopped'[b].tn = stopped[b].tn
                            \/ Reg[b] = r /\ stopped'[b].tn = curr_tn[r]
  <2>1. stopped \in [Blocks -> Bufs] /\ Garbage \in Vals
    BY <1>0 DEF Types, BlkTypes, Vals
  <2>2. \A b \in Phase1Blocks(p, r) : Reg[b] = r
    BY DEF Phase1Blocks, BlocksOf
  <2> QED BY <2>1, <2>2, <1>1, <1>3 DEF Bufs
<1>13. Types'
  BY <1>0, <1>1, <1>9, <1>11, <1>12 DEF Types, RegTypes, BlkTypes, HistTypes, ProgType
<1>14. Mine(p)
  <2>1. \A s \in Regions : curr_tn'[s] = curr_tn[s] \/ (crit[s] = p /\ curr_tn'[s] > curr_tn[s])
    BY <1>1, <1>3, <1>11
  <2> QED BY <2>1, <1>1, <1>9 DEF Mine
<1>15. Notes(p)' /\ Place(p)'
  <2>1. Notes(p)'
    <3>1. Notes(p) /\ \A b \in Blocks : Reg[b] \in Regions
      BY <1>0, TpCommitAssumption DEF Proc
    <3>2. t[p].try.cw_set \subseteq Blocks
      BY <1>0 DEF Tries
    <3>3. \A s \in Regions : t[p].try.start_tn[s] # NoTn => y.start_tn[s] # NoTn
      BY <1>3, <1>7
    <3>4. \A s \in Regions : y.start_tn[s] # NoTn => s \in t[p].tp_reg_list
      BY <1>2, <1>7, <3>1 DEF Notes
    <3> QED BY <3>1, <3>2, <3>3, <3>4, <1>6, <1>10 DEF Notes
  <2>2. Place(p)'
    BY <1>0, <1>1, <1>2, <1>10 DEF Proc, Place, OpPoints, CommitPoints, RecoveryPoints,
        RecoversFor
  <2> QED BY <2>1, <2>2
<1>16. Crits(p)'
  BY <1>0, <1>1, <1>10 DEF Proc, Crits, RecoveryPoints, RecoversFor, HasCrit
<1>17. OwnTn(p)'
  <2> SUFFICES ASSUME NEW s \in Regions, Updated(p, s), crit[s] = p => s = r
               PROVE  y.start_tn[s] < curr_tn'[s]
    BY <1>1, <1>10 DEF OwnTn, HasCrit
  <2>1. CASE s = r
    BY <2>1, <1>3, <1>7, <1>11
  <2>2. CASE s # r
    <3>1. t[p].try.start_tn[s] < curr_tn[s]
      BY <2>2, <1>0, <1>1 DEF Proc, OwnTn, HasCrit, CommitPoints
    <3> QED BY <3>1, <2>2, <1>7, <1>11
  <2> QED BY <2>1, <2>2
<1>18. ASSUME NEW s \in Regions PROVE EarlyTn(s)'
  <2>0. EarlyTn(s)
    BY DEF IInv
  <2>1. CASE s = r
    <3>1. Ahead(p, s) /\ ~Ahead(p, s)'
      BY <2>1, <1>1, <1>10 DEF Ahead
    <3> QED BY <3>1, <2>0, <2>1, <1>1, <1>11 DEF EarlyTn
  <2>2. CASE s # r /\ crit[s] = p
    <3>1. Ahead(p, s)' <=> Ahead(p, s)
      BY <2>2, <1>1, <1>10 DEF Ahead
    <3> QED BY <3>1, <2>0, <2>2, <1>1, <1>11 DEF EarlyTn
  <2>3. CASE crit[s] # p
    BY <2>0, <2>3, <1>0, <1>1, <1>13, <1>14, EarlyRest
  <2> QED BY <2>1, <2>2, <2>3
<1>19. ASSUME NEW b \in Blocks PROVE BlkTn(b)'
  <2>0. BlkTn(b) /\ Reg[b] \in Regions
    BY TpCommitAssumption DEF IInv
  <2>1. buf[b].tn \in Nat /\ stopped[b].tn \in Nat /\ bt[b] \in Nat
    BY <1>0 DEF Types, BlkTypes, Bufs
  <2>2. CASE Reg[b] = r
    BY <2>0, <2>1, <2>2, <1>1, <1>3, <1>11, <1>12 DEF BlkTn
  <2>3. CASE Reg[b] # r /\ crit[Reg[b]] = p
    <3>1. Settling(p, Reg[b]) => Settling(p, Reg[b])'
      BY <2>3, <1>1, <1>10 DEF Settling
    <3>2. curr_tn'[Reg[b]] = curr_tn[Reg[b]] /\ stopped'[b].tn = stopped[b].tn
      BY <2>0, <2>3, <1>11, <1>12
    <3> QED BY <3>1, <3>2, <2>0, <2>3, <1>1 DEF BlkTn
  <2>4. CASE crit[Reg[b]] # p
    <3>1. buf'[b].tn < curr_tn[Reg[b]] /\ stopped'[b].tn < curr_tn[Reg[b]] /\ bt'[b] = bt[b]
      BY <2>0, <2>4, <1>1, <1>12 DEF BlkTn
    <3> QED BY <3>1, <2>0, <2>4, <1>0, <1>13, <1>14, BlkRest
  <2> QED BY <2>2, <2>3, <2>4
<1> QED BY <1>10, <1>13, <1>14, <1>15, <1>16, <1>17, <1>18, <1>19, CommitFinal, Combine
        DEF Proc, CommitPoints

\* secshr_db_clnup is done with a region, and releases its crit.
LEMMA AfterClnupInv ==
    ASSUME IInv, NEW p \in Pids, t[p].pc \in {"clnup", "clnup_cmt14"},
           At(p, "clnup") => ~(HasCrit(p, t[p].at) /\ Updated(p, t[p].at)),
           RelCrit(p, {t[p].at}), t' = AfterClnup(p, t[p].at),
           wc_blocked' \in [Regions -> BOOLEAN],
           UNCHANGED <<prog, curr_tn, early_tn, last_wcs_recover_tn, pidcnt,
                       bt, buf, in_tend, cycle, stopped, before, log>>
    PROVE  IInv'
<1> USE DEF At
<1> DEFINE r == t[p].at
           n == NextReg(p, r)
<1>0. /\ Types /\ Proc(p) /\ t[p] \in Txns /\ t[p].try \in Tries
      /\ t[p].tp_reg_list \subseteq Regions
  BY Known
<1>2. /\ r \in t[p].tp_reg_list /\ r \in Regions
      /\ \A s \in Regions : Updated(p, s) => s \in t[p].tp_reg_list
  BY <1>0, UpdatedIs DEF Proc, Place, CommitPoints
<1>3. /\ crit' \in [Regions -> Pids \union {NoPid}]
      /\ \A s \in Regions : \/ crit'[s] = crit[s]
                            \/ crit[s] \in {p, NoPid} /\ crit'[s] \in {p, NoPid}
      /\ \A s \in Regions : (crit'[s] = p) <=> (crit[s] = p /\ s # r)
  <2>1. \A s \in Regions : HasCrit(p, s)' <=> HasCrit(p, s) /\ s \notin {r}
    BY <1>0, RelCritIs
  <2> QED BY <2>1, <1>0, RelCritIs DEF HasCrit
<1>4. PICK pc \in {"phase2", "clnup"}, a \in t[p].tp_reg_list :
        /\ t' = [t EXCEPT ![p].pc = pc, ![p].at = a]
        /\ pc = "phase2" => \A s \in t[p].tp_reg_list : ~(s > r)
        /\ pc = "clnup" => a > r /\ \A s \in t[p].tp_reg_list : s > r <=> s >= a
  <2>1. CASE n = NoRegion
    BY <1>0, <1>2, <2>1, OnFrom DEF AfterClnup
  <2>2. CASE n # NoRegion
    <3>1. t' = [t EXCEPT ![p].pc = "clnup", ![p].at = n]
      BY <2>2 DEF AfterClnup
    <3>2. n \in t[p].tp_reg_list /\ n > r /\ \A s \in t[p].tp_reg_list : s > r <=> s >= n
      BY <1>0, <1>2, <2>2, OnFrom
    <3> HIDE DEF n, r
    <3> QED BY <3>1, <3>2
  <2> QED BY <2>1, <2>2
<1> HIDE DEF n
<1> DEFINE x == [t[p] EXCEPT !.pc = pc, !.at = a]
<1>5. t' = [t EXCEPT ![p] = x]
  BY <1>0, <1>4 DEF Types, TxnType, Txns
<1>6. x \in Txns
  BY <1>0 DEF Txns, Points, CommitPoints
<1>7. t'[p] = x /\ TxnType' /\ \A q \in Pids : q # p => t'[q] = t[q]
  <2> HIDE DEF x
  <2> QED BY <1>0, <1>5, <1>6 DEF Types, TxnType
<1>8. /\ t'[p].pc = pc /\ t'[p].try = t[p].try /\ t'[p].at = a
      /\ t'[p].tp_reg_list = t[p].tp_reg_list
      /\ \A s : Updated(p, s)' <=> Updated(p, s)
  BY <1>0, <1>7 DEF Txns, Updated
<1> HIDE DEF x
<1>9. Types'
  BY <1>0, <1>3, <1>7 DEF Types, RegTypes, BlkTypes, HistTypes, ProgType
<1>10. Mine(p)
  BY <1>3, <1>7 DEF Mine
<1>11. Notes(p)' /\ Place(p)'
  BY <1>0, <1>8 DEF Proc, Notes, Place, OpPoints, CommitPoints, RecoveryPoints, RecoversFor
<1>12. \A s \in Regions : Updated(p, s) /\ crit[s] = p => s >= r
  BY <1>0 DEF Proc, Crits, HasCrit
<1>13. \A s \in Regions : Updated(p, s) /\ crit[s] = p /\ s # r => pc = "clnup" /\ s >= a
  <2>1. \A s \in Regions : s >= r /\ s # r => s > r
    BY <1>2, RegionNumbers
  <2> QED BY <2>1, <1>2, <1>4, <1>12
<1>14. Crits(p)'
  BY <1>3, <1>8, <1>13 DEF Crits, RecoveryPoints, RecoversFor, HasCrit
<1>15. OwnTn(p)'
  <2> SUFFICES ASSUME NEW s \in Regions, Updated(p, s), crit'[s] # p
               PROVE  t[p].try.start_tn[s] < curr_tn[s]
    BY <1>8 DEF OwnTn, HasCrit
  <2>1. crit[s] = p => At(p, "clnup_cmt14") /\ s = r
    BY <1>3 DEF HasCrit
  <2> QED BY <2>1, <1>0 DEF Proc, OwnTn, HasCrit, CommitPoints
<1>16. \A s \in Regions : s = r /\ crit[s] = p => ~Ahead(p, s) /\ ~Settling(p, s)
  BY DEF Ahead, Settling, HasCrit
<1>17. ASSUME NEW s \in Regions PROVE EarlyTn(s)'
  <2>0. EarlyTn(s)
    BY DEF IInv
  <2>1. CASE s = r /\ crit[s] = p
    <3>1. crit'[s] = NoPid
      BY <2>1, <1>3
    <3> QED BY <3>1, <2>0, <2>1, <1>16, TpCommitAssumption DEF EarlyTn
  <2>2. CASE s # r /\ crit[s] = p
    <3>1. Ahead(p, s)' <=> Ahead(p, s)
      BY <2>2, <1>8, <1>13 DEF Ahead
    <3>2. crit'[s] = p
      BY <2>2, <1>3
    <3> QED BY <3>1, <3>2, <2>0, <2>2 DEF EarlyTn
  <2>3. CASE crit[s] # p
    BY <2>0, <2>3, <1>0, <1>3, <1>9, <1>10, EarlyRest
  <2> QED BY <2>1, <2>2, <2>3
<1>18. ASSUME NEW b \in Blocks PROVE BlkTn(b)'
  <2>0. BlkTn(b) /\ Reg[b] \in Regions
    BY TpCommitAssumption DEF IInv
  <2>1. CASE Reg[b] = r /\ crit[Reg[b]] = p
    BY <2>0, <2>1, <1>16 DEF BlkTn
  <2>2. CASE Reg[b] # r /\ crit[Reg[b]] = p
    <3>1. Settling(p, Reg[b]) => Settling(p, Reg[b])'
      BY <2>0, <2>2, <1>8, <1>13 DEF Settling
    <3>2. crit'[Reg[b]] = p
      BY <2>0, <2>2, <1>3
    <3> QED BY <3>1, <3>2, <2>0, <2>2 DEF BlkTn
  <2>3. CASE crit[Reg[b]] # p
    <3>1. buf'[b].tn < curr_tn[Reg[b]] /\ stopped'[b].tn < curr_tn[Reg[b]]
      BY <2>0 DEF BlkTn
    <3> QED BY <3>1, <2>0, <2>3, <1>0, <1>9, <1>10, BlkRest
  <2> QED BY <2>1, <2>2, <2>3
<1> QED BY <1>8, <1>9, <1>10, <1>11, <1>14, <1>15, <1>17, <1>18, CommitFinal, Combine
        DEF Proc, CommitPoints

\* The next process that gets crit has to recover the cache.
LEMMA ClnupCmt14Inv == ASSUME IInv, NEW p \in Pids, ClnupCmt14(p) PROVE IInv'
<1>1. wc_blocked' \in [Regions -> BOOLEAN]
  BY Known DEF ClnupCmt14, Types, RegTypes
<1> QED BY <1>1, AfterClnupInv DEF ClnupCmt14, At, blkVars, histVars

\* A region that was only read, or whose Step CMT14 is done.
LEMMA ClnupSkipInv == ASSUME IInv, NEW p \in Pids, ClnupSkip(p) PROVE IInv'
<1>1. wc_blocked' \in [Regions -> BOOLEAN]
  BY Known DEF ClnupSkip, Types, RegTypes
<1> QED BY <1>1, AfterClnupInv DEF ClnupSkip, At, blkVars, histVars

----------------------------------------------------------------------------
(* Errors in the commit.                                                   *)

\* An error before Step CMT08: early_tn goes back to curr_tn in every updated region.
LEMMA RollBackInv == ASSUME IInv, NEW p \in Pids, RollBack(p) PROVE IInv'
<1> USE DEF At
<1> DEFINE x == [t[p] EXCEPT !.pc = "done"]
<1>0. /\ Types /\ Proc(p) /\ t[p] \in Txns /\ t[p].try \in Tries
      /\ t[p].tp_reg_list \subseteq Regions
  BY Known
<1>1. /\ t[p].pc = "cmt04" /\ RelCrit(p, t[p].tp_reg_list)
      /\ early_tn' = [r \in Regions |-> IF Updated(p, r) /\ early_tn[r] = curr_tn[r] + 1
                                        THEN curr_tn[r] ELSE early_tn[r]]
      /\ UNCHANGED <<prog, curr_tn, wc_blocked, last_wcs_recover_tn, pidcnt,
                     bt, buf, in_tend, cycle, stopped, before, log>>
      /\ t' = [t EXCEPT ![p] = x]
  BY <1>0 DEF RollBack, Go, blkVars, Types, TxnType, Txns
<1>2. /\ \A s \in t[p].tp_reg_list : crit[s] = p
      /\ \A s \in Regions : Updated(p, s) => s \in t[p].tp_reg_list
  BY <1>0, <1>1, UpdatedIs DEF Proc, Crits, HasCrit
<1>3. /\ crit' \in [Regions -> Pids \union {NoPid}]
      /\ \A s \in Regions : \/ crit'[s] = crit[s]
                            \/ crit[s] \in {p, NoPid} /\ crit'[s] \in {p, NoPid}
      /\ \A s \in Regions : HasCrit(p, s)' <=> HasCrit(p, s) /\ s \notin t[p].tp_reg_list
  BY <1>0, <1>1, RelCritIs
<1>4. x \in Txns
  BY <1>0 DEF Txns, Points
<1>5. t'[p] = x /\ TxnType' /\ \A q \in Pids : q # p => t'[q] = t[q]
  <2> HIDE DEF x
  <2> QED BY <1>0, <1>1, <1>4 DEF Types, TxnType
<1>6. /\ t'[p].pc = "done" /\ t'[p].try = t[p].try
      /\ t'[p].tp_reg_list = t[p].tp_reg_list
  BY <1>0, <1>5 DEF Txns
<1> HIDE DEF x
<1>7. Types'
  <2>1. early_tn' \in [Regions -> Nat]
    BY <1>0, <1>1 DEF Types, RegTypes
  <2> QED BY <2>1, <1>0, <1>1, <1>3, <1>5 DEF Types, RegTypes, BlkTypes, HistTypes, ProgType
<1>8. Mine(p)
  BY <1>0, <1>1, <1>2, <1>3, <1>5 DEF Mine
<1>9. Proc(p)'
  <2>1. Notes(p)' /\ Place(p)'
    BY <1>0, <1>6 DEF Proc, Notes, Place, OpPoints, CommitPoints, RecoveryPoints, RecoversFor
  <2>2. Crits(p)' /\ OwnTn(p)'
    BY <1>6 DEF Crits, OwnTn, CommitPoints, RecoveryPoints, RecoversFor
  <2> QED BY <2>1, <2>2, <1>6, CommitFinal DEF Proc
<1>10. \A s : ~Ahead(p, s)' /\ ~Settling(p, s)' /\ ~Settling(p, s)
  BY <1>1, <1>6 DEF Ahead, Settling
<1>11. ASSUME NEW s \in Regions PROVE EarlyTn(s)'
  <2>0. EarlyTn(s) /\ curr_tn[s] \in Nat
    BY <1>0 DEF IInv, Types, RegTypes
  <2>1. CASE crit[s] = p
    <3>1. early_tn'[s] = curr_tn[s]
      <4>1. CASE Updated(p, s)
        BY <4>1, <2>0, <2>1, <1>1 DEF EarlyTn
      <4>2. CASE ~Updated(p, s)
        <5>1. ~Ahead(p, s)
          BY <4>2, <1>1 DEF Ahead
        <5> QED BY <5>1, <4>2, <2>0, <2>1, <1>1 DEF EarlyTn
      <4> QED BY <4>1, <4>2
    <3>2. crit'[s] \in {p, NoPid}
      BY <2>1, <1>3
    <3>3. ~(crit[s] \in Pids /\ Ahead(crit[s], s))'
      BY <3>2, <1>10, TpCommitAssumption
    <3> QED BY <3>1, <3>3, <1>1 DEF EarlyTn
  <2>2. CASE crit[s] # p
    BY <2>0, <2>2, <1>0, <1>7, <1>8, <1>10, EarlyRest
  <2> QED BY <2>1, <2>2
<1>12. ASSUME NEW b \in Blocks PROVE BlkTn(b)'
  <2>0. BlkTn(b)
    BY DEF IInv
  <2>1. CASE crit[Reg[b]] = p
    BY <2>0, <2>1, <1>1, <1>10 DEF BlkTn
  <2>2. CASE crit[Reg[b]] # p
    <3>1. buf'[b].tn < curr_tn[Reg[b]] /\ stopped'[b].tn < curr_tn[Reg[b]]
      BY <2>0, <1>1 DEF BlkTn
    <3> QED BY <3>1, <2>0, <2>2, <1>0, <1>1, <1>7, <1>8, BlkRest
  <2> QED BY <2>1, <2>2
<1> QED BY <1>7, <1>8, <1>9, <1>11, <1>12, Combine

\* The commit turns to secshr_db_clnup, from the first region on.
LEMMA ToClnup ==
    ASSUME IInv, NEW p \in Pids, t[p].pc \in {"phase1", "phase2"},
           t' = [t EXCEPT ![p].pc = "clnup", ![p].clnup = TRUE, ![p].at = FirstReg(p)],
           UNCHANGED <<prog, curr_tn, crit>>
    PROVE  /\ TxnType' /\ (\A q \in Pids : q # p => t'[q] = t[q])
           /\ t'[p].pc = "clnup" /\ \A s : Updated(p, s)' <=> Updated(p, s)
           /\ Proc(p)'
<1> USE DEF At
<1> DEFINE n == FirstReg(p)
           x == [t[p] EXCEPT !.pc = "clnup", !.clnup = TRUE, !.at = n]
<1>0. /\ Types /\ Proc(p) /\ t[p] \in Txns /\ t[p].try \in Tries
      /\ t[p].tp_reg_list \subseteq Regions
  BY Known
<1>1. t[p].tp_reg_list # {}
  BY <1>0 DEF Proc, Place, CommitPoints
<1>2. n \in t[p].tp_reg_list /\ \A s \in t[p].tp_reg_list : s >= n
  BY <1>0, <1>1, FirstRegIs, RegionNumbers
<1>3. t' = [t EXCEPT ![p] = x]
  BY <1>0 DEF Types, TxnType, Txns
<1> HIDE DEF n
<1>4. x \in Txns
  BY <1>0, <1>2 DEF Txns, Points, CommitPoints
<1>5. t'[p] = x /\ TxnType' /\ \A q \in Pids : q # p => t'[q] = t[q]
  <2> HIDE DEF x
  <2> QED BY <1>0, <1>3, <1>4 DEF Types, TxnType
<1>6. /\ t'[p].pc = "clnup" /\ t'[p].try = t[p].try /\ t'[p].at = n
      /\ t'[p].tp_reg_list = t[p].tp_reg_list
      /\ \A s : Updated(p, s)' <=> Updated(p, s)
  <2>1. /\ x.pc = "clnup" /\ x.try = t[p].try /\ x.at = n
        /\ x.tp_reg_list = t[p].tp_reg_list
    BY <1>0 DEF Txns
  <2> HIDE DEF x
  <2> QED BY <2>1, <1>5 DEF Updated
<1> HIDE DEF x
<1>7. Notes(p)' /\ Place(p)'
  BY <1>0, <1>2, <1>6 DEF Proc, Notes, Place, OpPoints, CommitPoints, RecoveryPoints,
      RecoversFor
<1>8. Crits(p)'
  <2>1. \A s \in Regions : Updated(p, s) => s >= n
    BY <1>0, <1>2, UpdatedIs DEF Proc
  <2> QED BY <2>1, <1>6 DEF Crits, RecoveryPoints, RecoversFor
<1>9. OwnTn(p)'
  BY <1>0, <1>6 DEF Proc, OwnTn, CommitPoints, HasCrit
<1> QED BY <1>5, <1>6, <1>7, <1>8, <1>9, CommitFinal DEF Proc, CommitPoints

\* bg_update_phase1 fails.
LEMMA Phase1ErrorInv == ASSUME IInv, NEW p \in Pids, Phase1Error(p) PROVE IInv'
<1> USE DEF At
<1>0. Types
  BY Known
<1>1. /\ t[p].pc = "phase1" /\ AddToLog(p)
      /\ t' = [t EXCEPT ![p].pc = "clnup", ![p].clnup = TRUE, ![p].at = FirstReg(p)]
      /\ UNCHANGED <<prog, curr_tn, early_tn, crit, wc_blocked, last_wcs_recover_tn, pidcnt,
                     buf, in_tend, cycle, stopped, before>>
  BY DEF Phase1Error, regVars
<1>2. PICK b \in Phase1Blocks(p, t[p].at) : bt' \in {bt, [bt EXCEPT ![b] = curr_tn[t[p].at]]}
  BY DEF Phase1Error
<1>3. /\ b \in Blocks /\ Reg[b] = t[p].at /\ Reg[b] \in Regions /\ crit[Reg[b]] = p
      /\ Updated(p, Reg[b])
  BY <1>1, Phase1Is
<1>4. /\ bt' \in [Blocks -> Nat]
      /\ \A a \in Blocks : bt'[a] = bt[a] \/ (a = b /\ bt'[a] = curr_tn[Reg[a]])
  <2>1. bt \in [Blocks -> Nat] /\ curr_tn[Reg[b]] \in Nat
    BY <1>0, <1>3 DEF Types, BlkTypes, RegTypes
  <2> QED BY <2>1, <1>2, <1>3
<1>5. /\ TxnType' /\ (\A q \in Pids : q # p => t'[q] = t[q])
      /\ t'[p].pc = "clnup" /\ \A s : Updated(p, s)' <=> Updated(p, s)
      /\ Proc(p)'
  BY <1>1, ToClnup
<1>6. Types'
  <2>1. HistTypes'
    BY <1>0, <1>1, AddToLogIs
  <2> QED BY <2>1, <1>0, <1>1, <1>4, <1>5 DEF Types, RegTypes, BlkTypes, ProgType
<1>7. Mine(p)
  BY <1>1, <1>5 DEF Mine
<1>8. \A s : (Ahead(p, s)' <=> Ahead(p, s)) /\ (Settling(p, s)' <=> Settling(p, s))
  BY <1>1, <1>5 DEF Ahead, Settling
<1>9. ASSUME NEW s \in Regions PROVE EarlyTn(s)'
  <2>0. EarlyTn(s)
    BY DEF IInv
  <2>1. CASE crit[s] = p
    BY <2>0, <2>1, <1>1, <1>8 DEF EarlyTn
  <2>2. CASE crit[s] # p
    BY <2>0, <2>2, <1>0, <1>1, <1>6, <1>7, EarlyRest
  <2> QED BY <2>1, <2>2
<1>10. ASSUME NEW a \in Blocks PROVE BlkTn(a)'
  <2>0. BlkTn(a) /\ Reg[a] \in Regions
    BY TpCommitAssumption DEF IInv
  <2>1. CASE a = b
    <3>1. Settling(p, Reg[a]) /\ Settling(p, Reg[a])'
      BY <2>1, <1>1, <1>3, <1>8 DEF Settling
    <3>2. bt'[a] <= curr_tn[Reg[a]]
      <4>1. curr_tn[Reg[a]] \in Nat
        BY <2>0, <1>0 DEF Types, RegTypes
      <4> QED BY <4>1, <2>0, <1>4 DEF BlkTn
    <3> QED BY <3>1, <3>2, <2>0, <2>1, <1>1, <1>3 DEF BlkTn
  <2>2. CASE a # b /\ crit[Reg[a]] = p
    BY <2>0, <2>2, <1>1, <1>4, <1>8 DEF BlkTn
  <2>3. CASE a # b /\ crit[Reg[a]] # p
    <3>1. buf'[a].tn < curr_tn[Reg[a]] /\ stopped'[a].tn < curr_tn[Reg[a]] /\ bt'[a] = bt[a]
      BY <2>0, <2>3, <1>1, <1>4 DEF BlkTn
    <3> QED BY <3>1, <2>0, <2>3, <1>0, <1>6, <1>7, BlkRest
  <2> QED BY <2>1, <2>2, <2>3
<1> QED BY <1>5, <1>6, <1>7, <1>9, <1>10, Combine

\* bg_update_phase2 fails.
LEMMA Phase2ErrorInv == ASSUME IInv, NEW p \in Pids, Phase2Error(p) PROVE IInv'
<1> USE DEF At
<1>0. Types
  BY Known
<1>1. /\ t[p].pc = "phase2"
      /\ t' = [t EXCEPT ![p].pc = "clnup", ![p].clnup = TRUE, ![p].at = FirstReg(p)]
      /\ UNCHANGED <<prog, regVars, blkVars, before, log>>
  BY DEF Phase2Error
<1>2. /\ TxnType' /\ (\A q \in Pids : q # p => t'[q] = t[q])
      /\ t'[p].pc = "clnup" /\ \A s : Updated(p, s)' <=> Updated(p, s)
      /\ Proc(p)'
  BY <1>1, ToClnup DEF regVars
<1>3. Types'
  BY <1>0, <1>1, <1>2 DEF Types, RegTypes, BlkTypes, HistTypes, ProgType, regVars, blkVars
<1>4. Mine(p)
  BY <1>1, <1>2 DEF Mine, regVars, blkVars
<1>5. Quiet(p)
  <2>1. \A s \in Regions : Updated(p, s) => crit[s] # p
    BY <1>1, Phase2Is DEF HasCrit
  <2> QED BY <2>1, <1>1, <1>2 DEF Quiet, Ahead, Settling, HasCrit, regVars, blkVars
<1> QED BY <1>2, <1>3, <1>4, <1>5, CombineQuiet

----------------------------------------------------------------------------
(* The theorems.                                                           *)

\* The invariant holds when the database is opened.
LEMMA InitIInv == Init => IInv
<1> SUFFICES ASSUME Init PROVE IInv
  OBVIOUS
<1> USE DEF At
<1>1. ASSUME NEW p \in Pids
      PROVE  /\ t[p] \in Txns /\ t[p].pc \in {"begin", "done"} /\ t[p].try = FreshTry
             /\ t[p].t_tries = 0 /\ (prog[p] = <<>> => t[p].pc = "done")
  <2>1. t[p] = [NewTransaction EXCEPT !.pc = IF prog[p] = <<>> THEN "done" ELSE "begin"]
    BY DEF Init
  <2>2. FreshTry \in Tries
    BY FreshTryIs
  <2>3. 0 \in 0 .. CDB_STAGNATE
    BY TpCommitAssumption
  <2>4. NoRegion \in Regions \union {NoRegion} /\ {} \in SUBSET Regions
    OBVIOUS
  <2> HIDE DEF FreshTry
  <2> QED BY <2>1, <2>2, <2>3, <2>4 DEF NewTransaction, Txns, Points, Codes
<1>2. Types
  <2>1. RegTypes
    BY DEF Init, RegTypes, NoTn
  <2>2. BlkTypes
    BY DEF Init, BlkTypes, NoTn, NoBuf, Bufs, Vals
  <2>3. HistTypes
    BY DEF Init, HistTypes
  <2>4. ProgType
    BY TpCommitAssumption DEF Init, ProgType
  <2>5. TxnType
    <3>1. t = [p \in Pids |-> t[p]]
      BY DEF Init
    <3> QED BY <3>1, <1>1 DEF TxnType
  <2> QED BY <2>1, <2>2, <2>3, <2>4, <2>5 DEF Types
<1>3. ASSUME NEW p \in Pids PROVE Proc(p)
  <2>0. t[p].pc \in {"begin", "done"} /\ t[p].try = FreshTry /\ t[p].t_tries = 0
    BY <1>1
  <2>1. Notes(p)
    BY <2>0, TpCommitAssumption DEF Notes, FreshTry
  <2>2. Place(p)
    <3>1. t[p].pc # "done" => 1 <= Len(prog[p])
      <4>1. prog[p] \in Seq([blk : Blocks, upd : BOOLEAN])
        BY <1>2 DEF Types, ProgType
      <4>2. prog[p] # <<>> => Len(prog[p]) # 0 /\ Len(prog[p]) \in Nat
        BY <4>1, EmptySeq, LenProperties
      <4> QED BY <4>2, <1>1
    <3> QED BY <3>1, <2>0 DEF Place, OpPoints, CommitPoints, RecoveryPoints, RecoversFor
  <2>3. Crits(p) /\ OwnTn(p)
    BY <2>0 DEF Crits, OwnTn, CommitPoints, RecoveryPoints, RecoversFor
  <2>4. ~FinalRetry(p)
    BY <2>0, TpCommitAssumption DEF FinalRetry
  <2> QED BY <2>1, <2>2, <2>3, <2>4 DEF Proc
<1>4. \A r \in Regions : EarlyTn(r)
  BY TpCommitAssumption DEF Init, EarlyTn
<1>5. \A b \in Blocks : BlkTn(b)
  BY TpCommitAssumption DEF Init, BlkTn, NoTn, NoBuf
<1> QED BY <1>2, <1>3, <1>4, <1>5 DEF IInv

\* Every step preserves it.
LEMMA NextIInv == IInv /\ [Next]_vars => IInv'
<1> SUFFICES ASSUME IInv, [Next]_vars PROVE IInv'
  OBVIOUS
<1>1. CASE UNCHANGED vars
  <2> USE <1>1 DEF vars, regVars, blkVars, histVars
  <2>1. Types'
    BY DEF IInv, Types, RegTypes, BlkTypes, HistTypes, ProgType, TxnType
  <2>2. ASSUME NEW p \in Pids PROVE Proc(p)'
    <3>1. /\ Proc(p) /\ (\A pc : RecoversFor(p, pc)' <=> RecoversFor(p, pc))
          /\ CurBlk(p)' = CurBlk(p) /\ CurReg(p)' = CurReg(p)
      BY DEF IInv, RecoversFor, CurBlk, CurOp, CurReg
    <3>2. Notes(p)' /\ Place(p)' /\ Crits(p)' /\ OwnTn(p)'
      BY <3>1 DEF Proc, Notes, Place, Crits, OwnTn, At, HasCrit, Updated
    <3>3. FinalRetry(p)' => FinalTry(p)'
      BY <3>1 DEF Proc, FinalTry, FinalRetry, InTry, At, HasCrit
    <3> QED BY <3>2, <3>3 DEF Proc
  <2>3. \A r \in Regions : EarlyTn(r)'
    BY DEF IInv, EarlyTn, Ahead, At, Updated
  <2>4. \A b \in Blocks : BlkTn(b)'
    BY DEF IInv, BlkTn, Settling, At, Updated
  <2> QED BY <2>1, <2>2, <2>3, <2>4 DEF IInv
<1>2. ASSUME NEW p \in Pids, Step(p) PROVE IInv'
  <2>1. CASE Begin(p)
    BY <2>1, BeginInv
  <2>2. CASE TpSetSgm(p)
    BY <2>2, TpSetSgmInv
  <2>3. CASE TpSetSgmNeedsCrit(p)
    BY <2>3, NeedsCritInv
  <2>4. CASE Search(p)
    BY <2>4, SearchInv
  <2>5. CASE TQread(p)
    BY <2>5, TQreadInv
  <2>6. CASE ReadBuffer(p)
    BY <2>6, ReadBufferInv
  <2>7. CASE TpHist(p)
    BY <2>7, TpHistInv
  <2>8. CASE CheckRegion(p)
    BY <2>8, CheckRegionInv
  <2>9. CASE TpTendGrabCrit(p)
    BY <2>9, TpTendGrabCritInv
  <2>10. CASE TpTendHasCrit(p)
    BY <2>10, TpTendHasCritInv
  <2>11. CASE Validate(p)
    BY <2>11, ValidateInv
  <2>12. CASE Cmt04(p)
    BY <2>12, Cmt04Inv
  <2>13. CASE StartCommit(p)
    BY <2>13, StartCommitInv
  <2>14. CASE BgUpdatePhase1(p)
    BY <2>14, BgUpdatePhase1Inv
  <2>15. CASE Cmt12(p)
    BY <2>15, Cmt12Inv
  <2>16. CASE BgUpdatePhase2(p)
    BY <2>16, BgUpdatePhase2Inv
  <2>17. CASE Cmt19(p)
    BY <2>17, Cmt19Inv
  <2>18. CASE ClnupCmt12(p)
    BY <2>18, ClnupCmt12Inv
  <2>19. CASE ClnupCmt14(p)
    BY <2>19, ClnupCmt14Inv
  <2>20. CASE ClnupSkip(p)
    BY <2>20, ClnupSkipInv
  <2>21. CASE RecoverStart(p)
    BY <2>21, RecoverStartInv
  <2>22. CASE RecoverRebuild(p)
    BY <2>22, RecoverRebuildInv
  <2>23. CASE RecoverTn(p)
    BY <2>23, RecoverTnInv
  <2>24. CASE RecoverEnd(p)
    BY <2>24, RecoverEndInv
  <2>25. CASE HelpOut(p)
    BY <2>25, HelpOutInv
  <2>26. CASE Helped(p)
    BY <2>26, HelpedInv
  <2>27. CASE Restart(p)
    BY <2>27, RestartInv
  <2>28. CASE TpCritAllRegions(p)
    BY <2>28, TpCritAllRegionsInv
  <2> QED BY <1>2, <2>1, <2>2, <2>3, <2>4, <2>5, <2>6, <2>7, <2>8, <2>9, <2>10, <2>11,
             <2>12, <2>13, <2>14, <2>15, <2>16, <2>17, <2>18, <2>19, <2>20, <2>21, <2>22,
             <2>23, <2>24, <2>25, <2>26, <2>27, <2>28 DEF Step
<1>3. ASSUME NEW p \in Pids, Error(p) PROVE IInv'
  BY <1>3, RollBackInv, Phase1ErrorInv, Phase2ErrorInv DEF Error
<1>4. CASE Finished
  BY <1>1, <1>4 DEF Finished
<1> QED BY <1>1, <1>2, <1>3, <1>4 DEF Next

\* The inductive invariant: the notes, the place, the crits and the tn of every
\* transaction, early_tn of every region and the tns in the cache of every block.
THEOREM CommitInvariant == Spec => []IInv
BY InitIInv, NextIInv, PTL DEF Spec

\* Every variable has its type: the regions, the cache, and the local variables of
\* tp_tend, tp_hist and tp_restart, with t_tries never beyond CDB_STAGNATE.
THEOREM TypeCorrect == Spec => []TypeOK
<1>1. IInv => TypeOK
  BY DEF IInv, Types, RegTypes, BlkTypes, HistTypes, TxnType, Txns, TypeOK
<1> QED BY <1>1, CommitInvariant, PTL

\* ASSERT_CURR_TN_EQUALS_EARLY_TN: whoever gets crit finds curr_tn equal to early_tn,
\* whether the one before committed, was rolled back by t_commit_cleanup, was finished by
\* secshr_db_clnup, or recovered the cache.
THEOREM EarlyTnIsSettled == Spec => []EarlyTnSettled
<1>1. IInv => EarlyTnSettled
  BY TpCommitAssumption DEF IInv, EarlyTn, EarlyTnSettled
<1> QED BY <1>1, CommitInvariant, PTL

\* The assertions CDB_STAGNATE > t_tries of tp_hist and tp_tend: a transaction that has
\* crit on all its regions restarts only with a code that crit cannot prevent.
THEOREM FinalRetryRestarts == Spec => []FinalRetryCodes
<1>1. IInv => FinalRetryCodes
  BY DEF IInv, Proc, FinalTry, FinalRetryCodes
<1> QED BY <1>1, CommitInvariant, PTL

----------------------------------------------------------------------------
(* What validation found.                                                  *)

\* ValidationHolds for one process and one block.
StillValid(p, b) ==
    /\ Reg[b] \in Validated(p) /\ t[p].try.hist[b] # NoHist
    /\ At(p, "phase1") => b \notin t[p].try.cw_set \ t[p].try.todo
    => /\ bt[b] < t[p].try.hist[b].tn
       /\ b \in t[p].try.cw_set => t[p].try.hist[b].cycle = cycle[b]

\* ValidationHolds says that of all of them.
LEMMA StillValidIs ==
    /\ ValidationHolds <=> \A p \in Pids, b \in Blocks : StillValid(p, b)
    /\ ValidationHolds' <=> \A p \in Pids, b \in Blocks : StillValid(p, b)'
<1>1. ValidationHolds <=> \A p \in Pids, b \in Blocks : StillValid(p, b)
  BY DEF ValidationHolds, StillValid
<1>2. ValidationHolds' <=> \A p \in Pids, b \in Blocks : StillValid(p, b)'
  BY DEF ValidationHolds, StillValid
<1> QED BY <1>1, <1>2

\* The crits of the regions that were validated are held.
LEMMA ValidatedHeld ==
    ASSUME IInv, NEW p \in Pids, NEW r \in Validated(p)
    PROVE  r \in Regions /\ crit[r] = p
<1>0. Types /\ Proc(p) /\ t[p].tp_reg_list \subseteq Regions /\ t[p] \in Txns
  BY Known
<1>1. r \in t[p].tp_reg_list /\ r \in Regions
  BY <1>0 DEF Validated
<1>2. r < t[p].at => r <= t[p].at
  BY <1>0, <1>1, RegionNumbers DEF Txns, NoRegion
<1>3. HasCrit(p, r)
  BY <1>0, <1>1, <1>2 DEF Validated, Proc, Crits, At, RecoversFor
<1> QED BY <1>1, <1>3 DEF HasCrit

\* A step of p changes the history and the cycle of a block only with crit on its region.
Guarded(p) ==
    \A b \in Blocks : (bt'[b] = bt[b] /\ cycle'[b] = cycle[b]) \/ crit[Reg[b]] = p

\* Enough for a step to preserve what validation found.
LEMMA KeepsValid ==
    ASSUME IInv, ValidationHolds, NEW p \in Pids, Guarded(p),
           \A q \in Pids : q # p => t'[q] = t[q],
           \A b \in Blocks : StillValid(p, b)'
    PROVE  ValidationHolds'
<1> SUFFICES ASSUME NEW q \in Pids, q # p, NEW b \in Blocks PROVE StillValid(q, b)'
  BY StillValidIs
<1>1. t'[q] = t[q] /\ StillValid(q, b)
  BY StillValidIs
<1>2. Validated(q)' = Validated(q)
  BY <1>1 DEF Validated, At
<1>3. Reg[b] \in Validated(q) => bt'[b] = bt[b] /\ cycle'[b] = cycle[b]
  BY ValidatedHeld DEF Guarded
<1> QED BY <1>1, <1>2, <1>3 DEF StillValid, At

\* The points at which nothing counts as validated.
Unvalidated(p) ==
    /\ t[p].pc \notin {"crit", "validate", "cmt04", "phase1"}
    /\ t[p].pc \in RecoveryPoints => t[p].ret # "validate"

LEMMA UnvalidatedIs == ASSUME NEW p, Unvalidated(p)' PROVE \A b \in Blocks : StillValid(p, b)'
BY DEF Unvalidated, StillValid, Validated, At

\* The steps that do not touch bt or a cycle, and end where nothing counts as validated.
LEMMA UnvalidatedStep ==
    ASSUME IInv, ValidationHolds, NEW p \in Pids, UNCHANGED <<bt, cycle>>,
           \A q \in Pids : q # p => t'[q] = t[q], Unvalidated(p)'
    PROVE  ValidationHolds'
<1>1. Guarded(p)
  BY DEF Guarded
<1> QED BY <1>1, UnvalidatedIs, KeepsValid

\* The operations of a transaction, and the tries that end.
LEMMA OpValid ==
    ASSUME IInv, ValidationHolds, NEW p \in Pids,
           \/ Begin(p) \/ TpSetSgm(p) \/ TpSetSgmNeedsCrit(p) \/ Search(p) \/ TQread(p)
           \/ ReadBuffer(p) \/ TpHist(p) \/ HelpOut(p) \/ Helped(p) \/ Restart(p)
           \/ TpCritAllRegions(p)
    PROVE  ValidationHolds'
<1> SUFFICES /\ UNCHANGED <<bt, cycle>> /\ (\A q \in Pids : q # p => t'[q] = t[q])
             /\ Unvalidated(p)'
  BY UnvalidatedStep
<1>0. t \in [Pids -> Txns] /\ t[p] \in Txns
  BY DEF IInv, Types, TxnType
<1> USE <1>0 DEF Txns, At, Go, Fail, GrabCrit, Unvalidated, RecoveryPoints, blkVars
<1>1. CASE Begin(p)
  BY <1>1 DEF Begin
<1>2. CASE TpSetSgm(p)
  BY <1>2 DEF TpSetSgm
<1>3. CASE TpSetSgmNeedsCrit(p)
  BY <1>3 DEF TpSetSgmNeedsCrit
<1>4. CASE Search(p)
  BY <1>4 DEF Search
<1>5. CASE TQread(p)
  BY <1>5 DEF TQread
<1>6. CASE ReadBuffer(p)
  BY <1>6 DEF ReadBuffer
<1>7. CASE TpHist(p)
  BY <1>7 DEF TpHist
<1>8. CASE HelpOut(p)
  BY <1>8 DEF HelpOut
<1>9. CASE Helped(p)
  BY <1>9 DEF Helped, NextTry
<1>10. CASE Restart(p)
  BY <1>10 DEF Restart, NextTry
<1>11. CASE TpCritAllRegions(p)
  BY <1>11 DEF TpCritAllRegions
<1> QED BY <1>1, <1>2, <1>3, <1>4, <1>5, <1>6, <1>7, <1>8, <1>9, <1>10, <1>11

\* Phase 2 and the cleanup after an error.
LEMMA EndValid ==
    ASSUME IInv, ValidationHolds, NEW p \in Pids,
           \/ BgUpdatePhase2(p) \/ Cmt19(p) \/ ClnupCmt12(p) \/ ClnupCmt14(p) \/ ClnupSkip(p)
           \/ RollBack(p) \/ Phase2Error(p)
    PROVE  ValidationHolds'
<1> SUFFICES /\ UNCHANGED <<bt, cycle>> /\ (\A q \in Pids : q # p => t'[q] = t[q])
             /\ Unvalidated(p)'
  BY UnvalidatedStep
<1>0. t \in [Pids -> Txns] /\ t[p] \in Txns
  BY DEF IInv, Types, TxnType
<1> USE <1>0 DEF Txns, At, Go, Unvalidated, RecoveryPoints, blkVars
<1>1. CASE BgUpdatePhase2(p)
  BY <1>1 DEF BgUpdatePhase2
<1>2. CASE Cmt19(p)
  BY <1>2 DEF Cmt19
<1>3. CASE ClnupCmt12(p)
  BY <1>3 DEF ClnupCmt12
<1>4. CASE ClnupCmt14(p)
  BY <1>4 DEF ClnupCmt14, AfterClnup
<1>5. CASE ClnupSkip(p)
  BY <1>5 DEF ClnupSkip, AfterClnup
<1>6. CASE RollBack(p)
  BY <1>6 DEF RollBack
<1>7. CASE Phase2Error(p)
  BY <1>7 DEF Phase2Error
<1> QED BY <1>1, <1>2, <1>3, <1>4, <1>5, <1>6, <1>7

\* An error in phase 1.
LEMMA Phase1ErrorValid ==
    ASSUME IInv, ValidationHolds, NEW p \in Pids, Phase1Error(p) PROVE ValidationHolds'
<1>0. t \in [Pids -> Txns] /\ t[p] \in Txns
  BY DEF IInv, Types, TxnType
<1>1. Unvalidated(p)' /\ \A q \in Pids : q # p => t'[q] = t[q]
  BY <1>0 DEF Phase1Error, Unvalidated, RecoveryPoints, Txns
<1>2. crit[t[p].at] = p /\ \A b \in Phase1Blocks(p, t[p].at) : Reg[b] = t[p].at
  BY Phase1Is DEF Phase1Error
<1>3. bt \in [Blocks -> Nat]
  BY DEF IInv, Types, BlkTypes
<1>4. Guarded(p)
  BY <1>2, <1>3 DEF Phase1Error, Guarded
<1> QED BY <1>1, <1>4, UnvalidatedIs, KeepsValid

\* A step of p that leaves its notes, bt and the cycles alone: what it found holds for the
\* regions that counted as validated before.
LEMMA SameNotes ==
    ASSUME IInv, ValidationHolds, NEW p \in Pids, UNCHANGED <<bt, cycle>>,
           t'[p].try.hist = t[p].try.hist, t'[p].try.cw_set = t[p].try.cw_set,
           At(p, "phase1") => At(p, "phase1")' /\ t'[p].try.todo = t[p].try.todo,
           NEW b \in Blocks, Reg[b] \in Validated(p)' => Reg[b] \in Validated(p)
    PROVE  StillValid(p, b)'
<1>1. StillValid(p, b)
  BY StillValidIs
<1> QED BY <1>1 DEF StillValid, At

\* tp_tend up to the end of validation.
LEMMA TendValid ==
    ASSUME IInv, ValidationHolds, NEW p \in Pids,
           \/ CheckRegion(p) \/ TpTendGrabCrit(p) \/ TpTendHasCrit(p) \/ Validate(p)
    PROVE  ValidationHolds'
<1> USE DEF At
<1>0. /\ Types /\ Proc(p) /\ t \in [Pids -> Txns] /\ t[p] \in Txns
      /\ t[p].tp_reg_list \subseteq Regions
  BY Known DEF Types, TxnType
<1>1. UNCHANGED <<bt, cycle>> /\ \A q \in Pids : q # p => t'[q] = t[q]
  <2>1. UNCHANGED <<bt, cycle>>
    BY DEF CheckRegion, TpTendGrabCrit, TpTendHasCrit, Validate, blkVars
  <2>2. \A q \in Pids : q # p => t'[q] = t[q]
    BY <1>0 DEF CheckRegion, TpTendGrabCrit, TpTendHasCrit, Validate, GrabCrit, Go, Fail, Failed
  <2> QED BY <2>1, <2>2
<1>2. Guarded(p)
  BY <1>1 DEF Guarded
<1>3. CASE CheckRegion(p)
  <2>1. t[p].pc = "check" /\ t[p].at \in t[p].tp_reg_list
    BY <1>0, <1>3 DEF CheckRegion, Proc, Place
  <2>2. FirstReg(p) \in t[p].tp_reg_list /\ \A s \in t[p].tp_reg_list : FirstReg(p) <= s
    BY <1>0, <2>1, FirstRegIs
  <2>3. \/ Unvalidated(p)'
        \/ /\ t'[p].pc = "crit" /\ t'[p].at = FirstReg(p)
           /\ t'[p].tp_reg_list = t[p].tp_reg_list
    BY <1>0, <1>3, <2>1 DEF CheckRegion, Go, Fail, Unvalidated, RecoveryPoints, Txns
  <2>4. ASSUME t'[p].pc = "crit", t'[p].at = FirstReg(p), t'[p].tp_reg_list = t[p].tp_reg_list
        PROVE  Validated(p)' = {}
    <3>1. \A s \in t[p].tp_reg_list : ~(s < FirstReg(p))
      BY <1>0, <2>2, RegionNumbers
    <3> QED BY <2>4, <3>1 DEF Validated, RecoveryPoints
  <2>5. \A b \in Blocks : StillValid(p, b)'
    BY <2>3, <2>4, UnvalidatedIs DEF StillValid
  <2> QED BY <1>1, <1>2, <2>5, KeepsValid
<1>4. CASE TpTendGrabCrit(p) \/ TpTendHasCrit(p)
  <2>1. /\ t[p].pc = "crit" /\ t'[p].try = t[p].try
        /\ \/ Unvalidated(p)'
           \/ /\ t'[p].at = t[p].at /\ t'[p].tp_reg_list = t[p].tp_reg_list
              /\ t'[p].pc \in {"recover", "validate"}
    BY <1>0, <1>4 DEF TpTendGrabCrit, TpTendHasCrit, GrabCrit, Go, Fail, Failed, Unvalidated,
        RecoveryPoints, Txns
  <2>2. \/ Unvalidated(p)'
        \/ \A r : r \in Validated(p)' => r \in Validated(p)
    BY <2>1 DEF Validated, RecoveryPoints
  <2>3. \A b \in Blocks : StillValid(p, b)'
    BY <1>1, <2>1, <2>2, UnvalidatedIs, SameNotes
  <2> QED BY <1>1, <1>2, <2>3, KeepsValid
<1>5. CASE Validate(p)
  <2> DEFINE r == t[p].at
             n == NextReg(p, r)
  <2>1. t[p].pc = "validate" /\ r \in t[p].tp_reg_list /\ r \in Regions
    BY <1>0, <1>5 DEF Validate, Proc, Place
  <2>2. CASE ValidationStatus(p, r) # "normal"
    BY <1>0, <1>1, <1>5, <2>2, UnvalidatedStep
       DEF Validate, Failed, Fail, Unvalidated, RecoveryPoints, Txns
  <2>3. CASE ValidationStatus(p, r) = "normal"
    <3>1. /\ n \in t[p].tp_reg_list \union {NoRegion}
          /\ n = NoRegion => \A s \in t[p].tp_reg_list : s <= r
          /\ n # NoRegion => n > r /\ \A s \in t[p].tp_reg_list : s > r => s >= n
      BY <1>0, <2>1, NextRegIs
    <3>2. /\ t'[p].try = t[p].try /\ t'[p].tp_reg_list = t[p].tp_reg_list
          /\ \/ t'[p].pc = "cmt04" /\ n = NoRegion
             \/ t'[p].pc = "crit" /\ t'[p].at = n /\ n # NoRegion
      BY <1>0, <1>5, <2>3 DEF Validate, Txns
    <3> HIDE DEF n
    <3>3. \A s \in t[p].tp_reg_list : s \in Validated(p)' => s = r \/ s \in Validated(p)
      <4>1. \A s \in t[p].tp_reg_list : s <= r => s = r \/ s < r
        BY <1>0, <2>1, RegionNumbers
      <4>2. \A s \in t[p].tp_reg_list : n # NoRegion /\ s < n => s <= r
        BY <1>0, <2>1, <3>1, RegionNumbers
      <4>3. \A s \in t[p].tp_reg_list : s < r => s \in Validated(p)
        BY <2>1 DEF Validated
      <4> QED BY <3>1, <3>2, <4>1, <4>2, <4>3 DEF Validated, RecoveryPoints
    <3>4. ASSUME NEW b \in Blocks, Reg[b] = r, t[p].try.hist[b] # NoHist
          PROVE  /\ bt[b] < t[p].try.hist[b].tn
                 /\ b \in t[p].try.cw_set => t[p].try.hist[b].cycle = cycle[b]
      <4>1. b \in InHist(p, r)
        BY <3>4 DEF InHist, BlocksOf
      <4>2. /\ ~(t[p].try.hist[b].tn <= bt[b])
            /\ b \in t[p].try.cw_set => t[p].try.hist[b].cycle = cycle[b]
        BY <2>3, <4>1 DEF ValidationStatus
      <4>3. bt[b] \in Nat /\ t[p].try.hist[b].tn \in Nat
        BY <1>0 DEF Types, BlkTypes, Txns, Tries
      <4> QED BY <4>2, <4>3
    <3>5. ASSUME NEW b \in Blocks PROVE StillValid(p, b)'
      <4>1. Reg[b] \in Validated(p)' => Reg[b] \in t[p].tp_reg_list
        BY <3>2 DEF Validated
      <4>2. CASE Reg[b] = r
        BY <1>1, <3>2, <3>4, <4>2 DEF StillValid
      <4>3. CASE Reg[b] # r
        BY <1>1, <2>1, <3>2, <3>3, <4>1, <4>3, SameNotes
      <4> QED BY <4>2, <4>3
    <3> QED BY <1>1, <1>2, <3>5, KeepsValid
  <2> QED BY <2>2, <2>3
<1> QED BY <1>3, <1>4, <1>5

\* The commit up to the end of phase 1.
LEMMA CommitValid ==
    ASSUME IInv, ValidationHolds, NEW p \in Pids,
           Cmt04(p) \/ StartCommit(p) \/ BgUpdatePhase1(p) \/ Cmt12(p)
    PROVE  ValidationHolds'
<1> USE DEF At
<1>0. /\ Types /\ Proc(p) /\ t \in [Pids -> Txns] /\ t[p] \in Txns /\ t[p].try \in Tries
      /\ t[p].tp_reg_list \subseteq Regions
  BY Known DEF Types, TxnType
<1>1. CASE Cmt04(p) \/ StartCommit(p)
  <2>1. /\ UNCHANGED <<bt, cycle>> /\ (\A q \in Pids : q # p => t'[q] = t[q])
        /\ t[p].pc = "cmt04" /\ t'[p].tp_reg_list = t[p].tp_reg_list
        /\ t'[p].try.hist = t[p].try.hist /\ t'[p].try.cw_set = t[p].try.cw_set
    <3>1. CASE Cmt04(p)
      BY <1>0, <3>1 DEF Cmt04, blkVars, Txns
    <3>2. CASE StartCommit(p)
      BY <1>0, <3>2 DEF StartCommit, blkVars, Txns, Tries
    <3> QED BY <1>1, <3>1, <3>2
  <2>2. \A r : r \in Validated(p)' => r \in Validated(p)
    BY <2>1 DEF Validated
  <2>3. \A b \in Blocks : StillValid(p, b)'
    BY <2>1, <2>2, SameNotes
  <2> QED BY <2>1, <2>3, KeepsValid DEF Guarded
<1>2. CASE BgUpdatePhase1(p)
  <2>1. PICK c \in Phase1Blocks(p, t[p].at) :
          /\ bt' = [bt EXCEPT ![c] = curr_tn[t[p].at]] /\ cycle' = cycle
          /\ t' = [t EXCEPT ![p].try.todo = @ \ {c}]
    BY <1>2 DEF BgUpdatePhase1
  <2>2. /\ crit[t[p].at] = p /\ c \in Blocks /\ Reg[c] = t[p].at /\ c \in t[p].try.todo
    BY <1>2, Phase1Is DEF BgUpdatePhase1, Phase1Blocks
  <2>3. \A b \in Blocks : b # c => bt'[b] = bt[b]
    BY <1>0, <2>1 DEF Types, BlkTypes
  <2>4. /\ t'[p].pc = "phase1" /\ t[p].pc = "phase1" /\ t'[p].at = t[p].at
        /\ t'[p].tp_reg_list = t[p].tp_reg_list
        /\ t'[p].try.hist = t[p].try.hist /\ t'[p].try.cw_set = t[p].try.cw_set
        /\ t'[p].try.todo = t[p].try.todo \ {c}
        /\ \A q \in Pids : q # p => t'[q] = t[q]
    BY <1>0, <1>2, <2>1 DEF BgUpdatePhase1, Txns, Tries
  <2>5. c \in t[p].try.cw_set
    BY <1>0, <2>2 DEF Proc, Notes
  <2>6. \A r : r \in Validated(p)' => r \in Validated(p)
    BY <2>4 DEF Validated, RecoveryPoints
  <2>7. ASSUME NEW b \in Blocks PROVE StillValid(p, b)'
    <3>1. CASE b = c
      BY <3>1, <2>4, <2>5 DEF StillValid
    <3>2. CASE b # c
      <4>1. StillValid(p, b)
        BY StillValidIs
      <4> QED BY <3>2, <4>1, <2>1, <2>3, <2>4, <2>6 DEF StillValid
    <3> QED BY <3>1, <3>2
  <2>8. Guarded(p)
    BY <2>1, <2>2, <2>3 DEF Guarded
  <2> QED BY <2>4, <2>7, <2>8, KeepsValid
<1>3. CASE Cmt12(p)
  <2> DEFINE r == t[p].at
             n == NextReg(p, r)
  <2>1. t[p].pc = "phase1" /\ r \in t[p].tp_reg_list /\ r \in Regions
    BY <1>0, <1>3 DEF Cmt12, Proc, Place, CommitPoints
  <2>2. n # NoRegion => n > r
    BY <1>0, <2>1, NextRegIs
  <2>3. n \in t[p].tp_reg_list \union {NoRegion}
    BY <1>0, <2>1, NextRegIs
  <2>4. /\ UNCHANGED <<bt, cycle>> /\ (\A q \in Pids : q # p => t'[q] = t[q])
        /\ t'[p].tp_reg_list = t[p].tp_reg_list
        /\ t'[p].try.hist = t[p].try.hist /\ t'[p].try.cw_set = t[p].try.cw_set
        /\ t'[p].try.todo = t[p].try.todo
        /\ t'[p].pc = "phase2" \/ (t'[p].pc = "phase1" /\ t'[p].at = n /\ n # NoRegion)
    BY <1>0, <1>3 DEF Cmt12, AfterPhase1, blkVars, Txns, Tries
  <2> HIDE DEF n
  <2>5. CASE t'[p].pc = "phase2"
    BY <2>4, <2>5, UnvalidatedStep DEF Unvalidated, RecoveryPoints
  <2>6. CASE t'[p].pc = "phase1" /\ t'[p].at = n /\ n # NoRegion
    <3>1. \A s \in t[p].tp_reg_list : s >= n => s >= r
      BY <1>0, <2>1, <2>2, <2>3, <2>6, RegionNumbers
    <3>2. \A s : s \in Validated(p)' => s \in Validated(p)
      BY <2>1, <2>4, <2>6, <3>1 DEF Validated, RecoveryPoints
    <3>3. \A b \in Blocks : StillValid(p, b)'
      BY <2>1, <2>4, <2>6, <3>2, SameNotes
    <3> QED BY <2>4, <3>3, KeepsValid DEF Guarded
  <2> QED BY <2>4, <2>5, <2>6
<1> QED BY <1>1, <1>2, <1>3

\* A recovery of the cache between two validations is one of another region.
LEMMA RecoverValid ==
    ASSUME IInv, ValidationHolds, NEW p \in Pids,
           RecoverStart(p) \/ RecoverRebuild(p) \/ RecoverTn(p) \/ RecoverEnd(p)
    PROVE  ValidationHolds'
<1> USE DEF At
<1>0. /\ Types /\ Proc(p) /\ t \in [Pids -> Txns] /\ t[p] \in Txns
      /\ t[p].tp_reg_list \subseteq Regions
  BY Known DEF Types, TxnType
<1> DEFINE r == t[p].at
<1>1. /\ t[p].pc \in RecoveryPoints /\ r \in Regions /\ crit[r] = p /\ t[p].ret # "none"
      /\ (\A q \in Pids : q # p => t'[q] = t[q])
      /\ t'[p].tp_reg_list = t[p].tp_reg_list /\ t'[p].try = t[p].try
      /\ t'[p].at = r /\ t'[p].ret = t[p].ret
      /\ t'[p].pc \in RecoveryPoints \/ t'[p].pc = t[p].ret
  <2>1. t[p].pc \in RecoveryPoints
    BY DEF RecoverStart, RecoverRebuild, RecoverTn, RecoverEnd, RecoveryPoints
  <2>2. r \in Regions /\ crit[r] = p /\ t[p].ret # "none"
    BY <1>0, <2>1 DEF Proc, Place, HasCrit
  <2>3. PICK pc \in RecoveryPoints \union {t[p].ret} : t' = [t EXCEPT ![p].pc = pc]
    BY DEF RecoverStart, RecoverRebuild, RecoverTn, RecoverEnd, Go, RecoveryPoints
  <2> QED BY <1>0, <2>1, <2>2, <2>3 DEF Txns
<1>2. \A b \in Blocks : Reg[b] # r => bt'[b] = bt[b] /\ cycle'[b] = cycle[b]
  <2>1. CASE RecoverRebuild(p)
    BY <1>0, <2>1 DEF RecoverRebuild, BlocksOf, Types, BlkTypes
  <2>2. CASE RecoverStart(p) \/ RecoverTn(p) \/ RecoverEnd(p)
    BY <2>2 DEF RecoverStart, RecoverTn, RecoverEnd, blkVars
  <2> QED BY <2>1, <2>2
<1>3. Guarded(p)
  BY <1>1, <1>2 DEF Guarded
<1>4. t[p].ret \in {"op", "validate", "helped", "crit_all"}
  BY <1>0, <1>1 DEF Txns
<1>5. \A s : s \in Validated(p)' => s \in Validated(p) /\ s # r
  <2>1. \A s \in t[p].tp_reg_list : s < r => s # r
    BY <1>0, <1>1, RegionNumbers
  <2> QED BY <1>1, <1>4, <2>1 DEF Validated, RecoveryPoints
<1>6. t[p].pc # "phase1"
  BY <1>1 DEF RecoveryPoints
<1>7. t'[p].pc # "phase1"
  BY <1>1, <1>4 DEF RecoveryPoints
<1>8. ASSUME NEW b \in Blocks PROVE StillValid(p, b)'
  <2>1. StillValid(p, b)
    BY StillValidIs
  <2> QED BY <2>1, <1>1, <1>2, <1>5, <1>6, <1>7 DEF StillValid
<1> QED BY <1>1, <1>3, <1>8, KeepsValid

\* Every step keeps what validation found.
LEMMA NextValid == IInv /\ ValidationHolds /\ [Next]_vars => ValidationHolds'
<1> SUFFICES ASSUME IInv, ValidationHolds, [Next]_vars PROVE ValidationHolds'
  OBVIOUS
<1>1. CASE UNCHANGED vars
  BY <1>1 DEF vars, blkVars, ValidationHolds, Validated, At
<1>2. ASSUME NEW p \in Pids, Step(p) PROVE ValidationHolds'
  BY <1>2, OpValid, EndValid, TendValid, CommitValid, RecoverValid DEF Step
<1>3. ASSUME NEW p \in Pids, Error(p) PROVE ValidationHolds'
  BY <1>3, EndValid, Phase1ErrorValid DEF Error
<1>4. CASE Finished
  BY <1>1, <1>4 DEF Finished
<1> QED BY <1>1, <1>2, <1>3, <1>4 DEF Next

\* What a transaction found in the validation of a region is still so when its commit
\* reaches each block: no other commit, cleanup or recovery has changed a block it read, or
\* moved one it will write to another buffer, while it got and validated the other regions.
THEOREM ValidationKept == Spec => []ValidationHolds
<1>1. Init => ValidationHolds
  <2> SUFFICES ASSUME Init, NEW p \in Pids PROVE Validated(p) = {}
    BY DEF ValidationHolds
  <2>1. t[p] = [NewTransaction EXCEPT !.pc = IF prog[p] = <<>> THEN "done" ELSE "begin"]
    BY DEF Init
  <2> QED BY <2>1 DEF NewTransaction, Validated
<1> QED BY <1>1, NextValid, CommitInvariant, PTL DEF Spec
============================================================================

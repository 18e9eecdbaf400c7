--------------------------- MODULE JnlPoolSafety ---------------------------
(***************************************************************************)
(* The safety of the journal pool, for any number of processes and any     *)
(* size of the slot array and of the pool.                                 *)
(***************************************************************************)
EXTENDS JnlPoolProofs

\* What the theorems assume of kills and errors; without it the findings are
\* behaviours.  A process is not killed inside UPDATE_JPL_RSRV_WRITE_ADDR, on an MM
\* database not between CMT06b and CMT07, and not inside mutex_clean_dead_owner;
\* an error in crit comes after the reservation.
CleanFaults ==
    /\ KillPoints \intersect {"lastlen", "rsrv", "written", "salvage"} = {}
    /\ "crit" \notin Errors

----------------------------------------------------------------------------
(* The inductive invariant.                                                *)

\* The points at which a process has the lock, those at which it has noted its pid
\* there, and those from which repl_phase2_cleanup is called.
CritPoints == Points \ {"idle", "phase2"}
NotedPoints == CritPoints \ {"locked", "unlock", "salvage"}
CallPoints == {"idle", "crit", "reserved", "written", "seqno", "leave", "phase2"}

\* Who has the lock is where it is in its commit.  in_crit tells the next owner who
\* died with it; that process did not die inside the reservation.
LockInv ==
    /\ \A p \in alive : pc[p] \in CritPoints => crit = p
    /\ crit # NoPid => pc[crit] \in CritPoints
    /\ in_crit = IF crit # NoPid /\ pc[crit] \in NotedPoints THEN crit ELSE NoPid
    /\ crit # NoPid /\ pc[crit] = "salvage" /\ holder # NoPid =>
           holder \notin alive /\ pc[holder] \in NotedPoints
    /\ \A p \in Pids \ alive : pc[p] \notin {"lastlen", "rsrv", "written", "salvage"}
    /\ \A p \in Pids : cl[p] # "none" => pc[p] \in CallPoints
    /\ pc[Source] # "written"

\* The process whose commit the pool is in the middle of, and where that is: the dead
\* one while mutex_clean_dead_owner has not dealt with it.
Owner == IF crit # NoPid /\ pc[crit] = "salvage" THEN holder ELSE crit
Stage == IF Owner = NoPid THEN "idle" ELSE pc[Owner]

\* The slot of the reservation is filled but not in the ring; the reservation is in the
\* ring but has no seqno.
Filling == {"slot", "lastlen", "rsrv"}
Reserved == {"reserved", "written", "error", "undo"}
U == IF Stage \in Reserved THEN 1 ELSE 0

\* Length of the s-th transaction.
LenOf(s) == IF s = 0 THEN 0 ELSE log[s].tot_jrec_len

\* Transactions lie one after the other, and none is empty.
LogInv ==
    /\ jnl_seqno = Len(log) + 1
    /\ \A s \in DOMAIN log : /\ log[s].start_write_addr = LogEnd(s - 1)
                             /\ log[s].tot_jrec_len \in Lens
    /\ \A r, s \in 0 .. Len(log) : r < s => LogEnd(r) < LogEnd(s)

\* Slot i describes the transaction with seqno s, or the reservation for it.
SlotIs(i, s) ==
    LET c == phase2_commit_array[i] IN
    /\ c.jnl_seqno = s
    /\ c.start_write_addr = LogEnd(s - 1)
    /\ c.prev_jrec_len = LenOf(s - 1)
    /\ c.tot_jrec_len \in Lens
    /\ s <= Len(log) => /\ c.process_id = log[s].process_id
                        /\ c.tot_jrec_len = log[s].tot_jrec_len

\* How many slots are in use, and the seqno of the oldest one.
D == Dist(phase2_commit_index1, phase2_commit_index2)
First == Len(log) + 1 + U - D

RingInv ==
    /\ First >= 1
    /\ \A k \in 0 .. D - 1 : SlotIs(At(phase2_commit_index1, k), First + k)

\* The last slot that was ever committed describes the last transaction, also when it
\* is no longer in use: Reset relies on it.
LastCommitted == IF U = 1 THEN Decr(Decr(phase2_commit_index2))
                          ELSE Decr(phase2_commit_index2)
LastInv ==
    /\ EndOf(phase2_commit_array[LastCommitted]) = LogEnd(Len(log))
    /\ phase2_commit_array[LastCommitted].tot_jrec_len = LenOf(Len(log))

\* How far the reservation is.
ReserveInv ==
    /\ Stage \in Filling =>
         /\ D < ArraySize - 1
         /\ jrs[Owner].phase2_commit_index = phase2_commit_index2
         /\ SlotIs(phase2_commit_index2, Len(log) + 1)
         /\ phase2_commit_array[phase2_commit_index2].process_id = Owner
         /\ ~phase2_commit_array[phase2_commit_index2].write_complete
    /\ Stage \in Reserved =>
         /\ SlotIs(Decr(phase2_commit_index2), Len(log) + 1)
         /\ LastCmt.process_id = Owner
         /\ Stage # "written" => D >= 1 /\ ~LastCmt.write_complete
         /\ Stage = "written" => LastCmt.write_complete
         /\ Stage # "undo" => jrs[Owner].phase2_commit_index = Decr(phase2_commit_index2)
    /\ rsrv_write_addr =
         IF Stage = "rsrv" THEN EndOf(phase2_commit_array[phase2_commit_index2])
         ELSE IF Stage \in Reserved \ {"undo"} THEN EndOf(LastCmt)
         ELSE LogEnd(Len(log))
    /\ lastwrite_len =
         IF Stage \in {"lastlen", "rsrv"}
         THEN phase2_commit_array[phase2_commit_index2].tot_jrec_len
         ELSE IF Stage \in Reserved \ {"undo"} THEN LastCmt.tot_jrec_len
         ELSE LenOf(Len(log))

\* What a live process has reserved and not yet written is in the ring, once CMT03 is
\* done, and not complete.
PendingPoints == Filling \union {"reserved", "error", "seqno", "leave", "unlock", "phase2"}
JrsInv ==
    \A p \in alive :
        /\ pc[p] \in Filling \union {"reserved", "error", "seqno", "phase2"} =>
               jrs[p].pending
        /\ jrs[p].pending =>
               /\ pc[p] \in PendingPoints
               /\ phase2_commit_array[jrs[p].phase2_commit_index].process_id = p
               /\ ~phase2_commit_array[jrs[p].phase2_commit_index].write_complete
               /\ pc[p] \notin Filling =>
                      \E k \in 0 .. D - 1 :
                          jrs[p].phase2_commit_index = At(phase2_commit_index1, k)

\* Where the transaction, or the reservation, with seqno s ends.
AddrEnd(s) == IF s <= Len(log) THEN LogEnd(s) ELSE EndOf(LastCmt)

\* The walk of a process in repl_phase2_cleanup ends before position Walk(p) of the ring
\* as it was when it read index2.
Walk(p) == Dist(phase2_commit_index1, index2[p])

\* Transactions up to seqno w are published: all of them are complete, none that left
\* the ring is missing.  A process that is about to publish more will not publish less.
PublishedUpTo(w) ==
    /\ write_addr = AddrEnd(w)
    /\ First - 1 <= w
    /\ w <= IF Stage = "written" THEN Len(log) + 1 ELSE Len(log)
    /\ \A k \in 0 .. D - 1 :
           First + k <= w =>
               phase2_commit_array[At(phase2_commit_index1, k)].write_complete
    /\ \A p \in alive :
           /\ cl[p] = "latched" => w <= First + Walk(p) - 1
           /\ cl[p] = "published" =>
                  w = First + Dist(phase2_commit_index1, index1[p]) - 1

PubInv == \E w \in 0 .. Len(log) + 1 : PublishedUpTo(w)

\* A process in repl_phase2_cleanup has the latch.  It may walk one slot past the ring, if
\* that was rolled back meanwhile, and finds it incomplete.
LatchInv ==
    \A p \in alive :
        /\ cl[p] \in {"latched", "published"} => phase2_commit_latch = p
        /\ cl[p] = "latched" =>
               /\ crit = p => index2[p] = phase2_commit_index2
               /\ Walk(p) <= D + 1 - U
               /\ Walk(p) = D + 1 =>
                      /\ ~phase2_commit_array[phase2_commit_index2].write_complete
                      /\ phase2_commit_array[phase2_commit_index2].start_write_addr
                             = LogEnd(Len(log))
        /\ cl[p] = "published" => Dist(phase2_commit_index1, index1[p]) \in 1 .. D

IInv == /\ TypeOK /\ LockInv /\ LogInv /\ RingInv /\ LastInv /\ ReserveInv
        /\ JrsInv /\ PubInv /\ LatchInv

----------------------------------------------------------------------------
(* The ring of slots.                                                      *)

\* INCR_PHASE2_COMMIT_INDEX and DECR_PHASE2_COMMIT_INDEX undo each other, and a walk over
\* the ring meets each slot once.
LEMMA RingArith ==
    /\ \A i \in Indices : /\ Decr(Incr(i)) = i /\ Incr(Decr(i)) = i
                          /\ Decr(i) # i /\ Incr(i) # i
    /\ \A i, j \in Indices : At(i, Dist(i, j)) = j
    /\ \A i \in Indices, k \in 0 .. ArraySize - 1 : Dist(i, At(i, k)) = k
    /\ \A i, j \in Indices : Dist(i, j) < ArraySize - 1 => Dist(i, Incr(j)) = Dist(i, j) + 1
    /\ \A i, j \in Indices :
           Dist(i, j) >= 1 => /\ Dist(i, Decr(j)) = Dist(i, j) - 1
                              /\ At(i, Dist(i, j) - 1) = Decr(j)
    /\ \A i, j \in Indices : Dist(i, j) = 0 <=> i = j
    /\ \A i, j \in Indices : Incr(j) # i => Dist(i, j) < ArraySize - 1
BY JnlPoolAssumption, SMT DEF Indices, Incr, Decr, Dist, At

\* The ring seen from k slots after its head.
LEMMA RingShift ==
    \A i, j \in Indices : \A k \in 0 .. Dist(i, j) :
        /\ Dist(At(i, k), j) = Dist(i, j) - k
        /\ \A m \in 0 .. Dist(i, j) - k : At(At(i, k), m) = At(i, k + m)
BY JnlPoolAssumption, SMT DEF Indices, Dist, At

----------------------------------------------------------------------------
(* Types of the derived values.                                            *)

\* The transactions given a seqno have pids, addresses and lengths.
LEMMA LogType ==
    ASSUME TypeOK
    PROVE  /\ Len(log) \in Nat /\ DOMAIN log = 1 .. Len(log)
           /\ \A s \in 1 .. Len(log) : /\ log[s].process_id \in Pids
                                        /\ log[s].start_write_addr \in Nat
                                        /\ log[s].tot_jrec_len \in Nat
           /\ \A s \in 0 .. Len(log) : LogEnd(s) \in Nat /\ LenOf(s) \in Nat
<1> DEFINE Entry == [process_id : Pids, start_write_addr : Nat, tot_jrec_len : Nat]
<1>1. log \in Seq(Entry)
  BY DEF TypeOK
<1>2. Len(log) \in Nat /\ DOMAIN log = 1 .. Len(log)
  <2> HIDE DEF Entry
  <2>q. QED BY <1>1
<1>3. \A s \in 1 .. Len(log) : log[s] \in Entry
  <2> HIDE DEF Entry
  <2>q. QED BY <1>1
<1>4. \A s \in 1 .. Len(log) : /\ log[s].process_id \in Pids
                               /\ log[s].start_write_addr \in Nat
                               /\ log[s].tot_jrec_len \in Nat
  BY <1>3
<1>q. QED
  BY <1>2, <1>4 DEF LogEnd, LenOf

\* Fewer slots are in use, and walked over, than the array has.
LEMMA RingValues ==
    ASSUME TypeOK
    PROVE  /\ D \in 0 .. ArraySize - 1
           /\ U \in {0, 1}
           /\ First \in Int
           /\ \A p \in Pids : /\ Walk(p) \in 0 .. ArraySize - 1
                              /\ Dist(phase2_commit_index1, index1[p])
                                     \in 0 .. ArraySize - 1
<1>1. /\ D \in 0 .. ArraySize - 1
      /\ \A p \in Pids : /\ Walk(p) \in 0 .. ArraySize - 1
                         /\ Dist(phase2_commit_index1, index1[p]) \in 0 .. ArraySize - 1
  BY RingType DEF TypeOK, D, Walk
<1>2. U \in {0, 1}
  BY DEF U
<1>q. QED
  BY <1>1, <1>2, LogType, JnlPoolAssumption DEF First

----------------------------------------------------------------------------
(* The lock.                                                               *)

\* A live process inside crit is the one whose commit the pool is in the middle of.
LEMMA OwnerIs ==
    ASSUME TypeOK, LockInv, NEW p \in alive, pc[p] \in CritPoints, pc[p] # "salvage"
    PROVE  crit = p /\ Owner = p /\ Stage = pc[p] /\ p # NoPid
BY JnlPoolAssumption DEF TypeOK, LockInv, Owner, Stage

\* A live process outside of it is not.
LEMMA OwnerIsNot ==
    ASSUME TypeOK, LockInv, NEW p \in alive, pc[p] \in {"idle", "phase2"}
    PROVE  crit # p /\ Owner # p
BY JnlPoolAssumption DEF TypeOK, LockInv, Owner, CritPoints

\* mutex_clean_dead_owner, rel_lock and kills: in_crit is the owner of the lock whenever
\* the pool may be inconsistent.
LEMMA NextLock == ASSUME CleanFaults, TypeOK, LockInv, [Next]_vars PROVE LockInv'
<1> USE JnlPoolAssumption DEF GoTo, CallCleanup, Ready, LockInv, CritPoints, NotedPoints,
        CallPoints, Points
<1>s. CASE UNCHANGED vars
  BY <1>s DEF vars, jplVars, lockVars, procVars
<1>q. CASE Quiescent
  BY <1>q DEF Quiescent, vars, jplVars, lockVars, procVars
<1>p. ASSUME NEW p \in Pids, Step(p) \/ Mishap(p) PROVE LockInv'
  <2> USE DEF TypeOK
  <2>1. CASE Lock(p)
    BY <2>1 DEF Lock
  <2>2. CASE LockOwnerDead(p)
    BY <2>2 DEF LockOwnerDead
  <2>3. CASE NoteInCrit(p)
    BY <2>3 DEF NoteInCrit
  <2>4. CASE ClearInCrit(p)
    BY <2>4 DEF ClearInCrit
  <2>5. CASE Unlock(p)
    <3>1. \/ pc' = [pc EXCEPT ![p] = "phase2"]
          \/ pc' = [pc EXCEPT ![p] = "idle"]
      BY <2>5, Zenon DEF Unlock
    <3>2. /\ Ready(p, "unlock") /\ crit' = NoPid
          /\ UNCHANGED <<in_crit, holder, alive, cl>>
      BY <2>5 DEF Unlock
    <3>3. crit = p
      BY <3>2
    <3>4. CASE pc' = [pc EXCEPT ![p] = "phase2"]
      BY <3>2, <3>3, <3>4
    <3>5. CASE pc' = [pc EXCEPT ![p] = "idle"]
      BY <3>2, <3>3, <3>5
    <3>q. QED
      BY <3>1, <3>4, <3>5
  <2>6. CASE InstanceFrozen(p)
    BY <2>6 DEF InstanceFrozen, lockVars, Pids
  <2>7. CASE ArrayFull(p)
    BY <2>7 DEF ArrayFull, lockVars
  <2>8. CASE SetIndex2(p)
    BY <2>8 DEF SetIndex2, lockVars
  <2>9. CASE WaitForRoom(p)
    BY <2>9 DEF WaitForRoom, lockVars, WritePoint, Jrs, Written
  <2>10. CASE CommitError(p)
    BY <2>10 DEF CommitError, lockVars, CleanFaults, Pids
  <2>11. CASE RemoveSlot(p)
    BY <2>11 DEF RemoveSlot, lockVars
  <2>12. CASE SourcePoll(p)
    BY <2>12 DEF SourcePoll, lockVars
  <2>13. CASE SourceSalvage(p)
    BY <2>13 DEF SourceSalvage, lockVars
  <2>14. CASE CleanupLatch(p)
    BY <2>14 DEF CleanupLatch
  <2>15. CASE CleanupFree(p)
    BY <2>15 DEF CleanupFree, Return
  <2>16. CASE Kill(p)
    BY <2>16 DEF Kill, lockVars, CleanFaults, Point
  <2>17. CASE mutex_clean_dead_owner(p)
    BY <2>17 DEF mutex_clean_dead_owner
  <2>18. CASE \E len \in Lens, when \in WhenWritten : FillSlot(p, len, when)
    BY <2>18 DEF FillSlot, lockVars, Pids
  <2>19. CASE SetLastwriteLen(p)
    BY <2>19 DEF SetLastwriteLen, lockVars
  <2>20. CASE SetRsrvWriteAddr(p)
    BY <2>20 DEF SetRsrvWriteAddr, lockVars
  <2>21. CASE jpl_phase2_write_complete(p)
    BY <2>21 DEF jpl_phase2_write_complete, lockVars, WritePoint, AfterWrite, Jrs, Written, Pids
  <2>22. CASE SET_JNL_SEQNO(p)
    BY <2>22 DEF SET_JNL_SEQNO, lockVars, Pids
  <2>23. CASE t_commit_cleanup(p)
    <3>1. \/ pc' = [pc EXCEPT ![p] = "undo"]
          \/ pc' = [pc EXCEPT ![p] = "leave"]
      BY <2>23, Zenon DEF t_commit_cleanup
    <3>2. Ready(p, "error") /\ UNCHANGED <<lockVars, alive, cl>>
      BY <2>23 DEF t_commit_cleanup
    <3>3. crit = p
      BY <3>2
    <3>4. CASE pc' = [pc EXCEPT ![p] = "undo"]
      BY <3>2, <3>3, <3>4 DEF lockVars
    <3>5. CASE pc' = [pc EXCEPT ![p] = "leave"]
      BY <3>2, <3>3, <3>5 DEF lockVars
    <3>q. QED
      BY <3>1, <3>4, <3>5
  <2>24. CASE CleanupPublish(p)
    BY <2>24 DEF CleanupPublish, Return
  <2>q. QED
    BY <1>p, <2>1, <2>2, <2>3, <2>4, <2>5, <2>6, <2>7, <2>8, <2>9, <2>10, <2>11, <2>12, <2>13, <2>14, <2>15, <2>16, <2>17, <2>18, <2>19, <2>20, <2>21, <2>22, <2>23, <2>24 DEF Step, Mishap
<1>q2. QED
  BY <1>s, <1>q, <1>p DEF Next

----------------------------------------------------------------------------
(* Steps that leave the pool as it is.                                     *)

\* Nothing is stored in the pool, and the reservation is as far as it was; an error
\* after it is only noticed, and one of which only the slot was filled is forgotten.
Quiet ==
    /\ UNCHANGED <<jplVars, log>>
    /\ \/ /\ Stage' = Stage /\ Owner' = Owner
          /\ Owner # NoPid => jrs'[Owner] = jrs[Owner]
       \/ /\ Stage = "reserved" /\ Stage' = "error" /\ Owner' = Owner
          /\ jrs'[Owner] = jrs[Owner]
       \/ /\ Stage \notin Reserved \union {"lastlen", "rsrv"}
          /\ Stage' \notin Filling \union Reserved

\* The pool does not depend on where the processes are otherwise.
LEMMA QuietRing ==
    ASSUME TypeOK, LogInv, RingInv, LastInv, ReserveInv, Quiet
    PROVE  (LogInv /\ RingInv /\ LastInv /\ ReserveInv)'
<1>1. U' = U /\ D' = D /\ First' = First /\ LastCommitted' = LastCommitted
  BY DEF Quiet, U, D, First, LastCommitted, Filling, Reserved, jplVars
<1>2. LogInv'
  BY DEF Quiet, LogInv, LogEnd, jplVars
<1>3. \A i, s : SlotIs(i, s)' <=> SlotIs(i, s)
  BY DEF Quiet, SlotIs, LogEnd, LenOf, jplVars
<1>4. RingInv'
  BY <1>1, <1>3 DEF Quiet, RingInv, jplVars
<1>5. LastInv'
  BY <1>1 DEF Quiet, LastInv, EndOf, LogEnd, LenOf, jplVars
<1>6. ReserveInv'
  <2>0. /\ UNCHANGED <<phase2_commit_index2, phase2_commit_array, rsrv_write_addr,
                       lastwrite_len, log>>
        /\ LastCmt' = LastCmt /\ LogEnd(Len(log))' = LogEnd(Len(log))
        /\ LenOf(Len(log))' = LenOf(Len(log))
        /\ EndOf(LastCmt)' = EndOf(LastCmt)
    BY DEF Quiet, jplVars, LastCmt, LogEnd, LenOf, EndOf
  <2>1. CASE Stage' = Stage /\ Owner' = Owner /\ (Owner # NoPid => jrs'[Owner] = jrs[Owner])
    <3>1. Stage \in Filling \union Reserved => Owner # NoPid
      BY DEF Stage, Filling, Reserved
    <3>q. QED
      BY <1>1, <1>3, <2>0, <2>1, <3>1 DEF ReserveInv, EndOf
  <2>2. CASE Stage = "reserved" /\ Stage' = "error" /\ Owner' = Owner /\ jrs'[Owner] = jrs[Owner]
    BY <1>1, <1>3, <2>0, <2>2 DEF ReserveInv, EndOf, Filling, Reserved
  <2>3. CASE /\ Stage \notin Reserved \union {"lastlen", "rsrv"}
             /\ Stage' \notin Filling \union Reserved
    BY <1>1, <1>3, <2>0, <2>3 DEF ReserveInv, EndOf, Filling, Reserved
  <2>q. QED
    BY <2>1, <2>2, <2>3 DEF Quiet
<1>q. QED
  BY <1>2, <1>4, <1>5, <1>6

\* What is published does not depend on it either, unless a process starts to publish.
LEMMA QuietPub ==
    ASSUME TypeOK, PubInv, LatchInv, Quiet,
           alive' \subseteq alive,
           \A p \in alive' : cl'[p] \in {"latched", "published"} =>
               /\ cl'[p] = cl[p] /\ index1'[p] = index1[p] /\ index2'[p] = index2[p]
               /\ phase2_commit_latch' = phase2_commit_latch
               /\ crit' = p => crit = p
    PROVE  (PubInv /\ LatchInv)'
<1>1. U' = U /\ D' = D /\ First' = First
  BY DEF Quiet, U, D, First, Filling, Reserved, jplVars
<1>2. PICK w \in 0 .. Len(log) + 1 : PublishedUpTo(w)
  BY DEF PubInv
<1>3. UNCHANGED <<log, write_addr, phase2_commit_array, phase2_commit_index1,
                  phase2_commit_index2>>
  BY DEF Quiet, jplVars
<1>4. AddrEnd(w)' = AddrEnd(w)
  BY <1>3 DEF AddrEnd, LogEnd, EndOf, LastCmt
<1>5. Stage' = "written" <=> Stage = "written"
  BY DEF Quiet, Filling, Reserved
<1>6. PublishedUpTo(w)'
  BY <1>1, <1>2, <1>3, <1>4, <1>5 DEF PublishedUpTo, Walk
<1>7. LatchInv'
  BY <1>1, <1>3 DEF LatchInv, Walk, LogEnd
<1>q. QED
  BY <1>3, <1>6, <1>7 DEF PubInv

\* The parts of the invariant that are about the pool.
PoolInv == LogInv /\ RingInv /\ LastInv /\ ReserveInv /\ JrsInv /\ PubInv /\ LatchInv

\* The lock is taken and released, a process waits, fails or is killed.
LEMMA QuietStep ==
    ASSUME CleanFaults, TypeOK, LockInv, PoolInv, TypeOK', LockInv', NEW p \in Pids,
           \/ Lock(p) \/ LockOwnerDead(p) \/ NoteInCrit(p) \/ ClearInCrit(p) \/ Unlock(p)
           \/ InstanceFrozen(p) \/ ArrayFull(p) \/ WaitForRoom(p) \/ CommitError(p)
           \/ SourcePoll(p) \/ SourceSalvage(p) \/ Kill(p)
    PROVE  PoolInv'
<1> USE JnlPoolAssumption DEF GoTo, CallCleanup, Ready
<1>0. D' = D \/ ~UNCHANGED jplVars
  BY DEF D, jplVars
<1>1. CASE Lock(p)
  <2>1. Quiet
    BY <1>1, OwnerIs, OwnerIsNot DEF Lock, Quiet, Owner, Stage, TypeOK, LockInv, CritPoints, NotedPoints, Points, Filling, Reserved
  <2>2. JrsInv'
    BY <1>1, <1>0, OwnerIs DEF Lock, PoolInv, JrsInv, TypeOK, PendingPoints, Filling, jplVars
  <2>3. QED
    BY <1>1, <2>1, <2>2, QuietRing, QuietPub DEF Lock, PoolInv, TypeOK
<1>2. CASE LockOwnerDead(p)
  <2>1. Quiet
    BY <1>2, OwnerIs, OwnerIsNot DEF LockOwnerDead, Quiet, Owner, Stage, TypeOK, LockInv, CritPoints, NotedPoints, Points, Filling, Reserved
  <2>2. JrsInv'
    BY <1>2, <1>0, OwnerIs DEF LockOwnerDead, PoolInv, JrsInv, TypeOK, PendingPoints, Filling, jplVars
  <2>3. QED
    BY <1>2, <2>1, <2>2, QuietRing, QuietPub DEF LockOwnerDead, PoolInv, TypeOK
<1>3. CASE NoteInCrit(p)
  <2>1. Quiet
    BY <1>3, OwnerIs, OwnerIsNot DEF NoteInCrit, Quiet, Owner, Stage, TypeOK, LockInv, CritPoints, NotedPoints, Points, Filling, Reserved
  <2>2. JrsInv'
    BY <1>3, <1>0, OwnerIs DEF NoteInCrit, PoolInv, JrsInv, TypeOK, PendingPoints, Filling, jplVars
  <2>3. QED
    BY <1>3, <2>1, <2>2, QuietRing, QuietPub DEF NoteInCrit, PoolInv, TypeOK
<1>4. CASE ClearInCrit(p)
  <2>1. Quiet
    BY <1>4, OwnerIs, OwnerIsNot DEF ClearInCrit, Quiet, Owner, Stage, TypeOK, LockInv, CritPoints, NotedPoints, Points, Filling, Reserved
  <2>2. JrsInv'
    BY <1>4, <1>0, OwnerIs DEF ClearInCrit, PoolInv, JrsInv, TypeOK, PendingPoints, Filling, jplVars
  <2>3. QED
    BY <1>4, <2>1, <2>2, QuietRing, QuietPub DEF ClearInCrit, PoolInv, TypeOK
<1>5. CASE Unlock(p)
  <2>1. Quiet
    BY <1>5, OwnerIs, OwnerIsNot DEF Unlock, Quiet, Owner, Stage, TypeOK, LockInv, CritPoints, NotedPoints, Points, Filling, Reserved
  <2>2. JrsInv'
    <3>1. \/ pc' = [pc EXCEPT ![p] = "phase2"] /\ jrs' = jrs /\ jrs[p].pending
          \/ pc' = [pc EXCEPT ![p] = "idle"] /\ jrs' = [jrs EXCEPT ![p] = NoJrs]
      BY <1>5, Zenon DEF Unlock
    <3>2. Ready(p, "unlock") /\ UNCHANGED <<jplVars, alive>>
      BY <1>5 DEF Unlock
    <3>3. ~NoJrs.pending
      BY DEF NoJrs
    <3>4. CASE pc' = [pc EXCEPT ![p] = "phase2"] /\ jrs' = jrs /\ jrs[p].pending
      BY <3>2, <3>4, <1>0 DEF PoolInv, JrsInv, TypeOK, PendingPoints, Filling, jplVars
    <3>5. CASE pc' = [pc EXCEPT ![p] = "idle"] /\ jrs' = [jrs EXCEPT ![p] = NoJrs]
      BY <3>2, <3>3, <3>5, <1>0 DEF PoolInv, JrsInv, TypeOK, PendingPoints, Filling, jplVars
    <3>q. QED
      BY <3>1, <3>4, <3>5
  <2>3. QED
    BY <1>5, <2>1, <2>2, QuietRing, QuietPub DEF Unlock, PoolInv, TypeOK
<1>6. CASE InstanceFrozen(p)
  <2>1. Quiet
    BY <1>6, OwnerIs, OwnerIsNot DEF InstanceFrozen, lockVars, Quiet, Owner, Stage, TypeOK, LockInv, CritPoints, NotedPoints, Points, Filling, Reserved
  <2>2. JrsInv'
    BY <1>6, <1>0, OwnerIs DEF InstanceFrozen, lockVars, PoolInv, JrsInv, TypeOK, PendingPoints, Filling, jplVars
  <2>3. QED
    BY <1>6, <2>1, <2>2, QuietRing, QuietPub DEF InstanceFrozen, lockVars, PoolInv, TypeOK
<1>7. CASE ArrayFull(p)
  <2>1. Quiet
    BY <1>7, OwnerIs, OwnerIsNot DEF ArrayFull, lockVars, Quiet, Owner, Stage, TypeOK, LockInv, CritPoints, NotedPoints, Points, Filling, Reserved
  <2>2. JrsInv'
    BY <1>7, <1>0, OwnerIs DEF ArrayFull, lockVars, PoolInv, JrsInv, TypeOK, PendingPoints, Filling, jplVars
  <2>3. QED
    BY <1>7, <2>1, <2>2, QuietRing, QuietPub DEF ArrayFull, lockVars, PoolInv, TypeOK
<1>8. CASE WaitForRoom(p)
  <2>1. Quiet
    BY <1>8, OwnerIs, OwnerIsNot DEF WaitForRoom, lockVars, WritePoint, Jrs, Written, Quiet, Owner, Stage, TypeOK, LockInv, CritPoints, NotedPoints, Points, Filling, Reserved
  <2>2. JrsInv'
    BY <1>8, <1>0, OwnerIs DEF WaitForRoom, lockVars, WritePoint, Jrs, Written, PoolInv, JrsInv, TypeOK, PendingPoints, Filling, jplVars
  <2>3. QED
    BY <1>8, <2>1, <2>2, QuietRing, QuietPub DEF WaitForRoom, lockVars, WritePoint, Jrs, Written, PoolInv, TypeOK
<1>9. CASE CommitError(p)
  <2>1. Quiet
    BY <1>9, OwnerIs, OwnerIsNot DEF CommitError, lockVars, CleanFaults, Quiet, Owner, Stage, TypeOK, LockInv, CritPoints, NotedPoints, Points, Filling, Reserved
  <2>2. JrsInv'
    <3>1. /\ pc' = [pc EXCEPT ![p] = "error"] /\ pc[p] = "reserved" /\ p \in alive
          /\ UNCHANGED <<jplVars, alive, jrs>>
      BY <1>9, JnlPoolAssumption DEF CommitError, Ready, GoTo, CleanFaults
    <3>2. /\ pc'[p] = "error" /\ \A q \in Pids : q # p => pc'[q] = pc[q]
      BY <3>1 DEF TypeOK
    <3>3. JrsInv /\ jrs[p].pending
      BY <3>1 DEF PoolInv, JrsInv, Filling
    <3>q. QED
      BY <3>1, <3>2, <3>3, <1>0 DEF JrsInv, PendingPoints, Filling, jplVars
  <2>3. QED
    BY <1>9, <2>1, <2>2, QuietRing, QuietPub DEF CommitError, lockVars, CleanFaults, PoolInv, TypeOK
<1>10. CASE SourcePoll(p)
  <2>1. Quiet
    BY <1>10, OwnerIs, OwnerIsNot DEF SourcePoll, lockVars, Quiet, Owner, Stage, TypeOK, LockInv, CritPoints, NotedPoints, Points, Filling, Reserved
  <2>2. JrsInv'
    BY <1>10, <1>0, OwnerIs DEF SourcePoll, lockVars, PoolInv, JrsInv, TypeOK, PendingPoints, Filling, jplVars
  <2>3. QED
    BY <1>10, <2>1, <2>2, QuietRing, QuietPub DEF SourcePoll, lockVars, PoolInv, TypeOK
<1>11. CASE SourceSalvage(p)
  <2>1. Quiet
    BY <1>11, OwnerIs, OwnerIsNot DEF SourceSalvage, lockVars, Quiet, Owner, Stage, TypeOK, LockInv, CritPoints, NotedPoints, Points, Filling, Reserved
  <2>2. JrsInv'
    BY <1>11, <1>0, OwnerIs DEF SourceSalvage, lockVars, PoolInv, JrsInv, TypeOK, PendingPoints, Filling, jplVars
  <2>3. QED
    BY <1>11, <2>1, <2>2, QuietRing, QuietPub DEF SourceSalvage, lockVars, PoolInv, TypeOK
<1>12. CASE Kill(p)
  <2>1. Quiet
    BY <1>12, OwnerIs, OwnerIsNot DEF Kill, lockVars, Quiet, Owner, Stage, TypeOK, LockInv, CritPoints, NotedPoints, Points, Filling, Reserved
  <2>2. JrsInv'
    BY <1>12, <1>0, OwnerIs DEF Kill, lockVars, PoolInv, JrsInv, TypeOK, PendingPoints, Filling, jplVars
  <2>3. QED
    BY <1>12, <2>1, <2>2, QuietRing, QuietPub DEF Kill, lockVars, PoolInv, TypeOK
<1>q. QED
  BY <1>1, <1>2, <1>3, <1>4, <1>5, <1>6, <1>7, <1>8, <1>9, <1>10, <1>11, <1>12

----------------------------------------------------------------------------
(* The reservation: UPDATE_JPL_RSRV_WRITE_ADDR.                            *)

\* Slots in use are not the free one behind them, which is not the one before it.
LEMMA InRing ==
    ASSUME TypeOK
    PROVE  /\ phase2_commit_index1 \in Indices /\ phase2_commit_index2 \in Indices
           /\ \A k \in 0 .. D - 1 : /\ At(phase2_commit_index1, k) \in Indices
                                    /\ At(phase2_commit_index1, k) # phase2_commit_index2
           /\ Decr(phase2_commit_index2) \in Indices
           /\ Decr(phase2_commit_index2) # phase2_commit_index2
           /\ D = 0 <=> phase2_commit_index1 = phase2_commit_index2
           /\ D >= 1 => At(phase2_commit_index1, D - 1) = Decr(phase2_commit_index2)
<1>1. phase2_commit_index1 \in Indices /\ phase2_commit_index2 \in Indices
  BY DEF TypeOK
<1>2. D \in 0 .. ArraySize - 1
  BY RingValues
<1>3. ASSUME NEW k \in 0 .. D - 1
      PROVE  At(phase2_commit_index1, k) \in Indices
             /\ At(phase2_commit_index1, k) # phase2_commit_index2
  <2>1. k \in 0 .. ArraySize - 1
    BY <1>2, JnlPoolAssumption
  <2>2. Dist(phase2_commit_index1, At(phase2_commit_index1, k)) = k
    BY <1>1, <2>1, RingArith
  <2>3. k # D
    BY <1>2, JnlPoolAssumption
  <2>q. QED
    BY <1>1, <2>1, <2>2, <2>3, RingType DEF D
<1>4. Decr(phase2_commit_index2) \in Indices /\ Decr(phase2_commit_index2) # phase2_commit_index2
  BY <1>1, RingType, RingArith
<1>5. D = 0 <=> phase2_commit_index1 = phase2_commit_index2
  BY <1>1, RingArith DEF D
<1>6. D >= 1 => At(phase2_commit_index1, D - 1) = Decr(phase2_commit_index2)
  BY <1>1, RingArith DEF D
<1>q. QED
  BY <1>1, <1>3, <1>4, <1>5, <1>6

\* Lengths are positive numbers.
LEMMA LensPositive == \A len \in Lens : len \in Nat /\ len > 0
BY JnlPoolAssumption

\* A free slot is filled: nothing in use changes.
LEMMA FillSlotInv ==
    ASSUME TypeOK, LockInv, PoolInv, TypeOK', LockInv', NEW p \in Pids,
           NEW len \in Lens, NEW when \in WhenWritten, FillSlot(p, len, when)
    PROVE  PoolInv'
<1> USE JnlPoolAssumption DEF GoTo, Ready
<1>1. /\ p \in alive /\ pc[p] = "crit" /\ cl[p] = "none" /\ ~Full
      /\ pc' = [pc EXCEPT ![p] = "slot"]
      /\ UNCHANGED <<phase2_commit_index1, phase2_commit_index2, rsrv_write_addr,
                     write_addr, lastwrite_len, jnl_seqno, crit, in_crit,
                     phase2_commit_latch, holder, alive, cl, index2, index1, log>>
  BY DEF FillSlot, lockVars
<1>2. /\ crit = p /\ Owner = p /\ Stage = "crit" /\ p # NoPid
      /\ Owner' = p /\ Stage' = "slot"
  <2>1. pc[p] \in CritPoints /\ pc[p] # "salvage"
    BY <1>1 DEF CritPoints, Points
  <2>2. crit = p /\ Owner = p /\ Stage = "crit" /\ p # NoPid
    BY <1>1, <2>1, OwnerIs
  <2>q. QED
    BY <1>1, <2>2 DEF Owner, Stage, TypeOK
<1>3. U = 0 /\ U' = 0 /\ D' = D /\ First' = First
  BY <1>1, <1>2 DEF U, D, First, Reserved
<1>4. /\ phase2_commit_array'[phase2_commit_index2] = NewSlot(p, len)
      /\ \A i \in Indices : i # phase2_commit_index2 =>
             phase2_commit_array'[i] = phase2_commit_array[i]
  BY InRing DEF FillSlot, TypeOK
<1>5. /\ jrs'[p] = [phase2_commit_index |-> phase2_commit_index2, when |-> when,
                    pending |-> TRUE]
      /\ \A q \in Pids : q # p => jrs'[q] = jrs[q]
  BY DEF FillSlot, TypeOK
<1>6. rsrv_write_addr = LogEnd(Len(log)) /\ lastwrite_len = LenOf(Len(log))
  BY <1>2 DEF PoolInv, ReserveInv, Reserved
<1>7. LogInv'
  BY <1>1 DEF PoolInv, LogInv, LogEnd
<1>8. RingInv'
  BY <1>1, <1>3, <1>4, InRing DEF PoolInv, RingInv, SlotIs, LogEnd, LenOf
<1>9. LastInv'
  BY <1>1, <1>3, <1>4, InRing DEF PoolInv, LastInv, LastCommitted, LogEnd, LenOf, EndOf
<1>10. ReserveInv'
  <2>1. D < ArraySize - 1
    BY <1>1, InRing, RingArith DEF Full, D
  <2>2. SlotIs(phase2_commit_index2, Len(log) + 1)'
    BY <1>1, <1>4, <1>6, LogType DEF SlotIs, NewSlot, PoolInv, LogInv, LogEnd, LenOf
  <2>q. QED
    BY <1>1, <1>2, <1>3, <1>4, <1>5, <1>6, <2>1, <2>2
       DEF ReserveInv, NewSlot, Filling, Reserved, LogEnd, LenOf
<1>11. JrsInv'
  <2> SUFFICES ASSUME NEW q \in alive
               PROVE  JrsInv!(q)'
    BY <1>1 DEF JrsInv
  <2>1. CASE q = p
    BY <2>1, <1>1, <1>4, <1>5 DEF PendingPoints, Filling, NewSlot, TypeOK
  <2>2. CASE q # p
    <3>1. pc'[q] = pc[q] /\ jrs'[q] = jrs[q] /\ q \in Pids
      BY <2>2, <1>1, <1>5 DEF TypeOK
    <3>2. pc[q] \notin Filling
      BY <2>2, <1>2 DEF LockInv, Filling, CritPoints, Points
    <3>q. QED
      BY <2>2, <1>1, <1>3, <1>4, <3>1, <3>2, InRing DEF PoolInv, JrsInv
  <2>q. QED
    BY <2>1, <2>2
<1>12. PubInv'
  <2>1. PICK w \in 0 .. Len(log) + 1 : PublishedUpTo(w)
    BY DEF PoolInv, PubInv
  <2>2. w <= Len(log)
    BY <1>2, <2>1 DEF PublishedUpTo
  <2>3. AddrEnd(w)' = AddrEnd(w)
    BY <1>1, <2>2 DEF AddrEnd, LogEnd
  <2>4. PublishedUpTo(w)'
    BY <1>1, <1>2, <1>3, <1>4, <2>1, <2>2, <2>3, InRing DEF PublishedUpTo, Walk
  <2>q. QED
    BY <1>1, <2>4 DEF PubInv
<1>13. LatchInv'
  BY <1>1, <1>2, <1>3, <1>4, <1>6 DEF PoolInv, LatchInv, Walk, LogEnd, NewSlot
<1>q. QED
  BY <1>7, <1>8, <1>9, <1>10, <1>11, <1>12, <1>13 DEF PoolInv

\* lastwrite_len and then rsrv_write_addr are stored: the slot is still not in the ring.
LEMMA StoreInv ==
    ASSUME TypeOK, LockInv, PoolInv, TypeOK', LockInv', NEW p \in Pids,
           SetLastwriteLen(p) \/ SetRsrvWriteAddr(p)
    PROVE  PoolInv'
<1> USE JnlPoolAssumption DEF GoTo, Ready
<1>1. /\ p \in alive /\ cl[p] = "none"
      /\ \/ /\ pc[p] = "slot" /\ pc' = [pc EXCEPT ![p] = "lastlen"]
            /\ lastwrite_len' = MySlot(p).tot_jrec_len
            /\ UNCHANGED rsrv_write_addr
         \/ /\ pc[p] = "lastlen" /\ pc' = [pc EXCEPT ![p] = "rsrv"]
            /\ rsrv_write_addr' = EndOf(MySlot(p))
            /\ UNCHANGED lastwrite_len
      /\ UNCHANGED <<phase2_commit_index1, phase2_commit_index2, phase2_commit_array,
                     write_addr, jnl_seqno, crit, in_crit, phase2_commit_latch, holder,
                     alive, cl, index2, index1, jrs, log>>
  BY DEF SetLastwriteLen, SetRsrvWriteAddr, lockVars
<1>2. /\ crit = p /\ Owner = p /\ Stage = pc[p] /\ p # NoPid
      /\ Owner' = p /\ Stage' = pc'[p]
  <2>1. pc[p] \in CritPoints /\ pc[p] # "salvage"
    BY <1>1 DEF CritPoints, Points
  <2>2. crit = p /\ Owner = p /\ Stage = pc[p] /\ p # NoPid
    BY <1>1, <2>1, OwnerIs
  <2>q. QED
    BY <1>1, <2>2 DEF Owner, Stage, TypeOK
<1>3. pc'[p] \in {"lastlen", "rsrv"}
  BY <1>1 DEF TypeOK
<1>4. U = 0 /\ U' = 0 /\ D' = D /\ First' = First
  BY <1>1, <1>2, <1>3 DEF U, D, First, Reserved
<1>5. \A i, s : SlotIs(i, s)' <=> SlotIs(i, s)
  BY <1>1 DEF SlotIs, LogEnd, LenOf
<1>6. MySlot(p) = phase2_commit_array[phase2_commit_index2]
  BY <1>1, <1>2 DEF PoolInv, ReserveInv, MySlot, Filling
<1>7. LogInv'
  BY <1>1 DEF PoolInv, LogInv, LogEnd
<1>8. RingInv'
  BY <1>1, <1>4, <1>5 DEF PoolInv, RingInv
<1>9. LastInv'
  BY <1>1, <1>4 DEF PoolInv, LastInv, LastCommitted, LogEnd, LenOf, EndOf
<1>10. ReserveInv'
  <2>1. CASE pc[p] = "slot"
    BY <2>1, <1>1, <1>2, <1>4, <1>5, <1>6
       DEF PoolInv, ReserveInv, Filling, Reserved, LogEnd, LenOf, TypeOK
  <2>2. CASE pc[p] = "lastlen"
    BY <2>2, <1>1, <1>2, <1>4, <1>5, <1>6
       DEF PoolInv, ReserveInv, Filling, Reserved, LogEnd, LenOf, EndOf, TypeOK
  <2>q. QED
    BY <1>1, <2>1, <2>2
<1>11. JrsInv'
  BY <1>1, <1>4 DEF PoolInv, JrsInv, PendingPoints, Filling, TypeOK
<1>12. PubInv'
  <2>1. PICK w \in 0 .. Len(log) + 1 : PublishedUpTo(w)
    BY DEF PoolInv, PubInv
  <2>2. w <= Len(log)
    BY <1>1, <1>2, <2>1 DEF PublishedUpTo
  <2>3. AddrEnd(w)' = AddrEnd(w)
    BY <1>1, <2>2 DEF AddrEnd, LogEnd
  <2>4. PublishedUpTo(w)'
    BY <1>1, <1>2, <1>3, <1>4, <2>1, <2>2, <2>3 DEF PublishedUpTo, Walk
  <2>q. QED
    BY <1>1, <2>4 DEF PubInv
<1>13. LatchInv'
  BY <1>1, <1>4 DEF PoolInv, LatchInv, Walk, LogEnd
<1>q. QED
  BY <1>7, <1>8, <1>9, <1>10, <1>11, <1>12, <1>13 DEF PoolInv

\* The slot is put in the ring (CMT03).
LEMMA SetIndex2Inv ==
    ASSUME TypeOK, LockInv, PoolInv, TypeOK', LockInv', NEW p \in Pids, SetIndex2(p)
    PROVE  PoolInv'
<1> USE JnlPoolAssumption DEF GoTo, Ready
<1>1. /\ p \in alive /\ cl[p] = "none" /\ pc[p] = "rsrv"
      /\ pc' = [pc EXCEPT ![p] = "reserved"]
      /\ phase2_commit_index2' = Incr(phase2_commit_index2)
      /\ UNCHANGED <<phase2_commit_index1, phase2_commit_array, rsrv_write_addr,
                     lastwrite_len, write_addr, jnl_seqno, crit, in_crit,
                     phase2_commit_latch, holder, alive, cl, index2, index1, jrs, log>>
  BY DEF SetIndex2, lockVars
<1>2. /\ crit = p /\ Owner = p /\ Stage = "rsrv" /\ p # NoPid
      /\ Owner' = p /\ Stage' = "reserved"
  <2>1. pc[p] \in CritPoints /\ pc[p] # "salvage"
    BY <1>1 DEF CritPoints, Points
  <2>2. crit = p /\ Owner = p /\ Stage = "rsrv" /\ p # NoPid
    BY <1>1, <2>1, OwnerIs
  <2>q. QED
    BY <1>1, <2>2 DEF Owner, Stage, TypeOK
<1>3. /\ D < ArraySize - 1
      /\ jrs[p].phase2_commit_index = phase2_commit_index2
      /\ SlotIs(phase2_commit_index2, Len(log) + 1)
      /\ phase2_commit_array[phase2_commit_index2].process_id = p
      /\ ~phase2_commit_array[phase2_commit_index2].write_complete
      /\ rsrv_write_addr = EndOf(phase2_commit_array[phase2_commit_index2])
      /\ lastwrite_len = phase2_commit_array[phase2_commit_index2].tot_jrec_len
  BY <1>2 DEF PoolInv, ReserveInv, Filling
<1>4. U = 0 /\ U' = 1
  BY <1>2 DEF U, Reserved
<1>5. D' = D + 1
  BY <1>1, <1>3, InRing, RingArith DEF D
<1>6. First' = First
  BY <1>1, <1>4, <1>5, LogType, RingValues DEF First
<1>7. \A i, s : SlotIs(i, s)' <=> SlotIs(i, s)
  BY <1>1 DEF SlotIs, LogEnd, LenOf
<1>8. At(phase2_commit_index1, D) = phase2_commit_index2
  BY InRing, RingArith DEF D
<1>9. Decr(phase2_commit_index2') = phase2_commit_index2
  BY <1>1, InRing, RingArith
<1>10. LogInv'
  BY <1>1 DEF PoolInv, LogInv, LogEnd
<1>11. RingInv'
  <2>1. First + D = Len(log) + 1
    BY <1>4, LogType, RingValues DEF First
  <2>2. ASSUME NEW k \in 0 .. D PROVE SlotIs(At(phase2_commit_index1, k), First + k)
    <3>1. CASE k = D
      BY <3>1, <1>3, <1>8, <2>1
    <3>2. CASE k # D
      BY <3>2, RingValues DEF PoolInv, RingInv
    <3>q. QED
      BY <3>1, <3>2
  <2>q. QED
    BY <1>1, <1>5, <1>6, <1>7, <2>2, RingValues DEF PoolInv, RingInv
<1>12. LastInv'
  BY <1>1, <1>4, <1>9 DEF PoolInv, LastInv, LastCommitted, LogEnd, LenOf, EndOf
<1>13. ReserveInv'
  BY <1>1, <1>2, <1>3, <1>5, <1>7, <1>9, RingValues
     DEF ReserveInv, LastCmt, Filling, Reserved, EndOf
<1>14. JrsInv'
  <2>1. \A k \in 0 .. D - 1 : k \in 0 .. D' - 1
    BY <1>5, RingValues
  <2>2. D \in 0 .. D' - 1
    BY <1>5, RingValues
  <2>q. QED
    BY <1>1, <1>3, <1>8, <2>1, <2>2 DEF PoolInv, JrsInv, PendingPoints, Filling, TypeOK
<1>15. PubInv'
  <2>1. PICK w \in 0 .. Len(log) + 1 : PublishedUpTo(w)
    BY DEF PoolInv, PubInv
  <2>2. w <= Len(log)
    BY <1>2, <2>1 DEF PublishedUpTo
  <2>3. AddrEnd(w)' = AddrEnd(w)
    BY <1>1, <2>2 DEF AddrEnd, LogEnd
  <2>4. ~(First + D <= w)
    BY <1>4, <2>2, LogType, RingValues DEF First
  <2>5. \A k \in 0 .. D' - 1 : First + k <= w => k \in 0 .. D - 1
    BY <1>5, <2>4, RingValues
  <2>6. PublishedUpTo(w)'
    BY <1>1, <1>2, <1>6, <2>1, <2>2, <2>3, <2>5 DEF PublishedUpTo, Walk
  <2>q. QED
    BY <1>1, <2>6 DEF PubInv
<1>16. LatchInv'
  <2>1. \A q \in alive : q \in Pids
    BY DEF TypeOK
  <2>q. QED
    BY <1>1, <1>2, <1>4, <1>5, <2>1, RingValues DEF PoolInv, LatchInv, Walk
<1>q. QED
  BY <1>10, <1>11, <1>12, <1>13, <1>14, <1>15, <1>16 DEF PoolInv

----------------------------------------------------------------------------
(* The reservation is undone: t_commit_cleanup, mutex_clean_dead_owner.    *)

\* What is common to both: the slot is taken out of the ring when the addresses are, or
\* already were, what they were before it.
LEMMA Unreserve ==
    ASSUME TypeOK, LockInv, PoolInv, TypeOK',
           Stage \in Reserved \ {"written"},
           Stage' \notin Filling \union Reserved,
           Owner \in alive => ~jrs[Owner].pending,
           crit \in alive, cl[crit] = "none", ~jrs[crit].pending,
           pc'[crit] \in {"leave", "locked"},
           \A q \in alive : q # crit => pc'[q] = pc[q],
           phase2_commit_index2' = Decr(phase2_commit_index2),
           rsrv_write_addr' = LogEnd(Len(log)),
           lastwrite_len' = LenOf(Len(log)),
           UNCHANGED <<phase2_commit_index1, phase2_commit_array, write_addr, jnl_seqno,
                       crit, phase2_commit_latch, alive, cl, index2, index1, jrs, log>>
    PROVE  PoolInv'
<1> USE JnlPoolAssumption
<1>1. /\ SlotIs(Decr(phase2_commit_index2), Len(log) + 1)
      /\ LastCmt.process_id = Owner
      /\ D >= 1 /\ ~LastCmt.write_complete
  BY DEF PoolInv, ReserveInv
<1>2. U = 1 /\ U' = 0
  BY DEF U
<1>3. D' = D - 1 /\ D' \in 0 .. ArraySize - 1
  BY <1>1, InRing, RingArith, RingValues DEF D
<1>4. First' = First
  BY <1>2, <1>3, LogType, RingValues DEF First
<1>5. \A i, s : SlotIs(i, s)' <=> SlotIs(i, s)
  BY DEF SlotIs, LogEnd, LenOf
<1>6. \A k \in 0 .. D' - 1 : k \in 0 .. D - 1
  BY <1>3, RingValues
<1>7. LogInv'
  BY DEF PoolInv, LogInv, LogEnd
<1>8. RingInv'
  BY <1>4, <1>5, <1>6 DEF PoolInv, RingInv
<1>9. LastInv'
  BY <1>2 DEF PoolInv, LastInv, LastCommitted, LogEnd, LenOf, EndOf
<1>10. ReserveInv'
  BY DEF ReserveInv, Filling, Reserved, LogEnd, LenOf
<1>11. JrsInv'
  <2> SUFFICES ASSUME NEW q \in alive
               PROVE  JrsInv!(q)'
    BY DEF JrsInv
  <2>1. CASE q = crit
    BY <2>1 DEF Filling
  <2>2. CASE q # crit
    <3>1. pc'[q] = pc[q] /\ pc[q] \notin Filling
      BY <2>2 DEF LockInv, Filling, CritPoints, Points
    <3>2. ASSUME jrs[q].pending
          PROVE  \E k \in 0 .. D' - 1 :
                     jrs[q].phase2_commit_index = At(phase2_commit_index1, k)
      <4>1. PICK k \in 0 .. D - 1 :
                     jrs[q].phase2_commit_index = At(phase2_commit_index1, k)
        BY <3>1, <3>2 DEF PoolInv, JrsInv
      <4>2. phase2_commit_array[At(phase2_commit_index1, k)].process_id = q
        BY <3>2, <4>1 DEF PoolInv, JrsInv
      <4>3. k # D - 1
        BY <1>1, <3>2, <4>2, InRing DEF LastCmt
      <4>q. QED
        BY <1>3, <4>1, <4>3, RingValues
    <3>q. QED
      BY <3>1, <3>2 DEF PoolInv, JrsInv
  <2>q. QED
    BY <2>1, <2>2
<1>12. PubInv'
  <2>1. PICK w \in 0 .. Len(log) + 1 : PublishedUpTo(w)
    BY DEF PoolInv, PubInv
  <2>2. w <= Len(log)
    BY <2>1 DEF PublishedUpTo
  <2>3. AddrEnd(w)' = AddrEnd(w)
    BY <2>2 DEF AddrEnd, LogEnd
  <2>4. PublishedUpTo(w)'
    BY <1>4, <1>6, <2>1, <2>2, <2>3 DEF PublishedUpTo, Walk, Reserved
  <2>q. QED
    BY <2>4 DEF PubInv
<1>13. LatchInv'
  <2>1. ASSUME NEW q \in alive PROVE LatchInv!(q)'
    <3>0. q \in Pids
      BY DEF TypeOK
    <3>1. cl[q] = "latched" => crit # q
      OBVIOUS
    <3>2. Walk(q)' = Walk(q)
      BY DEF Walk
    <3>3. cl[q] = "latched" => Walk(q) <= D' + 1 - U'
      BY <1>2, <1>3, <3>0, RingValues DEF PoolInv, LatchInv
    <3>4. /\ ~phase2_commit_array[Decr(phase2_commit_index2)].write_complete
          /\ phase2_commit_array[Decr(phase2_commit_index2)].start_write_addr
                 = LogEnd(Len(log))
      BY <1>1, LogType DEF SlotIs, LastCmt
    <3>5. /\ cl[q] \in {"latched", "published"} => phase2_commit_latch = q
          /\ cl[q] = "published" => Dist(phase2_commit_index1, index1[q]) \in 1 .. D
      BY DEF PoolInv, LatchInv
    <3>6. cl[q] = "published" => Dist(phase2_commit_index1, index1[q]) # D
      <4> SUFFICES ASSUME cl[q] = "published", Dist(phase2_commit_index1, index1[q]) = D
                   PROVE  FALSE
        OBVIOUS
      <4>1. PICK w \in 0 .. Len(log) + 1 : PublishedUpTo(w)
        BY DEF PoolInv, PubInv
      <4>2. w = First + D - 1 /\ w <= Len(log)
        BY <4>1 DEF PublishedUpTo
      <4>q. QED
        BY <1>2, <4>2, LogType, RingValues DEF First
    <3>q. QED
      BY <1>3, <3>0, <3>1, <3>2, <3>3, <3>4, <3>5, <3>6, RingValues DEF LogEnd
  <2>q. QED
    BY <2>1 DEF LatchInv
<1>q. QED
  BY <1>7, <1>8, <1>9, <1>10, <1>11, <1>12, <1>13 DEF PoolInv

\* t_commit_cleanup finds its own slot last in the ring and restores the addresses; the
\* slot is still in the ring, as it will be taken out next.
LEMMA t_commit_cleanupInv ==
    ASSUME TypeOK, LockInv, PoolInv, TypeOK', LockInv', NEW p \in Pids, t_commit_cleanup(p)
    PROVE  PoolInv'
<1> USE JnlPoolAssumption DEF GoTo, Ready
<1>1. /\ p \in alive /\ cl[p] = "none" /\ pc[p] = "error"
      /\ UNCHANGED <<phase2_commit_index1, phase2_commit_index2, phase2_commit_array,
                     write_addr, jnl_seqno, crit, in_crit, phase2_commit_latch, holder,
                     alive, cl, index2, index1, log>>
      /\ jrs' = [jrs EXCEPT ![p] = NoJrs]
  BY DEF t_commit_cleanup, lockVars
<1>2. crit = p /\ Owner = p /\ Stage = "error" /\ p # NoPid
  <2>1. pc[p] \in CritPoints /\ pc[p] # "salvage"
    BY <1>1 DEF CritPoints, Points
  <2>q. QED
    BY <1>1, <2>1, OwnerIs
<1>3. /\ SlotIs(Decr(phase2_commit_index2), Len(log) + 1)
      /\ LastCmt.process_id = p
      /\ D >= 1 /\ ~LastCmt.write_complete
  BY <1>2 DEF PoolInv, ReserveInv, Reserved
<1>4. phase2_commit_index1 # phase2_commit_index2
  BY <1>3, InRing
<1>5. /\ rsrv_write_addr' = LogEnd(Len(log)) /\ lastwrite_len' = LenOf(Len(log))
      /\ pc' = [pc EXCEPT ![p] = "undo"]
  <2>1. UndoCMT03 /\ pc' = [pc EXCEPT ![p] = "undo"]
    BY <1>3, <1>4, Zenon DEF t_commit_cleanup
  <2>q. QED
    BY <1>3, <2>1, LogType DEF UndoCMT03, SlotIs, LastCmt
<1>6. Owner' = p /\ Stage' = "undo"
  BY <1>1, <1>2, <1>5 DEF Owner, Stage, TypeOK
<1>7. U = 1 /\ U' = 1 /\ D' = D /\ First' = First
  BY <1>1, <1>2, <1>6 DEF U, D, First, Reserved
<1>8. \A i, s : SlotIs(i, s)' <=> SlotIs(i, s)
  BY <1>1 DEF SlotIs, LogEnd, LenOf
<1>9. LogInv'
  BY <1>1 DEF PoolInv, LogInv, LogEnd
<1>10. RingInv'
  BY <1>1, <1>7, <1>8 DEF PoolInv, RingInv
<1>11. LastInv'
  BY <1>1, <1>7 DEF PoolInv, LastInv, LastCommitted, LogEnd, LenOf, EndOf
<1>12. ReserveInv'
  BY <1>1, <1>3, <1>5, <1>6, <1>7, <1>8
     DEF ReserveInv, Filling, Reserved, LastCmt, LogEnd, LenOf
<1>13. JrsInv'
  <2>1. jrs'[p] = NoJrs /\ ~NoJrs.pending
    BY <1>1 DEF NoJrs, TypeOK
  <2> SUFFICES ASSUME NEW q \in alive
               PROVE  JrsInv!(q)'
    BY <1>1 DEF JrsInv
  <2>2. CASE q = p
    BY <2>1, <2>2, <1>5 DEF Filling, TypeOK
  <2>3. CASE q # p
    <3>1. pc'[q] = pc[q] /\ jrs'[q] = jrs[q]
      BY <2>3, <1>1, <1>5 DEF TypeOK
    <3>q. QED
      BY <3>1, <1>1, <1>7 DEF PoolInv, JrsInv
  <2>q. QED
    BY <2>2, <2>3
<1>14. PubInv'
  <2>1. PICK w \in 0 .. Len(log) + 1 : PublishedUpTo(w)
    BY DEF PoolInv, PubInv
  <2>2. w <= Len(log)
    BY <1>2, <2>1 DEF PublishedUpTo
  <2>3. AddrEnd(w)' = AddrEnd(w)
    BY <1>1, <2>2 DEF AddrEnd, LogEnd
  <2>4. PublishedUpTo(w)'
    BY <1>1, <1>6, <1>7, <2>1, <2>2, <2>3 DEF PublishedUpTo, Walk
  <2>q. QED
    BY <1>1, <2>4 DEF PubInv
<1>15. LatchInv'
  BY <1>1, <1>7 DEF PoolInv, LatchInv, Walk, LogEnd
<1>q. QED
  BY <1>9, <1>10, <1>11, <1>12, <1>13, <1>14, <1>15 DEF PoolInv

\* t_commit_cleanup takes its slot out of the ring.
LEMMA RemoveSlotInv ==
    ASSUME TypeOK, LockInv, PoolInv, TypeOK', LockInv', NEW p \in Pids, RemoveSlot(p)
    PROVE  PoolInv'
<1> USE JnlPoolAssumption DEF GoTo, Ready
<1>1. /\ p \in alive /\ cl[p] = "none" /\ pc[p] = "undo"
      /\ pc' = [pc EXCEPT ![p] = "leave"]
      /\ phase2_commit_index2' = Decr(phase2_commit_index2)
      /\ UNCHANGED <<phase2_commit_index1, phase2_commit_array, rsrv_write_addr,
                     lastwrite_len, write_addr, jnl_seqno, crit, in_crit,
                     phase2_commit_latch, holder, alive, cl, index2, index1, jrs, log>>
  BY DEF RemoveSlot, lockVars
<1>2. crit = p /\ Owner = p /\ Stage = "undo" /\ p # NoPid
  <2>1. pc[p] \in CritPoints /\ pc[p] # "salvage"
    BY <1>1 DEF CritPoints, Points
  <2>q. QED
    BY <1>1, <2>1, OwnerIs
<1>3. Stage' = "leave"
  BY <1>1, <1>2 DEF Owner, Stage, TypeOK
<1>4. rsrv_write_addr = LogEnd(Len(log)) /\ lastwrite_len = LenOf(Len(log))
  BY <1>2 DEF PoolInv, ReserveInv, Reserved
<1>5. ~jrs[p].pending
  BY <1>1 DEF PoolInv, JrsInv, PendingPoints, Filling
<1>6. \A q \in alive : q # p => pc'[q] = pc[q]
  BY <1>1 DEF TypeOK
<1>7. pc'[p] = "leave"
  BY <1>1 DEF TypeOK
<1>q. QED
  BY <1>1, <1>2, <1>3, <1>4, <1>5, <1>6, <1>7, Unreserve DEF Filling, Reserved

\* mutex_clean_dead_owner recognises from the last slot how far the dead owner was: a
\* reservation without a seqno is undone, otherwise the pool is left as it was.
LEMMA mutex_clean_dead_ownerInv ==
    ASSUME TypeOK, LockInv, PoolInv, TypeOK', LockInv', NEW p \in Pids,
           mutex_clean_dead_owner(p)
    PROVE  PoolInv'
<1> USE JnlPoolAssumption DEF GoTo, Ready
<1>1. /\ p \in alive /\ cl[p] = "none" /\ pc[p] = "salvage"
      /\ pc' = [pc EXCEPT ![p] = "locked"]
      /\ holder' = NoPid
      /\ UNCHANGED <<phase2_commit_index1, phase2_commit_array, write_addr, jnl_seqno,
                     crit, in_crit, phase2_commit_latch, alive, cl, index2, index1, jrs,
                     log>>
  BY DEF mutex_clean_dead_owner
<1>2. /\ crit = p /\ p # NoPid /\ Owner = holder
      /\ holder # NoPid => /\ holder \in Pids \ alive /\ pc[holder] \in NotedPoints
                           /\ pc[holder] \notin {"lastlen", "rsrv", "written", "salvage"}
      /\ Stage \in (NotedPoints \ {"lastlen", "rsrv", "written"}) \union {"idle"}
  BY <1>1 DEF Owner, Stage, LockInv, CritPoints, NotedPoints, Points, TypeOK
<1>3. Owner' = p /\ Stage' = "locked" /\ pc'[p] = "locked"
  BY <1>1, <1>2 DEF Owner, Stage, TypeOK
<1>4. ~jrs[p].pending
  BY <1>1 DEF PoolInv, JrsInv, PendingPoints, Filling
<1>5. \A q \in alive : q # p => pc'[q] = pc[q] /\ pc[q] # "salvage"
  BY <1>1, <1>2 DEF TypeOK, LockInv, CritPoints, Points
<1>6. CASE Stage \in Reserved
  <2>1. /\ SlotIs(Decr(phase2_commit_index2), Len(log) + 1)
        /\ LastCmt.process_id = holder /\ D >= 1
    BY <1>2, <1>6 DEF PoolInv, ReserveInv, NotedPoints
  <2>2. phase2_commit_index1 # phase2_commit_index2
    BY <2>1, InRing
  <2>3. LastCmt.jnl_seqno = jnl_seqno
    BY <2>1 DEF SlotIs, LastCmt, PoolInv, LogInv
  <2>4. RollBack
    BY <2>1, <2>2, <2>3, Zenon DEF mutex_clean_dead_owner
  <2>5. /\ phase2_commit_index2' = Decr(phase2_commit_index2)
        /\ rsrv_write_addr' = LogEnd(Len(log)) /\ lastwrite_len' = LenOf(Len(log))
    BY <2>1, <2>4, LogType DEF RollBack, UndoCMT03, SlotIs, LastCmt
  <2>6. Owner # NoPid /\ Owner \notin alive
    BY <1>2, <1>6 DEF Stage, Reserved
  <2>q. QED
    BY <1>1, <1>2, <1>3, <1>4, <1>5, <1>6, <2>5, <2>6, Unreserve
       DEF Filling, Reserved, NotedPoints
<1>7. CASE Stage \notin Reserved
  <2>1. rsrv_write_addr = LogEnd(Len(log)) /\ lastwrite_len = LenOf(Len(log))
    BY <1>2, <1>7 DEF PoolInv, ReserveInv, NotedPoints
  <2>2. U = 0 /\ LastCommitted = Decr(phase2_commit_index2)
    BY <1>7 DEF U, LastCommitted
  <2>3. EndOf(LastCmt) = LogEnd(Len(log)) /\ LastCmt.tot_jrec_len = LenOf(Len(log))
    BY <2>2 DEF PoolInv, LastInv, LastCmt
  <2>4. D >= 1 => LastCmt.jnl_seqno # jnl_seqno
    <3>1. D >= 1 => SlotIs(Decr(phase2_commit_index2), First + D - 1)
      <4>1. D >= 1 => D - 1 \in 0 .. D - 1 /\ First + (D - 1) = First + D - 1
        BY RingValues
      <4>q. QED
        BY <4>1, InRing DEF PoolInv, RingInv
    <3>2. First + D - 1 = Len(log)
      BY <2>2, LogType, RingValues DEF First
    <3>q. QED
      BY <3>1, <3>2, LogType DEF SlotIs, LastCmt, PoolInv, LogInv
  <2>5. Reset \/ UNCHANGED <<rsrv_write_addr, lastwrite_len, phase2_commit_index2>>
    BY <2>4, InRing, RingValues DEF mutex_clean_dead_owner
  <2>6. UNCHANGED <<rsrv_write_addr, lastwrite_len, phase2_commit_index2>>
    BY <2>1, <2>3, <2>5 DEF Reset
  <2>7. Quiet
    BY <1>1, <1>2, <1>3, <1>7, <2>6 DEF Quiet, jplVars, Filling, Reserved, NotedPoints
  <2>8. JrsInv'
    <3>1. D' = D
      BY <1>1, <2>6 DEF D
    <3> SUFFICES ASSUME NEW q \in alive
                 PROVE  JrsInv!(q)'
      BY <1>1 DEF JrsInv
    <3>2. CASE q = p
      BY <3>2, <1>1, <1>3, <1>4 DEF Filling
    <3>3. CASE q # p
      BY <3>1, <3>3, <1>1, <1>5 DEF PoolInv, JrsInv
    <3>q. QED
      BY <3>2, <3>3
  <2>q. QED
    BY <1>1, <2>7, <2>8, QuietRing, QuietPub DEF PoolInv
<1>q. QED
  BY <1>6, <1>7

----------------------------------------------------------------------------
(* The records are written, and the transaction is given its seqno.        *)

\* jpl_phase2_write_complete marks the slot of the caller, which is in the ring, and
\* nobody else's.
LEMMA jpl_phase2_write_completeInv ==
    ASSUME TypeOK, LockInv, PoolInv, TypeOK', LockInv', NEW p \in Pids,
           jpl_phase2_write_complete(p)
    PROVE  PoolInv'
<1> USE JnlPoolAssumption DEF GoTo, Ready, CallCleanup
<1> DEFINE i == jrs[p].phase2_commit_index
<1>1. /\ p \in alive /\ cl[p] = "none" /\ pc[p] \in {"reserved", "seqno", "phase2"}
      /\ UNCHANGED <<phase2_commit_index1, phase2_commit_index2, rsrv_write_addr,
                     lastwrite_len, write_addr, jnl_seqno, crit, in_crit,
                     phase2_commit_latch, holder, alive, index2, index1, log>>
  BY DEF jpl_phase2_write_complete, WritePoint, Jrs, Written, TypeOK, lockVars
<1>2. /\ pc[p] = "reserved" => pc' = [pc EXCEPT ![p] = "written"]
      /\ pc[p] = "seqno" => pc' = [pc EXCEPT ![p] = "leave"]
      /\ pc[p] = "phase2" => pc' = [pc EXCEPT ![p] = "idle"]
  BY DEF jpl_phase2_write_complete, WritePoint, AfterWrite, Jrs, Written, TypeOK
<1>3. cl' = cl \/ cl' = [cl EXCEPT ![p] = "want"]
  BY DEF jpl_phase2_write_complete
<1>4. /\ \A q \in Pids : q # p => jrs'[q] = jrs[q] /\ pc'[q] = pc[q]
      /\ pc[p] # "phase2" => jrs'[p].phase2_commit_index = i
      /\ ~jrs'[p].pending
  <2>1. \A q \in Pids : q # p => jrs'[q] = jrs[q]
    BY DEF jpl_phase2_write_complete, TypeOK
  <2>2. \A q \in Pids : q # p => pc'[q] = pc[q]
    BY <1>1, <1>2 DEF TypeOK
  <2>3. jrs'[p] = IF pc[p] = "phase2" THEN NoJrs ELSE [jrs[p] EXCEPT !.pending = FALSE]
    BY DEF jpl_phase2_write_complete, TypeOK
  <2>4. jrs[p] \in Jrs
    BY DEF TypeOK
  <2>5. ~[jrs[p] EXCEPT !.pending = FALSE].pending
    BY <2>4, Zenon DEF Jrs
  <2>6. [jrs[p] EXCEPT !.pending = FALSE].phase2_commit_index = i
    BY <2>4 DEF Jrs
  <2>7. ~NoJrs.pending
    BY DEF NoJrs
  <2>q. QED
    BY <2>1, <2>2, <2>3, <2>5, <2>6, <2>7
<1>5. /\ jrs[p].pending /\ i \in Indices
      /\ phase2_commit_array[i].process_id = p
      /\ \E k \in 0 .. D - 1 : i = At(phase2_commit_index1, k)
  <2>1. pc[p] \notin Filling
    BY <1>1 DEF Filling
  <2>2. jrs[p].pending
    BY <1>1 DEF PoolInv, JrsInv
  <2>3. i \in Indices
    BY DEF TypeOK, Jrs
  <2>q. QED
    BY <1>1, <2>1, <2>2, <2>3 DEF PoolInv, JrsInv
<1>6. /\ \A j \in Indices : j # i => phase2_commit_array'[j] = phase2_commit_array[j]
      /\ phase2_commit_array'[i] = [phase2_commit_array[i] EXCEPT !.write_complete = TRUE]
  BY <1>5 DEF jpl_phase2_write_complete, TypeOK
<1>7. phase2_commit_array'[i].write_complete
  <2>1. phase2_commit_array[i] \in Slot
    BY <1>5 DEF TypeOK
  <2>q. QED
    BY <1>6, <2>1, Zenon DEF Slot
<1>8. \A j \in Indices :
          /\ phase2_commit_array'[j].jnl_seqno = phase2_commit_array[j].jnl_seqno
          /\ phase2_commit_array'[j].process_id = phase2_commit_array[j].process_id
          /\ phase2_commit_array'[j].start_write_addr = phase2_commit_array[j].start_write_addr
          /\ phase2_commit_array'[j].tot_jrec_len = phase2_commit_array[j].tot_jrec_len
          /\ phase2_commit_array'[j].prev_jrec_len = phase2_commit_array[j].prev_jrec_len
          /\ phase2_commit_array[j].write_complete => phase2_commit_array'[j].write_complete
  <2>1. \A j \in Indices : phase2_commit_array[j] \in Slot
    BY DEF TypeOK
  <2>q. QED
    BY <1>6, <1>7, <2>1 DEF Slot
<1>9. i # phase2_commit_index2
  BY <1>5, InRing
<1>10. /\ Owner' = Owner
       /\ Owner = p => /\ Stage = pc[p]
                       /\ \/ Stage = "reserved" /\ Stage' = "written"
                          \/ Stage = "seqno" /\ Stage' = "leave"
       /\ Owner # p => Stage' = Stage /\ (Owner # NoPid => jrs'[Owner] = jrs[Owner])
       /\ Owner = p \/ Owner # p
  <2>1. CASE pc[p] = "phase2"
    <3>1. crit # p /\ Owner # p
      BY <2>1, <1>1, OwnerIsNot
    <3>q. QED
      BY <3>1, <2>1, <1>1, <1>2, <1>4 DEF Owner, Stage, TypeOK
  <2>2. CASE pc[p] # "phase2"
    <3>1. crit = p /\ Owner = p /\ Stage = pc[p] /\ p # NoPid
      BY <2>2, <1>1, OwnerIs DEF CritPoints, Points
    <3>q. QED
      BY <3>1, <2>2, <1>1, <1>2 DEF Owner, Stage, TypeOK
  <2>q. QED
    BY <2>1, <2>2
<1>11. U' = U /\ D' = D /\ First' = First /\ LastCommitted' = LastCommitted
  BY <1>1, <1>10 DEF U, D, First, LastCommitted, Reserved
<1>12. \A j \in Indices : \A s : SlotIs(j, s)' <=> SlotIs(j, s)
  BY <1>1, <1>8 DEF SlotIs, LogEnd, LenOf
<1>13. \A j \in Indices : EndOf(phase2_commit_array'[j]) = EndOf(phase2_commit_array[j])
  BY <1>8 DEF EndOf
<1>14. LogInv'
  BY <1>1 DEF PoolInv, LogInv, LogEnd
<1>15. RingInv'
  BY <1>1, <1>11, <1>12, InRing DEF PoolInv, RingInv
<1>16. LastInv'
  <2>1. LastCommitted \in Indices
    BY InRing, RingType DEF LastCommitted
  <2>q. QED
    BY <2>1, <1>1, <1>8, <1>11, <1>13 DEF PoolInv, LastInv, LogEnd, LenOf
<1>17. ReserveInv'
  <2>1. /\ LastCmt'.process_id = LastCmt.process_id
        /\ EndOf(LastCmt)' = EndOf(LastCmt)
        /\ LastCmt'.tot_jrec_len = LastCmt.tot_jrec_len
        /\ LogEnd(Len(log))' = LogEnd(Len(log)) /\ LenOf(Len(log))' = LenOf(Len(log))
        /\ phase2_commit_array'[phase2_commit_index2]
               = phase2_commit_array[phase2_commit_index2]
        /\ Decr(phase2_commit_index2)' = Decr(phase2_commit_index2)
    BY <1>1, <1>6, <1>8, <1>9, <1>13, InRing DEF LastCmt, LogEnd, LenOf
  <2>2. /\ SlotIs(phase2_commit_index2, Len(log) + 1)'
               <=> SlotIs(phase2_commit_index2, Len(log) + 1)
        /\ SlotIs(Decr(phase2_commit_index2), Len(log) + 1)'
               <=> SlotIs(Decr(phase2_commit_index2), Len(log) + 1)
    BY <1>1, <1>12, InRing
  <2>3. CASE Owner = p
    <3>1. CASE Stage = "reserved" /\ Stage' = "written"
      <4>1. i = Decr(phase2_commit_index2)
        BY <2>3, <3>1 DEF PoolInv, ReserveInv, Reserved
      <4>2. LastCmt'.write_complete
        BY <4>1, <1>1, <1>7 DEF LastCmt
      <4>3. jrs'[p].phase2_commit_index = i
        BY <2>3, <3>1, <1>4, <1>10
      <4>q. QED
        BY <2>1, <2>2, <2>3, <3>1, <4>1, <4>2, <4>3, <1>1, <1>10
           DEF PoolInv, ReserveInv, Filling, Reserved, EndOf
    <3>2. CASE Stage = "seqno" /\ Stage' = "leave"
      BY <2>1, <2>3, <3>2, <1>1, <1>10 DEF PoolInv, ReserveInv, Filling, Reserved
    <3>q. QED
      BY <2>3, <3>1, <3>2, <1>10
  <2>4. CASE Owner # p
    <3>1. Stage \in Reserved => Decr(phase2_commit_index2) # i
      BY <2>4, <1>5 DEF PoolInv, ReserveInv, LastCmt
    <3>2. Stage \in Reserved => LastCmt' = LastCmt
      BY <3>1, <1>1, <1>6, InRing DEF LastCmt
    <3>3. Stage \in Filling \union Reserved => Owner # NoPid
      BY DEF Stage, Filling, Reserved
    <3>4. Stage' = Stage
      BY <2>4, <1>10
    <3>5. Stage \in Filling \union Reserved =>
              jrs'[Owner].phase2_commit_index = jrs[Owner].phase2_commit_index
      BY <2>4, <3>3, <1>10
    <3>6. /\ Stage' \in Filling =>
               /\ D' < ArraySize - 1
               /\ jrs'[Owner'].phase2_commit_index = phase2_commit_index2'
               /\ SlotIs(phase2_commit_index2, Len(log) + 1)'
               /\ phase2_commit_array'[phase2_commit_index2'].process_id = Owner'
               /\ ~phase2_commit_array'[phase2_commit_index2'].write_complete
      BY <2>1, <2>2, <3>4, <3>5, <1>1, <1>10, <1>11 DEF PoolInv, ReserveInv
    <3>7. /\ Stage' \in Reserved =>
               /\ SlotIs(Decr(phase2_commit_index2), Len(log) + 1)'
               /\ LastCmt'.process_id = Owner'
               /\ Stage' # "written" => D' >= 1 /\ ~LastCmt'.write_complete
               /\ Stage' = "written" => LastCmt'.write_complete
               /\ Stage' # "undo" =>
                     jrs'[Owner'].phase2_commit_index = Decr(phase2_commit_index2)'
      BY <2>1, <2>2, <3>2, <3>4, <3>5, <1>1, <1>10, <1>11 DEF PoolInv, ReserveInv
    <3>8. /\ rsrv_write_addr' =
               IF Stage' = "rsrv" THEN EndOf(phase2_commit_array[phase2_commit_index2])'
               ELSE IF Stage' \in Reserved \ {"undo"} THEN EndOf(LastCmt)'
               ELSE LogEnd(Len(log))'
          /\ lastwrite_len' =
               IF Stage' \in {"lastlen", "rsrv"}
               THEN phase2_commit_array'[phase2_commit_index2'].tot_jrec_len
               ELSE IF Stage' \in Reserved \ {"undo"} THEN LastCmt'.tot_jrec_len
               ELSE LenOf(Len(log))'
      BY <2>1, <3>4, <1>1 DEF PoolInv, ReserveInv, EndOf
    <3>q. QED
      BY <3>6, <3>7, <3>8 DEF ReserveInv
  <2>q. QED
    BY <2>3, <2>4
<1>18. JrsInv'
  <2> SUFFICES ASSUME NEW q \in alive
               PROVE  JrsInv!(q)'
    BY <1>1 DEF JrsInv
  <2>1. CASE q = p
    BY <2>1, <1>1, <1>2, <1>4 DEF Filling, TypeOK
  <2>2. CASE q # p
    <3>1. q \in Pids /\ jrs'[q] = jrs[q] /\ pc'[q] = pc[q]
      BY <2>2, <1>4 DEF TypeOK
    <3>2. jrs[q].phase2_commit_index \in Indices
      BY <3>1 DEF TypeOK, Jrs
    <3>3. jrs[q].pending => jrs[q].phase2_commit_index # i
      BY <2>2, <1>5 DEF PoolInv, JrsInv
    <3>q. QED
      BY <3>1, <3>2, <3>3, <1>1, <1>6, <1>11 DEF PoolInv, JrsInv
  <2>q. QED
    BY <2>1, <2>2
<1>19. PubInv'
  <2>1. PICK w \in 0 .. Len(log) + 1 : PublishedUpTo(w)
    BY DEF PoolInv, PubInv
  <2>2. AddrEnd(w)' = AddrEnd(w)
    BY <1>1, <1>13, InRing DEF AddrEnd, LogEnd, LastCmt
  <2>3. w <= IF Stage' = "written" THEN Len(log) + 1 ELSE Len(log)
    BY <2>1, <1>10, LogType DEF PublishedUpTo
  <2>4. \A k \in 0 .. D - 1 : At(phase2_commit_index1, k) \in Indices
    BY InRing
  <2>5. \A q \in alive : cl'[q] \in {"latched", "published"} => cl'[q] = cl[q]
    BY <1>3 DEF TypeOK
  <2>6. PublishedUpTo(w)'
    BY <2>1, <2>2, <2>3, <2>4, <2>5, <1>1, <1>8, <1>11 DEF PublishedUpTo, Walk
  <2>q. QED
    BY <1>1, <2>6 DEF PubInv
<1>20. LatchInv'
  <2>1. \A q \in alive : cl'[q] \in {"latched", "published"} => cl'[q] = cl[q]
    BY <1>3 DEF TypeOK
  <2>2. phase2_commit_array'[phase2_commit_index2'] = phase2_commit_array[phase2_commit_index2]
    BY <1>1, <1>6, <1>9, InRing
  <2>q. QED
    BY <2>1, <2>2, <1>1, <1>11 DEF PoolInv, LatchInv, Walk, LogEnd
<1>q. QED
  BY <1>14, <1>15, <1>16, <1>17, <1>18, <1>19, <1>20 DEF PoolInv

\* SET_JNL_SEQNO: the reservation, whose slot is the last one, becomes the last
\* transaction; no other transaction moves.
LEMMA SET_JNL_SEQNOInv ==
    ASSUME TypeOK, LockInv, PoolInv, TypeOK', LockInv', NEW p \in Pids, SET_JNL_SEQNO(p)
    PROVE  PoolInv'
<1> USE JnlPoolAssumption DEF GoTo, Ready
<1> DEFINE n == Len(log)
           e == [process_id |-> p, start_write_addr |-> MySlot(p).start_write_addr,
                 tot_jrec_len |-> MySlot(p).tot_jrec_len]
           Entry == [process_id : Pids, start_write_addr : Nat, tot_jrec_len : Nat]
<1>1. /\ p \in alive /\ cl[p] = "none" /\ pc[p] \in {"reserved", "written"}
      /\ pc' = [pc EXCEPT ![p] = "leave"] \/ pc' = [pc EXCEPT ![p] = "seqno"]
      /\ pc' = [pc EXCEPT ![p] = "seqno"] => pc[p] = "reserved"
      /\ log' = Append(log, e) /\ jnl_seqno' = jnl_seqno + 1
      /\ UNCHANGED <<phase2_commit_index1, phase2_commit_index2, phase2_commit_array,
                     rsrv_write_addr, lastwrite_len, write_addr, crit, in_crit,
                     phase2_commit_latch, holder, alive, cl, index2, index1, jrs>>
  <2>1. pc' = [pc EXCEPT ![p] = "leave"] /\ pc[p] = "written" => pc'[p] = "leave"
    BY DEF TypeOK
  <2>q. QED
    BY <2>1 DEF SET_JNL_SEQNO, lockVars, TypeOK
<1>2. /\ crit = p /\ Owner = p /\ Stage = pc[p] /\ p # NoPid
      /\ Owner' = p /\ Stage' \in {"leave", "seqno"}
  <2>1. pc[p] \in CritPoints /\ pc[p] # "salvage"
    BY <1>1 DEF CritPoints, Points
  <2>2. crit = p /\ Owner = p /\ Stage = pc[p] /\ p # NoPid
    BY <1>1, <2>1, OwnerIs
  <2>q. QED
    BY <1>1, <2>2 DEF Owner, Stage, TypeOK
<1>3. /\ SlotIs(Decr(phase2_commit_index2), n + 1)
      /\ LastCmt.process_id = p
      /\ jrs[p].phase2_commit_index = Decr(phase2_commit_index2)
      /\ rsrv_write_addr = EndOf(LastCmt) /\ lastwrite_len = LastCmt.tot_jrec_len
  BY <1>1, <1>2 DEF PoolInv, ReserveInv, Reserved
<1>4. MySlot(p) = LastCmt
  BY <1>3 DEF MySlot, LastCmt
<1>5. /\ n \in Nat /\ Len(log') = n + 1 /\ DOMAIN log' = 1 .. n + 1
      /\ \A s \in 1 .. n : log'[s] = log[s]
      /\ log'[n + 1] = e
  <2>1. log \in Seq(Entry)
    BY DEF TypeOK
  <2>2. e \in Entry
    BY MySlotType DEF Slot
  <2> HIDE DEF e, Entry
  <2>q. QED
    BY <1>1, <2>1, <2>2
<1>6. /\ log'[n + 1].process_id = p
      /\ log'[n + 1].start_write_addr = LogEnd(n)
      /\ log'[n + 1].tot_jrec_len = LastCmt.tot_jrec_len
      /\ LastCmt.tot_jrec_len \in Lens
      /\ LastCmt.start_write_addr = LogEnd(n)
  BY <1>3, <1>4, <1>5 DEF SlotIs, LastCmt
<1>7. \A s \in 0 .. n : LogEnd(s)' = LogEnd(s) /\ LenOf(s)' = LenOf(s)
  BY <1>5 DEF LogEnd, LenOf
<1>8. LogEnd(Len(log))' = EndOf(LastCmt) /\ LenOf(Len(log))' = LastCmt.tot_jrec_len
  BY <1>5, <1>6 DEF LogEnd, LenOf, EndOf
<1>9. EndOf(LastCmt) > LogEnd(n) /\ EndOf(LastCmt) \in Nat
  <2>1. LogEnd(n) \in Nat
    BY <1>5, LogType
  <2>2. LastCmt.tot_jrec_len \in Nat /\ LastCmt.tot_jrec_len > 0
    BY <1>6, LensPositive
  <2>q. QED
    BY <1>6, <2>1, <2>2 DEF EndOf
<1>10. U = 1 /\ U' = 0 /\ D' = D
  BY <1>1, <1>2 DEF U, D, Reserved
<1>11. First' = First
  BY <1>5, <1>10, LogType, RingValues DEF First
<1> HIDE DEF e, Entry
<1>12. LogInv'
  <2>1. jnl_seqno' = Len(log') + 1
    BY <1>1, <1>5 DEF PoolInv, LogInv
  <2>2. \A s \in 1 .. n + 1 : /\ log'[s].start_write_addr = LogEnd(s - 1)'
                              /\ log'[s].tot_jrec_len \in Lens
    <3>1. \A s \in 1 .. n : log[s].start_write_addr = LogEnd(s - 1) /\ log[s].tot_jrec_len \in Lens
      BY LogType DEF PoolInv, LogInv
    <3>2. \A s \in 1 .. n + 1 : s - 1 \in 0 .. n /\ (s \in 1 .. n \/ s = n + 1)
      BY <1>5
    <3>q. QED
      BY SMTT(30), <1>5, <1>6, <1>7, <3>1, <3>2
  <2>3. \A r, s \in 0 .. n + 1 : r < s => LogEnd(r)' < LogEnd(s)'
    <3>1. \A r, s \in 0 .. n : r < s => LogEnd(r) < LogEnd(s)
      BY DEF PoolInv, LogInv
    <3>2. \A r \in 0 .. n : LogEnd(r) <= LogEnd(n) /\ LogEnd(r) \in Nat
      BY <3>1, <1>5, LogType
    <3>3. \A s \in 0 .. n + 1 : s = n + 1 => LogEnd(s)' = EndOf(LastCmt)
      BY <1>5, <1>8
    <3> SUFFICES ASSUME NEW r \in 0 .. n + 1, NEW s \in 0 .. n + 1, r < s
                 PROVE  LogEnd(r)' < LogEnd(s)'
      OBVIOUS
    <3>4. r \in 0 .. n
      BY <1>5
    <3>5. CASE s = n + 1
      BY <1>5, <1>7, <1>9, <3>2, <3>3, <3>4, <3>5
    <3>6. CASE s # n + 1
      BY <1>5, <1>7, <3>1, <3>4, <3>6
    <3>q. QED
      BY <3>5, <3>6
  <2>q. QED
    BY <1>5, <2>1, <2>2, <2>3 DEF LogInv
<1>13. RingInv'
  <2>1. First >= 1
    BY DEF PoolInv, RingInv
  <2>2. First + (D - 1) = n + 1
    BY <1>5, <1>10, RingValues DEF First
  <2>3. ASSUME NEW k \in 0 .. D - 1
        PROVE  SlotIs(At(phase2_commit_index1, k), First + k)'
    <3>1. SlotIs(At(phase2_commit_index1, k), First + k)
      BY DEF PoolInv, RingInv
    <3>2. CASE k = D - 1
      <4>1. At(phase2_commit_index1, k) = Decr(phase2_commit_index2) /\ First + k = n + 1
        BY <3>2, <2>2, InRing, RingValues
      <4>q. QED
        BY <4>1, <3>1, <1>1, <1>3, <1>5, <1>6, <1>7, <1>11 DEF SlotIs, LastCmt
    <3>3. CASE k # D - 1
      <4>1. First + k \in 1 .. n
        BY SMTT(30), <3>3, <2>1, <2>2, <1>5, RingValues
      <4>q. QED
        BY <4>1, <3>1, <1>1, <1>5, <1>7, <1>11 DEF SlotIs
    <3>q. QED
      BY <3>2, <3>3
  <2>q. QED
    BY <2>1, <2>3, <1>10, <1>11 DEF RingInv
<1>14. LastInv'
  BY <1>1, <1>5, <1>8, <1>10 DEF LastInv, LastCommitted, LastCmt
<1>15. ReserveInv'
  BY <1>1, <1>2, <1>3, <1>5, <1>8 DEF ReserveInv, Filling, Reserved
<1>16. JrsInv'
  <2> SUFFICES ASSUME NEW q \in alive
               PROVE  JrsInv!(q)'
    BY <1>1 DEF JrsInv
  <2>1. CASE q = p
    <3>1. pc'[p] \in {"leave", "seqno"} /\ (pc'[p] = "seqno" => pc[p] = "reserved")
      BY <1>1 DEF TypeOK
    <3>2. CASE pc[p] = "reserved"
      BY <2>1, <3>1, <3>2, <1>1, <1>10 DEF PoolInv, JrsInv, PendingPoints, Filling
    <3>3. CASE pc[p] = "written"
      BY <2>1, <3>1, <3>3, <1>1, <1>10 DEF PoolInv, JrsInv, PendingPoints, Filling
    <3>q. QED
      BY <1>1, <3>2, <3>3
  <2>2. CASE q # p
    <3>1. pc'[q] = pc[q]
      BY <2>2, <1>1 DEF TypeOK
    <3>q. QED
      BY <3>1, <1>1, <1>10 DEF PoolInv, JrsInv
  <2>q. QED
    BY <2>1, <2>2
<1>17. PubInv'
  <2>1. PICK w \in 0 .. Len(log) + 1 : PublishedUpTo(w)
    BY DEF PoolInv, PubInv
  <2>2. AddrEnd(w)' = AddrEnd(w)
    BY <1>5, <1>7, <1>8 DEF AddrEnd
  <2>3. PublishedUpTo(w)'
    BY <1>1, <1>2, <1>5, <1>10, <1>11, <2>1, <2>2 DEF PublishedUpTo, Walk
  <2>q. QED
    BY <1>5, <2>3 DEF PubInv
<1>18. LatchInv'
  <2>1. \A q \in alive : q \in Pids
    BY DEF TypeOK
  <2>2. \A q \in alive : cl[q] = "latched" => Walk(q) <= D
    BY <1>10, <2>1, RingValues DEF PoolInv, LatchInv
  <2>q. QED
    BY <1>1, <1>10, <2>1, <2>2, RingValues DEF PoolInv, LatchInv, Walk
<1>q. QED
  BY <1>12, <1>13, <1>14, <1>15, <1>16, <1>17, <1>18 DEF PoolInv

----------------------------------------------------------------------------
(* repl_phase2_cleanup.                                                    *)

\* grab_latch: nobody else is publishing, and the walk will end where the ring ends now.
LEMMA CleanupLatchInv ==
    ASSUME TypeOK, LockInv, PoolInv, TypeOK', LockInv', NEW p \in Pids, CleanupLatch(p)
    PROVE  PoolInv'
<1> USE JnlPoolAssumption
<1>1. /\ p \in alive /\ cl[p] = "want" /\ phase2_commit_latch \notin alive
      /\ phase2_commit_latch' = p
      /\ index2' = [index2 EXCEPT ![p] = phase2_commit_index2]
      /\ cl' = [cl EXCEPT ![p] = "latched"]
      /\ UNCHANGED <<jplVars, crit, holder, alive, pc, index1, jrs, log>>
  BY DEF CleanupLatch
<1>2. Stage' = Stage /\ Owner' = Owner
  BY <1>1 DEF Stage, Owner
<1>3. Quiet
  BY <1>1, <1>2 DEF Quiet
<1>4. UNCHANGED <<phase2_commit_index1, phase2_commit_index2, phase2_commit_array, write_addr>>
  BY <1>1 DEF jplVars
<1>5. D' = D /\ U' = U /\ First' = First
  BY <1>1, <1>2, <1>4 DEF D, U, First
<1>6. JrsInv'
  BY <1>1, <1>4, <1>5 DEF PoolInv, JrsInv
<1>7. \A q \in alive : q # p => cl'[q] \notin {"latched", "published"}
  BY <1>1 DEF TypeOK, PoolInv, LatchInv
<1>8. cl'[p] = "latched" /\ index2'[p] = phase2_commit_index2 /\ Walk(p)' = D
  BY <1>1, <1>4 DEF TypeOK, Walk, D
<1>9. PubInv'
  <2>1. PICK w \in 0 .. Len(log) + 1 : PublishedUpTo(w)
    BY DEF PoolInv, PubInv
  <2>2. AddrEnd(w)' = AddrEnd(w)
    BY <1>1, <1>4 DEF AddrEnd, LogEnd, EndOf, LastCmt
  <2>3. w <= First + D - 1
    <3>1. First + D - 1 = Len(log) + U
      <4>1. Len(log) \in Int /\ U \in Int /\ D \in Int
        BY LogType, RingValues
      <4>q. QED
        BY <4>1 DEF First
    <3>2. Stage = "written" => U = 1
      BY DEF U, Reserved
    <3>q. QED
      BY <2>1, <3>1, <3>2, LogType, RingValues DEF PublishedUpTo
  <2>4. \A q \in alive :
           /\ cl'[q] = "latched" => w <= First + Walk(q)' - 1
           /\ cl'[q] = "published" =>
                  w = First + Dist(phase2_commit_index1, index1[q]) - 1
    BY <1>7, <1>8, <2>3
  <2>5. PublishedUpTo(w)'
    BY <1>1, <1>2, <1>4, <1>5, <2>1, <2>2, <2>4 DEF PublishedUpTo
  <2>q. QED
    BY <1>1, <2>5 DEF PubInv
<1>10. LatchInv'
  <2>1. D <= D + 1 - U /\ D # D + 1
    BY RingValues
  <2>q. QED
    BY <1>1, <1>4, <1>5, <1>7, <1>8, <2>1 DEF LatchInv
<1>q. QED
  BY <1>3, <1>6, <1>9, <1>10, QuietRing DEF PoolInv

\* repl_phase2_salvage, called with crit, completes slots in use whose process is dead;
\* everything else about the slots stays.
LEMMA SalvageFacts ==
    ASSUME TypeOK, PoolInv, NEW p \in alive, cl[p] = "latched"
    PROVE  LET a == repl_phase2_salvage(DeadCmts(p)) IN
           \A i \in Indices :
              /\ a[i].jnl_seqno = phase2_commit_array[i].jnl_seqno
              /\ a[i].process_id = phase2_commit_array[i].process_id
              /\ a[i].start_write_addr = phase2_commit_array[i].start_write_addr
              /\ a[i].tot_jrec_len = phase2_commit_array[i].tot_jrec_len
              /\ a[i].prev_jrec_len = phase2_commit_array[i].prev_jrec_len
              /\ phase2_commit_array[i].write_complete => a[i].write_complete
              /\ \/ a[i] = phase2_commit_array[i]
                 \/ /\ crit = p
                    /\ phase2_commit_array[i].process_id \notin alive
                    /\ ~phase2_commit_array[i].write_complete
                    /\ \E k \in 0 .. D - 1 : i = At(phase2_commit_index1, k)
<1> DEFINE a == repl_phase2_salvage(DeadCmts(p))
<1> SUFFICES ASSUME NEW i \in Indices
             PROVE  /\ a[i].jnl_seqno = phase2_commit_array[i].jnl_seqno
                    /\ a[i].process_id = phase2_commit_array[i].process_id
                    /\ a[i].start_write_addr = phase2_commit_array[i].start_write_addr
                    /\ a[i].tot_jrec_len = phase2_commit_array[i].tot_jrec_len
                    /\ a[i].prev_jrec_len = phase2_commit_array[i].prev_jrec_len
                    /\ phase2_commit_array[i].write_complete => a[i].write_complete
                    /\ \/ a[i] = phase2_commit_array[i]
                       \/ /\ crit = p
                          /\ phase2_commit_array[i].process_id \notin alive
                          /\ ~phase2_commit_array[i].write_complete
                          /\ \E k \in 0 .. D - 1 : i = At(phase2_commit_index1, k)
  OBVIOUS
<1>1. a[i] = IF i \in DeadCmts(p)
             THEN [phase2_commit_array[i] EXCEPT !.write_complete = TRUE]
             ELSE phase2_commit_array[i]
  BY DEF repl_phase2_salvage
<1>2. phase2_commit_array[i] \in Slot
  BY DEF TypeOK
<1>3. CASE i \in DeadCmts(p)
  <2>1. /\ crit = p /\ phase2_commit_index1 # index2[p]
        /\ ~phase2_commit_array[i].write_complete
        /\ phase2_commit_array[i].process_id \notin alive
        /\ phase2_commit_index1 <= i
        /\ i < IF phase2_commit_index1 < index2[p] THEN index2[p] ELSE ArraySize
    <3>1. /\ phase2_commit_index1 \in 0 .. ArraySize - 1
          /\ index2[p] \in 0 .. ArraySize - 1 /\ ArraySize \in Nat
      BY JnlPoolAssumption DEF TypeOK, Indices
    <3>2. DeadCmts(p) # {}
      BY <1>3
    <3>3. crit = p /\ phase2_commit_index1 # index2[p]
      BY <3>2 DEF DeadCmts
    <3>4. i \in phase2_commit_index1 ..
                    (IF phase2_commit_index1 < index2[p] THEN index2[p] ELSE ArraySize) - 1
      BY <1>3, <3>3 DEF DeadCmts
    <3>5. \A j \in phase2_commit_index1 .. i :
             /\ ~phase2_commit_array[j].write_complete
             /\ phase2_commit_array[j].process_id \notin alive
      BY <1>3, <3>3 DEF DeadCmts
    <3>q. QED
      BY <3>1, <3>3, <3>4, <3>5
  <2>2. index2[p] = phase2_commit_index2
    BY <2>1 DEF PoolInv, LatchInv
  <2>3. /\ i - phase2_commit_index1 \in 0 .. D - 1
        /\ i = At(phase2_commit_index1, i - phase2_commit_index1)
    BY <2>1, <2>2, JnlPoolAssumption DEF TypeOK, Indices, D, Dist, At
  <2>q. QED
    BY <1>1, <1>2, <1>3, <2>1, <2>3 DEF Slot
<1>4. CASE i \notin DeadCmts(p)
  BY <1>1, <1>4
<1>q. QED
  BY <1>3, <1>4

\* The records of a transaction end where its slot says.
LEMMA SlotEnd ==
    ASSUME TypeOK, LogInv, NEW i, NEW s \in 1 .. Len(log), SlotIs(i, s)
    PROVE  EndOf(phase2_commit_array[i]) = LogEnd(s)
<1>1. log[s].start_write_addr = LogEnd(s - 1)
  BY LogType DEF LogInv
<1>2. /\ phase2_commit_array[i].start_write_addr = LogEnd(s - 1)
      /\ phase2_commit_array[i].tot_jrec_len = log[s].tot_jrec_len
  BY LogType DEF SlotIs
<1>3. LogEnd(s) = log[s].start_write_addr + log[s].tot_jrec_len
  BY LogType DEF LogEnd
<1>q. QED
  BY <1>1, <1>2, <1>3 DEF EndOf

\* repl_phase2_cleanup publishes, for some k, the transactions of the first k slots in use:
\* complete ones that have a seqno, at least up to what was published already.
LEMMA PublishFacts ==
    ASSUME TypeOK, LockInv, PoolInv, NEW p \in Pids, CleanupPublish(p)
    PROVE  \E k \in 0 .. D :
              /\ \A m \in 0 .. k - 1 :
                    phase2_commit_array'[At(phase2_commit_index1, m)].write_complete
              /\ First + k - 1 <= IF Stage = "written" THEN Len(log) + 1 ELSE Len(log)
              /\ \A w \in 0 .. Len(log) + 1 : PublishedUpTo(w) => w <= First + k - 1
              /\ IF k = 0
                 THEN Return(p) /\ UNCHANGED write_addr
                 ELSE /\ write_addr' = AddrEnd(First + k - 1)
                      /\ index1' = [index1 EXCEPT ![p] = At(phase2_commit_index1, k)]
                      /\ cl' = [cl EXCEPT ![p] = "published"]
                      /\ UNCHANGED <<phase2_commit_latch, index2>>
<1> USE JnlPoolAssumption
<1> DEFINE a == repl_phase2_salvage(DeadCmts(p))
<1>1. p \in alive /\ cl[p] = "latched" /\ phase2_commit_array' = a
  BY DEF CleanupPublish
<1>2. PICK k \in 0 .. Walk(p) :
         /\ Completed(a, index2[p], k)
         /\ IF k = 0
            THEN Return(p) /\ UNCHANGED write_addr
            ELSE /\ write_addr' =
                        IF k < Walk(p)
                        THEN a[At(phase2_commit_index1, k)].start_write_addr
                        ELSE EndOf(a[At(phase2_commit_index1, k - 1)])
                 /\ index1' = [index1 EXCEPT ![p] = At(phase2_commit_index1, k)]
                 /\ cl' = [cl EXCEPT ![p] = "published"]
                 /\ UNCHANGED <<phase2_commit_latch, index2>>
  BY DEF CleanupPublish, Walk
<1>3. \A i \in Indices :
         /\ a[i].start_write_addr = phase2_commit_array[i].start_write_addr
         /\ a[i].tot_jrec_len = phase2_commit_array[i].tot_jrec_len
         /\ phase2_commit_array[i].write_complete => a[i].write_complete
         /\ \/ a[i] = phase2_commit_array[i]
            \/ /\ crit = p
               /\ phase2_commit_array[i].process_id \notin alive
               /\ \E m \in 0 .. D - 1 : i = At(phase2_commit_index1, m)
  BY <1>1, SalvageFacts
<1> HIDE DEF a
<1>4. /\ \A m \in 0 .. k - 1 : a[At(phase2_commit_index1, m)].write_complete
      /\ k = Walk(p) \/ ~a[At(phase2_commit_index1, k)].write_complete
  BY <1>2 DEF Completed, Walk
<1>5. /\ Walk(p) <= D + 1 - U
      /\ Walk(p) = D + 1 =>
            /\ ~phase2_commit_array[phase2_commit_index2].write_complete
            /\ phase2_commit_array[phase2_commit_index2].start_write_addr = LogEnd(Len(log))
  BY <1>1 DEF PoolInv, LatchInv
<1>6. /\ Walk(p) \in 0 .. ArraySize - 1 /\ D \in 0 .. ArraySize - 1 /\ U \in {0, 1}
      /\ First \in Int /\ First >= 1 /\ Len(log) \in Nat
      /\ First + D - 1 = Len(log) + U
  BY SMTT(30), RingValues, LogType DEF First, PoolInv, RingInv
<1>7. At(phase2_commit_index1, D) = phase2_commit_index2
  BY InRing, RingArith DEF D
<1>8. a[phase2_commit_index2] = phase2_commit_array[phase2_commit_index2]
  BY <1>3, InRing
<1>9. k \in 0 .. D
  <2>1. k # D + 1
    <3> SUFFICES ASSUME k = D + 1 PROVE FALSE
      OBVIOUS
    <3>1. Walk(p) = D + 1 /\ D \in 0 .. k - 1
      BY <1>5, <1>6
    <3>q. QED
      BY <3>1, <1>4, <1>5, <1>7, <1>8
  <2>q. QED
    BY <2>1, <1>5, <1>6
<1>10. \A m \in 0 .. D - 1 : SlotIs(At(phase2_commit_index1, m), First + m)
  BY DEF PoolInv, RingInv
<1>11. First + k - 1 <= IF Stage = "written" THEN Len(log) + 1 ELSE Len(log)
  <2> SUFFICES ASSUME Stage # "written", First + k - 1 > Len(log) PROVE FALSE
    BY <1>6, <1>9
  <2>1. k = D /\ U = 1
    BY <1>6, <1>9
  <2>2. Stage \in Reserved
    BY <2>1 DEF U
  <2>3. LastCmt.process_id = Owner /\ D >= 1 /\ ~LastCmt.write_complete
    BY <2>2 DEF PoolInv, ReserveInv
  <2>4. LastCmt = phase2_commit_array[At(phase2_commit_index1, k - 1)]
        /\ At(phase2_commit_index1, k - 1) \in Indices
    BY <2>1, <2>3, InRing DEF LastCmt
  <2>5. a[At(phase2_commit_index1, k - 1)].write_complete
    BY <1>4, <1>9, <2>1, <2>3
  <2>6. crit = p /\ Owner \notin alive
    BY <1>3, <2>3, <2>4, <2>5
  <2>7. Owner = crit
    BY <1>1, <2>6 DEF Owner, LockInv, CallPoints
  <2>q. QED
    BY <1>1, <2>6, <2>7
<1>12. ASSUME NEW w \in 0 .. Len(log) + 1, PublishedUpTo(w) PROVE w <= First + k - 1
  <2>1. /\ w <= First + Walk(p) - 1
        /\ w <= First + D - 1
        /\ \A m \in 0 .. D - 1 : First + m <= w =>
               phase2_commit_array[At(phase2_commit_index1, m)].write_complete
    BY SMTT(30), <1>1, <1>6, <1>12 DEF PublishedUpTo, U, Reserved
  <2>2. CASE k = Walk(p) \/ k = D
    BY <2>1, <2>2
  <2>3. CASE k # Walk(p) /\ k # D
    <3>1. k \in 0 .. D - 1
      BY <2>3, <1>6, <1>9
    <3>2. ~phase2_commit_array[At(phase2_commit_index1, k)].write_complete
      BY <2>3, <3>1, <1>3, <1>4, InRing
    <3>3. ~(First + k <= w)
      BY <2>1, <3>1, <3>2
    <3>q. QED
      BY <3>3, <1>6, <3>1
  <2>q. QED
    BY <2>2, <2>3
<1>13. ASSUME k # 0 PROVE write_addr' = AddrEnd(First + k - 1)
  <2>1. CASE k < Walk(p)
    <3>1. write_addr' = a[At(phase2_commit_index1, k)].start_write_addr
      BY <1>2, <1>13, <2>1
    <3>2. CASE k = D
      <4>1. Walk(p) = D + 1 /\ U = 0
        BY <2>1, <3>2, <1>5, <1>6
      <4>2. First + k - 1 = Len(log)
        BY <3>2, <4>1, <1>6
      <4>3. write_addr' = LogEnd(Len(log))
        BY <3>1, <3>2, <4>1, <1>5, <1>7, <1>8
      <4>q. QED
        BY <4>2, <4>3, <1>6 DEF AddrEnd
    <3>3. CASE k # D
      <4>1. k \in 0 .. D - 1 /\ First + k - 1 <= Len(log)
        BY <3>3, <1>6, <1>9
      <4>2. a[At(phase2_commit_index1, k)].start_write_addr = LogEnd(First + k - 1)
        <5>1. At(phase2_commit_index1, k) \in Indices
          BY <4>1, InRing
        <5>2. SlotIs(At(phase2_commit_index1, k), First + k)
          BY <4>1, <1>10
        <5>3. phase2_commit_array[At(phase2_commit_index1, k)].start_write_addr
                  = LogEnd((First + k) - 1)
          BY <5>2 DEF SlotIs
        <5>4. (First + k) - 1 = First + k - 1
          BY <1>6
        <5>q. QED
          BY <5>1, <5>3, <5>4, <1>3
      <4>q. QED
        BY <3>1, <4>1, <4>2 DEF AddrEnd
    <3>q. QED
      BY <3>2, <3>3
  <2>2. CASE ~(k < Walk(p))
    <3>1. write_addr' = EndOf(a[At(phase2_commit_index1, k - 1)])
      BY <1>2, <1>13, <2>2
    <3>2. /\ k - 1 \in 0 .. D - 1 /\ At(phase2_commit_index1, k - 1) \in Indices
          /\ SlotIs(At(phase2_commit_index1, k - 1), First + (k - 1))
      BY <1>6, <1>9, <1>10, <1>13, InRing
    <3>3. write_addr' = EndOf(phase2_commit_array[At(phase2_commit_index1, k - 1)])
      BY <3>1, <3>2, <1>3 DEF EndOf
    <3>4. CASE First + k - 1 <= Len(log)
      <4>1. /\ First + k - 1 \in 1 .. Len(log) /\ First + (k - 1) = First + k - 1
        BY <3>2, <3>4, <1>6, <1>9
      <4>2. SlotIs(At(phase2_commit_index1, k - 1), First + k - 1)
        BY <3>2, <4>1
      <4>q. QED
        BY <3>3, <3>4, <4>1, <4>2, SlotEnd DEF AddrEnd, PoolInv
    <3>5. CASE ~(First + k - 1 <= Len(log))
      <4>1. k = D
        BY <3>5, <1>6, <1>9
      <4>2. LastCmt = phase2_commit_array[At(phase2_commit_index1, k - 1)]
        BY <4>1, <3>2, InRing, <1>6 DEF LastCmt
      <4>q. QED
        BY <3>3, <3>5, <4>2 DEF AddrEnd
    <3>q. QED
      BY <3>4, <3>5
  <2>q. QED
    BY <2>1, <2>2
<1>q. QED
  BY <1>1, <1>2, <1>4, <1>9, <1>11, <1>12, <1>13

\* A step of repl_phase2_cleanup that publishes.
LEMMA CleanupPublishInv ==
    ASSUME TypeOK, LockInv, PoolInv, TypeOK', LockInv', NEW p \in Pids, CleanupPublish(p)
    PROVE  PoolInv'
<1> USE JnlPoolAssumption
<1>1. /\ p \in alive /\ cl[p] = "latched"
      /\ phase2_commit_array' = repl_phase2_salvage(DeadCmts(p))
      /\ UNCHANGED <<phase2_commit_index1, phase2_commit_index2, rsrv_write_addr,
                     lastwrite_len, jnl_seqno, crit, in_crit, holder, alive, pc, jrs, log>>
  BY DEF CleanupPublish
<1>2. \A i \in Indices :
         /\ phase2_commit_array'[i].jnl_seqno = phase2_commit_array[i].jnl_seqno
         /\ phase2_commit_array'[i].process_id = phase2_commit_array[i].process_id
         /\ phase2_commit_array'[i].start_write_addr = phase2_commit_array[i].start_write_addr
         /\ phase2_commit_array'[i].tot_jrec_len = phase2_commit_array[i].tot_jrec_len
         /\ phase2_commit_array'[i].prev_jrec_len = phase2_commit_array[i].prev_jrec_len
         /\ phase2_commit_array[i].write_complete => phase2_commit_array'[i].write_complete
         /\ \/ phase2_commit_array'[i] = phase2_commit_array[i]
            \/ /\ crit = p
               /\ phase2_commit_array[i].process_id \notin alive
               /\ ~phase2_commit_array[i].write_complete
               /\ \E k \in 0 .. D - 1 : i = At(phase2_commit_index1, k)
  BY <1>1, SalvageFacts
<1>3. Owner' = Owner /\ Stage' = Stage
  BY <1>1 DEF Owner, Stage
<1>4. U' = U /\ D' = D /\ First' = First /\ LastCommitted' = LastCommitted
  BY <1>1, <1>3 DEF U, D, First, LastCommitted
<1>5. phase2_commit_array'[phase2_commit_index2] = phase2_commit_array[phase2_commit_index2]
  BY <1>2, InRing
<1>6. Stage \in Reserved => LastCmt' = LastCmt
  <2> SUFFICES ASSUME Stage \in Reserved, LastCmt' # LastCmt PROVE FALSE
    OBVIOUS
  <2>1. LastCmt.process_id = Owner
    BY DEF PoolInv, ReserveInv
  <2>2. crit = p /\ Owner \notin alive
    BY <1>1, <1>2, <2>1, InRing DEF LastCmt
  <2>3. Owner = crit
    BY <1>1, <2>2 DEF Owner, LockInv, CallPoints
  <2>q. QED
    BY <1>1, <2>2, <2>3
<1>7. \A j \in Indices : \A s : SlotIs(j, s)' <=> SlotIs(j, s)
  BY <1>1, <1>2 DEF SlotIs, LogEnd, LenOf
<1>8. \A j \in Indices : EndOf(phase2_commit_array'[j]) = EndOf(phase2_commit_array[j])
  BY <1>2 DEF EndOf
<1>9. \A q \in alive : q # p => cl[q] \notin {"latched", "published"}
  BY <1>1 DEF PoolInv, LatchInv
<1>10. LogInv'
  BY <1>1 DEF PoolInv, LogInv, LogEnd
<1>11. RingInv'
  BY <1>1, <1>4, <1>7, InRing DEF PoolInv, RingInv
<1>12. LastInv'
  <2>1. LastCommitted \in Indices
    BY InRing, RingType DEF LastCommitted
  <2>q. QED
    BY <2>1, <1>1, <1>2, <1>4, <1>8 DEF PoolInv, LastInv, LogEnd, LenOf
<1>13. ReserveInv'
  <2>1. /\ EndOf(LastCmt)' = EndOf(LastCmt)
        /\ LogEnd(Len(log))' = LogEnd(Len(log)) /\ LenOf(Len(log))' = LenOf(Len(log))
        /\ Decr(phase2_commit_index2)' = Decr(phase2_commit_index2)
    BY <1>1, <1>8, InRing DEF LastCmt, LogEnd, LenOf
  <2>2. /\ SlotIs(phase2_commit_index2, Len(log) + 1)'
               <=> SlotIs(phase2_commit_index2, Len(log) + 1)
        /\ SlotIs(Decr(phase2_commit_index2), Len(log) + 1)'
               <=> SlotIs(Decr(phase2_commit_index2), Len(log) + 1)
    BY <1>1, <1>7, InRing
  <2>q. QED
    BY <1>1, <1>3, <1>4, <1>5, <1>6, <2>1, <2>2 DEF PoolInv, ReserveInv, EndOf
<1>14. JrsInv'
  <2> SUFFICES ASSUME NEW q \in alive
               PROVE  JrsInv!(q)'
    BY <1>1 DEF JrsInv
  <2>1. jrs[q].phase2_commit_index \in Indices
    BY DEF TypeOK, Jrs
  <2>2. jrs[q].pending => phase2_commit_array'[jrs[q].phase2_commit_index]
                             = phase2_commit_array[jrs[q].phase2_commit_index]
    BY <1>2, <2>1 DEF PoolInv, JrsInv
  <2>q. QED
    BY <1>1, <1>4, <2>1, <2>2 DEF PoolInv, JrsInv
<1>15. PICK k \in 0 .. D :
         /\ \A m \in 0 .. k - 1 :
               phase2_commit_array'[At(phase2_commit_index1, m)].write_complete
         /\ First + k - 1 <= IF Stage = "written" THEN Len(log) + 1 ELSE Len(log)
         /\ \A w \in 0 .. Len(log) + 1 : PublishedUpTo(w) => w <= First + k - 1
         /\ IF k = 0
            THEN Return(p) /\ UNCHANGED write_addr
            ELSE /\ write_addr' = AddrEnd(First + k - 1)
                 /\ index1' = [index1 EXCEPT ![p] = At(phase2_commit_index1, k)]
                 /\ cl' = [cl EXCEPT ![p] = "published"]
                 /\ UNCHANGED <<phase2_commit_latch, index2>>
  BY PublishFacts
<1>16. /\ D \in 0 .. ArraySize - 1 /\ First \in Int /\ First >= 1 /\ Len(log) \in Nat
  BY RingValues, LogType DEF PoolInv, RingInv
<1>17. /\ \A q \in alive : q # p => cl'[q] \notin {"latched", "published"}
       /\ k = 0 => cl'[p] = "none"
       /\ k # 0 => /\ cl'[p] = "published" /\ phase2_commit_latch' = p
                   /\ Dist(phase2_commit_index1, index1'[p]) = k
  <2>1. CASE k = 0
    BY <1>9, <1>15, <2>1 DEF Return, TypeOK
  <2>2. CASE k # 0
    <3>1. index1'[p] = At(phase2_commit_index1, k) /\ cl' = [cl EXCEPT ![p] = "published"]
          /\ phase2_commit_latch' = phase2_commit_latch
      BY <1>15, <2>2 DEF TypeOK
    <3>2. Dist(phase2_commit_index1, At(phase2_commit_index1, k)) = k
      BY <1>16, InRing, RingArith
    <3>3. phase2_commit_latch = p
      BY <1>1 DEF PoolInv, LatchInv
    <3>q. QED
      BY <2>2, <3>1, <3>2, <3>3, <1>9 DEF TypeOK
  <2>q. QED
    BY <2>1, <2>2
<1>18. PubInv'
  <2>1. CASE k = 0
    <3>1. PICK w \in 0 .. Len(log) + 1 : PublishedUpTo(w)
      BY DEF PoolInv, PubInv
    <3>2. AddrEnd(w)' = AddrEnd(w) /\ write_addr' = write_addr
      BY <1>1, <1>8, <1>15, <2>1, InRing DEF AddrEnd, LogEnd, LastCmt
    <3>3. \A q \in alive : cl'[q] \notin {"latched", "published"}
      BY <1>17, <2>1
    <3>4. PublishedUpTo(w)'
      BY <1>1, <1>2, <1>3, <1>4, <3>1, <3>2, <3>3, InRing DEF PublishedUpTo
    <3>q. QED
      BY <1>1, <3>4 DEF PubInv
  <2>2. CASE k # 0
    <3>1. PICK w \in 0 .. Len(log) + 1 : w = First + k - 1
      BY <1>15, <1>16, <2>2
    <3>2. AddrEnd(w)' = AddrEnd(w) /\ write_addr' = AddrEnd(w)
      BY <1>1, <1>8, <1>15, <2>2, <3>1, InRing DEF AddrEnd, LogEnd, LastCmt
    <3>3. \A m \in 0 .. D - 1 : First + m <= w => m \in 0 .. k - 1
      BY <1>16, <3>1
    <3>4. First - 1 <= w
      BY <1>16, <3>1
    <3>5. w <= IF Stage = "written" THEN Len(log) + 1 ELSE Len(log)
      BY <1>15, <3>1
    <3>6. PublishedUpTo(w)'
      BY <1>1, <1>3, <1>4, <1>15, <1>17, <2>2, <3>1, <3>2, <3>3, <3>4, <3>5
         DEF PublishedUpTo
    <3>q. QED
      BY <1>1, <3>6 DEF PubInv
  <2>q. QED
    BY <2>1, <2>2
<1>19. LatchInv'
  BY <1>1, <1>4, <1>16, <1>17 DEF LatchInv
<1>q. QED
  BY <1>10, <1>11, <1>12, <1>13, <1>14, <1>18, <1>19 DEF PoolInv

\* A step of repl_phase2_cleanup that frees the slots of what was published: none that is
\* still to be written is among them.
LEMMA CleanupFreeInv ==
    ASSUME TypeOK, LockInv, PoolInv, TypeOK', LockInv', NEW p \in Pids, CleanupFree(p)
    PROVE  PoolInv'
<1> USE JnlPoolAssumption
<1> DEFINE n == Dist(phase2_commit_index1, index1[p])
<1>1. /\ p \in alive /\ cl[p] = "published"
      /\ phase2_commit_index1' = index1[p]
      /\ cl' = [cl EXCEPT ![p] = "none"]
      /\ UNCHANGED <<phase2_commit_index2, phase2_commit_array, rsrv_write_addr, write_addr,
                     lastwrite_len, jnl_seqno, crit, in_crit, holder, alive, pc, jrs, log>>
  BY DEF CleanupFree, Return
<1>2. Owner' = Owner /\ Stage' = Stage
  BY <1>1 DEF Owner, Stage
<1>3. U' = U /\ LastCommitted' = LastCommitted /\ LastCmt' = LastCmt
  BY <1>1, <1>2 DEF U, LastCommitted, LastCmt
<1>4. n \in 1 .. D /\ D \in 0 .. ArraySize - 1 /\ First \in Int /\ Len(log) \in Nat
      /\ U \in {0, 1}
  BY <1>1, RingValues, LogType DEF PoolInv, LatchInv
<1>5. index1[p] \in Indices /\ At(phase2_commit_index1, n) = index1[p]
  BY InRing, RingArith DEF TypeOK
<1>6. D' = D - n
  BY <1>1, <1>4, <1>5, InRing, RingShift DEF D
<1>7. \A m \in 0 .. D' : At(phase2_commit_index1', m) = At(phase2_commit_index1, n + m)
  BY <1>1, <1>4, <1>5, <1>6, InRing, RingShift DEF D
<1> HIDE DEF n
<1>8. First' = First + n
  BY <1>1, <1>3, <1>4, <1>6 DEF First
<1>9. PICK w \in 0 .. Len(log) + 1 : PublishedUpTo(w)
  BY DEF PoolInv, PubInv
<1>10. w = First + n - 1
  BY <1>1, <1>9 DEF PublishedUpTo, n
<1>11. \A m \in 0 .. n - 1 :
           phase2_commit_array[At(phase2_commit_index1, m)].write_complete
  <2>1. \A m \in 0 .. n - 1 : m \in 0 .. D - 1 /\ First + m <= w
    BY <1>4, <1>10
  <2>q. QED
    BY <1>9, <2>1 DEF PublishedUpTo
<1>12. \A q \in alive : q # p => cl'[q] \notin {"latched", "published"}
  BY <1>1 DEF TypeOK, PoolInv, LatchInv
<1>13. cl'[p] = "none"
  BY <1>1 DEF TypeOK
<1>14. \A i, s : SlotIs(i, s)' <=> SlotIs(i, s)
  BY <1>1 DEF SlotIs, LogEnd, LenOf
<1>15. LogInv'
  BY <1>1 DEF PoolInv, LogInv, LogEnd
<1>16. RingInv'
  <2>1. First' >= 1
    BY <1>4, <1>8 DEF PoolInv, RingInv
  <2>2. ASSUME NEW m \in 0 .. D' - 1
        PROVE  SlotIs(At(phase2_commit_index1', m), First' + m)
    <3>1. n + m \in 0 .. D - 1 /\ m \in 0 .. D' /\ First + (n + m) = First' + m
      BY <1>4, <1>6, <1>8
    <3>2. SlotIs(At(phase2_commit_index1, n + m), First + (n + m))
      BY <3>1 DEF PoolInv, RingInv
    <3>q. QED
      BY <3>1, <3>2, <1>7
  <2>q. QED
    BY <2>1, <2>2, <1>14 DEF RingInv
<1>17. LastInv'
  BY <1>1, <1>3 DEF PoolInv, LastInv, LogEnd, LenOf, EndOf
<1>18. ReserveInv'
  <2>1. D' < ArraySize - 1 \/ D = ArraySize - 1
    BY <1>4, <1>6
  <2>2. Stage \in Reserved \ {"written"} => D' >= 1
    <3> SUFFICES ASSUME Stage \in Reserved \ {"written"}, D' = 0 PROVE FALSE
      BY <1>4, <1>6
    <3>1. w <= Len(log) /\ U = 1
      BY <1>9 DEF PublishedUpTo, U
    <3>2. w = Len(log) + 1
      BY <1>4, <1>6, <1>10, <3>1 DEF First
    <3>q. QED
      BY <3>1, <3>2, <1>4
  <2>3. Stage \in Filling => D' < ArraySize - 1
    BY <1>4, <1>6 DEF PoolInv, ReserveInv
  <2>q. QED
    BY <1>1, <1>2, <1>3, <1>14, <2>2, <2>3
       DEF PoolInv, ReserveInv, EndOf, LogEnd, LenOf
<1>19. JrsInv'
  <2> SUFFICES ASSUME NEW q \in alive
               PROVE  JrsInv!(q)'
    BY <1>1 DEF JrsInv
  <2>1. ASSUME jrs[q].pending, pc[q] \notin Filling
        PROVE  \E m \in 0 .. D' - 1 :
                   jrs[q].phase2_commit_index = At(phase2_commit_index1', m)
    <3>1. PICK k \in 0 .. D - 1 :
               jrs[q].phase2_commit_index = At(phase2_commit_index1, k)
      BY <2>1 DEF PoolInv, JrsInv
    <3>2. ~phase2_commit_array[At(phase2_commit_index1, k)].write_complete
      BY <2>1, <3>1 DEF PoolInv, JrsInv
    <3>3. k \notin 0 .. n - 1
      BY <3>2, <1>11
    <3>4. k - n \in 0 .. D' - 1 /\ k - n \in 0 .. D' /\ n + (k - n) = k
      BY <3>3, <1>4, <1>6
    <3>5. At(phase2_commit_index1', k - n) = At(phase2_commit_index1, k)
      BY <3>4, <1>7
    <3>q. QED
      BY <3>1, <3>4, <3>5
  <2>q. QED
    BY <1>1, <2>1 DEF PoolInv, JrsInv
<1>20. PubInv'
  <2>1. AddrEnd(w)' = AddrEnd(w)
    BY <1>1, <1>3 DEF AddrEnd, LogEnd, EndOf
  <2>2. \A q \in alive : cl'[q] \notin {"latched", "published"}
    BY <1>12, <1>13
  <2>3. First' - 1 <= w /\ \A m \in 0 .. D' - 1 : ~(First' + m <= w)
    BY <1>4, <1>6, <1>8, <1>10
  <2>4. PublishedUpTo(w)'
    BY <1>1, <1>2, <1>9, <2>1, <2>2, <2>3 DEF PublishedUpTo
  <2>q. QED
    BY <1>1, <2>4 DEF PubInv
<1>21. LatchInv'
  BY <1>1, <1>12, <1>13 DEF LatchInv
<1>q. QED
  BY <1>15, <1>16, <1>17, <1>18, <1>19, <1>20, <1>21 DEF PoolInv

----------------------------------------------------------------------------
(* The invariant holds in every reachable state.                           *)

\* A new pool (jnlpool_init): nothing is reserved, written or published.
LEMMA InitIInv == Init => IInv
<1> SUFFICES ASSUME Init PROVE IInv
  OBVIOUS
<1> USE JnlPoolAssumption
<1>0. TypeOK
  BY InitTypeOK
<1>1. LockInv
  BY DEF Init, LockInv, Pids, CritPoints, Points
<1>2. Owner = NoPid /\ Stage = "idle" /\ U = 0
  BY DEF Init, Owner, Stage, U, Reserved
<1>3. Len(log) = 0 /\ DOMAIN log = {} /\ D = 0 /\ First = 1
  BY <1>2 DEF Init, D, Dist, First
<1>4. LogEnd(0) = 0 /\ LenOf(0) = 0
  BY DEF LogEnd, LenOf
<1>5. LogInv
  BY <1>3 DEF Init, LogInv
<1>6. RingInv
  BY <1>3 DEF RingInv
<1>7. phase2_commit_array[Decr(phase2_commit_index2)] = ZeroSlot
  BY <1>0, InRing DEF Init
<1>8. LastInv
  BY <1>2, <1>3, <1>4, <1>7 DEF LastInv, LastCommitted, ZeroSlot, EndOf
<1>9. ReserveInv
  BY <1>2, <1>3, <1>4 DEF Init, ReserveInv, Filling, Reserved
<1>10. JrsInv
  BY DEF Init, JrsInv, Filling, NoJrs
<1>11. PublishedUpTo(0)
  BY <1>2, <1>3, <1>4 DEF Init, PublishedUpTo, AddrEnd
<1>12. PubInv
  BY <1>3, <1>11 DEF PubInv
<1>13. LatchInv
  BY DEF Init, LatchInv
<1>q. QED
  BY <1>0, <1>1, <1>5, <1>6, <1>8, <1>9, <1>10, <1>12, <1>13 DEF IInv

\* One case per action.
LEMMA NextIInv == ASSUME CleanFaults, IInv, [Next]_vars PROVE IInv'
<1>0. TypeOK /\ LockInv /\ PoolInv
  BY DEF IInv, PoolInv
<1>1. TypeOK'
  BY <1>0, NextTypeOK
<1>2. LockInv'
  BY <1>0, NextLock
<1>3. CASE UNCHANGED vars
  <2>1. UNCHANGED <<jplVars, lockVars, procVars, log>>
    BY <1>3 DEF vars
  <2>2. Quiet
    BY <2>1 DEF lockVars, procVars, Quiet, Owner, Stage
  <2>3. JrsInv'
    BY <1>0, <2>1 DEF PoolInv, JrsInv, D, jplVars, procVars
  <2>q. QED
    BY <1>0, <1>1, <1>2, <2>1, <2>2, <2>3, QuietRing, QuietPub
       DEF PoolInv, IInv, lockVars, procVars
<1>4. CASE Quiescent
  BY <1>3, <1>4 DEF Quiescent
<1>5. ASSUME NEW p \in Pids, Step(p) \/ Mishap(p) PROVE PoolInv'
  <2>1. CASE \/ Lock(p) \/ LockOwnerDead(p) \/ NoteInCrit(p) \/ ClearInCrit(p) \/ Unlock(p)
             \/ InstanceFrozen(p) \/ ArrayFull(p) \/ WaitForRoom(p) \/ CommitError(p)
             \/ SourcePoll(p) \/ SourceSalvage(p) \/ Kill(p)
    BY <2>1, <1>0, <1>1, <1>2, QuietStep
  <2>2. ASSUME NEW len \in Lens, NEW when \in WhenWritten, FillSlot(p, len, when)
        PROVE  PoolInv'
    BY <2>2, <1>0, <1>1, <1>2, FillSlotInv
  <2>3. CASE SetLastwriteLen(p) \/ SetRsrvWriteAddr(p)
    BY <2>3, <1>0, <1>1, <1>2, StoreInv
  <2>4. CASE SetIndex2(p)
    BY <2>4, <1>0, <1>1, <1>2, SetIndex2Inv
  <2>5. CASE t_commit_cleanup(p)
    BY <2>5, <1>0, <1>1, <1>2, t_commit_cleanupInv
  <2>6. CASE RemoveSlot(p)
    BY <2>6, <1>0, <1>1, <1>2, RemoveSlotInv
  <2>7. CASE mutex_clean_dead_owner(p)
    BY <2>7, <1>0, <1>1, <1>2, mutex_clean_dead_ownerInv
  <2>8. CASE jpl_phase2_write_complete(p)
    BY <2>8, <1>0, <1>1, <1>2, jpl_phase2_write_completeInv
  <2>9. CASE SET_JNL_SEQNO(p)
    BY <2>9, <1>0, <1>1, <1>2, SET_JNL_SEQNOInv
  <2>10. CASE CleanupLatch(p)
    BY <2>10, <1>0, <1>1, <1>2, CleanupLatchInv
  <2>11. CASE CleanupPublish(p)
    BY <2>11, <1>0, <1>1, <1>2, CleanupPublishInv
  <2>12. CASE CleanupFree(p)
    BY <2>12, <1>0, <1>1, <1>2, CleanupFreeInv
  <2>q. QED
    BY <1>5, <2>1, <2>2, <2>3, <2>4, <2>5, <2>6, <2>7, <2>8, <2>9, <2>10, <2>11, <2>12
       DEF Step, Mishap
<1>q. QED
  BY <1>1, <1>2, <1>3, <1>4, <1>5 DEF Next, IInv, PoolInv

\* The inductive invariant.
THEOREM PoolInvariant == ASSUME CleanFaults PROVE Spec => []IInv
<1>1. IInv /\ [Next]_vars => IInv'
  BY NextIInv
<1>q. QED
  BY InitIInv, <1>1, PTL DEF Spec

----------------------------------------------------------------------------
(* What it says about the pool.                                            *)

\* A later transaction ends at a higher address, a reservation behind all of them.
LEMMA AddrEndGrows ==
    ASSUME TypeOK, PoolInv, NEW r \in 0 .. Len(log) + 1, NEW s \in 0 .. Len(log) + 1, r <= s,
           s = Len(log) + 1 => Stage \in Reserved
    PROVE  AddrEnd(r) \in Nat /\ AddrEnd(s) \in Nat /\ AddrEnd(r) <= AddrEnd(s)
<1>1. Len(log) \in Nat /\ \A t \in 0 .. Len(log) : LogEnd(t) \in Nat
  BY LogType
<1>2. \A t, u \in 0 .. Len(log) : t < u => LogEnd(t) < LogEnd(u)
  BY DEF PoolInv, LogInv
<1>3. CASE s <= Len(log)
  BY <1>1, <1>2, <1>3 DEF AddrEnd
<1>4. CASE s = Len(log) + 1
  <2>1. SlotIs(Decr(phase2_commit_index2), Len(log) + 1)
    BY <1>4 DEF PoolInv, ReserveInv
  <2>2. LastCmt.start_write_addr = LogEnd(Len(log)) /\ LastCmt.tot_jrec_len \in Lens
    BY <1>1, <2>1 DEF SlotIs, LastCmt
  <2>3. EndOf(LastCmt) > LogEnd(Len(log)) /\ EndOf(LastCmt) \in Nat
    BY <1>1, <2>2, LensPositive DEF EndOf
  <2>q. QED
    BY <1>1, <1>2, <1>4, <2>3 DEF AddrEnd
<1>q. QED
  BY <1>1, <1>3, <1>4

\* Transactions that were given a seqno lie one after the other in the pool, whatever was
\* rolled back or salvaged in between (UPDATE_JPL_RSRV_WRITE_ADDR, t_commit_cleanup,
\* mutex_clean_dead_owner).
THEOREM LogIsContiguous == ASSUME CleanFaults PROVE Spec => []LogContiguous
<1>1. IInv => LogContiguous
  BY DEF IInv, LogInv, LogContiguous
<1>q. QED
  BY <1>1, PoolInvariant, PTL

\* Between commits the pool is as if no reservation had ever been undone.
THEOREM ReservationsAreUndone == ASSUME CleanFaults PROVE Spec => []NothingLeftReserved
<1>1. IInv => NothingLeftReserved
  <2> SUFFICES ASSUME IInv, BetweenCommits
               PROVE  /\ rsrv_write_addr = LogEnd(Len(log))
                      /\ lastwrite_len = IF log = << >> THEN 0
                                         ELSE log[Len(log)].tot_jrec_len
    BY DEF NothingLeftReserved
  <2>1. Stage \notin Filling \union Reserved
    BY DEF IInv, BetweenCommits, Stage, Owner, Filling, Reserved
  <2>2. rsrv_write_addr = LogEnd(Len(log)) /\ lastwrite_len = LenOf(Len(log))
    BY <2>1 DEF IInv, ReserveInv, Filling, Reserved
  <2>3. log = << >> <=> Len(log) = 0
    <3>1. log \in Seq([process_id : Pids, start_write_addr : Nat, tot_jrec_len : Nat])
      BY DEF IInv, TypeOK
    <3>q. QED
      BY <3>1
  <2>q. QED
    BY <2>2, <2>3 DEF LenOf
<1>q. QED
  BY <1>1, PoolInvariant, PTL

\* The slots in use are the end of the log and at most one reservation.
THEOREM SlotsAreEndOfLog == ASSUME CleanFaults PROVE Spec => []RingIsEndOfLog
<1>1. IInv => RingIsEndOfLog
  <2> SUFFICES ASSUME IInv PROVE RingIsEndOfLog
    OBVIOUS
  <2> DEFINE slot(k) == phase2_commit_array[At(phase2_commit_index1, k)]
  <2>1. /\ D \in Nat /\ U \in {0, 1} /\ First \in Int /\ First >= 1 /\ Len(log) \in Nat
        /\ First = Len(log) + 1 + U - D
    BY RingValues, LogType, JnlPoolAssumption DEF IInv, RingInv, First
  <2>2. \A k \in 0 .. D - 1 : SlotIs(At(phase2_commit_index1, k), First + k)
    BY DEF IInv, RingInv
  <2>3. ASSUME NEW k \in 0 .. D - 1
        PROVE  /\ slot(k).jnl_seqno \in 1 .. Len(log) + 1
               /\ slot(k).jnl_seqno + (D - 1 - k) \in {Len(log), Len(log) + 1}
               /\ k > 0 => slot(k).jnl_seqno = slot(k - 1).jnl_seqno + 1
               /\ k > 0 => slot(k).prev_jrec_len = slot(k - 1).tot_jrec_len
               /\ LET s == slot(k).jnl_seqno
                  IN  /\ slot(k).start_write_addr = LogEnd(s - 1)
                      /\ s <= Len(log) =>
                             /\ slot(k).process_id = log[s].process_id
                             /\ slot(k).tot_jrec_len = log[s].tot_jrec_len
    <3>1. slot(k).jnl_seqno = First + k
      BY <2>2 DEF SlotIs
    <3>2. First + k \in 1 .. Len(log) + 1 /\ First + k + (D - 1 - k) = Len(log) + U
      BY <2>1
    <3>3. ASSUME k > 0
          PROVE  /\ slot(k - 1).jnl_seqno = First + k - 1
                 /\ slot(k).prev_jrec_len = slot(k - 1).tot_jrec_len
      <4>1. k - 1 \in 0 .. D - 1 /\ First + (k - 1) = (First + k) - 1
            /\ (First + k) - 1 \in 1 .. Len(log)
        BY <2>1, <3>3
      <4>2. SlotIs(At(phase2_commit_index1, k - 1), First + (k - 1))
        BY <2>2, <4>1
      <4>3. slot(k).prev_jrec_len = LenOf((First + k) - 1)
        BY <2>2 DEF SlotIs
      <4>4. slot(k - 1).tot_jrec_len = log[(First + k) - 1].tot_jrec_len
        BY <4>1, <4>2 DEF SlotIs
      <4>q. QED
        BY <4>1, <4>2, <4>3, <4>4 DEF SlotIs, LenOf
    <3>4. /\ slot(k).start_write_addr = LogEnd((First + k) - 1)
          /\ First + k <= Len(log) =>
                 /\ slot(k).process_id = log[First + k].process_id
                 /\ slot(k).tot_jrec_len = log[First + k].tot_jrec_len
      BY <2>2 DEF SlotIs
    <3>q. QED
      BY SMTT(30), <2>1, <3>1, <3>2, <3>3, <3>4
  <2>q. QED
    BY <2>3 DEF RingIsEndOfLog, D
<1>q. QED
  BY <1>1, PoolInvariant, PTL

\* The source server may read whole transactions that have a seqno, or are about to get it
\* (SET_JPL_WRITE_ADDR in repl_phase2_cleanup).
THEOREM OnlyCommittedIsPublished == ASSUME CleanFaults PROVE Spec => []PublishedIsCommitted
<1>1. IInv => PublishedIsCommitted
  <2> SUFFICES ASSUME IInv PROVE PublishedIsCommitted
    OBVIOUS
  <2>0. Len(log) \in Nat
    BY LogType DEF IInv
  <2>1. PICK w \in 0 .. Len(log) + 1 : PublishedUpTo(w)
    BY DEF IInv, PubInv
  <2>2. CASE w <= Len(log)
    BY <2>0, <2>1, <2>2 DEF PublishedUpTo, AddrEnd, PublishedIsCommitted
  <2>3. CASE w = Len(log) + 1
    <3>1. Stage = "written"
      BY <2>0, <2>1, <2>3 DEF PublishedUpTo
    <3>2. Owner \in alive /\ pc[Owner] = "written" /\ Owner \in Pids
      <4>1. Owner \in Pids /\ pc[Owner] = "written"
        BY <3>1, JnlPoolAssumption DEF Stage, Owner, IInv, TypeOK
      <4>q. QED
        BY <4>1 DEF IInv, LockInv
    <3>3. crit = Owner
      BY <3>2 DEF IInv, LockInv, CritPoints, Points
    <3>4. crit \in Updaters
      BY <3>2, <3>3 DEF IInv, LockInv, Pids
    <3>5. MySlot(crit) = LastCmt
      BY <3>1, <3>3 DEF IInv, ReserveInv, Reserved, MySlot, LastCmt
    <3>6. write_addr = EndOf(LastCmt)
      BY <2>0, <2>1, <2>3 DEF PublishedUpTo, AddrEnd
    <3>q. QED
      BY <3>2, <3>3, <3>4, <3>5, <3>6 DEF PublishedIsCommitted
  <2>q. QED
    BY <2>0, <2>2, <2>3
<1>q. QED
  BY <1>1, PoolInvariant, PTL

\* What is published was written or salvaged: a slot that is not complete starts behind it.
LEMMA IncompleteIsBehind ==
    ASSUME IInv, NEW w \in 0 .. Len(log) + 1, PublishedUpTo(w), NEW k \in 0 .. D - 1,
           ~phase2_commit_array[At(phase2_commit_index1, k)].write_complete
    PROVE  write_addr <= phase2_commit_array[At(phase2_commit_index1, k)].start_write_addr
<1>1. /\ D \in Nat /\ U \in {0, 1} /\ First \in Int /\ First >= 1 /\ Len(log) \in Nat
      /\ First = Len(log) + 1 + U - D
  BY RingValues, LogType, JnlPoolAssumption DEF IInv, RingInv, First
<1>2. ~(First + k <= w)
  BY DEF PublishedUpTo
<1>3. /\ (First + k) - 1 \in 0 .. Len(log) /\ (First + k) - 1 \in 0 .. Len(log) + 1
      /\ w <= (First + k) - 1 /\ w <= Len(log)
  BY <1>1, <1>2
<1>4. phase2_commit_array[At(phase2_commit_index1, k)].start_write_addr
          = LogEnd((First + k) - 1)
  BY DEF IInv, RingInv, SlotIs
<1>5. PICK s \in 0 .. Len(log) + 1 : s = (First + k) - 1
  BY <1>1, <1>3
<1>6. AddrEnd(w) <= AddrEnd(s)
  BY <1>1, <1>3, <1>5, AddrEndGrows DEF IInv, PoolInv
<1>q. QED
  BY <1>1, <1>3, <1>4, <1>5, <1>6 DEF PublishedUpTo, AddrEnd

\* No transaction is published before it was written or salvaged; none that left the ring is
\* left out.
THEOREM OnlyWrittenIsPublished == ASSUME CleanFaults PROVE Spec => []PublishedIsWritten
<1>1. IInv => PublishedIsWritten
  <2> SUFFICES ASSUME IInv PROVE PublishedIsWritten
    OBVIOUS
  <2>1. PICK w \in 0 .. Len(log) + 1 : PublishedUpTo(w)
    BY DEF IInv, PubInv
  <2>2. /\ D \in Nat /\ U \in {0, 1} /\ First \in Int /\ First >= 1 /\ Len(log) \in Nat
        /\ First = Len(log) + 1 + U - D
    BY RingValues, LogType, JnlPoolAssumption DEF IInv, RingInv, First
  <2>3. /\ w <= Len(log) => write_addr = LogEnd(w) /\ write_addr <= LogEnd(Len(log))
        /\ w = Len(log) + 1 => /\ Stage = "written" /\ write_addr = EndOf(LastCmt)
                               /\ write_addr >= LogEnd(Len(log))
        /\ write_addr \in Nat /\ LogEnd(Len(log)) \in Nat
    <3>1. write_addr = AddrEnd(w) /\ (w = Len(log) + 1 => Stage = "written")
      BY <2>1, <2>2 DEF PublishedUpTo
    <3>2. AddrEnd(Len(log)) = LogEnd(Len(log))
      BY <2>2 DEF AddrEnd
    <3>3. w <= Len(log) => AddrEnd(w) <= AddrEnd(Len(log))
      BY <2>2, AddrEndGrows DEF IInv, PoolInv
    <3>4. w = Len(log) + 1 => AddrEnd(Len(log)) <= AddrEnd(w)
      BY <2>2, <3>1, AddrEndGrows DEF IInv, PoolInv, Reserved
    <3>5. write_addr \in Nat /\ LogEnd(Len(log)) \in Nat
      BY <2>2, LogType DEF IInv, TypeOK
    <3>q. QED
      BY <2>2, <3>1, <3>2, <3>3, <3>4, <3>5 DEF AddrEnd
  <2>4. write_addr <= rsrv_write_addr
    <3>1. CASE Stage = "rsrv"
      <4>1. SlotIs(phase2_commit_index2, Len(log) + 1)
            /\ rsrv_write_addr = EndOf(phase2_commit_array[phase2_commit_index2])
        BY <3>1 DEF IInv, ReserveInv, Filling
      <4>2. /\ phase2_commit_array[phase2_commit_index2].start_write_addr = LogEnd(Len(log))
            /\ phase2_commit_array[phase2_commit_index2].tot_jrec_len \in Lens
        BY <2>2, <4>1 DEF SlotIs
      <4>q. QED
        BY <2>1, <2>2, <2>3, <3>1, <4>1, <4>2, LensPositive DEF EndOf
    <3>2. CASE Stage \in Reserved \ {"undo"}
      <4>1. SlotIs(Decr(phase2_commit_index2), Len(log) + 1)
            /\ rsrv_write_addr = EndOf(LastCmt)
        BY <3>2 DEF IInv, ReserveInv, Reserved
      <4>2. LastCmt.start_write_addr = LogEnd(Len(log)) /\ LastCmt.tot_jrec_len \in Lens
        BY <2>2, <4>1 DEF SlotIs, LastCmt
      <4>3. EndOf(LastCmt) \in Nat /\ EndOf(LastCmt) >= LogEnd(Len(log))
        BY <2>3, <4>2, LensPositive DEF EndOf
      <4>q. QED
        BY <2>2, <2>3, <4>1, <4>3
    <3>3. CASE Stage # "rsrv" /\ Stage \notin Reserved \ {"undo"}
      <4>1. rsrv_write_addr = LogEnd(Len(log))
        BY <3>3 DEF IInv, ReserveInv
      <4>2. w <= Len(log)
        BY <2>2, <2>3, <3>3 DEF Reserved
      <4>q. QED
        BY <2>3, <4>1, <4>2
    <3>q. QED
      BY <3>1, <3>2, <3>3
  <2>5. ASSUME NEW p \in alive, jrs[p].pending
        PROVE  write_addr <= MySlot(p).start_write_addr
    <3>1. CASE pc[p] \in Filling
      <4>1. Owner = p /\ Stage = pc[p]
        BY <3>1, OwnerIs DEF IInv, Filling, CritPoints, Points
      <4>2. MySlot(p).start_write_addr = LogEnd(Len(log))
        BY <2>2, <3>1, <4>1 DEF IInv, ReserveInv, SlotIs, MySlot
      <4>3. w <= Len(log)
        BY <2>2, <2>3, <3>1, <4>1 DEF Filling
      <4>q. QED
        BY <2>3, <4>2, <4>3
    <3>2. CASE pc[p] \notin Filling
      <4>1. PICK k \in 0 .. D - 1 : jrs[p].phase2_commit_index = At(phase2_commit_index1, k)
        BY <2>5, <3>2 DEF IInv, JrsInv
      <4>2. ~phase2_commit_array[At(phase2_commit_index1, k)].write_complete
        BY <2>5, <4>1 DEF IInv, JrsInv
      <4>q. QED
        BY <2>1, <4>1, <4>2, IncompleteIsBehind DEF MySlot
    <3>q. QED
      BY <3>1, <3>2
  <2>6. ASSUME NEW i \in InUse, phase2_commit_array[i].start_write_addr < write_addr
        PROVE  phase2_commit_array[i].write_complete
    <3>1. PICK k \in 0 .. D - 1 : i = At(phase2_commit_index1, k)
      BY DEF InUse, D
    <3>2. phase2_commit_array[i].start_write_addr \in Nat
      <4>1. phase2_commit_array[i] \in Slot
        BY <3>1, InRing DEF IInv, TypeOK
      <4>q. QED
        BY <4>1 DEF Slot
    <3>3. ~(write_addr <= phase2_commit_array[i].start_write_addr)
      BY <2>3, <2>6, <3>2
    <3>q. QED
      BY <2>1, <3>1, <3>3, IncompleteIsBehind
  <2>7. ASSUME phase2_commit_index1 = phase2_commit_index2 PROVE write_addr = EndOf(LastCmt)
    <3>1. D = 0 /\ First - 1 <= w
      BY <2>1, <2>7, InRing DEF IInv, PublishedUpTo
    <3>2. CASE U = 0
      <4>1. Stage # "written"
        BY <3>2 DEF U, Reserved
      <4>2. w = Len(log)
        BY <2>2, <2>3, <3>1, <3>2, <4>1
      <4>q. QED
        BY <2>3, <3>2, <4>2 DEF IInv, LastInv, LastCommitted, LastCmt
    <3>3. CASE U = 1
      <4>1. w = Len(log) + 1
        BY <2>2, <3>1, <3>3
      <4>q. QED
        BY <2>3, <4>1
    <3>q. QED
      BY <2>2, <3>2, <3>3
  <2>8. ASSUME phase2_commit_index1 # phase2_commit_index2
        PROVE  phase2_commit_array[phase2_commit_index1].start_write_addr <= write_addr
    <3>1. D >= 1 /\ First - 1 <= w /\ First - 1 \in 0 .. Len(log)
      BY <2>1, <2>2, <2>8, InRing DEF IInv, PublishedUpTo
    <3>2. SlotIs(At(phase2_commit_index1, 0), First + 0)
      BY <2>2, <3>1 DEF IInv, RingInv
    <3>3. At(phase2_commit_index1, 0) = phase2_commit_index1 /\ First + 0 = First
      BY <2>2, JnlPoolAssumption DEF At, IInv, TypeOK, Indices
    <3>4. phase2_commit_array[phase2_commit_index1].start_write_addr = LogEnd(First - 1)
      BY <3>2, <3>3 DEF SlotIs
    <3>5. AddrEnd(First - 1) <= AddrEnd(w)
      BY <2>2, <2>3, <3>1, AddrEndGrows DEF IInv, PoolInv, Reserved
    <3>q. QED
      BY <2>1, <2>2, <3>1, <3>4, <3>5 DEF AddrEnd, PublishedUpTo
  <2>q. QED
    BY <2>4, <2>5, <2>6, <2>7, <2>8 DEF PublishedIsWritten
<1>q. QED
  BY <1>1, PoolInvariant, PTL

\* repl_phase2_cleanup, the only one that stores write_addr, publishes at least what was
\* published before.
LEMMA PublishGrows ==
    ASSUME IInv, NEW p \in Pids, CleanupPublish(p)
    PROVE  write_addr' >= write_addr
<1>0. TypeOK /\ LockInv /\ PoolInv /\ write_addr \in Nat
  BY DEF IInv, PoolInv, TypeOK
<1>1. PICK k \in 0 .. D :
         /\ First + k - 1 <= IF Stage = "written" THEN Len(log) + 1 ELSE Len(log)
         /\ \A w \in 0 .. Len(log) + 1 : PublishedUpTo(w) => w <= First + k - 1
         /\ k = 0 => UNCHANGED write_addr
         /\ k # 0 => write_addr' = AddrEnd(First + k - 1)
  BY <1>0, PublishFacts
<1>2. PICK w \in 0 .. Len(log) + 1 : PublishedUpTo(w)
  BY DEF IInv, PubInv
<1>3. /\ D \in Nat /\ First \in Int /\ First >= 1 /\ Len(log) \in Nat
  BY <1>0, RingValues, LogType, JnlPoolAssumption DEF PoolInv, RingInv
<1>4. CASE k = 0
  BY <1>0, <1>1, <1>4
<1>5. CASE k # 0
  <2>1. PICK s \in 0 .. Len(log) + 1 : s = First + k - 1
    BY <1>1, <1>3, <1>5
  <2>2. w <= s /\ (s = Len(log) + 1 => Stage \in Reserved)
    BY <1>1, <1>2, <1>3, <2>1 DEF Reserved
  <2>3. AddrEnd(w) <= AddrEnd(s) /\ AddrEnd(s) \in Nat
    BY <1>0, <2>2, AddrEndGrows
  <2>q. QED
    BY <1>0, <1>1, <1>2, <1>5, <2>1, <2>3 DEF PublishedUpTo
<1>q. QED
  BY <1>4, <1>5

\* What was published is never taken back.
THEOREM PublishedStays == ASSUME CleanFaults PROVE Spec => WriteAddrGrows
<1>1. IInv /\ [Next]_vars => [write_addr' >= write_addr]_vars
  <2> SUFFICES ASSUME IInv, Next PROVE write_addr' >= write_addr
    OBVIOUS
  <2>0. write_addr \in Nat
    BY DEF IInv, TypeOK
  <2>1. ASSUME NEW p \in Pids, CleanupPublish(p) PROVE write_addr' >= write_addr
    BY <2>1, PublishGrows
  <2>2. ASSUME NEW p \in Pids, Step(p) \/ Mishap(p), ~CleanupPublish(p)
        PROVE  write_addr' = write_addr
    BY <2>2 DEF Step, Mishap, jplVars, Lock, LockOwnerDead, mutex_clean_dead_owner, NoteInCrit,
       ClearInCrit, Unlock, ArrayFull, FillSlot, SetLastwriteLen, SetRsrvWriteAddr,
       SetIndex2, WaitForRoom, jpl_phase2_write_complete, SET_JNL_SEQNO, t_commit_cleanup,
       RemoveSlot, SourcePoll, SourceSalvage, CleanupLatch, CleanupFree,
       InstanceFrozen, CommitError, Kill
  <2>3. CASE Quiescent
    BY <2>0, <2>3 DEF Quiescent, vars, jplVars
  <2>q. QED
    BY <2>0, <2>1, <2>2, <2>3 DEF Next
<1>q. QED
  BY <1>1, PoolInvariant, PTL DEF Spec, WriteAddrGrows
============================================================================

--------------------------- MODULE JnlPoolProofs ---------------------------
(***************************************************************************)
(* Proofs about JnlPool, for any number of processes, any size of the slot *)
(* array and of the pool, and any kills and errors.                        *)
(***************************************************************************)
EXTENDS JnlPool, TLAPS

----------------------------------------------------------------------------
(* The ring of slots.                                                      *)

\* INCR_PHASE2_COMMIT_INDEX, DECR_PHASE2_COMMIT_INDEX and the walk of
\* repl_phase2_cleanup stay inside the slot array.
LEMMA RingType ==
    /\ 0 \in Indices
    /\ \A i \in Indices : Incr(i) \in Indices /\ Decr(i) \in Indices
    /\ \A i, j \in Indices : Dist(i, j) \in 0 .. ArraySize - 1
    /\ \A i \in Indices, k \in 0 .. ArraySize - 1 : At(i, k) \in Indices
BY JnlPoolAssumption, SMT DEF Indices, Incr, Decr, Dist, At

\* The slot before index2, which mutex_clean_dead_owner and t_commit_cleanup look at.
LEMMA LastCmtType == TypeOK => LastCmt \in Slot
BY RingType DEF TypeOK, LastCmt

\* The address where a slot's records end.
LEMMA EndOfType == \A s \in Slot : EndOf(s) \in Nat
BY SMT DEF Slot, EndOf

\* write_complete is the only field of a slot that is ever stored alone, pending
\* the only one of jrs.
LEMMA CompleteType == \A s \in Slot : [s EXCEPT !.write_complete = TRUE] \in Slot
BY Zenon DEF Slot

\* The same for the private record of a reservation, once it is written.
LEMMA NotPendingType == \A j \in Jrs : [j EXCEPT !.pending = FALSE] \in Jrs
BY Zenon DEF Jrs

\* A process that reserved nothing.
LEMMA NoJrsType == NoJrs \in Jrs
BY RingType, Zenon DEF NoJrs, Jrs, Written

\* The slot a process reserved.
LEMMA MySlotType == \A p \in Pids : TypeOK => MySlot(p) \in Slot
BY DEF TypeOK, MySlot, Jrs

----------------------------------------------------------------------------
(* Type correctness.                                                       *)

\* A new pool (jnlpool_init) has its types.
LEMMA InitTypeOK == Init => TypeOK
BY RingType, NoJrsType, JnlPoolAssumption
   DEF Init, TypeOK, Pids, Points, CleanupPoints, Slot, ZeroSlot

\* One step per action; those of the commit that store to the slots or to the
\* addresses need the types of the slots they read.
LEMMA NextTypeOK == TypeOK /\ [Next]_vars => TypeOK'
<1> SUFFICES ASSUME TypeOK, [Next]_vars PROVE TypeOK'
  OBVIOUS
<1> USE RingType, JnlPoolAssumption DEF GoTo, CallCleanup, Ready
<1>s. CASE UNCHANGED vars
  BY <1>s DEF TypeOK, vars, jplVars, lockVars, procVars
<1>q. CASE Quiescent
  BY <1>q DEF Quiescent, TypeOK, vars, jplVars, lockVars, procVars
<1>p. ASSUME NEW p \in Pids, Step(p) \/ Mishap(p) PROVE TypeOK'
  <2>1. CASE Lock(p)
    BY <2>1 DEF Lock, TypeOK, Points, CleanupPoints, jplVars, lockVars
  <2>2. CASE LockOwnerDead(p)
    BY <2>2 DEF LockOwnerDead, TypeOK, Points, CleanupPoints, jplVars, lockVars
  <2>3. CASE NoteInCrit(p)
    BY <2>3 DEF NoteInCrit, TypeOK, Points, CleanupPoints, jplVars, lockVars
  <2>4. CASE ClearInCrit(p)
    BY <2>4 DEF ClearInCrit, TypeOK, Points, CleanupPoints, jplVars, lockVars
  <2>5. CASE Unlock(p)
    <3>1. pc' \in [Pids -> Points] /\ jrs' \in [Pids -> Jrs]
      <4>1. \/ pc' = [pc EXCEPT ![p] = "phase2"] /\ jrs' = jrs
            \/ pc' = [pc EXCEPT ![p] = "idle"] /\ jrs' = [jrs EXCEPT ![p] = NoJrs]
        BY <2>5, Zenon DEF Unlock
      <4>2. pc \in [Pids -> Points] /\ jrs \in [Pids -> Jrs]
        BY DEF TypeOK
      <4>3. {"phase2", "idle"} \subseteq Points
        BY DEF Points
      <4>q. QED
        BY <4>1, <4>2, <4>3, NoJrsType
    <3>2. jnl_seqno' \in Nat /\ crit' = NoPid
      BY <2>5 DEF Unlock, TypeOK, jplVars
    <3>q. QED
      BY <2>5, <3>1, <3>2 DEF Unlock, TypeOK, jplVars
  <2>6. CASE InstanceFrozen(p)
    BY <2>6 DEF InstanceFrozen, TypeOK, Points, CleanupPoints, jplVars, lockVars
  <2>7. CASE ArrayFull(p)
    BY <2>7 DEF ArrayFull, TypeOK, Points, CleanupPoints, jplVars, lockVars
  <2>8. CASE SetIndex2(p)
    BY <2>8 DEF SetIndex2, TypeOK, Points, CleanupPoints, jplVars, lockVars
  <2>9. CASE WaitForRoom(p)
    BY <2>9 DEF WaitForRoom, TypeOK, Points, CleanupPoints, jplVars, lockVars
  <2>10. CASE CommitError(p)
    BY <2>10 DEF CommitError, TypeOK, Points, CleanupPoints, jplVars, lockVars
  <2>11. CASE RemoveSlot(p)
    BY <2>11 DEF RemoveSlot, TypeOK, Points, CleanupPoints, jplVars, lockVars
  <2>12. CASE SourcePoll(p)
    BY <2>12 DEF SourcePoll, TypeOK, Points, CleanupPoints, jplVars, lockVars
  <2>13. CASE SourceSalvage(p)
    BY <2>13 DEF SourceSalvage, TypeOK, Points, CleanupPoints, jplVars, lockVars
  <2>14. CASE CleanupLatch(p)
    BY <2>14 DEF CleanupLatch, TypeOK, Points, CleanupPoints, jplVars, lockVars
  <2>15. CASE CleanupFree(p)
    BY <2>15 DEF CleanupFree, TypeOK, Points, CleanupPoints, jplVars, lockVars, Return
  <2>16. CASE Kill(p)
    BY <2>16 DEF Kill, TypeOK, Points, CleanupPoints, jplVars, lockVars
  <2>17. CASE mutex_clean_dead_owner(p)
    <3>1. /\ rsrv_write_addr' \in Nat /\ lastwrite_len' \in Nat
          /\ phase2_commit_index2' \in Indices
      BY <2>17, LastCmtType, EndOfType
         DEF mutex_clean_dead_owner, Reset, RollBack, UndoCMT03, Slot, TypeOK
    <3>q. QED
      BY <2>17, <3>1 DEF mutex_clean_dead_owner, TypeOK, Points
  <2>18. CASE \E len \in Lens, when \in WhenWritten : FillSlot(p, len, when)
    <3>1. PICK len \in Lens, when \in WhenWritten : FillSlot(p, len, when)
      BY <2>18
    <3>2. NewSlot(p, len) \in Slot
      BY <3>1 DEF NewSlot, Slot, TypeOK
    <3>q. QED
      BY <3>1, <3>2 DEF FillSlot, TypeOK, Points, lockVars, Jrs
  <2>19. CASE SetLastwriteLen(p)
    BY <2>19, MySlotType DEF SetLastwriteLen, TypeOK, Points, Slot, lockVars
  <2>20. CASE SetRsrvWriteAddr(p)
    BY <2>20, MySlotType, EndOfType
       DEF SetRsrvWriteAddr, TypeOK, Points, lockVars
  <2>21. CASE jpl_phase2_write_complete(p)
    <3>1. AfterWrite(p) \in Points
      BY <2>21 DEF AfterWrite, TypeOK, Points, Written, Jrs
    <3>2. phase2_commit_array' \in [Indices -> Slot]
      BY <2>21, CompleteType DEF jpl_phase2_write_complete, TypeOK
    <3>3. jrs' \in [Pids -> Jrs]
      <4>1. (IF pc[p] = "phase2" THEN NoJrs ELSE [jrs[p] EXCEPT !.pending = FALSE])
                \in Jrs
        BY NoJrsType, NotPendingType DEF TypeOK
      <4>q. QED
        BY <2>21, <4>1 DEF jpl_phase2_write_complete, TypeOK
    <3>q. QED
      BY <2>21, <3>1, <3>2, <3>3
         DEF jpl_phase2_write_complete, TypeOK, CleanupPoints, lockVars
  <2>22. CASE SET_JNL_SEQNO(p)
    <3> DEFINE Entry == [process_id : Pids, start_write_addr : Nat,
                         tot_jrec_len : Nat]
               e == [process_id |-> p,
                     start_write_addr |-> MySlot(p).start_write_addr,
                     tot_jrec_len |-> MySlot(p).tot_jrec_len]
    <3>0. e \in Entry
      BY MySlotType DEF Slot
    <3>1. log' \in Seq(Entry)
      <4>1. log \in Seq(Entry) /\ log' = Append(log, e)
        BY <2>22 DEF SET_JNL_SEQNO, TypeOK
      <4> HIDE DEF Entry, e
      <4>q. QED
        BY <3>0, <4>1
    <3>3. jnl_seqno' \in Nat
      BY <2>22 DEF SET_JNL_SEQNO, TypeOK
    <3>2. pc' \in [Pids -> Points]
      BY <2>22 DEF SET_JNL_SEQNO, TypeOK, Points
    <3>q. QED
      BY <2>22, <3>1, <3>2, <3>3 DEF SET_JNL_SEQNO, TypeOK, lockVars
  <2>23. CASE t_commit_cleanup(p)
    <3>1. rsrv_write_addr' \in Nat /\ lastwrite_len' \in Nat
      BY <2>23, LastCmtType DEF t_commit_cleanup, UndoCMT03, Slot, TypeOK
    <3>q. QED
      BY <2>23, <3>1, NoJrsType DEF t_commit_cleanup, TypeOK, Points, lockVars
  <2>24. CASE CleanupPublish(p)
    <3> DEFINE a == repl_phase2_salvage(DeadCmts(p))
               d == Dist(phase2_commit_index1, index2[p])
    <3>1. a \in [Indices -> Slot]
      BY CompleteType DEF repl_phase2_salvage, TypeOK
    <3>2. d \in 0 .. ArraySize - 1
      BY DEF TypeOK
    <3>3. PICK k \in 0 .. d :
             IF k = 0
             THEN Return(p) /\ UNCHANGED write_addr
             ELSE /\ write_addr' =
                         IF k < d
                         THEN a[At(phase2_commit_index1, k)].start_write_addr
                         ELSE EndOf(a[At(phase2_commit_index1, k - 1)])
                  /\ index1' = [index1 EXCEPT ![p] = At(phase2_commit_index1, k)]
                  /\ cl' = [cl EXCEPT ![p] = "published"]
                  /\ UNCHANGED <<phase2_commit_latch, index2>>
      BY <2>24 DEF CleanupPublish
    <3> HIDE DEF a, d
    <3>4. At(phase2_commit_index1, k) \in Indices
      BY <3>2 DEF TypeOK
    <3>5. k # 0 => At(phase2_commit_index1, k - 1) \in Indices
      BY <3>2 DEF TypeOK
    <3>6. CASE k = 0
      BY <2>24, <3>1, <3>3, <3>6 DEF CleanupPublish, a, TypeOK, Return,
                                     CleanupPoints
    <3>7. CASE k # 0
      <4>1. write_addr' \in Nat
        <5>1. a[At(phase2_commit_index1, k)].start_write_addr \in Nat
          BY <3>1, <3>4 DEF Slot
        <5>2. EndOf(a[At(phase2_commit_index1, k - 1)]) \in Nat
          BY <3>1, <3>5, <3>7, EndOfType
        <5>q. QED
          BY <3>3, <3>7, <5>1, <5>2
      <4>2. /\ index1' \in [Pids -> Indices]
            /\ cl' \in [Pids -> CleanupPoints]
            /\ UNCHANGED <<phase2_commit_latch, index2>>
        BY <3>3, <3>4, <3>7 DEF TypeOK, CleanupPoints
      <4>q. QED
        BY <2>24, <3>1, <4>1, <4>2 DEF CleanupPublish, a, TypeOK
    <3>q. QED
      BY <3>6, <3>7
  <2>q. QED
    BY <1>p, <2>1, <2>2, <2>3, <2>4, <2>5, <2>6, <2>7, <2>8, <2>9, <2>10, <2>11, <2>12, <2>13, <2>14, <2>15, <2>16, <2>17, <2>18, <2>19, <2>20, <2>21, <2>22, <2>23, <2>24 DEF Step, Mishap
<1>q2. QED
  BY <1>s, <1>q, <1>p DEF Next

\* The shared fields of jnlpool_ctl and the private variables of every process
\* keep their types: no index leaves the slot array, no address underflows.
THEOREM TypeCorrect == Spec => []TypeOK
BY InitTypeOK, NextTypeOK, PTL DEF Spec

============================================================================

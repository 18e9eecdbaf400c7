------------------------- MODULE JnlPoolRefinement -------------------------
(***************************************************************************)
(* The journal pool of a BG database implements CommitLog, for any number  *)
(* of processes and any size of the slot array and of the pool.            *)
(***************************************************************************)
EXTENDS JnlPoolSafety

\* The mapping of the log.
Bar == [s \in DOMAIN log |-> [start_write_addr |-> log[s].start_write_addr,
                              tot_jrec_len     |-> log[s].tot_jrec_len]]

\* No transaction is written, and so none published, before CMT07.
BGInv == \A p \in Pids : jrs[p].when # "before_seqno" /\ pc[p] # "written"

\* It is the transactions of MM databases that are.
LEMMA InitBG == Init => BGInv
BY DEF Init, BGInv, NoJrs

\* The point at which records are written comes from the reservation.
LEMMA NextBG ==
    ASSUME "before_seqno" \notin WhenWritten, TypeOK, BGInv, [Next]_vars
    PROVE  BGInv'
<1> USE DEF GoTo, BGInv, TypeOK, Ready
<1>1. CASE UNCHANGED vars
  BY <1>1 DEF vars, procVars
<1>2. CASE Quiescent
  BY <1>2 DEF Quiescent, vars, procVars
<1>3. ASSUME NEW p \in Pids, Step(p) \/ Mishap(p) PROVE BGInv'
  <2>1. CASE Unlock(p)
    <3>1. \/ pc' = [pc EXCEPT ![p] = "phase2"] /\ jrs' = jrs
          \/ pc' = [pc EXCEPT ![p] = "idle"] /\ jrs' = [jrs EXCEPT ![p] = NoJrs]
      BY <2>1, Zenon DEF Unlock
    <3>2. NoJrs.when # "before_seqno"
      BY DEF NoJrs
    <3>3. CASE pc' = [pc EXCEPT ![p] = "phase2"] /\ jrs' = jrs
      BY <3>3
    <3>4. CASE pc' = [pc EXCEPT ![p] = "idle"] /\ jrs' = [jrs EXCEPT ![p] = NoJrs]
      BY <3>2, <3>4
    <3>q. QED
      BY <3>1, <3>3, <3>4
  <2>2. CASE \E len \in Lens, when \in WhenWritten : FillSlot(p, len, when)
    BY <2>2 DEF FillSlot
  <2>3. CASE jpl_phase2_write_complete(p)
    <3>1. jrs[p] \in Jrs
      OBVIOUS
    <3>2. [jrs[p] EXCEPT !.pending = FALSE].when = jrs[p].when
      BY <3>1 DEF Jrs
    <3>3. jrs'[p].when # "before_seqno" /\ \A q \in Pids : q # p => jrs'[q] = jrs[q]
      BY <2>3, <3>2 DEF jpl_phase2_write_complete, NoJrs
    <3>4. AfterWrite(p) # "written"
      BY <3>1 DEF AfterWrite, Jrs, Written
    <3>5. pc' = [pc EXCEPT ![p] = AfterWrite(p)]
      BY <2>3 DEF jpl_phase2_write_complete
    <3>q. QED
      BY <3>3, <3>4, <3>5
  <2>4. CASE t_commit_cleanup(p)
    <3>1. pc' = [pc EXCEPT ![p] = "undo"] \/ pc' = [pc EXCEPT ![p] = "leave"]
      BY <2>4, Zenon DEF t_commit_cleanup
    <3>2. jrs' = [jrs EXCEPT ![p] = NoJrs]
      BY <2>4 DEF t_commit_cleanup
    <3>q. QED
      BY <3>1, <3>2 DEF NoJrs
  <2>5. CASE \/ Lock(p) \/ LockOwnerDead(p) \/ mutex_clean_dead_owner(p) \/ NoteInCrit(p)
             \/ ClearInCrit(p) \/ InstanceFrozen(p) \/ ArrayFull(p) \/ WaitForRoom(p)
             \/ CommitError(p) \/ SourcePoll(p) \/ SourceSalvage(p) \/ Kill(p)
    BY <2>5 DEF Lock, LockOwnerDead, mutex_clean_dead_owner, NoteInCrit, ClearInCrit,
       InstanceFrozen, ArrayFull, WaitForRoom, CommitError, SourcePoll, SourceSalvage, Kill
  <2>6. CASE \/ SetLastwriteLen(p) \/ SetRsrvWriteAddr(p) \/ SetIndex2(p) \/ SET_JNL_SEQNO(p)
             \/ RemoveSlot(p) \/ CleanupLatch(p) \/ CleanupPublish(p) \/ CleanupFree(p)
    BY <2>6 DEF SetLastwriteLen, SetRsrvWriteAddr, SetIndex2, SET_JNL_SEQNO, RemoveSlot,
       CleanupLatch, CleanupPublish, CleanupFree
  <2>q. QED
    BY <1>3, <2>1, <2>2, <2>3, <2>4, <2>5, <2>6 DEF Step, Mishap
<1>q. QED
  BY <1>1, <1>2, <1>3 DEF Next

----------------------------------------------------------------------------
(* The mapped state.                                                       *)

\* The mapped log has the same length and the same addresses.
LEMMA BarIs ==
    ASSUME TypeOK
    PROVE  /\ Bar \in Seq([start_write_addr : Nat, tot_jrec_len : Nat])
           /\ Len(Bar) = Len(log) /\ DOMAIN Bar = 1 .. Len(log)
           /\ \A s \in 0 .. Len(log) : Log!End(s) = LogEnd(s)
           /\ Log!LastLen = LenOf(Len(log))
<1>1. /\ Len(log) \in Nat /\ DOMAIN log = 1 .. Len(log)
      /\ \A s \in 1 .. Len(log) : log[s].start_write_addr \in Nat /\ log[s].tot_jrec_len \in Nat
  BY LogType
<1>2. /\ Bar \in [1 .. Len(log) -> [start_write_addr : Nat, tot_jrec_len : Nat]]
      /\ \A s \in 1 .. Len(log) : /\ Bar[s].start_write_addr = log[s].start_write_addr
                                  /\ Bar[s].tot_jrec_len = log[s].tot_jrec_len
  BY <1>1 DEF Bar
<1>3. Bar \in Seq([start_write_addr : Nat, tot_jrec_len : Nat]) /\ Len(Bar) = Len(log)
  <2> DEFINE T == [start_write_addr : Nat, tot_jrec_len : Nat]
  <2> HIDE DEF T
  <2>1. Bar \in [1 .. Len(log) -> T]
    BY <1>2 DEF T
  <2>2. Bar \in Seq(T) /\ Len(Bar) = Len(log)
    BY <1>1, <2>1
  <2>q. QED
    BY <2>2 DEF T
<1>4. \A s \in 0 .. Len(log) : Log!End(s) = LogEnd(s)
  BY <1>1, <1>2 DEF Log!End, LogEnd, Bar
<1>5. Bar = << >> <=> Len(log) = 0
  BY <1>3
<1>6. Log!LastLen = LenOf(Len(log))
  BY <1>1, <1>2, <1>3, <1>5 DEF Log!LastLen, LenOf, Bar
<1>q. QED
  BY <1>2, <1>3, <1>4, <1>6

\* Steps that change nothing the source server sees.
LEMMA Stutter ==
    ASSUME UNCHANGED <<log, write_addr, rsrv_write_addr, lastwrite_len>>
    PROVE  UNCHANGED Log!logVars
BY DEF Log!logVars

\* A commit may begin when nothing is reserved: what StoreLength and StoreAddr require.
LEMMA NothingReserved ==
    ASSUME IInv, NEW p \in alive, pc[p] \in {"slot", "lastlen"}
    PROVE  /\ MySlot(p).tot_jrec_len \in Lens
           /\ EndOf(MySlot(p)) = LogEnd(Len(log)) + MySlot(p).tot_jrec_len
           /\ rsrv_write_addr = LogEnd(Len(log))
           /\ pc[p] = "slot" => lastwrite_len = LenOf(Len(log))
           /\ pc[p] = "lastlen" => lastwrite_len = MySlot(p).tot_jrec_len
<1>1. Owner = p /\ Stage = pc[p]
  BY OwnerIs DEF IInv, CritPoints, Points
<1>2. /\ SlotIs(phase2_commit_index2, Len(log) + 1)
      /\ MySlot(p) = phase2_commit_array[phase2_commit_index2]
  BY <1>1 DEF IInv, ReserveInv, Filling, MySlot
<1>3. MySlot(p).start_write_addr = LogEnd(Len(log)) /\ MySlot(p).tot_jrec_len \in Lens
  BY <1>2, LogType DEF IInv, SlotIs
<1>4. /\ rsrv_write_addr = LogEnd(Len(log))
      /\ pc[p] = "slot" => lastwrite_len = LenOf(Len(log))
      /\ pc[p] = "lastlen" => lastwrite_len = MySlot(p).tot_jrec_len
  BY <1>1, <1>2 DEF IInv, ReserveInv, Reserved
<1>q. QED
  BY <1>3, <1>4 DEF EndOf

\* SetLastwriteLen and SetRsrvWriteAddr are the two steps of a reservation.
LEMMA ReserveSim ==
    ASSUME IInv, NEW p \in Pids, SetLastwriteLen(p) \/ SetRsrvWriteAddr(p)
    PROVE  Log!Next
<1>1. /\ Log!End(Len(Bar)) = LogEnd(Len(log)) /\ Log!LastLen = LenOf(Len(log))
      /\ Len(Bar) = Len(log)
  BY BarIs, LogType DEF IInv
<1>2. CASE SetLastwriteLen(p)
  <2>1. /\ p \in alive /\ pc[p] = "slot" /\ lastwrite_len' = MySlot(p).tot_jrec_len
        /\ UNCHANGED <<log, write_addr, rsrv_write_addr>>
    BY <1>2 DEF SetLastwriteLen, Ready
  <2>2. Log!StoreLength(MySlot(p).tot_jrec_len)
    BY <1>1, <2>1, NothingReserved DEF Log!StoreLength, Bar
  <2>q. QED
    BY <2>1, <2>2, NothingReserved DEF Log!Next
<1>3. CASE SetRsrvWriteAddr(p)
  <2>1. /\ p \in alive /\ pc[p] = "lastlen" /\ rsrv_write_addr' = EndOf(MySlot(p))
        /\ UNCHANGED <<log, write_addr, lastwrite_len>>
    BY <1>3 DEF SetRsrvWriteAddr, Ready
  <2>2. Log!StoreAddr
    BY <1>1, <2>1, NothingReserved DEF Log!StoreAddr, Bar
  <2>q. QED
    BY <2>2 DEF Log!Next
<1>q. QED
  BY <1>2, <1>3

\* SET_JNL_SEQNO commits the reservation.
LEMMA CommitSim ==
    ASSUME IInv, IInv', NEW p \in Pids, SET_JNL_SEQNO(p)
    PROVE  Log!Next
<1> DEFINE e == [process_id |-> p, start_write_addr |-> MySlot(p).start_write_addr,
                 tot_jrec_len |-> MySlot(p).tot_jrec_len]
           b == [start_write_addr |-> LogEnd(Len(log)), tot_jrec_len |-> lastwrite_len]
           Entry == [process_id : Pids, start_write_addr : Nat, tot_jrec_len : Nat]
           T == [start_write_addr : Nat, tot_jrec_len : Nat]
<1>1. /\ p \in alive /\ pc[p] \in {"reserved", "written"} /\ log' = Append(log, e)
      /\ UNCHANGED <<write_addr, rsrv_write_addr, lastwrite_len>>
  BY DEF SET_JNL_SEQNO, Ready
<1>2. Owner = p /\ Stage = pc[p]
  BY <1>1, OwnerIs DEF IInv, CritPoints, Points
<1>3. /\ SlotIs(Decr(phase2_commit_index2), Len(log) + 1) /\ MySlot(p) = LastCmt
      /\ rsrv_write_addr = EndOf(LastCmt) /\ lastwrite_len = LastCmt.tot_jrec_len
  BY <1>1, <1>2 DEF IInv, ReserveInv, Reserved, MySlot, LastCmt
<1>4. /\ MySlot(p).start_write_addr = LogEnd(Len(log)) /\ MySlot(p).tot_jrec_len = lastwrite_len
      /\ lastwrite_len \in Lens /\ rsrv_write_addr = LogEnd(Len(log)) + lastwrite_len
  BY <1>3, LogType DEF IInv, SlotIs, LastCmt, EndOf
<1>5. /\ Len(log) \in Nat /\ Len(log') = Len(log) + 1 /\ DOMAIN log' = 1 .. Len(log) + 1
      /\ \A s \in 1 .. Len(log) : log'[s] = log[s]
      /\ log'[Len(log) + 1] = e /\ DOMAIN log = 1 .. Len(log)
  <2>1. log \in Seq(Entry)
    BY DEF IInv, TypeOK
  <2>2. e \in Entry
    BY MySlotType DEF IInv, Slot
  <2> HIDE DEF e, Entry
  <2>q. QED
    BY <1>1, <2>1, <2>2
<1>6. Bar' = Append(Bar, b)
  <2>0. TypeOK /\ TypeOK'
    BY DEF IInv
  <2>1. /\ Bar \in Seq(T) /\ Len(Bar) = Len(log) /\ DOMAIN Bar = 1 .. Len(log)
        /\ Bar' \in Seq(T) /\ Len(Bar') = Len(log) + 1 /\ DOMAIN Bar' = 1 .. Len(log) + 1
    <3>1. /\ Bar \in Seq(T) /\ Len(Bar) = Len(log) /\ DOMAIN Bar = 1 .. Len(log)
      BY <2>0, BarIs
    <3>2. TypeOK' => (Bar \in Seq(T) /\ Len(Bar) = Len(log) /\ DOMAIN Bar = 1 .. Len(log))'
      BY BarIs, PTL
    <3>q. QED
      BY <1>5, <2>0, <3>1, <3>2
  <2>2. b \in T
    BY <1>4, LogType, LensPositive DEF IInv
  <2>3. \A s \in 1 .. Len(log) : Bar'[s] = Bar[s]
    BY <1>5 DEF Bar
  <2>4. \A s : s = Len(log) + 1 => Bar'[s] = b
    BY <1>4, <1>5 DEF Bar
  <2> HIDE DEF b, T
  <2>5. /\ Append(Bar, b) \in Seq(T) /\ Len(Append(Bar, b)) = Len(log) + 1
        /\ \A s \in 1 .. Len(log) : Append(Bar, b)[s] = Bar[s]
        /\ Append(Bar, b)[Len(log) + 1] = b
    BY <2>1, <2>2, <1>5
  <2>6. \A s \in 1 .. Len(log) + 1 : Bar'[s] = Append(Bar, b)[s]
    BY <2>3, <2>4, <2>5, <1>5
  <2>q. QED
    BY <2>1, <2>5, <2>6, <1>5
<1>7. Log!End(Len(Bar)) = LogEnd(Len(log)) /\ Len(Bar) = Len(log)
  BY BarIs, LogType DEF IInv
<1>8. Log!Commit
  BY <1>1, <1>4, <1>6, <1>7 DEF Log!Commit, Bar
<1>q. QED
  BY <1>8 DEF Log!Next

\* t_commit_cleanup and mutex_clean_dead_owner give the reservation up.
LEMMA AbortSim ==
    ASSUME IInv, IInv', NEW p \in Pids, t_commit_cleanup(p) \/ mutex_clean_dead_owner(p)
    PROVE  Log!Next
<1>1. /\ p \in alive /\ pc[p] \in {"error", "salvage"}
      /\ UNCHANGED <<log, write_addr, crit, alive>>
      /\ \/ pc' = [pc EXCEPT ![p] = "undo"] \/ pc' = [pc EXCEPT ![p] = "leave"]
         \/ pc' = [pc EXCEPT ![p] = "locked"]
  <2>1. CASE t_commit_cleanup(p)
    <3>1. pc' = [pc EXCEPT ![p] = "undo"] \/ pc' = [pc EXCEPT ![p] = "leave"]
      BY <2>1, Zenon DEF t_commit_cleanup, GoTo
    <3>q. QED
      BY <2>1, <3>1 DEF t_commit_cleanup, Ready, lockVars
  <2>2. CASE mutex_clean_dead_owner(p)
    BY <2>2 DEF mutex_clean_dead_owner, Ready, GoTo
  <2>q. QED
    BY <2>1, <2>2
<1>2. crit = p /\ p # NoPid /\ p \in Pids
  BY <1>1, JnlPoolAssumption DEF IInv, LockInv, CritPoints, Points, TypeOK
<1>3. Stage' \notin (Filling \union Reserved) \ {"undo"}
  BY <1>1, <1>2 DEF Stage, Owner, Filling, Reserved, IInv, TypeOK
<1>4. rsrv_write_addr' = LogEnd(Len(log))' /\ lastwrite_len' = LenOf(Len(log))'
  BY <1>3 DEF IInv, ReserveInv, Filling, Reserved
<1>5. rsrv_write_addr' = LogEnd(Len(log)) /\ lastwrite_len' = LenOf(Len(log))
  BY <1>1, <1>4 DEF LogEnd, LenOf
<1>6. /\ Log!End(Len(Bar)) = LogEnd(Len(log)) /\ Log!LastLen = LenOf(Len(log))
      /\ Len(Bar) = Len(log)
  BY BarIs, LogType DEF IInv
<1>7. Log!Abort
  BY <1>1, <1>5, <1>6 DEF Log!Abort, Bar
<1>q. QED
  BY <1>7 DEF Log!Next

\* repl_phase2_cleanup publishes more transactions, or none.
LEMMA PublishSim ==
    ASSUME IInv, BGInv, NEW p \in Pids, CleanupPublish(p)
    PROVE  Log!Next \/ UNCHANGED Log!logVars
<1>0. TypeOK /\ LockInv /\ PoolInv /\ write_addr \in Nat
  BY DEF IInv, PoolInv, TypeOK
<1>1. PICK k \in 0 .. D :
         /\ First + k - 1 <= IF Stage = "written" THEN Len(log) + 1 ELSE Len(log)
         /\ \A w \in 0 .. Len(log) + 1 : PublishedUpTo(w) => w <= First + k - 1
         /\ k = 0 => UNCHANGED write_addr
         /\ k # 0 => write_addr' = AddrEnd(First + k - 1)
  BY <1>0, PublishFacts
<1>2. UNCHANGED <<log, rsrv_write_addr, lastwrite_len>>
  BY DEF CleanupPublish
<1>3. PICK w \in 0 .. Len(log) + 1 : PublishedUpTo(w)
  BY DEF IInv, PubInv
<1>4. /\ D \in Nat /\ First \in Int /\ First >= 1 /\ Len(log) \in Nat
  BY <1>0, RingValues, LogType, JnlPoolAssumption DEF PoolInv, RingInv
<1>5. Stage # "written"
  BY <1>0, JnlPoolAssumption DEF BGInv, Stage, Owner, TypeOK
<1>6. CASE k = 0
  BY <1>1, <1>2, <1>6, Stutter
<1>7. CASE k # 0
  <2>1. PICK s \in 1 .. Len(log) : s = First + k - 1
    BY <1>1, <1>4, <1>5, <1>7
  <2>2. w <= s /\ w <= Len(log)
    BY <1>1, <1>3, <1>4, <2>1
  <2>3. write_addr' = LogEnd(s) /\ write_addr = LogEnd(w)
    BY <1>1, <1>3, <1>7, <2>1, <2>2 DEF AddrEnd, PublishedUpTo
  <2>4. CASE w = s
    BY <1>2, <2>3, <2>4, Stutter
  <2>5. CASE w < s
    <3>1. LogEnd(w) < LogEnd(s)
      BY <1>0, <1>4, <2>2, <2>5 DEF PoolInv, LogInv
    <3>2. Log!End(s) = LogEnd(s) /\ s \in DOMAIN Bar
      BY <1>0, <1>4, BarIs
    <3>3. Log!Publish
      BY <1>2, <2>3, <3>1, <3>2 DEF Log!Publish, Bar
    <3>q. QED
      BY <3>3 DEF Log!Next
  <2>q. QED
    BY <1>4, <2>2, <2>4, <2>5
<1>q. QED
  BY <1>6, <1>7

\* Every step of the pool is a step of CommitLog or changes nothing there.
LEMMA NextSim ==
    ASSUME IInv, IInv', BGInv, [Next]_vars
    PROVE  [Log!Next]_(Log!logVars)
<1>1. CASE UNCHANGED vars \/ Quiescent
  BY <1>1, Stutter DEF Quiescent, vars, jplVars
<1>2. ASSUME NEW p \in Pids, Step(p) \/ Mishap(p) PROVE Log!Next \/ UNCHANGED Log!logVars
  <2>1. CASE SetLastwriteLen(p) \/ SetRsrvWriteAddr(p)
    BY <2>1, ReserveSim
  <2>2. CASE SET_JNL_SEQNO(p)
    BY <2>2, CommitSim
  <2>3. CASE t_commit_cleanup(p) \/ mutex_clean_dead_owner(p)
    BY <2>3, AbortSim
  <2>4. CASE CleanupPublish(p)
    BY <2>4, PublishSim
  <2>5. CASE \/ Lock(p) \/ LockOwnerDead(p) \/ NoteInCrit(p) \/ ClearInCrit(p) \/ Unlock(p)
             \/ InstanceFrozen(p) \/ ArrayFull(p) \/ WaitForRoom(p) \/ CommitError(p)
             \/ SourcePoll(p) \/ SourceSalvage(p) \/ Kill(p)
    BY <2>5, Stutter DEF jplVars, Lock, LockOwnerDead, NoteInCrit, ClearInCrit, Unlock,
       InstanceFrozen, ArrayFull, WaitForRoom, CommitError, SourcePoll, SourceSalvage, Kill
  <2>6. CASE \/ \E len \in Lens, when \in WhenWritten : FillSlot(p, len, when)
             \/ SetIndex2(p) \/ jpl_phase2_write_complete(p) \/ RemoveSlot(p)
             \/ CleanupLatch(p) \/ CleanupFree(p)
    BY <2>6, Stutter DEF jplVars, FillSlot, SetIndex2, jpl_phase2_write_complete, RemoveSlot,
       CleanupLatch, CleanupFree
  <2>q. QED
    BY <1>2, <2>1, <2>2, <2>3, <2>4, <2>5, <2>6 DEF Step, Mishap
<1>q. QED
  BY <1>1, <1>2 DEF Next

\* The slots, the latch, the rollback and the salvage together do what CommitLog says: space
\* is reserved behind the last transaction, committed or given back, and whole transactions
\* are published in order.
THEOREM Refinement ==
    ASSUME CleanFaults, "before_seqno" \notin WhenWritten
    PROVE  Spec => ImplementsCommitLog
<1>1. Init => Log!Init
  <2> SUFFICES ASSUME Init PROVE Log!Init
    OBVIOUS
  <2>1. log = << >>
    BY DEF Init
  <2>2. Bar = << >>
    BY <2>1 DEF Bar
  <2>q. QED
    BY <2>2 DEF Init, Log!Init, Bar
<1>2. IInv /\ BGInv /\ [Next]_vars => BGInv'
  BY NextBG DEF IInv
<1>3. IInv /\ IInv' /\ BGInv /\ [Next]_vars => [Log!Next]_(Log!logVars)
  BY NextSim
<1>q. QED
  BY <1>1, <1>2, <1>3, InitBG, PoolInvariant, PTL DEF Spec, ImplementsCommitLog, Log!Spec
============================================================================

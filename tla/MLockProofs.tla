---------------------------- MODULE MLockProofs ----------------------------
(***************************************************************************)
(* Proofs about MLock, for every set of processes, tree of names, size of  *)
(* the lock space and number of commands, kills and exits.                 *)
(***************************************************************************)
EXTENDS MLock, TLAPS, FiniteSetTheorems, WellFoundedInduction

----------------------------------------------------------------------------
(* Exclusion.  A lock is granted when no live process owns a prefix of the *)
(* name, and, if there are longer names in the tree, none of those.  That  *)
(* this is enough needs one more fact: what is not in the tree is not      *)
(* owned.                                                                  *)

OwnerType == owner \in [Nodes -> Pids \union {NoPid}] /\ alive \subseteq Pids

OwnedInTree == \A n \in Nodes \ tree : owner[n] = NoPid

ExclInv == OwnerType /\ OwnedInTree /\ LockExclusion

\* Locks are only given up.
OwnersShrink ==
    /\ owner' \in [Nodes -> Pids \union {NoPid}]
    /\ \A n \in Nodes : owner'[n] \in {owner[n], NoPid}
    /\ \A n \in tree \ tree' : n \in Nodes => owner'[n] = NoPid
    /\ alive' \subseteq alive

\* A step that only gives locks up preserves exclusion.
LEMMA ShrinkExcl == ExclInv /\ OwnersShrink => ExclInv'
<1> SUFFICES ASSUME ExclInv, OwnersShrink PROVE ExclInv'
  OBVIOUS
<1> USE DEF ExclInv, OwnerType, OwnersShrink
<1>1. OwnerType'
  OBVIOUS
<1>2. OwnedInTree'
  BY DEF OwnedInTree
<1>3. LockExclusion'
  BY MLockAssumption DEF LockExclusion, Related
<1> QED BY <1>1, <1>2, <1>3

\* mlk_unlock, which all releases with crit use, gives up one lock at most.
LEMMA UnlockShrinks ==
    ASSUME ExclInv, NEW p \in Pids, NEW n, mlk_unlock(p, n),
           alive' \subseteq alive
    PROVE  OwnersShrink
<1>1. owner' \in [Nodes -> Pids \union {NoPid}]
  BY DEF ExclInv, OwnerType, mlk_unlock
<1>2. \A m \in Nodes : owner'[m] \in {owner[m], NoPid}
  BY DEF ExclInv, OwnerType, mlk_unlock
<1>3. \A m \in tree \ tree' : m \in Nodes => owner'[m] = NoPid
  BY DEF ExclInv, OwnerType, mlk_unlock, DeletedBy
<1> QED BY <1>1, <1>2, <1>3 DEF OwnersShrink

\* mlk_lock takes the lock from nobody, and only a lock that nobody live is using,
\* above or below.
LEMMA LockExcl ==
    ASSUME ExclInv, NEW p \in Pids, NEW isNew \in BOOLEAN, mlk_lock(p, isNew),
           p \in alive, alive' = alive
    PROVE  ExclInv'
<1> DEFINE n == Target(p)
           taken == IF Grantable(p, n) THEN {n} ELSE {}
<1>1. PICK F : /\ F \subseteq {d \in Nodes : owner[d] \in Pids \ alive} \union DeadOwned(Path(n))
               /\ owner' = [d \in Nodes |-> IF d \in taken THEN p
                                            ELSE IF d \in F THEN NoPid
                                            ELSE owner[d]]
  BY DEF mlk_lock, Freed, DeadOwned, Under
<1>2. OwnerType'
  BY <1>1 DEF ExclInv, OwnerType
<1>3. OwnedInTree'
  <2>1. tree \subseteq tree' /\ (taken # {} => n \in tree')
    BY DEF mlk_lock, Grantable, Path
  <2> QED BY <1>1, <2>1 DEF ExclInv, OwnedInTree
<1>4. ASSUME NEW k \in Nodes, Grantable(p, n), k \in Path(n) \/ k \in Under(n),
             owner[k] \in alive
      PROVE  owner[k] = p
  <2>1. CASE k \in Path(n)
    BY <1>4, <2>1 DEF Grantable, Blockers, LiveOther
  <2>2. CASE k \in Under(n) /\ Under(n) \intersect tree = {}
    BY <1>4, <2>2, MLockAssumption DEF ExclInv, OwnerType, OwnedInTree
  <2>3. CASE k \in Under(n) /\ Under(n) \intersect tree # {}
    <3>1. Searched(p, n)
      BY <1>4, <2>3 DEF Grantable, Searched
    <3>2. k \notin ChildBlockers(p, n)
      BY <1>4 DEF Grantable
    <3> QED BY <1>4, <2>3, <3>1, <3>2 DEF ChildBlockers, LiveOther
  <2> QED BY <1>4, <2>1, <2>2, <2>3
<1>5. LockExclusion'
  <2> SUFFICES ASSUME NEW m \in Nodes, NEW k \in Nodes, Related(m, k),
                      owner'[m] \in alive, owner'[k] \in alive
               PROVE  owner'[m] = owner'[k]
    BY DEF LockExclusion
  <2>1. \A d \in Nodes : /\ d \in taken => owner'[d] = p
                         /\ d \notin taken /\ owner'[d] \in alive => owner'[d] = owner[d]
    BY <1>1, MLockAssumption DEF ExclInv, OwnerType
  <2>2. CASE m \notin taken /\ k \notin taken
    BY <2>1, <2>2 DEF ExclInv, LockExclusion
  <2>3. CASE m \in taken /\ k \in taken
    BY <2>1, <2>3
  <2>4. CASE m \in taken /\ k \notin taken
    <3>1. m = n /\ Grantable(p, n)
      BY <2>4
    <3>2. k \in Path(n) \/ k \in Under(n)
      BY <3>1, <2>4 DEF Related, Path, Under
    <3> HIDE DEF n, taken
    <3> QED BY <2>1, <2>4, <3>1, <3>2, <1>4
  <2>5. CASE m \notin taken /\ k \in taken
    <3>1. k = n /\ Grantable(p, n)
      BY <2>5
    <3>2. m \in Path(n) \/ m \in Under(n)
      BY <3>1, <2>5 DEF Related, Path, Under
    <3> HIDE DEF n, taken
    <3> QED BY <2>1, <2>5, <3>1, <3>2, <1>4
  <2> HIDE DEF taken
  <2> QED BY <2>2, <2>3, <2>4, <2>5
<1> QED BY <1>2, <1>3, <1>5 DEF ExclInv

\* Steps that do not touch the tree of locks.
LEMMA SameExcl == ExclInv /\ UNCHANGED <<shmVars, alive>> => ExclInv'
BY DEF ExclInv, OwnerType, OwnedInTree, LockExclusion, shmVars

\* Each action preserves exclusion.
LEMMA StepExcl == ASSUME ExclInv, NEW p \in Pids, Step(p) PROVE ExclInv'
<1> USE DEF lifeVars
<1>1. CASE TryAlready(p)
  BY <1>1, SameExcl DEF TryAlready, Obtained
<1>2. CASE TryGot(p)
  BY <1>2, LockExcl DEF TryGot, Obtained, Locking, At
<1>3. CASE TryBlocked(p)
  BY <1>3, LockExcl DEF TryBlocked, Locking, At
<1>4. CASE mlk_bckout(p)
  <2>1. alive' = alive
    BY <1>4 DEF mlk_bckout
  <2>2. CASE mlk_unlock(p, req[p][bck[p] + 1])
    BY <2>1, <2>2, UnlockShrinks, ShrinkExcl
  <2>3. CASE UNCHANGED shmVars
    BY <2>1, <2>3, SameExcl
  <2> QED BY <1>4, <2>2, <2>3 DEF mlk_bckout
<1>5. CASE TimedOut(p)
  <2>1. OwnersShrink
    BY <1>5 DEF TimedOut, ClearAbandoned, OwnersShrink, ExclInv, OwnerType
  <2> QED BY <2>1, ShrinkExcl
<1>6. CASE mlk_unpend(p)
  <2>1. OwnersShrink
    BY <1>6 DEF mlk_unpend, OwnersShrink, ExclInv, OwnerType
  <2> QED BY <2>1, ShrinkExcl
<1>7. CASE WakeUp(p)
  BY <1>7, SameExcl DEF WakeUp
<1>8. CASE RetryGot(p)
  BY <1>8, LockExcl DEF RetryGot, Locking, At
<1>9. CASE Undo(p)
  BY <1>9, UnlockShrinks, ShrinkExcl DEF Undo
<1>10. CASE RetryBlocked(p)
  BY <1>10, LockExcl DEF RetryBlocked, Locking, At
<1>11. CASE CheckOwn(p)
  <2>1. OwnersShrink
    BY <1>11 DEF CheckOwn, ClearAbandoned, OwnersShrink, ExclInv, OwnerType
  <2> QED BY <2>1, ShrinkExcl
<1>12. CASE StartGC(p)
  BY <1>12, SameExcl DEF StartGC
<1>13. CASE prepare_for_gc(p)
  BY <1>13, SameExcl DEF prepare_for_gc
<1>14. CASE GcNotNeeded(p)
  BY <1>14, SameExcl DEF GcNotNeeded
<1>15. CASE fill_pid_table(p)
  BY <1>15, SameExcl DEF fill_pid_table
<1>16. CASE check_pids(p)
  BY <1>16, SameExcl DEF check_pids
<1>17. CASE clean_pids(p)
  <2>1. OwnersShrink
    BY <1>17 DEF clean_pids, OwnersShrink, ExclInv, OwnerType
  <2> QED BY <2>1, ShrinkExcl
<1>18. ASSUME NEW n \in Nodes, Release(p, n) PROVE ExclInv'
  BY <1>18, UnlockShrinks, ShrinkExcl DEF Release
<1>19. ASSUME NEW n \in Nodes, mlk_nocrit_unlock(p, n) PROVE ExclInv'
  <2>1. OwnersShrink
    BY <1>19 DEF mlk_nocrit_unlock, OwnersShrink, ExclInv, OwnerType
  <2> QED BY <2>1, ShrinkExcl
<1>20. CASE NocritOwner(p)
  <2>1. OwnersShrink
    BY <1>20 DEF NocritOwner, OwnersShrink, ExclInv, OwnerType
  <2> QED BY <2>1, ShrinkExcl
<1>21. CASE NocritSequence(p)
  BY <1>21, SameExcl DEF NocritSequence
<1>22. CASE ExitDone(p)
  <2>1. OwnersShrink
    BY <1>22 DEF ExitDone, Gone, shmVars, OwnersShrink, ExclInv, OwnerType
  <2> QED BY <2>1, ShrinkExcl
<1> QED
  BY <1>1, <1>2, <1>3, <1>4, <1>5, <1>6, <1>7, <1>8, <1>9, <1>10, <1>11,
     <1>12, <1>13, <1>14, <1>15, <1>16, <1>17, <1>18, <1>19, <1>20, <1>21, <1>22
  DEF Step

\* ... and so does what the application and its user do.
LEMMA ApplicationExcl ==
    ASSUME ExclInv, NEW p \in Pids, Application(p) PROVE ExclInv'
<1> USE DEF lifeVars
<1>1. ASSUME NEW r \in Requests, NEW w \in Waits, Request(p, r, w) PROVE ExclInv'
  BY <1>1, SameExcl DEF Request
<1>2. CASE op_unlock(p)
  BY <1>2, SameExcl DEF op_unlock
<1>3. ASSUME NEW n \in Nodes, op_decrlock(p, n) PROVE ExclInv'
  <2>1. alive' = alive
    BY <1>3 DEF op_decrlock
  <2>2. CASE mlk_unlock(p, n)
    BY <2>1, <2>2, UnlockShrinks, ShrinkExcl
  <2>3. CASE UNCHANGED shmVars
    BY <2>1, <2>3, SameExcl
  <2> QED BY <1>3, <2>2, <2>3 DEF op_decrlock
<1>4. CASE Expire(p)
  BY <1>4, SameExcl DEF Expire
<1>5. CASE Interrupt(p)
  BY <1>5, SameExcl DEF Interrupt
<1>6. CASE Exit(p)
  BY <1>6, SameExcl DEF Exit
<1>7. CASE Kill(p)
  <2>1. OwnersShrink
    BY <1>7 DEF Kill, Gone, shmVars, OwnersShrink, ExclInv, OwnerType
  <2> QED BY <2>1, ShrinkExcl
<1> QED
  BY <1>1, <1>2, <1>3, <1>4, <1>5, <1>6, <1>7 DEF Application

\* Exclusion and what it rests on hold in every state.
LEMMA ExclHolds == Spec => []ExclInv
<1>1. Init => ExclInv
  BY MLockAssumption DEF Init, ExclInv, OwnerType, OwnedInTree, LockExclusion
<1>2. ExclInv /\ [Next]_vars => ExclInv'
  <2> SUFFICES ASSUME ExclInv, [Next]_vars PROVE ExclInv'
    OBVIOUS
  <2>1. CASE UNCHANGED vars
    BY <2>1, SameExcl DEF vars, lifeVars
  <2>2. CASE Quiescent
    BY <2>1, <2>2 DEF Quiescent
  <2>3. ASSUME NEW p \in Pids, Step(p) \/ Application(p) PROVE ExclInv'
    BY <2>3, StepExcl, ApplicationExcl
  <2> QED BY <2>1, <2>2, <2>3 DEF Next
<1> QED BY <1>1, <1>2, PTL DEF Spec

\* Two live processes never own locks of which one name extends the other, whatever
\* is killed, exits or is collected when (the stores of mlk_nocrit_unlock may even
\* be swapped).
THEOREM Exclusion == Spec => []LockExclusion
<1>1. ExclInv => LockExclusion
  BY DEF ExclInv
<1> QED BY <1>1, ExclHolds, PTL

----------------------------------------------------------------------------
(* A process owns exactly the locks it believes it holds.  The invariant   *)
(* follows a command through its pass over the names (all before idx are   *)
(* held), the wait (the name waited for is not held), the undoing (those   *)
(* from bck on are still held), garbage collection (only dead processes    *)
(* lose locks) and exit.                                                   *)

PrivType ==
    /\ pc \in [Pids -> Points]
    /\ req \in [Pids -> Seq(Nodes)]
    /\ idx \in [Pids -> Nat] /\ bck \in [Pids -> Nat]
    /\ new \in [Pids -> BOOLEAN]
    /\ already \in [Pids -> Nodes \union {NoNode}]
    /\ dead \in [Pids -> SUBSET Pids]
    /\ level \in [Pids -> [Nodes -> Nat]]

GcPoints == {"gc", "fill", "check", "clean", "find"}

InPass(p) == pc[p] = "try" \/ (pc[p] \in GcPoints /\ new[p])

InWait(p) ==
    \/ pc[p] \in {"bckout", "wait", "sleep", "retry", "own", "undo", "unpend"}
    \/ pc[p] \in GcPoints /\ ~new[p]

CmdOK(p) ==
    /\ InPass(p) \/ InWait(p) =>
          /\ req[p] \in Requests
          /\ idx[p] \in DOMAIN req[p]
          /\ already[p] \in {NoNode, req[p][1]}
    /\ InPass(p) =>
          \A i \in DOMAIN req[p] : i < idx[p] => level[p][req[p][i]] > 0
    /\ InWait(p) => level[p][Target(p)] = 0
    /\ pc[p] = "bckout" =>
          /\ bck[p] + 1 < idx[p]
          /\ \A i \in DOMAIN req[p] :
                bck[p] < i /\ i < idx[p] => level[p][req[p][i]] > 0
    /\ pc[p] # "bckout" => bck[p] = 0
    /\ pc[p] = "clean" => dead[p] \intersect alive = {}
    /\ pc[p] = "exit_owner" => Target(p) \in Nodes /\ owner[Target(p)] = p
    /\ pc[p] # "exit_sequence"

MyLocks(p) == {n \in Nodes : owner[n] = p}

Own(p) ==
    ~Exiting(p) => /\ MyLocks(p) = Holds(p) \union InTransit(p)
                   /\ MyLocks(p) \subseteq valid

HeldInv == OwnerType /\ PrivType /\ \A p \in alive : CmdOK(p) /\ Own(p)

\* A step of p leaves the locks of the other live processes alone ...
Undisturbed(p) ==
    \A n \in Nodes :
        /\ owner[n] \in alive \ {p} => owner'[n] = owner[n] /\ (n \in valid => n \in valid')
        /\ owner'[n] \in alive \ {p} => owner'[n] = owner[n]

\* ... and their private variables.
Private(p) ==
    \A q \in Pids \ {p} :
        /\ pc'[q] = pc[q] /\ req'[q] = req[q] /\ idx'[q] = idx[q]
        /\ bck'[q] = bck[q] /\ new'[q] = new[q] /\ already'[q] = already[q]
        /\ dead'[q] = dead[q] /\ level'[q] = level[q]

\* What is true of a process stays true if a step of another one leaves its state
\* and its locks alone.
LEMMA Others ==
    ASSUME HeldInv, OwnerType', NEW p \in Pids, Undisturbed(p), Private(p),
           alive' \subseteq alive
    PROVE  \A q \in alive' \ {p} : CmdOK(q)' /\ Own(q)'
<1> SUFFICES ASSUME NEW q \in alive' \ {p} PROVE CmdOK(q)' /\ Own(q)'
  OBVIOUS
<1>1. q \in Pids \ {p} /\ q \in alive /\ CmdOK(q) /\ Own(q)
  BY DEF HeldInv, OwnerType
<1>2. /\ pc'[q] = pc[q] /\ req'[q] = req[q] /\ idx'[q] = idx[q]
      /\ bck'[q] = bck[q] /\ new'[q] = new[q] /\ already'[q] = already[q]
      /\ dead'[q] = dead[q] /\ level'[q] = level[q]
  BY <1>1 DEF Private
<1>3. MyLocks(q)' = MyLocks(q) /\ (MyLocks(q) \subseteq valid => MyLocks(q) \subseteq valid')
  BY <1>1 DEF MyLocks, Undisturbed
<1>4. Own(q)'
  BY <1>1, <1>2, <1>3 DEF Own, Exiting, Holds, InTransit, Target
<1>5. pc[q] = "exit_owner" => Target(q) \in Nodes /\ owner'[Target(q)] = q
  BY <1>1 DEF CmdOK, Undisturbed
<1>6. CmdOK(q)'
  BY <1>1, <1>2, <1>5 DEF CmdOK, InPass, InWait, Target
<1> QED BY <1>4, <1>6

\* What mlk_lock does to the locks p owns.
LEMMA LockMine ==
    ASSUME OwnerType, NEW p \in alive, NEW isNew, mlk_lock(p, isNew), alive' = alive,
           Target(p) \in Nodes, MyLocks(p) \subseteq valid
    PROVE  /\ OwnerType' /\ Undisturbed(p)
           /\ Got(p, Target(p)) => MyLocks(p)' = MyLocks(p) \union {Target(p)}
           /\ ~Got(p, Target(p)) => MyLocks(p)' = MyLocks(p) /\ Target(p) \notin MyLocks(p)
           /\ MyLocks(p)' \subseteq valid'
<1> DEFINE n == Target(p)
           taken == IF Grantable(p, n) THEN {n} ELSE {}
<1>1. PICK F : /\ \A d \in F : owner[d] \in Pids \ alive
               /\ owner' = [d \in Nodes |-> IF d \in taken THEN p
                                            ELSE IF d \in F THEN NoPid
                                            ELSE owner[d]]
               /\ valid' = (valid \ (F \union (Yields(p, n) \union taken))) \union taken
  BY DEF mlk_lock, Freed, DeadOwned
<1>2. \A d \in Yields(p, n) : owner[d] = NoPid
  BY DEF Yields, YieldsAt
<1>3. taken # {} => ~LiveOther(p, n) /\ owner[n] # p
  BY DEF Grantable, Blockers, Path
<1>4. Got(p, n) => (taken = {n} \/ owner[n] = p)
  BY DEF Got
<1>5. ~Got(p, n) => (taken = {} /\ owner[n] # p)
  BY DEF Got
<1>6. taken \subseteq {n} /\ n \in Nodes
  OBVIOUS
<1> HIDE DEF taken, n
<1>7. OwnerType'
  BY <1>1 DEF OwnerType
<1>8. Undisturbed(p)
  BY <1>1, <1>2, <1>3, <1>6, MLockAssumption DEF OwnerType, Undisturbed, LiveOther
<1>9. \A d \in Nodes : owner'[d] = p <=> (owner[d] = p \/ d \in taken)
  BY <1>1, MLockAssumption DEF OwnerType
<1>10. MyLocks(p)' = MyLocks(p) \union taken
  BY <1>6, <1>9 DEF MyLocks
<1>11. MyLocks(p)' \subseteq valid'
  BY <1>1, <1>2, <1>10, MLockAssumption DEF MyLocks, OwnerType
<1> QED BY <1>4, <1>5, <1>6, <1>7, <1>8, <1>10, <1>11 DEF MyLocks, n

\* What mlk_unlock does to them.
LEMMA UnlockMine ==
    ASSUME OwnerType, NEW p \in alive, NEW n \in MyLocks(p), mlk_unlock(p, n),
           alive' = alive, MyLocks(p) \subseteq valid
    PROVE  /\ OwnerType' /\ Undisturbed(p)
           /\ MyLocks(p)' = MyLocks(p) \ {n}
           /\ MyLocks(p)' \subseteq valid'
<1>1. owner' = [owner EXCEPT ![n] = NoPid] /\ valid' = valid \ {n}
  BY DEF mlk_unlock, MyLocks
<1>2. n \in Nodes /\ owner[n] = p /\ p \in Pids /\ p # NoPid
  BY MLockAssumption DEF MyLocks, OwnerType
<1> QED BY <1>1, <1>2, MLockAssumption DEF OwnerType, Undisturbed, MyLocks

\* Which names a process holds once one more is granted, as op_lock2 does it ...
LEMMA HoldsMore ==
    ASSUME PrivType, NEW p \in Pids, NEW n \in Nodes,
           level' = [level EXCEPT ![p][n] = @ + 1]
    PROVE  Holds(p)' = Holds(p) \union {n} /\ level' \in [Pids -> [Nodes -> Nat]]
BY DEF Holds, PrivType

\* ... when a level goes down by one, as in mlk_bckout and op_decrlock ...
LEMMA HoldsLess ==
    ASSUME PrivType, NEW p \in Pids, NEW n \in Nodes, level[p][n] > 0,
           level' = [level EXCEPT ![p][n] = @ - 1]
    PROVE  /\ Holds(p)' = IF level[p][n] = 1 THEN Holds(p) \ {n} ELSE Holds(p)
           /\ level' \in [Pids -> [Nodes -> Nat]]
BY DEF Holds, PrivType

\* ... and when the private block is deleted.
LEMMA HoldsNot ==
    ASSUME PrivType, NEW p \in Pids, NEW n \in Nodes, Forget(p, n)
    PROVE  Holds(p)' = Holds(p) \ {n} /\ level' \in [Pids -> [Nodes -> Nat]]
BY DEF Holds, PrivType, Forget

\* The target of a command is a name.
LEMMA Targets ==
    ASSUME HeldInv, NEW p \in alive, InPass(p) \/ InWait(p)
    PROVE  /\ req[p] \in Seq(Nodes) /\ Len(req[p]) \in Nat
           /\ DOMAIN req[p] = 1..Len(req[p]) /\ 1 \in DOMAIN req[p]
           /\ idx[p] \in DOMAIN req[p] /\ Target(p) \in Nodes
           /\ \A i \in DOMAIN req[p] : req[p][i] \in Nodes
           /\ \A i, j \in DOMAIN req[p] : req[p][i] = req[p][j] => i = j
<1>1. req[p] \in Requests /\ idx[p] \in DOMAIN req[p]
  BY DEF HeldInv, CmdOK
<1>2. req[p] \in Seq(Nodes)
  BY <1>1, MLockAssumption
<1> QED BY <1>1, <1>2, MLockAssumption DEF Target

\* A step of p preserves the invariant if it does so for p and leaves the others
\* alone.
LEMMA Combine ==
    ASSUME HeldInv, NEW p \in alive, OwnerType', PrivType', Undisturbed(p),
           Private(p), alive' = alive, CmdOK(p)', Own(p)'
    PROVE  HeldInv'
<1>1. \A q \in alive' \ {p} : CmdOK(q)' /\ Own(q)'
  BY Others DEF HeldInv, OwnerType
<1> QED BY <1>1 DEF HeldInv

\* A step that changes no lock, only where p is in its command.
LEMMA Quiet ==
    ASSUME HeldInv, NEW p \in alive, UNCHANGED <<owner, valid, alive, level>>,
           PrivType', Private(p), CmdOK(p)',
           Exiting(p)' \/ (~Exiting(p) /\ InTransit(p)' = InTransit(p))
    PROVE  HeldInv'
<1>1. OwnerType' /\ Undisturbed(p)
  BY DEF HeldInv, OwnerType, Undisturbed
<1>2. Own(p)'
  BY DEF HeldInv, Own, MyLocks, Holds
<1> QED BY <1>1, <1>2, Combine

\* Garbage collection, waking up, giving up.
LEMMA QuietSteps ==
    ASSUME HeldInv, NEW p \in alive,
           \/ WakeUp(p) \/ StartGC(p) \/ prepare_for_gc(p)
           \/ GcNotNeeded(p) \/ fill_pid_table(p) \/ check_pids(p)
           \/ mlk_unpend(p) \/ Expire(p) \/ Interrupt(p) \/ op_unlock(p)
           \/ Exit(p) \/ (\E r \in Requests, w \in Waits : Request(p, r, w))
    PROVE  HeldInv'
<1> USE DEF lifeVars, cmdVars, pvtVars, shmVars, At, GoTo
<1>0. p \in Pids /\ PrivType /\ CmdOK(p)
  BY DEF HeldInv, OwnerType
<1>1. CASE WakeUp(p)
  <2>1. PrivType' /\ Private(p)
    BY <1>0, <1>1 DEF WakeUp, PrivType, Private, Points
  <2>2. CmdOK(p)'
    BY <1>0, <1>1 DEF WakeUp, PrivType, CmdOK, InPass, InWait, GcPoints, Target
  <2>3. ~Exiting(p) /\ InTransit(p)' = InTransit(p)
    BY <1>0, <1>1 DEF WakeUp, PrivType, Exiting, InTransit
  <2> QED BY <1>1, <2>1, <2>2, <2>3, Quiet DEF WakeUp
<1>2. CASE StartGC(p)
  <2>1. PrivType' /\ Private(p)
    BY <1>0, <1>2 DEF StartGC, PrivType, Private, Points
  <2>2. CmdOK(p)'
    BY <1>0, <1>2 DEF StartGC, PrivType, CmdOK, InPass, InWait, GcPoints, Target
  <2>3. ~Exiting(p) /\ InTransit(p)' = InTransit(p)
    <3>1. pc[p] = "try" /\ idx[p] = 1 => already[p] = NoNode
      BY <1>0, <1>2 DEF StartGC, CmdOK, InPass, Target
    <3> QED BY <1>0, <1>2, <3>1, MLockAssumption DEF StartGC, PrivType, Exiting, InTransit
  <2> QED BY <1>2, <2>1, <2>2, <2>3, Quiet DEF StartGC
<1>3. CASE prepare_for_gc(p)
  <2>1. PrivType' /\ Private(p)
    BY <1>0, <1>3 DEF prepare_for_gc, PrivType, Private, Points
  <2>2. CmdOK(p)'
    BY <1>0, <1>3 DEF prepare_for_gc, PrivType, CmdOK, InPass, InWait, GcPoints, Target
  <2>3. ~Exiting(p) /\ InTransit(p)' = InTransit(p)
    BY <1>0, <1>3 DEF prepare_for_gc, PrivType, Exiting, InTransit
  <2> QED BY <1>3, <2>1, <2>2, <2>3, Quiet DEF prepare_for_gc
<1>4. CASE GcNotNeeded(p)
  <2>1. PrivType' /\ Private(p)
    BY <1>0, <1>4 DEF GcNotNeeded, PrivType, Private, Points
  <2>2. CmdOK(p)'
    BY <1>0, <1>4 DEF GcNotNeeded, PrivType, CmdOK, InPass, InWait, GcPoints, Target
  <2>3. ~Exiting(p) /\ InTransit(p)' = InTransit(p)
    BY <1>0, <1>4 DEF GcNotNeeded, PrivType, Exiting, InTransit
  <2> QED BY <1>4, <2>1, <2>2, <2>3, Quiet DEF GcNotNeeded
<1>5. CASE fill_pid_table(p)
  <2>1. PrivType' /\ Private(p)
    BY <1>0, <1>5 DEF fill_pid_table, PrivType, Private, Points
  <2>2. CmdOK(p)'
    BY <1>0, <1>5 DEF fill_pid_table, PrivType, CmdOK, InPass, InWait, GcPoints, Target
  <2>3. ~Exiting(p) /\ InTransit(p)' = InTransit(p)
    BY <1>0, <1>5 DEF fill_pid_table, PrivType, Exiting, InTransit
  <2> QED BY <1>5, <2>1, <2>2, <2>3, Quiet DEF fill_pid_table
<1>6. CASE check_pids(p)
  <2>1. PrivType' /\ Private(p)
    BY <1>0, <1>6 DEF check_pids, PrivType, Private, Points
  <2>2. CmdOK(p)'
    BY <1>0, <1>6 DEF check_pids, PrivType, CmdOK, InPass, InWait, GcPoints, Target
  <2>3. ~Exiting(p) /\ InTransit(p)' = InTransit(p)
    BY <1>0, <1>6 DEF check_pids, PrivType, Exiting, InTransit
  <2> QED BY <1>6, <2>1, <2>2, <2>3, Quiet DEF check_pids
<1>7. CASE mlk_unpend(p)
  <2>1. PrivType' /\ Private(p)
    BY <1>0, <1>7 DEF mlk_unpend, Leave, PrivType, Private, Points
  <2>2. CmdOK(p)'
    BY <1>0, <1>7 DEF mlk_unpend, Leave, PrivType, CmdOK, InPass, InWait, GcPoints, Target
  <2>3. ~Exiting(p) /\ InTransit(p)' = InTransit(p)
    BY <1>0, <1>7 DEF mlk_unpend, Leave, PrivType, Exiting, InTransit
  <2> QED BY <1>7, <2>1, <2>2, <2>3, Quiet DEF mlk_unpend
<1>8. CASE Expire(p)
  <2>1. PrivType' /\ Private(p)
    BY <1>0, <1>8 DEF Expire, PrivType, Private, Points
  <2>2. CmdOK(p)'
    BY <1>0, <1>8 DEF Expire, PrivType, CmdOK, InPass, InWait, GcPoints, Target
  <2>3. ~Exiting(p) /\ InTransit(p)' = InTransit(p)
    BY <1>0, <1>8 DEF Expire, PrivType, Exiting, InTransit
  <2> QED BY <1>8, <2>1, <2>2, <2>3, Quiet DEF Expire
<1>9. CASE Interrupt(p)
  <2>1. PrivType' /\ Private(p)
    BY <1>0, <1>9 DEF Interrupt, PrivType, Private, Points
  <2>2. CmdOK(p)'
    BY <1>0, <1>9 DEF Interrupt, PrivType, CmdOK, InPass, InWait, GcPoints, Target
  <2>3. ~Exiting(p) /\ InTransit(p)' = InTransit(p)
    BY <1>0, <1>9 DEF Interrupt, PrivType, Exiting, InTransit
  <2> QED BY <1>9, <2>1, <2>2, <2>3, Quiet DEF Interrupt
<1>10. CASE op_unlock(p)
  <2>1. PrivType' /\ Private(p)
    BY <1>0, <1>10 DEF op_unlock, PrivType, Private, Points
  <2>2. CmdOK(p)'
    BY <1>0, <1>10 DEF op_unlock, PrivType, CmdOK, InPass, InWait, GcPoints, Target
  <2>3. ~Exiting(p) /\ InTransit(p)' = InTransit(p)
    BY <1>0, <1>10 DEF op_unlock, PrivType, Exiting, InTransit
  <2> QED BY <1>10, <2>1, <2>2, <2>3, Quiet DEF op_unlock
<1>11. CASE Exit(p)
  <2>1. PrivType' /\ Private(p)
    BY <1>0, <1>11 DEF Exit, PrivType, Private, Points
  <2>2. CmdOK(p)'
    BY <1>0, <1>11 DEF Exit, PrivType, CmdOK, InPass, InWait, GcPoints, Target
  <2>3. Exiting(p)'
    BY <1>0, <1>11 DEF Exit, PrivType, Exiting
  <2> QED BY <1>11, <2>1, <2>2, <2>3, Quiet DEF Exit
<1>12. ASSUME NEW r \in Requests, NEW w \in Waits, Request(p, r, w) PROVE HeldInv'
  <2>0. r \in Seq(Nodes) /\ 1 \in DOMAIN r
    BY MLockAssumption
  <2>1. PrivType' /\ Private(p)
    BY <1>0, <1>12, <2>0 DEF Request, PrivType, Private, Points
  <2>2. CmdOK(p)'
    BY <1>0, <1>12, <2>0 DEF Request, PrivType, CmdOK, InPass, InWait, GcPoints, Target
  <2>3. ~Exiting(p) /\ InTransit(p)' = InTransit(p)
    BY <1>0, <1>12, MLockAssumption DEF Request, PrivType, Exiting, InTransit
  <2> QED BY <1>12, <2>1, <2>2, <2>3, Quiet DEF Request
<1> QED
  BY <1>1, <1>2, <1>3, <1>4, <1>5, <1>6, <1>7, <1>8, <1>9, <1>10, <1>11, <1>12

\* The pass over the names of a command.
LEMMA PassSteps ==
    ASSUME HeldInv, NEW p \in alive, TryAlready(p) \/ TryGot(p) \/ TryBlocked(p)
    PROVE  HeldInv'
<1> USE DEF lifeVars, cmdVars, pvtVars, shmVars, At, GoTo
<1>0. /\ p \in Pids /\ OwnerType /\ PrivType /\ CmdOK(p) /\ Own(p)
      /\ InPass(p) /\ ~Exiting(p) /\ alive' = alive
  BY DEF HeldInv, OwnerType, TryAlready, TryGot, TryBlocked, Locking, Obtained, InPass,
         GcPoints, Exiting
<1>1. /\ Target(p) \in Nodes /\ idx[p] \in 1..Len(req[p]) /\ Len(req[p]) \in Nat
      /\ DOMAIN req[p] = 1..Len(req[p])
      /\ \A i, j \in DOMAIN req[p] : req[p][i] = req[p][j] => i = j
      /\ req[p] \in Seq(Nodes)
      /\ req[p] \in Requests /\ \A i \in DOMAIN req[p] : req[p][i] \in Nodes
  BY <1>0, Targets DEF CmdOK
<1>2. MyLocks(p) = Holds(p) \union InTransit(p) /\ MyLocks(p) \subseteq valid
  BY <1>0 DEF Own
<1>3. ASSUME NEW y, Obtained(p, y) PROVE PrivType' /\ Private(p) /\ CmdOK(p)'
  <2>1. level' \in [Pids -> [Nodes -> Nat]]
    BY <1>0, <1>1, <1>3, HoldsMore DEF Obtained
  <2>2. PrivType'
    <3>1. CASE idx[p] = Len(req[p])
      <4>1. Leave(p) /\ dead' = dead
        BY <1>3, <3>1 DEF Obtained
      <4> QED BY <1>0, <2>1, <4>1 DEF Leave, PrivType, Points
    <3>2. CASE idx[p] # Len(req[p])
      <4>1. /\ idx' = [idx EXCEPT ![p] = @ + 1] /\ pc' = [pc EXCEPT ![p] = "try"]
            /\ UNCHANGED <<req, bck, new, already, dead>>
        BY <1>3, <3>2 DEF Obtained
      <4> QED BY <1>0, <2>1, <4>1 DEF PrivType, Points
    <3> QED BY <3>1, <3>2
  <2>3. Private(p)
    BY <1>0, <1>3 DEF Obtained, Leave, Private, PrivType
  <2>4. \A n \in Nodes : level'[p][n] = IF n = Target(p) THEN level[p][n] + 1
                                       ELSE level[p][n]
    BY <1>0, <1>1, <1>3 DEF Obtained, PrivType
  <2>5. \A i \in DOMAIN req[p] : i < idx[p] + 1 => level'[p][req[p][i]] > 0
    <3> SUFFICES ASSUME NEW i \in DOMAIN req[p], i < idx[p] + 1
                 PROVE  level'[p][req[p][i]] > 0
      OBVIOUS
    <3>1. level[p][req[p][i]] \in Nat /\ req[p][i] \in Nodes
      BY <1>0, <1>1 DEF PrivType
    <3>2. CASE i = idx[p]
      BY <3>1, <3>2, <2>4 DEF Target
    <3>3. CASE i < idx[p]
      BY <1>0, <3>1, <3>3, <2>4 DEF CmdOK
    <3> QED BY <1>1, <3>2, <3>3
  <2>6. CASE idx[p] = Len(req[p])
    <3>1. pc'[p] = "idle" /\ bck'[p] = bck[p] /\ bck[p] = 0
      BY <1>0, <1>3, <2>6 DEF Obtained, Leave, PrivType, CmdOK, InPass, GcPoints
    <3> QED BY <2>2, <2>3, <3>1 DEF CmdOK, InPass, InWait, GcPoints
  <2>7. CASE idx[p] # Len(req[p])
    <3>1. /\ pc'[p] = "try" /\ bck'[p] = bck[p] /\ bck[p] = 0 /\ req'[p] = req[p]
          /\ idx'[p] = idx[p] + 1 /\ already'[p] = already[p]
      BY <1>0, <1>3, <2>7 DEF Obtained, PrivType, CmdOK, InPass, GcPoints
    <3>2. idx[p] + 1 \in DOMAIN req[p]
      BY <1>1, <2>7
    <3>3. already[p] \in {NoNode, req[p][1]}
      BY <1>0 DEF CmdOK
    <3> QED BY <1>1, <2>2, <2>3, <2>5, <3>1, <3>2, <3>3 DEF CmdOK, InPass, InWait, GcPoints
  <2> QED BY <2>6, <2>7
<1>4. ASSUME NEW y, Obtained(p, y)
      PROVE  /\ ~Exiting(p)' /\ InTransit(p)' = {}
             /\ Holds(p)' = Holds(p) \union {Target(p)}
  <2>1. Holds(p)' = Holds(p) \union {Target(p)}
    BY <1>0, <1>1, <1>4, HoldsMore DEF Obtained
  <2>2. pc'[p] = "idle" \/ (pc'[p] = "try" /\ idx'[p] = idx[p] + 1)
    BY <1>0, <1>4 DEF Obtained, Leave, PrivType
  <2> QED BY <1>1, <2>1, <2>2 DEF Exiting, InTransit
<1>5. CASE TryAlready(p)
  <2>1. PICK y : Obtained(p, y)
    BY <1>5 DEF TryAlready
  <2>2. UNCHANGED <<owner, valid>>
    BY <1>5 DEF TryAlready
  <2>3. OwnerType' /\ Undisturbed(p) /\ MyLocks(p)' = MyLocks(p)
    BY <1>0, <2>2 DEF OwnerType, Undisturbed, MyLocks
  <2>4. InTransit(p) = {Target(p)}
    <3>1. idx[p] = 1
      BY <1>0, <1>1, <1>5, MLockAssumption DEF TryAlready, CmdOK, Target
    <3> QED BY <1>1, <1>5, <3>1 DEF TryAlready, InTransit
  <2>5. Own(p)'
    BY <1>2, <1>4, <2>1, <2>2, <2>3, <2>4 DEF Own
  <2> QED BY <1>0, <1>3, <2>1, <2>3, <2>5, Combine
<1>6. ASSUME TryGot(p) \/ TryBlocked(p) PROVE InTransit(p) = {}
  <2>1. pc[p] = "try" => already[p] # Target(p)
    BY <1>6 DEF TryGot, TryBlocked, Locking
  <2>2. pc[p] = "try" /\ idx[p] = 1 => already[p] = NoNode
    BY <1>0, <2>1 DEF CmdOK, Target
  <2> QED BY <1>0, <2>2, MLockAssumption DEF InTransit, InPass, GcPoints
<1>7. CASE TryGot(p)
  <2>1. PICK y : Obtained(p, y)
    BY <1>7 DEF TryGot
  <2>2. /\ OwnerType' /\ Undisturbed(p)
        /\ MyLocks(p)' = MyLocks(p) \union {Target(p)}
        /\ MyLocks(p)' \subseteq valid'
    BY <1>0, <1>1, <1>2, <1>7, LockMine DEF TryGot
  <2>3. Own(p)'
    BY <1>2, <1>4, <1>6, <1>7, <2>1, <2>2 DEF Own
  <2> QED BY <1>0, <1>3, <2>1, <2>2, <2>3, Combine
<1>8. CASE TryBlocked(p)
  <2>1. /\ OwnerType' /\ Undisturbed(p)
        /\ MyLocks(p)' = MyLocks(p) /\ Target(p) \notin MyLocks(p)
        /\ MyLocks(p)' \subseteq valid'
    BY <1>0, <1>1, <1>2, <1>8, LockMine DEF TryBlocked
  <2>2. PrivType' /\ Private(p)
    BY <1>0, <1>8 DEF TryBlocked, AfterBlocked, PrivType, Private, Points
  <2>3. level[p][Target(p)] = 0
    BY <1>0, <1>1, <1>2, <2>1 DEF Holds, PrivType
  <2>4. /\ pc'[p] \in {"wait", "bckout"} /\ (pc'[p] = "bckout" => idx[p] # 1)
        /\ level' = level /\ req' = req /\ idx' = idx /\ bck' = bck /\ already' = already
    BY <1>0, <1>8 DEF TryBlocked, AfterBlocked, PrivType
  <2>5. bck[p] = 0
    BY <1>0 DEF CmdOK, InPass, GcPoints
  <2>6. CmdOK(p)'
    BY <1>0, <1>1, <2>3, <2>4, <2>5 DEF CmdOK, InPass, InWait, GcPoints, Target
  <2>7. Own(p)'
    <3>1. Holds(p)' = Holds(p)
      BY <2>4 DEF Holds
    <3>2. InTransit(p)' = {} /\ ~Exiting(p)'
      BY <2>4 DEF InTransit, Exiting
    <3> QED BY <1>2, <1>6, <1>8, <2>1, <3>1, <3>2 DEF Own
  <2> QED BY <1>0, <2>1, <2>2, <2>6, <2>7, Combine
<1> QED BY <1>5, <1>7, <1>8

\* The locks of the pass are backed out.
LEMMA BckoutStep == ASSUME HeldInv, NEW p \in alive, mlk_bckout(p) PROVE HeldInv'
<1> DEFINE n == req[p][bck[p] + 1]
<1> USE DEF lifeVars, shmVars, At, GoTo
<1>0. /\ p \in Pids /\ OwnerType /\ PrivType /\ CmdOK(p) /\ Own(p)
      /\ pc[p] = "bckout" /\ InWait(p) /\ ~Exiting(p) /\ alive' = alive
  BY DEF HeldInv, OwnerType, mlk_bckout, InWait, Exiting
<1>1. /\ Target(p) \in Nodes /\ idx[p] \in 1..Len(req[p]) /\ Len(req[p]) \in Nat
      /\ DOMAIN req[p] = 1..Len(req[p])
      /\ \A i, j \in DOMAIN req[p] : req[p][i] = req[p][j] => i = j
      /\ req[p] \in Requests /\ \A i \in DOMAIN req[p] : req[p][i] \in Nodes
  BY <1>0, Targets DEF CmdOK
<1>2. MyLocks(p) = Holds(p) /\ MyLocks(p) \subseteq valid
  BY <1>0 DEF Own, InTransit
<1>3. /\ bck[p] \in Nat /\ bck[p] + 1 < idx[p] /\ bck[p] + 1 \in DOMAIN req[p]
      /\ n \in Nodes /\ level[p][n] > 0 /\ level[p][n] \in Nat /\ n # Target(p)
  <2>1. bck[p] \in Nat /\ bck[p] + 1 < idx[p]
    BY <1>0 DEF CmdOK, PrivType
  <2>2. bck[p] + 1 \in DOMAIN req[p]
    BY <1>1, <2>1
  <2>3. n \in Nodes /\ level[p][n] > 0
    BY <1>0, <1>1, <2>1, <2>2 DEF CmdOK
  <2>4. n # Target(p)
    BY <1>1, <2>1, <2>2 DEF Target
  <2> QED BY <1>0, <2>1, <2>2, <2>3, <2>4 DEF PrivType
<1>4. level' = [level EXCEPT ![p][n] = @ - 1]
  BY DEF mlk_bckout
<1> HIDE DEF n
<1>5. /\ level' \in [Pids -> [Nodes -> Nat]]
      /\ Holds(p)' = IF level[p][n] = 1 THEN Holds(p) \ {n} ELSE Holds(p)
  BY <1>0, <1>3, <1>4, HoldsLess
<1>6. \A m \in Nodes : m # n => level'[p][m] = level[p][m]
  BY <1>0, <1>3, <1>4 DEF PrivType
<1>7. /\ OwnerType' /\ Undisturbed(p) /\ MyLocks(p)' = Holds(p)'
      /\ MyLocks(p)' \subseteq valid'
  <2>1. CASE level[p][n] = 1
    <3>1. mlk_unlock(p, n)
      BY <2>1 DEF mlk_bckout, n
    <3>2. n \in MyLocks(p)
      BY <1>2, <1>3 DEF Holds
    <3> QED BY <1>0, <1>2, <1>5, <2>1, <3>1, <3>2, UnlockMine
  <2>2. CASE level[p][n] # 1
    <3>1. UNCHANGED <<owner, valid>>
      BY <2>2 DEF mlk_bckout, n
    <3> QED BY <1>0, <1>2, <1>5, <2>2, <3>1 DEF OwnerType, Undisturbed, MyLocks
  <2> QED BY <2>1, <2>2
<1>8. /\ UNCHANGED <<req, idx, new, already, dead>>
      /\ \/ LastBckout(p) /\ bck' = [bck EXCEPT ![p] = 0] /\ pc' = [pc EXCEPT ![p] = "wait"]
         \/ ~LastBckout(p) /\ bck' = [bck EXCEPT ![p] = @ + 1] /\ pc' = pc
  BY DEF mlk_bckout
<1>9. PrivType' /\ Private(p)
  <2>1. \A q \in Pids \ {p} : level'[q] = level[q]
    BY <1>0, <1>4 DEF PrivType
  <2>2. CASE bck' = [bck EXCEPT ![p] = 0] /\ pc' = [pc EXCEPT ![p] = "wait"]
    BY <1>0, <1>5, <1>8, <2>1, <2>2 DEF PrivType, Private, Points
  <2>3. CASE bck' = [bck EXCEPT ![p] = @ + 1] /\ pc' = pc
    BY <1>0, <1>5, <1>8, <2>1, <2>3 DEF PrivType, Private, Points
  <2> QED BY <1>8, <2>2, <2>3
<1>10. /\ level'[p][Target(p)] = 0 /\ req'[p] = req[p] /\ idx'[p] = idx[p]
       /\ already'[p] = already[p]
       /\ \A i \in DOMAIN req[p] :
             bck[p] + 1 < i /\ i < idx[p] => level'[p][req[p][i]] > 0
  <2>1. level[p][Target(p)] = 0
    BY <1>0 DEF CmdOK
  <2>2. ASSUME NEW i \in DOMAIN req[p], bck[p] + 1 < i, i < idx[p]
        PROVE  level'[p][req[p][i]] > 0
    <3>1. req[p][i] # n /\ req[p][i] \in Nodes
      BY <1>1, <1>3, <2>2 DEF n
    <3>2. level[p][req[p][i]] > 0
      BY <1>0, <1>1, <1>3, <2>2 DEF CmdOK
    <3> QED BY <1>6, <3>1, <3>2
  <2> QED BY <1>1, <1>3, <1>6, <1>8, <2>1, <2>2
<1>11. \/ pc'[p] = "wait" /\ bck'[p] = 0
       \/ pc'[p] = "bckout" /\ bck'[p] = bck[p] + 1 /\ bck[p] + 2 < idx[p]
  <2>1. CASE LastBckout(p)
    <3>1. bck' = [bck EXCEPT ![p] = 0] /\ pc' = [pc EXCEPT ![p] = "wait"]
      BY <1>8, <2>1
    <3> QED BY <1>0, <3>1 DEF PrivType
  <2>2. CASE ~LastBckout(p)
    <3>1. bck' = [bck EXCEPT ![p] = @ + 1] /\ pc' = pc
      BY <1>8, <2>2
    <3> QED BY <1>0, <1>1, <1>3, <2>2, <3>1 DEF PrivType, LastBckout
  <2> QED BY <2>1, <2>2
<1>12. CmdOK(p)'
  <2>1. /\ req[p] \in Requests /\ idx[p] \in DOMAIN req[p]
        /\ already[p] \in {NoNode, req[p][1]}
    BY <1>0 DEF CmdOK
  <2>2. CASE pc'[p] = "wait" /\ bck'[p] = 0
    BY <1>10, <2>1, <2>2 DEF CmdOK, InPass, InWait, GcPoints, Target
  <2>3. CASE pc'[p] = "bckout" /\ bck'[p] = bck[p] + 1 /\ bck[p] + 2 < idx[p]
    BY <1>3, <1>10, <2>1, <2>3 DEF CmdOK, InPass, InWait, GcPoints, Target
  <2> QED BY <1>11, <2>2, <2>3
<1>13. Own(p)'
  <2>1. InTransit(p)' = {}
    BY <1>11 DEF InTransit
  <2> QED BY <1>7, <2>1 DEF Own
<1> QED BY <1>0, <1>7, <1>9, <1>12, <1>13, Combine

\* The lock waited for is tried again, and released if it is not the first.
LEMMA RetrySteps ==
    ASSUME HeldInv, NEW p \in alive, RetryGot(p) \/ RetryBlocked(p) \/ Undo(p)
    PROVE  HeldInv'
<1> USE DEF lifeVars, shmVars, At, GoTo
<1>0. /\ p \in Pids /\ OwnerType /\ PrivType /\ CmdOK(p) /\ Own(p)
      /\ InWait(p) /\ ~Exiting(p) /\ alive' = alive
  BY DEF HeldInv, OwnerType, RetryGot, RetryBlocked, Undo, Locking, InWait, GcPoints, Exiting
<1>1. /\ Target(p) \in Nodes /\ idx[p] \in DOMAIN req[p] /\ req[p] \in Requests
      /\ 1 \in DOMAIN req[p] /\ already[p] \in {NoNode, req[p][1]}
      /\ level[p][Target(p)] = 0 /\ Target(p) \notin Holds(p)
  BY <1>0, Targets DEF CmdOK, Holds
<1>2. MyLocks(p) = Holds(p) \union InTransit(p) /\ MyLocks(p) \subseteq valid
  BY <1>0 DEF Own
<1>3. bck[p] = 0
  BY <1>0 DEF CmdOK, RetryGot, RetryBlocked, Undo, Locking
<1>4. CASE RetryGot(p)
  <2>1. /\ OwnerType' /\ Undisturbed(p)
        /\ MyLocks(p)' = MyLocks(p) \union {Target(p)}
        /\ MyLocks(p)' \subseteq valid'
    BY <1>0, <1>1, <1>2, <1>4, LockMine DEF RetryGot
  <2>2. /\ pc'[p] = (IF idx[p] = 1 THEN "try" ELSE "undo")
        /\ already'[p] = (IF idx[p] = 1 THEN Target(p) ELSE already[p])
        /\ UNCHANGED <<req, idx, bck, new, dead, level>>
    BY <1>0, <1>4 DEF RetryGot, PrivType
  <2>3. PrivType'
    BY <1>0, <1>1, <1>4 DEF RetryGot, PrivType, Points
  <2>4. Private(p)
    BY <1>0, <1>4 DEF RetryGot, PrivType, Private
  <2>5. CmdOK(p)'
    <3>1. \A i \in DOMAIN req[p] : ~(i < 1)
      BY <1>0, Targets
    <3>2. CASE idx[p] = 1
      BY <1>1, <1>3, <2>2, <3>1, <3>2 DEF CmdOK, InPass, InWait, GcPoints, Target
    <3>3. CASE idx[p] # 1
      BY <1>1, <1>3, <2>2, <3>3 DEF CmdOK, InPass, InWait, GcPoints, Target
    <3> QED BY <3>2, <3>3
  <2>6. InTransit(p) = {} /\ InTransit(p)' = {Target(p)} /\ ~Exiting(p)'
    <3>1. InTransit(p) = {}
      BY <1>4 DEF RetryGot, Locking, InTransit
    <3>2. InTransit(p)' = {Target(p)}
      BY <1>1, <2>2 DEF InTransit, Target
    <3> QED BY <2>2, <3>1, <3>2 DEF Exiting
  <2>7. Own(p)'
    BY <1>2, <2>1, <2>2, <2>6 DEF Own, Holds
  <2> QED BY <1>0, <2>1, <2>3, <2>4, <2>5, <2>7, Combine
<1>5. CASE RetryBlocked(p)
  <2>1. /\ OwnerType' /\ Undisturbed(p) /\ MyLocks(p)' = MyLocks(p)
        /\ MyLocks(p)' \subseteq valid'
    BY <1>0, <1>1, <1>2, <1>5, LockMine DEF RetryBlocked
  <2>2. /\ pc'[p] \in {"own", "wait"}
        /\ UNCHANGED <<req, idx, bck, new, already, dead, level>>
    BY <1>0, <1>5 DEF RetryBlocked, PrivType
  <2>3. PrivType'
    BY <1>0, <1>5 DEF RetryBlocked, PrivType, Points
  <2>4. Private(p)
    BY <1>0, <1>5 DEF RetryBlocked, PrivType, Private
  <2>5. CmdOK(p)'
    BY <1>1, <1>3, <2>2 DEF CmdOK, InPass, InWait, GcPoints, Target
  <2>6. InTransit(p) = {} /\ InTransit(p)' = {}
    BY <1>5, <2>2 DEF RetryBlocked, Locking, InTransit
  <2>7. Own(p)'
    BY <1>2, <2>1, <2>2, <2>6 DEF Own, Holds
  <2> QED BY <1>0, <2>1, <2>3, <2>4, <2>5, <2>7, Combine
<1>6. CASE Undo(p)
  <2>1. InTransit(p) = {Target(p)}
    BY <1>6 DEF Undo, InTransit
  <2>2. /\ OwnerType' /\ Undisturbed(p) /\ MyLocks(p)' = MyLocks(p) \ {Target(p)}
        /\ MyLocks(p)' \subseteq valid'
    BY <1>0, <1>2, <1>6, <2>1, UnlockMine DEF Undo
  <2>3. /\ pc'[p] = "try" /\ idx'[p] = 1 /\ already'[p] = NoNode
        /\ UNCHANGED <<req, bck, new, dead, level>>
    BY <1>0, <1>6 DEF Undo, PrivType
  <2>4. PrivType' /\ Private(p)
    BY <1>0, <1>6 DEF Undo, PrivType, Private, Points
  <2>5. CmdOK(p)'
    <3>1. \A i \in DOMAIN req[p] : ~(i < 1)
      BY <1>0, Targets
    <3> QED BY <1>1, <1>3, <2>3, <3>1 DEF CmdOK, InPass, InWait, GcPoints, Target
  <2>6. InTransit(p)' = {}
    BY <2>3, MLockAssumption DEF InTransit
  <2>7. Own(p)'
    BY <1>1, <1>2, <2>1, <2>2, <2>3, <2>6 DEF Own, Holds
  <2> QED BY <1>0, <2>2, <2>4, <2>5, <2>7, Combine
<1> QED BY <1>4, <1>5, <1>6

\* Locks are taken away from dead processes only.
LEMMA ClearingSteps ==
    ASSUME HeldInv, NEW p \in alive, TimedOut(p) \/ CheckOwn(p) \/ clean_pids(p)
    PROVE  HeldInv'
<1> USE DEF lifeVars, cmdVars, At, GoTo
<1> DEFINE OnlyDead ==
              \A n \in Nodes :
                 /\ owner[n] \in alive =>
                       owner'[n] = owner[n] /\ (n \in valid => n \in valid')
                 /\ owner'[n] \in alive => owner'[n] = owner[n]
<1>0. /\ p \in Pids /\ OwnerType /\ PrivType /\ CmdOK(p) /\ Own(p)
      /\ ~Exiting(p) /\ alive' = alive /\ level' = level
  BY DEF HeldInv, OwnerType, TimedOut, CheckOwn, clean_pids, Exiting
<1>1. OwnerType' /\ OnlyDead
  <2>1. ASSUME NEW b, ClearAbandoned(p, b) PROVE OwnerType' /\ OnlyDead
    <3>1. CASE b \in Nodes /\ owner[b] \in Pids \ alive
      <4>1. owner' = [owner EXCEPT ![b] = NoPid] /\ valid' = valid \ {b}
        BY <2>1, <3>1 DEF ClearAbandoned
      <4> QED BY <1>0, <3>1, <4>1, MLockAssumption DEF OwnerType
    <3>2. CASE ~(b \in Nodes /\ owner[b] \in Pids \ alive)
      BY <1>0, <2>1, <3>2 DEF ClearAbandoned, OwnerType
    <3> QED BY <3>1, <3>2
  <2>2. ASSUME clean_pids(p) PROVE OwnerType' /\ OnlyDead
    <3> DEFINE free(n) == owner[n] \in dead[p] \union {NoPid}
    <3>1. dead[p] \intersect alive = {}
      BY <1>0, <2>2 DEF CmdOK, clean_pids
    <3>2. owner' = [n \in Nodes |-> IF free(n) THEN NoPid ELSE owner[n]]
      BY <2>2 DEF clean_pids
    <3>3. valid' = valid \ {n \in tree : free(n)}
      BY <2>2 DEF clean_pids
    <3> QED BY <1>0, <3>1, <3>2, <3>3, MLockAssumption DEF OwnerType
  <2> QED BY <2>1, <2>2 DEF TimedOut, CheckOwn
<1>2. /\ Undisturbed(p) /\ MyLocks(p)' = MyLocks(p)
      /\ MyLocks(p) \subseteq valid => MyLocks(p)' \subseteq valid'
  BY <1>1 DEF Undisturbed, MyLocks
<1> HIDE DEF OnlyDead
<1>3. /\ pc' = [pc EXCEPT ![p] = pc'[p]] /\ pc'[p] \in {"sleep", "unpend", "wait", "find"}
      /\ UNCHANGED <<req, idx, bck, new, already, level>>
      /\ dead' = [dead EXCEPT ![p] = dead'[p]] /\ dead'[p] \subseteq Pids
      /\ (pc[p] \in {"wait", "own"} /\ pc'[p] \in {"sleep", "unpend", "wait"})
           \/ (pc[p] = "clean" /\ pc'[p] = "find")
  <2>1. CASE TimedOut(p)
    BY <1>0, <2>1 DEF TimedOut, PrivType
  <2>2. CASE CheckOwn(p)
    BY <1>0, <2>2 DEF CheckOwn, PrivType
  <2>3. CASE clean_pids(p)
    BY <1>0, <2>3 DEF clean_pids, PrivType
  <2> QED BY <2>1, <2>2, <2>3
<1>4. PrivType' /\ Private(p)
  BY <1>0, <1>3 DEF PrivType, Private, Points
<1>5. CmdOK(p)'
  BY <1>0, <1>3 DEF CmdOK, InPass, InWait, GcPoints, Target
<1>6. Own(p)'
  <2>1. InTransit(p) = {} /\ InTransit(p)' = {}
    BY <1>3 DEF InTransit
  <2> QED BY <1>0, <1>2, <2>1 DEF Own, Holds
<1> QED BY <1>0, <1>1, <1>2, <1>4, <1>5, <1>6, Combine

\* LOCK - and LOCK without arguments.
LEMMA ReleaseSteps ==
    ASSUME HeldInv, NEW p \in alive, NEW n \in Nodes,
           op_decrlock(p, n) \/ Release(p, n)
    PROVE  HeldInv'
<1> USE DEF lifeVars, cmdVars, At, GoTo
<1>0. /\ p \in Pids /\ OwnerType /\ PrivType /\ CmdOK(p) /\ Own(p)
      /\ pc[p] \in {"idle", "release"} /\ alive' = alive
      /\ n \in Holds(p) /\ level[p][n] \in Nat /\ level[p][n] > 0
  BY DEF HeldInv, OwnerType, PrivType, op_decrlock, Release, Holds
<1>1. MyLocks(p) = Holds(p) /\ MyLocks(p) \subseteq valid
  BY <1>0 DEF Own, Exiting, InTransit
<1>2. /\ pc' = [pc EXCEPT ![p] = pc'[p]] /\ pc'[p] \in {"idle", "release"}
      /\ UNCHANGED <<req, idx, bck, new, already, dead>>
  <2>1. CASE op_decrlock(p, n)
    BY <1>0, <2>1 DEF op_decrlock, PrivType
  <2>2. CASE Release(p, n)
    BY <1>0, <2>2 DEF Release, PrivType
  <2> QED BY <2>1, <2>2
<1>3. /\ OwnerType' /\ Undisturbed(p) /\ MyLocks(p)' = Holds(p)'
      /\ MyLocks(p)' \subseteq valid' /\ level' \in [Pids -> [Nodes -> Nat]]
      /\ \A q \in Pids \ {p} : level'[q] = level[q]
  <2>1. CASE mlk_unlock(p, n) /\ Forget(p, n)
    <3>1. Holds(p)' = Holds(p) \ {n} /\ level' \in [Pids -> [Nodes -> Nat]]
      BY <1>0, <2>1, HoldsNot
    <3>2. \A q \in Pids \ {p} : level'[q] = level[q]
      BY <1>0, <2>1 DEF Forget, PrivType
    <3> QED BY <1>0, <1>1, <2>1, <3>1, <3>2, UnlockMine
  <2>2. CASE level[p][n] # 1 /\ op_decrlock(p, n)
    <3>1. level' = [level EXCEPT ![p][n] = @ - 1] /\ UNCHANGED <<owner, valid>>
      BY <2>2 DEF op_decrlock, shmVars
    <3>2. Holds(p)' = Holds(p) /\ level' \in [Pids -> [Nodes -> Nat]]
      BY <1>0, <2>2, <3>1, HoldsLess
    <3>3. \A q \in Pids \ {p} : level'[q] = level[q]
      BY <1>0, <3>1 DEF PrivType
    <3> QED BY <1>0, <1>1, <3>1, <3>2, <3>3 DEF OwnerType, Undisturbed, MyLocks
  <2> QED BY <2>1, <2>2 DEF op_decrlock, Release
<1>4. PrivType' /\ Private(p)
  BY <1>0, <1>2, <1>3 DEF PrivType, Private, Points
<1>5. CmdOK(p)'
  BY <1>0, <1>2 DEF CmdOK, InPass, InWait, GcPoints
<1>6. Own(p)'
  BY <1>2, <1>3 DEF Own, InTransit
<1> QED BY <1>0, <1>3, <1>4, <1>5, <1>6, Combine

\* Exit, if the two stores of mlk_nocrit_unlock are made in program order.
LEMMA ExitSteps ==
    ASSUME HeldInv, ~Reordered, NEW p \in alive,
           \/ \E n \in Nodes : mlk_nocrit_unlock(p, n)
           \/ NocritOwner(p) \/ NocritSequence(p)
    PROVE  HeldInv'
<1> USE DEF lifeVars, cmdVars, At, GoTo
<1>0. /\ p \in Pids /\ OwnerType /\ PrivType /\ CmdOK(p) /\ alive' = alive
      /\ pc[p] \in {"exit", "exit_owner"} /\ bck[p] = 0
  BY DEF HeldInv, OwnerType, mlk_nocrit_unlock, NocritOwner, NocritSequence, CmdOK
<1>1. ASSUME NEW n \in Nodes, mlk_nocrit_unlock(p, n) PROVE HeldInv'
  <2>1. CASE owner[n] = p /\ n \in valid
    <3>1. /\ req' = [req EXCEPT ![p] = <<n>>] /\ idx' = [idx EXCEPT ![p] = 1]
          /\ pc' = [pc EXCEPT ![p] = "exit_owner"]
          /\ valid' = valid \ {n} /\ UNCHANGED <<owner, level, bck, new, already, dead>>
      BY <1>1, <2>1 DEF mlk_nocrit_unlock
    <3>2. PrivType' /\ Private(p)
      BY <1>0, <3>1 DEF PrivType, Private, Points
    <3>3. OwnerType' /\ Undisturbed(p)
      BY <1>0, <2>1, <3>1 DEF OwnerType, Undisturbed
    <3>4. pc'[p] = "exit_owner" /\ req'[p] = <<n>> /\ idx'[p] = 1 /\ bck'[p] = 0
      BY <1>0, <3>1 DEF PrivType
    <3>5. CmdOK(p)'
      BY <2>1, <3>1, <3>4 DEF CmdOK, InPass, InWait, GcPoints, Target
    <3>6. Own(p)'
      BY <3>4 DEF Own, Exiting
    <3> QED BY <1>0, <3>2, <3>3, <3>5, <3>6, Combine
  <2>2. CASE ~(owner[n] = p /\ n \in valid)
    <3>1. Forget(p, n) /\ UNCHANGED <<owner, valid, req, idx, pc, bck, new, already, dead>>
      BY <1>1, <2>2 DEF mlk_nocrit_unlock
    <3>2. PrivType' /\ Private(p)
      BY <1>0, <3>1 DEF PrivType, Private, Forget
    <3>3. OwnerType' /\ Undisturbed(p)
      BY <1>0, <3>1 DEF OwnerType, Undisturbed
    <3>4. pc[p] = "exit"
      BY <1>1 DEF mlk_nocrit_unlock
    <3>5. CmdOK(p)' /\ Own(p)'
      BY <1>0, <3>1, <3>4 DEF CmdOK, InPass, InWait, GcPoints, Own, Exiting
    <3> QED BY <1>0, <3>2, <3>3, <3>5, Combine
  <2> QED BY <2>1, <2>2
<1>2. CASE NocritOwner(p)
  <2>1. Target(p) \in Nodes /\ owner[Target(p)] = p /\ pc[p] = "exit_owner"
    BY <1>0, <1>2 DEF NocritOwner, CmdOK
  <2>2. /\ owner' = [owner EXCEPT ![Target(p)] = NoPid] /\ Forget(p, Target(p))
        /\ pc' = [pc EXCEPT ![p] = "exit"]
        /\ UNCHANGED <<valid, req, idx, bck, new, already, dead>>
    BY <1>2 DEF NocritOwner
  <2>3. PrivType' /\ Private(p)
    BY <1>0, <2>1, <2>2 DEF PrivType, Private, Forget, Points
  <2>4. OwnerType' /\ Undisturbed(p)
    BY <1>0, <2>1, <2>2, MLockAssumption DEF OwnerType, Undisturbed
  <2>5. pc'[p] = "exit" /\ bck'[p] = 0
    BY <1>0, <2>2 DEF PrivType
  <2>6. CmdOK(p)' /\ Own(p)'
    BY <2>5 DEF CmdOK, InPass, InWait, GcPoints, Own, Exiting
  <2> QED BY <1>0, <2>3, <2>4, <2>6, Combine
<1>3. ~NocritSequence(p)
  BY <1>0 DEF NocritSequence
<1> QED BY <1>1, <1>2, <1>3

\* A process is gone.
LEMMA GoneStep == ASSUME HeldInv, NEW p \in Pids, Gone(p) PROVE HeldInv'
<1> USE DEF GoTo, shmVars
<1>1. OwnerType' /\ Undisturbed(p)
  BY DEF HeldInv, OwnerType, Undisturbed, Gone
<1>2. PrivType'
  BY DEF HeldInv, PrivType, Gone, Points
<1>3. Private(p)
  BY DEF HeldInv, PrivType, Private, Gone
<1>4. alive' \subseteq alive /\ p \notin alive'
  BY DEF Gone
<1>5. \A q \in alive' \ {p} : CmdOK(q)' /\ Own(q)'
  BY <1>1, <1>3, <1>4, Others
<1> QED BY <1>1, <1>2, <1>4, <1>5 DEF HeldInv

\* A live process owns exactly the locks it believes it holds, and can release
\* them, if the stores of mlk_nocrit_unlock are made in program order.
THEOREM Held == ASSUME ~Reordered PROVE Spec => []HeldIsOwned
<1>1. Init => HeldInv
  <2> SUFFICES ASSUME Init PROVE HeldInv
    OBVIOUS
  <2>1. OwnerType
    BY DEF Init, OwnerType
  <2>2. PrivType
    BY DEF Init, PrivType, Points
  <2>3. ASSUME NEW p \in Pids PROVE CmdOK(p) /\ Own(p)
    BY MLockAssumption DEF Init, CmdOK, InPass, InWait, GcPoints, Own, MyLocks, Holds, InTransit
  <2> QED BY <2>1, <2>2, <2>3 DEF HeldInv, OwnerType
<1>2. HeldInv /\ [Next]_vars => HeldInv'
  <2> SUFFICES ASSUME HeldInv, [Next]_vars PROVE HeldInv'
    OBVIOUS
  <2>1. CASE UNCHANGED vars
    BY <2>1 DEF vars, shmVars, lifeVars, cmdVars, pvtVars, HeldInv, OwnerType, PrivType,
       CmdOK, InPass, InWait, Target, Own, MyLocks, Holds, InTransit, Exiting
  <2>2. CASE Quiescent
    BY <2>1, <2>2 DEF Quiescent
  <2>3. ASSUME NEW p \in Pids, Step(p) PROVE HeldInv'
    <3>1. CASE ExitDone(p)
      BY <3>1, GoneStep DEF ExitDone
    <3>2. CASE ~ExitDone(p)
      <4>1. p \in alive
        BY <2>3, <3>2 DEF Step, At, TryAlready, TryGot, TryBlocked, mlk_bckout, TimedOut,
           mlk_unpend, WakeUp, RetryGot, Undo, RetryBlocked, CheckOwn, StartGC,
           prepare_for_gc, GcNotNeeded, fill_pid_table, check_pids, clean_pids, Release,
           mlk_nocrit_unlock, NocritOwner, NocritSequence, Locking
      <4> QED BY <2>3, <3>2, <4>1, QuietSteps, PassSteps, BckoutStep, RetrySteps,
                 ClearingSteps, ReleaseSteps, ExitSteps DEF Step
    <3> QED BY <3>1, <3>2
  <2>4. ASSUME NEW p \in Pids, Application(p) PROVE HeldInv'
    <3>1. CASE Kill(p)
      BY <3>1, GoneStep DEF Kill
    <3>2. CASE ~Kill(p)
      <4>1. p \in alive
        BY <2>4, <3>2 DEF Application, At, Request, op_unlock, op_decrlock, Expire,
           Interrupt, Exit
      <4> QED BY <2>4, <3>2, <4>1, QuietSteps, ReleaseSteps DEF Application
    <3> QED BY <3>1, <3>2
  <2> QED BY <2>1, <2>2, <2>3, <2>4 DEF Next
<1>3. HeldInv => HeldIsOwned
  BY DEF HeldInv, HeldIsOwned, Own, MyLocks
<1> QED BY <1>1, <1>2, <1>3, PTL DEF Spec

----------------------------------------------------------------------------
(* All or nothing.  The invariant counts the locks of a command: in the    *)
(* pass those before idx were obtained once more, in the undoing those     *)
(* from bck on are still to be given back, and a command that waits has    *)
(* given all of them back.                                                 *)

\* The levels b, one more for each of the names of r strictly between lo and hi.
Plus(b, r, lo, hi) ==
    [n \in Nodes |-> IF \E i \in DOMAIN r : lo < i /\ i < hi /\ r[i] = n
                     THEN b[n] + 1 ELSE b[n]]

PassType == PrivType /\ before \in [Pids -> [Nodes -> Nat]]

Shape(p) ==
    /\ InPass(p) \/ InWait(p) => req[p] \in Requests /\ idx[p] \in DOMAIN req[p]
    /\ pc[p] = "bckout" => bck[p] + 1 < idx[p]
    /\ pc[p] # "bckout" => bck[p] = 0

Counted(p) ==
    /\ InPass(p) => level[p] = Plus(before[p], req[p], 0, idx[p])
    /\ pc[p] = "bckout" => level[p] = Plus(before[p], req[p], bck[p], idx[p])
    /\ InWait(p) /\ pc[p] # "bckout" => level[p] = before[p]

PassInv == PassType /\ \A p \in Pids : Shape(p) /\ Counted(p)

\* A step of p leaves the commands of the others alone.
PassFrame(p) ==
    \A q \in Pids \ {p} :
        /\ pc'[q] = pc[q] /\ req'[q] = req[q] /\ idx'[q] = idx[q] /\ bck'[q] = bck[q]
        /\ new'[q] = new[q] /\ level'[q] = level[q] /\ before'[q] = before[q]

\* What is left to show of a step of p.
LEMMA PassCombine ==
    ASSUME PassInv, NEW p \in Pids, PassType', PassFrame(p), Shape(p)', Counted(p)'
    PROVE  PassInv'
<1> SUFFICES ASSUME NEW q \in Pids \ {p} PROVE Shape(q)' /\ Counted(q)'
  BY DEF PassInv
<1>1. Shape(q) /\ Counted(q)
  BY DEF PassInv
<1>2. /\ pc'[q] = pc[q] /\ req'[q] = req[q] /\ idx'[q] = idx[q] /\ bck'[q] = bck[q]
      /\ new'[q] = new[q] /\ level'[q] = level[q] /\ before'[q] = before[q]
  BY DEF PassFrame
<1> QED BY <1>1, <1>2 DEF Shape, Counted, InPass, InWait

\* The names of a command.
LEMMA Names ==
    ASSUME PassInv, NEW p \in Pids, InPass(p) \/ InWait(p)
    PROVE  /\ req[p] \in Requests /\ req[p] \in Seq(Nodes) /\ Len(req[p]) \in Nat
           /\ DOMAIN req[p] = 1 .. Len(req[p])
           /\ idx[p] \in 1 .. Len(req[p]) /\ Target(p) \in Nodes
           /\ \A i \in DOMAIN req[p] : req[p][i] \in Nodes
           /\ \A i, j \in DOMAIN req[p] : req[p][i] = req[p][j] => i = j
<1>1. req[p] \in Requests /\ idx[p] \in DOMAIN req[p]
  BY DEF PassInv, Shape
<1>2. req[p] \in Seq(Nodes)
  BY <1>1, MLockAssumption
<1> QED BY <1>1, <1>2, MLockAssumption DEF Target

\* No names between lo and hi.
LEMMA PlusNone ==
    ASSUME NEW b \in [Nodes -> Nat], NEW r \in Seq(Nodes), NEW lo, NEW hi,
           \A i \in Nat : ~(lo < i /\ i < hi)
    PROVE  Plus(b, r, lo, hi) = b
<1>1. \A i \in DOMAIN r : i \in Nat
  OBVIOUS
<1> QED BY <1>1 DEF Plus

\* Steps that move p on inside its pass or its wait.
LEMMA PassQuiet ==
    ASSUME PassInv, NEW p \in Pids,
           \/ WakeUp(p) \/ StartGC(p) \/ prepare_for_gc(p) \/ GcNotNeeded(p)
           \/ fill_pid_table(p) \/ check_pids(p) \/ clean_pids(p) \/ Expire(p)
           \/ TimedOut(p) \/ Interrupt(p) \/ CheckOwn(p) \/ RetryBlocked(p)
    PROVE  PassInv'
<1> DEFINE Moves ==
      /\ UNCHANGED <<req, idx, bck, level, before, already>>
      /\ pc' = [pc EXCEPT ![p] = pc'[p]] /\ pc'[p] \in Points \ {"bckout"}
      /\ new' = [new EXCEPT ![p] = new'[p]] /\ new'[p] \in BOOLEAN
      /\ dead' \in [Pids -> SUBSET Pids]
      /\ pc[p] # "bckout" /\ (InPass(p)' <=> InPass(p)) /\ (InWait(p)' <=> InWait(p))
<1> USE DEF lifeVars, cmdVars, pvtVars, shmVars, At, GoTo, GcPoints
<1>0. /\ PassType /\ pc \in [Pids -> Points] /\ new \in [Pids -> BOOLEAN]
      /\ dead \in [Pids -> SUBSET Pids] /\ new = [new EXCEPT ![p] = new[p]]
      /\ pc = [pc EXCEPT ![p] = pc[p]]
      /\ new[p] \in BOOLEAN
  BY DEF PassInv, PassType, PrivType
<1>1. ASSUME WakeUp(p) PROVE Moves
  BY <1>0, <1>1 DEF WakeUp, Points, InPass, InWait
<1>2. ASSUME StartGC(p) PROVE Moves
  BY <1>0, <1>2 DEF StartGC, Points, InPass, InWait
<1>3. ASSUME prepare_for_gc(p) PROVE Moves
  BY <1>0, <1>3 DEF prepare_for_gc, Points, InPass, InWait
<1>4. ASSUME GcNotNeeded(p) PROVE Moves
  BY <1>0, <1>4 DEF GcNotNeeded, Points, InPass, InWait
<1>5. ASSUME fill_pid_table(p) PROVE Moves
  BY <1>0, <1>5 DEF fill_pid_table, Points, InPass, InWait
<1>6. ASSUME check_pids(p) PROVE Moves
  BY <1>0, <1>6 DEF check_pids, Points, InPass, InWait
<1>7. ASSUME clean_pids(p) PROVE Moves
  BY <1>0, <1>7 DEF clean_pids, Points, InPass, InWait
<1>8. ASSUME Expire(p) PROVE Moves
  BY <1>0, <1>8 DEF Expire, Points, InPass, InWait
<1>9. ASSUME TimedOut(p) PROVE Moves
  BY <1>0, <1>9 DEF TimedOut, Points, InPass, InWait
<1>10. ASSUME Interrupt(p) PROVE Moves
  BY <1>0, <1>10 DEF Interrupt, Points, InPass, InWait
<1>11. ASSUME CheckOwn(p) PROVE Moves
  BY <1>0, <1>11 DEF CheckOwn, Points, InPass, InWait
<1>12. ASSUME RetryBlocked(p) PROVE Moves
  BY <1>0, <1>12 DEF RetryBlocked, Locking, Points, InPass, InWait
<1>13. Moves
  BY <1>1, <1>2, <1>3, <1>4, <1>5, <1>6, <1>7, <1>8, <1>9, <1>10, <1>11, <1>12
<1>14. PassType' /\ PassFrame(p)
  BY <1>0, <1>13 DEF PassType, PrivType, PassFrame
<1>15. Shape(p)' /\ Counted(p)'
  <2>1. Shape(p) /\ Counted(p)
    BY DEF PassInv
  <2> QED BY <1>0, <1>13, <2>1 DEF Shape, Counted
<1> QED BY <1>14, <1>15, PassCombine

\* Steps after which p is in no command.
LEMMA PassOver ==
    ASSUME PassInv, NEW p \in Pids,
           \/ mlk_unpend(p) \/ op_unlock(p) \/ Exit(p)
           \/ (\E n \in Nodes : op_decrlock(p, n) \/ Release(p, n) \/ mlk_nocrit_unlock(p, n))
           \/ NocritOwner(p) \/ NocritSequence(p) \/ Gone(p)
    PROVE  PassInv'
<1> DEFINE Ends ==
      /\ PassType' /\ PassFrame(p)
      /\ pc'[p] \in {"idle", "release", "exit", "exit_owner", "exit_sequence"}
      /\ bck'[p] = 0
<1> USE DEF lifeVars, cmdVars, pvtVars, shmVars, At, GoTo
<1>0. /\ pc \in [Pids -> Points] /\ req \in [Pids -> Seq(Nodes)]
      /\ idx \in [Pids -> Nat] /\ bck \in [Pids -> Nat] /\ new \in [Pids -> BOOLEAN]
      /\ already \in [Pids -> Nodes \union {NoNode}] /\ dead \in [Pids -> SUBSET Pids]
      /\ level \in [Pids -> [Nodes -> Nat]] /\ before \in [Pids -> [Nodes -> Nat]]
      /\ pc[p] # "bckout" => bck[p] = 0
  BY DEF PassInv, PassType, PrivType, Shape
<1> USE DEF PassType, PrivType, PassFrame, Points
<1>1. ASSUME mlk_unpend(p) PROVE Ends
  BY <1>0, <1>1 DEF mlk_unpend, Leave
<1>2. ASSUME op_unlock(p) PROVE Ends
  BY <1>0, <1>2 DEF op_unlock
<1>3. ASSUME Exit(p) PROVE Ends
  BY <1>0, <1>3 DEF Exit
<1>4. ASSUME NEW n \in Nodes, op_decrlock(p, n) PROVE Ends
  <2>1. /\ UNCHANGED <<pc, req, idx, bck, new, already, dead, before>> /\ pc[p] = "idle"
        /\ level[p][n] \in Nat /\ level[p][n] > 0
    BY <1>0, <1>4 DEF op_decrlock, Holds
  <2>2. level' = [level EXCEPT ![p][n] = 0] \/ level' = [level EXCEPT ![p][n] = @ - 1]
    BY <1>4 DEF op_decrlock, Forget
  <2>3. level' \in [Pids -> [Nodes -> Nat]] /\ \A q \in Pids \ {p} : level'[q] = level[q]
    <3>1. CASE level' = [level EXCEPT ![p][n] = 0]
      BY <1>0, <3>1
    <3>2. CASE level' = [level EXCEPT ![p][n] = @ - 1]
      <4>1. level[p][n] - 1 \in Nat
        BY <2>1
      <4> QED BY <1>0, <3>2, <4>1
    <3> QED BY <2>2, <3>1, <3>2
  <2> QED BY <1>0, <2>1, <2>3
<1>5. ASSUME NEW n \in Nodes, Release(p, n) PROVE Ends
  BY <1>0, <1>5 DEF Release, Forget
<1>6. ASSUME NEW n \in Nodes, mlk_nocrit_unlock(p, n) PROVE Ends
  <2>1. /\ UNCHANGED <<bck, new, already, dead, before>> /\ pc[p] = "exit"
        /\ pc' = [pc EXCEPT ![p] = pc'[p]] /\ pc'[p] \in {"exit", "exit_owner", "exit_sequence"}
    BY <1>0, <1>6 DEF mlk_nocrit_unlock
  <2>2. /\ req' \in [Pids -> Seq(Nodes)] /\ \A q \in Pids \ {p} : req'[q] = req[q]
        /\ idx' \in [Pids -> Nat] /\ \A q \in Pids \ {p} : idx'[q] = idx[q]
    <3>1. \/ req' = [req EXCEPT ![p] = <<n>>] /\ idx' = [idx EXCEPT ![p] = 1]
          \/ req' = req /\ idx' = idx
      BY <1>6 DEF mlk_nocrit_unlock
    <3>2. CASE req' = [req EXCEPT ![p] = <<n>>] /\ idx' = [idx EXCEPT ![p] = 1]
      <4>1. <<n>> \in Seq(Nodes)
        OBVIOUS
      <4> QED BY <1>0, <3>2, <4>1
    <3> QED BY <1>0, <3>1, <3>2
  <2>3. level' \in [Pids -> [Nodes -> Nat]] /\ \A q \in Pids \ {p} : level'[q] = level[q]
    <3>1. level' = level \/ level' = [level EXCEPT ![p][n] = 0]
      BY <1>6 DEF mlk_nocrit_unlock, Forget
    <3>2. CASE level' = [level EXCEPT ![p][n] = 0]
      BY <1>0, <3>2
    <3> QED BY <1>0, <3>1, <3>2
  <2>4. PassType'
    <3>1. pc' \in [Pids -> Points]
      BY <1>0, <2>1
    <3>2. /\ bck' \in [Pids -> Nat] /\ new' \in [Pids -> BOOLEAN]
          /\ already' \in [Pids -> Nodes \union {NoNode}] /\ dead' \in [Pids -> SUBSET Pids]
          /\ before' \in [Pids -> [Nodes -> Nat]]
      BY <1>0, <2>1
    <3> HIDE DEF Points
    <3> QED BY <2>2, <2>3, <3>1, <3>2
  <2>5. PassFrame(p)
    BY <1>0, <2>1, <2>2, <2>3
  <2>6. bck'[p] = 0
    BY <1>0, <2>1
  <2> QED BY <2>1, <2>4, <2>5, <2>6
<1>7. ASSUME NocritOwner(p) PROVE Ends
  BY <1>0, <1>7 DEF NocritOwner, Forget
<1>8. ASSUME NocritSequence(p) PROVE Ends
  BY <1>0, <1>8 DEF NocritSequence, Forget
<1>9. ASSUME Gone(p) PROVE Ends
  BY <1>0, <1>9 DEF Gone
<1>10. Ends
  BY <1>1, <1>2, <1>3, <1>4, <1>5, <1>6, <1>7, <1>8, <1>9
<1>11. Shape(p)' /\ Counted(p)'
  BY <1>10 DEF Shape, Counted, InPass, InWait, GcPoints
<1> QED BY <1>10, <1>11, PassCombine

\* A command starts.
LEMMA PassRequest ==
    ASSUME PassInv, NEW p \in Pids, NEW r \in Requests, NEW w \in Waits, Request(p, r, w)
    PROVE  PassInv'
<1> USE DEF lifeVars, pvtVars, shmVars, At, GoTo
<1>0. PassType /\ pc[p] = "idle" /\ bck[p] = 0 /\ level[p] \in [Nodes -> Nat]
  BY DEF PassInv, PassType, PrivType, Request, Shape
<1>1. r \in Seq(Nodes) /\ 1 \in DOMAIN r
  BY MLockAssumption
<1>2. PassType' /\ PassFrame(p)
  BY <1>0, <1>1 DEF Request, PassType, PrivType, PassFrame, Points
<1>3. /\ pc'[p] = "try" /\ req'[p] = r /\ idx'[p] = 1 /\ bck'[p] = 0
      /\ before'[p] = level[p] /\ level'[p] = level[p]
  <2>1. /\ pc' = [pc EXCEPT ![p] = "try"] /\ req' = [req EXCEPT ![p] = r]
        /\ idx' = [idx EXCEPT ![p] = 1] /\ before' = [before EXCEPT ![p] = level[p]]
        /\ UNCHANGED <<bck, level>>
    BY DEF Request
  <2> QED BY <1>0, <2>1 DEF PassType, PrivType
<1>4. Plus(level[p], r, 0, 1) = level[p]
  <2>1. \A i \in Nat : ~(0 < i /\ i < 1)
    OBVIOUS
  <2> QED BY <1>0, <1>1, <2>1, PlusNone
<1>5. Shape(p)' /\ Counted(p)'
  BY <1>1, <1>3, <1>4 DEF Shape, Counted, InPass, InWait, GcPoints
<1> QED BY <1>2, <1>5, PassCombine

\* One more lock of the pass.
LEMMA PassObtained ==
    ASSUME PassInv, NEW p \in Pids, InPass(p), NEW y, Obtained(p, y)
    PROVE  PassInv'
<1> USE DEF lifeVars, GoTo
<1>0. /\ PassType /\ level[p] = Plus(before[p], req[p], 0, idx[p]) /\ bck[p] = 0
      /\ before[p] \in [Nodes -> Nat] /\ level[p] \in [Nodes -> Nat]
  BY DEF PassInv, PassType, PrivType, Shape, Counted, InPass, GcPoints
<1>1. /\ req[p] \in Requests /\ req[p] \in Seq(Nodes) /\ Len(req[p]) \in Nat
      /\ DOMAIN req[p] = 1 .. Len(req[p])
      /\ idx[p] \in 1 .. Len(req[p]) /\ Target(p) \in Nodes
      /\ \A i, j \in DOMAIN req[p] : req[p][i] = req[p][j] => i = j
  BY Names
<1>2. /\ level' = [level EXCEPT ![p][Target(p)] = @ + 1]
      /\ dead' = dead
      /\ \/ Leave(p) /\ idx[p] = Len(req[p])
         \/ /\ idx[p] # Len(req[p]) /\ idx' = [idx EXCEPT ![p] = @ + 1]
            /\ pc' = [pc EXCEPT ![p] = "try"]
            /\ UNCHANGED <<req, bck, new, already, before>>
  BY DEF Obtained
<1>3. level' \in [Pids -> [Nodes -> Nat]] /\ \A q \in Pids \ {p} : level'[q] = level[q]
  BY <1>0, <1>1, <1>2 DEF PassType, PrivType
<1>4. CASE Leave(p)
  <2>1. PassType' /\ PassFrame(p)
    BY <1>0, <1>2, <1>3, <1>4 DEF Leave, PassType, PrivType, PassFrame, Points
  <2>2. pc'[p] = "idle" /\ bck'[p] = 0
    BY <1>0, <1>4 DEF Leave, PassType, PrivType
  <2>3. Shape(p)' /\ Counted(p)'
    BY <2>2 DEF Shape, Counted, InPass, InWait, GcPoints
  <2> QED BY <2>1, <2>3, PassCombine
<1>5. CASE /\ idx[p] # Len(req[p]) /\ idx' = [idx EXCEPT ![p] = @ + 1]
           /\ pc' = [pc EXCEPT ![p] = "try"]
           /\ UNCHANGED <<req, bck, new, already, before>>
  <2>1. PassType' /\ PassFrame(p)
    BY <1>0, <1>2, <1>3, <1>5 DEF PassType, PrivType, PassFrame, Points
  <2>2. /\ pc'[p] = "try" /\ bck'[p] = 0 /\ idx'[p] = idx[p] + 1 /\ req'[p] = req[p]
        /\ before'[p] = before[p]
    BY <1>0, <1>5 DEF PassType, PrivType
  <2>3. \A n \in Nodes : level'[p][n] = IF n = Target(p) THEN level[p][n] + 1
                                       ELSE level[p][n]
    BY <1>0, <1>1, <1>2 DEF PassType, PrivType
  <2>4. \A n \in Nodes : level'[p][n] = Plus(before[p], req[p], 0, idx[p] + 1)[n]
    <3> SUFFICES ASSUME NEW n \in Nodes
                 PROVE  level'[p][n] = Plus(before[p], req[p], 0, idx[p] + 1)[n]
      OBVIOUS
    <3>1. level[p][n] = IF \E i \in DOMAIN req[p] : 0 < i /\ i < idx[p] /\ req[p][i] = n
                        THEN before[p][n] + 1 ELSE before[p][n]
      BY <1>0 DEF Plus
    <3>2. CASE n = Target(p)
      <4>1. ~\E i \in DOMAIN req[p] : 0 < i /\ i < idx[p] /\ req[p][i] = n
        BY <1>1, <3>2 DEF Target
      <4>2. \E i \in DOMAIN req[p] : 0 < i /\ i < idx[p] + 1 /\ req[p][i] = n
        BY <1>1, <3>2 DEF Target
      <4> QED BY <2>3, <3>1, <3>2, <4>1, <4>2 DEF Plus
    <3>3. CASE n # Target(p)
      <4>1. (\E i \in DOMAIN req[p] : 0 < i /\ i < idx[p] + 1 /\ req[p][i] = n)
              <=> (\E i \in DOMAIN req[p] : 0 < i /\ i < idx[p] /\ req[p][i] = n)
        BY <1>1, <3>3 DEF Target
      <4> QED BY <2>3, <3>1, <3>3, <4>1 DEF Plus
    <3> QED BY <3>2, <3>3
  <2>5. level'[p] = Plus(before[p], req[p], 0, idx[p] + 1)
    <3>1. level'[p] \in [Nodes -> Nat]
      BY <1>3
    <3> QED BY <2>4, <3>1 DEF Plus
  <2>6. idx[p] + 1 \in DOMAIN req[p]
    BY <1>1, <1>5
  <2>7. Shape(p)' /\ Counted(p)'
    BY <1>1, <2>2, <2>5, <2>6 DEF Shape, Counted, InPass, InWait, GcPoints
  <2> QED BY <2>1, <2>7, PassCombine
<1> QED BY <1>2, <1>4, <1>5

\* Blocked, and the undoing of the pass.
LEMMA PassBlocked ==
    ASSUME PassInv, NEW p \in Pids, TryBlocked(p) PROVE PassInv'
<1> USE DEF lifeVars, At, GoTo
<1>0. /\ PassType /\ InPass(p) /\ level[p] = Plus(before[p], req[p], 0, idx[p])
      /\ bck[p] = 0 /\ before[p] \in [Nodes -> Nat]
  BY DEF PassInv, PassType, PrivType, Shape, Counted, TryBlocked, Locking, InPass, GcPoints
<1>1. /\ req[p] \in Requests /\ req[p] \in Seq(Nodes) /\ idx[p] \in DOMAIN req[p]
      /\ idx[p] \in Nat \ {0}
  BY <1>0, Names
<1>2. /\ UNCHANGED <<req, idx, bck, new, already, dead, level, before>>
      /\ pc' = [pc EXCEPT ![p] = IF idx[p] = 1 THEN "wait" ELSE "bckout"]
  BY DEF TryBlocked, AfterBlocked
<1>3. PassType' /\ PassFrame(p)
  BY <1>0, <1>2 DEF PassType, PrivType, PassFrame, Points
<1>4. CASE idx[p] = 1
  <2>1. \A i \in Nat : ~(0 < i /\ i < 1)
    OBVIOUS
  <2>2. level[p] = before[p]
    BY <1>0, <1>1, <1>4, <2>1, PlusNone
  <2>3. pc'[p] = "wait"
    BY <1>0, <1>2, <1>4 DEF PassType, PrivType
  <2>4. Shape(p)' /\ Counted(p)'
    BY <1>0, <1>1, <1>2, <2>2, <2>3 DEF Shape, Counted, InPass, InWait, GcPoints
  <2> QED BY <1>3, <2>4, PassCombine
<1>5. CASE idx[p] # 1
  <2>1. pc'[p] = "bckout"
    BY <1>0, <1>2, <1>5 DEF PassType, PrivType
  <2>2. bck[p] + 1 < idx[p]
    BY <1>0, <1>1, <1>5
  <2>3. Shape(p)' /\ Counted(p)'
    BY <1>0, <1>1, <1>2, <2>1, <2>2 DEF Shape, Counted, InPass, InWait, GcPoints
  <2> QED BY <1>3, <2>3, PassCombine
<1> QED BY <1>4, <1>5

\* One of the locks of the pass is given back.
LEMMA PassBckout ==
    ASSUME PassInv, NEW p \in Pids, mlk_bckout(p) PROVE PassInv'
<1> DEFINE k == bck[p] + 1
           n == req[p][k]
<1> USE DEF lifeVars, At, GoTo
<1>0. /\ PassType /\ pc[p] = "bckout" /\ InWait(p)
      /\ level[p] = Plus(before[p], req[p], bck[p], idx[p])
      /\ bck[p] \in Nat /\ bck[p] + 1 < idx[p]
      /\ before[p] \in [Nodes -> Nat] /\ level[p] \in [Nodes -> Nat]
  BY DEF PassInv, PassType, PrivType, Shape, Counted, mlk_bckout, InWait
<1>1. /\ req[p] \in Requests /\ req[p] \in Seq(Nodes) /\ Len(req[p]) \in Nat
      /\ DOMAIN req[p] = 1 .. Len(req[p])
      /\ idx[p] \in 1 .. Len(req[p])
      /\ \A i \in DOMAIN req[p] : req[p][i] \in Nodes
      /\ \A i, j \in DOMAIN req[p] : req[p][i] = req[p][j] => i = j
  BY <1>0, Names
<1>2. /\ k \in DOMAIN req[p] /\ n \in Nodes /\ k \in Nat
      /\ k = bck[p] + 1 /\ n = req[p][k] /\ idx[p] \in Nat
  BY <1>0, <1>1
<1>3. /\ level' = [level EXCEPT ![p][n] = @ - 1]
      /\ UNCHANGED <<req, idx, new, already, dead, before>>
      /\ \/ LastBckout(p) /\ bck' = [bck EXCEPT ![p] = 0] /\ pc' = [pc EXCEPT ![p] = "wait"]
         \/ ~LastBckout(p) /\ bck' = [bck EXCEPT ![p] = @ + 1] /\ pc' = pc
  BY DEF mlk_bckout
<1>4. level[p][n] = before[p][n] + 1 /\ before[p][n] \in Nat
  BY <1>0, <1>2 DEF Plus
<1> HIDE DEF n, k
<1>5. /\ \A m \in Nodes : level'[p][m] = IF m = n THEN level[p][m] - 1 ELSE level[p][m]
      /\ level' \in [Pids -> [Nodes -> Nat]] /\ \A q \in Pids \ {p} : level'[q] = level[q]
  <2>1. level[p][n] - 1 \in Nat
    BY <1>4
  <2>2. level \in [Pids -> [Nodes -> Nat]]
    BY <1>0 DEF PassType, PrivType
  <2>3. level' = [level EXCEPT ![p][n] = level[p][n] - 1]
    BY <1>3
  <2> QED BY <1>2, <2>1, <2>2, <2>3
<1>6. \A m \in Nodes : level'[p][m] = Plus(before[p], req[p], k, idx[p])[m]
  <2> SUFFICES ASSUME NEW m \in Nodes
               PROVE  level'[p][m] = Plus(before[p], req[p], k, idx[p])[m]
    OBVIOUS
  <2>1. level[p][m] = IF \E i \in DOMAIN req[p] : bck[p] < i /\ i < idx[p] /\ req[p][i] = m
                      THEN before[p][m] + 1 ELSE before[p][m]
    BY <1>0 DEF Plus
  <2>2. CASE m = n
    <3>1. ~\E i \in DOMAIN req[p] : k < i /\ i < idx[p] /\ req[p][i] = m
      BY <1>1, <1>2, <2>2
    <3>2. Plus(before[p], req[p], k, idx[p])[m] = before[p][m]
      BY <3>1 DEF Plus
    <3> QED BY <1>4, <1>5, <2>2, <3>2
  <2>3. CASE m # n
    <3>1. (\E i \in DOMAIN req[p] : k < i /\ i < idx[p] /\ req[p][i] = m)
            <=> (\E i \in DOMAIN req[p] : bck[p] < i /\ i < idx[p] /\ req[p][i] = m)
      <4>1. \A i \in DOMAIN req[p] : req[p][i] = m => (k < i <=> bck[p] < i)
        BY SMTT(30), <1>0, <1>1, <1>2, <2>3
      <4> QED BY <4>1
    <3>2. Plus(before[p], req[p], k, idx[p])[m] = level[p][m]
      BY <2>1, <3>1 DEF Plus
    <3> QED BY <1>5, <2>3, <3>2
  <2> QED BY <2>2, <2>3
<1>7. level'[p] = Plus(before[p], req[p], k, idx[p])
  <2>1. level'[p] \in [Nodes -> Nat]
    BY <1>5
  <2> QED BY <1>6, <2>1 DEF Plus
<1>8. CASE LastBckout(p)
  <2>1. bck' = [bck EXCEPT ![p] = 0] /\ pc' = [pc EXCEPT ![p] = "wait"]
    BY <1>3, <1>8
  <2>2. PassType' /\ PassFrame(p)
    BY <1>0, <1>3, <1>5, <2>1 DEF PassType, PrivType, PassFrame, Points
  <2>3. /\ pc'[p] = "wait" /\ bck'[p] = 0 /\ req'[p] = req[p] /\ idx'[p] = idx[p]
        /\ before'[p] = before[p]
    BY <1>0, <1>3, <2>1 DEF PassType, PrivType
  <2>4. level'[p] = before[p]
    <3>1. \A i \in Nat : ~(k < i /\ i < idx[p])
      BY <1>0, <1>2, <1>8 DEF LastBckout
    <3>2. before[p] \in [Nodes -> Nat] /\ req[p] \in Seq(Nodes)
      BY <1>0, <1>1
    <3>3. Plus(before[p], req[p], k, idx[p]) = before[p]
      BY <3>1, <3>2, PlusNone
    <3> QED BY <1>7, <3>3
  <2>5. Shape(p)' /\ Counted(p)'
    BY <1>1, <2>3, <2>4 DEF Shape, Counted, InPass, InWait, GcPoints
  <2> QED BY <2>2, <2>5, PassCombine
<1>9. CASE ~LastBckout(p)
  <2>1. bck' = [bck EXCEPT ![p] = @ + 1] /\ pc' = pc
    BY <1>3, <1>9
  <2>2. PassType' /\ PassFrame(p)
    BY <1>0, <1>3, <1>5, <2>1 DEF PassType, PrivType, PassFrame, Points
  <2>3. /\ pc'[p] = "bckout" /\ bck'[p] = k /\ req'[p] = req[p] /\ idx'[p] = idx[p]
        /\ before'[p] = before[p]
    BY <1>0, <1>2, <1>3, <2>1 DEF PassType, PrivType
  <2>4. k + 1 < idx[p]
    BY <1>0, <1>2, <1>9 DEF LastBckout
  <2>5. Shape(p)' /\ Counted(p)'
    BY <1>1, <1>7, <2>3, <2>4 DEF Shape, Counted, InPass, InWait, GcPoints
  <2> QED BY <2>2, <2>5, PassCombine
<1> QED BY <1>8, <1>9

\* The lock waited for is obtained: the command starts again with the first.
LEMMA PassRestart ==
    ASSUME PassInv, NEW p \in Pids, RetryGot(p) \/ Undo(p) PROVE PassInv'
<1> USE DEF lifeVars, At, GoTo
<1>0. /\ PassType /\ InWait(p) /\ level[p] = before[p] /\ bck[p] = 0
      /\ before[p] \in [Nodes -> Nat]
  BY DEF PassInv, PassType, PrivType, Shape, Counted, RetryGot, Undo, Locking, InWait,
         GcPoints
<1>1. /\ req[p] \in Requests /\ req[p] \in Seq(Nodes) /\ idx[p] \in DOMAIN req[p]
      /\ 1 \in DOMAIN req[p] /\ Target(p) \in Nodes
  BY <1>0, Names
<1>2. Plus(before[p], req[p], 0, 1) = before[p]
  <2>1. \A i \in Nat : ~(0 < i /\ i < 1)
    OBVIOUS
  <2> QED BY <1>0, <1>1, <2>1, PlusNone
<1>3. /\ UNCHANGED <<req, bck, new, dead, level, before>>
      /\ pc' = [pc EXCEPT ![p] = pc'[p]] /\ idx' = [idx EXCEPT ![p] = idx'[p]]
      /\ already' = [already EXCEPT ![p] = already'[p]]
      /\ already'[p] \in Nodes \union {NoNode}
      /\ \/ pc'[p] = "try" /\ idx'[p] = 1
         \/ pc'[p] = "undo" /\ idx'[p] = idx[p]
  <2>1. CASE RetryGot(p)
    <3>1. /\ UNCHANGED <<req, idx, bck, new, dead, level, before>>
          /\ pc' = [pc EXCEPT ![p] = IF idx[p] = 1 THEN "try" ELSE "undo"]
          /\ already' = [already EXCEPT ![p] = IF idx[p] = 1 THEN Target(p) ELSE @]
      BY <2>1 DEF RetryGot
    <3> QED BY <1>0, <1>1, <3>1 DEF PassType, PrivType
  <2>2. CASE Undo(p)
    <3>1. /\ UNCHANGED <<req, bck, new, dead, level, before>>
          /\ pc' = [pc EXCEPT ![p] = "try"] /\ idx' = [idx EXCEPT ![p] = 1]
          /\ already' = [already EXCEPT ![p] = NoNode]
      BY <2>2 DEF Undo
    <3> QED BY <1>0, <3>1 DEF PassType, PrivType
  <2> QED BY <2>1, <2>2
<1>4. PassType' /\ PassFrame(p)
  <2>1. idx'[p] \in Nat
    BY <1>0, <1>3 DEF PassType, PrivType
  <2> QED BY <1>0, <1>3, <2>1 DEF PassType, PrivType, PassFrame, Points
<1>5. Shape(p)' /\ Counted(p)'
  <2>1. CASE pc'[p] = "try" /\ idx'[p] = 1
    BY <1>0, <1>1, <1>2, <1>3, <2>1 DEF Shape, Counted, InPass, InWait, GcPoints
  <2>2. CASE pc'[p] = "undo" /\ idx'[p] = idx[p]
    BY <1>0, <1>1, <1>3, <2>2 DEF Shape, Counted, InPass, InWait, GcPoints
  <2> QED BY <1>3, <2>1, <2>2
<1> QED BY <1>4, <1>5, PassCombine

\* The invariant holds in every state, also if the stores of mlk_nocrit_unlock are
\* swapped.
LEMMA PassHolds == Spec => []PassInv
<1>1. Init => PassInv
  BY DEF Init, PassInv, PassType, PrivType, Points, Shape, Counted, InPass, InWait, GcPoints
<1>2. PassInv /\ [Next]_vars => PassInv'
  <2> SUFFICES ASSUME PassInv, [Next]_vars PROVE PassInv'
    OBVIOUS
  <2>1. CASE UNCHANGED vars
    BY <2>1 DEF vars, shmVars, lifeVars, cmdVars, pvtVars, PassInv, PassType, PrivType,
       Shape, Counted, InPass, InWait
  <2>2. CASE Quiescent
    BY <2>1, <2>2 DEF Quiescent
  <2>3. ASSUME NEW p \in Pids, Step(p) PROVE PassInv'
    <3>1. ASSUME TryAlready(p) \/ TryGot(p) PROVE PassInv'
      <4>1. InPass(p) /\ \E y : Obtained(p, y)
        BY <3>1 DEF TryAlready, TryGot, Locking, At, InPass, GcPoints
      <4> QED BY <4>1, PassObtained
    <3>2. CASE ExitDone(p)
      BY <3>2, PassOver DEF ExitDone
    <3> QED BY <2>3, <3>1, <3>2, PassBlocked, PassBckout, PassQuiet, PassRestart, PassOver
            DEF Step
  <2>4. ASSUME NEW p \in Pids, Application(p) PROVE PassInv'
    <3>1. CASE Kill(p)
      BY <3>1, PassOver DEF Kill
    <3> QED BY <2>4, <3>1, PassRequest, PassQuiet, PassOver DEF Application
  <2> QED BY <2>1, <2>2, <2>3, <2>4 DEF Next
<1> QED BY <1>1, <1>2, PTL DEF Spec

\* A command that waits, or gives up, has given back every lock it obtained, and
\* holds exactly what it held before.
THEOREM NothingKept == Spec => []AllOrNothing
<1>1. PassInv /\ OwnerType => AllOrNothing
  <2> SUFFICES ASSUME PassInv, OwnerType, NEW p \in alive, Waiting(p)
               PROVE  level[p] = before[p]
    BY DEF AllOrNothing
  <2>1. InWait(p) /\ pc[p] # "bckout" /\ p \in Pids
    BY DEF Waiting, InWait, OwnerType
  <2> QED BY <2>1 DEF PassInv, Counted
<1>2. ExclInv => OwnerType
  BY DEF ExclInv
<1> QED BY <1>1, <1>2, PassHolds, ExclHolds, PTL

----------------------------------------------------------------------------
(* Numbers and queues.                                                     *)

\* A non-empty set of numbers has a least one.
LEMMA LeastNumber ==
    ASSUME NEW T \in SUBSET Nat, T # {} PROVE \E x \in T : \A y \in T : x <= y
<1> DEFINE R == OpToRel(<, Nat)
<1>1. R = {ss \in Nat \X Nat : ss[1] < ss[2]}
  BY Zenon DEF OpToRel
<1>2. IsWellFoundedOn(R, Nat)
  BY NatLessThanWellFounded, Zenon
<1> HIDE DEF R
<1>3. \E x \in T : \A y \in T : ~(<<y, x>> \in R)
  BY <1>2, WFMin, Zenon
<1>4. PICK x \in T : \A y \in T : ~(<<y, x>> \in R)
  BY <1>3
<1>5. ASSUME NEW y \in T, y < x PROVE FALSE
  <2>1. <<y, x>> \in R
    BY <1>1, <1>5
  <2> QED BY <1>4, <2>1
<1>6. \A y \in T : x <= y
  BY <1>5
<1> QED BY <1>6

\* The j-th number of a set K of positions.
LEMMA Nth ==
    ASSUME NEW n \in Nat, NEW K \in SUBSET (1 .. n), NEW j \in 1 .. Cardinality(K)
    PROVE  \E i \in K : Cardinality({k \in K : k <= i}) = j
<1> DEFINE Upto(i) == {k \in K : k <= i}
           T == {i \in 0 .. n : j <= Cardinality(Upto(i))}
<1>0. IsFiniteSet(K) /\ Cardinality(K) \in Nat /\ j \in Nat /\ j > 0
  <2>1. IsFiniteSet(1 .. n)
    BY FS_Interval
  <2>2. IsFiniteSet(K)
    BY <2>1, FS_Subset
  <2> QED BY <2>2, FS_CardinalityType
<1>a. \A k \in K : k \in Nat /\ 1 <= k /\ k <= n
  OBVIOUS
<1>1. \A i \in Nat : IsFiniteSet(Upto(i)) /\ Cardinality(Upto(i)) \in Nat
  <2> TAKE i \in Nat
  <2>1. Upto(i) \in SUBSET K
    OBVIOUS
  <2>2. IsFiniteSet(Upto(i))
    BY <1>0, <2>1, FS_Subset
  <2> QED BY <2>2, FS_CardinalityType
<1>2. /\ \A i \in T : i \in 0 .. n /\ j <= Cardinality(Upto(i))
      /\ \A i \in 0 .. n : j <= Cardinality(Upto(i)) => i \in T
  OBVIOUS
<1>3. Upto(n) = K /\ Upto(0) = {}
  <2>1. \A k \in K : k <= n /\ ~(k <= 0)
    BY <1>a
  <2>2. Upto(n) = K
    BY <2>1
  <2>3. Upto(0) = {}
    BY <2>1
  <2> QED BY <2>2, <2>3
<1>5. ASSUME NEW h \in Nat
      PROVE  /\ h + 1 \in K => Upto(h + 1) = Upto(h) \union {h + 1}
             /\ h + 1 \notin K => Upto(h + 1) = Upto(h)
             /\ h + 1 \notin Upto(h)
  <2>1. /\ \A k \in K : k <= h + 1 <=> (k <= h \/ k = h + 1)
        /\ ~(h + 1 <= h) /\ h + 1 <= h + 1
    BY <1>a
  <2>2. ASSUME h + 1 \in K PROVE Upto(h + 1) = Upto(h) \union {h + 1}
    BY <2>1, <2>2
  <2>3. ASSUME h + 1 \notin K PROVE Upto(h + 1) = Upto(h)
    BY <2>1, <2>3
  <2> QED BY <2>1, <2>2, <2>3
<1> HIDE DEF T, Upto
<1>6. n \in T /\ T \subseteq Nat
  BY <1>0, <1>2, <1>3
<1>7. PICK i \in T : \A y \in T : i <= y
  BY <1>6, LeastNumber
<1>8. i \in 0 .. n /\ j <= Cardinality(Upto(i))
  BY <1>2, <1>7
<1>9. i # 0
  BY <1>0, <1>3, <1>8, FS_EmptySet
<1>10. PICK h \in Nat : i = h + 1
  <2>1. i - 1 \in Nat /\ i = (i - 1) + 1
    BY <1>8, <1>9
  <2> QED BY <2>1
<1>11. h \in 0 .. n /\ ~(i <= h)
  BY <1>8, <1>10
<1>12. h \notin T
  BY <1>7, <1>11
<1>13. Cardinality(Upto(h)) < j
  BY <1>0, <1>1, <1>2, <1>11, <1>12
<1>14. CASE i \notin K
  <2>1. Upto(i) = Upto(h)
    BY <1>5, <1>10, <1>14
  <2> QED BY <1>0, <1>1, <1>8, <1>13, <2>1
<1>15. CASE i \in K
  <2>1. Upto(i) = Upto(h) \union {i} /\ i \notin Upto(h) /\ IsFiniteSet(Upto(h))
        /\ Cardinality(Upto(h)) \in Nat
    BY <1>1, <1>5, <1>10, <1>15
  <2>2. Cardinality(Upto(i)) = Cardinality(Upto(h)) + 1
    BY <2>1, FS_AddElement
  <2>3. Cardinality(Upto(i)) = j
    BY <1>0, <1>8, <1>13, <2>1, <2>2
  <2> QED BY <1>15, <2>3 DEF Upto
<1> QED BY <1>14, <1>15

\* Which of the positions of K, in their order, i is.
Rank(K, i) == Cardinality({k \in K : k <= i})

\* What Entries takes from a queue: no more entries than there are, each from its
\* own position.
LEMMA EntriesOf ==
    ASSUME NEW S, NEW s \in Seq(S), NEW K \in SUBSET (DOMAIN s)
    PROVE  /\ Entries(s, K) \in Seq(S) /\ Len(Entries(s, K)) \in 0 .. Len(s)
           /\ DOMAIN Entries(s, K) = 1 .. Len(Entries(s, K))
           /\ \A j \in DOMAIN Entries(s, K) :
                 \E i \in K : Entries(s, K)[j] = s[i] /\ Rank(K, i) = j
<1> DEFINE c == Cardinality(K)
           at(j) == CHOOSE i \in K : Cardinality({k \in K : k <= i}) = j
<1>1. IsFiniteSet(K) /\ c \in Nat /\ c <= Len(s) /\ Len(s) \in Nat
  <2>1. Len(s) \in Nat /\ DOMAIN s = 1 .. Len(s)
    OBVIOUS
  <2>2. IsFiniteSet(DOMAIN s) /\ Cardinality(DOMAIN s) = Len(s)
    <3>1. /\ IsFiniteSet(1 .. Len(s))
          /\ Cardinality(1 .. Len(s)) = IF 1 > Len(s) THEN 0 ELSE Len(s) - 1 + 1
      BY <2>1, FS_Interval
    <3> QED BY <2>1, <3>1
  <2>3. IsFiniteSet(K) /\ c <= Cardinality(DOMAIN s)
    BY <2>2, FS_Subset
  <2> QED BY <2>1, <2>2, <2>3, FS_CardinalityType
<1>2. ASSUME NEW j \in 1 .. c
      PROVE  /\ at(j) \in K /\ at(j) \in DOMAIN s
             /\ Cardinality({k \in K : k <= at(j)}) = j
  <2>1. Len(s) \in Nat /\ K \in SUBSET (1 .. Len(s))
    OBVIOUS
  <2>2. \E i \in K : Cardinality({k \in K : k <= i}) = j
    BY <2>1, Nth
  <2> QED BY <2>2
<1>3. Entries(s, K) = [j \in 1 .. c |-> s[at(j)]]
  BY DEF Entries
<1> HIDE DEF at, c
<1>4. Entries(s, K) \in [1 .. c -> S]
  <2>1. ASSUME NEW j \in 1 .. c PROVE s[at(j)] \in S
    <3>1. at(j) \in DOMAIN s
      BY <1>2
    <3> QED BY <3>1
  <2> QED BY <1>3, <2>1
<1>5. Entries(s, K) \in Seq(S) /\ Len(Entries(s, K)) = c /\ DOMAIN Entries(s, K) = 1 .. c
  BY <1>1, <1>4
<1>6. ASSUME NEW j \in 1 .. c
      PROVE  \E i \in K : Entries(s, K)[j] = s[i] /\ Rank(K, i) = j
  <2>1. Entries(s, K)[j] = s[at(j)]
    BY <1>3
  <2>2. at(j) \in K /\ Rank(K, at(j)) = j
    BY <1>2 DEF Rank
  <2> QED BY <2>1, <2>2
<1>7. Len(Entries(s, K)) \in 0 .. Len(s)
  BY <1>1, <1>5
<1> HIDE DEF Entries
<1> QED BY <1>5, <1>6, <1>7

----------------------------------------------------------------------------
(* The queues.                                                             *)

\* t is a queue with some of the entries of the queue s.
Drawn(t, s) ==
    /\ t \in Seq(Pids) /\ Len(t) <= Len(s)
    /\ \A j \in DOMAIN t : \E i \in DOMAIN s : s[i] = t[j]
    /\ \A j, k \in DOMAIN t : j # k /\ t[j] = t[k] =>
          \E i, l \in DOMAIN s : i # l /\ s[i] = t[j] /\ s[l] = t[j]

\* A queue is drawn from itself.
LEMMA DrawnSelf == ASSUME NEW s \in Seq(Pids) PROVE Drawn(s, s)
<1>1. Len(s) \in Nat
  OBVIOUS
<1> QED BY <1>1 DEF Drawn

\* What is drawn from a queue drawn from s is drawn from s.
LEMMA DrawnTwice ==
    ASSUME NEW s \in Seq(Pids), NEW t, NEW u, Drawn(t, s), Drawn(u, t)
    PROVE  Drawn(u, s)
<1>1. t \in Seq(Pids) /\ u \in Seq(Pids) /\ Len(u) <= Len(t) /\ Len(t) <= Len(s)
  BY DEF Drawn
<1>2. Len(u) \in Nat /\ Len(t) \in Nat /\ Len(s) \in Nat
  BY <1>1
<1>3. Len(u) <= Len(s)
  BY <1>1, <1>2
<1>4. \A j \in DOMAIN u : \E i \in DOMAIN s : s[i] = u[j]
  <2> TAKE j \in DOMAIN u
  <2>1. PICK k \in DOMAIN t : t[k] = u[j]
    BY DEF Drawn
  <2>2. PICK i \in DOMAIN s : s[i] = t[k]
    BY DEF Drawn
  <2> QED BY <2>1, <2>2
<1>5. ASSUME NEW j \in DOMAIN u, NEW k \in DOMAIN u, j # k, u[j] = u[k]
      PROVE  \E i, l \in DOMAIN s : i # l /\ s[i] = u[j] /\ s[l] = u[j]
  <2>1. PICK a, b \in DOMAIN t : a # b /\ t[a] = u[j] /\ t[b] = u[j]
    BY <1>5 DEF Drawn
  <2>2. PICK i, l \in DOMAIN s : i # l /\ s[i] = t[a] /\ s[l] = t[a]
    BY <2>1 DEF Drawn
  <2> QED BY <2>1, <2>2
<1> QED BY <1>1, <1>3, <1>4, <1>5 DEF Drawn

\* The queues clean_pids and mlk_prcblk_delete leave are drawn from those there were.
LEMMA DrawnEntries ==
    ASSUME NEW s \in Seq(Pids), NEW K \in SUBSET (DOMAIN s) PROVE Drawn(Entries(s, K), s)
<1>0. /\ Entries(s, K) \in Seq(Pids) /\ Len(Entries(s, K)) \in 0 .. Len(s)
      /\ \A j \in DOMAIN Entries(s, K) :
            \E i \in K : Entries(s, K)[j] = s[i] /\ Rank(K, i) = j
  BY EntriesOf
<1> DEFINE t == Entries(s, K)
<1> HIDE DEF t
<1>1. /\ t \in Seq(Pids) /\ Len(t) \in 0 .. Len(s)
      /\ \A j \in DOMAIN t :
            \E i \in K : t[j] = s[i] /\ Rank(K, i) = j
  BY <1>0 DEF t
<1>2. Len(s) \in Nat /\ Len(t) <= Len(s)
  BY <1>1
<1>3. ASSUME NEW j \in DOMAIN t, NEW k \in DOMAIN t, j # k, t[j] = t[k]
      PROVE  \E i, l \in DOMAIN s : i # l /\ s[i] = t[j] /\ s[l] = t[j]
  <2>1. PICK i \in K : t[j] = s[i] /\ Rank(K, i) = j
    BY <1>1
  <2>2. PICK l \in K : t[k] = s[l] /\ Rank(K, l) = k
    BY <1>1
  <2>3. i # l
    BY <1>3, <2>1, <2>2
  <2> QED BY <1>3, <2>1, <2>2, <2>3
<1>4. \A j \in DOMAIN t : \E i \in DOMAIN s : s[i] = t[j]
  BY <1>1
<1>5. Drawn(t, s)
  BY <1>1, <1>2, <1>3, <1>4 DEF Drawn
<1> QED BY <1>5 DEF t

\* mlk_prcblk_delete: of a process that is in the queue once, nothing is left.
LEMMA DrawnWithout ==
    ASSUME NEW s \in Seq(Pids), NEW p
    PROVE  /\ Drawn(Without(s, p), s)
           /\ (\A i, j \in DOMAIN s : s[i] = p /\ s[j] = p => i = j)
                => ~Contains(Without(s, p), p)
<1> DEFINE K == DOMAIN s \ {i \in DOMAIN s : s[i] = p /\ \A j \in 1 .. i - 1 : s[j] # p}
<1>1. Without(s, p) = Entries(s, K) /\ K \in SUBSET (DOMAIN s)
  BY DEF Without
<1>2. Drawn(Without(s, p), s)
  BY <1>1, DrawnEntries
<1>3. ASSUME \A i, j \in DOMAIN s : s[i] = p /\ s[j] = p => i = j
      PROVE  \A i \in K : s[i] # p
  <2> SUFFICES ASSUME NEW i \in DOMAIN s, s[i] = p PROVE i \notin K
    OBVIOUS
  <2>1. ASSUME NEW j \in 1 .. i - 1 PROVE s[j] # p
    <3>1. j \in DOMAIN s /\ j # i
      OBVIOUS
    <3> QED BY <1>3, <3>1
  <2> QED BY <2>1
<1>4. \A j \in DOMAIN Entries(s, K) : \E i \in K : Entries(s, K)[j] = s[i]
  <2>1. \A j \in DOMAIN Entries(s, K) :
           \E i \in K : Entries(s, K)[j] = s[i] /\ Rank(K, i) = j
    <3> HIDE DEF K
    <3> QED BY <1>1, EntriesOf
  <2> QED BY <2>1
<1> HIDE DEF K
<1> QED BY <1>1, <1>2, <1>3, <1>4 DEF Contains

\* mlk_wake_pending removes entries from the head.
LEMMA DrawnWake ==
    ASSUME NEW s \in Seq(Pids) PROVE Drawn(mlk_wake_pending(s), s)
<1> DEFINE live == {i \in DOMAIN s : s[i] \in alive}
<1>0. Len(s) \in Nat /\ DOMAIN s = 1 .. Len(s)
  OBVIOUS
<1>1. CASE live = {}
  <2>1. mlk_wake_pending(s) = << >>
    BY <1>1 DEF mlk_wake_pending
  <2> QED BY <1>0, <2>1 DEF Drawn
<1>2. CASE live # {}
  <2>1. live \in SUBSET Nat
    OBVIOUS
  <2>2. \E i \in live : \A j \in live : i <= j
    BY <1>2, <2>1, LeastNumber
  <2>3. PICK i \in live : mlk_wake_pending(s) = SubSeq(s, i, Len(s))
    BY <1>2, <2>2 DEF mlk_wake_pending
  <2>4. i \in 1 .. Len(s) /\ i \in Nat
    BY <1>0
  <2> DEFINE t == SubSeq(s, i, Len(s))
  <2>5. t \in Seq(Pids) /\ Len(t) = Len(s) - i + 1 /\ DOMAIN t = 1 .. Len(s) - i + 1
    BY <1>0, <2>4
  <2>6. \A j \in DOMAIN t : t[j] = s[i + j - 1] /\ i + j - 1 \in DOMAIN s /\ j \in Nat
    BY <1>0, <2>4
  <2> HIDE DEF t
  <2>7. ASSUME NEW j \in DOMAIN t, NEW k \in DOMAIN t, j # k, t[j] = t[k]
        PROVE  \E a, b \in DOMAIN s : a # b /\ s[a] = t[j] /\ s[b] = t[j]
    <3>1. /\ s[i + j - 1] = t[j] /\ s[i + k - 1] = t[j] /\ i + j - 1 # i + k - 1
          /\ i + j - 1 \in DOMAIN s /\ i + k - 1 \in DOMAIN s
      BY <2>4, <2>6, <2>7
    <3> QED BY <3>1
  <2>8. Drawn(t, s)
    BY <1>0, <2>4, <2>5, <2>6, <2>7 DEF Drawn
  <2> QED BY <2>3, <2>8 DEF t
<1> QED BY <1>1, <1>2

----------------------------------------------------------------------------
(* The lock space.                                                         *)

\* The mlk_prcblks in use.
Queued(q) == UNION {{n} \X DOMAIN q[n] : n \in Nodes}

TreeType ==
    /\ tree \subseteq Nodes /\ IsFiniteSet(tree)
    /\ pending \in [Nodes -> Seq(Pids)]
    /\ IsFiniteSet(Queued(pending))

TreeInv == TreeType /\ TreeOK

\* One for each entry of each queue.
LEMMA QueuedIs ==
    ASSUME NEW q \in [Nodes -> Seq(Pids)]
    PROVE  \A e : e \in Queued(q) <=> \E n \in Nodes : \E i \in DOMAIN q[n] : e = <<n, i>>
<1> TAKE e
<1>1. ASSUME e \in Queued(q) PROVE \E n \in Nodes : \E i \in DOMAIN q[n] : e = <<n, i>>
  <2>1. PICK n \in Nodes : e \in {n} \X DOMAIN q[n]
    BY <1>1 DEF Queued
  <2>2. e[1] = n /\ e[2] \in DOMAIN q[n] /\ e = <<e[1], e[2]>>
    BY <2>1
  <2> QED BY <2>2
<1>2. ASSUME NEW n \in Nodes, NEW i \in DOMAIN q[n], e = <<n, i>> PROVE e \in Queued(q)
  <2>1. e \in {n} \X DOMAIN q[n]
    BY <1>2
  <2> QED BY <2>1 DEF Queued
<1> QED BY <1>1, <1>2

\* Shorter queues need no more of them.
LEMMA QueuedLess ==
    ASSUME NEW q \in [Nodes -> Seq(Pids)], NEW r \in [Nodes -> Seq(Pids)],
           \A n \in Nodes : Len(r[n]) <= Len(q[n]), IsFiniteSet(Queued(q))
    PROVE  /\ IsFiniteSet(Queued(r)) /\ Cardinality(Queued(r)) <= Cardinality(Queued(q))
           /\ Cardinality(Queued(q)) \in Nat /\ Cardinality(Queued(r)) \in Nat
<1>1. \A n \in Nodes : \A i \in DOMAIN r[n] : i \in DOMAIN q[n]
  <2> TAKE n \in Nodes
  <2>1. /\ q[n] \in Seq(Pids) /\ r[n] \in Seq(Pids) /\ Len(q[n]) \in Nat /\ Len(r[n]) \in Nat
        /\ DOMAIN q[n] = 1 .. Len(q[n]) /\ DOMAIN r[n] = 1 .. Len(r[n])
        /\ Len(r[n]) <= Len(q[n])
    OBVIOUS
  <2> QED BY <2>1
<1>2. Queued(r) \in SUBSET Queued(q)
  <2> SUFFICES ASSUME NEW e \in Queued(r) PROVE e \in Queued(q)
    OBVIOUS
  <2>1. PICK n \in Nodes : \E i \in DOMAIN r[n] : e = <<n, i>>
    BY QueuedIs
  <2>2. \E i \in DOMAIN q[n] : e = <<n, i>>
    BY <1>1, <2>1
  <2> QED BY <2>2, QueuedIs
<1>3. IsFiniteSet(Queued(r)) /\ Cardinality(Queued(r)) <= Cardinality(Queued(q))
  BY <1>2, FS_Subset
<1> QED BY <1>3, FS_CardinalityType

\* One more entry needs one more.
LEMMA QueuedMore ==
    ASSUME NEW q \in [Nodes -> Seq(Pids)], NEW n \in Nodes, NEW p \in Pids,
           IsFiniteSet(Queued(q)), NEW r \in [Nodes -> Seq(Pids)],
           \A m \in Nodes : r[m] = IF m = n THEN Append(q[n], p) ELSE q[m]
    PROVE  /\ IsFiniteSet(Queued(r)) /\ Cardinality(Queued(r)) <= Cardinality(Queued(q)) + 1
           /\ Cardinality(Queued(q)) \in Nat
<1> DEFINE e == <<n, Len(q[n]) + 1>>
<1>1. /\ q[n] \in Seq(Pids) /\ Len(q[n]) \in Nat /\ DOMAIN q[n] = 1 .. Len(q[n])
      /\ Append(q[n], p) \in Seq(Pids)
      /\ DOMAIN Append(q[n], p) = 1 .. Len(q[n]) + 1
  OBVIOUS
<1>3. Queued(r) \subseteq Queued(q) \union {e}
  <2> SUFFICES ASSUME NEW x \in Queued(r) PROVE x \in Queued(q) \union {e}
    OBVIOUS
  <2>1. PICK m \in Nodes : \E i \in DOMAIN r[m] : x = <<m, i>>
    BY QueuedIs
  <2>0. PICK i \in DOMAIN r[m] : x = <<m, i>>
    BY <2>1
  <2>2. CASE m # n
    <3>1. i \in DOMAIN q[m]
      BY <2>2
    <3> QED BY <2>0, <3>1, QueuedIs
  <2>3. CASE m = n
    <3>1. i \in 1 .. Len(q[n]) + 1
      BY <1>1, <2>3
    <3>2. i \in DOMAIN q[n] \/ i = Len(q[n]) + 1
      BY <1>1, <3>1
    <3> QED BY <2>0, <2>3, <3>2, QueuedIs
  <2> QED BY <2>2, <2>3
<1> HIDE DEF e
<1>4. Cardinality(Queued(q)) \in Nat
  BY FS_CardinalityType
<1>5. /\ IsFiniteSet(Queued(q) \union {e})
      /\ Cardinality(Queued(q) \union {e}) = IF e \in Queued(q) THEN Cardinality(Queued(q))
                                             ELSE Cardinality(Queued(q)) + 1
  BY FS_AddElement
<1>6. IsFiniteSet(Queued(r)) /\ Cardinality(Queued(r)) <= Cardinality(Queued(q) \union {e})
  BY <1>3, <1>5, FS_Subset
<1>7. Cardinality(Queued(r)) \in Nat
  BY <1>6, FS_CardinalityType
<1>8. Cardinality(Queued(r)) <= Cardinality(Queued(q)) + 1
  BY <1>4, <1>5, <1>6, <1>7
<1> QED BY <1>4, <1>6, <1>8

\* Nodes are only deleted, and queues only get shorter.
TreeShrinks ==
    /\ tree' \subseteq tree
    /\ pending' \in [Nodes -> Seq(Pids)]
    /\ \A n \in Nodes : Drawn(pending'[n], pending[n])
    /\ \A n \in tree' : Prefix[n] \subseteq tree'
    /\ \A n \in Nodes \ tree' : owner'[n] = NoPid /\ pending'[n] = << >>

\* Such a step preserves the invariant.
LEMMA ShrinkTree == TreeInv /\ TreeShrinks => TreeInv'
<1> SUFFICES ASSUME TreeInv, TreeShrinks PROVE TreeInv'
  OBVIOUS
<1> USE DEF TreeInv, TreeType, TreeShrinks
<1>1. /\ IsFiniteSet(tree') /\ Cardinality(tree') <= Cardinality(tree)
      /\ Cardinality(tree') \in Nat /\ Cardinality(tree) \in Nat
  <2>1. IsFiniteSet(tree') /\ Cardinality(tree') <= Cardinality(tree)
    BY FS_Subset
  <2> QED BY <2>1, FS_CardinalityType
<1>2. Cardinality(tree') <= MaxBlk
  BY <1>1, MLockAssumption DEF TreeOK
<1>3. /\ IsFiniteSet(Queued(pending')) /\ Cardinality(Queued(pending')) <= Cardinality(Queued(pending))
      /\ Cardinality(Queued(pending')) \in Nat /\ Cardinality(Queued(pending)) \in Nat
  <2>1. \A n \in Nodes : Len(pending'[n]) <= Len(pending[n])
    BY DEF Drawn
  <2> QED BY <2>1, QueuedLess
<1>4. Cardinality(Queued(pending)) <= MaxPrc
  BY DEF TreeOK, Queued
<1>5. Cardinality(Queued(pending')) <= MaxPrc
  BY <1>3, <1>4, MLockAssumption
<1>6. TreeOK'
  BY <1>2, <1>5 DEF TreeOK, Queued
<1>7. Queued(pending)' = Queued(pending')
  BY DEF Queued
<1> QED BY <1>1, <1>3, <1>6, <1>7

\* Steps that leave the tree and the queues alone.
LEMMA SameTree ==
    ASSUME TreeInv, ExclInv', tree' = tree, pending' = pending PROVE TreeInv'
<1>1. \A n \in Nodes : Drawn(pending[n], pending[n])
  BY DrawnSelf DEF TreeInv, TreeType
<1>2. TreeShrinks
  BY <1>1 DEF TreeShrinks, TreeInv, TreeType, TreeOK, ExclInv, OwnedInTree
<1> QED BY <1>2, ShrinkTree

\* mlk_unlock deletes a node only with all those below it, and none that is in use.
LEMMA UnlockTree ==
    ASSUME TreeInv, OwnerType, NEW p \in Pids, NEW n \in Nodes, mlk_unlock(p, n)
    PROVE  TreeShrinks
<1> USE DEF TreeInv, TreeType
<1>0. \A d \in Nodes : pending[d] \in Seq(Pids) /\ Len(pending[d]) \in Nat
  OBVIOUS
<1>1. CASE UNCHANGED <<owner, pending, tree, valid, blocked>>
  <2>1. \A d \in Nodes : Drawn(pending[d], pending[d])
    BY <1>0, DrawnSelf
  <2> QED BY <1>1, <2>1 DEF TreeShrinks, TreeOK
<1>2. CASE owner[n] = p /\ n \in valid
  <2>1. /\ owner' = [owner EXCEPT ![n] = NoPid]
        /\ pending' = [d \in Nodes |-> IF d \in WokenBy(n)
                                       THEN mlk_wake_pending(pending[d])
                                       ELSE pending[d]]
        /\ tree' = tree \ DeletedBy(n)
    BY <1>2 DEF mlk_unlock
  <2>2. \A d \in Nodes : Drawn(pending'[d], pending[d])
    BY <1>0, <2>1, DrawnWake, DrawnSelf
  <2>3. pending' \in [Nodes -> Seq(Pids)] /\ \A d \in Nodes : Len(pending'[d]) <= Len(pending[d])
    <3>1. \A d \in Nodes : pending'[d] \in Seq(Pids) /\ Len(pending'[d]) <= Len(pending[d])
      BY <2>2 DEF Drawn
    <3>2. pending' = [d \in Nodes |-> pending'[d]]
      BY <2>1
    <3> QED BY <3>1, <3>2
  <2>4. \A d \in Nodes : pending[d] = << >> => pending'[d] = << >>
    <3> SUFFICES ASSUME NEW d \in Nodes, pending[d] = << >> PROVE pending'[d] = << >>
      OBVIOUS
    <3>1. pending'[d] \in Seq(Pids) /\ Len(pending'[d]) <= 0 /\ Len(pending'[d]) \in Nat
      BY <2>3
    <3> QED BY <3>1
  <2>5. ASSUME NEW d \in Nodes \ tree' PROVE owner'[d] = NoPid /\ pending'[d] = << >>
    <3>1. CASE d \notin tree
      BY <2>1, <2>4, <2>5, <3>1 DEF TreeOK, OwnerType
    <3>2. CASE d \in tree /\ d \in DeletedBy(n)
      <4>1. (d = n \/ owner[d] = NoPid) /\ pending[d] = << >>
        BY <3>2 DEF DeletedBy
      <4> QED BY <2>1, <2>4, <2>5, <4>1 DEF OwnerType
    <3> QED BY <2>1, <2>5, <3>1, <3>2
  <2>6. ASSUME NEW m \in tree', NEW k \in Prefix[m] PROVE k \in tree'
    <3>1. m \in tree /\ m \notin DeletedBy(n) /\ k \in tree /\ m \in Nodes /\ k \in Nodes
      BY <2>1, <2>6 DEF TreeOK
    <3>2. \A c \in Under(m) \union {m} : c \in Under(k)
      BY <2>6, <3>1, MLockAssumption DEF Under
    <3>3. ASSUME k \in DeletedBy(n) PROVE FALSE
      <4>1. \A c \in tree \intersect (Under(m) \union {m}) :
               /\ c \in Reached(n) \union Path(n)
               /\ c = n \/ owner[c] = NoPid
               /\ pending[c] = << >>
        BY <3>2, <3>3 DEF DeletedBy
      <4>2. m \in DeletedBy(n)
        BY <3>1, <4>1 DEF DeletedBy
      <4> QED BY <3>1, <4>2
    <3> QED BY <2>1, <3>1, <3>3
  <2>7. tree' \subseteq tree
    BY <2>1
  <2> QED BY <2>2, <2>3, <2>5, <2>6, <2>7 DEF TreeShrinks
<1> QED BY <1>1, <1>2 DEF mlk_unlock

\* clean_pids too.
LEMMA CleanTree ==
    ASSUME TreeInv, OwnerType, NEW p \in Pids, clean_pids(p)
    PROVE  TreeShrinks
<1> DEFINE D == dead[p]
           K(n) == {i \in DOMAIN pending[n] : i = Len(pending[n]) \/ pending[n][i] \notin D}
           queue(n) == Entries(pending[n], K(n))
           free(n) == owner[n] \in D \union {NoPid}
           unused == {n \in tree : \A m \in tree \intersect (Under(n) \union {n}) :
                                      free(m) /\ queue(m) = << >>}
<1> USE DEF TreeInv, TreeType
<1>1. /\ pending' = [n \in Nodes |-> queue(n)]
      /\ owner' = [n \in Nodes |-> IF free(n) THEN NoPid ELSE owner[n]]
      /\ tree' = tree \ unused
  BY Zenon DEF clean_pids
<1>2. \A n \in Nodes : Drawn(queue(n), pending[n])
  <2> TAKE n \in Nodes
  <2>1. pending[n] \in Seq(Pids) /\ K(n) \in SUBSET (DOMAIN pending[n])
    OBVIOUS
  <2> HIDE DEF K
  <2> QED BY <2>1, DrawnEntries
<1>3. /\ unused \subseteq tree
      /\ \A n \in tree : n \in unused <=>
            \A m \in tree \intersect (Under(n) \union {n}) : free(m) /\ queue(m) = << >>
  BY Zenon
<1> HIDE DEF queue, unused
<1>4. /\ pending' \in [Nodes -> Seq(Pids)]
      /\ \A d \in Nodes : pending'[d] = queue(d) /\ Len(pending'[d]) <= Len(pending[d])
      /\ \A d \in Nodes : Drawn(pending'[d], pending[d])
  <2>1. \A d \in Nodes : queue(d) \in Seq(Pids) /\ Len(queue(d)) <= Len(pending[d])
    BY <1>2 DEF Drawn
  <2> QED BY <1>1, <1>2, <2>1
<1>5. ASSUME NEW d \in Nodes \ tree' PROVE owner'[d] = NoPid /\ pending'[d] = << >>
  <2>1. CASE d \notin tree
    <3>1. pending[d] = << >> /\ owner[d] = NoPid
      BY <2>1 DEF TreeOK
    <3>2. pending'[d] \in Seq(Pids) /\ Len(pending'[d]) <= 0 /\ Len(pending'[d]) \in Nat
      BY <1>4, <3>1
    <3> QED BY <1>1, <3>1, <3>2
  <2>2. CASE d \in unused
    <3>1. free(d) /\ queue(d) = << >>
      BY <1>3, <2>2
    <3> QED BY <1>1, <1>4, <3>1
  <2> QED BY <1>1, <2>1, <2>2
<1>6. ASSUME NEW m \in tree', NEW k \in Prefix[m] PROVE k \in tree'
  <2>1. m \in tree /\ m \notin unused /\ k \in tree /\ m \in Nodes /\ k \in Nodes
    BY <1>1, <1>6 DEF TreeOK
  <2>2. \A c \in Under(m) \union {m} : c \in Under(k)
    BY <1>6, <2>1, MLockAssumption DEF Under
  <2>3. k \notin unused
    <3> HIDE DEF free
    <3> QED BY <1>3, <2>1, <2>2
  <2> QED BY <1>1, <2>1, <2>3
<1>7. tree' \subseteq tree
  BY <1>1
<1> QED BY <1>4, <1>5, <1>6, <1>7 DEF TreeShrinks

\* How the queues after mlk_lock come from queues w.
QueuesFrom(p, n, isNew, w) ==
    /\ \A d \in Nodes : Drawn(w[d], pending[d])
    /\ \/ /\ Grantable(p, n) /\ ~isNew /\ w[n] = pending[n]
          /\ Queues(p, n, isNew) = [w EXCEPT ![n] = Without(@, p)]
       \/ /\ ~Got(p, n) /\ isNew /\ Room(n) /\ PrcFree(w) /\ ~Contains(w[n], p)
          /\ Queues(p, n, isNew) = [w EXCEPT ![n] = Append(@, p)]
       \/ /\ ~(Grantable(p, n) /\ ~isNew)
          /\ Queues(p, n, isNew) = w

\* What mlk_lock does to the queues: those of nodes that let others go first are
\* woken, and p leaves or joins that of its target.
LEMMA QueuesOf ==
    ASSUME NEW p \in Pids, NEW n \in Nodes, NEW isNew \in BOOLEAN, pending \in [Nodes -> Seq(Pids)]
    PROVE  \E w \in [Nodes -> Seq(Pids)] : QueuesFrom(p, n, isNew, w)
<1> DEFINE w == [d \in Nodes |-> IF d \in Yields(p, n) THEN mlk_wake_pending(pending[d])
                                 ELSE pending[d]]
<1>1. \A d \in Nodes : Drawn(w[d], pending[d])
  BY DrawnWake, DrawnSelf
<1>2. w \in [Nodes -> Seq(Pids)]
  <2>1. \A d \in Nodes : w[d] \in Seq(Pids)
    BY <1>1 DEF Drawn
  <2>2. w = [d \in Nodes |-> w[d]]
    OBVIOUS
  <2> HIDE DEF w
  <2> QED BY <2>1, <2>2
<1>3. Grantable(p, n) => w[n] = pending[n]
  BY DEF Grantable
<1>4. Queues(p, n, isNew) =
         IF Grantable(p, n) /\ ~isNew THEN [w EXCEPT ![n] = Without(@, p)]
         ELSE IF ~Got(p, n) /\ isNew /\ Room(n) /\ PrcFree(w) /\ ~Contains(w[n], p)
         THEN [w EXCEPT ![n] = Append(@, p)]
         ELSE w
  BY Zenon DEF Queues
<1> HIDE DEF w
<1> QED BY <1>1, <1>2, <1>3, <1>4 DEF QueuesFrom

\* mlk_lock adds the nodes of a path if there is room, and an entry to a queue if
\* there is a mlk_prcblk.
LEMMA LockTree ==
    ASSUME TreeInv, ExclInv, NEW p \in Pids, NEW isNew \in BOOLEAN, Target(p) \in Nodes,
           mlk_lock(p, isNew), ExclInv'
    PROVE  TreeInv'
<1> DEFINE n == Target(p)
<1>0. /\ tree \subseteq Nodes /\ IsFiniteSet(tree) /\ pending \in [Nodes -> Seq(Pids)]
      /\ IsFiniteSet(Queued(pending)) /\ n \in Nodes /\ TreeOK
      /\ tree' = IF Room(n) THEN tree \union Path(n) ELSE tree
      /\ pending' = Queues(p, n, isNew)
      /\ IsFiniteSet(Prefix[n]) /\ Prefix[n] \subseteq Nodes
  BY MLockAssumption DEF TreeInv, TreeType, mlk_lock
<1> HIDE DEF n
<1>1. tree' \subseteq Nodes /\ IsFiniteSet(tree') /\ Cardinality(tree') <= MaxBlk
  <2>1. CASE ~Room(n)
    BY <1>0, <2>1 DEF TreeOK
  <2>2. CASE Room(n)
    <3>1. IsFiniteSet(Path(n)) /\ Path(n) \subseteq Nodes
      BY <1>0, FS_AddElement DEF Path
    <3> DEFINE A == Path(n) \ tree
    <3>2. IsFiniteSet(A)
      BY <3>1, FS_Difference
    <3>3. tree' = tree \union A /\ tree \intersect A = {}
      BY <1>0, <2>2
    <3>4. Cardinality(A) <= MaxBlk - Cardinality(tree)
      <4>1. Cardinality(A) \in Nat /\ Cardinality(tree) \in Nat
        BY <1>0, <3>2, FS_CardinalityType
      <4>2. MaxBlk - Cardinality(tree) >= Cardinality(A)
        BY <2>2 DEF Room, FreeBlks
      <4> HIDE DEF A
      <4> QED BY <4>1, <4>2, MLockAssumption
    <3> HIDE DEF A
    <3>5. /\ IsFiniteSet(tree \union A)
          /\ Cardinality(tree \union A)
                = Cardinality(tree) + Cardinality(A) - Cardinality(tree \intersect A)
      BY <1>0, <3>2, FS_Union
    <3>6. Cardinality(tree \intersect A) = 0
      BY <3>3, FS_EmptySet
    <3>7. Cardinality(A) \in Nat /\ Cardinality(tree) \in Nat
      BY <1>0, <3>2, FS_CardinalityType
    <3>8. Cardinality(tree \union A) = Cardinality(tree) + Cardinality(A)
      BY <3>5, <3>6, <3>7
    <3>9. Cardinality(tree') <= MaxBlk
      BY <3>3, <3>4, <3>7, <3>8, MLockAssumption
    <3> QED BY <1>0, <2>2, <3>1, <3>3, <3>5, <3>9
  <2> QED BY <2>1, <2>2
<1>a. PICK w \in [Nodes -> Seq(Pids)] : QueuesFrom(p, n, isNew, w)
  BY <1>0, QueuesOf
<1>2. /\ \A d \in Nodes : Drawn(w[d], pending[d])
      /\ \/ /\ Grantable(p, n) /\ ~isNew /\ w[n] = pending[n]
            /\ Queues(p, n, isNew) = [w EXCEPT ![n] = Without(@, p)]
         \/ /\ ~Got(p, n) /\ isNew /\ Room(n) /\ PrcFree(w) /\ ~Contains(w[n], p)
            /\ Queues(p, n, isNew) = [w EXCEPT ![n] = Append(@, p)]
         \/ /\ ~(Grantable(p, n) /\ ~isNew)
            /\ Queues(p, n, isNew) = w
  BY <1>a DEF QueuesFrom
<1>3. /\ \A d \in Nodes : pending[d] \in Seq(Pids) /\ Len(pending[d]) \in Nat
      /\ \A d \in Nodes : w[d] \in Seq(Pids) /\ Len(w[d]) \in Nat
                          /\ Len(w[d]) <= Len(pending[d])
  BY <1>0, <1>2 DEF Drawn
<1>4. /\ IsFiniteSet(Queued(w)) /\ Cardinality(Queued(w)) <= Cardinality(Queued(pending))
      /\ Cardinality(Queued(w)) \in Nat /\ Cardinality(Queued(pending)) \in Nat
  BY <1>0, <1>3, QueuedLess
<1>5. Cardinality(Queued(pending)) <= MaxPrc
  BY <1>0 DEF TreeOK, Queued
<1>6. ASSUME NEW d \in Nodes \ tree' PROVE w[d] = << >>
  <2>1. d \notin tree
    BY <1>0, <1>6
  <2>2. Len(w[d]) = 0
    BY <1>0, <1>3, <2>1 DEF TreeOK
  <2> QED BY <1>3, <2>2
<1>7. /\ pending' \in [Nodes -> Seq(Pids)]
      /\ IsFiniteSet(Queued(pending')) /\ Cardinality(Queued(pending')) <= MaxPrc
      /\ \A d \in Nodes \ tree' : pending'[d] = << >>
  <2>1. CASE pending' = [w EXCEPT ![n] = Without(@, p)]
    <3>1. Drawn(Without(w[n], p), w[n])
      BY <1>0, <1>3, DrawnWithout
    <3>2. Without(w[n], p) \in Seq(Pids) /\ Len(Without(w[n], p)) <= Len(w[n])
          /\ Len(Without(w[n], p)) \in Nat
      BY <3>1 DEF Drawn
    <3>3. pending' \in [Nodes -> Seq(Pids)]
      BY <1>2, <2>1, <3>2
    <3>4. \A d \in Nodes : Len(pending'[d]) <= Len(w[d])
      BY <1>0, <1>3, <2>1, <3>2
    <3>5. IsFiniteSet(Queued(pending')) /\ Cardinality(Queued(pending')) <= Cardinality(Queued(w))
          /\ Cardinality(Queued(pending')) \in Nat
      BY <1>4, <3>3, <3>4, QueuedLess
    <3>6. \A d \in Nodes \ tree' : pending'[d] = << >>
      <4> TAKE d \in Nodes \ tree'
      <4>1. pending'[d] \in Seq(Pids) /\ Len(pending'[d]) <= Len(w[d]) /\ w[d] = << >>
        BY <1>6, <3>3, <3>4
      <4> QED BY <4>1
    <3> QED BY <1>4, <1>5, <3>3, <3>5, <3>6, MLockAssumption
  <2>2. CASE pending' = [w EXCEPT ![n] = Append(@, p)] /\ Room(n) /\ PrcFree(w)
    <3>0. /\ pending' \in [Nodes -> Seq(Pids)]
          /\ \A m \in Nodes : pending'[m] = IF m = n THEN Append(w[n], p) ELSE w[m]
      BY <1>0, <1>3, <2>2
    <3>1. /\ pending' \in [Nodes -> Seq(Pids)]
          /\ IsFiniteSet(Queued(pending'))
          /\ Cardinality(Queued(pending')) <= Cardinality(Queued(w)) + 1
      BY <1>0, <1>4, <3>0, QueuedMore
    <3>2. Cardinality(Queued(pending')) \in Nat
      BY <3>1, FS_CardinalityType
    <3>3. Cardinality(Queued(w)) < MaxPrc
      BY <2>2 DEF PrcFree, Queued
    <3>4. Cardinality(Queued(pending')) <= MaxPrc
      BY <1>4, <3>1, <3>2, <3>3, MLockAssumption
    <3>5. n \in tree'
      BY <1>0, <2>2 DEF Path
    <3> QED BY <1>6, <2>2, <3>1, <3>4, <3>5
  <2>3. CASE pending' = w
    BY <1>4, <1>5, <1>6, <2>3, MLockAssumption
  <2> QED BY <1>0, <1>2, <2>1, <2>2, <2>3
<1>8. \A m \in tree' : Prefix[m] \subseteq tree'
  BY <1>0, MLockAssumption DEF TreeOK, Path
<1>9. TreeOK'
  <2>1. \A d \in Nodes \ tree' : owner'[d] = NoPid
    BY DEF ExclInv, OwnedInTree
  <2>2. Cardinality(UNION {{d} \X DOMAIN pending'[d] : d \in Nodes}) <= MaxPrc
    BY <1>7 DEF Queued
  <2> QED BY <1>1, <1>7, <1>8, <2>1, <2>2 DEF TreeOK
<1>10. Queued(pending)' = Queued(pending')
  BY DEF Queued
<1> QED BY <1>1, <1>7, <1>9, <1>10 DEF TreeInv, TreeType

\* Each step preserves the invariant.
LEMMA TreeStep ==
    ASSUME TreeInv, ExclInv, ExclInv', PassInv, NEW p \in Pids, Step(p) \/ Application(p)
    PROVE  TreeInv'
<1> USE DEF lifeVars, cmdVars, shmVars
<1>0. OwnerType
  BY DEF ExclInv
<1>1. ASSUME NEW isNew \in BOOLEAN, Locking(p, isNew), mlk_lock(p, isNew) PROVE TreeInv'
  <2>1. InPass(p) \/ InWait(p)
    BY <1>1 DEF Locking, At, InPass, InWait, GcPoints, PassInv, PassType, PrivType
  <2>2. Target(p) \in Nodes
    BY <2>1, Names
  <2> QED BY <1>1, <2>2, LockTree
<1>2. ASSUME NEW n \in Nodes, mlk_unlock(p, n) PROVE TreeInv'
  BY <1>0, <1>2, UnlockTree, ShrinkTree
<1>3. ASSUME UNCHANGED <<tree, pending>> PROVE TreeInv'
  BY <1>3, SameTree
<1>4. CASE TryGot(p) \/ TryBlocked(p) \/ RetryGot(p) \/ RetryBlocked(p)
  <2>1. \E isNew \in BOOLEAN : Locking(p, isNew) /\ mlk_lock(p, isNew)
    BY <1>4 DEF TryGot, TryBlocked, RetryGot, RetryBlocked
  <2> QED BY <1>1, <2>1
<1>5. CASE mlk_bckout(p)
  <2>1. req[p][bck[p] + 1] \in Nodes
    <3>1. pc[p] = "bckout" /\ InWait(p)
      BY <1>5 DEF mlk_bckout, At, InWait
    <3>2. /\ Len(req[p]) \in Nat /\ DOMAIN req[p] = 1 .. Len(req[p]) /\ idx[p] \in 1 .. Len(req[p])
          /\ \A i \in DOMAIN req[p] : req[p][i] \in Nodes
      BY <3>1, Names
    <3>3. bck[p] + 1 < idx[p] /\ bck[p] \in Nat
      BY <3>1 DEF PassInv, Shape, PassType, PrivType
    <3>4. bck[p] + 1 \in DOMAIN req[p]
      BY <3>2, <3>3
    <3> QED BY <3>2, <3>4
  <2>2. mlk_unlock(p, req[p][bck[p] + 1]) \/ UNCHANGED <<tree, pending>>
    BY <1>5 DEF mlk_bckout
  <2> QED BY <1>2, <1>3, <2>1, <2>2
<1>6. CASE Undo(p)
  <2>1. InWait(p)
    BY <1>6 DEF Undo, At, InWait
  <2>2. Target(p) \in Nodes
    BY <2>1, Names
  <2> QED BY <1>2, <1>6, <2>2 DEF Undo
<1>7. CASE \E n \in Nodes : op_decrlock(p, n) \/ Release(p, n)
  <2>1. \E n \in Nodes : mlk_unlock(p, n) \/ UNCHANGED <<tree, pending>>
    BY <1>7 DEF op_decrlock, Release
  <2> QED BY <1>2, <1>3, <2>1
<1>8. CASE mlk_unpend(p)
  <2>1. InWait(p) /\ tree' = tree
    BY <1>8 DEF mlk_unpend, At, InWait
  <2>2. Target(p) \in Nodes
    BY <2>1, Names
  <2>3. pending' = pending \/ pending' = [pending EXCEPT ![Target(p)] = Without(@, p)]
    BY <1>8 DEF mlk_unpend
  <2>4. CASE pending' = [pending EXCEPT ![Target(p)] = Without(@, p)]
    <3> DEFINE n == Target(p)
               t == Without(pending[n], p)
    <3>0. n \in Nodes /\ pending' = [pending EXCEPT ![n] = t]
      BY <2>2, <2>4
    <3>1. /\ pending \in [Nodes -> Seq(Pids)]
          /\ \A d \in Nodes : pending[d] \in Seq(Pids) /\ Len(pending[d]) \in Nat
      BY DEF TreeInv, TreeType
    <3> HIDE DEF n
    <3>2. Drawn(t, pending[n])
      BY <3>0, <3>1, DrawnWithout
    <3> HIDE DEF t
    <3>3. t \in Seq(Pids) /\ Len(t) <= Len(pending[n]) /\ Len(t) \in Nat
      BY <3>2 DEF Drawn
    <3>4. /\ pending' \in [Nodes -> Seq(Pids)]
          /\ \A d \in Nodes : Len(pending'[d]) <= Len(pending[d])
      BY <3>0, <3>1, <3>3
    <3>a. \A d \in Nodes : Drawn(pending'[d], pending[d])
      BY <3>0, <3>1, <3>2, DrawnSelf
    <3>5. \A d \in Nodes \ tree : pending[d] = << >> => pending'[d] = << >>
      <4> SUFFICES ASSUME NEW d \in Nodes, pending[d] = << >> PROVE pending'[d] = << >>
        OBVIOUS
      <4>1. pending'[d] \in Seq(Pids) /\ Len(pending'[d]) <= 0
        BY <3>4
      <4> QED BY <4>1
    <3>6. \A d \in Nodes \ tree' : owner'[d] = NoPid
      BY DEF ExclInv, OwnedInTree
    <3>7. TreeShrinks
      BY <2>1, <3>4, <3>a, <3>5, <3>6 DEF TreeShrinks, TreeInv, TreeOK
    <3> QED BY <3>7, ShrinkTree
  <2> QED BY <1>3, <2>1, <2>3, <2>4
<1>9. CASE clean_pids(p)
  BY <1>0, <1>9, CleanTree, ShrinkTree
<1>10. CASE \/ TryAlready(p) \/ TimedOut(p) \/ WakeUp(p) \/ CheckOwn(p)
            \/ StartGC(p) \/ prepare_for_gc(p) \/ GcNotNeeded(p) \/ fill_pid_table(p)
            \/ check_pids(p)
  <2>1. UNCHANGED <<tree, pending>>
    BY <1>10 DEF TryAlready, TimedOut, WakeUp, CheckOwn, StartGC, prepare_for_gc,
       GcNotNeeded, fill_pid_table, check_pids
  <2> QED BY <1>3, <2>1
<1>11. CASE \/ (\E n \in Nodes : mlk_nocrit_unlock(p, n)) \/ NocritOwner(p)
            \/ NocritSequence(p) \/ ExitDone(p) \/ op_unlock(p) \/ Expire(p)
            \/ Interrupt(p) \/ Exit(p) \/ Kill(p)
            \/ (\E r \in Requests, w \in Waits : Request(p, r, w))
  <2>1. UNCHANGED <<tree, pending>>
    BY <1>11 DEF mlk_nocrit_unlock, NocritOwner, NocritSequence, ExitDone, Gone,
       op_unlock, Expire, Interrupt, Exit, Kill, Request
  <2> QED BY <1>3, <2>1
<1> QED BY <1>4, <1>5, <1>6, <1>7, <1>8, <1>9, <1>10, <1>11 DEF Step, Application

\* The invariant of the lock space holds in every state.
LEMMA TreeHolds == Spec => []TreeInv
<1>1. Init => TreeInv
  <2> SUFFICES ASSUME Init PROVE TreeInv
    OBVIOUS
  <2>1. /\ tree = {} /\ IsFiniteSet(tree) /\ Cardinality(tree) = 0
        /\ pending = [n \in Nodes |-> << >>] /\ owner = [n \in Nodes |-> NoPid]
    BY FS_EmptySet DEF Init
  <2>2. pending \in [Nodes -> Seq(Pids)] /\ \A n \in Nodes : DOMAIN pending[n] = {}
    BY <2>1
  <2>3. \A e : e \notin Queued(pending)
    BY <2>2, QueuedIs
  <2>4. Queued(pending) = {}
    BY <2>3
  <2>5. IsFiniteSet(Queued(pending)) /\ Cardinality(Queued(pending)) = 0
    BY <2>4, FS_EmptySet
  <2>6. Cardinality(UNION {{n} \X DOMAIN pending[n] : n \in Nodes}) <= MaxPrc
    BY <2>5, MLockAssumption DEF Queued
  <2> QED BY <2>1, <2>2, <2>5, <2>6, MLockAssumption DEF TreeInv, TreeType, TreeOK
<1>2. TreeInv /\ ExclInv /\ ExclInv' /\ PassInv /\ [Next]_vars => TreeInv'
  <2> SUFFICES ASSUME TreeInv, ExclInv, ExclInv', PassInv, [Next]_vars PROVE TreeInv'
    OBVIOUS
  <2>1. CASE UNCHANGED vars
    BY <2>1, SameTree DEF vars, shmVars
  <2>2. CASE Quiescent
    BY <2>1, <2>2 DEF Quiescent
  <2>3. ASSUME NEW p \in Pids, Step(p) \/ Application(p) PROVE TreeInv'
    BY <2>3, TreeStep
  <2> QED BY <2>1, <2>2, <2>3 DEF Next
<1> QED BY <1>1, <1>2, ExclHolds, PassHolds, PTL DEF Spec

\* The lock tree is closed under prefixes, everything owned or waited for is in it,
\* and there are never more mlk_shrblks and mlk_prcblks in use than there are.
THEOREM TreeIntact == Spec => []TreeOK
<1>1. TreeInv => TreeOK
  BY DEF TreeInv
<1> QED BY <1>1, TreeHolds, PTL

----------------------------------------------------------------------------
(* Who is in the queues.  A process joins the queue of its target when it  *)
(* is blocked, and leaves it when it gets the lock or gives up.  For that, *)
(* mlk_unpend must know the node (nodptr), and a process that waits must   *)
(* not own what it waits for: mlk_lock would not remove it from the queue. *)

Once(s, p) == \A i, j \in DOMAIN s : s[i] = p /\ s[j] = p => i = j

\* p waits, and is in the queue of its target if there was a mlk_prcblk.
Pends(p) == InWait(p) /\ pc[p] # "undo"

WaitOK(p) ==
    ~Exiting(p) =>
        /\ \A n \in Nodes : Contains(pending[n], p) =>
              Pends(p) /\ n = Target(p) /\ n \in nodptr[p]
        /\ \A n \in Nodes : Once(pending[n], p)
        /\ Pends(p) => owner[Target(p)] # p

QueueInv == nodptr \in [Pids -> SUBSET Nodes] /\ \A p \in alive : WaitOK(p)

\* The step puts no process of S into a queue and gives it no lock.
NoneJoins(S) ==
    \A q \in S, n \in Nodes :
        /\ Contains(pending'[n], q) => Contains(pending[n], q)
        /\ Once(pending[n], q) => Once(pending'[n], q)
        /\ owner'[n] = q => owner[n] = q

QueueFrame(p) ==
    /\ alive' \subseteq alive
    /\ NoneJoins(Pids \ {p})
    /\ \A q \in Pids \ {p} : /\ pc'[q] = pc[q] /\ req'[q] = req[q] /\ idx'[q] = idx[q]
                             /\ new'[q] = new[q] /\ nodptr'[q] = nodptr[q]

\* What is left to show of a step of p.
LEMMA QueueCombine ==
    ASSUME QueueInv, OwnerType, PassInv, NEW p \in Pids, nodptr' \in [Pids -> SUBSET Nodes],
           QueueFrame(p), p \in alive' => WaitOK(p)'
    PROVE  QueueInv'
<1> SUFFICES ASSUME NEW q \in alive' \ {p} PROVE WaitOK(q)'
  BY DEF QueueInv
<1>1. q \in Pids \ {p} /\ WaitOK(q)
  BY DEF QueueInv, QueueFrame, OwnerType
<1>2. /\ pc'[q] = pc[q] /\ req'[q] = req[q] /\ idx'[q] = idx[q]
      /\ new'[q] = new[q] /\ nodptr'[q] = nodptr[q]
  BY <1>1 DEF QueueFrame
<1>3. \A n \in Nodes : /\ Contains(pending'[n], q) => Contains(pending[n], q)
                       /\ Once(pending[n], q) => Once(pending'[n], q)
                       /\ owner'[n] = q => owner[n] = q
  BY <1>1 DEF QueueFrame, NoneJoins
<1>4. Target(q)' = Target(q) /\ (Pends(q)' <=> Pends(q)) /\ (Exiting(q)' <=> Exiting(q))
  BY <1>2 DEF Target, Pends, InWait, Exiting
<1> SUFFICES ASSUME ~Exiting(q)
             PROVE  /\ \A n \in Nodes : Contains(pending'[n], q) =>
                          Pends(q) /\ n = Target(q) /\ n \in nodptr[q]
                    /\ \A n \in Nodes : Once(pending'[n], q)
                    /\ Pends(q) => owner'[Target(q)] # q
  BY <1>2, <1>4 DEF WaitOK, Contains, Once
<1>5. /\ \A n \in Nodes : Contains(pending'[n], q) =>
            Pends(q) /\ n = Target(q) /\ n \in nodptr[q]
      /\ \A n \in Nodes : Once(pending'[n], q)
  BY <1>1, <1>3 DEF WaitOK
<1>6. ASSUME Pends(q) PROVE owner'[Target(q)] # q
  <2>1. Target(q) \in Nodes
    BY <1>1, <1>6, Names DEF Pends
  <2> QED BY <1>1, <1>3, <1>6, <2>1 DEF WaitOK
<1> QED BY <1>5, <1>6

\* In a shorter queue nobody is new, and nobody is there more often.
LEMMA DrawnKeeps ==
    ASSUME NEW s, NEW t, Drawn(t, s), NEW q
    PROVE  /\ Contains(t, q) => Contains(s, q)
           /\ Once(s, q) => Once(t, q)
<1>1. Contains(t, q) => Contains(s, q)
  BY DEF Drawn, Contains
<1>2. ASSUME Once(s, q), NEW j \in DOMAIN t, NEW k \in DOMAIN t, t[j] = q, t[k] = q
      PROVE  j = k
  BY <1>2 DEF Drawn, Once
<1> QED BY <1>1, <1>2 DEF Once

\* Only p is new in a queue it joins, and it is there once.
LEMMA AppendKeeps ==
    ASSUME NEW t \in Seq(Pids), NEW p \in Pids, ~Contains(t, p), NEW q
    PROVE  /\ Contains(Append(t, p), q) => Contains(t, q) \/ q = p
           /\ Once(t, q) => Once(Append(t, p), q)
<1>1. /\ Len(t) \in Nat /\ DOMAIN t = 1 .. Len(t)
      /\ DOMAIN Append(t, p) = 1 .. Len(t) + 1
      /\ \A i \in 1 .. Len(t) : Append(t, p)[i] = t[i]
      /\ Append(t, p)[Len(t) + 1] = p
  OBVIOUS
<1>2. \A i \in DOMAIN Append(t, p) : i \in DOMAIN t \/ i = Len(t) + 1
  BY <1>1
<1>3. Contains(Append(t, p), q) => Contains(t, q) \/ q = p
  BY <1>1, <1>2 DEF Contains
<1>4. ASSUME Once(t, q), NEW j \in DOMAIN Append(t, p), NEW k \in DOMAIN Append(t, p),
             Append(t, p)[j] = q, Append(t, p)[k] = q
      PROVE  j = k
  <2>1. CASE q = p
    <3>1. j \notin DOMAIN t /\ k \notin DOMAIN t
      BY <1>1, <1>4, <2>1 DEF Contains
    <3> QED BY <1>2, <3>1
  <2>2. CASE q # p
    <3>1. j \in DOMAIN t /\ k \in DOMAIN t
      BY <1>1, <1>2, <1>4, <2>2
    <3> QED BY <1>1, <1>4, <3>1 DEF Once
  <2> QED BY <2>1, <2>2
<1> QED BY <1>3, <1>4 DEF Once

\* Shorter queues and fewer locks.
LEMMA NoneNew ==
    ASSUME OwnerType, \A n \in Nodes : Drawn(pending'[n], pending[n]),
           \A n \in Nodes : owner'[n] \in {owner[n], NoPid}
    PROVE  NoneJoins(Pids)
<1>1. \A q \in Pids, n \in Nodes : owner'[n] = q => owner[n] = q
  BY MLockAssumption
<1> QED BY <1>1, DrawnKeeps DEF NoneJoins

\* What mlk_lock does to the queues and the locks.
LEMMA LockJoins ==
    ASSUME TreeInv, OwnerType, NEW p \in Pids, NEW isNew \in BOOLEAN,
           Target(p) \in Nodes, mlk_lock(p, isNew), nodptr \in [Pids -> SUBSET Nodes]
    PROVE  /\ nodptr' \in [Pids -> SUBSET Nodes] /\ nodptr[p] \subseteq nodptr'[p]
           /\ \A q \in Pids \ {p} : nodptr'[q] = nodptr[q]
           /\ NoneJoins(Pids \ {p})
           /\ \A n \in Nodes : Once(pending[n], p) => Once(pending'[n], p)
           /\ \A n \in Nodes : Contains(pending'[n], p) =>
                 \/ Contains(pending[n], p)
                 \/ n = Target(p) /\ isNew /\ ~Got(p, n) /\ n \in nodptr'[p]
           /\ Grantable(p, Target(p)) /\ ~isNew /\ Once(pending[Target(p)], p)
                 => ~Contains(pending'[Target(p)], p)
           /\ ~Got(p, Target(p)) => owner'[Target(p)] # p
<1> DEFINE n == Target(p)
<1>0. n \in Nodes /\ pending \in [Nodes -> Seq(Pids)]
  BY DEF TreeInv, TreeType
<1>1. PICK F : owner' = [d \in Nodes |-> IF d \in (IF Grantable(p, n) THEN {n} ELSE {}) THEN p
                                         ELSE IF d \in F THEN NoPid ELSE owner[d]]
  BY DEF mlk_lock
<1>2. /\ pending' = Queues(p, n, isNew)
      /\ nodptr' = IF /\ Room(n)
                      /\ Got(p, n) \/ ~isNew \/ Contains(pending'[n], p)
                   THEN [nodptr EXCEPT ![p] = @ \union {n}] ELSE nodptr
  BY DEF mlk_lock
<1> HIDE DEF n
<1>3. \A q \in Pids \ {p}, m \in Nodes : owner'[m] = q => owner[m] = q
  BY <1>1, MLockAssumption
<1>4. ~Got(p, n) => owner'[n] # p
  BY <1>0, <1>1, MLockAssumption DEF Got
<1>5. /\ nodptr' \in [Pids -> SUBSET Nodes] /\ nodptr[p] \subseteq nodptr'[p]
      /\ \A q \in Pids \ {p} : nodptr'[q] = nodptr[q]
  <2>1. nodptr' = nodptr \/ nodptr' = [nodptr EXCEPT ![p] = @ \union {n}]
    BY <1>2
  <2>2. CASE nodptr' = [nodptr EXCEPT ![p] = @ \union {n}]
    BY <1>0, <2>2
  <2> QED BY <2>1, <2>2
<1>6. Room(n) /\ Contains(pending'[n], p) => n \in nodptr'[p]
  BY <1>2
<1>7. PICK w \in [Nodes -> Seq(Pids)] : QueuesFrom(p, n, isNew, w)
  BY <1>0, QueuesOf
<1>8. /\ \A d \in Nodes : Drawn(w[d], pending[d]) /\ w[d] \in Seq(Pids)
      /\ \/ /\ Grantable(p, n) /\ ~isNew /\ w[n] = pending[n]
            /\ pending' = [w EXCEPT ![n] = Without(@, p)]
         \/ /\ ~Got(p, n) /\ isNew /\ Room(n) /\ ~Contains(w[n], p)
            /\ pending' = [w EXCEPT ![n] = Append(@, p)]
         \/ /\ ~(Grantable(p, n) /\ ~isNew)
            /\ pending' = w
  BY <1>2, <1>7 DEF QueuesFrom
<1>9. \A q \in Pids, m \in Nodes : /\ Contains(w[m], q) => Contains(pending[m], q)
                                   /\ Once(pending[m], q) => Once(w[m], q)
  BY <1>8, DrawnKeeps
<1>10. CASE /\ Grantable(p, n) /\ ~isNew /\ w[n] = pending[n]
            /\ pending' = [w EXCEPT ![n] = Without(@, p)]
  <2>1. /\ Drawn(Without(w[n], p), w[n])
        /\ Once(w[n], p) => ~Contains(Without(w[n], p), p)
    BY <1>0, <1>8, DrawnWithout DEF Once
  <2>2. \A q \in Pids : /\ Contains(Without(w[n], p), q) => Contains(w[n], q)
                        /\ Once(w[n], q) => Once(Without(w[n], p), q)
    BY <2>1, DrawnKeeps
  <2>3. \A m \in Nodes : pending'[m] = IF m = n THEN Without(w[n], p) ELSE w[m]
    BY <1>0, <1>7, <1>10
  <2>4. \A q \in Pids, m \in Nodes : /\ Contains(pending'[m], q) => Contains(pending[m], q)
                                     /\ Once(pending[m], q) => Once(pending'[m], q)
    BY <1>9, <2>2, <2>3
  <2>5. Once(pending[n], p) => ~Contains(pending'[n], p)
    BY <1>0, <1>10, <2>1, <2>3
  <2> QED BY <1>3, <1>4, <1>5, <2>4, <2>5 DEF NoneJoins, n
<1>11. CASE /\ ~Got(p, n) /\ isNew /\ Room(n) /\ ~Contains(w[n], p)
            /\ pending' = [w EXCEPT ![n] = Append(@, p)]
  <2>1. \A q \in Pids : /\ Contains(Append(w[n], p), q) => Contains(w[n], q) \/ q = p
                        /\ Once(w[n], q) => Once(Append(w[n], p), q)
    BY <1>0, <1>8, <1>11, AppendKeeps
  <2>2. \A m \in Nodes : pending'[m] = IF m = n THEN Append(w[n], p) ELSE w[m]
    BY <1>0, <1>7, <1>11
  <2>3. \A q \in Pids, m \in Nodes :
           /\ Contains(pending'[m], q) => Contains(pending[m], q) \/ (q = p /\ m = n)
           /\ Once(pending[m], q) => Once(pending'[m], q)
    BY <1>9, <2>1, <2>2
  <2>4. \A m \in Nodes : Contains(pending'[m], p) =>
           \/ Contains(pending[m], p)
           \/ m = n /\ isNew /\ ~Got(p, m) /\ m \in nodptr'[p]
    BY <1>6, <1>11, <2>3
  <2> QED BY <1>3, <1>4, <1>5, <1>11, <2>3, <2>4 DEF NoneJoins, n
<1>12. CASE ~(Grantable(p, n) /\ ~isNew) /\ pending' = w
  BY <1>3, <1>4, <1>5, <1>9, <1>12 DEF NoneJoins, n
<1> QED BY <1>8, <1>10, <1>11, <1>12

\* What a step of p must do for itself: go on waiting ...
LEMMA StillPends ==
    ASSUME QueueInv, PassInv, NEW p \in alive, p \in Pids, Pends(p), Pends(p)',
           Target(p)' = Target(p), ~Exiting(p),
           Target(p) \in nodptr[p] => Target(p) \in nodptr'[p],
           \A n \in Nodes : /\ Contains(pending'[n], p) => Contains(pending[n], p)
                            /\ Once(pending[n], p) => Once(pending'[n], p),
           owner'[Target(p)] # p
    PROVE  WaitOK(p)'
<1>1. WaitOK(p)
  BY DEF QueueInv
<1>2. /\ \A n \in Nodes : Contains(pending'[n], p) => n = Target(p) /\ n \in nodptr'[p]
      /\ \A n \in Nodes : Once(pending'[n], p)
  BY <1>1 DEF WaitOK
<1> QED BY <1>2 DEF WaitOK, Contains, Once

\* ... or be in no queue.
LEMMA PendsNowhere ==
    ASSUME NEW p, ~Pends(p)', \A n \in Nodes : ~Contains(pending'[n], p)
    PROVE  WaitOK(p)'
<1>1. \A n \in Nodes : Once(pending'[n], p)
  BY DEF Contains, Once
<1> QED BY <1>1 DEF WaitOK, Contains, Once

\* A process that does not wait is in no queue.
LEMMA NotQueued ==
    ASSUME QueueInv, NEW p \in alive, ~Pends(p), ~Exiting(p)
    PROVE  \A n \in Nodes : ~Contains(pending[n], p)
BY DEF QueueInv, WaitOK

QueueHyp == QueueInv /\ TreeInv /\ ExclInv /\ PassInv

\* Steps during the wait that do not search the tree.
LEMMA QueueQuiet ==
    ASSUME QueueHyp, NEW p \in Pids,
           \/ WakeUp(p) \/ StartGC(p) \/ prepare_for_gc(p) \/ GcNotNeeded(p)
           \/ fill_pid_table(p) \/ check_pids(p) \/ clean_pids(p) \/ Expire(p)
           \/ TimedOut(p) \/ Interrupt(p) \/ CheckOwn(p)
    PROVE  QueueInv'
<1> DEFINE Moves ==
      /\ p \in alive /\ UNCHANGED <<alive, req, idx, nodptr>>
      /\ pc' = [pc EXCEPT ![p] = pc'[p]]
      /\ new' = [new EXCEPT ![p] = new'[p]]
      /\ pc[p] # "undo" /\ (InWait(p)' <=> InWait(p)) /\ ~Exiting(p)
      /\ pc'[p] # "undo"
      Shared == /\ \A n \in Nodes : Drawn(pending'[n], pending[n])
                /\ \A n \in Nodes : owner'[n] \in {owner[n], NoPid}
<1> USE DEF lifeVars, cmdVars, pvtVars, shmVars, At, GoTo, GcPoints
<1>0. /\ pc \in [Pids -> Points] /\ new \in [Pids -> BOOLEAN]
      /\ new = [new EXCEPT ![p] = new[p]] /\ pc = [pc EXCEPT ![p] = pc[p]]
      /\ new[p] \in BOOLEAN /\ OwnerType
      /\ \A n \in Nodes : Drawn(pending[n], pending[n])
  BY DrawnSelf DEF QueueHyp, PassInv, PassType, PrivType, TreeInv, TreeType, ExclInv
<1> USE DEF InPass, InWait, Exiting
<1>1. ASSUME WakeUp(p) PROVE Moves /\ Shared
  BY <1>0, <1>1 DEF WakeUp
<1>2. ASSUME StartGC(p) PROVE Moves /\ Shared
  BY <1>0, <1>2 DEF StartGC
<1>3. ASSUME prepare_for_gc(p) PROVE Moves /\ Shared
  BY <1>0, <1>3 DEF prepare_for_gc
<1>4. ASSUME GcNotNeeded(p) PROVE Moves /\ Shared
  BY <1>0, <1>4 DEF GcNotNeeded
<1>5. ASSUME fill_pid_table(p) PROVE Moves /\ Shared
  BY <1>0, <1>5 DEF fill_pid_table
<1>6. ASSUME check_pids(p) PROVE Moves /\ Shared
  BY <1>0, <1>6 DEF check_pids
<1>7. ASSUME clean_pids(p) PROVE Moves /\ Shared
  <2>1. Moves
    BY <1>0, <1>7 DEF clean_pids
  <2>2. \A n \in Nodes : owner'[n] \in {owner[n], NoPid}
    BY <1>7 DEF clean_pids
  <2>3. TreeShrinks
    BY <1>0, <1>7, CleanTree DEF QueueHyp
  <2> QED BY <2>1, <2>2, <2>3 DEF TreeShrinks
<1>8. ASSUME Expire(p) PROVE Moves /\ Shared
  BY <1>0, <1>8 DEF Expire
<1>9. ASSUME TimedOut(p) PROVE Moves /\ Shared
  <2>1. Moves /\ pending' = pending
    BY <1>0, <1>9 DEF TimedOut
  <2>2. \A n \in Nodes : owner'[n] \in {owner[n], NoPid}
    BY <1>0, <1>9 DEF TimedOut, ClearAbandoned, OwnerType
  <2> QED BY <1>0, <2>1, <2>2
<1>10. ASSUME Interrupt(p) PROVE Moves /\ Shared
  BY <1>0, <1>10 DEF Interrupt
<1>11. ASSUME CheckOwn(p) PROVE Moves /\ Shared
  <2>1. Moves /\ pending' = pending
    BY <1>0, <1>11 DEF CheckOwn
  <2>2. \A n \in Nodes : owner'[n] \in {owner[n], NoPid}
    BY <1>0, <1>11 DEF CheckOwn, ClearAbandoned, OwnerType
  <2> QED BY <1>0, <2>1, <2>2
<1>12. Moves /\ Shared
  BY <1>1, <1>2, <1>3, <1>4, <1>5, <1>6, <1>7, <1>8, <1>9, <1>10, <1>11
<1>13. NoneJoins(Pids)
  BY <1>0, <1>12, NoneNew
<1>14. QueueFrame(p) /\ nodptr' \in [Pids -> SUBSET Nodes]
  BY <1>0, <1>12, <1>13 DEF QueueFrame, NoneJoins, QueueHyp, QueueInv
<1>15. WaitOK(p)'
  <2>1. CASE Pends(p)
    <3>1. Target(p) \in Nodes
      BY <2>1, Names DEF Pends, QueueHyp
    <3>2. owner[Target(p)] # p
      BY <1>12, <2>1 DEF QueueHyp, QueueInv, WaitOK
    <3>3. owner'[Target(p)] # p
      BY <1>13, <3>1, <3>2 DEF NoneJoins
    <3>4. Pends(p)' /\ Target(p)' = Target(p) /\ nodptr' = nodptr
      BY <1>12, <2>1 DEF Pends, Target
    <3>5. \A n \in Nodes : /\ Contains(pending'[n], p) => Contains(pending[n], p)
                           /\ Once(pending[n], p) => Once(pending'[n], p)
      BY <1>13 DEF NoneJoins
    <3> QED BY <1>12, <2>1, <3>3, <3>4, <3>5, StillPends DEF QueueHyp
  <2>2. CASE ~Pends(p)
    <3>1. ~Pends(p)'
      BY <1>12, <2>2 DEF Pends
    <3>2. \A n \in Nodes : ~Contains(pending[n], p)
      BY <1>12, <2>2, NotQueued DEF QueueHyp
    <3>3. \A n \in Nodes : ~Contains(pending'[n], p)
      BY <1>13, <3>2 DEF NoneJoins
    <3> QED BY <3>1, <3>3, PendsNowhere
  <2> QED BY <2>1, <2>2
<1> QED BY <1>0, <1>14, <1>15, QueueCombine DEF QueueHyp

\* Steps of a process that is not in a queue and does not join one.
LEMMA QueueApart ==
    ASSUME QueueHyp, NEW p \in Pids,
           \/ TryAlready(p) \/ Undo(p) \/ op_unlock(p)
           \/ (\E n \in Nodes : op_decrlock(p, n) \/ Release(p, n))
           \/ (\E r \in Requests, w \in Waits : Request(p, r, w))
    PROVE  QueueInv'
<1> DEFINE Apart ==
      /\ p \in alive /\ alive' = alive /\ ~Pends(p) /\ ~Exiting(p) /\ ~Pends(p)'
      /\ pc' = [pc EXCEPT ![p] = pc'[p]]
      /\ \A q \in Pids \ {p} : /\ req'[q] = req[q] /\ idx'[q] = idx[q]
                               /\ new'[q] = new[q] /\ nodptr'[q] = nodptr[q]
      /\ nodptr' \in [Pids -> SUBSET Nodes]
      Shared == (\E n \in Nodes : mlk_unlock(p, n)) \/ UNCHANGED shmVars
      Fewer == /\ \A n \in Nodes : Drawn(pending'[n], pending[n])
               /\ \A n \in Nodes : owner'[n] \in {owner[n], NoPid}
<1> USE DEF lifeVars, cmdVars, pvtVars, At, GoTo, GcPoints
<1>0. /\ pc \in [Pids -> Points] /\ new \in [Pids -> BOOLEAN]
      /\ req \in [Pids -> Seq(Nodes)] /\ idx \in [Pids -> Nat]
      /\ pc = [pc EXCEPT ![p] = pc[p]] /\ OwnerType
      /\ nodptr \in [Pids -> SUBSET Nodes]
      /\ \A n \in Nodes : Drawn(pending[n], pending[n])
  BY DrawnSelf DEF QueueHyp, QueueInv, PassInv, PassType, PrivType, TreeInv, TreeType, ExclInv
<1> USE DEF Pends, InWait, Exiting
<1>1. ASSUME TryAlready(p) PROVE Apart /\ Shared
  <2>1. CASE idx[p] = Len(req[p])
    BY <1>0, <1>1, <2>1 DEF TryAlready, Obtained, Leave
  <2>2. CASE idx[p] # Len(req[p])
    BY <1>0, <1>1, <2>2 DEF TryAlready, Obtained
  <2> QED BY <2>1, <2>2
<1>2. ASSUME Undo(p) PROVE Apart /\ Shared
  <2>1. Target(p) \in Nodes
    BY <1>2, Names DEF QueueHyp, Undo
  <2> QED BY <1>0, <1>2, <2>1 DEF Undo
<1>3. ASSUME op_unlock(p) PROVE Apart /\ Shared
  BY <1>0, <1>3 DEF op_unlock
<1>4. ASSUME NEW n \in Nodes, op_decrlock(p, n) PROVE Apart /\ Shared
  <2>1. Shared
    BY <1>4 DEF op_decrlock, shmVars
  <2>2. nodptr' = nodptr \/ nodptr' = [nodptr EXCEPT ![p] = @ \ {n}]
    BY <1>4 DEF op_decrlock, Forget
  <2>3. nodptr' \in [Pids -> SUBSET Nodes] /\ \A q \in Pids \ {p} : nodptr'[q] = nodptr[q]
    BY <1>0, <2>2
  <2>4. p \in alive /\ pc[p] = "idle" /\ UNCHANGED <<alive, pc, req, idx, new>>
    BY <1>4 DEF op_decrlock
  <2> QED BY <1>0, <2>1, <2>3, <2>4
<1>5. ASSUME NEW n \in Nodes, Release(p, n) PROVE Apart /\ Shared
  BY <1>0, <1>5 DEF Release, Forget
<1>6. ASSUME NEW r \in Requests, NEW w \in Waits, Request(p, r, w) PROVE Apart /\ Shared
  BY <1>0, <1>6 DEF Request
<1>7. Apart /\ Shared
  BY <1>1, <1>2, <1>3, <1>4, <1>5, <1>6
<1>8. Fewer
  <2>1. CASE UNCHANGED shmVars
    BY <1>0, <2>1 DEF shmVars
  <2>2. ASSUME NEW n \in Nodes, mlk_unlock(p, n) PROVE Fewer
    <3>1. \A d \in Nodes : Drawn(pending'[d], pending[d])
      BY <1>0, <2>2, UnlockTree DEF QueueHyp, TreeShrinks
    <3>2. \A d \in Nodes : owner'[d] \in {owner[d], NoPid}
      BY <1>0, <2>2 DEF mlk_unlock, OwnerType
    <3> QED BY <3>1, <3>2
  <2> QED BY <1>7, <2>1, <2>2
<1>9. NoneJoins(Pids)
  BY <1>0, <1>8, NoneNew
<1>10. QueueFrame(p) /\ nodptr' \in [Pids -> SUBSET Nodes]
  BY <1>0, <1>7, <1>9 DEF QueueFrame, NoneJoins
<1>11. WaitOK(p)'
  <2>1. \A n \in Nodes : ~Contains(pending[n], p)
    BY <1>7, NotQueued DEF QueueHyp
  <2>2. \A n \in Nodes : ~Contains(pending'[n], p)
    BY <1>9, <2>1 DEF NoneJoins
  <2>3. ~Pends(p)'
    BY <1>7
  <2> HIDE DEF Pends
  <2> QED BY <2>2, <2>3, PendsNowhere
<1> QED BY <1>0, <1>10, <1>11, QueueCombine DEF QueueHyp

\* The locks obtained before are given back, not the one waited for.
LEMMA QueueBckout ==
    ASSUME QueueHyp, NEW p \in Pids, mlk_bckout(p) PROVE QueueInv'
<1> DEFINE n == req[p][bck[p] + 1]
<1> USE DEF lifeVars, shmVars, At, GoTo
<1>0. /\ pc \in [Pids -> Points] /\ OwnerType /\ nodptr \in [Pids -> SUBSET Nodes]
      /\ \A d \in Nodes : Drawn(pending[d], pending[d])
      /\ p \in alive /\ pc[p] = "bckout" /\ Pends(p) /\ ~Exiting(p)
      /\ bck[p] \in Nat /\ bck[p] + 1 < idx[p]
  BY DrawnSelf DEF QueueHyp, QueueInv, PassInv, PassType, PrivType, TreeInv, TreeType, ExclInv,
     mlk_bckout, Pends, InWait, Exiting, Shape
<1>1. /\ Len(req[p]) \in Nat /\ DOMAIN req[p] = 1 .. Len(req[p]) /\ idx[p] \in 1 .. Len(req[p])
      /\ \A i \in DOMAIN req[p] : req[p][i] \in Nodes
      /\ \A i, j \in DOMAIN req[p] : req[p][i] = req[p][j] => i = j
      /\ Target(p) \in Nodes
  BY <1>0, Names DEF QueueHyp, Pends
<1>2. n \in Nodes /\ n # Target(p)
  <2>1. bck[p] + 1 \in DOMAIN req[p] /\ bck[p] + 1 # idx[p] /\ idx[p] \in DOMAIN req[p]
    BY <1>0, <1>1
  <2> QED BY <1>1, <2>1 DEF Target
<1>3. /\ UNCHANGED <<alive, req, idx, new>>
      /\ pc' = [pc EXCEPT ![p] = "wait"] \/ pc' = pc
      /\ nodptr' = nodptr \/ nodptr' = [nodptr EXCEPT ![p] = @ \ {n}]
      /\ mlk_unlock(p, n) \/ UNCHANGED shmVars
  BY DEF mlk_bckout
<1> HIDE DEF n
<1>4. /\ \A d \in Nodes : Drawn(pending'[d], pending[d])
      /\ \A d \in Nodes : owner'[d] \in {owner[d], NoPid}
  <2>1. CASE UNCHANGED shmVars
    BY <1>0, <2>1
  <2>2. CASE mlk_unlock(p, n)
    <3>1. \A d \in Nodes : Drawn(pending'[d], pending[d])
      BY <1>0, <1>2, <2>2, UnlockTree DEF QueueHyp, TreeShrinks
    <3>2. \A d \in Nodes : owner'[d] \in {owner[d], NoPid}
      BY <1>0, <2>2 DEF mlk_unlock, OwnerType
    <3> QED BY <3>1, <3>2
  <2> QED BY <1>3, <2>1, <2>2
<1>5. NoneJoins(Pids)
  BY <1>0, <1>4, NoneNew
<1>6. /\ nodptr' \in [Pids -> SUBSET Nodes] /\ \A q \in Pids \ {p} : nodptr'[q] = nodptr[q]
      /\ Target(p) \in nodptr[p] => Target(p) \in nodptr'[p]
  <2>1. CASE nodptr' = [nodptr EXCEPT ![p] = @ \ {n}]
    BY <1>0, <1>2, <2>1
  <2> QED BY <1>0, <1>3, <2>1
<1>7. (\A q \in Pids \ {p} : pc'[q] = pc[q]) /\ pc'[p] \in {"wait", "bckout"}
  BY <1>0, <1>3
<1>8. QueueFrame(p)
  BY <1>3, <1>5, <1>6, <1>7 DEF QueueFrame, NoneJoins
<1>9. Pends(p)' /\ Target(p)' = Target(p)
  BY <1>3, <1>7 DEF Pends, InWait, Target
<1>10. owner'[Target(p)] # p
  <2>1. owner[Target(p)] # p
    BY <1>0 DEF QueueHyp, QueueInv, WaitOK
  <2> QED BY <1>1, <1>5, <2>1 DEF NoneJoins
<1>11. \A d \in Nodes : /\ Contains(pending'[d], p) => Contains(pending[d], p)
                        /\ Once(pending[d], p) => Once(pending'[d], p)
  BY <1>5 DEF NoneJoins
<1>12. WaitOK(p)'
  BY <1>0, <1>6, <1>9, <1>10, <1>11, StillPends DEF QueueHyp
<1> QED BY <1>0, <1>6, <1>8, <1>12, QueueCombine DEF QueueHyp

\* mlk_unpend leaves the queue, which a process that does not know the node is not in.
LEMMA QueueUnpend ==
    ASSUME QueueHyp, NEW p \in Pids, mlk_unpend(p) PROVE QueueInv'
<1> DEFINE n == Target(p)
<1> USE DEF lifeVars, shmVars, At, GoTo
<1>0. /\ pc \in [Pids -> Points] /\ new \in [Pids -> BOOLEAN]
      /\ req \in [Pids -> Seq(Nodes)] /\ idx \in [Pids -> Nat]
      /\ OwnerType /\ nodptr \in [Pids -> SUBSET Nodes]
      /\ pending \in [Nodes -> Seq(Pids)]
      /\ \A d \in Nodes : Drawn(pending[d], pending[d]) /\ pending[d] \in Seq(Pids)
      /\ p \in alive /\ Pends(p) /\ ~Exiting(p)
  BY DrawnSelf DEF QueueHyp, QueueInv, PassInv, PassType, PrivType, TreeInv, TreeType, ExclInv,
     mlk_unpend, Pends, InWait, Exiting
<1>1. n \in Nodes /\ WaitOK(p)
  BY <1>0, Names DEF QueueHyp, QueueInv, Pends
<1>2. /\ UNCHANGED <<alive, owner>>
      /\ Leave(p)
      /\ \/ n \in nodptr[p] /\ pending' = [pending EXCEPT ![n] = Without(@, p)]
         \/ n \notin nodptr[p] /\ pending' = pending
      /\ \/ nodptr' = nodptr
         \/ nodptr' = [nodptr EXCEPT ![p] = @ \intersect {m \in Nodes : level[p][m] > 0}]
  BY DEF mlk_unpend
<1> HIDE DEF n
<1>3. /\ \A d \in Nodes : Drawn(pending'[d], pending[d])
      /\ \A d \in Nodes : ~Contains(pending'[d], p)
  <2>1. CASE n \in nodptr[p] /\ pending' = [pending EXCEPT ![n] = Without(@, p)]
    <3>1. /\ Drawn(Without(pending[n], p), pending[n])
          /\ Once(pending[n], p) => ~Contains(Without(pending[n], p), p)
      BY <1>0, <1>1, DrawnWithout DEF Once
    <3>2. Once(pending[n], p) /\ \A d \in Nodes \ {n} : ~Contains(pending[d], p)
      BY <1>0, <1>1 DEF WaitOK, n
    <3>3. \A d \in Nodes : pending'[d] = IF d = n THEN Without(pending[n], p) ELSE pending[d]
      BY <1>0, <1>1, <2>1
    <3> QED BY <1>0, <3>1, <3>2, <3>3
  <2>2. CASE n \notin nodptr[p] /\ pending' = pending
    <3>1. \A d \in Nodes : ~Contains(pending[d], p)
      BY <1>0, <1>1, <2>2 DEF WaitOK, n
    <3> QED BY <1>0, <2>2, <3>1
  <2> QED BY <1>2, <2>1, <2>2
<1>4. NoneJoins(Pids)
  BY <1>0, <1>2, <1>3, NoneNew
<1>5. nodptr' \in [Pids -> SUBSET Nodes] /\ \A q \in Pids \ {p} : nodptr'[q] = nodptr[q]
  <2>1. CASE nodptr' = [nodptr EXCEPT ![p] = @ \intersect {m \in Nodes : level[p][m] > 0}]
    BY <1>0, <2>1
  <2> QED BY <1>0, <1>2, <2>1
<1>6. /\ pc'[p] = "idle"
      /\ \A q \in Pids \ {p} : /\ pc'[q] = pc[q] /\ req'[q] = req[q] /\ idx'[q] = idx[q]
                               /\ new'[q] = new[q]
  BY <1>0, <1>2 DEF Leave
<1>7. QueueFrame(p)
  BY <1>2, <1>4, <1>5, <1>6 DEF QueueFrame, NoneJoins
<1>8. ~Pends(p)'
  BY <1>6 DEF Pends, InWait, GcPoints
<1>9. WaitOK(p)'
  BY <1>3, <1>8, PendsNowhere
<1> QED BY <1>0, <1>5, <1>7, <1>9, QueueCombine DEF QueueHyp

\* Steps on the way out.
LEMMA QueueExit ==
    ASSUME QueueHyp, NEW p \in Pids,
           \/ Exit(p) \/ (\E n \in Nodes : mlk_nocrit_unlock(p, n)) \/ NocritOwner(p)
           \/ NocritSequence(p) \/ Gone(p)
    PROVE  QueueInv'
<1> DEFINE Leaves ==
      /\ pending' = pending /\ alive' \subseteq alive
      /\ \A q \in Pids \ {p} : /\ pc'[q] = pc[q] /\ req'[q] = req[q] /\ idx'[q] = idx[q]
                               /\ new'[q] = new[q] /\ nodptr'[q] = nodptr[q]
      /\ nodptr' \in [Pids -> SUBSET Nodes]
      /\ \A n \in Nodes : owner'[n] \in {owner[n], NoPid}
      /\ p \in alive' => Exiting(p)'
<1> USE DEF lifeVars, cmdVars, pvtVars, shmVars, At, GoTo
<1>0. /\ pc \in [Pids -> Points] /\ new \in [Pids -> BOOLEAN]
      /\ req \in [Pids -> Seq(Nodes)] /\ idx \in [Pids -> Nat]
      /\ OwnerType /\ nodptr \in [Pids -> SUBSET Nodes]
      /\ \A d \in Nodes : Drawn(pending[d], pending[d])
  BY DrawnSelf DEF QueueHyp, QueueInv, PassInv, PassType, PrivType, TreeInv, TreeType, ExclInv
<1> USE DEF Exiting
<1>1. ASSUME Exit(p) PROVE Leaves
  BY <1>0, <1>1 DEF Exit
<1>2. ASSUME NEW n \in Nodes, mlk_nocrit_unlock(p, n) PROVE Leaves
  <2>1. /\ UNCHANGED <<pending, alive, new>>
        /\ pc[p] = "exit" /\ pc' = [pc EXCEPT ![p] = pc'[p]]
        /\ pc'[p] \in {"exit", "exit_owner", "exit_sequence"}
    BY <1>0, <1>2 DEF mlk_nocrit_unlock
  <2>2. /\ req' = [req EXCEPT ![p] = <<n>>] \/ req' = req
        /\ idx' = [idx EXCEPT ![p] = 1] \/ idx' = idx
        /\ nodptr' = nodptr \/ nodptr' = [nodptr EXCEPT ![p] = @ \ {n}]
        /\ owner' = owner \/ owner' = [owner EXCEPT ![n] = NoPid]
    BY <1>2 DEF mlk_nocrit_unlock, Forget
  <2>3. \A q \in Pids \ {p} : req'[q] = req[q] /\ idx'[q] = idx[q]
    BY <1>0, <2>2
  <2>4. nodptr' \in [Pids -> SUBSET Nodes] /\ \A q \in Pids \ {p} : nodptr'[q] = nodptr[q]
    <3>1. CASE nodptr' = [nodptr EXCEPT ![p] = @ \ {n}]
      BY <1>0, <3>1
    <3> QED BY <1>0, <2>2, <3>1
  <2>5. \A m \in Nodes : owner'[m] \in {owner[m], NoPid}
    BY <1>0, <2>2 DEF OwnerType
  <2> QED BY <1>0, <2>1, <2>3, <2>4, <2>5
<1>3. ASSUME NocritOwner(p) PROVE Leaves
  BY <1>0, <1>3 DEF NocritOwner, Forget, OwnerType
<1>4. ASSUME NocritSequence(p) PROVE Leaves
  BY <1>0, <1>4 DEF NocritSequence, Forget, OwnerType
<1>5. ASSUME Gone(p) PROVE Leaves
  BY <1>0, <1>5 DEF Gone
<1>6. Leaves
  BY <1>1, <1>2, <1>3, <1>4, <1>5
<1>7. NoneJoins(Pids)
  BY <1>0, <1>6, NoneNew
<1>8. QueueFrame(p)
  BY <1>6, <1>7 DEF QueueFrame, NoneJoins
<1>9. p \in alive' => WaitOK(p)'
  BY <1>6 DEF WaitOK
<1> QED BY <1>0, <1>6, <1>8, <1>9, QueueCombine DEF QueueHyp

\* Steps that search the tree.
LEMMA QueueLock ==
    ASSUME QueueHyp, NEW p \in Pids,
           TryGot(p) \/ TryBlocked(p) \/ RetryGot(p) \/ RetryBlocked(p)
    PROVE  QueueInv'
<1> DEFINE n == Target(p)
           Private1 == \A q \in Pids \ {p} : /\ pc'[q] = pc[q] /\ req'[q] = req[q]
                                             /\ idx'[q] = idx[q] /\ new'[q] = new[q]
<1> USE DEF lifeVars, At, GoTo
<1>0. /\ pc \in [Pids -> Points] /\ new \in [Pids -> BOOLEAN]
      /\ req \in [Pids -> Seq(Nodes)] /\ idx \in [Pids -> Nat]
      /\ OwnerType /\ nodptr \in [Pids -> SUBSET Nodes]
      /\ \A q \in alive : WaitOK(q)
  BY DEF QueueHyp, QueueInv, PassInv, PassType, PrivType, ExclInv
<1>1. PICK isNew \in BOOLEAN :
         /\ Locking(p, isNew) /\ mlk_lock(p, isNew)
         /\ isNew <=> (TryGot(p) \/ TryBlocked(p))
         /\ ~isNew => RetryGot(p) \/ RetryBlocked(p)
         /\ TryGot(p) \/ RetryGot(p) => Got(p, n)
         /\ TryBlocked(p) \/ RetryBlocked(p) => ~Got(p, n)
  <2>1. /\ TryGot(p) => Locking(p, TRUE) /\ Got(p, n) /\ mlk_lock(p, TRUE)
        /\ TryBlocked(p) => Locking(p, TRUE) /\ ~Got(p, n) /\ mlk_lock(p, TRUE)
        /\ RetryGot(p) => Locking(p, FALSE) /\ Got(p, n) /\ mlk_lock(p, FALSE)
        /\ RetryBlocked(p) => Locking(p, FALSE) /\ ~Got(p, n) /\ mlk_lock(p, FALSE)
    BY DEF TryGot, TryBlocked, RetryGot, RetryBlocked
  <2> HIDE DEF n
  <2>2. CASE TryGot(p) \/ TryBlocked(p)
    BY <2>1, <2>2
  <2>3. CASE ~(TryGot(p) \/ TryBlocked(p))
    BY <2>1, <2>3
  <2> QED BY <2>2, <2>3
<1>2. /\ p \in alive /\ ~Exiting(p) /\ pc[p] # "undo"
      /\ isNew => InPass(p) /\ ~Pends(p)
      /\ ~isNew => Pends(p)
  BY <1>0, <1>1 DEF Locking, Exiting, InPass, InWait, Pends, GcPoints
<1>3. n \in Nodes
  BY <1>2, Names DEF QueueHyp, Pends
<1>4. /\ nodptr' \in [Pids -> SUBSET Nodes] /\ nodptr[p] \subseteq nodptr'[p]
      /\ \A q \in Pids \ {p} : nodptr'[q] = nodptr[q]
      /\ NoneJoins(Pids \ {p})
      /\ \A m \in Nodes : Once(pending[m], p) => Once(pending'[m], p)
      /\ \A m \in Nodes : Contains(pending'[m], p) =>
            \/ Contains(pending[m], p)
            \/ m = n /\ isNew /\ ~Got(p, m) /\ m \in nodptr'[p]
      /\ Grantable(p, n) /\ ~isNew /\ Once(pending[n], p) => ~Contains(pending'[n], p)
      /\ ~Got(p, n) => owner'[n] # p
  BY <1>0, <1>1, <1>3, LockJoins DEF QueueHyp
<1>5. Private1 /\ alive' = alive
  <2>1. CASE TryGot(p)
    <3>1. CASE idx[p] = Len(req[p])
      BY <1>0, <2>1, <3>1 DEF TryGot, Obtained, Leave
    <3>2. CASE idx[p] # Len(req[p])
      BY <1>0, <2>1, <3>2 DEF TryGot, Obtained
    <3> QED BY <3>1, <3>2
  <2>2. CASE TryBlocked(p)
    BY <1>0, <2>2 DEF TryBlocked
  <2>3. CASE RetryGot(p)
    BY <1>0, <2>3 DEF RetryGot
  <2>4. CASE RetryBlocked(p)
    BY <1>0, <2>4 DEF RetryBlocked
  <2> QED BY <2>1, <2>2, <2>3, <2>4
<1>6. QueueFrame(p)
  BY <1>4, <1>5 DEF QueueFrame
<1> HIDE DEF n
<1>7. CASE TryGot(p)
  <2>1. pc'[p] \in {"idle", "try"}
    BY <1>0, <1>7 DEF TryGot, Obtained, Leave
  <2>2. ~Pends(p)'
    BY <2>1 DEF Pends, InWait, GcPoints
  <2>3. \A m \in Nodes : ~Contains(pending[m], p)
    BY <1>0, <1>1, <1>2, <1>7 DEF WaitOK
  <2>4. \A m \in Nodes : ~Contains(pending'[m], p)
    BY <1>1, <1>4, <1>7, <2>3
  <2> QED BY <2>2, <2>4, PendsNowhere, <1>0, <1>4, <1>6, QueueCombine DEF QueueHyp
<1>8. CASE TryBlocked(p)
  <2>1. /\ pc'[p] \in {"wait", "bckout"} /\ UNCHANGED <<req, idx>>
    BY <1>0, <1>8 DEF TryBlocked, AfterBlocked
  <2>2. Pends(p)' /\ Target(p)' = n
    BY <2>1 DEF Pends, InWait, Target, n
  <2>3. \A m \in Nodes : ~Contains(pending[m], p)
    BY <1>0, <1>1, <1>2, <1>8 DEF WaitOK
  <2>4. \A m \in Nodes : Contains(pending'[m], p) => m = n /\ m \in nodptr'[p]
    BY <1>4, <2>3
  <2>5. \A m \in Nodes : Once(pending'[m], p)
    BY <1>0, <1>2, <1>4 DEF WaitOK
  <2>6. owner'[n] # p
    BY <1>1, <1>4, <1>8
  <2>7. WaitOK(p)'
    BY <2>2, <2>4, <2>5, <2>6 DEF WaitOK, Contains, Once
  <2> QED BY <1>0, <1>4, <1>6, <2>7, QueueCombine DEF QueueHyp
<1>9. CASE RetryGot(p) /\ ~isNew
  <2>1. pc'[p] \in {"try", "undo"}
    BY <1>0, <1>9 DEF RetryGot
  <2>2. ~Pends(p)'
    BY <2>1 DEF Pends, InWait, GcPoints
  <2>3. owner[n] # p
    BY <1>0, <1>2, <1>9 DEF WaitOK, n
  <2>4. Grantable(p, n)
    BY <1>1, <1>9, <2>3 DEF Got
  <2>5. Once(pending[n], p) /\ \A m \in Nodes \ {n} : ~Contains(pending[m], p)
    BY <1>0, <1>2, <1>3 DEF WaitOK, n
  <2>6. \A m \in Nodes : ~Contains(pending'[m], p)
    BY <1>4, <1>9, <2>4, <2>5
  <2> QED BY <2>2, <2>6, PendsNowhere, <1>0, <1>4, <1>6, QueueCombine DEF QueueHyp
<1>10. CASE RetryBlocked(p) /\ ~isNew
  <2>1. pc'[p] \in {"wait", "own"} /\ UNCHANGED <<req, idx>>
    BY <1>0, <1>10 DEF RetryBlocked
  <2>2. Pends(p)' /\ Target(p)' = Target(p)
    BY <2>1 DEF Pends, InWait, Target
  <2>3. \A m \in Nodes : /\ Contains(pending'[m], p) => Contains(pending[m], p)
                         /\ Once(pending[m], p) => Once(pending'[m], p)
    BY <1>4, <1>10
  <2>4. owner'[Target(p)] # p
    BY <1>1, <1>4, <1>10 DEF n
  <2>5. WaitOK(p)'
    BY <1>2, <1>4, <1>10, <2>2, <2>3, <2>4, StillPends DEF QueueHyp
  <2> QED BY <1>0, <1>4, <1>6, <2>5, QueueCombine DEF QueueHyp
<1> QED BY <1>1, <1>7, <1>8, <1>9, <1>10

\* The invariant of the queues holds in every state.
LEMMA QueueHolds == Spec => []QueueInv
<1>1. Init => QueueInv
  <2> SUFFICES ASSUME Init PROVE QueueInv
    OBVIOUS
  <2>1. /\ nodptr = [p \in Pids |-> {}] /\ pending = [n \in Nodes |-> << >>]
        /\ pc = [p \in Pids |-> "idle"] /\ alive = Pids
    BY DEF Init
  <2>2. ASSUME NEW p \in alive PROVE WaitOK(p)
    BY <2>1 DEF WaitOK, Contains, Once, Pends, InWait, GcPoints
  <2> QED BY <2>1, <2>2 DEF QueueInv
<1>2. QueueHyp /\ [Next]_vars => QueueInv'
  <2> SUFFICES ASSUME QueueHyp, [Next]_vars PROVE QueueInv'
    OBVIOUS
  <2>1. CASE UNCHANGED vars
    BY <2>1 DEF vars, shmVars, lifeVars, cmdVars, pvtVars, QueueHyp, QueueInv, WaitOK,
       Exiting, Pends, InWait, Contains, Once, Target
  <2>2. CASE Quiescent
    BY <2>1, <2>2 DEF Quiescent
  <2>3. ASSUME NEW p \in Pids, Step(p) PROVE QueueInv'
    <3>1. CASE ExitDone(p)
      BY <3>1, QueueExit DEF ExitDone
    <3> QED BY <2>3, <3>1, QueueLock, QueueQuiet, QueueApart, QueueBckout, QueueUnpend,
               QueueExit DEF Step
  <2>4. ASSUME NEW p \in Pids, Application(p) PROVE QueueInv'
    <3>1. CASE Kill(p)
      BY <3>1, QueueExit DEF Kill
    <3> QED BY <2>4, <3>1, QueueQuiet, QueueApart, QueueExit DEF Application
  <2> QED BY <2>1, <2>2, <2>3, <2>4 DEF Next
<1>3. QueueInv /\ TreeInv /\ ExclInv /\ PassInv /\ [Next]_vars => QueueInv'
  BY <1>2 DEF QueueHyp
<1> QED BY <1>1, <1>3, TreeHolds, ExclHolds, PassHolds, PTL DEF Spec

\* A live process is in a queue only once, and only while it waits for that lock,
\* whatever is killed, exits, is interrupted or is collected when.
THEOREM QueuesCurrent == Spec => []QueuedIsWaiting
<1>1. QueueInv /\ ExclInv /\ PassInv => QueuedIsWaiting
  <2> SUFFICES ASSUME QueueInv, ExclInv, PassInv, NEW n \in Nodes,
                      NEW i \in DOMAIN pending[n], NEW p, p = pending[n][i],
                      p \in alive, ~Exiting(p)
               PROVE  /\ idx[p] > 0 /\ Target(p) = n
                      /\ pc[p] \notin {"idle", "try", "undo", "release"}
                      /\ \A j \in DOMAIN pending[n] : pending[n][j] = p => j = i
    BY DEF QueuedIsWaiting
  <2>1. WaitOK(p) /\ p \in Pids /\ Contains(pending[n], p)
    BY DEF QueueInv, ExclInv, OwnerType, Contains
  <2>2. Pends(p) /\ Target(p) = n /\ Once(pending[n], p)
    BY <2>1 DEF WaitOK
  <2>3. idx[p] \in 1 .. Len(req[p]) /\ Len(req[p]) \in Nat
    BY <2>1, <2>2, Names DEF Pends
  <2>4. idx[p] > 0
    BY <2>3
  <2>5. pc[p] \notin {"idle", "try", "undo", "release"}
    BY <2>2 DEF Pends, InWait, GcPoints
  <2> QED BY <2>2, <2>4, <2>5 DEF Once
<1> QED BY <1>1, QueueHolds, ExclHolds, PassHolds, PTL

----------------------------------------------------------------------------
(* What p->blocked points to.                                              *)

\* Of finitely many names of one path, one is the longest.
LEMMA DeepestOf ==
    ASSUME NEW n \in Nodes, NEW S \in SUBSET Path(n), S # {}
    PROVE  Deepest(S) \in S /\ S \subseteq Path(Deepest(S))
<1>1. /\ Path(n) \subseteq Nodes /\ IsFiniteSet(Path(n))
      /\ \A d, e \in Path(n) : d = e \/ d \in Prefix[e] \/ e \in Prefix[d]
  <2>1. Prefix[n] \subseteq Nodes /\ IsFiniteSet(Prefix[n])
    BY MLockAssumption
  <2>2. IsFiniteSet(Prefix[n] \union {n})
    BY <2>1, FS_AddElement
  <2> QED BY <2>1, <2>2, MLockAssumption DEF Path
<1>2. IsFiniteSet(S)
  BY <1>1, FS_Subset
<1> DEFINE Rest(d) == S \ Path(d)
           T == {Cardinality(Rest(d)) : d \in S}
<1>3. \A d \in S : IsFiniteSet(Rest(d)) /\ Cardinality(Rest(d)) \in Nat
  <2> TAKE d \in S
  <2>1. IsFiniteSet(Rest(d))
    BY <1>2, FS_Difference
  <2> QED BY <2>1, FS_CardinalityType
<1>4. T \in SUBSET Nat /\ T # {}
  BY <1>3
<1>5. PICK x \in T : \A y \in T : x <= y
  BY <1>4, LeastNumber
<1>6. PICK d \in S : x = Cardinality(Rest(d))
  BY <1>5
<1>7. \A e \in S : Cardinality(Rest(d)) <= Cardinality(Rest(e))
  BY <1>5, <1>6
<1>8. \A e \in S : Rest(e) = S \ Path(e)
  OBVIOUS
<1> HIDE DEF Rest, T
<1>9. ASSUME NEW e \in S, e \notin Path(d) PROVE FALSE
  <2>1. d \in Prefix[e] /\ e \in Nodes /\ d \in Nodes
    BY <1>1, <1>9 DEF Path
  <2>2. Path(d) \subseteq Path(e) /\ e \in Path(e)
    BY <2>1, MLockAssumption DEF Path
  <2>3. Rest(e) \in SUBSET Rest(d) /\ e \in Rest(d) /\ e \notin Rest(e)
    BY <1>8, <1>9, <2>2
  <2>4. Cardinality(Rest(e)) <= Cardinality(Rest(d)) /\ Cardinality(Rest(e)) # Cardinality(Rest(d))
    BY <1>3, <2>3, FS_Subset
  <2> QED BY <1>3, <1>7, <2>4
<1>10. \E x1 \in S : S \subseteq Path(x1)
  BY <1>9
<1> QED BY <1>10 DEF Deepest

BlockType == blocked \in [Pids -> [Nodes -> Nodes \union {NoNode, Changed}]]

BlockInv ==
    /\ BlockType
    /\ \A p \in Pids, m \in Nodes :
          blocked[p][m] \in Nodes =>
              /\ blocked[p][m] \in tree
              /\ owner[blocked[p][m]] # p
              /\ Related(blocked[p][m], m)

\* Blocks that are remembered are as they were.
LEMMA BlockKeep ==
    ASSUME BlockInv, BlockType',
           \A q \in Pids, m \in Nodes : blocked'[q][m] \in Nodes =>
               blocked'[q][m] = blocked[q][m] /\ blocked[q][m] \in tree',
           \A n \in Nodes : owner'[n] \in {owner[n], NoPid}
    PROVE  BlockInv'
<1> SUFFICES ASSUME NEW q \in Pids, NEW m \in Nodes, blocked'[q][m] \in Nodes
             PROVE  /\ blocked'[q][m] \in tree'
                    /\ owner'[blocked'[q][m]] # q
                    /\ Related(blocked'[q][m], m)
  BY DEF BlockInv, Related, Path
<1>1. blocked'[q][m] = blocked[q][m] /\ blocked[q][m] \in tree'
  OBVIOUS
<1>2. owner[blocked[q][m]] # q /\ Related(blocked[q][m], m)
  BY <1>1 DEF BlockInv
<1> QED BY <1>1, <1>2, MLockAssumption

\* The nodes of S have a new sequence.
LEMMA BumpedOf ==
    ASSUME BlockType, NEW S
    PROVE  /\ Bumped(S) \in [Pids -> [Nodes -> Nodes \union {NoNode, Changed}]]
           /\ \A q \in Pids, m \in Nodes :
                 Bumped(S)[q][m] = IF blocked[q][m] \in S THEN Changed ELSE blocked[q][m]
BY DEF BlockType, Bumped

\* Settled only clears.
LEMMA SettledOf ==
    ASSUME NEW p \in Pids, NEW isNew,
           NEW bl \in [Pids -> [Nodes -> Nodes \union {NoNode, Changed}]]
    PROVE  /\ Settled(p, isNew, bl) \in [Pids -> [Nodes -> Nodes \union {NoNode, Changed}]]
           /\ \A q \in Pids, m \in Nodes : Settled(p, isNew, bl)[q][m] \in {bl[q][m], NoNode}
<1>1. \/ Settled(p, isNew, bl) = bl
      \/ Settled(p, isNew, bl) = [bl EXCEPT ![p] = [m \in Nodes |->
                                      IF Contains(req[p], m) THEN NoNode ELSE bl[p][m]]]
  BY DEF Settled
<1>2. CASE Settled(p, isNew, bl) = [bl EXCEPT ![p] = [m \in Nodes |->
                                      IF Contains(req[p], m) THEN NoNode ELSE bl[p][m]]]
  BY <1>2
<1> QED BY <1>1, <1>2

\* mlk_unlock deletes no node without changing its sequence.
LEMMA BlockUnlock ==
    ASSUME BlockInv, OwnerType, NEW p \in Pids, NEW n \in Nodes, mlk_unlock(p, n)
    PROVE  BlockInv'
<1>1. CASE UNCHANGED <<owner, pending, tree, valid, blocked>>
  BY <1>1, BlockKeep DEF BlockInv, BlockType
<1>2. CASE owner[n] = p /\ n \in valid
  <2>1. /\ owner' = [owner EXCEPT ![n] = NoPid]
        /\ tree' = tree \ DeletedBy(n)
        /\ blocked' = Bumped(Resequenced(n)) /\ BlockType
    BY <1>2 DEF mlk_unlock, BlockInv
  <2>2. /\ BlockType'
        /\ \A q \in Pids, m \in Nodes :
              blocked'[q][m] = IF blocked[q][m] \in Resequenced(n) THEN Changed ELSE blocked[q][m]
    BY <2>1, BumpedOf DEF BlockType
  <2>3. DeletedBy(n) \subseteq Resequenced(n)
    BY DEF Resequenced
  <2>4. \A q \in Pids, m \in Nodes : blocked'[q][m] \in Nodes =>
           blocked'[q][m] = blocked[q][m] /\ blocked[q][m] \in tree'
    BY <2>1, <2>2, <2>3, MLockAssumption DEF BlockInv
  <2>5. \A m \in Nodes : owner'[m] \in {owner[m], NoPid}
    BY <2>1 DEF OwnerType
  <2> QED BY <2>2, <2>4, <2>5, BlockKeep
<1> QED BY <1>1, <1>2 DEF mlk_unlock

\* Neither does clean_pids.
LEMMA BlockClean ==
    ASSUME BlockInv, OwnerType, NEW p \in Pids, clean_pids(p) PROVE BlockInv'
<1> DEFINE D == dead[p]
           free(n) == owner[n] \in D \union {NoPid}
           K(n) == {i \in DOMAIN pending[n] : i = Len(pending[n]) \/ pending[n][i] \notin D}
           unused == {n \in tree : \A m \in tree \intersect (Under(n) \union {n}) :
                                      free(m) /\ Entries(pending[m], K(m)) = << >>}
           bumped == {n \in tree : free(n)}
<1>0. blocked' = Bumped(bumped) /\ tree' = tree \ unused
  BY Zenon DEF clean_pids
<1>a. unused \subseteq bumped
  BY Zenon
<1> HIDE DEF bumped, unused
<1>1. blocked' = Bumped(bumped) /\ tree \ tree' \subseteq bumped
  BY <1>0, <1>a
<1>2. /\ BlockType'
      /\ \A q \in Pids, m \in Nodes :
            blocked'[q][m] = IF blocked[q][m] \in bumped THEN Changed ELSE blocked[q][m]
  BY <1>1, BumpedOf DEF BlockType, BlockInv
<1>3. \A q \in Pids, m \in Nodes : blocked'[q][m] \in Nodes =>
         blocked'[q][m] = blocked[q][m] /\ blocked[q][m] \in tree'
  BY <1>1, <1>2, MLockAssumption DEF BlockInv
<1>4. \A m \in Nodes : owner'[m] \in {owner[m], NoPid}
  BY DEF clean_pids
<1> QED BY <1>2, <1>3, <1>4, BlockKeep

\* mlk_lock remembers a node that is in the tree, on the path of the target or
\* below it, and not owned by p.
LEMMA BlockerOf ==
    ASSUME TreeInv, ExclInv, NEW p \in Pids, NEW n \in Nodes, NEW b \in BlockedBy(p, n),
           b # NoNode
    PROVE  /\ b \in Nodes /\ b \in tree /\ owner[b] # p /\ Related(b, n)
           /\ ~Grantable(p, n)
<1> DEFINE onPath == Blockers(p, n) \union Yields(p, n)
<1>1. \A d \in Nodes : d \notin tree => owner[d] = NoPid /\ pending[d] = << >>
  BY DEF TreeInv, TreeOK
<1>2. Path(n) \subseteq Nodes /\ onPath \subseteq Path(n) /\ alive \subseteq Pids
  BY MLockAssumption DEF Path, Blockers, Yields, ExclInv, OwnerType
<1>3. CASE onPath # {}
  <2>1. b = Deepest(onPath)
    BY <1>3 DEF BlockedBy
  <2>2. onPath \in SUBSET Path(n)
    BY <1>2
  <2> HIDE DEF onPath
  <2>3. b \in onPath
    BY <1>3, <2>1, <2>2, DeepestOf
  <2>4. b \in Nodes /\ b \in Path(n)
    BY <1>2, <2>3
  <2>5. CASE b \in Blockers(p, n)
    <3>1. owner[b] \in alive /\ owner[b] # p
      BY <2>5 DEF Blockers, LiveOther
    <3>2. b \in tree
      BY <1>1, <1>2, <2>4, <3>1, MLockAssumption
    <3> QED BY <2>4, <2>5, <3>1, <3>2 DEF Related, Grantable
  <2>6. CASE b \in Yields(p, n)
    <3>1. owner[b] = NoPid /\ pending[b] # << >>
      BY <2>6 DEF Yields, YieldsAt
    <3> QED BY <1>1, <2>4, <2>6, <3>1, MLockAssumption DEF Related, Grantable
  <2> QED BY <2>3, <2>5, <2>6 DEF onPath
<1>4. CASE onPath = {}
  <2>1. b \in ChildBlockers(p, n)
    BY <1>4 DEF BlockedBy
  <2>2. b \in Under(n) /\ owner[b] \in alive /\ owner[b] # p
    BY <2>1 DEF ChildBlockers, LiveOther
  <2>3. b \in Nodes /\ n \in Path(b)
    BY <2>2 DEF Under, Path
  <2>4. b \in tree
    BY <1>1, <1>2, <2>2, <2>3, MLockAssumption
  <2> QED BY <2>1, <2>2, <2>3, <2>4 DEF Related, Grantable
<1> QED BY <1>3, <1>4

\* What mlk_lock makes of what was remembered.
LEMMA BlockLock ==
    ASSUME BlockInv, TreeInv, ExclInv, NEW p \in Pids, NEW isNew \in BOOLEAN,
           Target(p) \in Nodes, mlk_lock(p, isNew)
    PROVE  BlockInv'
<1> DEFINE n == Target(p)
           taken == IF Grantable(p, n) THEN {n} ELSE {}
           bumped == Yields(p, n) \union taken
           New(b) == [Bumped(bumped) EXCEPT ![p][n] = IF b \in bumped THEN Changed ELSE b]
<1>a. PICK b \in BlockedBy(p, n) : \E F :
         /\ owner' = [d \in Nodes |-> IF d \in taken THEN p
                                      ELSE IF d \in F THEN NoPid ELSE owner[d]]
         /\ blocked' = IF b = NoNode THEN Settled(p, isNew, Bumped(bumped))
                       ELSE Settled(p, isNew, New(b))
  BY DEF mlk_lock
<1>1. PICK F :
         /\ owner' = [d \in Nodes |-> IF d \in taken THEN p
                                      ELSE IF d \in F THEN NoPid ELSE owner[d]]
         /\ blocked' = IF b = NoNode THEN Settled(p, isNew, Bumped(bumped))
                       ELSE Settled(p, isNew, New(b))
  BY <1>a
<1>2. n \in Nodes /\ BlockType /\ tree \subseteq tree' /\ taken \subseteq bumped
      /\ (taken # {} => Grantable(p, n)) /\ n \in Nodes
  BY DEF BlockInv, mlk_lock
<1>3. b # NoNode => /\ b \in Nodes /\ b \in tree /\ owner[b] # p /\ Related(b, n)
                    /\ taken = {}
  <2>1. n \in Nodes
    OBVIOUS
  <2>2. ASSUME b # NoNode
        PROVE  b \in Nodes /\ b \in tree /\ owner[b] # p /\ Related(b, n) /\ ~Grantable(p, n)
    <3> HIDE DEF n
    <3> QED BY <1>1, <2>1, <2>2, BlockerOf
  <2> QED BY <2>2
<1> HIDE DEF n, taken, bumped
<1>4. /\ Bumped(bumped) \in [Pids -> [Nodes -> Nodes \union {NoNode, Changed}]]
      /\ \A q \in Pids, m \in Nodes :
            Bumped(bumped)[q][m] = IF blocked[q][m] \in bumped THEN Changed ELSE blocked[q][m]
  BY <1>2, BumpedOf
<1>5. b # NoNode =>
         /\ New(b) \in [Pids -> [Nodes -> Nodes \union {NoNode, Changed}]]
         /\ \A q \in Pids, m \in Nodes :
               New(b)[q][m] = IF q = p /\ m = n THEN IF b \in bumped THEN Changed ELSE b
                              ELSE Bumped(bumped)[q][m]
  BY <1>2, <1>3, <1>4
<1> HIDE DEF New
<1>6. /\ BlockType'
      /\ \A q \in Pids, m \in Nodes : blocked'[q][m] \in Nodes =>
            \/ blocked'[q][m] = blocked[q][m] /\ blocked[q][m] \notin bumped
            \/ q = p /\ m = n /\ b # NoNode /\ blocked'[q][m] = b
  <2>1. CASE b = NoNode
    <3>1. /\ blocked' \in [Pids -> [Nodes -> Nodes \union {NoNode, Changed}]]
          /\ \A q \in Pids, m \in Nodes : blocked'[q][m] \in {Bumped(bumped)[q][m], NoNode}
      BY <1>1, <1>4, <2>1, SettledOf
    <3> QED BY <1>4, <3>1, MLockAssumption DEF BlockType
  <2>2. CASE b # NoNode
    <3>1. /\ blocked' \in [Pids -> [Nodes -> Nodes \union {NoNode, Changed}]]
          /\ \A q \in Pids, m \in Nodes : blocked'[q][m] \in {New(b)[q][m], NoNode}
      BY <1>1, <1>5, <2>2, SettledOf
    <3>2. ASSUME NEW q \in Pids, NEW m \in Nodes, blocked'[q][m] \in Nodes
          PROVE  \/ blocked'[q][m] = blocked[q][m] /\ blocked[q][m] \notin bumped
                 \/ q = p /\ m = n /\ b # NoNode /\ blocked'[q][m] = b
      <4>1. blocked'[q][m] = New(b)[q][m]
        BY <3>1, <3>2, MLockAssumption
      <4> QED BY <1>4, <1>5, <2>2, <3>2, <4>1, MLockAssumption
    <3> QED BY <3>1, <3>2 DEF BlockType
  <2> QED BY <2>1, <2>2
<1>7. ASSUME NEW q \in Pids, NEW m \in Nodes, blocked'[q][m] \in Nodes
      PROVE  /\ blocked'[q][m] \in tree'
             /\ owner'[blocked'[q][m]] # q
             /\ Related(blocked'[q][m], m)
  <2>1. CASE blocked'[q][m] = blocked[q][m] /\ blocked[q][m] \notin bumped
    <3>1. /\ blocked[q][m] \in tree /\ owner[blocked[q][m]] # q
          /\ Related(blocked[q][m], m) /\ blocked[q][m] \notin taken
      BY <1>2, <1>7, <2>1 DEF BlockInv
    <3> QED BY <1>1, <1>2, <1>7, <2>1, <3>1, MLockAssumption
  <2>2. CASE q = p /\ m = n /\ b # NoNode /\ blocked'[q][m] = b
    <3>1. b \in Nodes /\ b \in tree /\ owner[b] # p /\ Related(b, n) /\ taken = {}
      BY <1>3, <2>2
    <3> QED BY <1>1, <1>2, <2>2, <3>1, MLockAssumption
  <2> QED BY <1>6, <1>7, <2>1, <2>2
<1>8. \A q \in Pids, m \in Nodes : blocked'[q][m] \in Nodes =>
         /\ blocked'[q][m] \in tree'
         /\ owner'[blocked'[q][m]] # q
         /\ Related(blocked'[q][m], m)
  BY <1>7
<1> QED BY <1>6, <1>8 DEF BlockInv, Related, Path

\* Steps that neither delete a node nor make p remember one.
LEMMA BlockQuiet ==
    ASSUME BlockInv, OwnerType, tree' = tree, BlockType',
           \A q \in Pids, m \in Nodes : blocked'[q][m] \in {blocked[q][m], NoNode, Changed},
           \A n \in Nodes : owner'[n] \in {owner[n], NoPid}
    PROVE  BlockInv'
<1>1. \A q \in Pids, m \in Nodes : blocked'[q][m] \in Nodes =>
         blocked'[q][m] = blocked[q][m] /\ blocked[q][m] \in tree'
  BY MLockAssumption DEF BlockInv
<1> QED BY <1>1, BlockKeep

\* Each step preserves the invariant.
LEMMA BlockStep ==
    ASSUME BlockInv, TreeInv, ExclInv, PassInv, NEW p \in Pids, Step(p) \/ Application(p)
    PROVE  BlockInv'
<1> USE DEF lifeVars, cmdVars, shmVars, pvtVars
<1>0. OwnerType /\ BlockType
  BY DEF ExclInv, BlockInv
<1>1. ASSUME NEW isNew \in BOOLEAN, Locking(p, isNew), mlk_lock(p, isNew) PROVE BlockInv'
  <2>1. InPass(p) \/ InWait(p)
    BY <1>1 DEF Locking, At, InPass, InWait, GcPoints, PassInv, PassType, PrivType
  <2>2. Target(p) \in Nodes
    BY <2>1, Names
  <2> QED BY <1>1, <2>2, BlockLock
<1>2. ASSUME NEW n \in Nodes, mlk_unlock(p, n) PROVE BlockInv'
  BY <1>0, <1>2, BlockUnlock
<1>3. ASSUME UNCHANGED <<tree, blocked>>, \A n \in Nodes : owner'[n] \in {owner[n], NoPid}
      PROVE  BlockInv'
  BY <1>0, <1>3, BlockQuiet DEF BlockType
<1>4. CASE TryGot(p) \/ TryBlocked(p) \/ RetryGot(p) \/ RetryBlocked(p)
  <2>1. \E isNew \in BOOLEAN : Locking(p, isNew) /\ mlk_lock(p, isNew)
    BY <1>4 DEF TryGot, TryBlocked, RetryGot, RetryBlocked
  <2> QED BY <1>1, <2>1
<1>5. CASE mlk_bckout(p)
  <2>1. req[p][bck[p] + 1] \in Nodes
    <3>1. pc[p] = "bckout" /\ InWait(p)
      BY <1>5 DEF mlk_bckout, At, InWait
    <3>2. /\ Len(req[p]) \in Nat /\ DOMAIN req[p] = 1 .. Len(req[p]) /\ idx[p] \in 1 .. Len(req[p])
          /\ \A i \in DOMAIN req[p] : req[p][i] \in Nodes
      BY <3>1, Names
    <3>3. bck[p] + 1 < idx[p] /\ bck[p] \in Nat
      BY <3>1 DEF PassInv, Shape, PassType, PrivType
    <3>4. bck[p] + 1 \in DOMAIN req[p]
      BY <3>2, <3>3
    <3> QED BY <3>2, <3>4
  <2>2. mlk_unlock(p, req[p][bck[p] + 1]) \/ UNCHANGED <<tree, owner, blocked>>
    BY <1>5 DEF mlk_bckout
  <2> QED BY <1>2, <1>3, <2>1, <2>2
<1>6. CASE Undo(p)
  <2>1. InWait(p)
    BY <1>6 DEF Undo, At, InWait
  <2>2. Target(p) \in Nodes
    BY <2>1, Names
  <2> QED BY <1>2, <1>6, <2>2 DEF Undo
<1>7. CASE \E n \in Nodes : op_decrlock(p, n) \/ Release(p, n)
  <2>1. \E n \in Nodes : mlk_unlock(p, n) \/ UNCHANGED <<tree, owner, blocked>>
    BY <1>7 DEF op_decrlock, Release
  <2> QED BY <1>2, <1>3, <2>1
<1>8. CASE mlk_unpend(p)
  <2>1. /\ UNCHANGED <<tree, owner>>
        /\ \/ blocked' = blocked
           \/ \E S : blocked' = [blocked EXCEPT ![p] = [m \in Nodes |-> IF m \in S THEN @[m]
                                                                      ELSE NoNode]]
    BY <1>8 DEF mlk_unpend
  <2>2. ASSUME NEW S, blocked' = [blocked EXCEPT ![p] = [m \in Nodes |-> IF m \in S THEN @[m]
                                                                      ELSE NoNode]]
        PROVE  BlockInv'
    <3>1. /\ BlockType'
          /\ \A q \in Pids, m \in Nodes : blocked'[q][m] \in {blocked[q][m], NoNode, Changed}
      BY <1>0, <2>2 DEF BlockType
    <3> QED BY <1>0, <2>1, <3>1, BlockQuiet
  <2> QED BY <1>3, <2>1, <2>2
<1>9. CASE clean_pids(p)
  BY <1>0, <1>9, BlockClean
<1>10. CASE TryAlready(p)
  <2>1. UNCHANGED <<tree, owner>> /\ blocked' = Settled(p, TRUE, blocked)
    BY <1>10 DEF TryAlready
  <2>2. /\ BlockType'
        /\ \A q \in Pids, m \in Nodes : blocked'[q][m] \in {blocked[q][m], NoNode}
    BY <1>0, <2>1, SettledOf DEF BlockType
  <2> QED BY <1>0, <2>1, <2>2, BlockQuiet
<1>11. CASE \/ WakeUp(p) \/ StartGC(p) \/ prepare_for_gc(p) \/ GcNotNeeded(p)
            \/ fill_pid_table(p) \/ check_pids(p)
            \/ op_unlock(p) \/ Expire(p) \/ Interrupt(p) \/ Exit(p)
            \/ (\E r \in Requests, w \in Waits : Request(p, r, w))
  <2>1. UNCHANGED <<tree, owner, blocked>>
    BY <1>11 DEF WakeUp, StartGC, prepare_for_gc, GcNotNeeded, fill_pid_table, check_pids,
       op_unlock, Expire, Interrupt, Exit, Request
  <2> QED BY <1>3, <2>1
<1>12. CASE TimedOut(p) \/ CheckOwn(p)
  <2>1. /\ UNCHANGED <<tree, blocked>>
        /\ \/ owner' = owner
           \/ \E b \in Nodes : owner' = [owner EXCEPT ![b] = NoPid]
    BY <1>12 DEF TimedOut, CheckOwn, ClearAbandoned
  <2>2. \A n \in Nodes : owner'[n] \in {owner[n], NoPid}
    BY <1>0, <2>1 DEF OwnerType
  <2> QED BY <1>3, <2>1, <2>2
<1>13. CASE \E n \in Nodes : mlk_nocrit_unlock(p, n)
  <2>1. PICK n \in Nodes : mlk_nocrit_unlock(p, n)
    BY <1>13
  <2>2. /\ tree' = tree
        /\ blocked' = blocked \/ blocked' = Bumped({n})
        /\ owner' = owner \/ owner' = [owner EXCEPT ![n] = NoPid]
    BY <2>1 DEF mlk_nocrit_unlock
  <2>3. /\ BlockType'
        /\ \A q \in Pids, m \in Nodes : blocked'[q][m] \in {blocked[q][m], NoNode, Changed}
    BY <1>0, <2>2, BumpedOf DEF BlockType
  <2>4. \A m \in Nodes : owner'[m] \in {owner[m], NoPid}
    BY <1>0, <2>2 DEF OwnerType
  <2> QED BY <1>0, <2>2, <2>3, <2>4, BlockQuiet
<1>14. CASE NocritOwner(p)
  <2>1. /\ UNCHANGED <<tree, blocked>> /\ owner' = [owner EXCEPT ![Target(p)] = NoPid]
    BY <1>14 DEF NocritOwner
  <2>2. \A n \in Nodes : owner'[n] \in {owner[n], NoPid}
    BY <1>0, <2>1 DEF OwnerType
  <2> QED BY <1>3, <2>1, <2>2
<1>15. CASE NocritSequence(p)
  <2>1. UNCHANGED <<tree, owner>> /\ blocked' = Bumped({Target(p)})
    BY <1>15 DEF NocritSequence
  <2>2. /\ BlockType'
        /\ \A q \in Pids, m \in Nodes : blocked'[q][m] \in {blocked[q][m], NoNode, Changed}
    BY <1>0, <2>1, BumpedOf DEF BlockType
  <2> QED BY <1>0, <2>1, <2>2, BlockQuiet
<1>16. CASE Gone(p)
  <2>1. /\ UNCHANGED <<tree, owner>>
        /\ blocked' = [blocked EXCEPT ![p] = [n \in Nodes |-> NoNode]]
    BY <1>16 DEF Gone
  <2>2. /\ BlockType'
        /\ \A q \in Pids, m \in Nodes : blocked'[q][m] \in {blocked[q][m], NoNode, Changed}
    BY <1>0, <2>1 DEF BlockType
  <2> QED BY <1>0, <2>1, <2>2, BlockQuiet
<1>17. CASE ExitDone(p) \/ Kill(p)
  BY <1>16, <1>17 DEF ExitDone, Kill
<1> QED BY <1>4, <1>5, <1>6, <1>7, <1>8, <1>9, <1>10, <1>11, <1>12, <1>13, <1>14, <1>15,
          <1>17 DEF Step, Application

\* What private blocks remember is current in every state.
LEMMA BlockHolds == Spec => []BlockInv
<1>1. Init => BlockInv
  BY MLockAssumption DEF Init, BlockInv, BlockType
<1>2. BlockInv /\ TreeInv /\ ExclInv /\ PassInv /\ [Next]_vars => BlockInv'
  <2> SUFFICES ASSUME BlockInv, TreeInv, ExclInv, PassInv, [Next]_vars PROVE BlockInv'
    OBVIOUS
  <2>1. CASE UNCHANGED vars
    BY <2>1 DEF vars, shmVars, pvtVars, BlockInv, BlockType, Related, Path
  <2>2. CASE Quiescent
    BY <2>1, <2>2 DEF Quiescent
  <2>3. ASSUME NEW p \in Pids, Step(p) \/ Application(p) PROVE BlockInv'
    BY <2>3, BlockStep
  <2> QED BY <2>1, <2>2, <2>3 DEF Next
<1> QED BY <1>1, <1>2, TreeHolds, ExclHolds, PassHolds, PTL DEF Spec

\* The node a waiting process remembers as the one that blocks it was not deleted
\* since, nor used for another name, and is not its own.
THEOREM BlockersCurrent == Spec => []BlockedIsCurrent
<1>1. BlockInv /\ ExclInv /\ PassInv => BlockedIsCurrent
  <2> SUFFICES ASSUME BlockInv, ExclInv, PassInv, NEW p \in alive, Waiting(p),
                      blocked[p][Target(p)] \in Nodes
               PROVE  /\ blocked[p][Target(p)] \in tree /\ owner[blocked[p][Target(p)]] # p
                      /\ Related(blocked[p][Target(p)], Target(p))
    BY DEF BlockedIsCurrent
  <2>1. p \in Pids /\ InWait(p)
    BY DEF ExclInv, OwnerType, Waiting, InWait
  <2>2. Target(p) \in Nodes
    BY <2>1, Names
  <2> QED BY <2>1, <2>2 DEF BlockInv
<1> QED BY <1>1, BlockHolds, ExclHolds, PassHolds, PTL

----------------------------------------------------------------------------
(* Types.  That of mlk_yield_pid needs that the search of a path, which    *)
(* goes from the shortest name to the longest, is defined.                 *)

YieldStep(p, y, d) ==
    IF LiveOther(p, d) THEN NoPid
    ELSE IF YieldsAt(p, y, d) THEN Head(pending[d])
    ELSE y

\* The pid remembered when d is looked at, g[e] being that after e was.
YieldAt(p, g, d) == YieldStep(p, IF Prefix[d] = {} THEN yield[p] ELSE g[Deepest(Prefix[d])], d)

Yielders == Pids \union {NoPid, Disabled}

\* A name of a non-empty set that has no prefix in it.
LEMMA Shortest ==
    ASSUME NEW n \in Nodes, NEW S \in SUBSET Path(n), S # {}
    PROVE  \E d \in S : Prefix[d] \intersect S = {}
<1> DEFINE T == {Cardinality(Prefix[d]) : d \in S}
<1>0. /\ S \subseteq Nodes
      /\ \A d \in Nodes : IsFiniteSet(Prefix[d]) /\ Prefix[d] \subseteq Nodes /\ d \notin Prefix[d]
      /\ \A d \in Nodes : \A e \in Prefix[d] : Prefix[e] \subseteq Prefix[d]
  BY MLockAssumption DEF Path
<1>1. \A d \in Nodes : Cardinality(Prefix[d]) \in Nat
  BY <1>0, FS_CardinalityType
<1>2. T \in SUBSET Nat /\ T # {}
  BY <1>0, <1>1
<1>3. PICK x \in T : \A y \in T : x <= y
  BY <1>2, LeastNumber
<1>4. PICK d \in S : x = Cardinality(Prefix[d])
  BY <1>3
<1>5. \A e \in S : Cardinality(Prefix[d]) <= Cardinality(Prefix[e])
  BY <1>3, <1>4
<1>6. ASSUME NEW e \in Prefix[d] \intersect S PROVE FALSE
  <2>1. d \in Nodes /\ e \in Nodes /\ Prefix[e] \in SUBSET Prefix[d] /\ Prefix[e] # Prefix[d]
    BY <1>0, <1>6
  <2>2. Cardinality(Prefix[e]) <= Cardinality(Prefix[d]) /\ Cardinality(Prefix[e]) # Cardinality(Prefix[d])
    BY <1>0, <2>1, FS_Subset
  <2> QED BY <1>1, <1>5, <2>1, <2>2
<1> QED BY <1>6

\* The name before d on its path.
LEMMA ParentOf ==
    ASSUME NEW d \in Nodes, Prefix[d] # {}
    PROVE  Deepest(Prefix[d]) \in Prefix[d] /\ Path(Deepest(Prefix[d])) = Prefix[d]
<1>1. Prefix[d] \in SUBSET Path(d)
  BY DEF Path
<1>2. Deepest(Prefix[d]) \in Prefix[d] /\ Prefix[d] \subseteq Path(Deepest(Prefix[d]))
  BY <1>1, DeepestOf
<1> QED BY <1>2, MLockAssumption DEF Path

\* The recursion along a path has a solution ...
LEMMA YieldExists ==
    ASSUME NEW p \in Pids, NEW n \in Nodes
    PROVE  \E g : g = [d \in Path(n) |-> YieldAt(p, g, d)]
<1> DEFINE Solves(g, d) == g = [x \in Path(d) |-> YieldAt(p, g, x)]
           S == {d \in Path(n) : ~\E g : Solves(g, d)}
<1>1. SUFFICES ASSUME S # {} PROVE FALSE
  <2>1. n \in Path(n)
    BY DEF Path
  <2> QED BY <2>1
<1>2. PICK d \in S : Prefix[d] \intersect S = {}
  BY <1>1, Shortest
<1>3. d \in Path(n) /\ d \in Nodes /\ ~(\E g : Solves(g, d)) /\ Prefix[d] \subseteq Path(n)
  BY <1>2, MLockAssumption DEF Path
<1>4. CASE Prefix[d] = {}
  <2> DEFINE g == [x \in Path(d) |-> YieldStep(p, yield[p], x)]
  <2>1. Path(d) = {d}
    BY <1>4 DEF Path
  <2>2. \A h : YieldAt(p, h, d) = YieldStep(p, yield[p], d)
    BY <1>4 DEF YieldAt
  <2>3. Solves(g, d)
    BY <2>1, <2>2
  <2> QED BY <1>3, <2>3
<1>5. CASE Prefix[d] # {}
  <2> DEFINE e == Deepest(Prefix[d])
  <2>1. e \in Prefix[d] /\ Path(e) = Prefix[d]
    BY <1>3, <1>5, ParentOf
  <2>2. PICK f : Solves(f, e)
    BY <1>2, <1>3, <2>1
  <2> DEFINE g == [x \in Path(d) |-> IF x = d THEN YieldAt(p, f, d) ELSE f[x]]
  <2>3. \A x \in Path(d) : x = d \/ x \in Path(e)
    BY <2>1 DEF Path
  <2>4. d \notin Path(e)
    BY <1>3, <2>1, MLockAssumption
  <2>5. \A x \in Path(d) : Prefix[x] # {} => Deepest(Prefix[x]) \in Path(e)
    <3> SUFFICES ASSUME NEW x \in Path(d), Prefix[x] # {} PROVE Deepest(Prefix[x]) \in Path(e)
      OBVIOUS
    <3>1. x \in Nodes /\ Prefix[x] \subseteq Prefix[d]
      BY <1>3, MLockAssumption DEF Path
    <3> QED BY <2>1, <3>1, ParentOf
  <2>6. \A x \in Path(d) : YieldAt(p, g, x) = YieldAt(p, f, x)
    <3> SUFFICES ASSUME NEW x \in Path(d) PROVE YieldAt(p, g, x) = YieldAt(p, f, x)
      OBVIOUS
    <3>1. CASE Prefix[x] = {}
      BY <3>1 DEF YieldAt
    <3>2. CASE Prefix[x] # {}
      <4>1. Deepest(Prefix[x]) \in Path(e)
        BY <2>5, <3>2
      <4>2. Deepest(Prefix[x]) \in Path(d) /\ Deepest(Prefix[x]) # d
        BY <2>1, <2>4, <4>1 DEF Path
      <4>3. g[Deepest(Prefix[x])] = f[Deepest(Prefix[x])]
        BY <4>2
      <4> HIDE DEF g
      <4> QED BY <3>2, <4>3 DEF YieldAt
    <3> QED BY <3>1, <3>2
  <2>7. \A x \in Path(d) : g[x] = YieldAt(p, f, x)
    <3>1. \A x \in Path(e) : f[x] = YieldAt(p, f, x)
      BY <2>2
    <3> QED BY <2>3, <3>1
  <2>8. Solves(g, d)
    <3>1. g = [x \in Path(d) |-> g[x]]
      OBVIOUS
    <3> HIDE DEF g
    <3> QED BY <2>6, <2>7, <3>1
  <2> QED BY <1>3, <2>8
<1> QED BY <1>4, <1>5

\* ... which is what YieldAfter is ...
LEMMA YieldEquation ==
    ASSUME NEW p \in Pids, NEW n \in Nodes
    PROVE  YieldAfter(p, n) = [d \in Path(n) |-> YieldAt(p, YieldAfter(p, n), d)]
<1>1. YieldAfter(p, n) = CHOOSE g : g = [d \in Path(n) |-> YieldAt(p, g, d)]
  BY DEF YieldAfter, YieldAt, YieldStep
<1> QED BY <1>1, YieldExists

\* ... and it is a pid, none, or the mark that this rule is off.
LEMMA YieldType ==
    ASSUME pending \in [Nodes -> Seq(Pids)], NEW p \in Pids, NEW n \in Nodes,
           yield[p] \in Yielders
    PROVE  NewYield(p, n) \in Yielders
<1> DEFINE f == YieldAfter(p, n)
           S == {d \in Path(n) : f[d] \notin Yielders}
<1>1. f = [d \in Path(n) |-> YieldAt(p, f, d)]
  BY YieldEquation
<1>2. \A d \in Nodes, y \in Yielders : YieldStep(p, y, d) \in Yielders
  BY DEF YieldStep, YieldsAt, Yielders
<1> HIDE DEF f
<1>3. ASSUME S # {} PROVE FALSE
  <2>1. PICK d \in S : Prefix[d] \intersect S = {}
    BY <1>3, Shortest
  <2>2. d \in Path(n) /\ d \in Nodes /\ f[d] \notin Yielders /\ Prefix[d] \subseteq Path(n)
    BY <2>1, MLockAssumption DEF Path
  <2>3. f[d] = YieldAt(p, f, d)
    BY <1>1, <2>2
  <2>4. CASE Prefix[d] = {}
    BY <1>2, <2>2, <2>3, <2>4 DEF YieldAt
  <2>5. CASE Prefix[d] # {}
    <3>1. Deepest(Prefix[d]) \in Prefix[d]
      BY <2>2, <2>5, ParentOf
    <3>2. f[Deepest(Prefix[d])] \in Yielders
      BY <2>1, <2>2, <3>1
    <3> QED BY <1>2, <2>2, <2>3, <2>5, <3>2 DEF YieldAt
  <2> QED BY <2>4, <2>5
<1>4. f[n] \in Yielders
  BY <1>3 DEF Path
<1> QED BY <1>4 DEF NewYield, f, Yielders

RestType ==
    /\ crit \in Pids \union {NoPid}
    /\ lock_gc_in_progress \in Pids \union {NoPid}
    /\ gone \subseteq Pids
    /\ waits \in [Pids -> WaitKinds \union {"interrupted"}]
    /\ yield \in [Pids -> Yielders]
    /\ cmds \in [Pids -> Nat]
    /\ valid \subseteq Nodes

\* The types after mlk_lock.
LEMMA LockTypes ==
    ASSUME RestType, NEW p \in Pids, NEW isNew, Target(p) \in Nodes, mlk_lock(p, isNew)
    PROVE  crit' = NoPid /\ lock_gc_in_progress' \in Pids \union {NoPid} /\ valid' \subseteq Nodes
<1>1. PICK F, S : valid' = (valid \ (F \union S)) \union (IF Grantable(p, Target(p)) THEN {Target(p)} ELSE {})
  BY DEF mlk_lock
<1>2. crit' = NoPid /\ lock_gc_in_progress' \in Pids \union {NoPid}
  BY DEF mlk_lock, RestType
<1>3. valid' \subseteq Nodes
  BY <1>1 DEF RestType
<1> QED BY <1>2, <1>3

\* The types after mlk_unlock.
LEMMA UnlockTypes ==
    ASSUME RestType, NEW p \in Pids, NEW n, mlk_unlock(p, n)
    PROVE  crit' = NoPid /\ valid' \subseteq Nodes
BY DEF mlk_unlock, RestType

\* Each step keeps the types.
LEMMA TypeStep ==
    ASSUME RestType, PassInv, TreeInv, NEW p \in Pids, Step(p) \/ Application(p)
    PROVE  RestType'
<1> USE DEF lifeVars, cmdVars, shmVars, pvtVars
<1>0. /\ pending \in [Nodes -> Seq(Pids)] /\ NoPid \in Yielders /\ Disabled \in Yielders
      /\ RestType /\ yield[p] \in Yielders
  BY DEF TreeInv, TreeType, RestType, Yielders
<1>1. ASSUME NEW isNew \in BOOLEAN, Locking(p, isNew), mlk_lock(p, isNew)
      PROVE  /\ NewYield(p, Target(p)) \in Yielders
             /\ crit' = NoPid /\ lock_gc_in_progress' \in Pids \union {NoPid}
             /\ valid' \subseteq Nodes
  <2>1. InPass(p) \/ InWait(p)
    BY <1>1 DEF Locking, At, InPass, InWait, GcPoints, PassInv, PassType, PrivType
  <2>2. Target(p) \in Nodes
    BY <2>1, Names
  <2> QED BY <1>0, <1>1, <2>2, YieldType, LockTypes
<1>2. CASE TryGot(p)
  <2>1. Locking(p, TRUE) /\ mlk_lock(p, TRUE)
    BY <1>2 DEF TryGot
  <2>2. UNCHANGED <<gone, cmds>> /\ \E y \in Yielders : yield' = [yield EXCEPT ![p] = y]
    BY <1>0, <1>1, <1>2, <2>1 DEF TryGot, Obtained
  <2>3. waits' = waits \/ waits' = [waits EXCEPT ![p] = "forever"]
    BY <1>2 DEF TryGot, Obtained, Leave
  <2> QED BY <1>0, <1>1, <2>1, <2>2, <2>3 DEF RestType, WaitKinds
<1>3. CASE TryBlocked(p)
  <2>1. Locking(p, TRUE) /\ mlk_lock(p, TRUE) /\ UNCHANGED <<gone, cmds, waits>>
        /\ yield' = [yield EXCEPT ![p] = NewYield(p, Target(p))]
    BY <1>3 DEF TryBlocked
  <2> QED BY <1>0, <1>1, <2>1 DEF RestType
<1>4. CASE RetryGot(p)
  <2>1. /\ Locking(p, FALSE) /\ mlk_lock(p, FALSE) /\ UNCHANGED <<gone, cmds, waits>>
        /\ \E y \in Yielders : yield' = [yield EXCEPT ![p] = y]
    BY <1>0, <1>4 DEF RetryGot
  <2> QED BY <1>0, <1>1, <2>1 DEF RestType
<1>5. CASE RetryBlocked(p)
  <2>1. Locking(p, FALSE) /\ mlk_lock(p, FALSE) /\ UNCHANGED <<gone, cmds, waits>>
        /\ yield' = [yield EXCEPT ![p] = NewYield(p, Target(p))]
    BY <1>5 DEF RetryBlocked
  <2> QED BY <1>0, <1>1, <2>1 DEF RestType
<1>6. CASE mlk_bckout(p)
  <2>1. /\ UNCHANGED <<lock_gc_in_progress, gone, cmds, waits, yield>>
        /\ mlk_unlock(p, req[p][bck[p] + 1]) \/ UNCHANGED <<crit, valid>>
    BY <1>6 DEF mlk_bckout
  <2>2. crit' \in Pids \union {NoPid} /\ valid' \subseteq Nodes
    BY <1>0, <2>1, UnlockTypes DEF RestType
  <2> QED BY <1>0, <2>1, <2>2 DEF RestType
<1>7. CASE Undo(p)
  <2>1. /\ UNCHANGED <<lock_gc_in_progress, gone, cmds, waits>>
        /\ mlk_unlock(p, Target(p)) /\ yield' = [yield EXCEPT ![p] = Disabled]
    BY <1>7 DEF Undo
  <2> QED BY <1>0, <2>1, UnlockTypes DEF RestType
<1>8. CASE \E n \in Nodes : op_decrlock(p, n) \/ Release(p, n)
  <2>1. PICK n \in Nodes :
           /\ UNCHANGED <<lock_gc_in_progress, gone, cmds, waits, yield>>
           /\ mlk_unlock(p, n) \/ UNCHANGED <<crit, valid>>
    BY <1>8 DEF op_decrlock, Release
  <2>2. crit' \in Pids \union {NoPid} /\ valid' \subseteq Nodes
    BY <1>0, <2>1, UnlockTypes DEF RestType
  <2> QED BY <1>0, <2>1, <2>2 DEF RestType
<1>9. CASE TryAlready(p)
  <2>1. /\ UNCHANGED <<crit, lock_gc_in_progress, gone, cmds, valid>>
        /\ \E y \in Yielders : yield' = [yield EXCEPT ![p] = y]
        /\ waits' = waits \/ waits' = [waits EXCEPT ![p] = "forever"]
    BY <1>0, <1>9 DEF TryAlready, Obtained, Leave
  <2> QED BY <1>0, <2>1 DEF RestType, WaitKinds
<1>10. CASE TimedOut(p) \/ CheckOwn(p)
  <2>1. /\ UNCHANGED <<lock_gc_in_progress, gone, cmds, waits, yield>>
        /\ crit' \in {crit, NoPid} /\ valid' \subseteq valid
    BY <1>10 DEF TimedOut, CheckOwn, ClearAbandoned
  <2> QED BY <1>0, <2>1 DEF RestType
<1>11. CASE mlk_unpend(p)
  <2>1. /\ UNCHANGED <<lock_gc_in_progress, gone, cmds, valid>>
        /\ crit' \in {crit, NoPid} /\ waits' = [waits EXCEPT ![p] = "forever"]
        /\ yield' = [yield EXCEPT ![p] = NoPid]
    BY <1>11 DEF mlk_unpend, Leave
  <2> QED BY <1>0, <2>1 DEF RestType, WaitKinds
<1>12. CASE \/ WakeUp(p) \/ StartGC(p) \/ prepare_for_gc(p) \/ GcNotNeeded(p)
            \/ fill_pid_table(p) \/ check_pids(p) \/ clean_pids(p)
  <2>1. /\ UNCHANGED <<gone, cmds, waits, yield>>
        /\ crit' \in {crit, NoPid, p} /\ lock_gc_in_progress' \in {lock_gc_in_progress, NoPid, p}
        /\ valid' \subseteq valid
    BY <1>12 DEF WakeUp, StartGC, prepare_for_gc, GcNotNeeded, fill_pid_table, check_pids,
       clean_pids
  <2> QED BY <1>0, <2>1 DEF RestType
<1>13. CASE \/ (\E n \in Nodes : mlk_nocrit_unlock(p, n)) \/ NocritOwner(p)
            \/ NocritSequence(p) \/ op_unlock(p) \/ Exit(p)
  <2>1. /\ UNCHANGED <<crit, lock_gc_in_progress, cmds, waits, yield>>
        /\ gone' \subseteq gone \union {p} /\ valid' \subseteq valid
    BY <1>13 DEF mlk_nocrit_unlock, NocritOwner, NocritSequence, op_unlock, Exit
  <2> QED BY <1>0, <2>1 DEF RestType
<1>14. CASE ExitDone(p) \/ Kill(p)
  <2>1. /\ UNCHANGED <<crit, lock_gc_in_progress, cmds, gone, valid>>
        /\ waits' = [waits EXCEPT ![p] = "forever"] /\ yield' = [yield EXCEPT ![p] = NoPid]
    BY <1>14 DEF ExitDone, Kill, Gone
  <2> QED BY <1>0, <2>1 DEF RestType, WaitKinds
<1>15. CASE Expire(p) \/ Interrupt(p)
  <2>1. /\ UNCHANGED <<crit, lock_gc_in_progress, cmds, gone, valid, yield>>
        /\ \E w \in WaitKinds \union {"interrupted"} : waits' = [waits EXCEPT ![p] = w]
    BY <1>0, <1>15 DEF Expire, Interrupt, WaitKinds
  <2> QED BY <1>0, <2>1 DEF RestType
<1>16. CASE \E r \in Requests, w \in Waits : Request(p, r, w)
  <2>1. PICK r \in Requests, w \in Waits : Request(p, r, w)
    BY <1>16
  <2>2. /\ UNCHANGED <<crit, lock_gc_in_progress, gone, valid>>
        /\ waits' = [waits EXCEPT ![p] = w] /\ w \in WaitKinds
        /\ yield' = [yield EXCEPT ![p] = NoPid] /\ cmds' = [cmds EXCEPT ![p] = @ + 1]
    BY <2>1, MLockAssumption DEF Request
  <2> QED BY <1>0, <2>2 DEF RestType
<1> QED BY <1>2, <1>3, <1>4, <1>5, <1>6, <1>7, <1>8, <1>9, <1>10, <1>11, <1>12, <1>13,
          <1>14, <1>15, <1>16 DEF Step, Application

\* Every field of the lock space and every private variable has its type in every
\* state, mlk_yield_pid included.
THEOREM Types == Spec => []TypeOK
<1>1. Init => RestType
  BY DEF Init, RestType, WaitKinds, Yielders
<1>2. RestType /\ PassInv /\ TreeInv /\ [Next]_vars => RestType'
  <2> SUFFICES ASSUME RestType, PassInv, TreeInv, [Next]_vars PROVE RestType'
    OBVIOUS
  <2>1. CASE UNCHANGED vars
    BY <2>1 DEF vars, lifeVars, cmdVars, pvtVars, RestType
  <2>2. CASE Quiescent
    BY <2>1, <2>2 DEF Quiescent
  <2>3. ASSUME NEW p \in Pids, Step(p) \/ Application(p) PROVE RestType'
    BY <2>3, TypeStep
  <2> QED BY <2>1, <2>2, <2>3 DEF Next
<1>3. RestType /\ PassInv /\ TreeInv /\ QueueInv /\ BlockInv /\ ExclInv => TypeOK
  BY DEF TypeOK, RestType, PassInv, PassType, PrivType, TreeInv, TreeType, QueueInv, BlockInv,
     BlockType, ExclInv, OwnerType, Yielders
<1> QED BY <1>1, <1>2, <1>3, PassHolds, TreeHolds, QueueHolds, BlockHolds, ExclHolds, PTL
        DEF Spec

============================================================================

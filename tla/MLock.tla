------------------------------- MODULE MLock -------------------------------
(***************************************************************************)
(* M LOCKs of one region: the tree of lock names in shared memory, the     *)
(* queues of waiting processes, and how the processes of the region take,  *)
(* wait for, back out of, release and lose locks (LOCK +, LOCK -, LOCK     *)
(* without arguments, process exit, kill -9, garbage collection of the     *)
(* lock space).                                                            *)
(*                                                                         *)
(* Everything a process does between GRAB_LOCK_CRIT_AND_SYNC and           *)
(* REL_LOCK_CRIT is one step.  What it does outside is a step of its own.  *)
(***************************************************************************)
EXTENDS Integers, Sequences, FiniteSets

CONSTANTS
    Pids,        \* processes
    NoPid,       \* the pid 0: no owner
    Disabled,    \* MLK_FAIRNESS_DISABLED
    Nodes,       \* lock names
    NoNode,      \* a null pointer to a mlk_shrblk
    Changed,     \* see blocked
    Prefix,      \* Prefix[n]: the names n extends by further subscripts
    MaxBlk,      \* max_blkcnt, the mlk_shrblks there are
    MaxPrc,      \* max_prccnt, the mlk_prcblks there are
    Requests,    \* the lists of names a LOCK + command may have
    Waits,       \* how long it may wait: a subset of WaitKinds
    Interrupts,  \* whether a job interrupt or control-C may hit a wait
    Reordered,   \* whether the two stores of mlk_nocrit_unlock may be swapped
    MaxLevel,    \* bound: how often a process holds one lock
    MaxCommands, \* bound: LOCK + commands of one process
    MaxKills,    \* bound: processes killed
    MaxExits     \* bound: processes that exit

WaitKinds == {"forever", "timed", "expired"}

ASSUME MLockAssumption ==
    /\ NoPid \notin Pids /\ Disabled \notin Pids /\ NoPid # Disabled
    /\ NoNode \notin Nodes /\ Changed \notin Nodes /\ NoNode # Changed
    /\ Prefix \in [Nodes -> SUBSET Nodes]
    /\ \A n \in Nodes :
          /\ n \notin Prefix[n] /\ IsFiniteSet(Prefix[n])
          /\ \A m \in Prefix[n] : Prefix[m] \subseteq Prefix[n]
          /\ \A m, k \in Prefix[n] : m = k \/ m \in Prefix[k] \/ k \in Prefix[m]
    /\ MaxBlk \in Nat \ {0} /\ MaxPrc \in Nat
    /\ Requests \subseteq Seq(Nodes)
    /\ \A r \in Requests :        \* mlk_pvtblk_insert merges equal names
          r # << >> /\ \A i, j \in DOMAIN r : r[i] = r[j] => i = j
    /\ Waits \subseteq WaitKinds
    /\ Interrupts \in BOOLEAN /\ Reordered \in BOOLEAN
    /\ MaxLevel \in Nat /\ MaxCommands \in Nat
    /\ MaxKills \in Nat /\ MaxExits \in Nat

VARIABLES
    \* Shared memory.
    tree,        \* names that have a mlk_shrblk
    owner,       \* d->owner
    pending,     \* d->pending: the queue of waiting pids
    crit,        \* who kept lock crit from one step to the next
    lock_gc_in_progress,
    \* Processes.
    alive,       \* those that were not killed and did not exit
    gone,        \* those that exited
    pc,          \* where in its command each one is
    req,         \* the names of the command
    idx,         \* the name of the command being worked on
    bck,         \* locks_bckout
    waits,       \* NO_M_TIMEOUT, a timeout, or out_of_time
    new,         \* argument of mlk_lock
    yield,       \* TREF(mlk_yield_pid)
    already,     \* already_locked
    dead,        \* pid_table and dead_table of mlk_shrclean
    cmds,        \* LOCK + commands so far
    \* Private mlk_pvtblks, by process and name.
    level,       \* how often the lock is held
    valid,       \* the owned nodes whose sequence is the owner's p->sequence
    nodptr,      \* where p->nodptr is not NULL
    blocked,     \* p->blocked, or Changed once its sequence is no more
                 \* p->blk_sequence
    \* History.
    before       \* level when the command started

shmVars  == <<tree, owner, pending>>
pvtVars  == <<level, valid, nodptr, blocked>>
cmdVars  == <<req, idx, bck, waits, new, yield, already>>
lifeVars == <<alive, gone>>
vars     == <<shmVars, crit, lock_gc_in_progress, lifeVars, pc, cmdVars, dead,
              cmds, pvtVars, before>>

Points == {"idle", "try", "bckout", "wait", "sleep", "retry", "own", "undo",
           "unpend", "gc", "fill", "check", "clean", "find", "release", "exit",
           "exit_owner", "exit_sequence"}

Init ==
    /\ tree = {}
    /\ owner = [n \in Nodes |-> NoPid]
    /\ pending = [n \in Nodes |-> << >>]
    /\ crit = NoPid
    /\ lock_gc_in_progress = NoPid
    /\ alive = Pids /\ gone = {}
    /\ pc = [p \in Pids |-> "idle"]
    /\ req = [p \in Pids |-> << >>]
    /\ idx = [p \in Pids |-> 0]
    /\ bck = [p \in Pids |-> 0]
    /\ waits = [p \in Pids |-> "forever"]
    /\ new = [p \in Pids |-> TRUE]
    /\ yield = [p \in Pids |-> NoPid]
    /\ already = [p \in Pids |-> NoNode]
    /\ dead = [p \in Pids |-> {}]
    /\ cmds = [p \in Pids |-> 0]
    /\ level = [p \in Pids |-> [n \in Nodes |-> 0]]
    /\ valid = {}
    /\ nodptr = [p \in Pids |-> {}]
    /\ blocked = [p \in Pids |-> [n \in Nodes |-> NoNode]]
    /\ before = [p \in Pids |-> [n \in Nodes |-> 0]]

----------------------------------------------------------------------------
(* Names and queues.                                                       *)

Path(n) == Prefix[n] \union {n}

Under(n) == {m \in Nodes : n \in Prefix[m]}

\* Two locks exclude each other if one of the names extends the other.
Related(m, n) == m \in Path(n) \/ n \in Path(m)

\* The longest name of a non-empty set of names of one path.
Deepest(S) == CHOOSE d \in S : S \subseteq Path(d)

Contains(s, p) == \E i \in DOMAIN s : s[i] = p

\* The entries of s at the positions of K, in their order.
Entries(s, K) ==
    [j \in 1 .. Cardinality(K) |->
        s[CHOOSE i \in K : Cardinality({k \in K : k <= i}) = j]]

\* Mutant of Without: the entry stays.
WithoutEffect(s, p) == s

\* mlk_prcblk_delete of a pid: its first entry.
Without(s, p) ==
    Entries(s, DOMAIN s \ {i \in DOMAIN s : s[i] = p /\ \A j \in 1 .. i - 1 : s[j] # p})

FreeBlks == MaxBlk - Cardinality(tree)

\* prccnt is positive: not all of the mlk_prcblks are in the queues q.
PrcFree(q) ==
    Cardinality(UNION {{n} \X DOMAIN q[n] : n \in Nodes}) < MaxPrc

\* The nodes of S get a new sequence: what private blocks remember of theirs is
\* out of date.
Bumped(S) ==
    [p \in Pids |-> [n \in Nodes |->
        IF blocked[p][n] \in S THEN Changed ELSE blocked[p][n]]]

\* mlk_wake_pending: dead processes at the head of the queue are removed, the
\* first live one is sent a signal, which may end its sleep early.
mlk_wake_pending(s) ==
    LET live == {i \in DOMAIN s : s[i] \in alive}
    IN  IF live = {} THEN << >>
        ELSE SubSeq(s, CHOOSE i \in live : \A j \in live : i <= j, Len(s))

\* Lock crit can be had: nobody live kept it.
CritFree(p) == crit = p \/ crit \notin alive

At(p, l) == p \in alive /\ pc[p] = l

Target(p) == req[p][idx[p]]

GoTo(p, l) == pc' = [pc EXCEPT ![p] = l]

----------------------------------------------------------------------------
(* mlk_lock and mlk_shrblk_find, for the lock n = Target(p).               *)

\* n is held against p by a live process that owns d.
LiveOther(p, d) == owner[d] \in alive \ {p}

DeadOwned(S) == {d \in S : owner[d] \in Pids \ alive}

Blockers(p, n) == {d \in Path(n) : LiveOther(p, d)}

\* The fairness rule: p lets the head of the queue of a free node go first,
\* unless it did so before (y is the pid it last let go first).
YieldsAt(p, y, d) ==
    /\ owner[d] = NoPid
    /\ y # Disabled
    /\ pending[d] # << >>
    /\ Head(pending[d]) \notin {y, p}

\* mlk_yield_pid after the node d of the path was looked at, from the top down.
YieldAfter(p, n) ==
    LET after[d \in Path(n)] ==
            LET y == IF Prefix[d] = {} THEN yield[p] ELSE after[Deepest(Prefix[d])]
            IN  IF LiveOther(p, d) THEN NoPid
                ELSE IF YieldsAt(p, y, d) THEN Head(pending[d])
                ELSE y
    IN  after

Yields(p, n) ==
    {d \in Path(n) :
        YieldsAt(p, IF Prefix[d] = {} THEN yield[p]
                    ELSE YieldAfter(p, n)[Deepest(Prefix[d])], d)}

\* There are mlk_shrblks for the nodes of the path that do not exist yet.
Room(n) == FreeBlks >= Cardinality(Path(n) \ tree)

\* Nothing on the path blocks p and there are nodes below to look at.
Searched(p, n) ==
    /\ Blockers(p, n) \union Yields(p, n) = {}
    /\ Room(n)
    /\ Under(n) \intersect tree # {}

\* Mutant of ChildBlockers: nothing below is looked at.
NoChildBlockers(p, n) == {}

\* mlk_find_blocking_child_lock stops at any one of these (the order of siblings
\* is not modelled).
ChildBlockers(p, n) ==
    IF Searched(p, n) THEN {d \in Under(n) : LiveOther(p, d)} ELSE {}

\* The value p->blocked gets.
BlockedBy(p, n) ==
    LET onPath == Blockers(p, n) \union Yields(p, n)
    IN  IF onPath # {} THEN {Deepest(onPath)}
        ELSE IF ChildBlockers(p, n) # {} THEN ChildBlockers(p, n)
        ELSE {NoNode}

\* The nodes taken away from dead owners: all on the path, and below it those
\* met before the blocking one.
Freed(p, n, b) ==
    LET below == DeadOwned(Under(n))
        met == IF Searched(p, n)
               THEN IF b = NoNode THEN {below}
                    ELSE {F \in SUBSET below : below \intersect Prefix[b] \subseteq F}
               ELSE {{}}
    IN  {DeadOwned(Path(n)) \union F : F \in met}

\* The lock is granted.
Grantable(p, n) ==
    /\ owner[n] # p
    /\ Room(n)
    /\ Blockers(p, n) = {} /\ Yields(p, n) = {} /\ ChildBlockers(p, n) = {}

Got(p, n) == owner[n] = p \/ Grantable(p, n)

\* Waiting processes queue up at their target.
Queues(p, n, isNew) ==
    LET woken == [d \in Nodes |-> IF d \in Yields(p, n)
                                  THEN mlk_wake_pending(pending[d])
                                  ELSE pending[d]]
    IN  IF Grantable(p, n) /\ ~isNew
        THEN [woken EXCEPT ![n] = Without(@, p)]
        ELSE IF ~Got(p, n) /\ isNew /\ Room(n) /\ PrcFree(woken)
                /\ ~Contains(woken[n], p)
        THEN [woken EXCEPT ![n] = Append(@, p)]
        ELSE woken

\* A private block's p->blocked is not looked at while its lock is held, and the
\* block is deleted when the lock is released: it is cleared here, in the values
\* bl of blocked, once a command has obtained all of its locks.
Settled(p, isNew, bl) ==
    IF isNew /\ Got(p, Target(p)) /\ idx[p] = Len(req[p])
    THEN [bl EXCEPT ![p] = [m \in Nodes |-> IF Contains(req[p], m) THEN NoNode
                                            ELSE @[m]]]
    ELSE bl

\* What mlk_lock does to shared memory and to the private block of n.
mlk_lock(p, isNew) ==
    LET n == Target(p)
        taken == IF Grantable(p, n) THEN {n} ELSE {}
        bumped == Yields(p, n) \union taken
    IN
    /\ tree' = IF Room(n) THEN tree \union Path(n) ELSE tree
    /\ pending' = Queues(p, n, isNew)
    /\ nodptr' = IF /\ Room(n)
                    /\ Got(p, n) \/ ~isNew \/ Contains(pending'[n], p)
                 THEN [nodptr EXCEPT ![p] = @ \union {n}] ELSE nodptr
    /\ \E b \in BlockedBy(p, n) : \E F \in Freed(p, n, b) :
          /\ owner' = [d \in Nodes |-> IF d \in taken THEN p
                                       ELSE IF d \in F THEN NoPid
                                       ELSE owner[d]]
          /\ valid' = (valid \ (F \union bumped)) \union taken
          /\ blocked' = IF b = NoNode THEN Settled(p, isNew, Bumped(bumped))
                        ELSE Settled(p, isNew,
                                 [Bumped(bumped) EXCEPT ![p][n] =
                                     IF b \in bumped THEN Changed ELSE b])
    /\ crit' = NoPid
    /\ lock_gc_in_progress' = IF pc[p] = "find" THEN NoPid
                              ELSE lock_gc_in_progress

\* mlk_yield_pid when mlk_lock returns.
NewYield(p, n) == IF Searched(p, n) THEN NoPid ELSE YieldAfter(p, n)[n]

NeedsGC(n) == FreeBlks < Cardinality(Path(n))

\* p is about to search the tree with lock crit held.
Locking(p, isNew) ==
    \/ /\ At(p, IF isNew THEN "try" ELSE "retry")
       /\ CritFree(p)
       /\ ~NeedsGC(Target(p))
       /\ isNew => Target(p) # already[p]
    \/ At(p, "find") /\ crit = p /\ new[p] = isNew

----------------------------------------------------------------------------
(* mlk_lock, continued: garbage collection of the lock space.              *)

\* There are too few mlk_shrblks: lock crit is released, prepare_for_gc called.
StartGC(p) ==
    /\ (At(p, "try") /\ Target(p) # already[p]) \/ At(p, "retry")
    /\ CritFree(p)
    /\ NeedsGC(Target(p))
    /\ new' = [new EXCEPT ![p] = (pc[p] = "try")]
    /\ GoTo(p, "gc")
    /\ crit' = NoPid
    /\ UNCHANGED <<shmVars, lock_gc_in_progress, lifeVars, req, idx, bck, waits,
                   yield, already, dead, cmds, pvtVars, before>>

\* prepare_for_gc takes the latch, away from a dead process if need be.
prepare_for_gc(p) ==
    /\ At(p, "gc")
    /\ lock_gc_in_progress \notin alive \ {p}
    /\ lock_gc_in_progress' = p
    /\ GoTo(p, "fill")
    /\ UNCHANGED <<shmVars, crit, lifeVars, cmdVars, dead, cmds, pvtVars, before>>

\* mlk_garbage_collect has nothing to do any more: crit is kept for the search.
GcNotNeeded(p) ==
    /\ At(p, "fill")
    /\ CritFree(p)
    /\ ~NeedsGC(Target(p)) \/ tree = {}
    /\ crit' = p
    /\ GoTo(p, "find")
    /\ UNCHANGED <<shmVars, lock_gc_in_progress, lifeVars, cmdVars, dead, cmds,
                   pvtVars, before>>

\* A queue without its last entry, where fill_pid_table and clean_pids stop.
ButLast(s) == SubSeq(s, 1, Len(s) - 1)

\* fill_pid_table notes the pids of the owners and, for each queue, all but the
\* last.
fill_pid_table(p) ==
    /\ At(p, "fill")
    /\ CritFree(p)
    /\ NeedsGC(Target(p)) /\ tree # {}
    /\ dead' = [dead EXCEPT ![p] =
                   {q \in Pids : \E n \in tree : \/ owner[n] = q
                                               \/ Contains(ButLast(pending[n]), q)}]
    /\ GoTo(p, "check")
    /\ crit' = NoPid
    /\ UNCHANGED <<shmVars, lock_gc_in_progress, lifeVars, cmdVars, cmds, pvtVars,
                   before>>

\* check_pids, without crit: which of them are dead.
check_pids(p) ==
    /\ At(p, "check")
    /\ dead' = [dead EXCEPT ![p] = @ \ alive]
    /\ GoTo(p, "clean")
    /\ UNCHANGED <<shmVars, crit, lock_gc_in_progress, lifeVars, cmdVars, cmds,
                   pvtVars, before>>

\* clean_pids removes them from the nodes and from the queues, except as the last
\* in a queue, and deletes the nodes nobody uses; crit is kept for the search.
clean_pids(p) ==
    LET D == dead[p]
        queue(n) == Entries(pending[n], {i \in DOMAIN pending[n] :
                                   i = Len(pending[n]) \/ pending[n][i] \notin D})
        free(n) == owner[n] \in D \union {NoPid}
        unused == {n \in tree : \A m \in tree \intersect (Under(n) \union {n}) :
                                   free(m) /\ queue(m) = << >>}
        bumped == {n \in tree : free(n)}
    IN
    /\ At(p, "clean")
    /\ CritFree(p)
    /\ pending' = [n \in Nodes |-> queue(n)]
    /\ owner' = [n \in Nodes |-> IF free(n) THEN NoPid ELSE owner[n]]
    /\ valid' = valid \ bumped
    /\ tree' = tree \ unused
    /\ blocked' = Bumped(bumped)
    /\ dead' = [dead EXCEPT ![p] = {}]
    /\ crit' = p
    /\ GoTo(p, "find")
    /\ UNCHANGED <<lock_gc_in_progress, lifeVars, cmdVars, cmds, level, nodptr,
                   before>>

----------------------------------------------------------------------------
(* mlk_unlock, mlk_unpend, mlk_check_own.                                  *)

\* mlk_tree_wake_children: the nodes below n down to the first owned ones, and
\* those of them whose queue is woken: the waiting ones with none below.
Reached(n) ==
    {b \in Under(n) \intersect tree :
        \A d \in Path(b) \intersect Under(n) : owner[d] = NoPid}

WokenBelow(n) ==
    {b \in Reached(n) :
        /\ pending[b] # << >>
        /\ \A c \in Under(b) \intersect Reached(n) : pending[c] = << >>}

\* If there are none, the next waiting node from n on up is woken.
WokenBy(n) ==
    LET up == {d \in Path(n) : (d = n \/ owner[d] = NoPid) /\ pending[d] # << >>}
    IN  IF WokenBelow(n) # {} THEN WokenBelow(n)
        ELSE IF up # {} THEN {Deepest(up)}
        ELSE {}

\* Mutant of DeletedBy: whether a node has children does not matter.
DeletedWithChildren(n) ==
    {d \in Reached(n) \union Path(n) : (d = n \/ owner[d] = NoPid) /\ pending[d] = << >>}

\* mlk_shrblk_delete_if_empty, applied to the nodes visited, from the bottom up.
DeletedBy(n) ==
    LET visited == Reached(n) \union Path(n)
    IN  {d \in visited :
            \A c \in tree \intersect (Under(d) \union {d}) :
                /\ c \in visited
                /\ c = n \/ owner[c] = NoPid
                /\ pending[c] = << >>}

\* Mutant of Resequenced: a deleted node keeps its sequence.
ResequencedIfKept(n) == {n} \union WokenBy(n)

\* The nodes whose sequence an unlock of n changes.
Resequenced(n) == {n} \union WokenBy(n) \union DeletedBy(n)

\* p releases n, if it is p's.
mlk_unlock(p, n) ==
    /\ CritFree(p)
    /\ crit' = NoPid
    /\ IF owner[n] = p /\ n \in valid
       THEN /\ owner' = [owner EXCEPT ![n] = NoPid]
            /\ pending' = [d \in Nodes |-> IF d \in WokenBy(n)
                                           THEN mlk_wake_pending(pending[d])
                                           ELSE pending[d]]
            /\ tree' = tree \ DeletedBy(n)
            /\ valid' = valid \ {n}
            /\ blocked' = Bumped(Resequenced(n))
       ELSE UNCHANGED <<owner, pending, tree, valid, blocked>>

\* Mutant of ClearAbandoned: whether the owner is dead is not looked at.
ClearOwner(p, b) ==
    /\ IF b = NoNode THEN UNCHANGED crit ELSE CritFree(p) /\ crit' = NoPid
    /\ IF b \in Nodes
       THEN owner' = [owner EXCEPT ![b] = NoPid] /\ valid' = valid \ {b}
       ELSE UNCHANGED <<owner, valid>>

\* The value mlk_check_own returns: the wait is over, or the blocking node is
\* taken away from a dead owner.
mlk_check_own(b) == b # NoNode /\ (b = Changed \/ owner[b] \notin alive)

\* ... and what it does, in crit, to the blocking node.
ClearAbandoned(p, b) ==
    /\ IF b = NoNode THEN UNCHANGED crit ELSE CritFree(p) /\ crit' = NoPid
    /\ IF b \in Nodes /\ owner[b] \in Pids \ alive
       THEN /\ owner' = [owner EXCEPT ![b] = NoPid]
            /\ valid' = valid \ {b}
       ELSE UNCHANGED <<owner, valid>>

----------------------------------------------------------------------------
(* op_lock2: LOCK + with a list of names, all or none of which are taken.  *)

Request(p, r, w) ==
    /\ At(p, "idle")
    /\ cmds[p] < MaxCommands
    /\ \A i \in DOMAIN r : level[p][r[i]] < MaxLevel
    /\ req' = [req EXCEPT ![p] = r]
    /\ idx' = [idx EXCEPT ![p] = 1]
    /\ waits' = [waits EXCEPT ![p] = w]
    /\ yield' = [yield EXCEPT ![p] = NoPid]
    /\ already' = [already EXCEPT ![p] = NoNode]
    /\ before' = [before EXCEPT ![p] = level[p]]
    /\ cmds' = [cmds EXCEPT ![p] = @ + 1]
    /\ GoTo(p, "try")
    /\ UNCHANGED <<shmVars, crit, lock_gc_in_progress, lifeVars, bck, new, dead,
                   pvtVars>>

\* Forget the command: its variables are local to op_lock2.
Leave(p) ==
    /\ GoTo(p, "idle")
    /\ req' = [req EXCEPT ![p] = << >>]
    /\ idx' = [idx EXCEPT ![p] = 0]
    /\ waits' = [waits EXCEPT ![p] = "forever"]
    /\ new' = [new EXCEPT ![p] = TRUE]
    /\ already' = [already EXCEPT ![p] = NoNode]
    /\ UNCHANGED bck
    /\ before' = [before EXCEPT ![p] = [n \in Nodes |-> 0]]

\* A lock of the pass was obtained: on to the next one.
Obtained(p, y) ==
    /\ level' = [level EXCEPT ![p][Target(p)] = @ + 1]
    /\ IF idx[p] = Len(req[p])
       THEN Leave(p) /\ yield' = [yield EXCEPT ![p] = NoPid]
       ELSE /\ idx' = [idx EXCEPT ![p] = @ + 1]
            /\ yield' = [yield EXCEPT ![p] = y]
            /\ GoTo(p, "try")
            /\ UNCHANGED <<req, bck, waits, new, already, before>>
    /\ UNCHANGED <<lifeVars, dead, cmds>>

\* The lock obtained in the wait before is not asked for again.
TryAlready(p) ==
    /\ At(p, "try")
    /\ Target(p) = already[p]
    /\ Obtained(p, yield[p])
    /\ blocked' = Settled(p, TRUE, blocked)
    /\ UNCHANGED <<shmVars, crit, lock_gc_in_progress, valid, nodptr>>

TryGot(p) ==
    /\ Locking(p, TRUE)
    /\ Got(p, Target(p))
    /\ mlk_lock(p, TRUE)
    /\ Obtained(p, NewYield(p, Target(p)))

\* Mutant of AfterBlocked: the locks obtained before are kept.
WaitAtOnce(p) == "wait"

AfterBlocked(p) == IF idx[p] = 1 THEN "wait" ELSE "bckout"

\* Blocked: the locks the pass obtained so far are backed out.
TryBlocked(p) ==
    /\ Locking(p, TRUE)
    /\ ~Got(p, Target(p))
    /\ mlk_lock(p, TRUE)
    /\ yield' = [yield EXCEPT ![p] = NewYield(p, Target(p))]
    /\ GoTo(p, AfterBlocked(p))
    /\ UNCHANGED <<lifeVars, req, idx, bck, waits, new, already, dead, cmds, level,
                   before>>

\* Mutant of LastBckout: one more, the lock that was not obtained.
LastBckoutTooLate(p) == bck[p] + 1 = idx[p]

LastBckout(p) == bck[p] + 1 = idx[p] - 1

\* mlk_bckout of one of them.
mlk_bckout(p) ==
    LET n == req[p][bck[p] + 1] IN
    /\ At(p, "bckout")
    /\ level' = [level EXCEPT ![p][n] = @ - 1]
    /\ IF level[p][n] = 1
       THEN mlk_unlock(p, n) /\ nodptr' = [nodptr EXCEPT ![p] = @ \ {n}]
       ELSE UNCHANGED <<shmVars, crit, valid, blocked, nodptr>>
    /\ IF LastBckout(p)
       THEN bck' = [bck EXCEPT ![p] = 0] /\ GoTo(p, "wait")
       ELSE bck' = [bck EXCEPT ![p] = @ + 1] /\ UNCHANGED pc
    /\ UNCHANGED <<lock_gc_in_progress, lifeVars, req, idx, waits, new, yield,
                   already, dead, cmds, before>>

\* The timeout runs out.
Expire(p) ==
    /\ At(p, "wait")
    /\ waits[p] = "timed"
    /\ waits' = [waits EXCEPT ![p] = "expired"]
    /\ UNCHANGED <<shmVars, crit, lock_gc_in_progress, lifeVars, pc, req, idx,
                   bck, new, yield, already, dead, cmds, pvtVars, before>>

\* Out of time: give up unless mlk_check_own finds that the wait may be over.
TimedOut(p) ==
    LET b == blocked[p][Target(p)] IN
    /\ At(p, "wait")
    /\ waits[p] = "expired"
    /\ ClearAbandoned(p, b)
    /\ GoTo(p, IF mlk_check_own(b) THEN "sleep" ELSE "unpend")
    /\ UNCHANGED <<tree, pending, lock_gc_in_progress, lifeVars, cmdVars, dead,
                   cmds, level, nodptr, blocked, before>>

\* A job interrupt or control-C ends the command, also a timed one.  It only counts
\* as a timeout if the time is up.
Interrupt(p) ==
    /\ Interrupts
    /\ At(p, "wait")
    /\ waits' = [waits EXCEPT ![p] = IF @ = "expired" THEN @ ELSE "interrupted"]
    /\ GoTo(p, "unpend")
    /\ UNCHANGED <<shmVars, crit, lock_gc_in_progress, lifeVars, req, idx, bck,
                   new, yield, already, dead, cmds, pvtVars, before>>

\* mlk_unpend, and the end of the command.  After a timeout the private blocks
\* that were not granted are deleted.
mlk_unpend(p) ==
    LET n == Target(p)
        kept == {m \in Nodes : level[p][m] > 0}
    IN
    /\ At(p, "unpend")
    /\ IF n \in nodptr[p]
       THEN /\ CritFree(p)
            /\ crit' = NoPid
            /\ pending' = [pending EXCEPT ![n] = Without(@, p)]
       ELSE UNCHANGED <<crit, pending>>
    /\ IF waits[p] = "interrupted"
       THEN UNCHANGED <<nodptr, blocked>>
       ELSE /\ nodptr' = [nodptr EXCEPT ![p] = @ \intersect kept]
            /\ blocked' = [blocked EXCEPT ![p] =
                              [m \in Nodes |-> IF m \in kept THEN @[m]
                                               ELSE NoNode]]
    /\ Leave(p)
    /\ yield' = [yield EXCEPT ![p] = NoPid]
    /\ UNCHANGED <<tree, owner, lock_gc_in_progress, lifeVars, dead, cmds, level,
                   valid>>

\* Mutant of StillBlocked: whether the owner is alive is not looked at.
StillUnchanged(p) == blocked[p][Target(p)] \in Nodes

\* The blocking node is as it was, and its owner is alive.
StillBlocked(p) ==
    LET b == blocked[p][Target(p)] IN b \in Nodes /\ owner[b] \in alive

\* After each sleep, without crit: only if something changed the lock is tried
\* again.  If not, the process goes on waiting, which is no step (and not after
\* mlk_check_own found a change: a node has a new sequence if it has a new owner).
WakeUp(p) ==
    /\ At(p, "sleep") \/ (At(p, "wait") /\ waits[p] # "expired")
    /\ ~StillBlocked(p)
    /\ GoTo(p, "retry")
    /\ UNCHANGED <<shmVars, crit, lock_gc_in_progress, lifeVars, cmdVars, dead,
                   cmds, pvtVars, before>>

\* The lock waited for is obtained.  If it is not the first of the command it is
\* released again, and all are tried from the start.
RetryGot(p) ==
    LET n == Target(p)
        y == NewYield(p, n)
    IN
    /\ Locking(p, FALSE)
    /\ Got(p, n)
    /\ mlk_lock(p, FALSE)
    /\ yield' = [yield EXCEPT ![p] = IF y = Disabled THEN y ELSE NoPid]
    /\ already' = [already EXCEPT ![p] = IF idx[p] = 1 THEN n ELSE @]
    /\ GoTo(p, IF idx[p] = 1 THEN "try" ELSE "undo")
    /\ UNCHANGED <<lifeVars, req, idx, bck, waits, new, dead, cmds, level, before>>

Undo(p) ==
    /\ At(p, "undo")
    /\ mlk_unlock(p, Target(p))
    /\ already' = [already EXCEPT ![p] = NoNode]
    /\ yield' = [yield EXCEPT ![p] = Disabled]
    /\ idx' = [idx EXCEPT ![p] = 1]
    /\ GoTo(p, "try")
    /\ UNCHANGED <<lock_gc_in_progress, lifeVars, req, bck, waits, new, dead, cmds,
                   level, nodptr, before>>

RetryBlocked(p) ==
    /\ Locking(p, FALSE)
    /\ ~Got(p, Target(p))
    /\ mlk_lock(p, FALSE)
    /\ yield' = [yield EXCEPT ![p] = NewYield(p, Target(p))]
    /\ GoTo(p, IF Target(p) \in nodptr'[p] THEN "own" ELSE "wait")
    /\ UNCHANGED <<lifeVars, req, idx, bck, waits, new, already, dead, cmds, level,
                   before>>

\* "clear an abandoned owner"
CheckOwn(p) ==
    /\ At(p, "own")
    /\ ClearAbandoned(p, blocked[p][Target(p)])
    /\ GoTo(p, "wait")
    /\ UNCHANGED <<tree, pending, lock_gc_in_progress, lifeVars, cmdVars, dead,
                   cmds, level, nodptr, blocked, before>>

----------------------------------------------------------------------------
(* Releasing locks.                                                        *)

Holds(p) == {n \in Nodes : level[p][n] > 0}

\* The private block of n is deleted.
Forget(p, n) ==
    /\ level' = [level EXCEPT ![p][n] = 0]
    /\ nodptr' = [nodptr EXCEPT ![p] = @ \ {n}]

\* op_decrlock, LOCK - with one name.
op_decrlock(p, n) ==
    /\ At(p, "idle")
    /\ n \in Holds(p)
    /\ IF level[p][n] = 1
       THEN mlk_unlock(p, n) /\ Forget(p, n)
       ELSE /\ level' = [level EXCEPT ![p][n] = @ - 1]
            /\ UNCHANGED <<shmVars, crit, valid, nodptr, blocked>>
    /\ UNCHANGED <<lock_gc_in_progress, lifeVars, pc, cmdVars, dead, cmds, before>>

\* op_unlock, LOCK without arguments, releases one after the other.
op_unlock(p) ==
    /\ At(p, "idle")
    /\ Holds(p) # {}
    /\ GoTo(p, "release")
    /\ UNCHANGED <<shmVars, crit, lock_gc_in_progress, lifeVars, cmdVars, dead,
                   cmds, pvtVars, before>>

Release(p, n) ==
    /\ At(p, "release")
    /\ n \in Holds(p)
    /\ mlk_unlock(p, n)
    /\ Forget(p, n)
    /\ GoTo(p, IF Holds(p) = {n} THEN "idle" ELSE "release")
    /\ UNCHANGED <<lock_gc_in_progress, lifeVars, cmdVars, dead, cmds, before>>

\* The exit handler calls op_unlock too, which then uses mlk_nocrit_unlock.  A
\* process may exit on a signal while it waits.
Exit(p) ==
    /\ \E l \in {"idle", "wait", "sleep"} : At(p, l)
    /\ Cardinality(gone) < MaxExits
    /\ gone' = gone \union {p}
    /\ GoTo(p, "exit")
    /\ UNCHANGED <<shmVars, crit, lock_gc_in_progress, alive, cmdVars, dead, cmds,
                   pvtVars, before>>

\* mlk_nocrit_unlock gives n a new sequence, or finds that n is not p's ...
mlk_nocrit_unlock(p, n) ==
    /\ At(p, "exit")
    /\ n \in Holds(p)
    /\ IF owner[n] = p /\ n \in valid
       THEN /\ req' = [req EXCEPT ![p] = <<n>>]
            /\ idx' = [idx EXCEPT ![p] = 1]
            /\ \/ /\ GoTo(p, "exit_owner")
                  /\ blocked' = Bumped({n})
                  /\ valid' = valid \ {n}
                  /\ UNCHANGED owner
               \/ /\ Reordered
                  /\ GoTo(p, "exit_sequence")
                  /\ owner' = [owner EXCEPT ![n] = NoPid]
                  /\ valid' = valid \ {n}
                  /\ UNCHANGED blocked
            /\ UNCHANGED <<level, nodptr>>
       ELSE /\ Forget(p, n)
            /\ UNCHANGED <<owner, valid, blocked, req, idx, pc>>
    /\ UNCHANGED <<tree, pending, crit, lock_gc_in_progress, lifeVars, bck, waits,
                   new, yield, already, dead, cmds, before>>

\* ... and then frees it, without crit.
NocritOwner(p) ==
    /\ At(p, "exit_owner")
    /\ owner' = [owner EXCEPT ![Target(p)] = NoPid]
    /\ Forget(p, Target(p))
    /\ GoTo(p, "exit")
    /\ UNCHANGED <<tree, pending, crit, lock_gc_in_progress, lifeVars, cmdVars,
                   dead, cmds, valid, blocked, before>>

\* The two stores in the other order: the sequence is stored when the node may
\* have a new owner.
NocritSequence(p) ==
    /\ At(p, "exit_sequence")
    /\ blocked' = Bumped({Target(p)})
    /\ valid' = valid \ {Target(p)}
    /\ Forget(p, Target(p))
    /\ GoTo(p, "exit")
    /\ UNCHANGED <<shmVars, crit, lock_gc_in_progress, lifeVars, cmdVars, dead,
                   cmds, before>>

\* The private state of a process that is gone is gone.
Gone(p) ==
    /\ alive' = alive \ {p}
    /\ GoTo(p, "idle")
    /\ req' = [req EXCEPT ![p] = << >>]
    /\ idx' = [idx EXCEPT ![p] = 0]
    /\ bck' = [bck EXCEPT ![p] = 0]
    /\ waits' = [waits EXCEPT ![p] = "forever"]
    /\ new' = [new EXCEPT ![p] = TRUE]
    /\ yield' = [yield EXCEPT ![p] = NoPid]
    /\ already' = [already EXCEPT ![p] = NoNode]
    /\ dead' = [dead EXCEPT ![p] = {}]
    /\ level' = [level EXCEPT ![p] = [n \in Nodes |-> 0]]
    /\ nodptr' = [nodptr EXCEPT ![p] = {}]
    /\ blocked' = [blocked EXCEPT ![p] = [n \in Nodes |-> NoNode]]
    /\ before' = [before EXCEPT ![p] = [n \in Nodes |-> 0]]
    /\ UNCHANGED <<shmVars, crit, lock_gc_in_progress, valid, cmds, gone>>

ExitDone(p) == At(p, "exit") /\ Holds(p) = {} /\ Gone(p)

\* kill -9.
Kill(p) ==
    /\ p \in alive
    /\ Cardinality(Pids \ (alive \union gone)) < MaxKills
    /\ Gone(p)

----------------------------------------------------------------------------

\* Nobody has a command left to execute.
Quiescent ==
    /\ \A p \in alive : pc[p] = "idle" /\ Holds(p) = {} /\ cmds[p] = MaxCommands
    /\ UNCHANGED vars

\* What a process inside a command, or on its way out, does by itself.
Step(p) ==
    \/ TryAlready(p) \/ TryGot(p) \/ TryBlocked(p) \/ mlk_bckout(p)
    \/ TimedOut(p) \/ mlk_unpend(p) \/ WakeUp(p)
    \/ RetryGot(p) \/ Undo(p) \/ RetryBlocked(p) \/ CheckOwn(p)
    \/ StartGC(p) \/ prepare_for_gc(p) \/ GcNotNeeded(p)
    \/ fill_pid_table(p) \/ check_pids(p) \/ clean_pids(p)
    \/ \E n \in Nodes : Release(p, n) \/ mlk_nocrit_unlock(p, n)
    \/ NocritOwner(p) \/ NocritSequence(p) \/ ExitDone(p)

\* What the application and its user do.
Application(p) ==
    \/ \E r \in Requests, w \in Waits : Request(p, r, w)
    \/ op_unlock(p)
    \/ \E n \in Nodes : op_decrlock(p, n)
    \/ Expire(p) \/ Interrupt(p) \/ Exit(p) \/ Kill(p)

Next == (\E p \in Pids : Step(p) \/ Application(p)) \/ Quiescent

Spec == Init /\ [][Next]_vars

\* A live process keeps running and gets lock crit or the latch if they become free
\* again and again, and an application does not keep its locks forever.
FairSpec == Spec /\ \A p \in Pids : SF_vars(Step(p)) /\ WF_vars(op_unlock(p))

----------------------------------------------------------------------------
(* Properties.                                                             *)

\* Every field has its type.
TypeOK ==
    /\ tree \subseteq Nodes
    /\ owner \in [Nodes -> Pids \union {NoPid}]
    /\ pending \in [Nodes -> Seq(Pids)]
    /\ crit \in Pids \union {NoPid}
    /\ lock_gc_in_progress \in Pids \union {NoPid}
    /\ alive \subseteq Pids /\ gone \subseteq Pids
    /\ pc \in [Pids -> Points]
    /\ req \in [Pids -> Seq(Nodes)]
    /\ idx \in [Pids -> Nat] /\ bck \in [Pids -> Nat]
    /\ waits \in [Pids -> WaitKinds \union {"interrupted"}]
    /\ new \in [Pids -> BOOLEAN]
    /\ yield \in [Pids -> Pids \union {NoPid, Disabled}]
    /\ already \in [Pids -> Nodes \union {NoNode}]
    /\ dead \in [Pids -> SUBSET Pids]
    /\ cmds \in [Pids -> Nat]
    /\ level \in [Pids -> [Nodes -> Nat]]
    /\ valid \subseteq Nodes
    /\ nodptr \in [Pids -> SUBSET Nodes]
    /\ blocked \in [Pids -> [Nodes -> Nodes \union {NoNode, Changed}]]
    /\ before \in [Pids -> [Nodes -> Nat]]

\* The lock tree: whatever is owned or waited for exists, with all its prefixes,
\* and the lock space is not exceeded.
TreeOK ==
    /\ Cardinality(tree) <= MaxBlk
    /\ Cardinality(UNION {{n} \X DOMAIN pending[n] : n \in Nodes}) <= MaxPrc
    /\ \A n \in tree : Prefix[n] \subseteq tree
    /\ \A n \in Nodes \ tree : owner[n] = NoPid /\ pending[n] = << >>

\* Two live processes never own locks of which one name extends the other.
LockExclusion ==
    \A m, n \in Nodes :
        (/\ Related(m, n)
         /\ owner[m] \in alive
         /\ owner[n] \in alive) => owner[m] = owner[n]

Exiting(p) == pc[p] \in {"exit", "exit_owner", "exit_sequence"}

\* The locks p is in the middle of taking or giving back inside op_lock2.
InTransit(p) ==
    IF pc[p] = "undo" THEN {Target(p)}
    ELSE IF pc[p] = "try" /\ idx[p] = 1 THEN {already[p]} \intersect Nodes
    ELSE {}

\* A live process owns exactly the locks it believes it holds, and can release
\* them: mlk_unlock, which compares sequences, will not take them for somebody
\* else's.
HeldIsOwned ==
    \A p \in alive : ~Exiting(p) =>
        \A n \in Nodes :
            /\ n \in Holds(p) \union InTransit(p) <=> owner[n] = p
            /\ owner[n] = p => n \in valid

Waiting(p) == pc[p] \in {"wait", "sleep", "retry", "own", "unpend"}

\* A command that waits, or gives up, has none of the locks it asked for: it holds
\* what it held before, and those other processes need are free.
AllOrNothing ==
    \A p \in alive : Waiting(p) => level[p] = before[p]

\* What a waiting process remembers of the node that blocks it is about that node:
\* it was not deleted since, nor used for another name, nor is it p's by now.  If
\* not, p would go on sleeping because of a lock it does not need.
BlockedIsCurrent ==
    \A p \in alive : Waiting(p) /\ blocked[p][Target(p)] \in Nodes =>
        LET b == blocked[p][Target(p)] IN
        b \in tree /\ owner[b] # p /\ Related(b, Target(p))

\* A live process is in a queue only once, and only while it waits for that lock.
QueuedIsWaiting ==
    \A n \in Nodes : \A i \in DOMAIN pending[n] :
        LET p == pending[n][i] IN
        p \in alive /\ ~Exiting(p) =>
            /\ idx[p] > 0 /\ Target(p) = n
            /\ pc[p] \notin {"idle", "try", "undo", "release"}
            /\ \A j \in DOMAIN pending[n] : pending[n][j] = p => j = i

\* A LOCK command without timeout ends, once the other processes release their
\* locks, exit or die.
EventuallyObtained ==
    \A p \in Pids : pc[p] = "try" ~> pc[p] = "idle"

============================================================================

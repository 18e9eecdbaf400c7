------------------------------ MODULE MlkHash ------------------------------
(***************************************************************************)
(* The hash table of the M lock tree: hopscotch hashing in shared memory.  *)
(* Every mlk_shrblk of the tree is in one bucket of the table, at most     *)
(* MLK_SHRHASH_NEIGHBORS - 1 buckets after the home bucket of its hash,    *)
(* and bit k of the usedmap of a bucket b says that bucket b + k holds an  *)
(* entry whose home is b.  Making room moves entries; when that fails the  *)
(* lock space is garbage collected, and the table is then rehashed with    *)
(* another seed or replaced by a larger one in a new shared memory         *)
(* segment, which the other processes notice the next time they grab lock  *)
(* crit.                                                                   *)
(*                                                                         *)
(* Who waits for whom, wakeups and deaths of processes are the subject of  *)
(* module MLock; here an owner and the waiters of a node only keep it from *)
(* being deleted, and no process dies.                                     *)
(***************************************************************************)
EXTENDS Integers, Sequences, SequencesExt, FiniteSets, FiniteSetsExt

CONSTANTS
    Procs,      \* the processes that give LOCK commands
    Nodes,      \* the nodes of the lock tree that can be created
    Path,       \* the nodes from the top to a node, one for each subscript of its name
    NoNode,
    HashOf,     \* HashOf[s][n]: the hash of the name of n with the seed s
    NEIGHBORS,  \* MLK_SHRHASH_NEIGHBORS
    Sizes,      \* the sizes a table can have
    MaxBlk,     \* max_blkcnt
    MaxLke,     \* bound: the LKE commands given
    NoProc

Seeds   == DOMAIN HashOf
MaxSize == Max(Sizes)
\* MAX_LOCK_GC_REHASH_RESIZE_RETRYS.
MaxRetries == 2
Flags   == {"gc", "rehash", "resize"}

ASSUME MlkHashAssumption ==
    /\ IsFiniteSet(Nodes) /\ NoNode \notin Nodes
    /\ NoProc \notin Procs
    /\ Path \in [Nodes -> Seq(Nodes)]
    /\ \A n \in Nodes : /\ Path[n] # << >> /\ Path[n][Len(Path[n])] = n
                        /\ \A i \in DOMAIN Path[n] :
                              Path[Path[n][i]] = SubSeq(Path[n], 1, i)
    /\ IsFiniteSet(Seeds) /\ 0 \in Seeds /\ Seeds = 0 .. Cardinality(Seeds) - 1
    /\ \A s \in Seeds : HashOf[s] \in [Nodes -> Nat]
    /\ Sizes \subseteq Nat /\ \E n \in Sizes : \A m \in Sizes : m <= n
    /\ MaxBlk \in Nat /\ MaxLke \in Nat /\ NEIGHBORS \in Nat \ {0}
    /\ \A n \in Sizes : n > MaxBlk /\ n > NEIGHBORS

VARIABLES
    blocks,     \* the nodes in the tree, in the order they were created
    hash,       \* shrblk->hash of each of them
    owner, pend,        \* who holds a node; the node whose queue a process is in
    segs,       \* the tables, one per shared memory segment
    num_blkhash, hash_shmid, hash_seed, needed,    \* of mlk_ctldata
    crit,       \* who holds lock crit
    lock_gc_in_progress,
    pc, want, new,
    mlkhash_shmid,      \* csa: the segment a process has attached
    new_shmid,  \* the one it is about to attach, or 0
    pvt_seed,   \* the seed of the hashes in the private block
    lke,        \* the LKE commands given so far
    raised,     \* the flags gc_needed, rehash_needed, resize_needed of pvtctl
    hash_fail_cnt

treeVars == <<blocks, hash, owner, pend>>
ctlVars  == <<segs, num_blkhash, hash_shmid, hash_seed, needed>>
pvtVars  == <<raised, hash_fail_cnt>>
reqVars  == <<want, new, pvt_seed>>
attVars  == <<mlkhash_shmid, new_shmid>>
vars     == <<treeVars, ctlVars, crit, lock_gc_in_progress, lke, pc, reqVars,
              attVars, pvtVars>>

----------------------------------------------------------------------------
(* The table: buckets 0 .. n - 1 of t are in use.                          *)

EmptyBucket == [blk |-> NoNode, hash |-> 0, usedmap |-> {}]
EmptyTable  == [b \in 0 .. MaxSize - 1 |-> EmptyBucket]

Dist(n, from, to) == (n + to - from) % n

\* The first entry whose home is si is before the free bucket fi, which is close
\* enough to si to take it.
Movable(n, t, si, fi) ==
    /\ Dist(n, si, fi) \in 1 .. NEIGHBORS - 1
    /\ t[si].usedmap # {}
    /\ Min(t[si].usedmap) < Dist(n, si, fi)

\* Mutant of Moved: the usedmap of the home bucket keeps the bit of the old place.
MovedBitKept(n, t, si, mi, fi) ==
    [t EXCEPT ![fi].blk = t[mi].blk, ![fi].hash = t[mi].hash,
              ![mi].blk = NoNode, ![mi].hash = 0,
              ![si].usedmap = @ \union {Dist(n, si, fi)}]

\* The entry of bucket mi, whose home is si, is moved to the free bucket fi.
Moved(n, t, si, mi, fi) ==
    [t EXCEPT ![fi].blk = t[mi].blk, ![fi].hash = t[mi].hash,
              ![mi].blk = NoNode, ![mi].hash = 0,
              ![si].usedmap = (@ \ {Dist(n, si, mi)}) \union {Dist(n, si, fi)}]

\* Mutant of InReach: one bucket too far.
InReachOrNext(n, bi, fi) == Dist(n, bi, fi) <= NEIGHBORS

\* The usedmap of bi has a bit for fi.
InReach(n, bi, fi) == Dist(n, bi, fi) < NEIGHBORS

Tables == [0 .. MaxSize - 1 -> [blk : Nodes \union {NoNode}, hash : Nat,
                               usedmap : SUBSET Nat]]

\* The home buckets with an entry that can be moved into the free bucket s.fi; the
\* one farthest before it is met first, and its first entry makes way.
Sources(n, s) == {si \in 0 .. n - 1 : Movable(n, s.t, si, s.fi)}

Hop(n, s) ==
    LET si == CHOOSE b \in Sources(n, s) :
                 \A c \in Sources(n, s) : Dist(n, c, s.fi) <= Dist(n, b, s.fi)
        mi == (si + Min(s.t[si].usedmap)) % n
    IN  [t |-> Moved(n, s.t, si, mi, s.fi), fi |-> mi]

\* The bucket found for the hash h, or -1, and the table after the moves made while
\* the free bucket s.fi is too far from the home bucket bi.
mlk_shrhash_find_bucket(n, t, h) ==
    LET bi == h % n
        free == {k \in 0 .. n - 1 : t[(bi + k) % n].blk = NoNode}
        hop[s \in [t : Tables, fi : 0 .. n - 1]] ==
            IF InReach(n, bi, s.fi) THEN s
            ELSE IF Sources(n, s) = {} THEN [s EXCEPT !.fi = -1]
            ELSE hop[Hop(n, s)]
    IN  IF free = {} THEN [t |-> t, fi |-> -1]
        ELSE hop[[t |-> t, fi |-> (bi + Min(free)) % n]]

mlk_shrhash_insert(n, t, bi, fi, blk, h) ==
    [t EXCEPT ![fi].blk = blk, ![fi].hash = h,
              ![bi].usedmap = @ \union {Dist(n, bi, fi)}]

\* The table with blk added to the bucket that was found, and whether there was one.
\* A failure leaves the entries that were moved where they are now.
AddFound(n, r, blk, h) ==
    IF r.fi = -1 THEN [t |-> r.t, ok |-> FALSE]
    ELSE [t |-> mlk_shrhash_insert(n, r.t, h % n, r.fi, blk, h), ok |-> TRUE]

mlk_shrhash_add(n, t, blk, h) ==
    AddFound(n, mlk_shrhash_find_bucket(n, t, h), blk, h)

\* The buckets that mlk_shrhash_find and mlk_shrhash_delete come across for blk.
Places(n, t, blk, h) ==
    {si \in {((h % n) + k) % n : k \in t[h % n].usedmap} :
        t[si].hash = h /\ t[si].blk = blk}

mlk_shrhash_delete(n, t, blk, h) ==
    LET found == Places(n, t, blk, h)
        si    == CHOOSE b \in found : TRUE
    IN  IF found = {} THEN t
        ELSE [t EXCEPT ![si].blk = NoNode, ![si].hash = 0,
                       ![h % n].usedmap = @ \ {Dist(n, h % n, si)}]

\* The i-th <<node, hash>> pair of s is added.
AddNext(n, s, r) ==
    LET added == mlk_shrhash_add(n, r.t, s[r.i][1], s[r.i][2])
    IN  [t |-> added.t, ok |-> added.ok, i |-> r.i + 1]

\* All the pairs of s, up to the first for which there is no room.
AddAll(n, s) ==
    LET add[r \in [t : Tables, ok : BOOLEAN, i : 1 .. Len(s) + 1]] ==
            IF ~r.ok \/ r.i > Len(s) THEN r ELSE add[AddNext(n, s, r)]
    IN  add[[t |-> EmptyTable, ok |-> TRUE, i |-> 1]]

----------------------------------------------------------------------------
(* The tree.                                                               *)

\* The elements of S in the order R, a set of pairs.
Ranked(S, R) ==
    [j \in 1 .. Cardinality(S) |->
        CHOOSE x \in S : Cardinality({y \in S : <<y, x>> \in R}) = j - 1]
Less(S) == {e \in S \X S : e[1] < e[2]}

Allocated == Range(blocks)
Free == MaxBlk - Len(blocks)

\* m is n or below n.
Within(m, n) == Contains(Path[m], n)

\* The order mlk_rehash_tree visits the nodes in: a new node is the last of its
\* siblings, and c comes before d if the first difference between their paths is an
\* older sibling, or if there is none and d is below c.
Age(n) == CHOOSE i \in DOMAIN blocks : blocks[i] = n
Before(c, d) ==
    \/ Within(d, c) /\ c # d
    \/ \E i \in DOMAIN Path[c] \intersect DOMAIN Path[d] :
          /\ \A j \in 1 .. i - 1 : Path[c][j] = Path[d][j]
          /\ Path[c][i] # Path[d][i] /\ Age(Path[c][i]) < Age(Path[d][i])
Preorder == Ranked(Allocated, {e \in Allocated \X Allocated : Before(e[1], e[2])})

\* Nobody holds or waits for n or a node below it.
Unused(n) ==
    \A m \in Allocated : Within(m, n) =>
        owner[m] = NoProc /\ \A q \in Procs : pend[q] # m

\* The table t without the nodes of D.
DeleteAll(n, t, D) ==
    LET del[r \in [t : Tables, D : SUBSET D]] ==
            IF r.D = {} THEN r.t
            ELSE LET d == CHOOSE x \in r.D : TRUE
                 IN  del[[t |-> mlk_shrhash_delete(n, r.t, d, hash[d]), D |-> r.D \ {d}]]
    IN  del[[t |-> t, D |-> D]]

\* The nodes that are not in D, in the order of blocks.
Others(D) ==
    LET K  == {i \in DOMAIN blocks : blocks[i] \notin D}
        at == Ranked(K, Less(K))
    IN  [j \in DOMAIN at |-> blocks[at[j]]]

\* mlk_shrblk_delete_if_empty takes the nodes of D from the table and the tree.
Delete(p, D) ==
    /\ segs' = [segs EXCEPT ![mlkhash_shmid[p]] = DeleteAll(num_blkhash, @, D)]
    /\ blocks' = Others(D)
    /\ hash' = [n \in Nodes |-> IF n \in D THEN 0 ELSE hash[n]]

----------------------------------------------------------------------------
(* Grabbing lock crit.                                                     *)

At(p, where) == pc[p] = where
GoTo(p, where) == pc' = [pc EXCEPT ![p] = where]

\* Mutant of Synced: the segment is not compared.
SyncedAlways(p) == new_shmid[p] = 0

\* p has the current table attached.
Synced(p) == new_shmid[p] = 0 /\ mlkhash_shmid[p] = hash_shmid

\* p can go on inside crit: it is there, or grab_lock_crit_and_sync gets it in.
CritFree(p) == crit = p \/ (crit = NoProc /\ Synced(p))

\* grab_lock_crit_and_sync finds another segment and releases crit again.
SeeNewTable(p) ==
    /\ crit = NoProc
    /\ new_shmid[p] = 0 /\ mlkhash_shmid[p] # hash_shmid
    /\ ~At(p, "gc")
    /\ new_shmid' = [new_shmid EXCEPT ![p] = hash_shmid]
    /\ UNCHANGED <<lke, treeVars, ctlVars, crit, lock_gc_in_progress, pc, reqVars,
                   mlkhash_shmid, pvtVars>>

\* shmat, which fails with EINVAL if the segment was replaced meanwhile.
Reattach(p) ==
    /\ new_shmid[p] # 0
    /\ new_shmid' = [new_shmid EXCEPT ![p] = 0]
    /\ mlkhash_shmid' = IF new_shmid[p] = hash_shmid
                        THEN [mlkhash_shmid EXCEPT ![p] = hash_shmid]
                        ELSE mlkhash_shmid
    /\ UNCHANGED <<lke, treeVars, ctlVars, crit, lock_gc_in_progress, pc, reqVars, pvtVars>>

----------------------------------------------------------------------------
(* mlk_lock, called in a loop by op_lock2.                                 *)

\* What mlk_shrhash_find_bucket raises when it gives up for the cnt-th time since
\* the last success, with active mlk_shrblks in use.
Raises(cnt, active) ==
    IF cnt = 0 THEN {"gc"}
    ELSE IF cnt = 1
    THEN {IF num_blkhash > active * 2 THEN "rehash" ELSE "resize"}
    ELSE {}

\* Mutant of Failed: the failure is not counted.
FailedUncounted(f, active) == [f EXCEPT !.raised = @ \union Raises(f.cnt, active)]

\* Such a failure.  The count is kept up to MaxRetries + 1, from where on all values
\* are alike.
Failed(f, active) ==
    [cnt |-> IF f.cnt > MaxRetries THEN f.cnt ELSE f.cnt + 1,
     raised |-> f.raised \union Raises(f.cnt, active)]

\* mlk_shrblk_create has tried to add the node d to the table: it is in the tree, or
\* is given back.
Created(s, d, r) ==
    IF r.ok THEN [s EXCEPT !.t = r.t, !.made = Append(@, d)]
    ELSE [s EXCEPT !.t = r.t, !.ok = FALSE, !.nobucket = TRUE]

\* One round of mlk_shrblk_find: the node d of the path is found or created.  s has
\* the table, the nodes created, whether all went well and whether the hash table
\* was to blame if not.  left is the number of nodes still to go.
FindOrCreate(s, d, h, left) ==
    IF Places(num_blkhash, s.t, d, h) # {} THEN s
    ELSE IF Free - Len(s.made) < left THEN [s EXCEPT !.ok = FALSE]
    ELSE Created(s, d, mlk_shrhash_add(num_blkhash, s.t, d, h))

\* MLK_PVTBLK_SUBHASH_SYNC: the seed of the hashes of the private block, which are
\* recomputed if another seed is in use now.
PvtSeed(p) == IF pvt_seed[p] # hash_seed THEN hash_seed ELSE pvt_seed[p]

mlk_shrblk_find(p) ==
    LET path == Path[want[p]]
        find[s \in [t : Tables, made : Seq(Nodes), ok : BOOLEAN, nobucket : BOOLEAN,
                    i : 1 .. Len(path) + 1]] ==
            IF ~s.ok \/ s.i > Len(path) THEN s
            ELSE find[[FindOrCreate(s, path[s.i], HashOf[PvtSeed(p)][path[s.i]],
                                    Len(path) + 1 - s.i) EXCEPT !.i = s.i + 1]]
    IN  find[[t |-> segs[mlkhash_shmid[p]], made |-> << >>, ok |-> TRUE,
              nobucket |-> FALSE, i |-> 1]]

\* Another process holds the node, a node above it or one below it.
Conflict(p, n) ==
    \E m \in Allocated : /\ Within(m, n) \/ Within(n, m)
                         /\ owner[m] \notin {p, NoProc}

\* p may let a process that waits for a node on the path go first.
MayYield(p, n) ==
    \E q \in Procs \ {p} : pend[q] # NoNode /\ Within(n, pend[q])

\* A LOCK command without + for one name: what the process held was released first.
Request(p, n) ==
    /\ At(p, "idle")
    /\ \A m \in Nodes : owner[m] # p
    /\ want' = [want EXCEPT ![p] = n]
    /\ new' = [new EXCEPT ![p] = TRUE]
    /\ pvt_seed' = [pvt_seed EXCEPT ![p] = hash_seed]
    /\ raised' = [raised EXCEPT ![p] = {}]
    /\ hash_fail_cnt' = [hash_fail_cnt EXCEPT ![p] = 0]
    /\ GoTo(p, "lock")
    /\ UNCHANGED <<lke, treeVars, ctlVars, crit, lock_gc_in_progress, attVars>>

Short(p) == Free < Len(Path[want[p]])

\* Something has to be done to the lock space first: crit is released.
StartMaintenance(p) ==
    /\ At(p, "lock") /\ CritFree(p)
    /\ needed # {} \/ Short(p)
    /\ GoTo(p, "gc")
    /\ UNCHANGED <<lke, treeVars, ctlVars, crit, lock_gc_in_progress, reqVars, attVars, pvtVars>>

prepare_for_gc(p) ==
    /\ At(p, "gc")
    /\ lock_gc_in_progress = NoProc
    /\ lock_gc_in_progress' = p
    /\ GoTo(p, "maint")
    /\ UNCHANGED <<lke, treeVars, ctlVars, crit, reqVars, attVars, pvtVars>>

\* The table with the nodes of order, hashed with the seed s.
Rehashed(order, s) ==
    AddAll(num_blkhash, [i \in DOMAIN order |-> <<order[i], HashOf[s][order[i]]>>])

\* mlk_rehash, pass after pass: the nodes are added to the empty table with the next
\* seed, until all fit.  No seed may do: the loop does not end then, and ok is FALSE.
RehashPasses ==
    LET order == Preorder
        last == Cardinality(Seeds)
        seed(k) == (hash_seed + k) % last
        pass[k \in 1 .. last] ==
            LET r == Rehashed(order, seed(k))
            IN  IF r.ok \/ k = last
                THEN [ok |-> r.ok, t |-> r.t, seed |-> seed(k), failed |-> k - 1]
                ELSE pass[k + 1]
    IN  pass[1]

\* mlk_rehash of the table in the segment s, r being the result of its passes.
mlk_rehash(s, r) ==
    /\ r.ok
    /\ hash_seed' = r.seed
    /\ segs' = [segs EXCEPT ![s] = r.t]
    /\ hash' = [n \in Nodes |-> IF n \in Allocated THEN HashOf[r.seed][n] ELSE 0]
    /\ needed' = {}
    /\ UNCHANGED <<blocks, owner, pend, num_blkhash, hash_shmid>>

\* The entries of the old table, in the order of its buckets.
Entries(t) ==
    LET used == {b \in 0 .. num_blkhash - 1 : t[b].blk # NoNode}
        at == Ranked(used, Less(used))
    IN  [i \in DOMAIN at |-> <<t[at[i]].blk, t[at[i]].hash>>]

\* mlk_shrhash_resize tries larger and larger tables, up to one that takes all the
\* entries or to one more than twice as large as needed; n is 0 if there is no
\* memory for the next one.
ResizeTries(t) ==
    LET old == Entries(t)
        next(n) == Min({m \in Sizes : m > n} \union {MaxSize + 1})
        try[s \in [n : Sizes \union {MaxSize + 1}, tries : Nat]] ==
            LET r == AddAll(s.n, old)
            IN  IF s.n > MaxSize THEN [n |-> 0, t |-> t, ok |-> FALSE, tries |-> s.tries]
                ELSE IF r.ok \/ s.n > Len(blocks) * 2
                THEN [n |-> s.n, t |-> r.t, ok |-> r.ok, tries |-> s.tries]
                ELSE try[[n |-> next(s.n), tries |-> s.tries + 1]]
    IN  try[[n |-> next(num_blkhash), tries |-> 1]]

\* The new table gets a segment of its own.  A table that is not large enough has
\* left gc_needed set, and one that would be too large asks for a rehash instead.
\* shmget may fail for the first table, or for a later one.  The old segment is
\* removed; what it held is not kept here.
mlk_shrhash_resize(s) ==
    \E r \in {ResizeTries(segs[s])} :
    /\ \/ /\ r.ok
          /\ segs' = Append([segs EXCEPT ![hash_shmid] = EmptyTable], r.t)
          /\ num_blkhash' = r.n
          /\ hash_shmid' = Len(segs) + 1
          /\ needed' = needed \ {"gc", "resize"}
       \/ /\ \/ ~r.ok /\ r.n # 0 /\ needed' = needed \union {"gc", "rehash"}
             \/ needed' = needed
             \/ r.tries > 1 /\ needed' = needed \union {"gc"}
          /\ UNCHANGED <<segs, num_blkhash, hash_shmid>>
    /\ UNCHANGED <<treeVars, hash_seed>>

\* The failed passes of a rehash count as failures of the process.
FailedTimes(f, k) ==
    LET after[i \in 0 .. k] == IF i = 0 THEN f ELSE Failed(after[i - 1], Len(blocks))
    IN  after[k]

FailState(p) == [cnt |-> hash_fail_cnt[p], raised |-> raised[p]]
SetFailState(p, f) ==
    /\ hash_fail_cnt' = [hash_fail_cnt EXCEPT ![p] = f.cnt]
    /\ raised' = [raised EXCEPT ![p] = f.raised]

\* mlk_lock, in crit and with the latch: rehash_needed.  What else is needed is
\* looked at afterwards.
MaintainRehash(p) ==
    /\ At(p, "maint") /\ CritFree(p)
    /\ "rehash" \in needed
    /\ \E r \in {RehashPasses} :
          /\ mlk_rehash(mlkhash_shmid[p], r)
          /\ SetFailState(p, FailedTimes(FailState(p), r.failed))
    /\ crit' = p
    /\ UNCHANGED <<lke, lock_gc_in_progress, pc, reqVars, attVars>>

MaintainResize(p) ==
    /\ At(p, "maint") /\ CritFree(p)
    /\ "rehash" \notin needed /\ "resize" \in needed
    /\ mlk_shrhash_resize(mlkhash_shmid[p])
    /\ IF hash_shmid' # hash_shmid
       THEN /\ mlkhash_shmid' = [mlkhash_shmid EXCEPT ![p] = hash_shmid']
            /\ hash_fail_cnt' = [hash_fail_cnt EXCEPT ![p] = 0]
       ELSE UNCHANGED <<mlkhash_shmid, hash_fail_cnt>>
    /\ crit' = p
    /\ GoTo(p, "find")
    /\ UNCHANGED <<lke, lock_gc_in_progress, reqVars, new_shmid, raised>>

\* mlk_garbage_collect: mlk_shrclean notes the pids and releases crit ...
StartCleaning(p) ==
    /\ At(p, "maint") /\ CritFree(p)
    /\ needed \intersect {"rehash", "resize"} = {}
    /\ "gc" \in needed \/ Short(p)
    /\ blocks # << >>
    /\ crit' = NoProc
    /\ GoTo(p, "clean")
    /\ UNCHANGED <<lke, treeVars, ctlVars, lock_gc_in_progress, reqVars, attVars, pvtVars>>

\* ... and deletes the nodes nobody uses once it has grabbed crit again.
clean_pids(p) ==
    /\ At(p, "clean") /\ CritFree(p)
    /\ Delete(p, {n \in Allocated : Unused(n)})
    /\ needed' = needed \ {"gc"}
    /\ crit' = p
    /\ GoTo(p, "find")
    /\ UNCHANGED <<lke, owner, pend, num_blkhash, hash_shmid, hash_seed,
                   lock_gc_in_progress, reqVars, attVars, pvtVars>>

\* There is nothing to collect, or another process has done so meanwhile.
NothingToClean(p) ==
    /\ At(p, "maint") /\ CritFree(p)
    /\ needed \intersect {"rehash", "resize"} = {}
    /\ ("gc" \notin needed /\ ~Short(p)) \/ blocks = << >>
    /\ needed' = {}
    /\ crit' = p
    /\ GoTo(p, "find")
    /\ UNCHANGED <<lke, treeVars, segs, num_blkhash, hash_shmid, hash_seed,
                   lock_gc_in_progress, reqVars, attVars, pvtVars>>

\* mlk_lock returns to op_lock2 without the lock: if a flag was raised for this
\* lock, the first loop tries again at once, a bounded number of times.
RetriesAtOnce(p, f) == new[p] /\ f.raised # {} /\ f.cnt <= MaxRetries

\* The count of failures and the flags of p after a search with the result r.
Active(r) == Len(blocks) + Len(r.made) + 1
FailAfter(p, r) ==
    IF r.ok THEN [FailState(p) EXCEPT !.cnt = 0]
    ELSE IF r.nobucket THEN Failed(FailState(p), Active(r))
    ELSE FailState(p)

\* The command of p is over.
Done(p) ==
    /\ pend' = [pend EXCEPT ![p] = NoNode]
    /\ want' = [want EXCEPT ![p] = NoNode]
    /\ new' = [new EXCEPT ![p] = TRUE]
    /\ pvt_seed' = [pvt_seed EXCEPT ![p] = 0]
    /\ SetFailState(p, [cnt |-> 0, raised |-> {}])
    /\ GoTo(p, "idle")

\* The search has come back with r: the lock is granted, or p waits or tries again.
Granted(p, r) ==
    /\ r.ok /\ ~Conflict(p, want[p])
    /\ owner' = [owner EXCEPT ![want[p]] = p]
    /\ Done(p)

NotGranted(p, r, f) ==
    /\ ~r.ok \/ Conflict(p, want[p]) \/ MayYield(p, want[p])
    /\ pend' = IF r.ok /\ new[p] THEN [pend EXCEPT ![p] = want[p]] ELSE pend
    /\ pvt_seed' = [pvt_seed EXCEPT ![p] = PvtSeed(p)]
    /\ IF RetriesAtOnce(p, f)
       THEN SetFailState(p, [f EXCEPT !.raised = {}]) /\ GoTo(p, "lock")
       ELSE SetFailState(p, f) /\ GoTo(p, "slept")
    /\ UNCHANGED <<owner, want, new>>

\* The search, after which lock crit and the latch are released.
Lock(p) ==
    /\ \/ At(p, "lock") /\ CritFree(p) /\ needed = {} /\ ~Short(p)
       \/ At(p, "find") /\ crit = p
    /\ \E r \in {mlk_shrblk_find(p)} :
          /\ segs' = [segs EXCEPT ![mlkhash_shmid[p]] = r.t]
          /\ blocks' = blocks \o r.made
          /\ hash' = [d \in Nodes |-> IF Contains(r.made, d) THEN HashOf[PvtSeed(p)][d]
                                      ELSE hash[d]]
          /\ needed' = IF r.nobucket
                       THEN needed \union Raises(hash_fail_cnt[p], Active(r))
                       ELSE needed
          /\ Granted(p, r) \/ NotGranted(p, r, FailAfter(p, r))
    /\ crit' = NoProc
    /\ lock_gc_in_progress' = IF At(p, "find") THEN NoProc ELSE lock_gc_in_progress
    /\ UNCHANGED <<lke, num_blkhash, hash_shmid, hash_seed, attVars>>

\* op_lock2 has slept and calls mlk_lock again.
Retry(p) ==
    /\ At(p, "slept")
    /\ new' = [new EXCEPT ![p] = FALSE]
    /\ GoTo(p, "lock")
    /\ UNCHANGED <<lke, treeVars, ctlVars, crit, lock_gc_in_progress, want, pvt_seed,
                   attVars, pvtVars>>

\* Its time is up: mlk_unpend.
TimeOut(p) ==
    /\ At(p, "slept")
    /\ crit = NoProc /\ (pend[p] # NoNode => Synced(p))
    /\ Done(p)
    /\ UNCHANGED <<lke, blocks, hash, owner, ctlVars, crit, lock_gc_in_progress, attVars>>

\* mlk_unlock: of the node, those above it and those below it down to the first
\* owned ones, all that are not used are deleted.
Unlock(p, n) ==
    LET visited == {m \in Allocated :
                       \/ Within(n, m)
                       \/ /\ Within(m, n)
                          /\ \A d \in Allocated :
                                Within(m, d) /\ Within(d, n) /\ d # n => owner[d] = NoProc}
        empty(d) == \A m \in Allocated : Within(m, d) =>
                        /\ m \in visited
                        /\ owner[m] = NoProc \/ m = n
                        /\ \A q \in Procs : pend[q] # m
    IN
    /\ At(p, "idle") /\ crit = NoProc /\ Synced(p)
    /\ owner[n] = p
    /\ owner' = [owner EXCEPT ![n] = NoProc]
    /\ Delete(p, {d \in visited : empty(d)})
    /\ UNCHANGED <<lke, pend, num_blkhash, hash_shmid, hash_seed, needed, crit,
                   lock_gc_in_progress, pc, reqVars, attVars, pvtVars>>

\* LKE REHASH and LKE GROWHASH, in a process of their own that holds lock crit, with
\* the current table, but does not take the latch.
lke_rehash ==
    /\ crit = NoProc
    /\ lke < MaxLke /\ lke' = lke + 1
    /\ \E r \in {RehashPasses} : mlk_rehash(hash_shmid, r)
    /\ UNCHANGED <<crit, lock_gc_in_progress, pc, reqVars, attVars, pvtVars>>

lke_growhash ==
    /\ crit = NoProc
    /\ lke < MaxLke /\ lke' = lke + 1
    /\ mlk_shrhash_resize(hash_shmid)
    /\ UNCHANGED <<crit, lock_gc_in_progress, pc, reqVars, attVars, pvtVars>>

----------------------------------------------------------------------------

Init ==
    /\ blocks = << >> /\ hash = [n \in Nodes |-> 0]
    /\ owner = [n \in Nodes |-> NoProc] /\ pend = [p \in Procs |-> NoNode]
    /\ segs = <<EmptyTable>>
    /\ num_blkhash = Min(Sizes) /\ hash_shmid = 1 /\ hash_seed = 0 /\ needed = {}
    /\ crit = NoProc /\ lock_gc_in_progress = NoProc /\ lke = 0
    /\ pc = [p \in Procs |-> "idle"] /\ want = [p \in Procs |-> NoNode]
    /\ new = [p \in Procs |-> TRUE] /\ pvt_seed = [p \in Procs |-> 0]
    /\ mlkhash_shmid = [p \in Procs |-> 1] /\ new_shmid = [p \in Procs |-> 0]
    /\ raised = [p \in Procs |-> {}] /\ hash_fail_cnt = [p \in Procs |-> 0]

\* The steps of a LOCK command, once it was given.
Step(p) ==
    \/ SeeNewTable(p) \/ Reattach(p)
    \/ StartMaintenance(p) \/ prepare_for_gc(p)
    \/ MaintainRehash(p) \/ MaintainResize(p)
    \/ StartCleaning(p) \/ clean_pids(p) \/ NothingToClean(p)
    \/ Lock(p)

Next ==
    \/ \E p \in Procs :
          \/ Step(p)
          \/ Retry(p) \/ TimeOut(p)
          \/ \E n \in Nodes : Request(p, n) \/ Unlock(p, n)
    \/ lke_rehash \/ lke_growhash

Spec == Init /\ [][Next]_vars

\* A process in the middle of mlk_lock goes on, and gets lock crit and the latch in
\* the end: strong fairness of Step(p), with the states where it can be taken.
CanStep(p) ==
    \/ new_shmid[p] # 0
    \/ crit = p
    \/ At(p, "gc") /\ lock_gc_in_progress = NoProc
    \/ crit = NoProc /\ ~At(p, "gc")
       /\ (pc[p] \in {"lock", "maint", "clean"} \/ mlkhash_shmid[p] # hash_shmid)

FairSpec ==
    /\ Spec
    /\ \A p \in Procs : []<>CanStep(p) => []<><<Step(p)>>_vars

----------------------------------------------------------------------------
(* Properties.                                                             *)

Current == segs[hash_shmid]

\* Types; no usedmap names a bucket outside of the neighbourhood.
TypeOK ==
    /\ blocks \in Seq(Nodes)
    /\ hash \in [Nodes -> Nat]
    /\ owner \in [Nodes -> Procs \union {NoProc}]
    /\ pend \in [Procs -> Nodes \union {NoNode}]
    /\ \A s \in DOMAIN segs : /\ segs[s] \in Tables
                              /\ \A b \in DOMAIN segs[s] :
                                    segs[s][b].usedmap \subseteq 0 .. NEIGHBORS - 1
    /\ num_blkhash \in Sizes /\ hash_shmid = Len(segs)
    /\ hash_seed \in Seeds /\ needed \subseteq Flags
    /\ crit \in Procs \union {NoProc} /\ lke \in 0 .. MaxLke
    /\ lock_gc_in_progress \in Procs \union {NoProc}
    /\ pc \in [Procs -> {"idle", "lock", "gc", "maint", "clean", "find", "slept"}]
    /\ want \in [Procs -> Nodes \union {NoNode}]
    /\ new \in [Procs -> BOOLEAN] /\ pvt_seed \in [Procs -> Seeds]
    /\ mlkhash_shmid \in [Procs -> 1 .. Len(segs)]
    /\ new_shmid \in [Procs -> 0 .. Len(segs)]
    /\ raised \in [Procs -> SUBSET Flags]
    /\ hash_fail_cnt \in [Procs -> 0 .. MaxRetries + 1]

\* The usedmap of a bucket tells exactly where the entries are whose home it is,
\* whatever entries mlk_shrhash_find_bucket moved for insertions that succeeded or
\* failed, and after rehashes and resizes: mlk_shrhash_find and mlk_shrhash_delete
\* look nowhere else, and mlk_shrhash_find_bucket moves what the map names.
UsedmapExact ==
    \A b \in 0 .. num_blkhash - 1 : \A k \in 0 .. NEIGHBORS - 1 :
        LET e == Current[(b + k) % num_blkhash]
        IN  k \in Current[b].usedmap <=> e.blk # NoNode /\ e.hash % num_blkhash = b

\* Each node of the lock tree is there once, and is found in the table that a
\* process entering lock crit gets, with the hash of its name and the seed of the
\* moment; the table has no other entry.  A node that is not found is created a
\* second time, and the same lock granted twice.
EveryNodeFound ==
    /\ IsInjective(blocks)
    /\ \A n \in Allocated :
          Cardinality(Places(num_blkhash, Current, n, HashOf[hash_seed][n])) = 1
    /\ Cardinality({b \in 0 .. MaxSize - 1 : Current[b].blk # NoNode}) = Len(blocks)

\* The immediate retries in op_lock2 end: the lock is obtained or the process goes
\* to sleep, although each retry may start another garbage collection, rehash or
\* resize, and a resize forgives the earlier failures.
RetriesEnd == \A p \in Procs : pc[p] = "lock" ~> pc[p] \in {"idle", "slept"}
====

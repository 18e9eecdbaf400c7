--------------------------- MODULE MlkHashProofs ---------------------------
(***************************************************************************)
(* Proofs about MlkHash: the lock hash table is what mlk_shrhash_find and  *)
(* mlk_shrhash_delete take it for, for every number of processes and nodes *)
(* of the lock tree, every hash function, neighbourhood and set of table   *)
(* sizes.                                                                  *)
(*                                                                         *)
(* Good(n, t, A, g) says that the first n buckets of the table t have the  *)
(* nodes A, each once and with its hash under g, and that the usedmaps are *)
(* exact.  It is kept by every move of an entry, every insertion and every *)
(* deletion, hence by the loops made of them, hence by every step of the   *)
(* specification.  The loops of the model are recursive functions, and     *)
(* LoopEnds is the rule for them.                                          *)
(***************************************************************************)
EXTENDS MlkHash, TLAPS, FiniteSetTheorems, WellFoundedInduction

----------------------------------------------------------------------------
(* Numbers, loops and orders.                                              *)

\* A non-empty set of numbers has a least one.
LEMMA LeastNumber ==
    ASSUME NEW T \in SUBSET Nat, T # {} PROVE \E x \in T : \A y \in T : x <= y
<1> DEFINE R == OpToRel(<, Nat)
<1>1. R = {ss \in Nat \X Nat : ss[1] < ss[2]}
  BY Zenon DEF OpToRel
<1>2. IsWellFoundedOn(R, Nat)
  BY NatLessThanWellFounded, Zenon
<1> HIDE DEF R
<1>3. \E x \in T : \A y \in T : ~(<<y, x>> \in R)
  BY <1>2, WFMin, Zenon
<1>4. PICK x \in T : \A y \in T : ~(<<y, x>> \in R)
  BY <1>3
<1>5. ASSUME NEW y \in T, y < x PROVE FALSE
  <2>1. <<y, x>> \in R
    BY <1>1, <1>5
  <2> QED BY <1>4, <2>1
<1>6. \A y \in T : x <= y
  BY <1>5
<1> QED BY <1>6

\* What Min returns.
LEMMA MinIs ==
    ASSUME NEW T \in SUBSET Nat, T # {}
    PROVE  Min(T) \in T /\ \A y \in T : Min(T) <= y
<1>1. \E x \in T : \A y \in T : x <= y
  BY LeastNumber
<1> QED BY <1>1 DEF Min

\* The loops of the model: f is the result out of the first of the states s, nxt[s],
\* nxt[nxt[s]], ... where the loop stops; m is how many rounds there can still be.
Loop(S, stop, out, nxt, f) == f = [s \in S |-> IF stop[s] THEN out[s] ELSE f[nxt[s]]]

Terminates(S, stop, nxt, m, K) ==
    /\ stop \in [S -> BOOLEAN] /\ nxt \in [S -> S]
    /\ K \in Nat /\ m \in [S -> 0 .. K]
    /\ \A s \in S : ~stop[s] => m[nxt[s]] < m[s]

Keeps(P, stop, nxt) == \A s \in P : ~stop[s] => nxt[s] \in P

\* A loop that comes nearer to its end with every round is a function.
LEMMA LoopExists ==
    ASSUME NEW S, NEW stop, NEW out, NEW nxt, NEW m, NEW K, Terminates(S, stop, nxt, m, K)
    PROVE  \E f : Loop(S, stop, out, nxt, f)
<1>0. /\ stop \in [S -> BOOLEAN] /\ nxt \in [S -> S]
      /\ K \in Nat /\ m \in [S -> 0 .. K]
      /\ \A s \in S : ~stop[s] => m[nxt[s]] < m[s]
  BY DEF Terminates
<1> DEFINE Body(g, s) == IF stop[s] THEN out[s] ELSE g[nxt[s]]
           Solved(k, g) == \A s \in S : m[s] <= k => g[s] = Body(g, s)
           Unsolved == {k \in 0 .. K : ~\E g : Solved(k, g)}
<1>1. Unsolved = {}
  <2> SUFFICES ASSUME Unsolved # {} PROVE FALSE
    OBVIOUS
  <2>1. Unsolved \subseteq Nat
    BY <1>0
  <2> HIDE DEF Unsolved
  <2>2. PICK k \in Unsolved : \A y \in Unsolved : k <= y
    BY <2>1, LeastNumber
  <2>3. k \in 0 .. K /\ ~\E g : Solved(k, g)
    BY <2>2 DEF Unsolved
  <2>4. CASE k = 0
    <3> DEFINE g == [s \in S |-> out[s]]
    <3>1. ASSUME NEW s \in S, m[s] <= k PROVE g[s] = Body(g, s)
      <4>1. m[s] \in Nat /\ m[nxt[s]] \in Nat
        BY <1>0
      <4>2. stop[s]
        BY <1>0, <2>4, <3>1, <4>1
      <4> QED BY <4>2
    <3>2. Solved(k, g)
      BY <3>1
    <3> QED BY <2>3, <3>2
  <2>5. CASE k # 0
    <3>1. k - 1 \in 0 .. K /\ ~(k <= k - 1)
      BY <1>0, <2>3, <2>5
    <3>2. k - 1 \notin Unsolved
      BY <2>2, <3>1
    <3>3. PICK g : Solved(k - 1, g)
      BY <3>1, <3>2 DEF Unsolved
    <3> DEFINE h == [s \in S |-> Body(g, s)]
    <3>4. ASSUME NEW s \in S, m[s] <= k PROVE h[s] = Body(h, s)
      <4>1. h[s] = Body(g, s)
        OBVIOUS
      <4>2. CASE stop[s]
        BY <4>1, <4>2
      <4>3. CASE ~stop[s]
        <5>1. nxt[s] \in S /\ m[nxt[s]] <= k - 1
          BY <1>0, <2>3, <3>4, <4>3
        <5>2. g[nxt[s]] = Body(g, nxt[s])
          BY <3>3, <5>1
        <5>3. h[nxt[s]] = g[nxt[s]]
          BY <5>1, <5>2
        <5> QED BY <4>1, <4>3, <5>3
      <4> QED BY <4>2, <4>3
    <3>5. Solved(k, h)
      BY <3>4
    <3> QED BY <2>3, <3>5
  <2> QED BY <2>4, <2>5
<1>2. K \in 0 .. K
  BY <1>0
<1>3. PICK g : Solved(K, g)
  BY <1>1, <1>2
<1>4. \A s \in S : g[s] = Body(g, s)
  BY <1>0, <1>3
<1> DEFINE f == [s \in S |-> Body(g, s)]
<1>5. \A s \in S : f[s] = g[s]
  BY <1>4
<1>6. ASSUME NEW s \in S PROVE Body(g, s) = Body(f, s)
  <2>1. f[nxt[s]] = g[nxt[s]]
    BY <1>0, <1>5
  <2> QED BY <2>1
<1>7. f = [s \in S |-> IF stop[s] THEN out[s] ELSE f[nxt[s]]]
  BY <1>6
<1> QED BY <1>7 DEF Loop

\* What holds at its beginning and in every round holds at its end.
LEMMA LoopEnds ==
    ASSUME NEW S, NEW stop, NEW out, NEW nxt, NEW m, NEW K, Terminates(S, stop, nxt, m, K),
           NEW f, Loop(S, stop, out, nxt, f),
           NEW P \in SUBSET S, Keeps(P, stop, nxt), NEW b \in P
    PROVE  \E e \in P : stop[e] /\ f[b] = out[e]
<1>0. /\ stop \in [S -> BOOLEAN] /\ nxt \in [S -> S]
      /\ K \in Nat /\ m \in [S -> 0 .. K]
      /\ \A s \in S : ~stop[s] => m[nxt[s]] < m[s]
      /\ f = [s \in S |-> IF stop[s] THEN out[s] ELSE f[nxt[s]]]
      /\ \A s \in P : ~stop[s] => nxt[s] \in P
  BY DEF Terminates, Loop, Keeps
<1> DEFINE Ends(s) == \E e \in P : stop[e] /\ f[s] = out[e]
           Never == {s \in P : ~Ends(s)}
           T == {m[s] : s \in Never}
<1>1. Never = {}
  <2> SUFFICES ASSUME Never # {} PROVE FALSE
    OBVIOUS
  <2>1. T \subseteq Nat /\ T # {}
    BY <1>0
  <2>2. PICK x \in T : \A y \in T : x <= y
    <3> HIDE DEF T
    <3> QED BY <2>1, LeastNumber
  <2>3. PICK s \in Never : x = m[s]
    BY <2>2
  <2>4. s \in P /\ s \in S /\ ~Ends(s)
    OBVIOUS
  <2>5. f[s] = IF stop[s] THEN out[s] ELSE f[nxt[s]]
    BY <1>0, <2>4
  <2>6. ~stop[s]
    BY <2>4, <2>5
  <2>7. nxt[s] \in P /\ m[nxt[s]] < m[s] /\ f[s] = f[nxt[s]]
    BY <1>0, <2>4, <2>5, <2>6
  <2>8. ~Ends(nxt[s])
    BY <2>4, <2>7
  <2>9. m[nxt[s]] \in T
    BY <2>7, <2>8
  <2>10. m[s] \in Nat /\ m[nxt[s]] \in Nat
    BY <1>0, <2>4
  <2>11. x <= m[nxt[s]]
    <3> HIDE DEF T
    <3> QED BY <2>2, <2>9
  <2> QED BY <2>3, <2>7, <2>10, <2>11
<1> QED BY <1>1

\* f[i] is g applied i times to s.
Iterates(S, g, s, k, f) ==
    f \in [0 .. k -> S] /\ f = [i \in 0 .. k |-> IF i = 0 THEN s ELSE g[f[i - 1]]]

\* A function can be applied any number of times.
LEMMA IteratesExist ==
    ASSUME NEW S, NEW g \in [S -> S], NEW s \in S, NEW k \in Nat
    PROVE  \E f : Iterates(S, g, s, k, f)
<1> DEFINE Body(f, i) == IF i = 0 THEN s ELSE g[f[i - 1]]
           Solved(n, f) == f \in [0 .. k -> S] /\ \A i \in 0 .. n : f[i] = Body(f, i)
           Unsolved == {n \in 0 .. k : ~\E f : Solved(n, f)}
<1>1. Unsolved = {}
  <2> SUFFICES ASSUME Unsolved # {} PROVE FALSE
    OBVIOUS
  <2>1. Unsolved \subseteq Nat
    OBVIOUS
  <2> HIDE DEF Unsolved
  <2>2. PICK n \in Unsolved : \A y \in Unsolved : n <= y
    BY <2>1, LeastNumber
  <2>3. n \in 0 .. k /\ ~\E f : Solved(n, f)
    BY <2>2 DEF Unsolved
  <2>4. CASE n = 0
    <3>1. Solved(n, [i \in 0 .. k |-> s])
      BY <2>3, <2>4
    <3> QED BY <2>3, <3>1
  <2>5. CASE n # 0
    <3>1. n - 1 \in 0 .. k /\ ~(n <= n - 1) /\ n \in Nat /\ n - 1 \in Nat
      BY <2>3, <2>5
    <3>2. n - 1 \notin Unsolved
      BY <2>2, <3>1
    <3>3. PICK f : Solved(n - 1, f)
      BY <3>1, <3>2 DEF Unsolved
    <3>4. f \in [0 .. k -> S] /\ f[n - 1] \in S /\ g[f[n - 1]] \in S
      BY <3>1, <3>3
    <3> DEFINE h == [f EXCEPT ![n] = g[f[n - 1]]]
    <3>5. h \in [0 .. k -> S]
      BY <3>4
    <3>6. ASSUME NEW i \in 0 .. n PROVE h[i] = Body(h, i)
      <4>1. CASE i = n
        <5>1. h[n - 1] = f[n - 1] /\ h[n] = g[f[n - 1]]
          BY <2>3, <3>1, <3>4
        <5> QED BY <2>5, <4>1, <5>1
      <4>2. CASE i # n
        <5>1. i \in 0 .. n - 1 /\ i \in 0 .. k
          BY <2>3, <3>1, <3>6, <4>2
        <5>2. f[i] = Body(f, i)
          BY <3>3, <5>1
        <5>3. h[i] = f[i] /\ (i # 0 => h[i - 1] = f[i - 1])
          BY <2>3, <3>1, <3>4, <4>2, <5>1
        <5> QED BY <5>2, <5>3
      <4> QED BY <4>1, <4>2
    <3>7. Solved(n, h)
      BY <3>5, <3>6
    <3> QED BY <2>3, <3>7
  <2> QED BY <2>4, <2>5
<1>2. k \in 0 .. k
  OBVIOUS
<1>3. PICK f : Solved(k, f)
  BY <1>1, <1>2
<1>4. f = [i \in 0 .. k |-> Body(f, i)]
  BY <1>3
<1> QED BY <1>3, <1>4 DEF Iterates

\* Ranked lists the elements of a finite set that R orders, each once.
LEMMA RankedOf ==
    ASSUME NEW S, IsFiniteSet(S), NEW R,
           \A x \in S : <<x, x>> \notin R,
           \A x, y, z \in S : <<x, y>> \in R /\ <<y, z>> \in R => <<x, z>> \in R,
           \A x, y \in S : x = y \/ <<x, y>> \in R \/ <<y, x>> \in R
    PROVE  /\ Cardinality(S) \in Nat
           /\ Ranked(S, R) \in [1 .. Cardinality(S) -> S]
           /\ \A i, j \in 1 .. Cardinality(S) : Ranked(S, R)[i] = Ranked(S, R)[j] => i = j
           /\ \A x \in S : \E i \in 1 .. Cardinality(S) : Ranked(S, R)[i] = x
<1> DEFINE c == Cardinality(S)
           Pred(x) == {y \in S : <<y, x>> \in R}
           rank == [x \in S |-> Cardinality(Pred(x))]
<1>1. c \in Nat
  BY FS_CardinalityType
<1>2. ASSUME NEW x \in S PROVE IsFiniteSet(Pred(x)) /\ rank[x] \in 0 .. c - 1
  <2>1. Pred(x) \in SUBSET S /\ Pred(x) # S
    OBVIOUS
  <2>2. rank[x] = Cardinality(Pred(x))
    OBVIOUS
  <2> HIDE DEF Pred, rank
  <2>3. IsFiniteSet(Pred(x)) /\ Cardinality(Pred(x)) <= c /\ c # Cardinality(Pred(x))
    BY <2>1, FS_Subset
  <2>4. Cardinality(Pred(x)) \in Nat
    BY <2>3, FS_CardinalityType
  <2> HIDE DEF c
  <2> QED BY <1>1, <2>2, <2>3, <2>4
<1>3. ASSUME NEW x \in S, NEW y \in S, <<x, y>> \in R PROVE rank[x] # rank[y]
  <2>1. Pred(x) \in SUBSET Pred(y) /\ x \in Pred(y) /\ x \notin Pred(x)
    BY <1>3
  <2>2. IsFiniteSet(Pred(y))
    BY <1>2
  <2>3. rank[x] = Cardinality(Pred(x)) /\ rank[y] = Cardinality(Pred(y))
    OBVIOUS
  <2> HIDE DEF Pred, rank
  <2> QED BY <2>1, <2>2, <2>3, FS_Subset
<1>4. ASSUME NEW x \in S, NEW y \in S, rank[x] = rank[y] PROVE x = y
  <2>1. x = y \/ <<x, y>> \in R \/ <<y, x>> \in R
    OBVIOUS
  <2> HIDE DEF rank
  <2> QED BY <1>3, <1>4, <2>1
<1>5. rank \in Injection(S, 0 .. c - 1)
  <2>1. rank \in [S -> 0 .. c - 1]
    BY <1>2
  <2> HIDE DEF rank
  <2> QED BY <1>4, <2>1 DEF Injection, IsInjective
<1>6. IsFiniteSet(0 .. c - 1) /\ Cardinality(0 .. c - 1) = c
  <2> HIDE DEF c
  <2>1. 0 \in Int /\ c - 1 \in Int
    BY <1>1
  <2>2. IsFiniteSet(0 .. c - 1)
        /\ Cardinality(0 .. c - 1) = IF 0 > c - 1 THEN 0 ELSE (c - 1) - 0 + 1
    BY <2>1, FS_Interval
  <2> QED BY <1>1, <2>2
<1>7. rank \in Surjection(S, 0 .. c - 1)
  <2> HIDE DEF rank, c
  <2>1. Cardinality(S) = Cardinality(0 .. c - 1)
    BY <1>6 DEF c
  <2> QED BY <1>5, <1>6, <2>1, FS_Injection
<1>8. \A j \in 0 .. c - 1 : \E x \in S : rank[x] = j
  <2> HIDE DEF rank
  <2> QED BY <1>7 DEF Surjection
<1>9. Ranked(S, R) = [j \in 1 .. c |-> CHOOSE x \in S : Cardinality(Pred(x)) = j - 1]
  BY DEF Ranked
<1>10. ASSUME NEW j \in 1 .. c
       PROVE  Ranked(S, R)[j] \in S /\ rank[Ranked(S, R)[j]] = j - 1
  <2>1. j - 1 \in 0 .. c - 1
    <3> HIDE DEF c
    <3> QED BY <1>1
  <2>2. \A x \in S : rank[x] = Cardinality(Pred(x))
    OBVIOUS
  <2> HIDE DEF rank, c, Pred
  <2>3. Ranked(S, R)[j] = CHOOSE x \in S : Cardinality(Pred(x)) = j - 1
    BY <1>9
  <2>4. \E x \in S : Cardinality(Pred(x)) = j - 1
    BY <1>8, <2>1, <2>2
  <2> QED BY <2>2, <2>3, <2>4
<1>11. Ranked(S, R) \in [1 .. c -> S]
  <2> HIDE DEF rank, c, Pred
  <2> DEFINE f == Ranked(S, R)
  <2>1. DOMAIN f = 1 .. c /\ f = [j \in 1 .. c |-> f[j]]
    BY <1>9, Zenon
  <2>2. \A j \in 1 .. c : f[j] \in S
    BY <1>10
  <2> HIDE DEF f
  <2>3. f \in [1 .. c -> S]
    BY <2>1, <2>2
  <2> QED BY <2>3 DEF f
<1>12. ASSUME NEW x \in S PROVE \E i \in 1 .. c : Ranked(S, R)[i] = x
  <2> HIDE DEF rank, c
  <2>1. rank[x] \in 0 .. c - 1
    BY <1>2
  <2>2. rank[x] + 1 \in 1 .. c /\ (rank[x] + 1) - 1 = rank[x]
    BY <1>1, <2>1
  <2>3. Ranked(S, R)[rank[x] + 1] \in S /\ rank[Ranked(S, R)[rank[x] + 1]] = rank[x]
    BY <1>10, <2>2
  <2> QED BY <1>4, <2>2, <2>3
<1>13. ASSUME NEW i \in 1 .. c, NEW j \in 1 .. c, Ranked(S, R)[i] = Ranked(S, R)[j] PROVE i = j
  <2> HIDE DEF rank, c
  <2>1. i - 1 = j - 1 /\ i \in Int /\ j \in Int
    BY <1>1, <1>10, <1>13
  <2> QED BY <2>1
<1> HIDE DEF rank
<1> QED BY <1>1, <1>11, <1>12, <1>13

\* Numbers are ordered by Less.
LEMMA RankedLess ==
    ASSUME NEW K \in SUBSET Int, IsFiniteSet(K)
    PROVE  /\ Cardinality(K) \in Nat
           /\ Ranked(K, Less(K)) \in [1 .. Cardinality(K) -> K]
           /\ \A i, j \in 1 .. Cardinality(K) :
                 Ranked(K, Less(K))[i] = Ranked(K, Less(K))[j] => i = j
           /\ \A x \in K : \E i \in 1 .. Cardinality(K) : Ranked(K, Less(K))[i] = x
<1>1. \A x, y \in K : <<x, y>> \in Less(K) <=> x < y
  BY DEF Less
<1>2. \A x \in K : x \in Int
  OBVIOUS
<1>3. \A x \in K : <<x, x>> \notin Less(K)
  BY <1>1, <1>2
<1>4. ASSUME NEW x \in K, NEW y \in K, NEW z \in K, <<x, y>> \in Less(K), <<y, z>> \in Less(K)
      PROVE  <<x, z>> \in Less(K)
  <2>1. x < y /\ y < z /\ x \in Int /\ y \in Int /\ z \in Int
    BY <1>1, <1>2, <1>4
  <2>2. x < z
    BY <2>1
  <2> QED BY <1>1, <2>2
<1>5. ASSUME NEW x \in K, NEW y \in K
      PROVE  x = y \/ <<x, y>> \in Less(K) \/ <<y, x>> \in Less(K)
  <2>1. x = y \/ x < y \/ y < x
    BY <1>2
  <2> QED BY <1>1, <2>1
<1> DEFINE R == Less(K)
<1> HIDE DEF R
<1> QED BY ZenonT(60), <1>3, <1>4, <1>5, RankedOf DEF R

----------------------------------------------------------------------------
(* The table.                                                              *)

\* The largest table.
LEMMA MaxSizeIs == MaxSize \in Sizes /\ MaxSize \in Nat /\ \A n \in Sizes : n <= MaxSize
<1>1. PICK x \in Sizes : \A y \in Sizes : y <= x
  BY MlkHashAssumption
<1>2. Sizes \subseteq Nat
  BY MlkHashAssumption
<1>3. \E z \in Sizes : \A y \in Sizes : z >= y
  BY <1>1, <1>2
<1>4. MaxSize \in Sizes /\ \A y \in Sizes : MaxSize >= y
  BY <1>3 DEF MaxSize, Max
<1> QED BY <1>2, <1>4

\* NoNode is not a node.
LEMMA NoNodeIs == NoNode \notin Nodes
BY MlkHashAssumption

\* The sizes.
LEMMA SizeType ==
    ASSUME NEW n \in Sizes
    PROVE  /\ n \in Nat /\ n > 0 /\ n > NEIGHBORS /\ NEIGHBORS \in Nat /\ NEIGHBORS > 0
           /\ 0 .. n - 1 \subseteq 0 .. MaxSize - 1
<1>1. n \in Nat /\ n > NEIGHBORS /\ NEIGHBORS \in Nat \ {0}
  BY MlkHashAssumption
<1>2. n <= MaxSize /\ MaxSize \in Nat
  BY MaxSizeIs
<1> QED BY <1>1, <1>2

\* Distances between buckets.
LEMMA DistIs ==
    ASSUME NEW n \in Nat, NEW a \in 0 .. n - 1, NEW b \in 0 .. n - 1
    PROVE  Dist(n, a, b) = (IF b >= a THEN b - a ELSE n + b - a) /\ Dist(n, a, b) \in 0 .. n - 1
BY DEF Dist

\* The bucket k after a.
LEMMA StepIs ==
    ASSUME NEW n \in Nat, NEW a \in 0 .. n - 1, NEW k \in 0 .. n - 1
    PROVE  /\ (a + k) % n = (IF a + k < n THEN a + k ELSE a + k - n)
           /\ (a + k) % n \in 0 .. n - 1
BY SMT

\* The distance of the bucket k after a is k.
LEMMA DistStep ==
    ASSUME NEW n \in Nat, NEW a \in 0 .. n - 1, NEW k \in 0 .. n - 1
    PROVE  Dist(n, a, (a + k) % n) = k
<1> DEFINE b == (a + k) % n
<1>1. b = (IF a + k < n THEN a + k ELSE a + k - n) /\ b \in 0 .. n - 1
  BY StepIs
<1> HIDE DEF b
<1>2. Dist(n, a, b) = IF b >= a THEN b - a ELSE n + b - a
  BY <1>1, DistIs
<1>3. Dist(n, a, b) = k
  BY <1>1, <1>2
<1> QED BY <1>3 DEF b

\* The bucket at the distance of b is b.
LEMMA StepDist ==
    ASSUME NEW n \in Nat, NEW a \in 0 .. n - 1, NEW b \in 0 .. n - 1
    PROVE  (a + Dist(n, a, b)) % n = b
<1> DEFINE k == Dist(n, a, b)
<1>1. k = (IF b >= a THEN b - a ELSE n + b - a) /\ k \in 0 .. n - 1
  BY DistIs
<1> HIDE DEF k
<1>2. (a + k) % n = IF a + k < n THEN a + k ELSE a + k - n
  BY <1>1, StepIs
<1>3. (a + k) % n = b
  BY <1>1, <1>2
<1> QED BY <1>3 DEF k

\* Different buckets are at different distances.
LEMMA DistInjective ==
    ASSUME NEW n \in Nat, NEW a \in 0 .. n - 1, NEW b \in 0 .. n - 1, NEW c \in 0 .. n - 1,
           Dist(n, a, b) = Dist(n, a, c)
    PROVE  b = c
BY StepDist

\* The home bucket of a hash.
LEMMA HomeType ==
    ASSUME NEW n \in Nat, n > 0, NEW h \in Nat PROVE h % n \in 0 .. n - 1
OBVIOUS

Buckets == 0 .. MaxSize - 1
Bucket  == [blk : Nodes \union {NoNode}, hash : Nat, usedmap : SUBSET Nat]

\* The entries of t are those of the nodes A, each with its hash, in one of the first
\* n buckets, and the usedmap of a bucket has the distances of the entries at home there.
Good(n, t, A, g) ==
    /\ t \in Tables
    /\ \A b \in Buckets : t[b].usedmap \subseteq 0 .. NEIGHBORS - 1
    /\ \A b, c \in 0 .. n - 1 :
          Dist(n, b, c) \in t[b].usedmap <=> t[c].blk # NoNode /\ t[c].hash % n = b
    /\ \A c \in Buckets : t[c].blk # NoNode =>
          c \in 0 .. n - 1 /\ t[c].blk \in A /\ t[c].hash = g[t[c].blk]
    /\ \A a \in A : \E c \in 0 .. n - 1 : t[c].blk = a
    /\ \A c, d \in Buckets : t[c].blk # NoNode /\ t[c].blk = t[d].blk => c = d

\* A table and its buckets.
LEMMA TableType ==
    ASSUME NEW t \in Tables
    PROVE  /\ DOMAIN t = Buckets
           /\ \A b \in Buckets : /\ t[b] \in Bucket /\ t[b].blk \in Nodes \union {NoNode}
                                 /\ t[b].hash \in Nat /\ t[b].usedmap \in SUBSET Nat
BY DEF Tables, Buckets, Bucket

\* One field of one bucket is set.
WithBlk(t, i, v) == [t EXCEPT ![i].blk = v]
WithHash(t, i, v) == [t EXCEPT ![i].hash = v]
WithUsedmap(t, i, v) == [t EXCEPT ![i].usedmap = v]

\* The table with the field blk of bucket i set to v.
LEMMA SetBlk ==
    ASSUME NEW t \in Tables, NEW i \in Buckets, NEW v \in Nodes \union {NoNode}
    PROVE  /\ WithBlk(t, i, v) \in Tables
           /\ \A b \in Buckets : /\ WithBlk(t, i, v)[b].blk = IF b = i THEN v ELSE t[b].blk
                                 /\ WithBlk(t, i, v)[b].hash = t[b].hash
                                 /\ WithBlk(t, i, v)[b].usedmap = t[b].usedmap
<1> DEFINE u == WithBlk(t, i, v)
<1>1. t \in [Buckets -> Bucket]
  BY DEF Tables, Buckets, Bucket
<1>2. u = [b \in Buckets |-> IF b = i THEN [t[i] EXCEPT !.blk = v] ELSE t[b]]
  BY <1>1 DEF WithBlk
<1> HIDE DEF u
<1>3. ASSUME NEW b \in Buckets
      PROVE  /\ u[b] \in Bucket /\ u[b].blk = IF b = i THEN v ELSE t[b].blk
             /\ u[b].hash = t[b].hash /\ u[b].usedmap = t[b].usedmap
  <2>1. t[b] \in Bucket
    BY <1>1
  <2>2. CASE b = i
    BY <1>2, <2>1, <2>2 DEF Bucket
  <2>3. CASE b # i
    BY <1>2, <2>1, <2>3
  <2> QED BY <2>2, <2>3
<1>4. u \in [Buckets -> Bucket]
  BY <1>2, <1>3
<1>5. u \in Tables
  BY <1>4 DEF Tables, Buckets, Bucket
<1> QED BY <1>3, <1>5 DEF u

\* The table with the field hash of bucket i set to v.
LEMMA SetHash ==
    ASSUME NEW t \in Tables, NEW i \in Buckets, NEW v \in Nat
    PROVE  /\ WithHash(t, i, v) \in Tables
           /\ \A b \in Buckets : /\ WithHash(t, i, v)[b].hash = IF b = i THEN v ELSE t[b].hash
                                 /\ WithHash(t, i, v)[b].blk = t[b].blk
                                 /\ WithHash(t, i, v)[b].usedmap = t[b].usedmap
<1> DEFINE u == WithHash(t, i, v)
<1>1. t \in [Buckets -> Bucket]
  BY DEF Tables, Buckets, Bucket
<1>2. u = [b \in Buckets |-> IF b = i THEN [t[i] EXCEPT !.hash = v] ELSE t[b]]
  BY <1>1 DEF WithHash
<1> HIDE DEF u
<1>3. ASSUME NEW b \in Buckets
      PROVE  /\ u[b] \in Bucket /\ u[b].hash = IF b = i THEN v ELSE t[b].hash
             /\ u[b].blk = t[b].blk /\ u[b].usedmap = t[b].usedmap
  <2>1. t[b] \in Bucket
    BY <1>1
  <2>2. CASE b = i
    BY <1>2, <2>1, <2>2 DEF Bucket
  <2>3. CASE b # i
    BY <1>2, <2>1, <2>3
  <2> QED BY <2>2, <2>3
<1>4. u \in [Buckets -> Bucket]
  BY <1>2, <1>3
<1>5. u \in Tables
  BY <1>4 DEF Tables, Buckets, Bucket
<1> QED BY <1>3, <1>5 DEF u

\* The table with the field usedmap of bucket i set to v.
LEMMA SetUsedmap ==
    ASSUME NEW t \in Tables, NEW i \in Buckets, NEW v \in SUBSET Nat
    PROVE  /\ WithUsedmap(t, i, v) \in Tables
           /\ \A b \in Buckets : /\ WithUsedmap(t, i, v)[b].usedmap = IF b = i THEN v ELSE t[b].usedmap
                                 /\ WithUsedmap(t, i, v)[b].blk = t[b].blk
                                 /\ WithUsedmap(t, i, v)[b].hash = t[b].hash
<1> DEFINE u == WithUsedmap(t, i, v)
<1>1. t \in [Buckets -> Bucket]
  BY DEF Tables, Buckets, Bucket
<1>2. u = [b \in Buckets |-> IF b = i THEN [t[i] EXCEPT !.usedmap = v] ELSE t[b]]
  BY <1>1 DEF WithUsedmap
<1> HIDE DEF u
<1>3. ASSUME NEW b \in Buckets
      PROVE  /\ u[b] \in Bucket /\ u[b].usedmap = IF b = i THEN v ELSE t[b].usedmap
             /\ u[b].blk = t[b].blk /\ u[b].hash = t[b].hash
  <2>1. t[b] \in Bucket
    BY <1>1
  <2>2. CASE b = i
    BY <1>2, <2>1, <2>2 DEF Bucket
  <2>3. CASE b # i
    BY <1>2, <2>1, <2>3
  <2> QED BY <2>2, <2>3
<1>4. u \in [Buckets -> Bucket]
  BY <1>2, <1>3
<1>5. u \in Tables
  BY <1>4 DEF Tables, Buckets, Bucket
<1> QED BY <1>3, <1>5 DEF u

\* The fields after a move.
MoveDone(n, t, si, mi, fi, u) ==
    \A b \in Buckets :
        /\ u[b].blk = IF b = mi THEN NoNode ELSE IF b = fi THEN t[mi].blk ELSE t[b].blk
        /\ u[b].hash = IF b = mi THEN 0 ELSE IF b = fi THEN t[mi].hash ELSE t[b].hash
        /\ u[b].usedmap = IF b = si
                          THEN (t[si].usedmap \ {Dist(n, si, mi)}) \union {Dist(n, si, fi)}
                          ELSE t[b].usedmap

\* They are those.
LEMMA MovedIs ==
    ASSUME NEW n, NEW t \in Tables, NEW si \in Buckets, NEW mi \in Buckets, NEW fi \in Buckets,
           Dist(n, si, fi) \in Nat, mi # fi
    PROVE  /\ Moved(n, t, si, mi, fi) \in Tables
           /\ MoveDone(n, t, si, mi, fi, Moved(n, t, si, mi, fi))
<1> DEFINE u == Moved(n, t, si, mi, fi)
<1> DEFINE u1 == WithBlk(t, fi, t[mi].blk)
           u2 == WithHash(u1, fi, t[mi].hash)
           u3 == WithBlk(u2, mi, NoNode)
           u4 == WithHash(u3, mi, 0)
           map == (u4[si].usedmap \ {Dist(n, si, mi)}) \union {Dist(n, si, fi)}
           u5 == WithUsedmap(u4, si, map)
<1>1. u = u5
  BY DEF Moved, WithBlk, WithHash, WithUsedmap
<1> HIDE DEF u
<1>2. t[mi].blk \in Nodes \union {NoNode} /\ t[mi].hash \in Nat
  BY TableType
<1>3. u1 \in Tables /\ \A b \in Buckets : /\ u1[b].blk = IF b = fi THEN t[mi].blk ELSE t[b].blk
                                         /\ u1[b].hash = t[b].hash
                                         /\ u1[b].usedmap = t[b].usedmap
  BY <1>2, SetBlk
<1> HIDE DEF u1
<1>4. u2 \in Tables /\ \A b \in Buckets : /\ u2[b].hash = IF b = fi THEN t[mi].hash ELSE u1[b].hash
                                         /\ u2[b].blk = u1[b].blk
                                         /\ u2[b].usedmap = u1[b].usedmap
  <2>1. u1 \in Tables
    BY <1>3
  <2>2. PICK h \in Nat : h = t[mi].hash
    BY <1>2
  <2>3. WithHash(u1, fi, h) \in Tables
    BY <2>1, SetHash
  <2>4. \A b \in Buckets : WithHash(u1, fi, h)[b].hash = IF b = fi THEN h ELSE u1[b].hash
    BY <2>1, SetHash
  <2>5. \A b \in Buckets : WithHash(u1, fi, h)[b].blk = u1[b].blk
    BY <2>1, SetHash
  <2>6. \A b \in Buckets : WithHash(u1, fi, h)[b].usedmap = u1[b].usedmap
    BY <2>1, SetHash
  <2> QED BY <2>2, <2>3, <2>4, <2>5, <2>6
<1> HIDE DEF u2
<1>5. u3 \in Tables /\ \A b \in Buckets : /\ u3[b].blk = IF b = mi THEN NoNode ELSE u2[b].blk
                                         /\ u3[b].hash = u2[b].hash
                                         /\ u3[b].usedmap = u2[b].usedmap
  BY <1>4, SetBlk
<1> HIDE DEF u3
<1>6. u4 \in Tables /\ \A b \in Buckets : /\ u4[b].hash = IF b = mi THEN 0 ELSE u3[b].hash
                                         /\ u4[b].blk = u3[b].blk
                                         /\ u4[b].usedmap = u3[b].usedmap
  BY <1>5, SetHash
<1> HIDE DEF u4
<1>7. map \in SUBSET Nat
  BY <1>6, TableType
<1> HIDE DEF map
<1>8. u5 \in Tables /\ \A b \in Buckets : /\ u5[b].usedmap = IF b = si THEN map ELSE u4[b].usedmap
                                         /\ u5[b].blk = u4[b].blk
                                         /\ u5[b].hash = u4[b].hash
  BY <1>6, <1>7, SetUsedmap
<1> HIDE DEF u5
<1>9. map = (t[si].usedmap \ {Dist(n, si, mi)}) \union {Dist(n, si, fi)}
  BY <1>3, <1>4, <1>5, <1>6 DEF map
<1>10. ASSUME NEW b \in Buckets
       PROVE  /\ u[b].blk = IF b = mi THEN NoNode ELSE IF b = fi THEN t[mi].blk ELSE t[b].blk
              /\ u[b].hash = IF b = mi THEN 0 ELSE IF b = fi THEN t[mi].hash ELSE t[b].hash
              /\ u[b].usedmap = IF b = si THEN map ELSE t[b].usedmap
  BY <1>1, <1>3, <1>4, <1>5, <1>6, <1>8
<1>11. MoveDone(n, t, si, mi, fi, u)
  BY <1>9, <1>10 DEF MoveDone
<1>12. u \in Tables
  BY <1>1, <1>8
<1> QED BY <1>11, <1>12 DEF u

\* The entry that makes way for the free bucket fi: where it is.
LEMMA MovableIs ==
    ASSUME NEW n \in Sizes, NEW t \in Tables, NEW si \in 0 .. n - 1, NEW fi \in 0 .. n - 1,
           Movable(n, t, si, fi), NEW mi, mi = (si + Min(t[si].usedmap)) % n
    PROVE  /\ mi \in 0 .. n - 1 /\ mi # fi
           /\ Dist(n, mi, fi) \in 1 .. NEIGHBORS - 1
           /\ Dist(n, si, mi) \in t[si].usedmap
           /\ Dist(n, si, fi) \in 1 .. NEIGHBORS - 1
<1> DEFINE k == Min(t[si].usedmap)
           d == Dist(n, si, fi)
<1>1. n \in Nat /\ n > NEIGHBORS /\ NEIGHBORS \in Nat /\ si \in Buckets
  BY SizeType DEF Buckets
<1>2. d \in 1 .. NEIGHBORS - 1 /\ t[si].usedmap # {} /\ k < d
  BY DEF Movable
<1>3. t[si].usedmap \in SUBSET Nat
  BY <1>1, TableType
<1>4. k \in t[si].usedmap /\ k \in Nat
  BY <1>2, <1>3, MinIs
<1>5. mi = (si + k) % n
  OBVIOUS
<1>6. d = (IF fi >= si THEN fi - si ELSE n + fi - si)
  BY <1>1, DistIs
<1> HIDE DEF k, d
<1>7. k \in 0 .. n - 1
  BY <1>1, <1>2, <1>4
<1>8. mi = (IF si + k < n THEN si + k ELSE si + k - n) /\ mi \in 0 .. n - 1
  BY <1>1, <1>5, <1>7, StepIs
<1>9. Dist(n, si, mi) = k
  BY <1>1, <1>5, <1>7, DistStep
<1>10. Dist(n, mi, fi) = (IF fi >= mi THEN fi - mi ELSE n + fi - mi)
  BY <1>1, <1>8, DistIs
<1>11. mi # fi /\ Dist(n, mi, fi) = d - k
  BY <1>1, <1>2, <1>4, <1>6, <1>8, <1>10
<1>12. Dist(n, mi, fi) \in 1 .. NEIGHBORS - 1
  BY <1>1, <1>2, <1>4, <1>11
<1> QED BY <1>2, <1>4, <1>8, <1>9, <1>11, <1>12 DEF d

\* Moving it keeps the table good, and leaves its old bucket free.
LEMMA GoodMoved ==
    ASSUME NEW n \in Sizes, NEW A, NEW g, NEW t, Good(n, t, A, g), NoNode \notin A,
           NEW si \in 0 .. n - 1, NEW fi \in 0 .. n - 1, t[fi].blk = NoNode,
           Movable(n, t, si, fi), NEW mi, mi = (si + Min(t[si].usedmap)) % n
    PROVE  /\ Good(n, Moved(n, t, si, mi, fi), A, g)
           /\ Moved(n, t, si, mi, fi)[mi].blk = NoNode
<1> DEFINE u == Moved(n, t, si, mi, fi)
           map == (t[si].usedmap \ {Dist(n, si, mi)}) \union {Dist(n, si, fi)}
<1>1. t \in Tables /\ n \in Nat /\ NEIGHBORS \in Nat /\ 0 .. n - 1 \subseteq Buckets
  BY SizeType DEF Good, Buckets
<1>2. /\ mi \in 0 .. n - 1 /\ mi # fi
      /\ Dist(n, si, mi) \in t[si].usedmap
      /\ Dist(n, si, fi) \in 1 .. NEIGHBORS - 1
  BY <1>1, MovableIs
<1>3. si \in Buckets /\ mi \in Buckets /\ fi \in Buckets /\ Dist(n, si, fi) \in Nat
  BY <1>1, <1>2
<1>4. /\ u \in Tables
      /\ \A b \in Buckets :
            /\ u[b].blk = IF b = mi THEN NoNode ELSE IF b = fi THEN t[mi].blk ELSE t[b].blk
            /\ u[b].hash = IF b = mi THEN 0 ELSE IF b = fi THEN t[mi].hash ELSE t[b].hash
            /\ u[b].usedmap = IF b = si THEN map ELSE t[b].usedmap
  <2>1. u \in Tables /\ MoveDone(n, t, si, mi, fi, u)
    BY <1>1, <1>2, <1>3, MovedIs
  <2> HIDE DEF u
  <2> QED BY <2>1 DEF MoveDone
<1>5. \A b, c \in 0 .. n - 1 :
         Dist(n, b, c) \in t[b].usedmap <=> t[c].blk # NoNode /\ t[c].hash % n = b
  BY DEF Good
<1>6. t[mi].blk # NoNode /\ t[mi].hash % n = si
  BY <1>2, <1>5
<1>7. \A x, y \in 0 .. n - 1 : Dist(n, si, x) = Dist(n, si, y) => x = y
  BY <1>1, DistInjective
<1> HIDE DEF u
<1>8. \A b \in Buckets : u[b].usedmap \subseteq 0 .. NEIGHBORS - 1
  <2>1. \A b \in Buckets : t[b].usedmap \subseteq 0 .. NEIGHBORS - 1
    BY DEF Good
  <2>2. map \subseteq 0 .. NEIGHBORS - 1
    BY <1>1, <1>2, <1>3, <2>1
  <2> HIDE DEF map
  <2> QED BY <1>4, <2>1, <2>2
<1>9. ASSUME NEW b \in 0 .. n - 1, NEW c \in 0 .. n - 1
      PROVE  Dist(n, b, c) \in u[b].usedmap <=> u[c].blk # NoNode /\ u[c].hash % n = b
  <2>0. b \in Buckets /\ c \in Buckets
    BY <1>1
  <2>1. CASE c = fi
    <3>1. u[c].blk # NoNode /\ u[c].hash % n = si
      BY <1>2, <1>4, <1>6, <2>0, <2>1
    <3>2. CASE b = si
      BY <1>4, <2>0, <2>1, <3>1, <3>2
    <3>3. CASE b # si
      <4>1. Dist(n, b, c) \notin t[b].usedmap
        BY <1>5, <2>1
      <4> QED BY <1>4, <2>0, <3>1, <3>3, <4>1
    <3> QED BY <3>2, <3>3
  <2>2. CASE c = mi
    <3>1. u[c].blk = NoNode
      BY <1>4, <2>0, <2>2
    <3>2. CASE b = si
      <4>1. Dist(n, si, mi) # Dist(n, si, fi)
        BY <1>2, <1>7
      <4> QED BY <1>4, <2>0, <2>2, <3>1, <3>2, <4>1
    <3>3. CASE b # si
      <4>1. Dist(n, b, c) \notin t[b].usedmap
        BY <1>5, <1>6, <2>2, <3>3
      <4> QED BY <1>4, <2>0, <3>1, <3>3, <4>1
    <3> QED BY <3>2, <3>3
  <2>3. CASE c # fi /\ c # mi
    <3>1. u[c].blk = t[c].blk /\ u[c].hash = t[c].hash
      BY <1>4, <2>0, <2>3
    <3>2. CASE b = si
      <4>1. Dist(n, si, c) # Dist(n, si, fi) /\ Dist(n, si, c) # Dist(n, si, mi)
        BY <1>2, <1>7, <2>3
      <4>2. Dist(n, b, c) \in u[b].usedmap <=> Dist(n, b, c) \in t[b].usedmap
        BY <1>4, <2>0, <3>2, <4>1
      <4> QED BY <1>5, <3>1, <4>2
    <3>3. CASE b # si
      BY <1>4, <1>5, <2>0, <3>1, <3>3
    <3> QED BY <3>2, <3>3
  <2> QED BY <2>1, <2>2, <2>3
<1> HIDE DEF map
<1>10. \A c \in Buckets : t[c].blk # NoNode =>
          c \in 0 .. n - 1 /\ t[c].blk \in A /\ t[c].hash = g[t[c].blk]
  BY DEF Good
<1>11. \A c, d \in Buckets : t[c].blk # NoNode /\ t[c].blk = t[d].blk => c = d
  BY DEF Good
<1>12. ASSUME NEW c \in Buckets, u[c].blk # NoNode
       PROVE  c \in 0 .. n - 1 /\ u[c].blk \in A /\ u[c].hash = g[u[c].blk]
  <2>1. CASE c = fi
    BY <1>2, <1>3, <1>4, <1>6, <1>10, <2>1
  <2>2. CASE c # fi
    BY <1>4, <1>10, <1>12, <2>2
  <2> QED BY <2>1, <2>2
<1>13. ASSUME NEW a \in A PROVE \E c \in 0 .. n - 1 : u[c].blk = a
  <2>1. PICK c \in 0 .. n - 1 : t[c].blk = a
    BY DEF Good
  <2>2. c \in Buckets /\ c # fi
    BY <1>1, <2>1
  <2>3. CASE c = mi
    <3>1. u[fi].blk = a
      BY <1>2, <1>3, <1>4, <2>1, <2>3
    <3> QED BY <3>1
  <2>4. CASE c # mi
    <3>1. u[c].blk = a
      BY <1>4, <2>1, <2>2, <2>4
    <3> QED BY <3>1
  <2> QED BY <2>3, <2>4
<1>14. ASSUME NEW c \in Buckets, NEW d \in Buckets, u[c].blk # NoNode, u[c].blk = u[d].blk
       PROVE  c = d
  <2> DEFINE old(x) == IF x = fi THEN mi ELSE x
  <2>1. \A x \in Buckets : u[x].blk # NoNode => x # mi /\ u[x].blk = t[old(x)].blk /\ old(x) \in Buckets
    BY <1>2, <1>3, <1>4
  <2>2. c # mi /\ d # mi /\ u[c].blk = t[old(c)].blk /\ u[d].blk = t[old(d)].blk
        /\ old(c) \in Buckets /\ old(d) \in Buckets
    BY <1>14, <2>1
  <2>3. old(c) = old(d)
    <3> HIDE DEF old
    <3> QED BY <1>11, <1>14, <2>2
  <2> QED BY <2>2, <2>3
<1>15. Good(n, u, A, g)
  BY <1>4, <1>8, <1>9, <1>12, <1>13, <1>14 DEF Good
<1>16. u[mi].blk = NoNode
  BY <1>3, <1>4
<1> QED BY <1>15, <1>16 DEF u

\* Entry i and the usedmap of bucket b are stored, and nothing else.
StoreDone(t, i, v, h, b, map, u) ==
    \A x \in Buckets :
        /\ u[x].blk = IF x = i THEN v ELSE t[x].blk
        /\ u[x].hash = IF x = i THEN h ELSE t[x].hash
        /\ u[x].usedmap = IF x = b THEN map ELSE t[x].usedmap

\* The three stores, one after the other.
LEMMA Stored ==
    ASSUME NEW t \in Tables, NEW i \in Buckets, NEW b \in Buckets,
           NEW v \in Nodes \union {NoNode}, NEW h \in Nat, NEW map \in SUBSET Nat
    PROVE  /\ WithUsedmap(WithHash(WithBlk(t, i, v), i, h), b, map) \in Tables
           /\ StoreDone(t, i, v, h, b, map, WithUsedmap(WithHash(WithBlk(t, i, v), i, h), b, map))
           /\ WithHash(WithBlk(t, i, v), i, h)[b].usedmap = t[b].usedmap
<1> DEFINE u1 == WithBlk(t, i, v)
           u2 == WithHash(u1, i, h)
           u3 == WithUsedmap(u2, b, map)
<1>1. u1 \in Tables /\ \A x \in Buckets : /\ u1[x].blk = IF x = i THEN v ELSE t[x].blk
                                         /\ u1[x].hash = t[x].hash
                                         /\ u1[x].usedmap = t[x].usedmap
  BY SetBlk
<1> HIDE DEF u1
<1>2. u2 \in Tables
  BY <1>1, SetHash
<1>3. \A x \in Buckets : u2[x].hash = IF x = i THEN h ELSE u1[x].hash
  BY <1>1, SetHash
<1>4. \A x \in Buckets : u2[x].blk = u1[x].blk
  BY <1>1, SetHash
<1>5. \A x \in Buckets : u2[x].usedmap = u1[x].usedmap
  BY <1>1, SetHash
<1> HIDE DEF u2
<1>6. u3 \in Tables
  BY <1>2, SetUsedmap
<1>7. \A x \in Buckets : u3[x].usedmap = IF x = b THEN map ELSE u2[x].usedmap
  BY <1>2, SetUsedmap
<1>8. \A x \in Buckets : u3[x].blk = u2[x].blk
  BY <1>2, SetUsedmap
<1>9. \A x \in Buckets : u3[x].hash = u2[x].hash
  BY <1>2, SetUsedmap
<1> HIDE DEF u3
<1>10. StoreDone(t, i, v, h, b, map, u3)
  BY <1>1, <1>3, <1>4, <1>5, <1>7, <1>8, <1>9 DEF StoreDone
<1>11. u2[b].usedmap = t[b].usedmap
  BY <1>1, <1>5
<1> QED BY <1>6, <1>10, <1>11 DEF u1, u2, u3

\* A new entry is stored.
LEMMA InsertIs ==
    ASSUME NEW n, NEW t \in Tables, NEW bi \in Buckets, NEW fi \in Buckets,
           NEW blk \in Nodes, NEW h \in Nat, Dist(n, bi, fi) \in Nat
    PROVE  /\ mlk_shrhash_insert(n, t, bi, fi, blk, h) \in Tables
           /\ StoreDone(t, fi, blk, h, bi, t[bi].usedmap \union {Dist(n, bi, fi)},
                        mlk_shrhash_insert(n, t, bi, fi, blk, h))
<1> DEFINE map == t[bi].usedmap \union {Dist(n, bi, fi)}
           u2 == WithHash(WithBlk(t, fi, blk), fi, h)
<1>1. map \in SUBSET Nat
  BY TableType
<1>2. mlk_shrhash_insert(n, t, bi, fi, blk, h) =
         WithUsedmap(u2, bi, u2[bi].usedmap \union {Dist(n, bi, fi)})
  BY DEF mlk_shrhash_insert, WithBlk, WithHash, WithUsedmap
<1> HIDE DEF map
<1>3. /\ WithUsedmap(u2, bi, map) \in Tables
      /\ StoreDone(t, fi, blk, h, bi, map, WithUsedmap(u2, bi, map))
      /\ u2[bi].usedmap = t[bi].usedmap
  BY <1>1, Stored
<1> HIDE DEF u2
<1>4. mlk_shrhash_insert(n, t, bi, fi, blk, h) = WithUsedmap(u2, bi, map)
  BY <1>2, <1>3 DEF map
<1> QED BY <1>3, <1>4 DEF map

\* A new node is added to the table by an entry that is in reach of its home bucket.
LEMMA GoodInsert ==
    ASSUME NEW n \in Sizes, NEW A, NEW g, NEW t, Good(n, t, A, g), NoNode \notin A,
           NEW blk \in Nodes \ A, NEW h \in Nat, g[blk] = h, NEW fi \in 0 .. n - 1,
           t[fi].blk = NoNode, InReach(n, h % n, fi)
    PROVE  Good(n, mlk_shrhash_insert(n, t, h % n, fi, blk, h), A \union {blk}, g)
<1> DEFINE bi == h % n
           u == mlk_shrhash_insert(n, t, bi, fi, blk, h)
           d == Dist(n, bi, fi)
           map == t[bi].usedmap \union {d}
<1>1. t \in Tables /\ n \in Nat /\ n > 0 /\ NEIGHBORS \in Nat /\ 0 .. n - 1 \subseteq Buckets
  BY SizeType DEF Good, Buckets
<1>2. bi \in 0 .. n - 1
  BY <1>1, HomeType
<1> HIDE DEF bi
<1>3. d \in 0 .. n - 1 /\ d < NEIGHBORS
  <2>1. d \in 0 .. n - 1
    BY <1>1, <1>2, DistIs
  <2>2. d < NEIGHBORS
    BY DEF InReach, bi
  <2> QED BY <2>1, <2>2
<1>4. d \in Nat /\ bi \in Buckets /\ fi \in Buckets /\ blk # NoNode
  <2> HIDE DEF d
  <2>1. d \in Nat
    BY <1>1, <1>3
  <2>2. bi \in Buckets /\ fi \in Buckets
    BY <1>1, <1>2
  <2>3. blk # NoNode
    BY NoNodeIs
  <2> QED BY <2>1, <2>2, <2>3
<1>5. u \in Tables /\ StoreDone(t, fi, blk, h, bi, map, u)
  <2>1. Dist(n, bi, fi) \in Nat
    BY <1>4
  <2> QED BY <1>1, <1>4, <2>1, InsertIs
<1> HIDE DEF u
<1>6. \A x \in Buckets : /\ u[x].blk = IF x = fi THEN blk ELSE t[x].blk
                         /\ u[x].hash = IF x = fi THEN h ELSE t[x].hash
                         /\ u[x].usedmap = IF x = bi THEN map ELSE t[x].usedmap
  BY <1>5 DEF StoreDone
<1>7. \A b, c \in 0 .. n - 1 :
         Dist(n, b, c) \in t[b].usedmap <=> t[c].blk # NoNode /\ t[c].hash % n = b
  BY DEF Good
<1>8. \A x, y \in 0 .. n - 1 : Dist(n, bi, x) = Dist(n, bi, y) => x = y
  BY <1>1, <1>2, DistInjective
<1>9. \A b \in Buckets : u[b].usedmap \subseteq 0 .. NEIGHBORS - 1
  <2>1. \A b \in Buckets : t[b].usedmap \subseteq 0 .. NEIGHBORS - 1
    BY DEF Good
  <2>2. map \subseteq 0 .. NEIGHBORS - 1
    <3> HIDE DEF d
    <3>1. d \in 0 .. NEIGHBORS - 1
      BY <1>1, <1>3
    <3> QED BY <1>4, <2>1, <3>1
  <2> HIDE DEF map
  <2> QED BY <1>6, <2>1, <2>2
<1>10. ASSUME NEW b \in 0 .. n - 1, NEW c \in 0 .. n - 1
       PROVE  Dist(n, b, c) \in u[b].usedmap <=> u[c].blk # NoNode /\ u[c].hash % n = b
  <2>0. b \in Buckets /\ c \in Buckets
    BY <1>1
  <2>1. CASE c = fi
    <3>1. u[c].blk # NoNode /\ u[c].hash % n = bi
      BY <1>4, <1>6, <2>0, <2>1 DEF bi
    <3>2. CASE b = bi
      BY <1>6, <2>0, <2>1, <3>1, <3>2
    <3>3. CASE b # bi
      <4>1. Dist(n, b, c) \notin t[b].usedmap
        BY <1>7, <2>1
      <4> QED BY <1>6, <2>0, <3>1, <3>3, <4>1
    <3> QED BY <3>2, <3>3
  <2>2. CASE c # fi
    <3>1. u[c].blk = t[c].blk /\ u[c].hash = t[c].hash
      BY <1>6, <2>0, <2>2
    <3>2. Dist(n, b, c) \in u[b].usedmap <=> Dist(n, b, c) \in t[b].usedmap
      <4>1. CASE b = bi
        <5>1. Dist(n, bi, c) # d
          BY <1>8, <2>2
        <5> QED BY <1>6, <2>0, <4>1, <5>1
      <4>2. CASE b # bi
        BY <1>6, <2>0, <4>2
      <4> QED BY <4>1, <4>2
    <3> QED BY <1>7, <3>1, <3>2
  <2> QED BY <2>1, <2>2
<1> HIDE DEF map, d
<1>11. \A c \in Buckets : t[c].blk # NoNode =>
          c \in 0 .. n - 1 /\ t[c].blk \in A /\ t[c].hash = g[t[c].blk]
  BY DEF Good
<1>12. \A c, e \in Buckets : t[c].blk # NoNode /\ t[c].blk = t[e].blk => c = e
  BY DEF Good
<1>13. ASSUME NEW c \in Buckets, u[c].blk # NoNode
       PROVE  c \in 0 .. n - 1 /\ u[c].blk \in A \union {blk} /\ u[c].hash = g[u[c].blk]
  BY <1>6, <1>11, <1>13
<1>14. ASSUME NEW a \in A \union {blk} PROVE \E c \in 0 .. n - 1 : u[c].blk = a
  <2>1. CASE a = blk
    <3>1. u[fi].blk = a
      BY <1>4, <1>6, <2>1
    <3> QED BY <3>1
  <2>2. CASE a \in A
    <3>1. PICK c \in 0 .. n - 1 : t[c].blk = a
      BY <2>2 DEF Good
    <3>2. c \in Buckets /\ c # fi
      BY <1>1, <2>2, <3>1
    <3>3. u[c].blk = a
      BY <1>6, <3>1, <3>2
    <3> QED BY <3>3
  <2> QED BY <2>1, <2>2
<1>15. ASSUME NEW c \in Buckets, NEW e \in Buckets, u[c].blk # NoNode, u[c].blk = u[e].blk
       PROVE  c = e
  <2>1. \A x \in Buckets : x # fi /\ u[x].blk # NoNode => u[x].blk # blk
    BY <1>6, <1>11
  <2>2. u[fi].blk = blk
    BY <1>4, <1>6
  <2>3. CASE c = fi \/ e = fi
    BY <1>15, <2>1, <2>2, <2>3
  <2>4. CASE c # fi /\ e # fi
    <3>1. t[c].blk # NoNode /\ t[c].blk = t[e].blk
      BY <1>6, <1>15, <2>4
    <3> QED BY <1>12, <3>1
  <2> QED BY <2>3, <2>4
<1>16. Good(n, u, A \union {blk}, g)
  BY <1>5, <1>9, <1>10, <1>13, <1>14, <1>15 DEF Good
<1> QED BY <1>16 DEF u, bi

\* The node d is in bucket c only.
PlaceIs(n, t, d, h, c) == Places(n, t, d, h) = {c} /\ t[c].blk = d

\* The bucket of a node: mlk_shrhash_find looks in it, and nowhere else finds the node.
LEMMA GoodPlaces ==
    ASSUME NEW n \in Sizes, NEW A \in SUBSET Nodes, NEW g \in [Nodes -> Nat], NEW t,
           Good(n, t, A, g), NEW d \in Nodes
    PROVE  IF d \in A THEN \E c \in 0 .. n - 1 : PlaceIs(n, t, d, g[d], c)
           ELSE Places(n, t, d, g[d]) = {}
<1> DEFINE h == g[d]
           bi == h % n
           P == Places(n, t, d, h)
<1>1. t \in Tables /\ n \in Nat /\ n > 0 /\ 0 .. n - 1 \subseteq Buckets /\ h \in Nat
      /\ d # NoNode /\ n > NEIGHBORS /\ NEIGHBORS \in Nat
  BY SizeType, NoNodeIs DEF Good, Buckets
<1> HIDE DEF h
<1>2. bi \in 0 .. n - 1
  BY <1>1, HomeType
<1>3. P = {si \in {(bi + k) % n : k \in t[bi].usedmap} : t[si].hash = h /\ t[si].blk = d}
  BY DEF Places
<1> HIDE DEF P, bi
<1>4. \A k \in t[bi].usedmap : k \in 0 .. n - 1
  <2>1. bi \in Buckets
    BY <1>1, <1>2
  <2>2. t[bi].usedmap \subseteq 0 .. NEIGHBORS - 1
    BY <2>1 DEF Good
  <2> QED BY <1>1, <2>2
<1>5. \A c \in P : c \in 0 .. n - 1 /\ c \in Buckets /\ t[c].blk = d
  <2> SUFFICES ASSUME NEW c \in P PROVE c \in 0 .. n - 1 /\ t[c].blk = d
    BY <1>1
  <2>1. PICK k \in t[bi].usedmap : c = (bi + k) % n
    BY <1>3
  <2>2. k \in 0 .. n - 1
    BY <1>4
  <2>3. c \in 0 .. n - 1
    BY <1>1, <1>2, <2>1, <2>2, StepIs
  <2> QED BY <1>3, <2>3
<1>6. \A c \in Buckets : t[c].blk # NoNode => t[c].blk \in A /\ t[c].hash = g[t[c].blk]
  BY DEF Good
<1>7. ASSUME d \notin A PROVE P = {}
  BY <1>1, <1>5, <1>6, <1>7
<1>8. ASSUME d \in A PROVE \E c \in 0 .. n - 1 : P = {c} /\ t[c].blk = d
  <2>1. PICK c \in 0 .. n - 1 : t[c].blk = d
    BY <1>8 DEF Good
  <2>2. c \in Buckets /\ t[c].hash = h
    BY <1>1, <1>6, <2>1 DEF h
  <2>3. Dist(n, bi, c) \in t[bi].usedmap
    <3>1. t[c].hash % n = bi
      BY <2>2 DEF bi
    <3> QED BY <1>1, <1>2, <2>1, <3>1 DEF Good
  <2>4. (bi + Dist(n, bi, c)) % n = c
    BY <1>1, <1>2, StepDist
  <2>5. c \in P
    BY <1>3, <2>1, <2>2, <2>3, <2>4
  <2>6. \A e \in P : e = c
    <3>1. \A x, y \in Buckets : t[x].blk # NoNode /\ t[x].blk = t[y].blk => x = y
      BY DEF Good
    <3> QED BY <1>1, <1>5, <2>1, <2>2, <3>1
  <2>7. P = {c}
    BY <2>5, <2>6
  <2> QED BY <2>1, <2>7
<1> QED BY <1>7, <1>8 DEF P, h, PlaceIs

\* Deleting a node takes its entry out of the table, and no other.
LEMMA GoodDelete ==
    ASSUME NEW n \in Sizes, NEW A \in SUBSET Nodes, NEW g \in [Nodes -> Nat], NEW t,
           Good(n, t, A, g), NEW d \in A
    PROVE  Good(n, mlk_shrhash_delete(n, t, d, g[d]), A \ {d}, g)
<1> DEFINE h == g[d]
           bi == h % n
           u == mlk_shrhash_delete(n, t, d, h)
<1>1. t \in Tables /\ n \in Nat /\ n > 0 /\ 0 .. n - 1 \subseteq Buckets /\ h \in Nat
      /\ d # NoNode /\ NEIGHBORS \in Nat
  BY SizeType, NoNodeIs DEF Good, Buckets
<1>2. PICK si \in 0 .. n - 1 : Places(n, t, d, h) = {si} /\ t[si].blk = d
  <2>0. d \in Nodes
    OBVIOUS
  <2>1. \E c \in 0 .. n - 1 : PlaceIs(n, t, d, g[d], c)
    BY <2>0, GoodPlaces
  <2> QED BY <2>1 DEF PlaceIs
<1> HIDE DEF h
<1>3. bi \in 0 .. n - 1
  BY <1>1, HomeType
<1> DEFINE u2 == WithHash(WithBlk(t, si, NoNode), si, 0)
           map == t[bi].usedmap \ {Dist(n, bi, si)}
<1>4. u = WithUsedmap(u2, bi, u2[bi].usedmap \ {Dist(n, bi, si)})
  <2>1. (CHOOSE x \in {si} : TRUE) = si
    OBVIOUS
  <2>2. u = [t EXCEPT ![si].blk = NoNode, ![si].hash = 0,
                      ![bi].usedmap = @ \ {Dist(n, bi, si)}]
    BY <1>2, <2>1 DEF mlk_shrhash_delete
  <2> HIDE DEF u, bi
  <2> QED BY <2>2 DEF WithBlk, WithHash, WithUsedmap
<1> HIDE DEF u, bi
<1>5. bi \in Buckets /\ si \in Buckets
  BY <1>1, <1>3
<1>6. map \in SUBSET Nat
  BY <1>1, <1>5, TableType
<1> HIDE DEF map
<1>7. /\ WithUsedmap(u2, bi, map) \in Tables
      /\ StoreDone(t, si, NoNode, 0, bi, map, WithUsedmap(u2, bi, map))
      /\ u2[bi].usedmap = t[bi].usedmap
  <2>1. NoNode \in Nodes \union {NoNode} /\ 0 \in Nat
    OBVIOUS
  <2> QED BY ZenonT(60), <1>1, <1>5, <1>6, <2>1, Stored
<1> HIDE DEF u2
<1>8. u \in Tables /\ StoreDone(t, si, NoNode, 0, bi, map, u)
  BY <1>4, <1>7 DEF map
<1>9. \A x \in Buckets : /\ u[x].blk = IF x = si THEN NoNode ELSE t[x].blk
                         /\ u[x].hash = IF x = si THEN 0 ELSE t[x].hash
                         /\ u[x].usedmap = IF x = bi THEN map ELSE t[x].usedmap
  BY <1>8 DEF StoreDone
<1>10. \A b, c \in 0 .. n - 1 :
         Dist(n, b, c) \in t[b].usedmap <=> t[c].blk # NoNode /\ t[c].hash % n = b
  BY DEF Good
<1>11. \A x, y \in 0 .. n - 1 : Dist(n, bi, x) = Dist(n, bi, y) => x = y
  BY <1>1, <1>3, DistInjective
<1>12. \A c \in Buckets : t[c].blk # NoNode =>
          c \in 0 .. n - 1 /\ t[c].blk \in A /\ t[c].hash = g[t[c].blk]
  BY DEF Good
<1>13. \A c, e \in Buckets : t[c].blk # NoNode /\ t[c].blk = t[e].blk => c = e
  BY DEF Good
<1>14. t[si].hash % n = bi
  BY <1>1, <1>2, <1>5, <1>12 DEF h, bi
<1>15. \A b \in Buckets : u[b].usedmap \subseteq 0 .. NEIGHBORS - 1
  <2>1. \A b \in Buckets : t[b].usedmap \subseteq 0 .. NEIGHBORS - 1
    BY DEF Good
  <2>2. map \subseteq 0 .. NEIGHBORS - 1
    BY <1>5, <2>1 DEF map
  <2> QED BY <1>9, <2>1, <2>2
<1>16. ASSUME NEW b \in 0 .. n - 1, NEW c \in 0 .. n - 1
       PROVE  Dist(n, b, c) \in u[b].usedmap <=> u[c].blk # NoNode /\ u[c].hash % n = b
  <2>0. b \in Buckets /\ c \in Buckets
    BY <1>1
  <2>1. CASE c = si
    <3>1. u[c].blk = NoNode
      BY <1>9, <2>0, <2>1
    <3>2. Dist(n, b, c) \notin u[b].usedmap
      <4>1. CASE b = bi
        BY <1>9, <2>0, <2>1, <4>1 DEF map
      <4>2. CASE b # bi
        <5>1. Dist(n, b, c) \notin t[b].usedmap
          BY <1>10, <1>14, <2>1, <4>2
        <5> QED BY <1>9, <2>0, <4>2, <5>1
      <4> QED BY <4>1, <4>2
    <3> QED BY <3>1, <3>2
  <2>2. CASE c # si
    <3>1. u[c].blk = t[c].blk /\ u[c].hash = t[c].hash
      BY <1>9, <2>0, <2>2
    <3>2. Dist(n, b, c) \in u[b].usedmap <=> Dist(n, b, c) \in t[b].usedmap
      <4>1. CASE b = bi
        <5>1. Dist(n, bi, c) # Dist(n, bi, si)
          BY <1>11, <2>2
        <5> QED BY <1>9, <2>0, <4>1, <5>1 DEF map
      <4>2. CASE b # bi
        BY <1>9, <2>0, <4>2
      <4> QED BY <4>1, <4>2
    <3> QED BY <1>10, <3>1, <3>2
  <2> QED BY <2>1, <2>2
<1>17. ASSUME NEW c \in Buckets, u[c].blk # NoNode
       PROVE  c \in 0 .. n - 1 /\ u[c].blk \in A \ {d} /\ u[c].hash = g[u[c].blk]
  <2>1. c # si /\ u[c].blk = t[c].blk /\ u[c].hash = t[c].hash
    BY <1>9, <1>17
  <2>2. t[c].blk # d
    BY <1>1, <1>2, <1>5, <1>13, <2>1
  <2> QED BY <1>12, <1>17, <2>1, <2>2
<1>18. ASSUME NEW a \in A \ {d} PROVE \E c \in 0 .. n - 1 : u[c].blk = a
  <2>1. PICK c \in 0 .. n - 1 : t[c].blk = a
    BY DEF Good
  <2>2. c \in Buckets /\ c # si
    BY <1>1, <1>2, <2>1
  <2>3. u[c].blk = a
    BY <1>9, <2>1, <2>2
  <2> QED BY <2>3
<1>19. ASSUME NEW c \in Buckets, NEW e \in Buckets, u[c].blk # NoNode, u[c].blk = u[e].blk
       PROVE  c = e
  <2>1. t[c].blk # NoNode /\ t[c].blk = t[e].blk
    BY <1>9, <1>19
  <2> QED BY <1>13, <2>1
<1>20. Good(n, u, A \ {d}, g)
  BY <1>8, <1>15, <1>16, <1>17, <1>18, <1>19 DEF Good
<1> QED BY <1>20 DEF u, h

\* On any table, deletion yields a table.
LEMMA DeleteType ==
    ASSUME NEW n \in Sizes, NEW t \in Tables, NEW d, NEW h \in Nat
    PROVE  mlk_shrhash_delete(n, t, d, h) \in Tables
<1> DEFINE bi == h % n
           u == mlk_shrhash_delete(n, t, d, h)
           found == Places(n, t, d, h)
           si == CHOOSE x \in found : TRUE
<1>1. n \in Nat /\ n > 0 /\ 0 .. n - 1 \subseteq Buckets
  BY SizeType DEF Buckets
<1>2. bi \in 0 .. n - 1 /\ bi \in Buckets
  BY <1>1, HomeType
<1>3. CASE found = {}
  BY <1>3 DEF mlk_shrhash_delete
<1>4. CASE found # {}
  <2>1. si \in found
    BY <1>4
  <2>2. found \subseteq {(bi + k) % n : k \in t[bi].usedmap}
    BY DEF Places
  <2>3. u = [t EXCEPT ![si].blk = NoNode, ![si].hash = 0,
                      ![bi].usedmap = @ \ {Dist(n, bi, si)}]
    BY <1>4 DEF mlk_shrhash_delete
  <2> HIDE DEF u, bi, si, found
  <2>4. PICK k \in t[bi].usedmap : si = (bi + k) % n
    BY <2>1, <2>2
  <2>5. k \in Nat /\ bi \in Nat
    BY <1>2, TableType
  <2>6. si \in Buckets
    <3>1. bi + k \in Nat
      BY <2>5
    <3>2. si \in 0 .. n - 1
      BY <1>1, <2>4, <3>1, HomeType
    <3> QED BY <1>1, <3>2
  <2> DEFINE u2 == WithHash(WithBlk(t, si, NoNode), si, 0)
             map == u2[bi].usedmap \ {Dist(n, bi, si)}
  <2>7. u = WithUsedmap(u2, bi, map)
    BY <2>3 DEF WithBlk, WithHash, WithUsedmap
  <2>8. u2[bi].usedmap = t[bi].usedmap
    <3>1. NoNode \in Nodes \union {NoNode} /\ 0 \in Nat /\ {} \in SUBSET Nat
      OBVIOUS
    <3> QED BY ZenonT(60), <1>2, <2>6, <3>1, Stored
  <2>9. map \in SUBSET Nat
    BY <1>2, <2>8, TableType
  <2> HIDE DEF map
  <2>10. WithUsedmap(u2, bi, map) \in Tables
    BY <1>2, <2>6, <2>9, Stored
  <2> QED BY <2>7, <2>10 DEF u
<1> QED BY <1>3, <1>4

----------------------------------------------------------------------------
(* mlk_shrhash_find_bucket.                                                *)

\* A table with a bucket.
Slots(n) == [t : Tables, fi : 0 .. n - 1]

\* Its fields.
LEMMA SlotType ==
    ASSUME NEW n, NEW s \in Slots(n)
    PROVE  s.t \in Tables /\ s.fi \in 0 .. n - 1 /\ s = [t |-> s.t, fi |-> s.fi]
BY DEF Slots

\* What a hop does to s, when it moves the first entry of si.
HopFrom(n, s, si) ==
    LET mi == (si + Min(s.t[si].usedmap)) % n
    IN  /\ Movable(n, s.t, si, s.fi)
        /\ Hop(n, s) = [t |-> Moved(n, s.t, si, mi, s.fi), fi |-> mi]

\* Of the sources there is one farthest from the free bucket.
LEMMA HopIs ==
    ASSUME NEW n \in Sizes, NEW s \in Slots(n), Sources(n, s) # {}
    PROVE  \E si \in 0 .. n - 1 : HopFrom(n, s, si)
<1> DEFINE D(c) == Dist(n, c, s.fi)
           T == {NEIGHBORS - D(c) : c \in Sources(n, s)}
           far == CHOOSE b \in Sources(n, s) : \A c \in Sources(n, s) : D(c) <= D(b)
<1>1. \A c \in Sources(n, s) : c \in 0 .. n - 1 /\ Movable(n, s.t, c, s.fi) /\ D(c) \in 1 .. NEIGHBORS - 1
  BY DEF Sources, Movable
<1>2. NEIGHBORS \in Nat
  BY SizeType
<1>3. Hop(n, s) = [t |-> Moved(n, s.t, far, (far + Min(s.t[far].usedmap)) % n, s.fi),
                   fi |-> (far + Min(s.t[far].usedmap)) % n]
  BY DEF Hop
<1> HIDE DEF D
<1>4. T \in SUBSET Nat /\ T # {}
  BY <1>1, <1>2
<1>5. PICK x \in T : \A y \in T : x <= y
  <2> HIDE DEF T
  <2> QED BY <1>4, LeastNumber
<1>6. PICK b \in Sources(n, s) : x = NEIGHBORS - D(b)
  BY <1>5
<1>7. ASSUME NEW c \in Sources(n, s) PROVE D(c) <= D(b)
  <2>1. NEIGHBORS - D(b) <= NEIGHBORS - D(c)
    BY <1>5, <1>6
  <2>2. D(c) \in Nat /\ D(b) \in Nat
    BY <1>1, <1>2
  <2> QED BY <1>2, <2>1, <2>2
<1>8. far \in Sources(n, s)
  BY <1>7
<1> HIDE DEF far
<1>9. far \in 0 .. n - 1 /\ HopFrom(n, s, far)
  BY <1>1, <1>3, <1>8 DEF HopFrom
<1> QED BY <1>9

\* It comes nearer to the home bucket, whatever is in the table.
LEMMA HopType ==
    ASSUME NEW n \in Sizes, NEW s \in Slots(n), Sources(n, s) # {}, NEW bi \in 0 .. n - 1,
           ~InReach(n, bi, s.fi)
    PROVE  Hop(n, s) \in Slots(n) /\ Dist(n, bi, Hop(n, s).fi) < Dist(n, bi, s.fi)
<1>1. PICK si \in 0 .. n - 1 : HopFrom(n, s, si)
  BY HopIs
<1> DEFINE mi == (si + Min(s.t[si].usedmap)) % n
           fi == s.fi
<1>2. s.t \in Tables /\ fi \in 0 .. n - 1
  BY SlotType
<1>3. Movable(n, s.t, si, fi) /\ Hop(n, s) = [t |-> Moved(n, s.t, si, mi, fi), fi |-> mi]
  BY <1>1 DEF HopFrom
<1>4. n \in Nat /\ n > NEIGHBORS /\ NEIGHBORS \in Nat /\ 0 .. n - 1 \subseteq Buckets
  BY SizeType DEF Buckets
<1>5. /\ mi \in 0 .. n - 1 /\ mi # fi /\ Dist(n, mi, fi) \in 1 .. NEIGHBORS - 1
      /\ Dist(n, si, fi) \in 1 .. NEIGHBORS - 1
  BY <1>2, <1>3, MovableIs
<1> HIDE DEF mi, fi
<1>6. Dist(n, si, fi) \in Nat /\ si \in Buckets /\ mi \in Buckets /\ fi \in Buckets
  BY <1>2, <1>4, <1>5
<1>7. Moved(n, s.t, si, mi, fi) \in Tables
  BY <1>2, <1>5, <1>6, MovedIs
<1>8. Hop(n, s) \in Slots(n) /\ Hop(n, s).fi = mi
  BY <1>3, <1>5, <1>7 DEF Slots
<1>9. ~(Dist(n, bi, fi) < NEIGHBORS)
  BY DEF InReach, fi
<1>10. Dist(n, bi, fi) = (IF fi >= bi THEN fi - bi ELSE n + fi - bi)
  BY <1>2, <1>4, DistIs
<1>11. Dist(n, bi, mi) = (IF mi >= bi THEN mi - bi ELSE n + mi - bi)
  BY <1>4, <1>5, DistIs
<1>12. Dist(n, mi, fi) = (IF fi >= mi THEN fi - mi ELSE n + fi - mi)
  BY <1>2, <1>4, <1>5, DistIs
<1>13. Dist(n, bi, mi) < Dist(n, bi, fi)
  BY <1>2, <1>4, <1>5, <1>9, <1>10, <1>11, <1>12
<1> QED BY <1>8, <1>13 DEF fi

\* The ways mlk_shrhash_find_bucket can end, if what it does stays within P.
FoundIn(n, t, h, P, r) ==
    \/ r = [t |-> t, fi |-> -1]
    \/ \E e \in P : \/ InReach(n, h % n, e.fi) /\ r = e
                    \/ r = [t |-> e.t, fi |-> -1]

\* It ends in one of them.
LEMMA FindBucket ==
    ASSUME NEW n \in Sizes, NEW t \in Tables, NEW h \in Nat, NEW P \in SUBSET Slots(n),
           \A s \in P : Sources(n, s) # {} /\ ~InReach(n, h % n, s.fi) => Hop(n, s) \in P,
           \A fi \in 0 .. n - 1 : t[fi].blk = NoNode => [t |-> t, fi |-> fi] \in P
    PROVE  FoundIn(n, t, h, P, mlk_shrhash_find_bucket(n, t, h))
<1> DEFINE bi == h % n
           S == Slots(n)
           In(s) == InReach(n, bi, s.fi)
           Stops(s) == In(s) \/ Sources(n, s) = {}
           stop == [s \in S |-> Stops(s)]
           out == [s \in S |-> IF In(s) THEN s ELSE [s EXCEPT !.fi = -1]]
           nxt == [s \in S |-> IF Stops(s) THEN s ELSE Hop(n, s)]
           m == [s \in S |-> Dist(n, bi, s.fi)]
           free == {k \in 0 .. n - 1 : t[(bi + k) % n].blk = NoNode}
           hop == CHOOSE f : f = [s \in S |-> IF In(s) THEN s
                                              ELSE IF Sources(n, s) = {} THEN [s EXCEPT !.fi = -1]
                                              ELSE f[Hop(n, s)]]
           r == mlk_shrhash_find_bucket(n, t, h)
<1>1. n \in Nat /\ n > 0 /\ 0 .. n - 1 \subseteq Buckets
  BY SizeType DEF Buckets
<1>2. bi \in 0 .. n - 1
  BY <1>1, HomeType
<1>3. r = IF free = {} THEN [t |-> t, fi |-> -1]
          ELSE hop[[t |-> t, fi |-> (bi + Min(free)) % n]]
  BY DEF mlk_shrhash_find_bucket, Slots
<1> HIDE DEF r, bi, S
<1>4. ASSUME NEW s \in S, ~Stops(s)
      PROVE  Hop(n, s) \in S /\ Dist(n, bi, Hop(n, s).fi) < Dist(n, bi, s.fi)
  BY <1>2, <1>4, HopType DEF S
<1>5. stop \in [S -> BOOLEAN] /\ nxt \in [S -> S]
  <2>1. stop \in [S -> BOOLEAN]
    OBVIOUS
  <2>2. \A s \in S : (IF Stops(s) THEN s ELSE Hop(n, s)) \in S
    BY <1>4
  <2> QED BY <2>1, <2>2
<1>6. m \in [S -> 0 .. n]
  <2>1. ASSUME NEW s \in S PROVE Dist(n, bi, s.fi) \in 0 .. n
    <3>1. s.fi \in 0 .. n - 1
      BY SlotType DEF S
    <3>2. Dist(n, bi, s.fi) \in 0 .. n - 1
      BY <1>1, <1>2, <3>1, DistIs
    <3> QED BY <1>1, <3>2
  <2> QED BY <2>1
<1>7. \A s \in S : ~stop[s] => m[nxt[s]] < m[s]
  <2> SUFFICES ASSUME NEW s \in S, ~stop[s] PROVE m[nxt[s]] < m[s]
    OBVIOUS
  <2>1. nxt[s] = Hop(n, s) /\ ~Stops(s)
    OBVIOUS
  <2>2. Hop(n, s) \in S /\ Dist(n, bi, Hop(n, s).fi) < Dist(n, bi, s.fi)
    BY <1>4, <2>1
  <2> QED BY <2>1, <2>2
<1>8. ASSUME NEW f, NEW s \in S
      PROVE  (IF stop[s] THEN out[s] ELSE f[nxt[s]]) =
             (IF In(s) THEN s ELSE IF Sources(n, s) = {} THEN [s EXCEPT !.fi = -1] ELSE f[Hop(n, s)])
  OBVIOUS
<1>9. Terminates(S, stop, nxt, m, n)
  <2> HIDE DEF stop, nxt, m
  <2> QED BY <1>1, <1>5, <1>6, <1>7 DEF Terminates
<1> HIDE DEF stop, nxt, m, out
<1>10. Loop(S, stop, out, nxt, hop)
  <2> HIDE DEF In
  <2>1. PICK f : Loop(S, stop, out, nxt, f)
    BY <1>9, LoopExists
  <2>2. f = [s \in S |-> IF In(s) THEN s ELSE IF Sources(n, s) = {} THEN [s EXCEPT !.fi = -1]
                         ELSE f[Hop(n, s)]]
    BY <1>8, <2>1 DEF Loop
  <2>3. hop = [s \in S |-> IF In(s) THEN s ELSE IF Sources(n, s) = {} THEN [s EXCEPT !.fi = -1]
                           ELSE hop[Hop(n, s)]]
    BY <2>2
  <2> HIDE DEF hop
  <2>4. \A s \in S : (IF stop[s] THEN out[s] ELSE hop[nxt[s]]) =
                      (IF In(s) THEN s ELSE IF Sources(n, s) = {} THEN [s EXCEPT !.fi = -1]
                       ELSE hop[Hop(n, s)])
    BY <1>8
  <2>5. hop = [s \in S |-> IF stop[s] THEN out[s] ELSE hop[nxt[s]]]
    BY <2>3, <2>4
  <2> QED BY <2>5 DEF Loop
<1> HIDE DEF hop
<1>11. ASSUME free # {} PROVE \E e \in P : stop[e] /\ r = out[e]
  <2> DEFINE fi == (bi + Min(free)) % n
             b == [t |-> t, fi |-> fi]
  <2>1. free \in SUBSET Nat
    BY <1>1
  <2>2. Min(free) \in free
    BY <1>11, <2>1, MinIs
  <2>3. Min(free) \in 0 .. n - 1 /\ t[fi].blk = NoNode
    BY <2>2
  <2>4. fi \in 0 .. n - 1
    BY <1>1, <1>2, <2>3, StepIs
  <2>5. b \in P
    BY <2>3, <2>4
  <2>6. r = hop[b]
    BY <1>3, <1>11
  <2>7. Keeps(P, stop, nxt)
    <3> SUFFICES ASSUME NEW s \in P, ~stop[s] PROVE nxt[s] \in P
      BY DEF Keeps
    <3>1. s \in S
      BY DEF S
    <3>2. ~Stops(s) /\ nxt[s] = Hop(n, s)
      BY <3>1 DEF stop, nxt
    <3>3. Sources(n, s) # {} /\ ~InReach(n, h % n, s.fi)
      BY <3>2 DEF bi
    <3> QED BY <3>2, <3>3
  <2> HIDE DEF b, free
  <2>8. P \in SUBSET S /\ n \in Nat
    BY <1>1 DEF S
  <2>9. \E e \in P : stop[e] /\ hop[b] = out[e]
    BY <1>9, <1>10, <2>5, <2>7, <2>8, LoopEnds
  <2> QED BY <2>6, <2>9
<1>12. CASE free = {}
  BY <1>3, <1>12 DEF FoundIn, r
<1>13. CASE free # {}
  <2>1. PICK e \in P : stop[e] /\ r = out[e]
    BY <1>11, <1>13
  <2>2. e \in S
    BY DEF S
  <2>3. r = IF In(e) THEN e ELSE [e EXCEPT !.fi = -1]
    BY <2>1, <2>2 DEF out
  <2>4. [e EXCEPT !.fi = -1] = [t |-> e.t, fi |-> -1]
    BY <2>2 DEF S, Slots
  <2>5. \/ InReach(n, h % n, e.fi) /\ r = e
        \/ r = [t |-> e.t, fi |-> -1]
    BY <2>3, <2>4 DEF bi
  <2> QED BY <2>5 DEF FoundIn, r
<1> QED BY <1>12, <1>13

\* The result of mlk_shrhash_find_bucket on any table.
FoundType(n, r) == r.t \in Tables /\ (r.fi = -1 \/ r.fi \in 0 .. n - 1)

\* It is a table, with a bucket or without.
LEMMA FindType ==
    ASSUME NEW n \in Sizes, NEW t \in Tables, NEW h \in Nat
    PROVE  FoundType(n, mlk_shrhash_find_bucket(n, t, h))
<1> DEFINE r == mlk_shrhash_find_bucket(n, t, h)
           P == Slots(n)
<1>1. n \in Nat /\ n > 0
  BY SizeType
<1>2. h % n \in 0 .. n - 1
  BY <1>1, HomeType
<1>3. \A s \in P : Sources(n, s) # {} /\ ~InReach(n, h % n, s.fi) => Hop(n, s) \in P
  BY <1>2, HopType
<1>4. \A fi \in 0 .. n - 1 : t[fi].blk = NoNode => [t |-> t, fi |-> fi] \in P
  BY DEF Slots
<1>5. P \in SUBSET Slots(n)
  OBVIOUS
<1> HIDE DEF P
<1>6. FoundIn(n, t, h, P, r)
  BY <1>3, <1>4, <1>5, FindBucket
<1> HIDE DEF r
<1>7. ASSUME r = [t |-> t, fi |-> -1] PROVE FoundType(n, r)
  <2>1. r.t = t /\ r.fi = -1
    BY <1>7
  <2> QED BY <2>1 DEF FoundType
<1>8. ASSUME NEW e \in P, InReach(n, h % n, e.fi) /\ r = e PROVE FoundType(n, r)
  <2>1. e.t \in Tables /\ e.fi \in 0 .. n - 1
    BY SlotType DEF P
  <2> QED BY <1>8, <2>1 DEF FoundType
<1>9. ASSUME NEW e \in P, r = [t |-> e.t, fi |-> -1] PROVE FoundType(n, r)
  <2>1. e.t \in Tables
    BY SlotType DEF P
  <2>2. r.t = e.t /\ r.fi = -1
    BY <1>9
  <2> QED BY <2>1, <2>2 DEF FoundType
<1>10. FoundType(n, r)
  BY <1>6, <1>7, <1>8, <1>9 DEF FoundIn
<1> QED BY <1>10 DEF r

\* The result on a good table.
FoundGood(n, h, A, g, r) ==
    /\ Good(n, r.t, A, g)
    /\ \/ r.fi = -1
       \/ /\ r.fi \in 0 .. n - 1 /\ r.t[r.fi].blk = NoNode
          /\ InReach(n, h % n, r.fi)

\* It is good too, whether or not a bucket was found: nothing was lost by the moves.
LEMMA FindGood ==
    ASSUME NEW n \in Sizes, NEW A, NEW g, NEW t, Good(n, t, A, g), NoNode \notin A, NEW h \in Nat
    PROVE  FoundGood(n, h, A, g, mlk_shrhash_find_bucket(n, t, h))
<1> DEFINE r == mlk_shrhash_find_bucket(n, t, h)
           P == {s \in Slots(n) : Good(n, s.t, A, g) /\ s.t[s.fi].blk = NoNode}
<1>1. n \in Nat /\ n > 0 /\ t \in Tables
  BY SizeType DEF Good
<1>2. h % n \in 0 .. n - 1
  BY <1>1, HomeType
<1>3. ASSUME NEW s \in P, Sources(n, s) # {}, ~InReach(n, h % n, s.fi) PROVE Hop(n, s) \in P
  <2>1. s \in Slots(n) /\ Good(n, s.t, A, g) /\ s.t[s.fi].blk = NoNode
    OBVIOUS
  <2>2. Hop(n, s) \in Slots(n)
    BY <1>2, <1>3, <2>1, HopType
  <2>3. PICK si \in 0 .. n - 1 : HopFrom(n, s, si)
    BY <1>3, <2>1, HopIs
  <2> DEFINE mi == (si + Min(s.t[si].usedmap)) % n
             u == Moved(n, s.t, si, mi, s.fi)
  <2>4. Movable(n, s.t, si, s.fi) /\ Hop(n, s) = [t |-> u, fi |-> mi]
    BY <2>3 DEF HopFrom
  <2>5. s.fi \in 0 .. n - 1
    BY <2>1, SlotType
  <2>6. Good(n, u, A, g) /\ u[mi].blk = NoNode
    <3>1. mi = (si + Min(s.t[si].usedmap)) % n
      OBVIOUS
    <3> HIDE DEF mi
    <3> QED BY <2>1, <2>4, <2>5, <3>1, GoodMoved
  <2> HIDE DEF mi, u
  <2>7. Hop(n, s).t = u /\ Hop(n, s).fi = mi
    BY <2>4
  <2> QED BY <2>2, <2>6, <2>7
<1>4. \A fi \in 0 .. n - 1 : t[fi].blk = NoNode => [t |-> t, fi |-> fi] \in P
  BY <1>1 DEF Slots
<1>5. P \in SUBSET Slots(n)
  OBVIOUS
<1>6. \A e \in P : e \in Slots(n) /\ Good(n, e.t, A, g) /\ e.t[e.fi].blk = NoNode
  OBVIOUS
<1> HIDE DEF P
<1>7. FoundIn(n, t, h, P, r)
  BY <1>1, <1>3, <1>4, <1>5, FindBucket
<1> HIDE DEF r
<1>8. ASSUME r = [t |-> t, fi |-> -1] PROVE FoundGood(n, h, A, g, r)
  <2>1. r.t = t /\ r.fi = -1
    BY <1>8
  <2> QED BY <2>1 DEF FoundGood
<1>9. ASSUME NEW e \in P, InReach(n, h % n, e.fi) /\ r = e PROVE FoundGood(n, h, A, g, r)
  <2>1. e.fi \in 0 .. n - 1
    BY <1>6, SlotType
  <2> QED BY <1>6, <1>9, <2>1 DEF FoundGood
<1>10. ASSUME NEW e \in P, r = [t |-> e.t, fi |-> -1] PROVE FoundGood(n, h, A, g, r)
  <2>1. r.t = e.t /\ r.fi = -1
    BY <1>10
  <2> QED BY <1>6, <2>1 DEF FoundGood
<1>11. FoundGood(n, h, A, g, r)
  BY <1>7, <1>8, <1>9, <1>10 DEF FoundIn
<1> QED BY <1>11 DEF r

\* Adding to any table yields a table.
LEMMA AddType ==
    ASSUME NEW n \in Sizes, NEW t \in Tables, NEW blk \in Nodes, NEW h \in Nat
    PROVE  /\ mlk_shrhash_add(n, t, blk, h).t \in Tables
           /\ mlk_shrhash_add(n, t, blk, h).ok \in BOOLEAN
<1> DEFINE r == mlk_shrhash_find_bucket(n, t, h)
           bi == h % n
<1>1. n \in Nat /\ n > 0 /\ 0 .. n - 1 \subseteq Buckets
  BY SizeType DEF Buckets
<1>2. bi \in 0 .. n - 1
  BY <1>1, HomeType
<1>3. FoundType(n, r)
  BY FindType
<1>4. mlk_shrhash_add(n, t, blk, h) =
        IF r.fi = -1 THEN [t |-> r.t, ok |-> FALSE]
        ELSE [t |-> mlk_shrhash_insert(n, r.t, bi, r.fi, blk, h), ok |-> TRUE]
  BY DEF mlk_shrhash_add, AddFound
<1> HIDE DEF r, bi
<1>5. CASE r.fi = -1
  BY <1>3, <1>4, <1>5 DEF FoundType
<1>6. CASE r.fi # -1
  <2>1. r.t \in Tables /\ r.fi \in 0 .. n - 1
    BY <1>3, <1>6 DEF FoundType
  <2>2. Dist(n, bi, r.fi) \in Nat /\ bi \in Buckets /\ r.fi \in Buckets
    <3>1. Dist(n, bi, r.fi) \in 0 .. n - 1
      BY <1>1, <1>2, <2>1, DistIs
    <3> QED BY <1>1, <1>2, <2>1, <3>1
  <2>3. mlk_shrhash_insert(n, r.t, bi, r.fi, blk, h) \in Tables
    BY <2>1, <2>2, InsertIs
  <2> QED BY <1>4, <1>6, <2>3
<1> QED BY <1>5, <1>6

\* A new node is added to a good table, or there is no room for it and all the
\* others are still there.
LEMMA AddGood ==
    ASSUME NEW n \in Sizes, NEW A, NEW g, NEW t, Good(n, t, A, g), NoNode \notin A,
           NEW blk \in Nodes \ A, NEW h \in Nat, g[blk] = h
    PROVE  Good(n, mlk_shrhash_add(n, t, blk, h).t,
                IF mlk_shrhash_add(n, t, blk, h).ok THEN A \union {blk} ELSE A, g)
<1> DEFINE r == mlk_shrhash_find_bucket(n, t, h)
           a == mlk_shrhash_add(n, t, blk, h)
<1>1. FoundGood(n, h, A, g, r)
  BY FindGood
<1>2. a = IF r.fi = -1 THEN [t |-> r.t, ok |-> FALSE]
          ELSE [t |-> mlk_shrhash_insert(n, r.t, h % n, r.fi, blk, h), ok |-> TRUE]
  BY DEF mlk_shrhash_add, AddFound
<1> HIDE DEF r, a
<1>3. CASE r.fi = -1
  <2>1. a.t = r.t /\ a.ok = FALSE
    BY <1>2, <1>3
  <2>2. Good(n, r.t, A, g)
    BY <1>1 DEF FoundGood
  <2> QED BY <2>1, <2>2 DEF a
<1>4. CASE r.fi # -1
  <2> DEFINE u == mlk_shrhash_insert(n, r.t, h % n, r.fi, blk, h)
             fi == r.fi
             rt == r.t
  <2>1. a.t = u /\ a.ok = TRUE
    BY <1>2, <1>4
  <2>2. Good(n, rt, A, g) /\ fi \in 0 .. n - 1 /\ rt[fi].blk = NoNode /\ InReach(n, h % n, fi)
    BY <1>1, <1>4 DEF FoundGood
  <2>3. u = mlk_shrhash_insert(n, rt, h % n, fi, blk, h)
    OBVIOUS
  <2> HIDE DEF u, fi, rt
  <2>4. Good(n, u, A \union {blk}, g)
    BY <2>2, <2>3, GoodInsert
  <2> QED BY <2>1, <2>4 DEF a
<1> QED BY <1>3, <1>4

\* The new table (mlk_shr_init, mlk_shrhash_resize) is good.
LEMMA GoodEmpty == ASSUME NEW n \in Sizes, NEW g PROVE Good(n, EmptyTable, {}, g)
<1>1. 0 .. n - 1 \subseteq Buckets
  BY SizeType DEF Buckets
<1>2. EmptyTable \in Tables
  BY DEF EmptyTable, EmptyBucket, Tables
<1>3. \A b \in Buckets : EmptyTable[b].usedmap = {} /\ EmptyTable[b].blk = NoNode
  BY DEF EmptyTable, EmptyBucket, Buckets
<1> QED BY <1>1, <1>2, <1>3 DEF Good

\* The states of the loop that adds the pairs of s.
AddState(s) == [t : Tables, ok : BOOLEAN, i : 1 .. Len(s) + 1]
AddStart == [t |-> EmptyTable, ok |-> TRUE, i |-> 1]
AddStops(s, r) == ~r.ok \/ r.i > Len(s)

\* A state of the loop.
LEMMA AddStateType ==
    ASSUME NEW s, NEW r \in AddState(s)
    PROVE  r.t \in Tables /\ r.ok \in BOOLEAN /\ r.i \in 1 .. Len(s) + 1
BY DEF AddState

\* One round.
LEMMA AddNextIs ==
    ASSUME NEW n, NEW s, NEW r
    PROVE  /\ AddNext(n, s, r).t = mlk_shrhash_add(n, r.t, s[r.i][1], s[r.i][2]).t
           /\ AddNext(n, s, r).ok = mlk_shrhash_add(n, r.t, s[r.i][1], s[r.i][2]).ok
           /\ AddNext(n, s, r).i = r.i + 1
           /\ AddNext(n, s, r) = [t |-> AddNext(n, s, r).t, ok |-> AddNext(n, s, r).ok,
                                  i |-> AddNext(n, s, r).i]
BY DEF AddNext

\* A round ends in a state of the loop.
LEMMA AddNextType ==
    ASSUME NEW n \in Sizes, NEW s \in Seq(Nodes \X Nat), NEW r \in AddState(s), ~AddStops(s, r)
    PROVE  AddNext(n, s, r) \in AddState(s)
<1>1. r.t \in Tables /\ r.ok \in BOOLEAN /\ r.i \in 1 .. Len(s) + 1 /\ Len(s) \in Nat
  BY AddStateType
<1>2. r.i \in 1 .. Len(s)
  BY <1>1 DEF AddStops
<1>3. s[r.i] \in Nodes \X Nat
  BY <1>2
<1>4. s[r.i][1] \in Nodes /\ s[r.i][2] \in Nat
  BY <1>3
<1> DEFINE t == r.t
           d == s[r.i][1]
           h == s[r.i][2]
           a == AddNext(n, s, r)
<1>5. a.t = mlk_shrhash_add(n, t, d, h).t /\ a.ok = mlk_shrhash_add(n, t, d, h).ok /\ a.i = r.i + 1
      /\ a = [t |-> a.t, ok |-> a.ok, i |-> a.i]
  BY AddNextIs
<1>6. t \in Tables /\ d \in Nodes /\ h \in Nat
  BY <1>1, <1>4
<1> HIDE DEF t, d, h, a
<1>7. a.t \in Tables /\ a.ok \in BOOLEAN
  BY <1>5, <1>6, AddType
<1>8. a.i \in 1 .. Len(s) + 1
  BY <1>1, <1>2, <1>5
<1>9. a \in AddState(s)
  BY <1>5, <1>7, <1>8 DEF AddState
<1> QED BY <1>9 DEF a

\* What holds at the beginning and is kept by every round holds of the result.
LEMMA AddAllEnds ==
    ASSUME NEW n \in Sizes, NEW s \in Seq(Nodes \X Nat), NEW P \in SUBSET AddState(s),
           AddStart \in P,
           \A r \in P : ~AddStops(s, r) => AddNext(n, s, r) \in P
    PROVE  AddAll(n, s) \in P /\ AddStops(s, AddAll(n, s))
<1> DEFINE S == AddState(s)
           stop == [r \in S |-> AddStops(s, r)]
           out == [r \in S |-> r]
           nxt == [r \in S |-> IF AddStops(s, r) THEN r ELSE AddNext(n, s, r)]
           m == [r \in S |-> Len(s) + 1 - r.i]
           K == Len(s) + 1
           add == CHOOSE f : f = [r \in S |-> IF AddStops(s, r) THEN r ELSE f[AddNext(n, s, r)]]
<1>1. AddAll(n, s) = add[AddStart]
  BY DEF AddAll, AddState, AddStart, AddStops
<1>2. Len(s) \in Nat
  OBVIOUS
<1> HIDE DEF S
<1>3. stop \in [S -> BOOLEAN]
  BY DEF AddStops
<1>4. nxt \in [S -> S]
  BY AddNextType DEF S
<1>5. m \in [S -> 0 .. K]
  <2>1. \A r \in S : Len(s) + 1 - r.i \in 0 .. K
    BY <1>2, AddStateType DEF S
  <2> QED BY <2>1
<1>6. \A r \in S : ~stop[r] => m[nxt[r]] < m[r]
  <2> SUFFICES ASSUME NEW r \in S, ~stop[r] PROVE m[nxt[r]] < m[r]
    OBVIOUS
  <2>1. ~AddStops(s, r) /\ nxt[r] = AddNext(n, s, r) /\ nxt[r] \in S
    BY <1>4
  <2>2. AddNext(n, s, r).i = r.i + 1 /\ r.i \in Nat
    BY AddNextIs, AddStateType DEF S
  <2> QED BY <1>2, <2>1, <2>2
<1>7. Terminates(S, stop, nxt, m, K)
  <2> HIDE DEF stop, nxt, m
  <2> QED BY <1>2, <1>3, <1>4, <1>5, <1>6 DEF Terminates
<1>8. ASSUME NEW f, NEW r \in S
      PROVE  (IF stop[r] THEN out[r] ELSE f[nxt[r]]) =
             (IF AddStops(s, r) THEN r ELSE f[AddNext(n, s, r)])
  OBVIOUS
<1>9. P \in SUBSET S /\ \A r \in P : stop[r] = AddStops(s, r) /\ out[r] = r /\ (~stop[r] => nxt[r] = AddNext(n, s, r))
  BY DEF S
<1> HIDE DEF stop, nxt, m, out, K
<1>10. Loop(S, stop, out, nxt, add)
  <2>1. PICK f : Loop(S, stop, out, nxt, f)
    BY <1>7, LoopExists
  <2>2. f = [r \in S |-> IF AddStops(s, r) THEN r ELSE f[AddNext(n, s, r)]]
    BY <1>8, <2>1 DEF Loop
  <2>3. add = [r \in S |-> IF AddStops(s, r) THEN r ELSE add[AddNext(n, s, r)]]
    BY <2>2
  <2> HIDE DEF add
  <2>4. \A r \in S : (IF stop[r] THEN out[r] ELSE add[nxt[r]]) =
                      (IF AddStops(s, r) THEN r ELSE add[AddNext(n, s, r)])
    BY <1>8
  <2>5. add = [r \in S |-> IF stop[r] THEN out[r] ELSE add[nxt[r]]]
    BY <2>3, <2>4
  <2> QED BY <2>5 DEF Loop
<1> HIDE DEF add
<1>11. Keeps(P, stop, nxt)
  BY <1>9 DEF Keeps
<1>12. \E e \in P : stop[e] /\ add[AddStart] = out[e]
  BY <1>7, <1>9, <1>10, <1>11, LoopEnds
<1> QED BY <1>1, <1>9, <1>12

\* The nodes of the first k pairs.
FirstNodes(s, k) == {s[j][1] : j \in 1 .. k}

\* If there was room for all the pairs, they are all in the table.
LEMMA AddAllGood ==
    ASSUME NEW n \in Sizes, NEW s \in Seq(Nodes \X Nat), NEW g,
           \A j \in 1 .. Len(s) : s[j][2] = g[s[j][1]],
           \A j, k \in 1 .. Len(s) : s[j][1] = s[k][1] => j = k
    PROVE  /\ AddAll(n, s).ok \in BOOLEAN
           /\ AddAll(n, s).ok => Good(n, AddAll(n, s).t, FirstNodes(s, Len(s)), g)
<1> DEFINE P == {r \in AddState(s) : r.ok => Good(n, r.t, FirstNodes(s, r.i - 1), g)}
           a == AddAll(n, s)
<1>0. Len(s) \in Nat
  OBVIOUS
<1>1. AddStart \in P
  <2>1. AddStart.t = EmptyTable /\ AddStart.ok = TRUE /\ AddStart.i = 1
    BY DEF AddStart
  <2>2. FirstNodes(s, AddStart.i - 1) = {}
    BY <2>1 DEF FirstNodes
  <2>3. Good(n, EmptyTable, {}, g)
    BY GoodEmpty
  <2>4. EmptyTable \in Tables
    BY <2>3 DEF Good
  <2>5. AddStart \in AddState(s)
    BY <1>0, <2>4 DEF AddStart, AddState
  <2> QED BY <2>1, <2>2, <2>3, <2>5
<1>2. ASSUME NEW r \in P, ~AddStops(s, r) PROVE AddNext(n, s, r) \in P
  <2> DEFINE A == FirstNodes(s, r.i - 1)
             t == r.t
             d == s[r.i][1]
             h == s[r.i][2]
             b == AddNext(n, s, r)
  <2>1. r \in AddState(s) /\ (r.ok => Good(n, r.t, A, g))
    OBVIOUS
  <2>2. r.t \in Tables /\ r.i \in 1 .. Len(s)
    BY <1>0, <1>2, <2>1, AddStateType DEF AddStops
  <2>3. s[r.i] \in Nodes \X Nat
    BY <2>2
  <2>4. d \in Nodes /\ h \in Nat /\ h = g[d]
    BY <2>2, <2>3
  <2>5. Good(n, t, A, g)
    BY <1>2, <2>1 DEF AddStops
  <2>6. d \notin A
    <3> SUFFICES ASSUME NEW j \in 1 .. r.i - 1, s[j][1] = d PROVE FALSE
      BY DEF FirstNodes
    <3>1. j \in 1 .. Len(s) /\ j # r.i
      BY <1>0, <2>2
    <3> QED BY <2>2, <3>1
  <2>7. NoNode \notin A
    <3>1. \A j \in 1 .. Len(s) : s[j] \in Nodes \X Nat
      OBVIOUS
    <3>2. A \subseteq Nodes
      BY <1>0, <2>2, <3>1 DEF FirstNodes
    <3> QED BY <3>2, NoNodeIs
  <2>8. b.t = mlk_shrhash_add(n, t, d, h).t /\ b.ok = mlk_shrhash_add(n, t, d, h).ok /\ b.i = r.i + 1
    BY AddNextIs
  <2>9. b \in AddState(s)
    BY <1>2, <2>1, AddNextType
  <2>10. FirstNodes(s, r.i) = A \union {d}
    <3>1. 1 .. r.i = (1 .. r.i - 1) \union {r.i}
      BY <2>2
    <3> QED BY <3>1 DEF FirstNodes
  <2>11. b.i - 1 = r.i
    BY <2>2, <2>8
  <2> HIDE DEF A, t, d, h, b
  <2>12. Good(n, mlk_shrhash_add(n, t, d, h).t,
              IF mlk_shrhash_add(n, t, d, h).ok THEN A \union {d} ELSE A, g)
    BY <2>4, <2>5, <2>6, <2>7, AddGood
  <2>13. b.ok => Good(n, b.t, FirstNodes(s, b.i - 1), g)
    BY <2>8, <2>10, <2>11, <2>12
  <2>14. b \in P
    BY <2>9, <2>13
  <2> QED BY <2>14 DEF b
<1>3. P \in SUBSET AddState(s)
  OBVIOUS
<1>4. \A r \in P : r \in AddState(s) /\ (r.ok => Good(n, r.t, FirstNodes(s, r.i - 1), g))
  OBVIOUS
<1> HIDE DEF P
<1>5. a \in P /\ AddStops(s, a)
  BY <1>1, <1>2, <1>3, AddAllEnds
<1> HIDE DEF a
<1>6. a.ok \in BOOLEAN /\ a.i \in 1 .. Len(s) + 1
  BY <1>4, <1>5, AddStateType
<1>7. a.ok => a.i - 1 = Len(s)
  BY <1>0, <1>5, <1>6 DEF AddStops
<1>8. a.ok \in BOOLEAN /\ (a.ok => Good(n, a.t, FirstNodes(s, Len(s)), g))
  BY <1>4, <1>5, <1>6, <1>7
<1> QED BY <1>8 DEF a

\* The states of the loop that deletes the nodes of D, and one round of it.
DelState(D) == [t : Tables, D : SUBSET D]
DelNext(n, r) ==
    LET d == CHOOSE x \in r.D : TRUE
    IN  [t |-> mlk_shrhash_delete(n, r.t, d, hash[d]), D |-> r.D \ {d}]

\* One round.
LEMMA DelNextIs ==
    ASSUME NEW n, NEW D, NEW r \in DelState(D), r.D # {}
    PROVE  \E d \in r.D : /\ DelNext(n, r).t = mlk_shrhash_delete(n, r.t, d, hash[d])
                          /\ DelNext(n, r).D = r.D \ {d}
                          /\ DelNext(n, r) = [t |-> DelNext(n, r).t, D |-> DelNext(n, r).D]
<1> DEFINE d == CHOOSE x \in r.D : TRUE
           u == mlk_shrhash_delete(n, r.t, d, hash[d])
           b == DelNext(n, r)
<1>1. d \in r.D
  OBVIOUS
<1>2. b = [t |-> u, D |-> r.D \ {d}]
  BY DEF DelNext
<1>3. u = mlk_shrhash_delete(n, r.t, d, hash[d])
  OBVIOUS
<1> HIDE DEF d, u, b
<1>4. b.t = u /\ b.D = r.D \ {d} /\ b = [t |-> b.t, D |-> b.D]
  BY <1>2
<1> QED BY <1>1, <1>3, <1>4 DEF b

\* A round ends in a state of the loop, with fewer nodes to go.
LEMMA DelNextType ==
    ASSUME NEW n \in Sizes, NEW D \in SUBSET Nodes, IsFiniteSet(D), hash \in [Nodes -> Nat],
           NEW r \in DelState(D), r.D # {}
    PROVE  /\ DelNext(n, r) \in DelState(D)
           /\ Cardinality(r.D) \in Nat
           /\ Cardinality(DelNext(n, r).D) = Cardinality(r.D) - 1
<1>1. r.t \in Tables /\ r.D \in SUBSET D
  BY DEF DelState
<1> DEFINE b == DelNext(n, r)
           t == r.t
           E == r.D
<1>2. PICK d \in E : /\ b.t = mlk_shrhash_delete(n, t, d, hash[d])
                     /\ b.D = E \ {d} /\ b = [t |-> b.t, D |-> b.D]
  BY DelNextIs
<1>3. t \in Tables /\ E \in SUBSET D /\ d \in Nodes
  BY <1>1
<1> HIDE DEF b, t, E
<1>4. hash[d] \in Nat
  BY <1>3
<1>5. b.t \in Tables
  BY <1>2, <1>3, <1>4, DeleteType
<1>6. b \in DelState(D)
  BY <1>2, <1>3, <1>5 DEF DelState
<1>7. IsFiniteSet(E)
  BY <1>3, FS_Subset
<1>8. Cardinality(E) \in Nat /\ Cardinality(E \ {d}) = Cardinality(E) - 1
  BY <1>7, FS_CardinalityType, FS_RemoveElement
<1> QED BY <1>2, <1>6, <1>8 DEF b, E

\* The nodes of D are gone from the table, and all the others are still there.
LEMMA DeleteAllGood ==
    ASSUME NEW n \in Sizes, NEW A \in SUBSET Nodes, NEW g \in [Nodes -> Nat], NEW t,
           Good(n, t, A, g), NEW D \in SUBSET A, IsFiniteSet(D), hash \in [Nodes -> Nat],
           \A d \in D : hash[d] = g[d]
    PROVE  Good(n, DeleteAll(n, t, D), A \ D, g)
<1> DEFINE S == DelState(D)
           stop == [r \in S |-> r.D = {}]
           out == [r \in S |-> r.t]
           nxt == [r \in S |-> IF r.D = {} THEN r ELSE DelNext(n, r)]
           m == [r \in S |-> Cardinality(r.D)]
           K == Cardinality(D)
           start == [t |-> t, D |-> D]
           del == CHOOSE f : f = [r \in S |-> IF r.D = {} THEN r.t ELSE f[DelNext(n, r)]]
           P == {r \in S : Good(n, r.t, A \ (D \ r.D), g)}
<1>1. DeleteAll(n, t, D) = del[start]
  BY DEF DeleteAll, DelState, DelNext
<1>2. t \in Tables /\ D \in SUBSET Nodes /\ K \in Nat
  BY FS_CardinalityType DEF Good
<1> HIDE DEF S
<1>3. stop \in [S -> BOOLEAN]
  OBVIOUS
<1>4. nxt \in [S -> S]
  <2>1. \A r \in S : r.D # {} => DelNext(n, r) \in S
    BY <1>2, DelNextType DEF S
  <2> QED BY <2>1
<1>5. m \in [S -> 0 .. K]
  <2>1. ASSUME NEW r \in S PROVE Cardinality(r.D) \in 0 .. K
    <3>1. r.D \in SUBSET D
      BY DEF S, DelState
    <3>2. IsFiniteSet(r.D) /\ Cardinality(r.D) <= K
      BY <3>1, FS_Subset
    <3>3. Cardinality(r.D) \in Nat
      BY <3>2, FS_CardinalityType
    <3> HIDE DEF K
    <3> QED BY <1>2, <3>2, <3>3
  <2> QED BY <2>1
<1>6. \A r \in S : ~stop[r] => m[nxt[r]] < m[r]
  <2> SUFFICES ASSUME NEW r \in S, ~stop[r] PROVE m[nxt[r]] < m[r]
    OBVIOUS
  <2>1. r.D # {} /\ nxt[r] = DelNext(n, r) /\ nxt[r] \in S
    BY <1>4
  <2>2. Cardinality(r.D) \in Nat /\ Cardinality(DelNext(n, r).D) = Cardinality(r.D) - 1
    BY <1>2, <2>1, DelNextType DEF S
  <2> QED BY <2>1, <2>2
<1>7. Terminates(S, stop, nxt, m, K)
  <2> HIDE DEF stop, nxt, m, K
  <2> QED BY <1>2, <1>3, <1>4, <1>5, <1>6 DEF Terminates
<1>8. ASSUME NEW f, NEW r \in S
      PROVE  (IF stop[r] THEN out[r] ELSE f[nxt[r]]) =
             (IF r.D = {} THEN r.t ELSE f[DelNext(n, r)])
  OBVIOUS
<1>9. \A r \in S : /\ stop[r] <=> r.D = {}
                   /\ out[r] = r.t
                   /\ ~stop[r] => nxt[r] = DelNext(n, r) /\ nxt[r] \in S
  BY <1>4
<1> HIDE DEF stop, nxt, m, out, K
<1>10. Loop(S, stop, out, nxt, del)
  <2>1. PICK f : Loop(S, stop, out, nxt, f)
    BY <1>7, LoopExists
  <2>2. f = [r \in S |-> IF r.D = {} THEN r.t ELSE f[DelNext(n, r)]]
    BY <1>8, <2>1 DEF Loop
  <2>3. del = [r \in S |-> IF r.D = {} THEN r.t ELSE del[DelNext(n, r)]]
    BY <2>2
  <2> HIDE DEF del
  <2>4. \A r \in S : (IF stop[r] THEN out[r] ELSE del[nxt[r]]) =
                      (IF r.D = {} THEN r.t ELSE del[DelNext(n, r)])
    BY <1>8
  <2>5. del = [r \in S |-> IF stop[r] THEN out[r] ELSE del[nxt[r]]]
    BY <2>3, <2>4
  <2> QED BY <2>5 DEF Loop
<1> HIDE DEF del
<1>11. ASSUME NEW r \in P, ~stop[r] PROVE nxt[r] \in P
  <2> DEFINE u == r.t
             E == r.D
             b == nxt[r]
             B == A \ (D \ E)
  <2>1. r \in S /\ Good(n, u, B, g)
    OBVIOUS
  <2>2. u \in Tables /\ E \in SUBSET D /\ E # {}
    BY <1>9, <1>11, <2>1 DEF S, DelState
  <2>3. PICK d \in E : b.t = mlk_shrhash_delete(n, u, d, hash[d]) /\ b.D = E \ {d}
    BY <1>9, <1>11, <2>1, <2>2, DelNextIs DEF S
  <2>4. b \in S
    BY <1>9, <1>11, <2>1
  <2>5. d \in B /\ hash[d] = g[d] /\ B \in SUBSET Nodes
    BY <2>2
  <2>6. B \ {d} = A \ (D \ (E \ {d}))
    BY <2>2
  <2> HIDE DEF u, E, b, B
  <2>7. Good(n, mlk_shrhash_delete(n, u, d, g[d]), B \ {d}, g)
    BY <2>1, <2>5, GoodDelete
  <2>8. Good(n, b.t, A \ (D \ b.D), g)
    BY <2>3, <2>5, <2>6, <2>7
  <2>9. b \in P
    BY <2>4, <2>8
  <2> QED BY <2>9 DEF b
<1>12. start \in P
  <2>1. start \in S
    BY <1>2 DEF S, DelState
  <2>2. start.t = t /\ A \ (D \ start.D) = A
    OBVIOUS
  <2> QED BY <2>1, <2>2
<1>13. Keeps(P, stop, nxt)
  BY <1>11 DEF Keeps
<1>14. P \in SUBSET S
  OBVIOUS
<1>15. \A e \in P : e \in S /\ Good(n, e.t, A \ (D \ e.D), g)
  OBVIOUS
<1> HIDE DEF P, start
<1>16. PICK e \in P : stop[e] /\ del[start] = out[e]
  BY <1>7, <1>10, <1>12, <1>13, <1>14, LoopEnds
<1>17. e.D = {} /\ del[start] = e.t /\ A \ (D \ e.D) = A \ D
  BY <1>9, <1>15, <1>16
<1>18. Good(n, e.t, A \ D, g)
  BY <1>15, <1>17
<1> QED BY <1>1, <1>17, <1>18

----------------------------------------------------------------------------
(* The tree.                                                               *)

\* What can be listed once each.
OneToOne(s) == \A i, j \in DOMAIN s : s[i] = s[j] => i = j

\* The nodes that are left, in the order they were in.
LEMMA OthersIs ==
    ASSUME NEW D, blocks \in Seq(Nodes), OneToOne(blocks)
    PROVE  Others(D) \in Seq(Nodes) /\ OneToOne(Others(D)) /\ Range(Others(D)) = Range(blocks) \ D
<1> DEFINE K == {i \in DOMAIN blocks : blocks[i] \notin D}
           at == Ranked(K, Less(K))
           c == Cardinality(K)
           o == Others(D)
<1>1. Len(blocks) \in Nat /\ DOMAIN blocks = 1 .. Len(blocks)
  OBVIOUS
<1>2. K \in SUBSET Int /\ K \in SUBSET (1 .. Len(blocks))
  BY <1>1
<1>3. IsFiniteSet(1 .. Len(blocks))
  BY <1>1, FS_Interval
<1>4. IsFiniteSet(K)
  BY <1>2, <1>3, FS_Subset
<1>5. o = [j \in DOMAIN at |-> blocks[at[j]]]
  BY DEF Others
<1>6. \A i \in K : i \in DOMAIN blocks /\ blocks[i] \in Nodes /\ blocks[i] \notin D
  BY <1>1
<1>7. \A i \in DOMAIN blocks : blocks[i] \notin D => i \in K
  OBVIOUS
<1> HIDE DEF K
<1>8. /\ c \in Nat /\ at \in [1 .. c -> K]
      /\ \A i, j \in 1 .. c : at[i] = at[j] => i = j
      /\ \A x \in K : \E i \in 1 .. c : at[i] = x
  BY <1>2, <1>4, RankedLess
<1> HIDE DEF at, o, c
<1>9. DOMAIN o = 1 .. c /\ \A j \in 1 .. c : at[j] \in K /\ o[j] = blocks[at[j]]
  BY <1>5, <1>8
<1>10. o \in Seq(Nodes)
  <2>1. \A j \in 1 .. c : blocks[at[j]] \in Nodes
    BY <1>6, <1>9
  <2>2. o = [j \in 1 .. c |-> blocks[at[j]]]
    BY <1>5, <1>8
  <2>3. o \in [1 .. c -> Nodes]
    BY <2>1, <2>2
  <2> QED BY <1>8, <2>3
<1>11. OneToOne(o)
  BY <1>6, <1>8, <1>9 DEF OneToOne
<1>12. Range(o) = Range(blocks) \ D
  <2>1. ASSUME NEW x \in Range(o) PROVE x \in Range(blocks) \ D
    BY <1>6, <1>9 DEF Range
  <2>2. ASSUME NEW x \in Range(blocks) \ D PROVE x \in Range(o)
    <3>1. PICK i \in DOMAIN blocks : blocks[i] = x
      BY DEF Range
    <3>2. PICK j \in 1 .. c : at[j] = i
      BY <1>7, <1>8, <3>1
    <3> QED BY <1>9, <3>1, <3>2 DEF Range
  <2> QED BY <2>1, <2>2
<1> QED BY <1>10, <1>11, <1>12 DEF o

\* A path.
LEMMA PathIs ==
    ASSUME NEW n \in Nodes
    PROVE  /\ Path[n] \in Seq(Nodes) /\ Len(Path[n]) \in Nat /\ Len(Path[n]) > 0
           /\ DOMAIN Path[n] = 1 .. Len(Path[n])
           /\ Path[n][Len(Path[n])] = n
           /\ \A i \in 1 .. Len(Path[n]) : Path[n][i] \in Nodes
<1>1. Path[n] \in Seq(Nodes) /\ Path[n] # << >> /\ Path[n][Len(Path[n])] = n
  BY MlkHashAssumption
<1> QED BY <1>1

\* The path to a node on a path is the beginning of that path.
LEMMA PathBegins ==
    ASSUME NEW n \in Nodes, NEW i \in 1 .. Len(Path[n])
    PROVE  /\ Len(Path[Path[n][i]]) = i
           /\ \A j \in 1 .. i : Path[Path[n][i]][j] = Path[n][j]
<1> DEFINE q == Path[n]
           b == Path[q[i]]
<1>1. q \in Seq(Nodes) /\ Len(q) \in Nat /\ DOMAIN q = 1 .. Len(q)
  BY PathIs
<1>2. \A k \in DOMAIN q : Path[q[k]] = SubSeq(q, 1, k)
  BY MlkHashAssumption
<1>3. b = SubSeq(q, 1, i) /\ i \in 1 .. Len(q)
  BY <1>1, <1>2
<1> HIDE DEF q, b
<1>4. Len(b) = i /\ \A j \in 1 .. i : b[j] = q[j]
  BY <1>1, <1>3
<1> QED BY <1>4 DEF b, q

\* A node is in one place of all the paths it is on, after the same nodes.
LEMMA PathsMeet ==
    ASSUME NEW c \in Nodes, NEW d \in Nodes, NEW i \in 1 .. Len(Path[c]), NEW k \in 1 .. Len(Path[d]),
           Path[c][i] = Path[d][k]
    PROVE  i = k /\ \A j \in 1 .. i : Path[c][j] = Path[d][j]
<1>1. Len(Path[Path[c][i]]) = i /\ \A j \in 1 .. i : Path[Path[c][i]][j] = Path[c][j]
  BY PathBegins
<1>2. Len(Path[Path[d][k]]) = k /\ \A j \in 1 .. k : Path[Path[d][k]][j] = Path[d][j]
  BY PathBegins
<1> QED BY <1>1, <1>2

\* m is below n if n is on its path.
LEMMA WithinIs ==
    ASSUME NEW m \in Nodes, NEW n
    PROVE  Within(m, n) <=> \E i \in 1 .. Len(Path[m]) : Path[m][i] = n
<1>1. Path[m] \in Seq(Nodes)
  BY PathIs
<1> QED BY <1>1 DEF Within, Contains

\* What is below a node that is below n is below n.
LEMMA WithinTransitive ==
    ASSUME NEW k \in Nodes, NEW m \in Nodes, NEW n, Within(k, m), Within(m, n)
    PROVE  Within(k, n)
<1>1. PICK i \in 1 .. Len(Path[k]) : Path[k][i] = m
  BY WithinIs
<1>2. PICK j \in 1 .. Len(Path[m]) : Path[m][j] = n
  BY WithinIs
<1>3. Len(Path[m]) = i /\ \A x \in 1 .. i : Path[m][x] = Path[k][x]
  BY <1>1, PathBegins
<1>4. j \in 1 .. Len(Path[k]) /\ Path[k][j] = n
  <2>1. Len(Path[k]) \in Nat
    BY PathIs
  <2> QED BY <1>2, <1>3, <2>1
<1> QED BY <1>4, WithinIs

\* With a node, the tree has the nodes above it.
Closed(A) == \A n \in A : \A i \in 1 .. Len(Path[n]) : Path[n][i] \in A

\* The nodes are as old as their places in blocks tell.
LEMMA AgeIs ==
    ASSUME blocks \in Seq(Nodes), OneToOne(blocks), NEW c \in Allocated
    PROVE  Age(c) \in 1 .. Len(blocks) /\ blocks[Age(c)] = c
<1>1. \E i \in DOMAIN blocks : blocks[i] = c
  BY DEF Allocated, Range
<1> QED BY <1>1 DEF Age

\* The path of c is the beginning of that of d.
Above(c, d) ==
    /\ Len(Path[c]) < Len(Path[d])
    /\ \A j \in 1 .. Len(Path[c]) : Path[c][j] = Path[d][j]
\* Their paths part at i, where that of c goes on to an older node.
Parts(c, d, i) ==
    /\ i \in 1 .. Len(Path[c]) /\ i \in 1 .. Len(Path[d])
    /\ \A j \in 1 .. i - 1 : Path[c][j] = Path[d][j]
    /\ Age(Path[c][i]) < Age(Path[d][i])

\* The order of the nodes in a tree.
LEMMA BeforeIs ==
    ASSUME NEW c \in Nodes, NEW d \in Nodes, blocks \in Seq(Nodes),
           \A i \in 1 .. Len(Path[c]) : Path[c][i] \in Allocated /\ Age(Path[c][i]) \in Nat,
           \A i \in 1 .. Len(Path[d]) : Path[d][i] \in Allocated /\ Age(Path[d][i]) \in Nat
    PROVE  Before(c, d) <=> Above(c, d) \/ \E i \in Nat : Parts(c, d, i)
<1>1. DOMAIN Path[c] = 1 .. Len(Path[c]) /\ DOMAIN Path[d] = 1 .. Len(Path[d])
      /\ Len(Path[c]) \in Nat /\ Len(Path[d]) \in Nat /\ Len(Path[c]) > 0 /\ Len(Path[d]) > 0
      /\ Path[c][Len(Path[c])] = c /\ Path[d][Len(Path[d])] = d
  BY PathIs
<1>2. Within(d, c) /\ c # d <=> Above(c, d)
  <2>1. ASSUME Within(d, c), c # d PROVE Above(c, d)
    <3>1. PICK k \in 1 .. Len(Path[d]) : Path[d][k] = c
      BY <2>1, WithinIs
    <3>2. Len(Path[c]) \in 1 .. Len(Path[c])
      BY <1>1
    <3>3. Len(Path[c]) = k /\ \A j \in 1 .. Len(Path[c]) : Path[c][j] = Path[d][j]
      <4> DEFINE l == Len(Path[c])
      <4>1. l \in 1 .. Len(Path[c]) /\ Path[c][l] = Path[d][k]
        BY <1>1, <3>1, <3>2
      <4> HIDE DEF l
      <4>2. l = k /\ \A j \in 1 .. l : Path[c][j] = Path[d][j]
        BY <4>1, PathsMeet
      <4> QED BY <4>2 DEF l
    <3>4. k # Len(Path[d])
      BY <1>1, <2>1, <3>1
    <3> QED BY <1>1, <3>1, <3>3, <3>4 DEF Above
  <2>2. ASSUME Above(c, d) PROVE Within(d, c) /\ c # d
    <3>1. Len(Path[c]) \in 1 .. Len(Path[d]) /\ Len(Path[c]) \in 1 .. Len(Path[c])
      BY <1>1, <2>2 DEF Above
    <3>2. Path[d][Len(Path[c])] = c
      BY <1>1, <2>2, <3>1 DEF Above
    <3>3. c # d
      BY <1>1, <2>2 DEF Above
    <3> QED BY <3>1, <3>2, <3>3, WithinIs
  <2> QED BY <2>1, <2>2
<1>3. (\E i \in DOMAIN Path[c] \intersect DOMAIN Path[d] :
          /\ \A j \in 1 .. i - 1 : Path[c][j] = Path[d][j]
          /\ Path[c][i] # Path[d][i] /\ Age(Path[c][i]) < Age(Path[d][i]))
      <=> \E i \in Nat : Parts(c, d, i)
  <2>1. \A i \in 1 .. Len(Path[c]) : i \in 1 .. Len(Path[d]) =>
          (Age(Path[c][i]) < Age(Path[d][i]) => Path[c][i] # Path[d][i])
    OBVIOUS
  <2>2. ASSUME NEW i \in Nat, Parts(c, d, i)
        PROVE  i \in DOMAIN Path[c] \intersect DOMAIN Path[d] /\ Path[c][i] # Path[d][i]
    BY <1>1, <2>1, <2>2 DEF Parts
  <2>3. ASSUME NEW i \in DOMAIN Path[c] \intersect DOMAIN Path[d]
        PROVE  i \in Nat /\ i \in 1 .. Len(Path[c]) /\ i \in 1 .. Len(Path[d])
    BY <1>1
  <2> QED BY <2>2, <2>3 DEF Parts
<1> QED BY <1>2, <1>3 DEF Before

\* What the lock tree is made of, when lock crit is free: each node once, with the
\* nodes above it.
TreeIs == blocks \in Seq(Nodes) /\ OneToOne(blocks) /\ Closed(Allocated)

\* The nodes in the tree.
LEMMA TreeNodes ==
    ASSUME TreeIs
    PROVE  /\ Allocated \in SUBSET Nodes /\ IsFiniteSet(Allocated)
           /\ Len(blocks) \in Nat /\ DOMAIN blocks = 1 .. Len(blocks)
           /\ \A c \in Allocated : \A i \in 1 .. Len(Path[c]) :
                 Path[c][i] \in Allocated /\ Age(Path[c][i]) \in Nat
<1>1. blocks \in Seq(Nodes) /\ OneToOne(blocks) /\ Closed(Allocated)
  BY DEF TreeIs
<1>2. Allocated \in SUBSET Nodes
  BY <1>1 DEF Allocated, Range
<1>3. IsFiniteSet(Nodes)
  BY MlkHashAssumption
<1>4. IsFiniteSet(Allocated)
  BY <1>2, <1>3, FS_Subset
<1>5. Len(blocks) \in Nat /\ DOMAIN blocks = 1 .. Len(blocks)
  BY <1>1
<1>6. \A a \in Allocated : Age(a) \in Nat
  BY <1>1, <1>5, AgeIs
<1> QED BY <1>1, <1>2, <1>4, <1>5, <1>6 DEF Closed

\* Of two nodes one comes before the other.
LEMMA BeforeTotal ==
    ASSUME TreeIs, NEW c \in Allocated, NEW d \in Allocated, c # d
    PROVE  Before(c, d) \/ Before(d, c)
<1> DEFINE T == {i \in 1 .. Len(Path[c]) : i \in 1 .. Len(Path[d]) /\ Path[c][i] # Path[d][i]}
<1>1. /\ blocks \in Seq(Nodes) /\ OneToOne(blocks) /\ c \in Nodes /\ d \in Nodes
      /\ \A i \in 1 .. Len(Path[c]) : Path[c][i] \in Allocated /\ Age(Path[c][i]) \in Nat
      /\ \A i \in 1 .. Len(Path[d]) : Path[d][i] \in Allocated /\ Age(Path[d][i]) \in Nat
  BY TreeNodes DEF TreeIs
<1>2. Before(c, d) <=> Above(c, d) \/ \E i \in Nat : Parts(c, d, i)
  BY <1>1, BeforeIs
<1>3. Before(d, c) <=> Above(d, c) \/ \E i \in Nat : Parts(d, c, i)
  BY <1>1, BeforeIs
<1>4. /\ Len(Path[c]) \in Nat /\ Len(Path[d]) \in Nat /\ Len(Path[c]) > 0 /\ Len(Path[d]) > 0
      /\ Path[c][Len(Path[c])] = c /\ Path[d][Len(Path[d])] = d
  BY <1>1, PathIs
<1>5. CASE T # {}
  <2>1. T \in SUBSET Nat
    OBVIOUS
  <2>2. PICK i \in T : \A y \in T : i <= y
    <3> HIDE DEF T
    <3> QED BY <1>5, <2>1, LeastNumber
  <2>3. i \in 1 .. Len(Path[c]) /\ i \in 1 .. Len(Path[d]) /\ Path[c][i] # Path[d][i] /\ i \in Nat
    BY <2>2
  <2>4. \A j \in 1 .. i - 1 : Path[c][j] = Path[d][j]
    <3> SUFFICES ASSUME NEW j \in 1 .. i - 1, Path[c][j] # Path[d][j] PROVE FALSE
      OBVIOUS
    <3>1. j \in 1 .. Len(Path[c]) /\ j \in 1 .. Len(Path[d]) /\ ~(i <= j)
      BY <1>4, <2>3
    <3>2. j \in T
      BY <3>1
    <3> QED BY <2>2, <3>1, <3>2
  <2>5. Age(Path[c][i]) # Age(Path[d][i])
    BY <1>1, <2>3, AgeIs
  <2>6. Age(Path[c][i]) \in Nat /\ Age(Path[d][i]) \in Nat
    BY <1>1, <2>3
  <2>7. Age(Path[c][i]) < Age(Path[d][i]) \/ Age(Path[d][i]) < Age(Path[c][i])
    BY <2>5, <2>6
  <2>8. Parts(c, d, i) \/ Parts(d, c, i)
    BY <2>3, <2>4, <2>7 DEF Parts
  <2> QED BY <1>2, <1>3, <2>3, <2>8
<1>6. CASE T = {}
  <2>1. \A j \in 1 .. Len(Path[c]) : j \in 1 .. Len(Path[d]) => Path[c][j] = Path[d][j]
    BY <1>6
  <2>2. Len(Path[c]) # Len(Path[d])
    BY <1>4, <2>1
  <2>3. CASE Len(Path[c]) < Len(Path[d])
    BY <1>2, <1>4, <2>1, <2>3 DEF Above
  <2>4. CASE Len(Path[d]) < Len(Path[c])
    BY <1>3, <1>4, <2>1, <2>4 DEF Above
  <2> QED BY <1>4, <2>2, <2>3, <2>4
<1> QED BY <1>5, <1>6

\* The order is transitive.
LEMMA BeforeTransitive ==
    ASSUME TreeIs, NEW x \in Allocated, NEW y \in Allocated, NEW z \in Allocated,
           Before(x, y), Before(y, z)
    PROVE  Before(x, z)
<1>1. /\ blocks \in Seq(Nodes) /\ x \in Nodes /\ y \in Nodes /\ z \in Nodes
      /\ \A i \in 1 .. Len(Path[x]) : Path[x][i] \in Allocated /\ Age(Path[x][i]) \in Nat
      /\ \A i \in 1 .. Len(Path[y]) : Path[y][i] \in Allocated /\ Age(Path[y][i]) \in Nat
      /\ \A i \in 1 .. Len(Path[z]) : Path[z][i] \in Allocated /\ Age(Path[z][i]) \in Nat
  BY TreeNodes DEF TreeIs
<1>2. Above(x, y) \/ \E i \in Nat : Parts(x, y, i)
  BY <1>1, BeforeIs
<1>3. Above(y, z) \/ \E i \in Nat : Parts(y, z, i)
  BY <1>1, BeforeIs
<1>4. Len(Path[x]) \in Nat /\ Len(Path[y]) \in Nat /\ Len(Path[z]) \in Nat
  BY <1>1, PathIs
<1>5. Above(x, z) \/ \E i \in Nat : Parts(x, z, i)
  <2>1. CASE Above(x, y) /\ Above(y, z)
    <3>1. Above(x, z)
      BY <1>4, <2>1 DEF Above
    <3> QED BY <3>1
  <2>2. ASSUME Above(x, y), NEW k \in Nat, Parts(y, z, k)
        PROVE  Above(x, z) \/ Parts(x, z, k)
    <3>1. CASE k <= Len(Path[x])
      <4>1. k \in 1 .. Len(Path[x]) /\ k \in 1 .. Len(Path[z])
        BY <1>4, <2>2, <3>1 DEF Parts
      <4>2. Path[x][k] = Path[y][k] /\ \A j \in 1 .. k - 1 : Path[x][j] = Path[y][j]
        BY <1>4, <2>2, <4>1 DEF Above
      <4>3. Parts(x, z, k)
        BY <2>2, <4>1, <4>2 DEF Parts
      <4> QED BY <4>3
    <3>2. CASE k > Len(Path[x])
      <4>1. Len(Path[x]) < Len(Path[z])
        BY <1>4, <2>2, <3>2 DEF Parts
      <4>2. \A j \in 1 .. Len(Path[x]) : Path[x][j] = Path[y][j] /\ j \in 1 .. k - 1
        BY <1>4, <2>2, <3>2 DEF Above
      <4>3. Above(x, z)
        BY <2>2, <4>1, <4>2 DEF Above, Parts
      <4> QED BY <4>3
    <3> QED BY <1>4, <3>1, <3>2
  <2>3. ASSUME NEW i \in Nat, Parts(x, y, i), Above(y, z) PROVE Parts(x, z, i)
    <3>1. i \in 1 .. Len(Path[x]) /\ i \in 1 .. Len(Path[y]) /\ i \in 1 .. Len(Path[z])
      BY <1>4, <2>3 DEF Parts, Above
    <3>2. Path[y][i] = Path[z][i] /\ \A j \in 1 .. i - 1 : Path[y][j] = Path[z][j]
      BY <1>4, <2>3, <3>1 DEF Above
    <3> QED BY <2>3, <3>1, <3>2 DEF Parts
  <2>4. ASSUME NEW i \in Nat, Parts(x, y, i), NEW k \in Nat, Parts(y, z, k)
        PROVE  Parts(x, z, i) \/ Parts(x, z, k)
    <3>0. /\ i \in 1 .. Len(Path[x]) /\ i \in 1 .. Len(Path[y])
          /\ k \in 1 .. Len(Path[y]) /\ k \in 1 .. Len(Path[z])
          /\ \A j \in 1 .. i - 1 : Path[x][j] = Path[y][j]
          /\ \A j \in 1 .. k - 1 : Path[y][j] = Path[z][j]
          /\ Age(Path[x][i]) < Age(Path[y][i]) /\ Age(Path[y][k]) < Age(Path[z][k])
      BY <2>4 DEF Parts
    <3>1. CASE i < k
      <4>1. i \in 1 .. k - 1 /\ i \in 1 .. Len(Path[z]) /\ \A j \in 1 .. i - 1 : j \in 1 .. k - 1
        BY <1>4, <3>0, <3>1
      <4>2. Path[y][i] = Path[z][i] /\ \A j \in 1 .. i - 1 : Path[x][j] = Path[z][j]
        BY <3>0, <4>1
      <4>3. Parts(x, z, i)
        BY <3>0, <4>1, <4>2 DEF Parts
      <4> QED BY <4>3
    <3>2. CASE k < i
      <4>1. k \in 1 .. i - 1 /\ k \in 1 .. Len(Path[x]) /\ \A j \in 1 .. k - 1 : j \in 1 .. i - 1
        BY <1>4, <3>0, <3>2
      <4>2. Path[x][k] = Path[y][k] /\ \A j \in 1 .. k - 1 : Path[x][j] = Path[z][j]
        BY <3>0, <4>1
      <4>3. Parts(x, z, k)
        BY <3>0, <4>1, <4>2 DEF Parts
      <4> QED BY <4>3
    <3>3. CASE i = k
      <4>1. Age(Path[x][i]) \in Nat /\ Age(Path[y][i]) \in Nat /\ Age(Path[z][i]) \in Nat
        BY <1>1, <3>0, <3>3
      <4>2. Age(Path[x][i]) < Age(Path[z][i])
        BY <3>0, <3>3, <4>1
      <4>3. \A j \in 1 .. i - 1 : Path[x][j] = Path[z][j]
        BY <3>0, <3>3
      <4>4. Parts(x, z, i)
        BY <3>0, <3>3, <4>2, <4>3 DEF Parts
      <4> QED BY <4>4
    <3> QED BY <3>1, <3>2, <3>3
  <2> QED BY <1>2, <1>3, <2>1, <2>2, <2>3, <2>4
<1> QED BY <1>1, <1>5, BeforeIs

\* mlk_rehash_tree visits every node of the tree once.
LEMMA PreorderIs ==
    ASSUME TreeIs
    PROVE  Preorder \in Seq(Nodes) /\ OneToOne(Preorder) /\ Range(Preorder) = Allocated
<1> DEFINE A == Allocated
           R == {e \in A \X A : Before(e[1], e[2])}
           c == Cardinality(A)
           s == Ranked(A, R)
<1>1. A \in SUBSET Nodes /\ IsFiniteSet(A)
  BY TreeNodes
<1>2. \A x, y \in A : <<x, y>> \in R <=> Before(x, y)
  OBVIOUS
<1>3. ASSUME NEW x \in A PROVE ~Before(x, x)
  BY DEF Before
<1>4. \A x, y, z \in A : Before(x, y) /\ Before(y, z) => Before(x, z)
  BY BeforeTransitive
<1>5. \A x, y \in A : x = y \/ Before(x, y) \/ Before(y, x)
  BY BeforeTotal
<1>6. Preorder = s
  BY DEF Preorder
<1> HIDE DEF A, R
<1>7. \A x \in A : <<x, x>> \notin R
  BY <1>2, <1>3
<1>8. \A x, y, z \in A : <<x, y>> \in R /\ <<y, z>> \in R => <<x, z>> \in R
  BY <1>2, <1>4
<1>9. \A x, y \in A : x = y \/ <<x, y>> \in R \/ <<y, x>> \in R
  BY <1>2, <1>5
<1>10. /\ c \in Nat /\ s \in [1 .. c -> A]
       /\ \A i, j \in 1 .. c : s[i] = s[j] => i = j
       /\ \A x \in A : \E i \in 1 .. c : s[i] = x
  BY <1>1, <1>7, <1>8, <1>9, RankedOf
<1> HIDE DEF s, c
<1>11. DOMAIN s = 1 .. c
  BY <1>10
<1>12. s \in Seq(Nodes)
  <2>1. s \in [1 .. c -> Nodes]
    BY <1>1, <1>10
  <2> QED BY <1>10, <2>1
<1>13. OneToOne(s)
  BY <1>10, <1>11 DEF OneToOne
<1>14. Range(s) = A
  BY <1>10, <1>11 DEF Range
<1> QED BY <1>6, <1>12, <1>13, <1>14 DEF A

----------------------------------------------------------------------------
(* Rehash and resize.                                                      *)

\* The seeds and hashes.
LEMMA SeedType ==
    /\ IsFiniteSet(Seeds) /\ 0 \in Seeds
    /\ Cardinality(Seeds) \in Nat /\ Cardinality(Seeds) > 0
    /\ Seeds = 0 .. Cardinality(Seeds) - 1
    /\ \A s \in Seeds : HashOf[s] \in [Nodes -> Nat]
<1>1. /\ IsFiniteSet(Seeds) /\ 0 \in Seeds /\ Seeds = 0 .. Cardinality(Seeds) - 1
      /\ \A s \in Seeds : HashOf[s] \in [Nodes -> Nat]
  BY MlkHashAssumption
<1>2. Cardinality(Seeds) \in Nat
  BY <1>1, FS_CardinalityType
<1>3. Cardinality(Seeds) > 0
  <2> DEFINE c == Cardinality(Seeds)
  <2>1. 0 \in 0 .. c - 1 /\ c \in Nat
    BY <1>1, <1>2
  <2> HIDE DEF c
  <2>2. c > 0
    BY <2>1
  <2> QED BY <2>2 DEF c
<1> QED BY <1>1, <1>2, <1>3

\* The nodes of the tree added to an empty table with the hashes of the seed s.
LEMMA RehashedGood ==
    ASSUME TreeIs, num_blkhash \in Sizes, NEW s \in Seeds, NEW order, order = Preorder
    PROVE  /\ Rehashed(order, s).ok \in BOOLEAN
           /\ Rehashed(order, s).ok =>
                 Good(num_blkhash, Rehashed(order, s).t, Allocated, HashOf[s])
<1> DEFINE g == HashOf[s]
           q == [i \in DOMAIN order |-> <<order[i], g[order[i]]>>]
<1>1. order \in Seq(Nodes) /\ OneToOne(order) /\ Range(order) = Allocated
  BY PreorderIs
<1>2. g \in [Nodes -> Nat]
  BY SeedType
<1>3. Rehashed(order, s) = AddAll(num_blkhash, q)
  BY DEF Rehashed
<1> HIDE DEF g
<1>4. Len(order) \in Nat /\ DOMAIN order = 1 .. Len(order)
  BY <1>1
<1>5. q \in Seq(Nodes \X Nat) /\ Len(q) = Len(order)
  <2>1. q \in [1 .. Len(order) -> Nodes \X Nat]
    BY <1>1, <1>2, <1>4
  <2> QED BY <1>4, <2>1
<1>6. \A j \in 1 .. Len(q) : q[j][1] = order[j] /\ q[j][2] = g[q[j][1]]
  <2>1. ASSUME NEW j \in 1 .. Len(q) PROVE q[j] = <<order[j], g[order[j]]>>
    BY <1>4, <1>5
  <2> HIDE DEF q
  <2> QED BY <2>1
<1> HIDE DEF q
<1>7. \A j, k \in 1 .. Len(q) : q[j][1] = q[k][1] => j = k
  <2> SUFFICES ASSUME NEW j \in 1 .. Len(q), NEW k \in 1 .. Len(q), q[j][1] = q[k][1] PROVE j = k
    OBVIOUS
  <2>1. order[j] = order[k] /\ j \in DOMAIN order /\ k \in DOMAIN order
    BY <1>4, <1>5, <1>6
  <2> QED BY <1>1, <2>1 DEF OneToOne
<1>8. FirstNodes(q, Len(q)) = Allocated
  <2>1. FirstNodes(q, Len(q)) = {order[j] : j \in 1 .. Len(q)}
    BY <1>6 DEF FirstNodes
  <2> QED BY <1>1, <1>4, <1>5, <2>1 DEF Range
<1>9. /\ AddAll(num_blkhash, q).ok \in BOOLEAN
      /\ AddAll(num_blkhash, q).ok => Good(num_blkhash, AddAll(num_blkhash, q).t, FirstNodes(q, Len(q)), g)
  BY <1>5, <1>6, <1>7, AddAllGood
<1> QED BY <1>3, <1>8, <1>9 DEF g

\* The result of mlk_rehash's passes.
RehashIs(r) ==
    /\ r.ok \in BOOLEAN /\ r.failed \in Nat /\ r.seed \in Seeds
    /\ r.ok => Good(num_blkhash, r.t, Allocated, HashOf[r.seed])

\* If a pass succeeds, all the nodes are in the table, with the hashes of its seed.
LEMMA RehashPassesGood ==
    ASSUME TreeIs, num_blkhash \in Sizes, hash_seed \in Seeds
    PROVE  RehashIs(RehashPasses)
<1> DEFINE order == Preorder
           last == Cardinality(Seeds)
           S == 1 .. last
           seed(k) == (hash_seed + k) % last
           made(k) == Rehashed(order, seed(k))
           Stops(k) == made(k).ok \/ k = last
           Out(k) == [ok |-> made(k).ok, t |-> made(k).t, seed |-> seed(k), failed |-> k - 1]
           stop == [k \in S |-> Stops(k)]
           out == [k \in S |-> Out(k)]
           nxt == [k \in S |-> IF Stops(k) THEN k ELSE k + 1]
           m == [k \in S |-> last - k]
           pass == CHOOSE f : f = [k \in S |-> IF Stops(k) THEN Out(k) ELSE f[k + 1]]
<1>1. RehashPasses = pass[1]
  BY DEF RehashPasses
<1>2. last \in Nat /\ last > 0 /\ Seeds = 0 .. last - 1
  BY SeedType
<1> HIDE DEF last
<1>3. \A k \in S : seed(k) \in Seeds
  <2>1. hash_seed \in Nat
    BY <1>2
  <2> QED BY <1>2, <2>1
<1>4. \A k \in S : /\ made(k).ok \in BOOLEAN
                   /\ made(k).ok => Good(num_blkhash, made(k).t, Allocated, HashOf[seed(k)])
  <2> SUFFICES ASSUME NEW k \in S
               PROVE  /\ made(k).ok \in BOOLEAN
                      /\ made(k).ok => Good(num_blkhash, made(k).t, Allocated, HashOf[seed(k)])
    OBVIOUS
  <2>1. seed(k) \in Seeds /\ order = Preorder
    BY <1>3
  <2> HIDE DEF seed, order
  <2> QED BY <2>1, RehashedGood
<1> HIDE DEF made, seed
<1>5. stop \in [S -> BOOLEAN]
  BY <1>4
<1>6. nxt \in [S -> S]
  BY <1>2
<1>7. m \in [S -> 0 .. last]
  BY <1>2
<1>8. \A k \in S : ~stop[k] => m[nxt[k]] < m[k]
  <2> SUFFICES ASSUME NEW k \in S, ~stop[k] PROVE m[nxt[k]] < m[k]
    OBVIOUS
  <2>0. stop[k] = Stops(k) /\ k \in Nat
    OBVIOUS
  <2>1. nxt[k] = k + 1 /\ nxt[k] \in S /\ k \in Nat
    <3> HIDE DEF stop
    <3>1. nxt[k] = IF Stops(k) THEN k ELSE k + 1
      OBVIOUS
    <3> HIDE DEF nxt, Stops
    <3> QED BY <1>6, <2>0, <3>1
  <2>2. m[nxt[k]] = last - (k + 1) /\ m[k] = last - k
    BY <2>1
  <2> QED BY <1>2, <2>1, <2>2
<1>9. Terminates(S, stop, nxt, m, last)
  <2> HIDE DEF stop, nxt, m
  <2> QED BY <1>2, <1>5, <1>6, <1>7, <1>8 DEF Terminates
<1>10. ASSUME NEW f, NEW k \in S
       PROVE  (IF stop[k] THEN out[k] ELSE f[nxt[k]]) = (IF Stops(k) THEN Out(k) ELSE f[k + 1])
  OBVIOUS
<1>11. \A k \in S : out[k] = Out(k)
  OBVIOUS
<1>12. 1 \in S
  BY <1>2
<1> HIDE DEF stop, nxt, m, out, S, Stops
<1>13. Loop(S, stop, out, nxt, pass)
  <2> HIDE DEF Out
  <2>1. PICK f : Loop(S, stop, out, nxt, f)
    BY <1>9, LoopExists
  <2>2. f = [k \in S |-> IF Stops(k) THEN Out(k) ELSE f[k + 1]]
    BY <1>10, <2>1 DEF Loop
  <2>3. pass = [k \in S |-> IF Stops(k) THEN Out(k) ELSE pass[k + 1]]
    BY <2>2
  <2> HIDE DEF pass
  <2>4. \A k \in S : (IF stop[k] THEN out[k] ELSE pass[nxt[k]]) =
                      (IF Stops(k) THEN Out(k) ELSE pass[k + 1])
    BY <1>10
  <2>5. pass = [k \in S |-> IF stop[k] THEN out[k] ELSE pass[nxt[k]]]
    BY <2>3, <2>4
  <2> QED BY <2>5 DEF Loop
<1> HIDE DEF pass
<1>14. Keeps(S, stop, nxt)
  BY <1>6 DEF Keeps
<1>15. PICK e \in S : stop[e] /\ pass[1] = out[e]
  <2>1. S \in SUBSET S
    OBVIOUS
  <2> QED BY <1>9, <1>12, <1>13, <1>14, <2>1, LoopEnds
<1> DEFINE r == RehashPasses
<1>16. r = Out(e)
  BY <1>1, <1>11, <1>15
<1> HIDE DEF r
<1>17. r.ok = made(e).ok /\ r.t = made(e).t /\ r.seed = seed(e) /\ r.failed = e - 1
  BY <1>16
<1>18. e - 1 \in Nat
  BY <1>2 DEF S
<1>19. RehashIs(r)
  BY <1>3, <1>4, <1>17, <1>18 DEF RehashIs
<1> QED BY <1>19 DEF r

\* The entries of a good table: every node once, with its hash.
LEMMA EntriesIs ==
    ASSUME num_blkhash \in Sizes, NEW A \in SUBSET Nodes, NEW g \in [Nodes -> Nat], NEW t,
           Good(num_blkhash, t, A, g)
    PROVE  /\ Entries(t) \in Seq(Nodes \X Nat)
           /\ \A j \in 1 .. Len(Entries(t)) : Entries(t)[j][2] = g[Entries(t)[j][1]]
           /\ \A j, k \in 1 .. Len(Entries(t)) : Entries(t)[j][1] = Entries(t)[k][1] => j = k
           /\ FirstNodes(Entries(t), Len(Entries(t))) = A
<1> DEFINE n == num_blkhash
           used == {b \in 0 .. n - 1 : t[b].blk # NoNode}
           at == Ranked(used, Less(used))
           c == Cardinality(used)
           s == Entries(t)
<1>1. n \in Nat /\ n > 0 /\ 0 .. n - 1 \subseteq Buckets /\ t \in Tables
  BY SizeType DEF Buckets, Good
<1>2. used \in SUBSET Int /\ used \in SUBSET (0 .. n - 1)
  BY <1>1
<1>3. IsFiniteSet(0 .. n - 1)
  BY <1>1, FS_Interval
<1>4. IsFiniteSet(used)
  BY <1>2, <1>3, FS_Subset
<1>5. s = [i \in DOMAIN at |-> <<t[at[i]].blk, t[at[i]].hash>>]
  BY DEF Entries
<1>6. \A b \in used : /\ b \in 0 .. n - 1 /\ t[b].blk # NoNode /\ t[b].blk \in A
                      /\ t[b].hash = g[t[b].blk] /\ b \in Buckets
  BY <1>1 DEF Good
<1>7. \A b \in 0 .. n - 1 : t[b].blk # NoNode => b \in used
  OBVIOUS
<1> HIDE DEF used
<1>8. /\ c \in Nat /\ at \in [1 .. c -> used]
      /\ \A i, j \in 1 .. c : at[i] = at[j] => i = j
      /\ \A x \in used : \E i \in 1 .. c : at[i] = x
  BY <1>2, <1>4, RankedLess
<1> HIDE DEF at, s, c
<1>9. ASSUME NEW j \in 1 .. c
      PROVE  /\ at[j] \in used
             /\ s[j] = <<t[at[j]].blk, t[at[j]].hash>>
             /\ s[j][1] = t[at[j]].blk /\ s[j][2] = t[at[j]].hash
  BY <1>5, <1>8
<1>10. s \in Seq(Nodes \X Nat) /\ Len(s) = c
  <2>1. DOMAIN s = 1 .. c /\ s = [j \in 1 .. c |-> s[j]]
    BY <1>5, <1>8
  <2>2. \A b \in used : t[b].blk \in Nodes /\ t[b].hash \in Nat
    BY <1>6
  <2>3. ASSUME NEW j \in 1 .. c PROVE s[j] \in Nodes \X Nat
    <3>1. s[j] = <<t[at[j]].blk, t[at[j]].hash>> /\ t[at[j]].blk \in Nodes /\ t[at[j]].hash \in Nat
      BY <1>9, <2>2
    <3> QED BY <3>1
  <2>4. s \in [1 .. c -> Nodes \X Nat]
    BY <2>1, <2>3
  <2> QED BY <1>8, <2>4
<1>11. \A j \in 1 .. c : s[j][2] = g[s[j][1]]
  BY <1>6, <1>9
<1>12. \A j, k \in 1 .. c : s[j][1] = s[k][1] => j = k
  <2> SUFFICES ASSUME NEW j \in 1 .. c, NEW k \in 1 .. c, s[j][1] = s[k][1] PROVE j = k
    OBVIOUS
  <2>1. t[at[j]].blk # NoNode /\ t[at[j]].blk = t[at[k]].blk /\ at[j] \in Buckets /\ at[k] \in Buckets
    BY <1>6, <1>9
  <2>2. at[j] = at[k]
    BY <2>1 DEF Good
  <2> QED BY <1>8, <2>2
<1>13. FirstNodes(s, c) = A
  <2>1. ASSUME NEW a \in A PROVE a \in FirstNodes(s, c)
    <3>1. PICK b \in 0 .. n - 1 : t[b].blk = a
      BY DEF Good
    <3>2. b \in used
      BY <1>7, <3>1, NoNodeIs
    <3>3. PICK i \in 1 .. c : at[i] = b
      BY <1>8, <3>2
    <3> QED BY <1>9, <3>1, <3>3 DEF FirstNodes
  <2>2. ASSUME NEW a \in FirstNodes(s, c) PROVE a \in A
    <3>1. PICK j \in 1 .. c : s[j][1] = a
      BY DEF FirstNodes
    <3> QED BY <1>6, <1>9, <3>1
  <2> QED BY <2>1, <2>2
<1>14. /\ s \in Seq(Nodes \X Nat)
       /\ \A j \in 1 .. Len(s) : s[j][2] = g[s[j][1]]
       /\ \A j, k \in 1 .. Len(s) : s[j][1] = s[k][1] => j = k
       /\ FirstNodes(s, Len(s)) = A
  BY <1>10, <1>11, <1>12, <1>13
<1> QED BY <1>14 DEF s

\* The next larger size, or one that is too large.
NextSize(n) == Min({m \in Sizes : m > n} \union {MaxSize + 1})

\* It is larger.
LEMMA NextSizeIs ==
    ASSUME NEW n \in Nat, n <= MaxSize
    PROVE  NextSize(n) \in Sizes \union {MaxSize + 1} /\ NextSize(n) > n
<1> DEFINE T == {m \in Sizes : m > n} \union {MaxSize + 1}
<1>1. MaxSize \in Nat /\ \A m \in Sizes : m \in Nat
  BY MaxSizeIs, SizeType
<1>2. T \in SUBSET Nat /\ T # {}
  BY <1>1
<1>3. \A m \in T : m \in Sizes \union {MaxSize + 1} /\ m > n
  BY <1>1
<1>4. NextSize(n) = Min(T)
  BY DEF NextSize
<1> HIDE DEF T
<1>5. Min(T) \in T
  BY <1>2, MinIs
<1> QED BY <1>3, <1>4, <1>5

\* The result of the tables mlk_shrhash_resize tried.
ResizeIs(r, A, g) == r.ok => r.n \in Sizes /\ Good(r.n, r.t, A, g)

\* One that took all the entries has all the nodes.
LEMMA ResizeTriesGood ==
    ASSUME num_blkhash \in Sizes, NEW A \in SUBSET Nodes, NEW g \in [Nodes -> Nat], NEW t,
           Good(num_blkhash, t, A, g), Len(blocks) \in Nat
    PROVE  ResizeIs(ResizeTries(t), A, g)
<1> DEFINE old == Entries(t)
           S == [n : Sizes \union {MaxSize + 1}, tries : Nat]
           made(s) == AddAll(s.n, old)
           Over(s) == s.n > MaxSize
           Enough(s) == made(s).ok \/ s.n > Len(blocks) * 2
           None(s) == [n |-> 0, t |-> t, ok |-> FALSE, tries |-> s.tries]
           Out(s) == [n |-> s.n, t |-> made(s).t, ok |-> made(s).ok, tries |-> s.tries]
           Nxt(s) == [n |-> NextSize(s.n), tries |-> s.tries + 1]
           Res(s) == IF Over(s) THEN None(s) ELSE Out(s)
           Stops(s) == Over(s) \/ Enough(s)
           stop == [s \in S |-> Stops(s)]
           out == [s \in S |-> Res(s)]
           nxt == [s \in S |-> IF Stops(s) THEN s ELSE Nxt(s)]
           K == MaxSize + 1
           m == [s \in S |-> K - s.n]
           start == [n |-> NextSize(num_blkhash), tries |-> 1]
           try == CHOOSE f : f = [s \in S |-> IF Over(s) THEN None(s)
                                              ELSE IF Enough(s) THEN Out(s) ELSE f[Nxt(s)]]
<1>1. ResizeTries(t) = try[start]
  BY DEF ResizeTries, NextSize
<1>2. MaxSize \in Nat /\ \A n \in Sizes : n \in Nat /\ n > 0 /\ n <= MaxSize
  BY MaxSizeIs, SizeType
<1>3. ASSUME NEW n \in Sizes
      PROVE  /\ AddAll(n, old).ok \in BOOLEAN
             /\ AddAll(n, old).ok => Good(n, AddAll(n, old).t, A, g)
  <2>1. /\ old \in Seq(Nodes \X Nat)
        /\ \A j \in 1 .. Len(old) : old[j][2] = g[old[j][1]]
        /\ \A j, k \in 1 .. Len(old) : old[j][1] = old[k][1] => j = k
        /\ FirstNodes(old, Len(old)) = A
    BY EntriesIs
  <2> HIDE DEF old
  <2>2. /\ AddAll(n, old).ok \in BOOLEAN
        /\ AddAll(n, old).ok => Good(n, AddAll(n, old).t, FirstNodes(old, Len(old)), g)
    BY <2>1, AddAllGood
  <2> QED BY <2>1, <2>2
<1> HIDE DEF old
<1>4. \A s \in S : /\ s.n \in Nat /\ s.n <= K /\ s.tries \in Nat
                   /\ s.n \in Sizes \/ Over(s)
                   /\ ~Over(s) => s.n \in Sizes
  BY <1>2
<1>5. \A s \in S : ~Over(s) => /\ made(s).ok \in BOOLEAN
                               /\ made(s).ok => Good(s.n, made(s).t, A, g)
  BY <1>3, <1>4
<1>6. ASSUME NEW s \in S, ~Over(s) PROVE Nxt(s) \in S /\ Nxt(s).n > s.n
  <2>1. s.n \in Nat /\ s.n <= MaxSize /\ s.tries \in Nat
    BY <1>2, <1>4, <1>6
  <2>2. NextSize(s.n) \in Sizes \union {MaxSize + 1} /\ NextSize(s.n) > s.n
    BY <2>1, NextSizeIs
  <2> QED BY <2>1, <2>2
<1>7. start \in S
  <2>1. NextSize(num_blkhash) \in Sizes \union {MaxSize + 1}
    BY <1>2, NextSizeIs
  <2> QED BY <2>1
<1>8. ResizeIs(None(start), A, g)
  BY DEF ResizeIs
<1>9. ASSUME NEW s \in S PROVE ResizeIs(Res(s), A, g)
  <2>1. CASE Over(s)
    <3>1. Res(s).ok = FALSE
      BY <2>1
    <3> QED BY <3>1 DEF ResizeIs
  <2>2. CASE ~Over(s)
    <3>1. Res(s).n = s.n /\ Res(s).t = made(s).t /\ Res(s).ok = made(s).ok
      BY <2>2
    <3> HIDE DEF Res, made
    <3> QED BY <1>4, <1>5, <2>2, <3>1 DEF ResizeIs
  <2> QED BY <2>1, <2>2
<1>10. \A s \in S : Stops(s) \in BOOLEAN
  OBVIOUS
<1> HIDE DEF S, made, Over, Enough, None, Out
<1>11. stop \in [S -> BOOLEAN]
  BY <1>10
<1>12. nxt \in [S -> S]
  <2> HIDE DEF Nxt
  <2>1. \A s \in S : ~Stops(s) => Nxt(s) \in S
    BY <1>6
  <2> QED BY <2>1
<1>13. m \in [S -> 0 .. K]
  <2>1. \A s \in S : K - s.n \in 0 .. K
    BY <1>2, <1>4
  <2> QED BY <2>1
<1>14. \A s \in S : ~stop[s] => m[nxt[s]] < m[s]
  <2> SUFFICES ASSUME NEW s \in S, ~stop[s] PROVE m[nxt[s]] < m[s]
    OBVIOUS
  <2> HIDE DEF Nxt
  <2>1. stop[s] = Stops(s) /\ nxt[s] = IF Stops(s) THEN s ELSE Nxt(s)
    OBVIOUS
  <2>2. ~Over(s) /\ nxt[s] = Nxt(s)
    BY <2>1
  <2>3. Nxt(s) \in S /\ Nxt(s).n > s.n
    BY <1>6, <2>2
  <2>4. m[Nxt(s)] = K - Nxt(s).n /\ m[s] = K - s.n
    BY <2>3
  <2>5. Nxt(s).n \in Nat /\ s.n \in Nat
    BY <1>4, <2>3
  <2> QED BY <1>2, <2>2, <2>3, <2>4, <2>5
<1>15. Terminates(S, stop, nxt, m, K)
  <2> HIDE DEF stop, nxt, m
  <2> QED BY <1>2, <1>11, <1>12, <1>13, <1>14 DEF Terminates
<1> HIDE DEF Nxt
<1>16. ASSUME NEW f, NEW s \in S
       PROVE  (IF stop[s] THEN out[s] ELSE f[nxt[s]]) =
              (IF Over(s) THEN None(s) ELSE IF Enough(s) THEN Out(s) ELSE f[Nxt(s)])
  <2>1. stop[s] = Stops(s) /\ out[s] = Res(s) /\ nxt[s] = IF Stops(s) THEN s ELSE Nxt(s)
    OBVIOUS
  <2> HIDE DEF stop, out, nxt
  <2> QED BY <2>1
<1>17. \A s \in S : out[s] = Res(s)
  OBVIOUS
<1> HIDE DEF stop, nxt, m, out, Res, K
<1>18. Loop(S, stop, out, nxt, try)
  <2>1. PICK f : Loop(S, stop, out, nxt, f)
    BY <1>15, LoopExists
  <2>2. f = [s \in S |-> IF Over(s) THEN None(s) ELSE IF Enough(s) THEN Out(s) ELSE f[Nxt(s)]]
    BY <1>16, <2>1 DEF Loop
  <2>3. try = [s \in S |-> IF Over(s) THEN None(s) ELSE IF Enough(s) THEN Out(s) ELSE try[Nxt(s)]]
    BY <2>2
  <2> HIDE DEF try
  <2>4. \A s \in S : (IF stop[s] THEN out[s] ELSE try[nxt[s]]) =
                      (IF Over(s) THEN None(s) ELSE IF Enough(s) THEN Out(s) ELSE try[Nxt(s)])
    BY <1>16
  <2>5. try = [s \in S |-> IF stop[s] THEN out[s] ELSE try[nxt[s]]]
    BY <2>3, <2>4
  <2> QED BY <2>5 DEF Loop
<1> HIDE DEF try, start
<1>19. Keeps(S, stop, nxt)
  BY <1>12 DEF Keeps
<1>20. PICK e \in S : stop[e] /\ try[start] = out[e]
  <2>1. S \in SUBSET S
    OBVIOUS
  <2> QED BY SMTT(30), <1>7, <1>15, <1>18, <1>19, <2>1, LoopEnds
<1> QED BY <1>1, <1>9, <1>17, <1>20

----------------------------------------------------------------------------
(* The failures of a process.                                              *)

FailStates == [cnt : 0 .. MaxRetries + 1, raised : SUBSET Flags]

\* A failure raises flags of pvtctl.
LEMMA FailedType ==
    ASSUME NEW f \in FailStates, NEW active
    PROVE  Failed(f, active) \in FailStates /\ Raises(f.cnt, active) \in SUBSET Flags
<1>1. f.cnt \in 0 .. 3 /\ f.raised \in SUBSET Flags
  BY DEF FailStates, MaxRetries
<1>2. Raises(f.cnt, active) \in SUBSET Flags
  BY <1>1 DEF Raises, Flags
<1>3. (IF f.cnt > MaxRetries THEN f.cnt ELSE f.cnt + 1) \in 0 .. MaxRetries + 1
  BY <1>1 DEF MaxRetries
<1> QED BY <1>1, <1>2, <1>3 DEF Failed, FailStates

\* So do several.
LEMMA FailedTimesType ==
    ASSUME NEW f \in FailStates, NEW k \in Nat PROVE FailedTimes(f, k) \in FailStates
<1> DEFINE g == [x \in FailStates |-> Failed(x, Len(blocks))]
           after == CHOOSE a : a = [i \in 0 .. k |-> IF i = 0 THEN f ELSE Failed(a[i - 1], Len(blocks))]
<1>1. FailedTimes(f, k) = after[k]
  BY DEF FailedTimes
<1>2. \A x \in FailStates : Failed(x, Len(blocks)) \in FailStates
  BY FailedType
<1> HIDE DEF FailStates
<1>3. g \in [FailStates -> FailStates]
  BY <1>2
<1>4. \A x \in FailStates : g[x] = Failed(x, Len(blocks))
  OBVIOUS
<1> HIDE DEF g
<1>5. PICK a \in [0 .. k -> FailStates] : a = [i \in 0 .. k |-> IF i = 0 THEN f ELSE g[a[i - 1]]]
  <2>1. PICK a : Iterates(FailStates, g, f, k, a)
    BY <1>3, IteratesExist
  <2> QED BY <2>1 DEF Iterates
<1>6. \A i \in 0 .. k : (IF i = 0 THEN f ELSE g[a[i - 1]]) = (IF i = 0 THEN f ELSE Failed(a[i - 1], Len(blocks)))
  <2>1. \A i \in 0 .. k : i # 0 => a[i - 1] \in FailStates
    BY <1>5
  <2> QED BY <1>4, <2>1
<1>7. a = [i \in 0 .. k |-> IF i = 0 THEN f ELSE Failed(a[i - 1], Len(blocks))]
  BY <1>5, <1>6
<1>8. after = [i \in 0 .. k |-> IF i = 0 THEN f ELSE Failed(after[i - 1], Len(blocks))]
  <2>1. \E w : w = [i \in 0 .. k |-> IF i = 0 THEN f ELSE Failed(w[i - 1], Len(blocks))]
    BY <1>7
  <2> QED BY <2>1, Zenon
<1> HIDE DEF after
<1> DEFINE T == {i \in 0 .. k : after[i] \notin FailStates}
<1>9. T = {}
  <2> SUFFICES ASSUME T # {} PROVE FALSE
    OBVIOUS
  <2>1. T \in SUBSET Nat
    OBVIOUS
  <2>2. PICK i \in T : \A j \in T : i <= j
    <3> HIDE DEF T
    <3> QED BY <2>1, LeastNumber
  <2>3. i \in 0 .. k /\ after[i] \notin FailStates
    BY <2>2
  <2>4. after[i] = IF i = 0 THEN f ELSE Failed(after[i - 1], Len(blocks))
    BY <1>8, <2>3
  <2>5. i # 0
    BY <2>3, <2>4
  <2>6. i - 1 \in 0 .. k /\ ~(i <= i - 1)
    BY <2>3, <2>5
  <2>7. after[i - 1] \in FailStates
    BY <2>2, <2>6
  <2> QED BY <1>2, <2>3, <2>4, <2>5, <2>7
<1>10. k \in 0 .. k
  OBVIOUS
<1> QED BY <1>1, <1>9, <1>10

----------------------------------------------------------------------------
(* mlk_shrblk_find.                                                        *)

\* The states of its loop, and one round of it.
FindState(path) ==
    [t : Tables, made : Seq(Nodes), ok : BOOLEAN, nobucket : BOOLEAN, i : 1 .. Len(path) + 1]
FindStops(path, s) == ~s.ok \/ s.i > Len(path)
FindNext(p, path, s) ==
    [FindOrCreate(s, path[s.i], HashOf[PvtSeed(p)][path[s.i]], Len(path) + 1 - s.i)
        EXCEPT !.i = s.i + 1]

\* A state of the loop.
LEMMA FindStateType ==
    ASSUME NEW path, NEW s \in FindState(path)
    PROVE  /\ s.t \in Tables /\ s.made \in Seq(Nodes) /\ s.ok \in BOOLEAN
           /\ s.nobucket \in BOOLEAN /\ s.i \in 1 .. Len(path) + 1
BY DEF FindState

\* The node d was found, there was no room for it, or it was added to the table or not.
RoundIs(n, s, d, h, b) ==
    LET a == mlk_shrhash_add(n, s.t, d, h)
    IN  \/ Places(n, s.t, d, h) # {} /\ b.t = s.t /\ b.made = s.made /\ b.ok = s.ok
        \/ b.t = s.t /\ b.made = s.made /\ b.ok = FALSE
        \/ Places(n, s.t, d, h) = {} /\ a.ok /\ b.t = a.t /\ b.made = Append(s.made, d) /\ b.ok = s.ok
        \/ Places(n, s.t, d, h) = {} /\ ~a.ok /\ b.t = a.t /\ b.made = s.made /\ b.ok = FALSE

\* One round.
LEMMA FindNextIs ==
    ASSUME num_blkhash \in Sizes, NEW p, NEW path, NEW s \in FindState(path),
           Len(path) \in Nat, ~FindStops(path, s), NEW d \in Nodes, d = path[s.i],
           NEW h \in Nat, h = HashOf[PvtSeed(p)][d]
    PROVE  /\ FindNext(p, path, s) \in FindState(path)
           /\ FindNext(p, path, s).i = s.i + 1
           /\ RoundIs(num_blkhash, s, d, h, FindNext(p, path, s))
<1> DEFINE n == num_blkhash
           left == Len(path) + 1 - s.i
           u == s.t
           a == mlk_shrhash_add(n, u, d, h)
           c == FindOrCreate(s, d, h, left)
           b == FindNext(p, path, s)
<1>1. /\ s.t \in Tables /\ s.made \in Seq(Nodes) /\ s.ok \in BOOLEAN
      /\ s.nobucket \in BOOLEAN /\ s.i \in 1 .. Len(path) + 1
  BY FindStateType
<1>2. s = [t |-> s.t, made |-> s.made, ok |-> s.ok, nobucket |-> s.nobucket, i |-> s.i]
  BY DEF FindState
<1>3. s.i + 1 \in 1 .. Len(path) + 1
  BY <1>1 DEF FindStops
<1>4. a.t \in Tables /\ a.ok \in BOOLEAN
  <2> HIDE DEF u
  <2>1. u \in Tables
    BY <1>1 DEF u
  <2> QED BY <2>1, AddType
<1>5. b = [c EXCEPT !.i = s.i + 1]
  BY DEF FindNext
<1>6. c = IF Places(n, u, d, h) # {} THEN s
          ELSE IF Free - Len(s.made) < left THEN [s EXCEPT !.ok = FALSE]
          ELSE IF a.ok THEN [s EXCEPT !.t = a.t, !.made = Append(@, d)]
          ELSE [s EXCEPT !.t = a.t, !.ok = FALSE, !.nobucket = TRUE]
  BY DEF FindOrCreate, Created
<1>7. Append(s.made, d) \in Seq(Nodes)
  BY <1>1
<1> HIDE DEF a, b, c, left
<1>8. c \in FindState(path) /\ RoundIs(n, s, d, h, c)
  <2>1. CASE Places(n, u, d, h) # {}
    BY <1>6, <2>1 DEF RoundIs
  <2>2. CASE Places(n, u, d, h) = {} /\ Free - Len(s.made) < left
    <3>1. c = [s EXCEPT !.ok = FALSE]
      BY <1>6, <2>2
    <3>2. c = [t |-> s.t, made |-> s.made, ok |-> FALSE, nobucket |-> s.nobucket, i |-> s.i]
      BY <1>2, <3>1 DEF FindState
    <3>3. c \in FindState(path)
      BY <1>1, <3>2 DEF FindState
    <3>4. c.t = s.t /\ c.made = s.made /\ c.ok = FALSE
      BY <3>2
    <3> QED BY <3>3, <3>4 DEF RoundIs
  <2>3. CASE Places(n, u, d, h) = {} /\ ~(Free - Len(s.made) < left) /\ a.ok
    <3>1. c = [s EXCEPT !.t = a.t, !.made = Append(@, d)]
      BY <1>6, <2>3
    <3>2. c = [t |-> a.t, made |-> Append(s.made, d), ok |-> s.ok, nobucket |-> s.nobucket, i |-> s.i]
      BY <1>2, <3>1 DEF FindState
    <3>3. c \in FindState(path)
      BY <1>1, <1>4, <1>7, <3>2 DEF FindState
    <3>4. c.t = a.t /\ c.made = Append(s.made, d) /\ c.ok = s.ok
      BY <3>2
    <3> QED BY <2>3, <3>3, <3>4 DEF RoundIs, a
  <2>4. CASE Places(n, u, d, h) = {} /\ ~(Free - Len(s.made) < left) /\ ~a.ok
    <3>1. c = [s EXCEPT !.t = a.t, !.ok = FALSE, !.nobucket = TRUE]
      BY <1>6, <2>4
    <3>2. c = [t |-> a.t, made |-> s.made, ok |-> FALSE, nobucket |-> TRUE, i |-> s.i]
      BY <1>2, <3>1 DEF FindState
    <3>3. c \in FindState(path)
      BY <1>1, <1>4, <3>2 DEF FindState
    <3>4. c.t = a.t /\ c.made = s.made /\ c.ok = FALSE
      BY <3>2
    <3> QED BY <2>4, <3>3, <3>4 DEF RoundIs, a
  <2> QED BY <2>1, <2>2, <2>3, <2>4
<1>9. b.t = c.t /\ b.made = c.made /\ b.ok = c.ok /\ b.nobucket = c.nobucket /\ b.i = s.i + 1
      /\ b = [t |-> c.t, made |-> c.made, ok |-> c.ok, nobucket |-> c.nobucket, i |-> s.i + 1]
  BY <1>5, <1>8 DEF FindState
<1>10. b \in FindState(path)
  <2>1. c.t \in Tables /\ c.made \in Seq(Nodes) /\ c.ok \in BOOLEAN /\ c.nobucket \in BOOLEAN
    BY <1>8, FindStateType
  <2> QED BY <1>3, <1>9, <2>1 DEF FindState
<1>11. RoundIs(n, s, d, h, b)
  BY <1>8, <1>9 DEF RoundIs
<1> QED BY <1>9, <1>10, <1>11 DEF b

\* The private block gets the hashes of the seed of the moment.
LEMMA PvtSeedIs == ASSUME NEW p PROVE PvtSeed(p) = hash_seed
BY DEF PvtSeed

FindStart(p) == [t |-> segs[mlkhash_shmid[p]], made |-> << >>, ok |-> TRUE,
                 nobucket |-> FALSE, i |-> 1]

\* What holds at the beginning and is kept by every round holds of the result.
LEMMA FindEnds ==
    ASSUME num_blkhash \in Sizes, hash_seed \in Seeds, NEW p, want[p] \in Nodes,
           NEW path, path = Path[want[p]], NEW P \in SUBSET FindState(path),
           FindStart(p) \in P,
           \A s \in P : ~FindStops(path, s) => FindNext(p, path, s) \in P
    PROVE  mlk_shrblk_find(p) \in P
<1> DEFINE S == FindState(path)
           stop == [s \in S |-> FindStops(path, s)]
           out == [s \in S |-> s]
           nxt == [s \in S |-> IF FindStops(path, s) THEN s ELSE FindNext(p, path, s)]
           K == Len(path) + 1
           m == [s \in S |-> K - s.i]
           find == CHOOSE f : f = [s \in S |-> IF FindStops(path, s) THEN s ELSE f[FindNext(p, path, s)]]
<1>1. mlk_shrblk_find(p) = find[FindStart(p)]
  BY DEF mlk_shrblk_find, FindState, FindStart, FindStops, FindNext
<1>2. path \in Seq(Nodes) /\ Len(path) \in Nat /\ \A i \in 1 .. Len(path) : path[i] \in Nodes
  BY PathIs
<1> HIDE DEF S
<1>3. ASSUME NEW s \in S, ~FindStops(path, s)
      PROVE  FindNext(p, path, s) \in S /\ FindNext(p, path, s).i = s.i + 1
  <2>1. s \in FindState(path) /\ s.i \in 1 .. Len(path) + 1
    BY FindStateType DEF S
  <2>2. s.i \in 1 .. Len(path)
    BY <1>2, <1>3, <2>1 DEF FindStops
  <2>3. PICK d \in Nodes : d = path[s.i]
    BY <1>2, <2>2
  <2>4. HashOf[hash_seed] \in [Nodes -> Nat]
    BY SeedType
  <2>5. PICK h \in Nat : h = HashOf[PvtSeed(p)][d]
    BY <2>3, <2>4, PvtSeedIs
  <2>6. FindNext(p, path, s) \in FindState(path) /\ FindNext(p, path, s).i = s.i + 1
    BY <1>2, <1>3, <2>1, <2>3, <2>5, FindNextIs
  <2> QED BY <2>6 DEF S
<1>4. stop \in [S -> BOOLEAN]
  BY DEF FindStops
<1>5. nxt \in [S -> S]
  BY <1>3
<1>6. m \in [S -> 0 .. K]
  <2>1. \A s \in S : K - s.i \in 0 .. K
    BY <1>2, FindStateType DEF S
  <2> QED BY <2>1
<1>7. \A s \in S : ~stop[s] => m[nxt[s]] < m[s]
  <2> SUFFICES ASSUME NEW s \in S, ~stop[s] PROVE m[nxt[s]] < m[s]
    OBVIOUS
  <2>1. ~FindStops(path, s) /\ nxt[s] = FindNext(p, path, s) /\ nxt[s] \in S
    BY <1>5
  <2>2. FindNext(p, path, s).i = s.i + 1 /\ s.i \in Nat
    BY <1>3, <2>1, FindStateType DEF S
  <2> QED BY <1>2, <2>1, <2>2
<1>8. Terminates(S, stop, nxt, m, K)
  <2> HIDE DEF stop, nxt, m
  <2> QED BY <1>2, <1>4, <1>5, <1>6, <1>7 DEF Terminates
<1>9. ASSUME NEW f, NEW s \in S
      PROVE  (IF stop[s] THEN out[s] ELSE f[nxt[s]]) =
             (IF FindStops(path, s) THEN s ELSE f[FindNext(p, path, s)])
  OBVIOUS
<1>10. P \in SUBSET S /\ \A s \in P : stop[s] = FindStops(path, s) /\ out[s] = s /\ (~stop[s] => nxt[s] = FindNext(p, path, s))
  BY DEF S
<1> HIDE DEF stop, nxt, m, out, K
<1>11. Loop(S, stop, out, nxt, find)
  <2>1. PICK f : Loop(S, stop, out, nxt, f)
    BY <1>8, LoopExists
  <2>2. f = [s \in S |-> IF FindStops(path, s) THEN s ELSE f[FindNext(p, path, s)]]
    BY <1>9, <2>1 DEF Loop
  <2>3. find = [s \in S |-> IF FindStops(path, s) THEN s ELSE find[FindNext(p, path, s)]]
    BY <2>2
  <2> HIDE DEF find
  <2>4. \A s \in S : (IF stop[s] THEN out[s] ELSE find[nxt[s]]) =
                      (IF FindStops(path, s) THEN s ELSE find[FindNext(p, path, s)])
    BY <1>9
  <2>5. find = [s \in S |-> IF stop[s] THEN out[s] ELSE find[nxt[s]]]
    BY <2>3, <2>4
  <2> QED BY <2>5 DEF Loop
<1> HIDE DEF find
<1>12. Keeps(P, stop, nxt)
  BY <1>10 DEF Keeps
<1>13. \E e \in P : stop[e] /\ find[FindStart(p)] = out[e]
  BY <1>8, <1>10, <1>11, <1>12, LoopEnds
<1> QED BY <1>1, <1>10, <1>13

\* The nodes of a sequence with one more.
LEMMA AppendIs ==
    ASSUME NEW s \in Seq(Nodes), OneToOne(s), NEW d \in Nodes, d \notin Range(s)
    PROVE  /\ Append(s, d) \in Seq(Nodes) /\ OneToOne(Append(s, d))
           /\ Range(Append(s, d)) = Range(s) \union {d}
<1> DEFINE r == Append(s, d)
           k == Len(s)
<1>1. k \in Nat /\ DOMAIN s = 1 .. k
  OBVIOUS
<1>2. /\ r \in Seq(Nodes) /\ DOMAIN r = 1 .. k + 1
      /\ \A i \in 1 .. k : r[i] = s[i]
      /\ r[k + 1] = d
  OBVIOUS
<1>3. \A i \in 1 .. k : s[i] # d
  BY <1>1 DEF Range
<1> HIDE DEF r, k
<1>4. 1 .. k + 1 = (1 .. k) \union {k + 1} /\ k + 1 \notin 1 .. k
  BY <1>1
<1>5. OneToOne(r)
  <2> SUFFICES ASSUME NEW i \in 1 .. k + 1, NEW j \in 1 .. k + 1, r[i] = r[j] PROVE i = j
    BY <1>2 DEF OneToOne
  <2>1. CASE i \in 1 .. k /\ j \in 1 .. k
    BY <1>1, <1>2, <2>1 DEF OneToOne
  <2>2. CASE i = k + 1 \/ j = k + 1
    BY <1>2, <1>3, <1>4, <2>2
  <2> QED BY <1>4, <2>1, <2>2
<1>6. Range(r) = Range(s) \union {d}
  <2>1. Range(r) = {r[i] : i \in 1 .. k + 1} /\ Range(s) = {s[i] : i \in 1 .. k}
    BY <1>1, <1>2 DEF Range
  <2> QED BY <1>2, <1>4, <2>1
<1> QED BY <1>2, <1>5, <1>6 DEF r

\* The nodes of two sequences.
LEMMA ConcatIs ==
    ASSUME NEW s \in Seq(Nodes), OneToOne(s), NEW v \in Seq(Nodes), OneToOne(v),
           Range(s) \intersect Range(v) = {}
    PROVE  /\ s \o v \in Seq(Nodes) /\ OneToOne(s \o v)
           /\ Range(s \o v) = Range(s) \union Range(v)
<1> DEFINE r == s \o v
           k == Len(s)
           l == Len(v)
<1>1. k \in Nat /\ DOMAIN s = 1 .. k /\ l \in Nat /\ DOMAIN v = 1 .. l
  OBVIOUS
<1>2. /\ r \in Seq(Nodes) /\ DOMAIN r = 1 .. k + l
      /\ \A i \in 1 .. k : r[i] = s[i]
      /\ \A i \in 1 .. k + l : i > k => i - k \in 1 .. l /\ r[i] = v[i - k]
  OBVIOUS
<1>3. \A i \in 1 .. k, j \in 1 .. l : s[i] # v[j]
  BY <1>1 DEF Range
<1> HIDE DEF r, k, l
<1>4. \A i \in 1 .. k + l : i \in 1 .. k \/ i > k
  BY <1>1
<1>5. OneToOne(r)
  <2> SUFFICES ASSUME NEW i \in 1 .. k + l, NEW j \in 1 .. k + l, r[i] = r[j] PROVE i = j
    BY <1>2 DEF OneToOne
  <2>1. CASE i \in 1 .. k /\ j \in 1 .. k
    BY <1>1, <1>2, <2>1 DEF OneToOne
  <2>2. CASE i > k /\ j > k
    <3>1. i - k \in 1 .. l /\ j - k \in 1 .. l /\ v[i - k] = v[j - k]
      BY <1>2, <2>2
    <3>2. i - k = j - k
      BY <1>1, <3>1 DEF OneToOne
    <3> QED BY <1>1, <3>2
  <2>3. CASE i \in 1 .. k /\ j > k
    BY <1>2, <1>3, <2>3
  <2>4. CASE i > k /\ j \in 1 .. k
    BY <1>2, <1>3, <2>4
  <2> QED BY <1>4, <2>1, <2>2, <2>3, <2>4
<1>6. Range(r) = Range(s) \union Range(v)
  <2>1. /\ Range(r) = {r[i] : i \in 1 .. k + l} /\ Range(s) = {s[i] : i \in 1 .. k}
        /\ Range(v) = {v[i] : i \in 1 .. l}
    BY <1>1, <1>2 DEF Range
  <2>2. ASSUME NEW x \in Range(r) PROVE x \in Range(s) \union Range(v)
    BY <1>2, <1>4, <2>1
  <2>3. ASSUME NEW x \in Range(s) PROVE x \in Range(r)
    <3>1. PICK i \in 1 .. k : s[i] = x
      BY <2>1
    <3>2. i \in 1 .. k + l
      BY <1>1
    <3> QED BY <1>2, <2>1, <3>1, <3>2
  <2>4. ASSUME NEW x \in Range(v) PROVE x \in Range(r)
    <3>1. PICK i \in 1 .. l : v[i] = x
      BY <2>1
    <3>2. k + i \in 1 .. k + l /\ k + i > k /\ (k + i) - k = i
      BY <1>1
    <3>3. r[k + i] = v[i]
      BY <1>2, <3>2
    <3> QED BY <2>1, <3>1, <3>2, <3>3
  <2> QED BY <2>2, <2>3, <2>4
<1> QED BY <1>2, <1>5, <1>6 DEF r

\* What the search has done to the table and the tree of the nodes A: the nodes made
\* are new, they are in the table with the others, and with the nodes above them.
SearchKeeps(A, made, t, g) ==
    /\ made \in Seq(Nodes) /\ OneToOne(made) /\ Range(made) \intersect A = {}
    /\ Range(made) \subseteq Nodes
    /\ Good(num_blkhash, t, A \union Range(made), g)
    /\ Closed(A \union Range(made))

\* A node is added to the table or is not, the nodes above it being there.
LEMMA SearchAdds ==
    ASSUME num_blkhash \in Sizes, NEW A \in SUBSET Nodes, NEW g \in [Nodes -> Nat],
           NEW made, NEW t, SearchKeeps(A, made, t, g), NEW d \in Nodes,
           Places(num_blkhash, t, d, g[d]) = {},
           \A j \in 1 .. Len(Path[d]) - 1 : Path[d][j] \in A \union Range(made)
    PROVE  SearchKeeps(A, IF mlk_shrhash_add(num_blkhash, t, d, g[d]).ok THEN Append(made, d) ELSE made,
                       mlk_shrhash_add(num_blkhash, t, d, g[d]).t, g)
<1> DEFINE n == num_blkhash
           B == A \union Range(made)
           h == g[d]
           a == mlk_shrhash_add(n, t, d, h)
<1>1. /\ made \in Seq(Nodes) /\ OneToOne(made) /\ Range(made) \intersect A = {}
      /\ Range(made) \subseteq Nodes /\ Good(n, t, B, g) /\ Closed(B)
  BY DEF SearchKeeps
<1>2. B \in SUBSET Nodes /\ NoNode \notin B /\ h \in Nat
  BY <1>1, NoNodeIs
<1>3. d \notin B
  <2> SUFFICES ASSUME d \in B PROVE FALSE
    OBVIOUS
  <2> HIDE DEF B
  <2>1. PICK c \in 0 .. n - 1 : PlaceIs(n, t, d, g[d], c)
    BY <1>1, <1>2, GoodPlaces
  <2> QED BY <2>1 DEF PlaceIs
<1>4. Good(n, a.t, IF a.ok THEN B \union {d} ELSE B, g)
  <2>1. h = g[d]
    OBVIOUS
  <2> HIDE DEF B, h
  <2> QED BY <1>1, <1>2, <1>3, <2>1, AddGood
<1>5. CASE ~a.ok
  <2>1. Good(n, a.t, B, g)
    BY <1>4, <1>5
  <2> QED BY <1>1, <1>5, <2>1 DEF SearchKeeps
<1>6. CASE a.ok
  <2> DEFINE v == Append(made, d)
  <2>1. Good(n, a.t, B \union {d}, g)
    BY <1>4, <1>6
  <2>2. v \in Seq(Nodes) /\ OneToOne(v) /\ Range(v) = Range(made) \union {d}
    BY <1>1, <1>3, AppendIs
  <2> HIDE DEF v
  <2>3. A \union Range(v) = B \union {d} /\ Range(v) \intersect A = {} /\ Range(v) \subseteq Nodes
    BY <1>1, <1>3, <2>2
  <2>4. Closed(B \union {d})
    <3>1. Len(Path[d]) \in Nat /\ Path[d][Len(Path[d])] = d
      BY PathIs
    <3>2. ASSUME NEW i \in 1 .. Len(Path[d]) PROVE Path[d][i] \in B \union {d}
      <4>1. i = Len(Path[d]) \/ i \in 1 .. Len(Path[d]) - 1
        BY <3>1
      <4> QED BY <3>1, <4>1
    <3>3. \A x \in B : \A i \in 1 .. Len(Path[x]) : Path[x][i] \in B \union {d}
      BY <1>1 DEF Closed
    <3> QED BY <3>2, <3>3 DEF Closed
  <2>5. SearchKeeps(A, v, a.t, g)
    BY <2>1, <2>2, <2>3, <2>4 DEF SearchKeeps
  <2> QED BY <1>6, <2>5 DEF v
<1> QED BY <1>5, <1>6

\* The search returns with a good table.
LEMMA SearchGood ==
    ASSUME num_blkhash \in Sizes, hash_seed \in Seeds, NEW p, want[p] \in Nodes,
           NEW A \in SUBSET Nodes, Closed(A), NEW g, g = HashOf[hash_seed],
           Good(num_blkhash, segs[mlkhash_shmid[p]], A, g)
    PROVE  /\ SearchKeeps(A, mlk_shrblk_find(p).made, mlk_shrblk_find(p).t, g)
           /\ mlk_shrblk_find(p).ok \in BOOLEAN /\ mlk_shrblk_find(p).nobucket \in BOOLEAN
<1> DEFINE path == Path[want[p]]
           Begun(s) == s.ok => \A j \in 1 .. s.i - 1 : path[j] \in A \union Range(s.made)
           P == {s \in FindState(path) : SearchKeeps(A, s.made, s.t, g) /\ Begun(s)}
           r == mlk_shrblk_find(p)
<1>1. path \in Seq(Nodes) /\ Len(path) \in Nat /\ \A i \in 1 .. Len(path) : path[i] \in Nodes
  BY PathIs
<1>2. \A i \in 1 .. Len(path) : Len(Path[path[i]]) = i /\ \A j \in 1 .. i : Path[path[i]][j] = path[j]
  BY PathBegins
<1>3. g \in [Nodes -> Nat] /\ PvtSeed(p) = hash_seed
  BY SeedType, PvtSeedIs
<1>4. path = Path[want[p]]
  OBVIOUS
<1> HIDE DEF path
<1>5. FindStart(p) \in P
  <2> DEFINE s == FindStart(p)
  <2>1. s.t = segs[mlkhash_shmid[p]] /\ s.made = << >> /\ s.ok = TRUE /\ s.nobucket = FALSE /\ s.i = 1
        /\ s = [t |-> s.t, made |-> s.made, ok |-> s.ok, nobucket |-> s.nobucket, i |-> s.i]
    BY DEF FindStart
  <2> HIDE DEF s
  <2>2. s.t \in Tables
    BY <2>1 DEF Good
  <2>3. s \in FindState(path)
    <3>1. s.made \in Seq(Nodes) /\ s.i \in 1 .. Len(path) + 1
      BY <1>1, <2>1
    <3>2. s.ok \in BOOLEAN /\ s.nobucket \in BOOLEAN
      BY <2>1
    <3> QED BY <2>1, <2>2, <3>1, <3>2 DEF FindState
  <2>4. s.made \in Seq(Nodes) /\ OneToOne(s.made) /\ Range(s.made) = {}
    <3>1. << >> \in Seq(Nodes) /\ DOMAIN << >> = {}
      OBVIOUS
    <3>2. s.made \in Seq(Nodes) /\ DOMAIN s.made = {}
      BY <2>1, <3>1
    <3> QED BY <3>2 DEF OneToOne, Range
  <2>5. A \union Range(s.made) = A
    BY <2>4
  <2>6. SearchKeeps(A, s.made, s.t, g)
    BY <2>1, <2>4, <2>5 DEF SearchKeeps
  <2>7. Begun(s)
    BY <2>1
  <2> QED BY <2>3, <2>6, <2>7 DEF s
<1>6. ASSUME NEW s \in P, ~FindStops(path, s) PROVE FindNext(p, path, s) \in P
  <2> DEFINE b == FindNext(p, path, s)
             u == s.t
             made == s.made
             i == s.i
  <2>1. s \in FindState(path) /\ SearchKeeps(A, made, u, g) /\ Begun(s)
    OBVIOUS
  <2>2. s.ok = TRUE /\ i \in 1 .. Len(path) /\ s.ok \in BOOLEAN
    BY <1>1, <1>6, <2>1, FindStateType DEF FindStops
  <2>3. \A j \in 1 .. i - 1 : path[j] \in A \union Range(made)
    BY <2>1, <2>2
  <2>4. PICK d \in Nodes : d = path[i]
    BY <1>1, <2>2
  <2>5. PICK h \in Nat : h = HashOf[PvtSeed(p)][d]
    BY <1>3, <2>4
  <2>6. h = g[d]
    BY <1>3, <2>5
  <2>7. b \in FindState(path) /\ b.i = i + 1 /\ RoundIs(num_blkhash, s, d, h, b)
    BY <1>1, <1>6, <2>1, <2>4, <2>5, FindNextIs
  <2>8. Len(Path[d]) = i /\ \A j \in 1 .. i : Path[d][j] = path[j]
    BY <1>2, <2>2, <2>4
  <2>9. \A j \in 1 .. Len(Path[d]) - 1 : Path[d][j] \in A \union Range(made)
    BY <2>2, <2>3, <2>8
  <2> DEFINE a == mlk_shrhash_add(num_blkhash, u, d, h)
  <2>10. \/ Places(num_blkhash, u, d, h) # {} /\ b.t = u /\ b.made = made /\ b.ok = s.ok
         \/ b.t = u /\ b.made = made /\ b.ok = FALSE
         \/ Places(num_blkhash, u, d, h) = {} /\ a.ok /\ b.t = a.t /\ b.made = Append(made, d) /\ b.ok = s.ok
         \/ Places(num_blkhash, u, d, h) = {} /\ ~a.ok /\ b.t = a.t /\ b.made = made /\ b.ok = FALSE
    BY <2>7 DEF RoundIs
  <2>11. (1 .. b.i - 1) = (1 .. i - 1) \union {i}
    BY <2>2, <2>7
  <2> HIDE DEF b, u, made, i, P
  <2>12. SearchKeeps(A, b.made, b.t, g) /\ Begun(b)
    <3>1. CASE Places(num_blkhash, u, d, h) # {} /\ b.t = u /\ b.made = made /\ b.ok = s.ok
      <4>1. d \in A \union Range(made)
        <5> DEFINE B == A \union Range(made)
        <5>1. B \in SUBSET Nodes /\ Good(num_blkhash, u, B, g)
          BY <2>1 DEF SearchKeeps
        <5> HIDE DEF B
        <5>2. d \in B
          BY <1>3, <2>6, <3>1, <5>1, GoodPlaces
        <5> QED BY <5>2 DEF B
      <4>2. \A j \in 1 .. b.i - 1 : path[j] \in A \union Range(made)
        BY <2>3, <2>4, <2>11, <4>1
      <4> QED BY <2>1, <3>1, <4>2
    <3>2. CASE b.t = u /\ b.made = made /\ b.ok = FALSE
      BY <2>1, <3>2
    <3>3. CASE Places(num_blkhash, u, d, h) = {} /\ a.ok /\ b.t = a.t /\ b.made = Append(made, d) /\ b.ok = s.ok
      <4>1. SearchKeeps(A, IF a.ok THEN Append(made, d) ELSE made, a.t, g)
        BY <1>3, <2>1, <2>6, <2>9, <3>3, SearchAdds
      <4>2. SearchKeeps(A, b.made, b.t, g)
        BY <3>3, <4>1
      <4>3. made \in Seq(Nodes)
        BY <2>1 DEF SearchKeeps
      <4>4. Range(made) \union {d} \subseteq Range(Append(made, d))
        <5>1. Len(made) \in Nat /\ DOMAIN made = 1 .. Len(made)
          BY <4>3
        <5>2. /\ DOMAIN Append(made, d) = 1 .. Len(made) + 1 /\ Append(made, d)[Len(made) + 1] = d
              /\ \A k \in 1 .. Len(made) : k \in 1 .. Len(made) + 1 /\ Append(made, d)[k] = made[k]
          BY <4>3
        <5>3. Len(made) + 1 \in 1 .. Len(made) + 1
          BY <5>1
        <5> QED BY <5>1, <5>2, <5>3 DEF Range
      <4>5. \A j \in 1 .. b.i - 1 : path[j] \in A \union Range(b.made)
        BY <2>3, <2>4, <2>11, <3>3, <4>4
      <4> QED BY <4>2, <4>5
    <3>4. CASE Places(num_blkhash, u, d, h) = {} /\ ~a.ok /\ b.t = a.t /\ b.made = made /\ b.ok = FALSE
      <4>1. SearchKeeps(A, IF a.ok THEN Append(made, d) ELSE made, a.t, g)
        BY <1>3, <2>1, <2>6, <2>9, <3>4, SearchAdds
      <4> QED BY <3>4, <4>1
    <3> QED BY <2>10, <3>1, <3>2, <3>3, <3>4
  <2>13. b \in P
    BY <2>7, <2>12 DEF P
  <2> QED BY <2>13 DEF b
<1>7. P \in SUBSET FindState(path)
  OBVIOUS
<1>8. \A s \in P : s \in FindState(path) /\ SearchKeeps(A, s.made, s.t, g)
  OBVIOUS
<1> HIDE DEF P
<1>9. r \in P
  BY <1>4, <1>5, <1>6, <1>7, FindEnds
<1> HIDE DEF r
<1>10. SearchKeeps(A, r.made, r.t, g) /\ r.ok \in BOOLEAN /\ r.nobucket \in BOOLEAN
  BY <1>8, <1>9, FindStateType
<1> QED BY <1>10 DEF r

----------------------------------------------------------------------------
(* The inductive invariant.                                                *)

InMap(t) == \A b \in Buckets : t[b].usedmap \subseteq 0 .. NEIGHBORS - 1

\* The tree and the tables.
TableOK ==
    /\ TreeIs
    /\ hash \in [Nodes -> Nat]
    /\ \A n \in Allocated : hash[n] = HashOf[hash_seed][n]
    /\ segs \in Seq(Tables) /\ hash_shmid = Len(segs) /\ hash_shmid \in Nat \ {0}
    /\ \A s \in 1 .. hash_shmid : InMap(segs[s])
    /\ num_blkhash \in Sizes /\ hash_seed \in Seeds
    /\ Good(num_blkhash, Current, Allocated, HashOf[hash_seed])

\* The segment with the current table is written.
LEMMA SegSet ==
    ASSUME segs \in Seq(Tables), hash_shmid = Len(segs), hash_shmid \in Nat \ {0},
           \A s \in 1 .. hash_shmid : InMap(segs[s]), NEW t \in Tables, InMap(t),
           NEW ss, ss = [segs EXCEPT ![hash_shmid] = t]
    PROVE  /\ ss \in Seq(Tables) /\ Len(ss) = hash_shmid /\ ss[hash_shmid] = t
           /\ \A s \in 1 .. hash_shmid : InMap(ss[s])
<1>1. ss \in Seq(Tables) /\ Len(ss) = Len(segs)
  OBVIOUS
<1>2. ss[hash_shmid] = t /\ \A s \in 1 .. hash_shmid : s # hash_shmid => ss[s] = segs[s]
  OBVIOUS
<1> QED BY <1>1, <1>2

\* A good table has the maps that TypeOK wants.
LEMMA GoodMaps ==
    ASSUME NEW n, NEW t, NEW A, NEW g, Good(n, t, A, g) PROVE t \in Tables /\ InMap(t)
BY DEF Good, InMap

\* Deleting nodes, each with those below it.
LEMMA DeleteKeeps ==
    ASSUME TableOK, NEW p, mlkhash_shmid[p] = hash_shmid, NEW D \in SUBSET Allocated,
           \A d \in D : \A x \in Allocated : Within(x, d) => x \in D,
           Delete(p, D), UNCHANGED <<num_blkhash, hash_shmid, hash_seed>>
    PROVE  TableOK'
<1> DEFINE n == num_blkhash
           g == HashOf[hash_seed]
           A == Allocated
           t == DeleteAll(n, segs[hash_shmid], D)
<1>1. /\ TreeIs /\ hash \in [Nodes -> Nat] /\ \A a \in A : hash[a] = g[a]
      /\ segs \in Seq(Tables) /\ hash_shmid = Len(segs) /\ hash_shmid \in Nat \ {0}
      /\ \A s \in 1 .. hash_shmid : InMap(segs[s])
      /\ n \in Sizes /\ hash_seed \in Seeds /\ Good(n, segs[hash_shmid], A, g)
  BY DEF TableOK, Current
<1>2. A \in SUBSET Nodes /\ IsFiniteSet(A) /\ blocks \in Seq(Nodes) /\ OneToOne(blocks) /\ Closed(A)
  BY <1>1, TreeNodes DEF TreeIs
<1>3. g \in [Nodes -> Nat]
  BY <1>1, SeedType
<1>4. IsFiniteSet(D)
  BY <1>2, FS_Subset
<1>5. /\ segs' = [segs EXCEPT ![hash_shmid] = t]
      /\ blocks' = Others(D)
      /\ hash' = [x \in Nodes |-> IF x \in D THEN 0 ELSE hash[x]]
  BY DEF Delete
<1>6. Others(D) \in Seq(Nodes) /\ OneToOne(Others(D)) /\ Range(Others(D)) = A \ D
  BY <1>2, OthersIs DEF Allocated
<1>7. Allocated' = A \ D /\ blocks' \in Seq(Nodes) /\ OneToOne(blocks')
  BY <1>5, <1>6 DEF Allocated
<1>8. Good(n, t, A \ D, g)
  <2> DEFINE u == segs[hash_shmid]
  <2>1. Good(n, u, A, g) /\ \A d \in D : hash[d] = g[d]
    BY <1>1
  <2> HIDE DEF u, A, g
  <2>2. Good(n, DeleteAll(n, u, D), A \ D, g)
    BY <1>1, <1>2, <1>3, <1>4, <2>1, DeleteAllGood DEF A
  <2> QED BY <2>2 DEF u
<1> HIDE DEF t
<1>9. t \in Tables /\ InMap(t)
  BY <1>8, GoodMaps
<1>10. /\ segs' \in Seq(Tables) /\ Len(segs') = hash_shmid /\ segs'[hash_shmid] = t
       /\ \A s \in 1 .. hash_shmid : InMap(segs'[s])
  BY <1>1, <1>5, <1>9, SegSet
<1>11. Closed(A \ D)
  <2> SUFFICES ASSUME NEW x \in A \ D, NEW i \in 1 .. Len(Path[x]) PROVE Path[x][i] \in A \ D
    BY DEF Closed
  <2>1. Path[x][i] \in A
    BY <1>2 DEF Closed
  <2>2. Within(x, Path[x][i])
    BY <1>2, WithinIs
  <2> QED BY <2>1, <2>2
<1>12. hash' \in [Nodes -> Nat] /\ \A x \in A \ D : hash'[x] = g[x]
  BY <1>1, <1>2, <1>5
<1> HIDE DEF A, g
<1>13. TreeIs'
  BY <1>7, <1>11 DEF TreeIs
<1> QED BY <1>1, <1>7, <1>8, <1>10, <1>12, <1>13 DEF TableOK, Current, g

\* A rehash that found a seed.
LEMMA RehashKeeps ==
    ASSUME TableOK, mlk_rehash(hash_shmid, RehashPasses) PROVE TableOK'
<1> DEFINE n == num_blkhash
           A == Allocated
           r == RehashPasses
           t == r.t
           seed == r.seed
<1>1. /\ TreeIs /\ segs \in Seq(Tables) /\ hash_shmid = Len(segs) /\ hash_shmid \in Nat \ {0}
      /\ \A s \in 1 .. hash_shmid : InMap(segs[s])
      /\ n \in Sizes /\ hash_seed \in Seeds
  BY DEF TableOK
<1>2. RehashIs(r)
  BY <1>1, RehashPassesGood
<1>3. /\ r.ok /\ hash_seed' = seed /\ segs' = [segs EXCEPT ![hash_shmid] = t]
      /\ hash' = [x \in Nodes |-> IF x \in A THEN HashOf[seed][x] ELSE 0]
      /\ blocks' = blocks /\ num_blkhash' = num_blkhash /\ hash_shmid' = hash_shmid
  BY DEF mlk_rehash
<1>4. seed \in Seeds /\ Good(n, t, A, HashOf[seed])
  BY <1>2, <1>3 DEF RehashIs
<1> HIDE DEF r, t, seed
<1>5. HashOf[seed] \in [Nodes -> Nat] /\ A \in SUBSET Nodes
  BY <1>1, <1>4, SeedType, TreeNodes
<1>6. t \in Tables /\ InMap(t)
  BY <1>4, GoodMaps
<1>7. /\ segs' \in Seq(Tables) /\ Len(segs') = hash_shmid /\ segs'[hash_shmid] = t
      /\ \A s \in 1 .. hash_shmid : InMap(segs'[s])
  BY <1>1, <1>3, <1>6, SegSet
<1>8. hash' \in [Nodes -> Nat] /\ \A x \in A : hash'[x] = HashOf[seed][x]
  BY <1>3, <1>5
<1>9. Allocated' = A /\ TreeIs'
  BY <1>1, <1>3 DEF TreeIs, Allocated
<1> HIDE DEF A
<1> QED BY <1>1, <1>3, <1>4, <1>7, <1>8, <1>9 DEF TableOK, Current

\* A new table is in a segment of its own.
LEMMA ResizeKeeps ==
    ASSUME TableOK, needed \subseteq Flags, mlk_shrhash_resize(hash_shmid)
    PROVE  TableOK' /\ needed' \subseteq Flags /\ hash_shmid' \in {hash_shmid, hash_shmid + 1}
<1> DEFINE n == num_blkhash
           A == Allocated
           g == HashOf[hash_seed]
           u == segs[hash_shmid]
<1>1. /\ TreeIs /\ hash \in [Nodes -> Nat] /\ \A a \in A : hash[a] = g[a]
      /\ segs \in Seq(Tables) /\ hash_shmid = Len(segs) /\ hash_shmid \in Nat \ {0}
      /\ \A s \in 1 .. hash_shmid : InMap(segs[s])
      /\ n \in Sizes /\ hash_seed \in Seeds /\ Good(n, u, A, g)
  BY DEF TableOK, Current
<1>2. PICK r : /\ r = ResizeTries(u)
               /\ \/ /\ r.ok
                     /\ segs' = Append([segs EXCEPT ![hash_shmid] = EmptyTable], r.t)
                     /\ num_blkhash' = r.n
                     /\ hash_shmid' = Len(segs) + 1
                     /\ needed' = needed \ {"gc", "resize"}
                  \/ /\ \/ ~r.ok /\ r.n # 0 /\ needed' = needed \union {"gc", "rehash"}
                        \/ needed' = needed
                        \/ r.tries > 1 /\ needed' = needed \union {"gc"}
                     /\ UNCHANGED <<segs, num_blkhash, hash_shmid>>
               /\ UNCHANGED <<treeVars, hash_seed>>
  BY DEF mlk_shrhash_resize
<1>3. needed' \subseteq Flags
  BY <1>2 DEF Flags
<1>4. /\ Allocated' = A /\ TreeIs' /\ hash' = hash /\ hash_seed' = hash_seed
  BY <1>1, <1>2 DEF TreeIs, Allocated, treeVars
<1>5. A \in SUBSET Nodes /\ Len(blocks) \in Nat /\ g \in [Nodes -> Nat]
  BY <1>1, TreeNodes, SeedType
<1>6. ResizeIs(r, A, g)
  <2> HIDE DEF u, A, g
  <2>1. ResizeIs(ResizeTries(u), A, g)
    BY <1>1, <1>5, ResizeTriesGood
  <2> QED BY <1>2, <2>1
<1>7. CASE UNCHANGED <<segs, num_blkhash, hash_shmid>>
  <2>1. TableOK'
    <3> HIDE DEF A
    <3> QED BY <1>1, <1>4, <1>7 DEF TableOK, Current
  <2> QED BY <1>3, <1>7, <2>1
<1>8. CASE /\ r.ok
           /\ segs' = Append([segs EXCEPT ![hash_shmid] = EmptyTable], r.t)
           /\ num_blkhash' = r.n
           /\ hash_shmid' = Len(segs) + 1
  <2> DEFINE t == r.t
             m == r.n
             ss == [segs EXCEPT ![hash_shmid] = EmptyTable]
  <2>1. m \in Sizes /\ Good(m, t, A, g)
    BY <1>6, <1>8 DEF ResizeIs
  <2>2. Good(m, EmptyTable, {}, g)
    BY <2>1, GoodEmpty
  <2>3. EmptyTable \in Tables /\ InMap(EmptyTable)
    BY <2>2, GoodMaps
  <2> HIDE DEF t, m
  <2>4. t \in Tables /\ InMap(t)
    BY <2>1, GoodMaps
  <2>5. segs' = Append(ss, t) /\ num_blkhash' = m /\ hash_shmid' = hash_shmid + 1
    BY <1>1, <1>8 DEF t, m
  <2>6. ss = [segs EXCEPT ![hash_shmid] = EmptyTable]
    OBVIOUS
  <2> HIDE DEF ss
  <2>7. /\ ss \in Seq(Tables) /\ Len(ss) = hash_shmid
        /\ \A s \in 1 .. hash_shmid : InMap(ss[s])
    BY <1>1, <2>3, <2>6, SegSet
  <2>8. /\ segs' \in Seq(Tables) /\ Len(segs') = hash_shmid + 1 /\ segs'[hash_shmid + 1] = t
        /\ \A s \in 1 .. hash_shmid : segs'[s] = ss[s]
    BY <1>1, <2>4, <2>5, <2>7
  <2>9. \A s \in 1 .. hash_shmid + 1 : InMap(segs'[s])
    <3>1. \A s \in 1 .. hash_shmid + 1 : s \in 1 .. hash_shmid \/ s = hash_shmid + 1
      BY <1>1
    <3> QED BY <2>4, <2>7, <2>8, <3>1
  <2>10. hash_shmid + 1 \in Nat \ {0}
    BY <1>1
  <2>11. TableOK'
    <3> HIDE DEF A
    <3> QED BY <1>1, <1>4, <2>1, <2>5, <2>8, <2>9, <2>10 DEF TableOK, Current
  <2> QED BY <1>3, <2>5, <2>11
<1> QED BY <1>2, <1>7, <1>8

\* The search creates nodes.
LEMMA SearchKeepsTable ==
    ASSUME TableOK, NEW p, mlkhash_shmid[p] = hash_shmid, want[p] \in Nodes,
           NEW r, r = mlk_shrblk_find(p),
           segs' = [segs EXCEPT ![hash_shmid] = r.t], blocks' = blocks \o r.made,
           hash' = [d \in Nodes |-> IF Contains(r.made, d) THEN HashOf[PvtSeed(p)][d] ELSE hash[d]],
           UNCHANGED <<num_blkhash, hash_shmid, hash_seed>>
    PROVE  TableOK' /\ r.ok \in BOOLEAN /\ r.nobucket \in BOOLEAN
<1> DEFINE n == num_blkhash
           g == HashOf[hash_seed]
           A == Allocated
           t == r.t
           made == r.made
           B == A \union Range(made)
<1>1. /\ TreeIs /\ hash \in [Nodes -> Nat] /\ \A a \in A : hash[a] = g[a]
      /\ segs \in Seq(Tables) /\ hash_shmid = Len(segs) /\ hash_shmid \in Nat \ {0}
      /\ \A s \in 1 .. hash_shmid : InMap(segs[s])
      /\ n \in Sizes /\ hash_seed \in Seeds /\ Good(n, segs[hash_shmid], A, g)
  BY DEF TableOK, Current
<1>2. A \in SUBSET Nodes /\ IsFiniteSet(A) /\ blocks \in Seq(Nodes) /\ OneToOne(blocks) /\ Closed(A)
  BY <1>1, TreeNodes DEF TreeIs
<1>3. g \in [Nodes -> Nat] /\ PvtSeed(p) = hash_seed
  BY <1>1, SeedType, PvtSeedIs
<1>4. SearchKeeps(A, made, t, g) /\ r.ok \in BOOLEAN /\ r.nobucket \in BOOLEAN
  <2> DEFINE q == mlk_shrblk_find(p)
  <2>1. g = HashOf[hash_seed] /\ Good(num_blkhash, segs[mlkhash_shmid[p]], A, g)
    BY <1>1
  <2> HIDE DEF A, g
  <2>2. /\ SearchKeeps(A, q.made, q.t, g) /\ q.ok \in BOOLEAN /\ q.nobucket \in BOOLEAN
    BY <1>1, <1>2, <2>1, SearchGood
  <2> QED BY <2>2
<1>5. /\ made \in Seq(Nodes) /\ OneToOne(made) /\ Range(made) \intersect A = {}
      /\ Range(made) \subseteq Nodes /\ Good(n, t, B, g) /\ Closed(B)
  BY <1>4 DEF SearchKeeps
<1>6. /\ blocks \o made \in Seq(Nodes) /\ OneToOne(blocks \o made)
      /\ Range(blocks \o made) = Range(blocks) \union Range(made)
  <2>1. Range(blocks) \intersect Range(made) = {}
    BY <1>5 DEF Allocated
  <2> HIDE DEF made
  <2> QED BY <1>2, <1>5, <2>1, ConcatIs
<1>7. blocks' \in Seq(Nodes) /\ OneToOne(blocks') /\ Allocated' = B
  BY <1>6 DEF Allocated
<1>8. \A d \in Nodes : Contains(made, d) <=> d \in Range(made)
  <2>1. DOMAIN made = 1 .. Len(made)
    BY <1>5
  <2> HIDE DEF made
  <2> QED BY <2>1 DEF Contains, Range
<1>9. segs' = [segs EXCEPT ![hash_shmid] = t]
      /\ hash' = [d \in Nodes |-> IF d \in Range(made) THEN g[d] ELSE hash[d]]
  BY <1>3, <1>8
<1> HIDE DEF t, made, g
<1>10. t \in Tables /\ InMap(t)
  BY <1>5, GoodMaps
<1>11. /\ segs' \in Seq(Tables) /\ Len(segs') = hash_shmid /\ segs'[hash_shmid] = t
       /\ \A s \in 1 .. hash_shmid : InMap(segs'[s])
  BY <1>1, <1>9, <1>10, SegSet
<1>12. hash' \in [Nodes -> Nat] /\ \A x \in B : hash'[x] = g[x]
  BY <1>1, <1>2, <1>3, <1>5, <1>9
<1> HIDE DEF A, B
<1>13. TreeIs'
  BY <1>5, <1>7 DEF TreeIs
<1>14. TableOK'
  BY <1>1, <1>5, <1>7, <1>11, <1>12, <1>13 DEF TableOK, Current, g
<1> QED BY <1>4, <1>14

\* Nothing was done to the tree and the tables.
LEMMA SameTable ==
    ASSUME TableOK, UNCHANGED <<blocks, hash, segs, num_blkhash, hash_shmid, hash_seed>>
    PROVE  TableOK'
BY DEF TableOK, TreeIs, Allocated, Current

\* Who holds a node or waits for one.
OwnOK ==
    /\ owner \in [Nodes -> Procs \union {NoProc}]
    /\ pend \in [Procs -> Nodes \union {NoNode}]
\* Flags, lock crit, latch and the LKE commands.
CtlOK ==
    /\ needed \subseteq Flags
    /\ crit \in Procs \union {NoProc} /\ lke \in 0 .. MaxLke
    /\ lock_gc_in_progress \in Procs \union {NoProc}
\* The commands: one that was given names a node.
ReqOK ==
    /\ pc \in [Procs -> {"idle", "lock", "gc", "maint", "clean", "find", "slept"}]
    /\ want \in [Procs -> Nodes \union {NoNode}]
    /\ new \in [Procs -> BOOLEAN] /\ pvt_seed \in [Procs -> Seeds]
    /\ \A p \in Procs : pc[p] # "idle" => want[p] \in Nodes
\* The segments attached: inside lock crit, the current one.
AttOK ==
    /\ mlkhash_shmid \in [Procs -> 1 .. hash_shmid]
    /\ new_shmid \in [Procs -> 0 .. hash_shmid]
    /\ \A p \in Procs : crit = p => mlkhash_shmid[p] = hash_shmid
\* The failures to find a bucket.
FailOK ==
    /\ raised \in [Procs -> SUBSET Flags]
    /\ hash_fail_cnt \in [Procs -> 0 .. MaxRetries + 1]

IInv == TableOK /\ OwnOK /\ CtlOK /\ ReqOK /\ AttOK /\ FailOK

\* NoProc is not a process.
LEMMA NoProcIs == NoProc \notin Procs
BY MlkHashAssumption

\* The first seed.
LEMMA SeedZero == 0 \in Seeds
BY MlkHashAssumption

\* A process that goes on inside lock crit has the current table.
LEMMA CritSynced ==
    ASSUME AttOK, NEW p \in Procs, CritFree(p) PROVE mlkhash_shmid[p] = hash_shmid
BY DEF AttOK, CritFree, Synced

\* The segments are not affected.
LEMMA SameAtt ==
    ASSUME AttOK, UNCHANGED <<mlkhash_shmid, new_shmid, hash_shmid>>,
           crit' \in {crit, NoProc} \/ \E p \in Procs : crit' = p /\ mlkhash_shmid[p] = hash_shmid
    PROVE  AttOK'
<1>1. \A q \in Procs : crit' = q => mlkhash_shmid[q] = hash_shmid
  BY NoProcIs DEF AttOK
<1> QED BY <1>1 DEF AttOK

\* The initial state.
LEMMA InitHolds == Init => IInv
<1> SUFFICES ASSUME Init PROVE IInv
  OBVIOUS
<1>1. Sizes \in SUBSET Nat /\ Sizes # {}
  BY MlkHashAssumption
<1>2. num_blkhash \in Sizes
  BY <1>1, MinIs DEF Init
<1>3. blocks = << >> /\ Allocated = {} /\ blocks \in Seq(Nodes) /\ OneToOne(blocks)
  <2>1. blocks = << >> /\ DOMAIN blocks = {}
    BY DEF Init
  <2>2. blocks \in Seq(Nodes)
    BY <2>1
  <2> QED BY <2>1, <2>2 DEF OneToOne, Allocated, Range
<1>4. TreeIs
  BY <1>3 DEF TreeIs, Closed
<1>5. hash_seed \in Seeds /\ hash_seed = 0
  BY SeedZero DEF Init
<1>6. Good(num_blkhash, EmptyTable, {}, HashOf[hash_seed])
  BY <1>2, GoodEmpty
<1>7. EmptyTable \in Tables /\ InMap(EmptyTable)
  BY <1>6, GoodMaps
<1>8. segs = <<EmptyTable>> /\ hash_shmid = 1
  BY DEF Init
<1>9. segs \in Seq(Tables) /\ Len(segs) = 1 /\ segs[1] = EmptyTable
  BY <1>7, <1>8
<1>10. TableOK
  <2>1. \A s \in 1 .. hash_shmid : InMap(segs[s])
    BY <1>7, <1>8, <1>9
  <2>2. Current = EmptyTable
    BY <1>8, <1>9 DEF Current
  <2>3. hash \in [Nodes -> Nat]
    BY DEF Init
  <2> QED BY <1>2, <1>3, <1>4, <1>5, <1>6, <1>8, <1>9, <2>1, <2>2, <2>3 DEF TableOK
<1>11. OwnOK
  BY DEF Init, OwnOK
<1>12. CtlOK
  <2>1. MaxLke \in Nat
    BY MlkHashAssumption
  <2> QED BY <2>1 DEF Init, CtlOK
<1>13. ReqOK
  BY SeedZero DEF Init, ReqOK
<1>14. AttOK
  BY DEF Init, AttOK
<1>15. FailOK
  BY DEF Init, FailOK, MaxRetries
<1> QED BY <1>10, <1>11, <1>12, <1>13, <1>14, <1>15 DEF IInv

\* grab_lock_crit_and_sync sees another segment.
LEMMA SeeNewTableKeeps ==
    ASSUME IInv, NEW p \in Procs, SeeNewTable(p) PROVE IInv'
<1>0. TableOK /\ OwnOK /\ CtlOK /\ ReqOK /\ AttOK /\ FailOK
  BY DEF IInv
<1>1. TableOK'
  BY <1>0, SameTable DEF SeeNewTable, treeVars, ctlVars
<1>2. OwnOK' /\ CtlOK'
  BY <1>0 DEF SeeNewTable, treeVars, ctlVars, OwnOK, CtlOK
<1>3. ReqOK' /\ FailOK'
  BY <1>0 DEF SeeNewTable, reqVars, pvtVars, ReqOK, FailOK
<1>4. AttOK'
  <2>1. hash_shmid \in Nat /\ hash_shmid \in 0 .. hash_shmid
    BY <1>0 DEF TableOK
  <2> QED BY <1>0, <2>1 DEF SeeNewTable, ctlVars, AttOK
<1> QED BY <1>1, <1>2, <1>3, <1>4 DEF IInv

\* It attaches the segment, or does not find it.
LEMMA ReattachKeeps ==
    ASSUME IInv, NEW p \in Procs, Reattach(p) PROVE IInv'
<1>0. TableOK /\ OwnOK /\ CtlOK /\ ReqOK /\ AttOK /\ FailOK
  BY DEF IInv
<1>1. TableOK'
  BY <1>0, SameTable DEF Reattach, treeVars, ctlVars
<1>2. OwnOK' /\ CtlOK'
  BY <1>0 DEF Reattach, treeVars, ctlVars, OwnOK, CtlOK
<1>3. ReqOK' /\ FailOK'
  BY <1>0 DEF Reattach, reqVars, pvtVars, ReqOK, FailOK
<1>4. AttOK'
  <2>1. hash_shmid \in Nat /\ 0 \in 0 .. hash_shmid /\ hash_shmid \in 1 .. hash_shmid
    BY <1>0 DEF TableOK
  <2>2. hash_shmid' = hash_shmid /\ crit' = crit
    BY DEF Reattach, ctlVars
  <2>3. new_shmid' \in [Procs -> 0 .. hash_shmid]
    BY <1>0, <2>1 DEF Reattach, AttOK
  <2>4. mlkhash_shmid' \in [Procs -> 1 .. hash_shmid]
        /\ \A q \in Procs : mlkhash_shmid'[q] \in {mlkhash_shmid[q], hash_shmid}
    BY <1>0, <2>1 DEF Reattach, AttOK
  <2> QED BY <1>0, <2>2, <2>3, <2>4 DEF AttOK
<1> QED BY <1>1, <1>2, <1>3, <1>4 DEF IInv

\* A command is given.
LEMMA RequestKeeps ==
    ASSUME IInv, NEW p \in Procs, NEW n \in Nodes, Request(p, n) PROVE IInv'
<1>0. TableOK /\ OwnOK /\ CtlOK /\ ReqOK /\ AttOK /\ FailOK
  BY DEF IInv
<1>1. TableOK'
  BY <1>0, SameTable DEF Request, treeVars, ctlVars
<1>2. OwnOK' /\ CtlOK'
  BY <1>0 DEF Request, treeVars, ctlVars, OwnOK, CtlOK
<1>3. ReqOK'
  <2>1. hash_seed \in Seeds
    BY <1>0 DEF TableOK
  <2> QED BY <1>0, <2>1 DEF Request, GoTo, ReqOK
<1>4. AttOK'
  BY <1>0, SameAtt DEF Request, attVars, ctlVars
<1>5. FailOK'
  BY <1>0 DEF Request, FailOK, MaxRetries
<1> QED BY <1>1, <1>2, <1>3, <1>4, <1>5 DEF IInv

\* mlk_lock turns to the lock space first.
LEMMA StartMaintenanceKeeps ==
    ASSUME IInv, NEW p \in Procs, StartMaintenance(p) PROVE IInv'
<1>0. TableOK /\ OwnOK /\ CtlOK /\ ReqOK /\ AttOK /\ FailOK
  BY DEF IInv
<1>1. TableOK'
  BY <1>0, SameTable DEF StartMaintenance, treeVars, ctlVars
<1>2. OwnOK' /\ CtlOK' /\ FailOK'
  BY <1>0 DEF StartMaintenance, treeVars, ctlVars, pvtVars, OwnOK, CtlOK, FailOK
<1>3. ReqOK'
  BY <1>0 DEF StartMaintenance, At, GoTo, reqVars, ReqOK
<1>4. AttOK'
  BY <1>0, SameAtt DEF StartMaintenance, attVars, ctlVars
<1> QED BY <1>1, <1>2, <1>3, <1>4 DEF IInv

\* It takes the latch.
LEMMA prepare_for_gcKeeps ==
    ASSUME IInv, NEW p \in Procs, prepare_for_gc(p) PROVE IInv'
<1>0. TableOK /\ OwnOK /\ CtlOK /\ ReqOK /\ AttOK /\ FailOK
  BY DEF IInv
<1>1. TableOK'
  BY <1>0, SameTable DEF prepare_for_gc, treeVars, ctlVars
<1>2. OwnOK' /\ CtlOK' /\ FailOK'
  BY <1>0 DEF prepare_for_gc, treeVars, ctlVars, pvtVars, OwnOK, CtlOK, FailOK
<1>3. ReqOK'
  BY <1>0 DEF prepare_for_gc, At, GoTo, reqVars, ReqOK
<1>4. AttOK'
  BY <1>0, SameAtt DEF prepare_for_gc, attVars, ctlVars
<1> QED BY <1>1, <1>2, <1>3, <1>4 DEF IInv

\* The failures of p are f.
LEMMA SetFailKeeps ==
    ASSUME FailOK, NEW p \in Procs, NEW f \in FailStates, SetFailState(p, f) PROVE FailOK'
BY DEF FailOK, FailStates, SetFailState

\* The failures so far.
LEMMA FailStateType ==
    ASSUME FailOK, NEW p \in Procs PROVE FailState(p) \in FailStates
BY DEF FailOK, FailStates, FailState

\* It rehashes.
LEMMA MaintainRehashKeeps ==
    ASSUME IInv, NEW p \in Procs, MaintainRehash(p) PROVE IInv'
<1>0. TableOK /\ OwnOK /\ CtlOK /\ ReqOK /\ AttOK /\ FailOK
  BY DEF IInv
<1>1. mlkhash_shmid[p] = hash_shmid
  BY <1>0, CritSynced DEF MaintainRehash
<1> DEFINE r == RehashPasses
<1>2. mlk_rehash(hash_shmid, r) /\ SetFailState(p, FailedTimes(FailState(p), r.failed))
  BY <1>1 DEF MaintainRehash
<1>3. TableOK'
  BY <1>0, <1>2, RehashKeeps
<1>4. r.failed \in Nat
  <2>1. TreeIs /\ num_blkhash \in Sizes /\ hash_seed \in Seeds
    BY <1>0 DEF TableOK
  <2> QED BY <2>1, RehashPassesGood DEF RehashIs
<1> HIDE DEF r
<1>5. FailOK'
  <2>1. FailedTimes(FailState(p), r.failed) \in FailStates
    BY <1>0, <1>4, FailStateType, FailedTimesType
  <2> QED BY <1>0, <1>2, <2>1, SetFailKeeps
<1>6. OwnOK' /\ hash_shmid' = hash_shmid
  BY <1>0, <1>2 DEF mlk_rehash, OwnOK
<1>7. CtlOK'
  BY <1>0, <1>2 DEF MaintainRehash, mlk_rehash, CtlOK
<1>8. ReqOK'
  BY <1>0 DEF MaintainRehash, reqVars, ReqOK
<1>9. AttOK'
  BY <1>0, <1>1, <1>6, SameAtt DEF MaintainRehash, attVars
<1> QED BY <1>3, <1>5, <1>6, <1>7, <1>8, <1>9 DEF IInv

\* It resizes.
LEMMA MaintainResizeKeeps ==
    ASSUME IInv, NEW p \in Procs, MaintainResize(p) PROVE IInv'
<1>0. TableOK /\ OwnOK /\ CtlOK /\ ReqOK /\ AttOK /\ FailOK
  BY DEF IInv
<1>1. mlkhash_shmid[p] = hash_shmid
  BY <1>0, CritSynced DEF MaintainResize
<1>2. mlk_shrhash_resize(hash_shmid)
  BY <1>1 DEF MaintainResize
<1>3. TableOK' /\ needed' \subseteq Flags /\ hash_shmid' \in {hash_shmid, hash_shmid + 1}
  BY <1>0, <1>2, ResizeKeeps DEF CtlOK
<1>4. OwnOK'
  BY <1>0, <1>2 DEF mlk_shrhash_resize, treeVars, OwnOK
<1>5. CtlOK'
  BY <1>0, <1>3 DEF MaintainResize, CtlOK
<1>6. ReqOK'
  BY <1>0 DEF MaintainResize, At, GoTo, reqVars, ReqOK
<1>7. FailOK'
  <2>1. 0 \in 0 .. MaxRetries + 1
    BY DEF MaxRetries
  <2> QED BY <1>0, <2>1 DEF MaintainResize, FailOK
<1>8. AttOK'
  <2>1. hash_shmid \in Nat \ {0}
    BY <1>0 DEF TableOK
  <2>2. CASE hash_shmid' = hash_shmid
    <3>1. mlkhash_shmid' = mlkhash_shmid /\ new_shmid' = new_shmid /\ crit' = p
      BY <2>2 DEF MaintainResize
    <3> QED BY <1>0, <1>1, <2>2, <3>1, SameAtt
  <2>3. CASE hash_shmid' = hash_shmid + 1
    <3>1. hash_shmid' # hash_shmid
      BY <2>1, <2>3
    <3>2. mlkhash_shmid' = [mlkhash_shmid EXCEPT ![p] = hash_shmid'] /\ new_shmid' = new_shmid /\ crit' = p
      BY <3>1 DEF MaintainResize
    <3>3. /\ hash_shmid' \in 1 .. hash_shmid'
          /\ 1 .. hash_shmid \subseteq 1 .. hash_shmid' /\ 0 .. hash_shmid \subseteq 0 .. hash_shmid'
      BY <2>1, <2>3
    <3>4. mlkhash_shmid' \in [Procs -> 1 .. hash_shmid'] /\ mlkhash_shmid'[p] = hash_shmid'
      BY <1>0, <3>2, <3>3 DEF AttOK
    <3>5. new_shmid' \in [Procs -> 0 .. hash_shmid']
      BY <1>0, <3>2, <3>3 DEF AttOK
    <3> QED BY <3>2, <3>4, <3>5 DEF AttOK
  <2> QED BY <1>3, <2>2, <2>3
<1> QED BY <1>3, <1>4, <1>5, <1>6, <1>7, <1>8 DEF IInv

\* It collects garbage: crit is released ...
LEMMA StartCleaningKeeps ==
    ASSUME IInv, NEW p \in Procs, StartCleaning(p) PROVE IInv'
<1>0. TableOK /\ OwnOK /\ CtlOK /\ ReqOK /\ AttOK /\ FailOK
  BY DEF IInv
<1>1. TableOK'
  BY <1>0, SameTable DEF StartCleaning, treeVars, ctlVars
<1>2. OwnOK' /\ CtlOK' /\ FailOK'
  BY <1>0 DEF StartCleaning, treeVars, ctlVars, pvtVars, OwnOK, CtlOK, FailOK
<1>3. ReqOK'
  BY <1>0 DEF StartCleaning, At, GoTo, reqVars, ReqOK
<1>4. AttOK'
  BY <1>0, SameAtt DEF StartCleaning, attVars, ctlVars
<1> QED BY <1>1, <1>2, <1>3, <1>4 DEF IInv

\* ... and the nodes nobody uses are deleted, which have no node below them in use.
LEMMA clean_pidsKeeps ==
    ASSUME IInv, NEW p \in Procs, clean_pids(p) PROVE IInv'
<1>0. TableOK /\ OwnOK /\ CtlOK /\ ReqOK /\ AttOK /\ FailOK
  BY DEF IInv
<1>1. mlkhash_shmid[p] = hash_shmid
  BY <1>0, CritSynced DEF clean_pids
<1> DEFINE D == {n \in Allocated : Unused(n)}
<1>2. Delete(p, D) /\ UNCHANGED <<num_blkhash, hash_shmid, hash_seed>>
  BY DEF clean_pids
<1>3. Allocated \in SUBSET Nodes
  BY <1>0, TreeNodes DEF TableOK
<1>4. ASSUME NEW d \in D, NEW x \in Allocated, Within(x, d) PROVE x \in D
  <2>1. Unused(d) /\ d \in Allocated
    OBVIOUS
  <2>2. \A k \in Allocated : Within(k, x) => Within(k, d)
    BY <1>3, <1>4, <2>1, WithinTransitive
  <2>3. Unused(x)
    BY <2>1, <2>2 DEF Unused
  <2> QED BY <2>3
<1>5. D \in SUBSET Allocated
  OBVIOUS
<1> HIDE DEF D
<1>6. TableOK'
  BY <1>0, <1>1, <1>2, <1>4, <1>5, DeleteKeeps
<1>7. OwnOK' /\ CtlOK' /\ FailOK'
  BY <1>0 DEF clean_pids, pvtVars, OwnOK, CtlOK, FailOK
<1>8. ReqOK'
  BY <1>0 DEF clean_pids, At, GoTo, reqVars, ReqOK
<1>9. AttOK'
  BY <1>0, <1>1, SameAtt DEF clean_pids, attVars
<1> QED BY <1>6, <1>7, <1>8, <1>9 DEF IInv

\* There is nothing to collect.
LEMMA NothingToCleanKeeps ==
    ASSUME IInv, NEW p \in Procs, NothingToClean(p) PROVE IInv'
<1>0. TableOK /\ OwnOK /\ CtlOK /\ ReqOK /\ AttOK /\ FailOK
  BY DEF IInv
<1>1. TableOK'
  BY <1>0, SameTable DEF NothingToClean, treeVars
<1>2. OwnOK' /\ CtlOK' /\ FailOK'
  BY <1>0 DEF NothingToClean, treeVars, pvtVars, OwnOK, CtlOK, FailOK
<1>3. ReqOK'
  BY <1>0 DEF NothingToClean, At, GoTo, reqVars, ReqOK
<1>4. mlkhash_shmid[p] = hash_shmid
  BY <1>0, CritSynced DEF NothingToClean
<1>5. AttOK'
  BY <1>0, <1>4, SameAtt DEF NothingToClean, attVars
<1> QED BY <1>1, <1>2, <1>3, <1>5 DEF IInv

\* The failures after a search.
LEMMA FailAfterType ==
    ASSUME FailOK, NEW p \in Procs, NEW r
    PROVE  /\ FailAfter(p, r) \in FailStates
           /\ [FailAfter(p, r) EXCEPT !.raised = {}] \in FailStates
           /\ Raises(hash_fail_cnt[p], Active(r)) \in SUBSET Flags
<1> DEFINE f == FailState(p)
           b == FailAfter(p, r)
<1>1. f \in FailStates
  BY FailStateType
<1>2. f.cnt = hash_fail_cnt[p]
  BY DEF FailState
<1>3. b = IF r.ok THEN [f EXCEPT !.cnt = 0] ELSE IF r.nobucket THEN Failed(f, Active(r)) ELSE f
  BY DEF FailAfter
<1> HIDE DEF f, b
<1>4. Failed(f, Active(r)) \in FailStates /\ Raises(f.cnt, Active(r)) \in SUBSET Flags
  BY <1>1, FailedType
<1>5. [f EXCEPT !.cnt = 0] \in FailStates
  BY <1>1 DEF FailStates, MaxRetries
<1>6. b \in FailStates
  BY <1>1, <1>3, <1>4, <1>5
<1>7. [b EXCEPT !.raised = {}] \in FailStates
  BY <1>6 DEF FailStates
<1> QED BY <1>2, <1>4, <1>6, <1>7 DEF b

\* A command that is over.
LEMMA DoneKeeps ==
    ASSUME ReqOK, FailOK, NEW p \in Procs, Done(p),
           pend \in [Procs -> Nodes \union {NoNode}]
    PROVE  ReqOK' /\ FailOK' /\ pend' \in [Procs -> Nodes \union {NoNode}]
<1> DEFINE f == [cnt |-> 0, raised |-> {}]
<1>1. f \in FailStates
  BY DEF FailStates, MaxRetries
<1>2. SetFailState(p, f)
  BY DEF Done
<1> HIDE DEF f
<1>3. FailOK'
  BY <1>1, <1>2, SetFailKeeps
<1>4. ReqOK'
  BY SeedZero DEF Done, GoTo, ReqOK
<1>5. pend' \in [Procs -> Nodes \union {NoNode}]
  BY DEF Done
<1> QED BY <1>3, <1>4, <1>5

\* The search, and what p makes of its result.
LEMMA LockKeeps ==
    ASSUME IInv, NEW p \in Procs, Lock(p) PROVE IInv'
<1>0. TableOK /\ OwnOK /\ CtlOK /\ ReqOK /\ AttOK /\ FailOK
  BY DEF IInv
<1>1. mlkhash_shmid[p] = hash_shmid
  BY <1>0, CritSynced DEF Lock, CritFree
<1>2. want[p] \in Nodes
  BY <1>0 DEF Lock, At, ReqOK
<1> DEFINE r == mlk_shrblk_find(p)
<1>3. /\ segs' = [segs EXCEPT ![hash_shmid] = r.t]
      /\ blocks' = blocks \o r.made
      /\ hash' = [d \in Nodes |-> IF Contains(r.made, d) THEN HashOf[PvtSeed(p)][d] ELSE hash[d]]
      /\ needed' = IF r.nobucket THEN needed \union Raises(hash_fail_cnt[p], Active(r)) ELSE needed
      /\ Granted(p, r) \/ NotGranted(p, r, FailAfter(p, r))
  BY <1>1 DEF Lock
<1>4. /\ crit' = NoProc
      /\ lock_gc_in_progress' = IF At(p, "find") THEN NoProc ELSE lock_gc_in_progress
      /\ UNCHANGED <<lke, num_blkhash, hash_shmid, hash_seed, mlkhash_shmid, new_shmid>>
  BY DEF Lock, attVars
<1>5. r = mlk_shrblk_find(p)
  OBVIOUS
<1> HIDE DEF r
<1>6. TableOK' /\ r.ok \in BOOLEAN /\ r.nobucket \in BOOLEAN
  BY <1>0, <1>1, <1>2, <1>3, <1>4, <1>5, SearchKeepsTable
<1> DEFINE f == FailAfter(p, r)
<1>7. /\ f \in FailStates /\ [f EXCEPT !.raised = {}] \in FailStates
      /\ Raises(hash_fail_cnt[p], Active(r)) \in SUBSET Flags
  BY <1>0, FailAfterType
<1> HIDE DEF f
<1>8. CtlOK'
  BY <1>0, <1>3, <1>4, <1>6, <1>7 DEF CtlOK
<1>9. AttOK'
  BY <1>0, <1>4, SameAtt
<1>10. OwnOK' /\ ReqOK' /\ FailOK'
  <2>1. CASE Granted(p, r)
    <3>1. Done(p) /\ owner' = [owner EXCEPT ![want[p]] = p]
      BY <2>1 DEF Granted
    <3>2. ReqOK' /\ FailOK' /\ pend' \in [Procs -> Nodes \union {NoNode}]
      BY <1>0, <3>1, DoneKeeps DEF OwnOK
    <3>3. OwnOK'
      BY <1>0, <3>1, <3>2 DEF OwnOK
    <3> QED BY <3>2, <3>3
  <2>2. CASE NotGranted(p, r, f)
    <3>1. OwnOK'
      BY <1>0, <1>2, <2>2 DEF NotGranted, OwnOK
    <3>2. PvtSeed(p) \in Seeds
      BY <1>0, PvtSeedIs DEF TableOK
    <3>3. ReqOK'
      <4>1. /\ pvt_seed' = [pvt_seed EXCEPT ![p] = PvtSeed(p)]
            /\ UNCHANGED <<want, new>>
            /\ GoTo(p, "lock") \/ GoTo(p, "slept")
        BY <2>2 DEF NotGranted
      <4>2. pvt_seed' \in [Procs -> Seeds]
        BY <1>0, <3>2, <4>1 DEF ReqOK
      <4> QED BY <1>0, <1>2, <4>1, <4>2 DEF GoTo, ReqOK
    <3>4. FailOK'
      <4>1. SetFailState(p, [f EXCEPT !.raised = {}]) \/ SetFailState(p, f)
        BY <2>2 DEF NotGranted
      <4> DEFINE e == [f EXCEPT !.raised = {}]
      <4> HIDE DEF e
      <4>2. SetFailState(p, e) \/ SetFailState(p, f)
        BY <4>1 DEF e
      <4>3. e \in FailStates
        BY <1>7 DEF e
      <4> QED BY <1>0, <1>7, <4>2, <4>3, SetFailKeeps
    <3> QED BY <3>1, <3>3, <3>4
  <2> QED BY <1>3, <2>1, <2>2 DEF f
<1> QED BY <1>6, <1>8, <1>9, <1>10 DEF IInv

\* op_lock2 calls mlk_lock again.
LEMMA RetryKeeps ==
    ASSUME IInv, NEW p \in Procs, Retry(p) PROVE IInv'
<1>0. TableOK /\ OwnOK /\ CtlOK /\ ReqOK /\ AttOK /\ FailOK
  BY DEF IInv
<1>1. TableOK'
  BY <1>0, SameTable DEF Retry, treeVars, ctlVars
<1>2. OwnOK' /\ CtlOK' /\ FailOK'
  BY <1>0 DEF Retry, treeVars, ctlVars, pvtVars, OwnOK, CtlOK, FailOK
<1>3. ReqOK'
  BY <1>0 DEF Retry, At, GoTo, ReqOK
<1>4. AttOK'
  BY <1>0, SameAtt DEF Retry, attVars, ctlVars
<1> QED BY <1>1, <1>2, <1>3, <1>4 DEF IInv

\* It gives up.
LEMMA TimeOutKeeps ==
    ASSUME IInv, NEW p \in Procs, TimeOut(p) PROVE IInv'
<1>0. TableOK /\ OwnOK /\ CtlOK /\ ReqOK /\ AttOK /\ FailOK
  BY DEF IInv
<1>1. TableOK'
  BY <1>0, SameTable DEF TimeOut, ctlVars
<1>2. Done(p) /\ owner' = owner
  BY DEF TimeOut
<1>3. ReqOK' /\ FailOK' /\ pend' \in [Procs -> Nodes \union {NoNode}]
  BY <1>0, <1>2, DoneKeeps DEF OwnOK
<1>4. OwnOK'
  BY <1>0, <1>2, <1>3 DEF OwnOK
<1>5. CtlOK'
  BY <1>0 DEF TimeOut, ctlVars, CtlOK
<1>6. AttOK'
  BY <1>0, SameAtt DEF TimeOut, attVars, ctlVars
<1> QED BY <1>1, <1>3, <1>4, <1>5, <1>6 DEF IInv

\* mlk_unlock deletes a node only with all that are below it.
LEMMA UnlockKeeps ==
    ASSUME IInv, NEW p \in Procs, NEW n \in Nodes, Unlock(p, n) PROVE IInv'
<1>0. TableOK /\ OwnOK /\ CtlOK /\ ReqOK /\ AttOK /\ FailOK
  BY DEF IInv
<1> DEFINE visited == {m \in Allocated :
                         \/ Within(n, m)
                         \/ /\ Within(m, n)
                            /\ \A d \in Allocated :
                                  Within(m, d) /\ Within(d, n) /\ d # n => owner[d] = NoProc}
           empty(d) == \A m \in Allocated : Within(m, d) =>
                          /\ m \in visited
                          /\ owner[m] = NoProc \/ m = n
                          /\ \A q \in Procs : pend[q] # m
           D == {d \in visited : empty(d)}
<1>1. Synced(p) /\ owner' = [owner EXCEPT ![n] = NoProc] /\ Delete(p, D)
      /\ UNCHANGED <<lke, pend, num_blkhash, hash_shmid, hash_seed, needed, crit,
                     lock_gc_in_progress, pc, reqVars, attVars, pvtVars>>
  BY DEF Unlock
<1>2. mlkhash_shmid[p] = hash_shmid
  BY <1>1 DEF Synced
<1>3. Allocated \in SUBSET Nodes
  BY <1>0, TreeNodes DEF TableOK
<1>4. \A d \in visited : d \in Allocated
  OBVIOUS
<1> HIDE DEF visited
<1>5. D \in SUBSET Allocated
  BY <1>4
<1>6. ASSUME NEW d \in D, NEW x \in Allocated, Within(x, d) PROVE x \in D
  <2>1. empty(d) /\ d \in Allocated
    BY <1>4
  <2>2. x \in visited
    BY <1>6, <2>1
  <2>3. \A k \in Allocated : Within(k, x) => Within(k, d)
    BY <1>3, <1>6, <2>1, WithinTransitive
  <2>4. empty(x)
    BY <2>1, <2>3
  <2> QED BY <2>2, <2>4
<1> HIDE DEF D
<1>7. TableOK'
  BY <1>0, <1>1, <1>2, <1>5, <1>6, DeleteKeeps
<1>8. OwnOK'
  BY <1>0, <1>1 DEF OwnOK
<1>9. CtlOK' /\ FailOK'
  BY <1>0, <1>1 DEF CtlOK, FailOK, pvtVars
<1>10. ReqOK'
  BY <1>0, <1>1 DEF ReqOK, reqVars
<1>11. AttOK'
  BY <1>0, <1>1, SameAtt DEF attVars
<1> QED BY <1>7, <1>8, <1>9, <1>10, <1>11 DEF IInv

\* LKE REHASH.
LEMMA lke_rehashKeeps == ASSUME IInv, lke_rehash PROVE IInv'
<1>0. TableOK /\ OwnOK /\ CtlOK /\ ReqOK /\ AttOK /\ FailOK
  BY DEF IInv
<1>1. mlk_rehash(hash_shmid, RehashPasses)
  BY DEF lke_rehash
<1>2. TableOK'
  BY <1>0, <1>1, RehashKeeps
<1>3. OwnOK' /\ hash_shmid' = hash_shmid /\ needed' = {}
  BY <1>0, <1>1 DEF mlk_rehash, OwnOK
<1>4. CtlOK'
  <2>1. MaxLke \in Nat
    BY MlkHashAssumption
  <2> QED BY <1>0, <1>3, <2>1 DEF lke_rehash, CtlOK
<1>5. ReqOK' /\ FailOK'
  BY <1>0 DEF lke_rehash, reqVars, pvtVars, ReqOK, FailOK
<1>6. AttOK'
  BY <1>0, <1>3, SameAtt DEF lke_rehash, attVars
<1> QED BY <1>2, <1>3, <1>4, <1>5, <1>6 DEF IInv

\* LKE GROWHASH.
LEMMA lke_growhashKeeps == ASSUME IInv, lke_growhash PROVE IInv'
<1>0. TableOK /\ OwnOK /\ CtlOK /\ ReqOK /\ AttOK /\ FailOK
  BY DEF IInv
<1>1. mlk_shrhash_resize(hash_shmid)
  BY DEF lke_growhash
<1>2. TableOK' /\ needed' \subseteq Flags /\ hash_shmid' \in {hash_shmid, hash_shmid + 1}
  BY <1>0, <1>1, ResizeKeeps DEF CtlOK
<1>3. OwnOK'
  BY <1>0, <1>1 DEF mlk_shrhash_resize, treeVars, OwnOK
<1>4. CtlOK'
  <2>1. MaxLke \in Nat
    BY MlkHashAssumption
  <2> QED BY <1>0, <1>2, <2>1 DEF lke_growhash, CtlOK
<1>5. ReqOK' /\ FailOK'
  BY <1>0 DEF lke_growhash, reqVars, pvtVars, ReqOK, FailOK
<1>6. AttOK'
  <2>1. hash_shmid \in Nat
    BY <1>0 DEF TableOK
  <2>2. 1 .. hash_shmid \subseteq 1 .. hash_shmid' /\ 0 .. hash_shmid \subseteq 0 .. hash_shmid'
    BY <1>2, <2>1
  <2>3. crit = NoProc /\ crit' = crit /\ mlkhash_shmid' = mlkhash_shmid /\ new_shmid' = new_shmid
    BY DEF lke_growhash, attVars
  <2>4. mlkhash_shmid' \in [Procs -> 1 .. hash_shmid'] /\ new_shmid' \in [Procs -> 0 .. hash_shmid']
    BY <1>0, <2>2, <2>3 DEF AttOK
  <2> QED BY <2>3, <2>4, NoProcIs DEF AttOK
<1> QED BY <1>2, <1>3, <1>4, <1>5, <1>6 DEF IInv

\* Every step keeps the invariant.
LEMMA NextHolds == IInv /\ [Next]_vars => IInv'
<1> SUFFICES ASSUME IInv, [Next]_vars PROVE IInv'
  OBVIOUS
<1>1. ASSUME NEW p \in Procs, Step(p) PROVE IInv'
  BY <1>1, SeeNewTableKeeps, ReattachKeeps, StartMaintenanceKeeps, prepare_for_gcKeeps,
     MaintainRehashKeeps, MaintainResizeKeeps, StartCleaningKeeps, clean_pidsKeeps,
     NothingToCleanKeeps, LockKeeps DEF Step
<1>2. ASSUME NEW p \in Procs, Retry(p) \/ TimeOut(p) PROVE IInv'
  BY <1>2, RetryKeeps, TimeOutKeeps
<1>3. ASSUME NEW p \in Procs, NEW n \in Nodes, Request(p, n) \/ Unlock(p, n) PROVE IInv'
  BY <1>3, RequestKeeps, UnlockKeeps
<1>4. CASE lke_rehash \/ lke_growhash
  BY <1>4, lke_rehashKeeps, lke_growhashKeeps
<1>5. CASE UNCHANGED vars
  <2>0. TableOK /\ OwnOK /\ CtlOK /\ ReqOK /\ AttOK /\ FailOK
    BY DEF IInv
  <2>1. UNCHANGED <<treeVars, ctlVars, crit, lock_gc_in_progress, lke, pc, reqVars, attVars, pvtVars>>
    BY <1>5 DEF vars
  <2>2. TableOK'
    BY <2>0, <2>1, SameTable DEF treeVars, ctlVars
  <2>3. OwnOK' /\ CtlOK' /\ FailOK'
    BY <2>0, <2>1 DEF treeVars, ctlVars, pvtVars, OwnOK, CtlOK, FailOK
  <2>4. ReqOK'
    BY <2>0, <2>1 DEF reqVars, ReqOK
  <2>5. AttOK'
    BY <2>0, <2>1, SameAtt DEF attVars, ctlVars
  <2> QED BY <2>2, <2>3, <2>4, <2>5 DEF IInv
<1> QED BY <1>1, <1>2, <1>3, <1>4, <1>5 DEF Next

----------------------------------------------------------------------------
(* The theorems.                                                           *)

\* The invariant holds in every reachable state.
LEMMA Invariant == Spec => []IInv
<1>1. Init => IInv
  BY InitHolds
<1>2. IInv /\ [Next]_vars => IInv'
  BY NextHolds
<1> QED BY <1>1, <1>2, PTL DEF Spec

\* The types are part of it.
LEMMA TypesOf == IInv => TypeOK
<1> SUFFICES ASSUME IInv PROVE TypeOK
  OBVIOUS
<1>0. TableOK /\ OwnOK /\ CtlOK /\ ReqOK /\ AttOK /\ FailOK
  BY DEF IInv
<1>1. /\ TreeIs /\ hash \in [Nodes -> Nat]
      /\ segs \in Seq(Tables) /\ hash_shmid = Len(segs) /\ hash_shmid \in Nat \ {0}
      /\ \A s \in 1 .. hash_shmid : InMap(segs[s])
      /\ num_blkhash \in Sizes /\ hash_seed \in Seeds
  BY <1>0 DEF TableOK
<1>2. blocks \in Seq(Nodes)
  BY <1>1 DEF TreeIs
<1>3. ASSUME NEW s \in DOMAIN segs
      PROVE  /\ segs[s] \in Tables
             /\ \A b \in DOMAIN segs[s] : segs[s][b].usedmap \subseteq 0 .. NEIGHBORS - 1
  <2>1. s \in 1 .. hash_shmid /\ segs[s] \in Tables
    BY <1>1
  <2>2. DOMAIN segs[s] = Buckets
    BY <2>1, TableType
  <2> QED BY <1>1, <2>1, <2>2 DEF InMap
<1>4. /\ owner \in [Nodes -> Procs \union {NoProc}]
      /\ pend \in [Procs -> Nodes \union {NoNode}]
  BY <1>0 DEF OwnOK
<1>5. /\ needed \subseteq Flags
      /\ crit \in Procs \union {NoProc} /\ lke \in 0 .. MaxLke
      /\ lock_gc_in_progress \in Procs \union {NoProc}
  BY <1>0 DEF CtlOK
<1>6. /\ pc \in [Procs -> {"idle", "lock", "gc", "maint", "clean", "find", "slept"}]
      /\ want \in [Procs -> Nodes \union {NoNode}]
      /\ new \in [Procs -> BOOLEAN] /\ pvt_seed \in [Procs -> Seeds]
  BY <1>0 DEF ReqOK
<1>7. /\ mlkhash_shmid \in [Procs -> 1 .. Len(segs)]
      /\ new_shmid \in [Procs -> 0 .. Len(segs)]
  BY <1>0, <1>1 DEF AttOK
<1>8. raised \in [Procs -> SUBSET Flags] /\ hash_fail_cnt \in [Procs -> 0 .. MaxRetries + 1]
  BY <1>0 DEF FailOK
<1> QED BY <1>1, <1>2, <1>3, <1>4, <1>5, <1>6, <1>7, <1>8 DEF TypeOK

\* The usedmaps of a good table.
LEMMA UsedmapOf == IInv => UsedmapExact
<1> SUFFICES ASSUME IInv, NEW b \in 0 .. num_blkhash - 1, NEW k \in 0 .. NEIGHBORS - 1
             PROVE  k \in Current[b].usedmap <=>
                      /\ Current[(b + k) % num_blkhash].blk # NoNode
                      /\ Current[(b + k) % num_blkhash].hash % num_blkhash = b
  BY DEF UsedmapExact
<1> DEFINE n == num_blkhash
           t == Current
           c == (b + k) % n
<1>1. n \in Sizes /\ Good(n, t, Allocated, HashOf[hash_seed])
  BY DEF IInv, TableOK
<1>2. n \in Nat /\ n > NEIGHBORS /\ NEIGHBORS \in Nat
  BY <1>1, SizeType
<1>3. k \in 0 .. n - 1
  BY <1>2
<1>4. c \in 0 .. n - 1
  BY <1>2, <1>3, StepIs
<1>5. Dist(n, b, c) = k
  BY <1>2, <1>3, DistStep
<1> HIDE DEF c, t
<1>6. Dist(n, b, c) \in t[b].usedmap <=> t[c].blk # NoNode /\ t[c].hash % n = b
  BY <1>1, <1>4 DEF Good
<1> QED BY <1>5, <1>6 DEF c, t

\* The entries of a good table are as many as the nodes.
LEMMA EntryCount ==
    ASSUME NEW n \in Sizes, NEW A \in SUBSET Nodes, NEW g, NEW t, Good(n, t, A, g), IsFiniteSet(A)
    PROVE  Cardinality({b \in Buckets : t[b].blk # NoNode}) = Cardinality(A)
<1> DEFINE U == {b \in Buckets : t[b].blk # NoNode}
           f == [b \in U |-> t[b].blk]
<1>1. \A b \in U : b \in Buckets /\ t[b].blk # NoNode /\ t[b].blk \in A
  BY DEF Good
<1>2. 0 .. n - 1 \subseteq Buckets
  BY SizeType DEF Buckets
<1>3. \A a \in A : \E b \in U : t[b].blk = a
  <2> SUFFICES ASSUME NEW a \in A PROVE \E b \in U : t[b].blk = a
    OBVIOUS
  <2>1. PICK c \in 0 .. n - 1 : t[c].blk = a
    BY DEF Good
  <2>2. c \in U
    BY <1>2, <2>1, NoNodeIs
  <2> QED BY <2>1, <2>2
<1>4. \A b, c \in U : t[b].blk = t[c].blk => b = c
  BY <1>1 DEF Good
<1> HIDE DEF U
<1>5. f \in [U -> A] /\ \A b \in U : f[b] = t[b].blk
  BY <1>1
<1> HIDE DEF f
<1>6. f \in Injection(U, A)
  BY <1>4, <1>5 DEF Injection, IsInjective
<1>7. f \in Surjection(U, A)
  BY <1>3, <1>5 DEF Surjection
<1>8. Cardinality(U) = Cardinality(A)
  BY <1>6, <1>7, FS_Injection
<1> QED BY <1>8 DEF U

\* The nodes are as many as their places in blocks.
LEMMA NodeCount ==
    ASSUME TreeIs PROVE Cardinality(Allocated) = Len(blocks)
<1> DEFINE k == Len(blocks)
<1>1. /\ blocks \in Seq(Nodes) /\ OneToOne(blocks) /\ k \in Nat /\ DOMAIN blocks = 1 .. k
      /\ IsFiniteSet(Allocated)
  BY TreeNodes DEF TreeIs
<1> HIDE DEF k
<1>2. blocks \in [1 .. k -> Allocated]
  <2>1. \A i \in 1 .. k : blocks[i] \in Allocated
    BY <1>1 DEF Allocated, Range
  <2>2. blocks = [i \in 1 .. k |-> blocks[i]]
    BY <1>1
  <2> QED BY <2>1, <2>2
<1>3. blocks \in Injection(1 .. k, Allocated)
  BY <1>1, <1>2 DEF Injection, IsInjective, OneToOne
<1>4. blocks \in Surjection(1 .. k, Allocated)
  <2>1. \A x \in Allocated : \E i \in 1 .. k : blocks[i] = x
    BY <1>1 DEF Allocated, Range
  <2> QED BY <1>2, <2>1 DEF Surjection
<1>5. Cardinality(1 .. k) = Cardinality(Allocated)
  BY <1>1, <1>3, <1>4, FS_Injection
<1>6. Cardinality(1 .. k) = k
  <2>1. 1 \in Int /\ k \in Int
    BY <1>1
  <2>2. Cardinality(1 .. k) = IF 1 > k THEN 0 ELSE k - 1 + 1
    BY <2>1, FS_Interval
  <2> QED BY <1>1, <2>2
<1> QED BY <1>5, <1>6 DEF k

\* The nodes are found, and nothing else is.
LEMMA FoundOf == IInv => EveryNodeFound
<1> SUFFICES ASSUME IInv PROVE EveryNodeFound
  OBVIOUS
<1> DEFINE n == num_blkhash
           t == Current
           A == Allocated
           g == HashOf[hash_seed]
<1>1. TreeIs /\ n \in Sizes /\ hash_seed \in Seeds /\ Good(n, t, A, g)
  BY DEF IInv, TableOK
<1>2. A \in SUBSET Nodes /\ IsFiniteSet(A) /\ g \in [Nodes -> Nat]
  BY <1>1, TreeNodes, SeedType
<1>3. IsInjective(blocks)
  BY <1>1 DEF TreeIs, OneToOne, IsInjective
<1>4. ASSUME NEW d \in A PROVE Cardinality(Places(n, t, d, g[d])) = 1
  <2> HIDE DEF n, t, A, g
  <2>1. d \in Nodes
    BY <1>2
  <2>2. PICK c \in 0 .. n - 1 : PlaceIs(n, t, d, g[d], c)
    BY <1>1, <1>2, <1>4, <2>1, GoodPlaces
  <2>3. Places(n, t, d, g[d]) = {c}
    BY <2>2 DEF PlaceIs
  <2>4. Cardinality({c}) = 1
    BY FS_Singleton
  <2> QED BY <2>3, <2>4
<1>5. Cardinality({b \in 0 .. MaxSize - 1 : t[b].blk # NoNode}) = Len(blocks)
  <2>1. Cardinality(A) = Len(blocks)
    BY <1>1, NodeCount
  <2> HIDE DEF n, t, A, g
  <2>2. Cardinality({b \in Buckets : t[b].blk # NoNode}) = Cardinality(A)
    BY <1>1, <1>2, EntryCount
  <2> QED BY <2>1, <2>2 DEF Buckets
<1> QED BY <1>3, <1>4, <1>5 DEF EveryNodeFound

\* For every number of processes and nodes, every hash function with its seeds, every
\* neighbourhood and all table sizes, the tables are well-formed, with no usedmap bit
\* outside of the neighbourhood (mlk_shrhash_find_bucket, mlk_shrhash_insert).
THEOREM Types == Spec => []TypeOK
<1>1. IInv => TypeOK
  BY TypesOf
<1> QED BY <1>1, Invariant, PTL

\* The usedmap of a bucket tells exactly where the entries are whose home it is, after
\* all insertions, moves of entries (mlk_shrhash_find_bucket), failed insertions,
\* deletions, rehashes and resizes.
THEOREM Usedmaps == Spec => []UsedmapExact
<1>1. IInv => UsedmapExact
  BY UsedmapOf
<1> QED BY <1>1, Invariant, PTL

\* Every node of the lock tree is found once in the table that a process entering lock
\* crit has attached, under the seed of the moment, and nothing else is in the table:
\* mlk_shrhash_find does not miss a node, which would be created a second time.
THEOREM NodesFound == Spec => []EveryNodeFound
<1>1. IInv => EveryNodeFound
  BY FoundOf
<1> QED BY <1>1, Invariant, PTL
====

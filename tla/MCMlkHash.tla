----------------------------- MODULE MCMlkHash -----------------------------
(* An instance of MlkHash for TLC.                                         *)
EXTENDS MlkHash

CONSTANTS p1, p2, a, b, c

Paths == [n \in Nodes |-> IF n = c THEN <<a, c>> ELSE <<n>>]

\* With the first seed there is no bucket for the third node except in the smallest
\* table, with the second in none, and with the third entries have to be moved.
Hashes == 0 :> (a :> 0 @@ b :> 35 @@ c :> 70) @@
          1 :> (a :> 0 @@ b :> 0 @@ c :> 0) @@
          2 :> (a :> 0 @@ b :> 0 @@ c :> 1)
====

------------------------------ MODULE MCMLock ------------------------------
(***************************************************************************)
(* Small instances of MLock for TLC: the names are ^a, ^a(1) and ^c.       *)
(***************************************************************************)
EXTENDS MLock, TLC

CONSTANTS p1, p2, p3, none, disabled, a, a1, c, null, changed

TwoTrees == [n \in {a, a1, c} |-> IF n = a1 THEN {a} ELSE {}]

OneTree == [n \in {a, a1} |-> IF n = a1 THEN {a} ELSE {}]

TwoNames == [n \in {a, c} |-> {}]

\* The arguments of LOCK + commands.
Lists == {<<a>>, <<a1, c>>, <<c, a>>}

Nested == {<<a>>, <<a1>>}

Unrelated == {<<a>>, <<c>>}

Symmetry == Permutations(Pids)
============================================================================

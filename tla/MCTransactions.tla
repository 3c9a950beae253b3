--------------------------- MODULE MCTransactions ---------------------------
(* Small instances of Transactions. *)
EXTENDS Transactions, TLC

CONSTANTS j1, j2, k1, k2, a1, d1, d2, h1, h2

SameKey == [j \in Jobs |-> k1]
OwnKey == [j \in Jobs |-> IF j = j1 THEN k1 ELSE k2]
AppOne == [j \in Jobs |-> a1]
NoTargets == [j \in Jobs |-> NoTarget]

\* Sound where the jobs share their key.
Symmetry == Permutations(Digests) \cup Permutations(Jobs) \cup Permutations(Doors)
=============================================================================

---------------------------- MODULE MCWorkerPool ----------------------------
(* Small instances of WorkerPool. *)
EXTENDS WorkerPool, TLC

CONSTANTS j1, j2, a1, e1, t1

OneJob == {j1}
TwoJobs == {j1, j2}
AppOne == [j \in TwoJobs |-> a1]
NoTargets == [j \in TwoJobs |-> NoTarget]
SharedTarget == [j \in TwoJobs |-> t1]
LimitOne == [app \in {a1} |-> 1]
Unlimited == [app \in {a1} |-> 0]

Symmetry == Permutations(TwoJobs)
=============================================================================

-------------------------- MODULE MCExecutorPlane ---------------------------
(* Small instances of ExecutorPlane. *)
EXTENDS ExecutorPlane, TLC

CONSTANTS j1, j2, a1, e1, e2

OneJob == {j1}
TwoJobs == {j1, j2}
AppOne == [j \in TwoJobs |-> a1]
NoTargets == [j \in TwoJobs |-> NoTarget]
LimitOne == [app \in {a1} |-> 1]
Anything == [e \in Executors |-> {}]

Symmetry == Permutations(TwoJobs)
=============================================================================

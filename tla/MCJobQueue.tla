----------------------------- MODULE MCJobQueue -----------------------------
(* Small instances of JobQueue. *)
EXTENDS JobQueue, TLC

CONSTANTS j1, j2, a1, t1, e1

\* Two jobs that contend for one target.
TwoJobs == {j1, j2}
SharedTarget == [j \in TwoJobs |-> t1]
OneApp == [j \in TwoJobs |-> a1]

OneJob == {j1}
FreeTarget == [j \in OneJob |-> NoTarget]
SoloApp == [j \in OneJob |-> a1]

Symmetry == Permutations(TwoJobs)
=============================================================================

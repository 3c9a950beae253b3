---------------------------- MODULE JobLifecycle ----------------------------
(***************************************************************************)
(* What the queue promises of a job, without tables, leases or sweeps: the  *)
(* lifecycle queued -> running -> succeeded | failed | cancelled with the   *)
(* detour running -> waiting -> queued, an attempt counter that a grant     *)
(* advances by one and nothing else moves, success that is never undone,    *)
(* and no two runs on one target.                                           *)
(***************************************************************************)
EXTENDS Naturals

CONSTANTS Jobs, TargetOf, NoTarget

VARIABLES
    phase,      \* phase[j]: where the job is in its life
    granted     \* granted[j]: attempts handed out so far

vars == <<phase, granted>>

Init ==
    /\ phase = [j \in Jobs |-> "absent"]
    /\ granted = [j \in Jobs |-> 0]

\* The moves that hand out no attempt.
Moves ==
    {<<"absent", "queued">>,
     <<"running", "queued">>, <<"running", "waiting">>, <<"running", "succeeded">>,
     <<"running", "failed">>, <<"running", "cancelled">>,
     <<"waiting", "queued">>, <<"waiting", "cancelled">>, <<"waiting", "failed">>,
     <<"queued", "cancelled">>,
     <<"failed", "queued">>, <<"cancelled", "queued">>}

Rest(j) == phase'[j] = phase[j] /\ granted'[j] = granted[j]

Move(j) == <<phase[j], phase'[j]>> \in Moves /\ granted'[j] = granted[j]

Grant(j) ==
    /\ phase[j] = "queued"
    /\ phase'[j] = "running"
    /\ granted'[j] = granted[j] + 1

Exclusive(ph) ==
    \A j, k \in Jobs :
        /\ j # k
        /\ ph[j] = "running" /\ ph[k] = "running"
        => TargetOf[j] = NoTarget \/ TargetOf[j] # TargetOf[k]

\* A bulk statement moves several jobs at once.
Next ==
    /\ \A j \in Jobs : Rest(j) \/ Move(j) \/ Grant(j)
    /\ Exclusive(phase')

Spec == Init /\ [][Next]_vars
=============================================================================

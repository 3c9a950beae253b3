---------------------------- MODULE MCScheduler ----------------------------
(* The scheduler on small instances. *)
EXTENDS Scheduler

CONSTANTS s1, s2, low, high

\* s1 fires at every instant, s2 at every other one
MCFires == [s \in Schedules |-> IF s = s1 THEN 1..MaxTime ELSE {t \in 1..MaxTime : t % 2 = 1}]
=============================================================================

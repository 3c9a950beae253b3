------------------------------- MODULE MCNode -------------------------------
(* The executor plane and the politeness governor of one node.  They share    *)
(* nothing but the process: a behaviour moves one of them, and TLC explores   *)
(* the state graphs of both side by side.                                     *)
EXTENDS MCExecutorPlane, Governor

CONSTANTS h1, c1, c2

VARIABLE side

NodeInit ==
    /\ side \in {"executors", "governor"}
    /\ Init
    /\ PolitenessInit
    /\ side = "executors" => interval = CHOOSE i \in [Hosts -> Intervals] : TRUE

ExecutorStep == side = "executors" /\ Next /\ UNCHANGED <<side, politenessVars>>
GovernorStep == side = "governor" /\ PolitenessNext /\ UNCHANGED <<side, vars>>

NodeNext == ExecutorStep \/ GovernorStep

NodeSpec == NodeInit /\ [][NodeNext]_<<side, vars, politenessVars>>

\* Both halves have their types, a stored checkpoint is of an attempt the job has had, the
\* penalties and their memory agree, and slots of a limited host are an interval apart.
NodeInv == TypeOK /\ CheckpointInv /\ PenaltyInv /\ SlotInv
=============================================================================

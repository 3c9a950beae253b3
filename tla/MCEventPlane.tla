---------------------------- MODULE MCEventPlane ----------------------------
(* The event plane on small instances. *)
EXTENDS EventPlane

CONSTANTS tick, fan, poll, t1, t2, c1, Selective

MCWants == [t \in Targets |-> IF t \in Selective THEN {"lifecycle"} ELSE Kinds]
=============================================================================

----------------------------- MODULE MCWorkflow -----------------------------
(* Small plans for Workflow. *)
EXTENDS Workflow

\* Two sources and one join: the plan of the end-to-end test.
Join == [s \in 1..3 |-> IF s = 3 THEN {1, 2} ELSE {}]

\* One step after the other.
Chain == [s \in 1..3 |-> IF s = 1 THEN {} ELSE {s - 1}]

\* A source, two branches and their join.
Diamond == [s \in 1..4 |-> IF s = 1 THEN {} ELSE IF s = 4 THEN {2, 3} ELSE {1}]

\* A step that hangs on one source, and an independent source.
Branch == [s \in 1..3 |-> IF s = 3 THEN {1} ELSE {}]
=============================================================================

---------------------------- MODULE MCDeliveries ----------------------------
(* Small instances of Deliveries. *)
EXTENDS Deliveries

CONSTANTS d1, d2, u1, u2, u3
=============================================================================

----------------------------- MODULE EventPlane -----------------------------
(***************************************************************************)
(* The bus and the log with both of their consumers: the outbox drain that  *)
(* pushes to subscriptions and the SSE streams that clients pull.  All of   *)
(* them flush the same queue; only the drain's passes exclude one another.  *)
(***************************************************************************)
EXTENDS Outbox, EventStream

vars == <<busVars, outboxVars, streamVars>>

TypeOK == BusTypeOK /\ OutboxTypeOK /\ StreamTypeOK

Init == BusInit /\ OutboxInit /\ StreamInit

\* a crash and the boot that follows it
Reboot == Restart /\ OutboxRestart /\ StreamRestart

Produce == (Prune \/ \E k \in Kinds : Emit(k)) /\ UNCHANGED <<outboxVars, streamVars>>

Next ==
    \/ Produce
    \/ OutboxStep /\ UNCHANGED streamVars
    \/ StreamStep /\ NoteLate /\ UNCHANGED <<sub, handed, pass>>
    \/ Reboot

Spec == Init /\ [][Next]_vars

\* the scheduler keeps ticking, the runtime keeps polling a connection's task
FairSpec ==
    /\ Spec
    /\ WF_vars(DrainStep /\ UNCHANGED streamVars)
    /\ WF_vars(ServeStep /\ NoteLate /\ UNCHANGED <<sub, handed, pass>>)

\* Nothing is lost on the way from the bus through the log to a subscription's cursor:
\* what is missing was counted as dropped or went down with a cancelled flusher, what is
\* durable was handed off, and a stream's view is whole.  This conjunction is inductive.
EventInv ==
    /\ TypeOK
    /\ EveryEventAccounted /\ EachInOnePlace
    /\ PassInStep /\ PageWhole /\ NoDurableSkip /\ HandoffsCharged
    /\ ViewsInStep
=============================================================================

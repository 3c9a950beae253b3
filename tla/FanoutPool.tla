----------------------------- MODULE FanoutPool -----------------------------
(***************************************************************************)
(* The bounded pool of fanout.rs, of which the server runs two instances: a *)
(* finished job's derived work and outbound deliveries.  A caller reads the *)
(* backlog, decides where its unit runs, and only then takes a ticket: the  *)
(* read and the increment are two atomic operations of two threads.  A unit *)
(* past the ceiling runs on its caller, outside permit and ticket.          *)
(***************************************************************************)
EXTENDS Naturals, FiniteSets, Sequences

CONSTANTS
    Units,          \* units a caller may hand to the pool
    Concurrency,    \* permits
    MaxQueued       \* backlog ceiling, running units included

ASSUME PoolAssumption ==
    /\ Concurrency \in Nat
    /\ MaxQueued \in Nat
    /\ IsFiniteSet(Units)

VARIABLES
    place,      \* where each unit is
    line,       \* the tasks waiting for a permit; the semaphore is first come first served
    inflight    \* the atomic ticket counter

poolVars == <<place, line, inflight>>

Places == {"none", "spawning", "queued", "running", "inline"}

PoolTypeOK ==
    /\ place \in [Units -> Places]
    /\ line \in Seq(Units)
    /\ inflight \in Nat

PoolInit ==
    /\ place = [u \in Units |-> "none"]
    /\ line = <<>>
    /\ inflight = 0

In(where) == {u \in Units : place[u] \in where}

Executing(u) == place[u] \in {"running", "inline"}

\* placement, on the backlog the caller read.
Placement(n) ==
    IF Concurrency = 0 \/ MaxQueued = 0 \/ n >= MaxQueued THEN "inline" ELSE "spawning"

\* run_tagged up to the decision.
Submit(u) ==
    /\ place[u] = "none"
    /\ place' = [place EXCEPT ![u] = Placement(inflight)]
    /\ UNCHANGED <<line, inflight>>

\* run_tagged after it: the ticket is taken and the task spawned.
Spawn(u) ==
    /\ place[u] = "spawning"
    /\ place' = [place EXCEPT ![u] = "queued"]
    /\ line' = Append(line, u)
    /\ inflight' = inflight + 1

\* The task gets its permit.
Acquire(u) ==
    /\ line # <<>> /\ Head(line) = u
    /\ Cardinality(In({"running"})) < Concurrency
    /\ place' = [place EXCEPT ![u] = "running"]
    /\ line' = Tail(line)
    /\ UNCHANGED inflight

\* The unit returns.
Leave(u) ==
    /\ Executing(u)
    /\ place' = [place EXCEPT ![u] = "none"]
    /\ inflight' = IF place[u] = "running" THEN inflight - 1 ELSE inflight
    /\ UNCHANGED line

\* A fault: an unwinding unit takes its ticket with it.
UnwindLeaking(u) ==
    /\ Executing(u)
    /\ place' = [place EXCEPT ![u] = "none"]
    /\ UNCHANGED <<line, inflight>>

\* The unit unwinds: the pool catches it and the ticket is dropped all the same.
Unwind(u) ==
    /\ Executing(u)
    /\ place' = [place EXCEPT ![u] = "none"]
    /\ inflight' = IF place[u] = "running" THEN inflight - 1 ELSE inflight
    /\ UNCHANGED line

\* The process ends, cleanly or not.
PoolReset ==
    /\ place' = [u \in Units |-> "none"]
    /\ line' = <<>>
    /\ inflight' = 0

-----------------------------------------------------------------------------

\* The permits are never over-committed and the counter is exactly the spawned
\* units that have not returned, panicked ones included (Ticket): a leaked ticket
\* would shrink the backlog for ever and end with every unit inline.
TicketsExact ==
    /\ Cardinality(In({"running"})) <= Concurrency
    /\ inflight = Cardinality(In({"queued", "running"}))

\* The line is the queued units, each once; a unit is on the pool only if the pool has permits.
LineExact ==
    /\ \A i, k \in 1..Len(line) : line[i] = line[k] => i = k
    /\ \A u \in Units : place[u] = "queued" <=> \E i \in 1..Len(line) : line[i] = u
    /\ Len(line) = Cardinality(In({"queued"}))
    /\ \A u \in Units : place[u] \in {"spawning", "queued", "running"} => Concurrency > 0
=============================================================================

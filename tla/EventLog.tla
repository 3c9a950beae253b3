------------------------------ MODULE EventLog ------------------------------
(***************************************************************************)
(* The event bus and its durable log.  An emitted event gets the next       *)
(* sequence number, enters the replay ring and waits in the pending queue   *)
(* until a flusher takes the whole queue and appends it in one transaction. *)
(* Events are their sequence numbers; kind tells the droppable progress     *)
(* events from the job transitions.  The ring and the queue die with the    *)
(* process, the log does not.                                               *)
(***************************************************************************)
EXTENDS Integers, FiniteSets, SequencesExt

CONSTANTS
    Flushers,       \* whoever calls persist_pending
    Kinds,          \* progress events and job transitions
    RingCap,        \* ring_capacity
    PendingCap,     \* pending_capacity
    MaxSeq,         \* events explored
    FaultBound,     \* storage errors explored
    CrashBound,     \* restarts explored
    PruneBound      \* janitor passes explored

ASSUME EventLogAssumption ==
    /\ Kinds \subseteq {"progress", "lifecycle"}
    /\ RingCap \in Nat \ {0} /\ PendingCap \in Nat \ {0} /\ MaxSeq \in Nat
    /\ FaultBound \in Nat /\ CrashBound \in Nat /\ PruneBound \in Nat

VARIABLES
    seq,        \* the bus counter
    seed,       \* its value at boot
    kind,       \* the kind of each event of the current numbering
    ringFrom,   \* the ring holds ringFrom..seq
    pending,    \* events waiting for the log
    hand,       \* the batch each flusher has taken and not yet appended
    log,        \* the durable rows, one set per append, in order of created_at
    landed,     \* history: what was appended since boot
    lost,       \* history: what cancelled flushers took since boot and did not append
    dropped, lifecycleDropped,      \* the two counters of the bus
    faults, crashes, prunes

busVars == <<seq, seed, kind, ringFrom, pending, hand, log, landed, lost, dropped,
             lifecycleDropped, faults, crashes, prunes>>

Seqs == 1..MaxSeq

BusTypeOK ==
    /\ seq \in 0..MaxSeq /\ seed \in 0..seq
    /\ kind \in [Seqs -> Kinds \cup {"none"}]
    /\ ringFrom \in (seed + 1)..(seq + 1) /\ seq - ringFrom < RingCap
    /\ pending \in Seq(Seqs) /\ Len(pending) <= PendingCap
    /\ hand \in [Flushers -> Seq(Seqs)]
    /\ log \in Seq(SUBSET Seqs)
    /\ landed \subseteq Seqs /\ lost \subseteq Seqs
    /\ dropped \in Nat /\ lifecycleDropped \in 0..dropped
    /\ faults \in 0..FaultBound /\ crashes \in 0..CrashBound /\ prunes \in 0..PruneBound

BusInit ==
    /\ seq = 0 /\ seed = 0 /\ ringFrom = 1
    /\ kind = [s \in Seqs |-> "none"]
    /\ pending = <<>> /\ hand = [f \in Flushers |-> <<>>]
    /\ log = <<>> /\ landed = {} /\ lost = {}
    /\ dropped = 0 /\ lifecycleDropped = 0
    /\ faults = 0 /\ crashes = 0 /\ prunes = 0

Rows == UNION ToSet(log)
MaxRow == IF Rows = {} THEN 0 ELSE Max(Rows)

\* A fault: the page starts one past the row behind the cursor and has no end.
AfterGap(cur, n) == {s \in Rows : s > cur + 1}

\* events_after: the keyset page of at most n rows behind a cursor; it is ordered by seq, so
\* the set of its numbers is the page, and its first and last rows are Min and Max
Between(cur, s) == {r \in Rows : cur < r /\ r < s}
After(cur, n) == {s \in Rows : cur < s /\ Cardinality(Between(cur, s)) < n}

Progress(q, kd) == {i \in DOMAIN q : kd[q[i]] = "progress"}

(* queue_for_log: a full queue sheds its oldest progress event; if it holds    *)
(* none, an arriving progress event is the one shed, and an arriving           *)
(* transition displaces the oldest transition.                                 *)
Queued(q, s, kd) ==
    IF Len(q) < PendingCap THEN Append(q, s)
    ELSE IF Progress(q, kd) # {} THEN Append(RemoveAt(q, Min(Progress(q, kd))), s)
    ELSE IF kd[s] = "progress" THEN q
    ELSE Append(Tail(q), s)

Displaced(q, s, kd) ==
    /\ Len(q) >= PendingCap
    /\ Progress(q, kd) = {} /\ kd[s] # "progress"

\* emit, under the ring lock; the byte budget may evict past the count bound
Emit(k) ==
    LET s == seq + 1
        kd == [kind EXCEPT ![s] = k]
    IN  /\ seq < MaxSeq
        /\ seq' = s /\ kind' = kd
        /\ \E from \in Max({ringFrom, s - RingCap + 1})..s : ringFrom' = from
        /\ pending' = Queued(pending, s, kd)
        /\ dropped' = dropped + (IF Len(pending) >= PendingCap THEN 1 ELSE 0)
        /\ lifecycleDropped' = lifecycleDropped + (IF Displaced(pending, s, kd) THEN 1 ELSE 0)
        /\ UNCHANGED <<seed, hand, log, landed, lost, faults, crashes, prunes>>

\* persist_pending, first half: the queue is emptied under its lock
Take(f) ==
    /\ hand[f] = <<>> /\ pending # <<>>
    /\ hand' = [hand EXCEPT ![f] = pending]
    /\ pending' = <<>>
    /\ UNCHANGED <<seq, seed, kind, ringFrom, log, landed, lost, dropped, lifecycleDropped,
                   faults, crashes, prunes>>

\* append_events: one transaction, INSERT OR IGNORE
Land(f) ==
    /\ hand[f] # <<>>
    /\ log' = Append(log, ToSet(hand[f]) \ Rows)
    /\ landed' = landed \cup ToSet(hand[f])
    /\ hand' = [hand EXCEPT ![f] = <<>>]
    /\ UNCHANGED <<seq, seed, kind, ringFrom, pending, lost, dropped, lifecycleDropped,
                   faults, crashes, prunes>>

\* the caller's future is dropped while it awaits append_events, before the commit: the
\* transaction is rolled back and nobody gives the batch back
Cancelled(f) ==
    /\ hand[f] # <<>>
    /\ lost' = lost \cup ToSet(hand[f])
    /\ hand' = [hand EXCEPT ![f] = <<>>]
    /\ UNCHANGED <<seq, seed, kind, ringFrom, pending, log, landed, dropped, lifecycleDropped,
                   faults, crashes, prunes>>

Surplus(q) == IF Len(q) > PendingCap THEN Len(q) - PendingCap ELSE 0

\* A fault: one event more than the surplus is shed.
RequeuedShort(q) == SubSeq(q, Surplus(q) + 2, Len(q))

\* the batch goes back to the front of the queue, which sheds its oldest
Requeued(q) == SubSeq(q, Surplus(q) + 1, Len(q))

LandFails(f) ==
    LET q == hand[f] \o pending IN
    /\ hand[f] # <<>>
    /\ faults < FaultBound
    /\ pending' = Requeued(q)
    /\ dropped' = dropped + Surplus(q)
    /\ hand' = [hand EXCEPT ![f] = <<>>]
    /\ faults' = faults + 1
    /\ UNCHANGED <<seq, seed, kind, ringFrom, log, landed, lost, lifecycleDropped, crashes, prunes>>

\* prune_events: the oldest appends fall out of the retention window
Prune ==
    /\ log # <<>> /\ prunes < PruneBound
    /\ log' = Tail(log)
    /\ prunes' = prunes + 1
    /\ UNCHANGED <<seq, seed, kind, ringFrom, pending, hand, landed, lost, dropped,
                   lifecycleDropped, faults, crashes>>

(***************************************************************************)
(* A restart: ring, queue and batches are gone, and seed_seq continues the  *)
(* numbering from MAX(seq) of the log.                                      *)
(***************************************************************************)
Restart ==
    /\ crashes < CrashBound
    /\ crashes' = crashes + 1
    /\ seq' = MaxRow /\ seed' = MaxRow /\ ringFrom' = MaxRow + 1
    /\ kind' = [s \in Seqs |-> IF s \in Rows THEN kind[s] ELSE "none"]
    /\ pending' = <<>> /\ hand' = [f \in Flushers |-> <<>>]
    /\ landed' = {} /\ lost' = {} /\ dropped' = 0 /\ lifecycleDropped' = 0
    /\ UNCHANGED <<log, faults, prunes>>

(***************************************************************************)
(* Accounting.  Every event emitted since boot is waiting, in a flusher's   *)
(* hands, was appended, or went down with a flusher that was cancelled      *)
(* inside its append; exactly the dropped counter's worth is missing        *)
(* besides.  A failed append gives its batch back (events.rs,               *)
(* persist_pending).                                                        *)
(***************************************************************************)
Settled == landed \cup lost

Missing ==
    {s \in (seed + 1)..seq :
        /\ s \notin Settled /\ s \notin ToSet(pending)
        /\ \A f \in Flushers : s \notin ToSet(hand[f])}

EveryEventAccounted == Cardinality(Missing) = dropped

\* An event of this life of the process is in one place: no batch that two flushers took
\* or gave back holds an event twice, or one that is in the log or was given up.
EachInOnePlace ==
    /\ IsInjective(pending) /\ \A f \in Flushers : IsInjective(hand[f])
    /\ Settled \subseteq (seed + 1)..seq /\ landed \cap lost = {} /\ Rows \subseteq 1..seq
    /\ ToSet(pending) \subseteq ((seed + 1)..seq) \ Settled
    /\ \A f \in Flushers :
          ToSet(hand[f]) \subseteq ((seed + 1)..seq) \ (Settled \cup ToSet(pending))
    /\ \A f, g \in Flushers : f # g => ToSet(hand[f]) \cap ToSet(hand[g]) = {}

(***************************************************************************)
(* What the bus's comments promise: "a stated loss, not [...] a silent one",*)
(* and "an event that could not be written is still owed" (events.rs, the   *)
(* module and persist_pending).                                             *)
(***************************************************************************)
EveryLossStated == Cardinality(Missing \cup lost) = dropped
=============================================================================

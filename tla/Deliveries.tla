----------------------------- MODULE Deliveries -----------------------------
(***************************************************************************)
(* Outbound deliveries: the webhook_deliveries log, the senders that run on *)
(* the delivery pool, the drain that rides the scheduler tick and the       *)
(* manual replay route.  A unit carries one send of one row from the moment *)
(* its caller owes it; rows outlive the process, units do not.              *)
(***************************************************************************)
EXTENDS FanoutPool, Integers

CONSTANTS
    Ids,            \* delivery rows
    LocalIds,       \* those whose sink is a file or a plugin: one attempt
    SubscriptionIds,\* those the subscription drain dispatches: logged first
    NoRow, NoUnit,
    MaxAttempts,    \* sends of one in-process ladder
    MaxRetries,     \* DRAIN_MAX_RETRIES
    DrainBatch,     \* DRAIN_BATCH
    SendTicks,      \* bound of one in-process delivery, timeouts and sleeps
    StaleTicks,     \* STALE_PENDING_SECS
    FaultBound,     \* crashes, panics and storage errors explored
    ReplayIds,      \* rows that replay requests are explored for
    ReplayBound     \* and how many of them

ASSUME DeliveryAssumption ==
    /\ LocalIds \subseteq Ids /\ SubscriptionIds \subseteq Ids /\ ReplayIds \subseteq Ids
    /\ NoRow \notin Ids /\ NoUnit \notin Units
    /\ MaxAttempts \in Nat \ {0} /\ MaxRetries \in Nat /\ DrainBatch \in Nat \ {0}
    /\ SendTicks \in Nat \ {0} /\ StaleTicks \in Nat \ {0}
    /\ FaultBound \in Nat /\ ReplayBound \in Nat

VARIABLES
    rows,       \* the delivery log
    unit,       \* what each unit of the pool is doing
    drain,      \* drain_due: where the scheduler tick is
    route,      \* replay_delivery: one request between its read and its claim
    faults, replays,
    overtaken   \* history: how often a row was reclaimed from under a sender

vars == <<place, line, inflight, rows, unit, drain, route, faults, replays, overtaken>>

Statuses == {"none", "pending", "delivered", "failed", "dead"}
Row == [status : Statuses, retry : Nat, next : {"null", "later", "due"}, age : 0..StaleTicks]
Unit == [row : Ids \cup {NoRow}, stage : {"free", "create", "send", "log", "write"},
         tries : 0..MaxAttempts, spent : 0..SendTicks,
         verdict : {"none", "delivered", "failed", "dead"}, read : Nat]

TypeOK ==
    /\ PoolTypeOK
    /\ rows \in [Ids -> Row]
    /\ unit \in [Units -> Unit]
    /\ drain \in [at : {"idle", "scan", "claim"}, todo : SUBSET Ids, cur : Units \cup {NoUnit}]
    /\ route \in [at : {"idle", "claim"}, row : Ids \cup {NoRow}, force : BOOLEAN]
    /\ faults \in 0..FaultBound
    /\ replays \in 0..ReplayBound
    /\ overtaken \in [Ids -> Nat]

FreeUnit == [row |-> NoRow, stage |-> "free", tries |-> 0, spent |-> 0,
             verdict |-> "none", read |-> 0]
IdleDrain == [at |-> "idle", todo |-> {}, cur |-> NoUnit]
IdleRoute == [at |-> "idle", row |-> NoRow, force |-> FALSE]

Init ==
    /\ PoolInit
    /\ rows = [d \in Ids |-> [status |-> "none", retry |-> 0, next |-> "null", age |-> 0]]
    /\ unit = [u \in Units |-> FreeUnit]
    /\ drain = IdleDrain
    /\ route = IdleRoute
    /\ faults = 0
    /\ replays = 0
    /\ overtaken = [d \in Ids |-> 0]

Free(u) == unit[u].stage = "free"
Carries(u, d) == ~Free(u) /\ unit[u].row = d
Senders(d) == {u \in Units : Carries(u, d)}
Fault == /\ faults < FaultBound
         /\ faults' = faults + 1

Update(d, status, retry, next) ==
    [rows EXCEPT ![d] = [status |-> status, retry |-> retry, next |-> next, age |-> 0]]

Owe(u, d, stage) == [unit EXCEPT ![u] = [FreeUnit EXCEPT !.row = d, !.stage = stage]]

-----------------------------------------------------------------------------
(* The callers *)

\* An id no row and no unit has: the uuid of a delivery about to be logged.
Fresh(d) == rows[d].status = "none" /\ Senders(d) = {}

\* dispatch_event: the row is written by the unit itself, on the pool.
DispatchEvent(u, d) ==
    /\ Free(u) /\ Fresh(d) /\ d \notin SubscriptionIds
    /\ unit' = Owe(u, d, "create")
    /\ UNCHANGED <<poolVars, rows, drain, route, faults, replays, overtaken>>

\* dispatch_logged: the row comes first; when it cannot be written the caller
\* is told and nothing is owed.
DispatchLogged(u, d) ==
    /\ Free(u) /\ Fresh(d) /\ d \in SubscriptionIds
    /\ rows' = Update(d, "pending", 0, "null")
    /\ unit' = Owe(u, d, "send")
    /\ UNCHANGED <<poolVars, drain, route, faults, replays, overtaken>>

\* A fault: the tick scans without reclaiming.
ReclaimedNothing(d) == rows[d]

\* reclaim_stale_deliveries at the head of drain_due.
Reclaimed(d) ==
    IF rows[d].status = "pending" /\ rows[d].age = StaleTicks
    THEN [rows[d] EXCEPT !.status = "failed", !.next = "due", !.age = 0]
    ELSE rows[d]

\* The statement asks for an age and not for a sender: a row whose sender still
\* waits for a permit is taken from under it.
DrainReclaim ==
    /\ drain.at = "idle"
    /\ rows' = [d \in Ids |-> Reclaimed(d)]
    /\ overtaken' = [d \in Ids |-> IF Reclaimed(d) # rows[d] /\ Senders(d) # {}
                                  THEN overtaken[d] + 1 ELSE overtaken[d]]
    /\ drain' = [drain EXCEPT !.at = "scan"]
    /\ UNCHANGED <<poolVars, unit, route, faults, replays>>

DueRows == {d \in Ids : rows[d].status = "failed" /\ rows[d].next = "due"}

DrainScan ==
    /\ drain.at = "scan"
    /\ \E todo \in SUBSET DueRows :
        /\ Cardinality(todo) = IF Cardinality(DueRows) <= DrainBatch
                               THEN Cardinality(DueRows) ELSE DrainBatch
        /\ drain' = [drain EXCEPT !.at = "claim", !.todo = todo]
    /\ UNCHANGED <<poolVars, rows, unit, route, faults, replays, overtaken>>

\* A fault: the claim is the scan's answer, unfenced.
RetryClaimsAny(d) == TRUE

\* begin_delivery_retry: what the statement's WHERE clause takes.
RetryClaims(d) == rows[d].status = "failed"

\* One row of the batch: claim it, or skip it when another sender has it.
DrainClaim(u, d) ==
    /\ drain.at = "claim" /\ drain.cur = NoUnit /\ d \in drain.todo
    /\ Free(u)
    /\ IF RetryClaims(d)
       THEN /\ rows' = Update(d, "pending", rows[d].retry + 1, "null")
            /\ unit' = Owe(u, d, "send")
            /\ drain' = [drain EXCEPT !.todo = @ \ {d}, !.cur = u]
       ELSE /\ drain' = [drain EXCEPT !.todo = @ \ {d}]
            /\ UNCHANGED <<rows, unit>>
    /\ UNCHANGED <<poolVars, route, faults, replays, overtaken>>

DrainDone ==
    /\ drain.at = "claim" /\ drain.cur = NoUnit /\ drain.todo = {}
    /\ drain' = IdleDrain
    /\ UNCHANGED <<poolVars, rows, unit, route, faults, replays, overtaken>>

\* A storage error in the tick: a reclaim that fails is a warning and the scan
\* goes on, a scan that fails ends the tick, a claim that fails is passed over.
DrainErrs ==
    /\ Fault
    /\ \/ /\ drain.at = "idle"
          /\ drain' = [drain EXCEPT !.at = "scan"]
       \/ /\ drain.at = "scan"
          /\ drain' = IdleDrain
       \/ /\ drain.at = "claim" /\ drain.cur = NoUnit
          /\ \E d \in drain.todo : drain' = [drain EXCEPT !.todo = @ \ {d}]
    /\ UNCHANGED <<poolVars, rows, unit, route, replays, overtaken>>

\* replay_gate and the WHERE clause of begin_delivery_replay agree.
Replayable(d, force) ==
    \/ rows[d].status \in {"failed", "dead"}
    \/ force /\ rows[d].status = "delivered"

\* replay_delivery up to its gate; a refused request is a 409 and no step.
ReplayRead(d, force) ==
    /\ route.at = "idle" /\ replays < ReplayBound /\ d \in ReplayIds
    /\ Replayable(d, force)
    /\ route' = [at |-> "claim", row |-> d, force |-> force]
    /\ replays' = replays + 1
    /\ UNCHANGED <<poolVars, rows, unit, drain, faults, overtaken>>

\* A fault: the gate's read is trusted and the claim is not conditional.
ReplayClaimUnfenced(u) ==
    /\ route.at = "claim" /\ Free(u)
    /\ rows' = Update(route.row, "pending", rows[route.row].retry + 1, "null")
    /\ unit' = Owe(u, route.row, "send")
    /\ route' = IdleRoute
    /\ UNCHANGED <<poolVars, drain, faults, replays, overtaken>>

\* begin_delivery_replay decides; a row taken meanwhile is a 409.
ReplayClaim(u) ==
    /\ route.at = "claim" /\ Free(u)
    /\ IF Replayable(route.row, route.force)
       THEN /\ rows' = Update(route.row, "pending", rows[route.row].retry + 1, "null")
            /\ unit' = Owe(u, route.row, "send")
       ELSE UNCHANGED <<rows, unit>>
    /\ route' = IdleRoute
    /\ UNCHANGED <<poolVars, drain, faults, replays, overtaken>>

-----------------------------------------------------------------------------
(* The pool under the senders.  The drain goes on to its next row when its   *)
(* unit is spawned, or has run on the tick itself.                           *)

Released(u) == drain' = IF drain.cur = u THEN [drain EXCEPT !.cur = NoUnit] ELSE drain

Hand(u) ==
    /\ ~Free(u)
    /\ Submit(u)
    /\ UNCHANGED <<rows, unit, drain, route, faults, replays, overtaken>>

Queue(u) ==
    /\ Spawn(u)
    /\ Released(u)
    /\ UNCHANGED <<rows, unit, route, faults, replays, overtaken>>

Start(u) ==
    /\ Acquire(u)
    /\ UNCHANGED <<rows, unit, drain, route, faults, replays, overtaken>>

Return(u) ==
    /\ Leave(u)
    /\ Released(u)
    /\ unit' = [unit EXCEPT ![u] = FreeUnit]

-----------------------------------------------------------------------------
(* One unit *)

\* queue_logged: the log row, or a send under a fresh id that no log knows.
CreateRow(u) ==
    /\ Executing(u) /\ unit[u].stage = "create"
    /\ \/ /\ rows' = Update(unit[u].row, "pending", 0, "null")
          /\ unit' = [unit EXCEPT ![u].stage = "send"]
          /\ UNCHANGED faults
       \/ /\ Fault
          /\ unit' = [unit EXCEPT ![u].stage = "send", ![u].row = NoRow]
          /\ UNCHANGED rows
    /\ UNCHANGED <<poolVars, drain, route, replays, overtaken>>

\* The ladder of deliver; deliver_file and deliver_plugin try once.
LastTry(u) == unit[u].tries + 1 = IF unit[u].row \in LocalIds THEN 1 ELSE MaxAttempts

\* What deliver does with the answer of one attempt: classify_status, or the
\* connector's own word.  A request that was accepted and whose response timed
\* out is a transient answer too: the sender cannot tell.
AfterAttempt(u, answer) ==
    LET verdict == CASE answer = "ok" -> "delivered"
                     [] answer = "permanent" -> "dead"
                     [] OTHER -> "failed"
    IN IF verdict # "failed" \/ LastTry(u)
       THEN [unit[u] EXCEPT !.tries = @ + 1, !.stage = "log", !.verdict = verdict]
       ELSE [unit[u] EXCEPT !.tries = @ + 1]

Attempt(u) ==
    /\ Executing(u) /\ unit[u].stage = "send"
    /\ \E answer \in {"ok", "transient", "permanent"} :
        unit' = [unit EXCEPT ![u] = AfterAttempt(u, answer)]
    /\ UNCHANGED <<poolVars, rows, drain, route, faults, replays, overtaken>>

\* log_outcome: finish_delivery or kill_delivery, one unconditional UPDATE.
LogOutcome(u) ==
    /\ Executing(u) /\ unit[u].stage = "log" /\ unit[u].row # NoRow
    /\ unit[u].verdict # "failed"
    /\ rows' = Update(unit[u].row, unit[u].verdict, rows[unit[u].row].retry, "null")
    /\ Return(u)
    /\ UNCHANGED <<route, faults, replays, overtaken>>

\* fail_delivery, first statement.
FailRead(u) ==
    /\ Executing(u) /\ unit[u].stage = "log" /\ unit[u].row # NoRow
    /\ unit[u].verdict = "failed"
    /\ unit' = [unit EXCEPT ![u].stage = "write", ![u].read = rows[unit[u].row].retry]
    /\ UNCHANGED <<poolVars, rows, drain, route, faults, replays, overtaken>>

\* A fault: the ladder has no end.
FailedRowForever(d, read) == Update(d, "failed", rows[d].retry, "later")

\* The row fail_delivery writes: dead past the cap, else the next rung.
FailedRow(d, read) ==
    IF read >= MaxRetries THEN Update(d, "dead", rows[d].retry, "null")
                          ELSE Update(d, "failed", rows[d].retry, "later")

FailWrite(u) ==
    /\ Executing(u) /\ unit[u].stage = "write"
    /\ rows' = FailedRow(unit[u].row, unit[u].read)
    /\ Return(u)
    /\ UNCHANGED <<route, faults, replays, overtaken>>

\* An unlogged send ends in a warning and nowhere else.
Unlogged(u) ==
    /\ Executing(u) /\ unit[u].stage = "log" /\ unit[u].row = NoRow
    /\ Return(u)
    /\ UNCHANGED <<rows, route, faults, replays, overtaken>>

\* A storage error under log_outcome, which reports and swallows it.
Unrecorded(u) ==
    /\ Fault
    /\ Executing(u) /\ unit[u].stage \in {"log", "write"} /\ unit[u].row # NoRow
    /\ Return(u)
    /\ UNCHANGED <<rows, route, replays, overtaken>>

\* The unit panics.  On the pool it is caught; inline it unwinds its caller,
\* and the scheduler contains the tick.
Panics(u) ==
    /\ Fault
    /\ unit[u].stage \in {"create", "send"}
    /\ Unwind(u)
    /\ unit' = [unit EXCEPT ![u] = FreeUnit]
    /\ drain' = IF drain.cur = u THEN IdleDrain ELSE drain
    /\ UNCHANGED <<rows, route, replays, overtaken>>

-----------------------------------------------------------------------------
(* Time and the process *)

\* One unit of time.  A caller hands over what it owes without waiting, and an
\* in-process delivery ends within SendTicks of its start (request timeouts and
\* capped sleeps); only the wait for a taken permit has no bound of its own.
Tick ==
    /\ \E d \in Ids : rows[d].status = "pending" /\ rows[d].age < StaleTicks
    /\ \A u \in Units : Free(u) \/ place[u] \in {"queued", "running", "inline"}
    /\ line = <<>> \/ Cardinality(In({"running"})) = Concurrency
    /\ \A u \in Units : Executing(u) => unit[u].spent < SendTicks
    /\ rows' = [d \in Ids |-> IF rows[d].status = "pending" /\ rows[d].age < StaleTicks
                              THEN [rows[d] EXCEPT !.age = @ + 1] ELSE rows[d]]
    /\ unit' = [u \in Units |-> IF Executing(u) THEN [unit[u] EXCEPT !.spent = @ + 1]
                                                ELSE unit[u]]
    /\ UNCHANGED <<poolVars, drain, route, faults, replays, overtaken>>

BackoffOver(d) ==
    /\ rows[d].next = "later"
    /\ rows' = [rows EXCEPT ![d].next = "due"]
    /\ UNCHANGED <<poolVars, unit, drain, route, faults, replays, overtaken>>

\* A crash, or a shutdown whose drain ran out of time.
Crash ==
    /\ Fault
    /\ PoolReset
    /\ unit' = [u \in Units |-> FreeUnit]
    /\ drain' = IdleDrain
    /\ route' = IdleRoute
    /\ UNCHANGED <<rows, replays, overtaken>>

-----------------------------------------------------------------------------

UnitStep(u) ==
    \/ Hand(u) \/ Queue(u) \/ Start(u)
    \/ CreateRow(u) \/ Attempt(u) \/ LogOutcome(u) \/ FailRead(u) \/ FailWrite(u)
    \/ Unlogged(u)

DrainStep ==
    \/ DrainReclaim \/ DrainScan \/ DrainDone
    \/ \E u \in Units, d \in Ids : DrainClaim(u, d)

Clock == Tick \/ \E d \in Ids : BackoffOver(d)

Next ==
    \/ \E u \in Units :
        \/ UnitStep(u) \/ Unrecorded(u) \/ Panics(u) \/ ReplayClaim(u)
        \/ \E d \in Ids : DispatchEvent(u, d) \/ DispatchLogged(u, d)
    \/ \E d \in Ids, force \in BOOLEAN : ReplayRead(d, force)
    \/ DrainStep \/ DrainErrs \/ Clock \/ Crash

Spec == Init /\ [][Next]_vars

\* The runtime runs what is ready, the scheduler keeps ticking and time passes.
\* Nothing is assumed of receivers, of operators or of faults.
FairSpec ==
    /\ Spec
    /\ WF_vars(\E u \in Units : UnitStep(u))
    /\ WF_vars(DrainStep)
    /\ WF_vars(Clock)

-----------------------------------------------------------------------------
(* Properties *)

\* A row has one sender at a time, and one more for every time the stale reclaim took
\* it from under a sender that still waited or sent: no interleaving of a dispatch, a
\* drain tick, a replay request and a reclaim puts a second unit on a row otherwise.
SingleSender == \A d \in Ids : Cardinality(Senders(d)) <= 1 + overtaken[d]

\* Every turn round the ladder past the cap is paid for by a replay request, by a fault
\* or by a sender that was overtaken and may fail the row from an old reading of its
\* count: retries alone end in `dead`.
LadderAccounted ==
    \A d \in Ids : rows[d].retry <= MaxRetries + replays + faults + overtaken[d]

\* A unit is on the pool only with something to send, its clock starts when it does and
\* its ladder is as long as its sink allows.
UnitsPlaced ==
    \A u \in Units :
        /\ Free(u) => place[u] = "none"
        /\ ~Executing(u) => unit[u].spent = 0
        /\ unit[u].stage \in {"create", "write"} => unit[u].row # NoRow
        /\ unit[u].stage \in {"create", "send"} =>
              unit[u].tries < IF unit[u].row \in LocalIds THEN 1 ELSE MaxAttempts

\* None but a failed row has a retry set, and a unit that is to write its row is the only
\* one that knows its id.
SendersBacked ==
    /\ \A d \in Ids : rows[d].next # "null" => rows[d].status = "failed"
    /\ \A u \in Units, d \in Ids : Carries(u, d) /\ unit[u].stage = "create" =>
          rows[d].status = "none" /\ Senders(d) = {u}

One(b) == IF b THEN 1 ELSE 0

\* A row that a claim may take on: nobody need be sending it.
AtRest(d) == rows[d].status \in {"failed", "delivered", "dead"}

\* A claim adds a sender to a row at rest only, and a row with a sender comes to rest when
\* that sender ends or when it is overtaken.
SendersCounted ==
    \A d \in Ids : Cardinality(Senders(d)) + One(AtRest(d)) <= 1 + overtaken[d]

\* A row that some later tick will claim: it failed, or it is pending without a sender.
Owed(d) == rows[d].status = "failed" \/ (rows[d].status = "pending" /\ Senders(d) = {})

Asked(d) == route.at = "claim" /\ route.row = d

\* The senders that read the count before it came to the cap and will fail the row.
Late(d) == {u \in Senders(d) : unit[u].stage = "write" /\ unit[u].read < MaxRetries}

\* A claim to come is paid for already: by the cap, by the request, by the fault that
\* took the sender or by the reclaim that overtook it.
LadderPaid ==
    /\ route.at = "claim" => replays > 0 /\ route.row # NoRow
    /\ \A d \in Ids : rows[d].retry >= MaxRetries =>
          rows[d].retry + One(Owed(d)) + One(Asked(d)) + Cardinality(Late(d))
            <= MaxRetries + replays + faults + overtaken[d]

Rounds(n) == n * SendTicks

\* How old a row can be whose sender waits or sends: those before it in the line, and one
\* that holds a permit, take a round each.
OnTime(u, d) ==
    /\ place[u] \in {"none", "spawning"} => rows[d].age = 0
    /\ Executing(u) => rows[d].age + SendTicks <= Rounds(Cardinality(Units)) + unit[u].spent
    /\ \A i \in 1..Len(line) : line[i] = u =>
          /\ rows[d].age + Rounds(i) <= Rounds(Cardinality(Units))
          /\ \A v \in In({"running"}) :
                rows[d].age + Rounds(i + 1) <= Rounds(Cardinality(Units)) + unit[v].spent

WaitsBounded ==
    \A u \in Units, d \in Ids : Carries(u, d) /\ rows[d].status = "pending" => OnTime(u, d)

\* What STALE_PENDING_SECS takes for granted: every send that can be under way, one after
\* the other, is over before a row is called stale.  The shipped limits do not meet it (a
\* backlog of 1024 on 16 permits, 51 s a send, 600 s); no property below rests on it.
BacklogDrains == Rounds(Cardinality(Units)) < StaleTicks

\* The rows, the units that send them and the pool under these: an inductive invariant.
DeliveryInv ==
    /\ TypeOK /\ TicketsExact /\ LineExact
    /\ UnitsPlaced /\ SendersBacked /\ SendersCounted
    /\ LadderPaid /\ WaitsBounded

\* What reclaim_stale_deliveries says of a crash-looping row: it reaches `dead`
\* after the usual number of retries, so nothing but a replay adds to them.
CrashLoopEnds == \A d \in Ids : rows[d].retry <= MaxRetries + replays

\* What STALE_PENDING_SECS says: only a row that has no sender is reclaimed.
OnlyOrphansReclaimed ==
    [][\A d \in Ids : rows[d].status = "pending" /\ DrainReclaim /\ rows'[d].status = "failed"
                        => \A u \in Units : ~Carries(u, d)]_vars

\* A delivered row stays delivered unless an operator forces a replay, and a dead one
\* stays dead unless one asks for a replay: no reclaim and no drain tick takes either back,
\* and a late outcome does only where the reclaim has overtaken a sender of the row and
\* one of its senders is still at it.
SettledIsFinal ==
    [][\A d \in Ids : rows[d].status \in {"delivered", "dead"} =>
        \/ rows'[d] = rows[d]
        \/ route.at = "claim" /\ route.row = d
           /\ (rows[d].status = "delivered" => route.force)
        \/ overtaken[d] > 0 /\ \E u \in Senders(d) : Executing(u)]_vars

\* Every logged delivery ends delivered or dead, whatever crashes between its
\* claim and its outcome, whatever is lost in the log, whoever replays it and
\* however often it is reclaimed from under a sender:
\* once dispatches, replays and faults are over, the log comes to rest.
EverySendSettles ==
    <>[](\A d \in Ids : rows[d].status \in {"none", "delivered", "dead"})
=============================================================================

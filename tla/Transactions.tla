---------------------------- MODULE Transactions ----------------------------
(***************************************************************************)
(* The approval lifecycle of the `transact` app: a dry run stages a row of  *)
(* the transactions ledger (crates/core/src/transactions.rs) and parks its  *)
(* job; a door (routes/transactions.rs, or the MCP tool) approves or        *)
(* rejects the row and releases the job; the resumed attempt re-probes the  *)
(* page, clicks and stamps the row (crates/apps/transact, engine-browser).  *)
(*                                                                          *)
(* Every door and every attempt is several statements over two tables with  *)
(* the outside world in between, and none holds a lock.  The page is the    *)
(* digest a probe of it would compute now.  Doors answer requests; what     *)
(* they notify afterwards is the business of Deliveries.                    *)
(***************************************************************************)
EXTENDS JobTable, FiniteSets

CONSTANTS
    Keys,           \* idempotency keys, all of one profile
    KeyOf,          \* KeyOf[j]: the key in the params of a job
    Doors,          \* requests in flight at the approve and reject doors
    Digests,        \* evidence digests
    Unquoted,       \* an approval that names no digest
    DailyCap,       \* transact.max_submits_per_profile_per_day, 0 is none
    MaxAttempts,    \* max_attempts of the jobs
    FaultBound      \* bound on crashes, errors, stopped or reaped attempts and
                    \* interventions by hand

ASSUME TransactAssumption ==
    /\ Keys # {}
    /\ KeyOf \in [Jobs -> Keys]
    /\ Unquoted \notin Digests
    /\ DailyCap \in Nat /\ MaxAttempts \in Nat /\ FaultBound \in Nat

VARIABLES
    input,      \* input[j]: whether jobs.resumed_input is set
    ledger,     \* ledger[k]: the row of the key
    tasks,      \* attempts under way
    doors,      \* doors[d]: a handler and the row it read
    page,       \* the digest of the live page
    faults,
    \* What happened, for the properties only:
    clicks,     \* clicks[k]: how often the irreversible action ran
    signed,     \* signed[k]: the digest on the row when it was approved
    misquoted,  \* keys approved under a quote that is not that digest
    mishaps     \* mishaps[k]: clicks lost before they were recorded, live attempts
                \* that lost their row, resets and resumes by hand of the jobs of
                \* the key

book == <<clicks, signed, misquoted, mishaps>>
vars == <<jobs, input, ledger, tasks, doors, page, faults, book>>

Settled == {"submitted", "rejected", "expired"}

Quotes == Digests \cup {Unquoted}

Entry == [state : Settled \cup {"none", "pending", "approved"}, job : Jobs \cup {Nobody},
          sha : Quotes, old : BOOLEAN]

NoEntry == [state |-> "none", job |-> Nobody, sha |-> Unquoted, old |-> FALSE]

Task == [job : Jobs, attempt : Nat, sha : Quotes,
         pc : {"start", "lookup", "insert", "refresh", "reread", "parking",
               "probe", "click", "receipt",
               "done", "failing", "refused", "cancelled", "suspended"}]

Handler == [pc : {"idle", "read", "decide", "mark", "resume", "strike", "cancel"},
            key : Keys, quoted : Quotes, row : Entry]

TypeOK ==
    /\ jobs \in [Jobs -> Row]
    /\ input \in [Jobs -> BOOLEAN]
    /\ ledger \in [Keys -> Entry]
    /\ tasks \subseteq Task
    /\ doors \in [Doors -> Handler]
    /\ page \in Digests
    /\ faults \in 0..FaultBound
    /\ clicks \in [Keys -> Nat] /\ mishaps \in [Keys -> Nat]
    /\ signed \in [Keys -> Quotes] /\ misquoted \subseteq Keys

Idle == [pc |-> "idle", key |-> CHOOSE k \in Keys : TRUE, quoted |-> Unquoted, row |-> NoEntry]

Init ==
    /\ jobs = [j \in Jobs |-> AbsentRow]
    /\ input = [j \in Jobs |-> FALSE]
    /\ ledger = [k \in Keys |-> NoEntry]
    /\ tasks = {}
    /\ doors = [d \in Doors |-> Idle]
    /\ page \in Digests
    /\ faults = 0
    /\ clicks = [k \in Keys |-> 0] /\ mishaps = [k \in Keys |-> 0]
    /\ signed = [k \in Keys |-> Unquoted] /\ misquoted = {}

-----------------------------------------------------------------------------
(* The statements of the ledger *)

Enter(k, row) == ledger' = [ledger EXCEPT ![k] = row]

Swept(k) == [ledger[k] EXCEPT !.state = "expired"]

\* expire_stale
Sweep ==
    ledger' = [k \in Keys |-> IF ledger[k].state = "pending" /\ ledger[k].old
                              THEN Swept(k) ELSE ledger[k]]

\* The WHERE state = 'pending' of the approval, the rejection and the refresh.
Move(k, state) ==
    Enter(k, IF ledger[k].state = "pending" THEN [ledger[k] EXCEPT !.state = state]
             ELSE ledger[k])

\* A fault: a rejection is recorded whatever became of the row.
MoveAnyway(k) == Enter(k, [ledger[k] EXCEPT !.state = "rejected"])

MarkRejected(k) == Move(k, "rejected")

SubmittedToday == Cardinality({k \in Keys : ledger[k].state = "submitted"})

-----------------------------------------------------------------------------
(* The doors *)

Serve(d, pc) == doors' = [doors EXCEPT ![d].pc = pc]
Answer(d) == doors' = [doors EXCEPT ![d] = Idle]

\* approve_transaction: the expiry sweep, then the row.
ApproveOpens(d, k) ==
    /\ doors[d].pc = "idle" /\ ledger[k].state # "none"
    /\ Sweep
    /\ \E q \in Quotes :
          doors' = [doors EXCEPT ![d] = [Idle EXCEPT !.pc = "read", !.key = k, !.quoted = q]]
    /\ UNCHANGED <<jobs, input, tasks, page, faults, book>>

ApproveReads(d) ==
    /\ doors[d].pc = "read"
    /\ doors' = [doors EXCEPT ![d].pc = "decide", ![d].row = ledger[doors[d].key]]
    /\ UNCHANGED <<jobs, input, ledger, tasks, page, faults, book>>

\* approve_decision, on the row as it was read and the count as it is.
Approvable(h) ==
    /\ h.row.state = "pending"
    /\ ~ledger[h.key].old
    /\ h.quoted \in {Unquoted, h.row.sha}
    /\ DailyCap = 0 \/ SubmittedToday < DailyCap

ApproveDecides(d) ==
    /\ doors[d].pc = "decide"
    /\ IF Approvable(doors[d]) THEN Serve(d, "mark") ELSE Answer(d)
    /\ UNCHANGED <<jobs, input, ledger, tasks, page, faults, book>>

\* mark_approved; 409 when another decision was first.
ApproveMarks(d) ==
    LET k == doors[d].key
    IN /\ doors[d].pc = "mark"
       /\ Move(k, "approved")
       /\ IF ledger[k].state = "pending"
          THEN /\ Serve(d, "resume")
               /\ signed' = [signed EXCEPT ![k] = ledger[k].sha]
               /\ misquoted' = IF doors[d].quoted \in {Unquoted, ledger[k].sha}
                               THEN misquoted ELSE misquoted \cup {k}
          ELSE Answer(d) /\ UNCHANGED <<signed, misquoted>>
       /\ UNCHANGED <<jobs, input, tasks, page, faults, clicks, mishaps>>

\* resume_parked_job, of the job the row named when it was read.
ApproveResumes(d) ==
    LET j == doors[d].row.job
    IN /\ doors[d].pc = "resume"
       /\ \/ Resume(j) /\ input' = [input EXCEPT ![j] = TRUE]
          \/ jobs[j].status # "waiting" /\ UNCHANGED <<jobs, input>>
       /\ Answer(d)
       /\ UNCHANGED <<ledger, tasks, page, faults, book>>

RejectReads(d, k) ==
    /\ doors[d].pc = "idle" /\ ledger[k].state = "pending"
    /\ doors' = [doors EXCEPT ![d] = [Idle EXCEPT !.pc = "strike", !.key = k, !.row = ledger[k]]]
    /\ UNCHANGED <<jobs, input, ledger, tasks, page, faults, book>>

RejectMarks(d) ==
    /\ doors[d].pc = "strike"
    /\ MarkRejected(doors[d].key)
    /\ IF ledger[doors[d].key].state = "pending" THEN Serve(d, "cancel") ELSE Answer(d)
    /\ UNCHANGED <<jobs, input, tasks, page, faults, book>>

\* Storage::cancel, of the job the row named when it was read.
RejectCancels(d) ==
    LET j == doors[d].row.job
    IN /\ doors[d].pc = "cancel"
       /\ CancelUnclaimed(j) \/ (jobs[j].status \notin {"queued", "waiting"} /\ UNCHANGED jobs)
       /\ Answer(d)
       /\ UNCHANGED <<input, ledger, tasks, page, faults, book>>

\* list_transactions, get_transaction and the MCP inbox sweep before they show.
ListTransactions ==
    /\ Sweep /\ ledger' # ledger
    /\ UNCHANGED <<jobs, input, tasks, doors, page, faults, book>>

Door(d) ==
    \/ \E k \in Keys : ApproveOpens(d, k) \/ RejectReads(d, k)
    \/ ApproveReads(d) \/ ApproveDecides(d) \/ ApproveMarks(d) \/ ApproveResumes(d)
    \/ RejectMarks(d) \/ RejectCancels(d)

-----------------------------------------------------------------------------
(* One attempt: the staging half *)

Goto(t, pc, sha) == tasks' = (tasks \ {t}) \cup {[t EXCEPT !.pc = pc, !.sha = sha]}

\* The digest is not read again.
Conclude(t, pc) == Goto(t, pc, Unquoted)

Outside == <<doors, page, faults, book>>

\* The resumed input on the claimed row decides which half runs.
Claim(j) ==
    /\ ClaimNext(j, {})
    /\ tasks' = tasks \cup {[job |-> j, attempt |-> jobs[j].attempts + 1,
                             sha |-> Unquoted, pc |-> "start"]}
    /\ UNCHANGED <<input, ledger, Outside>>

\* Browser::transact: the flow is driven and probed, nothing is submitted.
DryRun(t) ==
    /\ t.pc = "start" /\ ~input[t.job]
    /\ Goto(t, "lookup", page)
    /\ UNCHANGED <<jobs, input, ledger, Outside>>

\* stage_pending: by_key.
StageReads(t) ==
    /\ t.pc = "lookup"
    /\ LET state == ledger[KeyOf[t.job]].state
       IN IF state \in {"none", "pending"}
          THEN Goto(t, IF state = "none" THEN "insert" ELSE "refresh", t.sha)
          ELSE Conclude(t, "done")
    /\ UNCHANGED <<jobs, input, ledger, Outside>>

\* The INSERT; the UNIQUE key refuses a second one, as an error of the attempt.
StageInserts(t) ==
    LET k == KeyOf[t.job]
    IN /\ t.pc = "insert"
       /\ IF ledger[k].state = "none"
          THEN /\ Enter(k, [state |-> "pending", job |-> t.job, sha |-> t.sha, old |-> FALSE])
               /\ Conclude(t, "reread")
          ELSE Conclude(t, "failing") /\ UNCHANGED ledger
       /\ UNCHANGED <<jobs, input, Outside>>

\* A fault: the refresh is not guarded on the row still being pending.
RefreshedAnyway(t, row) == [row EXCEPT !.job = t.job, !.sha = t.sha]

\* The evidence of a row that is still pending is replaced; created_at stays.
Refreshed(t, row) ==
    IF row.state = "pending" THEN [row EXCEPT !.job = t.job, !.sha = t.sha] ELSE row

StageRefreshes(t) ==
    /\ t.pc = "refresh"
    /\ Enter(KeyOf[t.job], Refreshed(t, ledger[KeyOf[t.job]]))
    /\ Conclude(t, "reread")
    /\ UNCHANGED <<jobs, input, Outside>>

\* The row as it now stands: park on it, or report a key that is resolved.
StageVerdict(t) ==
    /\ t.pc = "reread"
    /\ Conclude(t, IF ledger[KeyOf[t.job]].state = "pending" THEN "parking" ELSE "done")
    /\ UNCHANGED <<jobs, input, ledger, Outside>>

Mine(t) == Fenced(t.job, t.attempt)

\* await_input clears the resumed input.
Park(t) ==
    /\ t.pc = "parking"
    /\ IF Mine(t)
       THEN Write(t.job, WaitingRow(t.job, FALSE)) /\ input' = [input EXCEPT ![t.job] = FALSE]
       ELSE UNCHANGED <<jobs, input>>
    /\ tasks' = tasks \ {t}
    /\ UNCHANGED <<ledger, Outside>>

-----------------------------------------------------------------------------
(* One attempt: the commit half *)

\* A fault: a row that was submitted before still releases the action.
ReleasedOnce(k) == ledger[k].state \in {"approved", "submitted"}

\* Authority is the row, never the resumed input.
Released(k) == ledger[k].state = "approved"

CommitReads(t) ==
    LET k == KeyOf[t.job]
    IN /\ t.pc = "start" /\ input[t.job]
       /\ IF Released(k) THEN Goto(t, "probe", ledger[k].sha) ELSE Conclude(t, "refused")
       /\ UNCHANGED <<jobs, input, ledger, Outside>>

\* Pass 1 and commit_guard.
Probe(t) ==
    /\ t.pc = "probe"
    /\ IF page = t.sha THEN Goto(t, "click", t.sha) ELSE Conclude(t, "refused")
    /\ UNCHANGED <<jobs, input, ledger, Outside>>

Mishap(k) == mishaps' = [mishaps EXCEPT ![k] = @ + 1]

Clicked(k) == clicks' = [clicks EXCEPT ![k] = @ + 1]

\* Pass 2: the flow again, with the action at its end, which a deadline may cut
\* before the click or after it; only a click reported as done is a submission.
Click(t) ==
    LET k == KeyOf[t.job]
    IN /\ t.pc = "click"
       /\ \/ Clicked(k) /\ Goto(t, "receipt", t.sha) /\ UNCHANGED mishaps
          \/ Clicked(k) /\ Conclude(t, "done") /\ Mishap(k)
          \/ Conclude(t, "done") /\ UNCHANGED <<clicks, mishaps>>
       /\ UNCHANGED <<jobs, input, ledger, doors, page, faults, signed, misquoted>>

\* The receipt is written and the row stamped, if it is still approved.
MarkSubmitted(t) ==
    LET k == KeyOf[t.job]
    IN /\ t.pc = "receipt"
       /\ Enter(k, IF ledger[k].state = "approved"
                   THEN [ledger[k] EXCEPT !.state = "submitted"] ELSE ledger[k])
       /\ Conclude(t, "done")
       /\ UNCHANGED <<jobs, input, Outside>>

\* Storage::fail.  The backoff is not told apart from a claim that comes late.
FailRow(j) ==
    IF jobs[j].attempts < jobs[j].maxAttempts
    THEN [RequeuedRow(j, 0) EXCEPT !.due = TRUE] ELSE FailedRow(j, 0)

Outcomes == {"done", "failing", "refused", "cancelled"}

\* The outcome reaches the job row: complete, fail, fail_permanently or cancel_running.
Ends(t) ==
    LET j == t.job
    IN /\ t.pc \in Outcomes
       /\ IF Mine(t)
          THEN Write(j, CASE t.pc = "done" -> SucceededRow(j)
                          [] t.pc = "failing" -> FailRow(j)
                          [] t.pc = "refused" -> FailedRow(j, 0)
                          [] t.pc = "cancelled" -> CancelledRow(j))
          ELSE UNCHANGED jobs
       /\ tasks' = tasks \ {t}
       /\ UNCHANGED <<input, ledger, Outside>>

\* A running row whose attempt is still at work.
Held(j, S) == \E t \in S : t.job = j /\ Mine(t)

\* The drain's suspension is a reset, which does not look at the attempt: it can take
\* the row from another one.
Suspends(t) ==
    LET j == t.job
    IN /\ t.pc = "suspended"
       /\ Reset(j) \/ (jobs[j].status # "running" /\ UNCHANGED jobs)
       /\ tasks' = tasks \ {t}
       /\ IF Held(j, tasks \ {t}) THEN Mishap(KeyOf[j]) ELSE UNCHANGED mishaps
       /\ UNCHANGED <<input, ledger, doors, page, faults, clicks, signed, misquoted>>

Attempt(t) ==
    \/ DryRun(t) \/ StageReads(t) \/ StageInserts(t) \/ StageRefreshes(t) \/ StageVerdict(t)
    \/ Park(t) \/ CommitReads(t) \/ Probe(t) \/ Click(t) \/ MarkSubmitted(t) \/ Ends(t)
    \/ Suspends(t)

-----------------------------------------------------------------------------
(* Errors, crashes and the operator *)

Fault == faults < FaultBound /\ faults' = faults + 1

Unfinished == {"start", "lookup", "insert", "refresh", "reread", "probe", "click", "receipt"}

\* The app's future is dropped or returns early: what it clicked and did not record is
\* known to nobody.
Cut(t, pc) ==
    /\ t.pc \in Unfinished
    /\ Conclude(t, pc)
    /\ IF t.pc = "receipt" THEN Mishap(KeyOf[t.job]) ELSE UNCHANGED mishaps
    /\ UNCHANGED <<jobs, input, ledger, doors, page, clicks, signed, misquoted>>

\* A browser, storage or artifact error, a panic or the job's timeout: the attempt fails
\* and may be retried.
AttemptErrs(t) == Cut(t, "failing") /\ Fault

\* DELETE /jobs/{id} or the drain fires the cancel token.  Which attempt's token is
\* registered is the business of WorkerPool: here it is any, and a drain may as well not
\* be followed by the exit, which is the Crash below.
AttemptStops(t) == (Cut(t, "cancelled") \/ Cut(t, "suspended")) /\ Fault

\* The write of the outcome or of the park fails: it is only logged, and the row stays
\* running until the reaper finds it.
OutcomeLost(t) ==
    /\ t.pc \in Outcomes \cup {"parking", "suspended"} /\ Fault
    /\ tasks' = tasks \ {t}
    /\ UNCHANGED <<jobs, input, ledger, doors, page, book>>

\* The process dies with its handlers and attempts; the boot sweep fails the rows.
Crash ==
    /\ Fault
    /\ tasks' = {} /\ doors' = [d \in Doors |-> Idle]
    /\ jobs' = [j \in Jobs |-> IF j \in Running THEN FailRow(j) ELSE jobs[j]]
    /\ mishaps' = [k \in Keys |->
          mishaps[k] + Cardinality({t \in tasks : t.pc = "receipt" /\ KeyOf[t.job] = k})]
    /\ UNCHANGED <<input, ledger, page, clicks, signed, misquoted>>

\* POST /jobs/{id}/resume
ResumeByHand(j) ==
    /\ Fault /\ Resume(j)
    /\ input' = [input EXCEPT ![j] = TRUE]
    /\ Mishap(KeyOf[j])
    /\ UNCHANGED <<ledger, tasks, doors, page, clicks, signed, misquoted>>

ResetByHand(j) ==
    /\ Fault /\ Reset(j)
    /\ Mishap(KeyOf[j])
    /\ UNCHANGED <<input, ledger, tasks, doors, page, clicks, signed, misquoted>>

Submit(j) == Insert(j, MaxAttempts, TRUE) /\ UNCHANGED <<input, ledger, tasks, Outside>>

ApiRetry(j) == Retry(j) /\ UNCHANGED <<input, ledger, tasks, Outside>>

\* DELETE /jobs/{id} of a job that no attempt runs
ApiCancel(j) == CancelUnclaimed(j) /\ UNCHANGED <<input, ledger, tasks, Outside>>

\* reap_stale, of a row whose heartbeat is old: the attempt is gone, or it is at work and
\* its beats did not land.  It keeps running beside its successor, which finds the resumed
\* input on the row.
Reap(j) ==
    /\ jobs[j].status = "running"
    /\ Write(j, FailRow(j))
    /\ IF Held(j, tasks) THEN Fault /\ Mishap(KeyOf[j]) ELSE UNCHANGED <<faults, mishaps>>
    /\ UNCHANGED <<input, ledger, tasks, doors, page, clicks, signed, misquoted>>

\* expire_waiting; the deadline is not told apart from a sweep that comes late.
ParkExpires(j) ==
    /\ jobs[j].status = "waiting"
    /\ Write(j, [jobs[j] EXCEPT !.status = "failed", !.error = jobs[j].attempts])
    /\ UNCHANGED <<input, ledger, tasks, Outside>>

\* The site changes the page.
Drift ==
    /\ page' \in Digests \ {page}
    /\ UNCHANGED <<jobs, input, ledger, tasks, doors, faults, book>>

\* approval_ttl_secs passes.
Age(k) ==
    /\ ledger[k].state = "pending" /\ ~ledger[k].old
    /\ Enter(k, [ledger[k] EXCEPT !.old = TRUE])
    /\ UNCHANGED <<jobs, input, tasks, Outside>>

Next ==
    \/ \E d \in Doors : Door(d)
    \/ \E t \in tasks : Attempt(t) \/ AttemptErrs(t) \/ AttemptStops(t) \/ OutcomeLost(t)
    \/ \E j \in Jobs :
          \/ Submit(j) \/ Claim(j) \/ Reap(j) \/ ParkExpires(j)
          \/ ApiRetry(j) \/ ApiCancel(j) \/ ResumeByHand(j) \/ ResetByHand(j)
    \/ \E k \in Keys : Age(k)
    \/ ListTransactions
    \/ Drift
    \/ Crash

Spec == Init /\ [][Next]_vars

-----------------------------------------------------------------------------
(* Correctness *)

\* The action runs only for a key whose row says so: what was rejected, or ran
\* out unanswered, was never clicked, however late the attempt that clicks.
NoUnapprovedClick ==
    \A k \in Keys : clicks[k] > 0 => ledger[k].state \in {"approved", "submitted"}

\* A row names a job of its key, the one that staged it, also in the hands of the
\* door that read it, and a door past its decision read a pending row.
Named(k, row) == row.state # "none" => row.job \in Jobs /\ KeyOf[row.job] = k

RowsNamed ==
    /\ \A k \in Keys : Named(k, ledger[k])
    /\ \A d \in Doors :
          /\ Named(doors[d].key, doors[d].row)
          /\ doors[d].pc \in {"mark", "resume", "strike", "cancel"} => doors[d].row.state = "pending"

Committing == {"probe", "click", "receipt"}

\* An attempt that is past its look at the row has the row behind it.
CommitsBacked ==
    \A t \in tasks :
        t.pc \in Committing => ledger[KeyOf[t.job]].state \in {"approved", "submitted"}

RowInv ==
    /\ TypeOK /\ IsFiniteSet(tasks)
    /\ RowsNamed
    /\ CommitsBacked
    /\ NoUnapprovedClick

\* Attempts of one job have numbers of their own, none ahead of the row, and the
\* one that owns its row commits only on a resumed input.
AttemptsApart ==
    \A t \in tasks :
        /\ t.attempt <= jobs[t.job].attempts /\ jobs[t.job].status # "absent"
        /\ \A u \in tasks : u.job = t.job /\ u.attempt = t.attempt => u = t
        /\ Mine(t) /\ t.pc \in Committing => input[t.job]

\* Where a click of the key can still come from: an attempt that lost its row, a
\* job with a resumed input, and a door about to resume one.
Strays(k) == {t \in tasks : KeyOf[t.job] = k /\ ~Mine(t)}
Resumed(k) == {j \in Jobs : KeyOf[j] = k /\ input[j]}
Resuming(k) == {d \in Doors : doors[d].pc = "resume" /\ doors[d].key = k}
Chances(k) == Cardinality(Strays(k)) + Cardinality(Resumed(k)) + Cardinality(Resuming(k))

At(pcs, k) == {t \in tasks : KeyOf[t.job] = k /\ t.pc \in pcs}

\* Every chance but the one the approval gives is paid for by a mishap.  A click
\* spends its chance only when the row is stamped: until then the attempt can
\* still lose the receipt.
Paid(k) ==
    /\ IsFiniteSet(Resumed(k)) /\ IsFiniteSet(Resuming(k))
    /\ Resuming(k) # {} => ledger[k].state \in {"approved", "submitted"}
    /\ ledger[k].state \in {"none", "pending"} => Chances(k) <= mishaps[k]
    /\ ledger[k].state = "approved" =>
          clicks[k] + Chances(k) <= 1 + mishaps[k] + Cardinality(At({"receipt"}, k))
    /\ ledger[k].state = "submitted" =>
          clicks[k] + Cardinality(At({"probe", "click"}, k)) <= 1 + mishaps[k]

ChancesPaid == \A k \in Keys : Paid(k)

\* The ledger as the click relies on it, and what each click was paid with: this
\* conjunction is inductive.
LedgerInv == RowInv /\ AttemptsApart /\ ChancesPaid

\* The digest a row was approved with stays on it, also against a dry run of the
\* same key that read the row while it was pending; and an attempt that may
\* click holds that digest.
EvidenceFrozen ==
    \A k \in Keys :
        /\ ledger[k].state \in {"approved", "submitted"} => ledger[k].sha = signed[k]
        /\ \A t \in tasks :
              KeyOf[t.job] = k /\ t.pc \in Committing => t.sha = signed[k]

\* One key, one submission, but for what the ledger cannot see: a click lost before
\* it was recorded, and a second attempt that the reaper, the drain or an operator
\* starts beside a live one.
SubmitsOnce == \A k \in Keys : clicks[k] <= 1 + mishaps[k]

-----------------------------------------------------------------------------
(* Statements of the repository that the lifecycle does not keep *)

\* apps/transact on idempotency_key: "One key can only ever own one
\* transaction, so it submits at most once - ever".
SubmitsAtMostOnce == \A k \in Keys : clicks[k] <= 1

\* routes/transactions.rs on evidence_sha: quoting it keeps a re-stage from
\* releasing "an action against a bundle nobody looked at".
QuoteIsWhatRuns ==
    misquoted = {}

\* config.rs on max_submits_per_profile_per_day: "Max transactions ONE profile
\* may submit per rolling 24 hours".
CapKept == DailyCap > 0 => SubmittedToday <= DailyCap

\* routes/transactions.rs on reject: "leaving it parked would hold its schedule
\* slot forever".
NoParkedOrphan ==
    \A j \in Jobs :
        ledger[KeyOf[j]].state = "rejected" /\ (\A d \in Doors : doors[d].pc = "idle")
            => jobs[j].status # "waiting"
=============================================================================

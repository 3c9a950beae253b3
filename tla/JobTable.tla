------------------------------ MODULE JobTable ------------------------------
(***************************************************************************)
(* The `jobs` table of crates/core/src/storage.rs and the SQL statements   *)
(* that write it.  One operator per statement: its guard is the statement's *)
(* WHERE clause, its effect the SET list.  SQLite runs each statement       *)
(* atomically; a storage method that issues two statements (fail, the       *)
(* recovery sweeps) is split into its statements by the modules that extend *)
(* this one, so that other actors can run in between.                       *)
(*                                                                          *)
(* Instants are abstracted to what the statements compare: `due` is         *)
(* available_at <= now, `fresh` is a heartbeat younger than stale_secs, and *)
(* `deadline` says whether waiting_expires_at is absent, ahead or passed.   *)
(* `error` and `cause` hold the attempt whose failure the columns error and *)
(* cause_kind describe (0 is NULL).                                         *)
(***************************************************************************)
EXTENDS Naturals

CONSTANTS
    Jobs,           \* job ids
    Executors,      \* ids of remote executors
    Nobody,         \* the NULL executor_id
    NoTarget,       \* the NULL target_key
    AppOf,          \* AppOf[j]: the app column, fixed at enqueue
    TargetOf,       \* TargetOf[j]: the target_key column, fixed at enqueue
    AttemptBound    \* bound on the attempts counter explored

ASSUME NobodyAssumption == Nobody \notin Executors
ASSUME BoundAssumption == AttemptBound \in Nat \ {0}

VARIABLE jobs

Terminal == {"succeeded", "failed", "cancelled"}

Status == {"absent", "queued", "running", "waiting"} \cup Terminal

Row == [status : Status, attempts : Nat, maxAttempts : Nat,
        executor : Executors \cup {Nobody}, due : BOOLEAN, fresh : BOOLEAN,
        deadline : {"none", "ahead", "passed"}, error : Nat, cause : Nat]

\* A row that has not been inserted.
AbsentRow == [status |-> "absent", attempts |-> 0, maxAttempts |-> 0,
              executor |-> Nobody, due |-> FALSE, fresh |-> FALSE,
              deadline |-> "none", error |-> 0, cause |-> 0]

Larger(m, n) == IF m < n THEN n ELSE m

Running == {j \in Jobs : jobs[j].status = "running"}

\* The fence (status = 'running' AND attempts = ?) of every verdict.
Fenced(j, a) == jobs[j].status = "running" /\ jobs[j].attempts = a

\* A fault: only rows this process runs hold a target.
TargetFreeOfLocal(j) ==
    TargetOf[j] = NoTarget
    \/ \A k \in Running : jobs[k].executor = Nobody => TargetOf[k] # TargetOf[j]

\* TARGET_EXCLUSION: the target is NULL or no running row holds it.
TargetFree(j) ==
    TargetOf[j] = NoTarget \/ \A k \in Running : TargetOf[k] # TargetOf[j]

Write(j, row) == jobs' = [jobs EXCEPT ![j] = row]

-----------------------------------------------------------------------------
(* Creation and claims *)

\* enqueue: max_attempts.max(1), and due at once unless delay_secs was given.
Insert(j, max, now) ==
    /\ jobs[j].status = "absent"
    /\ Write(j, [AbsentRow EXCEPT !.status = "queued",
                                  !.maxAttempts = Larger(max, 1),
                                  !.due = now])

Claimable(j, blocked) ==
    /\ jobs[j].status = "queued"
    /\ jobs[j].due
    /\ AppOf[j] \notin blocked
    /\ TargetFree(j)
    /\ jobs[j].attempts < AttemptBound

ClaimedRow(j) ==
    [jobs[j] EXCEPT !.status = "running", !.attempts = jobs[j].attempts + 1,
                    !.fresh = TRUE]

\* claim_next: executor_id is not in its SET list.
ClaimNext(j, blocked) ==
    /\ Claimable(j, blocked)
    /\ Write(j, ClaimedRow(j))

ClaimNextForExecutor(j, e, eligible, blocked) ==
    /\ AppOf[j] \in eligible
    /\ Claimable(j, blocked)
    /\ Write(j, [ClaimedRow(j) EXCEPT !.executor = e])

-----------------------------------------------------------------------------
(* Fenced writes of the attempt that owns the row; each needs Fenced(j, a). *)

SucceededRow(j) == [jobs[j] EXCEPT !.status = "succeeded", !.error = 0]

CancelledRow(j) == [jobs[j] EXCEPT !.status = "cancelled"]

\* fail_permanently_because: COALESCE keeps the cause_kind of an earlier
\* attempt when this call passes none.
FailedRow(j, cause) ==
    [jobs[j] EXCEPT !.status = "failed", !.error = jobs[j].attempts,
                    !.cause = IF cause = 0 THEN jobs[j].cause ELSE cause]

\* The requeue arm of fail: backoff pending, cause_kind overwritten.
RequeuedRow(j, cause) ==
    [jobs[j] EXCEPT !.status = "queued", !.error = jobs[j].attempts,
                    !.due = FALSE, !.cause = cause]

\* await_input: waiting_deadline gives no deadline when expiry_secs = 0.
WaitingRow(j, expires) ==
    [jobs[j] EXCEPT !.status = "waiting", !.error = 0,
                    !.deadline = IF expires THEN "ahead" ELSE "none"]

BeatRow(j) == [jobs[j] EXCEPT !.fresh = TRUE]

-----------------------------------------------------------------------------
(* Writes guarded on the status alone *)

Headroom(j) == Larger(jobs[j].maxAttempts, jobs[j].attempts + 1)

\* A fault: a fresh budget by rewinding the counter.
RewoundRow(j) ==
    [jobs[j] EXCEPT !.status = "queued", !.error = 0, !.due = TRUE,
                    !.attempts = 0]

ReopenedRow(j) ==
    [jobs[j] EXCEPT !.status = "queued", !.error = 0, !.due = TRUE,
                    !.maxAttempts = Headroom(j)]

\* cancel: queued or waiting, no task to interrupt.
CancelUnclaimed(j) ==
    /\ jobs[j].status \in {"queued", "waiting"}
    /\ Write(j, CancelledRow(j))

\* reset: guarded on the status, not on the attempt.
Reset(j) ==
    /\ jobs[j].status = "running"
    /\ Write(j, ReopenedRow(j))

Resume(j) ==
    /\ jobs[j].status = "waiting"
    /\ Write(j, [ReopenedRow(j) EXCEPT !.deadline = "none"])

\* A fault: any terminal job may be retried.
RetryTerminal(j) ==
    /\ jobs[j].status \in Terminal
    /\ Write(j, ReopenedRow(j))

Retry(j) ==
    /\ jobs[j].status \in {"failed", "cancelled"}
    /\ Write(j, ReopenedRow(j))

\* retry_bulk: one statement over a batch in one terminal state.
RetryBulk(status, S) ==
    /\ S \subseteq {j \in Jobs : jobs[j].status = status}
    /\ jobs' = [j \in Jobs |-> IF j \in S THEN ReopenedRow(j) ELSE jobs[j]]

Overdue == {j \in Jobs : jobs[j].status = "waiting" /\ jobs[j].deadline = "passed"}

\* expire_waiting: one statement over a batch of overdue parks.
ExpireWaiting(S) ==
    /\ S \subseteq Overdue
    /\ jobs' = [j \in Jobs |->
                    IF j \in S
                    THEN [jobs[j] EXCEPT !.status = "failed",
                                         !.error = jobs[j].attempts]
                    ELSE jobs[j]]

\* A fault: the reaper looks at the rows of its own process.
StaleLocal == {j \in Running : ~jobs[j].fresh /\ jobs[j].executor = Nobody}

\* The rows a reaper pass selects: running, heartbeat older than the cutoff.
Stale == {j \in Running : ~jobs[j].fresh}

-----------------------------------------------------------------------------
(* Correctness of whatever runs these statements *)

\* Two jobs on one target never run at the same time, whichever of the two
\* claim statements picked them and however their leases ended.
TargetMutex ==
    \A j, k \in Running :
        j # k => TargetOf[j] = NoTarget \/ TargetOf[j] # TargetOf[k]

\* The promise of JobLifecycle, read off the rows.
Lifecycle == INSTANCE JobLifecycle WITH
    phase <- [j \in Jobs |-> jobs[j].status],
    granted <- [j \in Jobs |-> jobs[j].attempts]

\* Whatever the statements are issued by, and in whatever order, each is a move of
\* JobLifecycle: no success is undone, an attempt is counted when it is handed out and
\* never taken back, and one run has a target.
ImplementsLifecycle == Lifecycle!Spec
=============================================================================

--------------------------- MODULE JobQueueProofs ---------------------------
(* Proofs about JobQueue, for every set of jobs, executors and targets. *)
EXTENDS JobQueue, TLAPS

-----------------------------------------------------------------------------
(* The rows the statements write are rows *)

\* Every row a statement can write has the row type.
LEMMA RowsTyped ==
    ASSUME TypeOK, NEW j \in Jobs, NEW c \in Nat, NEW x \in BOOLEAN
    PROVE  /\ AbsentRow \in Row
           /\ ClaimedRow(j) \in Row
           /\ \A e \in Executors : [ClaimedRow(j) EXCEPT !.executor = e] \in Row
           /\ SucceededRow(j) \in Row
           /\ CancelledRow(j) \in Row
           /\ FailedRow(j, c) \in Row
           /\ RequeuedRow(j, c) \in Row
           /\ WaitingRow(j, x) \in Row
           /\ BeatRow(j) \in Row
           /\ ReopenedRow(j) \in Row
           /\ [ReopenedRow(j) EXCEPT !.deadline = "none"] \in Row
<1>1. jobs[j] \in Row
  BY DEF TypeOK
<1>2. AbsentRow \in Row
  BY DEF Row, AbsentRow, Status
<1>3. ClaimedRow(j) \in Row
  <2> DEFINE n == jobs[j].attempts + 1
  <2>1. n \in Nat
    BY <1>1 DEF Row
  <2>2. [jobs[j] EXCEPT !.status = "running", !.attempts = n, !.fresh = TRUE] \in Row
    <3> HIDE DEF n
    <3> QED BY <1>1, <2>1 DEF Row, Status
  <2> QED
    BY <2>2 DEF ClaimedRow
<1>4. \A e \in Executors : [ClaimedRow(j) EXCEPT !.executor = e] \in Row
  BY <1>3 DEF Row
<1>5. SucceededRow(j) \in Row
  BY <1>1 DEF Row, SucceededRow, Status, Terminal
<1>6. CancelledRow(j) \in Row
  BY <1>1 DEF Row, CancelledRow, Status, Terminal
<1>7. FailedRow(j, c) \in Row
  BY <1>1 DEF Row, FailedRow, Status, Terminal
<1>8. RequeuedRow(j, c) \in Row
  BY <1>1 DEF Row, RequeuedRow, Status
<1>9. WaitingRow(j, x) \in Row
  BY <1>1 DEF Row, WaitingRow, Status
<1>10. BeatRow(j) \in Row
  BY <1>1 DEF Row, BeatRow
<1>11. ReopenedRow(j) \in Row
  <2>1. Headroom(j) \in Nat
    BY <1>1 DEF Row, Headroom, Larger
  <2> QED
    BY <1>1, <2>1 DEF Row, ReopenedRow, Status
<1>12. [ReopenedRow(j) EXCEPT !.deadline = "none"] \in Row
  BY <1>11 DEF Row
<1> QED
  BY <1>2, <1>3, <1>4, <1>5, <1>6, <1>7, <1>8, <1>9, <1>10, <1>11, <1>12

\* What each row the statements write says of status, attempt and budget.
LEMMA RowFields ==
    ASSUME TypeOK, NEW j \in Jobs, NEW c \in Nat, NEW x \in BOOLEAN
    PROVE  /\ ClaimedRow(j).status = "running"
           /\ ClaimedRow(j).attempts = jobs[j].attempts + 1
           /\ ClaimedRow(j).maxAttempts = jobs[j].maxAttempts
           /\ SucceededRow(j).status = "succeeded"
           /\ SucceededRow(j).attempts = jobs[j].attempts
           /\ SucceededRow(j).maxAttempts = jobs[j].maxAttempts
           /\ CancelledRow(j).status = "cancelled"
           /\ CancelledRow(j).attempts = jobs[j].attempts
           /\ CancelledRow(j).maxAttempts = jobs[j].maxAttempts
           /\ FailedRow(j, c).status = "failed"
           /\ FailedRow(j, c).attempts = jobs[j].attempts
           /\ FailedRow(j, c).maxAttempts = jobs[j].maxAttempts
           /\ RequeuedRow(j, c).status = "queued"
           /\ RequeuedRow(j, c).attempts = jobs[j].attempts
           /\ RequeuedRow(j, c).maxAttempts = jobs[j].maxAttempts
           /\ WaitingRow(j, x).status = "waiting"
           /\ WaitingRow(j, x).attempts = jobs[j].attempts
           /\ WaitingRow(j, x).maxAttempts = jobs[j].maxAttempts
           /\ BeatRow(j).status = jobs[j].status
           /\ BeatRow(j).attempts = jobs[j].attempts
           /\ BeatRow(j).maxAttempts = jobs[j].maxAttempts
           /\ ReopenedRow(j).status = "queued"
           /\ ReopenedRow(j).attempts = jobs[j].attempts
           /\ ReopenedRow(j).maxAttempts = Headroom(j)
<1>1. jobs[j] \in Row
  BY DEF TypeOK
<1>2. /\ ClaimedRow(j).status = "running"
      /\ ClaimedRow(j).attempts = jobs[j].attempts + 1
      /\ ClaimedRow(j).maxAttempts = jobs[j].maxAttempts
  BY <1>1 DEF Row, ClaimedRow
<1>3. /\ SucceededRow(j).status = "succeeded"
      /\ SucceededRow(j).attempts = jobs[j].attempts
      /\ SucceededRow(j).maxAttempts = jobs[j].maxAttempts
  BY <1>1 DEF Row, SucceededRow
<1>4. /\ CancelledRow(j).status = "cancelled"
      /\ CancelledRow(j).attempts = jobs[j].attempts
      /\ CancelledRow(j).maxAttempts = jobs[j].maxAttempts
  BY <1>1 DEF Row, CancelledRow
<1>5. /\ FailedRow(j, c).status = "failed"
      /\ FailedRow(j, c).attempts = jobs[j].attempts
      /\ FailedRow(j, c).maxAttempts = jobs[j].maxAttempts
  BY <1>1 DEF Row, FailedRow
<1>6. /\ RequeuedRow(j, c).status = "queued"
      /\ RequeuedRow(j, c).attempts = jobs[j].attempts
      /\ RequeuedRow(j, c).maxAttempts = jobs[j].maxAttempts
  BY <1>1 DEF Row, RequeuedRow
<1>7. /\ WaitingRow(j, x).status = "waiting"
      /\ WaitingRow(j, x).attempts = jobs[j].attempts
      /\ WaitingRow(j, x).maxAttempts = jobs[j].maxAttempts
  BY <1>1 DEF Row, WaitingRow
<1>8. /\ BeatRow(j).status = jobs[j].status
      /\ BeatRow(j).attempts = jobs[j].attempts
      /\ BeatRow(j).maxAttempts = jobs[j].maxAttempts
  BY <1>1 DEF Row, BeatRow
<1>9. /\ ReopenedRow(j).status = "queued"
      /\ ReopenedRow(j).attempts = jobs[j].attempts
      /\ ReopenedRow(j).maxAttempts = Headroom(j)
  BY <1>1 DEF Row, ReopenedRow
<1> QED
  BY <1>2, <1>3, <1>4, <1>5, <1>6, <1>7, <1>8, <1>9

\* A single-row write changes that row and no other.
LEMMA WriteEffect ==
    ASSUME TypeOK, NEW j \in Jobs, NEW r \in Row, Write(j, r)
    PROVE  /\ jobs' \in [Jobs -> Row]
           /\ jobs'[j] = r
           /\ \A k \in Jobs \ {j} : jobs'[k] = jobs[k]
BY DEF TypeOK, Write

-----------------------------------------------------------------------------
(* How one step can change one row *)

\* Status, attempt and budget stand still.
Kept(j) ==
    /\ jobs'[j].status = jobs[j].status
    /\ jobs'[j].attempts = jobs[j].attempts
    /\ jobs'[j].maxAttempts = jobs[j].maxAttempts

Inserted(j) ==
    /\ jobs[j].status = "absent" /\ jobs'[j].status = "queued"
    /\ jobs'[j].attempts = 0 /\ jobs'[j].maxAttempts >= 1

Granted(j) ==
    /\ jobs[j].status = "queued" /\ jobs'[j].status = "running"
    /\ jobs'[j].attempts = jobs[j].attempts + 1
    /\ jobs'[j].maxAttempts = jobs[j].maxAttempts
    /\ TargetFree(j)

\* The attempt ends: in a verdict, in a park, or in another try it can afford.
Ended(j) ==
    /\ jobs[j].status = "running"
    /\ jobs'[j].status \in {"succeeded", "failed", "cancelled", "waiting", "queued"}
    /\ jobs'[j].attempts = jobs[j].attempts
    /\ jobs'[j].maxAttempts = jobs[j].maxAttempts
    /\ jobs'[j].status = "queued" => jobs[j].attempts < jobs[j].maxAttempts

Dropped(j) ==
    /\ \/ jobs[j].status = "queued" /\ jobs'[j].status = "cancelled"
       \/ jobs[j].status = "waiting" /\ jobs'[j].status \in {"cancelled", "failed"}
    /\ jobs'[j].attempts = jobs[j].attempts
    /\ jobs'[j].maxAttempts = jobs[j].maxAttempts

Reopened(j) ==
    /\ jobs[j].status \in {"running", "waiting", "failed", "cancelled"}
    /\ jobs'[j].status = "queued"
    /\ jobs'[j].attempts = jobs[j].attempts
    /\ jobs'[j].maxAttempts = Headroom(j)

\* A change that hands out no attempt.
Shifted(j) == Kept(j) \/ Inserted(j) \/ Ended(j) \/ Dropped(j) \/ Reopened(j)

\* Either one job is granted an attempt and the others rest, or none is.
StepShape ==
    /\ jobs' \in [Jobs -> Row]
    /\ \/ \E j \in Jobs : Granted(j) /\ \A k \in Jobs \ {j} : jobs'[k] = jobs[k]
       \/ \A j \in Jobs : Shifted(j)

\* A write to one row that shifts it has the shape.
LEMMA ShiftShape ==
    ASSUME TypeOK, NEW j \in Jobs, NEW r \in Row, Write(j, r),
           (jobs'[j] = r) => Shifted(j)
    PROVE  StepShape
<1>1. /\ jobs' \in [Jobs -> Row]
      /\ jobs'[j] = r
      /\ \A k \in Jobs \ {j} : jobs'[k] = jobs[k]
  BY WriteEffect
<1>2. \A k \in Jobs : Shifted(k)
  BY <1>1 DEF Shifted, Kept
<1> QED
  BY <1>1, <1>2 DEF StepShape

\* A step that leaves the table alone has the shape.
LEMMA RestShape ==
    ASSUME TypeOK, jobs' = jobs
    PROVE  StepShape
BY DEF TypeOK, StepShape, Shifted, Kept

\* The writes of an attempt's holder, fenced, end the attempt.
LEMMA SettleShape ==
    ASSUME TypeOK, NEW j \in Jobs, NEW a \in Nat, NEW r \in Row, Settle(j, a, r),
           r.status \in {"succeeded", "failed", "cancelled", "waiting"},
           r.attempts = jobs[j].attempts, r.maxAttempts = jobs[j].maxAttempts
    PROVE  StepShape
<1>1. CASE Fenced(j, a)
  <2>1. Write(j, r)
    BY <1>1 DEF Settle
  <2>2. (jobs'[j] = r) => Shifted(j)
    BY <1>1 DEF Fenced, Shifted, Ended
  <2> QED
    BY <2>1, <2>2, ShiftShape
<1>2. CASE ~Fenced(j, a)
  BY <1>2, RestShape DEF Settle
<1> QED
  BY <1>1, <1>2

\* Whatever the holder of a lease does has the shape.
LEMMA HolderShape ==
    ASSUME TypeOK, NEW j \in Jobs, NEW a \in Nat, Holder(j, a)
    PROVE  StepShape
<1>1. CASE Complete(j, a)
  BY <1>1, SettleShape, RowsTyped, RowFields DEF Complete
<1>2. CASE FailPermanently(j, a)
  <2>1. 0 \in Nat
    OBVIOUS
  <2>2. /\ FailedRow(j, 0) \in Row
        /\ FailedRow(j, 0).status = "failed"
        /\ FailedRow(j, 0).attempts = jobs[j].attempts
        /\ FailedRow(j, 0).maxAttempts = jobs[j].maxAttempts
    BY <2>1, RowsTyped, RowFields
  <2> QED
    BY <1>2, <2>2, SettleShape DEF FailPermanently
<1>3. CASE CancelRunning(j, a)
  BY <1>3, SettleShape, RowsTyped, RowFields DEF CancelRunning
<1>4. CASE AwaitInput(j, a)
  <2>1. PICK x \in BOOLEAN : Settle(j, a, WaitingRow(j, x))
    BY <1>4 DEF AwaitInput
  <2> QED
    BY <2>1, SettleShape, RowsTyped, RowFields
<1>5. CASE Heartbeat(j, a)
  <2>1. (jobs'[j] = BeatRow(j)) => Shifted(j)
    BY RowFields DEF Shifted, Kept
  <2> QED
    BY <1>5, <2>1, ShiftShape, RowsTyped DEF Heartbeat
<1>6. CASE HolderFails(j, a)
  BY <1>6, RestShape DEF HolderFails
<1>7. CASE HolderDies(j, a)
  BY <1>7, RestShape DEF HolderDies
<1> QED
  BY <1>1, <1>2, <1>3, <1>4, <1>5, <1>6, <1>7 DEF Holder

\* The write of a fail call lands only on the row its verdict was read from,
\* and a requeue only when the budget allows it.
LEMMA FailWriteShape ==
    ASSUME TypeOK, VerdictsCurrent, NEW v \in verdicts, FailWrite(v)
    PROVE  StepShape
<1>1. /\ v.job \in Jobs /\ v.attempt \in Nat /\ v.cause \in Nat
      /\ v.to \in {"queued", "failed"}
  BY DEF TypeOK, Verdict
<1>2. CASE ~Fenced(v.job, v.attempt)
  BY <1>2, RestShape DEF FailWrite
<1>3. CASE Fenced(v.job, v.attempt) /\ v.to = "queued"
  <2> DEFINE r == RequeuedRow(v.job, v.cause)
  <2>1. r \in Row
    BY <1>1, RowsTyped
  <2>2. Write(v.job, r)
    BY <1>3 DEF FailWrite
  <2>3. jobs[v.job].attempts < jobs[v.job].maxAttempts
    BY <1>3 DEF VerdictsCurrent
  <2>4. /\ r.status = "queued" /\ r.attempts = jobs[v.job].attempts
        /\ r.maxAttempts = jobs[v.job].maxAttempts
    BY <1>1, RowFields
  <2> HIDE DEF r
  <2>5. (jobs'[v.job] = r) => Shifted(v.job)
    BY <1>3, <2>3, <2>4 DEF Fenced, Shifted, Ended
  <2> QED
    BY <1>1, <2>1, <2>2, <2>5, ShiftShape
<1>4. CASE Fenced(v.job, v.attempt) /\ v.to = "failed"
  <2> DEFINE r == FailedRow(v.job, v.cause)
  <2>1. r \in Row
    BY <1>1, RowsTyped
  <2>2. Write(v.job, r)
    BY <1>4 DEF FailWrite
  <2>3. /\ r.status = "failed" /\ r.attempts = jobs[v.job].attempts
        /\ r.maxAttempts = jobs[v.job].maxAttempts
    BY <1>1, RowFields
  <2> HIDE DEF r
  <2>4. (jobs'[v.job] = r) => Shifted(v.job)
    BY <1>4, <2>3 DEF Fenced, Shifted, Ended
  <2> QED
    BY <1>1, <2>1, <2>2, <2>4, ShiftShape
<1> QED
  BY <1>1, <1>2, <1>3, <1>4

\* The doors of the API and an enqueue move one row or reopen it.
LEMMA DoorShape ==
    ASSUME TypeOK, NEW j \in Jobs, Door(j)
    PROVE  StepShape
<1>1. CASE Enqueue(j)
  <2>1. PICK max \in MaxAttempts, now \in BOOLEAN : Insert(j, max, now)
    BY <1>1 DEF Enqueue
  <2> DEFINE big == Larger(max, 1)
             r == [AbsentRow EXCEPT !.status = "queued", !.maxAttempts = big, !.due = now]
  <2>2. big \in Nat /\ big >= 1
    BY MaxAttemptsAssumption DEF Larger
  <2>3. r \in Row /\ r.status = "queued" /\ r.attempts = 0 /\ r.maxAttempts = big
    <3> HIDE DEF big
    <3> QED BY <2>2 DEF AbsentRow, Row, Status
  <2>4. Write(j, r) /\ jobs[j].status = "absent"
    BY <2>1 DEF Insert
  <2> HIDE DEF r, big
  <2>5. (jobs'[j] = r) => Shifted(j)
    BY <2>2, <2>3, <2>4 DEF Shifted, Inserted
  <2> QED
    BY <2>3, <2>4, <2>5, ShiftShape
<1>2. CASE ApiCancel(j)
  <2>1. (jobs'[j] = CancelledRow(j)) => Shifted(j)
    BY <1>2, RowFields DEF ApiCancel, CancelUnclaimed, Shifted, Dropped
  <2> QED
    BY <1>2, <2>1, ShiftShape, RowsTyped DEF ApiCancel, CancelUnclaimed
<1>3. CASE ApiReset(j)
  <2>1. (jobs'[j] = ReopenedRow(j)) => Shifted(j)
    BY <1>3, RowFields DEF ApiReset, Reset, Shifted, Reopened
  <2> QED
    BY <1>3, <2>1, ShiftShape, RowsTyped DEF ApiReset, Reset
<1>4. CASE ApiResume(j)
  <2> DEFINE r == [ReopenedRow(j) EXCEPT !.deadline = "none"]
  <2>1. r \in Row
    BY RowsTyped
  <2>2. /\ r.status = "queued" /\ r.attempts = jobs[j].attempts
        /\ r.maxAttempts = Headroom(j)
    <3>1. ReopenedRow(j) \in Row
      BY RowsTyped
    <3> QED
      BY <3>1, RowFields DEF Row
  <2>3. Write(j, r) /\ jobs[j].status = "waiting"
    BY <1>4 DEF ApiResume, Resume
  <2> HIDE DEF r
  <2>4. (jobs'[j] = r) => Shifted(j)
    BY <2>2, <2>3 DEF Shifted, Reopened
  <2> QED
    BY <2>1, <2>3, <2>4, ShiftShape
<1>5. CASE ApiRetry(j)
  <2>1. (jobs'[j] = ReopenedRow(j)) => Shifted(j)
    BY <1>5, RowFields DEF ApiRetry, Retry, Shifted, Reopened
  <2> QED
    BY <1>5, <2>1, ShiftShape, RowsTyped DEF ApiRetry, Retry
<1> QED
  BY <1>1, <1>2, <1>3, <1>4, <1>5 DEF Door

\* A claim grants one attempt, on a target no running row holds.
LEMMA ClaimShape ==
    ASSUME TypeOK, NEW j \in Jobs, Claim(j)
    PROVE  StepShape
<1>1. PICK r \in Row :
          /\ Write(j, r)
          /\ r.status = "running" /\ r.attempts = jobs[j].attempts + 1
          /\ r.maxAttempts = jobs[j].maxAttempts
  <2>1. ClaimedRow(j) \in Row
    BY RowsTyped
  <2>2. CASE ClaimNext(j, {})
    BY <2>1, <2>2, RowFields DEF ClaimNext
  <2>3. CASE \E e \in Executors : ClaimNextForExecutor(j, e, {AppOf[j]}, {})
    <3>1. PICK e \in Executors : ClaimNextForExecutor(j, e, {AppOf[j]}, {})
      BY <2>3
    <3> DEFINE r == [ClaimedRow(j) EXCEPT !.executor = e]
    <3>2. r \in Row
      BY RowsTyped
    <3>3. /\ r.status = "running" /\ r.attempts = jobs[j].attempts + 1
          /\ r.maxAttempts = jobs[j].maxAttempts
      BY <2>1, RowFields DEF Row
    <3>4. Write(j, r)
      BY <3>1 DEF ClaimNextForExecutor
    <3> QED
      BY <3>2, <3>3, <3>4
  <2> QED
    BY <2>2, <2>3 DEF Claim
<1>2. jobs[j].status = "queued" /\ TargetFree(j)
  BY DEF Claim, ClaimNext, ClaimNextForExecutor, Claimable
<1>3. /\ jobs' \in [Jobs -> Row]
      /\ jobs'[j] = r
      /\ \A k \in Jobs \ {j} : jobs'[k] = jobs[k]
  BY <1>1, WriteEffect
<1>4. Granted(j)
  BY <1>1, <1>2, <1>3 DEF Granted
<1> QED
  BY <1>3, <1>4 DEF StepShape

\* The passing of time moves none of status, attempt and budget.
LEMMA TimeShape ==
    ASSUME TypeOK, NEW j \in Jobs, Time(j)
    PROVE  StepShape
<1>0. jobs[j] \in Row
  BY DEF TypeOK
<1>1. PICK r \in Row :
          /\ Write(j, r)
          /\ r.status = jobs[j].status /\ r.attempts = jobs[j].attempts
          /\ r.maxAttempts = jobs[j].maxAttempts
  <2>1. CASE BackoffElapses(j)
    <3> DEFINE r == [jobs[j] EXCEPT !.due = TRUE]
    <3>1. /\ r \in Row /\ r.status = jobs[j].status /\ r.attempts = jobs[j].attempts
          /\ r.maxAttempts = jobs[j].maxAttempts
      BY <1>0 DEF Row
    <3>2. Write(j, r)
      BY <2>1 DEF BackoffElapses
    <3> QED
      BY <3>1, <3>2
  <2>2. CASE LeaseAges(j)
    <3> DEFINE r == [jobs[j] EXCEPT !.fresh = FALSE]
    <3>1. /\ r \in Row /\ r.status = jobs[j].status /\ r.attempts = jobs[j].attempts
          /\ r.maxAttempts = jobs[j].maxAttempts
      BY <1>0 DEF Row
    <3>2. Write(j, r)
      BY <2>2 DEF LeaseAges
    <3> QED
      BY <3>1, <3>2
  <2>3. CASE DeadlinePasses(j)
    <3> DEFINE r == [jobs[j] EXCEPT !.deadline = "passed"]
    <3>1. /\ r \in Row /\ r.status = jobs[j].status /\ r.attempts = jobs[j].attempts
          /\ r.maxAttempts = jobs[j].maxAttempts
      BY <1>0 DEF Row
    <3>2. Write(j, r)
      BY <2>3 DEF DeadlinePasses
    <3> QED
      BY <3>1, <3>2
  <2> QED
    BY <2>1, <2>2, <2>3 DEF Time
<1>2. (jobs'[j] = r) => Shifted(j)
  BY <1>1 DEF Shifted, Kept
<1> QED
  BY <1>1, <1>2, ShiftShape

\* The bulk statements reopen terminal rows, or fail overdue parks.
LEMMA BulkShape ==
    ASSUME TypeOK, ApiRetryBulk \/ ExpireWaitingOnce
    PROVE  StepShape
<1>1. CASE ApiRetryBulk
  <2>1. PICK s \in {"failed", "cancelled"}, S \in SUBSET Jobs : RetryBulk(s, S)
    BY <1>1 DEF ApiRetryBulk
  <2>2. \A j \in Jobs : ReopenedRow(j) \in Row
    BY RowsTyped
  <2>3. jobs' \in [Jobs -> Row]
    BY <2>1, <2>2 DEF RetryBulk, TypeOK
  <2>4. ASSUME NEW j \in Jobs PROVE Shifted(j)
    <3>1. CASE j \in S
      <4>1. jobs'[j] = ReopenedRow(j) /\ jobs[j].status \in {"failed", "cancelled"}
        BY <2>1, <3>1 DEF RetryBulk
      <4> QED
        BY <4>1, RowFields DEF Shifted, Reopened
    <3>2. CASE j \notin S
      BY <2>1, <3>2 DEF RetryBulk, Shifted, Kept
    <3> QED
      BY <3>1, <3>2
  <2> QED
    BY <2>3, <2>4 DEF StepShape
<1>2. CASE ExpireWaitingOnce
  <2>1. PICK S \in SUBSET Jobs : ExpireWaiting(S)
    BY <1>2 DEF ExpireWaitingOnce
  <2> DEFINE r(j) == [jobs[j] EXCEPT !.status = "failed", !.error = jobs[j].attempts]
  <2>2. ASSUME NEW j \in Jobs
        PROVE  /\ r(j) \in Row /\ r(j).status = "failed"
               /\ r(j).attempts = jobs[j].attempts
               /\ r(j).maxAttempts = jobs[j].maxAttempts
    <3>1. jobs[j] \in Row
      BY DEF TypeOK
    <3> QED
      BY <3>1 DEF Row, Status, Terminal
  <2>3. jobs' = [j \in Jobs |-> IF j \in S THEN r(j) ELSE jobs[j]]
    BY <2>1 DEF ExpireWaiting
  <2>4. \A j \in S : j \in Jobs /\ jobs[j].status = "waiting"
    BY <2>1 DEF ExpireWaiting, Overdue
  <2> HIDE DEF r
  <2>5. jobs' \in [Jobs -> Row]
    BY <2>2, <2>3 DEF TypeOK
  <2>6. ASSUME NEW j \in Jobs PROVE Shifted(j)
    <3>1. CASE j \in S
      BY <2>2, <2>3, <2>4, <3>1 DEF Shifted, Dropped
    <3>2. CASE j \notin S
      BY <2>3, <3>2 DEF Shifted, Kept
    <3> QED
      BY <3>1, <3>2
  <2> QED
    BY <2>5, <2>6 DEF StepShape
<1> QED
  BY <1>1, <1>2

\* Every step of the queue has the shape.
LEMMA NextShape ==
    ASSUME TypeOK, VerdictsCurrent, [Next]_vars
    PROVE  StepShape
<1>1. CASE \E j \in Jobs : Claim(j) \/ Door(j) \/ Time(j)
  BY <1>1, ClaimShape, DoorShape, TimeShape
<1>2. CASE \E l \in leases : Holder(l[1], l[2])
  <2>1. PICK l \in leases : Holder(l[1], l[2])
    BY <1>2
  <2>2. l[1] \in Jobs /\ l[2] \in Nat
    BY DEF TypeOK
  <2> QED
    BY <2>1, <2>2, HolderShape
<1>3. CASE \E s \in scanned : SweepFail(s[1], s[2])
  BY <1>3, RestShape DEF SweepFail
<1>4. CASE \E v \in verdicts : FailWrite(v)
  BY <1>4, FailWriteShape
<1>5. CASE RecoverStuck \/ ReapStale
  BY <1>5, RestShape DEF RecoverStuck, ReapStale, Scan
<1>6. CASE ApiRetryBulk \/ ExpireWaitingOnce
  BY <1>6, BulkShape
<1>7. CASE UNCHANGED vars
  BY <1>7, RestShape DEF vars
<1> QED
  BY <1>1, <1>2, <1>3, <1>4, <1>5, <1>6, <1>7 DEF Next

-----------------------------------------------------------------------------
(* What is pending after a step *)

\* A lease or a scanned row that a step adds names the attempt the row has
\* then; a verdict that a step adds was decided from the row as it is.
PendingShape ==
    /\ leases' \cup scanned' \subseteq Jobs \X Nat
    /\ \A l \in leases' \cup scanned' :
          l \in leases \cup scanned \/ l[2] = jobs'[l[1]].attempts
    /\ \A v \in verdicts' :
          \/ v \in verdicts
          \/ /\ v \in Verdict /\ jobs' = jobs
             /\ v.attempt = jobs[v.job].attempts
             /\ v.to = "queued" => jobs[v.job].attempts < jobs[v.job].maxAttempts

\* The read of a fail call.
LEMMA FailReadPending ==
    ASSUME TypeOK, NEW j \in Jobs, NEW a \in Nat, NEW ours \in BOOLEAN,
           NEW typed \in BOOLEAN, FailRead(j, a, ours, typed), jobs' = jobs,
           NEW v \in verdicts', v \notin verdicts
    PROVE  /\ v \in Verdict
           /\ v.attempt = jobs[v.job].attempts
           /\ v.to = "queued" => jobs[v.job].attempts < jobs[v.job].maxAttempts
<1> DEFINE c == IF typed THEN a ELSE 0
<1>1. v = Decide(j, ours, c)
  BY DEF FailRead
<1>2. c \in Nat
  OBVIOUS
<1>3. jobs[j].attempts \in Nat /\ jobs[j].maxAttempts \in Nat
  BY DEF TypeOK, Row
<1> HIDE DEF c
<1> QED
  BY <1>1, <1>2, <1>3 DEF Decide, Verdict

\* Every step of the queue leaves only such things pending.
LEMMA NextPending ==
    ASSUME TypeOK, [Next]_vars
    PROVE  PendingShape
<1>1. CASE UNCHANGED <<leases, scanned, verdicts>>
  BY <1>1 DEF PendingShape, TypeOK
<1>2. ASSUME NEW j \in Jobs, Claim(j) PROVE PendingShape
  <2>1. jobs'[j].attempts = jobs[j].attempts + 1
    <3>1. ClaimedRow(j) \in Row
      BY RowsTyped
    <3>2. CASE ClaimNext(j, {})
      BY <3>1, <3>2, WriteEffect, RowFields DEF ClaimNext
    <3>3. ASSUME NEW e \in Executors, ClaimNextForExecutor(j, e, {AppOf[j]}, {})
          PROVE  jobs'[j].attempts = jobs[j].attempts + 1
      <4> DEFINE r == [ClaimedRow(j) EXCEPT !.executor = e]
      <4>1. r \in Row
        BY RowsTyped
      <4>2. r.attempts = jobs[j].attempts + 1
        BY <3>1, RowFields DEF Row
      <4>3. Write(j, r)
        BY <3>3 DEF ClaimNextForExecutor
      <4> HIDE DEF r
      <4> QED
        BY <4>1, <4>2, <4>3, WriteEffect
    <3> QED
      BY <1>2, <3>2, <3>3 DEF Claim
  <2>2. jobs[j].attempts + 1 \in Nat
    BY DEF TypeOK, Row
  <2> QED
    BY <1>2, <2>1, <2>2 DEF Claim, PendingShape, TypeOK
<1>3. ASSUME NEW l \in leases, Holder(l[1], l[2]) PROVE PendingShape
  <2>1. l[1] \in Jobs /\ l[2] \in Nat
    BY DEF TypeOK
  <2>2. CASE HolderFails(l[1], l[2])
    <3>1. /\ leases' \subseteq leases /\ scanned' = scanned /\ jobs' = jobs
      BY <2>2 DEF HolderFails
    <3>2. \E ours, typed \in BOOLEAN : FailRead(l[1], l[2], ours, typed)
      BY <2>2 DEF HolderFails
    <3>3. \A v \in verdicts' :
             \/ v \in verdicts
             \/ /\ v \in Verdict /\ v.attempt = jobs[v.job].attempts
                /\ v.to = "queued" => jobs[v.job].attempts < jobs[v.job].maxAttempts
      BY <2>1, <3>1, <3>2, FailReadPending
    <3> QED
      BY <3>1, <3>3 DEF PendingShape, TypeOK
  <2>3. CASE leases' \subseteq leases /\ UNCHANGED <<scanned, verdicts>>
    BY <2>3 DEF PendingShape, TypeOK
  <2>4. HolderFails(l[1], l[2]) \/ (leases' \subseteq leases /\ UNCHANGED <<scanned, verdicts>>)
    BY <1>3 DEF Holder, Complete, FailPermanently, CancelRunning, AwaitInput,
       Heartbeat, HolderDies, Settle
  <2> QED
    BY <2>2, <2>3, <2>4
<1>4. ASSUME NEW s \in scanned, SweepFail(s[1], s[2]) PROVE PendingShape
  <2>1. s[1] \in Jobs /\ s[2] \in Nat
    BY DEF TypeOK
  <2>2. leases' = leases /\ scanned' \subseteq scanned /\ jobs' = jobs
    BY <1>4 DEF SweepFail
  <2>3. \A v \in verdicts' :
           \/ v \in verdicts
           \/ /\ v \in Verdict /\ v.attempt = jobs[v.job].attempts
              /\ v.to = "queued" => jobs[v.job].attempts < jobs[v.job].maxAttempts
    BY <1>4, <2>1, <2>2, FailReadPending DEF SweepFail
  <2> QED
    BY <2>2, <2>3 DEF PendingShape, TypeOK
<1>5. ASSUME NEW v \in verdicts, FailWrite(v) PROVE PendingShape
  BY <1>5 DEF FailWrite, PendingShape, TypeOK
<1>6. CASE RecoverStuck \/ ReapStale
  <2>1. PICK rows \in SUBSET Jobs : Scan(rows)
    BY <1>6 DEF RecoverStuck, ReapStale, Running, Stale
  <2>2. PICK part \in SUBSET rows :
           scanned' = scanned \cup {<<j, jobs[j].attempts>> : j \in part}
    BY <2>1 DEF Scan
  <2>3. jobs' = jobs /\ leases' = leases /\ verdicts' = verdicts
    BY <2>1 DEF Scan
  <2>4. \A j \in part : j \in Jobs /\ jobs[j].attempts \in Nat
    BY DEF TypeOK, Row
  <2> QED
    BY <2>2, <2>3, <2>4 DEF PendingShape, TypeOK
<1>7. ASSUME NEW j \in Jobs, Door(j) \/ Time(j) PROVE PendingShape
  BY <1>1, <1>7 DEF Door, Time, Enqueue, ApiCancel, ApiReset, ApiResume, ApiRetry,
     BackoffElapses, LeaseAges, DeadlinePasses
<1>8. CASE ApiRetryBulk \/ ExpireWaitingOnce
  BY <1>1, <1>8 DEF ApiRetryBulk, ExpireWaitingOnce
<1>9. CASE UNCHANGED vars
  BY <1>1, <1>9 DEF vars
<1> QED
  BY <1>2, <1>3, <1>4, <1>5, <1>6, <1>7, <1>8, <1>9 DEF Next

-----------------------------------------------------------------------------
(* The inductive invariant *)

\* The empty queue satisfies the invariant.
LEMMA InitInv == Init => QueueInv
<1> SUFFICES ASSUME Init PROVE QueueInv
  OBVIOUS
<1>1. AbsentRow \in Row
  BY DEF Row, AbsentRow, Status
<1>2. \A j \in Jobs : jobs[j] = AbsentRow
  BY DEF Init
<1>3. TypeOK
  BY <1>1 DEF Init, TypeOK
<1>4. \A j \in Jobs : jobs[j].status = "absent" /\ jobs[j].attempts = 0
  <2>1. AbsentRow.status = "absent" /\ AbsentRow.attempts = 0
    BY DEF AbsentRow
  <2> QED
    BY <1>2, <2>1
<1> QED
  BY <1>3, <1>4 DEF Init, QueueInv, BudgetRespected, TargetMutex, Running,
     VerdictsCurrent, HandedOut

\* A step of either shape preserves the invariant.
LEMMA StepInv == QueueInv /\ [Next]_vars => QueueInv'
<1> SUFFICES ASSUME QueueInv, [Next]_vars PROVE QueueInv'
  OBVIOUS
<1>1. TypeOK /\ BudgetRespected /\ TargetMutex /\ VerdictsCurrent /\ HandedOut
  BY DEF QueueInv
<1>2. StepShape
  BY <1>1, NextShape
<1>3. PendingShape
  BY <1>1, NextPending
<1>4. \A j \in Jobs : /\ jobs[j].attempts \in Nat /\ jobs[j].maxAttempts \in Nat
                      /\ jobs'[j].attempts \in Nat /\ jobs'[j].maxAttempts \in Nat
  BY <1>1, <1>2 DEF TypeOK, StepShape, Row
<1>5. \A j \in Jobs : Shifted(j) \/ Granted(j)
  BY <1>2 DEF StepShape, Shifted, Kept
<1>6. \A j \in Jobs : jobs[j].attempts <= jobs'[j].attempts
  BY <1>1, <1>4, <1>5 DEF Shifted, Kept, Inserted, Granted, Ended, Dropped, Reopened,
     HandedOut
<1>7. TypeOK'
  <2>1. verdicts' \subseteq Verdict
    BY <1>1, <1>3 DEF PendingShape, TypeOK
  <2> QED
    BY <1>2, <1>3, <2>1 DEF StepShape, PendingShape, TypeOK
<1>8. BudgetRespected'
  <2> SUFFICES ASSUME NEW j \in Jobs
               PROVE /\ jobs'[j].status = "queued" =>
                           jobs'[j].attempts < jobs'[j].maxAttempts
                     /\ jobs'[j].status \in {"running", "waiting"} =>
                           jobs'[j].attempts <= jobs'[j].maxAttempts
    BY DEF BudgetRespected
  <2>1. CASE Granted(j)
    BY <1>1, <1>4, <2>1 DEF Granted, BudgetRespected
  <2>2. CASE Kept(j)
    BY <1>1, <2>2 DEF Kept, BudgetRespected
  <2>3. CASE Inserted(j) \/ Dropped(j)
    BY <1>4, <2>3 DEF Inserted, Dropped
  <2>4. CASE Ended(j)
    BY <1>1, <1>4, <2>4 DEF Ended, BudgetRespected
  <2>5. CASE Reopened(j)
    BY <1>4, <2>5 DEF Reopened, Headroom, Larger
  <2> QED
    BY <1>5, <2>1, <2>2, <2>3, <2>4, <2>5 DEF Shifted
<1>9. TargetMutex'
  <2> SUFFICES ASSUME NEW j \in Jobs, NEW k \in Jobs, j # k,
                      jobs'[j].status = "running", jobs'[k].status = "running"
               PROVE  TargetOf[j] = NoTarget \/ TargetOf[j] # TargetOf[k]
    BY DEF TargetMutex, Running
  <2>1. CASE \E i \in Jobs : Granted(i) /\ \A m \in Jobs \ {i} : jobs'[m] = jobs[m]
    <3>1. PICK i \in Jobs : Granted(i) /\ \A m \in Jobs \ {i} : jobs'[m] = jobs[m]
      BY <2>1
    <3>2. CASE i = j
      BY <3>1, <3>2 DEF Granted, TargetFree, Running
    <3>3. CASE i = k
      BY <3>1, <3>3 DEF Granted, TargetFree, Running
    <3>4. CASE i # j /\ i # k
      BY <1>1, <3>1, <3>4 DEF TargetMutex, Running
    <3> QED
      BY <3>2, <3>3, <3>4
  <2>2. CASE \A i \in Jobs : Shifted(i)
    <3>1. jobs[j].status = "running" /\ jobs[k].status = "running"
      BY <2>2 DEF Shifted, Kept, Inserted, Ended, Dropped, Reopened
    <3> QED
      BY <1>1, <3>1 DEF TargetMutex, Running
  <2> QED
    BY <1>2, <2>1, <2>2 DEF StepShape
<1>10. VerdictsCurrent'
  <2> SUFFICES ASSUME NEW v \in verdicts', jobs'[v.job].status = "running",
                      jobs'[v.job].attempts = v.attempt, v.to = "queued"
               PROVE  jobs'[v.job].attempts < jobs'[v.job].maxAttempts
    BY DEF VerdictsCurrent, Fenced
  <2>1. CASE v \in verdicts
    <3>1. v.job \in Jobs /\ v.attempt \in Nat /\ v.attempt <= jobs[v.job].attempts
      BY <1>1, <2>1 DEF TypeOK, Verdict, HandedOut
    <3>2. ~Granted(v.job)
      BY <1>4, <3>1 DEF Granted
    <3>3. Kept(v.job)
      BY <1>5, <3>1, <3>2 DEF Shifted, Inserted, Ended, Dropped, Reopened
    <3> QED
      BY <1>1, <2>1, <3>3 DEF Kept, VerdictsCurrent, Fenced
  <2>2. CASE v \notin verdicts
    BY <1>3, <2>2 DEF PendingShape
  <2> QED
    BY <2>1, <2>2
<1>11. HandedOut'
  <2>1. ASSUME NEW j \in Jobs, jobs'[j].status = "absent" PROVE jobs'[j].attempts = 0
    <3>1. Kept(j)
      BY <1>5, <2>1 DEF Shifted, Inserted, Ended, Dropped, Reopened, Granted
    <3> QED
      BY <1>1, <2>1, <3>1 DEF Kept, HandedOut
  <2>2. ASSUME NEW l \in leases' \cup scanned' PROVE l[2] <= jobs'[l[1]].attempts
    <3>1. l[1] \in Jobs /\ l[2] \in Nat
      BY <1>3 DEF PendingShape
    <3>2. CASE l \in leases \cup scanned
      <4>1. l[2] <= jobs[l[1]].attempts
        BY <1>1, <3>2 DEF HandedOut
      <4> QED
        BY <1>4, <1>6, <3>1, <4>1
    <3>3. CASE l[2] = jobs'[l[1]].attempts
      BY <1>4, <3>1, <3>3
    <3> QED
      BY <1>3, <3>2, <3>3 DEF PendingShape
  <2>3. ASSUME NEW v \in verdicts' PROVE v.attempt <= jobs'[v.job].attempts
    <3>1. v \in Verdict
      BY <1>7 DEF TypeOK
    <3>2. v.job \in Jobs /\ v.attempt \in Nat
      BY <3>1 DEF Verdict
    <3>3. v.attempt <= jobs[v.job].attempts
      BY <1>1, <1>3, <1>4, <3>2 DEF PendingShape, HandedOut
    <3> QED
      BY <1>4, <1>6, <3>2, <3>3
  <2> QED
    BY <2>1, <2>2, <2>3 DEF HandedOut
<1> QED
  BY <1>7, <1>8, <1>9, <1>10, <1>11 DEF QueueInv

\* The queue's inductive invariant holds of every behaviour, for any jobs,
\* executors, targets and attempt budgets.
THEOREM QueueInvariant == Spec => []QueueInv
BY InitInv, StepInv, PTL DEF Spec

\* A queued job always has an attempt left and a claimed one never overdraws.
THEOREM BudgetAlwaysRespected == Spec => []BudgetRespected
<1>1. QueueInv => BudgetRespected
  BY DEF QueueInv
<1> QED
  BY <1>1, QueueInvariant, PTL

\* Two jobs on one target never run at the same time.
THEOREM TargetsExclusive == Spec => []TargetMutex
<1>1. QueueInv => TargetMutex
  BY DEF QueueInv
<1> QED
  BY <1>1, QueueInvariant, PTL
-----------------------------------------------------------------------------
(* What a step may never do *)

\* An attempt number is never handed out twice: nothing pending when a claim
\* advances the counter can pass the fence of the attempt it starts.
THEOREM AttemptsAreFresh == Spec => FreshAttempt
<1> DEFINE Fresh ==
      \A j \in Jobs :
          jobs'[j].attempts # jobs[j].attempts =>
             /\ jobs'[j].attempts > jobs[j].attempts
             /\ <<j, jobs'[j].attempts>> \notin leases \cup scanned
             /\ \A v \in verdicts :
                   v.job = j => v.attempt # jobs'[j].attempts
<1>1. QueueInv /\ [Next]_vars => [Fresh]_vars
  <2> SUFFICES ASSUME QueueInv, [Next]_vars, NEW j \in Jobs,
                      jobs'[j].attempts # jobs[j].attempts
               PROVE  /\ jobs'[j].attempts > jobs[j].attempts
                      /\ <<j, jobs'[j].attempts>> \notin leases \cup scanned
                      /\ \A v \in verdicts :
                            v.job = j => v.attempt # jobs'[j].attempts
    OBVIOUS
  <2>1. TypeOK /\ VerdictsCurrent /\ HandedOut
    BY DEF QueueInv
  <2>2. StepShape
    BY <2>1, NextShape
  <2>3. jobs[j].attempts \in Nat
    BY <2>1 DEF TypeOK, Row
  <2>4. Shifted(j) \/ Granted(j)
    BY <2>2 DEF StepShape, Shifted, Kept
  <2>5. jobs'[j].attempts = jobs[j].attempts + 1
    BY <2>1, <2>4 DEF Shifted, Kept, Inserted, Granted, Ended, Dropped, Reopened,
       HandedOut
  <2>6. \A l \in leases \cup scanned : l[1] = j => l[2] <= jobs[j].attempts
    BY <2>1 DEF HandedOut
  <2>7. \A v \in verdicts : v.job = j => v.attempt <= jobs[j].attempts
    BY <2>1 DEF HandedOut
  <2>8. <<j, jobs'[j].attempts>> \notin leases \cup scanned
    BY <2>3, <2>5, <2>6
  <2>9. \A v \in verdicts : v.job = j => v.attempt # jobs'[j].attempts
    BY <2>3, <2>5, <2>7
  <2> QED
    BY <2>3, <2>5, <2>8, <2>9
<1> QED
  BY <1>1, QueueInvariant, PTL DEF Spec, FreshAttempt

-----------------------------------------------------------------------------
(* The queue implements the lifecycle *)

\* The empty table is the lifecycle's initial state.
LEMMA LifecycleInit == Init => Lifecycle!Init
<1> SUFFICES ASSUME Init PROVE Lifecycle!Init
  OBVIOUS
<1>1. AbsentRow.status = "absent" /\ AbsentRow.attempts = 0
  BY DEF AbsentRow
<1>2. \A j \in Jobs : jobs[j] = AbsentRow
  BY DEF Init
<1> QED
  BY <1>1, <1>2 DEF Lifecycle!Init

\* Every step of the queue moves each job along the lifecycle or leaves it.
LEMMA LifecycleStep == QueueInv /\ [Next]_vars => [Lifecycle!Next]_(Lifecycle!vars)
<1> SUFFICES ASSUME QueueInv, [Next]_vars PROVE Lifecycle!Next
  OBVIOUS
<1>1. TypeOK /\ VerdictsCurrent /\ HandedOut
  BY DEF QueueInv
<1>2. StepShape
  BY <1>1, NextShape
<1>3. TargetMutex'
  BY StepInv DEF QueueInv
<1> DEFINE ph == [j \in Jobs |-> jobs[j].status]
           gr == [j \in Jobs |-> jobs[j].attempts]
<1>4. Lifecycle!Exclusive(ph')
  BY <1>3 DEF Lifecycle!Exclusive, TargetMutex, Running
<1>5. ASSUME NEW j \in Jobs
      PROVE  Lifecycle!Rest(j) \/ Lifecycle!Move(j) \/ Lifecycle!Grant(j)
  <2>1. Shifted(j) \/ Granted(j)
    BY <1>2 DEF StepShape, Shifted, Kept
  <2>2. CASE Granted(j)
    BY <2>2 DEF Granted, Lifecycle!Grant
  <2>3. CASE Kept(j)
    BY <2>3 DEF Kept, Lifecycle!Rest
  <2>4. CASE Inserted(j)
    BY <1>1, <2>4 DEF Inserted, HandedOut, Lifecycle!Move, Lifecycle!Moves
  <2>5. CASE Ended(j)
    BY <2>5 DEF Ended, Lifecycle!Move, Lifecycle!Moves
  <2>6. CASE Dropped(j)
    BY <2>6 DEF Dropped, Lifecycle!Move, Lifecycle!Moves
  <2>7. CASE Reopened(j)
    BY <2>7 DEF Reopened, Lifecycle!Move, Lifecycle!Moves
  <2> QED
    BY <2>1, <2>2, <2>3, <2>4, <2>5, <2>6, <2>7 DEF Shifted
<1> QED
  BY <1>4, <1>5 DEF Lifecycle!Next

\* The queue keeps the lifecycle's promise, whatever the interleaving of
\* claims, verdicts, sweeps and API calls.
THEOREM QueueImplementsLifecycle == Spec => ImplementsLifecycle
BY LifecycleInit, LifecycleStep, QueueInvariant, PTL DEF Spec, ImplementsLifecycle, Lifecycle!Spec
=============================================================================

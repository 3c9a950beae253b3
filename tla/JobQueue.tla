------------------------------ MODULE JobQueue ------------------------------
(***************************************************************************)
(* The durable job queue: the job table driven by every kind of actor that  *)
(* writes it.  An actor that claimed an attempt holds a lease <<j, a>>      *)
(* until it has written the attempt's outcome or died; the table is not     *)
(* told of a death, and a lease outlives the row's attempt when an operator *)
(* resets the job or a sweep verdicts it.  Storage::fail is two statements, *)
(* a read that decides the verdict and a fenced write; a recovery sweep is  *)
(* a scan followed by one such fail per scanned row.                        *)
(***************************************************************************)
EXTENDS JobTable, Integers, FiniteSets

CONSTANTS
    MaxAttempts,    \* the max_attempts values enqueued
    BatchCap        \* rows one bulk statement may take

ASSUME MaxAttemptsAssumption == MaxAttempts \subseteq Nat

VARIABLES
    leases,     \* <<j, a>>: attempt a of j is in the hands of a task
    scanned,    \* <<j, a>>: rows a recovery sweep read and has still to verdict
    verdicts    \* fail calls between their read and their write

vars == <<jobs, leases, scanned, verdicts>>

\* What a fail call decided from the row it read.
Verdict == [job : Jobs, attempt : Nat, to : {"queued", "failed"}, cause : Nat]

TypeOK ==
    /\ jobs \in [Jobs -> Row]
    /\ leases \subseteq Jobs \X Nat
    /\ scanned \subseteq Jobs \X Nat
    /\ verdicts \subseteq Verdict

Init ==
    /\ jobs = [j \in Jobs |-> AbsentRow]
    /\ leases = {}
    /\ scanned = {}
    /\ verdicts = {}

-----------------------------------------------------------------------------
(* Producers and claims *)

Enqueue(j) ==
    /\ \E max \in MaxAttempts, now \in BOOLEAN : Insert(j, max, now)
    /\ UNCHANGED <<leases, scanned, verdicts>>

Claim(j) ==
    /\ \/ ClaimNext(j, {})
       \/ \E e \in Executors : ClaimNextForExecutor(j, e, {AppOf[j]}, {})
    /\ leases' = leases \cup {<<j, jobs[j].attempts + 1>>}
    /\ UNCHANGED <<scanned, verdicts>>

-----------------------------------------------------------------------------
(* The holder of attempt a of job j.  A write the fence refuses is dropped   *)
(* and the holder goes away all the same.                                    *)

Settle(j, a, row) ==
    /\ <<j, a>> \in leases
    /\ IF Fenced(j, a) THEN Write(j, row) ELSE jobs' = jobs
    /\ leases' = leases \ {<<j, a>>}
    /\ UNCHANGED <<scanned, verdicts>>

Complete(j, a) == Settle(j, a, SucceededRow(j))

FailPermanently(j, a) == Settle(j, a, FailedRow(j, 0))

CancelRunning(j, a) == Settle(j, a, CancelledRow(j))

AwaitInput(j, a) == \E expires \in BOOLEAN : Settle(j, a, WaitingRow(j, expires))

Heartbeat(j, a) ==
    /\ <<j, a>> \in leases
    /\ Fenced(j, a)
    /\ Write(j, BeatRow(j))
    /\ UNCHANGED <<leases, scanned, verdicts>>

\* The process or the executor holding the lease dies without a word.
HolderDies(j, a) ==
    /\ <<j, a>> \in leases
    /\ leases' = leases \ {<<j, a>>}
    /\ UNCHANGED <<jobs, scanned, verdicts>>

-----------------------------------------------------------------------------
(* Storage::fail *)

\* A fault: the threshold lets a spent budget ride the ladder once more.
DecideLate(j, ours, cause) ==
    [job |-> j, attempt |-> jobs[j].attempts,
     to |-> IF ~ours /\ jobs[j].attempts <= jobs[j].maxAttempts
            THEN "queued" ELSE "failed",
     cause |-> cause]

\* The verdict of requeue_after and of the attempt threshold, for a row read
\* as running at attempt a.  `ours` is Error::is_router_failure; `cause` is the
\* attempt when the error kept a cause_kind and 0 when it did not.
Decide(j, ours, cause) ==
    [job |-> j, attempt |-> jobs[j].attempts,
     to |-> IF ~ours /\ jobs[j].attempts < jobs[j].maxAttempts
            THEN "queued" ELSE "failed",
     cause |-> IF ours \/ jobs[j].attempts < jobs[j].maxAttempts
               THEN cause ELSE 0]

FailRead(j, a, ours, typed) ==
    verdicts' = IF Fenced(j, a)
                THEN verdicts \cup {Decide(j, ours, IF typed THEN a ELSE 0)}
                ELSE verdicts

\* The holder reports a failure: a typed error, or text (a panic, a timeout).
HolderFails(j, a) ==
    /\ <<j, a>> \in leases
    /\ \/ \E ours, typed \in BOOLEAN : FailRead(j, a, ours, typed)
       \/ FailRead(j, a, FALSE, FALSE)
    /\ leases' = leases \ {<<j, a>>}
    /\ UNCHANGED <<jobs, scanned>>

FailWrite(v) ==
    /\ v \in verdicts
    /\ IF Fenced(v.job, v.attempt)
       THEN Write(v.job, IF v.to = "queued" THEN RequeuedRow(v.job, v.cause)
                                            ELSE FailedRow(v.job, v.cause))
       ELSE jobs' = jobs
    /\ verdicts' = verdicts \ {v}
    /\ UNCHANGED <<leases, scanned>>

-----------------------------------------------------------------------------
(* Recovery sweeps: boot and drain scan every running row, the reaper the    *)
(* stale ones.  A sweep may be cut short by its row limit or its budget.     *)

Scan(rows) ==
    /\ \E part \in SUBSET rows \ {{}} :
          scanned' = scanned \cup {<<j, jobs[j].attempts>> : j \in part}
    /\ UNCHANGED <<jobs, leases, verdicts>>

RecoverStuck == Scan(Running)

ReapStale == Scan(Stale)

SweepFail(j, a) ==
    /\ <<j, a>> \in scanned
    /\ FailRead(j, a, FALSE, FALSE)
    /\ scanned' = scanned \ {<<j, a>>}
    /\ UNCHANGED <<jobs, leases>>

-----------------------------------------------------------------------------
(* Operators of the API, and the expiry sweep of the scheduler tick *)

Batch(S) == S # {} /\ Cardinality(S) <= BatchCap

ApiCancel(j) == CancelUnclaimed(j) /\ UNCHANGED <<leases, scanned, verdicts>>

ApiReset(j) == Reset(j) /\ UNCHANGED <<leases, scanned, verdicts>>

ApiResume(j) == Resume(j) /\ UNCHANGED <<leases, scanned, verdicts>>

ApiRetry(j) == Retry(j) /\ UNCHANGED <<leases, scanned, verdicts>>

ApiRetryBulk ==
    /\ \E status \in {"failed", "cancelled"}, S \in SUBSET Jobs :
          Batch(S) /\ RetryBulk(status, S)
    /\ UNCHANGED <<leases, scanned, verdicts>>

ExpireWaitingOnce ==
    /\ \E S \in SUBSET Jobs : Batch(S) /\ ExpireWaiting(S)
    /\ UNCHANGED <<leases, scanned, verdicts>>

-----------------------------------------------------------------------------
(* Time *)

BackoffElapses(j) ==
    /\ jobs[j].status = "queued" /\ ~jobs[j].due
    /\ Write(j, [jobs[j] EXCEPT !.due = TRUE])
    /\ UNCHANGED <<leases, scanned, verdicts>>

LeaseAges(j) ==
    /\ jobs[j].status = "running" /\ jobs[j].fresh
    /\ Write(j, [jobs[j] EXCEPT !.fresh = FALSE])
    /\ UNCHANGED <<leases, scanned, verdicts>>

DeadlinePasses(j) ==
    /\ jobs[j].deadline = "ahead"
    /\ Write(j, [jobs[j] EXCEPT !.deadline = "passed"])
    /\ UNCHANGED <<leases, scanned, verdicts>>

-----------------------------------------------------------------------------
Holder(j, a) ==
    \/ Complete(j, a)
    \/ FailPermanently(j, a)
    \/ CancelRunning(j, a)
    \/ AwaitInput(j, a)
    \/ Heartbeat(j, a)
    \/ HolderFails(j, a)
    \/ HolderDies(j, a)

Door(j) ==
    \/ Enqueue(j)
    \/ ApiCancel(j)
    \/ ApiReset(j)
    \/ ApiResume(j)
    \/ ApiRetry(j)

Time(j) ==
    \/ BackoffElapses(j)
    \/ LeaseAges(j)
    \/ DeadlinePasses(j)

Next ==
    \/ \E j \in Jobs : Claim(j) \/ Door(j) \/ Time(j)
    \/ \E l \in leases : Holder(l[1], l[2])
    \/ \E s \in scanned : SweepFail(s[1], s[2])
    \/ \E v \in verdicts : FailWrite(v)
    \/ RecoverStuck
    \/ ReapStale
    \/ ApiRetryBulk
    \/ ExpireWaitingOnce

Spec == Init /\ [][Next]_vars
-----------------------------------------------------------------------------
(* Correctness *)

\* A queued job always has an attempt left to spend and a claimed one never
\* overdraws its budget: the threshold of Storage::fail and the headroom that
\* reset, resume and retry grant agree, whatever ran between fail's read of
\* max_attempts and its write.
BudgetRespected ==
    \A j \in Jobs :
        /\ jobs[j].status = "queued" => jobs[j].attempts < jobs[j].maxAttempts
        /\ jobs[j].status \in {"running", "waiting"} =>
              jobs[j].attempts <= jobs[j].maxAttempts

\* Nothing left over from an earlier attempt can pass the fence of a new one:
\* when a claim advances the attempt, no lease, scanned row or undelivered
\* verdict carries the new number.
FreshAttempt ==
    [][\A j \in Jobs :
          jobs'[j].attempts # jobs[j].attempts =>
             /\ jobs'[j].attempts > jobs[j].attempts
             /\ <<j, jobs'[j].attempts>> \notin leases \cup scanned
             /\ \A v \in verdicts :
                   v.job = j => v.attempt # jobs'[j].attempts]_vars

\* A verdict still on its way to the table either has been overtaken or says
\* what the row it lands on allows.
VerdictsCurrent ==
    \A v \in verdicts :
        Fenced(v.job, v.attempt) /\ v.to = "queued" =>
            jobs[v.job].attempts < jobs[v.job].maxAttempts

\* Every lease, scanned row and pending verdict names an attempt that was
\* handed out; a job not yet inserted has handed out none.
HandedOut ==
    /\ \A j \in Jobs : jobs[j].status = "absent" => jobs[j].attempts = 0
    /\ \A l \in leases \cup scanned : l[2] <= jobs[l[1]].attempts
    /\ \A v \in verdicts : v.attempt <= jobs[v.job].attempts

\* The inductive invariant behind the two state properties.
QueueInv ==
    /\ TypeOK
    /\ BudgetRespected
    /\ TargetMutex
    /\ VerdictsCurrent
    /\ HandedOut

-----------------------------------------------------------------------------
(* Liveness: time passes, the scheduler keeps ticking (each tick reaps, and  *)
(* a row left out of a truncated sweep is the oldest one at a later one),    *)
(* and a storage call that started ends.                                     *)

Reap(j) == ReapStale /\ <<j, jobs[j].attempts>> \in scanned' \ scanned

Fairness ==
    /\ \A j \in Jobs :
          /\ WF_vars(LeaseAges(j))
          /\ SF_vars(Reap(j))
    /\ \A j \in Jobs, a \in 1..AttemptBound : WF_vars(SweepFail(j, a))
    /\ WF_vars(\E v \in verdicts : FailWrite(v))

FairSpec == Spec /\ Fairness

\* A running row whose holder died leaves that attempt: the reaper notices the
\* silent heartbeat and verdicts it.
OrphanRecovered ==
    \A j \in Jobs, a \in 1..AttemptBound :
        (Fenced(j, a) /\ <<j, a>> \notin leases) ~> ~Fenced(j, a)

-----------------------------------------------------------------------------
(* Statements of the repository that the table does not keep *)

\* storage.rs on fail: the error's text is derived where its type is read,
\* "which is what keeps the sentence and the type from describing different
\* failures".
CauseMatchesError ==
    \A j \in Jobs :
        jobs[j].status = "failed" /\ jobs[j].cause # 0 =>
            jobs[j].error = jobs[j].cause

\* storage.rs on resume: "a park costs no attempt: a job that waited an hour
\* for a human still has every retry it started with".  The attempt that the
\* answer starts has as many retries after it as the parked one had.
ParkKeepsRetries ==
    [][\A j \in Jobs :
          jobs[j].status = "waiting" /\ jobs'[j].status = "queued" =>
             jobs'[j].maxAttempts - (jobs'[j].attempts + 1)
                >= jobs[j].maxAttempts - jobs[j].attempts]_vars
=============================================================================

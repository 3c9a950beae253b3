--------------------------- MODULE ExecutorPlane ----------------------------
(***************************************************************************)
(* The coordinator's executor doors (crates/server/src/routes/executors.rs) *)
(* over the job table.  A door is several storage calls: a claim counts the *)
(* running rows and then claims; a checkpoint checks the ownership and then *)
(* saves; a finish checks the ownership, reads the row and then writes the  *)
(* outcome.  Executors may be slow, be declared dead, and be heard of       *)
(* again; a request may be sent twice, so that two handlers serve it.       *)
(***************************************************************************)
EXTENDS JobTable, FiniteSets

CONSTANTS
    Apps,           \* app names
    AppLimit,       \* AppLimit[app]: worker::app_limit, 0 is unlimited
    Capabilities,   \* Capabilities[e]: the apps an executor asks for, {} is any
    Eligible,       \* apps that declare ScrapeApp::executor
    MaxAttempts,    \* the max_attempts values enqueued
    MaxCalls        \* bound on the handlers in flight

ASSUME PlaneAssumption ==
    /\ AppLimit \in [Apps -> Nat]
    /\ Eligible \subseteq Apps
    /\ Capabilities \in [Executors -> SUBSET Apps]
    /\ MaxAttempts \subseteq Nat
    /\ MaxCalls \in Nat

VARIABLES
    polls,      \* polls[e]: whether a claim_job is in flight, the blocked apps it read
    granted,    \* <<e, j, a>>: what executors were handed, ever
    calls,      \* handlers of checkpoint and finish in flight
    ckpt,       \* ckpt[j]: the attempt whose checkpoint is stored, 0 if none
    finished    \* <<named, applied>>: attempts of outcomes that landed

vars == <<jobs, polls, granted, calls, ckpt, finished>>

\* `seen` is the attempt a finish handler read from the row.
Call == [door : {"checkpoint", "finish"}, exec : Executors, job : Jobs, attempt : Nat,
         pc : {"sent", "owned", "read"}, seen : Nat, copy : {1, 2}]

TypeOK ==
    /\ jobs \in [Jobs -> Row]
    /\ polls \in [Executors -> [open : BOOLEAN, blocked : SUBSET Apps]]
    /\ granted \subseteq Executors \X Jobs \X Nat
    /\ calls \subseteq Call
    /\ ckpt \in [Jobs -> Nat]
    /\ finished \subseteq Nat \X Nat

Closed == [open |-> FALSE, blocked |-> {}]

Init ==
    /\ jobs = [j \in Jobs |-> AbsentRow]
    /\ polls = [e \in Executors |-> Closed]
    /\ granted = {} /\ calls = {} /\ finished = {}
    /\ ckpt = [j \in Jobs |-> 0]

-----------------------------------------------------------------------------
(* POST /executors/claim *)

\* executor_running_counts
RunningOnExecutors(app) ==
    Cardinality({j \in Running : jobs[j].executor # Nobody /\ AppOf[j] = app})

\* A fault: an app is blocked only past its limit.
BlockedPastCap ==
    {app \in Apps : AppLimit[app] > 0 /\ RunningOnExecutors(app) > AppLimit[app]}

BlockedOverCap ==
    {app \in Apps : AppLimit[app] > 0 /\ RunningOnExecutors(app) >= AppLimit[app]}

EligibleApps(e) ==
    {app \in Eligible : Capabilities[e] = {} \/ app \in Capabilities[e]}

ClaimCounts(e) ==
    /\ ~polls[e].open
    /\ polls' = [polls EXCEPT ![e] = [open |-> TRUE, blocked |-> BlockedOverCap]]
    /\ UNCHANGED <<jobs, granted, calls, ckpt, finished>>

\* The claim, and load_restore, which discards a checkpoint that looks poisoned.
ClaimJob(e, j) ==
    /\ polls[e].open
    /\ ClaimNextForExecutor(j, e, EligibleApps(e), polls[e].blocked)
    /\ UNCHANGED ckpt \/ ckpt' = [ckpt EXCEPT ![j] = 0]
    /\ granted' = granted \cup {<<e, j, jobs[j].attempts + 1>>}
    /\ polls' = [polls EXCEPT ![e] = Closed]
    /\ UNCHANGED <<calls, finished>>

\* 204 No Content, or another turn of the long poll.
ClaimNothing(e) ==
    /\ polls[e].open
    /\ \A j \in Jobs : AppOf[j] \in EligibleApps(e) => ~Claimable(j, polls[e].blocked)
    /\ polls' = [polls EXCEPT ![e] = Closed]
    /\ UNCHANGED <<jobs, granted, calls, ckpt, finished>>

-----------------------------------------------------------------------------
(* POST /jobs/{id}/heartbeat, checkpoint and finish *)

\* job_claimed_by
Owned(c) == Fenced(c.job, c.attempt) /\ jobs[c.job].executor = c.exec

\* heartbeat_from: one fenced statement.
Heartbeat(e, j, a) ==
    /\ <<e, j, a>> \in granted
    /\ Fenced(j, a) /\ jobs[j].executor = e
    /\ Write(j, BeatRow(j))
    /\ UNCHANGED <<polls, granted, calls, ckpt, finished>>

Send(e, j, a) ==
    /\ Cardinality(calls) < MaxCalls
    /\ <<e, j, a>> \in granted
    /\ \E door \in {"checkpoint", "finish"}, copy \in {1, 2} :
          LET c == [door |-> door, exec |-> e, job |-> j, attempt |-> a,
                    pc |-> "sent", seen |-> 0, copy |-> copy]
          IN /\ \A d \in calls : [d EXCEPT !.pc = "sent", !.seen = 0] # c
             /\ calls' = calls \cup {c}
    /\ UNCHANGED <<jobs, polls, granted, ckpt, finished>>

Advance(c, pc, seen) ==
    calls' = (calls \ {c}) \cup {[c EXCEPT !.pc = pc, !.seen = seen]}

\* owned: 409 ends the handler.
CheckOwned(c) ==
    /\ c.pc = "sent"
    /\ IF Owned(c) THEN Advance(c, "owned", 0) ELSE calls' = calls \ {c}
    /\ UNCHANGED <<jobs, polls, granted, ckpt, finished>>

\* A fault: the save trusts the ownership check the handler made.
SaveUnfenced(c) ==
    /\ c.pc = "owned" /\ c.door = "checkpoint"
    /\ ckpt' = [ckpt EXCEPT ![c.job] = c.attempt]
    /\ calls' = calls \ {c}
    /\ UNCHANGED <<jobs, polls, granted, finished>>

\* executor_checkpoint: save_checkpoint, fenced on the attempt the body names.
SaveCheckpoint(c) ==
    /\ c.pc = "owned" /\ c.door = "checkpoint"
    /\ ckpt' = IF Fenced(c.job, c.attempt) THEN [ckpt EXCEPT ![c.job] = c.attempt] ELSE ckpt
    /\ calls' = calls \ {c}
    /\ UNCHANGED <<jobs, polls, granted, finished>>

\* executor_finish: storage.get, after the ownership check.
ReadJob(c) ==
    /\ c.pc = "owned" /\ c.door = "finish"
    /\ Advance(c, "read", jobs[c.job].attempts)
    /\ UNCHANGED <<jobs, polls, granted, ckpt, finished>>

\* Storage::fail; finalize drops the checkpoint of a job that is out of attempts.
FailJob(j) ==
    IF jobs[j].attempts < jobs[j].maxAttempts
    THEN Write(j, RequeuedRow(j, 0)) /\ UNCHANGED ckpt
    ELSE Write(j, FailedRow(j, 0)) /\ ckpt' = [ckpt EXCEPT ![j] = 0]

\* finish_from_executor, with the job as it was read.
FinishFromExecutor(c) ==
    /\ c.pc = "read"
    /\ calls' = calls \ {c}
    /\ IF Fenced(c.job, c.seen)
       THEN /\ finished' = finished \cup {<<c.attempt, c.seen>>}
            /\ \/ /\ Write(c.job, SucceededRow(c.job))
                  /\ ckpt' = [ckpt EXCEPT ![c.job] = 0]
               \/ FailJob(c.job)
       ELSE UNCHANGED <<jobs, ckpt, finished>>
    /\ UNCHANGED <<polls, granted>>

-----------------------------------------------------------------------------
(* The rest of the coordinator *)

Others == <<polls, granted, calls, ckpt, finished>>

Enqueue(j) == (\E max \in MaxAttempts : Insert(j, max, TRUE)) /\ UNCHANGED Others

LocalClaim(j) == ClaimNext(j, {}) /\ UNCHANGED Others

\* Jobs whose running attempt was handed to an executor.
OnExecutors == {j \in Running : \E e \in Executors : <<e, j, jobs[j].attempts>> \in granted}

LocalComplete(j) ==
    /\ j \in Running \ OnExecutors
    /\ Write(j, SucceededRow(j))
    /\ UNCHANGED Others

\* A lease goes silent, and the reaper verdicts it.
LeaseAges(j) ==
    /\ jobs[j].status = "running" /\ jobs[j].fresh
    /\ Write(j, [jobs[j] EXCEPT !.fresh = FALSE])
    /\ UNCHANGED Others

Reap(j) ==
    /\ j \in Stale
    /\ FailJob(j)
    /\ UNCHANGED <<polls, granted, calls, finished>>

BackoffElapses(j) ==
    /\ jobs[j].status = "queued" /\ ~jobs[j].due
    /\ Write(j, [jobs[j] EXCEPT !.due = TRUE])
    /\ UNCHANGED Others

Handle(c) == CheckOwned(c) \/ SaveCheckpoint(c) \/ ReadJob(c) \/ FinishFromExecutor(c)

Next ==
    \/ \E e \in Executors : ClaimCounts(e) \/ ClaimNothing(e) \/ \E j \in Jobs : ClaimJob(e, j)
    \/ \E g \in granted : Heartbeat(g[1], g[2], g[3]) \/ Send(g[1], g[2], g[3])
    \/ \E c \in calls : Handle(c)
    \/ \E j \in Jobs :
          \/ Enqueue(j)
          \/ LocalClaim(j)
          \/ LocalComplete(j)
          \/ LeaseAges(j)
          \/ Reap(j)
          \/ BackoffElapses(j)

Spec == Init /\ [][Next]_vars

-----------------------------------------------------------------------------
(* Correctness *)

\* The stored checkpoint never goes back to an earlier attempt's: a late or
\* repeated checkpoint call of an executor that was declared dead does not
\* replace the state the job will be resumed from.
CheckpointNeverRegresses ==
    [][\A j \in Jobs : ckpt'[j] # 0 => ckpt'[j] >= ckpt[j]]_vars

\* The stored checkpoint is of an attempt the job has had, and a row is born with none.
CheckpointInv ==
    \A j \in Jobs :
        /\ ckpt[j] <= jobs[j].attempts
        /\ jobs[j].status = "absent" => jobs[j].attempts = 0

\* executors.rs on blocked_over_cap: apps are held at their "concurrency limit
\* cluster-wide".  No more jobs of an app run on executors than its limit.
CapRespected ==
    \A app \in Apps :
        AppLimit[app] > 0 =>
            Cardinality({j \in OnExecutors : AppOf[j] = app}) <= AppLimit[app]

-----------------------------------------------------------------------------
(* Statements of the repository that the doors do not keep *)

\* routes/executors.rs: "the late `finish` from the process everyone thought
\* was dead matches no row and is refused": an outcome lands on the attempt
\* its report names.
FinishLandsOnItsAttempt == \A f \in finished : f[1] = f[2]

\* storage.rs on executor_running_counts: "Locally-claimed jobs (`executor_id
\* IS NULL`) are deliberately excluded".
LocalRunsExcluded ==
    \A j \in Running : jobs[j].executor # Nobody => j \in OnExecutors
=============================================================================

----------------------------- MODULE WorkerPool -----------------------------
(***************************************************************************)
(* One worker process (crates/server/src/worker.rs): the claim loop with    *)
(* its permits and per-app counts, one task per claimed attempt, the        *)
(* cancel-token registry the DELETE door fires, the cancel intents both     *)
(* sides consult, the durable checkpoints, the two-phase drain, a crash and *)
(* the boot sweep.                                                          *)
(*                                                                          *)
(* The statements of the job table are those of JobTable.  Storage::fail is *)
(* one step here; JobQueue explores what may run between its read and its   *)
(* write.  A task's step is whatever it does under one lock or in one       *)
(* statement; its pc names what it does next.                               *)
(***************************************************************************)
EXTENDS JobTable, FiniteSets

CONSTANTS
    Apps,           \* app names
    Concurrency,    \* worker.concurrency
    AppLimit,       \* AppLimit[app]: app_limit, 0 is unlimited
    MaxResumes,     \* worker.max_resume_failures
    MaxAttempts,    \* the max_attempts values enqueued
    Resettable      \* whether operators reset running jobs and executors claim

ASSUME ConcurrencyAssumption == Concurrency \in Nat \ {0}
ASSUME LimitAssumption == AppLimit \in [Apps -> Nat]
ASSUME AppAssumption == \A j \in Jobs : AppOf[j] \in Apps
ASSUME PoolAssumption == MaxResumes \in Nat /\ MaxAttempts \subseteq Nat
ASSUME ResettableAssumption == Resettable \in BOOLEAN

VARIABLES
    phase,      \* the process: up, closing, draining, suspending, sweeping, exiting, down, booting
    loop,       \* the claim loop: between claims, or holding a permit
    blocked,    \* the apps at their cap when the loop last looked
    permits,    \* free permits of the semaphore
    counts,     \* counts[app]: the in-memory map of running jobs per app
    tasks,      \* the spawned tasks
    registry,   \* job_cancels: the attempt whose token is registered, 0 if none
    fired,      \* <<j, a>>: tokens that were cancelled
    intents,    \* CANCEL_INTENTS
    sweep,      \* <<j, a>>: rows a boot or drain sweep has still to verdict
    remote,     \* <<j, a>>: attempts executors hold
    ckpt,       \* ckpt[j]: the checkpoint row, its attempt (0: no row) and resume_failures
    \* What happened, for the properties only:
    losses,     \* losses[j]: verdicts of failure written for j
    promised,   \* <<j, a, alone>>: undecided runs DELETE promised to cancel, and
                \* whether no other task of the job was about
    left        \* <<j, a>>: running rows that the drain's sweep was cut short of

slots == <<loop, blocked, permits, counts>>
tokens == <<registry, fired, intents>>
history == <<losses, promised, left>>
vars == <<jobs, phase, slots, tasks, tokens, sweep, remote, ckpt, history>>

\* A run that has not yet settled what it will do.
Undecided == {"spawned", "registered", "running", "stopped"}

\* The write a decided run is about to make.
Deciding == {"succeeding", "failing", "condemning", "refusing", "parking", "suspending",
             "cancelling"}

PC == Undecided \cup Deciding \cup {"clearing", "finalizing", "leaving", "releasing"}

Task == [job : Jobs, attempt : Nat, pc : PC]

TypeOK ==
    /\ jobs \in [Jobs -> Row]
    /\ phase \in {"up", "closing", "draining", "suspending", "sweeping", "exiting",
                  "down", "booting"}
    /\ loop \in {"idle", "holding", "capped", "ended"}
    /\ blocked \subseteq Apps
    /\ permits \in 0..Concurrency
    /\ counts \in [Apps -> 0..Concurrency]
    /\ tasks \subseteq Task
    /\ registry \in [Jobs -> Nat]
    /\ fired \subseteq Jobs \X Nat
    /\ intents \in [Jobs -> {"none", "User", "ShutdownSuspend"}]
    /\ sweep \subseteq Jobs \X Nat
    /\ remote \subseteq Jobs \X Nat
    /\ ckpt \in [Jobs -> [by : Nat, resumes : Nat]]
    /\ losses \in [Jobs -> Nat]
    /\ promised \subseteq Jobs \X Nat \X BOOLEAN
    /\ left \subseteq Jobs \X Nat

NoCheckpoint == [by |-> 0, resumes |-> 0]

\* An idle process that has booted on an empty database.
Init ==
    /\ jobs = [j \in Jobs |-> AbsentRow]
    /\ phase = "up"
    /\ loop = "idle" /\ blocked = {} /\ permits = Concurrency
    /\ counts = [app \in Apps |-> 0]
    /\ tasks = {}
    /\ registry = [j \in Jobs |-> 0] /\ fired = {}
    /\ intents = [j \in Jobs |-> "none"]
    /\ sweep = {} /\ remote = {}
    /\ ckpt = [j \in Jobs |-> NoCheckpoint]
    /\ losses = [j \in Jobs |-> 0] /\ promised = {} /\ left = {}

ShuttingDown == phase \notin {"up", "booting"}

Alive == phase \notin {"down", "booting"}

-----------------------------------------------------------------------------
(* The claim loop *)

LoopAcquires ==
    /\ phase = "up" /\ loop = "idle" /\ permits > 0
    /\ permits' = permits - 1
    /\ loop' = "holding"
    /\ UNCHANGED <<jobs, phase, blocked, counts, tasks, tokens, sweep, remote, ckpt, history>>

\* A fault: the cap is enforced one job late.
OverCapped == {app \in Apps : AppLimit[app] > 0 /\ counts[app] > AppLimit[app]}

\* blocked_apps
Capped == {app \in Apps : AppLimit[app] > 0 /\ counts[app] >= AppLimit[app]}

LoopReadsCaps ==
    /\ phase = "up" /\ loop = "holding"
    /\ blocked' = Capped
    /\ loop' = "capped"
    /\ UNCHANGED <<jobs, phase, permits, counts, tasks, tokens, sweep, remote, ckpt, history>>

LoopClaims(j) ==
    /\ loop = "capped"
    /\ ClaimNext(j, blocked)
    /\ counts' = [counts EXCEPT ![AppOf[j]] = @ + 1]
    /\ tasks' = tasks \cup {[job |-> j, attempt |-> jobs[j].attempts + 1, pc |-> "spawned"]}
    /\ loop' = "idle"
    /\ promised' = {<<p[1], p[2], p[3] /\ p[1] # j>> : p \in promised}
    /\ UNCHANGED <<phase, blocked, permits, tokens, sweep, remote, ckpt, losses, left>>

\* Nothing claimable, or the store answered with an error.
LoopClaimsNothing ==
    /\ loop = "capped"
    /\ permits' = permits + 1
    /\ loop' = "idle"
    /\ UNCHANGED <<jobs, phase, blocked, counts, tasks, tokens, sweep, remote, ckpt, history>>

Shutdown ==
    /\ phase = "up"
    /\ phase' = "closing"
    /\ UNCHANGED <<jobs, slots, tasks, tokens, sweep, remote, ckpt, history>>

\* A claim under way runs to its end; then the loop sees the token and breaks.
LoopBreaks ==
    /\ phase = "closing" /\ loop \in {"idle", "holding"}
    /\ permits' = IF loop = "holding" THEN permits + 1 ELSE permits
    /\ loop' = "ended"
    /\ phase' = "draining"
    /\ UNCHANGED <<jobs, blocked, counts, tasks, tokens, sweep, remote, ckpt, history>>

-----------------------------------------------------------------------------
(* One task *)

Goto(t, pc) == tasks' = (tasks \ {t}) \cup {[t EXCEPT !.pc = pc]}

Mine(t) == Fenced(t.job, t.attempt)

\* job_cancels.insert
Register(t) ==
    /\ t.pc = "spawned"
    /\ registry' = [registry EXCEPT ![t.job] = t.attempt]
    /\ Goto(t, "registered")
    /\ UNCHANGED <<jobs, phase, slots, fired, intents, sweep, remote, ckpt, history>>

\* A pre-run refusal: unregistered app, unusable VCR params, no cassette.
Refuse(t) ==
    /\ t.pc = "registered"
    /\ Goto(t, "refusing")
    /\ UNCHANGED <<jobs, phase, slots, tokens, sweep, remote, ckpt, history>>

\* load_restore: hand out the checkpoint and count it, or discard it as poisoned.
LoadRestore(t) ==
    /\ t.pc = "registered"
    /\ ckpt' = IF ckpt[t.job].by = 0 \/ MaxResumes = 0 THEN ckpt
               ELSE IF ckpt[t.job].resumes >= MaxResumes
               THEN [ckpt EXCEPT ![t.job] = NoCheckpoint]
               ELSE [ckpt EXCEPT ![t.job].resumes = @ + 1]
    /\ Goto(t, "running")
    /\ UNCHANGED <<jobs, phase, slots, tokens, sweep, remote, history>>

\* save_checkpoint: lands only while the attempt owns the running row.
SaveCheckpoint(t) ==
    /\ t.pc = "running" /\ Mine(t)
    /\ ckpt' = [ckpt EXCEPT ![t.job].by = t.attempt]
    /\ UNCHANGED <<jobs, phase, slots, tasks, tokens, sweep, remote, history>>

\* The biased select: a cancelled token wins over every other outcome.
Outcome(t) ==
    /\ t.pc = "running"
    /\ IF <<t.job, t.attempt>> \in fired
       THEN Goto(t, "stopped")
       ELSE \E pc \in {"succeeding", "failing", "condemning", "parking"} : Goto(t, pc)
    /\ UNCHANGED <<jobs, phase, slots, tokens, sweep, remote, ckpt, history>>

\* A fault: a fired token means whatever the process is doing.
CancelKindOfProcess(user) == IF ShuttingDown THEN "ShutdownSuspend" ELSE "User"

CancelKind(user) == IF ~user /\ ShuttingDown THEN "ShutdownSuspend" ELSE "User"

\* resolve_cancel consumes the intent, or records that the run suspends.
Resolve(t) ==
    LET kind == CancelKind(intents[t.job] = "User")
    IN /\ t.pc = "stopped"
       /\ intents' = [intents EXCEPT ![t.job] =
                         IF kind = "User" THEN "none" ELSE "ShutdownSuspend"]
       /\ Goto(t, IF kind = "User" THEN "cancelling" ELSE "suspending")
       /\ UNCHANGED <<jobs, phase, slots, registry, fired, sweep, remote, ckpt, history>>

\* A fault: the completion is guarded on the job id alone.
SucceedAnyway(t) ==
    /\ t.pc = "succeeding"
    /\ Write(t.job, SucceededRow(t.job)) /\ Goto(t, "clearing")
    /\ UNCHANGED <<phase, slots, tokens, sweep, remote, ckpt, history>>

\* complete, then the checkpoint is cleared.
Succeed(t) ==
    /\ t.pc = "succeeding"
    /\ IF Mine(t) THEN Write(t.job, SucceededRow(t.job)) /\ Goto(t, "clearing")
                  ELSE jobs' = jobs /\ Goto(t, "leaving")
    /\ UNCHANGED <<phase, slots, tokens, sweep, remote, ckpt, history>>

CancelRun(t) ==
    /\ t.pc = "cancelling"
    /\ IF Mine(t) THEN Write(t.job, CancelledRow(t.job)) /\ Goto(t, "clearing")
                  ELSE jobs' = jobs /\ Goto(t, "leaving")
    /\ UNCHANGED <<phase, slots, tokens, sweep, remote, ckpt, history>>

Park(t) ==
    /\ t.pc = "parking"
    /\ IF Mine(t) THEN Write(t.job, WaitingRow(t.job, FALSE)) ELSE jobs' = jobs
    /\ Goto(t, "leaving")
    /\ UNCHANGED <<phase, slots, tokens, sweep, remote, ckpt, history>>

\* The suspend arm: reset, which is guarded on the status alone.
Suspend(t) ==
    /\ t.pc = "suspending"
    /\ Reset(t.job) \/ (jobs[t.job].status # "running" /\ jobs' = jobs)
    /\ Goto(t, "leaving")
    /\ UNCHANGED <<phase, slots, tokens, sweep, remote, ckpt, history>>

Retryable(j) == jobs[j].attempts < jobs[j].maxAttempts

\* Storage::fail on the row the caller owns, and what it counts as a loss.
FailRow(j) ==
    /\ Write(j, IF Retryable(j) THEN RequeuedRow(j, 0) ELSE FailedRow(j, 0))
    /\ losses' = [losses EXCEPT ![j] = @ + 1]

Fail(t) ==
    /\ t.pc = "failing"
    /\ IF Mine(t) THEN FailRow(t.job) /\ Goto(t, IF Retryable(t.job) THEN "leaving" ELSE "finalizing")
                  ELSE UNCHANGED <<jobs, losses>> /\ Goto(t, "leaving")
    /\ UNCHANGED <<phase, slots, tokens, sweep, remote, ckpt, promised, left>>

\* fail_permanently: after a terminal error a stale run leaves at once, after
\* a pre-run refusal it goes on to finalize.
FailForGood(t) ==
    /\ t.pc \in {"condemning", "refusing"}
    /\ IF Mine(t)
       THEN /\ Write(t.job, FailedRow(t.job, 0))
            /\ losses' = [losses EXCEPT ![t.job] = @ + 1]
       ELSE UNCHANGED <<jobs, losses>>
    /\ Goto(t, IF Mine(t) \/ t.pc = "refusing" THEN "finalizing" ELSE "leaving")
    /\ UNCHANGED <<phase, slots, tokens, sweep, remote, ckpt, promised, left>>

\* The write answers with an error: the row is left running, and only the
\* failure arms go on to finalize.
WriteErrs(t) ==
    /\ t.pc \in Deciding
    /\ Goto(t, IF t.pc \in {"failing", "condemning", "refusing"} THEN "finalizing" ELSE "leaving")
    /\ UNCHANGED <<jobs, phase, slots, tokens, sweep, remote, ckpt, history>>

\* clear_checkpoint after a write that landed: no fence.
ClearCheckpoint(t) ==
    /\ t.pc = "clearing"
    /\ ckpt' = [ckpt EXCEPT ![t.job] = NoCheckpoint]
    /\ Goto(t, "leaving")
    /\ UNCHANGED <<jobs, phase, slots, tokens, sweep, remote, history>>

\* finalize reads the row again and drops the checkpoint of a dead job.
Finalize(t) ==
    /\ t.pc = "finalizing"
    /\ Goto(t, IF jobs[t.job].status \in {"failed", "cancelled"} THEN "clearing" ELSE "leaving")
    /\ UNCHANGED <<jobs, phase, slots, tokens, sweep, remote, ckpt, history>>

\* A fault: a run that no longer owns its row leaves its token behind.
LeaveOwned(t) ==
    /\ t.pc = "leaving"
    /\ registry' = IF registry[t.job] = t.attempt /\ jobs[t.job].attempts = t.attempt
                   THEN [registry EXCEPT ![t.job] = 0] ELSE registry
    /\ intents' = [intents EXCEPT ![t.job] = "none"]
    /\ Goto(t, "releasing")
    /\ UNCHANGED <<jobs, phase, slots, fired, sweep, remote, ckpt, history>>

\* Under the registry mutex: the entry goes if it is this attempt's, the
\* intent goes whatever the attempt.
Leave(t) ==
    /\ t.pc = "leaving"
    /\ registry' = IF registry[t.job] = t.attempt
                   THEN [registry EXCEPT ![t.job] = 0] ELSE registry
    /\ intents' = [intents EXCEPT ![t.job] = "none"]
    /\ Goto(t, "releasing")
    /\ UNCHANGED <<jobs, phase, slots, fired, sweep, remote, ckpt, history>>

Release(t) ==
    /\ t.pc = "releasing"
    /\ counts' = [counts EXCEPT ![AppOf[t.job]] = @ - 1]
    /\ permits' = permits + 1
    /\ tasks' = tasks \ {t}
    /\ UNCHANGED <<jobs, phase, loop, blocked, tokens, sweep, remote, ckpt, history>>

TaskStep(t) ==
    \/ Register(t)
    \/ Refuse(t)
    \/ LoadRestore(t)
    \/ SaveCheckpoint(t)
    \/ Outcome(t)
    \/ Resolve(t)
    \/ Succeed(t)
    \/ CancelRun(t)
    \/ Park(t)
    \/ Suspend(t)
    \/ Fail(t)
    \/ FailForGood(t)
    \/ WriteErrs(t)
    \/ ClearCheckpoint(t)
    \/ Finalize(t)
    \/ Leave(t)
    \/ Release(t)
-----------------------------------------------------------------------------
(* Doors: enqueue, DELETE /jobs/{id}, retry, reset, and the executor plane *)

Pooled == <<phase, slots, tasks, tokens, sweep, ckpt, history>>

Enqueue(j) ==
    /\ Alive
    /\ \E max \in MaxAttempts : Insert(j, max, TRUE)
    /\ UNCHANGED <<Pooled, remote>>

ApiCancel(j) == Alive /\ CancelUnclaimed(j) /\ UNCHANGED <<Pooled, remote>>

ApiRetry(j) == Alive /\ Retry(j) /\ UNCHANGED <<Pooled, remote>>

ApiResume(j) == Alive /\ Resume(j) /\ UNCHANGED <<Pooled, remote>>

ApiReset(j) == Resettable /\ Alive /\ Reset(j) /\ UNCHANGED <<Pooled, remote>>

BackoffElapses(j) ==
    /\ jobs[j].status = "queued" /\ ~jobs[j].due
    /\ Write(j, [jobs[j] EXCEPT !.due = TRUE])
    /\ UNCHANGED <<Pooled, remote>>

Holder(j, a) == {t \in tasks : t.job = j /\ t.attempt = a}

\* The running half of cancel_job: under the registry mutex, claim_user_cancel
\* and then the token.  The answer is `cancelled: true` unless a suspend was
\* recorded.
ApiCancelRunning(j) ==
    LET a == registry[j]
    IN /\ Alive /\ a # 0
       /\ fired' = fired \cup {<<j, a>>}
       /\ IF intents[j] = "ShutdownSuspend"
          THEN UNCHANGED <<intents, promised>>
          ELSE /\ intents' = [intents EXCEPT ![j] = "User"]
               /\ promised' = IF \E t \in Holder(j, a) : t.pc \in Undecided
                              THEN promised \cup {<<j, a, \A t \in tasks : t.job = j => t.attempt = a>>}
                              ELSE promised
       /\ UNCHANGED <<jobs, phase, slots, tasks, registry, sweep, remote, ckpt, losses, left>>

ExecutorClaims(j) ==
    /\ Resettable /\ phase = "up"
    /\ \E e \in Executors : ClaimNextForExecutor(j, e, {AppOf[j]}, {})
    /\ remote' = remote \cup {<<j, jobs[j].attempts + 1>>}
    /\ UNCHANGED Pooled

ExecutorFinishes(j, a) ==
    /\ <<j, a>> \in remote /\ Alive
    /\ IF Fenced(j, a) THEN Write(j, SucceededRow(j)) ELSE jobs' = jobs
    /\ remote' = remote \ {<<j, a>>}
    /\ UNCHANGED Pooled

-----------------------------------------------------------------------------
(* The drain, the end of the process, and the boot sweep *)

Idle == permits = Concurrency

\* Phase 1 or the suspend grace ends with every permit back.
DrainsCleanly ==
    /\ phase \in {"draining", "suspending"} /\ Idle
    /\ phase' = "exiting"
    /\ UNCHANGED <<jobs, slots, tasks, tokens, sweep, remote, ckpt, history>>

\* The clean window closes: every registered token is fired.
DrainSuspends ==
    /\ phase = "draining"
    /\ phase' = "suspending"
    /\ fired' = fired \cup {<<j, registry[j]>> : j \in {k \in Jobs : registry[k] # 0}}
    /\ UNCHANGED <<jobs, slots, tasks, registry, intents, sweep, remote, ckpt, history>>

AllRunning == {<<j, jobs[j].attempts>> : j \in Running}

\* A fault: the deadline ends the drain with nothing recovered.
DrainGivesUp ==
    /\ phase = "suspending"
    /\ phase' = "exiting"
    /\ UNCHANGED <<jobs, slots, tasks, tokens, sweep, remote, ckpt, history>>

\* A fault: the drain waits for every permit, however long that takes.
DrainWaits ==
    /\ phase = "suspending" /\ Idle
    /\ phase' = "sweeping"
    /\ sweep' = AllRunning
    /\ UNCHANGED <<jobs, slots, tasks, tokens, remote, ckpt, history>>

\* The grace closes: recover_stuck_with_reason scans every running row.
DrainSweeps ==
    /\ phase = "suspending"
    /\ phase' = "sweeping"
    /\ sweep' = AllRunning
    /\ UNCHANGED <<jobs, slots, tasks, tokens, remote, ckpt, history>>

SweepVerdict(j, a) ==
    /\ <<j, a>> \in sweep
    /\ IF Fenced(j, a) THEN FailRow(j) ELSE UNCHANGED <<jobs, losses>>
    /\ sweep' = sweep \ {<<j, a>>}
    /\ UNCHANGED <<phase, slots, tasks, tokens, remote, ckpt, promised, left>>

\* RECOVERY_SWEEP_LIMIT, RECOVERY_SWEEP_BUDGET, or a statement that answers with an error:
\* the rest of the rows get no verdict.  The drain goes on to its end all the same; a boot
\* goes on after a cut, and after an error it is a Crash.
SweepCut ==
    /\ sweep # {}
    /\ left' = IF phase = "sweeping" THEN sweep \cup left ELSE left
    /\ sweep' = {}
    /\ UNCHANGED <<jobs, phase, slots, tasks, tokens, remote, ckpt, losses, promised>>

SweepEnds ==
    /\ sweep = {} /\ phase \in {"sweeping", "booting"}
    /\ phase' = IF phase = "booting" THEN "up" ELSE "exiting"
    /\ UNCHANGED <<jobs, slots, tasks, tokens, sweep, remote, ckpt, history>>

\* The process is gone, and with it everything that was in memory.
Gone ==
    /\ phase' = "down"
    /\ loop' = "idle" /\ blocked' = {} /\ permits' = Concurrency
    /\ counts' = [app \in Apps |-> 0]
    /\ tasks' = {}
    /\ registry' = [j \in Jobs |-> 0] /\ fired' = {}
    /\ intents' = [j \in Jobs |-> "none"]
    /\ sweep' = {} /\ left' = {}
    /\ UNCHANGED <<jobs, remote, ckpt, losses, promised>>

Exit == phase = "exiting" /\ Gone

Crash == phase # "down" /\ Gone

\* run: recover_stuck before anything else starts.
Boot ==
    /\ phase = "down"
    /\ phase' = "booting"
    /\ sweep' = AllRunning
    /\ UNCHANGED <<jobs, slots, tasks, tokens, remote, ckpt, history>>

Loop ==
    \/ LoopAcquires
    \/ LoopReadsCaps
    \/ \E j \in Jobs : LoopClaims(j)
    \/ LoopClaimsNothing
    \/ LoopBreaks

Door(j) ==
    \/ Enqueue(j)
    \/ ApiCancel(j)
    \/ ApiCancelRunning(j)
    \/ ApiRetry(j)
    \/ ApiResume(j)
    \/ ApiReset(j)
    \/ ExecutorClaims(j)
    \/ BackoffElapses(j)

Drain ==
    \/ DrainsCleanly
    \/ DrainSuspends
    \/ DrainSweeps
    \/ \E s \in sweep : SweepVerdict(s[1], s[2])
    \/ SweepCut
    \/ SweepEnds
    \/ Exit

Next ==
    \/ Loop
    \/ \E t \in tasks : TaskStep(t)
    \/ \E j \in Jobs : Door(j)
    \/ \E l \in remote : ExecutorFinishes(l[1], l[2])
    \/ Drain
    \/ Shutdown
    \/ Crash
    \/ Boot

Spec == Init /\ [][Next]_vars

-----------------------------------------------------------------------------
(* Correctness *)

\* Every permit is free, in the loop's hand or with exactly one task, and the
\* per-app counts are the tasks of the app: a drain that gets every permit
\* back has no run left, and the app cap is a cap on runs.
SlotsAccounted ==
    /\ permits + Cardinality(tasks) + (IF loop \in {"holding", "capped"} THEN 1 ELSE 0)
          = Concurrency
    /\ \A app \in Apps :
          /\ counts[app] = Cardinality({t \in tasks : AppOf[t.job] = app})
          /\ AppLimit[app] > 0 => counts[app] <= AppLimit[app]

\* The registry outlives no run: whatever token DELETE finds belongs to a task
\* that has still to leave, also when attempts of one job overlap.
NoGhostToken ==
    \A j \in Jobs : registry[j] # 0 =>
        \E t \in Holder(j, registry[j]) : t.pc \notin {"spawned", "releasing"}

\* When the drain is over no task of this process can still write an outcome: its row is
\* settled, requeued or another attempt's, or it is one of those the sweep was cut short
\* of.  Until then every row that a task of this process owns is before the sweep or left
\* behind by it: none slips through between the suspend grace and the scan.
DrainSettlesAll ==
    \A t \in tasks : Mine(t) =>
        /\ phase = "exiting" => <<t.job, t.attempt>> \in left
        /\ phase = "sweeping" => <<t.job, t.attempt>> \in sweep \cup left

\* Attempts of one job have numbers of their own, none ahead of the row.
AttemptsApart ==
    \A t \in tasks :
        /\ t.attempt <= jobs[t.job].attempts /\ jobs[t.job].status # "absent"
        /\ \A u \in tasks : u.job = t.job /\ u.attempt = t.attempt => u = t

\* The loop claims only in a process that has booted and is not draining yet, and
\* what it read of the caps is no older than its own last claim.
LoopInPhase ==
    /\ phase \in {"draining", "suspending", "sweeping", "exiting"} => loop = "ended"
    /\ phase \in {"down", "booting"} => loop = "idle" /\ tasks = {}
    /\ loop = "capped" =>
          \A app \in Apps \ blocked : AppLimit[app] > 0 => counts[app] < AppLimit[app]

Honoured(t) == t.pc \notin {"succeeding", "failing", "parking", "suspending"}

\* A promise to cancel the sole run of a job has its token fired and its intent
\* recorded for as long as the run has not decided, and no run beside it could
\* have used the intent up.
PromiseStands ==
    \A t \in tasks :
        <<t.job, t.attempt, TRUE>> \in promised =>
            /\ \A u \in tasks : u.job = t.job => u = t
            /\ <<t.job, t.attempt>> \in fired
            /\ t.pc \in Undecided => intents[t.job] = "User"
            /\ Honoured(t)

\* What holds of the pool at rest between any two steps: every permit accounted for,
\* tokens that belong to a task, promises that stand, and nothing of this process to write
\* once the drain is over but what its sweep was cut short of.  This conjunction is
\* inductive.
PoolInv ==
    /\ TypeOK /\ IsFiniteSet(tasks)
    /\ AttemptsApart
    /\ SlotsAccounted
    /\ LoopInPhase
    /\ NoGhostToken
    /\ DrainSettlesAll
    /\ PromiseStands

\* The promise of DELETE to a run that has not decided, while no other task of
\* the job is about: the run does not go on to succeed, retry, park or
\* suspend, also when the drain fires the same token first.
SoleCancelWins ==
    \A t \in tasks : <<t.job, t.attempt, TRUE>> \in promised => Honoured(t)

\* A task whose attempt was superseded, by a sweep, a reset or a later claim,
\* changes no row, whatever outcome it was about to write.  The suspend arm is
\* left out: see StaleWriteFenced.
StaleTaskHarmless ==
    [][\A t \in tasks :
          TaskStep(t) /\ ~Mine(t) /\ t.pc # "suspending" => jobs' = jobs]_vars

-----------------------------------------------------------------------------
(* Liveness: the loop and the drain's own timers run; nothing is assumed of   *)
(* the tasks, which may be wedged.                                            *)

Fairness ==
    /\ WF_vars(LoopClaimsNothing \/ \E j \in Jobs : LoopClaims(j))
    /\ WF_vars(LoopBreaks)
    /\ WF_vars(Drain)

FairSpec == Spec /\ Fairness

\* A shutdown ends, with or without the cooperation of the running apps.
ShutdownEnds == phase = "closing" ~> phase = "down"

-----------------------------------------------------------------------------
(* Statements of the repository that the worker does not keep *)

\* docs/features/runtime.md on the stale-write fence, without exception: a
\* superseded attempt's write matches no row.
StaleWriteFenced ==
    [][\A t \in tasks : TaskStep(t) /\ ~Mine(t) => jobs' = jobs]_vars

\* docs/features/runtime.md on shutdown: "whatever is still `running` at the deadline goes
\* through the recovery verdict below [...] instead of being stranded".
DrainStrandsNothing == phase = "exiting" => \A t \in tasks : ~Mine(t)

\* routes/jobs.rs on DELETE: "A cancel that reaches a run before it resolves
\* still wins - user intent outranks the drain".
UserCancelWins ==
    \A t \in tasks, alone \in BOOLEAN :
        <<t.job, t.attempt, alone>> \in promised => Honoured(t)

\* worker.rs on claim_user_cancel: "`User` - the run has not decided yet, so
\* the recorded intent wins and the job will be cancelled".
CancelAnswerTrue ==
    [][\A j \in Jobs :
          ApiCancelRunning(j) /\ intents[j] # "ShutdownSuspend" =>
             \A t \in Holder(j, registry[j]) : Honoured(t)]_vars

\* worker.rs on the token registry: "Keyed by attempt so an overlapping
\* re-claim (after a reset/reap) doesn't clobber or get clobbered by this
\* task's registry entry".
LiveTokenRegistered ==
    \A t \in tasks : t.pc = "running" /\ Mine(t) => registry[t.job] = t.attempt

\* worker.rs on load_restore: "a completing attempt clears the row, so the
\* counter only ever reaches `max` through repeated failures".
PoisonMeansFailures ==
    \A j \in Jobs :
        ckpt[j].by # 0 /\ ckpt[j].resumes >= MaxResumes /\ jobs[j].status = "queued" =>
            losses[j] >= MaxResumes

\* worker.rs on finalize: "drop it so the checkpoints table only holds live,
\* resumable work": what a task drops is never the live attempt's checkpoint.
LiveCheckpointKept ==
    [][\A t \in tasks :
          ClearCheckpoint(t) => ~(\E l \in tasks : l.attempt # t.attempt /\ l.job = t.job
                                     /\ Mine(l) /\ ckpt[l.job].by = l.attempt)]_vars
=============================================================================

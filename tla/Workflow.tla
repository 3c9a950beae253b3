------------------------------ MODULE Workflow ------------------------------
(***************************************************************************)
(* One run of a declared plan (crates/server/src/workflow.rs over the       *)
(* workflow_* tables of storage.rs).  The steps of a plan are ordinary      *)
(* jobs.  A run is driven by activations of `advance`: one when it is       *)
(* opened, and one from the terminal hook of every step job.  Activations   *)
(* hold no lock: they read the rows, decide on what they read, and write    *)
(* with guarded UPDATEs, so any number of them interleave with each other,  *)
(* with DELETE of the run, of its jobs and of its plan, and with crashes.   *)
(***************************************************************************)
EXTENDS Integers, FiniteSets, FiniteSetsExt

CONSTANTS
    Steps,      \* step names, as numbers: their order is the order of the BTreeMap
    After,      \* After[s]: StepSpec::after, the join barrier
    OnFailure,  \* "fail_fast" or "continue"
    Refusable,  \* steps whose params may fail to render or to validate
    Envelope,   \* WorkflowRun::budget_usd, 0 stands for none
    MaxCost,    \* bound on what one job spends
    Events,     \* what may happen to the run from outside
    MaxCrashes  \* bound on the crashes

ASSUME WorkflowAssumption ==
    /\ Steps \subseteq Nat \ {0} /\ IsFiniteSet(Steps)
    /\ After \in [Steps -> SUBSET Steps]
    /\ OnFailure \in {"fail_fast", "continue"}
    /\ Refusable \subseteq Steps
    /\ Envelope \in Nat /\ MaxCost \in Nat /\ MaxCrashes \in Nat
    /\ Events \subseteq {"delete_job", "delete_run", "delete_plan", "fault", "crash", "prompt",
                     "upgrade"}

VARIABLES
    run,        \* workflow_runs.status, with who closed it
    plan,       \* the stored definition: "valid", "stale" (parse_spec rejects it), "deleted"
    cells,      \* cells[s]: workflow_steps.status
    link,       \* steps whose workflow_steps.job_id is recorded
    job,        \* job[s]: the job of the step, by its idempotency key
    cost,       \* cost[s]: cost_events of the job
    grant,      \* grant[s]: jobs.budget_usd, the ceiling the job carries
    spent,      \* workflow_runs.spent_usd
    stopping,   \* steps whose running job has had its cancellation token fired
    hooks,      \* steps whose job has ended and whose finalize is about to call the hook
    drivers,    \* drivers[d]: an activation of advance; 0 opens the run, s is the hook of s
    canceller,  \* the DELETE /workflow-runs handler
    crashes

tables == <<run, plan, cells, link>>
jobside == <<job, cost, grant, stopping, hooks>>
vars == <<run, plan, cells, link, job, cost, grant, spent, stopping, hooks, drivers,
          canceller, crashes>>

OpenState == {"pending", "queued"}
BadEnding == {"failed", "cancelled", "skipped"}
StepState == OpenState \cup BadEnding \cup {"succeeded"}
JobEnded == {"succeeded", "failed", "cancelled"}
Drivers == Steps \cup {0}

\* A driver between activations.
Idle == [pc |-> "idle", states |-> [s \in Steps |-> "absent"], spent |-> 0, sum |-> 0,
         todo |-> {}, did |-> {}, rounds |-> 0]
NoCancel == [pc |-> "idle", todo |-> {}, linked |-> {}]

Driver ==
    [pc : {"idle", "seed", "sum", "write", "read", "rows", "skip", "ready", "claimed", "linking"},
     states : [Steps -> StepState \cup {"absent"}], spent : Nat, sum : Nat,
     todo : SUBSET Steps, did : SUBSET {"skipped", "failed", "enqueued"}, rounds : Nat]

TypeOK ==
    /\ run \in [status : {"none", "running", "succeeded", "failed", "cancelled"},
                by : {"", "verdict", "deleted", "stale", "cancel"}]
    /\ plan \in {"valid", "stale", "deleted"}
    /\ cells \in [Steps -> StepState \cup {"absent"}]
    /\ link \subseteq Steps /\ stopping \subseteq Steps /\ hooks \subseteq Steps
    /\ job \in [Steps -> JobEnded \cup {"none", "queued", "running"}]
    /\ cost \in [Steps -> 0..MaxCost] /\ grant \in [Steps -> Nat] /\ spent \in Nat
    /\ drivers \in [Drivers -> Driver]
    /\ canceller \in [pc : {"idle", "job", "cell", "done"}, todo : SUBSET Steps,
                      linked : SUBSET Steps]
    /\ crashes \in 0..MaxCrashes

Init ==
    /\ run = [status |-> "none", by |-> ""]
    /\ plan = "valid"
    /\ cells = [s \in Steps |-> "absent"]
    /\ link = {} /\ stopping = {} /\ hooks = {}
    /\ job = [s \in Steps |-> "none"]
    /\ cost = [s \in Steps |-> 0] /\ grant = [s \in Steps |-> 0] /\ spent = 0
    /\ drivers = [d \in Drivers |-> Idle]
    /\ canceller = NoCancel
    /\ crashes = 0

-----------------------------------------------------------------------------
(* The barrier, as functions of the states a driver read. *)

\* A fault: a step is ready as soon as one upstream has succeeded.
ReadyOnAny(states) ==
    {s \in Steps : /\ states[s] = "pending"
                   /\ After[s] = {} \/ \E dep \in After[s] : states[dep] = "succeeded"}

ReadySteps(states) ==
    {s \in Steps : /\ states[s] = "pending"
                   /\ \A dep \in After[s] : states[dep] = "succeeded"}

EndedBadly(states) == {s \in Steps : states[s] \in BadEnding}

\* A fault: only failures and cancellations cascade, a skip does not.
CascadeOnce(states) ==
    {s \in Steps : /\ states[s] = "pending"
                   /\ \E dep \in After[s] : states[dep] \in {"failed", "cancelled"}}

\* A fault: `continue` is read as `fail_fast`.
CascadeAll(states) ==
    {s \in Steps : states[s] = "pending" /\ EndedBadly(states) # {}}

CascadeSkips(states) ==
    {s \in Steps : /\ states[s] = "pending"
                   /\ EndedBadly(states) # {}
                   /\ \/ OnFailure = "fail_fast"
                      \/ After[s] \cap EndedBadly(states) # {}}

\* A fault: a step whose job is queued does not hold the run open.
VerdictEarly(states) ==
    IF \E s \in Steps : states[s] = "pending" THEN "running"
    ELSE IF \E s \in Steps : states[s] \in {"failed", "skipped"} THEN "failed"
    ELSE IF \E s \in Steps : states[s] = "cancelled" THEN "cancelled"
    ELSE "succeeded"

RunVerdict(states) ==
    IF \E s \in Steps : states[s] \in OpenState THEN "running"
    ELSE IF \E s \in Steps : states[s] \in {"failed", "skipped"} THEN "failed"
    ELSE IF \E s \in Steps : states[s] = "cancelled" THEN "cancelled"
    ELSE "succeeded"

\* A fault: what the run has already spent is not taken off the envelope.
WholeEnvelope(already) == Envelope

\* What is left of the envelope; 0 refuses the step.
StepBudget(already) == IF Envelope > already THEN Envelope - already ELSE 0

RoundLimit == Cardinality(Steps) * 3 + 4

-----------------------------------------------------------------------------
(* The guarded writes of storage.rs. *)

FinishStep(s, status) ==
    cells' = IF cells[s] \in OpenState THEN [cells EXCEPT ![s] = status] ELSE cells

FinishRun(status, by) ==
    run' = IF run.status = "running" THEN [status |-> status, by |-> by] ELSE run

\* A fault: the claim is not guarded on the step still being pending.
ClaimAnyway(s) == cells' = [cells EXCEPT ![s] = "queued"]

ClaimStep(s) == cells[s] = "pending" /\ cells' = [cells EXCEPT ![s] = "queued"]

-----------------------------------------------------------------------------
(* start_run *)

Goto(d, pc) == drivers' = [drivers EXCEPT ![d].pc = pc]
Return(d) == drivers' = [drivers EXCEPT ![d] = Idle]

CreateRun ==
    /\ run.status = "none" /\ plan = "valid"
    /\ run' = [status |-> "running", by |-> ""]
    /\ Goto(0, "seed")
    /\ UNCHANGED <<plan, cells, link, jobside, spent, canceller, crashes>>

InsertSteps ==
    /\ drivers[0].pc = "seed"
    /\ cells' = [s \in Steps |-> "pending"]
    /\ Goto(0, "read")
    /\ UNCHANGED <<run, plan, link, jobside, spent, canceller, crashes>>

-----------------------------------------------------------------------------
(* on_step_terminal *)

\* The lookup by job_id and the guarded finish.  A job whose id is not
\* recorded is not recognised as a step; a closed cell ends the hook.
HookLands(s) ==
    /\ s \in hooks /\ drivers[s].pc = "idle"
    /\ hooks' = hooks \ {s}
    /\ IF s \in link /\ cells[s] \in OpenState
         THEN /\ FinishStep(s, job[s])
              /\ Goto(s, "sum")
         ELSE UNCHANGED <<cells, drivers>>
    /\ UNCHANGED <<run, plan, link, job, cost, grant, spent, stopping, canceller, crashes>>

\* refresh_workflow_spend sums the ledger, then writes the total.
HookSums(s) ==
    /\ drivers[s].pc = "sum"
    /\ drivers' = [drivers EXCEPT ![s].pc = "write",
                                  ![s].sum = MapThenSumSet(LAMBDA x : cost[x], Steps)]
    /\ UNCHANGED <<tables, jobside, spent, canceller, crashes>>

HookWrites(s) ==
    /\ drivers[s].pc = "write"
    /\ spent' = drivers[s].sum
    /\ Goto(s, "read")
    /\ UNCHANGED <<tables, jobside, canceller, crashes>>

\* A storage error in the hook is logged and swallowed.
HookFails(s) ==
    /\ "fault" \in Events
    /\ s \in hooks
    /\ hooks' = hooks \ {s}
    /\ UNCHANGED <<tables, job, cost, grant, stopping, spent, drivers, canceller, crashes>>

-----------------------------------------------------------------------------
(* advance *)

\* The run and the plan are read first, the rows after.  A run whose plan is
\* gone, or no longer validates, is closed on the spot.
AdvanceReads(d) ==
    /\ drivers[d].pc = "read"
    /\ \/ /\ run.status # "running"
          /\ Return(d)
          /\ UNCHANGED run
       \/ /\ run.status = "running" /\ plan # "valid"
          /\ FinishRun("failed", plan)
          /\ Return(d)
       \/ /\ run.status = "running" /\ plan = "valid"
          /\ drivers' = [drivers EXCEPT ![d].pc = "rows", ![d].spent = spent]
          /\ UNCHANGED run
    /\ UNCHANGED <<plan, cells, link, jobside, spent, canceller, crashes>>

\* The plan is evaluated against one reading of the rows; past the limit on
\* rounds the activation gives up.
AdvanceDecides(d) ==
    /\ drivers[d].pc = "rows"
    /\ LET skips == CascadeSkips(cells)
       IN  IF drivers[d].rounds >= RoundLimit
             THEN Return(d)
             ELSE drivers' = [drivers EXCEPT
                    ![d] = [drivers[d] EXCEPT
                      !.pc = IF skips # {} THEN "skip" ELSE "ready",
                      !.states = cells,
                      !.todo = IF skips # {} THEN skips ELSE ReadySteps(cells),
                      !.did = {},
                      !.rounds = drivers[d].rounds + 1]]
    /\ UNCHANGED <<tables, jobside, spent, canceller, crashes>>

Current(d) == Min(drivers[d].todo)

SkipStep(d) ==
    /\ drivers[d].pc = "skip" /\ drivers[d].todo # {}
    /\ LET s == Current(d)
       IN  /\ FinishStep(s, "skipped")
           /\ drivers' = [drivers EXCEPT
                ![d].todo = @ \ {s},
                ![d].did = IF cells[s] \in OpenState THEN @ \cup {"skipped"} ELSE @]
    /\ UNCHANGED <<run, plan, link, jobside, spent, canceller, crashes>>

\* Another round if a row changed; else on with the states already read.
SkipsDone(d) ==
    /\ drivers[d].pc = "skip" /\ drivers[d].todo = {}
    /\ drivers' = IF "skipped" \in drivers[d].did
         THEN [drivers EXCEPT ![d].pc = "read"]
         ELSE [drivers EXCEPT ![d].pc = "ready", ![d].todo = ReadySteps(drivers[d].states)]
    /\ UNCHANGED <<tables, jobside, spent, canceller, crashes>>

\* The step could not be created: its cell fails, if it is still open.
FailStep(d, s) ==
    /\ FinishStep(s, "failed")
    /\ drivers' = [drivers EXCEPT
         ![d].pc = "ready",
         ![d].todo = @ \ {s},
         ![d].did = IF cells[s] \in OpenState THEN @ \cup {"failed"} ELSE @]

Exhausted(d) == Envelope > 0 /\ StepBudget(drivers[d].spent) = 0

RefuseStep(d) ==
    /\ drivers[d].pc = "ready" /\ drivers[d].todo # {}
    /\ Current(d) \in Refusable \/ Exhausted(d)
    /\ FailStep(d, Current(d))
    /\ UNCHANGED <<run, plan, link, jobside, spent, canceller, crashes>>

StartStep(d) ==
    /\ drivers[d].pc = "ready" /\ drivers[d].todo # {} /\ ~Exhausted(d)
    /\ ClaimStep(Current(d))
    /\ Goto(d, "claimed")
    /\ UNCHANGED <<run, plan, link, jobside, spent, canceller, crashes>>

\* Another activation claimed it first.
StepTaken(d) ==
    /\ drivers[d].pc = "ready" /\ drivers[d].todo # {} /\ ~Exhausted(d)
    /\ cells[Current(d)] # "pending"
    /\ drivers' = [drivers EXCEPT ![d].todo = @ \ {Current(d)}]
    /\ UNCHANGED <<tables, jobside, spent, canceller, crashes>>

\* enqueue_dedup_as under the key wf:run:step.
EnqueueJob(d) ==
    /\ drivers[d].pc = "claimed"
    /\ LET s == Current(d)
       IN  /\ job' = [job EXCEPT ![s] = IF @ = "none" THEN "queued" ELSE @]
           /\ grant' = [grant EXCEPT ![s] =
                IF job[s] = "none" THEN StepBudget(drivers[d].spent) ELSE @]
    /\ Goto(d, "linking")
    /\ UNCHANGED <<tables, cost, stopping, hooks, spent, canceller, crashes>>

LinkJob(d) ==
    /\ drivers[d].pc = "linking"
    /\ link' = link \cup {Current(d)}
    /\ drivers' = [drivers EXCEPT ![d].pc = "ready", ![d].todo = @ \ {Current(d)},
                                  ![d].did = @ \cup {"enqueued"}]
    /\ UNCHANGED <<run, plan, cells, jobside, spent, canceller, crashes>>

\* A storage error in the enqueue, or in recording the job id.
EnqueueFails(d) ==
    /\ "fault" \in Events
    /\ drivers[d].pc \in {"claimed", "linking"}
    /\ FailStep(d, Current(d))
    /\ UNCHANGED <<run, plan, link, jobside, spent, canceller, crashes>>

RoundEnds(d) ==
    /\ drivers[d].pc = "ready" /\ drivers[d].todo = {}
    /\ \/ /\ "failed" \in drivers[d].did
          /\ Goto(d, "read")
          /\ UNCHANGED run
       \/ /\ drivers[d].did = {"enqueued"}
          /\ Return(d)
          /\ UNCHANGED run
       \/ /\ drivers[d].did = {}
          /\ LET verdict == RunVerdict(drivers[d].states)
             IN  IF verdict = "running" THEN UNCHANGED run ELSE FinishRun(verdict, "verdict")
          /\ Return(d)
    /\ UNCHANGED <<plan, cells, link, jobside, spent, canceller, crashes>>

Advance(d) ==
    \/ AdvanceReads(d) \/ AdvanceDecides(d)
    \/ SkipStep(d) \/ SkipsDone(d)
    \/ RefuseStep(d) \/ StartStep(d) \/ StepTaken(d)
    \/ EnqueueJob(d) \/ LinkJob(d)
    \/ RoundEnds(d)

-----------------------------------------------------------------------------
(* The jobs of the steps, as the worker runs them. *)

JobStarts(s) ==
    /\ job[s] = "queued"
    /\ job' = [job EXCEPT ![s] = "running"]
    /\ UNCHANGED <<tables, cost, grant, stopping, hooks, spent, drivers, canceller, crashes>>

\* The outcome is committed, and finalize follows.  A job spends within its ceiling.
JobEnds(s) ==
    /\ job[s] = "running"
    /\ s \in link \/ "prompt" \in Events
    /\ \E status \in {"succeeded", "failed"} : job' = [job EXCEPT ![s] = status]
    /\ \E c \in 0..MaxCost :
         /\ Envelope > 0 => c <= grant[s]
         /\ cost' = [cost EXCEPT ![s] = c]
    /\ hooks' = hooks \cup {s}
    /\ stopping' = stopping \ {s}
    /\ UNCHANGED <<tables, grant, spent, drivers, canceller, crashes>>

\* The cancel arm of the worker returns without finalize.
JobStops(s) ==
    /\ s \in stopping /\ job[s] = "running"
    /\ job' = [job EXCEPT ![s] = "cancelled"]
    /\ stopping' = stopping \ {s}
    /\ UNCHANGED <<tables, cost, grant, hooks, spent, drivers, canceller, crashes>>

\* DELETE /jobs/{id}: a queued job is cancelled in place, a running one is signalled.
CancelJob(s) ==
    /\ job' = IF job[s] = "queued" THEN [job EXCEPT ![s] = "cancelled"] ELSE job
    /\ stopping' = IF job[s] = "running" THEN stopping \cup {s} ELSE stopping

DeleteJob(s) ==
    /\ "delete_job" \in Events
    /\ job[s] \in {"queued", "running"} /\ s \notin stopping
    /\ CancelJob(s)
    /\ UNCHANGED <<tables, cost, grant, hooks, spent, drivers, canceller, crashes>>

-----------------------------------------------------------------------------
(* cancel_run, DELETE of the plan, and a crash with the boot sweep. *)

DeleteRun ==
    /\ "delete_run" \in Events
    /\ run.status # "none" /\ canceller.pc = "idle"
    /\ canceller' = [pc |-> "job", todo |-> {s \in Steps : cells[s] \in OpenState},
                     linked |-> link]
    /\ UNCHANGED <<tables, jobside, spent, drivers, crashes>>

CancelStepJob ==
    /\ canceller.pc = "job" /\ canceller.todo # {}
    /\ LET s == Min(canceller.todo)
       IN  IF s \in canceller.linked THEN CancelJob(s) ELSE UNCHANGED <<job, stopping>>
    /\ canceller' = [canceller EXCEPT !.pc = "cell"]
    /\ UNCHANGED <<tables, cost, grant, hooks, spent, drivers, crashes>>

CancelStepCell ==
    /\ canceller.pc = "cell"
    /\ FinishStep(Min(canceller.todo), "cancelled")
    /\ canceller' = [canceller EXCEPT !.pc = "job", !.todo = @ \ {Min(@)}]
    /\ UNCHANGED <<run, plan, link, jobside, spent, drivers, crashes>>

CancelRunRow ==
    /\ canceller.pc = "job" /\ canceller.todo = {}
    /\ FinishRun("cancelled", "cancel")
    /\ canceller' = [canceller EXCEPT !.pc = "done"]
    /\ UNCHANGED <<plan, cells, link, jobside, spent, drivers, crashes>>

CancelRun == CancelStepJob \/ CancelStepCell \/ CancelRunRow

DeletePlan ==
    /\ "delete_plan" \in Events
    /\ plan # "deleted" /\ run.status = "running"
    /\ plan' = "deleted"
    /\ UNCHANGED <<run, cells, link, jobside, spent, drivers, canceller, crashes>>

\* The boot sweep re-queues a running job with attempts left and fails one without.
\* Nothing edits a stored plan; only the validator of a newer build can come to
\* reject it.
CrashAndBoot ==
    /\ "crash" \in Events /\ crashes < MaxCrashes
    /\ crashes' = crashes + 1
    /\ \E failed \in SUBSET {s \in Steps : job[s] = "running"} :
         job' = [s \in Steps |-> IF s \in failed THEN "failed"
                                 ELSE IF job[s] = "running" THEN "queued" ELSE job[s]]
    /\ drivers' = [d \in Drivers |-> Idle]
    /\ hooks' = {} /\ stopping' = {}
    /\ canceller' = [canceller EXCEPT !.pc = IF @ = "idle" THEN "idle" ELSE "done"]
    /\ plan' \in {plan} \cup (IF "upgrade" \in Events /\ plan = "valid" THEN {"stale"} ELSE {})
    /\ UNCHANGED <<run, cells, link, cost, grant, spent>>

-----------------------------------------------------------------------------
StepJob(s) == HookLands(s) \/ HookSums(s) \/ HookWrites(s) \/ JobStarts(s) \/ JobEnds(s)

Next ==
    \/ CreateRun \/ InsertSteps
    \/ \E d \in Drivers : Advance(d) \/ EnqueueFails(d)
    \/ \E s \in Steps : StepJob(s) \/ HookFails(s) \/ JobStops(s) \/ DeleteJob(s)
    \/ DeleteRun \/ CancelRun \/ DeletePlan \/ CrashAndBoot

Spec == Init /\ [][Next]_vars

\* Every handler that has begun goes on, every queued step job is claimed, and
\* every running one ends (the worker loop and the job timeout).
Fairness ==
    /\ WF_vars(InsertSteps)
    /\ \A d \in Drivers : WF_vars(Advance(d))
    /\ \A s \in Steps : WF_vars(StepJob(s)) /\ WF_vars(JobStops(s))
    /\ WF_vars(CancelRun)

FairSpec == Spec /\ Fairness

-----------------------------------------------------------------------------
(* Properties *)

\* A join fires once: of the activations that compute the same ready step, one
\* at most wins the claim and enqueues it, and none once its job is recorded.
JoinFiresOnce ==
    \A s \in Steps :
      LET starting == {d \in Drivers : /\ drivers[d].pc \in {"claimed", "linking"}
                                       /\ Current(d) = s}
      IN  Cardinality(starting) <= (IF s \in link THEN 0 ELSE 1)

\* No job of a step exists before every upstream of its barrier has succeeded,
\* whatever was cancelled, deleted, refused or lost in between.
BarrierRespected ==
    \A s \in Steps : job[s] # "none" => \A dep \in After[s] : cells[dep] = "succeeded"

\* The cells of a run appear together, before anything is made of them.
CellsSeeded ==
    /\ (\E s \in Steps : cells[s] # "absent") => \A s \in Steps : cells[s] # "absent"
    /\ run.status = "none" \/ drivers[0].pc = "seed" =>
         /\ \A s \in Steps : cells[s] = "absent" /\ job[s] = "none" /\ drivers[s].pc = "idle"
         /\ link = {} /\ hooks = {} /\ run.by # "verdict"
    /\ run.status = "none" => drivers[0].pc = "idle"
    /\ \A d \in Drivers :
         /\ drivers[d].pc = "seed" => d = 0
         /\ drivers[d].pc \notin {"idle", "seed"} => \A s \in Steps : cells[s] # "absent"
    /\ run.by = "verdict" => \A s \in Steps : cells[s] # "absent"

\* Only a claimed step is started, by the one activation that claimed it, and only the
\* job of a claimed step ends.
StartsClaimed ==
    /\ \A s \in Steps : s \in link \/ job[s] # "none" => cells[s] \notin {"absent", "pending"}
    /\ \A s \in hooks : job[s] \in JobEnded
    /\ \A d \in Drivers : drivers[d].pc \in {"claimed", "linking"} =>
         /\ drivers[d].todo # {}
         /\ cells[Current(d)] \notin {"absent", "pending"} /\ Current(d) \notin link
         /\ \A c \in Drivers :
              drivers[c].pc \in {"claimed", "linking"} /\ Current(c) = Current(d) => c = d
    /\ canceller.pc = "cell" => canceller.todo # {}

\* An activation acts on a reading that may be old, but never wrong about a closed cell.
ReadingsHold ==
    \A d \in Drivers : drivers[d].pc \in {"skip", "ready", "claimed", "linking"} =>
      LET states == drivers[d].states
      IN  /\ \A s \in Steps :
               states[s] # "absent" /\ (states[s] \notin OpenState => cells[s] = states[s])
          /\ drivers[d].todo \subseteq
               IF drivers[d].pc = "skip" THEN CascadeSkips(states) ELSE ReadySteps(states)

\* Under `continue` a skip has its cause upstream.
SkipsCaused ==
    OnFailure = "continue" =>
      \A s \in Steps : cells[s] = "skipped" => After[s] \cap EndedBadly(cells) # {}

\* The start of a step, from the readiness that several activations compute to its job:
\* started once, and after everything it waits for.  With VerdictHonest this
\* conjunction is inductive.
RunInv ==
    /\ TypeOK
    /\ JoinFiresOnce /\ BarrierRespected
    /\ CellsSeeded /\ StartsClaimed /\ ReadingsHold /\ SkipsCaused

\* A run closed by its verdict has no open step and says what its cells say:
\* succeeded if all of them did, cancelled only if nothing failed or was skipped.
VerdictHonest ==
    run.by = "verdict" =>
      /\ \A s \in Steps : cells[s] \notin OpenState
      /\ run.status = "succeeded" <=> \A s \in Steps : cells[s] = "succeeded"
      /\ run.status = "cancelled" => \A s \in Steps : cells[s] \in {"succeeded", "cancelled"}

\* A step recorded as skipped never became a job.
SkippedNeverRan == \A s \in Steps : cells[s] = "skipped" => job[s] = "none"

\* What the jobs of a run spend together stays within the envelope.
EnvelopeKept == Envelope > 0 => MapThenSumSet(LAMBDA s : cost[s], Steps) <= Envelope

\* Every terminal path of a step job reaches the hook: a job that has ended, and
\* whose finalize is not under way, has closed its cell.
EndedJobClosesStep ==
    \A s \in Steps : job[s] \in JobEnded /\ s \notin hooks => cells[s] \notin OpenState

\* A cancelled run leaves no orphan: once its handler and the activations it
\* raced with are done, no job of the run is still to run.
CancelLeavesNoOrphan ==
    /\ run.by = "cancel" /\ canceller.pc = "done"
    /\ \A d \in Drivers : drivers[d].pc = "idle"
    => \A s \in Steps : job[s] # "queued"

\* A run that was opened is eventually closed.
RunCloses == run.status = "running" ~> run.status # "running"
=============================================================================

----------------------------- MODULE Scheduler -----------------------------
(***************************************************************************)
(* The cron scheduler.  One task walks the schedules table on every tick:   *)
(* for each enabled row it decides what is due, asks the admission gates,   *)
(* re-reads the live row, enqueues one run and moves the row's reference.   *)
(* Operators edit rows, runs end and are retried, sources are retired and   *)
(* the process restarts between any two statements of a pass.  A firing is  *)
(* the instant its cron names; time is counted in small units.              *)
(***************************************************************************)
EXTENDS Integers, FiniteSetsExt, SequencesExt

CONSTANTS
    Schedules,
    NoSchedule,
    Fires,          \* the instants at which each schedule's cron fires
    Grace,          \* two configured ticks
    Budgets,        \* spend ceilings an operator may set
    MaxTime,        \* instants explored
    MaxRuns,        \* runs of one schedule explored
    FaultBound,     \* storage errors, panics and restarts explored
    EditBound       \* operator edits explored

ASSUME SchedulerAssumption ==
    /\ NoSchedule \notin Schedules
    /\ Grace \in Nat /\ MaxTime \in Nat /\ MaxRuns \in Nat
    /\ FaultBound \in Nat /\ EditBound \in Nat
    /\ Fires \in [Schedules -> SUBSET (1..MaxTime)] /\ Budgets # {}

VARIABLES
    clock,
    row,        \* the schedules table
    runs,       \* the jobs each schedule enqueued, oldest first
    fit,        \* the app is registered and the params pass its schema
    retired,    \* the stored state of the source an extractor schedule reads
    lastPass,   \* when the last completed pass began, if any since boot
    pass,       \* where the pass is
    edits, faults,
    offered     \* history: firings a pass has had in hand, or walked past disabled

vars == <<clock, row, runs, fit, retired, lastPass, pass, edits, faults, offered>>

Times == 0..MaxTime
Never == -1

Row == [state : {"none", "live", "gone"}, enabled : BOOLEAN, skip : BOOLEAN, created : Times,
        lastRun : Times \cup {Never}, lastSkip : Times \cup {Never}, skipped : Nat,
        budget : Budgets, edit : 0..EditBound]
Run == [status : {"open", "waiting", "done", "failed"}, retried : BOOLEAN,
        answers : SUBSET Times, budget : Budgets]

Stages == {"idle", "step", "reread", "enqueue", "touch", "skip", "tail"}
PassState == [at : Stages, now : Times, cutoff : Int, todo : SUBSET Schedules,
              cur : Schedules \cup {NoSchedule}, snap : [Schedules -> Row],
              missed : Nat, fires : BOOLEAN, budget : Budgets, mark : 0..EditBound]

TypeOK ==
    /\ clock \in Times
    /\ row \in [Schedules -> Row]
    /\ runs \in [Schedules -> Seq(Run)] /\ \A s \in Schedules : Len(runs[s]) <= MaxRuns
    /\ fit \in [Schedules -> BOOLEAN] /\ retired \in [Schedules -> BOOLEAN]
    /\ lastPass \in Times \cup {Never}
    /\ pass \in PassState
    /\ edits \in 0..EditBound /\ faults \in 0..FaultBound
    /\ offered \in [Schedules -> SUBSET Times]

AnyBudget == CHOOSE b \in Budgets : TRUE
Blank == [state |-> "live", enabled |-> TRUE, skip |-> FALSE, created |-> 0,
          lastRun |-> Never, lastSkip |-> Never, skipped |-> 0, budget |-> AnyBudget, edit |-> 0]
Idle == [at |-> "idle", now |-> 0, cutoff |-> 0, todo |-> {}, cur |-> NoSchedule,
         snap |-> [s \in Schedules |-> Blank], missed |-> 0, fires |-> FALSE,
         budget |-> AnyBudget, mark |-> 0]

Init ==
    /\ clock = 0
    /\ \E skip \in [Schedules -> BOOLEAN], there \in SUBSET Schedules :
         row = [s \in Schedules |-> [Blank EXCEPT !.skip = skip[s],
                                                  !.state = IF s \in there THEN "live" ELSE "none"]]
    /\ runs = [s \in Schedules |-> <<>>]
    /\ fit = [s \in Schedules |-> TRUE] /\ retired = [s \in Schedules |-> FALSE]
    /\ lastPass = Never /\ pass = Idle
    /\ edits = 0 /\ faults = 0
    /\ offered = [s \in Schedules |-> {}]

-----------------------------------------------------------------------------
(* What is due: schedule_reference, misfire_cutoff and decide *)

Reference(r) ==
    IF r.lastRun = Never /\ r.lastSkip = Never THEN r.created ELSE Max({r.lastRun, r.lastSkip})

\* A fault: a firing due at this instant is left for later.
PendingStrict(s, r, now) == {f \in Fires[s] : f > Reference(r) /\ f < now}

Pending(s, r, now) == {f \in Fires[s] : f > Reference(r) /\ f <= now}

\* a boot has no previous pass to measure against
Cutoff(now) == IF lastPass = Never THEN now - Grace ELSE lastPass

\* missed firings had their chance; only the `skip` policy tells them apart
Missed(s, r, now, cutoff) ==
    IF r.skip THEN {f \in Pending(s, r, now) : f <= cutoff} ELSE {}

\* has_due_on_time_firing, or everything pending under fire_once
OnTime(s, r, now, cutoff) == Pending(s, r, now) \ Missed(s, r, now, cutoff)

-----------------------------------------------------------------------------
(* The pass *)

Fault == faults < FaultBound /\ faults' = faults + 1

\* the pass turns to its next enabled row, or to its end
Turn(p) ==
    IF p.todo = {} THEN [Idle EXCEPT !.at = "tail", !.now = p.now]
    ELSE LET s == CHOOSE x \in p.todo : TRUE IN
         [p EXCEPT !.at = "step", !.todo = p.todo \ {s}, !.cur = s,
                   !.missed = 0, !.fires = FALSE, !.budget = AnyBudget, !.mark = 0]

\* reconcile: cutoff and table are read once, disabled rows are walked past
PassBegin ==
    LET live == {s \in Schedules : row[s].state = "live"}
        on == {s \in live : row[s].enabled}
    IN  /\ pass.at = "idle"
        /\ pass' = Turn([Idle EXCEPT !.now = clock, !.cutoff = Cutoff(clock), !.todo = on,
                                     !.snap = [s \in Schedules |-> IF s \in on THEN row[s] ELSE Blank]])
        /\ offered' = [s \in Schedules |->
                          offered[s] \cup (IF s \in live \ on THEN {f \in Fires[s] : f <= clock} ELSE {})]
        /\ UNCHANGED <<clock, row, runs, fit, retired, lastPass, edits, faults>>

\* A fault: a parked run gives the slot back.
HoldsSlotRunning(s) == runs[s] # <<>> /\ Last(runs[s]).status = "open"

\* the run that owns the slot: the newest one, until it is settled
HoldsSlot(s) == runs[s] # <<>> /\ Last(runs[s]).status \in {"open", "waiting"}

(***************************************************************************)
(* reconcile_one up to its verdict.  A retired source eats the firing; the  *)
(* misfire policy is decided before the overlap guard; a held or refused    *)
(* firing moves nothing.                                                    *)
(***************************************************************************)
Verdict(p) ==
    LET s == p.cur
        missed == Missed(s, p.snap[s], p.now, p.cutoff)
        onTime == OnTime(s, p.snap[s], p.now, p.cutoff)
        eaten == IF missed # {}
                 THEN Cardinality(missed) + (IF onTime # {} THEN 1 ELSE 0)
                 ELSE Cardinality(onTime)
    IN  IF missed \cup onTime = {} \/ ~fit[s] THEN Turn(p)
        ELSE IF retired[s] THEN [p EXCEPT !.at = "skip", !.missed = eaten]
        ELSE IF onTime = {} THEN [p EXCEPT !.at = "skip", !.missed = Cardinality(missed)]
        ELSE IF HoldsSlot(s) THEN Turn(p)
        ELSE [p EXCEPT !.at = "reread", !.missed = Cardinality(missed), !.fires = TRUE]

Admit ==
    LET s == pass.cur IN
    /\ pass.at = "step"
    /\ pass' = Verdict(pass)
    /\ offered' = [offered EXCEPT ![s] = @ \cup Pending(s, pass.snap[s], pass.now)]
    /\ UNCHANGED <<clock, row, runs, fit, retired, lastPass, edits, faults>>

\* still_firable and firing_budget: the live row, not the pass's copy of it
StillFirable(s) == row[s].state = "live" /\ row[s].enabled
\* A fault: the budget of the pass's copy of the row.
FiringBudgetCopied(s) == pass.snap[s].budget

FiringBudget(s) == row[s].budget

Reread ==
    LET s == pass.cur IN
    /\ pass.at = "reread"
    /\ pass' = IF StillFirable(s)
               THEN [pass EXCEPT !.at = "enqueue", !.budget = FiringBudget(s), !.mark = row[s].edit]
               ELSE Turn(pass)
    /\ UNCHANGED <<clock, row, runs, fit, retired, lastPass, edits, faults, offered>>

Enqueue ==
    LET s == pass.cur IN
    /\ pass.at = "enqueue" /\ Len(runs[s]) < MaxRuns
    /\ runs' = [runs EXCEPT ![s] = Append(@, [status |-> "open", retried |-> FALSE,
                    answers |-> OnTime(s, pass.snap[s], pass.now, pass.cutoff), budget |-> pass.budget])]
    /\ pass' = [pass EXCEPT !.at = "touch"]
    /\ UNCHANGED <<clock, row, fit, retired, lastPass, edits, faults, offered>>

\* A fault: the firing is not recorded on the row.
TouchedNothing(r) == r

\* touch_schedule; a misfire backlog is recorded after it
Touched(r) == [r EXCEPT !.lastRun = pass.now]

Touch ==
    LET s == pass.cur IN
    /\ pass.at = "touch"
    /\ row' = IF row[s].state = "live" THEN [row EXCEPT ![s] = Touched(@)] ELSE row
    /\ pass' = IF pass.missed = 0 THEN Turn(pass) ELSE [pass EXCEPT !.at = "skip"]
    /\ UNCHANGED <<clock, runs, fit, retired, lastPass, edits, faults, offered>>

\* record_schedule_skip
RecordSkip ==
    LET s == pass.cur IN
    /\ pass.at = "skip"
    /\ row' = IF row[s].state = "live"
              THEN [row EXCEPT ![s].lastSkip = pass.now, ![s].skipped = @ + pass.missed] ELSE row
    /\ pass' = Turn(pass)
    /\ UNCHANGED <<clock, runs, fit, retired, lastPass, edits, faults, offered>>

\* a statement fails or an app panics: the step is over, the pass goes on
StepFails ==
    /\ pass.at \in {"step", "reread", "enqueue", "touch", "skip"} /\ Fault
    /\ pass' = Turn(pass)
    /\ offered' = [offered EXCEPT ![pass.cur] = @ \cup Pending(pass.cur, pass.snap[pass.cur], pass.now)]
    /\ UNCHANGED <<clock, row, runs, fit, retired, lastPass, edits>>

\* A fault: a failed pass counts as one that looked.
PassLostCounted ==
    /\ pass.at \in {"idle", "tail"} /\ Fault
    /\ pass' = Idle /\ lastPass' = clock
    /\ UNCHANGED <<clock, row, runs, fit, retired, edits, offered>>

\* list_schedules fails, or the tick panics after the pass: no pass is counted
PassLost ==
    /\ pass.at \in {"idle", "tail"} /\ Fault
    /\ pass' = Idle
    /\ UNCHANGED <<clock, row, runs, fit, retired, lastPass, edits, offered>>

PassEnds ==
    /\ pass.at = "tail"
    /\ lastPass' = pass.now
    /\ pass' = Idle
    /\ UNCHANGED <<clock, row, runs, fit, retired, edits, faults, offered>>

-----------------------------------------------------------------------------
(* Everybody else *)

Tick ==
    /\ clock < MaxTime
    /\ clock' = clock + 1
    /\ UNCHANGED <<row, runs, fit, retired, lastPass, pass, edits, faults, offered>>

Edit(s, r) ==
    /\ edits < EditBound
    /\ edits' = edits + 1
    /\ row' = [row EXCEPT ![s] = [r EXCEPT !.edit = edits + 1]]
    /\ UNCHANGED <<clock, runs, fit, retired, lastPass, pass, faults, offered>>

\* the schedule routes: create, enabled, budget and delete
CreateSchedule(s) ==
    row[s].state = "none" /\ Edit(s, [row[s] EXCEPT !.state = "live", !.created = clock])

SetEnabled(s) ==
    row[s].state = "live" /\ Edit(s, [row[s] EXCEPT !.enabled = ~@])

SetBudget(s) ==
    /\ row[s].state = "live"
    /\ \E b \in Budgets \ {row[s].budget} : Edit(s, [row[s] EXCEPT !.budget = b])

DeleteSchedule(s) ==
    row[s].state = "live" /\ Edit(s, [row[s] EXCEPT !.state = "gone"])

\* POST /sources/{id}/state, to `retired` or back
SetRetired(s) ==
    /\ edits < EditBound
    /\ edits' = edits + 1
    /\ retired' = [retired EXCEPT ![s] = ~@]
    /\ UNCHANGED <<clock, row, runs, fit, lastPass, pass, faults, offered>>

SetRun(s, i, r) ==
    /\ runs' = [runs EXCEPT ![s][i] = r]
    /\ UNCHANGED <<clock, row, fit, retired, lastPass, pass, edits, faults, offered>>

\* an open run succeeds, fails or parks; a parked one is answered
RunSettles(s) ==
    \E i \in DOMAIN runs[s], to \in {"done", "failed", "waiting"} :
        runs[s][i].status = "open" /\ SetRun(s, i, [runs[s][i] EXCEPT !.status = to])

RunAnswered(s) ==
    \E i \in DOMAIN runs[s] :
        runs[s][i].status = "waiting" /\ SetRun(s, i, [runs[s][i] EXCEPT !.status = "open"])

\* POST /jobs/{id}/retry
RunRetried(s) ==
    \E i \in DOMAIN runs[s] :
        /\ runs[s][i].status = "failed" /\ ~runs[s][i].retried
        /\ SetRun(s, i, [runs[s][i] EXCEPT !.status = "open", !.retried = TRUE])

\* a crash, and a boot of a build that may know other apps and schemas
Restart ==
    /\ Fault
    /\ pass' = Idle /\ lastPass' = Never
    /\ fit' \in [Schedules -> BOOLEAN]
    /\ UNCHANGED <<clock, row, runs, retired, edits, offered>>

PassStep == PassBegin \/ Admit \/ Reread \/ Enqueue \/ Touch \/ RecordSkip \/ PassEnds

Next ==
    \/ PassStep \/ StepFails \/ PassLost
    \/ Tick \/ Restart
    \/ \E s \in Schedules :
        \/ CreateSchedule(s) \/ SetEnabled(s) \/ SetBudget(s) \/ DeleteSchedule(s)
        \/ SetRetired(s) \/ RunSettles(s) \/ RunAnswered(s) \/ RunRetried(s)

Spec == Init /\ [][Next]_vars

\* the scheduler keeps ticking and a worker settles what it runs
FairSpec ==
    /\ Spec
    /\ WF_vars(PassStep)
    /\ \A s \in Schedules : WF_vars(RunSettles(s))

-----------------------------------------------------------------------------
(* Properties *)

(***************************************************************************)
(* A firing is run once: only a failure between enqueue and touch_schedule, *)
(* or a restart there, makes the next pass run it again.                    *)
(***************************************************************************)
Answering(s, f) == {i \in DOMAIN runs[s] : f \in runs[s][i].answers}

FiringRunsOnce == \A s \in Schedules, f \in Times : Cardinality(Answering(s, f)) <= 1 + faults

(***************************************************************************)
(* Runs of one schedule do not stack: whatever fails between enqueue and    *)
(* touch, at most one run that nobody retried by hand is unsettled          *)
(* (scheduler.rs, the overlap guard).                                       *)
(***************************************************************************)
Unsettled(s) ==
    {i \in DOMAIN runs[s] : runs[s][i].status \in {"open", "waiting"} /\ ~runs[s][i].retried}

RunsDoNotStack == \A s \in Schedules : Cardinality(Unsettled(s)) <= 1

\* Why runs do not stack: only the newest run is unsettled, and not even that one
\* while a pass that was let by the overlap guard is on its way to enqueue another.
SlotGuarded ==
    /\ \A s \in Schedules : Unsettled(s) \subseteq {Len(runs[s])}
    /\ pass.at \in {"reread", "enqueue"} => Unsettled(pass.cur) = {}

\* The rows a pass has copied and not yet written.
Ahead == pass.todo \cup IF pass.at \in {"step", "reread", "enqueue"} THEN {pass.cur} ELSE {}

\* A pass works on rows that still have the reference it copied, and measures
\* misfires from the last completed pass.
PassCurrent ==
    /\ lastPass <= clock /\ pass.now <= clock /\ (pass.at # "idle" => lastPass <= pass.now)
    /\ pass.at \in {"idle", "tail"} => pass.todo = {}
    /\ pass.at \notin {"idle", "tail"} =>
          pass.cur \in Schedules \ pass.todo /\ pass.cutoff = Cutoff(pass.now)
    /\ \A s \in Ahead : row[s].state # "none" /\ Reference(pass.snap[s]) = Reference(row[s])
    /\ \A s \in Schedules : row[s].state = "none" =>
          runs[s] = <<>> /\ row[s].lastRun = Never /\ row[s].lastSkip = Never

\* Every run of a firing but one was paid for by a failure, and the one as well as long
\* as the firing is still to be run: no run answers for an instant ahead of the pass.
FiringsCharged ==
    /\ \A s \in Schedules : \A i \in DOMAIN runs[s] : \A f \in runs[s][i].answers :
          f <= IF pass.at = "idle" THEN clock ELSE pass.now
    /\ \A s \in Schedules, f \in Times :
          /\ Cardinality(Answering(s, f)) <= 1 + faults
          /\ \/ s \in Ahead /\ f \in Pending(s, pass.snap[s], pass.now)
             \/ /\ row[s].state = "live" /\ f > Reference(row[s])
                /\ ~(pass.at = "touch" /\ pass.cur = s)
             => Cardinality(Answering(s, f)) <= faults

\* What a completed pass left due was offered, by it or by an earlier one, and so was what
\* the pass under way has left due behind it.
LeftDueWasOffered ==
    \A s \in Schedules : \A f \in Fires[s] :
        /\ row[s].state = "live" /\ f > Reference(row[s]) =>
              /\ lastPass # Never /\ f <= lastPass => f \in offered[s]
              /\ pass.at # "idle" /\ f <= pass.now => f \in offered[s] \/ s \in Ahead
        /\ s \in Ahead /\ f > Reference(pass.snap[s]) =>
              /\ lastPass # Never /\ f <= lastPass => f \in offered[s]
              /\ s \notin pass.todo /\ pass.at # "step" /\ f <= pass.now => f \in offered[s]

\* Edits are numbered in order, and the number the re-read noted stands for what it saw.
EditsNumbered ==
    /\ pass.mark <= edits /\ \A s \in Schedules : row[s].edit <= edits
    /\ pass.at = "enqueue" /\ pass.mark = row[pass.cur].edit =>
          StillFirable(pass.cur) /\ row[pass.cur].budget = pass.budget

\* The schedules and the runs they answer for: one unsettled run at most, every firing run
\* once unless a failure repeats it, nothing due passed over, edits seen.  This
\* conjunction is inductive.
ScheduleInv ==
    /\ TypeOK
    /\ RunsDoNotStack /\ SlotGuarded
    /\ PassCurrent
    /\ FiringsCharged
    /\ LeftDueWasOffered
    /\ EditsNumbered

(***************************************************************************)
(* `missed` means that an earlier pass had its chance: what the skip policy *)
(* is about to eat was in the hands of a pass that completed, or was older  *)
(* than the grace at the first pass after boot (scheduler.rs, last_pass).   *)
(***************************************************************************)
MissedHadItsChance ==
    pass.at = "step" =>
        LET s == pass.cur IN
        \A f \in Missed(s, pass.snap[s], pass.now, pass.cutoff) :
            f \in offered[s] \/ (lastPass = Never /\ f <= pass.now - Grace)

(***************************************************************************)
(* An operator's edit is honoured from the fire-time re-read on, however    *)
(* old the pass's copy of the row is: unless the row changed after that     *)
(* re-read, a run is enqueued only for an enabled row and under its budget. *)
(***************************************************************************)
EditHonoured ==
    [][\A s \in Schedules :
          (Len(runs'[s]) > Len(runs[s]) /\ pass.mark = row[s].edit)
              => /\ row[s].state = "live" /\ row[s].enabled
                 /\ Last(runs'[s]).budget = row[s].budget]_vars

(***************************************************************************)
(* Under fire_once a due firing runs, through held ticks, failed steps,     *)
(* lost passes and restarts, as long as the row stays enabled and fit.      *)
(***************************************************************************)
Due(s, f) ==
    /\ row[s].state = "live" /\ row[s].enabled /\ fit[s] /\ ~retired[s]
    /\ f <= clock /\ f > Reference(row[s])

Excused(s) ==
    \/ row[s].state # "live" \/ ~row[s].enabled \/ ~fit[s] \/ retired[s]
    \/ Len(runs[s]) = MaxRuns \/ (runs[s] # <<>> /\ Last(runs[s]).status = "waiting")

FireOnceRuns ==
    \A s \in Schedules : \A f \in Fires[s] :
        (Due(s, f) /\ ~row[s].skip) ~> (Answering(s, f) # {} \/ Excused(s))

(***************************************************************************)
(* What the overlap guard's comment promises of every schedule: "the missed *)
(* firing stays due and fires on the first tick after it finishes".         *)
(***************************************************************************)
HeldFiringRuns ==
    \A s \in Schedules : \A f \in Fires[s] :
        (/\ pass.at = "step" /\ pass.cur = s /\ HoldsSlot(s) /\ Due(s, f)
         /\ f \in OnTime(s, pass.snap[s], pass.now, pass.cutoff))
            ~> (Answering(s, f) # {} \/ Excused(s))
=============================================================================

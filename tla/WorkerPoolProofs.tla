-------------------------- MODULE WorkerPoolProofs --------------------------
(* Proofs about WorkerPool, for every set of jobs, apps and executors, every *)
(* concurrency, cap and attempt budget.                                      *)
EXTENDS WorkerPool, FiniteSetTheorems, TLAPS

-----------------------------------------------------------------------------
(* The rows that a step writes *)

\* A write that claims nothing: the count stays, and nobody comes to run the row.
Idling(j, r) ==
    /\ r \in Row /\ r.status \notin {"running", "absent"}
    /\ r.attempts = jobs[j].attempts \/ jobs[j].status = "absent"

\* The rows of the verdicts, of the doors and of the sweeps claim nothing.
LEMMA RowsIdle ==
    ASSUME NEW j \in Jobs, jobs[j] \in Row
    PROVE  /\ Idling(j, SucceededRow(j))
           /\ Idling(j, CancelledRow(j))
           /\ Idling(j, FailedRow(j, 0))
           /\ Idling(j, RequeuedRow(j, 0))
           /\ Idling(j, WaitingRow(j, FALSE))
           /\ Idling(j, ReopenedRow(j))
           /\ Idling(j, [ReopenedRow(j) EXCEPT !.deadline = "none"])
           /\ jobs[j].status = "queued" => Idling(j, [jobs[j] EXCEPT !.due = TRUE])
           /\ \A max \in Nat :
                 jobs[j].status = "absent" =>
                    Idling(j, [AbsentRow EXCEPT !.status = "queued",
                                                !.maxAttempts = Larger(max, 1), !.due = TRUE])
<1>1. Idling(j, SucceededRow(j)) /\ Idling(j, CancelledRow(j))
  BY DEF Idling, Row, SucceededRow, CancelledRow, Status, Terminal
<1>2. Idling(j, FailedRow(j, 0))
  BY DEF Idling, Row, FailedRow, Status, Terminal
<1>3. Idling(j, RequeuedRow(j, 0)) /\ Idling(j, WaitingRow(j, FALSE))
  BY DEF Idling, Row, RequeuedRow, WaitingRow, Status
<1>4. ReopenedRow(j) \in Row /\ ReopenedRow(j).status = "queued"
      /\ ReopenedRow(j).attempts = jobs[j].attempts
  <2>1. Headroom(j) \in Nat
    BY DEF Row, Headroom, Larger
  <2> QED
    BY <2>1 DEF Row, ReopenedRow, Status
<1>5. Idling(j, [ReopenedRow(j) EXCEPT !.deadline = "none"])
  BY <1>4 DEF Idling, Row
<1>6. jobs[j].status = "queued" => Idling(j, [jobs[j] EXCEPT !.due = TRUE])
  BY DEF Idling, Row
<1>7. ASSUME NEW max \in Nat, jobs[j].status = "absent"
      PROVE  Idling(j, [AbsentRow EXCEPT !.status = "queued",
                                         !.maxAttempts = Larger(max, 1), !.due = TRUE])
  <2>1. Larger(max, 1) \in Nat
    BY DEF Larger
  <2> QED
    BY <1>7, <2>1 DEF Idling, Row, AbsentRow, Status
<1> QED
  BY <1>1, <1>2, <1>3, <1>4, <1>5, <1>6, <1>7 DEF Idling

\* What every step does to the rows: the count never goes back, and no attempt
\* that lost its row gets it again.
RowsAhead ==
    /\ jobs' \in [Jobs -> Row]
    /\ \A t \in tasks :
          /\ t.attempt <= jobs'[t.job].attempts /\ jobs'[t.job].status # "absent"
          /\ Mine(t)' => Mine(t)

\* The same, with no row newly running: what every step but a claim does.
RowsCalm ==
    /\ RowsAhead
    /\ \A j \in Jobs : jobs'[j].status = "running" => jobs[j].status = "running"

\* Tasks have the types their parts have.
LEMMA TaskTypes ==
    ASSUME PoolInv
    PROVE  /\ jobs \in [Jobs -> Row]
           /\ \A t \in tasks : /\ t \in Task /\ t.job \in Jobs /\ t.attempt \in Nat
                               /\ AppOf[t.job] \in Apps
                               /\ t.attempt <= jobs[t.job].attempts
                               /\ jobs[t.job].status # "absent"
           /\ \A j \in Jobs : jobs[j] \in Row /\ jobs[j].attempts \in Nat
BY AppAssumption DEF PoolInv, TypeOK, Task, AttemptsApart, Row

\* A table that stands still, and a write that claims nothing.
LEMMA RowsSettle ==
    ASSUME PoolInv
    PROVE  /\ UNCHANGED jobs => RowsCalm
           /\ \A j \in Jobs : \A r : Write(j, r) /\ Idling(j, r) => RowsCalm
<1>1. UNCHANGED jobs => RowsCalm
  BY TaskTypes DEF RowsCalm, RowsAhead, Mine, Fenced
<1>2. ASSUME NEW j \in Jobs, NEW r, Write(j, r), Idling(j, r)
      PROVE  RowsCalm
  <2>1. /\ jobs' \in [Jobs -> Row] /\ jobs'[j] = r
        /\ \A i \in Jobs \ {j} : jobs'[i] = jobs[i]
    BY <1>2, TaskTypes DEF Write, Idling
  <2>2. ASSUME NEW t \in tasks
        PROVE  /\ t.attempt <= jobs'[t.job].attempts /\ jobs'[t.job].status # "absent"
               /\ Mine(t)' => Mine(t)
    <3>1. CASE t.job = j
      BY <1>2, <2>1, <3>1, TaskTypes DEF Idling, Mine, Fenced
    <3>2. CASE t.job # j
      BY <2>1, <3>2, TaskTypes DEF Mine, Fenced
    <3> QED
      BY <3>1, <3>2
  <2> QED
    BY <1>2, <2>1, <2>2 DEF RowsCalm, RowsAhead, Idling
<1> QED
  BY <1>1, <1>2

\* A claim counts one attempt more than any task of the job has.
LEMMA ClaimAhead ==
    ASSUME PoolInv, NEW j \in Jobs, jobs[j].status = "queued", NEW r \in Row, Write(j, r),
           r.status = "running", r.attempts = jobs[j].attempts + 1
    PROVE  /\ RowsAhead
           /\ jobs'[j] = r /\ \A i \in Jobs \ {j} : jobs'[i] = jobs[i]
           /\ \A t \in tasks : ~(t.job = j /\ t.attempt = jobs[j].attempts + 1)
<1>1. /\ jobs' \in [Jobs -> Row] /\ jobs'[j] = r
      /\ \A i \in Jobs \ {j} : jobs'[i] = jobs[i]
  BY TaskTypes DEF Write
<1>2. ASSUME NEW t \in tasks
      PROVE  /\ t.attempt <= jobs'[t.job].attempts /\ jobs'[t.job].status # "absent"
             /\ Mine(t)' => Mine(t)
             /\ ~(t.job = j /\ t.attempt = jobs[j].attempts + 1)
  <2>1. CASE t.job = j
    BY <1>1, <2>1, TaskTypes DEF Mine, Fenced
  <2>2. CASE t.job # j
    BY <1>1, <2>2, TaskTypes DEF Mine, Fenced
  <2> QED
    BY <2>1, <2>2
<1> QED
  BY <1>1, <1>2 DEF RowsAhead

\* The claim row of a queued job, local or of an executor.
LEMMA ClaimedTyped ==
    ASSUME NEW j \in Jobs, jobs[j] \in Row
    PROVE  /\ ClaimedRow(j) \in Row /\ ClaimedRow(j).status = "running"
           /\ ClaimedRow(j).attempts = jobs[j].attempts + 1
           /\ \A e \in Executors :
                 /\ [ClaimedRow(j) EXCEPT !.executor = e] \in Row
                 /\ [ClaimedRow(j) EXCEPT !.executor = e].status = "running"
                 /\ [ClaimedRow(j) EXCEPT !.executor = e].attempts = jobs[j].attempts + 1
<1> DEFINE n == jobs[j].attempts + 1
<1>1. n \in Nat
  BY DEF Row
<1>2. /\ [jobs[j] EXCEPT !.status = "running", !.attempts = n, !.fresh = TRUE] \in Row
      /\ [jobs[j] EXCEPT !.status = "running", !.attempts = n, !.fresh = TRUE].status = "running"
      /\ [jobs[j] EXCEPT !.status = "running", !.attempts = n, !.fresh = TRUE].attempts = n
  <2> HIDE DEF n
  <2> QED BY <1>1 DEF Row, Status
<1>3. ClaimedRow(j) \in Row /\ ClaimedRow(j).status = "running" /\ ClaimedRow(j).attempts = n
  BY <1>2 DEF ClaimedRow
<1> HIDE DEF n
<1>4. ASSUME NEW e \in Executors
      PROVE  /\ [ClaimedRow(j) EXCEPT !.executor = e] \in Row
             /\ [ClaimedRow(j) EXCEPT !.executor = e].status = "running"
             /\ [ClaimedRow(j) EXCEPT !.executor = e].attempts = n
  BY <1>3 DEF Row
<1> QED
  BY <1>3, <1>4 DEF n

-----------------------------------------------------------------------------
(* Counting the tasks *)

\* One element for another that was not there leaves the size.
LEMMA CardSwap ==
    ASSUME NEW T, IsFiniteSet(T), NEW x \in T, NEW y, y \notin T \ {x}
    PROVE  /\ IsFiniteSet((T \ {x}) \cup {y})
           /\ Cardinality((T \ {x}) \cup {y}) = Cardinality(T)
<1>1. IsFiniteSet(T \ {x}) /\ Cardinality(T \ {x}) = Cardinality(T) - 1
  BY FS_RemoveElement
<1>2. /\ IsFiniteSet((T \ {x}) \cup {y})
      /\ Cardinality((T \ {x}) \cup {y}) = Cardinality(T \ {x}) + 1
  BY <1>1, FS_AddElement
<1>3. Cardinality(T) \in Nat
  BY FS_CardinalityType
<1> QED
  BY <1>1, <1>2, <1>3

\* The tasks of an app, and the permit in the loop's hand.
RunsOf(app) == {t \in tasks : AppOf[t.job] = app}
InHand == IF loop \in {"holding", "capped"} THEN 1 ELSE 0

\* The account, in these words.
LEMMA Account ==
    SlotsAccounted <=>
       /\ permits + Cardinality(tasks) + InHand = Concurrency
       /\ \A app \in Apps : /\ counts[app] = Cardinality(RunsOf(app))
                            /\ AppLimit[app] > 0 => counts[app] <= AppLimit[app]
BY DEF SlotsAccounted, RunsOf, InHand

\* Every number of the account is one.
LEMMA AccountTyped ==
    ASSUME PoolInv
    PROVE  /\ Cardinality(tasks) \in Nat /\ permits \in Nat /\ InHand \in {0, 1}
           /\ \A app \in Apps : /\ IsFiniteSet(RunsOf(app))
                                /\ Cardinality(RunsOf(app)) \in Nat
                                /\ counts[app] \in Nat
<1>1. IsFiniteSet(tasks) /\ permits \in Nat /\ \A app \in Apps : counts[app] \in Nat
  BY DEF PoolInv, TypeOK
<1>2. \A app \in Apps : RunsOf(app) \subseteq tasks
  BY DEF RunsOf
<1> QED
  BY <1>1, <1>2, FS_Subset, FS_CardinalityType DEF InHand

\* Free permits and counts stay within the pool when the account is right.
LEMMA AccountBounds ==
    ASSUME IsFiniteSet(tasks'), SlotsAccounted', permits' \in Int
    PROVE  counts' \in [Apps -> Int] => /\ permits' >= 0 => permits' \in 0..Concurrency
                                        /\ permits' >= 0 => counts' \in [Apps -> 0..Concurrency]
<1> SUFFICES ASSUME counts' \in [Apps -> Int], permits' >= 0
             PROVE  permits' \in 0..Concurrency /\ counts' \in [Apps -> 0..Concurrency]
  OBVIOUS
<1>1. /\ permits' + Cardinality(tasks') + (IF loop' \in {"holding", "capped"} THEN 1 ELSE 0)
           = Concurrency
      /\ \A app \in Apps : counts'[app] = Cardinality({t \in tasks' : AppOf[t.job] = app})
  BY DEF SlotsAccounted
<1>2. Cardinality(tasks') \in Nat /\ Concurrency \in Nat
  BY FS_CardinalityType, ConcurrencyAssumption
<1>3. permits' \in 0..Concurrency /\ Cardinality(tasks') <= Concurrency
  BY <1>1, <1>2
<1>4. ASSUME NEW app \in Apps PROVE counts'[app] \in 0..Concurrency
  <2>1. {t \in tasks' : AppOf[t.job] = app} \subseteq tasks'
    OBVIOUS
  <2>2. /\ Cardinality({t \in tasks' : AppOf[t.job] = app}) <= Cardinality(tasks')
        /\ Cardinality({t \in tasks' : AppOf[t.job] = app}) \in Nat
    BY <2>1, FS_Subset, FS_CardinalityType
  <2> QED
    BY <1>1, <1>2, <1>3, <2>2
<1> QED
  BY <1>3, <1>4

-----------------------------------------------------------------------------
(* A task that moves on *)

\* The successor of a task keeps its number, and is not under way already.
LEMMA Successor ==
    ASSUME PoolInv, NEW t \in tasks, NEW pc \in PC, Goto(t, pc)
    PROVE  \E n \in Task : /\ n.job = t.job /\ n.attempt = t.attempt /\ n.pc = pc
                           /\ n \in tasks => n = t
                           /\ tasks' = (tasks \ {t}) \cup {n}
<1> DEFINE n == [t EXCEPT !.pc = pc]
<1>1. n \in Task /\ n.job = t.job /\ n.pc = pc /\ n.attempt = t.attempt
  BY TaskTypes DEF Task
<1>2. tasks' = (tasks \ {t}) \cup {n}
  BY DEF Goto
<1> HIDE DEF n
<1>3. n \in tasks => n = t
  BY <1>1 DEF PoolInv, AttemptsApart
<1> QED
  BY <1>1, <1>2, <1>3

\* The tasks, their numbers, the account and the sweep after a move.
Going ==
    /\ tasks' \subseteq Task /\ IsFiniteSet(tasks')
    /\ AttemptsApart'
    /\ SlotsAccounted'
    /\ LoopInPhase'
    /\ DrainSettlesAll'

\* A task that moves on while the slots, the phase and the sweep stand still.
LEMMA GotoGoing ==
    ASSUME PoolInv, RowsAhead, NEW t \in tasks, NEW pc \in PC, Goto(t, pc),
           UNCHANGED <<phase, slots, sweep, left>>
    PROVE  Going
<1>n. PICK n \in Task : /\ n.job = t.job /\ n.attempt = t.attempt /\ n.pc = pc
                        /\ n \in tasks => n = t
                        /\ tasks' = (tasks \ {t}) \cup {n}
  BY Successor
<1>1. tasks' \subseteq Task
  BY <1>n DEF PoolInv, TypeOK
<1>2. IsFiniteSet(tasks') /\ Cardinality(tasks') = Cardinality(tasks)
  BY <1>n, CardSwap DEF PoolInv
<1>3. \A app \in Apps : Cardinality(RunsOf(app)') = Cardinality(RunsOf(app))
  <2> SUFFICES ASSUME NEW app \in Apps
               PROVE  Cardinality(RunsOf(app)') = Cardinality(RunsOf(app))
    OBVIOUS
  <2>1. CASE AppOf[t.job] = app
    <3>1. /\ RunsOf(app)' = (RunsOf(app) \ {t}) \cup {n}
          /\ t \in RunsOf(app) /\ n \notin RunsOf(app) \ {t}
      BY <1>n, <2>1 DEF RunsOf
    <3> QED
      BY <3>1, AccountTyped, CardSwap
  <2>2. CASE AppOf[t.job] # app
    <3>1. RunsOf(app)' = RunsOf(app)
      BY <1>n, <2>2 DEF RunsOf
    <3> QED
      BY <3>1
  <2> QED
    BY <2>1, <2>2
<1>4. SlotsAccounted'
  BY <1>2, <1>3 DEF PoolInv, SlotsAccounted, RunsOf, slots
<1>5. AttemptsApart'
  BY <1>n DEF PoolInv, AttemptsApart, RowsAhead
<1>6. LoopInPhase'
  BY DEF PoolInv, LoopInPhase, slots
<1>7. DrainSettlesAll'
  BY <1>n DEF PoolInv, DrainSettlesAll, RowsAhead, Mine
<1> QED
  BY <1>1, <1>2, <1>4, <1>5, <1>6, <1>7 DEF Going

\* The same when no task moves.
LEMMA StillGoing ==
    ASSUME PoolInv, RowsAhead, UNCHANGED <<phase, slots, sweep, tasks, left>>
    PROVE  Going
<1>1. AttemptsApart'
  BY DEF PoolInv, AttemptsApart, RowsAhead
<1>2. DrainSettlesAll'
  BY DEF PoolInv, DrainSettlesAll, RowsAhead
<1> QED
  BY <1>1, <1>2 DEF PoolInv, TypeOK, Going, SlotsAccounted, LoopInPhase, slots

\* What a run was promised, and the words for where it goes.
Promised(t) == <<t.job, t.attempt, TRUE>> \in promised
Dishonest == {"succeeding", "failing", "parking", "suspending"}

\* A task that neither registers nor leaves keeps the token it has.
LEMMA GotoGhost ==
    ASSUME PoolInv, NEW t \in tasks, NEW pc \in PC \ {"spawned", "releasing"}, Goto(t, pc),
           UNCHANGED registry
    PROVE  NoGhostToken'
<1>n. PICK n \in Task : /\ n.job = t.job /\ n.attempt = t.attempt /\ n.pc = pc
                        /\ n \in tasks => n = t
                        /\ tasks' = (tasks \ {t}) \cup {n}
  BY Successor
<1> SUFFICES ASSUME NEW j \in Jobs, registry'[j] # 0
             PROVE  \E u \in tasks' : /\ u.job = j /\ u.attempt = registry'[j]
                                      /\ u.pc \notin {"spawned", "releasing"}
  BY DEF NoGhostToken, Holder
<1>1. PICK u \in tasks : u.job = j /\ u.attempt = registry[j] /\ u.pc \notin {"spawned", "releasing"}
  BY DEF PoolInv, NoGhostToken, Holder
<1>2. CASE u = t
  BY <1>n, <1>1, <1>2
<1>3. CASE u # t
  BY <1>n, <1>1, <1>3
<1> QED
  BY <1>2, <1>3

\* A promised run that moves on keeps what it was promised: it has no other run
\* beside it that could take the intent.
LEMMA GotoPromise ==
    ASSUME PoolInv, NEW t \in tasks, NEW pc \in PC, Goto(t, pc), UNCHANGED <<fired, promised>>,
           \A j \in Jobs : j # t.job => intents'[j] = intents[j],
           Promised(t) => pc \notin Dishonest /\ (pc \in Undecided => intents'[t.job] = "User")
    PROVE  PromiseStands'
<1>n. PICK n \in Task : /\ n.job = t.job /\ n.attempt = t.attempt /\ n.pc = pc
                        /\ n \in tasks => n = t
                        /\ tasks' = (tasks \ {t}) \cup {n}
  BY Successor
<1> SUFFICES ASSUME NEW u \in tasks', <<u.job, u.attempt, TRUE>> \in promised'
             PROVE  /\ \A v \in tasks' : v.job = u.job => v = u
                    /\ <<u.job, u.attempt>> \in fired'
                    /\ u.pc \in Undecided => intents'[u.job] = "User"
                    /\ u.pc \notin Dishonest
  BY DEF PromiseStands, Honoured, Dishonest, Undecided
<1>1. CASE u = n
  <2>1. Promised(t)
    BY <1>n, <1>1 DEF Promised
  <2>2. (\A v \in tasks : v.job = t.job => v = t) /\ <<t.job, t.attempt>> \in fired
    BY <2>1 DEF PoolInv, PromiseStands, Promised
  <2> QED
    BY <1>n, <1>1, <2>1, <2>2
<1>2. CASE u # n
  <2>1. u \in tasks /\ u # t
    BY <1>n, <1>2
  <2>2. /\ \A v \in tasks : v.job = u.job => v = u
        /\ <<u.job, u.attempt>> \in fired
        /\ u.pc \in Undecided => intents[u.job] = "User"
        /\ u.pc \notin Dishonest
    BY <2>1 DEF PoolInv, PromiseStands, Honoured, Dishonest
  <2>3. u.job # t.job /\ u.job \in Jobs
    BY <2>1, <2>2, TaskTypes
  <2> QED
    BY <1>n, <1>2, <2>1, <2>2, <2>3
<1> QED
  BY <1>1, <1>2

\* The state that no part of the invariant but the type speaks of.
RestTyped ==
    /\ remote' \subseteq Jobs \X Nat
    /\ ckpt' \in [Jobs -> [by : Nat, resumes : Nat]]
    /\ losses' \in [Jobs -> Nat]

\* The invariant, put together from what a step of a task keeps.
LEMMA TaskCarried ==
    ASSUME PoolInv, RowsAhead, RestTyped, Going, NoGhostToken', PromiseStands',
           UNCHANGED <<phase, slots, fired, sweep, promised, left>>,
           registry' \in [Jobs -> Nat], intents' \in [Jobs -> {"none", "User", "ShutdownSuspend"}]
    PROVE  PoolInv'
<1>1. TypeOK'
  BY DEF PoolInv, TypeOK, RowsAhead, RestTyped, Going, slots
<1> QED
  BY <1>1 DEF PoolInv, Going

\* A task that moves on without touching the tokens.
LEMMA TaskQuiet ==
    ASSUME PoolInv, RowsAhead, RestTyped, NEW t \in tasks,
           NEW pc \in PC \ {"spawned", "releasing"}, Goto(t, pc),
           UNCHANGED <<phase, slots, tokens, sweep, promised, left>>,
           Promised(t) => pc \notin Dishonest /\ (pc \in Undecided => t.pc \in Undecided)
    PROVE  PoolInv'
<1>1. Going
  BY GotoGoing
<1>2. NoGhostToken'
  BY GotoGhost DEF tokens
<1>3. Promised(t) /\ t.pc \in Undecided => intents[t.job] = "User"
  BY DEF PoolInv, PromiseStands, Promised
<1>4. PromiseStands'
  BY <1>3, GotoPromise DEF tokens
<1>5. registry' \in [Jobs -> Nat] /\ intents' \in [Jobs -> {"none", "User", "ShutdownSuspend"}]
  BY DEF PoolInv, TypeOK, tokens
<1> QED
  BY <1>1, <1>2, <1>4, <1>5, TaskCarried DEF tokens

-----------------------------------------------------------------------------
(* The steps of a task *)

\* A promised run is not about to do what it promised not to.
LEMMA PromisedHonest ==
    ASSUME PoolInv, NEW t \in tasks, Promised(t)
    PROVE  /\ t.pc \notin Dishonest
           /\ <<t.job, t.attempt>> \in fired
           /\ t.pc \in Undecided => intents[t.job] = "User"
BY DEF PoolInv, PromiseStands, Promised, Honoured, Dishonest

\* Every step of a task keeps the invariant.
LEMMA TaskSafe ==
    ASSUME PoolInv, NEW t \in tasks, TaskStep(t)
    PROVE  PoolInv'
<1>t. t \in Task /\ t.job \in Jobs /\ t.attempt \in Nat /\ t.pc \in PC /\ jobs[t.job] \in Row
  BY TaskTypes DEF Task
<1>r. /\ UNCHANGED jobs => RowsAhead
      /\ \A r : Write(t.job, r) /\ Idling(t.job, r) => RowsAhead
  BY <1>t, RowsSettle DEF RowsCalm
<1>u. UNCHANGED <<remote, ckpt, losses>> => RestTyped
  BY DEF PoolInv, TypeOK, RestTyped
<1>i. registry \in [Jobs -> Nat] /\ intents \in [Jobs -> {"none", "User", "ShutdownSuspend"}]
      /\ ckpt \in [Jobs -> [by : Nat, resumes : Nat]] /\ losses \in [Jobs -> Nat]
      /\ remote \subseteq Jobs \X Nat
  BY DEF PoolInv, TypeOK
<1> USE DEF PC, Undecided, Deciding, Dishonest
<1>1. CASE Register(t)
  <2>n. PICK n \in Task : /\ n.job = t.job /\ n.attempt = t.attempt /\ n.pc = "registered"
                          /\ tasks' = (tasks \ {t}) \cup {n}
    BY <1>1, Successor DEF Register
  <2>1. Going
    BY <1>1, <1>r, GotoGoing DEF Register, history
  <2>2. NoGhostToken'
    <3> SUFFICES ASSUME NEW j \in Jobs, registry'[j] # 0
                 PROVE  \E u \in tasks' : /\ u.job = j /\ u.attempt = registry'[j]
                                          /\ u.pc \notin {"spawned", "releasing"}
      BY DEF NoGhostToken, Holder
    <3>1. CASE j = t.job
      BY <1>1, <2>n, <3>1, <1>i DEF Register
    <3>2. CASE j # t.job
      <4>1. PICK u \in tasks : /\ u.job = j /\ u.attempt = registry[j]
                               /\ u.pc \notin {"spawned", "releasing"}
        BY <1>1, <3>2, <1>i DEF Register, PoolInv, NoGhostToken, Holder
      <4> QED
        BY <1>1, <2>n, <3>2, <4>1, <1>i DEF Register
    <3> QED
      BY <3>1, <3>2
  <2>3. PromiseStands'
    BY <1>1, PromisedHonest, GotoPromise DEF Register, history
  <2>4. registry' \in [Jobs -> Nat] /\ intents' \in [Jobs -> {"none", "User", "ShutdownSuspend"}]
    BY <1>1, <1>t, <1>i DEF Register
  <2> QED
    BY <1>1, <1>r, <1>u, <2>1, <2>2, <2>3, <2>4, TaskCarried DEF Register, history
<1>2. CASE Refuse(t)
  BY <1>2, <1>r, <1>u, TaskQuiet DEF Refuse, history
<1>3. CASE LoadRestore(t)
  <2>1. [ckpt[t.job] EXCEPT !.resumes = @ + 1] \in [by : Nat, resumes : Nat]
        /\ NoCheckpoint \in [by : Nat, resumes : Nat]
    BY <1>t, <1>i DEF NoCheckpoint
  <2>2. RestTyped
    BY <1>3, <1>t, <1>i, <2>1 DEF LoadRestore, RestTyped, history
  <2> QED
    BY <1>3, <1>r, <2>2, TaskQuiet DEF LoadRestore, history
<1>4. CASE SaveCheckpoint(t)
  <2>1. [ckpt[t.job] EXCEPT !.by = t.attempt] \in [by : Nat, resumes : Nat]
    BY <1>t, <1>i
  <2>2. RestTyped
    BY <1>4, <1>t, <1>i, <2>1 DEF SaveCheckpoint, RestTyped, history
  <2>3. Going
    BY <1>4, <1>r, StillGoing DEF SaveCheckpoint, history
  <2>4. NoGhostToken' /\ PromiseStands'
    BY <1>4 DEF SaveCheckpoint, tokens, history, PoolInv, NoGhostToken, Holder, PromiseStands, Honoured
  <2> QED
    BY <1>4, <1>i, <1>r, <2>2, <2>3, <2>4, TaskCarried DEF SaveCheckpoint, tokens, history
<1>5. CASE Outcome(t)
  <2>1. CASE <<t.job, t.attempt>> \in fired
    BY <1>5, <2>1, <1>r, <1>u, TaskQuiet DEF Outcome, history
  <2>2. CASE <<t.job, t.attempt>> \notin fired
    <3>1. PICK pc \in {"succeeding", "failing", "condemning", "parking"} : Goto(t, pc)
      BY <1>5, <2>2 DEF Outcome
    <3> QED
      BY <1>5, <2>2, <3>1, <1>r, <1>u, PromisedHonest, TaskQuiet DEF Outcome, history
  <2> QED
    BY <2>1, <2>2
<1>6. CASE Resolve(t)
  <2> DEFINE kind == CancelKind(intents[t.job] = "User")
             pc == IF kind = "User" THEN "cancelling" ELSE "suspending"
  <2>1. Goto(t, pc) /\ pc \in PC \ {"spawned", "releasing"}
    BY <1>6 DEF Resolve
  <2>2. Going
    BY <1>6, <1>r, <2>1, GotoGoing DEF Resolve, history
  <2>3. NoGhostToken'
    BY <1>6, <2>1, GotoGhost DEF Resolve
  <2>4. Promised(t) => kind = "User"
    BY <1>6, PromisedHonest DEF Resolve, CancelKind
  <2>5. PromiseStands'
    <3>1. \A j \in Jobs : j # t.job => intents'[j] = intents[j]
      BY <1>6, <1>i DEF Resolve
    <3> QED
      BY <1>6, <2>1, <2>4, <3>1, GotoPromise DEF Resolve, history
  <2>6. registry' \in [Jobs -> Nat] /\ intents' \in [Jobs -> {"none", "User", "ShutdownSuspend"}]
    BY <1>6, <1>t, <1>i DEF Resolve
  <2> QED
    BY <1>6, <1>r, <1>u, <2>2, <2>3, <2>5, <2>6, TaskCarried DEF Resolve, history
<1>7. CASE Succeed(t) \/ CancelRun(t)
  <2>1. RowsAhead
    BY <1>7, <1>t, <1>r, RowsIdle DEF Succeed, CancelRun
  <2> QED
    BY <1>7, <1>u, <2>1, TaskQuiet DEF Succeed, CancelRun, history
<1>8. CASE Park(t)
  <2>1. RowsAhead
    BY <1>8, <1>t, <1>r, RowsIdle DEF Park
  <2> QED
    BY <1>8, <1>u, <2>1, TaskQuiet DEF Park, history
<1>9. CASE Suspend(t)
  <2>1. RowsAhead
    BY <1>9, <1>t, <1>r, RowsIdle DEF Suspend, Reset
  <2> QED
    BY <1>9, <1>u, <2>1, TaskQuiet DEF Suspend, history
<1>10. CASE Fail(t)
  <2>1. RowsAhead
    BY <1>10, <1>t, <1>r, RowsIdle DEF Fail, FailRow
  <2>2. RestTyped
    BY <1>10, <1>t, <1>i DEF Fail, FailRow, RestTyped
  <2>3. Goto(t, "leaving") \/ Goto(t, "finalizing")
    BY <1>10 DEF Fail
  <2> QED
    BY <1>10, <2>1, <2>2, <2>3, TaskQuiet DEF Fail
<1>11. CASE FailForGood(t)
  <2>1. RowsAhead
    BY <1>11, <1>t, <1>r, RowsIdle DEF FailForGood
  <2>2. RestTyped
    BY <1>11, <1>t, <1>i DEF FailForGood, RestTyped
  <2>3. Goto(t, "leaving") \/ Goto(t, "finalizing")
    BY <1>11 DEF FailForGood
  <2> QED
    BY <1>11, <2>1, <2>2, <2>3, TaskQuiet DEF FailForGood
<1>12. CASE WriteErrs(t)
  <2>1. Goto(t, "leaving") \/ Goto(t, "finalizing")
    BY <1>12 DEF WriteErrs
  <2> QED
    BY <1>12, <1>r, <1>u, <2>1, TaskQuiet DEF WriteErrs, history
<1>13. CASE ClearCheckpoint(t)
  <2>1. RestTyped
    BY <1>13, <1>t, <1>i DEF ClearCheckpoint, NoCheckpoint, RestTyped, history
  <2> QED
    BY <1>13, <1>r, <2>1, TaskQuiet DEF ClearCheckpoint, history
<1>14. CASE Finalize(t)
  <2>1. Goto(t, "leaving") \/ Goto(t, "clearing")
    BY <1>14 DEF Finalize
  <2> QED
    BY <1>14, <1>r, <1>u, <2>1, TaskQuiet DEF Finalize, history
<1>15. CASE Leave(t)
  <2>n. PICK n \in Task : /\ n.job = t.job /\ n.attempt = t.attempt /\ n.pc = "releasing"
                          /\ tasks' = (tasks \ {t}) \cup {n}
    BY <1>15, Successor DEF Leave
  <2>1. Going
    BY <1>15, <1>r, GotoGoing DEF Leave, history
  <2>2. NoGhostToken'
    <3> SUFFICES ASSUME NEW j \in Jobs, registry'[j] # 0
                 PROVE  \E u \in tasks' : /\ u.job = j /\ u.attempt = registry'[j]
                                          /\ u.pc \notin {"spawned", "releasing"}
      BY DEF NoGhostToken, Holder
    <3>1. registry'[j] = registry[j] /\ ~(j = t.job /\ registry[j] = t.attempt)
      BY <1>15, <1>i DEF Leave
    <3>2. PICK u \in tasks : /\ u.job = j /\ u.attempt = registry[j]
                             /\ u.pc \notin {"spawned", "releasing"}
      BY <3>1 DEF PoolInv, NoGhostToken, Holder
    <3> QED
      BY <2>n, <3>1, <3>2
  <2>3. PromiseStands'
    <3>1. \A j \in Jobs : j # t.job => intents'[j] = intents[j]
      BY <1>15, <1>i DEF Leave
    <3> QED
      BY <1>15, <3>1, GotoPromise DEF Leave, history
  <2>4. registry' \in [Jobs -> Nat] /\ intents' \in [Jobs -> {"none", "User", "ShutdownSuspend"}]
    BY <1>15, <1>t, <1>i DEF Leave
  <2> QED
    BY <1>15, <1>r, <1>u, <2>1, <2>2, <2>3, <2>4, TaskCarried DEF Leave, history
<1>16. CASE Release(t)
  <2>1. tasks' = tasks \ {t} /\ UNCHANGED <<jobs, phase, loop, blocked, tokens, sweep, remote, ckpt, history>>
        /\ permits' = permits + 1 /\ counts' = [counts EXCEPT ![AppOf[t.job]] = @ - 1]
    BY <1>16 DEF Release
  <2>2. /\ IsFiniteSet(tasks') /\ Cardinality(tasks') = Cardinality(tasks) - 1
        /\ tasks' \subseteq Task
    BY <2>1, FS_RemoveElement DEF PoolInv, TypeOK
  <2>3. ASSUME NEW app \in Apps
        PROVE  /\ counts'[app] = Cardinality(RunsOf(app)')
               /\ counts'[app] \in Int /\ counts'[app] <= counts[app]
    <3>c. counts \in [Apps -> Nat] /\ AppOf[t.job] \in Apps
      BY TaskTypes DEF PoolInv, TypeOK
    <3>1. CASE AppOf[t.job] = app
      <4>1. RunsOf(app)' = RunsOf(app) \ {t} /\ t \in RunsOf(app)
        BY <2>1, <3>1 DEF RunsOf
      <4>2. Cardinality(RunsOf(app)') = Cardinality(RunsOf(app)) - 1
        BY <4>1, AccountTyped, FS_RemoveElement
      <4> QED
        BY <2>1, <3>1, <3>c, <4>2, Account, AccountTyped DEF PoolInv
    <3>2. CASE AppOf[t.job] # app
      <4>1. RunsOf(app)' = RunsOf(app)
        BY <2>1, <3>2 DEF RunsOf
      <4> QED
        BY <2>1, <3>2, <3>c, <4>1, Account, AccountTyped DEF PoolInv
    <3> QED
      BY <3>1, <3>2
  <2>4. SlotsAccounted'
    <3>1. permits + Cardinality(tasks) + (IF loop \in {"holding", "capped"} THEN 1 ELSE 0) = Concurrency
          /\ \A app \in Apps : AppLimit[app] > 0 => counts[app] <= AppLimit[app]
      BY DEF PoolInv, SlotsAccounted
    <3>2. \A app \in Apps : AppLimit[app] > 0 => counts'[app] <= AppLimit[app]
      BY <2>3, <3>1, AccountTyped, LimitAssumption
    <3>3. permits' + Cardinality(tasks') + (IF loop' \in {"holding", "capped"} THEN 1 ELSE 0) = Concurrency
      BY <2>1, <2>2, <3>1, AccountTyped
    <3> QED
      BY <2>3, <3>2, <3>3 DEF SlotsAccounted, RunsOf
  <2>5. permits' \in 0..Concurrency /\ counts' \in [Apps -> 0..Concurrency]
    <3>1. permits' \in Int /\ permits' >= 0
      BY <2>1, AccountTyped
    <3>2. counts' \in [Apps -> Int]
      <4>1. counts' \in [Apps -> Int] <=> \A app \in Apps : counts'[app] \in Int
        BY <2>1 DEF PoolInv, TypeOK
      <4> QED
        BY <2>3, <4>1
    <3> QED
      BY <2>2, <2>4, <3>1, <3>2, AccountBounds
  <2>6. TypeOK'
    BY <2>1, <2>2, <2>5 DEF PoolInv, TypeOK, tokens, history
  <2>7. AttemptsApart' /\ DrainSettlesAll'
    BY <2>1 DEF PoolInv, AttemptsApart, DrainSettlesAll, Mine, Fenced, history
  <2>8. LoopInPhase'
    <3>1. \A app \in Apps : counts'[app] \in Nat /\ counts[app] \in Nat /\ counts'[app] <= counts[app]
      BY <2>3, <2>5, AccountTyped
    <3> QED
      BY <2>1, <3>1, LimitAssumption DEF PoolInv, LoopInPhase
  <2>9. NoGhostToken' /\ PromiseStands'
    BY <1>16, <2>1 DEF Release, tokens, history, PoolInv, NoGhostToken, Holder, PromiseStands, Honoured
  <2> QED
    BY <2>2, <2>4, <2>6, <2>7, <2>8, <2>9 DEF PoolInv
<1> QED
  BY <1>1, <1>2, <1>3, <1>4, <1>5, <1>6, <1>7, <1>8, <1>9, <1>10, <1>11, <1>12, <1>13, <1>14,
     <1>15, <1>16 DEF TaskStep

-----------------------------------------------------------------------------
(* The doors *)

\* A step that writes the table and nothing of the pool.
LEMMA TableSafe ==
    ASSUME PoolInv, RowsAhead, UNCHANGED Pooled, remote' \subseteq Jobs \X Nat
    PROVE  PoolInv'
<1>1. Going
  BY StillGoing DEF Pooled, history
<1>2. RestTyped
  BY DEF PoolInv, TypeOK, RestTyped, Pooled, history
<1>3. NoGhostToken' /\ PromiseStands'
  BY DEF Pooled, tokens, history, PoolInv, NoGhostToken, Holder, PromiseStands, Honoured
<1>4. registry' \in [Jobs -> Nat] /\ intents' \in [Jobs -> {"none", "User", "ShutdownSuspend"}]
  BY DEF PoolInv, TypeOK, Pooled, tokens
<1> QED
  BY <1>1, <1>2, <1>3, <1>4, TaskCarried DEF Pooled, tokens, history

\* Every statement of a door but the executors' claim calms the rows.
LEMMA DoorsCalm ==
    ASSUME PoolInv, NEW j \in Jobs,
           Enqueue(j) \/ ApiCancel(j) \/ ApiRetry(j) \/ ApiResume(j) \/ ApiReset(j)
              \/ BackoffElapses(j)
    PROVE  RowsCalm /\ UNCHANGED <<Pooled, remote>>
<1>1. jobs[j] \in Row
  BY TaskTypes
<1>2. CASE Enqueue(j)
  <2>1. PICK max \in MaxAttempts : Insert(j, max, TRUE)
    BY <1>2 DEF Enqueue
  <2>2. max \in Nat
    BY <2>1, PoolAssumption
  <2> QED
    BY <1>1, <1>2, <2>1, <2>2, RowsIdle, RowsSettle DEF Enqueue, Insert
<1>3. CASE ApiCancel(j)
  BY <1>1, <1>3, RowsIdle, RowsSettle DEF ApiCancel, CancelUnclaimed
<1>4. CASE ApiRetry(j)
  BY <1>1, <1>4, RowsIdle, RowsSettle DEF ApiRetry, Retry
<1>5. CASE ApiResume(j)
  BY <1>1, <1>5, RowsIdle, RowsSettle DEF ApiResume, Resume
<1>6. CASE ApiReset(j)
  BY <1>1, <1>6, RowsIdle, RowsSettle DEF ApiReset, Reset
<1>7. CASE BackoffElapses(j)
  BY <1>1, <1>7, RowsIdle, RowsSettle DEF BackoffElapses
<1> QED
  BY <1>2, <1>3, <1>4, <1>5, <1>6, <1>7

\* An executor's claim: the row of a queued job whose target is free.
LEMMA ExecutorClaimsAhead ==
    ASSUME PoolInv, NEW j \in Jobs, ExecutorClaims(j)
    PROVE  /\ RowsAhead /\ jobs[j].status = "queued" /\ TargetFree(j)
           /\ \A i \in Jobs \ {j} : jobs'[i] = jobs[i]
           /\ jobs[j].attempts + 1 \in Nat
<1>1. PICK e \in Executors : ClaimNextForExecutor(j, e, {AppOf[j]}, {})
  BY DEF ExecutorClaims
<1>2. /\ jobs[j].status = "queued" /\ TargetFree(j)
      /\ Write(j, [ClaimedRow(j) EXCEPT !.executor = e])
  BY <1>1 DEF ClaimNextForExecutor, Claimable
<1>3. jobs[j] \in Row /\ jobs[j].attempts \in Nat
  BY TaskTypes
<1> DEFINE r == [ClaimedRow(j) EXCEPT !.executor = e]
<1>4. r \in Row /\ r.status = "running" /\ r.attempts = jobs[j].attempts + 1 /\ Write(j, r)
  BY <1>2, <1>3, ClaimedTyped
<1> HIDE DEF r
<1> QED
  BY <1>2, <1>3, <1>4, ClaimAhead

\* DELETE on a registered run: the promise is made of the attempt that holds the
\* token, and only a run that no other task accompanies gets the strong one.
LEMMA CancelRunningSafe ==
    ASSUME PoolInv, NEW j \in Jobs, ApiCancelRunning(j)
    PROVE  PoolInv'
<1> DEFINE a == registry[j]
<1>1. /\ Alive /\ a # 0 /\ a \in Nat
      /\ fired' = fired \cup {<<j, a>>}
      /\ UNCHANGED <<jobs, phase, slots, tasks, registry, sweep, remote, ckpt, losses, left>>
  BY DEF ApiCancelRunning, PoolInv, TypeOK
<1>b. PICK alone \in BOOLEAN : alone = (\A t \in tasks : t.job = j => t.attempt = a)
  OBVIOUS
<1>2. \/ UNCHANGED <<intents, promised>>
      \/ /\ intents' = [intents EXCEPT ![j] = "User"]
         /\ promised' = promised
      \/ /\ intents' = [intents EXCEPT ![j] = "User"]
         /\ promised' = promised \cup {<<j, a, alone>>}
         /\ \E t \in Holder(j, a) : t.pc \in Undecided
  BY <1>b DEF ApiCancelRunning
<1> HIDE DEF a
<1>3. TypeOK'
  <2>2. promised' \subseteq Jobs \X Nat \X BOOLEAN
    <3>1. <<j, a, alone>> \in Jobs \X Nat \X BOOLEAN
      BY <1>1
    <3> QED
      BY <1>2, <3>1 DEF PoolInv, TypeOK
  <2>3. intents' \in [Jobs -> {"none", "User", "ShutdownSuspend"}]
    BY <1>2 DEF PoolInv, TypeOK
  <2>4. fired' \subseteq Jobs \X Nat
    BY <1>1 DEF PoolInv, TypeOK
  <2> QED
    BY <1>1, <2>2, <2>3, <2>4 DEF PoolInv, TypeOK, slots
<1>4. Going
  BY <1>1, RowsSettle, StillGoing DEF RowsCalm
<1>5. NoGhostToken'
  BY <1>1 DEF PoolInv, NoGhostToken, Holder
<1>6. PromiseStands'
  <2> SUFFICES ASSUME NEW t \in tasks, <<t.job, t.attempt, TRUE>> \in promised'
               PROVE  /\ \A u \in tasks : u.job = t.job => u = t
                      /\ <<t.job, t.attempt>> \in fired'
                      /\ t.pc \in Undecided => intents'[t.job] = "User"
                      /\ Honoured(t)
    BY <1>1 DEF PromiseStands
  <2>t. t.job \in Jobs /\ intents \in [Jobs -> {"none", "User", "ShutdownSuspend"}]
    BY TaskTypes DEF PoolInv, TypeOK
  <2>1. CASE <<t.job, t.attempt, TRUE>> \in promised
    <3>1. /\ \A u \in tasks : u.job = t.job => u = t
          /\ <<t.job, t.attempt>> \in fired
          /\ t.pc \in Undecided => intents[t.job] = "User"
          /\ Honoured(t)
      BY <2>1 DEF PoolInv, PromiseStands
    <3>2. intents[t.job] = "User" => intents'[t.job] = "User"
      BY <1>2, <2>t
    <3> QED
      BY <1>1, <3>1, <3>2
  <2>2. CASE <<t.job, t.attempt, TRUE>> \notin promised
    <3>1. /\ intents' = [intents EXCEPT ![j] = "User"]
          /\ \E u \in Holder(j, a) : u.pc \in Undecided
          /\ <<t.job, t.attempt, TRUE>> = <<j, a, alone>>
      BY <1>2, <2>2
    <3>a. t.job = j /\ t.attempt = a /\ alone
      BY <3>1
    <3>b. \A u \in tasks : u.job = j => u.attempt = a
      BY <1>b, <3>a
    <3>2. \A u \in tasks : u.job = j => u = t
      BY <3>a, <3>b DEF PoolInv, AttemptsApart
    <3>3. t.pc \in Undecided
      BY <3>1, <3>2 DEF Holder
    <3>4. intents'[t.job] = "User"
      BY <2>t, <3>1, <3>a
    <3> QED
      BY <1>1, <3>a, <3>2, <3>3, <3>4 DEF Honoured, Undecided
  <2> QED
    BY <2>1, <2>2
<1> QED
  BY <1>3, <1>4, <1>5, <1>6 DEF PoolInv, Going

\* Every door keeps the invariant.
LEMMA DoorSafe ==
    ASSUME PoolInv, NEW j \in Jobs, Door(j)
    PROVE  PoolInv'
<1>1. CASE Enqueue(j) \/ ApiCancel(j) \/ ApiRetry(j) \/ ApiResume(j) \/ ApiReset(j)
              \/ BackoffElapses(j)
  BY <1>1, DoorsCalm, TableSafe DEF RowsCalm, PoolInv, TypeOK
<1>2. CASE ApiCancelRunning(j)
  BY <1>2, CancelRunningSafe
<1>3. CASE ExecutorClaims(j)
  <2>1. RowsAhead /\ jobs[j].attempts + 1 \in Nat
    BY <1>3, ExecutorClaimsAhead
  <2>2. remote' \subseteq Jobs \X Nat
    BY <1>3, <2>1 DEF ExecutorClaims, PoolInv, TypeOK
  <2> QED
    BY <1>3, <2>1, <2>2, TableSafe DEF ExecutorClaims
<1> QED
  BY <1>1, <1>2, <1>3 DEF Door

\* So does the finish of a remote attempt.
LEMMA FinishSafe ==
    ASSUME PoolInv, NEW l \in remote, ExecutorFinishes(l[1], l[2])
    PROVE  PoolInv' /\ RowsCalm
<1>1. l[1] \in Jobs /\ jobs[l[1]] \in Row
  BY TaskTypes DEF PoolInv, TypeOK
<1>2. RowsCalm
  BY <1>1, RowsIdle, RowsSettle DEF ExecutorFinishes
<1>3. remote' \subseteq Jobs \X Nat
  BY DEF ExecutorFinishes, PoolInv, TypeOK
<1> QED
  BY <1>2, <1>3, TableSafe DEF ExecutorFinishes, RowsCalm

-----------------------------------------------------------------------------
(* The claim loop *)

\* A claim: the new task has a number of its own, the app was under its cap when the
\* loop looked and has only lost tasks since, and no promise outlives the company.
LEMMA ClaimSafe ==
    ASSUME PoolInv, NEW j \in Jobs, LoopClaims(j)
    PROVE  /\ PoolInv' /\ RowsAhead /\ jobs[j].status = "queued" /\ TargetFree(j)
           /\ \A i \in Jobs \ {j} : jobs'[i] = jobs[i]
<1> DEFINE a == jobs[j].attempts + 1
           n == [job |-> j, attempt |-> a, pc |-> "spawned"]
<1>1. /\ loop = "capped" /\ loop' = "idle" /\ AppOf[j] \notin blocked
      /\ jobs[j].status = "queued" /\ TargetFree(j) /\ Write(j, ClaimedRow(j))
      /\ counts' = [counts EXCEPT ![AppOf[j]] = @ + 1]
      /\ tasks' = tasks \cup {n}
      /\ promised' = {<<p[1], p[2], p[3] /\ p[1] # j>> : p \in promised}
      /\ UNCHANGED <<phase, blocked, permits, tokens, sweep, remote, ckpt, losses, left>>
  BY DEF LoopClaims, ClaimNext, Claimable
<1>2. jobs[j] \in Row /\ a \in Nat /\ AppOf[j] \in Apps
  BY TaskTypes, AppAssumption
<1>3. /\ RowsAhead /\ jobs'[j] = ClaimedRow(j)
      /\ \A i \in Jobs \ {j} : jobs'[i] = jobs[i]
      /\ \A t \in tasks : ~(t.job = j /\ t.attempt = a)
  BY <1>1, <1>2, ClaimedTyped, ClaimAhead
<1>4. jobs'[j].attempts = a /\ jobs'[j].status = "running"
  BY <1>2, <1>3, ClaimedTyped
<1>5. n \in Task /\ n.job = j /\ n.attempt = a /\ n.pc = "spawned"
  BY <1>2 DEF Task, PC, Undecided
<1> HIDE DEF n, a
<1>6. n \notin tasks
  BY <1>3, <1>5
<1>7. IsFiniteSet(tasks') /\ Cardinality(tasks') = Cardinality(tasks) + 1 /\ tasks' \subseteq Task
  BY <1>1, <1>5, <1>6, FS_AddElement DEF PoolInv, TypeOK
<1>8. ASSUME NEW app \in Apps
      PROVE  /\ counts'[app] = Cardinality(RunsOf(app)') /\ counts'[app] \in Int
             /\ AppLimit[app] > 0 => counts'[app] <= AppLimit[app]
  <2>c. counts \in [Apps -> Nat] /\ AppLimit[app] \in Nat
    BY LimitAssumption DEF PoolInv, TypeOK
  <2>1. CASE app = AppOf[j]
    <3>1. RunsOf(app)' = RunsOf(app) \cup {n} /\ n \notin RunsOf(app)
      BY <1>1, <1>5, <1>6, <2>1 DEF RunsOf
    <3>2. Cardinality(RunsOf(app)') = Cardinality(RunsOf(app)) + 1
      BY <3>1, AccountTyped, FS_AddElement
    <3>3. counts'[app] = counts[app] + 1 /\ counts[app] = Cardinality(RunsOf(app))
      BY <1>1, <2>1, <2>c, Account DEF PoolInv
    <3>4. AppLimit[app] > 0 => counts[app] < AppLimit[app]
      BY <1>1, <2>1 DEF PoolInv, LoopInPhase
    <3> QED
      BY <2>c, <3>2, <3>3, <3>4
  <2>2. CASE app # AppOf[j]
    <3>1. RunsOf(app)' = RunsOf(app)
      BY <1>1, <1>5, <2>2 DEF RunsOf
    <3>2. counts'[app] = counts[app]
      BY <1>1, <1>2, <2>2, <2>c
    <3> QED
      BY <2>c, <3>1, <3>2, Account DEF PoolInv
  <2> QED
    BY <2>1, <2>2
<1>9. SlotsAccounted'
  <2>1. permits + Cardinality(tasks) + 1 = Concurrency
    BY <1>1, Account DEF PoolInv, InHand
  <2>2. permits' + Cardinality(tasks') + (IF loop' \in {"holding", "capped"} THEN 1 ELSE 0) = Concurrency
    BY <1>1, <1>7, <2>1, AccountTyped
  <2> QED
    BY <1>8, <2>2 DEF SlotsAccounted, RunsOf
<1>10. counts' \in [Apps -> 0..Concurrency] /\ permits' \in 0..Concurrency
  <2>1. counts' \in [Apps -> Int] <=> \A app \in Apps : counts'[app] \in Int
    BY <1>1 DEF PoolInv, TypeOK
  <2>2. permits' \in Int /\ permits' >= 0
    BY <1>1, AccountTyped
  <2> QED
    BY <1>7, <1>8, <1>9, <2>1, <2>2, AccountBounds
<1>11. ASSUME NEW q \in promised'
       PROVE  /\ q \in Jobs \X Nat \X BOOLEAN
              /\ q[3] = TRUE => q \in promised /\ q[1] # j
  <2>1. PICK p \in promised : q = <<p[1], p[2], p[3] /\ p[1] # j>>
    BY <1>1
  <2>2. p \in Jobs \X Nat \X BOOLEAN /\ p = <<p[1], p[2], p[3]>>
    BY DEF PoolInv, TypeOK
  <2>3. PICK b \in BOOLEAN : b = (p[3] /\ p[1] # j)
    OBVIOUS
  <2>4. q = <<p[1], p[2], b>> /\ p[1] \in Jobs /\ p[2] \in Nat
    BY <2>1, <2>2, <2>3
  <2>5. b = TRUE => p[3] = TRUE /\ p[1] # j
    BY <2>2, <2>3
  <2>6. b = TRUE => q = p
    BY <2>2, <2>4, <2>5
  <2> QED
    BY <2>4, <2>5, <2>6
<1>12. TypeOK'
  BY <1>1, <1>3, <1>7, <1>10, <1>11 DEF PoolInv, TypeOK, RowsAhead, tokens
<1>13. AttemptsApart'
  <2> SUFFICES ASSUME NEW t \in tasks'
               PROVE  /\ t.attempt <= jobs'[t.job].attempts /\ jobs'[t.job].status # "absent"
                      /\ \A u \in tasks' : u.job = t.job /\ u.attempt = t.attempt => u = t
    BY DEF AttemptsApart
  <2>1. CASE t = n
    BY <1>1, <1>2, <1>3, <1>4, <1>5, <2>1
  <2>2. CASE t # n
    BY <1>1, <1>3, <1>5, <2>2 DEF PoolInv, AttemptsApart, RowsAhead
  <2> QED
    BY <2>1, <2>2
<1>14. LoopInPhase' /\ DrainSettlesAll'
  BY <1>1 DEF PoolInv, LoopInPhase, DrainSettlesAll
<1>15. NoGhostToken'
  BY <1>1 DEF PoolInv, NoGhostToken, Holder, tokens
<1>16. PromiseStands'
  <2> SUFFICES ASSUME NEW t \in tasks', <<t.job, t.attempt, TRUE>> \in promised'
               PROVE  /\ \A u \in tasks' : u.job = t.job => u = t
                      /\ <<t.job, t.attempt>> \in fired'
                      /\ t.pc \in Undecided => intents'[t.job] = "User"
                      /\ Honoured(t)
    BY DEF PromiseStands, Honoured
  <2>1. <<t.job, t.attempt, TRUE>> \in promised /\ t.job # j
    BY <1>11
  <2>2. t \in tasks
    BY <1>1, <1>5, <2>1
  <2> QED
    BY <1>1, <1>5, <2>1, <2>2 DEF PoolInv, PromiseStands, tokens
<1> QED
  BY <1>1, <1>3, <1>7, <1>9, <1>12, <1>13, <1>14, <1>15, <1>16 DEF PoolInv

\* A step of the process that leaves the rows, the tasks and the tokens, and whose
\* account is still right.
LEMMA PhaseSafe ==
    ASSUME PoolInv, TypeOK', SlotsAccounted', LoopInPhase', DrainSettlesAll',
           UNCHANGED <<jobs, tasks, tokens, history>>
    PROVE  PoolInv'
BY DEF PoolInv, tokens, history, AttemptsApart, NoGhostToken, Holder, PromiseStands, Honoured

\* Every step of the loop keeps the invariant.
LEMMA LoopSafe ==
    ASSUME PoolInv, Loop
    PROVE  PoolInv'
<1>c. Concurrency \in Nat /\ permits \in 0..Concurrency /\ Cardinality(tasks) \in Nat
  BY AccountTyped, ConcurrencyAssumption DEF PoolInv, TypeOK
<1>a. /\ permits + Cardinality(tasks) + InHand = Concurrency
      /\ \A app \in Apps : /\ counts[app] = Cardinality(RunsOf(app))
                           /\ AppLimit[app] > 0 => counts[app] <= AppLimit[app]
  BY Account DEF PoolInv
<1>b. /\ permits' + Cardinality(tasks) + (IF loop' \in {"holding", "capped"} THEN 1 ELSE 0)
           = Concurrency
      /\ UNCHANGED <<tasks, counts>>
      => SlotsAccounted'
  BY <1>a DEF SlotsAccounted, RunsOf
<1>1. CASE LoopAcquires
  <2>1. TypeOK'
    BY <1>1, <1>c DEF LoopAcquires, PoolInv, TypeOK, tokens, history
  <2>2. SlotsAccounted'
    BY <1>1, <1>a, <1>b, <1>c DEF LoopAcquires, InHand
  <2>3. LoopInPhase' /\ DrainSettlesAll'
    BY <1>1 DEF LoopAcquires, PoolInv, LoopInPhase, DrainSettlesAll
  <2> QED
    BY <1>1, <2>1, <2>2, <2>3, PhaseSafe DEF LoopAcquires
<1>2. CASE LoopReadsCaps
  <2>1. TypeOK'
    BY <1>2 DEF LoopReadsCaps, Capped, PoolInv, TypeOK, tokens, history
  <2>2. SlotsAccounted'
    BY <1>2, <1>a, <1>b, <1>c DEF LoopReadsCaps, InHand
  <2>3. LoopInPhase' /\ DrainSettlesAll'
    <3>1. \A app \in Apps \ Capped : AppLimit[app] > 0 => counts[app] < AppLimit[app]
      BY AccountTyped, LimitAssumption DEF Capped
    <3> QED
      BY <1>2, <3>1 DEF LoopReadsCaps, PoolInv, LoopInPhase, DrainSettlesAll
  <2> QED
    BY <1>2, <2>1, <2>2, <2>3, PhaseSafe DEF LoopReadsCaps
<1>3. CASE \E j \in Jobs : LoopClaims(j)
  BY <1>3, ClaimSafe
<1>4. CASE LoopClaimsNothing
  <2>1. permits' = permits + 1 /\ permits + Cardinality(tasks) + 1 = Concurrency
    BY <1>4, <1>a DEF LoopClaimsNothing, InHand
  <2>2. TypeOK'
    <3>1. permits' \in 0..Concurrency
      BY <2>1, <1>c
    <3> QED
      BY <1>4, <3>1 DEF LoopClaimsNothing, PoolInv, TypeOK, tokens, history
  <2>3. SlotsAccounted'
    BY <1>4, <2>1, <1>b, <1>c DEF LoopClaimsNothing
  <2>4. LoopInPhase' /\ DrainSettlesAll'
    BY <1>4 DEF LoopClaimsNothing, PoolInv, LoopInPhase, DrainSettlesAll
  <2> QED
    BY <1>4, <2>2, <2>3, <2>4, PhaseSafe DEF LoopClaimsNothing
<1>5. CASE LoopBreaks
  <2>1. permits' = permits + InHand /\ permits' + Cardinality(tasks) = Concurrency
    BY <1>5, <1>a, <1>c DEF LoopBreaks, InHand
  <2>2. TypeOK'
    <3>1. permits' \in 0..Concurrency
      BY <2>1, <1>c DEF InHand
    <3> QED
      BY <1>5, <3>1 DEF LoopBreaks, PoolInv, TypeOK, tokens, history
  <2>3. SlotsAccounted'
    <3>1. permits' + Cardinality(tasks) + 0 = Concurrency
      BY <2>1, <1>c DEF InHand
    <3> QED
      BY <1>5, <3>1, <1>b DEF LoopBreaks
  <2>4. LoopInPhase' /\ DrainSettlesAll'
    BY <1>5 DEF LoopBreaks, PoolInv, LoopInPhase, DrainSettlesAll
  <2> QED
    BY <1>5, <2>2, <2>3, <2>4, PhaseSafe DEF LoopBreaks
<1> QED
  BY <1>1, <1>2, <1>3, <1>4, <1>5 DEF Loop

-----------------------------------------------------------------------------
(* The drain, the end and the boot *)

\* All permits back means no task left.
LEMMA IdleMeansEmpty ==
    ASSUME PoolInv, Idle
    PROVE  tasks = {}
<1>1. Cardinality(tasks) = 0
  BY Account, AccountTyped, ConcurrencyAssumption DEF PoolInv, Idle
<1> QED
  BY <1>1, FS_EmptySet DEF PoolInv

\* The drain, sweep by sweep.
LEMMA DrainSafe ==
    ASSUME PoolInv, Drain \/ Shutdown \/ Crash \/ Boot
    PROVE  PoolInv'
<1>s. UNCHANGED <<slots, tasks>> => SlotsAccounted'
  BY DEF PoolInv, SlotsAccounted, slots
<1>j. jobs \in [Jobs -> Row] /\ \A j \in Jobs : jobs[j].attempts \in Nat
  BY TaskTypes
<1>r. AllRunning \subseteq Jobs \X Nat
  BY <1>j DEF AllRunning, Running
<1>1. CASE DrainsCleanly
  <2>1. TypeOK'
    BY <1>1 DEF DrainsCleanly, PoolInv, TypeOK, slots, tokens, history
  <2>2. LoopInPhase' /\ DrainSettlesAll'
    BY <1>1, IdleMeansEmpty DEF DrainsCleanly, PoolInv, LoopInPhase, DrainSettlesAll, slots
  <2> QED
    BY <1>1, <1>s, <2>1, <2>2, PhaseSafe DEF DrainsCleanly
<1>2. CASE DrainSuspends
  <2>1. fired' \subseteq Jobs \X Nat /\ fired \subseteq fired'
    BY <1>2 DEF DrainSuspends, PoolInv, TypeOK
  <2>2. TypeOK'
    BY <1>2, <2>1 DEF DrainSuspends, PoolInv, TypeOK, slots, history
  <2>3. LoopInPhase' /\ DrainSettlesAll'
    BY <1>2 DEF DrainSuspends, PoolInv, LoopInPhase, DrainSettlesAll, slots
  <2>4. AttemptsApart' /\ NoGhostToken' /\ PromiseStands'
    BY <1>2, <2>1 DEF DrainSuspends, PoolInv, AttemptsApart, NoGhostToken, Holder, PromiseStands,
       Honoured, history
  <2> QED
    BY <1>2, <1>s, <2>2, <2>3, <2>4 DEF DrainSuspends, PoolInv
<1>3. CASE DrainSweeps
  <2>1. TypeOK'
    BY <1>3, <1>r DEF DrainSweeps, PoolInv, TypeOK, slots, tokens, history
  <2>2. \A t \in tasks : Mine(t) => <<t.job, t.attempt>> \in AllRunning
    BY TaskTypes DEF Mine, Fenced, AllRunning, Running
  <2>3. LoopInPhase' /\ DrainSettlesAll'
    BY <1>3, <2>2 DEF DrainSweeps, PoolInv, LoopInPhase, DrainSettlesAll, slots, Mine, Fenced
  <2> QED
    BY <1>3, <1>s, <2>1, <2>3, PhaseSafe DEF DrainSweeps
<1>4. CASE \E s \in sweep : SweepVerdict(s[1], s[2])
  <2>s. PICK j \in Jobs, a \in Nat : SweepVerdict(j, a)
    BY <1>4 DEF PoolInv, TypeOK
  <2>1. RowsAhead
    BY <2>s, <1>j, RowsIdle, RowsSettle DEF SweepVerdict, FailRow, RowsCalm
  <2>2. /\ losses' \in [Jobs -> Nat] /\ sweep' = sweep \ {<<j, a>>}
        /\ UNCHANGED <<phase, slots, tasks, tokens, remote, ckpt, promised, left>>
    BY <2>s DEF SweepVerdict, FailRow, PoolInv, TypeOK
  <2>3. TypeOK'
    BY <2>1, <2>2 DEF PoolInv, TypeOK, RowsAhead, slots, tokens
  <2>4. ~Fenced(j, a)'
    <3>1. CASE Fenced(j, a)
      <4>1. /\ Idling(j, IF Retryable(j) THEN RequeuedRow(j, 0) ELSE FailedRow(j, 0))
            /\ Write(j, IF Retryable(j) THEN RequeuedRow(j, 0) ELSE FailedRow(j, 0))
        BY <2>s, <3>1, <1>j, RowsIdle DEF SweepVerdict, FailRow
      <4> QED
        BY <4>1, <1>j DEF Idling, Write, Fenced
    <3>2. CASE ~Fenced(j, a)
      BY <2>s, <3>2 DEF SweepVerdict, Fenced
    <3> QED
      BY <3>1, <3>2
  <2>5. DrainSettlesAll'
    BY <2>1, <2>2, <2>4 DEF PoolInv, DrainSettlesAll, RowsAhead, Mine
  <2>6. AttemptsApart' /\ LoopInPhase' /\ NoGhostToken' /\ PromiseStands'
    BY <2>1, <2>2 DEF PoolInv, AttemptsApart, RowsAhead, LoopInPhase, NoGhostToken, Holder,
       PromiseStands, Honoured, slots, tokens
  <2> QED
    BY <1>s, <2>2, <2>3, <2>5, <2>6 DEF PoolInv
<1>5. CASE SweepEnds
  <2>1. TypeOK'
    BY <1>5 DEF SweepEnds, PoolInv, TypeOK, slots, tokens, history
  <2>2. LoopInPhase' /\ DrainSettlesAll'
    BY <1>5 DEF SweepEnds, PoolInv, LoopInPhase, DrainSettlesAll, slots, history, Mine, Fenced
  <2> QED
    BY <1>5, <1>s, <2>1, <2>2, PhaseSafe DEF SweepEnds
<1>9. CASE SweepCut
  <2>1. /\ TypeOK' /\ left' = (IF phase = "sweeping" THEN sweep \cup left ELSE left)
        /\ UNCHANGED <<jobs, phase, slots, tasks, tokens, promised>>
    BY <1>9 DEF SweepCut, PoolInv, TypeOK, slots, tokens
  <2>2. LoopInPhase' /\ AttemptsApart' /\ NoGhostToken' /\ PromiseStands'
    BY <2>1 DEF PoolInv, LoopInPhase, AttemptsApart, NoGhostToken, Holder, PromiseStands, Honoured,
       slots, tokens
  <2>3. DrainSettlesAll'
    BY <2>1, <1>9 DEF SweepCut, PoolInv, DrainSettlesAll, Mine, Fenced
  <2> QED
    BY <1>s, <2>1, <2>2, <2>3 DEF PoolInv
<1>6. CASE Exit \/ Crash
  <2>1. Gone
    BY <1>6 DEF Exit, Crash
  <2>2. TypeOK' /\ IsFiniteSet(tasks')
    BY <2>1, ConcurrencyAssumption, FS_EmptySet DEF Gone, PoolInv, TypeOK, history
  <2>3. SlotsAccounted'
    <3>1. Cardinality({}) = 0 /\ \A app \in Apps : {t \in {} : AppOf[t.job] = app} = {}
      BY FS_EmptySet
    <3> QED
      BY <2>1, <3>1, ConcurrencyAssumption, LimitAssumption DEF Gone, SlotsAccounted
  <2>4. /\ AttemptsApart' /\ LoopInPhase' /\ NoGhostToken' /\ DrainSettlesAll' /\ PromiseStands'
    BY <2>1 DEF Gone, AttemptsApart, LoopInPhase, NoGhostToken, DrainSettlesAll, PromiseStands
  <2> QED
    BY <2>2, <2>3, <2>4 DEF PoolInv
<1>7. CASE Boot
  <2>1. TypeOK'
    BY <1>7, <1>r DEF Boot, PoolInv, TypeOK, slots, tokens, history
  <2>2. LoopInPhase' /\ DrainSettlesAll'
    BY <1>7 DEF Boot, PoolInv, LoopInPhase, DrainSettlesAll, slots
  <2> QED
    BY <1>7, <1>s, <2>1, <2>2, PhaseSafe DEF Boot
<1>8. CASE Shutdown
  <2>1. TypeOK'
    BY <1>8 DEF Shutdown, PoolInv, TypeOK, slots, tokens, history
  <2>2. LoopInPhase' /\ DrainSettlesAll'
    BY <1>8 DEF Shutdown, PoolInv, LoopInPhase, DrainSettlesAll, slots
  <2> QED
    BY <1>8, <1>s, <2>1, <2>2, PhaseSafe DEF Shutdown
<1> QED
  BY <1>1, <1>2, <1>3, <1>4, <1>5, <1>6, <1>7, <1>8, <1>9 DEF Drain

-----------------------------------------------------------------------------
(* The theorems *)

LEMMA PoolInit == Init => PoolInv
<1> SUFFICES ASSUME Init PROVE PoolInv
  OBVIOUS
<1>1. TypeOK
  <2>1. AbsentRow \in Row /\ NoCheckpoint \in [by : Nat, resumes : Nat]
    BY DEF AbsentRow, Row, Status, NoCheckpoint
  <2>2. 0 \in 0..Concurrency /\ Concurrency \in 0..Concurrency
    BY ConcurrencyAssumption
  <2> QED
    BY <2>1, <2>2 DEF Init, TypeOK
<1>2. IsFiniteSet(tasks) /\ Cardinality(tasks) = 0
  BY FS_EmptySet DEF Init
<1>3. SlotsAccounted
  <2>1. \A app \in Apps : {t \in tasks : AppOf[t.job] = app} = tasks
    BY DEF Init
  <2> QED
    BY <1>2, <2>1, ConcurrencyAssumption, LimitAssumption DEF Init, SlotsAccounted
<1> QED
  BY <1>1, <1>2, <1>3 DEF Init, PoolInv, AttemptsApart, LoopInPhase, NoGhostToken,
     DrainSettlesAll, PromiseStands

LEMMA PoolStep == PoolInv /\ [Next]_vars => PoolInv'
<1> SUFFICES ASSUME PoolInv, [Next]_vars PROVE PoolInv'
  OBVIOUS
<1>1. CASE Loop
  BY <1>1, LoopSafe
<1>2. CASE \E t \in tasks : TaskStep(t)
  BY <1>2, TaskSafe
<1>3. CASE \E j \in Jobs : Door(j)
  BY <1>3, DoorSafe
<1>4. CASE \E l \in remote : ExecutorFinishes(l[1], l[2])
  BY <1>4, FinishSafe
<1>5. CASE Drain \/ Shutdown \/ Crash \/ Boot
  BY <1>5, DrainSafe
<1>6. CASE UNCHANGED vars
  BY <1>6, RowsSettle, TableSafe DEF vars, Pooled, RowsCalm, PoolInv, TypeOK
<1> QED
  BY <1>1, <1>2, <1>3, <1>4, <1>5, <1>6 DEF Next

\* The pool is accounted for between any two steps: every permit is free, in the loop's
\* hand or with one task, a registered token has a task that will take it out, promises
\* stand, and a drain that is over has nothing to write but what its sweep was cut short of.
THEOREM PoolInvariant == Spec => []PoolInv
<1>1. Init => PoolInv
  BY PoolInit
<1>2. PoolInv /\ [Next]_vars => PoolInv'
  BY PoolStep
<1> QED
  BY <1>1, <1>2, PTL DEF Spec

\* The semaphore and the per-app counts are exact, so a full semaphore means an idle
\* worker and the app cap caps runs, through claims, crashes and drains.
THEOREM SlotsAlwaysAccounted == Spec => []SlotsAccounted
<1>1. PoolInv => SlotsAccounted
  BY DEF PoolInv
<1> QED
  BY <1>1, PoolInvariant, PTL

\* DELETE's promise to the only run of a job is kept, whichever of the drain and the
\* user fires the token first.
THEOREM SoleCancelAlwaysWins == Spec => []SoleCancelWins
<1>1. PoolInv => SoleCancelWins
  BY DEF PoolInv, PromiseStands, SoleCancelWins
<1> QED
  BY <1>1, PoolInvariant, PTL

-----------------------------------------------------------------------------
(* Targets *)

\* Rows that no step newly runs leave the targets apart; a claim checked its own.
LEMMA CalmKeepsTargets ==
    ASSUME TargetMutex, RowsCalm
    PROVE  TargetMutex'
BY DEF TargetMutex, Running, RowsCalm

LEMMA ClaimKeepsTargets ==
    ASSUME TargetMutex, NEW j \in Jobs, TargetFree(j),
           \A i \in Jobs \ {j} : jobs'[i] = jobs[i]
    PROVE  TargetMutex'
<1>1. \A k \in Running' : k # j => k \in Running
  BY DEF Running
<1> QED
  BY <1>1 DEF TargetMutex, TargetFree, Running

\* What a task writes runs no row.
LEMMA TaskCalm ==
    ASSUME PoolInv, NEW t \in tasks, TaskStep(t)
    PROVE  RowsCalm
<1>1. t.job \in Jobs /\ jobs[t.job] \in Row
  BY TaskTypes
<1>2. \/ UNCHANGED jobs
      \/ \E r : Write(t.job, r) /\ Idling(t.job, r)
  <2>1. CASE Register(t) \/ Refuse(t) \/ LoadRestore(t) \/ SaveCheckpoint(t) \/ Outcome(t)
             \/ Resolve(t) \/ WriteErrs(t) \/ ClearCheckpoint(t) \/ Finalize(t) \/ Leave(t)
             \/ Release(t)
    BY <2>1 DEF Register, Refuse, LoadRestore, SaveCheckpoint, Outcome, Resolve, WriteErrs,
       ClearCheckpoint, Finalize, Leave, Release
  <2>2. CASE Succeed(t) \/ CancelRun(t)
    BY <1>1, <2>2, RowsIdle DEF Succeed, CancelRun
  <2>3. CASE Park(t) \/ Suspend(t)
    BY <1>1, <2>3, RowsIdle DEF Park, Suspend, Reset
  <2>4. CASE Fail(t) \/ FailForGood(t)
    BY <1>1, <2>4, RowsIdle DEF Fail, FailRow, FailForGood
  <2> QED
    BY <2>1, <2>2, <2>3, <2>4 DEF TaskStep
<1> QED
  BY <1>1, <1>2, RowsSettle

\* The worker's claims and the executors' are the only statements that run a row, and
\* each finds its target free: two jobs on one target never run at once, through
\* resets, sweeps, crashes and superseded attempts.
THEOREM PoolTargetMutex == Spec => []TargetMutex
<1>1. Init => TargetMutex
  BY DEF Init, TargetMutex, Running, AbsentRow
<1>2. PoolInv /\ TargetMutex /\ [Next]_vars => TargetMutex'
  <2> SUFFICES ASSUME PoolInv, TargetMutex, [Next]_vars PROVE TargetMutex'
    OBVIOUS
  <2>1. CASE \E j \in Jobs : LoopClaims(j)
    BY <2>1, ClaimSafe, ClaimKeepsTargets
  <2>2. CASE \E j \in Jobs : ExecutorClaims(j)
    BY <2>2, ExecutorClaimsAhead, ClaimKeepsTargets
  <2>3. CASE \E t \in tasks : TaskStep(t)
    BY <2>3, TaskCalm, CalmKeepsTargets
  <2>4. CASE \E j \in Jobs : Door(j) /\ ~ExecutorClaims(j)
    <3>1. PICK j \in Jobs : Door(j) /\ ~ExecutorClaims(j)
      BY <2>4
    <3>2. CASE ApiCancelRunning(j)
      BY <3>2, RowsSettle, CalmKeepsTargets DEF ApiCancelRunning
    <3>3. CASE ~ApiCancelRunning(j)
      BY <3>1, <3>3, DoorsCalm, CalmKeepsTargets DEF Door
    <3> QED
      BY <3>2, <3>3
  <2>5. CASE \E l \in remote : ExecutorFinishes(l[1], l[2])
    BY <2>5, FinishSafe, CalmKeepsTargets
  <2>6. CASE \E s \in sweep : SweepVerdict(s[1], s[2])
    <3>1. PICK j \in Jobs, a \in Nat : SweepVerdict(j, a)
      BY <2>6 DEF PoolInv, TypeOK
    <3>2. RowsCalm
      BY <3>1, TaskTypes, RowsIdle, RowsSettle DEF SweepVerdict, FailRow
    <3> QED
      BY <3>2, CalmKeepsTargets
  <2>7. CASE UNCHANGED jobs
    BY <2>7, RowsSettle, CalmKeepsTargets
  <2> QED
    BY <2>1, <2>2, <2>3, <2>4, <2>5, <2>6, <2>7 DEF Next, Loop, LoopAcquires, LoopReadsCaps,
       LoopClaimsNothing, LoopBreaks, Drain, DrainsCleanly, DrainSuspends, DrainSweeps, SweepCut, SweepEnds,
       Exit, Crash, Gone, Boot, Shutdown, vars
<1> QED
  BY <1>1, <1>2, PoolInvariant, PTL DEF Spec

\* A run that lost its row writes nothing to any row, except through the suspend arm:
\* the fence of every verdict tests the attempt.
THEOREM StaleTasksHarmless == Spec => StaleTaskHarmless
<1>1. \A t \in tasks : TaskStep(t) /\ ~Mine(t) /\ t.pc # "suspending" => jobs' = jobs
  <2> SUFFICES ASSUME NEW t \in tasks, TaskStep(t), ~Mine(t), t.pc # "suspending"
               PROVE  jobs' = jobs
    OBVIOUS
  <2>1. CASE Register(t) \/ Refuse(t) \/ LoadRestore(t) \/ SaveCheckpoint(t) \/ Outcome(t)
             \/ Resolve(t) \/ WriteErrs(t) \/ ClearCheckpoint(t) \/ Finalize(t) \/ Leave(t)
             \/ Release(t)
    BY <2>1 DEF Register, Refuse, LoadRestore, SaveCheckpoint, Outcome, Resolve, WriteErrs,
       ClearCheckpoint, Finalize, Leave, Release
  <2>2. CASE Succeed(t) \/ CancelRun(t) \/ Park(t)
    BY <2>2 DEF Succeed, CancelRun, Park
  <2>3. CASE Suspend(t)
    BY <2>3 DEF Suspend
  <2>4. CASE Fail(t) \/ FailForGood(t)
    BY <2>4 DEF Fail, FailForGood
  <2> QED
    BY <2>1, <2>2, <2>3, <2>4 DEF TaskStep
<1> QED
  BY <1>1, PTL DEF Spec, StaleTaskHarmless

-----------------------------------------------------------------------------
(* The lifecycle *)

\* A row that was never inserted has had no attempt.
Unborn == \A j \in Jobs : jobs[j].status = "absent" => jobs[j].attempts = 0

\* What a write may make of a row: a move of the lifecycle, or the same phase.
Onward(j, r) ==
    /\ <<jobs[j].status, r.status>> \in Lifecycle!Moves \/ r.status = jobs[j].status
    /\ r.attempts = jobs[j].attempts
    /\ r.status # "absent"

\* What a claim makes of it.
Handed(j, r) ==
    /\ jobs[j].status = "queued" /\ r.status = "running"
    /\ r.attempts = jobs[j].attempts + 1

\* What a step does to the table: nothing, one write of a verdict or a door, one claim.
OneRow ==
    \/ UNCHANGED jobs
    \/ \E j \in Jobs : \E r : Write(j, r) /\ (Onward(j, r) \/ Handed(j, r))

\* The verdicts of a running row.
LEMMA VerdictsOnward ==
    ASSUME NEW j \in Jobs, jobs[j] \in Row, jobs[j].status = "running"
    PROVE  /\ Onward(j, SucceededRow(j)) /\ Onward(j, CancelledRow(j))
           /\ Onward(j, FailedRow(j, 0)) /\ Onward(j, RequeuedRow(j, 0))
           /\ Onward(j, WaitingRow(j, FALSE)) /\ Onward(j, ReopenedRow(j))
<1>1. Onward(j, SucceededRow(j)) /\ Onward(j, CancelledRow(j))
  BY DEF Onward, Row, SucceededRow, CancelledRow, Lifecycle!Moves
<1>2. Onward(j, FailedRow(j, 0)) /\ Onward(j, RequeuedRow(j, 0))
  BY DEF Onward, Row, FailedRow, RequeuedRow, Lifecycle!Moves
<1>3. Onward(j, WaitingRow(j, FALSE)) /\ Onward(j, ReopenedRow(j))
  BY DEF Onward, Row, WaitingRow, ReopenedRow, Lifecycle!Moves
<1> QED
  BY <1>1, <1>2, <1>3

\* A task writes its row only while the row runs: under the fence, or, suspending,
\* under the status.
LEMMA TaskOneRow ==
    ASSUME PoolInv, NEW t \in tasks, TaskStep(t)
    PROVE  OneRow
<1>1. t.job \in Jobs /\ jobs[t.job] \in Row
  BY TaskTypes
<1>2. CASE Register(t) \/ Refuse(t) \/ LoadRestore(t) \/ SaveCheckpoint(t) \/ Outcome(t)
           \/ Resolve(t) \/ WriteErrs(t) \/ ClearCheckpoint(t) \/ Finalize(t) \/ Leave(t)
           \/ Release(t)
  BY <1>2 DEF Register, Refuse, LoadRestore, SaveCheckpoint, Outcome, Resolve, WriteErrs,
     ClearCheckpoint, Finalize, Leave, Release, OneRow
<1>3. CASE Succeed(t) \/ CancelRun(t)
  BY <1>1, <1>3, VerdictsOnward DEF Succeed, CancelRun, Mine, Fenced, OneRow
<1>4. CASE Park(t) \/ Suspend(t)
  BY <1>1, <1>4, VerdictsOnward DEF Park, Suspend, Reset, Mine, Fenced, OneRow
<1>5. CASE Fail(t) \/ FailForGood(t)
  BY <1>1, <1>5, VerdictsOnward DEF Fail, FailRow, FailForGood, Mine, Fenced, OneRow
<1> QED
  BY <1>2, <1>3, <1>4, <1>5 DEF TaskStep

\* The doors: an enqueue brings an attempt count of 0, which the absent row had.
LEMMA DoorOneRow ==
    ASSUME PoolInv, Unborn, NEW j \in Jobs, Door(j)
    PROVE  OneRow
<1>1. jobs[j] \in Row
  BY TaskTypes
<1>2. CASE Enqueue(j)
  <2>1. PICK max \in MaxAttempts : Insert(j, max, TRUE)
    BY <1>2 DEF Enqueue
  <2> DEFINE r == [AbsentRow EXCEPT !.status = "queued",
                                    !.maxAttempts = Larger(max, 1), !.due = TRUE]
  <2>2. Write(j, r) /\ jobs[j].status = "absent" /\ jobs[j].attempts = 0
    BY <2>1 DEF Insert, Unborn
  <2>3. r.status = "queued" /\ r.attempts = 0
    BY DEF AbsentRow
  <2>4. Onward(j, r)
    <3> HIDE DEF r
    <3> QED BY <2>2, <2>3 DEF Onward, Lifecycle!Moves
  <2> QED
    BY <2>2, <2>4 DEF OneRow
<1>3. CASE ApiCancel(j)
  <2>1. jobs[j].status \in {"queued", "waiting"} /\ Write(j, CancelledRow(j))
    BY <1>3 DEF ApiCancel, CancelUnclaimed
  <2>2. Onward(j, CancelledRow(j))
    BY <1>1, <2>1 DEF Onward, Row, CancelledRow, Lifecycle!Moves
  <2> QED
    BY <2>1, <2>2 DEF OneRow
<1>4. CASE ApiRetry(j) \/ ApiReset(j)
  <2>1. jobs[j].status \in {"failed", "cancelled", "running"} /\ Write(j, ReopenedRow(j))
    BY <1>4 DEF ApiRetry, ApiReset, Retry, Reset
  <2>2. Onward(j, ReopenedRow(j))
    BY <1>1, <2>1 DEF Onward, Row, ReopenedRow, Lifecycle!Moves
  <2> QED
    BY <2>1, <2>2 DEF OneRow
<1>5. CASE ApiResume(j)
  <2> DEFINE r == [ReopenedRow(j) EXCEPT !.deadline = "none"]
  <2>1. jobs[j].status = "waiting" /\ Write(j, r)
    BY <1>5 DEF ApiResume, Resume
  <2>2. Onward(j, r)
    BY <1>1, <2>1 DEF Onward, Row, ReopenedRow, Lifecycle!Moves
  <2> QED
    BY <2>1, <2>2 DEF OneRow
<1>6. CASE BackoffElapses(j)
  <2> DEFINE r == [jobs[j] EXCEPT !.due = TRUE]
  <2>1. jobs[j].status = "queued" /\ Write(j, r)
    BY <1>6 DEF BackoffElapses
  <2>2. Onward(j, r)
    BY <1>1, <2>1 DEF Onward, Row
  <2> QED
    BY <2>1, <2>2 DEF OneRow
<1>7. CASE ExecutorClaims(j)
  <2>1. PICK e \in Executors : ClaimNextForExecutor(j, e, {AppOf[j]}, {})
    BY <1>7 DEF ExecutorClaims
  <2> DEFINE r == [ClaimedRow(j) EXCEPT !.executor = e]
  <2>2. jobs[j].status = "queued" /\ Write(j, r)
    BY <2>1 DEF ClaimNextForExecutor, Claimable
  <2>3. Handed(j, r)
    BY <1>1, <2>2, ClaimedTyped DEF Handed
  <2> QED
    BY <2>2, <2>3 DEF OneRow
<1>8. CASE ApiCancelRunning(j)
  BY <1>8 DEF ApiCancelRunning, OneRow
<1> QED
  BY <1>2, <1>3, <1>4, <1>5, <1>6, <1>7, <1>8 DEF Door

\* Every step of the process writes one row at most, along the lifecycle.
LEMMA NextOneRow ==
    ASSUME PoolInv, Unborn, [Next]_vars
    PROVE  OneRow
<1>1. CASE \E j \in Jobs : LoopClaims(j)
  <2>1. PICK j \in Jobs : LoopClaims(j)
    BY <1>1
  <2>2. jobs[j].status = "queued" /\ Write(j, ClaimedRow(j))
    BY <2>1 DEF LoopClaims, ClaimNext, Claimable
  <2>3. Handed(j, ClaimedRow(j))
    BY <2>2, TaskTypes, ClaimedTyped DEF Handed
  <2> QED
    BY <2>2, <2>3 DEF OneRow
<1>2. CASE \E t \in tasks : TaskStep(t)
  BY <1>2, TaskOneRow
<1>3. CASE \E j \in Jobs : Door(j)
  BY <1>3, DoorOneRow
<1>4. CASE \E l \in remote : ExecutorFinishes(l[1], l[2])
  <2>1. PICK j \in Jobs, a \in Nat : ExecutorFinishes(j, a)
    BY <1>4 DEF PoolInv, TypeOK
  <2> QED
    BY <2>1, TaskTypes, VerdictsOnward DEF ExecutorFinishes, Fenced, OneRow
<1>5. CASE \E s \in sweep : SweepVerdict(s[1], s[2])
  <2>1. PICK j \in Jobs, a \in Nat : SweepVerdict(j, a)
    BY <1>5 DEF PoolInv, TypeOK
  <2> QED
    BY <2>1, TaskTypes, VerdictsOnward DEF SweepVerdict, FailRow, Fenced, OneRow
<1>6. CASE UNCHANGED jobs
  BY <1>6 DEF OneRow
<1> QED
  BY <1>1, <1>2, <1>3, <1>4, <1>5, <1>6 DEF Next, Loop, LoopAcquires, LoopReadsCaps,
     LoopClaimsNothing, LoopBreaks, Drain, DrainsCleanly, DrainSuspends, DrainSweeps, SweepCut, SweepEnds,
     Exit, Crash, Gone, Boot, Shutdown, vars

\* One row along the lifecycle is a step of the lifecycle in which the others rest.
LEMMA OneRowMoves ==
    ASSUME PoolInv, Unborn, OneRow
    PROVE  /\ Unborn'
           /\ \A j \in Jobs : Lifecycle!Rest(j) \/ Lifecycle!Move(j) \/ Lifecycle!Grant(j)
<1>1. jobs \in [Jobs -> Row]
  BY TaskTypes
<1>2. CASE UNCHANGED jobs
  BY <1>2 DEF Unborn, Lifecycle!Rest
<1>3. ASSUME NEW j \in Jobs, NEW r, Write(j, r), Onward(j, r) \/ Handed(j, r)
      PROVE  /\ Unborn'
             /\ \A k \in Jobs : Lifecycle!Rest(k) \/ Lifecycle!Move(k) \/ Lifecycle!Grant(k)
  <2>1. jobs'[j] = r /\ \A k \in Jobs \ {j} : jobs'[k] = jobs[k]
    BY <1>1, <1>3 DEF Write
  <2>2. Unborn'
    BY <1>3, <2>1 DEF Unborn, Onward, Handed
  <2>3. Lifecycle!Rest(j) \/ Lifecycle!Move(j) \/ Lifecycle!Grant(j)
    BY <1>3, <2>1 DEF Onward, Handed, Lifecycle!Rest, Lifecycle!Move, Lifecycle!Grant
  <2>4. \A k \in Jobs \ {j} : Lifecycle!Rest(k)
    BY <2>1 DEF Lifecycle!Rest
  <2> QED
    BY <2>2, <2>3, <2>4
<1> QED
  BY <1>2, <1>3 DEF OneRow

\* The process keeps the lifecycle's promise for every interleaving of its loop, its
\* tasks, the doors and the drain, and over crashes and boots: no verdict is undone but by
\* a retry, attempts are handed out one at a time, and one run has a target.
THEOREM PoolImplementsLifecycle == Spec => ImplementsLifecycle
<1>1. Init => Unborn /\ Lifecycle!Init
  <2> SUFFICES ASSUME Init PROVE Unborn /\ Lifecycle!Init
    OBVIOUS
  <2>1. AbsentRow.status = "absent" /\ AbsentRow.attempts = 0
    BY DEF AbsentRow
  <2>0. jobs = [j \in Jobs |-> AbsentRow]
    BY Zenon DEF Init
  <2>2. \A j \in Jobs : jobs[j] = AbsentRow
    BY <2>0, Zenon
  <2> QED
    BY <2>1, <2>2 DEF Unborn, Lifecycle!Init
<1>2. PoolInv /\ Unborn /\ [Next]_vars => Unborn'
  BY NextOneRow, OneRowMoves
<1>3. PoolInv /\ Unborn /\ TargetMutex' /\ [Next]_vars => [Lifecycle!Next]_(Lifecycle!vars)
  <2> SUFFICES ASSUME PoolInv, Unborn, TargetMutex', [Next]_vars PROVE Lifecycle!Next
    OBVIOUS
  <2> DEFINE ph == [j \in Jobs |-> jobs[j].status]
  <2>1. Lifecycle!Exclusive(ph')
    BY DEF Lifecycle!Exclusive, TargetMutex, Running
  <2>2. \A j \in Jobs : Lifecycle!Rest(j) \/ Lifecycle!Move(j) \/ Lifecycle!Grant(j)
    BY NextOneRow, OneRowMoves
  <2> QED
    BY <2>1, <2>2 DEF Lifecycle!Next
<1> QED
  BY <1>1, <1>2, <1>3, PoolInvariant, PoolTargetMutex, PTL DEF Spec, ImplementsLifecycle,
     Lifecycle!Spec
=============================================================================

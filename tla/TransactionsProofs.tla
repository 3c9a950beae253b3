------------------------- MODULE TransactionsProofs -------------------------
(* Proofs about Transactions, for every set of jobs, keys, doors and digests. *)
EXTENDS Transactions, FiniteSetTheorems, TLAPS

-----------------------------------------------------------------------------
(* What the statements and the moves of an attempt do to the state *)

\* Every row of the jobs table that a step writes has the row type.
LEMMA RowsTyped ==
    ASSUME NEW j \in Jobs, jobs[j] \in Row
    PROVE  /\ AbsentRow \in Row
           /\ ClaimedRow(j) \in Row
           /\ SucceededRow(j) \in Row
           /\ CancelledRow(j) \in Row
           /\ FailedRow(j, 0) \in Row
           /\ FailRow(j) \in Row
           /\ WaitingRow(j, FALSE) \in Row
           /\ ReopenedRow(j) \in Row
           /\ [ReopenedRow(j) EXCEPT !.deadline = "none"] \in Row
           /\ [jobs[j] EXCEPT !.status = "failed", !.error = jobs[j].attempts] \in Row
           /\ [AbsentRow EXCEPT !.status = "queued", !.maxAttempts = Larger(MaxAttempts, 1),
                                !.due = TRUE] \in Row
<1>1. AbsentRow \in Row
  BY DEF Row, AbsentRow, Status
<1>2. ClaimedRow(j) \in Row
  <2> DEFINE n == jobs[j].attempts + 1
  <2>1. n \in Nat
    BY DEF Row
  <2>2. [jobs[j] EXCEPT !.status = "running", !.attempts = n, !.fresh = TRUE] \in Row
    <3> HIDE DEF n
    <3> QED BY <2>1 DEF Row, Status
  <2> QED
    BY <2>2 DEF ClaimedRow
<1>3. SucceededRow(j) \in Row /\ CancelledRow(j) \in Row
  BY DEF Row, SucceededRow, CancelledRow, Status, Terminal
<1>4. FailedRow(j, 0) \in Row
  BY DEF Row, FailedRow, Status, Terminal
<1>5. FailRow(j) \in Row
  <2>1. RequeuedRow(j, 0) \in Row
    BY DEF Row, RequeuedRow, Status
  <2> QED
    BY <1>4, <2>1 DEF FailRow, Row
<1>6. WaitingRow(j, FALSE) \in Row
  BY DEF Row, WaitingRow, Status
<1>7. ReopenedRow(j) \in Row
  <2>1. Headroom(j) \in Nat
    BY DEF Row, Headroom, Larger
  <2> QED
    BY <2>1 DEF Row, ReopenedRow, Status
<1>8. [ReopenedRow(j) EXCEPT !.deadline = "none"] \in Row
  BY <1>7 DEF Row
<1>9. [AbsentRow EXCEPT !.status = "queued", !.maxAttempts = Larger(MaxAttempts, 1),
                        !.due = TRUE] \in Row
  <2>1. Larger(MaxAttempts, 1) \in Nat
    BY TransactAssumption DEF Larger
  <2> QED
    BY <1>1, <2>1 DEF Row, Status
<1>10. [jobs[j] EXCEPT !.status = "failed", !.error = jobs[j].attempts] \in Row
  <2>1. jobs[j].attempts \in Nat
    BY DEF Row
  <2> DEFINE n == jobs[j].attempts
  <2> HIDE DEF n
  <2>2. n \in Nat => [jobs[j] EXCEPT !.status = "failed", !.error = n] \in Row
    BY DEF Row, Status, Terminal
  <2> QED
    BY <2>1, <2>2 DEF n
<1> QED
  BY <1>1, <1>2, <1>3, <1>4, <1>5, <1>6, <1>7, <1>8, <1>9, <1>10

\* An attempt that moves on is replaced by its successor, and no other changes.
LEMMA TaskMoves ==
    ASSUME tasks \subseteq Task, IsFiniteSet(tasks), NEW t \in tasks, NEW sha \in Quotes,
           NEW pc \in {"start", "lookup", "insert", "refresh", "reread", "parking",
                       "probe", "click", "receipt", "done", "failing", "refused",
                       "cancelled", "suspended"},
           Goto(t, pc, sha)
    PROVE  /\ tasks' \subseteq Task
           /\ IsFiniteSet(tasks')
           /\ \A u \in tasks' : u \in tasks \/ (u.job = t.job /\ u.pc = pc /\ u.sha = sha)
<1> DEFINE n == [t EXCEPT !.pc = pc, !.sha = sha]
<1>1. n \in Task /\ n.job = t.job /\ n.pc = pc /\ n.sha = sha
  BY DEF Task
<1>2. tasks' = (tasks \ {t}) \cup {n}
  BY DEF Goto
<1>3. IsFiniteSet((tasks \ {t}) \cup {n})
  <2>1. IsFiniteSet(tasks \ {t})
    BY FS_RemoveElement
  <2> HIDE DEF n
  <2> QED
    BY <2>1, FS_AddElement
<1> HIDE DEF n
<1> QED
  BY <1>1, <1>2, <1>3

\* An attempt that ends takes nothing but itself away.
LEMMA TaskLeaves ==
    ASSUME tasks \subseteq Task, IsFiniteSet(tasks), NEW t \in tasks, tasks' = tasks \ {t}
    PROVE  tasks' \subseteq Task /\ IsFiniteSet(tasks') /\ tasks' \subseteq tasks
BY FS_RemoveElement

\* A write to the ledger changes the row of its key alone.
LEMMA EntryWritten ==
    ASSUME ledger \in [Keys -> Entry], NEW k \in Keys, NEW r \in Entry, Enter(k, r)
    PROVE  /\ ledger' \in [Keys -> Entry]
           /\ ledger'[k] = r
           /\ \A i \in Keys \ {k} : ledger'[i] = ledger[i]
BY DEF Enter

\* No step takes a decided row back: what the commit relies on.
Lasting ==
    \A k \in Keys :
        ledger[k].state \in {"approved", "submitted"} =>
            /\ ledger'[k].state \in {"approved", "submitted"}
            /\ ledger'[k].sha = ledger[k].sha

\* Rows are still rows of jobs after a step that lasts.
RowsKept ==
    /\ ledger' \in [Keys -> Entry]
    /\ \A k \in Keys : Named(k, ledger'[k])
    /\ Lasting

\* A write that names a job of the key and keeps what was decided.
LEMMA EntryKept ==
    ASSUME RowInv, NEW k \in Keys, NEW r \in Entry, Enter(k, r), Named(k, r),
           ledger[k].state \in {"approved", "submitted"} =>
               r.state \in {"approved", "submitted"} /\ r.sha = ledger[k].sha
    PROVE  RowsKept
<1>1. ledger' \in [Keys -> Entry] /\ ledger'[k] = r /\ \A i \in Keys \ {k} : ledger'[i] = ledger[i]
  BY EntryWritten DEF RowInv, TypeOK
<1>2. \A i \in Keys : Named(i, ledger[i])
  BY DEF RowInv, RowsNamed
<1>3. \A i \in Keys : Named(i, ledger'[i])
  BY <1>1, <1>2
<1> QED
  BY <1>1, <1>3 DEF RowsKept, Lasting

\* The expiry sweep touches pending rows only.
LEMMA SweepLasts ==
    ASSUME RowInv, Sweep
    PROVE  RowsKept
<1>1. \A k \in Keys : Swept(k) \in Entry /\ Swept(k).job = ledger[k].job
  BY DEF RowInv, TypeOK, Swept, Entry, Settled
<1>2. \A k \in Keys : ledger'[k] \in {Swept(k), ledger[k]}
                      /\ (ledger'[k] = Swept(k) /\ ledger'[k] # ledger[k] => ledger[k].state = "pending")
  BY DEF Sweep
<1>3. ledger' \in [Keys -> Entry]
  BY <1>1 DEF Sweep, RowInv, TypeOK
<1>4. \A k \in Keys : Named(k, ledger'[k])
  <2> SUFFICES ASSUME NEW k \in Keys PROVE Named(k, ledger'[k])
    OBVIOUS
  <2>1. CASE ledger'[k] = ledger[k]
    BY <2>1 DEF RowInv, RowsNamed, Named
  <2>2. CASE ledger'[k] # ledger[k]
    <3>1. ledger[k].state = "pending" /\ ledger'[k] = Swept(k)
      BY <1>2, <2>2
    <3> QED
      BY <1>1, <3>1 DEF RowInv, RowsNamed, Named
  <2> QED
    BY <2>1, <2>2
<1>5. Lasting
  BY <1>2 DEF Lasting
<1> QED
  BY <1>3, <1>4, <1>5 DEF RowsKept

\* A decision moves a pending row and leaves every other one alone.
LEMMA MoveLasts ==
    ASSUME RowInv, NEW k \in Keys, NEW s \in {"approved", "rejected"}, Move(k, s)
    PROVE  /\ RowsKept
           /\ ledger[k].state = "pending" => ledger'[k].state = s /\ ledger'[k].sha = ledger[k].sha
<1> DEFINE r == IF ledger[k].state = "pending" THEN [ledger[k] EXCEPT !.state = s] ELSE ledger[k]
<1>1. ledger[k] \in Entry
  BY DEF RowInv, TypeOK
<1>2. r \in Entry /\ r.job = ledger[k].job /\ r.sha = ledger[k].sha
  BY <1>1 DEF Entry, Settled
<1>3. (ledger[k].state = "pending" => r.state = s) /\ (ledger[k].state # "pending" => r = ledger[k])
  BY <1>1 DEF Entry
<1>4. Enter(k, r)
  BY DEF Move
<1> HIDE DEF r
<1>5. ledger' \in [Keys -> Entry] /\ ledger'[k] = r /\ \A i \in Keys \ {k} : ledger'[i] = ledger[i]
  BY <1>2, <1>4, EntryWritten DEF RowInv, TypeOK
<1>6. \A i \in Keys : Named(i, ledger'[i])
  BY <1>2, <1>3, <1>5 DEF RowInv, RowsNamed, Named
<1>7. Lasting
  BY <1>2, <1>3, <1>5 DEF Lasting
<1> QED
  BY <1>2, <1>3, <1>5, <1>6, <1>7 DEF RowsKept

\* What a handler that moves on or answers leaves of the doors' bookkeeping.
DoorsKept ==
    /\ doors' \in [Doors -> Handler]
    /\ \A d \in Doors :
          /\ Named(doors'[d].key, doors'[d].row)
          /\ doors'[d].pc \in {"mark", "resume", "strike", "cancel"} => doors'[d].row.state = "pending"

\* The idle handler is a handler.
LEMMA IdleTyped == Idle \in Handler /\ Idle.row = NoEntry /\ Idle.pc = "idle" /\ NoEntry.state = "none"
<1>1. (CHOOSE k \in Keys : TRUE) \in Keys
  BY TransactAssumption
<1>2. NoEntry \in Entry /\ NoEntry.state = "none"
  BY DEF NoEntry, Entry, Settled, Quotes
<1> QED
  BY <1>1, <1>2 DEF Idle, Handler, Quotes

\* A door that answers is idle again.
LEMMA AnswerKeeps ==
    ASSUME RowInv, NEW d \in Doors, Answer(d)
    PROVE  DoorsKept
<1>1. doors' \in [Doors -> Handler] /\ doors'[d] = Idle
      /\ \A e \in Doors \ {d} : doors'[e] = doors[e]
  BY IdleTyped DEF RowInv, TypeOK, Answer
<1> QED
  BY <1>1, IdleTyped DEF DoorsKept, RowInv, RowsNamed, Named

\* A door that moves on from a pending row keeps the row it read.
LEMMA ServeKeeps ==
    ASSUME RowInv, NEW d \in Doors, NEW pc \in {"mark", "resume", "cancel"}, Serve(d, pc),
           doors[d].row.state = "pending"
    PROVE  DoorsKept
<1>1. doors[d] \in Handler
  BY DEF RowInv, TypeOK
<1>2. /\ [doors[d] EXCEPT !.pc = pc] \in Handler
      /\ [doors[d] EXCEPT !.pc = pc].row = doors[d].row
      /\ [doors[d] EXCEPT !.pc = pc].key = doors[d].key
  BY <1>1 DEF Handler
<1>3. doors' \in [Doors -> Handler] /\ doors'[d] = [doors[d] EXCEPT !.pc = pc]
      /\ \A e \in Doors \ {d} : doors'[e] = doors[e]
  BY <1>2 DEF RowInv, TypeOK, Serve
<1>4. Named(doors'[d].key, doors'[d].row) /\ doors'[d].row.state = "pending"
  BY <1>2, <1>3 DEF RowInv, RowsNamed
<1> QED
  BY <1>3, <1>4 DEF DoorsKept, RowInv, RowsNamed

\* The row of the key says that the action may run.
Backed(k) == ledger[k].state \in {"approved", "submitted"}

\* The tasks of the next state are tasks, and those that commit have their row.
TasksKept ==
    /\ tasks' \subseteq Task /\ IsFiniteSet(tasks')
    /\ \A u \in tasks' : u.pc \in Committing => Backed(KeyOf[u.job])

\* What was clicked in this step, or before it, has its row too.
ClicksKept ==
    /\ clicks' \in [Keys -> Nat]
    /\ \A k \in Keys : clicks'[k] > 0 => Backed(k)

\* The tables and counters that no invariant but the type speaks of.
RestTyped ==
    /\ jobs' \in [Jobs -> Row] /\ input' \in [Jobs -> BOOLEAN]
    /\ page' \in Digests /\ faults' \in 0..FaultBound
    /\ mishaps' \in [Keys -> Nat]
    /\ signed' \in [Keys -> Quotes] /\ misquoted' \subseteq Keys

\* A step that keeps the rows, the doors, the tasks and the clicks keeps the
\* invariant.
LEMMA Carried ==
    ASSUME RowInv, RowsKept, DoorsKept, TasksKept, RestTyped, ClicksKept
    PROVE  RowInv'
<1>1. TypeOK' /\ IsFiniteSet(tasks)'
  BY DEF RowInv, TypeOK, RowsKept, DoorsKept, TasksKept, RestTyped, ClicksKept
<1>2. RowsNamed'
  BY DEF RowsNamed, Named, RowsKept, DoorsKept
<1>3. CommitsBacked'
  <2> SUFFICES ASSUME NEW u \in tasks', u.pc \in Committing
               PROVE  ledger'[KeyOf[u.job]].state \in {"approved", "submitted"}
    BY DEF CommitsBacked, Committing
  <2>1. KeyOf[u.job] \in Keys
    BY TransactAssumption DEF TasksKept, Task
  <2> QED
    BY <2>1 DEF TasksKept, Backed, RowsKept, Lasting
<1>4. NoUnapprovedClick'
  BY DEF NoUnapprovedClick, ClicksKept, Backed, RowsKept, Lasting
<1> QED
  BY <1>1, <1>2, <1>3, <1>4 DEF RowInv

\* What stands still is kept.
LEMMA StillKept ==
    ASSUME RowInv
    PROVE  /\ UNCHANGED ledger => RowsKept
           /\ UNCHANGED doors => DoorsKept
           /\ UNCHANGED tasks => TasksKept
           /\ UNCHANGED clicks => ClicksKept
           /\ UNCHANGED <<jobs, input, page, faults, mishaps, signed, misquoted>> => RestTyped
<1>1. UNCHANGED ledger => RowsKept
  BY DEF RowInv, TypeOK, RowsNamed, Named, RowsKept, Lasting
<1>2. UNCHANGED doors => DoorsKept
  BY DEF RowInv, TypeOK, RowsNamed, Named, DoorsKept
<1>3. UNCHANGED tasks => TasksKept
  BY DEF RowInv, TypeOK, TasksKept, CommitsBacked, Backed
<1>c. UNCHANGED clicks => ClicksKept
  BY DEF RowInv, TypeOK, ClicksKept, NoUnapprovedClick, Backed
<1>4. UNCHANGED <<jobs, input, page, faults, mishaps, signed, misquoted>> => RestTyped
  BY DEF RowInv, TypeOK, RestTyped
<1> QED
  BY <1>1, <1>2, <1>3, <1>4, <1>c

\* A task that moves on, with its row if it is about to commit.
LEMMA GotoKeeps ==
    ASSUME RowInv, NEW t \in tasks, NEW sha \in Quotes,
           NEW pc \in {"start", "lookup", "insert", "refresh", "reread", "parking",
                       "probe", "click", "receipt", "done", "failing", "refused",
                       "cancelled", "suspended"},
           Goto(t, pc, sha), pc \in Committing => Backed(KeyOf[t.job])
    PROVE  TasksKept
<1>1. /\ tasks' \subseteq Task
      /\ IsFiniteSet(tasks')
      /\ \A u \in tasks' : u \in tasks \/ (u.job = t.job /\ u.pc = pc /\ u.sha = sha)
  BY TaskMoves DEF RowInv, TypeOK
<1> QED
  BY <1>1 DEF TasksKept, RowInv, CommitsBacked, Backed

\* The same of a task whose digest is not read again.
LEMMA ConcludeKeeps ==
    ASSUME RowInv, NEW t \in tasks,
           NEW pc \in {"reread", "parking", "done", "failing", "refused", "cancelled", "suspended"},
           Conclude(t, pc)
    PROVE  TasksKept
<1>1. Unquoted \in Quotes /\ pc \notin Committing
  BY DEF Quotes, Committing
<1>2. Goto(t, pc, Unquoted)
  BY DEF Conclude
<1> QED
  BY <1>1, <1>2, GotoKeeps

\* A write of one row of the jobs table, typed.
LEMMA JobWritten ==
    ASSUME RowInv, NEW j \in Jobs, NEW r \in Row, Write(j, r)
    PROVE  jobs' \in [Jobs -> Row]
BY DEF RowInv, TypeOK, Write

-----------------------------------------------------------------------------
(* The doors *)

\* Every step of a door keeps the ledger's invariant.
LEMMA DoorSafe ==
    ASSUME RowInv, NEW d \in Doors, Door(d)
    PROVE  RowInv'
<1> USE StillKept
<1>t. doors[d] \in Handler /\ doors[d].key \in Keys /\ doors \in [Doors -> Handler]
      /\ ledger \in [Keys -> Entry]
  BY DEF RowInv, TypeOK, Handler
<1>1. ASSUME NEW k \in Keys, ApproveOpens(d, k)
      PROVE  RowInv'
  <2>1. RowsKept
    BY <1>1, SweepLasts DEF ApproveOpens
  <2>2. PICK q \in Quotes :
          doors' = [doors EXCEPT ![d] = [Idle EXCEPT !.pc = "read", !.key = k, !.quoted = q]]
    BY <1>1 DEF ApproveOpens
  <2> DEFINE h == [Idle EXCEPT !.pc = "read", !.key = k, !.quoted = q]
  <2>3. h \in Handler /\ h.pc = "read" /\ h.row.state = "none"
    BY IdleTyped DEF Handler
  <2>4. DoorsKept
    <3> HIDE DEF h
    <3>1. doors' \in [Doors -> Handler] /\ doors'[d] = h /\ \A e \in Doors \ {d} : doors'[e] = doors[e]
      BY <1>t, <2>2, <2>3 DEF h
    <3> QED
      BY <2>3, <3>1 DEF DoorsKept, RowInv, RowsNamed, Named
  <2> QED
    BY <1>1, <2>1, <2>4, Carried DEF ApproveOpens, book
<1>2. ASSUME NEW k \in Keys, RejectReads(d, k)
      PROVE  RowInv'
  <2> DEFINE h == [Idle EXCEPT !.pc = "strike", !.key = k, !.row = ledger[k]]
  <2>1. h \in Handler /\ h.row = ledger[k] /\ h.key = k
    BY <1>t, IdleTyped DEF Handler
  <2>2. DoorsKept
    <3> HIDE DEF h
    <3>1. doors' \in [Doors -> Handler] /\ doors'[d] = h /\ \A e \in Doors \ {d} : doors'[e] = doors[e]
      BY <1>2, <1>t, <2>1 DEF h, RejectReads
    <3> QED
      BY <1>2, <2>1, <3>1 DEF DoorsKept, RowInv, RowsNamed, Named, RejectReads
  <2> QED
    BY <1>2, <2>2, Carried DEF RejectReads, book
<1>3. CASE ApproveReads(d)
  <2> DEFINE h == [doors[d] EXCEPT !.pc = "decide", !.row = ledger[doors[d].key]]
  <2>1. h \in Handler /\ h.pc = "decide" /\ h.row = ledger[doors[d].key] /\ h.key = doors[d].key
    BY <1>t DEF Handler
  <2>2. DoorsKept
    <3> HIDE DEF h
    <3>1. doors' \in [Doors -> Handler] /\ doors'[d] = h /\ \A e \in Doors \ {d} : doors'[e] = doors[e]
      BY <1>3, <1>t, <2>1 DEF h, ApproveReads
    <3> QED
      BY <1>t, <2>1, <3>1 DEF DoorsKept, RowInv, RowsNamed, Named
  <2> QED
    BY <1>3, <2>2, Carried DEF ApproveReads, book
<1>4. CASE ApproveDecides(d)
  <2>1. DoorsKept
    BY <1>4, AnswerKeeps, ServeKeeps DEF ApproveDecides, Approvable
  <2> QED
    BY <1>4, <2>1, Carried DEF ApproveDecides, book
<1>5. CASE ApproveMarks(d)
  <2> DEFINE k == doors[d].key
  <2>1. doors[d].row.state = "pending"
    BY <1>5 DEF ApproveMarks, RowInv, RowsNamed, Named
  <2>2. DoorsKept
    BY <1>5, <2>1, AnswerKeeps, ServeKeeps DEF ApproveMarks
  <2>3. RowsKept
    BY <1>5, <1>t, MoveLasts DEF ApproveMarks
  <2>4. ledger[k].sha \in Quotes
    BY <1>t DEF Entry
  <2>5. RestTyped
    <3>1. signed' \in [Keys -> Quotes]
      BY <1>5, <1>t, <2>4 DEF ApproveMarks, RowInv, TypeOK
    <3>2. misquoted' \subseteq Keys
      BY <1>5, <1>t DEF ApproveMarks, RowInv, TypeOK
    <3> QED
      BY <1>5, <3>1, <3>2 DEF ApproveMarks, RestTyped, RowInv, TypeOK
  <2> QED
    BY <1>5, <2>2, <2>3, <2>5, Carried DEF ApproveMarks
<1>6. CASE ApproveResumes(d)
  <2> DEFINE j == doors[d].row.job
  <2>1. j \in Jobs
    BY <1>6 DEF ApproveResumes, RowInv, RowsNamed, Named
  <2>2. jobs' \in [Jobs -> Row] /\ input' \in [Jobs -> BOOLEAN]
    <3> HIDE DEF j
    <3>1. CASE Resume(j) /\ input' = [input EXCEPT ![j] = TRUE]
      <4>1. [ReopenedRow(j) EXCEPT !.deadline = "none"] \in Row
        BY <2>1, RowsTyped DEF RowInv, TypeOK
      <4> QED
        BY <2>1, <3>1, <4>1, JobWritten DEF Resume, RowInv, TypeOK
    <3>2. CASE UNCHANGED <<jobs, input>>
      BY <3>2 DEF RowInv, TypeOK
    <3> QED
      BY <1>6, <3>1, <3>2 DEF ApproveResumes, j
  <2>3. RestTyped
    BY <1>6, <2>2 DEF ApproveResumes, RestTyped, RowInv, TypeOK, book
  <2>4. DoorsKept
    BY <1>6, AnswerKeeps DEF ApproveResumes
  <2> QED
    BY <1>6, <2>3, <2>4, Carried DEF ApproveResumes, book
<1>7. CASE RejectMarks(d)
  <2>1. doors[d].row.state = "pending"
    BY <1>7 DEF RejectMarks, RowInv, RowsNamed, Named
  <2>2. DoorsKept
    BY <1>7, <2>1, AnswerKeeps, ServeKeeps DEF RejectMarks
  <2>3. RowsKept
    BY <1>7, <1>t, MoveLasts DEF RejectMarks, MarkRejected
  <2> QED
    BY <1>7, <2>2, <2>3, Carried DEF RejectMarks, book
<1>8. CASE RejectCancels(d)
  <2> DEFINE j == doors[d].row.job
  <2>1. j \in Jobs
    BY <1>8 DEF RejectCancels, RowInv, RowsNamed, Named
  <2>2. jobs' \in [Jobs -> Row]
    <3> HIDE DEF j
    <3>1. CancelledRow(j) \in Row
      BY <2>1, RowsTyped DEF RowInv, TypeOK
    <3>2. CancelUnclaimed(j) \/ UNCHANGED jobs
      BY <1>8 DEF RejectCancels, j
    <3> QED
      BY <2>1, <3>1, <3>2, JobWritten DEF CancelUnclaimed, RowInv, TypeOK
  <2>3. RestTyped
    BY <1>8, <2>2 DEF RejectCancels, RestTyped, RowInv, TypeOK, book
  <2>4. DoorsKept
    BY <1>8, AnswerKeeps DEF RejectCancels
  <2> QED
    BY <1>8, <2>3, <2>4, Carried DEF RejectCancels, book
<1> QED
  BY <1>1, <1>2, <1>3, <1>4, <1>5, <1>6, <1>7, <1>8 DEF Door

-----------------------------------------------------------------------------
(* The attempts *)

\* A counted fault stays within its bound.
LEMMA FaultTyped == ASSUME RowInv, Fault PROVE faults' \in 0..FaultBound
BY TransactAssumption DEF RowInv, TypeOK, Fault

\* A mishap is counted for a key.
LEMMA MishapTyped == ASSUME RowInv, NEW k \in Keys, Mishap(k) PROVE mishaps' \in [Keys -> Nat]
BY DEF RowInv, TypeOK, Mishap

\* Every step of an attempt keeps the ledger's invariant.
LEMMA AttemptSafe ==
    ASSUME RowInv, NEW t \in tasks, Attempt(t)
    PROVE  RowInv'
<1> USE StillKept
<1> DEFINE k == KeyOf[t.job]
<1>t. /\ t \in Task /\ t.job \in Jobs /\ t.sha \in Quotes /\ k \in Keys
      /\ ledger \in [Keys -> Entry] /\ ledger[k] \in Entry
      /\ page \in Quotes /\ ledger[k].sha \in Quotes
  BY TransactAssumption DEF RowInv, TypeOK, Task, Quotes, Entry
<1>1. CASE DryRun(t)
  <2>1. TasksKept
    BY <1>1, <1>t, GotoKeeps DEF DryRun, Committing
  <2> QED
    BY <1>1, <2>1, Carried DEF DryRun, Outside, book
<1>2. CASE StageReads(t)
  <2>1. TasksKept
    BY <1>2, <1>t, GotoKeeps, ConcludeKeeps DEF StageReads, Committing
  <2> QED
    BY <1>2, <2>1, Carried DEF StageReads, Outside, book
<1>3. CASE StageInserts(t)
  <2>1. TasksKept
    BY <1>3, ConcludeKeeps DEF StageInserts
  <2>2. RowsKept
    <3> DEFINE r == [state |-> "pending", job |-> t.job, sha |-> t.sha, old |-> FALSE]
    <3>1. r \in Entry /\ r.job = t.job
      BY <1>t DEF Entry
    <3>2. CASE ledger[k].state = "none"
      <4>1. Enter(k, r)
        BY <1>3, <3>2 DEF StageInserts
      <4>2. Named(k, r)
        BY <1>t, <3>1 DEF Named
      <4> HIDE DEF r, k
      <4> QED
        BY <1>t, <3>1, <3>2, <4>1, <4>2, EntryKept
    <3> QED
      BY <1>3, <3>2 DEF StageInserts
  <2> QED
    BY <1>3, <2>1, <2>2, Carried DEF StageInserts, Outside, book
<1>4. CASE StageRefreshes(t)
  <2>1. TasksKept
    BY <1>4, ConcludeKeeps DEF StageRefreshes
  <2>2. RowsKept
    <3> DEFINE r == Refreshed(t, ledger[k])
    <3>1. /\ r \in Entry
          /\ r.state = ledger[k].state
          /\ r.job \in {t.job, ledger[k].job}
          /\ r.state # "pending" => r = ledger[k]
      BY <1>t DEF Entry, Refreshed
    <3>2. Enter(k, r)
      BY <1>4 DEF StageRefreshes
    <3>3. Named(k, r)
      BY <1>t, <3>1 DEF Named, RowInv, RowsNamed
    <3> HIDE DEF r, k
    <3> QED
      BY <1>t, <3>1, <3>2, <3>3, EntryKept
  <2> QED
    BY <1>4, <2>1, <2>2, Carried DEF StageRefreshes, Outside, book
<1>5. CASE StageVerdict(t)
  <2>1. TasksKept
    BY <1>5, ConcludeKeeps DEF StageVerdict
  <2> QED
    BY <1>5, <2>1, Carried DEF StageVerdict, Outside, book
<1>6. CASE Park(t)
  <2>1. TasksKept
    BY <1>6, TaskLeaves DEF Park, TasksKept, RowInv, TypeOK, CommitsBacked, Backed
  <2>2. jobs' \in [Jobs -> Row] /\ input' \in [Jobs -> BOOLEAN]
    <3>1. WaitingRow(t.job, FALSE) \in Row
      BY <1>t, RowsTyped DEF RowInv, TypeOK
    <3> QED
      BY <1>6, <1>t, <3>1, JobWritten DEF Park, RowInv, TypeOK
  <2>3. RestTyped
    BY <1>6, <2>2 DEF Park, RestTyped, RowInv, TypeOK, Outside, book
  <2> QED
    BY <1>6, <2>1, <2>3, Carried DEF Park, Outside, book
<1>7. CASE CommitReads(t)
  <2>1. TasksKept
    BY <1>7, <1>t, GotoKeeps, ConcludeKeeps DEF CommitReads, Released, Backed
  <2> QED
    BY <1>7, <2>1, Carried DEF CommitReads, Outside, book
<1>8. CASE Probe(t)
  <2>1. Backed(k)
    BY <1>8 DEF Probe, RowInv, CommitsBacked, Committing, Backed
  <2>2. TasksKept
    BY <1>8, <1>t, <2>1, GotoKeeps, ConcludeKeeps DEF Probe
  <2> QED
    BY <1>8, <2>2, Carried DEF Probe, Outside, book
<1>9. CASE Click(t)
  <2>1. Backed(k)
    BY <1>9 DEF Click, RowInv, CommitsBacked, Committing, Backed
  <2>2. TasksKept
    BY <1>9, <1>t, <2>1, GotoKeeps, ConcludeKeeps DEF Click
  <2>3. ClicksKept
    <3>1. CASE clicks' = [clicks EXCEPT ![k] = @ + 1]
      BY <1>t, <2>1, <3>1 DEF ClicksKept, RowInv, TypeOK, NoUnapprovedClick, Backed
    <3> QED
      BY <1>9, <3>1 DEF Click, Clicked
  <2>4. RestTyped
    BY <1>9, <1>t, MishapTyped DEF Click, RestTyped, RowInv, TypeOK
  <2> QED
    BY <1>9, <2>2, <2>3, <2>4, Carried DEF Click
<1>10. CASE MarkSubmitted(t)
  <2>1. TasksKept
    BY <1>10, ConcludeKeeps DEF MarkSubmitted
  <2>2. RowsKept
    <3> DEFINE r == IF ledger[k].state = "approved"
                    THEN [ledger[k] EXCEPT !.state = "submitted"] ELSE ledger[k]
    <3>1. /\ r \in Entry /\ r.job = ledger[k].job /\ r.sha = ledger[k].sha
          /\ ledger[k].state = "approved" => r.state = "submitted"
          /\ ledger[k].state # "approved" => r = ledger[k]
      BY <1>t DEF Entry, Settled
    <3>2. Enter(k, r)
      BY <1>10 DEF MarkSubmitted
    <3> HIDE DEF r, k
    <3>3. ledger' \in [Keys -> Entry] /\ ledger'[k] = r /\ \A i \in Keys \ {k} : ledger'[i] = ledger[i]
      BY <1>t, <3>1, <3>2, EntryWritten
    <3> QED
      BY <1>t, <3>1, <3>3 DEF RowsKept, Lasting, RowInv, RowsNamed, Named
  <2> QED
    BY <1>10, <2>1, <2>2, Carried DEF MarkSubmitted, Outside, book
<1>11. CASE Ends(t)
  <2>1. TasksKept
    BY <1>11, TaskLeaves DEF Ends, TasksKept, RowInv, TypeOK, CommitsBacked, Backed
  <2>2. jobs' \in [Jobs -> Row]
    <3>1. /\ SucceededRow(t.job) \in Row /\ FailRow(t.job) \in Row
          /\ FailedRow(t.job, 0) \in Row /\ CancelledRow(t.job) \in Row
      BY <1>t, RowsTyped DEF RowInv, TypeOK
    <3> QED
      BY <1>11, <1>t, <3>1, JobWritten DEF Ends, Outcomes, RowInv, TypeOK
  <2>3. RestTyped
    BY <1>11, <2>2 DEF Ends, RestTyped, RowInv, TypeOK, Outside, book
  <2> QED
    BY <1>11, <2>1, <2>3, Carried DEF Ends, Outside, book
<1>12. CASE Suspends(t)
  <2>1. TasksKept
    BY <1>12, TaskLeaves DEF Suspends, TasksKept, RowInv, TypeOK, CommitsBacked, Backed
  <2>2. jobs' \in [Jobs -> Row]
    <3>1. ReopenedRow(t.job) \in Row
      BY <1>t, RowsTyped DEF RowInv, TypeOK
    <3> QED
      BY <1>12, <1>t, <3>1, JobWritten DEF Suspends, Reset, RowInv, TypeOK
  <2>3. RestTyped
    BY <1>12, <1>t, <2>2, MishapTyped DEF Suspends, RestTyped, RowInv, TypeOK
  <2> QED
    BY <1>12, <2>1, <2>3, Carried DEF Suspends
<1> QED
  BY <1>1, <1>2, <1>3, <1>4, <1>5, <1>6, <1>7, <1>8, <1>9, <1>10, <1>11, <1>12 DEF Attempt

-----------------------------------------------------------------------------
(* Errors, crashes and the operator *)

\* Every other step keeps the ledger's invariant.
LEMMA WorldSafe ==
    ASSUME RowInv,
           \/ \E t \in tasks : AttemptErrs(t) \/ AttemptStops(t) \/ OutcomeLost(t)
           \/ \E j \in Jobs :
                 \/ Submit(j) \/ Claim(j) \/ Reap(j) \/ ParkExpires(j)
                 \/ ApiRetry(j) \/ ApiCancel(j) \/ ResumeByHand(j) \/ ResetByHand(j)
           \/ \E k \in Keys : Age(k)
           \/ ListTransactions \/ Drift \/ Crash
    PROVE  RowInv'
<1> USE StillKept
<1>j. \A j \in Jobs : jobs[j] \in Row /\ KeyOf[j] \in Keys
  BY TransactAssumption DEF RowInv, TypeOK
<1>1. ASSUME NEW t \in tasks, NEW pc \in {"failing", "cancelled", "suspended"}, Cut(t, pc),
             faults' \in 0..FaultBound
      PROVE  RowInv'
  <2>1. TasksKept
    BY <1>1, ConcludeKeeps DEF Cut
  <2>2. mishaps' \in [Keys -> Nat]
    <3>1. t.job \in Jobs
      BY DEF RowInv, TypeOK, Task
    <3> QED
      BY <1>1, <1>j, <3>1, MishapTyped DEF Cut, RowInv, TypeOK
  <2>3. RestTyped
    BY <1>1, <2>2 DEF Cut, RestTyped, RowInv, TypeOK
  <2> QED
    BY <1>1, <2>1, <2>3, Carried DEF Cut
<1>11. ASSUME NEW t \in tasks, AttemptErrs(t) \/ AttemptStops(t)
      PROVE  RowInv'
  <2>1. faults' \in 0..FaultBound
    BY <1>11, FaultTyped DEF AttemptErrs, AttemptStops, RowInv, TypeOK
  <2> QED
    BY <1>1, <1>11, <2>1 DEF AttemptErrs, AttemptStops
<1>12. ASSUME NEW t \in tasks, OutcomeLost(t)
      PROVE  RowInv'
  <2>1. TasksKept
    BY <1>12, TaskLeaves DEF OutcomeLost, TasksKept, RowInv, TypeOK, CommitsBacked, Backed
  <2>2. RestTyped
    BY <1>12, FaultTyped DEF OutcomeLost, RestTyped, RowInv, TypeOK, book
  <2> QED
    BY <1>12, <2>1, <2>2, Carried DEF OutcomeLost, book
<1>13. ASSUME NEW j \in Jobs, Reap(j)
      PROVE  RowInv'
  <2>1. jobs' \in [Jobs -> Row]
    BY <1>13, <1>j, RowsTyped, JobWritten DEF Reap
  <2>2. RestTyped
    BY <1>13, <1>j, <2>1, FaultTyped, MishapTyped DEF Reap, RestTyped, RowInv, TypeOK
  <2> QED
    BY <1>13, <2>2, Carried DEF Reap
<1>14. ASSUME NEW j \in Jobs, ParkExpires(j) \/ ApiCancel(j)
      PROVE  RowInv'
  <2>1. jobs' \in [Jobs -> Row]
    BY <1>14, <1>j, RowsTyped, JobWritten DEF ParkExpires, ApiCancel, CancelUnclaimed
  <2>2. RestTyped
    BY <1>14, <2>1 DEF ParkExpires, ApiCancel, RestTyped, RowInv, TypeOK, Outside, book
  <2> QED
    BY <1>14, <2>2, Carried DEF ParkExpires, ApiCancel, Outside, book
<1>2. ASSUME NEW j \in Jobs, Submit(j)
      PROVE  RowInv'
  <2>1. jobs' \in [Jobs -> Row]
    BY <1>2, <1>j, RowsTyped, JobWritten DEF Submit, Insert
  <2>2. RestTyped
    BY <1>2, <2>1 DEF Submit, RestTyped, RowInv, TypeOK, Outside, book
  <2> QED
    BY <1>2, <2>2, Carried DEF Submit, Outside, book
<1>3. ASSUME NEW j \in Jobs, Claim(j)
      PROVE  RowInv'
  <2>1. jobs' \in [Jobs -> Row]
    BY <1>3, <1>j, RowsTyped, JobWritten DEF Claim, ClaimNext
  <2>2. RestTyped
    BY <1>3, <2>1 DEF Claim, RestTyped, RowInv, TypeOK, Outside, book
  <2>3. TasksKept
    <3> DEFINE n == [job |-> j, attempt |-> jobs[j].attempts + 1, sha |-> Unquoted, pc |-> "start"]
    <3>1. jobs[j].attempts + 1 \in Nat
      BY <1>j DEF Row
    <3>2. n \in Task /\ n.pc = "start"
      BY <3>1 DEF Task, Quotes
    <3>3. tasks' = tasks \cup {n}
      BY <1>3 DEF Claim
    <3> HIDE DEF n
    <3>4. IsFiniteSet(tasks \cup {n})
      BY FS_AddElement DEF RowInv
    <3> QED
      BY <3>2, <3>3, <3>4 DEF TasksKept, RowInv, TypeOK, CommitsBacked, Backed, Committing
  <2> QED
    BY <1>3, <2>2, <2>3, Carried DEF Claim, Outside, book
<1>4. ASSUME NEW j \in Jobs, ApiRetry(j)
      PROVE  RowInv'
  <2>1. jobs' \in [Jobs -> Row]
    BY <1>4, <1>j, RowsTyped, JobWritten DEF ApiRetry, Retry
  <2>2. RestTyped
    BY <1>4, <2>1 DEF ApiRetry, RestTyped, RowInv, TypeOK, Outside, book
  <2> QED
    BY <1>4, <2>2, Carried DEF ApiRetry, Outside, book
<1>5. ASSUME NEW j \in Jobs, ResumeByHand(j)
      PROVE  RowInv'
  <2>1. jobs' \in [Jobs -> Row]
    BY <1>5, <1>j, RowsTyped, JobWritten DEF ResumeByHand, Resume
  <2>2. RestTyped
    BY <1>5, <1>j, <2>1, FaultTyped, MishapTyped DEF ResumeByHand, RestTyped, RowInv, TypeOK
  <2> QED
    BY <1>5, <2>2, Carried DEF ResumeByHand
<1>6. ASSUME NEW j \in Jobs, ResetByHand(j)
      PROVE  RowInv'
  <2>1. jobs' \in [Jobs -> Row]
    BY <1>6, <1>j, RowsTyped, JobWritten DEF ResetByHand, Reset
  <2>2. RestTyped
    BY <1>6, <1>j, <2>1, FaultTyped, MishapTyped DEF ResetByHand, RestTyped, RowInv, TypeOK
  <2> QED
    BY <1>6, <2>2, Carried DEF ResetByHand
<1>7. ASSUME NEW k \in Keys, Age(k)
      PROVE  RowInv'
  <2> DEFINE r == [ledger[k] EXCEPT !.old = TRUE]
  <2>1. r \in Entry /\ r.state = ledger[k].state /\ r.job = ledger[k].job /\ r.sha = ledger[k].sha
    BY DEF RowInv, TypeOK, Entry
  <2>2. Enter(k, r)
    BY <1>7 DEF Age
  <2>3. RowsKept
    <3> HIDE DEF r
    <3>1. Named(k, r)
      BY <2>1 DEF Named, RowInv, RowsNamed
    <3> QED
      BY <2>1, <2>2, <3>1, EntryKept
  <2> QED
    BY <1>7, <2>3, Carried DEF Age, Outside, book
<1>8. CASE ListTransactions
  BY <1>8, SweepLasts, Carried DEF ListTransactions, book
<1>9. CASE Drift
  <2>1. RestTyped
    BY <1>9 DEF Drift, RestTyped, RowInv, TypeOK, book
  <2> QED
    BY <1>9, <2>1, Carried DEF Drift, book
<1>10. CASE Crash
  <2>1. TasksKept
    BY <1>10, FS_EmptySet DEF Crash, TasksKept
  <2>2. DoorsKept
    BY <1>10, IdleTyped DEF Crash, DoorsKept, Named
  <2>3. jobs' \in [Jobs -> Row]
    BY <1>10, <1>j, RowsTyped DEF Crash
  <2>4. mishaps' \in [Keys -> Nat]
    <3> SUFFICES ASSUME NEW k \in Keys
                 PROVE  mishaps[k] + Cardinality({t \in tasks : t.pc = "receipt" /\ KeyOf[t.job] = k}) \in Nat
      BY <1>10 DEF Crash
    <3>1. Cardinality({t \in tasks : t.pc = "receipt" /\ KeyOf[t.job] = k}) \in Nat
      BY FS_Subset, FS_CardinalityType DEF RowInv
    <3> QED
      BY <3>1 DEF RowInv, TypeOK
  <2>5. RestTyped
    BY <1>10, <2>3, <2>4, FaultTyped DEF Crash, RestTyped, RowInv, TypeOK
  <2> QED
    BY <1>10, <2>1, <2>2, <2>5, Carried DEF Crash
<1> QED
  BY <1>2, <1>3, <1>4, <1>5, <1>6, <1>7, <1>8, <1>9, <1>10, <1>11, <1>12, <1>13, <1>14

-----------------------------------------------------------------------------
(* The invariant of the ledger *)

\* A ledger without entries satisfies the invariant.
LEMMA RowInit == Init => RowInv
<1> SUFFICES ASSUME Init PROVE RowInv
  OBVIOUS
<1>1. NoEntry \in Entry /\ NoEntry.state = "none" /\ AbsentRow \in Row
  BY DEF NoEntry, Entry, Settled, Quotes, AbsentRow, Row, Status
<1>2. TypeOK
  <2>1. 0 \in 0..FaultBound /\ Unquoted \in Quotes
    BY TransactAssumption DEF Quotes
  <2> QED
    BY <1>1, <2>1, IdleTyped DEF Init, TypeOK
<1>3. RowsNamed
  BY <1>1, IdleTyped DEF Init, RowsNamed, Named
<1>4. IsFiniteSet(tasks) /\ CommitsBacked /\ NoUnapprovedClick
  BY FS_EmptySet DEF Init, CommitsBacked, NoUnapprovedClick
<1> QED
  BY <1>2, <1>3, <1>4 DEF RowInv

\* Every step keeps it.
LEMMA RowStep == RowInv /\ [Next]_vars => RowInv'
<1> SUFFICES ASSUME RowInv, [Next]_vars PROVE RowInv'
  OBVIOUS
<1>1. CASE UNCHANGED vars
  BY <1>1, StillKept, Carried DEF vars, book
<1>2. CASE Next
  BY <1>2, DoorSafe, AttemptSafe, WorldSafe DEF Next
<1> QED
  BY <1>1, <1>2

\* Rows, doors and attempts agree, and the action ran only with its row behind it.
LEMMA RowInvariant == Spec => []RowInv
<1> QED
  BY RowInit, RowStep, PTL DEF Spec

-----------------------------------------------------------------------------
(* The evidence *)

\* Rows that are decided after the step were decided before it, with this digest.
RowsFrozen ==
    \A k \in Keys : ledger'[k].state \in {"approved", "submitted"} =>
        Backed(k) /\ ledger'[k].sha = ledger[k].sha

\* Tasks that commit after the step hold the digest that was signed.
TasksFrozen ==
    \A u \in tasks' : u.pc \in Committing => u.sha = signed[KeyOf[u.job]]

\* A step that signs nothing and keeps rows and tasks keeps the evidence.
LEMMA FrozenCarried ==
    ASSUME EvidenceFrozen, RowsFrozen, TasksFrozen, UNCHANGED signed
    PROVE  EvidenceFrozen'
BY DEF EvidenceFrozen, RowsFrozen, TasksFrozen, Backed, Committing

\* What stands still is frozen.
LEMMA StillFrozen ==
    ASSUME RowInv, EvidenceFrozen
    PROVE  /\ UNCHANGED ledger => RowsFrozen
           /\ UNCHANGED tasks => TasksFrozen
<1>1. UNCHANGED ledger => RowsFrozen
  BY DEF RowsFrozen, Backed
<1>2. \A t \in tasks : KeyOf[t.job] \in Keys
  BY TransactAssumption DEF RowInv, TypeOK, Task
<1>3. UNCHANGED tasks => TasksFrozen
  BY <1>2 DEF TasksFrozen, EvidenceFrozen
<1> QED
  BY <1>1, <1>3

\* A task that moves on holds the digest if it is about to commit.
LEMMA GotoFrozen ==
    ASSUME RowInv, EvidenceFrozen, NEW t \in tasks, NEW sha \in Quotes,
           NEW pc \in {"start", "lookup", "insert", "refresh", "reread", "parking",
                       "probe", "click", "receipt", "done", "failing", "refused",
                       "cancelled", "suspended"},
           Goto(t, pc, sha), pc \in Committing => sha = signed[KeyOf[t.job]]
    PROVE  TasksFrozen
<1>1. \A u \in tasks' : u \in tasks \/ (u.job = t.job /\ u.pc = pc /\ u.sha = sha)
  BY TaskMoves DEF RowInv, TypeOK
<1>2. \A u \in tasks : KeyOf[u.job] \in Keys
  BY TransactAssumption DEF RowInv, TypeOK, Task
<1> QED
  BY <1>1, <1>2 DEF TasksFrozen, EvidenceFrozen

\* A task that concludes commits nothing any more.
LEMMA ConcludeFrozen ==
    ASSUME RowInv, EvidenceFrozen, NEW t \in tasks,
           NEW pc \in {"reread", "parking", "done", "failing", "refused", "cancelled", "suspended"},
           Conclude(t, pc)
    PROVE  TasksFrozen
<1>1. Unquoted \in Quotes /\ pc \notin Committing
  BY DEF Quotes, Committing
<1>2. Goto(t, pc, Unquoted)
  BY DEF Conclude
<1> QED
  BY <1>1, <1>2, GotoFrozen

\* The expiry sweep and a rejection freeze what is decided.
LEMMA LedgerFrozen ==
    ASSUME RowInv
    PROVE  /\ Sweep => RowsFrozen
           /\ \A k \in Keys : MarkRejected(k) => RowsFrozen
<1>1. Sweep => RowsFrozen
  <2>1. \A k \in Keys : Swept(k).state = "expired"
    BY DEF RowInv, TypeOK, Swept, Entry
  <2> QED
    BY <2>1 DEF Sweep, RowsFrozen, Backed
<1>2. ASSUME NEW k \in Keys, MarkRejected(k)
      PROVE  RowsFrozen
  <2>1. ledger[k] \in Entry
    BY DEF RowInv, TypeOK
  <2>2. [ledger[k] EXCEPT !.state = "rejected"].state = "rejected"
    BY <2>1 DEF Entry
  <2> QED
    BY <1>2, <2>2 DEF MarkRejected, Move, Enter, RowsFrozen, Backed, RowInv, TypeOK
<1> QED
  BY <1>1, <1>2

\* Every step keeps the evidence of what is approved.
LEMMA EvidenceStep == RowInv /\ EvidenceFrozen /\ [Next]_vars => EvidenceFrozen'
<1> SUFFICES ASSUME RowInv, EvidenceFrozen, [Next]_vars PROVE EvidenceFrozen'
  OBVIOUS
<1> USE StillFrozen
<1>k. /\ \A t \in tasks : KeyOf[t.job] \in Keys /\ t.sha \in Quotes /\ t.job \in Jobs
      /\ \A k \in Keys : ledger[k] \in Entry /\ ledger[k].sha \in Quotes
      /\ page \in Quotes
  BY TransactAssumption DEF RowInv, TypeOK, Task, Entry, Quotes
<1>1. CASE UNCHANGED vars
  BY <1>1, FrozenCarried DEF vars, book
<1>2. ASSUME NEW d \in Doors, Door(d)
      PROVE  EvidenceFrozen'
  <2>k. doors[d].key \in Keys
    BY DEF RowInv, TypeOK, Handler
  <2>1. ASSUME NEW k \in Keys, ApproveOpens(d, k) PROVE EvidenceFrozen'
    BY <2>1, LedgerFrozen, FrozenCarried DEF ApproveOpens, book
  <2>2. ASSUME NEW k \in Keys, RejectReads(d, k) PROVE EvidenceFrozen'
    BY <2>2, FrozenCarried DEF RejectReads, book
  <2>3. CASE ApproveReads(d)
    BY <2>3, FrozenCarried DEF ApproveReads, book
  <2>4. CASE ApproveDecides(d)
    BY <2>4, FrozenCarried DEF ApproveDecides, book
  <2>5. CASE ApproveMarks(d)
    <3> DEFINE k == doors[d].key
    <3>1. CASE ledger[k].state = "pending"
      <4>1. /\ ledger' = [ledger EXCEPT ![k] = [ledger[k] EXCEPT !.state = "approved"]]
            /\ signed' = [signed EXCEPT ![k] = ledger[k].sha]
            /\ tasks' = tasks
        BY <2>5, <3>1 DEF ApproveMarks, Move, Enter
      <4>2. /\ ledger'[k].sha = ledger[k].sha /\ signed'[k] = ledger[k].sha
            /\ \A i \in Keys \ {k} : ledger'[i] = ledger[i] /\ signed'[i] = signed[i]
        BY <4>1, <2>k, <1>k DEF RowInv, TypeOK, Entry
      <4>3. \A t \in tasks : t.pc \in Committing => KeyOf[t.job] # k
        BY <3>1 DEF RowInv, CommitsBacked
      <4> QED
        BY <4>1, <4>2, <4>3, <1>k DEF EvidenceFrozen
    <3>2. CASE ledger[k].state # "pending"
      <4>1. ledger' = [ledger EXCEPT ![k] = ledger[k]] /\ UNCHANGED <<tasks, signed>>
        BY <2>5, <3>2 DEF ApproveMarks, Move, Enter
      <4>2. ledger' = ledger
        BY <4>1, <2>k DEF RowInv, TypeOK
      <4> QED
        BY <4>1, <4>2, FrozenCarried
    <3> QED
      BY <3>1, <3>2
  <2>6. CASE ApproveResumes(d)
    BY <2>6, FrozenCarried DEF ApproveResumes, book
  <2>7. CASE RejectMarks(d)
    BY <2>7, <2>k, LedgerFrozen, FrozenCarried DEF RejectMarks, book
  <2>8. CASE RejectCancels(d)
    BY <2>8, FrozenCarried DEF RejectCancels, book
  <2> QED
    BY <1>2, <2>1, <2>2, <2>3, <2>4, <2>5, <2>6, <2>7, <2>8 DEF Door
<1>3. ASSUME NEW t \in tasks, Attempt(t)
      PROVE  EvidenceFrozen'
  <2> DEFINE k == KeyOf[t.job]
  <2>1. CASE DryRun(t)
    <3>1. TasksFrozen
      BY <2>1, <1>k, GotoFrozen DEF DryRun, Committing
    <3> QED BY <2>1, <3>1, FrozenCarried DEF DryRun, Outside, book
  <2>2. CASE StageReads(t)
    <3>1. TasksFrozen
      BY <2>2, <1>k, GotoFrozen, ConcludeFrozen DEF StageReads, Committing
    <3> QED BY <2>2, <3>1, FrozenCarried DEF StageReads, Outside, book
  <2>3. CASE StageInserts(t)
    <3>1. TasksFrozen
      BY <2>3, ConcludeFrozen DEF StageInserts
    <3>2. RowsFrozen
      BY <2>3, <1>k DEF StageInserts, Enter, RowsFrozen, Backed, RowInv, TypeOK
    <3> QED BY <2>3, <3>1, <3>2, FrozenCarried DEF StageInserts, Outside, book
  <2>4. CASE StageRefreshes(t)
    <3>1. TasksFrozen
      BY <2>4, ConcludeFrozen DEF StageRefreshes
    <3>2. \/ Refreshed(t, ledger[k]) = ledger[k]
          \/ Refreshed(t, ledger[k]).state = "pending"
      BY <1>k DEF Refreshed, Entry
    <3>3. RowsFrozen
      <4> HIDE DEF k
      <4>1. ledger' = [ledger EXCEPT ![k] = Refreshed(t, ledger[k])] /\ k \in Keys
        BY <2>4, <1>k DEF StageRefreshes, Enter, k
      <4> QED
        BY <4>1, <3>2 DEF RowsFrozen, Backed, RowInv, TypeOK
    <3> QED BY <2>4, <3>1, <3>3, FrozenCarried DEF StageRefreshes, Outside, book
  <2>5. CASE StageVerdict(t)
    <3>1. TasksFrozen
      BY <2>5, ConcludeFrozen DEF StageVerdict
    <3> QED BY <2>5, <3>1, FrozenCarried DEF StageVerdict, Outside, book
  <2>6. CASE Park(t)
    BY <2>6, <1>k, FrozenCarried DEF Park, Outside, book, TasksFrozen, EvidenceFrozen
  <2>7. CASE CommitReads(t)
    <3>1. Released(k) => ledger[k].sha = signed[k]
      BY <1>k DEF Released, EvidenceFrozen
    <3>2. TasksFrozen
      BY <2>7, <1>k, <3>1, GotoFrozen, ConcludeFrozen DEF CommitReads
    <3> QED BY <2>7, <3>2, FrozenCarried DEF CommitReads, Outside, book
  <2>8. CASE Probe(t)
    <3>1. t.sha = signed[k]
      BY <2>8, <1>k DEF Probe, EvidenceFrozen, Committing
    <3>2. TasksFrozen
      BY <2>8, <1>k, <3>1, GotoFrozen, ConcludeFrozen DEF Probe
    <3> QED BY <2>8, <3>2, FrozenCarried DEF Probe, Outside, book
  <2>9. CASE Click(t)
    <3>1. t.sha = signed[k]
      BY <2>9, <1>k DEF Click, EvidenceFrozen, Committing
    <3>2. TasksFrozen
      BY <2>9, <1>k, <3>1, GotoFrozen, ConcludeFrozen DEF Click, Committing
    <3> QED BY <2>9, <3>2, FrozenCarried DEF Click
  <2>10. CASE MarkSubmitted(t)
    <3>1. TasksFrozen
      BY <2>10, ConcludeFrozen DEF MarkSubmitted
    <3>2. [ledger[k] EXCEPT !.state = "submitted"].sha = ledger[k].sha
      BY <1>k DEF Entry
    <3>3. RowsFrozen
      <4> HIDE DEF k
      <4>1. /\ k \in Keys
            /\ ledger' = [ledger EXCEPT ![k] = IF ledger[k].state = "approved"
                            THEN [ledger[k] EXCEPT !.state = "submitted"] ELSE ledger[k]]
        BY <2>10, <1>k DEF MarkSubmitted, Enter, k
      <4> QED
        BY <4>1, <3>2 DEF RowsFrozen, Backed, RowInv, TypeOK
    <3> QED BY <2>10, <3>1, <3>3, FrozenCarried DEF MarkSubmitted, Outside, book
  <2>11. CASE Ends(t)
    BY <2>11, <1>k, FrozenCarried DEF Ends, Outside, book, TasksFrozen, EvidenceFrozen
  <2>12. CASE Suspends(t)
    BY <2>12, <1>k, FrozenCarried DEF Suspends, TasksFrozen, EvidenceFrozen
  <2> QED
    BY <1>3, <2>1, <2>2, <2>3, <2>4, <2>5, <2>6, <2>7, <2>8, <2>9, <2>10, <2>11, <2>12 DEF Attempt
<1>4. ASSUME NEW t \in tasks, AttemptErrs(t) \/ AttemptStops(t) \/ OutcomeLost(t)
      PROVE  EvidenceFrozen'
  <2>1. ASSUME NEW pc \in {"failing", "cancelled", "suspended"}, Cut(t, pc)
        PROVE  EvidenceFrozen'
    <3>1. TasksFrozen
      BY <2>1, ConcludeFrozen DEF Cut
    <3> QED
      BY <2>1, <3>1, FrozenCarried DEF Cut
  <2>2. CASE OutcomeLost(t)
    BY <2>2, <1>k, FrozenCarried DEF OutcomeLost, book, TasksFrozen, EvidenceFrozen
  <2> QED
    BY <1>4, <2>1, <2>2 DEF AttemptErrs, AttemptStops
<1>5. ASSUME NEW j \in Jobs,
             \/ Submit(j) \/ Reap(j) \/ ParkExpires(j)
             \/ ApiRetry(j) \/ ApiCancel(j) \/ ResumeByHand(j) \/ ResetByHand(j)
      PROVE  EvidenceFrozen'
  BY <1>5, FrozenCarried
  DEF Submit, Reap, ParkExpires, ApiRetry, ApiCancel, ResumeByHand, ResetByHand, Outside, book
<1>6. ASSUME NEW j \in Jobs, Claim(j)
      PROVE  EvidenceFrozen'
  <2>1. TasksFrozen
    BY <1>6, <1>k DEF Claim, TasksFrozen, EvidenceFrozen, Committing
  <2> QED
    BY <1>6, <2>1, FrozenCarried DEF Claim, Outside, book
<1>7. ASSUME NEW k \in Keys, Age(k)
      PROVE  EvidenceFrozen'
  <2>1. [ledger[k] EXCEPT !.old = TRUE].state = "pending"
    BY <1>7, <1>k DEF Age, Entry
  <2>2. RowsFrozen
    BY <1>7, <2>1 DEF Age, Enter, RowsFrozen, Backed, RowInv, TypeOK
  <2> QED
    BY <1>7, <2>2, FrozenCarried DEF Age, Outside, book
<1>8. CASE ListTransactions
  BY <1>8, LedgerFrozen, FrozenCarried DEF ListTransactions, book
<1>9. CASE Drift
  BY <1>9, FrozenCarried DEF Drift, book
<1>10. CASE Crash
  BY <1>10, FrozenCarried DEF Crash, TasksFrozen
<1> QED
  BY <1>1, <1>2, <1>3, <1>4, <1>5, <1>6, <1>7, <1>8, <1>9, <1>10 DEF Next

\* The digest a row was approved with is the one every committing attempt compares
\* the page with, and no restage of the key replaces it (stage_pending's and
\* mark_submitted's WHERE clauses).
THEOREM EvidenceStaysFrozen == Spec => []EvidenceFrozen
<1>1. Init => EvidenceFrozen
  BY DEF Init, EvidenceFrozen, NoEntry
<1> QED
  BY <1>1, RowInvariant, EvidenceStep, PTL DEF Spec

-----------------------------------------------------------------------------
(* Counting the chances of a click *)

\* A part is no larger than the whole.
LEMMA CardPart ==
    ASSUME NEW S, NEW T, IsFiniteSet(T), S \subseteq T
    PROVE  /\ IsFiniteSet(S)
           /\ Cardinality(S) \in Nat /\ Cardinality(T) \in Nat
           /\ Cardinality(S) <= Cardinality(T)
BY FS_Subset, FS_CardinalityType

\* One element makes a set larger by one at most.
LEMMA CardPlus ==
    ASSUME NEW S, NEW T, NEW x, IsFiniteSet(T), S \subseteq T \cup {x}
    PROVE  IsFiniteSet(S) /\ Cardinality(S) <= Cardinality(T) + 1
<1>1. /\ IsFiniteSet(T \cup {x})
      /\ Cardinality(T \cup {x}) \in {Cardinality(T), Cardinality(T) + 1}
  BY FS_AddElement
<1>2. Cardinality(T) \in Nat
  BY FS_CardinalityType
<1> QED
  BY <1>1, <1>2, CardPart

\* A set without one of its elements is smaller.
LEMMA CardMinus ==
    ASSUME NEW S, NEW T, NEW x \in T, IsFiniteSet(T), S \subseteq T \ {x}
    PROVE  IsFiniteSet(S) /\ Cardinality(S) + 1 <= Cardinality(T)
<1>1. IsFiniteSet(T \ {x}) /\ Cardinality(T \ {x}) = Cardinality(T) - 1
  BY FS_RemoveElement
<1>2. Cardinality(T) \in Nat /\ Cardinality(T \ {x}) \in Nat
  BY <1>1, FS_CardinalityType
<1>3. Cardinality(S) \in Nat /\ Cardinality(S) <= Cardinality(T \ {x}) /\ IsFiniteSet(S)
  BY <1>1, CardPart
<1> QED
  BY <1>1, <1>2, <1>3

\* One element for another.
LEMMA CardSwap ==
    ASSUME NEW S, NEW T, NEW x \in T, NEW y, IsFiniteSet(T), S \subseteq (T \ {x}) \cup {y}
    PROVE  IsFiniteSet(S) /\ Cardinality(S) <= Cardinality(T)
<1>1. IsFiniteSet(T \ {x}) /\ Cardinality(T \ {x}) + 1 <= Cardinality(T)
  BY CardMinus
<1>2. IsFiniteSet(S) /\ Cardinality(S) <= Cardinality(T \ {x}) + 1
  BY <1>1, CardPlus
<1>3. Cardinality(S) \in Nat /\ Cardinality(T) \in Nat /\ Cardinality(T \ {x}) \in Nat
  BY <1>1, <1>2, FS_CardinalityType
<1> QED
  BY <1>1, <1>2, <1>3

\* The size of a union, of two sets that may overlap and of two that do not.
LEMMA CardJoin ==
    ASSUME NEW S, NEW T, IsFiniteSet(S), IsFiniteSet(T)
    PROVE  /\ IsFiniteSet(S \cup T)
           /\ Cardinality(S \cup T) <= Cardinality(S) + Cardinality(T)
           /\ S \cap T = {} => Cardinality(S \cup T) = Cardinality(S) + Cardinality(T)
<1>1. /\ IsFiniteSet(S \cup T)
      /\ Cardinality(S \cup T) = Cardinality(S) + Cardinality(T) - Cardinality(S \cap T)
  BY FS_Union
<1>2. IsFiniteSet(S \cap T)
  <2>1. S \cap T \subseteq S
    OBVIOUS
  <2> QED
    BY <2>1, CardPart
<1>3. Cardinality(S \cap T) \in Nat /\ Cardinality(S) \in Nat /\ Cardinality(T) \in Nat
  BY <1>2, FS_CardinalityType
<1>4. S \cap T = {} => Cardinality(S \cap T) = 0
  BY FS_EmptySet
<1> QED
  BY <1>1, <1>3, <1>4

\* A set that maps one to one into another is no larger.
LEMMA CardInto ==
    ASSUME NEW S, NEW T, IsFiniteSet(T), NEW f \in [S -> T],
           \A x, y \in S : f[x] = f[y] => x = y
    PROVE  Cardinality(S) <= Cardinality(T)
<1>1. f \in Injection(S, T)
  BY DEF Injection, IsInjective
<1> QED
  BY <1>1, FS_Injection

\* Every count of the budget is a number.
LEMMA Tallies ==
    ASSUME RowInv, NEW k \in Keys, IsFiniteSet(Resumed(k)), IsFiniteSet(Resuming(k))
    PROVE  /\ IsFiniteSet(Strays(k)) /\ \A pcs : IsFiniteSet(At(pcs, k))
           /\ Cardinality(Strays(k)) \in Nat
           /\ Cardinality(Resumed(k)) \in Nat
           /\ Cardinality(Resuming(k)) \in Nat
           /\ Chances(k) \in Nat
           /\ Cardinality(At({"receipt"}, k)) \in Nat
           /\ Cardinality(At({"probe", "click"}, k)) \in Nat
           /\ clicks[k] \in Nat /\ mishaps[k] \in Nat
<1>1. IsFiniteSet(tasks) /\ clicks[k] \in Nat /\ mishaps[k] \in Nat
  BY DEF RowInv, TypeOK
<1>2. Strays(k) \subseteq tasks /\ \A pcs : At(pcs, k) \subseteq tasks
  BY DEF Strays, At
<1>3. IsFiniteSet(Strays(k)) /\ \A pcs : IsFiniteSet(At(pcs, k))
  BY <1>1, <1>2, FS_Subset
<1>4. /\ Cardinality(Strays(k)) \in Nat
      /\ Cardinality(Resumed(k)) \in Nat
      /\ Cardinality(Resuming(k)) \in Nat
      /\ Cardinality(At({"receipt"}, k)) \in Nat
      /\ Cardinality(At({"probe", "click"}, k)) \in Nat
  BY <1>3, FS_CardinalityType
<1> QED
  BY <1>1, <1>3, <1>4 DEF Chances

\* The doors that may resume after the step, and the jobs they resumed.
Countable(k) ==
    /\ IsFiniteSet(Resumed(k)') /\ IsFiniteSet(Resuming(k)')
    /\ Resuming(k)' # {} => ledger'[k].state \in {"approved", "submitted"}

\* The same of the state after a step.
LEMMA TalliesNext ==
    ASSUME RowInv', NEW k \in Keys, Countable(k)
    PROVE  /\ IsFiniteSet(Strays(k)')
           /\ Cardinality(Strays(k)') \in Nat
           /\ Cardinality(Resumed(k)') \in Nat
           /\ Cardinality(Resuming(k)') \in Nat
           /\ Chances(k)' \in Nat
           /\ Cardinality(At({"receipt"}, k)') \in Nat
           /\ Cardinality(At({"probe", "click"}, k)') \in Nat
           /\ clicks'[k] \in Nat /\ mishaps'[k] \in Nat
<1>1. IsFiniteSet(tasks') /\ clicks'[k] \in Nat /\ mishaps'[k] \in Nat
  BY DEF RowInv, TypeOK
<1>2. /\ Strays(k)' \subseteq tasks'
      /\ At({"receipt"}, k)' \subseteq tasks' /\ At({"probe", "click"}, k)' \subseteq tasks'
  BY DEF Strays, At
<1>3. /\ IsFiniteSet(Strays(k)')
      /\ IsFiniteSet(At({"receipt"}, k)') /\ IsFiniteSet(At({"probe", "click"}, k)')
  BY <1>1, <1>2, FS_Subset
<1>4. /\ Cardinality(Strays(k)') \in Nat
      /\ Cardinality(Resumed(k)') \in Nat
      /\ Cardinality(Resuming(k)') \in Nat
      /\ Cardinality(At({"receipt"}, k)') \in Nat
      /\ Cardinality(At({"probe", "click"}, k)') \in Nat
  BY <1>3, FS_CardinalityType DEF Countable
<1> QED
  BY <1>1, <1>3, <1>4 DEF Chances

\* What a step may do to the budget of a key: it pays for what it adds, and what
\* it takes from the receipts it adds to the mishaps.
Balanced(k) ==
    /\ Chances(k)' + mishaps[k] <= Chances(k) + mishaps'[k]
    /\ clicks'[k] + Chances(k)' + mishaps[k] + Cardinality(At({"receipt"}, k))
          <= clicks[k] + Chances(k) + mishaps'[k] + Cardinality(At({"receipt"}, k)')
    /\ ledger[k].state = "submitted" =>
          clicks'[k] + Cardinality(At({"probe", "click"}, k)') + mishaps[k]
              <= clicks[k] + Cardinality(At({"probe", "click"}, k)) + mishaps'[k]

\* A balanced step that leaves the row, or retires it, keeps the budget.
LEMMA BalanceKept ==
    ASSUME RowInv, RowInv', NEW k \in Keys, Paid(k), Countable(k), Balanced(k),
           \/ ledger'[k].state \in {ledger[k].state, "rejected", "expired"}
           \/ ledger[k].state = "none" /\ ledger'[k].state = "pending"
    PROVE  Paid(k)'
<1>1. /\ Chances(k) \in Nat
      /\ Cardinality(At({"receipt"}, k)) \in Nat
      /\ Cardinality(At({"probe", "click"}, k)) \in Nat
      /\ clicks[k] \in Nat /\ mishaps[k] \in Nat
  BY Tallies DEF Paid
<1>2. /\ Chances(k)' \in Nat
      /\ Cardinality(At({"receipt"}, k)') \in Nat
      /\ Cardinality(At({"probe", "click"}, k)') \in Nat
      /\ clicks'[k] \in Nat /\ mishaps'[k] \in Nat
  BY TalliesNext
<1> QED
  BY <1>1, <1>2 DEF Paid, Balanced, Countable

\* No attempt gains or loses its row.
Calm ==
    \A t \in tasks :
        /\ t.attempt <= jobs'[t.job].attempts /\ jobs'[t.job].status # "absent"
        /\ Mine(t)' <=> Mine(t)

\* A row that stays decided, or one that is retired or staged.
RowCalm(k) ==
    /\ ledger[k].state \in {"approved", "submitted"} => ledger'[k].state = ledger[k].state
    /\ \/ ledger'[k].state \in {ledger[k].state, "rejected", "expired"}
       \/ ledger[k].state = "none" /\ ledger'[k].state = "pending"

\* A table that stands still is calm, and so is a write to a row nobody runs.
LEMMA JobsCalm ==
    ASSUME RowInv, AttemptsApart
    PROVE  /\ UNCHANGED jobs => Calm
           /\ \A j \in Jobs, r \in Row :
                 /\ Write(j, r)
                 /\ jobs[j].status # "running" /\ r.status \notin {"running", "absent"}
                 /\ r.attempts = jobs[j].attempts \/ jobs[j].status = "absent"
                 => Calm
<1>t. \A t \in tasks : t \in Task /\ t.job \in Jobs
  BY DEF RowInv, TypeOK, Task
<1>1. UNCHANGED jobs => Calm
  BY DEF Calm, AttemptsApart, Mine, Fenced
<1>2. ASSUME NEW j \in Jobs, NEW r \in Row, Write(j, r),
             jobs[j].status # "running", r.status \notin {"running", "absent"},
             r.attempts = jobs[j].attempts \/ jobs[j].status = "absent"
      PROVE  Calm
  <2> SUFFICES ASSUME NEW t \in tasks
               PROVE  /\ t.attempt <= jobs'[t.job].attempts /\ jobs'[t.job].status # "absent"
                      /\ Mine(t)' <=> Mine(t)
    BY DEF Calm
  <2>1. jobs'[j] = r /\ \A i \in Jobs \ {j} : jobs'[i] = jobs[i]
    BY <1>2 DEF Write, RowInv, TypeOK
  <2>2. CASE t.job = j
    BY <1>2, <2>1, <2>2, <1>t DEF Mine, Fenced, AttemptsApart
  <2>3. CASE t.job # j
    BY <2>1, <2>3, <1>t DEF Mine, Fenced, AttemptsApart
  <2> QED
    BY <2>2, <2>3
<1> QED
  BY <1>1, <1>2

\* What the count says of a step in which no attempt moves.
LEMMA StillCounts ==
    ASSUME RowInv, AttemptsApart, Calm, UNCHANGED tasks, \A j \in Jobs : input[j] => input'[j]
    PROVE  /\ AttemptsApart'
           /\ \A k \in Keys : /\ Strays(k)' = Strays(k)
                              /\ At({"receipt"}, k)' = At({"receipt"}, k)
                              /\ At({"probe", "click"}, k)' = At({"probe", "click"}, k)
<1>t. \A t \in tasks : t \in Task /\ t.job \in Jobs
  BY DEF RowInv, TypeOK, Task
<1>1. AttemptsApart'
  BY <1>t DEF AttemptsApart, Calm, Committing
<1>2. \A k \in Keys : Strays(k)' = Strays(k)
  BY DEF Strays, Calm
<1>3. \A k \in Keys : /\ At({"receipt"}, k)' = At({"receipt"}, k)
                      /\ At({"probe", "click"}, k)' = At({"probe", "click"}, k)
  BY DEF At
<1> QED
  BY <1>1, <1>2, <1>3

\* The successor of an attempt keeps its number, and is not under way already.
LEMMA Successor ==
    ASSUME RowInv, AttemptsApart, NEW t \in tasks, NEW sha \in Quotes,
           NEW pc \in {"start", "lookup", "insert", "refresh", "reread", "parking",
                       "probe", "click", "receipt", "done", "failing", "refused",
                       "cancelled", "suspended"},
           Goto(t, pc, sha)
    PROVE  \E n \in Task : /\ n.job = t.job /\ n.attempt = t.attempt /\ n.pc = pc
                           /\ n \in tasks => n = t
                           /\ tasks' = (tasks \ {t}) \cup {n}
<1> DEFINE n == [t EXCEPT !.pc = pc, !.sha = sha]
<1>1. t \in Task
  BY DEF RowInv, TypeOK
<1>2. n \in Task /\ n.job = t.job /\ n.pc = pc /\ n.attempt = t.attempt
  BY <1>1 DEF Task
<1>3. tasks' = (tasks \ {t}) \cup {n}
  BY DEF Goto
<1> HIDE DEF n
<1>4. n \in tasks => n = t
  BY <1>2 DEF AttemptsApart
<1> QED
  BY <1>2, <1>3, <1>4

\* An attempt that moves on stays the owner of its row, or a stray.
LEMMA GotoCounts ==
    ASSUME RowInv, AttemptsApart, UNCHANGED <<jobs, input>>, NEW t \in tasks, NEW sha \in Quotes,
           NEW pc \in {"start", "lookup", "insert", "refresh", "reread", "parking",
                       "probe", "click", "receipt", "done", "failing", "refused",
                       "cancelled", "suspended"},
           Goto(t, pc, sha), pc \in Committing => t.pc \in Committing \/ input[t.job]
    PROVE  /\ AttemptsApart'
           /\ \A k \in Keys :
                 /\ Cardinality(Strays(k)') <= Cardinality(Strays(k))
                 /\ Cardinality(At({"receipt"}, k)) <= Cardinality(At({"receipt"}, k)') + 1
                 /\ t.pc # "receipt" \/ KeyOf[t.job] # k =>
                       Cardinality(At({"receipt"}, k)) <= Cardinality(At({"receipt"}, k)')
                 /\ t.pc # "receipt" /\ pc = "receipt" /\ KeyOf[t.job] = k =>
                       Cardinality(At({"receipt"}, k)) + 1 <= Cardinality(At({"receipt"}, k)')
                 /\ t.pc \in {"probe", "click"} \/ pc \notin {"probe", "click"} \/ KeyOf[t.job] # k =>
                       Cardinality(At({"probe", "click"}, k)') <= Cardinality(At({"probe", "click"}, k))
                 /\ t.pc \in {"probe", "click"} /\ pc \notin {"probe", "click"} /\ KeyOf[t.job] = k =>
                       Cardinality(At({"probe", "click"}, k)') + 1 <= Cardinality(At({"probe", "click"}, k))
<1>t. t \in Task /\ t.job \in Jobs
  BY DEF RowInv, TypeOK, Task
<1>n. PICK n \in Task : /\ n.job = t.job /\ n.attempt = t.attempt /\ n.pc = pc
                        /\ n \in tasks => n = t
                        /\ tasks' = (tasks \ {t}) \cup {n}
  BY Successor
<1>m. \A u : Mine(u)' <=> Mine(u)
  BY DEF Mine, Fenced
<1>m2. Mine(n) <=> Mine(t)
  BY <1>n DEF Mine
<1>1. AttemptsApart'
  <2>1. \A u \in tasks' : u.attempt <= jobs'[u.job].attempts /\ jobs'[u.job].status # "absent"
    BY <1>n DEF AttemptsApart
  <2>2. \A u, v \in tasks' : u.job = v.job /\ u.attempt = v.attempt => u = v
    BY <1>n DEF AttemptsApart
  <2>3. \A u \in tasks' : Mine(u)' /\ u.pc \in Committing => input'[u.job]
    BY <1>n, <1>m, <1>m2 DEF AttemptsApart
  <2> QED
    BY <2>1, <2>2, <2>3 DEF AttemptsApart, Committing
<1> SUFFICES ASSUME NEW k \in Keys
             PROVE
                 /\ Cardinality(Strays(k)') <= Cardinality(Strays(k))
                 /\ Cardinality(At({"receipt"}, k)) <= Cardinality(At({"receipt"}, k)') + 1
                 /\ t.pc # "receipt" \/ KeyOf[t.job] # k =>
                       Cardinality(At({"receipt"}, k)) <= Cardinality(At({"receipt"}, k)')
                 /\ t.pc # "receipt" /\ pc = "receipt" /\ KeyOf[t.job] = k =>
                       Cardinality(At({"receipt"}, k)) + 1 <= Cardinality(At({"receipt"}, k)')
                 /\ t.pc \in {"probe", "click"} \/ pc \notin {"probe", "click"} \/ KeyOf[t.job] # k =>
                       Cardinality(At({"probe", "click"}, k)') <= Cardinality(At({"probe", "click"}, k))
                 /\ t.pc \in {"probe", "click"} /\ pc \notin {"probe", "click"} /\ KeyOf[t.job] = k =>
                       Cardinality(At({"probe", "click"}, k)') + 1 <= Cardinality(At({"probe", "click"}, k))
  BY <1>1
<1>f. IsFiniteSet(tasks) /\ IsFiniteSet(tasks')
  BY TaskMoves DEF RowInv, TypeOK
<1>2. Cardinality(Strays(k)') <= Cardinality(Strays(k))
  <2>f. IsFiniteSet(Strays(k))
    BY <1>f, CardPart DEF Strays
  <2>1. CASE t \in Strays(k)
    <3>1. Strays(k)' \subseteq (Strays(k) \ {t}) \cup {n}
      BY <1>n, <1>m DEF Strays
    <3> QED
      BY <2>f, <2>1, <3>1, CardSwap
  <2>2. CASE t \notin Strays(k)
    <3>1. Strays(k)' \subseteq Strays(k)
      BY <1>n, <1>m, <1>m2, <2>2 DEF Strays
    <3> QED
      BY <2>f, <3>1, CardPart
  <2> QED
    BY <2>1, <2>2
<1> DEFINE A == At({"receipt"}, k)
           B == At({"receipt"}, k)'
           P == At({"probe", "click"}, k)
           Q == At({"probe", "click"}, k)'
<1>f2. IsFiniteSet(A) /\ IsFiniteSet(B) /\ IsFiniteSet(P) /\ IsFiniteSet(Q)
  BY <1>f, FS_Subset DEF At
<1>3. A \subseteq B \cup {t} /\ (t.pc # "receipt" \/ KeyOf[t.job] # k => A \subseteq B)
  BY <1>n DEF At
<1>4. t.pc # "receipt" /\ pc = "receipt" /\ KeyOf[t.job] = k => n \in B /\ A \subseteq B \ {n}
  BY <1>n DEF At
<1>5. t.pc \in {"probe", "click"} /\ pc \notin {"probe", "click"} /\ KeyOf[t.job] = k
         => t \in P /\ Q \subseteq P \ {t}
  BY <1>n DEF At
<1>6. pc \notin {"probe", "click"} \/ KeyOf[t.job] # k => Q \subseteq P
  BY <1>n DEF At
<1>7. t.pc \in {"probe", "click"} /\ KeyOf[t.job] = k => t \in P /\ Q \subseteq (P \ {t}) \cup {n}
  BY <1>n DEF At
<1> HIDE DEF A, B, P, Q
<1>8. /\ Cardinality(A) <= Cardinality(B) + 1
      /\ t.pc # "receipt" \/ KeyOf[t.job] # k => Cardinality(A) <= Cardinality(B)
      /\ t.pc # "receipt" /\ pc = "receipt" /\ KeyOf[t.job] = k =>
                       Cardinality(A) + 1 <= Cardinality(B)
  BY <1>f2, <1>3, <1>4, CardPlus, CardMinus, CardPart
<1>9. /\ t.pc \in {"probe", "click"} \/ pc \notin {"probe", "click"} \/ KeyOf[t.job] # k =>
            Cardinality(Q) <= Cardinality(P)
      /\ t.pc \in {"probe", "click"} /\ pc \notin {"probe", "click"} /\ KeyOf[t.job] = k =>
            Cardinality(Q) + 1 <= Cardinality(P)
  BY <1>f2, <1>5, <1>6, <1>7, CardSwap, CardMinus, CardPart
<1> QED
  BY <1>2, <1>8, <1>9 DEF A, B, P, Q

\* Whoever commits is a stray or holds the resumed input of its job: no more
\* attempts commit than there are chances.
LEMMA CommitsCounted ==
    ASSUME RowInv, AttemptsApart, NEW k \in Keys, Paid(k)
    PROVE  Cardinality(At({"probe", "click"}, k)) + Cardinality(At({"receipt"}, k))
               <= Cardinality(Strays(k)) + Cardinality(Resumed(k))
<1> DEFINE P == At({"probe", "click"}, k)
           A == At({"receipt"}, k)
           M == {t \in tasks : KeyOf[t.job] = k /\ t.pc \in Committing /\ Mine(t)}
           S == Strays(k)
           R == Resumed(k)
<1>1. IsFiniteSet(P) /\ IsFiniteSet(A) /\ IsFiniteSet(M) /\ IsFiniteSet(S) /\ IsFiniteSet(R)
  BY Tallies, FS_Subset DEF Paid, RowInv
<1>2. P \cap A = {} /\ P \cup A \subseteq S \cup M
  BY DEF At, Strays, Committing
<1>3. Cardinality(M) <= Cardinality(R)
  <2> DEFINE f == [t \in M |-> t.job]
  <2>1. \A t \in M : t.job \in R
    BY DEF AttemptsApart, Resumed, RowInv, TypeOK, Task
  <2>2. \A t, u \in M : t.job = u.job => t = u
    BY DEF AttemptsApart, Mine, Fenced
  <2> HIDE DEF M, R
  <2>3. f \in [M -> R] /\ \A t, u \in M : f[t] = f[u] => t = u
    BY <2>1, <2>2
  <2> HIDE DEF f
  <2> QED
    BY <1>1, <2>3, CardInto
<1> HIDE DEF P, A, M, S, R
<1>4. Cardinality(P \cup A) = Cardinality(P) + Cardinality(A)
  BY <1>1, <1>2, CardJoin
<1>5. IsFiniteSet(S \cup M) /\ Cardinality(S \cup M) <= Cardinality(S) + Cardinality(M)
  BY <1>1, CardJoin
<1>6. Cardinality(P \cup A) <= Cardinality(S \cup M)
  BY <1>2, <1>5, CardPart
<1>7. /\ Cardinality(P) \in Nat /\ Cardinality(A) \in Nat /\ Cardinality(M) \in Nat
      /\ Cardinality(S) \in Nat /\ Cardinality(R) \in Nat /\ Cardinality(S \cup M) \in Nat
  BY <1>1, <1>5, FS_CardinalityType
<1>8. Cardinality(P) + Cardinality(A) <= Cardinality(S) + Cardinality(R)
  BY <1>3, <1>4, <1>5, <1>6, <1>7
<1> QED
  BY <1>8 DEF P, A, S, R

\* Doors that only leave their resume, and jobs that only lose their input.
LEMMA Countably ==
    ASSUME NEW k \in Keys, Paid(k), Resumed(k)' \subseteq Resumed(k),
           Resuming(k)' \subseteq Resuming(k),
           ledger[k].state \in {"approved", "submitted"} => ledger'[k].state = ledger[k].state
    PROVE  /\ Countable(k)
           /\ Cardinality(Resumed(k)') <= Cardinality(Resumed(k))
           /\ Cardinality(Resuming(k)') <= Cardinality(Resuming(k))
<1>1. IsFiniteSet(Resumed(k)) /\ IsFiniteSet(Resuming(k))
  BY DEF Paid
<1>2. /\ IsFiniteSet(Resumed(k)') /\ IsFiniteSet(Resuming(k)')
      /\ Cardinality(Resumed(k)') <= Cardinality(Resumed(k))
      /\ Cardinality(Resuming(k)') <= Cardinality(Resuming(k))
  BY <1>1, CardPart
<1> QED
  BY <1>2 DEF Countable, Paid

\* A step of the doors and of the tables that starts and ends no attempt.
LEMMA QuietPaid ==
    ASSUME RowInv, RowInv', AttemptsApart, Calm, UNCHANGED <<tasks, input, clicks, mishaps>>,
           NEW k \in Keys, Paid(k), RowCalm(k), Resuming(k)' \subseteq Resuming(k)
    PROVE  Paid(k)'
<1>1. /\ Strays(k)' = Strays(k)
      /\ At({"receipt"}, k)' = At({"receipt"}, k)
      /\ At({"probe", "click"}, k)' = At({"probe", "click"}, k)
  BY StillCounts
<1>2. Resumed(k)' = Resumed(k)
  BY DEF Resumed
<1>3. Countable(k) /\ Cardinality(Resuming(k)') <= Cardinality(Resuming(k))
  BY <1>2, Countably DEF RowCalm
<1>4. Balanced(k)
  BY <1>1, <1>2, <1>3, Tallies, TalliesNext DEF Balanced, Chances, Paid
<1> QED
  BY <1>3, <1>4, BalanceKept DEF RowCalm

\* The same of a step in which one attempt moves on.
LEMMA GotoPaid ==
    ASSUME RowInv, RowInv', NEW k \in Keys, Paid(k), RowCalm(k),
           UNCHANGED <<input, doors>>,
           Cardinality(Strays(k)') <= Cardinality(Strays(k)),
           clicks'[k] + mishaps[k] + Cardinality(At({"receipt"}, k))
               <= clicks[k] + mishaps'[k] + Cardinality(At({"receipt"}, k)'),
           mishaps[k] <= mishaps'[k],
           ledger[k].state = "submitted" =>
              clicks'[k] + mishaps[k] + Cardinality(At({"probe", "click"}, k)')
                 <= clicks[k] + mishaps'[k] + Cardinality(At({"probe", "click"}, k))
    PROVE  Paid(k)'
<1>1. Resumed(k)' = Resumed(k) /\ Resuming(k)' = Resuming(k)
  BY DEF Resumed, Resuming
<1>2. Countable(k)
  BY <1>1, Countably DEF RowCalm
<1>3. Balanced(k)
  BY <1>1, <1>2, Tallies, TalliesNext DEF Balanced, Chances, Paid
<1> QED
  BY <1>2, <1>3, BalanceKept DEF RowCalm

-----------------------------------------------------------------------------
(* Every step is paid for *)

\* What the rows that a step writes say of the attempt: a claim counts it, and
\* every other write leaves the count and the hands of the row free.
LEMMA RowShapes ==
    ASSUME NEW j \in Jobs, jobs[j] \in Row
    PROVE  /\ ClaimedRow(j).status = "running" /\ ClaimedRow(j).attempts = jobs[j].attempts + 1
           /\ \A r \in {SucceededRow(j), CancelledRow(j), FailedRow(j, 0), FailRow(j),
                        WaitingRow(j, FALSE), ReopenedRow(j),
                        [ReopenedRow(j) EXCEPT !.deadline = "none"],
                        [jobs[j] EXCEPT !.status = "failed", !.error = jobs[j].attempts]} :
                 r.status \notin {"running", "absent"} /\ r.attempts = jobs[j].attempts
           /\ [AbsentRow EXCEPT !.status = "queued", !.maxAttempts = Larger(MaxAttempts, 1),
                                !.due = TRUE].status = "queued"
<1>1. ClaimedRow(j).status = "running" /\ ClaimedRow(j).attempts = jobs[j].attempts + 1
  BY DEF ClaimedRow, Row
<1>2. SucceededRow(j).status = "succeeded" /\ SucceededRow(j).attempts = jobs[j].attempts
  BY DEF SucceededRow, Row
<1>3. CancelledRow(j).status = "cancelled" /\ CancelledRow(j).attempts = jobs[j].attempts
  BY DEF CancelledRow, Row
<1>4. FailedRow(j, 0).status = "failed" /\ FailedRow(j, 0).attempts = jobs[j].attempts
  BY DEF FailedRow, Row
<1>5. FailRow(j).status \in {"failed", "queued"} /\ FailRow(j).attempts = jobs[j].attempts
  <2>1. [RequeuedRow(j, 0) EXCEPT !.due = TRUE].status = "queued"
        /\ [RequeuedRow(j, 0) EXCEPT !.due = TRUE].attempts = jobs[j].attempts
    BY DEF RequeuedRow, Row
  <2> QED
    BY <1>4, <2>1 DEF FailRow
<1>6. WaitingRow(j, FALSE).status = "waiting" /\ WaitingRow(j, FALSE).attempts = jobs[j].attempts
  BY DEF WaitingRow, Row
<1>7. ReopenedRow(j).status = "queued" /\ ReopenedRow(j).attempts = jobs[j].attempts
  BY DEF ReopenedRow, Row
<1>8. LET r == [ReopenedRow(j) EXCEPT !.deadline = "none"]
      IN r.status = "queued" /\ r.attempts = jobs[j].attempts
  BY DEF ReopenedRow, Row
<1>9. [AbsentRow EXCEPT !.status = "queued", !.maxAttempts = Larger(MaxAttempts, 1),
                        !.due = TRUE].status = "queued"
  BY DEF AbsentRow
<1>10. LET r == [jobs[j] EXCEPT !.status = "failed", !.error = jobs[j].attempts]
       IN r.status = "failed" /\ r.attempts = jobs[j].attempts
  BY DEF Row
<1> QED
  BY <1>1, <1>2, <1>3, <1>4, <1>5, <1>6, <1>7, <1>8, <1>9, <1>10

\* A ledger that stands still, the expiry sweep and a rejection.
LEMMA LedgerCalm ==
    ASSUME RowInv
    PROVE  /\ UNCHANGED ledger => \A k \in Keys : RowCalm(k)
           /\ Sweep => \A k \in Keys : RowCalm(k)
           /\ \A i \in Keys : MarkRejected(i) => \A k \in Keys : RowCalm(k)
<1>1. UNCHANGED ledger => \A k \in Keys : RowCalm(k)
  BY DEF RowCalm
<1>2. Sweep => \A k \in Keys : RowCalm(k)
  <2>1. \A k \in Keys : Swept(k).state = "expired"
    BY DEF RowInv, TypeOK, Swept, Entry
  <2> QED
    BY <2>1 DEF Sweep, RowCalm
<1>3. ASSUME NEW i \in Keys, MarkRejected(i)
      PROVE  \A k \in Keys : RowCalm(k)
  <2>1. [ledger[i] EXCEPT !.state = "rejected"].state = "rejected"
    BY DEF RowInv, TypeOK, Entry
  <2> QED
    BY <1>3, <2>1 DEF MarkRejected, Move, Enter, RowCalm, RowInv, TypeOK
<1> QED
  BY <1>1, <1>2, <1>3

\* A door that moves, but not to its resume, leaves the set of those that do.
LEMMA DoorMoves ==
    ASSUME RowInv, NEW d \in Doors, NEW h, h.pc # "resume", doors' = [doors EXCEPT ![d] = h]
    PROVE  \A k \in Keys : Resuming(k)' \subseteq Resuming(k) \ {d}
BY DEF RowInv, TypeOK, Resuming

\* The same of the two moves of a handler.
LEMMA HandlerMoves ==
    ASSUME RowInv, NEW d \in Doors
    PROVE  /\ Answer(d) => \A k \in Keys : Resuming(k)' \subseteq Resuming(k) \ {d}
           /\ \A pc \in {"mark", "cancel"} :
                 Serve(d, pc) => \A k \in Keys : Resuming(k)' \subseteq Resuming(k) \ {d}
<1>1. Answer(d) => \A k \in Keys : Resuming(k)' \subseteq Resuming(k) \ {d}
  BY IdleTyped, DoorMoves DEF Answer
<1>2. ASSUME NEW pc \in {"mark", "cancel"}, Serve(d, pc)
      PROVE  \A k \in Keys : Resuming(k)' \subseteq Resuming(k) \ {d}
  <2>1. [doors[d] EXCEPT !.pc = pc].pc # "resume"
    BY DEF RowInv, TypeOK, Handler
  <2>2. doors' = [doors EXCEPT ![d] = [doors[d] EXCEPT !.pc = pc]]
    BY <1>2 DEF Serve
  <2> QED
    BY <2>1, <2>2, DoorMoves
<1> QED
  BY <1>1, <1>2

\* Every step of a door keeps the budget: the approval that succeeds opens it,
\* and the resume turns its door into a job.
LEMMA DoorPaid ==
    ASSUME LedgerInv, RowInv', NEW d \in Doors, Door(d)
    PROVE  AttemptsApart' /\ ChancesPaid'
<1>i. RowInv /\ AttemptsApart /\ \A k \in Keys : Paid(k)
  BY DEF LedgerInv, ChancesPaid
<1>t. doors[d] \in Handler /\ doors[d].key \in Keys /\ doors \in [Doors -> Handler]
      /\ \A k \in Keys : ledger[k] \in Entry
  BY <1>i DEF RowInv, TypeOK, Handler
<1>q. ASSUME Calm, UNCHANGED <<tasks, input, clicks, mishaps>>, \A k \in Keys : RowCalm(k),
             \A k \in Keys : Resuming(k)' \subseteq Resuming(k)
      PROVE  AttemptsApart' /\ ChancesPaid'
  BY <1>i, <1>q, QuietPaid, StillCounts DEF ChancesPaid
<1>c. UNCHANGED jobs => Calm
  BY <1>i, JobsCalm
<1>1. ASSUME NEW k \in Keys, ApproveOpens(d, k)
      PROVE  AttemptsApart' /\ ChancesPaid'
  <2>1. PICK q \in Quotes :
          doors' = [doors EXCEPT ![d] = [Idle EXCEPT !.pc = "read", !.key = k, !.quoted = q]]
    BY <1>1 DEF ApproveOpens
  <2>2. [Idle EXCEPT !.pc = "read", !.key = k, !.quoted = q].pc # "resume"
    BY IdleTyped DEF Handler
  <2>3. \A i \in Keys : Resuming(i)' \subseteq Resuming(i)
    BY <1>i, <2>1, <2>2, DoorMoves
  <2> QED
    BY <1>1, <1>i, <1>q, <1>c, <2>3, LedgerCalm DEF ApproveOpens, book
<1>2. ASSUME NEW k \in Keys, RejectReads(d, k)
      PROVE  AttemptsApart' /\ ChancesPaid'
  <2>1. [Idle EXCEPT !.pc = "strike", !.key = k, !.row = ledger[k]].pc # "resume"
    BY IdleTyped DEF Handler
  <2>2. \A i \in Keys : Resuming(i)' \subseteq Resuming(i)
    BY <1>2, <1>i, <2>1, DoorMoves DEF RejectReads
  <2> QED
    BY <1>2, <1>i, <1>q, <1>c, <2>2, LedgerCalm DEF RejectReads, book
<1>3. CASE ApproveReads(d)
  <2> DEFINE h == [doors[d] EXCEPT !.pc = "decide", !.row = ledger[doors[d].key]]
  <2>1. h.pc # "resume"
    BY <1>t DEF Handler
  <2>2. doors' = [doors EXCEPT ![d] = h]
    BY <1>3, <1>t DEF ApproveReads
  <2>3. \A i \in Keys : Resuming(i)' \subseteq Resuming(i)
    <3> HIDE DEF h
    <3> QED BY <1>i, <2>1, <2>2, DoorMoves
  <2> QED
    BY <1>3, <1>i, <1>q, <1>c, <2>3, LedgerCalm DEF ApproveReads, book
<1>4. CASE ApproveDecides(d)
  <2>1. \A i \in Keys : Resuming(i)' \subseteq Resuming(i)
    BY <1>4, <1>i, HandlerMoves DEF ApproveDecides
  <2> QED
    BY <1>4, <1>i, <1>q, <1>c, <2>1, LedgerCalm DEF ApproveDecides, book
<1>7. CASE RejectMarks(d)
  <2>1. \A i \in Keys : Resuming(i)' \subseteq Resuming(i)
    BY <1>7, <1>i, HandlerMoves DEF RejectMarks
  <2> QED
    BY <1>7, <1>i, <1>t, <1>q, <1>c, <2>1, LedgerCalm DEF RejectMarks, book
<1>8. CASE RejectCancels(d)
  <2>1. \A i \in Keys : Resuming(i)' \subseteq Resuming(i)
    BY <1>8, <1>i, HandlerMoves DEF RejectCancels
  <2> DEFINE j == doors[d].row.job
  <2>2. j \in Jobs
    BY <1>8, <1>i DEF RejectCancels, RowInv, RowsNamed, Named
  <2>3. Calm
    <3>1. CancelUnclaimed(j) \/ UNCHANGED jobs
      BY <1>8 DEF RejectCancels
    <3> HIDE DEF j
    <3>2. CASE CancelUnclaimed(j)
      <4>1. /\ CancelledRow(j) \in Row /\ CancelledRow(j).status \notin {"running", "absent"}
            /\ CancelledRow(j).attempts = jobs[j].attempts
        BY <1>i, <2>2, RowsTyped, RowShapes DEF RowInv, TypeOK
      <4> QED
        BY <3>2, <4>1, <1>i, <2>2, JobsCalm DEF CancelUnclaimed
    <3> QED
      BY <3>1, <3>2, <1>c
  <2> QED
    BY <1>8, <1>i, <1>q, <2>1, <2>3, LedgerCalm DEF RejectCancels, book
<1>5. CASE ApproveMarks(d)
  <2>k. PICK k \in Keys : k = doors[d].key
    BY <1>t
  <2>1. CASE ledger[k].state # "pending"
    <3>1. Answer(d) /\ UNCHANGED <<ledger, jobs, input, tasks, clicks, mishaps>>
      BY <1>5, <1>t, <1>i, <2>k, <2>1 DEF ApproveMarks, Move, Enter, RowInv, TypeOK
    <3> QED
      BY <3>1, <1>i, <1>q, <1>c, LedgerCalm, HandlerMoves
  <2>2. CASE ledger[k].state = "pending"
    <3>1. /\ Serve(d, "resume") /\ UNCHANGED <<jobs, input, tasks, clicks, mishaps>>
          /\ ledger' = [ledger EXCEPT ![k] = [ledger[k] EXCEPT !.state = "approved"]]
      BY <1>5, <2>k, <2>2 DEF ApproveMarks, Move, Enter
    <3>2. [doors[d] EXCEPT !.pc = "resume"].key = k
      BY <1>t, <2>k DEF Handler
    <3>3. \A i \in Keys : Resuming(i)' \subseteq Resuming(i) \cup (IF i = k THEN {d} ELSE {})
      BY <3>1, <3>2, <1>t DEF Serve, Resuming
    <3>4. ledger'[k].state = "approved" /\ \A i \in Keys \ {k} : ledger'[i] = ledger[i]
      BY <3>1, <1>t, <1>i DEF RowInv, TypeOK, Entry
    <3>5. AttemptsApart' /\ \A i \in Keys : Strays(i)' = Strays(i) /\ Resumed(i)' = Resumed(i)
      BY <3>1, <1>i, <1>c, StillCounts DEF Resumed
    <3>6. \A i \in Keys \ {k} : Paid(i)'
      <4> SUFFICES ASSUME NEW i \in Keys \ {k} PROVE Paid(i)'
        OBVIOUS
      <4>1. Resuming(i)' \subseteq Resuming(i) /\ RowCalm(i)
        BY <3>3, <3>4 DEF RowCalm
      <4> QED
        BY <4>1, <3>1, <1>i, <1>c, QuietPaid
    <3>7. Paid(k)'
      <4>1. Resuming(k) = {} /\ clicks[k] = 0 /\ Chances(k) <= mishaps[k]
        <5>1. clicks[k] \in Nat /\ ~(clicks[k] > 0)
          BY <1>i, <1>t, <2>2 DEF RowInv, TypeOK, NoUnapprovedClick
        <5> QED
          BY <5>1, <1>i, <1>t, <2>2 DEF Paid
      <4>2. Resuming(k)' \subseteq {d}
        BY <3>3, <4>1, <1>t
      <4>3. IsFiniteSet(Resuming(k)') /\ Cardinality(Resuming(k)') <= 1
        <5>1. IsFiniteSet({d}) /\ Cardinality({d}) = 1
          BY FS_Singleton
        <5> QED
          BY <4>2, <5>1, CardPart
      <4>4. Countable(k)
        BY <4>3, <3>4, <3>5, <1>i DEF Countable, Paid
      <4>5. Cardinality(Resuming(k)) = 0
        BY <4>1, FS_EmptySet
      <4>6. Chances(k)' <= Chances(k) + 1
        BY <4>3, <4>4, <4>5, <3>5, <1>i, Tallies, TalliesNext DEF Chances, Paid
      <4> QED
        BY <4>1, <4>4, <4>6, <3>1, <3>4, <1>i, Tallies, TalliesNext DEF Paid, Countable
    <3> QED
      BY <3>5, <3>6, <3>7 DEF ChancesPaid
  <2> QED
    BY <2>1, <2>2
<1>6. CASE ApproveResumes(d)
  <2>k. PICK k \in Keys : k = doors[d].key
    BY <1>t
  <2>1. PICK j \in Jobs : j = doors[d].row.job /\ KeyOf[j] = k
    BY <1>6, <1>i, <2>k DEF ApproveResumes, RowInv, RowsNamed, Named
  <2>2. \A i \in Keys : Resuming(i)' \subseteq Resuming(i) \ {d}
    BY <1>6, <1>i, HandlerMoves DEF ApproveResumes
  <2>3. d \in Resuming(k)
    BY <1>6, <2>k DEF ApproveResumes, Resuming
  <2>4. UNCHANGED <<ledger, tasks, clicks, mishaps>>
    BY <1>6 DEF ApproveResumes, book
  <2>5. CASE UNCHANGED <<jobs, input>>
    BY <2>2, <2>4, <2>5, <1>i, <1>q, <1>c, LedgerCalm
  <2>6. CASE Resume(j) /\ input' = [input EXCEPT ![j] = TRUE]
    <3>1. Calm
      <4> DEFINE r == [ReopenedRow(j) EXCEPT !.deadline = "none"]
      <4>2. r \in Row /\ r.status \notin {"running", "absent"} /\ r.attempts = jobs[j].attempts
        BY <1>i, RowsTyped, RowShapes DEF RowInv, TypeOK
      <4>3. Write(j, r) /\ jobs[j].status = "waiting"
        BY <2>6 DEF Resume
      <4> HIDE DEF r
      <4> QED
        BY <4>2, <4>3, <1>i, <2>1, JobsCalm
    <3>2. \A i \in Jobs : input[i] => input'[i]
      BY <2>6, <2>1, <1>i DEF RowInv, TypeOK
    <3>3. /\ AttemptsApart'
          /\ \A i \in Keys : /\ Strays(i)' = Strays(i)
                             /\ At({"receipt"}, i)' = At({"receipt"}, i)
                             /\ At({"probe", "click"}, i)' = At({"probe", "click"}, i)
      BY <3>1, <3>2, <2>4, <1>i, StillCounts
    <3>4. \A i \in Keys : RowCalm(i)
      BY <2>4, <1>i, LedgerCalm
    <3>5. ASSUME NEW i \in Keys, i # k PROVE Paid(i)'
      <4>1. Resumed(i)' = Resumed(i) /\ Resuming(i)' \subseteq Resuming(i)
        BY <3>5, <2>1, <2>2, <2>6, <1>i DEF Resumed, RowInv, TypeOK
      <4>2. Countable(i) /\ Cardinality(Resuming(i)') <= Cardinality(Resuming(i))
        BY <4>1, <3>4, <1>i, Countably DEF RowCalm
      <4>3. Balanced(i)
        BY <4>1, <4>2, <3>3, <2>4, <1>i, Tallies, TalliesNext DEF Balanced, Chances, Paid
      <4> QED
        BY <4>2, <4>3, <3>4, <1>i, BalanceKept DEF RowCalm
    <3>6. Paid(k)'
      <4>1. Resumed(k)' \subseteq Resumed(k) \cup {j}
        BY <2>1, <2>6, <1>i DEF Resumed, RowInv, TypeOK
      <4>2. IsFiniteSet(Resumed(k)') /\ Cardinality(Resumed(k)') <= Cardinality(Resumed(k)) + 1
        BY <4>1, <2>1, <1>i, CardPlus DEF Paid
      <4>3. /\ IsFiniteSet(Resuming(k)')
            /\ Cardinality(Resuming(k)') + 1 <= Cardinality(Resuming(k))
        BY <2>1, <2>2, <2>3, <1>i, CardMinus DEF Paid
      <4>4. Countable(k)
        BY <4>2, <4>3, <2>1, <2>3, <2>4, <1>i DEF Countable, Paid
      <4>5. Balanced(k)
        BY <4>2, <4>3, <4>4, <3>3, <2>1, <2>4, <1>i, Tallies, TalliesNext DEF Balanced, Chances, Paid
      <4> QED
        BY <4>4, <4>5, <3>4, <2>1, <1>i, BalanceKept DEF RowCalm
    <3> QED
      BY <3>3, <3>5, <3>6 DEF ChancesPaid
  <2> QED
    BY <1>6, <2>1, <2>5, <2>6 DEF ApproveResumes
<1> QED
  BY <1>1, <1>2, <1>3, <1>4, <1>5, <1>6, <1>7, <1>8 DEF Door

\* A step that takes at most one row out of the hands that hold it, and from which at
\* most attempts that are past the action leave: who stays and loses the row is a stray,
\* and a mishap pays for it.
LEMMA TakenPaid ==
    ASSUME LedgerInv, RowInv', NEW j \in Jobs,
           tasks' \subseteq tasks, \A t \in tasks \ tasks' : t.pc \notin Committing,
           UNCHANGED <<input, ledger, doors, clicks>>,
           \A i \in Jobs \ {j} : jobs'[i] = jobs[i],
           \/ jobs'[j] = jobs[j]
           \/ jobs'[j].status \notin {"running", "absent"} /\ jobs'[j].attempts = jobs[j].attempts,
           \/ Mishap(KeyOf[j])
           \/ UNCHANGED mishaps /\ (jobs'[j] = jobs[j] \/ ~\E u \in tasks' : u.job = j /\ Mine(u))
    PROVE  AttemptsApart' /\ ChancesPaid'
<1>i. RowInv /\ AttemptsApart /\ \A k \in Keys : Paid(k)
  BY DEF LedgerInv, ChancesPaid
<1>t. \A t \in tasks : t \in Task /\ t.job \in Jobs
  BY <1>i DEF RowInv, TypeOK, Task
<1>k. PICK k \in Keys : k = KeyOf[j]
  BY TransactAssumption
<1>m. /\ \A i \in Keys : mishaps'[i] \in {mishaps[i], mishaps[i] + 1}
      /\ Mishap(KeyOf[j]) => mishaps'[k] = mishaps[k] + 1
  BY <1>i, <1>k DEF Mishap, RowInv, TypeOK
<1>1. \A u \in tasks' : /\ u.attempt <= jobs'[u.job].attempts /\ jobs'[u.job].status # "absent"
                        /\ Mine(u)' => Mine(u)
                        /\ u.job # j => (Mine(u) => Mine(u)')
                        /\ jobs'[j] = jobs[j] => (Mine(u) => Mine(u)')
  BY <1>i, <1>t DEF AttemptsApart, Mine, Fenced
<1>2. AttemptsApart'
  BY <1>1, <1>i DEF AttemptsApart, Committing
<1>3. ASSUME NEW i \in Keys PROVE Paid(i)'
  <2>1. /\ Resuming(i)' = Resuming(i) /\ Resumed(i)' = Resumed(i)
        /\ At({"receipt"}, i)' = At({"receipt"}, i)
        /\ At({"probe", "click"}, i)' = At({"probe", "click"}, i)
    BY DEF Resuming, Resumed, At, Committing
  <2>2. RowCalm(i)
    BY <1>i, LedgerCalm
  <2>f. IsFiniteSet(Strays(i))
    BY <1>i, Tallies DEF Paid
  <2>3. i # k \/ ~Mishap(KeyOf[j]) => Strays(i)' \subseteq Strays(i)
    BY <1>1, <1>k DEF Strays
  <2>4. \E u : Strays(i)' \subseteq Strays(i) \cup {u}
    <3>1. CASE \E u \in tasks : u.job = j /\ Mine(u)
      <4>1. PICK u \in tasks : u.job = j /\ Mine(u)
        BY <3>1
      <4>2. \A v \in tasks : v.job = j /\ Mine(v) => v = u
        BY <4>1, <1>i DEF AttemptsApart, Mine, Fenced
      <4>3. Strays(i)' \subseteq Strays(i) \cup {u}
        BY <1>1, <4>2 DEF Strays
      <4> QED
        BY <4>3
    <3>2. CASE ~\E u \in tasks : u.job = j /\ Mine(u)
      <4>1. Strays(i)' \subseteq Strays(i)
        BY <1>1, <3>2 DEF Strays
      <4> QED
        BY <4>1
    <3> QED
      BY <3>1, <3>2
  <2>5. /\ Cardinality(Strays(i)') <= Cardinality(Strays(i)) + 1
        /\ i # k \/ ~Mishap(KeyOf[j]) => Cardinality(Strays(i)') <= Cardinality(Strays(i))
    BY <2>f, <2>3, <2>4, CardPlus, CardPart
  <2>6. Countable(i)
    BY <2>1, <1>i DEF Countable, Paid
  <2>7. Balanced(i)
    BY <1>m, <2>1, <2>5, <2>6, <1>i, Tallies, TalliesNext DEF Balanced, Chances, Paid
  <2> QED
    BY <2>2, <2>6, <2>7, <1>i, BalanceKept DEF RowCalm
<1> QED
  BY <1>2, <1>3 DEF ChancesPaid

\* Every step of an attempt keeps the budget.
LEMMA AttemptPaid ==
    ASSUME LedgerInv, RowInv', NEW t \in tasks, Attempt(t)
    PROVE  AttemptsApart' /\ ChancesPaid'
<1>i. RowInv /\ AttemptsApart /\ \A k \in Keys : Paid(k)
  BY DEF LedgerInv, ChancesPaid
<1>t. t \in Task /\ t.job \in Jobs /\ t.sha \in Quotes /\ page \in Quotes
  BY <1>i DEF RowInv, TypeOK, Task, Quotes
<1>k. PICK k \in Keys : k = KeyOf[t.job]
  BY <1>t, TransactAssumption
<1>e. ledger[k] \in Entry /\ ledger[k].sha \in Quotes /\ Unquoted \in Quotes
      /\ ledger \in [Keys -> Entry]
  BY <1>i DEF RowInv, TypeOK, Entry, Quotes
<1>f. \A i \in Keys : /\ Cardinality(At({"receipt"}, i)) \in Nat
                      /\ Cardinality(At({"probe", "click"}, i)) \in Nat
                      /\ Cardinality(Strays(i)) \in Nat /\ Cardinality(Resumed(i)) \in Nat
                      /\ Cardinality(Resuming(i)) \in Nat
                      /\ clicks[i] \in Nat /\ mishaps[i] \in Nat
  BY <1>i, Tallies DEF Paid
<1>g. \A i \in Keys : /\ Cardinality(At({"receipt"}, i)') \in Nat
                      /\ Cardinality(At({"probe", "click"}, i)') \in Nat
                      /\ Cardinality(Strays(i)') \in Nat
  <2> SUFFICES ASSUME NEW i \in Keys
               PROVE  /\ Cardinality(At({"receipt"}, i)') \in Nat
                      /\ Cardinality(At({"probe", "click"}, i)') \in Nat
                      /\ Cardinality(Strays(i)') \in Nat
    OBVIOUS
  <2>1. IsFiniteSet(tasks')
    BY DEF RowInv
  <2> QED
    BY <2>1, CardPart DEF At, Strays
\* Attempts that move on without coming near the action.
<1>q. ASSUME NEW pc \in {"lookup", "insert", "refresh", "reread", "parking",
                         "done", "failing", "refused", "click"},
             NEW sha \in Quotes, Goto(t, pc, sha), t.pc # "receipt",
             pc = "click" => t.pc = "probe",
             UNCHANGED <<jobs, input, doors, clicks, mishaps>>, \A i \in Keys : RowCalm(i)
      PROVE  AttemptsApart' /\ ChancesPaid'
  <2>1. AttemptsApart'
    BY <1>q, <1>i, GotoCounts DEF Committing
  <2>2. ASSUME NEW i \in Keys PROVE Paid(i)'
    <3>1. /\ Cardinality(Strays(i)') <= Cardinality(Strays(i))
          /\ Cardinality(At({"receipt"}, i)) <= Cardinality(At({"receipt"}, i)')
          /\ Cardinality(At({"probe", "click"}, i)') <= Cardinality(At({"probe", "click"}, i))
      BY <1>q, <1>i, GotoCounts DEF Committing
    <3> QED
      BY <3>1, <1>q, <1>i, <1>f, <1>g, GotoPaid
  <2> QED
    BY <2>1, <2>2 DEF ChancesPaid
<1>c. UNCHANGED ledger => \A i \in Keys : RowCalm(i)
  BY <1>i, LedgerCalm
<1>1. CASE DryRun(t)
  BY <1>1, <1>q, <1>c, <1>t DEF DryRun, Outside, book
<1>2. CASE StageReads(t)
  BY <1>2, <1>q, <1>c, <1>t, <1>e DEF StageReads, Conclude, Outside, book
<1>3. CASE StageInserts(t)
  <2>1. \A i \in Keys : RowCalm(i)
    BY <1>3, <1>k, <1>e DEF StageInserts, Enter, RowCalm
  <2> QED
    BY <1>3, <1>q, <1>e, <2>1 DEF StageInserts, Conclude, Outside, book
<1>4. CASE StageRefreshes(t)
  <2>1. Refreshed(t, ledger[k]).state = ledger[k].state
    BY <1>e DEF Refreshed, Entry
  <2>2. \A i \in Keys : RowCalm(i)
    BY <1>4, <1>k, <1>e, <2>1 DEF StageRefreshes, Enter, RowCalm
  <2> QED
    BY <1>4, <1>q, <1>e, <2>2 DEF StageRefreshes, Conclude, Outside, book
<1>5. CASE StageVerdict(t)
  BY <1>5, <1>q, <1>c, <1>e DEF StageVerdict, Conclude, Outside, book
<1>6. CASE Probe(t)
  BY <1>6, <1>q, <1>c, <1>t, <1>e DEF Probe, Conclude, Outside, book
<1>7. CASE CommitReads(t)
  <2>1. CASE Released(k)
    <3>1. Goto(t, "probe", ledger[k].sha) /\ input[t.job]
          /\ UNCHANGED <<jobs, input, ledger, doors, clicks, mishaps>> /\ t.pc # "receipt"
      BY <1>7, <1>k, <2>1 DEF CommitReads, Outside, book
    <3>2. AttemptsApart'
      BY <3>1, <1>i, <1>e, GotoCounts
    <3>3. ASSUME NEW i \in Keys PROVE Paid(i)'
      <4>1. /\ Cardinality(Strays(i)') <= Cardinality(Strays(i))
            /\ Cardinality(At({"receipt"}, i)) <= Cardinality(At({"receipt"}, i)')
            /\ i # k => Cardinality(At({"probe", "click"}, i)') <= Cardinality(At({"probe", "click"}, i))
        BY <3>1, <1>i, <1>e, <1>k, GotoCounts
      <4>2. ledger[k].state # "submitted"
        BY <2>1 DEF Released
      <4> QED
        BY <3>1, <4>1, <4>2, <1>c, <1>i, <1>f, <1>g, GotoPaid
    <3> QED
      BY <3>2, <3>3 DEF ChancesPaid
  <2>2. CASE ~Released(k)
    BY <1>7, <1>k, <2>2, <1>q, <1>c, <1>e DEF CommitReads, Conclude, Outside, book
  <2> QED
    BY <2>1, <2>2
<1>8. CASE Click(t)
  <2>1. CASE Conclude(t, "done") /\ UNCHANGED <<clicks, mishaps>>
    BY <1>8, <2>1, <1>q, <1>c, <1>e DEF Click, Conclude
  <2>2. CASE Clicked(KeyOf[t.job]) /\ Goto(t, "receipt", t.sha) /\ UNCHANGED mishaps
    <3>1. t.pc = "click" /\ UNCHANGED <<jobs, input, ledger, doors, mishaps>>
      BY <1>8, <2>2 DEF Click
    <3>2. clicks'[k] = clicks[k] + 1 /\ \A i \in Keys \ {k} : clicks'[i] = clicks[i]
      BY <2>2, <1>k, <1>i DEF RowInv, TypeOK, Clicked
    <3>3. AttemptsApart'
      BY <2>2, <3>1, <1>i, <1>t, GotoCounts DEF Committing
    <3>4. ASSUME NEW i \in Keys PROVE Paid(i)'
      <4>1. /\ Cardinality(Strays(i)') <= Cardinality(Strays(i))
            /\ Cardinality(At({"receipt"}, i)) <= Cardinality(At({"receipt"}, i)')
            /\ i = k => Cardinality(At({"receipt"}, i)) + 1 <= Cardinality(At({"receipt"}, i)')
            /\ Cardinality(At({"probe", "click"}, i)') <= Cardinality(At({"probe", "click"}, i))
            /\ i = k => Cardinality(At({"probe", "click"}, i)') + 1 <= Cardinality(At({"probe", "click"}, i))
        BY <2>2, <3>1, <1>i, <1>t, <1>k, GotoCounts DEF Committing
      <4> QED
        BY <3>1, <3>2, <4>1, <1>c, <1>i, <1>f, <1>g, GotoPaid
    <3> QED
      BY <3>3, <3>4 DEF ChancesPaid
  <2>3. CASE Clicked(KeyOf[t.job]) /\ Goto(t, "done", Unquoted) /\ Mishap(KeyOf[t.job])
    <3>1. t.pc = "click" /\ UNCHANGED <<jobs, input, ledger, doors>>
      BY <1>8 DEF Click
    <3>2. /\ clicks'[k] = clicks[k] + 1 /\ \A i \in Keys \ {k} : clicks'[i] = clicks[i]
          /\ mishaps'[k] = mishaps[k] + 1 /\ \A i \in Keys \ {k} : mishaps'[i] = mishaps[i]
      BY <2>3, <1>k, <1>i DEF RowInv, TypeOK, Clicked, Mishap
    <3>3. AttemptsApart'
      BY <2>3, <3>1, <1>i, <1>e, GotoCounts DEF Committing
    <3>4. ASSUME NEW i \in Keys PROVE Paid(i)'
      <4>1. /\ Cardinality(Strays(i)') <= Cardinality(Strays(i))
            /\ Cardinality(At({"receipt"}, i)) <= Cardinality(At({"receipt"}, i)')
            /\ Cardinality(At({"probe", "click"}, i)') <= Cardinality(At({"probe", "click"}, i))
        BY <2>3, <3>1, <1>i, <1>e, <1>k, GotoCounts DEF Committing
      <4> QED
        BY <3>1, <3>2, <4>1, <1>c, <1>i, <1>f, <1>g, GotoPaid
    <3> QED
      BY <3>3, <3>4 DEF ChancesPaid
  <2> QED
    BY <1>8, <2>1, <2>2, <2>3 DEF Click, Conclude
<1>9. CASE MarkSubmitted(t)
  <2>1. Goto(t, "done", Unquoted) /\ t.pc = "receipt"
        /\ UNCHANGED <<jobs, input, doors, clicks, mishaps>>
    BY <1>9 DEF MarkSubmitted, Conclude, Outside, book
  <2>2. AttemptsApart'
    BY <2>1, <1>i, <1>e, GotoCounts DEF Committing
  <2>3. /\ ledger[k].state = "approved" => ledger'[k].state = "submitted"
        /\ ledger[k].state # "approved" => ledger'[k] = ledger[k]
        /\ \A i \in Keys \ {k} : ledger'[i] = ledger[i]
    <3>1. [ledger[k] EXCEPT !.state = "submitted"].state = "submitted"
      BY <1>e DEF Entry
    <3> QED
      BY <1>9, <1>k, <1>e, <3>1 DEF MarkSubmitted, Enter
  <2>4. ASSUME NEW i \in Keys PROVE
            /\ Cardinality(Strays(i)') <= Cardinality(Strays(i))
            /\ i # k => Cardinality(At({"receipt"}, i)) <= Cardinality(At({"receipt"}, i)')
            /\ Cardinality(At({"probe", "click"}, i)') <= Cardinality(At({"probe", "click"}, i))
    BY <2>1, <1>i, <1>e, <1>k, GotoCounts DEF Committing
  <2>5. ASSUME NEW i \in Keys, i # k PROVE Paid(i)'
    <3>1. RowCalm(i)
      BY <2>3, <2>5 DEF RowCalm
    <3> QED
      BY <2>1, <2>4, <2>5, <3>1, <1>i, <1>f, <1>g, GotoPaid
  <2>6. Paid(k)'
    <3>1. Resumed(k)' = Resumed(k) /\ Resuming(k)' = Resuming(k)
      BY <2>1 DEF Resumed, Resuming
    <3>2. ledger[k].state \in {"approved", "submitted"}
      BY <2>1, <1>k, <1>i DEF RowInv, CommitsBacked, Committing
    <3>3. ledger'[k].state = "submitted"
      BY <2>3, <3>2
    <3>4. IsFiniteSet(Resumed(k)') /\ IsFiniteSet(Resuming(k)')
      BY <3>1, <1>i DEF Paid
    <3>5. clicks[k] + Cardinality(At({"probe", "click"}, k)) <= 1 + mishaps[k]
      <4>1. CASE ledger[k].state = "submitted"
        BY <4>1, <1>i DEF Paid
      <4>2. CASE ledger[k].state = "approved"
        <5>1. clicks[k] + Chances(k) <= 1 + mishaps[k] + Cardinality(At({"receipt"}, k))
          BY <4>2, <1>i DEF Paid
        <5>2. Cardinality(At({"probe", "click"}, k)) + Cardinality(At({"receipt"}, k))
                <= Cardinality(Strays(k)) + Cardinality(Resumed(k))
          BY <1>i, CommitsCounted
        <5> QED
          BY <5>1, <5>2, <1>f DEF Chances
      <4> QED
        BY <3>2, <4>1, <4>2
    <3>6. clicks'[k] + Cardinality(At({"probe", "click"}, k)') <= 1 + mishaps'[k]
      BY <2>1, <2>4, <3>5, <1>f, <1>g
    <3> QED
      BY <3>3, <3>4, <3>6 DEF Paid
  <2> QED
    BY <2>2, <2>5, <2>6 DEF ChancesPaid
\* Attempts that end: whoever owned the row was the only one.
<1>p. ASSUME tasks' = tasks \ {t}, t.pc \notin Committing,
             UNCHANGED <<ledger, doors, clicks, mishaps>>,
             \A j \in Jobs : input'[j] => input[j],
             \A j \in Jobs : j # t.job \/ ~Mine(t) => input'[j] = input[j] /\ jobs'[j] = jobs[j],
             Mine(t) => /\ jobs'[t.job].status \notin {"running", "absent"}
                        /\ jobs'[t.job].attempts = jobs[t.job].attempts
      PROVE  AttemptsApart' /\ ChancesPaid'
  <2>j. \A u \in tasks : u.job \in Jobs
    BY <1>i DEF RowInv, TypeOK, Task
  <2>1. \A u \in tasks' : /\ u.attempt <= jobs'[u.job].attempts /\ jobs'[u.job].status # "absent"
                          /\ Mine(u)' <=> Mine(u)
    <3> SUFFICES ASSUME NEW u \in tasks'
                 PROVE  /\ u.attempt <= jobs'[u.job].attempts /\ jobs'[u.job].status # "absent"
                        /\ Mine(u)' <=> Mine(u)
      OBVIOUS
    <3>1. u \in tasks /\ u # t /\ u.job \in Jobs
      BY <1>p, <2>j
    <3>2. CASE u.job # t.job \/ ~Mine(t)
      BY <1>p, <1>i, <3>1, <3>2 DEF Mine, Fenced, AttemptsApart
    <3>3. CASE u.job = t.job /\ Mine(t)
      <4>1. ~Mine(u)
        BY <3>1, <3>3, <1>i DEF Mine, Fenced, AttemptsApart
      <4>2. ~Mine(u)'
        BY <1>p, <3>3 DEF Mine, Fenced
      <4> QED
        BY <1>p, <1>i, <3>1, <3>3, <4>1, <4>2 DEF AttemptsApart
    <3> QED
      BY <3>2, <3>3
  <2>2. AttemptsApart'
    <3>1. \A u \in tasks' : Mine(u)' /\ u.pc \in Committing => input'[u.job]
      <4> SUFFICES ASSUME NEW u \in tasks', Mine(u)', u.pc \in Committing PROVE input'[u.job]
        OBVIOUS
      <4>1. u \in tasks /\ u # t /\ Mine(u) /\ u.job \in Jobs /\ input[u.job]
        BY <1>p, <1>i, <2>1, <2>j DEF AttemptsApart
      <4>2. u.job # t.job \/ ~Mine(t)
        BY <4>1, <1>i DEF AttemptsApart, Mine, Fenced
      <4> QED
        BY <1>p, <4>1, <4>2
    <3> QED
      BY <1>p, <1>i, <2>1, <3>1 DEF AttemptsApart, Committing
  <2>3. ASSUME NEW i \in Keys PROVE Paid(i)'
    <3>1. /\ Strays(i)' \subseteq Strays(i)
          /\ At({"receipt"}, i)' = At({"receipt"}, i)
          /\ At({"probe", "click"}, i)' = At({"probe", "click"}, i)
          /\ Resumed(i)' \subseteq Resumed(i) /\ Resuming(i)' \subseteq Resuming(i)
      BY <1>p, <2>1 DEF Strays, At, Resumed, Resuming, Committing
    <3>2. RowCalm(i)
      BY <1>p, <1>c
    <3>3. /\ Countable(i) /\ Cardinality(Resumed(i)') <= Cardinality(Resumed(i))
          /\ Cardinality(Resuming(i)') <= Cardinality(Resuming(i))
      BY <3>1, <3>2, <1>i, Countably DEF RowCalm
    <3>4. IsFiniteSet(Strays(i))
      BY <1>i, Tallies DEF Paid
    <3>5. Cardinality(Strays(i)') <= Cardinality(Strays(i))
      BY <3>1, <3>4, CardPart
    <3>6. Balanced(i)
      BY <1>p, <3>1, <3>3, <3>5, <1>i, Tallies, TalliesNext DEF Balanced, Chances, Paid
    <3> QED
      BY <3>2, <3>3, <3>6, <1>i, BalanceKept DEF RowCalm
  <2> QED
    BY <2>2, <2>3 DEF ChancesPaid
<1>s. jobs[t.job] \in Row /\ jobs \in [Jobs -> Row] /\ input \in [Jobs -> BOOLEAN]
  BY <1>i, <1>t DEF RowInv, TypeOK
<1>10. CASE Park(t)
  <2>1. Mine(t) => Write(t.job, WaitingRow(t.job, FALSE)) /\ input' = [input EXCEPT ![t.job] = FALSE]
    BY <1>10 DEF Park
  <2>2. ~Mine(t) => UNCHANGED <<jobs, input>>
    BY <1>10 DEF Park
  <2>3. /\ WaitingRow(t.job, FALSE).status \notin {"running", "absent"}
        /\ WaitingRow(t.job, FALSE).attempts = jobs[t.job].attempts
    BY <1>t, <1>s, RowShapes
  <2>4. /\ \A j \in Jobs : input'[j] => input[j]
        /\ \A j \in Jobs : j # t.job \/ ~Mine(t) => input'[j] = input[j] /\ jobs'[j] = jobs[j]
        /\ Mine(t) => /\ jobs'[t.job].status \notin {"running", "absent"}
                      /\ jobs'[t.job].attempts = jobs[t.job].attempts
    BY <1>s, <1>t, <2>1, <2>2, <2>3 DEF Write
  <2> QED
    BY <1>10, <1>p, <2>4 DEF Park, Outside, book, Committing
<1>11. CASE Ends(t)
  <2> DEFINE r == CASE t.pc = "done" -> SucceededRow(t.job)
                    [] t.pc = "failing" -> FailRow(t.job)
                    [] t.pc = "refused" -> FailedRow(t.job, 0)
                    [] t.pc = "cancelled" -> CancelledRow(t.job)
  <2>1. Mine(t) => Write(t.job, r)
    BY <1>11 DEF Ends
  <2>2. ~Mine(t) => UNCHANGED jobs
    BY <1>11 DEF Ends
  <2>3. r.status \notin {"running", "absent"} /\ r.attempts = jobs[t.job].attempts
    <3>1. r \in {SucceededRow(t.job), FailRow(t.job), FailedRow(t.job, 0), CancelledRow(t.job)}
      BY <1>11 DEF Ends, Outcomes
    <3> HIDE DEF r
    <3> QED
      BY <1>t, <1>s, <3>1, RowShapes
  <2> HIDE DEF r
  <2>4. /\ \A j \in Jobs : j # t.job \/ ~Mine(t) => jobs'[j] = jobs[j]
        /\ Mine(t) => /\ jobs'[t.job].status \notin {"running", "absent"}
                      /\ jobs'[t.job].attempts = jobs[t.job].attempts
    BY <1>s, <1>t, <2>1, <2>2, <2>3 DEF Write
  <2> QED
    BY <1>11, <1>p, <2>4 DEF Ends, Outcomes, Outside, book, Committing
<1>12. CASE Suspends(t)
  <2>1. /\ tasks' = tasks \ {t} /\ t.pc \notin Committing
        /\ UNCHANGED <<input, ledger, doors, clicks>>
    BY <1>12 DEF Suspends, Committing
  <2>2. \/ Write(t.job, ReopenedRow(t.job))
        \/ UNCHANGED jobs
    BY <1>12 DEF Suspends, Reset
  <2>3. /\ ReopenedRow(t.job).status \notin {"running", "absent"}
        /\ ReopenedRow(t.job).attempts = jobs[t.job].attempts
    BY <1>t, <1>s, RowShapes
  <2>4. /\ \A i \in Jobs \ {t.job} : jobs'[i] = jobs[i]
        /\ \/ jobs'[t.job] = jobs[t.job]
           \/ /\ jobs'[t.job].status \notin {"running", "absent"}
              /\ jobs'[t.job].attempts = jobs[t.job].attempts
    BY <1>s, <1>t, <2>2, <2>3 DEF Write
  <2>5. \/ Mishap(KeyOf[t.job])
        \/ UNCHANGED mishaps /\ ~\E u \in tasks' : u.job = t.job /\ Mine(u)
    BY <1>12 DEF Suspends, Held
  <2> QED
    BY <2>1, <2>4, <2>5, <1>t, TakenPaid
<1> QED
  BY <1>1, <1>2, <1>3, <1>4, <1>5, <1>6, <1>7, <1>8, <1>9, <1>10, <1>11, <1>12 DEF Attempt

\* An attempt that is cut, a crash, the reaper, and what operators and the site do, keep
\* the budget: a click whose receipt is lost is a mishap, and so is a live attempt that
\* loses its row.
LEMMA WorldPaid ==
    ASSUME LedgerInv, RowInv',
           \/ \E t \in tasks : AttemptErrs(t) \/ AttemptStops(t) \/ OutcomeLost(t)
           \/ \E j \in Jobs :
                 \/ Submit(j) \/ Claim(j) \/ Reap(j) \/ ParkExpires(j)
                 \/ ApiRetry(j) \/ ApiCancel(j) \/ ResumeByHand(j) \/ ResetByHand(j)
           \/ \E k \in Keys : Age(k)
           \/ ListTransactions \/ Drift \/ Crash
    PROVE  AttemptsApart' /\ ChancesPaid'
<1>i. RowInv /\ AttemptsApart /\ \A k \in Keys : Paid(k)
  BY DEF LedgerInv, ChancesPaid
<1>s. jobs \in [Jobs -> Row] /\ input \in [Jobs -> BOOLEAN] /\ ledger \in [Keys -> Entry]
      /\ mishaps \in [Keys -> Nat] /\ clicks \in [Keys -> Nat] /\ Unquoted \in Quotes
  BY <1>i DEF RowInv, TypeOK, Quotes
<1>t. \A t \in tasks : t \in Task /\ t.job \in Jobs /\ KeyOf[t.job] \in Keys
  BY <1>i, TransactAssumption DEF RowInv, TypeOK, Task
<1>f. \A i \in Keys : /\ Cardinality(At({"receipt"}, i)) \in Nat
                      /\ Cardinality(At({"probe", "click"}, i)) \in Nat
                      /\ clicks[i] \in Nat /\ mishaps[i] \in Nat
  BY <1>i, Tallies DEF Paid
<1>q. ASSUME Calm, UNCHANGED <<tasks, input, doors, clicks, mishaps>>, \A k \in Keys : RowCalm(k)
      PROVE  AttemptsApart' /\ ChancesPaid'
  <2>1. \A k \in Keys : Resuming(k)' = Resuming(k)
    BY <1>q DEF Resuming
  <2> QED
    BY <1>i, <1>q, <2>1, QuietPaid, StillCounts DEF ChancesPaid
<1>c. UNCHANGED ledger => \A k \in Keys : RowCalm(k)
  BY <1>i, LedgerCalm
<1>d. UNCHANGED jobs => Calm
  BY <1>i, JobsCalm
<1>1. ASSUME NEW t \in tasks, NEW pc \in {"failing", "cancelled", "suspended"}, Cut(t, pc)
      PROVE  AttemptsApart' /\ ChancesPaid'
  <2>k. PICK k \in Keys : k = KeyOf[t.job]
    BY <1>t
  <2>1. Goto(t, pc, Unquoted) /\ UNCHANGED <<jobs, input, ledger, doors, clicks>>
    BY <1>1 DEF Cut, Conclude
  <2>2. /\ t.pc # "receipt" => UNCHANGED mishaps
        /\ t.pc = "receipt" => /\ mishaps'[k] = mishaps[k] + 1
                               /\ \A i \in Keys \ {k} : mishaps'[i] = mishaps[i]
    BY <1>1, <2>k, <1>s DEF Cut, Mishap
  <2>3. AttemptsApart'
    BY <2>1, <1>1, <1>i, <1>s, GotoCounts DEF Committing
  <2>4. ASSUME NEW i \in Keys PROVE Paid(i)'
    <3>1. /\ Cardinality(Strays(i)') <= Cardinality(Strays(i))
          /\ Cardinality(At({"receipt"}, i)) <= Cardinality(At({"receipt"}, i)') + 1
          /\ t.pc # "receipt" \/ i # k =>
                Cardinality(At({"receipt"}, i)) <= Cardinality(At({"receipt"}, i)')
          /\ Cardinality(At({"probe", "click"}, i)') <= Cardinality(At({"probe", "click"}, i))
      BY <2>1, <1>1, <2>k, <1>i, <1>s, GotoCounts DEF Committing
    <3>2. Cardinality(At({"receipt"}, i)') \in Nat /\ Cardinality(At({"probe", "click"}, i)') \in Nat
      <4>1. IsFiniteSet(tasks')
        BY DEF RowInv
      <4> QED
        BY <4>1, CardPart DEF At
    <3> QED
      BY <2>1, <2>2, <3>1, <3>2, <1>c, <1>i, <1>f, GotoPaid
  <2> QED
    BY <2>3, <2>4 DEF ChancesPaid
<1>2. ASSUME NEW j \in Jobs, Submit(j)
      PROVE  AttemptsApart' /\ ChancesPaid'
  <2> DEFINE r == [AbsentRow EXCEPT !.status = "queued", !.maxAttempts = Larger(MaxAttempts, 1),
                                    !.due = TRUE]
  <2>1. r \in Row /\ r.status = "queued"
    BY <1>s, RowsTyped, RowShapes
  <2>2. Write(j, r) /\ jobs[j].status = "absent"
    BY <1>2 DEF Submit, Insert
  <2> HIDE DEF r
  <2>3. Calm
    BY <2>1, <2>2, <1>i, JobsCalm
  <2> QED
    BY <1>2, <1>q, <1>c, <2>3 DEF Submit, Outside, book
<1>3. ASSUME NEW j \in Jobs, ApiRetry(j) \/ ApiCancel(j) \/ ParkExpires(j)
      PROVE  AttemptsApart' /\ ChancesPaid'
  <2> DEFINE e == [jobs[j] EXCEPT !.status = "failed", !.error = jobs[j].attempts]
  <2>1. \A r \in {ReopenedRow(j), CancelledRow(j), e} :
           r \in Row /\ r.status \notin {"running", "absent"} /\ r.attempts = jobs[j].attempts
    BY <1>s, RowsTyped, RowShapes
  <2>2. /\ \E r \in {ReopenedRow(j), CancelledRow(j), e} : Write(j, r)
        /\ jobs[j].status # "running"
    BY <1>3 DEF ApiRetry, Retry, ApiCancel, CancelUnclaimed, ParkExpires
  <2> HIDE DEF e
  <2>3. Calm
    BY <2>1, <2>2, <1>i, JobsCalm
  <2> QED
    BY <1>3, <1>q, <1>c, <2>3 DEF ApiRetry, ApiCancel, ParkExpires, Outside, book
<1>4. ASSUME NEW j \in Jobs, Claim(j)
      PROVE  AttemptsApart' /\ ChancesPaid'
  <2>1. PICK n : /\ n.job = j /\ n.attempt = jobs[j].attempts + 1 /\ n.pc = "start"
                 /\ tasks' = tasks \cup {n}
    <3> DEFINE n == [job |-> j, attempt |-> jobs[j].attempts + 1, sha |-> Unquoted, pc |-> "start"]
    <3>1. /\ n.job = j /\ n.attempt = jobs[j].attempts + 1 /\ n.pc = "start"
          /\ tasks' = tasks \cup {n}
      BY <1>4 DEF Claim
    <3> HIDE DEF n
    <3> QED
      BY <3>1
  <2>2. jobs[j].status = "queued" /\ Write(j, ClaimedRow(j)) /\ UNCHANGED <<input, ledger, doors, clicks, mishaps>>
    BY <1>4 DEF Claim, ClaimNext, Claimable, Outside, book
  <2>3. /\ jobs'[j].status = "running" /\ jobs'[j].attempts = jobs[j].attempts + 1
        /\ \A i \in Jobs \ {j} : jobs'[i] = jobs[i]
        /\ jobs[j].attempts \in Nat
    <3>1. ClaimedRow(j).status = "running" /\ ClaimedRow(j).attempts = jobs[j].attempts + 1
      BY <1>s, RowShapes
    <3> QED
      BY <2>2, <3>1, <1>s DEF Write, Row
  <2>4. \A u \in tasks : /\ Mine(u)' <=> Mine(u)
                         /\ u.attempt <= jobs'[u.job].attempts /\ jobs'[u.job].status # "absent"
                         /\ ~(u.job = n.job /\ u.attempt = n.attempt)
    <3> SUFFICES ASSUME NEW u \in tasks
                 PROVE  /\ Mine(u)' <=> Mine(u)
                        /\ u.attempt <= jobs'[u.job].attempts /\ jobs'[u.job].status # "absent"
                        /\ ~(u.job = n.job /\ u.attempt = n.attempt)
      OBVIOUS
    <3>1. u.attempt <= jobs[u.job].attempts /\ jobs[u.job].status # "absent"
          /\ u.job \in Jobs /\ u.attempt \in Nat
      BY <1>i, <1>t DEF AttemptsApart, Task
    <3>2. CASE u.job = j
      BY <2>1, <2>2, <2>3, <3>1, <3>2 DEF Mine, Fenced
    <3>3. CASE u.job # j
      BY <2>1, <2>3, <3>1, <3>3 DEF Mine, Fenced
    <3> QED
      BY <3>2, <3>3
  <2>5. Mine(n)' /\ n.attempt <= jobs'[n.job].attempts /\ jobs'[n.job].status # "absent"
    BY <2>1, <2>3 DEF Mine, Fenced
  <2>6. AttemptsApart'
    BY <1>i, <2>1, <2>2, <2>4, <2>5 DEF AttemptsApart, Committing
  <2>7. ASSUME NEW k \in Keys PROVE Paid(k)'
    <3>1. /\ Strays(k)' = Strays(k)
          /\ At({"receipt"}, k)' = At({"receipt"}, k)
          /\ At({"probe", "click"}, k)' = At({"probe", "click"}, k)
      BY <2>1, <2>4, <2>5 DEF Strays, At
    <3>2. RowCalm(k)
      BY <2>2, <1>c
    <3> QED
      BY <2>2, <3>1, <3>2, <1>i, <1>f, Tallies, GotoPaid DEF Paid
  <2> QED
    BY <2>6, <2>7 DEF ChancesPaid
<1>5. ASSUME NEW j \in Jobs, ResumeByHand(j)
      PROVE  AttemptsApart' /\ ChancesPaid'
  <2>k. PICK k \in Keys : k = KeyOf[j]
    BY TransactAssumption
  <2> DEFINE r == [ReopenedRow(j) EXCEPT !.deadline = "none"]
  <2>1. r \in Row /\ r.status \notin {"running", "absent"} /\ r.attempts = jobs[j].attempts
    BY <1>s, RowsTyped, RowShapes
  <2>2. Write(j, r) /\ jobs[j].status = "waiting"
    BY <1>5 DEF ResumeByHand, Resume
  <2> HIDE DEF r
  <2>3. Calm
    BY <2>1, <2>2, <1>i, JobsCalm
  <2>4. /\ UNCHANGED <<ledger, tasks, doors, clicks>> /\ input' = [input EXCEPT ![j] = TRUE]
        /\ mishaps'[k] = mishaps[k] + 1 /\ \A i \in Keys \ {k} : mishaps'[i] = mishaps[i]
    BY <1>5, <2>k, <1>s DEF ResumeByHand, Mishap
  <2>5. \A i \in Jobs : input[i] => input'[i]
    BY <2>4, <1>s
  <2>6. /\ AttemptsApart'
        /\ \A i \in Keys : /\ Strays(i)' = Strays(i)
                           /\ At({"receipt"}, i)' = At({"receipt"}, i)
                           /\ At({"probe", "click"}, i)' = At({"probe", "click"}, i)
    BY <2>3, <2>4, <2>5, <1>i, StillCounts
  <2>7. ASSUME NEW i \in Keys PROVE Paid(i)'
    <3>1. Resuming(i)' = Resuming(i) /\ RowCalm(i)
      BY <2>4, <1>c DEF Resuming
    <3>2. i # k => Resumed(i)' = Resumed(i)
      BY <2>4, <2>k, <1>s DEF Resumed
    <3>3. Resumed(i)' \subseteq Resumed(i) \cup {j}
      BY <2>4, <1>s DEF Resumed
    <3>4. /\ IsFiniteSet(Resumed(i)')
          /\ Cardinality(Resumed(i)') <= Cardinality(Resumed(i)) + 1
      BY <3>3, <1>i, CardPlus DEF Paid
    <3>5. Countable(i)
      BY <2>4, <3>1, <3>4, <1>i DEF Countable, Paid
    <3>6. Balanced(i)
      BY <2>4, <2>6, <3>1, <3>2, <3>4, <3>5, <1>i, Tallies, TalliesNext DEF Balanced, Chances, Paid
    <3> QED
      BY <3>1, <3>5, <3>6, <1>i, BalanceKept DEF RowCalm
  <2> QED
    BY <2>6, <2>7 DEF ChancesPaid
<1>6. ASSUME NEW j \in Jobs, ResetByHand(j) \/ Reap(j)
      PROVE  AttemptsApart' /\ ChancesPaid'
  <2>1. /\ UNCHANGED <<input, ledger, tasks, doors, clicks>>
        /\ Write(j, ReopenedRow(j)) \/ Write(j, FailRow(j))
        /\ \/ Mishap(KeyOf[j])
           \/ UNCHANGED mishaps /\ ~\E u \in tasks' : u.job = j /\ Mine(u)
    BY <1>6 DEF ResetByHand, Reset, Reap, Held
  <2>2. /\ jobs'[j].status \notin {"running", "absent"} /\ jobs'[j].attempts = jobs[j].attempts
        /\ \A i \in Jobs \ {j} : jobs'[i] = jobs[i]
    <3>1. \A r \in {ReopenedRow(j), FailRow(j)} :
             r.status \notin {"running", "absent"} /\ r.attempts = jobs[j].attempts
      BY <1>s, RowShapes
    <3> QED
      BY <2>1, <3>1, <1>s DEF Write
  <2> QED
    BY <2>1, <2>2, TakenPaid
<1>11. ASSUME NEW t \in tasks, OutcomeLost(t)
       PROVE  AttemptsApart' /\ ChancesPaid'
  <2>1. /\ tasks' = tasks \ {t} /\ t.pc \notin Committing
        /\ UNCHANGED <<jobs, input, ledger, doors, clicks, mishaps>>
    BY <1>11 DEF OutcomeLost, Outcomes, Committing, book
  <2> QED
    BY <2>1, <1>t, TakenPaid
<1>12. ASSUME NEW t \in tasks, AttemptErrs(t) \/ AttemptStops(t)
       PROVE  AttemptsApart' /\ ChancesPaid'
  BY <1>1, <1>12 DEF AttemptErrs, AttemptStops
<1>7. ASSUME NEW k \in Keys, Age(k)
      PROVE  AttemptsApart' /\ ChancesPaid'
  <2>1. [ledger[k] EXCEPT !.old = TRUE].state = ledger[k].state
    BY <1>s DEF Entry
  <2>2. \A i \in Keys : RowCalm(i)
    BY <1>7, <1>s, <2>1 DEF Age, Enter, RowCalm
  <2> QED
    BY <1>7, <1>q, <1>d, <2>2 DEF Age, Outside, book
<1>8. CASE ListTransactions
  BY <1>8, <1>q, <1>d, <1>i, LedgerCalm DEF ListTransactions, book
<1>9. CASE Drift
  BY <1>9, <1>q, <1>d, <1>c DEF Drift, book
<1>10. CASE Crash
  <2>1. tasks' = {} /\ UNCHANGED <<input, ledger, clicks>> /\ doors' = [d \in Doors |-> Idle]
    BY <1>10 DEF Crash
  <2>2. AttemptsApart'
    BY <2>1 DEF AttemptsApart
  <2>3. ASSUME NEW k \in Keys PROVE Paid(k)'
    <3>1. /\ Strays(k)' = {} /\ Resuming(k)' = {} /\ Resumed(k)' = Resumed(k)
          /\ At({"receipt"}, k)' = {} /\ At({"probe", "click"}, k)' = {}
      BY <2>1, IdleTyped DEF Strays, Resuming, Resumed, At
    <3>2. At({"receipt"}, k) = {t \in tasks : t.pc = "receipt" /\ KeyOf[t.job] = k}
      BY DEF At
    <3>3. mishaps'[k] = mishaps[k] + Cardinality(At({"receipt"}, k))
      BY <1>10, <3>2 DEF Crash
    <3>4. Countable(k)
      BY <3>1, <1>i, FS_EmptySet DEF Countable, Paid
    <3>f. /\ Cardinality(Strays(k)) \in Nat /\ Cardinality(Resumed(k)) \in Nat
          /\ Cardinality(Resuming(k)) \in Nat
          /\ Cardinality(At({"receipt"}, k)) \in Nat
          /\ Cardinality(At({"probe", "click"}, k)) \in Nat
          /\ clicks[k] \in Nat /\ mishaps[k] \in Nat
      BY <1>i, Tallies DEF Paid
    <3>z. /\ Cardinality(Strays(k)') = 0 /\ Cardinality(Resuming(k)') = 0
          /\ Cardinality(At({"receipt"}, k)') = 0 /\ Cardinality(At({"probe", "click"}, k)') = 0
          /\ Cardinality(Resumed(k)') = Cardinality(Resumed(k))
      BY <3>1, FS_EmptySet
    <3>5. Balanced(k)
      BY <2>1, <3>3, <3>f, <3>z DEF Balanced, Chances
    <3>6. RowCalm(k)
      BY <2>1, <1>c
    <3> QED
      BY <3>4, <3>5, <3>6, <1>i, BalanceKept DEF RowCalm
  <2> QED
    BY <2>2, <2>3 DEF ChancesPaid
<1> QED
  BY <1>2, <1>3, <1>4, <1>5, <1>6, <1>7, <1>8, <1>9, <1>10, <1>11, <1>12

\* The rows, the attempts and the budget of clicks agree in every state: the
\* inductive invariant of the approval ledger.
THEOREM LedgerInvariant == Spec => []LedgerInv
<1>1. Init => LedgerInv
  <2> SUFFICES ASSUME Init PROVE LedgerInv
    OBVIOUS
  <2>1. AttemptsApart
    BY DEF Init, AttemptsApart
  <2>2. ASSUME NEW k \in Keys PROVE Paid(k)
    <3>1. Strays(k) = {} /\ Resumed(k) = {} /\ Resuming(k) = {}
      BY IdleTyped DEF Init, Strays, Resumed, Resuming
    <3>2. ledger[k].state = "none" /\ mishaps[k] = 0
      BY DEF Init, NoEntry
    <3> QED
      BY <3>1, <3>2, FS_EmptySet DEF Paid, Chances
  <2> QED
    BY <2>1, <2>2, RowInit DEF LedgerInv, ChancesPaid
<1>2. LedgerInv /\ [Next]_vars => LedgerInv'
  <2> SUFFICES ASSUME LedgerInv, [Next]_vars PROVE LedgerInv'
    OBVIOUS
  <2>1. RowInv'
    BY RowStep DEF LedgerInv
  <2>2. CASE UNCHANGED vars
    <3>1. Calm /\ (\A k \in Keys : RowCalm(k) /\ Paid(k)) /\ RowInv /\ AttemptsApart
      BY <2>2, JobsCalm, LedgerCalm DEF LedgerInv, ChancesPaid, vars
    <3>2. \A k \in Keys : Resuming(k)' \subseteq Resuming(k)
      BY <2>2 DEF vars, Resuming
    <3> QED
      BY <2>1, <2>2, <3>1, <3>2, QuietPaid, StillCounts DEF LedgerInv, ChancesPaid, vars, book
  <2>3. CASE Next
    BY <2>1, <2>3, DoorPaid, AttemptPaid, WorldPaid DEF Next, LedgerInv
  <2> QED
    BY <2>2, <2>3
<1> QED
  BY <1>1, <1>2, PTL DEF Spec

\* One approval, one submission, for every number of jobs, doors and attempts
\* that race for the key: each further click was paid for by a click that nobody
\* recorded, by a live attempt whose row the reaper, the drain or an operator gave
\* away, or by a resume that no approval asked for.
THEOREM SubmitsOnceAlways == Spec => []SubmitsOnce
<1>1. LedgerInv => SubmitsOnce
  <2> SUFFICES ASSUME LedgerInv, NEW k \in Keys PROVE clicks[k] <= 1 + mishaps[k]
    BY DEF SubmitsOnce
  <2>i. RowInv /\ AttemptsApart /\ Paid(k)
    BY DEF LedgerInv, ChancesPaid
  <2>f. /\ Cardinality(Strays(k)) \in Nat /\ Cardinality(Resumed(k)) \in Nat
        /\ Cardinality(Resuming(k)) \in Nat /\ clicks[k] \in Nat /\ mishaps[k] \in Nat
        /\ Cardinality(At({"receipt"}, k)) \in Nat
        /\ Cardinality(At({"probe", "click"}, k)) \in Nat
    BY <2>i, Tallies DEF Paid
  <2>1. CASE ledger[k].state = "approved"
    <3>1. clicks[k] + Chances(k) <= 1 + mishaps[k] + Cardinality(At({"receipt"}, k))
      BY <2>1, <2>i DEF Paid
    <3>2. Cardinality(At({"probe", "click"}, k)) + Cardinality(At({"receipt"}, k))
            <= Cardinality(Strays(k)) + Cardinality(Resumed(k))
      BY <2>i, CommitsCounted
    <3> QED
      BY <3>1, <3>2, <2>f DEF Chances
  <2>2. CASE ledger[k].state = "submitted"
    BY <2>2, <2>i, <2>f DEF Paid
  <2>3. CASE ledger[k].state \notin {"approved", "submitted"}
    BY <2>3, <2>i, <2>f DEF RowInv, NoUnapprovedClick
  <2> QED
    BY <2>1, <2>2, <2>3
<1> QED
  BY <1>1, LedgerInvariant, PTL

-----------------------------------------------------------------------------
(* The lifecycle *)

\* A row that was never inserted has had no attempt.
Unborn == \A j \in Jobs : jobs[j].status = "absent" => jobs[j].attempts = 0

\* What a write may make of a row: a move of the lifecycle, with the count as it was.
Onward(j, r) ==
    /\ <<jobs[j].status, r.status>> \in Lifecycle!Moves
    /\ r.attempts = jobs[j].attempts

\* What a claim makes of it.
Handed(j, r) ==
    /\ jobs[j].status = "queued" /\ r.status = "running"
    /\ r.attempts = jobs[j].attempts + 1

\* What a step does to the table: moves, several at once after a crash, or one claim.
RowsMove == \A j \in Jobs : jobs'[j] = jobs[j] \/ Onward(j, jobs'[j])

RowHanded ==
    \E j \in Jobs : /\ TargetFree(j) /\ Handed(j, jobs'[j])
                    /\ \A k \in Jobs \ {j} : jobs'[k] = jobs[k]

\* Each row that the ledger's code writes is a move from the state that its guard names.
LEMMA WritesOnward ==
    ASSUME NEW j \in Jobs, jobs[j] \in Row
    PROVE  /\ jobs[j].status = "running" =>
                 /\ Onward(j, SucceededRow(j)) /\ Onward(j, FailedRow(j, 0))
                 /\ Onward(j, FailRow(j)) /\ Onward(j, WaitingRow(j, FALSE))
           /\ jobs[j].status \in {"queued", "running", "waiting"} => Onward(j, CancelledRow(j))
           /\ jobs[j].status = "waiting" =>
                 Onward(j, [jobs[j] EXCEPT !.status = "failed", !.error = jobs[j].attempts])
           /\ jobs[j].status \in {"running", "failed", "cancelled"} => Onward(j, ReopenedRow(j))
           /\ jobs[j].status = "waiting" => Onward(j, [ReopenedRow(j) EXCEPT !.deadline = "none"])
<1>1. /\ SucceededRow(j).status = "succeeded" /\ SucceededRow(j).attempts = jobs[j].attempts
      /\ FailedRow(j, 0).status = "failed" /\ FailedRow(j, 0).attempts = jobs[j].attempts
      /\ WaitingRow(j, FALSE).status = "waiting" /\ WaitingRow(j, FALSE).attempts = jobs[j].attempts
      /\ CancelledRow(j).status = "cancelled" /\ CancelledRow(j).attempts = jobs[j].attempts
  BY DEF Row, SucceededRow, FailedRow, WaitingRow, CancelledRow
<1>2. ReopenedRow(j).status = "queued" /\ ReopenedRow(j).attempts = jobs[j].attempts
  BY DEF Row, ReopenedRow
<1> DEFINE q == [ReopenedRow(j) EXCEPT !.deadline = "none"]
<1>3. q.status = "queued" /\ q.attempts = jobs[j].attempts
  BY DEF Row, ReopenedRow
<1>4. FailRow(j).status \in {"queued", "failed"} /\ FailRow(j).attempts = jobs[j].attempts
  BY <1>1 DEF Row, FailRow, RequeuedRow
<1> HIDE DEF q
<1>5. \A r : r.attempts = jobs[j].attempts /\ <<jobs[j].status, r.status>> \in Lifecycle!Moves
             => Onward(j, r)
  BY DEF Onward
<1>6. jobs[j].status = "running" =>
          /\ Onward(j, SucceededRow(j)) /\ Onward(j, FailedRow(j, 0))
          /\ Onward(j, FailRow(j)) /\ Onward(j, WaitingRow(j, FALSE))
  BY <1>1, <1>4 DEF Onward, Lifecycle!Moves
<1>7. jobs[j].status \in {"queued", "running", "waiting"} => Onward(j, CancelledRow(j))
  BY <1>1 DEF Onward, Lifecycle!Moves
<1> DEFINE e == [jobs[j] EXCEPT !.status = "failed", !.error = jobs[j].attempts]
<1>e. e.status = "failed" /\ e.attempts = jobs[j].attempts
  BY DEF Row
<1> HIDE DEF e
<1>9. jobs[j].status = "waiting" => Onward(j, e)
  BY <1>e DEF Onward, Lifecycle!Moves
<1>8. /\ jobs[j].status \in {"running", "failed", "cancelled"} => Onward(j, ReopenedRow(j))
      /\ jobs[j].status = "waiting" => Onward(j, q)
  BY <1>2, <1>3 DEF Onward, Lifecycle!Moves
<1> QED
  BY <1>6, <1>7, <1>8, <1>9 DEF q, e

\* One write along the lifecycle moves one row.
LEMMA WriteMoves ==
    ASSUME RowInv, NEW j \in Jobs, NEW r, Write(j, r), Onward(j, r)
    PROVE  RowsMove
<1>1. jobs'[j] = r /\ \A k \in Jobs \ {j} : jobs'[k] = jobs[k]
  BY DEF Write, RowInv, TypeOK
<1> QED
  BY <1>1 DEF RowsMove

\* A door moves the job that the row named when it was read, from the state the
\* statement names.
LEMMA DoorRows ==
    ASSUME RowInv, NEW d \in Doors, Door(d)
    PROVE  RowsMove
<1>1. CASE ApproveResumes(d)
  <2> DEFINE j == doors[d].row.job
  <2>1. j \in Jobs
    BY <1>1 DEF ApproveResumes, RowInv, RowsNamed, Named
  <2>2. jobs[j] \in Row
    BY <2>1 DEF RowInv, TypeOK
  <2>3. CASE UNCHANGED jobs
    BY <2>3 DEF RowsMove
  <2>4. CASE Resume(j)
    BY <2>1, <2>2, <2>4, WritesOnward, WriteMoves DEF Resume
  <2> QED
    BY <1>1, <2>3, <2>4 DEF ApproveResumes
<1>2. CASE RejectCancels(d)
  <2> DEFINE j == doors[d].row.job
  <2>1. j \in Jobs
    BY <1>2 DEF RejectCancels, RowInv, RowsNamed, Named
  <2>2. jobs[j] \in Row
    BY <2>1 DEF RowInv, TypeOK
  <2>3. CASE UNCHANGED jobs
    BY <2>3 DEF RowsMove
  <2>4. CASE CancelUnclaimed(j)
    BY <2>1, <2>2, <2>4, WritesOnward, WriteMoves DEF CancelUnclaimed
  <2> QED
    BY <1>2, <2>3, <2>4 DEF RejectCancels
<1>3. CASE UNCHANGED jobs
  BY <1>3 DEF RowsMove
<1> QED
  BY <1>1, <1>2, <1>3, Zenon DEF Door, ApproveOpens, RejectReads, ApproveReads, ApproveDecides,
     ApproveMarks, RejectMarks

\* An attempt writes its row under the fence, when it parks and when it ends, and
\* without one when the drain suspends it.
LEMMA AttemptRows ==
    ASSUME RowInv, NEW t \in tasks,
           Attempt(t) \/ AttemptErrs(t) \/ AttemptStops(t) \/ OutcomeLost(t)
    PROVE  RowsMove
<1>1. t.job \in Jobs /\ jobs[t.job] \in Row
  BY DEF RowInv, TypeOK, Task
<1>2. CASE UNCHANGED jobs
  BY <1>2 DEF RowsMove
<1>3. CASE Park(t) /\ Mine(t)
  BY <1>1, <1>3, WritesOnward, WriteMoves DEF Park, Mine, Fenced
<1>4. CASE Ends(t) /\ Mine(t)
  <2>1. jobs[t.job].status = "running"
    BY <1>4 DEF Mine, Fenced
  <2>2. \/ Write(t.job, SucceededRow(t.job))
        \/ Write(t.job, FailRow(t.job))
        \/ Write(t.job, FailedRow(t.job, 0))
        \/ Write(t.job, CancelledRow(t.job))
    BY <1>4 DEF Ends, Outcomes
  <2> QED
    BY <1>1, <2>1, <2>2, WritesOnward, WriteMoves
<1>5. CASE Suspends(t) /\ Reset(t.job)
  BY <1>1, <1>5, WritesOnward, WriteMoves DEF Reset
<1> QED
  BY <1>2, <1>3, <1>4, <1>5 DEF Attempt, AttemptErrs, AttemptStops, Cut, OutcomeLost, DryRun,
     StageReads, StageInserts, StageRefreshes, StageVerdict, Park, CommitReads, Probe, Click,
     MarkSubmitted, Ends, Suspends

\* The rest: an insert, the claim, the operator, and the sweep after a crash.
LEMMA NextRows ==
    ASSUME RowInv, Unborn, [Next]_vars
    PROVE  RowsMove \/ RowHanded
<1>t. jobs \in [Jobs -> Row]
  BY DEF RowInv, TypeOK
<1>1. CASE \E j \in Jobs : Submit(j)
  <2>1. PICK j \in Jobs : Submit(j)
    BY <1>1
  <2> DEFINE r == [AbsentRow EXCEPT !.status = "queued", !.maxAttempts = Larger(MaxAttempts, 1),
                                    !.due = TRUE]
  <2>2. Write(j, r) /\ jobs[j].status = "absent" /\ jobs[j].attempts = 0
    BY <2>1 DEF Submit, Insert, Unborn
  <2>3. r.status = "queued" /\ r.attempts = 0
    BY DEF AbsentRow
  <2> HIDE DEF r
  <2>4. Onward(j, r)
    BY <2>2, <2>3 DEF Onward, Lifecycle!Moves
  <2> QED
    BY <2>2, <2>4, WriteMoves
<1>2. CASE \E j \in Jobs : Claim(j)
  <2>1. PICK j \in Jobs : Claim(j)
    BY <1>2
  <2>2. /\ jobs[j].status = "queued" /\ TargetFree(j) /\ Write(j, ClaimedRow(j))
    BY <2>1 DEF Claim, ClaimNext, Claimable
  <2>3. jobs'[j] = ClaimedRow(j) /\ \A k \in Jobs \ {j} : jobs'[k] = jobs[k]
    BY <1>t, <2>2 DEF Write
  <2>4. Handed(j, ClaimedRow(j))
    BY <1>t, <2>2, RowShapes DEF Handed
  <2> QED
    BY <2>2, <2>3, <2>4 DEF RowHanded
<1>3. CASE \E j \in Jobs : ApiRetry(j) \/ ResumeByHand(j) \/ ResetByHand(j)
  BY <1>t, <1>3, WritesOnward, WriteMoves DEF ApiRetry, Retry, ResumeByHand, Resume, ResetByHand, Reset
<1>8. CASE \E j \in Jobs : ApiCancel(j) \/ Reap(j) \/ ParkExpires(j)
  BY <1>t, <1>8, WritesOnward, WriteMoves DEF ApiCancel, CancelUnclaimed, Reap, ParkExpires
<1>4. CASE Crash
  <2>1. ASSUME NEW j \in Jobs
        PROVE  jobs'[j] = jobs[j] \/ Onward(j, jobs'[j])
    <3>1. jobs'[j] = IF j \in Running THEN FailRow(j) ELSE jobs[j]
      BY <1>4 DEF Crash
    <3> QED
      BY <1>t, <3>1, WritesOnward DEF Running
  <2> QED
    BY <2>1 DEF RowsMove
<1>5. CASE \E d \in Doors : Door(d)
  BY <1>5, DoorRows
<1>6. CASE \E t \in tasks : Attempt(t) \/ AttemptErrs(t) \/ AttemptStops(t) \/ OutcomeLost(t)
  BY <1>6, AttemptRows
<1>7. CASE UNCHANGED jobs
  BY <1>7 DEF RowsMove
<1> QED
  BY <1>1, <1>2, <1>3, <1>4, <1>5, <1>6, <1>7, <1>8 DEF Next, Age, ListTransactions, Drift, vars

\* Such steps keep what the lifecycle needs, and are steps of it.
LEMMA RowsLive ==
    ASSUME RowInv, Unborn, TargetMutex, RowsMove \/ RowHanded
    PROVE  Unborn' /\ TargetMutex' /\ Lifecycle!Next
<1>1. \A j \in Jobs : jobs'[j] = jobs[j] \/ Onward(j, jobs'[j]) \/ Handed(j, jobs'[j])
  BY DEF RowsMove, RowHanded
<1>2. \A j \in Jobs : Onward(j, jobs'[j]) => jobs'[j].status \notin {"absent", "running"}
  BY DEF Onward, Lifecycle!Moves
<1>3. Unborn'
  BY <1>1, <1>2 DEF Unborn, Handed
<1>4. TargetMutex'
  <2>1. CASE RowsMove
    <3>1. Running' \subseteq Running
      BY <1>2, <2>1 DEF RowsMove, Running
    <3> QED
      BY <3>1 DEF TargetMutex
  <2>2. ASSUME NEW j \in Jobs, TargetFree(j), \A k \in Jobs \ {j} : jobs'[k] = jobs[k]
        PROVE  TargetMutex'
    <3>1. \A k \in Running' : k # j => k \in Running
      BY <2>2 DEF Running
    <3> QED
      BY <2>2, <3>1 DEF TargetMutex, TargetFree, Running
  <2> QED
    BY <2>1, <2>2 DEF RowHanded
<1>5. \A j \in Jobs : Lifecycle!Rest(j) \/ Lifecycle!Move(j) \/ Lifecycle!Grant(j)
  BY <1>1 DEF Onward, Handed, Lifecycle!Rest, Lifecycle!Move, Lifecycle!Grant
<1> DEFINE ph == [j \in Jobs |-> jobs[j].status]
<1>6. Lifecycle!Exclusive(ph')
  BY <1>4 DEF Lifecycle!Exclusive, TargetMutex, Running
<1> QED
  BY <1>3, <1>4, <1>5, <1>6 DEF Lifecycle!Next

\* Parks, approvals, rejections, resumes by hand, the reaper and the sweep after a crash keep the
\* lifecycle's promise: the detour through waiting gives no attempt away and undoes no
\* verdict, whichever door a decision came through.
THEOREM TransactImplementsLifecycle == Spec => ImplementsLifecycle
<1>1. Init => Unborn /\ TargetMutex /\ Lifecycle!Init
  <2> SUFFICES ASSUME Init PROVE Unborn /\ TargetMutex /\ Lifecycle!Init
    OBVIOUS
  <2>1. AbsentRow.status = "absent" /\ AbsentRow.attempts = 0
    BY DEF AbsentRow
  <2>2. jobs = [j \in Jobs |-> AbsentRow]
    BY Zenon DEF Init
  <2>3. \A j \in Jobs : jobs[j] = AbsentRow
    BY <2>2, Zenon
  <2> QED
    BY <2>1, <2>3 DEF Unborn, TargetMutex, Running, Lifecycle!Init
<1>2. RowInv /\ Unborn /\ TargetMutex /\ [Next]_vars => Unborn' /\ TargetMutex'
  BY NextRows, RowsLive
<1>3. RowInv /\ Unborn /\ TargetMutex /\ [Next]_vars => [Lifecycle!Next]_(Lifecycle!vars)
  BY NextRows, RowsLive
<1> QED
  BY <1>1, <1>2, <1>3, RowInvariant, PTL DEF Spec, ImplementsLifecycle, Lifecycle!Spec
=============================================================================

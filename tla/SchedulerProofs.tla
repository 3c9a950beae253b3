-------------------------- MODULE SchedulerProofs --------------------------
(* Proofs about Scheduler, for every set of schedules, every cron, grace and  *)
(* bound.                                                                     *)
EXTENDS Scheduler, FiniteSetTheorems, TLAPS

-----------------------------------------------------------------------------
(* References and firings *)

LEMMA MaxOfTwo ==
    ASSUME NEW a \in Int, NEW b \in Int
    PROVE  Max({a, b}) \in {a, b} /\ Max({a, b}) >= a /\ Max({a, b}) >= b
<1>1. \E x \in {a, b} : \A y \in {a, b} : x >= y
  <2>1. CASE a >= b
    BY <2>1
  <2>2. CASE b >= a
    BY <2>2
  <2> QED
    BY <2>1, <2>2
<1> QED
  BY <1>1 DEF Max

\* A reference is an instant, no earlier than the last run and the last skip, and the
\* creation of a row that has seen neither.
LEMMA ReferenceBounds ==
    ASSUME NEW r \in Row
    PROVE  /\ Reference(r) \in Times
           /\ r.lastRun <= Reference(r) /\ r.lastSkip <= Reference(r)
           /\ r.lastRun = Never /\ r.lastSkip = Never => Reference(r) = r.created
<1>1. /\ r.lastRun \in Times \cup {-1} /\ r.lastSkip \in Times \cup {-1} /\ r.created \in Times
      /\ \A x \in Times : x \in Nat
  BY SchedulerAssumption DEF Row, Times, Never
<1> HIDE DEF Row
<1>n. Never = -1
  BY DEF Never
<1>i. r.lastRun \in Int /\ r.lastSkip \in Int /\ r.lastRun >= -1 /\ r.lastSkip >= -1
  BY <1>1
<1>2. /\ Max({r.lastRun, r.lastSkip}) \in {r.lastRun, r.lastSkip}
      /\ Max({r.lastRun, r.lastSkip}) >= r.lastRun /\ Max({r.lastRun, r.lastSkip}) >= r.lastSkip
  BY <1>i, MaxOfTwo
<1>3. CASE r.lastRun = -1 /\ r.lastSkip = -1
  <2>1. Reference(r) = r.created
    BY <1>n, <1>3 DEF Reference
  <2>2. r.created \in Nat
    BY <1>1
  <2> QED
    BY <1>1, <1>3, <2>1, <2>2
<1>4. CASE ~(r.lastRun = -1 /\ r.lastSkip = -1)
  <2>1. Max({r.lastRun, r.lastSkip}) # -1
    BY <1>1, <1>i, <1>2, <1>4
  <2>2. Reference(r) = Max({r.lastRun, r.lastSkip})
    BY <1>n, <1>4 DEF Reference
  <2> QED
    BY <1>1, <1>n, <1>2, <1>4, <2>1, <2>2
<1> QED
  BY <1>3, <1>4

\* The sets of firings of a row are finite sets of instants.
LEMMA FiringsFinite ==
    ASSUME NEW s \in Schedules, NEW r, NEW now, NEW cutoff
    PROVE  /\ Fires[s] \subseteq Times
           /\ OnTime(s, r, now, cutoff) \subseteq Pending(s, r, now)
           /\ Missed(s, r, now, cutoff) \subseteq Pending(s, r, now)
           /\ Pending(s, r, now) \subseteq Times
           /\ Cardinality(Missed(s, r, now, cutoff)) \in Nat
           /\ Cardinality(OnTime(s, r, now, cutoff)) \in Nat
<1>1. Fires[s] \subseteq 1..MaxTime /\ MaxTime \in Nat
  BY SchedulerAssumption
<1>2. Pending(s, r, now) \subseteq 1..MaxTime
  BY <1>1 DEF Pending
<1>3. /\ OnTime(s, r, now, cutoff) \subseteq Pending(s, r, now)
      /\ Missed(s, r, now, cutoff) \subseteq Pending(s, r, now)
  BY DEF OnTime, Missed
<1>4. IsFiniteSet(1..MaxTime)
  BY <1>1, FS_Interval
<1>5. IsFiniteSet(OnTime(s, r, now, cutoff)) /\ IsFiniteSet(Missed(s, r, now, cutoff))
  BY <1>2, <1>3, <1>4, FS_Subset
<1>6. 1..MaxTime \subseteq Times
  BY <1>1 DEF Times
<1> QED
  BY <1>1, <1>2, <1>3, <1>5, <1>6, FS_CardinalityType

\* The runs that answer for a firing are a finite set.
LEMMA AnsweringFinite ==
    ASSUME TypeOK, NEW s \in Schedules, NEW f
    PROVE  /\ IsFiniteSet(Answering(s, f)) /\ Cardinality(Answering(s, f)) \in Nat
           /\ runs[s] \in Seq(Run) /\ DOMAIN runs[s] = 1..Len(runs[s]) /\ Len(runs[s]) \in Nat
<1>1. runs[s] \in Seq(Run) /\ DOMAIN runs[s] = 1..Len(runs[s]) /\ Len(runs[s]) \in Nat
  BY DEF TypeOK
<1>2. Answering(s, f) \subseteq 1..Len(runs[s])
  BY <1>1 DEF Answering
<1>3. IsFiniteSet(1..Len(runs[s]))
  BY <1>1, FS_Interval
<1>4. IsFiniteSet(Answering(s, f))
  BY <1>2, <1>3, FS_Subset
<1> QED
  BY <1>1, <1>4, FS_CardinalityType

-----------------------------------------------------------------------------
(* Where a pass goes next *)

\* The pass as it leaves the row in hand: on to a row it has still to do, or to its tail.
TurnedTo(q, p) ==
    /\ q \in PassState /\ q.now = p.now /\ q.mark = 0
    /\ \/ q.at = "tail" /\ p.todo = {} /\ q.todo = {}
       \/ /\ q.at = "step" /\ q.cur \in p.todo /\ q.todo = p.todo \ {q.cur}
          /\ q.cutoff = p.cutoff /\ q.snap = p.snap

\* The pass, staying with the row in hand.
StaysAt(q, at) ==
    /\ q \in PassState /\ q.at = at /\ q.now = pass.now /\ q.cutoff = pass.cutoff
    /\ q.todo = pass.todo /\ q.cur = pass.cur /\ q.snap = pass.snap

LEMMA BudgetTyped == AnyBudget \in Budgets /\ 0 \in 0..EditBound
BY SchedulerAssumption DEF AnyBudget

LEMMA BlankTyped == Blank \in Row /\ Idle \in PassState
<1>1. 0 \in Times /\ Never \in Times \cup {Never}
  BY SchedulerAssumption DEF Times
<1>2. Blank \in Row
  BY <1>1, BudgetTyped DEF Blank, Row
<1> HIDE DEF Blank
<1>3. Idle \in PassState
  BY <1>1, <1>2, BudgetTyped DEF Idle, PassState, Stages
<1> QED
  BY <1>2, <1>3

LEMMA TurnShape ==
    ASSUME NEW p \in PassState
    PROVE  TurnedTo(Turn(p), p)
<1>t. /\ p.now \in Times /\ p.todo \in SUBSET Schedules /\ p.cutoff \in Int
      /\ p.snap \in [Schedules -> Row]
  BY DEF PassState
<1>1. CASE p.todo = {}
  <2>1. [Idle EXCEPT !.at = "tail", !.now = p.now] \in PassState
    BY <1>t, BlankTyped DEF PassState, Stages
  <2>2. /\ [Idle EXCEPT !.at = "tail", !.now = p.now].at = "tail"
        /\ [Idle EXCEPT !.at = "tail", !.now = p.now].now = p.now
        /\ [Idle EXCEPT !.at = "tail", !.now = p.now].todo = {}
        /\ [Idle EXCEPT !.at = "tail", !.now = p.now].mark = 0
    BY DEF Idle
  <2> QED
    BY <1>1, <2>1, <2>2 DEF Turn, TurnedTo
<1>2. CASE p.todo # {}
  <2> DEFINE s == CHOOSE x \in p.todo : TRUE
             q == [p EXCEPT !.at = "step", !.todo = p.todo \ {s}, !.cur = s,
                            !.missed = 0, !.fires = FALSE, !.budget = AnyBudget, !.mark = 0]
  <2>1. Turn(p) = q
    BY <1>2 DEF Turn
  <2>2. s \in p.todo /\ s \in Schedules
    BY <1>2, <1>t
  <2> HIDE DEF s
  <2>3. /\ q \in PassState
        /\ q.at = "step" /\ q.cur = s /\ q.todo = p.todo \ {s} /\ q.cutoff = p.cutoff
        /\ q.snap = p.snap /\ q.now = p.now /\ q.mark = 0
    BY <1>t, <2>2, BudgetTyped DEF PassState, Stages
  <2> HIDE DEF q
  <2> QED
    BY <2>1, <2>2, <2>3 DEF TurnedTo
<1> QED
  BY <1>1, <1>2

\* What a step decides: to leave the row, to eat its firings, or to fire if the slot is free.
LEMMA VerdictShape ==
    ASSUME ScheduleInv, pass.at = "step"
    PROVE  \/ TurnedTo(Verdict(pass), pass)
           \/ StaysAt(Verdict(pass), "skip") /\ Verdict(pass).mark = pass.mark
           \/ /\ StaysAt(Verdict(pass), "reread") /\ Verdict(pass).mark = pass.mark
              /\ ~HoldsSlot(pass.cur)
<1>p. pass \in PassState /\ pass.cur \in Schedules
  BY DEF ScheduleInv, TypeOK, PassCurrent
<1> DEFINE s == pass.cur
           m == Missed(s, pass.snap[s], pass.now, pass.cutoff)
           o == OnTime(s, pass.snap[s], pass.now, pass.cutoff)
           eaten == IF m # {} THEN Cardinality(m) + (IF o # {} THEN 1 ELSE 0) ELSE Cardinality(o)
<1>1. Cardinality(m) \in Nat /\ Cardinality(o) \in Nat
  BY <1>p, FiringsFinite
<1>2. \/ Verdict(pass) = Turn(pass)
      \/ Verdict(pass) = [pass EXCEPT !.at = "skip", !.missed = eaten]
      \/ Verdict(pass) = [pass EXCEPT !.at = "skip", !.missed = Cardinality(m)]
      \/ /\ Verdict(pass) = [pass EXCEPT !.at = "reread", !.missed = Cardinality(m), !.fires = TRUE]
         /\ ~HoldsSlot(s)
  BY DEF Verdict
<1> HIDE DEF m, o
<1>3. eaten \in Nat
  BY <1>1
<1> HIDE DEF eaten
<1>4. \A n \in Nat : LET q == [pass EXCEPT !.at = "skip", !.missed = n]
                     IN  StaysAt(q, "skip") /\ q.mark = pass.mark
  BY <1>p DEF StaysAt, PassState, Stages
<1>5. \A n \in Nat : LET q == [pass EXCEPT !.at = "reread", !.missed = n, !.fires = TRUE]
                     IN  StaysAt(q, "reread") /\ q.mark = pass.mark
  BY <1>p DEF StaysAt, PassState, Stages
<1>6. TurnedTo(Turn(pass), pass)
  BY <1>p, TurnShape
<1> QED
  BY <1>1, <1>2, <1>3, <1>4, <1>5, <1>6

-----------------------------------------------------------------------------
(* A pass that moves, and what it leaves behind *)

\* What a pass writes to the row in hand: nothing, or a run or skip at its own instant.
RowWritten(s) ==
    /\ row' \in [Schedules -> Row]
    /\ \A k \in Schedules \ {s} : row'[k] = row[k]
    /\ row'[s].state = row[s].state /\ row'[s].edit = row[s].edit
    /\ row'[s] = row[s] \/ (row[s].state = "live" /\ Reference(row'[s]) >= pass.now)

PassMoved(s) ==
    /\ s = pass.cur /\ pass.at \notin {"idle", "tail"}
    /\ UNCHANGED <<clock, lastPass>>
    /\ RowWritten(s)
    /\ \/ TurnedTo(pass', pass)
       \/ StaysAt(pass', "touch") \/ StaysAt(pass', "skip")
       \/ /\ StaysAt(pass', "reread") \/ StaysAt(pass', "enqueue")
          /\ pass.at \in {"step", "reread"} /\ row'[s] = row[s]

LEMMA MovedAhead ==
    ASSUME ScheduleInv, NEW s \in Schedules, PassMoved(s)
    PROVE  /\ pass' \in PassState /\ pass'.now = pass.now /\ pass'.at # "idle"
           /\ pass'.at = "tail" => pass'.todo = {}
           /\ pass'.at # "tail" => /\ pass'.cur \in Schedules \ pass'.todo
                                   /\ pass'.cutoff = pass.cutoff
           /\ \A k \in Schedules \ {s} : k \in Ahead' <=> k \in Ahead
           /\ s \in Ahead' => s \in Ahead /\ row'[s] = row[s]
           /\ \A k \in Ahead' : k \in Schedules /\ pass'.snap[k] = pass.snap[k]
           /\ \A k \in Ahead' \ pass'.todo : pass'.at # "step" => k = s
<1>1. /\ pass \in PassState /\ pass.todo \subseteq Schedules
      /\ pass.cur \in Schedules \ pass.todo
  BY DEF ScheduleInv, TypeOK, PassState, PassCurrent, PassMoved
<1>2. CASE TurnedTo(pass', pass)
  <2>1. Ahead' = pass.todo /\ Ahead \ {s} = pass.todo
    BY <1>1, <1>2 DEF Ahead, TurnedTo, PassMoved
  <2> QED
    BY <1>1, <1>2, <2>1 DEF TurnedTo, PassMoved
<1>3. CASE StaysAt(pass', "touch") \/ StaysAt(pass', "skip")
  <2>1. Ahead' = pass.todo /\ Ahead \ {s} = pass.todo
    BY <1>1, <1>3 DEF Ahead, StaysAt, PassMoved
  <2> QED
    BY <1>1, <1>3, <2>1 DEF StaysAt, PassMoved
<1>4. CASE /\ StaysAt(pass', "reread") \/ StaysAt(pass', "enqueue")
           /\ pass.at \in {"step", "reread"} /\ row'[s] = row[s]
  <2>1. Ahead' = pass.todo \cup {s} /\ Ahead = pass.todo \cup {s}
    BY <1>1, <1>4 DEF Ahead, StaysAt, PassMoved
  <2> QED
    BY <1>1, <1>4, <2>1 DEF StaysAt, PassMoved
<1> QED
  BY <1>2, <1>3, <1>4 DEF PassMoved

LEMMA CurrentKept ==
    ASSUME ScheduleInv, NEW s \in Schedules, PassMoved(s),
           \A k \in Schedules : k # s => runs'[k] = runs[k],
           runs'[s] = runs[s] \/ row[s].state # "none"
    PROVE  PassCurrent'
<1>1. Cutoff(pass.now)' = Cutoff(pass.now)
  BY MovedAhead DEF Cutoff, PassMoved
<1>2. ASSUME NEW k \in Ahead'
      PROVE  row'[k].state # "none" /\ Reference(pass'.snap[k]) = Reference(row'[k])
  <2>1. k \in Ahead /\ row'[k] = row[k] /\ pass'.snap[k] = pass.snap[k]
    BY <1>2, MovedAhead DEF PassMoved, RowWritten
  <2> QED
    BY <2>1 DEF ScheduleInv, PassCurrent
<1>3. ASSUME NEW k \in Schedules, row'[k].state = "none"
      PROVE  runs'[k] = <<>> /\ row'[k].lastRun = Never /\ row'[k].lastSkip = Never
  <2>1. row[k].state = "none" /\ row'[k] = row[k] /\ runs'[k] = runs[k]
    BY <1>3 DEF PassMoved, RowWritten
  <2> QED
    BY <2>1 DEF ScheduleInv, PassCurrent
<1>4. /\ lastPass' <= clock' /\ pass'.now <= clock' /\ lastPass' <= pass'.now
      /\ pass'.at # "tail" => pass'.cutoff = Cutoff(pass.now)
  BY MovedAhead DEF PassMoved, ScheduleInv, PassCurrent
<1> QED
  BY <1>1, <1>2, <1>3, <1>4, MovedAhead DEF PassCurrent

LEMMA ChargesKept ==
    ASSUME ScheduleInv, NEW s \in Schedules, PassMoved(s), UNCHANGED runs,
           faults' \in Nat, faults' >= faults,
           \A f \in Times : /\ row[s].state = "live" /\ f > Reference(row'[s])
                            /\ ~(pass'.at = "touch" /\ pass'.cur = s)
                            => Cardinality(Answering(s, f)) <= faults'
    PROVE  FiringsCharged'
<1>f. faults \in Nat
  BY DEF ScheduleInv, TypeOK
<1>1. ASSUME NEW k \in Schedules, NEW i \in DOMAIN runs'[k], NEW f \in runs'[k][i].answers
      PROVE  f <= IF pass'.at = "idle" THEN clock' ELSE pass'.now
  BY <1>1, MovedAhead DEF PassMoved, ScheduleInv, FiringsCharged
<1>2. ASSUME NEW k \in Schedules, NEW f \in Times
      PROVE  /\ Cardinality(Answering(k, f)') <= 1 + faults'
             /\ \/ k \in Ahead' /\ f \in Pending(k, pass'.snap[k], pass'.now)
                \/ /\ row'[k].state = "live" /\ f > Reference(row'[k])
                   /\ ~(pass'.at = "touch" /\ pass'.cur = k)
                => Cardinality(Answering(k, f)') <= faults'
  <2>1. Answering(k, f)' = Answering(k, f) /\ Cardinality(Answering(k, f)) \in Nat
    BY AnsweringFinite DEF Answering, ScheduleInv
  <2>2. Cardinality(Answering(k, f)) <= 1 + faults
    BY DEF ScheduleInv, FiringsCharged
  <2>3. ASSUME k \in Ahead' /\ f \in Pending(k, pass'.snap[k], pass'.now)
        PROVE  Cardinality(Answering(k, f)) <= faults
    <3>1. k \in Ahead /\ f \in Pending(k, pass.snap[k], pass.now)
      BY <2>3, MovedAhead
    <3> QED
      BY <3>1 DEF ScheduleInv, FiringsCharged
  <2>4. ASSUME /\ row'[k].state = "live" /\ f > Reference(row'[k])
               /\ ~(pass'.at = "touch" /\ pass'.cur = k)
        PROVE  Cardinality(Answering(k, f)) <= faults'
    <3>1. CASE k = s
      BY <2>4, <3>1 DEF PassMoved, RowWritten
    <3>2. CASE k # s
      <4>1. row[k].state = "live" /\ f > Reference(row[k]) /\ ~(pass.at = "touch" /\ pass.cur = k)
        BY <2>4, <3>2 DEF PassMoved, RowWritten
      <4>2. Cardinality(Answering(k, f)) <= faults
        BY <4>1 DEF ScheduleInv, FiringsCharged
      <4> QED
        BY <1>f, <2>1, <4>2
    <3> QED
      BY <3>1, <3>2
  <2> QED
    BY <1>f, <2>1, <2>2, <2>3, <2>4
<1> QED
  BY <1>1, <1>2 DEF FiringsCharged

LEMMA OffersKept ==
    ASSUME ScheduleInv, NEW s \in Schedules, PassMoved(s),
           \A k \in Schedules : offered[k] \subseteq offered'[k],
           \A f \in Fires[s] :
              /\ s \notin Ahead' /\ row[s].state = "live" /\ f > Reference(row'[s]) /\ f <= pass.now
                    => f \in offered'[s]
              /\ s \in Ahead' /\ f > Reference(pass.snap[s]) /\ f <= pass.now => f \in offered'[s]
    PROVE  LeftDueWasOffered'
<1> SUFFICES ASSUME NEW k \in Schedules, NEW f \in Fires[k]
             PROVE  /\ row'[k].state = "live" /\ f > Reference(row'[k]) =>
                          /\ lastPass' # Never /\ f <= lastPass' => f \in offered'[k]
                          /\ pass'.at # "idle" /\ f <= pass'.now => f \in offered'[k] \/ k \in Ahead'
                    /\ k \in Ahead' /\ f > Reference(pass'.snap[k]) =>
                          /\ lastPass' # Never /\ f <= lastPass' => f \in offered'[k]
                          /\ k \notin pass'.todo /\ pass'.at # "step" /\ f <= pass'.now => f \in offered'[k]
  BY DEF LeftDueWasOffered
<1>t. f \in Int /\ pass.now \in Int /\ lastPass \in Int
  BY SchedulerAssumption DEF ScheduleInv, TypeOK, PassState, Times, Never
<1>1. ASSUME row'[k].state = "live", f > Reference(row'[k])
      PROVE  /\ lastPass # Never /\ f <= lastPass => f \in offered'[k]
             /\ f <= pass.now => f \in offered'[k] \/ k \in Ahead'
  <2>1. CASE row'[k] = row[k]
    <3>1. /\ lastPass # Never /\ f <= lastPass => f \in offered[k]
          /\ f <= pass.now => f \in offered[k] \/ k \in Ahead
      BY <1>1, <2>1 DEF ScheduleInv, LeftDueWasOffered, PassMoved
    <3>2. CASE k = s
      BY <1>1, <2>1, <3>1, <3>2
    <3>3. CASE k # s
      BY <3>1, <3>3, MovedAhead
    <3> QED
      BY <3>2, <3>3
  <2>2. CASE row'[k] # row[k]
    <3>1. k = s /\ Reference(row'[k]) >= pass.now /\ row'[k] \in Row
      BY <2>2 DEF PassMoved, RowWritten
    <3>2. Reference(row'[k]) \in Int
      BY <3>1, ReferenceBounds, SchedulerAssumption DEF Times
    <3>3. lastPass <= pass.now
      BY DEF ScheduleInv, PassCurrent, PassMoved
    <3> QED
      BY <1>t, <1>1, <3>1, <3>2, <3>3
  <2> QED
    BY <2>1, <2>2
<1>2. ASSUME k \in Ahead', f > Reference(pass'.snap[k])
      PROVE  /\ lastPass # Never /\ f <= lastPass => f \in offered'[k]
             /\ k \notin pass'.todo /\ pass'.at # "step" /\ f <= pass.now => f \in offered'[k]
  <2>1. k \in Ahead /\ pass'.snap[k] = pass.snap[k]
    BY <1>2, MovedAhead
  <2>2. lastPass # Never /\ f <= lastPass => f \in offered[k]
    BY <1>2, <2>1 DEF ScheduleInv, LeftDueWasOffered
  <2>3. k \notin pass'.todo /\ pass'.at # "step" => k = s
    BY <1>2, MovedAhead
  <2> QED
    BY <1>2, <2>1, <2>2, <2>3
<1> QED
  BY <1>1, <1>2, MovedAhead DEF PassMoved

LEMMA AtMostOne ==
    ASSUME NEW x, NEW S \in SUBSET {x}
    PROVE  Cardinality(S) <= 1
<1>1. S = {} \/ S = {x}
  OBVIOUS
<1>2. CASE S = {}
  <2>1. Cardinality(S) = 0
    BY <1>2, FS_EmptySet
  <2> QED
    BY <2>1
<1>3. CASE S = {x}
  <2>1. Cardinality(S) = 1
    BY <1>3, FS_Singleton
  <2> QED
    BY <2>1
<1> QED
  BY <1>1, <1>2, <1>3

\* The invariant, put together: runs that only the newest place holds do not stack.
LEMMA Assembled ==
    ASSUME TypeOK', SlotGuarded', PassCurrent', FiringsCharged', LeftDueWasOffered', EditsNumbered'
    PROVE  ScheduleInv'
<1>1. RunsDoNotStack'
  BY AtMostOne DEF SlotGuarded, RunsDoNotStack
<1> QED
  BY <1>1 DEF ScheduleInv

\* The slots of schedules whose runs stand still.
LEMMA SlotsKept ==
    ASSUME ScheduleInv, UNCHANGED runs,
           pass'.at \in {"reread", "enqueue"} => Unsettled(pass'.cur) = {}
    PROVE  SlotGuarded'
BY DEF ScheduleInv, SlotGuarded, Unsettled

\* A step of the pass keeps the invariant when it leaves nothing uncharged or unoffered.
LEMMA MoveSafe ==
    ASSUME ScheduleInv, NEW s \in Schedules, PassMoved(s), UNCHANGED <<runs, edits, fit, retired>>,
           faults' \in 0..FaultBound, faults' >= faults,
           offered' \in [Schedules -> SUBSET Times],
           \A k \in Schedules : offered[k] \subseteq offered'[k],
           \A f \in Times : /\ row[s].state = "live" /\ f > Reference(row'[s])
                            /\ ~(pass'.at = "touch" /\ pass'.cur = s)
                            => Cardinality(Answering(s, f)) <= faults',
           \A f \in Fires[s] :
              /\ s \notin Ahead' /\ row[s].state = "live" /\ f > Reference(row'[s]) /\ f <= pass.now
                    => f \in offered'[s]
              /\ s \in Ahead' /\ f > Reference(pass.snap[s]) /\ f <= pass.now => f \in offered'[s],
           pass'.mark <= edits,
           pass'.at \in {"reread", "enqueue"} => Unsettled(s) = {},
           pass'.at = "enqueue" /\ pass'.mark = row[s].edit =>
              StillFirable(s) /\ row[s].budget = pass'.budget
    PROVE  ScheduleInv'
<1>1. faults' \in Nat /\ faults \in Nat
  BY SchedulerAssumption DEF ScheduleInv, TypeOK
<1>c. pass'.at \in {"reread", "enqueue"} => pass'.cur = s /\ row'[s] = row[s]
  BY DEF PassMoved, TurnedTo, StaysAt
<1>2. PassCurrent'
  BY CurrentKept
<1>3. FiringsCharged'
  BY <1>1, ChargesKept
<1>4. LeftDueWasOffered'
  BY OffersKept
<1>5. SlotGuarded'
  BY <1>c, SlotsKept
<1>6. TypeOK'
  BY MovedAhead DEF ScheduleInv, TypeOK, PassMoved, RowWritten
<1>7. EditsNumbered'
  <2>1. \A k \in Schedules : row'[k].edit = row[k].edit
    BY DEF PassMoved, RowWritten
  <2> QED
    BY <1>c, <2>1 DEF ScheduleInv, EditsNumbered, StillFirable
<1> QED
  BY <1>2, <1>3, <1>4, <1>5, <1>6, <1>7, Assembled

-----------------------------------------------------------------------------
(* The steps of a pass *)

\* The row in hand while it is still ahead.
LEMMA InHandFacts ==
    ASSUME ScheduleInv, pass.at \notin {"idle", "tail"}
    PROVE  /\ pass.cur \in Schedules /\ pass \in PassState /\ row[pass.cur] \in Row
           /\ row \in [Schedules -> Row] /\ offered \in [Schedules -> SUBSET Times]
           /\ pass.now \in Times /\ pass.mark <= edits /\ edits \in Nat
           /\ faults \in 0..FaultBound /\ FaultBound \in Nat
           /\ pass.at \in {"step", "reread", "enqueue"} =>
                /\ pass.cur \in Ahead /\ row[pass.cur].state # "none"
                /\ Reference(pass.snap[pass.cur]) = Reference(row[pass.cur])
<1>1. /\ pass.cur \in Schedules /\ pass \in PassState /\ row \in [Schedules -> Row]
      /\ offered \in [Schedules -> SUBSET Times] /\ pass.mark <= edits /\ edits \in 0..EditBound
      /\ faults \in 0..FaultBound
  BY DEF ScheduleInv, TypeOK, PassCurrent, EditsNumbered
<1>2. pass.now \in Times /\ FaultBound \in Nat /\ edits \in Nat
  BY <1>1, SchedulerAssumption DEF PassState
<1>3. pass.at \in {"step", "reread", "enqueue"} => pass.cur \in Ahead
  BY DEF Ahead
<1> QED
  BY <1>1, <1>2, <1>3 DEF ScheduleInv, PassCurrent

\* Rows that stand still.
LEMMA RowStands ==
    ASSUME ScheduleInv, NEW s \in Schedules, UNCHANGED row
    PROVE  RowWritten(s)
BY DEF RowWritten, ScheduleInv, TypeOK

LEMMA AdmitSafe ==
    ASSUME ScheduleInv, Admit
    PROVE  ScheduleInv'
<1>s. PICK s \in Schedules : s = pass.cur
  BY InHandFacts DEF Admit
<1>1. /\ pass.at = "step" /\ pass' = Verdict(pass)
      /\ offered' = [offered EXCEPT ![s] = @ \cup Pending(s, pass.snap[s], pass.now)]
      /\ UNCHANGED <<clock, row, runs, fit, retired, lastPass, edits, faults>>
  BY <1>s DEF Admit
<1>2. \/ TurnedTo(pass', pass)
      \/ StaysAt(pass', "skip") /\ pass'.mark = pass.mark
      \/ StaysAt(pass', "reread") /\ pass'.mark = pass.mark /\ ~HoldsSlot(s)
  BY <1>s, <1>1, VerdictShape
<1>3. PassMoved(s)
  BY <1>s, <1>1, <1>2, RowStands DEF PassMoved
<1>4. Pending(s, pass.snap[s], pass.now) \subseteq Times /\ Fires[s] \subseteq Times
  BY FiringsFinite
<1>5. /\ offered' \in [Schedules -> SUBSET Times]
      /\ \A k \in Schedules : offered[k] \subseteq offered'[k]
      /\ Pending(s, pass.snap[s], pass.now) \subseteq offered'[s]
  BY <1>1, <1>4, InHandFacts
<1>6. ~HoldsSlot(s) => Unsettled(s) = {}
  <2>1. /\ Unsettled(s) \subseteq {Len(runs[s])} /\ Unsettled(s) \subseteq DOMAIN runs[s]
        /\ \A i \in Unsettled(s) : runs[s][i].status \in {"open", "waiting"}
    BY DEF ScheduleInv, SlotGuarded, Unsettled
  <2>2. runs[s] \in Seq(Run)
    BY DEF ScheduleInv, TypeOK
  <2>3. ASSUME NEW i \in Unsettled(s) PROVE HoldsSlot(s)
    <3>1. runs[s] # <<>> /\ i = Len(runs[s])
      BY <2>1, <2>2, <2>3
    <3> QED
      BY <2>1, <3>1 DEF HoldsSlot, Last
  <2> QED
    BY <2>3
<1>7. \A f \in Times : row[s].state = "live" /\ f > Reference(row[s])
                          => Cardinality(Answering(s, f)) <= faults
  BY <1>s, <1>1 DEF ScheduleInv, FiringsCharged
<1>8. ASSUME NEW f \in Fires[s], f > Reference(row[s]), f <= pass.now
      PROVE  f \in offered'[s]
  BY <1>s, <1>1, <1>5, <1>8, InHandFacts DEF Pending
<1>9. pass'.mark <= edits /\ pass'.at # "enqueue" /\ (pass'.at = "reread" => ~HoldsSlot(s))
  BY <1>1, <1>2, InHandFacts DEF TurnedTo, StaysAt
<1> QED
  BY <1>s, <1>1, <1>3, <1>5, <1>6, <1>7, <1>8, <1>9, InHandFacts, MoveSafe

LEMMA RereadSafe ==
    ASSUME ScheduleInv, Reread
    PROVE  ScheduleInv'
<1>s. PICK s \in Schedules : s = pass.cur
  BY InHandFacts DEF Reread
<1>1. /\ pass.at = "reread"
      /\ UNCHANGED <<clock, row, runs, fit, retired, lastPass, edits, faults, offered>>
  BY DEF Reread
<1>2. \/ TurnedTo(pass', pass)
      \/ /\ StaysAt(pass', "enqueue") /\ pass'.mark = row[s].edit
         /\ pass'.budget = row[s].budget /\ StillFirable(s)
  <2>1. CASE StillFirable(s)
    <3>1. pass' = [pass EXCEPT !.at = "enqueue", !.budget = row[s].budget, !.mark = row[s].edit]
      BY <1>s, <2>1 DEF Reread, FiringBudget
    <3>2. row[s].budget \in Budgets /\ row[s].edit \in 0..EditBound /\ pass \in PassState
      BY <1>s, <1>1, InHandFacts DEF Row
    <3> QED
      BY <2>1, <3>1, <3>2 DEF StaysAt, PassState, Stages
  <2>2. CASE ~StillFirable(s)
    BY <1>s, <1>1, <2>2, InHandFacts, TurnShape DEF Reread
  <2> QED
    BY <2>1, <2>2
<1>3. PassMoved(s)
  BY <1>s, <1>1, <1>2, RowStands DEF PassMoved
<1>4. \A f \in Times : row[s].state = "live" /\ f > Reference(row[s])
                          => Cardinality(Answering(s, f)) <= faults
  BY <1>s, <1>1 DEF ScheduleInv, FiringsCharged
<1>5. ASSUME NEW f \in Fires[s], f > Reference(row[s]), f <= pass.now
      PROVE  f \in offered[s]
  <2>1. s \in Ahead /\ s \notin pass.todo /\ Reference(pass.snap[s]) = Reference(row[s])
    BY <1>s, <1>1, InHandFacts DEF ScheduleInv, PassCurrent
  <2> QED
    BY <1>1, <1>5, <2>1 DEF ScheduleInv, LeftDueWasOffered
<1>6. pass'.mark <= edits
  BY <1>1, <1>2, InHandFacts DEF TurnedTo, ScheduleInv, EditsNumbered
<1>7. Unsettled(s) = {}
  BY <1>s, <1>1 DEF ScheduleInv, SlotGuarded
<1>8. pass'.at = "enqueue" => StillFirable(s) /\ row[s].budget = pass'.budget
  BY <1>2 DEF TurnedTo
<1> QED
  BY <1>s, <1>1, <1>3, <1>4, <1>5, <1>6, <1>7, <1>8, InHandFacts, MoveSafe

\* A row with a run or a skip at the pass's instant is not due before it.
LEMMA WrittenRows ==
    ASSUME NEW r \in Row, NEW now \in Times
    PROVE  /\ [r EXCEPT !.lastRun = now] \in Row
           /\ [r EXCEPT !.lastRun = now].state = r.state /\ [r EXCEPT !.lastRun = now].edit = r.edit
           /\ Reference([r EXCEPT !.lastRun = now]) >= now
           /\ \A n \in Nat :
                /\ [r EXCEPT !.lastSkip = now, !.skipped = n] \in Row
                /\ [r EXCEPT !.lastSkip = now, !.skipped = n].state = r.state
                /\ [r EXCEPT !.lastSkip = now, !.skipped = n].edit = r.edit
                /\ Reference([r EXCEPT !.lastSkip = now, !.skipped = n]) >= now
<1>n. now \in Int
  BY SchedulerAssumption DEF Times
<1> DEFINE a == [r EXCEPT !.lastRun = now]
<1>1. a \in Row /\ a.state = r.state /\ a.edit = r.edit /\ a.lastRun = now
  BY DEF Row
<1>2. Reference(a) >= now
  <2> HIDE DEF a
  <2>1. Reference(a) \in Times /\ a.lastRun <= Reference(a)
    BY <1>1, ReferenceBounds
  <2> QED
    BY <1>n, <1>1, <2>1, SchedulerAssumption DEF Times
<1>3. ASSUME NEW n \in Nat
      PROVE  LET b == [r EXCEPT !.lastSkip = now, !.skipped = n]
             IN  b \in Row /\ b.state = r.state /\ b.edit = r.edit /\ Reference(b) >= now
  <2> DEFINE b == [r EXCEPT !.lastSkip = now, !.skipped = n]
  <2>1. b \in Row /\ b.state = r.state /\ b.edit = r.edit /\ b.lastSkip = now
    BY DEF Row
  <2>2. Reference(b) >= now
    <3> HIDE DEF b
    <3>1. Reference(b) \in Times /\ b.lastSkip <= Reference(b)
      BY <2>1, ReferenceBounds
    <3> QED
      BY <1>n, <2>1, <3>1, SchedulerAssumption DEF Times
  <2> QED
    BY <2>1, <2>2
<1> QED
  BY <1>1, <1>2, <1>3

\* Nothing answers for an instant behind a row that was just written.
LEMMA NothingAnswersAhead ==
    ASSUME ScheduleInv, pass.at # "idle", NEW s \in Schedules, NEW f \in Times, f > pass.now
    PROVE  Cardinality(Answering(s, f)) = 0
<1>1. \A i \in DOMAIN runs[s] : f \notin runs[s][i].answers
  <2> SUFFICES ASSUME NEW i \in DOMAIN runs[s], f \in runs[s][i].answers PROVE FALSE
    OBVIOUS
  <2>1. f <= pass.now
    BY DEF ScheduleInv, FiringsCharged
  <2>2. f \in Int /\ pass.now \in Int
    BY SchedulerAssumption DEF ScheduleInv, TypeOK, PassState, Times
  <2> QED
    BY <2>1, <2>2
<1>2. Answering(s, f) = {}
  BY <1>1 DEF Answering
<1> QED
  BY <1>2, FS_EmptySet

\* The write of a run or of a skip: the pass goes on, the row is behind it.
LEMMA WriteSafe ==
    ASSUME ScheduleInv, NEW s \in Schedules, s = pass.cur, pass.at \in {"touch", "skip"},
           TurnedTo(pass', pass) \/ (StaysAt(pass', "skip") /\ pass'.mark = pass.mark),
           UNCHANGED <<clock, runs, fit, retired, lastPass, edits, faults, offered>>,
           \/ UNCHANGED row /\ row[s].state # "live"
           \/ /\ row' \in [Schedules -> Row] /\ \A k \in Schedules \ {s} : row'[k] = row[k]
              /\ row[s].state = "live" /\ row'[s].state = row[s].state
              /\ row'[s].edit = row[s].edit /\ Reference(row'[s]) >= pass.now
    PROVE  ScheduleInv'
<1>1. RowWritten(s)
  BY RowStands DEF RowWritten
<1>2. PassMoved(s)
  BY <1>1 DEF PassMoved
<1>3. ASSUME NEW f \in Times, row[s].state = "live", f > Reference(row'[s])
      PROVE  f > pass.now /\ Cardinality(Answering(s, f)) <= faults
  <2>1. row'[s] \in Row /\ Reference(row'[s]) >= pass.now
    BY <1>3
  <2>2. f \in Int /\ pass.now \in Int /\ Reference(row'[s]) \in Int
    BY <2>1, ReferenceBounds, InHandFacts, SchedulerAssumption DEF Times
  <2>3. f > pass.now
    BY <1>3, <2>1, <2>2
  <2>4. faults \in Nat
    BY InHandFacts
  <2> QED
    BY <2>3, <2>4, NothingAnswersAhead
<1>4. \A f \in Fires[s] : f \in Times /\ f \in Int /\ pass.now \in Int
  BY FiringsFinite, InHandFacts, SchedulerAssumption DEF Times
<1>5. s \notin Ahead'
  BY <1>2, MovedAhead DEF Ahead, ScheduleInv, PassCurrent
<1>6. pass'.mark <= edits /\ pass'.at \notin {"reread", "enqueue"}
  BY InHandFacts DEF TurnedTo, StaysAt
<1>7. \A f \in Fires[s] : ~(row[s].state = "live" /\ f > Reference(row'[s]) /\ f <= pass.now)
  BY <1>3, <1>4
<1> QED
  BY <1>2, <1>3, <1>5, <1>6, <1>7, InHandFacts, MoveSafe

LEMMA TouchSafe ==
    ASSUME ScheduleInv, Touch
    PROVE  ScheduleInv'
<1>s. PICK s \in Schedules : s = pass.cur
  BY InHandFacts DEF Touch
<1>1. /\ pass.at = "touch"
      /\ UNCHANGED <<clock, runs, fit, retired, lastPass, edits, faults, offered>>
  BY DEF Touch
<1>t. pass \in PassState /\ row \in [Schedules -> Row] /\ pass.now \in Times
  BY <1>1, InHandFacts
<1>2. TurnedTo(pass', pass) \/ (StaysAt(pass', "skip") /\ pass'.mark = pass.mark)
  <2>1. pass' = Turn(pass) \/ pass' = [pass EXCEPT !.at = "skip"]
    BY DEF Touch
  <2>2. StaysAt([pass EXCEPT !.at = "skip"], "skip") /\ [pass EXCEPT !.at = "skip"].mark = pass.mark
    BY <1>t DEF StaysAt, PassState, Stages
  <2> QED
    BY <1>t, <2>1, <2>2, TurnShape
<1>3. CASE row[s].state = "live"
  <2>1. row' = [row EXCEPT ![s] = [row[s] EXCEPT !.lastRun = pass.now]]
    BY <1>s, <1>t, <1>3 DEF Touch, Touched
  <2>2. /\ [row[s] EXCEPT !.lastRun = pass.now] \in Row
        /\ [row[s] EXCEPT !.lastRun = pass.now].state = row[s].state
        /\ [row[s] EXCEPT !.lastRun = pass.now].edit = row[s].edit
        /\ Reference([row[s] EXCEPT !.lastRun = pass.now]) >= pass.now
    BY <1>t, WrittenRows
  <2> DEFINE a == [row[s] EXCEPT !.lastRun = pass.now]
  <2> HIDE DEF a
  <2>3. row' \in [Schedules -> Row] /\ row'[s] = a /\ \A k \in Schedules \ {s} : row'[k] = row[k]
    BY <1>t, <2>1, <2>2 DEF a
  <2>4. row'[s].state = row[s].state /\ row'[s].edit = row[s].edit /\ Reference(row'[s]) >= pass.now
    BY <2>2, <2>3 DEF a
  <2> QED
    BY <1>s, <1>1, <1>2, <1>3, <2>3, <2>4, WriteSafe
<1>4. CASE row[s].state # "live"
  <2>1. UNCHANGED row
    BY <1>s, <1>4 DEF Touch
  <2> QED
    BY <1>s, <1>1, <1>2, <1>4, <2>1, WriteSafe
<1> QED
  BY <1>3, <1>4

LEMMA RecordSkipSafe ==
    ASSUME ScheduleInv, RecordSkip
    PROVE  ScheduleInv'
<1>s. PICK s \in Schedules : s = pass.cur
  BY InHandFacts DEF RecordSkip
<1>1. /\ pass.at = "skip" /\ pass' = Turn(pass)
      /\ UNCHANGED <<clock, runs, fit, retired, lastPass, edits, faults, offered>>
  BY DEF RecordSkip
<1>t. pass \in PassState /\ row \in [Schedules -> Row] /\ pass.now \in Times /\ row[s].skipped \in Nat
      /\ pass.missed \in Nat
  BY <1>1, InHandFacts DEF Row, PassState
<1>2. TurnedTo(pass', pass)
  BY <1>1, <1>t, TurnShape
<1>3. CASE row[s].state = "live"
  <2> DEFINE n == row[s].skipped + pass.missed
             a == [row[s] EXCEPT !.lastSkip = pass.now, !.skipped = n]
  <2>1. row' = [row EXCEPT ![s] = a]
    BY <1>s, <1>t, <1>3 DEF RecordSkip, Row
  <2>n. n \in Nat
    BY <1>t
  <2> HIDE DEF n
  <2>2. a \in Row /\ a.state = row[s].state /\ a.edit = row[s].edit /\ Reference(a) >= pass.now
    <3>1. row[s] \in Row /\ pass.now \in Times
      BY <1>t
    <3> QED
      BY ONLY <2>n, <3>1, WrittenRows DEF a
  <2> HIDE DEF a
  <2>3. row' \in [Schedules -> Row] /\ row'[s] = a /\ \A k \in Schedules \ {s} : row'[k] = row[k]
    BY <1>t, <2>1, <2>2
  <2>4. row'[s].state = row[s].state /\ row'[s].edit = row[s].edit /\ Reference(row'[s]) >= pass.now
    BY <2>2, <2>3
  <2> QED
    BY <1>s, <1>1, <1>2, <1>3, <2>3, <2>4, WriteSafe
<1>4. CASE row[s].state # "live"
  <2>1. UNCHANGED row
    BY <1>s, <1>4 DEF RecordSkip
  <2> QED
    BY <1>s, <1>1, <1>2, <1>4, <2>1, WriteSafe
<1> QED
  BY <1>3, <1>4

\* A failure charges for whatever the step may have left half done.
LEMMA StepFailsSafe ==
    ASSUME ScheduleInv, StepFails
    PROVE  ScheduleInv'
<1>s. PICK s \in Schedules : s = pass.cur
  BY InHandFacts DEF StepFails
<1>1. /\ pass.at \notin {"idle", "tail"} /\ pass' = Turn(pass)
      /\ offered' = [offered EXCEPT ![s] = @ \cup Pending(s, pass.snap[s], pass.now)]
      /\ faults' = faults + 1 /\ faults < FaultBound
      /\ UNCHANGED <<clock, row, runs, fit, retired, lastPass, edits>>
  BY <1>s DEF StepFails, Fault
<1>2. TurnedTo(pass', pass)
  BY <1>1, InHandFacts, TurnShape
<1>3. PassMoved(s)
  BY <1>s, <1>1, <1>2, RowStands DEF PassMoved
<1>4. Pending(s, pass.snap[s], pass.now) \subseteq Times
  BY FiringsFinite
<1>5. /\ offered' \in [Schedules -> SUBSET Times]
      /\ \A k \in Schedules : offered[k] \subseteq offered'[k]
      /\ Pending(s, pass.snap[s], pass.now) \subseteq offered'[s]
  BY <1>1, <1>4, InHandFacts
<1>6. faults' \in 0..FaultBound /\ faults' >= faults
  BY <1>1, InHandFacts
<1>7. \A f \in Times : Cardinality(Answering(s, f)) <= faults'
  <2>1. \A f \in Times : Cardinality(Answering(s, f)) <= 1 + faults /\ Cardinality(Answering(s, f)) \in Nat
    BY AnsweringFinite DEF ScheduleInv, FiringsCharged
  <2> QED
    BY <1>1, <2>1, InHandFacts
<1>8. ASSUME NEW f \in Fires[s], row[s].state = "live", f > Reference(row[s]), f <= pass.now
      PROVE  f \in offered'[s]
  <2>1. CASE pass.at = "step"
    BY <1>s, <1>5, <1>8, <2>1, InHandFacts DEF Pending
  <2>2. CASE pass.at \in {"reread", "enqueue"}
    BY <1>s, <1>5, <1>8, <2>2, InHandFacts DEF Pending
  <2>3. CASE pass.at \in {"touch", "skip"}
    <3>1. s \notin Ahead
      BY <1>s, <2>3 DEF Ahead, ScheduleInv, PassCurrent
    <3>2. f \in offered[s]
      BY <1>1, <1>8, <3>1 DEF ScheduleInv, LeftDueWasOffered
    <3> QED
      BY <1>5, <3>2
  <2> QED
    BY <1>1, <2>1, <2>2, <2>3, InHandFacts DEF PassState, Stages
<1>9. s \notin Ahead'
  BY <1>s, <1>2, InHandFacts DEF Ahead, TurnedTo, ScheduleInv, PassCurrent
<1>10. pass'.mark <= edits /\ pass'.at \notin {"reread", "enqueue"}
  BY <1>1, <1>2, InHandFacts DEF TurnedTo
<1> QED
  BY <1>s, <1>1, <1>3, <1>5, <1>6, <1>7, <1>8, <1>9, <1>10, MoveSafe

\* The run of a firing that no run had answered for beyond what failures paid.
LEMMA EnqueueSafe ==
    ASSUME ScheduleInv, Enqueue
    PROVE  ScheduleInv'
<1>s. PICK s \in Schedules : s = pass.cur
  BY InHandFacts DEF Enqueue
<1> DEFINE o == OnTime(s, pass.snap[s], pass.now, pass.cutoff)
           r == [status |-> "open", retried |-> FALSE, answers |-> o, budget |-> pass.budget]
<1>1. /\ pass.at = "enqueue" /\ Len(runs[s]) < MaxRuns
      /\ runs' = [runs EXCEPT ![s] = Append(@, r)]
      /\ pass' = [pass EXCEPT !.at = "touch"]
      /\ UNCHANGED <<clock, row, fit, retired, lastPass, edits, faults, offered>>
  BY <1>s DEF Enqueue
<1>t. /\ pass \in PassState /\ runs \in [Schedules -> Seq(Run)] /\ runs[s] \in Seq(Run)
      /\ Len(runs[s]) \in Nat /\ MaxRuns \in Nat /\ s \in Ahead /\ row[s].state # "none"
      /\ Reference(pass.snap[s]) = Reference(row[s])
  BY <1>s, <1>1, InHandFacts, SchedulerAssumption DEF ScheduleInv, TypeOK
<1>2. StaysAt(pass', "touch") /\ pass'.mark = pass.mark
  BY <1>1, <1>t DEF StaysAt, PassState, Stages
<1>3. PassMoved(s)
  BY <1>s, <1>1, <1>2, RowStands DEF PassMoved
<1>4. /\ o \subseteq Times /\ o \subseteq Pending(s, pass.snap[s], pass.now)
      /\ \A f \in o : f <= pass.now
  BY FiringsFinite DEF Pending
<1> HIDE DEF o
<1>5. r \in Run /\ r.answers = o
  BY <1>t, <1>4 DEF Run, PassState
<1> HIDE DEF r
<1> DEFINE n == Len(runs[s]) + 1
<1>6. /\ runs' \in [Schedules -> Seq(Run)] /\ Len(runs'[s]) = n /\ DOMAIN runs'[s] = 1..n
      /\ runs'[s][n] = r
      /\ \A i \in 1..Len(runs[s]) : runs'[s][i] = runs[s][i]
      /\ \A k \in Schedules : k # s => runs'[k] = runs[k]
      /\ DOMAIN runs[s] = 1..Len(runs[s])
  BY <1>1, <1>t, <1>5
<1>7. TypeOK'
  <2>1. \A k \in Schedules : Len(runs'[k]) <= MaxRuns
    BY <1>1, <1>t, <1>6 DEF ScheduleInv, TypeOK
  <2> QED
    BY <1>1, <1>2, <1>6, <2>1 DEF ScheduleInv, TypeOK, StaysAt
<1>8. SlotGuarded'
  <2>1. Unsettled(s) = {}
    BY <1>s, <1>1 DEF ScheduleInv, SlotGuarded
  <2>2. Unsettled(s)' \subseteq {n}
    <3> SUFFICES ASSUME NEW i \in 1..n, i # n, runs'[s][i].status \in {"open", "waiting"},
                        ~runs'[s][i].retried
                 PROVE  FALSE
      BY <1>6 DEF Unsettled
    <3>1. i \in 1..Len(runs[s])
      BY <1>t
    <3> QED
      BY <1>6, <2>1, <3>1 DEF Unsettled
  <2>3. \A k \in Schedules : k # s => Unsettled(k)' = Unsettled(k)
    BY <1>6 DEF Unsettled
  <2> QED
    BY <1>2, <1>6, <2>2, <2>3 DEF SlotGuarded, ScheduleInv, StaysAt
<1>9. PassCurrent'
  BY <1>3, <1>t, <1>6, CurrentKept
<1>10. FiringsCharged'
  <2>f. faults \in Nat /\ faults' = faults
    BY <1>1, InHandFacts
  <2>1. ASSUME NEW k \in Schedules, NEW i \in DOMAIN runs'[k], NEW f \in runs'[k][i].answers
        PROVE  f <= pass.now
    <3>1. CASE k = s /\ i = n
      BY <1>4, <1>5, <1>6, <2>1, <3>1
    <3>2. CASE k # s
      BY <1>1, <1>6, <2>1, <3>2 DEF ScheduleInv, FiringsCharged
    <3>3. CASE k = s /\ i # n
      <4>1. i \in 1..Len(runs[s])
        BY <1>t, <1>6, <2>1, <3>3
      <4> QED
        BY <1>1, <1>6, <2>1, <3>3, <4>1 DEF ScheduleInv, FiringsCharged
    <3> QED
      BY <3>1, <3>2, <3>3
  <2>2. ASSUME NEW k \in Schedules, NEW f \in Times, k # s
        PROVE  Answering(k, f)' = Answering(k, f)
    BY <1>6, <2>2 DEF Answering
  <2>3. ASSUME NEW f \in Times
        PROVE  Cardinality(Answering(s, f)') <= 1 + faults
    <3>c. /\ IsFiniteSet(Answering(s, f)) /\ Cardinality(Answering(s, f)) \in Nat
          /\ Cardinality(Answering(s, f)) <= 1 + faults
      BY AnsweringFinite DEF ScheduleInv, FiringsCharged
    <3>1. CASE f \in o
      <4>1. Cardinality(Answering(s, f)) <= faults
        BY <1>4, <1>t, <3>1 DEF ScheduleInv, FiringsCharged
      <4>2. Answering(s, f)' = Answering(s, f) \cup {n}
        <5>1. \A i \in 1..n : i \in 1..Len(runs[s]) \/ i = n
          BY <1>t
        <5>2. \A i \in 1..Len(runs[s]) : i \in 1..n
          BY <1>t
        <5>3. n \in 1..n
          BY <1>t
        <5> HIDE DEF n
        <5> QED
          BY <1>5, <1>6, <3>1, <5>1, <5>2, <5>3 DEF Answering
      <4>3. n \notin Answering(s, f)
        BY <1>t, <1>6 DEF Answering
      <4>4. Cardinality(Answering(s, f)') = Cardinality(Answering(s, f)) + 1
        BY <3>c, <4>2, <4>3, FS_AddElement
      <4> QED
        BY <2>f, <3>c, <4>1, <4>4
    <3>2. CASE f \notin o
      <4>1. Answering(s, f)' = Answering(s, f)
        <5>1. \A i \in 1..n : i \in 1..Len(runs[s]) \/ i = n
          BY <1>t
        <5>2. \A i \in 1..Len(runs[s]) : i \in 1..n
          BY <1>t
        <5> HIDE DEF n
        <5> QED
          BY <1>5, <1>6, <3>2, <5>1, <5>2 DEF Answering
      <4> QED
        BY <3>c, <4>1
    <3> QED
      BY <3>1, <3>2
  <2>4. ASSUME NEW k \in Schedules, NEW f \in Times, k # s
        PROVE  /\ Cardinality(Answering(k, f)') <= 1 + faults
               /\ \/ k \in Ahead' /\ f \in Pending(k, pass'.snap[k], pass'.now)
                  \/ /\ row'[k].state = "live" /\ f > Reference(row'[k])
                     /\ ~(pass'.at = "touch" /\ pass'.cur = k)
                  => Cardinality(Answering(k, f)') <= faults
    <3>1. k \in Ahead' => k \in Ahead /\ pass'.snap[k] = pass.snap[k] /\ pass'.now = pass.now
      BY <1>3, <2>4, MovedAhead
    <3> QED
      BY <1>s, <1>1, <2>2, <2>4, <3>1 DEF ScheduleInv, FiringsCharged
  <2>5. s \notin Ahead' /\ pass'.at = "touch" /\ pass'.cur = s /\ pass'.now = pass.now
    BY <1>s, <1>1, <1>2, <1>3 DEF StaysAt, Ahead, ScheduleInv, PassCurrent
  <2> QED
    BY <2>f, <2>1, <2>3, <2>4, <2>5 DEF FiringsCharged
<1>11. LeftDueWasOffered'
  <2>1. ASSUME NEW f \in Fires[s], f > Reference(row[s]), f <= pass.now
        PROVE  f \in offered[s]
    <3>1. s \notin pass.todo
      BY <1>s, <1>1 DEF ScheduleInv, PassCurrent
    <3> QED
      BY <1>1, <1>t, <2>1, <3>1 DEF ScheduleInv, LeftDueWasOffered
  <2> QED
    BY <1>1, <1>3, <1>t, <2>1, OffersKept
<1>12. EditsNumbered'
  BY <1>1, <1>2 DEF ScheduleInv, EditsNumbered, StaysAt
<1> QED
  BY <1>7, <1>8, <1>9, <1>10, <1>11, <1>12, Assembled

-----------------------------------------------------------------------------
(* The beginning and the end of a pass *)

LEMMA PassBeginSafe ==
    ASSUME ScheduleInv, PassBegin
    PROVE  ScheduleInv'
<1> DEFINE live == {s \in Schedules : row[s].state = "live"}
           on == {s \in live : row[s].enabled}
           p == [Idle EXCEPT !.now = clock, !.cutoff = Cutoff(clock), !.todo = on,
                             !.snap = [s \in Schedules |-> IF s \in on THEN row[s] ELSE Blank]]
<1>1. /\ pass.at = "idle" /\ pass' = Turn(p)
      /\ offered' = [s \in Schedules |->
                        offered[s] \cup (IF s \in live \ on THEN {f \in Fires[s] : f <= clock} ELSE {})]
      /\ UNCHANGED <<clock, row, runs, fit, retired, lastPass, edits, faults>>
  BY DEF PassBegin
<1>t. /\ clock \in Times /\ clock \in Nat /\ Grace \in Nat /\ row \in [Schedules -> Row]
      /\ offered \in [Schedules -> SUBSET Times] /\ lastPass \in Int /\ edits \in Nat
  BY SchedulerAssumption DEF ScheduleInv, TypeOK, Times, Never
<1>c. Cutoff(clock) \in Int
  BY <1>t DEF Cutoff
<1>o. on \in SUBSET Schedules /\ \A s \in on : row[s].state = "live"
  OBVIOUS
<1>l. \A s \in Schedules : row[s].state = "live" /\ s \notin on => s \in live \ on
  OBVIOUS
<1>2. /\ p \in PassState /\ p.now = clock /\ p.cutoff = Cutoff(clock) /\ p.todo = on
      /\ \A s \in on : p.snap[s] = row[s]
  <2> HIDE DEF on
  <2>1. [s \in Schedules |-> IF s \in on THEN row[s] ELSE Blank] \in [Schedules -> Row]
    BY <1>t, BlankTyped
  <2>2. p \in PassState
    BY <1>t, <1>c, <1>o, <2>1, BlankTyped DEF PassState
  <2>3. p.now = clock /\ p.cutoff = Cutoff(clock) /\ p.todo = on
    BY DEF Idle
  <2>4. p.snap = [s \in Schedules |-> IF s \in on THEN row[s] ELSE Blank]
    BY DEF Idle
  <2> QED
    BY <1>o, <2>2, <2>3, <2>4
<1> HIDE DEF p
<1>3. TurnedTo(pass', p)
  BY <1>1, <1>2, TurnShape
<1> HIDE DEF on
<1>4. Ahead' = on
  BY <1>2, <1>3 DEF Ahead, TurnedTo
<1>5. \A s \in on : pass'.snap[s] = row[s] /\ pass'.at = "step"
  BY <1>2, <1>3 DEF TurnedTo
<1>6. /\ pass' \in PassState /\ pass'.now = clock /\ pass'.mark = 0 /\ pass'.at \in {"step", "tail"}
      /\ pass'.at = "tail" => pass'.todo = {}
      /\ pass'.at = "step" => pass'.cur \in Schedules \ pass'.todo /\ pass'.cutoff = Cutoff(clock)
  BY <1>o, <1>2, <1>3 DEF TurnedTo
<1>7. /\ offered' \in [Schedules -> SUBSET Times] /\ \A s \in Schedules : offered[s] \subseteq offered'[s]
      /\ \A s \in live \ on : \A f \in Fires[s] : f <= clock => f \in offered'[s]
  <2>1. \A s \in Schedules : Fires[s] \subseteq Times
    BY FiringsFinite
  <2> QED
    BY <1>1, <1>t, <2>1
<1>8. TypeOK'
  BY <1>1, <1>6, <1>7 DEF ScheduleInv, TypeOK
<1>9. SlotGuarded'
  BY <1>1, <1>6, SlotsKept
<1>10. PassCurrent'
  <2>1. Cutoff(clock)' = Cutoff(clock)
    BY <1>1 DEF Cutoff
  <2>2. ASSUME NEW s \in Ahead'
        PROVE  row'[s].state # "none" /\ Reference(pass'.snap[s]) = Reference(row'[s])
    BY <1>1, <1>o, <1>4, <1>5, <2>2
  <2>3. lastPass <= clock
    BY DEF ScheduleInv, PassCurrent
  <2> QED
    BY <1>1, <1>t, <1>6, <2>1, <2>2, <2>3 DEF ScheduleInv, PassCurrent, Cutoff
<1>11. FiringsCharged'
  <2>1. \A s \in Schedules, f \in Times : Answering(s, f)' = Answering(s, f)
    BY <1>1 DEF Answering
  <2>2. ASSUME NEW s \in Schedules, NEW f \in Times,
               \/ s \in Ahead' /\ f \in Pending(s, pass'.snap[s], pass'.now)
               \/ /\ row'[s].state = "live" /\ f > Reference(row'[s])
                  /\ ~(pass'.at = "touch" /\ pass'.cur = s)
        PROVE  Cardinality(Answering(s, f)) <= faults
    <3>1. row[s].state = "live" /\ f > Reference(row[s])
      BY <1>1, <1>o, <1>4, <1>5, <2>2 DEF Pending
    <3> QED
      BY <1>1, <3>1 DEF ScheduleInv, FiringsCharged
  <2> QED
    BY <1>1, <1>6, <2>1, <2>2 DEF ScheduleInv, FiringsCharged
<1>12. LeftDueWasOffered'
  <2> SUFFICES ASSUME NEW s \in Schedules, NEW f \in Fires[s]
               PROVE  /\ row[s].state = "live" /\ f > Reference(row[s]) =>
                            /\ lastPass # Never /\ f <= lastPass => f \in offered'[s]
                            /\ f <= clock => f \in offered'[s] \/ s \in on
                      /\ s \in on /\ f > Reference(row[s]) =>
                            (lastPass # Never /\ f <= lastPass => f \in offered'[s])
    BY <1>1, <1>4, <1>5, <1>6 DEF LeftDueWasOffered
  <2>1. row[s].state = "live" /\ f > Reference(row[s]) /\ lastPass # Never /\ f <= lastPass
           => f \in offered[s]
    BY DEF ScheduleInv, LeftDueWasOffered
  <2> QED
    BY <1>o, <1>l, <1>7, <2>1
<1>13. EditsNumbered'
  BY <1>1, <1>t, <1>6 DEF ScheduleInv, EditsNumbered
<1> QED
  BY <1>8, <1>9, <1>10, <1>11, <1>12, <1>13, Assembled

\* A pass that is over or lost: every row is behind it, or a failure pays for those
\* that are not.
LEMMA IdleSafe ==
    ASSUME ScheduleInv, pass' = Idle, UNCHANGED <<clock, row, runs, retired, edits, offered>>,
           fit' \in [Schedules -> BOOLEAN],
           \/ lastPass' = pass.now /\ pass.at = "tail" /\ UNCHANGED faults
           \/ lastPass' \in {lastPass, Never} /\ faults' = faults + 1 /\ faults < FaultBound
    PROVE  ScheduleInv'
<1>t. /\ clock \in Nat /\ clock \in Times /\ pass.now \in Times /\ pass.now \in Nat /\ lastPass \in Int
      /\ faults \in 0..FaultBound /\ FaultBound \in Nat /\ edits \in Nat
      /\ lastPass \in Times \cup {Never} /\ Never \in Int /\ Never < 0
  BY SchedulerAssumption DEF ScheduleInv, TypeOK, PassState, Times, Never
<1>p. pass'.at = "idle" /\ pass'.now = 0 /\ pass'.todo = {} /\ pass'.mark = 0 /\ Ahead' = {}
  BY DEF Idle, Ahead
<1>1. TypeOK'
  BY <1>t, BlankTyped DEF ScheduleInv, TypeOK
<1>2. SlotGuarded'
  BY <1>p, SlotsKept
<1>3. PassCurrent'
  <2>1. lastPass' <= clock
    BY <1>t DEF ScheduleInv, PassCurrent
  <2> QED
    BY <1>t, <1>p, <2>1 DEF ScheduleInv, PassCurrent
<1>4. FiringsCharged'
  <2>1. \A s \in Schedules, f \in Times : /\ Answering(s, f)' = Answering(s, f)
                                          /\ Cardinality(Answering(s, f)) \in Nat
    BY AnsweringFinite DEF Answering, ScheduleInv
  <2>2. ASSUME NEW s \in Schedules, NEW i \in DOMAIN runs[s], NEW f \in runs[s][i].answers
        PROVE  f <= clock
    <3>0. runs[s] \in Seq(Run) /\ i \in 1..Len(runs[s])
      BY AnsweringFinite DEF ScheduleInv
    <3>r. runs[s][i] \in Run
      BY <3>0
    <3>1. f \in Times /\ f \in Nat
      BY <3>r, SchedulerAssumption DEF Run, Times
    <3>2. f <= IF pass.at = "idle" THEN clock ELSE pass.now
      BY DEF ScheduleInv, FiringsCharged
    <3>3. pass.now <= clock
      BY DEF ScheduleInv, PassCurrent
    <3> QED
      BY <1>t, <3>1, <3>2, <3>3
  <2>3. ASSUME NEW s \in Schedules, NEW f \in Times
        PROVE  /\ Cardinality(Answering(s, f)) <= 1 + faults'
               /\ /\ row[s].state = "live" /\ f > Reference(row[s])
                  => Cardinality(Answering(s, f)) <= faults'
    <3>1. Cardinality(Answering(s, f)) <= 1 + faults
      BY DEF ScheduleInv, FiringsCharged
    <3>2. CASE faults' = faults + 1
      BY <1>t, <2>1, <3>1, <3>2
    <3>3. CASE UNCHANGED faults /\ pass.at = "tail"
      BY <3>1, <3>3 DEF ScheduleInv, FiringsCharged
    <3> QED
      BY <3>2, <3>3
  <2> QED
    BY <1>p, <2>1, <2>2, <2>3 DEF FiringsCharged
<1>5. LeftDueWasOffered'
  <2> SUFFICES ASSUME NEW s \in Schedules, NEW f \in Fires[s], row[s].state = "live",
                      f > Reference(row[s]), lastPass' # Never, f <= lastPass'
               PROVE  f \in offered[s]
    BY <1>p DEF LeftDueWasOffered
  <2>1. CASE lastPass' = lastPass
    BY <2>1 DEF ScheduleInv, LeftDueWasOffered
  <2>2. CASE lastPass' = pass.now /\ pass.at = "tail"
    <3>1. s \notin Ahead
      BY <2>2 DEF Ahead, ScheduleInv, PassCurrent
    <3> QED
      BY <2>2, <3>1 DEF ScheduleInv, LeftDueWasOffered
  <2> QED
    BY <2>1, <2>2
<1>6. EditsNumbered'
  BY <1>t, <1>p DEF ScheduleInv, EditsNumbered
<1> QED
  BY <1>1, <1>2, <1>3, <1>4, <1>5, <1>6, Assembled

-----------------------------------------------------------------------------
(* Everybody else *)

LEMMA TickSafe ==
    ASSUME ScheduleInv, Tick
    PROVE  ScheduleInv'
<1>1. /\ clock' = clock + 1 /\ clock < MaxTime
      /\ UNCHANGED <<row, runs, fit, retired, lastPass, pass, edits, faults, offered>>
  BY DEF Tick
<1>t. /\ clock \in Nat /\ MaxTime \in Nat /\ clock' \in Times /\ lastPass \in Int /\ pass.now \in Int
  BY <1>1, SchedulerAssumption DEF ScheduleInv, TypeOK, PassState, Times, Never
<1>a. Ahead' = Ahead
  BY <1>1 DEF Ahead
<1>2. TypeOK'
  BY <1>1, <1>t DEF ScheduleInv, TypeOK
<1>3. SlotGuarded'
  BY <1>1, SlotsKept DEF ScheduleInv, SlotGuarded
<1>4. PassCurrent'
  BY <1>1, <1>t, <1>a DEF ScheduleInv, PassCurrent, Cutoff
<1>5. FiringsCharged'
  <2>1. ASSUME NEW s \in Schedules, NEW i \in DOMAIN runs[s], NEW f \in runs[s][i].answers
        PROVE  f <= IF pass.at = "idle" THEN clock' ELSE pass.now
    <3>0. runs[s] \in Seq(Run) /\ i \in 1..Len(runs[s])
      BY AnsweringFinite DEF ScheduleInv
    <3>r. runs[s][i] \in Run
      BY <3>0
    <3>1. f \in Nat
      BY <3>r, SchedulerAssumption DEF Run, Times
    <3>2. f <= IF pass.at = "idle" THEN clock ELSE pass.now
      BY DEF ScheduleInv, FiringsCharged
    <3> QED
      BY <1>1, <1>t, <3>1, <3>2
  <2>2. \A s \in Schedules, f \in Times : Answering(s, f)' = Answering(s, f)
    BY <1>1 DEF Answering
  <2> QED
    BY <1>1, <1>a, <2>1, <2>2 DEF ScheduleInv, FiringsCharged
<1>6. LeftDueWasOffered' /\ EditsNumbered'
  BY <1>1, <1>a DEF ScheduleInv, LeftDueWasOffered, EditsNumbered, StillFirable
<1> QED
  BY <1>2, <1>3, <1>4, <1>5, <1>6, Assembled

\* Nothing that the invariant but for the types speaks of.
LEMMA SetRetiredSafe ==
    ASSUME ScheduleInv, NEW s \in Schedules, SetRetired(s)
    PROVE  ScheduleInv'
<1>1. /\ edits < EditBound /\ edits' = edits + 1
      /\ retired' = [retired EXCEPT ![s] = ~@]
      /\ UNCHANGED <<clock, row, runs, fit, lastPass, pass, faults, offered>>
  BY DEF SetRetired
<1>t. edits \in Nat /\ EditBound \in Nat /\ edits' \in 0..EditBound
  BY <1>1, SchedulerAssumption DEF ScheduleInv, TypeOK
<1>r. retired' \in [Schedules -> BOOLEAN]
  BY <1>1 DEF ScheduleInv, TypeOK
<1>2. TypeOK'
  BY <1>1, <1>t, <1>r DEF ScheduleInv, TypeOK
<1>a. Ahead' = Ahead
  BY <1>1 DEF Ahead
<1>3. SlotGuarded' /\ PassCurrent'
  BY <1>1, <1>a DEF ScheduleInv, SlotGuarded, Unsettled, PassCurrent, Cutoff
<1>4. FiringsCharged' /\ LeftDueWasOffered'
  BY <1>1, <1>a DEF ScheduleInv, FiringsCharged, Answering, LeftDueWasOffered
<1>5. EditsNumbered'
  <2>1. pass.mark \in Nat /\ \A k \in Schedules : row[k].edit \in Nat
    BY SchedulerAssumption DEF ScheduleInv, TypeOK, PassState, Row
  <2> QED
    BY <1>1, <1>t, <2>1 DEF ScheduleInv, EditsNumbered, StillFirable
<1> QED
  BY <1>2, <1>3, <1>4, <1>5, Assembled

\* An operator's edit: a live row keeps its reference, and a created one has nothing due
\* before now.
LEMMA EditSafe ==
    ASSUME ScheduleInv, NEW s \in Schedules, NEW r \in Row, Edit(s, r),
           \/ row[s].state = "live" /\ r.state # "none" /\ Reference(r) = Reference(row[s])
           \/ row[s].state = "none" /\ r.state = "live" /\ Reference(r) = clock
    PROVE  ScheduleInv'
<1> DEFINE q == [r EXCEPT !.edit = edits + 1]
<1>1. /\ edits < EditBound /\ edits' = edits + 1
      /\ row' = [row EXCEPT ![s] = q]
      /\ UNCHANGED <<clock, runs, fit, retired, lastPass, pass, faults, offered>>
  BY DEF Edit
<1>ta. /\ edits \in Nat /\ EditBound \in Nat /\ edits' \in 0..EditBound
       /\ clock \in Int /\ lastPass \in Int /\ faults \in Nat
  BY <1>1, SchedulerAssumption DEF ScheduleInv, TypeOK, Times, Never
<1>tb. pass.now \in Int /\ pass.mark \in Nat
  BY SchedulerAssumption DEF ScheduleInv, TypeOK, PassState, Times
<1>tc. row \in [Schedules -> Row] /\ \A k \in Schedules : row[k].edit \in Nat
  BY SchedulerAssumption DEF ScheduleInv, TypeOK, Row
<1>t. /\ edits \in Nat /\ EditBound \in Nat /\ edits' \in 0..EditBound /\ clock \in Int
      /\ pass.now \in Int /\ lastPass \in Int /\ pass.mark \in Nat /\ faults \in Nat
      /\ row \in [Schedules -> Row] /\ \A k \in Schedules : row[k].edit \in Nat
  BY <1>ta, <1>tb, <1>tc
<1>q. /\ q \in Row /\ q.state = r.state /\ q.edit = edits + 1
      /\ q.lastRun = r.lastRun /\ q.lastSkip = r.lastSkip /\ q.created = r.created
  BY <1>1, <1>t DEF Row
<1> HIDE DEF q
<1>e. Reference(q) = Reference(r)
  BY <1>q DEF Reference
<1>2. /\ row' \in [Schedules -> Row] /\ row'[s] = q
      /\ \A k \in Schedules : k # s => row'[k] = row[k]
  BY <1>1, <1>t, <1>q
<1>3. TypeOK'
  BY <1>1, <1>t, <1>2 DEF ScheduleInv, TypeOK
<1>a. Ahead' = Ahead /\ Ahead \subseteq Schedules
  BY <1>1 DEF Ahead, ScheduleInv, PassCurrent, TypeOK, PassState
<1>4. SlotGuarded'
  BY <1>1, SlotsKept DEF ScheduleInv, SlotGuarded
<1>5. PassCurrent'
  <2>1. ASSUME NEW k \in Ahead
        PROVE  row'[k].state # "none" /\ Reference(pass.snap[k]) = Reference(row'[k])
    <3>1. row[k].state # "none" /\ Reference(pass.snap[k]) = Reference(row[k])
      BY DEF ScheduleInv, PassCurrent
    <3> QED
      BY <1>2, <1>q, <1>e, <1>a, <3>1
  <2>2. ASSUME NEW k \in Schedules, row'[k].state = "none"
        PROVE  runs[k] = <<>> /\ row'[k].lastRun = Never /\ row'[k].lastSkip = Never
    <3>1. k # s
      BY <1>2, <1>q, <2>2
    <3> QED
      BY <1>2, <2>2, <3>1 DEF ScheduleInv, PassCurrent
  <2> QED
    BY <1>1, <1>a, <2>1, <2>2 DEF ScheduleInv, PassCurrent, Cutoff
<1>6. FiringsCharged'
  <2>1. \A k \in Schedules, f \in Times : Answering(k, f)' = Answering(k, f)
    BY <1>1 DEF Answering
  <2>2. ASSUME NEW f \in Times, row'[s].state = "live", f > Reference(row'[s]),
               ~(pass.at = "touch" /\ pass.cur = s)
        PROVE  Cardinality(Answering(s, f)) <= faults
    <3>1. CASE row[s].state = "live"
      BY <1>2, <1>e, <2>2, <3>1 DEF ScheduleInv, FiringsCharged
    <3>2. CASE row[s].state = "none"
      <4>1. Answering(s, f) = {}
        BY <3>2 DEF ScheduleInv, PassCurrent, Answering
      <4> QED
        BY <1>t, <4>1, FS_EmptySet
    <3> QED
      BY <3>1, <3>2
  <2>3. ASSUME NEW k \in Schedules, NEW f \in Times
        PROVE  /\ Cardinality(Answering(k, f)) <= 1 + faults
               /\ \/ k \in Ahead /\ f \in Pending(k, pass.snap[k], pass.now)
                  \/ /\ row'[k].state = "live" /\ f > Reference(row'[k])
                     /\ ~(pass.at = "touch" /\ pass.cur = k)
                  => Cardinality(Answering(k, f)) <= faults
    BY <1>2, <2>2 DEF ScheduleInv, FiringsCharged
  <2>4. \A k \in Schedules : \A i \in DOMAIN runs[k] : \A f \in runs[k][i].answers :
           f <= IF pass.at = "idle" THEN clock ELSE pass.now
    BY DEF ScheduleInv, FiringsCharged
  <2> QED
    BY <1>1, <1>a, <2>1, <2>3, <2>4 DEF FiringsCharged
<1>7. LeftDueWasOffered'
  <2> SUFFICES ASSUME NEW k \in Schedules, NEW f \in Fires[k]
               PROVE  /\ row'[k].state = "live" /\ f > Reference(row'[k]) =>
                            /\ lastPass # Never /\ f <= lastPass => f \in offered[k]
                            /\ pass.at # "idle" /\ f <= pass.now => f \in offered[k] \/ k \in Ahead
                      /\ k \in Ahead /\ f > Reference(pass.snap[k]) =>
                            /\ lastPass # Never /\ f <= lastPass => f \in offered[k]
                            /\ k \notin pass.todo /\ pass.at # "step" /\ f <= pass.now => f \in offered[k]
    BY <1>1, <1>a DEF LeftDueWasOffered
  <2>1. CASE k # s \/ row[s].state = "live"
    BY <1>2, <1>e, <2>1 DEF ScheduleInv, LeftDueWasOffered
  <2>2. CASE k = s /\ row[s].state = "none"
    <3>1. f \in Int /\ lastPass <= clock /\ pass.now <= clock
      BY SchedulerAssumption DEF ScheduleInv, PassCurrent
    <3>2. s \notin Ahead
      BY <2>2 DEF ScheduleInv, PassCurrent
    <3>3. f > Reference(row'[k]) => ~(f <= lastPass) /\ ~(f <= pass.now)
      BY <1>t, <1>2, <1>e, <2>2, <3>1
    <3> QED
      BY <2>2, <3>2, <3>3
  <2> QED
    BY <2>1, <2>2
<1>8. EditsNumbered'
  <2>1. pass.mark <= edits /\ \A k \in Schedules : row[k].edit <= edits
    BY DEF ScheduleInv, EditsNumbered
  <2>2. \A k \in Schedules : row'[k].edit <= edits'
    BY <1>1, <1>t, <1>2, <1>q, <2>1
  <2>3. pass.mark <= edits' /\ pass.mark # edits + 1
    BY <1>1, <1>t, <2>1
  <2>4. pass.at = "enqueue" => pass.cur \in Schedules
    BY DEF ScheduleInv, PassCurrent
  <2>5. ASSUME pass.at = "enqueue", pass.mark = row'[pass.cur].edit
        PROVE  pass.cur # s /\ StillFirable(pass.cur) /\ row[pass.cur].budget = pass.budget
               /\ row'[pass.cur] = row[pass.cur]
    <3>1. pass.cur # s
      BY <1>2, <1>q, <2>3, <2>5
    <3>2. row'[pass.cur] = row[pass.cur]
      BY <1>2, <2>4, <2>5, <3>1
    <3> QED
      BY <2>5, <3>1, <3>2 DEF ScheduleInv, EditsNumbered
  <2> QED
    BY <1>1, <2>2, <2>3, <2>5 DEF EditsNumbered, StillFirable
<1> QED
  BY <1>3, <1>4, <1>5, <1>6, <1>7, <1>8, Assembled

\* The edits of the routes.
LEMMA RoutesSafe ==
    ASSUME ScheduleInv, NEW s \in Schedules,
           CreateSchedule(s) \/ SetEnabled(s) \/ SetBudget(s) \/ DeleteSchedule(s)
    PROVE  ScheduleInv'
<1>t. row[s] \in Row /\ clock \in Times
  BY DEF ScheduleInv, TypeOK
<1>1. CASE CreateSchedule(s)
  <2> DEFINE r == [row[s] EXCEPT !.state = "live", !.created = clock]
  <2>1. row[s].state = "none" /\ Edit(s, r)
    BY <1>1 DEF CreateSchedule
  <2>2. r \in Row /\ r.state = "live" /\ r.created = clock
        /\ r.lastRun = row[s].lastRun /\ r.lastSkip = row[s].lastSkip
    BY <1>t DEF Row
  <2> HIDE DEF r
  <2>3. Reference(r) = clock
    BY <2>1, <2>2, ReferenceBounds DEF ScheduleInv, PassCurrent
  <2> QED
    BY <2>1, <2>2, <2>3, EditSafe
<1>2. CASE SetEnabled(s)
  <2> DEFINE r == [row[s] EXCEPT !.enabled = ~@]
  <2>1. row[s].state = "live" /\ Edit(s, r)
    BY <1>2 DEF SetEnabled
  <2>2. r \in Row /\ r.state = row[s].state /\ r.created = row[s].created
        /\ r.lastRun = row[s].lastRun /\ r.lastSkip = row[s].lastSkip
    BY <1>t DEF Row
  <2> HIDE DEF r
  <2>3. Reference(r) = Reference(row[s])
    BY <2>2 DEF Reference
  <2> QED
    BY <2>1, <2>2, <2>3, EditSafe
<1>3. CASE SetBudget(s)
  <2>b. PICK b \in Budgets : Edit(s, [row[s] EXCEPT !.budget = b]) /\ row[s].state = "live"
    BY <1>3 DEF SetBudget
  <2> DEFINE r == [row[s] EXCEPT !.budget = b]
  <2>1. row[s].state = "live" /\ Edit(s, r)
    BY <2>b
  <2>2. r \in Row /\ r.state = row[s].state /\ r.created = row[s].created
        /\ r.lastRun = row[s].lastRun /\ r.lastSkip = row[s].lastSkip
    BY <1>t DEF Row
  <2> HIDE DEF r
  <2>3. Reference(r) = Reference(row[s])
    BY <2>2 DEF Reference
  <2> QED
    BY <2>1, <2>2, <2>3, EditSafe
<1>4. CASE DeleteSchedule(s)
  <2> DEFINE r == [row[s] EXCEPT !.state = "gone"]
  <2>1. row[s].state = "live" /\ Edit(s, r)
    BY <1>4 DEF DeleteSchedule
  <2>2. r \in Row /\ r.state = "gone" /\ r.created = row[s].created
        /\ r.lastRun = row[s].lastRun /\ r.lastSkip = row[s].lastSkip
    BY <1>t DEF Row
  <2> HIDE DEF r
  <2>3. Reference(r) = Reference(row[s])
    BY <2>2 DEF Reference
  <2> QED
    BY <2>1, <2>2, <2>3, EditSafe
<1> QED
  BY <1>1, <1>2, <1>3, <1>4

\* A run changes its status: it answers for what it did, and no new run holds the slot.
LEMMA SetRunSafe ==
    ASSUME ScheduleInv, NEW s \in Schedules, NEW i \in DOMAIN runs[s], NEW r \in Run,
           SetRun(s, i, r), r.answers = runs[s][i].answers,
           \/ r.status \notin {"open", "waiting"} \/ r.retried
           \/ runs[s][i].status \in {"open", "waiting"} /\ ~runs[s][i].retried
    PROVE  ScheduleInv'
<1>1. /\ runs' = [runs EXCEPT ![s] = [runs[s] EXCEPT ![i] = r]]
      /\ UNCHANGED <<clock, row, fit, retired, lastPass, pass, edits, faults, offered>>
  BY DEF SetRun
<1>t. runs \in [Schedules -> Seq(Run)] /\ runs[s] \in Seq(Run) /\ Len(runs[s]) <= MaxRuns
  BY DEF ScheduleInv, TypeOK
<1>2. /\ [runs[s] EXCEPT ![i] = r] \in Seq(Run)
      /\ Len([runs[s] EXCEPT ![i] = r]) = Len(runs[s])
      /\ DOMAIN [runs[s] EXCEPT ![i] = r] = DOMAIN runs[s]
  BY <1>t
<1>3. /\ runs' \in [Schedules -> Seq(Run)] /\ runs'[s] = [runs[s] EXCEPT ![i] = r]
      /\ \A k \in Schedules : k # s => runs'[k] = runs[k]
  BY <1>1, <1>2, <1>t
<1>4. ASSUME NEW k \in Schedules
      PROVE  /\ Len(runs'[k]) = Len(runs[k]) /\ DOMAIN runs'[k] = DOMAIN runs[k]
             /\ \A j \in DOMAIN runs[k] : runs'[k][j].answers = runs[k][j].answers
             /\ \A j \in DOMAIN runs[k] : runs'[k][j] = runs[k][j] \/ (k = s /\ j = i /\ runs'[k][j] = r)
  BY <1>2, <1>3
<1>5. TypeOK'
  BY <1>1, <1>3, <1>4 DEF ScheduleInv, TypeOK
<1>6. \A k \in Schedules : Unsettled(k)' \subseteq Unsettled(k)
  BY <1>4 DEF Unsettled
<1>7. SlotGuarded'
  <2>1. pass.at \in {"reread", "enqueue"} => pass.cur \in Schedules
    BY DEF ScheduleInv, PassCurrent
  <2>2. \A k \in Schedules : Unsettled(k)' \subseteq {Len(runs'[k])}
    BY <1>4, <1>6 DEF ScheduleInv, SlotGuarded
  <2>3. pass.at \in {"reread", "enqueue"} => Unsettled(pass.cur)' = {}
    BY <1>1, <1>6, <2>1 DEF ScheduleInv, SlotGuarded
  <2> QED
    BY <1>1, <2>2, <2>3 DEF SlotGuarded
<1>a. Ahead' = Ahead
  BY <1>1 DEF Ahead
<1>8. PassCurrent'
  <2>1. ASSUME NEW k \in Schedules, row[k].state = "none"
        PROVE  runs'[k] = <<>>
    <3>1. runs[k] = <<>>
      BY <2>1 DEF ScheduleInv, PassCurrent
    <3>2. k # s
      BY <3>1
    <3> QED
      BY <1>3, <3>1, <3>2
  <2> QED
    BY <1>1, <1>a, <2>1 DEF ScheduleInv, PassCurrent, Cutoff
<1>9. FiringsCharged'
  <2>1. \A k \in Schedules, f \in Times : Answering(k, f)' = Answering(k, f)
    BY <1>4 DEF Answering
  <2>2. \A k \in Schedules : \A j \in DOMAIN runs'[k] : \A f \in runs'[k][j].answers :
           f <= IF pass.at = "idle" THEN clock ELSE pass.now
    BY <1>4 DEF ScheduleInv, FiringsCharged
  <2> QED
    BY <1>1, <1>a, <2>1, <2>2 DEF ScheduleInv, FiringsCharged
<1>10. LeftDueWasOffered' /\ EditsNumbered'
  BY <1>1, <1>a DEF ScheduleInv, LeftDueWasOffered, EditsNumbered, StillFirable
<1> QED
  BY <1>5, <1>7, <1>8, <1>9, <1>10, Assembled

LEMMA RunsSafe ==
    ASSUME ScheduleInv, NEW s \in Schedules, RunSettles(s) \/ RunAnswered(s) \/ RunRetried(s)
    PROVE  ScheduleInv'
<1>t. \A i \in DOMAIN runs[s] : runs[s][i] \in Run
  BY DEF ScheduleInv, TypeOK
<1>1. CASE RunSettles(s)
  <2>1. PICK i \in DOMAIN runs[s], to \in {"done", "failed", "waiting"} :
           runs[s][i].status = "open" /\ SetRun(s, i, [runs[s][i] EXCEPT !.status = to])
    BY <1>1 DEF RunSettles
  <2> DEFINE r == [runs[s][i] EXCEPT !.status = to]
  <2>2. r \in Run /\ r.answers = runs[s][i].answers /\ r.retried = runs[s][i].retried
        /\ runs[s][i].retried \in BOOLEAN
    BY <1>t DEF Run
  <2>3. SetRun(s, i, r)
    BY <2>1
  <2> HIDE DEF r
  <2> QED
    BY <2>1, <2>2, <2>3, SetRunSafe
<1>2. CASE RunAnswered(s)
  <2>1. PICK i \in DOMAIN runs[s] :
           runs[s][i].status = "waiting" /\ SetRun(s, i, [runs[s][i] EXCEPT !.status = "open"])
    BY <1>2 DEF RunAnswered
  <2> DEFINE r == [runs[s][i] EXCEPT !.status = "open"]
  <2>2. r \in Run /\ r.answers = runs[s][i].answers /\ r.retried = runs[s][i].retried
        /\ runs[s][i].retried \in BOOLEAN
    BY <1>t DEF Run
  <2>3. SetRun(s, i, r)
    BY <2>1
  <2> HIDE DEF r
  <2> QED
    BY <2>1, <2>2, <2>3, SetRunSafe
<1>3. CASE RunRetried(s)
  <2>1. PICK i \in DOMAIN runs[s] :
           SetRun(s, i, [runs[s][i] EXCEPT !.status = "open", !.retried = TRUE])
    BY <1>3 DEF RunRetried
  <2> DEFINE r == [runs[s][i] EXCEPT !.status = "open", !.retried = TRUE]
  <2>2. r \in Run /\ r.answers = runs[s][i].answers /\ r.retried
    BY <1>t DEF Run
  <2>3. SetRun(s, i, r)
    BY <2>1
  <2> HIDE DEF r
  <2> QED
    BY <2>2, <2>3, SetRunSafe
<1> QED
  BY <1>1, <1>2, <1>3

-----------------------------------------------------------------------------
(* The invariant, and what follows from it *)

LEMMA InitSafe == Init => ScheduleInv
<1> SUFFICES ASSUME Init PROVE ScheduleInv
  OBVIOUS
<1>1. PICK skip \in [Schedules -> BOOLEAN], there \in SUBSET Schedules :
         row = [s \in Schedules |-> [Blank EXCEPT !.skip = skip[s],
                                                  !.state = IF s \in there THEN "live" ELSE "none"]]
  BY DEF Init
<1>2. /\ clock = 0 /\ lastPass = Never /\ pass = Idle /\ edits = 0 /\ faults = 0
      /\ runs = [s \in Schedules |-> <<>>] /\ offered = [s \in Schedules |-> {}]
      /\ fit = [s \in Schedules |-> TRUE] /\ retired = [s \in Schedules |-> FALSE]
  BY DEF Init
<1>3. ASSUME NEW s \in Schedules
      PROVE  /\ row[s] \in Row /\ row[s].edit = 0
             /\ row[s].lastRun = Never /\ row[s].lastSkip = Never
  <2>1. row[s] = [Blank EXCEPT !.skip = skip[s], !.state = IF s \in there THEN "live" ELSE "none"]
    BY <1>1
  <2>2. /\ Blank \in Row /\ Blank.edit = 0 /\ Blank.lastRun = Never /\ Blank.lastSkip = Never
    BY BlankTyped DEF Blank
  <2> QED
    BY <2>1, <2>2 DEF Row
<1>4. row \in [Schedules -> Row]
  BY <1>1, <1>3
<1>5. /\ pass \in PassState /\ pass.at = "idle" /\ pass.now = 0 /\ pass.todo = {} /\ pass.mark = 0
  BY <1>2, BlankTyped DEF Idle
<1>6. TypeOK
  BY <1>2, <1>4, <1>5, SchedulerAssumption DEF TypeOK, Times
<1>a. Ahead = {}
  BY <1>5 DEF Ahead
<1>7. \A s \in Schedules : Unsettled(s) = {} /\ Cardinality(Unsettled(s)) = 0
  BY <1>2, FS_EmptySet DEF Unsettled
<1>8. RunsDoNotStack /\ SlotGuarded
  BY <1>5, <1>7 DEF RunsDoNotStack, SlotGuarded
<1>9. PassCurrent
  BY <1>2, <1>3, <1>5, <1>a DEF PassCurrent, Never
<1>10. \A s \in Schedules, f \in Times : Answering(s, f) = {} /\ Cardinality(Answering(s, f)) = 0
  BY <1>2, FS_EmptySet DEF Answering
<1>11. FiringsCharged
  BY <1>2, <1>10 DEF FiringsCharged
<1>12. LeftDueWasOffered /\ EditsNumbered
  BY <1>2, <1>3, <1>5, <1>a DEF LeftDueWasOffered, EditsNumbered
<1> QED
  BY <1>6, <1>8, <1>9, <1>11, <1>12 DEF ScheduleInv

LEMMA NextSafe ==
    ASSUME ScheduleInv, [Next]_vars
    PROVE  ScheduleInv'
<1>t. lastPass \in Times \cup {Never} /\ fit \in [Schedules -> BOOLEAN]
  BY DEF ScheduleInv, TypeOK
<1>1. CASE PassStep
  <2>1. CASE PassEnds
    BY <1>t, <2>1, IdleSafe DEF PassEnds
  <2> QED
    BY <1>1, <2>1, PassBeginSafe, AdmitSafe, RereadSafe, EnqueueSafe, TouchSafe, RecordSkipSafe
    DEF PassStep
<1>2. CASE PassLost
  BY <1>t, <1>2, IdleSafe DEF PassLost, Fault
<1>3. CASE Restart
  BY <1>3, IdleSafe DEF Restart, Fault
<1>4. CASE StepFails \/ Tick
  BY <1>4, StepFailsSafe, TickSafe
<1>5. ASSUME NEW s \in Schedules,
             \/ CreateSchedule(s) \/ SetEnabled(s) \/ SetBudget(s) \/ DeleteSchedule(s)
             \/ SetRetired(s) \/ RunSettles(s) \/ RunAnswered(s) \/ RunRetried(s)
      PROVE  ScheduleInv'
  BY <1>5, RoutesSafe, SetRetiredSafe, RunsSafe
<1>6. CASE UNCHANGED vars
  <2>1. TypeOK'
    BY <1>6 DEF ScheduleInv, TypeOK, vars
  <2>2. SlotGuarded' /\ PassCurrent'
    BY <1>6 DEF ScheduleInv, SlotGuarded, Unsettled, PassCurrent, Ahead, Cutoff, vars
  <2>3. FiringsCharged'
    BY <1>6 DEF ScheduleInv, FiringsCharged, Answering, Ahead, vars
  <2>4. LeftDueWasOffered' /\ EditsNumbered'
    BY <1>6 DEF ScheduleInv, LeftDueWasOffered, Ahead, EditsNumbered, StillFirable, vars
  <2> QED
    BY <2>1, <2>2, <2>3, <2>4, Assembled
<1> QED
  BY <1>1, <1>2, <1>3, <1>4, <1>5, <1>6 DEF Next

\* The schedules and their runs stay as ScheduleInv says, whatever an operator edits, a run
\* does, or a pass leaves half done when a statement fails or the process restarts.
THEOREM ScheduleInvariant == Spec => []ScheduleInv
BY InitSafe, NextSafe, PTL DEF Spec

\* A firing is enqueued once, and once more only for each failure that the scheduler or
\* its process met: enqueue and touch_schedule are two statements.
THEOREM FiringRunsOnceAlways == Spec => []FiringRunsOnce
<1>1. ScheduleInv => FiringRunsOnce
  BY DEF ScheduleInv, FiringsCharged, FiringRunsOnce
<1> QED
  BY <1>1, ScheduleInvariant, PTL

\* At the step that decides a row, the skip policy calls missed only what an earlier pass
\* had in hand, or what was older than the grace at boot.
THEOREM MissedHadItsChanceAlways == Spec => []MissedHadItsChance
<1>1. ASSUME ScheduleInv PROVE MissedHadItsChance
  <2> SUFFICES ASSUME pass.at = "step",
                      NEW f \in Missed(pass.cur, pass.snap[pass.cur], pass.now, pass.cutoff)
               PROVE  f \in offered[pass.cur] \/ (lastPass = Never /\ f <= pass.now - Grace)
    BY DEF MissedHadItsChance
  <2>1. pass.cur \in Schedules /\ pass.cutoff = Cutoff(pass.now) /\ pass.cur \in Ahead
    BY <1>1 DEF ScheduleInv, PassCurrent, Ahead
  <2>2. /\ f \in Fires[pass.cur] /\ f > Reference(pass.snap[pass.cur]) /\ f <= pass.cutoff
    BY DEF Missed, Pending
  <2>3. CASE lastPass = Never
    BY <2>1, <2>2, <2>3 DEF Cutoff
  <2>4. CASE lastPass # Never
    BY <1>1, <2>1, <2>2, <2>4 DEF Cutoff, ScheduleInv, LeftDueWasOffered
  <2> QED
    BY <2>3, <2>4
<1> QED
  BY <1>1, ScheduleInvariant, PTL

\* No other step than Enqueue adds a run.
LEMMA OnlyEnqueueAdds ==
    ASSUME ScheduleInv, [Next]_vars, NEW s \in Schedules, Len(runs'[s]) > Len(runs[s])
    PROVE  Enqueue
<1>t. runs \in [Schedules -> Seq(Run)] /\ Len(runs[s]) \in Nat
  BY DEF ScheduleInv, TypeOK
<1>1. ASSUME NEW k \in Schedules, NEW i \in DOMAIN runs[k], NEW r, SetRun(k, i, r)
      PROVE  FALSE
  <2>1. runs' = [runs EXCEPT ![k] = [runs[k] EXCEPT ![i] = r]]
    BY <1>1 DEF SetRun
  <2>2. DOMAIN [runs[k] EXCEPT ![i] = r] = DOMAIN runs[k]
    OBVIOUS
  <2>3. Len([runs[k] EXCEPT ![i] = r]) = Len(runs[k])
    BY <1>t, <2>2
  <2> QED
    BY <1>t, <2>1, <2>3
<1>2. ~ UNCHANGED runs
  BY <1>t
<1>3. ASSUME NEW k \in Schedules
      PROVE  ~(RunSettles(k) \/ RunAnswered(k) \/ RunRetried(k))
  BY <1>1 DEF RunSettles, RunAnswered, RunRetried
<1>4. ASSUME NEW k \in Schedules
      PROVE  ~(\/ CreateSchedule(k) \/ SetEnabled(k) \/ SetBudget(k) \/ DeleteSchedule(k)
               \/ SetRetired(k))
  BY <1>2 DEF CreateSchedule, SetEnabled, SetBudget, DeleteSchedule, SetRetired, Edit
<1>5. ~(PassBegin \/ Admit \/ Reread \/ Touch \/ RecordSkip \/ PassEnds \/ StepFails
        \/ PassLost \/ Tick \/ Restart \/ UNCHANGED vars)
  BY <1>2 DEF PassBegin, Admit, Reread, Touch, RecordSkip, PassEnds, StepFails, PassLost,
              Tick, Restart, vars
<1> QED
  BY <1>3, <1>4, <1>5 DEF Next, PassStep

\* A run is enqueued only for the row as the operator last left it, unless the edit came
\* between the fire-time re-read and the insert.
THEOREM EditAlwaysHonoured == Spec => EditHonoured
<1>1. ASSUME ScheduleInv, [Next]_vars, NEW s \in Schedules,
             Len(runs'[s]) > Len(runs[s]), pass.mark = row[s].edit
      PROVE  /\ row[s].state = "live" /\ row[s].enabled
             /\ Last(runs'[s]).budget = row[s].budget
  <2>1. Enqueue
    BY <1>1, OnlyEnqueueAdds
  <2>t. runs \in [Schedules -> Seq(Run)] /\ Len(runs[s]) \in Nat /\ runs[s] \in Seq(Run)
    BY <1>1 DEF ScheduleInv, TypeOK
  <2> DEFINE r == [status |-> "open", retried |-> FALSE,
                   answers |-> OnTime(pass.cur, pass.snap[pass.cur], pass.now, pass.cutoff),
                   budget |-> pass.budget]
  <2>2. runs' = [runs EXCEPT ![pass.cur] = Append(@, r)] /\ pass.at = "enqueue"
    BY <2>1 DEF Enqueue
  <2>3. r.budget = pass.budget
    OBVIOUS
  <2> HIDE DEF r
  <2>4. s = pass.cur /\ runs'[s] = Append(runs[s], r)
    BY <1>1, <2>t, <2>2
  <2>5. Last(Append(runs[s], r)) = r
    <3> DEFINE q == runs[s]
    <3>1. q \in Seq(Run)
      BY <2>t
    <3> HIDE DEF q
    <3>2. Len(Append(q, r)) = Len(q) + 1 /\ Append(q, r)[Len(q) + 1] = r
      BY <3>1
    <3> QED
      BY <3>2 DEF Last, q
  <2> QED
    BY <1>1, <2>2, <2>3, <2>4, <2>5 DEF ScheduleInv, EditsNumbered, StillFirable
<1>2. ASSUME ScheduleInv, [Next]_vars
      PROVE  [\A s \in Schedules :
                (Len(runs'[s]) > Len(runs[s]) /\ pass.mark = row[s].edit)
                    => /\ row[s].state = "live" /\ row[s].enabled
                       /\ Last(runs'[s]).budget = row[s].budget]_vars
  BY <1>1, <1>2
<1> QED
  BY <1>2, ScheduleInvariant, PTL DEF Spec, EditHonoured
=============================================================================

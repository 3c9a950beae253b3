--------------------------- MODULE WorkflowProofs ---------------------------
(***************************************************************************)
(* Machine-checked proofs about Workflow.  Every step but the seed moves    *)
(* cells forward only: an open cell is claimed or closed, a closed one      *)
(* stays.  So what an activation read of the closed cells is still true     *)
(* when it acts, however long ago it read, and a claim is won once.         *)
(***************************************************************************)
EXTENDS Workflow, FiniteSetTheorems, WellFoundedInduction, TLAPS

-----------------------------------------------------------------------------
(* The least number, and the sum of a ledger *)

\* The least element of a set of numbers.
LEMMA MinNat ==
    ASSUME NEW S \in SUBSET Nat, S # {}
    PROVE  Min(S) \in S /\ \A x \in S : Min(S) <= x
<1> DEFINE R == OpToRel(<, Nat)
<1>1. IsWellFoundedOn(R, Nat)
  BY NatLessThanWellFounded
<1>2. PICK m \in S : \A y \in S : <<y, m>> \notin R
  <2> HIDE DEF R
  <2> QED
    BY <1>1, WFMin
<1>3. ASSUME NEW y \in S PROVE m <= y
  <2>1. <<y, m>> \notin R
    BY <1>2
  <2>2. y < m => <<y, m>> \in R
    BY DEF OpToRel
  <2> HIDE DEF R
  <2> QED
    BY <2>1, <2>2
<1> QED
  BY <1>3 DEF Min

\* The element that a fold takes out of a set first.
One(s) == CHOOSE x \in s : TRUE

\* What a sum over the subsets of S is, on those of at most n elements.
Small(S, n) == {s \in SUBSET S : Cardinality(s) <= n}
Sums(g, f, T) ==
    /\ g \in [T -> Nat]
    /\ \A s \in T : g[s] = IF s = {} THEN 0 ELSE f[One(s)] + g[s \ {One(s)}]

\* The recursion of the fold has a solution, by the least size at which it would not.
LEMMA SumExists ==
    ASSUME NEW S, IsFiniteSet(S), NEW f \in [S -> Nat]
    PROVE  \A n \in Nat : \E g : Sums(g, f, Small(S, n))
<1> DEFINE Bad == {n \in Nat : ~ \E g : Sums(g, f, Small(S, n))}
<1>f. ASSUME NEW s \in SUBSET S
      PROVE  /\ Cardinality(s) \in Nat
             /\ Cardinality(s) = 0 <=> s = {}
             /\ s # {} => /\ One(s) \in s /\ One(s) \in S /\ s \ {One(s)} \in SUBSET S
                          /\ Cardinality(s \ {One(s)}) = Cardinality(s) - 1
  <2>1. IsFiniteSet(s)
    BY FS_Subset
  <2>2. s # {} => One(s) \in s
    BY DEF One
  <2> QED
    BY <2>1, <2>2, FS_CardinalityType, FS_EmptySet, FS_RemoveElement
<1> SUFFICES ASSUME Bad # {} PROVE FALSE
  OBVIOUS
<1>1. PICK m \in Bad : \A n \in Bad : m <= n
  BY MinNat
<1>2. m # 0
  <2>0. Cardinality({}) = 0
    BY FS_EmptySet
  <2>1. Small(S, 0) = {{}}
    <3>1. ASSUME NEW s \in Small(S, 0) PROVE s = {}
      <4>1. s \in SUBSET S /\ Cardinality(s) <= 0
        BY DEF Small
      <4>2. Cardinality(s) \in Nat /\ (Cardinality(s) = 0 => s = {})
        BY <1>f, <4>1, Zenon
      <4>3. Cardinality(s) = 0
        BY <4>1, <4>2
      <4> QED
        BY <4>2, <4>3
    <3>2. {} \in Small(S, 0)
      BY <2>0 DEF Small
    <3> QED
      BY <3>1, <3>2
  <2>2. Sums([s \in {{}} |-> 0], f, {{}})
    BY DEF Sums
  <2> QED
    BY <2>1, <2>2
<1>3. m - 1 \in Nat /\ m - 1 \notin Bad
  BY <1>1, <1>2
<1>4. PICK g : Sums(g, f, Small(S, m - 1))
  BY <1>3
<1> DEFINE v(s) == IF s = {} THEN 0 ELSE f[One(s)] + g[s \ {One(s)}]
           h == [s \in Small(S, m) |-> v(s)]
<1>5. ASSUME NEW s \in Small(S, m)
      PROVE  /\ v(s) \in Nat /\ s \in SUBSET S
             /\ s # {} => s \ {One(s)} \in Small(S, m - 1)
             /\ s \in Small(S, m - 1) => v(s) = g[s]
  <2>0. s \in SUBSET S /\ Cardinality(s) <= m
    BY DEF Small
  <2>1. s # {} => s \ {One(s)} \in Small(S, m - 1)
    BY <1>f, <2>0 DEF Small
  <2>2. s # {} => g[s \ {One(s)}] \in Nat /\ f[One(s)] \in Nat
    BY <1>4, <1>f, <2>0, <2>1 DEF Sums
  <2> QED
    BY <1>4, <2>0, <2>1, <2>2 DEF Sums
<1>6. Sums(h, f, Small(S, m))
  <2>1. h \in [Small(S, m) -> Nat]
    BY <1>5
  <2>2. ASSUME NEW s \in Small(S, m), s # {}
        PROVE  s \ {One(s)} \in Small(S, m) /\ h[s \ {One(s)}] = g[s \ {One(s)}]
    <3>1. s \ {One(s)} \in Small(S, m - 1)
      BY <1>5, <2>2
    <3>2. s \ {One(s)} \in Small(S, m)
      <4> DEFINE t == s \ {One(s)}
      <4>1. t \in SUBSET S /\ Cardinality(t) <= m - 1
        BY <3>1 DEF Small
      <4>2. Cardinality(t) \in Nat
        BY <4>1, <1>f
      <4> HIDE DEF t
      <4>3. t \in Small(S, m)
        BY <4>1, <4>2, <1>3 DEF Small
      <4> QED
        BY <4>3 DEF t
    <3> HIDE DEF v
    <3> QED
      BY <3>1, <3>2, <1>5
  <2> QED
    BY <2>1, <2>2 DEF Sums
<1> QED
  BY <1>6

\* So the fold unfolds, and what it adds up is a number.
LEMMA SumTyped ==
    ASSUME NEW S, IsFiniteSet(S), NEW f \in [S -> Nat]
    PROVE  MapThenSumSet(LAMBDA x : f[x], S) \in Nat
<1> DEFINE it == CHOOSE g : g = [s \in SUBSET S |->
                    IF s = {} THEN 0
                    ELSE f[CHOOSE x \in s : TRUE] + g[s \ {CHOOSE x \in s : TRUE}]]
<1>1. MapThenSumSet(LAMBDA x : f[x], S) = it[S]
  BY Zenon DEF MapThenSumSet, MapThenFoldSet
<1>2. Cardinality(S) \in Nat
  BY FS_CardinalityType
<1>3. PICK g : Sums(g, f, Small(S, Cardinality(S)))
  BY <1>2, SumExists
<1>4. Small(S, Cardinality(S)) = SUBSET S
  BY FS_Subset DEF Small
<1>5. g = [s \in SUBSET S |->
             IF s = {} THEN 0
             ELSE f[CHOOSE x \in s : TRUE] + g[s \ {CHOOSE x \in s : TRUE}]]
  BY <1>3, <1>4 DEF Sums, One
<1>6. it = [s \in SUBSET S |->
             IF s = {} THEN 0
             ELSE f[CHOOSE x \in s : TRUE] + it[s \ {CHOOSE x \in s : TRUE}]]
  BY <1>5, Zenon
<1> DEFINE Bad == {n \in Nat : \E s \in SUBSET S : Cardinality(s) = n /\ it[s] \notin Nat}
<1> HIDE DEF it
<1>7. Bad = {}
  <2> SUFFICES ASSUME Bad # {} PROVE FALSE
    OBVIOUS
  <2>1. PICK m \in Bad : \A n \in Bad : m <= n
    BY MinNat
  <2>2. PICK s \in SUBSET S : Cardinality(s) = m /\ it[s] \notin Nat
    BY <2>1
  <2>3. s # {} /\ it[s] = f[One(s)] + it[s \ {One(s)}]
    BY <1>6, <2>2 DEF One
  <2>4. One(s) \in s /\ One(s) \in S /\ s \ {One(s)} \in SUBSET S
    BY <2>3 DEF One
  <2>5. IsFiniteSet(s)
    BY FS_Subset
  <2>6. Cardinality(s \ {One(s)}) = m - 1 /\ Cardinality(s \ {One(s)}) \in Nat
    BY <2>2, <2>4, <2>5, FS_RemoveElement, FS_CardinalityType
  <2>7. m - 1 \notin Bad
    BY <2>1
  <2>8. it[s \ {One(s)}] \in Nat
    BY <2>4, <2>6, <2>7
  <2> QED
    BY <2>2, <2>3, <2>4, <2>8
<1> QED
  BY <1>1, <1>2, <1>7

-----------------------------------------------------------------------------
(* Steps that move cells forward *)

\* What is inductive: RunInv without JoinFiresOnce, which follows, and with VerdictHonest.
Ind ==
    /\ TypeOK /\ CellsSeeded /\ StartsClaimed /\ ReadingsHold /\ SkipsCaused
    /\ BarrierRespected /\ VerdictHonest

Starting(d) == drivers[d].pc \in {"claimed", "linking"}
Unclaimed == {"absent", "pending"}

\* A cell stays, or is open and leaves for a state that is not `pending`.
CellsForward ==
    /\ cells' \in [Steps -> StepState \cup {"absent"}]
    /\ \A s \in Steps : \/ cells'[s] = cells[s]
                        \/ cells[s] \in OpenState /\ cells'[s] \in StepState \ {"pending"}

\* The run has been seeded.
Live ==
    /\ \A s \in Steps : cells[s] # "absent"
    /\ drivers[0].pc # "seed" /\ run.status # "none"

\* What the row of an activation has to say when it is written.
ReadingGood(r, cs) ==
    r.pc \in {"skip", "ready", "claimed", "linking"} =>
      /\ \A s \in Steps : /\ r.states[s] # "absent"
                          /\ r.states[s] \notin OpenState => cs[s] = r.states[s]
      /\ r.todo \subseteq IF r.pc = "skip" THEN CascadeSkips(r.states) ELSE ReadySteps(r.states)

LEMMA DriverTyped ==
    ASSUME TypeOK, NEW d \in Drivers
    PROVE  /\ drivers[d] \in Driver /\ drivers[d].todo \subseteq Steps
           /\ drivers[d].todo # {} => Current(d) \in drivers[d].todo /\ Current(d) \in Steps
<1>1. drivers[d] \in Driver /\ drivers[d].todo \subseteq Steps
  BY DEF TypeOK, Driver
<1> QED
  BY <1>1, MinNat, WorkflowAssumption DEF Current

\* An activation under way, or a job, tells that the run was seeded.
LEMMA LiveDriver ==
    ASSUME Ind, NEW d \in Drivers, drivers[d].pc \notin {"idle", "seed"}
    PROVE  Live
BY WorkflowAssumption DEF Ind, CellsSeeded, Live, Drivers

LEMMA LiveJob ==
    ASSUME Ind, NEW s \in Steps, job[s] # "none"
    PROVE  Live
<1>1. cells[s] # "absent"
  BY DEF Ind, StartsClaimed
<1> QED
  BY <1>1 DEF Ind, CellsSeeded, Live

LEMMA SeededKept ==
    ASSUME Ind, Live, CellsForward, NEW d \in Drivers, NEW r \in Driver,
           drivers' = [drivers EXCEPT ![d] = r], r.pc # "seed", run'.status # "none"
    PROVE  CellsSeeded'
<1>1. \A s \in Steps : cells'[s] # "absent"
  BY DEF Live, CellsForward, StepState, BadEnding, OpenState
<1>2. drivers \in [Drivers -> Driver] /\ drivers'[d] = r
      /\ \A c \in Drivers : c # d => drivers'[c] = drivers[c]
  BY DEF Ind, TypeOK
<1>3. \A c \in Drivers : drivers'[c].pc # "seed"
  BY <1>2 DEF Ind, CellsSeeded, Live
<1>4. 0 \in Drivers
  BY DEF Drivers
<1> QED
  BY <1>1, <1>3, <1>4 DEF CellsSeeded

LEMMA ReadingsKept ==
    ASSUME Ind, CellsForward, NEW d \in Drivers, NEW r \in Driver,
           drivers' = [drivers EXCEPT ![d] = r], ReadingGood(r, cells')
    PROVE  ReadingsHold'
<1>2. drivers'[d] = r /\ \A c \in Drivers : c # d => drivers'[c] = drivers[c]
  BY DEF Ind, TypeOK
<1>3. ASSUME NEW c \in Drivers, c # d
      PROVE  ReadingGood(drivers[c], cells')
  <2>1. ReadingGood(drivers[c], cells)
    BY DEF Ind, ReadingsHold, ReadingGood
  <2>2. \A s \in Steps : cells[s] \notin OpenState => cells'[s] = cells[s]
    BY DEF CellsForward
  <2> QED
    BY <2>1, <2>2 DEF ReadingGood
<1>4. \A c \in Drivers : ReadingGood(drivers'[c], cells')
  BY <1>2, <1>3
<1> QED
  BY <1>4 DEF ReadingsHold, ReadingGood

LEMMA ClaimsKept ==
    ASSUME Ind, CellsForward, NEW d \in Drivers, NEW r \in Driver,
           drivers' = [drivers EXCEPT ![d] = r],
           \A s \in Steps : s \in link' \/ job'[s] # "none" =>
              s \in link \/ job[s] # "none" \/ cells[s] \notin Unclaimed,
           \A c \in Drivers : c # d /\ Starting(c) => Current(c) \notin link',
           \A s \in hooks' : job'[s] \in JobEnded,
           r.pc \in {"claimed", "linking"} =>
              /\ r.todo # {} /\ cells'[Min(r.todo)] \notin Unclaimed /\ Min(r.todo) \notin link'
              /\ \A c \in Drivers : c # d /\ Starting(c) => Current(c) # Min(r.todo),
           canceller'.pc = "cell" => canceller'.todo # {}
    PROVE  StartsClaimed'
<1>1. drivers'[d] = r /\ \A c \in Drivers : c # d => drivers'[c] = drivers[c]
  BY DEF Ind, TypeOK
<1>2. \A s \in Steps : cells[s] \notin Unclaimed => cells'[s] \notin Unclaimed
  BY DEF CellsForward, Unclaimed, StepState, OpenState, BadEnding
<1>3. \A s \in Steps : s \in link' \/ job'[s] # "none" => cells'[s] \notin Unclaimed
  BY <1>2 DEF Ind, StartsClaimed, Unclaimed
<1>4. ASSUME NEW c \in Drivers, c # d, Starting(c)
      PROVE  /\ drivers'[c].todo # {} /\ Min(drivers'[c].todo) = Current(c)
             /\ cells'[Current(c)] \notin Unclaimed /\ Current(c) \notin link'
             /\ \A b \in Drivers : Starting(b) /\ Current(b) = Current(c) => b = c
  <2>1. drivers[c].todo # {} /\ cells[Current(c)] \notin Unclaimed
        /\ \A b \in Drivers : Starting(b) /\ Current(b) = Current(c) => b = c
    BY <1>4 DEF Ind, StartsClaimed, Starting, Unclaimed
  <2>2. Current(c) \in Steps
    BY <2>1, DriverTyped DEF Ind
  <2> QED
    BY <1>1, <1>2, <1>4, <2>1, <2>2 DEF Current
<1>5. ASSUME NEW c \in Drivers, drivers'[c].pc \in {"claimed", "linking"}
      PROVE  /\ drivers'[c].todo # {} /\ cells'[Min(drivers'[c].todo)] \notin Unclaimed
             /\ Min(drivers'[c].todo) \notin link'
             /\ \A b \in Drivers :
                  (drivers'[b].pc \in {"claimed", "linking"}
                     /\ Min(drivers'[b].todo) = Min(drivers'[c].todo)) => b = c
  <2>1. CASE c = d
    <3>1. ASSUME NEW b \in Drivers, b # d, drivers'[b].pc \in {"claimed", "linking"}
          PROVE  Min(drivers'[b].todo) # Min(r.todo)
      <4>1. Starting(b)
        BY <1>1, <3>1 DEF Starting
      <4> QED
        BY <1>1, <1>4, <1>5, <2>1, <3>1, <4>1
    <3> QED
      BY <1>1, <1>5, <2>1, <3>1
  <2>2. CASE c # d
    <3>1. Starting(c)
      BY <1>1, <1>5, <2>2 DEF Starting
    <3>2. ASSUME NEW b \in Drivers, b # c, drivers'[b].pc \in {"claimed", "linking"}
          PROVE  Min(drivers'[b].todo) # Min(drivers'[c].todo)
      <4>1. CASE b = d
        BY <1>1, <1>4, <2>2, <3>1, <3>2, <4>1
      <4>2. CASE b # d
        <5>1. Starting(b)
          BY <1>1, <3>2, <4>2 DEF Starting
        <5> QED
          BY <1>4, <2>2, <3>1, <3>2, <4>2, <5>1
      <4> QED
        BY <4>1, <4>2
    <3> QED
      BY <1>4, <2>2, <3>1, <3>2
  <2> QED
    BY <2>1, <2>2
<1> QED
  BY <1>3, <1>5 DEF StartsClaimed, Current, Unclaimed

\* Closed cells stay, so do barriers that were passed, causes of skips and verdicts.
LEMMA ClosedKept ==
    ASSUME Ind, CellsForward, run' = run \/ run'.by # "verdict",
           \A s \in Steps : job'[s] # "none" =>
              job[s] # "none" \/ \A dep \in After[s] : cells[dep] = "succeeded",
           \A s \in Steps : OnFailure = "continue" /\ cells'[s] = "skipped" =>
              cells[s] = "skipped" \/ After[s] \cap EndedBadly(cells) # {}
    PROVE  BarrierRespected' /\ SkipsCaused' /\ VerdictHonest'
<1>1. \A s \in Steps : cells[s] \notin OpenState => cells'[s] = cells[s]
  BY DEF CellsForward
<1>2. \A s \in Steps : After[s] \subseteq Steps
  BY WorkflowAssumption
<1>3. BarrierRespected'
  BY <1>1, <1>2 DEF Ind, BarrierRespected, OpenState
<1>4. SkipsCaused'
  <2>1. EndedBadly(cells) \subseteq EndedBadly(cells')
    BY <1>1 DEF EndedBadly, BadEnding, OpenState
  <2> QED
    BY <2>1 DEF Ind, SkipsCaused
<1>5. VerdictHonest'
  <2>1. run'.by = "verdict" => run' = run /\ \A s \in Steps : cells'[s] = cells[s]
    BY <1>1 DEF Ind, VerdictHonest
  <2> QED
    BY <2>1 DEF Ind, VerdictHonest
<1> QED
  BY <1>3, <1>4, <1>5

\* A step of a seeded run keeps the invariant when what it claims, links and writes is good.
LEMMA MoveSafe ==
    ASSUME Ind, TypeOK', Live, CellsForward, NEW d \in Drivers, NEW r \in Driver,
           drivers' = [drivers EXCEPT ![d] = r], r.pc # "seed", run'.status # "none",
           run' = run \/ run'.by # "verdict",
           \A s \in Steps : s \in link' \/ job'[s] # "none" =>
              s \in link \/ job[s] # "none" \/ cells[s] \notin Unclaimed,
           \A c \in Drivers : c # d /\ Starting(c) => Current(c) \notin link',
           \A s \in hooks' : job'[s] \in JobEnded,
           r.pc \in {"claimed", "linking"} =>
              /\ r.todo # {} /\ cells'[Min(r.todo)] \notin Unclaimed /\ Min(r.todo) \notin link'
              /\ \A c \in Drivers : c # d /\ Starting(c) => Current(c) # Min(r.todo),
           canceller'.pc = "cell" => canceller'.todo # {},
           ReadingGood(r, cells'),
           \A s \in Steps : job'[s] # "none" =>
              job[s] # "none" \/ \A dep \in After[s] : cells[dep] = "succeeded",
           \A s \in Steps : OnFailure = "continue" /\ cells'[s] = "skipped" =>
              cells[s] = "skipped" \/ After[s] \cap EndedBadly(cells) # {}
    PROVE  Ind'
<1>1. CellsSeeded'
  BY SeededKept
<1>2. StartsClaimed'
  BY ClaimsKept
<1>3. ReadingsHold'
  BY ReadingsKept
<1>4. BarrierRespected' /\ SkipsCaused' /\ VerdictHonest'
  BY ClosedKept
<1> QED
  BY <1>1, <1>2, <1>3, <1>4 DEF Ind

\* The facts of a state that most steps hand on unchanged.
LEMMA Standing ==
    ASSUME Ind
    PROVE  /\ \A c \in Drivers : Starting(c) => Current(c) \notin link
           /\ \A s \in hooks : job[s] \in JobEnded
           /\ canceller.pc = "cell" => canceller.todo # {}
           /\ \A c \in Drivers : ReadingGood(drivers[c], cells)
           /\ \A c \in Drivers : Starting(c) =>
                /\ drivers[c].todo # {} /\ cells[Current(c)] \notin Unclaimed
                /\ \A b \in Drivers : Starting(b) /\ Current(b) = Current(c) => b = c
           /\ cells \in [Steps -> StepState \cup {"absent"}]
BY DEF Ind, TypeOK, StartsClaimed, ReadingsHold, ReadingGood, Starting, Unclaimed

LEMMA CellsStand ==
    ASSUME Ind, UNCHANGED cells
    PROVE  CellsForward
BY DEF Ind, TypeOK, CellsForward

\* A guarded finish moves forward, and no cell is skipped but the one it skips.
LEMMA FinishForward ==
    ASSUME Ind, NEW s \in Steps, NEW to \in StepState \ {"pending"}, FinishStep(s, to)
    PROVE  /\ CellsForward
           /\ \A k \in Steps : cells'[k] = "skipped" =>
                cells[k] = "skipped" \/ (k = s /\ to = "skipped")
<1>1. cells \in [Steps -> StepState \cup {"absent"}]
  BY DEF Ind, TypeOK
<1>2. CASE cells[s] \in OpenState
  <2>1. cells' = [cells EXCEPT ![s] = to]
    BY <1>2 DEF FinishStep
  <2> QED
    BY <1>1, <1>2, <2>1 DEF CellsForward
<1>3. CASE cells[s] \notin OpenState
  BY <1>1, <1>3 DEF FinishStep, CellsForward
<1> QED
  BY <1>2, <1>3

\* An activation moves and touches no job, no link and no run.
LEMMA DriverMoves ==
    ASSUME Ind, NEW d \in Drivers, NEW r \in Driver, drivers' = [drivers EXCEPT ![d] = r],
           UNCHANGED <<run, plan, link, jobside, canceller, crashes>>, spent' \in Nat,
           drivers[d].pc \notin {"idle", "seed"}, r.pc # "seed", CellsForward,
           \A s \in Steps : OnFailure = "continue" /\ cells'[s] = "skipped" =>
              cells[s] = "skipped" \/ After[s] \cap EndedBadly(cells) # {},
           ReadingGood(r, cells'),
           r.pc \in {"claimed", "linking"} =>
              /\ r.todo # {} /\ cells'[Min(r.todo)] \notin Unclaimed /\ Min(r.todo) \notin link
              /\ \A c \in Drivers : c # d /\ Starting(c) => Current(c) # Min(r.todo)
    PROVE  Ind'
<1>1. Live
  BY LiveDriver
<1>2. TypeOK'
  <2>1. drivers' \in [Drivers -> Driver] /\ cells' \in [Steps -> StepState \cup {"absent"}]
    BY DEF Ind, TypeOK, CellsForward
  <2> QED
    BY <2>1 DEF Ind, TypeOK, jobside
<1>3. UNCHANGED <<run, link, job, hooks, canceller>>
  BY DEF jobside
<1>4. run'.status # "none"
  BY <1>1, <1>3 DEF Live
<1>5. /\ \A c \in Drivers : c # d /\ Starting(c) => Current(c) \notin link'
      /\ \A s \in hooks' : job'[s] \in JobEnded
      /\ canceller'.pc = "cell" => canceller'.todo # {}
  BY <1>3, Standing
<1>6. /\ \A s \in Steps : s \in link' \/ job'[s] # "none" =>
              s \in link \/ job[s] # "none" \/ cells[s] \notin Unclaimed
      /\ \A s \in Steps : job'[s] # "none" =>
              job[s] # "none" \/ \A dep \in After[s] : cells[dep] = "succeeded"
  BY <1>3
<1>7. r.pc \in {"claimed", "linking"} =>
         /\ r.todo # {} /\ cells'[Min(r.todo)] \notin Unclaimed /\ Min(r.todo) \notin link'
         /\ \A c \in Drivers : c # d /\ Starting(c) => Current(c) # Min(r.todo)
  BY <1>3
<1>8. run' = run \/ run'.by # "verdict"
  BY <1>3
<1> QED
  BY <1>1, <1>2, <1>4, <1>5, <1>6, <1>7, <1>8, MoveSafe

-----------------------------------------------------------------------------
(* advance *)

LEMMA IdleTyped == Idle \in Driver /\ Idle.pc = "idle"
BY DEF Idle, Driver

LEMMA IdleReads == \A cs : ReadingGood(Idle, cs)
BY IdleTyped DEF ReadingGood

LEMMA ReturnMoves ==
    ASSUME Ind, NEW d \in Drivers, Return(d), drivers[d].pc \notin {"idle", "seed"},
           UNCHANGED <<run, plan, cells, link, jobside, spent, canceller, crashes>>
    PROVE  Ind'
<1>1. drivers' = [drivers EXCEPT ![d] = Idle] /\ spent' \in Nat
  BY DEF Return, Ind, TypeOK
<1>2. CellsForward /\ \A s \in Steps : cells'[s] = "skipped" => cells[s] = "skipped"
  BY CellsStand
<1> QED
  BY <1>1, <1>2, IdleTyped, IdleReads, DriverMoves

\* An activation ends and closes the run with what holds of the cells.
LEMMA ClosingMoves ==
    ASSUME Ind, NEW d \in Drivers, Return(d), drivers[d].pc \notin {"idle", "seed"},
           NEW status \in {"succeeded", "failed", "cancelled"}, NEW by \in {"verdict", "deleted", "stale"},
           FinishRun(status, by),
           UNCHANGED <<plan, cells, link, jobside, spent, canceller, crashes>>,
           by = "verdict" =>
              /\ \A s \in Steps : cells[s] \notin OpenState
              /\ status = "succeeded" <=> \A s \in Steps : cells[s] = "succeeded"
              /\ status = "cancelled" => \A s \in Steps : cells[s] \in {"succeeded", "cancelled"}
    PROVE  Ind'
<1>0. Live
  BY LiveDriver
<1>1. drivers' = [drivers EXCEPT ![d] = Idle] /\ UNCHANGED <<link, job, hooks, canceller, cells>>
  BY DEF Return, jobside
<1>2. CellsForward
  BY <1>1, CellsStand
<1>3. run' = run \/ run' = [status |-> status, by |-> by]
  BY DEF FinishRun
<1>4. run'.status # "none" /\ run' \in [status : {"none", "running", "succeeded", "failed", "cancelled"},
                                        by : {"", "verdict", "deleted", "stale", "cancel"}]
  <2>1. run.status # "none" /\ run \in [status : {"none", "running", "succeeded", "failed", "cancelled"},
                                       by : {"", "verdict", "deleted", "stale", "cancel"}]
    BY <1>0 DEF Live, Ind, TypeOK
  <2>2. CASE run' = [status |-> status, by |-> by]
    BY <2>2
  <2> QED
    BY <1>3, <2>1, <2>2
<1>5. TypeOK'
  <2>1. drivers' \in [Drivers -> Driver]
    BY <1>1, IdleTyped DEF Ind, TypeOK
  <2> QED
    BY <1>4, <2>1 DEF Ind, TypeOK, jobside
<1>6. CellsSeeded'
  BY <1>0, <1>1, <1>2, <1>4, IdleTyped, SeededKept
<1>7. StartsClaimed'
  BY <1>1, <1>2, IdleTyped, Standing, ClaimsKept
<1>8. ReadingsHold'
  BY <1>1, <1>2, IdleTyped, IdleReads, ReadingsKept
<1>9. BarrierRespected' /\ SkipsCaused'
  BY <1>1 DEF Ind, BarrierRespected, SkipsCaused, EndedBadly
<1>10. VerdictHonest'
  <2>1. CASE run' = run
    BY <1>1, <2>1 DEF Ind, VerdictHonest
  <2>2. CASE run' = [status |-> status, by |-> by]
    <3>1. run'.status = status /\ run'.by = by
      BY <2>2
    <3> QED
      BY <1>1, <3>1 DEF VerdictHonest
  <2> QED
    BY <1>3, <2>1, <2>2
<1> QED
  BY <1>5, <1>6, <1>7, <1>8, <1>9, <1>10 DEF Ind

LEMMA AdvanceReadsSafe ==
    ASSUME Ind, NEW d \in Drivers, AdvanceReads(d)
    PROVE  Ind'
<1>1. CASE run.status # "running" /\ Return(d) /\ UNCHANGED run
  BY <1>1, ReturnMoves DEF AdvanceReads
<1>2. CASE plan # "valid" /\ FinishRun("failed", plan) /\ Return(d)
  <2>1. plan \in {"deleted", "stale"} /\ "failed" \in {"succeeded", "failed", "cancelled"}
    BY <1>2 DEF Ind, TypeOK
  <2>2. /\ drivers[d].pc \notin {"idle", "seed"}
        /\ UNCHANGED <<plan, cells, link, jobside, spent, canceller, crashes>>
    BY DEF AdvanceReads
  <2> QED
    BY <1>2, <2>1, <2>2, ClosingMoves
<1>3. CASE drivers' = [drivers EXCEPT ![d].pc = "rows", ![d].spent = spent] /\ UNCHANGED run
  <2> DEFINE r == [drivers[d] EXCEPT !.pc = "rows", !.spent = spent]
  <2>1. drivers' = [drivers EXCEPT ![d] = r]
    BY <1>3
  <2>0. drivers[d] \in Driver /\ spent \in Nat
    BY DriverTyped DEF Ind, TypeOK
  <2>2. r \in Driver /\ r.pc = "rows"
    BY <2>0 DEF Driver
  <2> HIDE DEF r
  <2>3. /\ UNCHANGED <<run, plan, cells, link, jobside, canceller, crashes>> /\ spent' \in Nat
        /\ drivers[d].pc \notin {"idle", "seed"}
    BY <1>3 DEF AdvanceReads, Ind, TypeOK
  <2>4. CellsForward /\ \A s \in Steps : cells'[s] = "skipped" => cells[s] = "skipped"
    BY <2>3, CellsStand
  <2>5. ReadingGood(r, cells')
    BY <2>2 DEF ReadingGood
  <2> QED
    BY <2>1, <2>2, <2>3, <2>4, <2>5, DriverMoves
<1> QED
  BY <1>1, <1>2, <1>3 DEF AdvanceReads

LEMMA AdvanceDecidesSafe ==
    ASSUME Ind, NEW d \in Drivers, AdvanceDecides(d)
    PROVE  Ind'
<1>0. /\ drivers[d].pc = "rows"
      /\ UNCHANGED <<run, plan, cells, link, jobside, canceller, crashes>>
      /\ spent' = spent /\ spent \in Nat
  BY DEF AdvanceDecides, tables, Ind, TypeOK
<1>1. CASE drivers[d].rounds >= RoundLimit
  <2>1. Return(d)
    BY <1>1 DEF AdvanceDecides
  <2> QED
    BY <1>0, <2>1, ReturnMoves
<1>2. CASE ~(drivers[d].rounds >= RoundLimit)
  <2> DEFINE skips == CascadeSkips(cells)
             ready == ReadySteps(cells)
             pc == IF skips # {} THEN "skip" ELSE "ready"
             todo == IF skips # {} THEN skips ELSE ready
             q == [drivers[d] EXCEPT !.pc = pc, !.states = cells]
             r == [q EXCEPT !.todo = todo, !.did = {}, !.rounds = drivers[d].rounds + 1]
  <2>1. drivers' = [drivers EXCEPT ![d] = r]
    BY <1>2 DEF AdvanceDecides
  <2>2. skips \subseteq Steps /\ ReadySteps(cells) \subseteq Steps
    BY DEF CascadeSkips, ReadySteps
  <2>3. drivers[d] \in Driver /\ cells \in [Steps -> StepState \cup {"absent"}]
    BY DriverTyped DEF Ind, TypeOK
  <2>4. /\ r \in Driver /\ r.pc \in {"skip", "ready"} /\ r.states = cells
        /\ r.todo = IF r.pc = "skip" THEN CascadeSkips(cells) ELSE ReadySteps(cells)
    <3>1. /\ todo \subseteq Steps /\ pc \in {"skip", "ready"}
          /\ todo = IF pc = "skip" THEN CascadeSkips(cells) ELSE ReadySteps(cells)
      BY <2>2
    <3> HIDE DEF pc, todo
    <3>2. q \in Driver /\ q.pc = pc /\ q.states = cells
      <4>1. PICK x \in Driver : x = drivers[d]
        BY <2>3
      <4>2. PICK states \in [Steps -> StepState \cup {"absent"}] : states = cells
        BY <2>3
      <4>3. PICK at \in {"skip", "ready"} : at = pc
        BY <3>1
      <4> DEFINE y == [x EXCEPT !.states = states]
                 z == [y EXCEPT !.pc = at]
      <4>y. y \in Driver /\ y.states = states
        BY <4>1, <4>2 DEF Driver
      <4> HIDE DEF y
      <4>4. z \in Driver /\ z.pc = at /\ z.states = states
        BY <4>3, <4>y DEF Driver
      <4>5. q = z
        BY <4>1, <4>2, <4>3 DEF y, Driver
      <4> HIDE DEF q, z
      <4> QED
        BY <4>2, <4>3, <4>4, <4>5, Zenon
    <3>r. drivers[d].rounds + 1 \in Nat
      BY <2>3 DEF Driver
    <3> HIDE DEF q
    <3>3. r \in Driver /\ r.pc = pc /\ r.states = cells /\ r.todo = todo
      BY <3>1, <3>2, <3>r DEF Driver
    <3> QED
      BY <3>1, <3>3
  <2> HIDE DEF r
  <2>5. CellsForward /\ \A s \in Steps : cells'[s] = "skipped" => cells[s] = "skipped"
    BY <1>0, CellsStand
  <2>6. \A s \in Steps : cells[s] # "absent"
    BY <1>0 DEF Ind, CellsSeeded
  <2>7. ReadingGood(r, cells')
    BY <1>0, <2>4, <2>6 DEF ReadingGood
  <2> QED
    BY <1>0, <2>1, <2>4, <2>5, <2>7, DriverMoves
<1> QED
  BY <1>1, <1>2

\* A step that is skipped under `continue` has its cause in the cells, as in the reading.
LEMMA SkipStepSafe ==
    ASSUME Ind, NEW d \in Drivers, SkipStep(d)
    PROVE  Ind'
<1>s. PICK s \in Steps : s = Current(d) /\ s \in drivers[d].todo
  BY DriverTyped DEF SkipStep, Ind
<1>0. /\ drivers[d].pc = "skip" /\ FinishStep(s, "skipped")
      /\ UNCHANGED <<run, plan, link, jobside, canceller, crashes>>
      /\ spent' = spent /\ spent \in Nat
  BY <1>s DEF SkipStep, Ind, TypeOK
<1> DEFINE r == [drivers[d] EXCEPT
                   !.todo = @ \ {s},
                   !.did = IF cells[s] \in OpenState THEN @ \cup {"skipped"} ELSE @]
<1>1. drivers' = [drivers EXCEPT ![d] = r]
  BY <1>s DEF SkipStep
<1>2. /\ r \in Driver /\ r.pc = "skip" /\ r.states = drivers[d].states
      /\ r.todo = drivers[d].todo \ {s}
  BY <1>0, DriverTyped DEF Ind, Driver
<1> HIDE DEF r
<1>3. /\ CellsForward
      /\ \A k \in Steps : cells'[k] = "skipped" => cells[k] = "skipped" \/ k = s
  BY <1>0, FinishForward DEF StepState, BadEnding
<1>4. ReadingGood(drivers[d], cells)
  BY Standing
<1>5. ReadingGood(r, cells')
  <2>1. \A k \in Steps : cells[k] \notin OpenState => cells'[k] = cells[k]
    BY <1>3 DEF CellsForward
  <2> QED
    BY <1>0, <1>2, <1>4, <2>1 DEF ReadingGood
<1>6. OnFailure = "continue" => After[s] \cap EndedBadly(cells) # {}
  <2>1. s \in CascadeSkips(drivers[d].states)
    BY <1>0, <1>s, <1>4 DEF ReadingGood
  <2>2. EndedBadly(drivers[d].states) \subseteq EndedBadly(cells)
    BY <1>0, <1>4 DEF ReadingGood, EndedBadly, BadEnding, OpenState
  <2> QED
    BY <2>1, <2>2 DEF CascadeSkips
<1> QED
  BY <1>0, <1>1, <1>2, <1>3, <1>5, <1>6, DriverMoves

LEMMA SkipsDoneSafe ==
    ASSUME Ind, NEW d \in Drivers, SkipsDone(d)
    PROVE  Ind'
<1>0. /\ drivers[d].pc = "skip" /\ drivers[d] \in Driver
      /\ UNCHANGED <<run, plan, cells, link, jobside, canceller, crashes>>
      /\ spent' = spent /\ spent \in Nat
  BY DriverTyped DEF SkipsDone, tables, Ind, TypeOK
<1>1. CellsForward /\ \A s \in Steps : cells'[s] = "skipped" => cells[s] = "skipped"
  BY <1>0, CellsStand
<1>2. CASE drivers' = [drivers EXCEPT ![d].pc = "read"]
  <2> DEFINE r == [drivers[d] EXCEPT !.pc = "read"]
  <2>1. drivers' = [drivers EXCEPT ![d] = r] /\ r \in Driver /\ r.pc = "read"
    BY <1>0, <1>2 DEF Driver
  <2> HIDE DEF r
  <2>2. ReadingGood(r, cells')
    BY <2>1 DEF ReadingGood
  <2> QED
    BY <1>0, <1>1, <2>1, <2>2, DriverMoves
<1>3. CASE drivers' = [drivers EXCEPT ![d].pc = "ready", ![d].todo = ReadySteps(drivers[d].states)]
  <2> DEFINE ready == ReadySteps(drivers[d].states)
             r == [drivers[d] EXCEPT !.pc = "ready", !.todo = ready]
  <2>1. drivers' = [drivers EXCEPT ![d] = r]
    BY <1>3
  <2>2. ready \subseteq Steps
    BY DEF ReadySteps
  <2>3. r \in Driver /\ r.pc = "ready" /\ r.states = drivers[d].states /\ r.todo = ready
    <3> HIDE DEF ready
    <3> QED
      BY <1>0, <2>2 DEF Driver
  <2> HIDE DEF r
  <2>4. ReadingGood(r, cells')
    BY <1>0, <2>3, Standing DEF ReadingGood
  <2> QED
    BY <1>0, <1>1, <2>1, <2>3, <2>4, DriverMoves
<1> QED
  BY <1>2, <1>3 DEF SkipsDone

\* The step could not be created: the cell fails if it is open, the activation goes on.
LEMMA FailStepSafe ==
    ASSUME Ind, NEW d \in Drivers, NEW s \in Steps, s = Current(d), FailStep(d, s),
           drivers[d].pc \in {"ready", "claimed", "linking"},
           UNCHANGED <<run, plan, link, jobside, spent, canceller, crashes>>
    PROVE  Ind'
<1>1. /\ CellsForward
      /\ \A k \in Steps : cells'[k] = "skipped" => cells[k] = "skipped"
  BY FinishForward DEF FailStep, StepState, BadEnding
<1> DEFINE todo == drivers[d].todo \ {s}
           did == IF cells[s] \in OpenState THEN drivers[d].did \cup {"failed"} ELSE drivers[d].did
           r == [drivers[d] EXCEPT !.pc = "ready", !.todo = todo, !.did = did]
<1>2. drivers' = [drivers EXCEPT ![d] = r]
  BY DEF FailStep
<1>3. r \in Driver /\ r.pc = "ready" /\ r.states = drivers[d].states /\ r.todo = drivers[d].todo \ {s}
  <2>1. drivers[d] \in Driver
    BY DriverTyped DEF Ind
  <2>2. todo \subseteq Steps /\ did \subseteq {"skipped", "failed", "enqueued"}
    BY <2>1 DEF Driver
  <2>3. todo = drivers[d].todo \ {s}
    OBVIOUS
  <2> HIDE DEF todo, did
  <2> QED
    BY <2>1, <2>2, <2>3 DEF Driver
<1> HIDE DEF r
<1>4. ReadingGood(r, cells')
  <2>1. \A k \in Steps : cells[k] \notin OpenState => cells'[k] = cells[k]
    BY <1>1 DEF CellsForward
  <2>2. ReadingGood(drivers[d], cells)
    BY Standing
  <2> QED
    BY <1>3, <2>1, <2>2 DEF ReadingGood
<1>5. spent' \in Nat /\ drivers[d].pc \notin {"idle", "seed"}
  BY DEF Ind, TypeOK
<1> QED
  BY <1>1, <1>2, <1>3, <1>4, <1>5, DriverMoves

LEMMA RefuseStepSafe ==
    ASSUME Ind, NEW d \in Drivers, RefuseStep(d)
    PROVE  Ind'
<1>1. PICK s \in Steps : s = Current(d)
  BY DriverTyped DEF RefuseStep, Ind
<1> QED
  BY <1>1, FailStepSafe DEF RefuseStep

\* A starting activation has something in hand.
LEMMA EnqueueFailsSafe ==
    ASSUME Ind, NEW d \in Drivers, EnqueueFails(d)
    PROVE  Ind'
<1>1. drivers[d].todo # {}
  BY DEF EnqueueFails, Ind, StartsClaimed
<1>2. PICK s \in Steps : s = Current(d)
  BY <1>1, DriverTyped DEF Ind
<1> QED
  BY <1>2, FailStepSafe DEF EnqueueFails

\* The claim is won on a pending cell: nobody else is starting it, and it has no job.
LEMMA StartStepSafe ==
    ASSUME Ind, NEW d \in Drivers, StartStep(d)
    PROVE  Ind'
<1>s. PICK s \in Steps : s = Current(d) /\ s \in drivers[d].todo
  BY DriverTyped DEF StartStep, Ind
<1>0. /\ drivers[d].pc = "ready" /\ cells[s] = "pending" /\ cells' = [cells EXCEPT ![s] = "queued"]
      /\ UNCHANGED <<run, plan, link, jobside, canceller, crashes>>
      /\ spent' = spent /\ spent \in Nat /\ drivers[d] \in Driver
      /\ cells \in [Steps -> StepState \cup {"absent"}]
  BY <1>s, DriverTyped DEF StartStep, ClaimStep, Ind, TypeOK
<1> DEFINE r == [drivers[d] EXCEPT !.pc = "claimed"]
<1>1. drivers' = [drivers EXCEPT ![d] = r]
  BY DEF StartStep, Goto
<1>2. /\ r \in Driver /\ r.pc = "claimed" /\ r.states = drivers[d].states
      /\ r.todo = drivers[d].todo
  BY <1>0 DEF Driver
<1> HIDE DEF r
<1>3. /\ CellsForward
      /\ \A k \in Steps : cells'[k] = "skipped" => cells[k] = "skipped"
  BY <1>0 DEF CellsForward, StepState, OpenState
<1>4. ReadingGood(r, cells')
  <2>1. \A k \in Steps : cells[k] \notin OpenState => cells'[k] = cells[k]
    BY <1>3 DEF CellsForward
  <2>2. ReadingGood(drivers[d], cells)
    BY Standing
  <2> QED
    BY <1>0, <1>2, <2>1, <2>2 DEF ReadingGood
<1>5. Min(r.todo) = s
  BY <1>s, <1>2 DEF Current
<1>6. /\ r.todo # {} /\ cells'[s] \notin Unclaimed /\ s \notin link
      /\ \A c \in Drivers : c # d /\ Starting(c) => Current(c) # s
  <2>1. cells'[s] = "queued"
    BY <1>0
  <2>2. s \notin link
    BY <1>0 DEF Ind, StartsClaimed
  <2>3. \A c \in Drivers : Starting(c) => Current(c) # s
    BY <1>0, Standing DEF Unclaimed
  <2> QED
    BY <1>s, <1>2, <2>1, <2>2, <2>3 DEF Unclaimed
<1> QED
  BY <1>0, <1>1, <1>2, <1>3, <1>4, <1>5, <1>6, DriverMoves

LEMMA StepTakenSafe ==
    ASSUME Ind, NEW d \in Drivers, StepTaken(d)
    PROVE  Ind'
<1>s. PICK s \in Steps : s = Current(d)
  BY DriverTyped DEF StepTaken, Ind
<1>0. /\ drivers[d].pc = "ready" /\ drivers[d] \in Driver
      /\ UNCHANGED <<run, plan, cells, link, jobside, canceller, crashes>>
      /\ spent' = spent /\ spent \in Nat
  BY DriverTyped DEF StepTaken, tables, Ind, TypeOK
<1> DEFINE r == [drivers[d] EXCEPT !.todo = @ \ {s}]
<1>1. drivers' = [drivers EXCEPT ![d] = r]
  BY <1>s DEF StepTaken
<1>2. /\ r \in Driver /\ r.pc = "ready" /\ r.states = drivers[d].states
      /\ r.todo = drivers[d].todo \ {s}
  BY <1>0 DEF Driver
<1> HIDE DEF r
<1>3. CellsForward /\ \A k \in Steps : cells'[k] = "skipped" => cells[k] = "skipped"
  BY <1>0, CellsStand
<1>4. ReadingGood(r, cells')
  BY <1>0, <1>2, Standing DEF ReadingGood
<1> QED
  BY <1>0, <1>1, <1>2, <1>3, <1>4, DriverMoves

\* The job of a step is created after the barrier, as the reading saw it.
LEMMA EnqueueJobSafe ==
    ASSUME Ind, NEW d \in Drivers, EnqueueJob(d)
    PROVE  Ind'
<1>0. drivers[d].pc = "claimed" /\ Starting(d) /\ drivers[d].todo # {} /\ drivers[d] \in Driver
      /\ Live
  BY DriverTyped, LiveDriver DEF EnqueueJob, Starting, Ind, StartsClaimed
<1>s. PICK s \in Steps : s = Current(d) /\ s \in drivers[d].todo
  BY <1>0, DriverTyped DEF Ind
<1>1. /\ job' = [job EXCEPT ![s] = IF @ = "none" THEN "queued" ELSE @]
      /\ grant' = [grant EXCEPT ![s] =
                IF job[s] = "none" THEN StepBudget(drivers[d].spent) ELSE @]
      /\ UNCHANGED <<run, plan, cells, link, cost, stopping, hooks, spent, canceller, crashes>>
  BY <1>s DEF EnqueueJob, tables
<1>t. /\ job \in [Steps -> JobEnded \cup {"none", "queued", "running"}]
      /\ grant \in [Steps -> Nat] /\ Envelope \in Nat /\ drivers[d].spent \in Nat
  BY <1>0, WorkflowAssumption DEF Ind, TypeOK, Driver
<1>j. /\ job' \in [Steps -> JobEnded \cup {"none", "queued", "running"}]
      /\ \A k \in Steps : job'[k] # "none" => job[k] # "none" \/ k = s
      /\ \A k \in Steps : job[k] # "none" => job'[k] = job[k]
  BY <1>1, <1>t
<1>g. grant' \in [Steps -> Nat]
  <2>1. StepBudget(drivers[d].spent) \in Nat
    BY <1>t DEF StepBudget
  <2> QED
    BY <1>1, <1>t, <2>1
<1> DEFINE r == [drivers[d] EXCEPT !.pc = "linking"]
<1>2. drivers' = [drivers EXCEPT ![d] = r]
  BY DEF EnqueueJob, Goto
<1>3. /\ r \in Driver /\ r.pc = "linking" /\ r.states = drivers[d].states
      /\ r.todo = drivers[d].todo
  BY <1>0 DEF Driver
<1> HIDE DEF r
<1>4. CellsForward /\ \A k \in Steps : cells'[k] = "skipped" => cells[k] = "skipped"
  BY <1>1, CellsStand
<1>5. ReadingGood(drivers[d], cells) /\ ReadingGood(r, cells')
  BY <1>0, <1>1, <1>3, Standing DEF ReadingGood
<1>6. cells[s] \notin Unclaimed /\ s \notin link
      /\ \A c \in Drivers : c # d /\ Starting(c) => Current(c) # s
  BY <1>s, <1>0, Standing
<1>7. \A dep \in After[s] : cells[dep] = "succeeded"
  <2>1. s \in ReadySteps(drivers[d].states)
    BY <1>0, <1>s, <1>5 DEF ReadingGood
  <2>2. After[s] \subseteq Steps
    BY WorkflowAssumption
  <2> QED
    BY <1>0, <1>5, <2>1, <2>2 DEF ReadySteps, ReadingGood, OpenState
<1>8. TypeOK'
  <2>1. drivers' \in [Drivers -> Driver]
    BY <1>2, <1>3 DEF Ind, TypeOK
  <2> QED
    BY <1>1, <1>j, <1>g, <2>1 DEF Ind, TypeOK
<1>9. /\ \A k \in hooks' : job'[k] \in JobEnded
      /\ canceller'.pc = "cell" => canceller'.todo # {}
      /\ \A c \in Drivers : c # d /\ Starting(c) => Current(c) \notin link'
  <2>1. \A k \in hooks : job[k] \in JobEnded /\ k \in Steps
    BY DEF Ind, StartsClaimed, TypeOK
  <2>2. \A k \in hooks' : job'[k] \in JobEnded
    BY <1>1, <1>j, <2>1 DEF JobEnded
  <2> QED
    BY <1>1, <2>2, Standing
<1>10. Min(r.todo) = s /\ r.todo # {} /\ cells'[s] \notin Unclaimed /\ s \notin link'
  BY <1>s, <1>0, <1>1, <1>3, <1>6 DEF Current
<1>11. /\ \A k \in Steps : k \in link' \/ job'[k] # "none" =>
              k \in link \/ job[k] # "none" \/ cells[k] \notin Unclaimed
       /\ \A k \in Steps : job'[k] # "none" =>
              job[k] # "none" \/ \A dep \in After[k] : cells[dep] = "succeeded"
  BY <1>1, <1>j, <1>6, <1>7
<1>12. run' = run /\ run'.status # "none"
  BY <1>0, <1>1 DEF Live
<1> QED
  BY <1>0, <1>2, <1>3, <1>4, <1>5, <1>6, <1>8, <1>9, <1>10, <1>11, <1>12, MoveSafe

LEMMA LinkJobSafe ==
    ASSUME Ind, NEW d \in Drivers, LinkJob(d)
    PROVE  Ind'
<1>0. drivers[d].pc = "linking" /\ Starting(d) /\ drivers[d].todo # {} /\ drivers[d] \in Driver
      /\ Live
  BY DriverTyped, LiveDriver DEF LinkJob, Starting, Ind, StartsClaimed
<1>s. PICK s \in Steps : s = Current(d) /\ s \in drivers[d].todo
  BY <1>0, DriverTyped DEF Ind
<1>1. /\ link' = link \cup {s}
      /\ UNCHANGED <<run, plan, cells, job, cost, grant, stopping, hooks, spent, canceller, crashes>>
  BY <1>s DEF LinkJob, jobside
<1> DEFINE todo == drivers[d].todo \ {s}
           did == drivers[d].did \cup {"enqueued"}
           r == [drivers[d] EXCEPT !.pc = "ready", !.todo = todo, !.did = did]
<1>2. drivers' = [drivers EXCEPT ![d] = r]
  BY <1>s DEF LinkJob
<1>3. r \in Driver /\ r.pc = "ready" /\ r.states = drivers[d].states /\ r.todo = drivers[d].todo \ {s}
  <2>1. todo \subseteq Steps /\ did \subseteq {"skipped", "failed", "enqueued"}
    BY <1>0 DEF Driver
  <2>2. todo = drivers[d].todo \ {s}
    OBVIOUS
  <2> HIDE DEF todo, did
  <2> QED
    BY <1>0, <2>1, <2>2 DEF Driver
<1> HIDE DEF r
<1>4. CellsForward /\ \A k \in Steps : cells'[k] = "skipped" => cells[k] = "skipped"
  BY <1>1, CellsStand
<1>5. ReadingGood(r, cells')
  BY <1>0, <1>1, <1>3, Standing DEF ReadingGood
<1>6. cells[s] \notin Unclaimed /\ \A c \in Drivers : c # d /\ Starting(c) => Current(c) # s
  BY <1>s, <1>0, Standing
<1>7. TypeOK'
  <2>1. drivers' \in [Drivers -> Driver] /\ link' \subseteq Steps
    BY <1>1, <1>2, <1>3 DEF Ind, TypeOK
  <2> QED
    BY <1>1, <2>1 DEF Ind, TypeOK
<1>8. /\ \A k \in hooks' : job'[k] \in JobEnded
      /\ canceller'.pc = "cell" => canceller'.todo # {}
      /\ \A c \in Drivers : c # d /\ Starting(c) => Current(c) \notin link'
  BY <1>1, <1>6, Standing
<1>9. /\ \A k \in Steps : k \in link' \/ job'[k] # "none" =>
              k \in link \/ job[k] # "none" \/ cells[k] \notin Unclaimed
      /\ \A k \in Steps : job'[k] # "none" =>
              job[k] # "none" \/ \A dep \in After[k] : cells[dep] = "succeeded"
  BY <1>1, <1>6
<1>10. run' = run /\ run'.status # "none"
  BY <1>0, <1>1 DEF Live
<1> QED
  BY <1>0, <1>2, <1>3, <1>4, <1>5, <1>7, <1>8, <1>9, <1>10, MoveSafe

\* An activation with nothing to start and nothing open in its reading closes the run
\* with a verdict on cells that are all closed by then.
LEMMA RoundEndsSafe ==
    ASSUME Ind, NEW d \in Drivers, RoundEnds(d)
    PROVE  Ind'
<1>0. /\ drivers[d].pc = "ready" /\ drivers[d] \in Driver
      /\ UNCHANGED <<plan, cells, link, jobside, spent, canceller, crashes>> /\ spent' \in Nat
  BY DriverTyped DEF RoundEnds, Ind, TypeOK
<1>1. CASE Goto(d, "read") /\ UNCHANGED run
  <2> DEFINE r == [drivers[d] EXCEPT !.pc = "read"]
  <2>1. drivers' = [drivers EXCEPT ![d] = r] /\ r \in Driver /\ r.pc = "read"
    BY <1>0, <1>1 DEF Driver, Goto
  <2> HIDE DEF r
  <2>2. ReadingGood(r, cells')
    BY <2>1 DEF ReadingGood
  <2>3. CellsForward /\ \A k \in Steps : cells'[k] = "skipped" => cells[k] = "skipped"
    BY <1>0, CellsStand
  <2> QED
    BY <1>0, <1>1, <2>1, <2>2, <2>3, DriverMoves
<1>2. CASE Return(d) /\ UNCHANGED run
  BY <1>0, <1>2, ReturnMoves
<1>3. CASE /\ Return(d) /\ RunVerdict(drivers[d].states) # "running"
           /\ FinishRun(RunVerdict(drivers[d].states), "verdict")
  <2> DEFINE status == RunVerdict(drivers[d].states)
  <2>1. \A s \in Steps : drivers[d].states[s] \notin OpenState
    BY <1>3 DEF RunVerdict
  <2>2. \A s \in Steps : cells[s] = drivers[d].states[s] /\ cells[s] # "absent"
                         /\ cells[s] \in StepState \cup {"absent"}
    BY <1>0, <2>1, Standing DEF ReadingGood
  <2>3. /\ status \in {"succeeded", "failed", "cancelled"}
        /\ status = "succeeded" <=> \A s \in Steps : cells[s] = "succeeded"
        /\ status = "cancelled" => \A s \in Steps : cells[s] \in {"succeeded", "cancelled"}
    BY <1>3, <2>1, <2>2 DEF RunVerdict, StepState, BadEnding, OpenState
  <2> HIDE DEF status
  <2>4. FinishRun(status, "verdict")
    BY <1>3 DEF status
  <2> QED
    BY <1>0, <1>3, <2>1, <2>2, <2>3, <2>4, ClosingMoves
<1> QED
  BY <1>1, <1>2, <1>3 DEF RoundEnds

-----------------------------------------------------------------------------
(* Everything but advance *)

\* What jobs, the handler of DELETE and the plan do leaves activations and links alone.
LEMMA OutsideSafe ==
    ASSUME Ind, TypeOK', CellsForward, UNCHANGED <<drivers, link>>,
           \A s \in Steps : job'[s] # "none" <=> job[s] # "none",
           \A s \in hooks' : job'[s] \in JobEnded,
           hooks' \subseteq hooks \cup {s \in Steps : job[s] # "none"},
           run' = run \/ (run'.status # "none" /\ run'.by # "verdict"),
           \A s \in Steps : cells'[s] = "skipped" => cells[s] = "skipped",
           canceller'.pc = "cell" => canceller'.todo # {}
    PROVE  Ind'
<1>0. 0 \in Drivers
  BY DEF Drivers
<1>1. \A s \in Steps : cells'[s] = "absent" <=> cells[s] = "absent"
  BY DEF CellsForward, OpenState, StepState, BadEnding
<1>2. CellsSeeded'
  BY <1>0, <1>1 DEF Ind, CellsSeeded
<1> DEFINE r == drivers[0]
<1>3. r \in Driver /\ drivers' = [drivers EXCEPT ![0] = r]
  BY <1>0, DriverTyped DEF Ind, TypeOK
<1>4. StartsClaimed'
  <2>1. \A s \in Steps : s \in link' \/ job'[s] # "none" => s \in link \/ job[s] # "none"
    OBVIOUS
  <2>2. r.pc \in {"claimed", "linking"} =>
           /\ r.todo # {} /\ Min(r.todo) \in Steps /\ cells[Min(r.todo)] \notin Unclaimed
           /\ Min(r.todo) \notin link'
           /\ \A c \in Drivers : c # 0 /\ Starting(c) => Current(c) # Min(r.todo)
    BY <1>0, Standing, DriverTyped DEF Starting, Current, Ind
  <2>3. \A s \in Steps : cells[s] \notin Unclaimed => cells'[s] \notin Unclaimed
    BY DEF CellsForward, Unclaimed, StepState, OpenState, BadEnding
  <2>4. r.pc \in {"claimed", "linking"} =>
           /\ r.todo # {} /\ cells'[Min(r.todo)] \notin Unclaimed /\ Min(r.todo) \notin link'
           /\ \A c \in Drivers : c # 0 /\ Starting(c) => Current(c) # Min(r.todo)
    BY <2>2, <2>3
  <2>5. \A c \in Drivers : c # 0 /\ Starting(c) => Current(c) \notin link'
    BY Standing
  <2> HIDE DEF r
  <2> QED
    BY <1>0, <1>3, <2>1, <2>4, <2>5, ClaimsKept
<1>5. ReadingsHold'
  <2>1. \A s \in Steps : cells[s] \notin OpenState => cells'[s] = cells[s]
    BY DEF CellsForward
  <2>2. ReadingGood(r, cells')
    BY <1>0, <2>1, Standing DEF ReadingGood
  <2> HIDE DEF r
  <2> QED
    BY <1>0, <1>3, <2>2, ReadingsKept
<1>6. BarrierRespected' /\ SkipsCaused' /\ VerdictHonest'
  BY ClosedKept
<1> QED
  BY <1>2, <1>4, <1>5, <1>6 DEF Ind

LEMMA CreateRunSafe ==
    ASSUME Ind, CreateRun
    PROVE  Ind'
<1>1. /\ run.status = "none" /\ run' = [status |-> "running", by |-> ""]
      /\ UNCHANGED <<plan, cells, link, job, cost, grant, stopping, hooks, spent, canceller, crashes>>
  BY DEF CreateRun, jobside
<1>d. 0 \in Drivers /\ 0 \notin Steps /\ \A c \in Drivers : c # 0 => c \in Steps
  BY WorkflowAssumption DEF Drivers
<1> DEFINE r == [drivers[0] EXCEPT !.pc = "seed"]
<1>2. drivers' = [drivers EXCEPT ![0] = r] /\ r \in Driver /\ r.pc = "seed"
  <2>1. drivers[0] \in Driver
    BY <1>d, DriverTyped DEF Ind
  <2>2. r \in Driver /\ r.pc = "seed"
    BY <2>1 DEF Driver
  <2> QED
    BY <2>2 DEF CreateRun, Goto
<1> HIDE DEF r
<1>3. drivers' \in [Drivers -> Driver] /\ drivers'[0].pc = "seed"
      /\ \A c \in Steps : drivers'[c] = drivers[c]
  BY <1>d, <1>2 DEF Ind, TypeOK, Drivers
<1>4. /\ \A s \in Steps : cells[s] = "absent" /\ job[s] = "none" /\ drivers[s].pc = "idle"
      /\ link = {} /\ hooks = {}
  BY <1>1 DEF Ind, CellsSeeded
<1>5. \A c \in Drivers : drivers'[c].pc \in {"idle", "seed"} /\ (drivers'[c].pc = "seed" => c = 0)
  BY <1>d, <1>3, <1>4
<1>6. run'.status = "running" /\ run'.by = ""
  BY <1>1
<1>7. TypeOK'
  BY <1>1, <1>3 DEF Ind, TypeOK
<1>8. CellsSeeded'
  BY <1>1, <1>3, <1>4, <1>5, <1>6, ZenonT(60) DEF CellsSeeded
<1>9. StartsClaimed' /\ ReadingsHold'
  BY <1>1, <1>4, <1>5 DEF Ind, StartsClaimed, ReadingsHold
<1>10. SkipsCaused' /\ BarrierRespected' /\ VerdictHonest'
  BY <1>1, <1>4, <1>6 DEF SkipsCaused, BarrierRespected, VerdictHonest
<1> QED
  BY <1>7, <1>8, <1>9, <1>10 DEF Ind

\* The seed writes every cell at once, and nothing is there that the cells could belie.
LEMMA InsertStepsSafe ==
    ASSUME Ind, InsertSteps
    PROVE  Ind'
<1>1. /\ drivers[0].pc = "seed" /\ cells' = [s \in Steps |-> "pending"]
      /\ UNCHANGED <<run, plan, link, job, cost, grant, stopping, hooks, spent, canceller, crashes>>
  BY DEF InsertSteps, jobside
<1>d. 0 \in Drivers /\ 0 \notin Steps /\ \A c \in Drivers : c # 0 => c \in Steps
  BY WorkflowAssumption DEF Drivers
<1> DEFINE r == [drivers[0] EXCEPT !.pc = "read"]
<1>2. drivers' = [drivers EXCEPT ![0] = r] /\ r \in Driver /\ r.pc = "read"
  <2>1. drivers[0] \in Driver
    BY <1>d, DriverTyped DEF Ind
  <2>2. r \in Driver /\ r.pc = "read"
    BY <2>1 DEF Driver
  <2> QED
    BY <2>2 DEF InsertSteps, Goto
<1> HIDE DEF r
<1>3. drivers' \in [Drivers -> Driver] /\ drivers'[0].pc = "read"
      /\ \A c \in Steps : drivers'[c] = drivers[c]
  BY <1>d, <1>2 DEF Ind, TypeOK, Drivers
<1>4. /\ \A s \in Steps : job[s] = "none" /\ drivers[s].pc = "idle"
      /\ link = {} /\ hooks = {} /\ run.by # "verdict" /\ run.status # "none"
  BY <1>1 DEF Ind, CellsSeeded
<1>5. \A c \in Drivers : drivers'[c].pc \in {"idle", "read"}
  BY <1>d, <1>3, <1>4
<1>6. \A s \in Steps : cells'[s] = "pending"
  BY <1>1
<1>7. TypeOK'
  <2>1. cells' \in [Steps -> StepState \cup {"absent"}]
    BY <1>1 DEF StepState, OpenState
  <2> QED
    BY <1>1, <1>3, <2>1 DEF Ind, TypeOK
<1>8. CellsSeeded'
  BY <1>1, <1>d, <1>4, <1>5, <1>6 DEF CellsSeeded
<1>9. StartsClaimed' /\ ReadingsHold'
  BY <1>1, <1>4, <1>5 DEF Ind, StartsClaimed, ReadingsHold
<1>10. SkipsCaused' /\ BarrierRespected' /\ VerdictHonest'
  BY <1>1, <1>4, <1>6 DEF SkipsCaused, BarrierRespected, VerdictHonest
<1> QED
  BY <1>7, <1>8, <1>9, <1>10 DEF Ind

LEMMA HookLandsSafe ==
    ASSUME Ind, NEW s \in Steps, HookLands(s)
    PROVE  Ind'
<1>d. s \in Drivers
  BY DEF Drivers
<1>0. /\ s \in hooks /\ drivers[s].pc = "idle" /\ hooks' = hooks \ {s}
      /\ UNCHANGED <<run, plan, link, job, cost, grant, spent, stopping, canceller, crashes>>
  BY DEF HookLands
<1>j. job[s] \in JobEnded /\ \A k \in hooks' : job'[k] \in JobEnded
  BY <1>0, Standing
<1>l. Live
  BY <1>j, LiveJob DEF JobEnded
<1>1. CASE s \in link /\ cells[s] \in OpenState
  <2>1. FinishStep(s, job[s]) /\ Goto(s, "sum")
    BY <1>1 DEF HookLands
  <2>2. job[s] \in StepState \ {"pending"} /\ job[s] # "skipped"
    BY <1>j DEF JobEnded, StepState, BadEnding, OpenState
  <2>3. CellsForward /\ \A k \in Steps : cells'[k] = "skipped" => cells[k] = "skipped"
    BY <2>1, <2>2, FinishForward
  <2> DEFINE r == [drivers[s] EXCEPT !.pc = "sum"]
  <2>4. drivers' = [drivers EXCEPT ![s] = r] /\ r \in Driver /\ r.pc = "sum"
    <3>1. drivers[s] \in Driver
      BY <1>d, DriverTyped DEF Ind
    <3>2. r \in Driver /\ r.pc = "sum"
      BY <3>1 DEF Driver
    <3> QED
      BY <2>1, <3>2 DEF Goto
  <2> HIDE DEF r
  <2>5. TypeOK'
    <3>1. drivers' \in [Drivers -> Driver] /\ cells' \in [Steps -> StepState \cup {"absent"}]
          /\ hooks' \subseteq Steps
      BY <1>0, <2>3, <2>4 DEF Ind, TypeOK, CellsForward
    <3> QED
      BY <1>0, <3>1 DEF Ind, TypeOK
  <2>6. ReadingGood(r, cells')
    BY <2>4 DEF ReadingGood
  <2>7. run' = run /\ run'.status # "none" /\ link' = link /\ job' = job /\ canceller' = canceller
    BY <1>0, <1>l DEF Live
  <2>8. /\ \A c \in Drivers : c # s /\ Starting(c) => Current(c) \notin link'
        /\ canceller'.pc = "cell" => canceller'.todo # {}
    BY <2>7, Standing
  <2> QED
    BY <1>d, <1>j, <1>l, <2>3, <2>4, <2>5, <2>6, <2>7, <2>8, MoveSafe
<1>2. CASE ~(s \in link /\ cells[s] \in OpenState)
  <2>1. UNCHANGED <<cells, drivers>>
    BY <1>2 DEF HookLands
  <2>2. TypeOK'
    BY <1>0, <2>1 DEF Ind, TypeOK
  <2>3. CellsForward
    BY <2>1, CellsStand
  <2>4. canceller'.pc = "cell" => canceller'.todo # {}
    BY <1>0, Standing
  <2> QED
    BY <1>0, <1>j, <2>1, <2>2, <2>3, <2>4, OutsideSafe
<1> QED
  BY <1>1, <1>2

\* The sum of the ledger, and its write.
LEMMA HookSpendSafe ==
    ASSUME Ind, NEW s \in Steps, HookSums(s) \/ HookWrites(s)
    PROVE  Ind'
<1>d. s \in Drivers /\ drivers[s] \in Driver
  BY DriverTyped DEF Drivers, Ind
<1>1. CASE HookSums(s)
  <2> DEFINE total == MapThenSumSet(LAMBDA x : cost[x], Steps)
             r == [drivers[s] EXCEPT !.pc = "write", !.sum = total]
  <2>1. total \in Nat
    <3>1. cost \in [Steps -> Nat] /\ IsFiniteSet(Steps)
      <4>1. cost \in [Steps -> 0..MaxCost] /\ MaxCost \in Nat /\ IsFiniteSet(Steps)
        BY WorkflowAssumption DEF Ind, TypeOK
      <4> QED
        BY <4>1
    <3>2. \A f \in [Steps -> Nat] : MapThenSumSet(LAMBDA x : f[x], Steps) \in Nat
      BY <3>1, SumTyped, Zenon
    <3> QED
      BY <3>1, <3>2, Zenon
  <2>2. drivers' = [drivers EXCEPT ![s] = r]
    BY <1>1 DEF HookSums
  <2>3. r \in Driver /\ r.pc = "write"
    <3> HIDE DEF total
    <3> QED
      BY <1>d, <2>1 DEF Driver
  <2> HIDE DEF r
  <2>4. /\ UNCHANGED <<run, plan, cells, link, jobside, canceller, crashes>>
        /\ spent' \in Nat /\ drivers[s].pc = "sum"
    BY <1>1 DEF HookSums, tables, Ind, TypeOK
  <2>5. CellsForward /\ \A k \in Steps : cells'[k] = "skipped" => cells[k] = "skipped"
    BY <2>4, CellsStand
  <2>6. ReadingGood(r, cells')
    BY <2>3 DEF ReadingGood
  <2> QED
    BY <1>d, <2>2, <2>3, <2>4, <2>5, <2>6, DriverMoves
<1>2. CASE HookWrites(s)
  <2> DEFINE r == [drivers[s] EXCEPT !.pc = "read"]
  <2>1. drivers' = [drivers EXCEPT ![s] = r]
    BY <1>2 DEF HookWrites, Goto
  <2>2. r \in Driver /\ r.pc = "read"
    BY <1>d DEF Driver
  <2> HIDE DEF r
  <2>3. /\ UNCHANGED <<run, plan, cells, link, jobside, canceller, crashes>>
        /\ spent' \in Nat /\ drivers[s].pc = "write"
    BY <1>2, <1>d DEF HookWrites, tables, Driver
  <2>4. CellsForward /\ \A k \in Steps : cells'[k] = "skipped" => cells[k] = "skipped"
    BY <2>3, CellsStand
  <2>5. ReadingGood(r, cells')
    BY <2>2 DEF ReadingGood
  <2> QED
    BY <1>d, <2>1, <2>2, <2>3, <2>4, <2>5, DriverMoves
<1> QED
  BY <1>1, <1>2

\* A job starts, ends, stops or is signalled: it stays a job, and an ended one stays ended.
LEMMA JobMoves ==
    ASSUME Ind, UNCHANGED <<run, plan, cells, link, spent, drivers, crashes>>,
           job' \in [Steps -> JobEnded \cup {"none", "queued", "running"}],
           cost' \in [Steps -> 0..MaxCost], grant' = grant,
           stopping' \subseteq Steps, hooks' \subseteq Steps,
           canceller' \in [pc : {"idle", "job", "cell", "done"}, todo : SUBSET Steps,
                           linked : SUBSET Steps],
           canceller'.pc = "cell" => canceller'.todo # {},
           \A s \in Steps : job'[s] # "none" <=> job[s] # "none",
           \A s \in Steps : job[s] \in JobEnded => job'[s] = job[s],
           \A s \in hooks' : s \in hooks \/ job'[s] \in JobEnded
    PROVE  Ind'
<1>1. TypeOK'
  BY DEF Ind, TypeOK
<1>2. \A s \in hooks' : job'[s] \in JobEnded
  BY Standing
<1>3. hooks' \subseteq hooks \cup {s \in Steps : job[s] # "none"}
  BY <1>2 DEF JobEnded
<1>4. CellsForward
  BY CellsStand
<1> QED
  BY <1>1, <1>2, <1>3, <1>4, OutsideSafe

LEMMA JobsSafe ==
    ASSUME Ind, NEW s \in Steps,
           JobStarts(s) \/ JobEnds(s) \/ JobStops(s) \/ DeleteJob(s) \/ HookFails(s)
    PROVE  Ind'
<1>t. /\ job \in [Steps -> JobEnded \cup {"none", "queued", "running"}]
      /\ cost \in [Steps -> 0..MaxCost] /\ stopping \subseteq Steps /\ hooks \subseteq Steps
      /\ canceller \in [pc : {"idle", "job", "cell", "done"}, todo : SUBSET Steps,
                        linked : SUBSET Steps]
      /\ canceller.pc = "cell" => canceller.todo # {}
  BY DEF Ind, TypeOK, StartsClaimed
<1>1. CASE JobStarts(s)
  <2>1. /\ job[s] = "queued" /\ job' = [job EXCEPT ![s] = "running"]
        /\ UNCHANGED <<run, plan, cells, link, cost, grant, stopping, hooks, spent, drivers, canceller, crashes>>
    BY <1>1 DEF JobStarts, tables
  <2> QED
    BY <1>t, <2>1, JobMoves DEF JobEnded
<1>2. CASE JobEnds(s)
  <2>1. /\ job[s] = "running" /\ hooks' = hooks \cup {s} /\ stopping' = stopping \ {s}
        /\ UNCHANGED <<run, plan, cells, link, grant, spent, drivers, canceller, crashes>>
    BY <1>2 DEF JobEnds, tables
  <2>2. PICK status \in {"succeeded", "failed"} : job' = [job EXCEPT ![s] = status]
    BY <1>2 DEF JobEnds
  <2>3. PICK c \in 0..MaxCost : cost' = [cost EXCEPT ![s] = c]
    BY <1>2 DEF JobEnds
  <2>4. cost' \in [Steps -> 0..MaxCost]
    BY <1>t, <2>3
  <2>5. /\ job' \in [Steps -> JobEnded \cup {"none", "queued", "running"}]
        /\ \A k \in Steps : job'[k] # "none" <=> job[k] # "none"
        /\ \A k \in Steps : job[k] \in JobEnded => job'[k] = job[k]
        /\ job'[s] \in JobEnded
    BY <1>t, <2>1, <2>2 DEF JobEnded
  <2> QED
    BY <1>t, <2>1, <2>4, <2>5, JobMoves
<1>3. CASE JobStops(s)
  <2>1. /\ job[s] = "running" /\ job' = [job EXCEPT ![s] = "cancelled"]
        /\ stopping' = stopping \ {s}
        /\ UNCHANGED <<run, plan, cells, link, cost, grant, hooks, spent, drivers, canceller, crashes>>
    BY <1>3 DEF JobStops, tables
  <2> QED
    BY <1>t, <2>1, JobMoves DEF JobEnded
<1>4. CASE DeleteJob(s)
  <2>1. /\ job' = IF job[s] = "queued" THEN [job EXCEPT ![s] = "cancelled"] ELSE job
        /\ stopping' = IF job[s] = "running" THEN stopping \cup {s} ELSE stopping
        /\ UNCHANGED <<run, plan, cells, link, cost, grant, hooks, spent, drivers, canceller, crashes>>
    BY <1>4 DEF DeleteJob, CancelJob, tables
  <2> QED
    BY <1>t, <2>1, JobMoves DEF JobEnded
<1>5. CASE HookFails(s)
  <2>1. /\ hooks' = hooks \ {s}
        /\ UNCHANGED <<run, plan, cells, link, job, cost, grant, stopping, spent, drivers, canceller, crashes>>
    BY <1>5 DEF HookFails, tables
  <2> QED
    BY <1>t, <2>1, JobMoves
<1> QED
  BY <1>1, <1>2, <1>3, <1>4, <1>5

\* DELETE of the run: it cancels jobs and cells one by one, then the row.
LEMMA CancelSafe ==
    ASSUME Ind, DeleteRun \/ CancelRun
    PROVE  Ind'
<1>t. /\ job \in [Steps -> JobEnded \cup {"none", "queued", "running"}]
      /\ cost \in [Steps -> 0..MaxCost] /\ stopping \subseteq Steps /\ hooks \subseteq Steps
      /\ link \subseteq Steps
      /\ canceller \in [pc : {"idle", "job", "cell", "done"}, todo : SUBSET Steps,
                        linked : SUBSET Steps]
      /\ canceller.pc = "cell" => canceller.todo # {}
  BY DEF Ind, TypeOK, StartsClaimed
<1>m. canceller.todo # {} => Min(canceller.todo) \in Steps
  <2>1. canceller.todo \subseteq Steps
    BY <1>t
  <2> QED
    BY <2>1, MinNat, WorkflowAssumption
<1>1. CASE DeleteRun
  <2>1. /\ canceller' = [pc |-> "job", todo |-> {s \in Steps : cells[s] \in OpenState},
                         linked |-> link]
        /\ UNCHANGED <<run, plan, cells, link, job, cost, grant, stopping, hooks, spent, drivers, crashes>>
    BY <1>1 DEF DeleteRun, tables, jobside
  <2>2. canceller' \in [pc : {"idle", "job", "cell", "done"}, todo : SUBSET Steps,
                        linked : SUBSET Steps] /\ canceller'.pc = "job"
    BY <1>t, <2>1
  <2> QED
    BY <1>t, <2>1, <2>2, JobMoves
<1>2. CASE CancelStepJob
  <2>1. /\ canceller.todo # {} /\ canceller' = [canceller EXCEPT !.pc = "cell"]
        /\ UNCHANGED <<run, plan, cells, link, cost, grant, hooks, spent, drivers, crashes>>
    BY <1>2 DEF CancelStepJob, tables
  <2>2. PICK s \in Steps : s = Min(canceller.todo)
    BY <1>m, <2>1
  <2>3. \/ UNCHANGED <<job, stopping>>
        \/ /\ job' = IF job[s] = "queued" THEN [job EXCEPT ![s] = "cancelled"] ELSE job
           /\ stopping' = IF job[s] = "running" THEN stopping \cup {s} ELSE stopping
    BY <1>2, <2>2 DEF CancelStepJob, CancelJob
  <2>4. canceller' \in [pc : {"idle", "job", "cell", "done"}, todo : SUBSET Steps,
                        linked : SUBSET Steps] /\ canceller'.todo # {}
    BY <1>t, <2>1
  <2>5. /\ job' \in [Steps -> JobEnded \cup {"none", "queued", "running"}]
        /\ stopping' \subseteq Steps
        /\ \A k \in Steps : job'[k] # "none" <=> job[k] # "none"
        /\ \A k \in Steps : job[k] \in JobEnded => job'[k] = job[k]
    BY <1>t, <2>3 DEF JobEnded
  <2> QED
    BY <1>t, <2>1, <2>4, <2>5, JobMoves
<1>3. CASE CancelStepCell
  <2>1. /\ canceller.pc = "cell" /\ FinishStep(Min(canceller.todo), "cancelled")
        /\ canceller' = [canceller EXCEPT !.pc = "job", !.todo = @ \ {Min(@)}]
        /\ UNCHANGED <<run, plan, link, job, cost, grant, stopping, hooks, spent, drivers, crashes>>
    BY <1>3 DEF CancelStepCell, jobside
  <2>2. PICK s \in Steps : s = Min(canceller.todo)
    BY <1>t, <1>m, <2>1
  <2>3. CellsForward /\ \A k \in Steps : cells'[k] = "skipped" => cells[k] = "skipped"
    BY <2>1, <2>2, FinishForward DEF StepState, BadEnding
  <2>4. canceller' \in [pc : {"idle", "job", "cell", "done"}, todo : SUBSET Steps,
                        linked : SUBSET Steps] /\ canceller'.pc = "job"
    BY <1>t, <2>1
  <2>5. TypeOK'
    BY <2>1, <2>3, <2>4 DEF Ind, TypeOK, CellsForward
  <2>6. \A k \in hooks' : job'[k] \in JobEnded
    BY <2>1, Standing
  <2> QED
    BY <2>1, <2>3, <2>4, <2>5, <2>6, OutsideSafe
<1>4. CASE CancelRunRow
  <2>1. /\ FinishRun("cancelled", "cancel") /\ canceller' = [canceller EXCEPT !.pc = "done"]
        /\ UNCHANGED <<plan, cells, link, job, cost, grant, stopping, hooks, spent, drivers, crashes>>
    BY <1>4 DEF CancelRunRow, jobside
  <2>2. run' = run \/ run' = [status |-> "cancelled", by |-> "cancel"]
    BY <2>1 DEF FinishRun
  <2>3. run' = run \/ (run'.status # "none" /\ run'.by # "verdict")
    BY <2>2
  <2>4. canceller' \in [pc : {"idle", "job", "cell", "done"}, todo : SUBSET Steps,
                        linked : SUBSET Steps] /\ canceller'.pc = "done"
    BY <1>t, <2>1
  <2>5. run' \in [status : {"none", "running", "succeeded", "failed", "cancelled"},
                  by : {"", "verdict", "deleted", "stale", "cancel"}]
    <3>1. run \in [status : {"none", "running", "succeeded", "failed", "cancelled"},
                   by : {"", "verdict", "deleted", "stale", "cancel"}]
      BY DEF Ind, TypeOK
    <3>2. CASE run' = [status |-> "cancelled", by |-> "cancel"]
      BY <3>2
    <3> QED
      BY <2>2, <3>1, <3>2
  <2>6. TypeOK'
    BY <2>1, <2>4, <2>5 DEF Ind, TypeOK
  <2>7. CellsForward /\ \A k \in hooks' : job'[k] \in JobEnded
    BY <2>1, CellsStand, Standing
  <2> QED
    BY <2>1, <2>3, <2>4, <2>6, <2>7, OutsideSafe
<1> QED
  BY <1>1, <1>2, <1>3, <1>4 DEF CancelRun

LEMMA PlanSafe ==
    ASSUME Ind, DeletePlan \/ UNCHANGED vars
    PROVE  Ind'
<1>1. /\ plan' \in {"valid", "stale", "deleted"}
      /\ UNCHANGED <<run, cells, link, job, cost, grant, stopping, hooks, spent, drivers, canceller, crashes>>
  BY DEF DeletePlan, jobside, vars, Ind, TypeOK
<1>2. TypeOK'
  BY <1>1 DEF Ind, TypeOK
<1>3. CellsForward /\ \A k \in hooks' : job'[k] \in JobEnded
  BY <1>1, CellsStand, Standing
<1>4. canceller'.pc = "cell" => canceller'.todo # {}
  BY <1>1, Standing
<1> QED
  BY <1>1, <1>2, <1>3, <1>4, OutsideSafe

\* A crash takes the activations and the hooks, and leaves the tables.
LEMMA CrashSafe ==
    ASSUME Ind, CrashAndBoot
    PROVE  Ind'
<1>1. /\ crashes < MaxCrashes /\ crashes' = crashes + 1
      /\ drivers' = [d \in Drivers |-> Idle] /\ hooks' = {} /\ stopping' = {}
      /\ canceller' = [canceller EXCEPT !.pc = IF @ = "idle" THEN "idle" ELSE "done"]
      /\ plan' \in {plan, "stale"}
      /\ UNCHANGED <<run, cells, link, cost, grant, spent>>
  BY DEF CrashAndBoot
<1>2. PICK failed \in SUBSET {s \in Steps : job[s] = "running"} :
         job' = [s \in Steps |-> IF s \in failed THEN "failed"
                                 ELSE IF job[s] = "running" THEN "queued" ELSE job[s]]
  BY DEF CrashAndBoot
<1>t. /\ job \in [Steps -> JobEnded \cup {"none", "queued", "running"}]
      /\ canceller \in [pc : {"idle", "job", "cell", "done"}, todo : SUBSET Steps,
                        linked : SUBSET Steps]
      /\ crashes \in 0..MaxCrashes /\ MaxCrashes \in Nat
  BY WorkflowAssumption DEF Ind, TypeOK
<1>3. /\ job' \in [Steps -> JobEnded \cup {"none", "queued", "running"}]
      /\ \A s \in Steps : job'[s] # "none" <=> job[s] # "none"
  BY <1>2, <1>t DEF JobEnded
<1>4. canceller' \in [pc : {"idle", "job", "cell", "done"}, todo : SUBSET Steps,
                      linked : SUBSET Steps] /\ canceller'.pc # "cell"
  BY <1>1, <1>t
<1>5. \A d \in Drivers : drivers'[d] = Idle /\ drivers'[d].pc = "idle"
  BY <1>1, IdleTyped
<1>6. TypeOK'
  <2>1. drivers' \in [Drivers -> Driver] /\ crashes' \in 0..MaxCrashes
    BY <1>1, <1>t, IdleTyped
  <2> QED
    BY <1>1, <1>3, <1>4, <2>1 DEF Ind, TypeOK
<1>7. CellsSeeded'
  <2>1. 0 \in Drivers /\ \A s \in Steps : s \in Drivers
    BY DEF Drivers
  <2> QED
    BY <1>1, <1>3, <1>5, <2>1 DEF Ind, CellsSeeded
<1>8. StartsClaimed' /\ ReadingsHold'
  BY <1>1, <1>3, <1>4, <1>5 DEF Ind, StartsClaimed, ReadingsHold
<1>9. SkipsCaused' /\ BarrierRespected' /\ VerdictHonest'
  BY <1>1, <1>3 DEF Ind, SkipsCaused, BarrierRespected, VerdictHonest, EndedBadly
<1> QED
  BY <1>6, <1>7, <1>8, <1>9 DEF Ind

-----------------------------------------------------------------------------
(* The invariant, and what follows from it *)

LEMMA InitSafe == Init => Ind
<1> SUFFICES ASSUME Init PROVE Ind
  OBVIOUS
<1>1. /\ \A d \in Drivers : drivers[d].pc = "idle"
      /\ \A s \in Steps : cells[s] = "absent" /\ job[s] = "none"
      /\ link = {} /\ hooks = {} /\ run.by = ""
  BY IdleTyped DEF Init
<1>2. TypeOK
  <2>1. drivers \in [Drivers -> Driver]
    BY IdleTyped DEF Init
  <2>2. canceller \in [pc : {"idle", "job", "cell", "done"}, todo : SUBSET Steps,
                       linked : SUBSET Steps]
    BY DEF Init, NoCancel
  <2>3. /\ run \in [status : {"none", "running", "succeeded", "failed", "cancelled"},
                     by : {"", "verdict", "deleted", "stale", "cancel"}]
        /\ plan \in {"valid", "stale", "deleted"} /\ link \subseteq Steps /\ stopping \subseteq Steps /\ hooks \subseteq Steps
    BY DEF Init
  <2>4. /\ cells \in [Steps -> StepState \cup {"absent"}]
        /\ job \in [Steps -> JobEnded \cup {"none", "queued", "running"}]
    BY DEF Init
  <2>5. /\ cost \in [Steps -> 0..MaxCost] /\ grant \in [Steps -> Nat] /\ spent \in Nat
        /\ crashes \in 0..MaxCrashes
    <3>1. 0 \in 0..MaxCost /\ 0 \in 0..MaxCrashes
      BY WorkflowAssumption
    <3> QED
      BY <3>1 DEF Init
  <2> QED
    BY <2>1, <2>2, <2>3, <2>4, <2>5 DEF TypeOK
<1>3. CellsSeeded
  <2>1. 0 \in Drivers /\ \A s \in Steps : s \in Drivers
    BY DEF Drivers
  <2> QED
    BY <1>1, <2>1 DEF CellsSeeded
<1>4. StartsClaimed /\ ReadingsHold
  BY <1>1 DEF StartsClaimed, ReadingsHold, Init, NoCancel
<1>5. SkipsCaused /\ BarrierRespected /\ VerdictHonest
  BY <1>1 DEF SkipsCaused, BarrierRespected, VerdictHonest
<1> QED
  BY <1>2, <1>3, <1>4, <1>5 DEF Ind

LEMMA NextSafe ==
    ASSUME Ind, [Next]_vars
    PROVE  Ind'
<1>1. ASSUME NEW d \in Drivers, Advance(d) \/ EnqueueFails(d)
      PROVE  Ind'
  BY <1>1, AdvanceReadsSafe, AdvanceDecidesSafe, SkipStepSafe, SkipsDoneSafe, RefuseStepSafe,
     StartStepSafe, StepTakenSafe, EnqueueJobSafe, LinkJobSafe, RoundEndsSafe, EnqueueFailsSafe
  DEF Advance
<1>2. ASSUME NEW s \in Steps, StepJob(s) \/ HookFails(s) \/ JobStops(s) \/ DeleteJob(s)
      PROVE  Ind'
  BY <1>2, HookLandsSafe, HookSpendSafe, JobsSafe DEF StepJob
<1> QED
  BY <1>1, <1>2, CreateRunSafe, InsertStepsSafe, CancelSafe, PlanSafe, CrashSafe DEF Next

LEMMA Inductive == Spec => []Ind
BY InitSafe, NextSafe, PTL DEF Spec

\* Two activations are never starting the same step.
LEMMA JoinFromClaims == Ind => JoinFiresOnce
<1> SUFFICES ASSUME Ind, NEW s \in Steps
             PROVE  Cardinality({d \in Drivers : drivers[d].pc \in {"claimed", "linking"}
                                                 /\ Current(d) = s})
                      <= (IF s \in link THEN 0 ELSE 1)
  BY DEF JoinFiresOnce
<1> DEFINE starting == {d \in Drivers : drivers[d].pc \in {"claimed", "linking"} /\ Current(d) = s}
<1>1. CASE starting = {}
  <2>1. Cardinality(starting) = 0
    BY <1>1, FS_EmptySet
  <2> QED
    BY <2>1
<1>2. ASSUME NEW d \in starting
      PROVE  Cardinality(starting) <= (IF s \in link THEN 0 ELSE 1)
  <2>1. s \notin link /\ starting = {d}
    BY DEF Ind, StartsClaimed
  <2>2. Cardinality(starting) = 1
    BY <2>1, FS_Singleton
  <2> QED
    BY <2>1, <2>2
<1> QED
  BY <1>1, <1>2

\* A join is started once and after its barrier, however many activations race for it, and
\* whatever is cancelled, deleted, lost or crashed meanwhile.
THEOREM RunInvariant == Spec => []RunInv
<1>1. Ind => RunInv
  BY JoinFromClaims DEF Ind, RunInv
<1> QED
  BY <1>1, Inductive, PTL

\* A run that was closed by its verdict has nothing open, and says what its cells say,
\* although the verdict is computed on a reading that other activations may have outrun.
THEOREM VerdictAlwaysHonest == Spec => []VerdictHonest
<1>1. Ind => VerdictHonest
  BY DEF Ind
<1> QED
  BY <1>1, Inductive, PTL

\* Under the `continue` policy a step recorded as skipped has no job, then or later.
THEOREM SkippedNeverRuns ==
    ASSUME OnFailure = "continue"
    PROVE  Spec => []SkippedNeverRan
<1>1. Ind => SkippedNeverRan
  <2> SUFFICES ASSUME Ind, NEW s \in Steps, cells[s] = "skipped", job[s] # "none" PROVE FALSE
    BY DEF SkippedNeverRan
  <2>1. PICK dep \in After[s] : cells[dep] \in BadEnding
    BY DEF Ind, SkipsCaused, EndedBadly
  <2>2. cells[dep] = "succeeded"
    BY <2>1 DEF Ind, BarrierRespected
  <2> QED
    BY <2>1, <2>2 DEF BadEnding
<1> QED
  BY <1>1, Inductive, PTL
=============================================================================

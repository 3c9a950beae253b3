----------------------------- MODULE NodeProofs -----------------------------
(***************************************************************************)
(* Proofs about one node: the executor plane, the politeness governor with   *)
(* the memory of its penalties, and the crawl that fetches through it.       *)
(* CheckpointInv and PenaltyInv are inductive for every choice of the        *)
(* constants; SlotInv is inductive with the latter where a host is kept for  *)
(* longer than its slots and back-offs reach ahead (IdleOutlasts); ResumeInv *)
(* is inductive for every web, robots rules and kill, and implies HostFair.  *)
(***************************************************************************)
EXTENDS MCNode, Crawl, FiniteSetTheorems, FunctionTheorems, SequenceTheorems,
        WellFoundedInduction, TLAPS

HostRow == [known : BOOLEAN, next : Nat, penalty : Penalties, seen : 0..MaxTime]
FetchRow == [at : {"idle", "probed", "claimed", "sent"}, host : Hosts, slot : Nat, stale : BOOLEAN]
KeeperRow == [at : {"idle", "writing", "final"}, snap : [Hosts -> Penalties], since : SUBSET Hosts]
BundleRow == [at : {"idle", "planned", "raised"}, host : Hosts, ms : Penalties, live : BOOLEAN]

-----------------------------------------------------------------------------
(* The operators *)

LEMMA PenaltyRange ==
    /\ Penalties \subseteq Nat
    /\ \A p \in Nat : p <= PenaltyCap \/ p <= ImportCap => p \in Penalties
BY GovernorAssumption DEF Penalties, Later

LEMMA NoneTyped ==
    /\ Absent \in HostRow
    /\ Quiet \in FetchRow
    /\ NoPass \in KeeperRow
    /\ NoReset \in [at : {"idle", "cleared"}, host : Hosts]
    /\ NoBundle \in BundleRow
    /\ Forgotten \in [penalty : Penalties, at : 0..MaxTime]
<1>1. /\ (CHOOSE h \in Hosts : TRUE) \in Hosts
      /\ 0 \in 0..MaxTime /\ 0 \in Penalties /\ 0 \in Nat
  BY GovernorAssumption, PenaltyRange
<1> QED
  BY <1>1 DEF Absent, Quiet, NoPass, NoReset, NoBundle, Forgotten, HostRow, FetchRow, KeeperRow, BundleRow

\* A rate limit leaves a penalty within the cap.
LEMMA RaisedBound ==
    ASSUME NEW p \in Penalties, NEW ra \in RetryAfters
    PROVE  Raised(p, ra) \in Nat /\ Raised(p, ra) <= PenaltyCap /\ Raised(p, ra) \in Penalties
<1>1. p \in Nat /\ ra \in Nat /\ PenaltyBase \in Nat /\ PenaltyCap \in Nat
  BY PenaltyRange, GovernorAssumption
<1>2. Raised(p, ra) \in Nat /\ Raised(p, ra) <= PenaltyCap
  BY <1>1 DEF Raised, Sooner, Later
<1> QED
  BY <1>2, PenaltyRange

LEMMA HalvedBound ==
    ASSUME NEW p \in Penalties
    PROVE  Halved(p) \in Penalties
<1>1. p \in Nat /\ PenaltyFloor \in Nat /\ PenaltyCap \in Nat /\ ImportCap \in Nat
  BY PenaltyRange, GovernorAssumption
<1>2. Halved(p) \in Nat /\ Halved(p) <= p
  BY <1>1 DEF Halved
<1> QED
  BY <1>1, <1>2 DEF Penalties, Later

LEMMA EntryTyped ==
    ASSUME PolitenessTypeOK, NEW h \in Hosts
    PROVE  /\ host[h] \in HostRow
           /\ Entry(h) \in HostRow
           /\ Entry(h).known
           /\ SlotFor(h) \in Nat /\ SlotFor(h) >= now
           /\ now \in Nat /\ now <= MaxTime /\ MaxTime \in Nat
           /\ interval[h] \in Intervals /\ interval[h] \in Nat
<1>1. host[h] \in HostRow
  BY DEF PolitenessTypeOK, HostRow
<1>2. now \in Nat /\ now <= MaxTime /\ MaxTime \in Nat /\ now \in 0..MaxTime
  BY GovernorAssumption DEF PolitenessTypeOK
<1>3. Entry(h) \in HostRow /\ Entry(h).known
  BY <1>1, <1>2, PenaltyRange, GovernorAssumption DEF Entry, HostRow
<1>4. SlotFor(h) \in Nat /\ SlotFor(h) >= now
  BY <1>2, <1>3 DEF SlotFor, Later, HostRow
<1>5. interval[h] \in Intervals /\ interval[h] \in Nat
  BY GovernorAssumption DEF PolitenessTypeOK
<1> QED
  BY <1>1, <1>2, <1>3, <1>4, <1>5

-----------------------------------------------------------------------------
(* The penalties *)

\* What most steps do: the store and its lock stay, and a host whose live penalty moves
\* is marked as unsaved, and as no longer reset.
LiveMove ==
    /\ memory' = memory /\ reset' = reset
    /\ keeper'.at = keeper.at /\ keeper'.snap = keeper.snap
    /\ keeper.since \subseteq keeper'.since
    /\ unsaved \subseteq unsaved'
    /\ forgot' \subseteq forgot
    /\ life' = "down" <=> life = "down"
    /\ life = "down" => fetch' = fetch
    /\ \A h \in Hosts :
         /\ ~host'[h].known => host'[h].penalty = 0
         /\ \/ host'[h].penalty = host[h].penalty
            \/ /\ h \in unsaved' /\ h \notin forgot'
               /\ keeper.at # "idle" => h \in keeper'.since

LEMMA LiveMoveSafe ==
    ASSUME PenaltyInv, PolitenessTypeOK', LiveMove
    PROVE  PenaltyInv'
<1> USE DEF LiveMove
<1>1. MemoryExclusive'
  BY DEF PenaltyInv, MemoryExclusive
<1>2. SnapshotTrue'
  <2>1. ASSUME NEW h \in Hosts, keeper'.at # "idle", h \notin keeper'.since
        PROVE  keeper'.snap[h] = host'[h].penalty
    BY <2>1 DEF PenaltyInv, SnapshotTrue
  <2>2. ASSUME NEW h \in forgot', keeper'.at # "idle"
        PROVE  keeper'.snap[h] = 0
    BY <2>2 DEF PenaltyInv, SnapshotTrue
  <2> QED
    BY <2>1, <2>2 DEF SnapshotTrue
<1>3. StoreFollows'
  BY DEF PenaltyInv, StoreFollows
<1>4. ResetSticks'
  BY DEF PenaltyInv, ResetSticks, PolitenessTypeOK
<1> QED
  BY <1>1, <1>2, <1>3, <1>4 DEF PenaltyInv

\* A step of a fetch that leaves the governor alone.
LEMMA FetchOnlySafe ==
    ASSUME PenaltyInv, life # "down", fetch' \in [Callers -> FetchRow],
           UNCHANGED <<now, interval, host, storeVars, life, events, historyVars>>
    PROVE  PenaltyInv'
<1>1. PolitenessTypeOK'
  BY DEF PenaltyInv, PolitenessTypeOK, storeVars, historyVars, FetchRow
<1>2. LiveMove
  BY DEF LiveMove, PenaltyInv, SnapshotTrue, storeVars, historyVars
<1> QED
  BY <1>1, <1>2, LiveMoveSafe

LEMMA AcquireUnspacedSafe ==
    ASSUME PenaltyInv, NEW c \in Callers, NEW h \in Hosts, AcquireUnspaced(c, h)
    PROVE  PenaltyInv'
<1>1. [Quiet EXCEPT !.at = "sent", !.host = h] \in FetchRow
  BY NoneTyped DEF FetchRow
<1>2. fetch' \in [Callers -> FetchRow]
  BY <1>1 DEF AcquireUnspaced, PenaltyInv, PolitenessTypeOK, FetchRow
<1> QED
  BY <1>2, FetchOnlySafe DEF AcquireUnspaced, MayAcquire

LEMMA FetchAloneSafe ==
    ASSUME PenaltyInv, NEW c \in Callers, SendRequest(c) \/ GiveUp(c) \/ Neutral(c)
    PROVE  PenaltyInv'
<1>1. fetch[c] \in FetchRow /\ fetch \in [Callers -> FetchRow]
  BY DEF PenaltyInv, PolitenessTypeOK, FetchRow
<1>2. [fetch[c] EXCEPT !.at = "sent"] \in FetchRow
  BY <1>1 DEF FetchRow
<1>3. fetch' \in [Callers -> FetchRow]
  BY <1>1, <1>2, NoneTyped DEF SendRequest, GiveUp, Neutral
<1> QED
  BY <1>3, FetchOnlySafe DEF SendRequest, GiveUp, Neutral

\* A step that advances a host's next slot.
LEMMA SlotTakenSafe ==
    ASSUME PenaltyInv, life # "down", NEW h \in Hosts, TakeSlot(h),
           fetch' \in [Callers -> FetchRow],
           UNCHANGED <<now, interval, storeVars, life, events, historyVars>>
    PROVE  PenaltyInv'
<1> DEFINE e == [Entry(h) EXCEPT !.seen = now, !.next = SlotFor(h) + interval[h] + Entry(h).penalty]
<1>1. PolitenessTypeOK
  BY DEF PenaltyInv
<1>2. Entry(h) \in HostRow /\ SlotFor(h) \in Nat /\ interval[h] \in Nat
  BY <1>1, EntryTyped
<1>a. Entry(h).penalty \in Nat /\ now \in 0..MaxTime
  BY <1>1, <1>2, PenaltyRange DEF HostRow, PolitenessTypeOK
<1>b. SlotFor(h) + interval[h] + Entry(h).penalty \in Nat
  BY <1>2, <1>a
<1>3. e \in HostRow /\ e.known = Entry(h).known /\ e.penalty = Entry(h).penalty
  BY <1>2, <1>a, <1>b DEF HostRow
<1>4. host' = [host EXCEPT ![h] = e]
  BY DEF TakeSlot
<1> HIDE DEF e
<1>5. host' \in [Hosts -> HostRow]
  BY <1>1, <1>3, <1>4 DEF PolitenessTypeOK, HostRow
<1>6. PolitenessTypeOK'
  BY <1>1, <1>5 DEF PolitenessTypeOK, storeVars, historyVars, FetchRow, HostRow
<1>7. Entry(h).penalty = host[h].penalty /\ Entry(h).known
  BY <1>1, EntryTyped DEF PenaltyInv, SnapshotTrue, Entry
<1>8. ASSUME NEW g \in Hosts
      PROVE  (~host'[g].known => host'[g].penalty = 0) /\ host'[g].penalty = host[g].penalty
  BY <1>1, <1>3, <1>4, <1>7 DEF PenaltyInv, SnapshotTrue, PolitenessTypeOK
<1>9. LiveMove
  BY <1>8 DEF LiveMove, storeVars, historyVars
<1> QED
  BY <1>6, <1>9, LiveMoveSafe

LEMMA AcquireSafe ==
    ASSUME PenaltyInv, NEW c \in Callers, NEW h \in Hosts, Acquire(c, h) \/ TryAcquire(c, h)
    PROVE  PenaltyInv'
<1>1. /\ [Quiet EXCEPT !.at = "claimed", !.host = h, !.slot = SlotFor(h)] \in FetchRow
      /\ [Quiet EXCEPT !.at = "probed", !.host = h] \in FetchRow
  BY NoneTyped, EntryTyped DEF FetchRow, PenaltyInv
<1>2. fetch' \in [Callers -> FetchRow]
  BY <1>1 DEF Acquire, TryAcquire, PenaltyInv, PolitenessTypeOK, FetchRow
<1>3. TakeSlot(h) /\ life # "down" /\ UNCHANGED <<now, interval, storeVars, life, events, historyVars>>
  BY DEF Acquire, TryAcquire, MayAcquire
<1> QED
  BY <1>2, <1>3, SlotTakenSafe

\* A step that moves the live penalty of a host and says so.
LEMMA TaughtSafe ==
    ASSUME PenaltyInv, NEW h \in Hosts, NEW e \in HostRow, e.known,
           NEW learned \in BOOLEAN, learned \/ host[h].penalty # 0,
           host' = [host EXCEPT ![h] = e], Touched(h, learned), DuringPass(h),
           fetch' \in [Callers -> FetchRow], hold' \in [Hosts -> Nat], bundle' \in BundleRow,
           life # "down" \/ fetch' = fetch,
           UNCHANGED <<now, interval, memory, reset, life, events>>
    PROVE  PenaltyInv'
<1>1. PolitenessTypeOK
  BY DEF PenaltyInv
<1>2. keeper \in KeeperRow
  BY <1>1 DEF PolitenessTypeOK, KeeperRow
<1>3. /\ keeper'.at = keeper.at /\ keeper'.snap = keeper.snap
      /\ keeper.since \subseteq keeper'.since
      /\ keeper.at # "idle" => h \in keeper'.since
      /\ keeper' \in KeeperRow
  BY <1>2 DEF DuringPass, KeeperRow
<1>4. host' \in [Hosts -> HostRow]
  BY <1>1 DEF PolitenessTypeOK, HostRow
<1>5. unsaved' \subseteq Hosts /\ forgot' \subseteq Hosts
  BY <1>1 DEF PolitenessTypeOK, Touched
<1>6. PolitenessTypeOK'
  BY <1>1, <1>3, <1>4, <1>5 DEF PolitenessTypeOK, FetchRow, HostRow, KeeperRow, BundleRow
<1>7. h \notin forgot' /\ h \in unsaved' /\ unsaved \subseteq unsaved' /\ forgot' \subseteq forgot
  BY DEF Touched, PenaltyInv, ResetSticks
<1>8. ASSUME NEW g \in Hosts, g # h PROVE host'[g] = host[g]
  BY <1>1, <1>8 DEF PolitenessTypeOK
<1>9. host'[h] = e
  BY <1>1 DEF PolitenessTypeOK
<1>10. LiveMove
  BY <1>3, <1>7, <1>8, <1>9 DEF LiveMove, PenaltyInv, SnapshotTrue
<1> QED
  BY <1>6, <1>10, LiveMoveSafe

LEMMA PenalizedTyped ==
    ASSUME PolitenessTypeOK, NEW h \in Hosts, NEW ra \in RetryAfters
    PROVE  /\ PenalizedEntry(h, ra) \in HostRow
           /\ PenalizedEntry(h, ra).known
           /\ PenalizedEntry(h, ra).seen = now
           /\ PenalizedEntry(h, ra).penalty \in Nat
           /\ PenalizedEntry(h, ra).penalty <= PenaltyCap
           /\ PenalizedEntry(h, ra).next >= Entry(h).next
           /\ PenalizedEntry(h, ra).next >= now + PenalizedEntry(h, ra).penalty
<1> DEFINE p == Raised(Entry(h).penalty, ra)
           n == Later(Entry(h).next, now + p)
<1>1. Entry(h) \in HostRow /\ Entry(h).known /\ now \in Nat /\ now \in 0..MaxTime
  BY EntryTyped DEF PolitenessTypeOK
<1>2. Entry(h).penalty \in Penalties /\ Entry(h).next \in Nat
  BY <1>1 DEF HostRow
<1>3. p \in Nat /\ p <= PenaltyCap /\ p \in Penalties
  BY <1>2, RaisedBound
<1> HIDE DEF p
<1>4. n \in Nat /\ n >= Entry(h).next /\ n >= now + p
  BY <1>1, <1>2, <1>3 DEF Later
<1> HIDE DEF n
<1>5. PenalizedEntry(h, ra) = [Entry(h) EXCEPT !.seen = now, !.penalty = p, !.next = n]
  BY DEF PenalizedEntry, p, n
<1> QED
  BY <1>1, <1>3, <1>4, <1>5 DEF HostRow

LEMMA LimitedSafe ==
    ASSUME PenaltyInv, NEW c \in Callers, NEW ra \in RetryAfters, Limited(c, ra)
    PROVE  PenaltyInv'
<1> DEFINE h == fetch[c].host
           e == PenalizedEntry(h, ra)
<1>1. PolitenessTypeOK /\ h \in Hosts /\ now \in Nat
  BY EntryTyped, GovernorAssumption DEF PenaltyInv, PolitenessTypeOK
<1>2. e \in HostRow /\ e.known /\ e.penalty \in Nat
  BY <1>1, PenalizedTyped
<1>3. /\ host' = [host EXCEPT ![h] = e] /\ Touched(h, TRUE) /\ DuringPass(h)
      /\ fetch' = [fetch EXCEPT ![c] = Quiet]
      /\ hold' = [hold EXCEPT ![h] = Later(hold[h], now + e.penalty)]
      /\ bundle' = bundle /\ life # "down"
      /\ UNCHANGED <<now, interval, memory, reset, life, events>>
  BY DEF Limited
<1> HIDE DEF e, h
<1>4. fetch' \in [Callers -> FetchRow]
  BY <1>1, <1>3, NoneTyped DEF PolitenessTypeOK, FetchRow
<1>5. hold' \in [Hosts -> Nat]
  BY <1>1, <1>2, <1>3 DEF PolitenessTypeOK, Later
<1>6. bundle' \in BundleRow
  BY <1>1, <1>3 DEF PolitenessTypeOK, BundleRow
<1> QED
  BY <1>1, <1>2, <1>3, <1>4, <1>5, <1>6, TaughtSafe

LEMMA HealthySafe ==
    ASSUME PenaltyInv, NEW c \in Callers, Healthy(c)
    PROVE  PenaltyInv'
<1> DEFINE h == fetch[c].host
           e == [host[h] EXCEPT !.seen = now, !.penalty = Halved(host[h].penalty)]
<1>1. PolitenessTypeOK /\ h \in Hosts /\ now \in 0..MaxTime
  BY DEF PenaltyInv, PolitenessTypeOK
<1>2. fetch' \in [Callers -> FetchRow]
  BY <1>1, NoneTyped DEF Healthy, PolitenessTypeOK, FetchRow
<1>3. CASE host[h].penalty = 0
  BY <1>2, <1>3, FetchOnlySafe DEF Healthy, Untouched, storeVars, historyVars
<1>4. CASE host[h].penalty # 0
  <2>1. host[h] \in HostRow /\ host[h].known
    BY <1>1, <1>4, EntryTyped DEF PenaltyInv, SnapshotTrue
  <2>2. Halved(host[h].penalty) \in Penalties
    BY <2>1, HalvedBound DEF HostRow
  <2>3. e \in HostRow /\ e.known
    BY <1>1, <2>1, <2>2 DEF HostRow
  <2>4. /\ host' = [host EXCEPT ![h].seen = now, ![h].penalty = Halved(@)]
        /\ Touched(h, FALSE) /\ DuringPass(h)
        /\ bundle' = bundle /\ hold' = hold /\ life # "down"
        /\ UNCHANGED <<now, interval, memory, reset, life, events>>
    BY <1>4 DEF Healthy
  <2>5. host' = [host EXCEPT ![h] = e]
    BY <1>1, <2>1, <2>4 DEF PolitenessTypeOK, HostRow
  <2> HIDE DEF e, h
  <2>6. hold' \in [Hosts -> Nat] /\ bundle' \in BundleRow
    BY <1>1, <2>4 DEF PolitenessTypeOK, BundleRow
  <2> QED
    BY <1>1, <1>2, <1>4, <2>3, <2>4, <2>5, <2>6, TaughtSafe
<1> QED
  BY <1>3, <1>4

LEMMA EvictSafe ==
    ASSUME PenaltyInv, Evict
    PROVE  PenaltyInv'
<1>1. PolitenessTypeOK
  BY DEF PenaltyInv
<1>2. host' \in [Hosts -> HostRow]
  BY <1>1, NoneTyped, EntryTyped DEF Evict
<1>3. PolitenessTypeOK'
  BY <1>1, <1>2 DEF Evict, PolitenessTypeOK, HostRow, storeVars, historyVars
<1>4. ASSUME NEW h \in Hosts
      PROVE  (~host'[h].known => host'[h].penalty = 0) /\ host'[h].penalty = host[h].penalty
  <2>1. CASE Evictable(h)
    BY <2>1 DEF Evict, Evictable, Absent
  <2>2. CASE ~Evictable(h)
    BY <2>2 DEF Evict, PenaltyInv, SnapshotTrue
  <2> QED
    BY <2>1, <2>2
<1>5. LiveMove
  BY <1>4 DEF LiveMove, Evict, storeVars, historyVars
<1> QED
  BY <1>3, <1>5, LiveMoveSafe

LEMMA ImportPlansSafe ==
    ASSUME PenaltyInv, NEW h \in Hosts, NEW remote \in Remotes, NEW live \in BOOLEAN,
           ImportPlans(h, remote, live)
    PROVE  PenaltyInv'
<1>1. Sooner(remote, ImportCap) \in Nat /\ Sooner(remote, ImportCap) <= ImportCap
  BY GovernorAssumption DEF Sooner
<1>2. bundle' \in BundleRow
  BY <1>1, PenaltyRange DEF ImportPlans, BundleRow
<1>3. events' \in 0..EventBound
  BY GovernorAssumption DEF ImportPlans, Event, PenaltyInv, PolitenessTypeOK
<1>4. PolitenessTypeOK'
  BY <1>2, <1>3 DEF PenaltyInv, PolitenessTypeOK, BundleRow, ImportPlans, liveVars, historyVars
<1>5. LiveMove
  BY DEF LiveMove, PenaltyInv, SnapshotTrue, ImportPlans, liveVars, historyVars
<1> QED
  BY <1>4, <1>5, LiveMoveSafe

LEMMA ImportFailsSafe ==
    ASSUME PenaltyInv, ImportFails
    PROVE  PenaltyInv'
<1>3. events' \in 0..EventBound /\ bundle' \in BundleRow
  BY GovernorAssumption, NoneTyped DEF ImportFails, Event, PenaltyInv, PolitenessTypeOK
<1>4. PolitenessTypeOK'
  BY <1>3 DEF PenaltyInv, PolitenessTypeOK, BundleRow, ImportFails, liveVars, historyVars
<1>5. LiveMove
  BY DEF LiveMove, PenaltyInv, SnapshotTrue, ImportFails, liveVars, historyVars
<1> QED
  BY <1>4, <1>5, LiveMoveSafe

LEMMA ShutdownSafe ==
    ASSUME PenaltyInv, Shutdown
    PROVE  PenaltyInv'
<1>3. events' \in 0..EventBound
  BY GovernorAssumption DEF Shutdown, Event, PenaltyInv, PolitenessTypeOK
<1>4. PolitenessTypeOK'
  BY <1>3 DEF PenaltyInv, PolitenessTypeOK, Shutdown, liveVars, storeVars, historyVars
<1>5. LiveMove
  BY DEF LiveMove, PenaltyInv, SnapshotTrue, Shutdown, liveVars, storeVars, historyVars
<1> QED
  BY <1>4, <1>5, LiveMoveSafe

LEMMA TickSafe ==
    ASSUME PenaltyInv, Tick
    PROVE  PenaltyInv'
<1>1. now' \in 0..MaxTime
  BY GovernorAssumption DEF Tick, PenaltyInv, PolitenessTypeOK
<1>2. hold' \in [Hosts -> Nat]
  BY DEF Tick, PenaltyInv, PolitenessTypeOK
<1>4. PolitenessTypeOK'
  BY <1>1, <1>2 DEF PenaltyInv, PolitenessTypeOK, Tick, liveVars, storeVars
<1>5. LiveMove
  BY DEF LiveMove, PenaltyInv, SnapshotTrue, Tick, liveVars, storeVars
<1> QED
  BY <1>4, <1>5, LiveMoveSafe

LEMMA ImportRaisesSafe ==
    ASSUME PenaltyInv, ImportRaises
    PROVE  PenaltyInv'
<1> DEFINE h == bundle.host
           p == Sooner(bundle.ms, PenaltyCap)
           e == [Entry(h) EXCEPT !.seen = now, !.penalty = p]
<1>1. PolitenessTypeOK /\ h \in Hosts /\ bundle.ms \in Penalties /\ now \in 0..MaxTime
  BY DEF PenaltyInv, PolitenessTypeOK
<1>2. p \in Nat /\ p <= PenaltyCap /\ p \in Penalties
  <2>a. bundle.ms \in Nat /\ PenaltyCap \in Nat
    BY <1>1, PenaltyRange, GovernorAssumption
  <2>1. p \in Nat /\ p <= PenaltyCap
    BY <2>a DEF Sooner
  <2> QED
    BY <2>1, PenaltyRange
<1>3. Entry(h) \in HostRow /\ Entry(h).known /\ host[h] \in HostRow
  BY <1>1, EntryTyped
<1>4. Entry(h).penalty = host[h].penalty
  BY <1>1 DEF PenaltyInv, SnapshotTrue, Entry
<1>5. bundle' \in BundleRow
  BY <1>1 DEF ImportRaises, PolitenessTypeOK, BundleRow
<1>6. /\ IF Entry(h).penalty >= p
           THEN /\ host' = [host EXCEPT ![h] = IF p = 0 THEN @ ELSE Entry(h)]
                /\ Untouched
           ELSE /\ host' = [host EXCEPT ![h] = e]
                /\ Touched(h, TRUE)
                /\ DuringPass(h)
      /\ UNCHANGED <<now, interval, fetch, memory, reset, life, events, hold>>
  BY DEF ImportRaises
<1>7. CASE Entry(h).penalty >= p
  <2> DEFINE r == IF p = 0 THEN host[h] ELSE Entry(h)
  <2>a. ~host[h].known => host[h].penalty = 0
    BY <1>1 DEF PenaltyInv, SnapshotTrue
  <2>1. /\ r \in HostRow /\ r.penalty = host[h].penalty
        /\ ~r.known => r.penalty = 0
    <3>1. CASE p = 0
      BY <1>3, <2>a, <3>1
    <3>2. CASE p # 0
      BY <1>3, <1>4, <3>2
    <3> QED
      BY <3>1, <3>2
  <2>2. host' = [host EXCEPT ![h] = r] /\ UNCHANGED <<unsaved, forgot, keeper>>
    BY <1>6, <1>7 DEF Untouched
  <2> HIDE DEF r, h, p
  <2>3. host' \in [Hosts -> HostRow]
    BY <1>1, <2>1, <2>2 DEF PolitenessTypeOK, HostRow
  <2>4. PolitenessTypeOK'
    BY <1>1, <1>5, <1>6, <2>2, <2>3 DEF PolitenessTypeOK, HostRow, BundleRow
  <2>5. LiveMove
    BY <1>1, <1>6, <2>1, <2>2 DEF LiveMove, PenaltyInv, SnapshotTrue, PolitenessTypeOK
  <2> QED
    BY <2>4, <2>5, LiveMoveSafe
<1>8. CASE ~(Entry(h).penalty >= p)
  <2>1. e \in HostRow /\ e.known
    BY <1>1, <1>2, <1>3 DEF HostRow
  <2>2. host' = [host EXCEPT ![h] = e] /\ Touched(h, TRUE) /\ DuringPass(h)
    BY <1>6, <1>8
  <2> HIDE DEF e, h, p
  <2>3. hold' \in [Hosts -> Nat] /\ fetch' \in [Callers -> FetchRow] /\ fetch' = fetch
    BY <1>1, <1>6 DEF PolitenessTypeOK, FetchRow
  <2> QED
    BY <1>1, <1>5, <1>6, <2>1, <2>2, <2>3, TaughtSafe
<1> QED
  BY <1>7, <1>8

LEMMA ImportSavesSafe ==
    ASSUME PenaltyInv, ImportSaves
    PROVE  PenaltyInv'
<1> DEFINE h == bundle.host
           m == [penalty |-> bundle.ms, at |-> now]
<1>1. /\ PolitenessTypeOK /\ h \in Hosts
      /\ m \in [penalty : Penalties, at : 0..MaxTime]
      /\ keeper \in KeeperRow
  BY DEF PenaltyInv, PolitenessTypeOK, KeeperRow
<1>2. /\ memory' = [memory EXCEPT ![h] = m] /\ bundle' = NoBundle
      /\ unsaved' = unsaved \cup {h} /\ forgot' = forgot \ {h}
      /\ UNCHANGED <<now, interval, host, fetch, reset, life, events, hold>>
  BY DEF ImportSaves, Touched, liveVars
<1>3. /\ keeper'.at = keeper.at /\ keeper'.snap = keeper.snap
      /\ keeper.since \subseteq keeper'.since
      /\ keeper' \in KeeperRow
  BY <1>1 DEF ImportSaves, DuringPass, KeeperRow
<1> HIDE DEF h, m
<1>4. memory' \in [Hosts -> [penalty : Penalties, at : 0..MaxTime]]
  BY <1>1, <1>2 DEF PolitenessTypeOK
<1>5. PolitenessTypeOK'
  BY <1>1, <1>2, <1>3, <1>4, NoneTyped DEF PolitenessTypeOK, BundleRow, KeeperRow
<1>6. MemoryExclusive' /\ SnapshotTrue'
  BY <1>2, <1>3 DEF PenaltyInv, MemoryExclusive, SnapshotTrue
<1>7. \A g \in Hosts : g # h => memory'[g] = memory[g]
  BY <1>1, <1>2 DEF PolitenessTypeOK
<1>8. StoreFollows'
  BY <1>2, <1>7 DEF PenaltyInv, StoreFollows
<1>9. ResetSticks'
  BY <1>1, <1>2, <1>7 DEF PenaltyInv, ResetSticks, PolitenessTypeOK
<1> QED
  BY <1>5, <1>6, <1>8, <1>9 DEF PenaltyInv

LEMMA PersistBeginsSafe ==
    ASSUME PenaltyInv, NEW kind \in {"writing", "final"}, PersistBegins(kind)
    PROVE  PenaltyInv'
<1>1. \A h \in Hosts : host[h].penalty \in Penalties
  BY DEF PenaltyInv, PolitenessTypeOK
<1>2. Snapshot \in [Hosts -> Penalties] /\ \A h \in Hosts : Snapshot[h] = host[h].penalty
  BY <1>1 DEF Snapshot
<1>3. /\ keeper' = [at |-> kind, snap |-> Snapshot, since |-> {}]
      /\ life # "down" /\ reset.at = "idle"
      /\ UNCHANGED <<now, interval, host, fetch, memory, reset, bundle, life, events, hold, unsaved, forgot>>
  BY DEF PersistBegins, MemoryLockFree, liveVars, historyVars
<1>4. keeper' \in KeeperRow
  BY <1>2, <1>3 DEF KeeperRow
<1>5. PolitenessTypeOK'
  BY <1>3, <1>4 DEF PenaltyInv, PolitenessTypeOK, KeeperRow
<1>6. MemoryExclusive' /\ StoreFollows' /\ ResetSticks'
  BY <1>3 DEF PenaltyInv, MemoryExclusive, StoreFollows, ResetSticks
<1>7. SnapshotTrue'
  BY <1>2, <1>3 DEF PenaltyInv, SnapshotTrue, ResetSticks, PolitenessTypeOK
<1> QED
  BY <1>5, <1>6, <1>7 DEF PenaltyInv

\* The end of a pass: nothing of it is left, and after the final one nothing at all.
LEMMA PassEndsTyped ==
    ASSUME PolitenessTypeOK, PassEnds
    PROVE  /\ keeper' \in KeeperRow /\ keeper'.at = "idle"
           /\ life' \in {"up", "draining", "down"}
           /\ fetch' \in [Callers -> FetchRow]
           /\ bundle' \in BundleRow
           /\ life' = "down" /\ life # "down" => \A c \in Callers : fetch'[c].at = "idle"
           /\ life = "down" /\ (\A c \in Callers : fetch[c].at = "idle") =>
                 \A c \in Callers : fetch'[c].at = "idle"
<1>1. keeper' \in KeeperRow /\ keeper'.at = "idle"
  BY NoneTyped DEF PassEnds, NoPass
<1>2. life' \in {"up", "draining", "down"} /\ bundle' \in BundleRow
  BY NoneTyped DEF PassEnds, PolitenessTypeOK, BundleRow
<1>3. fetch' \in [Callers -> FetchRow]
  BY NoneTyped DEF PassEnds, PolitenessTypeOK, FetchRow
<1>4. Quiet.at = "idle"
  BY DEF Quiet
<1> QED
  BY <1>1, <1>2, <1>3, <1>4 DEF PassEnds

LEMMA PersistCommitsSafe ==
    ASSUME PenaltyInv, PersistCommits
    PROVE  PenaltyInv'
<1>1. PolitenessTypeOK /\ keeper.at # "idle" /\ reset.at = "idle" /\ life # "down"
  BY DEF PenaltyInv, PersistCommits, MemoryExclusive, PolitenessTypeOK
<1>2. /\ keeper' \in KeeperRow /\ keeper'.at = "idle"
      /\ life' \in {"up", "draining", "down"}
      /\ fetch' \in [Callers -> FetchRow]
      /\ bundle' \in BundleRow
      /\ life' = "down" => \A c \in Callers : fetch'[c].at = "idle"
  BY <1>1, PassEndsTyped DEF PersistCommits
<1>3. /\ unsaved' = keeper.since
      /\ UNCHANGED <<now, interval, host, reset, events, hold, forgot>>
  BY DEF PersistCommits
<1>4. /\ memory' \in [Hosts -> [penalty : Penalties, at : 0..MaxTime]]
      /\ \A h \in Hosts : memory'[h].penalty = keeper.snap[h]
  <2>1. \A h \in Hosts : /\ Persisted(h) \in [penalty : Penalties, at : 0..MaxTime]
                         /\ Persisted(h).penalty = keeper.snap[h]
    <3> TAKE h \in Hosts
    <3>1. keeper.snap[h] \in Nat /\ keeper.snap[h] \in Penalties /\ now \in 0..MaxTime
      BY <1>1, PenaltyRange DEF PolitenessTypeOK
    <3>2. CASE keeper.snap[h] > 0
      BY <3>1, <3>2 DEF Persisted
    <3>3. CASE keeper.snap[h] = 0
      BY <3>1, <3>3, NoneTyped DEF Persisted, Forgotten
    <3> QED
      BY <3>1, <3>2, <3>3
  <2> QED
    BY <2>1 DEF PersistCommits
<1>5. PolitenessTypeOK'
  BY <1>1, <1>2, <1>3, <1>4 DEF PolitenessTypeOK, FetchRow, KeeperRow, BundleRow
<1>6. MemoryExclusive'
  BY <1>1, <1>2, <1>3 DEF MemoryExclusive
<1>7. SnapshotTrue'
  BY <1>2, <1>3 DEF PenaltyInv, SnapshotTrue
<1>8. StoreFollows'
  BY <1>1, <1>3, <1>4 DEF PenaltyInv, SnapshotTrue, StoreFollows
<1>9. ResetSticks'
  BY <1>1, <1>3, <1>4 DEF PenaltyInv, SnapshotTrue, ResetSticks, PolitenessTypeOK
<1> QED
  BY <1>5, <1>6, <1>7, <1>8, <1>9 DEF PenaltyInv

LEMMA PersistFailsSafe ==
    ASSUME PenaltyInv, PersistFails
    PROVE  PenaltyInv'
<1>1. PolitenessTypeOK /\ keeper.at # "idle" /\ reset.at = "idle" /\ life # "down"
  BY DEF PenaltyInv, PersistFails, MemoryExclusive, PolitenessTypeOK
<1>2. /\ keeper' \in KeeperRow /\ keeper'.at = "idle"
      /\ life' \in {"up", "draining", "down"}
      /\ fetch' \in [Callers -> FetchRow]
      /\ bundle' \in BundleRow
      /\ life' = "down" => \A c \in Callers : fetch'[c].at = "idle"
  BY <1>1, PassEndsTyped DEF PersistFails
<1>3. UNCHANGED <<now, interval, host, memory, reset, hold, unsaved, forgot>>
  BY DEF PersistFails, historyVars
<1>4. events' \in 0..EventBound
  BY GovernorAssumption DEF PersistFails, Event, PenaltyInv, PolitenessTypeOK
<1>5. PolitenessTypeOK'
  BY <1>1, <1>2, <1>3, <1>4 DEF PolitenessTypeOK, FetchRow, KeeperRow, BundleRow
<1>6. MemoryExclusive'
  BY <1>1, <1>2, <1>3 DEF MemoryExclusive
<1>7. SnapshotTrue' /\ StoreFollows' /\ ResetSticks'
  BY <1>2, <1>3 DEF PenaltyInv, SnapshotTrue, StoreFollows, ResetSticks
<1> QED
  BY <1>5, <1>6, <1>7 DEF PenaltyInv

LEMMA ResetClearsSafe ==
    ASSUME PenaltyInv, NEW h \in Hosts, ResetClears(h)
    PROVE  PenaltyInv'
<1>1. PolitenessTypeOK /\ life # "down" /\ keeper.at = "idle"
  BY DEF PenaltyInv, ResetClears, MemoryLockFree
<1>2. /\ reset' = [at |-> "cleared", host |-> h]
      /\ host' = [host EXCEPT ![h] = Absent]
      /\ hold' = [hold EXCEPT ![h] = 0]
      /\ unsaved' = unsaved \cup {h} /\ forgot' = forgot \cup {h}
      /\ UNCHANGED <<now, interval, memory, keeper, bundle, life>>
  BY DEF ResetClears
<1>3. fetch' \in [Callers -> FetchRow]
  <2>1. \A c \in Callers : fetch[c] \in FetchRow
    BY <1>1 DEF PolitenessTypeOK, FetchRow
  <2>2. \A c \in Callers : [fetch[c] EXCEPT !.stale = TRUE] \in FetchRow
    BY <2>1 DEF FetchRow
  <2> QED
    BY <2>1, <2>2 DEF ResetClears
<1>4. host' \in [Hosts -> HostRow]
  BY <1>1, <1>2, NoneTyped DEF PolitenessTypeOK, HostRow
<1>5. events' \in 0..EventBound
  BY GovernorAssumption DEF ResetClears, Event, PenaltyInv, PolitenessTypeOK
<1>6. PolitenessTypeOK'
  BY <1>1, <1>2, <1>3, <1>4, <1>5 DEF PolitenessTypeOK, FetchRow, HostRow
<1>7. Absent.penalty = 0
  BY DEF Absent
<1>8. host'[h] = Absent /\ \A g \in Hosts : g # h => host'[g] = host[g]
  BY <1>1, <1>2 DEF PolitenessTypeOK
<1>9. MemoryExclusive' /\ SnapshotTrue'
  BY <1>1, <1>2, <1>7, <1>8 DEF PenaltyInv, MemoryExclusive, SnapshotTrue
<1>10. StoreFollows' /\ ResetSticks'
  BY <1>1, <1>2, <1>7, <1>8 DEF PenaltyInv, StoreFollows, ResetSticks, PolitenessTypeOK, MemoryLockFree, ResetClears
<1> QED
  BY <1>6, <1>9, <1>10 DEF PenaltyInv

LEMMA ResetForgetsSafe ==
    ASSUME PenaltyInv, ResetForgets
    PROVE  PenaltyInv'
<1> DEFINE h == reset.host
<1>1. PolitenessTypeOK /\ h \in Hosts /\ keeper.at = "idle" /\ reset.at = "cleared"
  BY DEF PenaltyInv, ResetForgets, MemoryExclusive, PolitenessTypeOK
<1>2. /\ memory' = [memory EXCEPT ![h] = Forgotten]
      /\ unsaved' = IF host[h].penalty = 0 THEN unsaved \ {h} ELSE unsaved
      /\ reset' = NoReset
      /\ UNCHANGED <<now, interval, host, fetch, keeper, bundle, life, events, hold, forgot>>
  BY DEF ResetForgets, liveVars
<1>3. NoReset.at = "idle" /\ Forgotten.penalty = 0
  BY DEF NoReset, Forgotten
<1>a. memory' \in [Hosts -> [penalty : Penalties, at : 0..MaxTime]]
  BY <1>1, <1>2, NoneTyped DEF PolitenessTypeOK
<1>b. unsaved' \subseteq Hosts /\ reset' \in [at : {"idle", "cleared"}, host : Hosts]
  BY <1>1, <1>2, NoneTyped DEF PolitenessTypeOK
<1>4. PolitenessTypeOK'
  BY <1>1, <1>2, <1>a, <1>b DEF PolitenessTypeOK
<1>5. memory'[h] = Forgotten /\ \A g \in Hosts : g # h => memory'[g] = memory[g]
  BY <1>1, <1>2 DEF PolitenessTypeOK
<1>6. MemoryExclusive' /\ SnapshotTrue'
  BY <1>1, <1>2, <1>3 DEF PenaltyInv, MemoryExclusive, SnapshotTrue
<1>7. StoreFollows'
  BY <1>1, <1>2, <1>3, <1>5 DEF PenaltyInv, StoreFollows, MemoryExclusive
<1>8. ResetSticks'
  BY <1>1, <1>2, <1>3, <1>5 DEF PenaltyInv, ResetSticks, PolitenessTypeOK
<1> QED
  BY <1>4, <1>6, <1>7, <1>8 DEF PenaltyInv

LEMMA ResetFailsSafe ==
    ASSUME PenaltyInv, ResetFails
    PROVE  PenaltyInv'
<1>1. PolitenessTypeOK /\ reset.at = "cleared"
  BY DEF PenaltyInv, ResetFails
<1>2. /\ forgot' = forgot \ {reset.host} /\ reset' = NoReset
      /\ UNCHANGED <<now, interval, host, fetch, memory, keeper, bundle, life, hold, unsaved>>
  BY DEF ResetFails, liveVars
<1>3. NoReset.at = "idle"
  BY DEF NoReset
<1>4. events' \in 0..EventBound
  BY GovernorAssumption DEF ResetFails, Event, PenaltyInv, PolitenessTypeOK
<1>5. PolitenessTypeOK'
  BY <1>1, <1>2, <1>4, NoneTyped DEF PolitenessTypeOK
<1>6. MemoryExclusive' /\ SnapshotTrue' /\ StoreFollows' /\ ResetSticks'
  BY <1>1, <1>2, <1>3 DEF PenaltyInv, MemoryExclusive, SnapshotTrue, StoreFollows, ResetSticks
<1> QED
  BY <1>5, <1>6 DEF PenaltyInv

LEMMA CrashSafe ==
    ASSUME PenaltyInv, Crash
    PROVE  PenaltyInv'
<1>1. PolitenessTypeOK
  BY DEF PenaltyInv
<1>2. /\ life' = "down" /\ fetch' = [c \in Callers |-> Quiet]
      /\ keeper' = NoPass /\ reset' = NoReset /\ bundle' = NoBundle
      /\ forgot' = IF reset.at = "idle" THEN forgot ELSE forgot \ {reset.host}
      /\ UNCHANGED <<now, interval, host, memory, hold, unsaved>>
  BY DEF Crash
<1>3. NoReset.at = "idle" /\ NoPass.at = "idle" /\ Quiet.at = "idle"
  BY DEF NoReset, NoPass, Quiet
<1>4. events' \in 0..EventBound /\ fetch' \in [Callers -> FetchRow]
  BY <1>2, NoneTyped, GovernorAssumption DEF Crash, Event, PenaltyInv, PolitenessTypeOK
<1>5. PolitenessTypeOK'
  BY <1>1, <1>2, <1>4, NoneTyped DEF PolitenessTypeOK, FetchRow, KeeperRow, BundleRow
<1>6. MemoryExclusive' /\ SnapshotTrue'
  BY <1>2, <1>3 DEF PenaltyInv, MemoryExclusive, SnapshotTrue
<1>7. StoreFollows' /\ ResetSticks'
  BY <1>1, <1>2, <1>3 DEF PenaltyInv, StoreFollows, ResetSticks, PolitenessTypeOK
<1> QED
  BY <1>5, <1>6, <1>7 DEF PenaltyInv

LEMMA BootSafe ==
    ASSUME PenaltyInv, Boot
    PROVE  PenaltyInv'
<1>1. PolitenessTypeOK /\ keeper.at = "idle" /\ reset.at = "idle"
  BY DEF PenaltyInv, MemoryExclusive, Boot
<1>2. /\ life' = "up"
      /\ hold' = [h \in Hosts |-> 0]
      /\ unsaved' = {h \in Hosts : memory[h].penalty > 0 /\ ~Restorable(h)}
      /\ UNCHANGED <<now, interval, fetch, memory, keeper, reset, bundle, events, forgot>>
  BY DEF Boot, storeVars
<1>3. ASSUME NEW h \in Hosts
      PROVE  /\ host'[h] \in HostRow
             /\ ~host'[h].known => host'[h].penalty = 0
             /\ host'[h].penalty = IF Restorable(h) THEN memory[h].penalty ELSE 0
             /\ memory[h].penalty \in Nat
  <2>1. memory[h].penalty \in Penalties /\ now \in 0..MaxTime /\ now \in Nat
    BY <1>1, EntryTyped DEF PolitenessTypeOK
  <2>2. CASE Restorable(h)
    BY <2>1, <2>2, PenaltyRange DEF Boot, HostRow
  <2>3. CASE ~Restorable(h)
    <3>1. host'[h] = Absent
      BY <2>3 DEF Boot
    <3>2. memory[h].penalty \in Nat
      BY <2>1, PenaltyRange
    <3>3. host'[h] \in HostRow
      BY <3>1, NoneTyped
    <3>4. host'[h].penalty = 0
      BY <3>1 DEF Absent
    <3> QED
      BY <2>3, <3>2, <3>3, <3>4
  <2> QED
    BY <2>2, <2>3
<1>4. host' \in [Hosts -> HostRow]
  <2>1. host' = [h \in Hosts |-> host'[h]]
    BY DEF Boot
  <2> QED
    BY <1>3, <2>1
<1>5. PolitenessTypeOK'
  BY <1>1, <1>2, <1>4 DEF PolitenessTypeOK, HostRow
<1>6. MemoryExclusive' /\ SnapshotTrue'
  BY <1>1, <1>2, <1>3 DEF MemoryExclusive, SnapshotTrue
<1>7. StoreFollows'
  BY <1>2, <1>3 DEF StoreFollows
<1>8. ResetSticks'
  BY <1>1, <1>2, <1>3 DEF PenaltyInv, ResetSticks, PolitenessTypeOK
<1> QED
  BY <1>5, <1>6, <1>7, <1>8 DEF PenaltyInv

LEMMA BootForgetsSafe ==
    ASSUME PenaltyInv, BootForgets
    PROVE  PenaltyInv'
<1>1. PolitenessTypeOK /\ keeper.at = "idle" /\ reset.at = "idle"
  BY DEF PenaltyInv, MemoryExclusive, BootForgets
<1>2. /\ life' = "up"
      /\ host' = [h \in Hosts |-> Absent]
      /\ hold' = [h \in Hosts |-> 0]
      /\ unsaved' = {h \in Hosts : memory[h].penalty > 0}
      /\ UNCHANGED <<now, interval, fetch, memory, keeper, reset, bundle, forgot>>
  BY DEF BootForgets, storeVars
<1>3. ASSUME NEW h \in Hosts
      PROVE  host'[h].penalty = 0 /\ memory[h].penalty \in Nat
  <2>1. memory[h].penalty \in Penalties
    BY <1>1 DEF PolitenessTypeOK
  <2> QED
    BY <1>2, <2>1, PenaltyRange DEF Absent
<1>4. events' \in 0..EventBound /\ host' \in [Hosts -> HostRow]
  BY <1>1, <1>2, NoneTyped, GovernorAssumption DEF BootForgets, Event, PolitenessTypeOK
<1>5. PolitenessTypeOK'
  BY <1>1, <1>2, <1>4 DEF PolitenessTypeOK, HostRow
<1>6. MemoryExclusive' /\ SnapshotTrue'
  BY <1>1, <1>2, <1>3 DEF MemoryExclusive, SnapshotTrue
<1>7. StoreFollows'
  BY <1>2, <1>3 DEF StoreFollows
<1>8. ResetSticks'
  BY <1>1, <1>2, <1>3 DEF PenaltyInv, ResetSticks, PolitenessTypeOK
<1> QED
  BY <1>5, <1>6, <1>7, <1>8 DEF PenaltyInv

LEMMA PenaltyInit == PolitenessInit => PenaltyInv
<1> SUFFICES ASSUME PolitenessInit PROVE PenaltyInv
  OBVIOUS
<1>1. /\ now = 0 /\ 0 \in 0..MaxTime /\ 0 \in 0..EventBound /\ events = 0
  BY GovernorAssumption DEF PolitenessInit
<1>2. PolitenessTypeOK
  BY <1>1, NoneTyped DEF PolitenessInit, PolitenessTypeOK, HostRow, FetchRow, KeeperRow, BundleRow
<1>3. MemoryExclusive /\ SnapshotTrue /\ StoreFollows /\ ResetSticks
  BY DEF PolitenessInit, MemoryExclusive, SnapshotTrue, StoreFollows, ResetSticks,
         NoPass, NoReset, Absent, Forgotten
<1> QED
  BY <1>2, <1>3 DEF PenaltyInv

LEMMA PenaltyStep ==
    ASSUME PenaltyInv, [PolitenessNext]_politenessVars
    PROVE  PenaltyInv'
<1>1. ASSUME UNCHANGED politenessVars
      PROVE  PenaltyInv'
  BY <1>1 DEF politenessVars, liveVars, storeVars, historyVars, PenaltyInv, PolitenessTypeOK,
              MemoryExclusive, SnapshotTrue, StoreFollows, ResetSticks
<1>2. ASSUME FetchStep
      PROVE  PenaltyInv'
  BY <1>2, AcquireUnspacedSafe, AcquireSafe, FetchAloneSafe, HealthySafe, LimitedSafe DEF FetchStep
<1>3. ASSUME MemoryStep
      PROVE  PenaltyInv'
  BY <1>3, PersistBeginsSafe, PersistCommitsSafe, PersistFailsSafe, ResetClearsSafe, ResetForgetsSafe,
     ResetFailsSafe, ImportPlansSafe, ImportRaisesSafe, ImportSavesSafe, ImportFailsSafe DEF MemoryStep
<1> QED
  BY <1>1, <1>2, <1>3, EvictSafe, ShutdownSafe, CrashSafe, BootSafe, BootForgetsSafe, TickSafe
     DEF PolitenessNext

\* The penalties in memory and in tier_memory agree wherever nothing is pending, through
\* every interleaving of answers, write-behind passes, resets, imports, crashes and boots.
THEOREM PenaltyInvariant == PolitenessSpec => []PenaltyInv
BY PenaltyInit, PenaltyStep, PTL DEF PolitenessSpec

\* A host whose penalty did not change since the last committed pass began is remembered
\* exactly.
THEOREM StoreAlwaysFollows == PolitenessSpec => []StoreFollows
<1>1. PenaltyInv => StoreFollows
  BY DEF PenaltyInv
<1> QED
  BY <1>1, PenaltyInvariant, PTL

\* A host that was reset stays forgotten, live and on disk, until it is taught again.
THEOREM ResetAlwaysSticks == PolitenessSpec => []ResetSticks
<1>1. PenaltyInv => ResetSticks
  BY DEF PenaltyInv
<1> QED
  BY <1>1, PenaltyInvariant, PTL

-----------------------------------------------------------------------------
(* The slots *)

\* Nobody holds a slot of h and no back-off is under way.
Fresh(h) ==
    /\ hold'[h] = 0 /\ host'[h].seen <= now'
    /\ \A c \in Callers : ~Holds(c, h)'

\* No back-off of h begins, or one that its next slot respects.
HoldRespected(h) ==
    \/ hold'[h] \in {0, hold[h]}
    \/ /\ host'[h].known
       /\ hold'[h] <= SlotFor(h)' /\ hold'[h] <= host'[h].seen + PenaltyCap

\* The next slot of h does not come nearer, and h is not forgotten.
Advances(h) ==
    /\ SlotFor(h)' >= SlotFor(h)
    /\ host[h].known => host'[h].known
    /\ host'[h].seen = now' \/ host'[h] = host[h]
    /\ HoldRespected(h)

\* No one is given a slot of a limited host.
NoClaim(h) ==
    \A c \in Callers : (interval[h] > 0 /\ Holds(c, h)')
                            => (Holds(c, h) /\ fetch'[c].slot = fetch[c].slot)

\* What the arguments about slots compare are numbers.
Numbers ==
    /\ \A h \in Hosts : /\ interval[h] \in Nat /\ SlotFor(h) \in Nat /\ hold[h] \in Nat
                        /\ host[h].seen \in Nat /\ now <= SlotFor(h)
                        /\ host[h].next \in Nat /\ host[h].known \in BOOLEAN
    /\ \A c \in Callers : fetch[c].slot \in Nat
    /\ now \in Nat /\ QueueBound \in Nat /\ PenaltyCap \in Nat /\ IdleTtl \in Nat

LEMMA SlotNumbers == PolitenessTypeOK => Numbers
<1> SUFFICES ASSUME PolitenessTypeOK PROVE Numbers
  OBVIOUS
<1>1. now \in Nat /\ QueueBound \in Nat /\ PenaltyCap \in Nat /\ IdleTtl \in Nat
  BY GovernorAssumption DEF PolitenessTypeOK
<1>2. \A h \in Hosts : /\ interval[h] \in Nat /\ hold[h] \in Nat
                       /\ host[h].seen \in Nat /\ host[h].next \in Nat /\ host[h].known \in BOOLEAN
  BY GovernorAssumption DEF PolitenessTypeOK
<1>3. \A h \in Hosts : SlotFor(h) \in Nat /\ now <= SlotFor(h)
  BY EntryTyped
<1>4. \A c \in Callers : fetch[c].slot \in Nat
  BY DEF PolitenessTypeOK
<1> QED
  BY <1>1, <1>2, <1>3, <1>4 DEF Numbers

LEMMA SlotNumbersNext == PolitenessTypeOK' => Numbers'
BY SlotNumbers, PTL

LEMMA AdvanceSafe ==
    ASSUME PenaltyInv, PenaltyInv', SlotInv, interval' = interval, now' >= now,
           \A h \in Hosts : Fresh(h) \/ (Advances(h) /\ NoClaim(h))
    PROVE  SlotInv'
<1>1. Numbers /\ Numbers'
  BY SlotNumbers, SlotNumbersNext DEF PenaltyInv
<1>2. HoldBelowNext'
  <2> SUFFICES ASSUME NEW h \in Hosts
               PROVE  /\ host'[h].seen <= now'
                      /\ hold'[h] <= SlotFor(h)'
                      /\ hold'[h] <= now' \/ (host'[h].known /\ hold'[h] <= host'[h].seen + PenaltyCap)
    BY DEF HoldBelowNext
  <2>1. CASE Fresh(h)
    BY <1>1, <2>1 DEF Fresh, Numbers
  <2>2. CASE Advances(h)
    <3>1. host'[h].seen <= now'
      BY <1>1, <2>2 DEF Advances, Numbers, SlotInv, HoldBelowNext
    <3>2. CASE hold'[h] \in {0, hold[h]}
      BY <1>1, <2>2, <3>1, <3>2 DEF Advances, Numbers, SlotInv, HoldBelowNext
    <3>3. CASE ~(hold'[h] \in {0, hold[h]})
      BY <2>2, <3>1, <3>3 DEF Advances, HoldRespected
    <3> QED
      BY <3>2, <3>3
  <2> QED
    BY <2>1, <2>2
<1>3. SlotsBelowNext'
  <2> SUFFICES ASSUME NEW c \in Callers, NEW h \in Hosts, Holds(c, h)', interval'[h] > 0
               PROVE  /\ fetch'[c].slot + interval'[h] <= SlotFor(h)'
                      /\ host'[h].known => fetch'[c].slot <= host'[h].seen + QueueBound
    BY DEF SlotsBelowNext
  <2>1. Advances(h) /\ Holds(c, h) /\ fetch'[c].slot = fetch[c].slot /\ interval[h] > 0
    BY DEF Fresh, NoClaim
  <2>2. fetch[c].slot + interval[h] <= SlotFor(h)
    BY <2>1 DEF SlotInv, SlotsBelowNext
  <2>3. fetch[c].slot <= host[h].seen + QueueBound \/ (~host[h].known /\ SlotFor(h) = now)
    BY <2>1, <1>1 DEF SlotInv, SlotsBelowNext, SlotFor, Entry, Later, Numbers
  <2> QED
    BY <1>1, <2>1, <2>2, <2>3 DEF Advances, Numbers, SlotInv, HoldBelowNext
<1>4. SlotsSpaced'
  <2> SUFFICES ASSUME NEW c \in Callers, NEW d \in Callers, NEW h \in Hosts,
                      c # d, Holds(c, h)', Holds(d, h)'
               PROVE  \/ fetch'[c].slot >= fetch'[d].slot + interval'[h]
                      \/ fetch'[d].slot >= fetch'[c].slot + interval'[h]
    BY DEF SlotsSpaced
  <2>1. CASE interval[h] = 0
    BY <1>1, <2>1 DEF Numbers
  <2>2. CASE interval[h] > 0
    <3>1. /\ Holds(c, h) /\ fetch'[c].slot = fetch[c].slot
          /\ Holds(d, h) /\ fetch'[d].slot = fetch[d].slot
      BY <2>2 DEF Fresh, NoClaim
    <3> QED
      BY <3>1 DEF SlotInv, SlotsSpaced
  <2> QED
    BY <1>1, <2>1, <2>2 DEF Numbers
<1> QED
  BY <1>2, <1>3, <1>4 DEF SlotInv

\* A host whose entry stays advances with the clock.
LEMMA StillAdvances ==
    ASSUME PenaltyInv, PenaltyInv', NEW h \in Hosts, host'[h] = host[h], now' >= now,
           hold'[h] \in {0, hold[h]}
    PROVE  Advances(h)
<1>1. Numbers /\ Numbers'
  BY SlotNumbers, SlotNumbersNext DEF PenaltyInv
<1>2. SlotFor(h)' >= SlotFor(h)
  BY <1>1 DEF SlotFor, Entry, Later, Numbers
<1> QED
  BY <1>2 DEF Advances, HoldRespected

\* A host whose entry is made or replaced, with a next slot that does not come nearer.
LEMMA SeenAdvances ==
    ASSUME PenaltyInv, PenaltyInv', NEW h \in Hosts, now' = now, HoldRespected(h),
           host'[h].known, host'[h].seen = now, host'[h].next >= Entry(h).next
    PROVE  Advances(h)
<1>1. Numbers /\ Numbers' /\ Entry(h) \in HostRow
  BY SlotNumbers, SlotNumbersNext, EntryTyped DEF PenaltyInv
<1>2. Entry(h).next \in Nat
  BY <1>1 DEF HostRow
<1>3. Entry(h)' = host'[h]
  BY DEF Entry
<1>4. SlotFor(h)' >= SlotFor(h)
  BY <1>1, <1>2, <1>3 DEF SlotFor, Later, Numbers
<1> QED
  BY <1>4 DEF Advances

LEMMA FetchLeavesSlots ==
    ASSUME PenaltyInv, PenaltyInv', SlotInv, NEW c \in Callers,
           \/ SendRequest(c) \/ GiveUp(c) \/ Neutral(c)
           \/ \E h \in Hosts : AcquireUnspaced(c, h)
    PROVE  SlotInv'
<1>1. fetch \in [Callers -> FetchRow]
  BY DEF PenaltyInv, PolitenessTypeOK, FetchRow
<1>2. UNCHANGED <<now, interval, host, hold>>
  BY DEF SendRequest, GiveUp, Neutral, AcquireUnspaced, historyVars
<1>3. ASSUME NEW h \in Hosts PROVE NoClaim(h)
  <2> SUFFICES ASSUME NEW d \in Callers, interval[h] > 0, Holds(d, h)'
               PROVE  Holds(d, h) /\ fetch'[d].slot = fetch[d].slot
    BY DEF NoClaim
  <2>1. CASE d # c
    BY <1>1, <2>1 DEF Holds, SendRequest, GiveUp, Neutral, AcquireUnspaced
  <2>2. CASE d = c /\ SendRequest(c)
    <3>1. /\ fetch[c] \in FetchRow /\ fetch[c].at = "claimed"
          /\ fetch'[c] = [fetch[c] EXCEPT !.at = "sent"]
      BY <1>1, <2>2 DEF SendRequest
    <3>2. fetch'[c].host = fetch[c].host /\ fetch'[c].slot = fetch[c].slot /\ fetch'[c].stale = fetch[c].stale
      BY <3>1 DEF FetchRow
    <3> QED
      BY <2>2, <3>1, <3>2 DEF Holds
  <2>3. CASE d = c /\ (GiveUp(c) \/ Neutral(c))
    BY <1>1, <2>3 DEF Holds, GiveUp, Neutral, Quiet
  <2>4. ASSUME NEW g \in Hosts, d = c, AcquireUnspaced(c, g) PROVE FALSE
    <3>1. interval[g] = 0
      BY <2>4 DEF AcquireUnspaced, Unspaced
    <3>2. fetch'[c] = [Quiet EXCEPT !.at = "sent", !.host = g]
      BY <1>1, <2>4 DEF AcquireUnspaced
    <3>3. fetch'[c].host = g
      BY <3>2 DEF Quiet
    <3> QED
      BY <2>4, <3>1, <3>3 DEF Holds
  <2> QED
    BY <2>1, <2>2, <2>3, <2>4
<1>4. now' >= now
  BY <1>2, SlotNumbers DEF PenaltyInv, Numbers
<1>5. ASSUME NEW h \in Hosts PROVE Advances(h)
  BY <1>2, <1>4, StillAdvances
<1> QED
  BY <1>2, <1>3, <1>4, <1>5, AdvanceSafe

\* Steps that leave the fetches alone claim nothing.
LEMMA FetchSame ==
    ASSUME UNCHANGED <<fetch, interval>>, NEW h \in Hosts
    PROVE  NoClaim(h)
BY DEF NoClaim, Holds

LEMMA StoreLeavesSlots ==
    ASSUME PenaltyInv, PenaltyInv', SlotInv, UNCHANGED <<fetch, interval, now, host, hold>>
    PROVE  SlotInv'
<1>1. now' >= now
  BY SlotNumbers DEF PenaltyInv, Numbers
<1>2. ASSUME NEW h \in Hosts PROVE Advances(h) /\ NoClaim(h)
  BY <1>1, StillAdvances, FetchSame
<1> QED
  BY <1>1, <1>2, AdvanceSafe

LEMMA TickAdvances ==
    ASSUME PenaltyInv, PenaltyInv', SlotInv, Tick
    PROVE  SlotInv'
<1>1. now' >= now /\ UNCHANGED <<fetch, interval, host>>
  BY SlotNumbers DEF PenaltyInv, Numbers, Tick, liveVars
<1>2. ASSUME NEW h \in Hosts PROVE Advances(h) /\ NoClaim(h)
  <2>1. hold'[h] \in {0, hold[h]}
    BY DEF Tick
  <2> QED
    BY <1>1, <2>1, StillAdvances, FetchSame
<1> QED
  BY <1>1, <1>2, AdvanceSafe

\* Nobody fetches in a process that stopped.
LEMMA IdleHoldsNothing ==
    ASSUME \A c \in Callers : fetch'[c].at = "idle", NEW h \in Hosts
    PROVE  NoClaim(h) /\ \A c \in Callers : ~Holds(c, h)'
BY DEF NoClaim, Holds

LEMMA PassEndsSlots ==
    ASSUME PenaltyInv, PenaltyInv', SlotInv, PersistCommits \/ PersistFails \/ Crash
    PROVE  SlotInv'
<1>1. UNCHANGED <<now, interval, host, hold>>
  BY DEF PersistCommits, PersistFails, Crash, historyVars
<1>2. now' >= now
  BY <1>1, SlotNumbers DEF PenaltyInv, Numbers
<1>3. fetch' = fetch \/ \A c \in Callers : fetch'[c].at = "idle"
  <2>1. Quiet.at = "idle"
    BY DEF Quiet
  <2> QED
    BY <2>1 DEF PersistCommits, PersistFails, Crash, PassEnds
<1>4. ASSUME NEW h \in Hosts PROVE Advances(h) /\ NoClaim(h)
  BY <1>1, <1>2, <1>3, StillAdvances, FetchSame, IdleHoldsNothing
<1> QED
  BY <1>1, <1>2, <1>4, AdvanceSafe

LEMMA BootSlots ==
    ASSUME PenaltyInv, PenaltyInv', SlotInv, Boot \/ BootForgets
    PROVE  SlotInv'
<1>1. UNCHANGED <<now, interval, fetch>> /\ \A c \in Callers : fetch'[c].at = "idle"
  BY DEF Boot, BootForgets, PenaltyInv, MemoryExclusive
<1>2. now' >= now /\ now \in Nat
  BY <1>1, SlotNumbers DEF PenaltyInv, Numbers
<1>3. ASSUME NEW h \in Hosts PROVE Fresh(h)
  <2>1. host'[h].seen <= now' /\ hold'[h] = 0
    BY <1>1, <1>2 DEF Boot, BootForgets, Absent
  <2> QED
    BY <1>1, <2>1, IdleHoldsNothing DEF Fresh
<1> QED
  BY <1>1, <1>2, <1>3, AdvanceSafe

LEMMA ResetSlots ==
    ASSUME PenaltyInv, PenaltyInv', SlotInv, NEW h \in Hosts, ResetClears(h)
    PROVE  SlotInv'
<1>1. /\ UNCHANGED <<now, interval>>
      /\ fetch' = [c \in Callers |-> IF fetch[c].host = h THEN [fetch[c] EXCEPT !.stale = TRUE] ELSE fetch[c]]
      /\ host' = [host EXCEPT ![h] = Absent] /\ hold' = [hold EXCEPT ![h] = 0]
      /\ fetch \in [Callers -> FetchRow]
      /\ host \in [Hosts -> HostRow] /\ hold \in [Hosts -> Nat]
  BY DEF ResetClears, PenaltyInv, PolitenessTypeOK, FetchRow, HostRow
<1>2. now' >= now /\ now \in Nat
  BY <1>1, SlotNumbers DEF PenaltyInv, Numbers
<1>3. Fresh(h)
  <2>1. hold'[h] = 0 /\ host'[h].seen <= now'
    BY <1>1, <1>2 DEF Absent
  <2>2. ASSUME NEW c \in Callers PROVE ~Holds(c, h)'
    BY <1>1 DEF Holds, FetchRow
  <2> QED
    BY <2>1, <2>2 DEF Fresh
<1>4. ASSUME NEW g \in Hosts, g # h PROVE Advances(g) /\ NoClaim(g)
  <2>1. host'[g] = host[g] /\ hold'[g] = hold[g]
    BY <1>1, <1>4
  <2>2. NoClaim(g)
    <3> SUFFICES ASSUME NEW c \in Callers, Holds(c, g)'
                 PROVE  Holds(c, g) /\ fetch'[c].slot = fetch[c].slot
      BY DEF NoClaim
    <3>1. fetch'[c] = fetch[c] \/ (fetch[c].host = h /\ fetch'[c] = [fetch[c] EXCEPT !.stale = TRUE])
      BY <1>1
    <3> QED
      BY <1>1, <1>4, <3>1 DEF Holds, FetchRow
  <2> QED
    BY <1>2, <2>1, <2>2, StillAdvances
<1> QED
  BY <1>1, <1>2, <1>3, <1>4, AdvanceSafe

LEMMA EvictSlots ==
    ASSUME IdleOutlasts, PenaltyInv, PenaltyInv', SlotInv, Evict
    PROVE  SlotInv'
<1>1. UNCHANGED <<now, interval, fetch, hold>> /\ Numbers /\ Numbers'
  BY SlotNumbers, SlotNumbersNext DEF PenaltyInv, Evict, historyVars
<1>2. ASSUME NEW h \in Hosts, Evictable(h)
      PROVE  /\ host'[h] = Absent /\ SlotFor(h)' = now
             /\ host[h].known /\ host[h].seen + IdleTtl <= now
             /\ interval[h] \in Intervals
  <2>1. host'[h] = Absent
    BY <1>2 DEF Evict
  <2>2. SlotFor(h)' = now
    BY <1>1, <2>1 DEF SlotFor, Entry, Absent, Later, Numbers
  <2>3. host[h].known /\ host[h].seen + IdleTtl <= now
    BY <1>1, <1>2 DEF Evictable, Numbers
  <2>4. interval[h] \in Intervals
    BY DEF PenaltyInv, PolitenessTypeOK
  <2> QED
    BY <2>1, <2>2, <2>3, <2>4
<1>3. ASSUME NEW h \in Hosts, ~Evictable(h)
      PROVE  host'[h] = host[h] /\ SlotFor(h)' = SlotFor(h)
  <2>1. host'[h] = host[h]
    BY <1>3 DEF Evict
  <2> QED
    BY <1>1, <2>1 DEF SlotFor, Entry
<1>4. HoldBelowNext'
  <2> SUFFICES ASSUME NEW h \in Hosts
               PROVE  /\ host'[h].seen <= now'
                      /\ hold'[h] <= SlotFor(h)'
                      /\ hold'[h] <= now' \/ (host'[h].known /\ hold'[h] <= host'[h].seen + PenaltyCap)
    BY DEF HoldBelowNext
  <2>1. CASE Evictable(h)
    <3>1. hold[h] <= now
      BY <1>1, <1>2, <2>1 DEF SlotInv, HoldBelowNext, Numbers, IdleOutlasts
    <3>2. host'[h].seen = 0
      BY <1>2, <2>1 DEF Absent
    <3> QED
      BY <1>1, <1>2, <2>1, <3>1, <3>2 DEF Numbers
  <2>2. CASE ~Evictable(h)
    BY <1>1, <1>3, <2>2 DEF SlotInv, HoldBelowNext
  <2> QED
    BY <2>1, <2>2
<1>5. SlotsBelowNext'
  <2> SUFFICES ASSUME NEW c \in Callers, NEW h \in Hosts, Holds(c, h)', interval'[h] > 0
               PROVE  /\ fetch'[c].slot + interval'[h] <= SlotFor(h)'
                      /\ host'[h].known => fetch'[c].slot <= host'[h].seen + QueueBound
    BY DEF SlotsBelowNext
  <2>1. Holds(c, h) /\ interval[h] > 0 /\ fetch'[c].slot = fetch[c].slot
    BY <1>1 DEF Holds
  <2>2. CASE Evictable(h)
    <3>1. fetch[c].slot <= host[h].seen + QueueBound /\ QueueBound + interval[h] <= IdleTtl
      BY <1>2, <2>1, <2>2 DEF SlotInv, SlotsBelowNext, IdleOutlasts
    <3>2. fetch[c].slot + interval[h] <= now
      BY <1>1, <1>2, <2>2, <3>1 DEF Numbers
    <3> QED
      BY <1>1, <1>2, <2>1, <2>2, <3>2 DEF Absent
  <2>3. CASE ~Evictable(h)
    BY <1>1, <1>3, <2>1, <2>3 DEF SlotInv, SlotsBelowNext
  <2> QED
    BY <2>2, <2>3
<1>6. SlotsSpaced'
  BY <1>1 DEF SlotInv, SlotsSpaced, Holds
<1> QED
  BY <1>4, <1>5, <1>6 DEF SlotInv

\* Taking a slot moves the next one an interval past it.
LEMMA TakenSlot ==
    ASSUME PenaltyInv, PenaltyInv', NEW h \in Hosts, TakeSlot(h), UNCHANGED <<now, interval, hold>>
    PROVE  /\ Advances(h)
           /\ SlotFor(h)' >= SlotFor(h) + interval[h]
           /\ host'[h].seen = now /\ host'[h].known
           /\ \A g \in Hosts : g # h => host'[g] = host[g] /\ Advances(g)
<1> DEFINE n == SlotFor(h) + interval[h] + Entry(h).penalty
           e == [Entry(h) EXCEPT !.seen = now, !.next = n]
<1>1. /\ Numbers /\ Entry(h) \in HostRow /\ Entry(h).known
      /\ host \in [Hosts -> HostRow]
  BY SlotNumbers, EntryTyped DEF PenaltyInv, PolitenessTypeOK, HostRow
<1>2. Entry(h).penalty \in Nat /\ Entry(h).next \in Nat
  BY <1>1, PenaltyRange DEF HostRow
<1>3. n \in Nat /\ n >= SlotFor(h) + interval[h] /\ n >= Entry(h).next
  BY <1>1, <1>2 DEF Numbers, SlotFor, Later
<1>4. e.seen = now /\ e.next = n /\ e.known
  BY <1>1, <1>3 DEF HostRow
<1>5. host' = [host EXCEPT ![h] = e]
  BY DEF TakeSlot
<1> HIDE DEF e, n
<1>6. host'[h] = e
  BY <1>1, <1>5
<1>7. Advances(h)
  BY <1>3, <1>4, <1>6, SeenAdvances DEF HoldRespected
<1>8. SlotFor(h)' >= SlotFor(h) + interval[h]
  <2>1. SlotFor(h)' = Later(n, now)
    BY <1>4, <1>6 DEF SlotFor, Entry
  <2> QED
    BY <1>1, <1>3, <2>1 DEF Later, Numbers
<1>9. ASSUME NEW g \in Hosts, g # h PROVE host'[g] = host[g] /\ Advances(g)
  <2>1. host'[g] = host[g]
    BY <1>1, <1>5, <1>9
  <2>2. now' >= now
    BY <1>1 DEF Numbers
  <2> QED
    BY <2>1, <2>2, StillAdvances
<1> QED
  BY <1>4, <1>6, <1>7, <1>8, <1>9

LEMMA TryAcquireSlots ==
    ASSUME PenaltyInv, PenaltyInv', SlotInv, NEW c \in Callers, NEW h \in Hosts, TryAcquire(c, h)
    PROVE  SlotInv'
<1>1. UNCHANGED <<now, interval, hold>> /\ TakeSlot(h) /\ now' >= now
  BY SlotNumbers DEF PenaltyInv, Numbers, TryAcquire, historyVars
<1>2. \A g \in Hosts : Advances(g)
  BY <1>1, TakenSlot
<1>3. ASSUME NEW g \in Hosts PROVE NoClaim(g)
  <2>1. fetch \in [Callers -> FetchRow]
    BY DEF PenaltyInv, PolitenessTypeOK, FetchRow
  <2>2. fetch' = [fetch EXCEPT ![c] = [Quiet EXCEPT !.at = "probed", !.host = h]]
    BY DEF TryAcquire
  <2>3. fetch'[c].at = "probed"
    BY <2>1, <2>2 DEF Quiet
  <2>4. \A d \in Callers : d # c => fetch'[d] = fetch[d]
    BY <2>1, <2>2
  <2> QED
    BY <2>3, <2>4 DEF NoClaim, Holds
<1> QED
  BY <1>1, <1>2, <1>3, AdvanceSafe

LEMMA AcquireSlots ==
    ASSUME PenaltyInv, PenaltyInv', SlotInv, NEW c \in Callers, NEW h \in Hosts, Acquire(c, h)
    PROVE  SlotInv'
<1>1. /\ UNCHANGED <<now, interval, hold>> /\ TakeSlot(h) /\ now' >= now
      /\ Numbers /\ Numbers'
  BY SlotNumbers, SlotNumbersNext DEF PenaltyInv, Numbers, Acquire, historyVars
<1>2. /\ \A g \in Hosts : Advances(g)
      /\ \A g \in Hosts : g # h => host'[g] = host[g]
      /\ SlotFor(h)' >= SlotFor(h) + interval[h]
      /\ host'[h].seen = now /\ host'[h].known
  BY <1>1, TakenSlot
<1>3. /\ fetch'[c].at = "claimed" /\ fetch'[c].host = h /\ fetch'[c].slot = SlotFor(h)
      /\ \A d \in Callers : d # c => fetch'[d] = fetch[d]
  <2>1. fetch \in [Callers -> FetchRow]
    BY DEF PenaltyInv, PolitenessTypeOK, FetchRow
  <2>2. fetch' = [fetch EXCEPT ![c] = [Quiet EXCEPT !.at = "claimed", !.host = h, !.slot = SlotFor(h)]]
    BY DEF Acquire
  <2>3. fetch'[c] = [Quiet EXCEPT !.at = "claimed", !.host = h, !.slot = SlotFor(h)]
    BY <2>1, <2>2
  <2>4. \A d \in Callers : d # c => fetch'[d] = fetch[d]
    BY <2>1, <2>2
  <2> QED
    BY <2>3, <2>4 DEF Quiet
<1>4. HoldBelowNext'
  BY <1>1, <1>2 DEF SlotInv, HoldBelowNext, Advances, Numbers
<1>5. ASSUME NEW d \in Callers, NEW g \in Hosts, d # c, Holds(d, g)'
      PROVE  Holds(d, g) /\ fetch'[d].slot = fetch[d].slot
  BY <1>3, <1>5 DEF Holds
<1>6. SlotsBelowNext'
  <2> SUFFICES ASSUME NEW d \in Callers, NEW g \in Hosts, Holds(d, g)', interval'[g] > 0
               PROVE  /\ fetch'[d].slot + interval'[g] <= SlotFor(g)'
                      /\ host'[g].known => fetch'[d].slot <= host'[g].seen + QueueBound
    BY DEF SlotsBelowNext
  <2>1. CASE d = c
    <3>1. g = h /\ SlotFor(h) <= now + QueueBound
      BY <1>3, <2>1 DEF Holds, Acquire
    <3> QED
      BY <1>1, <1>2, <1>3, <2>1, <3>1 DEF Numbers
  <2>2. CASE d # c
    <3>1. Holds(d, g) /\ fetch'[d].slot = fetch[d].slot /\ interval[g] > 0
      BY <1>1, <1>5, <2>2
    <3>2. fetch[d].slot + interval[g] <= SlotFor(g)
      BY <3>1 DEF SlotInv, SlotsBelowNext
    <3>3. fetch[d].slot <= host[g].seen + QueueBound \/ (~host[g].known /\ SlotFor(g) = now)
      BY <1>1, <3>1 DEF SlotInv, SlotsBelowNext, SlotFor, Entry, Later, Numbers
    <3> QED
      BY <1>1, <1>2, <3>1, <3>2, <3>3 DEF Advances, Numbers, SlotInv, HoldBelowNext
  <2> QED
    BY <2>1, <2>2
<1>7. ASSUME NEW d \in Callers, NEW g \in Hosts, d # c, Holds(c, g)', Holds(d, g)', interval[g] > 0
      PROVE  fetch'[c].slot >= fetch'[d].slot + interval'[g]
  <2>1. g = h /\ Holds(d, h) /\ fetch'[d].slot = fetch[d].slot
    BY <1>3, <1>5, <1>7 DEF Holds
  <2>2. fetch[d].slot + interval[h] <= SlotFor(h)
    BY <1>7, <2>1 DEF SlotInv, SlotsBelowNext
  <2> QED
    BY <1>1, <1>3, <2>1, <2>2 DEF Numbers
<1>8. SlotsSpaced'
  <2> SUFFICES ASSUME NEW a \in Callers, NEW b \in Callers, NEW g \in Hosts,
                      a # b, Holds(a, g)', Holds(b, g)'
               PROVE  \/ fetch'[a].slot >= fetch'[b].slot + interval'[g]
                      \/ fetch'[b].slot >= fetch'[a].slot + interval'[g]
    BY DEF SlotsSpaced
  <2>1. CASE interval[g] = 0
    BY <1>1, <2>1 DEF Numbers
  <2>2. CASE interval[g] > 0 /\ (a = c \/ b = c)
    BY <1>7, <2>2
  <2>3. CASE a # c /\ b # c
    BY <1>1, <1>5, <2>3 DEF SlotInv, SlotsSpaced
  <2> QED
    BY <1>1, <2>1, <2>2, <2>3 DEF Numbers
<1> QED
  BY <1>4, <1>6, <1>8 DEF SlotInv

\* An answer ends its fetch.
LEMMA AnswerHoldsNothing ==
    ASSUME PenaltyInv, NEW c \in Callers, fetch' = [fetch EXCEPT ![c] = Quiet], NEW g \in Hosts
    PROVE  NoClaim(g)
<1>1. /\ fetch'[c].at = "idle"
      /\ \A d \in Callers : d # c => fetch'[d] = fetch[d]
  BY DEF PenaltyInv, PolitenessTypeOK, Quiet
<1> QED
  BY <1>1 DEF NoClaim, Holds

LEMMA HealthySlots ==
    ASSUME PenaltyInv, PenaltyInv', SlotInv, NEW c \in Callers, Healthy(c)
    PROVE  SlotInv'
<1> DEFINE h == fetch[c].host
<1>1. UNCHANGED <<now, interval, hold>> /\ now' >= now /\ h \in Hosts
  BY SlotNumbers DEF PenaltyInv, PolitenessTypeOK, Numbers, Healthy
<1>2. ASSUME NEW g \in Hosts PROVE NoClaim(g)
  BY AnswerHoldsNothing DEF Healthy
<1>3. CASE host[h].penalty = 0
  <2>1. host' = host
    BY <1>3 DEF Healthy
  <2>2. ASSUME NEW g \in Hosts PROVE Advances(g)
    BY <1>1, <2>1, StillAdvances
  <2> QED
    BY <1>1, <1>2, <2>2, AdvanceSafe
<1>4. CASE host[h].penalty # 0
  <2>1. host \in [Hosts -> HostRow] /\ host[h].known
    BY <1>1, <1>4 DEF PenaltyInv, PolitenessTypeOK, HostRow, SnapshotTrue
  <2>2. host' = [host EXCEPT ![h].seen = now, ![h].penalty = Halved(@)]
    BY <1>4 DEF Healthy
  <2> HIDE DEF h
  <2>3. /\ host'[h].known /\ host'[h].seen = now /\ host'[h].next = host[h].next
        /\ \A g \in Hosts : g # h => host'[g] = host[g]
    BY <1>1, <2>1, <2>2 DEF HostRow
  <2>4. host'[h].next >= Entry(h).next
    BY <1>1, <2>1, <2>3, SlotNumbers DEF Entry, PenaltyInv, Numbers
  <2>a. ASSUME NEW g \in Hosts, g = h PROVE Advances(g)
    BY <1>1, <2>3, <2>4, <2>a, SeenAdvances DEF HoldRespected
  <2>5. ASSUME NEW g \in Hosts PROVE Advances(g)
    BY <1>1, <2>3, <2>a, StillAdvances
  <2> QED
    BY <1>1, <1>2, <2>5, AdvanceSafe
<1> QED
  BY <1>3, <1>4

LEMMA ImportRaisesSlots ==
    ASSUME PenaltyInv, PenaltyInv', SlotInv, ImportRaises
    PROVE  SlotInv'
<1>h. PICK h \in Hosts : h = bundle.host
  BY DEF PenaltyInv, PolitenessTypeOK
<1> DEFINE p == Sooner(bundle.ms, PenaltyCap)
           e == [Entry(h) EXCEPT !.seen = now, !.penalty = p]
           r == IF p = 0 THEN host[h] ELSE Entry(h)
<1>1. UNCHANGED <<now, interval, hold, fetch>> /\ now' >= now
  BY SlotNumbers DEF PenaltyInv, PolitenessTypeOK, Numbers, ImportRaises
<1>2. /\ host \in [Hosts -> HostRow] /\ Entry(h) \in HostRow /\ Entry(h).known
      /\ Numbers
  BY <1>1, EntryTyped, SlotNumbers DEF PenaltyInv, PolitenessTypeOK, HostRow
<1>3. host' = [host EXCEPT ![h] = r] \/ host' = [host EXCEPT ![h] = e]
  BY <1>h DEF ImportRaises
<1>4. \A g \in Hosts : g # h => host'[g] = host[g]
  BY <1>2, <1>3
<1>5. e.known /\ e.seen = now /\ e.next = Entry(h).next
  BY <1>2 DEF HostRow
<1>6. r = host[h] \/ (r = Entry(h) /\ ~host[h].known)
  BY DEF Entry
<1>7. Entry(h).next >= Entry(h).next
  BY <1>2 DEF HostRow
<1>8. Advances(h)
  <2>1. CASE host' = [host EXCEPT ![h] = e]
    <3> HIDE DEF e
    <3>1. host'[h] = e
      BY <1>1, <1>2, <2>1
    <3> QED
      BY <1>1, <1>5, <1>7, <3>1, SeenAdvances DEF HoldRespected
  <2>2. CASE host' = [host EXCEPT ![h] = r] /\ r = host[h]
    <3> HIDE DEF r
    <3>1. host'[h] = host[h]
      BY <1>1, <1>2, <2>2
    <3> QED
      BY <1>1, <3>1, StillAdvances
  <2>3. CASE host' = [host EXCEPT ![h] = r] /\ r = Entry(h) /\ ~host[h].known
    <3>1. Entry(h).seen = now
      BY <2>3 DEF Entry
    <3> HIDE DEF r
    <3>2. host'[h] = Entry(h)
      BY <1>1, <1>2, <2>3
    <3> QED
      BY <1>1, <1>2, <1>7, <3>1, <3>2, SeenAdvances DEF HoldRespected
  <2> QED
    BY <1>3, <1>6, <2>1, <2>2, <2>3
<1> HIDE DEF e, r, p
<1>9. ASSUME NEW g \in Hosts PROVE Advances(g) /\ NoClaim(g)
  <2>1. g # h => Advances(g)
    BY <1>1, <1>4, StillAdvances
  <2>2. NoClaim(g)
    BY <1>1, FetchSame
  <2> QED
    BY <1>8, <2>1, <2>2
<1> QED
  BY <1>1, <1>9, AdvanceSafe

LEMMA LimitedSlots ==
    ASSUME PenaltyInv, PenaltyInv', SlotInv, NEW c \in Callers, NEW ra \in RetryAfters, Limited(c, ra)
    PROVE  SlotInv'
<1>h. PICK h \in Hosts : h = fetch[c].host
  BY DEF PenaltyInv, PolitenessTypeOK
<1> DEFINE e == PenalizedEntry(h, ra)
<1>1. UNCHANGED <<now, interval>> /\ now' >= now /\ PolitenessTypeOK
  BY SlotNumbers DEF PenaltyInv, PolitenessTypeOK, Numbers, Limited
<1>2. /\ e \in HostRow /\ e.known /\ e.seen = now /\ e.penalty \in Nat /\ e.penalty <= PenaltyCap
      /\ e.next >= Entry(h).next /\ e.next >= now + e.penalty
  BY <1>1, PenalizedTyped
<1>3. /\ host' = [host EXCEPT ![h] = e]
      /\ fetch' = [fetch EXCEPT ![c] = Quiet]
      /\ hold' = [hold EXCEPT ![h] = Later(hold[h], now + e.penalty)]
  BY <1>h DEF Limited
<1>4. Numbers /\ host \in [Hosts -> HostRow] /\ hold \in [Hosts -> Nat] /\ Entry(h) \in HostRow
  BY <1>1, SlotNumbers, EntryTyped DEF PolitenessTypeOK, HostRow
<1> HIDE DEF e
<1>5. /\ host'[h] = e /\ hold'[h] = Later(hold[h], now + e.penalty)
      /\ \A g \in Hosts : g # h => host'[g] = host[g] /\ hold'[g] = hold[g]
  BY <1>1, <1>3, <1>4
<1>6. e.next \in Nat /\ Entry(h).next \in Nat
  BY <1>2, <1>4 DEF HostRow
<1>7. SlotFor(h)' = Later(e.next, now)
  BY <1>1, <1>2, <1>5 DEF SlotFor, Entry
<1>8. HoldRespected(h)
  <2>1. CASE hold[h] >= now + e.penalty
    BY <1>5, <2>1 DEF HoldRespected, Later
  <2>2. CASE ~(hold[h] >= now + e.penalty)
    <3>1. hold'[h] = now + e.penalty
      BY <1>5, <2>2 DEF Later
    <3>2. hold'[h] <= SlotFor(h)'
      BY <1>2, <1>4, <1>6, <1>7, <3>1 DEF Later, Numbers
    <3>3. hold'[h] <= host'[h].seen + PenaltyCap
      BY <1>2, <1>4, <1>5, <3>1 DEF Numbers
    <3> QED
      BY <1>2, <1>5, <3>2, <3>3 DEF HoldRespected
  <2> QED
    BY <2>1, <2>2
<1>9. Advances(h)
  BY <1>1, <1>2, <1>5, <1>8, SeenAdvances
<1>10. ASSUME NEW g \in Hosts PROVE Advances(g) /\ NoClaim(g)
  <2>1. g # h => Advances(g)
    BY <1>1, <1>5, StillAdvances
  <2>2. NoClaim(g)
    BY <1>3, AnswerHoldsNothing
  <2> QED
    BY <1>9, <2>1, <2>2
<1> QED
  BY <1>1, <1>10, AdvanceSafe

LEMMA SlotInit == PolitenessInit => SlotInv
<1> SUFFICES ASSUME PolitenessInit PROVE SlotInv
  OBVIOUS
<1>1. \A c \in Callers, h \in Hosts : ~Holds(c, h)
  BY DEF PolitenessInit, Holds, Quiet
<1>2. \A h \in Hosts : hold[h] = 0 /\ host[h].seen = 0 /\ now = 0 /\ SlotFor(h) = 0
  BY DEF PolitenessInit, SlotFor, Entry, Later, Absent
<1> QED
  BY <1>1, <1>2 DEF SlotInv, SlotsSpaced, SlotsBelowNext, HoldBelowNext

LEMMA SlotStep ==
    ASSUME IdleOutlasts, PenaltyInv, PenaltyInv', SlotInv, [PolitenessNext]_politenessVars
    PROVE  SlotInv'
<1>1. ASSUME UNCHANGED politenessVars
      PROVE  SlotInv'
  BY <1>1, StoreLeavesSlots DEF politenessVars, liveVars, storeVars, historyVars
<1>2. ASSUME FetchStep
      PROVE  SlotInv'
  BY <1>2, FetchLeavesSlots, AcquireSlots, TryAcquireSlots, HealthySlots, LimitedSlots DEF FetchStep
<1>3. ASSUME MemoryStep
      PROVE  SlotInv'
  <2>1. ASSUME \/ \E kind \in {"writing", "final"} : PersistBegins(kind)
               \/ ResetForgets \/ ResetFails \/ ImportSaves \/ ImportFails
               \/ \E h \in Hosts, remote \in Remotes, live \in BOOLEAN : ImportPlans(h, remote, live)
        PROVE  UNCHANGED <<fetch, interval, now, host, hold>>
    BY <2>1 DEF PersistBegins, ResetForgets, ResetFails, ImportSaves, ImportFails, ImportPlans,
                liveVars, historyVars
  <2>2. ASSUME NEW h \in Hosts, ResetClears(h)
        PROVE  SlotInv'
    BY <2>2, ResetSlots
  <2> QED
    BY <1>3, <2>1, <2>2, StoreLeavesSlots, PassEndsSlots, ImportRaisesSlots DEF MemoryStep
<1>4. ASSUME Shutdown
      PROVE  SlotInv'
  BY <1>4, StoreLeavesSlots DEF Shutdown, liveVars, historyVars
<1> QED
  BY <1>1, <1>2, <1>3, <1>4, EvictSlots, PassEndsSlots, BootSlots, TickAdvances DEF PolitenessNext

LEMMA SlotInvariant ==
    ASSUME IdleOutlasts
    PROVE  PolitenessSpec => []SlotInv
<1>1. PenaltyInv /\ PenaltyInv' /\ SlotInv /\ [PolitenessNext]_politenessVars => SlotInv'
  BY SlotStep
<1> QED
  BY <1>1, SlotInit, PenaltyInvariant, PTL DEF PolitenessSpec

\* Two requests that wait for, or use, a slot of the same limited host are at least its
\* interval apart, whatever penalties, give-ups, refreshers and evictions come between.
THEOREM SlotsAlwaysSpaced ==
    ASSUME IdleOutlasts
    PROVE  PolitenessSpec => []SlotsSpaced
<1>1. SlotInv => SlotsSpaced
  BY DEF SlotInv
<1> QED
  BY <1>1, SlotInvariant, PTL

\* After a rate limit no caller of a limited host gets a slot before the back-off is over,
\* even if another answer has meanwhile halved the penalty away.
THEOREM BackoffAlwaysHonoured ==
    ASSUME IdleOutlasts
    PROVE  PolitenessSpec => BackoffHonoured
<1> DEFINE Honoured ==
             \A c \in Callers, h \in Hosts :
                (fetch'[c] # fetch[c] /\ fetch'[c].host = h /\ interval[h] > 0) =>
                   /\ (fetch'[c].at = "claimed" /\ ~fetch'[c].stale) => fetch'[c].slot >= hold[h]
                   /\ (fetch'[c].at = "probed" /\ ~fetch'[c].stale) => now >= hold[h]
<1>1. ASSUME PenaltyInv, SlotInv, PolitenessNext
      PROVE  Honoured
  <2> SUFFICES ASSUME NEW c \in Callers, fetch'[c] # fetch[c],
                      fetch'[c].at \in {"claimed", "probed"}, ~fetch'[c].stale
               PROVE  /\ fetch'[c].host \in Hosts
                      /\ fetch'[c].at = "claimed" => fetch'[c].slot >= hold[fetch'[c].host]
                      /\ fetch'[c].at = "probed" => now >= hold[fetch'[c].host]
    BY <1>1
  <2>1. /\ fetch \in [Callers -> FetchRow] /\ Quiet.at = "idle"
        /\ Numbers
    BY <1>1, SlotNumbers DEF PenaltyInv, PolitenessTypeOK, FetchRow, Quiet
  <2>2. ASSUME NEW d \in Callers, NEW h \in Hosts, Acquire(d, h) \/ TryAcquire(d, h)
        PROVE  /\ fetch'[c].host = h
               /\ fetch'[c].at = "claimed" => fetch'[c].slot = SlotFor(h)
               /\ fetch'[c].at = "probed" => SlotFor(h) = now
    <3>1. c = d
      BY <2>1, <2>2 DEF Acquire, TryAcquire
    <3>2. CASE Acquire(d, h)
      <4>1. fetch'[c] = [Quiet EXCEPT !.at = "claimed", !.host = h, !.slot = SlotFor(h)]
        BY <2>1, <3>1, <3>2 DEF Acquire
      <4> QED
        BY <4>1 DEF Quiet
    <3>3. CASE TryAcquire(d, h)
      <4>1. fetch'[c] = [Quiet EXCEPT !.at = "probed", !.host = h]
        BY <2>1, <3>1, <3>3 DEF TryAcquire
      <4> QED
        BY <3>3, <4>1 DEF Quiet, TryAcquire
    <3> QED
      BY <2>2, <3>2, <3>3
  <2>3. \E d \in Callers, h \in Hosts : Acquire(d, h) \/ TryAcquire(d, h)
    <3>1. ASSUME NEW d \in Callers, SendRequest(d) \/ GiveUp(d) \/ Healthy(d) \/ Neutral(d)
          PROVE  FALSE
      BY <2>1, <3>1 DEF SendRequest, GiveUp, Healthy, Neutral, FetchRow
    <3>2. ASSUME NEW d \in Callers, NEW h \in Hosts, AcquireUnspaced(d, h)
          PROVE  FALSE
      BY <2>1, <3>2 DEF AcquireUnspaced, Quiet
    <3>3. ASSUME NEW d \in Callers, NEW ra \in RetryAfters, Limited(d, ra)
          PROVE  FALSE
      BY <2>1, <3>3 DEF Limited
    <3>4. ASSUME NEW h \in Hosts, ResetClears(h)
          PROVE  FALSE
      <4>1. fetch'[c] = [fetch[c] EXCEPT !.stale = TRUE]
        BY <3>4 DEF ResetClears
      <4> QED
        BY <2>1, <4>1 DEF FetchRow
    <3>5. ASSUME PersistCommits \/ PersistFails \/ Crash
          PROVE  FALSE
      BY <2>1, <3>5 DEF PersistCommits, PersistFails, Crash, PassEnds
    <3>6. ASSUME \/ \E kind \in {"writing", "final"} : PersistBegins(kind)
                 \/ ResetForgets \/ ResetFails \/ ImportRaises \/ ImportSaves \/ ImportFails
                 \/ \E h \in Hosts, remote \in Remotes, live \in BOOLEAN : ImportPlans(h, remote, live)
                 \/ Evict \/ Shutdown \/ Boot \/ BootForgets \/ Tick
          PROVE  FALSE
      BY <3>6 DEF PersistBegins, ResetForgets, ResetFails, ImportRaises, ImportSaves, ImportFails,
                  ImportPlans, Evict, Shutdown, Boot, BootForgets, Tick, liveVars
    <3> QED
      BY <1>1, <3>1, <3>2, <3>3, <3>4, <3>5, <3>6 DEF PolitenessNext, FetchStep, MemoryStep
  <2>4. PICK h \in Hosts : /\ fetch'[c].host = h
                           /\ fetch'[c].at = "claimed" => fetch'[c].slot = SlotFor(h)
                           /\ fetch'[c].at = "probed" => SlotFor(h) = now
    BY <2>2, <2>3
  <2>5. SlotFor(h) >= hold[h]
    BY <1>1, <2>1 DEF SlotInv, HoldBelowNext, Numbers
  <2> QED
    BY <2>4, <2>5
<1>2. PenaltyInv /\ SlotInv /\ [PolitenessNext]_politenessVars => [Honoured]_politenessVars
  BY <1>1
<1>3. BackoffHonoured <=> [][Honoured]_politenessVars
  BY DEF BackoffHonoured
<1> HIDE DEF Honoured
<1> QED
  BY <1>2, <1>3, SlotInvariant, PenaltyInvariant, PTL DEF PolitenessSpec

-----------------------------------------------------------------------------
(* The executor plane *)

PlaneInv == TypeOK /\ CheckpointInv

\* A statement on the row of j: it stays a row, exists, and never loses an attempt.
RowMoves(j) ==
    \E row \in Row : /\ jobs' = [jobs EXCEPT ![j] = row]
                     /\ row.status # "absent" /\ row.attempts >= jobs[j].attempts

LEMMA RowTyped ==
    ASSUME TypeOK, NEW j \in Jobs
    PROVE  jobs[j] \in Row /\ jobs[j].attempts \in Nat /\ ckpt[j] \in Nat
<1>1. jobs[j] \in Row /\ ckpt[j] \in Nat
  BY DEF TypeOK
<1> QED
  BY <1>1 DEF Row

\* The rows that the statements of the plane write.
LEMMA RowsWritten ==
    ASSUME PlaneInv, NEW j \in Jobs, NEW row,
           \/ row \in {SucceededRow(j), FailedRow(j, 0), RequeuedRow(j, 0)} /\ jobs[j].status = "running"
           \/ row = BeatRow(j) /\ jobs[j].status = "running"
           \/ row = [jobs[j] EXCEPT !.fresh = FALSE] /\ jobs[j].status = "running"
           \/ row = [jobs[j] EXCEPT !.due = TRUE] /\ jobs[j].status = "queued"
           \/ row = ClaimedRow(j)
           \/ \E e \in Executors : row = [ClaimedRow(j) EXCEPT !.executor = e]
    PROVE  row \in Row /\ row.status # "absent" /\ row.attempts >= jobs[j].attempts
<1>1. jobs[j] \in Row /\ jobs[j].attempts \in Nat
  BY RowTyped DEF PlaneInv
<1>2. /\ jobs[j].error \in Nat /\ jobs[j].cause \in Nat /\ 0 \in Nat /\ jobs[j].attempts + 1 \in Nat
      /\ {"queued", "running", "succeeded", "failed"} \subseteq Status
  BY <1>1 DEF Row, Status, Terminal
<1>3. SucceededRow(j) \in Row /\ SucceededRow(j).status = "succeeded"
      /\ SucceededRow(j).attempts = jobs[j].attempts
  BY <1>1, <1>2 DEF SucceededRow, Row
<1>4. FailedRow(j, 0) \in Row /\ FailedRow(j, 0).status = "failed"
      /\ FailedRow(j, 0).attempts = jobs[j].attempts
  BY <1>1, <1>2 DEF FailedRow, Row
<1>5. RequeuedRow(j, 0) \in Row /\ RequeuedRow(j, 0).status = "queued"
      /\ RequeuedRow(j, 0).attempts = jobs[j].attempts
  BY <1>1, <1>2 DEF RequeuedRow, Row
<1>6. BeatRow(j) \in Row /\ BeatRow(j).status = jobs[j].status
      /\ BeatRow(j).attempts = jobs[j].attempts
  BY <1>1 DEF BeatRow, Row
<1>7. \A f \in BOOLEAN : LET r == [jobs[j] EXCEPT !.fresh = f]
                        IN  r \in Row /\ r.status = jobs[j].status /\ r.attempts = jobs[j].attempts
  BY <1>1 DEF Row
<1>8. \A f \in BOOLEAN : LET r == [jobs[j] EXCEPT !.due = f]
                        IN  r \in Row /\ r.status = jobs[j].status /\ r.attempts = jobs[j].attempts
  BY <1>1 DEF Row
<1>9. ClaimedRow(j) \in Row /\ ClaimedRow(j).status = "running"
      /\ ClaimedRow(j).attempts = jobs[j].attempts + 1
  <2> DEFINE n == jobs[j].attempts + 1
  <2>1. n \in Nat
    BY <1>2
  <2> HIDE DEF n
  <2>2. LET r == [jobs[j] EXCEPT !.status = "running", !.attempts = n, !.fresh = TRUE]
        IN  r \in Row /\ r.status = "running" /\ r.attempts = n
    BY <1>1, <1>2, <2>1 DEF Row
  <2> QED
    BY <2>2 DEF ClaimedRow, n
<1>10. \A e \in Executors : LET r == [ClaimedRow(j) EXCEPT !.executor = e]
                           IN  r \in Row /\ r.status = "running" /\ r.attempts = jobs[j].attempts + 1
  <2> DEFINE q == ClaimedRow(j)
             n == jobs[j].attempts + 1
  <2>1. q \in Row /\ q.status = "running" /\ q.attempts = n
    BY <1>9
  <2> HIDE DEF q, n
  <2>2. \A e \in Executors : LET r == [q EXCEPT !.executor = e]
                            IN  r \in Row /\ r.status = "running" /\ r.attempts = n
    BY <2>1 DEF Row
  <2> QED
    BY <2>2 DEF q, n
<1>11. /\ row \in Row /\ row.status # "absent"
       /\ row.attempts = jobs[j].attempts \/ row.attempts = jobs[j].attempts + 1
  BY <1>3, <1>4, <1>5, <1>6, <1>7, <1>8, <1>9, <1>10, Zenon
<1> QED
  BY <1>1, <1>11

LEMMA InsertedRow ==
    ASSUME PlaneInv, NEW j \in Jobs, NEW max \in MaxAttempts, Insert(j, max, TRUE)
    PROVE  RowMoves(j)
<1> DEFINE row == [AbsentRow EXCEPT !.status = "queued", !.maxAttempts = Larger(max, 1), !.due = TRUE]
<1>1. Larger(max, 1) \in Nat
  BY PlaneAssumption DEF Larger
<1>2. row \in Row /\ row.status # "absent" /\ row.attempts = 0
  BY <1>1 DEF AbsentRow, Row, Status
<1>3. jobs[j].attempts = 0 /\ jobs' = [jobs EXCEPT ![j] = row]
  BY DEF Insert, Write, PlaneInv, CheckpointInv
<1> HIDE DEF row
<1>4. row.attempts >= jobs[j].attempts
  BY <1>2, <1>3
<1> QED
  BY <1>2, <1>3, <1>4 DEF RowMoves

\* The checkpoint stays, is dropped, or is that of the row's attempt.
CheckpointMoves(j) ==
    \/ ckpt' = ckpt
    \/ ckpt' = [ckpt EXCEPT ![j] = 0]
    \/ jobs' = jobs /\ ckpt' = [ckpt EXCEPT ![j] = jobs[j].attempts]

CallsMove == calls' \subseteq Call /\ polls' \in [Executors -> [open : BOOLEAN, blocked : SUBSET Apps]]
             /\ granted' \subseteq Executors \X Jobs \X Nat /\ finished' \subseteq Nat \X Nat

LEMMA MovesKeep ==
    ASSUME PlaneInv, NEW j \in Jobs, jobs' = jobs \/ RowMoves(j), CheckpointMoves(j), CallsMove
    PROVE  PlaneInv' /\ \A k \in Jobs : ckpt'[k] # 0 => ckpt'[k] >= ckpt[k]
<1>1. jobs' \in [Jobs -> Row]
  BY DEF PlaneInv, TypeOK, RowMoves
<1>2. \A k \in Jobs : /\ jobs[k].attempts \in Nat /\ jobs'[k].attempts \in Nat /\ ckpt[k] \in Nat
                      /\ ckpt[k] <= jobs[k].attempts
  BY <1>1, RowTyped DEF PlaneInv, CheckpointInv, Row
<1>3. \A k \in Jobs : /\ jobs'[k].attempts >= jobs[k].attempts
                      /\ jobs'[k].status = "absent" => jobs'[k].attempts = 0
  BY <1>2 DEF PlaneInv, TypeOK, CheckpointInv, RowMoves
<1>4. /\ ckpt' \in [Jobs -> Nat]
      /\ \A k \in Jobs : ckpt'[k] \in {0, ckpt[k]} \/ (ckpt'[k] = jobs[k].attempts /\ jobs' = jobs)
  BY <1>2 DEF PlaneInv, TypeOK, CheckpointMoves
<1>5. TypeOK'
  BY <1>1, <1>4 DEF TypeOK, CallsMove
<1>6. CheckpointInv'
  BY <1>2, <1>3, <1>4 DEF CheckpointInv
<1>7. \A k \in Jobs : ckpt'[k] # 0 => ckpt'[k] >= ckpt[k]
  BY <1>2, <1>4
<1> QED
  BY <1>5, <1>6, <1>7 DEF PlaneInv

LEMMA ClaimMoves ==
    ASSUME PlaneInv, NEW e \in Executors,
           ClaimCounts(e) \/ ClaimNothing(e) \/ \E j \in Jobs : ClaimJob(e, j)
    PROVE  PlaneInv' /\ \A k \in Jobs : ckpt'[k] # 0 => ckpt'[k] >= ckpt[k]
<1>1. Closed \in [open : BOOLEAN, blocked : SUBSET Apps]
  BY DEF Closed
<1>2. BlockedOverCap \subseteq Apps
  BY DEF BlockedOverCap
<1>a. [open |-> TRUE, blocked |-> BlockedOverCap] \in [open : BOOLEAN, blocked : SUBSET Apps]
  BY <1>2
<1>3. polls' \in [Executors -> [open : BOOLEAN, blocked : SUBSET Apps]]
  BY <1>1, <1>a DEF ClaimCounts, ClaimNothing, ClaimJob, PlaneInv, TypeOK
<1>4. CASE ClaimCounts(e) \/ ClaimNothing(e)
  <2>1. UNCHANGED <<jobs, granted, calls, ckpt, finished>>
    BY <1>4 DEF ClaimCounts, ClaimNothing
  <2>2. PlaneInv'
    BY <1>3, <2>1 DEF PlaneInv, TypeOK, CheckpointInv
  <2>3. \A k \in Jobs : ckpt'[k] >= ckpt[k]
    BY <2>1, RowTyped DEF PlaneInv
  <2> QED
    BY <2>2, <2>3
<1>5. ASSUME NEW j \in Jobs, ClaimJob(e, j)
      PROVE  PlaneInv' /\ \A k \in Jobs : ckpt'[k] # 0 => ckpt'[k] >= ckpt[k]
  <2> DEFINE row == [ClaimedRow(j) EXCEPT !.executor = e]
  <2>1. row \in Row /\ row.status # "absent" /\ row.attempts >= jobs[j].attempts
    BY RowsWritten
  <2>2. jobs' = [jobs EXCEPT ![j] = row]
    BY <1>5 DEF ClaimJob, ClaimNextForExecutor, Write
  <2> HIDE DEF row
  <2>3. RowMoves(j)
    BY <2>1, <2>2 DEF RowMoves
  <2>4. CheckpointMoves(j)
    BY <1>5 DEF ClaimJob, CheckpointMoves
  <2>5. jobs[j].attempts + 1 \in Nat
    BY RowTyped DEF PlaneInv
  <2>6. CallsMove
    BY <1>3, <1>5, <2>5 DEF CallsMove, ClaimJob, PlaneInv, TypeOK
  <2> QED
    BY <2>3, <2>4, <2>6, MovesKeep
<1> QED
  BY <1>4, <1>5

\* Statements on one row that touch nothing else of the plane.
LEMMA RowOnly ==
    ASSUME PlaneInv, NEW j \in Jobs, NEW row \in Row, Write(j, row), row.status # "absent",
           row.attempts >= jobs[j].attempts, CheckpointMoves(j),
           UNCHANGED <<polls, granted, calls, finished>>
    PROVE  PlaneInv' /\ \A k \in Jobs : ckpt'[k] # 0 => ckpt'[k] >= ckpt[k]
<1>1. RowMoves(j)
  BY DEF RowMoves, Write
<1>2. CallsMove
  BY DEF CallsMove, PlaneInv, TypeOK
<1> QED
  BY <1>1, <1>2, MovesKeep

LEMMA FailMoves ==
    ASSUME PlaneInv, NEW j \in Jobs, jobs[j].status = "running", FailJob(j)
    PROVE  RowMoves(j) /\ CheckpointMoves(j)
<1>1. \E row \in {FailedRow(j, 0), RequeuedRow(j, 0)} : Write(j, row)
  BY DEF FailJob
<1>2. PICK row \in {FailedRow(j, 0), RequeuedRow(j, 0)} : Write(j, row)
  BY <1>1
<1>3. row \in Row /\ row.status # "absent" /\ row.attempts >= jobs[j].attempts
  BY <1>2, RowsWritten
<1>4. RowMoves(j)
  BY <1>2, <1>3 DEF RowMoves, Write
<1> QED
  BY <1>4 DEF FailJob, CheckpointMoves

LEMMA HandleMoves ==
    ASSUME PlaneInv, NEW c \in calls, Handle(c)
    PROVE  PlaneInv' /\ \A k \in Jobs : ckpt'[k] # 0 => ckpt'[k] >= ckpt[k]
<1>1. c \in Call /\ calls \subseteq Call
  BY DEF PlaneInv, TypeOK
<1>2. PICK j \in Jobs : j = c.job
  BY <1>1 DEF Call
<1>3. jobs[j].attempts \in Nat
  BY RowTyped DEF PlaneInv
<1>4. \A pc \in {"owned", "read"}, seen \in Nat : [c EXCEPT !.pc = pc, !.seen = seen] \in Call
  BY <1>1 DEF Call
<1>5. UNCHANGED <<polls, granted>>
  BY DEF Handle, CheckOwned, SaveCheckpoint, ReadJob, FinishFromExecutor
<1>6. calls' \subseteq Call
  BY <1>1, <1>2, <1>3, <1>4 DEF Handle, CheckOwned, SaveCheckpoint, ReadJob, FinishFromExecutor, Advance
<1>7. finished' \subseteq Nat \X Nat
  BY <1>1 DEF Handle, CheckOwned, SaveCheckpoint, ReadJob, FinishFromExecutor, PlaneInv, TypeOK, Call
<1>8. CallsMove
  BY <1>5, <1>6, <1>7 DEF CallsMove, PlaneInv, TypeOK
<1>9. (jobs' = jobs \/ RowMoves(j)) /\ CheckpointMoves(j)
  <2>1. CASE CheckOwned(c) \/ ReadJob(c)
    BY <2>1 DEF CheckOwned, ReadJob, CheckpointMoves
  <2>2. CASE SaveCheckpoint(c)
    BY <1>2, <2>2 DEF SaveCheckpoint, Fenced, CheckpointMoves
  <2>3. CASE FinishFromExecutor(c)
    <3>1. CASE ~Fenced(c.job, c.seen)
      BY <2>3, <3>1 DEF FinishFromExecutor, CheckpointMoves
    <3>2. CASE Fenced(c.job, c.seen) /\ Write(j, SucceededRow(j)) /\ ckpt' = [ckpt EXCEPT ![j] = 0]
      <4>1. jobs[j].status = "running"
        BY <1>2, <3>2 DEF Fenced
      <4>2. SucceededRow(j) \in Row /\ SucceededRow(j).status # "absent"
            /\ SucceededRow(j).attempts >= jobs[j].attempts
        BY <4>1, RowsWritten
      <4> QED
        BY <3>2, <4>2 DEF RowMoves, Write, CheckpointMoves
    <3>3. CASE Fenced(c.job, c.seen) /\ FailJob(j)
      BY <1>2, <3>3, FailMoves DEF Fenced
    <3> QED
      BY <1>2, <2>3, <3>1, <3>2, <3>3 DEF FinishFromExecutor
  <2> QED
    BY <2>1, <2>2, <2>3 DEF Handle
<1> QED
  BY <1>8, <1>9, MovesKeep

LEMMA GrantMoves ==
    ASSUME PlaneInv, NEW g \in granted, Heartbeat(g[1], g[2], g[3]) \/ Send(g[1], g[2], g[3])
    PROVE  PlaneInv' /\ \A k \in Jobs : ckpt'[k] # 0 => ckpt'[k] >= ckpt[k]
<1>1. g[1] \in Executors /\ g[2] \in Jobs /\ g[3] \in Nat
  BY DEF PlaneInv, TypeOK
<1>2. PICK e \in Executors, j \in Jobs, a \in Nat : e = g[1] /\ j = g[2] /\ a = g[3]
  BY <1>1
<1>3. CASE Heartbeat(e, j, a)
  <2>1. /\ Write(j, BeatRow(j)) /\ jobs[j].status = "running"
        /\ UNCHANGED <<polls, granted, calls, ckpt, finished>>
    BY <1>3 DEF Heartbeat, Fenced
  <2>2. BeatRow(j) \in Row /\ BeatRow(j).status # "absent" /\ BeatRow(j).attempts >= jobs[j].attempts
    BY <2>1, RowsWritten
  <2> QED
    BY <2>1, <2>2, RowOnly DEF CheckpointMoves
<1>4. CASE Send(e, j, a)
  <2>a. PICK door \in {"checkpoint", "finish"}, copy \in {1, 2} :
          calls' = calls \cup {[door |-> door, exec |-> e, job |-> j, attempt |-> a,
                               pc |-> "sent", seen |-> 0, copy |-> copy]}
    BY <1>4, Zenon DEF Send
  <2>b. [door |-> door, exec |-> e, job |-> j, attempt |-> a, pc |-> "sent", seen |-> 0, copy |-> copy] \in Call
    BY DEF Call
  <2>1. calls' \subseteq Call
    BY <2>a, <2>b DEF PlaneInv, TypeOK
  <2>2. UNCHANGED <<jobs, polls, granted, ckpt, finished>>
    BY <1>4 DEF Send
  <2>3. CallsMove
    BY <2>1, <2>2 DEF CallsMove, PlaneInv, TypeOK
  <2> QED
    BY <2>2, <2>3, MovesKeep DEF CheckpointMoves
<1> QED
  BY <1>2, <1>3, <1>4

LEMMA CoordinatorMoves ==
    ASSUME PlaneInv, NEW j \in Jobs,
           \/ Enqueue(j) \/ LocalClaim(j) \/ LocalComplete(j)
           \/ LeaseAges(j) \/ Reap(j) \/ BackoffElapses(j)
    PROVE  PlaneInv' /\ \A k \in Jobs : ckpt'[k] # 0 => ckpt'[k] >= ckpt[k]
<1>1. UNCHANGED <<polls, granted, calls, finished>>
  BY DEF Enqueue, LocalClaim, LocalComplete, LeaseAges, Reap, BackoffElapses, Others
<1>2. CallsMove
  BY <1>1 DEF CallsMove, PlaneInv, TypeOK
<1>3. RowMoves(j) /\ CheckpointMoves(j)
  <2>1. CASE Enqueue(j)
    BY <2>1, InsertedRow DEF Enqueue, Others, CheckpointMoves
  <2>2. CASE Reap(j)
    BY <2>2, FailMoves DEF Reap, Stale, Running
  <2>3. CASE LocalClaim(j) \/ LocalComplete(j) \/ LeaseAges(j) \/ BackoffElapses(j)
    <3>1. ckpt' = ckpt
      BY <2>3 DEF LocalClaim, LocalComplete, LeaseAges, BackoffElapses, Others
    <3>2. PICK row : /\ jobs' = [jobs EXCEPT ![j] = row]
                     /\ \/ row = ClaimedRow(j)
                        \/ row = SucceededRow(j) /\ jobs[j].status = "running"
                        \/ row = [jobs[j] EXCEPT !.fresh = FALSE] /\ jobs[j].status = "running"
                        \/ row = [jobs[j] EXCEPT !.due = TRUE] /\ jobs[j].status = "queued"
      BY <2>3 DEF LocalClaim, ClaimNext, LocalComplete, LeaseAges, BackoffElapses, Write, Running
    <3>3. row \in Row /\ row.status # "absent" /\ row.attempts >= jobs[j].attempts
      BY <3>2, RowsWritten
    <3> QED
      BY <3>1, <3>2, <3>3 DEF RowMoves, CheckpointMoves
  <2> QED
    BY <2>1, <2>2, <2>3
<1> QED
  BY <1>2, <1>3, MovesKeep

LEMMA PlaneStep ==
    ASSUME PlaneInv, Next
    PROVE  PlaneInv' /\ \A k \in Jobs : ckpt'[k] # 0 => ckpt'[k] >= ckpt[k]
BY ClaimMoves, GrantMoves, HandleMoves, CoordinatorMoves DEF Next

\* A stored checkpoint is of an attempt the job has had, whatever executors and handlers
\* are late, repeated or declared dead.
THEOREM PlaneInvariant == Spec => [](TypeOK /\ CheckpointInv)
<1>1. Init => PlaneInv
  <2> SUFFICES ASSUME Init PROVE PlaneInv
    OBVIOUS
  <2>1. AbsentRow \in Row /\ AbsentRow.attempts = 0
    BY DEF AbsentRow, Row, Status
  <2>2. Closed \in [open : BOOLEAN, blocked : SUBSET Apps]
    BY DEF Closed
  <2>3. TypeOK
    BY <2>1, <2>2 DEF Init, TypeOK
  <2>4. CheckpointInv
    <3>1. \A j \in Jobs : jobs[j] = AbsentRow /\ ckpt[j] = 0
      BY DEF Init
    <3>2. \A j \in Jobs : jobs[j].attempts = 0 /\ ckpt[j] = 0
      BY <2>1, <3>1, Zenon
    <3>3. ASSUME NEW j \in Jobs PROVE ckpt[j] <= jobs[j].attempts
      <4> DEFINE n == jobs[j].attempts
                 m == ckpt[j]
      <4>1. n = 0 /\ m = 0
        BY <3>2
      <4> HIDE DEF n, m
      <4>2. m <= n
        BY <4>1
      <4> QED
        BY <4>2 DEF n, m
    <3> QED
      BY <3>2, <3>3 DEF CheckpointInv
  <2> QED
    BY <2>3, <2>4 DEF PlaneInv
<1>2. PlaneInv /\ [Next]_vars => PlaneInv'
  <2>1. ASSUME PlaneInv, UNCHANGED vars
        PROVE  PlaneInv'
    BY <2>1 DEF PlaneInv, TypeOK, CheckpointInv, vars
  <2> QED
    BY <2>1, PlaneStep
<1>3. PlaneInv <=> TypeOK /\ CheckpointInv
  BY DEF PlaneInv
<1> QED
  BY <1>1, <1>2, <1>3, PTL DEF Spec

\* The stored checkpoint never goes back to an earlier attempt's: the late or repeated call
\* of an executor that was declared dead does not replace what the job is resumed from.
THEOREM CheckpointsNeverRegress == Spec => CheckpointNeverRegresses
<1> DEFINE Onward == \A j \in Jobs : ckpt'[j] # 0 => ckpt'[j] >= ckpt[j]
<1>1. PlaneInv /\ [Next]_vars => [Onward]_vars
  BY PlaneStep
<1>2. CheckpointNeverRegresses <=> [][Onward]_vars
  BY DEF CheckpointNeverRegresses
<1>3. PlaneInv <=> TypeOK /\ CheckpointInv
  BY DEF PlaneInv
<1> HIDE DEF Onward
<1> QED
  BY <1>1, <1>2, <1>3, PlaneInvariant, PTL DEF Spec

-----------------------------------------------------------------------------
(* The lifecycle of the jobs that executors share with the worker *)

\* What a statement may make of a row: a move of the lifecycle or the same phase, with
\* the count as it was.
Travels(j, r) ==
    /\ <<jobs[j].status, r.status>> \in Lifecycle!Moves \/ r.status = jobs[j].status
    /\ r.attempts = jobs[j].attempts

\* What a claim makes of it.
Handed(j, r) ==
    /\ jobs[j].status = "queued" /\ TargetFree(j) /\ r.status = "running"
    /\ r.attempts = jobs[j].attempts + 1

\* What a step does to the table.
TableTravels ==
    \/ UNCHANGED jobs
    \/ \E j \in Jobs : \E r : Write(j, r) /\ (Travels(j, r) \/ Handed(j, r))

\* The verdicts and beats of a running row, and the claims of a queued one.
LEMMA RowsTravel ==
    ASSUME PlaneInv, NEW j \in Jobs
    PROVE  /\ jobs[j].status = "running" =>
                 /\ Travels(j, SucceededRow(j)) /\ Travels(j, FailedRow(j, 0))
                 /\ Travels(j, RequeuedRow(j, 0)) /\ Travels(j, BeatRow(j))
                 /\ Travels(j, [jobs[j] EXCEPT !.fresh = FALSE])
           /\ Travels(j, [jobs[j] EXCEPT !.due = TRUE])
           /\ jobs[j].status = "queued" /\ TargetFree(j) =>
                 /\ Handed(j, ClaimedRow(j))
                 /\ \A e \in Executors : Handed(j, [ClaimedRow(j) EXCEPT !.executor = e])
<1>1. jobs[j] \in Row
  BY RowTyped DEF PlaneInv
<1>2. /\ SucceededRow(j).status = "succeeded" /\ SucceededRow(j).attempts = jobs[j].attempts
      /\ FailedRow(j, 0).status = "failed" /\ FailedRow(j, 0).attempts = jobs[j].attempts
      /\ RequeuedRow(j, 0).status = "queued" /\ RequeuedRow(j, 0).attempts = jobs[j].attempts
  BY <1>1 DEF Row, SucceededRow, FailedRow, RequeuedRow
<1>3. /\ BeatRow(j).status = jobs[j].status /\ BeatRow(j).attempts = jobs[j].attempts
      /\ [jobs[j] EXCEPT !.fresh = FALSE].status = jobs[j].status
      /\ [jobs[j] EXCEPT !.fresh = FALSE].attempts = jobs[j].attempts
      /\ [jobs[j] EXCEPT !.due = TRUE].status = jobs[j].status
      /\ [jobs[j] EXCEPT !.due = TRUE].attempts = jobs[j].attempts
  BY <1>1 DEF Row, BeatRow
<1>4. ClaimedRow(j).status = "running" /\ ClaimedRow(j).attempts = jobs[j].attempts + 1
  BY <1>1 DEF Row, ClaimedRow
<1>5. ASSUME NEW e \in Executors
      PROVE  /\ [ClaimedRow(j) EXCEPT !.executor = e].status = "running"
             /\ [ClaimedRow(j) EXCEPT !.executor = e].attempts = jobs[j].attempts + 1
  BY <1>1 DEF Row, ClaimedRow
<1>6. jobs[j].status = "running" =>
          /\ Travels(j, SucceededRow(j)) /\ Travels(j, FailedRow(j, 0))
          /\ Travels(j, RequeuedRow(j, 0))
  BY <1>2 DEF Travels, Lifecycle!Moves
<1>7. /\ Travels(j, BeatRow(j)) /\ Travels(j, [jobs[j] EXCEPT !.fresh = FALSE])
      /\ Travels(j, [jobs[j] EXCEPT !.due = TRUE])
  BY <1>3, Zenon DEF Travels
<1>8. jobs[j].status = "queued" /\ TargetFree(j) =>
          /\ Handed(j, ClaimedRow(j))
          /\ \A e \in Executors : Handed(j, [ClaimedRow(j) EXCEPT !.executor = e])
  BY <1>4, <1>5, Zenon DEF Handed
<1> QED
  BY <1>6, <1>7, <1>8

\* Storage::fail on a running row, from the reaper or from a finish.
LEMMA FailTravels ==
    ASSUME PlaneInv, NEW j \in Jobs, jobs[j].status = "running", FailJob(j)
    PROVE  TableTravels
<1>1. Write(j, RequeuedRow(j, 0)) \/ Write(j, FailedRow(j, 0))
  BY DEF FailJob
<1> QED
  BY <1>1, RowsTravel DEF TableTravels

\* The handlers: a finish writes under the fence of the attempt it read.
LEMMA HandleTravels ==
    ASSUME PlaneInv, NEW c \in calls, Handle(c)
    PROVE  TableTravels
<1>1. c.job \in Jobs
  BY DEF PlaneInv, TypeOK, Call
<1>2. CASE UNCHANGED jobs
  BY <1>2 DEF TableTravels
<1>3. CASE FinishFromExecutor(c) /\ Fenced(c.job, c.seen)
  <2>1. jobs[c.job].status = "running"
    BY <1>3 DEF Fenced
  <2>2. Write(c.job, SucceededRow(c.job)) \/ FailJob(c.job)
    BY <1>3 DEF FinishFromExecutor
  <2>3. CASE Write(c.job, SucceededRow(c.job))
    BY <1>1, <2>1, <2>3, RowsTravel DEF TableTravels
  <2> QED
    BY <1>1, <2>1, <2>2, <2>3, FailTravels
<1> QED
  BY <1>2, <1>3, Zenon DEF Handle, CheckOwned, SaveCheckpoint, ReadJob, FinishFromExecutor

\* Every step of the plane writes one row at most, along the lifecycle.
LEMMA PlaneTravels ==
    ASSUME PlaneInv, [Next]_vars
    PROVE  TableTravels
<1>1. CASE UNCHANGED jobs
  BY <1>1 DEF TableTravels
<1>2. ASSUME NEW e \in Executors, NEW j \in Jobs, ClaimJob(e, j)
      PROVE  TableTravels
  <2>1. /\ jobs[j].status = "queued" /\ TargetFree(j)
        /\ Write(j, [ClaimedRow(j) EXCEPT !.executor = e])
    BY <1>2 DEF ClaimJob, ClaimNextForExecutor, Claimable
  <2>2. Handed(j, [ClaimedRow(j) EXCEPT !.executor = e])
    BY <2>1, RowsTravel
  <2> QED
    BY <2>1, <2>2 DEF TableTravels
<1>3. ASSUME NEW g \in granted, Heartbeat(g[1], g[2], g[3])
      PROVE  TableTravels
  <2>1. g[2] \in Jobs
    BY DEF PlaneInv, TypeOK
  <2>2. jobs[g[2]].status = "running" /\ Write(g[2], BeatRow(g[2]))
    BY <1>3 DEF Heartbeat, Fenced
  <2> QED
    BY <2>1, <2>2, RowsTravel DEF TableTravels
<1>4. ASSUME NEW j \in Jobs, Enqueue(j)
      PROVE  TableTravels
  <2>1. PICK max \in MaxAttempts : Insert(j, max, TRUE)
    BY <1>4 DEF Enqueue
  <2> DEFINE r == [AbsentRow EXCEPT !.status = "queued", !.maxAttempts = Larger(max, 1), !.due = TRUE]
  <2>2. Write(j, r) /\ jobs[j].status = "absent" /\ jobs[j].attempts = 0
    BY <2>1 DEF Insert, PlaneInv, CheckpointInv
  <2>3. r.status = "queued" /\ r.attempts = 0
    BY DEF AbsentRow
  <2> HIDE DEF r
  <2>4. Travels(j, r)
    BY <2>2, <2>3 DEF Travels, Lifecycle!Moves
  <2> QED
    BY <2>2, <2>4 DEF TableTravels
<1>5. ASSUME NEW j \in Jobs, LocalClaim(j)
      PROVE  TableTravels
  <2>1. jobs[j].status = "queued" /\ TargetFree(j) /\ Write(j, ClaimedRow(j))
    BY <1>5 DEF LocalClaim, ClaimNext, Claimable
  <2> QED
    BY <2>1, RowsTravel DEF TableTravels
<1>6. ASSUME NEW j \in Jobs, LocalComplete(j) \/ LeaseAges(j) \/ BackoffElapses(j)
      PROVE  TableTravels
  <2>1. \/ jobs[j].status = "running" /\ Write(j, SucceededRow(j))
        \/ jobs[j].status = "running" /\ Write(j, [jobs[j] EXCEPT !.fresh = FALSE])
        \/ Write(j, [jobs[j] EXCEPT !.due = TRUE])
    BY <1>6 DEF LocalComplete, LeaseAges, BackoffElapses, Running
  <2> QED
    BY <2>1, RowsTravel, Zenon DEF TableTravels
<1>7. ASSUME NEW j \in Jobs, Reap(j)
      PROVE  TableTravels
  BY <1>7, FailTravels DEF Reap, Stale, Running
<1>8. ASSUME NEW c \in calls, Handle(c)
      PROVE  TableTravels
  BY <1>8, HandleTravels
<1> QED
  BY <1>1, <1>2, <1>3, <1>4, <1>5, <1>6, <1>7, <1>8, Zenon DEF Next, ClaimCounts, ClaimNothing, Send, vars

\* Such a step keeps the targets apart and is a step of the lifecycle.
LEMMA TravelLives ==
    ASSUME PlaneInv, TargetMutex, TableTravels
    PROVE  TargetMutex' /\ Lifecycle!Next
<1>1. CASE UNCHANGED jobs
  <2>1. TargetMutex'
    BY <1>1 DEF TargetMutex, Running
  <2>2. \A j \in Jobs : Lifecycle!Rest(j)
    BY <1>1 DEF Lifecycle!Rest
  <2> DEFINE ph == [j \in Jobs |-> jobs[j].status]
  <2>3. Lifecycle!Exclusive(ph')
    BY <2>1 DEF Lifecycle!Exclusive, TargetMutex, Running
  <2> QED
    BY <2>1, <2>2, <2>3 DEF Lifecycle!Next
<1>2. ASSUME NEW j \in Jobs, NEW r, Write(j, r), Travels(j, r) \/ Handed(j, r)
      PROVE  TargetMutex' /\ Lifecycle!Next
  <2>1. jobs'[j] = r /\ \A k \in Jobs \ {j} : jobs'[k] = jobs[k]
    BY <1>2 DEF Write, PlaneInv, TypeOK
  <2>2. Travels(j, r) /\ r.status = "running" => jobs[j].status = "running"
    BY DEF Travels, Lifecycle!Moves
  <2>3. TargetMutex'
    <3>1. \A k \in Running' : k # j => k \in Running
      BY <2>1 DEF Running
    <3>2. j \in Running' => j \in Running \/ TargetFree(j)
      BY <1>2, <2>1, <2>2 DEF Handed, Running
    <3> QED
      BY <3>1, <3>2 DEF TargetMutex, TargetFree, Running
  <2>4. Lifecycle!Rest(j) \/ Lifecycle!Move(j) \/ Lifecycle!Grant(j)
    BY <1>2, <2>1 DEF Travels, Handed, Lifecycle!Rest, Lifecycle!Move, Lifecycle!Grant
  <2>5. \A k \in Jobs \ {j} : Lifecycle!Rest(k)
    BY <2>1 DEF Lifecycle!Rest
  <2> DEFINE ph == [k \in Jobs |-> jobs[k].status]
  <2>6. Lifecycle!Exclusive(ph')
    BY <2>3 DEF Lifecycle!Exclusive, TargetMutex, Running
  <2> QED
    BY <2>3, <2>4, <2>5, <2>6 DEF Lifecycle!Next
<1> QED
  BY <1>1, <1>2, Zenon DEF TableTravels

\* Executors and the worker share one table: their claims, late, repeated or misdirected
\* finishes, beats and the reaper keep the lifecycle's promise between them.
THEOREM PlaneImplementsLifecycle == Spec => ImplementsLifecycle
<1>1. Init => TargetMutex /\ Lifecycle!Init
  <2> SUFFICES ASSUME Init PROVE TargetMutex /\ Lifecycle!Init
    OBVIOUS
  <2>1. AbsentRow.status = "absent" /\ AbsentRow.attempts = 0
    BY DEF AbsentRow
  <2>2. jobs = [j \in Jobs |-> AbsentRow]
    BY Zenon DEF Init
  <2>3. \A j \in Jobs : jobs[j] = AbsentRow
    BY <2>2, Zenon
  <2> QED
    BY <2>1, <2>3 DEF TargetMutex, Running, Lifecycle!Init
<1>2. PlaneInv /\ TargetMutex /\ [Next]_vars => TargetMutex' /\ [Lifecycle!Next]_(Lifecycle!vars)
  BY PlaneTravels, TravelLives
<1>3. PlaneInv <=> TypeOK /\ CheckpointInv
  BY DEF PlaneInv
<1> QED
  BY <1>1, <1>2, <1>3, PlaneInvariant, PTL DEF Spec, ImplementsLifecycle, Lifecycle!Spec

-----------------------------------------------------------------------------
(* The node *)

\* A behaviour of the node is one of the executor plane and one of the governor.
LEMMA NodeHasBoth == NodeSpec => Spec /\ PolitenessSpec
<1>1. NodeInit => Init /\ PolitenessInit
  BY DEF NodeInit
<1>2. [NodeNext]_<<side, vars, politenessVars>> => [Next]_vars /\ [PolitenessNext]_politenessVars
  BY DEF NodeNext, ExecutorStep, GovernorStep
<1> QED
  BY <1>1, <1>2, PTL DEF NodeSpec, Spec, PolitenessSpec

\* Of both halves together: checkpoints are of attempts the job has had, penalties and their
\* memory agree, and the slots of a limited host are an interval apart.
THEOREM NodeInvariant ==
    ASSUME IdleOutlasts
    PROVE  NodeSpec => []NodeInv
<1>1. TypeOK /\ CheckpointInv /\ PenaltyInv /\ SlotInv => NodeInv
  BY DEF NodeInv
<1> QED
  BY <1>1, NodeHasBoth, PlaneInvariant, PenaltyInvariant, SlotInvariant, PTL

-----------------------------------------------------------------------------
(* The crawl: folds *)

\* The least element of a set of numbers.
LEMMA LeastNat ==
    ASSUME NEW S, S \subseteq Nat, S # {}
    PROVE  \E m \in S : \A x \in S : m <= x
<1> DEFINE R == OpToRel(<, Nat)
<1>1. IsWellFoundedOn(R, Nat)
  BY NatLessThanWellFounded
<1>2. PICK m \in S : \A y \in S : <<y, m>> \notin R
  <2> HIDE DEF R
  <2> QED
    BY <1>1, WFMin
<1>3. ASSUME NEW y \in S PROVE m <= y
  <2>1. <<y, m>> \notin R
    BY <1>2
  <2>2. y < m => <<y, m>> \in R
    BY DEF OpToRel
  <2> HIDE DEF R
  <2> QED
    BY <2>1, <2>2
<1> QED
  BY <1>3

\* What holds at k and passes from each number to the next holds up to n.
LEMMA Climb ==
    ASSUME NEW P, NEW k \in Nat, NEW n \in Nat, k \in P,
           \A i \in k..n : i \in P /\ i < n => i + 1 \in P
    PROVE  \A i \in k..n : i \in P
<1> DEFINE Bad == {i \in k..n : i \notin P}
<1> SUFFICES ASSUME Bad # {} PROVE FALSE
  OBVIOUS
<1>1. Bad \subseteq Nat
  OBVIOUS
<1>2. PICK m \in Bad : \A x \in Bad : m <= x
  BY <1>1, LeastNat
<1>3. m \in k..n /\ m \notin P /\ m # k
  BY <1>2
<1>4. m - 1 \in k..n /\ m - 1 < n /\ m - 1 \notin Bad
  BY <1>2, <1>3
<1> QED
  BY <1>3, <1>4

\* The greatest element of a set of indices.
LEMMA MaxIndex ==
    ASSUME NEW n \in Nat, NEW t \in SUBSET (1..n), t # {}
    PROVE  Max(t) \in t /\ \A x \in t : x <= Max(t)
<1> DEFINE U == {n - x : x \in t}
<1>1. U \subseteq Nat /\ U # {}
  <2>1. \A x \in t : n - x \in Nat
    OBVIOUS
  <2> QED
    BY <2>1
<1>2. PICK m \in U : \A x \in U : m <= x
  BY <1>1, LeastNat
<1>3. PICK y \in t : m = n - y
  BY <1>2
<1>4. ASSUME NEW x \in t PROVE x <= y
  <2>1. n - x \in U /\ x \in 1..n /\ y \in 1..n
    OBVIOUS
  <2>2. n - y <= n - x
    BY <1>2, <1>3, <2>1
  <2> QED
    BY <2>1, <2>2
<1>5. \E z \in t : \A x \in t : z >= x
  BY <1>4
<1> QED
  BY <1>5 DEF Max

LEMMA MaxInterval ==
    ASSUME NEW n \in Nat, n > 0
    PROVE  Max(1..n) = n /\ (1..n) \ {Max(1..n)} = 1..(n - 1)
<1>1. Max(1..n) \in 1..n /\ \A x \in 1..n : x <= Max(1..n)
  <2>1. 1..n \in SUBSET (1..n) /\ 1..n # {}
    OBVIOUS
  <2> QED
    BY <2>1, MaxIndex
<1>2. Max(1..n) = n
  BY <1>1
<1> QED
  BY <1>2

\* A prefix of the indices, and the prefix before it.
LEMMA Prefix ==
    ASSUME NEW n \in Nat, NEW i \in 1..n
    PROVE  /\ i - 1 \in 0..n /\ i \in 0..n /\ 1..i \in SUBSET (1..n) /\ 1..i # {}
           /\ Max(1..i) = i /\ (1..i) \ {Max(1..i)} = 1..(i - 1)
<1>1. i \in Nat /\ i > 0 /\ i <= n
  OBVIOUS
<1>2. \A x \in 1..i : x \in 1..n
  BY <1>1
<1>3. 1 \in 1..i
  BY <1>1
<1>4. 1..i \in SUBSET (1..n) /\ 1..i # {}
  BY <1>2, <1>3, Zenon
<1>5. i - 1 \in 0..n /\ i \in 0..n
  BY <1>1
<1> QED
  BY <1>1, <1>4, <1>5, MaxInterval

\* A step from F to F has a fold over every part of a sequence.
Folding(g, T, F, step, b, s) ==
    /\ g \in [T -> F]
    /\ \A t \in T : g[t] = IF t = {} THEN b ELSE step[<<g[t \ {Max(t)}], s[Max(t)]>>]

LEMMA FoldGrows ==
    ASSUME NEW F, NEW X, NEW step \in [F \X X -> F], NEW b \in F, NEW s \in Seq(X),
           NEW m \in 0..Len(s), m < Len(s), NEW g, Folding(g, SUBSET (1..m), F, step, b, s)
    PROVE  \E h : Folding(h, SUBSET (1..(m + 1)), F, step, b, s)
<1> DEFINE n == Len(s)
           v(t) == IF t = {} THEN b ELSE step[<<g[t \ {Max(t)}], s[Max(t)]>>]
           h == [t \in SUBSET (1..(m + 1)) |-> v(t)]
<1>0. n \in Nat /\ m \in Nat /\ m + 1 \in Nat /\ m + 1 <= n
  OBVIOUS
<1> HIDE DEF n
<1>1. ASSUME NEW t \in SUBSET (1..(m + 1)), t # {}
      PROVE  /\ Max(t) \in t /\ Max(t) \in 1..n
             /\ t \ {Max(t)} \in SUBSET (1..m)
  <2>1. Max(t) \in t /\ \A x \in t : x <= Max(t)
    BY <1>0, <1>1, MaxIndex
  <2>2. Max(t) \in 1..(m + 1)
    BY <2>1
  <2>3. ASSUME NEW x \in t, x # Max(t) PROVE x \in 1..m
    <3>1. x <= Max(t) /\ x \in 1..(m + 1)
      BY <2>1
    <3> QED
      BY <2>2, <2>3, <3>1, <1>0
  <2>4. Max(t) \in 1..n
    BY <2>2, <1>0
  <2> QED
    BY <2>1, <2>3, <2>4
<1>2. ASSUME NEW t \in SUBSET (1..(m + 1)), t # {}
      PROVE  g[t \ {Max(t)}] \in F /\ s[Max(t)] \in X
  <2>1. Max(t) \in 1..Len(s)
    BY <1>1, <1>2 DEF n
  <2> QED
    BY <1>1, <1>2, <2>1 DEF Folding
<1>3. h \in [SUBSET (1..(m + 1)) -> F]
  <2>1. ASSUME NEW t \in SUBSET (1..(m + 1)) PROVE v(t) \in F
    <3>1. CASE t = {}
      BY <3>1
    <3>2. CASE t # {}
      <4>1. <<g[t \ {Max(t)}], s[Max(t)]>> \in F \X X
        BY <3>2, <1>2
      <4> QED
        BY <3>2, <4>1
    <3> QED
      BY <3>1, <3>2
  <2> HIDE DEF v
  <2> QED
    BY <2>1
<1>4. ASSUME NEW t \in SUBSET (1..m) PROVE h[t] = g[t]
  <2>1. t \in SUBSET (1..(m + 1))
    OBVIOUS
  <2> QED
    BY <2>1 DEF Folding
<1>5. ASSUME NEW t \in SUBSET (1..(m + 1))
      PROVE  h[t] = IF t = {} THEN b ELSE step[<<h[t \ {Max(t)}], s[Max(t)]>>]
  <2>1. t # {} => h[t \ {Max(t)}] = g[t \ {Max(t)}]
    <3> HIDE DEF h
    <3> QED
      BY <1>1, <1>4
  <2>2. h[t] = v(t)
    OBVIOUS
  <2> HIDE DEF h
  <2> QED
    BY <2>1, <2>2
<1> QED
  BY <1>3, <1>5 DEF Folding

LEMMA FoldExists ==
    ASSUME NEW F, NEW X, NEW step \in [F \X X -> F], NEW b \in F, NEW s \in Seq(X)
    PROVE  \E g : Folding(g, SUBSET (1..Len(s)), F, step, b, s)
<1> DEFINE P == {m \in 0..Len(s) : \E g : Folding(g, SUBSET (1..m), F, step, b, s)}
<1>0. Len(s) \in Nat
  OBVIOUS
<1>1. 0 \in P
  <2>1. SUBSET (1..0) = {{}}
    OBVIOUS
  <2>2. Folding([t \in {{}} |-> b], {{}}, F, step, b, s)
    BY DEF Folding
  <2> QED
    <3>1. 0 \in 0..Len(s)
      BY <1>0
    <3> QED
      BY <2>1, <2>2, <3>1
<1>2. ASSUME NEW m \in 0..Len(s), m \in P, m < Len(s) PROVE m + 1 \in P
  <2>1. PICK g : Folding(g, SUBSET (1..m), F, step, b, s)
    BY <1>2
  <2>2. \E h : Folding(h, SUBSET (1..(m + 1)), F, step, b, s)
    BY <1>2, <2>1, FoldGrows
  <2> QED
    <3>1. m + 1 \in 0..Len(s)
      BY <1>0, <1>2
    <3> QED
      BY <2>2, <3>1
<1>3. \A m \in 0..Len(s) : m \in P
  <2> HIDE DEF P
  <2> QED
    BY <1>0, <1>1, <1>2, Climb
<1>4. Len(s) \in P
  <2>1. Len(s) \in 0..Len(s)
    BY <1>0
  <2> HIDE DEF P
  <2> QED
    BY <1>3, <2>1
<1> QED
  BY <1>4

\* What PushAll goes through, one link at a time, within any set that Push does not leave.
LEMMA PushAllRun ==
    ASSUME NEW F, NEW f \in F, NEW depth, NEW urls \in Seq(Urls),
           \A g \in F, u \in Urls : Push(g, <<u, depth>>) \in F
    PROVE  \E r \in [0..Len(urls) -> F] :
             /\ r[0] = f /\ PushAll(f, urls, depth) = r[Len(urls)]
             /\ \A i \in 1..Len(urls) : r[i] = Push(r[i - 1], <<urls[i], depth>>)
<1> DEFINE n == Len(urls)
           step == [p \in F \X Urls |-> Push(p[1], <<p[2], depth>>)]
           it == CHOOSE g : g = [t \in SUBSET DOMAIN urls |->
                    IF t = {} THEN f ELSE Push(g[t \ {Max(t)}], <<urls[Max(t)], depth>>)]
<1>0. n \in Nat /\ DOMAIN urls = 1..n
  OBVIOUS
<1>1. PushAll(f, urls, depth) = it[1..n]
  <2>1. PushAll(f, urls, depth) = it[DOMAIN urls]
    BY Zenon DEF PushAll, FoldLeft, MapThenFoldSet
  <2> QED
    BY <1>0, <2>1
<1>2. PICK g : Folding(g, SUBSET (1..n), F, step, f, urls)
  <2>1. step \in [F \X Urls -> F]
    OBVIOUS
  <2> HIDE DEF step
  <2> QED
    BY <2>1, FoldExists
<1>3. g = [t \in SUBSET (1..n) |->
             IF t = {} THEN f ELSE Push(g[t \ {Max(t)}], <<urls[Max(t)], depth>>)]
  <2>1. ASSUME NEW t \in SUBSET (1..n), t # {}
        PROVE  g[t] = Push(g[t \ {Max(t)}], <<urls[Max(t)], depth>>)
    <3>1. Max(t) \in 1..n
      BY <1>0, <2>1, MaxIndex
    <3>2. g[t \ {Max(t)}] \in F /\ urls[Max(t)] \in Urls
      <4>1. t \ {Max(t)} \in SUBSET (1..n) /\ g \in [SUBSET (1..n) -> F]
        BY <1>2 DEF Folding
      <4>2. urls[Max(t)] \in Urls
        BY <3>1
      <4> QED
        BY <4>1, <4>2
    <3>3. step[<<g[t \ {Max(t)}], urls[Max(t)]>>] = Push(g[t \ {Max(t)}], <<urls[Max(t)], depth>>)
      BY <3>2
    <3> QED
      BY <1>2, <2>1, <3>3 DEF Folding
  <2>2. g[{}] = f
    BY <1>2 DEF Folding
  <2> QED
    BY <1>2, <2>1, <2>2 DEF Folding
<1>4. it = [t \in SUBSET (1..n) |->
             IF t = {} THEN f ELSE Push(it[t \ {Max(t)}], <<urls[Max(t)], depth>>)]
  BY <1>0, <1>3, Zenon
<1> HIDE DEF it
<1> DEFINE r == [i \in 0..n |-> it[1..i]]
<1>5. r[0] = f /\ r[n] = it[1..n]
  <2>1. 1..0 = {} /\ {} \in SUBSET (1..n) /\ 0 \in 0..n /\ n \in 0..n
    BY <1>0
  <2> QED
    BY <1>4, <2>1
<1>6. ASSUME NEW i \in 1..n PROVE r[i] = Push(r[i - 1], <<urls[i], depth>>)
  <2>1. /\ i - 1 \in 0..n /\ i \in 0..n /\ 1..i \in SUBSET (1..n) /\ 1..i # {}
        /\ Max(1..i) = i /\ (1..i) \ {Max(1..i)} = 1..(i - 1)
    BY <1>0, Prefix
  <2> QED
    BY <1>4, <2>1
<1>7. \A i \in 0..n : i \in {j \in 0..n : r[j] \in F}
  <2> DEFINE P == {j \in 0..n : r[j] \in F}
  <2>1. 0 \in P
    BY <1>0, <1>5
  <2>2. ASSUME NEW i \in 0..n, i \in P, i < n PROVE i + 1 \in P
    <3>1. i + 1 \in 1..n /\ i + 1 \in 0..n /\ (i + 1) - 1 = i
      BY <1>0, <2>2
    <3>2. urls[i + 1] \in Urls
      BY <1>0, <3>1
    <3> HIDE DEF r
    <3>3. r[i + 1] = Push(r[i], <<urls[i + 1], depth>>)
      BY <1>6, <3>1, Zenon
    <3> QED
      BY <2>2, <3>1, <3>2, <3>3
  <2> HIDE DEF P
  <2>3. \A i \in 0..n : i \in P
    BY <1>0, <2>1, <2>2, Climb
  <2> QED
    BY <2>3 DEF P
<1>8. r \in [0..n -> F]
  BY <1>7
<1> QED
  BY <1>1, <1>5, <1>6, <1>8

\* What a restore starts from.
Restored(seen, taken) == [EmptyFrontier EXCEPT !.seen = seen, !.taken = taken]

\* What a restore goes through, one queued URL at a time.
Restoring(r, F, queue, seen, taken) ==
    /\ r \in [0..Len(queue) -> F]
    /\ r[0] = Restored(seen, taken) /\ Restore(queue, seen, taken) = r[Len(queue)]
    /\ \A i \in 1..Len(queue) : r[i] = EnqueueUrl(r[i - 1], queue[i])

LEMMA RestoreRun ==
    ASSUME NEW F, NEW seen, NEW taken, NEW queue \in Seq(Item),
           Restored(seen, taken) \in F,
           \A g \in F, x \in Item : EnqueueUrl(g, x) \in F
    PROVE  \E r : Restoring(r, F, queue, seen, taken)
<1> DEFINE n == Len(queue)
           f == Restored(seen, taken)
           step == [p \in F \X Item |-> EnqueueUrl(p[1], p[2])]
           it == CHOOSE g : g = [t \in SUBSET DOMAIN queue |->
                    IF t = {} THEN f ELSE EnqueueUrl(g[t \ {Max(t)}], queue[Max(t)])]
<1>0. n \in Nat /\ DOMAIN queue = 1..n
  OBVIOUS
<1>1. Restore(queue, seen, taken) = it[1..n]
  <2>1. Restore(queue, seen, taken) = it[DOMAIN queue]
    BY Zenon DEF Restore, Restored, FoldLeft, MapThenFoldSet
  <2> QED
    BY <1>0, <2>1
<1>2. PICK g : Folding(g, SUBSET (1..n), F, step, f, queue)
  <2>1. step \in [F \X Item -> F]
    OBVIOUS
  <2> HIDE DEF step
  <2> QED
    BY <2>1, FoldExists
<1>3. g = [t \in SUBSET (1..n) |->
             IF t = {} THEN f ELSE EnqueueUrl(g[t \ {Max(t)}], queue[Max(t)])]
  <2>1. ASSUME NEW t \in SUBSET (1..n), t # {}
        PROVE  g[t] = EnqueueUrl(g[t \ {Max(t)}], queue[Max(t)])
    <3>1. Max(t) \in 1..n
      BY <1>0, <2>1, MaxIndex
    <3>2. g[t \ {Max(t)}] \in F /\ queue[Max(t)] \in Item
      <4>1. t \ {Max(t)} \in SUBSET (1..n) /\ g \in [SUBSET (1..n) -> F]
        BY <1>2 DEF Folding
      <4>2. queue[Max(t)] \in Item
        BY <3>1
      <4> QED
        BY <4>1, <4>2
    <3>3. step[<<g[t \ {Max(t)}], queue[Max(t)]>>] = EnqueueUrl(g[t \ {Max(t)}], queue[Max(t)])
      BY <3>2
    <3> QED
      BY <1>2, <2>1, <3>3 DEF Folding
  <2>2. g[{}] = f
    BY <1>2 DEF Folding
  <2> QED
    BY <1>2, <2>1, <2>2 DEF Folding
<1>4. it = [t \in SUBSET (1..n) |->
             IF t = {} THEN f ELSE EnqueueUrl(it[t \ {Max(t)}], queue[Max(t)])]
  BY <1>0, <1>3, Zenon
<1> HIDE DEF it
<1> DEFINE r == [i \in 0..n |-> it[1..i]]
<1>5. r[0] = f /\ r[n] = it[1..n]
  <2>1. 1..0 = {} /\ {} \in SUBSET (1..n) /\ 0 \in 0..n /\ n \in 0..n
    BY <1>0
  <2> QED
    BY <1>4, <2>1
<1>6. ASSUME NEW i \in 1..n PROVE r[i] = EnqueueUrl(r[i - 1], queue[i])
  <2>1. /\ i - 1 \in 0..n /\ i \in 0..n /\ 1..i \in SUBSET (1..n) /\ 1..i # {}
        /\ Max(1..i) = i /\ (1..i) \ {Max(1..i)} = 1..(i - 1)
    BY <1>0, Prefix
  <2> QED
    BY <1>4, <2>1
<1>7. \A i \in 0..n : i \in {j \in 0..n : r[j] \in F}
  <2> DEFINE P == {j \in 0..n : r[j] \in F}
  <2>1. 0 \in P
    BY <1>0, <1>5
  <2>2. ASSUME NEW i \in 0..n, i \in P, i < n PROVE i + 1 \in P
    <3>1. i + 1 \in 1..n /\ i + 1 \in 0..n /\ (i + 1) - 1 = i
      BY <1>0, <2>2
    <3>2. queue[i + 1] \in Item
      BY <1>0, <3>1
    <3> HIDE DEF r
    <3>3. r[i + 1] = EnqueueUrl(r[i], queue[i + 1])
      BY <1>6, <3>1, Zenon
    <3> QED
      BY <2>2, <3>1, <3>2, <3>3
  <2> HIDE DEF P
  <2>3. \A i \in 0..n : i \in P
    BY <1>0, <2>1, <2>2, Climb
  <2> QED
    BY <2>3 DEF P
<1>8. r \in [0..n -> F]
  BY <1>7
<1> QED
  BY <1>1, <1>5, <1>6, <1>8 DEF Restoring

\* The saved buckets, appended one at a time.
LEMMA FlattenedRun ==
    ASSUME NEW hs \in Seq(CrawlHosts), stored.buckets \in [CrawlHosts -> Seq(Item)]
    PROVE  \E r \in [0..Len(hs) -> Seq(Item)] :
             /\ r[0] = <<>> /\ Flattened(hs) = r[Len(hs)]
             /\ \A i \in 1..Len(hs) : r[i] = r[i - 1] \o stored.buckets[hs[i]]
<1> DEFINE n == Len(hs)
           F == Seq(Item)
           f == <<>>
           step == [p \in F \X CrawlHosts |-> p[1] \o stored.buckets[p[2]]]
           it == CHOOSE g : g = [t \in SUBSET DOMAIN hs |->
                    IF t = {} THEN f ELSE g[t \ {Max(t)}] \o stored.buckets[hs[Max(t)]]]
<1>0. n \in Nat /\ DOMAIN hs = 1..n
  OBVIOUS
<1>a. f \in F /\ \A q \in F, h \in CrawlHosts : q \o stored.buckets[h] \in F
  <2>1. ASSUME NEW q \in Seq(Item), NEW h \in CrawlHosts
        PROVE  q \o stored.buckets[h] \in Seq(Item)
    <3>1. stored.buckets[h] \in Seq(Item)
      OBVIOUS
    <3> QED
      BY <3>1, ConcatProperties
  <2> QED
    BY <2>1, EmptySeq
<1>F. F = Seq(Item) /\ f = <<>>
  OBVIOUS
<1>1. Flattened(hs) = it[1..n]
  <2>1. Flattened(hs) = it[DOMAIN hs]
    BY Zenon DEF Flattened, FoldLeft, MapThenFoldSet
  <2> QED
    BY <1>0, <2>1
<1> HIDE DEF F, f
<1>2. PICK g : Folding(g, SUBSET (1..n), F, step, f, hs)
  <2>1. step \in [F \X CrawlHosts -> F]
    BY <1>a
  <2> HIDE DEF step
  <2> QED
    BY <1>a, <2>1, FoldExists
<1>3. g = [t \in SUBSET (1..n) |->
             IF t = {} THEN f ELSE g[t \ {Max(t)}] \o stored.buckets[hs[Max(t)]]]
  <2>1. ASSUME NEW t \in SUBSET (1..n), t # {}
        PROVE  g[t] = g[t \ {Max(t)}] \o stored.buckets[hs[Max(t)]]
    <3>1. Max(t) \in 1..n
      BY <1>0, <2>1, MaxIndex
    <3>2. g[t \ {Max(t)}] \in F /\ hs[Max(t)] \in CrawlHosts
      <4>1. t \ {Max(t)} \in SUBSET (1..n) /\ g \in [SUBSET (1..n) -> F]
        BY <1>2 DEF Folding
      <4>2. hs[Max(t)] \in CrawlHosts
        BY <3>1
      <4> QED
        BY <4>1, <4>2
    <3>3. step[<<g[t \ {Max(t)}], hs[Max(t)]>>] = g[t \ {Max(t)}] \o stored.buckets[hs[Max(t)]]
      BY <3>2
    <3> QED
      BY <1>2, <2>1, <3>3 DEF Folding
  <2>2. g[{}] = f
    BY <1>2 DEF Folding
  <2> QED
    BY <1>2, <2>1, <2>2 DEF Folding
<1>4. it = [t \in SUBSET (1..n) |->
             IF t = {} THEN f ELSE it[t \ {Max(t)}] \o stored.buckets[hs[Max(t)]]]
  BY <1>0, <1>3, Zenon
<1> HIDE DEF it
<1> DEFINE r == [i \in 0..n |-> it[1..i]]
<1>5. r[0] = f /\ r[n] = it[1..n]
  <2>1. 1..0 = {} /\ {} \in SUBSET (1..n) /\ 0 \in 0..n /\ n \in 0..n
    BY <1>0
  <2> QED
    BY <1>4, <2>1
<1>6. ASSUME NEW i \in 1..n PROVE r[i] = r[i - 1] \o stored.buckets[hs[i]]
  <2>1. /\ i - 1 \in 0..n /\ i \in 0..n /\ 1..i \in SUBSET (1..n) /\ 1..i # {}
        /\ Max(1..i) = i /\ (1..i) \ {Max(1..i)} = 1..(i - 1)
    BY <1>0, Prefix
  <2> QED
    BY <1>4, <2>1
<1>7. \A i \in 0..n : i \in {j \in 0..n : r[j] \in F}
  <2> DEFINE P == {j \in 0..n : r[j] \in F}
  <2>1. 0 \in P
    BY <1>0, <1>5, <1>a
  <2>2. ASSUME NEW i \in 0..n, i \in P, i < n PROVE i + 1 \in P
    <3>1. i + 1 \in 1..n /\ i + 1 \in 0..n /\ (i + 1) - 1 = i
      BY <1>0, <2>2
    <3>2. hs[i + 1] \in CrawlHosts
      BY <1>0, <3>1
    <3> HIDE DEF r
    <3>3. r[i + 1] = r[i] \o stored.buckets[hs[i + 1]]
      BY <1>6, <3>1, Zenon
    <3> QED
      BY <2>2, <3>1, <3>2, <3>3, <1>a
  <2> HIDE DEF P
  <2>3. \A i \in 0..n : i \in P
    BY <1>0, <2>1, <2>2, Climb
  <2> QED
    BY <2>3 DEF P
<1>8. r \in [0..n -> F]
  BY <1>7
<1> QED
  BY <1>1, <1>5, <1>6, <1>8, <1>F

-----------------------------------------------------------------------------
(* The crawl: the frontier *)

LEMMA CrawlFacts ==
    /\ IsFiniteSet(CrawlHosts) /\ Cardinality(CrawlHosts) \in Nat
    /\ \A S \in SUBSET Urls : IsFiniteSet(S) /\ Cardinality(S) \in Nat
    /\ \A S \in SUBSET Item : IsFiniteSet(S) /\ Cardinality(S) \in Nat
    /\ \A item \in Item : item[1] \in Urls /\ HostOf[item[1]] \in CrawlHosts
<1>1. IsFiniteSet(Urls) /\ IsFiniteSet(CrawlHosts) /\ MaxDepth \in Nat /\ HostOf \in [Urls -> CrawlHosts]
  BY CrawlAssumption
<1>2. IsFiniteSet(0..MaxDepth)
  BY <1>1, FS_Interval
<1>3. IsFiniteSet(Item)
  BY <1>1, <1>2, FS_Product DEF Item
<1>4. \A item \in Item : item[1] \in Urls /\ HostOf[item[1]] \in CrawlHosts
  BY <1>1 DEF Item
<1> QED
  BY <1>1, <1>3, <1>4, FS_Subset, FS_CardinalityType

LEMMA InQueue ==
    ASSUME NEW f, NEW u
    PROVE  u \in Queued(f) <=>
             \E h \in CrawlHosts : \E i \in DOMAIN f.buckets[h] : f.buckets[h][i][1] = u
<1>1. ASSUME NEW h PROVE u \in UrlsIn(f.buckets[h]) <=>
                            \E i \in DOMAIN f.buckets[h] : f.buckets[h][i][1] = u
  BY DEF UrlsIn, Range
<1> QED
  BY <1>1 DEF Queued

LEMMA OrderBound ==
    ASSUME NEW s \in Seq(CrawlHosts), IsInjective(s)
    PROVE  Len(s) \in Nat /\ Len(s) <= Cardinality(CrawlHosts)
<1>1. Len(s) \in Nat /\ DOMAIN s = 1..Len(s) /\ s \in [1..Len(s) -> CrawlHosts]
  BY LenProperties
<1>2. s \in Injection(1..Len(s), CrawlHosts)
  BY <1>1 DEF Injection, IsInjective
<1>3. Cardinality(1..Len(s)) = Len(s)
  BY <1>1, FS_Interval
<1> QED
  BY <1>1, <1>2, <1>3, CrawlFacts, FS_Injection

\* A frontier in order, its hosts no further from their turn than the pops they waited for
\* allow.
Good(f, w) ==
    f \in Frontier /\ Cardinality(f.seen) <= MaxFrontier /\ Rotates(f) /\ Placed(f, w)

\* An item goes to the end of its host's bucket, the host to the end of the rotation.
LEMMA EnqueueFields ==
    ASSUME NEW f \in Frontier, Rotates(f), NEW item \in Item
    PROVE  LET g == EnqueueUrl(f, item)
               h == HostOf[item[1]]
           IN  /\ g \in Frontier
               /\ g.seen = f.seen /\ g.taken = f.taken
               /\ g.buckets = [f.buckets EXCEPT ![h] = Append(f.buckets[h], item)]
               /\ g.order = IF f.buckets[h] = <<>> THEN Append(f.order, h) ELSE f.order
<1> DEFINE g == EnqueueUrl(f, item)
           h == HostOf[item[1]]
<1>1. h \in CrawlHosts
  BY CrawlFacts
<1>2. /\ f.buckets \in [CrawlHosts -> Seq(Item)] /\ f.order \in Seq(CrawlHosts)
      /\ f.seen \in SUBSET Urls /\ f.taken \in [CrawlHosts -> Nat]
  BY DEF Frontier
<1>3. f.buckets[h] = <<>> <=> ~Contains(f.order, h)
  BY <1>1 DEF Rotates
<1> HIDE DEF h
<1> DEFINE b == [f.buckets EXCEPT ![h] = Append(f.buckets[h], item)]
           o == IF f.buckets[h] = <<>> THEN Append(f.order, h) ELSE f.order
<1>4. b \in [CrawlHosts -> Seq(Item)] /\ o \in Seq(CrawlHosts)
  <2>1. Append(f.buckets[h], item) \in Seq(Item)
    BY <1>1, <1>2
  <2>2. Append(f.order, h) \in Seq(CrawlHosts)
    BY <1>1, <1>2
  <2> QED
    BY <1>1, <1>2, <2>1, <2>2
<1>5. g = [f EXCEPT !.buckets = b, !.order = o]
  BY <1>3, Zenon DEF EnqueueUrl, h
<1> HIDE DEF b, o, g
<1>6. g = [buckets |-> b, order |-> o, seen |-> f.seen, taken |-> f.taken]
  BY <1>5 DEF Frontier
<1>7. g \in Frontier
  BY <1>2, <1>4, <1>6 DEF Frontier
<1> QED
  BY <1>6, <1>7 DEF g, h, b, o

\* Which hosts the rotation holds after an append.
LEMMA AppendHost ==
    ASSUME NEW s \in Seq(CrawlHosts), NEW h \in CrawlHosts
    PROVE  LET a == Append(s, h)
           IN  /\ a \in Seq(CrawlHosts) /\ Len(a) = Len(s) + 1 /\ Len(s) \in Nat
               /\ DOMAIN a = 1..(Len(s) + 1) /\ DOMAIN s = 1..Len(s)
               /\ \A i \in 1..Len(s) : a[i] = s[i]
               /\ a[Len(s) + 1] = h
               /\ \A x : Contains(a, x) <=> Contains(s, x) \/ x = h
               /\ IsInjective(s) /\ ~Contains(s, h) => IsInjective(a)
<1> DEFINE a == Append(s, h)
           n == Len(s)
<1>1. /\ a \in Seq(CrawlHosts) /\ Len(a) = n + 1 /\ n \in Nat
      /\ DOMAIN a = 1..(n + 1) /\ DOMAIN s = 1..n
  OBVIOUS
<1>2. (\A i \in 1..n : a[i] = s[i]) /\ a[n + 1] = h
  OBVIOUS
<1> HIDE DEF a, n
<1>s. n = Len(s)
  BY DEF n
<1>3. ASSUME NEW i \in 1..(n + 1), i # n + 1 PROVE i \in 1..n
  BY <1>1, <1>3
<1>4. ASSUME NEW i \in 1..n PROVE i \in 1..(n + 1)
  BY <1>1
<1>5. n + 1 \in 1..(n + 1)
  BY <1>1
<1>6. ASSUME NEW x PROVE Contains(a, x) <=> Contains(s, x) \/ x = h
  <2>1. Contains(a, x) <=> \E i \in 1..(n + 1) : a[i] = x
    BY <1>1 DEF Contains
  <2>2. Contains(s, x) <=> \E i \in 1..n : s[i] = x
    BY <1>s DEF Contains
  <2> QED
    BY <2>1, <2>2, <1>2, <1>3, <1>4, <1>5
<1>7. ASSUME IsInjective(s), ~Contains(s, h) PROVE IsInjective(a)
  <2>1. \A i \in 1..n : s[i] # h
    BY <1>7, <1>s DEF Contains
  <2>2. \A i, k \in 1..n : s[i] = s[k] => i = k
    BY <1>7, <1>1 DEF IsInjective
  <2>3. \A i, k \in 1..(n + 1) : a[i] = a[k] => i = k
    BY <2>1, <2>2, <1>2, <1>3
  <2> QED
    BY <1>1, <2>3 DEF IsInjective
<1> QED
  BY <1>1, <1>2, <1>6, <1>7 DEF a, n

\* Enqueueing keeps the frontier in order; only the URL is new in it.
LEMMA EnqueueGood ==
    ASSUME NEW f, NEW w \in [CrawlHosts -> Nat], Good(f, w), NEW item \in Item
    PROVE  LET g == EnqueueUrl(f, item)
           IN  /\ Good(g, w) /\ g.seen = f.seen /\ g.taken = f.taken
               /\ \A u : u \in Queued(g) <=> u \in Queued(f) \/ u = item[1]
<1> DEFINE g == EnqueueUrl(f, item)
           h == HostOf[item[1]]
           n == Len(f.order)
           b == f.buckets[h]
<1>1. f \in Frontier /\ Cardinality(f.seen) <= MaxFrontier /\ Rotates(f) /\ Placed(f, w)
  BY DEF Good
<1>2. /\ g \in Frontier /\ g.seen = f.seen /\ g.taken = f.taken
      /\ g.buckets = [f.buckets EXCEPT ![h] = Append(b, item)]
      /\ g.order = IF b = <<>> THEN Append(f.order, h) ELSE f.order
  BY <1>1, EnqueueFields
<1>3. /\ h \in CrawlHosts /\ f.order \in Seq(CrawlHosts) /\ f.buckets \in [CrawlHosts -> Seq(Item)]
      /\ g.order \in Seq(CrawlHosts)
  BY <1>1, <1>2, CrawlFacts DEF Frontier
<1>h. h = HostOf[item[1]]
  OBVIOUS
<1> HIDE DEF g, h
<1>4. /\ Append(b, item) # <<>> /\ b \in Seq(Item)
      /\ DOMAIN b = 1..Len(b) /\ Len(b) \in Nat
      /\ DOMAIN Append(b, item) = 1..(Len(b) + 1)
      /\ \A i \in 1..Len(b) : Append(b, item)[i] = b[i]
      /\ Append(b, item)[Len(b) + 1] = item
  <2>1. b \in Seq(Item)
    BY <1>3
  <2> HIDE DEF b
  <2> QED
    BY <2>1
<1>5. /\ g.buckets[h] = Append(b, item)
      /\ \A x \in CrawlHosts : x # h => g.buckets[x] = f.buckets[x]
  BY <1>2, <1>3
<1>6. ASSUME NEW u PROVE u \in UrlsIn(Append(b, item)) <=> u \in UrlsIn(b) \/ u = item[1]
  <2>1. u \in UrlsIn(Append(b, item)) <=> \E i \in 1..(Len(b) + 1) : Append(b, item)[i][1] = u
    BY <1>4 DEF UrlsIn, Range
  <2>2. u \in UrlsIn(b) <=> \E i \in 1..Len(b) : b[i][1] = u
    BY <1>4 DEF UrlsIn, Range
  <2>3. \A i \in 1..(Len(b) + 1) : i \in 1..Len(b) \/ i = Len(b) + 1
    BY <1>4
  <2>4. (\A i \in 1..Len(b) : i \in 1..(Len(b) + 1)) /\ Len(b) + 1 \in 1..(Len(b) + 1)
    BY <1>4
  <2> HIDE DEF b
  <2> QED
    BY <2>1, <2>2, <2>3, <2>4, <1>4
<1>7. ASSUME NEW u PROVE u \in Queued(g) <=> u \in Queued(f) \/ u = item[1]
  <2>1. u \in Queued(g) <=> \E x \in CrawlHosts : u \in UrlsIn(g.buckets[x])
    BY DEF Queued
  <2>2. u \in Queued(f) <=> \E x \in CrawlHosts : u \in UrlsIn(f.buckets[x])
    BY DEF Queued
  <2>3. u \in UrlsIn(g.buckets[h]) <=> u \in UrlsIn(f.buckets[h]) \/ u = item[1]
    BY <1>5, <1>6
  <2> QED
    BY <1>3, <1>5, <2>1, <2>2, <2>3
<1>8. CASE b = <<>>
  <2>1. ~Contains(f.order, h) /\ w[h] = 0
    BY <1>1, <1>3, <1>8 DEF Rotates, Placed
  <2>2. g.order = Append(f.order, h)
    BY <1>2, <1>8
  <2>3. /\ Len(g.order) = n + 1 /\ n \in Nat /\ DOMAIN g.order = 1..(n + 1) /\ DOMAIN f.order = 1..n
        /\ (\A i \in 1..n : g.order[i] = f.order[i]) /\ g.order[n + 1] = h
        /\ \A x : Contains(g.order, x) <=> Contains(f.order, x) \/ x = h
        /\ IsInjective(g.order)
    BY <1>1, <1>3, <2>1, <2>2, AppendHost DEF Rotates
  <2>4. n + 1 <= Cardinality(CrawlHosts)
    BY <1>3, <2>3, OrderBound
  <2>5. Rotates(g)
    <3> SUFFICES ASSUME NEW x \in CrawlHosts
                 PROVE  /\ g.buckets[x] # <<>> <=> Contains(g.order, x)
                        /\ \A u \in UrlsIn(g.buckets[x]) : HostOf[u] = x
      BY <2>3, SMTT(30) DEF Rotates
    <3>1. CASE x = h
      BY <3>1, <1>1, <1>3, <1>4, <1>5, <1>6, <1>h, <2>3 DEF Rotates
    <3>2. CASE x # h
      BY <3>2, <1>1, <1>5, <2>3 DEF Rotates
    <3> QED
      BY <3>1, <3>2
  <2>6. Placed(g, w)
    <3>1. ASSUME NEW i \in 1..(n + 1) PROVE w[g.order[i]] + i <= Cardinality(CrawlHosts)
      <4>1. CASE i = n + 1
        BY <4>1, <2>1, <2>3, <2>4
      <4>2. CASE i # n + 1
        <5>1. i \in 1..n
          BY <2>3, <4>2
        <5> QED
          BY <5>1, <2>3, <1>1 DEF Placed
      <4> QED
        BY <4>1, <4>2
    <3>2. ASSUME NEW x \in CrawlHosts, g.buckets[x] = <<>> PROVE w[x] = 0
      BY <3>2, <1>1, <1>4, <1>5 DEF Placed
    <3> QED
      BY <2>3, <3>1, <3>2 DEF Placed
  <2> QED
    BY <1>1, <1>2, <1>7, <2>5, <2>6 DEF Good, g
<1>9. CASE b # <<>>
  <2>1. g.order = f.order
    BY <1>2, <1>9
  <2>2. Rotates(g)
    <3> SUFFICES ASSUME NEW x \in CrawlHosts
                 PROVE  /\ g.buckets[x] # <<>> <=> Contains(g.order, x)
                        /\ \A u \in UrlsIn(g.buckets[x]) : HostOf[u] = x
      BY <1>1, <2>1, SMTT(30) DEF Rotates
    <3>1. CASE x = h
      BY <3>1, <1>1, <1>3, <1>4, <1>5, <1>6, <1>h, <1>9, <2>1 DEF Rotates
    <3>2. CASE x # h
      BY <3>2, <1>1, <1>5, <2>1 DEF Rotates
    <3> QED
      BY <3>1, <3>2
  <2>3. Placed(g, w)
    <3>2. ASSUME NEW x \in CrawlHosts, g.buckets[x] = <<>> PROVE w[x] = 0
      BY <3>2, <1>1, <1>4, <1>5 DEF Placed
    <3> QED
      BY <1>1, <2>1, <3>2 DEF Placed
  <2> QED
    BY <1>1, <1>2, <1>7, <2>2, <2>3 DEF Good, g
<1> QED
  BY <1>8, <1>9

\* What pushing does: it marks URLs seen that it queues, and takes nothing away.
Grows(f, g) ==
    /\ g.taken = f.taken /\ f.seen \subseteq g.seen
    /\ \A u \in Queued(f) : u \in Queued(g)
    /\ \A u \in g.seen : u \in f.seen \/ u \in Queued(g)

LEMMA PushGood ==
    ASSUME NEW f, NEW w \in [CrawlHosts -> Nat], Good(f, w),
           NEW u \in Urls, NEW depth \in 0..MaxDepth
    PROVE  Good(Push(f, <<u, depth>>), w) /\ Grows(f, Push(f, <<u, depth>>))
<1> DEFINE item == <<u, depth>>
<1>1. item \in Item /\ item[1] = u
  BY DEF Item
<1>2. CASE u \in f.seen \/ Cardinality(f.seen) >= MaxFrontier
  <2>1. Push(f, item) = f
    BY <1>2 DEF Push
  <2> QED
    BY <2>1 DEF Grows
<1>3. CASE ~(u \in f.seen \/ Cardinality(f.seen) >= MaxFrontier)
  <2> DEFINE e == [f EXCEPT !.seen = @ \cup {u}]
  <2>1. /\ f \in Frontier /\ Rotates(f) /\ Placed(f, w)
        /\ f.seen \in SUBSET Urls /\ Cardinality(f.seen) \in Nat /\ IsFiniteSet(f.seen)
    BY CrawlFacts DEF Good, Frontier
  <2>2. /\ e \in Frontier /\ e.seen = f.seen \cup {u}
        /\ e.buckets = f.buckets /\ e.order = f.order /\ e.taken = f.taken
    BY <2>1 DEF Frontier
  <2>3. Push(f, item) = EnqueueUrl(e, item)
    BY <1>1, <1>3 DEF Push
  <2> HIDE DEF e
  <2>4. Cardinality(e.seen) <= MaxFrontier
    <3>1. Cardinality(f.seen \cup {u}) = Cardinality(f.seen) + 1
      BY <1>3, <2>1, FS_AddElement
    <3>2. MaxFrontier \in Nat
      BY CrawlAssumption
    <3> QED
      BY <1>3, <2>1, <2>2, <3>1, <3>2
  <2>5. Rotates(e) /\ Placed(e, w) /\ Queued(e) = Queued(f)
    BY <2>1, <2>2 DEF Rotates, Placed, Queued
  <2>6. Good(e, w)
    BY <2>2, <2>4, <2>5 DEF Good
  <2> HIDE DEF item
  <2>7. LET g == EnqueueUrl(e, item)
        IN  /\ Good(g, w) /\ g.seen = e.seen /\ g.taken = e.taken
            /\ \A x : x \in Queued(g) <=> x \in Queued(e) \/ x = item[1]
    BY <1>1, <2>6, EnqueueGood
  <2>8. Good(Push(f, item), w) /\ Grows(f, Push(f, item))
    BY <1>1, <2>2, <2>3, <2>5, <2>7 DEF Grows
  <2> QED
    BY <2>8 DEF item
<1> QED
  BY <1>2, <1>3

LEMMA PushAllGood ==
    ASSUME NEW f, NEW w \in [CrawlHosts -> Nat], Good(f, w),
           NEW urls \in Seq(Urls), NEW depth \in 0..MaxDepth
    PROVE  Good(PushAll(f, urls, depth), w) /\ Grows(f, PushAll(f, urls, depth))
<1> DEFINE F == {g \in Frontier : Good(g, w) /\ Grows(f, g)}
<1>1. f \in F
  BY DEF Grows, Good
<1>2. ASSUME NEW g \in F, NEW u \in Urls PROVE Push(g, <<u, depth>>) \in F
  <2>1. Good(Push(g, <<u, depth>>), w) /\ Grows(g, Push(g, <<u, depth>>))
    BY PushGood
  <2>2. Grows(f, Push(g, <<u, depth>>))
    BY <2>1 DEF Grows
  <2> QED
    BY <2>1, <2>2 DEF Good
<1> HIDE DEF F
<1>3. PICK r \in [0..Len(urls) -> F] : PushAll(f, urls, depth) = r[Len(urls)]
  BY <1>1, <1>2, PushAllRun
<1>4. Len(urls) \in 0..Len(urls)
  BY LenProperties
<1>5. PushAll(f, urls, depth) \in F
  BY <1>3, <1>4
<1> QED
  BY <1>5 DEF F

-----------------------------------------------------------------------------
(* The crawl: the start of an attempt *)

\* A restore queues every URL it is given and nothing else changes.
LEMMA RestoreGood ==
    ASSUME NEW w \in [CrawlHosts -> Nat], \A h \in CrawlHosts : w[h] = 0,
           NEW queue \in Seq(Item), NEW seen \in SUBSET Urls, Cardinality(seen) <= MaxFrontier,
           NEW taken \in [CrawlHosts -> Nat]
    PROVE  LET g == Restore(queue, seen, taken)
           IN  /\ Good(g, w) /\ g.seen = seen /\ g.taken = taken
               /\ \A i \in DOMAIN queue : queue[i][1] \in Queued(g)
<1> DEFINE f == Restored(seen, taken)
           F == {g \in Frontier : Good(g, w) /\ g.seen = seen /\ g.taken = taken}
           n == Len(queue)
<1>0. n \in Nat /\ DOMAIN queue = 1..n
  OBVIOUS
<1>1. f \in F
  <2>1. f = [buckets |-> [h \in CrawlHosts |-> <<>>], order |-> <<>>, seen |-> seen, taken |-> taken]
    <3> DEFINE b0 == [h \in CrawlHosts |-> <<>>]
               t0 == [h \in CrawlHosts |-> 0]
    <3>1. EmptyFrontier = [buckets |-> b0, order |-> <<>>, seen |-> {}, taken |-> t0]
      BY DEF EmptyFrontier
    <3>2. f = [EmptyFrontier EXCEPT !.seen = seen, !.taken = taken]
      BY DEF Restored
    <3> HIDE DEF b0, t0, f
    <3>3. f = [buckets |-> b0, order |-> <<>>, seen |-> seen, taken |-> taken]
      BY <3>1, <3>2
    <3> QED
      BY <3>3 DEF b0
  <2>2. f \in Frontier
    BY <2>1, EmptySeq DEF Frontier
  <2>3. /\ f.order = <<>> /\ f.seen = seen /\ f.taken = taken
        /\ \A h \in CrawlHosts : f.buckets[h] = <<>>
    BY <2>1
  <2>4. Rotates(f)
    <3> HIDE DEF f
    <3>1. \A x : ~Contains(<<>>, x)
      BY DEF Contains
    <3>2. IsInjective(<<>>)
      BY DEF IsInjective
    <3>3. UrlsIn(<<>>) = {}
      BY DEF UrlsIn, Range
    <3> QED
      BY <2>3, <3>1, <3>2, <3>3 DEF Rotates
  <2>5. Placed(f, w)
    <3> HIDE DEF f
    <3> QED
      BY <2>3 DEF Placed
  <2> QED
    BY <2>2, <2>3, <2>4, <2>5 DEF Good
<1>2. ASSUME NEW g \in F, NEW x \in Item PROVE EnqueueUrl(g, x) \in F
  BY EnqueueGood DEF Good
<1> HIDE DEF F
<1>3. \A g \in F, x \in Item : EnqueueUrl(g, x) \in F
  BY <1>2
<1>4. PICK r : Restoring(r, F, queue, seen, taken)
  BY <1>1, <1>3, RestoreRun
<1>5. /\ r \in [0..n -> F] /\ Restore(queue, seen, taken) = r[n]
      /\ \A i \in 1..n : r[i] = EnqueueUrl(r[i - 1], queue[i])
  BY <1>4 DEF Restoring
<1>6. n \in 0..n
  BY <1>0
<1>7. Restore(queue, seen, taken) \in F
  BY <1>5, <1>6
<1>8. ASSUME NEW i \in 1..n PROVE queue[i][1] \in Queued(r[n])
  <2> DEFINE P == {j \in i..n : queue[i][1] \in Queued(r[j])}
  <2>1. ASSUME NEW j \in 1..n
        PROVE  /\ queue[j][1] \in Queued(r[j])
               /\ \A u \in Queued(r[j - 1]) : u \in Queued(r[j])
    <3>1. j - 1 \in 0..n /\ queue[j] \in Item
      BY <1>0
    <3>2. r[j - 1] \in F
      BY <3>1, <1>5
    <3>3. Good(r[j - 1], w)
      BY <3>2 DEF F
    <3>4. r[j] = EnqueueUrl(r[j - 1], queue[j])
      BY <1>5
    <3> DEFINE g == r[j - 1]
               x == queue[j]
    <3>5. Good(g, w) /\ x \in Item
      BY <3>1, <3>3
    <3> HIDE DEF g, x
    <3>6. \A u : u \in Queued(EnqueueUrl(g, x)) <=> u \in Queued(g) \/ u = x[1]
      BY <3>5, EnqueueGood
    <3> QED
      BY <3>4, <3>6 DEF g, x
  <2>2. i \in P
    BY <2>1, <1>0
  <2>3. ASSUME NEW j \in i..n, j \in P, j < n PROVE j + 1 \in P
    <3>1. j + 1 \in 1..n /\ j + 1 \in i..n /\ (j + 1) - 1 = j
      BY <2>3, <1>0
    <3> QED
      BY <2>1, <2>3, <3>1
  <2>4. i \in Nat /\ n \in i..n
    BY <1>0
  <2> HIDE DEF P
  <2>5. \A j \in i..n : j \in P
    BY <1>0, <2>2, <2>3, <2>4, Climb
  <2>6. n \in P
    BY <2>4, <2>5
  <2> QED
    BY <2>6 DEF P
<1> QED
  BY <1>0, <1>5, <1>7, <1>8 DEF F

\* Flattening drops no item of the buckets it goes through.
LEMMA FlattenedHolds ==
    ASSUME NEW hs \in Seq(CrawlHosts), stored.buckets \in [CrawlHosts -> Seq(Item)]
    PROVE  /\ Flattened(hs) \in Seq(Item)
           /\ \A i \in DOMAIN hs : Range(stored.buckets[hs[i]]) \subseteq Range(Flattened(hs))
<1> DEFINE n == Len(hs)
<1>0. n \in Nat /\ DOMAIN hs = 1..n
  OBVIOUS
<1>1. PICK r \in [0..n -> Seq(Item)] :
             /\ Flattened(hs) = r[n]
             /\ \A i \in 1..n : r[i] = r[i - 1] \o stored.buckets[hs[i]]
  BY FlattenedRun
<1>2. n \in 0..n
  BY <1>0
<1>3. ASSUME NEW i \in 1..n, NEW x \in Range(stored.buckets[hs[i]]) PROVE x \in Range(r[n])
  <2> DEFINE P == {j \in i..n : x \in Range(r[j])}
  <2>1. ASSUME NEW j \in 1..n
        PROVE  Range(r[j]) = Range(r[j - 1]) \cup Range(stored.buckets[hs[j]])
    <3>1. j - 1 \in 0..n /\ hs[j] \in CrawlHosts
      BY <1>0
    <3>2. r[j - 1] \in Seq(Item) /\ stored.buckets[hs[j]] \in Seq(Item)
      BY <3>1, <1>1
    <3>3. Range(r[j - 1] \o stored.buckets[hs[j]]) = Range(r[j - 1]) \cup Range(stored.buckets[hs[j]])
      BY <3>2, RangeConcatenation
    <3>4. r[j] = r[j - 1] \o stored.buckets[hs[j]]
      BY <1>1
    <3> QED
      BY <3>3, <3>4
  <2>2. i \in P
    <3>1. i \in i..n
      BY <1>0
    <3>2. x \in Range(r[i])
      BY <2>1, <1>3
    <3> QED
      BY <3>1, <3>2
  <2>3. ASSUME NEW j \in i..n, j \in P, j < n PROVE j + 1 \in P
    <3>1. j + 1 \in 1..n /\ j + 1 \in i..n /\ (j + 1) - 1 = j
      BY <2>3, <1>0
    <3> QED
      BY <2>1, <2>3, <3>1
  <2>4. i \in Nat /\ n \in i..n
    BY <1>0
  <2> HIDE DEF P
  <2>5. \A j \in i..n : j \in P
    BY <1>0, <2>2, <2>3, <2>4, Climb
  <2>6. n \in P
    BY <2>4, <2>5
  <2> QED
    BY <2>6 DEF P
<1> QED
  BY <1>0, <1>1, <1>2, <1>3

LEMMA SeqsOf ==
    ASSUME NEW S, IsFiniteSet(S), NEW s \in SetToSeqs(S)
    PROVE  s \in Seq(S) /\ Range(s) = S
<1> DEFINE n == Cardinality(S)
<1>1. n \in Nat
  BY FS_CardinalityType
<1>2. s \in [1..n -> S] /\ \A i, j \in 1..n : i # j => s[i] # s[j]
  BY DEF SetToSeqs
<1>3. Cardinality(1..n) = n
  BY <1>1, FS_Interval
<1>4. s \in Injection(1..n, S)
  BY <1>2 DEF Injection, IsInjective
<1>5. s \in Surjection(1..n, S)
  BY <1>3, <1>4, FS_Injection
<1>6. s \in Seq(S)
  <2> HIDE DEF n
  <2> QED
    BY <1>1, <1>2, SeqDef
<1>7. Range(s) = S
  BY <1>2, <1>5 DEF Surjection, Range
<1> QED
  BY <1>6, <1>7

LEMMA SeqWider ==
    ASSUME NEW S, NEW T, S \subseteq T, NEW s \in Seq(S)
    PROVE  s \in Seq(T)
<1>1. Len(s) \in Nat /\ s \in [1..Len(s) -> S]
  BY LenProperties
<1>2. s \in [1..Len(s) -> T]
  BY <1>1
<1> QED
  BY <1>1, <1>2, SeqDef

\* The queue an attempt restores holds every URL the checkpoint owes.
LEMMA RestoredQueueHolds ==
    ASSUME stored.buckets \in [CrawlHosts -> Seq(Item)], stored.flight \in SUBSET Item,
           NEW queue \in RestoredQueues
    PROVE  /\ queue \in Seq(Item)
           /\ \A u \in Outstanding(stored) : \E i \in DOMAIN queue : queue[i][1] = u
<1>1. PICK hs \in SetToSeqs(HostsSaved), fs \in SetToSeqs(stored.flight) :
         queue = Flattened(hs) \o fs
  BY DEF RestoredQueues
<1>2. IsFiniteSet(HostsSaved) /\ IsFiniteSet(stored.flight)
  <2>1. HostsSaved \subseteq CrawlHosts /\ IsFiniteSet(CrawlHosts) /\ IsFiniteSet(stored.flight)
    BY CrawlFacts DEF HostsSaved
  <2> QED
    BY <2>1, FS_Subset
<1>h. HostsSaved \subseteq CrawlHosts
  BY DEF HostsSaved
<1>3. hs \in Seq(CrawlHosts) /\ Range(hs) = HostsSaved
  BY <1>2, <1>h, SeqsOf, SeqWider
<1>4. fs \in Seq(Item) /\ Range(fs) = stored.flight
  BY <1>2, SeqsOf, SeqWider
<1>5. /\ Flattened(hs) \in Seq(Item)
      /\ \A i \in DOMAIN hs : Range(stored.buckets[hs[i]]) \subseteq Range(Flattened(hs))
  BY <1>3, FlattenedHolds
<1>6. queue \in Seq(Item) /\ Range(queue) = Range(Flattened(hs)) \cup stored.flight
  BY <1>1, <1>4, <1>5, ConcatProperties, RangeConcatenation
<1>7. ASSUME NEW u \in Outstanding(stored) PROVE \E x \in Range(queue) : x[1] = u
  <2>1. CASE \E h \in CrawlHosts : u \in UrlsIn(stored.buckets[h])
    <3>1. PICK h \in CrawlHosts : u \in UrlsIn(stored.buckets[h])
      BY <2>1
    <3>2. PICK x \in Range(stored.buckets[h]) : x[1] = u
      BY <3>1 DEF UrlsIn
    <3>3. h \in HostsSaved
      <4>1. stored.buckets[h] # <<>>
        BY <3>2 DEF Range
      <4> QED
        BY <4>1 DEF HostsSaved
    <3>4. PICK i \in DOMAIN hs : hs[i] = h
      BY <3>3, <1>3 DEF Range
    <3> QED
      BY <3>2, <3>4, <1>5, <1>6
  <2>2. CASE \E x \in stored.flight : x[1] = u
    BY <2>2, <1>6
  <2> QED
    BY <1>7, <2>1, <2>2 DEF Outstanding, Queued
<1>8. ASSUME NEW u \in Outstanding(stored) PROVE \E i \in DOMAIN queue : queue[i][1] = u
  <2>1. PICK x \in Range(queue) : x[1] = u
    BY <1>7, <1>8
  <2>2. PICK i \in DOMAIN queue : queue[i] = x
    BY DEF Range
  <2> QED
    BY <2>1, <2>2
<1> QED
  BY <1>6, <1>8

LEMMA DueTyped ==
    ASSUME NEW due \in SetToAllKPermutations(Known)
    PROVE  due \in Seq(Urls) /\ Range(due) \in SUBSET Known
<1>1. PICK K \in SUBSET Known : due \in SetToSeqs(K)
  BY DEF SetToAllKPermutations
<1>2. Known \subseteq Urls
  BY CrawlAssumption
<1>3. IsFiniteSet(K) /\ K \subseteq Urls
  BY <1>2, CrawlFacts
<1> QED
  BY <1>1, <1>3, SeqsOf, SeqWider

-----------------------------------------------------------------------------
(* The crawl: a pop *)

\* Every host in the rotation has URLs queued.
LEMMA Waiting ==
    ASSUME NEW f \in Frontier, Rotates(f), NEW i \in 1..Len(f.order)
    PROVE  f.order[i] \in CrawlHosts /\ f.buckets[f.order[i]] # <<>>
<1>1. f.order \in Seq(CrawlHosts)
  BY DEF Frontier
<1>2. f.order[i] \in CrawlHosts
  BY <1>1
<1>3. Contains(f.order, f.order[i])
  BY DEF Contains
<1> QED
  BY <1>2, <1>3 DEF Rotates

\* A pop passes over the hosts that spent their budget, up to the first that did not.
LEMMA PassedHosts ==
    ASSUME NEW f \in Frontier, Rotates(f)
    PROVE  /\ Len(f.order) \in Nat /\ Passed(f) \in 0..Len(f.order)
           /\ \A i \in 1..Passed(f) : Spent(f, f.order[i])
           /\ Passed(f) < Len(f.order) => ~Spent(f, f.order[Passed(f) + 1])
<1> DEFINE n == Len(f.order)
           able == {i \in 1..n : ~Spent(f, f.order[i]) /\ f.buckets[f.order[i]] # <<>>}
<1>1. n \in Nat
  <2>1. f.order \in Seq(CrawlHosts)
    BY DEF Frontier
  <2> QED
    BY <2>1
<1>2. ASSUME NEW i \in 1..n, i \notin able PROVE Spent(f, f.order[i])
  BY <1>2, Waiting
<1>3. Passed(f) = IF able = {} THEN n ELSE Min(able) - 1
  BY DEF Passed
<1>4. able \subseteq 1..n /\ \A i \in able : ~Spent(f, f.order[i])
  OBVIOUS
<1> HIDE DEF able
<1>5. CASE able = {}
  BY <1>1, <1>2, <1>3, <1>5
<1>6. CASE able # {}
  <2>0. able \subseteq Nat
    BY <1>1, <1>4
  <2>1. \E m \in able : \A x \in able : m <= x
    BY <2>0, <1>6, LeastNat
  <2>2. Min(able) \in able /\ \A x \in able : Min(able) <= x
    BY <2>1 DEF Min
  <2> DEFINE m == Min(able)
  <2>3. m \in 1..n /\ Passed(f) = m - 1 /\ m \in Nat
    <3>1. m \in able /\ Passed(f) = m - 1
      BY <1>3, <1>6, <2>2
    <3>2. m \in 1..n
      BY <1>4, <3>1
    <3> HIDE DEF m
    <3> QED
      BY <1>1, <3>1, <3>2
  <2>4. ASSUME NEW i \in 1..(m - 1) PROVE Spent(f, f.order[i])
    <3>1. i \in 1..n /\ ~(m <= i)
      BY <1>1, <2>3
    <3> QED
      BY <3>1, <1>2, <2>2
  <2>5. ~Spent(f, f.order[m])
    BY <1>4, <2>2
  <2> HIDE DEF m
  <2>6. m - 1 \in 0..n /\ (m - 1) + 1 = m
    BY <1>1, <2>3
  <2> QED
    BY <1>1, <2>3, <2>4, <2>5, <2>6
<1> QED
  BY <1>5, <1>6

\* What a pop passes over leaves the rotation and loses its backlog.
LEMMA SkimFields ==
    ASSUME NEW f \in Frontier, Rotates(f)
    PROVE  LET g == Skimmed(f)
               n == Len(f.order)
               p == Passed(f)
           IN  /\ g \in Frontier /\ g.seen = f.seen /\ g.taken = f.taken
               /\ Len(g.order) = n - p
               /\ \A j \in 1..(n - p) : g.order[j] = f.order[j + p]
               /\ \A h \in CrawlHosts : g.buckets[h] = IF h \in Dumped(f) THEN <<>> ELSE f.buckets[h]
               /\ \A h : h \in Dumped(f) <=> \E i \in 1..p : f.order[i] = h
<1> DEFINE g == Skimmed(f)
           n == Len(f.order)
           p == Passed(f)
           o == SubSeq(f.order, p + 1, n)
           b == [h \in CrawlHosts |-> IF h \in Dumped(f) THEN <<>> ELSE f.buckets[h]]
<1>1. n \in Nat /\ p \in 0..n /\ \A i \in 1..p : Spent(f, f.order[i])
  BY PassedHosts
<1>2. /\ f.order \in Seq(CrawlHosts) /\ f.buckets \in [CrawlHosts -> Seq(Item)]
      /\ f.seen \in SUBSET Urls /\ f.taken \in [CrawlHosts -> Nat]
  BY DEF Frontier
<1>3. g = [f EXCEPT !.order = o, !.buckets = b]
  BY DEF Skimmed
<1>4. /\ o \in Seq(CrawlHosts) /\ Len(o) = n - p
      /\ \A j \in 1..(n - p) : o[j] = f.order[j + p]
  <2>0. p \in Nat /\ p + 1 \in 1..(n + 1) /\ n <= n
    BY <1>1
  <2> HIDE DEF p, n
  <2>1. \A i \in (p + 1)..n : f.order[i] \in CrawlHosts
    <3>1. \A i \in (p + 1)..n : i \in 1..n
      BY <1>1
    <3> QED
      BY <3>1, <1>2 DEF n
  <2>2. /\ o \in Seq(CrawlHosts)
        /\ Len(o) = IF p + 1 <= n THEN n - (p + 1) + 1 ELSE 0
        /\ \A i \in 1..(n - (p + 1) + 1) : o[i] = f.order[(p + 1) + i - 1]
    <3> DEFINE a == p + 1
               s == f.order
    <3>1. a \in Int /\ n \in Int /\ \A i \in a..n : s[i] \in CrawlHosts
      BY <1>1, <2>0, <2>1
    <3> HIDE DEF a, s
    <3>2. /\ SubSeq(s, a, n) \in Seq(CrawlHosts)
          /\ Len(SubSeq(s, a, n)) = IF a <= n THEN n - a + 1 ELSE 0
          /\ \A i \in 1..(n - a + 1) : SubSeq(s, a, n)[i] = s[a + i - 1]
      BY <3>1, SubSeqProperties
    <3> QED
      BY <3>2 DEF a, s
  <2>3. n - (p + 1) + 1 = n - p /\ (p + 1 <= n \/ n - p = 0)
    BY <1>1, <2>0
  <2>4. \A i \in 1..(n - p) : (p + 1) + i - 1 = i + p
    BY <1>1, <2>0
  <2> QED
    BY <2>2, <2>3, <2>4, <1>1
<1>5. b \in [CrawlHosts -> Seq(Item)]
  BY <1>2, EmptySeq
<1>6. \A h \in CrawlHosts : b[h] = IF h \in Dumped(f) THEN <<>> ELSE f.buckets[h]
  OBVIOUS
<1>7. ASSUME NEW h PROVE h \in Dumped(f) <=> \E i \in 1..p : f.order[i] = h
  <2> DEFINE q == SubSeq(f.order, 1, p)
  <2>0. p \in Nat /\ 1 \in 1..(n + 1) /\ (p = 0 \/ (1 <= p /\ p <= n))
    BY <1>1
  <2>1. DOMAIN q = 1..p /\ \A i \in 1..p : q[i] = f.order[i]
    <3> HIDE DEF p, n
    <3>1. \A i \in 1..p : f.order[i] \in CrawlHosts
      <4>1. \A i \in 1..p : i \in 1..n
        BY <1>1, <2>0
      <4> QED
        BY <4>1, <1>2 DEF n
    <3>2. /\ q \in Seq(CrawlHosts)
          /\ Len(q) = IF 1 <= p THEN p - 1 + 1 ELSE 0
          /\ \A i \in 1..(p - 1 + 1) : q[i] = f.order[1 + i - 1]
      BY <1>2, <2>0, <3>1, SubSeqProperties DEF n
    <3>3. p - 1 + 1 = p /\ \A i \in 1..p : 1 + i - 1 = i
      BY <2>0
    <3>4. Len(q) = p /\ DOMAIN q = 1..Len(q)
      BY <3>2, <3>3, <2>0
    <3> QED
      BY <3>2, <3>3, <3>4
  <2>2. h \in Dumped(f) <=> h \in Range(q) /\ Spent(f, h)
    BY DEF Dumped
  <2> HIDE DEF q
  <2>3. h \in Range(q) <=> \E i \in 1..p : f.order[i] = h
    BY <2>1 DEF Range
  <2> QED
    BY <2>2, <2>3, <1>1
<1> HIDE DEF o, b, g
<1>8. g = [buckets |-> b, order |-> o, seen |-> f.seen, taken |-> f.taken]
  BY <1>3 DEF Frontier
<1>9. g \in Frontier
  BY <1>2, <1>4, <1>5, <1>8 DEF Frontier
<1> QED
  BY <1>4, <1>6, <1>7, <1>8, <1>9 DEF g

\* What is skimmed stays in order, and loses no URL but the dumped ones.
LEMMA SkimGood ==
    ASSUME NEW f \in Frontier, Rotates(f)
    PROVE  /\ Rotates(Skimmed(f))
           /\ \A u \in Queued(f) : u \in Queued(Skimmed(f)) \/ u \in DumpedUrls(f)
           /\ Serves(f) <=> Passed(f) < Len(f.order)
           /\ ~Serves(f) => \A h \in CrawlHosts : Skimmed(f).buckets[h] = <<>>
<1> DEFINE g == Skimmed(f)
           n == Len(f.order)
           p == Passed(f)
<1>1. n \in Nat /\ p \in 0..n
  BY PassedHosts
<1>2. /\ g \in Frontier /\ Len(g.order) = n - p
      /\ \A j \in 1..(n - p) : g.order[j] = f.order[j + p]
      /\ \A h \in CrawlHosts : g.buckets[h] = IF h \in Dumped(f) THEN <<>> ELSE f.buckets[h]
      /\ \A h : h \in Dumped(f) <=> \E i \in 1..p : f.order[i] = h
  BY SkimFields
<1>3. f.order \in Seq(CrawlHosts) /\ DOMAIN f.order = 1..n /\ g.order \in Seq(CrawlHosts)
  BY <1>2 DEF Frontier
<1>4. DOMAIN g.order = 1..(n - p)
  BY <1>2, <1>3
<1>s. Serves(f) <=> g.order # <<>>
  BY DEF Serves
<1> HIDE DEF g, n, p
<1>5. \A i, k \in 1..n : f.order[i] = f.order[k] => i = k
  BY <1>3 DEF Rotates, IsInjective
<1>6. \A j \in 1..(n - p) : j + p \in 1..n /\ j + p \notin 1..p
  BY <1>1
<1>7. IsInjective(g.order)
  <2>1. ASSUME NEW i \in 1..(n - p), NEW k \in 1..(n - p), g.order[i] = g.order[k] PROVE i = k
    <3>1. f.order[i + p] = f.order[k + p]
      BY <2>1, <1>2
    <3>2. i + p = k + p
      BY <3>1, <1>5, <1>6
    <3> QED
      BY <3>2, <1>1
  <2> QED
    BY <2>1, <1>4 DEF IsInjective
<1>8. ASSUME NEW h \in CrawlHosts
      PROVE  /\ Contains(f.order, h) <=> \E i \in 1..n : f.order[i] = h
             /\ Contains(g.order, h) <=> \E i \in 1..(n - p) : g.order[i] = h
  BY <1>2 DEF Contains, n
<1>9. ASSUME NEW h \in CrawlHosts
      PROVE  Contains(g.order, h) <=> Contains(f.order, h) /\ h \notin Dumped(f)
  <2>1. ASSUME NEW i \in 1..(n - p), g.order[i] = h PROVE Contains(f.order, h) /\ h \notin Dumped(f)
    <3>1. f.order[i + p] = h /\ i + p \in 1..n /\ i + p \notin 1..p
      BY <2>1, <1>2, <1>6
    <3>2. ASSUME NEW k \in 1..p, f.order[k] = h PROVE FALSE
      <4>1. k \in 1..n
        BY <1>1
      <4>2. k = i + p
        BY <3>1, <3>2, <4>1, <1>5
      <4> QED
        BY <3>1, <4>2
    <3> QED
      BY <3>1, <3>2, <1>2, <1>8
  <2>2. ASSUME NEW k \in 1..n, f.order[k] = h, h \notin Dumped(f) PROVE Contains(g.order, h)
    <3>1. k \notin 1..p
      BY <2>2, <1>2
    <3>2. k - p \in 1..(n - p) /\ (k - p) + p = k
      BY <3>1, <1>1
    <3>3. g.order[k - p] = h
      BY <2>2, <3>2, <1>2
    <3> QED
      BY <3>2, <3>3, <1>8
  <2> QED
    BY <2>1, <2>2, <1>8
<1>10. Rotates(g)
  <2> SUFFICES ASSUME NEW h \in CrawlHosts
               PROVE  /\ g.buckets[h] # <<>> <=> Contains(g.order, h)
                      /\ \A u \in UrlsIn(g.buckets[h]) : HostOf[u] = h
    BY <1>7 DEF Rotates
  <2>1. CASE h \in Dumped(f)
    <3>1. UrlsIn(<<>>) = {}
      BY DEF UrlsIn, Range
    <3> QED
      BY <2>1, <3>1, <1>2, <1>9
  <2>2. CASE h \notin Dumped(f)
    BY <2>2, <1>2, <1>9 DEF Rotates
  <2> QED
    BY <2>1, <2>2
<1>11. ASSUME NEW u \in Queued(f) PROVE u \in Queued(g) \/ u \in DumpedUrls(f)
  <2>1. PICK h \in CrawlHosts : u \in UrlsIn(f.buckets[h])
    BY DEF Queued
  <2>2. CASE h \in Dumped(f)
    BY <2>1, <2>2 DEF DumpedUrls
  <2>3. CASE h \notin Dumped(f)
    <3>1. u \in UrlsIn(g.buckets[h])
      BY <2>1, <2>3, <1>2
    <3> QED
      BY <3>1 DEF Queued
  <2> QED
    BY <2>2, <2>3
<1>12. Serves(f) <=> p < n
  <2>1. g.order # <<>> <=> Len(g.order) # 0
    BY <1>3
  <2> QED
    BY <2>1, <1>s, <1>1, <1>2
<1>13. ASSUME ~Serves(f), NEW h \in CrawlHosts PROVE g.buckets[h] = <<>>
  <2>1. g.order = <<>>
    BY <1>13, <1>s
  <2>2. ~Contains(g.order, h)
    BY <2>1 DEF Contains
  <2> QED
    BY <2>2, <1>10 DEF Rotates
<1> QED
  BY <1>10, <1>11, <1>12, <1>13 DEF g, n, p

\* Which hosts the rotation holds without its head.
LEMMA TailHost ==
    ASSUME NEW s \in Seq(CrawlHosts), s # <<>>, IsInjective(s)
    PROVE  LET t == Tail(s)
           IN  /\ t \in Seq(CrawlHosts) /\ Len(s) \in Nat \ {0} /\ Len(t) = Len(s) - 1
               /\ Head(s) = s[1] /\ s[1] \in CrawlHosts
               /\ \A i \in 1..(Len(s) - 1) : t[i] = s[i + 1]
               /\ IsInjective(t)
               /\ \A x : Contains(t, x) <=> Contains(s, x) /\ x # s[1]
<1> DEFINE t == Tail(s)
           n == Len(s)
<1>1. /\ t \in Seq(CrawlHosts) /\ n \in Nat \ {0} /\ Len(t) = n - 1 /\ Head(s) = s[1]
      /\ DOMAIN s = 1..n /\ s[1] \in CrawlHosts
  OBVIOUS
<1>2. \A i \in 1..(n - 1) : t[i] = s[i + 1]
  OBVIOUS
<1>3. DOMAIN t = 1..(n - 1)
  BY <1>1
<1> HIDE DEF t, n
<1>s. n = Len(s)
  BY DEF n
<1>4. \A i, k \in 1..n : s[i] = s[k] => i = k
  BY <1>1 DEF IsInjective
<1>5. \A i \in 1..(n - 1) : i + 1 \in 1..n /\ i + 1 # 1
  BY <1>1
<1>6. IsInjective(t)
  <2>1. ASSUME NEW i \in 1..(n - 1), NEW k \in 1..(n - 1), t[i] = t[k] PROVE i = k
    <3>1. i + 1 = k + 1
      BY <2>1, <1>2, <1>4, <1>5
    <3> QED
      BY <3>1, <1>1
  <2> QED
    BY <2>1, <1>3 DEF IsInjective
<1>7. ASSUME NEW x PROVE Contains(t, x) <=> Contains(s, x) /\ x # s[1]
  <2>1. Contains(t, x) <=> \E i \in 1..(n - 1) : t[i] = x
    BY <1>1 DEF Contains
  <2>2. Contains(s, x) <=> \E i \in 1..n : s[i] = x
    BY <1>s DEF Contains
  <2>3. \A k \in 1..n : k # 1 => k - 1 \in 1..(n - 1) /\ (k - 1) + 1 = k
    BY <1>1
  <2>4. 1 \in 1..n
    BY <1>1
  <2>5. ASSUME NEW i \in 1..(n - 1), t[i] = x PROVE Contains(s, x) /\ x # s[1]
    BY <2>2, <2>4, <2>5, <1>2, <1>4, <1>5
  <2>6. ASSUME NEW k \in 1..n, s[k] = x, x # s[1] PROVE \E i \in 1..(n - 1) : t[i] = x
    BY <2>3, <2>6, <1>2
  <2> QED
    BY <2>1, <2>2, <2>5, <2>6
<1> QED
  BY <1>1, <1>2, <1>6, <1>7 DEF t, n

\* The host a pop serves and what it takes from it.
LEMMA PopServes ==
    ASSUME NEW f \in Frontier, Rotates(f), Serves(f)
    PROVE  LET h == Served(f)
           IN  /\ h \in CrawlHosts /\ ~Spent(f, h) /\ f.buckets[h] # <<>>
               /\ Skimmed(f).order # <<>> /\ h = Skimmed(f).order[1]
               /\ Skimmed(f).buckets[h] = f.buckets[h]
               /\ Popped(f) \in Item /\ Popped(f) = f.buckets[h][1] /\ HostOf[Popped(f)[1]] = h
<1> DEFINE g == Skimmed(f)
           h == Served(f)
           n == Len(f.order)
           p == Passed(f)
<1>1. n \in Nat /\ p \in 0..n /\ p < n /\ ~Spent(f, f.order[p + 1])
  BY PassedHosts, SkimGood
<1>2. /\ g \in Frontier /\ Rotates(g) /\ Len(g.order) = n - p
      /\ \A j \in 1..(n - p) : g.order[j] = f.order[j + p]
      /\ \A x \in CrawlHosts : g.buckets[x] = IF x \in Dumped(f) THEN <<>> ELSE f.buckets[x]
  BY SkimFields, SkimGood
<1>3. g.order # <<>> /\ h = Head(g.order)
  BY DEF Serves, Served
<1>4. Popped(f) = Head(f.buckets[h])
  BY DEF Popped
<1>5. f.buckets \in [CrawlHosts -> Seq(Item)] /\ g.order \in Seq(CrawlHosts)
  BY <1>2 DEF Frontier
<1> HIDE DEF g, h, n, p
<1>6. h = g.order[1] /\ 1 \in 1..(n - p) /\ 1 + p = p + 1
  BY <1>1, <1>3, <1>5
<1>7. h = f.order[p + 1]
  BY <1>2, <1>6
<1>8. h \in CrawlHosts /\ g.buckets[h] # <<>>
  <2>1. 1 \in 1..Len(g.order)
    BY <1>2, <1>6
  <2> QED
    BY <2>1, <1>2, <1>6, Waiting
<1>9. g.buckets[h] = f.buckets[h] /\ f.buckets[h] # <<>>
  BY <1>2, <1>8
<1>10. Popped(f) \in Item /\ Popped(f) = f.buckets[h][1] /\ 1 \in DOMAIN f.buckets[h]
  <2> DEFINE b == f.buckets[h]
  <2>1. b \in Seq(Item) /\ b # <<>> /\ Popped(f) = Head(b)
    BY <1>4, <1>5, <1>8, <1>9
  <2> HIDE DEF b
  <2>2. Head(b) \in Item /\ Head(b) = b[1] /\ 1 \in DOMAIN b
    BY <2>1
  <2> QED
    BY <2>1, <2>2 DEF b
<1>11. Popped(f)[1] \in UrlsIn(f.buckets[h])
  BY <1>10 DEF UrlsIn, Range
<1>12. HostOf[Popped(f)[1]] = h
  BY <1>8, <1>11 DEF Rotates
<1> QED
  BY <1>1, <1>3, <1>6, <1>7, <1>8, <1>9, <1>10, <1>12 DEF g, h

LEMMA PopFields ==
    ASSUME NEW f \in Frontier, Rotates(f), Serves(f)
    PROVE  LET a == AfterPop(f)
               g == Skimmed(f)
               h == Served(f)
               rest == Tail(f.buckets[h])
           IN  /\ a \in Frontier /\ a.seen = f.seen /\ rest \in Seq(Item)
               /\ a.taken = [f.taken EXCEPT ![h] = f.taken[h] + 1]
               /\ a.buckets = [g.buckets EXCEPT ![h] = rest]
               /\ a.order = IF rest = <<>> THEN Tail(g.order) ELSE Append(Tail(g.order), h)
<1> DEFINE a == AfterPop(f)
           g == Skimmed(f)
           h == Served(f)
           rest == Tail(f.buckets[h])
           b == [g.buckets EXCEPT ![h] = rest]
           k == [g.taken EXCEPT ![h] = g.taken[h] + 1]
           o == IF rest = <<>> THEN Tail(g.order) ELSE Append(Tail(g.order), h)
<1>1. h \in CrawlHosts /\ f.buckets[h] # <<>> /\ g.order # <<>> /\ g.buckets[h] = f.buckets[h]
  BY PopServes
<1>2. g \in Frontier /\ g.seen = f.seen /\ g.taken = f.taken
  BY SkimFields
<1>3. /\ f.buckets \in [CrawlHosts -> Seq(Item)]
      /\ g.buckets \in [CrawlHosts -> Seq(Item)] /\ g.order \in Seq(CrawlHosts)
      /\ g.seen \in SUBSET Urls /\ g.taken \in [CrawlHosts -> Nat]
  BY <1>2 DEF Frontier
<1>4. a = [g EXCEPT !.buckets[h] = rest, !.taken[h] = @ + 1,
                    !.order = IF rest = <<>> THEN Tail(@) ELSE Append(Tail(@), h)]
  BY <1>1 DEF AfterPop
<1> HIDE DEF g, h, a
<1>5. rest \in Seq(Item)
  <2>1. f.buckets[h] \in Seq(Item) /\ f.buckets[h] # <<>>
    BY <1>1, <1>3
  <2> QED
    BY <2>1
<1>6. o \in Seq(CrawlHosts)
  <2>1. Tail(g.order) \in Seq(CrawlHosts)
    BY <1>1, <1>3
  <2> QED
    BY <1>1, <2>1
<1>7. b \in [CrawlHosts -> Seq(Item)] /\ k \in [CrawlHosts -> Nat]
  <2> HIDE DEF rest
  <2> QED
    BY <1>1, <1>3, <1>5
<1>8. a = [g EXCEPT !.buckets = b, !.taken = k, !.order = o]
  BY <1>4
<1> HIDE DEF b, k, o, rest
<1>9. a = [buckets |-> b, order |-> o, seen |-> g.seen, taken |-> k]
  BY <1>2, <1>8 DEF Frontier
<1>10. a \in Frontier
  BY <1>3, <1>6, <1>7, <1>9 DEF Frontier
<1> QED
  BY <1>2, <1>5, <1>9, <1>10 DEF a, g, h, b, k, o, rest

\* The waits after a pop that leaves g.
Waits(f, g, w) ==
    [h \in CrawlHosts |->
        IF h = Served(f) \/ f.buckets[h] = <<>> \/ g.buckets[h] = <<>> THEN 0 ELSE w[h] + 1]

\* A pop keeps the frontier in order: the hosts behind the served one move up as they wait.
LEMMA PopGood ==
    ASSUME NEW f, NEW w \in [CrawlHosts -> Nat], Good(f, w), Serves(f)
    PROVE  LET a == AfterPop(f)
           IN  /\ Waits(f, a, w) \in [CrawlHosts -> Nat]
               /\ Good(a, Waits(f, a, w)) /\ a.seen = f.seen
               /\ \A u \in Queued(f) : u \in Queued(a) \/ u \in DumpedUrls(f) \/ u = Popped(f)[1]
<1> DEFINE a == AfterPop(f)
           g == Skimmed(f)
           h == Served(f)
           rest == Tail(f.buckets[h])
           n == Len(f.order)
           p == Passed(f)
           v == Waits(f, a, w)
           N == Cardinality(CrawlHosts)
<1>1. f \in Frontier /\ Cardinality(f.seen) <= MaxFrontier /\ Rotates(f) /\ Placed(f, w)
  BY DEF Good
<1>2. /\ h \in CrawlHosts /\ f.buckets[h] # <<>> /\ g.order # <<>> /\ h = g.order[1]
      /\ g.buckets[h] = f.buckets[h] /\ Popped(f) = f.buckets[h][1]
  BY <1>1, PopServes
<1>3. /\ a \in Frontier /\ a.seen = f.seen /\ rest \in Seq(Item)
      /\ a.buckets = [g.buckets EXCEPT ![h] = rest]
      /\ a.order = IF rest = <<>> THEN Tail(g.order) ELSE Append(Tail(g.order), h)
  BY <1>1, PopFields
<1>4. /\ g \in Frontier /\ Rotates(g) /\ Len(g.order) = n - p
      /\ \A j \in 1..(n - p) : g.order[j] = f.order[j + p]
      /\ n \in Nat /\ p \in 0..n /\ p < n
  BY <1>1, SkimFields, SkimGood, PassedHosts
<1>5. /\ f.buckets \in [CrawlHosts -> Seq(Item)] /\ g.buckets \in [CrawlHosts -> Seq(Item)]
      /\ g.order \in Seq(CrawlHosts) /\ f.order \in Seq(CrawlHosts) /\ N \in Nat
  BY <1>1, <1>4, CrawlFacts DEF Frontier
<1>6. v \in [CrawlHosts -> Nat]
  BY DEF Waits
<1>7. /\ v[h] = 0
      /\ \A x \in CrawlHosts : a.buckets[x] = <<>> => v[x] = 0
      /\ \A x \in CrawlHosts : v[x] <= w[x] + 1
  BY <1>2 DEF Waits
<1>8. n <= N
  BY <1>1, <1>5, OrderBound DEF Rotates
<1>q. ASSUME NEW u \in Queued(f) PROVE u \in Queued(g) \/ u \in DumpedUrls(f)
  BY <1>1, SkimGood
<1> DEFINE t == Tail(g.order)
<1>9. /\ t \in Seq(CrawlHosts) /\ Len(t) = (n - p) - 1 /\ IsInjective(t)
      /\ \A i \in 1..((n - p) - 1) : t[i] = g.order[i + 1]
      /\ \A x : Contains(t, x) <=> Contains(g.order, x) /\ x # h
  <2>1. IsInjective(g.order)
    BY <1>4 DEF Rotates
  <2> HIDE DEF g, h, n, p
  <2> QED
    BY <2>1, <1>2, <1>4, <1>5, TailHost, SMTT(30)
<1> HIDE DEF a, g, h, n, p, v, N, t, rest
<1>10. /\ a.buckets[h] = rest
       /\ \A x \in CrawlHosts : x # h => a.buckets[x] = g.buckets[x]
  BY <1>2, <1>3, <1>5
<1>11. \A u \in UrlsIn(f.buckets[h]) : u \in UrlsIn(rest) \/ u = Popped(f)[1]
  <2> DEFINE b == f.buckets[h]
  <2>1. b \in Seq(Item) /\ b # <<>> /\ rest = Tail(b) /\ Popped(f) = b[1]
    BY <1>2, <1>5 DEF rest
  <2> SUFFICES ASSUME NEW u \in UrlsIn(b) PROVE u \in UrlsIn(rest) \/ u = b[1][1]
    BY <2>1
  <2> HIDE DEF b
  <2>2. Len(b) \in Nat /\ DOMAIN b = 1..Len(b) /\ DOMAIN rest = 1..(Len(b) - 1)
    BY <2>1
  <2>3. \A i \in 1..(Len(b) - 1) : rest[i] = b[i + 1]
    BY <2>1
  <2>4. PICK i \in 1..Len(b) : b[i][1] = u
    BY <2>2 DEF UrlsIn, Range
  <2>5. CASE i = 1
    BY <2>4, <2>5
  <2>6. CASE i # 1
    <3>1. i - 1 \in 1..(Len(b) - 1) /\ (i - 1) + 1 = i
      BY <2>2, <2>6
    <3>2. rest[i - 1] = b[i]
      BY <3>1, <2>3
    <3>3. b[i] \in Range(rest)
      BY <3>1, <3>2, <2>2 DEF Range
    <3> QED
      BY <3>3, <2>4 DEF UrlsIn
  <2> QED
    BY <2>5, <2>6
<1>12. \A u \in UrlsIn(rest) : u \in UrlsIn(f.buckets[h])
  <2> DEFINE b == f.buckets[h]
  <2>1. b \in Seq(Item) /\ b # <<>> /\ rest = Tail(b)
    BY <1>2, <1>5 DEF rest
  <2> SUFFICES ASSUME NEW u \in UrlsIn(rest) PROVE u \in UrlsIn(b)
    OBVIOUS
  <2> HIDE DEF b
  <2>2. Len(b) \in Nat /\ DOMAIN b = 1..Len(b) /\ DOMAIN rest = 1..(Len(b) - 1)
    BY <2>1
  <2>3. \A i \in 1..(Len(b) - 1) : rest[i] = b[i + 1]
    BY <2>1
  <2>4. PICK i \in 1..(Len(b) - 1) : rest[i][1] = u
    BY <2>2 DEF UrlsIn, Range
  <2>5. i + 1 \in 1..Len(b) /\ b[i + 1] = rest[i]
    BY <2>2, <2>3
  <2>6. rest[i] \in Range(b)
    BY <2>2, <2>5 DEF Range
  <2> QED
    BY <2>4, <2>6 DEF UrlsIn
<1>13. ASSUME NEW u \in Queued(f) PROVE u \in Queued(a) \/ u \in DumpedUrls(f) \/ u = Popped(f)[1]
  <2>1. CASE u \in Queued(g)
    <3>1. PICK x \in CrawlHosts : u \in UrlsIn(g.buckets[x])
      BY <2>1 DEF Queued
    <3>2. CASE x = h
      <4>1. u \in UrlsIn(a.buckets[h]) \/ u = Popped(f)[1]
        BY <3>1, <3>2, <1>2, <1>10, <1>11
      <4> QED
        BY <4>1, <1>2 DEF Queued
    <3>3. CASE x # h
      <4>1. u \in UrlsIn(a.buckets[x])
        BY <3>1, <3>3, <1>10
      <4> QED
        BY <4>1 DEF Queued
    <3> QED
      BY <3>2, <3>3
  <2> QED
    BY <2>1, <1>q
<1>14. ASSUME NEW i \in 1..((n - p) - 1) PROVE v[t[i]] + i <= N /\ t[i] \in CrawlHosts
  <2>1. /\ i + 1 \in 1..(n - p) /\ (i + 1) + p \in 1..n /\ i \in Nat /\ p \in Nat
    BY <1>4
  <2>2. t[i] = f.order[(i + 1) + p]
    BY <2>1, <1>4, <1>9
  <2>3. t[i] \in CrawlHosts
    BY <2>1, <2>2, <1>5 DEF n
  <2>4. w[t[i]] + ((i + 1) + p) <= N
    <3>1. DOMAIN f.order = 1..n
      BY <1>5 DEF n
    <3> QED
      BY <2>1, <2>2, <3>1, <1>1 DEF Placed, N
  <2>5. v[t[i]] <= w[t[i]] + 1 /\ v[t[i]] \in Nat /\ w[t[i]] \in Nat
    BY <2>3, <1>6, <1>7
  <2> QED
    BY <2>1, <2>3, <2>4, <2>5, <1>5
<1>15. ASSUME NEW x \in CrawlHosts PROVE \A u \in UrlsIn(a.buckets[x]) : HostOf[u] = x
  <2>1. CASE x = h
    BY <2>1, <1>1, <1>2, <1>10, <1>12 DEF Rotates
  <2>2. CASE x # h
    BY <2>2, <1>4, <1>10 DEF Rotates
  <2> QED
    BY <2>1, <2>2
<1>16. CASE rest = <<>>
  <2>1. a.order = t
    BY <1>3, <1>16 DEF t
  <2>2. Rotates(a)
    <3>1. ASSUME NEW x \in CrawlHosts PROVE a.buckets[x] # <<>> <=> Contains(a.order, x)
      <4>1. CASE x = h
        BY <4>1, <2>1, <1>9, <1>10, <1>16
      <4>2. CASE x # h
        BY <4>2, <2>1, <1>4, <1>9, <1>10 DEF Rotates
      <4> QED
        BY <4>1, <4>2
    <3> QED
      BY <3>1, <2>1, <1>9, <1>15 DEF Rotates
  <2>3. Placed(a, v)
    <3>1. DOMAIN t = 1..((n - p) - 1)
      BY <1>9
    <3> QED
      BY <2>1, <3>1, <1>7, <1>14 DEF Placed, N
  <2> QED
    BY <2>2, <2>3, <1>1, <1>3, <1>6, <1>13 DEF Good, a, v
<1>17. CASE rest # <<>>
  <2> DEFINE m == (n - p) - 1
  <2>1. a.order = Append(t, h)
    BY <1>3, <1>17 DEF t
  <2>m. m \in Nat /\ Len(t) = m /\ m + 1 <= N
    BY <1>4, <1>5, <1>8, <1>9
  <2>14. \A i \in 1..m : v[t[i]] + i <= N /\ t[i] \in CrawlHosts
    BY <1>14
  <2> HIDE DEF m
  <2>2. /\ DOMAIN a.order = 1..(m + 1)
        /\ \A i \in 1..m : a.order[i] = t[i]
        /\ a.order[m + 1] = h
        /\ \A x : Contains(a.order, x) <=> Contains(t, x) \/ x = h
        /\ IsInjective(a.order)
    BY <2>1, <2>m, <1>2, <1>9, AppendHost
  <2>3. Rotates(a)
    <3>1. ASSUME NEW x \in CrawlHosts PROVE a.buckets[x] # <<>> <=> Contains(a.order, x)
      <4>1. CASE x = h
        BY <4>1, <2>2, <1>10, <1>17
      <4>2. CASE x # h
        BY <4>2, <2>2, <1>4, <1>9, <1>10 DEF Rotates
      <4> QED
        BY <4>1, <4>2
    <3> QED
      BY <3>1, <2>2, <1>15 DEF Rotates
  <2>4. Placed(a, v)
    <3>1. ASSUME NEW i \in 1..(m + 1) PROVE v[a.order[i]] + i <= N
      <4>1. CASE i = m + 1
        BY <4>1, <2>2, <2>m, <1>7, <1>5
      <4>2. CASE i # m + 1
        <5>1. i \in 1..m
          BY <4>2, <2>m
        <5> QED
          BY <5>1, <2>2, <2>14
      <4> QED
        BY <4>1, <4>2
    <3> QED
      BY <3>1, <2>2, <1>7 DEF Placed, N
  <2> QED
    BY <2>3, <2>4, <1>1, <1>3, <1>6, <1>13 DEF Good, a, v
<1> QED
  BY <1>16, <1>17

\* A requeue gives the charge back and the URL too.
LEMMA RequeueGood ==
    ASSUME NEW f, NEW w \in [CrawlHosts -> Nat], Good(f, w), Serves(f)
    PROVE  LET g == Requeue(AfterPop(f), Popped(f))
           IN  /\ Waits(f, g, w) \in [CrawlHosts -> Nat]
               /\ Good(g, Waits(f, g, w)) /\ g.seen = f.seen /\ g.taken = f.taken
               /\ \A u \in Queued(f) : u \in Queued(g) \/ u \in DumpedUrls(f)
<1> DEFINE a == AfterPop(f)
           h == Served(f)
           item == Popped(f)
           e == [a EXCEPT !.taken[h] = IF @ = 0 THEN 0 ELSE @ - 1]
           g == Requeue(a, item)
           v == Waits(f, a, w)
<1>1. f \in Frontier /\ Rotates(f) /\ f.taken \in [CrawlHosts -> Nat]
  BY DEF Good, Frontier
<1>2. h \in CrawlHosts /\ item \in Item /\ HostOf[item[1]] = h
  BY <1>1, PopServes
<1>3. a \in Frontier /\ a.taken = [f.taken EXCEPT ![h] = f.taken[h] + 1]
  BY <1>1, PopFields
<1>4. /\ v \in [CrawlHosts -> Nat] /\ Good(a, v) /\ a.seen = f.seen
      /\ \A u \in Queued(f) : u \in Queued(a) \/ u \in DumpedUrls(f) \/ u = item[1]
  BY PopGood
<1>5. g = EnqueueUrl(e, item)
  BY <1>2, Zenon DEF Requeue
<1>6. e.taken = f.taken /\ e.buckets = a.buckets /\ e.order = a.order /\ e.seen = a.seen /\ e \in Frontier
  <2> HIDE DEF a, h
  <2>1. a.taken[h] = f.taken[h] + 1 /\ f.taken[h] \in Nat
    BY <1>1, <1>2, <1>3
  <2>2. /\ e = [a EXCEPT !.taken = [a.taken EXCEPT ![h] = f.taken[h]]]
    BY <2>1
  <2>3. [a.taken EXCEPT ![h] = f.taken[h]] = f.taken
    BY <1>1, <1>2, <1>3
  <2>4. e = [a EXCEPT !.taken = f.taken]
    BY <2>2, <2>3
  <2> HIDE DEF e
  <2> QED
    BY <2>4, <1>1, <1>3 DEF Frontier
<1> HIDE DEF a, h, item, e, g
<1>7. Good(e, v)
  BY <1>4, <1>6 DEF Good, Rotates, Placed
<1>8. /\ Good(g, v) /\ g.seen = e.seen /\ g.taken = e.taken
      /\ \A u : u \in Queued(g) <=> u \in Queued(e) \/ u = item[1]
  BY <1>2, <1>4, <1>5, <1>7, EnqueueGood
<1>9. Queued(e) = Queued(a)
  BY <1>6 DEF Queued
<1>10. g.buckets = [e.buckets EXCEPT ![h] = Append(e.buckets[h], item)]
  <2>1. Rotates(e)
    BY <1>7 DEF Good
  <2> QED
    BY <2>1, <1>2, <1>5, <1>6, EnqueueFields
<1>11. ASSUME NEW x \in CrawlHosts, x # h PROVE g.buckets[x] = a.buckets[x]
  BY <1>10, <1>11, <1>6, <1>3, <1>2 DEF Frontier
<1>12. Waits(f, g, w) = v
  <2>1. h = Served(f)
    BY DEF h
  <2> QED
    BY <2>1, <1>11 DEF Waits
<1> QED
  BY <1>4, <1>6, <1>8, <1>9, <1>12 DEF g, a, item

\* A pop that finds nothing leaves nothing queued.
LEMMA SkimIdle ==
    ASSUME NEW f, NEW w, Good(f, w), ~Serves(f)
    PROVE  /\ Good(Skimmed(f), [h \in CrawlHosts |-> 0])
           /\ Skimmed(f).seen = f.seen /\ Skimmed(f).taken = f.taken
           /\ \A u \in Queued(f) : u \in Queued(Skimmed(f)) \/ u \in DumpedUrls(f)
<1> DEFINE g == Skimmed(f)
           z == [h \in CrawlHosts |-> 0]
<1>1. f \in Frontier /\ Rotates(f) /\ Cardinality(f.seen) <= MaxFrontier
  BY DEF Good
<1>2. g \in Frontier /\ g.seen = f.seen /\ g.taken = f.taken /\ Rotates(g)
  BY <1>1, SkimFields, SkimGood
<1>3. \A u \in Queued(f) : u \in Queued(g) \/ u \in DumpedUrls(f)
  BY <1>1, SkimGood
<1>4. g.order = <<>>
  BY DEF Serves
<1> HIDE DEF g
<1>5. Placed(g, z)
  <2>1. DOMAIN g.order = {}
    BY <1>4
  <2> QED
    BY <2>1 DEF Placed
<1> QED
  BY <1>1, <1>2, <1>3, <1>5 DEF Good, g

-----------------------------------------------------------------------------
(* The crawl: what its actions share *)

\* A fate is given up for good.
LEMMA FatesSettle ==
    ASSUME NEW fate \in [Urls -> {"open", "missed", "dumped"}], NEW M
    PROVE  /\ Fates(fate, M) \in [Urls -> {"open", "missed", "dumped"}]
           /\ \A u \in Urls : u \in M \/ u \in DumpedUrls(frontier) \/ fate[u] # "open"
                                 => Fates(fate, M)[u] # "open"
BY DEF Fates

\* What a checkpoint promises is kept while the sink only gains records.
LEMMA StoredKept ==
    ASSUME CheckpointHonest, PrintsBacked, stored' = stored, handed \subseteq handed'
    PROVE  CheckpointHonest' /\ PrintsBacked'
BY DEF CheckpointHonest, PrintsBacked, Outstanding, Queued, UrlsIn

LEMMA Assembled ==
    ASSUME CrawlTypeOK', CheckpointHonest', PrintsBacked', Good(frontier', waits'),
           AttemptInPhase', MemoryHonest', FetchesCharged'
    PROVE  ResumeInv'
<1>1. Rotates(frontier)' /\ Placed(frontier, waits)'
  BY DEF Good, Rotates, Placed
<1>2. HostBudgetKept'
  <2> SUFFICES ASSUME HostCap > 0, NEW h \in CrawlHosts PROVE lineage'.fetches[h] <= HostCap
    BY DEF HostBudgetKept
  <2>1. /\ lineage'.fetches[h] \in Nat /\ frontier'.taken[h] \in Nat /\ stored'.taken[h] \in Nat
        /\ HostCap \in Nat
    BY CrawlAssumption DEF CrawlTypeOK, Lineage, Frontier, Checkpoints
  <2>2. /\ frontier'.taken[h] <= HostCap /\ stored'.taken[h] <= HostCap
        /\ stored'.lineage.fetches[h] <= stored'.taken[h]
        /\ run'.pc # "down" => lineage'.fetches[h] <= frontier'.taken[h]
    BY DEF FetchesCharged
  <2>3. run'.pc = "down" => lineage' = stored'.lineage
    BY DEF AttemptInPhase
  <2> QED
    BY <2>1, <2>2, <2>3
<1> QED
  BY <1>1, <1>2 DEF ResumeInv

LEMMA GoodNow ==
    ASSUME ResumeInv
    PROVE  /\ Good(frontier, waits) /\ waits \in [CrawlHosts -> Nat]
           /\ stored \in Checkpoints /\ lineage \in Lineage /\ run \in CrawlRun
           /\ flight \in SUBSET Item /\ buf \in SUBSET Urls /\ handed \in SUBSET Urls
           /\ frontier.taken \in [CrawlHosts -> Nat] /\ frontier.seen \in SUBSET Urls
BY DEF ResumeInv, CrawlTypeOK, Good, Frontier

-----------------------------------------------------------------------------
(* The crawl: one lemma per action *)

\* An attempt starts with everything the checkpoint owes.
LEMMA StartKeeps ==
    ASSUME ResumeInv, Start
    PROVE  ResumeInv'
<1>1. /\ Good(frontier, waits) /\ waits \in [CrawlHosts -> Nat]
      /\ stored \in Checkpoints /\ lineage \in Lineage /\ Cardinality(stored.seen) <= MaxFrontier
  BY GoodNow DEF ResumeInv, CrawlTypeOK
<1>2. /\ frontier = EmptyFrontier /\ lineage = stored.lineage
  BY DEF ResumeInv, AttemptInPhase, Start
<1>3. \A h \in CrawlHosts : waits[h] = 0
  <2>1. \A h \in CrawlHosts : frontier.buckets[h] = <<>>
    BY <1>2, SMTT(30) DEF EmptyFrontier
  <2> QED
    BY <1>1, <2>1 DEF Good, Placed
<1>4. PICK queue \in RestoredQueues, due \in SetToAllKPermutations(Known) :
         /\ frontier' = PushAll(Restore(queue, stored.seen, stored.taken), Seeds \o due, 0)
         /\ run' = [IdleRun EXCEPT !.pc = "topup", !.known = Range(due),
                       !.truncated = ~(Range(Seeds \o due) \subseteq frontier'.seen)]
  BY DEF Start
<1>5. /\ prints' = stored.prints
      /\ UNCHANGED <<flight, buf, resting, stored, handed, kills, lineage, waits>>
  BY DEF Start
<1>6. /\ stored.buckets \in [CrawlHosts -> Seq(Item)] /\ stored.flight \in SUBSET Item
      /\ stored.seen \in SUBSET Urls /\ stored.taken \in [CrawlHosts -> Nat]
      /\ stored.prints \in SUBSET Range(Body)
  BY <1>1 DEF Checkpoints
<1> DEFINE r == Restore(queue, stored.seen, stored.taken)
           s == Seeds \o due
<1>7. /\ queue \in Seq(Item)
      /\ \A u \in Outstanding(stored) : \E i \in DOMAIN queue : queue[i][1] = u
  BY <1>6, RestoredQueueHolds
<1>8. /\ Good(r, waits) /\ r.seen = stored.seen /\ r.taken = stored.taken
      /\ \A i \in DOMAIN queue : queue[i][1] \in Queued(r)
  BY <1>1, <1>3, <1>6, <1>7, RestoreGood
<1>9. due \in Seq(Urls) /\ Range(due) \in SUBSET Known
  BY DueTyped
<1>10. s \in Seq(Urls) /\ 0 \in 0..MaxDepth
  BY <1>9, ConcatProperties, CrawlAssumption
<1> HIDE DEF r, s
<1>11. Good(frontier', waits) /\ Grows(r, frontier')
  BY <1>1, <1>4, <1>8, <1>10, PushAllGood DEF r, s
<1>12. Good(frontier', waits')
  BY <1>5, <1>11
<1>13. run' \in CrawlRun /\ run'.pc = "topup" /\ run'.kept = 0
  <2> DEFINE t == ~(Range(Seeds \o due) \subseteq frontier'.seen)
  <2>1. t \in BOOLEAN
    OBVIOUS
  <2>2. run' = [IdleRun EXCEPT !.pc = "topup", !.known = Range(due), !.truncated = t]
    BY <1>4
  <2> HIDE DEF t
  <2>3. run' = [pc |-> "topup", rotations |-> 0, kept |-> 0, truncated |-> t, known |-> Range(due)]
    BY <2>2 DEF IdleRun
  <2>4. 0 \in 0..MaxPages
    BY CrawlAssumption
  <2> QED
    BY <2>1, <2>3, <2>4, <1>9 DEF CrawlRun
<1>14. CrawlTypeOK'
  BY <1>5, <1>6, <1>12, <1>13 DEF ResumeInv, CrawlTypeOK, Good
<1>15. CheckpointHonest' /\ PrintsBacked'
  BY <1>5, StoredKept DEF ResumeInv
<1>16. AttemptInPhase'
  <2>1. 0 < MaxPages
    BY CrawlAssumption
  <2> QED
    BY <2>1, <1>13 DEF AttemptInPhase
<1>17. MemoryHonest'
  <2>1. ASSUME NEW u \in frontier'.seen
        PROVE  u \in Queued(frontier') \/ u \in handed \/ lineage.fate[u] # "open"
    <3>1. u \in stored.seen \/ u \in Queued(frontier')
      BY <1>8, <1>11 DEF Grows
    <3>2. CASE u \in stored.seen
      <4>1. u \in Outstanding(stored) \/ u \in handed \/ lineage.fate[u] # "open"
        BY <3>2, <1>2 DEF ResumeInv, CheckpointHonest
      <4>2. ASSUME u \in Outstanding(stored) PROVE u \in Queued(frontier')
        <5>1. u \in Queued(r)
          BY <4>2, <1>7, <1>8
        <5> QED
          BY <5>1, <1>11 DEF Grows
      <4> QED
        BY <4>1, <4>2
    <3> QED
      BY <3>1, <3>2
  <2>2. \A u \in frontier'.seen :
          u \in Queued(frontier') \/ u \in handed' \/ lineage'.fate[u] # "open"
    BY <2>1, <1>5
  <2>3. prints' \subseteq {Body[u] : u \in handed'}
    BY <1>5 DEF ResumeInv, PrintsBacked
  <2>4. Queued(frontier)' = Queued(frontier')
    BY DEF Queued, UrlsIn
  <2> QED
    BY <2>2, <2>3, <2>4 DEF MemoryHonest
<1>18. FetchesCharged'
  <2>1. frontier'.taken = stored.taken
    BY <1>8, <1>11 DEF Grows
  <2> QED
    BY <2>1, <1>2, <1>5 DEF ResumeInv, FetchesCharged
<1> QED
  BY <1>12, <1>14, <1>15, <1>16, <1>17, <1>18, Assembled

\* What a pop finds: the frontier in order, the loop topping up, the checkpoint kept.
LEMMA DrawFinds ==
    ASSUME ResumeInv, NEW g, Draw(g)
    PROVE  /\ run.pc = "topup" /\ Serves(frontier) /\ run.kept < MaxPages
           /\ frontier' = g /\ waits' = Waits(frontier, g, waits)
           /\ UNCHANGED <<prints, buf, stored, handed, kills>>
           /\ CheckpointHonest' /\ PrintsBacked'
           /\ Cardinality(flight) < Concurrency
<1>1. /\ run.pc = "topup" /\ Serves(frontier) /\ frontier' = g
      /\ UNCHANGED <<prints, buf, stored, handed, kills>> /\ Cardinality(flight) < Concurrency
  BY DEF Draw, Room
<1>2. waits' = Waits(frontier, g, waits)
  BY DEF Draw, Waits
<1>3. CheckpointHonest' /\ PrintsBacked'
  BY <1>1, StoredKept DEF ResumeInv
<1>4. run.kept < MaxPages
  BY <1>1 DEF ResumeInv, AttemptInPhase
<1> QED
  BY <1>1, <1>2, <1>3, <1>4

\* The charge of a pop stays within the host's budget.
LEMMA PopCharges ==
    ASSUME ResumeInv, Serves(frontier), run.pc # "down"
    PROVE  LET k == AfterPop(frontier).taken
               h == Served(frontier)
           IN  /\ k \in [CrawlHosts -> Nat] /\ h \in CrawlHosts
               /\ \A x \in CrawlHosts : HostCap > 0 => k[x] <= HostCap
               /\ \A x \in CrawlHosts : lineage.fetches[x] <= k[x]
               /\ lineage.fetches[h] + 1 <= k[h]
<1> DEFINE k == AfterPop(frontier).taken
           h == Served(frontier)
<1>1. Good(frontier, waits) /\ frontier.taken \in [CrawlHosts -> Nat] /\ lineage.fetches \in [CrawlHosts -> Nat]
  BY GoodNow DEF Lineage
<1>2. h \in CrawlHosts /\ ~Spent(frontier, h) /\ k = [frontier.taken EXCEPT ![h] = frontier.taken[h] + 1]
  BY <1>1, PopServes, PopFields DEF Good
<1>3. HostCap > 0 => ~(frontier.taken[h] >= HostCap)
  BY <1>2 DEF Spent
<1>4. HostCap \in Nat
  BY CrawlAssumption
<1>5. \A x \in CrawlHosts : /\ HostCap > 0 => frontier.taken[x] <= HostCap
                            /\ lineage.fetches[x] <= frontier.taken[x]
  BY DEF ResumeInv, FetchesCharged
<1> HIDE DEF k, h
<1> QED
  BY <1>1, <1>2, <1>3, <1>4, <1>5 DEF k, h

\* What a pop takes from the queue is in flight, dumped or missed.
LEMMA DrawHonest ==
    ASSUME ResumeInv, NEW M, lineage'.fate = Fates(lineage.fate, M),
           frontier'.seen = frontier.seen, flight \subseteq flight',
           UNCHANGED <<prints, buf, handed>>,
           \A u \in Queued(frontier) :
               \/ u \in Queued(frontier') \/ u \in DumpedUrls(frontier) \/ u \in M
               \/ u \in {item[1] : item \in flight'}
    PROVE  MemoryHonest'
<1>1. lineage.fate \in [Urls -> {"open", "missed", "dumped"}] /\ frontier.seen \in SUBSET Urls
  BY GoodNow DEF Lineage
<1>2. \A u \in Urls : u \in M \/ u \in DumpedUrls(frontier) \/ lineage.fate[u] # "open"
                         => lineage'.fate[u] # "open"
  BY <1>1, FatesSettle
<1>3. {item[1] : item \in flight} \subseteq {item[1] : item \in flight'}
  OBVIOUS
<1>4. ASSUME NEW u \in frontier'.seen
      PROVE  \/ u \in Queued(frontier') \cup {item[1] : item \in flight'} \cup buf' \cup handed'
             \/ lineage'.fate[u] # "open"
  <2>1. u \in frontier.seen /\ u \in Urls
    BY <1>1
  <2>2. \/ u \in Queued(frontier) \/ u \in {item[1] : item \in flight} \/ u \in buf \/ u \in handed
        \/ lineage.fate[u] # "open"
    BY <2>1 DEF ResumeInv, MemoryHonest
  <2> QED
    BY <2>1, <2>2, <1>2, <1>3
<1>5. Queued(frontier)' = Queued(frontier')
  BY DEF Queued, UrlsIn
<1>6. prints' \subseteq {Body[u] : u \in buf' \cup handed'}
  BY DEF ResumeInv, MemoryHonest
<1> QED
  BY <1>4, <1>5, <1>6 DEF MemoryHonest

LEMMA TruncatedRun ==
    ASSUME run \in CrawlRun, NEW r \in Nat, NEW pc \in {"topup", "turn"}
    PROVE  LET q == [run EXCEPT !.pc = pc, !.rotations = r, !.truncated = @ \/ Truncates]
           IN  q \in CrawlRun /\ q.pc = pc /\ q.kept = run.kept
<1> DEFINE t == run.truncated \/ Truncates
<1>1. t \in BOOLEAN
  BY DEF CrawlRun, Truncates
<1>2. [run EXCEPT !.pc = pc, !.rotations = r, !.truncated = @ \/ Truncates]
      = [run EXCEPT !.pc = pc, !.rotations = r, !.truncated = t]
  OBVIOUS
<1> HIDE DEF t
<1>3. LET q == [run EXCEPT !.pc = pc, !.rotations = r, !.truncated = t]
      IN  q \in CrawlRun /\ q.pc = pc /\ q.kept = run.kept
  BY <1>1 DEF CrawlRun
<1> QED
  BY <1>2, <1>3

LEMMA RefuseKeeps ==
    ASSUME ResumeInv, Refuse
    PROVE  ResumeInv'
<1> DEFINE a == AfterPop(frontier)
           url == Popped(frontier)[1]
<1>1. /\ run.pc = "topup" /\ Serves(frontier) /\ run.kept < MaxPages
      /\ frontier' = a /\ waits' = Waits(frontier, a, waits)
      /\ UNCHANGED <<prints, buf, stored, handed, kills>>
      /\ CheckpointHonest' /\ PrintsBacked'
  BY DrawFinds DEF Refuse
<1>2. /\ lineage' = [lineage EXCEPT !.fate = Fates(@, {url})]
      /\ run' = [run EXCEPT !.truncated = @ \/ Truncates]
      /\ UNCHANGED <<flight, resting>>
  BY DEF Refuse
<1>3. Good(frontier, waits) /\ waits \in [CrawlHosts -> Nat] /\ lineage \in Lineage /\ run \in CrawlRun
  BY GoodNow
<1>4. /\ waits' \in [CrawlHosts -> Nat] /\ Good(a, waits') /\ a.seen = frontier.seen
      /\ \A u \in Queued(frontier) : u \in Queued(a) \/ u \in DumpedUrls(frontier) \/ u = url
  BY <1>1, <1>3, PopGood
<1> HIDE DEF a, url
<1>5. /\ lineage' \in Lineage /\ lineage'.fate = Fates(lineage.fate, {url})
      /\ lineage'.fetches = lineage.fetches
  <2>1. Fates(lineage.fate, {url}) \in [Urls -> {"open", "missed", "dumped"}]
    BY <1>3, FatesSettle DEF Lineage
  <2> QED
    BY <2>1, <1>2, <1>3 DEF Lineage
<1>6. run' \in CrawlRun /\ run'.pc = "topup" /\ run'.kept = run.kept
  <2>1. run.rotations \in Nat /\ run = [run EXCEPT !.pc = "topup", !.rotations = run.rotations]
    BY <1>1, <1>3 DEF CrawlRun
  <2>2. run' = [run EXCEPT !.pc = "topup", !.rotations = run.rotations, !.truncated = @ \/ Truncates]
    BY <1>1, <1>2, <1>3 DEF CrawlRun
  <2> QED
    BY <2>1, <2>2, <1>3, TruncatedRun
<1>7. CrawlTypeOK'
  BY <1>1, <1>2, <1>4, <1>5, <1>6 DEF ResumeInv, CrawlTypeOK, Good
<1>8. AttemptInPhase'
  BY <1>1, <1>6 DEF AttemptInPhase
<1>9. MemoryHonest'
  BY <1>1, <1>2, <1>4, <1>5, DrawHonest
<1>10. FetchesCharged'
  <2>1. /\ \A x \in CrawlHosts : HostCap > 0 => a.taken[x] <= HostCap
        /\ \A x \in CrawlHosts : lineage.fetches[x] <= a.taken[x]
    BY <1>1, PopCharges DEF a
  <2> QED
    BY <2>1, <1>1, <1>5 DEF ResumeInv, FetchesCharged
<1> QED
  BY <1>1, <1>4, <1>7, <1>8, <1>9, <1>10, Assembled

LEMMA RotateKeeps ==
    ASSUME ResumeInv, Rotate
    PROVE  ResumeInv'
<1> DEFINE a == Requeue(AfterPop(frontier), Popped(frontier))
<1>1. /\ run.pc = "topup" /\ Serves(frontier) /\ run.kept < MaxPages
      /\ frontier' = a /\ waits' = Waits(frontier, a, waits)
      /\ UNCHANGED <<prints, buf, stored, handed, kills>>
      /\ CheckpointHonest' /\ PrintsBacked'
  BY DrawFinds DEF Rotate
<1>2. /\ lineage' = [lineage EXCEPT !.fate = Fates(@, {})]
      /\ run' = [run EXCEPT !.rotations = @ + 1, !.truncated = @ \/ Truncates]
      /\ UNCHANGED <<flight, resting>>
  BY DEF Rotate
<1>3. Good(frontier, waits) /\ waits \in [CrawlHosts -> Nat] /\ lineage \in Lineage /\ run \in CrawlRun
  BY GoodNow
<1>4. /\ waits' \in [CrawlHosts -> Nat] /\ Good(a, waits') /\ a.seen = frontier.seen
      /\ a.taken = frontier.taken
      /\ \A u \in Queued(frontier) : u \in Queued(a) \/ u \in DumpedUrls(frontier)
  BY <1>1, <1>3, RequeueGood
<1> HIDE DEF a
<1>5. /\ lineage' \in Lineage /\ lineage'.fate = Fates(lineage.fate, {})
      /\ lineage'.fetches = lineage.fetches
  <2>1. Fates(lineage.fate, {}) \in [Urls -> {"open", "missed", "dumped"}]
    BY <1>3, FatesSettle DEF Lineage
  <2> QED
    BY <2>1, <1>2, <1>3 DEF Lineage
<1>6. run' \in CrawlRun /\ run'.pc = "topup" /\ run'.kept = run.kept
  <2>1. run.rotations + 1 \in Nat
    BY <1>3 DEF CrawlRun
  <2>2. run' = [run EXCEPT !.pc = "topup", !.rotations = run.rotations + 1, !.truncated = @ \/ Truncates]
    BY <1>1, <1>2, <1>3 DEF CrawlRun
  <2> QED
    BY <2>1, <2>2, <1>3, TruncatedRun
<1>7. CrawlTypeOK'
  BY <1>1, <1>2, <1>4, <1>5, <1>6 DEF ResumeInv, CrawlTypeOK, Good
<1>8. AttemptInPhase'
  BY <1>1, <1>6 DEF AttemptInPhase
<1>9. MemoryHonest'
  BY <1>1, <1>2, <1>4, <1>5, DrawHonest
<1>10. FetchesCharged'
  BY <1>1, <1>4, <1>5 DEF ResumeInv, FetchesCharged
<1> QED
  BY <1>1, <1>4, <1>7, <1>8, <1>9, <1>10, Assembled

LEMMA LaunchKeeps ==
    ASSUME ResumeInv, Launch
    PROVE  ResumeInv'
<1> DEFINE a == AfterPop(frontier)
           item == Popped(frontier)
           h == Served(frontier)
<1>1. /\ run.pc = "topup" /\ Serves(frontier) /\ run.kept < MaxPages
      /\ frontier' = a /\ waits' = Waits(frontier, a, waits)
      /\ UNCHANGED <<prints, buf, stored, handed, kills>>
      /\ CheckpointHonest' /\ PrintsBacked'
      /\ Cardinality(flight) < Concurrency
  BY DrawFinds DEF Launch
<1>2. /\ flight' = flight \cup {item}
      /\ resting' = resting \cup (Delayed \cap {HostOf[item[1]]})
      /\ lineage' = [fate |-> Fates(lineage.fate, {}),
                     launched |-> lineage.launched \cup {item[1]},
                     fetches |-> [lineage.fetches EXCEPT ![HostOf[item[1]]] = @ + 1]]
      /\ run' = [run EXCEPT !.truncated = @ \/ Truncates]
  BY DEF Launch
<1>3. /\ Good(frontier, waits) /\ waits \in [CrawlHosts -> Nat] /\ lineage \in Lineage
      /\ run \in CrawlRun /\ flight \in SUBSET Item
  BY GoodNow
<1>4. /\ waits' \in [CrawlHosts -> Nat] /\ Good(a, waits') /\ a.seen = frontier.seen
      /\ \A u \in Queued(frontier) : u \in Queued(a) \/ u \in DumpedUrls(frontier) \/ u = item[1]
  BY <1>1, <1>3, PopGood
<1>i. item \in Item /\ HostOf[item[1]] = h /\ item[1] \in Urls
  BY <1>1, <1>3, PopServes, CrawlFacts DEF Good
<1>c. /\ \A x \in CrawlHosts : HostCap > 0 => a.taken[x] <= HostCap
      /\ \A x \in CrawlHosts : lineage.fetches[x] <= a.taken[x]
      /\ lineage.fetches[h] + 1 <= a.taken[h] /\ h \in CrawlHosts
  BY <1>1, PopCharges
<1> HIDE DEF a, item, h
<1>5. /\ lineage' \in Lineage /\ lineage'.fate = Fates(lineage.fate, {})
      /\ lineage'.fetches = [lineage.fetches EXCEPT ![h] = lineage.fetches[h] + 1]
  <2>1. Fates(lineage.fate, {}) \in [Urls -> {"open", "missed", "dumped"}]
    BY <1>3, FatesSettle DEF Lineage
  <2>2. [lineage.fetches EXCEPT ![h] = lineage.fetches[h] + 1] \in [CrawlHosts -> Nat]
    BY <1>3, <1>c DEF Lineage
  <2>3. lineage.launched \cup {item[1]} \in SUBSET Urls
    BY <1>3, <1>i DEF Lineage
  <2> QED
    BY <2>1, <2>2, <2>3, <1>2, <1>i DEF Lineage
<1>6. run' \in CrawlRun /\ run'.pc = "topup" /\ run'.kept = run.kept
  <2>1. run.rotations \in Nat
    BY <1>3 DEF CrawlRun
  <2>2. run' = [run EXCEPT !.pc = "topup", !.rotations = run.rotations, !.truncated = @ \/ Truncates]
    BY <1>1, <1>2, <1>3 DEF CrawlRun
  <2> QED
    BY <2>1, <2>2, <1>3, TruncatedRun
<1>7. CrawlTypeOK'
  <2>1. flight' \subseteq Item /\ Cardinality(flight') <= Concurrency
    <3>1. IsFiniteSet(flight) /\ Cardinality(flight) \in Nat /\ Concurrency \in Nat
      BY <1>3, CrawlFacts, CrawlAssumption
    <3>2. Cardinality(flight \cup {item}) <= Cardinality(flight) + 1
      BY <3>1, FS_AddElement
    <3>3. Cardinality(flight \cup {item}) \in Nat /\ flight \cup {item} \in SUBSET Item
      BY <1>3, <1>i, CrawlFacts
    <3> QED
      BY <3>1, <3>2, <3>3, <1>1, <1>2
  <2>2. resting' \subseteq Delayed
    BY <1>2 DEF ResumeInv, CrawlTypeOK
  <2> QED
    BY <2>1, <2>2, <1>1, <1>4, <1>5, <1>6 DEF ResumeInv, CrawlTypeOK, Good
<1>8. AttemptInPhase'
  BY <1>1, <1>6 DEF AttemptInPhase
<1>9. MemoryHonest'
  <2>1. item[1] \in {x[1] : x \in flight'} /\ flight \subseteq flight'
    BY <1>2
  <2> QED
    BY <2>1, <1>1, <1>4, <1>5, DrawHonest
<1>10. FetchesCharged'
  <2>1. \A x \in CrawlHosts : lineage'.fetches[x] <= a.taken[x]
    BY <1>3, <1>5, <1>c DEF Lineage
  <2> QED
    BY <2>1, <1>1, <1>c DEF ResumeInv, FetchesCharged
<1> QED
  BY <1>1, <1>4, <1>7, <1>8, <1>9, <1>10, Assembled

LEMMA TopUpEndsKeeps ==
    ASSUME ResumeInv, TopUpEnds
    PROVE  ResumeInv'
<1>1. /\ run.pc = "topup" /\ UNCHANGED <<flight, prints, buf, resting, stored, handed, kills>>
  BY DEF TopUpEnds
<1>2. /\ Good(frontier, waits) /\ waits \in [CrawlHosts -> Nat] /\ lineage \in Lineage
      /\ run \in CrawlRun
  BY GoodNow
<1>3. CheckpointHonest' /\ PrintsBacked'
  BY <1>1, StoredKept DEF ResumeInv
<1>4. run.kept < MaxPages
  BY <1>1 DEF ResumeInv, AttemptInPhase
<1>5. CASE UNCHANGED <<frontier, lineage, waits>> /\ Goto("turn")
  <2>1. run' \in CrawlRun /\ run'.pc = "turn" /\ run'.kept = run.kept
    BY <1>2, <1>5 DEF Goto, CrawlRun
  <2>2. CrawlTypeOK'
    BY <2>1, <1>1, <1>5 DEF ResumeInv, CrawlTypeOK
  <2>3. Good(frontier', waits')
    BY <1>2, <1>5
  <2>4. AttemptInPhase'
    BY <2>1, <1>4 DEF AttemptInPhase
  <2>5. MemoryHonest' /\ FetchesCharged'
    BY <2>1, <1>1, <1>5 DEF ResumeInv, MemoryHonest, FetchesCharged, Queued, UrlsIn
  <2> QED
    BY <2>2, <2>3, <2>4, <2>5, <1>3, Assembled
<1>6. CASE /\ ~Serves(frontier)
           /\ frontier' = Skimmed(frontier)
           /\ lineage' = [lineage EXCEPT !.fate = Fates(@, {})]
           /\ run' = [run EXCEPT !.pc = "turn", !.truncated = @ \/ Truncates]
           /\ waits' = [h \in CrawlHosts |-> 0]
  <2> DEFINE g == Skimmed(frontier)
  <2>1. /\ Good(g, [h \in CrawlHosts |-> 0]) /\ g.seen = frontier.seen /\ g.taken = frontier.taken
        /\ \A u \in Queued(frontier) : u \in Queued(g) \/ u \in DumpedUrls(frontier)
    BY <1>2, <1>6, SkimIdle
  <2> HIDE DEF g
  <2>g. frontier' = g
    BY <1>6 DEF g
  <2>2. Good(frontier', waits') /\ waits' \in [CrawlHosts -> Nat]
    BY <2>1, <2>g, <1>6
  <2>3. /\ lineage' \in Lineage /\ lineage'.fate = Fates(lineage.fate, {})
        /\ lineage'.fetches = lineage.fetches
    <3>1. Fates(lineage.fate, {}) \in [Urls -> {"open", "missed", "dumped"}]
      BY <1>2, FatesSettle DEF Lineage
    <3> QED
      BY <3>1, <1>2, <1>6 DEF Lineage
  <2>4. run' \in CrawlRun /\ run'.pc = "turn" /\ run'.kept = run.kept
    <3>1. run.rotations \in Nat
      BY <1>2 DEF CrawlRun
    <3>2. run' = [run EXCEPT !.pc = "turn", !.rotations = run.rotations, !.truncated = @ \/ Truncates]
      BY <1>2, <1>6 DEF CrawlRun
    <3> QED
      BY <3>1, <3>2, <1>2, TruncatedRun
  <2>5. CrawlTypeOK'
    BY <2>2, <2>3, <2>4, <1>1 DEF ResumeInv, CrawlTypeOK, Good
  <2>6. AttemptInPhase'
    BY <2>4, <1>4 DEF AttemptInPhase
  <2>7. MemoryHonest'
    BY <2>1, <2>g, <2>3, <1>1, DrawHonest
  <2>8. FetchesCharged'
    BY <2>1, <2>g, <2>3, <1>1 DEF ResumeInv, FetchesCharged
  <2> QED
    BY <2>2, <2>5, <2>6, <2>7, <2>8, <1>3, Assembled
<1> QED
  BY <1>5, <1>6 DEF TopUpEnds

\* Steps of the loop that leave its memory alone.
LEMMA IdleKeeps ==
    ASSUME ResumeInv,
           UNCHANGED <<frontier, flight, prints, buf, stored, handed, kills, lineage, waits>>,
           resting' \subseteq resting, run' \in CrawlRun,
           run'.pc # "down" \/ run' = run, run.pc # "down" \/ run' = run,
           run'.pc \in {"saving", "closing"} => run' = run,
           run'.pc \notin {"final", "closing", "done"} => run'.kept < MaxPages
    PROVE  ResumeInv'
<1>1. CrawlTypeOK'
  BY DEF ResumeInv, CrawlTypeOK
<1>2. Good(frontier', waits')
  BY GoodNow
<1>3. CheckpointHonest' /\ PrintsBacked'
  BY StoredKept DEF ResumeInv
<1>4. AttemptInPhase'
  BY DEF ResumeInv, AttemptInPhase
<1>5. MemoryHonest' /\ FetchesCharged'
  BY DEF ResumeInv, MemoryHonest, FetchesCharged, Queued, UrlsIn
<1> QED
  BY <1>1, <1>2, <1>3, <1>4, <1>5, Assembled

LEMMA WaitsKeep ==
    ASSUME ResumeInv,
           NotYet \/ Drained \/ Sleep \/ (\E h \in CrawlHosts : RestOver(h)) \/ UNCHANGED crawlVars
    PROVE  ResumeInv'
<1>1. run \in CrawlRun
  BY GoodNow
<1>2. CASE NotYet
  BY <1>1, <1>2, IdleKeeps DEF NotYet, Memory, Goto, CrawlRun, ResumeInv, AttemptInPhase
<1>3. CASE Drained
  BY <1>1, <1>3, IdleKeeps DEF Drained, Memory, Goto, CrawlRun
<1>4. CASE Sleep
  BY <1>1, <1>4, IdleKeeps DEF Sleep, Memory, NextTurn, CrawlRun, ResumeInv, AttemptInPhase
<1>5. CASE \E h \in CrawlHosts : RestOver(h)
  BY <1>1, <1>5, IdleKeeps DEF RestOver, ResumeInv, AttemptInPhase
<1>6. CASE UNCHANGED crawlVars
  BY <1>1, <1>6, IdleKeeps DEF crawlVars, ResumeInv, AttemptInPhase
<1> QED
  BY <1>2, <1>3, <1>4, <1>5, <1>6

LEMMA FlushKeeps ==
    ASSUME ResumeInv, Flush
    PROVE  ResumeInv'
<1>1. /\ run.pc \in {"turn", "final"} /\ handed' = handed \cup buf /\ buf' = {}
      /\ Goto(IF run.pc = "turn" THEN "saving" ELSE "closing")
      /\ UNCHANGED <<frontier, flight, prints, resting, kills, lineage, waits, stored>>
  BY DEF Flush, Memory
<1>2. run \in CrawlRun /\ Good(frontier, waits)
  BY GoodNow
<1>3. /\ run' \in CrawlRun /\ run'.kept = run.kept
      /\ run'.pc = IF run.pc = "turn" THEN "saving" ELSE "closing"
  BY <1>1, <1>2 DEF Goto, CrawlRun
<1>4. CrawlTypeOK'
  <2>1. Cardinality({}) < Stride
    BY FS_EmptySet, CrawlAssumption
  <2> QED
    BY <2>1, <1>1, <1>3 DEF ResumeInv, CrawlTypeOK
<1>5. CheckpointHonest' /\ PrintsBacked'
  BY <1>1, StoredKept DEF ResumeInv
<1>6. Good(frontier', waits')
  BY <1>1, <1>2
<1>7. AttemptInPhase'
  BY <1>1, <1>3 DEF ResumeInv, AttemptInPhase
<1>8. MemoryHonest'
  BY <1>1 DEF ResumeInv, MemoryHonest, Queued, UrlsIn
<1>9. FetchesCharged'
  BY <1>1, <1>3 DEF ResumeInv, FetchesCharged
<1> QED
  BY <1>4, <1>5, <1>6, <1>7, <1>8, <1>9, Assembled

\* A checkpoint lands when the buffer is empty: what the attempt may claim, it may claim.
LEMMA SaveKeeps ==
    ASSUME ResumeInv, Save
    PROVE  ResumeInv'
<1>1. /\ run.pc \in {"saving", "closing"}
      /\ Goto(IF run.pc = "saving" THEN "await" ELSE "done")
      /\ UNCHANGED <<frontier, flight, prints, resting, kills, lineage, waits, buf, handed>>
  BY DEF Save, Memory
<1>2. /\ run \in CrawlRun /\ Good(frontier, waits) /\ lineage \in Lineage /\ flight \in SUBSET Item
  BY GoodNow
<1>3. /\ run' \in CrawlRun /\ run'.kept = run.kept
      /\ run'.pc = IF run.pc = "saving" THEN "await" ELSE "done"
  BY <1>1, <1>2 DEF Goto, CrawlRun
<1>4. buf = {}
  BY <1>1 DEF ResumeInv, AttemptInPhase
<1>5. AttemptInPhase'
  BY <1>1, <1>3, <1>4 DEF ResumeInv, AttemptInPhase
<1>6. Good(frontier', waits') /\ MemoryHonest'
  BY <1>1, <1>2 DEF ResumeInv, MemoryHonest, Queued, UrlsIn
<1>7. CASE stored' = stored
  <2>1. CrawlTypeOK' /\ FetchesCharged'
    BY <1>1, <1>3, <1>7 DEF ResumeInv, CrawlTypeOK, FetchesCharged
  <2>2. CheckpointHonest' /\ PrintsBacked'
    BY <1>1, <1>7, StoredKept DEF ResumeInv
  <2> QED
    BY <2>1, <2>2, <1>5, <1>6, Assembled
<1>8. CASE stored' = Checkpoint
  <2>1. stored' = [saved |-> TRUE, buckets |-> frontier.buckets, flight |-> flight,
                   seen |-> frontier.seen, taken |-> frontier.taken, prints |-> prints,
                   lineage |-> lineage]
    BY <1>8 DEF Checkpoint, CheckpointQueue
  <2>2. stored' \in Checkpoints /\ Cardinality(stored'.seen) <= MaxFrontier
    BY <2>1, <1>2 DEF ResumeInv, CrawlTypeOK, Frontier, Checkpoints
  <2>3. CrawlTypeOK'
    BY <2>2, <1>1, <1>3 DEF ResumeInv, CrawlTypeOK
  <2>4. FetchesCharged'
    BY <2>1, <1>1, <1>3 DEF ResumeInv, FetchesCharged
  <2>5. PrintsBacked'
    BY <2>1, <1>1, <1>4 DEF ResumeInv, MemoryHonest, PrintsBacked
  <2>6. CheckpointHonest'
    <3>1. Outstanding(stored)' = Queued(frontier) \cup {item[1] : item \in flight}
      <4>1. Outstanding(stored)' = Queued(stored)' \cup {item[1] : item \in stored'.flight}
        BY DEF Outstanding
      <4>2. Queued(stored)' = UNION {UrlsIn(stored'.buckets[h]) : h \in CrawlHosts}
        BY DEF Queued, UrlsIn
      <4>3. stored'.buckets = frontier.buckets /\ stored'.flight = flight
        BY <2>1
      <4> QED
        BY <4>1, <4>2, <4>3 DEF Queued
    <3>2. \A u \in frontier.seen :
             \/ u \in Queued(frontier) \cup {item[1] : item \in flight} \cup handed
             \/ lineage.fate[u] # "open"
      BY <1>4 DEF ResumeInv, MemoryHonest
    <3>3. stored'.seen = frontier.seen /\ stored'.lineage = lineage /\ handed' = handed
      BY <2>1, <1>1
    <3> QED
      BY <3>1, <3>2, <3>3 DEF CheckpointHonest
  <2> QED
    BY <2>3, <2>4, <2>5, <2>6, <1>5, <1>6, Assembled
<1> QED
  BY <1>7, <1>8 DEF Save

\* A page goes to the buffer, or with the buffer to the sink.
LEMMA Recorded ==
    ASSUME ResumeInv, NEW u \in Urls, Record(u)
    PROVE  /\ buf' \subseteq Urls /\ Cardinality(buf') < Stride
           /\ handed \subseteq handed' /\ handed' \subseteq Urls
           /\ u \in buf' \cup handed' /\ buf \cup handed \subseteq buf' \cup handed'
<1>1. buf \in SUBSET Urls /\ handed \in SUBSET Urls
  BY GoodNow
<1>2. Stride \in Nat \ {0} /\ Cardinality(buf \cup {u}) \in Nat /\ Cardinality({}) = 0
  BY <1>1, CrawlAssumption, CrawlFacts, FS_EmptySet
<1>3. CASE Cardinality(buf \cup {u}) >= Stride
  <2>1. buf' = {} /\ handed' = handed \cup buf \cup {u}
    BY <1>3 DEF Record
  <2> QED
    BY <2>1, <1>1, <1>2
<1>4. CASE ~(Cardinality(buf \cup {u}) >= Stride)
  <2>1. buf' = buf \cup {u} /\ handed' = handed
    BY <1>4 DEF Record
  <2>2. Cardinality(buf') < Stride
    BY <2>1, <1>2, <1>4
  <2> QED
    BY <2>1, <2>2, <1>1
<1> QED
  BY <1>3, <1>4

\* An outcome takes one URL out of flight and says what became of it.
LEMMA OutcomeKeeps ==
    ASSUME ResumeInv, NEW item \in flight, Retire(item),
           run' \in CrawlRun, run'.pc \in {"topup", "final"},
           run'.pc # "final" => run'.kept < MaxPages,
           Good(frontier', waits), Grows(frontier, frontier'),
           buf' \subseteq Urls, Cardinality(buf') < Stride, handed' \subseteq Urls,
           handed \subseteq handed', buf \cup handed \subseteq buf' \cup handed',
           prints' \subseteq {Body[u] : u \in buf' \cup handed'},
           lineage' \in Lineage, lineage'.fetches = lineage.fetches,
           \A u \in Urls : lineage.fate[u] # "open" => lineage'.fate[u] # "open",
           item[1] \in buf' \cup handed' \/ lineage'.fate[item[1]] # "open"
    PROVE  ResumeInv'
<1>1. /\ run.pc = "await" /\ flight' = flight \ {item} /\ UNCHANGED <<resting, stored, kills, waits>>
  BY DEF Retire
<1>2. /\ flight \in SUBSET Item /\ frontier.seen \in SUBSET Urls
  BY GoodNow
<1>3. Good(frontier', waits') /\ frontier'.seen \in SUBSET Urls
  BY <1>1 DEF Good, Frontier
<1>4. CrawlTypeOK'
  <2>1. flight' \subseteq Item /\ Cardinality(flight') <= Concurrency
    <3>1. IsFiniteSet(flight) /\ flight' \subseteq flight
      BY <1>1, <1>2, CrawlFacts
    <3>2. Cardinality(flight') <= Cardinality(flight)
      BY <3>1, FS_Subset
    <3>3. Cardinality(flight) <= Concurrency /\ Concurrency \in Nat
      BY CrawlAssumption DEF ResumeInv, CrawlTypeOK
    <3>4. Cardinality(flight') \in Nat /\ Cardinality(flight) \in Nat
      BY <1>2, <3>1, CrawlFacts
    <3> QED
      BY <3>1, <3>2, <3>3, <3>4, <1>2
  <2>2. prints' \subseteq Range(Body)
    <3>1. \A u \in Urls : Body[u] \in Range(Body)
      BY CrawlAssumption
    <3> QED
      BY <3>1
  <2> QED
    BY <2>1, <2>2, <1>1, <1>3 DEF ResumeInv, CrawlTypeOK, Good
<1>5. CheckpointHonest' /\ PrintsBacked'
  BY <1>1, StoredKept DEF ResumeInv
<1>6. AttemptInPhase'
  BY DEF AttemptInPhase
<1>7. FetchesCharged'
  <2>1. frontier'.taken = frontier.taken
    BY DEF Grows
  <2> QED
    BY <2>1, <1>1 DEF ResumeInv, FetchesCharged
<1>8. MemoryHonest'
  <2>1. ASSUME NEW u \in frontier'.seen
        PROVE  \/ u \in Queued(frontier') \cup {x[1] : x \in flight'} \cup buf' \cup handed'
               \/ lineage'.fate[u] # "open"
    <3>1. u \in frontier.seen \/ u \in Queued(frontier')
      BY DEF Grows
    <3>2. CASE u \in frontier.seen
      <4>1. \/ u \in Queued(frontier) \/ (\E x \in flight : x[1] = u) \/ u \in buf \cup handed
            \/ lineage.fate[u] # "open"
        BY <3>2 DEF ResumeInv, MemoryHonest
      <4>2. CASE u \in Queued(frontier)
        BY <4>2 DEF Grows
      <4>3. CASE \E x \in flight : x[1] = u
        <5>1. PICK x \in flight : x[1] = u
          BY <4>3
        <5>2. x = item \/ x \in flight'
          BY <1>1
        <5> QED
          BY <5>1, <5>2
      <4>4. CASE u \in buf \cup handed
        BY <4>4
      <4>5. CASE lineage.fate[u] # "open"
        BY <3>2, <4>5, <1>2
      <4> QED
        BY <4>1, <4>2, <4>3, <4>4, <4>5
    <3> QED
      BY <3>1, <3>2
  <2>2. Queued(frontier)' = Queued(frontier')
    BY DEF Queued, UrlsIn
  <2> QED
    BY <2>1, <2>2 DEF MemoryHonest
<1> QED
  BY <1>3, <1>4, <1>5, <1>6, <1>7, <1>8, Assembled

\* The next turn of the loop.
LEMMA TurnsOn ==
    ASSUME ResumeInv, run.pc = "await", NextTurn
    PROVE  run' \in CrawlRun /\ run'.pc = "topup" /\ run'.kept < MaxPages /\ run'.known = run.known
<1>1. run \in CrawlRun /\ run.kept < MaxPages
  BY GoodNow DEF ResumeInv, AttemptInPhase
<1> QED
  BY <1>1 DEF NextTurn, CrawlRun

\* A page given up is missed from then on.
LEMMA Missed ==
    ASSUME ResumeInv, NEW u \in Urls
    PROVE  LET l == [lineage EXCEPT !.fate[u] = "missed"]
           IN  /\ l \in Lineage /\ l.fetches = lineage.fetches /\ l.fate[u] # "open"
               /\ \A x \in Urls : lineage.fate[x] # "open" => l.fate[x] # "open"
<1>1. lineage \in Lineage
  BY GoodNow
<1> QED
  BY <1>1 DEF Lineage

LEMMA InFlight ==
    ASSUME ResumeInv, NEW item \in flight
    PROVE  item \in Item /\ item[1] \in Urls
BY GoodNow, CrawlFacts

LEMMA MissKeeps ==
    ASSUME ResumeInv, NEW item \in flight, Miss(item)
    PROVE  ResumeInv'
<1>1. /\ Retire(item) /\ run.pc = "await" /\ NextTurn /\ UNCHANGED <<frontier, prints, buf, handed>>
      /\ lineage' = [lineage EXCEPT !.fate[item[1]] = "missed"]
  BY DEF Miss, Retire
<1>2. Good(frontier, waits) /\ buf \in SUBSET Urls /\ handed \in SUBSET Urls /\ item[1] \in Urls
  BY GoodNow, InFlight
<1>3. run' \in CrawlRun /\ run'.pc = "topup" /\ run'.kept < MaxPages
  BY <1>1, TurnsOn
<1>4. /\ lineage' \in Lineage /\ lineage'.fetches = lineage.fetches /\ lineage'.fate[item[1]] # "open"
      /\ \A u \in Urls : lineage.fate[u] # "open" => lineage'.fate[u] # "open"
  BY <1>1, <1>2, Missed
<1>5. Grows(frontier, frontier') /\ Good(frontier', waits)
  BY <1>1, <1>2 DEF Grows
<1>6. prints' \subseteq {Body[u] : u \in buf' \cup handed'} /\ Cardinality(buf') < Stride
  BY <1>1 DEF ResumeInv, MemoryHonest, CrawlTypeOK
<1> QED
  BY <1>1, <1>2, <1>3, <1>4, <1>5, <1>6, OutcomeKeeps

LEMMA MarkKeeps ==
    ASSUME ResumeInv, NEW item \in flight, Mark(item)
    PROVE  ResumeInv'
<1>1. /\ Retire(item) /\ run.pc = "await" /\ NextTurn /\ UNCHANGED <<frontier, prints, lineage>>
      /\ Record(item[1])
  BY DEF Mark, Retire
<1>2. Good(frontier, waits) /\ lineage \in Lineage /\ item[1] \in Urls
  BY GoodNow, InFlight
<1>3. run' \in CrawlRun /\ run'.pc = "topup" /\ run'.kept < MaxPages
  BY <1>1, TurnsOn
<1>4. /\ buf' \subseteq Urls /\ Cardinality(buf') < Stride
      /\ handed \subseteq handed' /\ handed' \subseteq Urls
      /\ item[1] \in buf' \cup handed' /\ buf \cup handed \subseteq buf' \cup handed'
  BY <1>1, <1>2, Recorded
<1>5. Grows(frontier, frontier') /\ Good(frontier', waits)
  BY <1>1, <1>2 DEF Grows
<1>6. prints' \subseteq {Body[u] : u \in buf' \cup handed'}
  <2>1. prints' = prints /\ prints \subseteq {Body[u] : u \in buf \cup handed}
    BY <1>1 DEF ResumeInv, MemoryHonest
  <2> QED
    BY <2>1, <1>4
<1> QED
  BY <1>1, <1>2, <1>3, <1>4, <1>5, <1>6, OutcomeKeeps

LEMMA PageKeeps ==
    ASSUME ResumeInv, NEW item \in flight, Page(item)
    PROVE  ResumeInv'
<1> DEFINE u == item[1]
           kept == run.kept + (IF Duplicate(u) THEN 0 ELSE 1)
           refused == Expand /\ item[2] < MaxDepth /\ ~(Range(Links[u]) \subseteq frontier'.seen)
<1>1. /\ Retire(item) /\ run.pc = "await" /\ frontier' = Followed(item)
      /\ IF Duplicate(u)
         THEN /\ lineage' = [lineage EXCEPT !.fate[u] = "missed"]
              /\ UNCHANGED <<prints, buf, handed>>
         ELSE /\ prints' = prints \cup {Body[u]}
              /\ Record(u)
              /\ UNCHANGED lineage
      /\ run' = [run EXCEPT !.pc = IF kept >= MaxPages THEN "final" ELSE "topup",
                            !.rotations = 0, !.kept = kept, !.truncated = @ \/ refused]
  BY DEF Page, Retire
<1>2. /\ Good(frontier, waits) /\ waits \in [CrawlHosts -> Nat] /\ lineage \in Lineage
      /\ run \in CrawlRun /\ buf \in SUBSET Urls /\ handed \in SUBSET Urls
      /\ u \in Urls /\ item \in Item
  BY GoodNow, InFlight
<1>3. kept \in 0..MaxPages /\ (kept >= MaxPages \/ kept < MaxPages)
  <2>1. run.kept \in Nat /\ run.kept < MaxPages /\ MaxPages \in Nat
    BY <1>1, <1>2, CrawlAssumption DEF CrawlRun, ResumeInv, AttemptInPhase
  <2> QED
    BY <2>1
<1>4. /\ run' \in CrawlRun /\ run'.pc \in {"topup", "final"}
      /\ run'.pc # "final" => run'.kept < MaxPages
  <2> DEFINE t == run.truncated \/ refused
  <2>1. t \in BOOLEAN
    BY <1>2 DEF CrawlRun
  <2>2. run' = [run EXCEPT !.pc = IF kept >= MaxPages THEN "final" ELSE "topup",
                           !.rotations = 0, !.kept = kept, !.truncated = t]
    BY <1>1
  <2> HIDE DEF t, kept
  <2> DEFINE c == IF kept >= MaxPages THEN "final" ELSE "topup"
  <2>3. c \in {"topup", "final"} /\ (c # "final" => kept < MaxPages)
    BY <1>3
  <2>4. run' = [run EXCEPT !.pc = c, !.rotations = 0, !.kept = kept, !.truncated = t]
    BY <2>2
  <2> HIDE DEF c
  <2> QED
    BY <2>1, <2>3, <2>4, <1>2, <1>3 DEF CrawlRun
<1>5. Good(frontier', waits) /\ Grows(frontier, frontier')
  <2>1. CASE Expand /\ item[2] < MaxDepth
    <3>1. frontier' = PushAll(frontier, Links[item[1]], item[2] + 1)
      BY <2>1, <1>1 DEF Followed
    <3>2. Links[item[1]] \in Seq(Urls)
      BY <1>2, CrawlAssumption
    <3>3. item[2] + 1 \in 0..MaxDepth
      <4>1. item[2] \in 0..MaxDepth /\ MaxDepth \in Nat
        BY <1>2, CrawlAssumption DEF Item
      <4> QED
        BY <2>1, <4>1
    <3> QED
      BY <3>1, <3>2, <3>3, <1>2, PushAllGood
  <2>2. CASE ~(Expand /\ item[2] < MaxDepth)
    <3>1. frontier' = frontier
      BY <2>2, <1>1 DEF Followed
    <3> QED
      BY <3>1, <1>2 DEF Grows
  <2> QED
    BY <2>1, <2>2
<1>6. prints \subseteq {Body[x] : x \in buf \cup handed} /\ Cardinality(buf) < Stride
  BY DEF ResumeInv, MemoryHonest, CrawlTypeOK
<1>7. CASE Duplicate(u)
  <2>1. lineage' = [lineage EXCEPT !.fate[u] = "missed"] /\ UNCHANGED <<prints, buf, handed>>
    BY <1>1, <1>7
  <2>2. /\ lineage' \in Lineage /\ lineage'.fetches = lineage.fetches /\ lineage'.fate[u] # "open"
        /\ \A x \in Urls : lineage.fate[x] # "open" => lineage'.fate[x] # "open"
    BY <2>1, <1>2, Missed
  <2> HIDE DEF kept, refused
  <2> QED
    BY <2>1, <2>2, <1>1, <1>2, <1>4, <1>5, <1>6, OutcomeKeeps
<1>8. CASE ~Duplicate(u)
  <2>1. prints' = prints \cup {Body[u]} /\ Record(u) /\ lineage' = lineage
    BY <1>1, <1>8
  <2>2. /\ buf' \subseteq Urls /\ Cardinality(buf') < Stride
        /\ handed \subseteq handed' /\ handed' \subseteq Urls
        /\ u \in buf' \cup handed' /\ buf \cup handed \subseteq buf' \cup handed'
    BY <2>1, <1>2, Recorded
  <2>3. prints' \subseteq {Body[x] : x \in buf' \cup handed'}
    BY <2>1, <2>2, <1>6
  <2> HIDE DEF kept, refused
  <2> QED
    BY <2>1, <2>2, <2>3, <1>1, <1>2, <1>4, <1>5, OutcomeKeeps
<1> QED
  BY <1>7, <1>8

\* A frontier with nothing in it.
LEMMA EmptyGood ==
    Good(EmptyFrontier, [h \in CrawlHosts |-> 0]) /\ EmptyFrontier.seen = {}
    /\ EmptyFrontier.buckets \in [CrawlHosts -> Seq(Item)]
    /\ EmptyFrontier.taken = [h \in CrawlHosts |-> 0]
<1> DEFINE b == [h \in CrawlHosts |-> <<>>]
           z == [h \in CrawlHosts |-> 0]
           f == EmptyFrontier
<1>1. b \in [CrawlHosts -> Seq(Item)] /\ z \in [CrawlHosts -> Nat] /\ \A h \in CrawlHosts : b[h] = <<>>
  BY EmptySeq
<1>2. f = [buckets |-> b, order |-> <<>>, seen |-> {}, taken |-> z]
  BY DEF EmptyFrontier
<1>z. \A h \in CrawlHosts : z[h] = 0
  OBVIOUS
<1> HIDE DEF f, b, z
<1>3. f \in Frontier /\ f.order = <<>> /\ f.seen = {} /\ f.buckets = b /\ f.taken = z
  BY <1>1, <1>2, EmptySeq DEF Frontier
<1>4. Rotates(f)
  <2>1. \A x : ~Contains(<<>>, x)
    BY DEF Contains
  <2>2. IsInjective(<<>>)
    BY DEF IsInjective
  <2>3. UrlsIn(<<>>) = {}
    BY DEF UrlsIn, Range
  <2> QED
    BY <2>1, <2>2, <2>3, <1>1, <1>3 DEF Rotates
<1>5. Placed(f, z)
  BY <1>1, <1>3, <1>z DEF Placed
<1>6. Cardinality(f.seen) <= MaxFrontier
  BY <1>3, FS_EmptySet, CrawlAssumption
<1> QED
  BY <1>1, <1>3, <1>4, <1>5, <1>6 DEF Good, f, z

LEMMA KillKeeps ==
    ASSUME ResumeInv, Kill
    PROVE  ResumeInv'
<1>1. /\ kills < MaxKills /\ kills' = kills + 1
      /\ frontier' = EmptyFrontier /\ flight' = {} /\ prints' = {} /\ buf' = {}
      /\ run' = IdleRun /\ resting' = {} /\ lineage' = stored.lineage
      /\ waits' = [h \in CrawlHosts |-> 0] /\ UNCHANGED <<stored, handed>>
  BY DEF Kill
<1>2. stored \in Checkpoints /\ kills \in 0..MaxKills /\ MaxKills \in Nat
  BY GoodNow, CrawlAssumption DEF ResumeInv, CrawlTypeOK
<1>3. Good(frontier', waits') /\ frontier'.seen = {} /\ frontier'.taken = [h \in CrawlHosts |-> 0]
  BY <1>1, EmptyGood
<1>4. run' \in CrawlRun /\ run'.pc = "down" /\ run'.kept = 0 /\ 0 < MaxPages
  BY <1>1, CrawlAssumption DEF IdleRun, CrawlRun
<1>5. CrawlTypeOK'
  <2>1. Cardinality({}) = 0 /\ 0 < Stride /\ 0 <= Concurrency
    BY FS_EmptySet, CrawlAssumption
  <2>2. kills' \in 0..MaxKills
    BY <1>1, <1>2
  <2>3. lineage' \in Lineage
    BY <1>1, <1>2 DEF Checkpoints
  <2> QED
    BY <2>1, <2>2, <2>3, <1>1, <1>3, <1>4 DEF ResumeInv, CrawlTypeOK, Good
<1>6. CheckpointHonest' /\ PrintsBacked'
  BY <1>1, StoredKept DEF ResumeInv
<1>7. AttemptInPhase'
  BY <1>1, <1>4 DEF AttemptInPhase
<1>8. MemoryHonest'
  BY <1>1, <1>3 DEF MemoryHonest
<1>9. FetchesCharged'
  <2>1. HostCap \in Nat
    BY CrawlAssumption
  <2> QED
    BY <2>1, <1>1, <1>3, <1>4 DEF ResumeInv, FetchesCharged
<1> QED
  BY <1>3, <1>5, <1>6, <1>7, <1>8, <1>9, Assembled

-----------------------------------------------------------------------------
(* The crawl: the theorems *)

\* The crawl starts with a checkpoint that claims nothing.
LEMMA CrawlStarts ==
    CrawlInit => ResumeInv
<1> SUFFICES ASSUME CrawlInit PROVE ResumeInv
  OBVIOUS
<1>1. /\ frontier = EmptyFrontier /\ flight = {} /\ prints = {} /\ buf = {}
      /\ run = IdleRun /\ resting = {} /\ stored = NoCheckpoint /\ handed = {} /\ kills = 0
      /\ lineage = NewLineage /\ waits = [h \in CrawlHosts |-> 0]
  BY DEF CrawlInit
<1>2. /\ Good(frontier, waits) /\ frontier.seen = {} /\ frontier.taken = [h \in CrawlHosts |-> 0]
      /\ frontier.buckets \in [CrawlHosts -> Seq(Item)]
  BY <1>1, EmptyGood
<1>3. run \in CrawlRun /\ run.pc = "down" /\ run.kept = 0 /\ 0 < MaxPages
  BY <1>1, CrawlAssumption DEF IdleRun, CrawlRun
<1>4. lineage \in Lineage /\ lineage.fetches = [h \in CrawlHosts |-> 0]
  BY <1>1 DEF NewLineage, Lineage
<1>5. stored = [saved |-> FALSE, buckets |-> frontier.buckets, flight |-> {}, seen |-> {},
                taken |-> frontier.taken, prints |-> {}, lineage |-> lineage]
  BY <1>1 DEF NoCheckpoint
<1>6. /\ stored \in Checkpoints /\ stored.seen = {} /\ stored.prints = {} /\ stored.lineage = lineage
      /\ stored.taken = [h \in CrawlHosts |-> 0]
  BY <1>2, <1>4, <1>5 DEF Checkpoints
<1>7. CrawlTypeOK
  <2>1. Cardinality({}) = 0 /\ 0 < Stride /\ 0 <= Concurrency /\ 0 <= MaxFrontier /\ 0 \in 0..MaxKills
    BY FS_EmptySet, CrawlAssumption
  <2> QED
    BY <2>1, <1>1, <1>2, <1>3, <1>4, <1>6 DEF CrawlTypeOK, Good
<1>8. CheckpointHonest /\ PrintsBacked /\ MemoryHonest
  BY <1>1, <1>2, <1>6 DEF CheckpointHonest, PrintsBacked, MemoryHonest
<1>9. AttemptInPhase
  BY <1>1, <1>3, <1>6 DEF AttemptInPhase
<1>10. HostCap \in Nat
  BY CrawlAssumption
<1>11. HostBudgetKept /\ FetchesCharged
  BY <1>2, <1>3, <1>4, <1>6, <1>10 DEF HostBudgetKept, FetchesCharged
<1> QED
  BY <1>2, <1>7, <1>8, <1>9, <1>11 DEF ResumeInv, Good

LEMMA CrawlSteps ==
    ResumeInv /\ [CrawlNext]_crawlVars => ResumeInv'
<1> SUFFICES ASSUME ResumeInv, [CrawlNext]_crawlVars PROVE ResumeInv'
  OBVIOUS
<1>1. CASE Start
  BY <1>1, StartKeeps
<1>2. CASE Refuse
  BY <1>2, RefuseKeeps
<1>3. CASE Rotate
  BY <1>3, RotateKeeps
<1>4. CASE Launch
  BY <1>4, LaunchKeeps
<1>5. CASE TopUpEnds
  BY <1>5, TopUpEndsKeeps
<1>6. CASE NotYet \/ Drained \/ Sleep \/ (\E h \in CrawlHosts : RestOver(h)) \/ UNCHANGED crawlVars
  BY <1>6, WaitsKeep
<1>7. CASE Flush
  BY <1>7, FlushKeeps
<1>8. CASE Save
  BY <1>8, SaveKeeps
<1>9. CASE \E item \in flight : Miss(item) \/ Mark(item) \/ Page(item)
  BY <1>9, MissKeeps, MarkKeeps, PageKeeps
<1>10. CASE Kill
  BY <1>10, KillKeeps
<1> QED
  BY <1>1, <1>2, <1>3, <1>4, <1>5, <1>6, <1>7, <1>8, <1>9, <1>10
     DEF CrawlNext, Attempt, TopUp, Outcome

\* crawl.rs: a kill between any two steps of the loop, a save that is dropped and a resume in
\* any order of the hosts leave a checkpoint that buries no URL, suppresses no page the sink
\* does not have and keeps the budget of every host.
THEOREM CrawlResumes ==
    CrawlSpec => []ResumeInv
BY CrawlStarts, CrawlSteps, PTL DEF CrawlSpec

\* flush_then_checkpoint: a URL the checkpoint calls seen is owed, handed over or given up.
THEOREM CheckpointsBuryNothing ==
    CrawlSpec => []CheckpointHonest
<1>1. ResumeInv => CheckpointHonest
  BY DEF ResumeInv
<1> QED
  BY <1>1, CrawlResumes, PTL

\* max_pages_per_host: the budget is the crawl's and not the attempt's.
THEOREM HostBudgetSpansResumes ==
    CrawlSpec => []HostBudgetKept
<1>1. ResumeInv => HostBudgetKept
  BY DEF ResumeInv
<1> QED
  BY <1>1, CrawlResumes, PTL

\* Frontier::pop: a host with URLs queued waits for at most one pop of each other host.
THEOREM HostsServedFairly ==
    CrawlSpec => []HostFair
<1>1. ASSUME ResumeInv PROVE HostFair
  <2> SUFFICES ASSUME NEW h \in CrawlHosts PROVE waits[h] < Cardinality(CrawlHosts)
    BY DEF HostFair
  <2>1. /\ frontier \in Frontier /\ Rotates(frontier) /\ Placed(frontier, waits)
        /\ waits \in [CrawlHosts -> Nat]
    BY <1>1 DEF ResumeInv, CrawlTypeOK
  <2>2. Cardinality(CrawlHosts) \in Nat /\ Cardinality(CrawlHosts) > 0
    <3>1. IsFiniteSet(CrawlHosts) /\ Cardinality(CrawlHosts) \in Nat
      BY CrawlFacts
    <3>2. Cardinality(CrawlHosts) # 0
      BY <3>1, FS_EmptySet
    <3> QED
      BY <3>1, <3>2
  <2>3. CASE frontier.buckets[h] = <<>>
    BY <2>1, <2>2, <2>3 DEF Placed
  <2>4. CASE frontier.buckets[h] # <<>>
    <3>1. Contains(frontier.order, h)
      BY <2>1, <2>4 DEF Rotates
    <3>2. PICK i \in 1..Len(frontier.order) : frontier.order[i] = h
      BY <3>1 DEF Contains
    <3>3. frontier.order \in Seq(CrawlHosts) /\ i \in DOMAIN frontier.order
      BY <2>1 DEF Frontier
    <3>4. waits[h] + i <= Cardinality(CrawlHosts)
      BY <2>1, <3>2, <3>3 DEF Placed
    <3>5. i \in Nat /\ i >= 1 /\ waits[h] \in Nat
      BY <2>1, <3>3
    <3> QED
      BY <2>2, <3>4, <3>5
  <2> QED
    BY <2>3, <2>4
<1>2. ResumeInv => HostFair
  BY <1>1
<1> QED
  BY <1>2, CrawlResumes, PTL
=============================================================================

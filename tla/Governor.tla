------------------------------ MODULE Governor ------------------------------
(***************************************************************************)
(* The per-host politeness governor and the memory of what it learned.      *)
(*                                                                          *)
(* A fetch claims a slot on its host and sleeps until the slot is due; the  *)
(* answer teaches the governor: 429 and 503 double the host's extra         *)
(* spacing, a 2xx halves it.  A write-behind pass, an operator's reset,     *)
(* imports of other nodes' observations and the boot all touch the same     *)
(* penalties, in memory and in the table tier_memory.                       *)
(*                                                                          *)
(* One unit of time is one second.  The governor is enabled; what the       *)
(* sleeping task adds to its slot (jitter, scheduling) is that a request    *)
(* may go out at any time from its slot on.  A host that is unlimited and   *)
(* unpenalized is not spaced at all.                                        *)
(***************************************************************************)
EXTENDS Integers, FiniteSets

CONSTANTS
    Hosts,          \* hosts that fetches go to
    Callers,        \* tasks that fetch
    Background,     \* the tasks that may be a pass of the cache refresher
    Intervals,      \* 1 / rps of a host; 0 is unlimited
    Jitter,         \* whether jitter_ms is above zero
    PenaltyBase, PenaltyCap, PenaltyFloor,
    RetryAfters,    \* values of Retry-After; 0 is none
    IdleTtl,        \* IDLE_TTL
    MemoryTtl,      \* host_memory_ttl_secs; 0 never ages
    Remotes,        \* penalties in imported bundles
    ImportCap,      \* WEATHER_IMPORT_PENALTY_CAP_MS
    QueueBound,     \* how far ahead a host's slots may be claimed
    MaxTime,
    EventBound      \* resets, imports, storage errors (at boot too), shutdowns and crashes

ASSUME GovernorAssumption ==
    /\ Hosts # {} /\ Background \subseteq Callers
    /\ Jitter \in BOOLEAN
    /\ Intervals \cup RetryAfters \cup Remotes \subseteq Nat
    /\ {PenaltyBase, PenaltyCap, PenaltyFloor, IdleTtl, MemoryTtl, ImportCap} \subseteq Nat
    /\ {QueueBound, MaxTime, EventBound} \subseteq Nat
    /\ PenaltyBase <= PenaltyCap        \* Config::validate

VARIABLES
    now,
    interval,   \* [governor] per_domain, read at boot
    host,       \* Governor::hosts
    fetch,      \* fetch[c]: where the task is between acquire and answer
    memory,     \* tier_memory: penalty_ms and penalty_updated_at
    keeper,     \* the write-behind pass that is under way
    reset,      \* the reset_host_memory that is under way
    bundle,     \* the host-weather import that is under way
    life,       \* the process
    events,     \* how many of them so far
    hold,       \* history: until when the last rate limit asks a host's callers to wait
    unsaved,    \* history: hosts whose penalty changed since the last committed pass began
    forgot      \* history: hosts reset since anything was learned about them

liveVars == <<interval, host, fetch>>
storeVars == <<memory, keeper, reset, bundle>>
historyVars == <<hold, unsaved, forgot>>
politenessVars == <<now, liveVars, storeVars, life, events, historyVars>>

Later(a, b) == IF a >= b THEN a ELSE b
Sooner(a, b) == IF a <= b THEN a ELSE b

Absent == [known |-> FALSE, next |-> 0, penalty |-> 0, seen |-> 0]
Quiet == [at |-> "idle", host |-> CHOOSE h \in Hosts : TRUE, slot |-> 0, stale |-> FALSE]
NoPass == [at |-> "idle", snap |-> [h \in Hosts |-> 0], since |-> {}]
NoReset == [at |-> "idle", host |-> CHOOSE h \in Hosts : TRUE]
NoBundle == [at |-> "idle", host |-> CHOOSE h \in Hosts : TRUE, ms |-> 0, live |-> FALSE]
Forgotten == [penalty |-> 0, at |-> 0]

Penalties == 0..Later(PenaltyCap, ImportCap)

PolitenessTypeOK ==
    /\ now \in 0..MaxTime
    /\ interval \in [Hosts -> Intervals]
    /\ host \in [Hosts -> [known : BOOLEAN, next : Nat, penalty : Penalties, seen : 0..MaxTime]]
    /\ fetch \in [Callers -> [at : {"idle", "probed", "claimed", "sent"}, host : Hosts,
                              slot : Nat, stale : BOOLEAN]]
    /\ memory \in [Hosts -> [penalty : Penalties, at : 0..MaxTime]]
    /\ keeper \in [at : {"idle", "writing", "final"}, snap : [Hosts -> Penalties], since : SUBSET Hosts]
    /\ reset \in [at : {"idle", "cleared"}, host : Hosts]
    /\ bundle \in [at : {"idle", "planned", "raised"}, host : Hosts, ms : Penalties, live : BOOLEAN]
    /\ life \in {"up", "draining", "down"}
    /\ events \in 0..EventBound
    /\ hold \in [Hosts -> Nat]
    /\ unsaved \subseteq Hosts
    /\ forgot \subseteq Hosts

-----------------------------------------------------------------------------
(* Bookkeeping of the histories. *)

Event ==
    /\ events < EventBound
    /\ events' = events + 1

\* the penalty of h, live or stored, is no longer what the store last agreed on
Touched(h, learned) ==
    /\ unsaved' = unsaved \cup {h}
    /\ forgot' = IF learned THEN forgot \ {h} ELSE forgot

\* a pass that is under way may have read h before the change
DuringPass(h) == keeper' = [keeper EXCEPT !.since = IF keeper.at = "idle" THEN @ ELSE @ \cup {h}]

Untouched == UNCHANGED <<unsaved, forgot, keeper>>

-----------------------------------------------------------------------------
(* The governor. *)

\* the entry a host has, or is given
Entry(h) == IF host[h].known THEN host[h]
            ELSE [known |-> TRUE, next |-> now, penalty |-> 0, seen |-> now]

\* the slot the next caller gets
SlotFor(h) == Later(Entry(h).next, now)

\* A fault: the slot is counted from the call and not from the slots already claimed
TakeSlotFromNow(h) ==
    host' = [host EXCEPT ![h] = [Entry(h) EXCEPT
                !.seen = now, !.next = now + interval[h] + Entry(h).penalty]]

\* acquire and try_acquire advance the host's next slot alike
TakeSlot(h) ==
    host' = [host EXCEPT ![h] = [Entry(h) EXCEPT
                !.seen = now, !.next = SlotFor(h) + interval[h] + Entry(h).penalty]]

\* unlimited and unpenalized: nothing to space
Unspaced(h) == interval[h] = 0 /\ ~Jitter /\ host[h].penalty = 0

\* tasks start while the process is up, or run on while it drains
MayAcquire(c, h) ==
    /\ life # "down"
    /\ \/ fetch[c].at = "idle"
       \/ fetch[c].at = "probed" /\ fetch[c].host = h

\* acquire: the early return
AcquireUnspaced(c, h) ==
    /\ MayAcquire(c, h)
    /\ Unspaced(h)
    /\ fetch' = [fetch EXCEPT ![c] = [Quiet EXCEPT !.at = "sent", !.host = h]]
    /\ UNCHANGED <<now, interval, host, storeVars, life, events, historyVars>>

\* acquire: claim a slot, then sleep
Acquire(c, h) ==
    /\ MayAcquire(c, h)
    /\ ~Unspaced(h)
    /\ SlotFor(h) <= now + QueueBound
    /\ TakeSlot(h)
    /\ fetch' = [fetch EXCEPT ![c] = [Quiet EXCEPT !.at = "claimed", !.host = h, !.slot = SlotFor(h)]]
    /\ UNCHANGED <<now, interval, storeVars, life, events, historyVars>>

\* the sleep is over and the request goes out
SendRequest(c) ==
    /\ life # "down"
    /\ fetch[c].at = "claimed"
    /\ fetch[c].slot <= now
    /\ fetch' = [fetch EXCEPT ![c].at = "sent"]
    /\ UNCHANGED <<now, interval, host, storeVars, life, events, historyVars>>

\* the fetch budget is spent by the wait, or the task is dropped: the slot is not given back
GiveUp(c) ==
    /\ life # "down"
    /\ fetch[c].at \in {"probed", "claimed"}
    /\ fetch' = [fetch EXCEPT ![c] = Quiet]
    /\ UNCHANGED <<now, interval, host, storeVars, life, events, historyVars>>

\* try_acquire of the refresher: a slot only if it is free right now, else the key is skipped;
\* the revalidation that follows goes through acquire again
TryAcquire(c, h) ==
    /\ life = "up"
    /\ c \in Background
    /\ fetch[c].at = "idle"
    /\ SlotFor(h) = now
    /\ TakeSlot(h)
    /\ fetch' = [fetch EXCEPT ![c] = [Quiet EXCEPT !.at = "probed", !.host = h]]
    /\ UNCHANGED <<now, interval, storeVars, life, events, historyVars>>

\* what a rate limit makes of the penalty
Raised(p, ra) == Sooner(Later(IF p = 0 THEN PenaltyBase ELSE 2 * p, ra), PenaltyCap)

\* A fault: the penalty grows but the next slot stays
PenalizedSlotKept(h, ra) ==
    [Entry(h) EXCEPT !.seen = now, !.penalty = Raised(@, ra)]

\* the entry after penalize
PenalizedEntry(h, ra) ==
    LET e == Entry(h)
        p == Raised(e.penalty, ra)
    IN  [e EXCEPT !.seen = now, !.penalty = p, !.next = Later(e.next, now + p)]

\* a 429 or 503: penalize
Limited(c, ra) ==
    LET h == fetch[c].host
        e == PenalizedEntry(h, ra)
    IN  /\ life # "down"
        /\ fetch[c].at = "sent"
        /\ host' = [host EXCEPT ![h] = e]
        /\ fetch' = [fetch EXCEPT ![c] = Quiet]
        /\ hold' = [hold EXCEPT ![h] = Later(@, now + e.penalty)]
        /\ Touched(h, TRUE)
        /\ DuringPass(h)
        /\ UNCHANGED <<now, interval, memory, reset, bundle, life, events>>

Halved(p) == IF p \div 2 < PenaltyFloor THEN 0 ELSE p \div 2

\* a healthy answer: reward, a no-op without a penalty
Healthy(c) ==
    LET h == fetch[c].host
    IN  /\ life # "down"
        /\ fetch[c].at = "sent"
        /\ fetch' = [fetch EXCEPT ![c] = Quiet]
        /\ IF host[h].penalty = 0
             THEN UNCHANGED host /\ Untouched
             ELSE /\ host' = [host EXCEPT ![h].seen = now, ![h].penalty = Halved(@)]
                  /\ Touched(h, FALSE)
                  /\ DuringPass(h)
        /\ UNCHANGED <<now, interval, memory, reset, bundle, life, events, hold>>

\* any other answer, or none
Neutral(c) ==
    /\ life # "down"
    /\ fetch[c].at = "sent"
    /\ fetch' = [fetch EXCEPT ![c] = Quiet]
    /\ UNCHANGED <<now, interval, host, storeVars, life, events, historyVars>>

Evictable(h) == host[h].known /\ now - host[h].seen >= IdleTtl /\ host[h].penalty = 0

\* maybe_evict, by an acquire of one of the many hosts that are not modelled
Evict ==
    /\ life # "down"
    /\ \E h \in Hosts : Evictable(h)
    /\ host' = [h \in Hosts |-> IF Evictable(h) THEN Absent ELSE host[h]]
    /\ UNCHANGED <<now, interval, fetch, storeVars, life, events, historyVars>>

-----------------------------------------------------------------------------
(* The memory of the penalties. *)

\* A fault: a reset does not wait for the pass
ResetLockFree == reset.at = "idle"

\* host_memory_lock: a pass and a reset exclude each other
MemoryLockFree == keeper.at = "idle" /\ reset.at = "idle"

Snapshot == [h \in Hosts |-> host[h].penalty]

\* persist_host_penalties takes the lock and reads the live penalties: a tick of the
\* write-behind loop, which may win against the token once, or the final flush
PersistBegins(kind) ==
    /\ life # "down"
    /\ kind = "final" => life = "draining"
    /\ MemoryLockFree
    /\ keeper' = [at |-> kind, snap |-> Snapshot, since |-> {}]
    /\ UNCHANGED <<now, liveVars, memory, reset, bundle, life, events, historyVars>>

\* A fault: only the snapshot's own hosts are written
PersistedAdditively(h) == IF keeper.snap[h] > 0
                          THEN [penalty |-> keeper.snap[h], at |-> now]
                          ELSE memory[h]

\* persist_penalty_snapshot: zero every stored penalty, then write the snapshot's; the time
\* of a zero is only read by the garbage collection of rows
Persisted(h) == IF keeper.snap[h] > 0
                THEN [penalty |-> keeper.snap[h], at |-> now]
                ELSE Forgotten

\* after the final pass the process ends
PassEnds ==
    /\ keeper' = NoPass
    /\ life' = IF keeper.at = "final" THEN "down" ELSE life
    /\ fetch' = IF keeper.at = "final" THEN [c \in Callers |-> Quiet] ELSE fetch
    /\ bundle' = IF keeper.at = "final" THEN NoBundle ELSE bundle

PersistCommits ==
    /\ keeper.at # "idle"
    /\ memory' = [h \in Hosts |-> Persisted(h)]
    /\ unsaved' = keeper.since
    /\ PassEnds
    /\ UNCHANGED <<now, interval, host, reset, events, hold, forgot>>

\* the transaction fails: a warning
PersistFails ==
    /\ keeper.at # "idle"
    /\ Event
    /\ PassEnds
    /\ UNCHANGED <<now, interval, host, memory, reset, historyVars>>

\* reset_host_memory, under the lock: Governor::clear
ResetClears(h) ==
    /\ life # "down"
    /\ MemoryLockFree
    /\ Event
    /\ reset' = [at |-> "cleared", host |-> h]
    /\ host' = [host EXCEPT ![h] = Absent]
    /\ fetch' = [c \in Callers |-> IF fetch[c].host = h THEN [fetch[c] EXCEPT !.stale = TRUE] ELSE fetch[c]]
    /\ hold' = [hold EXCEPT ![h] = 0]
    /\ unsaved' = unsaved \cup {h}
    /\ forgot' = forgot \cup {h}
    /\ UNCHANGED <<now, interval, memory, keeper, bundle, life>>

\* then TierMemory::forget
ResetForgets ==
    LET h == reset.host
    IN  /\ reset.at = "cleared"
        /\ memory' = [memory EXCEPT ![h] = Forgotten]
        /\ unsaved' = IF host[h].penalty = 0 THEN unsaved \ {h} ELSE unsaved
        /\ reset' = NoReset
        /\ UNCHANGED <<now, liveVars, keeper, bundle, life, events, hold, forgot>>

\* the delete fails: the caller is told
ResetFails ==
    /\ reset.at = "cleared"
    /\ Event
    /\ forgot' = forgot \ {reset.host}
    /\ reset' = NoReset
    /\ UNCHANGED <<now, liveVars, memory, keeper, bundle, life, hold, unsaved>>

\* plan_weather_import: stricter than what is known here, capped.  The route looks at the
\* live penalty as well, the peer app at the stored one only.
ImportPlans(h, remote, live) ==
    LET known == IF live THEN Later(host[h].penalty, memory[h].penalty) ELSE memory[h].penalty
        ms == Sooner(remote, ImportCap)
    IN  /\ life = "up"
        /\ bundle.at = "idle"
        /\ Event
        /\ ms > known
        /\ bundle' = [at |-> IF live THEN "planned" ELSE "raised", host |-> h, ms |-> ms, live |-> live]
        /\ UNCHANGED <<now, liveVars, memory, keeper, reset, life, historyVars>>

\* raise_penalty: never lowers, never moves the slot
ImportRaises ==
    LET h == bundle.host
        p == Sooner(bundle.ms, PenaltyCap)
    IN  /\ bundle.at = "planned"
        /\ IF Entry(h).penalty >= p
             THEN /\ host' = [host EXCEPT ![h] = IF p = 0 THEN @ ELSE Entry(h)]
                  /\ Untouched
             ELSE /\ host' = [host EXCEPT ![h] = [Entry(h) EXCEPT !.seen = now, !.penalty = p]]
                  /\ Touched(h, TRUE)
                  /\ DuringPass(h)
        /\ bundle' = [bundle EXCEPT !.at = "raised"]
        /\ UNCHANGED <<now, interval, fetch, memory, reset, life, events, hold>>

\* save_penalties: additive, and without the lock
ImportSaves ==
    LET h == bundle.host
    IN  /\ bundle.at = "raised"
        /\ memory' = [memory EXCEPT ![h] = [penalty |-> bundle.ms, at |-> now]]
        /\ bundle' = NoBundle
        /\ Touched(h, TRUE)
        /\ DuringPass(h)
        /\ UNCHANGED <<now, liveVars, reset, life, events, hold>>

ImportFails ==
    /\ bundle.at = "raised"
    /\ Event
    /\ bundle' = NoBundle
    /\ UNCHANGED <<now, liveVars, memory, keeper, reset, life, historyVars>>

-----------------------------------------------------------------------------
(* The process. *)

\* the token fires: the write-behind loop and the refresher stop, tasks drain
Shutdown ==
    /\ life = "up"
    /\ Event
    /\ life' = "draining"
    /\ UNCHANGED <<now, liveVars, storeVars, historyVars>>

\* kill -9: what was under way is lost
Crash ==
    /\ life # "down"
    /\ Event
    /\ life' = "down"
    /\ fetch' = [c \in Callers |-> Quiet]
    /\ keeper' = NoPass
    /\ reset' = NoReset
    /\ bundle' = NoBundle
    /\ forgot' = IF reset.at = "idle" THEN forgot ELSE forgot \ {reset.host}
    /\ UNCHANGED <<now, interval, host, memory, hold, unsaved>>

\* penalty_is_restorable
Restorable(h) ==
    memory[h].penalty > 0 /\ (MemoryTtl = 0 \/ memory[h].at >= now - MemoryTtl)

\* load_penalties and restore_penalty: the slots are forgotten, the penalties are not
Boot ==
    /\ life = "down"
    /\ life' = "up"
    /\ host' = [h \in Hosts |->
                  IF Restorable(h)
                  THEN [known |-> TRUE, next |-> now, penalty |-> memory[h].penalty, seen |-> now]
                  ELSE Absent]
    /\ hold' = [h \in Hosts |-> 0]
    /\ unsaved' = {h \in Hosts : memory[h].penalty > 0 /\ ~Restorable(h)}
    /\ UNCHANGED <<now, interval, fetch, storeVars, events, forgot>>

\* load_penalties fails: a warning, and the process comes up knowing nothing.  The store still
\* has the penalties, until the first pass zeroes what the memory does not know.
BootForgets ==
    /\ life = "down"
    /\ Event
    /\ life' = "up"
    /\ host' = [h \in Hosts |-> Absent]
    /\ hold' = [h \in Hosts |-> 0]
    /\ unsaved' = {h \in Hosts : memory[h].penalty > 0}
    /\ UNCHANGED <<now, interval, fetch, storeVars, forgot>>

Tick ==
    /\ now < MaxTime
    /\ now' = now + 1
    /\ hold' = [h \in Hosts |-> IF hold[h] > now' THEN hold[h] ELSE 0]
    /\ UNCHANGED <<liveVars, storeVars, life, events, unsaved, forgot>>

PolitenessInit ==
    /\ now = 0
    /\ interval \in [Hosts -> Intervals]
    /\ host = [h \in Hosts |-> Absent]
    /\ fetch = [c \in Callers |-> Quiet]
    /\ memory = [h \in Hosts |-> Forgotten]
    /\ keeper = NoPass
    /\ reset = NoReset
    /\ bundle = NoBundle
    /\ life = "up"
    /\ events = 0
    /\ hold = [h \in Hosts |-> 0]
    /\ unsaved = {}
    /\ forgot = {}

FetchStep ==
    \E c \in Callers :
        \/ \E h \in Hosts : AcquireUnspaced(c, h) \/ Acquire(c, h) \/ TryAcquire(c, h)
        \/ SendRequest(c) \/ GiveUp(c) \/ Healthy(c) \/ Neutral(c)
        \/ \E ra \in RetryAfters : Limited(c, ra)

MemoryStep ==
    \/ \E kind \in {"writing", "final"} : PersistBegins(kind)
    \/ PersistCommits \/ PersistFails
    \/ \E h \in Hosts : ResetClears(h)
    \/ ResetForgets \/ ResetFails
    \/ \E h \in Hosts, remote \in Remotes, live \in BOOLEAN : ImportPlans(h, remote, live)
    \/ ImportRaises \/ ImportSaves \/ ImportFails

PolitenessNext ==
    FetchStep \/ MemoryStep \/ Evict \/ Shutdown \/ Crash \/ Boot \/ BootForgets \/ Tick

PolitenessSpec == PolitenessInit /\ [][PolitenessNext]_politenessVars

-----------------------------------------------------------------------------
(* Properties. *)

Holds(c, h) == fetch[c].at \in {"claimed", "sent"} /\ fetch[c].host = h /\ ~fetch[c].stale

\* governor.rs acquire: two requests that are waiting for, or using, a slot of the same
\* limited host have slots at least its interval apart, whatever penalties, give-ups,
\* refreshers and evictions came between; an operator's reset starts anew.
SlotsSpaced ==
    \A c, d \in Callers, h \in Hosts :
        (c # d /\ Holds(c, h) /\ Holds(d, h))
            => \/ fetch[c].slot >= fetch[d].slot + interval[h]
               \/ fetch[d].slot >= fetch[c].slot + interval[h]

\* governor.rs penalize: after a rate limit no caller of a limited host is given a slot
\* before the back-off is over, and no refresher finds its slot free, even if another
\* answer has meanwhile halved the penalty away.
BackoffHonoured ==
    [][\A c \in Callers, h \in Hosts :
          (fetch'[c] # fetch[c] /\ fetch'[c].host = h /\ interval[h] > 0) =>
             /\ (fetch'[c].at = "claimed" /\ ~fetch'[c].stale) => fetch'[c].slot >= hold[h]
             /\ (fetch'[c].at = "probed" /\ ~fetch'[c].stale) => now >= hold[h]]_politenessVars

\* state.rs persist_host_penalties: a host whose penalty did not change since the last
\* committed pass began is remembered exactly: no zombie of a penalty that decayed, none
\* lost by a clean stop, whatever passes, resets, imports and boots came between.  A boot
\* that could not read the store counts as a change of every penalty in it: the first pass
\* after it forgets them (see PenaltySurvivesRestart).
StoreFollows == \A h \in Hosts \ unsaved : memory[h].penalty = host[h].penalty

\* routes/runtime.rs reset_host_memory: a host that was reset stays forgotten, live, on
\* disk and across restarts, until a rate limit or an import teaches it again.
ResetSticks ==
    \A h \in forgot :
        /\ host[h].penalty = 0
        /\ ~(reset.at = "cleared" /\ reset.host = h) => memory[h].penalty = 0

\* A pass, a reset and a stopped process exclude one another (host_memory_lock), so no
\* pass settles a host that is being reset.
MemoryExclusive ==
    /\ reset.at # "idle" => keeper.at = "idle" /\ reset.host \in unsaved
    /\ life = "down" => /\ keeper.at = "idle" /\ reset.at = "idle"
                        /\ \A c \in Callers : fetch[c].at = "idle"

\* What a pass is about to write is true of every host that was not touched since it read.
SnapshotTrue ==
    /\ \A h \in Hosts : ~host[h].known => host[h].penalty = 0
    /\ keeper.at # "idle" =>
         /\ \A h \in Hosts \ keeper.since : keeper.snap[h] = host[h].penalty
         /\ \A h \in forgot : keeper.snap[h] = 0

\* The penalties, live and stored.  This conjunction is inductive.
PenaltyInv ==
    /\ PolitenessTypeOK
    /\ MemoryExclusive /\ SnapshotTrue
    /\ StoreFollows /\ ResetSticks

\* A host that is forgotten for being idle has been idle for longer than its last slot
\* was ahead, and than any back-off.  The code has no bound on the queue of a host.
IdleOutlasts ==
    /\ \A i \in Intervals : QueueBound + i <= IdleTtl
    /\ PenaltyCap <= IdleTtl

\* The next slot is an interval past every slot that is held, and none is held further
\* ahead than the queue was long when the host was last seen.
SlotsBelowNext ==
    \A c \in Callers, h \in Hosts :
        (Holds(c, h) /\ interval[h] > 0) =>
            /\ fetch[c].slot + interval[h] <= SlotFor(h)
            /\ host[h].known => fetch[c].slot <= host[h].seen + QueueBound

\* The next slot is not before the end of a back-off.
HoldBelowNext ==
    \A h \in Hosts :
        /\ host[h].seen <= now
        /\ hold[h] <= SlotFor(h)
        /\ hold[h] <= now \/ (host[h].known /\ hold[h] <= host[h].seen + PenaltyCap)

\* The slots of the hosts.  This conjunction, with PenaltyInv, is inductive where
\* IdleOutlasts holds of the constants.
SlotInv == SlotsSpaced /\ SlotsBelowNext /\ HoldBelowNext

-----------------------------------------------------------------------------
(* Statements of the repository that the code does not keep. *)

\* governor.rs penalize: "the host's next slot is pushed out so already-queued peers back
\* off too": no request goes out before the back-off is over.
QueuedPeersBackOff ==
    [][\A c \in Callers :
          (fetch[c].at = "claimed" /\ fetch'[c].at = "sent" /\ ~fetch[c].stale)
              => now >= hold[fetch[c].host]]_politenessVars

\* governor.rs maybe_evict, "idle-host eviction": a host that is forgotten has no slot
\* claimed in the future.
EvictsOnlyIdle ==
    [][\A h \in Hosts :
          (host[h].known /\ ~host'[h].known /\ life = life' /\ reset' = reset) => host[h].next <= now]_politenessVars

\* state.rs: "Restore the governor's learned per-host penalties from the last write-behind
\* snapshot so politeness survives a restart".
PenaltySurvivesRestart ==
    [][\A h \in Hosts :
          (life = "down" /\ life' = "up" /\ Restorable(h)) => host'[h].penalty = memory[h].penalty]_politenessVars

\* config.rs penalty_cap_secs: "Hard cap on the learned penalty".
PenaltyCapped == \A h \in Hosts : host[h].penalty <= PenaltyCap
=============================================================================

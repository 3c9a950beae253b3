------------------------------- MODULE Outbox -------------------------------
(***************************************************************************)
(* Cursor subscriptions (watches included) and the one drain that serves    *)
(* them.  A pass holds DRAIN_LOCK, flushes the bus, loads the enabled       *)
(* targets and walks each one forward from its cursor, a page at a time: a  *)
(* matching event gets a delivery row, then the cursor is advanced.  Passes *)
(* run on the scheduler tick and at the end of every finished job.          *)
(***************************************************************************)
EXTENDS EventLog

CONSTANTS
    Passes,         \* callers of drain
    Pollers,        \* requests that flush the bus
    Targets,        \* subscriptions and watches
    NoTarget,
    Wants,          \* the kinds each target's selector matches
    Batch,          \* outbox_batch
    MaxPages        \* MAX_PAGES_PER_TICK

ASSUME OutboxAssumption ==
    /\ Passes \subseteq Flushers /\ Pollers \subseteq Flushers
    /\ NoTarget \notin Targets
    /\ Wants \in [Targets -> SUBSET Kinds]
    /\ Batch \in Nat \ {0} /\ MaxPages \in Nat \ {0}

VARIABLES
    sub,        \* the subscription rows
    handed,     \* delivery rows written for each target and event
    pass,       \* where each drain pass is
    late        \* history: events appended behind the page that would have held them

outboxVars == <<sub, handed, pass, late>>

Pass == [at : {"idle", "flush", "load", "read", "page", "abort"}, todo : SUBSET Targets,
         cur : Targets \cup {NoTarget}, snap : [Targets -> 0..MaxSeq], cursor : 0..MaxSeq,
         page : SUBSET Seqs, full : BOOLEAN, reached : 0..MaxSeq, pages : 0..MaxPages]

Idle == [at |-> "idle", todo |-> {}, cur |-> NoTarget, snap |-> [t \in Targets |-> 0],
         cursor |-> 0, page |-> {}, full |-> FALSE, reached |-> 0, pages |-> 0]

OutboxTypeOK ==
    /\ sub \in [Targets -> [state : {"none", "live", "gone"}, from : 0..MaxSeq, cursor : 0..MaxSeq]]
    /\ handed \in [Targets -> [Seqs -> Nat]]
    /\ pass \in [Passes -> Pass]
    /\ late \in [Targets -> SUBSET Seqs]

OutboxInit ==
    /\ sub = [t \in Targets |-> [state |-> "none", from |-> 0, cursor |-> 0]]
    /\ handed = [t \in Targets |-> [s \in Seqs |-> 0]]
    /\ pass = [p \in Passes |-> Idle]
    /\ late = [t \in Targets |-> {}]

Live == {t \in Targets : sub[t].state = "live"}
Set(p, r) == pass' = [pass EXCEPT ![p] = r]

\* how far a target's cursor and the page a pass has read for it reach
Covered(t) ==
    Max({sub[t].cursor} \cup UNION {pass[p].page \cup {pass[p].reached} :
                                    p \in {q \in Passes : pass[q].cur = t}})

NoteLate ==
    late' = [t \in Targets |-> late[t] \cup {s \in landed' \ landed : s <= Covered(t)}]

\* GET /events/log flushes before it reads, outside DRAIN_LOCK; a client that hangs up
\* drops the handler wherever it waits.  A drain is awaited by tasks nobody drops.
Flush(f) ==
    /\ Take(f) \/ Land(f) \/ LandFails(f) \/ Cancelled(f)
    /\ NoteLate
    /\ UNCHANGED <<sub, handed, pass>>

\* A fault: passes overlap.
LockIgnored == TRUE

\* DRAIN_LOCK: one pass at a time
LockFree == \A p \in Passes : pass[p].at = "idle"

\* drain: the flush comes first; an empty queue is nothing to append
DrainBegin(p) ==
    /\ LockFree /\ pass[p].at = "idle"
    /\ \/ /\ pending = <<>>
          /\ Set(p, [Idle EXCEPT !.at = "load"])
          /\ UNCHANGED busVars
       \/ /\ Set(p, [Idle EXCEPT !.at = "flush"])
          /\ Take(p)
    /\ UNCHANGED <<sub, handed, late>>

DrainFlushed(p) ==
    /\ pass[p].at = "flush" /\ Land(p)
    /\ NoteLate
    /\ Set(p, [Idle EXCEPT !.at = "load"])
    /\ UNCHANGED <<sub, handed>>

\* a failed flush ends the pass
DrainFlushFails(p) ==
    /\ pass[p].at = "flush" /\ LandFails(p)
    /\ Set(p, Idle)
    /\ UNCHANGED <<sub, handed, late>>

\* the pass turns to its next target, or ends
Turn(r) ==
    IF r.todo = {} THEN Idle
    ELSE LET t == CHOOSE x \in r.todo : TRUE IN
         [Idle EXCEPT !.at = "read", !.todo = r.todo \ {t}, !.cur = t,
                      !.snap = r.snap, !.cursor = r.snap[t], !.reached = r.snap[t]]

\* load_targets
LoadTargets(p) ==
    /\ pass[p].at = "load"
    /\ Set(p, Turn([todo |-> Live, snap |-> [t \in Targets |-> sub[t].cursor]]))
    /\ UNCHANGED <<busVars, sub, handed, late>>

StorageFails ==
    /\ faults < FaultBound
    /\ faults' = faults + 1
    /\ UNCHANGED <<seq, seed, kind, ringFrom, pending, hand, log, landed, lost, dropped,
                   lifecycleDropped, crashes, prunes>>

LoadFails(p) ==
    /\ pass[p].at = "load" /\ StorageFails
    /\ Set(p, Idle)
    /\ UNCHANGED <<sub, handed, late>>

\* drain_target: the page behind the pass's own cursor
ReadPage(p) ==
    LET r == pass[p]
        rows == After(r.cursor, Batch)
    IN  /\ r.at = "read"
        /\ Set(p, IF rows = {} THEN Turn(r)
                  ELSE [r EXCEPT !.at = "page", !.page = rows, !.full = Cardinality(rows) = Batch,
                                 !.pages = @ + 1])
        /\ UNCHANGED <<busVars, sub, handed, late>>

ReadFails(p) ==
    /\ pass[p].at = "read" /\ StorageFails
    /\ Set(p, Turn(pass[p]))
    /\ UNCHANGED <<sub, handed, late>>

Matches(t, s) == kind[s] \in Wants[t]

\* dispatch: the delivery row is written before anything is sent
Dispatch(p) ==
    LET r == pass[p]
        s == Min(r.page)
    IN  /\ r.at = "page" /\ r.page # {}
        /\ handed' = IF Matches(r.cur, s) THEN [handed EXCEPT ![r.cur][s] = @ + 1] ELSE handed
        /\ Set(p, [r EXCEPT !.page = @ \ {s}, !.reached = s])
        /\ UNCHANGED <<busVars, sub, late>>

\* A fault: the cursor passes the event that was not handed off.
AbandonPast(r) == [r EXCEPT !.at = "abort", !.page = {}, !.reached = Min(r.page)]

\* no row, no handoff: the page is abandoned at the last event that has one
Abandon(r) == [r EXCEPT !.at = "abort", !.page = {}]

DispatchFails(p) ==
    LET r == pass[p] IN
    /\ r.at = "page" /\ r.page # {} /\ Matches(r.cur, Min(r.page))
    /\ StorageFails
    /\ Set(p, Abandon(r))
    /\ UNCHANGED <<sub, handed, late>>

\* advance_subscription_cursor: the fence, and the local early return before it
Advances(r) ==
    /\ r.reached > r.snap[r.cur]
    /\ sub[r.cur].state = "live" /\ sub[r.cur].cursor < r.reached

PageDone(r) == r.at = "abort" \/ (r.at = "page" /\ r.page = {})

\* after the cursor write: the next page, unless this one was the last allowed
AfterPage(r) ==
    IF r.at = "abort" \/ ~r.full \/ r.pages = MaxPages THEN Turn(r)
    ELSE [r EXCEPT !.at = "read", !.cursor = r.reached]

AdvanceCursor(p) ==
    LET r == pass[p] IN
    /\ PageDone(r)
    /\ sub' = IF Advances(r) THEN [sub EXCEPT ![r.cur].cursor = r.reached] ELSE sub
    /\ Set(p, AfterPage(r))
    /\ UNCHANGED <<busVars, handed, late>>

\* a cursor that could not be written is only logged
AdvanceFails(p) ==
    LET r == pass[p] IN
    /\ PageDone(r) /\ Advances(r) /\ StorageFails
    /\ Set(p, AfterPage(r))
    /\ UNCHANGED <<sub, handed, late>>

\* POST /subscriptions: from now, or from an earlier sequence number
CreateSubscription(t) ==
    /\ sub[t].state = "none"
    /\ \E from \in {0, seq} : sub' = [sub EXCEPT ![t] = [state |-> "live", from |-> from, cursor |-> from]]
    /\ UNCHANGED <<busVars, handed, pass, late>>

DeleteSubscription(t) ==
    /\ sub[t].state = "live"
    /\ sub' = [sub EXCEPT ![t].state = "gone"]
    /\ UNCHANGED <<busVars, handed, pass, late>>

\* passes die with the process; numbers above the seed will name new events
OutboxRestart ==
    /\ pass' = [p \in Passes |-> Idle]
    /\ handed' = [t \in Targets |-> [s \in Seqs |-> IF s <= MaxRow THEN handed[t][s] ELSE 0]]
    /\ late' = [t \in Targets |-> {s \in late[t] : s <= MaxRow}]
    /\ UNCHANGED sub

DrainStep ==
    \E p \in Passes :
        \/ DrainBegin(p) \/ DrainFlushed(p) \/ LoadTargets(p)
        \/ ReadPage(p) \/ Dispatch(p) \/ AdvanceCursor(p)

DrainFails ==
    \E p \in Passes :
        DrainFlushFails(p) \/ LoadFails(p) \/ ReadFails(p) \/ DispatchFails(p) \/ AdvanceFails(p)

OutboxStep ==
    \/ DrainStep
    \/ DrainFails
    \/ \E f \in Pollers : Flush(f)
    \/ \E t \in Targets : CreateSubscription(t) \/ DeleteSubscription(t)

(***************************************************************************)
(* At least once.  A row of the log that was durable when its page was read *)
(* has a delivery row for every live target that wants it once the cursor   *)
(* is past it: failed dispatches, failed cursor writes, overlapping passes  *)
(* and restarts skip nothing (subscriptions.rs, drain_target).              *)
(***************************************************************************)
Owed(t) == {s \in Rows : s > sub[t].from /\ s <= sub[t].cursor /\ Matches(t, s)}

NoDurableSkip == \A t \in Live : \A s \in Owed(t) \ late[t] : handed[t][s] > 0

(***************************************************************************)
(* No doubling.  DRAIN_LOCK keeps overlapping passes from handing off the   *)
(* same page twice: a second delivery row for one event needs a failed      *)
(* statement or a restart (subscriptions.rs, DRAIN_LOCK).                   *)
(***************************************************************************)
NoDoubleHandoff == \A t \in Targets : \A s \in Seqs : handed[t][s] <= 1 + faults + crashes

\* One pass at a time, which works through targets whose cursors nobody else moves.
PassInStep ==
    /\ \A p, q \in Passes : pass[p].at # "idle" /\ pass[q].at # "idle" => p = q
    /\ \A p \in Passes :
          LET r == pass[p] IN
          /\ r.at \in {"idle", "flush", "load"} => r.todo = {} /\ r.cur = NoTarget
          /\ r.at \in {"read", "page", "abort"} =>
                /\ r.cur \in Targets \ r.todo /\ r.snap[r.cur] <= r.reached
                /\ \A t \in r.todo \cup {r.cur} :
                      sub[t].state # "none" /\ r.snap[t] <= sub[t].cursor
          /\ r.at = "read" => r.cursor = r.reached /\ r.pages < MaxPages
          /\ r.at # "page" => r.page = {}
          /\ \A s \in r.page : s > r.reached

\* What a pass has behind it was handed off, and its page has every row up to its last.
PageWhole ==
    \A p \in Passes : pass[p].cur \in Live =>
        LET t == pass[p].cur IN
        \A s \in Rows \ late[t] :
            /\ sub[t].from < s /\ s <= pass[p].reached /\ Matches(t, s) => handed[t][s] > 0
            /\ \A x \in pass[p].page : pass[p].reached < s /\ s <= x => s \in pass[p].page

\* The events a target has still before it: behind its cursor, or, while a pass is about
\* to hand off to it, behind what that pass has reached.
StillAhead(t, s) ==
    \/ /\ t \in Live /\ s > sub[t].cursor
       /\ \A p \in Passes : pass[p].cur = t => pass[p].at = "read"
    \/ \E p \in Passes :
          \/ pass[p].cur = t /\ s > pass[p].reached
          \/ t \in pass[p].todo /\ s > pass[p].snap[t]

\* A repeated handoff is paid for by a failure or a restart before it happens.
HandoffsCharged ==
    \A t \in Targets, s \in Seqs :
        /\ handed[t][s] <= 1 + faults + crashes
        /\ StillAhead(t, s) => handed[t][s] <= faults + crashes
        /\ sub[t].state = "none" => handed[t][s] = 0

(***************************************************************************)
(* What the comments promise: a cursor that only moves forward never skips  *)
(* an event (storage.rs, advance_subscription_cursor).                      *)
(***************************************************************************)
NeverSkipped == \A t \in Live : \A s \in Owed(t) : handed[t][s] > 0

(***************************************************************************)
(* Progress.  With the scheduler ticking, a durable event reaches every     *)
(* live target that wants it, however many passes failed before.            *)
(***************************************************************************)
EveryEventHandedOff ==
    \A t \in Targets, s \in Seqs :
        (t \in Live /\ s \in Rows /\ s > sub[t].from /\ Matches(t, s))
            ~> (handed[t][s] > 0 \/ s \in late[t] \/ t \notin Live \/ s \notin Rows)
=============================================================================

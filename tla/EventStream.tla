---------------------------- MODULE EventStream ----------------------------
(***************************************************************************)
(* The live SSE stream of the event bus: a connection subscribes to the     *)
(* broadcast channel, replays what its Last-Event-ID says it missed from    *)
(* the ring or from the durable log, and then follows the channel; a        *)
(* receiver that fell behind the channel recovers through the same replay.  *)
(* A client keeps the last id it was given and reconnects with it.          *)
(***************************************************************************)
EXTENDS EventLog

CONSTANTS
    Clients,        \* SSE connections
    BroadcastCap,   \* broadcast_capacity
    PageCap,        \* MAX_LOG_PAGE
    ResumeCap       \* MAX_LOG_RESUME

ASSUME StreamAssumption ==
    /\ Clients \subseteq Flushers
    /\ BroadcastCap \in Nat \ {0} /\ PageCap \in Nat \ {0} /\ ResumeCap \in Nat \ {0}

VARIABLES
    conn,       \* the server's side of each connection
    client      \* what the client has: its Last-Event-ID and what it was told

streamVars == <<conn, client>>

Conn == [at : {"off", "replay", "ring", "flush", "read", "live"}, last : 0..MaxSeq, latest : 0..MaxSeq,
         cursor : 0..MaxSeq, out : SUBSET Seqs, rx : 1..(MaxSeq + 1)]
Off == [at |-> "off", last |-> 0, latest |-> 0, cursor |-> 0, out |-> {}, rx |-> 1]

\* seen: the events given since the last reset; base: where that view begins;
\* torn: the view spans a restart or a replay from the log
Client == [last : 0..MaxSeq, base : 0..MaxSeq, seen : SUBSET Seqs, torn : BOOLEAN]
View(n) == [last |-> n, base |-> n, seen |-> {}, torn |-> FALSE]

StreamTypeOK ==
    /\ conn \in [Clients -> Conn]
    /\ client \in [Clients -> Client]

StreamInit ==
    /\ conn = [c \in Clients |-> Off]
    /\ client = [c \in Clients |-> View(0)]

\* stream_events: subscribe first, then replay; without Last-Event-ID there is none
Connect(c) ==
    /\ conn[c].at = "off"
    /\ \/ /\ conn' = [conn EXCEPT ![c] = [Off EXCEPT !.at = "replay", !.last = client[c].last,
                                                     !.rx = seq + 1]]
          /\ UNCHANGED client
       \/ /\ conn' = [conn EXCEPT ![c] = [Off EXCEPT !.at = "live", !.rx = seq + 1]]
          /\ client' = [client EXCEPT ![c] = [View(seq) EXCEPT !.last = 0]]
    /\ UNCHANGED busVars

\* the client gets the events of s in order, or nothing
Given(cl, s) ==
    IF s = {} THEN cl ELSE [cl EXCEPT !.last = Max(s), !.seen = @ \cup s]

GoLive(k, s) ==
    [k EXCEPT !.at = "live", !.last = IF s = {} THEN @ ELSE Max(s), !.out = {},
              !.latest = 0, !.cursor = 0]

\* A fault: the ring answers whatever it still holds.
RingTrusted(after) == TRUE

\* replay_or_log: latest_seq first; a client that is current has nothing to look up
ReplayBegins(c) ==
    LET k == conn[c] IN
    /\ k.at = "replay"
    /\ conn' = [conn EXCEPT ![c] =
                  IF k.last >= seq THEN GoLive(k, {})
                  ELSE [k EXCEPT !.at = "ring", !.latest = seq, !.cursor = k.last]]
    /\ UNCHANGED <<busVars, client>>

\* the ring answers only if it covers the whole gap, up to the events emitted meanwhile
RingCovers(after) == ringFrom <= after + 1 /\ after + 1 <= seq

\* the ring, or the flush before the log is read; a ring that missed still misses when the
\* queue is taken
Replay(c) ==
    LET k == conn[c]
        s == Max({ringFrom, k.last + 1})..seq
    IN  /\ k.at = "ring"
        /\ \/ /\ RingCovers(k.last)
              /\ conn' = [conn EXCEPT ![c] = GoLive(k, s)]
              /\ client' = [client EXCEPT ![c] = Given(@, s)]
              /\ UNCHANGED busVars
           \/ /\ ~RingCovers(k.last)
              /\ pending = <<>>
              /\ conn' = [conn EXCEPT ![c].at = "read"]
              /\ UNCHANGED <<busVars, client>>
           \/ /\ ~RingCovers(k.last)
              /\ Take(c)
              /\ conn' = [conn EXCEPT ![c].at = "flush"]
              /\ UNCHANGED client

\* the flush before the read; its failure is only logged
StreamFlush(c) ==
    /\ conn[c].at = "flush"
    /\ Land(c) \/ LandFails(c)
    /\ conn' = [conn EXCEPT ![c].at = "read"]
    /\ UNCHANGED client

\* reset: the gap is gone, the view begins anew at the bus's head
Reset(c) ==
    /\ conn' = [conn EXCEPT ![c] = [GoLive(@, {}) EXCEPT !.last = conn[c].latest]]
    /\ client' = [client EXCEPT ![c] = View(conn[c].latest)]

ReadLog(c) ==
    LET k == conn[c]
        page == After(k.cursor, PageCap)
        done == Cardinality(k.out) >= k.latest - k.last \/ page = {}
    IN  /\ k.at = "read"
        /\ \/ /\ done
              /\ conn' = [conn EXCEPT ![c] = GoLive(k, k.out)]
              /\ client' = [client EXCEPT ![c] = [Given(@, k.out) EXCEPT !.torn = TRUE]]
           \/ /\ ~done
              /\ (k.out = {} /\ Min(page) # k.cursor + 1) \/ Cardinality(k.out \cup page) >= ResumeCap
              /\ Reset(c)
           \/ /\ ~done
              /\ k.out # {} \/ Min(page) = k.cursor + 1
              /\ Cardinality(k.out \cup page) < ResumeCap
              /\ conn' = [conn EXCEPT ![c].out = @ \cup page, ![c].cursor = Max(page)]
              /\ UNCHANGED client
        /\ UNCHANGED busVars

ReadLogFails(c) ==
    /\ conn[c].at = "read" /\ faults < FaultBound
    /\ faults' = faults + 1
    /\ Reset(c)
    /\ UNCHANGED <<seq, seed, kind, ringFrom, pending, hand, log, landed, lost, dropped,
                   lifecycleDropped, crashes, prunes>>

\* A fault: the first event behind the replay is taken for a replayed one.
FreshLate(k, s) == s > k.last + 1

\* the live loop: what was already replayed is skipped
Fresh(k, s) == s > k.last

Receive(c) ==
    LET k == conn[c] IN
    /\ k.at = "live" /\ k.rx <= seq /\ seq - k.rx < BroadcastCap
    /\ conn' = [conn EXCEPT ![c].rx = @ + 1, ![c].last = IF Fresh(k, k.rx) THEN k.rx ELSE @]
    /\ client' = IF Fresh(k, k.rx) THEN [client EXCEPT ![c] = Given(@, {k.rx})] ELSE client
    /\ UNCHANGED busVars

\* Lagged: the receiver jumps to the oldest event the channel keeps and recovers
Lag(c) ==
    /\ conn[c].at = "live" /\ seq - conn[c].rx >= BroadcastCap
    /\ conn' = [conn EXCEPT ![c].at = "replay", ![c].rx = seq - BroadcastCap + 1]
    /\ UNCHANGED <<busVars, client>>

\* the client hangs up and the task is dropped wherever it waits, inside the append too
Disconnect(c) ==
    /\ conn[c].at # "off"
    /\ conn' = [conn EXCEPT ![c] = Off]
    /\ IF conn[c].at = "flush" THEN Land(c) \/ Cancelled(c) ELSE UNCHANGED busVars
    /\ UNCHANGED client

\* connections die with the process; numbers above the seed will name new events
StreamRestart ==
    /\ conn' = [c \in Clients |-> Off]
    /\ client' = [c \in Clients |-> [client[c] EXCEPT !.torn = TRUE,
                                                      !.seen = {s \in @ : s <= MaxRow}]]

ServeStep ==
    \E c \in Clients :
        ReplayBegins(c) \/ Replay(c) \/ StreamFlush(c) \/ ReadLog(c) \/ Receive(c) \/ Lag(c)

StreamStep ==
    \/ ServeStep
    \/ \E c \in Clients : Connect(c) \/ ReadLogFails(c) \/ Disconnect(c)

\* the events the live loop is past, inside the client's view, and never given
Gap(c) ==
    IF conn[c].at # "live" THEN {}
    ELSE {s \in (client[c].base + 1)..client[c].last : s < conn[c].rx /\ s \notin client[c].seen}

(***************************************************************************)
(* A view served by the ring and the channel alone, within one life of the  *)
(* process, has no gap: subscribing before the replay, the overlap that is  *)
(* skipped and the recovery of a lagged receiver fit together               *)
(* (routes/events.rs, stream_events).                                       *)
(***************************************************************************)
RingViewWhole == \A c \in Clients : ~client[c].torn => Gap(c) = {}

\* The two ends of a connection agree, the receiver is never ahead of what the view has or
\* will be given by the replay, and an untorn view has all of its events.
ViewsInStep ==
    \A c \in Clients :
        LET k == conn[c]
            v == client[c]
        IN  /\ k.at # "off" => k.last = v.last
            /\ k.rx <= seq + 1
            /\ k.at \in {"ring", "flush", "read"} => k.rx <= k.latest + 1 /\ k.latest <= seq
            /\ ~v.torn =>
                 /\ v.base <= seq /\ v.last <= seq
                 /\ (v.base + 1)..v.last \subseteq v.seen
                 /\ k.at = "live" => k.rx <= v.last + 1 \/ k.rx <= v.base + 1

(***************************************************************************)
(* What the route's comment promises: resuming and lagging clients recover  *)
(* "instead of dropping events silently" (routes/events.rs, stream_events). *)
(***************************************************************************)
NoSilentGap == \A c \in Clients : Gap(c) = {}

(***************************************************************************)
(* A client that stays connected is carried past every event emitted after  *)
(* it subscribed, however far it lagged (routes/events.rs, recover).        *)
(***************************************************************************)
ClientCatchesUp ==
    \A c \in Clients, s \in Seqs :
        (conn[c].at = "live" /\ conn[c].rx <= s /\ s <= seq)
            ~> (conn[c].last >= s \/ conn[c].at = "off")
=============================================================================

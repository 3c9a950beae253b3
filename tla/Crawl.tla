------------------------------- MODULE Crawl --------------------------------
(***************************************************************************)
(* The crawl loop of crates/core/src/crawl.rs: a host-fair frontier, a      *)
(* bounded set of fetches in flight, the near-duplicate gate, the buffer of *)
(* page records in front of the dataset sink, and the checkpoint a later    *)
(* attempt of the job resumes from.                                         *)
(*                                                                          *)
(* One task runs the loop, so its steps interleave only with the web and    *)
(* with a kill: an action ends where something durable happens (a batch     *)
(* reaches the sink, a checkpoint lands) or where the loop waits.  A page   *)
(* is its body's fingerprint and its links; near-duplicate bodies have the  *)
(* same fingerprint.  Robots rules are the disallowed URLs and the hosts    *)
(* with a crawl delay; URL filters and sitemaps only shape Links and Seeds. *)
(***************************************************************************)
EXTENDS Naturals, SequencesExt

CONSTANTS
    Urls,           \* the URLs there are
    CrawlHosts,     \* the hosts they are on
    HostOf,         \* HostOf[u]
    Links,          \* Links[u]: the links of the page, in document order
    Body,           \* Body[u]: the fingerprint of the page
    Seeds,          \* cfg.seeds
    Known,          \* pages a revisit may seed and revalidate, {} without revisit
    Expand,         \* links are followed: not a revisit, or one that discovers
    Dedup,          \* dedup_distance > 0
    Disallowed,     \* URLs robots.txt forbids
    Delayed,        \* hosts with a Crawl-delay
    Concurrency, MaxDepth, MaxPages,
    HostCap,        \* max_pages_per_host, 0 is none
    MaxFrontier,    \* MAX_FRONTIER
    Stride,         \* PAGE_SINK_STRIDE
    MaxKills        \* bound on the kills explored

ASSUME CrawlAssumption ==
    /\ IsFiniteSet(Urls) /\ IsFiniteSet(CrawlHosts)
    /\ HostOf \in [Urls -> CrawlHosts] /\ Body \in [Urls -> Range(Body)]
    /\ Links \in [Urls -> Seq(Urls)] /\ Seeds \in Seq(Urls)
    /\ Known \cup Disallowed \subseteq Urls /\ Delayed \subseteq CrawlHosts
    /\ Expand \in BOOLEAN /\ Dedup \in BOOLEAN
    /\ {Concurrency, MaxPages, MaxFrontier, Stride} \subseteq Nat \ {0}
    /\ {MaxDepth, HostCap, MaxKills} \subseteq Nat

VARIABLES
    frontier,   \* [buckets, order, seen, taken]
    flight,     \* in_flight_urls: {<<url, depth>>}
    prints,     \* the fingerprints of dedup_index
    buf,        \* sink_buf: URLs whose record waits for the sink
    run,        \* [pc, rotations, kept, truncated, known] of the attempt
    resting,    \* hosts inside their crawl-delay window
    stored,     \* the durable checkpoint, saved = FALSE before the first
    handed,     \* URLs whose record the sink was handed
    kills,
    \* What happened, for the properties only:
    lineage,    \* [fate, launched, fetches]: what became of each URL, which were ever
                \* fetched and how often each host was, along the checkpoints resumed
    waits       \* waits[h]: pops of other hosts while h had URLs queued

crawlVars == <<frontier, flight, prints, buf, run, resting, stored, handed, kills, lineage, waits>>

Item == Urls \X (0..MaxDepth)

Frontier == [buckets : [CrawlHosts -> Seq(Item)], order : Seq(CrawlHosts),
             seen : SUBSET Urls, taken : [CrawlHosts -> Nat]]

Lineage == [fate : [Urls -> {"open", "missed", "dumped"}], launched : SUBSET Urls,
            fetches : [CrawlHosts -> Nat]]

CrawlRun ==
    [pc : {"down", "topup", "turn", "saving", "await", "final", "closing", "done"},
     rotations : Nat, kept : 0..MaxPages, truncated : BOOLEAN, known : SUBSET Known]

Checkpoints == [saved : BOOLEAN, buckets : [CrawlHosts -> Seq(Item)], flight : SUBSET Item,
                seen : SUBSET Urls, taken : [CrawlHosts -> Nat],
                prints : SUBSET Range(Body), lineage : Lineage]

EmptyFrontier == [buckets |-> [h \in CrawlHosts |-> <<>>], order |-> <<>>, seen |-> {},
                  taken |-> [h \in CrawlHosts |-> 0]]

NewLineage == [fate |-> [u \in Urls |-> "open"], launched |-> {},
               fetches |-> [h \in CrawlHosts |-> 0]]

NoCheckpoint == [saved |-> FALSE, buckets |-> EmptyFrontier.buckets, flight |-> {},
                 seen |-> {}, taken |-> EmptyFrontier.taken, prints |-> {},
                 lineage |-> NewLineage]

IdleRun == [pc |-> "down", rotations |-> 0, kept |-> 0, truncated |-> FALSE, known |-> {}]

CrawlTypeOK ==
    /\ frontier \in Frontier /\ Cardinality(frontier.seen) <= MaxFrontier
    /\ flight \subseteq Item /\ Cardinality(flight) <= Concurrency
    /\ prints \subseteq Range(Body)
    /\ buf \subseteq Urls /\ Cardinality(buf) < Stride
    /\ run \in CrawlRun /\ resting \subseteq Delayed
    /\ stored \in Checkpoints /\ Cardinality(stored.seen) <= MaxFrontier
    /\ handed \subseteq Urls /\ kills \in 0..MaxKills
    /\ lineage \in Lineage /\ waits \in [CrawlHosts -> Nat]

CrawlInit ==
    /\ frontier = EmptyFrontier /\ flight = {} /\ prints = {} /\ buf = {}
    /\ run = IdleRun /\ resting = {}
    /\ stored = NoCheckpoint /\ handed = {} /\ kills = 0
    /\ lineage = NewLineage /\ waits = [h \in CrawlHosts |-> 0]

-----------------------------------------------------------------------------
(* struct Frontier *)

UrlsIn(bucket) == {item[1] : item \in Range(bucket)}

Queued(f) == UNION {UrlsIn(f.buckets[h]) : h \in CrawlHosts}

EnqueueUrl(f, item) ==
    LET h == HostOf[item[1]]
    IN [f EXCEPT !.buckets[h] = Append(@, item),
                 !.order = IF f.buckets[h] = <<>> /\ ~Contains(@, h) THEN Append(@, h) ELSE @]

Push(f, item) ==
    IF item[1] \in f.seen \/ Cardinality(f.seen) >= MaxFrontier THEN f
    ELSE EnqueueUrl([f EXCEPT !.seen = @ \cup {item[1]}], item)

PushAll(f, urls, depth) ==
    FoldLeft(LAMBDA g, u : Push(g, <<u, depth>>), f, urls)

Spent(f, h) == HostCap > 0 /\ f.taken[h] >= HostCap

\* How many hosts at the head of the rotation a pop passes over.
Passed(f) ==
    LET able == {i \in 1..Len(f.order) :
                    ~Spent(f, f.order[i]) /\ f.buckets[f.order[i]] # <<>>}
    IN IF able = {} THEN Len(f.order) ELSE Min(able) - 1

\* A pop dumps the backlog of the hosts that spent their budget.
Dumped(f) == {h \in Range(SubSeq(f.order, 1, Passed(f))) : Spent(f, h)}

DumpedUrls(f) == UNION {UrlsIn(f.buckets[h]) : h \in Dumped(f)}

Skimmed(f) ==
    [f EXCEPT !.order = SubSeq(@, Passed(f) + 1, Len(@)),
              !.buckets = [h \in CrawlHosts |-> IF h \in Dumped(f) THEN <<>> ELSE @[h]]]

\* Whether a pop answers with a URL, the host it serves and the URL.
Serves(f) == Skimmed(f).order # <<>>

Served(f) == Head(Skimmed(f).order)

Popped(f) == Head(f.buckets[Served(f)])

\* A fault: a served host stays at the head of the rotation.
AfterPopGreedy(f) ==
    LET g == Skimmed(f)
        h == Served(f)
        rest == Tail(g.buckets[h])
    IN [g EXCEPT !.buckets[h] = rest, !.taken[h] = @ + 1,
                 !.order = IF rest = <<>> THEN Tail(@) ELSE @]

\* A fault: a served host leaves the rotation.
AfterPopForgetful(f) ==
    LET g == Skimmed(f)
        h == Served(f)
    IN [g EXCEPT !.buckets[h] = Tail(@), !.taken[h] = @ + 1, !.order = Tail(@)]

\* The frontier a pop leaves: the host is charged and rotates to the back.
AfterPop(f) ==
    LET g == Skimmed(f)
        h == Served(f)
        rest == Tail(g.buckets[h])
    IN [g EXCEPT !.buckets[h] = rest, !.taken[h] = @ + 1,
                 !.order = IF rest = <<>> THEN Tail(@) ELSE Append(Tail(@), h)]

\* Refunds the host: a requeue is not a consumed fetch.
Requeue(f, item) ==
    LET h == HostOf[item[1]]
    IN EnqueueUrl([f EXCEPT !.taken[h] = IF @ = 0 THEN 0 ELSE @ - 1], item)

\* A fault: the budget restarts with the attempt.
RestoreForgetful(queue, seen, taken) ==
    FoldLeft(EnqueueUrl, [EmptyFrontier EXCEPT !.seen = seen], queue)

Restore(queue, seen, taken) ==
    FoldLeft(EnqueueUrl, [EmptyFrontier EXCEPT !.seen = seen, !.taken = taken], queue)

-----------------------------------------------------------------------------
(* The start of an attempt *)

HostsSaved == {h \in CrawlHosts : stored.buckets[h] # <<>>}

\* The saved buckets, one after the other.
Flattened(hs) == FoldLeft(LAMBDA queue, h : queue \o stored.buckets[h], <<>>, hs)

\* The restored queue: the buckets in any order of the hosts, then the fetches
\* that were in flight in any order.
RestoredQueues ==
    {Flattened(hs) \o fs : hs \in SetToSeqs(HostsSaved), fs \in SetToSeqs(stored.flight)}

\* Restore, then the seeds, then the pages plan_revisit selects, most due first.
Start ==
    /\ run.pc = "down"
    /\ \E queue \in RestoredQueues, due \in SetToAllKPermutations(Known) :
          LET seeds == Seeds \o due
          IN /\ frontier' = PushAll(Restore(queue, stored.seen, stored.taken), seeds, 0)
             /\ run' = [IdleRun EXCEPT !.pc = "topup", !.known = Range(due),
                           !.truncated = ~(Range(seeds) \subseteq frontier'.seen)]
    /\ prints' = stored.prints
    /\ UNCHANGED <<flight, buf, resting, stored, handed, kills, lineage, waits>>

-----------------------------------------------------------------------------
(* Topping up the fetches in flight *)

Goto(pc) == run' = [run EXCEPT !.pc = pc]

NextTurn == run' = [run EXCEPT !.pc = "topup", !.rotations = 0]

Size(f) == Cardinality(Queued(f))

Room ==
    /\ run.pc = "topup"
    /\ Cardinality(flight) < Concurrency /\ run.rotations <= Size(frontier)

Fates(fate, missed) ==
    [u \in Urls |-> IF u \in missed THEN "missed"
                    ELSE IF u \in DumpedUrls(frontier) THEN "dumped" ELSE fate[u]]

Truncates == DumpedUrls(frontier) # {}

Draw(f) ==
    /\ Room /\ Serves(frontier)
    /\ frontier' = f
    /\ waits' = [h \in CrawlHosts |->
                    IF h = Served(frontier) \/ frontier.buckets[h] = <<>> \/ f.buckets[h] = <<>>
                    THEN 0 ELSE waits[h] + 1]
    /\ UNCHANGED <<prints, buf, stored, handed, kills>>

\* robots.txt forbids the URL.
Refuse ==
    LET url == Popped(frontier)[1]
    IN /\ Draw(AfterPop(frontier))
       /\ url \in Disallowed
       /\ lineage' = [lineage EXCEPT !.fate = Fates(@, {url})]
       /\ run' = [run EXCEPT !.truncated = @ \/ Truncates]
       /\ UNCHANGED <<flight, resting>>

\* The host is inside its crawl-delay window.
Rotate ==
    LET item == Popped(frontier)
    IN /\ Draw(Requeue(AfterPop(frontier), item))
       /\ item[1] \notin Disallowed /\ HostOf[item[1]] \in resting
       /\ lineage' = [lineage EXCEPT !.fate = Fates(@, {})]
       /\ run' = [run EXCEPT !.rotations = @ + 1, !.truncated = @ \/ Truncates]
       /\ UNCHANGED <<flight, resting>>

Launch ==
    LET item == Popped(frontier)
    IN /\ Draw(AfterPop(frontier))
       /\ item[1] \notin Disallowed /\ HostOf[item[1]] \notin resting
       /\ flight' = flight \cup {item}
       /\ resting' = resting \cup (Delayed \cap {HostOf[item[1]]})
       /\ lineage' = [fate |-> Fates(lineage.fate, {}),
                      launched |-> lineage.launched \cup {item[1]},
                      fetches |-> [lineage.fetches EXCEPT ![HostOf[item[1]]] = @ + 1]]
       /\ run' = [run EXCEPT !.truncated = @ \/ Truncates]

\* Enough in flight, every URL left rotated once, or nothing to pop.
TopUpEnds ==
    /\ run.pc = "topup"
    /\ \/ ~Room /\ UNCHANGED <<frontier, lineage, waits>> /\ Goto("turn")
       \/ /\ Room /\ ~Serves(frontier)
          /\ frontier' = Skimmed(frontier)
          /\ lineage' = [lineage EXCEPT !.fate = Fates(@, {})]
          /\ run' = [run EXCEPT !.pc = "turn", !.truncated = @ \/ Truncates]
          /\ waits' = [h \in CrawlHosts |-> 0]
    /\ UNCHANGED <<flight, prints, buf, resting, stored, handed, kills>>

RestOver(h) ==
    /\ h \in resting
    /\ resting' = resting \ {h}
    /\ UNCHANGED <<frontier, flight, prints, buf, run, stored, handed, kills, lineage, waits>>

-----------------------------------------------------------------------------
(* flush_then_checkpoint *)

Memory == <<frontier, flight, prints, resting, kills, lineage, waits>>

\* Less than CHECKPOINT_MIN_INTERVAL since the last intermediate save.
NotYet == run.pc = "turn" /\ Goto("await") /\ UNCHANGED <<Memory, buf, stored, handed>>

\* A fault: the buffer is left for the next stride.
FlushNothing ==
    /\ run.pc \in {"turn", "final"}
    /\ Goto(IF run.pc = "turn" THEN "saving" ELSE "closing")
    /\ UNCHANGED <<Memory, buf, stored, handed>>

\* flush_page_sink, before every save.
Flush ==
    /\ run.pc \in {"turn", "final"}
    /\ handed' = handed \cup buf /\ buf' = {}
    /\ Goto(IF run.pc = "turn" THEN "saving" ELSE "closing")
    /\ UNCHANGED <<Memory, stored>>

\* A fault: the queue is what the frontier holds.
CheckpointQueueBare == [buckets |-> frontier.buckets, flight |-> {}]

\* checkpoint_queue: what is queued and what is in flight.
CheckpointQueue == [buckets |-> frontier.buckets, flight |-> flight]

Checkpoint ==
    [saved |-> TRUE, buckets |-> CheckpointQueue.buckets, flight |-> CheckpointQueue.flight,
     seen |-> frontier.seen, taken |-> frontier.taken, prints |-> prints, lineage |-> lineage]

\* save_checkpoint lands, or is throttled, stale or answered with an error.
Save ==
    /\ run.pc \in {"saving", "closing"}
    /\ stored' \in {Checkpoint, stored}
    /\ Goto(IF run.pc = "saving" THEN "await" ELSE "done")
    /\ UNCHANGED <<Memory, buf, handed>>

-----------------------------------------------------------------------------
(* Outcomes *)

Drained ==
    /\ run.pc = "await" /\ flight = {} /\ Size(frontier) = 0
    /\ Goto("final")
    /\ UNCHANGED <<Memory, buf, stored, handed>>

\* Everything left is crawl-delayed.
Sleep ==
    /\ run.pc = "await" /\ flight = {} /\ Size(frontier) > 0
    /\ NextTurn
    /\ UNCHANGED <<Memory, buf, stored, handed>>

Retire(item) ==
    /\ run.pc = "await" /\ item \in flight
    /\ flight' = flight \ {item}
    /\ UNCHANGED <<resting, stored, kills, waits>>

\* A transport failure or a bot wall.
Miss(item) ==
    /\ Retire(item)
    /\ lineage' = [lineage EXCEPT !.fate[item[1]] = "missed"]
    /\ NextTurn
    /\ UNCHANGED <<frontier, prints, buf, handed>>

\* sink_buf.push, and the flush at the stride.
Record(u) ==
    LET full == Cardinality(buf \cup {u}) >= Stride
    IN /\ buf' = IF full THEN {} ELSE buf \cup {u}
       /\ handed' = IF full THEN handed \cup buf \cup {u} ELSE handed

\* A known page answers 304, 404 or 410: a marker goes to the sink.
Mark(item) ==
    /\ Retire(item)
    /\ item[1] \in run.known
    /\ Record(item[1])
    /\ NextTurn
    /\ UNCHANGED <<frontier, prints, lineage>>

Duplicate(u) == Dedup /\ u \notin run.known /\ Body[u] \in prints

Followed(item) ==
    IF Expand /\ item[2] < MaxDepth THEN PushAll(frontier, Links[item[1]], item[2] + 1)
    ELSE frontier

\* Links are followed from kept and near-duplicate pages alike; the page budget
\* ends the loop.
Page(item) ==
    LET u == item[1]
        kept == run.kept + (IF Duplicate(u) THEN 0 ELSE 1)
        refused == Expand /\ item[2] < MaxDepth /\ ~(Range(Links[u]) \subseteq frontier'.seen)
    IN /\ Retire(item)
       /\ frontier' = Followed(item)
       /\ IF Duplicate(u)
          THEN /\ lineage' = [lineage EXCEPT !.fate[u] = "missed"]
               /\ UNCHANGED <<prints, buf, handed>>
          ELSE /\ prints' = prints \cup {Body[u]}
               /\ Record(u)
               /\ UNCHANGED lineage
       /\ run' = [run EXCEPT !.pc = IF kept >= MaxPages THEN "final" ELSE "topup",
                             !.rotations = 0, !.kept = kept, !.truncated = @ \/ refused]

-----------------------------------------------------------------------------
(* The attempt is killed, reaped, timed out or suspended *)

Kill ==
    /\ run.pc # "down" /\ kills < MaxKills
    /\ kills' = kills + 1
    /\ frontier' = EmptyFrontier /\ flight' = {} /\ prints' = {} /\ buf' = {}
    /\ run' = IdleRun /\ resting' = {}
    /\ lineage' = stored.lineage
    /\ waits' = [h \in CrawlHosts |-> 0]
    /\ UNCHANGED <<stored, handed>>

TopUp == Refuse \/ Rotate \/ Launch \/ TopUpEnds

Outcome == Drained \/ Sleep \/ \E item \in flight : Miss(item) \/ Mark(item) \/ Page(item)

Attempt == Start \/ TopUp \/ NotYet \/ Flush \/ Save \/ Outcome

CrawlNext == Attempt \/ (\E h \in CrawlHosts : RestOver(h)) \/ Kill

CrawlSpec == CrawlInit /\ [][CrawlNext]_crawlVars

-----------------------------------------------------------------------------
(* Correctness *)

Outstanding(c) == Queued(c) \cup {item[1] : item \in c.flight}

\* The checkpoint claims nothing that a resume would then bury: a URL it calls
\* seen is still owed by its queue, or its record reached the sink, or the
\* crawl gave it up.
CheckpointHonest ==
    \A u \in stored.seen :
        u \in Outstanding(stored) \cup handed \/ stored.lineage.fate[u] # "open"

\* Every fingerprint that will suppress near-duplicates after a resume belongs
\* to a page the sink has: flush_then_checkpoint flushes first.
PrintsBacked == stored.prints \subseteq {Body[u] : u \in handed}

\* max_pages_per_host bounds the crawl and not the attempt: the fetches from a
\* host stay within it across kills and resumes, crawl-delay requeues and
\* refetches included (fetches that a kill erased are not counted).
HostBudgetKept == HostCap > 0 => \A h \in CrawlHosts : lineage.fetches[h] <= HostCap

\* The rotation holds the hosts that have URLs queued, each once, and a bucket the
\* URLs of its host.
Rotates(f) ==
    /\ IsInjective(f.order)
    /\ \A h \in CrawlHosts :
          /\ f.buckets[h] # <<>> <=> Contains(f.order, h)
          /\ \A u \in UrlsIn(f.buckets[h]) : HostOf[u] = h

\* The memory of an attempt starts from the checkpoint, its buffer is flushed before a
\* save, and it takes no page past its budget.
AttemptInPhase ==
    /\ run.pc = "down" => frontier = EmptyFrontier /\ lineage = stored.lineage
    /\ run.pc \in {"saving", "closing"} => buf = {}
    /\ run.pc \notin {"final", "closing", "done"} => run.kept < MaxPages

\* What CheckpointHonest and PrintsBacked say of the checkpoint, said of the attempt:
\* its buffer still stands between it and the sink.
MemoryHonest ==
    /\ \A u \in frontier.seen :
          \/ u \in Queued(frontier) \cup {item[1] : item \in flight} \cup buf \cup handed
          \/ lineage.fate[u] # "open"
    /\ prints \subseteq {Body[u] : u \in buf \cup handed}

\* A fetch is charged to its host before it counts, in memory and in the checkpoint.
FetchesCharged ==
    \A h \in CrawlHosts :
        /\ HostCap > 0 => frontier.taken[h] <= HostCap /\ stored.taken[h] <= HostCap
        /\ stored.lineage.fetches[h] <= stored.taken[h]
        /\ run.pc # "down" => lineage.fetches[h] <= frontier.taken[h]

\* A host has waited for no more pops than hosts were ahead of it when it joined the rotation.
Placed(f, w) ==
    /\ \A i \in DOMAIN f.order : w[f.order[i]] + i <= Cardinality(CrawlHosts)
    /\ \A h \in CrawlHosts : f.buckets[h] = <<>> => w[h] = 0

\* What a resume starts from: a checkpoint that buries nothing and suppresses nothing it
\* cannot back, and a host budget that spans the attempts.  This conjunction is inductive.
ResumeInv ==
    /\ CrawlTypeOK
    /\ CheckpointHonest /\ PrintsBacked /\ HostBudgetKept
    /\ Rotates(frontier) /\ Placed(frontier, waits)
    /\ AttemptInPhase /\ MemoryHonest /\ FetchesCharged

\* The rotation is fair: a host with URLs queued is served before any other
\* host is served twice, however hosts enter, leave, requeue and run dry.
HostFair == \A h \in CrawlHosts : waits[h] < Cardinality(CrawlHosts)

-----------------------------------------------------------------------------
(* Liveness: fetches end (every request has a timeout), crawl-delay windows   *)
(* close, and a killed job is claimed again.                                  *)

Fairness ==
    /\ WF_crawlVars(Attempt)
    /\ \A h \in CrawlHosts : WF_crawlVars(RestOver(h))

CrawlFairSpec == CrawlSpec /\ Fairness

\* In the end every URL a checkpoint called seen is settled, in the sink or
\* given up, unless the page budget ended the crawl with the URL still counted
\* in frontier_remaining.
EveryUrlSettles ==
    <>[](\A u \in stored.seen :
            \/ u \in handed \/ lineage.fate[u] # "open"
            \/ run.pc = "done" /\ run.kept >= MaxPages
                  /\ u \in Queued(frontier) \cup {item[1] : item \in flight})

-----------------------------------------------------------------------------
(* Statements of the repository that the crawl does not keep *)

\* crawl.rs on checkpoint_queue: merging the fetches in flight "makes the resume
\* idempotent: they are re-fetched": a URL once charged to its host's budget is
\* not dumped as over budget.
InFlightRefetched ==
    \A u \in Urls : lineage.fate[u] = "dumped" => u \notin lineage.launched

\* apps/crawl on coverage_complete: it says "Whether this crawl saw the entire
\* graph it discovered".
CoverageHonest ==
    run.pc = "done" /\ ~run.truncated => \A u \in Urls : lineage.fate[u] # "dumped"

\* docs/features/crawling.md: kept-page fingerprints, "one per kept page,
\* <= max_pages".
PrintsBounded == Cardinality(prints) <= MaxPages
=============================================================================

-------------------------- MODULE DeliveriesProofs --------------------------
(***************************************************************************)
(* Proofs about outbound deliveries, for every pool, backlog and stale       *)
(* limit: the pool's tickets and its line are exact, the senders of a row    *)
(* are counted, the ladder is paid for and what is settled stays so.  Where  *)
(* sends are over before their row is stale (BacklogDrains) no sender is     *)
(* overtaken.                                                                *)
(***************************************************************************)
EXTENDS Deliveries, FiniteSetTheorems, TLAPS

-----------------------------------------------------------------------------
(* Counting the units of a pool *)

LEMMA InFinite ==
    ASSUME NEW where
    PROVE  /\ IsFiniteSet(In(where)) /\ Cardinality(In(where)) \in Nat
           /\ Cardinality(In(where)) <= Cardinality(Units) /\ Cardinality(Units) \in Nat
<1>1. In(where) \in SUBSET Units
  BY DEF In
<1> QED
  BY <1>1, PoolAssumption, FS_Subset, FS_CardinalityType

LEMMA PutCounts ==
    ASSUME place \in [Units -> Places], NEW u \in Units, NEW p, NEW where,
           place' = [place EXCEPT ![u] = p]
    PROVE  Cardinality(In(where)') =
             IF p \in where
             THEN IF place[u] \in where THEN Cardinality(In(where)) ELSE Cardinality(In(where)) + 1
             ELSE IF place[u] \in where THEN Cardinality(In(where)) - 1 ELSE Cardinality(In(where))
<1>1. u \in In(where) <=> place[u] \in where
  BY DEF In
<1>2. CASE p \in where
  <2>1. In(where)' = In(where) \cup {u}
    BY <1>2 DEF In
  <2> QED
    BY <1>1, <1>2, <2>1, InFinite, FS_AddElement
<1>3. CASE p \notin where
  <2>1. In(where)' = In(where) \ {u}
    BY <1>3 DEF In
  <2> QED
    BY <1>1, <1>3, <2>1, InFinite, FS_RemoveElement
<1> QED
  BY <1>2, <1>3

LEMMA PoolCounts ==
    ASSUME place \in [Units -> Places], NEW u \in Units, NEW p,
           place' = [place EXCEPT ![u] = p]
    PROVE  /\ Cardinality(In({"running"})') = Cardinality(In({"running"}))
                 + (IF p = "running" THEN 1 ELSE 0) - (IF place[u] = "running" THEN 1 ELSE 0)
           /\ Cardinality(In({"queued"})') = Cardinality(In({"queued"}))
                 + (IF p = "queued" THEN 1 ELSE 0) - (IF place[u] = "queued" THEN 1 ELSE 0)
           /\ Cardinality(In({"queued", "running"})') = Cardinality(In({"queued", "running"}))
                 + (IF p \in {"queued", "running"} THEN 1 ELSE 0)
                 - (IF place[u] \in {"queued", "running"} THEN 1 ELSE 0)
<1>1. ASSUME NEW where
      PROVE  Cardinality(In(where)') = Cardinality(In(where))
                 + (IF p \in where THEN 1 ELSE 0) - (IF place[u] \in where THEN 1 ELSE 0)
  <2>1. Cardinality(In(where)) \in Nat
    BY InFinite
  <2>2. Cardinality(In(where)') =
          IF p \in where
          THEN IF place[u] \in where THEN Cardinality(In(where)) ELSE Cardinality(In(where)) + 1
          ELSE IF place[u] \in where THEN Cardinality(In(where)) - 1 ELSE Cardinality(In(where))
    BY PutCounts
  <2> QED
    BY <2>1, <2>2
<1>2. /\ p \in {"running"} <=> p = "running"
      /\ place[u] \in {"running"} <=> place[u] = "running"
      /\ p \in {"queued"} <=> p = "queued"
      /\ place[u] \in {"queued"} <=> place[u] = "queued"
  OBVIOUS
<1>3. Cardinality(In({"running"})') = Cardinality(In({"running"}))
         + (IF p \in {"running"} THEN 1 ELSE 0) - (IF place[u] \in {"running"} THEN 1 ELSE 0)
  BY <1>1
<1>4. Cardinality(In({"queued"})') = Cardinality(In({"queued"}))
         + (IF p \in {"queued"} THEN 1 ELSE 0) - (IF place[u] \in {"queued"} THEN 1 ELSE 0)
  BY <1>1
<1>5. Cardinality(In({"queued", "running"})') = Cardinality(In({"queued", "running"}))
         + (IF p \in {"queued", "running"} THEN 1 ELSE 0)
         - (IF place[u] \in {"queued", "running"} THEN 1 ELSE 0)
  BY <1>1
<1> QED
  BY <1>2, <1>3, <1>4, <1>5

-----------------------------------------------------------------------------
(* The pool *)

PoolExact == PoolTypeOK /\ TicketsExact /\ LineExact

LEMMA SubmitExact ==
    ASSUME PoolExact, NEW u \in Units, Submit(u)
    PROVE  PoolExact'
<1> DEFINE p == Placement(inflight)
<1>1. /\ p \in {"spawning", "inline"} /\ (p = "spawning" => Concurrency > 0)
  BY PoolAssumption DEF Placement
<1> HIDE DEF p
<1>2. /\ place \in [Units -> Places] /\ place[u] = "none" /\ place' = [place EXCEPT ![u] = p]
      /\ line' = line /\ inflight' = inflight
  BY DEF Submit, PoolExact, PoolTypeOK, p
<1>3. PoolTypeOK'
  BY <1>1, <1>2 DEF PoolExact, PoolTypeOK, Places
<1>4. /\ Cardinality(In({"running"})') = Cardinality(In({"running"}))
      /\ Cardinality(In({"queued"})') = Cardinality(In({"queued"}))
      /\ Cardinality(In({"queued", "running"})') = Cardinality(In({"queued", "running"}))
  <2>0. /\ Cardinality(In({"running"})) \in Nat /\ Cardinality(In({"queued"})) \in Nat
        /\ Cardinality(In({"queued", "running"})) \in Nat
    BY InFinite
  <2>1. /\ Cardinality(In({"running"})') = Cardinality(In({"running"}))
              + (IF p = "running" THEN 1 ELSE 0) - (IF place[u] = "running" THEN 1 ELSE 0)
        /\ Cardinality(In({"queued"})') = Cardinality(In({"queued"}))
              + (IF p = "queued" THEN 1 ELSE 0) - (IF place[u] = "queued" THEN 1 ELSE 0)
        /\ Cardinality(In({"queued", "running"})') = Cardinality(In({"queued", "running"}))
              + (IF p \in {"queued", "running"} THEN 1 ELSE 0)
              - (IF place[u] \in {"queued", "running"} THEN 1 ELSE 0)
    BY <1>1, <1>2, PoolCounts
  <2> QED
    BY <1>1, <1>2, <2>0, <2>1
<1>5. TicketsExact'
  BY <1>2, <1>4 DEF PoolExact, TicketsExact
<1>6. LineExact'
  <2>1. \A v \in Units : place'[v] = IF v = u THEN p ELSE place[v]
    BY <1>2
  <2> QED
    BY <1>1, <1>2, <1>4, <2>1 DEF PoolExact, LineExact
<1> QED
  BY <1>3, <1>5, <1>6 DEF PoolExact

LEMMA SpawnExact ==
    ASSUME PoolExact, NEW u \in Units, Spawn(u)
    PROVE  /\ PoolExact' /\ Len(line') = Len(line) + 1 /\ line'[Len(line')] = u
           /\ \A i \in 1..Len(line) : line'[i] = line[i]
<1>1. /\ place \in [Units -> Places] /\ place[u] = "spawning"
      /\ place' = [place EXCEPT ![u] = "queued"]
      /\ line' = Append(line, u) /\ inflight' = inflight + 1
      /\ line \in Seq(Units) /\ inflight \in Nat
  BY DEF Spawn, PoolExact, PoolTypeOK
<1>2. /\ line' \in Seq(Units) /\ Len(line) \in Nat /\ Len(line') = Len(line) + 1
      /\ line'[Len(line) + 1] = u
      /\ \A i \in 1..Len(line) : line'[i] = line[i]
  BY <1>1
<1>3. PoolTypeOK'
  BY <1>1, <1>2 DEF PoolTypeOK, Places
<1>4. /\ Cardinality(In({"running"})') = Cardinality(In({"running"}))
      /\ Cardinality(In({"queued"})') = Cardinality(In({"queued"})) + 1
      /\ Cardinality(In({"queued", "running"})') = Cardinality(In({"queued", "running"})) + 1
  <2>0. /\ Cardinality(In({"running"})) \in Nat /\ Cardinality(In({"queued"})) \in Nat
        /\ Cardinality(In({"queued", "running"})) \in Nat
    BY InFinite
  <2>1. /\ Cardinality(In({"running"})') = Cardinality(In({"running"}))
              + (IF "queued" = "running" THEN 1 ELSE 0) - (IF place[u] = "running" THEN 1 ELSE 0)
        /\ Cardinality(In({"queued"})') = Cardinality(In({"queued"}))
              + (IF "queued" = "queued" THEN 1 ELSE 0) - (IF place[u] = "queued" THEN 1 ELSE 0)
        /\ Cardinality(In({"queued", "running"})') = Cardinality(In({"queued", "running"}))
              + (IF "queued" \in {"queued", "running"} THEN 1 ELSE 0)
              - (IF place[u] \in {"queued", "running"} THEN 1 ELSE 0)
    BY <1>1, PoolCounts
  <2> QED
    BY <1>1, <2>0, <2>1
<1>5. TicketsExact'
  BY <1>1, <1>4 DEF PoolExact, TicketsExact
<1>6. LineExact'
  <2>1. \A v \in Units : place'[v] = IF v = u THEN "queued" ELSE place[v]
    BY <1>1
  <2>2. \A i \in 1..Len(line) : line[i] # u
    BY <1>1 DEF PoolExact, LineExact
  <2>3. \A i, k \in 1..Len(line') : line'[i] = line'[k] => i = k
    <3> SUFFICES ASSUME NEW i \in 1..Len(line'), NEW k \in 1..Len(line'), line'[i] = line'[k]
                 PROVE  i = k
      OBVIOUS
    <3>1. /\ i \in 1..Len(line) \/ i = Len(line) + 1
          /\ k \in 1..Len(line) \/ k = Len(line) + 1
      BY <1>2
    <3>2. CASE i \in 1..Len(line) /\ k \in 1..Len(line)
      BY <1>2, <3>2 DEF PoolExact, LineExact
    <3> QED
      BY <1>2, <2>2, <3>1, <3>2
  <2>4. \A v \in Units : place'[v] = "queued" <=> \E i \in 1..Len(line') : line'[i] = v
    <3> SUFFICES ASSUME NEW v \in Units
                 PROVE  place'[v] = "queued" <=> \E i \in 1..Len(line') : line'[i] = v
      OBVIOUS
    <3>1. \A i : i \in 1..Len(line') <=> i \in 1..Len(line) \/ i = Len(line) + 1
      BY <1>2
    <3>2. CASE v = u
      BY <1>2, <2>1, <3>1, <3>2
    <3>3. CASE v # u
      <4>1. (\E i \in 1..Len(line') : line'[i] = v) <=> \E i \in 1..Len(line) : line[i] = v
        BY <1>2, <3>1, <3>3
      <4> QED
        BY <2>1, <3>3, <4>1 DEF PoolExact, LineExact
    <3> QED
      BY <3>2, <3>3
  <2>5. Len(line') = Cardinality(In({"queued"})')
    BY <1>2, <1>4 DEF PoolExact, LineExact
  <2>6. \A v \in Units : place'[v] \in {"spawning", "queued", "running"} => Concurrency > 0
    BY <1>1, <2>1 DEF PoolExact, LineExact
  <2> QED
    BY <2>3, <2>4, <2>5, <2>6 DEF LineExact
<1> QED
  BY <1>2, <1>3, <1>5, <1>6 DEF PoolExact

LEMMA AcquireExact ==
    ASSUME PoolExact, NEW u \in Units, Acquire(u)
    PROVE  /\ PoolExact' /\ place[u] = "queued" /\ Len(line) > 0 /\ line[1] = u
           /\ Len(line') = Len(line) - 1
           /\ \A i \in 1..Len(line') : i + 1 \in 1..Len(line) /\ line'[i] = line[i + 1]
<1>1. /\ place \in [Units -> Places]
      /\ place' = [place EXCEPT ![u] = "running"]
      /\ line # <<>> /\ Head(line) = u /\ line' = Tail(line) /\ inflight' = inflight
      /\ line \in Seq(Units) /\ inflight \in Nat
      /\ Cardinality(In({"running"})) < Concurrency
  BY DEF Acquire, PoolExact, PoolTypeOK
<1>2. /\ line' \in Seq(Units) /\ Len(line) \in Nat /\ Len(line) > 0 /\ Len(line') = Len(line) - 1
      /\ line[1] = u
      /\ \A i \in 1..Len(line') : i + 1 \in 1..Len(line) /\ line'[i] = line[i + 1]
  BY <1>1
<1>3. place[u] = "queued"
  BY <1>2 DEF PoolExact, LineExact
<1>4. PoolTypeOK'
  BY <1>1, <1>2 DEF PoolTypeOK, Places
<1>5. /\ Cardinality(In({"running"})') = Cardinality(In({"running"})) + 1
      /\ Cardinality(In({"queued"})') = Cardinality(In({"queued"})) - 1
      /\ Cardinality(In({"queued", "running"})') = Cardinality(In({"queued", "running"}))
  <2>0. /\ Cardinality(In({"running"})) \in Nat /\ Cardinality(In({"queued"})) \in Nat
        /\ Cardinality(In({"queued", "running"})) \in Nat
    BY InFinite
  <2>1. /\ Cardinality(In({"running"})') = Cardinality(In({"running"}))
              + (IF "running" = "running" THEN 1 ELSE 0) - (IF place[u] = "running" THEN 1 ELSE 0)
        /\ Cardinality(In({"queued"})') = Cardinality(In({"queued"}))
              + (IF "running" = "queued" THEN 1 ELSE 0) - (IF place[u] = "queued" THEN 1 ELSE 0)
        /\ Cardinality(In({"queued", "running"})') = Cardinality(In({"queued", "running"}))
              + (IF "running" \in {"queued", "running"} THEN 1 ELSE 0)
              - (IF place[u] \in {"queued", "running"} THEN 1 ELSE 0)
    BY <1>1, <1>3, PoolCounts
  <2> QED
    BY <1>1, <1>3, <2>0, <2>1
<1>6. TicketsExact'
  <2>1. Cardinality(In({"running"})) \in Nat /\ Concurrency \in Nat
    BY InFinite, PoolAssumption
  <2> QED
    BY <1>1, <1>5, <2>1 DEF PoolExact, TicketsExact
<1>7. LineExact'
  <2>1. \A v \in Units : place'[v] = IF v = u THEN "running" ELSE place[v]
    BY <1>1
  <2>2. \A i \in 1..Len(line') : line'[i] # u
    BY <1>2 DEF PoolExact, LineExact
  <2>3. \A i, k \in 1..Len(line') : line'[i] = line'[k] => i = k
    <3> SUFFICES ASSUME NEW i \in 1..Len(line'), NEW k \in 1..Len(line'), line'[i] = line'[k]
                 PROVE  i = k
      OBVIOUS
    <3>1. i + 1 = k + 1
      BY <1>2 DEF PoolExact, LineExact
    <3> QED
      BY <1>2, <3>1
  <2>4. \A v \in Units : place'[v] = "queued" <=> \E i \in 1..Len(line') : line'[i] = v
    <3> SUFFICES ASSUME NEW v \in Units
                 PROVE  place'[v] = "queued" <=> \E i \in 1..Len(line') : line'[i] = v
      OBVIOUS
    <3>1. CASE v = u
      BY <2>1, <2>2, <3>1
    <3>2. CASE v # u
      <4>1. ASSUME NEW k \in 1..Len(line), line[k] = v
            PROVE  \E i \in 1..Len(line') : line'[i] = v
        <5>1. k # 1
          BY <1>2, <3>2, <4>1
        <5>2. k - 1 \in 1..Len(line') /\ (k - 1) + 1 = k
          BY <1>2, <5>1
        <5> QED
          BY <1>2, <4>1, <5>2
      <4>2. (\E i \in 1..Len(line') : line'[i] = v) <=> \E i \in 1..Len(line) : line[i] = v
        BY <1>2, <4>1
      <4> QED
        BY <2>1, <3>2, <4>2 DEF PoolExact, LineExact
    <3> QED
      BY <3>1, <3>2
  <2>5. Len(line') = Cardinality(In({"queued"})')
    BY <1>2, <1>5 DEF PoolExact, LineExact
  <2>6. \A v \in Units : place'[v] \in {"spawning", "queued", "running"} => Concurrency > 0
    BY <1>3, <2>1 DEF PoolExact, LineExact
  <2> QED
    BY <2>3, <2>4, <2>5, <2>6 DEF LineExact
<1> QED
  BY <1>2, <1>3, <1>4, <1>6, <1>7 DEF PoolExact

LEMMA LeaveExact ==
    ASSUME PoolExact, NEW u \in Units, Leave(u) \/ Unwind(u)
    PROVE  PoolExact' /\ line' = line /\ place' = [place EXCEPT ![u] = "none"] /\ Executing(u)
<1>1. /\ place \in [Units -> Places] /\ place[u] \in {"running", "inline"}
      /\ place' = [place EXCEPT ![u] = "none"] /\ line' = line
      /\ inflight' = IF place[u] = "running" THEN inflight - 1 ELSE inflight
      /\ line \in Seq(Units) /\ inflight \in Nat
  BY DEF Leave, Unwind, Executing, PoolExact, PoolTypeOK
<1>2. /\ Cardinality(In({"queued"})') = Cardinality(In({"queued"}))
      /\ Cardinality(In({"running"})') <= Cardinality(In({"running"}))
      /\ Cardinality(In({"queued", "running"})') =
            IF place[u] = "running" THEN Cardinality(In({"queued", "running"})) - 1
                                    ELSE Cardinality(In({"queued", "running"}))
  <2>0. /\ Cardinality(In({"running"})) \in Nat /\ Cardinality(In({"queued"})) \in Nat
        /\ Cardinality(In({"queued", "running"})) \in Nat
    BY InFinite
  <2>1. /\ Cardinality(In({"running"})') = Cardinality(In({"running"}))
              + (IF "none" = "running" THEN 1 ELSE 0) - (IF place[u] = "running" THEN 1 ELSE 0)
        /\ Cardinality(In({"queued"})') = Cardinality(In({"queued"}))
              + (IF "none" = "queued" THEN 1 ELSE 0) - (IF place[u] = "queued" THEN 1 ELSE 0)
        /\ Cardinality(In({"queued", "running"})') = Cardinality(In({"queued", "running"}))
              + (IF "none" \in {"queued", "running"} THEN 1 ELSE 0)
              - (IF place[u] \in {"queued", "running"} THEN 1 ELSE 0)
    BY <1>1, PoolCounts
  <2> QED
    BY <1>1, <2>0, <2>1
<1>3. /\ Cardinality(In({"running"})) \in Nat /\ Cardinality(In({"running"})') \in Nat
      /\ Cardinality(In({"queued", "running"})') \in Nat /\ Concurrency \in Nat
  <2>1. In({"running"})' \in SUBSET Units /\ In({"queued", "running"})' \in SUBSET Units
    BY DEF In
  <2> QED
    BY <2>1, InFinite, PoolAssumption, FS_Subset, FS_CardinalityType
<1>4. TicketsExact' /\ inflight' \in Nat
  BY <1>1, <1>2, <1>3 DEF PoolExact, TicketsExact
<1>5. PoolTypeOK'
  BY <1>1, <1>4 DEF PoolTypeOK, Places
<1>6. LineExact'
  <2>1. \A v \in Units : place'[v] = IF v = u THEN "none" ELSE place[v]
    BY <1>1
  <2> QED
    BY <1>1, <1>2, <2>1 DEF PoolExact, LineExact
<1> QED
  BY <1>1, <1>4, <1>5, <1>6 DEF PoolExact, Executing

LEMMA ResetExact ==
    ASSUME PoolReset
    PROVE  PoolExact' /\ Len(line') = 0
<1>1. line' = <<>> /\ inflight' = 0 /\ place' = [u \in Units |-> "none"]
  BY DEF PoolReset
<1>2. In({"queued"})' = {} /\ In({"running"})' = {} /\ In({"queued", "running"})' = {}
  BY <1>1 DEF In
<1>3. Len(line') = 0 /\ line' \in Seq(Units)
  BY <1>1
<1>4. PoolTypeOK'
  BY <1>1, <1>3 DEF PoolTypeOK, Places
<1>5. /\ Cardinality(In({"queued"})') = 0 /\ Cardinality(In({"running"})') = 0
      /\ Cardinality(In({"queued", "running"})') = 0
  BY <1>2, FS_EmptySet, Zenon
<1>6. TicketsExact'
  BY <1>1, <1>5, PoolAssumption DEF TicketsExact
<1>7. LineExact'
  BY <1>1, <1>3, <1>5 DEF LineExact
<1> QED
  BY <1>3, <1>4, <1>6, <1>7 DEF PoolExact

-----------------------------------------------------------------------------
(* Rows, units and the pool *)

SendInv ==
    /\ PoolExact /\ rows \in [Ids -> Row] /\ unit \in [Units -> Unit] /\ overtaken \in [Ids -> Nat]
    /\ UnitsPlaced /\ SendersBacked /\ SendersCounted /\ WaitsBounded

LEMMA RoundsCount ==
    /\ \A n \in Nat : Rounds(n) \in Nat /\ Rounds(n + 1) = Rounds(n) + SendTicks
    /\ Rounds(0) = 0 /\ Rounds(1) = SendTicks
    /\ \A m, n \in Nat : m <= n => Rounds(m) <= Rounds(n)
<1>1. SendTicks \in Nat
  BY DeliveryAssumption
<1>2. \A n \in Nat : n * SendTicks \in Nat /\ (n + 1) * SendTicks = n * SendTicks + SendTicks
  BY <1>1
<1>3. 0 * SendTicks = 0 /\ 1 * SendTicks = SendTicks
  BY <1>1
<1>4. \A m, n \in Nat : m <= n => m * SendTicks <= n * SendTicks
  <2> SUFFICES ASSUME NEW m \in Nat, NEW n \in Nat, m <= n
               PROVE  m * SendTicks <= n * SendTicks
    OBVIOUS
  <2>1. PICK k \in Nat : n = m + k
    <3>1. n - m \in Nat /\ n = m + (n - m)
      OBVIOUS
    <3> QED
      BY <3>1
  <2>2. n * SendTicks = m * SendTicks + k * SendTicks /\ k * SendTicks \in Nat /\ m * SendTicks \in Nat
    BY <1>1, <2>1
  <2> QED
    BY <2>2
<1> QED
  BY <1>2, <1>3, <1>4 DEF Rounds

LEMMA Longest ==
    /\ Cardinality(Units) \in Nat /\ Rounds(Cardinality(Units)) \in Nat
    /\ SendTicks \in Nat /\ StaleTicks \in Nat
    /\ Units # {} => SendTicks <= Rounds(Cardinality(Units))
<1>1. Cardinality(Units) \in Nat /\ (Units # {} => Cardinality(Units) # 0)
  BY PoolAssumption, FS_CardinalityType, FS_EmptySet
<1>2. Units # {} => 1 <= Cardinality(Units)
  BY <1>1
<1> QED
  BY <1>1, <1>2, RoundsCount, DeliveryAssumption

LEMMA FreeTyped == FreeUnit \in Unit
<1>1. 0 \in 0..MaxAttempts /\ 0 \in 0..SendTicks
  BY DeliveryAssumption
<1> QED
  BY <1>1 DEF FreeUnit, Unit

LEMMA UnitFields ==
    ASSUME unit \in [Units -> Unit], NEW u \in Units
    PROVE  /\ unit[u].row \in Ids \cup {NoRow} /\ unit[u].spent \in 0..SendTicks /\ unit[u].spent \in Nat
           /\ unit[u].tries \in 0..MaxAttempts /\ unit[u].tries \in Nat /\ unit[u].read \in Nat
           /\ unit[u].verdict \in {"none", "delivered", "failed", "dead"}
           /\ unit[u].stage \in {"free", "create", "send", "log", "write"}
BY DeliveryAssumption DEF Unit

LEMMA RowFields ==
    ASSUME rows \in [Ids -> Row], NEW d \in Ids
    PROVE  /\ rows[d].status \in Statuses /\ rows[d].retry \in Nat
           /\ rows[d].next \in {"null", "later", "due"}
           /\ rows[d].age \in 0..StaleTicks /\ rows[d].age \in Nat
BY DeliveryAssumption DEF Row

LEMMA InLine ==
    ASSUME LineExact, NEW u \in Units, place[u] # "queued", NEW i \in 1..Len(line)
    PROVE  line[i] # u
BY DEF LineExact

LEMMA OnTimeKept ==
    ASSUME NEW v \in Units, NEW e \in Ids, OnTime(v, e), place'[v] = place[v], line' = line,
           \A w \in Units : place'[w] = "running" =>
              place[w] = "running" /\ unit'[w].spent = unit[w].spent,
           unit'[v].spent = unit[v].spent, rows'[e].age = rows[e].age
    PROVE  OnTime(v, e)'
<1>1. \A w \in In({"running"})' : w \in In({"running"}) /\ unit'[w].spent = unit[w].spent
  BY DEF In
<1> QED
  BY <1>1 DEF OnTime, Executing

\* A row that was written a moment ago is young for whoever carries it.
LEMMA OnTimeFresh ==
    ASSUME PoolExact', unit' \in [Units -> Unit], NEW v \in Units, NEW e \in Ids, rows'[e].age = 0
    PROVE  OnTime(v, e)'
<1>1. rows'[e].age + SendTicks <= Rounds(Cardinality(Units)) + unit'[v].spent
  <2>1. unit'[v].spent \in Nat
    BY DeliveryAssumption DEF Unit
  <2> QED
    BY <2>1, Longest
<1>2. /\ In({"queued"})' \in SUBSET Units /\ Len(line') = Cardinality(In({"queued"})')
      /\ Len(line') \in Nat
  BY DEF In, PoolExact, PoolTypeOK, LineExact
<1>3. Len(line') <= Cardinality(Units)
  BY <1>2, PoolAssumption, FS_Subset
<1>4. ASSUME NEW w \in In({"running"})'
      PROVE  Len(line') + 1 <= Cardinality(Units)
  <2>1. w \in Units /\ In({"queued"})' \in SUBSET (Units \ {w})
    BY <1>4 DEF In
  <2>2. IsFiniteSet(Units \ {w}) /\ Cardinality(Units \ {w}) = Cardinality(Units) - 1
    BY <2>1, PoolAssumption, FS_RemoveElement
  <2>3. Cardinality(In({"queued"})') <= Cardinality(Units) - 1
    BY <2>1, <2>2, FS_Subset
  <2> QED
    BY <1>2, <2>3, Longest
<1>5. ASSUME NEW i \in 1..Len(line')
      PROVE  /\ rows'[e].age + Rounds(i) <= Rounds(Cardinality(Units))
             /\ \A w \in In({"running"})' :
                   rows'[e].age + Rounds(i + 1) <= Rounds(Cardinality(Units)) + unit'[w].spent
  <2>1. i \in Nat /\ i + 1 \in Nat /\ i <= Cardinality(Units)
    BY <1>2, <1>3, Longest
  <2>2. Rounds(i) \in Nat /\ Rounds(i) <= Rounds(Cardinality(Units))
    BY <2>1, RoundsCount, Longest
  <2>3. ASSUME NEW w \in In({"running"})'
        PROVE  rows'[e].age + Rounds(i + 1) <= Rounds(Cardinality(Units)) + unit'[w].spent
    <3>1. w \in Units /\ unit'[w].spent \in Nat
      BY <2>3, DeliveryAssumption DEF In, Unit
    <3>2. i + 1 <= Cardinality(Units)
      BY <1>2, <1>4, <2>1, <2>3, Longest
    <3>3. Rounds(i + 1) \in Nat /\ Rounds(i + 1) <= Rounds(Cardinality(Units))
      BY <2>1, <3>2, RoundsCount, Longest
    <3> QED
      BY <3>1, <3>3, Longest
  <2> QED
    BY <2>2, <2>3, Longest
<1> QED
  BY <1>1, <1>5 DEF OnTime

LEMMA SendersFinite ==
    ASSUME NEW d
    PROVE  /\ IsFiniteSet(Senders(d)) /\ Cardinality(Senders(d)) \in Nat
           /\ IsFiniteSet(Senders(d)') /\ Cardinality(Senders(d)') \in Nat
<1>1. Senders(d) \in SUBSET Units /\ Senders(d)' \in SUBSET Units
  BY DEF Senders
<1> QED
  BY <1>1, PoolAssumption, FS_Subset, FS_CardinalityType

\* What may happen to the senders of a row: none is new and the row does not come to rest,
\* one ends, one takes on a row that was at rest, or the row is reclaimed.
LEMMA CountKept ==
    ASSUME SendInv, NEW d \in Ids, overtaken'[d] \in Nat, overtaken[d] <= overtaken'[d],
           \/ Senders(d)' \subseteq Senders(d) /\ (AtRest(d)' => AtRest(d))
           \/ \E u \in Senders(d) : Senders(d)' \subseteq Senders(d) \ {u}
           \/ /\ ~AtRest(d)' /\ (AtRest(d) \/ Senders(d) = {})
              /\ \E u \in Units : Senders(d)' \subseteq Senders(d) \cup {u}
           \/ /\ Senders(d)' \subseteq Senders(d)
              /\ Senders(d) = {} \/ overtaken'[d] = overtaken[d] + 1
    PROVE  Cardinality(Senders(d)') + One(AtRest(d)') <= 1 + overtaken'[d]
<1> DEFINE old == Senders(d)
           new == Senders(d)'
           n == Cardinality(old)
           m == Cardinality(new)
           o == One(AtRest(d))
           oo == One(AtRest(d)')
           v == overtaken[d]
           vv == overtaken'[d]
<1>1. /\ IsFiniteSet(old) /\ n \in Nat /\ IsFiniteSet(new) /\ m \in Nat /\ v \in Nat /\ vv \in Nat
      /\ v <= vv /\ n + o <= 1 + v
  BY SendersFinite DEF SendInv, SendersCounted
<1>2. o \in {0, 1} /\ oo \in {0, 1} /\ (AtRest(d) => o = 1) /\ (~AtRest(d)' => oo = 0)
      /\ ((AtRest(d)' => AtRest(d)) => oo <= o)
  <2>1. o = (IF AtRest(d) THEN 1 ELSE 0) /\ oo = IF AtRest(d)' THEN 1 ELSE 0
    BY DEF One
  <2> QED
    BY <2>1
<1>3. n = 0 <=> old = {}
  BY <1>1, FS_EmptySet
<1> HIDE DEF old, new, n, m, o, oo, v, vv
<1>4. CASE new \subseteq old /\ (AtRest(d)' => AtRest(d))
  <2>1. m <= n
    BY <1>1, <1>4, FS_Subset DEF n, m
  <2>2. oo <= o
    BY <1>2, <1>4, Zenon
  <2>3. m + oo <= 1 + vv
    BY <1>1, <1>2, <2>1, <2>2
  <2> QED
    BY <2>3 DEF m, new, oo, vv
<1>5. ASSUME NEW u \in old, new \subseteq old \ {u} PROVE m + oo <= 1 + vv
  <2>1. IsFiniteSet(old \ {u}) /\ Cardinality(old \ {u}) = n - 1
    BY <1>1, FS_RemoveElement DEF n
  <2>2. m <= n - 1
    BY <1>5, <2>1, FS_Subset DEF m
  <2> QED
    BY <1>1, <1>2, <2>2
<1>6. ASSUME ~AtRest(d)', AtRest(d) \/ old = {}, NEW u \in Units, new \subseteq old \cup {u}
      PROVE  m + oo <= 1 + vv
  <2>1. IsFiniteSet(old \cup {u}) /\ Cardinality(old \cup {u}) <= n + 1
    <3>1. /\ IsFiniteSet(old \cup {u})
          /\ Cardinality(old \cup {u}) = n \/ Cardinality(old \cup {u}) = n + 1
      BY <1>1, FS_AddElement DEF n
    <3> QED
      BY <1>1, <3>1
  <2>2. m <= n + 1
    <3>1. m <= Cardinality(old \cup {u}) /\ Cardinality(old \cup {u}) \in Nat
      BY <1>6, <2>1, FS_Subset, FS_CardinalityType DEF m
    <3> QED
      BY <1>1, <2>1, <3>1
  <2>3. n + 1 <= 1 + vv
    BY <1>1, <1>2, <1>3, <1>6
  <2> QED
    BY <1>1, <1>2, <1>6, <2>2, <2>3
<1>7. CASE new \subseteq old /\ (old = {} \/ vv = v + 1)
  <2>1. m <= n
    BY <1>1, <1>7, FS_Subset DEF n, m
  <2>2. m + oo <= 1 + vv
    BY <1>1, <1>2, <1>3, <1>7, <2>1
  <2> QED
    BY <2>2 DEF m, new, oo, vv
<1> QED
  BY <1>4, <1>5, <1>6, <1>7 DEF old, new, m, oo, v, vv

\* A unit takes on a row at rest, or one that nobody carries, and writes it pending.
LEMMA OweSafe ==
    ASSUME SendInv, NEW u \in Units, NEW d \in Ids, NEW n \in Nat, Free(u),
           AtRest(d) \/ Senders(d) = {}, overtaken' = overtaken,
           rows' = Update(d, "pending", n, "null"), unit' = Owe(u, d, "send"), UNCHANGED poolVars
    PROVE  SendInv'
<1> DEFINE x == [FreeUnit EXCEPT !.row = d, !.stage = "send"]
           r == [status |-> "pending", retry |-> n, next |-> "null", age |-> 0]
<1>1. /\ x \in Unit /\ x.row = d /\ x.stage = "send" /\ x.spent = 0 /\ x.tries = 0
  BY FreeTyped DEF Unit, FreeUnit
<1>2. r \in Row /\ r.status = "pending" /\ r.retry = n /\ r.next = "null" /\ r.age = 0
  BY DeliveryAssumption DEF Row, Statuses
<1>3. /\ unit' = [unit EXCEPT ![u] = x] /\ rows' = [rows EXCEPT ![d] = r]
      /\ unit \in [Units -> Unit] /\ rows \in [Ids -> Row]
      /\ place' = place /\ line' = line /\ inflight' = inflight
  BY DEF Owe, Update, SendInv, poolVars
<1> HIDE DEF x, r
<1>4. /\ unit' \in [Units -> Unit] /\ rows' \in [Ids -> Row]
      /\ \A v \in Units : unit'[v] = IF v = u THEN x ELSE unit[v]
      /\ \A e \in Ids : rows'[e] = IF e = d THEN r ELSE rows[e]
  BY <1>1, <1>2, <1>3
<1>5. \A v \in Units, e \in Ids : Carries(v, e)' <=> (v = u /\ e = d) \/ (v # u /\ Carries(v, e))
  BY <1>1, <1>4 DEF Carries, Free
<1>6. PoolExact'
  BY <1>3 DEF SendInv, PoolExact, PoolTypeOK, TicketsExact, LineExact, In
<1>7. UnitsPlaced'
  <2> SUFFICES ASSUME NEW v \in Units
               PROVE  /\ Free(v)' => place'[v] = "none"
                      /\ ~Executing(v)' => unit'[v].spent = 0
                      /\ unit'[v].stage \in {"create", "write"} => unit'[v].row # NoRow
                      /\ unit'[v].stage \in {"create", "send"} =>
                            unit'[v].tries < IF unit'[v].row \in LocalIds THEN 1 ELSE MaxAttempts
    BY DEF UnitsPlaced
  <2>1. CASE v = u
    BY <1>1, <1>3, <1>4, <2>1, DeliveryAssumption DEF SendInv, UnitsPlaced, Free, Executing
  <2>2. CASE v # u
    BY <1>3, <1>4, <2>2 DEF SendInv, UnitsPlaced, Free, Executing
  <2> QED
    BY <2>1, <2>2
<1>8. SendersBacked'
  <2>1. \A e \in Ids : rows'[e].next # "null" => rows'[e].status = "failed"
    BY <1>2, <1>4 DEF SendInv, SendersBacked
  <2>2. ASSUME NEW v \in Units, NEW e \in Ids, Carries(v, e)', unit'[v].stage = "create"
        PROVE  rows'[e].status = "none" /\ Senders(e)' = {v}
    <3>1. v # u /\ Carries(v, e) /\ unit[v].stage = "create"
      BY <1>1, <1>4, <1>5, <2>2
    <3>2. rows[e].status = "none" /\ Senders(e) = {v}
      BY <3>1 DEF SendInv, SendersBacked
    <3>3. e # d
      BY <3>2 DEF AtRest
    <3>4. \A w \in Units : Carries(w, e) <=> w = v
      BY <3>2 DEF Senders
    <3>5. \A w \in Units : Carries(w, e)' <=> w = v
      BY <1>5, <3>1, <3>3, <3>4
    <3> QED
      BY <1>4, <3>2, <3>3, <3>5 DEF Senders
  <2> QED
    BY <2>1, <2>2 DEF SendersBacked
<1>9. SendersCounted'
  <2> SUFFICES ASSUME NEW e \in Ids
               PROVE  Cardinality(Senders(e)') + One(AtRest(e)') <= 1 + overtaken'[e]
    BY DEF SendersCounted
  <2>0. overtaken'[e] \in Nat /\ overtaken[e] <= overtaken'[e]
    BY DEF SendInv
  <2>1. CASE e = d
    <3>1. ~AtRest(d)' /\ Senders(d)' \subseteq Senders(d) \cup {u}
      BY <1>2, <1>4, <1>5 DEF AtRest, Senders
    <3> QED
      BY <2>0, <2>1, <3>1, CountKept
  <2>2. CASE e # d
    <3>1. (AtRest(e)' => AtRest(e)) /\ Senders(e)' \subseteq Senders(e)
      BY <1>4, <1>5, <2>2 DEF AtRest, Senders
    <3> QED
      BY <2>0, <3>1, CountKept
  <2> QED
    BY <2>1, <2>2
<1>10. WaitsBounded'
  <2> SUFFICES ASSUME NEW v \in Units, NEW e \in Ids, Carries(v, e)', rows'[e].status = "pending"
               PROVE  OnTime(v, e)'
    BY DEF WaitsBounded
  <2>1. CASE e = d
    <3>1. rows'[d].age = 0
      BY <1>2, <1>4
    <3> QED
      BY <1>4, <1>6, <2>1, <3>1, OnTimeFresh
  <2>2. CASE e # d
    <3>1. v # u /\ Carries(v, e)
      BY <1>5, <2>2
    <3>2. OnTime(v, e)
      BY <1>4, <2>2, <3>1 DEF SendInv, WaitsBounded
    <3>3. \A w \in Units : place'[w] = "running" =>
              place[w] = "running" /\ unit'[w].spent = unit[w].spent
      BY <1>3, <1>4 DEF SendInv, UnitsPlaced
    <3> QED
      BY <1>3, <1>4, <2>2, <3>1, <3>2, <3>3, OnTimeKept
  <2> QED
    BY <2>1, <2>2
<1> QED
  BY <1>4, <1>6, <1>7, <1>8, <1>9, <1>10 DEF SendInv

\* dispatch_event owes a row that is not written yet.
LEMMA DispatchEventSafe ==
    ASSUME SendInv, NEW u \in Units, NEW d \in Ids, DispatchEvent(u, d)
    PROVE  SendInv'
<1> DEFINE x == [FreeUnit EXCEPT !.row = d, !.stage = "create"]
<1>1. /\ x \in Unit /\ x.row = d /\ x.stage = "create" /\ x.spent = 0 /\ x.tries = 0
  BY FreeTyped DEF Unit, FreeUnit
<1>2. /\ unit' = [unit EXCEPT ![u] = x] /\ rows' = rows
      /\ unit \in [Units -> Unit] /\ rows \in [Ids -> Row]
      /\ place' = place /\ line' = line /\ inflight' = inflight
      /\ Free(u) /\ rows[d].status = "none" /\ Senders(d) = {} /\ overtaken' = overtaken
  BY DEF DispatchEvent, Fresh, Owe, SendInv, poolVars
<1> HIDE DEF x
<1>3. /\ unit' \in [Units -> Unit] /\ \A v \in Units : unit'[v] = IF v = u THEN x ELSE unit[v]
  BY <1>1, <1>2
<1>4. \A v \in Units, e \in Ids : Carries(v, e)' <=> (v = u /\ e = d) \/ (v # u /\ e # d /\ Carries(v, e))
  <2>1. \A v \in Units : ~Carries(v, d)
    BY <1>2 DEF Senders
  <2> QED
    BY <1>1, <1>2, <1>3, <2>1 DEF Carries, Free
<1>5. PoolExact'
  BY <1>2 DEF SendInv, PoolExact, PoolTypeOK, TicketsExact, LineExact, In
<1>6. UnitsPlaced'
  <2> SUFFICES ASSUME NEW v \in Units
               PROVE  /\ Free(v)' => place'[v] = "none"
                      /\ ~Executing(v)' => unit'[v].spent = 0
                      /\ unit'[v].stage \in {"create", "write"} => unit'[v].row # NoRow
                      /\ unit'[v].stage \in {"create", "send"} =>
                            unit'[v].tries < IF unit'[v].row \in LocalIds THEN 1 ELSE MaxAttempts
    BY DEF UnitsPlaced
  <2>1. CASE v = u
    BY <1>1, <1>2, <1>3, <2>1, DeliveryAssumption DEF SendInv, UnitsPlaced, Free, Executing
  <2>2. CASE v # u
    BY <1>2, <1>3, <2>2 DEF SendInv, UnitsPlaced, Free, Executing
  <2> QED
    BY <2>1, <2>2
<1>7. SendersBacked'
  <2>1. ASSUME NEW v \in Units, NEW e \in Ids, Carries(v, e)', unit'[v].stage = "create"
        PROVE  rows'[e].status = "none" /\ Senders(e)' = {v}
    <3>1. CASE v = u /\ e = d
      BY <1>2, <1>4, <3>1 DEF Senders
    <3>2. CASE v # u /\ e # d /\ Carries(v, e)
      <4>1. rows[e].status = "none" /\ Senders(e) = {v}
        BY <1>3, <2>1, <3>2 DEF SendInv, SendersBacked
      <4> QED
        BY <1>2, <1>4, <3>2, <4>1 DEF Senders
    <3> QED
      BY <1>4, <2>1, <3>1, <3>2
  <2> QED
    BY <1>2, <2>1 DEF SendInv, SendersBacked
<1>8. SendersCounted'
  <2> SUFFICES ASSUME NEW e \in Ids
               PROVE  Cardinality(Senders(e)') + One(AtRest(e)') <= 1 + overtaken'[e]
    BY DEF SendersCounted
  <2>0. overtaken'[e] \in Nat /\ overtaken[e] <= overtaken'[e]
    BY <1>2 DEF SendInv
  <2>1. CASE e = d
    <3>1. ~AtRest(d)' /\ Senders(d)' \subseteq Senders(d) \cup {u}
      BY <1>2, <1>4 DEF AtRest, Senders
    <3> QED
      BY <1>2, <2>0, <2>1, <3>1, CountKept
  <2>2. CASE e # d
    <3>1. (AtRest(e)' => AtRest(e)) /\ Senders(e)' \subseteq Senders(e)
      BY <1>2, <1>4, <2>2 DEF AtRest, Senders
    <3> QED
      BY <2>0, <3>1, CountKept
  <2> QED
    BY <2>1, <2>2
<1>9. WaitsBounded'
  <2> SUFFICES ASSUME NEW v \in Units, NEW e \in Ids, Carries(v, e)', rows'[e].status = "pending"
               PROVE  OnTime(v, e)'
    BY DEF WaitsBounded
  <2>1. v # u /\ Carries(v, e)
    BY <1>2, <1>4
  <2>2. OnTime(v, e)
    BY <1>2, <2>1 DEF SendInv, WaitsBounded
  <2>3. \A w \in Units : place'[w] = "running" =>
            place[w] = "running" /\ unit'[w].spent = unit[w].spent
    BY <1>2, <1>3 DEF SendInv, UnitsPlaced
  <2> QED
    BY <1>2, <1>3, <2>1, <2>2, <2>3, OnTimeKept
<1> QED
  BY <1>2, <1>3, <1>5, <1>6, <1>7, <1>8, <1>9 DEF SendInv

\* A unit goes on with what it carries, or goes on without a row.
LEMMA OwnStepSafe ==
    ASSUME SendInv, NEW u \in Units, NEW x \in Unit, unit' = [unit EXCEPT ![u] = x],
           UNCHANGED <<poolVars, rows, overtaken>>,
           ~Free(u), x.stage \in {"send", "log", "write"}, x.spent = unit[u].spent,
           x.row = NoRow \/ (x.row = unit[u].row /\ unit[u].stage # "create"),
           x.stage = "send" => x.tries < IF x.row \in LocalIds THEN 1 ELSE MaxAttempts,
           x.stage = "write" => x.row # NoRow
    PROVE  SendInv'
<1>1. /\ unit \in [Units -> Unit] /\ rows \in [Ids -> Row] /\ rows' = rows
      /\ place' = place /\ line' = line /\ inflight' = inflight
      /\ unit' \in [Units -> Unit] /\ \A v \in Units : unit'[v] = IF v = u THEN x ELSE unit[v]
  BY DEF SendInv, poolVars
<1>2. NoRow \notin Ids
  BY DeliveryAssumption
<1>3. \A v \in Units, e \in Ids :
         Carries(v, e)' => Carries(v, e) /\ (v = u => x.row = e /\ unit[u].stage # "create")
  BY <1>1, <1>2 DEF Carries, Free
<1>4. PoolExact'
  BY <1>1, ZenonT(60) DEF SendInv, PoolExact, PoolTypeOK, TicketsExact, LineExact, In
<1>5. UnitsPlaced'
  <2> SUFFICES ASSUME NEW v \in Units
               PROVE  /\ Free(v)' => place'[v] = "none"
                      /\ ~Executing(v)' => unit'[v].spent = 0
                      /\ unit'[v].stage \in {"create", "write"} => unit'[v].row # NoRow
                      /\ unit'[v].stage \in {"create", "send"} =>
                            unit'[v].tries < IF unit'[v].row \in LocalIds THEN 1 ELSE MaxAttempts
    BY DEF UnitsPlaced
  <2>1. CASE v = u
    BY <1>1, <2>1 DEF SendInv, UnitsPlaced, Free, Executing
  <2>2. CASE v # u
    BY <1>1, <2>2 DEF SendInv, UnitsPlaced, Free, Executing
  <2> QED
    BY <2>1, <2>2
<1>6. SendersBacked'
  <2>1. ASSUME NEW v \in Units, NEW e \in Ids, Carries(v, e)', unit'[v].stage = "create"
        PROVE  rows'[e].status = "none" /\ Senders(e)' = {v}
    <3>1. v # u /\ Carries(v, e) /\ unit[v].stage = "create"
      BY <1>1, <1>3, <2>1
    <3>2. rows[e].status = "none" /\ Senders(e) = {v}
      BY <3>1 DEF SendInv, SendersBacked
    <3> QED
      BY <1>1, <1>3, <2>1, <3>2 DEF Senders
  <2> QED
    BY <1>1, <2>1 DEF SendInv, SendersBacked
<1>7. SendersCounted'
  <2> SUFFICES ASSUME NEW e \in Ids
               PROVE  Cardinality(Senders(e)') + One(AtRest(e)') <= 1 + overtaken'[e]
    BY DEF SendersCounted
  <2>1. overtaken'[e] \in Nat /\ overtaken[e] <= overtaken'[e]
    BY DEF SendInv
  <2>2. (AtRest(e)' => AtRest(e)) /\ Senders(e)' \subseteq Senders(e)
    BY <1>1, <1>3 DEF AtRest, Senders
  <2> QED
    BY <2>1, <2>2, CountKept
<1>8. WaitsBounded'
  <2> SUFFICES ASSUME NEW v \in Units, NEW e \in Ids, Carries(v, e)', rows'[e].status = "pending"
               PROVE  OnTime(v, e)'
    BY DEF WaitsBounded
  <2>1. OnTime(v, e)
    BY <1>1, <1>3 DEF SendInv, WaitsBounded
  <2>2. \A w \in Units : unit'[w].spent = unit[w].spent
    BY <1>1
  <2> QED
    BY <1>1, <2>1, <2>2, OnTimeKept
<1> QED
  BY <1>1, <1>4, <1>5, <1>6, <1>7, <1>8 DEF SendInv

LEMMA AttemptSafe ==
    ASSUME SendInv, NEW u \in Units, Attempt(u)
    PROVE  SendInv'
<1>1. PICK answer \in {"ok", "transient", "permanent"} :
         unit' = [unit EXCEPT ![u] = AfterAttempt(u, answer)]
  BY DEF Attempt
<1>2. unit[u].stage = "send" /\ UNCHANGED <<poolVars, rows, overtaken>> /\ unit[u] \in Unit
  BY DEF Attempt, SendInv
<1> DEFINE limit == IF unit[u].row \in LocalIds THEN 1 ELSE MaxAttempts
           x == AfterAttempt(u, answer)
<1>3. limit \in Nat /\ limit <= MaxAttempts /\ MaxAttempts \in Nat
  BY DeliveryAssumption
<1>4. unit[u].tries \in Nat /\ unit[u].tries < limit
  BY <1>2, UnitFields DEF SendInv, UnitsPlaced
<1>5. LastTry(u) <=> unit[u].tries + 1 = limit
  BY DEF LastTry
<1> HIDE DEF limit
<1>6. /\ x \in Unit /\ x.row = unit[u].row /\ x.spent = unit[u].spent
      /\ x.tries = unit[u].tries + 1
      /\ x.stage = "log" \/ (x.stage = "send" /\ ~LastTry(u))
  <2>1. unit[u].tries + 1 \in 0..MaxAttempts
    BY <1>3, <1>4
  <2>2. \/ x = [unit[u] EXCEPT !.tries = @ + 1, !.stage = "log", !.verdict = "delivered"]
        \/ x = [unit[u] EXCEPT !.tries = @ + 1, !.stage = "log", !.verdict = "dead"]
        \/ x = [unit[u] EXCEPT !.tries = @ + 1, !.stage = "log", !.verdict = "failed"]
        \/ x = [unit[u] EXCEPT !.tries = @ + 1] /\ ~LastTry(u)
    BY DEF AfterAttempt
  <2> HIDE DEF x
  <2> QED
    BY <1>2, <2>1, <2>2 DEF Unit
<1> HIDE DEF x
<1>7. x.stage = "send" => x.tries < limit
  BY <1>3, <1>4, <1>5, <1>6
<1>8. x.stage = "send" => x.tries < IF x.row \in LocalIds THEN 1 ELSE MaxAttempts
  BY <1>6, <1>7 DEF limit
<1>9. unit' = [unit EXCEPT ![u] = x] /\ ~Free(u) /\ unit[u].stage # "create"
  BY <1>1, <1>2 DEF x, Free
<1> QED
  BY <1>2, <1>6, <1>8, <1>9, OwnStepSafe

LEMMA FailReadSafe ==
    ASSUME SendInv, NEW u \in Units, FailRead(u)
    PROVE  SendInv'
<1> DEFINE x == [unit[u] EXCEPT !.stage = "write", !.read = rows[unit[u].row].retry]
<1>1. /\ unit' = [unit EXCEPT ![u] = x]
      /\ unit[u].stage = "log" /\ unit[u].row # NoRow /\ UNCHANGED <<poolVars, rows, overtaken>>
      /\ unit[u] \in Unit /\ unit[u].row \in Ids /\ rows[unit[u].row].retry \in Nat
  <2>1. unit' = [unit EXCEPT ![u] = x]
    BY DEF FailRead
  <2>2. unit[u].stage = "log" /\ unit[u].row # NoRow /\ UNCHANGED <<poolVars, rows, overtaken>>
    BY DEF FailRead
  <2>3. unit[u] \in Unit /\ unit[u].row \in Ids
    BY <2>2, UnitFields DEF SendInv
  <2> QED
    BY <2>1, <2>2, <2>3, RowFields DEF SendInv
<1>2. /\ x \in Unit /\ x.row = unit[u].row /\ x.spent = unit[u].spent
      /\ x.stage = "write" /\ x.read = rows[unit[u].row].retry
  BY <1>1 DEF Unit
<1> HIDE DEF x
<1> QED
  BY <1>1, <1>2, OwnStepSafe DEF Free

LEMMA CreateRowSafe ==
    ASSUME SendInv, NEW u \in Units, CreateRow(u)
    PROVE  SendInv'
<1>1. /\ Executing(u) /\ unit[u].stage = "create" /\ ~Free(u) /\ unit[u] \in Unit
      /\ unit[u].row \in Ids
      /\ place' = place /\ line' = line /\ inflight' = inflight /\ overtaken' = overtaken
      /\ unit \in [Units -> Unit] /\ rows \in [Ids -> Row]
  BY UnitFields DEF CreateRow, Free, SendInv, UnitsPlaced, poolVars
<1>2. ASSUME unit' = [unit EXCEPT ![u].stage = "send", ![u].row = NoRow], rows' = rows
      PROVE  SendInv'
  <2> DEFINE x == [unit[u] EXCEPT !.stage = "send", !.row = NoRow]
  <2>1. /\ x \in Unit /\ x.row = NoRow /\ x.spent = unit[u].spent /\ x.stage = "send"
        /\ x.tries = unit[u].tries
    BY <1>1 DEF Unit
  <2>2. unit[u].tries \in Nat /\ x.tries < MaxAttempts /\ NoRow \notin LocalIds
    BY <1>1, <2>1, UnitFields, DeliveryAssumption DEF SendInv, UnitsPlaced
  <2>3. unit' = [unit EXCEPT ![u] = x]
    BY <1>2
  <2> HIDE DEF x
  <2> QED
    BY <1>1, <1>2, <2>1, <2>2, <2>3, OwnStepSafe DEF poolVars
<1>3. ASSUME rows' = Update(unit[u].row, "pending", 0, "null"),
             unit' = [unit EXCEPT ![u].stage = "send"]
      PROVE  SendInv'
  <2> DEFINE x == [unit[u] EXCEPT !.stage = "send"]
             r == [status |-> "pending", retry |-> 0, next |-> "null", age |-> 0]
  <2> PICK d \in Ids : d = unit[u].row
    BY <1>1
  <2>1. /\ x \in Unit /\ x.row = d /\ x.stage = "send" /\ x.spent = unit[u].spent
        /\ x.tries = unit[u].tries
    BY <1>1 DEF Unit
  <2>2. r \in Row /\ r.status = "pending" /\ r.retry = 0 /\ r.next = "null" /\ r.age = 0
    BY DeliveryAssumption DEF Row, Statuses
  <2>3. unit' = [unit EXCEPT ![u] = x] /\ rows' = [rows EXCEPT ![d] = r]
    BY <1>3 DEF Update
  <2> HIDE DEF x, r
  <2>4. /\ unit' \in [Units -> Unit] /\ rows' \in [Ids -> Row]
        /\ \A v \in Units : unit'[v] = IF v = u THEN x ELSE unit[v]
        /\ \A e \in Ids : rows'[e] = IF e = d THEN r ELSE rows[e]
    BY <1>1, <2>1, <2>2, <2>3
  <2>5. Carries(u, d)
    BY <1>1 DEF Carries
  <2>6. \A v \in Units, e \in Ids :
           Carries(v, e)' <=> (v = u /\ e = d) \/ (v # u /\ e # d /\ Carries(v, e))
    <3>1. \A v \in Units : Carries(v, d) => v = u
      BY <1>1, <2>5 DEF SendInv, SendersBacked, Senders
    <3> QED
      BY <1>1, <2>1, <2>4, <3>1 DEF Carries, Free
  <2>7. PoolExact'
    BY <1>1 DEF SendInv, PoolExact, PoolTypeOK, TicketsExact, LineExact, In
  <2>8. UnitsPlaced'
    <3> SUFFICES ASSUME NEW v \in Units
                 PROVE  /\ Free(v)' => place'[v] = "none"
                        /\ ~Executing(v)' => unit'[v].spent = 0
                        /\ unit'[v].stage \in {"create", "write"} => unit'[v].row # NoRow
                        /\ unit'[v].stage \in {"create", "send"} =>
                              unit'[v].tries < IF unit'[v].row \in LocalIds THEN 1 ELSE MaxAttempts
      BY DEF UnitsPlaced
    <3>1. CASE v = u
      BY <1>1, <2>1, <2>4, <3>1 DEF SendInv, UnitsPlaced, Free, Executing
    <3>2. CASE v # u
      BY <1>1, <2>4, <3>2 DEF SendInv, UnitsPlaced, Free, Executing
    <3> QED
      BY <3>1, <3>2
  <2>9. SendersBacked'
    <3>1. \A e \in Ids : rows'[e].next # "null" => rows'[e].status = "failed"
      BY <2>2, <2>4 DEF SendInv, SendersBacked
    <3>2. ASSUME NEW v \in Units, NEW e \in Ids, Carries(v, e)', unit'[v].stage = "create"
          PROVE  rows'[e].status = "none" /\ Senders(e)' = {v}
      <4>1. v # u /\ e # d /\ Carries(v, e) /\ unit[v].stage = "create"
        BY <2>1, <2>4, <2>6, <3>2
      <4>2. rows[e].status = "none" /\ Senders(e) = {v}
        BY <4>1 DEF SendInv, SendersBacked
      <4> QED
        BY <2>4, <2>6, <4>1, <4>2 DEF Senders
    <3> QED
      BY <3>1, <3>2 DEF SendersBacked
  <2>10. SendersCounted'
    <3> SUFFICES ASSUME NEW e \in Ids
                 PROVE  Cardinality(Senders(e)') + One(AtRest(e)') <= 1 + overtaken'[e]
      BY DEF SendersCounted
    <3>1. overtaken'[e] \in Nat /\ overtaken[e] <= overtaken'[e]
      BY <1>1 DEF SendInv
    <3>2. (AtRest(e)' => AtRest(e)) /\ Senders(e)' \subseteq Senders(e)
      BY <2>2, <2>4, <2>5, <2>6 DEF AtRest, Senders
    <3> QED
      BY <3>1, <3>2, CountKept
  <2>11. WaitsBounded'
    <3> SUFFICES ASSUME NEW v \in Units, NEW e \in Ids, Carries(v, e)', rows'[e].status = "pending"
                 PROVE  OnTime(v, e)'
      BY DEF WaitsBounded
    <3>1. CASE v = u /\ e = d
      <4>1. \A i \in 1..Len(line) : line[i] # u
        BY <1>1, InLine DEF SendInv, PoolExact, Executing
      <4>2. place[u] \notin {"none", "spawning"}
        BY <1>1 DEF Executing
      <4>3. rows'[d].age + SendTicks <= Rounds(Cardinality(Units)) + unit'[u].spent
        <5>1. rows'[d].age = 0 /\ unit'[u].spent \in Nat
          BY <1>1, <2>1, <2>2, <2>4, UnitFields
        <5> QED
          BY <5>1, Longest
      <4> QED
        BY <1>1, <3>1, <4>1, <4>2, <4>3 DEF OnTime, Executing
    <3>2. CASE v # u /\ e # d /\ Carries(v, e)
      <4>1. OnTime(v, e)
        BY <2>4, <3>2 DEF SendInv, WaitsBounded
      <4>2. \A w \in Units : unit'[w].spent = unit[w].spent
        BY <2>1, <2>4
      <4> QED
        BY <1>1, <2>4, <3>2, <4>1, <4>2, OnTimeKept
    <3> QED
      BY <2>6, <3>1, <3>2
  <2> QED
    BY <1>1, <2>4, <2>7, <2>8, <2>9, <2>10, <2>11 DEF SendInv
<1> QED
  BY <1>2, <1>3 DEF CreateRow

\* The pool moves a unit; what it carries, and every row, stay.
LEMMA PoolMoveSafe ==
    ASSUME SendInv, NEW u \in Units, NEW p, place' = [place EXCEPT ![u] = p],
           UNCHANGED <<rows, unit, overtaken>>, PoolExact', ~Free(u), ~Executing(u),
           \A v \in Units, e \in Ids :
              OnTime(v, e) /\ Carries(v, e) /\ rows[e].status = "pending" => OnTime(v, e)'
    PROVE  SendInv'
<1>1. /\ unit \in [Units -> Unit] /\ rows \in [Ids -> Row] /\ rows' = rows /\ unit' = unit
      /\ overtaken' = overtaken
      /\ place \in [Units -> Places]
      /\ \A v \in Units : place'[v] = IF v = u THEN p ELSE place[v]
  BY DEF SendInv, PoolExact, PoolTypeOK
<1>2. UnitsPlaced'
  BY <1>1 DEF SendInv, UnitsPlaced, Free, Executing
<1>3. SendersBacked' /\ SendersCounted'
  BY <1>1 DEF SendInv, SendersBacked, SendersCounted, Senders, AtRest, Carries, Free
<1>4. WaitsBounded'
  <2> SUFFICES ASSUME NEW v \in Units, NEW e \in Ids, Carries(v, e)', rows'[e].status = "pending"
               PROVE  OnTime(v, e)'
    BY DEF WaitsBounded
  <2>1. Carries(v, e) /\ rows[e].status = "pending"
    BY <1>1 DEF Carries, Free
  <2> QED
    BY <2>1 DEF SendInv, WaitsBounded
<1> QED
  BY <1>1, <1>2, <1>3, <1>4 DEF SendInv

LEMMA HandSafe ==
    ASSUME SendInv, NEW u \in Units, Hand(u)
    PROVE  SendInv'
<1> DEFINE p == Placement(inflight)
<1>1. p \in {"spawning", "inline"}
  BY DEF Placement
<1> HIDE DEF p
<1>2. /\ place \in [Units -> Places] /\ place[u] = "none" /\ place' = [place EXCEPT ![u] = p]
      /\ line' = line /\ UNCHANGED <<rows, unit, overtaken>> /\ ~Free(u) /\ ~Executing(u) /\ Submit(u)
  BY DEF Hand, Submit, p, SendInv, PoolExact, PoolTypeOK, Executing
<1>3. PoolExact'
  BY <1>2, SubmitExact DEF SendInv
<1>4. \A v \in Units : place'[v] = IF v = u THEN p ELSE place[v]
  BY <1>2
<1>5. ASSUME NEW v \in Units, NEW e \in Ids, OnTime(v, e), Carries(v, e), rows[e].status = "pending"
      PROVE  OnTime(v, e)'
  <2>1. CASE v = u
    <3>1. rows'[e].age = 0
      BY <1>2, <1>5, <2>1 DEF OnTime
    <3>2. \A i \in 1..Len(line') : line'[i] # u
      BY <1>2, InLine DEF SendInv, PoolExact
    <3>3. rows'[e].age + SendTicks <= Rounds(Cardinality(Units)) + unit'[u].spent
      <4>1. unit'[u].spent \in Nat
        BY <1>2, UnitFields DEF SendInv
      <4> QED
        BY <3>1, <4>1, Longest
    <3> QED
      BY <2>1, <3>1, <3>2, <3>3 DEF OnTime
  <2>2. CASE v # u
    <3>1. \A w \in Units : place'[w] = "running" =>
              place[w] = "running" /\ unit'[w].spent = unit[w].spent
      BY <1>1, <1>2, <1>4
    <3> QED
      BY <1>2, <1>4, <1>5, <2>2, <3>1, OnTimeKept
  <2> QED
    BY <2>1, <2>2
<1> QED
  BY <1>2, <1>3, <1>5, PoolMoveSafe

LEMMA QueueSafe ==
    ASSUME SendInv, NEW u \in Units, Queue(u)
    PROVE  SendInv'
<1>1. /\ place \in [Units -> Places] /\ place[u] = "spawning"
      /\ place' = [place EXCEPT ![u] = "queued"]
      /\ rows' = rows /\ unit' = unit /\ overtaken' = overtaken /\ ~Executing(u) /\ Spawn(u) /\ ~Free(u)
      /\ line \in Seq(Units) /\ Len(line) \in Nat /\ unit \in [Units -> Unit]
  BY DEF Queue, Spawn, SendInv, PoolExact, PoolTypeOK, Executing, UnitsPlaced
<1>2. /\ PoolExact' /\ Len(line') = Len(line) + 1 /\ line'[Len(line')] = u
      /\ \A i \in 1..Len(line) : line'[i] = line[i]
  BY <1>1, SpawnExact DEF SendInv
<1>3. \A v \in Units : place'[v] = IF v = u THEN "queued" ELSE place[v]
  BY <1>1
<1>4. In({"running"})' = In({"running"})
  BY <1>1, <1>3 DEF In
<1>5. \A i \in 1..Len(line') : i \in 1..Len(line) \/ i = Len(line')
  BY <1>1, <1>2
<1>6. Len(line') = Cardinality(In({"queued"})') /\ Len(line') \in Nat
  BY <1>1, <1>2 DEF PoolExact, LineExact
<1>7. Len(line') <= Cardinality(Units)
  <2>1. In({"queued"})' \in SUBSET Units
    BY DEF In
  <2> QED
    BY <1>6, <2>1, PoolAssumption, FS_Subset
<1>8. ASSUME NEW w \in In({"running"})
      PROVE  Len(line') + 1 <= Cardinality(Units)
  <2>1. w \in Units /\ w \notin In({"queued"})'
    BY <1>1, <1>3, <1>8 DEF In
  <2>2. In({"queued"})' \in SUBSET (Units \ {w})
    BY <2>1 DEF In
  <2>3. IsFiniteSet(Units \ {w}) /\ Cardinality(Units \ {w}) = Cardinality(Units) - 1
    BY <2>1, PoolAssumption, FS_RemoveElement
  <2>4. Cardinality(In({"queued"})') <= Cardinality(Units) - 1
    BY <2>2, <2>3, FS_Subset
  <2> QED
    BY <1>6, <2>4, Longest
<1>9. ASSUME NEW v \in Units, NEW e \in Ids, OnTime(v, e), Carries(v, e), rows[e].status = "pending"
      PROVE  OnTime(v, e)'
  <2>1. CASE v = u
    <3>1. rows'[e].age = 0
      BY <1>1, <1>9, <2>1 DEF OnTime
    <3>2. \A i \in 1..Len(line') : line'[i] = u => i = Len(line')
      BY <1>1, <1>2, <1>5, InLine DEF SendInv, PoolExact
    <3>3. rows'[e].age + Rounds(Len(line')) <= Rounds(Cardinality(Units))
      <4>1. Rounds(Len(line')) \in Nat /\ Rounds(Len(line')) <= Rounds(Cardinality(Units))
        BY <1>6, <1>7, RoundsCount, Longest
      <4> QED
        BY <3>1, <4>1
    <3>4. ASSUME NEW w \in In({"running"})'
          PROVE  rows'[e].age + Rounds(Len(line') + 1) <= Rounds(Cardinality(Units)) + unit'[w].spent
      <4>1. w \in Units /\ unit'[w].spent \in Nat /\ Len(line') + 1 <= Cardinality(Units)
        BY <1>1, <1>4, <1>8, <3>4, UnitFields DEF In
      <4>2. Rounds(Len(line') + 1) <= Rounds(Cardinality(Units)) /\ Rounds(Len(line') + 1) \in Nat
        BY <1>6, <4>1, RoundsCount, Longest
      <4> QED
        BY <3>1, <4>1, <4>2, Longest
    <3>5. place'[u] = "queued"
      BY <1>3
    <3> QED
      BY <2>1, <3>2, <3>3, <3>4, <3>5 DEF OnTime, Executing
  <2>2. CASE v # u
    <3>1. \A i \in 1..Len(line') : line'[i] = v => i \in 1..Len(line) /\ line[i] = v
      BY <1>2, <1>5, <2>2
    <3> QED
      BY <1>1, <1>3, <1>4, <1>9, <2>2, <3>1 DEF OnTime, Executing
  <2> QED
    BY <2>1, <2>2
<1> QED
  BY <1>1, <1>2, <1>9, PoolMoveSafe

LEMMA StartSafe ==
    ASSUME SendInv, NEW u \in Units, Start(u)
    PROVE  SendInv'
<1>1. /\ place \in [Units -> Places] /\ place' = [place EXCEPT ![u] = "running"]
      /\ rows' = rows /\ unit' = unit /\ overtaken' = overtaken /\ Acquire(u)
      /\ line \in Seq(Units) /\ Len(line) \in Nat
      /\ unit \in [Units -> Unit] /\ rows \in [Ids -> Row]
  BY DEF Start, Acquire, SendInv, PoolExact, PoolTypeOK
<1>2. /\ PoolExact' /\ place[u] = "queued" /\ Len(line) > 0 /\ line[1] = u
      /\ Len(line') = Len(line) - 1
      /\ \A i \in 1..Len(line') : i + 1 \in 1..Len(line) /\ line'[i] = line[i + 1]
  BY <1>1, AcquireExact DEF SendInv
<1>3. ~Free(u) /\ ~Executing(u) /\ unit[u].spent = 0
  BY <1>2 DEF SendInv, UnitsPlaced, Executing
<1>4. \A v \in Units : place'[v] = IF v = u THEN "running" ELSE place[v]
  BY <1>1
<1>5. \A w \in In({"running"})' : w \in Units /\ (w = u \/ w \in In({"running"}))
  BY <1>4 DEF In
<1>6. ASSUME NEW v \in Units, NEW e \in Ids, OnTime(v, e), Carries(v, e), rows[e].status = "pending"
      PROVE  OnTime(v, e)'
  <2>1. rows'[e].age = rows[e].age /\ rows[e].age \in Nat
    BY <1>1, RowFields
  <2>2. CASE v = u
    <3>1. \A i \in 1..Len(line') : line'[i] # u
      <4>1. place'[u] # "queued"
        BY <1>4
      <4> QED
        BY <1>2, <4>1 DEF PoolExact, LineExact
    <3>2. 1 \in 1..Len(line)
      BY <1>1, <1>2
    <3>3. rows[e].age + Rounds(1) <= Rounds(Cardinality(Units))
      BY <1>2, <1>6, <2>2, <3>2 DEF OnTime
    <3>4. rows'[e].age + SendTicks <= Rounds(Cardinality(Units)) + unit'[u].spent
      <4>1. Rounds(1) = SendTicks /\ SendTicks \in Nat /\ Rounds(Cardinality(Units)) \in Nat
        BY RoundsCount, Longest
      <4>2. rows[e].age + SendTicks <= Rounds(Cardinality(Units)) /\ unit'[u].spent = 0
        BY <1>1, <1>3, <3>3, <4>1
      <4> QED
        BY <2>1, <4>1, <4>2
    <3> QED
      BY <1>4, <2>2, <3>1, <3>4 DEF OnTime
  <2>3. CASE v # u
    <3>1. ASSUME NEW i \in 1..Len(line'), line'[i] = v
          PROVE  /\ rows'[e].age + Rounds(i) <= Rounds(Cardinality(Units))
                 /\ \A w \in In({"running"})' :
                       rows'[e].age + Rounds(i + 1) <= Rounds(Cardinality(Units)) + unit'[w].spent
      <4>1. i + 1 \in 1..Len(line) /\ line[i + 1] = v /\ i \in Nat /\ i + 1 \in Nat
        BY <1>1, <1>2, <3>1
      <4>2. rows[e].age + Rounds(i + 1) <= Rounds(Cardinality(Units))
        BY <1>6, <4>1 DEF OnTime
      <4>3. \A w \in In({"running"}) :
               rows[e].age + Rounds((i + 1) + 1) <= Rounds(Cardinality(Units)) + unit[w].spent
        BY <1>6, <4>1 DEF OnTime
      <4>4. /\ Rounds(i) \in Nat /\ Rounds(i + 1) \in Nat /\ Rounds((i + 1) + 1) \in Nat
            /\ Rounds(i) <= Rounds(i + 1) /\ Rounds(i + 1) <= Rounds((i + 1) + 1)
        BY <4>1, RoundsCount, Longest
      <4>5. rows'[e].age + Rounds(i) <= Rounds(Cardinality(Units))
        BY <2>1, <4>2, <4>4, Longest
      <4>6. ASSUME NEW w \in In({"running"})'
            PROVE  rows'[e].age + Rounds(i + 1) <= Rounds(Cardinality(Units)) + unit'[w].spent
        <5>1. CASE w = u
          BY <1>1, <1>3, <2>1, <4>2, <4>4, <5>1, Longest
        <5>2. CASE w \in In({"running"})
          <6>1. unit[w].spent \in Nat
            BY <1>1, <1>5, <4>6, UnitFields
          <6>2. rows[e].age + Rounds((i + 1) + 1) <= Rounds(Cardinality(Units)) + unit[w].spent
            BY <4>3, <5>2
          <6> DEFINE a == rows[e].age
                     m == Rounds(i + 1)
                     n == Rounds((i + 1) + 1)
                     l == Rounds(Cardinality(Units))
                     s == unit[w].spent
          <6>3. a \in Nat /\ m \in Nat /\ n \in Nat /\ l \in Nat /\ s \in Nat /\ m <= n /\ a + n <= l + s
            BY <2>1, <4>4, <6>1, <6>2, Longest
          <6> HIDE DEF a, m, n, l, s
          <6>4. a + m <= l + s
            BY <6>3
          <6>5. rows'[e].age = a /\ unit'[w].spent = s
            BY <1>1, <2>1 DEF a, s
          <6> QED
            BY <6>4, <6>5 DEF m, l
        <5> QED
          BY <1>5, <4>6, <5>1, <5>2
      <4> QED
        BY <4>5, <4>6
    <3>2. place'[v] = place[v] /\ unit'[v] = unit[v]
      BY <1>1, <1>4, <2>3
    <3> QED
      BY <1>6, <2>1, <3>1, <3>2 DEF OnTime, Executing
  <2> QED
    BY <2>2, <2>3
<1> QED
  BY <1>1, <1>2, <1>3, <1>6, PoolMoveSafe

\* A unit leaves the pool, having written the row it carried or nothing.
LEMMA LeaveSafe ==
    ASSUME SendInv, NEW u \in Units, Leave(u) \/ Unwind(u), unit' = [unit EXCEPT ![u] = FreeUnit],
           rows' \in [Ids -> Row], overtaken' = overtaken,
           \A e \in Ids : \/ rows'[e] = rows[e]
                          \/ /\ Carries(u, e) /\ rows'[e].status # "pending"
                             /\ rows'[e].next # "null" => rows'[e].status = "failed"
    PROVE  SendInv'
<1>1. /\ PoolExact' /\ line' = line /\ place' = [place EXCEPT ![u] = "none"] /\ Executing(u)
      /\ place \in [Units -> Places]
  BY LeaveExact DEF SendInv, PoolExact, PoolTypeOK
<1>2. /\ FreeUnit.stage = "free" /\ FreeUnit.spent = 0
  BY DEF FreeUnit
<1>3. /\ unit \in [Units -> Unit] /\ unit' \in [Units -> Unit]
      /\ \A v \in Units : unit'[v] = IF v = u THEN FreeUnit ELSE unit[v]
      /\ \A v \in Units : place'[v] = IF v = u THEN "none" ELSE place[v]
  BY <1>1, FreeTyped DEF SendInv
<1>4. \A v \in Units, e \in Ids : Carries(v, e)' <=> v # u /\ Carries(v, e)
  BY <1>2, <1>3 DEF Carries, Free
<1>5. UnitsPlaced'
  <2> SUFFICES ASSUME NEW v \in Units
               PROVE  /\ Free(v)' => place'[v] = "none"
                      /\ ~Executing(v)' => unit'[v].spent = 0
                      /\ unit'[v].stage \in {"create", "write"} => unit'[v].row # NoRow
                      /\ unit'[v].stage \in {"create", "send"} =>
                            unit'[v].tries < IF unit'[v].row \in LocalIds THEN 1 ELSE MaxAttempts
    BY DEF UnitsPlaced
  <2>1. CASE v = u
    BY <1>2, <1>3, <2>1
  <2>2. CASE v # u
    BY <1>3, <2>2 DEF SendInv, UnitsPlaced, Free, Executing
  <2> QED
    BY <2>1, <2>2
<1>6. SendersBacked'
  <2>1. \A e \in Ids : rows'[e].next # "null" => rows'[e].status = "failed"
    BY DEF SendInv, SendersBacked
  <2>2. ASSUME NEW v \in Units, NEW e \in Ids, Carries(v, e)', unit'[v].stage = "create"
        PROVE  rows'[e].status = "none" /\ Senders(e)' = {v}
    <3>1. v # u /\ Carries(v, e) /\ unit[v].stage = "create"
      BY <1>3, <1>4, <2>2
    <3>2. rows[e].status = "none" /\ Senders(e) = {v}
      BY <3>1 DEF SendInv, SendersBacked
    <3>3. rows'[e] = rows[e]
      BY <3>1, <3>2 DEF Senders
    <3> QED
      BY <1>4, <3>1, <3>2, <3>3 DEF Senders
  <2> QED
    BY <2>1, <2>2 DEF SendersBacked
<1>7. SendersCounted'
  <2> SUFFICES ASSUME NEW e \in Ids
               PROVE  Cardinality(Senders(e)') + One(AtRest(e)') <= 1 + overtaken'[e]
    BY DEF SendersCounted
  <2>0. overtaken'[e] \in Nat /\ overtaken[e] <= overtaken'[e]
    BY DEF SendInv
  <2>1. CASE Carries(u, e)
    <3>1. u \in Senders(e) /\ Senders(e)' \subseteq Senders(e) \ {u}
      BY <1>4, <2>1 DEF Senders
    <3> QED
      BY <2>0, <3>1, CountKept
  <2>2. CASE rows'[e] = rows[e]
    <3>1. (AtRest(e)' => AtRest(e)) /\ Senders(e)' \subseteq Senders(e)
      BY <1>4, <2>2 DEF AtRest, Senders
    <3> QED
      BY <2>0, <3>1, CountKept
  <2> QED
    BY <2>1, <2>2
<1>8. WaitsBounded'
  <2> SUFFICES ASSUME NEW v \in Units, NEW e \in Ids, Carries(v, e)', rows'[e].status = "pending"
               PROVE  OnTime(v, e)'
    BY DEF WaitsBounded
  <2>1. v # u /\ Carries(v, e) /\ rows'[e] = rows[e]
    BY <1>4
  <2>2. OnTime(v, e)
    BY <2>1 DEF SendInv, WaitsBounded
  <2>3. \A w \in Units : place'[w] = "running" =>
            place[w] = "running" /\ unit'[w].spent = unit[w].spent
    BY <1>3
  <2> QED
    BY <1>1, <1>3, <2>1, <2>2, <2>3, OnTimeKept
<1> QED
  BY <1>1, <1>3, <1>5, <1>6, <1>7, <1>8 DEF SendInv

\* A row with a sender is not stale.
LEMMA CarriedIsYoung ==
    ASSUME BacklogDrains, SendInv, NEW u \in Units, NEW d \in Ids, Carries(u, d),
           rows[d].status = "pending"
    PROVE  rows[d].age < StaleTicks
<1> DEFINE a == rows[d].age
           l == Rounds(Cardinality(Units))
<1>1. OnTime(u, d) /\ a \in Nat /\ l \in Nat /\ l < StaleTicks /\ StaleTicks \in Nat
  BY RowFields, Longest DEF SendInv, WaitsBounded, BacklogDrains
<1> HIDE DEF a, l
<1>2. place[u] \in Places
  BY DEF SendInv, PoolExact, PoolTypeOK
<1>3. CASE place[u] \in {"none", "spawning"}
  <2>1. a = 0
    BY <1>1, <1>3 DEF OnTime, a
  <2> QED
    BY <1>1, <2>1 DEF a
<1>4. CASE Executing(u)
  <2>1. a + SendTicks <= l + unit[u].spent
    BY <1>1, <1>4 DEF OnTime, a, l
  <2>2. unit[u].spent \in Nat /\ unit[u].spent <= SendTicks /\ SendTicks \in Nat
    BY UnitFields, Longest DEF SendInv
  <2>3. a <= l
    BY <1>1, <2>1, <2>2
  <2> QED
    BY <1>1, <2>3 DEF a
<1>5. CASE place[u] = "queued"
  <2>1. PICK i \in 1..Len(line) : line[i] = u
    BY <1>5 DEF SendInv, PoolExact, LineExact
  <2>2. a + Rounds(i) <= l
    BY <1>1, <2>1 DEF OnTime, a, l
  <2>3. Rounds(i) \in Nat
    <3>1. i \in Nat
      BY <2>1 DEF SendInv, PoolExact, PoolTypeOK
    <3> QED
      BY <3>1, RoundsCount
  <2> QED
    BY <1>1, <2>2, <2>3 DEF a
<1> QED
  BY <1>2, <1>3, <1>4, <1>5 DEF Places, Executing

\* The log moves on its own: a row fails or is due, and a sender it is taken from is counted.
LEMMA RowsMoveSafe ==
    ASSUME SendInv, UNCHANGED <<poolVars, unit>>, rows' \in [Ids -> Row],
           overtaken' \in [Ids -> Nat],
           \A e \in Ids :
              \/ rows'[e] = rows[e] /\ overtaken'[e] = overtaken[e]
              \/ /\ rows'[e].status = "failed" /\ rows[e].status # "none"
                 /\ overtaken[e] <= overtaken'[e]
                 /\ AtRest(e) \/ Senders(e) = {} \/ overtaken'[e] = overtaken[e] + 1
    PROVE  SendInv'
<1>1. /\ place' = place /\ line' = line /\ inflight' = inflight /\ unit' = unit
      /\ unit \in [Units -> Unit]
  BY DEF poolVars, SendInv
<1>2. \A v \in Units, e \in Ids : Carries(v, e)' <=> Carries(v, e)
  BY <1>1 DEF Carries, Free
<1>3. PoolExact' /\ UnitsPlaced'
  <2>1. PoolExact'
    BY <1>1 DEF SendInv, PoolExact, PoolTypeOK, TicketsExact, LineExact, In
  <2>2. UnitsPlaced'
    BY <1>1 DEF SendInv, UnitsPlaced, Free, Executing
  <2> QED
    BY <2>1, <2>2
<1>4. SendersBacked'
  <2>1. \A e \in Ids : rows'[e].next # "null" => rows'[e].status = "failed"
    BY DEF SendInv, SendersBacked
  <2>2. ASSUME NEW v \in Units, NEW e \in Ids, Carries(v, e)', unit'[v].stage = "create"
        PROVE  rows'[e].status = "none" /\ Senders(e)' = {v}
    <3>1. rows[e].status = "none" /\ Senders(e) = {v}
      BY <1>1, <1>2, <2>2 DEF SendInv, SendersBacked
    <3> QED
      BY <1>2, <3>1 DEF Senders
  <2> QED
    BY <2>1, <2>2 DEF SendersBacked
<1>5. SendersCounted'
  <2> SUFFICES ASSUME NEW e \in Ids
               PROVE  Cardinality(Senders(e)') + One(AtRest(e)') <= 1 + overtaken'[e]
    BY DEF SendersCounted
  <2>1. overtaken'[e] \in Nat /\ overtaken[e] \in Nat /\ overtaken[e] <= overtaken'[e]
    BY DEF SendInv
  <2>2. Senders(e)' \subseteq Senders(e)
    BY <1>2 DEF Senders
  <2>3. \/ AtRest(e)' => AtRest(e)
        \/ Senders(e) = {} \/ overtaken'[e] = overtaken[e] + 1
    BY DEF AtRest
  <2> QED
    BY <2>1, <2>2, <2>3, CountKept
<1>6. WaitsBounded'
  <2> SUFFICES ASSUME NEW v \in Units, NEW e \in Ids, Carries(v, e)', rows'[e].status = "pending"
               PROVE  OnTime(v, e)'
    BY DEF WaitsBounded
  <2>1. Carries(v, e) /\ rows'[e] = rows[e]
    BY <1>2
  <2>2. OnTime(v, e)
    BY <2>1 DEF SendInv, WaitsBounded
  <2> QED
    BY <1>1, <2>1, <2>2, OnTimeKept
<1> QED
  BY <1>1, <1>3, <1>4, <1>5, <1>6 DEF SendInv

LEMMA ReclaimSafe ==
    ASSUME SendInv, DrainReclaim
    PROVE  /\ SendInv'
           /\ \A e \in Ids :
                 \/ rows'[e] = rows[e] /\ overtaken'[e] = overtaken[e]
                 \/ /\ rows[e].status = "pending" /\ rows[e].age = StaleTicks
                    /\ rows'[e].status = "failed" /\ rows'[e].retry = rows[e].retry
                    /\ overtaken'[e] = IF Senders(e) # {} THEN overtaken[e] + 1 ELSE overtaken[e]
<1>1. /\ rows' = [e \in Ids |-> Reclaimed(e)] /\ UNCHANGED <<poolVars, unit>>
      /\ rows \in [Ids -> Row] /\ overtaken \in [Ids -> Nat]
  BY DEF DrainReclaim, SendInv
<1>2. ASSUME NEW e \in Ids
      PROVE  /\ rows'[e] \in Row
             /\ \/ rows'[e] = rows[e]
                \/ /\ rows[e].status = "pending" /\ rows[e].age = StaleTicks
                   /\ rows'[e].status = "failed" /\ rows'[e].retry = rows[e].retry
  <2> DEFINE r == [rows[e] EXCEPT !.status = "failed", !.next = "due", !.age = 0]
  <2>1. rows[e] \in Row /\ r \in Row /\ r.status = "failed" /\ r.retry = rows[e].retry
    <3>1. rows[e] \in Row /\ 0 \in 0..StaleTicks /\ "failed" \in Statuses
      BY <1>1, DeliveryAssumption DEF Statuses
    <3> QED
      BY <3>1 DEF Row
  <2>2. \/ rows'[e] = rows[e]
        \/ rows'[e] = r /\ rows[e].status = "pending" /\ rows[e].age = StaleTicks
    BY <1>1 DEF Reclaimed
  <2> HIDE DEF r
  <2> QED
    BY <2>1, <2>2
<1>3. ASSUME NEW e \in Ids
      PROVE  /\ overtaken'[e] \in Nat /\ overtaken[e] <= overtaken'[e]
             /\ overtaken'[e] = IF rows'[e] # rows[e] /\ Senders(e) # {}
                                THEN overtaken[e] + 1 ELSE overtaken[e]
  <2>1. /\ overtaken'[e] = IF rows'[e] # rows[e] /\ Senders(e) # {}
                           THEN overtaken[e] + 1 ELSE overtaken[e]
    BY <1>1 DEF DrainReclaim
  <2>2. overtaken[e] \in Nat
    BY <1>1
  <2> QED
    BY <2>1, <2>2
<1>4. rows' \in [Ids -> Row] /\ overtaken' \in [Ids -> Nat]
  <2>1. overtaken' = [e \in Ids |-> overtaken'[e]]
    BY DEF DrainReclaim
  <2> QED
    BY <1>1, <1>2, <1>3, <2>1
<1>5. \A e \in Ids :
         \/ rows'[e] = rows[e] /\ overtaken'[e] = overtaken[e]
         \/ /\ rows[e].status = "pending" /\ rows[e].age = StaleTicks
            /\ rows'[e].status = "failed" /\ rows'[e].retry = rows[e].retry
            /\ overtaken'[e] = IF Senders(e) # {} THEN overtaken[e] + 1 ELSE overtaken[e]
  BY <1>2, <1>3
<1>6. \A e \in Ids :
         \/ rows'[e] = rows[e] /\ overtaken'[e] = overtaken[e]
         \/ /\ rows'[e].status = "failed" /\ rows[e].status # "none"
            /\ overtaken[e] <= overtaken'[e]
            /\ AtRest(e) \/ Senders(e) = {} \/ overtaken'[e] = overtaken[e] + 1
  BY <1>3, <1>5
<1>7. SendInv'
  BY <1>1, <1>4, <1>6, RowsMoveSafe
<1> QED
  BY <1>5, <1>7

LEMMA BackoffSafe ==
    ASSUME SendInv, NEW d \in Ids, BackoffOver(d)
    PROVE  /\ SendInv'
           /\ \A e \in Ids : rows'[e].status = rows[e].status /\ rows'[e].retry = rows[e].retry
           /\ \A e \in Ids : rows'[e] = rows[e] \/ rows[e].status = "failed"
<1> DEFINE r == [rows[d] EXCEPT !.next = "due"]
<1>1. /\ rows' = [rows EXCEPT ![d] = r] /\ rows \in [Ids -> Row] /\ rows[d].next = "later"
      /\ UNCHANGED <<poolVars, unit, overtaken>> /\ overtaken \in [Ids -> Nat]
  BY DEF BackoffOver, SendInv
<1>2. rows[d].status = "failed"
  BY <1>1 DEF SendInv, SendersBacked
<1>3. r \in Row /\ r.status = "failed" /\ r.retry = rows[d].retry
  BY <1>1, <1>2 DEF Row
<1> HIDE DEF r
<1>4. rows' \in [Ids -> Row] /\ \A e \in Ids : rows'[e] = IF e = d THEN r ELSE rows[e]
  BY <1>1, <1>3
<1>5. \A e \in Ids : overtaken'[e] = overtaken[e] /\ overtaken[e] \in Nat
  BY <1>1
<1>6. SendInv'
  <2>1. \A e \in Ids :
           \/ rows'[e] = rows[e] /\ overtaken'[e] = overtaken[e]
           \/ /\ rows'[e].status = "failed" /\ rows[e].status # "none"
              /\ overtaken[e] <= overtaken'[e] /\ AtRest(e)
    BY <1>2, <1>3, <1>4, <1>5 DEF AtRest
  <2> QED
    BY <1>1, <1>4, <2>1, RowsMoveSafe
<1> QED
  BY <1>2, <1>3, <1>4, <1>6

\* Time passes for the rows and for the senders alike.
LEMMA TickSafe ==
    ASSUME SendInv, Tick
    PROVE  /\ SendInv'
           /\ \A e \in Ids : rows'[e].status = rows[e].status /\ rows'[e].retry = rows[e].retry
           /\ \A e \in Ids : rows'[e] = rows[e] \/ rows[e].status = "pending"
           /\ \A v \in Units, e \in Ids : Carries(v, e)' <=> Carries(v, e)
<1>1. /\ place' = place /\ line' = line /\ inflight' = inflight /\ overtaken' = overtaken
      /\ unit \in [Units -> Unit] /\ rows \in [Ids -> Row] /\ line \in Seq(Units)
      /\ \A v \in Units : Free(v) \/ place[v] \in {"queued", "running", "inline"}
      /\ line = <<>> \/ Cardinality(In({"running"})) = Concurrency
      /\ \A v \in Units : Executing(v) => unit[v].spent < SendTicks
  BY DEF Tick, poolVars, SendInv, PoolExact, PoolTypeOK
<1>2. ASSUME NEW e \in Ids
      PROVE  /\ rows'[e] \in Row
             /\ rows'[e].status = rows[e].status /\ rows'[e].retry = rows[e].retry
             /\ rows'[e].next = rows[e].next
             /\ rows'[e].age \in Nat /\ rows'[e].age <= rows[e].age + 1
             /\ rows'[e] = rows[e] \/ rows[e].status = "pending"
  <2> DEFINE r == [rows[e] EXCEPT !.age = @ + 1]
  <2>1. \/ rows'[e] = rows[e]
        \/ rows'[e] = r /\ rows[e].age < StaleTicks /\ rows[e].status = "pending"
    BY DEF Tick
  <2>2. rows[e] \in Row /\ rows[e].age \in 0..StaleTicks /\ rows[e].age \in Nat /\ StaleTicks \in Nat
    BY <1>1, RowFields, Longest
  <2>3. /\ r.status = rows[e].status /\ r.retry = rows[e].retry /\ r.next = rows[e].next
        /\ r.age = rows[e].age + 1
    BY <2>2 DEF Row
  <2>4. rows[e].age < StaleTicks => r \in Row
    <3>1. rows[e].age < StaleTicks => rows[e].age + 1 \in 0..StaleTicks
      BY <2>2
    <3> QED
      BY <2>2, <3>1 DEF Row
  <2> HIDE DEF r
  <2> QED
    BY <2>1, <2>2, <2>3, <2>4
<1>3. ASSUME NEW v \in Units
      PROVE  /\ unit'[v] \in Unit
             /\ unit'[v].row = unit[v].row /\ unit'[v].stage = unit[v].stage
             /\ unit'[v].tries = unit[v].tries /\ unit'[v].read = unit[v].read
             /\ unit'[v].spent = IF Executing(v) THEN unit[v].spent + 1 ELSE unit[v].spent
  <2> DEFINE x == [unit[v] EXCEPT !.spent = @ + 1]
  <2>1. unit'[v] = IF Executing(v) THEN x ELSE unit[v]
    BY DEF Tick
  <2>2. unit[v] \in Unit /\ unit[v].spent \in 0..SendTicks /\ unit[v].spent \in Nat /\ SendTicks \in Nat
    BY <1>1, UnitFields, Longest
  <2>3. /\ x.row = unit[v].row /\ x.stage = unit[v].stage /\ x.tries = unit[v].tries
        /\ x.read = unit[v].read /\ x.spent = unit[v].spent + 1
    BY <2>2 DEF Unit
  <2>4. Executing(v) => x \in Unit
    <3>1. Executing(v) => unit[v].spent + 1 \in 0..SendTicks
      BY <1>1, <2>2
    <3> QED
      BY <2>2, <3>1 DEF Unit
  <2> HIDE DEF x
  <2> QED
    BY <2>1, <2>2, <2>3, <2>4
<1>4. rows' \in [Ids -> Row] /\ unit' \in [Units -> Unit]
  <2>1. /\ rows' = [d \in Ids |-> rows'[d]] /\ unit' = [u \in Units |-> unit'[u]]
    BY DEF Tick
  <2> QED
    BY <1>2, <1>3, <2>1
<1>5. \A v \in Units, e \in Ids : Carries(v, e)' <=> Carries(v, e)
  BY <1>3 DEF Carries, Free
<1>6. PoolExact'
  BY <1>1 DEF SendInv, PoolExact, PoolTypeOK, TicketsExact, LineExact, In
<1>7. UnitsPlaced'
  <2> SUFFICES ASSUME NEW v \in Units
               PROVE  /\ Free(v)' => place'[v] = "none"
                      /\ ~Executing(v)' => unit'[v].spent = 0
                      /\ unit'[v].stage \in {"create", "write"} => unit'[v].row # NoRow
                      /\ unit'[v].stage \in {"create", "send"} =>
                            unit'[v].tries < IF unit'[v].row \in LocalIds THEN 1 ELSE MaxAttempts
    BY DEF UnitsPlaced
  <2> QED
    BY <1>1, <1>3 DEF SendInv, UnitsPlaced, Free, Executing
<1>8. SendersBacked'
  <2>1. \A e \in Ids : rows'[e].next # "null" => rows'[e].status = "failed"
    BY <1>2 DEF SendInv, SendersBacked
  <2>2. ASSUME NEW v \in Units, NEW e \in Ids, Carries(v, e)', unit'[v].stage = "create"
        PROVE  rows'[e].status = "none" /\ Senders(e)' = {v}
    <3>1. rows[e].status = "none" /\ Senders(e) = {v}
      BY <1>3, <1>5, <2>2 DEF SendInv, SendersBacked
    <3> QED
      BY <1>2, <1>5, <3>1 DEF Senders
  <2> QED
    BY <2>1, <2>2 DEF SendersBacked
<1>9. SendersCounted'
  <2> SUFFICES ASSUME NEW e \in Ids
               PROVE  Cardinality(Senders(e)') + One(AtRest(e)') <= 1 + overtaken'[e]
    BY DEF SendersCounted
  <2>1. overtaken'[e] \in Nat /\ overtaken[e] <= overtaken'[e]
    BY <1>1 DEF SendInv
  <2>2. (AtRest(e)' => AtRest(e)) /\ Senders(e)' \subseteq Senders(e)
    BY <1>2, <1>5 DEF AtRest, Senders
  <2> QED
    BY <2>1, <2>2, CountKept
<1>10. WaitsBounded'
  <2> SUFFICES ASSUME NEW v \in Units, NEW e \in Ids, Carries(v, e)', rows'[e].status = "pending"
               PROVE  OnTime(v, e)'
    BY DEF WaitsBounded
  <2> DEFINE a == rows[e].age
             b == rows'[e].age
             l == Rounds(Cardinality(Units))
  <2>1. Carries(v, e) /\ OnTime(v, e)
    BY <1>2, <1>5 DEF SendInv, WaitsBounded
  <2>2. a \in Nat /\ b \in Nat /\ b <= a + 1 /\ l \in Nat /\ SendTicks \in Nat
    BY <1>1, <1>2, RowFields, Longest
  <2>3. place'[v] \notin {"none", "spawning"}
    BY <1>1, <2>1 DEF Carries
  <2>4. Executing(v)' => b + SendTicks <= l + unit'[v].spent
    <3> SUFFICES ASSUME Executing(v) PROVE b + SendTicks <= l + unit'[v].spent
      BY <1>1 DEF Executing
    <3>1. a + SendTicks <= l + unit[v].spent
      BY <2>1 DEF OnTime
    <3>2. unit[v].spent \in Nat /\ unit'[v].spent = unit[v].spent + 1
      BY <1>1, <1>3, UnitFields
    <3> HIDE DEF a, b, l
    <3> QED
      BY <2>2, <3>1, <3>2
  <2>5. ASSUME NEW i \in 1..Len(line), line[i] = v
        PROVE  /\ b + Rounds(i) <= l
               /\ \A w \in In({"running"}) : b + Rounds(i + 1) <= l + unit'[w].spent
    <3> DEFINE m == Rounds(i)
               n == Rounds(i + 1)
    <3>1. m \in Nat /\ n \in Nat /\ n = m + SendTicks
      <4>1. i \in Nat
        BY <1>1, <2>5
      <4> QED
        BY <4>1, RoundsCount
    <3>2. \A w \in In({"running"}) : a + n <= l + unit[w].spent
      BY <2>1, <2>5 DEF OnTime
    <3>3. \A w \in In({"running"}) :
             /\ unit[w].spent \in Nat /\ unit[w].spent < SendTicks
             /\ unit'[w].spent = unit[w].spent + 1
      BY <1>1, <1>3, UnitFields DEF In, Executing
    <3>4. PICK w \in Units : w \in In({"running"})
      <4>1. line # <<>> /\ place[v] = "queued"
        BY <1>1, <2>5 DEF SendInv, PoolExact, LineExact
      <4>2. Concurrency > 0 /\ Concurrency \in Nat /\ Cardinality(In({"running"})) = Concurrency
        BY <1>1, <4>1, PoolAssumption DEF SendInv, PoolExact, LineExact
      <4>3. In({"running"}) # {}
        <5> DEFINE running == In({"running"})
        <5>1. Cardinality(running) # 0 /\ Cardinality({}) = 0
          BY <4>2, FS_EmptySet
        <5> HIDE DEF running
        <5>2. running # {}
          BY <5>1, Zenon
        <5> QED
          BY <5>2 DEF running
      <4> QED
        BY <4>3 DEF In
    <3> HIDE DEF a, b, l, m, n
    <3>5. b + m <= l
      <4> DEFINE s == unit[w].spent
      <4>1. s \in Nat /\ s < SendTicks /\ a + n <= l + s
        BY <3>2, <3>3, <3>4
      <4> HIDE DEF s
      <4> QED
        BY <2>2, <3>1, <4>1
    <3>6. ASSUME NEW y \in In({"running"}) PROVE b + n <= l + unit'[y].spent
      <4> DEFINE s == unit[y].spent
      <4>1. s \in Nat /\ a + n <= l + s /\ unit'[y].spent = s + 1
        BY <3>2, <3>3, <3>6
      <4> HIDE DEF s
      <4> QED
        BY <2>2, <3>1, <4>1
    <3> QED
      BY <3>5, <3>6 DEF m, n
  <2>6. In({"running"})' = In({"running"})
    BY <1>1 DEF In
  <2> QED
    BY <1>1, <2>3, <2>4, <2>5, <2>6 DEF OnTime
<1> QED
  BY <1>1, <1>2, <1>4, <1>5, <1>6, <1>7, <1>8, <1>9, <1>10 DEF SendInv

LEMMA CrashSafe ==
    ASSUME rows \in [Ids -> Row], \A d \in Ids : rows[d].next # "null" => rows[d].status = "failed",
           overtaken \in [Ids -> Nat], overtaken' = overtaken, PoolReset, unit' = [u \in Units |-> FreeUnit], rows' = rows
    PROVE  SendInv'
<1>1. FreeUnit.stage = "free" /\ FreeUnit.spent = 0 /\ FreeUnit \in Unit
  BY FreeTyped DEF FreeUnit
<1>2. /\ unit' \in [Units -> Unit] /\ \A v \in Units : unit'[v] = FreeUnit
      /\ \A v \in Units : place'[v] = "none"
  BY <1>1 DEF PoolReset
<1>3. \A v \in Units, e \in Ids : ~Carries(v, e)'
  BY <1>1, <1>2 DEF Carries, Free
<1>4. PoolExact'
  BY ResetExact
<1>5. UnitsPlaced'
  BY <1>1, <1>2 DEF UnitsPlaced
<1>6. SendersBacked' /\ WaitsBounded'
  BY <1>3 DEF SendersBacked, WaitsBounded
<1>7. SendersCounted'
  <2> SUFFICES ASSUME NEW e \in Ids
               PROVE  Cardinality(Senders(e)') + One(AtRest(e)') <= 1 + overtaken'[e]
    BY DEF SendersCounted
  <2>1. Senders(e)' = {}
    BY <1>3 DEF Senders
  <2>2. Cardinality(Senders(e)') = 0
    BY <2>1, FS_EmptySet, Zenon
  <2>3. One(AtRest(e)') \in {0, 1} /\ overtaken'[e] \in Nat
    BY DEF One
  <2> QED
    BY <2>2, <2>3
<1> QED
  BY <1>2, <1>4, <1>5, <1>6, <1>7 DEF SendInv

-----------------------------------------------------------------------------
(* The ladder, and what is settled *)

RestTyped ==
    /\ drain \in [at : {"idle", "scan", "claim"}, todo : SUBSET Ids, cur : Units \cup {NoUnit}]
    /\ route \in [at : {"idle", "claim"}, row : Ids \cup {NoRow}, force : BOOLEAN]
    /\ faults \in 0..FaultBound
    /\ replays \in 0..ReplayBound

\* A turn to come is new only where somebody pays for it, or a turn is taken.
LadderMoves(d) ==
    rows'[d].retry >= MaxRetries =>
        \/ /\ rows'[d].retry = rows[d].retry /\ Late(d)' \subseteq Late(d)
           /\ Asked(d)' => Asked(d) \/ replays' = replays + 1
           /\ \/ Owed(d)' => Owed(d)
              \/ faults' = faults + 1 \/ overtaken'[d] = overtaken[d] + 1
              \/ \E u \in Late(d) : u \notin Late(d)'
        \/ /\ ~Owed(d)' /\ Late(d)' \subseteq Late(d) /\ \E u \in Senders(d)' : u \notin Late(d)'
           /\ \/ rows'[d].retry <= MaxRetries
              \/ /\ rows'[d].retry = rows[d].retry + 1
                 /\ \/ Owed(d) /\ (Asked(d)' => Asked(d))
                    \/ Asked(d) /\ ~Asked(d)'

StaysSettled(d) ==
    rows[d].status \in {"delivered", "dead"} =>
        \/ rows'[d] = rows[d]
        \/ route.at = "claim" /\ route.row = d /\ (rows[d].status = "delivered" => route.force)
        \/ overtaken[d] > 0 /\ \E u \in Senders(d) : Executing(u)

\* What a step may do to the books.
Effect ==
    /\ SendInv' /\ RestTyped'
    /\ faults' \in {faults, faults + 1} /\ replays' \in {replays, replays + 1}
    /\ \A d \in Ids : overtaken'[d] \in {overtaken[d], overtaken[d] + 1}
    /\ route'.at = "claim" => replays' > 0 /\ route'.row # NoRow
    /\ \A d \in Ids : LadderMoves(d) /\ StaysSettled(d)

Books == SendInv /\ RestTyped /\ LadderPaid

LEMMA InvIsBooks == DeliveryInv <=> Books
BY DEF DeliveryInv, Books, SendInv, RestTyped, TypeOK, PoolExact

LEMMA RestFields ==
    ASSUME RestTyped
    PROVE  /\ faults \in Nat /\ replays \in Nat
           /\ route.at \in {"idle", "claim"} /\ route.row \in Ids \cup {NoRow} /\ route.force \in BOOLEAN
BY DeliveryAssumption DEF RestTyped

LEMMA LateFinite ==
    ASSUME NEW d
    PROVE  /\ IsFiniteSet(Late(d)) /\ Cardinality(Late(d)) \in Nat
           /\ IsFiniteSet(Late(d)') /\ Cardinality(Late(d)') \in Nat
<1>1. Late(d) \in SUBSET Units /\ Late(d)' \in SUBSET Units
  BY DEF Late, Senders
<1> QED
  BY <1>1, PoolAssumption, FS_Subset, FS_CardinalityType

\* A sender that is not late leaves at most the overtaken ones late.
LEMMA LateOvertaken ==
    ASSUME SendInv', NEW d \in Ids, NEW u \in Senders(d)', u \notin Late(d)'
    PROVE  Cardinality(Late(d)') <= overtaken'[d]
<1> DEFINE late == Late(d)'
           all == Senders(d)'
           o == One(AtRest(d)')
<1>1. late \subseteq all \ {u}
  BY DEF Late
<1>2. IsFiniteSet(all) /\ Cardinality(all) \in Nat /\ Cardinality(late) \in Nat
  BY SendersFinite, LateFinite
<1>3. Cardinality(all) + o <= 1 + overtaken'[d] /\ overtaken'[d] \in Nat
  BY DEF SendInv, SendersCounted
<1>4. o \in Nat
  BY DEF One
<1> HIDE DEF late, all, o
<1>5. IsFiniteSet(all \ {u}) /\ Cardinality(all \ {u}) = Cardinality(all) - 1
  BY <1>2, FS_RemoveElement DEF all
<1>6. Cardinality(late) <= Cardinality(all) - 1
  BY <1>1, <1>5, FS_Subset
<1>7. Cardinality(late) <= overtaken'[d]
  BY <1>2, <1>3, <1>4, <1>6
<1> QED
  BY <1>7 DEF late

\* The sum of what is owed keeps below what was paid.
LEMMA LadderKept ==
    ASSUME Books, Effect
    PROVE  LadderPaid'
<1>1. /\ faults \in Nat /\ replays \in Nat /\ faults' \in Nat /\ replays' \in Nat
      /\ MaxRetries \in Nat
      /\ route'.at = "claim" => replays' > 0 /\ route'.row # NoRow
  BY RestFields, DeliveryAssumption DEF Books, Effect
<1>2. ASSUME NEW d \in Ids, rows'[d].retry >= MaxRetries
      PROVE  rows'[d].retry + One(Owed(d)') + One(Asked(d)') + Cardinality(Late(d)')
               <= MaxRetries + replays' + faults' + overtaken'[d]
  <2> DEFINE n == rows[d].retry
             m == rows'[d].retry
             o == One(Owed(d))
             oo == One(Owed(d)')
             k == One(Asked(d))
             kk == One(Asked(d)')
             l == Cardinality(Late(d))
             ll == Cardinality(Late(d)')
             v == overtaken[d]
             vv == overtaken'[d]
  <2>1. n \in Nat /\ m \in Nat /\ l \in Nat /\ ll \in Nat /\ v \in Nat /\ vv \in Nat
    BY RowFields, LateFinite DEF Books, Effect, SendInv, Row
  <2>2. /\ o = IF Owed(d) THEN 1 ELSE 0
        /\ oo = IF Owed(d)' THEN 1 ELSE 0
        /\ k = IF Asked(d) THEN 1 ELSE 0
        /\ kk = IF Asked(d)' THEN 1 ELSE 0
    BY DEF One
  <2>3. n >= MaxRetries => n + o + k + l <= MaxRetries + replays + faults + v
    BY DEF Books, LadderPaid
  <2>4. Asked(d)' => replays' > 0
    BY <1>1 DEF Asked
  <2>5. /\ faults' \in {faults, faults + 1} /\ replays' \in {replays, replays + 1}
        /\ vv \in {v, v + 1}
    BY DEF Effect
  <2>6. Late(d)' \subseteq Late(d) => ll <= l /\ ((\E u \in Late(d) : u \notin Late(d)') => ll < l)
    <3> DEFINE old == Late(d)
               new == Late(d)'
    <3>1. IsFiniteSet(old) /\ IsFiniteSet(new)
      BY LateFinite
    <3> HIDE DEF old, new
    <3>2. ASSUME new \subseteq old PROVE Cardinality(new) <= Cardinality(old)
      BY <3>1, <3>2, FS_Subset
    <3>3. ASSUME new \subseteq old, NEW u \in old, u \notin new
          PROVE  Cardinality(new) < Cardinality(old)
      <4>1. IsFiniteSet(old \ {u}) /\ Cardinality(old \ {u}) = Cardinality(old) - 1
        BY <3>1, FS_RemoveElement
      <4>2. new \subseteq old \ {u}
        BY <3>3
      <4>3. Cardinality(new) <= Cardinality(old) - 1
        BY <4>1, <4>2, FS_Subset
      <4>4. Cardinality(new) \in Nat /\ Cardinality(old) \in Nat
        BY <3>1, FS_CardinalityType
      <4> QED
        BY <4>3, <4>4
    <3> QED
      BY <3>2, <3>3 DEF old, new
  <2>7. (\E u \in Senders(d)' : u \notin Late(d)') => ll <= vv
    BY LateOvertaken DEF Effect
  <2>8. LadderMoves(d)
    BY DEF Effect
  <2>9. o \in {0, 1} /\ oo \in {0, 1} /\ k \in {0, 1} /\ kk \in {0, 1}
    BY <2>2, Zenon
  <2>10. /\ Owed(d) <=> o = 1
         /\ Owed(d)' <=> oo = 1
         /\ Asked(d) <=> k = 1
         /\ Asked(d)' <=> kk = 1
    BY <2>2
  <2>11. \/ /\ m = n /\ ll <= l
            /\ kk = 0 \/ k = 1 \/ replays' = replays + 1
            /\ oo = 0 \/ o = 1 \/ faults' = faults + 1 \/ vv = v + 1 \/ ll < l
         \/ /\ oo = 0 /\ ll <= l /\ ll <= vv
            /\ \/ m <= MaxRetries
               \/ m = n + 1 /\ ((o = 1 /\ (kk = 0 \/ k = 1)) \/ (k = 1 /\ kk = 0))
    <3>1. CASE /\ rows'[d].retry = rows[d].retry /\ Late(d)' \subseteq Late(d)
               /\ Asked(d)' => Asked(d) \/ replays' = replays + 1
               /\ \/ Owed(d)' => Owed(d)
                  \/ faults' = faults + 1 \/ overtaken'[d] = overtaken[d] + 1
                  \/ \E u \in Late(d) : u \notin Late(d)'
      <4>1. ll <= l /\ ((\E u \in Late(d) : u \notin Late(d)') => ll < l)
        BY <2>6, <3>1, Zenon
      <4> HIDE DEF o, oo, k, kk, l, ll
      <4>2. kk = 0 \/ k = 1 \/ replays' = replays + 1
        BY <2>9, <2>10, <3>1, Zenon
      <4>3. oo = 0 \/ o = 1 \/ faults' = faults + 1 \/ vv = v + 1 \/ ll < l
        BY <2>9, <2>10, <3>1, <4>1, Zenon
      <4> QED
        BY <3>1, <4>1, <4>2, <4>3
    <3>2. CASE /\ ~Owed(d)' /\ Late(d)' \subseteq Late(d)
               /\ \E u \in Senders(d)' : u \notin Late(d)'
               /\ \/ rows'[d].retry <= MaxRetries
                  \/ /\ rows'[d].retry = rows[d].retry + 1
                     /\ \/ Owed(d) /\ (Asked(d)' => Asked(d))
                        \/ Asked(d) /\ ~Asked(d)'
      <4>1. ll <= l
        BY <2>6, <3>2, Zenon
      <4>2. ll <= vv
        BY <2>7, <3>2, Zenon
      <4> HIDE DEF o, oo, k, kk, l, ll
      <4>3. oo = 0
        BY <2>9, <2>10, <3>2, Zenon
      <4>4. \/ m <= MaxRetries
            \/ m = n + 1 /\ ((o = 1 /\ (kk = 0 \/ k = 1)) \/ (k = 1 /\ kk = 0))
        BY <2>9, <2>10, <3>2, Zenon
      <4> QED
        BY <4>1, <4>2, <4>3, <4>4
    <3> QED
      BY <1>2, <2>8, <3>1, <3>2 DEF LadderMoves
  <2>12. kk = 0 \/ replays' > 0
    BY <2>4, <2>9, <2>10, Zenon
  <2>13. m >= MaxRetries
    BY <1>2
  <2> HIDE DEF n, m, o, oo, k, kk, l, ll, v, vv
  <2> DEFINE f == faults
             ff == faults'
             p == replays
             pp == replays'
  <2>14. /\ o \in Nat /\ oo \in Nat /\ k \in Nat /\ kk \in Nat
         /\ o <= 1 /\ oo <= 1 /\ k <= 1 /\ kk <= 1
    BY <2>9
  <2>15. /\ f \in Nat /\ ff \in Nat /\ p \in Nat /\ pp \in Nat /\ MaxRetries \in Nat
         /\ f <= ff /\ p <= pp /\ v <= vv
    BY <1>1, <2>1, <2>5
  <2> HIDE DEF f, ff, p, pp
  <2>16. m + oo + kk + ll <= MaxRetries + pp + ff + vv
    <3>1. CASE /\ m = n /\ ll <= l
               /\ kk = 0 \/ k = 1 \/ pp = p + 1
               /\ oo = 0 \/ o = 1 \/ ff = f + 1 \/ vv = v + 1 \/ ll < l
      <4>1. n + o + k + l <= MaxRetries + p + f + v
        BY <2>3, <2>13, <3>1 DEF p, f
      <4>2. kk + p <= k + pp
        BY <2>14, <2>15, <3>1
      <4>3. oo + ll + f + v <= o + l + ff + vv
        BY <2>1, <2>14, <2>15, <3>1
      <4> QED
        BY <2>1, <2>14, <2>15, <3>1, <4>1, <4>2, <4>3
    <3>2. CASE oo = 0 /\ ll <= vv /\ m <= MaxRetries
      <4>1. kk = 0 \/ pp > 0
        BY <2>12 DEF pp
      <4>2. kk <= pp
        BY <2>14, <2>15, <4>1
      <4> QED
        BY <2>1, <2>14, <2>15, <3>2, <4>2
    <3>3. CASE /\ oo = 0 /\ ll <= l /\ ll <= vv /\ m = n + 1 /\ ~(m <= MaxRetries)
               /\ (o = 1 /\ (kk = 0 \/ k = 1)) \/ (k = 1 /\ kk = 0)
      <4>1. n >= MaxRetries
        BY <1>1, <2>1, <3>3
      <4>2. n + o + k + l <= MaxRetries + p + f + v
        BY <2>3, <4>1 DEF p, f
      <4>3. 1 + kk <= o + k
        BY <2>14, <3>3
      <4> QED
        BY <2>1, <2>14, <2>15, <3>3, <4>2, <4>3
    <3> QED
      BY <2>11, <3>1, <3>2, <3>3 DEF f, ff, p, pp
  <2> QED
    BY <2>16 DEF m, oo, kk, ll, vv, ff, pp
<1> QED
  BY <1>1, <1>2 DEF LadderPaid

\* None is late that was not: a unit at its second statement keeps what it read.
LEMMA LateShrinks ==
    ASSUME NEW d, \A v \in Units : unit'[v].stage = "write" =>
              unit[v].stage = "write" /\ unit[v].row = unit'[v].row /\ unit[v].read = unit'[v].read
    PROVE  Late(d)' \subseteq Late(d)
BY DEF Late, Senders, Carries, Free

\* Steps that leave the log alone and take no sender away owe nothing new.
LEMMA NothingOwed ==
    ASSUME NEW d \in Ids, rows'[d].status = rows[d].status,
           \A v \in Units : Carries(v, d) => Carries(v, d)'
    PROVE  Owed(d)' => Owed(d)
BY DEF Owed, Senders

LEMMA QuietStep ==
    ASSUME Books, SendInv', RestTyped', rows' = rows, faults' \in {faults, faults + 1},
           UNCHANGED <<route, replays, overtaken>>,
           \A v \in Units, d \in Ids : Carries(v, d) => Carries(v, d)',
           \A d \in Ids : rows[d].retry >= MaxRetries => Late(d)' \subseteq Late(d)
    PROVE  Effect
<1>1. \A d \in Ids : Owed(d)' => Owed(d)
  BY NothingOwed
<1>2. \A d \in Ids : Asked(d)' => Asked(d)
  BY DEF Asked
<1>3. \A d \in Ids : LadderMoves(d) /\ StaysSettled(d)
  BY <1>1, <1>2 DEF LadderMoves, StaysSettled
<1> QED
  BY <1>3 DEF Effect, Books, LadderPaid

LEMMA FaultStep ==
    ASSUME Books, SendInv', RestTyped', rows' = rows, faults' = faults + 1,
           route' = route \/ route' = IdleRoute, UNCHANGED <<replays, overtaken>>,
           \A d \in Ids : Late(d)' \subseteq Late(d)
    PROVE  Effect
<1>1. \A d \in Ids : Asked(d)' => Asked(d)
  BY DEF Asked, IdleRoute
<1>2. route'.at = "claim" => route' = route
  BY DEF IdleRoute
<1>3. \A d \in Ids : LadderMoves(d) /\ StaysSettled(d)
  BY <1>1 DEF LadderMoves, StaysSettled
<1> QED
  BY <1>2, <1>3 DEF Effect, Books, LadderPaid

\* A sender takes on a row that is written pending: a first one, or one more turn.
LEMMA OweEffect ==
    ASSUME Books, NEW u \in Units, NEW d \in Ids, NEW n \in Nat, Free(u),
           AtRest(d) \/ Senders(d) = {},
           rows' = Update(d, "pending", n, "null"), unit' = Owe(u, d, "send"),
           UNCHANGED <<poolVars, faults, replays, overtaken>>, RestTyped',
           route' = route \/ route' = IdleRoute,
           \/ n = 0
           \/ n = rows[d].retry + 1 /\ (Owed(d) \/ (Asked(d) /\ route' = IdleRoute)),
           \/ rows[d].status \notin {"delivered", "dead"}
           \/ Asked(d) /\ (rows[d].status = "delivered" => route.force)
    PROVE  Effect
<1>1. SendInv'
  BY OweSafe DEF Books
<1>2. /\ \A e \in Ids \ {d} : rows'[e] = rows[e]
      /\ rows'[d] = [status |-> "pending", retry |-> n, next |-> "null", age |-> 0]
      /\ rows \in [Ids -> Row]
  BY DEF Update, Books, SendInv
<1>3. rows'[d].retry = n /\ rows'[d].status = "pending"
  BY <1>2
<1>4. /\ unit'[u].row = d /\ unit'[u].stage = "send" /\ \A v \in Units : v # u => unit'[v] = unit[v]
  <2> DEFINE x == [FreeUnit EXCEPT !.row = d, !.stage = "send"]
  <2>1. x.row = d /\ x.stage = "send"
    BY DEF FreeUnit
  <2>2. unit' = [unit EXCEPT ![u] = x] /\ unit \in [Units -> Unit]
    BY DEF Owe, Books, SendInv
  <2> HIDE DEF x
  <2> QED
    BY <2>1, <2>2
<1>5. u \in Senders(d)' /\ u \notin Late(d)' /\ ~Owed(d)' /\ \A e \in Ids : Late(e)' \subseteq Late(e)
  <2>1. u \in Senders(d)' /\ u \notin Late(d)'
    BY <1>4 DEF Senders, Late, Carries, Free
  <2>2. ~Owed(d)'
    BY <1>3, <2>1 DEF Owed
  <2>3. \A e \in Ids : Late(e)' \subseteq Late(e)
    BY <1>4, LateShrinks
  <2> QED
    BY <2>1, <2>2, <2>3
<1>6. \A e \in Ids : Asked(e)' => Asked(e)
  BY DEF Asked, IdleRoute
<1>7. LadderMoves(d) /\ StaysSettled(d)
  <2>1. StaysSettled(d)
    BY DEF StaysSettled, Asked
  <2>2. CASE n = 0
    <3>1. rows'[d].retry <= MaxRetries
      BY <1>3, <2>2, DeliveryAssumption
    <3> QED
      BY <1>5, <2>1, <3>1 DEF LadderMoves
  <2>3. CASE n = rows[d].retry + 1 /\ (Owed(d) \/ (Asked(d) /\ route' = IdleRoute))
    <3>1. route' = IdleRoute => ~Asked(d)'
      BY DEF Asked, IdleRoute
    <3> QED
      BY <1>3, <1>5, <1>6, <2>1, <2>3, <3>1, Zenon DEF LadderMoves
  <2> QED
    BY <2>2, <2>3
<1>8. ASSUME NEW e \in Ids, e # d PROVE LadderMoves(e) /\ StaysSettled(e)
  <2>1. \A v \in Units : Carries(v, e) => Carries(v, e)'
    BY <1>4 DEF Carries, Free
  <2>2. rows'[e] = rows[e]
    BY <1>2, <1>8
  <2>3. Owed(e)' => Owed(e)
    BY <2>1, <2>2, NothingOwed
  <2> QED
    BY <1>5, <1>6, <2>2, <2>3 DEF LadderMoves, StaysSettled
<1>9. route'.at = "claim" => replays' > 0 /\ route'.row # NoRow
  BY DEF IdleRoute, Books, LadderPaid
<1> QED
  BY <1>1, <1>7, <1>8, <1>9 DEF Effect

LEMMA DispatchEffect ==
    ASSUME Books, NEW u \in Units, NEW d \in Ids, DispatchEvent(u, d) \/ DispatchLogged(u, d)
    PROVE  Effect
<1>1. CASE DispatchEvent(u, d)
  <2>1. UNCHANGED <<rows, drain, route, faults, replays, overtaken>> /\ Free(u)
    BY <1>1 DEF DispatchEvent
  <2>2. SendInv' /\ RestTyped'
    BY <1>1, <2>1, DispatchEventSafe DEF Books, RestTyped
  <2>3. \A v \in Units : v # u => unit'[v] = unit[v]
    BY <1>1 DEF DispatchEvent, Owe, Books, SendInv
  <2>4. \A v \in Units, e \in Ids : Carries(v, e) => Carries(v, e)'
    BY <2>1, <2>3 DEF Carries, Free
  <2>5. unit'[u].stage # "write"
    <3> DEFINE x == [FreeUnit EXCEPT !.row = d, !.stage = "create"]
    <3>1. x.stage = "create"
      BY DEF FreeUnit
    <3>2. unit' = [unit EXCEPT ![u] = x] /\ unit \in [Units -> Unit]
      BY <1>1 DEF DispatchEvent, Owe, Books, SendInv
    <3> HIDE DEF x
    <3> QED
      BY <3>1, <3>2
  <2>6. \A e \in Ids : Late(e)' \subseteq Late(e)
    BY <2>3, <2>5, LateShrinks
  <2> QED
    BY <2>1, <2>2, <2>4, <2>6, QuietStep
<1>2. CASE DispatchLogged(u, d)
  <2>1. /\ Free(u) /\ rows[d].status = "none" /\ Senders(d) = {}
        /\ rows' = Update(d, "pending", 0, "null") /\ unit' = Owe(u, d, "send")
        /\ UNCHANGED <<poolVars, drain, route, faults, replays, overtaken>>
    BY <1>2 DEF DispatchLogged, Fresh
  <2>2. RestTyped'
    BY <2>1 DEF Books, RestTyped
  <2> QED
    BY <2>1, <2>2, OweEffect
<1> QED
  BY <1>1, <1>2

LEMMA DrainEffect ==
    ASSUME Books, DrainStep \/ DrainErrs
    PROVE  Effect
<1>0. /\ drain.at \in {"idle", "scan", "claim"} /\ drain.todo \in SUBSET Ids
      /\ drain.cur \in Units \cup {NoUnit}
      /\ drain \in [at : {"idle", "scan", "claim"}, todo : SUBSET Ids, cur : Units \cup {NoUnit}]
      /\ IdleDrain \in [at : {"idle", "scan", "claim"}, todo : SUBSET Ids, cur : Units \cup {NoUnit}]
  BY DEF Books, RestTyped, IdleDrain
<1>1. CASE DrainReclaim
  <2>1. UNCHANGED <<poolVars, unit, route, faults, replays>> /\ drain' = [drain EXCEPT !.at = "scan"]
    BY <1>1 DEF DrainReclaim
  <2>2. RestTyped'
    BY <1>0, <2>1 DEF Books, RestTyped
  <2>3. /\ SendInv'
        /\ \A e \in Ids :
              \/ rows'[e] = rows[e] /\ overtaken'[e] = overtaken[e]
              \/ /\ rows[e].status = "pending" /\ rows[e].age = StaleTicks
                 /\ rows'[e].status = "failed" /\ rows'[e].retry = rows[e].retry
                 /\ overtaken'[e] = IF Senders(e) # {} THEN overtaken[e] + 1 ELSE overtaken[e]
    BY <1>1, ReclaimSafe DEF Books
  <2>4. ASSUME NEW e \in Ids
        PROVE  LadderMoves(e) /\ StaysSettled(e) /\ overtaken'[e] \in {overtaken[e], overtaken[e] + 1}
    <3>1. \A v \in Units : Carries(v, e)' <=> Carries(v, e)
      BY <2>1 DEF Carries, Free
    <3>2. (Owed(e)' => Owed(e)) \/ overtaken'[e] = overtaken[e] + 1
      BY <2>3, <3>1 DEF Owed, Senders
    <3>3. (Asked(e)' => Asked(e)) /\ Late(e)' \subseteq Late(e)
      BY <2>1, LateShrinks DEF Asked
    <3>4. rows'[e].retry = rows[e].retry /\ overtaken'[e] \in {overtaken[e], overtaken[e] + 1}
      BY <2>3
    <3>5. StaysSettled(e)
      BY <2>3 DEF StaysSettled
    <3> QED
      BY <3>2, <3>3, <3>4, <3>5 DEF LadderMoves
  <2> QED
    BY <2>1, <2>2, <2>3, <2>4 DEF Effect, Books, LadderPaid
<1>2. ASSUME UNCHANGED <<poolVars, rows, unit, route, replays, overtaken>>, faults' \in {faults, faults + 1},
             RestTyped'
      PROVE  Effect
  <2>1. SendInv'
    BY <1>2, RowsMoveSafe DEF Books, SendInv
  <2>2. \A v \in Units, e \in Ids : Carries(v, e) => Carries(v, e)'
    BY <1>2 DEF Carries, Free
  <2>3. \A e \in Ids : Late(e)' \subseteq Late(e)
    BY <1>2, LateShrinks
  <2> QED
    BY <1>2, <2>1, <2>2, <2>3, QuietStep
<1>3. CASE DrainScan
  <2>1. PICK todo \in SUBSET DueRows : drain' = [drain EXCEPT !.at = "claim", !.todo = todo]
    BY <1>3 DEF DrainScan
  <2>2. todo \in SUBSET Ids /\ UNCHANGED <<poolVars, rows, unit, route, faults, replays, overtaken>>
    BY <1>3 DEF DrainScan, DueRows
  <2>3. RestTyped'
    BY <1>0, <2>1, <2>2 DEF Books, RestTyped
  <2> QED
    BY <1>2, <2>2, <2>3
<1>4. CASE DrainDone
  <2>1. drain' = IdleDrain /\ UNCHANGED <<poolVars, rows, unit, route, faults, replays, overtaken>>
    BY <1>4 DEF DrainDone
  <2>2. RestTyped'
    BY <1>0, <2>1 DEF Books, RestTyped
  <2> QED
    BY <1>2, <2>1, <2>2
<1>5. CASE DrainErrs
  <2>1. /\ UNCHANGED <<poolVars, rows, unit, route, replays, overtaken>>
        /\ faults' = faults + 1 /\ faults < FaultBound
        /\ \/ drain' = IdleDrain \/ drain' = [drain EXCEPT !.at = "scan"]
           \/ \E d \in drain.todo : drain' = [drain EXCEPT !.todo = @ \ {d}]
    BY <1>5 DEF DrainErrs, Fault
  <2>2. faults' \in 0..FaultBound
    BY <2>1, DeliveryAssumption DEF Books, RestTyped
  <2>3. drain' \in [at : {"idle", "scan", "claim"}, todo : SUBSET Ids, cur : Units \cup {NoUnit}]
    BY <1>0, <2>1
  <2> QED
    BY <1>2, <2>1, <2>2, <2>3 DEF Books, RestTyped
<1>6. ASSUME NEW u \in Units, NEW d \in Ids, DrainClaim(u, d)
      PROVE  Effect
  <2>1. Free(u) /\ d \in drain.todo /\ UNCHANGED <<poolVars, route, faults, replays, overtaken>>
    BY <1>6 DEF DrainClaim
  <2>2. CASE rows[d].status = "failed"
    <3>1. /\ rows' = Update(d, "pending", rows[d].retry + 1, "null")
          /\ unit' = Owe(u, d, "send")
          /\ drain' = [drain EXCEPT !.todo = @ \ {d}, !.cur = u]
      BY <1>6, <2>2 DEF DrainClaim, RetryClaims
    <3>2. RestTyped'
      BY <1>0, <2>1, <3>1 DEF Books, RestTyped
    <3>3. rows[d].retry + 1 \in Nat
      BY RowFields DEF Books, SendInv
    <3>4. Owed(d) /\ AtRest(d)
      BY <2>2 DEF AtRest, Owed
    <3> QED
      BY <2>1, <2>2, <3>1, <3>2, <3>3, <3>4, OweEffect
  <2>3. CASE rows[d].status # "failed"
    <3>1. drain' = [drain EXCEPT !.todo = @ \ {d}] /\ UNCHANGED <<rows, unit>>
      BY <1>6, <2>3 DEF DrainClaim, RetryClaims
    <3>2. RestTyped'
      BY <1>0, <2>1, <3>1 DEF Books, RestTyped
    <3> QED
      BY <1>2, <2>1, <3>1, <3>2
  <2> QED
    BY <2>2, <2>3
<1> QED
  BY <1>1, <1>3, <1>4, <1>5, <1>6 DEF DrainStep

LEMMA ReplayEffect ==
    ASSUME Books, \/ \E d \in Ids, force \in BOOLEAN : ReplayRead(d, force)
                  \/ \E u \in Units : ReplayClaim(u)
    PROVE  Effect
<1>0. /\ IdleRoute \in [at : {"idle", "claim"}, row : Ids \cup {NoRow}, force : BOOLEAN]
      /\ IdleRoute.at = "idle"
  BY DEF IdleRoute
<1>1. ASSUME NEW d \in Ids, NEW force \in BOOLEAN, ReplayRead(d, force)
      PROVE  Effect
  <2>1. /\ route' = [at |-> "claim", row |-> d, force |-> force]
        /\ replays' = replays + 1 /\ replays < ReplayBound
        /\ UNCHANGED <<poolVars, rows, unit, drain, faults, overtaken>>
    BY <1>1 DEF ReplayRead
  <2>2. /\ replays' \in 0..ReplayBound /\ replays' > 0
    BY <2>1, DeliveryAssumption DEF Books, RestTyped
  <2>3. RestTyped'
    BY <2>1, <2>2 DEF Books, RestTyped
  <2>4. SendInv'
    BY <2>1, RowsMoveSafe DEF Books, SendInv
  <2>5. \A e \in Ids : (Owed(e)' => Owed(e)) /\ Late(e)' \subseteq Late(e)
    BY <2>1, LateShrinks DEF Owed, Senders, Carries, Free
  <2>6. route'.row # NoRow
    BY <2>1, DeliveryAssumption
  <2>7. \A e \in Ids : LadderMoves(e) /\ StaysSettled(e)
    BY <2>1, <2>5 DEF LadderMoves, StaysSettled
  <2> QED
    BY <2>1, <2>2, <2>3, <2>4, <2>6, <2>7 DEF Effect
<1>2. ASSUME NEW u \in Units, ReplayClaim(u)
      PROVE  Effect
  <2>1. /\ route.at = "claim" /\ Free(u) /\ route' = IdleRoute
        /\ UNCHANGED <<poolVars, drain, faults, replays, overtaken>>
        /\ route.row \in Ids
    BY <1>2, RestFields DEF ReplayClaim, Books, LadderPaid
  <2>2. RestTyped'
    BY <1>0, <2>1 DEF Books, RestTyped
  <2>3. PICK d \in Ids : d = route.row
    BY <2>1
  <2>4. CASE Replayable(d, route.force)
    <3>1. /\ rows' = Update(d, "pending", rows[d].retry + 1, "null") /\ unit' = Owe(u, d, "send")
      BY <1>2, <2>3, <2>4 DEF ReplayClaim
    <3>2. rows[d].retry + 1 \in Nat
      BY RowFields DEF Books, SendInv
    <3>3. /\ rows[d].status \in {"failed", "dead", "delivered"}
          /\ rows[d].status = "delivered" => route.force
      BY <2>4 DEF Replayable
    <3>4. Asked(d) /\ AtRest(d)
      BY <2>1, <2>3, <3>3 DEF Asked, AtRest
    <3> QED
      BY <2>1, <2>2, <3>1, <3>2, <3>3, <3>4, OweEffect
  <2>5. CASE ~Replayable(d, route.force)
    <3>1. UNCHANGED <<rows, unit>>
      BY <1>2, <2>3, <2>5 DEF ReplayClaim
    <3>2. SendInv'
      BY <2>1, <3>1, RowsMoveSafe DEF Books, SendInv
    <3>3. \A e \in Ids : (Owed(e)' => Owed(e)) /\ Late(e)' \subseteq Late(e)
      BY <3>1, LateShrinks DEF Owed, Senders, Carries, Free
    <3>4. \A e \in Ids : ~Asked(e)'
      BY <1>0, <2>1 DEF Asked
    <3>5. \A e \in Ids : LadderMoves(e) /\ StaysSettled(e)
      BY <3>1, <3>3, <3>4 DEF LadderMoves, StaysSettled
    <3> QED
      BY <1>0, <2>1, <2>2, <3>2, <3>5 DEF Effect
  <2> QED
    BY <2>4, <2>5
<1> QED
  BY <1>1, <1>2

\* Where the drain stands after a unit was handed over or ran on the tick.
LEMMA DrainTyped ==
    ASSUME RestTyped, NEW u \in Units,
           drain' \in {drain, IdleDrain, [drain EXCEPT !.cur = NoUnit]}
    PROVE  drain' \in [at : {"idle", "scan", "claim"}, todo : SUBSET Ids, cur : Units \cup {NoUnit}]
BY DEF RestTyped, IdleDrain

\* A unit of the pool moves, or the unit itself does, and the log rests.
LEMMA RunsEffect ==
    ASSUME Books, NEW u \in Units, Hand(u) \/ Queue(u) \/ Start(u) \/ Attempt(u) \/ FailRead(u)
    PROVE  Effect
<1>1. UNCHANGED <<rows, route, faults, replays, overtaken>>
  BY DEF Hand, Queue, Start, Attempt, FailRead
<1>2. SendInv'
  BY HandSafe, QueueSafe, StartSafe, AttemptSafe, FailReadSafe DEF Books
<1>3. drain' \in {drain, IdleDrain, [drain EXCEPT !.cur = NoUnit]}
  BY DEF Hand, Queue, Start, Attempt, FailRead, Released
<1>4. RestTyped'
  BY <1>1, <1>3, DrainTyped DEF Books, RestTyped
<1>5. ASSUME NEW x, unit \in [Units -> Unit], unit' = [unit EXCEPT ![u] = x], ~Free(u),
             x.row = unit[u].row, x.stage \in {"send", "log", "write"},
             x.stage = "write" => x.read = rows[x.row].retry /\ x.row \in Ids
      PROVE  Effect
  <2>1. \A v \in Units : unit'[v] = IF v = u THEN x ELSE unit[v]
    BY <1>5
  <2>2. \A v \in Units, e \in Ids : Carries(v, e) => Carries(v, e)'
    BY <1>5, <2>1 DEF Carries, Free
  <2>3. ASSUME NEW e \in Ids, rows[e].retry >= MaxRetries
        PROVE  Late(e)' \subseteq Late(e)
    <3> SUFFICES ASSUME NEW v \in Late(e)' PROVE v \in Late(e)
      OBVIOUS
    <3>1. /\ v \in Units /\ unit'[v].stage = "write" /\ unit'[v].row = e
          /\ unit'[v].read < MaxRetries
      BY DEF Late, Senders, Carries
    <3>2. v # u
      <4>1. rows[e].retry \in Nat /\ MaxRetries \in Nat
        BY RowFields, DeliveryAssumption DEF Books, SendInv
      <4> QED
        BY <1>5, <2>1, <2>3, <3>1, <4>1
    <3> QED
      BY <2>1, <3>1, <3>2 DEF Late, Senders, Carries, Free
  <2> QED
    BY <1>1, <1>2, <1>4, <2>2, <2>3, QuietStep
<1>6. unit[u] \in Unit /\ unit \in [Units -> Unit]
  BY DEF Books, SendInv
<1>7. CASE Hand(u) \/ Queue(u) \/ Start(u)
  <2>1. unit' = unit
    BY <1>7 DEF Hand, Queue, Start
  <2>2. \A v \in Units, e \in Ids : Carries(v, e) => Carries(v, e)'
    BY <2>1 DEF Carries, Free
  <2>3. \A e \in Ids : Late(e)' \subseteq Late(e)
    BY <2>1, LateShrinks
  <2> QED
    BY <1>1, <1>2, <1>4, <2>2, <2>3, QuietStep
<1>8. CASE Attempt(u)
  <2>1. PICK answer \in {"ok", "transient", "permanent"} :
           unit' = [unit EXCEPT ![u] = AfterAttempt(u, answer)]
    BY <1>8 DEF Attempt
  <2> DEFINE x == AfterAttempt(u, answer)
  <2>2. unit[u].stage = "send"
    BY <1>8 DEF Attempt
  <2>3. x.row = unit[u].row /\ x.stage \in {"send", "log"}
    <3>1. \/ x = [unit[u] EXCEPT !.tries = @ + 1, !.stage = "log", !.verdict = "delivered"]
          \/ x = [unit[u] EXCEPT !.tries = @ + 1, !.stage = "log", !.verdict = "dead"]
          \/ x = [unit[u] EXCEPT !.tries = @ + 1, !.stage = "log", !.verdict = "failed"]
          \/ x = [unit[u] EXCEPT !.tries = @ + 1]
      BY DEF AfterAttempt
    <3> HIDE DEF x
    <3> QED
      BY <1>6, <2>2, <3>1 DEF Unit
  <2>4. unit' = [unit EXCEPT ![u] = x] /\ ~Free(u)
    BY <2>1, <2>2 DEF Free
  <2> HIDE DEF x
  <2> QED
    BY <1>5, <1>6, <2>3, <2>4
<1>9. CASE FailRead(u)
  <2> DEFINE x == [unit[u] EXCEPT !.stage = "write", !.read = rows[unit[u].row].retry]
  <2>1. unit' = [unit EXCEPT ![u] = x] /\ unit[u].stage = "log" /\ unit[u].row \in Ids
    BY <1>6, <1>9, UnitFields DEF FailRead
  <2>2. x.row = unit[u].row /\ x.stage = "write" /\ x.read = rows[unit[u].row].retry
    BY <1>6 DEF Unit
  <2>3. ~Free(u)
    BY <2>1 DEF Free
  <2> HIDE DEF x
  <2> QED
    BY <1>5, <1>6, <2>1, <2>2, <2>3
<1> QED
  BY <1>7, <1>8, <1>9

LEMMA CreateRowEffect ==
    ASSUME Books, NEW u \in Units, CreateRow(u)
    PROVE  Effect
<1>1. SendInv' /\ UNCHANGED <<drain, route, replays, overtaken>> /\ unit[u].stage = "create"
  BY CreateRowSafe DEF Books, CreateRow
<1>2. /\ unit[u] \in Unit /\ unit \in [Units -> Unit] /\ rows \in [Ids -> Row] /\ unit[u].row \in Ids
  BY <1>1, UnitFields DEF Books, SendInv, UnitsPlaced
<1>3. PICK d \in Ids : d = unit[u].row
  BY <1>2
<1>4. Carries(u, d) /\ rows[d].status = "none" /\ Senders(d) = {u}
  <2>1. Carries(u, d)
    BY <1>1, <1>3 DEF Carries, Free
  <2> QED
    BY <1>1, <2>1 DEF Books, SendInv, SendersBacked
<1>5. \A e \in Ids : Asked(e)' => Asked(e)
  BY <1>1 DEF Asked
<1>6. ASSUME Fault, unit' = [unit EXCEPT ![u].stage = "send", ![u].row = NoRow], rows' = rows
      PROVE  Effect
  <2>1. faults' = faults + 1 /\ faults < FaultBound
    BY <1>6 DEF Fault
  <2>2. faults' \in 0..FaultBound
    BY <2>1, DeliveryAssumption DEF Books, RestTyped
  <2>3. RestTyped'
    BY <1>1, <2>2 DEF Books, RestTyped
  <2>4. \A e \in Ids : Late(e)' \subseteq Late(e)
    <3>1. /\ \A v \in Units : v # u => unit'[v] = unit[v]
          /\ unit'[u].stage = "send"
      BY <1>2, <1>6 DEF Unit
    <3> QED
      BY <3>1, LateShrinks
  <2> QED
    BY <1>1, <1>6, <2>1, <2>3, <2>4, FaultStep
<1>7. ASSUME rows' = Update(d, "pending", 0, "null"),
             unit' = [unit EXCEPT ![u].stage = "send"], faults' = faults
      PROVE  Effect
  <2>1. RestTyped'
    BY <1>1, <1>7 DEF Books, RestTyped
  <2>2. /\ \A v \in Units : v # u => unit'[v] = unit[v]
        /\ unit'[u].row = d /\ unit'[u].stage = "send"
    BY <1>2, <1>3, <1>7 DEF Unit
  <2>3. \A v \in Units, e \in Ids : Carries(v, e) => Carries(v, e)'
    BY <1>3, <2>2 DEF Carries, Free
  <2>4. /\ \A e \in Ids \ {d} : rows'[e] = rows[e]
        /\ rows'[d] = [status |-> "pending", retry |-> 0, next |-> "null", age |-> 0]
    BY <1>2, <1>7 DEF Update
  <2>5. LadderMoves(d) /\ StaysSettled(d)
    <3>1. rows'[d].retry = 0 /\ rows'[d].status = "pending"
      BY <2>4
    <3>2. u \in Senders(d)' /\ u \notin Late(d)' /\ Late(d)' \subseteq Late(d)
      BY <2>2, LateShrinks DEF Senders, Late, Carries, Free
    <3>3. ~Owed(d)' /\ rows'[d].retry <= MaxRetries
      BY <3>1, <3>2, DeliveryAssumption DEF Owed
    <3> QED
      BY <1>4, <3>2, <3>3 DEF LadderMoves, StaysSettled
  <2>6. ASSUME NEW e \in Ids, e # d PROVE LadderMoves(e) /\ StaysSettled(e)
    <3>1. rows'[e] = rows[e]
      BY <2>4, <2>6
    <3>2. (Owed(e)' => Owed(e)) /\ Late(e)' \subseteq Late(e)
      BY <2>2, <2>3, <3>1, NothingOwed, LateShrinks
    <3> QED
      BY <1>5, <3>1, <3>2 DEF LadderMoves, StaysSettled
  <2> QED
    BY <1>1, <1>7, <2>1, <2>5, <2>6 DEF Effect, Books, LadderPaid
<1> QED
  BY <1>3, <1>6, <1>7 DEF CreateRow

\* A unit that ends with a verdict: the row it carried is written once, and it is gone.
LEMMA VerdictEffect ==
    ASSUME Books, NEW u \in Units, NEW d \in Ids, unit[u].row = d, ~Free(u), unit[u].stage # "create",
           Return(u), NEW s \in {"none", "delivered", "dead", "failed"}, NEW next \in {"null", "later"},
           rows' = Update(d, s, rows[d].retry, next),
           s = "failed" => rows[d].retry < MaxRetries \/ u \in Late(d), next # "null" => s = "failed",
           UNCHANGED <<route, faults, replays, overtaken>>
    PROVE  Effect
<1> DEFINE r == [status |-> s, retry |-> rows[d].retry, next |-> next, age |-> 0]
<1>1. /\ Leave(u) /\ unit' = [unit EXCEPT ![u] = FreeUnit]
      /\ unit \in [Units -> Unit] /\ rows \in [Ids -> Row]
      /\ rows' = [rows EXCEPT ![d] = r] /\ Carries(u, d)
  BY DEF Return, Books, SendInv, Update, Carries
<1>2. rows[d].retry \in Nat
  BY <1>1, RowFields DEF Books, SendInv
<1>3. r \in Row /\ r.status = s /\ r.retry = rows[d].retry /\ r.next = next
  <2>1. 0 \in 0..StaleTicks /\ s \in Statuses
    BY DeliveryAssumption DEF Statuses
  <2> QED
    BY <1>2, <2>1 DEF Row
<1> HIDE DEF r
<1>4. /\ rows' \in [Ids -> Row] /\ rows'[d] = r /\ \A e \in Ids : e # d => rows'[e] = rows[e]
  BY <1>1, <1>3
<1>5. SendInv'
  BY <1>1, <1>3, <1>4, LeaveSafe DEF Books
<1>6. RestTyped'
  <2>1. drain' \in {drain, IdleDrain, [drain EXCEPT !.cur = NoUnit]}
    BY DEF Return, Released
  <2> QED
    BY <2>1, DrainTyped DEF Books, RestTyped
<1>9. rows[d].status \in {"delivered", "dead"} => overtaken[d] > 0 /\ u \in Senders(d) /\ Executing(u)
  <2> SUFFICES ASSUME AtRest(d) PROVE overtaken[d] > 0 /\ u \in Senders(d) /\ Executing(u)
    BY DEF AtRest
  <2>1. u \in Senders(d) /\ Executing(u)
    BY <1>1 DEF Senders, Leave
  <2>2. Cardinality(Senders(d)) \in Nat /\ Cardinality(Senders(d)) # 0
    <3>1. Senders(d) # {} /\ IsFiniteSet(Senders(d)) /\ Cardinality(Senders(d)) \in Nat
      BY <2>1, SendersFinite
    <3> QED
      BY <3>1, FS_EmptySet
  <2>3. Cardinality(Senders(d)) + One(AtRest(d)) <= 1 + overtaken[d] /\ overtaken[d] \in Nat
    BY DEF Books, SendInv, SendersCounted
  <2>4. One(AtRest(d)) = 1
    BY DEF One
  <2>5. Cardinality(Senders(d)) + 1 <= 1 + overtaken[d] /\ overtaken[d] \in Nat
    BY <2>3, <2>4, Zenon
  <2>6. overtaken[d] > 0
    BY <2>2, <2>5
  <2> QED
    BY <2>1, <2>6, Zenon
<1>10. unit'[u].stage = "free" /\ \A e \in Ids : Late(e)' \subseteq Late(e)
  <2>1. FreeUnit.stage = "free"
    BY DEF FreeUnit
  <2>2. \A v \in Units : unit'[v] = IF v = u THEN FreeUnit ELSE unit[v]
    BY <1>1
  <2> QED
    BY <2>1, <2>2, LateShrinks
<1>7. LadderMoves(d) /\ StaysSettled(d)
  <2>1. rows'[d].retry = rows[d].retry /\ rows'[d].status = s
    BY <1>3, <1>4
  <2>2. StaysSettled(d)
    BY <1>9 DEF StaysSettled, Senders
  <2>3. Asked(d)' => Asked(d)
    BY DEF Asked
  <2>4. CASE s = "failed" /\ rows[d].retry < MaxRetries
    BY <1>2, <2>1, <2>2, <2>4, DeliveryAssumption DEF LadderMoves
  <2>5. CASE u \in Late(d)
    <3>1. u \notin Late(d)'
      BY <1>10 DEF Late, Senders, Carries, Free
    <3> QED
      BY <1>10, <2>1, <2>2, <2>3, <2>5, <3>1 DEF LadderMoves
  <2>6. CASE s # "failed"
    <3>1. ~Owed(d)'
      BY <2>1, <2>6 DEF Owed
    <3> QED
      BY <1>10, <2>1, <2>2, <2>3, <3>1 DEF LadderMoves
  <2> QED
    BY <2>4, <2>5, <2>6
<1>8. ASSUME NEW e \in Ids, e # d PROVE LadderMoves(e) /\ StaysSettled(e)
  <2>1. rows'[e] = rows[e]
    BY <1>4, <1>8
  <2>2. \A v \in Units : Carries(v, e) => Carries(v, e)'
    <3>1. \A v \in Units : v # u => unit'[v] = unit[v]
      BY <1>1
    <3>2. ~Carries(u, e)
      BY <1>8 DEF Carries
    <3> QED
      BY <3>1, <3>2 DEF Carries, Free
  <2>3. Owed(e)' => Owed(e)
    BY <2>1, <2>2, NothingOwed
  <2>4. Asked(e)' => Asked(e)
    BY DEF Asked
  <2> QED
    BY <1>10, <2>1, <2>3, <2>4 DEF LadderMoves, StaysSettled
<1> QED
  BY <1>5, <1>6, <1>7, <1>8 DEF Effect, Books, LadderPaid

LEMMA EndsEffect ==
    ASSUME Books, NEW u \in Units,
           LogOutcome(u) \/ FailWrite(u) \/ Unlogged(u) \/ Unrecorded(u) \/ Panics(u)
    PROVE  Effect
<1>0. unit[u] \in Unit /\ unit \in [Units -> Unit] /\ rows \in [Ids -> Row]
  BY DEF Books, SendInv
<1>1. CASE LogOutcome(u)
  <2>1. unit[u].row \in Ids /\ unit[u].stage = "log" /\ unit[u].verdict \in {"none", "delivered", "dead"}
    BY <1>0, <1>1, UnitFields DEF LogOutcome
  <2>2. PICK d \in Ids : d = unit[u].row
    BY <2>1
  <2>3. PICK s \in {"none", "delivered", "dead"} : s = unit[u].verdict
    BY <2>1
  <2>4. /\ rows' = Update(d, s, rows[d].retry, "null") /\ Return(u)
        /\ UNCHANGED <<route, faults, replays, overtaken>>
    BY <1>1, <2>2, <2>3 DEF LogOutcome
  <2> QED
    BY <2>1, <2>2, <2>4, VerdictEffect DEF Free
<1>2. CASE FailWrite(u)
  <2>1. unit[u].row \in Ids /\ unit[u].stage = "write"
    BY <1>0, <1>2, UnitFields DEF FailWrite, Books, SendInv, UnitsPlaced
  <2>2. PICK d \in Ids : d = unit[u].row
    BY <2>1
  <2>3. rows' = FailedRow(d, unit[u].read) /\ Return(u) /\ UNCHANGED <<route, faults, replays, overtaken>>
    BY <1>2, <2>2 DEF FailWrite
  <2>4. unit[u].read \in Nat /\ MaxRetries \in Nat
    BY <1>0, UnitFields, DeliveryAssumption
  <2>5. CASE unit[u].read >= MaxRetries
    <3>1. rows' = Update(d, "dead", rows[d].retry, "null")
      BY <2>3, <2>5 DEF FailedRow
    <3> QED
      BY <2>1, <2>2, <2>3, <3>1, VerdictEffect DEF Free
  <2>6. CASE unit[u].read < MaxRetries
    <3>1. rows' = Update(d, "failed", rows[d].retry, "later")
      BY <2>3, <2>4, <2>6 DEF FailedRow
    <3>2. u \in Late(d)
      BY <2>1, <2>2, <2>6 DEF Late, Senders, Carries, Free
    <3> QED
      BY <2>1, <2>2, <2>3, <3>1, <3>2, VerdictEffect DEF Free
  <2> QED
    BY <2>4, <2>5, <2>6
<1>3. CASE Unlogged(u)
  <2>1. /\ unit[u].row = NoRow /\ Leave(u) /\ unit' = [unit EXCEPT ![u] = FreeUnit]
        /\ UNCHANGED <<rows, route, faults, replays, overtaken>>
    BY <1>3 DEF Unlogged, Return
  <2>2. SendInv'
    BY <1>0, <2>1, LeaveSafe DEF Books
  <2>3. drain' \in {drain, IdleDrain, [drain EXCEPT !.cur = NoUnit]}
    BY <1>3 DEF Unlogged, Return, Released
  <2>4. RestTyped'
    BY <2>1, <2>3, DrainTyped DEF Books, RestTyped
  <2>5. \A v \in Units, e \in Ids : Carries(v, e) => Carries(v, e)'
    <3>1. \A v \in Units : v # u => unit'[v] = unit[v]
      BY <1>0, <2>1
    <3>2. \A e \in Ids : ~Carries(u, e)
      BY <2>1, DeliveryAssumption DEF Carries
    <3> QED
      BY <3>1, <3>2 DEF Carries, Free
  <2>6. \A e \in Ids : Late(e)' \subseteq Late(e)
    <3>1. \A v \in Units : unit'[v] = IF v = u THEN FreeUnit ELSE unit[v]
      BY <1>0, <2>1
    <3>2. FreeUnit.stage = "free"
      BY DEF FreeUnit
    <3> QED
      BY <3>1, <3>2, LateShrinks
  <2> QED
    BY <2>1, <2>2, <2>4, <2>5, <2>6, QuietStep
<1>4. CASE Unrecorded(u) \/ Panics(u)
  <2>1. /\ faults' = faults + 1 /\ faults < FaultBound
        /\ Leave(u) \/ Unwind(u)
        /\ unit' = [unit EXCEPT ![u] = FreeUnit] /\ UNCHANGED <<rows, route, replays, overtaken>>
        /\ drain' \in {drain, IdleDrain, [drain EXCEPT !.cur = NoUnit]}
    BY <1>4 DEF Unrecorded, Panics, Fault, Return, Released
  <2>2. SendInv'
    BY <1>0, <2>1, LeaveSafe DEF Books
  <2>3. faults' \in 0..FaultBound
    BY <2>1, DeliveryAssumption DEF Books, RestTyped
  <2>4. RestTyped'
    BY <2>1, <2>3, DrainTyped DEF Books, RestTyped
  <2>5. \A e \in Ids : Late(e)' \subseteq Late(e)
    <3>1. \A v \in Units : unit'[v] = IF v = u THEN FreeUnit ELSE unit[v]
      BY <1>0, <2>1
    <3>2. FreeUnit.stage = "free"
      BY DEF FreeUnit
    <3> QED
      BY <3>1, <3>2, LateShrinks
  <2> QED
    BY <2>1, <2>2, <2>4, <2>5, FaultStep
<1> QED
  BY <1>1, <1>2, <1>3, <1>4

LEMMA TimeEffect ==
    ASSUME Books, Clock \/ Crash
    PROVE  Effect
<1>1. ASSUME SendInv', UNCHANGED <<drain, route, faults, replays, overtaken>>,
             \A e \in Ids : rows'[e].status = rows[e].status /\ rows'[e].retry = rows[e].retry,
             \A e \in Ids : rows'[e] = rows[e] \/ rows[e].status \in {"pending", "failed"},
             \A v \in Units, e \in Ids : Carries(v, e)' <=> Carries(v, e),
             \A e \in Ids : Late(e)' \subseteq Late(e)
      PROVE  Effect
  <2>1. RestTyped'
    BY <1>1 DEF Books, RestTyped
  <2>2. ASSUME NEW e \in Ids PROVE LadderMoves(e) /\ StaysSettled(e)
    <3>1. Owed(e)' => Owed(e)
      BY <1>1, NothingOwed
    <3>2. Asked(e)' => Asked(e)
      BY <1>1 DEF Asked
    <3>3. StaysSettled(e)
      BY <1>1 DEF StaysSettled
    <3> QED
      BY <1>1, <3>1, <3>2, <3>3 DEF LadderMoves
  <2> QED
    BY <1>1, <2>1, <2>2 DEF Effect, Books, LadderPaid
<1>2. CASE Tick
  <2>1. UNCHANGED <<drain, route, faults, replays, overtaken>>
    BY <1>2 DEF Tick
  <2>2. \A e \in Ids : Late(e)' \subseteq Late(e)
    <3>1. ASSUME NEW v \in Units
          PROVE  /\ unit'[v].stage = unit[v].stage /\ unit'[v].row = unit[v].row
                 /\ unit'[v].read = unit[v].read
      <4>1. unit'[v] = (IF Executing(v) THEN [unit[v] EXCEPT !.spent = @ + 1] ELSE unit[v]) /\ unit[v] \in Unit
        BY <1>2 DEF Tick, Books, SendInv
      <4> QED
        BY <4>1 DEF Unit
    <3> QED
      BY <3>1, LateShrinks
  <2>3. /\ SendInv'
        /\ \A e \in Ids : rows'[e].status = rows[e].status /\ rows'[e].retry = rows[e].retry
        /\ \A e \in Ids : rows'[e] = rows[e] \/ rows[e].status = "pending"
        /\ \A v \in Units, e \in Ids : Carries(v, e)' <=> Carries(v, e)
    BY <1>2, TickSafe DEF Books
  <2>4. \A e \in Ids : rows'[e] = rows[e] \/ rows[e].status \in {"pending", "failed"}
    BY <2>3
  <2> QED
    BY <1>1, <2>1, <2>2, <2>3, <2>4
<1>3. ASSUME NEW d \in Ids, BackoffOver(d)
      PROVE  Effect
  <2>1. UNCHANGED <<unit, drain, route, faults, replays, overtaken>>
    BY <1>3 DEF BackoffOver
  <2>2. \A v \in Units, e \in Ids : Carries(v, e)' <=> Carries(v, e)
    BY <2>1 DEF Carries, Free
  <2>3. /\ SendInv'
        /\ \A e \in Ids : rows'[e].status = rows[e].status /\ rows'[e].retry = rows[e].retry
        /\ \A e \in Ids : rows'[e] = rows[e] \/ rows[e].status = "failed"
    BY <1>3, BackoffSafe DEF Books
  <2>4. \A e \in Ids : rows'[e] = rows[e] \/ rows[e].status \in {"pending", "failed"}
    BY <2>3
  <2>5. \A e \in Ids : Late(e)' \subseteq Late(e)
    BY <2>1, LateShrinks
  <2> QED
    BY <1>1, <2>1, <2>2, <2>3, <2>4, <2>5
<1>4. CASE Crash
  <2>1. /\ faults' = faults + 1 /\ faults < FaultBound /\ PoolReset
        /\ unit' = [u \in Units |-> FreeUnit] /\ drain' = IdleDrain /\ route' = IdleRoute
        /\ UNCHANGED <<rows, replays, overtaken>>
    BY <1>4 DEF Crash, Fault
  <2>2. SendInv'
    BY <2>1, CrashSafe DEF Books, SendInv, SendersBacked
  <2>3. faults' \in 0..FaultBound
    BY <2>1, DeliveryAssumption DEF Books, RestTyped
  <2>4. RestTyped'
    BY <2>1, <2>3 DEF Books, RestTyped, IdleDrain, IdleRoute
  <2>5. \A e \in Ids : Late(e)' \subseteq Late(e)
    <3>1. FreeUnit.stage = "free" /\ \A v \in Units : unit'[v] = FreeUnit
      BY <2>1 DEF FreeUnit
    <3> QED
      BY <3>1, LateShrinks
  <2> QED
    BY <2>1, <2>2, <2>4, <2>5, FaultStep
<1> QED
  BY <1>2, <1>3, <1>4 DEF Clock

-----------------------------------------------------------------------------
(* The theorems *)

LEMMA PoolStep ==
    ASSUME PoolExact, [Next]_vars
    PROVE  PoolExact'
<1>1. ASSUME UNCHANGED poolVars
      PROVE  PoolExact'
  BY <1>1 DEF poolVars, PoolExact, PoolTypeOK, TicketsExact, LineExact, In
<1>2. ASSUME NEW u \in Units,
             UnitStep(u) \/ Unrecorded(u) \/ Panics(u) \/ ReplayClaim(u)
      PROVE  PoolExact'
  <2>1. \/ Submit(u) \/ Spawn(u) \/ Acquire(u) \/ Leave(u) \/ Unwind(u) \/ UNCHANGED poolVars
    BY <1>2 DEF UnitStep, Hand, Queue, Start, CreateRow, Attempt, LogOutcome, FailRead, FailWrite,
                Unlogged, Unrecorded, Panics, ReplayClaim, Return
  <2> QED
    BY <1>1, <2>1, SubmitExact, SpawnExact, AcquireExact, LeaveExact
<1>3. ASSUME DrainStep \/ DrainErrs \/ Clock
      PROVE  PoolExact'
  BY <1>1, <1>3 DEF DrainStep, DrainReclaim, DrainScan, DrainDone, DrainClaim, DrainErrs, Clock, Tick,
                    BackoffOver
<1>4. ASSUME \/ \E u \in Units, d \in Ids : DispatchEvent(u, d) \/ DispatchLogged(u, d)
             \/ \E d \in Ids, force \in BOOLEAN : ReplayRead(d, force)
             \/ UNCHANGED vars
      PROVE  PoolExact'
  BY <1>1, <1>4 DEF DispatchEvent, DispatchLogged, ReplayRead, vars, poolVars
<1>5. CASE Crash
  BY <1>5, ResetExact DEF Crash
<1> QED
  BY <1>2, <1>3, <1>4, <1>5 DEF Next

LEMMA InitBooks == Init => Books
<1> SUFFICES ASSUME Init PROVE Books
  OBVIOUS
<1>1. /\ place = [u \in Units |-> "none"] /\ line = <<>> /\ inflight = 0
      /\ unit = [u \in Units |-> FreeUnit] /\ drain = IdleDrain /\ route = IdleRoute
      /\ faults = 0 /\ replays = 0 /\ overtaken = [d \in Ids |-> 0]
  BY DEF Init, PoolInit
<1> DEFINE r == [status |-> "none", retry |-> 0, next |-> "null", age |-> 0]
<1>2. r \in Row /\ r.status = "none" /\ r.retry = 0 /\ r.next = "null"
  <2>1. 0 \in 0..StaleTicks
    BY DeliveryAssumption
  <2> QED
    BY <2>1 DEF Row, Statuses
<1>3. rows = [d \in Ids |-> r]
  BY DEF Init
<1> HIDE DEF r
<1>4. rows \in [Ids -> Row] /\ \A d \in Ids : rows[d] = r
  BY <1>2, <1>3
<1>5. FreeUnit.stage = "free" /\ FreeUnit.spent = 0 /\ FreeUnit \in Unit
  BY FreeTyped DEF FreeUnit
<1>6. PoolExact
  <2>1. In({"queued"}) = {} /\ In({"running"}) = {} /\ In({"queued", "running"}) = {}
    BY <1>1 DEF In
  <2>2. /\ Cardinality(In({"queued"})) = 0 /\ Cardinality(In({"running"})) = 0
        /\ Cardinality(In({"queued", "running"})) = 0
    BY <2>1, FS_EmptySet, Zenon
  <2>3. Len(line) = 0 /\ line \in Seq(Units)
    BY <1>1
  <2>4. PoolTypeOK
    BY <1>1, <2>3 DEF PoolTypeOK, Places
  <2>5. TicketsExact
    BY <1>1, <2>2, PoolAssumption DEF TicketsExact
  <2>6. LineExact
    BY <1>1, <2>2, <2>3 DEF LineExact
  <2> QED
    BY <2>4, <2>5, <2>6 DEF PoolExact
<1>7. /\ unit \in [Units -> Unit] /\ \A v \in Units : unit[v] = FreeUnit /\ place[v] = "none"
  BY <1>1, <1>5
<1>8. \A v \in Units, e \in Ids : ~Carries(v, e)
  BY <1>5, <1>7 DEF Carries, Free
<1>9. UnitsPlaced
  BY <1>5, <1>7 DEF UnitsPlaced
<1>10. SendersBacked /\ WaitsBounded
  BY <1>2, <1>4, <1>8 DEF SendersBacked, WaitsBounded
<1>13. ASSUME NEW d \in Ids
       PROVE  /\ Cardinality(Senders(d)) = 0 /\ Cardinality(Late(d)) = 0
              /\ One(AtRest(d)) = 0 /\ overtaken[d] = 0
  <2>1. Senders(d) = {}
    BY <1>8 DEF Senders
  <2>2. Late(d) = {}
    BY <2>1 DEF Late
  <2>3. Cardinality(Senders(d)) = 0 /\ Cardinality(Late(d)) = 0
    BY <2>1, <2>2, FS_EmptySet, Zenon
  <2>4. ~AtRest(d)
    BY <1>2, <1>4 DEF AtRest
  <2> QED
    BY <1>1, <2>3, <2>4 DEF One
<1>14. SendersCounted /\ overtaken \in [Ids -> Nat]
  BY <1>1, <1>13 DEF SendersCounted
<1>11. RestTyped
  BY <1>1, DeliveryAssumption DEF RestTyped, IdleDrain, IdleRoute
<1>12. LadderPaid
  <2>1. route.at # "claim"
    BY <1>1 DEF IdleRoute
  <2>2. ASSUME NEW d \in Ids
        PROVE  rows[d].retry + One(Owed(d)) + One(Asked(d)) + Cardinality(Late(d))
                 <= MaxRetries + replays + faults + overtaken[d]
    <3>1. ~Owed(d) /\ ~Asked(d) /\ rows[d].retry = 0
      BY <1>2, <1>4, <2>1 DEF Owed, Asked
    <3>2. One(Owed(d)) = 0 /\ One(Asked(d)) = 0
      BY <3>1 DEF One
    <3>3. MaxRetries \in Nat
      BY DeliveryAssumption
    <3> QED
      BY <1>1, <1>13, <3>1, <3>2, <3>3
  <2> QED
    BY <2>1, <2>2 DEF LadderPaid
<1> QED
  BY <1>4, <1>6, <1>7, <1>9, <1>10, <1>11, <1>12, <1>14 DEF Books, SendInv

LEMMA NextEffect ==
    ASSUME Books, Next
    PROVE  Effect
<1>1. ASSUME NEW u \in Units, UnitStep(u)
      PROVE  Effect
  BY <1>1, RunsEffect, CreateRowEffect, EndsEffect DEF UnitStep
<1>2. ASSUME NEW u \in Units, Unrecorded(u) \/ Panics(u)
      PROVE  Effect
  BY <1>2, EndsEffect
<1> QED
  BY <1>1, <1>2, DispatchEffect, DrainEffect, ReplayEffect, TimeEffect DEF Next

\* The permits are never over-committed and a ticket is held by exactly the units spawned
\* that have not returned, through panics, inline overflow and crashes.
THEOREM TicketsAlwaysExact == Spec => []TicketsExact
<1>1. Init => PoolExact
  BY InitBooks DEF Books, SendInv
<1>2. PoolExact /\ [Next]_vars => PoolExact'
  BY PoolStep
<1>3. PoolExact => TicketsExact
  BY DEF PoolExact
<1> QED
  BY <1>1, <1>2, <1>3, PTL DEF Spec

\* The log, its senders and the pool under them agree, whatever the limits are: senders are
\* counted, waits are bounded and every turn of the ladder to come is paid for.
THEOREM DeliveryInvariant == Spec => []DeliveryInv
<1>1. Books /\ Next => Books'
  <2> SUFFICES ASSUME Books, Next PROVE Books'
    OBVIOUS
  <2>1. Effect
    BY NextEffect
  <2> QED
    BY <2>1, LadderKept DEF Effect, Books
<1>2. Books /\ UNCHANGED vars => Books'
  <2> SUFFICES ASSUME Books, UNCHANGED vars PROVE Books'
    OBVIOUS
  <2>1. UNCHANGED <<place, line, inflight, rows, unit, drain, route, faults, replays, overtaken>>
    BY DEF vars
  <2>2. SendInv'
    BY <2>1, RowsMoveSafe DEF Books, SendInv, poolVars
  <2>3. RestTyped'
    BY <2>1 DEF Books, RestTyped
  <2>4. \A d \in Ids : Owed(d)' = Owed(d) /\ Asked(d)' = Asked(d) /\ Late(d)' = Late(d)
    BY <2>1 DEF Owed, Asked, Late, Senders, Carries, Free
  <2>5. LadderPaid'
    BY <2>1, <2>4 DEF Books, LadderPaid
  <2> QED
    BY <2>2, <2>3, <2>5 DEF Books
<1>3. Books => DeliveryInv
  BY InvIsBooks
<1> QED
  BY <1>1, <1>2, <1>3, InitBooks, PTL DEF Spec

\* No interleaving of a dispatch, a drain tick, a replay and a stale reclaim puts two
\* senders on one row, but for one more each time the reclaim took it from under a sender.
THEOREM OneSenderAlways == Spec => []SingleSender
<1>1. DeliveryInv => SingleSender
  <2> SUFFICES ASSUME Books, NEW d \in Ids
               PROVE  Cardinality(Senders(d)) <= 1 + overtaken[d]
    BY InvIsBooks DEF SingleSender
  <2>1. Cardinality(Senders(d)) + One(AtRest(d)) <= 1 + overtaken[d] /\ overtaken[d] \in Nat
    BY DEF Books, SendInv, SendersCounted
  <2>2. One(AtRest(d)) \in Nat /\ Cardinality(Senders(d)) \in Nat
    BY SendersFinite DEF One
  <2> DEFINE o == One(AtRest(d))
             n == Cardinality(Senders(d))
  <2> HIDE DEF o, n
  <2> QED
    BY <2>1, <2>2 DEF o, n
<1> QED
  BY <1>1, DeliveryInvariant, PTL

\* Retries alone end in `dead`: a row goes round past the cap only for a replay request, a
\* fault or a sender that was overtaken.
THEOREM LadderAlwaysAccounted == Spec => []LadderAccounted
<1>1. DeliveryInv => LadderAccounted
  <2> SUFFICES ASSUME Books, NEW d \in Ids
               PROVE  rows[d].retry <= MaxRetries + replays + faults + overtaken[d]
    BY InvIsBooks DEF LadderAccounted
  <2> DEFINE n == rows[d].retry
             o == One(Owed(d))
             k == One(Asked(d))
             l == Cardinality(Late(d))
             v == overtaken[d]
  <2>1. n >= MaxRetries => n + o + k + l <= MaxRetries + replays + faults + v
    BY DEF Books, LadderPaid
  <2>2. o \in Nat /\ k \in Nat /\ l \in Nat
    BY LateFinite DEF One
  <2>3. n \in Nat /\ MaxRetries \in Nat /\ replays \in Nat /\ faults \in Nat /\ v \in Nat
    BY RowFields, RestFields, DeliveryAssumption DEF Books, SendInv
  <2> HIDE DEF n, o, k, l, v
  <2>4. n <= MaxRetries + replays + faults + v
    BY <2>1, <2>2, <2>3
  <2> QED
    BY <2>4 DEF n, v
<1> QED
  BY <1>1, DeliveryInvariant, PTL

\* No reclaim or drain tick takes back what is delivered or dead: a replay request does, of
\* a delivered row only a forced one, and the outcome of a sender on a row that was overtaken.
THEOREM SettledStaysFinal == Spec => SettledIsFinal
<1> DEFINE Final == \A d \in Ids : rows[d].status \in {"delivered", "dead"} =>
              \/ rows'[d] = rows[d]
              \/ route.at = "claim" /\ route.row = d
                 /\ (rows[d].status = "delivered" => route.force)
              \/ overtaken[d] > 0 /\ \E u \in Senders(d) : Executing(u)
<1>1. DeliveryInv /\ [Next]_vars => [Final]_vars
  <2> SUFFICES ASSUME Books, Next PROVE Final
    BY InvIsBooks
  <2>1. Effect
    BY NextEffect
  <2> QED
    BY <2>1 DEF Effect, StaysSettled
<1>2. SettledIsFinal <=> [][Final]_vars
  BY DEF SettledIsFinal
<1> HIDE DEF Final
<1> QED
  BY <1>1, <1>2, DeliveryInvariant, PTL DEF Spec

NoneOvertaken == \A d \in Ids : overtaken[d] = 0

\* Where every send that can be under way is over before a row is stale, the reclaim takes
\* no row from under a sender, so that the statements above hold without their exceptions.
THEOREM QuickBacklogNeverOvertaken == ASSUME BacklogDrains PROVE Spec => []NoneOvertaken
<1>1. Init => NoneOvertaken
  BY DEF Init, NoneOvertaken
<1>2. DeliveryInv /\ NoneOvertaken /\ [Next]_vars => NoneOvertaken'
  <2> SUFFICES ASSUME Books, NoneOvertaken, [Next]_vars PROVE NoneOvertaken'
    BY InvIsBooks
  <2>1. CASE DrainReclaim
    <3> SUFFICES ASSUME NEW d \in Ids PROVE overtaken'[d] = 0
      BY DEF NoneOvertaken
    <3>1. \/ overtaken'[d] = overtaken[d]
          \/ /\ rows[d].status = "pending" /\ rows[d].age = StaleTicks
             /\ overtaken'[d] = IF Senders(d) # {} THEN overtaken[d] + 1 ELSE overtaken[d]
      BY <2>1, ReclaimSafe DEF Books
    <3>2. rows[d].status = "pending" /\ rows[d].age = StaleTicks => Senders(d) = {}
      BY CarriedIsYoung, Longest, SMTT(30) DEF Senders, Books
    <3> QED
      BY <3>1, <3>2 DEF NoneOvertaken
  <2>2. ~DrainReclaim => overtaken' = overtaken
    BY DEF Next, vars, UnitStep, DrainStep, Clock, Hand, Queue, Start, CreateRow, Attempt, LogOutcome,
           FailRead, FailWrite, Unlogged, Unrecorded, Panics, ReplayClaim, ReplayRead, DispatchEvent,
           DispatchLogged, DrainScan, DrainClaim, DrainDone, DrainErrs, Tick, BackoffOver, Crash
  <2> QED
    BY <2>1, <2>2 DEF NoneOvertaken
<1> QED
  BY <1>1, <1>2, DeliveryInvariant, PTL DEF Spec
=============================================================================

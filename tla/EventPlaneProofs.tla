-------------------------- MODULE EventPlaneProofs --------------------------
(***************************************************************************)
(* Proofs about the event plane: the accounting of the bus, what a drain    *)
(* pass hands off and how often, and the view of a live stream.             *)
(***************************************************************************)
EXTENDS EventPlane, FiniteSetTheorems, SequenceTheorems, WellFoundedInduction, TLAPS

-----------------------------------------------------------------------------
(* Least and greatest numbers *)

LEMMA MinOfNats ==
    ASSUME NEW S, S \subseteq Nat, S # {}
    PROVE  Min(S) \in S /\ \A x \in S : Min(S) <= x
<1> DEFINE R == OpToRel(<, Nat)
<1>1. IsWellFoundedOn(R, Nat)
  BY NatLessThanWellFounded
<1>2. PICK x \in S : \A y \in S : ~(<<y, x>> \in R)
  <2> HIDE DEF R
  <2> QED
    BY <1>1, WFMin
<1>3. ASSUME NEW y \in S PROVE x <= y
  <2>1. <<y, x>> \notin R
    BY <1>2
  <2>2. y < x => <<y, x>> \in R
    BY DEF OpToRel
  <2> HIDE DEF R
  <2> QED
    BY <2>1, <2>2
<1> QED
  BY <1>3 DEF Min

LEMMA MaxOfNats ==
    ASSUME NEW S, NEW n \in Nat, S \subseteq 0..n, S # {}
    PROVE  Max(S) \in S /\ \A x \in S : x <= Max(S)
<1> DEFINE T == {n - x : x \in S}
<1>1. T \subseteq Nat /\ T # {}
  <2>1. \A x \in S : x \in 0..n
    OBVIOUS
  <2>2. \A x \in S : n - x \in Nat
    <3> TAKE x \in S
    <3>1. x \in 0..n
      BY <2>1
    <3> QED
      BY <3>1
  <2>3. PICK x \in S : TRUE
    OBVIOUS
  <2>4. n - x \in T
    BY <2>3
  <2> QED
    BY <2>2, <2>4
<1>2. Min(T) \in T /\ \A x \in T : Min(T) <= x
  <2> HIDE DEF T
  <2> QED
    BY <1>1, MinOfNats
<1>3. PICK m \in S : Min(T) = n - m
  BY <1>2
<1>4. \A x \in S : x <= m
  <2> TAKE x \in S
  <2>1. n - x \in T
    OBVIOUS
  <2>2. n - m <= n - x
    BY <1>2, <1>3, <2>1
  <2> QED
    BY <2>2
<1> QED
  BY <1>4 DEF Max

-----------------------------------------------------------------------------
(* Queues without repetition *)

\* One element leaves a queue, the rest keep their order.
Without(q, w, i) ==
    /\ Len(w) = Len(q) - 1
    /\ \A j \in 1..Len(w) : w[j] = IF j < i THEN q[j] ELSE q[j + 1]

LEMMA WithoutOne ==
    ASSUME NEW S, NEW q \in Seq(S), NEW w \in Seq(S), NEW i \in 1..Len(q),
           IsInjective(q), Without(q, w, i)
    PROVE  IsInjective(w) /\ ToSet(w) = ToSet(q) \ {q[i]}
<1>1. DOMAIN q = 1..Len(q) /\ DOMAIN w = 1..Len(w) /\ Len(q) \in Nat /\ Len(w) \in Nat
  BY LenProperties
<1>2. \A a, b \in 1..Len(q) : q[a] = q[b] => a = b
  BY <1>1 DEF IsInjective
<1>3. IsInjective(w)
  BY <1>1, <1>2, SMTT(30) DEF IsInjective, Without
<1>4. ToSet(w) \subseteq ToSet(q) \ {q[i]}
  BY <1>1, <1>2, SMTT(30) DEF ToSet, Without
<1>5. ASSUME NEW x \in ToSet(q) \ {q[i]} PROVE x \in ToSet(w)
  <2>1. PICK a \in 1..Len(q) : x = q[a]
    BY <1>1 DEF ToSet
  <2>2. a # i
    BY <2>1
  <2>3. CASE a < i
    <3>1. a \in 1..Len(w) /\ w[a] = x
      BY <1>1, <2>1, <2>3 DEF Without
    <3> QED
      BY <1>1, <3>1 DEF ToSet
  <2>4. CASE a > i
    <3>1. a - 1 \in 1..Len(w) /\ w[a - 1] = x
      BY <1>1, <2>1, <2>4 DEF Without
    <3> QED
      BY <1>1, <3>1 DEF ToSet
  <2> QED
    BY <2>2, <2>3, <2>4, <1>1
<1> QED
  BY <1>3, <1>4, <1>5

LEMMA TailWithout ==
    ASSUME NEW S, NEW q \in Seq(S), q # <<>>
    PROVE  Tail(q) \in Seq(S) /\ Without(q, Tail(q), 1) /\ 1 \in 1..Len(q)
<1>1. Len(q) \in Nat \ {0}
  BY EmptySeq
<1>2. /\ Tail(q) \in Seq(S) /\ Len(Tail(q)) = Len(q) - 1
      /\ \A i \in 1..Len(Tail(q)) : Tail(q)[i] = q[i + 1]
  BY HeadTailProperties
<1> QED
  BY <1>1, <1>2 DEF Without

LEMMA RemoveAtWithout ==
    ASSUME NEW S, NEW q \in Seq(S), NEW i \in 1..Len(q)
    PROVE  RemoveAt(q, i) \in Seq(S) /\ Without(q, RemoveAt(q, i), i)
<1> DEFINE a == SubSeq(q, 1, i - 1)
           b == SubSeq(q, i + 1, Len(q))
<1>1. Len(q) \in Nat /\ \A j \in 1..Len(q) : q[j] \in S
  BY LenProperties, ElementOfSeq
<1>2. /\ a \in Seq(S) /\ Len(a) = i - 1
      /\ \A j \in 1..(i - 1) : a[j] = q[j]
  <2>1. \A j \in 1..(i - 1) : q[j] \in S
    BY <1>1
  <2>2. /\ a \in Seq(S) /\ Len(a) = IF 1 <= i - 1 THEN (i - 1) - 1 + 1 ELSE 0
        /\ \A j \in 1..((i - 1) - 1 + 1) : a[j] = q[1 + j - 1]
    BY <1>1, <2>1, SubSeqProperties
  <2> HIDE DEF a
  <2> QED
    BY <1>1, <2>2
<1>3. /\ b \in Seq(S) /\ Len(b) = Len(q) - i
      /\ \A j \in 1..(Len(q) - i) : b[j] = q[i + j]
  <2>1. \A j \in (i + 1)..Len(q) : q[j] \in S
    BY <1>1
  <2>2. /\ b \in Seq(S) /\ Len(b) = IF i + 1 <= Len(q) THEN Len(q) - (i + 1) + 1 ELSE 0
        /\ \A j \in 1..(Len(q) - (i + 1) + 1) : b[j] = q[(i + 1) + j - 1]
    BY <1>1, <2>1, SubSeqProperties
  <2> HIDE DEF b
  <2>3. \A j \in 1..(Len(q) - i) : (i + 1) + j - 1 = i + j
    BY <1>1
  <2> QED
    BY <1>1, <2>2, <2>3
<1>4. RemoveAt(q, i) = a \o b
  BY DEF RemoveAt
<1> HIDE DEF a, b
<1>5. /\ a \o b \in Seq(S) /\ Len(a \o b) = Len(a) + Len(b)
      /\ \A j \in 1..(Len(a) + Len(b)) : (a \o b)[j] = IF j <= Len(a) THEN a[j] ELSE b[j - Len(a)]
  BY <1>2, <1>3, ConcatProperties
<1>6. ASSUME NEW j \in 1..(Len(q) - 1)
      PROVE  (a \o b)[j] = IF j < i THEN q[j] ELSE q[j + 1]
  <2>1. CASE j < i
    BY <1>1, <1>2, <1>3, <1>5, <2>1
  <2>2. CASE ~(j < i)
    <3>1. (a \o b)[j] = b[j - (i - 1)] /\ j - (i - 1) \in 1..(Len(q) - i)
      BY <1>1, <1>2, <1>3, <1>5, <2>2
    <3>2. b[j - (i - 1)] = q[i + (j - (i - 1))]
      BY <1>1, <1>3, <3>1
    <3>3. i + (j - (i - 1)) = j + 1
      BY <1>1
    <3>4. (a \o b)[j] = q[j + 1]
      BY <3>1, <3>2, <3>3
    <3> QED
      BY <2>2, <3>4
  <2> QED
    BY <2>1, <2>2
<1>7. Len(a \o b) = Len(q) - 1
  BY <1>1, <1>2, <1>3, <1>5
<1> DEFINE w == a \o b
<1>8. /\ w \in Seq(S) /\ Len(w) = Len(q) - 1
      /\ \A j \in 1..(Len(q) - 1) : w[j] = IF j < i THEN q[j] ELSE q[j + 1]
  BY <1>5, <1>6, <1>7
<1> HIDE DEF w
<1>9. Without(q, w, i)
  BY <1>8 DEF Without
<1> QED
  BY <1>4, <1>8, <1>9 DEF w

LEMMA AppendOne ==
    ASSUME NEW S, NEW q \in Seq(S), NEW x \in S, IsInjective(q), x \notin ToSet(q)
    PROVE  /\ Append(q, x) \in Seq(S) /\ Len(Append(q, x)) = Len(q) + 1
           /\ IsInjective(Append(q, x)) /\ ToSet(Append(q, x)) = ToSet(q) \cup {x}
<1> DEFINE w == Append(q, x)
<1>1. /\ w \in Seq(S) /\ Len(w) = Len(q) + 1
      /\ \A i \in 1..Len(q) : w[i] = q[i]
      /\ w[Len(q) + 1] = x
  BY AppendProperties
<1> HIDE DEF w
<1>2. DOMAIN q = 1..Len(q) /\ DOMAIN w = 1..(Len(q) + 1) /\ Len(q) \in Nat
  BY <1>1, LenProperties
<1>3. \A i \in 1..Len(q) : q[i] # x
  BY <1>2 DEF ToSet
<1>4. IsInjective(w)
  <2> SUFFICES ASSUME NEW a \in 1..(Len(q) + 1), NEW b \in 1..(Len(q) + 1), w[a] = w[b] PROVE a = b
    BY <1>2 DEF IsInjective
  <2>1. \A c \in 1..(Len(q) + 1) : c \in 1..Len(q) \/ c = Len(q) + 1
    BY <1>2
  <2>2. \A c, d \in 1..Len(q) : q[c] = q[d] => c = d
    BY <1>2 DEF IsInjective
  <2> QED
    BY <1>1, <1>3, <2>1, <2>2
<1>5. ToSet(w) = ToSet(q) \cup {x}
  <2>1. \A c \in 1..(Len(q) + 1) : c \in 1..Len(q) \/ c = Len(q) + 1
    BY <1>2
  <2>2. ToSet(w) \subseteq ToSet(q) \cup {x}
    BY <1>1, <1>2, <2>1 DEF ToSet
  <2>3. \A c \in 1..Len(q) : c \in 1..(Len(q) + 1)
    BY <1>2
  <2>4. Len(q) + 1 \in 1..(Len(q) + 1)
    BY <1>2
  <2> QED
    BY <1>1, <1>2, <2>2, <2>3, <2>4 DEF ToSet
<1> QED
  BY <1>1, <1>4, <1>5 DEF w

LEMMA EmptyQueue ==
    ToSet(<<>>) = {} /\ IsInjective(<<>>) /\ \A S : <<>> \in Seq(S)
<1>1. DOMAIN <<>> = {}
  OBVIOUS
<1> QED
  BY <1>1, EmptySeq DEF ToSet, IsInjective

LEMMA JoinTwo ==
    ASSUME NEW S, NEW a \in Seq(S), NEW b \in Seq(S), IsInjective(a), IsInjective(b),
           ToSet(a) \cap ToSet(b) = {}
    PROVE  /\ a \o b \in Seq(S) /\ Len(a \o b) = Len(a) + Len(b)
           /\ IsInjective(a \o b) /\ ToSet(a \o b) = ToSet(a) \cup ToSet(b)
<1> DEFINE w == a \o b
<1>1. /\ w \in Seq(S) /\ Len(w) = Len(a) + Len(b)
      /\ \A i \in 1..(Len(a) + Len(b)) : w[i] = IF i <= Len(a) THEN a[i] ELSE b[i - Len(a)]
  BY ConcatProperties
<1> HIDE DEF w
<1>2. /\ DOMAIN a = 1..Len(a) /\ DOMAIN b = 1..Len(b) /\ DOMAIN w = 1..(Len(a) + Len(b))
      /\ Len(a) \in Nat /\ Len(b) \in Nat
  BY <1>1, LenProperties
<1>3. \A i \in 1..Len(a), j \in 1..Len(b) : a[i] # b[j]
  BY <1>2 DEF ToSet
<1>4. \A i \in 1..(Len(a) + Len(b)) :
         \/ i \in 1..Len(a) /\ w[i] = a[i]
         \/ i - Len(a) \in 1..Len(b) /\ w[i] = b[i - Len(a)] /\ ~(i <= Len(a))
  <2> TAKE i \in 1..(Len(a) + Len(b))
  <2>1. CASE i <= Len(a)
    BY <1>1, <1>2, <2>1
  <2>2. CASE ~(i <= Len(a))
    <3>1. i - Len(a) \in 1..Len(b)
      BY <1>2, <2>2
    <3> QED
      BY <1>1, <2>2, <3>1
  <2> QED
    BY <2>1, <2>2
<1>5. IsInjective(w)
  <2> SUFFICES ASSUME NEW i \in 1..(Len(a) + Len(b)), NEW j \in 1..(Len(a) + Len(b)), w[i] = w[j]
               PROVE  i = j
    BY <1>2 DEF IsInjective
  <2>1. CASE i \in 1..Len(a) /\ j \in 1..Len(a)
    <3>1. w[i] = a[i] /\ w[j] = a[j]
      BY <1>1, <1>2, <2>1
    <3> QED
      BY <2>1, <3>1, <1>2 DEF IsInjective
  <2>2. CASE i \notin 1..Len(a) /\ j \notin 1..Len(a)
    <3>1. /\ i - Len(a) \in 1..Len(b) /\ w[i] = b[i - Len(a)]
          /\ j - Len(a) \in 1..Len(b) /\ w[j] = b[j - Len(a)]
      BY <1>4, <2>2
    <3>2. i - Len(a) = j - Len(a)
      BY <3>1, <1>2 DEF IsInjective
    <3> QED
      BY <3>2, <1>2
  <2>3. CASE (i \in 1..Len(a)) # (j \in 1..Len(a))
    BY <1>3, <1>4, <2>3
  <2> QED
    BY <2>1, <2>2, <2>3
<1>6. ToSet(w) \subseteq ToSet(a) \cup ToSet(b)
  BY <1>2, <1>4 DEF ToSet
<1>7. ASSUME NEW x \in ToSet(a) PROVE x \in ToSet(w)
  <2>1. PICK i \in 1..Len(a) : x = a[i]
    BY <1>2 DEF ToSet
  <2>2. i \in 1..(Len(a) + Len(b)) /\ w[i] = x
    BY <1>1, <1>2, <2>1
  <2> QED
    BY <1>2, <2>2 DEF ToSet
<1>8. ASSUME NEW x \in ToSet(b) PROVE x \in ToSet(w)
  <2>1. PICK i \in 1..Len(b) : x = b[i]
    BY <1>2 DEF ToSet
  <2>2. i + Len(a) \in 1..(Len(a) + Len(b)) /\ ~(i + Len(a) <= Len(a)) /\ (i + Len(a)) - Len(a) = i
    BY <1>2
  <2>3. w[i + Len(a)] = x
    BY <1>1, <2>1, <2>2
  <2> QED
    BY <1>2, <2>2, <2>3 DEF ToSet
<1> QED
  BY <1>1, <1>5, <1>6, <1>7, <1>8 DEF w

\* What a queue sheds from its front is as many events as it is entries.
LEMMA ShedFront ==
    ASSUME NEW S, NEW q \in Seq(S), IsInjective(q), NEW k \in 0..Len(q)
    PROVE  LET w == SubSeq(q, k + 1, Len(q))
           IN  /\ w \in Seq(S) /\ Len(w) = Len(q) - k /\ IsInjective(w)
               /\ \E shed \in SUBSET ToSet(q) :
                     /\ IsFiniteSet(shed) /\ Cardinality(shed) = k
                     /\ ToSet(w) = ToSet(q) \ shed
<1> DEFINE w == SubSeq(q, k + 1, Len(q))
           shed == {q[i] : i \in 1..k}
<1>1. Len(q) \in Nat /\ DOMAIN q = 1..Len(q) /\ \A j \in 1..Len(q) : q[j] \in S
  BY LenProperties, ElementOfSeq
<1>2. /\ w \in Seq(S) /\ Len(w) = Len(q) - k
      /\ \A j \in 1..(Len(q) - k) : w[j] = q[k + j]
  <2>1. \A j \in (k + 1)..Len(q) : q[j] \in S
    BY <1>1
  <2>2. /\ w \in Seq(S) /\ Len(w) = IF k + 1 <= Len(q) THEN Len(q) - (k + 1) + 1 ELSE 0
        /\ \A j \in 1..(Len(q) - (k + 1) + 1) : w[j] = q[(k + 1) + j - 1]
    BY <1>1, <2>1, SubSeqProperties
  <2> HIDE DEF w
  <2>3. \A j \in 1..(Len(q) - k) : (k + 1) + j - 1 = k + j
    BY <1>1
  <2>4. Len(q) - (k + 1) + 1 = Len(q) - k
    BY <1>1
  <2>5. Len(w) = Len(q) - k
    <3>1. Len(w) = IF k + 1 <= Len(q) THEN Len(q) - (k + 1) + 1 ELSE 0
      BY <2>2
    <3>2. k \in Nat /\ k <= Len(q) /\ Len(q) \in Nat
      BY <1>1
    <3>3. CASE k = Len(q)
      BY <3>1, <3>2, <3>3
    <3>4. CASE k < Len(q)
      <4>1. Len(w) = Len(q) - (k + 1) + 1
        BY <3>1, <3>2, <3>4, SMTT(30)
      <4> QED
        BY <2>4, <4>1
    <3> QED
      BY <3>2, <3>3, <3>4
  <2>6. \A j \in 1..(Len(q) - k) : w[j] = q[k + j]
    BY <2>2, <2>3, <2>4
  <2> QED
    BY <2>2, <2>5, <2>6
<1> HIDE DEF w
<1>3. \A a, b \in 1..Len(q) : q[a] = q[b] => a = b
  BY <1>1 DEF IsInjective
<1>4. DOMAIN w = 1..(Len(q) - k)
  BY <1>2, LenProperties
<1>5. IsInjective(w)
  <2> SUFFICES ASSUME NEW a \in 1..(Len(q) - k), NEW b \in 1..(Len(q) - k), w[a] = w[b] PROVE a = b
    BY <1>4 DEF IsInjective
  <2>1. k + a \in 1..Len(q) /\ k + b \in 1..Len(q)
    BY <1>1
  <2>2. k + a = k + b
    BY <1>2, <1>3, <2>1
  <2> QED
    BY <2>2, <1>1
<1>6. shed \subseteq ToSet(q)
  BY <1>1 DEF ToSet
<1>7. ToSet(w) = ToSet(q) \ shed
  <2>1. ASSUME NEW x \in ToSet(w) PROVE x \in ToSet(q) \ shed
    <3>1. PICK j \in 1..(Len(q) - k) : x = w[j]
      BY <1>4 DEF ToSet
    <3>2. k + j \in 1..Len(q) /\ x = q[k + j] /\ k + j \notin 1..k
      BY <1>1, <1>2, <3>1
    <3>3. x \notin shed
      BY <1>1, <1>3, <3>2
    <3> QED
      BY <1>1, <3>2, <3>3 DEF ToSet
  <2>2. ASSUME NEW x \in ToSet(q) \ shed PROVE x \in ToSet(w)
    <3>1. PICK i \in 1..Len(q) : x = q[i]
      BY <1>1 DEF ToSet
    <3>2. i \notin 1..k
      BY <3>1
    <3>3. i - k \in 1..(Len(q) - k) /\ k + (i - k) = i
      BY <1>1, <3>2
    <3>4. w[i - k] = x
      BY <1>2, <3>1, <3>3
    <3> QED
      BY <1>4, <3>3, <3>4 DEF ToSet
  <2> QED
    BY <2>1, <2>2
<1>8. IsFiniteSet(shed) /\ Cardinality(shed) = k
  <2> DEFINE g == [i \in 1..k |-> q[i]]
  <2>1. \A i \in 1..k : i \in 1..Len(q)
    BY <1>1
  <2>2. g \in Bijection(1..k, shed)
    <3>1. g \in [1..k -> shed]
      OBVIOUS
    <3>2. \A a, b \in 1..k : g[a] = g[b] => a = b
      BY <1>3, <2>1
    <3>3. \A x \in shed : \E i \in 1..k : g[i] = x
      OBVIOUS
    <3> HIDE DEF g, shed
    <3>4. DOMAIN g = 1..k
      BY <3>1
    <3> QED
      BY <3>1, <3>2, <3>3, <3>4 DEF Bijection, Injection, Surjection, IsInjective
  <2>3. ExistsBijection(1..k, shed)
    BY <2>2 DEF ExistsBijection
  <2>4. IsFiniteSet(1..k) /\ Cardinality(1..k) = k
    <3>1. k \in Int /\ 1 \in Int /\ k \in Nat
      BY <1>1
    <3>2. IsFiniteSet(1..k) /\ Cardinality(1..k) = IF 1 > k THEN 0 ELSE k - 1 + 1
      BY <3>1, FS_Interval
    <3> QED
      BY <3>1, <3>2
  <2> HIDE DEF shed
  <2> QED
    BY <2>3, <2>4, FS_Bijection
<1> HIDE DEF shed
<1> QED
  BY <1>2, <1>5, <1>6, <1>7, <1>8 DEF w

-----------------------------------------------------------------------------
(* The rows of the log *)

LEMMA RowsAreSeqs ==
    ASSUME log \in Seq(SUBSET Seqs)
    PROVE  Rows \subseteq Seqs
<1>1. DOMAIN log = 1..Len(log) /\ \A i \in 1..Len(log) : log[i] \in SUBSET Seqs
  BY LenProperties, ElementOfSeq
<1> QED
  BY <1>1 DEF Rows, ToSet

LEMMA RowsAppended ==
    ASSUME log \in Seq(SUBSET Seqs), NEW B \in SUBSET Seqs, log' = Append(log, B \ Rows)
    PROVE  log' \in Seq(SUBSET Seqs) /\ Rows' = Rows \cup B
<1> DEFINE n == Len(log)
<1>1. /\ log' \in Seq(SUBSET Seqs) /\ Len(log') = n + 1
      /\ \A i \in 1..n : log'[i] = log[i]
      /\ log'[n + 1] = B \ Rows
  BY AppendProperties
<1>2. DOMAIN log = 1..n /\ DOMAIN log' = 1..(n + 1) /\ n \in Nat
  BY <1>1, LenProperties
<1> HIDE DEF n
<1>3. \A i \in 1..(n + 1) : i \in 1..n \/ i = n + 1
  BY <1>2
<1>4. (\A i \in 1..n : i \in 1..(n + 1)) /\ n + 1 \in 1..(n + 1)
  BY <1>2
<1>5. \A x : x \in Rows <=> \E i \in 1..n : x \in log[i]
  BY <1>2 DEF Rows, ToSet
<1>6. \A x : x \in Rows' <=> \E i \in 1..(n + 1) : x \in log'[i]
  BY <1>2 DEF Rows, ToSet
<1>7. \A x : x \in Rows' <=> x \in Rows \/ x \in B
  <2> TAKE x
  <2>1. x \in Rows' => x \in Rows \/ x \in B
    BY <1>1, <1>3, <1>5, <1>6
  <2>2. x \in Rows => x \in Rows'
    BY <1>1, <1>4, <1>5, <1>6
  <2>3. x \in B => x \in Rows'
    BY <1>1, <1>4, <1>6, <2>2
  <2> QED
    BY <2>1, <2>2, <2>3
<1> QED
  BY <1>1, <1>7

LEMMA RowsPruned ==
    ASSUME log \in Seq(SUBSET Seqs), log # <<>>, log' = Tail(log)
    PROVE  log' \in Seq(SUBSET Seqs) /\ Rows' \subseteq Rows
<1>1. /\ log' \in Seq(SUBSET Seqs) /\ Len(log') = Len(log) - 1
      /\ \A i \in 1..Len(log') : log'[i] = log[i + 1]
  BY HeadTailProperties
<1>2. DOMAIN log = 1..Len(log) /\ DOMAIN log' = 1..Len(log') /\ Len(log) \in Nat
  BY <1>1, LenProperties
<1>3. \A i \in 1..Len(log') : i + 1 \in 1..Len(log)
  BY <1>1, <1>2
<1> QED
  BY <1>1, <1>2, <1>3 DEF Rows, ToSet

LEMMA MaxRowBounds ==
    ASSUME log \in Seq(SUBSET Seqs)
    PROVE  /\ MaxRow \in 0..MaxSeq /\ \A s \in Rows : s <= MaxRow
           /\ \A n \in Nat : Rows \subseteq 1..n => MaxRow <= n
<1>1. Rows \subseteq 0..MaxSeq /\ Rows \subseteq Seqs /\ MaxSeq \in Nat
  BY RowsAreSeqs, EventLogAssumption DEF Seqs
<1>2. CASE Rows = {}
  BY <1>1, <1>2 DEF MaxRow
<1>3. CASE Rows # {}
  <2>1. Max(Rows) \in Rows /\ \A x \in Rows : x <= Max(Rows)
    BY <1>1, <1>3, MaxOfNats
  <2>2. MaxRow \in Rows /\ \A x \in Rows : x <= MaxRow
    BY <1>3, <2>1 DEF MaxRow
  <2>3. \A n \in Nat : Rows \subseteq 1..n => MaxRow <= n
    BY <2>2
  <2> QED
    BY <1>1, <2>2, <2>3
<1> QED
  BY <1>2, <1>3

-----------------------------------------------------------------------------
(* The bus: queue, batches and log account for every event *)

BusInv == BusTypeOK /\ EachInOnePlace /\ EveryEventAccounted

\* What a step of the bus within one life of the process is to those who read the log.
BusMoves ==
    /\ seq \in Nat /\ seq' \in Nat /\ seq <= seq' /\ seed' = seed
    /\ Rows' \subseteq Rows \cup (landed' \ landed)
    /\ \A s \in Rows : kind'[s] = kind[s]
    /\ faults \in Nat /\ faults' \in Nat /\ faults <= faults' /\ crashes' = crashes

LEMMA MissingFinite ==
    ASSUME BusTypeOK
    PROVE  IsFiniteSet(Missing) /\ Cardinality(Missing) \in Nat
<1>1. seed + 1 \in Int /\ seq \in Int
  BY DEF BusTypeOK
<1>2. Missing \in SUBSET ((seed + 1)..seq)
  BY DEF Missing
<1> QED
  BY <1>1, <1>2, FS_Interval, FS_Subset, FS_CardinalityType

LEMMA QueuedEffect ==
    ASSUME NEW q \in Seq(Seqs), IsInjective(q), Len(q) <= PendingCap,
           NEW s \in Seqs, s \notin ToSet(q), NEW kd
    PROVE  LET w == Queued(q, s, kd)
           IN  /\ w \in Seq(Seqs) /\ Len(w) <= PendingCap /\ IsInjective(w)
               /\ Len(q) < PendingCap => ToSet(w) = ToSet(q) \cup {s}
               /\ Len(q) >= PendingCap =>
                    \E x \in ToSet(q) \cup {s} : ToSet(w) = (ToSet(q) \cup {s}) \ {x}
<1> DEFINE w == Queued(q, s, kd)
<1>0. PendingCap \in Nat \ {0} /\ Len(q) \in Nat /\ DOMAIN q = 1..Len(q)
  BY EventLogAssumption, LenProperties
<1>1. CASE Len(q) < PendingCap
  <2>1. w = Append(q, s)
    BY <1>1 DEF Queued
  <2>2. /\ w \in Seq(Seqs) /\ Len(w) = Len(q) + 1
        /\ IsInjective(w) /\ ToSet(w) = ToSet(q) \cup {s}
    BY <2>1, AppendOne
  <2> HIDE DEF w
  <2> QED
    BY <1>0, <1>1, <2>2 DEF w
<1>2. ASSUME NEW i \in 1..Len(q), NEW v \in Seq(Seqs), Without(q, v, i),
             w = Append(v, s), ~(Len(q) < PendingCap)
      PROVE  /\ w \in Seq(Seqs) /\ Len(w) <= PendingCap /\ IsInjective(w)
             /\ \E x \in ToSet(q) \cup {s} : ToSet(w) = (ToSet(q) \cup {s}) \ {x}
  <2> HIDE DEF w
  <2>0. Len(v) = Len(q) - 1
    BY <1>2 DEF Without
  <2>1. IsInjective(v) /\ ToSet(v) = ToSet(q) \ {q[i]}
    BY <1>2, WithoutOne
  <2>2. /\ w \in Seq(Seqs) /\ Len(w) = Len(v) + 1
        /\ IsInjective(w) /\ ToSet(w) = ToSet(v) \cup {s}
    BY <1>2, <2>1, AppendOne
  <2>3. q[i] \in ToSet(q) /\ q[i] # s
    BY <1>0 DEF ToSet
  <2>4. ToSet(w) = (ToSet(q) \cup {s}) \ {q[i]}
    BY <2>1, <2>2, <2>3
  <2> QED
    BY <1>0, <1>2, <2>0, <2>2, <2>3, <2>4
<1>3. CASE ~(Len(q) < PendingCap) /\ Progress(q, kd) # {}
  <2> DEFINE i == Min(Progress(q, kd))
  <2>1. Progress(q, kd) \subseteq Nat /\ Progress(q, kd) \subseteq 1..Len(q)
    BY <1>0 DEF Progress
  <2>2. i \in 1..Len(q)
    BY <1>3, <2>1, MinOfNats
  <2>3. w = Append(RemoveAt(q, i), s)
    BY <1>3 DEF Queued
  <2> HIDE DEF i, w
  <2>4. RemoveAt(q, i) \in Seq(Seqs) /\ Without(q, RemoveAt(q, i), i)
    BY <2>2, RemoveAtWithout
  <2>5. /\ w \in Seq(Seqs) /\ Len(w) <= PendingCap /\ IsInjective(w)
        /\ \E x \in ToSet(q) \cup {s} : ToSet(w) = (ToSet(q) \cup {s}) \ {x}
    BY <1>2, <1>3, <2>2, <2>3, <2>4
  <2> QED
    BY <1>3, <2>5 DEF w
<1>4. CASE ~(Len(q) < PendingCap) /\ Progress(q, kd) = {} /\ kd[s] = "progress"
  <2>1. w = q
    BY <1>4 DEF Queued
  <2>2. ToSet(q) = (ToSet(q) \cup {s}) \ {s}
    OBVIOUS
  <2> HIDE DEF w
  <2> QED
    BY <1>4, <2>1, <2>2 DEF w
<1>5. CASE ~(Len(q) < PendingCap) /\ Progress(q, kd) = {} /\ kd[s] # "progress"
  <2>1. w = Append(Tail(q), s)
    BY <1>5 DEF Queued
  <2>2. q # <<>>
    BY <1>0, <1>5, EmptySeq
  <2>3. Tail(q) \in Seq(Seqs) /\ Without(q, Tail(q), 1) /\ 1 \in 1..Len(q)
    BY <2>2, TailWithout
  <2> HIDE DEF w
  <2>4. /\ w \in Seq(Seqs) /\ Len(w) <= PendingCap /\ IsInjective(w)
        /\ \E x \in ToSet(q) \cup {s} : ToSet(w) = (ToSet(q) \cup {s}) \ {x}
    BY <1>2, <1>5, <2>1, <2>3
  <2> QED
    BY <1>5, <2>4 DEF w
<1> QED
  BY <1>1, <1>3, <1>4, <1>5

LEMMA MaxPair ==
    ASSUME NEW a \in Int, NEW b \in Int
    PROVE  Max({a, b}) \in {a, b} /\ Max({a, b}) >= a /\ Max({a, b}) >= b
<1>1. \E x \in {a, b} : \A y \in {a, b} : x >= y
  <2>1. CASE a >= b
    BY <2>1
  <2>2. CASE b >= a
    BY <2>2
  <2> QED
    BY <2>1, <2>2
<1> QED
  BY <1>1 DEF Max

LEMMA EmitBus ==
    ASSUME BusInv, NEW k \in Kinds, Emit(k)
    PROVE  BusInv' /\ BusMoves /\ landed' = landed
<1> DEFINE s == seq + 1
           kd == [kind EXCEPT ![s] = k]
           P == ToSet(pending)
           Q == ToSet(pending')
<1>t. /\ seq \in 0..MaxSeq /\ seed \in 0..seq /\ MaxSeq \in Nat /\ PendingCap \in Nat \ {0}
      /\ kind \in [Seqs -> Kinds \cup {"none"}]
      /\ ringFrom \in (seed + 1)..(seq + 1) /\ seq - ringFrom < RingCap /\ RingCap \in Nat \ {0}
      /\ pending \in Seq(Seqs) /\ Len(pending) <= PendingCap /\ Len(pending) \in Nat
      /\ dropped \in Nat /\ lifecycleDropped \in 0..dropped /\ faults \in Nat
  BY EventLogAssumption, LenProperties DEF BusInv, BusTypeOK
<1>e. EachInOnePlace
  BY DEF BusInv
<1>a. /\ seq < MaxSeq /\ seq' = s /\ kind' = kd
      /\ ringFrom' \in Max({ringFrom, s - RingCap + 1})..s
      /\ pending' = Queued(pending, s, kd)
      /\ dropped' = dropped + (IF Len(pending) >= PendingCap THEN 1 ELSE 0)
      /\ lifecycleDropped' = lifecycleDropped + (IF Displaced(pending, s, kd) THEN 1 ELSE 0)
      /\ UNCHANGED <<seed, hand, log, landed, lost, faults, crashes, prunes>>
  BY DEF Emit
<1>1. s \in Seqs /\ s \notin P /\ s \notin Settled /\ s \notin Rows
      /\ (\A f \in Flushers : s \notin ToSet(hand[f])) /\ s \notin (seed + 1)..seq
  <2>1. s \notin 1..seq /\ s \notin (seed + 1)..seq /\ s \in Seqs
    BY <1>t, <1>a DEF Seqs
  <2> HIDE DEF s
  <2> QED
    BY <2>1, <1>e DEF EachInOnePlace
<1>2. /\ pending' \in Seq(Seqs) /\ Len(pending') <= PendingCap /\ IsInjective(pending')
      /\ Len(pending) < PendingCap => Q = P \cup {s}
      /\ Len(pending) >= PendingCap => \E x \in P \cup {s} : Q = (P \cup {s}) \ {x}
  <2>1. IsInjective(pending)
    BY <1>e DEF EachInOnePlace
  <2> HIDE DEF s, kd
  <2> QED
    BY <1>1, <1>t, <1>a, <2>1, QueuedEffect
<1>3. /\ (seed' + 1)..seq' = ((seed + 1)..seq) \cup {s}
      /\ 1..seq \subseteq 1..seq'
  BY <1>t, <1>a
<1>4. BusTypeOK'
  <2>0. seq < MaxSeq /\ seq' = seq + 1 /\ seed' = seed /\ kind' = kd
    BY <1>a
  <2>1. seq' \in 0..MaxSeq /\ seed' \in 0..seq' /\ kind' \in [Seqs -> Kinds \cup {"none"}]
    <3>1. seq' \in 0..MaxSeq /\ seed' \in 0..seq'
      BY <1>t, <2>0
    <3> HIDE DEF s
    <3> QED
      BY <1>t, <2>0, <3>1
  <2>2. ringFrom' \in (seed' + 1)..(seq' + 1) /\ seq' - ringFrom' < RingCap
    <3>1. Max({ringFrom, s - RingCap + 1}) \in {ringFrom, s - RingCap + 1}
          /\ Max({ringFrom, s - RingCap + 1}) >= ringFrom
          /\ Max({ringFrom, s - RingCap + 1}) >= s - RingCap + 1
      <4>1. ringFrom \in Int /\ s - RingCap + 1 \in Int
        BY <1>t
      <4> HIDE DEF s
      <4> QED
        BY <4>1, MaxPair
    <3>2. PICK m \in Int : m = Max({ringFrom, s - RingCap + 1})
      BY <1>t, <3>1
    <3>3. ringFrom' \in m..s /\ m >= ringFrom /\ m >= s - RingCap + 1
      BY <1>a, <3>1, <3>2
    <3>4. /\ seq \in Nat /\ seed \in Nat /\ RingCap \in Nat /\ ringFrom \in Nat
          /\ seed + 1 <= ringFrom
      BY <1>t
    <3>5. ringFrom' \in Int /\ m <= ringFrom' /\ ringFrom' <= seq + 1
      BY <3>2, <3>3, <3>4
    <3>6. seed + 1 <= ringFrom' /\ (seq + 1) - RingCap + 1 <= ringFrom'
      BY <3>2, <3>3, <3>4, <3>5
    <3>7. seq' = seq + 1 /\ seed' = seed
      BY <2>0
    <3>8. ringFrom' \in (seed + 1)..((seq + 1) + 1)
      BY <3>4, <3>5, <3>6
    <3>9. (seq + 1) - ringFrom' < RingCap
      <4>1. \A a, b, c \in Int : a - b + 1 <= c => a - c < b
        OBVIOUS
      <4>2. seq + 1 \in Int /\ RingCap \in Int
        BY <3>4
      <4> QED
        BY <3>5, <3>6, <4>1, <4>2
    <3> QED
      BY <3>7, <3>8, <3>9
  <2>3. dropped' \in Nat /\ lifecycleDropped' \in 0..dropped'
    <3>1. Displaced(pending, s, kd) => Len(pending) >= PendingCap
      BY DEF Displaced
    <3> QED
      BY <1>t, <1>a, <3>1
  <2> HIDE DEF s, kd
  <2> QED
    BY <1>a, <1>2, <2>1, <2>2, <2>3 DEF BusInv, BusTypeOK
<1>5. Rows' = Rows
  BY <1>a DEF Rows
<1>6. Q \subseteq P \cup {s}
  BY <1>2, <1>t
<1> HIDE DEF s, kd, P, Q
<1>7. EachInOnePlace'
  <2>1. ToSet(pending)' = Q /\ ToSet(pending) = P
    BY DEF P, Q
  <2>2. \A f \in Flushers : ToSet(hand[f])' = ToSet(hand[f]) /\ IsInjective(hand[f])' = IsInjective(hand[f])
    BY <1>a
  <2>3. Settled' = Settled /\ landed' \cap lost' = {} /\ IsInjective(pending)'
    BY <1>a, <1>e, <1>2 DEF Settled, EachInOnePlace
  <2>4. Settled' \subseteq (seed' + 1)..seq' /\ Rows' \subseteq 1..seq'
    BY <1>e, <1>3, <1>5, <2>3 DEF EachInOnePlace
  <2>5. ToSet(pending') \subseteq ((seed' + 1)..seq') \ Settled'
    BY <1>e, <1>1, <1>3, <1>6, <2>1, <2>3 DEF EachInOnePlace
  <2>6. ASSUME NEW f \in Flushers
        PROVE  ToSet(hand'[f]) \subseteq ((seed' + 1)..seq') \ (Settled' \cup ToSet(pending'))
    BY <1>e, <1>1, <1>3, <1>6, <2>1, <2>2, <2>3 DEF EachInOnePlace
  <2> QED
    BY <1>e, <2>2, <2>3, <2>4, <2>5, <2>6 DEF EachInOnePlace
<1>8. EveryEventAccounted'
  <2>0. IsFiniteSet(Missing) /\ Cardinality(Missing) = dropped
    BY MissingFinite DEF BusInv, EveryEventAccounted
  <2>1. \A x : x \in Missing <=> /\ x \in (seed + 1)..seq /\ x \notin Settled /\ x \notin P
                                 /\ \A f \in Flushers : x \notin ToSet(hand[f])
    BY DEF Missing, P
  <2>2. \A x : x \in Missing' <=> /\ x \in ((seed + 1)..seq) \cup {s} /\ x \notin Settled /\ x \notin Q
                                  /\ \A f \in Flushers : x \notin ToSet(hand[f])
    <3>1. Settled' = Settled /\ hand' = hand
      BY <1>a DEF Settled
    <3> QED
      BY <1>3, <3>1 DEF Missing, Q
  <2>3. CASE Len(pending) < PendingCap
    <3>1. Missing' = Missing
      BY <1>1, <1>2, <2>1, <2>2, <2>3
    <3>2. dropped' = dropped
      BY <1>t, <1>a, <2>3
    <3> QED
      BY <2>0, <3>1, <3>2 DEF EveryEventAccounted
  <2>4. CASE ~(Len(pending) < PendingCap)
    <3>1. PICK x \in P \cup {s} : Q = (P \cup {s}) \ {x}
      <4>1. Len(pending) >= PendingCap
        BY <1>t, <2>4
      <4> QED
        BY <1>2, <4>1
    <3>2. x \notin Missing
      BY <1>1, <2>1
    <3>3. /\ x \in ((seed + 1)..seq) \cup {s} /\ x \notin Settled
          /\ \A f \in Flushers : x \notin ToSet(hand[f])
      BY <1>1, <1>e DEF EachInOnePlace, P
    <3>4. Missing' = Missing \cup {x}
      BY <1>1, <2>1, <2>2, <3>1, <3>3
    <3>5. dropped' = dropped + 1
      BY <1>t, <1>a, <2>4
    <3>6. Cardinality(Missing \cup {x}) = Cardinality(Missing) + 1
      BY <2>0, <3>2, FS_AddElement
    <3> QED
      BY <2>0, <3>4, <3>5, <3>6 DEF EveryEventAccounted
  <2> QED
    BY <2>3, <2>4
<1>9. BusMoves
  <2>1. seq' \in Nat /\ seq \in Nat /\ seq <= seq'
    BY <1>t, <1>a DEF s
  <2>2. \A r \in Rows : r \in Seqs /\ r # s
    BY <1>1, RowsAreSeqs DEF BusInv, BusTypeOK
  <2>3. \A r \in Rows : kind'[r] = kind[r]
    BY <1>t, <1>a, <2>2 DEF kd
  <2> QED
    BY <1>t, <1>a, <1>5, <2>1, <2>3 DEF BusMoves
<1> QED
  BY <1>4, <1>7, <1>8, <1>9, <1>a DEF BusInv

LEMMA TakeBus ==
    ASSUME BusInv, NEW f \in Flushers, Take(f)
    PROVE  BusInv' /\ BusMoves /\ landed' = landed
<1>t. BusTypeOK /\ EachInOnePlace /\ EveryEventAccounted
  BY DEF BusInv
<1>a. /\ hand[f] = <<>> /\ pending # <<>>
      /\ hand' = [hand EXCEPT ![f] = pending] /\ pending' = <<>>
      /\ UNCHANGED <<seq, seed, kind, ringFrom, log, landed, lost, dropped, lifecycleDropped,
                     faults, crashes, prunes>>
  BY DEF Take
<1>1. Rows' = Rows /\ Settled' = Settled
  BY <1>a DEF Rows, Settled
<1>2. /\ hand' \in [Flushers -> Seq(Seqs)] /\ hand'[f] = pending
      /\ \A g \in Flushers : g # f => hand'[g] = hand[g]
  BY <1>t, <1>a DEF BusTypeOK
<1>3. BusTypeOK'
  <2>1. Len(pending') <= PendingCap /\ pending' \in Seq(Seqs)
    BY <1>a, EventLogAssumption, EmptySeq
  <2> QED
    BY <1>t, <1>a, <1>2, <2>1 DEF BusTypeOK
<1> DEFINE P == ToSet(pending)
           H == [g \in Flushers |-> ToSet(hand[g])]
<1>4. /\ H[f] = {} /\ ToSet(pending') = {} /\ IsInjective(pending')
      /\ ToSet(hand'[f]) = P /\ \A g \in Flushers : g # f => ToSet(hand'[g]) = H[g]
  BY <1>a, <1>2, EmptyQueue
<1>5. EachInOnePlace'
  <2>1. \A g \in Flushers : IsInjective(hand'[g])
    BY <1>t, <1>2 DEF EachInOnePlace
  <2>2. /\ P \subseteq ((seed + 1)..seq) \ Settled
        /\ \A g \in Flushers : H[g] \subseteq ((seed + 1)..seq) \ (Settled \cup P)
        /\ \A g, h \in Flushers : g # h => H[g] \cap H[h] = {}
    BY <1>t DEF EachInOnePlace
  <2> HIDE DEF P, H
  <2>3. \A g \in Flushers : ToSet(hand'[g]) \subseteq ((seed + 1)..seq) \ Settled
    BY <1>4, <2>2
  <2>4. \A g, h \in Flushers : g # h => ToSet(hand'[g]) \cap ToSet(hand'[h]) = {}
    BY <1>4, <2>2
  <2> QED
    BY <1>t, <1>a, <1>1, <1>4, <2>1, <2>3, <2>4 DEF EachInOnePlace
<1>6. EveryEventAccounted'
  <2>1. \A x : (x \in ToSet(pending) \/ \E g \in Flushers : x \in ToSet(hand[g]))
           <=> (x \in ToSet(pending') \/ \E g \in Flushers : x \in ToSet(hand'[g]))
    <3> HIDE DEF P
    <3>1. \A x : (x \in P \/ \E g \in Flushers : x \in H[g])
             <=> (x \in ToSet(pending') \/ \E g \in Flushers : x \in ToSet(hand'[g]))
      <4> HIDE DEF H
      <4> QED
        BY <1>4
    <3> QED
      BY <3>1 DEF P
  <2>2. Missing' = Missing
    BY <1>a, <1>1, <2>1 DEF Missing
  <2> QED
    BY <1>t, <1>a, <2>2 DEF EveryEventAccounted
<1> QED
  BY <1>t, <1>a, <1>1, <1>3, <1>5, <1>6 DEF BusInv, BusMoves, BusTypeOK

LEMMA LandBus ==
    ASSUME BusInv, NEW f \in Flushers, Land(f) \/ Cancelled(f)
    PROVE  BusInv' /\ BusMoves
<1>t. BusTypeOK /\ EachInOnePlace /\ EveryEventAccounted
  BY DEF BusInv
<1> DEFINE B == ToSet(hand[f])
           P == ToSet(pending)
           H == [g \in Flushers |-> ToSet(hand[g])]
<1>a. /\ \/ log' = Append(log, B \ Rows) /\ landed' = landed \cup B /\ lost' = lost
         \/ log' = log /\ landed' = landed /\ lost' = lost \cup B
      /\ hand' = [hand EXCEPT ![f] = <<>>]
      /\ UNCHANGED <<seq, seed, kind, ringFrom, pending, dropped, lifecycleDropped,
                     faults, crashes, prunes>>
  BY DEF Land, Cancelled
<1>n. seq \in Nat /\ seed \in Nat /\ seq <= MaxSeq /\ MaxSeq \in Nat
  BY <1>t, EventLogAssumption DEF BusTypeOK
<1>1. /\ B \subseteq ((seed + 1)..seq) \ (Settled \cup P) /\ B = H[f]
      /\ Settled \subseteq (seed + 1)..seq /\ Rows \subseteq 1..seq
      /\ P \subseteq ((seed + 1)..seq) \ Settled
      /\ \A g \in Flushers : H[g] \subseteq ((seed + 1)..seq) \ (Settled \cup P)
      /\ \A g, h \in Flushers : g # h => H[g] \cap H[h] = {}
  BY <1>t DEF EachInOnePlace
<1>s. Settled' = Settled \cup B
  BY <1>a DEF Settled
<1>2. (seed + 1)..seq \subseteq 1..seq /\ (seed + 1)..seq \subseteq Seqs
  BY <1>n DEF Seqs
<1>3. /\ log' \in Seq(SUBSET Seqs) /\ Rows' \subseteq Rows \cup B
      /\ landed' = landed => Rows' = Rows
  <2>1. log \in Seq(SUBSET Seqs) /\ B \in SUBSET Seqs
    BY <1>t, <1>1, <1>2 DEF BusTypeOK
  <2>2. CASE log' = log
    BY <2>1, <2>2 DEF Rows
  <2>3. CASE log' = Append(log, B \ Rows) /\ landed' = landed \cup B
    <3>1. landed' = landed => B = {}
      BY <1>1, <2>3 DEF Settled
    <3> HIDE DEF B
    <3>2. log' \in Seq(SUBSET Seqs) /\ Rows' = Rows \cup B
      BY <2>1, <2>3, RowsAppended
    <3> QED
      BY <3>1, <3>2
  <2> QED
    BY <1>a, <2>2, <2>3
<1>4. /\ hand' \in [Flushers -> Seq(Seqs)] /\ hand'[f] = <<>>
      /\ \A g \in Flushers : g # f => hand'[g] = hand[g]
  <2>1. <<>> \in Seq(Seqs)
    BY EmptyQueue
  <2> QED
    BY <1>t, <1>a, <2>1 DEF BusTypeOK
<1>5. /\ ToSet(hand'[f]) = {} /\ IsInjective(hand'[f])
      /\ \A g \in Flushers : g # f => ToSet(hand'[g]) = H[g]
      /\ \A g \in Flushers : IsInjective(hand'[g])
  BY <1>t, <1>4, EmptyQueue DEF EachInOnePlace
<1>6. BusTypeOK'
  <2>1. landed' \subseteq Seqs /\ lost' \subseteq Seqs
    BY <1>t, <1>a, <1>1, <1>2 DEF BusTypeOK
  <2> QED
    BY <1>t, <1>a, <1>3, <1>4, <2>1 DEF BusTypeOK
<1>7. ToSet(pending') = P
  BY <1>a
<1>8. Settled' = Settled \cup H[f] /\ seed' = seed /\ seq' = seq
  BY <1>a, <1>s
<1>12. landed' \cap lost' = {}
  BY <1>t, <1>a, <1>1 DEF EachInOnePlace, Settled
<1> HIDE DEF B, P, H
<1>9. EachInOnePlace'
  <2>1. Settled' \subseteq (seed' + 1)..seq' /\ Rows' \subseteq 1..seq'
    BY <1>1, <1>2, <1>3, <1>8
  <2>2. ToSet(pending') \subseteq ((seed' + 1)..seq') \ Settled' /\ IsInjective(pending')
    BY <1>t, <1>a, <1>1, <1>7, <1>8 DEF EachInOnePlace
  <2>3. \A g \in Flushers : ToSet(hand'[g]) \subseteq ((seed' + 1)..seq') \ (Settled' \cup ToSet(pending'))
    BY <1>1, <1>5, <1>7, <1>8
  <2>4. \A g, h \in Flushers : g # h => ToSet(hand'[g]) \cap ToSet(hand'[h]) = {}
    BY <1>1, <1>5
  <2> QED
    BY <1>5, <1>12, <2>1, <2>2, <2>3, <2>4 DEF EachInOnePlace
<1>10. EveryEventAccounted'
  <2>1. \A x : x \in Missing <=> /\ x \in (seed + 1)..seq /\ x \notin Settled /\ x \notin P
                                 /\ \A g \in Flushers : x \notin H[g]
    BY DEF Missing, P, H
  <2>2. \A x : x \in Missing' <=> /\ x \in (seed + 1)..seq /\ x \notin Settled' /\ x \notin P
                                  /\ \A g \in Flushers : x \notin ToSet(hand'[g])
    BY <1>7, <1>8 DEF Missing
  <2>3. ASSUME NEW x PROVE x \in Missing' <=> x \in Missing
    <3>1. x \in Missing' => x \in Missing
      <4>1. \A g \in Flushers : x \notin Settled' /\ x \notin ToSet(hand'[g]) => x \notin H[g]
        BY <1>5, <1>8
      <4> QED
        BY <1>8, <2>1, <2>2, <4>1
    <3>2. x \in Missing => x \in Missing'
      <4>1. \A g \in Flushers : x \notin H[g] => x \notin ToSet(hand'[g])
        BY <1>5
      <4> QED
        BY <1>8, <2>1, <2>2, <4>1
    <3> QED
      BY <3>1, <3>2
  <2>4. Missing' = Missing
    BY <2>3
  <2> QED
    BY <1>t, <1>a, <2>4 DEF EveryEventAccounted
<1>11. BusMoves
  <2>1. Rows' \subseteq Rows \cup (landed' \ landed)
    <3>1. CASE landed' = landed
      BY <1>3, <3>1
    <3>2. CASE landed' = landed \cup B
      BY <1>1, <1>3, <3>2 DEF Settled
    <3> QED
      BY <1>a, <3>1, <3>2
  <2> QED
    BY <1>t, <1>a, <1>n, <2>1 DEF BusMoves, BusTypeOK
<1> QED
  BY <1>6, <1>9, <1>10, <1>11 DEF BusInv

LEMMA LandFailsBus ==
    ASSUME BusInv, NEW f \in Flushers, LandFails(f)
    PROVE  BusInv' /\ BusMoves /\ landed' = landed
<1>t. BusTypeOK /\ EachInOnePlace /\ EveryEventAccounted
  BY DEF BusInv
<1> DEFINE q == hand[f] \o pending
           P == ToSet(pending)
           Q == ToSet(pending')
           H == [g \in Flushers |-> ToSet(hand[g])]
           n == Surplus(q)
<1>a. /\ faults < FaultBound /\ pending' = SubSeq(q, n + 1, Len(q))
      /\ dropped' = dropped + n
      /\ hand' = [hand EXCEPT ![f] = <<>>] /\ faults' = faults + 1
      /\ UNCHANGED <<seq, seed, kind, ringFrom, log, landed, lost, lifecycleDropped, crashes, prunes>>
  BY DEF LandFails, Requeued
<1>1. /\ Settled \subseteq (seed + 1)..seq /\ Rows \subseteq 1..seq
      /\ P \subseteq ((seed + 1)..seq) \ Settled
      /\ \A g \in Flushers : H[g] \subseteq ((seed + 1)..seq) \ (Settled \cup P)
      /\ \A g, h \in Flushers : g # h => H[g] \cap H[h] = {}
  BY <1>t DEF EachInOnePlace
<1>2. /\ q \in Seq(Seqs) /\ IsInjective(q) /\ ToSet(q) = H[f] \cup P
  <2>1. /\ hand[f] \in Seq(Seqs) /\ pending \in Seq(Seqs)
        /\ IsInjective(hand[f]) /\ IsInjective(pending)
        /\ ToSet(hand[f]) \cap ToSet(pending) = {}
    BY <1>t, <1>1 DEF BusTypeOK, EachInOnePlace
  <2> QED
    BY <2>1, JoinTwo
<1>3. Len(q) \in Nat /\ PendingCap \in Nat
  BY <1>2, LenProperties, EventLogAssumption
<1> HIDE DEF q
<1>4. n \in 0..Len(q) /\ Len(q) - n <= PendingCap /\ n \in Nat
  BY <1>3 DEF Surplus
<1> HIDE DEF n
<1>5. /\ pending' \in Seq(Seqs) /\ Len(pending') = Len(q) - n /\ IsInjective(pending')
      /\ \E shed \in SUBSET ToSet(q) :
            /\ IsFiniteSet(shed) /\ Cardinality(shed) = n /\ Q = ToSet(q) \ shed
  BY <1>a, <1>2, <1>4, ShedFront
<1>6. PICK shed \in SUBSET (H[f] \cup P) :
            /\ IsFiniteSet(shed) /\ Cardinality(shed) = n /\ Q = (H[f] \cup P) \ shed
  <2> HIDE DEF Q, P, H
  <2> QED
    BY <1>2, <1>5
<1>7. /\ hand' \in [Flushers -> Seq(Seqs)] /\ hand'[f] = <<>>
      /\ \A g \in Flushers : g # f => hand'[g] = hand[g]
  <2>1. <<>> \in Seq(Seqs)
    BY EmptyQueue
  <2> QED
    BY <1>t, <1>a, <2>1 DEF BusTypeOK
<1>8. /\ ToSet(hand'[f]) = {}
      /\ \A g \in Flushers : g # f => ToSet(hand'[g]) = H[g]
      /\ \A g \in Flushers : IsInjective(hand'[g])
  BY <1>t, <1>7, EmptyQueue DEF EachInOnePlace
<1>9. BusTypeOK'
  <2>1. dropped' \in Nat /\ lifecycleDropped' \in 0..dropped' /\ faults' \in 0..FaultBound
    BY <1>t, <1>a, <1>4, EventLogAssumption DEF BusTypeOK
  <2>2. Len(pending') <= PendingCap
    BY <1>4, <1>5
  <2> QED
    BY <1>t, <1>a, <1>5, <1>7, <2>1, <2>2 DEF BusTypeOK
<1>10. /\ Settled' = Settled /\ seed' = seed /\ seq' = seq /\ Rows' = Rows
       /\ landed' = landed /\ landed' \cap lost' = {}
  BY <1>t, <1>a DEF Rows, Settled, EachInOnePlace
<1>11. ToSet(pending') = Q
  OBVIOUS
<1>12. \A x : x \in Missing <=> /\ x \in (seed + 1)..seq /\ x \notin Settled /\ x \notin P
                                /\ \A g \in Flushers : x \notin H[g]
  BY DEF Missing
<1> HIDE DEF P, Q, H
<1>13. EachInOnePlace'
  <2>1. Settled' \subseteq (seed' + 1)..seq' /\ Rows' \subseteq 1..seq'
    BY <1>1, <1>10
  <2>2. ToSet(pending') \subseteq ((seed' + 1)..seq') \ Settled'
    BY <1>1, <1>6, <1>10, <1>11
  <2>3. ASSUME NEW g \in Flushers
        PROVE  ToSet(hand'[g]) \subseteq ((seed' + 1)..seq') \ (Settled' \cup ToSet(pending'))
    <3>1. CASE g = f
      BY <1>8, <3>1
    <3>2. CASE g # f
      <4>1. H[g] \cap H[f] = {} /\ H[g] \subseteq ((seed + 1)..seq) \ (Settled \cup P)
        BY <1>1, <3>2
      <4>2. ToSet(hand'[g]) = H[g]
        BY <1>8, <3>2
      <4> QED
        BY <1>6, <1>10, <1>11, <4>1, <4>2
    <3> QED
      BY <3>1, <3>2
  <2>4. \A g, h \in Flushers : g # h => ToSet(hand'[g]) \cap ToSet(hand'[h]) = {}
    BY <1>1, <1>8
  <2> QED
    BY <1>5, <1>8, <1>10, <2>1, <2>2, <2>3, <2>4 DEF EachInOnePlace
<1>14. EveryEventAccounted'
  <2>1. \A x : x \in Missing' <=> /\ x \in (seed + 1)..seq /\ x \notin Settled /\ x \notin Q
                                  /\ \A g \in Flushers : x \notin ToSet(hand'[g])
    BY <1>10, <1>11 DEF Missing
  <2>2. shed \subseteq ((seed + 1)..seq) \ Settled
    BY <1>1, <1>6
  <2>3. ASSUME NEW x \in shed PROVE x \in Missing' /\ x \notin Missing
    <3>1. \A g \in Flushers : g # f => x \notin H[g]
      BY <1>1, <1>6, <2>3
    <3>2. x \notin Q /\ (x \in H[f] \/ x \in P)
      BY <1>6, <2>3
    <3> QED
      BY <1>8, <1>12, <2>1, <2>2, <3>1, <3>2
  <2>4. ASSUME NEW x PROVE x \in Missing' <=> x \in Missing \/ x \in shed
    <3>1. x \in Missing' => x \in Missing \/ x \in shed
      BY <1>6, <1>8, <1>12, <2>1
    <3>2. x \in Missing => x \in Missing'
      BY <1>6, <1>8, <1>12, <2>1
    <3> QED
      BY <2>3, <3>1, <3>2
  <2>5. Missing' = Missing \cup shed /\ Missing \cap shed = {}
    BY <2>3, <2>4
  <2>6. IsFiniteSet(Missing) /\ Cardinality(Missing) = dropped /\ dropped \in Nat
    BY <1>t, MissingFinite DEF EveryEventAccounted, BusTypeOK
  <2>7. Cardinality(Missing \cup shed) = Cardinality(Missing) + Cardinality(shed) - Cardinality(Missing \cap shed)
    BY <1>6, <2>6, FS_Union
  <2>8. Cardinality(Missing \cap shed) = 0
    BY <2>5, FS_EmptySet
  <2>9. Cardinality(Missing') = dropped + n
    BY <1>4, <1>6, <2>5, <2>6, <2>7, <2>8
  <2> QED
    BY <1>a, <2>9 DEF EveryEventAccounted
<1>15. BusMoves
  BY <1>t, <1>a, <1>10 DEF BusMoves, BusTypeOK
<1> QED
  BY <1>9, <1>10, <1>13, <1>14, <1>15 DEF BusInv

LEMMA PruneBus ==
    ASSUME BusInv, Prune
    PROVE  BusInv' /\ BusMoves /\ landed' = landed
<1>t. BusTypeOK /\ EachInOnePlace /\ EveryEventAccounted
  BY DEF BusInv
<1>a. /\ log # <<>> /\ prunes < PruneBound /\ log' = Tail(log) /\ prunes' = prunes + 1
      /\ UNCHANGED <<seq, seed, kind, ringFrom, pending, hand, landed, lost, dropped,
                     lifecycleDropped, faults, crashes>>
  BY DEF Prune
<1>1. log' \in Seq(SUBSET Seqs) /\ Rows' \subseteq Rows
  BY <1>t, <1>a, RowsPruned DEF BusTypeOK
<1>2. prunes' \in 0..PruneBound
  BY <1>t, <1>a, EventLogAssumption DEF BusTypeOK
<1>3. BusTypeOK'
  BY <1>t, <1>a, <1>1, <1>2 DEF BusTypeOK
<1>s. Settled' = Settled
  BY <1>a DEF Settled
<1>4. EachInOnePlace'
  BY <1>t, <1>a, <1>1, <1>s DEF EachInOnePlace
<1>5. EveryEventAccounted'
  BY <1>t, <1>a, <1>s DEF EveryEventAccounted, Missing
<1> QED
  BY <1>t, <1>a, <1>1, <1>3, <1>4, <1>5 DEF BusInv, BusMoves, BusTypeOK

LEMMA RestartBus ==
    ASSUME BusInv, Restart
    PROVE  /\ BusInv' /\ Rows' = Rows /\ \A s \in Rows : kind'[s] = kind[s] /\ s <= MaxRow
           /\ crashes \in Nat /\ crashes' = crashes + 1 /\ faults' = faults /\ faults \in Nat
           /\ seq' \in Nat
<1>t. BusTypeOK /\ EachInOnePlace /\ EveryEventAccounted
  BY DEF BusInv
<1>a. /\ crashes < CrashBound /\ crashes' = crashes + 1
      /\ seq' = MaxRow /\ seed' = MaxRow /\ ringFrom' = MaxRow + 1
      /\ kind' = [s \in Seqs |-> IF s \in Rows THEN kind[s] ELSE "none"]
      /\ pending' = <<>> /\ hand' = [f \in Flushers |-> <<>>]
      /\ landed' = {} /\ lost' = {} /\ dropped' = 0 /\ lifecycleDropped' = 0
      /\ UNCHANGED <<log, faults, prunes>>
  BY DEF Restart
<1>1. MaxRow \in 0..MaxSeq /\ (\A s \in Rows : s <= MaxRow) /\ Rows \subseteq Seqs
      /\ MaxSeq \in Nat /\ RingCap \in Nat \ {0} /\ PendingCap \in Nat
  BY <1>t, MaxRowBounds, RowsAreSeqs, EventLogAssumption DEF BusTypeOK
<1>2. Rows' = Rows
  BY <1>a DEF Rows
<1>3. /\ ToSet(pending') = {} /\ IsInjective(pending') /\ pending' \in Seq(Seqs) /\ Len(pending') = 0
      /\ \A f \in Flushers : ToSet(hand'[f]) = {} /\ IsInjective(hand'[f])
      /\ hand' \in [Flushers -> Seq(Seqs)]
  BY <1>a, EmptyQueue, EmptySeq
<1>4. BusTypeOK'
  <2>1. /\ seq' \in 0..MaxSeq /\ seed' \in 0..seq'
        /\ ringFrom' \in (seed' + 1)..(seq' + 1) /\ seq' - ringFrom' < RingCap
    BY <1>a, <1>1
  <2>2. kind' \in [Seqs -> Kinds \cup {"none"}]
    BY <1>t, <1>a DEF BusTypeOK
  <2>3. crashes' \in 0..CrashBound
    BY <1>t, <1>a, EventLogAssumption DEF BusTypeOK
  <2>4. dropped' \in Nat /\ lifecycleDropped' \in 0..dropped' /\ Len(pending') <= PendingCap
    BY <1>a, <1>1, <1>3
  <2> QED
    BY <1>t, <1>a, <1>3, <2>1, <2>2, <2>3, <2>4 DEF BusTypeOK
<1>5. EachInOnePlace'
  <2>1. Rows' \subseteq 1..seq'
    BY <1>a, <1>1, <1>2 DEF Seqs
  <2> QED
    BY <1>a, <1>3, <2>1 DEF EachInOnePlace, Settled
<1>6. EveryEventAccounted'
  <2>1. (seed' + 1)..seq' = {}
    BY <1>a, <1>1
  <2>2. Missing' = {}
    BY <2>1 DEF Missing
  <2> QED
    BY <1>a, <2>2, FS_EmptySet DEF EveryEventAccounted
<1>7. \A s \in Rows : kind'[s] = kind[s]
  BY <1>a, <1>1
<1> QED
  BY <1>t, <1>a, <1>1, <1>2, <1>4, <1>5, <1>6, <1>7 DEF BusInv, BusTypeOK

LEMMA StorageFailsBus ==
    ASSUME BusInv, faults < FaultBound, faults' = faults + 1,
           UNCHANGED <<seq, seed, kind, ringFrom, pending, hand, log, landed, lost, dropped,
                       lifecycleDropped, crashes, prunes>>
    PROVE  BusInv' /\ BusMoves /\ landed' = landed
<1>t. BusTypeOK /\ EachInOnePlace /\ EveryEventAccounted
  BY DEF BusInv
<1>1. faults' \in 0..FaultBound /\ faults \in Nat
  BY <1>t, EventLogAssumption DEF BusTypeOK
<1>2. Rows' = Rows /\ Missing' = Missing /\ Settled' = Settled
  BY DEF Rows, Missing, Settled
<1> QED
  BY <1>t, <1>1, <1>2 DEF BusInv, BusMoves, BusTypeOK, EachInOnePlace, EveryEventAccounted

LEMMA RestBus ==
    ASSUME BusInv, UNCHANGED busVars
    PROVE  BusInv' /\ BusMoves /\ landed' = landed
<1>t. BusTypeOK /\ EachInOnePlace /\ EveryEventAccounted
  BY DEF BusInv
<1>2. Rows' = Rows /\ Missing' = Missing /\ Settled' = Settled
  BY DEF Rows, Missing, Settled, busVars
<1> QED
  BY <1>t, <1>2 DEF BusInv, BusMoves, BusTypeOK, EachInOnePlace, EveryEventAccounted, busVars

LEMMA BusFacts ==
    ASSUME BusInv
    PROVE  Rows \subseteq Seqs /\ Rows \subseteq Nat /\ faults \in Nat /\ crashes \in Nat /\ seq \in 0..MaxSeq
<1>1. log \in Seq(SUBSET Seqs) /\ faults \in Nat /\ crashes \in Nat /\ seq \in 0..MaxSeq
  BY EventLogAssumption DEF BusInv, BusTypeOK
<1>2. Rows \subseteq Seqs
  BY <1>1, RowsAreSeqs
<1> QED
  BY <1>1, <1>2 DEF Seqs

LEMMA BusFactsNext ==
    ASSUME BusInv'
    PROVE  Rows' \subseteq Nat /\ faults' \in Nat /\ crashes' \in Nat
<1>1. Rows' \subseteq 1..seq' /\ faults' \in Nat /\ crashes' \in Nat
  BY EventLogAssumption DEF BusInv, BusTypeOK, EachInOnePlace
<1> QED
  BY <1>1

-----------------------------------------------------------------------------
(* The live streams *)

StreamInv == StreamTypeOK /\ ViewsInStep

InStep(k, v, n) ==
    /\ k.at # "off" => k.last = v.last
    /\ k.rx <= n + 1
    /\ k.at \in {"ring", "flush", "read"} => k.rx <= k.latest + 1 /\ k.latest <= n
    /\ ~v.torn =>
         /\ v.base <= n /\ v.last <= n
         /\ (v.base + 1)..v.last \subseteq v.seen
         /\ k.at = "live" => k.rx <= v.last + 1 \/ k.rx <= v.base + 1

LEMMA ViewsEach == ViewsInStep <=> \A c \in Clients : InStep(conn[c], client[c], seq)
BY DEF ViewsInStep, InStep

LEMMA ViewsEachNext == ViewsInStep' <=> \A c \in Clients : InStep(conn'[c], client'[c], seq')
BY DEF ViewsInStep, InStep

LEMMA InStepLater ==
    ASSUME NEW k \in Conn, NEW v \in Client, NEW n \in Nat, NEW m \in Nat, n <= m, InStep(k, v, n)
    PROVE  InStep(k, v, m)
<1>1. k.rx \in Nat /\ k.latest \in Nat /\ v.base \in Nat /\ v.last \in Nat
  BY EventLogAssumption DEF Conn, Client
<1> QED
  BY <1>1 DEF InStep

LEMMA StreamRests ==
    ASSUME StreamInv, seq \in Nat, seq' \in Nat, seq <= seq', UNCHANGED streamVars
    PROVE  StreamInv'
<1>1. conn' = conn /\ client' = client
  BY DEF streamVars
<1>2. StreamTypeOK'
  BY <1>1 DEF StreamInv, StreamTypeOK
<1>3. \A c \in Clients : InStep(conn'[c], client'[c], seq')
  <2> TAKE c \in Clients
  <2>1. conn[c] \in Conn /\ client[c] \in Client /\ InStep(conn[c], client[c], seq)
    BY ViewsEach DEF StreamInv, StreamTypeOK
  <2> QED
    BY <1>1, <2>1, InStepLater
<1> QED
  BY <1>2, <1>3, ViewsEachNext DEF StreamInv

LEMMA OneConnection ==
    ASSUME StreamInv, seq \in Nat, seq' \in Nat, seq <= seq', NEW c \in Clients,
           conn' \in [Clients -> Conn], client' \in [Clients -> Client],
           InStep(conn'[c], client'[c], seq'),
           \A d \in Clients \ {c} : conn'[d] = conn[d] /\ client'[d] = client[d]
    PROVE  StreamInv'
<1>1. \A d \in Clients : InStep(conn'[d], client'[d], seq')
  <2> TAKE d \in Clients
  <2>1. CASE d = c
    BY <2>1
  <2>2. CASE d # c
    <3>1. conn'[d] = conn[d] /\ client'[d] = client[d]
      BY <2>2
    <3>2. conn[d] \in Conn /\ client[d] \in Client /\ InStep(conn[d], client[d], seq)
      BY ViewsEach DEF StreamInv, StreamTypeOK
    <3> QED
      BY <3>1, <3>2, InStepLater
  <2> QED
    BY <2>1, <2>2
<1> QED
  BY <1>1, ViewsEachNext DEF StreamInv, StreamTypeOK

LEMMA StreamFacts ==
    ASSUME StreamInv, BusTypeOK, NEW c \in Clients
    PROVE  /\ conn \in [Clients -> Conn] /\ client \in [Clients -> Client]
           /\ conn[c] \in Conn /\ client[c] \in Client /\ InStep(conn[c], client[c], seq)
           /\ seq \in 0..MaxSeq /\ MaxSeq \in Nat /\ seq \in Nat
           /\ ringFrom \in 1..(seq + 1)
<1>1. seq \in 0..MaxSeq /\ seed \in 0..seq /\ ringFrom \in (seed + 1)..(seq + 1) /\ MaxSeq \in Nat
  BY EventLogAssumption DEF BusTypeOK
<1> QED
  BY <1>1, ViewsEach DEF StreamInv, StreamTypeOK

LEMMA FieldTypes ==
    ASSUME NEW k \in Conn, NEW v \in Client
    PROVE  /\ k.at \in {"off", "replay", "ring", "flush", "read", "live"}
           /\ k.last \in 0..MaxSeq /\ k.latest \in 0..MaxSeq /\ k.cursor \in 0..MaxSeq
           /\ k.out \in SUBSET Seqs /\ k.rx \in 1..(MaxSeq + 1)
           /\ v.last \in 0..MaxSeq /\ v.base \in 0..MaxSeq /\ v.seen \in SUBSET Seqs
           /\ v.torn \in BOOLEAN
BY DEF Conn, Client

LEMMA ConnectStep ==
    ASSUME StreamInv, BusInv, NEW c \in Clients, Connect(c)
    PROVE  StreamInv'
<1>f. /\ conn \in [Clients -> Conn] /\ client \in [Clients -> Client]
      /\ conn[c] \in Conn /\ client[c] \in Client /\ InStep(conn[c], client[c], seq)
      /\ seq \in 0..MaxSeq /\ MaxSeq \in Nat /\ seq \in Nat
  BY StreamFacts DEF BusInv
<1>u. seq' = seq
  BY DEF Connect, busVars
<1> DEFINE k == [Off EXCEPT !.at = "replay", !.last = client[c].last, !.rx = seq + 1]
           n == [Off EXCEPT !.at = "live", !.rx = seq + 1]
           v == [View(seq) EXCEPT !.last = 0]
<1>1. CASE conn' = [conn EXCEPT ![c] = k] /\ client' = client
  <2>1. k \in Conn
    <3>1. /\ client[c].last \in 0..MaxSeq /\ seq + 1 \in 1..(MaxSeq + 1)
          /\ 0 \in 0..MaxSeq /\ 1 \in 1..(MaxSeq + 1)
      BY <1>f, FieldTypes
    <3> QED
      BY <3>1 DEF Off, Conn
  <2>2. k.at = "replay" /\ k.last = client[c].last /\ k.rx = seq + 1
    BY DEF Off
  <2> HIDE DEF k
  <2>3. InStep(k, client[c], seq')
    BY <1>f, <1>u, <2>2 DEF InStep
  <2>4. conn' \in [Clients -> Conn] /\ conn'[c] = k
    BY <1>f, <1>1, <2>1
  <2>5. \A d \in Clients \ {c} : conn'[d] = conn[d] /\ client'[d] = client[d]
    BY <1>f, <1>1
  <2> QED
    BY <1>f, <1>u, <1>1, <2>3, <2>4, <2>5, OneConnection
<1>2. CASE conn' = [conn EXCEPT ![c] = n] /\ client' = [client EXCEPT ![c] = v]
  <2>1. n \in Conn /\ v \in Client
    <3>1. seq + 1 \in 1..(MaxSeq + 1) /\ 0 \in 0..MaxSeq /\ 1 \in 1..(MaxSeq + 1)
      BY <1>f
    <3> QED
      BY <1>f, <3>1 DEF Off, Conn, View, Client
  <2>2. n.at = "live" /\ n.last = 0 /\ n.rx = seq + 1 /\ v.last = 0 /\ v.base = seq
    BY DEF Off, View
  <2> HIDE DEF n, v
  <2>3. (v.base + 1)..v.last = {}
    BY <1>f, <2>2
  <2>4. InStep(n, v, seq')
    BY <1>f, <1>u, <2>2, <2>3 DEF InStep
  <2> QED
    <3>1. /\ conn' \in [Clients -> Conn] /\ conn'[c] = n
          /\ client' \in [Clients -> Client] /\ client'[c] = v
      BY <1>f, <1>2, <2>1
    <3>2. \A d \in Clients \ {c} : conn'[d] = conn[d] /\ client'[d] = client[d]
      BY <1>f, <1>2
    <3> QED
      BY <1>f, <1>u, <2>4, <3>1, <3>2, OneConnection
<1> QED
  BY <1>1, <1>2 DEF Connect

\* A view that is given the rest of its interval stays whole.
LEMMA GoLiveStep ==
    ASSUME StreamInv, BusTypeOK, seq' \in Nat, seq <= seq', NEW c \in Clients, NEW S \in SUBSET Seqs,
           NEW torn \in BOOLEAN, conn[c].at # "off",
           ~torn => /\ ~client[c].torn
                    /\ S = (client[c].last + 1)..seq
                    /\ client[c].last <= seq,
           conn' = [conn EXCEPT ![c] = GoLive(conn[c], S)],
           client' = [client EXCEPT ![c] = [Given(client[c], S) EXCEPT !.torn = torn]]
    PROVE  StreamInv'
<1> DEFINE k == conn[c]
           v == client[c]
           l == GoLive(k, S)
           w == [Given(v, S) EXCEPT !.torn = torn]
           z == IF S = {} THEN v.last ELSE Max(S)
<1>f. /\ k \in Conn /\ v \in Client /\ InStep(k, v, seq)
      /\ seq \in 0..MaxSeq /\ MaxSeq \in Nat /\ seq \in Nat
  BY StreamFacts
<1>t. /\ k.at \in {"off", "replay", "ring", "flush", "read", "live"}
      /\ k.last \in 0..MaxSeq /\ k.rx \in 1..(MaxSeq + 1)
      /\ v.last \in 0..MaxSeq /\ v.base \in 0..MaxSeq /\ v.seen \in SUBSET Seqs
      /\ v.torn \in BOOLEAN
  BY <1>f, FieldTypes
<1>l. k.last = v.last
  BY <1>f DEF InStep
<1>m. S # {} => Max(S) \in S /\ \A x \in S : x <= Max(S)
  <2>1. S \subseteq 0..MaxSeq
    BY <1>f DEF Seqs
  <2> QED
    BY <1>f, <2>1, MaxOfNats
<1>z. z \in 0..MaxSeq
  BY <1>t, <1>m, <1>f DEF Seqs
<1>1. /\ l = [k EXCEPT !.at = "live", !.last = z, !.out = {}, !.latest = 0, !.cursor = 0]
      /\ w.last = z /\ w.seen = v.seen \cup S /\ w.base = v.base /\ w.torn = torn
      /\ w = [v EXCEPT !.last = z, !.seen = v.seen \cup S, !.torn = torn]
  <2>1. CASE S = {}
    BY <1>f, <1>l, <2>1 DEF GoLive, Given, Conn, Client
  <2>2. CASE S # {}
    BY <1>f, <2>2 DEF GoLive, Given, Conn, Client
  <2> QED
    BY <2>1, <2>2
<1>4. k.rx <= seq + 1
  BY <1>f DEF InStep
<1>o. 0 \in 0..MaxSeq
  BY <1>f
<1>2. l \in Conn /\ l.at = "live" /\ l.last = z /\ l.rx = k.rx
  <2> HIDE DEF l, w, z, v
  <2> QED
    BY <1>f, <1>z, <1>o, <1>1 DEF Conn
<1>3. w \in Client
  <2> HIDE DEF l, z, k
  <2> QED
    BY <1>f, <1>z, <1>1 DEF Client
<1>5. ASSUME ~torn
      PROVE  /\ v.base <= seq /\ z <= seq /\ (v.base + 1)..z \subseteq v.seen \cup S
             /\ k.rx <= z + 1
  <2>1. ~v.torn /\ S = (v.last + 1)..seq /\ v.last <= seq
    BY <1>5
  <2>2. v.base <= seq /\ (v.base + 1)..v.last \subseteq v.seen
    BY <1>f, <2>1 DEF InStep
  <2>3. z = seq
    <3>1. CASE S = {}
      BY <1>f, <1>t, <2>1, <3>1
    <3>2. CASE S # {}
      <4>1. seq \in S
        BY <1>f, <1>t, <2>1, <3>2
      <4> QED
        BY <1>f, <1>t, <1>m, <2>1, <3>2, <4>1
    <3> QED
      BY <3>1, <3>2
  <2>4. (v.base + 1)..seq \subseteq ((v.base + 1)..v.last) \cup ((v.last + 1)..seq)
    BY <1>f, <1>t
  <2> QED
    BY <1>f, <1>4, <2>1, <2>2, <2>3, <2>4
<1> HIDE DEF l, w, z
<1>6. InStep(l, w, seq)
  BY <1>1, <1>2, <1>4, <1>5 DEF InStep
<1>7. InStep(l, w, seq')
  BY <1>f, <1>2, <1>3, <1>6, InStepLater
<1>8. conn \in [Clients -> Conn] /\ client \in [Clients -> Client]
  BY DEF StreamInv, StreamTypeOK
<1>9. /\ conn' \in [Clients -> Conn] /\ conn'[c] = l
      /\ client' \in [Clients -> Client] /\ client'[c] = w
      /\ \A d \in Clients \ {c} : conn'[d] = conn[d] /\ client'[d] = client[d]
  <2>1. conn' = [conn EXCEPT ![c] = l] /\ client' = [client EXCEPT ![c] = w]
    BY DEF l, w
  <2> QED
    BY <1>2, <1>3, <1>8, <2>1
<1> QED
  BY <1>f, <1>7, <1>9, OneConnection

LEMMA ReplayBeginsStep ==
    ASSUME StreamInv, BusInv, NEW c \in Clients, ReplayBegins(c)
    PROVE  BusInv' /\ BusMoves /\ StreamInv'
<1> DEFINE k == conn[c]
           v == client[c]
           m == [k EXCEPT !.at = "ring", !.latest = seq, !.cursor = k.last]
<1>f. /\ conn \in [Clients -> Conn] /\ client \in [Clients -> Client]
      /\ k \in Conn /\ v \in Client /\ InStep(k, v, seq)
      /\ seq \in 0..MaxSeq /\ MaxSeq \in Nat /\ seq \in Nat /\ BusTypeOK
  BY StreamFacts DEF BusInv
<1>t. k.last \in 0..MaxSeq /\ v.last \in 0..MaxSeq /\ v.torn \in BOOLEAN
  BY <1>f, FieldTypes
<1>a. k.at = "replay" /\ k.last = v.last /\ k.rx <= seq + 1 /\ client' = client
  BY <1>f DEF ReplayBegins, InStep
<1>b. BusInv' /\ BusMoves /\ seq' = seq
  BY RestBus DEF ReplayBegins, busVars
<1>1. CASE k.last >= seq /\ conn' = [conn EXCEPT ![c] = GoLive(k, {})]
  <2>1. [Given(v, {}) EXCEPT !.torn = v.torn] = v
    BY <1>f DEF Given, Client
  <2>2. client' = [client EXCEPT ![c] = [Given(client[c], {}) EXCEPT !.torn = v.torn]]
    BY <1>a, <1>f, <2>1
  <2>3. ~v.torn => ~client[c].torn /\ {} = (client[c].last + 1)..seq /\ client[c].last <= seq
    <3>1. ~v.torn => v.last <= seq
      BY <1>f DEF InStep
    <3> QED
      BY <1>1, <1>a, <1>f, <1>t, <3>1
  <2>4. conn[c].at # "off" /\ conn' = [conn EXCEPT ![c] = GoLive(conn[c], {})]
    BY <1>1, <1>a
  <2> HIDE DEF k, v
  <2>5. {} \in SUBSET Seqs /\ v.torn \in BOOLEAN /\ seq' \in Nat /\ seq <= seq'
    BY <1>b, <1>f, <1>t
  <2>6. StreamInv'
    BY <1>f, <2>2, <2>3, <2>4, <2>5, GoLiveStep
  <2> QED
    BY <1>b, <2>6
<1>2. CASE conn' = [conn EXCEPT ![c] = m]
  <2>1. m \in Conn /\ m.at = "ring" /\ m.last = k.last /\ m.rx = k.rx /\ m.latest = seq
    BY <1>f, <1>t DEF Conn
  <2> HIDE DEF m
  <2>2. InStep(m, v, seq)
    BY <1>f, <1>a, <2>1 DEF InStep
  <2>3. conn' \in [Clients -> Conn] /\ conn'[c] = m
        /\ \A d \in Clients \ {c} : conn'[d] = conn[d] /\ client'[d] = client[d]
    BY <1>2, <1>a, <1>f, <2>1
  <2>4. StreamInv'
    BY <1>a, <1>b, <1>f, <2>2, <2>3, OneConnection
  <2> QED
    BY <1>b, <2>4
<1> QED
  BY <1>1, <1>2 DEF ReplayBegins

LEMMA ReplayStep ==
    ASSUME StreamInv, BusInv, NEW c \in Clients, Replay(c)
    PROVE  BusInv' /\ BusMoves /\ StreamInv'
<1> DEFINE k == conn[c]
           v == client[c]
           S == Max({ringFrom, k.last + 1})..seq
<1>f. /\ conn \in [Clients -> Conn] /\ client \in [Clients -> Client]
      /\ k \in Conn /\ v \in Client /\ InStep(k, v, seq)
      /\ seq \in 0..MaxSeq /\ MaxSeq \in Nat /\ seq \in Nat /\ ringFrom \in 1..(seq + 1)
      /\ BusTypeOK /\ c \in Flushers
  BY StreamFacts, StreamAssumption DEF BusInv
<1>t. k.last \in 0..MaxSeq /\ v.last \in 0..MaxSeq /\ v.torn \in BOOLEAN /\ k.rx \in 1..(MaxSeq + 1)
  BY <1>f, FieldTypes
<1>a. k.at = "ring" /\ k.last = v.last /\ k.rx <= k.latest + 1 /\ k.latest <= seq
  BY <1>f DEF Replay, InStep
<1>1. CASE /\ RingCovers(k.last)
           /\ conn' = [conn EXCEPT ![c] = GoLive(k, S)]
           /\ client' = [client EXCEPT ![c] = Given(v, S)]
           /\ UNCHANGED busVars
  <2>1. BusInv' /\ BusMoves
    BY <1>1, RestBus
  <2>2. Max({ringFrom, k.last + 1}) \in {ringFrom, k.last + 1}
        /\ ringFrom <= Max({ringFrom, k.last + 1}) /\ k.last + 1 <= Max({ringFrom, k.last + 1})
    <3>1. {ringFrom, k.last + 1} \subseteq 0..(MaxSeq + 1)
      BY <1>f, <1>t
    <3> QED
      BY <1>f, <3>1, MaxOfNats
  <2>3. S \in SUBSET Seqs
    BY <1>f, <1>t, <2>2 DEF Seqs
  <2>4. ~v.torn => S = (v.last + 1)..seq /\ v.last <= seq
    <3> SUFFICES ASSUME ~v.torn PROVE S = (v.last + 1)..seq /\ v.last <= seq
      OBVIOUS
    <3>1. v.last <= seq
      BY <1>f DEF InStep
    <3>2. ringFrom <= k.last + 1
      BY <1>1 DEF RingCovers
    <3>3. Max({ringFrom, k.last + 1}) = k.last + 1
      BY <1>f, <1>t, <2>2, <3>2
    <3> QED
      BY <1>a, <3>1, <3>3
  <2>5. Given(v, S) = [Given(v, S) EXCEPT !.torn = v.torn]
    BY <1>f DEF Given, Client
  <2> HIDE DEF S
  <2>6. client' = [client EXCEPT ![c] = [Given(client[c], S) EXCEPT !.torn = v.torn]]
    BY <1>1, <2>5
  <2>7. seq' \in Nat /\ seq <= seq'
    BY <2>1 DEF BusMoves
  <2>8. ~v.torn => ~client[c].torn /\ S = (client[c].last + 1)..seq /\ client[c].last <= seq
    BY <2>4
  <2>9. conn' = [conn EXCEPT ![c] = GoLive(conn[c], S)]
    BY <1>1
  <2> HIDE DEF v, k
  <2>10. conn[c].at # "off"
    BY <1>a DEF k
  <2>11. StreamInv'
    BY <1>f, <1>t, <2>3, <2>6, <2>7, <2>8, <2>9, <2>10, GoLiveStep
  <2> QED
    BY <2>1, <2>11
<1>2. ASSUME NEW a \in {"read", "flush"}, conn' = [conn EXCEPT ![c] = [k EXCEPT !.at = a]],
             client' = client, BusMoves
      PROVE  StreamInv'
  <2> DEFINE m == [k EXCEPT !.at = a]
  <2>2. m \in Conn /\ m.at = a /\ m.last = k.last /\ m.rx = k.rx /\ m.latest = k.latest
    BY <1>f, <1>t DEF Conn
  <2> HIDE DEF m
  <2>3. a # "off" /\ a # "live"
    OBVIOUS
  <2>4. InStep(m, v, seq)
    BY <1>f, <1>a, <2>2, <2>3 DEF InStep
  <2>5. seq' \in Nat /\ seq <= seq'
    BY <1>2 DEF BusMoves
  <2>6. InStep(m, v, seq')
    BY <1>f, <2>2, <2>4, <2>5, InStepLater
  <2>7. conn' = [conn EXCEPT ![c] = m]
    BY <1>2 DEF m
  <2> HIDE DEF k, v
  <2>8. conn' \in [Clients -> Conn] /\ conn'[c] = m /\ client'[c] = v
        /\ \A d \in Clients \ {c} : conn'[d] = conn[d] /\ client'[d] = client[d]
    BY <1>2, <1>f, <2>2, <2>7 DEF v
  <2> QED
    BY <1>2, <1>f, <2>5, <2>6, <2>8, OneConnection
<1>3. CASE /\ conn' = [conn EXCEPT ![c].at = "read"]
           /\ UNCHANGED <<busVars, client>>
  <2>1. BusInv' /\ BusMoves
    BY <1>3, RestBus
  <2> QED
    BY <1>2, <1>3, <2>1
<1>4. CASE /\ Take(c)
           /\ conn' = [conn EXCEPT ![c].at = "flush"]
           /\ UNCHANGED client
  <2>1. BusInv' /\ BusMoves
    BY <1>4, <1>f, TakeBus
  <2> QED
    BY <1>2, <1>4, <2>1
<1> QED
  BY <1>1, <1>3, <1>4 DEF Replay

LEMMA StreamFlushStep ==
    ASSUME StreamInv, BusInv, NEW c \in Clients, StreamFlush(c)
    PROVE  BusInv' /\ BusMoves /\ StreamInv'
<1>1. c \in Flushers
  BY StreamAssumption
<1>2. BusInv' /\ BusMoves
  BY <1>1, LandBus, LandFailsBus DEF StreamFlush
<1>f. /\ conn \in [Clients -> Conn] /\ client \in [Clients -> Client]
      /\ conn[c] \in Conn /\ client[c] \in Client /\ InStep(conn[c], client[c], seq)
      /\ seq \in Nat /\ seq' \in Nat /\ seq <= seq'
  BY <1>2, StreamFacts DEF BusInv, BusMoves
<1> DEFINE m == [conn[c] EXCEPT !.at = "read"]
<1>3. conn[c].at = "flush" /\ conn' = [conn EXCEPT ![c] = m] /\ client' = client
  BY DEF StreamFlush
<1>4. m \in Conn /\ m.at = "read" /\ m.last = conn[c].last /\ m.rx = conn[c].rx
      /\ m.latest = conn[c].latest
  BY <1>f DEF Conn
<1> HIDE DEF m
<1>5. InStep(m, client[c], seq)
  BY <1>f, <1>3, <1>4 DEF InStep
<1>6. InStep(m, client[c], seq')
  BY <1>f, <1>4, <1>5, InStepLater
<1>7. conn' \in [Clients -> Conn] /\ conn'[c] = m
      /\ \A d \in Clients \ {c} : conn'[d] = conn[d] /\ client'[d] = client[d]
  BY <1>f, <1>3, <1>4
<1>8. StreamInv'
  BY <1>f, <1>3, <1>6, <1>7, OneConnection
<1> QED
  BY <1>2, <1>8

LEMMA ResetStep ==
    ASSUME StreamInv, BusTypeOK, NEW c \in Clients, conn[c].at = "read", Reset(c), seq' = seq
    PROVE  StreamInv'
<1>f. /\ conn \in [Clients -> Conn] /\ client \in [Clients -> Client]
      /\ conn[c] \in Conn /\ client[c] \in Client /\ InStep(conn[c], client[c], seq)
      /\ seq \in Nat /\ MaxSeq \in Nat
  BY StreamFacts
<1>t. conn[c].latest \in 0..MaxSeq /\ conn[c].rx \in 1..(MaxSeq + 1) /\ 0 \in 0..MaxSeq
  BY <1>f, FieldTypes
<1>a. conn[c].rx <= conn[c].latest + 1 /\ conn[c].latest <= seq /\ conn[c].rx <= seq + 1
  BY <1>f DEF InStep
<1> DEFINE n == conn[c].latest
           m == [GoLive(conn[c], {}) EXCEPT !.last = n]
           w == View(n)
<1>1. conn' = [conn EXCEPT ![c] = m] /\ client' = [client EXCEPT ![c] = w]
  BY <1>f DEF Reset
<1>2. m = [conn[c] EXCEPT !.at = "live", !.last = n, !.out = {}, !.latest = 0, !.cursor = 0]
  BY <1>f DEF GoLive, Conn
<1>3. w \in Client /\ w.last = n /\ w.base = n /\ w.torn = FALSE /\ w.seen = {}
  BY <1>t DEF View, Client
<1> HIDE DEF m, w
<1>4. m \in Conn /\ m.at = "live" /\ m.last = n /\ m.rx = conn[c].rx
  BY <1>f, <1>t, <1>2 DEF Conn
<1>5. (n + 1)..n = {}
  BY <1>t
<1> HIDE DEF n
<1>6. n <= seq /\ conn[c].rx <= n + 1 /\ conn[c].rx <= seq + 1
  BY <1>a DEF n
<1>7. InStep(m, w, seq)
  BY <1>3, <1>4, <1>5, <1>6 DEF InStep
<1>8. /\ conn' \in [Clients -> Conn] /\ conn'[c] = m
      /\ client' \in [Clients -> Client] /\ client'[c] = w
      /\ \A d \in Clients \ {c} : conn'[d] = conn[d] /\ client'[d] = client[d]
  BY <1>f, <1>1, <1>3, <1>4
<1> QED
  BY <1>f, <1>7, <1>8, OneConnection

LEMMA ReadLogStep ==
    ASSUME StreamInv, BusInv, NEW c \in Clients, ReadLog(c)
    PROVE  BusInv' /\ BusMoves /\ StreamInv'
<1> DEFINE k == conn[c]
           page == After(k.cursor, PageCap)
           done == Cardinality(k.out) >= k.latest - k.last \/ page = {}
<1>1. BusInv' /\ BusMoves /\ seq' = seq
  BY RestBus DEF ReadLog, busVars
<1>f. /\ conn \in [Clients -> Conn] /\ client \in [Clients -> Client]
      /\ k \in Conn /\ client[c] \in Client /\ InStep(k, client[c], seq)
      /\ seq \in Nat /\ MaxSeq \in Nat /\ BusTypeOK
  BY StreamFacts DEF BusInv
<1>t. k.out \in SUBSET Seqs /\ k.at = "read" /\ page \in SUBSET Seqs
  <2>1. page \in SUBSET Seqs
    BY <1>f, RowsAreSeqs DEF After, BusTypeOK
  <2> QED
    BY <1>f, <2>1, FieldTypes DEF ReadLog
<1>2. CASE /\ conn' = [conn EXCEPT ![c] = GoLive(k, k.out)]
           /\ client' = [client EXCEPT ![c] = [Given(client[c], k.out) EXCEPT !.torn = TRUE]]
  <2> DEFINE S == k.out
  <2>1. conn' = [conn EXCEPT ![c] = GoLive(conn[c], S)]
        /\ client' = [client EXCEPT ![c] = [Given(client[c], S) EXCEPT !.torn = TRUE]]
    BY <1>2
  <2>2. S \in SUBSET Seqs /\ conn[c].at # "off"
    BY <1>t
  <2>3. seq' \in Nat /\ seq <= seq' /\ TRUE \in BOOLEAN /\ ~(~TRUE)
    BY <1>1, <1>f
  <2> HIDE DEF S, page, k
  <2>4. StreamInv'
    BY <1>f, <2>1, <2>2, <2>3, GoLiveStep
  <2> QED
    BY <1>1, <2>4
<1>3. CASE Reset(c)
  BY <1>1, <1>3, <1>f, <1>t, ResetStep
<1>4. CASE /\ ~done /\ client' = client
           /\ conn' = [conn EXCEPT ![c].out = @ \cup page, ![c].cursor = Max(page)]
  <2> DEFINE m == [k EXCEPT !.out = k.out \cup page, !.cursor = Max(page)]
  <2>1. Max(page) \in 0..MaxSeq
    <3>1. page # {} /\ page \subseteq 0..MaxSeq
      BY <1>4, <1>t DEF Seqs
    <3> HIDE DEF page
    <3>2. Max(page) \in page
      BY <1>f, <3>1, MaxOfNats
    <3> QED
      BY <3>1, <3>2
  <2> HIDE DEF page
  <2>2. conn' = [conn EXCEPT ![c] = m]
    BY <1>4, <1>f
  <2>3. m \in Conn /\ m.at = k.at /\ m.last = k.last /\ m.rx = k.rx /\ m.latest = k.latest
    BY <1>f, <1>t, <2>1 DEF Conn
  <2> HIDE DEF m, k
  <2>4. InStep(m, client[c], seq')
    BY <1>1, <1>f, <2>3 DEF InStep
  <2>5. conn' \in [Clients -> Conn] /\ conn'[c] = m
        /\ \A d \in Clients \ {c} : conn'[d] = conn[d] /\ client'[d] = client[d]
    BY <1>f, <1>4, <2>2, <2>3
  <2>6. seq' \in Nat /\ seq <= seq' /\ client' \in [Clients -> Client] /\ client'[c] = client[c]
    BY <1>1, <1>f, <1>4
  <2>7. StreamInv'
    BY <1>f, <2>4, <2>5, <2>6, OneConnection
  <2> QED
    BY <1>1, <2>7
<1> HIDE DEF done, page
<1> QED
  BY <1>2, <1>3, <1>4 DEF ReadLog, done, page

LEMMA ReadLogFailsStep ==
    ASSUME StreamInv, BusInv, NEW c \in Clients, ReadLogFails(c)
    PROVE  BusInv' /\ BusMoves /\ StreamInv'
<1>1. BusInv' /\ BusMoves
  BY StorageFailsBus DEF ReadLogFails
<1>2. StreamInv'
  BY ResetStep DEF ReadLogFails, BusInv
<1> QED
  BY <1>1, <1>2

LEMMA ReceiveStep ==
    ASSUME StreamInv, BusInv, NEW c \in Clients, Receive(c)
    PROVE  BusInv' /\ BusMoves /\ StreamInv'
<1> DEFINE k == conn[c]
           v == client[c]
           r == k.rx
           fresh == Fresh(k, r)
           z == IF fresh THEN r ELSE k.last
           m == [k EXCEPT !.rx = r + 1, !.last = z]
           w == IF fresh THEN [v EXCEPT !.last = r, !.seen = v.seen \cup {r}] ELSE v
<1>1. BusInv' /\ BusMoves /\ seq' = seq
  BY RestBus DEF Receive, busVars
<1>f. /\ conn \in [Clients -> Conn] /\ client \in [Clients -> Client]
      /\ k \in Conn /\ v \in Client /\ InStep(k, v, seq)
      /\ seq \in 0..MaxSeq /\ seq \in Nat /\ MaxSeq \in Nat
  BY StreamFacts DEF BusInv
<1>t. /\ k.last \in 0..MaxSeq /\ r \in 1..(MaxSeq + 1)
      /\ v.last \in 0..MaxSeq /\ v.base \in 0..MaxSeq /\ v.seen \in SUBSET Seqs
  BY <1>f, FieldTypes
<1>a. /\ k.at = "live" /\ r <= seq
      /\ conn' = [conn EXCEPT ![c] = m]
      /\ client' = IF fresh THEN [client EXCEPT ![c] = Given(v, {r})] ELSE client
  BY <1>f DEF Receive
<1>2. r \in 1..MaxSeq /\ r + 1 \in 1..(MaxSeq + 1) /\ z \in 0..MaxSeq
  BY <1>f, <1>t, <1>a
<1>3. Max({r}) = r
  <2>1. {r} \subseteq 0..MaxSeq
    BY <1>2, <1>f
  <2> HIDE DEF r
  <2>2. Max({r}) \in {r}
    BY <2>1, <1>f, MaxOfNats
  <2> QED
    BY <2>2
<1>4. Given(v, {r}) = [v EXCEPT !.last = r, !.seen = v.seen \cup {r}]
  BY <1>3, <1>f DEF Given
<1>5. client' = [client EXCEPT ![c] = w]
  BY <1>a, <1>4, <1>f
<1>6. w \in Client /\ w.base = v.base /\ w.torn = v.torn
      /\ w.last = (IF fresh THEN r ELSE v.last)
      /\ w.seen = IF fresh THEN v.seen \cup {r} ELSE v.seen
  <2> HIDE DEF fresh
  <2>1. r \in Seqs /\ r \in 0..MaxSeq
    BY <1>2, <1>f DEF Seqs
  <2> HIDE DEF r
  <2> QED
    BY <1>f, <1>t, <2>1 DEF Client
<1>7. m \in Conn /\ m.at = "live" /\ m.rx = r + 1 /\ m.last = z
  <2> HIDE DEF z
  <2> QED
    BY <1>f, <1>a, <1>2 DEF Conn
<1> HIDE DEF m, w
<1>8. /\ k.last = v.last /\ r <= seq + 1
      /\ ~v.torn => /\ v.base <= seq /\ v.last <= seq
                    /\ (v.base + 1)..v.last \subseteq v.seen
                    /\ r <= v.last + 1 \/ r <= v.base + 1
  BY <1>f, <1>a DEF InStep
<1>9. fresh <=> r > k.last
  BY DEF Fresh
<1> DEFINE a == v.last
           b == v.base
           T == v.seen
<1>10. a \in Nat /\ b \in Nat /\ r \in Nat
  BY <1>t
<1>x. /\ k.last = a /\ r <= seq /\ (fresh <=> r > a)
      /\ ~v.torn => b <= seq /\ a <= seq /\ (b + 1)..a \subseteq T /\ (r <= a + 1 \/ r <= b + 1)
  <2>1. k.last = a /\ r <= seq
    BY <1>a, <1>8
  <2>2. fresh <=> r > a
    BY <1>9, <2>1
  <2>3. ~v.torn => b <= seq /\ a <= seq /\ (b + 1)..a \subseteq T /\ (r <= a + 1 \/ r <= b + 1)
    <3> HIDE DEF fresh, r
    <3> QED
      BY <1>8
  <2> QED
    BY <2>1, <2>2, <2>3
<1>y. /\ w.base = b /\ w.torn = v.torn
      /\ w.last = (IF fresh THEN r ELSE a) /\ w.seen = (IF fresh THEN T \cup {r} ELSE T)
      /\ m.last = (IF fresh THEN r ELSE a) /\ m.rx = r + 1 /\ m.at = "live"
  <2> HIDE DEF fresh, r
  <2> QED
    BY <1>6, <1>7, <1>x
<1> HIDE DEF a, b, T, r, fresh, z, k, v
<1>11. ASSUME fresh, ~v.torn PROVE (b + 1)..r \subseteq T \cup {r}
  <2>1. (b + 1)..a \subseteq T /\ (r <= a + 1 \/ r <= b + 1)
    BY <1>x, <1>11
  <2>2. \A i \in (b + 1)..r : i \in (b + 1)..a \/ i = r
    BY <1>10, <2>1
  <2> QED
    BY <2>1, <2>2
<1>12. InStep(m, w, seq)
  <2>s. seq \in Nat /\ r + 1 <= seq + 1
    BY <1>f, <1>x, <1>10
  <2>1. CASE fresh
    BY <1>x, <1>y, <1>10, <1>11, <2>s, <2>1 DEF InStep
  <2>2. CASE ~fresh
    <3>1. r + 1 <= a + 1
      BY <1>x, <1>10, <2>2
    <3> QED
      BY <1>x, <1>y, <2>s, <2>2, <3>1 DEF InStep
  <2> QED
    BY <2>1, <2>2
<1>13. /\ conn' \in [Clients -> Conn] /\ conn'[c] = m
       /\ client' \in [Clients -> Client] /\ client'[c] = w
       /\ \A d \in Clients \ {c} : conn'[d] = conn[d] /\ client'[d] = client[d]
  BY <1>f, <1>a, <1>5, <1>6, <1>7
<1>14. StreamInv'
  BY <1>1, <1>f, <1>12, <1>13, OneConnection
<1> QED
  BY <1>1, <1>14

LEMMA LagStep ==
    ASSUME StreamInv, BusInv, NEW c \in Clients, Lag(c)
    PROVE  BusInv' /\ BusMoves /\ StreamInv'
<1> DEFINE n == seq - BroadcastCap + 1
           m == [conn[c] EXCEPT !.at = "replay", !.rx = n]
<1>1. BusInv' /\ BusMoves /\ seq' = seq
  BY RestBus DEF Lag, busVars
<1>f. /\ conn \in [Clients -> Conn] /\ client \in [Clients -> Client]
      /\ conn[c] \in Conn /\ client[c] \in Client /\ InStep(conn[c], client[c], seq)
      /\ seq \in 0..MaxSeq /\ seq \in Nat /\ MaxSeq \in Nat
  BY StreamFacts DEF BusInv
<1>2. conn[c].at = "live" /\ seq - conn[c].rx >= BroadcastCap
      /\ conn' = [conn EXCEPT ![c] = m] /\ client' = client
  BY <1>f DEF Lag
<1>3. n \in 1..(MaxSeq + 1) /\ n <= seq + 1
  <2>1. conn[c].rx \in 1..(MaxSeq + 1)
    BY <1>f, FieldTypes
  <2> QED
    BY <1>f, <1>2, <2>1, StreamAssumption
<1> HIDE DEF n
<1>4. m \in Conn /\ m.at = "replay" /\ m.rx = n /\ m.last = conn[c].last
  BY <1>f, <1>3 DEF Conn
<1> HIDE DEF m
<1>5. InStep(m, client[c], seq)
  BY <1>f, <1>2, <1>3, <1>4 DEF InStep
<1>6. conn' \in [Clients -> Conn] /\ conn'[c] = m
      /\ \A d \in Clients \ {c} : conn'[d] = conn[d] /\ client'[d] = client[d]
  BY <1>f, <1>2, <1>4
<1>7. StreamInv'
  BY <1>1, <1>2, <1>f, <1>5, <1>6, OneConnection
<1> QED
  BY <1>1, <1>7

LEMMA OffInStep ==
    ASSUME NEW n \in Nat
    PROVE  /\ Off \in Conn
           /\ \A v \in Client : (v.torn \/ \E k \in Conn : InStep(k, v, n)) => InStep(Off, v, n)
<1>1. 0 \in 0..MaxSeq /\ 1 \in 1..(MaxSeq + 1)
  BY EventLogAssumption
<1>2. Off \in Conn
  BY <1>1 DEF Off, Conn
<1>3. Off.at = "off" /\ Off.rx = 1 /\ 1 <= n + 1
  BY DEF Off
<1> QED
  BY <1>2, <1>3 DEF InStep

LEMMA DisconnectStep ==
    ASSUME StreamInv, BusInv, NEW c \in Clients, Disconnect(c)
    PROVE  BusInv' /\ BusMoves /\ StreamInv'
<1>1. BusInv' /\ BusMoves /\ seq' = seq
  <2>1. CASE UNCHANGED busVars
    BY <2>1, RestBus DEF busVars
  <2>2. CASE Land(c) \/ Cancelled(c)
    BY <2>2, LandBus, StreamAssumption DEF Land, Cancelled
  <2> QED
    BY <2>1, <2>2 DEF Disconnect
<1>f. /\ conn \in [Clients -> Conn] /\ client \in [Clients -> Client]
      /\ conn[c] \in Conn /\ client[c] \in Client /\ InStep(conn[c], client[c], seq)
      /\ seq \in Nat
  BY StreamFacts DEF BusInv
<1>2. conn' = [conn EXCEPT ![c] = Off] /\ client' = client
  BY DEF Disconnect
<1>3. Off \in Conn /\ InStep(Off, client[c], seq)
  BY <1>f, OffInStep
<1>6. conn' \in [Clients -> Conn] /\ conn'[c] = Off
      /\ \A d \in Clients \ {c} : conn'[d] = conn[d] /\ client'[d] = client[d]
  BY <1>f, <1>2, <1>3
<1>7. StreamInv'
  BY <1>1, <1>2, <1>f, <1>3, <1>6, OneConnection
<1> QED
  BY <1>1, <1>7

LEMMA StreamRestartStep ==
    ASSUME StreamInv, StreamRestart, seq' \in Nat
    PROVE  StreamInv'
<1> DEFINE w(c) == [client[c] EXCEPT !.torn = TRUE, !.seen = {s \in @ : s <= MaxRow}]
<1>1. \A c \in Clients : conn'[c] = Off /\ client'[c] = w(c)
  BY DEF StreamRestart
<1>2. ASSUME NEW c \in Clients PROVE w(c) \in Client /\ w(c).torn = TRUE
  <2>1. client[c] \in Client
    BY DEF StreamInv, StreamTypeOK
  <2> QED
    BY <2>1 DEF Client
<1> HIDE DEF w
<1>3. Off \in Conn /\ \A c \in Clients : InStep(Off, w(c), seq')
  BY <1>2, OffInStep
<1>4. StreamTypeOK'
  <2>1. conn' = [c \in Clients |-> Off] /\ client' = [c \in Clients |-> w(c)]
    BY DEF StreamRestart, w
  <2> QED
    BY <1>2, <1>3, <2>1 DEF StreamTypeOK
<1> QED
  BY <1>1, <1>3, <1>4, ViewsEachNext DEF StreamInv

LEMMA StreamStepKeeps ==
    ASSUME StreamInv, BusInv, StreamStep
    PROVE  BusInv' /\ BusMoves /\ StreamInv'
<1>1. ASSUME NEW c \in Clients, Connect(c) PROVE BusInv' /\ BusMoves /\ StreamInv'
  <2>1. BusInv' /\ BusMoves
    BY <1>1, RestBus DEF Connect
  <2> QED
    BY <1>1, <2>1, ConnectStep
<1> QED
  BY <1>1, ReplayBeginsStep, ReplayStep, StreamFlushStep, ReadLogStep, ReadLogFailsStep, ReceiveStep, LagStep,
     DisconnectStep DEF StreamStep, ServeStep

-----------------------------------------------------------------------------
(* The outbox: what a pass has done and has still to do *)

OutInv == OutboxTypeOK /\ PassInStep /\ PageWhole /\ NoDurableSkip /\ HandoffsCharged

StepOf(r, sb) ==
    /\ r.at \in {"idle", "flush", "load"} => r.todo = {} /\ r.cur = NoTarget
    /\ r.at \in {"read", "page", "abort"} =>
          /\ r.cur \in Targets \ r.todo /\ r.snap[r.cur] <= r.reached
          /\ \A t \in r.todo \cup {r.cur} : sb[t].state # "none" /\ r.snap[t] <= sb[t].cursor
    /\ r.at = "read" => r.cursor = r.reached /\ r.pages < MaxPages
    /\ r.at # "page" => r.page = {}
    /\ \A s \in r.page : s > r.reached

\* what a pass has behind it and before it, of the rows R that were not late
WholeOf(r, sb, R, lt, hd, kd) ==
    (r.cur \in Targets /\ sb[r.cur].state = "live") =>
        \A s \in R \ lt[r.cur] :
            /\ sb[r.cur].from < s /\ s <= r.reached /\ kd[s] \in Wants[r.cur] => hd[r.cur][s] > 0
            /\ \A x \in r.page : r.reached < s /\ s <= x => s \in r.page

\* the events before a target when r is the one pass at work
AheadOf(r, sb, t, s) ==
    \/ sb[t].state = "live" /\ s > sb[t].cursor /\ (r.cur = t => r.at = "read")
    \/ r.cur = t /\ s > r.reached
    \/ t \in r.todo /\ s > r.snap[t]

LEMMA StepEach ==
    PassInStep <=> /\ \A p, q \in Passes : pass[p].at # "idle" /\ pass[q].at # "idle" => p = q
                   /\ \A p \in Passes : StepOf(pass[p], sub)
BY DEF PassInStep, StepOf

LEMMA StepEachNext ==
    PassInStep' <=> /\ \A p, q \in Passes : pass'[p].at # "idle" /\ pass'[q].at # "idle" => p = q
                    /\ \A p \in Passes : StepOf(pass'[p], sub')
BY DEF PassInStep, StepOf

LEMMA WholeEach ==
    PageWhole <=> \A p \in Passes : WholeOf(pass[p], sub, Rows, late, handed, kind)
BY DEF PageWhole, WholeOf, Live, Matches

LEMMA WholeEachNext ==
    PageWhole' <=> \A p \in Passes : WholeOf(pass'[p], sub', Rows', late', handed', kind')
BY DEF PageWhole, WholeOf, Live, Matches

LEMMA AheadOfOne ==
    ASSUME NEW p \in Passes, \A q \in Passes \ {p} : pass[q].cur = NoTarget /\ pass[q].todo = {},
           NEW t \in Targets, NEW s
    PROVE  StillAhead(t, s) <=> AheadOf(pass[p], sub, t, s)
<1>1. t # NoTarget
  BY OutboxAssumption
<1> QED
  BY <1>1 DEF StillAhead, AheadOf, Live

LEMMA AheadOfOneNext ==
    ASSUME NEW p \in Passes, \A q \in Passes \ {p} : pass'[q].cur = NoTarget /\ pass'[q].todo = {},
           NEW t \in Targets, NEW s
    PROVE  StillAhead(t, s)' <=> AheadOf(pass'[p], sub', t, s)
<1>1. t # NoTarget
  BY OutboxAssumption
<1> QED
  BY <1>1 DEF StillAhead, AheadOf, Live

\* DRAIN_LOCK: beside the pass at work the others have no target.
LEMMA OthersIdle ==
    ASSUME OutInv, NEW p \in Passes, pass[p].at # "idle" \/ LockFree
    PROVE  \A q \in Passes \ {p} : pass[q].at = "idle" /\ pass[q].cur = NoTarget /\ pass[q].todo = {}
BY StepEach DEF OutInv, LockFree, StepOf

LEMMA PassFields ==
    ASSUME NEW r \in Pass
    PROVE  /\ r.at \in {"idle", "flush", "load", "read", "page", "abort"} /\ r.todo \in SUBSET Targets
           /\ r.cur \in Targets \cup {NoTarget} /\ r.snap \in [Targets -> 0..MaxSeq]
           /\ r.cursor \in 0..MaxSeq /\ r.page \in SUBSET Seqs /\ r.full \in BOOLEAN
           /\ r.reached \in 0..MaxSeq /\ r.pages \in 0..MaxPages
BY DEF Pass

LEMMA IdleIsPass ==
    /\ Idle \in Pass /\ [Idle EXCEPT !.at = "load"] \in Pass /\ [Idle EXCEPT !.at = "flush"] \in Pass
    /\ Idle.at = "idle" /\ Idle.cur = NoTarget /\ Idle.todo = {} /\ Idle.page = {}
<1>1. 0 \in 0..MaxSeq /\ 0 \in 0..MaxPages
  BY EventLogAssumption, OutboxAssumption
<1> QED
  BY <1>1 DEF Idle, Pass

SubRow == [state : {"none", "live", "gone"}, from : 0..MaxSeq, cursor : 0..MaxSeq]

LEMMA OutFacts ==
    ASSUME OutInv
    PROVE  /\ sub \in [Targets -> SubRow] /\ handed \in [Targets -> [Seqs -> Nat]]
           /\ pass \in [Passes -> Pass] /\ late \in [Targets -> SUBSET Seqs]
           /\ MaxSeq \in Nat /\ Seqs \subseteq Nat
           /\ \A t \in Targets : /\ sub[t].state \in {"none", "live", "gone"}
                                 /\ sub[t].from \in 0..MaxSeq /\ sub[t].cursor \in 0..MaxSeq
           /\ \A p \in Passes : /\ pass[p] \in Pass /\ StepOf(pass[p], sub)
                                /\ WholeOf(pass[p], sub, Rows, late, handed, kind)
BY StepEach, WholeEach, EventLogAssumption DEF OutInv, OutboxTypeOK, SubRow, Seqs

\* A target's cover reaches as far as its cursor and every page read for it.
LEMMA CoveredBounds ==
    ASSUME OutInv, NEW t \in Targets
    PROVE  /\ Covered(t) \in Nat /\ sub[t].cursor <= Covered(t)
           /\ \A p \in Passes : pass[p].cur = t =>
                 pass[p].reached <= Covered(t) /\ \A x \in pass[p].page : x <= Covered(t)
<1> DEFINE S == {sub[t].cursor} \cup UNION {pass[p].page \cup {pass[p].reached} :
                                            p \in {q \in Passes : pass[q].cur = t}}
<1>1. S \subseteq 0..MaxSeq
  <2>1. \A p \in Passes : pass[p].page \subseteq 0..MaxSeq /\ pass[p].reached \in 0..MaxSeq
    BY OutFacts, PassFields DEF Seqs
  <2> QED
    BY <2>1, OutFacts
<1>2. sub[t].cursor \in S
  OBVIOUS
<1>3. \A p \in Passes : pass[p].cur = t => pass[p].reached \in S /\ pass[p].page \subseteq S
  OBVIOUS
<1>4. Covered(t) = Max(S)
  BY DEF Covered
<1> HIDE DEF S
<1>5. Max(S) \in S /\ \A x \in S : x <= Max(S)
  BY <1>1, <1>2, MaxOfNats, EventLogAssumption
<1>6. Max(S) \in Nat
  <2>1. Max(S) \in 0..MaxSeq
    BY <1>1, <1>5
  <2> QED
    BY <2>1, EventLogAssumption
<1> QED
  BY <1>2, <1>3, <1>4, <1>5, <1>6

\* What the history of late events owes to a step of the bus.
LateKept ==
    /\ late' \in [Targets -> SUBSET Seqs]
    /\ \A t \in Targets : /\ late[t] \subseteq late'[t]
                          /\ \A s \in landed' \ landed : s <= Covered(t) => s \in late'[t]

LEMMA NoteLateKeeps ==
    ASSUME OutInv, BusInv', NoteLate
    PROVE  LateKept
<1>1. landed' \subseteq Seqs /\ late \in [Targets -> SUBSET Seqs]
  BY OutFacts DEF BusInv, BusTypeOK
<1> QED
  BY <1>1 DEF NoteLate, LateKept

LEMMA NothingLate ==
    ASSUME OutInv, late' = late, landed' = landed
    PROVE  LateKept
BY OutFacts DEF LateKept

\* A row that is new to the log is late, or past everything its targets have covered.
LEMMA NewRowsAhead ==
    ASSUME OutInv, BusMoves, LateKept, NEW t \in Targets, NEW s \in Rows' \ late'[t]
    PROVE  \/ s \in Rows \ late[t] /\ kind'[s] = kind[s]
           \/ ~(s <= Covered(t))
BY DEF BusMoves, LateKept

LEMMA SkipKept ==
    ASSUME OutInv, BusMoves, Rows' \subseteq Nat, LateKept, sub' = sub,
           \A t \in Targets, s \in Seqs : handed[t][s] > 0 => handed'[t][s] > 0, Rows \subseteq Seqs
    PROVE  NoDurableSkip'
<1> SUFFICES ASSUME NEW t \in Targets, sub'[t].state = "live", NEW s \in Rows' \ late'[t],
                    s > sub'[t].from, s <= sub'[t].cursor, kind'[s] \in Wants[t]
             PROVE  handed'[t][s] > 0
  BY DEF NoDurableSkip, Live, Owed, Matches
<1>1. Covered(t) \in Nat /\ sub[t].cursor <= Covered(t) /\ sub[t].cursor \in Nat
  BY CoveredBounds, OutFacts
<1>2. s <= Covered(t)
  BY <1>1
<1>3. s \in Rows \ late[t] /\ kind'[s] = kind[s]
  BY <1>2, NewRowsAhead
<1>4. handed[t][s] > 0
  BY <1>3 DEF OutInv, NoDurableSkip, Live, Owed, Matches
<1> QED
  BY <1>3, <1>4

\* The bus moves and the outbox stands still.
LEMMA OutboxRests ==
    ASSUME OutInv, BusMoves, BusInv, BusInv', LateKept, sub' = sub, pass' = pass, handed' = handed
    PROVE  OutInv'
<1>0. Rows \subseteq Seqs /\ Rows' \subseteq Nat
  BY BusFacts, BusFactsNext
<1>1. OutboxTypeOK'
  BY DEF OutInv, OutboxTypeOK, LateKept
<1>2. PassInStep'
  BY StepEach, StepEachNext DEF OutInv
<1>3. NoDurableSkip'
  BY <1>0, SkipKept
<1>4. PageWhole'
  <2> SUFFICES ASSUME NEW p \in Passes PROVE WholeOf(pass[p], sub, Rows', late', handed, kind')
    BY WholeEachNext
  <2> DEFINE r == pass[p]
  <2>1. r \in Pass /\ WholeOf(r, sub, Rows, late, handed, kind)
    BY OutFacts
  <2> SUFFICES ASSUME r.cur \in Targets, sub[r.cur].state = "live", NEW s \in Rows' \ late'[r.cur]
               PROVE  /\ sub[r.cur].from < s /\ s <= r.reached /\ kind'[s] \in Wants[r.cur] => handed[r.cur][s] > 0
                      /\ \A x \in r.page : r.reached < s /\ s <= x => s \in r.page
    BY DEF WholeOf
  <2>2. CASE s \in Rows \ late[r.cur] /\ kind'[s] = kind[s]
    BY <2>1, <2>2 DEF WholeOf
  <2>3. CASE ~(s <= Covered(r.cur))
    <3>1. Covered(r.cur) \in Nat /\ r.reached <= Covered(r.cur) /\ \A x \in r.page : x <= Covered(r.cur)
      BY CoveredBounds
    <3>2. r.reached \in Nat /\ r.page \subseteq Nat /\ s \in Nat
      BY <1>0, <2>1, PassFields, OutFacts
    <3>3. ~(s <= r.reached) /\ \A x \in r.page : ~(s <= x)
      BY <2>3, <3>1, <3>2
    <3> QED
      BY <3>3
  <2> QED
    BY <2>2, <2>3, NewRowsAhead
<1>5. HandoffsCharged'
  <2> SUFFICES ASSUME NEW t \in Targets, NEW s \in Seqs
               PROVE  /\ handed'[t][s] <= 1 + faults' + crashes'
                      /\ StillAhead(t, s)' => handed'[t][s] <= faults' + crashes'
                      /\ sub'[t].state = "none" => handed'[t][s] = 0
    BY DEF HandoffsCharged
  <2>1. StillAhead(t, s)' <=> StillAhead(t, s)
    BY DEF StillAhead, Live
  <2>2. /\ handed[t][s] <= 1 + faults + crashes
        /\ StillAhead(t, s) => handed[t][s] <= faults + crashes
        /\ sub[t].state = "none" => handed[t][s] = 0
    BY DEF OutInv, HandoffsCharged
  <2>3. handed[t][s] \in Nat /\ faults \in Nat /\ faults' \in Nat /\ faults <= faults'
        /\ crashes \in Nat /\ crashes' = crashes
    BY OutFacts, SMTT(30) DEF BusMoves, BusInv, BusTypeOK
  <2> QED
    BY <2>1, <2>2, <2>3
<1> QED
  BY <1>1, <1>2, <1>3, <1>4, <1>5 DEF OutInv

\* The charges of every target when r is the one pass at work and n failures have been seen.
Charges(r, sb, hd, n) ==
    \A t \in Targets, s \in Seqs :
        /\ hd[t][s] <= 1 + n
        /\ AheadOf(r, sb, t, s) => hd[t][s] <= n
        /\ sb[t].state = "none" => hd[t][s] = 0

Alone(p) == \A q \in Passes \ {p} : pass[q].at = "idle" /\ pass[q].cur = NoTarget /\ pass[q].todo = {}

LEMMA ChargesOfOne ==
    ASSUME OutInv, NEW p \in Passes, Alone(p), faults \in Nat, crashes \in Nat
    PROVE  Charges(pass[p], sub, handed, faults + crashes)
<1> SUFFICES ASSUME NEW t \in Targets, NEW s \in Seqs
             PROVE  /\ handed[t][s] <= 1 + (faults + crashes)
                    /\ AheadOf(pass[p], sub, t, s) => handed[t][s] <= faults + crashes
                    /\ sub[t].state = "none" => handed[t][s] = 0
  BY DEF Charges
<1>1. /\ handed[t][s] <= 1 + faults + crashes
      /\ StillAhead(t, s) => handed[t][s] <= faults + crashes
      /\ sub[t].state = "none" => handed[t][s] = 0
  BY DEF OutInv, HandoffsCharged
<1>2. StillAhead(t, s) <=> AheadOf(pass[p], sub, t, s)
  BY AheadOfOne DEF Alone
<1>3. 1 + faults + crashes = 1 + (faults + crashes)
  OBVIOUS
<1> QED
  BY <1>1, <1>2, <1>3

\* A step of the one pass at work, put together from what it does to each part.
LEMMA OnePass ==
    ASSUME OutInv, NEW p \in Passes, Alone(p),
           \A q \in Passes \ {p} : pass'[q] = pass[q],
           OutboxTypeOK', NoDurableSkip', faults' \in Nat, crashes' \in Nat,
           StepOf(pass'[p], sub'),
           WholeOf(pass'[p], sub', Rows', late', handed', kind'),
           Charges(pass'[p], sub', handed', faults' + crashes')
    PROVE  OutInv'
<1>1. \A q \in Passes \ {p} : /\ pass'[q].at = "idle" /\ pass'[q].cur = NoTarget
                              /\ pass'[q].todo = {} /\ pass'[q].page = {}
  <2>1. \A q \in Passes : StepOf(pass[q], sub)
    BY StepEach DEF OutInv
  <2> QED
    BY <2>1 DEF Alone, StepOf
<1>2. PassInStep'
  <2>1. \A q \in Passes : StepOf(pass'[q], sub')
    BY <1>1 DEF StepOf
  <2>2. \A q, o \in Passes : pass'[q].at # "idle" /\ pass'[o].at # "idle" => q = o
    BY <1>1
  <2> QED
    BY <2>1, <2>2, StepEachNext
<1>3. PageWhole'
  <2>1. \A q \in Passes : WholeOf(pass'[q], sub', Rows', late', handed', kind')
    BY <1>1, OutboxAssumption DEF WholeOf
  <2> QED
    BY <2>1, WholeEachNext
<1>4. HandoffsCharged'
  <2> SUFFICES ASSUME NEW t \in Targets, NEW s \in Seqs
               PROVE  /\ handed'[t][s] <= 1 + faults' + crashes'
                      /\ StillAhead(t, s)' => handed'[t][s] <= faults' + crashes'
                      /\ sub'[t].state = "none" => handed'[t][s] = 0
    BY DEF HandoffsCharged
  <2>1. StillAhead(t, s)' <=> AheadOf(pass'[p], sub', t, s)
    BY <1>1, AheadOfOneNext
  <2>2. 1 + faults' + crashes' = 1 + (faults' + crashes')
    OBVIOUS
  <2>3. /\ handed'[t][s] <= 1 + (faults' + crashes')
        /\ AheadOf(pass'[p], sub', t, s) => handed'[t][s] <= faults' + crashes'
        /\ sub'[t].state = "none" => handed'[t][s] = 0
    BY DEF Charges
  <2> QED
    BY <2>1, <2>2, <2>3
<1> QED
  BY <1>2, <1>3, <1>4 DEF OutInv

\* Handoffs that stay as they are stay paid for, if nothing new lies ahead or a failure was charged.
LEMMA ChargesKept ==
    ASSUME OutInv, NEW p \in Passes, Alone(p), NEW n \in Nat,
           faults \in Nat, crashes \in Nat, handed' = handed,
           n = faults + crashes \/ n = faults + crashes + 1,
           \A t \in Targets : sub'[t].state = "none" => sub[t].state = "none",
           n = faults + crashes =>
              \A t \in Targets, s \in Seqs : AheadOf(pass'[p], sub', t, s) => AheadOf(pass[p], sub, t, s)
    PROVE  Charges(pass'[p], sub', handed', n)
<1> DEFINE m == faults + crashes
<1>0. m \in Nat /\ (n = m \/ n = m + 1)
  OBVIOUS
<1>1. Charges(pass[p], sub, handed, m)
  BY ChargesOfOne
<1> HIDE DEF m
<1> SUFFICES ASSUME NEW t \in Targets, NEW s \in Seqs
             PROVE  /\ handed[t][s] <= 1 + n
                    /\ AheadOf(pass'[p], sub', t, s) => handed[t][s] <= n
                    /\ sub'[t].state = "none" => handed[t][s] = 0
  BY DEF Charges
<1>2. /\ handed[t][s] <= 1 + m
      /\ AheadOf(pass[p], sub, t, s) => handed[t][s] <= m
      /\ sub[t].state = "none" => handed[t][s] = 0
  BY <1>1 DEF Charges
<1>3. handed[t][s] \in Nat
  BY OutFacts
<1>4. CASE n = m
  <2>1. AheadOf(pass'[p], sub', t, s) => AheadOf(pass[p], sub, t, s)
    BY <1>4 DEF m
  <2> QED
    BY <1>2, <1>4, <2>1
<1>5. CASE n = m + 1
  BY <1>0, <1>2, <1>3, <1>5
<1> QED
  BY <1>0, <1>4, <1>5

\* A pass that is between its beginning and its targets changes nothing for them.
LEMMA PassRests ==
    ASSUME OutInv, BusInv, BusInv', BusMoves, LateKept, NEW p \in Passes, Alone(p),
           pass[p].at \in {"idle", "flush", "load"},
           \/ pass' = [pass EXCEPT ![p] = Idle]
           \/ pass' = [pass EXCEPT ![p] = [Idle EXCEPT !.at = "load"]]
           \/ pass' = [pass EXCEPT ![p] = [Idle EXCEPT !.at = "flush"]],
           sub' = sub, handed' = handed, faults' = faults \/ faults' = faults + 1
    PROVE  OutInv'
<1>f. /\ pass \in [Passes -> Pass] /\ StepOf(pass[p], sub)
  BY OutFacts
<1>0. /\ pass'[p].at \in {"idle", "flush", "load"} /\ pass'[p].cur = NoTarget /\ pass'[p].todo = {}
      /\ pass'[p].page = {}
      /\ pass' \in [Passes -> Pass] /\ \A q \in Passes \ {p} : pass'[q] = pass[q]
  <2>1. \A R \in {Idle, [Idle EXCEPT !.at = "load"], [Idle EXCEPT !.at = "flush"]} :
           /\ R \in Pass /\ R.at \in {"idle", "flush", "load"} /\ R.cur = NoTarget /\ R.todo = {}
           /\ R.page = {}
    <3> DEFINE L == [Idle EXCEPT !.at = "load"]
               F == [Idle EXCEPT !.at = "flush"]
    <3>1. L \in Pass /\ L.at = "load" /\ L.cur = NoTarget /\ L.todo = {} /\ L.page = {}
      BY IdleIsPass DEF Idle
    <3>2. F \in Pass /\ F.at = "flush" /\ F.cur = NoTarget /\ F.todo = {} /\ F.page = {}
      BY IdleIsPass DEF Idle
    <3> HIDE DEF L, F
    <3> QED
      BY <3>1, <3>2, IdleIsPass DEF L, F
  <2>2. PICK R \in {Idle, [Idle EXCEPT !.at = "load"], [Idle EXCEPT !.at = "flush"]} :
           pass' = [pass EXCEPT ![p] = R]
    OBVIOUS
  <2> QED
    BY <1>f, <2>1, <2>2
<1>n. /\ Rows \subseteq Seqs /\ Rows' \subseteq Nat
      /\ faults \in Nat /\ faults' \in Nat /\ crashes \in Nat /\ crashes' = crashes
  BY BusFacts, BusFactsNext DEF BusMoves
<1>1. OutboxTypeOK'
  BY <1>0 DEF OutInv, OutboxTypeOK, LateKept
<1>2. NoDurableSkip'
  BY <1>n, SkipKept
<1>3. StepOf(pass'[p], sub')
  BY <1>0 DEF StepOf
<1>4. WholeOf(pass'[p], sub', Rows', late', handed', kind')
  BY <1>0, OutboxAssumption DEF WholeOf
<1>5. \A t \in Targets, s \in Seqs : AheadOf(pass'[p], sub', t, s) => AheadOf(pass[p], sub, t, s)
  <2>1. pass[p].cur = NoTarget /\ \A t \in Targets : t # NoTarget
    BY <1>f, OutboxAssumption DEF StepOf
  <2> QED
    BY <1>0, <2>1 DEF AheadOf
<1>6. Charges(pass'[p], sub', handed', faults' + crashes')
  <2>1. faults' + crashes' \in Nat /\ (faults' + crashes' = faults + crashes \/ faults' + crashes' = faults + crashes + 1)
    BY <1>n
  <2> DEFINE n == faults' + crashes'
  <2> HIDE DEF n
  <2>2. n \in Nat /\ (n = faults + crashes \/ n = faults + crashes + 1)
    BY <2>1 DEF n
  <2>3. Charges(pass'[p], sub', handed', n)
    BY <1>n, <1>5, <2>2, ChargesKept
  <2> QED
    BY <2>3 DEF n
<1> QED
  BY <1>0, <1>n, <1>1, <1>2, <1>3, <1>4, <1>6, OnePass

LEMMA DrainRestSteps ==
    ASSUME OutInv, BusInv, NEW p \in Passes,
           DrainBegin(p) \/ DrainFlushed(p) \/ DrainFlushFails(p) \/ LoadFails(p)
    PROVE  BusInv' /\ BusMoves /\ OutInv'
<1>p. p \in Flushers
  BY OutboxAssumption
<1>a. Alone(p) /\ pass[p].at \in {"idle", "flush", "load"} /\ sub' = sub /\ handed' = handed
  BY OthersIdle DEF Alone, DrainBegin, DrainFlushed, DrainFlushFails, LoadFails
<1>1. CASE DrainBegin(p)
  <2>1. BusInv' /\ BusMoves /\ landed' = landed /\ late' = late /\ faults' = faults
    BY <1>1, <1>p, TakeBus, RestBus DEF DrainBegin, Take, busVars
  <2>2. \/ pass' = [pass EXCEPT ![p] = [Idle EXCEPT !.at = "load"]]
        \/ pass' = [pass EXCEPT ![p] = [Idle EXCEPT !.at = "flush"]]
    BY <1>1 DEF DrainBegin, Set
  <2> QED
    BY <1>a, <2>1, <2>2, NothingLate, PassRests
<1>2. CASE DrainFlushed(p)
  <2>1. BusInv' /\ BusMoves /\ NoteLate /\ faults' = faults
    BY <1>2, <1>p, LandBus DEF DrainFlushed, Land
  <2>2. pass' = [pass EXCEPT ![p] = [Idle EXCEPT !.at = "load"]]
    BY <1>2 DEF DrainFlushed, Set
  <2> QED
    BY <1>a, <2>1, <2>2, NoteLateKeeps, PassRests
<1>3. CASE DrainFlushFails(p)
  <2>1. BusInv' /\ BusMoves /\ landed' = landed /\ late' = late /\ faults' = faults + 1
    BY <1>3, <1>p, LandFailsBus DEF DrainFlushFails, LandFails
  <2>2. pass' = [pass EXCEPT ![p] = Idle]
    BY <1>3 DEF DrainFlushFails, Set
  <2> QED
    BY <1>a, <2>1, <2>2, NothingLate, PassRests
<1>4. CASE LoadFails(p)
  <2>1. BusInv' /\ BusMoves /\ landed' = landed /\ late' = late /\ faults' = faults + 1
    BY <1>4, StorageFailsBus DEF LoadFails, StorageFails
  <2>2. pass' = [pass EXCEPT ![p] = Idle]
    BY <1>4 DEF LoadFails, Set
  <2> QED
    BY <1>a, <2>1, <2>2, NothingLate, PassRests
<1> QED
  BY <1>1, <1>2, <1>3, <1>4

\* A pass turns to a target whose cursor it knows, and to which all behind that cursor was handed.
LEMMA TurnsWell ==
    ASSUME NEW r, NEW sb, NEW R, NEW lt, NEW hd, NEW kd,
           r.todo \in SUBSET Targets, r.snap \in [Targets -> 0..MaxSeq], R \subseteq Nat,
           \A t \in Targets : sb[t].cursor \in Nat,
           \A t \in r.todo : sb[t].state # "none" /\ r.snap[t] <= sb[t].cursor,
           \A t \in Targets : sb[t].state = "live" =>
              \A s \in R \ lt[t] : sb[t].from < s /\ s <= sb[t].cursor /\ kd[s] \in Wants[t] => hd[t][s] > 0
    PROVE  /\ Turn(r) \in Pass /\ StepOf(Turn(r), sb) /\ WholeOf(Turn(r), sb, R, lt, hd, kd)
           /\ \A t \in Targets, s \in Seqs : AheadOf(Turn(r), sb, t, s) =>
                 \/ sb[t].state = "live" /\ s > sb[t].cursor
                 \/ t \in r.todo /\ s > r.snap[t]
<1>1. CASE r.todo = {}
  <2>1. Turn(r) = Idle
    BY <1>1 DEF Turn
  <2>2. StepOf(Idle, sb)
    BY IdleIsPass DEF StepOf
  <2>3. WholeOf(Idle, sb, R, lt, hd, kd)
    BY IdleIsPass, OutboxAssumption DEF WholeOf
  <2>4. \A t \in Targets, s \in Seqs : AheadOf(Idle, sb, t, s) => sb[t].state = "live" /\ s > sb[t].cursor
    <3>1. \A t \in Targets : t # NoTarget
      BY OutboxAssumption
    <3> QED
      BY <3>1, IdleIsPass DEF AheadOf
  <2> QED
    BY <2>1, <2>2, <2>3, <2>4, IdleIsPass
<1>2. CASE r.todo # {}
  <2> DEFINE c == CHOOSE x \in r.todo : TRUE
             n == [Idle EXCEPT !.at = "read", !.todo = r.todo \ {c}, !.cur = c,
                               !.snap = r.snap, !.cursor = r.snap[c], !.reached = r.snap[c]]
  <2>1. Turn(r) = n
    BY <1>2 DEF Turn
  <2>2. c \in r.todo
    BY <1>2
  <2> HIDE DEF c
  <2>3. c \in Targets /\ r.snap[c] \in 0..MaxSeq /\ r.snap[c] \in Nat
    BY <2>2, EventLogAssumption
  <2>4. /\ n.at = "read" /\ n.todo = r.todo \ {c} /\ n.cur = c /\ n.snap = r.snap
        /\ n.cursor = r.snap[c] /\ n.reached = r.snap[c] /\ n.page = {} /\ n.pages = 0
    BY DEF Idle
  <2>5. n \in Pass
    <3>1. Idle \in Pass
      BY IdleIsPass
    <3> QED
      BY <2>3, <3>1 DEF Pass
  <2> HIDE DEF n
  <2>6. StepOf(n, sb)
    <3>1. 0 < MaxPages
      BY OutboxAssumption
    <3> QED
      BY <2>2, <2>3, <2>4, <3>1 DEF StepOf
  <2>7. WholeOf(n, sb, R, lt, hd, kd)
    <3> SUFFICES ASSUME sb[c].state = "live", NEW s \in R \ lt[c], sb[c].from < s, s <= r.snap[c],
                        kd[s] \in Wants[c]
                 PROVE  hd[c][s] > 0
      BY <2>4 DEF WholeOf
    <3>1. s <= sb[c].cursor
      <4>1. r.snap[c] <= sb[c].cursor /\ sb[c].cursor \in Nat /\ s \in Nat
        BY <2>2, <2>3
      <4> QED
        BY <2>3, <4>1
    <3> QED
      BY <2>3, <3>1
  <2>8. \A t \in Targets, s \in Seqs : AheadOf(n, sb, t, s) =>
           \/ sb[t].state = "live" /\ s > sb[t].cursor
           \/ t \in r.todo /\ s > r.snap[t]
    BY <2>2, <2>4 DEF AheadOf
  <2> QED
    BY <2>1, <2>5, <2>6, <2>7, <2>8
<1> QED
  BY <1>1, <1>2

LEMMA SkipNext ==
    ASSUME NoDurableSkip'
    PROVE  \A t \in Targets : sub'[t].state = "live" =>
              \A s \in Rows' \ late'[t] :
                 sub'[t].from < s /\ s <= sub'[t].cursor /\ kind'[s] \in Wants[t] => handed'[t][s] > 0
<1> SUFFICES ASSUME NEW t \in Targets, sub'[t].state = "live", NEW s \in Rows' \ late'[t],
                    sub'[t].from < s, s <= sub'[t].cursor, kind'[s] \in Wants[t]
             PROVE  handed'[t][s] > 0
  OBVIOUS
<1>1. s > sub'[t].from
  OBVIOUS
<1>2. s \in Owed(t)' /\ t \in Live'
  BY <1>1 DEF Owed, Live, Matches
<1> QED
  BY <1>2 DEF NoDurableSkip

LEMMA TurnStep ==
    ASSUME OutInv, BusInv, BusInv', BusMoves, NEW p \in Passes, Alone(p), NEW r,
           pass' = [pass EXCEPT ![p] = Turn(r)],
           r.todo \in SUBSET Targets, r.snap \in [Targets -> 0..MaxSeq],
           \A t \in r.todo : sub'[t].state # "none" /\ r.snap[t] <= sub'[t].cursor,
           sub' \in [Targets -> SubRow], NoDurableSkip', late' = late, handed' = handed,
           faults' = faults \/ faults' = faults + 1,
           \A t \in Targets : sub'[t].state = "none" => sub[t].state = "none",
           faults' = faults => \A t \in Targets, s \in Seqs :
              (sub'[t].state = "live" /\ s > sub'[t].cursor) \/ (t \in r.todo /\ s > r.snap[t])
                 => AheadOf(pass[p], sub, t, s)
    PROVE  OutInv'
<1>f. /\ Rows' \subseteq Nat /\ faults \in Nat /\ faults' \in Nat /\ crashes \in Nat
      /\ crashes' = crashes /\ pass \in [Passes -> Pass]
  BY BusFacts, BusFactsNext, OutFacts DEF BusMoves
<1>1. \A t \in Targets : sub'[t].cursor \in Nat
  BY EventLogAssumption DEF SubRow
<1>2. \A t \in Targets : sub'[t].state = "live" =>
         \A s \in Rows' \ late'[t] :
            sub'[t].from < s /\ s <= sub'[t].cursor /\ kind'[s] \in Wants[t] => handed'[t][s] > 0
  BY SkipNext
<1>3. /\ Turn(r) \in Pass /\ StepOf(Turn(r), sub') /\ WholeOf(Turn(r), sub', Rows', late', handed', kind')
      /\ \A t \in Targets, s \in Seqs : AheadOf(Turn(r), sub', t, s) =>
            \/ sub'[t].state = "live" /\ s > sub'[t].cursor
            \/ t \in r.todo /\ s > r.snap[t]
  <2> DEFINE sb == sub'
             R == Rows'
             lt == late'
             hd == handed'
             kd == kind'
  <2>1. /\ r.todo \in SUBSET Targets /\ r.snap \in [Targets -> 0..MaxSeq] /\ R \subseteq Nat
        /\ \A t \in Targets : sb[t].cursor \in Nat
        /\ \A t \in r.todo : sb[t].state # "none" /\ r.snap[t] <= sb[t].cursor
        /\ \A t \in Targets : sb[t].state = "live" =>
              \A s \in R \ lt[t] : sb[t].from < s /\ s <= sb[t].cursor /\ kd[s] \in Wants[t] => hd[t][s] > 0
    BY <1>f, <1>1, <1>2
  <2> HIDE DEF sb, R, lt, hd, kd
  <2>2. /\ Turn(r) \in Pass /\ StepOf(Turn(r), sb) /\ WholeOf(Turn(r), sb, R, lt, hd, kd)
        /\ \A t \in Targets, s \in Seqs : AheadOf(Turn(r), sb, t, s) =>
              \/ sb[t].state = "live" /\ s > sb[t].cursor
              \/ t \in r.todo /\ s > r.snap[t]
    BY ONLY <2>1, TurnsWell
  <2> QED
    BY ONLY <2>2 DEF sb, R, lt, hd, kd
<1>4. pass'[p] = Turn(r) /\ pass' \in [Passes -> Pass] /\ \A q \in Passes \ {p} : pass'[q] = pass[q]
  BY <1>f, <1>3
<1>5. OutboxTypeOK'
  <2>1. handed' \in [Targets -> [Seqs -> Nat]] /\ late' \in [Targets -> SUBSET Seqs]
    BY OutFacts
  <2> QED
    BY <1>4, <2>1 DEF OutboxTypeOK, SubRow
<1>6. Charges(pass'[p], sub', handed', faults' + crashes')
  <2> DEFINE n == faults' + crashes'
  <2>1. n \in Nat /\ (n = faults + crashes \/ n = faults + crashes + 1)
        /\ (n = faults + crashes => faults' = faults)
    <3>1. faults \in Nat /\ faults' \in Nat /\ crashes \in Nat /\ crashes' = crashes
          /\ (faults' = faults \/ faults' = faults + 1)
      BY <1>f
    <3>2. CASE faults' = faults
      BY ONLY <3>1, <3>2 DEF n
    <3>3. CASE faults' = faults + 1
      <4>0. n = (faults + 1) + crashes
        BY ONLY <3>1, <3>3 DEF n
      <4> HIDE DEF n
      <4>1. n = faults + crashes + 1 /\ n \in Nat
        BY ONLY <3>1, <4>0
      <4>2. n # faults + crashes
        BY ONLY <3>1, <4>1
      <4> QED
        BY ONLY <4>1, <4>2
    <3> QED
      BY ONLY <3>1, <3>2, <3>3
  <2> HIDE DEF n
  <2>2. ASSUME n = faults + crashes, NEW t \in Targets, NEW s \in Seqs, AheadOf(pass'[p], sub', t, s)
        PROVE  AheadOf(pass[p], sub, t, s)
    <3>1. (sub'[t].state = "live" /\ s > sub'[t].cursor) \/ (t \in r.todo /\ s > r.snap[t])
      BY <1>3, <1>4, <2>2
    <3>2. faults' = faults
      BY <2>1, <2>2
    <3> QED
      BY <3>1, <3>2
  <2>3. Charges(pass'[p], sub', handed', n)
    BY <1>f, <2>1, <2>2, ChargesKept
  <2> QED
    BY <2>3 DEF n
<1>7. StepOf(pass'[p], sub') /\ WholeOf(pass'[p], sub', Rows', late', handed', kind')
  BY <1>3, <1>4
<1> QED
  BY <1>f, <1>4, <1>5, <1>6, <1>7, OnePass

LEMMA LoadTargetsStep ==
    ASSUME OutInv, BusInv, NEW p \in Passes, LoadTargets(p)
    PROVE  BusInv' /\ BusMoves /\ OutInv'
<1> DEFINE r == [todo |-> Live, snap |-> [t \in Targets |-> sub[t].cursor]]
<1>1. BusInv' /\ BusMoves /\ landed' = landed /\ faults' = faults
  BY RestBus DEF LoadTargets, busVars
<1>2. pass[p].at = "load" /\ pass' = [pass EXCEPT ![p] = Turn(r)]
      /\ sub' = sub /\ handed' = handed /\ late' = late
  BY DEF LoadTargets, Set
<1>3. Alone(p)
  BY <1>2, OthersIdle DEF Alone
<1>4. r.todo = Live /\ r.snap = [t \in Targets |-> sub[t].cursor]
  OBVIOUS
<1> HIDE DEF r
<1>f. /\ sub \in [Targets -> SubRow] /\ StepOf(pass[p], sub)
      /\ \A t \in Targets : sub[t].cursor \in 0..MaxSeq
  BY OutFacts
<1>5. r.todo \in SUBSET Targets /\ r.snap \in [Targets -> 0..MaxSeq]
  BY <1>f, <1>4 DEF Live
<1>6. \A t \in r.todo : sub'[t].state # "none" /\ r.snap[t] <= sub'[t].cursor
  <2> TAKE t \in r.todo
  <2>1. t \in Targets /\ sub[t].state = "live" /\ r.snap[t] = sub[t].cursor /\ sub[t].cursor \in Nat
    BY <1>4, <1>f, EventLogAssumption DEF Live
  <2> QED
    BY <1>2, <2>1
<1>7. NoDurableSkip'
  BY <1>1, <1>2, BusFacts, BusFactsNext, NothingLate, SkipKept
<1>8. \A t \in Targets, s \in Seqs :
         (sub'[t].state = "live" /\ s > sub'[t].cursor) \/ (t \in r.todo /\ s > r.snap[t])
            => AheadOf(pass[p], sub, t, s)
  <2>1. pass[p].cur = NoTarget /\ \A t \in Targets : t # NoTarget
    BY <1>2, <1>f, OutboxAssumption DEF StepOf
  <2> QED
    BY <1>2, <1>4, <2>1 DEF AheadOf, Live
<1>9. OutInv'
  BY <1>1, <1>2, <1>3, <1>f, <1>5, <1>6, <1>7, <1>8, TurnStep
<1> QED
  BY <1>1, <1>9

\* Where a pass has a target: what is known of it.
LEMMA AtWork ==
    ASSUME OutInv, NEW p \in Passes, pass[p].at \in {"read", "page", "abort"}
    PROVE  /\ Alone(p) /\ pass \in [Passes -> Pass] /\ pass[p] \in Pass
           /\ pass[p].cur \in Targets /\ pass[p].cur \notin pass[p].todo
           /\ pass[p].todo \in SUBSET Targets /\ pass[p].snap \in [Targets -> 0..MaxSeq]
           /\ pass[p].snap[pass[p].cur] <= pass[p].reached
           /\ \A t \in pass[p].todo \cup {pass[p].cur} :
                 sub[t].state # "none" /\ pass[p].snap[t] <= sub[t].cursor
           /\ pass[p].reached \in Nat /\ pass[p].page \in SUBSET Seqs /\ pass[p].page \subseteq Nat
           /\ \A s \in pass[p].page : s > pass[p].reached
           /\ sub \in [Targets -> SubRow]
           /\ \A t \in Targets : sub[t].cursor \in Nat /\ sub[t].from \in Nat
           /\ \A t \in Targets : pass[p].snap[t] \in Nat
<1>1. /\ sub \in [Targets -> SubRow] /\ pass \in [Passes -> Pass] /\ pass[p] \in Pass
      /\ StepOf(pass[p], sub) /\ MaxSeq \in Nat /\ Seqs \subseteq Nat
      /\ \A t \in Targets : sub[t].cursor \in 0..MaxSeq /\ sub[t].from \in 0..MaxSeq
  BY OutFacts
<1>2. Alone(p)
  BY OthersIdle DEF Alone
<1>3. /\ pass[p].todo \in SUBSET Targets /\ pass[p].snap \in [Targets -> 0..MaxSeq]
      /\ pass[p].reached \in 0..MaxSeq /\ pass[p].page \in SUBSET Seqs
  BY <1>1, PassFields
<1>4. /\ pass[p].cur \in Targets /\ pass[p].cur \notin pass[p].todo
      /\ pass[p].snap[pass[p].cur] <= pass[p].reached
      /\ \A t \in pass[p].todo \cup {pass[p].cur} :
            sub[t].state # "none" /\ pass[p].snap[t] <= sub[t].cursor
      /\ \A s \in pass[p].page : s > pass[p].reached
  BY <1>1 DEF StepOf
<1>5. pass[p].reached \in Nat /\ \A t \in Targets : pass[p].snap[t] \in Nat
  BY <1>1, <1>3
<1>6. \A t \in Targets : sub[t].cursor \in Nat /\ sub[t].from \in Nat
  BY <1>1
<1> QED
  BY <1>1, <1>2, <1>3, <1>4, <1>5, <1>6

\* A read that finds nothing, or fails, ends the walk of this target.
LEMMA ReadEnds ==
    ASSUME OutInv, BusInv, BusInv', BusMoves, NEW p \in Passes, pass[p].at = "read",
           pass' = [pass EXCEPT ![p] = Turn(pass[p])], landed' = landed,
           sub' = sub, handed' = handed, late' = late, faults' = faults \/ faults' = faults + 1
    PROVE  OutInv'
<1> DEFINE r == pass[p]
<1>f. /\ Alone(p) /\ r.todo \in SUBSET Targets /\ r.snap \in [Targets -> 0..MaxSeq]
      /\ \A t \in r.todo : sub[t].state # "none" /\ r.snap[t] <= sub[t].cursor
      /\ sub \in [Targets -> SubRow]
  BY AtWork
<1>7. NoDurableSkip'
  BY BusFacts, BusFactsNext, NothingLate, SkipKept
<1>8. \A t \in Targets, s \in Seqs :
         (sub'[t].state = "live" /\ s > sub'[t].cursor) \/ (t \in r.todo /\ s > r.snap[t])
            => AheadOf(pass[p], sub, t, s)
  BY DEF AheadOf
<1>9. pass' = [pass EXCEPT ![p] = Turn(r)]
  OBVIOUS
<1> HIDE DEF r
<1> QED
  BY <1>f, <1>7, <1>8, <1>9, TurnStep

\* A keyset page has every row up to its last one.
LEMMA PageDownward ==
    ASSUME NEW c \in Nat, NEW n \in Nat, Rows \subseteq Seqs,
           NEW x \in After(c, n), NEW s \in Rows, c < s, s <= x
    PROVE  s \in After(c, n)
<1>1. Seqs \subseteq Nat /\ IsFiniteSet(Seqs)
  <2>1. 1 \in Int /\ MaxSeq \in Int /\ MaxSeq \in Nat
    BY EventLogAssumption
  <2>2. IsFiniteSet(1..MaxSeq)
    BY <2>1, FS_Interval
  <2> QED
    BY <2>2, EventLogAssumption DEF Seqs
<1>2. x \in Nat /\ s \in Nat /\ x \in Rows
  BY <1>1 DEF After
<1>3. Between(c, s) \subseteq Between(c, x) /\ Between(c, x) \subseteq Seqs
  <2>1. \A r \in Nat : r < s => r < x
    BY <1>2
  <2> QED
    BY <1>1, <2>1 DEF Between
<1>4. IsFiniteSet(Between(c, x))
  BY <1>1, <1>3, FS_Subset
<1>5. /\ Cardinality(Between(c, s)) <= Cardinality(Between(c, x))
      /\ Cardinality(Between(c, s)) \in Nat /\ Cardinality(Between(c, x)) \in Nat
  BY <1>3, <1>4, FS_Subset, FS_CardinalityType
<1>6. Cardinality(Between(c, x)) < n
  BY DEF After
<1>7. Cardinality(Between(c, s)) < n
  BY <1>5, <1>6
<1> QED
  BY <1>7 DEF After

LEMMA ReadPageStep ==
    ASSUME OutInv, BusInv, NEW p \in Passes, ReadPage(p)
    PROVE  BusInv' /\ BusMoves /\ OutInv'
<1> DEFINE r == pass[p]
           rows == After(r.cursor, Batch)
           R == [r EXCEPT !.at = "page", !.page = rows, !.full = (Cardinality(rows) = Batch),
                          !.pages = r.pages + 1]
<1>1. BusInv' /\ BusMoves /\ landed' = landed /\ faults' = faults /\ crashes' = crashes
      /\ Rows' = Rows /\ kind' = kind
  BY RestBus DEF ReadPage, busVars, Rows
<1>2. /\ r.at = "read" /\ pass' = [pass EXCEPT ![p] = IF rows = {} THEN Turn(r) ELSE R]
      /\ sub' = sub /\ handed' = handed /\ late' = late
  BY DEF ReadPage, Set
<1>3. CASE rows = {}
  <2>1. pass' = [pass EXCEPT ![p] = Turn(pass[p])]
    BY <1>2, <1>3
  <2>2. pass[p].at = "read"
    BY <1>2
  <2> QED
    BY <1>1, <1>2, <2>1, <2>2, ReadEnds
<1>4. CASE rows # {}
  <2>f. /\ Alone(p) /\ pass \in [Passes -> Pass] /\ r \in Pass /\ StepOf(r, sub)
        /\ WholeOf(r, sub, Rows, late, handed, kind) /\ r.reached \in Nat
    BY <1>2, AtWork, OutFacts
  <2>n. faults \in Nat /\ crashes \in Nat /\ Rows \subseteq Seqs /\ Rows \subseteq Nat /\ Batch \in Nat
    BY BusFacts, OutboxAssumption
  <2>1. pass' = [pass EXCEPT ![p] = R]
    BY <1>2, <1>4
  <2>2. rows \subseteq Rows /\ \A s \in rows : r.cursor < s
    BY DEF After
  <2>3. r.cursor = r.reached /\ r.pages < MaxPages
    BY <1>2, <2>f DEF StepOf
  <2>4. r.pages + 1 \in 0..MaxPages
    <3>1. r.pages \in 0..MaxPages
      BY <2>f, PassFields
    <3> QED
      BY <2>3, <3>1, OutboxAssumption
  <2>5. ASSUME NEW s \in Rows, NEW x \in rows, r.reached < s, s <= x PROVE s \in rows
    BY <2>f, <2>n, <2>3, <2>5, PageDownward
  <2> HIDE DEF rows
  <2>6. R \in Pass
    BY <2>f, <2>2, <2>4, <2>n DEF Pass
  <2>7. /\ R.at = "page" /\ R.page = rows /\ R.cur = r.cur /\ R.todo = r.todo /\ R.snap = r.snap
        /\ R.reached = r.reached
    BY <2>f DEF Pass
  <2> HIDE DEF R
  <2>8. StepOf(R, sub)
    <3>1. \A s \in rows : s > r.reached
      <4> TAKE s \in rows
      <4>1. r.reached < s
        BY <2>2, <2>3
      <4> QED
        BY <4>1
    <3> HIDE DEF r
    <3>2. r.at = "read"
      BY <1>2
    <3> QED
      BY <2>f, <2>7, <3>1, <3>2 DEF StepOf
  <2>9. WholeOf(R, sub, Rows, late, handed, kind)
    <3> HIDE DEF r
    <3> QED
      BY <2>f, <2>7, <2>5 DEF WholeOf
  <2>10. \A t \in Targets, s \in Seqs : AheadOf(R, sub, t, s) => AheadOf(r, sub, t, s)
    BY <1>2, <2>7 DEF AheadOf
  <2>11. pass'[p] = R /\ pass' \in [Passes -> Pass] /\ \A q \in Passes \ {p} : pass'[q] = pass[q]
    BY <2>f, <2>1, <2>6
  <2>12. OutboxTypeOK'
    BY <1>2, <2>11 DEF OutInv, OutboxTypeOK
  <2>13. NoDurableSkip'
    BY <1>1, <1>2, <2>n, BusFactsNext, NothingLate, SkipKept
  <2>14. Charges(pass'[p], sub', handed', faults' + crashes')
    <3>1. faults + crashes \in Nat
      BY <2>n
    <3>2. \A t \in Targets, s \in Seqs : AheadOf(pass'[p], sub', t, s) => AheadOf(pass[p], sub, t, s)
      BY <1>2, <2>10, <2>11
    <3>3. \A t \in Targets : sub'[t].state = "none" => sub[t].state = "none"
      BY <1>2
    <3>4. Charges(pass'[p], sub', handed', faults + crashes)
      BY <1>2, <2>f, <2>n, <3>1, <3>2, <3>3, ChargesKept
    <3> QED
      BY <1>1, <3>4
  <2>15. StepOf(pass'[p], sub') /\ WholeOf(pass'[p], sub', Rows', late', handed', kind')
    BY <1>1, <1>2, <2>8, <2>9, <2>11
  <2>16. OutInv'
    BY <1>1, <2>f, <2>n, <2>11, <2>12, <2>13, <2>14, <2>15, OnePass
  <2> QED
    BY <1>1, <2>16
<1> QED
  BY <1>3, <1>4

LEMMA ReadFailsStep ==
    ASSUME OutInv, BusInv, NEW p \in Passes, ReadFails(p)
    PROVE  BusInv' /\ BusMoves /\ OutInv'
<1>1. BusInv' /\ BusMoves /\ landed' = landed /\ faults' = faults + 1
  BY StorageFailsBus DEF ReadFails, StorageFails
<1>2. /\ pass[p].at = "read" /\ pass' = [pass EXCEPT ![p] = Turn(pass[p])]
      /\ sub' = sub /\ handed' = handed /\ late' = late
  BY DEF ReadFails, Set
<1> QED
  BY <1>1, <1>2, ReadEnds

LEMMA DispatchFailsStep ==
    ASSUME OutInv, BusInv, NEW p \in Passes, DispatchFails(p)
    PROVE  BusInv' /\ BusMoves /\ OutInv'
<1> DEFINE r == pass[p]
           R == [r EXCEPT !.at = "abort", !.page = {}]
<1>1. BusInv' /\ BusMoves /\ landed' = landed /\ faults' = faults + 1 /\ crashes' = crashes
      /\ Rows' = Rows /\ kind' = kind
  BY StorageFailsBus DEF DispatchFails, StorageFails, Rows
<1>2. r.at = "page" /\ pass' = [pass EXCEPT ![p] = R] /\ sub' = sub /\ handed' = handed /\ late' = late
  BY DEF DispatchFails, Set, Abandon
<1>f. /\ Alone(p) /\ pass \in [Passes -> Pass] /\ r \in Pass /\ StepOf(r, sub)
      /\ WholeOf(r, sub, Rows, late, handed, kind)
  BY <1>2, AtWork, OutFacts
<1>n. faults \in Nat /\ crashes \in Nat /\ Rows \subseteq Seqs
  BY BusFacts
<1>3. R \in Pass
  BY <1>f DEF Pass
<1>4. /\ R.at = "abort" /\ R.page = {} /\ R.cur = r.cur /\ R.todo = r.todo /\ R.snap = r.snap
      /\ R.reached = r.reached
  BY <1>f DEF Pass
<1> HIDE DEF R
<1>5. StepOf(R, sub) /\ WholeOf(R, sub, Rows, late, handed, kind)
  BY <1>2, <1>f, <1>4 DEF StepOf, WholeOf
<1>6. pass'[p] = R /\ pass' \in [Passes -> Pass] /\ \A q \in Passes \ {p} : pass'[q] = pass[q]
  BY <1>f, <1>2, <1>3
<1>7. OutboxTypeOK'
  BY <1>2, <1>6 DEF OutInv, OutboxTypeOK
<1>8. NoDurableSkip'
  BY <1>1, <1>2, <1>n, BusFactsNext, NothingLate, SkipKept
<1>9. Charges(pass'[p], sub', handed', faults' + crashes')
  <2>1. faults + crashes + 1 \in Nat /\ faults + crashes + 1 # faults + crashes
        /\ faults' + crashes' = faults + crashes + 1
    BY <1>1, <1>n
  <2>3. \A t \in Targets : sub'[t].state = "none" => sub[t].state = "none"
    BY <1>2
  <2>4. Charges(pass'[p], sub', handed', faults + crashes + 1)
    BY <1>2, <1>f, <1>n, <2>1, <2>3, ChargesKept
  <2> QED
    BY <2>1, <2>4
<1>10. StepOf(pass'[p], sub') /\ WholeOf(pass'[p], sub', Rows', late', handed', kind')
  BY <1>1, <1>2, <1>5, <1>6
<1>11. OutInv'
  BY <1>1, <1>f, <1>n, <1>6, <1>7, <1>8, <1>9, <1>10, BusFactsNext, OnePass
<1> QED
  BY <1>1, <1>11

LEMMA DispatchStep ==
    ASSUME OutInv, BusInv, NEW p \in Passes, Dispatch(p)
    PROVE  BusInv' /\ BusMoves /\ OutInv'
<1> DEFINE r == pass[p]
           c == r.cur
           e == Min(r.page)
           m == kind[e] \in Wants[c]
           R == [r EXCEPT !.page = r.page \ {e}, !.reached = e]
           n == faults + crashes
<1>1. BusInv' /\ BusMoves /\ landed' = landed /\ faults' = faults /\ crashes' = crashes
      /\ Rows' = Rows /\ kind' = kind
  BY RestBus DEF Dispatch, busVars, Rows
<1>2. /\ r.at = "page" /\ r.page # {}
      /\ handed' = (IF m THEN [handed EXCEPT ![c][e] = @ + 1] ELSE handed)
      /\ pass' = [pass EXCEPT ![p] = R] /\ sub' = sub /\ late' = late
  BY DEF Dispatch, Set, Matches
<1>f. /\ Alone(p) /\ pass \in [Passes -> Pass] /\ r \in Pass
      /\ c \in Targets /\ c \notin r.todo /\ r.reached \in Nat
      /\ r.page \in SUBSET Seqs /\ r.page \subseteq Nat /\ r.snap[c] <= r.reached /\ r.snap[c] \in Nat
      /\ (\A s \in r.page : s > r.reached) /\ sub[c].state # "none"
  BY <1>2, AtWork
<1>g. StepOf(r, sub) /\ WholeOf(r, sub, Rows, late, handed, kind) /\ handed \in [Targets -> [Seqs -> Nat]]
  BY OutFacts
<1>n. faults \in Nat /\ crashes \in Nat /\ Rows \subseteq Seqs /\ Rows \subseteq Nat /\ n \in Nat
  BY BusFacts
<1>e. e \in r.page /\ \A x \in r.page : e <= x
  BY <1>2, <1>f, MinOfNats
<1>h. e \in Seqs /\ e \in Nat /\ e \in 0..MaxSeq /\ e > r.reached
  BY <1>e, <1>f DEF Seqs
<1> HIDE DEF e
<1>3. R \in Pass
  BY <1>f, <1>h DEF Pass
<1>4. /\ R.at = "page" /\ R.page = r.page \ {e} /\ R.cur = c /\ R.todo = r.todo /\ R.snap = r.snap
      /\ R.reached = e
  BY <1>f, <1>2 DEF Pass
<1> HIDE DEF R
<1>5. \A t \in Targets, s \in Seqs :
         handed'[t][s] = IF m /\ t = c /\ s = e THEN handed[t][s] + 1 ELSE handed[t][s]
  <2> HIDE DEF c, m
  <2>1. CASE m
    BY <1>2, <1>f, <1>g, <1>h, <2>1
  <2>2. CASE ~m
    BY <1>2, <2>2
  <2> QED
    BY <2>1, <2>2
<1>6. handed' \in [Targets -> [Seqs -> Nat]]
  <2> HIDE DEF c, m
  <2>1. CASE m
    BY <1>2, <1>f, <1>g, <1>h, <2>1
  <2>2. CASE ~m
    BY <1>2, <1>g, <2>2
  <2> QED
    BY <2>1, <2>2
<1>7. StepOf(R, sub)
  <2>1. \A s \in r.page \ {e} : s > e
    BY <1>e, <1>f, <1>h
  <2>2. r.snap[c] <= e
    BY <1>f, <1>h
  <2> HIDE DEF r, c
  <2>3. r.at = "page" /\ c = r.cur
    BY <1>2 DEF c
  <2> QED
    BY <1>g, <1>4, <2>1, <2>2, <2>3 DEF StepOf
<1>8. WholeOf(R, sub, Rows, late, handed', kind)
  <2> SUFFICES ASSUME sub[c].state = "live", NEW s \in Rows \ late[c]
               PROVE  /\ sub[c].from < s /\ s <= e /\ kind[s] \in Wants[c] => handed'[c][s] > 0
                      /\ \A x \in r.page \ {e} : e < s /\ s <= x => s \in r.page \ {e}
    BY <1>4, <1>f DEF WholeOf
  <2>1. /\ sub[c].from < s /\ s <= r.reached /\ kind[s] \in Wants[c] => handed[c][s] > 0
        /\ \A x \in r.page : r.reached < s /\ s <= x => s \in r.page
    BY <1>f, <1>g DEF WholeOf
  <2>s. s \in Nat /\ s \in Seqs
    BY <1>n
  <2>2. ASSUME sub[c].from < s, s <= e, kind[s] \in Wants[c] PROVE handed'[c][s] > 0
    <3>0. handed[c][s] \in Nat
      BY <1>f, <1>g, <2>s
    <3>1. CASE s <= r.reached
      <4>1. handed[c][s] > 0
        BY <2>1, <2>2, <3>1
      <4> QED
        BY <1>5, <1>f, <2>s, <3>0, <4>1
    <3>2. CASE ~(s <= r.reached)
      <4>1. r.reached < s
        BY <1>f, <2>s, <3>2
      <4>2. s \in r.page
        BY <1>e, <2>1, <2>2, <4>1
      <4>3. s = e
        BY <1>e, <1>h, <2>s, <2>2, <4>2
      <4>4. handed'[c][s] = handed[c][s] + 1
        BY <1>5, <1>f, <2>s, <2>2, <4>3
      <4> QED
        BY <3>0, <4>4
    <3> QED
      BY <3>1, <3>2
  <2>3. ASSUME NEW x \in r.page \ {e}, e < s, s <= x PROVE s \in r.page \ {e}
    <3>1. r.reached < s /\ s # e
      BY <1>f, <1>h, <2>s, <2>3
    <3> QED
      BY <2>1, <2>3, <3>1
  <2> QED
    BY <2>2, <2>3
<1>9. pass'[p] = R /\ pass' \in [Passes -> Pass] /\ \A q \in Passes \ {p} : pass'[q] = pass[q]
  BY <1>f, <1>2, <1>3
<1>10. OutboxTypeOK'
  BY <1>2, <1>6, <1>9 DEF OutInv, OutboxTypeOK
<1>11. NoDurableSkip'
  <2>1. \A t \in Targets, s \in Seqs : handed[t][s] > 0 => handed'[t][s] > 0
    <3> TAKE t \in Targets, s \in Seqs
    <3>1. handed[t][s] \in Nat
      BY <1>g
    <3>2. handed'[t][s] = handed[t][s] + 1 \/ handed'[t][s] = handed[t][s]
      BY <1>5
    <3> QED
      BY <3>1, <3>2
  <2> QED
    BY <1>1, <1>2, <1>n, <2>1, BusFactsNext, NothingLate, SkipKept
<1>12. Charges(R, sub, handed', n)
  <2>1. Charges(r, sub, handed, n)
    BY <1>f, <1>n, ChargesOfOne
  <2> SUFFICES ASSUME NEW t \in Targets, NEW s \in Seqs
               PROVE  /\ handed'[t][s] <= 1 + n
                      /\ AheadOf(R, sub, t, s) => handed'[t][s] <= n
                      /\ sub[t].state = "none" => handed'[t][s] = 0
    BY DEF Charges
  <2>2. /\ handed[t][s] <= 1 + n
        /\ AheadOf(r, sub, t, s) => handed[t][s] <= n
        /\ sub[t].state = "none" => handed[t][s] = 0
    BY <2>1 DEF Charges
  <2>3. handed[t][s] \in Nat /\ s \in Nat
    <3>1. Seqs \subseteq Nat
      BY OutFacts
    <3> QED
      BY <1>g, <3>1
  <2>4. CASE t = c /\ s = e
    <3>1. AheadOf(r, sub, c, e)
      BY <1>h DEF AheadOf
    <3>2. ~AheadOf(R, sub, c, e)
      BY <1>4, <1>f, <1>h DEF AheadOf
    <3>3. handed[t][s] <= n /\ (handed'[t][s] = handed[t][s] + 1 \/ handed'[t][s] = handed[t][s])
      BY <1>5, <2>2, <2>4, <3>1
    <3>4. handed'[t][s] <= 1 + n
      <4> HIDE DEF n
      <4> QED
        BY <1>n, <2>3, <3>3
    <3> QED
      BY <1>f, <2>4, <3>2, <3>4
  <2>5. CASE ~(t = c /\ s = e)
    <3>1. handed'[t][s] = handed[t][s]
      BY <1>5, <2>5
    <3>2. AheadOf(R, sub, t, s) => AheadOf(r, sub, t, s)
      <4>1. s > e => s > r.reached
        BY <1>f, <1>h, <2>3
      <4> QED
        BY <1>2, <1>4, <4>1 DEF AheadOf
    <3> QED
      BY <2>2, <3>1, <3>2
  <2> QED
    BY <2>4, <2>5
<1>13. /\ StepOf(pass'[p], sub') /\ WholeOf(pass'[p], sub', Rows', late', handed', kind')
       /\ Charges(pass'[p], sub', handed', faults' + crashes')
  BY <1>1, <1>2, <1>7, <1>8, <1>9, <1>12
<1>14. OutInv'
  BY <1>1, <1>f, <1>n, <1>9, <1>10, <1>11, <1>13, OnePass
<1> QED
  BY <1>1, <1>14

\* The page is done: the cursor is written or its write fails, and the pass moves on.
LEMMA PageEnds ==
    ASSUME OutInv, BusInv, BusInv', BusMoves, NEW p \in Passes, PageDone(pass[p]),
           pass' = [pass EXCEPT ![p] = AfterPage(pass[p])],
           handed' = handed, late' = late, Rows' = Rows, kind' = kind,
           sub' \in [Targets -> SubRow],
           \A t \in Targets : /\ sub'[t].state = sub[t].state /\ sub'[t].from = sub[t].from
                              /\ sub[t].cursor <= sub'[t].cursor,
           \A t \in Targets \ {pass[p].cur} : sub'[t] = sub[t],
           \/ sub'[pass[p].cur].cursor = sub[pass[p].cur].cursor
           \/ sub'[pass[p].cur].cursor = pass[p].reached,
           \/ faults' = faults + 1
           \/ /\ faults' = faults
              /\ sub[pass[p].cur].state = "live" => pass[p].reached <= sub'[pass[p].cur].cursor
    PROVE  OutInv'
<1> DEFINE r == pass[p]
           c == r.cur
<1>1. r.at \in {"page", "abort"} /\ (r.at = "page" => r.page = {})
  BY DEF PageDone
<1>f. /\ Alone(p) /\ pass \in [Passes -> Pass] /\ r \in Pass
      /\ c \in Targets /\ c \notin r.todo /\ r.reached \in Nat
      /\ r.todo \in SUBSET Targets /\ r.snap \in [Targets -> 0..MaxSeq]
      /\ (\A t \in r.todo \cup {c} : sub[t].state # "none" /\ r.snap[t] <= sub[t].cursor)
      /\ (\A t \in Targets : sub[t].cursor \in Nat /\ r.snap[t] \in Nat)
  BY <1>1, AtWork
<1>g. /\ StepOf(r, sub) /\ WholeOf(r, sub, Rows, late, handed, kind)
      /\ handed \in [Targets -> [Seqs -> Nat]] /\ late \in [Targets -> SUBSET Seqs]
  BY OutFacts
<1>n. /\ faults \in Nat /\ crashes \in Nat /\ Rows \subseteq Seqs /\ Rows \subseteq Nat
      /\ faults' \in Nat /\ crashes' = crashes
  BY BusFacts, BusFactsNext DEF BusMoves
<1>u. \A t \in Targets : sub'[t].cursor \in Nat
  BY EventLogAssumption DEF SubRow
<1>2. NoDurableSkip'
  <2> SUFFICES ASSUME NEW t \in Targets, sub[t].state = "live", NEW s \in Rows \ late[t],
                      s > sub[t].from, s <= sub'[t].cursor, kind[s] \in Wants[t]
               PROVE  handed[t][s] > 0
    BY DEF NoDurableSkip, Live, Owed, Matches
  <2>0. s \in Nat
    BY <1>n
  <2>1. CASE sub'[t].cursor = sub[t].cursor
    <3>1. s \in Owed(t) \ late[t] /\ t \in Live
      BY <2>1 DEF Owed, Live, Matches
    <3> QED
      BY <3>1 DEF OutInv, NoDurableSkip
  <2>2. CASE t = c /\ sub'[t].cursor = r.reached
    <3>1. sub[c].from < s /\ s <= r.reached
      BY <2>2
    <3> QED
      BY <1>f, <1>g, <2>2, <3>1 DEF WholeOf
  <2> QED
    BY <2>1, <2>2
<1>3. \A t \in r.todo \cup {c} : sub'[t].state # "none" /\ r.snap[t] <= sub'[t].cursor
  <2> TAKE t \in r.todo \cup {c}
  <2>1. t \in Targets
    BY <1>f
  <2>2. /\ sub[t].state # "none" /\ r.snap[t] <= sub[t].cursor /\ sub[t].cursor <= sub'[t].cursor
        /\ sub'[t].state = sub[t].state
        /\ sub[t].cursor \in Nat /\ sub'[t].cursor \in Nat /\ r.snap[t] \in Nat
    BY <1>f, <1>u, <2>1
  <2> QED
    BY <2>2
<1>4. faults' = faults => \A t \in Targets, s \in Seqs :
         (sub'[t].state = "live" /\ s > sub'[t].cursor) \/ (t \in r.todo /\ s > r.snap[t])
            => AheadOf(r, sub, t, s)
  <2> SUFFICES ASSUME faults' = faults, NEW t \in Targets, NEW s \in Seqs,
                      sub'[t].state = "live", s > sub'[t].cursor
               PROVE  AheadOf(r, sub, t, s)
    BY DEF AheadOf
  <2>0. s \in Nat
    BY OutFacts
  <2>1. CASE t = c
    <3>1. r.reached <= sub'[c].cursor
      <4>1. faults' # faults + 1
        BY <1>n
      <4> QED
        BY <2>1, <4>1
    <3>2. s > r.reached
      BY <1>f, <1>u, <2>0, <2>1, <3>1
    <3> QED
      BY <2>1, <3>2 DEF AheadOf
  <2>2. CASE t # c
    BY <2>2 DEF AheadOf
  <2> QED
    BY <2>1, <2>2
<1>5. CASE AfterPage(r) = Turn(r)
  <2>1. pass' = [pass EXCEPT ![p] = Turn(r)]
    BY <1>5
  <2>2. /\ \A t \in r.todo : sub'[t].state # "none" /\ r.snap[t] <= sub'[t].cursor
        /\ \A t \in Targets : sub'[t].state = "none" => sub[t].state = "none"
    BY <1>3
  <2>3. faults' = faults \/ faults' = faults + 1
    OBVIOUS
  <2>4. faults' = faults => \A t \in Targets, s \in Seqs :
           (sub'[t].state = "live" /\ s > sub'[t].cursor) \/ (t \in r.todo /\ s > r.snap[t])
              => AheadOf(pass[p], sub, t, s)
    BY <1>4
  <2>5. Alone(p) /\ r.todo \in SUBSET Targets /\ r.snap \in [Targets -> 0..MaxSeq]
    BY <1>f
  <2> HIDE DEF r, c
  <2> QED
    BY <1>2, <2>1, <2>2, <2>3, <2>4, <2>5, TurnStep, Zenon
<1>6. CASE AfterPage(r) # Turn(r)
  <2> DEFINE R == [r EXCEPT !.at = "read", !.cursor = r.reached]
  <2>1. AfterPage(r) = R /\ r.at # "abort" /\ r.pages # MaxPages
    BY <1>6 DEF AfterPage
  <2>2. R \in Pass
    BY <1>f, PassFields DEF Pass
  <2>3. /\ R.at = "read" /\ R.page = r.page /\ R.cur = r.cur /\ R.todo = r.todo /\ R.snap = r.snap
        /\ R.reached = r.reached /\ R.cursor = r.reached /\ R.pages = r.pages
    BY <1>f DEF Pass
  <2>4. r.pages < MaxPages
    <3>1. r.pages \in 0..MaxPages
      BY <1>f, PassFields
    <3> QED
      BY <2>1, <3>1, OutboxAssumption
  <2>5. r.page = {}
    BY <1>1, <2>1
  <2> HIDE DEF R
  <2>6. StepOf(R, sub')
    <3>1. r.snap[r.cur] <= r.reached
      BY <1>1, <1>g DEF StepOf
    <3> QED
      BY <1>f, <1>3, <2>3, <2>4, <2>5, <3>1 DEF StepOf
  <2>7. WholeOf(R, sub', Rows', late', handed', kind')
    BY <1>f, <1>g, <2>3, <2>5 DEF WholeOf
  <2>8. pass'[p] = R /\ pass' \in [Passes -> Pass] /\ \A q \in Passes \ {p} : pass'[q] = pass[q]
    BY <1>f, <2>1, <2>2
  <2>9. OutboxTypeOK'
    BY <1>g, <2>8 DEF OutboxTypeOK, SubRow
  <2>10. faults' = faults => \A t \in Targets, s \in Seqs :
            AheadOf(R, sub', t, s) => AheadOf(r, sub, t, s)
    <3> SUFFICES ASSUME faults' = faults, NEW t \in Targets, NEW s \in Seqs, AheadOf(R, sub', t, s)
                 PROVE  AheadOf(r, sub, t, s)
      OBVIOUS
    <3>1. CASE (sub'[t].state = "live" /\ s > sub'[t].cursor) \/ (t \in r.todo /\ s > r.snap[t])
      BY <1>4, <3>1
    <3>2. CASE r.cur = t /\ s > r.reached
      BY <3>2 DEF AheadOf
    <3> QED
      BY <2>3, <3>1, <3>2 DEF AheadOf
  <2>11. Charges(pass'[p], sub', handed', faults' + crashes')
    <3>a. \A t \in Targets : sub'[t].state = "none" => sub[t].state = "none"
      OBVIOUS
    <3>1. CASE faults' = faults
      <4>1. \A t \in Targets, s \in Seqs : AheadOf(pass'[p], sub', t, s) => AheadOf(pass[p], sub, t, s)
        BY <2>8, <2>10, <3>1
      <4>2. faults + crashes \in Nat
        BY <1>n
      <4>3. Charges(pass'[p], sub', handed', faults + crashes)
        BY <1>f, <1>n, <3>a, <4>1, <4>2, ChargesKept
      <4> QED
        BY <1>n, <3>1, <4>3
    <3>2. CASE faults' = faults + 1
      <4> DEFINE n == (faults + 1) + crashes
      <4>1. n \in Nat /\ n = faults + crashes + 1 /\ n # faults + crashes
        BY <1>n
      <4> HIDE DEF n
      <4>2. Charges(pass'[p], sub', handed', n)
        BY <1>f, <1>n, <3>a, <4>1, ChargesKept
      <4> QED
        BY <1>n, <3>2, <4>2 DEF n
    <3> QED
      BY <3>1, <3>2
  <2>12. StepOf(pass'[p], sub') /\ WholeOf(pass'[p], sub', Rows', late', handed', kind')
    BY <2>6, <2>7, <2>8
  <2>13. crashes' \in Nat
    BY <1>n
  <2> QED
    BY <1>f, <1>n, <1>2, <2>8, <2>9, <2>11, <2>12, <2>13, OnePass
<1> QED
  BY <1>5, <1>6

LEMMA AdvanceSteps ==
    ASSUME OutInv, BusInv, NEW p \in Passes, AdvanceCursor(p) \/ AdvanceFails(p)
    PROVE  BusInv' /\ BusMoves /\ OutInv'
<1> DEFINE r == pass[p]
           c == r.cur
<1>0. /\ PageDone(r) /\ pass' = [pass EXCEPT ![p] = AfterPage(r)] /\ handed' = handed /\ late' = late
  BY DEF AdvanceCursor, AdvanceFails, Set
<1>f. /\ c \in Targets /\ r.reached \in Nat /\ sub \in [Targets -> SubRow]
      /\ r.snap[c] <= r.reached /\ r.snap[c] <= sub[c].cursor /\ r \in Pass
      /\ (\A t \in Targets : sub[t].cursor \in Nat) /\ r.snap[c] \in Nat
  <2>1. r.at \in {"read", "page", "abort"}
    BY <1>0 DEF PageDone
  <2> QED
    BY <2>1, AtWork
<1>1. CASE AdvanceFails(p)
  <2>1. BusInv' /\ BusMoves /\ faults' = faults + 1 /\ Rows' = Rows /\ kind' = kind /\ sub' = sub
    BY <1>1, StorageFailsBus DEF AdvanceFails, StorageFails, Rows
  <2>2. \A t \in Targets : sub[t].cursor <= sub[t].cursor
    BY <1>f
  <2>3. OutInv'
    BY <1>0, <1>f, <2>1, <2>2, PageEnds
  <2> QED
    BY <2>1, <2>3
<1>2. CASE AdvanceCursor(p)
  <2>1. BusInv' /\ BusMoves /\ faults' = faults /\ Rows' = Rows /\ kind' = kind
    BY <1>2, RestBus DEF AdvanceCursor, busVars, Rows
  <2>2. sub' = IF Advances(r) THEN [sub EXCEPT ![c].cursor = r.reached] ELSE sub
    BY <1>2 DEF AdvanceCursor
  <2>3. CASE Advances(r)
    <3>1. sub[c].state = "live" /\ sub[c].cursor < r.reached /\ r.reached \in 0..MaxSeq
      BY <1>f, <2>3, PassFields DEF Advances
    <3>2. sub' = [sub EXCEPT ![c].cursor = r.reached]
      BY <2>2, <2>3
    <3> HIDE DEF r, c
    <3>3. /\ sub' \in [Targets -> SubRow] /\ sub'[c].cursor = r.reached
          /\ sub'[c].state = sub[c].state /\ sub'[c].from = sub[c].from
          /\ \A t \in Targets \ {c} : sub'[t] = sub[t]
      BY <1>f, <3>1, <3>2 DEF SubRow
    <3>4. \A t \in Targets : /\ sub'[t].state = sub[t].state /\ sub'[t].from = sub[t].from
                             /\ sub[t].cursor <= sub'[t].cursor
      BY <1>f, <3>1, <3>3
    <3>5. r.reached <= sub'[c].cursor
      BY <1>f, <3>3
    <3>6. OutInv'
      BY <1>0, <2>1, <3>3, <3>4, <3>5, PageEnds DEF r, c
    <3> QED
      BY <2>1, <3>6
  <2>4. CASE ~Advances(r)
    <3>1. sub' = sub
      BY <2>2, <2>4
    <3>2. sub[c].state = "live" => r.reached <= sub[c].cursor
      BY <1>f, <2>4 DEF Advances
    <3>3. \A t \in Targets : sub[t].cursor <= sub[t].cursor
      BY <1>f
    <3>4. OutInv'
      BY <1>0, <1>f, <2>1, <3>1, <3>2, <3>3, PageEnds
    <3> QED
      BY <2>1, <3>4
  <2> QED
    BY <2>3, <2>4
<1> QED
  BY <1>1, <1>2

LEMMA SubscriptionSteps ==
    ASSUME OutInv, BusInv, NEW t \in Targets, CreateSubscription(t) \/ DeleteSubscription(t)
    PROVE  BusInv' /\ BusMoves /\ OutInv'
<1>1. /\ BusInv' /\ BusMoves /\ faults' = faults /\ crashes' = crashes /\ Rows' = Rows /\ kind' = kind
      /\ handed' = handed /\ pass' = pass /\ late' = late
  BY RestBus DEF CreateSubscription, DeleteSubscription, busVars, Rows
<1>f. /\ sub \in [Targets -> SubRow] /\ handed \in [Targets -> [Seqs -> Nat]]
      /\ \A u \in Targets : sub[u].cursor \in 0..MaxSeq /\ sub[u].from \in 0..MaxSeq
  BY OutFacts
<1>n. faults \in Nat /\ crashes \in Nat /\ Rows \subseteq Nat /\ seq \in 0..MaxSeq /\ 0 \in 0..MaxSeq
  BY BusFacts, EventLogAssumption
<1>2. \/ /\ sub[t].state = "none" /\ sub'[t].state = "live" /\ sub'[t].cursor = sub'[t].from
      \/ /\ sub[t].state = "live" /\ sub'[t].state = "gone" /\ sub'[t].cursor = sub[t].cursor
         /\ sub'[t].from = sub[t].from
  BY <1>f DEF CreateSubscription, DeleteSubscription, SubRow
<1>3. sub' \in [Targets -> SubRow] /\ \A u \in Targets \ {t} : sub'[u] = sub[u]
  <2>1. CASE CreateSubscription(t)
    <3>1. PICK from \in {0, seq} : sub' = [sub EXCEPT ![t] = [state |-> "live", from |-> from, cursor |-> from]]
      BY <2>1 DEF CreateSubscription
    <3>2. from \in 0..MaxSeq
      BY <1>n
    <3> QED
      BY <1>f, <3>1, <3>2 DEF SubRow
  <2>2. CASE DeleteSubscription(t)
    BY <1>f, <2>2 DEF DeleteSubscription, SubRow
  <2> QED
    BY <2>1, <2>2
<1>4. OutboxTypeOK'
  BY <1>1, <1>3 DEF OutInv, OutboxTypeOK, SubRow
<1>5. ASSUME NEW p \in Passes
      PROVE  /\ StepOf(pass[p], sub') /\ WholeOf(pass[p], sub', Rows, late, handed, kind)
  <2>1. StepOf(pass[p], sub) /\ WholeOf(pass[p], sub, Rows, late, handed, kind) /\ pass[p] \in Pass
    BY OutFacts
  <2>2. CASE pass[p].at \in {"read", "page", "abort"}
    <3>1. /\ pass[p].cur \in Targets /\ pass[p].todo \subseteq Targets
          /\ \A u \in pass[p].todo \cup {pass[p].cur} :
                sub[u].state # "none" /\ pass[p].snap[u] <= sub[u].cursor
      BY <2>2, AtWork
    <3>2. \A u \in pass[p].todo \cup {pass[p].cur} :
             /\ sub'[u].state # "none" /\ pass[p].snap[u] <= sub'[u].cursor
             /\ sub'[u].state = "live" => sub[u].state = "live"
             /\ sub'[u].from = sub[u].from
      BY <1>2, <1>3, <3>1
    <3>3. StepOf(pass[p], sub')
      BY <2>1, <2>2, <3>2 DEF StepOf
    <3>4. WholeOf(pass[p], sub', Rows, late, handed, kind)
      BY <2>1, <3>2 DEF WholeOf
    <3> QED
      BY <3>3, <3>4
  <2>3. CASE pass[p].at \in {"idle", "flush", "load"}
    BY <2>1, <2>3, OutboxAssumption DEF StepOf, WholeOf
  <2> QED
    BY <2>1, <2>2, <2>3, PassFields
<1>6. PassInStep' /\ PageWhole'
  <2>1. \A p, q \in Passes : pass'[p].at # "idle" /\ pass'[q].at # "idle" => p = q
    BY <1>1, StepEach DEF OutInv
  <2> QED
    BY <1>1, <1>5, <2>1, StepEachNext, WholeEachNext
<1>7. NoDurableSkip'
  <2> SUFFICES ASSUME NEW u \in Targets, sub'[u].state = "live", NEW s \in Rows \ late[u],
                      s > sub'[u].from, s <= sub'[u].cursor, kind[s] \in Wants[u]
               PROVE  handed[u][s] > 0
    BY <1>1 DEF NoDurableSkip, Live, Owed, Matches
  <2>1. CASE u = t
    <3>1. sub'[t].cursor = sub'[t].from
      BY <1>2, <2>1
    <3>2. s \in Nat /\ sub'[t].from \in 0..MaxSeq
      BY <1>n, <1>3 DEF SubRow
    <3>3. s > sub'[t].from /\ s <= sub'[t].from
      BY <2>1, <3>1
    <3> QED
      BY <3>2, <3>3, EventLogAssumption
  <2>2. CASE u # t
    <3>1. sub'[u] = sub[u]
      BY <1>3, <2>2
    <3>2. u \in Live /\ s \in Owed(u) \ late[u]
      BY <3>1 DEF Live, Owed, Matches
    <3> QED
      BY <3>2 DEF OutInv, NoDurableSkip
  <2> QED
    BY <2>1, <2>2
<1>8. HandoffsCharged'
  <2> SUFFICES ASSUME NEW u \in Targets, NEW s \in Seqs
               PROVE  /\ handed[u][s] <= 1 + faults + crashes
                      /\ StillAhead(u, s)' => handed[u][s] <= faults + crashes
                      /\ sub'[u].state = "none" => handed[u][s] = 0
    BY <1>1 DEF HandoffsCharged
  <2>1. /\ handed[u][s] <= 1 + faults + crashes
        /\ StillAhead(u, s) => handed[u][s] <= faults + crashes
        /\ sub[u].state = "none" => handed[u][s] = 0
    BY DEF OutInv, HandoffsCharged
  <2>2. CASE u # t
    <3>1. StillAhead(u, s)' <=> StillAhead(u, s)
      BY <1>1, <1>3, <2>2 DEF StillAhead, Live
    <3> QED
      BY <1>3, <2>1, <2>2, <3>1
  <2>3. CASE u = t /\ sub[t].state = "none"
    <3>1. handed[u][s] = 0 /\ sub'[u].state # "none"
      BY <1>2, <2>1, <2>3
    <3> QED
      BY <1>n, <3>1
  <2>4. CASE u = t /\ sub[t].state # "none"
    <3>1. sub[t].state = "live" /\ sub'[t].state = "gone"
      BY <1>2, <2>4
    <3>2. StillAhead(u, s)' => StillAhead(u, s)
      BY <1>1, <2>4, <3>1 DEF StillAhead, Live
    <3> QED
      BY <2>1, <2>4, <3>1, <3>2
  <2> QED
    BY <2>2, <2>3, <2>4
<1>9. OutInv'
  BY <1>4, <1>6, <1>7, <1>8 DEF OutInv
<1> QED
  BY <1>1, <1>9

LEMMA OutboxRestartStep ==
    ASSUME OutInv, BusInv, Restart, OutboxRestart
    PROVE  OutInv'
<1>1. /\ Rows' = Rows /\ \A s \in Rows : kind'[s] = kind[s] /\ s <= MaxRow
      /\ crashes \in Nat /\ crashes' = crashes + 1 /\ faults' = faults /\ faults \in Nat
  BY RestartBus
<1>2. /\ pass' = [p \in Passes |-> Idle] /\ sub' = sub
      /\ handed' = [t \in Targets |-> [s \in Seqs |-> IF s <= MaxRow THEN handed[t][s] ELSE 0]]
      /\ late' = [t \in Targets |-> {s \in late[t] : s <= MaxRow}]
  BY DEF OutboxRestart
<1>f. /\ handed \in [Targets -> [Seqs -> Nat]] /\ late \in [Targets -> SUBSET Seqs] /\ Rows \subseteq Seqs
  BY OutFacts, BusFacts
<1>3. OutboxTypeOK'
  BY <1>2, <1>f, IdleIsPass DEF OutInv, OutboxTypeOK
<1>4. PassInStep' /\ PageWhole'
  <2>1. \A p \in Passes : pass'[p] = Idle
    BY <1>2
  <2>2. StepOf(Idle, sub') /\ WholeOf(Idle, sub', Rows', late', handed', kind')
    BY IdleIsPass, OutboxAssumption DEF StepOf, WholeOf
  <2>3. Idle.at = "idle"
    BY IdleIsPass
  <2> QED
    BY <2>1, <2>2, <2>3, StepEachNext, WholeEachNext
<1>5. NoDurableSkip'
  <2> SUFFICES ASSUME NEW t \in Targets, sub[t].state = "live", NEW s \in Rows, s \notin late'[t],
                      s > sub[t].from, s <= sub[t].cursor, kind'[s] \in Wants[t]
               PROVE  handed'[t][s] > 0
    BY <1>1, <1>2 DEF NoDurableSkip, Live, Owed, Matches
  <2>1. s <= MaxRow /\ s \notin late[t] /\ kind[s] \in Wants[t]
    BY <1>1, <1>2
  <2>2. t \in Live /\ s \in Owed(t) \ late[t]
    BY <2>1 DEF Live, Owed, Matches
  <2>3. handed[t][s] > 0
    BY <2>2 DEF OutInv, NoDurableSkip
  <2> QED
    BY <1>2, <1>f, <2>1, <2>3
<1>6. HandoffsCharged'
  <2> SUFFICES ASSUME NEW t \in Targets, NEW s \in Seqs
               PROVE  /\ handed'[t][s] <= 1 + faults' + crashes'
                      /\ handed'[t][s] <= faults' + crashes'
                      /\ sub[t].state = "none" => handed'[t][s] = 0
    BY <1>2 DEF HandoffsCharged
  <2>1. /\ handed[t][s] <= 1 + faults + crashes /\ handed[t][s] \in Nat
        /\ sub[t].state = "none" => handed[t][s] = 0
    BY <1>f DEF OutInv, HandoffsCharged
  <2>2. handed'[t][s] = handed[t][s] \/ handed'[t][s] = 0
    BY <1>2
  <2>3. faults' + crashes' = 1 + faults + crashes /\ faults' + crashes' \in Nat
    BY <1>1
  <2>4. 1 + faults' + crashes' = 1 + (faults' + crashes')
    BY <1>1
  <2> QED
    BY <2>1, <2>2, <2>3, <2>4
<1> QED
  BY <1>3, <1>4, <1>5, <1>6 DEF OutInv

LEMMA FlushStep ==
    ASSUME OutInv, BusInv, NEW f \in Pollers, Flush(f)
    PROVE  BusInv' /\ BusMoves /\ OutInv'
<1>1. f \in Flushers
  BY OutboxAssumption
<1>2. BusInv' /\ BusMoves /\ NoteLate /\ sub' = sub /\ handed' = handed /\ pass' = pass
  BY <1>1, TakeBus, LandBus, LandFailsBus DEF Flush
<1> QED
  BY <1>2, NoteLateKeeps, OutboxRests

LEMMA OutboxStepKeeps ==
    ASSUME OutInv, BusInv, OutboxStep
    PROVE  BusInv' /\ BusMoves /\ OutInv'
<1>1. CASE DrainStep
  BY <1>1, DrainRestSteps, LoadTargetsStep, ReadPageStep, DispatchStep, AdvanceSteps DEF DrainStep
<1>2. CASE DrainFails
  BY <1>2, DrainRestSteps, ReadFailsStep, DispatchFailsStep, AdvanceSteps DEF DrainFails
<1> QED
  BY <1>1, <1>2, FlushStep, SubscriptionSteps DEF OutboxStep

-----------------------------------------------------------------------------
(* The plane *)

LEMMA EventInvParts == EventInv <=> BusInv /\ OutInv /\ StreamInv
BY DEF EventInv, TypeOK, BusInv, OutInv, StreamInv

LEMMA EventInvPartsNext == EventInv' <=> BusInv' /\ OutInv' /\ StreamInv'
BY DEF EventInv, TypeOK, BusInv, OutInv, StreamInv

LEMMA EventInvStarts ==
    ASSUME Init
    PROVE  EventInv
<1>0. MaxSeq \in Nat /\ RingCap \in Nat \ {0} /\ PendingCap \in Nat /\ FaultBound \in Nat
      /\ CrashBound \in Nat /\ PruneBound \in Nat /\ 0 \in 0..MaxSeq
  BY EventLogAssumption
<1>1. BusInv
  <2>a. /\ seq = 0 /\ seed = 0 /\ ringFrom = 1 /\ kind = [s \in Seqs |-> "none"]
        /\ pending = <<>> /\ hand = [f \in Flushers |-> <<>>] /\ log = <<>> /\ landed = {}
        /\ lost = {}
        /\ dropped = 0 /\ lifecycleDropped = 0 /\ faults = 0 /\ crashes = 0 /\ prunes = 0
    BY DEF Init, BusInit
  <2>1. /\ ToSet(pending) = {} /\ IsInjective(pending) /\ pending \in Seq(Seqs) /\ Len(pending) = 0
        /\ \A f \in Flushers : ToSet(hand[f]) = {} /\ IsInjective(hand[f])
        /\ hand \in [Flushers -> Seq(Seqs)] /\ log \in Seq(SUBSET Seqs) /\ ToSet(log) = {}
    BY <2>a, EmptyQueue, EmptySeq
  <2>2. Rows = {}
    BY <2>1 DEF Rows
  <2>3. /\ seq \in 0..MaxSeq /\ seed \in 0..seq
        /\ ringFrom \in (seed + 1)..(seq + 1) /\ seq - ringFrom < RingCap
    BY <1>0, <2>a
  <2>4. Len(pending) <= PendingCap /\ dropped \in Nat /\ lifecycleDropped \in 0..dropped
        /\ faults \in 0..FaultBound /\ crashes \in 0..CrashBound /\ prunes \in 0..PruneBound
    BY <1>0, <2>a, <2>1
  <2>5. BusTypeOK
    BY <2>a, <2>1, <2>3, <2>4 DEF BusTypeOK
  <2>6. EachInOnePlace
    BY <2>a, <2>1, <2>2 DEF EachInOnePlace, Settled
  <2>7. Missing = {}
    <3>1. (seed + 1)..seq = {}
      BY <2>a
    <3> QED
      BY <3>1 DEF Missing
  <2>8. EveryEventAccounted
    BY <2>a, <2>7, FS_EmptySet DEF EveryEventAccounted
  <2> QED
    BY <2>5, <2>6, <2>8 DEF BusInv
<1>2. OutInv
  <2>a. /\ sub = [t \in Targets |-> [state |-> "none", from |-> 0, cursor |-> 0]]
        /\ handed = [t \in Targets |-> [s \in Seqs |-> 0]]
        /\ pass = [p \in Passes |-> Idle] /\ late = [t \in Targets |-> {}]
        /\ faults = 0 /\ crashes = 0
    BY DEF Init, OutboxInit, BusInit
  <2>1. OutboxTypeOK
    BY <1>0, <2>a, IdleIsPass DEF OutboxTypeOK
  <2>2. PassInStep /\ PageWhole
    <3>1. \A p \in Passes : pass[p] = Idle
      BY <2>a
    <3>2. StepOf(Idle, sub) /\ WholeOf(Idle, sub, Rows, late, handed, kind)
      BY IdleIsPass, OutboxAssumption DEF StepOf, WholeOf
    <3>3. Idle.at = "idle"
      BY IdleIsPass
    <3> QED
      BY <3>1, <3>2, <3>3, StepEach, WholeEach
  <2>3. NoDurableSkip
    BY <2>a DEF NoDurableSkip, Live
  <2>4. HandoffsCharged
    <3> SUFFICES ASSUME NEW t \in Targets, NEW s \in Seqs
                 PROVE  /\ handed[t][s] <= 1 + faults + crashes
                        /\ StillAhead(t, s) => handed[t][s] <= faults + crashes
                        /\ sub[t].state = "none" => handed[t][s] = 0
      BY DEF HandoffsCharged
    <3>1. handed[t][s] = 0
      BY <2>a
    <3> QED
      BY <2>a, <3>1
  <2> QED
    BY <2>1, <2>2, <2>3, <2>4 DEF OutInv
<1>3. StreamInv
  <2>a. conn = [c \in Clients |-> Off] /\ client = [c \in Clients |-> View(0)] /\ seq = 0
    BY DEF Init, StreamInit, BusInit
  <2>1. Off \in Conn /\ View(0) \in Client
    BY <1>0, OffInStep DEF View, Client
  <2>2. InStep(Off, View(0), 0)
    <3>1. (0 + 1)..0 = {}
      OBVIOUS
    <3> QED
      BY <3>1 DEF InStep, Off, View
  <2>3. StreamTypeOK
    BY <2>a, <2>1 DEF StreamTypeOK
  <2> QED
    BY <2>a, <2>2, <2>3, ViewsEach DEF StreamInv
<1> QED
  BY <1>1, <1>2, <1>3, EventInvParts

LEMMA EventInvKept ==
    ASSUME EventInv, [Next]_vars
    PROVE  EventInv'
<1>i. BusInv /\ OutInv /\ StreamInv
  BY EventInvParts
<1>1. CASE Produce
  <2>1. BusInv' /\ BusMoves /\ landed' = landed
    BY <1>1, <1>i, PruneBus, EmitBus DEF Produce
  <2>2. sub' = sub /\ handed' = handed /\ pass' = pass /\ late' = late /\ UNCHANGED streamVars
    BY <1>1 DEF Produce, outboxVars
  <2>3. OutInv'
    BY <1>i, <2>1, <2>2, NothingLate, OutboxRests
  <2>4. StreamInv'
    BY <1>i, <2>1, <2>2, StreamRests DEF BusMoves
  <2> QED
    BY <2>1, <2>3, <2>4, EventInvPartsNext
<1>2. CASE OutboxStep /\ UNCHANGED streamVars
  <2>1. BusInv' /\ BusMoves /\ OutInv'
    BY <1>2, <1>i, OutboxStepKeeps
  <2>2. StreamInv'
    BY <1>2, <1>i, <2>1, StreamRests DEF BusMoves
  <2> QED
    BY <2>1, <2>2, EventInvPartsNext
<1>3. CASE StreamStep /\ NoteLate /\ UNCHANGED <<sub, handed, pass>>
  <2>1. BusInv' /\ BusMoves /\ StreamInv'
    BY <1>3, <1>i, StreamStepKeeps
  <2>2. OutInv'
    BY <1>3, <1>i, <2>1, NoteLateKeeps, OutboxRests
  <2> QED
    BY <2>1, <2>2, EventInvPartsNext
<1>4. CASE Reboot
  <2>1. BusInv' /\ seq' \in Nat
    BY <1>4, <1>i, RestartBus DEF Reboot
  <2>2. OutInv' /\ StreamInv'
    BY <1>4, <1>i, <2>1, OutboxRestartStep, StreamRestartStep DEF Reboot
  <2> QED
    BY <2>1, <2>2, EventInvPartsNext
<1>5. CASE UNCHANGED vars
  <2>1. UNCHANGED busVars /\ UNCHANGED streamVars /\ sub' = sub /\ handed' = handed /\ pass' = pass /\ late' = late
    BY <1>5 DEF vars, outboxVars
  <2>2. BusInv' /\ BusMoves /\ landed' = landed
    BY <1>i, <2>1, RestBus
  <2>3. OutInv'
    BY <1>i, <2>1, <2>2, NothingLate, OutboxRests
  <2>4. StreamInv'
    BY <1>i, <2>1, <2>2, StreamRests DEF BusMoves
  <2> QED
    BY <2>2, <2>3, <2>4, EventInvPartsNext
<1> QED
  BY <1>1, <1>2, <1>3, <1>4, <1>5 DEF Next

(***************************************************************************)
(* Nothing is lost between the bus and its readers: the queue, the batches  *)
(* and the log account for every event (events.rs), what is behind a        *)
(* subscription's cursor was handed off (subscriptions.rs) and the two ends *)
(* of a stream agree (routes/events.rs).                                    *)
(***************************************************************************)
THEOREM EventInvariant == Spec => []EventInv
<1>1. Init => EventInv
  BY EventInvStarts
<1>2. EventInv /\ [Next]_vars => EventInv'
  BY EventInvKept
<1> QED
  BY <1>1, <1>2, PTL DEF Spec

(***************************************************************************)
(* Every event of this life of the process that is neither waiting, nor in  *)
(* a flusher's hands, nor appended was counted as dropped (events.rs,       *)
(* queue_for_log and persist_pending).                                      *)
(***************************************************************************)
THEOREM EveryEventAlwaysAccounted == Spec => []EveryEventAccounted
<1>1. EventInv => EveryEventAccounted
  BY DEF EventInv
<1> QED
  BY <1>1, EventInvariant, PTL

(***************************************************************************)
(* A durable event behind a live subscription's cursor that was not         *)
(* appended late has a delivery row (subscriptions.rs, drain_target).       *)
(***************************************************************************)
THEOREM NothingDurableSkipped == Spec => []NoDurableSkip
<1>1. EventInv => NoDurableSkip
  BY DEF EventInv
<1> QED
  BY <1>1, EventInvariant, PTL

(***************************************************************************)
(* DRAIN_LOCK keeps passes from handing the same page off twice: each       *)
(* further delivery row of an event took a failed statement or a restart    *)
(* (subscriptions.rs, DRAIN_LOCK).                                          *)
(***************************************************************************)
THEOREM HandoffsNeverDouble == Spec => []NoDoubleHandoff
<1>1. EventInv => NoDoubleHandoff
  BY DEF EventInv, HandoffsCharged, NoDoubleHandoff
<1> QED
  BY <1>1, EventInvariant, PTL

(***************************************************************************)
(* A stream served by the ring and the channel within one life of the       *)
(* process has no gap (routes/events.rs, stream_events and recover).        *)
(***************************************************************************)
THEOREM RingViewsStayWhole == Spec => []RingViewWhole
<1>1. EventInv => RingViewWhole
  BY DEF EventInv, ViewsInStep, RingViewWhole, Gap
<1> QED
  BY <1>1, EventInvariant, PTL
=============================================================================

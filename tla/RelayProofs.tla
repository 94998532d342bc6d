----------------------------- MODULE RelayProofs -----------------------------
(****************************************************************************)
(* The slot pool, for every set of requests and every number of slots: the  *)
(* heart is WakeKeepsInv, as waking any number of waiters moves units from  *)
(* the counter to the completed futures.  Then the safety of forward_chat   *)
(* for every pair of timeouts besides: each step of Relay is a step of the  *)
(* pool (SlotStepOfRelay), so the pool's invariant carries over; what is    *)
(* added ties the pool to the program counters.                             *)
(****************************************************************************)
EXTENDS RelayProps, FiniteSetTheorems, FunctionTheorems, SequenceTheorems, TLAPS

------------------------------------------------------------------------------
(* The slot pool *)

\* The inductive invariant of the pool.
SlotsInv == SlotsTypeOK /\ SlotConservation /\ NoLostWakeup

\* Sets of requests are finite, so their sizes are numbers.
LEMMA RequestSetsFinite ==
  ASSUME NEW S \in SUBSET Requests
  PROVE  IsFiniteSet(S) /\ Cardinality(S) \in Nat
  BY SlotsAssumption, FS_Subset, FS_CardinalityType

\* The first k elements of a queue of distinct requests are k requests.
LEMMA PrefixCardinality ==
  ASSUME NEW w \in Seq(Requests), NEW k \in 0..Len(w),
         \A i, j \in 1..Len(w) : w[i] = w[j] => i = j
  PROVE  Cardinality({ w[i] : i \in 1..k }) = k
  <1> DEFINE P == { w[i] : i \in 1..k }
             f == [i \in 1..k |-> w[i]]
  <1>1. f \in Bijection(1..k, P)
    <2>1. f \in [1..k -> P]
      OBVIOUS
    <2>2. \A i, j \in 1..k : f[i] = f[j] => i = j
      OBVIOUS
    <2>3. \A p \in P : \E i \in 1..k : f[i] = p
      OBVIOUS
    <2>4. QED
      BY <2>1, <2>2, <2>3 DEF Bijection, Injection, Surjection, IsInjective
  <1>2. ExistsBijection(1..k, P)
    BY <1>1 DEF ExistsBijection
  <1>3. IsFiniteSet(1..k) /\ Cardinality(1..k) = k
    BY FS_Interval
  <1>4. QED
    BY <1>2, <1>3, FS_Bijection

\* Sizes of disjoint sets of requests add up.
LEMMA DisjointCardinality ==
  ASSUME NEW A \in SUBSET Requests, NEW B \in SUBSET Requests, A \cap B = {}
  PROVE  Cardinality(A \cup B) = Cardinality(A) + Cardinality(B)
  <1>1. Cardinality(A \cap B) = 0
    BY FS_EmptySet
  <1>2. IsFiniteSet(A) /\ IsFiniteSet(B) /\ Cardinality(A) \in Nat /\ Cardinality(B) \in Nat
    BY RequestSetsFinite
  <1>3. Cardinality(A \cup B) = Cardinality(A) + Cardinality(B) - Cardinality(A \cap B)
    BY <1>2, FS_Union
  <1>4. QED
    BY <1>1, <1>2, <1>3

\* Waking from any consistent distribution of the units re-establishes the
\* invariant: it is what resuming, timing out and releasing have in common.
LEMMA WakeKeepsInv ==
  ASSUME NEW v \in Nat, NEW w \in Seq(Requests),
         NEW g \in SUBSET Requests, NEW h \in SUBSET Requests,
         \A i, j \in 1..Len(w) : w[i] = w[j] => i = j,
         \A i \in 1..Len(w) : w[i] \notin g \cup h,
         g \cap h = {},
         v + Cardinality(g) + Cardinality(h) = Slots,
         Wake(v, w, g), holders' = h
  PROVE  SlotsInv'
  <1> DEFINE k == IF v < Len(w) THEN v ELSE Len(w)
             P == { w[i] : i \in 1..k }
  <1>1. k \in Nat /\ k <= v /\ k <= Len(w) /\ Len(w) \in Nat /\ (k = v \/ k = Len(w))
    OBVIOUS
  <1>2. value' = v - k /\ waiters' = SubSeq(w, k + 1, Len(w)) /\ granted' = g \cup P
    BY DEF Wake
  <1> HIDE DEF k
  <1>3. P \in SUBSET Requests /\ P \cap g = {} /\ P \cap h = {}
    BY <1>1
  <1>4. Cardinality(granted') = Cardinality(g) + k
    <2>1. Cardinality(P) = k
      BY <1>1, PrefixCardinality
    <2>2. Cardinality(g \cup P) = Cardinality(g) + Cardinality(P)
      BY <1>3, DisjointCardinality
    <2>3. QED
      BY <1>2, <2>1, <2>2
  <1>5. /\ waiters' \in Seq(Requests)
        /\ Len(waiters') = Len(w) - k
        /\ \A i \in 1..Len(waiters') : waiters'[i] = w[k + i]
    <2>1. \A i \in (k + 1)..Len(w) : w[i] \in Requests
      BY <1>1
    <2>2. /\ SubSeq(w, k + 1, Len(w)) \in Seq(Requests)
          /\ Len(SubSeq(w, k + 1, Len(w))) =
               IF k + 1 <= Len(w) THEN Len(w) - (k + 1) + 1 ELSE 0
          /\ \A i \in 1..(Len(w) - (k + 1) + 1) :
               SubSeq(w, k + 1, Len(w))[i] = w[(k + 1) + i - 1]
      <3>1. k + 1 \in Int /\ Len(w) \in Int
        BY <1>1
      <3>2. QED
        BY <2>1, <3>1, SubSeqProperties
    <2>4. Len(waiters') = Len(w) - k
      BY <1>1, <1>2, <2>2
    <2>5. ASSUME NEW i \in 1..Len(waiters')
          PROVE  waiters'[i] = w[k + i]
      <3>1. i \in 1..(Len(w) - (k + 1) + 1) /\ (k + 1) + i - 1 = k + i
        BY <1>1, <2>4
      <3>2. SubSeq(w, k + 1, Len(w))[i] = w[(k + 1) + i - 1]
        BY <2>2, <3>1
      <3>3. QED
        BY <1>2, <3>1, <3>2
    <2>6. QED
      BY <1>2, <2>2, <2>4, <2>5
  <1>6. SlotsTypeOK'
    <2>1. value' \in Nat
      BY <1>1, <1>2
    <2>2. granted' \subseteq Requests /\ holders' \subseteq Requests /\ granted' \cap holders' = {}
      BY <1>2, <1>3
    <2>3. ASSUME NEW i \in 1..Len(waiters'), NEW j \in 1..Len(waiters'),
                 waiters'[i] = waiters'[j]
          PROVE  i = j
      <3>1. k + i \in 1..Len(w) /\ k + j \in 1..Len(w)
        BY <1>1, <1>5
      <3>2. w[k + i] = w[k + j]
        BY <1>5, <2>3
      <3>3. k + i = k + j
        BY <3>1, <3>2
      <3>4. QED
        BY <1>1, <3>3
    <2>4. Waiting' \cap (granted' \cup holders') = {}
      <3>1. \A i \in 1..Len(waiters') : waiters'[i] \notin g \cup h \cup P
        BY <1>1, <1>5
      <3>2. granted' \cup holders' = g \cup h \cup P
        BY <1>2
      <3> HIDE DEF P
      <3>3. QED
        BY <3>1, <3>2 DEF Waiting
    <2>5. QED
      BY <1>5, <2>1, <2>2, <2>3, <2>4 DEF SlotsTypeOK
  <1>7. SlotConservation'
    <2>1. Cardinality(g) \in Nat /\ Cardinality(h) \in Nat
      BY RequestSetsFinite
    <2>2. QED
      BY <1>1, <1>2, <1>4, <2>1 DEF SlotConservation
  <1>8. NoLostWakeup'
    <2>1. SUFFICES ASSUME value' > 0 PROVE waiters' = << >>
      BY DEF NoLostWakeup
    <2>2. k = Len(w)
      BY <1>1, <1>2, <2>1
    <2>3. Len(waiters') = 0
      BY <1>1, <1>5, <2>2
    <2>4. QED
      BY <1>5, <2>3, EmptySeq
  <1>9. QED
    BY <1>6, <1>7, <1>8 DEF SlotsInv

------------------------------------------------------------------------------
(* One lemma per operation of the pool. *)

\* acquire() that does not suspend.
LEMMA AcquireNowKeepsInv ==
  ASSUME SlotsInv, NEW r \in Requests, Idle(r), AcquireNow(r)
  PROVE  SlotsInv'
  <1> USE DEF SlotsInv, SlotsTypeOK, AcquireNow, Idle
  <1>1. value \in Nat \ {0} /\ waiters = << >> /\ granted = {}
    BY DEF Locked
  <1>2. IsFiniteSet(holders) /\ Cardinality(holders) \in Nat /\ IsFiniteSet(granted)
    BY RequestSetsFinite
  <1>3. Cardinality(holders \cup {r}) = Cardinality(holders) + 1
    BY <1>2, FS_AddElement
  <1>4. SlotConservation'
    <2>1. Cardinality(granted) \in Nat
      BY RequestSetsFinite
    <2>2. QED
      BY <1>1, <1>2, <1>3, <2>1 DEF SlotConservation
  <1>5. SlotsTypeOK'
    BY <1>1 DEF Waiting
  <1>6. NoLostWakeup'
    BY <1>1 DEF NoLostWakeup
  <1>7. QED
    BY <1>4, <1>5, <1>6

\* acquire() that parks a future.
LEMMA AcquireWaitKeepsInv ==
  ASSUME SlotsInv, NEW r \in Requests, Idle(r), AcquireWait(r)
  PROVE  SlotsInv'
  <1> USE DEF SlotsInv, SlotsTypeOK, AcquireWait, Idle
  <1>1. /\ waiters' \in Seq(Requests)
        /\ Len(waiters') = Len(waiters) + 1
        /\ waiters'[Len(waiters')] = r
        /\ \A i \in 1..Len(waiters) : waiters'[i] = waiters[i]
    OBVIOUS
  <1>2. \A i \in 1..Len(waiters) : waiters[i] # r
    BY DEF Waiting
  <1>3. SlotsTypeOK'
    <2>1. \A i, j \in 1..Len(waiters') : waiters'[i] = waiters'[j] => i = j
      BY <1>1, <1>2
    <2>2. Waiting' = Waiting \cup {r}
      BY <1>1 DEF Waiting
    <2>3. QED
      BY <1>1, <2>1, <2>2
  <1>4. SlotConservation'
    BY DEF SlotConservation
  <1>5. NoLostWakeup'
    BY DEF NoLostWakeup, Locked
  <1>6. QED
    BY <1>3, <1>4, <1>5

\* The coroutine of a completed future resumes.
LEMMA AcquireResumesKeepsInv ==
  ASSUME SlotsInv, NEW r \in Requests, AcquireResumes(r)
  PROVE  SlotsInv'
  <1> USE DEF SlotsInv, SlotsTypeOK, AcquireResumes
  <1> DEFINE g == granted \ {r}
             h == holders \cup {r}
  <1>1. /\ IsFiniteSet(granted) /\ IsFiniteSet(holders)
        /\ Cardinality(granted) \in Nat /\ Cardinality(holders) \in Nat
    BY RequestSetsFinite
  <1>2. Cardinality(g) = Cardinality(granted) - 1
    BY <1>1, FS_RemoveElement
  <1>3. Cardinality(h) = Cardinality(holders) + 1
    BY <1>1, FS_AddElement
  <1>4. value + Cardinality(g) + Cardinality(h) = Slots
    BY <1>1, <1>2, <1>3 DEF SlotConservation
  <1>5. \A i \in 1..Len(waiters) : waiters[i] \notin g \cup h
    BY DEF Waiting
  <1>6. g \in SUBSET Requests /\ h \in SUBSET Requests /\ g \cap h = {}
    OBVIOUS
  <1>7. Wake(value, waiters, g) /\ holders' = h
    OBVIOUS
  <1> HIDE DEF g, h
  <1>8. QED
    BY <1>4, <1>5, <1>6, <1>7, WakeKeepsInv

\* A queue from which one place is taken out.
LEMMA WithoutProperties ==
  ASSUME NEW w \in Seq(Requests), NEW n \in 1..Len(w),
         \A i, j \in 1..Len(w) : w[i] = w[j] => i = j
  PROVE  /\ Without(w, n) \in Seq(Requests)
         /\ Len(Without(w, n)) = Len(w) - 1
         /\ \A i \in 1..Len(Without(w, n)) :
              Without(w, n)[i] = IF i < n THEN w[i] ELSE w[i + 1]
         /\ \A i, j \in 1..Len(Without(w, n)) :
              Without(w, n)[i] = Without(w, n)[j] => i = j
  <1> DEFINE a == SubSeq(w, 1, n - 1)
             b == SubSeq(w, n + 1, Len(w))
  <1>1. Len(w) \in Nat /\ n \in Nat /\ n >= 1 /\ n <= Len(w)
    OBVIOUS
  <1>2. a \in Seq(Requests) /\ Len(a) = n - 1 /\ \A i \in 1..(n - 1) : a[i] = w[i]
    <2>1. \A i \in 1..(n - 1) : w[i] \in Requests
      BY <1>1
    <2>2. /\ Len(a) = IF 1 <= n - 1 THEN (n - 1) - 1 + 1 ELSE 0
          /\ a \in Seq(Requests)
          /\ \A i \in 1..((n - 1) - 1 + 1) : a[i] = w[1 + i - 1]
      BY <1>1, <2>1, SubSeqProperties
    <2>3. QED
      BY <1>1, <2>2
  <1>3. b \in Seq(Requests) /\ Len(b) = Len(w) - n /\ \A i \in 1..(Len(w) - n) : b[i] = w[n + i]
    <2>1. \A i \in (n + 1)..Len(w) : w[i] \in Requests
      BY <1>1
    <2>2. /\ Len(b) = IF n + 1 <= Len(w) THEN Len(w) - (n + 1) + 1 ELSE 0
          /\ b \in Seq(Requests)
          /\ \A i \in 1..(Len(w) - (n + 1) + 1) : b[i] = w[(n + 1) + i - 1]
      BY <1>1, <2>1, SubSeqProperties
    <2>3. QED
      BY <1>1, <2>2
  <1> HIDE DEF a, b
  <1>4. /\ a \o b \in Seq(Requests)
        /\ Len(a \o b) = Len(a) + Len(b)
        /\ \A i \in 1..(Len(a) + Len(b)) :
             (a \o b)[i] = IF i <= Len(a) THEN a[i] ELSE b[i - Len(a)]
    <2>1. a \in Seq(Requests) /\ b \in Seq(Requests)
      BY <1>2, <1>3
    <2>2. QED
      BY <2>1
  <1>5. Without(w, n) = a \o b
    BY DEF Without, a, b
  <1>6. Len(Without(w, n)) = Len(w) - 1
    BY <1>1, <1>2, <1>3, <1>4, <1>5
  <1>7. ASSUME NEW i \in 1..Len(Without(w, n))
        PROVE  Without(w, n)[i] = IF i < n THEN w[i] ELSE w[i + 1]
    <2>1. i \in Nat /\ i >= 1 /\ i <= Len(w) - 1 /\ i \in 1..(Len(a) + Len(b))
      BY <1>1, <1>2, <1>3, <1>6
    <2>2. (a \o b)[i] = IF i <= Len(a) THEN a[i] ELSE b[i - Len(a)]
      BY <1>4, <2>1
    <2>3. CASE i < n
      <3>1. i <= Len(a) /\ a[i] = w[i]
        BY <1>1, <1>2, <2>1, <2>3
      <3>2. QED
        BY <1>5, <2>2, <2>3, <3>1
    <2>4. CASE ~(i < n)
      <3>1. ~(i <= Len(a)) /\ i - Len(a) \in 1..(Len(w) - n) /\ n + (i - Len(a)) = i + 1
        BY <1>1, <1>2, <2>1, <2>4
      <3>2. b[i - Len(a)] = w[i + 1]
        BY <1>3, <3>1
      <3>3. QED
        BY <1>5, <2>2, <2>4, <3>1, <3>2
    <2>5. QED
      BY <2>3, <2>4
  <1>8. \A i, j \in 1..Len(Without(w, n)) :
          Without(w, n)[i] = Without(w, n)[j] => i = j
    <2>1. TAKE i, j \in 1..Len(Without(w, n))
    <2>2. DEFINE at(m) == IF m < n THEN m ELSE m + 1
    <2>3. at(i) \in 1..Len(w) /\ at(j) \in 1..Len(w) /\ (at(i) = at(j) => i = j)
      BY <1>1, <1>6
    <2>4. Without(w, n)[i] = w[at(i)] /\ Without(w, n)[j] = w[at(j)]
      BY <1>7
    <2>5. QED
      BY <2>3, <2>4
  <1>9. QED
    BY <1>4, <1>5, <1>6, <1>7, <1>8

\* SlotQueueTimeout, before or after the future was completed.
LEMMA AcquireTimesOutKeepsInv ==
  ASSUME SlotsInv, NEW r \in Requests, AcquireTimesOut(r)
  PROVE  SlotsInv'
  <1> USE DEF SlotsInv, SlotsTypeOK
  <1>1. holders' = holders
    BY DEF AcquireTimesOut
  <1>2. /\ IsFiniteSet(granted)
        /\ Cardinality(granted) \in Nat /\ Cardinality(holders) \in Nat
    BY RequestSetsFinite
  <1>3. ASSUME NEW n \in 1..Len(waiters), Wake(value, Without(waiters, n), granted)
        PROVE  SlotsInv'
    <2> DEFINE w == Without(waiters, n)
    <2>1. /\ w \in Seq(Requests)
          /\ \A i, j \in 1..Len(w) : w[i] = w[j] => i = j
          /\ \A i \in 1..Len(w) : w[i] = IF i < n THEN waiters[i] ELSE waiters[i + 1]
          /\ Len(w) = Len(waiters) - 1
      BY WithoutProperties
    <2>2. \A i \in 1..Len(w) : w[i] \in Waiting
      <3>1. TAKE i \in 1..Len(w)
      <3>2. i \in 1..Len(waiters) /\ i + 1 \in 1..Len(waiters)
        BY <2>1
      <3>3. QED
        BY <2>1, <3>2 DEF Waiting
    <2>3. \A i \in 1..Len(w) : w[i] \notin granted \cup holders
      BY <2>2
    <2>4. Wake(value, w, granted)
      BY <1>3
    <2> HIDE DEF w
    <2>5. QED
      BY <1>1, <2>1, <2>3, <2>4, WakeKeepsInv DEF SlotConservation
  <1>4. ASSUME r \in granted, Wake(value + 1, waiters, granted \ {r})
        PROVE  SlotsInv'
    <2> DEFINE g == granted \ {r}
               v == value + 1
    <2>1. Cardinality(g) = Cardinality(granted) - 1
      BY <1>2, <1>4, FS_RemoveElement
    <2>2. v \in Nat /\ v + Cardinality(g) + Cardinality(holders) = Slots
      BY <1>2, <2>1 DEF SlotConservation
    <2>3. \A i \in 1..Len(waiters) : waiters[i] \notin g \cup holders
      BY DEF Waiting
    <2>4. g \in SUBSET Requests /\ g \cap holders = {} /\ Wake(v, waiters, g)
      BY <1>4
    <2> HIDE DEF g, v
    <2>5. QED
      BY <1>1, <2>2, <2>3, <2>4, WakeKeepsInv
  <1>5. QED
    BY <1>3, <1>4 DEF AcquireTimesOut

\* release() by a request that holds a slot.
LEMMA ReleaseKeepsInv ==
  ASSUME SlotsInv, NEW r \in holders, Release(r)
  PROVE  SlotsInv'
  <1> USE DEF SlotsInv, SlotsTypeOK
  <1> DEFINE h == holders \ {r}
             v == value + 1
  <1>1. /\ IsFiniteSet(holders)
        /\ Cardinality(granted) \in Nat /\ Cardinality(holders) \in Nat
    BY RequestSetsFinite
  <1>2. Cardinality(h) = Cardinality(holders) - 1
    BY <1>1, FS_RemoveElement
  <1>3. v \in Nat /\ v + Cardinality(granted) + Cardinality(h) = Slots
    BY <1>1, <1>2 DEF SlotConservation
  <1>4. holders' = h /\ h \in SUBSET Requests /\ granted \cap h = {}
    BY DEF Release
  <1>5. CASE waiters = << >>
    <2>1. value' = v /\ waiters' = << >> /\ granted' = granted
      BY <1>5 DEF Release
    <2>2. QED
      BY <1>3, <1>4, <1>5, <2>1 DEF SlotConservation, NoLostWakeup, Waiting
  <1>6. CASE waiters # << >>
    <2>1. /\ value' = value /\ waiters' = Tail(waiters)
          /\ granted' = granted \cup {waiters[1]}
      BY <1>6 DEF Release
    <2>2. /\ Len(waiters) \in Nat \ {0} /\ waiters[1] \in Waiting
          /\ Len(waiters') = Len(waiters) - 1 /\ waiters' \in Seq(Requests)
          /\ \A i \in 1..Len(waiters') : waiters'[i] = waiters[i + 1]
      BY <1>6, <2>1 DEF Waiting
    <2>3. Cardinality(granted') = Cardinality(granted) + 1
      BY <2>1, <2>2, RequestSetsFinite, FS_AddElement
    <2>4. SlotConservation'
      BY <1>1, <1>2, <1>4, <2>1, <2>3 DEF SlotConservation
    <2>5. SlotsTypeOK'
      <3>1. ASSUME NEW i \in 1..Len(waiters')
            PROVE  waiters'[i] \in Waiting /\ waiters'[i] # waiters[1]
        <4>1. /\ i + 1 \in 1..Len(waiters) /\ 1 \in 1..Len(waiters) /\ i + 1 # 1
              /\ waiters'[i] = waiters[i + 1]
          BY <2>2
        <4>2. QED
          BY <4>1 DEF Waiting
      <3>2. Waiting' \cap (granted' \cup holders') = {}
        BY <3>1, <2>1, <1>4 DEF Waiting
      <3>3. \A i, j \in 1..Len(waiters') : waiters'[i] = waiters'[j] => i = j
        BY <2>2
      <3>4. granted' \subseteq Requests /\ granted' \cap holders' = {}
        BY <1>4, <2>1, <2>2
      <3>5. QED
        BY <1>4, <2>1, <2>2, <3>2, <3>3, <3>4
    <2>6. NoLostWakeup'
      BY <2>1 DEF NoLostWakeup
    <2>7. QED
      BY <2>4, <2>5, <2>6
  <1>7. QED
    BY <1>5, <1>6

------------------------------------------------------------------------------
\* Every operation of the pool keeps the invariant.
LEMMA SlotsStep == SlotsInv /\ [SlotsNext]_slotVars => SlotsInv'
  <1> SUFFICES ASSUME SlotsInv, [SlotsNext]_slotVars PROVE SlotsInv'
    OBVIOUS
  <1>1. ASSUME NEW r \in Requests, Idle(r), AcquireNow(r) \/ AcquireWait(r)
        PROVE  SlotsInv'
    BY <1>1, AcquireNowKeepsInv, AcquireWaitKeepsInv
  <1>2. ASSUME NEW r \in Requests, AcquireResumes(r)
        PROVE  SlotsInv'
    BY <1>2, AcquireResumesKeepsInv
  <1>3. ASSUME NEW r \in Requests, AcquireTimesOut(r)
        PROVE  SlotsInv'
    BY <1>3, AcquireTimesOutKeepsInv
  <1>4. ASSUME NEW r \in holders, Release(r)
        PROVE  SlotsInv'
    BY <1>4, ReleaseKeepsInv
  <1>5. CASE UNCHANGED slotVars
    BY <1>5 DEF slotVars, SlotsInv, SlotsTypeOK, SlotConservation, NoLostWakeup, Waiting
  <1>6. QED
    BY <1>1, <1>2, <1>3, <1>4, <1>5 DEF SlotsNext

\* The pool starts with all its units on the counter.
LEMMA SlotsStart == SlotsInit => SlotsInv
  BY SlotsAssumption, FS_EmptySet
  DEF SlotsInit, SlotsInv, SlotsTypeOK, SlotConservation, NoLostWakeup, Waiting

\* UpstreamSlots neither loses nor invents a slot, whatever is cancelled, and
\* for any number of slots and requests.
THEOREM SlotConservationHolds == SlotsSpec => []SlotConservation
  BY SlotsStart, SlotsStep, PTL DEF SlotsSpec, SlotsInv

\* No wake-up is lost: a free unit beside a waiting queue means that a woken
\* coroutine is about to run.
THEOREM NoLostWakeupHolds == SlotsSpec => []NoLostWakeup
  BY SlotsStart, SlotsStep, PTL DEF SlotsSpec, SlotsInv

\* The queue holds distinct requests that own no unit.
THEOREM SlotsTypeHolds == SlotsSpec => []SlotsTypeOK
  BY SlotsStart, SlotsStep, PTL DEF SlotsSpec, SlotsInv

------------------------------------------------------------------------------
(* First come, first served *)

\* The action of FirstComeFirstServed.
InOrder ==
  \A i \in 1..Len(waiters) :
    waiters[i] \in { waiters'[k] : k \in 1..Len(waiters') } =>
      (granted' \cup holders') \ (granted \cup holders)
         \subseteq { waiters[j] : j \in 1..(i - 1) }

\* Waking leaves the rest of the queue, behind the prefix that it completes.
LEMMA WakeLeavesSuffix ==
  ASSUME NEW v \in Nat, NEW w \in Seq(Requests), NEW g, Wake(v, w, g)
  PROVE  \E k \in 0..Len(w) :
           /\ granted' = g \cup { w[i] : i \in 1..k }
           /\ Len(waiters') = Len(w) - k
           /\ \A n \in 1..Len(waiters') : k + n \in 1..Len(w) /\ waiters'[n] = w[k + n]
  <1> DEFINE k == IF v < Len(w) THEN v ELSE Len(w)
  <1>1. k \in Nat /\ k <= Len(w) /\ Len(w) \in Nat
    OBVIOUS
  <1>2. waiters' = SubSeq(w, k + 1, Len(w)) /\ granted' = g \cup { w[i] : i \in 1..k }
    BY DEF Wake
  <1> HIDE DEF k
  <1>3. /\ Len(SubSeq(w, k + 1, Len(w))) =
              IF k + 1 <= Len(w) THEN Len(w) - (k + 1) + 1 ELSE 0
        /\ \A i \in 1..(Len(w) - (k + 1) + 1) :
              SubSeq(w, k + 1, Len(w))[i] = w[(k + 1) + i - 1]
    <2>1. \A i \in (k + 1)..Len(w) : w[i] \in Requests
      BY <1>1
    <2> QED BY <1>1, <2>1, SubSeqProperties
  <1>4. Len(waiters') = Len(w) - k
    BY <1>1, <1>2, <1>3
  <1>5. ASSUME NEW n \in 1..Len(waiters') PROVE k + n \in 1..Len(w) /\ waiters'[n] = w[k + n]
    <2>1. /\ n \in 1..(Len(w) - (k + 1) + 1) /\ (k + 1) + n - 1 = k + n
          /\ k + n \in 1..Len(w)
      BY <1>1, <1>4
    <2> QED BY <1>2, <1>3, <2>1
  <1>6. k \in 0..Len(w)
    BY <1>1
  <1> QED BY <1>2, <1>4, <1>5, <1>6

\* Whoever still waits after a wake-up stood behind all those it completed.
LEMMA WakeServesInOrder ==
  ASSUME NEW v \in Nat, NEW w \in Seq(Requests), NEW g,
         \A i, j \in 1..Len(w) : w[i] = w[j] => i = j,
         Wake(v, w, g),
         NEW m \in 1..Len(w), w[m] \in { waiters'[k] : k \in 1..Len(waiters') }
  PROVE  granted' \ g \subseteq { w[j] : j \in 1..(m - 1) }
  <1>1. PICK k \in 0..Len(w) :
           /\ granted' = g \cup { w[i] : i \in 1..k }
           /\ \A n \in 1..Len(waiters') : k + n \in 1..Len(w) /\ waiters'[n] = w[k + n]
    BY WakeLeavesSuffix
  <1>2. PICK n \in 1..Len(waiters') : waiters'[n] = w[m]
    OBVIOUS
  <1>3. m = k + n
    BY <1>1, <1>2
  <1>4. Len(w) \in Nat /\ n \in Int /\ n >= 1
    OBVIOUS
  <1>5. 1..k \subseteq 1..(m - 1)
    BY <1>3, <1>4
  <1> QED BY <1>1, <1>5

\* A coroutine resumes and wakes the next.
LEMMA AcquireResumesInOrder ==
  ASSUME SlotsInv, NEW r \in Requests, AcquireResumes(r)
  PROVE  InOrder
  <1> SUFFICES ASSUME NEW i \in 1..Len(waiters),
                      waiters[i] \in { waiters'[k] : k \in 1..Len(waiters') }
               PROVE  (granted' \cup holders') \ (granted \cup holders)
                         \subseteq { waiters[j] : j \in 1..(i - 1) }
    BY DEF InOrder
  <1>1. /\ value \in Nat /\ waiters \in Seq(Requests)
        /\ \A m, j \in 1..Len(waiters) : waiters[m] = waiters[j] => m = j
    BY DEF SlotsInv, SlotsTypeOK
  <1>2. /\ r \in granted /\ holders' = holders \cup {r}
        /\ Wake(value, waiters, granted \ {r})
    BY DEF AcquireResumes
  <1>3. granted' \ (granted \ {r}) \subseteq { waiters[j] : j \in 1..(i - 1) }
    BY <1>1, <1>2, WakeServesInOrder
  <1> QED BY <1>2, <1>3

\* A waiter that gives up lets those behind it move up, in their order.
LEMMA AcquireTimesOutInOrder ==
  ASSUME SlotsInv, NEW r \in Requests, AcquireTimesOut(r)
  PROVE  InOrder
  <1> SUFFICES ASSUME NEW i \in 1..Len(waiters),
                      waiters[i] \in { waiters'[k] : k \in 1..Len(waiters') }
               PROVE  (granted' \cup holders') \ (granted \cup holders)
                         \subseteq { waiters[j] : j \in 1..(i - 1) }
    BY DEF InOrder
  <1>1. /\ value \in Nat /\ waiters \in Seq(Requests) /\ Len(waiters) \in Nat
        /\ \A m, j \in 1..Len(waiters) : waiters[m] = waiters[j] => m = j
    BY DEF SlotsInv, SlotsTypeOK
  <1>2. holders' = holders
    BY DEF AcquireTimesOut
  <1>3. ASSUME NEW n \in 1..Len(waiters), Wake(value, Without(waiters, n), granted)
        PROVE  granted' \ granted \subseteq { waiters[j] : j \in 1..(i - 1) }
    <2> DEFINE w == Without(waiters, n)
    <2>1. /\ w \in Seq(Requests) /\ Len(w) = Len(waiters) - 1
          /\ \A m \in 1..Len(w) : w[m] = IF m < n THEN waiters[m] ELSE waiters[m + 1]
          /\ \A m, j \in 1..Len(w) : w[m] = w[j] => m = j
      BY <1>1, WithoutProperties
    <2> HIDE DEF w
    <2>2. Wake(value, w, granted)
      BY <1>3 DEF w
    <2>3. waiters[i] \in { w[m] : m \in 1..Len(w) }
      <3>1. PICK k \in 1..Len(waiters') : waiters'[k] = waiters[i]
        OBVIOUS
      <3>2. \E m \in 1..Len(w) : waiters'[k] = w[m]
        BY <1>1, <2>1, <2>2, <3>1, WakeLeavesSuffix
      <3> QED BY <3>1, <3>2
    <2>4. PICK m \in 1..Len(w) : w[m] = waiters[i]
      BY <2>3
    <2>5. granted' \ granted \subseteq { w[j] : j \in 1..(m - 1) }
      BY <1>1, <2>1, <2>2, <2>4, WakeServesInOrder
    <2>6. i = IF m < n THEN m ELSE m + 1
      <3>1. (IF m < n THEN m ELSE m + 1) \in 1..Len(waiters)
        BY <1>1, <2>1
      <3>2. waiters[IF m < n THEN m ELSE m + 1] = waiters[i]
        BY <2>1, <2>4
      <3> QED BY <1>1, <3>1, <3>2
    <2>7. ASSUME NEW j \in 1..(m - 1) PROVE w[j] \in { waiters[l] : l \in 1..(i - 1) }
      <3>1. (IF j < n THEN j ELSE j + 1) \in 1..(i - 1) /\ j \in 1..Len(w)
        BY <1>1, <2>1, <2>6
      <3>2. w[j] = waiters[IF j < n THEN j ELSE j + 1]
        BY <2>1, <3>1
      <3> QED BY <3>1, <3>2
    <2> QED BY <2>5, <2>7
  <1>4. ASSUME r \in granted, Wake(value + 1, waiters, granted \ {r})
        PROVE  granted' \ granted \subseteq { waiters[j] : j \in 1..(i - 1) }
    <2>1. value + 1 \in Nat
      BY <1>1
    <2>2. granted' \ (granted \ {r}) \subseteq { waiters[j] : j \in 1..(i - 1) }
      BY <1>1, <1>4, <2>1, WakeServesInOrder
    <2> QED BY <2>2
  <1>5. granted' \ granted \subseteq { waiters[j] : j \in 1..(i - 1) }
    BY <1>3, <1>4 DEF AcquireTimesOut
  <1> QED BY <1>2, <1>5

\* A slot that is returned is promised to the oldest waiter.
LEMMA ReleaseInOrder ==
  ASSUME SlotsInv, NEW r \in holders, Release(r)
  PROVE  InOrder
  <1> SUFFICES ASSUME NEW i \in 1..Len(waiters),
                      waiters[i] \in { waiters'[k] : k \in 1..Len(waiters') }
               PROVE  (granted' \cup holders') \ (granted \cup holders)
                         \subseteq { waiters[j] : j \in 1..(i - 1) }
    BY DEF InOrder
  <1>1. /\ waiters \in Seq(Requests) /\ Len(waiters) \in Nat
        /\ \A m, j \in 1..Len(waiters) : waiters[m] = waiters[j] => m = j
    BY DEF SlotsInv, SlotsTypeOK
  <1>2. waiters # << >>
    BY <1>1
  <1>3. /\ holders' = holders \ {r} /\ waiters' = Tail(waiters)
        /\ granted' = granted \cup {waiters[1]}
    BY <1>2 DEF Release
  <1>4. i # 1
    <2>1. PICK k \in 1..Len(waiters') : waiters'[k] = waiters[i]
      OBVIOUS
    <2>2. Len(waiters') = Len(waiters) - 1 /\ waiters'[k] = waiters[k + 1]
      BY <1>1, <1>2, <1>3
    <2>3. k + 1 \in 1..Len(waiters) /\ k + 1 # 1
      BY <1>1, <2>2
    <2> QED BY <1>1, <2>1, <2>2, <2>3
  <1>5. 1 \in 1..(i - 1)
    BY <1>1, <1>4
  <1> QED BY <1>3, <1>5

\* No request is promised a slot, or gets one, while another that queued before
\* it keeps waiting: whoever is cancelled, and whichever slots come back.
THEOREM FirstComeFirstServedHolds == SlotsSpec => FirstComeFirstServed
  <1>1. SlotsInv /\ [SlotsNext]_slotVars => [InOrder]_slotVars
    <2> SUFFICES ASSUME SlotsInv, SlotsNext PROVE InOrder
      OBVIOUS
    <2>1. ASSUME NEW r \in Requests, AcquireNow(r) PROVE InOrder
      BY <2>1 DEF AcquireNow, Locked, InOrder
    <2>2. ASSUME NEW r \in Requests, AcquireWait(r) PROVE InOrder
      BY <2>2 DEF AcquireWait, InOrder
    <2> QED BY <2>1, <2>2, AcquireResumesInOrder, AcquireTimesOutInOrder, ReleaseInOrder
            DEF SlotsNext
  <1> QED BY <1>1, SlotsStart, SlotsStep, PTL DEF SlotsSpec, FirstComeFirstServed, InOrder

------------------------------------------------------------------------------
(* The relay *)

USE DEF scanVars

\* The queue as a set: parked, or woken but not yet running.
Queued == Waiting \cup granted

\* A request that has not ended has no log and was not answered 500; one whose
\* generator is in its finally block streams.  What the scanner has seen is sent
\* before it gets another chunk, and the verdict is "none" only after a [DONE]
\* that was sent, or on whose chunk the scanner raised.
LogInv ==
  \A r \in Requests :
    /\ pc[r] # "done" => logs[r] = << >> /\ reply[r] # "500"
    /\ pc[r] \in {"reading", "yielded", "orphaned", "closing"} => r \in streams
    /\ pc[r] \in {"new", "queued", "sending", "errorbody", "reading"} /\ r \in doneSeen
         => r \in doneSent
    /\ pc[r] = "closing" /\ verdict[r] = "none"
         => r \in doneSent \/ (r \in faulted /\ r \in doneSeen)

\* The inductive invariant.
RelayInv ==
  /\ TypeOK
  /\ SlotsInv
  /\ SlotsMatchLocations
  /\ open \subseteq holders
  /\ LogInv
  /\ LoggedOnce
  /\ SuccessIsComplete

------------------------------------------------------------------------------
(* What the operations of the pool do to its sets. *)

\* Waking moves requests from the deque to the completed futures and drops none.
LEMMA WakeSets ==
  ASSUME NEW v \in Nat, NEW w \in Seq(Requests), NEW g, Wake(v, w, g)
  PROVE  /\ Queued' = g \cup { w[i] : i \in 1..Len(w) }
         /\ g \subseteq granted'
  <1>0. PICK k \in 0..Len(w) :
          /\ granted' = g \cup { w[i] : i \in 1..k }
          /\ Len(waiters') = Len(w) - k
          /\ \A i \in 1..(Len(w) - k) : waiters'[i] = w[k + i]
    BY WakeLeavesSuffix
  <1>1. k \in Nat /\ k <= Len(w) /\ Len(w) \in Nat
    OBVIOUS
  <1>2. granted' = g \cup { w[i] : i \in 1..k }
    BY <1>0
  <1>3. /\ Len(waiters') = Len(w) - k
        /\ \A i \in 1..(Len(w) - k) : waiters'[i] = w[k + i]
    BY <1>0
  <1>4. \A i \in 1..Len(w) : w[i] \in Queued'
    <2>1. TAKE i \in 1..Len(w)
    <2>2. CASE i <= k
      BY <1>1, <1>2, <2>2 DEF Queued
    <2>3. CASE ~(i <= k)
      <3>1. i - k \in 1..(Len(w) - k) /\ k + (i - k) = i
        BY <1>1, <2>3
      <3>2. waiters'[i - k] = w[i] /\ i - k \in 1..Len(waiters')
        BY <1>3, <3>1
      <3>3. QED
        BY <3>2 DEF Queued, Waiting
    <2>4. QED
      BY <2>2, <2>3
  <1>5. ASSUME NEW x \in Waiting' PROVE x \in { w[i] : i \in 1..Len(w) }
    <2>1. PICK j \in 1..Len(waiters') : x = waiters'[j]
      BY DEF Waiting
    <2>2. k + j \in 1..Len(w) /\ x = w[k + j]
      BY <1>1, <1>3, <2>1
    <2>3. QED
      BY <2>2
  <1>6. ASSUME NEW x \in granted' PROVE x \in g \cup { w[i] : i \in 1..Len(w) }
    BY <1>1, <1>2
  <1>7. g \subseteq granted'
    BY <1>2
  <1>8. QED
    BY <1>4, <1>5, <1>6, <1>7 DEF Queued

\* acquire() without suspending: one more holder, the queue is as it was.
LEMMA AcquireNowSets ==
  ASSUME SlotsInv, NEW r \in Requests, AcquireNow(r)
  PROVE  Queued' = Queued /\ holders' = holders \cup {r}
  BY DEF AcquireNow, Queued, Waiting

\* acquire() that parks: one more in the queue.
LEMMA AcquireWaitSets ==
  ASSUME SlotsInv, NEW r \in Requests, AcquireWait(r)
  PROVE  Queued' = Queued \cup {r} /\ holders' = holders
  <1>1. /\ waiters' \in Seq(Requests)
        /\ Len(waiters') = Len(waiters) + 1
        /\ waiters'[Len(waiters) + 1] = r
        /\ \A i \in 1..Len(waiters) : waiters'[i] = waiters[i]
        /\ Len(waiters) \in Nat
    BY DEF AcquireWait, SlotsInv, SlotsTypeOK
  <1>2. Waiting' = Waiting \cup {r}
    BY <1>1 DEF Waiting
  <1>3. QED
    BY <1>2 DEF AcquireWait, Queued

\* acquire() returning to a woken request moves it from the queue to the holders.
LEMMA AcquireResumesSets ==
  ASSUME SlotsInv, NEW r \in Requests, AcquireResumes(r)
  PROVE  /\ r \in Queued
         /\ Queued' = Queued \ {r} /\ holders' = holders \cup {r}
  <1>1. Queued' = (granted \ {r}) \cup Waiting
    BY WakeSets DEF AcquireResumes, SlotsInv, SlotsTypeOK, Waiting
  <1>2. r \in granted /\ r \notin Waiting /\ holders' = holders \cup {r}
    BY DEF AcquireResumes, SlotsInv, SlotsTypeOK
  <1>3. QED
    BY <1>1, <1>2 DEF Queued

\* SlotQueueTimeout takes the request off the queue, woken or not.
LEMMA AcquireTimesOutSets ==
  ASSUME SlotsInv, NEW r \in Requests, AcquireTimesOut(r)
  PROVE  /\ r \in Queued
         /\ Queued' = Queued \ {r} /\ holders' = holders
  <1> USE DEF SlotsInv, SlotsTypeOK
  <1>1. ASSUME NEW n \in 1..Len(waiters), waiters[n] = r,
               Wake(value, Without(waiters, n), granted)
        PROVE  r \in Queued /\ Queued' = Queued \ {r}
    <2> DEFINE w == Without(waiters, n)
    <2>1. /\ w \in Seq(Requests) /\ Len(w) = Len(waiters) - 1
          /\ \A i \in 1..Len(w) : w[i] = IF i < n THEN waiters[i] ELSE waiters[i + 1]
      BY WithoutProperties
    <2>2. Queued' = granted \cup { w[i] : i \in 1..Len(w) }
      BY <1>1, <2>1, WakeSets
    <2>3. { w[i] : i \in 1..Len(w) } = Waiting \ {r}
      <3>1. ASSUME NEW i \in 1..Len(w) PROVE w[i] \in Waiting \ {r}
        <4>1. w[i] = waiters[IF i < n THEN i ELSE i + 1]
          BY <2>1
        <4>2. /\ (IF i < n THEN i ELSE i + 1) \in 1..Len(waiters)
              /\ (IF i < n THEN i ELSE i + 1) # n
          BY <2>1
        <4>3. QED
          BY <1>1, <4>1, <4>2 DEF Waiting
      <3>2. ASSUME NEW x \in Waiting \ {r} PROVE x \in { w[i] : i \in 1..Len(w) }
        <4>1. PICK j \in 1..Len(waiters) : x = waiters[j]
          BY DEF Waiting
        <4>2. j # n
          BY <1>1, <4>1
        <4>3. DEFINE i == IF j < n THEN j ELSE j - 1
        <4>4. i \in 1..Len(w) /\ w[i] = waiters[j]
          BY <2>1, <4>2
        <4>5. QED
          BY <4>1, <4>4
      <3>3. QED
        BY <3>1, <3>2
    <2>4. r \in Waiting /\ r \notin granted
      BY <1>1 DEF Waiting
    <2>5. QED
      BY <2>2, <2>3, <2>4 DEF Queued
  <1>2. ASSUME r \in granted, Wake(value + 1, waiters, granted \ {r})
        PROVE  r \in Queued /\ Queued' = Queued \ {r}
    <2>1. value + 1 \in Nat /\ waiters \in Seq(Requests)
      OBVIOUS
    <2>2. Queued' = (granted \ {r}) \cup Waiting
      BY <1>2, <2>1, WakeSets DEF Waiting
    <2>3. r \notin Waiting
      BY <1>2
    <2>4. QED
      BY <1>2, <2>2, <2>3 DEF Queued
  <1>3. QED
    BY <1>1, <1>2 DEF AcquireTimesOut

\* release() takes one holder away; a waiter it wakes stays in the queue.
LEMMA ReleaseSets ==
  ASSUME SlotsInv, NEW r \in Requests, Release(r)
  PROVE  Queued' = Queued /\ holders' = holders \ {r}
  <1>1. CASE waiters = << >>
    BY <1>1 DEF Release, Queued, Waiting
  <1>2. CASE waiters # << >>
    <2> USE DEF SlotsInv, SlotsTypeOK
    <2>0. waiters' = Tail(waiters) /\ granted' = granted \cup {waiters[1]}
      BY <1>2 DEF Release
    <2>1. /\ Len(waiters) \in Nat \ {0} /\ Len(waiters') = Len(waiters) - 1
          /\ \A i \in 1..Len(waiters') : waiters'[i] = waiters[i + 1]
      BY <1>2, <2>0
    <2>2. ASSUME NEW x \in Waiting PROVE x \in Queued'
      <3>1. PICK j \in 1..Len(waiters) : x = waiters[j]
        BY DEF Waiting
      <3>2. CASE j = 1
        BY <2>0, <3>1, <3>2 DEF Queued
      <3>3. CASE j # 1
        <4>1. j - 1 \in 1..Len(waiters') /\ waiters'[j - 1] = waiters[j]
          BY <2>1, <3>3
        <4>2. QED
          BY <3>1, <4>1 DEF Queued, Waiting
      <3>4. QED
        BY <3>2, <3>3
    <2>3. Waiting' \subseteq Waiting
      <3>1. ASSUME NEW i \in 1..Len(waiters') PROVE waiters'[i] \in Waiting
        <4>1. i + 1 \in 1..Len(waiters) /\ waiters'[i] = waiters[i + 1]
          BY <2>1
        <4>2. QED
          BY <4>1 DEF Waiting
      <3>2. QED
        BY <3>1 DEF Waiting
    <2>4. waiters[1] \in Waiting
      BY <2>1 DEF Waiting
    <2>5. QED
      BY <2>0, <2>2, <2>3, <2>4 DEF Queued, Release
  <1>3. QED
    BY <1>1, <1>2

\* A step that leaves the pool alone.
LEMMA SlotsUntouched ==
  ASSUME UNCHANGED slotVars
  PROVE  Queued' = Queued /\ holders' = holders
  BY DEF slotVars, Queued, Waiting

------------------------------------------------------------------------------
(* What the helpers of forward_chat do, in the terms of the invariant. *)

\* release_slot() by the request of a holder location is Release.
LEMMA ReleaseSlotSets ==
  ASSUME RelayInv, NEW r \in Requests, pc[r] \in HolderLocations, ReleaseSlot(r)
  PROVE  /\ r \in holders /\ Release(r)
         /\ Queued' = Queued /\ holders' = holders \ {r}
  <1>1. r \in holders
    BY DEF RelayInv, SlotsMatchLocations
  <1>2. Release(r)
    BY <1>1 DEF ReleaseSlot
  <1>3. QED
    BY <1>1, <1>2, ReleaseSets DEF RelayInv

\* finish() of a request that has not ended writes its first log.
LEMMA FinishWritesFirstLog ==
  ASSUME RelayInv, NEW r \in Requests, NEW e \in ErrorTypes, pc[r] # "done", Finish(r, e)
  PROVE  logs' = [logs EXCEPT ![r] = <<e>>]
  <1>1. logs[r] = << >>
    BY DEF RelayInv, LogInv
  <1>2. Append(<< >>, e) = <<e>>
    OBVIOUS
  <1>3. QED
    BY <1>1, <1>2 DEF Finish

------------------------------------------------------------------------------
(* Each step of forward_chat is a step of the pool. *)

\* The whole of Next, seen from the pool.
LEMMA SlotStepOfRelay == RelayInv /\ [Next]_vars => [SlotsNext]_slotVars
  <1> SUFFICES ASSUME RelayInv, [Next]_vars PROVE [SlotsNext]_slotVars
    OBVIOUS
  <1>1. ASSUME NEW r \in Requests, NEW s \in BOOLEAN, Enter(r, s)
        PROVE  SlotsNext
    <2>1. Idle(r)
      BY <1>1 DEF Enter, Idle, RelayInv, SlotsMatchLocations, HolderLocations
    <2>2. QED
      BY <1>1, <2>1 DEF Enter, SlotsNext
  <1>2. ASSUME NEW r \in Requests, StartSending(r)
        PROVE  SlotsNext
    BY <1>2 DEF StartSending, SlotsNext
  <1>3. ASSUME NEW r \in Requests, StartTooLate(r) \/ QueueTimesOut(r)
        PROVE  SlotsNext
    BY <1>3 DEF StartTooLate, QueueTimesOut, AcquireTimesOut, SlotsNext
  <1>4. ASSUME NEW r \in Requests, pc[r] \in HolderLocations, ReleaseSlot(r)
        PROVE  SlotsNext
    BY <1>4, ReleaseSlotSets DEF SlotsNext
  <1>5. ASSUME NEW r \in Requests, Arrive(r)
        PROVE  [SlotsNext]_slotVars
    BY <1>1, <1>5 DEF Arrive, Refuse
  <1>6. ASSUME NEW r \in Requests, Gateway(r)
        PROVE  [SlotsNext]_slotVars
    BY <1>2, <1>3, <1>4, <1>6
    DEF Gateway, SendTimesOut, DeadlineReading, DisconnectReading, SendCancelled, Finalise,
        CloseUpstream, LeaveLoop, EnterFinally, Settle, HolderLocations
  <1>7. ASSUME NEW r \in Requests, Upstream(r)
        PROVE  [SlotsNext]_slotVars
    BY <1>4, <1>7
    DEF Upstream, SendFails, RelayBody, RelayBodyRaises, ErrorHead, RelayErrorBody,
        ErrorBodyBreaks, StreamHead, Chunk, UpstreamEnds, UpstreamBreaks, ScannerRaises,
        LeaveLoop, EnterFinally, Settle, HolderLocations
  <1>8. ASSUME NEW r \in Requests, Client(r)
        PROVE  UNCHANGED slotVars
    BY <1>8 DEF Client, ChunkSent, Disconnect
  <1>9. CASE Tick \/ UNCHANGED vars
    BY <1>9 DEF Tick, vars
  <1>10. QED
    BY <1>5, <1>6, <1>7, <1>8, <1>9 DEF Next, Quiescent

------------------------------------------------------------------------------
(* The invariant, one lemma per kind of step. *)

\* The parts of RelayInv that are not the pool's own.
RequestInv == TypeOK /\ SlotsMatchLocations /\ open \subseteq holders
              /\ LogInv /\ LoggedOnce /\ SuccessIsComplete

\* The limits refuse a request: nothing is taken, one log is written.
LEMMA RefuseKeepsInv ==
  ASSUME RelayInv, SlotsInv', NEW r \in Requests,
         NEW e \in {"rate_limited", "quota_exceeded"}, Refuse(r, e)
  PROVE  RequestInv'
  <1> USE DEF Refuse, Answer, Goto
  <1>1. /\ Queued' = Queued /\ holders' = holders
        /\ logs' = [logs EXCEPT ![r] = <<e>>]
    BY SlotsUntouched, FinishWritesFirstLog DEF ErrorTypes
  <1>2. TypeOK'
    BY <1>1 DEF RelayInv, TypeOK, SlotsInv, ErrorTypes, Locations, Replies
  <1>3. SlotsMatchLocations' /\ (open \subseteq holders)'
    BY <1>1 DEF RelayInv, TypeOK, SlotsMatchLocations, HolderLocations, Queued
  <1>4. LogInv' /\ LoggedOnce' /\ SuccessIsComplete'
    BY <1>1 DEF RelayInv, TypeOK, LogInv, LoggedOnce, SuccessIsComplete
  <1>5. QED
    BY <1>2, <1>3, <1>4 DEF RequestInv

\* A request enters: a slot at once, or a place in the queue.
LEMMA EnterKeepsInv ==
  ASSUME RelayInv, SlotsInv', NEW r \in Requests, NEW s \in BOOLEAN, Enter(r, s)
  PROVE  RequestInv'
  <1>0. /\ pc[r] = "new" /\ streams' = IF s THEN streams \cup {r} ELSE streams
        /\ UNCHANGED <<age, gone, scanVars, verdict, logs, reply>>
    BY DEF Enter
  <1>1. \/ /\ Queued' = Queued /\ holders' = holders \cup {r}
           /\ open' = open \cup {r} /\ pc' = [pc EXCEPT ![r] = "sending"]
        \/ /\ Queued' = Queued \cup {r} /\ holders' = holders
           /\ open' = open /\ pc' = [pc EXCEPT ![r] = "queued"]
    BY AcquireNowSets, AcquireWaitSets DEF RelayInv, Enter, Goto
  <1>2. TypeOK'
    BY <1>0, <1>1 DEF RelayInv, TypeOK, SlotsInv, Locations
  <1>3. SlotsMatchLocations' /\ (open \subseteq holders)'
    BY <1>0, <1>1 DEF RelayInv, TypeOK, SlotsMatchLocations, HolderLocations, Queued
  <1>4. LogInv' /\ LoggedOnce' /\ SuccessIsComplete'
    <2>1. logs[r] = << >> /\ << >> # <<"none">>
      BY <1>0 DEF RelayInv, LogInv
    <2>2. LogInv' /\ LoggedOnce'
      BY <1>0, <1>1 DEF RelayInv, TypeOK, LogInv, LoggedOnce
    <2>3. SuccessIsComplete'
      BY <1>0, <2>1 DEF RelayInv, SuccessIsComplete
    <2>4. QED
      BY <2>2, <2>3
  <1>5. QED
    BY <1>2, <1>3, <1>4 DEF RequestInv

\* acquire() returns in time: the upstream exchange is opened with the slot.
LEMMA StartSendingKeepsInv ==
  ASSUME RelayInv, SlotsInv', NEW r \in Requests, StartSending(r)
  PROVE  RequestInv'
  <1> USE DEF StartSending, Goto
  <1>1. Queued' = Queued \ {r} /\ holders' = holders \cup {r}
    BY AcquireResumesSets DEF RelayInv
  <1>2. TypeOK'
    BY <1>1 DEF RelayInv, TypeOK, SlotsInv, Locations
  <1>3. SlotsMatchLocations' /\ (open \subseteq holders)'
    BY <1>1 DEF RelayInv, TypeOK, SlotsMatchLocations, HolderLocations, Queued
  <1>4. LogInv' /\ LoggedOnce' /\ SuccessIsComplete'
    BY <1>1 DEF RelayInv, TypeOK, LogInv, LoggedOnce, SuccessIsComplete
  <1>5. QED
    BY <1>2, <1>3, <1>4 DEF RequestInv

\* The two ways a queued request ends without a slot.
LEMMA TurnedAwayKeepsInv ==
  ASSUME RelayInv, SlotsInv', NEW r \in Requests, StartTooLate(r) \/ QueueTimesOut(r)
  PROVE  RequestInv'
  <1>1. PICK e \in {"timeout", "server_busy"}, a \in {"503", "504"} :
          /\ pc[r] = "queued" /\ pc' = [pc EXCEPT ![r] = "done"]
          /\ Finish(r, e) /\ reply' = [reply EXCEPT ![r] = a]
          /\ AcquireTimesOut(r)
          /\ UNCHANGED <<age, streams, open, gone, scanVars, verdict>>
    BY DEF StartTooLate, QueueTimesOut, AcquireTimesOut, Goto, Answer
  <1>2. /\ Queued' = Queued \ {r} /\ holders' = holders
        /\ logs' = [logs EXCEPT ![r] = <<e>>]
    BY <1>1, AcquireTimesOutSets, FinishWritesFirstLog DEF RelayInv, ErrorTypes
  <1>3. TypeOK'
    BY <1>1, <1>2 DEF RelayInv, TypeOK, SlotsInv, Locations, ErrorTypes, Replies
  <1>4. SlotsMatchLocations' /\ (open \subseteq holders)'
    BY <1>1, <1>2 DEF RelayInv, TypeOK, SlotsMatchLocations, HolderLocations, Queued
  <1>5. LogInv' /\ LoggedOnce' /\ SuccessIsComplete'
    BY <1>1, <1>2 DEF RelayInv, TypeOK, LogInv, LoggedOnce, SuccessIsComplete
  <1>6. QED
    BY <1>3, <1>4, <1>5 DEF RequestInv

\* An exit of forward_chat that has a slot to return and a log to write.  A log
\* without an error is that of a relayed answer.
LEMMA SettleWithLogKeepsInv ==
  ASSUME RelayInv, SlotsInv', NEW r \in Requests,
         NEW e \in ErrorTypes, NEW a \in {"502", "504", "relayed"},
         pc[r] \in {"sending", "errorbody"}, Finish(r, e), Settle(r, a),
         e = "none" => a = "relayed" /\ r \notin streams,
         UNCHANGED <<age, streams, gone, scanVars, verdict>>
  PROVE  RequestInv'
  <1> USE DEF Settle, Goto, Answer
  <1>1. /\ Queued' = Queued /\ holders' = holders \ {r}
        /\ logs' = [logs EXCEPT ![r] = <<e>>]
    BY ReleaseSlotSets, FinishWritesFirstLog DEF HolderLocations
  <1>2. TypeOK'
    BY <1>1 DEF RelayInv, TypeOK, SlotsInv, Locations, Replies
  <1>3. SlotsMatchLocations' /\ (open \subseteq holders)'
    BY <1>1 DEF RelayInv, TypeOK, SlotsMatchLocations, HolderLocations, Queued
  <1>4. LogInv' /\ LoggedOnce' /\ SuccessIsComplete'
    BY <1>1 DEF RelayInv, TypeOK, LogInv, LoggedOnce, SuccessIsComplete
  <1>5. QED
    BY <1>2, <1>3, <1>4 DEF RequestInv

\* The safety net: the slot goes back, nothing is logged.
LEMMA SafetyNetKeepsInv ==
  ASSUME RelayInv, SlotsInv', NEW r \in Requests,
         pc[r] \in {"sending", "errorbody"}, Settle(r, "500"),
         UNCHANGED <<age, streams, gone, scanVars, verdict, logs>>
  PROVE  RequestInv'
  <1> USE DEF Settle, Goto, Answer
  <1>1. Queued' = Queued /\ holders' = holders \ {r}
    BY ReleaseSlotSets DEF HolderLocations
  <1>2. TypeOK'
    BY <1>1 DEF RelayInv, TypeOK, SlotsInv, Locations, Replies
  <1>3. SlotsMatchLocations' /\ (open \subseteq holders)'
    BY <1>1 DEF RelayInv, TypeOK, SlotsMatchLocations, HolderLocations, Queued
  <1>4. LogInv' /\ LoggedOnce' /\ SuccessIsComplete'
    <2>1. logs[r] = << >> /\ << >> # <<"none">> /\ Len(<< >>) = 0
      BY DEF RelayInv, LogInv
    <2>2. LogInv' /\ LoggedOnce'
      BY <2>1 DEF RelayInv, TypeOK, LogInv, LoggedOnce
    <2>3. SuccessIsComplete'
      BY <2>1 DEF RelayInv, TypeOK, SuccessIsComplete
    <2>4. QED
      BY <2>2, <2>3
  <1>5. QED
    BY <1>2, <1>3, <1>4 DEF RequestInv

\* A live request moves on without its slot or its log being touched: the
\* heads of the upstream's answer, the chunks, the abandoned generator.
LEMMA StreamStepKeepsInv ==
  ASSUME RelayInv, SlotsInv', NEW r \in streams,
         NEW l \in {"errorbody", "reading", "yielded", "orphaned"},
         NEW a \in Replies \ {"500"},
         pc[r] \in {"sending", "reading", "yielded"}, Goto(r, l), Answer(r, a),
         doneSeen' \in {doneSeen, doneSeen \cup {r}},
         doneSent' \in {doneSent, doneSent \cup {r}},
         l \in {"errorbody", "reading"} /\ r \in doneSeen' => r \in doneSent',
         UNCHANGED <<slotVars, age, streams, open, gone, faulted, verdict, logs>>
  PROVE  RequestInv'
  <1> USE DEF Goto, Answer
  <1>1. Queued' = Queued /\ holders' = holders /\ r \in Requests
    BY SlotsUntouched DEF RelayInv, TypeOK
  <1>2. TypeOK'
    BY <1>1 DEF RelayInv, TypeOK, SlotsInv, Locations
  <1>3. SlotsMatchLocations' /\ (open \subseteq holders)'
    BY <1>1 DEF RelayInv, TypeOK, SlotsMatchLocations, HolderLocations, Queued
  <1>4. LogInv'
    BY <1>1 DEF RelayInv, TypeOK, LogInv
  <1>5. LoggedOnce' /\ SuccessIsComplete'
    <2>1. logs[r] = << >> /\ << >> # <<"none">> /\ Len(<< >>) = 0
      BY <1>1 DEF RelayInv, LogInv
    <2>2. LoggedOnce'
      BY <1>1, <2>1 DEF RelayInv, TypeOK, LoggedOnce
    <2>3. SuccessIsComplete'
      BY <1>1, <2>1 DEF RelayInv, TypeOK, SuccessIsComplete
    <2>4. QED
      BY <2>2, <2>3
  <1>6. QED
    BY <1>2, <1>3, <1>4, <1>5 DEF RequestInv

\* The generator enters its finally block, for whatever reason.
LEMMA EnterFinallyKeepsInv ==
  ASSUME RelayInv, SlotsInv', NEW r \in Requests,
         NEW e \in ErrorTypes, NEW a \in {"ended", "aborted"}, NEW seen,
         pc[r] \in {"reading", "yielded", "orphaned"}, EnterFinally(r, e, a, seen),
         e = "none" => pc[r] = "reading",
         \/ seen = doneSeen /\ faulted' = faulted
         \/ seen \in {doneSeen, doneSeen \cup {r}} /\ faulted' = faulted \cup {r}
  PROVE  RequestInv'
  <1> USE DEF EnterFinally, Goto, Answer
  <1>1. Queued' = Queued /\ holders' = holders
    BY SlotsUntouched
  <1>2. TypeOK'
    BY <1>1 DEF RelayInv, TypeOK, SlotsInv, Locations, Replies, ErrorTypes
  <1>3. SlotsMatchLocations' /\ (open \subseteq holders)'
    BY <1>1 DEF RelayInv, TypeOK, SlotsMatchLocations, HolderLocations, Queued
  <1>4. LogInv'
    BY <1>1 DEF RelayInv, TypeOK, LogInv
  <1>5. LoggedOnce' /\ SuccessIsComplete'
    <2>1. logs[r] = << >> /\ << >> # <<"none">> /\ Len(<< >>) = 0
      BY <1>1 DEF RelayInv, LogInv
    <2>2. LoggedOnce'
      BY <1>1, <2>1 DEF RelayInv, TypeOK, LoggedOnce
    <2>3. SuccessIsComplete'
      BY <1>1, <2>1 DEF RelayInv, TypeOK, SuccessIsComplete
    <2>4. QED
      BY <2>2, <2>3
  <1>6. QED
    BY <1>2, <1>3, <1>4, <1>5 DEF RequestInv

\* The finally block ends: a log without an error is that of a stream that got
\* to its [DONE], or whose scanner raised behind it.
LEMMA CloseUpstreamKeepsInv ==
  ASSUME RelayInv, SlotsInv', NEW r \in Requests, CloseUpstream(r)
  PROVE  RequestInv'
  <1> USE DEF CloseUpstream, Goto
  <1>1. /\ Queued' = Queued /\ holders' = holders \ {r}
        /\ logs' = [logs EXCEPT ![r] = <<verdict[r]>>]
        /\ verdict[r] \in ErrorTypes
    BY ReleaseSlotSets, FinishWritesFirstLog DEF HolderLocations, RelayInv, TypeOK
  <1>2. TypeOK'
    BY <1>1 DEF RelayInv, TypeOK, SlotsInv, Locations
  <1>3. SlotsMatchLocations' /\ (open \subseteq holders)'
    BY <1>1 DEF RelayInv, TypeOK, SlotsMatchLocations, HolderLocations, Queued
  <1>4. LogInv' /\ LoggedOnce' /\ SuccessIsComplete'
    BY <1>1 DEF RelayInv, TypeOK, LogInv, LoggedOnce, SuccessIsComplete
  <1>5. QED
    BY <1>2, <1>3, <1>4 DEF RequestInv

\* Departures and time: pc, the pool, logs and replies are as they were.
LEMMA EnvironmentKeepsInv ==
  ASSUME RelayInv, SlotsInv',
         (\E r \in Requests : Disconnect(r)) \/ Tick \/ UNCHANGED vars
  PROVE  RequestInv'
  <1>1. /\ UNCHANGED <<slotVars, pc, streams, open, scanVars, verdict, logs, reply>>
        /\ gone' \subseteq Requests /\ age' \in [Requests -> 0..TotalRequest]
    <2>1. CASE \E r \in Requests : Disconnect(r)
      BY <2>1 DEF RelayInv, TypeOK, Disconnect
    <2>2. CASE Tick
      <3>1. \A r \in Requests : age[r] \in 0..TotalRequest
        BY DEF RelayInv, TypeOK
      <3>2. \A r \in Requests :
              (IF Live(r) /\ age[r] < TotalRequest THEN age[r] + 1 ELSE age[r]) \in 0..TotalRequest
        BY <3>1, TimeoutsAssumption
      <3>3. age' \in [Requests -> 0..TotalRequest]
        BY <2>2, <3>2 DEF Tick
      <3>4. QED
        BY <2>2, <3>3 DEF Tick, RelayInv, TypeOK
    <2>3. CASE UNCHANGED vars
      BY <2>3 DEF vars, relayVars, RelayInv, TypeOK
    <2>4. QED
      BY <2>1, <2>2, <2>3
  <1>2. Queued' = Queued /\ holders' = holders
    BY <1>1, SlotsUntouched
  <1>3. QED
    BY <1>1, <1>2
    DEF RelayInv, RequestInv, TypeOK, SlotsInv, SlotsMatchLocations, LogInv, LoggedOnce,
        SuccessIsComplete, Queued

------------------------------------------------------------------------------
(* The induction. *)

\* Every step of the gateway, the upstream, the clients and the clock keeps the
\* invariant.
LEMMA RelayStep == RelayInv /\ [Next]_vars => RelayInv'
  <1> SUFFICES ASSUME RelayInv, [Next]_vars PROVE RelayInv'
    OBVIOUS
  <1>1. SlotsInv'
    BY SlotStepOfRelay, SlotsStep DEF RelayInv
  <1>2. ASSUME NEW r \in Requests, Arrive(r) PROVE RequestInv'
    BY <1>1, <1>2, RefuseKeepsInv, EnterKeepsInv DEF Arrive
  <1>3. ASSUME NEW r \in Requests, Gateway(r) PROVE RequestInv'
    <2>1. CASE StartSending(r)
      BY <1>1, <2>1, StartSendingKeepsInv
    <2>2. CASE StartTooLate(r) \/ QueueTimesOut(r)
      BY <1>1, <2>2, TurnedAwayKeepsInv
    <2>3. CASE SendTimesOut(r)
      BY <1>1, <2>3, SettleWithLogKeepsInv DEF SendTimesOut, ErrorTypes
    <2>4. CASE DeadlineReading(r) \/ DisconnectReading(r) \/ Finalise(r)
      BY <1>1, <2>4, EnterFinallyKeepsInv
      DEF DeadlineReading, DisconnectReading, Finalise, LeaveLoop, ErrorTypes
    <2>5. CASE SendCancelled(r)
      <3>1. r \in streams /\ reply[r] \in Replies \ {"500"} /\ Answer(r, reply[r])
        BY <2>5 DEF SendCancelled, RelayInv, LogInv, TypeOK, Answer
      <3>2. QED
        BY <1>1, <2>5, <3>1, StreamStepKeepsInv DEF SendCancelled
    <2>6. CASE CloseUpstream(r)
      BY <1>1, <2>6, CloseUpstreamKeepsInv
    <2>7. QED
      BY <1>3, <2>1, <2>2, <2>3, <2>4, <2>5, <2>6 DEF Gateway
  <1>4. ASSUME NEW r \in Requests, Upstream(r) PROVE RequestInv'
    <2>1. CASE SendFails(r, "timeout", "504") \/ SendFails(r, "connection_error", "502")
      BY <1>1, <2>1, SettleWithLogKeepsInv DEF SendFails, ErrorTypes
    <2>2. CASE \E e \in {"none", "upstream_error"} : RelayBody(r, e)
      BY <1>1, <2>2, SettleWithLogKeepsInv DEF RelayBody, ErrorTypes
    <2>3. CASE RelayErrorBody(r)
      BY <1>1, <2>3, SettleWithLogKeepsInv DEF RelayErrorBody, ErrorTypes
    <2>4. CASE RelayBodyRaises(r) \/ ErrorBodyBreaks(r)
      BY <1>1, <2>4, SafetyNetKeepsInv DEF RelayBodyRaises, ErrorBodyBreaks
    <2>5. CASE ErrorHead(r) \/ StreamHead(r) \/ \E last \in BOOLEAN : Chunk(r, last)
      <3>1. /\ pc[r] \in {"sending", "reading"} /\ r \in streams
            /\ reply[r] \in Replies \ {"500"} /\ reply = [reply EXCEPT ![r] = reply[r]]
            /\ r \in doneSeen => r \in doneSent
        BY <2>5 DEF ErrorHead, StreamHead, Chunk, RelayInv, LogInv, TypeOK
      <3>2. CASE ErrorHead(r)
        BY <1>1, <3>1, <3>2, StreamStepKeepsInv DEF ErrorHead, Answer
      <3>3. CASE StreamHead(r)
        BY <1>1, <3>1, <3>3, StreamStepKeepsInv DEF StreamHead, Replies
      <3>4. CASE \E last \in BOOLEAN : Chunk(r, last)
        BY <1>1, <3>1, <3>4, StreamStepKeepsInv DEF Chunk, SawDone, Answer
      <3>5. QED
        BY <2>5, <3>2, <3>3, <3>4
    <2>6. CASE \/ UpstreamEnds(r) \/ UpstreamBreaks(r)
               \/ \E last \in BOOLEAN : ScannerRaises(r, last)
      BY <1>1, <2>6, EnterFinallyKeepsInv
      DEF UpstreamEnds, UpstreamBreaks, ScannerRaises, LeaveLoop, SawDone, ErrorTypes
    <2>7. QED
      BY <1>4, <2>1, <2>2, <2>3, <2>4, <2>5, <2>6 DEF Upstream
  <1>5. ASSUME NEW r \in Requests, Client(r) PROVE RequestInv'
    <2>1. CASE ChunkSent(r)
      <3>1. r \in streams /\ reply[r] \in Replies \ {"500"} /\ Answer(r, reply[r])
        BY <2>1 DEF ChunkSent, RelayInv, LogInv, TypeOK, Answer
      <3>2. QED
        BY <1>1, <2>1, <3>1, StreamStepKeepsInv DEF ChunkSent
    <2>2. CASE Disconnect(r)
      BY <1>1, <2>2, EnvironmentKeepsInv
    <2>3. QED
      BY <1>5, <2>1, <2>2 DEF Client
  <1>6. ASSUME Tick PROVE RequestInv'
    BY <1>1, <1>6, EnvironmentKeepsInv
  <1>7. ASSUME UNCHANGED vars PROVE RequestInv'
    BY <1>1, <1>7, EnvironmentKeepsInv DEF vars
  <1>8. RequestInv'
    BY <1>2, <1>3, <1>4, <1>5, <1>6, <1>7 DEF Next, Quiescent
  <1>9. QED
    BY <1>1, <1>8 DEF RequestInv, RelayInv

\* No request has arrived yet.
LEMMA RelayStart == Init => RelayInv
  <1> SUFFICES ASSUME Init PROVE RelayInv
    OBVIOUS
  <1>1. SlotsInv /\ waiters = << >> /\ granted = {} /\ holders = {}
    BY SlotsStart DEF Init, SlotsInit
  <1>2. TypeOK
    <2>1. 0 \in 0..TotalRequest /\ << >> \in Seq(ErrorTypes)
      BY TimeoutsAssumption
    <2>2. QED
      BY <1>1, <2>1 DEF Init, TypeOK, SlotsInv, Locations, ErrorTypes, Replies
  <1>3. SlotsMatchLocations /\ open \subseteq holders
    BY <1>1 DEF Init, SlotsMatchLocations, HolderLocations, Waiting
  <1>4. LogInv /\ LoggedOnce /\ SuccessIsComplete
    BY DEF Init, LogInv, LoggedOnce, SuccessIsComplete
  <1>5. QED
    BY <1>1, <1>2, <1>3, <1>4 DEF RelayInv

\* The invariant holds throughout.
LEMMA RelayInvHolds == Spec => []RelayInv
  BY RelayStart, RelayStep, PTL DEF Spec

\* Every variable of forward_chat and of the pool keeps its type.
THEOREM RelayTypeHolds == Spec => []TypeOK
  BY RelayInvHolds, PTL DEF RelayInv

\* On every exit of forward_chat and relay_gen, cancellation and exceptions
\* included, the slot and the place in the queue are given back, once.
THEOREM SlotsMatchLocationsHolds == Spec => []SlotsMatchLocations
  BY RelayInvHolds, PTL DEF RelayInv

\* The semaphore keeps exactly Slots units under forward_chat's use of it.
THEOREM RelayConservesSlots == Spec => []SlotConservation
  BY RelayInvHolds, PTL DEF RelayInv, SlotsInv

\* The upstream never sees more than Slots exchanges at once, and each belongs
\* to a request that still owns its slot.
THEOREM UpstreamBoundedHolds == Spec => []UpstreamBounded
  <1>1. RelayInv => UpstreamBounded
    <2> SUFFICES ASSUME RelayInv PROVE Cardinality(open) <= Slots
      BY DEF RelayInv, UpstreamBounded
    <2>1. holders \in SUBSET Requests /\ granted \in SUBSET Requests /\ value \in Nat
      BY DEF RelayInv, SlotsInv, SlotsTypeOK
    <2>2. /\ IsFiniteSet(holders)
          /\ Cardinality(holders) \in Nat /\ Cardinality(granted) \in Nat
      BY <2>1, RequestSetsFinite
    <2>3. Cardinality(holders) <= Slots
      BY <2>1, <2>2, SlotsAssumption DEF RelayInv, SlotsInv, SlotConservation
    <2>4. Cardinality(open) \in Nat /\ Cardinality(open) <= Cardinality(holders)
      BY <2>2, FS_Subset, FS_CardinalityType DEF RelayInv
    <2>5. QED
      BY <2>2, <2>3, <2>4, SlotsAssumption
  <1>2. QED
    BY <1>1, RelayInvHolds, PTL

\* The gateway uses the pool as it is meant to be used: only requests that are
\* not in it enter, and only holders release; so whatever the pool promises holds
\* under forward_chat.
THEOREM RelayUsesPool == Spec => SlotsSpec
  <1>1. Init => SlotsInit
    BY DEF Init
  <1> QED BY <1>1, SlotStepOfRelay, RelayInvHolds, PTL DEF Spec, SlotsSpec

\* No request overtakes another in the queue of the gateway, whatever departures,
\* deadlines and failures give slots back.
THEOREM RelayServesInOrder == Spec => FirstComeFirstServed
  BY RelayUsesPool, FirstComeFirstServedHolds

\* Every settled request has exactly one log, except those that end in the
\* safety net.
THEOREM LoggedOnceHolds == Spec => []LoggedOnce
  BY RelayInvHolds, PTL DEF RelayInv

\* A log without an error means a complete answer, a stream sent up to its [DONE];
\* or the scanner raised on the chunk that held the [DONE].
THEOREM SuccessIsCompleteHolds == Spec => []SuccessIsComplete
  BY RelayInvHolds, PTL DEF RelayInv

------------------------------------------------------------------------------
(* Who is blamed for an end: the departure of the client. *)

\* What may cancel a stream while its generator is not reading the upstream:
\* the client's departure, or the deadline.  Both are for good.
CutOff(r) == r \in gone \/ Expired(r)

\* A generator is abandoned at its yield, takes the departure for its error
\* type and logs it only after one of the two.
DepartureInv ==
  \A r \in Requests :
    \/ pc[r] = "orphaned"
    \/ verdict[r] = "client_disconnected"
    \/ logs[r] = <<"client_disconnected">>
    => CutOff(r)

\* A client that has left stays away and a deadline that has passed has passed.
LEMMA CutOffIsForGood ==
  ASSUME TypeOK, [Next]_vars, NEW q \in Requests, CutOff(q)
  PROVE  CutOff(q)'
  <1>1. /\ \A r \in Requests : Arrive(r) \/ Gateway(r) \/ Upstream(r) => UNCHANGED <<gone, age>>
        /\ \A r \in Requests : ChunkSent(r) => UNCHANGED <<gone, age>>
    BY DEF Arrive, Refuse, Enter, Gateway, StartSending, StartTooLate, QueueTimesOut,
        SendTimesOut, DeadlineReading, DisconnectReading, SendCancelled, Finalise,
        CloseUpstream, LeaveLoop, EnterFinally, Upstream, SendFails, RelayBody, RelayBodyRaises,
        ErrorHead, RelayErrorBody, ErrorBodyBreaks, StreamHead, Chunk, UpstreamEnds,
        UpstreamBreaks, ScannerRaises, ChunkSent
  <1>2. CASE UNCHANGED <<gone, age>>
    BY <1>2 DEF CutOff, Expired
  <1>3. ASSUME NEW r \in Requests, Disconnect(r) PROVE CutOff(q)'
    BY <1>3 DEF Disconnect, CutOff, Expired
  <1>4. CASE Tick
    BY <1>4, TimeoutsAssumption DEF Tick, CutOff, Expired, TypeOK
  <1>5. QED
    BY <1>1, <1>2, <1>3, <1>4 DEF Next, Client, Quiescent, vars, relayVars

\* Each of the three needs one of the others first, or the cause itself.
LEMMA BlameNeedsCause ==
  ASSUME RelayInv, [Next]_vars, NEW q \in Requests
  PROVE  /\ pc'[q] = "orphaned" => pc[q] = "orphaned" \/ CutOff(q)
         /\ verdict'[q] = "client_disconnected" =>
              verdict[q] = "client_disconnected" \/ pc[q] = "orphaned" \/ CutOff(q)
         /\ logs'[q] = <<"client_disconnected">> =>
              logs[q] = <<"client_disconnected">> \/ verdict[q] = "client_disconnected"
  <1> DEFINE Blames == /\ pc'[q] = "orphaned" => pc[q] = "orphaned" \/ CutOff(q)
                       /\ verdict'[q] = "client_disconnected" =>
                            \/ verdict[q] = "client_disconnected"
                            \/ pc[q] = "orphaned" \/ CutOff(q)
                       /\ logs'[q] = <<"client_disconnected">> =>
                            \/ logs[q] = <<"client_disconnected">>
                            \/ verdict[q] = "client_disconnected"
  <1>1. /\ pc \in [Requests -> Locations] /\ verdict \in [Requests -> ErrorTypes]
        /\ logs \in [Requests -> Seq(ErrorTypes)]
    BY DEF RelayInv, TypeOK
  <1>2. ASSUME NEW r \in Requests, NEW e \in ErrorTypes \ {"client_disconnected"},
               pc[r] # "done", Finish(r, e), pc' = [pc EXCEPT ![r] = "done"], verdict' = verdict
        PROVE  Blames
    <2>1. logs' = [logs EXCEPT ![r] = <<e>>]
      BY <1>2, FinishWritesFirstLog
    <2>2. <<e>> # <<"client_disconnected">>
      <3>1. <<e>>[1] = e /\ <<"client_disconnected">>[1] = "client_disconnected"
        OBVIOUS
      <3>2. QED
        BY <3>1
    <2>3. QED
      BY <1>1, <1>2, <2>1, <2>2
  <1>3. ASSUME NEW r \in Requests, NEW e \in ErrorTypes, NEW a, NEW seen,
               EnterFinally(r, e, a, seen),
               e = "client_disconnected" => pc[r] = "orphaned" \/ CutOff(r)
        PROVE  Blames
    BY <1>1, <1>3 DEF EnterFinally, Goto
  <1>4. ASSUME NEW r \in Requests, NEW l \in Locations \ {"orphaned"},
               pc' = [pc EXCEPT ![r] = l], verdict' = verdict, logs' = logs
        PROVE  Blames
    BY <1>1, <1>4
  <1>5. ASSUME NEW r \in Requests, Arrive(r) PROVE Blames
    BY <1>2, <1>4, <1>5 DEF Arrive, Refuse, Enter, Goto, ErrorTypes, Locations
  <1>6. ASSUME NEW r \in Requests, Gateway(r) PROVE Blames
    <2>1. CASE StartTooLate(r) \/ QueueTimesOut(r) \/ SendTimesOut(r)
      BY <1>2, <2>1 DEF StartTooLate, QueueTimesOut, SendTimesOut, Settle, Goto, ErrorTypes
    <2>2. CASE DeadlineReading(r) \/ DisconnectReading(r) \/ Finalise(r)
      BY <1>3, <2>2 DEF DeadlineReading, DisconnectReading, Finalise, LeaveLoop, CutOff, ErrorTypes
    <2>3. CASE StartSending(r)
      BY <1>4, <2>3 DEF StartSending, Goto, Locations
    <2>4. CASE SendCancelled(r)
      BY <1>1, <2>4 DEF SendCancelled, Goto, CutOff
    <2>5. CASE CloseUpstream(r)
      <3>1. verdict[r] = "client_disconnected" \/ Blames
        BY <1>1, <1>2, <2>5 DEF CloseUpstream, Goto
      <3>2. CASE verdict[r] = "client_disconnected"
        BY <1>1, <2>5, <3>2 DEF CloseUpstream, Goto, Finish
      <3>3. QED
        BY <3>1, <3>2
    <2>6. QED
      BY <1>6, <2>1, <2>2, <2>3, <2>4, <2>5 DEF Gateway
  <1>7. ASSUME NEW r \in Requests, Upstream(r) PROVE Blames
    <2>1. CASE \/ SendFails(r, "timeout", "504") \/ SendFails(r, "connection_error", "502")
               \/ \E e \in {"none", "upstream_error"} : RelayBody(r, e)
               \/ RelayErrorBody(r)
      BY <1>2, <2>1 DEF SendFails, RelayBody, RelayErrorBody, Settle, Goto, ErrorTypes
    <2>2. CASE \/ RelayBodyRaises(r) \/ ErrorHead(r) \/ ErrorBodyBreaks(r) \/ StreamHead(r)
               \/ \E last \in BOOLEAN : Chunk(r, last)
      BY <1>4, <2>2
      DEF RelayBodyRaises, ErrorHead, ErrorBodyBreaks, StreamHead, Chunk, Settle, Goto, Locations
    <2>3. CASE \/ UpstreamEnds(r) \/ UpstreamBreaks(r)
               \/ \E last \in BOOLEAN : ScannerRaises(r, last)
      BY <1>3, <2>3 DEF UpstreamEnds, UpstreamBreaks, ScannerRaises, LeaveLoop, SawDone, ErrorTypes
    <2>4. QED
      BY <1>7, <2>1, <2>2, <2>3 DEF Upstream
  <1>8. ASSUME NEW r \in Requests, Client(r) PROVE Blames
    BY <1>1, <1>4, <1>8 DEF Client, ChunkSent, Disconnect, Goto, Locations
  <1>9. CASE Tick \/ UNCHANGED vars
    BY <1>9 DEF Tick, vars, relayVars
  <1>10. QED
    BY <1>5, <1>6, <1>7, <1>8, <1>9 DEF Next, Quiescent

\* A log blames the client's departure only if the client has left or the
\* deadline has passed: no fault of the upstream or of the gateway is logged so.
THEOREM DisconnectLogExplainedHolds == Spec => []DisconnectLogExplained
  <1>1. Init => DepartureInv
    BY DEF Init, DepartureInv
  <1>2. RelayInv /\ DepartureInv /\ [Next]_vars => DepartureInv'
    <2> SUFFICES ASSUME RelayInv, DepartureInv, [Next]_vars, NEW q \in Requests,
                        \/ pc'[q] = "orphaned"
                        \/ verdict'[q] = "client_disconnected"
                        \/ logs'[q] = <<"client_disconnected">>
                 PROVE  CutOff(q)'
      BY DEF DepartureInv
    <2>1. CutOff(q)
      BY BlameNeedsCause DEF DepartureInv
    <2>2. QED
      BY <2>1, CutOffIsForGood DEF RelayInv
  <1>3. DepartureInv => DisconnectLogExplained
    BY DEF DepartureInv, DisconnectLogExplained, CutOff
  <1>4. QED
    BY <1>1, <1>2, <1>3, RelayInvHolds, PTL DEF Spec

------------------------------------------------------------------------------
(* Refinement: the life of a request is that of a lease. *)

\* A woken request is never parked again.
LEMMA WokenIsNotParkedAgain ==
  ASSUME SlotsInv, SlotsInv', [SlotsNext]_slotVars
  PROVE  granted \cap Waiting' = {}
  <1>1. Waiting' \cap (granted' \cup holders') = {}
    BY DEF SlotsInv, SlotsTypeOK
  <1>2. ASSUME NEW r \in Requests, AcquireNow(r) \/ AcquireWait(r) \/ Release(r)
        PROVE  granted \subseteq granted'
    BY <1>2 DEF AcquireNow, AcquireWait, Release
  <1>3. ASSUME NEW r \in Requests, AcquireResumes(r)
        PROVE  granted \subseteq granted' \cup holders'
    BY <1>3, WakeSets DEF AcquireResumes, SlotsInv, SlotsTypeOK
  <1>4. ASSUME NEW r \in Requests, AcquireTimesOut(r)
        PROVE  granted \cap Waiting' = {}
    <2>1. r \notin Waiting'
      BY <1>4, AcquireTimesOutSets DEF Queued
    <2>2. ASSUME NEW n \in 1..Len(waiters), Wake(value, Without(waiters, n), granted)
          PROVE  granted \subseteq granted'
      <3>1. value \in Nat /\ Without(waiters, n) \in Seq(Requests)
        BY WithoutProperties DEF SlotsInv, SlotsTypeOK
      <3>2. QED
        BY <2>2, <3>1, WakeSets
    <2>3. ASSUME Wake(value + 1, waiters, granted \ {r})
          PROVE  granted \ {r} \subseteq granted'
      <3>1. value + 1 \in Nat /\ waiters \in Seq(Requests)
        BY DEF SlotsInv, SlotsTypeOK
      <3>2. QED
        BY <2>3, <3>1, WakeSets
    <2>4. granted \ {r} \subseteq granted'
      BY <1>4, <2>2, <2>3 DEF AcquireTimesOut
    <2>5. QED
      BY <1>1, <2>1, <2>4
  <1>5. CASE UNCHANGED slotVars
    BY <1>5 DEF slotVars, SlotsInv, SlotsTypeOK
  <1>6. QED
    <2>1. CASE SlotsNext
      BY <1>1, <1>2, <1>3, <1>4, <2>1 DEF SlotsNext, SlotsInv, SlotsTypeOK
    <2>2. QED
      BY <1>5, <2>1

\* How a program counter moves.
PcMove(r) ==
  \/ pc'[r] = pc[r]
  \/ pc[r] = "new"
  \/ pc[r] = "queued" /\ pc'[r] \in {"sending", "done"}
  \/ pc[r] \in HolderLocations /\ pc'[r] \in HolderLocations \cup {"done"}

\* No step moves a program counter in any other way.
LEMMA PcMoves ==
  ASSUME TypeOK, [Next]_vars, NEW q \in Requests
  PROVE  PcMove(q)
  <1> USE DEF PcMove, HolderLocations, Goto
  <1>1. pc \in [Requests -> Locations]
    BY DEF TypeOK
  <1>2. ASSUME NEW r \in Requests, Arrive(r) PROVE PcMove(q)
    BY <1>1, <1>2 DEF Arrive, Refuse, Enter
  <1>3. ASSUME NEW r \in Requests, Gateway(r) PROVE PcMove(q)
    BY <1>1, <1>3
    DEF Gateway, StartSending, StartTooLate, QueueTimesOut, SendTimesOut, DeadlineReading,
        DisconnectReading, SendCancelled, Finalise, CloseUpstream, LeaveLoop, EnterFinally, Settle
  <1>4. ASSUME NEW r \in Requests, Upstream(r) PROVE PcMove(q)
    BY <1>1, <1>4
    DEF Upstream, SendFails, RelayBody, RelayBodyRaises, ErrorHead, RelayErrorBody,
        ErrorBodyBreaks, StreamHead, Chunk, UpstreamEnds, UpstreamBreaks, ScannerRaises,
        LeaveLoop, EnterFinally, Settle
  <1>5. ASSUME NEW r \in Requests, Client(r) PROVE PcMove(q)
    BY <1>1, <1>5 DEF Client, ChunkSent, Disconnect
  <1>6. CASE Tick \/ UNCHANGED vars
    BY <1>6 DEF Tick, vars, relayVars
  <1>7. QED
    BY <1>2, <1>3, <1>4, <1>5, <1>6 DEF Next, Quiescent

\* The lease of a request follows from its program counter, but for the woken.
LEMMA LeaseByLocation ==
  ASSUME RelayInv, NEW r \in Requests
  PROVE  /\ pc[r] = "new" => LeaseOf(r) = "none"
         /\ pc[r] = "done" => LeaseOf(r) = "settled"
         /\ pc[r] \in HolderLocations => LeaseOf(r) = "out"
         /\ pc[r] = "queued" => LeaseOf(r) = IF r \in granted THEN "out" ELSE "waiting"
  BY DEF RelayInv, SlotsMatchLocations, SlotsInv, SlotsTypeOK, HolderLocations, LeaseOf

\* Nothing is leased at the start.
LEMMA LeaseStart == Init => Lease!LeaseInit
  BY RelayStart, LeaseByLocation DEF Init, Lease!LeaseInit

\* Cardinality means the same inside the instance of SlotLease.
LEMMA LeaseCard == \A S : Lease!Cardinality(S) = Cardinality(S)
  BY DEF Lease!Cardinality, Cardinality

\* One step of forward_chat moves every lease as SlotLease allows, and never
\* has more than Slots of them out.
LEMMA LeaseStep ==
  ASSUME RelayInv, RelayInv', [Next]_vars
  PROVE  Lease!LeaseNext
  <1> DEFINE L == [r \in Requests |-> LeaseOf(r)]
  <1>1. L' \in [Requests -> Lease!LeaseStates]
    BY DEF LeaseOf, Lease!LeaseStates
  <1>2. ASSUME NEW r \in Requests
        PROVE  L'[r] = L[r] \/ Lease!Move(r)
    <2>1. L[r] = LeaseOf(r) /\ L'[r] = LeaseOf(r)'
      OBVIOUS
    <2>2. pc[r] \in Locations /\ pc'[r] \in Locations
      BY DEF RelayInv, TypeOK
    <2>3. PcMove(r)
      BY PcMoves DEF RelayInv
    <2>4. /\ pc'[r] = "new" => LeaseOf(r)' = "none"
          /\ pc'[r] = "done" => LeaseOf(r)' = "settled"
          /\ pc'[r] \in HolderLocations => LeaseOf(r)' = "out"
          /\ pc'[r] = "queued" =>
               LeaseOf(r)' = IF r \in granted' THEN "out" ELSE "waiting"
      BY DEF RelayInv, SlotsMatchLocations, SlotsInv, SlotsTypeOK, HolderLocations, LeaseOf
    <2>5. pc'[r] = "queued" /\ r \in granted => r \in granted'
      <3>1. granted \cap Waiting' = {}
        BY SlotStepOfRelay, WokenIsNotParkedAgain DEF RelayInv
      <3>2. QED
        BY <3>1 DEF RelayInv, SlotsMatchLocations
    <2>6. QED
      BY <2>1, <2>2, <2>3, <2>4, <2>5, LeaseByLocation
      DEF PcMove, HolderLocations, Locations, Lease!Move
  <1>3. Cardinality(Lease!Out') <= Slots
    <2>1. Lease!Out' = holders' \cup granted'
      <3>1. holders' \cup granted' \subseteq Requests
        BY DEF RelayInv, SlotsInv, SlotsTypeOK
      <3>2. \A r \in Requests : L'[r] = "out" <=> r \in holders' \cup granted'
        <4>1. TAKE r \in Requests
        <4>2. L'[r] = LeaseOf(r)'
          OBVIOUS
        <4>3. LeaseOf(r)' = "out" <=> r \in holders' \cup granted'
          BY DEF LeaseOf, RelayInv, SlotsMatchLocations, SlotsInv, SlotsTypeOK, HolderLocations
        <4>4. QED
          BY <4>2, <4>3
      <3>3. Lease!Out' = { r \in Requests : L'[r] = "out" }
        BY DEF Lease!Out
      <3>4. QED
        BY <3>1, <3>2, <3>3
    <2>2. /\ holders' \in SUBSET Requests /\ granted' \in SUBSET Requests
          /\ holders' \cap granted' = {} /\ value' \in Nat
      BY DEF RelayInv, SlotsInv, SlotsTypeOK
    <2>3. Cardinality(holders') \in Nat /\ Cardinality(granted') \in Nat
      BY <2>2, RequestSetsFinite
    <2>4. Cardinality(holders' \cup granted') = Cardinality(holders') + Cardinality(granted')
      BY <2>2, DisjointCardinality
    <2>5. value' + Cardinality(granted') + Cardinality(holders') = Slots
      BY DEF RelayInv, SlotsInv, SlotConservation
    <2>6. QED
      BY <2>1, <2>2, <2>3, <2>4, <2>5, SlotsAssumption
  <1>4. QED
    BY <1>1, <1>2, <1>3, LeaseCard DEF Lease!LeaseNext

\* forward_chat over the semaphore implements the slot lease: each request goes
\* through at most one lease, settles it once, and at most Slots are out.
THEOREM RelayRefinesLease == Spec => RefinesLease
  BY LeaseStart, LeaseStep, RelayInvHolds, PTL DEF Spec, RefinesLease, Lease!LeaseSpec
==============================================================================

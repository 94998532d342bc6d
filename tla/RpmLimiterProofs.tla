-------------------------- MODULE RpmLimiterProofs ---------------------------
(****************************************************************************)
(* Whatever the keys, the limits their calls come with and the length of    *)
(* the window: what the history of a key's calls says of the limiter.  The  *)
(* invariant has the one counter of a key stand for the calls of its newest *)
(* window, every call judged by its place in its window, and for every      *)
(* refused call an earlier one, or itself, before which the window was full *)
(* of calls that were let in.                                               *)
(****************************************************************************)
EXTENDS RpmLimiter, FiniteSetTheorems, TLAPS

\* The counter of a key stands for the calls of its newest window.
CounterStands(k) ==
  /\ start[k] <= WindowOf(now)
  /\ \A i \in CallsOf(k) : WindowOf(calls[k][i].at) <= start[k]
  /\ count[k] = Cardinality({ i \in CallsOf(k) : WindowOf(calls[k][i].at) = start[k] })

\* The i-th call was judged by its place among the calls of its window, and a
\* refused one was told to come back in another.
Judged(k, i) ==
  /\ calls[k][i].allowed <=> Cardinality(InWindow(k, i)) <= calls[k][i].limit
  /\ ~calls[k][i].allowed =>
       (WindowOf(calls[k][i].at) + 1) * Window
         <= calls[k][i].at + calls[k][i].retry * Second

\* Call f is refused, and as many calls as it was limited to were let in before.
FullAt(k, f) ==
  ~calls[k][f].allowed /\ Cardinality(LetIn(k, f)) >= calls[k][f].limit

\* In the window of a refused call there is one that found the window full.
FilledFirst(k, i) ==
  ~calls[k][i].allowed => \E f \in InWindow(k, i) : FullAt(k, f)

KeyInv(k) ==
  /\ CounterStands(k)
  /\ \A i \in CallsOf(k) : Judged(k, i) /\ FilledFirst(k, i)

LimiterInv == TypeOK /\ \A k \in Keys : KeyInv(k)

------------------------------------------------------------------------------
\* The windows of the clock: a natural number each, and never backwards.
LEMMA WindowsGoOn ==
  /\ \A t \in Nat : WindowOf(t) \in Nat
  /\ \A t \in Nat : WindowOf(t) <= WindowOf(t + 1)
  <1> DEFINE W == Window
  <1>1. W \in Nat \ {0}
    BY LimiterAssumption DEF Window
  <1> HIDE DEF W
  <1>2. \A t \in Nat : t \div W \in Nat
    BY <1>1
  <1>3. \A t \in Nat : t \div W <= (t + 1) \div W
    BY <1>1
  <1>4. QED
    BY <1>2, <1>3 DEF WindowOf, W

\* Retry-After is a whole number of seconds.
LEMMA RetryAfterType == \A t \in Nat : RetryAfter(t) \in Nat
  <1> SUFFICES ASSUME NEW t \in Nat PROVE RetryAfter(t) \in Nat
    OBVIOUS
  <1> DEFINE s == ((WindowOf(t) + 1) * Window - t) \div Second + 1
  <1>1. WindowOf(t) \in Nat /\ Window \in Nat /\ Second \in Nat \ {0}
    BY WindowsGoOn, LimiterAssumption DEF Window
  <1>2. (WindowOf(t) + 1) * Window - t \in Int
    BY <1>1
  <1>3. s \in Int
    BY <1>1, <1>2
  <1> HIDE DEF s
  <1>4. RetryAfter(t) = IF s > 1 THEN s ELSE 1
    BY DEF RetryAfter, s
  <1>5. QED
    BY <1>3, <1>4

\* A later reading of the clock is in no earlier window.
LEMMA WindowsMonotone == \A t, u \in Nat : t <= u => WindowOf(t) <= WindowOf(u)
  <1> DEFINE W == Window
  <1>1. W \in Nat \ {0}
    BY LimiterAssumption DEF Window
  <1> HIDE DEF W
  <1>2. \A t, u \in Nat : t <= u => t \div W <= u \div W
    BY <1>1
  <1> QED BY <1>2 DEF WindowOf, W

\* A client that waits for as long as it was told comes back after the window.
LEMMA RetryAfterPassesWindow ==
  ASSUME NEW t \in Nat
  PROVE  (WindowOf(t) + 1) * Window <= t + RetryAfter(t) * Second
  <1> DEFINE d == (WindowOf(t) + 1) * Window - t
             s == d \div Second + 1
  <1>1. WindowOf(t) \in Nat /\ Window \in Nat /\ Second \in Nat \ {0}
    BY WindowsGoOn, LimiterAssumption DEF Window
  <1>2. d \in Int
    BY <1>1
  <1> HIDE DEF d
  <1>3. d < s * Second /\ s \in Int
    <2>1. \A a \in Int, b \in Nat \ {0} : a < (a \div b + 1) * b /\ a \div b \in Int
      OBVIOUS
    <2> QED BY <1>1, <1>2, <2>1
  <1>4. RetryAfter(t) = IF s > 1 THEN s ELSE 1
    BY DEF RetryAfter, d, s
  <1> HIDE DEF s
  <1>5. RetryAfter(t) \in Nat /\ s <= RetryAfter(t)
    BY <1>3, <1>4
  <1>6. s * Second <= RetryAfter(t) * Second
    BY <1>1, <1>3, <1>5
  <1>7. (WindowOf(t) + 1) * Window = t + d
    BY <1>1 DEF d
  <1> QED BY <1>1, <1>2, <1>3, <1>5, <1>6, <1>7

\* Whoever comes back after the window of t is in a later one.
LEMMA LaterWindow ==
  ASSUME NEW t \in Nat, NEW u \in Nat, (WindowOf(t) + 1) * Window <= u
  PROVE  WindowOf(t) < WindowOf(u)
  <1> DEFINE W == Window
  <1>1. W \in Nat \ {0}
    BY LimiterAssumption DEF Window
  <1> HIDE DEF W
  <1>2. \A m \in Nat : (m + 1) * W <= u => m < u \div W
    BY <1>1
  <1>3. WindowOf(t) \in Nat
    BY WindowsGoOn
  <1> QED BY <1>2, <1>3 DEF WindowOf, W

------------------------------------------------------------------------------
\* The calls of a window up to one of them are finitely many, and so are those
\* of them that were let in.
LEMMA CallsFinite ==
  ASSUME NEW k \in Keys, NEW i \in Nat
  PROVE  /\ IsFiniteSet(InWindow(k, i)) /\ Cardinality(InWindow(k, i)) \in Nat
         /\ IsFiniteSet(LetIn(k, i)) /\ Cardinality(LetIn(k, i)) \in Nat
         /\ Cardinality(LetIn(k, i)) <= Cardinality(InWindow(k, i))
  <1>1. IsFiniteSet(1..i)
    BY FS_Interval
  <1>2. InWindow(k, i) \subseteq 1..i
    BY DEF InWindow
  <1>3. LetIn(k, i) \subseteq InWindow(k, i)
    BY DEF LetIn
  <1>4. IsFiniteSet(InWindow(k, i))
    BY <1>1, <1>2, FS_Subset
  <1>5. IsFiniteSet(LetIn(k, i)) /\ Cardinality(LetIn(k, i)) <= Cardinality(InWindow(k, i))
    BY <1>3, <1>4, FS_Subset
  <1> QED BY <1>4, <1>5, FS_CardinalityType

\* The i-th call of a key, its time and its limit are numbers.
LEMMA CallType ==
  ASSUME TypeOK, NEW k \in Keys, NEW i \in CallsOf(k)
  PROVE  /\ i \in Nat /\ i \in 1..i /\ 1..i \subseteq CallsOf(k)
         /\ calls[k][i].limit \in Int /\ calls[k][i].allowed \in BOOLEAN
         /\ calls[k][i].at \in Nat /\ calls[k][i].retry \in Nat
         /\ WindowOf(calls[k][i].at) \in Nat
  <1>1. calls[k] \in Seq(Call) /\ i \in 1..Len(calls[k]) /\ Len(calls[k]) \in Nat
    BY DEF TypeOK, CallsOf
  <1>2. i \in Nat /\ i \in 1..i /\ 1..i \subseteq CallsOf(k)
    BY <1>1 DEF CallsOf
  <1>3. calls[k][i] \in Call
    BY <1>1
  <1>4. /\ calls[k][i].limit \in Int /\ calls[k][i].allowed \in BOOLEAN
        /\ calls[k][i].at \in Nat /\ calls[k][i].retry \in Nat
    BY <1>3 DEF Call
  <1>5. WindowOf(calls[k][i].at) \in Nat
    BY <1>4, WindowsGoOn
  <1> QED BY <1>2, <1>4, <1>5

\* What a call changes: one more record at the end, the others as they were.
LEMMA CallAppended ==
  ASSUME TypeOK, NEW q \in Keys, NEW limit \in Limits, Check(q, limit)
  PROVE  /\ Answered(CountedBefore(q) + 1, limit) \in Call
         /\ calls'[q] = Append(calls[q], Answered(CountedBefore(q) + 1, limit))
         /\ calls'[q][Len(calls[q]) + 1] = Answered(CountedBefore(q) + 1, limit)
         /\ Len(calls'[q]) = Len(calls[q]) + 1
         /\ \A i \in CallsOf(q) : calls'[q][i] = calls[q][i]
         /\ CallsOf(q)' = CallsOf(q) \cup {Len(calls[q]) + 1}
         /\ \A k \in Keys \ {q} : calls'[k] = calls[k]
  <1> DEFINE new == Answered(CountedBefore(q) + 1, limit)
             n == Len(calls[q])
  <1>1. calls[q] \in Seq(Call) /\ n \in Nat /\ now \in Nat
    BY DEF TypeOK
  <1>2. new \in Call
    <2>1. RetryAfter(now) \in Nat /\ limit \in Int
      BY <1>1, RetryAfterType, LimiterAssumption
    <2>2. Allowed(CountedBefore(q) + 1, limit) \in BOOLEAN
      BY DEF Allowed
    <2> QED BY <1>1, <2>1, <2>2 DEF Answered, Call
  <1> HIDE DEF new
  <1>3. calls' = [calls EXCEPT ![q] = Append(@, new)]
    BY DEF Check, new
  <1>4. calls'[q] = Append(calls[q], new) /\ \A k \in Keys \ {q} : calls'[k] = calls[k]
    BY <1>3 DEF TypeOK
  <1>5. /\ Len(calls'[q]) = n + 1 /\ calls'[q][n + 1] = new
        /\ \A i \in 1..n : calls'[q][i] = calls[q][i]
    BY <1>1, <1>2, <1>4
  <1>6. CallsOf(q)' = CallsOf(q) \cup {n + 1}
    BY <1>1, <1>5 DEF CallsOf
  <1> QED BY <1>2, <1>4, <1>5, <1>6 DEF new, CallsOf

\* What was said of a call stays true when later ones join.
LEMMA OldCallsStand ==
  ASSUME TypeOK, NEW k \in Keys, NEW i \in CallsOf(k),
         \A j \in CallsOf(k) : calls'[k][j] = calls[k][j],
         Judged(k, i), FilledFirst(k, i)
  PROVE  /\ InWindow(k, i)' = InWindow(k, i)
         /\ Judged(k, i)' /\ FilledFirst(k, i)'
  <1>1. \A j \in 1..i : j \in CallsOf(k) /\ calls'[k][j] = calls[k][j] /\ 1..j \subseteq 1..i
    BY DEF CallsOf, TypeOK
  <1>2. i \in 1..i
    BY DEF CallsOf, TypeOK
  <1>3. \A j \in 1..i : InWindow(k, j)' = InWindow(k, j) /\ LetIn(k, j)' = LetIn(k, j)
    BY <1>1 DEF InWindow, LetIn, WindowOf, Window
  <1>4. Judged(k, i)'
    BY <1>1, <1>2, <1>3 DEF Judged, WindowOf, Window
  <1>5. \A f \in InWindow(k, i) : FullAt(k, f) => FullAt(k, f)'
    BY <1>1, <1>3 DEF FullAt, InWindow
  <1> QED BY <1>1, <1>2, <1>3, <1>4, <1>5 DEF FilledFirst

\* The calls so far in the window of now are those the counter counts.
LEMMA CountedIsMade ==
  ASSUME LimiterInv, NEW k \in Keys
  PROVE  /\ CountedBefore(k) \in Nat
         /\ IsFiniteSet({ i \in CallsOf(k) : WindowOf(calls[k][i].at) = WindowOf(now) })
         /\ Cardinality({ i \in CallsOf(k) : WindowOf(calls[k][i].at) = WindowOf(now) })
              = CountedBefore(k)
  <1> DEFINE made == { i \in CallsOf(k) : WindowOf(calls[k][i].at) = WindowOf(now) }
  <1>1. TypeOK /\ CounterStands(k) /\ now \in Nat
    BY DEF LimiterInv, KeyInv, TypeOK
  <1>2. start[k] \in Nat /\ count[k] \in Nat /\ WindowOf(now) \in Nat
    BY <1>1, WindowsGoOn DEF TypeOK
  <1>3. IsFiniteSet(made)
    <2>1. IsFiniteSet(CallsOf(k)) /\ made \subseteq CallsOf(k)
      BY <1>1, FS_Interval DEF CallsOf, TypeOK
    <2> QED BY <2>1, FS_Subset
  <1>4. CASE start[k] = WindowOf(now)
    BY <1>1, <1>2, <1>3, <1>4 DEF CounterStands, CountedBefore
  <1>5. CASE start[k] # WindowOf(now)
    <2>1. start[k] < WindowOf(now)
      BY <1>1, <1>2, <1>5 DEF CounterStands
    <2>2. \A i \in CallsOf(k) : WindowOf(calls[k][i].at) \in Nat
      BY <1>1, CallType
    <2>3. \A i \in CallsOf(k) : WindowOf(calls[k][i].at) <= start[k]
      BY <1>1 DEF CounterStands
    <2>4. made = {}
      BY <1>2, <2>1, <2>2, <2>3
    <2>5. CountedBefore(k) = 0
      BY <1>5 DEF CountedBefore
    <2> QED BY <2>4, <2>5, <1>3, FS_EmptySet
  <1> QED BY <1>4, <1>5, <1>3

------------------------------------------------------------------------------
\* A call of key q leaves the invariant of every key intact.
LEMMA CheckKeeps ==
  ASSUME LimiterInv, NEW q \in Keys, NEW limit \in Limits, Check(q, limit)
  PROVE  LimiterInv'
  <1> DEFINE n == CountedBefore(q) + 1
             new == Answered(n, limit)
             made == { i \in CallsOf(q) : WindowOf(calls[q][i].at) = WindowOf(now) }
  <1>1. TypeOK /\ KeyInv(q) /\ limit \in Int /\ now \in Nat
    BY LimiterAssumption DEF LimiterInv, TypeOK
  <1> PICK last \in Nat : last = Len(calls[q]) + 1
    BY <1>1 DEF TypeOK
  <1>2. /\ n \in Nat /\ IsFiniteSet(made) /\ Cardinality(made) + 1 = n
        /\ WindowOf(now) \in Nat
    <2>1. CountedBefore(q) \in Nat /\ IsFiniteSet(made) /\ Cardinality(made) = CountedBefore(q)
      BY CountedIsMade
    <2>2. WindowOf(now) \in Nat
      BY <1>1, WindowsGoOn
    <2> HIDE DEF made
    <2> QED BY <2>1, <2>2 DEF n
  <1>3. /\ start' = [start EXCEPT ![q] = WindowOf(now)]
        /\ count' = [count EXCEPT ![q] = n]
        /\ now' = now
    BY DEF Check
  <1>4. /\ new \in Call
        /\ calls'[q] = Append(calls[q], new)
        /\ calls'[q][last] = new
        /\ \A i \in CallsOf(q) : calls'[q][i] = calls[q][i]
        /\ CallsOf(q)' = CallsOf(q) \cup {last}
        /\ \A k \in Keys \ {q} : calls'[k] = calls[k]
    BY <1>1, CallAppended
  <1>5. /\ new.at = now /\ new.limit = limit
        /\ new.allowed <=> n <= limit
        /\ ~(n <= limit) => new.retry = RetryAfter(now)
    BY DEF Answered, Allowed
  <1>6. CallsOf(q) = 1..(last - 1) /\ last \notin CallsOf(q)
    BY <1>1 DEF CallsOf, TypeOK
  <1>old. calls[q] \in Seq(Call)
    BY <1>1 DEF TypeOK
  <1> HIDE DEF n, new
  <1>7. TypeOK'
    <2>1. calls'[q] \in Seq(Call)
      BY <1>4, <1>old
    <2>2. calls' \in [Keys -> Seq(Call)]
      BY <1>1, <1>4, <2>1 DEF TypeOK, Check
    <2> QED BY <1>1, <1>2, <1>3, <2>2 DEF TypeOK
  <1>8. ASSUME NEW k \in Keys, k # q PROVE KeyInv(k)'
    <2>1. start'[k] = start[k] /\ count'[k] = count[k] /\ calls'[k] = calls[k] /\ now' = now
      BY <1>1, <1>3, <1>4, <1>8 DEF TypeOK
    <2>2. KeyInv(k) /\ CallsOf(k)' = CallsOf(k)
      BY <2>1 DEF LimiterInv, CallsOf
    <2>3. CounterStands(k)'
      BY <2>1, <2>2 DEF KeyInv, CounterStands, WindowOf, Window
    <2>4. \A i \in CallsOf(k) : Judged(k, i)' /\ FilledFirst(k, i)'
      BY <1>1, <2>1, <2>2, OldCallsStand DEF KeyInv
    <2> QED BY <2>2, <2>3, <2>4 DEF KeyInv
  <1>9. /\ InWindow(q, last)' = made \cup {last}
        /\ last \notin made
        /\ Cardinality(InWindow(q, last)') = n
    <2>1. 1..last = CallsOf(q) \cup {last}
      BY <1>2, <1>6
    <2>2. InWindow(q, last)' = { j \in 1..last : WindowOf(calls'[q][j].at) = WindowOf(now) }
      BY <1>4, <1>5 DEF InWindow, WindowOf, Window
    <2>3. InWindow(q, last)' = made \cup {last}
      BY <1>4, <1>5, <2>1, <2>2
    <2>4. last \notin made
      BY <1>6
    <2>5. Cardinality(made \cup {last}) = Cardinality(made) + 1
      BY <1>2, <2>4, FS_AddElement
    <2> QED BY <1>2, <2>3, <2>4, <2>5
  <1>10. CounterStands(q)'
    <2>1. start'[q] = WindowOf(now) /\ count'[q] = n /\ WindowOf(now)' = WindowOf(now)
      BY <1>1, <1>3 DEF TypeOK, WindowOf, Window
    <2>2. ASSUME NEW i \in CallsOf(q) PROVE WindowOf(calls[q][i].at) <= WindowOf(now)
      <3>1. WindowOf(calls[q][i].at) <= start[q] /\ start[q] <= WindowOf(now)
        BY <1>1 DEF KeyInv, CounterStands
      <3>2. WindowOf(calls[q][i].at) \in Nat /\ start[q] \in Nat
        BY <1>1, CallType DEF TypeOK
      <3> QED BY <1>2, <3>1, <3>2
    <2>3. \A i \in CallsOf(q)' : WindowOf(calls'[q][i].at) <= WindowOf(now)
      <3> SUFFICES ASSUME NEW i \in CallsOf(q)' PROVE WindowOf(calls'[q][i].at) <= WindowOf(now)
        OBVIOUS
      <3>1. CASE i \in CallsOf(q)
        BY <1>4, <2>2, <3>1
      <3>2. CASE i = last
        BY <1>2, <1>4, <1>5, <3>2
      <3> QED BY <1>4, <3>1, <3>2
    <2>4. { i \in CallsOf(q)' : WindowOf(calls'[q][i].at) = WindowOf(now) } = made \cup {last}
      BY <1>4, <1>5
    <2> QED BY <1>2, <1>9, <2>1, <2>3, <2>4 DEF CounterStands, WindowOf, Window
  <1>11. ASSUME NEW i \in CallsOf(q)
         PROVE  InWindow(q, i)' = InWindow(q, i) /\ Judged(q, i)' /\ FilledFirst(q, i)'
    BY <1>1, <1>4, OldCallsStand DEF KeyInv
  <1>12. Judged(q, last)'
    <2>1. (WindowOf(now) + 1) * Window <= now + RetryAfter(now) * Second
      BY <1>1, RetryAfterPassesWindow
    <2>2. ~new.allowed => (WindowOf(now) + 1) * Window <= now + new.retry * Second
      BY <1>5, <2>1
    <2>3. WindowOf(now) = now \div (Second * WindowSeconds)
      BY DEF WindowOf, Window
    <2> QED BY <1>4, <1>5, <1>9, <2>2 DEF Judged, WindowOf, Window
  <1>13. FilledFirst(q, last)'
    <2> SUFFICES ASSUME ~new.allowed
                 PROVE  \E f \in InWindow(q, last)' : FullAt(q, f)'
      BY <1>4 DEF FilledFirst
    <2>1. CASE \E j \in made : ~calls[q][j].allowed
      <3>1. PICK j \in made : ~calls[q][j].allowed
        BY <2>1
      <3>2. j \in CallsOf(q) /\ calls'[q][j] = calls[q][j] /\ FilledFirst(q, j)'
        BY <1>4, <1>11, <3>1
      <3>3. PICK f \in InWindow(q, j)' : FullAt(q, f)'
        BY <3>1, <3>2 DEF FilledFirst
      <3>4. InWindow(q, j)' = InWindow(q, j)
        BY <1>11, <3>2
      <3>5. f \in made
        BY <1>6, <1>2, <3>1, <3>2, <3>3, <3>4 DEF InWindow
      <3> QED BY <1>9, <3>3, <3>5
    <2>2. CASE \A j \in made : calls[q][j].allowed
      <3>1. LetIn(q, last)' = made
        BY <1>4, <1>9, <2>2 DEF LetIn
      <3>2. Cardinality(made) >= limit
        <4>1. ~(n <= limit)
          BY <1>5
        <4>2. Cardinality(made) \in Nat
          BY <1>2, FS_CardinalityType
        <4> QED BY <1>1, <1>2, <4>1, <4>2
      <3>3. FullAt(q, last)'
        BY <1>4, <1>5, <3>1, <3>2 DEF FullAt
      <3> QED BY <1>9, <3>3
    <2> QED BY <2>1, <2>2
  <1> QED
    BY <1>4, <1>7, <1>8, <1>10, <1>11, <1>12, <1>13 DEF LimiterInv, KeyInv

\* Empty counters satisfy the invariant, at the start and after a restart.
LEMMA FreshIsGood == now \in Nat /\ Fresh => LimiterInv
  <1> SUFFICES ASSUME now \in Nat, Fresh PROVE LimiterInv
    OBVIOUS
  <1>1. TypeOK
    BY DEF Fresh, TypeOK
  <1>2. ASSUME NEW k \in Keys PROVE KeyInv(k)
    <2>1. calls[k] = << >> /\ start[k] = 0 /\ count[k] = 0
      BY DEF Fresh
    <2>2. CallsOf(k) = {}
      BY <2>1 DEF CallsOf
    <2>3. { i \in CallsOf(k) : WindowOf(calls[k][i].at) = start[k] } = {}
      BY <2>2
    <2>4. WindowOf(now) \in Nat
      BY WindowsGoOn
    <2> QED BY <2>1, <2>2, <2>3, <2>4, FS_EmptySet DEF KeyInv, CounterStands
  <1> QED BY <1>1, <1>2 DEF LimiterInv

\* The invariant is inductive.
LEMMA LimiterInvHolds == Spec => []LimiterInv
  <1>1. Init => LimiterInv
    BY FreshIsGood DEF Init
  <1>fresh. (now \in Nat /\ Fresh)' => LimiterInv'
    BY FreshIsGood, PTL
  <1>2. LimiterInv /\ [Next]_vars => LimiterInv'
    <2> SUFFICES ASSUME LimiterInv, [Next]_vars PROVE LimiterInv'
      OBVIOUS
    <2>1. ASSUME NEW k \in Keys, NEW limit \in Limits, Check(k, limit) PROVE LimiterInv'
      BY <2>1, CheckKeeps
    <2>2. CASE Tick
      <3>1. /\ now' = now + 1 /\ now \in Nat
            /\ start' = start /\ count' = count /\ calls' = calls
        BY <2>2 DEF Tick, LimiterInv, TypeOK
      <3>2. WindowOf(now) <= WindowOf(now)' /\ WindowOf(now) \in Nat /\ WindowOf(now)' \in Nat
        <4>1. WindowOf(now)' = WindowOf(now + 1)
          BY <3>1 DEF WindowOf, Window
        <4> QED BY <3>1, <4>1, WindowsGoOn
      <3>3. ASSUME NEW k \in Keys PROVE KeyInv(k)'
        <4>1. KeyInv(k) /\ start[k] \in Nat /\ TypeOK /\ CallsOf(k)' = CallsOf(k)
          BY <3>1 DEF LimiterInv, TypeOK, CallsOf
        <4>2. start'[k] <= WindowOf(now)'
          BY <3>1, <3>2, <4>1 DEF KeyInv, CounterStands
        <4>3. CounterStands(k)'
          BY <3>1, <4>1, <4>2 DEF KeyInv, CounterStands, WindowOf, Window
        <4>4. \A i \in CallsOf(k) : Judged(k, i)' /\ FilledFirst(k, i)'
          BY <3>1, <4>1, OldCallsStand DEF KeyInv
        <4> QED BY <4>1, <4>3, <4>4 DEF KeyInv
      <3> QED BY <3>1, <3>3 DEF LimiterInv, TypeOK
    <2>3. CASE Restart
      <3>1. now' \in Nat /\ Fresh'
        BY <2>3 DEF Restart, Fresh, LimiterInv, TypeOK
      <3> QED BY <3>1, <1>fresh
    <2>4. CASE UNCHANGED vars
      <3>1. now' = now /\ start' = start /\ count' = count /\ calls' = calls
        BY <2>4 DEF vars
      <3>2. ASSUME NEW k \in Keys PROVE KeyInv(k)'
        <4>1. KeyInv(k) /\ TypeOK /\ CallsOf(k)' = CallsOf(k)
          BY <3>1 DEF LimiterInv, CallsOf
        <4>2. CounterStands(k)'
          BY <3>1, <4>1 DEF KeyInv, CounterStands, WindowOf, Window
        <4>3. \A i \in CallsOf(k) : Judged(k, i)' /\ FilledFirst(k, i)'
          BY <3>1, <4>1, OldCallsStand DEF KeyInv
        <4> QED BY <4>1, <4>2, <4>3 DEF KeyInv
      <3> QED BY <3>1, <3>2 DEF LimiterInv, TypeOK
    <2> QED BY <2>1, <2>2, <2>3, <2>4 DEF Next
  <1> QED BY <1>1, <1>2, PTL DEF Spec

------------------------------------------------------------------------------
\* Every variable keeps its type.
THEOREM LimiterTypeHolds == Spec => []TypeOK
  BY LimiterInvHolds, PTL DEF LimiterInv

\* Whoever is let in is one of the first calls let in in its window, as many as
\* the limit it came with.
THEOREM WindowBoundedHolds == Spec => []WindowBounded
  <1>1. LimiterInv => WindowBounded
    <2> SUFFICES ASSUME LimiterInv, NEW k \in Keys, NEW i \in CallsOf(k), calls[k][i].allowed
                 PROVE  Cardinality(LetIn(k, i)) <= calls[k][i].limit
      BY DEF WindowBounded
    <2>1. Judged(k, i) /\ TypeOK
      BY DEF LimiterInv, KeyInv
    <2>2. i \in Nat /\ calls[k][i].limit \in Int
      BY <2>1, CallType
    <2>3. Cardinality(InWindow(k, i)) <= calls[k][i].limit
      BY <2>1 DEF Judged
    <2> QED BY <2>2, <2>3, CallsFinite
  <1> QED BY <1>1, LimiterInvHolds, PTL

\* The calls let in before one of a window are let in before every later one.
LEMMA LetInGrows ==
  ASSUME TypeOK, NEW k \in Keys, NEW i \in CallsOf(k), NEW f \in InWindow(k, i)
  PROVE  LetIn(k, f) \subseteq LetIn(k, i) /\ Cardinality(LetIn(k, f)) <= Cardinality(LetIn(k, i))
  <1>1. i \in Nat /\ f \in 1..i
    BY CallType DEF InWindow
  <1>2. LetIn(k, f) \subseteq LetIn(k, i)
    BY <1>1 DEF LetIn, InWindow
  <1>3. IsFiniteSet(LetIn(k, i))
    BY <1>1, CallsFinite
  <1> QED BY <1>2, <1>3, FS_Subset

\* A call is refused in a window that as many calls were let in before as it was
\* limited to, or that has refused one under a lower limit.
THEOREM RefusedOnlyWhenFullHolds == Spec => []RefusedOnlyWhenFull
  <1>1. LimiterInv => RefusedOnlyWhenFull
    <2> SUFFICES ASSUME LimiterInv, NEW k \in Keys, NEW i \in CallsOf(k), ~calls[k][i].allowed
                 PROVE  \/ Cardinality(LetIn(k, i)) >= calls[k][i].limit
                        \/ \E j \in InWindow(k, i) :
                             ~calls[k][j].allowed /\ calls[k][j].limit < calls[k][i].limit
      BY DEF RefusedOnlyWhenFull
    <2>1. FilledFirst(k, i) /\ TypeOK
      BY DEF LimiterInv, KeyInv
    <2>2. PICK f \in InWindow(k, i) : FullAt(k, f)
      BY <2>1 DEF FilledFirst
    <2>3. i \in Nat /\ f \in CallsOf(k) /\ f \in Nat
      BY <2>1, CallType DEF InWindow
    <2>4. calls[k][i].limit \in Int /\ calls[k][f].limit \in Int
      BY <2>1, <2>3, CallType
    <2>5. Cardinality(LetIn(k, f)) <= Cardinality(LetIn(k, i))
      BY <2>1, LetInGrows
    <2>6. Cardinality(LetIn(k, f)) \in Nat /\ Cardinality(LetIn(k, i)) \in Nat
      BY <2>3, CallsFinite
    <2>7. ~calls[k][f].allowed /\ Cardinality(LetIn(k, f)) >= calls[k][f].limit
      BY <2>2 DEF FullAt
    <2> QED BY <2>4, <2>5, <2>6, <2>7
  <1> QED BY <1>1, LimiterInvHolds, PTL

\* Who comes back after the time it was told and is refused again, although its
\* limit lets calls in, finds a call of a new window before it that was let
\* in or had a limit of none.
THEOREM RetryAfterHonouredHolds == Spec => []RetryAfterHonoured
  <1>1. LimiterInv => RetryAfterHonoured
    <2> SUFFICES ASSUME LimiterInv, NEW k \in Keys, NEW i \in CallsOf(k), NEW j \in CallsOf(k),
                        ~calls[k][i].allowed, ~calls[k][j].allowed, calls[k][j].limit > 0,
                        calls[k][i].at + calls[k][i].retry * Second <= calls[k][j].at
                 PROVE  \E m \in 1..(j - 1) :
                          /\ calls[k][m].at > calls[k][i].at
                          /\ calls[k][m].allowed \/ calls[k][m].limit <= 0
      BY DEF RetryAfterHonoured
    <2>1. TypeOK /\ Judged(k, i) /\ FilledFirst(k, j)
      BY DEF LimiterInv, KeyInv
    <2> DEFINE t == calls[k][i].at
               u == calls[k][j].at
    <2>2. t \in Nat /\ u \in Nat /\ WindowOf(t) \in Nat /\ WindowOf(u) \in Nat /\ j \in Nat
      BY <2>1, CallType
    <2>3. WindowOf(t) < WindowOf(u)
      <3>1. (WindowOf(t) + 1) * Window <= t + calls[k][i].retry * Second
        BY <2>1 DEF Judged
      <3>2. calls[k][i].retry \in Nat /\ Second \in Nat /\ Window \in Nat
        BY <2>1, CallType, LimiterAssumption DEF Window
      <3>3. (WindowOf(t) + 1) * Window <= u
        BY <2>2, <3>1, <3>2
      <3> QED BY <2>2, <3>3, LaterWindow
    <2>4. PICK f \in InWindow(k, j) : FullAt(k, f)
      BY <2>1 DEF FilledFirst
    <2>5. f \in 1..j /\ f \in CallsOf(k) /\ f \in Nat /\ calls[k][f].limit \in Int
      BY <2>1, <2>4, CallType DEF InWindow
    <2>6. \A m \in InWindow(k, j) : calls[k][m].at > t
      <3> SUFFICES ASSUME NEW m \in InWindow(k, j) PROVE calls[k][m].at > t
        OBVIOUS
      <3>1. m \in CallsOf(k) /\ WindowOf(calls[k][m].at) = WindowOf(u)
        BY <2>1, CallType DEF InWindow
      <3>2. calls[k][m].at \in Nat
        BY <2>1, <3>1, CallType
      <3> QED BY <2>2, <2>3, <3>1, <3>2, WindowsMonotone
    <2>7. CASE calls[k][f].limit <= 0
      <3>1. f # j
        BY <2>5, <2>7
      <3>2. f \in 1..(j - 1)
        BY <2>2, <2>5, <3>1
      <3> QED BY <2>4, <2>6, <2>7, <3>2
    <2>8. CASE ~(calls[k][f].limit <= 0)
      <3>1. ~calls[k][f].allowed /\ Cardinality(LetIn(k, f)) >= calls[k][f].limit
        BY <2>4 DEF FullAt
      <3>2. LetIn(k, f) # {}
        <4>1. Cardinality(LetIn(k, f)) \in Nat
          BY <2>5, CallsFinite
        <4>2. Cardinality(LetIn(k, f)) # 0
          BY <2>5, <2>8, <3>1, <4>1
        <4> QED BY <4>2, FS_EmptySet
      <3>3. PICK m \in LetIn(k, f) : TRUE
        BY <3>2
      <3>4. m \in 1..f /\ calls[k][m].allowed /\ m # f
        BY <3>1, <3>3 DEF LetIn, InWindow
      <3>5. m \in InWindow(k, j)
        BY <2>1, <2>4, <3>3, LetInGrows DEF LetIn
      <3>6. m \in 1..(j - 1)
        BY <2>2, <2>5, <3>4
      <3> QED BY <2>6, <3>4, <3>5, <3>6
    <2> QED BY <2>7, <2>8
  <1> QED BY <1>1, LimiterInvHolds, PTL
==============================================================================

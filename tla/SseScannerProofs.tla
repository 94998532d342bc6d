-------------------------- MODULE SseScannerProofs ---------------------------
(****************************************************************************)
(* What the scanner sees is proved for streams and chunks of every length.  *)
(* The arguments run over the positions of the stream and the rounds of     *)
(* feed: induction is made from the least element of a set of naturals.     *)
(****************************************************************************)
EXTENDS SseScanner, Integers, FiniteSets, SequenceTheorems, FiniteSetTheorems,
        WellFoundedInduction, TLAPS

------------------------------------------------------------------------------
(* Induction and recursion over the naturals *)

\* A set of naturals that is not empty has a least element.
LEMMA LeastElement ==
  ASSUME NEW T, T \subseteq Nat, T # {}
  PROVE  \E m \in T : \A n \in T : m <= n
PROOF
  <1> DEFINE R == OpToRel(<, Nat)
  <1>1. IsWellFoundedOn(R, Nat)
    BY NatLessThanWellFounded
  <1>2. \A n, m \in Nat : << n, m >> \in R <=> n < m
    BY DEF OpToRel
  <1> HIDE DEF R
  <1>3. PICK m \in T : \A n \in T : << n, m >> \notin R
    BY <1>1, WFMin
  <1>4. \A n \in T : ~(n < m)
    BY <1>2, <1>3
  <1> QED BY <1>4

\* A set with 0 and the successor of each of its naturals has all of them.
LEMMA SetInduction ==
  ASSUME NEW S, 0 \in S, \A n \in Nat : n \in S => n + 1 \in S
  PROVE  Nat \subseteq S
PROOF
  <1> DEFINE T == Nat \ S
  <1>1. SUFFICES ASSUME T # {} PROVE FALSE
    OBVIOUS
  <1>2. PICK m \in T : \A n \in T : m <= n
    BY <1>1, LeastElement
  <1>3. m # 0 /\ m \in Nat
    OBVIOUS
  <1>4. m - 1 \in Nat /\ m - 1 \notin T
    BY <1>2, <1>3
  <1> QED BY <1>3, <1>4

\* A function g on i \in 0..n that starts at s and follows the step G.
Follows(G, s, g, n) ==
  /\ g[0] = s
  /\ \A i \in Nat : i < n => g[i + 1] = G[i + 1][g[i]]

\* Two such functions agree where both are defined.
LEMMA FollowsUnique ==
  ASSUME NEW G, NEW s, NEW g, NEW h, NEW n \in Nat, NEW m \in Nat,
         Follows(G, s, g, n), Follows(G, s, h, m), n <= m
  PROVE  \A i \in 0..n : g[i] = h[i]
PROOF
  <1> DEFINE S == { i \in Nat : i <= n => g[i] = h[i] }
  <1>1. 0 \in S
    BY DEF Follows
  <1>2. ASSUME NEW i \in Nat, i \in S PROVE i + 1 \in S
    <2>1. SUFFICES ASSUME i + 1 <= n PROVE g[i + 1] = h[i + 1]
      OBVIOUS
    <2>2. i < n /\ i < m /\ g[i] = h[i]
      BY <1>2, <2>1
    <2> QED BY <2>2 DEF Follows
  <1> HIDE DEF S
  <1>3. Nat \subseteq S
    BY <1>1, <1>2, SetInduction
  <1> QED BY <1>3 DEF S

\* f takes the step G from each natural to the next.
Unfolds(G, s, f) == f[0] = s /\ \A n \in Nat : n # 0 => f[n] = G[n][f[n - 1]]

\* A step on a set D defines a sequence of values of D from any start.
LEMMA Recursion ==
  ASSUME NEW D, NEW s \in D, NEW G \in [Nat -> [D -> D]]
  PROVE  \E f \in [Nat -> D] : Unfolds(G, s, f)
PROOF
  <1> DEFINE S == { n \in Nat : \E g \in [Nat -> D] : Follows(G, s, g, n) }
  <1>1. 0 \in S
    <2>1. [i \in Nat |-> s] \in [Nat -> D] /\ Follows(G, s, [i \in Nat |-> s], 0)
      BY DEF Follows
    <2> QED BY <2>1
  <1>2. ASSUME NEW n \in Nat, n \in S PROVE n + 1 \in S
    <2>1. PICK g \in [Nat -> D] : Follows(G, s, g, n)
      BY <1>2
    <2> DEFINE h == [i \in Nat |-> IF i = n + 1 THEN G[n + 1][g[n]] ELSE g[i]]
    <2>2. h \in [Nat -> D]
      OBVIOUS
    <2>3. Follows(G, s, h, n + 1)
      <3>1. h[0] = s
        BY <2>1 DEF Follows
      <3>2. ASSUME NEW i \in Nat, i < n + 1 PROVE h[i + 1] = G[i + 1][h[i]]
        <4>1. CASE i = n
          BY <4>1
        <4>2. CASE i # n
          BY <2>1, <3>2, <4>2 DEF Follows
        <4> QED BY <4>1, <4>2
      <3> QED BY <3>1, <3>2 DEF Follows
    <2> QED BY <2>2, <2>3
  <1> DEFINE near(n) == CHOOSE g \in [Nat -> D] : Follows(G, s, g, n)
             f == [n \in Nat |-> near(n)[n]]
  <1>3. \A n \in Nat : n \in S
    <2> HIDE DEF S
    <2> QED BY <1>1, <1>2, SetInduction
  <1>4. \A n \in Nat : near(n) \in [Nat -> D] /\ Follows(G, s, near(n), n)
    BY <1>3
  <1> HIDE DEF S, near
  <1>5. f \in [Nat -> D] /\ f[0] = s
    BY <1>4 DEF Follows
  <1>6. ASSUME NEW n \in Nat, n # 0 PROVE f[n] = G[n][f[n - 1]]
    <2>1. n - 1 \in Nat /\ n - 1 <= n /\ (n - 1) + 1 = n
      BY <1>6
    <2>2. \A i \in 0..(n - 1) : near(n - 1)[i] = near(n)[i]
      BY <1>4, <2>1, FollowsUnique
    <2>3. near(n)[n] = G[n][near(n)[n - 1]]
      BY <1>4, <2>1 DEF Follows
    <2> QED BY <2>1, <2>2, <2>3
  <1>7. Unfolds(G, s, f)
    <2> HIDE DEF f
    <2> QED BY <1>5, <1>6 DEF Unfolds
  <1> QED BY <1>5, <1>7

------------------------------------------------------------------------------
(* Types, and the two recursive functions of the model *)

Seen == [events : Nat, done : BOOLEAN, usage : Usages \cup {"none"}, broken : BOOLEAN]

Scanner == [carry : Seq(Tokens), seen : Seen]

\* Whatever the line, a report stays a report.
LEMMA SeeLineType ==
  ASSUME NEW s \in Seen, NEW l
  PROVE  SeeLine(s, l) \in Seen
PROOF
  <1>1. CASE s.broken \/ ~IsData(l)
    BY <1>1 DEF SeeLine
  <1>2. CASE ~(s.broken \/ ~IsData(l)) /\ l = <<"done">>
    BY <1>2 DEF SeeLine, Seen
  <1>3. CASE ~(s.broken \/ ~IsData(l)) /\ l # <<"done">>
    <2> DEFINE u == IF Len(l) = 1 /\ l[1] \in Usages THEN l[1] ELSE s.usage
               b == l = <<"odd">>
    <2>1. u \in Usages \cup {"none"}
      BY DEF Seen
    <2>2. SeeLine(s, l) = [s EXCEPT !.events = @ + 1, !.usage = u, !.broken = b]
      BY <1>3 DEF SeeLine
    <2>3. b \in BOOLEAN
      OBVIOUS
    <2> HIDE DEF u, b
    <2>4. SeeLine(s, l) =
            [events |-> s.events + 1, done |-> s.done, usage |-> u, broken |-> b]
      BY <2>2 DEF Seen
    <2>5. s.events + 1 \in Nat /\ s.done \in BOOLEAN
      BY DEF Seen
    <2> QED BY <2>1, <2>3, <2>4, <2>5 DEF Seen
  <1> QED BY <1>1, <1>2, <1>3

\* The recursion of Seeing: from s, a line at a time.
LEMMA SeeingSteps ==
  ASSUME NEW s \in Seen, NEW e
  PROVE  /\ Seeing(s, e) \in [Nat -> Seen]
         /\ Seeing(s, e)[0] = s
         /\ \A i \in Nat \ {0} :
              Seeing(s, e)[i] =
                IF i = 1 \/ e[i - 1] = "LF"
                THEN SeeLine(Seeing(s, e)[i - 1], Line(e, i))
                ELSE Seeing(s, e)[i - 1]
PROOF
  <1> DEFINE step(i, a) == IF i = 1 \/ e[i - 1] = "LF" THEN SeeLine(a, Line(e, i)) ELSE a
             G == [i \in Nat |-> [a \in Seen |-> step(i, a)]]
  <1>1. G \in [Nat -> [Seen -> Seen]]
    BY SeeLineType
  <1>2. \A i \in Nat, a \in Seen : G[i][a] = step(i, a)
    OBVIOUS
  <1> HIDE DEF G
  <1>3. PICK f \in [Nat -> Seen] : Unfolds(G, s, f)
    BY <1>1, Recursion
  <1> DEFINE rec(g) == [n \in Nat |-> IF n = 0 THEN s ELSE step(n, g[n - 1])]
             h == CHOOSE g : g = rec(g)
  <1>4. f = rec(f)
    <2>1. \A n \in Nat : n # 0 => n - 1 \in Nat /\ f[n - 1] \in Seen
      BY <1>3
    <2>2. \A n \in Nat : n # 0 => f[n] = step(n, f[n - 1])
      <3> HIDE DEF step
      <3> QED BY <1>2, <1>3, <2>1 DEF Unfolds
    <2> HIDE DEF step
    <2> QED BY <1>3, <2>2 DEF Unfolds
  <1>5. h = rec(h)
    <2> HIDE DEF rec
    <2> QED BY <1>4
  <1>6. Seeing(s, e) = h
    BY DEF Seeing
  <1> HIDE DEF h
  <1>7. h[0] = s /\ \A n \in Nat : n # 0 => h[n] = step(n, h[n - 1])
    <2> HIDE DEF step
    <2> QED BY <1>5
  <1>8. \A n \in Nat : h[n] \in Seen
    <2> DEFINE S == { n \in Nat : h[n] \in Seen }
    <2>1. 0 \in S
      BY <1>7
    <2>2. ASSUME NEW n \in Nat, n \in S PROVE n + 1 \in S
      BY <1>7, <2>2, SeeLineType
    <2> HIDE DEF S
    <2>3. Nat \subseteq S
      BY <2>1, <2>2, SetInduction
    <2> QED BY <2>3 DEF S
  <1>9. h \in [Nat -> Seen]
    BY <1>5, <1>8
  <1> QED BY <1>6, <1>7, <1>9

------------------------------------------------------------------------------
(* The delimiters of a carry *)

\* LF LF, or CR LF CR LF, at i.
LfCut(c, i) ==
  i \in 1..Len(c) /\ i + 1 <= Len(c) /\ c[i] = "LF" /\ c[i + 1] = "LF"

CrLfCut(c, i) ==
  /\ i \in 1..Len(c) /\ i + 3 <= Len(c)
  /\ c[i] = "CR" /\ c[i + 1] = "LF" /\ c[i + 2] = "CR" /\ c[i + 3] = "LF"

\* What find looks for, written out.
LEMMA StartingIs ==
  ASSUME NEW c \in Seq(Tokens), NEW i
  PROVE  /\ i \in Starting(c, <<"LF", "LF">>) <=> LfCut(c, i)
         /\ i \in Starting(c, <<"CR", "LF", "CR", "LF">>) <=> CrLfCut(c, i)
PROOF
  <1>1. Len(c) \in Nat
    OBVIOUS
  <1>2. ASSUME i \in 1..Len(c)
        PROVE  i \in Starting(c, <<"LF", "LF">>) <=> LfCut(c, i)
    <2> DEFINE d == <<"LF", "LF">>
    <2>1. Len(d) = 2 /\ 1..Len(d) = {1, 2} /\ d[1] = "LF" /\ d[2] = "LF"
      OBVIOUS
    <2>2. i \in Int /\ i + 1 - 1 = i /\ i + 2 - 1 = i + 1
      BY <1>1, <1>2
    <2> HIDE DEF d
    <2>3. i \in Starting(c, d) <=> i + 2 <= Len(c) + 1 /\ c[i] = "LF" /\ c[i + 1] = "LF"
      BY <1>2, <2>1, <2>2 DEF Starting
    <2> QED BY <1>1, <1>2, <2>2, <2>3 DEF LfCut, d
  <1>3. ASSUME i \in 1..Len(c)
        PROVE  i \in Starting(c, <<"CR", "LF", "CR", "LF">>) <=> CrLfCut(c, i)
    <2> DEFINE d == <<"CR", "LF", "CR", "LF">>
    <2>1. /\ Len(d) = 4 /\ 1..Len(d) = {1, 2, 3, 4}
          /\ d[1] = "CR" /\ d[2] = "LF" /\ d[3] = "CR" /\ d[4] = "LF"
      OBVIOUS
    <2>2. /\ i \in Int /\ i + 1 - 1 = i /\ i + 2 - 1 = i + 1
          /\ i + 3 - 1 = i + 2 /\ i + 4 - 1 = i + 3
      BY <1>1, <1>3
    <2> HIDE DEF d
    <2>3. i \in Starting(c, d) <=>
            /\ i + 4 <= Len(c) + 1
            /\ c[i] = "CR" /\ c[i + 1] = "LF" /\ c[i + 2] = "CR" /\ c[i + 3] = "LF"
      BY <1>3, <2>1, <2>2 DEF Starting
    <2> QED BY <1>1, <1>3, <2>2, <2>3 DEF CrLfCut, d
  <1>4. ASSUME i \notin 1..Len(c)
        PROVE  i \notin Starting(c, <<"LF", "LF">>) /\ ~LfCut(c, i)
               /\ i \notin Starting(c, <<"CR", "LF", "CR", "LF">>) /\ ~CrLfCut(c, i)
    BY <1>4 DEF Starting, LfCut, CrLfCut
  <1> QED BY <1>2, <1>3, <1>4

LEMMA CutsAre ==
  ASSUME NEW c \in Seq(Tokens), NEW x
  PROVE  x \in Cuts(c) <=>
           \/ \E i \in Nat : x = [at |-> i, len |-> 2] /\ LfCut(c, i)
           \/ \E i \in Nat : x = [at |-> i, len |-> 4] /\ CrLfCut(c, i)
PROOF
  <1>1. \A i : (LfCut(c, i) => i \in Nat) /\ (CrLfCut(c, i) => i \in Nat)
    BY DEF LfCut, CrLfCut
  <1> QED BY <1>1, StartingIs DEF Cuts

\* A cut lies within the carry.
LEMMA CutType ==
  ASSUME NEW c \in Seq(Tokens), NEW x \in Cuts(c)
  PROVE  /\ x.at \in 1..Len(c) /\ x.len \in {2, 4}
         /\ x.at + x.len <= Len(c) + 1
         /\ x = [at |-> x.at, len |-> x.len]
         /\ x.len = 2 => LfCut(c, x.at)
         /\ x.len = 4 => CrLfCut(c, x.at)
PROOF
  <1>1. CASE \E i \in Nat : x = [at |-> i, len |-> 2] /\ LfCut(c, i)
    BY <1>1 DEF LfCut
  <1>2. CASE \E i \in Nat : x = [at |-> i, len |-> 4] /\ CrLfCut(c, i)
    BY <1>2 DEF CrLfCut
  <1> QED BY <1>1, <1>2, CutsAre

\* The first cut exists, is first, and no other cut is at its place.
LEMMA FirstCutIs ==
  ASSUME NEW c \in Seq(Tokens), Cuts(c) # {}
  PROVE  /\ FirstCut(c) \in Cuts(c)
         /\ \A y \in Cuts(c) : FirstCut(c).at <= y.at
         /\ \A x \in Cuts(c) : (\A y \in Cuts(c) : x.at <= y.at) => x = FirstCut(c)
PROOF
  <1> DEFINE T == { x.at : x \in Cuts(c) }
  <1>1. T \subseteq Nat /\ T # {}
    BY CutType
  <1>2. PICK m \in T : \A n \in T : m <= n
    BY <1>1, LeastElement
  <1>3. \E x \in Cuts(c) : \A y \in Cuts(c) : x.at <= y.at
    BY <1>2
  <1>4. FirstCut(c) \in Cuts(c) /\ \A y \in Cuts(c) : FirstCut(c).at <= y.at
    BY <1>3 DEF FirstCut
  <1>5. ASSUME NEW x \in Cuts(c), \A y \in Cuts(c) : x.at <= y.at
        PROVE  x = FirstCut(c)
    <2> DEFINE f == FirstCut(c)
    <2>1. x.at \in Nat /\ f.at \in Nat /\ x.at <= f.at /\ f.at <= x.at
      BY <1>4, <1>5, CutType
    <2>2. x.at = f.at
      BY <2>1
    <2>3. x.len = f.len
      <3>1. /\ x.len \in {2, 4} /\ f.len \in {2, 4}
            /\ x.len = 2 => LfCut(c, x.at)
            /\ x.len = 4 => CrLfCut(c, x.at)
            /\ f.len = 2 => LfCut(c, x.at)
            /\ f.len = 4 => CrLfCut(c, x.at)
        BY <1>4, <2>2, CutType
      <3>2. ~(LfCut(c, x.at) /\ CrLfCut(c, x.at))
        BY DEF LfCut, CrLfCut
      <3> QED BY <3>1, <3>2
    <2> QED BY <1>4, <2>2, <2>3, CutType
  <1> QED BY <1>4, <1>5

\* What comes after a carry that has a cut does not change its first one: a
\* delimiter that ends later and begins earlier would have to contain it.
LEMMA FirstCutStays ==
  ASSUME NEW c \in Seq(Tokens), NEW d \in Seq(Tokens), Cuts(c) # {}
  PROVE  Cuts(c \o d) # {} /\ FirstCut(c \o d) = FirstCut(c)
PROOF
  <1> DEFINE e == c \o d
             x == FirstCut(c)
  <1>1. /\ e \in Seq(Tokens) /\ Len(e) = Len(c) + Len(d)
        /\ Len(c) \in Nat /\ Len(d) \in Nat
        /\ \A i \in 1..Len(c) : e[i] = c[i]
    BY ConcatProperties
  <1> HIDE DEF e
  <1>2. \A i : (LfCut(c, i) => LfCut(e, i)) /\ (CrLfCut(c, i) => CrLfCut(e, i))
    <2>1. ASSUME NEW i, LfCut(c, i) PROVE LfCut(e, i)
      <3>1. i \in 1..Len(c) /\ i + 1 \in 1..Len(c)
        BY <1>1, <2>1 DEF LfCut
      <3> QED BY <1>1, <2>1, <3>1 DEF LfCut
    <2>2. ASSUME NEW i, CrLfCut(c, i) PROVE CrLfCut(e, i)
      <3>1. /\ i \in 1..Len(c) /\ i + 1 \in 1..Len(c)
            /\ i + 2 \in 1..Len(c) /\ i + 3 \in 1..Len(c)
        BY <1>1, <2>2 DEF CrLfCut
      <3> QED BY <1>1, <2>2, <3>1 DEF CrLfCut
    <2> QED BY <2>1, <2>2
  <1>3. /\ \A i : LfCut(e, i) /\ i + 1 <= Len(c) => LfCut(c, i)
        /\ \A i : CrLfCut(e, i) /\ i + 3 <= Len(c) => CrLfCut(c, i)
    <2>1. ASSUME NEW i, LfCut(e, i), i + 1 <= Len(c) PROVE LfCut(c, i)
      <3>1. i \in 1..Len(c) /\ i + 1 \in 1..Len(c)
        BY <1>1, <2>1 DEF LfCut
      <3> QED BY <1>1, <2>1, <3>1 DEF LfCut
    <2>2. ASSUME NEW i, CrLfCut(e, i), i + 3 <= Len(c) PROVE CrLfCut(c, i)
      <3>1. /\ i \in 1..Len(c) /\ i + 1 \in 1..Len(c)
            /\ i + 2 \in 1..Len(c) /\ i + 3 \in 1..Len(c)
        BY <1>1, <2>2 DEF CrLfCut
      <3> QED BY <1>1, <2>2, <3>1 DEF CrLfCut
    <2> QED BY <2>1, <2>2
  <1>4. x \in Cuts(c) /\ \A y \in Cuts(c) : x.at <= y.at
    BY FirstCutIs
  <1>5. x \in Cuts(e)
    BY <1>1, <1>2, <1>4, CutsAre
  <1>6. ASSUME NEW y \in Cuts(e) PROVE x.at <= y.at
    <2>1. y \in Cuts(c) \/ y.at + y.len > Len(c) + 1
      <3>1. SUFFICES ASSUME y.at + y.len <= Len(c) + 1 PROVE y \in Cuts(c)
        BY <1>1, CutType
      <3>2. /\ y = [at |-> y.at, len |-> y.len] /\ y.at \in Nat /\ y.len \in {2, 4}
            /\ y.len = 2 => LfCut(e, y.at)
            /\ y.len = 4 => CrLfCut(e, y.at)
        BY <1>1, CutType
      <3>3. CASE y.len = 2
        BY <1>1, <1>3, <3>1, <3>2, <3>3, CutsAre
      <3>4. CASE y.len = 4
        BY <1>1, <1>3, <3>1, <3>2, <3>4, CutsAre
      <3> QED BY <3>2, <3>3, <3>4
    <2>2. ASSUME y.at < x.at, y.at + y.len > Len(c) + 1 PROVE FALSE
      <3>1. x.len = 2 /\ y.len = 4 /\ x.at = y.at + 1
        BY <1>1, <1>4, <2>2, CutType
      <3>2. CrLfCut(e, y.at) /\ LfCut(e, y.at + 1)
        BY <1>1, <1>2, <1>4, <3>1, CutType
      <3> QED BY <3>2 DEF CrLfCut, LfCut
    <2> QED BY <1>1, <1>4, <2>1, <2>2, CutType
  <1>7. x = FirstCut(e)
    BY <1>1, <1>5, <1>6, FirstCutIs
  <1> QED BY <1>5, <1>7 DEF e

------------------------------------------------------------------------------
(* The loop of feed *)

Stuck(s) == s.seen.broken \/ Cuts(s.carry) = {}

LEMMA ProcessType ==
  ASSUME NEW s \in Seen, NEW e \in Seq(Tokens)
  PROVE  Process(s, e) \in Seen
BY SeeingSteps DEF Process

\* What a cut leaves before and after it.
LEMMA CutParts ==
  ASSUME NEW c \in Seq(Tokens), NEW x \in Cuts(c)
  PROVE  /\ SubSeq(c, 1, x.at - 1) \in Seq(Tokens)
         /\ Len(SubSeq(c, 1, x.at - 1)) = x.at - 1
         /\ \A i \in 1..(x.at - 1) : SubSeq(c, 1, x.at - 1)[i] = c[i]
         /\ SubSeq(c, x.at + x.len, Len(c)) \in Seq(Tokens)
         /\ Len(SubSeq(c, x.at + x.len, Len(c))) = Len(c) + 1 - (x.at + x.len)
         /\ \A i \in 1..(Len(c) + 1 - (x.at + x.len)) :
              SubSeq(c, x.at + x.len, Len(c))[i] = c[x.at + x.len + i - 1]
PROOF
  <1>1. /\ x.at \in 1..Len(c) /\ x.len \in {2, 4} /\ x.at + x.len <= Len(c) + 1
        /\ Len(c) \in Nat /\ \A i \in 1..Len(c) : c[i] \in Tokens
    BY CutType, LenProperties, ElementOfSeq
  <1> DEFINE n == x.at - 1
             m == x.at + x.len
  <1>2. n \in Nat /\ n <= Len(c) /\ m \in Nat /\ m >= 1 /\ m <= Len(c) + 1
    BY <1>1
  <1>3. n - 1 + 1 = n /\ (\A i \in 1..n : 1 + i - 1 = i)
    BY <1>2
  <1> HIDE DEF n, m
  <1>4. /\ SubSeq(c, 1, n) \in Seq(Tokens)
        /\ Len(SubSeq(c, 1, n)) = IF 1 <= n THEN n - 1 + 1 ELSE 0
        /\ \A i \in 1..(n - 1 + 1) : SubSeq(c, 1, n)[i] = c[1 + i - 1]
    <2>1. \A i \in 1..n : c[i] \in Tokens
      BY <1>1, <1>2
    <2> QED BY <1>2, <2>1, SubSeqProperties
  <1>5. /\ SubSeq(c, m, Len(c)) \in Seq(Tokens)
        /\ Len(SubSeq(c, m, Len(c))) = IF m <= Len(c) THEN Len(c) - m + 1 ELSE 0
        /\ \A i \in 1..(Len(c) - m + 1) : SubSeq(c, m, Len(c))[i] = c[m + i - 1]
    <2>1. \A i \in m..Len(c) : c[i] \in Tokens
      BY <1>1, <1>2
    <2> QED BY <1>1, <1>2, <2>1, SubSeqProperties
  <1>6. /\ SubSeq(c, 1, n) \in Seq(Tokens) /\ Len(SubSeq(c, 1, n)) = n
        /\ \A i \in 1..n : SubSeq(c, 1, n)[i] = c[i]
    BY <1>2, <1>3, <1>4
  <1>7. /\ Len(SubSeq(c, m, Len(c))) = Len(c) + 1 - m
        /\ \A i \in 1..(Len(c) + 1 - m) : SubSeq(c, m, Len(c))[i] = c[m + i - 1]
    BY <1>1, <1>2, <1>5
  <1> QED BY <1>5, <1>6, <1>7 DEF n, m

\* A round of the loop keeps the types, and cuts unless the scanner is stuck.
LEMMA CutOneIs ==
  ASSUME NEW s \in Scanner
  PROVE  /\ CutOne(s) \in Scanner
         /\ Stuck(s) => CutOne(s) = s
         /\ ~Stuck(s) => Len(CutOne(s).carry) < Len(s.carry)
PROOF
  <1>1. s.carry \in Seq(Tokens) /\ s.seen \in Seen /\ Len(s.carry) \in Nat
    BY DEF Scanner
  <1>2. CASE Stuck(s)
    BY <1>2 DEF Stuck, CutOne
  <1>3. CASE ~Stuck(s)
    <2> DEFINE x == FirstCut(s.carry)
    <2>1. x \in Cuts(s.carry)
      BY <1>1, <1>3, FirstCutIs DEF Stuck
    <2>2. CutOne(s) =
            [carry |-> SubSeq(s.carry, x.at + x.len, Len(s.carry)),
             seen |-> Process(s.seen, SubSeq(s.carry, 1, x.at - 1))]
      BY <1>3 DEF Stuck, CutOne
    <2> DEFINE e == SubSeq(s.carry, 1, x.at - 1)
               r == SubSeq(s.carry, x.at + x.len, Len(s.carry))
    <2>3. e \in Seq(Tokens) /\ r \in Seq(Tokens) /\ Len(r) = Len(s.carry) + 1 - (x.at + x.len)
      <3> HIDE DEF x
      <3> QED BY <1>1, <2>1, CutParts
    <2>4. x.at \in 1..Len(s.carry) /\ x.len \in {2, 4}
      <3> HIDE DEF x
      <3> QED BY <1>1, <2>1, CutType
    <2>5. CutOne(s) = [carry |-> r, seen |-> Process(s.seen, e)]
      BY <2>2
    <2> HIDE DEF x, e, r
    <2>6. CutOne(s) \in Scanner
      BY <1>1, <2>3, <2>5, ProcessType DEF Scanner
    <2>7. Len(CutOne(s).carry) < Len(s.carry)
      BY <1>1, <2>3, <2>4, <2>5
    <2> QED BY <1>3, <2>6, <2>7
  <1> QED BY <1>2, <1>3

\* The recursion of Cutting: from s, a round at a time.
LEMMA CuttingSteps ==
  ASSUME NEW s \in Scanner
  PROVE  /\ Cutting(s) \in [Nat -> Scanner]
         /\ Cutting(s)[0] = s
         /\ \A n \in Nat : Cutting(s)[n + 1] = CutOne(Cutting(s)[n])
PROOF
  <1> DEFINE G == [i \in Nat |-> [a \in Scanner |-> CutOne(a)]]
  <1>1. G \in [Nat -> [Scanner -> Scanner]]
    BY CutOneIs
  <1>2. \A i \in Nat, a \in Scanner : G[i][a] = CutOne(a)
    OBVIOUS
  <1> HIDE DEF G
  <1>3. PICK f \in [Nat -> Scanner] : Unfolds(G, s, f)
    BY <1>1, Recursion
  <1> DEFINE rec(g) == [n \in Nat |-> IF n = 0 THEN s ELSE CutOne(g[n - 1])]
             h == CHOOSE g : g = rec(g)
  <1>4. f = rec(f)
    <2>1. \A n \in Nat : n # 0 => n - 1 \in Nat /\ f[n - 1] \in Scanner
      BY <1>3
    <2>2. \A n \in Nat : n # 0 => f[n] = CutOne(f[n - 1])
      BY <1>2, <1>3, <2>1 DEF Unfolds
    <2> QED BY <1>3, <2>2 DEF Unfolds
  <1>5. h = rec(h)
    <2> HIDE DEF rec
    <2> QED BY <1>4
  <1>6. Cutting(s) = h
    BY DEF Cutting
  <1> HIDE DEF h
  <1>7. h[0] = s /\ \A n \in Nat : h[n + 1] = CutOne(h[n])
    <2>1. h[0] = s /\ \A n \in Nat : n # 0 => h[n] = CutOne(h[n - 1])
      BY <1>5
    <2>2. \A n \in Nat : n + 1 \in Nat /\ n + 1 # 0 /\ (n + 1) - 1 = n
      OBVIOUS
    <2> QED BY <2>1, <2>2
  <1>8. \A n \in Nat : h[n] \in Scanner
    <2> DEFINE S == { n \in Nat : h[n] \in Scanner }
    <2>1. 0 \in S
      BY <1>7
    <2>2. ASSUME NEW n \in Nat, n \in S PROVE n + 1 \in S
      BY <1>7, <2>2, CutOneIs
    <2> HIDE DEF S
    <2>3. Nat \subseteq S
      BY <2>1, <2>2, SetInduction
    <2> QED BY <2>3 DEF S
  <1>9. h \in [Nat -> Scanner]
    BY <1>5, <1>8
  <1> QED BY <1>6, <1>7, <1>9

\* The loop has ended after as many rounds as the carry is long.
LEMMA CuttingEnds ==
  ASSUME NEW s \in Scanner
  PROVE  /\ Drain(s) \in Scanner /\ Stuck(Drain(s))
         /\ \A n \in Nat : n >= Len(s.carry) => Cutting(s)[n] = Drain(s)
PROOF
  <1> DEFINE C == Cutting(s)
             L == Len(s.carry)
  <1>1. L \in Nat /\ Drain(s) = C[L]
    BY DEF Scanner, Drain
  <1>2. C \in [Nat -> Scanner] /\ C[0] = s /\ \A n \in Nat : C[n + 1] = CutOne(C[n])
    BY CuttingSteps
  <1>3. \A n \in Nat : Len(C[n].carry) \in Nat
    BY <1>2 DEF Scanner
  <1>4. \A n \in Nat : Stuck(C[n]) \/ Len(C[n].carry) + n <= L
    <2> DEFINE S == { n \in Nat : Stuck(C[n]) \/ Len(C[n].carry) + n <= L }
    <2>1. 0 \in S
      BY <1>1, <1>2
    <2> HIDE DEF C, L
    <2>2. ASSUME NEW n \in Nat, n \in S PROVE n + 1 \in S
      <3>1. C[n] \in Scanner /\ C[n + 1] = CutOne(C[n])
        BY <1>2
      <3>2. CASE Stuck(C[n])
        BY <3>1, <3>2, CutOneIs
      <3>3. CASE ~Stuck(C[n])
        BY <1>1, <1>3, <2>2, <3>1, <3>3, CutOneIs
      <3> QED BY <3>2, <3>3
    <2> HIDE DEF S
    <2>3. Nat \subseteq S
      BY <2>1, <2>2, SetInduction
    <2> QED BY <2>3 DEF S
  <1> HIDE DEF C, L
  <1>5. Stuck(C[L]) /\ C[L] \in Scanner
    <2>1. SUFFICES ASSUME ~Stuck(C[L]) PROVE FALSE
      BY <1>1, <1>2
    <2>2. C[L].carry \in Seq(Tokens) /\ Len(C[L].carry) = 0
      BY <1>1, <1>2, <1>3, <1>4, <2>1 DEF Scanner
    <2>3. PICK x : x \in Cuts(C[L].carry)
      BY <2>1 DEF Stuck
    <2> QED BY <2>2, <2>3, CutType
  <1>6. \A k \in Nat : C[L + k] = C[L]
    <2> DEFINE S == { k \in Nat : C[L + k] = C[L] }
    <2>1. 0 \in S
      BY <1>1
    <2>2. ASSUME NEW k \in Nat, k \in S PROVE k + 1 \in S
      <3>1. L + k \in Nat /\ L + (k + 1) = (L + k) + 1 /\ C[L + k] = C[L]
        BY <1>1, <2>2
      <3>2. C[L + (k + 1)] = CutOne(C[L])
        BY <1>2, <3>1
      <3> QED BY <1>5, <3>2, CutOneIs
    <2> HIDE DEF S
    <2>3. Nat \subseteq S
      BY <2>1, <2>2, SetInduction
    <2> QED BY <2>3 DEF S
  <1>7. \A n \in Nat : n >= L => C[n] = C[L]
    <2>1. \A n \in Nat : n >= L => n - L \in Nat /\ L + (n - L) = n
      BY <1>1
    <2> QED BY <1>6, <2>1
  <1> QED BY <1>1, <1>5, <1>7 DEF C, L

\* The loop as a while loop: it stops when stuck, and otherwise goes on after
\* a round.
LEMMA DrainIs ==
  ASSUME NEW s \in Scanner
  PROVE  /\ Stuck(s) => Drain(s) = s
         /\ ~Stuck(s) => Drain(s) = Drain(CutOne(s))
PROOF
  <1> DEFINE C == Cutting(s)
             L == Len(s.carry)
  <1>1. L \in Nat /\ Drain(s) = C[L]
    BY DEF Scanner, Drain
  <1>2. C \in [Nat -> Scanner] /\ C[0] = s /\ \A n \in Nat : C[n + 1] = CutOne(C[n])
    BY CuttingSteps
  <1>3. \A n \in Nat : n >= L => C[n] = Drain(s)
    BY CuttingEnds
  <1> HIDE DEF C, L
  <1>4. ASSUME Stuck(s) PROVE Drain(s) = s
    <2> DEFINE S == { n \in Nat : C[n] = s }
    <2>1. 0 \in S
      BY <1>2
    <2>2. ASSUME NEW n \in Nat, n \in S PROVE n + 1 \in S
      BY <1>2, <1>4, <2>2, CutOneIs
    <2> HIDE DEF S
    <2>3. Nat \subseteq S
      BY <2>1, <2>2, SetInduction
    <2> QED BY <1>1, <2>3 DEF S
  <1>5. ASSUME ~Stuck(s) PROVE Drain(s) = Drain(CutOne(s))
    <2> DEFINE t == CutOne(s)
               B == Cutting(t)
    <2>1. t \in Scanner /\ Len(t.carry) < L /\ Len(t.carry) \in Nat
      BY <1>5, CutOneIs DEF L, Scanner
    <2> HIDE DEF t
    <2>2. B[0] = t /\ \A n \in Nat : B[n + 1] = CutOne(B[n])
      BY <2>1, CuttingSteps
    <2>3. B[L] = Drain(t)
      BY <1>1, <2>1, CuttingEnds
    <2> HIDE DEF B
    <2>4. \A n \in Nat : B[n] = C[n + 1]
      <3> DEFINE S == { n \in Nat : B[n] = C[n + 1] }
      <3>1. 0 \in S
        BY <1>2, <2>2 DEF t
      <3>2. ASSUME NEW n \in Nat, n \in S PROVE n + 1 \in S
        BY <1>2, <2>2, <3>2
      <3> HIDE DEF S
      <3>3. Nat \subseteq S
        BY <3>1, <3>2, SetInduction
      <3> QED BY <3>3 DEF S
    <2>5. C[L + 1] = Drain(s)
      BY <1>1, <1>3
    <2> QED BY <1>1, <2>3, <2>4, <2>5 DEF t
  <1> QED BY <1>4, <1>5

------------------------------------------------------------------------------
(* Chunks do not matter *)

Joined(s, d) == [s EXCEPT !.carry = @ \o d]

LEMMA JoinedIs ==
  ASSUME NEW s \in Scanner, NEW d
  PROVE  Joined(s, d) = [carry |-> s.carry \o d, seen |-> s.seen]
PROOF
  <1>1. PICK c \in Seq(Tokens), n \in Seen : s = [carry |-> c, seen |-> n]
    BY DEF Scanner
  <1>2. s.carry = c /\ s.seen = n
    BY <1>1
  <1> DEFINE w == c \o d
  <1> HIDE DEF w
  <1>3. [s EXCEPT !.carry = w] = [carry |-> w, seen |-> n]
    BY <1>1
  <1> QED BY <1>2, <1>3 DEF Joined, w

\* A round does the same with more at the end of the carry, and keeps it there.
LEMMA CutOneJoins ==
  ASSUME NEW s \in Scanner, NEW d \in Seq(Tokens), ~Stuck(s)
  PROVE  ~Stuck(Joined(s, d)) /\ CutOne(Joined(s, d)) = Joined(CutOne(s), d)
PROOF
  <1> DEFINE c == s.carry
             e == c \o d
             x == FirstCut(c)
  <1>1. c \in Seq(Tokens) /\ s = [carry |-> c, seen |-> s.seen] /\ ~s.seen.broken /\ Cuts(c) # {}
    BY DEF Scanner, Stuck
  <1>2. Joined(s, d) = [carry |-> e, seen |-> s.seen]
    BY JoinedIs
  <1> HIDE DEF c
  <1>3. Cuts(e) # {} /\ FirstCut(e) = x /\ x \in Cuts(c) /\ x \in Cuts(e)
    BY <1>1, FirstCutStays, FirstCutIs, ConcatProperties
  <1>4. /\ e \in Seq(Tokens) /\ Len(e) = Len(c) + Len(d)
        /\ Len(c) \in Nat /\ Len(d) \in Nat
        /\ \A i \in 1..(Len(c) + Len(d)) : e[i] = IF i <= Len(c) THEN c[i] ELSE d[i - Len(c)]
    BY <1>1, ConcatProperties
  <1> DEFINE before == SubSeq(c, 1, x.at - 1)
             rest == SubSeq(c, x.at + x.len, Len(c))
  <1>5. /\ x.at \in 1..Len(c) /\ x.len \in {2, 4} /\ x.at + x.len <= Len(c) + 1
    BY <1>1, <1>3, CutType
  <1> HIDE DEF e, x
  <1>6. SubSeq(e, 1, x.at - 1) = before
    <2>1. /\ SubSeq(e, 1, x.at - 1) \in Seq(Tokens) /\ Len(SubSeq(e, 1, x.at - 1)) = x.at - 1
          /\ \A i \in 1..(x.at - 1) : SubSeq(e, 1, x.at - 1)[i] = e[i]
      BY <1>3, <1>4, CutParts
    <2>2. /\ before \in Seq(Tokens) /\ Len(before) = x.at - 1
          /\ \A i \in 1..(x.at - 1) : before[i] = c[i]
      BY <1>1, <1>3, CutParts
    <2>3. \A i \in 1..(x.at - 1) : e[i] = c[i]
      BY <1>4, <1>5
    <2> HIDE DEF before
    <2>4. \A i \in 1..Len(before) : SubSeq(e, 1, x.at - 1)[i] = before[i]
      BY <2>1, <2>2, <2>3
    <2> QED BY <2>1, <2>2, <2>4, SeqEqual
  <1>7. SubSeq(e, x.at + x.len, Len(e)) = rest \o d
    <2> DEFINE m == x.at + x.len
               er == SubSeq(e, m, Len(e))
    <2>1. /\ er \in Seq(Tokens) /\ Len(er) = Len(e) + 1 - m
          /\ \A i \in 1..(Len(e) + 1 - m) : er[i] = e[m + i - 1]
      BY <1>3, <1>4, CutParts
    <2>2. /\ rest \in Seq(Tokens) /\ Len(rest) = Len(c) + 1 - m
          /\ \A i \in 1..(Len(c) + 1 - m) : rest[i] = c[m + i - 1]
      BY <1>1, <1>3, CutParts
    <2>3. m \in Nat /\ m >= 1 /\ m <= Len(c) + 1
      BY <1>4, <1>5
    <2> HIDE DEF m, er, rest
    <2>4. /\ rest \o d \in Seq(Tokens) /\ Len(rest \o d) = Len(rest) + Len(d)
          /\ \A i \in 1..(Len(rest) + Len(d)) :
               (rest \o d)[i] = IF i <= Len(rest) THEN rest[i] ELSE d[i - Len(rest)]
      BY <2>2, ConcatProperties
    <2>5. Len(er) = Len(rest \o d)
      BY <1>4, <2>1, <2>2, <2>3, <2>4
    <2>6. ASSUME NEW i \in 1..Len(er) PROVE er[i] = (rest \o d)[i]
      <3>1. /\ i \in 1..(Len(rest) + Len(d)) /\ i \in 1..(Len(e) + 1 - m)
            /\ m + i - 1 \in 1..(Len(c) + Len(d))
        BY <1>4, <2>1, <2>2, <2>3, <2>6
      <3>2. CASE i <= Len(rest)
        <4>1. m + i - 1 <= Len(c) /\ i \in 1..(Len(c) + 1 - m)
          BY <1>4, <2>2, <2>3, <3>1, <3>2
        <4> QED BY <1>4, <2>1, <2>2, <2>4, <3>1, <3>2, <4>1
      <3>3. CASE i > Len(rest)
        <4>1. ~(m + i - 1 <= Len(c)) /\ (m + i - 1) - Len(c) = i - Len(rest) /\ ~(i <= Len(rest))
          BY <1>4, <2>2, <2>3, <3>1, <3>3
        <4>2. (rest \o d)[i] = d[i - Len(rest)]
          BY <2>4, <3>1, <4>1
        <4>3. \A k \in 1..(Len(c) + Len(d)) : ~(k <= Len(c)) => e[k] = d[k - Len(c)]
          BY <1>4
        <4>4. er[i] = e[m + i - 1]
          BY <2>1, <3>1
        <4>5. e[m + i - 1] = d[(m + i - 1) - Len(c)]
          BY <3>1, <4>1, <4>3
        <4> QED BY <4>1, <4>2, <4>4, <4>5, Zenon
      <3>4. i \in Nat /\ Len(rest) \in Nat
        BY <2>2, <3>1
      <3>5. i <= Len(rest) \/ i > Len(rest)
        BY <3>4
      <3> QED BY <3>2, <3>3, <3>5
    <2>7. er = rest \o d
      BY <2>1, <2>4, <2>5, <2>6, SeqEqual
    <2> QED BY <2>7 DEF er, m
  <1> DEFINE S == Process(s.seen, before)
  <1>8. CutOne(s) = [carry |-> rest, seen |-> S]
    BY <1>1 DEF CutOne, c, x
  <1> DEFINE J == Joined(s, d)
  <1>9. J.carry = e /\ J.seen = s.seen
    BY <1>2
  <1>10. ~Stuck(J)
    BY <1>1, <1>3, <1>9 DEF Stuck
  <1>11. CutOne(J) = [carry |-> rest \o d, seen |-> S]
    <2>1. CutOne(J) = [carry |-> SubSeq(e, x.at + x.len, Len(e)),
                       seen |-> Process(s.seen, SubSeq(e, 1, x.at - 1))]
      <3> HIDE DEF J
      <3> QED BY <1>1, <1>3, <1>9 DEF CutOne
    <2> QED BY <1>6, <1>7, <2>1
  <1>12. Joined(CutOne(s), d) = [carry |-> rest \o d, seen |-> S]
    <2> HIDE DEF S, rest
    <2> QED BY <1>8, CutOneIs, JoinedIs
  <1> QED BY <1>10, <1>11, <1>12

\* Draining what the carry holds and then what comes is draining both at once.
LEMMA DrainJoins ==
  ASSUME NEW s \in Scanner, NEW d \in Seq(Tokens)
  PROVE  /\ ~Drain(s).seen.broken => Drain(Joined(s, d)) = Drain(Joined(Drain(s), d))
         /\ Drain(s).seen.broken => Drain(Joined(s, d)).seen = Drain(s).seen
PROOF
  <1> DEFINE joins(t) ==
               /\ ~Drain(t).seen.broken =>
                    Drain(Joined(t, d)) = Drain(Joined(Drain(t), d))
               /\ Drain(t).seen.broken => Drain(Joined(t, d)).seen = Drain(t).seen
             S == { n \in Nat : \A t \in Scanner : Len(t.carry) <= n => joins(t) }
  <1>1. \A t \in Scanner : Len(t.carry) \in Nat
    BY DEF Scanner
  <1>2. \A t \in Scanner : /\ Joined(t, d) \in Scanner
                           /\ Joined(t, d).seen = t.seen
    <2> TAKE t \in Scanner
    <2>1. t.carry \o d \in Seq(Tokens)
      BY ConcatProperties DEF Scanner
    <2> QED BY <2>1 DEF Joined, Scanner
  <1>3. ASSUME NEW t \in Scanner, Stuck(t) PROVE joins(t)
    <2>1. Drain(t) = t
      BY <1>3, DrainIs
    <2>2. ASSUME t.seen.broken PROVE Drain(Joined(t, d)).seen = t.seen
      <3>1. Stuck(Joined(t, d))
        BY <1>2, <2>2 DEF Stuck
      <3> QED BY <1>2, <3>1, DrainIs
    <2> QED BY <2>1, <2>2
  <1>4. ASSUME NEW t \in Scanner, ~Stuck(t), joins(CutOne(t)) PROVE joins(t)
    <2>1. Drain(t) = Drain(CutOne(t))
      BY <1>4, DrainIs
    <2>2. Drain(Joined(t, d)) = Drain(Joined(CutOne(t), d))
      BY <1>2, <1>4, CutOneJoins, DrainIs
    <2> QED BY <1>4, <2>1, <2>2
  <1> HIDE DEF joins
  <1>5. 0 \in S
    <2> SUFFICES ASSUME NEW t \in Scanner, Len(t.carry) <= 0 PROVE joins(t)
      OBVIOUS
    <2>1. Stuck(t)
      BY <1>1, CutOneIs
    <2> QED BY <1>3, <2>1
  <1>6. ASSUME NEW n \in Nat, n \in S PROVE n + 1 \in S
    <2> SUFFICES ASSUME NEW t \in Scanner, Len(t.carry) <= n + 1 PROVE joins(t)
      OBVIOUS
    <2>1. CASE Stuck(t)
      BY <1>3, <2>1
    <2>2. CASE ~Stuck(t)
      <3>1. CutOne(t) \in Scanner /\ Len(CutOne(t).carry) <= n
        BY <1>1, <2>2, CutOneIs
      <3> QED BY <1>4, <1>6, <2>2, <3>1
    <2> QED BY <2>1, <2>2
  <1> HIDE DEF S
  <1>7. Nat \subseteq S
    BY <1>5, <1>6, SetInduction
  <1>8. joins(s)
    BY <1>1, <1>7 DEF S
  <1> QED BY <1>8 DEF joins

TypeOK == input \in Seq(Tokens) /\ scanner \in Scanner

LEMMA NewType == New \in Scanner
PROOF
  <1>1. << >> \in Seq(Tokens)
    BY EmptySeq
  <1> QED BY <1>1 DEF New, Scanner, Seen

LEMMA FeedType ==
  ASSUME NEW s \in Scanner, NEW d \in Seq(Tokens)
  PROVE  Feed(s, d) \in Scanner /\ Feed(s, d) = Drain(Joined(s, d)) /\ Joined(s, d) \in Scanner
PROOF
  <1>1. s.carry \o d \in Seq(Tokens)
    BY ConcatProperties DEF Scanner
  <1>2. Joined(s, d) \in Scanner
    BY <1>1 DEF Joined, Scanner
  <1> QED BY <1>2, CuttingEnds DEF Feed, Joined

\* Chunks are sequences of tokens.
LEMMA ChunkType ==
  ASSUME NEW n \in 1..MaxChunk, NEW chunk \in [1..n -> Tokens]
  PROVE  chunk \in Seq(Tokens)
OBVIOUS

\* Two feeds are one.
LEMMA FeedJoins ==
  ASSUME NEW a \in Seq(Tokens), NEW d \in Seq(Tokens)
  PROVE  /\ ~Feed(New, a).seen.broken => Feed(New, a \o d) = Feed(Feed(New, a), d)
         /\ Feed(New, a).seen.broken => Feed(New, a \o d).seen = Feed(New, a).seen
PROOF
  <1> DEFINE s == Joined(New, a)
  <1>1. s \in Scanner /\ Feed(New, a) = Drain(s) /\ a \o d \in Seq(Tokens)
    BY NewType, FeedType, ConcatProperties
  <1>2. Joined(New, a \o d) = Joined(s, d)
    <2>1. New.carry \o a = a /\ New.carry \o (a \o d) = a \o d
      BY <1>1, ConcatEmptySeq DEF New
    <2> QED BY <2>1 DEF Joined, New
  <1>3. Feed(New, a \o d) = Drain(Joined(s, d))
    BY <1>1, <1>2, NewType, FeedType
  <1>4. Feed(Drain(s), d) = Drain(Joined(Drain(s), d))
    BY <1>1, CuttingEnds, FeedType
  <1> HIDE DEF s
  <1> QED BY <1>1, <1>3, <1>4, DrainJoins

\* The carry is a piece of a stream, the counters are numbers.
THEOREM ScannerTypeHolds == Spec => []TypeOK
PROOF
  <1>1. Init => TypeOK
    BY NewType, EmptySeq DEF Init, TypeOK
  <1>2. TypeOK /\ [Next]_vars => TypeOK'
    <2> SUFFICES ASSUME TypeOK, [Next]_vars PROVE TypeOK'
      OBVIOUS
    <2>1. CASE Next
      <3>1. PICK n \in 1..MaxChunk : \E chunk \in [1..n -> Tokens] : Chunk(chunk)
        BY <2>1 DEF Next
      <3>2. PICK chunk \in [1..n -> Tokens] : Chunk(chunk)
        BY <3>1
      <3>3. chunk \in Seq(Tokens)
        BY ChunkType
      <3> QED BY <3>2, <3>3, FeedType, ConcatProperties DEF TypeOK, Chunk
    <2>2. CASE UNCHANGED vars
      BY <2>2 DEF vars, TypeOK
    <2> QED BY <2>1, <2>2
  <1> QED BY <1>1, <1>2, PTL DEF Spec

LEMMA NewStuck == Stuck(New)
PROOF
  <1>1. << >> \in Seq(Tokens) /\ New.carry = << >> /\ Len(New.carry) = 0
    BY EmptySeq DEF New
  <1>2. Cuts(New.carry) = {}
    <2>1. ASSUME NEW x \in Cuts(New.carry) PROVE FALSE
      <3>1. x.at \in 1..Len(New.carry)
        BY <1>1, CutType
      <3> QED BY <1>1, <3>1
    <2> QED BY <2>1
  <1> QED BY <1>2, Zenon DEF Stuck

\* Between two chunks the carry holds no delimiter: feed has noted every event
\* that is complete, however many a chunk completes.
NoEventHeldBack == scanner.seen.broken \/ Cuts(scanner.carry) = {}

THEOREM NoEventHeldBackHolds == Spec => []NoEventHeldBack
PROOF
  <1>1. Init => NoEventHeldBack
    BY NewStuck DEF Init, NoEventHeldBack, Stuck
  <1>2. TypeOK /\ NoEventHeldBack /\ [Next]_vars => NoEventHeldBack'
    <2> SUFFICES ASSUME TypeOK, NoEventHeldBack, [Next]_vars PROVE NoEventHeldBack'
      OBVIOUS
    <2>1. CASE Next
      <3>1. PICK n \in 1..MaxChunk : \E chunk \in [1..n -> Tokens] : Chunk(chunk)
        BY <2>1 DEF Next
      <3>2. PICK chunk \in [1..n -> Tokens] : Chunk(chunk)
        BY <3>1
      <3>3. Stuck(Feed(scanner, chunk))
        BY ChunkType, FeedType, CuttingEnds DEF TypeOK
      <3>4. Stuck(scanner')
        BY <3>2, <3>3 DEF Chunk
      <3> QED BY <3>4 DEF NoEventHeldBack, Stuck
    <2>2. CASE UNCHANGED vars
      BY <2>2 DEF vars, NoEventHeldBack
    <2> QED BY <2>1, <2>2
  <1> QED BY <1>1, <1>2, ScannerTypeHolds, PTL DEF Spec

\* However the network cuts the stream into chunks, of any length and number,
\* the scanner has seen what it would see in one piece (SseScanner.feed).
THEOREM ChunkingInvisibleHolds == Spec => []ChunkingInvisible
PROOF
  <1>1. Init => ChunkingInvisible
    <2> SUFFICES ASSUME Init PROVE ChunkingInvisible
      OBVIOUS
    <2>1. << >> \in Seq(Tokens) /\ New.carry = << >>
      BY EmptySeq DEF New
    <2>2. Joined(New, << >>) = New
      BY <2>1, ConcatEmptySeq DEF Joined, New
    <2>3. Feed(New, << >>) = New
      BY <2>1, <2>2, NewStuck, NewType, FeedType, DrainIs
    <2> QED BY <2>3 DEF Init, ChunkingInvisible
  <1>2. TypeOK /\ ChunkingInvisible /\ [Next]_vars => ChunkingInvisible'
    <2> SUFFICES ASSUME TypeOK, ChunkingInvisible, [Next]_vars PROVE ChunkingInvisible'
      OBVIOUS
    <2>1. CASE Next
      <3>1. PICK n \in 1..MaxChunk : \E chunk \in [1..n -> Tokens] : Chunk(chunk)
        BY <2>1 DEF Next
      <3>2. PICK chunk \in [1..n -> Tokens] : Chunk(chunk)
        BY <3>1
      <3>3. chunk \in Seq(Tokens) /\ input \in Seq(Tokens)
        BY ChunkType DEF TypeOK
      <3>4. scanner = Feed(New, input)
        <4>1. /\ ~scanner.seen.broken /\ scanner.seen = Feed(New, input).seen
              /\ scanner.carry = Feed(New, input).carry
          BY <3>2 DEF Chunk, ChunkingInvisible
        <4>2. scanner \in Scanner /\ Feed(New, input) \in Scanner
          BY <3>3, NewType, FeedType DEF TypeOK
        <4> QED BY <4>1, <4>2 DEF Scanner
      <3>5. Feed(New, input \o chunk) = Feed(scanner, chunk)
        BY <3>2, <3>3, <3>4, FeedJoins DEF Chunk
      <3>6. scanner' = Feed(New, input')
        BY <3>2, <3>5 DEF Chunk
      <3> QED BY <3>6 DEF ChunkingInvisible
    <2>2. CASE UNCHANGED vars
      BY <2>2 DEF vars, ChunkingInvisible
    <2> QED BY <2>1, <2>2
  <1> QED BY <1>1, <1>2, ScannerTypeHolds, PTL DEF Spec

------------------------------------------------------------------------------
(* Lines and fields *)

LEMMA MinIs ==
  ASSUME NEW T, T \subseteq Nat, T # {}
  PROVE  Min(T) \in T /\ \A y \in T : Min(T) <= y
PROOF
  <1>1. \E m \in T : \A y \in T : m <= y
    BY LeastElement
  <1> QED BY <1>1 DEF Min

LEMMA MaxIs ==
  ASSUME NEW T, T \subseteq Nat, T # {}, NEW n \in Nat, \A y \in T : y <= n
  PROVE  Max(T) \in T /\ \A y \in T : y <= Max(T)
PROOF
  <1> DEFINE U == { k \in Nat : \E y \in T : y + k = n }
  <1>1. U # {}
    <2>1. PICK y : y \in T
      OBVIOUS
    <2>2. n - y \in Nat /\ y + (n - y) = n
      BY <2>1
    <2> QED BY <2>1, <2>2
  <1>2. PICK k \in U : \A j \in U : k <= j
    BY <1>1, LeastElement
  <1>3. PICK m \in T : m + k = n
    BY <1>2
  <1>4. ASSUME NEW y \in T PROVE y <= m
    <2>1. n - y \in Nat /\ y + (n - y) = n
      BY <1>4
    <2>2. k <= n - y
      BY <1>2, <1>4, <2>1
    <2> QED BY <1>2, <1>3, <2>1, <2>2
  <1>5. \E x \in T : \A y \in T : x >= y
    BY <1>3, <1>4
  <1>6. Max(T) \in T /\ \A y \in T : Max(T) >= y
    BY <1>5 DEF Max
  <1> QED BY <1>6

\* The place after the field at i: the first CR or LF, or the end.
FieldEnd(t, i) == Min({ j \in i..Len(t) : t[j] \in {"CR", "LF"} } \cup {Len(t) + 1})

LEMMA FieldEndIs ==
  ASSUME NEW t \in Seq(Tokens), NEW i \in 1..Len(t)
  PROVE  /\ FieldEnd(t, i) \in i..(Len(t) + 1)
         /\ \A j \in i..(FieldEnd(t, i) - 1) : t[j] \notin {"CR", "LF"}
         /\ \A m \in i..Len(t) :
              /\ t[m] \in {"CR", "LF"}
              /\ \A j \in i..(m - 1) : t[j] \notin {"CR", "LF"}
              => FieldEnd(t, i) = m
PROOF
  <1> DEFINE T == { j \in i..Len(t) : t[j] \in {"CR", "LF"} } \cup {Len(t) + 1}
             f == FieldEnd(t, i)
  <1>1. Len(t) \in Nat
    OBVIOUS
  <1>2. T \subseteq Nat /\ T # {} /\ f = Min(T)
    BY <1>1 DEF FieldEnd
  <1>3. f \in T /\ \A y \in T : f <= y
    BY <1>2, MinIs
  <1> HIDE DEF f
  <1>4. f \in i..(Len(t) + 1)
    BY <1>1, <1>3
  <1>5. \A j \in i..(f - 1) : t[j] \notin {"CR", "LF"}
    BY <1>1, <1>3, <1>4
  <1>6. ASSUME NEW m \in i..Len(t), t[m] \in {"CR", "LF"},
               \A j \in i..(m - 1) : t[j] \notin {"CR", "LF"}
        PROVE  f = m
    <2>1. m \in T
      BY <1>6
    <2>2. f <= m /\ f \in Nat /\ m \in Nat
      BY <1>1, <1>3, <1>4, <1>6, <2>1
    <2>3. ~(f < m)
      <3>1. SUFFICES ASSUME f < m PROVE FALSE
        OBVIOUS
      <3>2. f \in i..(m - 1) /\ f # Len(t) + 1
        BY <1>1, <1>4, <1>6, <2>2, <3>1
      <3> QED BY <1>3, <1>6, <3>2
    <2> QED BY <2>2, <2>3
  <1> QED BY <1>4, <1>5, <1>6 DEF f

\* A field has a first piece, and it is no line end.
LEMMA ContentIs ==
  ASSUME NEW t \in Seq(Tokens), NEW i \in Begins(t)
  PROVE  /\ Content(t, i) = SubSeq(t, i, FieldEnd(t, i) - 1)
         /\ Content(t, i) \in Seq(Tokens) /\ Len(Content(t, i)) >= 1
         /\ Content(t, i)[1] \in Tokens \ {"CR", "LF"} /\ Content(t, i)[1] = t[i]
PROOF
  <1> DEFINE n == FieldEnd(t, i) - 1
             c == SubSeq(t, i, n)
  <1>1. i \in 1..Len(t) /\ t[i] \notin {"CR", "LF"} /\ Len(t) \in Nat
    BY DEF Begins
  <1>2. FieldEnd(t, i) \in i..(Len(t) + 1) /\ FieldEnd(t, i) # i
    <2>1. FieldEnd(t, i) \in i..(Len(t) + 1)
      BY <1>1, FieldEndIs
    <2>2. FieldEnd(t, i) # i
      <3> DEFINE T == { j \in i..Len(t) : t[j] \in {"CR", "LF"} } \cup {Len(t) + 1}
      <3>1. T \subseteq Nat /\ T # {} /\ FieldEnd(t, i) = Min(T)
        BY <1>1 DEF FieldEnd
      <3>2. FieldEnd(t, i) \in T
        BY <3>1, MinIs
      <3>3. i \notin T
        BY <1>1
      <3> QED BY <3>2, <3>3
    <2> QED BY <2>1, <2>2
  <1>3. n \in i..Len(t)
    BY <1>1, <1>2
  <1>4. Content(t, i) = c
    BY DEF Content, FieldEnd
  <1> HIDE DEF n
  <1>5. \A j \in i..n : t[j] \in Tokens
    BY <1>1, <1>3, ElementOfSeq
  <1>6. /\ c \in Seq(Tokens) /\ Len(c) = n - i + 1
        /\ \A k \in 1..(n - i + 1) : c[k] = t[i + k - 1]
    BY <1>1, <1>3, <1>5, SubSeqProperties
  <1> HIDE DEF c
  <1>7. n - i + 1 >= 1 /\ i + 1 - 1 = i /\ 1 \in 1..(n - i + 1)
    BY <1>1, <1>3
  <1>8. c[1] = t[i]
    BY <1>6, <1>7
  <1> QED BY <1>1, <1>3, <1>4, <1>5, <1>6, <1>7, <1>8 DEF n, c

------------------------------------------------------------------------------
(* A report that grows by one field *)

ToldOf(t, B) == { i \in B : t[i] # "ping" /\ Content(t, i) # <<"empty">> }

DataOf(t, B) == { i \in ToldOf(t, B) : Content(t, i) # <<"done">> }

SinglesOf(t, B) == { i \in DataOf(t, B) : Len(Content(t, i)) = 1 }

LastSingle(t, B) ==
  IF SinglesOf(t, B) = {} THEN "none" ELSE Content(t, Max(SinglesOf(t, B)))[1]

LEMMA ReportIs ==
  ASSUME NEW t, NEW B
  PROVE  Report(t, B) = [events |-> Cardinality(DataOf(t, B)),
                         done |-> DataOf(t, B) # ToldOf(t, B),
                         usage |-> LastSingle(t, B), broken |-> FALSE]
BY DEF Report, ToldOf, DataOf, SinglesOf, LastSingle

\* The last of a set of places is one that comes after all of them.
LEMMA MaxAdded ==
  ASSUME NEW T, T \subseteq Nat, NEW i \in Nat, \A y \in T : y < i
  PROVE  Max(T \cup {i}) = i
PROOF
  <1> DEFINE U == T \cup {i}
  <1>1. U \subseteq Nat /\ U # {} /\ i \in U /\ \A y \in U : y <= i
    OBVIOUS
  <1> HIDE DEF U
  <1>2. Max(U) \in U /\ \A y \in U : y <= Max(U)
    BY <1>1, MaxIs
  <1>3. Max(U) \in Nat /\ i <= Max(U) /\ Max(U) <= i
    BY <1>1, <1>2
  <1> QED BY <1>3 DEF U

\* A line that holds the next field makes the report of one field more, unless
\* _extract raises on it.
LEMMA ReportGrows ==
  ASSUME NEW t \in Seq(Tokens), NEW i \in Begins(t),
         NEW B, B \subseteq Begins(t), IsFiniteSet(B), \A b \in B : b < i
  PROVE  LET n == SeeLine(Report(t, B), Content(t, i))
         IN  n.broken \/ n = Report(t, B \cup {i})
PROOF
  <1> DEFINE l == Content(t, i)
             A == B \cup {i}
             r == Report(t, B)
             n == SeeLine(r, l)
  <1>1. l \in Seq(Tokens) /\ Len(l) >= 1 /\ l[1] \in Tokens \ {"CR", "LF"}
    BY ContentIs
  <1>2. IsData(l) <=> t[i] # "ping" /\ l # <<"empty">>
    <2>1. l # << >> /\ l[1] = t[i]
      BY <1>1, ContentIs
    <2> QED BY <1>1, <2>1 DEF IsData
  <1>3. i \in Nat /\ i \notin B /\ B \subseteq Nat
    BY DEF Begins
  <1>4. /\ ToldOf(t, B) \subseteq B /\ DataOf(t, B) \subseteq ToldOf(t, B)
        /\ SinglesOf(t, B) \subseteq DataOf(t, B)
    BY DEF ToldOf, DataOf, SinglesOf
  <1>5. IsFiniteSet(DataOf(t, B))
    BY <1>4, FS_Subset
  <1>6. Cardinality(DataOf(t, B)) \in Nat
    BY <1>5, FS_CardinalityType
  <1>7. r = [events |-> Cardinality(DataOf(t, B)), done |-> DataOf(t, B) # ToldOf(t, B),
             usage |-> LastSingle(t, B), broken |-> FALSE]
    BY ReportIs
  <1>8. Report(t, A) = [events |-> Cardinality(DataOf(t, A)), done |-> DataOf(t, A) # ToldOf(t, A),
                        usage |-> LastSingle(t, A), broken |-> FALSE]
    BY ReportIs
  <1>9. ~r.broken
    BY <1>7
  <1> HIDE DEF r, n
  <1>10. CASE ~IsData(l)
    <2>1. n = r
      BY <1>10 DEF n, SeeLine
    <2>2. ToldOf(t, A) = ToldOf(t, B)
      BY <1>2, <1>10 DEF ToldOf
    <2>3. Report(t, A) = Report(t, B)
      BY <1>7, <1>8, <2>2 DEF r, DataOf, SinglesOf, LastSingle
    <2> QED BY <2>1, <2>3 DEF n, r
  <1>11. IsData(l) => ToldOf(t, A) = ToldOf(t, B) \cup {i}
    BY <1>2 DEF ToldOf
  <1>12. CASE IsData(l) /\ l = <<"done">>
    <2>1. DataOf(t, A) = DataOf(t, B)
      BY <1>12, <1>11 DEF DataOf
    <2>2. DataOf(t, A) # ToldOf(t, A)
      BY <1>3, <1>4, <1>12, <1>11, <2>1
    <2>3. LastSingle(t, A) = LastSingle(t, B)
      BY <2>1 DEF LastSingle, SinglesOf
    <2>4. n = [r EXCEPT !.done = TRUE]
      BY <1>9, <1>12 DEF n, SeeLine
    <2>5. n = [events |-> Cardinality(DataOf(t, B)), done |-> TRUE,
               usage |-> LastSingle(t, B), broken |-> FALSE]
      BY <1>7, <2>4
    <2> QED BY <1>8, <2>1, <2>2, <2>3, <2>5 DEF n, r
  <1>13. CASE IsData(l) /\ l = <<"odd">>
    <2>1. l # <<"done">>
      BY <1>13
    <2> DEFINE u == IF Len(l) = 1 /\ l[1] \in Usages THEN l[1] ELSE r.usage
    <2>2. n = [r EXCEPT !.events = @ + 1, !.usage = u, !.broken = l = <<"odd">>]
      BY <1>9, <1>13, <2>1 DEF n, SeeLine
    <2> HIDE DEF u
    <2>3. n.broken
      BY <1>7, <1>13, <2>2
    <2> QED BY <2>3 DEF n, r
  <1>14. CASE IsData(l) /\ l # <<"done">> /\ l # <<"odd">>
    <2> DEFINE u == IF Len(l) = 1 /\ l[1] \in Usages THEN l[1] ELSE r.usage
               b == l = <<"odd">>
    <2>1. n = [r EXCEPT !.events = @ + 1, !.usage = u, !.broken = b]
      BY <1>9, <1>14 DEF n, SeeLine
    <2>2. b = FALSE
      BY <1>14
    <2>3. DataOf(t, A) = DataOf(t, B) \cup {i}
      BY <1>14, <1>11 DEF DataOf
    <2>4. Cardinality(DataOf(t, A)) = Cardinality(DataOf(t, B)) + 1
      <3>1. i \notin DataOf(t, B)
        BY <1>3, <1>4
      <3> QED BY <1>5, <2>3, <3>1, FS_AddElement
    <2>5. (DataOf(t, A) # ToldOf(t, A)) = (DataOf(t, B) # ToldOf(t, B))
      BY <1>3, <1>4, <1>14, <1>11, <2>3
    <2>6. u = LastSingle(t, A)
      <3>1. CASE Len(l) = 1
        <4>1. l = <<l[1]>>
          BY <1>1, <3>1
        <4>2. l[1] \in Usages
          <5>1. l # <<"empty">> /\ l[1] # "ping"
            BY <1>2, <1>14, ContentIs
          <5> QED BY <1>1, <1>14, <4>1, <5>1 DEF Tokens
        <4>3. SinglesOf(t, A) = SinglesOf(t, B) \cup {i}
          BY <2>3, <3>1 DEF SinglesOf
        <4>4. Max(SinglesOf(t, A)) = i
          BY <1>3, <1>4, <4>3, MaxAdded
        <4> QED BY <3>1, <4>2, <4>3, <4>4 DEF LastSingle
      <3>2. CASE Len(l) # 1
        <4>1. SinglesOf(t, A) = SinglesOf(t, B)
          BY <2>3, <3>2 DEF SinglesOf
        <4> QED BY <1>7, <3>2, <4>1 DEF LastSingle
      <3> QED BY <3>1, <3>2
    <2> HIDE DEF u, b
    <2>7. n = [events |-> Cardinality(DataOf(t, B)) + 1, done |-> DataOf(t, B) # ToldOf(t, B),
               usage |-> u, broken |-> FALSE]
      BY <1>7, <2>1, <2>2
    <2>8. n = Report(t, A)
      BY <1>8, <2>4, <2>5, <2>6, <2>7
    <2> QED BY <2>8 DEF n, r
  <1> QED BY <1>10, <1>12, <1>13, <1>14

------------------------------------------------------------------------------
(* An event is a part of the stream *)

\* Where the line at i ends, and with it what Line takes.
LineMax(e, i) == Max({ j \in i..LineEnd(e, i) : e[j] # "CR" } \cup {i - 1})

LEMMA LineIs ==
  ASSUME NEW e \in Seq(Tokens), NEW i \in 1..Len(e)
  PROVE  /\ Line(e, i) = SubSeq(e, i, LineMax(e, i))
         /\ LineEnd(e, i) \in (i - 1)..Len(e)
         /\ \A j \in i..LineEnd(e, i) : e[j] # "LF"
         /\ LineEnd(e, i) < Len(e) => e[LineEnd(e, i) + 1] = "LF"
         /\ LineMax(e, i) \in (i - 1)..LineEnd(e, i)
         /\ \A j \in (LineMax(e, i) + 1)..LineEnd(e, i) : e[j] = "CR"
         /\ LineMax(e, i) >= i => e[LineMax(e, i)] # "CR"
PROOF
  <1> DEFINE T == { j \in i..Len(e) : e[j] = "LF" } \cup {Len(e) + 1}
             m == Min(T)
             U == { j \in i..LineEnd(e, i) : e[j] # "CR" } \cup {i - 1}
             x == Max(U)
  <1>1. Len(e) \in Nat
    OBVIOUS
  <1>2. T \subseteq Nat /\ T # {}
    BY <1>1
  <1>3. m \in T /\ \A y \in T : m <= y
    BY <1>2, MinIs
  <1>4. LineEnd(e, i) = m - 1
    BY DEF LineEnd
  <1> HIDE DEF m
  <1>5. m \in i..(Len(e) + 1)
    BY <1>1, <1>3
  <1>6. \A j \in i..(m - 1) : e[j] # "LF"
    BY <1>1, <1>3, <1>5
  <1>7. m <= Len(e) => e[m] = "LF"
    BY <1>1, <1>3, <1>5
  <1>8. m - 1 \in (i - 1)..Len(e) /\ m - 1 \in Nat /\ (m - 1) + 1 = m
        /\ (m - 1 < Len(e) => m <= Len(e))
    BY <1>1, <1>5
  <1>9. U \subseteq Nat /\ U # {} /\ \A y \in U : y <= m - 1
    BY <1>1, <1>4, <1>8
  <1>10. x \in U /\ \A y \in U : y <= x
    BY <1>8, <1>9, MaxIs
  <1>11. x = LineMax(e, i) /\ Line(e, i) = SubSeq(e, i, x)
    BY DEF LineMax, Line
  <1> HIDE DEF x
  <1>12. x \in (i - 1)..(m - 1)
    BY <1>1, <1>4, <1>8, <1>9, <1>10
  <1>13. ASSUME NEW j \in (x + 1)..(m - 1) PROVE e[j] = "CR"
    <2>1. j \in i..(m - 1) /\ ~(j <= x)
      BY <1>1, <1>8, <1>12, <1>13
    <2> QED BY <1>4, <1>10, <2>1
  <1>14. x >= i => e[x] # "CR"
    BY <1>1, <1>10
  <1> QED BY <1>4, <1>6, <1>7, <1>8, <1>11, <1>12, <1>13, <1>14

\* The part of t after p, of the length of e, is e.
PartAt(t, p, e) == /\ p \in Nat /\ p + Len(e) <= Len(t)
                   /\ \A k \in 1..Len(e) : e[k] = t[p + k]

\* A line that begins with a line end holds no data.
LEMMA EmptyLine ==
  ASSUME NEW e \in Seq(Tokens), NEW i \in 1..Len(e), e[i] \in {"CR", "LF"}
  PROVE  ~IsData(Line(e, i))
PROOF
  <1> DEFINE x == LineMax(e, i)
             l == SubSeq(e, i, x)
  <1>1. /\ Line(e, i) = l /\ LineEnd(e, i) \in (i - 1)..Len(e)
        /\ x \in (i - 1)..LineEnd(e, i)
        /\ \A j \in i..LineEnd(e, i) : e[j] # "LF"
    BY LineIs
  <1> HIDE DEF x
  <1>2. Len(e) \in Nat /\ i \in Nat
    OBVIOUS
  <1>3. \A j \in i..x : e[j] \in Tokens
    BY <1>1, <1>2, ElementOfSeq
  <1>4. /\ l \in Seq(Tokens) /\ Len(l) = IF i <= x THEN x - i + 1 ELSE 0
        /\ \A k \in 1..(x - i + 1) : l[k] = e[i + k - 1]
    BY <1>1, <1>2, <1>3, SubSeqProperties
  <1> HIDE DEF l
  <1>5. CASE i <= x
    <2>1. e[i] = "CR"
      BY <1>1, <1>2, <1>5
    <2>2. 1 \in 1..(x - i + 1) /\ i + 1 - 1 = i
      BY <1>1, <1>2, <1>5
    <2>3. l[1] = "CR"
      BY <1>4, <2>1, <2>2
    <2> QED BY <1>1, <2>3 DEF IsData
  <1>6. CASE ~(i <= x)
    <2>1. l = << >>
      BY <1>4, <1>6, EmptySeq
    <2> QED BY <1>1, <2>1 DEF IsData
  <1> QED BY <1>5, <1>6

\* In a stream of uniform line ends, of which an event is the part before a
\* line end, the line of a data field is what the field holds.
LEMMA LineIsContent ==
  ASSUME NEW t \in Seq(Tokens), Uniform(t), NEW p, NEW e \in Seq(Tokens),
         PartAt(t, p, e), p + Len(e) < Len(t), t[p + Len(e) + 1] \in {"CR", "LF"},
         NEW i \in 1..Len(e), e[i] \notin {"CR", "LF"}, p + i \in Begins(t)
  PROVE  Line(e, i) = Content(t, p + i)
PROOF
  <1> DEFINE x == LineMax(e, i)
             y == LineEnd(e, i)
  <1>1. /\ Line(e, i) = SubSeq(e, i, x) /\ y \in (i - 1)..Len(e)
        /\ \A j \in i..y : e[j] # "LF"
        /\ y < Len(e) => e[y + 1] = "LF"
        /\ x \in (i - 1)..y
        /\ \A j \in (x + 1)..y : e[j] = "CR"
        /\ x >= i => e[x] # "CR"
    BY LineIs
  <1> HIDE DEF x, y
  <1>2. Len(e) \in Nat /\ i \in Nat /\ p \in Nat /\ Len(t) \in Nat
    BY DEF PartAt
  <1>3. i <= y
    <2>1. SUFFICES ASSUME y = i - 1 PROVE FALSE
      BY <1>1, <1>2
    <2>2. y < Len(e) /\ y + 1 = i
      BY <1>2, <2>1
    <2> QED BY <1>1, <2>2
  <1>4. i <= x
    <2>1. SUFFICES ASSUME x = i - 1 PROVE FALSE
      BY <1>1, <1>2
    <2>2. i \in (x + 1)..y
      BY <1>1, <1>2, <1>3, <2>1
    <2> QED BY <1>1, <2>2
  <1>5. x \in Nat /\ y \in Nat /\ x <= y /\ y <= Len(e)
    BY <1>1, <1>2, <1>4
  <1>6. \A k \in 1..Len(e) : e[k] = t[p + k]
    BY DEF PartAt
  <1>7. t[p + (x + 1)] \in {"CR", "LF"}
    <2>1. CASE x < y
      <3>1. x + 1 \in (x + 1)..y /\ x + 1 \in 1..Len(e)
        BY <1>2, <1>4, <1>5, <2>1
      <3> QED BY <1>1, <1>6, <3>1
    <2>2. CASE x = y /\ y < Len(e)
      <3>1. x + 1 \in 1..Len(e) /\ e[x + 1] = "LF"
        BY <1>1, <1>2, <1>5, <2>2
      <3> QED BY <1>6, <3>1
    <2>3. CASE x = y /\ y = Len(e)
      <3>1. p + (x + 1) = p + Len(e) + 1
        BY <1>2, <1>5, <2>3
      <3> QED BY <3>1
    <2> QED BY <1>2, <1>5, <2>1, <2>2, <2>3
  <1>8. ASSUME NEW k \in i..x PROVE e[k] \notin {"CR", "LF"} /\ k \in 1..Len(e)
    <2>1. k \in 1..Len(e) /\ k \in i..y /\ k \in Nat
      BY <1>2, <1>5, <1>8
    <2>2. e[k] # "LF"
      BY <1>1, <2>1
    <2>3. ASSUME e[k] = "CR" PROVE FALSE
      <3>1. k < x
        BY <1>1, <1>2, <1>4, <1>5, <1>8, <2>3
      <3>2. k + 1 \in i..y /\ k + 1 \in 1..Len(e)
        BY <1>2, <1>5, <2>1, <3>1
      <3>3. p + k \in 1..Len(t) /\ p + k # Len(t) /\ t[p + k] = "CR"
        BY <1>2, <1>6, <2>1, <2>3
      <3>4. t[(p + k) + 1] = "LF"
        BY <3>3 DEF Uniform
      <3>5. (p + k) + 1 = p + (k + 1)
        BY <1>2, <2>1
      <3>6. e[k + 1] = "LF"
        BY <1>6, <3>2, <3>4, <3>5
      <3> QED BY <1>1, <3>2, <3>6
    <2> QED BY <2>1, <2>2, <2>3
  <1> DEFINE b == p + i
             m == p + (x + 1)
  <1>9. b \in 1..Len(t) /\ m \in b..Len(t)
    BY <1>2, <1>4, <1>5
  <1>10. \A j \in b..(m - 1) : t[j] \notin {"CR", "LF"}
    <2> SUFFICES ASSUME NEW j \in b..(m - 1) PROVE t[j] \notin {"CR", "LF"}
      OBVIOUS
    <2>1. j - p \in i..x /\ p + (j - p) = j
      BY <1>2, <1>5
    <2> QED BY <1>6, <1>8, <2>1
  <1>11. FieldEnd(t, b) = m
    <2>1. t[m] \in {"CR", "LF"}
      BY <1>7
    <2> HIDE DEF b, m
    <2> QED BY <1>9, <1>10, <2>1, FieldEndIs
  <1>12. m - 1 = p + x
    BY <1>2, <1>5
  <1>13. Content(t, b) = SubSeq(t, b, p + x)
    BY <1>11, <1>12, ContentIs
  <1>14. /\ SubSeq(e, i, x) \in Seq(Tokens) /\ Len(SubSeq(e, i, x)) = x - i + 1
         /\ \A k \in 1..(x - i + 1) : SubSeq(e, i, x)[k] = e[i + k - 1]
    <2>1. \A j \in i..x : e[j] \in Tokens
      BY <1>8, ElementOfSeq
    <2> QED BY <1>2, <1>4, <1>5, <2>1, SubSeqProperties
  <1>15. /\ SubSeq(t, b, p + x) \in Seq(Tokens)
         /\ Len(SubSeq(t, b, p + x)) = (p + x) - b + 1
         /\ \A k \in 1..((p + x) - b + 1) : SubSeq(t, b, p + x)[k] = t[b + k - 1]
    <2>1. \A j \in b..(p + x) : t[j] \in Tokens
      <3> SUFFICES ASSUME NEW j \in b..(p + x) PROVE t[j] \in Tokens
        OBVIOUS
      <3>1. j \in 1..Len(t)
        BY <1>2, <1>5, <1>9
      <3> QED BY <3>1, ElementOfSeq
    <2>2. b <= p + x /\ b \in Int /\ p + x \in Int
      BY <1>2, <1>4, <1>5
    <2> HIDE DEF b
    <2> QED BY <2>1, <2>2, SubSeqProperties
  <1>16. ASSUME NEW k \in 1..(x - i + 1) PROVE SubSeq(e, i, x)[k] = SubSeq(t, b, p + x)[k]
    <2>1. k \in 1..((p + x) - b + 1) /\ b + k - 1 = p + (i + k - 1) /\ i + k - 1 \in 1..Len(e)
      BY <1>2, <1>4, <1>5, <1>16
    <2>2. SubSeq(t, b, p + x)[k] = t[p + (i + k - 1)]
      BY <1>15, <2>1
    <2>3. SubSeq(e, i, x)[k] = e[i + k - 1]
      BY <1>14
    <2> QED BY <1>6, <2>1, <2>2, <2>3
  <1>17. x - i + 1 = (p + x) - b + 1
    BY <1>2, <1>5
  <1> HIDE DEF b, m
  <1>18. SubSeq(e, i, x) = SubSeq(t, b, p + x)
    <2> DEFINE u == SubSeq(e, i, x)
               v == SubSeq(t, b, p + x)
    <2>1. /\ u \in Seq(Tokens) /\ v \in Seq(Tokens) /\ Len(u) = Len(v)
          /\ Len(u) = x - i + 1
      BY <1>14, <1>15, <1>17
    <2>2. \A k \in 1..(x - i + 1) : u[k] = v[k]
      BY <1>16
    <2> HIDE DEF u, v
    <2>3. \A k \in 1..Len(u) : u[k] = v[k]
      BY <2>1, <2>2
    <2>4. u = v
      BY <2>1, <2>3, SeqEqual
    <2> QED BY <2>4 DEF u, v
  <1> QED BY <1>1, <1>13, <1>18 DEF b

------------------------------------------------------------------------------
(* The scanner sees the fields of what it has cut off *)

\* The fields of t that begin in its first k pieces.
Upto(t, k) == { b \in Begins(t) : b <= k }

\* What has been seen is what these fields hold.
Told(t, n, k) == n.broken \/ n = Report(t, Upto(t, k))

LEMMA UptoGrows ==
  ASSUME NEW t \in Seq(Tokens), NEW k \in Nat
  PROVE  /\ IsFiniteSet(Upto(t, k)) /\ Upto(t, k) \subseteq Begins(t)
         /\ \A b \in Upto(t, k) : b < k + 1
         /\ k + 1 \in Begins(t) => Upto(t, k + 1) = Upto(t, k) \cup {k + 1}
         /\ k + 1 \notin Begins(t) => Upto(t, k + 1) = Upto(t, k)
PROOF
  <1>1. Begins(t) \subseteq Nat /\ Begins(t) \subseteq 1..Len(t) /\ Len(t) \in Nat
    BY DEF Begins
  <1>2. IsFiniteSet(Begins(t))
    <2>1. IsFiniteSet(1..Len(t))
      BY <1>1, FS_Interval
    <2> QED BY <1>1, <2>1, FS_Subset
  <1>3. Upto(t, k) \subseteq Begins(t)
    BY DEF Upto
  <1>4. \A b \in Upto(t, k) : b < k + 1
    BY <1>1 DEF Upto
  <1>5. \A b \in Nat : b <= k + 1 <=> b <= k \/ b = k + 1
    OBVIOUS
  <1>6. k + 1 \in Begins(t) => Upto(t, k + 1) = Upto(t, k) \cup {k + 1}
    BY <1>1, <1>5 DEF Upto
  <1>7. k + 1 \notin Begins(t) => Upto(t, k + 1) = Upto(t, k)
    BY <1>1, <1>5 DEF Upto
  <1> QED BY <1>2, <1>3, <1>4, <1>6, <1>7, FS_Subset

\* _process sees just the fields that begin in the event.
LEMMA ProcessTells ==
  ASSUME NEW t \in Seq(Tokens), Uniform(t), NEW p, NEW e \in Seq(Tokens),
         PartAt(t, p, e), p + Len(e) < Len(t), t[p + Len(e) + 1] \in {"CR", "LF"},
         p = 0 \/ t[p] = "LF",
         NEW n \in Seen, Told(t, n, p)
  PROVE  Told(t, Process(n, e), p + Len(e))
PROOF
  <1> DEFINE A == Seeing(n, e)
             S == { k \in Nat : k <= Len(e) => Told(t, A[k], p + k) }
  <1>1. Len(e) \in Nat /\ p \in Nat /\ Len(t) \in Nat /\ \A k \in 1..Len(e) : e[k] = t[p + k]
    BY DEF PartAt
  <1>2. /\ A \in [Nat -> Seen] /\ A[0] = n
        /\ \A i \in Nat \ {0} :
              A[i] = IF i = 1 \/ e[i - 1] = "LF" THEN SeeLine(A[i - 1], Line(e, i)) ELSE A[i - 1]
    BY SeeingSteps
  <1> HIDE DEF A
  <1>3. 0 \in S
    BY <1>1, <1>2
  <1>4. ASSUME NEW k \in Nat, k \in S PROVE k + 1 \in S
    <2> SUFFICES ASSUME k + 1 <= Len(e) PROVE Told(t, A[k + 1], p + (k + 1))
      OBVIOUS
    <2> DEFINE i == k + 1
               a == A[k]
    <2>1. i \in 1..Len(e) /\ i \in Nat \ {0} /\ i - 1 = k /\ p + i = (p + k) + 1 /\ p + k \in Nat
      BY <1>1
    <2>2. a \in Seen /\ Told(t, a, p + k)
      BY <1>1, <1>2, <1>4
    <2>3. A[i] = IF i = 1 \/ e[i - 1] = "LF" THEN SeeLine(a, Line(e, i)) ELSE a
      BY <1>2, <2>1
    <2> HIDE DEF i, a
    <2>4. p + i \in Begins(t) <=> e[i] \notin {"CR", "LF"} /\ (i = 1 \/ e[i - 1] = "LF")
      <3>1. p + i \in 1..Len(t) /\ e[i] = t[p + i]
        BY <1>1, <2>1 DEF PartAt
      <3>2. (p + i = 1 \/ t[(p + i) - 1] = "LF") <=> (i = 1 \/ e[i - 1] = "LF")
        <4>1. CASE i = 1
          BY <1>1, <4>1
        <4>2. CASE i # 1
          <5>1. i - 1 \in 1..Len(e) /\ p + (i - 1) = (p + i) - 1 /\ p + i # 1
            BY <1>1, <2>1, <4>2
          <5> QED BY <1>1, <4>2, <5>1
        <4> QED BY <4>1, <4>2
      <3>3. (p + i) - 1 = p + i - 1
        BY <1>1, <2>1
      <3> QED BY <3>1, <3>2, <3>3 DEF Begins
    <2>5. CASE p + i \in Begins(t)
      <3>1. A[i] = SeeLine(a, Content(t, p + i))
        BY <2>1, <2>3, <2>4, <2>5, LineIsContent
      <3>2. CASE a.broken
        BY <3>1, <3>2 DEF SeeLine, Told, i
      <3>3. CASE a = Report(t, Upto(t, p + k))
        <4>1. A[i].broken \/ A[i] = Report(t, Upto(t, p + k) \cup {p + i})
          BY <2>1, <2>5, <3>1, <3>3, UptoGrows, ReportGrows
        <4> QED BY <2>1, <2>5, <4>1, UptoGrows DEF Told, i
      <3> QED BY <2>2, <3>2, <3>3 DEF Told
    <2>6. CASE p + i \notin Begins(t)
      <3>1. Upto(t, p + i) = Upto(t, p + k)
        BY <2>1, <2>6, UptoGrows
      <3>2. A[i] = a
        <4>1. CASE ~(i = 1 \/ e[i - 1] = "LF")
          BY <2>3, <4>1
        <4>2. CASE i = 1 \/ e[i - 1] = "LF"
          <5>1. ~IsData(Line(e, i))
            BY <2>1, <2>4, <2>6, <4>2, EmptyLine
          <5> QED BY <2>3, <4>2, <5>1 DEF SeeLine
        <4> QED BY <4>1, <4>2
      <3> QED BY <2>2, <3>1, <3>2 DEF Told, i
    <2> QED BY <2>5, <2>6
  <1> HIDE DEF S
  <1>5. Nat \subseteq S
    BY <1>3, <1>4, SetInduction
  <1> QED BY <1>1, <1>5 DEF S, A, Process

\* s has cut off the first p pieces of t, in whole events, and has seen the
\* fields in them, all of them complete.
CutOff(t, s, p) ==
  /\ p \in 0..Len(t)
  /\ Len(s.carry) = Len(t) - p
  /\ \A k \in 1..Len(s.carry) : s.carry[k] = t[p + k]
  /\ p = 0 \/ t[p] = "LF"
  /\ Told(t, s.seen, p)
  /\ Upto(t, p) \subseteq Complete(t)

\* A delimiter of the carry is one of the stream.
LEMMA DelimiterOf ==
  ASSUME NEW t \in Seq(Tokens), NEW s \in Scanner, NEW p, CutOff(t, s, p),
         NEW x \in Cuts(s.carry), NEW q, q = p + (x.at - 1)
  PROVE  /\ q \in Nat /\ q + x.len <= Len(t) /\ x.len \in {2, 4} /\ p <= q
         /\ \A k \in 1..x.len : t[q + k] \in {"CR", "LF"}
         /\ t[q + x.len] = "LF"
         /\ \E j \in Nat : q < j /\ j <= Len(t) /\ Blank(t, j)
PROOF
  <1> DEFINE c == s.carry
             a == x.at
  <1>1. /\ c \in Seq(Tokens) /\ Len(c) \in Nat /\ Len(t) \in Nat /\ p \in Nat
        /\ Len(c) = Len(t) - p /\ \A k \in 1..Len(c) : c[k] = t[p + k]
    BY DEF CutOff, Scanner
  <1>2. /\ a \in 1..Len(c) /\ x.len \in {2, 4} /\ a + x.len <= Len(c) + 1
        /\ x.len = 2 => LfCut(c, a)
        /\ x.len = 4 => CrLfCut(c, a)
    BY <1>1, CutType
  <1> HIDE DEF c, a
  <1>3. q \in Nat /\ p <= q /\ q + x.len <= Len(t) /\ q = p + (a - 1)
    BY <1>1, <1>2 DEF a
  <1>4. \A k \in 0..3 : a + k <= Len(c) => c[a + k] = t[q + (k + 1)]
    <2> TAKE k \in 0..3
    <2> SUFFICES ASSUME a + k <= Len(c) PROVE c[a + k] = t[q + (k + 1)]
      OBVIOUS
    <2>1. a + k \in 1..Len(c) /\ p + (a + k) = q + (k + 1)
      BY <1>1, <1>2, <1>3
    <2> QED BY <1>1, <2>1
  <1>5. a + 0 = a /\ 0 + 1 = 1 /\ 1 + 1 = 2 /\ 2 + 1 = 3 /\ 3 + 1 = 4
    BY <1>2
  <1>6. CASE x.len = 2
    <2>1. c[a] = "LF" /\ c[a + 1] = "LF" /\ a + 1 <= Len(c)
      BY <1>2, <1>6 DEF LfCut
    <2>2. t[q + 1] = "LF" /\ t[q + 2] = "LF"
      <3>1. 0 \in 0..3 /\ 1 \in 0..3 /\ a + 0 <= Len(c)
        BY <1>1, <1>2, <2>1
      <3> QED BY <1>4, <1>5, <2>1, <3>1
    <2>3. \A k \in 1..x.len : k = 1 \/ k = 2
      BY <1>6
    <2>4. /\ q + 1 \in Nat /\ q < q + 1 /\ q + 1 <= Len(t)
          /\ q + 1 < Len(t) /\ (q + 1) + 1 = q + 2
      BY <1>1, <1>3, <1>6
    <2>5. Blank(t, q + 1)
      BY <2>2, <2>4 DEF Blank
    <2> QED BY <1>2, <1>3, <1>6, <2>2, <2>3, <2>4, <2>5
  <1>7. CASE x.len = 4
    <2>1. /\ c[a] = "CR" /\ c[a + 1] = "LF" /\ c[a + 2] = "CR" /\ c[a + 3] = "LF"
          /\ a + 3 <= Len(c)
      BY <1>2, <1>7 DEF CrLfCut
    <2>2. t[q + 1] = "CR" /\ t[q + 2] = "LF" /\ t[q + 3] = "CR" /\ t[q + 4] = "LF"
      <3>1. /\ 0 \in 0..3 /\ 1 \in 0..3 /\ 2 \in 0..3 /\ 3 \in 0..3
            /\ a + 0 <= Len(c) /\ a + 1 <= Len(c) /\ a + 2 <= Len(c)
        BY <1>1, <1>2, <2>1
      <3> QED BY <1>4, <1>5, <2>1, <3>1
    <2>3. \A k \in 1..x.len : k = 1 \/ k = 2 \/ k = 3 \/ k = 4
      BY <1>7
    <2>4. /\ q + 2 \in Nat /\ q < q + 2 /\ q + 2 <= Len(t)
          /\ (q + 2) + 1 < Len(t) /\ (q + 2) + 1 = q + 3 /\ (q + 2) + 2 = q + 4
      BY <1>1, <1>3, <1>7
    <2>5. Blank(t, q + 2)
      BY <2>2, <2>4 DEF Blank
    <2> QED BY <1>2, <1>3, <1>7, <2>2, <2>3, <2>4, <2>5
  <1> QED BY <1>2, <1>6, <1>7

\* A round of the loop cuts off one event more.
LEMMA CutOneTells ==
  ASSUME NEW t \in Seq(Tokens), Uniform(t), NEW s \in Scanner, NEW p, CutOff(t, s, p)
  PROVE  \E r \in Nat : CutOff(t, CutOne(s), r)
PROOF
  <1>1. CASE Stuck(s)
    BY <1>1, CutOneIs DEF CutOff
  <1>2. CASE ~Stuck(s)
    <2> DEFINE c == s.carry
               x == FirstCut(c)
               e == SubSeq(c, 1, x.at - 1)
               f == SubSeq(c, x.at + x.len, Len(c))
               q == p + (x.at - 1)
               r == q + x.len
               n == Process(s.seen, e)
    <2>1. /\ c \in Seq(Tokens) /\ s.seen \in Seen /\ Len(c) \in Nat
          /\ Len(t) \in Nat /\ p \in Nat /\ p <= Len(t)
          /\ Len(c) = Len(t) - p /\ \A k \in 1..Len(c) : c[k] = t[p + k]
      BY DEF CutOff, Scanner
    <2>2. x \in Cuts(c)
      BY <1>2, <2>1, FirstCutIs DEF Stuck
    <2>3. CutOne(s) = [carry |-> f, seen |-> n]
      BY <1>2 DEF Stuck, CutOne
    <2> HIDE DEF x
    <2>4. /\ x.at \in 1..Len(c) /\ x.len \in {2, 4} /\ x.at + x.len <= Len(c) + 1
      BY <2>1, <2>2, CutType
    <2>5. /\ q \in Nat /\ r <= Len(t) /\ p <= q
          /\ \A k \in 1..x.len : t[q + k] \in {"CR", "LF"}
          /\ t[r] = "LF"
          /\ \E j \in Nat : q < j /\ j <= Len(t) /\ Blank(t, j)
      BY <2>2, DelimiterOf
    <2>6. /\ e \in Seq(Tokens) /\ Len(e) = x.at - 1
          /\ \A i \in 1..(x.at - 1) : e[i] = c[i]
          /\ f \in Seq(Tokens) /\ Len(f) = Len(c) + 1 - (x.at + x.len)
          /\ \A i \in 1..(Len(c) + 1 - (x.at + x.len)) : f[i] = c[x.at + x.len + i - 1]
      BY <2>1, <2>2, CutParts
    <2> HIDE DEF c, e, f, n
    <2>7. q = p + Len(e)
      BY <2>6
    <2>8. Told(t, n, q)
      <3>1. PartAt(t, p, e)
        <4>1. \A k \in 1..Len(e) : k \in 1..Len(c) /\ e[k] = c[k]
          BY <2>1, <2>4, <2>6
        <4>2. p + Len(e) <= Len(t)
          BY <2>1, <2>4, <2>6
        <4> QED BY <2>1, <4>1, <4>2 DEF PartAt
      <3>2. q < Len(t) /\ t[q + 1] \in {"CR", "LF"}
        BY <2>1, <2>4, <2>5
      <3>3. (p = 0 \/ t[p] = "LF") /\ Told(t, s.seen, p)
        BY DEF CutOff
      <3>4. p + Len(e) < Len(t) /\ t[p + Len(e) + 1] \in {"CR", "LF"}
        BY <2>1, <2>7, <3>2
      <3>5. Told(t, n, p + Len(e))
        BY <2>1, <2>6, <3>1, <3>3, <3>4, ProcessTells DEF n
      <3> QED BY <2>7, <3>5
    <2> HIDE DEF q
    <2>9. r \in Nat /\ r > q
      BY <2>4, <2>5
    <2>10. Upto(t, r) = Upto(t, q)
      <3>1. ASSUME NEW b \in Begins(t), b <= r, b > q PROVE FALSE
        <4>1. b \in Nat /\ t[b] \notin {"CR", "LF"}
          BY DEF Begins
        <4>2. b - q \in 1..x.len /\ q + (b - q) = b
          BY <2>4, <2>5, <3>1, <4>1
        <4> QED BY <2>5, <4>1, <4>2
      <3>2. \A b \in Begins(t) : b \in Nat
        BY DEF Begins
      <3>3. \A b \in Begins(t) : b <= r <=> b <= q
        BY <2>4, <2>5, <2>9, <3>1, <3>2
      <3> QED BY <3>3 DEF Upto
    <2>11. Told(t, n, r)
      BY <2>8, <2>10 DEF Told
    <2>12. Upto(t, r) \subseteq Complete(t)
      <3> SUFFICES ASSUME NEW b \in Upto(t, q) PROVE b \in Complete(t)
        BY <2>10
      <3>1. PICK j \in Nat : q < j /\ j <= Len(t) /\ Blank(t, j)
        BY <2>5
      <3>2. b \in Begins(t) /\ b <= q /\ b \in Nat
        BY DEF Upto, Begins
      <3>3. j \in (b + 1)..Len(t)
        BY <2>1, <2>5, <3>1, <3>2
      <3> QED BY <3>1, <3>2, <3>3 DEF Complete
    <2>13. Len(f) = Len(t) - r
      <3> DEFINE a == x.at
                 l == x.len
      <3>1. /\ a \in Nat /\ l \in Nat /\ Len(f) = Len(c) + 1 - (a + l)
            /\ r = (p + (a - 1)) + l
        <4>1. Len(c) \in Nat /\ a \in 1..Len(c) /\ l \in {2, 4}
          BY <2>1, <2>4
        <4>2. Len(f) = Len(c) + 1 - (a + l)
          BY <2>6
        <4>3. r = (p + (a - 1)) + l
          BY DEF q
        <4> HIDE DEF a, l, r
        <4> QED BY <4>1, <4>2, <4>3
      <3>2. Len(c) \in Nat /\ Len(t) \in Nat /\ p \in Nat /\ Len(c) = Len(t) - p
        BY <2>1
      <3> HIDE DEF a, l, r
      <3> QED BY <3>1, <3>2
    <2>14. ASSUME NEW k \in 1..Len(f) PROVE f[k] = t[r + k]
      <3>1. /\ x.at + x.len + k - 1 \in 1..Len(c)
            /\ p + (x.at + x.len + k - 1) = r + k
            /\ k \in 1..(Len(c) + 1 - (x.at + x.len))
        <4> DEFINE a == x.at
                   l == x.len
        <4>1. a \in Nat /\ l \in Nat /\ a >= 1 /\ l >= 1 /\ r = (p + (a - 1)) + l
          <5>1. Len(c) \in Nat /\ a \in 1..Len(c) /\ l \in {2, 4}
            BY <2>1, <2>4
          <5>2. r = (p + (a - 1)) + l
            BY DEF q
          <5> HIDE DEF a, l, r
          <5> QED BY <5>1, <5>2
        <4>2. Len(f) = Len(c) + 1 - (a + l) /\ Len(c) \in Nat /\ p \in Nat
          BY <2>1, <2>6
        <4>3. k \in Nat /\ k >= 1 /\ k <= Len(c) + 1 - (a + l)
          BY <2>14, <4>1, <4>2
        <4> HIDE DEF a, l, r
        <4>4. /\ a + l + k - 1 \in 1..Len(c)
              /\ p + (a + l + k - 1) = r + k
              /\ k \in 1..(Len(c) + 1 - (a + l))
          BY <4>1, <4>2, <4>3
        <4> QED BY <4>4 DEF a, l
      <3>2. f[k] = c[x.at + x.len + k - 1]
        BY <2>6, <3>1
      <3> QED BY <2>1, <3>1, <3>2
    <2>15. r \in 0..Len(t)
      BY <2>1, <2>5, <2>9
    <2> HIDE DEF r
    <2>16. CutOff(t, [carry |-> f, seen |-> n], r)
      BY <2>5, <2>11, <2>12, <2>13, <2>14, <2>15 DEF CutOff
    <2> QED BY <2>3, <2>9, <2>16 DEF n
  <1> QED BY <1>1, <1>2

\* A scanner with nothing to cut has cut off every complete field.
LEMMA StuckTells ==
  ASSUME NEW t \in Seq(Tokens), Uniform(t), NEW s \in Scanner, NEW p, CutOff(t, s, p),
         Stuck(s), ~s.seen.broken
  PROVE  s.seen = Report(t, Complete(t))
PROOF
  <1> DEFINE c == s.carry
  <1>1. /\ c \in Seq(Tokens) /\ Len(c) \in Nat /\ Len(t) \in Nat /\ p \in Nat
        /\ Len(c) = Len(t) - p /\ \A k \in 1..Len(c) : c[k] = t[p + k]
    BY DEF CutOff, Scanner
  <1>2. \A i \in Nat : ~LfCut(c, i) /\ ~CrLfCut(c, i)
    BY <1>1, CutsAre DEF Stuck
  <1> HIDE DEF c
  <1>3. ASSUME NEW b \in Complete(t), b > p PROVE FALSE
    <2>1. PICK j \in (b + 1)..Len(t) : Blank(t, j)
      BY DEF Complete
    <2>2. b \in Nat /\ b \in 1..Len(t) /\ t[b] # "CR"
      BY DEF Complete, Begins
    <2>3. j \in Nat /\ j > b /\ j <= Len(t) /\ j - p \in 1..Len(c) /\ p + (j - p) = j
      BY <1>1, <1>3, <2>2
    <2>4. CASE j < Len(t) /\ t[j + 1] = "LF"
      <3>1. (j - p) + 1 \in 1..Len(c) /\ p + ((j - p) + 1) = j + 1
        BY <1>1, <2>3, <2>4
      <3>2. c[j - p] = "LF" /\ c[(j - p) + 1] = "LF"
        BY <1>1, <2>1, <2>3, <2>4, <3>1 DEF Blank
      <3>3. LfCut(c, j - p) /\ j - p \in Nat
        BY <2>3, <3>1, <3>2 DEF LfCut
      <3> QED BY <1>2, <3>3
    <2>5. CASE j + 1 < Len(t) /\ t[j + 1] = "CR" /\ t[j + 2] = "LF"
      <3>1. t[j] = "LF" /\ j \in 1..Len(t) /\ j + 1 \in 1..Len(t)
        BY <1>1, <2>1, <2>3, <2>5 DEF Blank
      <3>2. t[j - 1] = "CR"
        BY <2>5, <3>1 DEF Uniform
      <3>3. j - 1 # b
        BY <2>2, <3>2
      <3> DEFINE i == (j - 1) - p
      <3>4. /\ i \in 1..Len(c) /\ i + 1 \in 1..Len(c)
            /\ i + 2 \in 1..Len(c) /\ i + 3 \in 1..Len(c)
            /\ p + i = j - 1 /\ p + (i + 1) = j /\ p + (i + 2) = j + 1 /\ p + (i + 3) = j + 2
        BY <1>1, <1>3, <2>2, <2>3, <2>5, <3>3
      <3> HIDE DEF i
      <3>5. c[i] = "CR" /\ c[i + 1] = "LF" /\ c[i + 2] = "CR" /\ c[i + 3] = "LF"
        BY <1>1, <2>5, <3>1, <3>2, <3>4
      <3>6. CrLfCut(c, i) /\ i \in Nat
        BY <3>4, <3>5 DEF CrLfCut
      <3> QED BY <1>2, <3>6
    <2> QED BY <2>1, <2>4, <2>5 DEF Blank
  <1>4. \A b \in Complete(t) : b \in Begins(t) /\ b \in Nat
    BY DEF Complete, Begins
  <1>5. \A b \in Complete(t) : b <= p
    BY <1>1, <1>3, <1>4
  <1>6. Complete(t) = Upto(t, p)
    BY <1>4, <1>5 DEF Upto, CutOff
  <1> QED BY <1>6 DEF CutOff, Told

\* Fed in one piece, a stream tells what its complete fields hold.
LEMMA WholeTells ==
  ASSUME NEW t \in Seq(Tokens), Uniform(t), ~Feed(New, t).seen.broken
  PROVE  Feed(New, t).seen = Report(t, Complete(t))
PROOF
  <1> DEFINE s == Joined(New, t)
             C == Cutting(s)
             S == { n \in Nat : \E p \in Nat : CutOff(t, C[n], p) }
  <1>1. s \in Scanner /\ Feed(New, t) = Drain(s)
    BY NewType, FeedType
  <1>2. C \in [Nat -> Scanner] /\ C[0] = s /\ \A n \in Nat : C[n + 1] = CutOne(C[n])
    BY <1>1, CuttingSteps
  <1>3. Drain(s) = C[Len(s.carry)] /\ Len(s.carry) \in Nat /\ Stuck(Drain(s)) /\ Drain(s) \in Scanner
    BY <1>1, CuttingEnds DEF Drain, Scanner
  <1>4. CutOff(t, s, 0)
    <2>1. s = [carry |-> t, seen |-> New.seen]
      BY NewType, JoinedIs, ConcatEmptySeq DEF New
    <2>2. Upto(t, 0) = {}
      BY DEF Upto, Begins
    <2>3. New.seen = Report(t, {})
      <3>1. ToldOf(t, {}) = {} /\ DataOf(t, {}) = {} /\ LastSingle(t, {}) = "none"
        BY DEF ToldOf, DataOf, SinglesOf, LastSingle
      <3>2. Cardinality({}) = 0
        BY FS_EmptySet
      <3> QED BY <3>1, <3>2, ReportIs DEF New
    <2>4. Len(t) \in Nat
      OBVIOUS
    <2>5. Told(t, s.seen, 0) /\ Upto(t, 0) \subseteq Complete(t)
      <3>1. s.seen = New.seen
        BY <2>1
      <3> HIDE DEF s
      <3>2. s.seen = Report(t, Upto(t, 0))
        BY <2>2, <2>3, <3>1
      <3>3. Told(t, s.seen, 0)
        BY <3>2 DEF Told
      <3> QED BY <2>2, <3>3
    <2>6. \A k \in 1..Len(t) : t[k] = t[0 + k]
      OBVIOUS
    <2>7. s.carry = t /\ 0 \in 0..Len(t) /\ Len(t) = Len(t) - 0
      BY <2>1, <2>4
    <2> HIDE DEF s
    <2> QED BY <2>5, <2>6, <2>7 DEF CutOff
  <1> HIDE DEF s, C
  <1>5. 0 \in S
    BY <1>2, <1>4
  <1>6. ASSUME NEW n \in Nat, n \in S PROVE n + 1 \in S
    BY <1>2, <1>6, CutOneTells
  <1> HIDE DEF S
  <1>7. Nat \subseteq S
    BY <1>5, <1>6, SetInduction
  <1>8. PICK p \in Nat : CutOff(t, Drain(s), p)
    BY <1>3, <1>7 DEF S
  <1> QED BY <1>1, <1>3, <1>8, StuckTells

\* On a stream of uniform line ends the scanner sees the data fields that a
\* blank line completes and no others, in every division into chunks: what
\* relay_gen takes for the events, the [DONE] and the usage of the stream.
THEOREM AgreesWithStreamHolds == Spec => []AgreesWithStream
PROOF
  <1>1. TypeOK /\ ChunkingInvisible => AgreesWithStream
    BY WholeTells DEF TypeOK, ChunkingInvisible, AgreesWithStream
  <1> QED BY <1>1, ScannerTypeHolds, ChunkingInvisibleHolds, PTL

==============================================================================

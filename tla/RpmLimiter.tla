----------------------------- MODULE RpmLimiter ------------------------------
(****************************************************************************)
(* FixedWindowRpmLimiter of core/ratelimit.py: per API key one window start *)
(* and one count, in memory.  check() runs without an await, so calls are   *)
(* atomic; what makes it delicate is the arithmetic of windows on a clock   *)
(* that is read in fractions of a second, the Retry-After header in whole   *)
(* seconds, and the limit, which every call brings along: it was read with  *)
(* the row of its key, and commands change it in the middle of a window.    *)
(* Time is in ticks, Second of them to the second.                          *)
(****************************************************************************)
EXTENDS Integers, Sequences, FiniteSets

CONSTANTS
  Keys,           \* API keys
  Limits,         \* values of rpm_limit: any integer, the commands check nothing
  Second,         \* readings of the clock in a second
  WindowSeconds,  \* WINDOW_SECONDS
  Horizon,        \* bound: the clock stops there
  MaxCalls        \* bound: counted calls of each key in one process

ASSUME LimiterAssumption ==
  /\ Limits \subseteq Int
  /\ Second \in Nat \ {0}
  /\ WindowSeconds \in Nat \ {0}
  /\ Horizon \in Nat
  /\ MaxCalls \in [Keys -> Nat]

VARIABLES
  now,      \* time.time()
  start,    \* _counters[key][0], as the number of the window
  count,    \* _counters[key][1]
  calls     \* history: the counted calls of a key in this process, in their order,
            \* each with its time and its limit and what check() returned

vars == <<now, start, count, calls>>

Window == Second * WindowSeconds

WindowOf(t) == t \div Window

\* Mutant of RetryAfter: rounded down.
RetryAfterRoundedDown(t) ==
  LET s == ((WindowOf(t) + 1) * Window - t) \div Second
  IN  IF s > 1 THEN s ELSE 1

\* max(1, int(window_end - t) + 1)
RetryAfter(t) ==
  LET s == ((WindowOf(t) + 1) * Window - t) \div Second + 1
  IN  IF s > 1 THEN s ELSE 1

\* A key without counter and one whose counter is <<0, 0>> are the same.
Fresh ==
  /\ start = [k \in Keys |-> 0]
  /\ count = [k \in Keys |-> 0]
  /\ calls = [k \in Keys |-> << >>]

Init == now = 0 /\ Fresh

\* Mutant of CountedBefore: a key's window starts with its first call.
CountedSinceFirstCall(k) ==
  IF WindowOf(now) > start[k] + 1 THEN 0 ELSE count[k]

\* The calls the window of now has seen: a counter of another window is dropped.
CountedBefore(k) == IF start[k] = WindowOf(now) THEN count[k] ELSE 0

\* Mutant of Allowed: one call too many.
AllowedOneMore(n, limit) == n <= limit + 1

Allowed(n, limit) == n <= limit

\* What check() returns for the n-th call of a window, with what it was called with.
Answered(n, limit) ==
  [ at      |-> now,
    limit   |-> limit,
    allowed |-> Allowed(n, limit),
    retry   |-> IF Allowed(n, limit) THEN 0 ELSE RetryAfter(now) ]

\* check(key_id, limit): the call is counted before it is judged.  A call whose
\* limit is None is let in and not counted: it changes nothing here.
Check(k, limit) ==
  LET n == CountedBefore(k) + 1
  IN  /\ Len(calls[k]) < MaxCalls[k]
      /\ start' = [start EXCEPT ![k] = WindowOf(now)]
      /\ count' = [count EXCEPT ![k] = n]
      /\ calls' = [calls EXCEPT ![k] = Append(@, Answered(n, limit))]
      /\ UNCHANGED now

\* The wall clock goes on; a clock that is set back is not modelled.
Tick == now < Horizon /\ now' = now + 1 /\ UNCHANGED <<start, count, calls>>

\* A new process has a new limiter.
Restart ==
  /\ start' = [k \in Keys |-> 0]
  /\ count' = [k \in Keys |-> 0]
  /\ calls' = [k \in Keys |-> << >>]
  /\ UNCHANGED now

Next ==
  \/ \E k \in Keys, limit \in Limits : Check(k, limit)
  \/ Tick
  \/ Restart

Spec == Init /\ [][Next]_vars

------------------------------------------------------------------------------
(* Properties, over the calls of a key in the order they were made *)

Call == [at : Nat, limit : Int, allowed : BOOLEAN, retry : Nat]

\* The type of every variable.
TypeOK ==
  /\ now \in Nat
  /\ start \in [Keys -> Nat]
  /\ count \in [Keys -> Nat]
  /\ calls \in [Keys -> Seq(Call)]

CallsOf(k) == 1..Len(calls[k])

\* The calls up to the i-th that fell into its window, and those of them let in.
InWindow(k, i) == { j \in 1..i : WindowOf(calls[k][j].at) = WindowOf(calls[k][i].at) }

LetIn(k, i) == { j \in InWindow(k, i) : calls[k][j].allowed }

\* Whoever is let in is one of the first rpm_limit calls let in in this window of
\* the clock, for the rpm_limit it came with: while nobody changes the limit no
\* window lets in more calls than it, and under a limit that was lowered a call
\* is only let in if those let in before under the higher one leave room for it.
WindowBounded ==
  \A k \in Keys : \A i \in CallsOf(k) :
    calls[k][i].allowed => Cardinality(LetIn(k, i)) <= calls[k][i].limit

\* A call is only refused when rpm_limit calls were let in before it in the same
\* window: refused calls, which are counted too, cost nothing.  There is one
\* exception: when the limit was raised after refusals, the calls that the lower
\* limit refused in this window are held against the higher one.
RefusedOnlyWhenFull ==
  \A k \in Keys : \A i \in CallsOf(k) :
    ~calls[k][i].allowed =>
      \/ Cardinality(LetIn(k, i)) >= calls[k][i].limit
      \/ \E j \in InWindow(k, i) :
           ~calls[k][j].allowed /\ calls[k][j].limit < calls[k][i].limit

\* A client that comes back when Retry-After told it to (USER_GUIDE.zh-CN.md 370)
\* is refused again only if another call was let in after its refusal, or came
\* when the limit was none.  For a limit of none, which the commands
\* accept, no time to come back is right.
RetryAfterHonoured ==
  \A k \in Keys : \A i, j \in CallsOf(k) :
    /\ ~calls[k][i].allowed
    /\ ~calls[k][j].allowed
    /\ calls[k][j].limit > 0
    /\ calls[k][i].at + calls[k][i].retry * Second <= calls[k][j].at
    => \E m \in 1..(j - 1) :
         /\ calls[k][m].at > calls[k][i].at
         /\ calls[k][m].allowed \/ calls[k][m].limit <= 0

==============================================================================

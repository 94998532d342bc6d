------------------------------ MODULE UsageTime ------------------------------
(****************************************************************************)
(* Time in usage statistics: the periods of services/usage_service.py and   *)
(* the buckets of services/analytics.py, in a time zone whose offset may    *)
(* change.                                                                  *)
(*                                                                          *)
(* An instant (a Unix time) is a number of hours.  A local time is what an  *)
(* aware datetime is: a wall clock and the fold that tells the second pass  *)
(* of a repeated hour.  As in Python, arithmetic with timedelta is done on  *)
(* the wall clock and gives fold 0, while replace() keeps the fold.  Wall   *)
(* clocks count from the midnight of a Monday that begins a month and a     *)
(* year.                                                                    *)
(****************************************************************************)
EXTENDS Integers

CONSTANTS
  Hours,        \* of a day of the calendar (24)
  WeekDays,     \* of a week (7)
  MonthDays,    \* of a month
  YearMonths    \* of a year

ASSUME CalendarAssumption ==
  /\ {Hours, WeekDays, MonthDays, YearMonths} \subseteq Nat \ {0}
  /\ WeekDays % 2 = 1

\* A bound of a range is the set of its instant, or empty: no bound.
Unbounded == {}

------------------------------------------------------------------------------
(* The zone: an offset before and an offset from the instant "at" on *)

Later(z) == IF z.before < z.after THEN z.after ELSE z.before
Earlier(z) == IF z.before < z.after THEN z.before ELSE z.after

\* datetime.fromtimestamp(i, zone)
Local(z, i) ==
  [wall |-> i + (IF i < z.at THEN z.before ELSE z.after),
   fold |-> IF i >= z.at /\ i < z.at + z.before - z.after THEN 1 ELSE 0]

\* dt.timestamp(): a wall clock that occurs twice is told by the fold, one that
\* is left out is taken with the offset before (fold 0) or after (fold 1).
Stamp(z, l) ==
  l.wall - (IF l.wall < z.at + (IF l.fold = 0 THEN Later(z) ELSE Earlier(z))
            THEN z.before ELSE z.after)

LeftOut(z, wall) == z.at + z.before <= wall /\ wall < z.at + z.after
Repeated(z, wall) == z.at + z.after <= wall /\ wall < z.at + z.before

------------------------------------------------------------------------------
(* The calendar *)

Day(wall) == wall \div Hours
Month(wall) == Day(wall) \div MonthDays
YearDays == MonthDays * YearMonths
Weekday(wall) == Day(wall) % WeekDays

\* Mutant of WeekKey: the year of the day itself (strftime %Y-W%V).
WeekKeyOfYear(wall) ==
  LET middle == (Day(wall) - Weekday(wall)) + (WeekDays \div 2)
  IN  <<Day(wall) \div YearDays, ((middle % YearDays) \div WeekDays) + 1>>

\* isocalendar: a week belongs to the year of its middle day.
WeekKey(wall) ==
  LET middle == (Day(wall) - Weekday(wall)) + (WeekDays \div 2)
  IN  <<middle \div YearDays, ((middle % YearDays) \div WeekDays) + 1>>

\* _bucket_key; the wall clock is all it looks at.
BucketKey(z, i, granularity) ==
  LET wall == Local(z, i).wall
  IN  CASE granularity = "hour" -> <<wall>>
        [] granularity = "day" -> <<Day(wall)>>
        [] granularity = "week" -> WeekKey(wall)
        [] granularity = "month" -> <<Month(wall)>>

------------------------------------------------------------------------------
(* resolve_time_range *)

Periods == {"today", "yesterday", "24h", "7d", "week", "month", "all"}

\* Mutant of Midnight: by the clock of the server, which is on UTC.
MidnightUtc(l) == [wall |-> l.wall - ((l.wall + 1) % Hours), fold |-> 0]

\* now.replace(hour=0, ...)
Midnight(l) == [l EXCEPT !.wall = Day(l.wall) * Hours]

\* now.replace(day=1, hour=0, ...)
MonthStart(l) == [l EXCEPT !.wall = Month(l.wall) * MonthDays * Hours]

\* dt - timedelta
Minus(l, hours) == [wall |-> l.wall - hours, fold |-> 0]

\* start_ms and end_ms of a period.
RangeOfPeriod(z, period, now) ==
  LET l == Local(z, now)
      From(dt) == [from |-> {Stamp(z, dt)}, to |-> Unbounded]
      yesterday == Stamp(z, Minus(Midnight(l), Hours))
  IN  CASE period = "today" -> From(Midnight(l))
        [] period = "yesterday" -> [from |-> {yesterday}, to |-> {yesterday + Hours}]
        [] period = "24h" -> From(Minus(l, Hours))
        [] period = "7d" -> From(Minus(l, WeekDays * Hours))
        [] period = "week" -> From(Minus(Midnight(l), Weekday(l.wall) * Hours))
        [] period = "month" -> From(MonthStart(l))
        [] period = "all" -> [from |-> Unbounded, to |-> Unbounded]

\* Mutant of ParseLocal: the second pass of a repeated hour is meant.
ParseLocalLate(z, wall) == Stamp(z, [wall |-> wall, fold |-> 1])

\* parse_local_ms of a datetime without offset.
ParseLocal(z, wall) == Stamp(z, [wall |-> wall, fold |-> 0])

\* PERIOD_DEFAULT_GROUP
DefaultGroup(period) ==
  IF period \in {"today", "yesterday", "24h"} THEN "hour" ELSE "day"

\* started_at >= from AND started_at < to
InRange(i, range) ==
  /\ \A from \in range.from : i >= from
  /\ \A to \in range.to : i < to

------------------------------------------------------------------------------
(* What a period should be *)

\* The instants up to now that fall into the bucket of now.
BucketSoFar(z, granularity, now) ==
  LET key == BucketKey(z, now, granularity)
  IN  { i \in 0..now : BucketKey(z, i, granularity) = key }

InPeriodSoFar(z, period, now) ==
  LET range == RangeOfPeriod(z, period, now)
  IN  { i \in 0..now : InRange(i, range) }

\* The repeated hour after a midnight that is itself repeated, on its second pass.
SecondMidnight(z, now) ==
  Local(z, now).fold = 1 /\ Repeated(z, Midnight(Local(z, now)).wall)

\* The instants of the day before that of now.
DayBefore(z, now) ==
  LET today == Day(Local(z, now).wall)
  IN  { i \in 0..now : Day(Local(z, i).wall) = today - 1 }

\* Between two instants a period has come to mean something else.
Turned(z, period, i, j) ==
  \/ period \in {"24h", "7d"} /\ i # j
  \/ period \in {"today", "yesterday"} /\ BucketKey(z, i, "day") # BucketKey(z, j, "day")
  \/ period = "week" /\ BucketKey(z, i, "week") # BucketKey(z, j, "week")
  \/ period = "month" /\ BucketKey(z, i, "month") # BucketKey(z, j, "month")
  \/ period \in {"today", "month"} /\ SecondMidnight(z, i) # SecondMidnight(z, j)

\* A day that is over, and had an hour more or less than the others.
LongDay(day) == \E i, j \in day : j - i = Hours
ShortDay(day) == ~LongDay(day) /\ ~\E i, j \in day : j - i = Hours - 1
==============================================================================

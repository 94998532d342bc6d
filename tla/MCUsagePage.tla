----------------------------- MODULE MCUsagePage -----------------------------
(* Days of 4 hours, weeks of 3, months of 2 and years of 4 days.  Zones      *)
(* without change, with an hour left out or repeated by day or at midnight,   *)
(* all within day 3, which a week has in common with the next year.           *)
EXTENDS UsagePage

\* The clock goes from wall to wall + by.
Change(wall, by) ==
  IF by = 1 THEN [at |-> wall, before |-> 0, after |-> 1]
  ELSE [at |-> wall - 1, before |-> 1, after |-> 0]

MCZones ==
  { [at |-> 12, before |-> 0, after |-> 0],
    Change(14, 1), Change(15, -1),      \* by day
    Change(12, 1), Change(13, -1),      \* the midnight left out, repeated
    Change(12, -1) }                    \* the hour before midnight repeated

\* Days 2 to 4.  The page is opened in the last hour of day 2, which is the last
\* of its week, and in those before a change by day and before the end of day 3.
MCClock == 8..19
MCOpenings == {11, 13, 15}

MCRequests == {"late", "early"}
MCAge == [r \in MCRequests |-> IF r = "late" THEN 0 ELSE 4]

\* The hour that changes and the one before it; two periods that move.
MCOtherFilters(z) ==
  LET hour == z.at + z.before
  IN  IF z.before # z.after THEN {Custom(hour, hour + 1), Custom(hour - 1, hour)}
      ELSE {[period |-> "24h"], [period |-> "week"]}
==============================================================================

------------------------------ MODULE UsagePage ------------------------------
(****************************************************************************)
(* The usage page of the dashboard (web/static/usage.js) and the two calls  *)
(* each of its loads makes (routers/admin_usage.py), while requests end and *)
(* their logs land, and while the clock goes on.                            *)
(*                                                                          *)
(* A call resolves its period first, then awaits look-ups, then selects the *)
(* logs; the two calls of a load do so independently.  Sums over logs are   *)
(* abstracted to the sets of requests they are over.  The filters by user,  *)
(* key and model are constant on the page and left out.                     *)
(****************************************************************************)
EXTENDS UsageTime, Sequences

CONSTANTS
  Zones,       \* time zones to be configured
  Clock,       \* bound: the instants, an interval
  Openings,    \* bound: those of them at which the page is opened
  Requests,    \* requests of the period
  Age,         \* how long before the page is opened each of them started
  Late,        \* requests whose logs land while the page is open
  OtherFilters(_),  \* filters, beside the default, that may be chosen in a zone
  MaxTicks,    \* bound: hours that go by from then on
  MaxLoads     \* bound: loads of the page

ASSUME UsageAssumption ==
  /\ Zones \subseteq [at : Int, before : Int, after : Int]
  /\ Age \in [Requests -> Nat]
  /\ Late \subseteq Requests
  /\ Clock \subseteq Nat
  /\ MaxTicks \in Nat
  /\ MaxLoads \in Nat

\* A change of the clocks is by one hour, and the instants begin before the day
\* before any that the clock shows.
ASSUME ClockAssumption ==
  \A z \in Zones :
    /\ z.after - z.before \in {-1, 0, 1}
    /\ \A i \in Clock : Day(Local(z, i).wall) >= Day(Local(z, 0).wall) + 2

\* The filters of the form and of the addresses that the page writes: a period,
\* or a range of local times that begins before it ends (usage.js 504).
ASSUME FiltersAssumption ==
  \A z \in Zones : \A filters \in OtherFilters(z) :
    \/ filters \in [period : Periods]
    \/ filters \in [period : {"custom"}, from : Int, to : Int] /\ filters.from < filters.to

VARIABLES
  zone,      \* usage.timezone
  now,
  opened,    \* when the page was opened, or the clock began
  landed,    \* requests whose log is on disk
  choice,    \* the filters the user may choose beside the default
  url,       \* the filters in the address
  isLoading,
  loads,     \* the loads begun, with their filters and their calls
  shown,     \* what each place of the page shows, and of which load
  dropped    \* the user's last click was a Reset during a load

env == <<zone, choice>>
page == <<url, isLoading, loads, shown, dropped>>
vars == <<env, now, opened, landed, page>>

\* The two calls of a load.
Panels == {"summary", "series"}

\* What they are drawn in: the cards with the line of the range, the charts of
\* requests and of tokens, the table.
Places == {"cards", "requests", "tokens", "table"}

Default == [period |-> "today"]
Custom(from, to) == [period |-> "custom", from |-> from, to |-> to]

Started(r) == opened - Age[r]

\* A call: when its period was resolved, the logs there were at its SELECT, and
\* what it made of them.
Fresh == [stage |-> "sent", asked |-> 0, seen |-> {}, answer |-> {}]
Calls == [p \in Panels |-> Fresh]
Forgotten == [p \in Panels |-> [Fresh EXCEPT !.stage = "drawn"]]

Blank == [load |-> 0, what |-> "nothing"]

Init ==
  /\ zone \in Zones
  /\ now \in { i \in Clock : \A j \in Clock : i <= j }
  /\ opened = now
  /\ landed = Requests \ Late
  /\ choice \in OtherFilters(zone)
  /\ url \in {Default, choice}
  /\ isLoading = FALSE
  /\ loads = <<>>
  /\ shown = [place \in Places |-> Blank]
  /\ dropped = FALSE

------------------------------------------------------------------------------
(* The page *)

NewLoad(filters) ==
  [filters |-> filters, call |-> Calls, rendered |-> FALSE]

\* setSummaryLoading(true), setTimeseriesLoading(true): the chart of tokens is
\* left as it is.
Loading(k) ==
  [place \in Places |-> IF place = "tokens" THEN shown[place]
                        ELSE [load |-> k, what |-> "loading"]]

\* loadUsage past its guard: the calls of both panels are sent.
Begin(filters) ==
  /\ Len(loads) < MaxLoads
  /\ isLoading' = TRUE
  /\ url' = filters
  /\ loads' = Append(loads, NewLoad(filters))
  /\ shown' = Loading(Len(loads) + 1)

\* The initial load, with the filters of the address.
Open ==
  /\ loads = <<>>
  /\ now \in Openings
  /\ opened' = now
  /\ Begin(url)
  /\ UNCHANGED <<env, now, landed, dropped>>

\* onApplyClick, whose button is disabled during a load, with what is in the form.
Apply ==
  /\ loads # <<>>
  /\ ~isLoading
  /\ \E form \in {Default, choice} :
       /\ form.period = "custom" => form.from < form.to
       /\ Begin(form)
  /\ dropped' = FALSE
  /\ UNCHANGED <<env, now, opened, landed>>

\* Mutant of Reset: loadUsage does not look at isLoading.
ResetAlways ==
  /\ loads # <<>>
  /\ Begin(Default)
  /\ dropped' = FALSE
  /\ UNCHANGED <<env, now, opened, landed>>

\* onResetClick: its button is not disabled, but loadUsage returns at once when a
\* load is under way.
Reset ==
  /\ loads # <<>>
  /\ \/ isLoading /\ dropped' = TRUE /\ url' = Default /\ UNCHANGED <<isLoading, loads, shown>>
     \/ ~isLoading /\ dropped' = FALSE /\ Begin(Default)
  /\ UNCHANGED <<env, now, opened, landed>>

\* renderSummary, renderTimeseries and the functions for their errors, of which
\* renderTimeseriesError does not touch the chart of tokens; last the finally
\* block, whose setTimeseriesLoading(false) empties the chart of requests.
Drawing(k) ==
  LET Result(p) == [load |-> k,
                    what |-> IF loads[k].call[p].stage = "answered" THEN "answer" ELSE "error"]
  IN  [cards |-> Result("summary"),
       requests |-> Blank,
       tokens |-> IF Result("series").what = "answer" THEN Result("series") ELSE shown["tokens"],
       table |-> Result("series")]

\* What the calls have brought is drawn and then forgotten.
Drawn(k) ==
  /\ shown' = Drawing(k)
  /\ isLoading' = FALSE
  /\ loads' = [loads EXCEPT ![k].rendered = TRUE, ![k].call = Forgotten]
  /\ UNCHANGED <<env, now, opened, landed, url, dropped>>

\* Mutant of Render: Promise.all, whose rejection nobody catches.
RenderIfAllAnswered(k) ==
  /\ ~loads[k].rendered
  /\ \A p \in Panels : loads[k].call[p].stage = "answered"
  /\ Drawn(k)

\* Promise.allSettled: the load is drawn whatever has become of its calls.
Render(k) ==
  /\ ~loads[k].rendered
  /\ \A p \in Panels : loads[k].call[p].stage \in {"answered", "refused", "failed"}
  /\ Drawn(k)

------------------------------------------------------------------------------
(* The calls *)

Becomes(k, p, call) ==
  /\ loads' = [loads EXCEPT ![k].call[p] = call]
  /\ UNCHANGED <<env, now, opened, landed, url, isLoading, shown, dropped>>

\* Mutant of RangeOf: local times are taken with the offset of today.
RangeOfOffsetNow(filters, i) ==
  LET offset == Local(zone, i).wall - i
  IN  IF filters.period = "custom"
      THEN [from |-> {filters.from - offset}, to |-> {filters.to - offset}]
      ELSE RangeOfPeriod(zone, filters.period, i)

\* What the filters mean at an instant.
RangeOf(filters, i) ==
  IF filters.period = "custom"
  THEN [from |-> {ParseLocal(zone, filters.from)}, to |-> {ParseLocal(zone, filters.to)}]
  ELSE RangeOfPeriod(zone, filters.period, i)

\* _parse_usage_params up to its first await.
Resolve(k, p) ==
  /\ loads[k].call[p].stage = "sent"
  /\ LET range == RangeOf(loads[k].filters, now)
     IN  IF \E from \in range.from, to \in range.to : from >= to
         THEN Becomes(k, p, [Fresh EXCEPT !.stage = "refused"])
         ELSE Becomes(k, p, [Fresh EXCEPT !.stage = "selecting", !.asked = now])

Selected(range) == { r \in landed : InRange(Started(r), range) }

\* The rows of analytics.summary without TOTAL: one per bucket.
SeriesOf(rows, granularity) ==
  LET Key(r) == BucketKey(zone, Started(r), granularity)
  IN  { { r \in rows : Key(r) = Key(q) } : q \in rows }

\* analytics.summary: the SELECT, and what is made of its rows.
Answer(k, p) ==
  /\ loads[k].call[p].stage = "selecting"
  /\ LET call == loads[k].call[p]
         rows == Selected(RangeOf(loads[k].filters, call.asked))
     IN  Becomes(k, p, [call EXCEPT
           !.stage = "answered",
           !.seen = landed,
           !.answer = IF p = "summary" THEN rows
                      ELSE SeriesOf(rows, DefaultGroup(loads[k].filters.period))])

\* The session has expired, the network is down, the database is locked.
Fail(k, p) ==
  /\ loads[k].call[p].stage \in {"sent", "selecting"}
  /\ Becomes(k, p, [Fresh EXCEPT !.stage = "failed"])

------------------------------------------------------------------------------
(* Meanwhile *)

\* The log of a request reaches the disk, however long ago it started.
Land(r) ==
  /\ loads # <<>>
  /\ r \notin landed
  /\ landed' = landed \cup {r}
  /\ UNCHANGED <<env, now, opened, page>>

Tick ==
  /\ now' = now + 1
  /\ IF loads = <<>> THEN now' \in Clock ELSE now' <= opened + MaxTicks
  /\ UNCHANGED <<env, opened, landed, page>>

------------------------------------------------------------------------------
Call(k, p) == Resolve(k, p) \/ Answer(k, p)

Next ==
  \/ Open \/ Apply \/ Reset
  \/ \E k \in DOMAIN loads : Render(k) \/ \E p \in Panels : Call(k, p) \/ Fail(k, p)
  \/ \E r \in Requests : Land(r)
  \/ Tick

Spec == Init /\ [][Next]_vars

\* The gateway answers, or the browser gives up; what is settled is drawn.
FairSpec ==
  /\ Spec
  /\ \A k \in 1..MaxLoads :
       /\ WF_vars(k \in DOMAIN loads /\ Render(k))
       /\ \A p \in Panels : WF_vars(k \in DOMAIN loads /\ Call(k, p))

------------------------------------------------------------------------------
(* Properties of the periods *)

\* Today, this week and this month are what the buckets of the same name say
\* they are, on both sides of a change of the clocks, of a year and of a month;
\* except during the second pass of a repeated midnight, when today and this
\* month begin at its second pass (usage_service.py 46 keeps the fold).
SoFarIsBucket ==
  /\ InPeriodSoFar(zone, "week", now) = BucketSoFar(zone, "week", now)
  /\ \/ SecondMidnight(zone, now)
     \/ /\ InPeriodSoFar(zone, "today", now) = BucketSoFar(zone, "day", now)
        /\ InPeriodSoFar(zone, "month", now) = BucketSoFar(zone, "month", now)

\* Yesterday begins with the day before and ends 24 hours later
\* (usage_service.py 53): it is that day if no clock changed on it, and on a day
\* of 23 or 25 hours it is off by the hour that the day lacks or has over.
YesterdayIsDayBefore ==
  LET yesterday == InPeriodSoFar(zone, "yesterday", now)
      day == DayBefore(zone, now)
  IN  /\ \A i \in yesterday, j \in day : (\A h \in yesterday : i <= h) => i <= j
      /\ \/ yesterday = day
         \/ yesterday \subseteq day /\ LongDay(day)
         \/ day \subseteq yesterday /\ ShortDay(day)

\* The last 24 hours and 7 days are counted on the wall clock (usage_service.py 55
\* and 57): they are that long, unless the clock was changed meanwhile, and then
\* off by the hour it was changed by, in either direction.
LastHoursElapsed ==
  \A last \in { <<"24h", Hours>>, <<"7d", WeekDays * Hours>> } :
    \A from \in RangeOfPeriod(zone, last[1], now).from :
      LET elapsed == now - last[2]
      IN  \/ from = elapsed
          \/ from \in {elapsed - 1, elapsed + 1} /\ from <= zone.at /\ zone.at <= now

\* Every period holds the requests its name promises, as far as the comments
\* above say it does.
PeriodsFollowCalendar == SoFarIsBucket /\ YesterdayIsDayBefore /\ LastHoursElapsed

\* The page lets only ranges through that begin before they end; the gateway
\* refuses one of those (admin_usage.py 41) only if it begins at a local time
\* that the clock leaves out.
RefusedOnlyInGap ==
  \A k \in DOMAIN loads, p \in Panels :
    loads[k].call[p].stage = "refused" => LeftOut(zone, loads[k].filters.from)

------------------------------------------------------------------------------
(* Properties of the page *)

\* When nothing is loading, cards and table show the newest load, its answers or
\* its errors, and not one that was overtaken; the chart of tokens shows it too
\* if its series was answered, and else what it showed before (usage.js 489-496);
\* the chart of requests shows nothing (usage.js 253).  The newest load is the
\* one that the address shows and the user asked for last, unless that was a
\* Reset during a load: it empties form and address, and the load it asks for is
\* never begun (usage.js 211, 531).
ShownIsAskedFor ==
  ~isLoading /\ loads # <<>> =>
    /\ \A place \in {"cards", "table"} :
         shown[place].load = Len(loads) /\ shown[place].what \in {"answer", "error"}
    /\ shown["tokens"].load = Len(loads) <=> shown["table"].what = "answer"
    /\ shown["requests"] = Blank
    /\ dropped \/ loads[Len(loads)].filters = url

\* The requests that an answer of a call is about.
Covered(p, answer) == IF p = "summary" THEN answer ELSE UNION answer

\* The two answers of a load, each with its own clock reading and its own SELECT,
\* are about the same requests, except for those whose logs landed between the
\* SELECTs, and except when the period turned between the readings: a day, week
\* or month in the configured zone, or any time at all for 24h and 7d.  A custom
\* range does not turn, whatever the clock of the zone does meanwhile.
PanelsDifferForCause ==
  \A k \in DOMAIN loads, p, q \in Panels :
    LET one == loads[k].call[p]
        other == loads[k].call[q]
    IN  one.stage = "answered" /\ other.stage = "answered" =>
          \A r \in Covered(p, one.answer) \ Covered(q, other.answer) :
            r \in other.seen => Turned(zone, loads[k].filters.period, one.asked, other.asked)

\* A load ends, whatever becomes of its calls, and so does not disable the page
\* for good.
LoadSettles == isLoading ~> ~isLoading
==============================================================================

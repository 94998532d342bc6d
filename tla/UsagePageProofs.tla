--------------------------- MODULE UsagePageProofs ---------------------------
(****************************************************************************)
(* Theorems of the usage page, for any time zones, calendars and requests   *)
(* and any number of loads.                                                 *)
(****************************************************************************)
EXTENDS UsagePage, TLAPS

Ranges == [from : SUBSET Int, to : SUBSET Int]

CallRecords ==
  [stage : {"sent", "selecting", "refused", "answered", "failed", "drawn"},
   asked : Nat,
   seen : SUBSET Requests,
   answer : (SUBSET Requests) \cup (SUBSET SUBSET Requests)]

LoadRecords ==
  [filters : {Default, choice}, call : [Panels -> CallRecords], rendered : BOOLEAN]

Displays == [load : Nat, what : {"nothing", "loading", "answer", "error"}]

\* The type of every variable of the page.
PageTypeOK ==
  /\ zone \in Zones
  /\ choice \in OtherFilters(zone)
  /\ now \in Nat
  /\ opened \in Nat
  /\ landed \subseteq Requests
  /\ url \in {Default, choice}
  /\ isLoading \in BOOLEAN
  /\ loads \in Seq(LoadRecords)
  /\ shown \in [Places -> Displays]
  /\ dropped \in BOOLEAN

\* What is drawn when nothing is loading.
ShowsNewest ==
  /\ \A place \in {"cards", "table"} :
       shown[place].load = Len(loads) /\ shown[place].what \in {"answer", "error"}
  /\ shown["tokens"].load = Len(loads) <=> shown["table"].what = "answer"
  /\ shown["requests"] = Blank

\* Loads do not overlap: all but the last are drawn, and the last is what the
\* page shows or waits for.  No place shows a later one.
OneLoadAtATime ==
  /\ \A k \in 1..Len(loads) : k # Len(loads) => loads[k].rendered
  /\ shown["tokens"].load <= Len(loads)
  /\ isLoading => loads # << >> /\ shown["tokens"].load < Len(loads)
  /\ loads # << >> =>
       /\ isLoading <=> ~loads[Len(loads)].rendered
       /\ ~isLoading => ShowsNewest
       /\ dropped \/ loads[Len(loads)].filters = url

\* A range is refused for one reason.
Refusals ==
  \A k \in 1..Len(loads), p \in Panels :
    loads[k].call[p].stage = "refused" =>
      loads[k].filters.period = "custom" /\ LeftOut(zone, loads[k].filters.from)

\* What a SELECT over some logs finds.
RowsOf(since, logs, range) == { r \in logs : InRange(since - Age[r], range) }

\* What filters mean in a zone.
RangeIn(z, filters, i) ==
  IF filters.period = "custom"
  THEN [from |-> {ParseLocal(z, filters.from)}, to |-> {ParseLocal(z, filters.to)}]
  ELSE RangeOfPeriod(z, filters.period, i)

\* Both answers are about the logs that were there at the SELECT, and the range
\* that the filters meant when the call was made.
Answers ==
  \A k \in 1..Len(loads), p \in Panels :
    LET call == loads[k].call[p]
    IN  call.stage = "answered" =>
          Covered(p, call.answer) =
            RowsOf(opened, call.seen, RangeIn(zone, loads[k].filters, call.asked))

\* The inductive invariant.
PageInv == PageTypeOK /\ OneLoadAtATime /\ Refusals /\ Answers

------------------------------------------------------------------------------
(* Time *)

\* Instants and wall clocks are whole hours.
LEMMA ClockTypes ==
  ASSUME NEW z \in Zones, NEW i \in Int
  PROVE  /\ Local(z, i).wall \in Int
         /\ Day(i) \in Int /\ Month(i) \in Int /\ Weekday(i) \in Int
         /\ \A fold : Stamp(z, [wall |-> i, fold |-> fold]) \in Int
  <1>1. z.at \in Int /\ z.before \in Int /\ z.after \in Int
    BY UsageAssumption
  <1>2. Hours \in Nat \ {0} /\ WeekDays \in Nat \ {0} /\ MonthDays \in Nat \ {0}
    BY CalendarAssumption
  <1>3. Day(i) \in Int
    BY <1>2 DEF Day
  <1>4. Month(i) \in Int /\ Weekday(i) \in Int
    BY <1>2, <1>3 DEF Month, Weekday
  <1>5. Local(z, i).wall \in Int /\ \A fold : Stamp(z, [wall |-> i, fold |-> fold]) \in Int
    BY <1>1 DEF Local, Stamp
  <1> QED BY <1>3, <1>4, <1>5

\* A named period is a range of instants that ends after it begins, if it ends.
LEMMA PeriodRanges ==
  ASSUME NEW z \in Zones, NEW period \in Periods, NEW i \in Int
  PROVE  /\ RangeOfPeriod(z, period, i) \in Ranges
         /\ \A from \in RangeOfPeriod(z, period, i).from,
               to \in RangeOfPeriod(z, period, i).to : ~(from >= to)
  <1> DEFINE l == Local(z, i)
             W(wall, fold) == [wall |-> wall, fold |-> fold]
  <1>1. l = W(l.wall, l.fold) /\ l.wall \in Int
    BY ClockTypes DEF Local
  <1>2. Hours \in Nat \ {0} /\ WeekDays \in Nat \ {0} /\ MonthDays \in Nat \ {0}
    BY CalendarAssumption
  <1>3. /\ Day(l.wall) * Hours \in Int
        /\ Month(l.wall) * MonthDays * Hours \in Int
        /\ Weekday(l.wall) * Hours \in Int
        /\ WeekDays * Hours \in Int
    BY <1>1, <1>2, ClockTypes
  <1>4. /\ Midnight(l) = W(Day(l.wall) * Hours, l.fold)
        /\ MonthStart(l) = W(Month(l.wall) * MonthDays * Hours, l.fold)
    BY <1>1 DEF Midnight, MonthStart
  <1>5. /\ Minus(Midnight(l), Hours) = W(Day(l.wall) * Hours - Hours, 0)
        /\ Minus(l, Hours) = W(l.wall - Hours, 0)
        /\ Minus(l, WeekDays * Hours) = W(l.wall - WeekDays * Hours, 0)
        /\ Minus(Midnight(l), Weekday(l.wall) * Hours)
             = W(Day(l.wall) * Hours - Weekday(l.wall) * Hours, 0)
    BY <1>4 DEF Minus
  <1> HIDE DEF l, W
  <1>6. \A wall \in Int : \A fold : Stamp(z, W(wall, fold)) \in Int
    BY ClockTypes DEF W
  <1>7. /\ Stamp(z, Midnight(l)) \in Int
        /\ Stamp(z, MonthStart(l)) \in Int
        /\ Stamp(z, Minus(Midnight(l), Hours)) \in Int
        /\ Stamp(z, Minus(l, Hours)) \in Int
        /\ Stamp(z, Minus(l, WeekDays * Hours)) \in Int
        /\ Stamp(z, Minus(Midnight(l), Weekday(l.wall) * Hours)) \in Int
    BY <1>1, <1>2, <1>3, <1>4, <1>5, <1>6
  <1>8. RangeOfPeriod(z, period, i) \in
          { [from |-> {s}, to |-> Unbounded] : s \in Int }
            \cup { [from |-> {s}, to |-> {s + Hours}] : s \in Int }
            \cup { [from |-> Unbounded, to |-> Unbounded] }
    BY <1>7 DEF RangeOfPeriod, Periods, l
  <1> QED BY <1>2, <1>8 DEF Ranges, Unbounded

\* A range of local times turns round only if it begins in the hour left out.
LEMMA TurnedRoundByGap ==
  ASSUME NEW z \in Zones, NEW from \in Int, NEW to \in Int, from < to
  PROVE  /\ ParseLocal(z, from) \in Int /\ ParseLocal(z, to) \in Int
         /\ ParseLocal(z, from) >= ParseLocal(z, to) => LeftOut(z, from)
  <1>1. z.at \in Int /\ z.before \in Int /\ z.after \in Int
    BY UsageAssumption
  <1> QED BY <1>1 DEF ParseLocal, Stamp, Later, LeftOut

\* What _parse_usage_params makes of the filters of a load.
LEMMA FilterRanges ==
  ASSUME PageTypeOK, NEW filters \in {Default, choice}, NEW i \in Int
  PROVE  /\ RangeOf(filters, i) \in Ranges
         /\ (\E from \in RangeOf(filters, i).from, to \in RangeOf(filters, i).to : from >= to)
              => filters.period = "custom" /\ LeftOut(zone, filters.from)
  <1>1. \/ filters \in [period : Periods]
        \/ filters \in [period : {"custom"}, from : Int, to : Int] /\ filters.from < filters.to
    BY FiltersAssumption DEF PageTypeOK, Default, Periods
  <1>2. zone \in Zones
    BY DEF PageTypeOK
  <1>3. CASE filters \in [period : Periods]
    <2>1. filters.period \in Periods /\ filters.period # "custom"
      BY <1>3 DEF Periods
    <2>2. RangeOf(filters, i) = RangeOfPeriod(zone, filters.period, i)
      BY <2>1 DEF RangeOf
    <2> QED BY <1>2, <2>1, <2>2, PeriodRanges
  <1>4. CASE /\ filters \in [period : {"custom"}, from : Int, to : Int]
             /\ filters.from < filters.to
    <2>1. filters.period = "custom" /\ filters.from \in Int /\ filters.to \in Int
      BY <1>4
    <2>2. RangeOf(filters, i) = [from |-> {ParseLocal(zone, filters.from)},
                                 to |-> {ParseLocal(zone, filters.to)}]
      BY <2>1 DEF RangeOf
    <2> QED BY <1>2, <1>4, <2>1, <2>2, TurnedRoundByGap DEF Ranges
  <1> QED BY <1>1, <1>3, <1>4

\* Every row is in its own bucket, and in no bucket is anything else.
LEMMA BucketsAddUp ==
  ASSUME NEW rows, NEW granularity
  PROVE  UNION SeriesOf(rows, granularity) = rows
  BY DEF SeriesOf
------------------------------------------------------------------------------
(* Loads *)

\* A new load is the last.
LEMMA BeginLoads ==
  ASSUME PageTypeOK, NEW filters \in {Default, choice}, Begin(filters)
  PROVE  /\ loads' \in Seq(LoadRecords)
         /\ Len(loads) \in Nat /\ Len(loads') = Len(loads) + 1
         /\ \A k \in 1..Len(loads) : loads'[k] = loads[k]
         /\ loads'[Len(loads) + 1] = NewLoad(filters)
  <1>1. Calls \in [Panels -> CallRecords]
    BY DEF Calls, Fresh, CallRecords
  <1>2. NewLoad(filters) \in LoadRecords
    BY <1>1 DEF NewLoad, LoadRecords
  <1>3. loads \in Seq(LoadRecords) /\ loads' = Append(loads, NewLoad(filters))
    BY DEF PageTypeOK, Begin
  <1> HIDE DEF LoadRecords
  <1> QED BY <1>2, <1>3

\* One load changes.
LEMMA OneLoadChanges ==
  ASSUME PageTypeOK, NEW k \in DOMAIN loads, NEW load \in LoadRecords,
         loads' = [loads EXCEPT ![k] = load]
  PROVE  /\ k \in 1..Len(loads) /\ Len(loads) \in Nat
         /\ loads' \in Seq(LoadRecords)
         /\ Len(loads') = Len(loads)
         /\ loads'[k] = load
         /\ \A j \in 1..Len(loads) : j # k => loads'[j] = loads[j]
  <1>1. loads \in Seq(LoadRecords)
    BY DEF PageTypeOK
  <1> HIDE DEF LoadRecords
  <1> QED BY <1>1

\* The page begins a load; none is going on.
LEMMA BeginKeepsPage ==
  ASSUME PageInv, NEW filters \in {Default, choice}, Begin(filters),
         UNCHANGED <<env, landed>>, now' \in Nat, opened' \in Nat,
         dropped' \in BOOLEAN,
         loads # << >> => ~isLoading /\ opened' = opened
  PROVE  PageInv'
  <1>1. /\ loads' \in Seq(LoadRecords)
        /\ Len(loads) \in Nat /\ Len(loads') = Len(loads) + 1
        /\ \A k \in 1..Len(loads) : loads'[k] = loads[k]
        /\ loads'[Len(loads) + 1] = NewLoad(filters)
    BY BeginLoads DEF PageInv
  <1>2. /\ zone' = zone /\ choice' = choice /\ url' = filters /\ isLoading' = TRUE
        /\ NewLoad(filters).filters = filters /\ NewLoad(filters).rendered = FALSE
        /\ \A p \in Panels : NewLoad(filters).call[p].stage = "sent"
        /\ shown' = Loading(Len(loads) + 1)
    BY DEF Begin, env, NewLoad, Calls, Fresh
  <1>21. shown' \in [Places -> Displays] /\ shown'["tokens"] = shown["tokens"]
    BY <1>1, <1>2 DEF Loading, Places, Displays, PageInv, PageTypeOK
  <1>3. PageTypeOK'
    BY <1>1, <1>2, <1>21 DEF PageInv, PageTypeOK, LoadRecords
  <1>4. OneLoadAtATime'
    <2>1. \A k \in 1..Len(loads) : loads[k].rendered
      <3>1. CASE loads = << >>
        BY <3>1
      <3>2. CASE loads # << >>
        <4>1. Len(loads) \in 1..Len(loads) /\ loads[Len(loads)] \in LoadRecords
          BY <3>2 DEF PageInv, PageTypeOK
        <4>2. loads[Len(loads)].rendered \in BOOLEAN
          BY <4>1 DEF LoadRecords
        <4> QED BY <3>2, <4>2 DEF PageInv, OneLoadAtATime
      <3> QED BY <3>1, <3>2
    <2>2. shown'["tokens"].load <= Len(loads)
      BY <1>21 DEF PageInv, OneLoadAtATime
    <2>3. shown'["tokens"].load \in Nat
      BY <1>21 DEF Displays, Places
    <2>4. loads' # << >>
      BY <1>1
    <2> QED BY <1>1, <1>2, <2>1, <2>2, <2>3, <2>4 DEF OneLoadAtATime
  <1>5. ASSUME NEW k \in 1..Len(loads')
        PROVE  \/ k \in 1..Len(loads) /\ loads # << >> /\ opened' = opened
                  /\ loads'[k] = loads[k]
               \/ loads'[k] = NewLoad(filters)
    BY <1>1
  <1>6. Refusals'
    <2> SUFFICES ASSUME NEW k \in 1..Len(loads'), NEW p \in Panels,
                        loads'[k].call[p].stage = "refused"
                 PROVE  loads'[k].filters.period = "custom" /\ LeftOut(zone, loads'[k].filters.from)
      BY <1>2 DEF Refusals, LeftOut
    <2> QED BY <1>2, <1>5 DEF PageInv, Refusals
  <1>7. Answers'
    <2> SUFFICES ASSUME NEW k \in 1..Len(loads'), NEW p \in Panels,
                        loads'[k].call[p].stage = "answered"
                 PROVE  Covered(p, loads'[k].call[p].answer) =
                          RowsOf(opened', loads'[k].call[p].seen,
                                 RangeIn(zone', loads'[k].filters, loads'[k].call[p].asked))
      BY DEF Answers
    <2> QED BY <1>2, <1>5 DEF PageInv, Answers
  <1> QED BY <1>3, <1>4, <1>6, <1>7 DEF PageInv

\* A call of a load moves on.
LEMMA CallKeepsPage ==
  ASSUME PageInv, NEW k \in DOMAIN loads, NEW p \in Panels, NEW call \in CallRecords,
         Becomes(k, p, call),
         call.stage = "refused" =>
           loads[k].filters.period = "custom" /\ LeftOut(zone, loads[k].filters.from),
         call.stage = "answered" =>
           Covered(p, call.answer) =
             RowsOf(opened, call.seen, RangeIn(zone, loads[k].filters, call.asked))
  PROVE  PageInv'
  <1> DEFINE load == [loads[k] EXCEPT !.call[p] = call]
  <1>1. /\ UNCHANGED <<env, now, opened, landed, url, isLoading, shown, dropped>>
        /\ loads' = [loads EXCEPT ![k] = load]
    BY DEF Becomes
  <1>2. loads[k] \in LoadRecords
    BY DEF PageInv, PageTypeOK
  <1>3. /\ load \in LoadRecords
        /\ load.filters = loads[k].filters /\ load.rendered = loads[k].rendered
        /\ load.call[p] = call
        /\ \A q \in Panels : q # p => load.call[q] = loads[k].call[q]
    BY <1>2 DEF LoadRecords
  <1> HIDE DEF load
  <1>4. /\ k \in 1..Len(loads) /\ Len(loads) \in Nat
        /\ loads' \in Seq(LoadRecords)
        /\ Len(loads') = Len(loads)
        /\ loads'[k] = load
        /\ \A j \in 1..Len(loads) : j # k => loads'[j] = loads[j]
    BY <1>1, <1>3, OneLoadChanges DEF PageInv
  <1>5. zone' = zone /\ choice' = choice
    BY <1>1 DEF env
  <1>6. PageTypeOK'
    BY <1>1, <1>4, <1>5 DEF PageInv, PageTypeOK, LoadRecords
  <1>7. /\ \A j \in 1..Len(loads) : /\ loads'[j].rendered = loads[j].rendered
                                    /\ loads'[j].filters = loads[j].filters
        /\ \A j \in 1..Len(loads), q \in Panels :
             \/ loads'[j].call[q] = loads[j].call[q]
             \/ j = k /\ q = p /\ loads'[j].call[q] = call
    BY <1>3, <1>4
  <1>8. OneLoadAtATime'
    <2>1. loads' # << >> => loads # << >> /\ Len(loads) \in 1..Len(loads)
      BY <1>4
    <2> QED BY <1>1, <1>4, <1>7, <2>1 DEF PageInv, OneLoadAtATime, ShowsNewest
  <1>9. Refusals'
    <2> SUFFICES ASSUME NEW j \in 1..Len(loads), NEW q \in Panels,
                        loads'[j].call[q].stage = "refused"
                 PROVE  loads'[j].filters.period = "custom" /\ LeftOut(zone, loads'[j].filters.from)
      BY <1>4, <1>5 DEF Refusals, LeftOut
    <2> QED BY <1>7 DEF PageInv, Refusals
  <1>10. Answers'
    <2> SUFFICES ASSUME NEW j \in 1..Len(loads), NEW q \in Panels,
                        loads'[j].call[q].stage = "answered"
                 PROVE  Covered(q, loads'[j].call[q].answer) =
                          RowsOf(opened, loads'[j].call[q].seen,
                                 RangeIn(zone, loads'[j].filters, loads'[j].call[q].asked))
      BY <1>1, <1>4, <1>5 DEF Answers
    <2> QED BY <1>7 DEF PageInv, Answers
  <1> QED BY <1>6, <1>8, <1>9, <1>10 DEF PageInv

\* A period is resolved.
LEMMA ResolveKeepsPage ==
  ASSUME PageInv, NEW k \in DOMAIN loads, NEW p \in Panels, Resolve(k, p)
  PROVE  PageInv'
  <1> DEFINE filters == loads[k].filters
             range == RangeOf(filters, now)
  <1>1. filters \in {Default, choice}
    <2>1. loads[k] \in LoadRecords
      BY DEF PageInv, PageTypeOK
    <2> QED BY <2>1 DEF LoadRecords
  <1>2. /\ now \in Nat
        /\ (\E from \in range.from, to \in range.to : from >= to)
             => filters.period = "custom" /\ LeftOut(zone, filters.from)
    BY <1>1, FilterRanges DEF PageInv, PageTypeOK
  <1>3. CASE \E from \in range.from, to \in range.to : from >= to
    <2>1. Becomes(k, p, [Fresh EXCEPT !.stage = "refused"])
      BY <1>3 DEF Resolve
    <2>2. /\ [Fresh EXCEPT !.stage = "refused"] \in CallRecords
          /\ [Fresh EXCEPT !.stage = "refused"].stage = "refused"
      BY DEF Fresh, CallRecords
    <2> QED BY <1>2, <1>3, <2>1, <2>2, CallKeepsPage
  <1>4. CASE ~\E from \in range.from, to \in range.to : from >= to
    <2>1. Becomes(k, p, [Fresh EXCEPT !.stage = "selecting", !.asked = now])
      BY <1>4 DEF Resolve
    <2>2. /\ [Fresh EXCEPT !.stage = "selecting", !.asked = now] \in CallRecords
          /\ [Fresh EXCEPT !.stage = "selecting", !.asked = now].stage = "selecting"
      BY <1>2 DEF Fresh, CallRecords
    <2> QED BY <2>1, <2>2, CallKeepsPage
  <1> QED BY <1>3, <1>4

\* The logs are selected, and one panel's answer is made of them.
LEMMA AnswerKeepsPage ==
  ASSUME PageInv, NEW k \in DOMAIN loads, NEW p \in Panels, Answer(k, p)
  PROVE  PageInv'
  <1> DEFINE old == loads[k].call[p]
             rows == Selected(RangeOf(loads[k].filters, old.asked))
             made == IF p = "summary" THEN rows
                     ELSE SeriesOf(rows, DefaultGroup(loads[k].filters.period))
             new == [old EXCEPT !.stage = "answered", !.seen = landed, !.answer = made]
  <1>1. old \in CallRecords /\ landed \subseteq Requests
    <2>1. loads[k] \in LoadRecords
      BY DEF PageInv, PageTypeOK
    <2> QED BY <2>1 DEF LoadRecords, PageInv, PageTypeOK
  <1>2. /\ rows = RowsOf(opened, landed, RangeIn(zone, loads[k].filters, old.asked))
        /\ rows \subseteq Requests
    BY <1>1 DEF Selected, RowsOf, Started, RangeOf, RangeIn
  <1>3. rows = Covered(p, made)
    BY BucketsAddUp DEF Covered
  <1>4. made \in (SUBSET Requests) \cup (SUBSET SUBSET Requests)
    <2>1. CASE p = "summary"
      BY <1>2, <2>1
    <2>2. CASE p # "summary"
      <3>1. \A b \in made : b \subseteq rows
        BY <1>3, <2>2 DEF Covered
      <3> QED BY <1>2, <3>1
    <2> QED BY <2>1, <2>2
  <1>5. Becomes(k, p, new)
    BY DEF Answer
  <1> HIDE DEF made, rows, old
  <1>6. /\ new \in CallRecords /\ new.stage = "answered"
        /\ new.seen = landed /\ new.asked = old.asked /\ new.answer = made
    BY <1>1, <1>4 DEF CallRecords
  <1> HIDE DEF new
  <1> QED BY <1>2, <1>3, <1>5, <1>6, CallKeepsPage

\* A call fails.
LEMMA FailKeepsPage ==
  ASSUME PageInv, NEW k \in DOMAIN loads, NEW p \in Panels, Fail(k, p)
  PROVE  PageInv'
  <1>1. /\ [Fresh EXCEPT !.stage = "failed"] \in CallRecords
        /\ [Fresh EXCEPT !.stage = "failed"].stage = "failed"
    BY DEF Fresh, CallRecords
  <1> QED BY <1>1, CallKeepsPage DEF Fail

\* The load is drawn: it is the last, for the others have been.
LEMMA RenderKeepsPage ==
  ASSUME PageInv, NEW k \in DOMAIN loads, Render(k)
  PROVE  PageInv'
  <1> DEFINE load == [loads[k] EXCEPT !.rendered = TRUE, !.call = Forgotten]
  <1>1. /\ UNCHANGED <<env, now, opened, landed, url, dropped>>
        /\ loads' = [loads EXCEPT ![k] = load]
        /\ shown' = Drawing(k) /\ isLoading' = FALSE /\ ~loads[k].rendered
    BY DEF Render, Drawn
  <1>2. loads[k] \in LoadRecords
    BY DEF PageInv, PageTypeOK
  <1>3. /\ Forgotten \in [Panels -> CallRecords]
        /\ \A q \in Panels : Forgotten[q].stage = "drawn"
    BY DEF Forgotten, Fresh, CallRecords
  <1>4. /\ load \in LoadRecords
        /\ load.filters = loads[k].filters /\ load.rendered = TRUE
        /\ load.call = Forgotten
    BY <1>2, <1>3 DEF LoadRecords
  <1> HIDE DEF load
  <1>5. /\ k \in 1..Len(loads) /\ Len(loads) \in Nat
        /\ loads' \in Seq(LoadRecords)
        /\ Len(loads') = Len(loads)
        /\ loads'[k] = load
        /\ \A j \in 1..Len(loads) : j # k => loads'[j] = loads[j]
    BY <1>1, <1>4, OneLoadChanges DEF PageInv
  <1>6. zone' = zone /\ choice' = choice
    BY <1>1 DEF env
  <1>7. k = Len(loads) /\ loads # << >>
    BY <1>1, <1>5 DEF PageInv, OneLoadAtATime
  <1>8. shown' \in [Places -> Displays] /\ ShowsNewest' /\ shown'["tokens"].load <= k
    <2> DEFINE Result(p) == [load |-> k,
                  what |-> IF loads[k].call[p].stage = "answered" THEN "answer" ELSE "error"]
    <2>1. /\ shown'["cards"] = Result("summary") /\ shown'["requests"] = Blank
          /\ shown'["table"] = Result("series")
          /\ shown'["tokens"] = IF Result("series").what = "answer" THEN Result("series")
                                ELSE shown["tokens"]
          /\ shown' \in [Places -> {Result("summary"), Result("series"), Blank, shown["tokens"]}]
      BY <1>1 DEF Drawing, Places
    <2>2. \A p : /\ Result(p) \in Displays /\ Result(p).load = k
                 /\ Result(p).what \in {"answer", "error"}
      BY <1>5 DEF Displays
    <2>3. shown["tokens"] \in Displays /\ shown["tokens"].load < k
      <3>1. isLoading
        BY <1>1, <1>7 DEF PageInv, PageTypeOK, OneLoadAtATime
      <3> QED BY <1>7, <3>1 DEF PageInv, PageTypeOK, OneLoadAtATime, Places
    <2>4. Blank \in Displays
      BY DEF Blank, Displays
    <2>5. shown["tokens"].load \in Nat /\ shown["tokens"].load # k
      BY <1>5, <2>3 DEF Displays
    <2> HIDE DEF Result
    <2>6. shown' \in [Places -> Displays]
      BY <2>1, <2>2, <2>3, <2>4
    <2>7. Len(loads') = k
      BY <1>5, <1>7
    <2>8. shown'["tokens"].load = k <=> shown'["table"].what = "answer"
      BY <2>1, <2>2, <2>5
    <2>9. ShowsNewest'
      BY <2>1, <2>2, <2>7, <2>8 DEF ShowsNewest, Blank
    <2>10. shown'["tokens"].load <= k
      BY <1>5, <2>1, <2>2, <2>3, <2>5
    <2> QED BY <2>6, <2>9, <2>10
  <1>9. PageTypeOK' /\ OneLoadAtATime'
    <2>1. LoadRecords' = LoadRecords
      BY <1>6 DEF LoadRecords
    <2>2. PageTypeOK'
      BY <1>1, <1>5, <1>6, <1>8, <2>1 DEF PageInv, PageTypeOK
    <2> QED BY <1>1, <1>4, <1>5, <1>7, <1>8, <2>2 DEF PageInv, OneLoadAtATime
  <1>10. Refusals'
    <2> SUFFICES ASSUME NEW j \in 1..Len(loads), NEW q \in Panels,
                        loads'[j].call[q].stage = "refused"
                 PROVE  loads'[j].filters.period = "custom" /\ LeftOut(zone, loads'[j].filters.from)
      BY <1>5, <1>6 DEF Refusals, LeftOut
    <2> QED BY <1>3, <1>4, <1>5 DEF PageInv, Refusals
  <1>11. Answers'
    <2> SUFFICES ASSUME NEW j \in 1..Len(loads), NEW q \in Panels,
                        loads'[j].call[q].stage = "answered"
                 PROVE  Covered(q, loads'[j].call[q].answer) =
                          RowsOf(opened, loads'[j].call[q].seen,
                                 RangeIn(zone, loads'[j].filters, loads'[j].call[q].asked))
      BY <1>1, <1>5, <1>6 DEF Answers
    <2> QED BY <1>3, <1>4, <1>5 DEF PageInv, Answers
  <1> QED BY <1>9, <1>10, <1>11 DEF PageInv

\* A step that leaves the loads alone.
LEMMA LoadsAlone ==
  ASSUME PageInv, UNCHANGED <<env, opened, isLoading, loads, shown>>,
         now' \in Nat, landed' \subseteq Requests, url' \in {Default, choice},
         dropped' \in BOOLEAN, dropped' \/ UNCHANGED <<url, dropped>>
  PROVE  PageInv'
  <1>1. zone' = zone /\ choice' = choice /\ LoadRecords' = LoadRecords
    BY DEF env, LoadRecords
  <1>2. PageTypeOK'
    BY <1>1 DEF PageInv, PageTypeOK
  <1>3. OneLoadAtATime' /\ Refusals'
    BY <1>1 DEF PageInv, OneLoadAtATime, ShowsNewest, Refusals, LeftOut
  <1>4. Answers'
    BY <1>1 DEF PageInv, Answers
  <1> QED BY <1>2, <1>3, <1>4 DEF PageInv

------------------------------------------------------------------------------
(* The induction. *)

\* The page is not open yet.
LEMMA PageStart == Init => PageInv
  <1> SUFFICES ASSUME Init PROVE PageInv
    OBVIOUS
  <1>1. loads = << >> /\ << >> \in Seq(LoadRecords)
    BY DEF Init
  <1>2. shown \in [Places -> Displays] /\ shown["tokens"].load = 0
    BY DEF Init, Displays, Blank, Places
  <1>3. PageTypeOK
    BY <1>1, <1>2, UsageAssumption DEF Init, PageTypeOK
  <1>4. OneLoadAtATime /\ Refusals /\ Answers
    BY <1>1, <1>2 DEF Init, OneLoadAtATime, Refusals, Answers
  <1> QED BY <1>3, <1>4 DEF PageInv

\* Every step of the page, of its calls and of the world around keeps the
\* invariant.
LEMMA PageStep == PageInv /\ [Next]_vars => PageInv'
  <1> SUFFICES ASSUME PageInv, [Next]_vars PROVE PageInv'
    OBVIOUS
  <1>0. /\ now \in Nat /\ opened \in Nat /\ dropped \in BOOLEAN /\ url \in {Default, choice}
        /\ landed \subseteq Requests
    BY DEF PageInv, PageTypeOK
  <1>1. CASE Open
    BY <1>0, <1>1, BeginKeepsPage DEF Open
  <1>2. CASE Apply
    BY <1>0, <1>2, BeginKeepsPage DEF Apply
  <1>3. CASE Reset
    <2>1. CASE isLoading
      BY <1>0, <1>3, <2>1, LoadsAlone DEF Reset
    <2>2. CASE ~isLoading
      BY <1>0, <1>3, <2>2, BeginKeepsPage DEF Reset
    <2> QED BY <2>1, <2>2
  <1>4. ASSUME NEW k \in DOMAIN loads, Render(k) PROVE PageInv'
    BY <1>4, RenderKeepsPage
  <1>5. ASSUME NEW k \in DOMAIN loads, NEW p \in Panels, Call(k, p) \/ Fail(k, p)
        PROVE  PageInv'
    BY <1>5, ResolveKeepsPage, AnswerKeepsPage, FailKeepsPage DEF Call
  <1>6. ASSUME NEW r \in Requests, Land(r) PROVE PageInv'
    BY <1>0, <1>6, LoadsAlone DEF Land, page
  <1>7. CASE Tick
    BY <1>0, <1>7, LoadsAlone DEF Tick, page
  <1>8. CASE UNCHANGED vars
    BY <1>0, <1>8, LoadsAlone DEF vars, page
  <1> QED BY <1>1, <1>2, <1>3, <1>4, <1>5, <1>6, <1>7, <1>8 DEF Next

\* The invariant holds throughout.
LEMMA PageInvHolds == Spec => []PageInv
  BY PageStart, PageStep, PTL DEF Spec

\* Of the ranges the page sends, the gateway refuses only those that begin at a
\* local time which the clock leaves out.
THEOREM RefusedOnlyInGapHolds == Spec => []RefusedOnlyInGap
  <1>1. PageInv => RefusedOnlyInGap
    BY DEF PageInv, PageTypeOK, Refusals, RefusedOnlyInGap
  <1> QED BY <1>1, PageInvHolds, PTL

\* What cards and table of an idle page show is its newest load, as the chart of
\* tokens does unless the series failed, with the filters of the address, but after
\* a Reset that came during a load.
THEOREM ShownIsAskedForHolds == Spec => []ShownIsAskedFor
  <1>1. PageInv => ShownIsAskedFor
    BY DEF PageInv, OneLoadAtATime, ShowsNewest, ShownIsAskedFor
  <1> QED BY <1>1, PageInvHolds, PTL

------------------------------------------------------------------------------
(* The periods *)

\* Division by a positive number, on all integers.
LEMMA Division ==
  ASSUME NEW a \in Int, NEW b \in Nat \ {0}
  PROVE  /\ a \div b \in Int /\ a % b \in 0..(b - 1)
         /\ a = b * (a \div b) + (a % b)
         /\ \A m \in Int : m * b <= a <=> m <= a \div b
  <1>1. a \div b \in Int /\ a % b \in 0..(b - 1) /\ a = b * (a \div b) + (a % b)
    OBVIOUS
  <1>2. \A m \in Int : m * b <= a <=> m <= a \div b
    OBVIOUS
  <1> QED BY <1>1, <1>2

\* The wall clock, in whole hours, stands still for the hour it repeats and never
\* goes back.
LEMMA WallMonotone ==
  ASSUME NEW z \in Zones, NEW i \in Int, NEW j \in Int, i <= j
  PROVE  /\ Local(z, i).wall \in Int /\ Local(z, j).wall \in Int
         /\ Local(z, i).wall <= Local(z, j).wall
  <1>1. z.at \in Int /\ z.before \in Int /\ z.after \in Int /\ z.after - z.before \in {-1, 0, 1}
    BY UsageAssumption, ClockAssumption
  <1> QED BY <1>1 DEF Local

\* The days of the wall clock.
LEMMA DayBegins ==
  ASSUME NEW w \in Int
  PROVE  /\ Day(w) \in Int /\ Month(w) \in Int /\ Weekday(w) \in Int
         /\ \A m \in Int : m * Hours <= w <=> m <= Day(w)
         /\ \A m \in Int : m * MonthDays <= Day(w) <=> m <= Month(w)
         /\ Day(w) * Hours <= w
  <1>1. Hours \in Nat \ {0} /\ WeekDays \in Nat \ {0} /\ MonthDays \in Nat \ {0}
    BY CalendarAssumption
  <1>2. Day(w) \in Int /\ \A m \in Int : m * Hours <= w <=> m <= Day(w)
    BY <1>1, Division DEF Day
  <1>3. Month(w) \in Int /\ \A m \in Int : m * MonthDays <= Day(w) <=> m <= Month(w)
    BY <1>1, <1>2, Division DEF Month
  <1>4. Weekday(w) \in Int
    BY <1>1, <1>2, Division DEF Weekday
  <1> QED BY <1>2, <1>3, <1>4

\* dt.timestamp() is the first instant at which the wall clock shows dt or more,
\* but for the second pass of a repeated dt.
LEMMA StampIsFirst ==
  ASSUME NEW z \in Zones, NEW m \in Int, NEW fold \in {0, 1},
         fold = 1 => z.after < z.before /\ ~Repeated(z, m),
         NEW i \in Int
  PROVE  i >= Stamp(z, [wall |-> m, fold |-> fold]) <=> m <= Local(z, i).wall
  <1>1. z.at \in Int /\ z.before \in Int /\ z.after \in Int /\ z.after - z.before \in {-1, 0, 1}
    BY UsageAssumption, ClockAssumption
  <1> QED BY <1>1 DEF Stamp, Local, Repeated, Later, Earlier

\* The same without fold.
LEMMA FirstPass ==
  ASSUME NEW z \in Zones, NEW m \in Int, NEW i \in Int
  PROVE  /\ i >= Stamp(z, [wall |-> m, fold |-> 0]) <=> m <= Local(z, i).wall
         /\ Stamp(z, [wall |-> m, fold |-> 0]) \in {m - z.before, m - z.after}
  <1>1. z.at \in Int /\ z.before \in Int /\ z.after \in Int /\ z.after - z.before \in {-1, 0, 1}
    BY UsageAssumption, ClockAssumption
  <1> QED BY <1>1 DEF Stamp, Local, Later, Earlier

\* The fold of an instant.
LEMMA FoldOnlyRepeated ==
  ASSUME NEW z \in Zones, NEW i \in Int
  PROVE  /\ Local(z, i).fold \in {0, 1}
         /\ Local(z, i).fold = 1 =>
              z.after < z.before /\ i = z.at /\ Repeated(z, Local(z, i).wall)
         /\ Local(z, i) = [wall |-> Local(z, i).wall, fold |-> Local(z, i).fold]
  <1>1. z.at \in Int /\ z.before \in Int /\ z.after \in Int /\ z.after - z.before \in {-1, 0, 1}
    BY UsageAssumption, ClockAssumption
  <1> QED BY <1>1 DEF Local, Repeated

\* Two Mondays in the same numbered week of the same year are the same.
LEMMA SameMonday ==
  ASSUME NEW W \in Nat \ {0}, NEW Y \in Nat \ {0}, NEW half \in Int,
         NEW a \in Int, NEW b \in Int, NEW p, NEW q, p = W * a, q = W * b,
         (p + half) \div Y = (q + half) \div Y,
         ((p + half) % Y) \div W = ((q + half) % Y) \div W
  PROVE  p = q
  <1>1. p \in Int /\ q \in Int /\ p + half \in Int /\ q + half \in Int
    OBVIOUS
  <1>2. PICK r \in Nat, s \in Nat, c \in Int :
          /\ r = (p + half) % Y /\ p + half = Y * c + r
          /\ s = (q + half) % Y /\ q + half = Y * c + s
    <2>1. /\ (p + half) \div Y \in Int /\ (p + half) % Y \in 0..(Y - 1)
          /\ p + half = Y * ((p + half) \div Y) + ((p + half) % Y)
      BY <1>1, Division
    <2>2. /\ (q + half) % Y \in 0..(Y - 1)
          /\ q + half = Y * ((q + half) \div Y) + ((q + half) % Y)
      BY <1>1, Division
    <2>3. (p + half) % Y \in Nat /\ (q + half) % Y \in Nat
      BY <2>1, <2>2
    <2> QED BY <2>1, <2>2, <2>3
  <1>3. PICK d \in Int, e \in 0..(W - 1), f \in 0..(W - 1) : r = W * d + e /\ s = W * d + f
    <2>1. r \div W \in Int /\ r % W \in 0..(W - 1) /\ r = W * (r \div W) + (r % W)
      BY Division
    <2>2. s % W \in 0..(W - 1) /\ s = W * (s \div W) + (s % W)
      BY Division
    <2>3. r \div W = s \div W
      BY <1>2
    <2> QED BY <2>1, <2>2, <2>3
  <1>4. p - q = e - f
    <2> DEFINE u == Y * c
               v == W * d
    <2>1. u \in Int /\ v \in Int
      OBVIOUS
    <2> HIDE DEF u, v
    <2> QED BY <1>1, <1>2, <1>3, <2>1 DEF u, v
  <1>5. W * (a - b) = e - f
    BY <1>4
  <1>6. a - b < 1 /\ a - b > -1
    <2>1. a - b >= 1 => W * (a - b) >= W
      OBVIOUS
    <2>2. a - b <= -1 => W * (a - b) <= -W
      OBVIOUS
    <2> QED BY <1>3, <1>5, <2>1, <2>2
  <1> QED BY <1>6

\* Two days have the same week key if they are in the same week.
LEMMA SameWeek ==
  ASSUME NEW v \in Int, NEW w \in Int
  PROVE  WeekKey(v) = WeekKey(w) <=> Day(v) - Weekday(v) = Day(w) - Weekday(w)
  <1>1. WeekDays \in Nat \ {0} /\ MonthDays \in Nat \ {0} /\ YearMonths \in Nat \ {0}
    BY CalendarAssumption
  <1>2. YearDays \in Nat \ {0}
    BY <1>1 DEF YearDays
  <1>3. WeekDays \div 2 \in Int
    BY <1>1
  <1>4. \A u \in Int : \E a \in Int : Day(u) - Weekday(u) = WeekDays * a
    <2> SUFFICES ASSUME NEW u \in Int PROVE \E a \in Int : Day(u) - Weekday(u) = WeekDays * a
      OBVIOUS
    <2>1. Day(u) \in Int /\ Weekday(u) = Day(u) % WeekDays
      BY DayBegins DEF Weekday
    <2>2. /\ Day(u) \div WeekDays \in Int /\ Day(u) % WeekDays \in 0..(WeekDays - 1)
          /\ Day(u) = WeekDays * (Day(u) \div WeekDays) + (Day(u) % WeekDays)
      BY <1>1, <2>1, Division
    <2>3. Day(u) - Weekday(u) = WeekDays * (Day(u) \div WeekDays)
      BY <1>1, <2>1, <2>2
    <2> QED BY <2>2, <2>3
  <1>5. PICK a \in Int, b \in Int : /\ Day(v) - Weekday(v) = WeekDays * a
                                    /\ Day(w) - Weekday(w) = WeekDays * b
    BY <1>4
  <1> DEFINE p == Day(v) - Weekday(v)
             q == Day(w) - Weekday(w)
             half == WeekDays \div 2
             N(m) == ((m + half) % YearDays) \div WeekDays
  <1>6. /\ WeekKey(v) = << (p + half) \div YearDays, N(p) + 1 >>
        /\ WeekKey(w) = << (q + half) \div YearDays, N(q) + 1 >>
    BY DEF WeekKey
  <1>7. N(p) \in Int /\ N(q) \in Int
    <2>1. \A m \in Int : (m + half) % YearDays \in Int
      BY <1>2, <1>3, Division
    <2>2. \A m \in Int : N(m) \in Int
      BY <1>1, <2>1, Division
    <2>3. p \in Int /\ q \in Int
      BY DayBegins
    <2> QED BY <2>2, <2>3
  <1>8. WeekKey(v) = WeekKey(w) <=>
          (p + half) \div YearDays = (q + half) \div YearDays /\ N(p) = N(q)
    <2> HIDE DEF p, q, half, N
    <2> QED BY <1>6, <1>7
  <1>9. (p + half) \div YearDays = (q + half) \div YearDays /\ N(p) = N(q) => p = q
    <2>1. half \in Int /\ p = WeekDays * a /\ q = WeekDays * b
      BY <1>3, <1>5
    <2> HIDE DEF p, q, half
    <2>2. SUFFICES ASSUME (p + half) \div YearDays = (q + half) \div YearDays, N(p) = N(q)
                   PROVE  p = q
      OBVIOUS
    <2> QED BY ONLY <1>1, <1>2, <2>1, <2>2, a \in Int, b \in Int, SameMonday, SameMonday
  <1> QED BY <1>8, <1>9

\* The Monday of a day, as a multiple of weeks.
LEMMA MondayOf ==
  ASSUME NEW w \in Int
  PROVE  /\ Day(w) \div WeekDays \in Int
         /\ Day(w) - Weekday(w) = (Day(w) \div WeekDays) * WeekDays
         /\ \A m \in Int : m * WeekDays <= Day(w) <=> m <= Day(w) \div WeekDays
  <1>1. WeekDays \in Nat \ {0}
    BY CalendarAssumption
  <1>2. Day(w) \in Int /\ Weekday(w) = Day(w) % WeekDays
    BY DayBegins DEF Weekday
  <1>3. /\ Day(w) \div WeekDays \in Int /\ Day(w) % WeekDays \in 0..(WeekDays - 1)
        /\ Day(w) = WeekDays * (Day(w) \div WeekDays) + (Day(w) % WeekDays)
        /\ \A m \in Int : m * WeekDays <= Day(w) <=> m <= Day(w) \div WeekDays
    BY <1>1, <1>2, Division
  <1> QED BY <1>1, <1>2, <1>3

\* On the second pass of an hour other than midnight neither the day nor the month
\* begins with a repeated hour.
LEMMA MonthBeginsOnce ==
  ASSUME NEW z \in Zones, NEW n \in Int, ~SecondMidnight(z, n), Local(z, n).fold = 1
  PROVE  /\ z.after < z.before
         /\ ~Repeated(z, Day(Local(z, n).wall) * Hours)
         /\ ~Repeated(z, Month(Local(z, n).wall) * MonthDays * Hours)
  <1> DEFINE w == Local(z, n).wall
             d == Month(w) * MonthDays
             m == d * Hours
  <1>1. /\ z.at \in Int /\ z.before \in Int /\ z.after \in Int
        /\ z.after - z.before \in {-1, 0, 1}
        /\ Hours \in Nat \ {0} /\ MonthDays \in Nat \ {0}
    BY UsageAssumption, ClockAssumption, CalendarAssumption
  <1>2. w \in Int /\ Day(w) \in Int /\ Month(w) \in Int
    BY ClockTypes, DayBegins
  <1>3. z.after < z.before /\ Repeated(z, w)
    BY FoldOnlyRepeated
  <1>4. ~Repeated(z, Day(w) * Hours)
    BY DEF SecondMidnight, Midnight
  <1>5. d \in Int /\ m \in Int
    BY <1>1, <1>2
  <1> HIDE DEF w
  <1>6. ~Repeated(z, m)
    <2> SUFFICES ASSUME Repeated(z, m) PROVE FALSE
      OBVIOUS
    <2> HIDE DEF m, d
    <2>1. m = w
      BY <1>1, <1>2, <1>3, <1>5 DEF Repeated
    <2>2. d <= Day(w)
      BY <1>2, <1>5, <2>1, DayBegins DEF m
    <2>3. Day(w) * Hours <= w
      BY <1>2, DayBegins
    <2>4. Day(w) = d
      BY <1>1, <1>2, <1>5, <2>1, <2>2, <2>3 DEF m
    <2> QED BY <1>4, <2>4 DEF m
  <1> QED BY <1>3, <1>4, <1>6 DEF w

\* The pass matters for the hour that is repeated only.
LEMMA PassIdle ==
  ASSUME NEW z \in Zones, NEW m \in Int, NEW fold \in {0, 1},
         fold = 1 => z.after < z.before /\ ~Repeated(z, m)
  PROVE  Stamp(z, [wall |-> m, fold |-> fold]) = Stamp(z, [wall |-> m, fold |-> 0])
  <1>1. z.at \in Int /\ z.before \in Int /\ z.after \in Int
    BY UsageAssumption
  <1> QED BY <1>1 DEF Stamp, Later, Earlier, Repeated

\* The periods up to now are buckets: their first instant is the first of the
\* bucket, for the wall clock does not go back beyond it.
LEMMA SoFar ==
  ASSUME NEW z \in Zones, NEW i \in Int, NEW n \in Int, i <= n
  PROVE  /\ InRange(i, RangeOfPeriod(z, "week", n)) <=>
              BucketKey(z, i, "week") = BucketKey(z, n, "week")
         /\ ~SecondMidnight(z, n) =>
              /\ InRange(i, RangeOfPeriod(z, "today", n)) <=>
                   BucketKey(z, i, "day") = BucketKey(z, n, "day")
              /\ InRange(i, RangeOfPeriod(z, "month", n)) <=>
                   BucketKey(z, i, "month") = BucketKey(z, n, "month")
  <1> DEFINE l == Local(z, n)
             w == l.wall
             v == Local(z, i).wall
             W(wall, fold) == [wall |-> wall, fold |-> fold]
             since(dt) == [from |-> {Stamp(z, dt)}, to |-> Unbounded]
  <1>1. v \in Int /\ w \in Int /\ v <= w
    BY WallMonotone
  <1>2. Hours \in Nat \ {0} /\ WeekDays \in Nat \ {0} /\ MonthDays \in Nat \ {0}
    BY CalendarAssumption
  <1>3. /\ Day(v) \in Int /\ Day(w) \in Int /\ Month(v) \in Int /\ Month(w) \in Int
        /\ Weekday(w) \in Int
    BY <1>1, DayBegins
  <1>4. Day(v) <= Day(w)
    <2>1. Day(v) * Hours <= v
      BY <1>1, DayBegins
    <2>2. Day(v) * Hours \in Int /\ Day(v) * Hours <= w
      BY <1>1, <1>2, <1>3, <2>1
    <2> QED BY <1>1, <1>3, <2>2, DayBegins
  <1>5. /\ Midnight(l) = W(Day(w) * Hours, l.fold)
        /\ MonthStart(l) = W(Month(w) * MonthDays * Hours, l.fold)
        /\ Minus(Midnight(l), Weekday(w) * Hours) = W((Day(w) - Weekday(w)) * Hours, 0)
    <2>1. l = W(w, l.fold)
      BY FoldOnlyRepeated
    <2>2. /\ Midnight(l) = W(Day(w) * Hours, l.fold)
          /\ MonthStart(l) = W(Month(w) * MonthDays * Hours, l.fold)
      BY <2>1 DEF Midnight, MonthStart
    <2>3. Day(w) * Hours - Weekday(w) * Hours = (Day(w) - Weekday(w)) * Hours
      BY <1>2, <1>3
    <2>4. Minus(Midnight(l), Weekday(w) * Hours) = W(Day(w) * Hours - Weekday(w) * Hours, 0)
      BY <2>2 DEF Minus
    <2> QED BY <2>2, <2>3, <2>4
  <1>6. /\ RangeOfPeriod(z, "today", n) = since(Midnight(l))
        /\ RangeOfPeriod(z, "month", n) = since(MonthStart(l))
        /\ RangeOfPeriod(z, "week", n) = since(Minus(Midnight(l), Weekday(w) * Hours))
    BY DEF RangeOfPeriod
  <1>7. \A dt : InRange(i, since(dt)) <=> i >= Stamp(z, dt)
    BY DEF InRange, Unbounded
  <1>8. /\ l.fold \in {0, 1}
        /\ l.fold = 1 => z.after < z.before /\ Repeated(z, w)
    BY FoldOnlyRepeated
  <1>9. /\ BucketKey(z, i, "week") = WeekKey(v) /\ BucketKey(z, n, "week") = WeekKey(w)
        /\ BucketKey(z, i, "day") = << Day(v) >> /\ BucketKey(z, n, "day") = << Day(w) >>
        /\ BucketKey(z, i, "month") = << Month(v) >> /\ BucketKey(z, n, "month") = << Month(w) >>
    BY DEF BucketKey
  <1> HIDE DEF l, v, w, since
  <1>10. InRange(i, RangeOfPeriod(z, "week", n)) <=>
           BucketKey(z, i, "week") = BucketKey(z, n, "week")
    <2> DEFINE m == Day(w) - Weekday(w)
               a == Day(v) \div WeekDays
               c == Day(w) \div WeekDays
    <2>1. m \in Int /\ m * Hours \in Int
      BY <1>2, <1>3
    <2>2. i >= Stamp(z, W(m * Hours, 0)) <=> m * Hours <= Local(z, i).wall
      <3>1. \A k \in Int : i >= Stamp(z, W(k, 0)) <=> k <= Local(z, i).wall
        BY FirstPass
      <3> HIDE DEF m, W
      <3> QED BY <2>1, <3>1
    <2>3. m * Hours <= v <=> m <= Day(v)
      <3> HIDE DEF m
      <3> QED BY <1>1, <2>1, DayBegins
    <2>4. /\ a \in Int /\ c \in Int /\ m = c * WeekDays
          /\ Day(v) - Weekday(v) = a * WeekDays
          /\ \A k \in Int : k * WeekDays <= Day(v) <=> k <= a
          /\ \A k \in Int : k * WeekDays <= Day(w) <=> k <= c
      BY <1>1, MondayOf
    <2> HIDE DEF m, a, c
    <2>5. m <= Day(v) <=> c <= a
      BY <2>4
    <2>6. a <= c
      <3>1. a * WeekDays <= Day(v) /\ a * WeekDays \in Int
        BY <1>2, <2>4
      <3> QED BY <1>3, <1>4, <2>4, <3>1
    <2>7. m <= Day(v) <=> a * WeekDays = c * WeekDays
      BY <1>2, <2>4, <2>5, <2>6
    <2>8. WeekKey(v) = WeekKey(w) <=> a * WeekDays = c * WeekDays
      BY <1>1, <2>4, SameWeek DEF m
    <2> QED BY <1>5, <1>6, <1>7, <1>9, <2>2, <2>3, <2>7, <2>8 DEF m, v
  <1>11. ASSUME ~SecondMidnight(z, n)
         PROVE  InRange(i, RangeOfPeriod(z, "today", n)) <=>
                  BucketKey(z, i, "day") = BucketKey(z, n, "day")
    <2>1. l.fold = 1 => z.after < z.before /\ ~Repeated(z, Day(w) * Hours)
      BY <1>5, <1>8, <1>11 DEF SecondMidnight, l
    <2>2. Day(w) * Hours \in Int
      BY <1>2, <1>3
    <2>3. i >= Stamp(z, W(Day(w) * Hours, l.fold)) <=> Day(w) * Hours <= v
      BY <1>8, <2>1, <2>2, StampIsFirst DEF v
    <2>4. Day(w) * Hours <= v <=> Day(w) <= Day(v)
      BY <1>1, <1>3, DayBegins
    <2> QED BY <1>3, <1>4, <1>5, <1>6, <1>7, <1>9, <2>3, <2>4
  <1>12. ASSUME ~SecondMidnight(z, n)
         PROVE  InRange(i, RangeOfPeriod(z, "month", n)) <=>
                  BucketKey(z, i, "month") = BucketKey(z, n, "month")
    <2> DEFINE d == Month(w) * MonthDays
               m == d * Hours
    <2>1. d \in Int /\ m \in Int
      BY <1>2, <1>3
    <2>2. l.fold = 1 => z.after < z.before /\ ~Repeated(z, m)
      BY <1>12, MonthBeginsOnce DEF l, w
    <2>3. i >= Stamp(z, W(m, l.fold)) <=> m <= v
      <3> HIDE DEF m
      <3> QED BY <1>8, <2>1, <2>2, StampIsFirst DEF v
    <2>4. m <= v <=> d <= Day(v)
      <3> HIDE DEF d
      <3> QED BY <1>1, <2>1, DayBegins
    <2>5. d <= Day(v) <=> Month(w) <= Month(v)
      BY <1>1, <1>3, DayBegins
    <2>6. Month(v) <= Month(w)
      <3>1. Month(v) * MonthDays <= Day(v) /\ Month(v) * MonthDays \in Int
        <4>1. Month(v) * MonthDays \in Int
          BY <1>2, <1>3
        <4> QED BY <1>1, <1>3, <4>1, DayBegins
      <3> QED BY <1>1, <1>3, <1>4, <3>1, DayBegins
    <2> QED BY <1>3, <1>5, <1>6, <1>7, <1>9, <2>3, <2>4, <2>5, <2>6
  <1> QED BY <1>10, <1>11, <1>12

\* From the midnight that began yesterday on, the instants are of yesterday as
\* far as the next midnight, which is 24 hours later unless the clock changes.
LEMMA Yesterday ==
  ASSUME NEW z \in Zones, NEW n \in Nat,
         Day(Local(z, n).wall) >= Day(Local(z, 0).wall) + 2
  PROVE  \E Y0 \in Nat, F \in Nat :
           /\ Y0 <= F /\ F <= n
           /\ F - Y0 \in {Hours - 1, Hours, Hours + 1}
           /\ InPeriodSoFar(z, "yesterday", n) = { i \in 0..n : Y0 <= i /\ i < Y0 + Hours }
           /\ DayBefore(z, n) = { i \in 0..n : Y0 <= i /\ i < F }
  <1> DEFINE l == Local(z, n)
             d == Day(l.wall)
             m == d * Hours
             Y0 == Stamp(z, [wall |-> m - Hours, fold |-> 0])
             F == Stamp(z, [wall |-> m, fold |-> 0])
             day(i) == Day(Local(z, i).wall)
  <1>1. Hours \in Nat \ {0}
    BY CalendarAssumption
  <1>2. \A i \in Int : Local(z, i).wall \in Int /\ day(i) \in Int
    <2>1. \A i \in Int : Local(z, i).wall \in Int
      BY WallMonotone
    <2> QED BY <2>1, DayBegins
  <1>3. d \in Int /\ m \in Int /\ m - Hours \in Int /\ m - Hours = (d - 1) * Hours /\ d - 1 \in Int
    <2>1. d \in Int
      BY <1>2
    <2> HIDE DEF d
    <2> QED BY <1>1, <2>1
  <1>4. \A i \in Int, k \in Int : k * Hours <= Local(z, i).wall <=> k <= day(i)
    BY <1>2, DayBegins
  <1>5. \A i \in Int : (i >= F <=> d <= day(i)) /\ (i >= Y0 <=> d - 1 <= day(i))
    <2> SUFFICES ASSUME NEW i \in Int
                 PROVE  (i >= F <=> d <= day(i)) /\ (i >= Y0 <=> d - 1 <= day(i))
      OBVIOUS
    <2>1. (i >= F <=> m <= Local(z, i).wall) /\ (i >= Y0 <=> m - Hours <= Local(z, i).wall)
      <3> HIDE DEF m
      <3> QED BY <1>3, FirstPass
    <2>2. (m <= Local(z, i).wall <=> d <= day(i)) /\ (m - Hours <= Local(z, i).wall <=> d - 1 <= day(i))
      <3> HIDE DEF d, day
      <3> QED BY <1>3, <1>4
    <2> QED BY <2>1, <2>2
  <1>6. /\ F \in {m - z.before, m - z.after}
        /\ Y0 \in {m - Hours - z.before, m - Hours - z.after}
    <2> HIDE DEF m
    <2> QED BY <1>3, FirstPass
  <1>7. z.before \in Int /\ z.after \in Int /\ z.after - z.before \in {-1, 0, 1}
    BY UsageAssumption, ClockAssumption
  <1>8. F \in Int /\ Y0 \in Int /\ F - Y0 \in {Hours - 1, Hours, Hours + 1}
    <2> HIDE DEF F, Y0, m
    <2> QED BY <1>1, <1>3, <1>6, <1>7
  <1>9. n \in Int /\ 0 \in Int /\ d = day(n) /\ day(0) + 2 <= d
    OBVIOUS
  <1>10. RangeOfPeriod(z, "yesterday", n) = [from |-> {Y0}, to |-> {Y0 + Hours}]
    <2>1. Minus(Midnight(l), Hours) = [wall |-> m - Hours, fold |-> 0]
      BY FoldOnlyRepeated DEF Minus, Midnight
    <2> QED BY <2>1 DEF RangeOfPeriod
  <1>11. \A i \in 0..n : i \in Int /\ (i \in DayBefore(z, n) <=> day(i) = d - 1)
    BY DEF DayBefore
  <1>12. \A i : InRange(i, RangeOfPeriod(z, "yesterday", n)) <=> i >= Y0 /\ i < Y0 + Hours
    BY <1>10 DEF InRange
  <1>13. InPeriodSoFar(z, "yesterday", n) = { i \in 0..n : i >= Y0 /\ i < Y0 + Hours }
    BY <1>12 DEF InPeriodSoFar
  <1>14. DayBefore(z, n) \subseteq 0..n
    BY DEF DayBefore
  <1> HIDE DEF l, d, m, Y0, F, day
  <1>15. F <= n /\ Y0 > 0
    BY <1>2, <1>3, <1>5, <1>8, <1>9
  <1>16. DayBefore(z, n) = { i \in 0..n : Y0 <= i /\ i < F }
    <2>1. \A i \in 0..n : i \in DayBefore(z, n) <=> Y0 <= i /\ i < F
      BY <1>2, <1>3, <1>5, <1>8, <1>11
    <2> QED BY <1>14, <2>1
  <1>17. InPeriodSoFar(z, "yesterday", n) = { i \in 0..n : Y0 <= i /\ i < Y0 + Hours }
    BY <1>8, <1>13
  <1>18. Y0 \in Nat /\ F \in Nat /\ Y0 <= F
    BY <1>1, <1>8, <1>15
  <1> QED BY <1>8, <1>15, <1>16, <1>17, <1>18

\* The clock is past the first two days of the calendar.
ClockLate ==
  /\ zone \in Zones
  /\ now \in Nat
  /\ Day(Local(zone, now).wall) >= Day(Local(zone, 0).wall) + 2

\* Today, this week and this month are buckets.
LEMMA PeriodsSoFar == ClockLate => SoFarIsBucket
  <1> SUFFICES ASSUME ClockLate PROVE SoFarIsBucket
    OBVIOUS
  <1>1. zone \in Zones /\ now \in Int
    BY DEF ClockLate
  <1>2. \A i \in 0..now : i \in Int /\ i <= now
    BY <1>1
  <1>3. InPeriodSoFar(zone, "week", now) = BucketSoFar(zone, "week", now)
    BY <1>1, <1>2, SoFar DEF InPeriodSoFar, BucketSoFar
  <1>4. ASSUME ~SecondMidnight(zone, now)
        PROVE  /\ InPeriodSoFar(zone, "today", now) = BucketSoFar(zone, "day", now)
               /\ InPeriodSoFar(zone, "month", now) = BucketSoFar(zone, "month", now)
    BY <1>1, <1>2, <1>4, SoFar DEF InPeriodSoFar, BucketSoFar
  <1> QED BY <1>3, <1>4 DEF SoFarIsBucket

\* So many hours ago by the wall clock is so many hours ago, but for a change of the
\* clocks since.
LEMMA WallHoursAgo ==
  ASSUME NEW z \in Zones, NEW n \in Int, NEW hours \in Nat
  PROVE  LET from == Stamp(z, Minus(Local(z, n), hours))
         IN  \/ from = n - hours
             \/ from \in {n - hours - 1, n - hours + 1} /\ from <= z.at /\ z.at <= n
  <1>1. z.at \in Int /\ z.before \in Int /\ z.after \in Int /\ z.after - z.before \in {-1, 0, 1}
    BY UsageAssumption, ClockAssumption
  <1> QED BY <1>1 DEF Stamp, Minus, Local, Later

\* The last day and the last week are those many hours.
LEMMA LastHours == ClockLate => LastHoursElapsed
  <1> SUFFICES ASSUME ClockLate,
                      NEW last \in { <<"24h", Hours>>, <<"7d", WeekDays * Hours>> },
                      NEW from \in RangeOfPeriod(zone, last[1], now).from
               PROVE  \/ from = now - last[2]
                      \/ /\ from \in {now - last[2] - 1, now - last[2] + 1}
                         /\ from <= zone.at /\ zone.at <= now
    BY DEF LastHoursElapsed
  <1>1. zone \in Zones /\ now \in Int
    BY DEF ClockLate
  <1>2. Hours \in Nat /\ WeekDays * Hours \in Nat
    BY CalendarAssumption
  <1>3. last[2] \in Nat
    BY <1>2
  <1>4. from = Stamp(zone, Minus(Local(zone, now), last[2]))
    BY DEF RangeOfPeriod
  <1> QED BY <1>1, <1>3, <1>4, WallHoursAgo

\* Yesterday is the day before, but for the hour of a change of the clocks.
LEMMA YesterdayByCalendar == ClockLate => YesterdayIsDayBefore
  <1> SUFFICES ASSUME ClockLate PROVE YesterdayIsDayBefore
    OBVIOUS
  <1> DEFINE yesterday == InPeriodSoFar(zone, "yesterday", now)
             day == DayBefore(zone, now)
  <1>1. zone \in Zones /\ now \in Nat /\ Hours \in Nat \ {0}
    BY CalendarAssumption DEF ClockLate
  <1>2. PICK Y0 \in Nat, F \in Nat :
          /\ Y0 <= F /\ F <= now
          /\ F - Y0 \in {Hours - 1, Hours, Hours + 1}
          /\ yesterday = { i \in 0..now : Y0 <= i /\ i < Y0 + Hours }
          /\ day = { i \in 0..now : Y0 <= i /\ i < F }
    BY Yesterday DEF ClockLate
  <1> HIDE DEF yesterday, day
  <1>3. ASSUME NEW i \in yesterday, NEW j \in day, \A h \in yesterday : i <= h
        PROVE  i <= j
    <2>1. Y0 \in yesterday
      BY <1>1, <1>2
    <2> QED BY <1>1, <1>2, <1>3, <2>1
  <1>4. \/ yesterday = day
        \/ yesterday \subseteq day /\ LongDay(day)
        \/ day \subseteq yesterday /\ ShortDay(day)
    <2>1. CASE F = Y0 + Hours
      BY <1>1, <1>2, <2>1
    <2>2. CASE F = Y0 + Hours + 1
      <3>1. yesterday \subseteq day
        BY <1>1, <1>2, <2>2
      <3>2. Y0 \in day /\ Y0 + Hours \in day /\ (Y0 + Hours) - Y0 = Hours
        BY <1>1, <1>2, <2>2
      <3> QED BY <3>1, <3>2 DEF LongDay
    <2>3. CASE F = Y0 + Hours - 1
      <3>1. day \subseteq yesterday
        BY <1>1, <1>2, <2>3
      <3>2. \A i, j \in day : i \in Int /\ j \in Int /\ j - i < Hours - 1
        BY <1>1, <1>2, <2>3
      <3>3. \A i, j \in day : j - i # Hours /\ j - i # Hours - 1
        BY <1>1, <3>2
      <3> QED BY <3>1, <3>3 DEF ShortDay, LongDay
    <2> QED BY <1>1, <1>2, <2>1, <2>2, <2>3
  <1> QED BY <1>3, <1>4 DEF YesterdayIsDayBefore, yesterday, day

\* The clock is late from the start and goes on.
LEMMA ClockLateHolds == Spec => []ClockLate
  <1>1. Init => ClockLate
    BY UsageAssumption, ClockAssumption DEF Init, ClockLate
  <1>2. ClockLate /\ [Next]_vars => ClockLate'
    <2> SUFFICES ASSUME ClockLate, [Next]_vars PROVE ClockLate'
      OBVIOUS
    <2>1. zone' = zone /\ now' \in {now, now + 1}
      BY DEF Next, vars, env, page, Open, Apply, Reset, Render, Drawn, Call, Resolve, Answer,
             Fail, Becomes, Land, Tick
    <2>2. now' \in Nat /\ now \in Int /\ now' \in Int /\ now <= now'
      BY <2>1 DEF ClockLate
    <2>3. /\ Local(zone, now).wall \in Int /\ Local(zone, now').wall \in Int
          /\ Local(zone, 0).wall \in Int
          /\ Local(zone, now).wall <= Local(zone, now').wall
      BY <2>2, WallMonotone DEF ClockLate
    <2>4. \A v \in Int, w \in Int : v <= w => Day(v) <= Day(w)
      <3> SUFFICES ASSUME NEW v \in Int, NEW w \in Int, v <= w PROVE Day(v) <= Day(w)
        OBVIOUS
      <3>1. Hours \in Nat \ {0}
        BY CalendarAssumption
      <3>2. Day(v) \in Int /\ Day(v) * Hours \in Int /\ Day(v) * Hours <= v
        BY <3>1, DayBegins
      <3>3. Day(v) * Hours <= w
        BY <3>2
      <3> QED BY <3>2, <3>3, DayBegins
    <2>5. /\ Day(Local(zone, now).wall) \in Int /\ Day(Local(zone, now').wall) \in Int
          /\ Day(Local(zone, 0).wall) \in Int
          /\ Day(Local(zone, now).wall) <= Day(Local(zone, now').wall)
      BY <2>3, <2>4, DayBegins
    <2>6. Day(Local(zone, now').wall) >= Day(Local(zone, 0).wall) + 2
      BY <2>5 DEF ClockLate
    <2> QED BY <2>1, <2>2, <2>6 DEF ClockLate, Local
  <1> QED BY <1>1, <1>2, PTL DEF Spec

\* Whatever the zone, the calendar and the time: the periods of the usage page
\* are the buckets of the same name, and yesterday is the day before, but for
\* the hours of a change of the clocks that the property names.
THEOREM PeriodsFollowCalendarHolds == Spec => []PeriodsFollowCalendar
  <1>1. ClockLate => PeriodsFollowCalendar
    BY PeriodsSoFar, YesterdayByCalendar, LastHours DEF PeriodsFollowCalendar
  <1> QED BY <1>1, ClockLateHolds, PTL

------------------------------------------------------------------------------
(* The two calls of a load *)

\* What a period means depends on the date alone, and for the second pass of a
\* repeated midnight on the pass; for the last hours and days, on the instant.
LEMMA SamePeriod ==
  ASSUME NEW z \in Zones, NEW period \in Periods, NEW i \in Int, NEW j \in Int,
         ~Turned(z, period, i, j)
  PROVE  RangeOfPeriod(z, period, i) = RangeOfPeriod(z, period, j)
  <1> DEFINE v == Local(z, i)
             w == Local(z, j)
  <1>1. /\ v.wall \in Int /\ w.wall \in Int /\ v.fold \in {0, 1} /\ w.fold \in {0, 1}
        /\ v = [wall |-> v.wall, fold |-> v.fold] /\ w = [wall |-> w.wall, fold |-> w.fold]
    BY ClockTypes, FoldOnlyRepeated
  <1>8. ASSUME NEW n \in Int, ~SecondMidnight(z, n)
        PROVE  /\ Stamp(z, Midnight(Local(z, n)))
                    = Stamp(z, [wall |-> Day(Local(z, n).wall) * Hours, fold |-> 0])
               /\ Stamp(z, MonthStart(Local(z, n)))
                    = Stamp(z, [wall |-> Month(Local(z, n).wall) * MonthDays * Hours, fold |-> 0])
    <2> DEFINE l == Local(z, n)
               day == Day(l.wall) * Hours
               month == Month(l.wall) * MonthDays * Hours
    <2>1. l.wall \in Int /\ l.fold \in {0, 1} /\ l = [wall |-> l.wall, fold |-> l.fold]
      BY ClockTypes, FoldOnlyRepeated
    <2>2. day \in Int /\ month \in Int
      <3>1. Day(l.wall) \in Int /\ Month(l.wall) \in Int /\ Hours \in Int /\ MonthDays \in Int
        BY <2>1, ClockTypes, CalendarAssumption
      <3> QED BY <3>1
    <2>3. /\ Midnight(l) = [wall |-> day, fold |-> l.fold]
          /\ MonthStart(l) = [wall |-> month, fold |-> l.fold]
      BY <2>1 DEF Midnight, MonthStart
    <2>4. l.fold = 1 => z.after < z.before /\ ~Repeated(z, day) /\ ~Repeated(z, month)
      BY <1>8, MonthBeginsOnce
    <2> HIDE DEF l, day, month
    <2>5. /\ Stamp(z, [wall |-> day, fold |-> l.fold]) = Stamp(z, [wall |-> day, fold |-> 0])
          /\ Stamp(z, [wall |-> month, fold |-> l.fold]) = Stamp(z, [wall |-> month, fold |-> 0])
      BY <2>1, <2>2, <2>4, PassIdle
    <2> QED BY <2>3, <2>5 DEF l, day, month
  <1>9. SecondMidnight(z, i) /\ SecondMidnight(z, j) =>
          /\ Day(v.wall) = Day(w.wall) => Midnight(v) = Midnight(w)
          /\ Month(v.wall) = Month(w.wall) => MonthStart(v) = MonthStart(w)
    BY <1>1 DEF SecondMidnight, Midnight, MonthStart
  <1>2. CASE period \in {"24h", "7d"}
    <2>1. i = j
      BY <1>2 DEF Turned
    <2> QED BY <2>1
  <1>3. CASE period = "all"
    BY <1>3 DEF RangeOfPeriod
  <1>4. CASE period = "yesterday"
    <2>1. Day(v.wall) = Day(w.wall)
      BY <1>4 DEF Turned, BucketKey
    <2>2. Minus(Midnight(v), Hours) = Minus(Midnight(w), Hours)
      BY <1>1, <2>1 DEF Minus, Midnight
    <2> QED BY <1>4, <2>2 DEF RangeOfPeriod
  <1>5. CASE period = "week"
    <2>1. WeekKey(v.wall) = WeekKey(w.wall)
      BY <1>5 DEF Turned, BucketKey
    <2>2. Day(v.wall) - Weekday(v.wall) = Day(w.wall) - Weekday(w.wall)
      BY <1>1, <2>1, SameWeek
    <2>3. Minus(Midnight(v), Weekday(v.wall) * Hours) = Minus(Midnight(w), Weekday(w.wall) * Hours)
      <3>1. /\ Day(v.wall) \in Int /\ Weekday(v.wall) \in Int
            /\ Day(w.wall) \in Int /\ Weekday(w.wall) \in Int /\ Hours \in Nat
        BY <1>1, ClockTypes, CalendarAssumption
      <3>2. \A a, b, c, d \in Int, h \in Nat : a - b = c - d => a * h - b * h = c * h - d * h
        <4> SUFFICES ASSUME NEW a \in Int, NEW b \in Int, NEW c \in Int, NEW d \in Int,
                            NEW h \in Nat, a - b = c - d
                     PROVE  a * h - b * h = c * h - d * h
          OBVIOUS
        <4>1. (a - b) * h = (c - d) * h
          OBVIOUS
        <4>2. (a - b) * h = a * h - b * h /\ (c - d) * h = c * h - d * h
          OBVIOUS
        <4> QED BY <4>1, <4>2
      <3>3. Day(v.wall) * Hours - Weekday(v.wall) * Hours
              = Day(w.wall) * Hours - Weekday(w.wall) * Hours
        BY <2>2, <3>1, <3>2
      <3> QED BY <1>1, <3>3 DEF Minus, Midnight
    <2> QED BY <1>5, <2>3 DEF RangeOfPeriod
  <1>6. CASE period = "today"
    <2>1. Day(v.wall) = Day(w.wall) /\ SecondMidnight(z, i) = SecondMidnight(z, j)
      BY <1>6 DEF Turned, BucketKey
    <2>2. Stamp(z, Midnight(v)) = Stamp(z, Midnight(w))
      BY <2>1, <1>8, <1>9 DEF Midnight
    <2> QED BY <1>6, <2>2 DEF RangeOfPeriod
  <1>7. CASE period = "month"
    <2>1. Month(v.wall) = Month(w.wall) /\ SecondMidnight(z, i) = SecondMidnight(z, j)
      BY <1>7 DEF Turned, BucketKey
    <2>2. Stamp(z, MonthStart(v)) = Stamp(z, MonthStart(w))
      BY <2>1, <1>8, <1>9
    <2> QED BY <1>7, <2>2 DEF RangeOfPeriod
  <1> QED BY <1>2, <1>3, <1>4, <1>5, <1>6, <1>7 DEF Periods

\* The two answers of a load differ by logs that landed between their SELECTs, or
\* because the period turned between their clock readings.
THEOREM PanelsDifferForCauseHolds == Spec => []PanelsDifferForCause
  <1>1. PageInv => PanelsDifferForCause
    <2> SUFFICES ASSUME PageInv, NEW k \in DOMAIN loads, NEW p \in Panels, NEW q \in Panels,
                        loads[k].call[p].stage = "answered",
                        loads[k].call[q].stage = "answered",
                        NEW r \in Covered(p, loads[k].call[p].answer)
                                    \ Covered(q, loads[k].call[q].answer),
                        r \in loads[k].call[q].seen,
                        ~Turned(zone, loads[k].filters.period,
                                loads[k].call[p].asked, loads[k].call[q].asked)
                 PROVE  FALSE
      BY DEF PanelsDifferForCause
    <2> DEFINE filters == loads[k].filters
               one == loads[k].call[p]
               other == loads[k].call[q]
    <2>1. /\ k \in 1..Len(loads) /\ zone \in Zones /\ filters \in {Default, choice}
          /\ one.asked \in Int /\ other.asked \in Int
      <3>1. k \in 1..Len(loads) /\ loads[k] \in LoadRecords /\ zone \in Zones
        BY DEF PageInv, PageTypeOK
      <3>2. one \in CallRecords /\ other \in CallRecords /\ filters \in {Default, choice}
        BY <3>1 DEF LoadRecords
      <3> QED BY <3>1, <3>2 DEF CallRecords
    <2>2. /\ Covered(p, one.answer) = RowsOf(opened, one.seen, RangeIn(zone, filters, one.asked))
          /\ Covered(q, other.answer) = RowsOf(opened, other.seen, RangeIn(zone, filters, other.asked))
      BY <2>1 DEF PageInv, Answers
    <2>3. filters.period \in Periods \/ filters.period = "custom"
      <3>1. \/ filters \in [period : Periods]
            \/ filters \in [period : {"custom"}, from : Int, to : Int]
        BY <2>1, FiltersAssumption DEF PageInv, PageTypeOK, Default, Periods
      <3> QED BY <3>1
    <2>4. RangeIn(zone, filters, one.asked) = RangeIn(zone, filters, other.asked)
      BY <2>1, <2>3, SamePeriod DEF RangeIn
    <2> QED BY <2>2, <2>4 DEF RowsOf
  <1> QED BY <1>1, PageInvHolds, PTL
==============================================================================

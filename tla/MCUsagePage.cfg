SPECIFICATION FairSpec
CONSTANTS
  Hours = 4
  WeekDays = 3
  MonthDays = 2
  YearMonths = 2
  Zones <- MCZones
  Clock <- MCClock
  Openings <- MCOpenings
  Requests <- MCRequests
  Age <- MCAge
  Late = {"late"}
  OtherFilters <- MCOtherFilters
  MaxTicks = 1
  MaxLoads = 3
INVARIANTS
  PeriodsFollowCalendar
  RefusedOnlyInGap
  ShownIsAskedFor
  PanelsDifferForCause
PROPERTIES
  LoadSettles
CHECK_DEADLOCK FALSE

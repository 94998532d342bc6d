SPECIFICATION Spec
CONSTANTS
  r1 = r1
  r2 = r2
  r3 = r3
  Requests <- MCRequests
  Slots = 1
  QueueTimeout = 1
  TotalRequest = 2
SYMMETRY Symmetry
INVARIANTS
  SlotsMatchLocations
  UpstreamBounded
  LoggedOnce
  SuccessIsComplete
  DisconnectLogExplained
PROPERTIES
  RefinesLease

SPECIFICATION GatewaySpec
CONSTANTS
  r1 = r1
  r2 = r2
  r3 = r3
  Requests <- MCPair
  Slots = 1
  QueueTimeout = 1
  TotalRequest = 2
PROPERTY EveryRequestSettles

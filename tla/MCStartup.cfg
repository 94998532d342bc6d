SPECIFICATION FairSpec
CONSTANTS
  Gateways <- MCGateways
  Commands <- MCCommands
  VersionOf <- MCVersionOf
  Tables = 2
  MaxDeaths = 1
INVARIANTS
  RunningAgree
  RefusedForCause
PROPERTIES
  GatewayComesUp

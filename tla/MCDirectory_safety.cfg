SPECIFICATION Spec
CONSTANTS
  c1 = c1
  c2 = c2
  c3 = c3
  n1 = n1
  v1 = v1
  Gateway <- MCGateway
  Cli <- MCCli
  Names = {n1}
  Limits = {v1}
  Null = Null
  LongLocks = TRUE
SYMMETRY Symmetry
INVARIANTS ConfirmedIsDurable OneCreator LockKeptOnlyByRejection
PROPERTIES EnabledOnlyByEnable KeptLimitLostOnlyInRace

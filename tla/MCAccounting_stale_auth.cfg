SPECIFICATION Spec
CONSTANTS
  r1 = r1
  r2 = r2
  r3 = r3
  Requests <- MCPair
  TokenCounts = {0, 2}
  TokenLimit = 2
  MayCrash = FALSE
  LongLocks = TRUE
SYMMETRY Symmetry
INVARIANTS
  DisableIsImmediate

SPECIFICATION Spec
CONSTANTS
  k1 = k1
  k2 = k2
  Keys <- MCKeys
  Limits <- MCLimits
  Second = 2
  WindowSeconds = 2
  Horizon = 6
  MaxCalls <- MCMaxCalls
INVARIANTS WindowBounded RefusedOnlyWhenFull RetryAfterHonoured
CHECK_DEADLOCK FALSE

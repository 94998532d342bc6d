SPECIFICATION Spec
CONSTANTS
  a1 = a1
  a2 = a2
  a3 = a3
  o1 = o1
  o2 = o2
  i1 = i1
  i2 = i2
  Logins <- MCLogins
  Origins <- MCOrigins
  Inits <- MCInits
  Nobody = Nobody
  MaxFailures = 1
  LoginWindow = 2
  SessionTtl = 2
  Horizon = 3
SYMMETRY Symmetry
INVARIANT FailuresBounded
PROPERTIES BlockedOnlyForFailures ValidOnlyWhileAlive ReplacedOnlyInRace

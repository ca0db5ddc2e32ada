SPECIFICATION Spec
CONSTANTS
  g1 = g1
  g2 = g2
  Grants = {g1}
  Sessions = {s1}
  Paths = {p1}
  NotBefore <- MCNotBefore
  Expiry <- MCExpiry
  MaxTime = 1
  MaxCrashes = 0
PROPERTY
  ServesUntilShutdown

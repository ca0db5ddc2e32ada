\* Two sessions of one grant that ends, one mountpoint, one crash.
SPECIFICATION FairSpec
CONSTANTS
  g1 = g1
  g2 = g2
  Grants = {g1}
  Sessions = {s1, s2}
  Paths = {p1}
  NotBefore <- MCNotBefore
  Expiry <- MCExpiry
  MaxTime = 1
  MaxCrashes = 1
INVARIANTS
  SoleUnrevokedSession
  RefreshedAuthority
  RowsAreTrue
PROPERTIES
  RevokedIsRetired

\* Three channels over one session identifier and two nonces; no symmetry.
SPECIFICATION RemoteFairSpec
CONSTANTS
  a1 = a1
  a2 = a2
  a3 = a3
  s1 = s1
  k1 = k1
  k2 = k2
  Attempts = {a1, a2, a3}
  Sids = {s1}
  Keys = {k1, k2}
  Sid <- MCSid
  Key <- MCKey
  Expiry <- MCExpiry
  MaxTime = 1
CHECK_DEADLOCK FALSE
INVARIANTS
  WorkersAreKnown
PROPERTIES
  ReadyAfterRegistration
  ExpiredWorkersEnd
  SessionsEnd

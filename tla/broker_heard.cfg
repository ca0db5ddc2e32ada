\* The channels of broker.cfg; the broker dies when one of them has gone.
SPECIFICATION RemoteSpec
CONSTANTS
  a1 = a1
  a2 = a2
  a3 = a3
  s1 = s1
  k1 = k1
  k2 = k2
  Attempts = {a1, a2, a3}
  Sids = {s1}
  Keys = {k1, k2}
  Sid <- MCSid
  Key <- MCKey
  Expiry <- MCExpiry
  MaxTime = 1
CHECK_DEADLOCK FALSE
PROPERTIES
  EveryChannelIsHeard

\* Two operations on a path and one on a credential; a table of one.
SPECIFICATION FairSpec
CONSTANTS
  c1 = c1
  c2 = c2
  c3 = c3
  path = path
  credential = credential
  o1 = o1
  Callers = {c1, c2, c3}
  Keys = {path, credential}
  Want <- PathShared
  Credentials = {credential}
  Operators = {o1}
  MaxPending = 1
  MaxRecent = 2
CHECK_DEADLOCK FALSE
INVARIANTS
  TableIsSound
  AllowedWasDecided
PROPERTIES
  DecidedAsShown
  CallsEnd

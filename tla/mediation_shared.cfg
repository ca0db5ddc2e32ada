\* One operation on a path and two on a credential; a table of one.
SPECIFICATION Spec
CONSTANTS
  c1 = c1
  c2 = c2
  c3 = c3
  path = path
  credential = credential
  o1 = o1
  Callers = {c1, c2, c3}
  Keys = {path, credential}
  Want <- CredentialShared
  Credentials = {credential}
  Operators = {o1}
  MaxPending = 1
  MaxRecent = 2
CHECK_DEADLOCK FALSE
INVARIANTS
  AllowedWasDecided

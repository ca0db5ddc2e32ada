CONSTANTS
  p1 = p1
  p2 = p2
  Procs <- Both
  Retain = 2
  Retention = 2
  Limits <- NoneAndTwo
  MaxEvents = 6
  MaxInterrupts = 2
SPECIFICATION AuditSpec
INVARIANTS
  ChainIsWhole
  LinksSurvive
  LogIsSound
CHECK_DEADLOCK FALSE

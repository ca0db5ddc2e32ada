CONSTANTS
  pn = pn
  an = an
  bn = bn
  on = on
  hn = hn
  Rules <- Plain
  Paths <- FlatPaths
  HostFiles <- HostHome
  MaxBytes = 1
  MaxFiles = 2
  MaxInode = 2
  MaxCount = 2
  MaxHandle = 1
  MaxObject = 2
  MaxSize = 2
SYMMETRY Interchangeable
VIEW LiveState
SPECIFICATION HomeSpec
INVARIANTS
  KernelInodesResolve
  HomeIsSound
PROPERTIES
  QuotaHolds
CHECK_DEADLOCK FALSE

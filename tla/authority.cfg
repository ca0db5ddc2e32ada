CONSTANTS
  Proposals <- MCProposals
  Foreign <- MCForeign
  NoHost = NoHost
  MaxStored = 2
  TargetOrder <- MCTargetOrder
  PlannerReserved <- MCPlannerReserved
  WorkerReserved <- MCWorkerReserved
  Roots <- MCRoots
  Forbidden <- MCForbidden
  MaxExports = 2
  Policy = "policy"
  Sources <- MCSources
  Objects <- MCObjects
  Ino <- MCIno
  Kind <- MCKind
  Unfit <- MCUnfit
  FirstAt <- MCFirstAt
  p1 = p1
  p2 = p2
  Pids = {p1, p2}
  Extras <- MCExtras
  TargetBytes <- MCTargetBytes
  MaxPlanBytes = 4096
  MaxRequests = 2
SPECIFICATION Spec
SYMMETRY Symmetry
INVARIANTS
  ServesWhatWasSigned
  IdleHoldsNothing
  CalmIsServed
  PlansAreCanonical
  NoSilentWidening
  ServedIsVouchedFor

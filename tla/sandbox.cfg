SPECIFICATION DrainedSpec
CONSTANTS
  r1 = r1
  r2 = r2
  g1 = g1
  Runs = {r1, r2}
  Grants = {g1}
  Sessions = {"s1"}
  Exports <- MCOne
  MaxViews <- MCMaxViews
  MaxTroubles = 1
INVARIANTS CleanUpWaitsForWork MountsAreFound
PROPERTIES GuestsLeaveSessionsAlone LostRunsEnd
CHECK_DEADLOCK FALSE

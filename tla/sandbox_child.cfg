SPECIFICATION Spec
CONSTANTS
  r1 = r1
  r2 = r2
  g1 = g1
  Runs = {r1, r2}
  Grants = {g1}
  Sessions = {"s1"}
  Exports <- MCOne
  MaxViews <- MCMaxViews
  MaxTroubles = 1
INVARIANT ChildDoesNotOutlive
CHECK_DEADLOCK FALSE

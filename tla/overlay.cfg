SPECIFICATION Spec
CONSTANTS
  s1 = s1
  s2 = s2
  Sessions = {s1, s2}
  Paths <- MCPaths
  Lower <- MCLower
  Contents <- MCContents
  Empty <- MCEmpty
  MaxPending = 1
INVARIANT TreesAreSound
PROPERTIES CompletesExactly CrashIsAllOrNothing ChangesStayLocal
SYMMETRY SessionSymmetry

SPECIFICATION ProfileSpec
CONSTANTS
  a1 = a1
  a2 = a2
  a3 = a3
  ro = ro
  rx = rx
  other = other
  Commands <- TwoCommands
  Rules <- TheRules
  Conflicts <- OneConflict
  Learnable <- Readable
  MaxRevision = 3
  MaxBirths = 2
SYMMETRY Symmetric
PROPERTIES SealedIsFrozen SavesStack
CHECK_DEADLOCK FALSE

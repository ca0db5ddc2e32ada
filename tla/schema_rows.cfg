SPECIFICATION Spec
CONSTANTS
  o1 = o1
  o2 = o2
  o3 = o3
  Openers = {o1, o2, o3}
  Known <- MCKnown
  Destructive <- MCDestructive
  MaxRows = 1
  MaxCrashes = 2
PROPERTIES
  BackupMissesNoRow

SPECIFICATION Spec
CONSTANTS
  Blocks = {1, 2, 3, 4}
  Images = {old, new}
  Size = 2
  Faults = {}
INVARIANT BackupIsProgram

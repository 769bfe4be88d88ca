\* Three reports of one configuration: two earlier ones to choose from.
SPECIFICATION Spec
CONSTANTS
  Nothing = Nothing
  p = p
  q = q
  r = r
  Runs <- SameRuns
  Methods <- SameMethods
  Config <- SameConfig
  FoldersOf <- SameFolders
  Measured = 1
  MaxClock = 2
INVARIANTS
  TypeOK
  NewestIsUsed

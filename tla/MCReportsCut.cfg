\* The second report meets what the first has left of itself.
SPECIFICATION Spec
CONSTANTS
  Nothing = Nothing
  p = p
  q = q
  r = r
  Runs <- JsonRuns
  Methods <- TextMethods
  Config <- JsonConfig
  FoldersOf <- JsonFolders
  Measured = 1
  MaxClock = 1
INVARIANT
  RejectsIncomplete

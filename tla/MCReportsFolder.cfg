\* Two processes find no folder for their JSON reports.
SPECIFICATION Spec
CONSTANTS
  Nothing = Nothing
  p = p
  q = q
  r = r
  Runs <- JsonRuns
  Methods <- JsonMethods
  Config <- JsonConfig
  FoldersOf <- JsonFolders
  Measured = 1
  MaxClock = 1
INVARIANT
  ResultsAreSaved

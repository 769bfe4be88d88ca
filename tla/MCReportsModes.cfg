\* Both modes, two configurations and both save methods in the same folders, with
\* an earlier report to compare with and one that is not comparable.
SPECIFICATION Spec
CONSTANTS
  Nothing = Nothing
  p = p
  q = q
  r = r
  Runs <- SameRuns
  Methods <- MixedMethods
  Config <- MixedConfig
  FoldersOf <- MixedFolders
  Measured = 1
  MaxClock = 1
INVARIANTS
  SavedBeforeGoingOn
  ComparesLikeWithLike

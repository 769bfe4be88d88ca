\* Three-bit integers and six-bit words: every combination of settings, among
\* them those whose products do not fit.
SPECIFICATION WorkloadsSpec
CONSTANTS
  IntMax = 7
  WordMax = 63
  Lanes = 2
  PerIteration = 2
  MiB = 5
  PerElement = 2
  Orders <- SomeOrders
  StrideAsked = 16
  Laps = 2
  Steps = 2
  MatrixSize = 3
  Block = 2
  SweepNodes = 4
  SweepHops = 10
INVARIANTS
  TypeOK
  AllIterationsAssigned
  FairShares
  LanesCoverIterations
  WithinLimit
  WorkloadsTypeOK
  WorkDoneIsReported
  VisitsEverything

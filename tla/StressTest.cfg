\* Three benchmarks: one as floating_point, one as pointer_chase (prepared), one
\* as sorting (prepared, with a setup).
SPECIFICATION FairSpec
CONSTANTS
  NumBenchmarks = 3
  Prepared = {2, 3}
  HasSetup = {3}
  Warmups = 5
  NumRuns = 2
  CountModulus = 4
  LateCap = 2
INVARIANTS
  TypeOK
  AtMostOneLateCall
  SamplesAreMeasured
  HandlersRestored
PROPERTIES
  RequestIsKept
  OnlyWholeCyclesCount
  StopsWhenAsked
  KeepsTheLoadUp

\* The calls of MCSuite; one weight unit for benchmarks that are not named, and
\* baselines of 3 and 4, as the 0.015 and 0.020 of the code.
SPECIFICATION Spec
CONSTANTS
  Cases <- SomeCases
  KernelWeight = 1
  IntegerBaseline = 3
  FloatingBaseline = 4
INVARIANTS
  TypeOK
  ReportIsWhole
  ConfigurationDescribesScores
  CombinedIsBetween
  StatisticsInOrder
  EveryBenchmarkHasBaseline

\* Three workers, four shards: worker 0 has two of them. Two calls, so that a
\* second call meets what the first one left behind.
SPECIFICATION FairSpec
CONSTANTS
  NumThreads = 3
  ShardCount = 4
  MaxCalls = 2
INVARIANTS
  TypeOK
  NoDanglingTask
  CallsComplete
  RoundsDoNotOverlap
  NobodyLeftBehind
PROPERTIES
  ImplementsForkJoin
  EveryCallEnds
  DestructorReturns

\* A pool whose second worker the operating system may refuse.
SPECIFICATION Spec
CONSTANTS
  NumThreads = 2
  ShardCount = 2
  MaxCalls = 1
INVARIANT
  RefusedThreadIsReported

\* Two threads are enough to tell a share from the whole.
SPECIFICATION Spec
CONSTANTS
  IntMax = 3
  WordMax = 31
  Lanes = 2
  PerIteration = 2
  MiB = 5
  PerElement = 2
INVARIANT
  IterationsPerThread

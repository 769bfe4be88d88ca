\* --infinite --numRuns and a profile that does not name num_runs.
SPECIFICATION Spec
CONSTANTS
  Numbers = {"thread_count", "iterations", "repeat_count", "num_runs"}
  MaxValue = 2
  MaxGiven = 1
  MaxLines = 1
INVARIANT
  NumRunsApplies

\* One setting of each kind: an option only (thread_count), an option the
\* profile overrides (iterations, repeat_count), and an option that overrides the
\* profile (memory_bandwidth_max_mib). Three lines: the benchmarks and a setting
\* that is given twice.
SPECIFICATION Spec
CONSTANTS
  Numbers = {"thread_count", "iterations", "repeat_count",
             "memory_bandwidth_max_mib"}
  MaxValue = 2
  MaxGiven = 1
  MaxLines = 3
INVARIANTS
  TypeOK
  OnlyValidSettingsRun
  LastSourceWins
  ProfileReplacesDefaultSuite
  RunsTheModeAskedFor
PROPERTY
  ProfileIsAllOrNothing

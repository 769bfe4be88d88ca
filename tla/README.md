# CPUBenchmark in TLA+

TLA+ modules that model the program under `src/`, TLC configurations that check
them on small instances, and theorems about them that TLAPS proves for every
value of the constants. Paths below are relative to the repository.

    tlc -workers 2 -config ThreadPool.cfg ThreadPool.tla     # a run
    tlapm ThreadPoolProofs.tla                               # the proofs of a module

`PROJECT.json` is the index: components, runs, which source lines each
definition stands for (`map`), hazards, findings and theorems.

## 1. The system

CPUBenchmark is a command-line program. `main` parses the arguments, builds a
coordinator, runs a suite of CPU benchmarks single-threaded, multi-threaded or
both, and after each mode saves a report and compares it with an earlier one.
A stress test repeats the suite until a signal stops it.

    main.cpp (run_cli, run_stress_test)
      |-- parse_arguments ----------- profiles on disk (file_manager)
      |-- benchmark_coordinator ----- plans shards, runs the list of benchmarks
      |     |-- benchmark_thread_pool   one per suite, a local variable
      |     |     `-- run_shards closures -> workloads (benchmark.cpp)
      |     |-- benchmark::run_benchmark  warmups, setup, samples, interrupt checks
      |     `-- scorer, timing_statistics -> benchmark_report
      |-- stress_signal_guard  ------ SIGINT, SIGTERM -> benchmark_interrupt::requested
      `-- save_report, compare_with_previous -- folders shared with other processes

| Component (source) | State | Operations | What makes it correct |
|---|---|---|---|
| `benchmark_thread_pool` (`include/benchmark_coordinator.hpp`, `src/benchmark_coordinator.cpp:10-61`) | two `std::barrier`s, `stop_`, `current_task_`, `worker_exception_`, threads | constructor, `run_all_indexed`, `worker_loop`, destructor | the closure and what it refers to outlive their use; rounds do not mix; a call runs every shard or throws; every call ends and every worker is joined |
| `run_shards` (`src/benchmark_coordinator.cpp`) | loop variable of each worker | the closure of every parallel call | each shard runs once |
| Stress test (`src/main.cpp:16-80`, `include/benchmark_interrupt.hpp`) | signal dispositions, `requested`, `completed` | guard, handler, cycle loop, summary | a request is kept and obeyed after at most one more call; only whole cycles count; dispositions are given back |
| `benchmark::run_benchmark` (`include/benchmark.hpp`) | `run_times`, position in the loop | checks, setup, warmups, samples | a score stands for `num_runs` samples on fresh input |
| Work planning (`run_specific_benchmarks`) | iterations, loops and working sets by shard | three planning loops, rejections | nothing lost, shards even, no wrap, memory limit respected |
| Saved reports (`benchmark_report.cpp`, `file_manager.cpp`, `main.cpp` `save_report`) | folders and files, shared by processes | create folder, write, list, parse, compare | nothing is lost silently; like is compared with like, with the newest |
| Suite and dispatch (`benchmark_coordinator::start`, `start_with_profile`, `run`) | list of names, report, run configuration, scorer | validate, dispatch by name and alias, sweep, repeat, modes | a report holds whole suites only, every chosen benchmark in each, and its configuration says how all its scores came about |
| `scorer`, report scores | scores, weights and baselines by benchmark | `add_score`, weighted geometric mean, combined score | every name that is scored has a weight and a baseline; diagnostics are left out; the combined score lies between its parts |
| `timing_statistics` | none (pure) | mean, median, percentiles, deviation | order and bounds of the percentiles |
| `parse_arguments`, profiles | settings | options, profile loading, validation | precedence of the sources, a bad profile changes nothing |
| Workloads (`src/benchmark.cpp`) | arrays, matrices, chains | one kernel per benchmark | pointer cycles and strides visit everything; the work reported is the work done |
| `thread_affinity` | none | one system call | its result is ignored |
| System information | none | collectors per platform | I/O only |

Components interact by direct calls on the main thread, except at three places,
which are where the behaviour is hard to test:

* the pool: the main thread and its workers share a closure, a flag and an
  exception, ordered by two barriers and a mutex;
* signals: handlers run at any moment and share one atomic flag with the loop;
* the file system: processes started side by side share the report folders, and
  any of them can be killed or meet a full disk half-way through a report.

Exceptions tie these together: a check, a workload, a limit or a score throws
through the runner, the pool's destructor and the signal guard. The full list
of what is hard to test, line by line, is `hazards` in `PROJECT.json`.

## 2. The modules

| Module | Models | State of the module and the code |
|---|---|---|
| `ThreadPool` | the pool, `run_shards`' closures inside it | below |
| `ForkJoin` | abstract specification of the pool: what the code that calls it relies on | `ran`, `threw`, `result` of the latest call |
| `ThreadPoolProofs` | theorems about `ThreadPool` | |
| `StressTest` | `stress_signal_guard`, `run_stress_test`, the loop over the benchmarks, `run_benchmark` | below |
| `StressTestProofs` | theorems about `StressTest` | |
| `Sharding` | the planning loops of `run_specific_benchmarks` | below |
| `DivisionLemmas`, `ShardingProofs` | facts about `\div` and `%`, least elements; theorems about `Sharding` | |
| `Workloads` | the loops and chains of `benchmark.cpp` on the plan of `Sharding`, and the work `run_specific_benchmarks` reports | below |
| `MCWorkloads` | orders of nodes for TLC | |
| `WorkloadsProofs` | theorems about `Workloads` | |
| `Suite` | a call of the coordinator: repetitions, modes, dispatch, scorer, statistics, report and its configuration | below |
| `MCSuite` | calls and samples for TLC | |
| `SuiteProofs` | theorems about `Suite` | |
| `Reports` | `save_report` and `compare_with_previous`, by several processes | below |
| `MCReports` | casts of processes for TLC | |
| `ReportsProofs` | theorems about `Reports` | |
| `Arguments` | `parse_arguments::parse`, the loading of a profile, the choice of `run_cli` | below |
| `ArgumentsProofs` | theorems about `Arguments` | |

A definition whose comment begins with "Fault:" is no part of a specification:
it is a plausible bug, one for each property, that the property is known to
catch (`mutants` in `PROJECT.json`).

### ThreadPool

`pc[Main]` and `pc[w]` are the control points of the calling thread and the
workers; `start` and `done` are the two barriers, each a phase and the count of
those who arrived. `ArriveStart`, `LeaveStart`, `ArriveDone` and `LeaveDone` are
the two halves of `arrive_and_wait`, for every thread. `Spawn` and `SpawnFails`
are the constructor, `StartCall` and `Collect` the two ends of
`run_all_indexed`, `Close` and `Join` the destructor, `ReadStop`, `RunShard`,
`ShardThrows`, `RecordException` and `TaskReturns` the body of `worker_loop` with
the closure of `run_shards` in it. Code under `worker_exception_mutex_` holds
no blocking call and is one step. `runs`, `failed` and `outcome` are history
variables: what happened in the latest call.

`current_task_` is read and called by workers without the lock. It is modelled
by the number of the call (`task`) and by the control points at which the
closure exists; `NoDanglingTask` is the claim that makes this safe.

### StressTest

One main thread with its control point, the disposition of the two signals, the
flag, and the variables of the loops. `Signal` may happen between any two steps.
A call on the pool (`prepare`, `setup`, `run`) is atomic from outside except that
a signal may arrive while it is in progress; it returns or throws, which is what
`ThreadPool` promises. `Check` is `benchmark_interrupt::check`. A point of the
cache size sweep counts as a benchmark. `std::signal` leaves to the platform whether
a delivered signal resets its disposition: glibc keeps it, Windows resets it. `Signal`
may do either, so a second Ctrl+C may kill the process; what holds on both is that
the first one, which finds the handler in place, does not.

### Sharding

Each planning loop is a state machine over the shards, with `IntMax` and
`WordMax` for the ranges of `int` and `uint64_t`; a value that the code computes
without a check may leave the range, and the unchecked sum of operations wraps.
The sizes of matrices and of the sorted and simulated inputs are computed as
doubles from other settings and are an arbitrary accept or reject.

### Workloads

`Workloads` extends `Sharding`: while `phase` is `"plan"` the plan is made, then one
benchmark is chosen (`Choose`) and its shards run one after the other, which is enough
because they share nothing. `Begin` builds the workload, with its chain if it is a walk
(`ShuffledChain`, `StridedChain` with the search of `Stride`); `Hop` is one step of a walk
and `Compute` one trip of any other loop, counted in the units its rate is printed in;
`EndShard` goes on. `Report` hands over the count that the coordinator computes, and
`CountRefused` is the exception of a count that does not fit a word: `n_body` and the sweep
are counted before anything runs (`CountedFirst`), the others in the arguments of
`add_score`, beside the run, and C++ leaves open which comes first. The count for `n_body`, which the code sums up shard by shard, is a
recursive function (`Interactions`). `work` and `visits` are history. The seven arithmetic
kernels are one kind, and so are `floating_point` and the branch benchmarks, whose loops
have the same form. `std::shuffle` may make any order.

### Suite

The coordinator's control point is `pc`, its place in the three nested loops is
`repeat`, `phase` (position in the modes) and `pos` (position in the list). `BeginSuite`
makes the scorer's tables and the run configuration, each action `Score`,
`SweepPoint`, `SkipUnknown`, ... handles one benchmark, `EndSuite` hands the scores and the
combined one to the report and turns to the next phase. `Throws` is every exception
of what other modules model: a rejected plan, a request to stop, a shard. What is
`"failed"` has left `start`.

Arithmetic is exact: times, weights and baselines are natural numbers, a mean is
kept as the sum of its samples, a percentile in hundredths, and the combined score, a
weighted geometric mean, as a root of a quotient of products (`FinalScore`), so that
scores compare by integers. A case of `Cases` is a call with its settings and the
samples its benchmarks may measure. `std::sort` is what it promises (`Sorted`: at
place k the k-th smallest), `std::accumulate` a recursive function (`Accumulated`), and so
are products (`Multiplied`) and powers. The scorer's map by name is the set of the places
where a name stands first (`Firsts`). The sizes a sweep may begin and end with are listed
(`SweepSizes`). `SuiteAssumption` is what `parse_arguments` guarantees: repetitions, runs
and baselines are positive, weights are not negative and not all 0 (which the scorer
would refuse), each benchmark is measured `num_runs` times, and options add to the default tables and remove nothing. Unknown
names and an empty list are possible only through the class's interface:
`parse_arguments` rejects both.

### Reports

A file is the number of its parts that have reached the disk (header, one Score
and one Time line per benchmark, the rest) and whether the next part is there
in part. `method`, the save method, is chosen when a process starts. A stream flushes at
any point (`Flush`) and a process dies at any point (`Kill`). The file system may refuse
the folder, the file and its data, and the suite may throw (`Fails`): the process ends
with an error. It may also refuse to list the folder (`CompareFails`: the exception is
caught, and the process goes on without a comparison) or to open a candidate
(`CannotOpen`: it is passed over). `List` is the directory listing, `Accept`, `Skip` and
`NoneComparable` are the loop over the candidates, each of which is read when its turn
comes.

`Name` reads the clock and `Open` creates the file, so a report may appear after others
that were named later; `Open` would overwrite what is there. The clock only goes forward
and no two reports are named at one reading of it (names hold microseconds): this is an
assumption, for names hold local time, and `NewestIsUsed` is to be read with it. Layout and
the printed comparison are not modelled.

### Arguments

The program's settings have four sources: defaults, options that `po::notify`
stores, the profile (whose numbers are all copied, those the file does not name
too), and `--memoryBandwidthMaxMiB` and the flags, which are stored last. The
variables are the command line (`given`, `flags`), the profile being read
(`temp`, and `file` for the lines read so far) and the fields of `Settings`. Each
step of `parse` is an action; `Launch` is the switch of `run_cli`. The constant
`Numbers` says which of the ten numeric settings are considered: a run needs one
of each kind, the theorems hold for any choice. A number is 0 when it is not
positive, and a bad line is one that `std::stoi` or the list of known benchmarks
rejects. Weights and baselines are accepted or rejected as a whole.

What `Arguments` lets through is where `Sharding` starts; `StressTest` and `Reports`
start where `Launch` ends.

## 3. The runs

| Run | Question | Bounds, and why they are enough |
|---|---|---|
| `thread_pool` | Do rounds mix, are calls complete, does everybody leave, does the pool implement `ForkJoin`, does every call and the destructor end? | 3 workers, 4 shards, 2 calls. One worker has two shards, so one can be cut off by a throw; two can throw at once; the second call meets the leftovers of the first; a fast worker can be a round ahead of a slow one. |
| `stress_test` | Are requests kept and obeyed, cycles and samples whole, handlers restored, and does the load go on? | 3 benchmarks (plain, prepared, prepared with setup), 5 warmups as in the code, 2 samples, a counter that wraps at 4: a wrap, and every place in a cycle, are reached. |
| `sharding` | Are all iterations assigned, evenly, without wrap, within the limit? Is the work reported the work done, and does every walk visit everything? | 3-bit ints and 6-bit words, every combination of the four settings; products that do not fit, more threads than iterations, and limits smaller than the request all occur. Any benchmark on each plan: every shuffle up to 4 nodes and three orders above; a stride of 16, which shares a divisor with every even size and is reduced by each size; 2 laps and 2 steps; a 3x3 matrix in blocks of 2, so that blocks are cut off on each side; a sweep point of 4 nodes and 10 hops, two laps and a half. Counts that do not fit occur both before and beside a run. |
| `suite` | Does the report hold whole suites, described by its configuration? Is the combined score between its parts, are the statistics in order, is no score refused? | 14 calls: the default suite; benchmarks the settings do not name, in both modes; names listed twice or by alias, over two repetitions; a weight of 0; the sweep beside others and alone; limits that do not fit, looked at first and last; no benchmark. 1 to 5 samples in every order, with 0 (not measurable), and four orders of 21 samples, where the 95th percentile is a sample. |
| `reports_newest` | Is the newest readable report compared with? | 3 processes, one folder, 3 clock readings: two earlier reports to choose from, each whole, unfinished, cut off or refused by the file system, and reports that appear under earlier names than those that are there. |
| `reports_modes` | Are all earlier modes saved before a process goes on? Do configurations mix, is a report ever compared with itself? | p saves in mode both, q has another configuration, r the same as p and text or JSON, in the same folders; 2 clock readings. p and r find each other's report and use it, both pass over q's, and nobody looks at JSON. |
| `arguments` | Does what runs come from the right source, checked after its last change? Does a bad profile change nothing? | one setting of each kind, values 0 (not positive), 1 and 2, any thread count by default, one option, all flags, a profile of three lines: the benchmarks and a number given twice. |
| `thread_refused`, `num_runs_ignored`, `iterations_per_thread`, `reports_folder`, `reports_cut` | the findings of section 4 | the smallest cast that shows each |

What each property says stands above it in its module. The runs show that the
properties of the first seven hold on these instances.

Fairness. `ThreadPool!FairSpec` assumes that the scheduler runs each thread that
can run (weak fairness of each thread's steps) and that workloads end. A user of
the pool need not call it, but the pool is a local variable of
`run_specific_benchmarks`, so its destructor runs when no call is left.
`StressTest!FairSpec` assumes only that the main thread runs and its calls end;
signals need never come, so `KeepsTheLoadUp` holds without them and
`StopsWhenAsked` only speaks of those that did. `Sharding`, `Workloads`, `Suite`,
`Reports` and `Arguments` assume no fairness and have no liveness property: the loops
of the first three are bounded by their loop variables, and a call that blocks would
do so in the pool.

No run turns deadlock checking off: states in which a program may stop have an
explicit stuttering action (`Finished`), so a deadlock of the threads is an error.

## 4. Findings

* **A refused thread ends the process** (`RefusedThreadIsReported`). If
  `std::thread`'s constructor throws after a first worker has started, the pool's
  constructor is left by an exception, its destructor does not run, but the
  vector of joinable threads is destroyed: `std::terminate`. `main` means to report
  every `std::exception` and return 1.
* **"Iterations per thread" is a total** (`IterationsPerThread`). The help text
  says what each thread runs; the code divides the number over the shards.
* **`--numRuns` is ignored beside a profile** (`NumRunsApplies`). The README says of
  stress mode that it still applies; a profile that does not name `num_runs`
  replaces it by the default, as it does `--iterations` and the others.
* **A race for the folder loses a report** (`ResultsAreSaved`). `ensure_directory`
  reports failure when another process has created the folder between its two
  calls; a finished measurement is then not saved. `write_txt` does not have
  this problem.
* **A number that was cut off is accepted** (`RejectsIncomplete`). The parser takes
  the digits that are there on the last "Time (mean)" line as the whole number and
  looks for nothing after them.

## 5. The proofs

| Module | Theorems | Assumption on the constants |
|---|---|---|
| `ThreadPoolProofs` | `TypeCorrect`, `ClosureOutlivesItsUse`, `RoundsAreSeparate`, `CallsAreComplete`, `EveryWorkerLeaves`, `Refinement`, `NobodyStuck`, `StepsRunOut` | at least one worker and one shard; any number of calls |
| `StressTestProofs` | `TypeCorrect`, `OneLateCall`, `Measured`, `Restored`, `Kept`, `WholeCycles`, `SoonOver`, `LoadComesBack` | at least one benchmark and one run; a modulus that is not 0 |
| `ShardingProofs` | `TypeCorrect`, `NothingLost`, `Even`, `LanesCover`, `LimitRespected` | positive constants, and a word at least as large as the products of two ints that the code stores in it |
| `WorkloadsProofs` | `CallsLeaveThePlan`, `CallsKeepThePlan`, `WholeWorkingSet`, `WorkReported`, `WorkTypesCorrect` | those of `ShardingProofs`; positive sizes; an order of the nodes is a permutation |
| `SuiteProofs` | `NoScoreIsRefused`, `SuiteTypeCorrect`, `ReportWhole`, `ConfigurationRight`, `StatisticsCorrect`, `CombinedBetween` | `SuiteAssumption`: any list of names, any tables that hold the defaults, weights that are not negative and not all 0, positive baselines and numbers of repetitions and runs, samples that are natural numbers; `KernelAssumption`: the same of the weight and the baselines that the suite adds |
| `ReportsProofs` | `ReportsTypeCorrect`, `SavedOnGoingOn`, `LikeWithLike`, `NewestUsed`, `ReportsOnlyGrow` | any processes, modes, configurations, number of parts and clock readings |
| `ArgumentsProofs` | `TypeCorrect`, `ChecksComeLast`, `Precedence`, `SuiteReplaced`, `RightMode`, `AllOrNothing` | any of the numeric settings, with `thread_count`, `iterations` and `repeat_count` among them; any profile |

*ThreadPool.* None of the safety properties is inductive: each depends on where
all threads stand relative to the barriers. `IInv` adds to the types
`PhaseInv`, which counts the threads that have arrived in the current phase of each
barrier and says for every control point which phase its thread is in; `LifeInv`,
which ties the workers' being born, leaving and gone to the main thread's control
point; `ProgressInv`, which gives each worker's `next` and, from it, which shards it
has run; and `ErrorInv`, which ties `worker_exception_`, `failed` and the workers
that are on their way to record one. A barrier fills up exactly when the last
of `NumThreads + 1` threads arrives: that step rests on the cardinality of the set
of those who have arrived. `Refinement` maps every step to a step of `ForkJoin` or to
none, and uses `ProgressInv` to show that shards are run in order.

`EveryCallEnds` and `DestructorReturns` have two parts that need no fairness, and both
are proved. `NobodyStuck`: unless the pool rests, the guard of some thread's next step
(`CanMove`) holds. If all threads waited, some barrier would be complete and would have
let its phase go. `StepsRunOut`: `Position` numbers the control points of a thread through
all rounds, one after the other, and every step moves one thread forward and none back.
So the positions that are still ahead of anybody (`Remaining`) get fewer with each step.
`RoundInv` bounds them: every round that is opened is that of a call or the
destructor's. Together: under a scheduler that always runs some thread that
can move, the pool comes to rest.

*StressTest.* `IInv` adds what each control point says about the two handlers and the exit
code (`HandlerInv`), about the position in the list and the scores (`SuiteInv`), about run
and sample counts and fresh input (`LoopInv`), and that after a request a call can only
begin at a point that the last check was passed before it (`LateInv`). As for the pool,
the parts of the liveness properties that need no fairness are proved: after a request
each step of the main thread decreases `StepsToEnd`, which is at most 6, and no signal
increases it (`SoonOver`); each step begins a call or decreases `StepsToCall`, which is at
most 15 (`LoadComesBack`; by `CycleInv` a cycle begins at the head of the list, which is
not empty, so none ends without a call).

*Sharding.* The loops' sums have a closed form: after `k` shards, `k * (n \div count)`
plus the lesser of `k` and the remainder. `IInv` says so of `assigned`, bounds
`operations` between the iterations and one loop more per shard, and bounds
`allocated` by the same closed form of the limit. `DivisionLemmas` proves the facts
about quotient and remainder that the solvers do not have.

*Workloads.* `CallsLeaveThePlan` shows that a step of a call is no step of the plan, which
carries every theorem about `Sharding` over. `WholeWorkingSet` is for every size and
every shuffle. Its invariant `WalkInv` says that the nodes can be numbered in the order
the walk meets them, and that those already met in this lap have one visit more; a
hop keeps it if the chain is one cycle. `ShuffledIsOneCycle` and `StridedIsOneCycle` show
that it is. For the stride: if `k` steps came back to the start too early, the least
such number would divide the size with a quotient that divides the stride as well
(`CoprimeComesBackLate`); and the search for the stride ends, because the size plus one
is within its reach (`StrideIsCoprime`).

`WorkReported` compares two computations of the same number: what the shards do, one loop
trip after the other, and what the coordinator computes from the settings. A plan has two
sizes of shares only, so what `k` shards do is `Spread`: the lesser of `k` and the
remainder times the larger share, and the others times the smaller. `WorkInv` says that
`work` is the `Spread` of the shards that are done and what the current one has done of
its share. That the sum of `n_body`'s recursive function is a `Spread` as well is shown at
the least shard at which the two would differ, which takes the place of an induction.

*Reports.* Processes share folders, so nothing that one of them knows of another's file
is safe unless it can only become more true. `FilesGrow` is that relation between a state
and the next: every file stays, keeps its process, and if it was whole or readable it
still is. Every step satisfies it, failing and killed processes included. Opening a file
would not, were there one of that name; `Unopened` says that a name is its process's
alone from the moment it is made until its file is there. The invariant `ProcessInv` says of each process,
for each of its control points, what it has written and listed and how far it has
looked; `FilesGrow` keeps that true under the steps of the others. `ReportsOnlyGrow` is
the relation itself as an action property.

*Suite.* `TablesInv` says what the scorer's tables name while a suite runs;
`TablesCoverDispatched` that this covers each name under which a benchmark is scored.
The other theorems rest on `SuiteInv`. `ScoresInv` counts: a key (name and size) has been
scored as often as a benchmark that is scored under it is listed before `pos`, and in a
sweep once more if the size is already behind. Sizes double, and between a size and twice
that size there is no other (`Doubling`), so a sweep scores each of its `Points` once. At
the end of a suite (`SuiteComplete`) the count is that of the whole list, and the length
of the scores depends on the call alone. So `ReportInv` can say that the report is a number
of blocks of the same length (`Stride`), and `SuitesInv` that the combined score at the end
of each block is the final score of the block under the suite's tables: which is what the
run configuration says, for `ConfigurationInv` ties it to the call.

`StatisticsCorrect` needs no more of a suite than that the statistics of a score are those
of its samples. The rest is about `n` numbers: `Sorted` is well defined (`SortedAt`) and
increasing; a percentile lies between two neighbours, at most that many samples lie on
either side of them (`PercentileSplits`), and a higher percentile is not below a lower one
(`PercentilesOrdered`). Running sums and products exist (`UpTo`, `SumRuns`,
`ProductRuns`), and a running sum stays between multiples of the least and the greatest
sample (`AccumulatedBetween`), again by least elements.

`CombinedBetween` compares products of powers. A score is a quotient `a / b` of its
allowed and its spent time, and the combined score compares with it as the product of all
`a` to their weights and the product of all `b` do. Among finitely many places with a
weight one has the greatest quotient (`GreatestQuotient`); `a * b[k] <= a[k] * b` for each
of them, raised to the weights (`PowerLaws`) and multiplied up place by place, gives the
bound (`WeightedMean`), and the other bound is the same with `a` and `b` exchanged. A name
that is listed more than once counts once, by the sum of its times: its quotient lies
between those of its single scores (`SumOverPlaces`, `MeanOfGroups`), so the bounds for
names are bounds for scores (`FinalIsMean`, `MeanOfWeighted`). Under this lies
`WeightedInv`: whatever counts has a weight, a positive baseline and a positive time.

*Arguments.* Each part of the result is settled at another point of `parse`; `IInv` says
from which control point on it holds: the checks (`ValidInv`), the list of the
profile (`ListInv`), the mode (`ModeInv`), that `temp` holds the last line of every
number (`FileInv`), and where each setting comes from (`SourceInv`).

Only model-checked: the four liveness properties (`EveryCallEnds`, `DestructorReturns`,
`StopsWhenAsked`, `KeepsTheLoadUp`). Each of them has a theorem above that bounds the
steps it takes; that these steps are taken follows from weak fairness, and so from
`ENABLED`, which is out of reach of the installed provers. The findings are
counterexamples of TLC.

## 6. Not modelled

Affinity (a call whose result is ignored), system information (reads from the
operating system), the printed layout of reports and charts, build files and
tests. Of `benchmark.cpp`, the values that kernels compute, the patterns of the branch
benchmarks and the sorted arrays: nothing but the check that a result is finite
depends on them, and that is an exception of `Throws`. Of the scorer, the standard
deviation, the rates and latencies for display, and the functions that the program
never calls. Durations are the samples a case allows; rounding in floating point is
not modelled. Names of reports hold local time: a clock that steps back, two reports
in one microsecond, and a score so small that it is saved as 0.00 are outside
`Reports` (see `hazards`), and so is a process that cannot tell which file of the listing
is its own. `src/tests` and the docs were read for what they promise, and
most findings quote them.

## 7. Plan

Built, in this order: the pool and its abstract specification; the stress test;
the plan of the shards; saved reports; arguments and profiles; the workloads on the
plan; the suite with its scorer and statistics; and the proofs of section 5. Next:

1. `StressTest` over `ThreadPool`: an exception of a check unwinds through the pool,
   whose destructor runs a round of its own.
2. What `ForkJoin` promises, used where it is relied on: that a shard's result is read
   after its call, from the refinement rather than by assumption in `StressTest` and
   `Workloads`.

------------------------------- MODULE Suite -------------------------------
(***************************************************************************)
(* From a call of the coordinator (start or start_with_profile) to the     *)
(* report it fills: the repetitions, their one or two phases, the suite of *)
(* each phase benchmark by benchmark, the scorer, and the configuration    *)
(* that goes with the scores and decides which reports are comparable.     *)
(* Every exception of a suite leaves the call.                             *)
(*                                                                         *)
(* Times, weights and baselines are natural numbers in units of their own. *)
(* A mean is kept as the sum of its samples, all benchmarks having the     *)
(* same number of them; a combined score as the three numbers of the root  *)
(* it is.  What the suite plans, and may reject, is in Sharding; what its  *)
(* benchmarks do, in Workloads and ThreadPool.                             *)
(***************************************************************************)
EXTENDS Integers, FiniteSets, SequencesExt

CONSTANTS
  Cases,             \* the calls: settings, arguments, samples that can be measured
  KernelWeight,      \* weight of a benchmark the settings do not name, 0.05
  IntegerBaseline,   \* and its baseline, 0.015
  FloatingBaseline   \* or 0.020

VARIABLES
  call,           \* the call and its settings
  pc,             \* where the coordinator is, or how the call ended
  repeat,         \* repetition
  phase,          \* position in the phases of its mode
  pos,            \* position in the list of benchmarks
  size,           \* size_kib, in the cache size sweep
  weights,        \* of the suite's scorer
  baselines,      \* of the suite's scorer
  scores,         \* of the suite's scorer
  configuration,  \* run_configuration_ of the report
  report,         \* benchmark_scores_ of the report
  phases          \* history: active threads of the suites that ended

scorerVars == <<weights, baselines, scores>>
reportVars == <<configuration, report>>
vars == <<call, pc, repeat, phase, pos, size, scorerVars, reportVars, phases>>

-----------------------------------------------------------------------------
(* Names.                                                                  *)

IntegerKernels  == {"integer_add", "integer_multiply", "integer_divide"}
FloatingKernels == {"floating_add", "floating_multiply", "floating_divide",
                    "floating_fma"}
BranchPatterns  == {"branch_predictable", "branch_unpredictable"}

\* The names Settings gives a weight and a baseline by default.
DefaultScored ==
  {"floating_point", "branch", "integer", "sorting", "matrix_multiply", "n_body",
   "memory_bandwidth", "pointer_chase", "cache_latency"}

\* Names a list can hold for a benchmark that is scored under another one.
Alias ==
  [integer_arithmetic |-> "integer", branch_prediction |-> "branch",
   pointer |-> "pointer_chase", cache |-> "cache_latency"]

ScoredAs(name) == IF name \in DOMAIN Alias THEN Alias[name] ELSE name

Dispatched ==
  DefaultScored \cup DOMAIN Alias \cup IntegerKernels \cup FloatingKernels
    \cup BranchPatterns

\* The list of run, for a call of start.
AllBenchmarks ==
  <<"floating_point", "integer_arithmetic", "matrix_multiply",
    "branch_prediction", "n_body", "sorting", "memory_bandwidth",
    "pointer_chase", "cache_latency">>

\* Options replace or add an entry of the tables and remove none; parse_arguments
\* lets only positive repetitions, runs and baselines through, and no negative
\* weight; nor only zeros, so that the Scorer's constructor refuses no weights.
ASSUME SuiteAssumption ==
  \A c \in Cases :
    /\ c.benchmarks \in Seq(STRING)
    /\ c.repeats \in Nat \ {0}
    /\ {c.min_kib, c.max_kib} \subseteq Int
    /\ c.num_runs \in Nat \ {0}
    /\ c.samples \subseteq [1 .. c.num_runs -> Nat]
    /\ DefaultScored \subseteq DOMAIN c.weights
    /\ DefaultScored \subseteq DOMAIN c.baselines
    /\ \A n \in DOMAIN c.weights : c.weights[n] \in Nat
    /\ \E n \in DOMAIN c.weights : c.weights[n] > 0
    /\ \A n \in DOMAIN c.baselines : c.baselines[n] \in Nat \ {0}

\* 0.05, 0.015 and 0.020 in the units of the tables.
ASSUME KernelAssumption ==
  /\ KernelWeight \in Nat
  /\ {IntegerBaseline, FloatingBaseline} \subseteq Nat \ {0}

\* The mode of a call, as the numbers of threads of its phases.
Phases ==
  CASE call.mode = "single_threaded" -> <<1>>
    [] call.mode = "multi_threaded"  -> <<call.threads>>
    [] OTHER                         -> <<1, call.threads>>

-----------------------------------------------------------------------------
(* The scorer and its statistics.                                          *)

\* std::sort: at place k is the k-th smallest sample.
Sorted(samples) ==
  [k \in DOMAIN samples |->
     CHOOSE x \in ToSet(samples) :
       /\ Cardinality({i \in DOMAIN samples : samples[i] < x}) < k
       /\ Cardinality({i \in DOMAIN samples : samples[i] <= x}) >= k]

\* std::accumulate.
Accumulated(samples) ==
  LET upTo[i \in 0 .. Len(samples)] ==
        IF i = 0 THEN 0 ELSE upTo[i - 1] + samples[i]
  IN  upTo[Len(samples)]

\* percentile, in hundredths, of sorted samples.
Percentile(samples, percent) ==
  LET position == percent * (Len(samples) - 1)
      lower    == position \div 100
      upper    == (position + 99) \div 100
  IN  100 * samples[lower + 1]
        + (position % 100) * (samples[upper + 1] - samples[lower + 1])

\* Fault: the samples are not sorted.
StatisticsUnsorted(samples) ==
  [min    |-> samples[1],
   max    |-> samples[Len(samples)],
   total  |-> Accumulated(samples),
   median |-> Percentile(samples, 50),
   p95    |-> Percentile(samples, 95),
   p99    |-> Percentile(samples, 99)]

\* calculate_timing_statistics; percentiles in hundredths, the mean as a sum.
\* The deviation is left out.
Statistics(samples) == StatisticsUnsorted(Sorted(samples))

Entry(name, kib, samples) ==
  [name |-> name, kib |-> kib, threads |-> Phases[phase],
   diagnostic |-> name = "cache_sweep", samples |-> samples,
   stats |-> Statistics(samples)]

\* A product, one factor after the other.
Multiplied(factors) ==
  LET upTo[i \in 0 .. Len(factors)] ==
        IF i = 0 THEN 1 ELSE upTo[i - 1] * factors[i]
  IN  upTo[Len(factors)]

Power(x, n) == Multiplied([i \in 1 .. n |-> x])

\* The map `times` holds each name once; here it stands at its first place in s.
Firsts(s) ==
  {i \in DOMAIN s : ~s[i].diagnostic /\ \A j \in 1 .. i - 1 : s[j].name # s[i].name}

\* Sum and number of the samples of a benchmark, listed once or more often.
Total(s, name) ==
  Accumulated([i \in DOMAIN s |-> IF s[i].name = name THEN s[i].stats.total ELSE 0])

Samples(s, name) == Cardinality({i \in DOMAIN s : s[i].name = name}) * call.num_runs

\* Fault: a benchmark that is listed twice counts twice.
WeightPerScore(w, s) ==
  Accumulated([i \in DOMAIN s |-> IF s[i].diagnostic THEN 0 ELSE w[s[i].name]])

AppliedWeight(w, s) ==
  Accumulated([i \in DOMAIN s |-> IF i \in Firsts(s) THEN w[s[i].name] ELSE 0])

\* The sum of weighted logarithms, as a product of powers.
WeightedProduct(x, w, s) ==
  Multiplied([i \in DOMAIN s |-> IF i \in Firsts(s) THEN Power(x[i], w[s[i].name]) ELSE 1])

\* compute_final_score: the weighted geometric mean of baseline by average time
\* is the root-th root of num by den, and 0 if root is 0.  That the scorer's
\* weights are divided by their sum does not change it.
FinalScore(w, b, s) ==
  LET Allowed == [i \in Firsts(s) |-> b[s[i].name] * Samples(s, s[i].name)]
      Spent   == [i \in Firsts(s) |-> Total(s, s[i].name)]
  IN  [num  |-> WeightedProduct(Allowed, w, s),
       den  |-> WeightedProduct(Spent, w, s),
       root |-> AppliedWeight(w, s)]

-----------------------------------------------------------------------------
NoConfiguration == [workloads |-> {}]

Init ==
  /\ call \in Cases
  /\ pc = "suite"
  /\ repeat = 1
  /\ phase = 1
  /\ pos = 1
  /\ size = 0
  /\ weights = [n \in {} |-> 0]
  /\ baselines = [n \in {} |-> 0]
  /\ scores = <<>>
  /\ configuration = NoConfiguration
  /\ report = <<>>
  /\ phases = <<>>

\* The profile of a call of start_with_profile names no benchmark: nothing runs.
NothingToRun ==
  /\ pc = "suite"
  /\ call.benchmarks = <<>>
  /\ pc' = "done"
  /\ UNCHANGED <<call, repeat, phase, pos, size, scorerVars, reportVars, phases>>

\* The powers of two that a sweep may begin and end with.
SweepSizes == {4, 8, 16, 32, 64, 128, 256, 512, 1024, 2048, 4096, 8192, 16384,
               32768, 65536}

Sweeps == "cache_size_sweep" \in ToSet(call.benchmarks)

Valid ==
  /\ call.threads > 0
  /\ Sweeps =>
       /\ {call.min_kib, call.max_kib} \subseteq SweepSizes
       /\ call.min_kib <= call.max_kib
       /\ call.hops > 0

Fail(reason) ==
  /\ pc' = reason
  /\ UNCHANGED <<call, repeat, phase, pos, size, scorerVars, reportVars, phases>>

SuiteRejected ==
  /\ pc = "suite"
  /\ call.benchmarks # <<>>
  /\ ~Valid
  /\ Fail("failed")

\* Fault: the patterns are forgotten.
UnlistedKernelsOnly ==
  ToSet(call.benchmarks) \cap (IntegerKernels \cup FloatingKernels)

\* Benchmarks that get a weight and a baseline when the settings name none.
Unlisted ==
  ToSet(call.benchmarks) \cap (IntegerKernels \cup FloatingKernels \cup BranchPatterns)

\* try_emplace: what is there stays.
WithDefaults(table, default) ==
  [n \in DOMAIN table \cup Unlisted |->
     IF n \in DOMAIN table THEN table[n] ELSE default[n]]

SuiteWeights ==
  WithDefaults(call.weights, [n \in Unlisted |-> KernelWeight])

SuiteBaselines ==
  WithDefaults(call.baselines,
    [n \in Unlisted |->
       IF n \in IntegerKernels THEN IntegerBaseline ELSE FloatingBaseline])

\* Fault: the number in the settings, whatever the phase.
ThreadsAsked == call.threads

ActiveThreads == Phases[phase]

\* set_run_configuration: what the report held before goes, its workloads too.
Configuration ==
  [threads |-> ActiveThreads, benchmarks |-> call.benchmarks,
   weights |-> SuiteWeights, baselines |-> SuiteBaselines, workloads |-> {},
   sweep |-> IF Sweeps THEN <<call.min_kib, call.max_kib, call.hops>> ELSE <<>>]

\* The scorer is a local variable: new for every suite.
BeginSuite ==
  /\ pc = "suite"
  /\ call.benchmarks # <<>>
  /\ Valid
  /\ pc' = "benchmark"
  /\ pos' = 1
  /\ weights' = SuiteWeights
  /\ baselines' = SuiteBaselines
  /\ scores' = <<>>
  /\ configuration' = Configuration
  /\ UNCHANGED <<call, repeat, phase, size, report, phases>>

\* A plan that is rejected, a request to stop, a shard that throws, a result
\* that is not finite: at any moment between here and the end of the suite.
Throws == pc \in {"benchmark", "sweep"} /\ Fail("failed")

-----------------------------------------------------------------------------
(* One benchmark after the other.                                          *)

AtBenchmark == pc = "benchmark" /\ pos <= Len(call.benchmarks)

Name == call.benchmarks[pos]

SkipUnknown ==
  /\ AtBenchmark
  /\ Name \notin Dispatched \cup {"cache_size_sweep"}
  /\ pos' = pos + 1
  /\ UNCHANGED <<call, pc, repeat, phase, size, scorerVars, reportVars, phases>>

\* Fault: the benchmark is left out and the suite goes on.
BandwidthSkipped ==
  /\ AtBenchmark
  /\ Name = "memory_bandwidth"
  /\ ~call.fits
  /\ pos' = pos + 1
  /\ UNCHANGED <<call, pc, repeat, phase, size, scorerVars, reportVars, phases>>

\* Its limits are looked at only now, when other benchmarks may have their score.
BandwidthRejected ==
  /\ AtBenchmark
  /\ Name = "memory_bandwidth"
  /\ ~call.fits
  /\ Fail("failed")

Runs == Name = "memory_bandwidth" => call.fits

Positive(samples) == \A i \in DOMAIN samples : samples[i] > 0

HasTables(name) == name \in DOMAIN weights \cap DOMAIN baselines

\* run_benchmark has measured, add_score takes the samples, and the combined
\* score so far is printed.  Either needs the tables to name the benchmark.
Score ==
  /\ AtBenchmark
  /\ Name \in Dispatched
  /\ Runs
  /\ \E samples \in call.samples :
       /\ Positive(samples)
       /\ IF HasTables(ScoredAs(Name))
            THEN /\ scores' = Append(scores, Entry(ScoredAs(Name), 0, samples))
                 /\ pos' = pos + 1
                 /\ UNCHANGED pc
            ELSE pc' = "refused" /\ UNCHANGED <<scores, pos>>
  /\ UNCHANGED <<call, repeat, phase, size, weights, baselines, reportVars,
                 phases>>

\* A sample of no measurable duration.
SampleRefused ==
  /\ \/ AtBenchmark /\ Name \in Dispatched /\ Runs
     \/ pc = "sweep" /\ size <= call.max_kib
  /\ \E samples \in call.samples : ~Positive(samples)
  /\ Fail("failed")

BeginSweep ==
  /\ AtBenchmark
  /\ Name = "cache_size_sweep"
  /\ pc' = "sweep"
  /\ size' = call.min_kib
  /\ UNCHANGED <<call, repeat, phase, pos, scorerVars, reportVars, phases>>

SweepPoint ==
  /\ pc = "sweep"
  /\ size <= call.max_kib
  /\ \E samples \in call.samples :
       /\ Positive(samples)
       /\ scores' = Append(scores, Entry("cache_sweep", size, samples))
  /\ size' = size * 2
  /\ UNCHANGED <<call, pc, repeat, phase, pos, weights, baselines, reportVars,
                 phases>>

EndSweep ==
  /\ pc = "sweep"
  /\ size > call.max_kib
  /\ pc' = "benchmark"
  /\ pos' = pos + 1
  /\ size' = 0
  /\ UNCHANGED <<call, repeat, phase, scorerVars, reportVars, phases>>

-----------------------------------------------------------------------------
(* The end of a suite.                                                     *)

Combined ==
  [name |-> "Combined", kib |-> 0, threads |-> Phases[phase],
   diagnostic |-> FALSE, score |-> FinalScore(weights, baselines, scores)]

Key(entry) == <<entry.name, entry.kib>>

\* Fault: one repetition too many.
TurnTooMany ==
  IF phase < Len(Phases)
    THEN phase' = phase + 1 /\ UNCHANGED <<repeat, pc>>
    ELSE /\ phase' = 1
         /\ repeat' = repeat + 1
         /\ pc' = IF repeat > call.repeats THEN "done" ELSE "suite"

\* The loop of start, or of start_with_profile: the next phase or repetition.
Turn ==
  IF phase < Len(Phases)
    THEN /\ phase' = phase + 1
         /\ pc' = "suite"
         /\ UNCHANGED repeat
    ELSE /\ phase' = 1
         /\ repeat' = repeat + 1
         /\ pc' = IF repeat < call.repeats THEN "suite" ELSE "done"

\* The scores and the combined one are returned, and benchmark_report::add_score
\* appends them and gives the configuration its workloads.
EndSuite ==
  /\ pc = "benchmark"
  /\ pos > Len(call.benchmarks)
  /\ report' = report \o Append(scores, Combined)
  /\ configuration' = [configuration EXCEPT !.workloads =
                         @ \cup {Key(scores[i]) : i \in DOMAIN scores}]
  /\ phases' = Append(phases, Phases[phase])
  /\ Turn
  /\ UNCHANGED <<call, pos, size, scorerVars>>

Finished == pc \in {"done", "failed", "refused"} /\ UNCHANGED vars

Next ==
  \/ NothingToRun \/ SuiteRejected \/ BeginSuite \/ Throws
  \/ SkipUnknown \/ BandwidthRejected \/ Score \/ SampleRefused
  \/ BeginSweep \/ SweepPoint \/ EndSweep
  \/ EndSuite \/ Finished

Spec == Init /\ [][Next]_vars

-----------------------------------------------------------------------------
(* Properties.                                                             *)

EntryTypeOK(entry) ==
  /\ Key(entry) \in ((Dispatched \cup {"Combined"}) \X {0})
                       \cup ({"cache_sweep"} \X SweepSizes)
  /\ entry.threads \in {1, call.threads}

TypeOK ==
  /\ call \in Cases
  /\ pc \in {"suite", "benchmark", "sweep", "done", "failed", "refused"}
  /\ repeat \in 1 .. call.repeats + (IF pc = "done" THEN 1 ELSE 0)
  /\ phase \in 1 .. Len(Phases)
  /\ pos \in 1 .. Len(call.benchmarks) + 1
  /\ size \in {0} \cup call.min_kib .. 2 * call.max_kib
  /\ DOMAIN weights = DOMAIN SuiteWeights \/ DOMAIN weights = {}
  /\ \A i \in DOMAIN scores : EntryTypeOK(scores[i]) /\ scores[i].name # "Combined"
  /\ \A i \in DOMAIN report : EntryTypeOK(report[i])

\* The places of a key: where it is in a list of entries with so many threads, and
\* where the benchmark is listed that is scored under it.
At(s, key, threads) == {i \in DOMAIN s : Key(s[i]) = key /\ s[i].threads = threads}

Listed(key) ==
  {i \in DOMAIN call.benchmarks :
     \/ call.benchmarks[i] \in Dispatched /\ ScoredAs(call.benchmarks[i]) = key[1]
     \/ call.benchmarks[i] = "cache_size_sweep" /\ key[1] = "cache_sweep"}

\* How often a suite scores what the key says.
Occurrences(key) == IF key[1] = "Combined" THEN 1 ELSE Cardinality(Listed(key))

\* The sizes the sweep goes through.
Points == {k \in SweepSizes : call.min_kib <= k /\ k <= call.max_kib}

BenchmarkKeys ==
  {<<ScoredAs(n), 0>> : n \in ToSet(call.benchmarks) \cap Dispatched}
    \cup (IF Sweeps THEN {<<"cache_sweep", k>> : k \in Points} ELSE {})

Keys == BenchmarkKeys \cup {<<"Combined", 0>>}

\* Wherever a suite fails, also at the late look at the bandwidth limit, the
\* report holds whole suites only: for each that ended, with the threads of its
\* phase, every benchmark as often as it is listed and every size of the sweep,
\* with one combined score.  A call that returns has run every phase of every
\* repetition.
ReportIsWhole ==
  /\ \A threads \in {1, call.threads} : \A key \in Keys :
       Cardinality(At(report, key, threads)) =
         Occurrences(key) * Cardinality({j \in DOMAIN phases : phases[j] = threads})
  /\ \A i \in DOMAIN report : Key(report[i]) \in Keys
  /\ pc = "done" /\ call.benchmarks # <<>> =>
       Len(phases) = call.repeats * Len(Phases)

\* The run configuration, which compare_with_previous takes two reports to be
\* comparable by, says how all scores of a finished report came about: their
\* threads, their workloads, and the weights and baselines that give each
\* combined score back.  (Main gives each mode a report of its own.)
ConfigurationDescribesScores ==
  pc = "done" /\ phases # <<>> /\ Len(Phases) = 1 =>
    LET suite == Len(report) \div Len(phases)
        Block(j) == SubSeq(report, (j - 1) * suite + 1, j * suite - 1)
    IN  /\ \A i \in DOMAIN report : report[i].threads = configuration.threads
        /\ \A j \in DOMAIN phases :
             /\ {Key(Block(j)[i]) : i \in DOMAIN Block(j)} = configuration.workloads
             /\ report[j * suite].score =
                  FinalScore(configuration.weights, configuration.baselines, Block(j))

\* "Combined score should be a weighted geometric mean" of what ran: it lies
\* between the lowest and the highest score of a benchmark that has a weight,
\* and diagnostic points move it nowhere.  It is 0 only without any of these.
CombinedIsBetween ==
  pc \in {"benchmark", "sweep"} =>
    LET final    == FinalScore(weights, baselines, scores)
        weighted == {i \in DOMAIN scores :
                       ~scores[i].diagnostic /\ weights[scores[i].name] > 0}
        AtFinal(i) == final.num * Power(scores[i].stats.total, final.root)
        AtScore(i) ==
          final.den * Power(baselines[scores[i].name] * call.num_runs, final.root)
    IN  /\ weighted = {} <=> final.root = 0
        /\ weighted # {} =>
             /\ \E i \in weighted : AtFinal(i) >= AtScore(i)
             /\ \E i \in weighted : AtFinal(i) <= AtScore(i)

\* Of n samples, as many lie above the percentile and below it as may.
Splits(percentile, percent, samples) ==
  LET n == Len(samples) IN
  /\ 100 * Cardinality({i \in 1 .. n : 100 * samples[i] > percentile})
       < (100 - percent) * (n - 1) + 100
  /\ 100 * Cardinality({i \in 1 .. n : 100 * samples[i] < percentile})
       < percent * (n - 1) + 100

\* However many samples there are and in whatever order they come, the
\* statistics of a score are in order, and each percentile divides the samples
\* where it says.
StatisticsInOrder ==
  \A i \in DOMAIN scores :
    LET s == scores[i].samples
        t == scores[i].stats
    IN  /\ t.min * Len(s) <= t.total /\ t.total <= t.max * Len(s)
        /\ 100 * t.min <= t.median /\ t.median <= t.p95
        /\ t.p95 <= t.p99 /\ t.p99 <= 100 * t.max
        /\ Splits(t.median, 50, s) /\ Splits(t.p95, 95, s) /\ Splits(t.p99, 99, s)

\* No suite is lost at a score because its benchmark, under the name it is scored
\* by, has no weight or no baseline: the defaults and what the suite adds to
\* them cover every name that is dispatched.
EveryBenchmarkHasBaseline == pc # "refused"

=============================================================================

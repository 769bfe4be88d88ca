------------------------------ MODULE MCSuite ------------------------------
(***************************************************************************)
(* Calls of the coordinator for TLC: each is one that profiles, options or *)
(* the tests of the repository make, with samples small enough for the     *)
(* products of the combined score.                                         *)
(***************************************************************************)
EXTENDS Suite

Ones == [n \in DefaultScored |-> 1]

SeqsOf(values, n) == [1 .. n -> values]

\* A profile with one repetition, single-threaded, with the default tables.
Profile(benchmarks, num_runs, samples) ==
  [benchmarks |-> benchmarks, mode |-> "single_threaded", threads |-> 2,
   repeats |-> 1, num_runs |-> num_runs, samples |-> samples,
   weights |-> Ones, baselines |-> Ones, fits |-> TRUE,
   min_kib |-> 4, max_kib |-> 16, hops |-> 1]

\* The default suite of start.
Default == Profile(AllBenchmarks, 1, {<<1>>, <<2>>})

\* Benchmarks the settings have no tables for, one of which the options name.
Unnamed ==
  [Profile(<<"integer_divide", "branch_unpredictable", "floating_fma">>, 1,
           {<<1>>, <<3>>})
    EXCEPT !.mode = "both",
           !.weights = [n \in DefaultScored \cup {"floating_fma"} |-> 1]]

\* A benchmark listed twice, and one by an alias; weights and baselines that differ.
Twice ==
  [Profile(<<"sorting", "integer_arithmetic", "sorting">>, 2,
           {<<1, 3>>, <<2, 1>>, <<2, 2>>})
    EXCEPT !.mode = "multi_threaded", !.repeats = 2,
           !.weights = [Ones EXCEPT !["sorting"] = 2],
           !.baselines = [Ones EXCEPT !["integer"] = 3, !["sorting"] = 2]]

\* A weight of 0 beside the sweep, and a name that nothing is run for.
Unweighted ==
  [Profile(<<"cache_size_sweep", "n_body", "no_such_benchmark", "sorting">>, 1,
           {<<1>>, <<2>>})
    EXCEPT !.mode = "both", !.max_kib = 8,
           !.weights = [Ones EXCEPT !["n_body"] = 0]]

Sweep    == [Profile(<<"cache_size_sweep">>, 2, {<<0, 1>>, <<1, 1>>, <<2, 1>>})
              EXCEPT !.mode = "multi_threaded", !.repeats = 2]
BadSweep == [Sweep EXCEPT !.min_kib = 6]

\* The bandwidth limit does not fit, and is looked at last.
Unfit ==
  [Profile(<<"sorting", "memory_bandwidth">>, 1, {<<1>>})
    EXCEPT !.repeats = 2, !.fits = FALSE]

Empty == Profile(<<>>, 1, {<<1>>})

Measured(n, values) == Profile(<<"n_body">>, n, SeqsOf(values, n))

Many == {[i \in 1 .. n |-> 1 + ((i * k) % (n + 1))] : n \in {21}, k \in {3, 5, 7, 21}}

SomeCases ==
  {Default, Unnamed, Twice, Unweighted, Sweep, BadSweep, Unfit, Empty,
   Profile(<<"n_body">>, 21, Many)}
    \cup {Measured(n, 0 .. 3) : n \in 1 .. 3}
    \cup {Measured(n, 1 .. 4) : n \in 4 .. 5}

=============================================================================

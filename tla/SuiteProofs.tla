---------------------------- MODULE SuiteProofs ----------------------------
(***************************************************************************)
(* Theorems about Suite, for every call: whatever list of benchmarks it    *)
(* names, whatever its mode and repetitions are and whatever its options   *)
(* do to the tables.  A benchmark that has been measured is never refused  *)
(* by the scorer; the report holds whole suites only, all of the same      *)
(* length; the run configuration says how its scores came about; and the   *)
(* combined score lies between the scores of what ran.                     *)
(*                                                                         *)
(* The invariant counts: while a suite runs it has scored a key as often   *)
(* as its benchmark is listed before the place it has reached, and in a    *)
(* sweep once more if the size is already behind it.  Sizes double, so     *)
(* none of the sweep's points is skipped.  At its end a suite has          *)
(* scored what is listed, and the report grows by one block of that        *)
(* length.                                                                 *)
(***************************************************************************)
EXTENDS Suite, DivisionLemmas, FiniteSetTheorems, SequenceTheorems, TLAPS

\* While a suite runs, its scorer holds what the settings name and what the suite
\* adds for benchmarks that the settings do not name.
TablesInv ==
  /\ call \in Cases
  /\ pc # "refused"
  /\ pos \in Nat \ {0}
  /\ pc \in {"benchmark", "sweep"} =>
       /\ DOMAIN weights = DOMAIN call.weights \cup Unlisted
       /\ DOMAIN baselines = DOMAIN call.baselines \cup Unlisted

\* The defaults and what the suite adds cover the name of every benchmark.
LEMMA TablesCoverDispatched ==
  ASSUME TablesInv, pc = "benchmark", pos <= Len(call.benchmarks),
         Name \in Dispatched
  PROVE  HasTables(ScoredAs(Name))
<1>1. /\ call.benchmarks \in Seq(STRING)
      /\ DefaultScored \subseteq DOMAIN weights
      /\ DefaultScored \subseteq DOMAIN baselines
      /\ Unlisted \subseteq DOMAIN weights
      /\ Unlisted \subseteq DOMAIN baselines
  BY SuiteAssumption DEF TablesInv
<1>2. Name \in ToSet(call.benchmarks)
  <2>1. pos \in DOMAIN call.benchmarks
    BY <1>1 DEF TablesInv
  <2> QED
    BY <2>1 DEF Name, ToSet
<1>3. DOMAIN Alias =
        {"integer_arithmetic", "branch_prediction", "pointer", "cache"}
  BY DEF Alias
<1>4. CASE Name \in DOMAIN Alias
  <2>1. Alias[Name] \in {"integer", "branch", "pointer_chase", "cache_latency"}
    BY <1>3, <1>4 DEF Alias
  <2>2. ScoredAs(Name) \in DefaultScored
    BY <1>4, <2>1 DEF ScoredAs, DefaultScored
  <2> QED
    BY <1>1, <2>2 DEF HasTables
<1>5. CASE Name \notin DOMAIN Alias
  <2>1. ScoredAs(Name) = Name
    BY <1>5 DEF ScoredAs
  <2>2. Name \in DefaultScored \cup Unlisted
    BY <1>2, <1>5 DEF Dispatched, Unlisted
  <2> QED
    BY <1>1, <2>1, <2>2 DEF HasTables
<1> QED
  BY <1>4, <1>5

LEMMA TablesInit == Init => TablesInv
BY DEF Init, TablesInv

LEMMA TablesStep == TablesInv /\ [Next]_vars => TablesInv'
<1> SUFFICES ASSUME TablesInv, [Next]_vars PROVE TablesInv'
  OBVIOUS
<1>1. CASE BeginSuite
  <2>1. /\ call' = call /\ pc' = "benchmark" /\ pos' = 1
        /\ weights' = SuiteWeights /\ baselines' = SuiteBaselines
    BY <1>1 DEF BeginSuite
  <2>2. Unlisted' = Unlisted
    BY <2>1 DEF Unlisted
  <2>3. /\ DOMAIN weights' = DOMAIN call.weights \cup Unlisted
        /\ DOMAIN baselines' = DOMAIN call.baselines \cup Unlisted
    BY <2>1 DEF SuiteWeights, SuiteBaselines, WithDefaults
  <2> QED
    BY <2>1, <2>2, <2>3 DEF TablesInv
<1>2. CASE Score
  <2>1. HasTables(ScoredAs(Name))
    BY <1>2, TablesCoverDispatched DEF Score, AtBenchmark
  <2>2. /\ pc' = pc /\ pos' = pos + 1
        /\ UNCHANGED <<call, weights, baselines>>
    BY <1>2, <2>1 DEF Score
  <2> QED
    BY <2>2 DEF TablesInv, Unlisted
<1>3. CASE NothingToRun \/ SuiteRejected \/ Throws \/ BandwidthRejected \/ SampleRefused
  <2>1. /\ UNCHANGED <<call, pos>>
        /\ pc' \in {"done", "failed"}
    BY <1>3 DEF NothingToRun, SuiteRejected, Throws, BandwidthRejected,
      SampleRefused, Fail
  <2> QED
    BY <2>1 DEF TablesInv
<1>4. CASE SkipUnknown \/ BeginSweep \/ SweepPoint \/ EndSweep
  <2>1. /\ UNCHANGED <<call, weights, baselines>>
        /\ pc \in {"benchmark", "sweep"} /\ pc' \in {"benchmark", "sweep"}
        /\ pos' \in {pos, pos + 1}
    BY <1>4 DEF SkipUnknown, BeginSweep, SweepPoint, EndSweep, AtBenchmark,
      scorerVars
  <2> QED
    BY <2>1 DEF TablesInv, Unlisted
<1>5. CASE EndSuite
  <2>1. UNCHANGED <<call, pos>> /\ pc' \in {"suite", "done"}
    BY <1>5 DEF EndSuite, Turn
  <2> QED
    BY <2>1 DEF TablesInv
<1>6. CASE UNCHANGED vars
  BY <1>6 DEF vars, scorerVars, TablesInv, Unlisted
<1> QED
  BY <1>1, <1>2, <1>3, <1>4, <1>5, <1>6 DEF Next, Finished

\* No suite is lost because a benchmark that ran has no weight or no baseline.
THEOREM NoScoreIsRefused == Spec => []EveryBenchmarkHasBaseline
<1>1. TablesInv => EveryBenchmarkHasBaseline
  BY DEF TablesInv, EveryBenchmarkHasBaseline
<1> QED
  BY <1>1, TablesInit, TablesStep, PTL DEF Spec

-----------------------------------------------------------------------------
(* What a suite has scored, and what a report holds.                       *)

InSuite == pc \in {"benchmark", "sweep"}

IsSeq(s) == s \in Seq(ToSet(s))

DispatchedAt == {i \in DOMAIN call.benchmarks : call.benchmarks[i] \in Dispatched}
SweptAt      == {i \in DOMAIN call.benchmarks : call.benchmarks[i] = "cache_size_sweep"}

Below(places, n) == {i \in places : i < n}

\* The points of the sweep that are done.
Passed == Below(Points, size)

\* The scores of a suite, and with the combined one those it adds to the report.
Length == Cardinality(DispatchedAt) + Cardinality(SweptAt) * Cardinality(Points)
Stride == Length + 1

ControlInv ==
  /\ call \in Cases
  /\ pc \in {"suite", "benchmark", "sweep", "done", "failed", "refused"}
  /\ phase \in 1 .. Len(Phases)
  /\ pos \in 1 .. Len(call.benchmarks) + 1
  /\ size \in {0} \cup call.min_kib .. 2 * call.max_kib
  /\ repeat \in 1 .. call.repeats + 1
  /\ repeat = call.repeats + 1 => pc = "done" /\ phase = 1
  /\ pc = "done" /\ call.benchmarks # <<>> => repeat = call.repeats + 1
  /\ InSuite => Valid /\ call.benchmarks # <<>>
  /\ call.benchmarks = <<>> => phases = <<>>
  /\ pc = "sweep" =>
       /\ pos \in SweptAt
       /\ size \in SweepSizes \cup {131072}
       /\ call.min_kib <= size

ScoresInv ==
  /\ IsSeq(scores)
  /\ \A i \in DOMAIN scores :
       Key(scores[i]) \in BenchmarkKeys /\ scores[i].threads \in {1, call.threads}
  /\ InSuite =>
       /\ \A i \in DOMAIN scores : scores[i].threads = ActiveThreads
       /\ \A key \in BenchmarkKeys :
            Cardinality(At(scores, key, ActiveThreads)) =
              Cardinality(Below(Listed(key), pos))
                + (IF pc = "sweep" /\ key[1] = "cache_sweep" /\ key[2] < size
                     THEN 1 ELSE 0)
       /\ Len(scores) =
            Cardinality(Below(DispatchedAt, pos))
              + Cardinality(Below(SweptAt, pos)) * Cardinality(Points)
              + (IF pc = "sweep" THEN Cardinality(Passed) ELSE 0)

ConfigurationInv ==
  /\ weights = SuiteWeights \/ DOMAIN weights = {}
  /\ InSuite =>
       /\ weights = SuiteWeights
       /\ baselines = SuiteBaselines
       /\ configuration = Configuration
  /\ pc = "done" /\ phases # <<>> =>
       /\ configuration.threads = Phases[Len(Phases)]
       /\ configuration.weights = SuiteWeights
       /\ configuration.baselines = SuiteBaselines
       /\ configuration.workloads = BenchmarkKeys

\* The suites that ran with so many threads.
Ran(p, threads) == {j \in DOMAIN p : p[j] = threads}

\* The report holds suites of the same length, each with its combined score last.
Scores(j) == SubSeq(report, (j - 1) * Stride + 1, j * Stride - 1)

ReportInv ==
  /\ IsSeq(report)
  /\ phases \in Seq({1, call.threads})
  /\ Len(phases) = (repeat - 1) * Len(Phases) + (phase - 1)
  /\ Len(report) = Len(phases) * Stride
  /\ \A i \in DOMAIN report :
       /\ Key(report[i]) \in Keys
       /\ report[i].threads \in {1, call.threads}
       /\ Len(Phases) = 1 => report[i].threads = Phases[1]
  /\ \A threads \in {1, call.threads}, key \in Keys :
       Cardinality(At(report, key, threads)) =
         Occurrences(key) * Cardinality(Ran(phases, threads))

SuitesInv ==
  \A j \in DOMAIN phases :
    /\ {Key(Scores(j)[i]) : i \in DOMAIN Scores(j)} = BenchmarkKeys
    /\ report[j * Stride].score = FinalScore(SuiteWeights, SuiteBaselines, Scores(j))

-----------------------------------------------------------------------------
(* Sequences of entries, and the places of a key in them.                  *)

LEMMA EntriesTyped ==
  ASSUME NEW s, IsSeq(s)
  PROVE  Len(s) \in Nat /\ DOMAIN s = 1 .. Len(s)
BY LenProperties DEF IsSeq

LEMMA SeqOfToSet ==
  ASSUME NEW S, NEW s \in Seq(S)
  PROVE  s \in Seq(ToSet(s))
<1>1. Range(s) = ToSet(s)
  BY DEF Range, ToSet
<1> QED
  BY <1>1, SeqOfRange

LEMMA OneMore ==
  ASSUME NEW s, IsSeq(s), NEW e
  PROVE  /\ IsSeq(Append(s, e))
         /\ Len(Append(s, e)) = Len(s) + 1
         /\ DOMAIN Append(s, e) = 1 .. Len(s) + 1
         /\ \A i \in 1 .. Len(s) : Append(s, e)[i] = s[i]
         /\ Append(s, e)[Len(s) + 1] = e
<1> DEFINE S == ToSet(s) \cup {e}
<1>1. s \in Seq(S) /\ e \in S
  <2>1. s \in Seq(ToSet(s)) /\ ToSet(s) \subseteq S
    BY DEF IsSeq
  <2> HIDE DEF S
  <2>2. s \in Seq(S)
    BY <2>1, SeqMonotonic
  <2> QED
    BY <2>2 DEF S
<1> HIDE DEF S
<1>2. /\ Append(s, e) \in Seq(S)
      /\ Len(Append(s, e)) = Len(s) + 1
      /\ \A i \in 1 .. Len(s) : Append(s, e)[i] = s[i]
      /\ Append(s, e)[Len(s) + 1] = e
  BY <1>1, AppendProperties
<1>3. IsSeq(Append(s, e))
  BY <1>2, SeqOfToSet DEF IsSeq
<1>4. DOMAIN Append(s, e) = 1 .. Len(s) + 1
  BY <1>2, <1>3, EntriesTyped
<1> QED
  BY <1>2, <1>3, <1>4

LEMMA Together ==
  ASSUME NEW s, IsSeq(s), NEW t, IsSeq(t)
  PROVE  /\ IsSeq(s \o t)
         /\ Len(s \o t) = Len(s) + Len(t)
         /\ DOMAIN (s \o t) = 1 .. Len(s) + Len(t)
         /\ \A i \in 1 .. Len(s) : (s \o t)[i] = s[i]
         /\ \A i \in 1 .. Len(t) : (s \o t)[Len(s) + i] = t[i]
<1> DEFINE S == ToSet(s) \cup ToSet(t)
<1>1. s \in Seq(S) /\ t \in Seq(S)
  <2>1. s \in Seq(ToSet(s)) /\ ToSet(s) \subseteq S /\ t \in Seq(ToSet(t)) /\ ToSet(t) \subseteq S
    BY DEF IsSeq
  <2> HIDE DEF S
  <2> QED
    BY <2>1, SeqMonotonic
<1>2. Len(s) \in Nat /\ Len(t) \in Nat
  BY EntriesTyped
<1> HIDE DEF S
<1>3. /\ s \o t \in Seq(S)
      /\ Len(s \o t) = Len(s) + Len(t)
      /\ \A i \in 1 .. Len(s) + Len(t) :
           (s \o t)[i] = IF i <= Len(s) THEN s[i] ELSE t[i - Len(s)]
  BY <1>1, ConcatProperties
<1>4. IsSeq(s \o t)
  BY <1>3, SeqOfToSet DEF IsSeq
<1>5. DOMAIN (s \o t) = 1 .. Len(s) + Len(t)
  BY <1>3, <1>4, EntriesTyped
<1>6. \A i \in 1 .. Len(s) : (s \o t)[i] = s[i]
  BY <1>2, <1>3
<1>7. ASSUME NEW i \in 1 .. Len(t) PROVE (s \o t)[Len(s) + i] = t[i]
  <2>1. Len(s) + i \in 1 .. Len(s) + Len(t) /\ ~(Len(s) + i <= Len(s))
        /\ (Len(s) + i) - Len(s) = i
    BY <1>2
  <2> QED
    BY <1>3, <2>1
<1> QED
  BY <1>3, <1>4, <1>5, <1>6, <1>7

LEMMA AtFinite ==
  ASSUME NEW s, IsSeq(s), NEW key, NEW threads
  PROVE  /\ IsFiniteSet(At(s, key, threads))
         /\ Cardinality(At(s, key, threads)) \in Nat
         /\ At(s, key, threads) \subseteq 1 .. Len(s)
<1>1. Len(s) \in Nat /\ At(s, key, threads) \in SUBSET (1 .. Len(s))
  BY EntriesTyped DEF At
<1>2. IsFiniteSet(1 .. Len(s))
  BY <1>1, FS_Interval
<1>3. IsFiniteSet(At(s, key, threads))
  BY <1>1, <1>2, FS_Subset
<1> QED
  BY <1>1, <1>3, FS_CardinalityType

LEMMA AtOneMore ==
  ASSUME NEW s, IsSeq(s), NEW e, NEW key, NEW threads
  PROVE  Cardinality(At(Append(s, e), key, threads)) =
           Cardinality(At(s, key, threads))
             + (IF Key(e) = key /\ e.threads = threads THEN 1 ELSE 0)
<1> DEFINE new == At(Append(s, e), key, threads)
           old == At(s, key, threads)
           n   == Len(s) + 1
<1>1. /\ Len(s) \in Nat /\ n \notin 1 .. Len(s)
      /\ DOMAIN s = 1 .. Len(s) /\ 1 .. n = 1 .. Len(s) \cup {n}
  BY EntriesTyped
<1>2. /\ DOMAIN Append(s, e) = 1 .. n
      /\ \A i \in 1 .. Len(s) : Append(s, e)[i] = s[i]
      /\ Append(s, e)[n] = e
  BY OneMore
<1>3. IsFiniteSet(old) /\ Cardinality(old) \in Nat /\ n \notin old
  BY <1>1, AtFinite
<1>4. CASE Key(e) = key /\ e.threads = threads
  <2>1. new = old \cup {n}
    <3> HIDE DEF n
    <3> QED
      BY <1>1, <1>2, <1>4 DEF At
  <2> HIDE DEF new, old, n
  <2>2. Cardinality(new) = Cardinality(old) + 1
    BY <1>3, <2>1, FS_AddElement
  <2> QED
    BY <1>4, <2>2 DEF new, old
<1>5. CASE ~(Key(e) = key /\ e.threads = threads)
  <2>1. new = old
    <3> HIDE DEF n
    <3> QED
      BY <1>1, <1>2, <1>5 DEF At
  <2> HIDE DEF new, n
  <2> QED
    BY <1>3, <1>5, <2>1 DEF new
<1> QED
  BY <1>4, <1>5

LEMMA AtTogether ==
  ASSUME NEW s, IsSeq(s), NEW t, IsSeq(t), NEW key, NEW threads
  PROVE  Cardinality(At(s \o t, key, threads)) =
           Cardinality(At(s, key, threads)) + Cardinality(At(t, key, threads))
<1> DEFINE both  == At(s \o t, key, threads)
           first == At(s, key, threads)
           last  == At(t, key, threads)
           moved == {i \in both : i > Len(s)}
           shift == [i \in last |-> Len(s) + i]
<1>1. /\ Len(s) \in Nat /\ Len(t) \in Nat
      /\ DOMAIN s = 1 .. Len(s) /\ DOMAIN t = 1 .. Len(t)
  BY EntriesTyped
<1>2. /\ DOMAIN (s \o t) = 1 .. Len(s) + Len(t)
      /\ \A i \in 1 .. Len(s) : (s \o t)[i] = s[i]
      /\ \A i \in 1 .. Len(t) : (s \o t)[Len(s) + i] = t[i]
  BY Together
<1>3. /\ IsFiniteSet(first) /\ IsFiniteSet(last)
      /\ first \subseteq 1 .. Len(s) /\ last \subseteq 1 .. Len(t)
      /\ Cardinality(first) \in Nat /\ Cardinality(last) \in Nat
  BY AtFinite
<1>4. both = first \cup moved
  <2>1. \A i : i \in both /\ ~(i > Len(s)) <=> i \in first
    <3>1. \A i : i \in 1 .. Len(s) + Len(t) /\ ~(i > Len(s)) <=> i \in 1 .. Len(s)
      BY <1>1
    <3> QED
      BY <1>1, <1>2, <3>1 DEF At
  <2> HIDE DEF both, first
  <2> QED
    BY <2>1
<1>5. first \cap moved = {}
  <2> HIDE DEF both, first
  <2>1. \A i \in first : i \in 1 .. Len(s)
    BY <1>3
  <2>2. \A i \in first : ~(i > Len(s))
    BY <1>1, <2>1
  <2> QED
    BY <2>2
<1>6. ExistsBijection(last, moved)
  <2>1. \A i \in last : Len(s) + i \in moved
    <3> SUFFICES ASSUME NEW i \in last PROVE Len(s) + i \in moved
      OBVIOUS
    <3>1. /\ i \in 1 .. Len(t) /\ Key(t[i]) = key /\ t[i].threads = threads
      BY <1>1 DEF At
    <3>2. Len(s) + i \in 1 .. Len(s) + Len(t) /\ Len(s) + i > Len(s)
      BY <1>1, <3>1
    <3>3. (s \o t)[Len(s) + i] = t[i]
      BY <1>2, <3>1
    <3> QED
      BY <1>2, <3>1, <3>2, <3>3 DEF At
  <2>2. \A j \in moved : \E i \in last : Len(s) + i = j
    <3> SUFFICES ASSUME NEW j \in moved PROVE \E i \in last : Len(s) + i = j
      OBVIOUS
    <3>1. /\ j \in 1 .. Len(s) + Len(t) /\ j > Len(s)
          /\ Key((s \o t)[j]) = key /\ (s \o t)[j].threads = threads
      BY <1>2 DEF At
    <3>2. j - Len(s) \in 1 .. Len(t) /\ Len(s) + (j - Len(s)) = j
      BY <1>1, <3>1
    <3>3. (s \o t)[j] = t[j - Len(s)]
      BY <1>2, <3>2
    <3>4. j - Len(s) \in last
      BY <1>1, <3>1, <3>2, <3>3 DEF At
    <3> QED
      BY <3>2, <3>4
  <2>3. \A i, j \in last : Len(s) + i = Len(s) + j => i = j
    <3> HIDE DEF last
    <3> QED
      BY <1>1, <1>3
  <2> HIDE DEF last, moved
  <2>4. shift \in Bijection(last, moved)
    BY <2>1, <2>2, <2>3 DEF Bijection, Injection, Surjection, IsInjective
  <2> QED
    BY <2>4 DEF ExistsBijection
<1>7. IsFiniteSet(moved) /\ Cardinality(moved) = Cardinality(last)
  <2> HIDE DEF last, moved
  <2> QED
    BY <1>3, <1>6, FS_Bijection
<1> HIDE DEF both, first, last, moved
<1>8. Cardinality(first \cup moved) = Cardinality(first) + Cardinality(moved)
                                        - Cardinality(first \cap moved)
  BY <1>3, <1>7, FS_Union
<1>9. Cardinality(first \cap moved) = 0
  BY <1>5, FS_EmptySet
<1>10. Cardinality(both) = Cardinality(first) + Cardinality(last)
  BY <1>3, <1>4, <1>7, <1>8, <1>9
<1> QED
  BY <1>10 DEF both, first, last

\* Of some places, those before n + 1 are those before n and perhaps n.
LEMMA BelowStep ==
  ASSUME NEW S, IsFiniteSet(S), S \subseteq Int, NEW n \in Int
  PROVE  /\ Cardinality(Below(S, n)) \in Nat
         /\ Cardinality(Below(S, n + 1)) =
              Cardinality(Below(S, n)) + (IF n \in S THEN 1 ELSE 0)
<1>1. IsFiniteSet(Below(S, n))
  BY FS_Subset DEF Below
<1>2. Cardinality(Below(S, n)) \in Nat
  BY <1>1, FS_CardinalityType
<1>3. \A i \in S : (i < n + 1 <=> i < n \/ i = n) /\ ~(n < n)
  OBVIOUS
<1>4. CASE n \in S
  <2>1. Below(S, n + 1) = Below(S, n) \cup {n} /\ n \notin Below(S, n)
    <3>1. \A i : i \in Below(S, n + 1) <=> i \in Below(S, n) \cup {n}
      BY <1>3, <1>4 DEF Below
    <3> QED
      BY <1>3, <1>4, <3>1 DEF Below
  <2> QED
    BY <1>1, <1>2, <1>4, <2>1, FS_AddElement
<1>5. CASE n \notin S
  <2>1. Below(S, n + 1) = Below(S, n)
    <3>1. \A i : i \in Below(S, n + 1) <=> i \in Below(S, n)
      BY <1>3, <1>5 DEF Below
    <3> QED
      BY <3>1
  <2> QED
    BY <1>2, <1>5, <2>1
<1> QED
  BY <1>2, <1>4, <1>5

-----------------------------------------------------------------------------
(* What follows from the call alone, and stays as it is.                   *)

LEMMA SameCall ==
  ASSUME UNCHANGED call
  PROVE  /\ UNCHANGED <<Phases, Sweeps, Valid, Points, BenchmarkKeys, Keys>>
         /\ UNCHANGED <<DispatchedAt, SweptAt, Length, Stride>>
         /\ UNCHANGED <<SuiteWeights, SuiteBaselines>>
         /\ \A key : Listed(key)' = Listed(key) /\ Occurrences(key)' = Occurrences(key)
         /\ \A w, b, s : FinalScore(w, b, s)' = FinalScore(w, b, s)
<1>1. UNCHANGED <<Phases, Sweeps, Points, Unlisted>>
  BY DEF Phases, Sweeps, Points, Unlisted
<1>2. UNCHANGED <<Valid, BenchmarkKeys, Keys>>
  BY <1>1 DEF Valid, BenchmarkKeys, Keys
<1>3. UNCHANGED <<DispatchedAt, SweptAt, Length, Stride>>
  BY <1>1 DEF DispatchedAt, SweptAt, Length, Stride
<1>4. UNCHANGED <<SuiteWeights, SuiteBaselines>>
  BY <1>1 DEF SuiteWeights, SuiteBaselines, WithDefaults
<1>5. \A key : Listed(key)' = Listed(key) /\ Occurrences(key)' = Occurrences(key)
  BY DEF Listed, Occurrences
<1>6. \A w, b, s : FinalScore(w, b, s)' = FinalScore(w, b, s)
  BY DEF FinalScore, Samples
<1> QED
  BY <1>1, <1>2, <1>3, <1>4, <1>5, <1>6

\* A mode has one phase or two, each with one thread or as many as the call asks for.
LEMMA PhasesTyped ==
  /\ Len(Phases) \in {1, 2} /\ DOMAIN Phases = 1 .. Len(Phases)
  /\ \A i \in 1 .. Len(Phases) : Phases[i] \in {1, call.threads}
<1>1. Phases \in {<<1>>, <<call.threads>>, <<1, call.threads>>}
  BY DEF Phases
<1>2. ASSUME NEW t
      PROVE  /\ Len(<<t>>) = 1 /\ DOMAIN <<t>> = 1 .. 1
             /\ \A i \in 1 .. 1 : <<t>>[i] = t
  OBVIOUS
<1>3. ASSUME NEW t
      PROVE  /\ Len(<<1, t>>) = 2 /\ DOMAIN <<1, t>> = 1 .. 2
             /\ \A i \in 1 .. 2 : <<1, t>>[i] \in {1, t}
  OBVIOUS
<1> QED
  BY <1>1, <1>2, <1>3

LEMMA CallTyped ==
  ASSUME call \in Cases
  PROVE  /\ call.benchmarks \in Seq(STRING)
         /\ Len(call.benchmarks) \in Nat
         /\ DOMAIN call.benchmarks = 1 .. Len(call.benchmarks)
         /\ call.repeats \in Nat \ {0}
         /\ call.min_kib \in Int /\ call.max_kib \in Int
<1>1. /\ call.benchmarks \in Seq(STRING) /\ call.repeats \in Nat \ {0}
      /\ call.min_kib \in Int /\ call.max_kib \in Int
  BY SuiteAssumption
<1> QED
  BY <1>1, LenProperties

\* The name a benchmark is scored under is dispatched too, and no name stands for
\* the sweep, its points or the combined score.
LEMMA NamesTyped ==
  /\ \A n \in Dispatched : ScoredAs(n) \in Dispatched
  /\ {"cache_size_sweep", "cache_sweep", "Combined"} \cap Dispatched = {}
<1>1. DOMAIN Alias = {"integer_arithmetic", "branch_prediction", "pointer", "cache"}
  BY DEF Alias
<1>2. \A n \in DOMAIN Alias :
        Alias[n] \in {"integer", "branch", "pointer_chase", "cache_latency"}
  BY <1>1 DEF Alias
<1>3. ASSUME NEW n \in Dispatched PROVE ScoredAs(n) \in Dispatched
  <2>1. CASE n \in DOMAIN Alias
    <3>1. ScoredAs(n) \in {"integer", "branch", "pointer_chase", "cache_latency"}
      BY <1>2, <2>1 DEF ScoredAs
    <3> QED
      BY <3>1 DEF Dispatched, DefaultScored
  <2>2. CASE n \notin DOMAIN Alias
    BY <1>3, <2>2 DEF ScoredAs
  <2> QED
    BY <2>1, <2>2
<1>4. {"cache_size_sweep", "cache_sweep", "Combined"} \cap Dispatched = {}
  BY <1>1 DEF Dispatched, DefaultScored, IntegerKernels, FloatingKernels,
     BranchPatterns
<1> QED
  BY <1>3, <1>4

\* A key is scored where it is listed.
LEMMA KeysTyped ==
  ASSUME call \in Cases, NEW key \in BenchmarkKeys
  PROVE  /\ key[1] # "Combined" /\ key # <<"Combined", 0>>
         /\ Listed(key) # {}
         /\ IsFiniteSet(Listed(key)) /\ Listed(key) \subseteq Int
         /\ Cardinality(Listed(key)) \in Nat \ {0}
         /\ \/ key[1] \in Dispatched /\ key = <<key[1], 0>>
            \/ key[1] = "cache_sweep" /\ key = <<"cache_sweep", key[2]>>
                 /\ key[2] \in Points
<1>1. DOMAIN call.benchmarks = 1 .. Len(call.benchmarks) /\ Len(call.benchmarks) \in Nat
  BY CallTyped
<1>2. \/ \E n \in ToSet(call.benchmarks) \cap Dispatched : key = <<ScoredAs(n), 0>>
      \/ Sweeps /\ \E k \in Points : key = <<"cache_sweep", k>>
  BY DEF BenchmarkKeys
<1>3. /\ Listed(key) # {} /\ key[1] # "Combined" /\ key # <<"Combined", 0>>
      /\ \/ key[1] \in Dispatched /\ key = <<key[1], 0>>
         \/ key[1] = "cache_sweep" /\ key = <<"cache_sweep", key[2]>>
              /\ key[2] \in Points
  <2>1. CASE \E n \in ToSet(call.benchmarks) \cap Dispatched : key = <<ScoredAs(n), 0>>
    <3>1. PICK n \in ToSet(call.benchmarks) \cap Dispatched : key = <<ScoredAs(n), 0>>
      BY <2>1
    <3>2. PICK i \in DOMAIN call.benchmarks : call.benchmarks[i] = n
      BY DEF ToSet
    <3>3. i \in Listed(key)
      BY <3>1, <3>2 DEF Listed
    <3>4. key[1] \in Dispatched
      BY <3>1, NamesTyped
    <3> QED
      BY <3>1, <3>3, <3>4, NamesTyped
  <2>2. CASE Sweeps /\ \E k \in Points : key = <<"cache_sweep", k>>
    <3>1. PICK i \in DOMAIN call.benchmarks : call.benchmarks[i] = "cache_size_sweep"
      BY <2>2 DEF Sweeps, ToSet
    <3>2. i \in Listed(key)
      BY <2>2, <3>1 DEF Listed
    <3> QED
      BY <2>2, <3>2
  <2> QED
    BY <1>2, <2>1, <2>2
<1>4. Listed(key) \in SUBSET (1 .. Len(call.benchmarks))
  BY <1>1 DEF Listed
<1>5. IsFiniteSet(1 .. Len(call.benchmarks))
  BY <1>1, FS_Interval
<1>6. IsFiniteSet(Listed(key))
  BY <1>4, <1>5, FS_Subset
<1>7. Cardinality(Listed(key)) \in Nat \ {0}
  BY <1>3, <1>6, FS_CardinalityType, FS_EmptySet
<1>8. Listed(key) \subseteq Int
  BY <1>1, <1>4
<1> QED
  BY <1>3, <1>6, <1>7, <1>8

LEMMA LengthTyped ==
  ASSUME call \in Cases
  PROVE  /\ IsFiniteSet(DispatchedAt) /\ DispatchedAt \subseteq 1 .. Len(call.benchmarks)
         /\ IsFiniteSet(SweptAt) /\ SweptAt \subseteq 1 .. Len(call.benchmarks)
         /\ IsFiniteSet(Points) /\ Points \subseteq Int
         /\ Cardinality(Points) \in Nat
         /\ Length \in Nat
<1>1. DOMAIN call.benchmarks = 1 .. Len(call.benchmarks) /\ Len(call.benchmarks) \in Nat
  BY CallTyped
<1>2. /\ DispatchedAt \in SUBSET (1 .. Len(call.benchmarks))
      /\ SweptAt \in SUBSET (1 .. Len(call.benchmarks))
  BY <1>1 DEF DispatchedAt, SweptAt
<1>3. IsFiniteSet(1 .. Len(call.benchmarks))
  BY <1>1, FS_Interval
<1>4. IsFiniteSet(DispatchedAt) /\ IsFiniteSet(SweptAt)
  BY <1>2, <1>3, FS_Subset
<1>5. Points \in SUBSET (call.min_kib .. call.max_kib) /\ SweepSizes \subseteq Int
  <2>1. SweepSizes \subseteq Int
    BY DEF SweepSizes
  <2>2. \A k \in Points : k \in Int /\ call.min_kib <= k /\ k <= call.max_kib
    BY <2>1 DEF Points
  <2>3. call.min_kib \in Int /\ call.max_kib \in Int
    BY CallTyped
  <2>4. \A k \in Points : k \in call.min_kib .. call.max_kib
    BY <2>2, <2>3
  <2> QED
    BY <2>1, <2>4
<1>6. IsFiniteSet(Points)
  <2>1. IsFiniteSet(call.min_kib .. call.max_kib)
    BY CallTyped, FS_Interval
  <2> QED
    BY <1>5, <2>1, FS_Subset
<1>7. /\ Cardinality(DispatchedAt) \in Nat /\ Cardinality(SweptAt) \in Nat
      /\ Cardinality(Points) \in Nat
  BY <1>4, <1>6, FS_CardinalityType
<1>8. Cardinality(SweptAt) * Cardinality(Points) \in Nat
  BY <1>7
<1>9. Length \in Nat
  BY <1>7, <1>8 DEF Length
<1>10. Points \subseteq Int
  BY <1>5 DEF Points
<1> QED
  BY <1>2, <1>4, <1>6, <1>7, <1>9, <1>10

-----------------------------------------------------------------------------
(* The steps.                                                              *)

\* Twice a size that is not the last is the next, and none is between the two.
LEMMA Doubling ==
  ASSUME NEW k \in SweepSizes
  PROVE  /\ k \in Nat /\ 4 <= k /\ k <= 65536
         /\ 2 * k \in SweepSizes \cup {131072}
         /\ \A j \in SweepSizes : j < 2 * k <=> j < k \/ j = k
<1>1. k \in Nat /\ 4 <= k /\ k <= 65536
  BY DEF SweepSizes
<1>2. 2 * k \in SweepSizes \cup {131072}
  BY DEF SweepSizes
<1>3. \A j \in SweepSizes : j < 2 * k <=> j < k \/ j = k
  BY DEF SweepSizes
<1> QED
  BY <1>1, <1>2, <1>3

LEMMA ControlInit == Init => ControlInv
<1> SUFFICES ASSUME Init PROVE ControlInv
  OBVIOUS
<1>1. /\ call \in Cases /\ pc = "suite" /\ repeat = 1 /\ phase = 1 /\ pos = 1
      /\ size = 0 /\ phases = <<>>
  BY DEF Init
<1>2. call.repeats \in Nat \ {0} /\ Len(call.benchmarks) \in Nat
  BY <1>1, CallTyped
<1>3. 1 \in 1 .. Len(Phases)
  BY PhasesTyped
<1> QED
  BY <1>1, <1>2, <1>3 DEF ControlInv, InSuite

LEMMA ControlStep == ControlInv /\ [Next]_vars => ControlInv'
<1> SUFFICES ASSUME ControlInv, [Next]_vars PROVE ControlInv'
  OBVIOUS
<1>1. call' = call
  BY DEF Next, vars, NothingToRun, SuiteRejected, BeginSuite, Throws, SkipUnknown,
     BandwidthRejected, Score, SampleRefused, BeginSweep, SweepPoint, EndSweep,
     EndSuite, Finished, Fail
<1>2. UNCHANGED <<Phases, Valid, SweptAt>>
  BY <1>1, SameCall
<1>3. /\ call.repeats \in Nat \ {0} /\ Len(call.benchmarks) \in Nat
      /\ DOMAIN call.benchmarks = 1 .. Len(call.benchmarks)
      /\ call.min_kib \in Int /\ call.max_kib \in Int
  BY CallTyped DEF ControlInv
<1>4. Len(Phases) \in {1, 2}
  BY PhasesTyped
<1>0. call.benchmarks = <<>> => phases' = <<>>
  <2>1. CASE EndSuite
    BY <2>1 DEF EndSuite, ControlInv, InSuite
  <2>2. CASE ~EndSuite
    <3>1. phases' = phases
      BY <2>2 DEF Next, vars, NothingToRun, SuiteRejected, BeginSuite, Throws,
         SkipUnknown, BandwidthRejected, Score, SampleRefused, BeginSweep,
         SweepPoint, EndSweep, Finished, Fail
    <3> QED
      BY <3>1 DEF ControlInv
  <2> QED
    BY <2>1, <2>2
<1>5. CASE \/ NothingToRun \/ SuiteRejected \/ Throws \/ BandwidthRejected
           \/ SampleRefused
  <2>1. /\ UNCHANGED <<repeat, phase, pos, size>>
        /\ pc \in {"suite", "benchmark", "sweep"}
        /\ \/ pc' = "failed"
           \/ pc' = "done" /\ call.benchmarks = <<>>
    BY <1>5 DEF NothingToRun, SuiteRejected, Throws, BandwidthRejected,
       SampleRefused, Fail, AtBenchmark
  <2> QED
    BY <1>0, <1>1, <1>2, <2>1 DEF ControlInv, InSuite
<1>6. CASE BeginSuite
  <2>1. /\ UNCHANGED <<repeat, phase, size>>
        /\ pc = "suite" /\ pc' = "benchmark" /\ pos' = 1
        /\ call.benchmarks # <<>> /\ Valid
    BY <1>6 DEF BeginSuite
  <2> QED
    BY <1>0, <1>1, <1>2, <1>3, <2>1 DEF ControlInv, InSuite
<1>7. CASE SkipUnknown \/ Score
  <2>1. /\ UNCHANGED <<repeat, phase, size>>
        /\ pc = "benchmark" /\ pos <= Len(call.benchmarks)
        /\ \/ pc' = "benchmark" /\ pos' = pos + 1
           \/ pc' = "refused" /\ pos' = pos
    BY <1>7 DEF SkipUnknown, Score, AtBenchmark
  <2>2. pos' \in 1 .. Len(call.benchmarks) + 1
    BY <1>3, <2>1 DEF ControlInv
  <2> QED
    BY <1>0, <1>1, <1>2, <2>1, <2>2 DEF ControlInv, InSuite
<1>8. CASE BeginSweep
  <2>1. /\ UNCHANGED <<repeat, phase, pos>>
        /\ pc = "benchmark" /\ pos <= Len(call.benchmarks)
        /\ call.benchmarks[pos] = "cache_size_sweep"
        /\ pc' = "sweep" /\ size' = call.min_kib
    BY <1>8 DEF BeginSweep, AtBenchmark, Name
  <2>2. pos \in SweptAt
    BY <1>3, <2>1 DEF ControlInv, SweptAt
  <2>3. Valid /\ Sweeps
    <3>1. Sweeps
      BY <2>2 DEF Sweeps, SweptAt, ToSet
    <3> QED
      BY <2>1, <3>1 DEF ControlInv, InSuite
  <2>4. /\ call.min_kib \in SweepSizes /\ call.max_kib \in SweepSizes
        /\ call.min_kib <= call.max_kib
    BY <2>3 DEF Valid
  <2>5. call.min_kib \in call.min_kib .. 2 * call.max_kib
    BY <1>3, <2>4, Doubling
  <2> QED
    BY <1>0, <1>1, <1>2, <1>3, <2>1, <2>2, <2>4, <2>5 DEF ControlInv, InSuite
<1>9. CASE SweepPoint
  <2>1. /\ UNCHANGED <<repeat, phase, pos>>
        /\ pc = "sweep" /\ pc' = "sweep"
        /\ size <= call.max_kib /\ size' = size * 2
    BY <1>9 DEF SweepPoint
  <2>2. call.max_kib \in SweepSizes
    <3>1. Valid /\ Sweeps
      BY <2>1 DEF ControlInv, InSuite, Sweeps, SweptAt, ToSet
    <3> QED
      BY <3>1 DEF Valid
  <2>3. size \in SweepSizes /\ call.min_kib <= size
    BY <2>1, <2>2, Doubling DEF ControlInv
  <2>4. /\ size' \in SweepSizes \cup {131072} /\ size' \in Int
        /\ call.min_kib <= size' /\ size' <= 2 * call.max_kib
    <3>1. size \in Nat /\ size' = 2 * size
      BY <2>1, <2>3, Doubling
    <3> QED
      BY <1>3, <2>1, <2>3, <3>1, Doubling
  <2> QED
    BY <1>0, <1>1, <1>2, <1>3, <2>1, <2>4 DEF ControlInv, InSuite
<1>10. CASE EndSweep
  <2>1. /\ UNCHANGED <<repeat, phase>>
        /\ pc = "sweep" /\ pc' = "benchmark" /\ pos' = pos + 1 /\ size' = 0
    BY <1>10 DEF EndSweep
  <2>2. pos' \in 1 .. Len(call.benchmarks) + 1
    BY <1>3, <2>1 DEF ControlInv, SweptAt
  <2> QED
    BY <1>0, <1>1, <1>2, <2>1, <2>2 DEF ControlInv, InSuite
<1>11. CASE EndSuite
  <2>1. /\ UNCHANGED <<pos, size>> /\ pc = "benchmark" /\ Turn
    BY <1>11 DEF EndSuite
  <2>2. repeat \in 1 .. call.repeats /\ phase \in 1 .. Len(Phases)
    BY <1>3, <2>1 DEF ControlInv
  <2>3. \/ /\ phase' \in 1 .. Len(Phases) /\ repeat' = repeat /\ pc' = "suite"
        \/ /\ phase' = 1 /\ repeat' = repeat + 1
           /\ pc' = IF repeat' = call.repeats + 1 THEN "done" ELSE "suite"
    BY <1>3, <1>4, <2>1, <2>2 DEF Turn
  <2>4. 1 \in 1 .. Len(Phases) /\ repeat' \in 1 .. call.repeats + 1
    BY <1>3, <1>4, <2>2, <2>3
  <2> QED
    BY <1>0, <1>1, <1>2, <1>3, <2>1, <2>2, <2>3, <2>4 DEF ControlInv, InSuite
<1>12. CASE UNCHANGED vars
  BY <1>0, <1>1, <1>2, <1>12 DEF vars, ControlInv, InSuite
<1> QED
  BY <1>5, <1>6, <1>7, <1>8, <1>9, <1>10, <1>11, <1>12 DEF Next, Finished

LEMMA EntryTyped ==
  ASSUME NEW name, NEW kib, NEW samples
  PROVE  /\ Key(Entry(name, kib, samples)) = <<name, kib>>
         /\ Entry(name, kib, samples).threads = ActiveThreads
BY DEF Entry, Key, ActiveThreads

\* Where the benchmark at pos is listed.
LEMMA ListedHere ==
  ASSUME ControlInv, pos <= Len(call.benchmarks), NEW key \in BenchmarkKeys
  PROVE  /\ Name \in Dispatched =>
              (pos \in Listed(key) <=> key = <<ScoredAs(Name), 0>>)
         /\ Name = "cache_size_sweep" =>
              (pos \in Listed(key) <=> key[1] = "cache_sweep")
         /\ Name \notin Dispatched \cup {"cache_size_sweep"} => pos \notin Listed(key)
<1>1. pos \in DOMAIN call.benchmarks
  BY CallTyped DEF ControlInv
<1>2. \/ key[1] \in Dispatched /\ key = <<key[1], 0>>
      \/ key[1] = "cache_sweep" /\ key = <<"cache_sweep", key[2]>>
  BY KeysTyped DEF ControlInv
<1>3. pos \in Listed(key) <=>
        \/ Name \in Dispatched /\ ScoredAs(Name) = key[1]
        \/ Name = "cache_size_sweep" /\ key[1] = "cache_sweep"
  BY <1>1 DEF Listed, Name
<1>4. CASE Name \in Dispatched
  <2>1. ScoredAs(Name) \in Dispatched /\ "cache_sweep" \notin Dispatched
        /\ "cache_size_sweep" \notin Dispatched
    BY <1>4, NamesTyped
  <2> QED
    BY <1>2, <1>3, <1>4, <2>1
<1>5. CASE Name \notin Dispatched
  BY <1>3, <1>5
<1> QED
  BY <1>4, <1>5

\* What passing the benchmark at pos changes.
LEMMA BelowNext ==
  ASSUME ControlInv, pos <= Len(call.benchmarks)
  PROVE  /\ \A key \in BenchmarkKeys :
              /\ Cardinality(Below(Listed(key), pos)) \in Nat
              /\ Cardinality(Below(Listed(key), pos + 1)) =
                   Cardinality(Below(Listed(key), pos))
                     + (IF pos \in Listed(key) THEN 1 ELSE 0)
         /\ Cardinality(Below(DispatchedAt, pos)) \in Nat
         /\ Cardinality(Below(SweptAt, pos)) \in Nat
         /\ Cardinality(Below(DispatchedAt, pos + 1)) =
              Cardinality(Below(DispatchedAt, pos))
                + (IF Name \in Dispatched THEN 1 ELSE 0)
         /\ Cardinality(Below(SweptAt, pos + 1)) =
              Cardinality(Below(SweptAt, pos))
                + (IF Name = "cache_size_sweep" THEN 1 ELSE 0)
<1>1. /\ pos \in Int /\ pos \in DOMAIN call.benchmarks
      /\ Len(call.benchmarks) \in Nat
  BY CallTyped DEF ControlInv
<1>2. ASSUME NEW key \in BenchmarkKeys
      PROVE  /\ Cardinality(Below(Listed(key), pos)) \in Nat
             /\ Cardinality(Below(Listed(key), pos + 1)) =
                  Cardinality(Below(Listed(key), pos))
                    + (IF pos \in Listed(key) THEN 1 ELSE 0)
  <2>1. IsFiniteSet(Listed(key)) /\ Listed(key) \subseteq Int
    BY KeysTyped DEF ControlInv
  <2> QED
    BY <1>1, <2>1, BelowStep
<1>3. /\ IsFiniteSet(DispatchedAt) /\ DispatchedAt \subseteq Int
      /\ IsFiniteSet(SweptAt) /\ SweptAt \subseteq Int
  BY <1>1, LengthTyped DEF ControlInv
<1>4. /\ pos \in DispatchedAt <=> Name \in Dispatched
      /\ pos \in SweptAt <=> Name = "cache_size_sweep"
  BY <1>1 DEF DispatchedAt, SweptAt, Name
<1> QED
  BY <1>1, <1>2, <1>3, <1>4, BelowStep

LEMMA ScoresInit == ControlInv /\ Init => ScoresInv
<1> SUFFICES ASSUME ControlInv, Init PROVE ScoresInv
  OBVIOUS
<1>1. scores = <<>> /\ pc = "suite"
  BY DEF Init
<1>2. IsSeq(scores) /\ DOMAIN scores = {}
  BY <1>1, EmptySeq DEF IsSeq
<1> QED
  BY <1>1, <1>2 DEF ScoresInv, InSuite

\* Steps that neither score nor pass a benchmark of a suite that goes on.
LEMMA ScoresKept ==
  ASSUME ScoresInv, UNCHANGED <<call, scores>>,
         \/ ~InSuite'
         \/ UNCHANGED <<pc, pos, phase, size>>
  PROVE  ScoresInv'
<1>1. /\ UNCHANGED <<BenchmarkKeys, DispatchedAt, SweptAt, Points, Phases>>
      /\ \A key : Listed(key)' = Listed(key)
  BY SameCall
<1>2. CASE ~InSuite'
  BY <1>1, <1>2 DEF ScoresInv
<1>3. CASE UNCHANGED <<pc, pos, phase, size>>
  <2>1. UNCHANGED <<ActiveThreads, Passed>>
    BY <1>1, <1>3 DEF ActiveThreads, Passed
  <2> QED
    BY <1>1, <1>3, <2>1 DEF ScoresInv, InSuite
<1> QED
  BY <1>2, <1>3

LEMMA ScoresBegin ==
  ASSUME ControlInv, ScoresInv, BeginSuite
  PROVE  ScoresInv'
<1>1. /\ UNCHANGED <<call, phase, size>>
      /\ pc' = "benchmark" /\ pos' = 1 /\ scores' = <<>>
  BY DEF BeginSuite
<1>2. /\ UNCHANGED <<BenchmarkKeys, DispatchedAt, SweptAt, Points>>
      /\ \A key : Listed(key)' = Listed(key)
  BY <1>1, SameCall
<1>3. IsSeq(<<>>) /\ DOMAIN <<>> = {} /\ Len(<<>>) = 0
  BY EmptySeq DEF IsSeq
<1>4. \A key, threads : At(<<>>, key, threads) = {}
  BY <1>3 DEF At
<1>5. ASSUME NEW S, S \subseteq 1 .. Len(call.benchmarks)
      PROVE  Below(S, 1) = {}
  <2>1. \A i \in 1 .. Len(call.benchmarks) : ~(i < 1)
    BY CallTyped DEF ControlInv
  <2> QED
    BY <1>5, <2>1 DEF Below
<1>6. /\ \A key : Below(Listed(key), 1) = {}
      /\ Below(DispatchedAt, 1) = {} /\ Below(SweptAt, 1) = {}
  <2>1. \A key : Listed(key) \subseteq 1 .. Len(call.benchmarks)
    BY CallTyped DEF Listed, ControlInv
  <2> QED
    BY <1>5, <2>1, LengthTyped DEF ControlInv
<1>7. Cardinality({}) = 0 /\ Cardinality(Points) \in Nat
  BY FS_EmptySet, LengthTyped DEF ControlInv
<1>8. \A key, threads :
        Cardinality(At(<<>>, key, threads)) = Cardinality(Below(Listed(key), 1)) + 0
  <2> SUFFICES ASSUME NEW key, NEW threads
               PROVE  Cardinality(At(<<>>, key, threads)) =
                        Cardinality(Below(Listed(key), 1)) + 0
    OBVIOUS
  <2>1. At(<<>>, key, threads) = {} /\ Below(Listed(key), 1) = {}
    BY <1>4, <1>6
  <2>2. Cardinality({}) = Cardinality({}) + 0
    BY <1>7
  <2> QED
    BY <2>1, <2>2
<1>9. Len(<<>>) = Cardinality(Below(DispatchedAt, 1))
                    + Cardinality(Below(SweptAt, 1)) * Cardinality(Points) + 0
  <2>1. 0 = Cardinality({}) + Cardinality({}) * Cardinality(Points) + 0
    BY <1>7
  <2> QED
    BY <1>3, <1>6, <2>1
<1>10. /\ \A key \in BenchmarkKeys' :
            Cardinality(At(scores', key, ActiveThreads')) =
              Cardinality(Below(Listed(key)', pos')) + 0
       /\ Len(scores') = Cardinality(Below(DispatchedAt', pos'))
            + Cardinality(Below(SweptAt', pos')) * Cardinality(Points') + 0
  BY <1>1, <1>2, <1>8, <1>9
<1> QED
  BY <1>1, <1>3, <1>10 DEF ScoresInv, InSuite

LEMMA ScoresSkip ==
  ASSUME ControlInv, ScoresInv, SkipUnknown
  PROVE  ScoresInv'
<1>1. /\ UNCHANGED <<call, phase, size, scores>>
      /\ pc = "benchmark" /\ pc' = "benchmark" /\ pos' = pos + 1
      /\ pos <= Len(call.benchmarks)
      /\ Name \notin Dispatched \cup {"cache_size_sweep"}
  BY DEF SkipUnknown, AtBenchmark, scorerVars
<1>2. /\ UNCHANGED <<BenchmarkKeys, DispatchedAt, SweptAt, Points, ActiveThreads>>
      /\ \A key : Listed(key)' = Listed(key)
  BY <1>1, SameCall DEF ActiveThreads
<1>3. \A key \in BenchmarkKeys :
        Cardinality(Below(Listed(key), pos + 1)) = Cardinality(Below(Listed(key), pos))
  BY <1>1, BelowNext, ListedHere
<1>4. /\ Cardinality(Below(DispatchedAt, pos + 1)) = Cardinality(Below(DispatchedAt, pos))
      /\ Cardinality(Below(SweptAt, pos + 1)) = Cardinality(Below(SweptAt, pos))
  BY <1>1, BelowNext
<1> QED
  BY <1>1, <1>2, <1>3, <1>4 DEF ScoresInv, InSuite

LEMMA ScoresScore ==
  ASSUME ControlInv, ScoresInv, Score
  PROVE  ScoresInv'
<1>1. /\ UNCHANGED <<call, phase, size>>
      /\ pc = "benchmark" /\ pos <= Len(call.benchmarks)
      /\ Name \in Dispatched
  BY DEF Score, AtBenchmark
<1>2. PICK samples \in call.samples :
        \/ /\ scores' = Append(scores, Entry(ScoredAs(Name), 0, samples))
           /\ pos' = pos + 1 /\ pc' = pc
        \/ pc' = "refused" /\ scores' = scores
  BY DEF Score
<1> DEFINE entry == Entry(ScoredAs(Name), 0, samples)
<1>3. CASE pc' = "refused" /\ scores' = scores
  BY <1>1, <1>3, ScoresKept DEF InSuite
<1>4. CASE scores' = Append(scores, entry) /\ pos' = pos + 1 /\ pc' = pc
  <2>1. Key(entry) = <<ScoredAs(Name), 0>> /\ entry.threads = ActiveThreads
    BY EntryTyped
  <2>2. Key(entry) \in BenchmarkKeys
    <3>1. pos \in DOMAIN call.benchmarks
      BY <1>1, CallTyped DEF ControlInv
    <3>2. Name \in ToSet(call.benchmarks)
      BY <3>1 DEF Name, ToSet
    <3> QED
      BY <1>1, <2>1, <3>2 DEF BenchmarkKeys
  <2> HIDE DEF entry
  <2>3. /\ UNCHANGED <<BenchmarkKeys, DispatchedAt, SweptAt, Points, ActiveThreads>>
        /\ \A key : Listed(key)' = Listed(key)
    BY <1>1, SameCall DEF ActiveThreads
  <2>4. /\ IsSeq(scores) /\ Len(scores) \in Nat /\ DOMAIN scores = 1 .. Len(scores)
    BY EntriesTyped DEF ScoresInv
  <2>5. /\ IsSeq(scores') /\ Len(scores') = Len(scores) + 1
        /\ DOMAIN scores' = 1 .. Len(scores) + 1
        /\ \A i \in 1 .. Len(scores) : scores'[i] = scores[i]
        /\ scores'[Len(scores) + 1] = entry
    BY <1>4, <2>4, OneMore
  <2>6. ActiveThreads \in {1, call.threads}
    BY PhasesTyped DEF ControlInv, ActiveThreads
  <2>7. \A i \in DOMAIN scores' :
          /\ Key(scores'[i]) \in BenchmarkKeys
          /\ scores'[i].threads = ActiveThreads
    <3> SUFFICES ASSUME NEW i \in DOMAIN scores'
                 PROVE  /\ Key(scores'[i]) \in BenchmarkKeys
                        /\ scores'[i].threads = ActiveThreads
      OBVIOUS
    <3>1. i \in DOMAIN scores \/ i = Len(scores) + 1
      BY <2>4, <2>5
    <3>2. CASE i \in DOMAIN scores
      <4>1. scores'[i] = scores[i]
        BY <2>4, <2>5, <3>2
      <4> QED
        BY <1>1, <3>2, <4>1 DEF ScoresInv, InSuite
    <3>3. CASE i = Len(scores) + 1
      BY <2>1, <2>2, <2>5, <3>3
    <3> QED
      BY <3>1, <3>2, <3>3
  <2>8. ASSUME NEW key \in BenchmarkKeys
        PROVE  Cardinality(At(scores', key, ActiveThreads)) =
                 Cardinality(Below(Listed(key), pos + 1)) + 0
    <3>1. Cardinality(At(scores', key, ActiveThreads)) =
            Cardinality(At(scores, key, ActiveThreads))
              + (IF Key(entry) = key THEN 1 ELSE 0)
      BY <1>4, <2>1, <2>4, AtOneMore
    <3>2. Cardinality(At(scores, key, ActiveThreads)) =
            Cardinality(Below(Listed(key), pos))
      <4>1. Cardinality(Below(Listed(key), pos)) \in Nat
        BY <1>1, BelowNext
      <4> QED
        BY <1>1, <4>1 DEF ScoresInv, InSuite
    <3>3. pos \in Listed(key) <=> Key(entry) = key
      BY <1>1, <2>1, ListedHere
    <3> QED
      BY <1>1, <3>1, <3>2, <3>3, BelowNext
  <2>9. Len(scores') = Cardinality(Below(DispatchedAt, pos + 1))
                         + Cardinality(Below(SweptAt, pos + 1)) * Cardinality(Points) + 0
    <3> DEFINE points == Cardinality(Below(SweptAt, pos)) * Cardinality(Points)
    <3>1. /\ Cardinality(Below(DispatchedAt, pos + 1)) =
               Cardinality(Below(DispatchedAt, pos)) + 1
          /\ Cardinality(Below(SweptAt, pos + 1)) = Cardinality(Below(SweptAt, pos))
          /\ Cardinality(Below(DispatchedAt, pos)) \in Nat
      BY <1>1, BelowNext, NamesTyped
    <3>2. points \in Nat
      BY <1>1, BelowNext, LengthTyped DEF ControlInv
    <3> HIDE DEF points
    <3>3. Len(scores) = Cardinality(Below(DispatchedAt, pos)) + points
      BY <1>1, <3>1, <3>2 DEF ScoresInv, InSuite, points
    <3>4. Len(scores') = Cardinality(Below(DispatchedAt, pos + 1)) + points + 0
      BY <2>5, <3>1, <3>2, <3>3
    <3> QED
      BY <3>1, <3>4 DEF points
  <2>10. /\ \A key \in BenchmarkKeys' :
              Cardinality(At(scores', key, ActiveThreads')) =
                Cardinality(Below(Listed(key)', pos')) + 0
         /\ Len(scores') = Cardinality(Below(DispatchedAt', pos'))
              + Cardinality(Below(SweptAt', pos')) * Cardinality(Points') + 0
    BY <1>4, <2>3, <2>8, <2>9
  <2> QED
    BY <1>1, <1>4, <2>3, <2>5, <2>6, <2>7, <2>10 DEF ScoresInv, InSuite
<1> QED
  BY <1>2, <1>3, <1>4

LEMMA ScoresSweepBegins ==
  ASSUME ControlInv, ScoresInv, BeginSweep
  PROVE  ScoresInv'
<1>1. /\ UNCHANGED <<call, phase, pos, scores>>
      /\ pc = "benchmark" /\ pc' = "sweep" /\ size' = call.min_kib
      /\ pos <= Len(call.benchmarks)
  BY DEF BeginSweep, AtBenchmark, scorerVars
<1>2. /\ UNCHANGED <<BenchmarkKeys, DispatchedAt, SweptAt, Points, ActiveThreads>>
      /\ \A key : Listed(key)' = Listed(key)
  BY <1>1, SameCall DEF ActiveThreads
<1>3. \A k \in Points : ~(k < call.min_kib)
  <2>1. \A k \in Points : k \in Int /\ call.min_kib <= k
    BY LengthTyped DEF ControlInv, Points
  <2>2. call.min_kib \in Int
    BY CallTyped DEF ControlInv
  <2> QED
    BY <2>1, <2>2
<1>4. Below(Points, call.min_kib) = {} /\ Cardinality({}) = 0
  BY <1>3, FS_EmptySet DEF Below
<1>5. \A key \in BenchmarkKeys : ~(key[1] = "cache_sweep" /\ key[2] < call.min_kib)
  BY <1>3, KeysTyped, NamesTyped DEF ControlInv
<1>6. Passed' = {}
  BY <1>1, <1>2, <1>4 DEF Passed
<1> QED
  BY <1>1, <1>2, <1>4, <1>5, <1>6 DEF ScoresInv, InSuite

LEMMA ScoresPoint ==
  ASSUME ControlInv, ScoresInv, SweepPoint
  PROVE  ScoresInv'
<1>1. /\ UNCHANGED <<call, phase, pos>>
      /\ pc = "sweep" /\ pc' = "sweep"
      /\ size <= call.max_kib /\ size' = size * 2
  BY DEF SweepPoint
<1>2. PICK samples \in call.samples :
        scores' = Append(scores, Entry("cache_sweep", size, samples))
  BY DEF SweepPoint
<1> DEFINE entry == Entry("cache_sweep", size, samples)
<1>3. Key(entry) = <<"cache_sweep", size>> /\ entry.threads = ActiveThreads
  BY EntryTyped
<1>4. scores' = Append(scores, entry)
  BY <1>2
<1> HIDE DEF entry
<1>5. /\ UNCHANGED <<BenchmarkKeys, DispatchedAt, SweptAt, Points, ActiveThreads>>
      /\ \A key : Listed(key)' = Listed(key)
  BY <1>1, SameCall DEF ActiveThreads
<1>6. Sweeps /\ pos \in DOMAIN call.benchmarks /\ pos <= Len(call.benchmarks)
      /\ Name = "cache_size_sweep"
  BY <1>1, CallTyped DEF ControlInv, Sweeps, SweptAt, ToSet, Name
<1>7. size \in Points /\ size \in Int /\ size' = 2 * size
  <2>1. call.max_kib \in SweepSizes
    BY <1>1, <1>6 DEF ControlInv, InSuite, Valid
  <2>2. size \in SweepSizes /\ call.min_kib <= size
    BY <1>1, <2>1, Doubling DEF ControlInv
  <2> QED
    BY <1>1, <2>2, Doubling DEF Points
<1>8. \A k \in Points : k \in Int /\ (k < size' <=> k < size \/ k = size)
  <2>1. size \in SweepSizes
    BY <1>7 DEF Points
  <2>2. \A k \in SweepSizes : k < 2 * size <=> k < size \/ k = size
    BY <2>1, Doubling
  <2>3. \A k \in Points : k \in Int /\ k \in SweepSizes
    BY LengthTyped DEF ControlInv, Points
  <2> QED
    BY <1>7, <2>2, <2>3
<1>9. Key(entry) \in BenchmarkKeys
  BY <1>3, <1>6, <1>7 DEF BenchmarkKeys
<1>10. /\ IsSeq(scores) /\ Len(scores) \in Nat /\ DOMAIN scores = 1 .. Len(scores)
  BY EntriesTyped DEF ScoresInv
<1>11. /\ IsSeq(scores') /\ Len(scores') = Len(scores) + 1
       /\ DOMAIN scores' = 1 .. Len(scores) + 1
       /\ \A i \in 1 .. Len(scores) : scores'[i] = scores[i]
       /\ scores'[Len(scores) + 1] = entry
  BY <1>4, <1>10, OneMore
<1>12. ActiveThreads \in {1, call.threads}
  BY PhasesTyped DEF ControlInv, ActiveThreads
<1>13. \A i \in DOMAIN scores' :
         /\ Key(scores'[i]) \in BenchmarkKeys
         /\ scores'[i].threads = ActiveThreads
  <2> SUFFICES ASSUME NEW i \in DOMAIN scores'
               PROVE  /\ Key(scores'[i]) \in BenchmarkKeys
                      /\ scores'[i].threads = ActiveThreads
    OBVIOUS
  <2>1. i \in DOMAIN scores \/ i = Len(scores) + 1
    BY <1>10, <1>11
  <2>2. CASE i \in DOMAIN scores
    <3>1. scores'[i] = scores[i]
      BY <1>10, <1>11, <2>2
    <3> QED
      BY <1>1, <2>2, <3>1 DEF ScoresInv, InSuite
  <2>3. CASE i = Len(scores) + 1
    BY <1>3, <1>9, <1>11, <2>3
  <2> QED
    BY <2>1, <2>2, <2>3
<1>14. ASSUME NEW key \in BenchmarkKeys
       PROVE  Cardinality(At(scores', key, ActiveThreads)) =
                Cardinality(Below(Listed(key), pos))
                  + (IF key[1] = "cache_sweep" /\ key[2] < size' THEN 1 ELSE 0)
  <2>1. Cardinality(At(scores', key, ActiveThreads)) =
          Cardinality(At(scores, key, ActiveThreads))
            + (IF Key(entry) = key THEN 1 ELSE 0)
    BY <1>3, <1>4, <1>10, AtOneMore
  <2>2. Cardinality(At(scores, key, ActiveThreads)) =
          Cardinality(Below(Listed(key), pos))
            + (IF key[1] = "cache_sweep" /\ key[2] < size THEN 1 ELSE 0)
    BY <1>1 DEF ScoresInv, InSuite
  <2>3. Cardinality(Below(Listed(key), pos)) \in Nat
    BY <1>6, BelowNext
  <2>4. CASE key[1] = "cache_sweep"
    <3>1. key = <<"cache_sweep", key[2]>> /\ key[2] \in Points
      BY <2>4, KeysTyped, NamesTyped DEF ControlInv
    <3>2. /\ key[2] < size' <=> key[2] < size \/ key[2] = size
          /\ key[2] = size => ~(key[2] < size)
      <4> DEFINE k == key[2]
      <4>1. k \in Points
        BY <3>1
      <4> HIDE DEF k
      <4>2. k \in Int /\ (k < size' <=> k < size \/ k = size)
        BY <1>8, <4>1
      <4>3. k = size => ~(k < size)
        BY <1>7, <4>2
      <4> QED
        BY <4>2, <4>3 DEF k
    <3>3. Key(entry) = key <=> key[2] = size
      BY <1>3, <3>1
    <3> QED
      BY <2>1, <2>2, <2>3, <2>4, <3>2, <3>3
  <2>5. CASE key[1] # "cache_sweep"
    BY <1>3, <2>1, <2>2, <2>3, <2>5
  <2> QED
    BY <2>4, <2>5
<1>15. /\ Cardinality(Passed) \in Nat
       /\ Cardinality(Below(Points, size')) = Cardinality(Passed) + 1
  <2>1. /\ Cardinality(Below(Points, size)) \in Nat
        /\ Cardinality(Below(Points, size + 1)) = Cardinality(Below(Points, size)) + 1
    <3>1. IsFiniteSet(Points) /\ Points \subseteq Int
      BY LengthTyped DEF ControlInv
    <3>2. size \in Int /\ size \in Points
      BY <1>7
    <3> QED
      BY <3>1, <3>2, BelowStep
  <2>2. \A k \in Points : k < size + 1 <=> k < size'
    BY <1>7, <1>8
  <2>3. Below(Points, size + 1) = Below(Points, size')
    BY <2>2 DEF Below
  <2> QED
    BY <2>1, <2>3 DEF Passed
<1>16. Len(scores') = Cardinality(Below(DispatchedAt, pos))
         + Cardinality(Below(SweptAt, pos)) * Cardinality(Points)
         + Cardinality(Below(Points, size'))
  <2> DEFINE before == Cardinality(Below(DispatchedAt, pos))
                         + Cardinality(Below(SweptAt, pos)) * Cardinality(Points)
  <2>1. before \in Nat
    <3>1. Cardinality(Below(SweptAt, pos)) * Cardinality(Points) \in Nat
      BY <1>6, BelowNext, LengthTyped DEF ControlInv
    <3> QED
      BY <1>6, <3>1, BelowNext
  <2>2. Len(scores) = before + Cardinality(Passed)
    BY <1>1 DEF ScoresInv, InSuite
  <2> HIDE DEF before
  <2>3. Len(scores') = before + Cardinality(Below(Points, size'))
    BY <1>11, <1>15, <2>1, <2>2
  <2> QED
    BY <2>3 DEF before
<1>17. /\ \A key \in BenchmarkKeys' :
            Cardinality(At(scores', key, ActiveThreads')) =
              Cardinality(Below(Listed(key)', pos'))
                + (IF key[1] = "cache_sweep" /\ key[2] < size' THEN 1 ELSE 0)
       /\ Len(scores') = Cardinality(Below(DispatchedAt', pos'))
            + Cardinality(Below(SweptAt', pos')) * Cardinality(Points')
            + Cardinality(Passed')
  BY <1>1, <1>5, <1>14, <1>16 DEF Passed
<1> QED
  BY <1>1, <1>5, <1>11, <1>12, <1>13, <1>17 DEF ScoresInv, InSuite

LEMMA ScoresSweepEnds ==
  ASSUME ControlInv, ScoresInv, EndSweep
  PROVE  ScoresInv'
<1>1. /\ UNCHANGED <<call, phase, scores>>
      /\ pc = "sweep" /\ pc' = "benchmark" /\ pos' = pos + 1
      /\ size > call.max_kib
  BY DEF EndSweep, scorerVars
<1>2. /\ UNCHANGED <<BenchmarkKeys, DispatchedAt, SweptAt, Points, ActiveThreads>>
      /\ \A key : Listed(key)' = Listed(key)
  BY <1>1, SameCall DEF ActiveThreads
<1>3. pos \in DOMAIN call.benchmarks /\ pos <= Len(call.benchmarks)
      /\ Name = "cache_size_sweep"
  BY <1>1, CallTyped DEF ControlInv, SweptAt, Name
<1>4. \A k \in Points : k < size
  <2>1. size \in Int /\ call.max_kib \in Int
    BY <1>1, CallTyped DEF ControlInv, SweepSizes
  <2>2. \A k \in Points : k \in Int /\ k <= call.max_kib
    BY LengthTyped DEF ControlInv, Points
  <2> QED
    BY <1>1, <2>1, <2>2
<1>5. Passed = Points /\ Cardinality(Points) \in Nat
  BY <1>4, LengthTyped DEF Passed, Below, ControlInv
<1>6. ASSUME NEW key \in BenchmarkKeys
      PROVE  Cardinality(At(scores, key, ActiveThreads)) =
               Cardinality(Below(Listed(key), pos + 1)) + 0
  <2>1. Cardinality(At(scores, key, ActiveThreads)) =
          Cardinality(Below(Listed(key), pos))
            + (IF key[1] = "cache_sweep" /\ key[2] < size THEN 1 ELSE 0)
    BY <1>1 DEF ScoresInv, InSuite
  <2>2. key[1] = "cache_sweep" => key[2] < size
    BY <1>4, KeysTyped, NamesTyped DEF ControlInv
  <2>3. pos \in Listed(key) <=> key[1] = "cache_sweep"
    BY <1>3, ListedHere
  <2> QED
    BY <1>3, <2>1, <2>2, <2>3, BelowNext
<1>7. Len(scores) = Cardinality(Below(DispatchedAt, pos + 1))
        + Cardinality(Below(SweptAt, pos + 1)) * Cardinality(Points) + 0
  <2> DEFINE d == Cardinality(Below(DispatchedAt, pos))
             w == Cardinality(Below(SweptAt, pos))
             p == Cardinality(Points)
  <2>1. d \in Nat /\ w \in Nat /\ p \in Nat
    BY <1>3, <1>5, BelowNext
  <2>2. Len(scores) = d + w * p + p
    BY <1>1, <1>5 DEF ScoresInv, InSuite
  <2>3. /\ Cardinality(Below(DispatchedAt, pos + 1)) = d
        /\ Cardinality(Below(SweptAt, pos + 1)) = w + 1
    BY <1>3, BelowNext, NamesTyped
  <2> HIDE DEF d, w, p
  <2>4. Len(scores) = d + (w + 1) * p + 0
    BY <2>1, <2>2
  <2> QED
    BY <2>3, <2>4 DEF p
<1>8. /\ \A key \in BenchmarkKeys' :
            Cardinality(At(scores', key, ActiveThreads')) =
              Cardinality(Below(Listed(key)', pos')) + 0
      /\ Len(scores') = Cardinality(Below(DispatchedAt', pos'))
           + Cardinality(Below(SweptAt', pos')) * Cardinality(Points') + 0
  BY <1>1, <1>2, <1>6, <1>7
<1> QED
  BY <1>1, <1>2, <1>8 DEF ScoresInv, InSuite

LEMMA ScoresStep == ControlInv /\ ScoresInv /\ [Next]_vars => ScoresInv'
<1> SUFFICES ASSUME ControlInv, ScoresInv, [Next]_vars PROVE ScoresInv'
  OBVIOUS
<1>1. CASE \/ NothingToRun \/ SuiteRejected \/ Throws \/ BandwidthRejected
           \/ SampleRefused \/ EndSuite
  <2>1. UNCHANGED <<call, scores>> /\ pc' \in {"suite", "done", "failed"}
    BY <1>1 DEF NothingToRun, SuiteRejected, Throws, BandwidthRejected,
       SampleRefused, EndSuite, Turn, Fail, scorerVars
  <2> QED
    BY <2>1, ScoresKept DEF InSuite
<1>2. CASE UNCHANGED vars
  BY <1>2, ScoresKept DEF vars, scorerVars
<1> QED
  BY <1>1, <1>2, ScoresBegin, ScoresSkip, ScoresScore, ScoresSweepBegins,
     ScoresPoint, ScoresSweepEnds DEF Next, Finished

\* At its end a suite has scored everything that is listed as often as it is.
LEMMA SuiteComplete ==
  ASSUME ControlInv, ScoresInv, pc = "benchmark", pos > Len(call.benchmarks)
  PROVE  /\ {Key(scores[i]) : i \in DOMAIN scores} = BenchmarkKeys
         /\ Len(scores) = Length
         /\ \A key \in BenchmarkKeys :
              Cardinality(At(scores, key, ActiveThreads)) = Cardinality(Listed(key))
         /\ \A key, threads : threads # ActiveThreads \/ key \notin BenchmarkKeys =>
              Cardinality(At(scores, key, threads)) = 0
<1>1. /\ pos = Len(call.benchmarks) + 1 /\ Len(call.benchmarks) \in Nat
      /\ DOMAIN call.benchmarks = 1 .. Len(call.benchmarks)
  BY CallTyped DEF ControlInv
<1>2. ASSUME NEW S, S \subseteq 1 .. Len(call.benchmarks) PROVE Below(S, pos) = S
  <2>1. \A i \in 1 .. Len(call.benchmarks) : i < pos
    BY <1>1
  <2> QED
    BY <1>2, <2>1 DEF Below
<1>3. \A key : Listed(key) \subseteq 1 .. Len(call.benchmarks)
  BY <1>1 DEF Listed
<1>4. ASSUME NEW key \in BenchmarkKeys
      PROVE  /\ Cardinality(At(scores, key, ActiveThreads)) = Cardinality(Listed(key))
             /\ \E i \in DOMAIN scores : Key(scores[i]) = key
  <2>1. Cardinality(At(scores, key, ActiveThreads)) =
          Cardinality(Below(Listed(key), pos)) + 0
    BY DEF ScoresInv, InSuite
  <2>2. Below(Listed(key), pos) = Listed(key) /\ Cardinality(Listed(key)) \in Nat \ {0}
    BY <1>2, <1>3, KeysTyped DEF ControlInv
  <2>3. At(scores, key, ActiveThreads) # {}
    <3>1. Cardinality(At(scores, key, ActiveThreads)) \in Nat \ {0}
      BY <2>1, <2>2
    <3> QED
      BY <3>1, FS_EmptySet
  <2> QED
    BY <2>1, <2>2, <2>3 DEF At
<1>5. {Key(scores[i]) : i \in DOMAIN scores} = BenchmarkKeys
  BY <1>4 DEF ScoresInv
<1>6. Len(scores) = Length
  <2>1. /\ Below(DispatchedAt, pos) = DispatchedAt /\ Below(SweptAt, pos) = SweptAt
    BY <1>2, LengthTyped DEF ControlInv
  <2>2. Len(scores) = Cardinality(DispatchedAt)
                        + Cardinality(SweptAt) * Cardinality(Points) + 0
    BY <2>1 DEF ScoresInv, InSuite
  <2> QED
    BY <2>2, LengthTyped DEF Length, ControlInv
<1>7. ASSUME NEW key, NEW threads, threads # ActiveThreads \/ key \notin BenchmarkKeys
      PROVE  Cardinality(At(scores, key, threads)) = 0
  <2>1. At(scores, key, threads) = {}
    BY <1>7 DEF At, ScoresInv, InSuite
  <2> QED
    BY <2>1, FS_EmptySet
<1> QED
  BY <1>4, <1>5, <1>6, <1>7

-----------------------------------------------------------------------------
(* The configuration.                                                      *)

\* Only the first and the last step of a suite change what stays of it.
LEMMA OtherSteps ==
  ASSUME [Next]_vars, ~BeginSuite, ~EndSuite
  PROVE  /\ UNCHANGED <<call, repeat, phase, weights, baselines, configuration,
                        report, phases>>
         /\ InSuite' => InSuite
         /\ pc' = "done" => pc = "done" \/ call.benchmarks = <<>>
BY DEF Next, vars, NothingToRun, SuiteRejected, Throws, SkipUnknown,
   BandwidthRejected, Score, SampleRefused, BeginSweep, SweepPoint, EndSweep,
   Finished, Fail, AtBenchmark, InSuite, scorerVars, reportVars

LEMMA ConfigurationInit == Init => ConfigurationInv
BY DEF Init, ConfigurationInv, InSuite

LEMMA ConfigurationStep ==
  ControlInv /\ ScoresInv /\ ConfigurationInv /\ [Next]_vars => ConfigurationInv'
<1> SUFFICES ASSUME ControlInv, ScoresInv, ConfigurationInv, [Next]_vars
             PROVE  ConfigurationInv'
  OBVIOUS
<1>1. CASE BeginSuite
  <2>1. /\ UNCHANGED <<call, phase>> /\ pc' = "benchmark"
        /\ weights' = SuiteWeights /\ baselines' = SuiteBaselines
        /\ configuration' = Configuration
    BY <1>1 DEF BeginSuite
  <2>2. UNCHANGED <<SuiteWeights, SuiteBaselines, Phases, Sweeps>>
    BY <2>1, SameCall
  <2>3. Configuration' = Configuration
    BY <2>1, <2>2 DEF Configuration, ActiveThreads
  <2> QED
    BY <2>1, <2>2, <2>3 DEF ConfigurationInv, InSuite
<1>2. CASE EndSuite
  <2>1. /\ UNCHANGED <<call, weights, baselines>>
        /\ pc = "benchmark" /\ pos > Len(call.benchmarks)
        /\ configuration' = [configuration EXCEPT !.workloads =
                               @ \cup {Key(scores[i]) : i \in DOMAIN scores}]
        /\ pc' \in {"suite", "done"}
        /\ pc' = "done" => ~(phase < Len(Phases))
    BY <1>2 DEF EndSuite, Turn, scorerVars
  <2>2. UNCHANGED <<SuiteWeights, SuiteBaselines, Phases, BenchmarkKeys>>
    BY <2>1, SameCall
  <2>3. /\ configuration = Configuration /\ weights = SuiteWeights
    BY <2>1 DEF ConfigurationInv, InSuite
  <2>4. {Key(scores[i]) : i \in DOMAIN scores} = BenchmarkKeys
    BY <2>1, SuiteComplete
  <2>5. pc' = "done" => phase = Len(Phases)
    BY <2>1, PhasesTyped DEF ControlInv
  <2>6. configuration' = [Configuration EXCEPT !.workloads = @ \cup BenchmarkKeys]
    BY <2>1, <2>3, <2>4
  <2>7. /\ configuration'.threads = ActiveThreads
        /\ configuration'.weights = SuiteWeights
        /\ configuration'.baselines = SuiteBaselines
        /\ configuration'.workloads = BenchmarkKeys
    BY <2>6 DEF Configuration
  <2> QED
    BY <2>1, <2>2, <2>3, <2>5, <2>7 DEF ConfigurationInv, InSuite, ActiveThreads
<1>3. CASE ~BeginSuite /\ ~EndSuite
  <2>1. /\ UNCHANGED <<call, phase, weights, baselines, configuration, phases>>
        /\ InSuite' => InSuite
        /\ pc' = "done" => pc = "done" \/ call.benchmarks = <<>>
    BY <1>3, OtherSteps
  <2>2. UNCHANGED <<SuiteWeights, SuiteBaselines, Phases, BenchmarkKeys, Sweeps>>
    BY <2>1, SameCall
  <2>3. Configuration' = Configuration
    BY <2>1, <2>2 DEF Configuration, ActiveThreads
  <2>4. pc' = "done" /\ phases # <<>> => pc = "done"
    BY <2>1 DEF ControlInv
  <2> QED
    BY <2>1, <2>2, <2>3, <2>4 DEF ConfigurationInv
<1> QED
  BY <1>1, <1>2, <1>3

-----------------------------------------------------------------------------
(* The report.                                                             *)

\* Another suite: the count of those that ran with so many threads.
LEMMA OnePhaseMore ==
  ASSUME NEW S, NEW p \in Seq(S), NEW t \in S, NEW threads
  PROVE  /\ Cardinality(Ran(p, threads)) \in Nat
         /\ Cardinality(Ran(Append(p, t), threads)) =
              Cardinality(Ran(p, threads)) + (IF t = threads THEN 1 ELSE 0)
<1> DEFINE q == Append(p, t)
           old == Ran(p, threads)
           new == Ran(q, threads)
           n == Len(p) + 1
<1>1. /\ Len(p) \in Nat /\ DOMAIN p = 1 .. Len(p)
      /\ 1 .. n = 1 .. Len(p) \cup {n} /\ n \notin 1 .. Len(p)
  BY LenProperties
<1>2. /\ DOMAIN q = 1 .. n /\ q[n] = t
      /\ \A i \in 1 .. Len(p) : q[i] = p[i]
  BY AppendProperties, LenProperties
<1>3. IsFiniteSet(1 .. Len(p))
  BY <1>1, FS_Interval
<1>4. IsFiniteSet(old) /\ Cardinality(old) \in Nat /\ n \notin old
  <2>1. old \in SUBSET (1 .. Len(p))
    BY <1>1 DEF Ran
  <2> QED
    BY <1>1, <1>3, <2>1, FS_Subset, FS_CardinalityType
<1>5. CASE t = threads
  <2>1. new = old \cup {n}
    <3> HIDE DEF n, q
    <3> QED
      BY <1>1, <1>2, <1>5 DEF Ran
  <2> HIDE DEF new, old, n
  <2>2. Cardinality(new) = Cardinality(old) + 1
    BY <1>4, <2>1, FS_AddElement
  <2> QED
    BY <1>4, <1>5, <2>2 DEF new, old
<1>6. CASE t # threads
  <2>1. new = old
    <3> HIDE DEF n, q
    <3> QED
      BY <1>1, <1>2, <1>6 DEF Ran
  <2> HIDE DEF new, old, n
  <2>2. /\ Cardinality(old) \in Nat
        /\ Cardinality(new) = Cardinality(old) + (IF t = threads THEN 1 ELSE 0)
    BY <1>4, <1>6, <2>1
  <2> QED
    BY <2>2 DEF new, old
<1> QED
  BY <1>4, <1>5, <1>6

LEMMA ReportInit == ControlInv /\ Init => ReportInv
<1> SUFFICES ASSUME ControlInv, Init PROVE ReportInv
  OBVIOUS
<1>1. report = <<>> /\ phases = <<>> /\ repeat = 1 /\ phase = 1
  BY DEF Init
<1>2. Len(Phases) \in {1, 2} /\ Stride \in Nat
  BY PhasesTyped, LengthTyped DEF ControlInv, Stride
<1>3. /\ IsSeq(report) /\ Len(report) = 0 /\ DOMAIN report = {}
      /\ phases \in Seq({1, call.threads}) /\ Len(phases) = 0 /\ DOMAIN phases = {}
  BY <1>1, EmptySeq DEF IsSeq
<1>4. ASSUME NEW threads \in {1, call.threads}, NEW key \in Keys
      PROVE  Cardinality(At(report, key, threads)) =
               Occurrences(key) * Cardinality(Ran(phases, threads))
  <2>1. At(report, key, threads) = {} /\ Ran(phases, threads) = {}
    BY <1>3 DEF At, Ran
  <2>2. Occurrences(key) \in Nat
    BY KeysTyped DEF Keys, Occurrences, ControlInv
  <2>3. Cardinality({}) = 0 /\ Occurrences(key) * 0 = 0
    BY <2>2, FS_EmptySet
  <2> QED
    BY <2>1, <2>3
<1>5. Len(phases) = (repeat - 1) * Len(Phases) + (phase - 1)
  BY <1>1, <1>2, <1>3
<1>6. Len(report) = Len(phases) * Stride
  BY <1>2, <1>3
<1> QED
  BY <1>3, <1>4, <1>5, <1>6 DEF ReportInv

LEMMA Multiples ==
  ASSUME NEW m \in Nat, NEW n \in Nat
  PROVE  m * n \in Nat /\ m * n + n = (m + 1) * n
OBVIOUS

\* What the end of a suite adds to the report, and how often each key is in it.
LEMMA SuiteAdds ==
  ASSUME ControlInv, ScoresInv, ReportInv, EndSuite
  PROVE  /\ IsSeq(Append(scores, Combined))
         /\ Len(Append(scores, Combined)) = Stride
         /\ IsSeq(report') /\ Len(report') = Len(report) + Stride
         /\ DOMAIN report' = 1 .. Len(report) + Stride
         /\ \A i \in 1 .. Len(report) : report'[i] = report[i]
         /\ \A i \in 1 .. Length : report'[Len(report) + i] = scores[i]
         /\ report'[Len(report) + Stride] = Combined
         /\ \A i \in 1 .. Stride :
              /\ Key(report'[Len(report) + i]) \in Keys
              /\ report'[Len(report) + i].threads = ActiveThreads
         /\ \A threads : \A key \in Keys :
              Cardinality(At(report', key, threads)) =
                Cardinality(At(report, key, threads))
                  + (IF threads = ActiveThreads THEN Occurrences(key) ELSE 0)
<1>1. /\ report' = report \o Append(scores, Combined)
      /\ pc = "benchmark" /\ pos > Len(call.benchmarks)
  BY DEF EndSuite
<1>2. /\ Len(scores) = Length
      /\ \A key \in BenchmarkKeys :
           Cardinality(At(scores, key, ActiveThreads)) = Cardinality(Listed(key))
      /\ \A key, threads : threads # ActiveThreads \/ key \notin BenchmarkKeys =>
           Cardinality(At(scores, key, threads)) = 0
  BY <1>1, SuiteComplete
<1>3. Key(Combined) = <<"Combined", 0>> /\ Combined.threads = ActiveThreads
  BY DEF Key, Combined, ActiveThreads
<1> DEFINE last == Combined
           block == Append(scores, last)
<1>4. IsSeq(scores) /\ IsSeq(report) /\ Length \in Nat /\ Len(report) \in Nat
      /\ Stride = Length + 1 /\ DOMAIN scores = 1 .. Length
  BY <1>2, EntriesTyped, LengthTyped DEF ScoresInv, ReportInv, ControlInv, Stride
<1> HIDE DEF last
<1>5. /\ IsSeq(block) /\ Len(block) = Stride
      /\ \A i \in 1 .. Length : block[i] = scores[i]
      /\ block[Stride] = last
  BY <1>2, <1>4, OneMore
<1> HIDE DEF block
<1>6. report' = report \o block
  BY <1>1 DEF block, last
<1>7. /\ IsSeq(report') /\ Len(report') = Len(report) + Stride
      /\ DOMAIN report' = 1 .. Len(report) + Stride
      /\ \A i \in 1 .. Len(report) : report'[i] = report[i]
      /\ \A i \in 1 .. Stride : report'[Len(report) + i] = block[i]
  <2>1. /\ IsSeq(report \o block)
        /\ Len(report \o block) = Len(report) + Len(block)
        /\ DOMAIN (report \o block) = 1 .. Len(report) + Len(block)
        /\ \A i \in 1 .. Len(report) : (report \o block)[i] = report[i]
        /\ \A i \in 1 .. Len(block) : (report \o block)[Len(report) + i] = block[i]
    <3>1. IsSeq(report) /\ IsSeq(block)
      BY <1>4, <1>5
    <3> QED
      BY <3>1, Together
  <2> QED
    BY <1>5, <1>6, <2>1
<1>8. /\ \A i \in 1 .. Length : report'[Len(report) + i] = scores[i]
      /\ report'[Len(report) + Stride] = last
  <2>1. Stride \in 1 .. Stride /\ \A i \in 1 .. Length : i \in 1 .. Stride
    BY <1>4
  <2> QED
    BY <1>5, <1>7, <2>1
<1>9. ASSUME NEW i \in 1 .. Stride
      PROVE  /\ Key(report'[Len(report) + i]) \in Keys
             /\ report'[Len(report) + i].threads = ActiveThreads
  <2>1. i \in 1 .. Length \/ i = Stride
    BY <1>4
  <2>2. CASE i \in 1 .. Length
    <3>1. Key(scores[i]) \in BenchmarkKeys /\ scores[i].threads = ActiveThreads
      BY <1>1, <1>4, <2>2 DEF ScoresInv, InSuite
    <3> QED
      BY <1>8, <2>2, <3>1 DEF Keys
  <2>3. CASE i = Stride
    BY <1>3, <1>8, <2>3 DEF Keys, last
  <2> QED
    BY <2>1, <2>2, <2>3
<1>10. ASSUME NEW key \in Keys, NEW threads
       PROVE  Cardinality(At(report', key, threads)) =
                Cardinality(At(report, key, threads))
                  + (IF threads = ActiveThreads THEN Occurrences(key) ELSE 0)
  <2>1. Cardinality(At(report', key, threads)) =
          Cardinality(At(report, key, threads)) + Cardinality(At(block, key, threads))
    BY <1>4, <1>5, <1>6, AtTogether
  <2>2. Cardinality(At(block, key, threads)) =
          Cardinality(At(scores, key, threads))
            + (IF Key(last) = key /\ last.threads = threads THEN 1 ELSE 0)
    BY <1>4, AtOneMore DEF block
  <2>3. Key(last) = <<"Combined", 0>> /\ last.threads = ActiveThreads
    BY <1>3 DEF last
  <2>4. CASE key = <<"Combined", 0>>
    <3>1. Occurrences(key) = 1 /\ key \notin BenchmarkKeys
      BY <2>4, KeysTyped DEF Occurrences, ControlInv
    <3>2. Cardinality(At(scores, key, threads)) = 0
      BY <1>2, <3>1
    <3>3. Cardinality(At(block, key, threads)) =
            IF threads = ActiveThreads THEN Occurrences(key) ELSE 0
      BY <2>2, <2>3, <2>4, <3>1, <3>2
    <3> QED
      BY <2>1, <3>3
  <2>5. CASE key # <<"Combined", 0>>
    <3>1. key \in BenchmarkKeys
      BY <2>5 DEF Keys
    <3>2. Occurrences(key) = Cardinality(Listed(key)) /\ Cardinality(Listed(key)) \in Nat
      BY <3>1, KeysTyped DEF Occurrences, ControlInv
    <3>3. Cardinality(At(scores, key, threads)) =
            IF threads = ActiveThreads THEN Occurrences(key) ELSE 0
      BY <1>2, <3>1, <3>2
    <3>4. Cardinality(At(block, key, threads)) =
            IF threads = ActiveThreads THEN Occurrences(key) ELSE 0
      BY <2>2, <2>3, <2>5, <3>2, <3>3
    <3> QED
      BY <2>1, <3>4
  <2> QED
    BY <2>4, <2>5
<1> QED
  BY <1>5, <1>7, <1>8, <1>9, <1>10 DEF block, last

LEMMA ReportGrows ==
  ASSUME ControlInv, ScoresInv, ReportInv, EndSuite
  PROVE  ReportInv'
<1>1. /\ call' = call /\ Turn /\ pc = "benchmark" /\ call.benchmarks # <<>>
      /\ phases' = Append(phases, ActiveThreads)
  BY DEF EndSuite, ActiveThreads, ControlInv, InSuite
<1>2. /\ UNCHANGED <<Phases, Keys, Stride>>
      /\ \A key : Occurrences(key)' = Occurrences(key)
  BY <1>1, SameCall
<1>3. Len(Phases) \in {1, 2} /\ ActiveThreads \in {1, call.threads}
      /\ phase \in 1 .. Len(Phases) /\ (Len(Phases) = 1 => ActiveThreads = Phases[1])
  BY PhasesTyped DEF ControlInv, ActiveThreads
<1>4. /\ phases \in Seq({1, call.threads}) /\ Len(phases) \in Nat
      /\ phases' \in Seq({1, call.threads}) /\ Len(phases') = Len(phases) + 1
  BY <1>1, <1>3, AppendProperties, LenProperties DEF ReportInv
<1>5. /\ Length \in Nat /\ Stride = Length + 1 /\ Stride \in Nat
      /\ Len(report) \in Nat /\ DOMAIN report = 1 .. Len(report)
  BY LengthTyped, EntriesTyped DEF ControlInv, Stride, ReportInv
<1>6. Len(phases') = (repeat' - 1) * Len(Phases) + (phase' - 1)
  <2>1. Len(phases) = (repeat - 1) * Len(Phases) + (phase - 1)
    BY DEF ReportInv
  <2>2. repeat \in Int
    BY CallTyped DEF ControlInv
  <2>3. \/ phase < Len(Phases) /\ phase' = phase + 1 /\ repeat' = repeat
        \/ phase = Len(Phases) /\ phase' = 1 /\ repeat' = repeat + 1
    BY <1>1, <1>3 DEF Turn
  <2>4. CASE Len(Phases) = 1
    BY <1>3, <1>4, <2>1, <2>2, <2>3, <2>4
  <2>5. CASE Len(Phases) = 2
    BY <1>3, <1>4, <2>1, <2>2, <2>3, <2>5
  <2> QED
    BY <1>3, <2>4, <2>5
<1>7. Len(report') = Len(phases') * Stride
  <2>1. Len(report) = Len(phases) * Stride /\ Len(report') = Len(report) + Stride
    BY SuiteAdds DEF ReportInv
  <2>2. Len(phases) * Stride + Stride = (Len(phases) + 1) * Stride
    BY <1>4, <1>5, Multiples
  <2> QED
    BY <1>4, <2>1, <2>2
<1>8. ASSUME NEW i \in DOMAIN report'
      PROVE  /\ Key(report'[i]) \in Keys
             /\ report'[i].threads \in {1, call.threads}
             /\ Len(Phases) = 1 => report'[i].threads = Phases[1]
  <2>1. i \in 1 .. Len(report) + Stride
    BY SuiteAdds
  <2>2. i \in DOMAIN report \/ (i - Len(report) \in 1 .. Stride
                                  /\ i = Len(report) + (i - Len(report)))
    BY <1>5, <2>1
  <2>3. CASE i \in DOMAIN report
    <3>1. report'[i] = report[i]
      BY <1>5, <2>3, SuiteAdds
    <3> QED
      BY <2>3, <3>1 DEF ReportInv
  <2>4. CASE i - Len(report) \in 1 .. Stride /\ i = Len(report) + (i - Len(report))
    <3> DEFINE k == i - Len(report)
    <3>1. k \in 1 .. Stride /\ i = Len(report) + k
      BY <2>4
    <3> HIDE DEF k
    <3>2. /\ Key(report'[Len(report) + k]) \in Keys
          /\ report'[Len(report) + k].threads = ActiveThreads
      BY <3>1, SuiteAdds
    <3> QED
      BY <1>3, <3>1, <3>2
  <2> QED
    BY <2>2, <2>3, <2>4
<1>9. ASSUME NEW threads \in {1, call.threads}, NEW key \in Keys
      PROVE  Cardinality(At(report', key, threads)) =
               Occurrences(key) * Cardinality(Ran(phases', threads))
  <2> DEFINE before == Cardinality(Ran(phases, threads))
             after  == Cardinality(Ran(phases', threads))
             times  == Occurrences(key)
  <2>1. before \in Nat /\ after = before + (IF ActiveThreads = threads THEN 1 ELSE 0)
    <3> DEFINE S == {1, call.threads}
    <3>1. phases \in Seq(S) /\ ActiveThreads \in S
      BY <1>3, <1>4
    <3> HIDE DEF S
    <3>2. /\ Cardinality(Ran(phases, threads)) \in Nat
          /\ Cardinality(Ran(Append(phases, ActiveThreads), threads)) =
               Cardinality(Ran(phases, threads)) + (IF ActiveThreads = threads THEN 1 ELSE 0)
      BY <3>1, OnePhaseMore
    <3> QED
      BY <1>1, <3>2
  <2>2. times \in Nat
    BY KeysTyped DEF Keys, Occurrences, ControlInv
  <2>3. /\ Cardinality(At(report, key, threads)) = times * before
        /\ Cardinality(At(report', key, threads)) =
             Cardinality(At(report, key, threads))
               + (IF threads = ActiveThreads THEN times ELSE 0)
    BY SuiteAdds DEF ReportInv
  <2> HIDE DEF before, after, times
  <2>4. times * before + times = times * (before + 1) /\ times * before \in Nat
    BY <2>1, <2>2
  <2>5. Cardinality(At(report', key, threads)) = times * after
    BY <2>1, <2>3, <2>4
  <2> QED
    BY <2>5 DEF times, after
<1>10. IsSeq(report')
  BY SuiteAdds
<1>11. /\ Len(phases') = (repeat' - 1) * Len(Phases') + (phase' - 1)
       /\ Len(report') = Len(phases') * Stride'
       /\ \A i \in DOMAIN report' :
            /\ Key(report'[i]) \in Keys'
            /\ report'[i].threads \in {1, call'.threads}
            /\ Len(Phases') = 1 => report'[i].threads = Phases'[1]
       /\ \A threads \in {1, call'.threads}, key \in Keys' :
            Cardinality(At(report', key, threads)) =
              Occurrences(key)' * Cardinality(Ran(phases', threads))
  BY <1>1, <1>2, <1>6, <1>7, <1>8, <1>9
<1> QED
  BY <1>1, <1>4, <1>10, <1>11 DEF ReportInv

LEMMA ReportStep ==
  ControlInv /\ ScoresInv /\ ReportInv /\ [Next]_vars => ReportInv'
<1> SUFFICES ASSUME ControlInv, ScoresInv, ReportInv, [Next]_vars PROVE ReportInv'
  OBVIOUS
<1>1. CASE ~EndSuite
  <2>1. UNCHANGED <<call, repeat, phase, report, phases>>
    <3>1. CASE BeginSuite
      BY <3>1 DEF BeginSuite
    <3> QED
      BY <1>1, <3>1, OtherSteps
  <2>2. /\ UNCHANGED <<Phases, Keys, Stride>>
        /\ \A key : Occurrences(key)' = Occurrences(key)
    BY <2>1, SameCall
  <2> QED
    BY <2>1, <2>2 DEF ReportInv
<1> QED
  BY <1>1, ReportGrows

-----------------------------------------------------------------------------
(* The suites in the report.                                               *)

LEMMA SameBlock ==
  ASSUME NEW r, IsSeq(r), NEW q, \A i \in 1 .. Len(r) : q[i] = r[i],
         NEW a \in Nat \ {0}, NEW b \in Int, b <= Len(r)
  PROVE  SubSeq(q, a, b) = SubSeq(r, a, b)
<1>1. Len(r) \in Nat /\ DOMAIN r = 1 .. Len(r)
  BY EntriesTyped
<1> DEFINE S == ToSet(r)
<1>2. \A i \in a .. b : r[i] \in S /\ q[i] \in S /\ q[i] = r[i]
  <2>1. \A i \in a .. b : i \in 1 .. Len(r)
    BY <1>1
  <2>2. \A i \in 1 .. Len(r) : r[i] \in S
    BY <1>1 DEF ToSet
  <2> QED
    BY <2>1, <2>2
<1> HIDE DEF S
<1>3. /\ SubSeq(r, a, b) \in Seq(S)
      /\ Len(SubSeq(r, a, b)) = IF a <= b THEN b - a + 1 ELSE 0
      /\ \A i \in 1 .. b - a + 1 : SubSeq(r, a, b)[i] = r[a + i - 1]
  BY <1>2, SubSeqProperties
<1>4. /\ SubSeq(q, a, b) \in Seq(S)
      /\ Len(SubSeq(q, a, b)) = IF a <= b THEN b - a + 1 ELSE 0
      /\ \A i \in 1 .. b - a + 1 : SubSeq(q, a, b)[i] = q[a + i - 1]
  BY <1>2, SubSeqProperties
<1>5. \A i \in 1 .. Len(SubSeq(q, a, b)) : SubSeq(q, a, b)[i] = SubSeq(r, a, b)[i]
  <2> SUFFICES ASSUME NEW i \in 1 .. Len(SubSeq(q, a, b))
               PROVE  SubSeq(q, a, b)[i] = SubSeq(r, a, b)[i]
    OBVIOUS
  <2>1. i \in 1 .. b - a + 1
    BY <1>4
  <2>2. a + i - 1 \in a .. b
    BY <2>1
  <2> QED
    BY <1>2, <1>3, <1>4, <2>1, <2>2
<1> QED
  BY <1>3, <1>4, <1>5, SeqEqual

LEMMA LastBlock ==
  ASSUME NEW s, IsSeq(s), NEW q, NEW n \in Nat, \A i \in 1 .. Len(s) : q[n + i] = s[i]
  PROVE  SubSeq(q, n + 1, n + Len(s)) = s
<1>1. Len(s) \in Nat /\ DOMAIN s = 1 .. Len(s)
  BY EntriesTyped
<1> DEFINE S == ToSet(s)
           l == Len(s)
           a == n + 1
           b == n + l
<1>2. \A i \in 1 .. l : s[i] \in S /\ q[n + i] \in S
  BY <1>1 DEF ToSet
<1>3. s \in Seq(S)
  BY DEF IsSeq
<1>4. l \in Nat /\ a \in Int /\ b \in Int /\ b - a + 1 = l /\ (a <= b <=> l # 0)
  BY <1>1
<1>5. \A i \in a .. b : q[i] \in S
  <2> SUFFICES ASSUME NEW i \in a .. b PROVE q[i] \in S
    OBVIOUS
  <2>1. i - n \in 1 .. l /\ n + (i - n) = i
    BY <1>4
  <2> QED
    BY <1>2, <2>1
<1> HIDE DEF S
<1>6. /\ SubSeq(q, a, b) \in Seq(S)
      /\ Len(SubSeq(q, a, b)) = IF a <= b THEN b - a + 1 ELSE 0
      /\ \A i \in 1 .. b - a + 1 : SubSeq(q, a, b)[i] = q[a + i - 1]
  <2> HIDE DEF a, b
  <2> QED
    BY <1>4, <1>5, SubSeqProperties
<1>7. Len(SubSeq(q, a, b)) = l
  BY <1>4, <1>6
<1>8. \A i \in 1 .. l : SubSeq(q, a, b)[i] = s[i]
  <2> SUFFICES ASSUME NEW i \in 1 .. l PROVE SubSeq(q, a, b)[i] = s[i]
    OBVIOUS
  <2>1. SubSeq(q, a, b)[i] = q[a + i - 1]
    BY <1>4, <1>6
  <2>2. a + i - 1 = n + i
    BY <1>4
  <2> QED
    BY <2>1, <2>2
<1> QED
  <2> HIDE DEF a, b
  <2>1. SubSeq(q, a, b) = s
    BY <1>3, <1>6, <1>7, <1>8, SeqEqual
  <2> QED
    BY <2>1 DEF a, b

\* The places of the j-th suite of n, of d entries each.
LEMMA PlacesOfSuite ==
  ASSUME NEW n \in Nat, NEW d \in Nat \ {0}, NEW j \in 1 .. n
  PROVE  /\ (j - 1) * d + 1 \in Nat \ {0}
         /\ j * d \in 1 .. n * d
         /\ j * d - 1 \in Nat
<1>1. (j - 1) * d \in Nat /\ (n - j) * d \in Nat
  BY Multiples
<1>2. j * d = (j - 1) * d + d
  BY Multiples
<1>3. n * d = (n - j) * d + j * d
  OBVIOUS
<1>4. j * d \in Nat /\ n * d \in Nat
  BY Multiples
<1> QED
  BY <1>1, <1>2, <1>3, <1>4

LEMMA SameScore ==
  ASSUME UNCHANGED call, NEW j
  PROVE  FinalScore(SuiteWeights, SuiteBaselines, Scores(j))' =
           FinalScore(SuiteWeights, SuiteBaselines, Scores(j)')
<1>1. UNCHANGED <<SuiteWeights, SuiteBaselines>>
  BY SameCall
<1> QED
  BY <1>1 DEF FinalScore, Samples

LEMMA SuitesInit == Init => SuitesInv
<1> SUFFICES ASSUME Init PROVE SuitesInv
  OBVIOUS
<1>1. DOMAIN phases = {}
  BY DEF Init
<1> QED
  BY <1>1 DEF SuitesInv

LEMMA SuitesStep ==
  ControlInv /\ ScoresInv /\ ConfigurationInv /\ ReportInv /\ SuitesInv /\ [Next]_vars
    => SuitesInv'
<1> SUFFICES ASSUME ControlInv, ScoresInv, ConfigurationInv, ReportInv, SuitesInv,
                    [Next]_vars
             PROVE  SuitesInv'
  OBVIOUS
<1>1. CASE ~EndSuite
  <2>1. UNCHANGED <<call, report, phases>>
    <3>1. CASE BeginSuite
      BY <3>1 DEF BeginSuite
    <3> QED
      BY <1>1, <3>1, OtherSteps
  <2>2. UNCHANGED <<BenchmarkKeys, Stride, SuiteWeights, SuiteBaselines>>
    BY <2>1, SameCall
  <2>3. \A j : Scores(j)' = Scores(j)
    BY <2>1, <2>2 DEF Scores
  <2>4. \A j : FinalScore(SuiteWeights, SuiteBaselines, Scores(j))' =
                 FinalScore(SuiteWeights, SuiteBaselines, Scores(j))
    BY <2>1, <2>3, SameScore
  <2> QED
    BY <2>1, <2>2, <2>3, <2>4 DEF SuitesInv
<1>2. CASE EndSuite
  <2>1. /\ call' = call /\ phases' = Append(phases, ActiveThreads)
        /\ pc = "benchmark" /\ pos > Len(call.benchmarks)
    BY <1>2 DEF EndSuite, ActiveThreads
  <2>2. UNCHANGED <<BenchmarkKeys, Stride, SuiteWeights, SuiteBaselines>>
    BY <2>1, SameCall
  <2>3. /\ {Key(scores[i]) : i \in DOMAIN scores} = BenchmarkKeys
        /\ Len(scores) = Length /\ IsSeq(scores)
    BY <2>1, SuiteComplete DEF ScoresInv
  <2>4. weights = SuiteWeights /\ baselines = SuiteBaselines
    BY <2>1 DEF ConfigurationInv, InSuite
  <2> DEFINE n == Len(phases)
  <2>5. /\ n \in Nat /\ DOMAIN phases = 1 .. n /\ DOMAIN phases' = 1 .. n + 1
    <3>1. ActiveThreads \in {1, call.threads}
      BY PhasesTyped DEF ControlInv, ActiveThreads
    <3> QED
      BY <2>1, <3>1, AppendProperties, LenProperties DEF ReportInv
  <2>6. /\ Length \in Nat /\ Stride = Length + 1 /\ Stride \in Nat \ {0}
        /\ IsSeq(report) /\ Len(report) = n * Stride /\ Len(report) \in Nat
    BY LengthTyped, EntriesTyped DEF ControlInv, Stride, ReportInv
  <2> HIDE DEF n
  <2>7. /\ \A i \in 1 .. Len(report) : report'[i] = report[i]
        /\ \A i \in 1 .. Length : report'[Len(report) + i] = scores[i]
        /\ report'[Len(report) + Stride] = Combined
    BY <1>2, SuiteAdds
  <2> DEFINE Block(j) == SubSeq(report', (j - 1) * Stride + 1, j * Stride - 1)
  <2>8. ASSUME NEW j \in 1 .. n
        PROVE  /\ {Key(Block(j)[i]) : i \in DOMAIN Block(j)} = BenchmarkKeys
               /\ report'[j * Stride].score =
                    FinalScore(SuiteWeights, SuiteBaselines, Block(j))
    <3>1. /\ (j - 1) * Stride + 1 \in Nat \ {0}
          /\ j * Stride \in 1 .. Len(report)
          /\ j * Stride - 1 \in Int /\ j * Stride - 1 <= Len(report)
      BY <2>5, <2>6, PlacesOfSuite
    <3>2. Block(j) = Scores(j)
      BY <2>6, <2>7, <3>1, SameBlock DEF Scores
    <3>3. report'[j * Stride] = report[j * Stride]
      BY <2>7, <3>1
    <3> QED
      BY <2>5, <3>2, <3>3 DEF SuitesInv
  <2>9. /\ {Key(Block(n + 1)[i]) : i \in DOMAIN Block(n + 1)} = BenchmarkKeys
        /\ report'[(n + 1) * Stride].score =
             FinalScore(SuiteWeights, SuiteBaselines, Block(n + 1))
    <3>1. /\ (n + 1) * Stride = Len(report) + Stride
          /\ ((n + 1) - 1) * Stride + 1 = Len(report) + 1
          /\ (n + 1) * Stride - 1 = Len(report) + Length
      <4>1. (n + 1) * Stride = n * Stride + Stride
        BY <2>5, <2>6, Multiples
      <4>2. (n + 1) - 1 = n
        BY <2>5
      <4> QED
        BY <2>6, <4>1, <4>2
    <3>2. Block(n + 1) = scores
      <4> DEFINE m == Len(report)
      <4>1. m \in Nat /\ \A i \in 1 .. Len(scores) : report'[m + i] = scores[i]
        BY <2>3, <2>6, <2>7
      <4> HIDE DEF m
      <4>2. SubSeq(report', m + 1, m + Len(scores)) = scores
        BY <2>3, <4>1, LastBlock
      <4>3. SubSeq(report', Len(report) + 1, Len(report) + Length) = scores
        BY <2>3, <4>2 DEF m
      <4> QED
        BY <3>1, <4>3
    <3>3. report'[(n + 1) * Stride].score = FinalScore(weights, baselines, scores)
      BY <2>7, <3>1 DEF Combined
    <3> QED
      BY <2>3, <2>4, <3>2, <3>3
  <2>10. \A j \in DOMAIN phases' :
           /\ {Key(Block(j)[i]) : i \in DOMAIN Block(j)} = BenchmarkKeys
           /\ report'[j * Stride].score =
                FinalScore(SuiteWeights, SuiteBaselines, Block(j))
    <3>1. \A j \in DOMAIN phases' : j \in 1 .. n \/ j = n + 1
      BY <2>5
    <3> HIDE DEF Block
    <3> QED
      BY <2>8, <2>9, <3>1
  <2>11. \A j : /\ Scores(j)' = Block(j)
                /\ FinalScore(SuiteWeights, SuiteBaselines, Scores(j))' =
                     FinalScore(SuiteWeights, SuiteBaselines, Block(j))
    <3>1. \A j : Scores(j)' = Block(j)
      BY <2>2 DEF Scores
    <3> QED
      BY <2>1, <3>1, SameScore
  <2> HIDE DEF Block
  <2> QED
    BY <2>2, <2>10, <2>11 DEF SuitesInv
<1> QED
  BY <1>1, <1>2

-----------------------------------------------------------------------------
(* The theorems.                                                           *)

SuiteInv == ControlInv /\ ScoresInv /\ ConfigurationInv /\ ReportInv /\ SuitesInv

LEMMA SuiteInvInit == Init => SuiteInv
BY ControlInit, ScoresInit, ConfigurationInit, ReportInit, SuitesInit DEF SuiteInv

LEMMA SuiteInvStep == SuiteInv /\ [Next]_vars => SuiteInv'
BY ControlStep, ScoresStep, ConfigurationStep, ReportStep, SuitesStep DEF SuiteInv

LEMMA SuiteInvariance == Spec => []SuiteInv
BY SuiteInvInit, SuiteInvStep, PTL DEF Spec

\* For whatever list of benchmarks, mode, options and number of repetitions, and
\* wherever it fails: the report holds each benchmark of the list and each size of
\* the sweep as often as it is listed, with the threads of each suite that ended,
\* and one combined score for it; a call that returns has run all suites.
THEOREM ReportWhole == Spec => []ReportIsWhole
<1>1. ASSUME SuiteInv PROVE ReportIsWhole
  <2> USE <1>1 DEF SuiteInv
  <2>1. \A threads \in {1, call.threads}, key \in Keys :
          Cardinality(At(report, key, threads)) =
            Occurrences(key) * Cardinality({j \in DOMAIN phases : phases[j] = threads})
    BY DEF ReportInv, Ran
  <2>2. \A i \in DOMAIN report : Key(report[i]) \in Keys
    BY DEF ReportInv
  <2>3. ASSUME pc = "done", call.benchmarks # <<>>
        PROVE  Len(phases) = call.repeats * Len(Phases)
    <3>1. repeat = call.repeats + 1 /\ phase = 1
      BY <2>3 DEF ControlInv
    <3>2. call.repeats \in Nat /\ Len(Phases) \in {1, 2}
      BY CallTyped, PhasesTyped DEF ControlInv
    <3>3. Len(phases) = (repeat - 1) * Len(Phases) + (phase - 1)
      BY DEF ReportInv
    <3>4. repeat - 1 = call.repeats /\ phase - 1 = 0
      BY <3>1, <3>2
    <3>5. call.repeats * Len(Phases) \in Nat
      BY <3>2, Multiples
    <3> QED
      BY <3>3, <3>4, <3>5
  <2> QED
    BY <2>1, <2>2, <2>3 DEF ReportIsWhole
<1> QED
  BY <1>1, SuiteInvariance, PTL

\* What compare_with_previous takes two reports to be comparable by, is true of all
\* scores of a finished report of one mode: the threads, the workloads, and weights
\* and baselines that give each combined score back from the scores before it.
THEOREM ConfigurationRight == Spec => []ConfigurationDescribesScores
<1>1. ASSUME SuiteInv PROVE ConfigurationDescribesScores
  <2> USE <1>1 DEF SuiteInv
  <2> SUFFICES ASSUME pc = "done", phases # <<>>, Len(Phases) = 1
               PROVE  ConfigurationDescribesScores
    BY DEF ConfigurationDescribesScores
  <2>1. /\ configuration.threads = Phases[1]
        /\ configuration.weights = SuiteWeights
        /\ configuration.baselines = SuiteBaselines
        /\ configuration.workloads = BenchmarkKeys
    BY DEF ConfigurationInv
  <2> DEFINE suite == Len(report) \div Len(phases)
             Block(j) == SubSeq(report, (j - 1) * suite + 1, j * suite - 1)
  <2>2. suite = Stride
    <3>1. Len(phases) \in Nat \ {0} /\ Len(report) = Len(phases) * Stride /\ Stride \in Nat
      BY LenProperties, EmptySeq, LengthTyped DEF ReportInv, ControlInv, Stride
    <3>2. \A n \in Nat \ {0}, d \in Nat : (n * d) \div n = d
      OBVIOUS
    <3> QED
      BY <3>1, <3>2
  <2> HIDE DEF suite
  <2>3. \A j : Block(j) = Scores(j)
    BY <2>2 DEF Scores
  <2>4. \A i \in DOMAIN report : report[i].threads = configuration.threads
    BY <2>1 DEF ReportInv
  <2>5. \A j \in DOMAIN phases :
          /\ {Key(Block(j)[i]) : i \in DOMAIN Block(j)} = configuration.workloads
          /\ report[j * suite].score =
               FinalScore(configuration.weights, configuration.baselines, Block(j))
    BY <2>1, <2>2, <2>3 DEF SuitesInv
  <2> QED
    BY <2>4, <2>5 DEF ConfigurationDescribesScores, suite
<1> QED
  BY <1>1, SuiteInvariance, PTL

\* Every entry is of a benchmark, of a size of the sweep or combined, with the threads
\* of a phase of the call, and the coordinator's counters stay in their ranges.
THEOREM SuiteTypeCorrect == Spec => []TypeOK
<1>1. ASSUME SuiteInv PROVE TypeOK
  <2> USE <1>1 DEF SuiteInv
  <2>1. \A key \in Keys :
          key \in ((Dispatched \cup {"Combined"}) \X {0}) \cup ({"cache_sweep"} \X SweepSizes)
    <3> SUFFICES ASSUME NEW key \in BenchmarkKeys
                 PROVE  key \in ((Dispatched \cup {"Combined"}) \X {0})
                                  \cup ({"cache_sweep"} \X SweepSizes)
      BY DEF Keys
    <3> QED
      BY KeysTyped DEF ControlInv, Points
  <2>2. \A i \in DOMAIN report : EntryTypeOK(report[i])
    BY <2>1 DEF ReportInv, EntryTypeOK
  <2>3. \A i \in DOMAIN scores : EntryTypeOK(scores[i]) /\ scores[i].name # "Combined"
    <3> SUFFICES ASSUME NEW i \in DOMAIN scores
                 PROVE  EntryTypeOK(scores[i]) /\ scores[i].name # "Combined"
      OBVIOUS
    <3>1. /\ Key(scores[i]) \in BenchmarkKeys
          /\ scores[i].threads \in {1, call.threads}
      BY DEF ScoresInv
    <3>2. Key(scores[i])[1] # "Combined"
      BY <3>1, KeysTyped DEF ControlInv
    <3> QED
      BY <2>1, <3>1, <3>2 DEF EntryTypeOK, Keys, Key
  <2>4. repeat \in 1 .. call.repeats + (IF pc = "done" THEN 1 ELSE 0)
    <3>1. call.repeats \in Nat
      BY CallTyped DEF ControlInv
    <3> QED
      BY <3>1 DEF ControlInv
  <2>5. DOMAIN weights = DOMAIN SuiteWeights \/ DOMAIN weights = {}
    BY DEF ConfigurationInv
  <2> QED
    BY <2>2, <2>3, <2>4, <2>5 DEF TypeOK, ControlInv
<1> QED
  BY <1>1, SuiteInvariance, PTL

-----------------------------------------------------------------------------
(* The statistics of n samples.                                            *)

AtMost(s, x)  == {i \in DOMAIN s : s[i] <= x}
LessThan(s, x) == {i \in DOMAIN s : s[i] < x}

LEMMA SamplesCounted ==
  ASSUME NEW n \in Nat, NEW s \in [1 .. n -> Nat], NEW I \in SUBSET (1 .. n)
  PROVE  /\ IsFiniteSet(I) /\ Cardinality(I) \in Nat /\ Cardinality(I) <= n
         /\ \A J \in SUBSET I : IsFiniteSet(J) /\ Cardinality(J) <= Cardinality(I)
<1>1. IsFiniteSet(1 .. n) /\ Cardinality(1 .. n) = n
  BY FS_Interval
<1>2. IsFiniteSet(I) /\ Cardinality(I) <= n
  <2>1. IsFiniteSet(I) /\ Cardinality(I) <= Cardinality(1 .. n)
    BY <1>1, FS_Subset
  <2> QED
    BY <1>1, <2>1
<1>3. \A J \in SUBSET I : IsFiniteSet(J) /\ Cardinality(J) <= Cardinality(I)
  BY <1>2, FS_Subset
<1> QED
  BY <1>2, <1>3, FS_CardinalityType

\* Of some samples one is the greatest: the one that most samples are at most.
LEMMA GreatestSample ==
  ASSUME NEW n \in Nat, NEW s \in [1 .. n -> Nat], NEW I \in SUBSET (1 .. n), I # {}
  PROVE  \E i \in I : \A j \in I : s[j] <= s[i]
<1> DEFINE count(i) == Cardinality(AtMost(s, s[i]))
           T == {m \in Nat : \E i \in I : m = n - count(i)}
<1>1. \A i \in I : count(i) \in Nat /\ count(i) <= n /\ s[i] \in Nat
  <2> SUFFICES ASSUME NEW i \in I PROVE count(i) \in Nat /\ count(i) <= n /\ s[i] \in Nat
    OBVIOUS
  <2>1. AtMost(s, s[i]) \in SUBSET (1 .. n)
    BY DEF AtMost
  <2> QED
    BY <2>1, SamplesCounted
<1>2. T # {} /\ T \in SUBSET Nat
  <2>1. PICK i \in I : TRUE
    OBVIOUS
  <2>2. n - count(i) \in Nat
    BY <1>1
  <2> QED
    BY <2>2
<1>3. PICK m \in T : \A k \in T : m <= k
  <2> HIDE DEF T
  <2> QED
    BY <1>2, LeastElement
<1>4. PICK i \in I : m = n - count(i)
  BY <1>3
<1>5. ASSUME NEW j \in I PROVE s[j] <= s[i]
  <2> SUFFICES ASSUME s[j] > s[i] PROVE FALSE
    BY <1>1
  <2>1. AtMost(s, s[i]) \in SUBSET AtMost(s, s[j])
    <3>1. \A k \in 1 .. n : s[k] <= s[i] => s[k] <= s[j]
      <4>1. \A k \in 1 .. n : s[k] \in Nat
        OBVIOUS
      <4> QED
        BY <1>1, <4>1
    <3> QED
      BY <3>1 DEF AtMost
  <2>2. j \in AtMost(s, s[j]) /\ j \notin AtMost(s, s[i])
    BY <1>1 DEF AtMost
  <2>3. /\ IsFiniteSet(AtMost(s, s[i])) /\ IsFiniteSet(AtMost(s, s[j]))
    <3>1. AtMost(s, s[i]) \in SUBSET (1 .. n) /\ AtMost(s, s[j]) \in SUBSET (1 .. n)
      BY DEF AtMost
    <3> QED
      BY <3>1, SamplesCounted
  <2>4. count(i) < count(j)
    <3>1. count(i) <= count(j) /\ (count(i) = count(j) => AtMost(s, s[j]) = AtMost(s, s[i]))
      BY <2>1, <2>3, FS_Subset
    <3>2. count(i) # count(j)
      BY <2>2, <3>1
    <3> HIDE DEF count
    <3> QED
      BY <1>1, <3>1, <3>2
  <2>5. n - count(j) \in Nat
    BY <1>1
  <2>6. n - count(j) \in T
    BY <2>5
  <2>7. n - count(i) <= n - count(j)
    <3> HIDE DEF T, count
    <3> QED
      BY <1>3, <1>4, <2>6
  <2> HIDE DEF T, count
  <2> QED
    BY <1>1, <2>4, <2>7
<1> QED
  BY <1>5

\* What Sorted chooses is there: the least sample that k samples are at most.
LEMMA SortedAt ==
  ASSUME NEW n \in Nat, NEW s \in [1 .. n -> Nat], NEW k \in 1 .. n
  PROVE  /\ Sorted(s)[k] \in Nat
         /\ \E i \in 1 .. n : Sorted(s)[k] = s[i]
         /\ Cardinality(LessThan(s, Sorted(s)[k])) < k
         /\ Cardinality(AtMost(s, Sorted(s)[k])) >= k
<1> DEFINE T == {x \in Nat : (\E i \in 1 .. n : x = s[i]) /\ Cardinality(AtMost(s, x)) >= k}
<1>0. \A i \in 1 .. n : s[i] \in Nat
  OBVIOUS
<1>1. T # {}
  <2>1. PICK i \in 1 .. n : \A j \in 1 .. n : s[j] <= s[i]
    <3>1. 1 .. n # {}
      OBVIOUS
    <3>2. 1 .. n \in SUBSET (1 .. n)
      OBVIOUS
    <3> QED
      BY <3>1, <3>2, GreatestSample
  <2>2. AtMost(s, s[i]) = 1 .. n
    BY <2>1 DEF AtMost
  <2>3. Cardinality(1 .. n) = n
    BY FS_Interval
  <2>4. s[i] \in T
    BY <1>0, <2>2, <2>3
  <2> QED
    BY <2>4
<1>2. PICK x \in T : \A y \in T : x <= y
  <2>1. T \in SUBSET Nat
    OBVIOUS
  <2> HIDE DEF T
  <2> QED
    BY <1>1, <2>1, LeastElement
<1>3. x \in Nat /\ (\E i \in 1 .. n : x = s[i]) /\ Cardinality(AtMost(s, x)) >= k
  BY <1>2
<1>4. LessThan(s, x) \in SUBSET (1 .. n)
  BY DEF LessThan
<1>5. Cardinality(LessThan(s, x)) \in Nat
  BY <1>4, SamplesCounted
<1>6. Cardinality(LessThan(s, x)) < k
  <2> SUFFICES ASSUME Cardinality(LessThan(s, x)) >= k PROVE FALSE
    BY <1>5
  <2>1. LessThan(s, x) # {}
    BY FS_EmptySet
  <2>2. PICK i \in LessThan(s, x) : \A j \in LessThan(s, x) : s[j] <= s[i]
    BY <1>4, <2>1, GreatestSample
  <2>3. i \in 1 .. n /\ s[i] \in Nat /\ s[i] < x
    BY <1>0, <2>2 DEF LessThan
  <2>4. AtMost(s, s[i]) = LessThan(s, x)
    <3>1. \A j \in 1 .. n : s[j] <= s[i] <=> s[j] < x
      <4> SUFFICES ASSUME NEW j \in 1 .. n PROVE s[j] <= s[i] <=> s[j] < x
        OBVIOUS
      <4>1. s[j] \in Nat
        BY <1>0
      <4>2. s[j] < x => s[j] <= s[i]
        BY <2>2 DEF LessThan
      <4> QED
        BY <1>3, <2>3, <4>1, <4>2
    <3> QED
      BY <3>1 DEF AtMost, LessThan
  <2>5. s[i] \in T
    BY <2>3, <2>4
  <2>6. x <= s[i]
    <3> HIDE DEF T
    <3> QED
      BY <1>2, <2>5
  <2> QED
    BY <1>3, <2>3, <2>6
<1> DEFINE Fits(y) ==
             /\ Cardinality({i \in DOMAIN s : s[i] < y}) < k
             /\ Cardinality({i \in DOMAIN s : s[i] <= y}) >= k
           chosen == CHOOSE y \in ToSet(s) : Fits(y)
<1>7. x \in ToSet(s) /\ Fits(x)
  BY <1>3, <1>6 DEF ToSet, AtMost, LessThan
<1>8. chosen \in ToSet(s) /\ Fits(chosen)
  <2> HIDE DEF Fits
  <2> QED
    BY <1>7
<1>9. Sorted(s)[k] = chosen
  BY DEF Sorted
<1> HIDE DEF chosen
<1> QED
  BY <1>8, <1>9 DEF ToSet, AtMost, LessThan

LEMMA SortedTyped ==
  ASSUME NEW n \in Nat \ {0}, NEW s \in [1 .. n -> Nat]
  PROVE  /\ Sorted(s) \in [1 .. n -> Nat]
         /\ \A j, k \in 1 .. n : j <= k => Sorted(s)[j] <= Sorted(s)[k]
<1>1. Sorted(s) \in [1 .. n -> Nat]
  <2>1. \A k \in 1 .. n : Sorted(s)[k] \in Nat
    BY SortedAt
  <2> DEFINE Chosen(k) ==
               CHOOSE x \in ToSet(s) :
                 /\ Cardinality({i \in DOMAIN s : s[i] < x}) < k
                 /\ Cardinality({i \in DOMAIN s : s[i] <= x}) >= k
  <2>2. Sorted(s) = [k \in DOMAIN s |-> Chosen(k)] /\ DOMAIN s = 1 .. n
    BY DEF Sorted
  <2> HIDE DEF Chosen
  <2> QED
    BY <2>1, <2>2
<1>2. ASSUME NEW j \in 1 .. n, NEW k \in 1 .. n, j <= k
      PROVE  Sorted(s)[j] <= Sorted(s)[k]
  <2> DEFINE x == Sorted(s)[j]
             y == Sorted(s)[k]
  <2>1. /\ x \in Nat /\ Cardinality(LessThan(s, x)) < j
        /\ y \in Nat /\ Cardinality(AtMost(s, y)) >= k
    BY SortedAt
  <2> HIDE DEF x, y
  <2> SUFFICES ASSUME y < x PROVE FALSE
    BY <2>1 DEF x, y
  <2>2. AtMost(s, y) \in SUBSET LessThan(s, x)
    <3>1. \A i \in 1 .. n : s[i] <= y => s[i] < x
      <4>1. \A i \in 1 .. n : s[i] \in Nat
        OBVIOUS
      <4> QED
        BY <2>1, <4>1
    <3> QED
      BY <3>1 DEF AtMost, LessThan
  <2>3. LessThan(s, x) \in SUBSET (1 .. n)
    BY DEF LessThan
  <2>4. Cardinality(AtMost(s, y)) <= Cardinality(LessThan(s, x))
        /\ Cardinality(LessThan(s, x)) \in Nat
    BY <2>2, <2>3, SamplesCounted
  <2>5. AtMost(s, y) \in SUBSET (1 .. n)
    BY DEF AtMost
  <2>6. Cardinality(AtMost(s, y)) \in Nat
    BY <2>5, SamplesCounted
  <2> QED
    BY <1>2, <2>1, <2>4, <2>6
<1> QED
  BY <1>1, <1>2

\* A function on 1 .. n is a sequence of length n.
LEMMA SamplesSeq ==
  ASSUME NEW n \in Nat, NEW s \in [1 .. n -> Nat]
  PROVE  s \in Seq(Nat) /\ Len(s) = n /\ DOMAIN s = 1 .. n
<1>1. s \in Seq(Nat)
  BY SeqDef
<1>2. Len(s) \in Nat /\ DOMAIN s = 1 .. Len(s)
  BY <1>1, LenProperties
<1>3. DOMAIN s = 1 .. n
  OBVIOUS
<1>4. Len(s) = n
  <2>1. \A m \in Nat : Cardinality(1 .. m) = m
    BY FS_Interval
  <2>2. 1 .. n = 1 .. Len(s)
    BY <1>2, <1>3
  <2>3. Cardinality(1 .. n) = n /\ Cardinality(1 .. Len(s)) = Len(s)
    BY <1>2, <2>1
  <2> QED
    BY <2>2, <2>3
<1> QED
  BY <1>1, <1>3, <1>4

\* The places of the two samples that a percentile lies between.
Position(n, percent) == percent * (n - 1)
Lower(n, percent) == Position(n, percent) \div 100 + 1
Upper(n, percent) == (Position(n, percent) + 99) \div 100 + 1

LEMMA PositionTyped ==
  ASSUME NEW n \in Nat \ {0}, NEW p \in 0 .. 100, NEW q \in p .. 100
  PROVE  /\ Position(n, p) \in Nat /\ Position(n, p) <= 100 * (n - 1)
         /\ Position(n, p) <= Position(n, q)
         /\ (100 - p) * (n - 1) = 100 * (n - 1) - Position(n, p)
<1>1. \A a, b \in Nat : a * b \in Nat
  OBVIOUS
<1>2. n - 1 \in Nat /\ p \in Nat /\ 100 - p \in Nat /\ q - p \in Nat /\ q \in Nat
  OBVIOUS
<1>3. /\ p * (n - 1) \in Nat /\ (100 - p) * (n - 1) \in Nat /\ (q - p) * (n - 1) \in Nat
      /\ q * (n - 1) \in Nat
  BY <1>1, <1>2
<1>4. /\ (100 - p) * (n - 1) = 100 * (n - 1) - p * (n - 1)
      /\ (q - p) * (n - 1) = q * (n - 1) - p * (n - 1)
  BY <1>2
<1>5. /\ p * (n - 1) <= 100 * (n - 1)
      /\ p * (n - 1) <= q * (n - 1)
  BY <1>2, <1>3, <1>4
<1> QED
  BY <1>3, <1>4, <1>5 DEF Position

LEMMA Neighbours ==
  ASSUME NEW n \in Nat \ {0}, NEW p \in 0 .. 100
  PROVE  /\ Lower(n, p) \in 1 .. n /\ Upper(n, p) \in 1 .. n
         /\ Upper(n, p) \in {Lower(n, p), Lower(n, p) + 1}
         /\ Position(n, p) % 100 \in 0 .. 99
         /\ Position(n, p) = 100 * (Lower(n, p) - 1) + (Position(n, p) % 100)
         /\ Upper(n, p) = Lower(n, p) <=> Position(n, p) % 100 = 0
<1> DEFINE m == Position(n, p)
<1>1. m \in Nat /\ m <= 100 * (n - 1)
  <2>1. p \in p .. 100
    OBVIOUS
  <2> QED
    BY <2>1, PositionTyped
<1> HIDE DEF m
<1>2. /\ m \div 100 + 1 \in 1 .. n /\ (m + 99) \div 100 + 1 \in 1 .. n
      /\ (m + 99) \div 100 + 1 \in {m \div 100 + 1, (m \div 100 + 1) + 1}
      /\ m % 100 \in 0 .. 99
      /\ m = 100 * ((m \div 100 + 1) - 1) + (m % 100)
      /\ (m + 99) \div 100 + 1 = m \div 100 + 1 <=> m % 100 = 0
  BY <1>1
<1> QED
  BY <1>2, SMTT(60) DEF m, Lower, Upper

\* A percentile lies between the two samples it is interpolated from.
LEMMA PercentileBetween ==
  ASSUME NEW n \in Nat \ {0}, NEW r \in [1 .. n -> Nat],
         \A j, k \in 1 .. n : j <= k => r[j] <= r[k],
         NEW p \in 0 .. 100
  PROVE  /\ Percentile(r, p) \in Nat
         /\ 100 * r[Lower(n, p)] <= Percentile(r, p)
         /\ Percentile(r, p) <= 100 * r[Upper(n, p)]
         /\ Percentile(r, p) =
              100 * r[Lower(n, p)]
                + (Position(n, p) % 100) * (r[Upper(n, p)] - r[Lower(n, p)])
<1> DEFINE l == Lower(n, p)
           u == Upper(n, p)
           w == Position(n, p) % 100
           d == r[u] - r[l]
<1>1. l \in 1 .. n /\ u \in 1 .. n /\ l <= u /\ w \in 0 .. 99 /\ (w = 0 => u = l)
  <2>1. /\ l \in 1 .. n /\ u \in {l, l + 1} /\ u \in 1 .. n /\ w \in 0 .. 99
        /\ (u = l <=> w = 0)
    BY Neighbours, ZenonT(60)
  <2> HIDE DEF l, u, w
  <2> QED
    BY <2>1, SMTT(60)
<1>2. Percentile(r, p) = 100 * r[l] + w * d
  <2>1. Len(r) = n
    BY SamplesSeq
  <2> QED
    BY <2>1 DEF Percentile, Lower, Upper, Position
<1> HIDE DEF l, u, w
<1>3. r[l] \in Nat /\ r[u] \in Nat /\ d \in Nat /\ r[u] = r[l] + d /\ (w = 0 => d = 0)
  BY <1>1
<1> HIDE DEF d
<1>4. w * d \in Nat /\ w * d <= 100 * d
  <2>1. \A a, b \in Nat : a * b \in Nat
    OBVIOUS
  <2>2. w \in Nat /\ 100 - w \in Nat /\ (100 - w) * d = 100 * d - w * d
    BY <1>1, <1>3
  <2>3. w * d \in Nat /\ (100 - w) * d \in Nat
    BY <1>3, <2>1, <2>2
  <2> QED
    BY <1>3, <2>2, <2>3
<1>5. /\ Percentile(r, p) \in Nat
      /\ 100 * r[l] <= Percentile(r, p)
      /\ Percentile(r, p) <= 100 * r[u]
  BY <1>2, <1>3, <1>4, SMTT(60)
<1> QED
  BY <1>2, <1>5 DEF l, u, w, d

\* A higher percentile is not below a lower one.
LEMMA PercentilesOrdered ==
  ASSUME NEW n \in Nat \ {0}, NEW r \in [1 .. n -> Nat],
         \A j, k \in 1 .. n : j <= k => r[j] <= r[k],
         NEW p \in 0 .. 100, NEW q \in p .. 100
  PROVE  Percentile(r, p) <= Percentile(r, q)
<1>0. q \in 0 .. 100
  BY SMTT(60)
<1> DEFINE lp == Lower(n, p)
           up == Upper(n, p)
           wp == Position(n, p) % 100
           lq == Lower(n, q)
           uq == Upper(n, q)
           wq == Position(n, q) % 100
<1>1. /\ lp \in 1 .. n /\ up \in 1 .. n /\ up \in {lp, lp + 1} /\ wp \in 0 .. 99
      /\ Position(n, p) = 100 * (lp - 1) + wp /\ (up = lp <=> wp = 0)
  BY Neighbours, ZenonT(60)
<1>2. /\ lq \in 1 .. n /\ uq \in 1 .. n /\ uq \in {lq, lq + 1} /\ wq \in 0 .. 99
      /\ Position(n, q) = 100 * (lq - 1) + wq /\ (uq = lq <=> wq = 0)
  BY <1>0, Neighbours, ZenonT(60)
<1>3. Position(n, p) <= Position(n, q)
  BY PositionTyped
<1>4. /\ Percentile(r, p) \in Nat /\ Percentile(r, p) <= 100 * r[up]
      /\ Percentile(r, p) = 100 * r[lp] + wp * (r[up] - r[lp])
  BY PercentileBetween, ZenonT(60)
<1>5. /\ Percentile(r, q) \in Nat /\ 100 * r[lq] <= Percentile(r, q)
      /\ Percentile(r, q) = 100 * r[lq] + wq * (r[uq] - r[lq])
  BY <1>0, PercentileBetween, ZenonT(60)
<1> HIDE DEF lp, up, wp, lq, uq, wq
<1>6. \A i \in 1 .. n : r[i] \in Nat
  OBVIOUS
<1>7. \/ up <= lq
      \/ lp = lq /\ up = uq /\ wp <= wq /\ lp <= up
  BY <1>1, <1>2, <1>3
<1>8. CASE up <= lq
  <2>1. r[up] <= r[lq] /\ r[up] \in Nat /\ r[lq] \in Nat
    BY <1>1, <1>2, <1>6, <1>8
  <2> QED
    BY <1>4, <1>5, <2>1, SMTT(60)
<1>9. CASE lp = lq /\ up = uq /\ wp <= wq /\ lp <= up
  <2> DEFINE d == r[up] - r[lp]
  <2>1. d \in Nat /\ r[lp] \in Nat
    <3>1. r[lp] <= r[up] /\ r[lp] \in Nat /\ r[up] \in Nat
      BY <1>1, <1>6, <1>9
    <3> QED
      BY <3>1
  <2>2. Percentile(r, p) = 100 * r[lp] + wp * d /\ Percentile(r, q) = 100 * r[lp] + wq * d
    BY <1>4, <1>5, <1>9
  <2> HIDE DEF d
  <2>3. wp * d <= wq * d /\ wp * d \in Nat /\ wq * d \in Nat
    <3>1. \A a, b \in Nat : a * b \in Nat
      OBVIOUS
    <3>2. wq - wp \in Nat /\ (wq - wp) * d = wq * d - wp * d /\ wp \in Nat /\ wq \in Nat
      BY <1>1, <1>2, <1>9, <2>1
    <3>3. (wq - wp) * d \in Nat /\ wp * d \in Nat /\ wq * d \in Nat
      BY <2>1, <3>1, <3>2
    <3> QED
      BY <3>2, <3>3
  <2> QED
    BY <2>1, <2>2, <2>3
<1> QED
  BY <1>7, <1>8, <1>9

\* No more samples than may lie above a percentile, or below it.
LEMMA PercentileSplits ==
  ASSUME NEW n \in Nat \ {0}, NEW s \in [1 .. n -> Nat], NEW p \in 0 .. 100
  PROVE  Splits(Percentile(Sorted(s), p), p, s)
<1> DEFINE r == Sorted(s)
           l == Lower(n, p)
           u == Upper(n, p)
           v == Percentile(r, p)
           m == Position(n, p)
           above == {i \in 1 .. n : 100 * s[i] > v}
           below == {i \in 1 .. n : 100 * s[i] < v}
<1>1. /\ r \in [1 .. n -> Nat]
      /\ \A j, k \in 1 .. n : j <= k => r[j] <= r[k]
  BY SortedTyped
<1>2. v \in Nat /\ 100 * r[l] <= v /\ v <= 100 * r[u]
  <2> HIDE DEF r
  <2> QED
    BY <1>1, PercentileBetween, ZenonT(60)
<1>3. /\ l \in 1 .. n /\ u \in {l, l + 1} /\ u \in 1 .. n
      /\ m % 100 \in 0 .. 99 /\ m = 100 * (l - 1) + (m % 100)
      /\ u = l <=> m % 100 = 0
  BY Neighbours, ZenonT(60)
<1>4. m \in Nat /\ (100 - p) * (n - 1) = 100 * (n - 1) - m
  <2>1. p \in p .. 100
    OBVIOUS
  <2> QED
    BY <2>1, PositionTyped
<1>5. /\ r[l] \in Nat /\ Cardinality(AtMost(s, r[l])) >= l
      /\ r[u] \in Nat /\ Cardinality(LessThan(s, r[u])) < u
  BY <1>3, SortedAt
<1>6. \A i \in 1 .. n : s[i] \in Nat
  OBVIOUS
<1>7. Len(s) = n /\ DOMAIN s = 1 .. n
  BY SamplesSeq
<1> HIDE DEF r, l, u, v
<1>8. Cardinality(above) \in Nat /\ Cardinality(above) <= n - l
  <2> DEFINE rest == AtMost(s, r[l])
  <2>1. rest \in SUBSET (1 .. n) /\ above \in SUBSET (1 .. n)
    BY <1>7 DEF AtMost
  <2>2. rest \cap above = {}
    <3>1. \A i \in 1 .. n : s[i] <= r[l] => ~(100 * s[i] > v)
      BY <1>2, <1>5, <1>6
    <3> QED
      BY <1>7, <3>1 DEF AtMost
  <2>3. /\ IsFiniteSet(rest) /\ Cardinality(rest) \in Nat
        /\ IsFiniteSet(above) /\ Cardinality(above) \in Nat
    BY <2>1, SamplesCounted
  <2> HIDE DEF rest, above
  <2>4. rest \cup above \in SUBSET (1 .. n)
    BY <2>1
  <2>5. Cardinality(rest \cup above) <= n
    BY <2>4, SamplesCounted
  <2>6. Cardinality(rest \cup above) = Cardinality(rest) + Cardinality(above)
                                         - Cardinality(rest \cap above)
    BY <2>3, FS_Union
  <2>7. Cardinality(rest \cap above) = 0
    BY <2>2, FS_EmptySet
  <2>8. Cardinality(rest) >= l
    BY <1>5 DEF rest
  <2> QED
    BY <1>3, <2>3, <2>5, <2>6, <2>7, <2>8
<1>9. Cardinality(below) \in Nat /\ Cardinality(below) <= u - 1
  <2> DEFINE rest == LessThan(s, r[u])
  <2>1. rest \in SUBSET (1 .. n) /\ below \in SUBSET (1 .. n)
    BY <1>7 DEF LessThan
  <2>2. below \in SUBSET rest
    <3>1. \A i \in 1 .. n : 100 * s[i] < v => s[i] < r[u]
      BY <1>2, <1>5, <1>6
    <3> QED
      BY <1>7, <3>1 DEF LessThan
  <2>3. Cardinality(rest) \in Nat /\ Cardinality(below) \in Nat
        /\ Cardinality(below) <= Cardinality(rest)
    <3> HIDE DEF rest, below
    <3> QED
      BY <2>1, <2>2, SamplesCounted
  <2>4. Cardinality(rest) < u
    BY <1>5
  <2> HIDE DEF rest, below
  <2> QED
    BY <1>3, <2>3, <2>4
<1>10. 100 * Cardinality(above) < (100 - p) * (n - 1) + 100
  <2> HIDE DEF above, m
  <2> QED
    BY <1>3, <1>4, <1>8
<1>11. 100 * Cardinality(below) < m + 100
  <2> HIDE DEF below, m
  <2> QED
    BY <1>3, <1>4, <1>9
<1>12. Splits(v, p, s)
  BY <1>7, <1>10, <1>11 DEF Splits, Position
<1> QED
  BY <1>12 DEF v, r

-----------------------------------------------------------------------------
(* Running sums and products, up to any place.                             *)

\* What holds at 0 and goes on from each number to the next holds up to n.
LEMMA UpTo ==
  ASSUME NEW n \in Nat, NEW S, 0 \in S, \A k \in 1 .. n : k - 1 \in S => k \in S
  PROVE  \A k \in 0 .. n : k \in S
<1> DEFINE T == {k \in 0 .. n : k \notin S}
<1> SUFFICES ASSUME T # {} PROVE FALSE
  OBVIOUS
<1>1. PICK k \in T : \A j \in T : k <= j
  <2>1. T \in SUBSET Nat
    OBVIOUS
  <2> HIDE DEF T
  <2> QED
    BY <2>1, LeastElement
<1>2. k \in 1 .. n /\ k \notin S
  BY <1>1
<1>3. k - 1 \in 0 .. n /\ ~(k <= k - 1)
  BY <1>2
<1>4. k - 1 \notin T
  <2> HIDE DEF T
  <2> QED
    BY <1>1, <1>3
<1> QED
  BY <1>2, <1>3, <1>4

\* g begins with a value that each of n numbers changes by op.
IsRunning(g, n, r, first, op) ==
  /\ g[0] = first
  /\ \A i \in 1 .. n : g[i] = op[g[i - 1]][r[i]]

LEMMA Running ==
  ASSUME NEW n \in Nat, NEW r \in [1 .. n -> Nat], NEW first \in Nat,
         NEW op \in [Nat -> [Nat -> Nat]]
  PROVE  \E g \in [0 .. n -> Nat] : IsRunning(g, n, r, first, op)
<1> DEFINE S == {m \in 0 .. n : \E g \in [0 .. m -> Nat] : IsRunning(g, m, r, first, op)}
<1>1. 0 \in S
  <2> DEFINE g == [i \in 0 .. 0 |-> first]
  <2>1. g \in [0 .. 0 -> Nat] /\ IsRunning(g, 0, r, first, op)
    BY DEF IsRunning
  <2> HIDE DEF g
  <2> QED
    BY <2>1
<1>2. ASSUME NEW m \in 1 .. n, m - 1 \in S PROVE m \in S
  <2>1. PICK f \in [0 .. m - 1 -> Nat] : IsRunning(f, m - 1, r, first, op)
    BY <1>2
  <2> DEFINE last == op[f[m - 1]][r[m]]
             g == [i \in 0 .. m |-> IF i = m THEN last ELSE f[i]]
  <2>2. last \in Nat
    <3>1. m - 1 \in 0 .. m - 1
      OBVIOUS
    <3>2. f[m - 1] \in Nat
      BY <2>1, <3>1
    <3>3. r[m] \in Nat
      OBVIOUS
    <3> QED
      BY <3>2, <3>3
  <2>3. \A i \in 0 .. m - 1 : f[i] \in Nat /\ i \in 0 .. m /\ i # m
    <3>1. \A i \in 0 .. m - 1 : i \in 0 .. m /\ i # m
      OBVIOUS
    <3>2. \A i \in 0 .. m - 1 : f[i] \in Nat
      BY <2>1
    <3> QED
      BY <3>1, <3>2
  <2> HIDE DEF last
  <2>4. /\ \A i \in 0 .. m - 1 : g[i] = f[i]
        /\ g[m] = last
    BY <2>3
  <2>5. g \in [0 .. m -> Nat]
    <3>1. \A i \in 0 .. m : i = m \/ i \in 0 .. m - 1
      OBVIOUS
    <3> QED
      BY <2>2, <2>3, <3>1
  <2> HIDE DEF g
  <2>6. IsRunning(g, m, r, first, op)
    <3>1. g[0] = first
      <4>1. 0 \in 0 .. m - 1
        OBVIOUS
      <4> QED
        BY <2>1, <2>4, <4>1 DEF IsRunning
    <3>2. ASSUME NEW i \in 1 .. m PROVE g[i] = op[g[i - 1]][r[i]]
      <4>1. g[i - 1] = f[i - 1]
        <5>1. i - 1 \in 0 .. m - 1
          OBVIOUS
        <5> QED
          BY <2>4, <5>1
      <4>2. CASE i = m
        BY <2>4, <4>1, <4>2 DEF last
      <4>3. CASE i # m
        <5>1. i \in 1 .. m - 1 /\ i \in 0 .. m - 1
          BY <4>3
        <5> QED
          BY <2>1, <2>4, <4>1, <5>1 DEF IsRunning
      <4> QED
        BY <4>2, <4>3
    <3> QED
      BY <3>1, <3>2 DEF IsRunning
  <2>7. m \in 0 .. n
    OBVIOUS
  <2> QED
    BY <2>5, <2>6, <2>7
<1>3. n \in S
  <2>1. n \in 0 .. n
    OBVIOUS
  <2> HIDE DEF S
  <2> QED
    BY <1>1, <1>2, <2>1, UpTo
<1> QED
  BY <1>3

\* Accumulated is the last of the running sums.
LEMMA SumRuns ==
  ASSUME NEW n \in Nat, NEW r \in [1 .. n -> Nat]
  PROVE  \E g \in [0 .. n -> Nat] :
           /\ g[0] = 0
           /\ \A i \in 1 .. n : g[i] = g[i - 1] + r[i]
           /\ g[n] = Accumulated(r)
<1> DEFINE turn(f) == [i \in 0 .. n |-> IF i = 0 THEN 0 ELSE f[i - 1] + r[i]]
           upTo == CHOOSE f : f = turn(f)
           op == [x \in Nat |-> [y \in Nat |-> x + y]]
<1>1. Accumulated(r) = upTo[n]
  <2>1. Len(r) = n
    BY SamplesSeq
  <2> QED
    BY <2>1 DEF Accumulated
<1>2. PICK g \in [0 .. n -> Nat] : IsRunning(g, n, r, 0, op)
  <2>1. op \in [Nat -> [Nat -> Nat]]
    OBVIOUS
  <2> HIDE DEF op
  <2> QED
    BY <2>1, Running
<1>3. g = turn(g)
  <2>1. ASSUME NEW i \in 0 .. n
        PROVE  g[i] = IF i = 0 THEN 0 ELSE g[i - 1] + r[i]
    <3>1. CASE i = 0
      BY <1>2, <3>1 DEF IsRunning
    <3>2. CASE i # 0
      <4>1. i \in 1 .. n /\ g[i - 1] \in Nat /\ r[i] \in Nat
        BY <3>2
      <4>2. op[g[i - 1]][r[i]] = g[i - 1] + r[i]
        BY <4>1
      <4> HIDE DEF op
      <4> QED
        BY <1>2, <3>2, <4>1, <4>2 DEF IsRunning
    <3> QED
      BY <3>1, <3>2
  <2> QED
    BY <2>1
<1>4. upTo = turn(upTo)
  <2> HIDE DEF turn
  <2> QED
    BY <1>3
<1> HIDE DEF upTo
<1>5. \A i \in 0 .. n : upTo[i] = IF i = 0 THEN 0 ELSE upTo[i - 1] + r[i]
  BY <1>4
<1>6. upTo[0] = 0 /\ \A i \in 1 .. n : upTo[i] = upTo[i - 1] + r[i]
  BY <1>5
<1>7. upTo \in [0 .. n -> Nat]
  <2> DEFINE S == {k \in 0 .. n : upTo[k] \in Nat}
  <2>1. 0 \in S
    BY <1>6
  <2>2. ASSUME NEW k \in 1 .. n, k - 1 \in S PROVE k \in S
    <3>1. upTo[k] = upTo[k - 1] + r[k] /\ upTo[k - 1] \in Nat /\ r[k] \in Nat
      BY <1>6, <2>2
    <3>2. upTo[k - 1] + r[k] \in Nat
      BY <3>1
    <3> QED
      BY <3>1, <3>2
  <2> HIDE DEF S
  <2>3. \A k \in 0 .. n : k \in S
    BY <2>1, <2>2, UpTo
  <2>4. upTo = [i \in 0 .. n |-> upTo[i]]
    BY <1>4
  <2> QED
    BY <2>3, <2>4 DEF S
<1> QED
  BY <1>1, <1>6, <1>7

\* Multiplied is the last of the running products.
LEMMA ProductRuns ==
  ASSUME NEW n \in Nat, NEW r \in [1 .. n -> Nat]
  PROVE  \E g \in [0 .. n -> Nat] :
           /\ g[0] = 1
           /\ \A i \in 1 .. n : g[i] = g[i - 1] * r[i]
           /\ g[n] = Multiplied(r)
<1> DEFINE turn(f) == [i \in 0 .. n |-> IF i = 0 THEN 1 ELSE f[i - 1] * r[i]]
           upTo == CHOOSE f : f = turn(f)
           op == [x \in Nat |-> [y \in Nat |-> x * y]]
<1>1. Multiplied(r) = upTo[n]
  <2>1. Len(r) = n
    BY SamplesSeq
  <2> QED
    BY <2>1 DEF Multiplied
<1>2. PICK g \in [0 .. n -> Nat] : IsRunning(g, n, r, 1, op)
  <2>1. op \in [Nat -> [Nat -> Nat]]
    OBVIOUS
  <2> HIDE DEF op
  <2> QED
    BY <2>1, Running
<1>3. g = turn(g)
  <2>1. ASSUME NEW i \in 0 .. n
        PROVE  g[i] = IF i = 0 THEN 1 ELSE g[i - 1] * r[i]
    <3>1. CASE i = 0
      BY <1>2, <3>1 DEF IsRunning
    <3>2. CASE i # 0
      <4>1. i \in 1 .. n /\ g[i - 1] \in Nat /\ r[i] \in Nat
        BY <3>2
      <4>2. op[g[i - 1]][r[i]] = g[i - 1] * r[i]
        BY <4>1
      <4> HIDE DEF op
      <4> QED
        BY <1>2, <3>2, <4>1, <4>2 DEF IsRunning
    <3> QED
      BY <3>1, <3>2
  <2> QED
    BY <2>1
<1>4. upTo = turn(upTo)
  <2> HIDE DEF turn
  <2> QED
    BY <1>3
<1> HIDE DEF upTo
<1>5. \A i \in 0 .. n : upTo[i] = IF i = 0 THEN 1 ELSE upTo[i - 1] * r[i]
  BY <1>4
<1>6. upTo[0] = 1 /\ \A i \in 1 .. n : upTo[i] = upTo[i - 1] * r[i]
  BY <1>5
<1>7. upTo \in [0 .. n -> Nat]
  <2> DEFINE S == {k \in 0 .. n : upTo[k] \in Nat}
  <2>1. 0 \in S
    BY <1>6
  <2>2. ASSUME NEW k \in 1 .. n, k - 1 \in S PROVE k \in S
    <3>1. upTo[k] = upTo[k - 1] * r[k] /\ upTo[k - 1] \in Nat /\ r[k] \in Nat
      BY <1>6, <2>2
    <3>2. upTo[k - 1] * r[k] \in Nat
      BY <3>1
    <3> QED
      BY <3>1, <3>2
  <2> HIDE DEF S
  <2>3. \A k \in 0 .. n : k \in S
    BY <2>1, <2>2, UpTo
  <2>4. upTo = [i \in 0 .. n |-> upTo[i]]
    BY <1>4
  <2> QED
    BY <2>3, <2>4 DEF S
<1> QED
  BY <1>1, <1>6, <1>7

\* The sum of n samples is at least n times the least and at most n times the greatest.
LEMMA AccumulatedBetween ==
  ASSUME NEW n \in Nat, NEW r \in [1 .. n -> Nat], NEW lo \in Nat, NEW hi \in Nat,
         \A i \in 1 .. n : lo <= r[i] /\ r[i] <= hi
  PROVE  lo * n <= Accumulated(r) /\ Accumulated(r) <= hi * n
<1>1. PICK g \in [0 .. n -> Nat] :
        /\ g[0] = 0
        /\ \A i \in 1 .. n : g[i] = g[i - 1] + r[i]
        /\ g[n] = Accumulated(r)
  BY SumRuns
<1> DEFINE S == {k \in 0 .. n : lo * k <= g[k] /\ g[k] <= hi * k}
<1>2. 0 \in S
  BY <1>1
<1>3. ASSUME NEW k \in 1 .. n, k - 1 \in S PROVE k \in S
  <2>1. /\ lo * (k - 1) <= g[k - 1] /\ g[k - 1] <= hi * (k - 1)
        /\ k \in Nat /\ k - 1 \in Nat /\ g[k - 1] \in Nat
    BY <1>3
  <2>2. g[k] = g[k - 1] + r[k] /\ lo <= r[k] /\ r[k] <= hi /\ r[k] \in Nat
    BY <1>1
  <2>3. \A c, x, y \in Nat : /\ c * (k - 1) <= x /\ c <= y => c * k <= x + y
                             /\ x <= c * (k - 1) /\ y <= c => x + y <= c * k
    BY <2>1
  <2>4. lo * k <= g[k] /\ g[k] <= hi * k
    BY <2>1, <2>2, <2>3
  <2> QED
    BY <2>4
<1>4. n \in S
  <2>1. n \in 0 .. n
    OBVIOUS
  <2> HIDE DEF S
  <2> QED
    BY <1>2, <1>3, <2>1, UpTo
<1> QED
  BY <1>1, <1>4

LEMMA StatisticsRight ==
  ASSUME NEW n \in Nat \ {0}, NEW s \in [1 .. n -> Nat]
  PROVE  LET t == Statistics(s)
         IN  /\ t.min * Len(s) <= t.total /\ t.total <= t.max * Len(s)
             /\ 100 * t.min <= t.median /\ t.median <= t.p95
             /\ t.p95 <= t.p99 /\ t.p99 <= 100 * t.max
             /\ Splits(t.median, 50, s) /\ Splits(t.p95, 95, s) /\ Splits(t.p99, 99, s)
<1> DEFINE r == Sorted(s)
<1>1. /\ r \in [1 .. n -> Nat]
      /\ \A j, k \in 1 .. n : j <= k => r[j] <= r[k]
  BY SortedTyped
<1>2. /\ Splits(Percentile(r, 50), 50, s) /\ Splits(Percentile(r, 95), 95, s)
      /\ Splits(Percentile(r, 99), 99, s)
  BY PercentileSplits
<1> HIDE DEF r
<1>3. Len(s) = n /\ Len(r) = n
  BY <1>1, SamplesSeq
<1>4. 1 \in 1 .. n /\ n \in 1 .. n /\ r[1] \in Nat /\ r[n] \in Nat
  BY <1>1
<1>5. \A i \in 1 .. n : r[1] <= r[i] /\ r[i] <= r[n]
  BY <1>1, <1>4
<1>6. r[1] * n <= Accumulated(r) /\ Accumulated(r) <= r[n] * n
  BY <1>1, <1>4, <1>5, AccumulatedBetween
<1>7. Percentile(r, 50) <= Percentile(r, 95) /\ Percentile(r, 95) <= Percentile(r, 99)
  <2>1. 50 \in 0 .. 100 /\ 95 \in 50 .. 100 /\ 95 \in 0 .. 100 /\ 99 \in 95 .. 100
    OBVIOUS
  <2> QED
    BY <1>1, <2>1, PercentilesOrdered
<1>8. 100 * r[1] <= Percentile(r, 50)
  <2>1. /\ 100 * r[Lower(n, 50)] <= Percentile(r, 50) /\ Percentile(r, 50) \in Nat
        /\ Lower(n, 50) \in 1 .. n
    <3>1. 50 \in 0 .. 100
      OBVIOUS
    <3>2. Lower(n, 50) \in 1 .. n
      BY <3>1, Neighbours
    <3> QED
      BY <1>1, <3>1, <3>2, PercentileBetween, ZenonT(60)
  <2>2. r[Lower(n, 50)] \in Nat /\ r[1] <= r[Lower(n, 50)]
    BY <1>1, <1>5, <2>1
  <2> QED
    BY <1>4, <2>1, <2>2
<1>9. Percentile(r, 99) <= 100 * r[n]
  <2>1. /\ Percentile(r, 99) <= 100 * r[Upper(n, 99)] /\ Percentile(r, 99) \in Nat
        /\ Upper(n, 99) \in 1 .. n
    <3>1. 99 \in 0 .. 100
      OBVIOUS
    <3>2. Upper(n, 99) \in 1 .. n
      BY <3>1, Neighbours
    <3> QED
      BY <1>1, <3>1, <3>2, PercentileBetween, ZenonT(60)
  <2>2. r[Upper(n, 99)] \in Nat /\ r[Upper(n, 99)] <= r[n]
    BY <1>1, <1>5, <2>1
  <2> QED
    BY <1>4, <2>1, <2>2
<1>10. Statistics(s) = [min |-> r[1], max |-> r[n], total |-> Accumulated(r),
                        median |-> Percentile(r, 50), p95 |-> Percentile(r, 95),
                        p99 |-> Percentile(r, 99)]
  BY <1>3 DEF Statistics, StatisticsUnsorted, r
<1> QED
  BY <1>2, <1>3, <1>6, <1>7, <1>8, <1>9, <1>10

-----------------------------------------------------------------------------
(* The statistics of the scores.                                           *)

StatisticsInv ==
  \A i \in DOMAIN scores :
    /\ scores[i].samples \in call.samples /\ Positive(scores[i].samples)
    /\ scores[i].stats = Statistics(scores[i].samples)
    /\ scores[i].diagnostic = (scores[i].name = "cache_sweep")

LEMMA ScoresChange ==
  ASSUME [Next]_vars
  PROVE  \/ UNCHANGED scores
         \/ scores' = <<>>
         \/ \E name, kib : \E samples \in call.samples :
              Positive(samples) /\ scores' = Append(scores, Entry(name, kib, samples))
<1>1. CASE BeginSuite
  BY <1>1 DEF BeginSuite
<1>2. CASE Score
  BY <1>2 DEF Score
<1>3. CASE SweepPoint
  BY <1>3 DEF SweepPoint
<1>4. CASE ~BeginSuite /\ ~Score /\ ~SweepPoint
  BY <1>4 DEF Next, vars, NothingToRun, SuiteRejected, Throws, SkipUnknown,
     BandwidthRejected, SampleRefused, BeginSweep, EndSweep, EndSuite, Finished,
     Fail, scorerVars
<1> QED
  BY <1>1, <1>2, <1>3, <1>4

LEMMA StatisticsInit == Init => StatisticsInv
<1> SUFFICES ASSUME Init PROVE StatisticsInv
  OBVIOUS
<1>1. DOMAIN scores = {}
  BY DEF Init
<1> QED
  BY <1>1 DEF StatisticsInv

LEMMA StatisticsStep ==
  SuiteInv /\ StatisticsInv /\ [Next]_vars => StatisticsInv'
<1> SUFFICES ASSUME SuiteInv, StatisticsInv, [Next]_vars PROVE StatisticsInv'
  OBVIOUS
<1>1. call' = call
  <2>1. CASE BeginSuite
    BY <2>1 DEF BeginSuite
  <2>2. CASE EndSuite
    BY <2>2 DEF EndSuite
  <2> QED
    BY <2>1, <2>2, OtherSteps
<1>2. CASE UNCHANGED scores
  BY <1>1, <1>2 DEF StatisticsInv
<1>3. CASE scores' = <<>>
  <2>1. DOMAIN scores' = {}
    BY <1>3
  <2> QED
    BY <2>1 DEF StatisticsInv
<1>4. CASE \E name, kib : \E samples \in call.samples :
             Positive(samples) /\ scores' = Append(scores, Entry(name, kib, samples))
  <2>1. PICK name, kib, samples :
          /\ samples \in call.samples /\ Positive(samples)
          /\ scores' = Append(scores, Entry(name, kib, samples))
    BY <1>4
  <2> DEFINE e == Entry(name, kib, samples)
  <2>2. /\ e.samples = samples /\ e.stats = Statistics(samples)
        /\ e.diagnostic = (e.name = "cache_sweep")
    BY DEF Entry
  <2>3. scores' = Append(scores, e)
    BY <2>1
  <2> HIDE DEF e
  <2>4. IsSeq(scores) /\ Len(scores) \in Nat /\ DOMAIN scores = 1 .. Len(scores)
    BY EntriesTyped DEF SuiteInv, ScoresInv
  <2>5. /\ DOMAIN scores' = 1 .. Len(scores) + 1
        /\ \A i \in 1 .. Len(scores) : scores'[i] = scores[i]
        /\ scores'[Len(scores) + 1] = e
    BY <2>3, <2>4, OneMore
  <2> SUFFICES ASSUME NEW i \in DOMAIN scores'
               PROVE  /\ scores'[i].samples \in call.samples
                      /\ Positive(scores'[i].samples)
                      /\ scores'[i].stats = Statistics(scores'[i].samples)
                      /\ scores'[i].diagnostic = (scores'[i].name = "cache_sweep")
    BY <1>1 DEF StatisticsInv, Positive
  <2>6. CASE i \in DOMAIN scores
    BY <2>4, <2>5, <2>6 DEF StatisticsInv
  <2>7. CASE i = Len(scores) + 1
    BY <2>1, <2>2, <2>5, <2>7
  <2> QED
    BY <2>4, <2>5, <2>6, <2>7
<1> QED
  BY <1>2, <1>3, <1>4, ScoresChange

\* However many samples were taken and whatever they are: the mean lies between the
\* least and the greatest, the percentiles are in order between the two, and each
\* has no more samples above it and below it than its name says.
THEOREM StatisticsCorrect == Spec => []StatisticsInOrder
<1>1. ASSUME SuiteInv, StatisticsInv PROVE StatisticsInOrder
  <2> SUFFICES ASSUME NEW i \in DOMAIN scores
               PROVE  LET s == scores[i].samples
                          t == scores[i].stats
                      IN  /\ t.min * Len(s) <= t.total /\ t.total <= t.max * Len(s)
                          /\ 100 * t.min <= t.median /\ t.median <= t.p95
                          /\ t.p95 <= t.p99 /\ t.p99 <= 100 * t.max
                          /\ Splits(t.median, 50, s) /\ Splits(t.p95, 95, s)
                          /\ Splits(t.p99, 99, s)
    BY DEF StatisticsInOrder
  <2> DEFINE s == scores[i].samples
  <2>1. s \in call.samples /\ scores[i].stats = Statistics(s)
    BY <1>1 DEF StatisticsInv
  <2>2. call.num_runs \in Nat \ {0} /\ s \in [1 .. call.num_runs -> Nat]
    BY <1>1, <2>1, SuiteAssumption DEF SuiteInv, ControlInv
  <2> HIDE DEF s
  <2> QED
    BY <2>1, <2>2, StatisticsRight DEF s
<1> QED
  BY <1>1, SuiteInvariance, StatisticsInit, StatisticsStep, SuiteInvInit, SuiteInvStep,
     PTL DEF Spec

-----------------------------------------------------------------------------
(* Powers, and weighted means of quotients.                                *)

LEMMA Products ==
  ASSUME NEW a \in Nat, NEW b \in Nat
  PROVE  /\ a * b \in Nat
         /\ \A c, d \in Nat : a <= c /\ b <= d => a * b <= c * d
         /\ \A c, d \in Nat : (a * b) * (c * d) = (a * c) * (b * d)
OBVIOUS

\* A product of one factor more.
LEMMA OneFactorMore ==
  ASSUME NEW n \in Nat, NEW r \in [1 .. n + 1 -> Nat], NEW q \in [1 .. n -> Nat],
         \A i \in 1 .. n : q[i] = r[i]
  PROVE  /\ Multiplied(q) \in Nat
         /\ Multiplied(r) = Multiplied(q) * r[n + 1]
<1>1. PICK g \in [0 .. n + 1 -> Nat] :
        /\ g[0] = 1
        /\ \A i \in 1 .. n + 1 : g[i] = g[i - 1] * r[i]
        /\ g[n + 1] = Multiplied(r)
  <2>1. n + 1 \in Nat
    OBVIOUS
  <2> QED
    BY <2>1, ProductRuns
<1>2. PICK h \in [0 .. n -> Nat] :
        /\ h[0] = 1
        /\ \A i \in 1 .. n : h[i] = h[i - 1] * q[i]
        /\ h[n] = Multiplied(q)
  BY ProductRuns
<1> DEFINE S == {k \in 0 .. n : g[k] = h[k]}
<1>3. 0 \in S
  BY <1>1, <1>2
<1>4. ASSUME NEW k \in 1 .. n, k - 1 \in S PROVE k \in S
  <2>1. k \in 0 .. n /\ k \in 1 .. n + 1 /\ g[k - 1] = h[k - 1]
    BY <1>4
  <2>2. g[k] = g[k - 1] * r[k] /\ h[k] = h[k - 1] * q[k] /\ q[k] = r[k]
    BY <1>1, <1>2, <2>1
  <2> QED
    BY <2>1, <2>2
<1>5. g[n] = h[n]
  <2>1. n \in 0 .. n
    OBVIOUS
  <2> HIDE DEF S
  <2>2. n \in S
    BY <1>3, <1>4, <2>1, UpTo
  <2> QED
    BY <2>2 DEF S
<1>6. n + 1 \in 1 .. n + 1 /\ (n + 1) - 1 = n
  OBVIOUS
<1>7. h[n] \in Nat
  <2>1. n \in 0 .. n
    OBVIOUS
  <2> QED
    BY <1>2, <2>1
<1> QED
  BY <1>1, <1>2, <1>5, <1>6, <1>7

LEMMA PowerStep ==
  ASSUME NEW x \in Nat, NEW n \in Nat
  PROVE  /\ Power(x, n) \in Nat
         /\ Power(x, 0) = 1
         /\ Power(x, n + 1) = Power(x, n) * x
<1> DEFINE r == [i \in 1 .. n + 1 |-> x]
           q == [i \in 1 .. n |-> x]
           none == [i \in 1 .. 0 |-> x]
<1>1. /\ r \in [1 .. n + 1 -> Nat] /\ q \in [1 .. n -> Nat] /\ none \in [1 .. 0 -> Nat]
      /\ \A i \in 1 .. n : q[i] = r[i]
      /\ r[n + 1] = x
  OBVIOUS
<1>2. Power(x, n + 1) = Multiplied(r) /\ Power(x, n) = Multiplied(q)
      /\ Power(x, 0) = Multiplied(none)
  BY DEF Power
<1> HIDE DEF r, q, none
<1>3. Multiplied(q) \in Nat /\ Multiplied(r) = Multiplied(q) * r[n + 1]
  BY <1>1, OneFactorMore
<1>4. Multiplied(none) = 1
  <2>1. PICK g \in [0 .. 0 -> Nat] : g[0] = 1 /\ g[0] = Multiplied(none)
    <3>1. 0 \in Nat
      OBVIOUS
    <3> QED
      BY <1>1, <3>1, ProductRuns
  <2> QED
    BY <2>1
<1> QED
  BY <1>1, <1>2, <1>3, <1>4

LEMMA PowerSum ==
  ASSUME NEW x \in Nat, NEW m \in Nat, NEW n \in Nat
  PROVE  Power(x, m + n) = Power(x, m) * Power(x, n)
<1> DEFINE S == {k \in 0 .. n : Power(x, m + k) = Power(x, m) * Power(x, k)}
<1>1. 0 \in S
  <2>1. Power(x, 0) = 1 /\ Power(x, m) \in Nat
    BY PowerStep
  <2> QED
    BY <2>1
<1>2. ASSUME NEW k \in 1 .. n, k - 1 \in S PROVE k \in S
  <2> DEFINE a == Power(x, k - 1)
             c == Power(x, m)
  <2>1. k - 1 \in Nat /\ m + (k - 1) \in Nat /\ k \in 0 .. n
    BY <1>2
  <2>2. a \in Nat /\ c \in Nat
    BY <2>1, PowerStep
  <2>3. Power(x, m + (k - 1)) = c * a
    BY <1>2
  <2>4. (k - 1) + 1 = k /\ (m + (k - 1)) + 1 = m + k
    BY <2>1
  <2>5. Power(x, k) = a * x /\ Power(x, m + k) = (c * a) * x
    BY <2>1, <2>3, <2>4, PowerStep
  <2> HIDE DEF a
  <2>6. (c * a) * x = c * (a * x)
    BY <2>2
  <2> QED
    BY <2>1, <2>5, <2>6
<1>3. n \in S
  <2>1. n \in 0 .. n
    OBVIOUS
  <2> HIDE DEF S
  <2> QED
    BY <1>1, <1>2, <2>1, UpTo
<1> QED
  BY <1>3

\* Powers of a product, and of the greater of two numbers.
LEMMA PowerLaws ==
  ASSUME NEW x \in Nat, NEW y \in Nat, NEW n \in Nat
  PROVE  /\ Power(x * y, n) = Power(x, n) * Power(y, n)
         /\ x <= y => Power(x, n) <= Power(y, n)
<1>1. x * y \in Nat
  BY Products
<1> DEFINE S == {k \in 0 .. n :
                   /\ Power(x * y, k) = Power(x, k) * Power(y, k)
                   /\ x <= y => Power(x, k) <= Power(y, k)}
<1>2. 0 \in S
  <2>1. Power(x, 0) = 1 /\ Power(y, 0) = 1 /\ Power(x * y, 0) = 1
    BY <1>1, PowerStep
  <2> QED
    BY <2>1
<1>3. ASSUME NEW k \in 1 .. n, k - 1 \in S PROVE k \in S
  <2> DEFINE a == Power(x, k - 1)
             b == Power(y, k - 1)
  <2>1. k - 1 \in Nat /\ k \in 0 .. n /\ (k - 1) + 1 = k
    BY <1>3
  <2>2. a \in Nat /\ b \in Nat
    BY <2>1, PowerStep
  <2>3. Power(x * y, k - 1) = a * b /\ (x <= y => a <= b)
    BY <1>3
  <2>4. Power(x, k) = a * x /\ Power(y, k) = b * y
    BY <2>1, PowerStep
  <2>5. Power(x * y, k) = (a * b) * (x * y)
    BY <1>1, <2>1, <2>3, PowerStep
  <2> HIDE DEF a, b
  <2>6. /\ (a * b) * (x * y) = (a * x) * (b * y)
        /\ x <= y /\ a <= b => a * x <= b * y
    BY <2>2, Products
  <2> QED
    BY <2>1, <2>3, <2>4, <2>5, <2>6
<1>4. n \in S
  <2>1. n \in 0 .. n
    OBVIOUS
  <2> HIDE DEF S
  <2> QED
    BY <1>2, <1>3, <2>1, UpTo
<1> QED
  BY <1>4

\* The factors of a weighted product, and the terms of its sum of weights: one for
\* each place in F.
Factors(n, F, x, v) == [i \in 1 .. n |-> IF i \in F THEN Power(x[i], v[i]) ELSE 1]
Terms(n, F, v)      == [i \in 1 .. n |-> IF i \in F THEN v[i] ELSE 0]

\* If none of the quotients a[i] by t[i] that have a weight is below A by T, neither
\* is their weighted mean.
LEMMA WeightedMean ==
  ASSUME NEW n \in Nat, NEW F \in SUBSET (1 .. n),
         NEW a \in [F -> Nat], NEW t \in [F -> Nat], NEW v \in [F -> Nat],
         NEW A \in Nat, NEW T \in Nat,
         \A i \in F : v[i] > 0 => t[i] * A <= a[i] * T
  PROVE  LET root == Accumulated(Terms(n, F, v))
         IN  Multiplied(Factors(n, F, t, v)) * Power(A, root) <=
               Multiplied(Factors(n, F, a, v)) * Power(T, root)
<1> DEFINE p == Factors(n, F, t, v)
           q == Factors(n, F, a, v)
           u == Terms(n, F, v)
<1>1. /\ p \in [1 .. n -> Nat] /\ q \in [1 .. n -> Nat] /\ u \in [1 .. n -> Nat]
      /\ \A i \in F : /\ p[i] = Power(t[i], v[i]) /\ q[i] = Power(a[i], v[i])
                      /\ u[i] = v[i]
      /\ \A i \in (1 .. n) \ F : p[i] = 1 /\ q[i] = 1 /\ u[i] = 0
  <2>1. \A i \in F : /\ i \in 1 .. n /\ v[i] \in Nat
                     /\ Power(t[i], v[i]) \in Nat /\ Power(a[i], v[i]) \in Nat
    BY PowerStep
  <2> QED
    BY <2>1 DEF Factors, Terms
<1> HIDE DEF p, q, u
<1>2. PICK g \in [0 .. n -> Nat] :
        /\ g[0] = 1
        /\ \A i \in 1 .. n : g[i] = g[i - 1] * p[i]
        /\ g[n] = Multiplied(p)
  BY <1>1, ProductRuns
<1>3. PICK h \in [0 .. n -> Nat] :
        /\ h[0] = 1
        /\ \A i \in 1 .. n : h[i] = h[i - 1] * q[i]
        /\ h[n] = Multiplied(q)
  BY <1>1, ProductRuns
<1>4. PICK r \in [0 .. n -> Nat] :
        /\ r[0] = 0
        /\ \A i \in 1 .. n : r[i] = r[i - 1] + u[i]
        /\ r[n] = Accumulated(u)
  BY <1>1, SumRuns
<1> DEFINE S == {k \in 0 .. n : g[k] * Power(A, r[k]) <= h[k] * Power(T, r[k])}
<1>5. 0 \in S
  <2>1. Power(A, 0) = 1 /\ Power(T, 0) = 1
    BY PowerStep
  <2> QED
    BY <1>2, <1>3, <1>4, <2>1
<1>6. ASSUME NEW k \in 1 .. n, k - 1 \in S PROVE k \in S
  <2>1. /\ k \in 0 .. n /\ k - 1 \in 0 .. n
        /\ g[k - 1] * Power(A, r[k - 1]) <= h[k - 1] * Power(T, r[k - 1])
    BY <1>6
  <2>2. g[k - 1] \in Nat /\ h[k - 1] \in Nat /\ r[k - 1] \in Nat
    BY <1>2, <1>3, <1>4, <2>1
  <2>3. g[k] = g[k - 1] * p[k] /\ h[k] = h[k - 1] * q[k] /\ r[k] = r[k - 1] + u[k]
    BY <1>2, <1>3, <1>4
  <2>4. CASE k \notin F
    BY <1>1, <2>1, <2>2, <2>3, <2>4
  <2>5. CASE k \in F
    <3>1. /\ t[k] \in Nat /\ a[k] \in Nat /\ v[k] \in Nat
          /\ p[k] = Power(t[k], v[k]) /\ q[k] = Power(a[k], v[k]) /\ u[k] = v[k]
      BY <1>1, <2>5
    <3>2. /\ Power(A, r[k]) = Power(A, r[k - 1]) * Power(A, v[k])
          /\ Power(T, r[k]) = Power(T, r[k - 1]) * Power(T, v[k])
      <4>1. r[k] = r[k - 1] + v[k]
        BY <2>3, <3>1
      <4>2. \A x \in Nat :
              Power(x, r[k - 1] + v[k]) = Power(x, r[k - 1]) * Power(x, v[k])
        BY <2>2, <3>1, PowerSum, ZenonT(60)
      <4> QED
        BY <4>1, <4>2
    <3>3. p[k] * Power(A, v[k]) <= q[k] * Power(T, v[k])
      <4>1. CASE v[k] = 0
        <5>1. /\ p[k] = 1 /\ q[k] = 1 /\ Power(A, v[k]) = 1 /\ Power(T, v[k]) = 1
          BY <3>1, <4>1, PowerStep
        <5> QED
          BY <5>1
      <4>2. CASE v[k] > 0
        <5>1. t[k] * A <= a[k] * T /\ t[k] * A \in Nat /\ a[k] * T \in Nat
          <6>1. t[k] * A \in Nat /\ a[k] * T \in Nat
            BY <3>1, Products
          <6> QED
            BY <2>5, <4>2, <6>1
        <5>2. Power(t[k] * A, v[k]) <= Power(a[k] * T, v[k])
          BY <3>1, <5>1, PowerLaws
        <5>3. /\ Power(t[k] * A, v[k]) = Power(t[k], v[k]) * Power(A, v[k])
              /\ Power(a[k] * T, v[k]) = Power(a[k], v[k]) * Power(T, v[k])
          BY <3>1, PowerLaws, ZenonT(60)
        <5> QED
          BY <3>1, <5>2, <5>3
      <4> QED
        BY <3>1, <4>1, <4>2
    <3>4. /\ Power(A, r[k - 1]) \in Nat /\ Power(T, r[k - 1]) \in Nat
          /\ Power(A, v[k]) \in Nat /\ Power(T, v[k]) \in Nat
          /\ p[k] \in Nat /\ q[k] \in Nat
      BY <1>1, <2>2, <3>1, PowerStep
    <3> DEFINE b == g[k - 1]
               c == h[k - 1]
               d == Power(A, r[k - 1])
               e == Power(T, r[k - 1])
               x == Power(A, v[k])
               y == Power(T, v[k])
    <3>5. (b * p[k]) * (d * x) <= (c * q[k]) * (e * y)
      <4>1. /\ b \in Nat /\ c \in Nat /\ d \in Nat /\ e \in Nat /\ x \in Nat /\ y \in Nat
            /\ p[k] \in Nat /\ q[k] \in Nat
            /\ b * d <= c * e /\ p[k] * x <= q[k] * y
        BY <2>1, <2>2, <3>3, <3>4
      <4> HIDE DEF b, c, d, e, x, y
      <4>2. (b * p[k]) * (d * x) = (b * d) * (p[k] * x)
        BY <4>1, Products, SMTT(60)
      <4>5. (c * q[k]) * (e * y) = (c * e) * (q[k] * y)
        BY <4>1, Products, SMTT(60)
      <4>3. b * d \in Nat /\ c * e \in Nat /\ p[k] * x \in Nat /\ q[k] * y \in Nat
        BY <4>1, Products
      <4>4. (b * d) * (p[k] * x) <= (c * e) * (q[k] * y)
        BY <4>1, <4>3, Products
      <4> QED
        BY <4>2, <4>4, <4>5
    <3> QED
      BY <2>1, <2>3, <3>2, <3>5
  <2> QED
    BY <2>4, <2>5
<1>7. n \in S
  <2>1. n \in 0 .. n
    OBVIOUS
  <2> HIDE DEF S
  <2> QED
    BY <1>5, <1>6, <2>1, UpTo
<1>8. Multiplied(p) * Power(A, Accumulated(u)) <= Multiplied(q) * Power(T, Accumulated(u))
  BY <1>2, <1>3, <1>4, <1>7
<1> QED
  BY <1>8 DEF p, q, u

\* In D no quotient of v by t is above that of i.
Greatest(i, D, v, t) == \A j \in D : v[j] * t[i] <= v[i] * t[j]

LEMMA GreatestQuotient ==
  ASSUME NEW n \in Nat, NEW D \in SUBSET (1 .. n), D # {},
         NEW v \in [1 .. n -> Nat], NEW t \in [1 .. n -> Nat], \A i \in D : t[i] > 0
  PROVE  \E i \in D : Greatest(i, D, v, t)
<1> DEFINE Among(k) == {i \in D : i <= k}
           Best(k, i) == \A j \in Among(k) : v[j] * t[i] <= v[i] * t[j]
           S == {k \in 0 .. n : Among(k) # {} => \E i \in Among(k) : Best(k, i)}
<1>0. \A i \in D : i \in 1 .. n
  OBVIOUS
<1>1. 0 \in S
  <2>1. Among(0) = {} /\ 0 \in 0 .. n
    <3>1. \A i \in 1 .. n : ~(i <= 0)
      OBVIOUS
    <3>2. 0 \in 0 .. n
      OBVIOUS
    <3> QED
      BY <1>0, <3>1, <3>2
  <2> HIDE DEF Among
  <2> QED
    BY <2>1
<1>2. ASSUME NEW k \in 1 .. n, k - 1 \in S PROVE k \in S
  <2>1. k \in 0 .. n /\ k \in Int
    OBVIOUS
  <2>2. Among(k) = Among(k - 1) \cup (IF k \in D THEN {k} ELSE {})
    <3>1. \A i \in 1 .. n : i <= k <=> i <= k - 1 \/ i = k
      BY <2>1
    <3> QED
      BY <1>0, <3>1
  <2>3. CASE k \notin D
    <3>1. Among(k) = Among(k - 1)
      BY <2>2, <2>3
    <3> QED
      BY <1>2, <2>1, <3>1
  <2>4. CASE k \in D /\ Among(k - 1) = {}
    <3>1. Among(k) = {k}
      BY <2>2, <2>4
    <3>2. v[k] * t[k] \in Nat
      <4>1. v[k] \in Nat /\ t[k] \in Nat
        OBVIOUS
      <4> QED
        BY <4>1, Products
    <3> HIDE DEF Among
    <3>3. Best(k, k)
      BY <3>1, <3>2
    <3> QED
      BY <2>1, <3>1, <3>3
  <2>5. CASE k \in D /\ Among(k - 1) # {}
    <3>1. PICK i \in Among(k - 1) : Best(k - 1, i)
      BY <1>2, <2>5
    <3>2. /\ i \in D /\ v[i] \in Nat /\ t[i] \in Nat /\ t[i] > 0
          /\ v[k] \in Nat /\ t[k] \in Nat /\ t[k] > 0
          /\ i \in Among(k) /\ k \in Among(k)
      BY <2>2, <2>5, <3>1
    <3>3. CASE v[k] * t[i] <= v[i] * t[k]
      <4>1. Best(k, i)
        BY <2>2, <3>1, <3>3
      <4> QED
        BY <2>1, <3>2, <4>1
    <3>4. CASE v[i] * t[k] <= v[k] * t[i]
      <4>1. ASSUME NEW j \in Among(k - 1) PROVE v[j] * t[k] <= v[k] * t[j]
        <5>1. v[j] * t[i] <= v[i] * t[j] /\ v[j] \in Nat /\ t[j] \in Nat
          BY <3>1
        <5>2. \A a, b, c, d, e, f \in Nat :
                d > 0 /\ a * d <= c * b /\ c * f <= e * d => a * f <= e * b
          BY SMTT(60)
        <5> QED
          BY <3>2, <3>4, <5>1, <5>2
      <4>2. Best(k, k)
        BY <2>2, <3>2, <4>1
      <4> QED
        BY <2>1, <3>2, <4>2
    <3>5. v[k] * t[i] \in Nat /\ v[i] * t[k] \in Nat
      BY <3>2, Products
    <3>6. v[k] * t[i] <= v[i] * t[k] \/ v[i] * t[k] <= v[k] * t[i]
      BY <3>5
    <3> QED
      BY <3>3, <3>4, <3>6
  <2> QED
    BY <2>3, <2>4, <2>5
<1>3. n \in S
  <2>1. n \in 0 .. n
    OBVIOUS
  <2> HIDE DEF S
  <2> QED
    BY <1>1, <1>2, <2>1, UpTo
<1>4. Among(n) = D
  <2>1. \A i \in 1 .. n : i <= n
    OBVIOUS
  <2> QED
    BY <1>0, <2>1
<1> QED
  BY <1>3, <1>4 DEF Greatest

\* A sum over some places, compared with their number.
LEMMA SumOverPlaces ==
  ASSUME NEW n \in Nat, NEW D \in SUBSET (1 .. n), NEW t \in [D -> Nat],
         NEW X \in Nat, NEW Y \in Nat
  PROVE  LET total == Accumulated(Terms(n, D, t))
         IN  /\ total \in Nat
             /\ Cardinality(D) \in Nat
             /\ (\A j \in D : X * t[j] <= Y) => X * total <= Y * Cardinality(D)
             /\ (\A j \in D : Y <= X * t[j]) => Y * Cardinality(D) <= X * total
             /\ total = 0 <=> \A j \in D : t[j] = 0
<1> DEFINE u == Terms(n, D, t)
<1>1. /\ u \in [1 .. n -> Nat]
      /\ \A i \in D : u[i] = t[i] /\ t[i] \in Nat
      /\ \A i \in (1 .. n) \ D : u[i] = 0
  BY DEF Terms
<1> HIDE DEF u
<1>2. PICK g \in [0 .. n -> Nat] :
        /\ g[0] = 0
        /\ \A i \in 1 .. n : g[i] = g[i - 1] + u[i]
        /\ g[n] = Accumulated(u)
  BY <1>1, SumRuns
<1> DEFINE P(k) == {i \in D : i <= k}
           c(k) == Cardinality(P(k))
           S == {k \in 0 .. n :
                   /\ (\A j \in D : X * t[j] <= Y) => X * g[k] <= Y * c(k)
                   /\ (\A j \in D : Y <= X * t[j]) => Y * c(k) <= X * g[k]
                   /\ g[k] = 0 <=> \A j \in P(k) : t[j] = 0}
<1>3. \A i \in D : i \in 1 .. n
  OBVIOUS
<1>4. P(0) = {} /\ P(n) = D
  <2>1. \A i \in 1 .. n : ~(i <= 0) /\ i <= n
    OBVIOUS
  <2> QED
    BY <1>3, <2>1
<1>5. \A k \in 0 .. n : IsFiniteSet(P(k)) /\ c(k) \in Nat
  <2>1. IsFiniteSet(1 .. n)
    BY FS_Interval
  <2>2. \A k \in 0 .. n : P(k) \in SUBSET (1 .. n)
    BY <1>3
  <2> QED
    BY <2>1, <2>2, FS_Subset, FS_CardinalityType
<1>6. 0 \in S
  <2>1. c(0) = 0 /\ g[0] = 0
    BY <1>2, <1>4, FS_EmptySet
  <2>2. X * 0 = 0 /\ Y * 0 = 0 /\ 0 \in 0 .. n
    OBVIOUS
  <2> HIDE DEF P, c
  <2> QED
    BY <1>4, <2>1, <2>2
<1>7. ASSUME NEW k \in 1 .. n, k - 1 \in S PROVE k \in S
  <2>1. k \in 0 .. n /\ k - 1 \in 0 .. n /\ k \in Int
    OBVIOUS
  <2>2. P(k) = P(k - 1) \cup (IF k \in D THEN {k} ELSE {})
    <3>1. \A i \in 1 .. n : i <= k <=> i <= k - 1 \/ i = k
      BY <2>1
    <3> QED
      BY <1>3, <3>1
  <2>3. k \notin P(k - 1)
    BY <2>1
  <2>4. g[k] = g[k - 1] + u[k] /\ g[k - 1] \in Nat /\ g[k] \in Nat
    BY <1>2, <2>1
  <2>5. CASE k \notin D
    <3>1. P(k) = P(k - 1) /\ c(k) = c(k - 1)
      BY <2>2, <2>5
    <3>2. g[k] = g[k - 1]
      BY <1>1, <2>4, <2>5
    <3> HIDE DEF P, c
    <3> QED
      BY <1>7, <2>1, <3>1, <3>2
  <2>6. CASE k \in D
    <3>1. IsFiniteSet(P(k - 1)) /\ c(k - 1) \in Nat
      BY <1>5, <2>1
    <3>2. P(k) = P(k - 1) \cup {k}
      BY <2>2, <2>6
    <3>3. c(k) = c(k - 1) + 1
      BY <2>3, <3>1, <3>2, FS_AddElement
    <3>4. g[k] = g[k - 1] + t[k] /\ t[k] \in Nat
      BY <1>1, <2>4, <2>6
    <3> HIDE DEF P, c
    <3>5. /\ X * g[k] = X * g[k - 1] + X * t[k]
          /\ Y * c(k) = Y * c(k - 1) + Y
          /\ X * g[k - 1] \in Nat /\ X * t[k] \in Nat /\ Y * c(k - 1) \in Nat
      <4>1. \A x, y, z \in Nat : x * (y + z) = x * y + x * z /\ x * (y + 1) = x * y + x
        OBVIOUS
      <4>2. X * g[k] = X * g[k - 1] + X * t[k]
        BY <2>4, <3>4, <4>1
      <4>3. Y * c(k) = Y * c(k - 1) + Y
        BY <3>1, <3>3, <4>1
      <4> QED
        BY <2>4, <3>1, <3>4, <4>2, <4>3, Products
    <3>6. (\A j \in D : X * t[j] <= Y) => X * g[k] <= Y * c(k)
      BY <1>7, <2>6, <3>5, SMTT(60)
    <3>7. (\A j \in D : Y <= X * t[j]) => Y * c(k) <= X * g[k]
      BY <1>7, <2>6, <3>5, SMTT(60)
    <3>8. g[k] = 0 <=> \A j \in P(k) : t[j] = 0
      <4>1. g[k] = 0 <=> g[k - 1] = 0 /\ t[k] = 0
        BY <2>4, <3>4
      <4> QED
        BY <1>7, <3>2, <4>1
    <3> QED
      BY <2>1, <3>6, <3>7, <3>8
  <2> QED
    BY <2>5, <2>6
<1>8. n \in S
  <2>1. n \in 0 .. n
    OBVIOUS
  <2> HIDE DEF S
  <2> QED
    BY <1>6, <1>7, <2>1, UpTo
<1>9. n \in 0 .. n /\ g[n] \in Nat
  BY <1>2
<1>10. /\ g[n] \in Nat /\ Cardinality(D) \in Nat
       /\ (\A j \in D : X * t[j] <= Y) => X * g[n] <= Y * Cardinality(D)
       /\ (\A j \in D : Y <= X * t[j]) => Y * Cardinality(D) <= X * g[n]
       /\ g[n] = 0 <=> \A j \in D : t[j] = 0
  <2>1. c(n) = Cardinality(D) /\ c(n) \in Nat
    BY <1>4, <1>5, <1>9
  <2> HIDE DEF P, c
  <2> QED
    BY <1>4, <1>8, <1>9, <2>1
<1> QED
  BY <1>2, <1>10 DEF u

-----------------------------------------------------------------------------
(* The combined score.                                                     *)

\* What the combined score is computed from.
WeightedInv ==
  \A i \in DOMAIN scores :
    /\ scores[i].stats.total \in Nat \ {0}
    /\ scores[i].diagnostic = (scores[i].name = "cache_sweep")
    /\ ~scores[i].diagnostic =>
         /\ weights[scores[i].name] \in Nat
         /\ baselines[scores[i].name] \in Nat \ {0}

LEMMA TotalPositive ==
  ASSUME NEW n \in Nat \ {0}, NEW s \in [1 .. n -> Nat], Positive(s)
  PROVE  Statistics(s).total \in Nat \ {0}
<1> DEFINE r == Sorted(s)
<1>1. /\ r \in [1 .. n -> Nat]
      /\ \A j, k \in 1 .. n : j <= k => r[j] <= r[k]
  BY SortedTyped
<1>2. \A k \in 1 .. n : 1 <= r[k] /\ r[k] <= r[n]
  <2> SUFFICES ASSUME NEW k \in 1 .. n PROVE 1 <= r[k] /\ r[k] <= r[n]
    OBVIOUS
  <2>1. \E i \in 1 .. n : r[k] = s[i]
    BY SortedAt
  <2>2. \A i \in 1 .. n : s[i] \in Nat /\ s[i] > 0
    BY DEF Positive
  <2> HIDE DEF r
  <2>3. 1 <= r[k]
    BY <2>1, <2>2
  <2>4. n \in 1 .. n /\ k <= n
    OBVIOUS
  <2> QED
    BY <1>1, <2>3, <2>4
<1>3. Statistics(s).total = Accumulated(r)
  BY DEF Statistics, StatisticsUnsorted
<1> HIDE DEF r
<1>4. n \in 1 .. n
  OBVIOUS
<1>5. 1 * n <= Accumulated(r)
  BY <1>1, <1>2, <1>4, AccumulatedBetween
<1>6. Accumulated(r) \in Nat
  <2>1. PICK g \in [0 .. n -> Nat] : g[n] = Accumulated(r)
    BY <1>1, SumRuns
  <2>2. n \in 0 .. n
    OBVIOUS
  <2> QED
    BY <2>1, <2>2
<1> QED
  BY <1>3, <1>5, <1>6

\* A benchmark that is listed is scored under a name with a weight and a baseline.
LEMMA SuiteTables ==
  ASSUME call \in Cases, NEW n \in ToSet(call.benchmarks) \cap Dispatched
  PROVE  /\ SuiteWeights[ScoredAs(n)] \in Nat
         /\ SuiteBaselines[ScoredAs(n)] \in Nat \ {0}
<1>1. /\ DefaultScored \subseteq DOMAIN call.weights
      /\ DefaultScored \subseteq DOMAIN call.baselines
      /\ \A m \in DOMAIN call.weights : call.weights[m] \in Nat
      /\ \A m \in DOMAIN call.baselines : call.baselines[m] \in Nat \ {0}
  BY SuiteAssumption
<1>2. ScoredAs(n) \in DefaultScored \cup Unlisted
  <2>1. DOMAIN Alias = {"integer_arithmetic", "branch_prediction", "pointer", "cache"}
    BY DEF Alias
  <2>2. CASE n \in DOMAIN Alias
    <3>1. Alias[n] \in {"integer", "branch", "pointer_chase", "cache_latency"}
      BY <2>1, <2>2 DEF Alias
    <3> QED
      BY <2>2, <3>1 DEF ScoredAs, DefaultScored
  <2>3. CASE n \notin DOMAIN Alias
    BY <2>3 DEF ScoredAs, Dispatched, Unlisted
  <2> QED
    BY <2>2, <2>3
<1>3. SuiteWeights[ScoredAs(n)] \in Nat
  <2> DEFINE default == [m \in Unlisted |-> KernelWeight]
  <2>1. \A m \in Unlisted : default[m] \in Nat
    BY KernelAssumption
  <2>2. SuiteWeights = WithDefaults(call.weights, default)
    BY DEF SuiteWeights
  <2> HIDE DEF default
  <2> QED
    BY <1>1, <1>2, <2>1, <2>2 DEF WithDefaults
<1>4. SuiteBaselines[ScoredAs(n)] \in Nat \ {0}
  <2> DEFINE default ==
               [m \in Unlisted |->
                  IF m \in IntegerKernels THEN IntegerBaseline ELSE FloatingBaseline]
  <2>1. \A m \in Unlisted : default[m] \in Nat \ {0}
    BY KernelAssumption
  <2>2. SuiteBaselines = WithDefaults(call.baselines, default)
    BY DEF SuiteBaselines
  <2> HIDE DEF default
  <2> QED
    BY <1>1, <1>2, <2>1, <2>2 DEF WithDefaults
<1> QED
  BY <1>3, <1>4

LEMMA ScoresWeighted ==
  ASSUME SuiteInv, StatisticsInv, InSuite
  PROVE  WeightedInv
<1> SUFFICES ASSUME NEW i \in DOMAIN scores
             PROVE  /\ scores[i].stats.total \in Nat \ {0}
                    /\ scores[i].diagnostic = (scores[i].name = "cache_sweep")
                    /\ ~scores[i].diagnostic =>
                         /\ weights[scores[i].name] \in Nat
                         /\ baselines[scores[i].name] \in Nat \ {0}
  BY DEF WeightedInv
<1>1. /\ scores[i].samples \in call.samples /\ Positive(scores[i].samples)
      /\ scores[i].stats = Statistics(scores[i].samples)
      /\ scores[i].diagnostic = (scores[i].name = "cache_sweep")
  BY DEF StatisticsInv
<1>2. call \in Cases
  BY DEF SuiteInv, ControlInv
<1>3. scores[i].stats.total \in Nat \ {0}
  <2>1. /\ call.num_runs \in Nat \ {0}
        /\ scores[i].samples \in [1 .. call.num_runs -> Nat]
    BY <1>1, <1>2, SuiteAssumption
  <2> QED
    BY <1>1, <2>1, TotalPositive
<1>4. ASSUME ~scores[i].diagnostic
      PROVE  weights[scores[i].name] \in Nat /\ baselines[scores[i].name] \in Nat \ {0}
  <2>1. Key(scores[i]) \in BenchmarkKeys /\ Key(scores[i])[1] = scores[i].name
    BY DEF SuiteInv, ScoresInv, Key
  <2>2. scores[i].name # "cache_sweep"
    BY <1>1, <1>4
  <2>3. PICK n \in ToSet(call.benchmarks) \cap Dispatched :
          Key(scores[i]) = <<ScoredAs(n), 0>>
    <3>1. ASSUME NEW k, Key(scores[i]) = <<"cache_sweep", k>> PROVE FALSE
      BY <2>1, <2>2, <3>1
    <3> QED
      BY <2>1, <3>1 DEF BenchmarkKeys
  <2>4. scores[i].name = ScoredAs(n)
    BY <2>1, <2>3
  <2>5. weights = SuiteWeights /\ baselines = SuiteBaselines
    BY DEF SuiteInv, ConfigurationInv
  <2> QED
    BY <1>2, <2>3, <2>4, <2>5, SuiteTables
<1> QED
  BY <1>1, <1>3, <1>4

\* The root-th root of num by den is between two quotients of worth by time in D.
Between(D, worth, time, num, den, root) ==
  /\ \E i \in D : den * Power(worth[i], root) <= num * Power(time[i], root)
  /\ \E i \in D : num * Power(time[i], root) <= den * Power(worth[i], root)

\* Each place f of F stands for the places P[f].  What is worth w[f] at each of them
\* is worth a[f] at all together, and they take the time t[f].  Where the places of
\* every weighted f lie in D, the weighted mean of a[f] by t[f] is between the least
\* and the greatest quotient of worth by time in D.
LEMMA MeanOfGroups ==
  ASSUME NEW n \in Nat, NEW F \in SUBSET (1 .. n), NEW D \in SUBSET (1 .. n), D # {},
         NEW P \in [F -> SUBSET (1 .. n)],
         NEW time \in [1 .. n -> Nat], NEW worth \in [1 .. n -> Nat],
         \A i \in D : time[i] > 0 /\ worth[i] > 0,
         NEW w \in [F -> Nat], NEW v \in [F -> Nat],
         NEW a \in [F -> Nat], NEW t \in [F -> Nat],
         \A f \in F : /\ a[f] = w[f] * Cardinality(P[f])
                      /\ t[f] = Accumulated(Terms(n, P[f], time))
                      /\ v[f] > 0 => P[f] \subseteq D /\ \A j \in P[f] : worth[j] = w[f]
  PROVE  Between(D, worth, time, Multiplied(Factors(n, F, a, v)),
                 Multiplied(Factors(n, F, t, v)), Accumulated(Terms(n, F, v)))
<1> DEFINE root == Accumulated(Terms(n, F, v))
           num  == Multiplied(Factors(n, F, a, v))
           den  == Multiplied(Factors(n, F, t, v))
<1>1. ASSUME NEW f \in F, NEW X \in Nat, NEW Z \in Nat
      PROVE  /\ (\A j \in P[f] : X * time[j] <= w[f] * Z) => X * t[f] <= a[f] * Z
             /\ (\A j \in P[f] : w[f] * Z <= X * time[j]) => a[f] * Z <= X * t[f]
  <2> DEFINE Q == P[f]
             r == [j \in Q |-> time[j]]
             Y == w[f] * Z
  <2>1. Q \in SUBSET (1 .. n) /\ w[f] \in Nat /\ Y \in Nat
    BY Products
  <2>2. r \in [Q -> Nat] /\ \A j \in Q : r[j] = time[j]
    BY <2>1
  <2>3. Terms(n, Q, r) = Terms(n, Q, time)
    BY DEF Terms
  <2>4. a[f] = w[f] * Cardinality(Q) /\ t[f] = Accumulated(Terms(n, Q, r))
    BY <2>3
  <2> HIDE DEF Q, r, Y
  <2>5. /\ Cardinality(Q) \in Nat
        /\ (\A j \in Q : X * r[j] <= Y) => X * t[f] <= Y * Cardinality(Q)
        /\ (\A j \in Q : Y <= X * r[j]) => Y * Cardinality(Q) <= X * t[f]
    <3>1. LET total == Accumulated(Terms(n, Q, r))
          IN  /\ Cardinality(Q) \in Nat
              /\ (\A j \in Q : X * r[j] <= Y) => X * total <= Y * Cardinality(Q)
              /\ (\A j \in Q : Y <= X * r[j]) => Y * Cardinality(Q) <= X * total
      BY <2>1, <2>2, SumOverPlaces
    <3> QED
      BY <2>4, <3>1
  <2>6. Y * Cardinality(Q) = a[f] * Z
    <3>1. \A x, y, z \in Nat : (x * y) * z = (x * z) * y
      OBVIOUS
    <3> QED
      BY <2>1, <2>4, <2>5, <3>1 DEF Y
  <2> QED
    BY <2>2, <2>5, <2>6 DEF Q, Y
<1>2. \E i \in D : num * Power(time[i], root) <= den * Power(worth[i], root)
  <2>1. PICK i \in D : \A j \in D : worth[j] * time[i] <= worth[i] * time[j]
    <3>1. \E i \in D : Greatest(i, D, worth, time)
      BY GreatestQuotient
    <3> QED
      BY <3>1 DEF Greatest
  <2>2. i \in 1 .. n /\ time[i] \in Nat /\ worth[i] \in Nat
    BY <2>1
  <2>3. ASSUME NEW f \in F, v[f] > 0 PROVE a[f] * time[i] <= t[f] * worth[i]
    <3>1. P[f] \subseteq D /\ \A j \in P[f] : worth[j] = w[f]
      BY <2>3
    <3>2. \A j \in P[f] : w[f] * time[i] <= worth[i] * time[j]
      BY <2>1, <3>1
    <3>3. a[f] * time[i] <= worth[i] * t[f]
      BY <1>1, <2>2, <3>2
    <3>4. worth[i] * t[f] = t[f] * worth[i]
      BY <2>2
    <3> QED
      BY <3>3, <3>4
  <2>4. num * Power(time[i], root) <= den * Power(worth[i], root)
    BY <2>2, <2>3, WeightedMean
  <2> QED
    BY <2>1, <2>4
<1>3. \E i \in D : den * Power(worth[i], root) <= num * Power(time[i], root)
  <2>1. PICK i \in D : \A j \in D : time[j] * worth[i] <= time[i] * worth[j]
    <3>1. \E i \in D : Greatest(i, D, time, worth)
      BY GreatestQuotient
    <3> QED
      BY <3>1 DEF Greatest
  <2>2. i \in 1 .. n /\ time[i] \in Nat /\ worth[i] \in Nat
    BY <2>1
  <2>3. ASSUME NEW f \in F, v[f] > 0 PROVE t[f] * worth[i] <= a[f] * time[i]
    <3>1. P[f] \subseteq D /\ \A j \in P[f] : worth[j] = w[f] /\ j \in 1 .. n
      BY <2>3
    <3>2. ASSUME NEW j \in P[f] PROVE worth[i] * time[j] <= w[f] * time[i]
      <4>1. time[j] * worth[i] <= time[i] * worth[j] /\ worth[j] = w[f]
        BY <2>1, <3>1
      <4>2. time[j] \in Nat /\ w[f] \in Nat
        BY <3>1
      <4>3. time[j] * worth[i] = worth[i] * time[j] /\ time[i] * w[f] = w[f] * time[i]
        BY <2>2, <4>2, SMTT(60)
      <4> QED
        BY <4>1, <4>3
    <3>3. worth[i] * t[f] <= a[f] * time[i]
      BY <1>1, <2>2, <3>2
    <3>4. worth[i] * t[f] = t[f] * worth[i]
      BY <2>2
    <3> QED
      BY <3>3, <3>4
  <2>4. den * Power(worth[i], root) <= num * Power(time[i], root)
    BY <2>2, <2>3, WeightedMean
  <2> QED
    BY <2>1, <2>4
<1> QED
  BY <1>2, <1>3 DEF Between

Weighted == {i \in DOMAIN scores : ~scores[i].diagnostic /\ weights[scores[i].name] > 0}

\* Where the benchmark of place f is scored.
SamePlaces(f) == {j \in DOMAIN scores : scores[j].name = scores[f].name}

\* The weights, the allowance of one score, and allowance and time of all scores of
\* a benchmark, at its first place.
FirstWeight == [f \in Firsts(scores) |-> weights[scores[f].name]]
FirstWorth  == [f \in Firsts(scores) |-> baselines[scores[f].name] * call.num_runs]
Allowance   == [f \in Firsts(scores) |-> FirstWorth[f] * Cardinality(SamePlaces(f))]
TimeSpent   == [f \in Firsts(scores) |-> Total(scores, scores[f].name)]
Times       == [i \in DOMAIN scores |-> scores[i].stats.total]

\* Every benchmark that counts has a first place.
LEMMA FirstPlace ==
  ASSUME NEW n \in Nat, DOMAIN scores = 1 .. n, WeightedInv,
         NEW i \in 1 .. n, ~scores[i].diagnostic
  PROVE  \E f \in Firsts(scores) : scores[f].name = scores[i].name
<1> DEFINE S == {j \in 1 .. n : scores[j].name = scores[i].name}
<1>1. PICK f \in S : \A j \in S : f <= j
  <2>1. S \in SUBSET Nat /\ S # {}
    OBVIOUS
  <2> HIDE DEF S
  <2> QED
    BY <2>1, LeastElement
<1>2. f \in 1 .. n /\ scores[f].name = scores[i].name
  BY <1>1
<1>3. ~scores[f].diagnostic
  BY <1>2 DEF WeightedInv
<1>4. ASSUME NEW j \in 1 .. f - 1 PROVE scores[j].name # scores[f].name
  <2>1. j \in 1 .. n /\ ~(f <= j)
    BY <1>2
  <2>2. j \notin S
    <3> HIDE DEF S
    <3> QED
      BY <1>1, <2>1
  <2> QED
    BY <1>2, <2>1, <2>2
<1>5. f \in Firsts(scores)
  BY <1>2, <1>3, <1>4 DEF Firsts
<1> QED
  BY <1>2, <1>5

LEMMA FirstsTyped ==
  ASSUME NEW n \in Nat, DOMAIN scores = 1 .. n, WeightedInv, call.num_runs \in Nat \ {0}
  PROVE  LET F == Firsts(scores)
         IN  /\ F \in SUBSET (1 .. n)
             /\ FirstWeight \in [F -> Nat] /\ FirstWorth \in [F -> Nat]
             /\ Allowance \in [F -> Nat] /\ TimeSpent \in [F -> Nat]
             /\ Times \in [1 .. n -> Nat]
             /\ \A f \in F : /\ SamePlaces(f) \in SUBSET (1 .. n)
                             /\ TimeSpent[f] = Accumulated(Terms(n, SamePlaces(f), Times))
<1> DEFINE F == Firsts(scores)
<1>1. F \in SUBSET (1 .. n) /\ \A f \in F : ~scores[f].diagnostic
  BY DEF Firsts
<1>2. Times \in [1 .. n -> Nat]
  BY DEF Times, WeightedInv
<1>3. ASSUME NEW f \in F
      PROVE  /\ SamePlaces(f) \in SUBSET (1 .. n)
             /\ weights[scores[f].name] \in Nat
             /\ baselines[scores[f].name] * call.num_runs \in Nat
             /\ Cardinality(SamePlaces(f)) \in Nat
             /\ TimeSpent[f] = Accumulated(Terms(n, SamePlaces(f), Times))
             /\ TimeSpent[f] \in Nat
  <2> DEFINE Q == SamePlaces(f)
             r == [j \in Q |-> Times[j]]
  <2>1. Q \in SUBSET (1 .. n)
    BY DEF SamePlaces
  <2>2. weights[scores[f].name] \in Nat /\ baselines[scores[f].name] \in Nat
    BY <1>1 DEF WeightedInv
  <2>3. baselines[scores[f].name] * call.num_runs \in Nat
    BY <2>2, Products
  <2>4. r \in [Q -> Nat] /\ Terms(n, Q, r) = Terms(n, Q, Times)
    BY <1>2, <2>1 DEF Terms
  <2>5. TimeSpent[f] = Accumulated(Terms(n, Q, Times))
    <3> DEFINE x == [i \in DOMAIN scores |->
                       IF scores[i].name = scores[f].name THEN scores[i].stats.total ELSE 0]
    <3>1. x = Terms(n, Q, Times)
      BY <2>1 DEF Terms, SamePlaces, Times
    <3>2. TimeSpent[f] = Accumulated(x)
      BY DEF TimeSpent, Total
    <3> QED
      BY <3>1, <3>2
  <2>6. Accumulated(Terms(n, Q, r)) \in Nat /\ Cardinality(Q) \in Nat
    <3>1. 0 \in Nat
      OBVIOUS
    <3> HIDE DEF Q, r
    <3> QED
      BY <2>1, <2>4, <3>1, SumOverPlaces
  <2> QED
    BY <2>1, <2>2, <2>3, <2>4, <2>5, <2>6
<1>4. FirstWeight \in [F -> Nat] /\ FirstWorth \in [F -> Nat] /\ TimeSpent \in [F -> Nat]
  BY <1>3 DEF FirstWeight, FirstWorth, TimeSpent
<1>5. Allowance \in [F -> Nat]
  <2>1. \A f \in F : FirstWorth[f] * Cardinality(SamePlaces(f)) \in Nat
    BY <1>3, <1>4, Products
  <2> QED
    BY <2>1 DEF Allowance
<1> QED
  BY <1>1, <1>2, <1>3, <1>4, <1>5

\* The combined score, as a weighted mean of the allowance by the time spent.
LEMMA FinalIsMean ==
  ASSUME NEW n \in Nat, DOMAIN scores = 1 .. n, WeightedInv, call.num_runs \in Nat \ {0}
  PROVE  LET F     == Firsts(scores)
             final == FinalScore(weights, baselines, scores)
         IN  /\ final.root = Accumulated(Terms(n, F, FirstWeight))
             /\ final.num = Multiplied(Factors(n, F, Allowance, FirstWeight))
             /\ final.den = Multiplied(Factors(n, F, TimeSpent, FirstWeight))
<1> DEFINE F == Firsts(scores)
           allowed == [i \in F |-> baselines[scores[i].name] * Samples(scores, scores[i].name)]
           final == FinalScore(weights, baselines, scores)
<1>1. F \in SUBSET (1 .. n) /\ \A f \in F : ~scores[f].diagnostic
  BY DEF Firsts
<1>2. allowed = Allowance
  <2>1. ASSUME NEW f \in F PROVE allowed[f] = Allowance[f]
    <3>1. Cardinality(SamePlaces(f)) \in Nat
      <4>1. SamePlaces(f) \in SUBSET (1 .. n) /\ IsFiniteSet(1 .. n)
        BY FS_Interval DEF SamePlaces
      <4> QED
        BY <4>1, FS_Subset, FS_CardinalityType
    <3>2. baselines[scores[f].name] \in Nat
      BY <1>1 DEF WeightedInv
    <3>3. \A x, y, z \in Nat : x * (y * z) = (x * z) * y
      OBVIOUS
    <3>4. Samples(scores, scores[f].name) = Cardinality(SamePlaces(f)) * call.num_runs
      BY DEF Samples, SamePlaces
    <3>5. Allowance[f] =
            (baselines[scores[f].name] * call.num_runs) * Cardinality(SamePlaces(f))
      BY DEF Allowance, FirstWorth
    <3> QED
      BY <3>1, <3>2, <3>3, <3>4, <3>5
  <2> QED
    BY <2>1 DEF Allowance
<1>3. /\ final.num = WeightedProduct(allowed, weights, scores)
      /\ final.den = WeightedProduct(TimeSpent, weights, scores)
      /\ final.root = AppliedWeight(weights, scores)
  BY DEF FinalScore, TimeSpent
<1> HIDE DEF allowed
<1>4. ASSUME NEW x
      PROVE  WeightedProduct(x, weights, scores) = Multiplied(Factors(n, F, x, FirstWeight))
  <2> DEFINE p == [i \in 1 .. n |->
                     IF i \in F THEN Power(x[i], weights[scores[i].name]) ELSE 1]
  <2>1. p = Factors(n, F, x, FirstWeight)
    BY DEF Factors, FirstWeight
  <2>2. WeightedProduct(x, weights, scores) = Multiplied(p)
    BY DEF WeightedProduct
  <2> QED
    BY <2>1, <2>2
<1>5. AppliedWeight(weights, scores) = Accumulated(Terms(n, F, FirstWeight))
  <2> DEFINE p == [i \in 1 .. n |-> IF i \in F THEN weights[scores[i].name] ELSE 0]
  <2>1. p = Terms(n, F, FirstWeight)
    BY DEF Terms, FirstWeight
  <2>2. AppliedWeight(weights, scores) = Accumulated(p)
    BY DEF AppliedWeight
  <2> QED
    BY <2>1, <2>2
<1> QED
  BY <1>2, <1>3, <1>4, <1>5

\* The combined score has a root unless nothing with a weight has run.
LEMMA RootOfWeighted ==
  ASSUME NEW n \in Nat, DOMAIN scores = 1 .. n, WeightedInv, call.num_runs \in Nat \ {0}
  PROVE  Weighted = {} <=> FinalScore(weights, baselines, scores).root = 0
<1> DEFINE F == Firsts(scores)
           final == FinalScore(weights, baselines, scores)
<1>1. F \in SUBSET (1 .. n) /\ FirstWeight \in [F -> Nat]
  BY FirstsTyped
<1>2. final.root = Accumulated(Terms(n, F, FirstWeight))
  BY FinalIsMean
<1>3. final.root = 0 <=> \A f \in F : FirstWeight[f] = 0
  <2>1. 0 \in Nat
    OBVIOUS
  <2> HIDE DEF F, final
  <2> QED
    BY <1>1, <1>2, <2>1, SumOverPlaces
<1>4. ASSUME NEW f \in F PROVE f \in Weighted <=> FirstWeight[f] # 0
  <2>1. f \in DOMAIN scores /\ ~scores[f].diagnostic
    BY DEF Firsts
  <2>2. FirstWeight[f] = weights[scores[f].name] /\ weights[scores[f].name] \in Nat
    BY <2>1 DEF FirstWeight, WeightedInv
  <2> QED
    BY <2>1, <2>2 DEF Weighted
<1>5. ASSUME NEW i \in Weighted PROVE \E f \in F : f \in Weighted
  <2>1. i \in 1 .. n /\ ~scores[i].diagnostic /\ weights[scores[i].name] > 0
    BY DEF Weighted
  <2>2. PICK f \in F : scores[f].name = scores[i].name
    BY <2>1, FirstPlace
  <2>3. f \in DOMAIN scores /\ ~scores[f].diagnostic
    BY DEF Firsts
  <2>4. f \in Weighted
    BY <2>1, <2>2, <2>3 DEF Weighted
  <2> QED
    BY <2>2, <2>4
<1> QED
  BY <1>3, <1>4, <1>5

LEMMA MeanOfWeighted ==
  ASSUME NEW n \in Nat, DOMAIN scores = 1 .. n, WeightedInv, call.num_runs \in Nat \ {0},
         Weighted # {}
  PROVE  LET final == FinalScore(weights, baselines, scores)
             AtFinal(i) == final.num * Power(scores[i].stats.total, final.root)
             AtScore(i) ==
               final.den * Power(baselines[scores[i].name] * call.num_runs, final.root)
         IN  /\ \E i \in Weighted : AtScore(i) <= AtFinal(i)
             /\ \E i \in Weighted : AtFinal(i) <= AtScore(i)
<1> DEFINE F == Firsts(scores)
           final == FinalScore(weights, baselines, scores)
           R == call.num_runs
           P == [f \in F |-> SamePlaces(f)]
           worth == [i \in 1 .. n |->
                       IF i \in Weighted THEN baselines[scores[i].name] * R ELSE 0]
<1>1. /\ F \in SUBSET (1 .. n)
      /\ FirstWeight \in [F -> Nat] /\ FirstWorth \in [F -> Nat]
      /\ Allowance \in [F -> Nat] /\ TimeSpent \in [F -> Nat]
      /\ Times \in [1 .. n -> Nat]
      /\ \A f \in F : /\ SamePlaces(f) \in SUBSET (1 .. n)
                      /\ TimeSpent[f] = Accumulated(Terms(n, SamePlaces(f), Times))
  BY FirstsTyped
<1>2. Weighted \in SUBSET (1 .. n)
  BY DEF Weighted
<1>3. ASSUME NEW i \in Weighted
      PROVE  /\ Times[i] > 0 /\ Times[i] = scores[i].stats.total
             /\ worth[i] = baselines[scores[i].name] * R
             /\ worth[i] \in Nat /\ worth[i] > 0
  <2>1. /\ i \in 1 .. n
        /\ scores[i].stats.total \in Nat \ {0} /\ baselines[scores[i].name] \in Nat \ {0}
    BY <1>2 DEF Weighted, WeightedInv
  <2>2. \A x, y \in Nat \ {0} : x * y \in Nat /\ x * y > 0
    OBVIOUS
  <2>3. worth[i] = baselines[scores[i].name] * R
    BY <2>1
  <2> QED
    BY <2>1, <2>2, <2>3 DEF Times
<1>4. worth \in [1 .. n -> Nat]
  <2>1. \A i \in 1 .. n : i \notin Weighted => worth[i] = 0
    OBVIOUS
  <2> QED
    BY <1>3, <2>1
<1>5. P \in [F -> SUBSET (1 .. n)] /\ \A f \in F : P[f] = SamePlaces(f)
  BY <1>1
<1>6. ASSUME NEW f \in F, FirstWeight[f] > 0
      PROVE  P[f] \subseteq Weighted /\ \A j \in P[f] : worth[j] = FirstWorth[f]
  <2>1. /\ f \in DOMAIN scores /\ ~scores[f].diagnostic
        /\ FirstWeight[f] = weights[scores[f].name]
        /\ FirstWorth[f] = baselines[scores[f].name] * R
    BY DEF Firsts, FirstWeight, FirstWorth
  <2>2. ASSUME NEW j \in P[f] PROVE j \in Weighted /\ worth[j] = FirstWorth[f]
    <3>1. j \in DOMAIN scores /\ scores[j].name = scores[f].name
      BY <1>5 DEF SamePlaces
    <3>2. ~scores[j].diagnostic
      BY <2>1, <3>1 DEF WeightedInv
    <3>3. j \in Weighted
      BY <1>6, <2>1, <3>1, <3>2 DEF Weighted
    <3> QED
      BY <1>3, <2>1, <3>1, <3>3
  <2> QED
    BY <2>2
<1>7. \A f \in F :
        /\ Allowance[f] = FirstWorth[f] * Cardinality(P[f])
        /\ TimeSpent[f] = Accumulated(Terms(n, P[f], Times))
        /\ FirstWeight[f] > 0 =>
             P[f] \subseteq Weighted /\ \A j \in P[f] : worth[j] = FirstWorth[f]
  <2>1. \A f \in F : Allowance[f] = FirstWorth[f] * Cardinality(P[f])
    BY <1>5 DEF Allowance
  <2> HIDE DEF F, P, worth
  <2> QED
    BY <1>1, <1>5, <1>6, <2>1
<1>8. \A i \in Weighted : Times[i] > 0 /\ worth[i] > 0
  BY <1>3
<1> DEFINE Mean(num, den, root) == Between(Weighted, worth, Times, num, den, root)
<1>9. Mean(Multiplied(Factors(n, F, Allowance, FirstWeight)),
           Multiplied(Factors(n, F, TimeSpent, FirstWeight)),
           Accumulated(Terms(n, F, FirstWeight)))
  <2> HIDE DEF F, P, worth
  <2> QED
    BY <1>1, <1>2, <1>4, <1>5, <1>7, <1>8, MeanOfGroups, ZenonT(60)
<1>10. Mean(final.num, final.den, final.root)
  <2>1. /\ final.num = Multiplied(Factors(n, F, Allowance, FirstWeight))
        /\ final.den = Multiplied(Factors(n, F, TimeSpent, FirstWeight))
        /\ final.root = Accumulated(Terms(n, F, FirstWeight))
    BY FinalIsMean
  <2> HIDE DEF final, F, Mean
  <2> QED
    BY <1>9, <2>1
<1> HIDE DEF final, worth
<1> QED
  BY <1>3, <1>10 DEF final, Between

\* Whatever ran, however often it is listed, and whatever its weights and its samples
\* are: the combined score is between the lowest and the highest score of the
\* benchmarks that have a weight, and is 0 only without any.
THEOREM CombinedBetween == Spec => []CombinedIsBetween
<1>1. ASSUME SuiteInv, StatisticsInv PROVE CombinedIsBetween
  <2> SUFFICES ASSUME InSuite PROVE CombinedIsBetween
    BY DEF CombinedIsBetween, InSuite
  <2> DEFINE n == Len(scores)
             final == FinalScore(weights, baselines, scores)
             AtFinal(i) == final.num * Power(scores[i].stats.total, final.root)
             AtScore(i) ==
               final.den * Power(baselines[scores[i].name] * call.num_runs, final.root)
  <2>1. n \in Nat /\ DOMAIN scores = 1 .. n
    BY <1>1, EntriesTyped DEF SuiteInv, ScoresInv
  <2>2. WeightedInv /\ call.num_runs \in Nat \ {0}
    BY <1>1, ScoresWeighted, SuiteAssumption DEF SuiteInv, ControlInv
  <2>3. Weighted = {} <=> final.root = 0
    BY <2>1, <2>2, RootOfWeighted
  <2>4. ASSUME Weighted # {}
        PROVE  /\ \E i \in Weighted : AtScore(i) <= AtFinal(i)
               /\ \E i \in Weighted : AtFinal(i) <= AtScore(i)
    BY <2>1, <2>2, <2>4, MeanOfWeighted
  <2>5. ASSUME NEW i \in Weighted, AtScore(i) <= AtFinal(i) PROVE AtFinal(i) >= AtScore(i)
    BY <2>5
  <2> HIDE DEF AtFinal, AtScore
  <2>6. Weighted # {} => /\ \E i \in Weighted : AtFinal(i) >= AtScore(i)
                         /\ \E i \in Weighted : AtFinal(i) <= AtScore(i)
    BY <2>4, <2>5
  <2> QED
    BY <2>3, <2>6 DEF CombinedIsBetween, Weighted, AtFinal, AtScore
<1> QED
  BY <1>1, SuiteInvariance, StatisticsInit, StatisticsStep, SuiteInvInit, SuiteInvStep,
     PTL DEF Spec

=============================================================================

----------------------------- MODULE StressTest -----------------------------
(***************************************************************************)
(* The stress test: run_stress_test repeats the suite until SIGINT or      *)
(* SIGTERM sets benchmark_interrupt::requested, which the main thread      *)
(* looks at between the calls it makes (benchmark_interrupt::check).       *)
(*                                                                         *)
(* A "call" is a piece of work on the thread pool: preparing a benchmark's *)
(* workloads, its setup, or one run of it.  A call either returns or       *)
(* throws, which is what ThreadPool promises.  A point of the cache size   *)
(* sweep counts as a benchmark: it has the same checks and calls.          *)
(***************************************************************************)
EXTENDS Integers

CONSTANTS
  NumBenchmarks,  \* length of the list of benchmark names
  Prepared,       \* the positions in it whose workloads are built beforehand
  HasSetup,       \* those with a setup before every run (sorting)
  Warmups,        \* warmup_runs, 5 in the code
  NumRuns,        \* num_runs
  CountModulus,   \* bound: `completed` wraps here, at 2^64 in the code
  LateCap         \* bound: the history variable `late` counts this far

ASSUME StressAssumption ==
  /\ NumBenchmarks \in Nat \ {0}
  /\ Prepared \subseteq 1 .. NumBenchmarks
  /\ HasSetup \subseteq 1 .. NumBenchmarks
  /\ Warmups \in Nat
  /\ NumRuns \in Nat \ {0}
  /\ CountModulus \in Nat \ {0}
  /\ LateCap \in Nat \ {0, 1}

NotYet == -1  \* no exit code so far

Benchmarks == 1 .. NumBenchmarks
Signals    == {"SIGINT", "SIGTERM"}
CallKinds  == {"prepare", "setup", "run"}

VARIABLES
  requested,  \* benchmark_interrupt::requested
  handler,    \* disposition of each signal
  pc,         \* control point of the main thread, or how the process ended
  kind,       \* the kind of the call in progress
  bench,      \* position in the list of benchmarks
  run,        \* warmups and measured runs of it that have ended
  samples,    \* size of run_times
  fresh,      \* the input is as setup left it
  scored,     \* benchmarks with a score in this cycle's scorer
  completed,  \* cycles, modulo CountModulus
  exit,       \* exit code, once it is decided
  late        \* history: calls that began after the request

loopVars == <<kind, bench, run, samples, fresh, scored>>
vars == <<requested, handler, pc, loopVars, completed, exit, late>>

Ended == pc \in {"exited", "killed"}

ControlPoints ==
  {"reset", "int", "term", "cycle", "build", "bench", "checkSetup", "checkRun",
   "checkEnd", "call", "score", "summary", "unwind", "restoreInt",
   "restoreTerm", "exited", "killed"} \cup CallKinds

TypeOK ==
  /\ requested \in BOOLEAN
  /\ handler \in [Signals -> {"default", "request_stop"}]
  /\ pc \in ControlPoints
  /\ kind \in CallKinds
  /\ bench \in 1 .. NumBenchmarks + 1
  /\ run \in 0 .. Warmups + NumRuns
  /\ samples \in 0 .. NumRuns
  /\ fresh \in BOOLEAN
  /\ scored \subseteq Benchmarks
  /\ completed \in 0 .. CountModulus - 1
  /\ exit \in {NotYet, 0, 1}
  /\ late \in 0 .. LateCap

Init ==
  /\ requested = FALSE
  /\ handler = [s \in Signals |-> "default"]
  /\ pc = "reset"
  /\ kind = "prepare"
  /\ bench = 1
  /\ run = 0
  /\ samples = 0
  /\ fresh = FALSE
  /\ scored = {}
  /\ completed = 0
  /\ exit = NotYet
  /\ late = 0

Goto(from, to) == pc = from /\ pc' = to

\* benchmark_interrupt::check: the exception is caught in run_stress_test, on
\* its way it destroys the pool and the half-finished cycle.
Check(from, to) == Goto(from, IF requested THEN "summary" ELSE to)

-----------------------------------------------------------------------------
(* stress_signal_guard.                                                    *)

Reset ==
  /\ Goto("reset", "int")
  /\ requested' = FALSE
  /\ UNCHANGED <<handler, loopVars, completed, exit, late>>

InstallInt ==
  /\ Goto("int", "term")
  /\ handler' = [handler EXCEPT !["SIGINT"] = "request_stop"]
  /\ UNCHANGED <<requested, loopVars, completed, exit, late>>

InstallTerm ==
  /\ Goto("term", "cycle")
  /\ handler' = [handler EXCEPT !["SIGTERM"] = "request_stop"]
  /\ UNCHANGED <<requested, loopVars, completed, exit, late>>

\* std::signal returns SIG_ERR: the constructor throws, so the destructor will
\* not run, and main reports the error.
InstallIntFails ==
  /\ Goto("int", "exited")
  /\ exit' = 1
  /\ UNCHANGED <<requested, handler, loopVars, completed, late>>

\* Fault: the first handler stays when the second cannot be installed.
InstallTermFailsAndKeepsInt ==
  /\ Goto("term", "exited")
  /\ exit' = 1
  /\ UNCHANGED <<requested, handler, loopVars, completed, late>>

InstallTermFails ==
  /\ Goto("term", "exited")
  /\ handler' = [handler EXCEPT !["SIGINT"] = "default"]
  /\ exit' = 1
  /\ UNCHANGED <<requested, loopVars, completed, late>>

Restore(signal, from, to) ==
  /\ Goto(from, to)
  /\ handler' = [handler EXCEPT ![signal] = "default"]
  /\ UNCHANGED <<requested, loopVars, completed, exit, late>>

RestoreInt  == Restore("SIGINT", "restoreInt", "restoreTerm")
RestoreTerm == Restore("SIGTERM", "restoreTerm", "exited")

\* The environment: a signal arrives at any moment, on any thread.  Whether
\* the delivery resets a disposition that std::signal installed is up to the
\* platform: it does on Windows, and does not with glibc.
Signal(signal) ==
  /\ ~Ended
  /\ \/ /\ handler[signal] = "default"
        /\ pc' = "killed"
        /\ UNCHANGED <<requested, handler>>
     \/ /\ handler[signal] # "default"
        /\ requested' = TRUE
        /\ handler' \in {handler, [handler EXCEPT ![signal] = "default"]}
        /\ UNCHANGED pc
  /\ UNCHANGED <<loopVars, completed, exit, late>>

-----------------------------------------------------------------------------
(* run_stress_test and the loop of run_specific_benchmarks.                *)

\* Faults: every cycle clears the flag, or the list is not started over.
StartCycleClearsRequest ==
  /\ Check("cycle", "build")
  /\ requested' = FALSE
  /\ bench' = 1
  /\ scored' = {}
  /\ UNCHANGED <<handler, kind, run, samples, fresh, completed, exit, late>>

StartCycleKeepsPosition ==
  /\ Check("cycle", "build")
  /\ scored' = {}
  /\ UNCHANGED <<requested, handler, kind, bench, run, samples, fresh,
                 completed, exit, late>>

StartCycle ==
  /\ Check("cycle", "build")
  /\ bench' = 1
  /\ scored' = {}
  /\ UNCHANGED <<requested, handler, kind, run, samples, fresh, completed,
                 exit, late>>

\* The settings are validated and the pool is built, or either of them throws.
Build ==
  /\ pc = "build"
  /\ pc' \in {"bench", "unwind"}
  /\ UNCHANGED <<requested, handler, loopVars, completed, exit, late>>

\* Fault: run_times outlives its benchmark.
NextBenchmarkKeepsRuns ==
  /\ bench <= NumBenchmarks
  /\ Check("bench", IF bench \in Prepared THEN "prepare" ELSE "checkSetup")
  /\ UNCHANGED <<requested, handler, loopVars, completed, exit, late>>

NextBenchmark ==
  /\ bench <= NumBenchmarks
  /\ Check("bench", IF bench \in Prepared THEN "prepare" ELSE "checkSetup")
  /\ run' = 0
  /\ samples' = 0
  /\ fresh' = FALSE
  /\ UNCHANGED <<requested, handler, kind, bench, scored, completed, exit, late>>

\* The benchmark does not fit its limits (memory_bandwidth, n_body).
BenchmarkRejected ==
  /\ ~requested
  /\ bench <= NumBenchmarks
  /\ Goto("bench", "unwind")
  /\ UNCHANGED <<requested, handler, loopVars, completed, exit, late>>

\* Fault: a cycle counts as soon as it starts its last benchmark.
EndCycleEarly ==
  /\ bench >= NumBenchmarks
  /\ Goto("bench", "cycle")
  /\ completed' = (completed + 1) % CountModulus
  /\ UNCHANGED <<requested, handler, loopVars, exit, late>>

EndCycle ==
  /\ bench > NumBenchmarks
  /\ Goto("bench", "cycle")
  /\ completed' = (completed + 1) % CountModulus
  /\ UNCHANGED <<requested, handler, loopVars, exit, late>>

\* Fault: the exception is caught inside the loop.
SummaryInsideLoop ==
  /\ Goto("summary", "cycle")
  /\ UNCHANGED <<requested, handler, loopVars, completed, exit, late>>

\* Only `interrupted` is caught; the summary is printed and the result is 0.
Summary ==
  /\ Goto("summary", "restoreInt")
  /\ exit' = 0
  /\ UNCHANGED <<requested, handler, loopVars, completed, late>>

\* Any other exception leaves run_stress_test; main reports it and returns 1.
Unwind ==
  /\ Goto("unwind", "restoreInt")
  /\ exit' = 1
  /\ UNCHANGED <<requested, handler, loopVars, completed, late>>

-----------------------------------------------------------------------------
(* benchmark::run_benchmark, and the calls it makes.                       *)

CheckSetup ==
  /\ Check("checkSetup", IF bench \in HasSetup THEN "setup" ELSE "checkRun")
  /\ UNCHANGED <<requested, handler, loopVars, completed, exit, late>>

\* Fault: no check between setup and run.
CheckRunForgotten ==
  /\ Goto("checkRun", "run")
  /\ UNCHANGED <<requested, handler, loopVars, completed, exit, late>>

CheckRun ==
  /\ Check("checkRun", "run")
  /\ UNCHANGED <<requested, handler, loopVars, completed, exit, late>>

CheckEnd ==
  /\ Check("checkEnd", "score")
  /\ UNCHANGED <<requested, handler, loopVars, completed, exit, late>>

BeginCall(k) ==
  /\ Goto(k, "call")
  /\ kind' = k
  /\ late' = IF requested /\ late < LateCap THEN late + 1 ELSE late
  /\ UNCHANGED <<requested, handler, bench, run, samples, fresh, scored,
                 completed, exit>>

EndPrepare ==
  /\ kind = "prepare"
  /\ Goto("call", "checkSetup")
  /\ UNCHANGED <<requested, handler, loopVars, completed, exit, late>>

EndSetup ==
  /\ kind = "setup"
  /\ Goto("call", "checkRun")
  /\ fresh' = TRUE
  /\ UNCHANGED <<requested, handler, kind, bench, run, samples, scored,
                 completed, exit, late>>

\* Fault: the setup runs once, before the loop.
EndRunWithoutSetup ==
  /\ kind = "run"
  /\ Goto("call", IF run + 1 < Warmups + NumRuns THEN "checkRun" ELSE "checkEnd")
  /\ run' = run + 1
  /\ samples' = IF run < Warmups THEN samples ELSE samples + 1
  /\ fresh' = FALSE
  /\ UNCHANGED <<requested, handler, kind, bench, scored, completed, exit, late>>

\* The run leaves its input used (sorted); it is a sample when the warmups are
\* over.
EndRun ==
  /\ kind = "run"
  /\ Goto("call", IF run + 1 < Warmups + NumRuns THEN "checkSetup" ELSE "checkEnd")
  /\ run' = run + 1
  /\ samples' = IF run < Warmups THEN samples ELSE samples + 1
  /\ fresh' = FALSE
  /\ UNCHANGED <<requested, handler, kind, bench, scored, completed, exit, late>>

CallThrows ==
  /\ Goto("call", "unwind")
  /\ UNCHANGED <<requested, handler, loopVars, completed, exit, late>>

AddScore ==
  /\ Goto("score", "bench")
  /\ scored' = scored \cup {bench}
  /\ bench' = bench + 1
  /\ UNCHANGED <<requested, handler, kind, run, samples, fresh, completed, exit,
                 late>>

\* scorer::add_score rejects a sample of no measurable duration.
ScoreRejected ==
  /\ Goto("score", "unwind")
  /\ UNCHANGED <<requested, handler, loopVars, completed, exit, late>>

-----------------------------------------------------------------------------
Main ==
  \/ Reset \/ InstallInt \/ InstallIntFails \/ InstallTerm \/ InstallTermFails
  \/ RestoreInt \/ RestoreTerm
  \/ StartCycle \/ Build \/ NextBenchmark \/ BenchmarkRejected \/ EndCycle
  \/ Summary \/ Unwind
  \/ CheckSetup \/ CheckRun \/ CheckEnd
  \/ \E k \in CallKinds : BeginCall(k)
  \/ EndPrepare \/ EndSetup \/ EndRun \/ CallThrows
  \/ AddScore \/ ScoreRejected

Finished == Ended /\ UNCHANGED vars

Next == Main \/ (\E s \in Signals : Signal(s)) \/ Finished

Spec == Init /\ [][Next]_vars

\* The main thread is scheduled, and its calls end. Signals need not come.
FairSpec == Spec /\ WF_vars(Main)

-----------------------------------------------------------------------------
(* Properties.                                                             *)

\* "Shutdown waits for the current workload/setup call to finish": a request
\* can find the main thread just past a check, so one call may still begin,
\* and never a second one.
AtMostOneLateCall == late <= 1

\* A request is never lost, from the moment a handler is installed; and a signal
\* kills the process only where the guard is not complete, or as a second one
\* that finds the handler reset by the first.
RequestIsKept ==
  [][/\ requested => requested'
     /\ pc' = "killed" /\ ~Ended =>
          requested \/ pc \in {"reset", "int", "term", "restoreTerm"}]_vars

\* The test ends with code 0 only because it was asked to, and counts a cycle
\* only when every benchmark in it was scored.
OnlyWholeCyclesCount ==
  [][/\ completed' # completed => scored = Benchmarks
     /\ exit' = 0 /\ exit # 0 => requested]_vars

\* What is scored is num_runs samples, the warmups not among them, and each of
\* the runs found the input its setup made.
SamplesAreMeasured ==
  /\ pc = "score" => samples = NumRuns /\ run = Warmups + NumRuns
  /\ pc = "run" \/ (pc = "call" /\ kind = "run") =>
       (bench \in HasSetup => fresh)

\* However the guard's construction or the test itself ends, short of a kill,
\* the process is left with the dispositions it had.
HandlersRestored ==
  pc = "exited" => \A s \in Signals : handler[s] = "default"

\* A request, wherever it finds the main thread, ends the test.
StopsWhenAsked == requested ~> Ended

\* Until the process ends, which takes a request, a kill or an error, there is
\* always another call: the load never ceases.
KeepsTheLoadUp == []<>(pc = "call") \/ <>Ended

=============================================================================

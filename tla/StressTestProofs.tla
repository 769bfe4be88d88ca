-------------------------- MODULE StressTestProofs --------------------------
(***************************************************************************)
(* The stress test keeps its safety properties for every list of           *)
(* benchmarks, every number of warmups and runs, and every arrival of      *)
(* signals; it ends soon after a request, and until then the load goes on. *)
(***************************************************************************)
EXTENDS StressTest, TLAPS

\* The handlers change only in the guard, in the order of its code, and nothing
\* has been asked before the first of them is installed.
HandlerInv ==
  /\ pc \in {"reset", "int"} => ~requested
  /\ pc \in {"reset", "int", "term"} => handler["SIGTERM"] = "default"
  /\ pc \in {"reset", "int", "restoreTerm"} => handler["SIGINT"] = "default"
  /\ pc = "exited" => \A s \in Signals : handler[s] = "default"
  /\ pc \notin {"reset", "int", "term", "restoreTerm", "exited", "killed"} =>
       requested \/ \A s \in Signals : handler[s] = "request_stop"
  /\ pc = "term" => requested \/ handler["SIGINT"] = "request_stop"

\* The suite goes through its list in order, and is left for the summary only
\* by the exception of a check.
SuiteInv ==
  /\ scored = 1 .. bench - 1
  /\ pc \in {"checkSetup", "checkRun", "checkEnd", "call", "score"} \cup CallKinds
       => bench <= NumBenchmarks
  /\ pc = "summary" => requested

\* run_benchmark: where its loop is, and when the input is fresh.
LoopInv ==
  /\ samples = IF run < Warmups THEN 0 ELSE run - Warmups
  /\ pc \in {"checkSetup", "checkRun", "call"} \cup CallKinds
       => run < Warmups + NumRuns
  /\ pc \in {"checkEnd", "score"} => run = Warmups + NumRuns
  /\ pc \in {"checkRun", "run"} \/ (pc = "call" /\ kind = "run")
       => (bench \in HasSetup => fresh)

\* Once a call began after the request, no other call can begin before a check.
LateInv ==
  /\ late <= 1
  /\ late = 1 =>
       /\ requested
       /\ pc \in {"call", "checkSetup", "checkRun", "checkEnd", "summary",
                  "unwind", "restoreInt", "restoreTerm", "exited", "killed"}

IInv == TypeOK /\ HandlerInv /\ SuiteInv /\ LoopInv /\ LateInv

-----------------------------------------------------------------------------
\* The invariant holds before the guard is built.
LEMMA InitInv == Init => IInv
<1> SUFFICES ASSUME Init PROVE IInv
  OBVIOUS
<1>1. handler \in [Signals -> {"default", "request_stop"}]
  BY DEF Init
<1>2. TypeOK
  <2>1. 0 \in 0 .. Warmups + NumRuns /\ 0 \in 0 .. NumRuns /\ 0 \in 0 .. LateCap
    BY StressAssumption
  <2>2. 1 \in 1 .. NumBenchmarks + 1 /\ 0 \in 0 .. CountModulus - 1
    BY StressAssumption
  <2> QED
    BY <1>1, <2>1, <2>2 DEF Init, TypeOK, CallKinds, ControlPoints, NotYet
<1>3. scored = 1 .. bench - 1
  <2>1. bench = 1 /\ scored = {}
    BY DEF Init
  <2> QED
    BY <2>1
<1>4. HandlerInv /\ SuiteInv
  BY <1>3 DEF Init, HandlerInv, SuiteInv, Signals, CallKinds
<1>5. LoopInv /\ LateInv
  BY StressAssumption DEF Init, LoopInv, LateInv, CallKinds
<1> QED
  BY <1>2, <1>4, <1>5 DEF IInv

\* Every step but a signal moves the control point of the main thread only
\* where its guard says.
LEMMA StepInv == IInv /\ [Next]_vars => IInv'
<1> SUFFICES ASSUME IInv, [Next]_vars PROVE IInv'
  OBVIOUS
<1> USE StressAssumption DEF IInv, TypeOK, ControlPoints, CallKinds, Signals
<1>1. CASE UNCHANGED vars
  BY <1>1 DEF vars, loopVars, HandlerInv, SuiteInv, LoopInv, LateInv
<1>2. CASE Reset \/ InstallInt \/ InstallIntFails \/ InstallTerm
             \/ InstallTermFails
  <2>1. TypeOK'
    BY <1>2 DEF Reset, InstallInt, InstallIntFails, InstallTerm,
                InstallTermFails, Goto, loopVars
  <2>2. HandlerInv'
    BY <1>2 DEF Reset, InstallInt, InstallIntFails, InstallTerm,
                InstallTermFails, Goto, loopVars, HandlerInv
  <2>3. SuiteInv' /\ LoopInv' /\ LateInv'
    BY <1>2 DEF Reset, InstallInt, InstallIntFails, InstallTerm,
                InstallTermFails, Goto, loopVars, SuiteInv, LoopInv, LateInv
  <2> QED
    BY <2>1, <2>2, <2>3
<1>3. CASE RestoreInt \/ RestoreTerm
  <2>1. TypeOK' /\ HandlerInv'
    BY <1>3 DEF RestoreInt, RestoreTerm, Restore, Goto, loopVars, HandlerInv
  <2>2. SuiteInv' /\ LoopInv' /\ LateInv'
    BY <1>3 DEF RestoreInt, RestoreTerm, Restore, Goto, loopVars, SuiteInv,
                LoopInv, LateInv
  <2> QED
    BY <2>1, <2>2
<1>4. CASE StartCycle
  <2>1. bench' = 1 /\ scored' = {}
    BY <1>4 DEF StartCycle
  <2>2. pc = "cycle" /\ pc' \in {"build", "summary"} /\ (pc' = "summary" => requested')
    BY <1>4 DEF StartCycle, Check, Goto
  <2>3. TypeOK'
    BY <1>4, <2>1, <2>2 DEF StartCycle
  <2>4. scored' = 1 .. bench' - 1
    BY <2>1
  <2>5. HandlerInv' /\ SuiteInv'
    BY <1>4, <2>1, <2>2, <2>4 DEF StartCycle, HandlerInv, SuiteInv
  <2>6. LoopInv' /\ LateInv'
    BY <1>4, <2>2 DEF StartCycle, LoopInv, LateInv
  <2> QED
    BY <2>3, <2>5, <2>6
<1>12. CASE NextBenchmark
  <2>1. /\ pc = "bench" /\ pc' \in {"prepare", "checkSetup", "summary"}
        /\ pc' = "summary" <=> requested
    BY <1>12 DEF NextBenchmark, Check, Goto
  <2>2. TypeOK'
    <3>1. 0 \in 0 .. Warmups + NumRuns /\ 0 \in 0 .. NumRuns
      OBVIOUS
    <3> QED
      BY <1>12, <2>1, <3>1 DEF NextBenchmark
  <2>3. HandlerInv' /\ SuiteInv'
    BY <1>12, <2>1 DEF NextBenchmark, HandlerInv, SuiteInv
  <2>4. LoopInv' /\ LateInv'
    BY <1>12, <2>1 DEF NextBenchmark, LoopInv, LateInv
  <2> QED
    BY <2>2, <2>3, <2>4
<1>5. CASE Build \/ EndCycle \/ Summary \/ Unwind
  <2>1. TypeOK' /\ HandlerInv'
    BY <1>5 DEF Build, EndCycle, Summary, Unwind, Goto, loopVars, HandlerInv
  <2>2. SuiteInv' /\ LoopInv' /\ LateInv'
    BY <1>5 DEF Build, EndCycle, Summary, Unwind, Goto, loopVars, SuiteInv,
                LoopInv, LateInv
  <2> QED
    BY <2>1, <2>2
<1>6. CASE CheckSetup \/ CheckRun \/ CheckEnd
  <2>1. TypeOK' /\ HandlerInv'
    BY <1>6 DEF CheckSetup, CheckRun, CheckEnd, Check, Goto, loopVars,
                HandlerInv
  <2>2. SuiteInv' /\ LoopInv' /\ LateInv'
    BY <1>6 DEF CheckSetup, CheckRun, CheckEnd, Check, Goto, loopVars,
                SuiteInv, LoopInv, LateInv
  <2> QED
    BY <2>1, <2>2
<1>7. ASSUME NEW k \in CallKinds, BeginCall(k) PROVE IInv'
  <2>1. TypeOK' /\ HandlerInv' /\ SuiteInv'
    BY <1>7 DEF BeginCall, Goto, HandlerInv, SuiteInv, LateInv
  <2>2. LoopInv' /\ LateInv'
    BY <1>7 DEF BeginCall, Goto, LoopInv, LateInv
  <2> QED
    BY <2>1, <2>2
<1>8. CASE EndPrepare \/ EndSetup \/ CallThrows \/ ScoreRejected
             \/ BenchmarkRejected
  <2>1. TypeOK' /\ HandlerInv'
    BY <1>8 DEF EndPrepare, EndSetup, CallThrows, ScoreRejected,
                BenchmarkRejected, Goto,
                loopVars, HandlerInv
  <2>2. SuiteInv' /\ LoopInv' /\ LateInv'
    BY <1>8 DEF EndPrepare, EndSetup, CallThrows, ScoreRejected,
                BenchmarkRejected, Goto,
                loopVars, SuiteInv, LoopInv, LateInv
  <2> QED
    BY <2>1, <2>2
<1>9. CASE EndRun
  <2>1. LoopInv'
    BY <1>9 DEF EndRun, Goto, LoopInv
  <2>2. TypeOK'
    <3>1. /\ pc' \in {"checkSetup", "checkEnd"}
          /\ run' = run + 1
          /\ samples' = IF run < Warmups THEN samples ELSE samples + 1
          /\ run < Warmups + NumRuns
      BY <1>9 DEF EndRun, Goto, LoopInv
    <3>2. run' \in 0 .. Warmups + NumRuns /\ samples' \in 0 .. NumRuns
      BY <3>1 DEF LoopInv
    <3> QED
      BY <1>9, <3>1, <3>2 DEF EndRun
  <2>4. HandlerInv'
    BY <1>9 DEF EndRun, Goto, HandlerInv
  <2>3. SuiteInv' /\ LateInv'
    BY <1>9 DEF EndRun, Goto, SuiteInv, LateInv
  <2> QED
    BY <2>1, <2>2, <2>3, <2>4
<1>10. CASE AddScore
  <2>1. TypeOK' /\ HandlerInv' /\ SuiteInv'
    BY <1>10 DEF AddScore, Goto, HandlerInv, SuiteInv, Benchmarks
  <2>2. LoopInv' /\ LateInv'
    BY <1>10 DEF AddScore, Goto, LoopInv, LateInv
  <2> QED
    BY <2>1, <2>2
<1>11. ASSUME NEW s \in Signals, Signal(s) PROVE IInv'
  <2>1. HandlerInv'
    BY <1>11 DEF Signal, Ended, loopVars, HandlerInv
  <2>5. TypeOK'
    <3>1. UNCHANGED <<kind, bench, run, samples, fresh, scored, completed, exit,
                      late>>
      BY <1>11 DEF Signal, loopVars
    <3>2. pc' \in {pc, "killed"} /\ requested' \in {requested, TRUE}
      BY <1>11 DEF Signal
    <3>3. handler' \in {handler, [handler EXCEPT ![s] = "default"]}
      BY <1>11 DEF Signal
    <3>4. pc' \in ControlPoints /\ requested' \in BOOLEAN
      BY <3>2
    <3>5. handler' \in [Signals -> {"default", "request_stop"}]
      BY <3>3
    <3> QED
      BY <3>1, <3>4, <3>5
  <2>2. SuiteInv'
    BY <1>11 DEF Signal, Ended, loopVars, SuiteInv
  <2>3. LoopInv'
    BY <1>11 DEF Signal, Ended, loopVars, LoopInv
  <2>4. LateInv'
    BY <1>11 DEF Signal, Ended, loopVars, LateInv
  <2> QED
    BY <2>1, <2>2, <2>3, <2>4, <2>5
<1> QED
  BY <1>1, <1>2, <1>3, <1>4, <1>5, <1>6, <1>7, <1>8, <1>9, <1>10, <1>11, <1>12
     DEF Next, Main, Finished

\* The inductive invariant holds in every state of every run.
THEOREM Invariance == Spec => []IInv
<1>1. Init => IInv
  BY InitInv
<1>2. IInv /\ [Next]_vars => IInv'
  BY StepInv
<1> QED
  BY <1>1, <1>2, PTL DEF Spec

-----------------------------------------------------------------------------
\* The variables of the stress test keep their types.
THEOREM TypeCorrect == Spec => []TypeOK
<1>1. IInv => TypeOK
  BY DEF IInv
<1> QED
  BY <1>1, Invariance, PTL

\* After a request at most one more call begins, wherever the signal found the
\* main thread.
THEOREM OneLateCall == Spec => []AtMostOneLateCall
<1>1. IInv => AtMostOneLateCall
  BY DEF IInv, LateInv, AtMostOneLateCall
<1> QED
  BY <1>1, Invariance, PTL

\* A score stands for num_runs samples, every one on the input setup made.
THEOREM Measured == Spec => []SamplesAreMeasured
<1>1. IInv => SamplesAreMeasured
  BY StressAssumption DEF IInv, TypeOK, LoopInv, SamplesAreMeasured
<1> QED
  BY <1>1, Invariance, PTL

\* The guard gives back the dispositions of both signals on every way out.
THEOREM Restored == Spec => []HandlersRestored
<1>1. IInv => HandlersRestored
  BY DEF IInv, HandlerInv, HandlersRestored
<1> QED
  BY <1>1, Invariance, PTL

\* The flag, once set, is never cleared: the only reset is before the handlers.
\* While both handlers stand, the first signal sets it and kills nothing.
THEOREM Kept == Spec => RequestIsKept
<1> DEFINE Unguarded == {"reset", "int", "term", "restoreTerm"}
           Step == /\ requested => requested'
                   /\ pc' = "killed" /\ ~Ended => requested \/ pc \in Unguarded
<1>1. IInv /\ [Next]_vars => [Step]_vars
  <2> SUFFICES ASSUME IInv, Next, ~UNCHANGED vars PROVE Step
    OBVIOUS
  <2>1. CASE Main
    <3>1. requested => ~Reset
      BY DEF Reset, Goto, IInv, HandlerInv
    <3>2. requested => requested'
      BY <2>1, <3>1
         DEF Main, InstallInt, InstallIntFails, InstallTerm, InstallTermFails,
             RestoreInt, RestoreTerm, Restore, StartCycle, Build, NextBenchmark,
             BenchmarkRejected, EndCycle, Summary, Unwind, CheckSetup, CheckRun,
             CheckEnd, BeginCall, EndPrepare, EndSetup, EndRun, CallThrows,
             AddScore, ScoreRejected
    <3>3. pc' # "killed"
      BY <2>1
         DEF Main, Reset, InstallInt, InstallIntFails, InstallTerm,
             InstallTermFails, RestoreInt, RestoreTerm, Restore, StartCycle,
             Build, NextBenchmark, BenchmarkRejected, EndCycle, Summary, Unwind,
             CheckSetup, CheckRun, CheckEnd, BeginCall, EndPrepare, EndSetup,
             EndRun, CallThrows, AddScore, ScoreRejected, Check, Goto, CallKinds
    <3> QED
      BY <3>2, <3>3
  <2>2. ASSUME NEW s \in Signals, Signal(s) PROVE Step
    <3>1. requested => requested'
      BY <2>2 DEF Signal
    <3>2. ASSUME pc' = "killed", ~Ended, pc \notin Unguarded, ~requested
          PROVE  FALSE
      <4>1. handler[s] = "request_stop"
        BY <3>2 DEF IInv, HandlerInv, Ended
      <4>2. pc' = pc
        BY <2>2, <4>1 DEF Signal
      <4> QED
        BY <3>2, <4>2 DEF Ended
    <3> QED
      BY <3>1, <3>2
  <2>3. CASE Finished
    BY <2>3 DEF Finished
  <2> QED
    BY <2>1, <2>2, <2>3 DEF Next
<1> QED
  BY <1>1, Invariance, PTL DEF Spec, RequestIsKept

\* Only a cycle that scored every benchmark counts, and only a request makes the
\* exit code 0.
THEOREM WholeCycles == Spec => OnlyWholeCyclesCount
<1>1. IInv /\ [Next]_vars =>
        [/\ completed' # completed => scored = Benchmarks
         /\ exit' = 0 /\ exit # 0 => requested]_vars
  <2> SUFFICES ASSUME IInv, Next
               PROVE  /\ completed' # completed => scored = Benchmarks
                      /\ exit' = 0 /\ exit # 0 => requested
    BY DEF vars, loopVars
  <2>1. CASE EndCycle
    <3>1. bench = NumBenchmarks + 1
      BY <2>1, StressAssumption DEF EndCycle, IInv, TypeOK
    <3>2. scored = Benchmarks
      BY <3>1, StressAssumption DEF IInv, SuiteInv, Benchmarks
    <3> QED
      BY <2>1, <3>2 DEF EndCycle
  <2>2. CASE Summary
    BY <2>2 DEF Summary, Goto, IInv, SuiteInv
  <2>3. CASE Main /\ ~EndCycle /\ ~Summary
    BY <2>3
       DEF Main, Reset, InstallInt, InstallIntFails, InstallTerm,
           InstallTermFails, RestoreInt, RestoreTerm, Restore, StartCycle,
           Build, NextBenchmark, BenchmarkRejected, Unwind, CheckSetup, CheckRun, CheckEnd,
           BeginCall, EndPrepare, EndSetup, EndRun, CallThrows, AddScore,
           ScoreRejected
  <2>4. CASE \E s \in Signals : Signal(s)
    BY <2>4 DEF Signal
  <2>5. CASE Finished
    BY <2>5 DEF Finished, vars
  <2> QED
    BY <2>1, <2>2, <2>3, <2>4, <2>5 DEF Next
<1> QED
  BY <1>1, Invariance, PTL DEF Spec, OnlyWholeCyclesCount

-----------------------------------------------------------------------------
(* How long a shutdown takes.                                              *)

\* The steps that the main thread still takes, at most, once it is asked to stop.
StepsToEnd ==
  CASE pc \in {"exited", "killed"}                                 -> 0
    [] pc = "restoreTerm"                                          -> 1
    [] pc = "restoreInt"                                           -> 2
    [] pc \in {"summary", "unwind"}                                -> 3
    [] pc \in {"cycle", "checkSetup", "checkRun", "checkEnd"}      -> 4
    [] pc \in {"term", "bench", "call"}                            -> 5
    [] OTHER                                                       -> 6

LEMMA StepsTyped == StepsToEnd \in 0 .. 6
  BY DEF StepsToEnd

\* After a request every step of the main thread takes it nearer to its end, from
\* wherever the request finds it, and no signal takes it back: it ends in six steps, of
\* which one call at most is begun or finished.  Lists, warmups and runs
\* do not make it longer.
THEOREM SoonOver ==
  Spec => [][requested =>
               /\ Main => StepsToEnd' < StepsToEnd
               /\ StepsToEnd' <= StepsToEnd]_vars
<1>1. IInv /\ [Next]_vars =>
        [requested => /\ Main => StepsToEnd' < StepsToEnd
                      /\ StepsToEnd' <= StepsToEnd]_vars
  <2> SUFFICES ASSUME IInv, Next, requested
               PROVE  /\ Main => StepsToEnd' < StepsToEnd
                      /\ StepsToEnd' <= StepsToEnd
    OBVIOUS
  <2>1. StepsToEnd \in 0 .. 6 /\ StepsToEnd' \in 0 .. 6
    BY StepsTyped DEF StepsToEnd
  <2>2. pc \notin {"reset", "int"}
    BY DEF IInv, HandlerInv
  <2>3. ASSUME Main PROVE StepsToEnd' < StepsToEnd
    <3>1. CASE InstallTerm \/ InstallTermFails \/ RestoreInt \/ RestoreTerm
      <4>1. \/ pc = "term" /\ pc' \in {"cycle", "exited"}
            \/ pc = "restoreInt" /\ pc' = "restoreTerm"
            \/ pc = "restoreTerm" /\ pc' = "exited"
        BY <3>1 DEF InstallTerm, InstallTermFails, RestoreInt, RestoreTerm, Restore, Goto
      <4> QED
        BY <4>1 DEF StepsToEnd
    <3>2. CASE StartCycle \/ Build \/ BenchmarkRejected \/ EndCycle \/ Summary \/ Unwind
      <4>1. \/ pc = "cycle" /\ pc' = "summary"
            \/ pc = "build" /\ pc' \in {"bench", "unwind"}
            \/ pc = "bench" /\ pc' \in {"unwind", "cycle"}
            \/ pc \in {"summary", "unwind"} /\ pc' = "restoreInt"
        BY <3>2 DEF StartCycle, Check, Build, BenchmarkRejected, EndCycle, Summary, Unwind,
           Goto
      <4> QED
        BY <4>1 DEF StepsToEnd
    <3>3. CASE NextBenchmark
      BY <3>3 DEF NextBenchmark, Check, Goto, StepsToEnd
    <3>4. CASE CheckSetup \/ CheckRun \/ CheckEnd
      <4>1. pc \in {"checkSetup", "checkRun", "checkEnd"} /\ pc' = "summary"
        BY <3>4 DEF CheckSetup, CheckRun, CheckEnd, Check, Goto
      <4> QED
        BY <4>1 DEF StepsToEnd
    <3>5. CASE \E k \in CallKinds : BeginCall(k)
      BY <3>5 DEF BeginCall, CallKinds, Goto, StepsToEnd
    <3>6. CASE EndPrepare \/ EndSetup \/ CallThrows \/ AddScore \/ ScoreRejected
      <4>1. \/ pc = "call" /\ pc' \in {"checkSetup", "checkRun", "unwind"}
            \/ pc = "score" /\ pc' \in {"bench", "unwind"}
        BY <3>6 DEF EndPrepare, EndSetup, CallThrows, AddScore, ScoreRejected, Goto
      <4> QED
        BY <4>1 DEF StepsToEnd
    <3>7. CASE EndRun
      <4>1. pc = "call" /\ pc' \in {"checkSetup", "checkEnd"}
        BY <3>7 DEF EndRun, Goto
      <4> QED
        BY <4>1 DEF StepsToEnd
    <3>8. CASE Reset \/ InstallInt \/ InstallIntFails
      BY <2>2, <3>8 DEF Reset, InstallInt, InstallIntFails, Goto
    <3> QED
      BY <2>3, <3>1, <3>2, <3>3, <3>4, <3>5, <3>6, <3>7, <3>8 DEF Main
  <2>4. ASSUME NEW s \in Signals, Signal(s) PROVE StepsToEnd' <= StepsToEnd
    <3>1. pc' = pc \/ pc' = "killed"
      BY <2>4 DEF Signal
    <3>2. CASE pc' = pc
      <4>1. StepsToEnd' = StepsToEnd
        BY <3>2 DEF StepsToEnd
      <4> QED
        BY <2>1, <4>1
    <3>3. CASE pc' = "killed"
      <4>1. StepsToEnd' = 0
        BY <3>3 DEF StepsToEnd
      <4> QED
        BY <2>1, <4>1
    <3> QED
      BY <3>1, <3>2, <3>3
  <2>5. CASE Finished
    <3>1. StepsToEnd' = StepsToEnd
      BY <2>5 DEF Finished, vars, StepsToEnd
    <3>2. ~Main
      <4>1. Ended
        BY <2>5 DEF Finished
      <4> QED
        BY <4>1, <2>3, <3>1, <2>1
    <3> QED
      BY <2>1, <3>1, <3>2
  <2> QED
    BY <2>1, <2>3, <2>4, <2>5 DEF Next
<1> QED
  BY <1>1, Invariance, PTL DEF Spec

\* The steps from one call to the next, at most, or to the end of the process.
StepsToCall ==
  CASE Ended                                                       -> 0
    [] pc = "restoreTerm"                                          -> 1
    [] pc = "restoreInt"                                           -> 2
    [] pc \in {"summary", "unwind"}                                -> 3
    [] pc = "run"                                                  -> 4
    [] pc = "checkRun"                                             -> 5
    [] pc = "setup"                                                -> 6
    [] pc = "checkSetup"                                           -> 7
    [] pc = "prepare"                                              -> 8
    [] pc = "bench" /\ bench <= NumBenchmarks                      -> 9
    [] pc = "build"                                                -> 10
    [] pc = "cycle"                                                -> 11
    [] pc = "term" \/ (pc = "bench" /\ ~(bench <= NumBenchmarks))  -> 12
    [] pc \in {"int", "score"}                                     -> 13
    [] pc \in {"reset", "checkEnd"}                                -> 14
    [] OTHER                                                       -> 15

\* The list is started over before it is gone through.
CycleInv == pc = "build" => bench = 1

LEMMA CycleInvariance == Spec => []CycleInv
<1>1. Init => CycleInv
  BY DEF Init, CycleInv
<1>2. CycleInv /\ [Next]_vars => CycleInv'
  <2> SUFFICES ASSUME CycleInv, [Next]_vars, pc' = "build" PROVE bench' = 1
    BY DEF CycleInv
  <2>1. CASE StartCycle
    BY <2>1 DEF StartCycle
  <2>2. CASE \E s \in Signals : Signal(s)
    BY <2>2 DEF Signal, CycleInv, loopVars
  <2>3. CASE UNCHANGED vars
    BY <2>3 DEF vars, loopVars, CycleInv
  <2>4. CASE Main /\ ~StartCycle
    <3>1. pc' # "build"
      <4>1. CASE Reset \/ InstallInt \/ InstallIntFails \/ InstallTerm \/ InstallTermFails
                   \/ RestoreInt \/ RestoreTerm \/ Build
        BY <4>1 DEF Reset, InstallInt, InstallIntFails, InstallTerm, InstallTermFails,
           RestoreInt, RestoreTerm, Restore, Build, Goto
      <4>2. CASE NextBenchmark \/ BenchmarkRejected \/ EndCycle \/ Summary \/ Unwind
                   \/ CheckSetup \/ CheckRun \/ CheckEnd
        BY <4>2 DEF NextBenchmark, BenchmarkRejected, EndCycle, Summary, Unwind,
           CheckSetup, CheckRun, CheckEnd, Check, Goto
      <4>3. CASE (\E k \in CallKinds : BeginCall(k)) \/ EndPrepare \/ EndSetup \/ EndRun
                   \/ CallThrows \/ AddScore \/ ScoreRejected
        BY <4>3 DEF BeginCall, EndPrepare, EndSetup, EndRun, CallThrows, AddScore,
           ScoreRejected, Goto
      <4> QED
        BY <2>4, <4>1, <4>2, <4>3 DEF Main
    <3> QED
      BY <3>1
  <2> QED
    BY <2>1, <2>2, <2>3, <2>4 DEF Next, Finished
<1> QED
  BY <1>1, <1>2, PTL DEF Spec

LEMMA LoadTyped == StepsToCall \in 0 .. 15
  BY DEF StepsToCall

\* Every step of the main thread begins a call or brings it nearer to the next one, or
\* to its end, and a signal takes nothing from that: between two calls there are never
\* more than fifteen steps, whatever the list, and no cycle goes by without a call.
THEOREM LoadComesBack ==
  Spec => [][/\ Main => pc' = "call" \/ StepsToCall' < StepsToCall
             /\ ~Main => StepsToCall' <= StepsToCall]_vars
<1>1. IInv /\ CycleInv /\ [Next]_vars =>
        [/\ Main => pc' = "call" \/ StepsToCall' < StepsToCall
         /\ ~Main => StepsToCall' <= StepsToCall]_vars
  <2> SUFFICES ASSUME IInv, CycleInv, Next, vars' # vars
               PROVE  /\ Main => pc' = "call" \/ StepsToCall' < StepsToCall
                      /\ ~Main => StepsToCall' <= StepsToCall
    OBVIOUS
  <2>0. NumBenchmarks \in Nat \ {0} /\ bench \in 1 .. NumBenchmarks + 1
    BY StressAssumption DEF IInv, TypeOK
  <2>1. StepsToCall \in 0 .. 15 /\ StepsToCall' \in 0 .. 15
    BY LoadTyped DEF StepsToCall
  <2>2. ASSUME Main PROVE pc' = "call" \/ StepsToCall' < StepsToCall
    <3>1. CASE Reset \/ InstallInt \/ InstallIntFails \/ InstallTerm \/ InstallTermFails
      <4>1. \/ pc = "reset" /\ pc' = "int"
            \/ pc = "int" /\ pc' \in {"term", "exited"}
            \/ pc = "term" /\ pc' \in {"cycle", "exited"}
        BY <3>1 DEF Reset, InstallInt, InstallIntFails, InstallTerm, InstallTermFails, Goto
      <4> QED
        BY <4>1 DEF StepsToCall, Ended
    <3>2. CASE RestoreInt \/ RestoreTerm \/ Summary \/ Unwind
      <4>1. \/ pc = "restoreInt" /\ pc' = "restoreTerm"
            \/ pc = "restoreTerm" /\ pc' = "exited"
            \/ pc \in {"summary", "unwind"} /\ pc' = "restoreInt"
        BY <3>2 DEF RestoreInt, RestoreTerm, Restore, Summary, Unwind, Goto
      <4> QED
        BY <4>1 DEF StepsToCall, Ended
    <3>3. CASE StartCycle \/ Build
      <4>1. \/ pc = "cycle" /\ pc' \in {"build", "summary"}
            \/ pc = "build" /\ pc' \in {"bench", "unwind"} /\ bench' = 1
        BY <3>3 DEF StartCycle, Build, Check, Goto, loopVars, CycleInv
      <4>2. CASE pc = "build" /\ pc' = "bench" /\ bench' = 1
        <5>1. bench' <= NumBenchmarks
          BY <2>0, <4>2
        <5>2. StepsToCall = 10
          BY <4>2 DEF StepsToCall, Ended
        <5>3. StepsToCall' = 9
          <6>1. pc' = "bench" /\ (bench <= NumBenchmarks)'
            BY <4>2, <5>1
          <6> QED
            BY <6>1 DEF StepsToCall, Ended
        <5> QED
          BY <5>2, <5>3
      <4>3. CASE ~(pc = "build" /\ pc' = "bench")
        BY <4>1, <4>3 DEF StepsToCall, Ended
      <4> QED
        BY <4>1, <4>2, <4>3
    <3>4. CASE NextBenchmark \/ BenchmarkRejected \/ EndCycle
      <4>1. /\ pc = "bench"
            /\ \/ bench <= NumBenchmarks /\ pc' \in {"prepare", "checkSetup", "summary", "unwind"}
               \/ bench > NumBenchmarks /\ pc' = "cycle"
        BY <3>4 DEF NextBenchmark, BenchmarkRejected, EndCycle, Check, Goto
      <4>2. bench > NumBenchmarks => ~(bench <= NumBenchmarks)
        BY <2>0
      <4> QED
        BY <4>1, <4>2 DEF StepsToCall, Ended
    <3>5. CASE CheckSetup \/ CheckRun \/ CheckEnd
      <4>1. \/ pc = "checkSetup" /\ pc' \in {"setup", "checkRun", "summary"}
            \/ pc = "checkRun" /\ pc' \in {"run", "summary"}
            \/ pc = "checkEnd" /\ pc' \in {"score", "summary"}
        BY <3>5 DEF CheckSetup, CheckRun, CheckEnd, Check, Goto
      <4> QED
        BY <4>1 DEF StepsToCall, Ended
    <3>6. CASE \E k \in CallKinds : BeginCall(k)
      BY <3>6 DEF BeginCall, Goto
    <3>7. CASE EndPrepare \/ EndSetup \/ EndRun \/ CallThrows
      <4>1. pc = "call" /\ pc' \in {"checkSetup", "checkRun", "checkEnd", "unwind"}
        BY <3>7 DEF EndPrepare, EndSetup, EndRun, CallThrows, Goto
      <4> QED
        BY <4>1 DEF StepsToCall, Ended
    <3>8. CASE AddScore \/ ScoreRejected
      <4>1. pc = "score" /\ pc' \in {"bench", "unwind"}
        BY <3>8 DEF AddScore, ScoreRejected, Goto
      <4> QED
        BY <4>1 DEF StepsToCall, Ended
    <3> QED
      BY <2>2, <3>1, <3>2, <3>3, <3>4, <3>5, <3>6, <3>7, <3>8 DEF Main
  <2>3. ASSUME ~Main PROVE StepsToCall' <= StepsToCall
    <3>1. PICK s \in Signals : Signal(s)
      BY <2>3 DEF Next, Finished
    <3>2. CASE pc' = "killed"
      <4>1. StepsToCall' = 0
        BY <3>2 DEF StepsToCall, Ended
      <4> QED
        BY <2>1, <4>1
    <3>3. CASE pc' = pc /\ bench' = bench
      <4>1. StepsToCall' = StepsToCall
        BY <3>3 DEF StepsToCall, Ended
      <4> QED
        BY <2>1, <4>1
    <3> QED
      BY <3>1, <3>2, <3>3 DEF Signal, loopVars
  <2> QED
    BY <2>2, <2>3
<1> QED
  BY <1>1, Invariance, CycleInvariance, PTL DEF Spec

=============================================================================

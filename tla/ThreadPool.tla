----------------------------- MODULE ThreadPool -----------------------------
(***************************************************************************)
(* benchmark_thread_pool: one coordinating thread (Main, the caller) and   *)
(* NumThreads workers that meet at two reusable std::barriers.  Every call *)
(* of run_all_indexed is a round: all threads meet at the start barrier,   *)
(* the workers run the stored closure, all threads meet at the done        *)
(* barrier.  The closures of this program come from run_shards: worker w   *)
(* runs the shards w, w + NumThreads, w + 2 * NumThreads, ...              *)
(*                                                                         *)
(* Regions under worker_exception_mutex_ hold no blocking call and are one *)
(* step each.  current_task_, which workers read without the lock, is what *)
(* NoDanglingTask is about.                                                *)
(***************************************************************************)
EXTENDS Integers, FiniteSets

CONSTANTS
  NumThreads,   \* workers of the pool (the constructor's num_threads)
  ShardCount,   \* shards a call distributes over the workers
  MaxCalls      \* bound: calls of run_all_indexed in one pool's life

ASSUME PoolAssumption ==
  /\ NumThreads \in Nat \ {0}
  /\ ShardCount \in Nat \ {0}
  /\ MaxCalls \in Nat

Workers == 0 .. NumThreads - 1
Main    == NumThreads
Threads == 0 .. NumThreads
Shards  == 0 .. ShardCount - 1

\* The worker whose loop visits shard s, and the shards a worker visits when
\* nothing throws.
Owner(s)  == s % NumThreads
Stride(w) == {s \in Shards : Owner(s) = w}

\* Fault: the barriers are built without the main thread.
ExpectedWithoutMain == NumThreads

\* The count both barriers are built with: "+1 for the main thread".
Expected == NumThreads + 1

NoException == -1

VARIABLES
  pc,       \* control point of every thread
  token,    \* the barrier phase a thread arrived in, while it waits
  start,    \* start_barrier_: its phase and the arrivals of that phase
  done,     \* done_barrier_
  stop,     \* stop_
  exc,      \* worker_exception_: the shard it came from, or NoException
  task,     \* number of the call whose closure current_task_ holds; 0: none
  next,     \* the loop variable `shard` of every worker's run_shards loop
  leaving,  \* workers that read stop_ = true and will break out of the loop
  runs,     \* history: how often each shard ran in the call `task`
  failed,   \* history: shards of the call `task` whose function threw
  outcome   \* how the call `task` ended: "none" while it runs

vars == <<pc, token, start, done, stop, exc, task, next, leaving, runs,
          failed, outcome>>

WorkerPC == {"unborn", "arriveStart", "waitStart", "check", "run", "catch",
             "arriveDone", "waitDone", "exited"}
MainPC == {"spawn", "idle", "arriveStart", "waitStart", "arriveDone",
           "waitDone", "collect", "join", "closed", "failed", "terminated"}

Barrier == [phase : Nat, arrived : 0 .. NumThreads]

TypeOK ==
  /\ pc \in [Threads -> WorkerPC \cup MainPC]
  /\ pc[Main] \in MainPC
  /\ \A w \in Workers : pc[w] \in WorkerPC
  /\ token \in [Threads -> Nat]
  /\ start \in Barrier
  /\ done \in Barrier
  /\ stop \in BOOLEAN
  /\ exc \in Shards \cup {NoException}
  /\ task \in 0 .. MaxCalls
  /\ next \in [Workers -> Nat]
  /\ leaving \in SUBSET Workers
  /\ runs \in [Shards -> Nat]
  /\ failed \in SUBSET Shards
  /\ outcome \in {"none", "ok", "threw"}

Init ==
  /\ pc = [t \in Threads |-> IF t = Main THEN "spawn" ELSE "unborn"]
  /\ token = [t \in Threads |-> 0]
  /\ start = [phase |-> 0, arrived |-> 0]
  /\ done = [phase |-> 0, arrived |-> 0]
  /\ stop = FALSE
  /\ exc = NoException
  /\ task = 0
  /\ next = [w \in Workers |-> w]
  /\ leaving = {}
  /\ runs = [s \in Shards |-> 0]
  /\ failed = {}
  /\ outcome = "none"

-----------------------------------------------------------------------------
(* std::barrier, as arrive_and_wait uses it.  The arrival that completes   *)
(* the expected count starts the next phase; a thread that arrived in      *)
(* phase p waits until the phase is no longer p.                           *)

Arrive(b) ==
  IF b.arrived + 1 = Expected
    THEN [phase |-> b.phase + 1, arrived |-> 0]
    ELSE [b EXCEPT !.arrived = @ + 1]

Released(t, b) == b.phase # token[t]

\* Std::terminate ends every thread of the process.
Alive == pc[Main] # "terminated"

Goto(t, from, to) ==
  /\ Alive
  /\ pc[t] = from
  /\ pc' = [pc EXCEPT ![t] = to]

ArriveStart(t) ==
  /\ Goto(t, "arriveStart", "waitStart")
  /\ start' = Arrive(start)
  /\ token' = [token EXCEPT ![t] = start.phase]
  /\ UNCHANGED <<done, stop, exc, task, next, leaving, runs, failed, outcome>>

\* Fault: run_all_indexed does not wait for the workers.
LeaveStartWithoutDone(t) ==
  /\ Released(t, start)
  /\ Goto(t, "waitStart", IF t = Main THEN "collect" ELSE "check")
  /\ UNCHANGED <<token, start, done, stop, exc, task, next, leaving, runs,
                 failed, outcome>>

LeaveStart(t) ==
  /\ Released(t, start)
  /\ Goto(t, "waitStart", IF t = Main THEN "arriveDone" ELSE "check")
  /\ UNCHANGED <<token, start, done, stop, exc, task, next, leaving, runs,
                 failed, outcome>>

ArriveDone(t) ==
  /\ Goto(t, "arriveDone", "waitDone")
  /\ done' = Arrive(done)
  /\ token' = [token EXCEPT ![t] = done.phase]
  /\ UNCHANGED <<start, stop, exc, task, next, leaving, runs, failed, outcome>>

\* Main returns into run_all_indexed or, in the destructor, goes on to join;
\* a worker loops, unless it took the stop branch of this round.
LeaveDone(t) ==
  /\ Released(t, done)
  /\ Goto(t, "waitDone",
          IF t = Main THEN IF stop THEN "join" ELSE "collect"
                      ELSE IF t \in leaving THEN "exited" ELSE "arriveStart")
  /\ UNCHANGED <<token, start, done, stop, exc, task, next, leaving, runs,
                 failed, outcome>>

-----------------------------------------------------------------------------
(* The constructor.  Workers are created one by one and run at once.       *)

\* The constructor is about to create worker w.
NextToSpawn(w) ==
  /\ pc[Main] = "spawn"
  /\ pc[w] = "unborn"
  /\ \A v \in 0 .. w - 1 : pc[v] # "unborn"

Spawn(w) ==
  /\ NextToSpawn(w)
  /\ pc' = [pc EXCEPT ![w] = "arriveStart",
                      ![Main] = IF w = NumThreads - 1 THEN "idle" ELSE @]
  /\ UNCHANGED <<token, start, done, stop, exc, task, next, leaving, runs,
                 failed, outcome>>

\* The operating system refuses a thread and std::thread's constructor throws.
\* The exception leaves the pool's constructor, so the destructor does not
\* run, but workers_ is destroyed: destroying a joinable std::thread calls
\* std::terminate.
SpawnFails(w) ==
  /\ NextToSpawn(w)
  /\ pc' = [pc EXCEPT ![Main] = IF w = 0 THEN "failed" ELSE "terminated"]
  /\ UNCHANGED <<token, start, done, stop, exc, task, next, leaving, runs,
                 failed, outcome>>

-----------------------------------------------------------------------------
(* run_all_indexed and the destructor, on the calling thread.              *)

\* Fault: worker_exception_ is not reset.
StartCallKeepsException ==
  /\ task < MaxCalls
  /\ Goto(Main, "idle", "arriveStart")
  /\ task' = task + 1
  /\ runs' = [s \in Shards |-> 0]
  /\ failed' = {}
  /\ outcome' = "none"
  /\ UNCHANGED <<token, start, done, stop, exc, next, leaving>>

StartCall ==
  /\ task < MaxCalls
  /\ Goto(Main, "idle", "arriveStart")
  /\ exc' = NoException
  /\ task' = task + 1
  /\ runs' = [s \in Shards |-> 0]
  /\ failed' = {}
  /\ outcome' = "none"
  /\ UNCHANGED <<token, start, done, stop, next, leaving>>

\* Back under the lock after the done barrier: rethrow or return.
Collect ==
  /\ Goto(Main, "collect", "idle")
  /\ outcome' = IF exc # NoException THEN "threw" ELSE "ok"
  /\ UNCHANGED <<token, start, done, stop, exc, task, next, leaving, runs,
                 failed>>

Close ==
  /\ Goto(Main, "idle", "arriveStart")
  /\ stop' = TRUE
  /\ UNCHANGED <<token, start, done, exc, task, next, leaving, runs, failed,
                 outcome>>

Join ==
  /\ \A w \in Workers : pc[w] = "exited"
  /\ Goto(Main, "join", "closed")
  /\ UNCHANGED <<token, start, done, stop, exc, task, next, leaving, runs,
                 failed, outcome>>

-----------------------------------------------------------------------------
(* worker_loop and, inside it, the closure run_shards built.               *)

\* Faults: the round of the destructor runs the task again, or a worker
\* leaves it before the done barrier.
ReadStopForgotten(w) ==
  /\ Goto(w, "check", "run")
  /\ next' = [next EXCEPT ![w] = w]
  /\ UNCHANGED <<token, start, done, stop, exc, task, leaving, runs, failed,
                 outcome>>

ReadStopLeavesAtOnce(w) ==
  /\ Goto(w, "check", IF stop THEN "exited" ELSE "run")
  /\ next' = [next EXCEPT ![w] = w]
  /\ UNCHANGED <<token, start, done, stop, exc, task, leaving, runs, failed,
                 outcome>>

ReadStop(w) ==
  /\ Goto(w, "check", IF stop THEN "arriveDone" ELSE "run")
  /\ IF stop
       THEN leaving' = leaving \cup {w} /\ UNCHANGED next
       ELSE next' = [next EXCEPT ![w] = w] /\ UNCHANGED leaving
  /\ UNCHANGED <<token, start, done, stop, exc, task, runs, failed, outcome>>

\* Fault: the loop steps by one shard.
RunShardStepsByOne(w) ==
  /\ Alive
  /\ pc[w] = "run"
  /\ next[w] < ShardCount
  /\ runs' = [runs EXCEPT ![next[w]] = @ + 1]
  /\ next' = [next EXCEPT ![w] = @ + 1]
  /\ UNCHANGED <<pc, token, start, done, stop, exc, task, leaving, failed,
                 outcome>>

RunShard(w) ==
  /\ Alive
  /\ pc[w] = "run"
  /\ next[w] < ShardCount
  /\ runs' = [runs EXCEPT ![next[w]] = @ + 1]
  /\ next' = [next EXCEPT ![w] = @ + NumThreads]
  /\ UNCHANGED <<pc, token, start, done, stop, exc, task, leaving, failed,
                 outcome>>

\* Fault: the loop runs to shard_count inclusive.
ShardThrowsPastTheEnd(w) ==
  /\ next[w] <= ShardCount
  /\ Goto(w, "run", "catch")
  /\ runs' = [s \in Shards |-> IF s = next[w] THEN runs[s] + 1 ELSE runs[s]]
  /\ failed' = failed \cup {next[w]}
  /\ UNCHANGED <<token, start, done, stop, exc, task, next, leaving, outcome>>

ShardThrows(w) ==
  /\ next[w] < ShardCount
  /\ Goto(w, "run", "catch")
  /\ runs' = [runs EXCEPT ![next[w]] = @ + 1]
  /\ failed' = failed \cup {next[w]}
  /\ UNCHANGED <<token, start, done, stop, exc, task, next, leaving, outcome>>

\* Fault: a worker that caught an exception leaves worker_loop.
RecordExceptionAndLeave(w) ==
  /\ Goto(w, "catch", "exited")
  /\ exc' = IF exc = NoException THEN next[w] ELSE exc
  /\ UNCHANGED <<token, start, done, stop, task, next, leaving, runs, failed,
                 outcome>>

RecordException(w) ==
  /\ Goto(w, "catch", "arriveDone")
  /\ exc' = IF exc = NoException THEN next[w] ELSE exc
  /\ UNCHANGED <<token, start, done, stop, task, next, leaving, runs, failed,
                 outcome>>

TaskReturns(w) ==
  /\ next[w] >= ShardCount
  /\ Goto(w, "run", "arriveDone")
  /\ UNCHANGED <<token, start, done, stop, exc, task, next, leaving, runs,
                 failed, outcome>>

-----------------------------------------------------------------------------
BarrierStep(t) ==
  ArriveStart(t) \/ LeaveStart(t) \/ ArriveDone(t) \/ LeaveDone(t)

WorkerStep(w) ==
  ReadStop(w) \/ RunShard(w) \/ ShardThrows(w) \/ RecordException(w)
    \/ TaskReturns(w)

Constructor == \E w \in Workers : Spawn(w) \/ SpawnFails(w)

\* The pool is gone, or its process is.
Finished ==
  /\ pc[Main] \in {"closed", "failed", "terminated"}
  /\ UNCHANGED vars

Next ==
  \/ Constructor
  \/ StartCall
  \/ Collect
  \/ Close
  \/ Join
  \/ \E t \in Threads : BarrierStep(t)
  \/ \E w \in Workers : WorkerStep(w)
  \/ Finished

Spec == Init /\ [][Next]_vars

(* The scheduler runs every thread that can run, and workloads end.  What  *)
(* the caller does with an idle pool is its own business, except that a    *)
(* pool is a local variable: when no call is left, its destructor runs.    *)
Fairness ==
  /\ WF_vars(Constructor)
  /\ WF_vars(Collect)
  /\ WF_vars(Join)
  /\ WF_vars(Close /\ task = MaxCalls)
  /\ \A t \in Threads : WF_vars(BarrierStep(t))
  /\ \A w \in Workers : WF_vars(WorkerStep(w))

FairSpec == Spec /\ Fairness

-----------------------------------------------------------------------------
(* Properties.                                                             *)

InRound == pc[Main] \in {"waitStart", "arriveDone", "waitDone"}

\* run_all_indexed's closure, and everything on its caller's stack that it
\* refers to, is alive and is not being assigned while a worker may read or
\* call current_task_: the caller is inside the two barriers of the call.
NoDanglingTask ==
  \A w \in Workers :
    pc[w] \in {"check", "run", "catch"} => InRound

\* The shards of s's worker that came before s, one of which threw.
CutOff(s) == \E e \in failed : e < s /\ Owner(e) = Owner(s)

\* A call that returns has run every shard exactly once; a call that throws
\* has a shard that threw, and left out exactly the shards queued behind one.
CallsComplete ==
  /\ outcome = "ok" =>
       failed = {} /\ \A s \in Shards : runs[s] = 1
  /\ outcome = "threw" =>
       /\ exc \in failed
       /\ \A s \in Shards : runs[s] = IF CutOff(s) THEN 0 ELSE 1

\* Two rounds never overlap: while one worker is in the task of a round, no
\* other thread waits for, or has left for, a later round.
RoundsDoNotOverlap ==
  \A w \in Workers : pc[w] \in {"check", "run", "catch"} =>
    \A t \in Threads :
      /\ pc[t] \in {"waitStart", "check", "run", "catch", "arriveDone",
                    "waitDone"}
      /\ pc[t] = "waitStart" => Released(t, start)
      /\ pc[t] = "waitDone" => ~Released(t, done)

\* The destructor's round ends every worker: nobody goes back to the start
\* barrier, where no thread would ever complete the count again, and nobody
\* runs the last call's task a second time.
NobodyLeftBehind ==
  pc[Main] \in {"join", "closed"} =>
    /\ leaving = Workers
    /\ \A w \in Workers : pc[w] \in {"waitDone", "exited"}

\* Every call of run_all_indexed returns or throws: no thread waits at a
\* barrier for a thread that has gone elsewhere.
EveryCallEnds == (pc[Main] = "arriveStart" /\ ~stop) ~> (outcome # "none")

\* The destructor returns, every worker joined.
DestructorReturns == stop ~> (pc[Main] = "closed")

\* A thread the system refuses is an error the program reports, as main does
\* for every std::exception, and never the abrupt end of the process.
RefusedThreadIsReported == Alive

(* The calls as the pool's user sees them: ForkJoin.                        *)
Status ==
  IF pc[Main] = "spawn" THEN "down"
  ELSE IF pc[Main] \in {"failed", "terminated"} THEN "aborted"
  ELSE IF pc[Main] = "closed" THEN "closed"
  ELSE IF pc[Main] = "idle" \/ stop THEN "open"
  ELSE "running"

Calls == INSTANCE ForkJoin WITH
  Owner <- Owner, status <- Status, ran <- runs, threw <- failed,
  result <- outcome

\* The pool keeps the promise of ForkJoin.
ImplementsForkJoin == Calls!Spec

=============================================================================

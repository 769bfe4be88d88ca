-------------------------- MODULE ThreadPoolProofs --------------------------
(***************************************************************************)
(* Proofs about ThreadPool for every number of workers, shards and calls.  *)
(*                                                                         *)
(* PhaseInv says where the threads are in terms of the phases of the two   *)
(* barriers, and that the barriers' counts are the numbers of threads      *)
(* waiting at them.  It implies that nobody is a round ahead of anybody.   *)
(* ProgressInv says, worker by worker, which shards of the current call    *)
(* have run; ErrorInv ties worker_exception_ to the shards that threw.     *)
(* RoundInv says that every round is a call's or the destructor's, which   *)
(* bounds the steps that the pool can take.                                *)
(***************************************************************************)
EXTENDS ThreadPool, DivisionLemmas, FiniteSetTheorems, TLAPS

-----------------------------------------------------------------------------
(* The inductive invariant.                                                *)

Inside  == {"check", "run", "catch", "arriveDone"}
Waiting == {"waitStart", "waitDone"}

\* Between the barriers of a round the start barrier is one phase ahead.
MidRound == start.phase = done.phase + 1

WaitingAtStart == {t \in Threads : pc[t] = "waitStart" /\ token[t] = start.phase}
WaitingAtDone  == {t \in Threads : pc[t] = "waitDone" /\ token[t] = done.phase}

PhaseInv ==
  /\ MidRound \/ start.phase = done.phase
  /\ start.arrived = Cardinality(WaitingAtStart)
  /\ done.arrived = Cardinality(WaitingAtDone)
  /\ \A t \in Threads :
       /\ pc[t] = "waitStart" => token[t] = done.phase
       /\ pc[t] = "waitDone" => token[t] = start.phase - 1
       /\ pc[t] \in Inside => MidRound
       /\ pc[t] \notin Inside \cup Waiting => ~MidRound

\* Worker w has not yet begun the call that is under way.
NotBegun(w) ==
  /\ ~stop
  /\ IF MidRound THEN pc[w] \in {"waitStart", "check"}
                 ELSE pc[Main] \in {"arriveStart", "waitStart"}

\* The worker's loop is at shard next[w]: those before it ran, those from it on
\* did not.
AtShard(w) ==
  \A s \in Stride(w) :
    /\ s \notin failed
    /\ runs[s] = IF s < next[w] THEN 1 ELSE 0

\* The worker's loop ended at next[w], which threw.
ThrewAt(w) ==
  /\ next[w] \in failed
  /\ \A s \in Stride(w) :
       /\ s \in failed => s = next[w]
       /\ runs[s] = IF s <= next[w] THEN 1 ELSE 0

ProgressInv ==
  \A w \in Workers :
    /\ Owner(next[w]) = w
    /\ NotBegun(w) => \A s \in Stride(w) : s \notin failed /\ runs[s] = 0
    /\ pc[w] = "run" => AtShard(w)
    /\ pc[w] = "catch" => ThrewAt(w)
    /\ task > 0 /\ pc[w] \notin {"run", "catch"} /\ ~NotBegun(w) =>
         \/ ThrewAt(w)
         \/ AtShard(w) /\ next[w] >= ShardCount

\* The order of a pool's life on the calling thread.
LifeInv ==
  /\ pc[Main] \in {"spawn", "failed", "terminated"} => task = 0 /\ ~stop
  /\ pc[Main] = "idle" => ~stop
  /\ pc[Main] = "collect" => ~stop /\ task > 0
  /\ pc[Main] \in {"arriveStart", "waitStart", "arriveDone", "waitDone"} =>
       stop \/ task > 0
  /\ pc[Main] \in {"join", "closed"} => stop
  /\ \A w \in Workers :
       /\ pc[w] \in {"run", "catch"} => ~stop /\ task > 0
       /\ pc[w] = "exited" \/ w \in leaving => stop
       /\ MidRound /\ stop /\ pc[w] \in {"arriveDone", "waitDone"} => w \in leaving
       /\ stop /\ ~MidRound /\ pc[Main] \notin {"arriveStart", "waitStart"} =>
            w \in leaving
       /\ w \in leaving => pc[w] \in {"arriveDone", "waitDone", "exited"}

ErrorInv ==
  /\ exc # NoException => exc \in failed
  /\ exc = NoException =>
       \A s \in failed : pc[Owner(s)] = "catch"
  /\ outcome # "none" => task > 0 /\ (stop \/ pc[Main] = "idle")
  /\ outcome = "ok" => exc = NoException
  /\ outcome = "threw" => exc # NoException

IInv == TypeOK /\ PhaseInv /\ LifeInv /\ ProgressInv /\ ErrorInv

-----------------------------------------------------------------------------
(* Threads and their number.                                               *)

LEMMA MainIsNoWorker ==
  /\ Main \in Threads
  /\ Main \notin Workers
  /\ Threads = Workers \cup {Main}
  /\ Workers \subseteq Nat
  /\ NumThreads \in Nat \ {0}
  BY PoolAssumption DEF Main, Threads, Workers

LEMMA ThreadCount ==
  /\ IsFiniteSet(Threads)
  /\ Cardinality(Threads) = Expected
<1>1. NumThreads \in Nat \ {0}
  BY PoolAssumption
<1> QED
  BY <1>1, FS_Interval DEF Threads, Expected

LEMMA WaitingSetsFinite ==
  /\ WaitingAtStart \subseteq Threads
  /\ WaitingAtDone \subseteq Threads
  /\ IsFiniteSet(WaitingAtStart)
  /\ IsFiniteSet(WaitingAtDone)
  BY ThreadCount, FS_Subset DEF WaitingAtStart, WaitingAtDone

\* The arrival that completes the count finds everybody else waiting.
LEMMA EverybodyElse ==
  ASSUME NEW S \in SUBSET Threads, NEW t \in Threads, t \notin S,
         Cardinality(S) + 1 = Expected
  PROVE  S = Threads \ {t}
<1>1. IsFiniteSet(Threads \ {t}) /\ Cardinality(Threads \ {t}) = Expected - 1
  BY ThreadCount, FS_RemoveElement
<1>2. S \in SUBSET (Threads \ {t})
  OBVIOUS
<1>3. Cardinality(S) \in Nat
  BY <1>1, <1>2, FS_Subset, FS_CardinalityType
<1>4. Expected \in Nat
  BY PoolAssumption DEF Expected
<1> QED
  BY <1>1, <1>2, <1>3, <1>4, FS_Subset

-----------------------------------------------------------------------------
(* Type correctness.                                                       *)

LEMMA ArriveType ==
  ASSUME NEW b \in Barrier
  PROVE  Arrive(b) \in Barrier
  BY PoolAssumption DEF Barrier, Arrive, Expected

\* The part of TypeOK about control points.
ControlOK ==
  /\ pc \in [Threads -> WorkerPC \cup MainPC]
  /\ pc[Main] \in MainPC
  /\ \A w \in Workers : pc[w] \in WorkerPC

\* One thread moves to a control point of its own kind.
LEMMA ControlStep ==
  ASSUME ControlOK, NEW t \in Threads, NEW p,
         t = Main => p \in MainPC,
         t \in Workers => p \in WorkerPC,
         pc' = [pc EXCEPT ![t] = p]
  PROVE  ControlOK'
  BY MainIsNoWorker DEF ControlOK

LEMMA TypeInit == Init => TypeOK
<1> SUFFICES ASSUME Init PROVE TypeOK
  OBVIOUS
<1>1. /\ pc \in [Threads -> WorkerPC \cup MainPC]
      /\ pc[Main] \in MainPC
      /\ \A w \in Workers : pc[w] \in WorkerPC
  BY MainIsNoWorker DEF Init, WorkerPC, MainPC
<1>2. start \in Barrier /\ done \in Barrier
  BY PoolAssumption DEF Init, Barrier
<1>3. next \in [Workers -> Nat] /\ token \in [Threads -> Nat]
  BY MainIsNoWorker DEF Init
<1>4. runs \in [Shards -> Nat]
  BY DEF Init
<1>5. task \in 0 .. MaxCalls
  BY PoolAssumption DEF Init
<1>6. stop \in BOOLEAN /\ exc \in Shards \cup {NoException} /\ leaving \in SUBSET Workers
      /\ failed \in SUBSET Shards /\ outcome \in {"none", "ok", "threw"}
  BY DEF Init
<1> QED
  BY <1>1, <1>2, <1>3, <1>4, <1>5, <1>6 DEF TypeOK

\* A worker in its catch block is at a shard: ProgressInv.
LEMMA TypeStep == TypeOK /\ ProgressInv /\ [Next]_vars => TypeOK'
<1> USE MainIsNoWorker DEF TypeOK
<1> SUFFICES ASSUME TypeOK, ProgressInv, [Next]_vars PROVE TypeOK'
  OBVIOUS
<1>0. ControlOK
  BY DEF ControlOK
<1>1. ASSUME NEW w \in Workers, Spawn(w) \/ SpawnFails(w) PROVE TypeOK'
  <2>1. ControlOK'
    BY <1>0, <1>1 DEF ControlOK, Spawn, SpawnFails, WorkerPC, MainPC
  <2> QED
    BY <1>1, <2>1 DEF Spawn, SpawnFails, ControlOK
<1>2. CASE StartCall
  BY <1>2, PoolAssumption DEF StartCall, Goto, WorkerPC, MainPC
<1>3. CASE Collect
  BY <1>3 DEF Collect, Goto, WorkerPC, MainPC
<1>4. CASE Close
  BY <1>4 DEF Close, Goto, WorkerPC, MainPC
<1>5. CASE Join
  BY <1>5 DEF Join, Goto, WorkerPC, MainPC
<1>6. ASSUME NEW t \in Threads, ArriveStart(t) PROVE TypeOK'
  BY <1>6, ArriveType DEF ArriveStart, Goto, WorkerPC, MainPC, Barrier
<1>7. ASSUME NEW t \in Threads, LeaveStart(t) PROVE TypeOK'
  BY <1>7 DEF LeaveStart, Goto, WorkerPC, MainPC
<1>8. ASSUME NEW t \in Threads, ArriveDone(t) PROVE TypeOK'
  BY <1>8, ArriveType DEF ArriveDone, Goto, WorkerPC, MainPC, Barrier
<1>9. ASSUME NEW t \in Threads, LeaveDone(t) PROVE TypeOK'
  BY <1>9 DEF LeaveDone, Goto, WorkerPC, MainPC
<1>10. ASSUME NEW w \in Workers, ReadStop(w) PROVE TypeOK'
  <2>1. ControlOK'
    BY <1>0, <1>10, ControlStep DEF ReadStop, Goto, WorkerPC
  <2>2. leaving' \in SUBSET Workers /\ next' \in [Workers -> Nat]
    BY <1>10 DEF ReadStop
  <2> QED
    BY <1>10, <2>1, <2>2 DEF ReadStop, ControlOK
<1>11. ASSUME NEW w \in Workers, RunShard(w) PROVE TypeOK'
  <2>1. next[w] \in Nat /\ next[w] + NumThreads \in Nat
    OBVIOUS
  <2>2. next' \in [Workers -> Nat]
    BY <1>11, <2>1 DEF RunShard
  <2>3. runs' = [runs EXCEPT ![next[w]] = @ + 1]
    BY <1>11 DEF RunShard
  <2>4. next[w] \in Shards
    BY <1>11, <2>1, PoolAssumption DEF RunShard, Shards
  <2>5. runs' \in [Shards -> Nat]
    BY <2>3, <2>4
  <2> QED
    BY <1>11, <2>2, <2>5 DEF RunShard
<1>12. ASSUME NEW w \in Workers, ShardThrows(w) PROVE TypeOK'
  <2>1. ControlOK'
    BY <1>0, <1>12, ControlStep DEF ShardThrows, Goto, WorkerPC
  <2>2. next[w] \in Shards
    BY <1>12, PoolAssumption DEF ShardThrows, Shards
  <2>3. failed' \in SUBSET Shards /\ runs' \in [Shards -> Nat]
    BY <1>12, <2>2 DEF ShardThrows
  <2> QED
    BY <1>12, <2>1, <2>3 DEF ShardThrows, ControlOK
<1>13. ASSUME NEW w \in Workers, RecordException(w) PROVE TypeOK'
  <2>1. next[w] \in Shards
    BY <1>13 DEF RecordException, Goto, ProgressInv, ThrewAt
  <2> QED
    BY <1>13, <2>1 DEF RecordException, Goto, WorkerPC, MainPC
<1>14. ASSUME NEW w \in Workers, TaskReturns(w) PROVE TypeOK'
  BY <1>14 DEF TaskReturns, Goto, WorkerPC, MainPC
<1>15. CASE UNCHANGED vars
  BY <1>15 DEF vars
<1> QED
  BY <1>1, <1>2, <1>3, <1>4, <1>5, <1>6, <1>7, <1>8, <1>9, <1>10, <1>11,
     <1>12, <1>13, <1>14, <1>15
  DEF Next, Constructor, BarrierStep, WorkerStep, Finished

-----------------------------------------------------------------------------
(* The phases of the barriers.                                             *)

PhasePC ==
  \A t \in Threads :
    /\ pc[t] = "waitStart" => token[t] = done.phase
    /\ pc[t] = "waitDone" => token[t] = start.phase - 1
    /\ pc[t] \in Inside => MidRound
    /\ pc[t] \notin Inside \cup Waiting => ~MidRound

\* A step that moves threads without touching a barrier, and neither into nor
\* out of the set of threads waiting in the current phase.
LEMMA PhaseFrame ==
  ASSUME TypeOK, PhaseInv, UNCHANGED <<token, start, done>>, PhasePC',
         WaitingAtStart' = WaitingAtStart, WaitingAtDone' = WaitingAtDone
  PROVE  PhaseInv'
  BY DEF PhaseInv, PhasePC, MidRound

LEMMA PhaseInit == Init => PhaseInv
<1> SUFFICES ASSUME Init PROVE PhaseInv
  OBVIOUS
<1>1. WaitingAtStart = {} /\ WaitingAtDone = {}
  BY MainIsNoWorker DEF Init, WaitingAtStart, WaitingAtDone
<1> QED
  BY <1>1, FS_EmptySet, MainIsNoWorker DEF Init, PhaseInv, MidRound, Inside,
     Waiting

\* Who completes the count of a barrier completes everybody's round.
LEMMA LastAtStart ==
  ASSUME TypeOK, PhaseInv, NEW t \in Threads, ArriveStart(t),
         start.arrived + 1 = Expected
  PROVE  \A u \in Threads : /\ u # t => pc[u] = "waitStart"
                            /\ pc'[u] = "waitStart"
                            /\ token'[u] = start.phase
<1>1. t \notin WaitingAtStart
  BY DEF ArriveStart, Goto, WaitingAtStart
<1>2. WaitingAtStart = Threads \ {t}
  BY <1>1, EverybodyElse, WaitingSetsFinite DEF PhaseInv
<1> QED
  BY <1>2 DEF TypeOK, ArriveStart, Goto, WaitingAtStart

LEMMA LastAtDone ==
  ASSUME TypeOK, PhaseInv, NEW t \in Threads, ArriveDone(t),
         done.arrived + 1 = Expected
  PROVE  \A u \in Threads : /\ u # t => pc[u] = "waitDone"
                            /\ pc'[u] = "waitDone"
                            /\ token'[u] = done.phase
<1>1. t \notin WaitingAtDone
  BY DEF ArriveDone, Goto, WaitingAtDone
<1>2. WaitingAtDone = Threads \ {t}
  BY <1>1, EverybodyElse, WaitingSetsFinite DEF PhaseInv
<1> QED
  BY <1>2 DEF TypeOK, ArriveDone, Goto, WaitingAtDone

LEMMA PhaseArriveStart ==
  ASSUME TypeOK, PhaseInv, NEW t \in Threads, ArriveStart(t)
  PROVE  PhaseInv'
<1> USE MainIsNoWorker
<1>1. /\ pc[t] = "arriveStart" /\ ~MidRound /\ start.phase = done.phase
      /\ pc' = [pc EXCEPT ![t] = "waitStart"]
      /\ token' = [token EXCEPT ![t] = start.phase]
      /\ start' = Arrive(start) /\ done' = done
  BY DEF ArriveStart, Goto, PhaseInv, Inside, Waiting
<1>2. t \notin WaitingAtStart /\ t \notin WaitingAtDone
  BY <1>1 DEF WaitingAtStart, WaitingAtDone
<1>3. WaitingAtDone' = WaitingAtDone
  BY <1>1 DEF TypeOK, WaitingAtDone
<1>4. CASE start.arrived + 1 # Expected
  <2>1. start' = [start EXCEPT !.arrived = start.arrived + 1]
    BY <1>1, <1>4 DEF Arrive
  <2>2. start'.phase = start.phase /\ start'.arrived = start.arrived + 1
    BY <2>1 DEF TypeOK, Barrier
  <2>3. WaitingAtStart' = WaitingAtStart \cup {t}
    BY <1>1, <2>2 DEF TypeOK, WaitingAtStart
  <2>4. start'.arrived = Cardinality(WaitingAtStart')
    <3>1. start.arrived = Cardinality(WaitingAtStart)
      BY DEF PhaseInv
    <3>2. Cardinality(WaitingAtStart \cup {t}) = Cardinality(WaitingAtStart) + 1
      BY <1>2, WaitingSetsFinite, FS_AddElement
    <3> QED
      BY <2>2, <2>3, <3>1, <3>2
  <2>5. PhasePC'
    BY <1>1, <2>2 DEF TypeOK, PhaseInv, PhasePC, MidRound, Inside, Waiting
  <2> QED
    BY <1>1, <1>3, <2>2, <2>4, <2>5 DEF PhaseInv, PhasePC, MidRound
<1>5. CASE start.arrived + 1 = Expected
  <2>1. start'.phase = start.phase + 1 /\ start'.arrived = 0
    BY <1>1, <1>5 DEF Arrive
  <2>3. \A u \in Threads : pc'[u] = "waitStart" /\ token'[u] = start.phase
    BY <1>5, LastAtStart
  <2>4. WaitingAtStart' = {}
    <3>1. start.phase \in Nat
      BY DEF TypeOK, Barrier
    <3>2. \A u \in Threads : token'[u] # start'.phase
      BY <2>1, <2>3, <3>1
    <3> QED
      BY <3>2 DEF WaitingAtStart
  <2>5. PhasePC' /\ MidRound'
    BY <1>1, <2>1, <2>3 DEF PhasePC, MidRound, Inside, Waiting
  <2> QED
    BY <1>1, <1>3, <2>1, <2>4, <2>5, FS_EmptySet DEF PhaseInv, PhasePC
<1> QED
  BY <1>4, <1>5

LEMMA PhaseArriveDone ==
  ASSUME TypeOK, PhaseInv, NEW t \in Threads, ArriveDone(t)
  PROVE  PhaseInv'
<1> USE MainIsNoWorker
<1>1. /\ pc[t] = "arriveDone" /\ MidRound
      /\ pc' = [pc EXCEPT ![t] = "waitDone"]
      /\ token' = [token EXCEPT ![t] = done.phase]
      /\ done' = Arrive(done) /\ start' = start
  BY DEF ArriveDone, Goto, PhaseInv, Inside, Waiting
<1>2. t \notin WaitingAtStart /\ t \notin WaitingAtDone
  BY <1>1 DEF WaitingAtStart, WaitingAtDone
<1>3. WaitingAtStart' = WaitingAtStart
  BY <1>1 DEF TypeOK, WaitingAtStart
<1>4. CASE done.arrived + 1 # Expected
  <2>1. done' = [done EXCEPT !.arrived = done.arrived + 1]
    BY <1>1, <1>4 DEF Arrive
  <2>2. done'.phase = done.phase /\ done'.arrived = done.arrived + 1
    BY <2>1 DEF TypeOK, Barrier
  <2>3. WaitingAtDone' = WaitingAtDone \cup {t}
    BY <1>1, <2>2 DEF TypeOK, WaitingAtDone
  <2>4. done'.arrived = Cardinality(WaitingAtDone')
    <3>1. done.arrived = Cardinality(WaitingAtDone)
      BY DEF PhaseInv
    <3>2. Cardinality(WaitingAtDone \cup {t}) = Cardinality(WaitingAtDone) + 1
      BY <1>2, WaitingSetsFinite, FS_AddElement
    <3> QED
      BY <2>2, <2>3, <3>1, <3>2
  <2>5. PhasePC'
    BY <1>1, <2>2 DEF TypeOK, Barrier, PhaseInv, PhasePC, MidRound, Inside,
       Waiting
  <2> QED
    BY <1>1, <1>3, <2>2, <2>4, <2>5 DEF PhaseInv, PhasePC, MidRound
<1>5. CASE done.arrived + 1 = Expected
  <2>1. done'.phase = done.phase + 1 /\ done'.arrived = 0
    BY <1>1, <1>5 DEF Arrive
  <2>3. \A u \in Threads : pc'[u] = "waitDone" /\ token'[u] = done.phase
    BY <1>5, LastAtDone
  <2>4. WaitingAtDone' = {}
    <3>1. done.phase \in Nat
      BY DEF TypeOK, Barrier
    <3>2. \A u \in Threads : token'[u] # done'.phase
      BY <2>1, <2>3, <3>1
    <3> QED
      BY <3>2 DEF WaitingAtDone
  <2>5. PhasePC' /\ start'.phase = done'.phase
    BY <1>1, <2>1, <2>3 DEF TypeOK, Barrier, PhasePC, MidRound, Inside, Waiting
  <2> QED
    BY <1>1, <1>3, <2>1, <2>4, <2>5, FS_EmptySet DEF PhaseInv, PhasePC
<1> QED
  BY <1>4, <1>5

\* The threads at the barriers are the same when nobody comes or goes.
LEMMA SameWaiting ==
  ASSUME UNCHANGED <<token, start, done>>,
         \A t \in Threads :
           /\ pc'[t] = "waitStart" <=> pc[t] = "waitStart"
           /\ pc'[t] = "waitDone" <=> pc[t] = "waitDone"
  PROVE  UNCHANGED <<WaitingAtStart, WaitingAtDone>>
  BY DEF WaitingAtStart, WaitingAtDone

LEMMA PhaseStep == TypeOK /\ PhaseInv /\ [Next]_vars => PhaseInv'
<1> USE MainIsNoWorker
<1> SUFFICES ASSUME TypeOK, PhaseInv, [Next]_vars PROVE PhaseInv'
  OBVIOUS
<1> DEFINE Quiet == /\ UNCHANGED <<token, start, done>>
                    /\ WaitingAtStart' = WaitingAtStart
                    /\ WaitingAtDone' = WaitingAtDone
                    /\ PhasePC'
<1> USE DEF WaitingAtStart, WaitingAtDone, PhaseInv, PhasePC, MidRound,
            Inside, Waiting, TypeOK
<1>1. ASSUME NEW w \in Workers, Spawn(w) \/ SpawnFails(w) PROVE Quiet
  <2>1. /\ UNCHANGED <<token, start, done>>
        /\ pc[w] = "unborn" /\ pc[Main] = "spawn"
        /\ pc'[w] \in {"unborn", "arriveStart"}
        /\ pc'[Main] \in {"spawn", "idle", "failed", "terminated"}
        /\ \A t \in Threads \ {w, Main} : pc'[t] = pc[t]
    BY <1>1 DEF Spawn, SpawnFails, NextToSpawn
  <2>2. UNCHANGED <<WaitingAtStart, WaitingAtDone>>
    <3> HIDE DEF WaitingAtStart, WaitingAtDone, PhaseInv, TypeOK
    <3>1. \A t \in Threads :
            /\ pc'[t] = "waitStart" <=> pc[t] = "waitStart"
            /\ pc'[t] = "waitDone" <=> pc[t] = "waitDone"
      BY <2>1
    <3> QED
      BY <2>1, <3>1, SameWaiting
  <2> QED
    BY <2>1, <2>2
<1>2. CASE StartCall
  BY <1>2 DEF StartCall, Goto
<1>3. CASE Collect
  BY <1>3 DEF Collect, Goto
<1>4. CASE Close
  BY <1>4 DEF Close, Goto
<1>5. CASE Join
  BY <1>5 DEF Join, Goto
<1>6. ASSUME NEW t \in Threads, LeaveStart(t) PROVE Quiet
  BY <1>6 DEF LeaveStart, Goto, Released, Barrier
<1>7. ASSUME NEW t \in Threads, LeaveDone(t) PROVE Quiet
  BY <1>7 DEF LeaveDone, Goto, Released, Barrier
<1>8. ASSUME NEW w \in Workers, WorkerStep(w) PROVE Quiet
  <2>1. /\ UNCHANGED <<token, start, done>>
        /\ pc[w] \in Inside /\ pc'[w] \in Inside
        /\ \A t \in Threads \ {w} : pc'[t] = pc[t]
    BY <1>8 DEF WorkerStep, ReadStop, RunShard, ShardThrows, RecordException,
       TaskReturns, Goto
  <2>2. UNCHANGED <<WaitingAtStart, WaitingAtDone>>
    <3> HIDE DEF WaitingAtStart, WaitingAtDone, PhaseInv, TypeOK
    <3>1. \A t \in Threads :
            /\ pc'[t] = "waitStart" <=> pc[t] = "waitStart"
            /\ pc'[t] = "waitDone" <=> pc[t] = "waitDone"
      BY <2>1
    <3> QED
      BY <2>1, <3>1, SameWaiting
  <2> QED
    BY <2>1, <2>2
<1>9. CASE UNCHANGED vars
  BY <1>9 DEF vars
<1>10. Quiet => PhaseInv'
  BY PhaseFrame
<1> HIDE DEF Quiet, PhaseInv, TypeOK
<1> QED
  BY <1>1, <1>2, <1>3, <1>4, <1>5, <1>6, <1>7, <1>8, <1>9, <1>10,
     PhaseArriveStart, PhaseArriveDone
  DEF Next, Constructor, BarrierStep, Finished

-----------------------------------------------------------------------------
(* The life of the pool.                                                   *)

\* Between the barriers of a round the caller is in run_all_indexed or in the
\* destructor, between the same two barriers.
LEMMA MainMidRound ==
  ASSUME TypeOK, PhaseInv, MidRound
  PROVE  pc[Main] \in {"waitStart", "arriveDone", "waitDone"}
  BY MainIsNoWorker DEF TypeOK, PhaseInv, Inside, Waiting, MainPC

\* What the steps at the barriers have to do with MidRound.
LEMMA ArriveStartMidRound ==
  ASSUME TypeOK, PhaseInv, NEW t \in Threads, ArriveStart(t)
  PROVE  ~MidRound /\ (MidRound' => start.arrived + 1 = Expected)
  BY DEF PhaseInv, TypeOK, Barrier, MidRound, Inside, Waiting, ArriveStart, Goto,
     Arrive

LEMMA LeaveStartMidRound ==
  ASSUME TypeOK, PhaseInv, NEW t \in Threads, LeaveStart(t)
  PROVE  MidRound /\ MidRound'
  BY DEF PhaseInv, TypeOK, Barrier, MidRound, Inside, Waiting, LeaveStart, Goto,
     Released

LEMMA ArriveDoneMidRound ==
  ASSUME TypeOK, PhaseInv, NEW t \in Threads, ArriveDone(t)
  PROVE  MidRound /\ (~MidRound' => done.arrived + 1 = Expected)
  BY DEF PhaseInv, TypeOK, Barrier, MidRound, Inside, Waiting, ArriveDone, Goto,
     Arrive

LEMMA LeaveDoneMidRound ==
  ASSUME TypeOK, PhaseInv, NEW t \in Threads, LeaveDone(t)
  PROVE  ~MidRound /\ ~MidRound'
  BY DEF PhaseInv, TypeOK, Barrier, MidRound, Inside, Waiting, LeaveDone, Goto,
     Released

LEMMA LifeInit == Init => LifeInv
  BY MainIsNoWorker DEF Init, LifeInv, MidRound

LEMMA LifeStep == TypeOK /\ PhaseInv /\ LifeInv /\ [Next]_vars => LifeInv'
<1> USE MainIsNoWorker
<1> SUFFICES ASSUME TypeOK, PhaseInv, LifeInv, [Next]_vars PROVE LifeInv'
  OBVIOUS
<1>0. \A t \in Threads :
       /\ pc[t] \notin Inside \cup Waiting => ~MidRound
       /\ pc[t] \in Inside => MidRound
  BY DEF PhaseInv
<1>1. ASSUME NEW w \in Workers, Spawn(w) \/ SpawnFails(w) PROVE LifeInv'
  BY <1>1, <1>0 DEF LifeInv, TypeOK, Spawn, SpawnFails, NextToSpawn, MidRound, Inside, Waiting
<1>2. CASE StartCall
  BY <1>2, <1>0 DEF LifeInv, TypeOK, StartCall, Goto, MidRound, Inside, Waiting
<1>3. CASE Collect
  BY <1>3, <1>0 DEF LifeInv, TypeOK, Collect, Goto, MidRound, Inside, Waiting
<1>4. CASE Close
  BY <1>4, <1>0 DEF LifeInv, TypeOK, Close, Goto, MidRound, Inside, Waiting
<1>5. CASE Join
  BY <1>5, <1>0 DEF LifeInv, TypeOK, Join, Goto, MidRound, Inside, Waiting
<1>6. ASSUME NEW t \in Threads, ArriveStart(t) PROVE LifeInv'
  <2>1. ~MidRound /\ (MidRound' => \A u \in Threads : pc'[u] = "waitStart")
    BY <1>6, LastAtStart, ArriveStartMidRound
  <2> QED
    BY <1>6, <2>1 DEF LifeInv, TypeOK, ArriveStart, Goto
<1>7. ASSUME NEW t \in Threads, LeaveStart(t) PROVE LifeInv'
  <2>1. MidRound /\ MidRound'
    BY <1>7, LeaveStartMidRound
  <2> QED
    BY <1>7, <2>1 DEF LifeInv, TypeOK, LeaveStart, Goto
<1>8. ASSUME NEW t \in Threads, ArriveDone(t) PROVE LifeInv'
  <2>1. MidRound
    BY <1>8, ArriveDoneMidRound
  <2>2. ~MidRound' => \A u \in Threads : pc[u] = "waitDone" \/ u = t
    BY <1>8, LastAtDone, ArriveDoneMidRound
  <2> QED
    BY <1>8, <2>1, <2>2 DEF LifeInv, TypeOK, ArriveDone, Goto
<1>9. ASSUME NEW t \in Threads, LeaveDone(t) PROVE LifeInv'
  <2>1. ~MidRound /\ ~MidRound'
    BY <1>9, LeaveDoneMidRound
  <2> QED
    BY <1>9, <2>1 DEF LifeInv, TypeOK, LeaveDone, Goto
<1>10. ASSUME NEW w \in Workers, ReadStop(w) PROVE LifeInv'
  <2>1. MidRound /\ MidRound'
    BY <1>10 DEF ReadStop, Goto, PhaseInv, MidRound, Inside
  <2>2. stop \/ task > 0
    BY <2>1, MainMidRound DEF LifeInv
  <2> QED
    BY <1>10, <2>1, <2>2 DEF LifeInv, TypeOK, ReadStop, Goto
<1>11. ASSUME NEW w \in Workers, RunShard(w) PROVE LifeInv'
  BY <1>11 DEF LifeInv, TypeOK, RunShard, MidRound
<1>12. ASSUME NEW w \in Workers, ShardThrows(w) PROVE LifeInv'
  BY <1>12 DEF LifeInv, TypeOK, ShardThrows, Goto, MidRound
<1>13. ASSUME NEW w \in Workers, RecordException(w) PROVE LifeInv'
  BY <1>13 DEF LifeInv, TypeOK, RecordException, Goto, MidRound
<1>14. ASSUME NEW w \in Workers, TaskReturns(w) PROVE LifeInv'
  BY <1>14 DEF LifeInv, TypeOK, TaskReturns, Goto, MidRound
<1>15. CASE UNCHANGED vars
  BY <1>15 DEF LifeInv, TypeOK, vars, MidRound
<1> QED
  BY <1>1, <1>2, <1>3, <1>4, <1>5, <1>6, <1>7, <1>8, <1>9, <1>10, <1>11,
     <1>12, <1>13, <1>14, <1>15
  DEF Next, Constructor, BarrierStep, WorkerStep, Finished

-----------------------------------------------------------------------------
(* The shards.                                                             *)

LEMMA ShardsAreNaturals ==
  /\ Shards \subseteq Nat
  /\ \A n \in Nat : n \in Shards <=> n < ShardCount
  BY PoolAssumption DEF Shards

\* Every shard has exactly one worker.
LEMMA OwnerOfShard ==
  /\ \A s \in Shards : Owner(s) \in Workers /\ s \in Stride(Owner(s))
  /\ \A w \in Workers : \A s \in Stride(w) : s \in Shards /\ Owner(s) = w
<1>1. ASSUME NEW s \in Shards PROVE Owner(s) \in Workers
  BY <1>1, PoolAssumption, QuotientRemainder, ShardsAreNaturals
  DEF Owner, Workers
<1> QED
  BY <1>1 DEF Stride

\* A worker's own number is the first of its shards.
LEMMA OwnerOfWorker ==
  \A w \in Workers : Owner(w) = w /\ \A s \in Stride(w) : w <= s
<1>1. \A w \in Workers : Owner(w) = w
  BY PoolAssumption, RemainderOfSmall DEF Owner, Workers
<1>2. \A n \in Nat : Owner(n) <= n
  BY PoolAssumption DEF Owner
<1> QED
  BY <1>1, <1>2, ShardsAreNaturals DEF Stride

\* The step of the loop goes to the worker's next shard and skips none.
LEMMA OwnerOfStep ==
  ASSUME NEW n \in Nat
  PROVE  /\ Owner(n + NumThreads) = Owner(n)
         /\ \A s \in Nat : Owner(s) = Owner(n) => (s < n + NumThreads <=> s <= n)
<1>0. NumThreads \in Nat \ {0}
  BY PoolAssumption
<1>1. Owner(n + NumThreads) = Owner(n)
  BY <1>0, RemainderOfStep DEF Owner
<1>2. \A s \in Nat : Owner(s) = Owner(n) /\ n < s => n + NumThreads <= s
  BY <1>0, SameRemainderGap DEF Owner
<1> QED
  BY <1>0, <1>1, <1>2

\* The clauses of ProgressInv about worker w, and what they depend on.
Settled(w) == ThrewAt(w) \/ (AtShard(w) /\ next[w] >= ShardCount)

Progress(w) ==
  /\ Owner(next[w]) = w
  /\ NotBegun(w) => \A s \in Stride(w) : s \notin failed /\ runs[s] = 0
  /\ pc[w] = "run" => AtShard(w)
  /\ pc[w] = "catch" => ThrewAt(w)
  /\ task > 0 /\ pc[w] \notin {"run", "catch"} /\ ~NotBegun(w) => Settled(w)

LEMMA ProgressFrame ==
  ASSUME NEW w \in Workers, Progress(w), UNCHANGED task,
         next'[w] = next[w],
         \A s \in Stride(w) : runs'[s] = runs[s],
         \A s \in Shards : Owner(s) = w => (s \in failed' <=> s \in failed),
         failed \subseteq Shards, failed' \subseteq Shards,
         NotBegun(w)' <=> NotBegun(w),
         pc'[w] \in {"run", "catch"} \/ pc[w] \in {"run", "catch"} => pc'[w] = pc[w]
  PROVE  Progress(w)'
<1>1. AtShard(w)' <=> AtShard(w)
  BY OwnerOfShard DEF AtShard
<1>2. Owner(next[w]) = w => (ThrewAt(w)' <=> ThrewAt(w))
  BY OwnerOfShard DEF ThrewAt
<1> QED
  BY <1>1, <1>2, OwnerOfShard DEF Progress, Settled

LEMMA ProgressInit == Init => ProgressInv
<1> SUFFICES ASSUME Init, NEW w \in Workers PROVE Progress(w)
  BY DEF ProgressInv, Progress, Settled
<1> QED
  BY OwnerOfShard, OwnerOfWorker, MainIsNoWorker
  DEF Init, Progress, NotBegun, Settled, MidRound

\* A step that leaves the shards alone, and moves nobody into or out of a task.
LEMMA ProgressQuiet ==
  ASSUME TypeOK, ProgressInv, UNCHANGED <<task, next, runs, failed>>,
         \A w \in Workers :
           /\ NotBegun(w)' <=> NotBegun(w)
           /\ pc'[w] \in {"run", "catch"} \/ pc[w] \in {"run", "catch"} =>
                pc'[w] = pc[w]
  PROVE  ProgressInv'
<1> SUFFICES ASSUME NEW w \in Workers PROVE Progress(w)'
  BY DEF ProgressInv, Progress, Settled
<1>1. Progress(w)
  BY DEF ProgressInv, Progress, Settled
<1> QED
  BY <1>1, ProgressFrame DEF TypeOK

\* A step of worker w inside its task leaves the other workers' shards alone.
LEMMA ProgressOthers ==
  ASSUME TypeOK, ProgressInv, NEW w \in Workers, pc[w] = "run",
         next[w] \in Shards,
         RunShard(w) \/ ShardThrows(w)
  PROVE  \A v \in Workers \ {w} : Progress(v)'
<1> SUFFICES ASSUME NEW v \in Workers \ {w} PROVE Progress(v)'
  OBVIOUS
<1> USE MainIsNoWorker
<1>1. Progress(v) /\ Owner(next[w]) = w
  BY DEF ProgressInv, Progress, Settled
<1>2. /\ runs' = [runs EXCEPT ![next[w]] = @ + 1]
      /\ failed' = failed \/ failed' = failed \cup {next[w]}
      /\ UNCHANGED <<task, start, done, stop>>
      /\ pc'[v] = pc[v] /\ pc'[Main] = pc[Main]
      /\ next'[v] = next[v]
  BY DEF RunShard, ShardThrows, Goto, TypeOK
<1>3. \A s \in Stride(v) : s \in Shards /\ s # next[w]
  BY <1>1, OwnerOfShard
<1>4. \A s \in Stride(v) : runs'[s] = runs[s]
  BY <1>2, <1>3 DEF TypeOK
<1>5. \A s \in Shards : Owner(s) = v => (s \in failed' <=> s \in failed)
  BY <1>1, <1>2
<1>6. NotBegun(v)' <=> NotBegun(v)
  BY <1>2 DEF NotBegun, MidRound
<1>7. failed \subseteq Shards /\ failed' \subseteq Shards
  BY <1>2 DEF TypeOK
<1> QED
  BY <1>1, <1>2, <1>4, <1>5, <1>6, <1>7, ProgressFrame

LEMMA ProgressBarrier ==
  ASSUME TypeOK, PhaseInv, LifeInv, ProgressInv, NEW t \in Threads,
         BarrierStep(t)
  PROVE  ProgressInv'
<1> USE MainIsNoWorker
<1>1. UNCHANGED <<task, next, runs, failed, stop>>
  BY DEF BarrierStep, ArriveStart, LeaveStart, ArriveDone, LeaveDone
<1>2. pc[t] \notin {"run", "catch"} /\ pc'[t] \notin {"run", "catch"}
  BY DEF BarrierStep, ArriveStart, LeaveStart, ArriveDone, LeaveDone, Goto,
     TypeOK
<1>3. \A u \in Threads \ {t} : pc'[u] = pc[u]
  BY DEF BarrierStep, ArriveStart, LeaveStart, ArriveDone, LeaveDone, Goto,
     TypeOK
<1>4. ASSUME ArriveStart(t), NEW w \in Workers
      PROVE  NotBegun(w)' <=> NotBegun(w)
  <2>1. ~MidRound
    BY <1>4, ArriveStartMidRound
  <2>2. pc[t] = "arriveStart" /\ pc'[t] = "waitStart"
    BY <1>4 DEF ArriveStart, Goto, TypeOK
  <2>3. MidRound' => \A u \in Threads : /\ u # t => pc[u] = "waitStart"
                                        /\ pc'[u] = "waitStart"
    BY <1>4, ArriveStartMidRound, LastAtStart
  <2> QED
    BY <1>1, <1>3, <2>1, <2>2, <2>3 DEF NotBegun
<1>5. ASSUME LeaveStart(t), NEW w \in Workers
      PROVE  NotBegun(w)' <=> NotBegun(w)
  <2>1. MidRound /\ MidRound'
    BY <1>5, LeaveStartMidRound
  <2>2. pc[t] = "waitStart" /\ (t # Main => pc'[t] = "check")
    BY <1>5 DEF LeaveStart, Goto, TypeOK
  <2> QED
    BY <1>1, <1>3, <2>1, <2>2 DEF NotBegun
<1>6. ASSUME ArriveDone(t), NEW w \in Workers
      PROVE  NotBegun(w)' <=> NotBegun(w)
  <2>1. MidRound
    BY <1>6, ArriveDoneMidRound
  <2>2. pc[t] = "arriveDone" /\ pc'[t] = "waitDone"
    BY <1>6 DEF ArriveDone, Goto, TypeOK
  <2>3. ~MidRound' => \A u \in Threads : /\ u # t => pc[u] = "waitDone"
                                         /\ pc'[u] = "waitDone"
    BY <1>6, ArriveDoneMidRound, LastAtDone
  <2> QED
    BY <1>1, <1>3, <2>1, <2>2, <2>3 DEF NotBegun
<1>7. ASSUME LeaveDone(t), NEW w \in Workers
      PROVE  NotBegun(w)' <=> NotBegun(w)
  <2>1. ~MidRound /\ ~MidRound'
    BY <1>7, LeaveDoneMidRound
  <2>2. pc[t] = "waitDone" /\ (t = Main => pc'[t] \in {"join", "collect"})
    BY <1>7 DEF LeaveDone, Goto, TypeOK
  <2> QED
    BY <1>1, <1>3, <2>1, <2>2 DEF NotBegun
<1>8. \A w \in Workers : NotBegun(w)' <=> NotBegun(w)
  BY <1>4, <1>5, <1>6, <1>7 DEF BarrierStep
<1> QED
  BY <1>1, <1>2, <1>3, <1>8, ProgressQuiet

LEMMA ProgressStep ==
  TypeOK /\ PhaseInv /\ LifeInv /\ ProgressInv /\ [Next]_vars => ProgressInv'
<1> USE MainIsNoWorker
<1> SUFFICES ASSUME TypeOK, PhaseInv, LifeInv, ProgressInv, [Next]_vars
             PROVE  ProgressInv'
  OBVIOUS
<1>a. ProgressInv <=> \A w \in Workers : Progress(w)
  BY DEF ProgressInv, Progress, Settled
<1>b. ProgressInv' <=> \A w \in Workers : Progress(w)'
  BY DEF ProgressInv, Progress, Settled
<1>c. \A t \in Threads : /\ pc[t] \notin Inside \cup Waiting => ~MidRound
                         /\ pc[t] \in Inside => MidRound
  BY DEF PhaseInv
<1>1. ASSUME NEW w \in Workers, Spawn(w) \/ SpawnFails(w) PROVE ProgressInv'
  <2>1. /\ UNCHANGED <<task, next, runs, failed, start, done>>
        /\ pc[w] = "unborn" /\ pc'[w] \in {"unborn", "arriveStart"}
        /\ pc[Main] = "spawn"
        /\ pc'[Main] \in {"spawn", "idle", "failed", "terminated"}
        /\ \A v \in Workers \ {w} : pc'[v] = pc[v]
    BY <1>1 DEF Spawn, SpawnFails, NextToSpawn, TypeOK
  <2>2. ~MidRound /\ ~MidRound'
    BY <2>1, <1>c DEF MidRound, Inside, Waiting
  <2>3. \A v \in Workers : ~NotBegun(v) /\ ~NotBegun(v)'
    BY <2>1, <2>2 DEF NotBegun
  <2>4. \A v \in Workers : pc'[v] \in {"run", "catch"} \/ pc[v] \in {"run", "catch"}
                            => pc'[v] = pc[v]
    BY <2>1
  <2> QED
    BY <2>1, <2>3, <2>4, ProgressQuiet
<1>2. CASE StartCall
  <2>1. /\ pc[Main] = "idle" /\ pc'[Main] = "arriveStart"
        /\ \A w \in Workers : pc'[w] = pc[w]
        /\ runs' = [s \in Shards |-> 0] /\ failed' = {}
        /\ UNCHANGED <<start, done, stop, next>>
    BY <1>2 DEF StartCall, Goto, TypeOK
  <2>2. ~MidRound /\ ~MidRound' /\ ~stop'
    BY <2>1, <1>c DEF LifeInv, Inside, Waiting, MidRound
  <2>3. \A w \in Workers : pc'[w] \notin {"run", "catch"} /\ NotBegun(w)'
    BY <2>1, <2>2, <1>c DEF NotBegun, Inside
  <2> QED
    BY <2>1, <2>3, <1>a, <1>b, OwnerOfShard DEF Progress
<1>3. CASE Collect \/ Close \/ Join
  <2>1. /\ UNCHANGED <<task, next, runs, failed, start, done>>
        /\ pc[Main] \notin Inside \cup Waiting \cup {"arriveStart"}
        /\ \A w \in Workers : pc'[w] = pc[w]
        /\ stop' \/ pc'[Main] \notin {"arriveStart", "waitStart"}
    BY <1>3 DEF Collect, Close, Join, Goto, TypeOK, Inside, Waiting
  <2>2. ~MidRound /\ ~MidRound'
    BY <2>1, <1>c DEF MidRound
  <2>3. \A w \in Workers : ~NotBegun(w) /\ ~NotBegun(w)'
    BY <2>1, <2>2 DEF NotBegun, Waiting
  <2> QED
    BY <2>1, <2>3, ProgressQuiet
<1>4. ASSUME NEW t \in Threads, BarrierStep(t) PROVE ProgressInv'
  BY <1>4, ProgressBarrier
<1>5. ASSUME NEW w \in Workers, ReadStop(w) PROVE ProgressInv'
  <2>1. /\ pc[w] = "check" /\ MidRound /\ MidRound'
        /\ UNCHANGED <<task, runs, failed, stop>>
        /\ \A v \in Workers \ {w} : pc'[v] = pc[v] /\ next'[v] = next[v]
    BY <1>5, <1>c DEF ReadStop, Goto, TypeOK, MidRound, Inside
  <2>2. \A v \in Workers \ {w} : Progress(v)'
    <3> SUFFICES ASSUME NEW v \in Workers \ {w} PROVE Progress(v)'
      OBVIOUS
    <3>1. NotBegun(v)' <=> NotBegun(v)
      BY <2>1 DEF NotBegun
    <3> QED
      BY <2>1, <3>1, <1>a, ProgressFrame DEF TypeOK
  <2>3. CASE stop
    <3>1. pc'[w] = "arriveDone" /\ next' = next
      BY <1>5, <2>3 DEF ReadStop, Goto, TypeOK
    <3>2. ~NotBegun(w) /\ ~NotBegun(w)'
      BY <2>1, <2>3 DEF NotBegun
    <3>3. Progress(w)'
      BY <2>1, <3>1, <3>2, <1>a, ProgressFrame DEF TypeOK
    <3> QED
      BY <2>2, <3>3, <1>b
  <2>4. CASE ~stop
    <3>1. pc'[w] = "run" /\ next'[w] = w
      BY <1>5, <2>4 DEF ReadStop, Goto, TypeOK
    <3>2. NotBegun(w) /\ ~NotBegun(w)'
      BY <2>1, <2>4, <3>1 DEF NotBegun
    <3>3. \A s \in Stride(w) : s \notin failed /\ runs[s] = 0
      BY <3>2, <1>a DEF Progress
    <3>4. AtShard(w)'
      <4> SUFFICES ASSUME NEW s \in Stride(w)
                   PROVE  s \notin failed' /\ runs'[s] = IF s < next'[w] THEN 1 ELSE 0
        BY DEF AtShard
      <4>1. w <= s /\ s \in Nat /\ w \in Nat
        BY OwnerOfWorker, OwnerOfShard, ShardsAreNaturals
      <4> QED
        BY <2>1, <3>1, <3>3, <4>1
    <3>5. Progress(w)'
      BY <3>1, <3>2, <3>4, OwnerOfWorker DEF Progress
    <3> QED
      BY <2>2, <3>5, <1>b
  <2> QED
    BY <2>3, <2>4
<1>6. ASSUME NEW w \in Workers, RunShard(w) PROVE ProgressInv'
  <2>1. /\ pc[w] = "run" /\ pc' = pc /\ next[w] \in Shards
        /\ next'[w] = next[w] + NumThreads /\ next[w] \in Nat
        /\ runs' = [runs EXCEPT ![next[w]] = @ + 1]
        /\ UNCHANGED <<failed, task, stop, start, done>>
    BY <1>6, ShardsAreNaturals DEF RunShard, TypeOK
  <2>2. AtShard(w) /\ Owner(next[w]) = w
    BY <2>1, <1>a DEF Progress
  <2>3. /\ Owner(next'[w]) = w
        /\ \A s \in Stride(w) : (s < next'[w] <=> s <= next[w])
    <3>1. \A s \in Stride(w) : s \in Nat /\ Owner(s) = Owner(next[w])
      BY <2>2, OwnerOfShard, ShardsAreNaturals
    <3> QED
      BY <2>1, <2>2, <3>1, OwnerOfStep
  <2>4. AtShard(w)'
    <3> SUFFICES ASSUME NEW s \in Stride(w)
                 PROVE  /\ s \notin failed
                        /\ runs'[s] = IF s < next'[w] THEN 1 ELSE 0
      BY <2>1 DEF AtShard
    <3>1. /\ s \in Shards /\ s \in Nat /\ s \notin failed
          /\ runs[s] = IF s < next[w] THEN 1 ELSE 0
      BY <2>2, OwnerOfShard, ShardsAreNaturals DEF AtShard
    <3>2. CASE s = next[w]
      BY <2>1, <2>3, <3>1, <3>2 DEF TypeOK
    <3>3. CASE s # next[w]
      BY <2>1, <2>3, <3>1, <3>3 DEF TypeOK
    <3> QED
      BY <3>2, <3>3
  <2>5. Progress(w)'
    BY <2>1, <2>3, <2>4, <1>c DEF Progress, NotBegun, MidRound, Inside
  <2>6. \A v \in Workers \ {w} : Progress(v)'
    BY <1>6, <2>1, ProgressOthers
  <2> QED
    BY <2>5, <2>6, <1>b
<1>7. ASSUME NEW w \in Workers, ShardThrows(w) PROVE ProgressInv'
  <2>1. /\ pc[w] = "run" /\ pc'[w] = "catch" /\ next[w] \in Shards
        /\ next' = next /\ next[w] \in Nat
        /\ runs' = [runs EXCEPT ![next[w]] = @ + 1]
        /\ failed' = failed \cup {next[w]}
        /\ UNCHANGED <<task, stop, start, done>>
    BY <1>7, ShardsAreNaturals DEF ShardThrows, Goto, TypeOK
  <2>2. AtShard(w) /\ Owner(next[w]) = w /\ MidRound
    BY <2>1, <1>a, <1>c DEF Progress, Inside
  <2>3. ThrewAt(w)'
    <3> SUFFICES ASSUME NEW s \in Stride(w)
                 PROVE  /\ s \in failed' => s = next[w]
                        /\ runs'[s] = IF s <= next[w] THEN 1 ELSE 0
      BY <2>1 DEF ThrewAt
    <3>1. /\ s \in Shards /\ s \in Nat /\ s \notin failed
          /\ runs[s] = IF s < next[w] THEN 1 ELSE 0
      BY <2>2, OwnerOfShard, ShardsAreNaturals DEF AtShard
    <3>2. CASE s = next[w]
      BY <2>1, <3>1, <3>2 DEF TypeOK
    <3>3. CASE s # next[w]
      BY <2>1, <3>1, <3>3 DEF TypeOK
    <3> QED
      BY <3>2, <3>3
  <2>4. Progress(w)'
    BY <2>1, <2>2, <2>3 DEF Progress, NotBegun, MidRound
  <2>5. \A v \in Workers \ {w} : Progress(v)'
    BY <1>7, <2>1, ProgressOthers
  <2> QED
    BY <2>4, <2>5, <1>b
<1>8. ASSUME NEW w \in Workers, RecordException(w) \/ TaskReturns(w)
      PROVE  ProgressInv'
  <2>1. /\ UNCHANGED <<task, next, runs, failed, stop, start, done>>
        /\ pc[w] \in {"run", "catch"} /\ pc'[w] = "arriveDone"
        /\ \A u \in Threads \ {w} : pc'[u] = pc[u]
    BY <1>8 DEF RecordException, TaskReturns, Goto, TypeOK
  <2>2. Settled(w)
    BY <1>8, <1>a DEF RecordException, TaskReturns, Goto, Progress, Settled
  <2>3. Settled(w)'
    BY <2>1, <2>2 DEF Settled, AtShard, ThrewAt
  <2>4. ~NotBegun(w)'
    BY <2>1, <1>c DEF NotBegun, MidRound, Inside
  <2>5. Progress(w)'
    BY <2>1, <2>3, <2>4, <1>a DEF Progress
  <2>6. \A v \in Workers \ {w} : Progress(v)'
    <3> SUFFICES ASSUME NEW v \in Workers \ {w} PROVE Progress(v)'
      OBVIOUS
    <3>1. NotBegun(v)' <=> NotBegun(v)
      BY <2>1 DEF NotBegun, MidRound
    <3> QED
      BY <2>1, <3>1, <1>a, ProgressFrame DEF TypeOK
  <2> QED
    BY <2>5, <2>6, <1>b
<1>9. CASE UNCHANGED vars
  <2>1. UNCHANGED <<task, next, runs, failed, pc, start, done, stop>>
    BY <1>9 DEF vars
  <2> QED
    BY <2>1, ProgressQuiet DEF NotBegun, MidRound
<1> QED
  BY <1>1, <1>2, <1>3, <1>4, <1>5, <1>6, <1>7, <1>8, <1>9
  DEF Next, Constructor, WorkerStep, Finished

-----------------------------------------------------------------------------
(* The exception a call reports.                                           *)

LEMMA ErrorInit == Init => ErrorInv
  BY DEF Init, ErrorInv

LEMMA ErrorStep ==
  TypeOK /\ PhaseInv /\ LifeInv /\ ProgressInv /\ ErrorInv /\ [Next]_vars
    => ErrorInv'
<1> USE MainIsNoWorker
<1> SUFFICES ASSUME TypeOK, PhaseInv, LifeInv, ProgressInv, ErrorInv,
                    [Next]_vars
             PROVE  ErrorInv'
  OBVIOUS
<1>a. \A s \in failed : s \in Shards /\ Owner(s) \in Workers
  BY OwnerOfShard DEF TypeOK
<1>b. NoException \notin Shards
  BY ShardsAreNaturals DEF NoException
<1>1. ASSUME NEW w \in Workers, Spawn(w) \/ SpawnFails(w) PROVE ErrorInv'
  <2>1. /\ UNCHANGED <<exc, failed, task, stop, outcome>>
        /\ pc[w] = "unborn" /\ pc[Main] = "spawn"
        /\ \A v \in Workers \ {w} : pc'[v] = pc[v]
    BY <1>1 DEF Spawn, SpawnFails, NextToSpawn, TypeOK
  <2>2. task = 0
    BY <2>1 DEF LifeInv
  <2> QED
    BY <2>1, <2>2, <1>a DEF ErrorInv
<1>2. CASE StartCall
  BY <1>2 DEF StartCall, ErrorInv
<1>3. CASE Collect
  <2>1. /\ pc[Main] = "collect" /\ pc'[Main] = "idle" /\ ~stop /\ task > 0
        /\ \A w \in Workers : pc'[w] = pc[w]
        /\ outcome' = IF exc # NoException THEN "threw" ELSE "ok"
        /\ UNCHANGED <<exc, failed, task, stop>>
    BY <1>3 DEF Collect, Goto, TypeOK, LifeInv
  <2> QED
    BY <2>1, <1>a DEF ErrorInv
<1>4. CASE Close \/ Join
  <2>1. /\ \A w \in Workers : pc'[w] = pc[w]
        /\ stop'
        /\ UNCHANGED <<exc, failed, task, outcome>>
    BY <1>4 DEF Close, Join, Goto, TypeOK, LifeInv
  <2> QED
    BY <2>1, <1>a DEF ErrorInv
<1>5. ASSUME NEW t \in Threads, BarrierStep(t) PROVE ErrorInv'
  <2>1. UNCHANGED <<exc, failed, task, stop, outcome>>
    BY <1>5 DEF BarrierStep, ArriveStart, LeaveStart, ArriveDone, LeaveDone
  <2>2. pc[t] \notin {"catch", "idle"}
    BY <1>5 DEF BarrierStep, ArriveStart, LeaveStart, ArriveDone, LeaveDone,
       Goto
  <2>3. \A u \in Threads \ {t} : pc'[u] = pc[u]
    BY <1>5 DEF BarrierStep, ArriveStart, LeaveStart, ArriveDone, LeaveDone,
       Goto, TypeOK
  <2> QED
    BY <2>1, <2>2, <2>3, <1>a DEF ErrorInv
<1>6. ASSUME NEW w \in Workers, ReadStop(w) \/ RunShard(w) \/ TaskReturns(w)
      PROVE  ErrorInv'
  <2>1. /\ UNCHANGED <<exc, failed, task, stop, outcome>>
        /\ pc[w] # "catch"
        /\ \A u \in Threads \ {w} : pc'[u] = pc[u]
    BY <1>6 DEF ReadStop, RunShard, TaskReturns, Goto, TypeOK
  <2> QED
    BY <2>1, <1>a DEF ErrorInv
<1>7. ASSUME NEW w \in Workers, ShardThrows(w) PROVE ErrorInv'
  <2>1. /\ pc[w] = "run" /\ pc'[w] = "catch"
        /\ failed' = failed \cup {next[w]}
        /\ UNCHANGED <<exc, task, stop, outcome>>
        /\ \A u \in Threads \ {w} : pc'[u] = pc[u]
    BY <1>7 DEF ShardThrows, Goto, TypeOK
  <2>2. Owner(next[w]) = w
    BY DEF ProgressInv
  <2> QED
    BY <2>1, <2>2, <1>a DEF ErrorInv
<1>8. ASSUME NEW w \in Workers, RecordException(w) PROVE ErrorInv'
  <2>1. /\ pc[w] = "catch" /\ next[w] \in failed
        /\ exc' = IF exc = NoException THEN next[w] ELSE exc
        /\ UNCHANGED <<failed, task, stop, outcome>>
        /\ pc'[Main] = pc[Main]
    BY <1>8 DEF RecordException, Goto, TypeOK, ProgressInv, ThrewAt
  <2>2. exc' # NoException /\ exc' \in failed
    BY <2>1, <1>a, <1>b DEF ErrorInv
  <2>3. pc[Main] # "idle" /\ ~stop
    BY <2>1, MainMidRound DEF LifeInv, PhaseInv, Inside
  <2> QED
    BY <2>1, <2>2, <2>3 DEF ErrorInv
<1>9. CASE UNCHANGED vars
  BY <1>9 DEF vars, ErrorInv
<1> QED
  BY <1>1, <1>2, <1>3, <1>4, <1>5, <1>6, <1>7, <1>8, <1>9
  DEF Next, Constructor, WorkerStep, Finished

-----------------------------------------------------------------------------
(* The theorems.                                                           *)

LEMMA Invariance == Spec => []IInv
<1>1. Init => IInv
  BY TypeInit, PhaseInit, LifeInit, ProgressInit, ErrorInit DEF IInv
<1>2. IInv /\ [Next]_vars => IInv'
  BY TypeStep, PhaseStep, LifeStep, ProgressStep, ErrorStep DEF IInv
<1> QED
  BY <1>1, <1>2, PTL DEF Spec

\* Every variable keeps its type: counts of a barrier never exceed the number
\* of workers, and the exception a call keeps is that of a shard.
THEOREM TypeCorrect == Spec => []TypeOK
<1>1. IInv => TypeOK
  BY DEF IInv
<1> QED
  BY <1>1, Invariance, PTL

\* Whenever a worker reads current_task_ or runs it, the caller is between the
\* barriers of that very call, so the closure and what it captures are alive.
THEOREM ClosureOutlivesItsUse == Spec => []NoDanglingTask
<1>1. IInv => NoDanglingTask
  <2> SUFFICES ASSUME IInv, NEW w \in Workers, pc[w] \in {"check", "run", "catch"}
               PROVE  InRound
    BY DEF NoDanglingTask
  <2>1. MidRound
    BY MainIsNoWorker DEF IInv, PhaseInv, Inside
  <2> QED
    BY <2>1, MainMidRound DEF IInv, InRound
<1> QED
  BY <1>1, Invariance, PTL

\* No thread is ever a round ahead of a worker that still runs a task.
THEOREM RoundsAreSeparate == Spec => []RoundsDoNotOverlap
<1>1. IInv => RoundsDoNotOverlap
  <2> SUFFICES ASSUME IInv, NEW w \in Workers, NEW t \in Threads,
                      pc[w] \in {"check", "run", "catch"}
               PROVE  /\ pc[t] \in Inside \cup Waiting
                      /\ pc[t] = "waitStart" => Released(t, start)
                      /\ pc[t] = "waitDone" => ~Released(t, done)
    BY DEF RoundsDoNotOverlap, Inside, Waiting
  <2>1. MidRound
    BY MainIsNoWorker DEF IInv, PhaseInv, Inside
  <2>2. start.phase \in Nat /\ done.phase \in Nat
    BY DEF IInv, TypeOK, Barrier
  <2> QED
    BY <2>1, <2>2 DEF IInv, PhaseInv, MidRound, Released
<1> QED
  BY <1>1, Invariance, PTL

\* Once the workers are through, the latest call is settled for every shard.
LEMMA SettledCall ==
  ASSUME IInv, task > 0, stop \/ pc[Main] \in {"collect", "idle"}
  PROVE  /\ \A s \in Shards : runs[s] = IF CutOff(s) THEN 0 ELSE 1
         /\ exc = NoException => failed = {}
<1> USE MainIsNoWorker
<1>1. \A w \in Workers : pc[w] \notin {"run", "catch"} /\ ~NotBegun(w)
  BY DEF IInv, LifeInv, PhaseInv, NotBegun, Inside, Waiting
<1>2. \A w \in Workers : Settled(w) /\ Owner(next[w]) = w
  BY <1>1 DEF IInv, ProgressInv, Settled
<1>3. \A s \in failed : s \in Shards
  BY DEF IInv, TypeOK
<1>4. exc = NoException => failed = {}
  BY <1>1, <1>3, OwnerOfShard DEF IInv, ErrorInv
<1>5. ASSUME NEW s \in Shards
      PROVE  runs[s] = IF CutOff(s) THEN 0 ELSE 1
  <2> DEFINE w == Owner(s)
  <2>1. w \in Workers /\ s \in Stride(w) /\ s \in Nat /\ s < ShardCount
    BY OwnerOfShard, ShardsAreNaturals
  <2>2. next[w] \in Nat /\ ShardCount \in Nat
    BY <2>1, PoolAssumption DEF IInv, TypeOK
  <2>3. CASE ThrewAt(w)
    <3>1. \A e \in failed : Owner(e) = Owner(s) => e = next[w]
      BY <1>3, <2>1, <2>3 DEF ThrewAt, Stride
    <3>2. CutOff(s) <=> next[w] < s
      BY <1>2, <2>1, <2>3, <3>1 DEF ThrewAt, CutOff
    <3>3. runs[s] = IF s <= next[w] THEN 1 ELSE 0
      BY <2>1, <2>3 DEF ThrewAt
    <3> QED
      BY <2>1, <2>2, <3>2, <3>3
  <2>4. CASE AtShard(w) /\ next[w] >= ShardCount
    <3>1. \A e \in failed : Owner(e) # Owner(s)
      BY <1>3, <2>1, <2>4 DEF AtShard, Stride
    <3>2. runs[s] = IF s < next[w] THEN 1 ELSE 0
      BY <2>1, <2>4 DEF AtShard
    <3> QED
      BY <2>1, <2>2, <2>4, <3>1, <3>2 DEF CutOff
  <2> QED
    BY <1>2, <2>1, <2>3, <2>4 DEF Settled
<1> QED
  BY <1>4, <1>5

\* A call that returned ran every shard once and none threw; a call that threw
\* has a shard to blame and left out only the shards queued behind such a one.
THEOREM CallsAreComplete == Spec => []CallsComplete
<1>1. IInv => CallsComplete
  <2> SUFFICES ASSUME IInv, outcome # "none"
               PROVE  CallsComplete
    BY DEF CallsComplete
  <2>1. task > 0 /\ (stop \/ pc[Main] = "idle")
    BY DEF IInv, ErrorInv
  <2>2. /\ \A s \in Shards : runs[s] = IF CutOff(s) THEN 0 ELSE 1
        /\ exc = NoException => failed = {}
    BY <2>1, SettledCall
  <2> QED
    BY <2>2 DEF CallsComplete, CutOff, IInv, ErrorInv
<1> QED
  BY <1>1, Invariance, PTL

\* When the destructor starts to join, every worker is on its way out.
THEOREM EveryWorkerLeaves == Spec => []NobodyLeftBehind
<1>1. IInv => NobodyLeftBehind
  <2> SUFFICES ASSUME IInv, pc[Main] \in {"join", "closed"}
               PROVE  NobodyLeftBehind
    BY DEF NobodyLeftBehind
  <2>1. stop /\ ~MidRound
    BY MainIsNoWorker DEF IInv, LifeInv, PhaseInv, Inside, Waiting
  <2>2. \A w \in Workers : w \in leaving
    BY <2>1 DEF IInv, LifeInv
  <2>3. \A w \in Workers : pc[w] \in {"waitDone", "exited"}
    BY <2>1, <2>2, MainIsNoWorker DEF IInv, LifeInv, PhaseInv, Inside
  <2> QED
    BY <2>2, <2>3 DEF NobodyLeftBehind, IInv, TypeOK
<1> QED
  BY <1>1, Invariance, PTL

-----------------------------------------------------------------------------
(* The pool implements ForkJoin.                                           *)

\* A call is running for its user exactly from StartCall to Collect.
LEMMA StatusValues ==
  ASSUME TypeOK, LifeInv
  PROVE  /\ pc[Main] = "spawn" => Status = "down"
         /\ pc[Main] \in {"failed", "terminated"} => Status = "aborted"
         /\ pc[Main] = "closed" => Status = "closed"
         /\ pc[Main] = "idle" => Status = "open"
         /\ stop /\ pc[Main] # "closed" => Status = "open"
         /\ ~stop /\ pc[Main] \in {"arriveStart", "waitStart", "arriveDone",
                                  "waitDone", "collect"} => Status = "running"
  BY DEF Status, LifeInv

\* Status depends on the caller and on stop_ alone.
LEMMA StatusFrame ==
  ASSUME pc'[Main] = pc[Main], stop' = stop
  PROVE  Status' = Status
  BY DEF Status

\* A shard that runs is the next one of its worker: those ahead of it ran.
LEMMA RunIsExec ==
  ASSUME IInv, IInv', NEW w \in Workers, RunShard(w) \/ ShardThrows(w)
  PROVE  \E s \in Shards : Calls!Exec(s)
<1> USE MainIsNoWorker
<1>1. /\ pc[w] = "run" /\ next[w] \in Shards /\ next[w] \in Nat
      /\ runs' = [runs EXCEPT ![next[w]] = @ + 1]
      /\ failed' = failed \/ failed' = failed \cup {next[w]}
      /\ pc'[Main] = pc[Main] /\ stop' = stop /\ outcome' = outcome
  BY ShardsAreNaturals DEF RunShard, ShardThrows, Goto, IInv, TypeOK
<1>2. AtShard(w) /\ Owner(next[w]) = w
  BY <1>1 DEF IInv, ProgressInv
<1>3. ~stop /\ MidRound
  BY <1>1 DEF IInv, LifeInv, PhaseInv, Inside
<1>4. Status = "running" /\ Status' = Status
  BY <1>1, <1>3, MainMidRound, StatusValues, StatusFrame DEF IInv
<1>5. runs[next[w]] = 0 /\ runs' = [runs EXCEPT ![next[w]] = 1]
  <2>1. next[w] \in Stride(w)
    BY <1>1, <1>2, OwnerOfShard
  <2>2. runs[next[w]] = 0
    BY <1>1, <1>2, <2>1 DEF AtShard
  <2> QED
    BY <1>1, <2>2
<1>6. \A e \in Calls!Ahead(next[w]) : runs[e] = 1 /\ e \notin failed
  BY <1>1, <1>2, OwnerOfShard DEF Calls!Ahead, AtShard, Stride
<1>7. Calls!Exec(next[w])
  BY <1>1, <1>4, <1>5, <1>6 DEF Calls!Exec
<1> QED
  BY <1>1, <1>7

LEMMA CollectEndsCall ==
  ASSUME IInv, IInv', Collect
  PROVE  Calls!Return \/ Calls!Throw
<1>1. /\ pc[Main] = "collect" /\ pc'[Main] = "idle" /\ task > 0 /\ ~stop
      /\ outcome' = IF exc # NoException THEN "threw" ELSE "ok"
      /\ UNCHANGED <<runs, failed>>
  BY MainIsNoWorker DEF Collect, Goto, IInv, TypeOK, LifeInv
<1>2. Status = "running" /\ Status' = "open"
  BY <1>1, StatusValues DEF IInv, Status
<1>3. /\ \A s \in Shards : runs[s] = IF CutOff(s) THEN 0 ELSE 1
      /\ exc = NoException => failed = {}
  BY <1>1, SettledCall
<1>4. failed \subseteq Shards
  BY DEF IInv, TypeOK
<1>5. \A s \in Shards : CutOff(s) => Calls!Ahead(s) \cap failed # {}
  BY <1>4 DEF CutOff, Calls!Ahead
<1>6. CASE exc = NoException
  BY <1>1, <1>2, <1>3, <1>6 DEF Calls!Return, CutOff
<1>7. CASE exc # NoException
  <2>1. failed # {}
    BY <1>7 DEF IInv, ErrorInv
  <2> QED
    BY <1>1, <1>2, <1>3, <1>5, <1>7, <2>1 DEF Calls!Throw
<1> QED
  BY <1>6, <1>7

LEMMA StepImplements ==
  ASSUME IInv, IInv', [Next]_vars
  PROVE  [Calls!Next]_(Calls!vars)
<1> USE MainIsNoWorker
<1> DEFINE Stutter == UNCHANGED <<Status, runs, failed, outcome>>
<1>1. ASSUME NEW w \in Workers, Spawn(w) \/ SpawnFails(w)
      PROVE  Calls!Open \/ Stutter
  <2>1. /\ pc[Main] = "spawn"
        /\ pc'[Main] \in {"spawn", "idle", "failed", "terminated"}
        /\ UNCHANGED <<stop, runs, failed, outcome>>
    BY <1>1 DEF Spawn, SpawnFails, NextToSpawn, IInv, TypeOK
  <2>2. Status = "down" /\ Status' \in {"down", "open", "aborted"}
    BY <2>1 DEF Status
  <2> QED
    BY <2>1, <2>2 DEF Calls!Open
<1>2. CASE StartCall
  <2>1. /\ pc[Main] = "idle" /\ pc'[Main] = "arriveStart" /\ ~stop'
        /\ runs' = [s \in Shards |-> 0] /\ failed' = {} /\ outcome' = "none"
    BY <1>2 DEF StartCall, Goto, IInv, TypeOK, LifeInv
  <2>2. Status = "open" /\ Status' = "running"
    BY <2>1 DEF Status
  <2> QED
    BY <2>1, <2>2 DEF Calls!Begin, Calls!Next
<1>3. CASE Collect
  BY <1>3, CollectEndsCall DEF Calls!Next
<1>4. CASE Close
  <2>1. /\ pc[Main] = "idle" /\ pc'[Main] = "arriveStart" /\ stop'
        /\ UNCHANGED <<runs, failed, outcome>>
    BY <1>4 DEF Close, Goto, IInv, TypeOK
  <2>2. Status = "open" /\ Status' = "open"
    BY <2>1 DEF Status
  <2> QED
    BY <2>1, <2>2 DEF Calls!vars
<1>5. CASE Join
  <2>1. /\ pc[Main] = "join" /\ pc'[Main] = "closed" /\ stop
        /\ UNCHANGED <<runs, failed, outcome>>
    BY <1>5 DEF Join, Goto, IInv, TypeOK, LifeInv
  <2>2. Status = "open" /\ Status' = "closed"
    BY <2>1 DEF Status
  <2> QED
    BY <2>1, <2>2 DEF Calls!Close, Calls!Next
<1>6. ASSUME NEW t \in Threads, BarrierStep(t) PROVE Stutter
  <2>1. /\ UNCHANGED <<stop, runs, failed, outcome>>
        /\ t # Main => pc'[Main] = pc[Main]
    BY <1>6 DEF BarrierStep, ArriveStart, LeaveStart, ArriveDone, LeaveDone,
       Goto, IInv, TypeOK
  <2>2. t = Main =>
          /\ pc[Main] \in {"arriveStart", "waitStart", "arriveDone", "waitDone"}
          /\ \/ pc'[Main] \in {"waitStart", "arriveDone", "waitDone"}
             \/ pc'[Main] = IF stop THEN "join" ELSE "collect"
    BY <1>6 DEF BarrierStep, ArriveStart, LeaveStart, ArriveDone, LeaveDone,
       Goto, IInv, TypeOK
  <2>3. Status' = Status
    BY <2>1, <2>2, StatusFrame DEF Status
  <2> QED
    BY <2>1, <2>3
<1>7. ASSUME NEW w \in Workers, RunShard(w) \/ ShardThrows(w)
      PROVE  Calls!Next
  BY <1>7, RunIsExec DEF Calls!Next
<1>8. ASSUME NEW w \in Workers,
             ReadStop(w) \/ RecordException(w) \/ TaskReturns(w)
      PROVE  Stutter
  <2>1. /\ UNCHANGED <<stop, runs, failed, outcome>>
        /\ pc'[Main] = pc[Main]
    BY <1>8 DEF ReadStop, RecordException, TaskReturns, Goto, IInv, TypeOK
  <2> QED
    BY <2>1, StatusFrame
<1>9. CASE UNCHANGED vars
  BY <1>9, StatusFrame DEF vars, Calls!vars
<1>10. Stutter => UNCHANGED Calls!vars
  BY DEF Calls!vars
<1> HIDE DEF Stutter
<1> QED
  BY <1>1, <1>2, <1>3, <1>4, <1>5, <1>6, <1>7, <1>8, <1>9, <1>10
  DEF Next, Constructor, WorkerStep, Finished, Calls!Next

\* The barriers, the stored closure, the stop flag and the exception slot
\* together give their user the calls that ForkJoin specifies.
THEOREM Refinement == Spec => ImplementsForkJoin
<1>1. Init => Calls!Init
  BY MainIsNoWorker DEF Init, Calls!Init, Status
<1>2. IInv /\ IInv' /\ [Next]_vars => [Calls!Next]_(Calls!vars)
  BY StepImplements
<1> QED
  BY <1>1, <1>2, Invariance, PTL DEF Spec, ImplementsForkJoin, Calls!Spec

-----------------------------------------------------------------------------
(* Nobody waits for ever.                                                  *)

\* The caller is in a round that is not over.
InOpenRound ==
  \/ pc[Main] \in {"arriveStart", "waitStart", "arriveDone"}
  \/ pc[Main] = "waitDone" /\ MidRound

\* Every round is a call's or the destructor's; no worker is missing once the
\* constructor is over; and nobody leaves before the destructor's round is.
RoundInv ==
  /\ done.phase + (IF InOpenRound THEN 1 ELSE 0) = task + (IF stop THEN 1 ELSE 0)
  /\ pc[Main] = "spawn" => pc[NumThreads - 1] = "unborn"
  /\ \A w \in Workers :
       /\ pc[w] = "unborn" => pc[Main] \in {"spawn", "failed", "terminated"}
       /\ w \in leaving =>
            stop /\ (MidRound \/ pc[Main] \in {"waitDone", "join", "closed"})
       /\ pc[w] = "exited" => w \in leaving

LEMMA LastWorker == NumThreads - 1 \in Workers
  BY PoolAssumption DEF Workers

LEMMA RoundInit == Init => RoundInv
  BY MainIsNoWorker, LastWorker DEF Init, RoundInv, InOpenRound, MidRound

LEMMA RoundStep ==
  TypeOK /\ PhaseInv /\ LifeInv /\ RoundInv /\ [Next]_vars => RoundInv'
<1> USE MainIsNoWorker, LastWorker
<1> SUFFICES ASSUME TypeOK, PhaseInv, LifeInv, RoundInv, [Next]_vars PROVE RoundInv'
  OBVIOUS
<1>0. \A t \in Threads :
       /\ pc[t] \notin Inside \cup Waiting => ~MidRound
       /\ pc[t] \in Inside => MidRound
  BY DEF PhaseInv
<1>1. ASSUME NEW w \in Workers, Spawn(w) \/ SpawnFails(w) PROVE RoundInv'
  <2>1. /\ pc[Main] = "spawn" /\ pc[w] = "unborn" /\ \A v \in 0 .. w - 1 : pc[v] # "unborn"
        /\ UNCHANGED <<start, done, task, stop, leaving>>
    BY <1>1 DEF Spawn, SpawnFails, NextToSpawn
  <2>2. CASE Spawn(w)
    <3>1. pc' = [pc EXCEPT ![w] = "arriveStart",
                           ![Main] = IF w = NumThreads - 1 THEN "idle" ELSE @]
      BY <2>2 DEF Spawn
    <3>2. CASE w = NumThreads - 1
      <4>1. \A v \in Workers : v # w => pc[v] # "unborn"
        <5>1. \A v \in Workers : v # w => v \in 0 .. w - 1
          BY <3>2, PoolAssumption DEF Workers
        <5> QED
          BY <2>1, <5>1
      <4> QED
        BY <2>1, <3>1, <3>2, <4>1 DEF RoundInv, InOpenRound, MidRound, TypeOK
    <3>3. CASE w # NumThreads - 1
      BY <2>1, <3>1, <3>3 DEF RoundInv, InOpenRound, MidRound, TypeOK
    <3> QED
      BY <3>2, <3>3
  <2>3. CASE SpawnFails(w)
    BY <2>1, <2>3 DEF RoundInv, InOpenRound, MidRound, TypeOK, SpawnFails
  <2> QED
    BY <1>1, <2>2, <2>3
<1>2. CASE StartCall
  BY <1>2, <1>0 DEF RoundInv, InOpenRound, LifeInv, TypeOK, StartCall, Goto, MidRound,
     Inside, Waiting, Barrier
<1>3. CASE Collect
  BY <1>3 DEF RoundInv, InOpenRound, TypeOK, Collect, Goto, MidRound
<1>4. CASE Close
  BY <1>4, <1>0 DEF RoundInv, InOpenRound, LifeInv, TypeOK, Close, Goto, MidRound,
     Inside, Waiting, Barrier
<1>5. CASE Join
  BY <1>5 DEF RoundInv, InOpenRound, TypeOK, Join, Goto, MidRound
<1>6. ASSUME NEW t \in Threads, ArriveStart(t) PROVE RoundInv'
  <2>1. ~MidRound
    BY <1>6, ArriveStartMidRound
  <2>2. /\ pc[t] = "arriveStart" /\ pc' = [pc EXCEPT ![t] = "waitStart"]
        /\ UNCHANGED <<done, task, stop, leaving>>
    BY <1>6 DEF ArriveStart, Goto
  <2>3. CASE pc[Main] = "waitDone" /\ MidRound'
    BY <1>6, <2>2, <2>3, LastAtStart, ArriveStartMidRound
  <2>4. CASE ~(pc[Main] = "waitDone" /\ MidRound')
    BY <2>1, <2>2, <2>4 DEF RoundInv, InOpenRound, TypeOK
  <2> QED
    BY <2>3, <2>4
<1>7. ASSUME NEW t \in Threads, LeaveStart(t) PROVE RoundInv'
  <2>1. MidRound /\ MidRound'
    BY <1>7, LeaveStartMidRound
  <2> QED
    BY <1>7, <2>1 DEF RoundInv, InOpenRound, TypeOK, LeaveStart, Goto
<1>8. ASSUME NEW t \in Threads, ArriveDone(t) PROVE RoundInv'
  <2>1. MidRound /\ start.phase = done.phase + 1
    BY <1>8, ArriveDoneMidRound DEF MidRound
  <2>2. /\ pc[t] = "arriveDone" /\ pc' = [pc EXCEPT ![t] = "waitDone"]
        /\ done' = Arrive(done)
        /\ UNCHANGED <<start, task, stop, leaving>>
    BY <1>8 DEF ArriveDone, Goto
  <2>3. CASE done.arrived + 1 = Expected
    <3>1. \A u \in Threads : (u # t => pc[u] = "waitDone") /\ pc'[u] = "waitDone"
      BY <1>8, <2>3, LastAtDone
    <3>2. done'.phase = done.phase + 1 /\ ~MidRound' /\ done.phase \in Nat
      BY <2>1, <2>2, <2>3 DEF Arrive, MidRound, TypeOK, Barrier
    <3>3. InOpenRound /\ ~InOpenRound'
      BY <2>1, <2>2, <3>1, <3>2 DEF InOpenRound
    <3> QED
      BY <2>2, <3>1, <3>2, <3>3 DEF RoundInv
  <2>4. CASE done.arrived + 1 # Expected
    <3>1. done'.phase = done.phase /\ MidRound'
      BY <2>1, <2>2, <2>4 DEF Arrive, MidRound, TypeOK, Barrier
    <3> QED
      BY <2>1, <2>2, <3>1 DEF RoundInv, InOpenRound, TypeOK
  <2> QED
    BY <2>3, <2>4
<1>9. ASSUME NEW t \in Threads, LeaveDone(t) PROVE RoundInv'
  <2>1. ~MidRound /\ ~MidRound'
    BY <1>9, LeaveDoneMidRound
  <2>2. /\ pc[t] = "waitDone" /\ UNCHANGED <<done, task, stop, leaving>>
        /\ pc' = [pc EXCEPT ![t] =
                    IF t = Main THEN IF stop THEN "join" ELSE "collect"
                    ELSE IF t \in leaving THEN "exited" ELSE "arriveStart"]
    BY <1>9 DEF LeaveDone, Goto
  <2> QED
    BY <2>1, <2>2 DEF RoundInv, InOpenRound, TypeOK
<1>10. ASSUME NEW w \in Workers, ReadStop(w) PROVE RoundInv'
  <2>1. MidRound /\ MidRound'
    BY <1>10 DEF ReadStop, Goto, PhaseInv, MidRound, Inside
  <2> QED
    BY <1>10, <2>1 DEF RoundInv, InOpenRound, TypeOK, ReadStop, Goto
<1>11. ASSUME NEW w \in Workers, RunShard(w) PROVE RoundInv'
  BY <1>11 DEF RoundInv, InOpenRound, TypeOK, RunShard, MidRound
<1>12. ASSUME NEW w \in Workers, ShardThrows(w) PROVE RoundInv'
  BY <1>12 DEF RoundInv, InOpenRound, TypeOK, ShardThrows, Goto, MidRound
<1>13. ASSUME NEW w \in Workers, RecordException(w) PROVE RoundInv'
  BY <1>13 DEF RoundInv, InOpenRound, TypeOK, RecordException, Goto, MidRound
<1>14. ASSUME NEW w \in Workers, TaskReturns(w) PROVE RoundInv'
  BY <1>14 DEF RoundInv, InOpenRound, TypeOK, TaskReturns, Goto, MidRound
<1>15. CASE UNCHANGED vars
  BY <1>15 DEF RoundInv, InOpenRound, vars, MidRound
<1> QED
  BY <1>1, <1>2, <1>3, <1>4, <1>5, <1>6, <1>7, <1>8, <1>9, <1>10, <1>11,
     <1>12, <1>13, <1>14, <1>15
  DEF Next, Constructor, BarrierStep, WorkerStep, Finished

LEMMA RoundInvariance == Spec => [](IInv /\ RoundInv)
<1>1. IInv /\ RoundInv /\ [Next]_vars => RoundInv'
  BY RoundStep DEF IInv
<1> QED
  BY <1>1, RoundInit, Invariance, PTL DEF Spec

\* A step of thread t is possible, by the guards of its steps.
CanMove(t) ==
  \/ pc[t] \in {"arriveStart", "check", "run", "catch", "arriveDone", "collect"}
  \/ pc[t] = "waitStart" /\ Released(t, start)
  \/ pc[t] = "waitDone" /\ Released(t, done)
  \/ t = Main /\ \E w \in Workers : NextToSpawn(w)
  \/ pc[t] = "join" /\ \A w \in Workers : pc[w] = "exited"

\* The pool waits for the next call, or it has come to its end.
Resting == pc[Main] \in {"idle", "closed", "failed", "terminated"}

\* A barrier that has not let its phase go is waiting for somebody.
LEMMA NotAllWait ==
  ASSUME TypeOK, PhaseInv
  PROVE  WaitingAtStart # Threads /\ WaitingAtDone # Threads
<1>1. start.arrived \in 0 .. NumThreads /\ done.arrived \in 0 .. NumThreads
  BY DEF TypeOK, Barrier
<1>2. NumThreads \in Nat /\ Expected = NumThreads + 1
  BY PoolAssumption DEF Expected
<1> QED
  BY <1>1, <1>2, ThreadCount DEF PhaseInv

\* Whatever the numbers of workers, shards and calls: unless the pool has nothing to
\* do, some thread can take its next step.  The threads never all wait at the two
\* barriers or in the destructor's join, exceptions and the last round included.
THEOREM NobodyStuck == Spec => [](Resting \/ \E t \in Threads : CanMove(t))
<1>1. ASSUME IInv, RoundInv, ~Resting PROVE \E t \in Threads : CanMove(t)
  <2> USE MainIsNoWorker
  <2>0. /\ pc[Main] \in MainPC /\ \A w \in Workers : pc[w] \in WorkerPC
        /\ start.phase \in Nat /\ done.phase \in Nat
        /\ MidRound \/ start.phase = done.phase
        /\ \A t \in Threads : /\ pc[t] = "waitStart" => token[t] = done.phase
                              /\ pc[t] = "waitDone" => token[t] = start.phase - 1
                              /\ pc[t] \in Inside => MidRound
                              /\ pc[t] \notin Inside \cup Waiting => ~MidRound
    BY <1>1 DEF IInv, TypeOK, PhaseInv, Barrier
  <2>1. CASE pc[Main] = "spawn"
    <3> DEFINE unborn == {w \in Workers : pc[w] = "unborn"}
    <3>1. unborn # {} /\ unborn \in SUBSET Nat
      BY <1>1, <2>1, LastWorker DEF RoundInv
    <3>2. PICK w \in unborn : \A v \in unborn : w <= v
      <4> HIDE DEF unborn
      <4> QED
        BY <3>1, LeastElement
    <3>3. \A v \in 0 .. w - 1 : v \in Workers /\ ~(w <= v)
      BY <3>2, PoolAssumption DEF Workers
    <3>4. NextToSpawn(w)
      BY <2>1, <3>2, <3>3 DEF NextToSpawn
    <3> QED
      BY <3>2, <3>4 DEF CanMove
  <2>2. CASE pc[Main] \in {"arriveStart", "arriveDone", "collect"}
    BY <2>2 DEF CanMove
  <2>3. CASE pc[Main] = "waitStart"
    <3>1. CASE MidRound
      BY <2>0, <2>3, <3>1 DEF CanMove, Released, MidRound
    <3>2. CASE ~MidRound
      <4>1. PICK t \in Threads : t \notin WaitingAtStart
        BY <1>1, NotAllWait DEF IInv, WaitingAtStart
      <4>2. pc[t] # "waitStart" /\ t \in Workers
        BY <2>0, <2>3, <3>2, <4>1 DEF WaitingAtStart
      <4>3. pc[t] \notin {"unborn", "exited"}
        BY <1>1, <2>3, <3>2, <4>2 DEF RoundInv
      <4>4. pc[t] \in {"arriveStart", "waitDone"}
        BY <2>0, <3>2, <4>2, <4>3 DEF WorkerPC, Inside
      <4> QED
        BY <2>0, <3>2, <4>1, <4>4 DEF CanMove, Released
    <3> QED
      BY <3>1, <3>2
  <2>4. CASE pc[Main] = "waitDone"
    <3>1. CASE ~MidRound
      BY <2>0, <2>4, <3>1 DEF CanMove, Released
    <3>2. CASE MidRound
      <4>1. PICK t \in Threads : t \notin WaitingAtDone
        BY <1>1, NotAllWait DEF IInv, WaitingAtDone
      <4>2. pc[t] # "waitDone"
        BY <2>0, <3>2, <4>1 DEF WaitingAtDone, MidRound
      <4>3. pc[t] \in Inside \cup {"waitStart"}
        BY <2>0, <3>2, <4>2 DEF Waiting
      <4> QED
        BY <2>0, <3>2, <4>1, <4>3 DEF CanMove, Released, Inside, MidRound
    <3> QED
      BY <3>1, <3>2
  <2>5. CASE pc[Main] = "join"
    <3>1. CASE \A w \in Workers : pc[w] = "exited"
      BY <2>5, <3>1 DEF CanMove
    <3>2. CASE ~(\A w \in Workers : pc[w] = "exited")
      <4>1. PICK w \in Workers : pc[w] # "exited"
        BY <3>2
      <4>2. ~MidRound /\ stop
        BY <1>1, <2>0, <2>5 DEF IInv, LifeInv, Inside, Waiting
      <4>3. pc[w] = "waitDone"
        BY <1>1, <2>0, <2>5, <4>1, <4>2 DEF IInv, LifeInv, Inside
      <4> QED
        BY <2>0, <4>2, <4>3 DEF CanMove, Released
    <3> QED
      BY <3>1, <3>2
  <2> QED
    BY <1>1, <2>0, <2>1, <2>2, <2>3, <2>4, <2>5 DEF Resting, MainPC
<1> QED
  BY <1>1, RoundInvariance, PTL

-----------------------------------------------------------------------------
(* Every step brings the pool nearer to its end.                           *)

\* The order in which a thread comes through a round; between two rounds it is at the
\* beginning of the later one.
Order ==
  [unborn |-> 0, spawn |-> 0, exited |-> 0, join |-> 0, closed |-> 1, failed |-> 1,
   terminated |-> 1, collect |-> 1, idle |-> 2, arriveStart |-> 3, waitStart |-> 4,
   check |-> 5, run |-> 6, catch |-> ShardCount + 7, arriveDone |-> ShardCount + 8,
   waitDone |-> ShardCount + 9]

Width == ShardCount + 10

\* In the loop of run_shards the shard counts too.
Looped(w) == IF next[w] < ShardCount THEN next[w] ELSE ShardCount

Place(t) == Order[pc[t]] + (IF pc[t] = "run" THEN Looped(t) ELSE 0)

Round(t) == IF pc[t] \in Waiting THEN token[t] ELSE done.phase

Position(t) == Round(t) * Width + Place(t)

\* The last position, with the round of the destructor after MaxCalls others.
Last == (MaxCalls + 2) * Width

Remaining == {x \in Threads \X (0 .. Last) : Position(x[1]) < x[2]}
StepsLeft == Cardinality(Remaining)
MostSteps == (NumThreads + 1) * (Last + 1)

LEMMA PlaceTyped ==
  ASSUME TypeOK, NEW t \in Threads
  PROVE  Place(t) \in 0 .. Width - 1
<1>1. ShardCount \in Nat /\ Width - 1 = ShardCount + 9
  BY PoolAssumption DEF Width
<1>2. CASE pc[t] = "run"
  <2>1. t \in Workers /\ next[t] \in Nat
    BY <1>2, MainIsNoWorker DEF TypeOK, MainPC
  <2>2. Looped(t) \in 0 .. ShardCount
    BY <1>1, <2>1 DEF Looped
  <2>3. Place(t) = 6 + Looped(t)
    BY <1>2 DEF Place, Order
  <2> QED
    BY <1>1, <2>2, <2>3
<1>3. CASE pc[t] # "run"
  <2>1. pc[t] \in (WorkerPC \cup MainPC) \ {"run"}
    BY <1>3 DEF TypeOK
  <2>2. Order[pc[t]] \in 0 .. ShardCount + 9
    BY <1>1, <2>1 DEF Order, WorkerPC, MainPC
  <2>3. Place(t) = Order[pc[t]]
    BY <1>1, <1>3, <2>2 DEF Place
  <2> QED
    BY <1>1, <2>2, <2>3
<1> QED
  BY <1>2, <1>3

\* Nobody is beyond the round that is under way, and there are at most MaxCalls + 1.
LEMMA RoundTyped ==
  ASSUME IInv, RoundInv, NEW t \in Threads
  PROVE  Round(t) \in 0 .. MaxCalls + 1
<1>1. /\ start.phase \in Nat /\ done.phase \in Nat /\ token[t] \in Nat
      /\ task \in 0 .. MaxCalls /\ MaxCalls \in Nat /\ stop \in BOOLEAN
      /\ MidRound \/ start.phase = done.phase
      /\ pc[t] = "waitStart" => token[t] = done.phase
      /\ pc[t] = "waitDone" => token[t] = start.phase - 1
  BY PoolAssumption DEF IInv, TypeOK, PhaseInv, Barrier
<1>2. done.phase <= MaxCalls + 1
  BY <1>1 DEF RoundInv
<1> QED
  BY <1>1, <1>2 DEF Round, Waiting, MidRound

LEMMA PositionTyped ==
  ASSUME IInv, RoundInv, NEW t \in Threads
  PROVE  Position(t) \in 0 .. Last
<1>1. Place(t) \in 0 .. Width - 1 /\ Width \in Nat /\ MaxCalls \in Nat
  BY PlaceTyped, PoolAssumption DEF IInv, Width
<1>2. Round(t) \in 0 .. MaxCalls + 1
  BY RoundTyped
<1>3. \A m, r, w, p \in Nat : r <= m + 1 /\ p < w => r * w + p \in 0 .. (m + 2) * w
  <2> SUFFICES ASSUME NEW m \in Nat, NEW r \in Nat, NEW w \in Nat, NEW p \in Nat,
                      r <= m + 1, p < w
               PROVE  r * w + p \in 0 .. (m + 2) * w
    OBVIOUS
  <2>1. r * w \in Nat /\ (m + 1) * w \in Nat /\ r * w <= (m + 1) * w
    OBVIOUS
  <2>2. (m + 2) * w = (m + 1) * w + w
    OBVIOUS
  <2> QED
    BY <2>1, <2>2
<1> QED
  BY <1>1, <1>2, <1>3 DEF Position, Last

\* Thread t comes to a later place of its round, or to a later round.
Further(t) ==
  \/ Round(t)' > Round(t)
  \/ Round(t)' = Round(t) /\ Place(t)' > Place(t)

Same(t) == Round(t)' = Round(t) /\ Place(t)' = Place(t)

LEMMA FurtherIsGreater ==
  ASSUME IInv, RoundInv, IInv', RoundInv', NEW t \in Threads
  PROVE  /\ Further(t) => Position(t) < Position(t)'
         /\ Same(t) => Position(t) = Position(t)'
<1>1. /\ Place(t) \in 0 .. Width - 1 /\ Round(t) \in 0 .. MaxCalls + 1
      /\ Place(t)' \in 0 .. Width - 1 /\ Round(t)' \in 0 .. MaxCalls + 1
  <2>1. Place(t) \in 0 .. Width - 1 /\ Round(t) \in 0 .. MaxCalls + 1
    BY PlaceTyped, RoundTyped DEF IInv
  <2>2. TypeOK'
    BY DEF IInv
  <2>3. (TypeOK => Place(t) \in 0 .. Width - 1)'
    BY PlaceTyped, PTL
  <2>4. (IInv /\ RoundInv => Round(t) \in 0 .. MaxCalls + 1)'
    BY RoundTyped, PTL
  <2> QED
    BY <2>1, <2>2, <2>3, <2>4 DEF Width
<1>2. \A r, q, w \in Nat : \A x, y \in 0 .. w - 1 :
        /\ r < q => r * w + x < q * w + y
        /\ x < y => r * w + x < r * w + y
  <2> SUFFICES ASSUME NEW r \in Nat, NEW q \in Nat, NEW w \in Nat,
                      NEW x \in 0 .. w - 1, NEW y \in 0 .. w - 1
               PROVE  /\ r < q => r * w + x < q * w + y
                      /\ x < y => r * w + x < r * w + y
    OBVIOUS
  <2>1. r < q => (r + 1) * w <= q * w
    OBVIOUS
  <2>2. (r + 1) * w = r * w + w /\ r * w \in Nat /\ q * w \in Nat
    OBVIOUS
  <2> QED
    BY <2>1, <2>2
<1>3. /\ Position(t) = Round(t) * Width + Place(t)
      /\ Position(t)' = Round(t)' * Width + Place(t)'
  BY DEF Position, Width
<1>4. Width \in Nat /\ Round(t) \in Nat /\ Round(t)' \in Nat
  BY <1>1, PoolAssumption DEF Width
<1>5. Same(t) => Position(t) = Position(t)'
  BY <1>3 DEF Same
<1>6. ASSUME Round(t) < Round(t)' PROVE Position(t) < Position(t)'
  BY <1>1, <1>2, <1>3, <1>4, <1>6
<1>7. ASSUME Round(t)' = Round(t), Place(t) < Place(t)' PROVE Position(t) < Position(t)'
  BY <1>1, <1>2, <1>3, <1>4, <1>7
<1>8. ASSUME Further(t) PROVE Round(t) < Round(t)' \/ (Round(t)' = Round(t) /\ Place(t) < Place(t)')
  BY <1>1, <1>8 DEF Further
<1> QED
  BY <1>5, <1>6, <1>7, <1>8

\* Every step takes a thread further, and none back.
LEMMA SomebodyFurther ==
  ASSUME IInv, RoundInv, Next, vars' # vars
  PROVE  /\ \E t \in Threads : Further(t)
         /\ \A t \in Threads : Further(t) \/ Same(t)
<1> USE MainIsNoWorker
<1> DEFINE Moves(t) == Further(t) /\ \A u \in Threads : Further(u) \/ Same(u)
<1>0. /\ TypeOK /\ PhaseInv /\ LifeInv
      /\ \A t \in Threads : Place(t) \in 0 .. Width - 1
      /\ \A t \in Threads :
           /\ pc[t] = "waitStart" => token[t] = done.phase
           /\ pc[t] = "waitDone" => token[t] = start.phase - 1
           /\ pc[t] \in Inside => MidRound
           /\ pc[t] \notin Inside \cup Waiting => ~MidRound
      /\ MidRound \/ start.phase = done.phase
      /\ start.phase \in Nat /\ done.phase \in Nat /\ ShardCount \in Nat
  BY PlaceTyped, PoolAssumption DEF IInv, PhaseInv, TypeOK, Barrier
<1> HIDE DEF Moves
\* A thread whose round goes on, or who waits, stays where it is if others move.
<1>1. ASSUME NEW t \in Threads, NEW p, pc' = [pc EXCEPT ![t] = p],
             \A u \in Threads \ {t} :
               /\ token'[u] = token[u]
               /\ done'.phase = done.phase \/ pc[u] \in Waiting
               /\ pc[u] = "run" => next'[u] = next[u]
      PROVE  \A u \in Threads : u # t => Same(u)
  <2> SUFFICES ASSUME NEW u \in Threads, u # t PROVE Same(u)
    OBVIOUS
  <2>1. pc'[u] = pc[u]
    BY <1>0, <1>1 DEF TypeOK
  <2> QED
    BY <1>1, <2>1 DEF Same, Round, Place, Looped
\* A thread that goes on in its round, outside the loop of run_shards.
<1>2. ASSUME NEW t \in Threads, NEW p \in WorkerPC \cup MainPC,
             pc[t] \notin Waiting \cup {"run"}, p \notin Waiting \cup {"run"},
             Order[pc[t]] < Order[p],
             pc' = [pc EXCEPT ![t] = p], UNCHANGED <<token, done, next>>
      PROVE  Moves(t)
  <2>1. pc'[t] = p
    BY <1>0, <1>2 DEF TypeOK
  <2>2. \A u \in Threads : u # t => Same(u)
    BY <1>1, <1>2
  <2>3. Round(t)' = Round(t)
    BY <1>2, <2>1 DEF Round
  <2>4. Place(t)' > Place(t)
    <3>1. Place(t) = Order[pc[t]] + 0 /\ Place(t)' = Order[p] + 0
      BY <1>2, <2>1 DEF Place, Order
    <3>2. Order[pc[t]] \in Nat /\ Order[p] \in Nat
      BY <1>0, <1>2 DEF Order, TypeOK, WorkerPC, MainPC
    <3> QED
      BY <1>2, <3>1, <3>2
  <2> QED
    BY <2>2, <2>3, <2>4 DEF Further, Moves
<1>3. ASSUME NEW w \in Workers, Spawn(w) PROVE Moves(w)
  <2>1. /\ pc[Main] = "spawn" /\ pc[w] = "unborn" /\ w # Main /\ w \in Threads
        /\ pc'[w] = "arriveStart" /\ pc'[Main] \in {"spawn", "idle"}
        /\ \A u \in Threads : u \notin {w, Main} => pc'[u] = pc[u]
        /\ UNCHANGED <<token, done, next>>
    BY <1>0, <1>3 DEF Spawn, NextToSpawn, TypeOK
  <2>2. \A u \in Threads : u \notin {w, Main} => Same(u)
    BY <2>1 DEF Same, Round, Place, Looped
  <2>3. Further(w)
    BY <2>1 DEF Further, Round, Place, Order, Waiting
  <2>4. Further(Main) \/ Same(Main)
    BY <2>1 DEF Further, Same, Round, Place, Order, Waiting
  <2> QED
    BY <2>2, <2>3, <2>4 DEF Moves
<1>4. ASSUME NEW w \in Workers, SpawnFails(w) PROVE Moves(Main)
  <2>1. PICK p \in {"failed", "terminated"} : pc' = [pc EXCEPT ![Main] = p]
    BY <1>4 DEF SpawnFails
  <2>2. pc[Main] = "spawn" /\ UNCHANGED <<token, done, next>>
    BY <1>4 DEF SpawnFails, NextToSpawn
  <2>3. Order[pc[Main]] < Order[p] /\ p \in MainPC
    BY <2>1, <2>2 DEF Order, MainPC
  <2> QED
    BY <1>2, <2>1, <2>2, <2>3 DEF Waiting
<1>5. ASSUME StartCall \/ Collect \/ Close \/ Join PROVE Moves(Main)
  <2>1. PICK p \in {"arriveStart", "idle", "closed"} :
          /\ pc' = [pc EXCEPT ![Main] = p]
          /\ <<pc[Main], p>> \in {<<"idle", "arriveStart">>, <<"collect", "idle">>,
                                  <<"join", "closed">>}
    BY <1>5 DEF StartCall, Collect, Close, Join, Goto
  <2>2. UNCHANGED <<token, done, next>>
    BY <1>5 DEF StartCall, Collect, Close, Join
  <2>3. Order[pc[Main]] < Order[p] /\ p \in MainPC
    BY <2>1 DEF Order, MainPC
  <2>4. pc[Main] \notin Waiting \cup {"run"} /\ p \notin Waiting \cup {"run"}
    BY <2>1 DEF Waiting
  <2>5. pc' = [pc EXCEPT ![Main] = p]
    BY <2>1
  <2> QED
    BY <1>2, <2>2, <2>3, <2>4, <2>5
<1>6. ASSUME NEW t \in Threads, ArriveStart(t) PROVE Moves(t)
  <2>1. /\ pc[t] = "arriveStart" /\ pc' = [pc EXCEPT ![t] = "waitStart"]
        /\ token' = [token EXCEPT ![t] = start.phase] /\ UNCHANGED <<done, next>>
    BY <1>6 DEF ArriveStart, Goto
  <2>2. pc'[t] = "waitStart" /\ token'[t] = start.phase
        /\ \A u \in Threads : u # t => token'[u] = token[u]
    BY <1>0, <2>1 DEF TypeOK
  <2>3. start.phase = done.phase
    BY <1>0, <2>1 DEF Inside, Waiting
  <2>4. Further(t)
    BY <2>1, <2>2, <2>3 DEF Further, Round, Place, Order, Waiting
  <2>5. \A u \in Threads : u # t => Same(u)
    BY <1>1, <2>1, <2>2
  <2> QED
    BY <2>4, <2>5 DEF Moves
<1>7. ASSUME NEW t \in Threads, LeaveStart(t) PROVE Moves(t)
  <2>1. PICK p \in {"arriveDone", "check"} :
          pc' = [pc EXCEPT ![t] = p]
    BY <1>7 DEF LeaveStart, Goto
  <2>2. pc'[t] = p /\ pc[t] = "waitStart" /\ UNCHANGED <<token, done, next>>
    BY <1>0, <1>7, <2>1 DEF LeaveStart, Goto, TypeOK
  <2>3. Round(t)' = Round(t)
    BY <1>0, <2>1, <2>2 DEF Round, Waiting
  <2>4. Place(t)' > Place(t)
    BY <1>0, <2>1, <2>2 DEF Place, Order
  <2>5. \A u \in Threads : u # t => Same(u)
    BY <1>1, <2>1, <2>2
  <2> QED
    BY <2>3, <2>4, <2>5 DEF Further, Moves
<1>8. ASSUME NEW t \in Threads, ArriveDone(t) PROVE Moves(t)
  <2>1. /\ pc[t] = "arriveDone" /\ pc' = [pc EXCEPT ![t] = "waitDone"]
        /\ token' = [token EXCEPT ![t] = done.phase] /\ UNCHANGED next
        /\ done' = Arrive(done)
    BY <1>8 DEF ArriveDone, Goto
  <2>2. pc'[t] = "waitDone" /\ token'[t] = done.phase
        /\ \A u \in Threads : u # t => token'[u] = token[u]
    BY <1>0, <2>1 DEF TypeOK
  <2>3. Further(t)
    BY <1>0, <2>1, <2>2 DEF Further, Round, Place, Order, Waiting
  <2>4. done'.phase = done.phase \/ \A u \in Threads : u # t => pc[u] = "waitDone"
    <3>1. CASE done.arrived + 1 = Expected
      BY <1>0, <1>8, <3>1, LastAtDone
    <3>2. CASE done.arrived + 1 # Expected
      BY <1>0, <2>1, <3>2 DEF Arrive, TypeOK, Barrier
    <3> QED
      BY <3>1, <3>2
  <2>5. \A u \in Threads : u # t => Same(u)
    BY <1>1, <2>1, <2>2, <2>4 DEF Waiting
  <2> QED
    BY <2>3, <2>5 DEF Moves
<1>9. ASSUME NEW t \in Threads, LeaveDone(t) PROVE Moves(t)
  <2>1. PICK p \in {"join", "collect", "exited", "arriveStart"} :
          pc' = [pc EXCEPT ![t] = p]
    BY <1>9 DEF LeaveDone, Goto
  <2>2. pc'[t] = p /\ pc[t] = "waitDone" /\ UNCHANGED <<token, done, next>>
    BY <1>0, <1>9, <2>1 DEF LeaveDone, Goto, TypeOK
  <2>3. ~MidRound
    BY <1>0, <1>9, LeaveDoneMidRound
  <2>4. Round(t)' > Round(t)
    BY <1>0, <2>1, <2>2, <2>3 DEF Round, Waiting
  <2>5. \A u \in Threads : u # t => Same(u)
    BY <1>1, <2>1, <2>2
  <2> QED
    BY <2>4, <2>5 DEF Further, Moves
<1>10. ASSUME NEW w \in Workers, ReadStop(w) \/ RunShard(w) \/ ShardThrows(w) \/ TaskReturns(w)
       PROVE  Moves(w)
  <2>1. /\ pc[w] \in {"check", "run"} /\ w \in Threads /\ UNCHANGED <<token, done>>
        /\ next[w] \in Nat /\ next'[w] \in Nat
        /\ \A u \in Workers : u # w => next'[u] = next[u]
    BY <1>0, <1>10 DEF ReadStop, RunShard, ShardThrows, TaskReturns, Goto, TypeOK
  <2>2. PICK p \in {"arriveDone", "run", "catch"} :
          /\ pc' = [pc EXCEPT ![w] = p]
          /\ pc[w] = "run" /\ p = "run" => next[w] < ShardCount /\ next'[w] > next[w]
          /\ pc[w] = "check" => p # "catch"
          /\ p = "catch" => next[w] < ShardCount
    <3>1. CASE RunShard(w)
      <4>1. next'[w] = next[w] + NumThreads /\ pc' = pc /\ pc[w] = "run"
            /\ next[w] < ShardCount
        BY <1>0, <3>1 DEF RunShard, TypeOK
      <4>2. pc' = [pc EXCEPT ![w] = "run"]
        BY <1>0, <4>1 DEF TypeOK
      <4>3. next'[w] > next[w]
        BY <2>1, <4>1
      <4> QED
        BY <4>1, <4>2, <4>3
    <3>2. CASE ~RunShard(w)
      BY <1>10, <3>2 DEF ReadStop, ShardThrows, TaskReturns, Goto
    <3> QED
      BY <3>1, <3>2
  <2>3. pc'[w] = p
    BY <1>0, <2>1, <2>2 DEF TypeOK
  <2>4. Round(w)' = Round(w)
    BY <2>1, <2>2, <2>3 DEF Round, Waiting
  <2>5. /\ Looped(w) \in 0 .. ShardCount /\ Looped(w)' \in 0 .. ShardCount
        /\ pc[w] = "run" /\ p = "run" => Looped(w)' > Looped(w)
    BY <1>0, <2>1, <2>2 DEF Looped
  <2>6. /\ Place(w) = IF pc[w] = "run" THEN 6 + Looped(w) ELSE 5
        /\ Place(w)' = IF p = "run" THEN 6 + Looped(w)'
                       ELSE IF p = "catch" THEN ShardCount + 7 ELSE ShardCount + 8
    <3>1. /\ Place(w) = Order[pc[w]] + (IF pc[w] = "run" THEN Looped(w) ELSE 0)
          /\ Place(w)' = Order[p] + (IF p = "run" THEN Looped(w)' ELSE 0)
      BY <2>3 DEF Place, Order
    <3> QED
      BY <1>0, <2>1, <2>2, <2>5, <3>1 DEF Order
  <2>7. Place(w)' > Place(w)
    BY <1>0, <2>1, <2>2, <2>5, <2>6
  <2>8. \A u \in Threads : u # w => Same(u)
    <3>1. \A u \in Threads \ {w} : pc[u] = "run" => u \in Workers
      BY <1>0 DEF TypeOK, MainPC
    <3> QED
      BY <1>1, <2>1, <2>2, <3>1
  <2> QED
    BY <2>1, <2>4, <2>7, <2>8 DEF Further, Moves
<1>11. ASSUME NEW w \in Workers, RecordException(w) PROVE Moves(w)
  <2>1. /\ pc[w] = "catch" /\ pc' = [pc EXCEPT ![w] = "arriveDone"]
        /\ UNCHANGED <<token, done, next>>
    BY <1>11 DEF RecordException, Goto
  <2>2. Order["catch"] < Order["arriveDone"] /\ "arriveDone" \in WorkerPC
    BY <1>0 DEF Order, WorkerPC
  <2> QED
    BY <1>2, <2>1, <2>2 DEF Waiting
<1>12. \E t \in Threads : Moves(t)
  <2>1. CASE Constructor
    BY <1>3, <1>4, <2>1 DEF Constructor
  <2>2. CASE \E t \in Threads : BarrierStep(t)
    BY <1>6, <1>7, <1>8, <1>9, <2>2 DEF BarrierStep
  <2>3. CASE \E w \in Workers : WorkerStep(w)
    BY <1>10, <1>11, <2>3 DEF WorkerStep
  <2> QED
    BY <1>5, <2>1, <2>2, <2>3 DEF Next, Finished
<1> QED
  BY <1>12 DEF Moves

LEMMA RemainingFinite ==
  ASSUME IInv, RoundInv
  PROVE  IsFiniteSet(Remaining) /\ StepsLeft \in 0 .. MostSteps
<1>1. Last \in Nat /\ NumThreads + 1 \in Nat
  <2>1. MaxCalls + 2 \in Nat /\ Width \in Nat
    BY PoolAssumption DEF Width
  <2>2. \A a, b \in Nat : a * b \in Nat
    OBVIOUS
  <2> QED
    BY <2>1, <2>2, PoolAssumption DEF Last
<1>2. IsFiniteSet(0 .. Last) /\ Cardinality(0 .. Last) = Last + 1
  <2>1. 0 \in Int /\ Last \in Int /\ ~(0 > Last) /\ Last - 0 + 1 = Last + 1
    BY <1>1
  <2> QED
    BY <2>1, FS_Interval
<1>3. /\ IsFiniteSet(Threads \X (0 .. Last))
      /\ Cardinality(Threads \X (0 .. Last)) = MostSteps
  BY <1>2, ThreadCount, FS_Product, ZenonT(60) DEF Expected, MostSteps
<1>4. Remaining \in SUBSET (Threads \X (0 .. Last))
  BY DEF Remaining
<1>5. /\ IsFiniteSet(Remaining) /\ Cardinality(Remaining) <= MostSteps
  BY <1>3, <1>4, FS_Subset
<1>6. Cardinality(Remaining) \in Nat /\ MostSteps \in Nat
  BY <1>3, <1>5, FS_CardinalityType
<1> QED
  BY <1>5, <1>6 DEF StepsLeft

LEMMA StepsFewer ==
  ASSUME IInv, RoundInv, IInv', RoundInv', Next, vars' # vars
  PROVE  StepsLeft' < StepsLeft
<1>1. /\ IsFiniteSet(Remaining) /\ StepsLeft \in Nat
      /\ \A t \in Threads : Position(t) \in 0 .. Last
  BY RemainingFinite, PositionTyped
<1>2. StepsLeft' \in Nat /\ \A t \in Threads : Position(t)' \in 0 .. Last
  <2>1. (IInv /\ RoundInv => StepsLeft \in 0 .. MostSteps)'
    BY RemainingFinite, PTL
  <2>2. ASSUME NEW t \in Threads PROVE Position(t)' \in 0 .. Last
    <3>1. (IInv /\ RoundInv => Position(t) \in 0 .. Last)'
      BY PositionTyped, PTL
    <3> QED
      BY <3>1 DEF Last, Width
  <2> QED
    BY <2>1, <2>2 DEF MostSteps, Last, Width
<1>3. PICK t \in Threads : Further(t)
  BY SomebodyFurther
<1>4. \A u \in Threads : Position(u) <= Position(u)'
  BY <1>1, <1>2, SomebodyFurther, FurtherIsGreater
<1>5. Position(t) < Position(t)'
  BY <1>3, FurtherIsGreater
<1> DEFINE R == Remaining
           Q == Remaining'
           x == <<t, Position(t)'>>
<1>6. Q \subseteq R
  BY <1>1, <1>2, <1>4 DEF Remaining, Last, Width
<1>7. x \in R /\ x \notin Q
  BY <1>1, <1>2, <1>5 DEF Remaining, Last, Width
<1>8. StepsLeft = Cardinality(R) /\ StepsLeft' = Cardinality(Q)
  BY DEF StepsLeft
<1> HIDE DEF R, Q
<1>9. Cardinality(Q) <= Cardinality(R) /\ (Cardinality(R) = Cardinality(Q) => R = Q)
  <2>1. IsFiniteSet(R) /\ Q \in SUBSET R
    BY <1>1, <1>6 DEF R
  <2> QED
    BY <2>1, FS_Subset
<1> QED
  BY <1>1, <1>2, <1>7, <1>8, <1>9

\* A pool can only take so many steps: every step, whoever takes it, leaves fewer,
\* whatever the numbers of workers, shards and calls.  No thread goes round in circles
\* between the barriers, and none runs its loop for ever.  With NobodyStuck: each call
\* returns or throws, and the destructor returns, if the threads are run at all.
THEOREM StepsRunOut ==
  Spec => [](StepsLeft \in 0 .. MostSteps) /\ [][StepsLeft' < StepsLeft]_vars
<1>1. IInv /\ RoundInv => StepsLeft \in 0 .. MostSteps
  BY RemainingFinite
<1>2. /\ IInv /\ RoundInv /\ IInv' /\ RoundInv' /\ [Next]_vars
      => [StepsLeft' < StepsLeft]_vars
  <2> SUFFICES ASSUME IInv, RoundInv, IInv', RoundInv', [Next]_vars, vars' # vars
               PROVE  StepsLeft' < StepsLeft
    OBVIOUS
  <2>1. Next
    OBVIOUS
  <2> QED
    BY <2>1, StepsFewer
<1> QED
  BY <1>1, <1>2, RoundInvariance, PTL DEF Spec

=============================================================================

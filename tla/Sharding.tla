------------------------------ MODULE Sharding ------------------------------
(***************************************************************************)
(* How run_specific_benchmarks plans its work: the iterations every shard  *)
(* gets, the loops of the arithmetic kernels, and the elements the memory  *)
(* bandwidth benchmark may allocate.  Each of the three is a loop over the *)
(* shards in int and uint64_t arithmetic; a plan that does not fit these   *)
(* types is rejected with an exception.  The plan does not depend on the   *)
(* number of workers that will run the shards.                             *)
(***************************************************************************)
EXTENDS Integers

CONSTANTS
  IntMax,     \* largest int, 2^31 - 1 in the code; also bounds the settings
  WordMax,    \* largest uint64_t, 2^64 - 1 in the code
  Lanes,      \* arithmetic_lanes, 8
  PerIteration,  \* elements of the bandwidth benchmark per iteration, 8
  MiB,        \* 2^20
  PerElement  \* bytes_per_element, 24

ASSUME ShardingAssumption ==
  /\ IntMax \in Nat \ {0}
  /\ WordMax \in Nat
  /\ Lanes \in Nat \ {0}
  /\ PerIteration \in Nat \ {0}
  /\ MiB \in Nat \ {0}
  /\ PerElement \in Nat \ {0}
  /\ WordMax >= IntMax * (IntMax + Lanes)
  /\ WordMax >= IntMax * MiB

VARIABLES
  total,       \* total_iterations
  threads,     \* settings_->thread_count
  intensity,   \* settings_->intensity_multiplier
  limit,       \* settings_->memory_bandwidth_max_mib
  pc,          \* the loop in progress
  shard,       \* its loop variable
  iterations,  \* iterations_by_shard
  assigned,    \* history: the sum of iterations_by_shard so far
  loops,       \* arithmetic_loops_by_shard
  operations,  \* arithmetic_operations
  working,     \* working_set_by_shard
  allocated    \* allocated_elements

settings == <<total, threads, intensity, limit>>
vars == <<settings, pc, shard, iterations, assigned, loops, operations,
          working, allocated>>

Lesser(a, b) == IF a <= b THEN a ELSE b

Count       == Lesser(threads, total)  \* shard_count
Shards      == 0 .. Count - 1
Effective   == total * intensity       \* total_effective
Requested   == Effective * PerIteration
MaxElements == (limit * MiB) \div PerElement

\* Faults: the remainder is lost, or goes to one shard.
ShareDropsRemainder(n, count, s) == n \div count

ShareRemainderToLast(n, count, s) ==
  n \div count + (IF s = count - 1 THEN n % count ELSE 0)

\* The part of n that shard s of `count` gets.
Share(n, count, s) == n \div count + (IF s < n % count THEN 1 ELSE 0)

Planned == {"arithmetic", "sizes", "limits", "bandwidth", "ready"}

TypeOK ==
  /\ {total, threads, intensity, limit} \subseteq 0 .. IntMax
  /\ pc \in {"validate", "iterations", "rejected"} \cup Planned
  /\ shard \in 0 .. Count
  /\ iterations \in [Shards -> 0 .. IntMax]
  /\ assigned \in 0 .. WordMax
  /\ loops \in [Shards -> 0 .. IntMax]
  /\ operations \in 0 .. WordMax
  /\ working \in [Shards -> Nat]
  /\ allocated \in 0 .. WordMax

Init ==
  /\ total \in 0 .. IntMax
  /\ threads \in 0 .. IntMax
  /\ intensity \in 0 .. IntMax
  /\ limit \in 0 .. IntMax
  /\ pc = "validate"
  /\ shard = 0
  /\ iterations = [s \in Shards |-> 0]
  /\ assigned = 0
  /\ loops = [s \in Shards |-> 0]
  /\ operations = 0
  /\ working = [s \in Shards |-> 0]
  /\ allocated = 0

-----------------------------------------------------------------------------
Goto(from, to) == pc = from /\ pc' = to

\* Nothing but the control point changes.
Decide(from, to) ==
  /\ Goto(from, to)
  /\ UNCHANGED <<settings, shard, iterations, assigned, loops, operations,
                 working, allocated>>

EndLoop(from, to) ==
  /\ shard = Count
  /\ Goto(from, to)
  /\ shard' = 0
  /\ UNCHANGED <<settings, iterations, assigned, loops, operations, working,
                 allocated>>

\* The product of two ints is no larger than WordMax: work_product cannot
\* throw here.
Validate ==
  Decide("validate",
         IF total > 0 /\ threads > 0 /\ intensity > 0
           THEN "iterations" ELSE "rejected")

\* Fault: the product is not compared with the largest int.
AssignIterationsUnchecked ==
  LET effective == Share(total, Count, shard) * intensity IN
  /\ shard < Count
  /\ Goto("iterations", "iterations")
  /\ shard' = shard + 1
  /\ iterations' = [iterations EXCEPT ![shard] = effective]
  /\ assigned' = assigned + effective
  /\ UNCHANGED <<settings, loops, operations, working, allocated>>

AssignIterations ==
  LET effective == Share(total, Count, shard) * intensity IN
  /\ shard < Count
  /\ effective <= IntMax
  /\ Goto("iterations", "iterations")
  /\ shard' = shard + 1
  /\ iterations' = [iterations EXCEPT ![shard] = effective]
  /\ assigned' = assigned + effective
  /\ UNCHANGED <<settings, loops, operations, working, allocated>>

IterationsRejected ==
  /\ shard < Count
  /\ Share(total, Count, shard) * intensity > IntMax
  /\ Decide("iterations", "rejected")

\* Fault: the loops are rounded down.
AssignLoopsRoundedDown ==
  LET n == iterations[shard] \div Lanes IN
  /\ shard < Count
  /\ Goto("arithmetic", "arithmetic")
  /\ shard' = shard + 1
  /\ loops' = [loops EXCEPT ![shard] = n]
  /\ operations' = (operations + n * Lanes) % (WordMax + 1)
  /\ UNCHANGED <<settings, iterations, assigned, working, allocated>>

\* The sum is not checked for overflow.
AssignLoops ==
  LET n == 1 + (iterations[shard] - 1) \div Lanes IN
  /\ shard < Count
  /\ Goto("arithmetic", "arithmetic")
  /\ shard' = shard + 1
  /\ loops' = [loops EXCEPT ![shard] = n]
  /\ operations' = (operations + n * Lanes) % (WordMax + 1)
  /\ UNCHANGED <<settings, iterations, assigned, working, allocated>>

\* The sizes of the matrices and of the sorted input, computed as doubles from
\* other settings, fit an int or not.
Sizes == \E to \in {"limits", "rejected"} : Decide("sizes", to)

\* What the memory bandwidth benchmark checks before it allocates.
Limits ==
  Decide("limits",
         IF limit > 0 /\ Requested <= WordMax /\ MaxElements >= Count
           THEN "bandwidth" ELSE "rejected")

\* Fault: every shard rounds its part of the limit up.
AssignWorkingSetRoundsUp ==
  LET set == Lesser(iterations[shard] * PerIteration, MaxElements \div Count + 1)
  IN
  /\ shard < Count
  /\ Goto("bandwidth", "bandwidth")
  /\ shard' = shard + 1
  /\ working' = [working EXCEPT ![shard] = set]
  /\ allocated' = allocated + set
  /\ UNCHANGED <<settings, iterations, assigned, loops, operations>>

AssignWorkingSet ==
  LET set == Lesser(iterations[shard] * PerIteration,
                    Share(MaxElements, Count, shard))
  IN
  /\ shard < Count
  /\ Goto("bandwidth", "bandwidth")
  /\ shard' = shard + 1
  /\ working' = [working EXCEPT ![shard] = set]
  /\ allocated' = allocated + set
  /\ UNCHANGED <<settings, iterations, assigned, loops, operations>>

Finished == pc \in {"ready", "rejected"} /\ UNCHANGED vars

Next ==
  \/ Validate
  \/ AssignIterations \/ IterationsRejected \/ EndLoop("iterations", "arithmetic")
  \/ AssignLoops \/ EndLoop("arithmetic", "sizes")
  \/ Sizes
  \/ Limits
  \/ AssignWorkingSet \/ EndLoop("bandwidth", "ready")
  \/ Finished

Spec == Init /\ [][Next]_vars

-----------------------------------------------------------------------------
(* Properties.                                                             *)

\* No iteration is lost or done twice: the shards add up to the total_effective
\* that the scores report as work done.
AllIterationsAssigned == pc \in Planned => assigned = Effective

\* Every shard has work, and no shard has more than one iteration, before the
\* intensity multiplies it, over another.
FairShares ==
  pc \in Planned =>
    \A s, t \in Shards :
      iterations[s] >= 1 /\ iterations[s] - iterations[t] <= intensity

\* The operations an arithmetic kernel reports are those its lanes do: all the
\* iterations, rounded up to whole loops in each shard. The unchecked sum has
\* not wrapped.
LanesCoverIterations ==
  pc \in Planned \ {"arithmetic"} =>
    /\ operations >= Effective
    /\ operations < Effective + Lanes * Count

\* "capped at 256 MiB across all shards": the arrays together stay within the
\* limit, no shard's is empty, which the workload would reject, and none is
\* larger than the elements it processes.
WithinLimit ==
  /\ allocated * PerElement <= limit * MiB
  /\ pc = "ready" =>
       \A s \in Shards : working[s] \in 1 .. iterations[s] * PerIteration

\* "Iterations per thread": what the help text of --iterations says each
\* thread's shard gets.
IterationsPerThread ==
  pc = "ready" => \A s \in Shards : iterations[s] >= Effective

=============================================================================

----------------------------- MODULE Workloads -----------------------------
(***************************************************************************)
(* The workloads of benchmark.cpp, on the plan that Sharding makes: one    *)
(* call of one benchmark, its shards one after the other (they share       *)
(* nothing), and the count of work that run_specific_benchmarks reports    *)
(* for it.  A workload is the loop it is; what its arithmetic computes is  *)
(* left out.  Every rate the program prints divides the reported work by   *)
(* the measured time, so the two must agree.                               *)
(***************************************************************************)
EXTENDS Sharding, FiniteSets

CONSTANTS
  Orders,      \* for each size, the orders std::shuffle may make of it
  StrideAsked, \* stride of cache_latency, 16
  Laps,        \* its walks through the array, 16
  Steps,       \* steps of n_body, 10
  MatrixSize,  \* matrix_size
  Block,       \* block of matrix_multiply_benchmark, 32
  SweepNodes,  \* nodes of a point of the cache size sweep
  SweepHops    \* cache_sweep_hops

ASSUME WorkloadsAssumption ==
  /\ \A n \in 1 .. IntMax \cup {SweepNodes} : \A order \in Orders[n] :
       /\ order \in [0 .. n - 1 -> 0 .. n - 1]
       /\ \A x \in 0 .. n - 1 : \E i \in 0 .. n - 1 : order[i] = x
       /\ \A i, j \in 0 .. n - 1 : order[i] = order[j] => i = j
  /\ {StrideAsked, Laps, Steps, MatrixSize, Block} \subseteq Nat \ {0}
  /\ SweepNodes \in Nat \ {0, 1}
  /\ SweepHops \in Nat \ {0}

\* "kernel" stands for the seven arithmetic kernels, "elements" for
\* floating_point and the three branch benchmarks.
Chains == {"pointer_chase", "cache_latency", "cache_size_sweep"}
Kinds  == Chains \cup {"elements", "integer", "kernel", "matrix_multiply",
                       "n_body", "memory_bandwidth"}

VARIABLES
  phase,   \* "plan" until the benchmark is chosen, then where its call is
  kind,    \* the benchmark
  active,  \* shards of its call
  part,    \* the shard that runs
  step,    \* its loop variable, or elements processed
  index,   \* node the walk is at
  next,    \* the chain it walks along
  visits,  \* history: hops to each node
  work     \* history: work done in this call

callVars == <<phase, kind, active, part, step, index, next, visits, work>>
allVars  == <<vars, callVars>>

-----------------------------------------------------------------------------
(* Sizes and chains.                                                       *)

Root(n) == CHOOSE r \in 0 .. n : r * r <= n /\ n < (r + 1) * (r + 1)

Bodies(s) == Root(iterations[s])

Coprime(a, b) == \A d \in 2 .. b : ~(a % d = 0 /\ b % d = 0)

\* Fault: the stride is taken as it is asked for.
StrideAsAsked(size) == IF StrideAsked % size = 0 THEN 1 ELSE StrideAsked % size

\* The first number from the one asked for that shares no divisor with size.
Stride(size) ==
  LET first == StrideAsAsked(size) IN
  CHOOSE e \in first .. first + size :
    Coprime(e, size) /\ \A f \in first .. e - 1 : ~Coprime(f, size)

\* Fault: the last nodes point past the end.
StridedChainPastEnd(size) ==
  LET stride == Stride(size) IN [i \in 0 .. size - 1 |-> i + stride]

StridedChain(size) ==
  LET stride == Stride(size) IN [i \in 0 .. size - 1 |-> (i + stride) % size]

ShuffledChain(order, size) ==
  [x \in 0 .. size - 1 |->
    LET i == CHOOSE j \in 0 .. size - 1 : order[j] = x
    IN  order[(i + 1) % size]]

Size ==
  CASE kind \in {"pointer_chase", "cache_latency"} -> iterations[part]
    [] kind = "cache_size_sweep" -> SweepNodes
    [] OTHER -> 1

Blocks == (MatrixSize + Block - 1) \div Block

\* Rows or columns of block b, the last of which may be cut off.
Extent(b) == Lesser((b + 1) * Block, MatrixSize) - b * Block

\* Fault: the loop of integer_arithmetic begins like the others.
FirstOfAll == 0

\* Where the loop of the shard begins and where it ends.
First == IF kind = "integer" THEN 1 ELSE 0

Trips ==
  CASE kind \in {"elements", "integer"} -> iterations[part]
    [] kind = "kernel"           -> loops[part]
    [] kind = "matrix_multiply"  -> Blocks * Blocks * Blocks
    [] kind = "n_body"           -> Steps * Bodies(part)
    [] kind = "memory_bandwidth" -> iterations[part] * PerIteration
    [] kind = "pointer_chase"    -> Size
    [] kind = "cache_latency"    -> Size * Laps
    [] kind = "cache_size_sweep" -> SweepHops

\* What one trip of a loop that is not a walk does.
Trip ==
  CASE kind \in {"elements", "integer"} -> 1
    [] kind = "kernel" -> Lanes
    [] kind = "matrix_multiply" ->
         Extent(step \div (Blocks * Blocks)) * Extent((step \div Blocks) % Blocks)
           * Extent(step % Blocks)
    [] kind = "n_body" ->
         Cardinality(0 .. Bodies(part) - 1 \ {step % Bodies(part)})
    [] kind = "memory_bandwidth" -> Lesser(Trips - step, working[part])

-----------------------------------------------------------------------------
(* What run_specific_benchmarks reports.                                   *)

\* The loop of n_body that adds up the shards.
Interactions ==
  LET upTo[s \in 0 .. Count] ==
        IF s = 0 THEN 0
        ELSE upTo[s - 1] + Bodies(s - 1) * (Bodies(s - 1) - 1) * Steps
  IN  upTo[Count]

Reported ==
  CASE kind \in {"elements", "pointer_chase"} -> Effective
    [] kind = "integer"          -> Effective - Count
    [] kind = "cache_latency"    -> Effective * Laps
    [] kind = "memory_bandwidth" -> Requested
    [] kind = "kernel"           -> operations
    [] kind = "matrix_multiply"  -> Count * MatrixSize * MatrixSize * MatrixSize
    [] kind = "cache_size_sweep" -> active * SweepHops
    [] kind = "n_body"           -> Interactions

-----------------------------------------------------------------------------
NoChain == [i \in {} |-> 0]

WorkloadsTypeOK ==
  /\ phase \in {"plan", "next", "loop", "reported", "refused"}
  /\ kind \in Kinds
  /\ active \in 0 .. Count
  /\ part \in 0 .. active
  /\ step \in Nat
  /\ work \in Nat
  /\ phase = "loop" =>
       /\ part < active
       /\ step \in First .. Trips
       /\ kind \in Chains =>
            /\ index \in 0 .. Size - 1
            /\ next \in [0 .. Size - 1 -> 0 .. Size - 1]
            /\ visits \in [0 .. Size - 1 -> 0 .. Trips]

CallInit ==
  /\ phase = "plan"
  /\ kind = "elements"
  /\ active = 0
  /\ part = 0
  /\ step = 0
  /\ index = 0
  /\ next = NoChain
  /\ visits = NoChain
  /\ work = 0

Plan == phase = "plan" /\ Next /\ UNCHANGED callVars

\* The turn of a benchmark comes; only memory_bandwidth has further limits. A
\* point of the sweep runs on as many shards as workers are active.
Choose(k, workers) ==
  /\ phase = "plan"
  /\ pc = IF k = "memory_bandwidth" THEN "ready" ELSE "limits"
  /\ phase' = "next"
  /\ kind' = k
  /\ active' = IF k = "cache_size_sweep" THEN Lesser(workers, Count) ELSE Count
  /\ UNCHANGED <<vars, part, step, index, next, visits, work>>

\* What the coordinator counts before it runs anything; what it counts in the
\* arguments of add_score may come before or after the run, as the compiler likes.
CountedFirst == {"n_body", "cache_size_sweep"}

ShardWaits ==
  /\ phase = "next"
  /\ part < active
  /\ kind \in CountedFirst => Reported <= WordMax

\* The workload is built, with its chain if it has one, and run is called.
Begin(chain) ==
  /\ phase' = "loop"
  /\ step' = First
  /\ index' = 0
  /\ next' = chain
  /\ visits' = [i \in DOMAIN chain |-> 0]
  /\ UNCHANGED <<vars, kind, active, part, work>>

BeginShuffled ==
  /\ ShardWaits
  /\ kind \in {"pointer_chase", "cache_size_sweep"}
  /\ \E order \in Orders[Size] : Begin(ShuffledChain(order, Size))

BeginStrided == ShardWaits /\ kind = "cache_latency" /\ Begin(StridedChain(Size))

BeginPlain == ShardWaits /\ kind \notin Chains /\ Begin(NoChain)

Hop ==
  /\ phase = "loop"
  /\ kind \in Chains
  /\ step < Trips
  /\ step' = step + 1
  /\ index' = next[index]
  /\ visits' = [visits EXCEPT ![index'] = @ + 1]
  /\ work' = work + 1
  /\ UNCHANGED <<vars, phase, kind, active, part, next>>

\* Each pass of memory_bandwidth advances by what it processes.
Compute ==
  /\ phase = "loop"
  /\ kind \notin Chains
  /\ step < Trips
  /\ step' = step + (IF kind = "memory_bandwidth" THEN Trip ELSE 1)
  /\ work' = work + Trip
  /\ UNCHANGED <<vars, phase, kind, active, part, index, next, visits>>

EndShard ==
  /\ phase = "loop"
  /\ step = Trips
  /\ phase' = "next"
  /\ part' = part + 1
  /\ step' = 0
  /\ index' = 0
  /\ next' = NoChain
  /\ visits' = NoChain
  /\ UNCHANGED <<vars, kind, active, work>>

Report ==
  /\ phase = "next"
  /\ part = active
  /\ Reported <= WordMax
  /\ phase' = "reported"
  /\ UNCHANGED <<vars, kind, active, part, step, index, next, visits, work>>

\* work_product throws when the count does not fit.
CountRefused ==
  /\ phase = "next"
  /\ part \in {0, active}
  /\ Reported > WordMax
  /\ phase' = "refused"
  /\ UNCHANGED <<vars, kind, active, part, step, index, next, visits, work>>

Ended == phase \in {"reported", "refused"} /\ UNCHANGED allVars

Call ==
  \/ \E k \in Kinds, workers \in {1, threads} : Choose(k, workers)
  \/ BeginShuffled \/ BeginStrided \/ BeginPlain
  \/ Hop \/ Compute \/ EndShard \/ Report \/ CountRefused \/ Ended

WorkloadsInit == Init /\ CallInit

WorkloadsSpec == WorkloadsInit /\ [][Plan \/ Call]_allVars

-----------------------------------------------------------------------------
(* Properties.                                                             *)

\* The work a benchmark reports, and its rate is computed from, is what its
\* shards have done, remainders, skipped elements and cut-off passes included.
WorkDoneIsReported == phase = "reported" => work = Reported

\* Whatever order the shuffle makes and whatever size the stride meets, a walk
\* comes to no node again before it has been to all the others: the chain is
\* one cycle, and the whole working set is used.
VisitsEverything ==
  phase = "loop" /\ kind \in Chains =>
    \A i, j \in 0 .. Size - 1 : visits[i] <= visits[j] + 1

=============================================================================

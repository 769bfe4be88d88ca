---------------------------- MODULE MCWorkloads ----------------------------
(***************************************************************************)
(* Orders of the nodes for the model checker.                              *)
(***************************************************************************)
EXTENDS Workloads

\* Bound: every order is tried up to this size.
ShuffledUpTo == 4

Permutations(n) ==
  {order \in [0 .. n - 1 -> 0 .. n - 1] :
     \A i, j \in 0 .. n - 1 : order[i] = order[j] => i = j}

\* Of larger sizes, the order itself, its reverse, and evens before odds.
Samples(n) ==
  {[i \in 0 .. n - 1 |-> i],
   [i \in 0 .. n - 1 |-> n - 1 - i],
   [i \in 0 .. n - 1 |->
      IF 2 * i < n THEN 2 * i ELSE 2 * (i - (n + 1) \div 2) + 1]}

SomeOrders ==
  [n \in 1 .. IntMax |-> IF n <= ShuffledUpTo THEN Permutations(n) ELSE Samples(n)]

=============================================================================

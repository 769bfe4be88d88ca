--------------------------- MODULE ShardingProofs ---------------------------
(***************************************************************************)
(* The plan is right for every setting and every width of the integers.    *)
(* The loops distribute a number by quotient and remainder; the invariant  *)
(* gives the sum of the shares up to any shard in closed form.             *)
(***************************************************************************)
EXTENDS Sharding, DivisionLemmas

\* What the first k of `count` shards get of n together.
Prefix(n, count, k) == k * (n \div count) + Lesser(k, n % count)

-----------------------------------------------------------------------------
\* Products grow with their factors.
LEMMA ProductBound ==
  ASSUME NEW a \in Nat, NEW b \in Nat, NEW c \in Nat, NEW d \in Nat,
         a <= c, b <= d
  PROVE  a * b <= c * d
<1>1. c * d - a * b = (c - a) * d + a * (d - b)
  OBVIOUS
<1>2. (c - a) * d >= 0 /\ a * (d - b) >= 0
  <2>1. \A x, y \in Nat : x * y >= 0
    OBVIOUS
  <2>2. c - a \in Nat /\ d - b \in Nat
    OBVIOUS
  <2> QED
    BY <2>1, <2>2
<1>3. a * b \in Int /\ c * d \in Int /\ (c - a) * d \in Int /\ a * (d - b) \in Int
  OBVIOUS
<1> QED
  BY <1>1, <1>2, <1>3

\* The shares are natural numbers, and no two of them differ by more than one.
LEMMA ShareBounds ==
  ASSUME NEW n \in Nat, NEW count \in Nat \ {0},
         NEW s \in 0 .. count - 1, NEW t \in 0 .. count - 1
  PROVE  /\ Share(n, count, s) \in Nat
         /\ n >= count => Share(n, count, s) >= 1
         /\ Share(n, count, s) - Share(n, count, t) <= 1
<1>1. /\ n \div count \in Nat
      /\ n % count \in 0 .. count - 1
      /\ n = count * (n \div count) + (n % count)
  BY QuotientRemainder
<1>2. n >= count => n \div count >= 1
  <2>1. n \div count = 0 => n < count
    BY <1>1
  <2> QED
    BY <1>1, <2>1
<1> QED
  BY <1>1, <1>2 DEF Share

\* A share is what the prefix grows by.
LEMMA PrefixStep ==
  ASSUME NEW n \in Nat, NEW count \in Nat \ {0}, NEW k \in 0 .. count - 1
  PROVE  /\ Prefix(n, count, 0) = 0
         /\ Prefix(n, count, k) \in Nat
         /\ Prefix(n, count, k + 1) = Prefix(n, count, k) + Share(n, count, k)
<1>1. n \div count \in Nat /\ n % count \in 0 .. count - 1
  BY QuotientRemainder
<1>2. /\ (k + 1) * (n \div count) = k * (n \div count) + (n \div count)
      /\ k * (n \div count) \in Nat
      /\ 0 * (n \div count) = 0
  BY <1>1
<1>3. Lesser(0, n % count) = 0
  BY <1>1 DEF Lesser
<1>4. /\ Lesser(k, n % count) \in Nat
      /\ Lesser(k + 1, n % count)
           = Lesser(k, n % count) + (IF k < n % count THEN 1 ELSE 0)
  BY <1>1 DEF Lesser
<1>5. Prefix(n, count, 0) = 0 /\ Prefix(n, count, k) \in Nat
  BY <1>2, <1>3, <1>4 DEF Prefix
<1>6. Prefix(n, count, k + 1) = Prefix(n, count, k) + Share(n, count, k)
  BY <1>1, <1>2, <1>4 DEF Prefix, Share
<1> QED
  BY <1>5, <1>6

\* All shares together are the whole, and no prefix exceeds it.
LEMMA PrefixWhole ==
  ASSUME NEW n \in Nat, NEW count \in Nat \ {0}, NEW k \in 0 .. count
  PROVE  /\ Prefix(n, count, count) = n
         /\ Prefix(n, count, k) \in Nat
         /\ Prefix(n, count, k) <= n
<1>1. /\ n \div count \in Nat
      /\ n % count \in 0 .. count - 1
      /\ n = count * (n \div count) + (n % count)
  BY QuotientRemainder
<1>2. k * (n \div count) <= count * (n \div count)
  BY <1>1, ProductBound
<1>3. k * (n \div count) \in Nat
  BY <1>1
<1> QED
  BY <1>1, <1>2, <1>3 DEF Prefix, Lesser

\* Whole loops over the lanes cover the iterations and exceed them by less
\* than one loop.
LoopsOf(i) == 1 + (i - 1) \div Lanes

LEMMA WholeLoops ==
  ASSUME NEW i \in Nat \ {0}, NEW n, n = 1 + (i - 1) \div Lanes
  PROVE  /\ n \in 1 .. i
         /\ n * Lanes \in i .. i + Lanes - 1
<1>1. /\ (i - 1) \div Lanes \in Nat
      /\ (i - 1) % Lanes \in 0 .. Lanes - 1
      /\ i - 1 = Lanes * ((i - 1) \div Lanes) + ((i - 1) % Lanes)
  BY QuotientRemainder, ShardingAssumption
<1>2. n * Lanes = Lanes * ((i - 1) \div Lanes) + Lanes
  BY <1>1, ShardingAssumption
<1>3. 1 * ((i - 1) \div Lanes) <= Lanes * ((i - 1) \div Lanes)
  BY <1>1, ProductBound, ShardingAssumption
<1> QED
  BY <1>1, <1>2, <1>3, ShardingAssumption

-----------------------------------------------------------------------------
\* Only the first loop runs with settings that are not all positive, and the
\* variables a loop has not reached are as Init left them.
PhaseInv ==
  /\ pc \in {"iterations"} \cup Planned =>
       total >= 1 /\ threads >= 1 /\ intensity >= 1
  /\ pc \in {"validate", "sizes", "limits"} => shard = 0
  /\ pc = "validate" => assigned = 0
  /\ pc \in {"validate", "iterations"} => operations = 0
  /\ pc \notin {"bandwidth", "ready"} => allocated = 0

Filled(k) ==
  \A s \in Shards :
    s < k => iterations[s] = Share(total, Count, s) * intensity

IterationsInv ==
  /\ pc = "iterations" =>
       Filled(shard) /\ assigned = Prefix(total, Count, shard) * intensity
  /\ pc \in Planned => Filled(Count) /\ assigned = Effective

LoopsInv ==
  /\ pc = "arithmetic" =>
       /\ operations >= Prefix(total, Count, shard) * intensity
       /\ operations <= Prefix(total, Count, shard) * intensity
                          + (Lanes - 1) * shard
  /\ pc \in Planned \ {"arithmetic"} =>
       /\ operations >= Effective
       /\ operations <= Effective + (Lanes - 1) * Count

WorkingInv ==
  /\ pc \in {"bandwidth", "ready"} => MaxElements >= Count
  /\ pc = "bandwidth" =>
       /\ allocated <= Prefix(MaxElements, Count, shard)
       /\ \A s \in Shards :
            s < shard => working[s] \in 1 .. iterations[s] * PerIteration
  /\ pc = "ready" =>
       /\ allocated <= MaxElements
       /\ \A s \in Shards : working[s] \in 1 .. iterations[s] * PerIteration

IInv == TypeOK /\ PhaseInv /\ IterationsInv /\ LoopsInv /\ WorkingInv

-----------------------------------------------------------------------------
\* The numbers derived from the settings, once these are validated.
LEMMA Derived ==
  ASSUME TypeOK, total >= 1, threads >= 1, intensity >= 1
  PROVE  /\ Count \in 1 .. IntMax
         /\ Count <= total
         /\ Effective \in Nat \ {0}
         /\ Effective <= IntMax * IntMax
         /\ Effective + Lanes * Count <= WordMax
<1>1. /\ Count \in 1 .. IntMax
      /\ Count <= total
  BY ShardingAssumption DEF TypeOK, Count, Lesser
<1>2. /\ total \in 1 .. IntMax
      /\ intensity \in 1 .. IntMax
  BY DEF TypeOK
<1>3. Effective <= IntMax * IntMax
  BY <1>2, ProductBound, ShardingAssumption DEF Effective
<1>4. 1 * 1 <= Effective /\ Effective \in Nat
  <2>1. total \in Nat /\ intensity \in Nat /\ IntMax \in Nat /\ 1 <= total /\ 1 <= intensity
    BY <1>2, ShardingAssumption
  <2> QED
    BY <2>1, ProductBound DEF Effective
<1>5. Lanes * Count <= Lanes * IntMax
  BY <1>1, ProductBound, ShardingAssumption
<1>6. IntMax * (IntMax + Lanes) = IntMax * IntMax + Lanes * IntMax
  BY ShardingAssumption
<1>7. IntMax * IntMax \in Nat /\ Lanes * IntMax \in Nat /\ Lanes * Count \in Nat
  BY <1>1, ShardingAssumption
<1> QED
  BY <1>1, <1>3, <1>4, <1>5, <1>6, <1>7, ShardingAssumption

\* The limit in elements, and back in bytes.
LEMMA Limit ==
  ASSUME TypeOK
  PROVE  /\ MaxElements \in Nat
         /\ MaxElements * PerElement <= limit * MiB
         /\ MaxElements <= WordMax
<1>1. limit \in Nat /\ limit <= IntMax
  BY ShardingAssumption DEF TypeOK
<1>2. limit * MiB \in Nat /\ limit * MiB <= IntMax * MiB
  BY <1>1, ProductBound, ShardingAssumption
<1>3. /\ MaxElements \in Nat
      /\ (limit * MiB) % PerElement \in 0 .. PerElement - 1
      /\ limit * MiB = PerElement * MaxElements + ((limit * MiB) % PerElement)
  BY <1>2, QuotientRemainder, ShardingAssumption DEF MaxElements
<1>4. /\ PerElement * MaxElements <= limit * MiB
      /\ PerElement * MaxElements = MaxElements * PerElement
  BY <1>2, <1>3, ShardingAssumption
<1>5. 1 * MaxElements <= PerElement * MaxElements
  BY <1>3, ProductBound, ShardingAssumption
<1>6. IntMax * MiB \in Nat /\ PerElement * MaxElements \in Nat
  BY <1>3, ShardingAssumption
<1> QED
  BY <1>2, <1>3, <1>4, <1>5, <1>6, ShardingAssumption

\* The invariant holds before the settings are looked at.
LEMMA InitInv == Init => IInv
<1> SUFFICES ASSUME Init PROVE IInv
  OBVIOUS
<1>1. Count \in Nat
  BY ShardingAssumption DEF Init, Count, Lesser
<1>2. TypeOK
  BY <1>1, ShardingAssumption DEF Init, TypeOK, Planned
<1> QED
  BY <1>2 DEF Init, IInv, PhaseInv, IterationsInv, LoopsInv, WorkingInv, Planned

-----------------------------------------------------------------------------
\* A turn of the first loop: the shard's share is stored and summed.
LEMMA AssignIterationsInv == IInv /\ AssignIterations => IInv'
<1> SUFFICES ASSUME IInv, AssignIterations PROVE IInv'
  OBVIOUS
<1> DEFINE effective == Share(total, Count, shard) * intensity
<1>1. /\ pc = "iterations" /\ pc' = "iterations"
      /\ shard < Count /\ shard' = shard + 1
      /\ effective <= IntMax
      /\ iterations' = [iterations EXCEPT ![shard] = effective]
      /\ assigned' = assigned + effective
      /\ UNCHANGED <<total, threads, intensity, limit, loops, operations,
                     working, allocated>>
  BY DEF AssignIterations, Goto, settings
<1>2. TypeOK /\ total >= 1 /\ threads >= 1 /\ intensity >= 1
  BY <1>1 DEF IInv, PhaseInv
<1>3. Count \in 1 .. IntMax /\ Effective \in Nat /\ Effective <= WordMax
  BY <1>2, Derived, ShardingAssumption
<1>4. total \in Nat /\ intensity \in Nat /\ shard \in 0 .. Count - 1
  BY <1>1, <1>2, <1>3, ShardingAssumption DEF TypeOK
<1>5. Count' = Count /\ Shards' = Shards
  BY <1>1 DEF Count, Shards
<1>6. Share(total, Count, shard) \in Nat
  BY <1>3, <1>4, ShareBounds
<1>7. /\ Prefix(total, Count, shard) \in Nat
      /\ Prefix(total, Count, shard + 1)
           = Prefix(total, Count, shard) + Share(total, Count, shard)
  BY <1>3, <1>4, PrefixStep
<1>8. Prefix(total, Count, shard + 1) <= total
  BY <1>3, <1>4, PrefixWhole
<1>9. /\ effective \in 0 .. IntMax
      /\ assigned' = Prefix(total, Count, shard + 1) * intensity
  <2>1. effective \in Nat
    BY <1>4, <1>6
  <2>2. assigned = Prefix(total, Count, shard) * intensity
    BY <1>1 DEF IInv, IterationsInv
  <2>3. (Prefix(total, Count, shard) + Share(total, Count, shard)) * intensity
          = Prefix(total, Count, shard) * intensity + effective
    BY <1>4, <1>6, <1>7
  <2> QED
    BY <1>1, <1>7, <2>1, <2>2, <2>3, ShardingAssumption
<1>10. assigned' \in 0 .. WordMax
  <2>1. Prefix(total, Count, shard + 1) \in Nat
    BY <1>6, <1>7
  <2>2. Prefix(total, Count, shard + 1) * intensity <= Effective
    BY <1>4, <1>8, <2>1, ProductBound DEF Effective
  <2>3. Prefix(total, Count, shard + 1) * intensity \in Nat
    BY <1>4, <2>1
  <2> QED
    BY <1>3, <1>9, <2>2, <2>3, ShardingAssumption
<1>11. TypeOK'
  <2>1. iterations' \in [Shards -> 0 .. IntMax]
    <3> HIDE DEF effective
    <3> QED
      BY <1>1, <1>2, <1>9 DEF TypeOK
  <2>2. shard' \in 0 .. Count
    BY <1>1, <1>3, <1>4
  <2> QED
    BY <1>1, <1>2, <1>5, <1>10, <2>1, <2>2 DEF TypeOK
<1>12. \A s \in Shards :
         s < shard + 1 => iterations'[s] = Share(total, Count, s) * intensity
  <2> SUFFICES ASSUME NEW s \in Shards, s < shard + 1
               PROVE  iterations'[s] = Share(total, Count, s) * intensity
    OBVIOUS
  <2>1. iterations \in [Shards -> 0 .. IntMax]
    BY <1>2 DEF TypeOK
  <2>2. CASE s = shard
    BY <1>1, <2>1, <2>2
  <2>3. CASE s # shard
    <3>1. s < shard
      BY <1>3, <1>4, <2>3 DEF Shards
    <3> QED
      BY <1>1, <2>1, <2>3, <3>1 DEF IInv, IterationsInv, Filled
  <2> QED
    BY <2>2, <2>3
<1>13. IterationsInv'
  BY <1>1, <1>5, <1>9, <1>12 DEF IterationsInv, Filled, Planned
<1>14. PhaseInv' /\ LoopsInv' /\ WorkingInv'
  BY <1>1 DEF IInv, PhaseInv, LoopsInv, WorkingInv, Planned
<1> QED
  BY <1>11, <1>13, <1>14 DEF IInv

\* A turn of the second loop: the sum stays between the bounds, so it does not
\* wrap.
LEMMA AssignLoopsInv ==
  IInv /\ AssignLoops =>
    IInv' /\ operations' = operations + LoopsOf(iterations[shard]) * Lanes
<1> SUFFICES ASSUME IInv, AssignLoops
             PROVE  IInv' /\ operations' = operations + LoopsOf(iterations[shard]) * Lanes
  OBVIOUS
<1> DEFINE n == 1 + (iterations[shard] - 1) \div Lanes
           share == Share(total, Count, shard)
           before == Prefix(total, Count, shard)
<1>1. /\ pc = "arithmetic" /\ pc' = "arithmetic"
      /\ shard < Count /\ shard' = shard + 1
      /\ loops' = [loops EXCEPT ![shard] = n]
      /\ operations' = (operations + n * Lanes) % (WordMax + 1)
      /\ UNCHANGED <<total, threads, intensity, limit, iterations, assigned,
                     working, allocated>>
  BY DEF AssignLoops, Goto, settings
<1>2. TypeOK /\ total >= 1 /\ threads >= 1 /\ intensity >= 1
  BY <1>1 DEF IInv, PhaseInv, Planned
<1>3. /\ Count \in 1 .. IntMax /\ Count <= total
      /\ Effective \in Nat
      /\ Effective + Lanes * Count <= WordMax
  BY <1>2, Derived
<1>4. total \in Nat /\ intensity \in Nat \ {0} /\ shard \in 0 .. Count - 1
  BY <1>1, <1>2, <1>3, ShardingAssumption DEF TypeOK
<1>5. Count' = Count /\ Shards' = Shards /\ Effective' = Effective
  BY <1>1 DEF Count, Shards, Effective
<1>6. share \in Nat \ {0}
  BY <1>3, <1>4, ShareBounds
<1>7. /\ before \in Nat
      /\ Prefix(total, Count, shard + 1) = before + share
      /\ before + share <= total
  BY <1>3, <1>4, PrefixStep, PrefixWhole
<1>8. iterations[shard] = share * intensity /\ iterations[shard] \in 1 .. IntMax
  <2>1. shard \in Shards
    BY <1>3, <1>4 DEF Shards
  <2>2. iterations[shard] = share * intensity
    BY <1>1, <1>4, <2>1 DEF IInv, IterationsInv, Filled, Planned
  <2>3. 1 * 1 <= share * intensity
    BY <1>4, <1>6, ProductBound
  <2>4. iterations[shard] \in 0 .. IntMax
    BY <1>2, <2>1 DEF TypeOK
  <2> QED
    BY <2>2, <2>3, <2>4, ShardingAssumption
<1>9. /\ n \in 1 .. IntMax
      /\ n * Lanes >= share * intensity
      /\ n * Lanes <= share * intensity + Lanes - 1
      /\ n * Lanes \in Nat
  <2>1. iterations[shard] \in Nat \ {0}
    BY <1>8, ShardingAssumption
  <2>2. /\ n \in 1 .. iterations[shard]
        /\ n * Lanes \in iterations[shard] .. iterations[shard] + Lanes - 1
    BY <2>1, WholeLoops
  <2> QED
    BY <1>8, <2>1, <2>2, ShardingAssumption
<1>10. /\ operations \in Nat
       /\ operations >= before * intensity
       /\ operations <= before * intensity + (Lanes - 1) * shard
  BY <1>1, <1>2 DEF IInv, TypeOK, LoopsInv
<1>11. (before + share) * intensity = before * intensity + share * intensity
  BY <1>4, <1>6, <1>7
<1>12. (Lanes - 1) * (shard + 1) = (Lanes - 1) * shard + Lanes - 1
  BY <1>4, <1>3, ShardingAssumption
<1>13. /\ operations + n * Lanes >= (before + share) * intensity
       /\ operations + n * Lanes
            <= (before + share) * intensity + (Lanes - 1) * (shard + 1)
  <2>1. /\ before * intensity \in Nat
        /\ share * intensity \in Nat
        /\ (Lanes - 1) * shard \in Nat
    BY <1>3, <1>4, <1>6, <1>7, ShardingAssumption
  <2> QED
    BY <1>9, <1>10, <1>11, <1>12, <2>1, ShardingAssumption
<1>14. operations + n * Lanes <= WordMax
  <2>1. (before + share) * intensity <= Effective
    BY <1>4, <1>6, <1>7, ProductBound DEF Effective
  <2>2. (Lanes - 1) * (shard + 1) <= Lanes * Count
    BY <1>3, <1>4, ProductBound, ShardingAssumption
  <2>3. /\ (before + share) * intensity \in Nat
        /\ (Lanes - 1) * (shard + 1) \in Nat
        /\ Lanes * Count \in Nat
    BY <1>3, <1>4, <1>6, <1>7, ShardingAssumption
  <2> QED
    BY <1>3, <1>9, <1>10, <1>13, <2>1, <2>2, <2>3, ShardingAssumption
<1>15. operations' = operations + n * Lanes
  <2>1. /\ operations + n * Lanes \in 0 .. (WordMax + 1) - 1
        /\ WordMax + 1 \in Nat \ {0}
    BY <1>9, <1>10, <1>14, ShardingAssumption
  <2> QED
    BY <1>1, <2>1, RemainderOfSmall
<1>16. TypeOK'
  <2>1. operations' \in 0 .. WordMax
    BY <1>9, <1>10, <1>14, <1>15, ShardingAssumption
  <2>2. loops' \in [Shards -> 0 .. IntMax]
    <3>1. n \in 0 .. IntMax
      BY <1>9, ShardingAssumption
    <3> HIDE DEF n
    <3> QED
      BY <1>1, <1>2, <3>1 DEF TypeOK
  <2>3. shard' \in 0 .. Count
    BY <1>1, <1>3, <1>4
  <2> QED
    BY <1>1, <1>2, <1>5, <2>1, <2>2, <2>3 DEF TypeOK
<1>17. LoopsInv'
  BY <1>1, <1>5, <1>7, <1>13, <1>15 DEF LoopsInv
<1>18. PhaseInv' /\ WorkingInv'
  BY <1>1 DEF IInv, PhaseInv, WorkingInv, Planned
<1>19. IterationsInv'
  BY <1>1, <1>5 DEF IInv, IterationsInv, Filled, Planned
<1> QED
  BY <1>15, <1>16, <1>17, <1>18, <1>19 DEF IInv, LoopsOf

\* A turn of the third loop: the part of the limit is no larger than the share,
\* and it is not empty.
LEMMA AssignWorkingSetInv == IInv /\ AssignWorkingSet => IInv'
<1> SUFFICES ASSUME IInv, AssignWorkingSet PROVE IInv'
  OBVIOUS
<1> DEFINE share == Share(MaxElements, Count, shard)
           wanted == iterations[shard] * PerIteration
           set == Lesser(wanted, share)
<1>1. /\ pc = "bandwidth" /\ pc' = "bandwidth"
      /\ shard < Count /\ shard' = shard + 1
      /\ working' = [working EXCEPT ![shard] = set]
      /\ allocated' = allocated + set
      /\ UNCHANGED <<total, threads, intensity, limit, iterations, assigned,
                     loops, operations>>
  BY DEF AssignWorkingSet, Goto, settings
<1>2. TypeOK /\ total >= 1 /\ threads >= 1 /\ intensity >= 1
  BY <1>1 DEF IInv, PhaseInv, Planned
<1>3. Count \in 1 .. IntMax /\ Count <= total
  BY <1>2, Derived
<1>4. /\ total \in Nat /\ intensity \in Nat \ {0}
      /\ shard \in 0 .. Count - 1 /\ shard \in Shards
  BY <1>1, <1>2, <1>3, ShardingAssumption DEF TypeOK, Shards
<1>5. Count' = Count /\ Shards' = Shards /\ MaxElements' = MaxElements
  BY <1>1 DEF Count, Shards, MaxElements
<1>6. /\ MaxElements \in Nat /\ MaxElements <= WordMax /\ MaxElements >= Count
  BY <1>1, <1>2, Limit DEF IInv, WorkingInv
<1>7. share \in Nat \ {0}
  BY <1>3, <1>4, <1>6, ShareBounds
<1>8. wanted \in Nat \ {0}
  <2>1. iterations[shard] = Share(total, Count, shard) * intensity
    BY <1>1, <1>4 DEF IInv, IterationsInv, Filled, Planned
  <2>2. Share(total, Count, shard) \in Nat \ {0}
    BY <1>3, <1>4, ShareBounds
  <2>3. 1 * 1 <= Share(total, Count, shard) * intensity
    BY <1>4, <2>2, ProductBound
  <2>4. iterations[shard] \in Nat \ {0}
    BY <1>2, <1>4, <2>1, <2>3, ShardingAssumption DEF TypeOK
  <2>5. 1 * 1 <= iterations[shard] * PerIteration
    BY <2>4, ProductBound, ShardingAssumption
  <2> QED
    BY <2>4, <2>5, ShardingAssumption
<1>9. set \in 1 .. wanted /\ set <= share /\ set \in Nat
  BY <1>7, <1>8 DEF Lesser
<1>10. /\ Prefix(MaxElements, Count, shard + 1)
             = Prefix(MaxElements, Count, shard) + share
       /\ Prefix(MaxElements, Count, shard) \in Nat
       /\ Prefix(MaxElements, Count, shard + 1) <= MaxElements
  BY <1>3, <1>4, <1>6, PrefixStep, PrefixWhole
<1>11. allocated \in Nat /\ allocated <= Prefix(MaxElements, Count, shard)
  BY <1>1, <1>2 DEF IInv, TypeOK, WorkingInv
<1>12. allocated' <= Prefix(MaxElements, Count, shard + 1)
  BY <1>1, <1>7, <1>9, <1>10, <1>11
<1>13. allocated' \in 0 .. WordMax
  BY <1>1, <1>6, <1>7, <1>9, <1>10, <1>11, <1>12, ShardingAssumption
<1>14. TypeOK'
  <2>1. working' \in [Shards -> Nat]
    BY <1>1, <1>2, <1>9 DEF TypeOK
  <2>2. shard' \in 0 .. Count
    BY <1>1, <1>3, <1>4
  <2> QED
    BY <1>1, <1>2, <1>5, <1>13, <2>1, <2>2 DEF TypeOK
<1>15. \A s \in Shards :
         s < shard + 1 => working'[s] \in 1 .. iterations[s] * PerIteration
  <2> SUFFICES ASSUME NEW s \in Shards, s < shard + 1
               PROVE  working'[s] \in 1 .. iterations[s] * PerIteration
    OBVIOUS
  <2>1. working \in [Shards -> Nat]
    BY <1>2 DEF TypeOK
  <2>2. CASE s = shard
    BY <1>1, <1>9, <2>1, <2>2
  <2>3. CASE s # shard
    <3>1. s < shard
      BY <1>3, <1>4, <2>3 DEF Shards
    <3> QED
      BY <1>1, <2>1, <2>3, <3>1 DEF IInv, WorkingInv
  <2> QED
    BY <2>2, <2>3
<1>16. WorkingInv'
  BY <1>1, <1>5, <1>6, <1>12, <1>15 DEF WorkingInv
<1>17. PhaseInv'
  BY <1>1 DEF IInv, PhaseInv, Planned
<1>18. IterationsInv' /\ LoopsInv'
  BY <1>1, <1>5
     DEF IInv, IterationsInv, LoopsInv, Filled, Planned, Effective
<1> QED
  BY <1>14, <1>16, <1>17, <1>18 DEF IInv

-----------------------------------------------------------------------------
\* Ends of loops, checks and rejections move the control point only.
LEMMA ControlInv ==
  ASSUME IInv,
         \/ Validate \/ IterationsRejected \/ Sizes \/ Limits
         \/ EndLoop("iterations", "arithmetic")
         \/ EndLoop("arithmetic", "sizes")
         \/ EndLoop("bandwidth", "ready")
  PROVE  IInv'
<1>1. /\ UNCHANGED <<total, threads, intensity, limit, iterations, assigned,
                     loops, operations, working, allocated>>
      /\ shard' \in {shard, 0}
      /\ pc' \in {"rejected", "iterations"} \cup Planned
  BY DEF Validate, IterationsRejected, Sizes, Limits, EndLoop, Decide, Goto,
         settings, Planned
<1>2. /\ Count' = Count /\ Shards' = Shards /\ MaxElements' = MaxElements
      /\ Effective' = Effective
  BY <1>1 DEF Count, Shards, MaxElements, Effective
<1>3. TypeOK'
  <2>1. shard' \in 0 .. Count
    <3>1. Count \in Nat
      BY ShardingAssumption DEF IInv, TypeOK, Count, Lesser
    <3> QED
      BY <1>1, <3>1 DEF IInv, TypeOK
  <2> QED
    BY <1>1, <1>2, <2>1 DEF IInv, TypeOK
<1>4. CASE Validate
  <2>1. /\ pc = "validate" /\ shard' = shard
        /\ pc' \in {"iterations", "rejected"}
        /\ pc' = "iterations" => total > 0 /\ threads > 0 /\ intensity > 0
    BY <1>4 DEF Validate, Decide, Goto
  <2>2. {total, threads, intensity} \subseteq Nat
    BY ShardingAssumption DEF IInv, TypeOK
  <2>3. PhaseInv'
    BY <1>1, <2>1, <2>2 DEF IInv, PhaseInv, Planned
  <2>4. IterationsInv'
    <3>1. CASE pc' = "rejected"
      BY <3>1 DEF IterationsInv, Planned
    <3>2. CASE pc' = "iterations"
      <4>1. Count \in Nat \ {0} /\ total \in Nat /\ intensity \in Nat
        BY <2>1, <2>2, <3>2 DEF Count, Lesser
      <4>2. shard = 0 /\ assigned = 0
        BY <2>1 DEF IInv, PhaseInv
      <4>3. Prefix(total, Count, 0) = 0
        BY <4>1, PrefixStep
      <4>4. assigned' = Prefix(total, Count, shard) * intensity
        BY <1>1, <4>1, <4>2, <4>3
      <4>5. \A s \in Shards : ~(s < 0)
        BY <4>1 DEF Shards
      <4> QED
        BY <1>1, <1>2, <2>1, <3>2, <4>2, <4>4, <4>5
           DEF IterationsInv, Filled, Planned
    <3> QED
      BY <2>1, <3>1, <3>2
  <2>5. LoopsInv' /\ WorkingInv'
    BY <2>1 DEF LoopsInv, WorkingInv, Planned
  <2> QED
    BY <1>3, <2>3, <2>4, <2>5 DEF IInv
<1>5. CASE IterationsRejected
  <2>1. pc' = "rejected"
    BY <1>5 DEF IterationsRejected, Decide, Goto
  <2>2. PhaseInv' /\ IterationsInv' /\ LoopsInv' /\ WorkingInv'
    BY <1>1, <1>5, <2>1
       DEF IterationsRejected, Decide, Goto, IInv, PhaseInv, IterationsInv,
           LoopsInv, WorkingInv, Planned
  <2> QED
    BY <1>3, <2>2 DEF IInv
<1>6. CASE Sizes \/ Limits
  <2>1. /\ pc \in {"sizes", "limits"} /\ shard' = shard
        /\ pc' \in {"limits", "bandwidth", "rejected"}
        /\ pc' = "bandwidth" => MaxElements >= Count
    BY <1>6 DEF Sizes, Limits, Decide, Goto
  <2>2. PhaseInv'
    BY <1>1, <1>6, <2>1 DEF Sizes, Limits, Decide, Goto, IInv, PhaseInv, Planned
  <2>3. IterationsInv' /\ LoopsInv'
    BY <1>1, <1>2, <2>1
       DEF IInv, IterationsInv, LoopsInv, Filled, Planned
  <2>4. WorkingInv'
    <3>1. CASE pc' # "bandwidth"
      BY <2>1, <3>1 DEF WorkingInv
    <3>2. CASE pc' = "bandwidth"
      <4>1. total >= 1 /\ threads >= 1 /\ intensity >= 1 /\ shard = 0 /\ allocated = 0
        BY <2>1 DEF IInv, PhaseInv, Planned
      <4>2. Count \in 1 .. IntMax /\ MaxElements \in Nat
        BY <4>1, Derived, Limit DEF IInv
      <4>3. Prefix(MaxElements, Count, 0) = 0
        BY <4>2, PrefixStep, ShardingAssumption
      <4>4. \A s \in Shards : ~(s < 0)
        BY <4>2 DEF Shards
      <4> QED
        BY <1>1, <1>2, <2>1, <3>2, <4>1, <4>3, <4>4 DEF WorkingInv
    <3> QED
      BY <3>1, <3>2
  <2> QED
    BY <1>3, <2>2, <2>3, <2>4 DEF IInv
<1>7. CASE EndLoop("iterations", "arithmetic")
  <2>1. pc = "iterations" /\ pc' = "arithmetic" /\ shard = Count /\ shard' = 0
    BY <1>7 DEF EndLoop, Goto
  <2>2. total >= 1 /\ threads >= 1 /\ intensity >= 1 /\ operations = 0
    BY <2>1 DEF IInv, PhaseInv
  <2>3. /\ Count \in Nat \ {0} /\ total \in Nat /\ intensity \in Nat
        /\ 0 \in 0 .. Count - 1 /\ Count \in 0 .. Count
    BY <2>2, Derived, ShardingAssumption DEF IInv, TypeOK
  <2>4. Prefix(total, Count, Count) = total /\ Prefix(total, Count, 0) = 0
    BY <2>3, PrefixWhole, PrefixStep
  <2>5. IterationsInv'
    BY <1>1, <1>2, <2>1, <2>4
       DEF IInv, IterationsInv, Filled, Planned, Effective
  <2>6. LoopsInv'
    BY <1>1, <1>2, <2>1, <2>2, <2>3, <2>4, ShardingAssumption DEF LoopsInv
  <2>7. PhaseInv' /\ WorkingInv'
    BY <1>1, <2>1, <2>2 DEF IInv, PhaseInv, WorkingInv, Planned
  <2> QED
    BY <1>3, <2>5, <2>6, <2>7 DEF IInv
<1>8. CASE EndLoop("arithmetic", "sizes")
  <2>1. pc = "arithmetic" /\ pc' = "sizes" /\ shard = Count /\ shard' = 0
    BY <1>8 DEF EndLoop, Goto
  <2>2. total >= 1 /\ threads >= 1 /\ intensity >= 1
    BY <2>1 DEF IInv, PhaseInv, Planned
  <2>3. Count \in Nat \ {0} /\ total \in Nat /\ Count \in 0 .. Count
    BY <2>2, Derived, ShardingAssumption DEF IInv, TypeOK
  <2>4. Prefix(total, Count, Count) = total
    BY <2>3, PrefixWhole
  <2>5. LoopsInv'
    BY <1>1, <1>2, <2>1, <2>4 DEF IInv, LoopsInv, Effective
  <2>6. IterationsInv'
    BY <1>1, <1>2, <2>1 DEF IInv, IterationsInv, Filled, Planned
  <2>7. PhaseInv' /\ WorkingInv'
    BY <1>1, <2>1, <2>2 DEF IInv, PhaseInv, WorkingInv, Planned
  <2> QED
    BY <1>3, <2>5, <2>6, <2>7 DEF IInv
<1>9. CASE EndLoop("bandwidth", "ready")
  <2>1. pc = "bandwidth" /\ pc' = "ready" /\ shard = Count /\ shard' = 0
    BY <1>9 DEF EndLoop, Goto
  <2>2. total >= 1 /\ threads >= 1 /\ intensity >= 1
    BY <2>1 DEF IInv, PhaseInv, Planned
  <2>3. /\ Count \in Nat \ {0} /\ MaxElements \in Nat /\ Count \in 0 .. Count
    BY <2>2, Derived, Limit, ShardingAssumption DEF IInv, TypeOK
  <2>4. Prefix(MaxElements, Count, Count) = MaxElements
    BY <2>3, PrefixWhole
  <2>5. \A s \in Shards : s < Count
    BY <2>3 DEF Shards
  <2>6. WorkingInv'
    BY <1>1, <1>2, <2>1, <2>4, <2>5 DEF IInv, WorkingInv
  <2>7. IterationsInv' /\ LoopsInv'
    BY <1>1, <1>2, <2>1 DEF IInv, IterationsInv, LoopsInv, Filled, Planned
  <2>8. PhaseInv'
    BY <1>1, <2>1, <2>2 DEF IInv, PhaseInv, Planned
  <2> QED
    BY <1>3, <2>6, <2>7, <2>8 DEF IInv
<1> QED
  BY <1>4, <1>5, <1>6, <1>7, <1>8, <1>9

\* Every step keeps the invariant.
LEMMA StepInv == IInv /\ [Next]_vars => IInv'
<1> SUFFICES ASSUME IInv, [Next]_vars PROVE IInv'
  OBVIOUS
<1>1. CASE UNCHANGED vars
  BY <1>1
     DEF vars, settings, IInv, TypeOK, PhaseInv, IterationsInv, LoopsInv,
         WorkingInv, Filled, Count, Shards, Effective, MaxElements
<1>2. CASE Next
  BY <1>1, <1>2, AssignIterationsInv, AssignLoopsInv, AssignWorkingSetInv,
     ControlInv
     DEF Next, Finished
<1> QED
  BY <1>1, <1>2

\* The inductive invariant holds in every state of every plan.
THEOREM Invariance == Spec => []IInv
<1>1. Init => IInv
  BY InitInv
<1>2. IInv /\ [Next]_vars => IInv'
  BY StepInv
<1> QED
  BY <1>1, <1>2, PTL DEF Spec

\* The int and uint64_t variables of the plan never leave their ranges.
THEOREM TypeCorrect == Spec => []TypeOK
<1>1. IInv => TypeOK
  BY DEF IInv
<1> QED
  BY <1>1, Invariance, PTL

\* The shards' iterations add up to the work the scores report.
THEOREM NothingLost == Spec => []AllIterationsAssigned
<1>1. IInv => AllIterationsAssigned
  BY DEF IInv, IterationsInv, AllIterationsAssigned
<1> QED
  BY <1>1, Invariance, PTL

\* Every shard has work, and the shards are as even as whole iterations allow.
THEOREM Even == Spec => []FairShares
<1>1. IInv => FairShares
  <2> SUFFICES ASSUME IInv, pc \in Planned,
                      NEW s \in Shards, NEW t \in Shards
               PROVE  /\ iterations[s] >= 1
                      /\ iterations[s] - iterations[t] <= intensity
    BY DEF FairShares
  <2> DEFINE a == Share(total, Count, s)
             b == Share(total, Count, t)
  <2>1. /\ Count \in Nat \ {0} /\ Count <= total
        /\ total \in Nat /\ intensity \in Nat \ {0}
    <3>1. TypeOK /\ total >= 1 /\ threads >= 1 /\ intensity >= 1
      BY DEF IInv, PhaseInv
    <3> QED
      BY <3>1, Derived, ShardingAssumption DEF TypeOK
  <2>2. s \in 0 .. Count - 1 /\ t \in 0 .. Count - 1
    BY DEF Shards
  <2>3. a \in Nat \ {0} /\ b \in Nat \ {0} /\ a - b <= 1
    <3>1. a \in Nat /\ (total >= Count => a >= 1) /\ a - b <= 1
      BY <2>1, <2>2, ShareBounds
    <3>2. b \in Nat /\ (total >= Count => b >= 1)
      BY <2>1, <2>2, ShareBounds
    <3> QED
      BY <2>1, <3>1, <3>2
  <2>4. iterations[s] = a * intensity /\ iterations[t] = b * intensity
    BY <2>1, <2>2 DEF IInv, IterationsInv, Filled
  <2> HIDE DEF a, b
  <2>5. 1 * 1 <= a * intensity
    BY <2>1, <2>3, ProductBound
  <2>6. a * intensity - b * intensity = (a - b) * intensity
    BY <2>1, <2>3
  <2>7. (a - b) * intensity <= intensity
    <3>1. \A d \in Int, i \in Nat : d <= 1 => d * i <= i
      <4> SUFFICES ASSUME NEW d \in Int, NEW i \in Nat, d <= 1
                   PROVE  d * i <= i
        OBVIOUS
      <4>1. (1 - d) * i = i - d * i /\ 1 - d \in Nat
        OBVIOUS
      <4>2. \A x, y \in Nat : x * y >= 0
        OBVIOUS
      <4> QED
        BY <4>1, <4>2
    <3> QED
      BY <2>1, <2>3, <3>1
  <2> QED
    BY <2>4, <2>5, <2>6, <2>7
<1> QED
  BY <1>1, Invariance, PTL

\* The operations an arithmetic kernel reports cover the iterations with less
\* than one loop to spare per shard.
THEOREM LanesCover == Spec => []LanesCoverIterations
<1>1. IInv => LanesCoverIterations
  <2> SUFFICES ASSUME IInv, pc \in Planned \ {"arithmetic"}
               PROVE  /\ operations >= Effective
                      /\ operations < Effective + Lanes * Count
    BY DEF LanesCoverIterations
  <2>1. TypeOK /\ total >= 1 /\ threads >= 1 /\ intensity >= 1
    BY DEF IInv, PhaseInv
  <2>2. Count \in Nat \ {0} /\ Effective \in Nat
    BY <2>1, Derived, ShardingAssumption
  <2>3. /\ operations >= Effective
        /\ operations <= Effective + (Lanes - 1) * Count
    BY DEF IInv, LoopsInv
  <2>4. (Lanes - 1) * Count = Lanes * Count - Count
    BY <2>2, ShardingAssumption
  <2>5. operations \in Nat /\ Lanes * Count \in Nat
    BY <2>1, <2>2, ShardingAssumption DEF TypeOK
  <2> QED
    BY <2>2, <2>3, <2>4, <2>5
<1> QED
  BY <1>1, Invariance, PTL

\* The arrays of the memory bandwidth benchmark respect the limit the user set.
THEOREM LimitRespected == Spec => []WithinLimit
<1>1. IInv => WithinLimit
  <2> SUFFICES ASSUME IInv PROVE WithinLimit
    OBVIOUS
  <2>1. /\ MaxElements \in Nat
        /\ MaxElements * PerElement <= limit * MiB
        /\ limit \in Nat
    BY Limit, ShardingAssumption DEF IInv, TypeOK
  <2>2. allocated \in Nat /\ allocated <= MaxElements
    <3>1. CASE pc \notin {"bandwidth", "ready"}
      BY <2>1, <3>1 DEF IInv, PhaseInv
    <3>2. CASE pc = "ready"
      BY <3>2 DEF IInv, TypeOK, WorkingInv
    <3>3. CASE pc = "bandwidth"
      <4>1. TypeOK /\ total >= 1 /\ threads >= 1 /\ intensity >= 1
        BY <3>3 DEF IInv, PhaseInv, Planned
      <4>2. Count \in Nat \ {0} /\ shard \in 0 .. Count
        BY <4>1, Derived, ShardingAssumption DEF TypeOK
      <4>3. /\ Prefix(MaxElements, Count, shard) \in Nat
            /\ Prefix(MaxElements, Count, shard) <= MaxElements
        BY <2>1, <4>2, PrefixWhole
      <4>4. allocated \in Nat /\ allocated <= Prefix(MaxElements, Count, shard)
        BY <3>3, <4>1 DEF IInv, TypeOK, WorkingInv
      <4> QED
        BY <2>1, <4>3, <4>4
    <3> QED
      BY <3>1, <3>2, <3>3
  <2>3. allocated * PerElement <= MaxElements * PerElement
    BY <2>1, <2>2, ProductBound, ShardingAssumption
  <2>4. /\ allocated * PerElement \in Nat
        /\ MaxElements * PerElement \in Nat
        /\ limit * MiB \in Nat
    BY <2>1, <2>2, ShardingAssumption
  <2>5. allocated * PerElement <= limit * MiB
    BY <2>1, <2>3, <2>4
  <2> QED
    BY <2>5 DEF IInv, WorkingInv, WithinLimit
<1> QED
  BY <1>1, Invariance, PTL

-----------------------------------------------------------------------------
(* Sums over the shards.  There are at most two shares, and the larger     *)
(* ones come first, so that whatever depends on the share of a shard adds  *)
(* up without an induction.                                                *)

\* What k shards come to, if the first r count `more` and the others `less`.
Spread(k, r, more, less) == Lesser(k, r) * more + (k - Lesser(k, r)) * less

LEMMA SpreadStep ==
  ASSUME NEW k \in Nat, NEW r \in Nat, NEW more \in Int, NEW less \in Int
  PROVE  /\ Spread(0, r, more, less) = 0
         /\ Spread(k, r, more, less) \in Int
         /\ Spread(k + 1, r, more, less) =
              Spread(k, r, more, less) + (IF k < r THEN more ELSE less)
<1>1. Spread(0, r, more, less) = 0
  BY DEF Spread, Lesser
<1>2. CASE k < r
  <2>1. Spread(k, r, more, less) = k * more
    BY <1>2 DEF Spread, Lesser
  <2>2. Spread(k + 1, r, more, less) = (k + 1) * more
    BY <1>2 DEF Spread, Lesser
  <2>3. (k + 1) * more = k * more + more
    OBVIOUS
  <2> QED
    BY <1>1, <1>2, <2>1, <2>2, <2>3
<1>3. CASE k >= r
  <2>1. Spread(k, r, more, less) = r * more + (k - r) * less
    BY <1>3 DEF Spread, Lesser
  <2>2. Spread(k + 1, r, more, less) = r * more + (k + 1 - r) * less
    BY <1>3 DEF Spread, Lesser
  <2>3. (k + 1 - r) * less = (k - r) * less + less
    OBVIOUS
  <2>4. r * more \in Int /\ (k - r) * less \in Int
    OBVIOUS
  <2> QED
    BY <1>1, <1>3, <2>1, <2>2, <2>3, <2>4
<1> QED
  BY <1>2, <1>3

\* The two numbers of iterations.
Larger  == (total \div Count + 1) * intensity
Smaller == (total \div Count) * intensity

LEMMA TwoNumbers ==
  ASSUME TypeOK, total >= 1, threads >= 1, intensity >= 1
  PROVE  /\ Count \in Nat \ {0}
         /\ total \div Count \in Nat \ {0}
         /\ total % Count \in 0 .. Count - 1
         /\ total = Count * (total \div Count) + (total % Count)
         /\ intensity \in Nat \ {0}
         /\ Larger \in Nat \ {0}
         /\ Smaller \in Nat \ {0}
<1>1. /\ Count \in Nat \ {0} /\ Count <= total
      /\ total \in Nat /\ intensity \in Nat \ {0}
  BY Derived, ShardingAssumption DEF TypeOK
<1>2. /\ total \div Count \in Nat
      /\ total % Count \in 0 .. Count - 1
      /\ total = Count * (total \div Count) + (total % Count)
  BY <1>1, QuotientRemainder
<1> DEFINE q == total \div Count
           r == total % Count
<1>3. q \in Nat \ {0}
  <2>1. q \in Nat /\ r \in 0 .. Count - 1 /\ total = Count * q + r
    BY <1>2
  <2> HIDE DEF q, r
  <2> QED
    BY <1>1, <2>1
<1>4. Larger = (q + 1) * intensity /\ Smaller = q * intensity
  BY DEF Larger, Smaller
<1> HIDE DEF q, r
<1>5. Larger \in Nat \ {0} /\ Smaller \in Nat \ {0}
  <2>1. \A a, b \in Nat \ {0} : a * b \in Nat /\ 1 * 1 <= a * b
    BY ProductBound
  <2>2. q + 1 \in Nat \ {0}
    BY <1>3
  <2> QED
    BY <1>1, <1>3, <1>4, <2>1, <2>2
<1> QED
  BY <1>1, <1>2, <1>3, <1>5 DEF q

LEMMA TwoShares ==
  ASSUME IInv, pc \in Planned, NEW s \in Shards
  PROVE  /\ iterations[s] = IF s < total % Count THEN Larger ELSE Smaller
         /\ iterations[s] \in 1 .. IntMax
<1>1. TypeOK /\ total >= 1 /\ threads >= 1 /\ intensity >= 1
  BY DEF IInv, PhaseInv
<1>2. /\ Count \in Nat \ {0} /\ total \div Count \in Nat \ {0}
      /\ total % Count \in 0 .. Count - 1
      /\ Larger \in Nat \ {0} /\ Smaller \in Nat \ {0}
  BY <1>1, TwoNumbers
<1>3. iterations[s] = Share(total, Count, s) * intensity
  BY <1>2 DEF IInv, IterationsInv, Filled, Shards
<1> DEFINE q == total \div Count
<1>4. Share(total, Count, s) = IF s < total % Count THEN q + 1 ELSE q
  BY <1>2 DEF Share
<1>5. Larger = (q + 1) * intensity /\ Smaller = q * intensity
  BY DEF Larger, Smaller
<1> HIDE DEF q
<1>6. iterations[s] = IF s < total % Count THEN Larger ELSE Smaller
  BY <1>3, <1>4, <1>5
<1>7. iterations[s] \in 0 .. IntMax
  BY <1>1 DEF TypeOK
<1> QED
  BY <1>2, <1>6, <1>7, ShardingAssumption

LEMMA LoopsTyped ==
  ASSUME NEW i \in Nat \ {0}
  PROVE  LoopsOf(i) \in Nat \ {0}
<1>1. i - 1 \in Nat
  OBVIOUS
<1>2. (i - 1) \div Lanes \in Nat
  BY <1>1, QuotientRemainder, ShardingAssumption
<1> QED
  BY <1>2 DEF LoopsOf

\* The operations are those of the loops, no more and no less: the sum that is
\* not checked for overflow is exact.
OperationsUpTo(k) ==
  /\ operations =
       Spread(k, total % Count, LoopsOf(Larger) * Lanes, LoopsOf(Smaller) * Lanes)
  /\ \A s \in Shards : s < k => loops[s] = LoopsOf(iterations[s])

OperationsInv ==
  /\ pc = "arithmetic" => OperationsUpTo(shard)
  /\ pc \in Planned \ {"arithmetic"} => OperationsUpTo(Count)

LEMMA OperationsStep == IInv /\ OperationsInv /\ [Next]_vars => OperationsInv'
<1> SUFFICES ASSUME IInv, OperationsInv, [Next]_vars PROVE OperationsInv'
  OBVIOUS
<1>1. CASE AssignLoops
  <2>1. /\ pc = "arithmetic" /\ pc' = "arithmetic"
        /\ shard < Count /\ shard' = shard + 1
        /\ loops' = [loops EXCEPT ![shard] = LoopsOf(iterations[shard])]
        /\ UNCHANGED <<total, threads, intensity, iterations>>
    BY <1>1 DEF AssignLoops, Goto, settings, LoopsOf
  <2>2. operations' = operations + LoopsOf(iterations[shard]) * Lanes
    BY <1>1, AssignLoopsInv
  <2>3. pc \in Planned /\ TypeOK /\ total >= 1 /\ threads >= 1 /\ intensity >= 1
    BY <2>1 DEF IInv, PhaseInv, Planned
  <2>4. /\ Count \in Nat \ {0} /\ total % Count \in Nat
        /\ Larger \in Nat \ {0} /\ Smaller \in Nat \ {0}
        /\ shard \in Shards /\ shard \in Nat
        /\ loops \in [Shards -> 0 .. IntMax]
    <3>1. /\ Count \in Nat \ {0} /\ total % Count \in 0 .. Count - 1
          /\ Larger \in Nat \ {0} /\ Smaller \in Nat \ {0}
      BY <2>3, TwoNumbers
    <3>2. shard \in Shards /\ shard \in Nat
      <4>1. shard \in 0 .. Count
        BY <2>3 DEF TypeOK
      <4> QED
        BY <2>1, <3>1, <4>1 DEF Shards
    <3>3. loops \in [Shards -> 0 .. IntMax]
      BY <2>3 DEF TypeOK
    <3>4. total % Count \in Nat
      BY <3>1
    <3> QED
      BY <3>1, <3>2, <3>3, <3>4
  <2>5. iterations[shard] = IF shard < total % Count THEN Larger ELSE Smaller
    BY <2>3, <2>4, TwoShares
  <2>6. /\ Count' = Count /\ Shards' = Shards /\ Larger' = Larger
        /\ Smaller' = Smaller /\ (total % Count)' = total % Count
    BY <2>1 DEF Count, Shards, Larger, Smaller
  <2> DEFINE r == total % Count
             more == LoopsOf(Larger) * Lanes
             less == LoopsOf(Smaller) * Lanes
  <2>7. more \in Int /\ less \in Int
    <3>1. LoopsOf(Larger) \in Nat /\ LoopsOf(Smaller) \in Nat
      BY <2>4, LoopsTyped
    <3> QED
      BY <3>1, ShardingAssumption
  <2>8. operations = Spread(shard, r, more, less)
    BY <2>1 DEF OperationsInv, OperationsUpTo
  <2>9. LoopsOf(iterations[shard]) * Lanes = IF shard < r THEN more ELSE less
    BY <2>5
  <2>10. Spread(shard + 1, r, more, less) =
           Spread(shard, r, more, less) + (IF shard < r THEN more ELSE less)
    <3>1. r \in Nat
      BY <2>4
    <3> HIDE DEF r, more, less
    <3> QED
      BY <2>4, <2>7, <3>1, SpreadStep, ZenonT(60)
  <2>11. operations' = Spread(shard + 1, r, more, less)
    <3> HIDE DEF r, more, less
    <3> QED
      BY <2>2, <2>8, <2>9, <2>10
  <2>12. \A s \in Shards : s < shard + 1 => loops'[s] = LoopsOf(iterations[s])
    <3>1. \A s \in Shards : s < shard => loops[s] = LoopsOf(iterations[s])
      BY <2>1 DEF OperationsInv, OperationsUpTo
    <3>2. \A s \in Shards : s < shard + 1 => s < shard \/ s = shard
      BY <2>4 DEF Shards
    <3> QED
      BY <2>1, <2>4, <3>1, <3>2
  <2> QED
    BY <2>1, <2>6, <2>11, <2>12 DEF OperationsInv, OperationsUpTo
<1>2. CASE EndLoop("iterations", "arithmetic")
  <2>1. /\ pc = "iterations" /\ pc' = "arithmetic" /\ shard' = 0
        /\ UNCHANGED <<total, threads, intensity, operations>>
    BY <1>2 DEF EndLoop, Goto, settings
  <2>2. /\ operations = 0
        /\ TypeOK /\ total >= 1 /\ threads >= 1 /\ intensity >= 1
    BY <2>1 DEF IInv, PhaseInv
  <2>3. /\ Count \in Nat \ {0} /\ total % Count \in Nat
        /\ Larger \in Nat \ {0} /\ Smaller \in Nat \ {0}
    <3>1. /\ Count \in Nat \ {0} /\ total % Count \in 0 .. Count - 1
          /\ Larger \in Nat \ {0} /\ Smaller \in Nat \ {0}
      BY <2>2, TwoNumbers
    <3> QED
      BY <3>1
  <2>4. /\ Count' = Count /\ Shards' = Shards /\ Larger' = Larger
        /\ Smaller' = Smaller /\ (total % Count)' = total % Count
    BY <2>1 DEF Count, Shards, Larger, Smaller
  <2>5. Spread(0, total % Count, LoopsOf(Larger) * Lanes, LoopsOf(Smaller) * Lanes) = 0
    <3> DEFINE r == total % Count
               more == LoopsOf(Larger) * Lanes
               less == LoopsOf(Smaller) * Lanes
    <3>1. r \in Nat /\ more \in Int /\ less \in Int
      <4>1. LoopsOf(Larger) \in Nat /\ LoopsOf(Smaller) \in Nat
        BY <2>3, LoopsTyped
      <4> QED
        BY <2>3, <4>1, ShardingAssumption
    <3> HIDE DEF r, more, less
    <3>2. Spread(0, r, more, less) = 0
      BY <3>1, SpreadStep
    <3> QED
      BY <3>2 DEF r, more, less
  <2>6. \A s \in Shards' : ~(s < 0)
    BY <2>3, <2>4 DEF Shards
  <2> QED
    BY <2>1, <2>2, <2>4, <2>5, <2>6 DEF OperationsInv, OperationsUpTo
<1>3. CASE EndLoop("arithmetic", "sizes")
  <2>1. /\ pc = "arithmetic" /\ pc' = "sizes" /\ shard = Count
        /\ UNCHANGED <<total, threads, intensity, operations, iterations, loops>>
    BY <1>3 DEF EndLoop, Goto, settings
  <2> QED
    BY <2>1 DEF OperationsInv, OperationsUpTo, Count, Shards, Larger, Smaller
<1>4. CASE AssignWorkingSet
  <2>1. /\ pc = "bandwidth" /\ pc' = "bandwidth"
        /\ UNCHANGED <<total, threads, intensity, operations, iterations, loops>>
    BY <1>4 DEF AssignWorkingSet, Goto, settings
  <2> QED
    BY <2>1 DEF OperationsInv, OperationsUpTo, Count, Shards, Larger, Smaller, Planned
<1>5. CASE AssignIterations
  <2>1. pc' = "iterations"
    BY <1>5 DEF AssignIterations, Goto
  <2> QED
    BY <2>1 DEF OperationsInv, Planned
<1>6. CASE Validate \/ IterationsRejected \/ Sizes \/ Limits
           \/ EndLoop("bandwidth", "ready")
  <2>1. /\ pc' \notin {"arithmetic"}
        /\ pc' \in Planned => pc \in Planned \ {"arithmetic"}
        /\ UNCHANGED <<total, threads, intensity, operations, iterations, loops>>
    BY <1>6 DEF Validate, IterationsRejected, Sizes, Limits, Decide, EndLoop, Goto,
                settings, Planned
  <2> QED
    BY <2>1 DEF OperationsInv, OperationsUpTo, Count, Shards, Larger, Smaller, Planned
<1>7. CASE UNCHANGED vars
  BY <1>7 DEF vars, settings, OperationsInv, OperationsUpTo, Count, Shards, Larger,
              Smaller, Planned
<1> QED
  BY <1>1, <1>2, <1>3, <1>4, <1>5, <1>6, <1>7 DEF Next, Finished

LEMMA OperationsExact == Spec => []OperationsInv
<1>1. Init => OperationsInv
  BY DEF Init, OperationsInv, Planned
<1> QED
  BY <1>1, OperationsStep, Invariance, PTL DEF Spec

=============================================================================

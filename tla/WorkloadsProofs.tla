-------------------------- MODULE WorkloadsProofs --------------------------
(***************************************************************************)
(* Theorems about Workloads, for every size of the plan and every order of *)
(* the nodes: the calls leave the plan as it is, so that what              *)
(* ShardingProofs proves of it holds beside them; each walk along a chain  *)
(* is one cycle through all nodes; and the work that is reported for a     *)
(* benchmark is what its shards have done.                                 *)
(***************************************************************************)
EXTENDS Workloads, ShardingProofs, FiniteSetTheorems

-----------------------------------------------------------------------------
(* The stride.                                                             *)

\* The remainder is 0 for the multiples.
LEMMA Multiple ==
  ASSUME NEW a \in Nat, NEW n \in Nat \ {0}
  PROVE  a % n = 0 <=> \E k \in Nat : a = n * k
<1>1. ASSUME a % n = 0 PROVE \E k \in Nat : a = n * k
  <2>1. a \div n \in Nat /\ a = n * (a \div n) + 0
    BY <1>1, QuotientRemainder
  <2>2. a = n * (a \div n)
    BY <2>1
  <2> QED
    BY <2>1, <2>2
<1>2. ASSUME NEW k \in Nat, a = n * k PROVE a % n = 0
  <2>1. 0 \in 0 .. n - 1 /\ a = n * k + 0
    BY <1>2
  <2> QED
    BY <2>1, RemainderIs
<1> QED
  BY <1>1, <1>2

\* Products can be cancelled.
LEMMA Cancel ==
  ASSUME NEW m \in Nat \ {0}, NEW a \in Int, NEW b \in Int, m * a = m * b
  PROVE  a = b
<1>1. m * (a - b) = 0 /\ m * (b - a) = 0
  OBVIOUS
<1>2. ~(a - b >= 1) /\ ~(b - a >= 1)
  BY <1>1, MultipleAtLeast
<1> QED
  BY <1>2

\* A stride without a common divisor comes back to where it started after n
\* steps and not before.
LEMMA CoprimeComesBackLate ==
  ASSUME NEW n \in Nat \ {0}, NEW s \in Nat, Coprime(s, n),
         NEW k \in 1 .. n - 1
  PROVE  (k * s) % n # 0
<1> SUFFICES ASSUME (k * s) % n = 0 PROVE FALSE
  OBVIOUS
<1> DEFINE Back == {j \in Nat \ {0} : \E t \in Nat : j * s = n * t}
<1>1. k \in Back
  <2>1. k * s \in Nat
    OBVIOUS
  <2> QED
    BY <2>1, Multiple
<1>2. PICK m \in Back : \A j \in Back : m <= j
  <2>1. Back \in SUBSET Nat /\ Back # {}
    BY <1>1
  <2> HIDE DEF Back
  <2> QED
    BY <2>1, LeastElement
<1>3. m \in Nat \ {0} /\ m < n
  <2>1. m \in Nat \ {0}
    BY <1>2
  <2>2. m <= k
    BY <1>1, <1>2
  <2> QED
    BY <2>1, <2>2
<1>4. PICK t \in Nat : m * s = n * t
  BY <1>2
<1> DEFINE a == n \div m
           r == n % m
<1>5. a \in Nat /\ r \in 0 .. m - 1 /\ n = m * a + r
  BY <1>3, QuotientRemainder
<1>6. r = 0
  <2> SUFFICES ASSUME r # 0 PROVE FALSE
    OBVIOUS
  <2>1. r * s = n * s - a * (m * s)
    <3> HIDE DEF a, r
    <3>1. r = n - m * a
      BY <1>3, <1>5
    <3>2. r * s = (n - m * a) * s
      BY <3>1
    <3> QED
      BY <3>2, <1>3, <1>5
  <2>2. r * s = n * (s - a * t)
    <3> HIDE DEF a, r
    <3>1. a * (m * s) = a * (n * t)
      BY <1>4
    <3>2. a * (n * t) = n * (a * t)
      BY <1>5
    <3> QED
      BY <2>1, <3>1, <3>2, <1>5
  <2>3. s - a * t \in Nat
    <3> HIDE DEF a, r
    <3>1. r * s \in Nat /\ s - a * t \in Int
      BY <1>3, <1>5
    <3> DEFINE u == s - a * t
    <3>2. u \in Int /\ n * u >= 0
      BY <3>1, <2>2
    <3> HIDE DEF u
    <3>3. ~(-u >= 1)
      <4>1. -u \in Int /\ n * (-u) <= 0
        BY <3>2
      <4> QED
        BY <4>1, MultipleAtLeast
    <3> QED
      BY <3>2, <3>3 DEF u
  <2>4. r \in Nat \ {0} /\ r < m
    <3> HIDE DEF a, r
    <3> QED
      BY <1>3, <1>5
  <2>5. r \in Back
    <3> HIDE DEF a, r
    <3> QED
      BY <2>2, <2>3, <2>4
  <2>6. m <= r
    <3> HIDE DEF Back, r
    <3> QED
      BY <1>2, <2>5
  <2> HIDE DEF a, r
  <2> QED
    BY <1>3, <2>4, <2>6
<1>7. n = m * a
  <2> HIDE DEF a, r
  <2> QED
    BY <1>3, <1>5, <1>6
<1>8. a \in 2 .. n
  <2> HIDE DEF a, r
  <2>1. a # 0 /\ a # 1
    BY <1>3, <1>7
  <2>2. 1 * a <= m * a
    BY <1>3, <1>5, ProductBound
  <2> QED
    BY <1>5, <1>7, <2>1, <2>2
<1>9. s = a * t
  <2> HIDE DEF a, r
  <2>1. n * t = (m * a) * t
    BY <1>7
  <2>2. (m * a) * t = m * (a * t)
    BY <1>3, <1>5
  <2>3. m * s = m * (a * t)
    BY <1>4, <2>1, <2>2
  <2> QED
    BY <1>3, <1>5, <2>3, Cancel
<1>10. s % a = 0 /\ n % a = 0
  <2> HIDE DEF a, r
  <2>1. a \in Nat \ {0} /\ n = a * m
    BY <1>3, <1>5, <1>7, <1>8
  <2> QED
    BY <1>3, <1>9, <2>1, Multiple
<1> QED
  <2> HIDE DEF a, r
  <2> QED
    BY <1>8, <1>10 DEF Coprime

\* The search for a stride ends, whatever the size, and finds one that shares no
\* divisor with it.
LEMMA StrideIsCoprime ==
  ASSUME NEW n \in Nat \ {0}
  PROVE  Stride(n) \in Nat /\ Coprime(Stride(n), n)
<1> DEFINE first == StrideAsAsked(n)
           Fits == {e \in first .. first + n : Coprime(e, n)}
<1>1. first \in 1 .. n
  <2>1. StrideAsked % n \in 0 .. n - 1
    BY WorkloadsAssumption
  <2> QED
    BY <2>1 DEF StrideAsAsked
<1>2. n + 1 \in Fits
  <2>1. ASSUME NEW d \in 2 .. n, (n + 1) % d = 0, n % d = 0 PROVE FALSE
    <3>1. PICK i \in Nat : n = d * i
      BY <2>1, Multiple
    <3>2. /\ d \in Nat \ {0} /\ n + 1 \in Nat
          /\ 1 \in 0 .. d - 1 /\ n + 1 = d * i + 1
      BY <3>1
    <3>3. \A x \in Nat : x = d * i + 1 => x % d = 1
      BY <3>2, RemainderIs
    <3>4. (n + 1) % d = 1
      BY <3>2, <3>3
    <3> QED
      BY <2>1, <3>4
  <2>2. Coprime(n + 1, n)
    BY <2>1 DEF Coprime
  <2> QED
    BY <1>1, <2>2
<1>3. PICK e \in Fits : \A f \in Fits : e <= f
  <2>1. Fits \in SUBSET Nat /\ Fits # {}
    BY <1>1, <1>2
  <2> HIDE DEF Fits
  <2> QED
    BY <2>1, LeastElement
<1>4. e \in first .. first + n /\ Coprime(e, n)
  OBVIOUS
<1>5. \A f \in first .. e - 1 : ~Coprime(f, n)
  <2> SUFFICES ASSUME NEW f \in first .. e - 1, Coprime(f, n) PROVE FALSE
    OBVIOUS
  <2> HIDE DEF first
  <2>1. f \in Fits
    BY <1>1, <1>4
  <2> QED
    BY <1>1, <1>3, <2>1
<1>6. Stride(n) \in first .. first + n /\ Coprime(Stride(n), n)
  BY <1>4, <1>5 DEF Stride
<1> QED
  BY <1>1, <1>6

-----------------------------------------------------------------------------
(* The chains.                                                             *)

\* c numbers the nodes in the order in which a walk from node 0 meets them.
Numbering(c, n) ==
  /\ c \in [0 .. n - 1 -> 0 .. n - 1]
  /\ c[0] = 0
  /\ \A x \in 0 .. n - 1 : \E k \in 0 .. n - 1 : c[k] = x
  /\ \A j, k \in 0 .. n - 1 : c[j] = c[k] => j = k

\* The chain leads from each node to the next one, and from the last to node 0.
OneCycle(chain, n) ==
  /\ chain \in [0 .. n - 1 -> 0 .. n - 1]
  /\ \E c \in [0 .. n - 1 -> 0 .. n - 1] :
       /\ Numbering(c, n)
       /\ \A k \in 0 .. n - 1 :
            chain[c[k]] = IF k < n - 1 THEN c[k + 1] ELSE 0

\* A number below 2 * n goes around at most once.
LEMMA Wrap ==
  ASSUME NEW n \in Nat \ {0}, NEW a \in 0 .. 2 * n - 1
  PROVE  a % n = IF a < n THEN a ELSE a - n
<1>1. CASE a < n
  BY <1>1, RemainderOfSmall
<1>2. CASE a >= n
  <2>1. a \in Nat /\ 1 \in Nat /\ a - n \in 0 .. n - 1 /\ a = n * 1 + (a - n)
    BY <1>2
  <2>2. \A q \in Nat, r \in 0 .. n - 1 : a = n * q + r => a % n = r
    BY <2>1, RemainderIs
  <2>3. a % n = a - n
    BY <2>1, <2>2
  <2> QED
    BY <1>2, <2>3
<1> QED
  BY <1>1, <1>2

\* A remainder may be taken before adding.
LEMMA RemainderOfSum ==
  ASSUME NEW n \in Nat \ {0}, NEW a \in Nat, NEW b \in Nat
  PROVE  ((a % n) + b) % n = (a + b) % n
<1>1. \A p, q \in Nat, r, t \in 0 .. n - 1 :
        a = n * p + r /\ r + b = n * q + t => (a + b) % n = t
  <2> SUFFICES ASSUME NEW p \in Nat, NEW q \in Nat,
                      NEW r \in 0 .. n - 1, NEW t \in 0 .. n - 1,
                      a = n * p + r, r + b = n * q + t
               PROVE  (a + b) % n = t
    OBVIOUS
  <2> DEFINE x == a + b
             y == p + q
  <2>1. x \in Nat /\ y \in Nat /\ x = n * y + t
    OBVIOUS
  <2> HIDE DEF x, y
  <2>2. x % n = t
    BY <2>1, RemainderIs
  <2> QED
    BY <2>2 DEF x
<1>2. a \div n \in Nat /\ a % n \in 0 .. n - 1 /\ a = n * (a \div n) + (a % n)
  BY QuotientRemainder
<1> DEFINE r == a % n
<1>3. r + b \in Nat
  BY <1>2
<1>4. /\ (r + b) \div n \in Nat
      /\ (r + b) % n \in 0 .. n - 1
      /\ r + b = n * ((r + b) \div n) + ((r + b) % n)
  BY <1>3, QuotientRemainder
<1> QED
  BY <1>1, <1>2, <1>4

\* Numbers with the same remainder differ by a multiple.
LEMMA DifferenceIsMultiple ==
  ASSUME NEW n \in Nat \ {0}, NEW a \in Nat, NEW b \in Nat,
         a % n = b % n, a <= b
  PROVE  (b - a) % n = 0
<1>1. \A p, q \in Nat, r \in 0 .. n - 1 :
        a = n * p + r /\ b = n * q + r => (b - a) % n = 0
  <2> SUFFICES ASSUME NEW p \in Nat, NEW q \in Nat, NEW r \in 0 .. n - 1,
                      a = n * p + r, b = n * q + r
               PROVE  (b - a) % n = 0
    OBVIOUS
  <2>1. b - a \in Nat /\ b - a = n * (q - p) /\ a - b = n * (p - q)
    OBVIOUS
  <2>2. ~(p - q >= 1)
    BY <2>1, MultipleAtLeast
  <2>3. q - p \in Nat
    BY <2>2
  <2> QED
    BY <2>1, <2>3, Multiple
<1>2. /\ a \div n \in Nat /\ b \div n \in Nat /\ a % n \in 0 .. n - 1
      /\ a = n * (a \div n) + (a % n) /\ b = n * (b \div n) + (b % n)
  BY QuotientRemainder
<1> QED
  BY <1>1, <1>2

\* cache_latency: with the stride that was found, no element is left out.
LEMMA StridedIsOneCycle ==
  ASSUME NEW n \in Nat \ {0}
  PROVE  OneCycle(StridedChain(n), n)
<1> DEFINE s == Stride(n)
           c == [k \in 0 .. n - 1 |-> (k * s) % n]
           chain == StridedChain(n)
<1>1. s \in Nat /\ Coprime(s, n)
  BY StrideIsCoprime
<1> HIDE DEF s
<1>2. \A k \in Nat : k * s \in Nat /\ (k * s) % n \in 0 .. n - 1
  BY <1>1
<1>3. c \in [0 .. n - 1 -> 0 .. n - 1]
  BY <1>2
<1>4. c[0] = 0
  <2>1. 0 * s = 0 /\ 0 % n = 0 /\ 0 \in 0 .. n - 1
    BY <1>1
  <2> QED
    BY <2>1
<1>5. \A j, k \in 0 .. n - 1 : c[j] = c[k] => ~(j < k)
  <2> SUFFICES ASSUME NEW j \in 0 .. n - 1, NEW k \in 0 .. n - 1,
                      (j * s) % n = (k * s) % n, j < k
               PROVE  FALSE
    OBVIOUS
  <2>1. k - j \in 1 .. n - 1
    OBVIOUS
  <2>2. k * s - j * s = (k - j) * s /\ j * s <= k * s
    <3>1. k * s - j * s = (k - j) * s
      BY <1>1
    <3>2. (k - j) * s >= 0
      BY <1>1, <2>1
    <3> QED
      BY <1>2, <3>1, <3>2
  <2>3. ((k - j) * s) % n = 0
    <3>1. \A a, b \in Nat : a % n = b % n /\ a <= b => (b - a) % n = 0
      BY DifferenceIsMultiple
    <3>2. (k * s - j * s) % n = 0
      BY <1>2, <2>2, <3>1
    <3> QED
      BY <2>2, <3>2
  <2> QED
    BY <1>1, <2>1, <2>3, CoprimeComesBackLate
<1>6. \A j, k \in 0 .. n - 1 : c[j] = c[k] => j = k
  <2> HIDE DEF c
  <2> QED
    BY <1>5
<1>7. \A x \in 0 .. n - 1 : \E k \in 0 .. n - 1 : c[k] = x
  <2> HIDE DEF c
  <2>1. c \in Injection(0 .. n - 1, 0 .. n - 1)
    BY <1>3, <1>6 DEF Injection, IsInjective
  <2>2. IsFiniteSet(0 .. n - 1)
    BY FS_Interval
  <2>3. c \in Surjection(0 .. n - 1, 0 .. n - 1)
    BY <2>1, <2>2, FS_Injection
  <2> QED
    BY <2>3 DEF Surjection
<1>8. Numbering(c, n)
  <2> HIDE DEF c
  <2> QED
    BY <1>3, <1>4, <1>6, <1>7 DEF Numbering
<1>9. chain = [i \in 0 .. n - 1 |-> (i + s) % n]
  BY DEF StridedChain, s
<1>10. chain \in [0 .. n - 1 -> 0 .. n - 1]
  <2> HIDE DEF chain
  <2>1. \A i \in 0 .. n - 1 : (i + s) % n \in 0 .. n - 1
    BY <1>1
  <2> QED
    BY <1>9, <2>1
<1>11. ASSUME NEW k \in 0 .. n - 1
       PROVE  chain[c[k]] = IF k < n - 1 THEN c[k + 1] ELSE 0
  <2> HIDE DEF chain
  <2>1. chain[c[k]] = (((k * s) % n) + s) % n
    BY <1>2, <1>9
  <2>2. (((k * s) % n) + s) % n = (k * s + s) % n
    <3> DEFINE a == k * s
    <3>1. a \in Nat
      BY <1>2
    <3> HIDE DEF a
    <3>2. ((a % n) + s) % n = (a + s) % n
      BY <1>1, <3>1, RemainderOfSum
    <3> QED
      BY <3>2 DEF a
  <2>3. k * s + s = (k + 1) * s
    BY <1>1
  <2>4. chain[c[k]] = ((k + 1) * s) % n
    BY <2>1, <2>2, <2>3
  <2>5. CASE k < n - 1
    BY <2>4, <2>5
  <2>6. CASE k = n - 1
    <3>1. (k + 1) * s = n * s /\ n * s \in Nat
      BY <1>1, <2>6
    <3>2. (n * s) % n = 0
      BY <1>1, <3>1, Multiple
    <3> QED
      BY <2>4, <2>6, <3>1, <3>2
  <2> QED
    BY <2>5, <2>6
<1> HIDE DEF c, chain
<1> QED
  BY <1>3, <1>8, <1>10, <1>11 DEF OneCycle, chain

Around(i, n) == IF i < n THEN i ELSE i - n

\* Counting around from q meets every number below n once, and q again.
CountsAround(q, n) ==
  /\ Around(q + 0, n) = q
  /\ \A k \in 0 .. n - 1 : Around(q + k, n) \in 0 .. n - 1
  /\ \A j, k \in 0 .. n - 1 : Around(q + j, n) = Around(q + k, n) => j = k
  /\ \A i \in 0 .. n - 1 : \E k \in 0 .. n - 1 : Around(q + k, n) = i
  /\ \A k \in 0 .. n - 2 :
       Around(Around(q + k, n) + 1, n) = Around(q + (k + 1), n)
  /\ Around(Around(q + (n - 1), n) + 1, n) = q

LEMMA AroundFromAnywhere ==
  ASSUME NEW n \in Nat \ {0}, NEW q \in 0 .. n - 1
  PROVE  CountsAround(q, n)
<1>1. \A i \in 0 .. n - 1 : \E k \in 0 .. n - 1 : Around(q + k, n) = i
  <2> SUFFICES ASSUME NEW i \in 0 .. n - 1
               PROVE  \E k \in 0 .. n - 1 : Around(q + k, n) = i
    OBVIOUS
  <2>1. CASE i >= q
    <3>1. i - q \in 0 .. n - 1 /\ Around(q + (i - q), n) = i
      BY <2>1 DEF Around
    <3> QED
      BY <3>1
  <2>2. CASE i < q
    <3>1. i - q + n \in 0 .. n - 1 /\ Around(q + (i - q + n), n) = i
      BY <2>2 DEF Around
    <3> QED
      BY <3>1
  <2> QED
    BY <2>1, <2>2
<1>2. \A k \in 0 .. n - 2 :
        Around(Around(q + k, n) + 1, n) = Around(q + (k + 1), n)
  BY DEF Around
<1>3. Around(Around(q + (n - 1), n) + 1, n) = q
  BY DEF Around
<1> QED
  BY <1>1, <1>2, <1>3 DEF Around, CountsAround

\* The remainder in the loop that links the shuffled nodes.
LEMMA NextAround ==
  ASSUME NEW n \in Nat \ {0}, NEW i \in 0 .. n - 1
  PROVE  (i + 1) % n = Around(i + 1, n)
<1> DEFINE a == i + 1
<1>1. a \in 0 .. 2 * n - 1
  OBVIOUS
<1> HIDE DEF a
<1>2. a % n = Around(a, n)
  BY <1>1, Wrap DEF Around
<1> QED
  BY <1>2 DEF a

\* pointer_chase and the sweep: whatever order the shuffle makes.
LEMMA ShuffledIsOneCycle ==
  ASSUME NEW n \in Nat \ {0},
         NEW order \in [0 .. n - 1 -> 0 .. n - 1],
         \A x \in 0 .. n - 1 : \E i \in 0 .. n - 1 : order[i] = x,
         \A i, j \in 0 .. n - 1 : order[i] = order[j] => i = j
  PROVE  OneCycle(ShuffledChain(order, n), n)
<1> DEFINE chain == ShuffledChain(order, n)
<1>1. PICK q \in 0 .. n - 1 : order[q] = 0
  OBVIOUS
<1> DEFINE at(k) == Around(q + k, n)
           c == [k \in 0 .. n - 1 |-> order[at(k)]]
<1>2. /\ at(0) = q
      /\ \A k \in 0 .. n - 1 : at(k) \in 0 .. n - 1
      /\ \A j, k \in 0 .. n - 1 : at(j) = at(k) => j = k
      /\ \A i \in 0 .. n - 1 : \E k \in 0 .. n - 1 : at(k) = i
      /\ \A k \in 0 .. n - 2 : Around(at(k) + 1, n) = at(k + 1)
      /\ Around(at(n - 1) + 1, n) = q
  <2>1. CountsAround(q, n)
    BY <1>1, AroundFromAnywhere
  <2> QED
    BY <2>1 DEF CountsAround
<1> HIDE DEF at
<1>3. c \in [0 .. n - 1 -> 0 .. n - 1]
  BY <1>2
<1>4. Numbering(c, n)
  <2>1. c[0] = 0
    BY <1>1, <1>2
  <2>2. \A j, k \in 0 .. n - 1 : c[j] = c[k] => j = k
    <3> SUFFICES ASSUME NEW j \in 0 .. n - 1, NEW k \in 0 .. n - 1,
                        order[at(j)] = order[at(k)]
                 PROVE  j = k
      OBVIOUS
    <3>1. at(j) = at(k)
      BY <1>2
    <3> QED
      BY <1>2, <3>1
  <2>3. \A x \in 0 .. n - 1 : \E k \in 0 .. n - 1 : c[k] = x
    <3> SUFFICES ASSUME NEW x \in 0 .. n - 1
                 PROVE  \E k \in 0 .. n - 1 : c[k] = x
      OBVIOUS
    <3>1. PICK i \in 0 .. n - 1 : order[i] = x
      OBVIOUS
    <3>2. PICK k \in 0 .. n - 1 : at(k) = i
      BY <1>2, <3>1
    <3> QED
      BY <3>1, <3>2
  <2> HIDE DEF c
  <2> QED
    BY <1>3, <2>1, <2>2, <2>3 DEF Numbering
<1>5. \A i \in 0 .. n - 1 : chain[order[i]] = order[Around(i + 1, n)]
  <2> SUFFICES ASSUME NEW i \in 0 .. n - 1
               PROVE  chain[order[i]] = order[Around(i + 1, n)]
    OBVIOUS
  <2> DEFINE found == CHOOSE j \in 0 .. n - 1 : order[j] = order[i]
  <2>1. found = i
    OBVIOUS
  <2>2. chain[order[i]] = order[(found + 1) % n]
    BY DEF ShuffledChain
  <2>3. (i + 1) % n = Around(i + 1, n)
    BY NextAround
  <2> QED
    BY <2>1, <2>2, <2>3
<1>6. ASSUME NEW k \in 0 .. n - 1
      PROVE  chain[c[k]] = IF k < n - 1 THEN c[k + 1] ELSE 0
  <2> HIDE DEF chain
  <2>1. chain[c[k]] = order[Around(at(k) + 1, n)]
    BY <1>2, <1>5
  <2>2. CASE k < n - 1
    <3>1. k \in 0 .. n - 2 /\ k + 1 \in 0 .. n - 1
      BY <2>2
    <3>2. chain[c[k]] = order[at(k + 1)]
      BY <1>2, <2>1, <3>1
    <3>3. c[k + 1] = order[at(k + 1)]
      BY <3>1
    <3> QED
      BY <2>2, <3>2, <3>3
  <2>3. CASE k = n - 1
    <3>1. chain[c[k]] = order[q]
      BY <1>2, <2>1, <2>3
    <3> QED
      BY <1>1, <2>3, <3>1
  <2> QED
    BY <2>2, <2>3
<1>7. chain \in [0 .. n - 1 -> 0 .. n - 1]
  <2>1. ASSUME NEW x \in 0 .. n - 1 PROVE chain[x] \in 0 .. n - 1
    <3> HIDE DEF chain, c
    <3>1. PICK k \in 0 .. n - 1 : c[k] = x
      BY <1>4 DEF Numbering
    <3>2. chain[x] = IF k < n - 1 THEN c[k + 1] ELSE 0
      BY <1>6, <3>1
    <3>3. CASE k < n - 1
      <4>1. k + 1 \in 0 .. n - 1
        BY <3>3
      <4> QED
        BY <1>3, <3>2, <3>3, <4>1
    <3>4. CASE k = n - 1
      BY <3>2, <3>4
    <3> QED
      BY <3>3, <3>4
  <2>2. chain = [x \in 0 .. n - 1 |-> chain[x]]
    BY DEF ShuffledChain
  <2> HIDE DEF chain
  <2> QED
    BY <2>1, <2>2
<1> HIDE DEF c, chain
<1> QED
  BY <1>3, <1>4, <1>6, <1>7 DEF OneCycle, chain

-----------------------------------------------------------------------------
(* The plan, beside the calls.                                             *)

\* A call reads the plan and changes nothing of it.
THEOREM CallsLeaveThePlan == WorkloadsSpec => Spec
<1>1. [Plan \/ Call]_allVars => [Next]_vars
  BY DEF Plan, Call, allVars, Choose, Begin, BeginShuffled, BeginStrided,
         BeginPlain, Hop, Compute, EndShard, Report, CountRefused, Ended
<1> QED
  BY <1>1, PTL DEF WorkloadsSpec, WorkloadsInit, Spec

\* The plan a workload runs on is complete, even, covered by the lanes and
\* within the limit all the time the calls run.
THEOREM CallsKeepThePlan ==
  WorkloadsSpec => [](/\ TypeOK
                      /\ AllIterationsAssigned
                      /\ FairShares
                      /\ LanesCoverIterations
                      /\ WithinLimit)
BY CallsLeaveThePlan, TypeCorrect, NothingLost, Even, LanesCover, LimitRespected,
   PTL

-----------------------------------------------------------------------------
(* The walks.                                                              *)

\* c numbers the nodes along the chain; the walk has gone around `laps` times and
\* has made d hops more.
Walk(c, d, laps) ==
  /\ Numbering(c, Size)
  /\ \A k \in 0 .. Size - 1 : next[c[k]] = IF k < Size - 1 THEN c[k + 1] ELSE 0
  /\ index = c[d]
  /\ visits \in [0 .. Size - 1 -> Nat]
  /\ \A k \in 0 .. Size - 1 :
       visits[c[k]] = IF k \in 1 .. d THEN laps + 1 ELSE laps

WalkInv ==
  phase = "loop" /\ kind \in Chains =>
    \E c \in [0 .. Size - 1 -> 0 .. Size - 1], d \in 0 .. Size - 1, laps \in Nat :
      Walk(c, d, laps)

CallInv ==
  /\ phase # "plan" =>
       /\ pc \in {"limits", "ready"}
       /\ active \in 0 .. Count
       /\ part \in 0 .. active
  /\ phase = "plan" => active = 0 /\ part = 0
  /\ phase = "loop" => part < active

\* No chain is empty, and its size is one that was shuffled.
LEMMA SizeInRange ==
  ASSUME TypeOK, FairShares, CallInv, phase # "plan", part < active, kind \in Chains
  PROVE  Size \in Nat \ {0} /\ Size \in 1 .. IntMax \cup {SweepNodes}
<1>1. Count \in Int
  BY ShardingAssumption DEF TypeOK, Count, Lesser
<1>2. part \in Shards /\ pc \in Planned
  BY <1>1 DEF CallInv, Shards, Planned
<1>3. iterations[part] \in 1 .. IntMax
  BY <1>2, ShardingAssumption DEF FairShares, TypeOK
<1>4. SweepNodes \in Nat \ {0}
  BY WorkloadsAssumption
<1>5. Size \in {iterations[part], SweepNodes}
  BY DEF Size, Chains
<1> QED
  BY <1>3, <1>4, <1>5, ShardingAssumption

\* A walk begins at node 0 of one cycle.
LEMMA WalkBegins ==
  ASSUME Size \in Nat \ {0}, Size' = Size,
         NEW chain, OneCycle(chain, Size), Begin(chain)
  PROVE  WalkInv'
<1> DEFINE n == Size
<1>1. PICK c \in [0 .. n - 1 -> 0 .. n - 1] :
        /\ Numbering(c, n)
        /\ \A k \in 0 .. n - 1 : chain[c[k]] = IF k < n - 1 THEN c[k + 1] ELSE 0
  BY DEF OneCycle
<1>2. /\ index' = 0 /\ next' = chain
      /\ visits' = [i \in 0 .. n - 1 |-> 0]
  BY DEF Begin, OneCycle
<1>3. n \in Nat \ {0} /\ Size' = n
  OBVIOUS
<1> HIDE DEF n
<1>4. c[0] = 0 /\ 0 \in 0 .. n - 1
  BY <1>1, <1>3 DEF Numbering
<1>5. Walk(c, 0, 0)'
  <2>1. \A k \in 0 .. n - 1 : visits'[c[k]] = 0
    BY <1>1, <1>2
  <2>2. visits' \in [0 .. n - 1 -> Nat]
    BY <1>2
  <2>3. 1 .. 0 = {}
    OBVIOUS
  <2> QED
    BY <1>1, <1>2, <1>3, <1>4, <2>1, <2>2, <2>3 DEF Walk
<1> QED
  BY <1>1, <1>3, <1>4, <1>5 DEF WalkInv

\* A hop leads to the next node, or closes the lap.
LEMMA WalkGoesOn ==
  ASSUME Size \in Nat \ {0}, Size' = Size, WalkInv, Hop
  PROVE  WalkInv'
<1> DEFINE n == Size
<1>1. PICK c \in [0 .. n - 1 -> 0 .. n - 1], d \in 0 .. n - 1, laps \in Nat :
        Walk(c, d, laps)
  BY DEF WalkInv, Hop
<1>2. /\ Numbering(c, n)
      /\ \A k \in 0 .. n - 1 : next[c[k]] = IF k < n - 1 THEN c[k + 1] ELSE 0
      /\ index = c[d]
      /\ visits \in [0 .. n - 1 -> Nat]
      /\ \A k \in 0 .. n - 1 :
           visits[c[k]] = IF k \in 1 .. d THEN laps + 1 ELSE laps
  BY <1>1 DEF Walk
<1>3. /\ index' = next[index] /\ next' = next
      /\ visits' = [visits EXCEPT ![next[index]] = @ + 1]
  BY DEF Hop
<1>4. n \in Nat \ {0} /\ Size' = n /\ d \in 0 .. n - 1
  BY <1>1
<1> HIDE DEF n
<1>5. /\ c[0] = 0
      /\ \A j, k \in 0 .. n - 1 : c[j] = c[k] => j = k
  BY <1>2 DEF Numbering
<1>6. CASE d < n - 1
  <2>1. d + 1 \in 0 .. n - 1 /\ index' = c[d + 1]
    BY <1>2, <1>3, <1>4, <1>6
  <2>2. \A k \in 0 .. n - 1 :
          visits'[c[k]] = IF k = d + 1 THEN visits[c[k]] + 1 ELSE visits[c[k]]
    BY <1>1, <1>2, <1>3, <1>5, <2>1
  <2>3. \A k \in 0 .. n - 1 :
          visits'[c[k]] = IF k \in 1 .. d + 1 THEN laps + 1 ELSE laps
    <3> SUFFICES ASSUME NEW k \in 0 .. n - 1
                 PROVE  visits'[c[k]] = IF k \in 1 .. d + 1 THEN laps + 1 ELSE laps
      OBVIOUS
    <3>1. CASE k = d + 1
      <4>1. k \in 1 .. d + 1 /\ k \notin 1 .. d
        BY <1>4, <3>1
      <4> QED
        BY <1>2, <2>2, <3>1, <4>1
    <3>2. CASE k # d + 1
      <4>1. k \in 1 .. d + 1 <=> k \in 1 .. d
        BY <1>4, <3>2
      <4> QED
        BY <1>2, <2>2, <3>2, <4>1
    <3> QED
      BY <3>1, <3>2
  <2>4. visits' \in [0 .. n - 1 -> Nat]
    BY <1>1, <1>2, <1>3, <2>1
  <2>5. Walk(c, d + 1, laps)'
    BY <1>2, <1>3, <1>4, <2>1, <2>3, <2>4 DEF Walk
  <2> QED
    BY <1>1, <1>4, <2>1, <2>5 DEF WalkInv
<1>7. CASE d = n - 1
  <2>1. 0 \in 0 .. n - 1 /\ index' = c[0]
    BY <1>2, <1>3, <1>4, <1>5, <1>7
  <2>2. \A k \in 0 .. n - 1 :
          visits'[c[k]] = IF k = 0 THEN visits[c[k]] + 1 ELSE visits[c[k]]
    BY <1>1, <1>2, <1>3, <1>5, <2>1
  <2>3. \A k \in 0 .. n - 1 : visits'[c[k]] = laps + 1
    <3> SUFFICES ASSUME NEW k \in 0 .. n - 1 PROVE visits'[c[k]] = laps + 1
      OBVIOUS
    <3>1. k = 0 \/ k \in 1 .. d
      BY <1>4, <1>7
    <3>2. 0 \notin 1 .. d
      BY <1>4
    <3> QED
      BY <1>2, <2>2, <3>1, <3>2
  <2>4. visits' \in [0 .. n - 1 -> Nat]
    BY <1>1, <1>2, <1>3, <2>1
  <2>5. Walk(c, 0, laps + 1)'
    <3>1. 1 .. 0 = {}
      OBVIOUS
    <3> QED
      BY <1>2, <1>3, <1>4, <2>1, <2>3, <2>4, <3>1 DEF Walk
  <2>6. /\ c \in [0 .. Size' - 1 -> 0 .. Size' - 1]
        /\ 0 \in 0 .. Size' - 1 /\ laps + 1 \in Nat
    BY <1>1, <1>4, <2>1
  <2> QED
    BY <2>5, <2>6 DEF WalkInv
<1> QED
  BY <1>4, <1>6, <1>7

LEMMA CallStep ==
  ASSUME TypeOK, FairShares, CallInv, [Plan \/ Call]_allVars
  PROVE  CallInv'
<1>1. Count \in Nat
  BY ShardingAssumption DEF TypeOK, Count, Lesser
<1>2. CASE Plan
  BY <1>2 DEF Plan, callVars, CallInv
<1>3. CASE Call
  <2>1. UNCHANGED <<pc, Count>>
    BY <1>3 DEF Call, Choose, Begin, BeginShuffled, BeginStrided, BeginPlain, Hop,
      Compute, EndShard, Report, CountRefused, Ended, allVars, vars, settings, Count
  <2>2. CASE \E k \in Kinds, workers \in {1, threads} : Choose(k, workers)
    <3>1. threads \in Nat
      BY ShardingAssumption DEF TypeOK
    <3> QED
      BY <1>1, <2>1, <2>2, <3>1 DEF Choose, CallInv, Lesser
  <2>3. CASE BeginShuffled \/ BeginStrided \/ BeginPlain
    BY <1>1, <2>1, <2>3
       DEF BeginShuffled, BeginStrided, BeginPlain, ShardWaits, Begin, CallInv
  <2>4. CASE Hop \/ Compute \/ Report \/ CountRefused \/ Ended
    BY <1>1, <2>1, <2>4
       DEF Hop, Compute, Report, CountRefused, Ended, allVars, callVars, CallInv
  <2>5. CASE EndShard
    BY <1>1, <2>1, <2>5 DEF EndShard, CallInv
  <2> QED
    BY <1>3, <2>2, <2>3, <2>4, <2>5 DEF Call
<1>4. CASE UNCHANGED allVars
  BY <1>4 DEF allVars, vars, settings, callVars, CallInv, Count
<1> QED
  BY <1>2, <1>3, <1>4

LEMMA WalkStep ==
  ASSUME TypeOK, FairShares, CallInv, WalkInv, [Plan \/ Call]_allVars
  PROVE  WalkInv'
<1>1. CASE BeginShuffled
  <2>1. /\ phase # "plan" /\ part < active /\ kind \in Chains
        /\ UNCHANGED <<vars, kind, part>>
    BY <1>1 DEF BeginShuffled, ShardWaits, Begin, Chains
  <2>2. Size \in Nat \ {0} /\ Size \in 1 .. IntMax \cup {SweepNodes}
    BY <2>1, SizeInRange
  <2>3. Size' = Size
    BY <2>1 DEF Size, vars
  <2>4. PICK order \in Orders[Size] : Begin(ShuffledChain(order, Size))
    BY <1>1 DEF BeginShuffled
  <2>5. /\ order \in [0 .. Size - 1 -> 0 .. Size - 1]
        /\ \A x \in 0 .. Size - 1 : \E i \in 0 .. Size - 1 : order[i] = x
        /\ \A i, j \in 0 .. Size - 1 : order[i] = order[j] => i = j
    BY <2>2, <2>4, WorkloadsAssumption
  <2>6. OneCycle(ShuffledChain(order, Size), Size)
    BY <2>2, <2>5, ShuffledIsOneCycle
  <2> QED
    BY <2>2, <2>3, <2>4, <2>6, WalkBegins
<1>2. CASE BeginStrided
  <2>1. /\ phase # "plan" /\ part < active /\ kind \in Chains
        /\ Begin(StridedChain(Size))
        /\ UNCHANGED <<vars, kind, part>>
    BY <1>2 DEF BeginStrided, ShardWaits, Begin, Chains
  <2>2. Size \in Nat \ {0}
    BY <2>1, SizeInRange
  <2>3. Size' = Size
    BY <2>1 DEF Size, vars
  <2> QED
    BY <2>1, <2>2, <2>3, StridedIsOneCycle, WalkBegins
<1>3. CASE Hop
  <2>1. /\ phase # "plan" /\ part < active /\ kind \in Chains
        /\ UNCHANGED <<vars, kind, part>>
    BY <1>3 DEF Hop, CallInv
  <2>2. Size \in Nat \ {0}
    BY <2>1, SizeInRange
  <2>3. Size' = Size
    BY <2>1 DEF Size, vars
  <2> QED
    BY <1>3, <2>2, <2>3, WalkGoesOn
<1>4. CASE \/ \E k \in Kinds, workers \in {1, threads} : Choose(k, workers)
           \/ BeginPlain \/ Compute \/ EndShard \/ Report \/ CountRefused
  <2>1. phase' = "loop" => kind' \notin Chains
    BY <1>4 DEF Choose, BeginPlain, Begin, Compute, EndShard, Report, CountRefused
  <2> QED
    BY <2>1 DEF WalkInv
<1>5. CASE Plan
  BY <1>5 DEF Plan, callVars, WalkInv
<1>6. CASE UNCHANGED allVars
  <2>1. UNCHANGED <<phase, kind, part, index, next, visits, iterations>>
    BY <1>6 DEF allVars, vars, callVars
  <2>2. UNCHANGED Size
    BY <2>1 DEF Size
  <2>3. \A c, d, laps : Walk(c, d, laps) => Walk(c, d, laps)'
    BY <2>1, <2>2 DEF Walk
  <2> QED
    BY <2>1, <2>2, <2>3 DEF WalkInv
<1> QED
  BY <1>1, <1>2, <1>3, <1>4, <1>5, <1>6 DEF Call, Ended

LEMMA CallInvariance == WorkloadsSpec => [](CallInv /\ WalkInv)
<1>1. CallInit => CallInv /\ WalkInv
  BY DEF CallInit, CallInv, WalkInv
<1>2. TypeOK /\ FairShares /\ CallInv /\ WalkInv /\ [Plan \/ Call]_allVars
        => CallInv' /\ WalkInv'
  BY CallStep, WalkStep
<1> QED
  BY <1>1, <1>2, CallsKeepThePlan, PTL DEF WorkloadsSpec, WorkloadsInit

\* The walks of pointer_chase, cache_latency and the cache size sweep use the
\* whole working set in every lap, whatever its size and however it is shuffled.
THEOREM WholeWorkingSet == WorkloadsSpec => []VisitsEverything
<1>1. WalkInv => VisitsEverything
  <2> SUFFICES ASSUME WalkInv, phase = "loop", kind \in Chains,
                      NEW i \in 0 .. Size - 1, NEW j \in 0 .. Size - 1
               PROVE  visits[i] <= visits[j] + 1
    BY DEF VisitsEverything
  <2>1. PICK c \in [0 .. Size - 1 -> 0 .. Size - 1], d \in 0 .. Size - 1,
             laps \in Nat : Walk(c, d, laps)
    BY DEF WalkInv
  <2>2. \A x \in 0 .. Size - 1 : visits[x] \in {laps, laps + 1}
    <3> SUFFICES ASSUME NEW x \in 0 .. Size - 1
                 PROVE  visits[x] \in {laps, laps + 1}
      OBVIOUS
    <3>1. PICK k \in 0 .. Size - 1 : c[k] = x
      BY <2>1 DEF Walk, Numbering
    <3> QED
      BY <2>1, <3>1 DEF Walk
  <2>3. visits[i] \in {laps, laps + 1} /\ visits[j] \in {laps, laps + 1}
    BY <2>2
  <2> QED
    BY <2>1, <2>3
<1> QED
  BY <1>1, CallInvariance, PTL

-----------------------------------------------------------------------------
(* The work.                                                               *)

\* The rows of the first b blocks.
Upto(b) == Lesser(b * Block, MatrixSize)

\* What the three loops of matrix_multiply have done after s turns of the inmost.
BlocksDone(s) ==
  LET i == s \div (Blocks * Blocks)
      j == (s \div Blocks) % Blocks
      k == s % Blocks
  IN  Upto(i) * MatrixSize * MatrixSize
        + Extent(i) * (Upto(j) * MatrixSize + Extent(j) * Upto(k))

\* The quotient, like the remainder, can be read off a decomposition.
LEMMA QuotientIs ==
  ASSUME NEW n \in Nat \ {0}, NEW q \in Nat, NEW r \in 0 .. n - 1,
         NEW a \in Nat, a = n * q + r
  PROVE  a \div n = q
<1>1. /\ a \div n \in Nat
      /\ a % n \in 0 .. n - 1
      /\ a = n * (a \div n) + (a % n)
  BY QuotientRemainder
<1> DEFINE p == a \div n
           t == a % n
<1>2. p \in Nat /\ t \in 0 .. n - 1 /\ n * q + r = n * p + t
  BY <1>1
<1> HIDE DEF p, t
<1>3. q = p
  BY <1>2, DivisionUnique
<1> QED
  BY <1>3 DEF p

\* A turn of the inmost of three loops is turn k of turn j of turn i.
IsTurn(s, n, i, j, k)    == s = (i * n + j) * n + k
HasDigits(s, n, i, j, k) == s \div (n * n) = i /\ (s \div n) % n = j /\ s % n = k

LEMMA Digits ==
  ASSUME NEW n \in Nat \ {0}, NEW i \in Nat, NEW j \in 0 .. n - 1,
         NEW k \in 0 .. n - 1, NEW s, IsTurn(s, n, i, j, k)
  PROVE  HasDigits(s, n, i, j, k)
<1> DEFINE t == i * n + j
<1>1. t \in Nat /\ t = n * i + j
  OBVIOUS
<1> HIDE DEF t
<1>2. s = t * n + k
  BY DEF t, IsTurn
<1>3. s \in Nat /\ s = n * t + k
  BY <1>1, <1>2
<1>4. s \div n = t /\ s % n = k
  BY <1>3, <1>1, QuotientIs, RemainderIs
<1>5. t % n = j
  BY <1>1, RemainderIs
<1>6. s \div (n * n) = i
  <2> DEFINE m == n * n
             r == n * j + k
  <2>1. m \in Nat \ {0}
    <3>1. 1 * 1 <= n * n
      BY ProductBound
    <3> QED
      BY <3>1
  <2>2. r \in 0 .. m - 1
    <3>1. n * j <= n * (n - 1)
      BY ProductBound
    <3>2. n * (n - 1) = n * n - n
      OBVIOUS
    <3>3. n * j \in Nat /\ n * n \in Nat
      OBVIOUS
    <3> QED
      BY <3>1, <3>2, <3>3
  <2>3. s = m * i + r
    <3>1. n * t = n * (n * i) + n * j
      BY <1>1
    <3>2. n * (n * i) = (n * n) * i
      OBVIOUS
    <3>3. n * j \in Nat /\ (n * n) * i \in Nat
      OBVIOUS
    <3> QED
      BY <1>3, <3>1, <3>2, <3>3
  <2> HIDE DEF m, r
  <2>4. s \div m = i
    BY <1>3, <2>1, <2>2, <2>3, QuotientIs
  <2> QED
    BY <2>4 DEF m
<1> QED
  BY <1>4, <1>5, <1>6 DEF HasDigits

\* Every turn is one of these.
LEMMA EveryTurn ==
  ASSUME NEW n \in Nat \ {0}, NEW s \in Nat
  PROVE  \E i \in Nat, j, k \in 0 .. n - 1 : IsTurn(s, n, i, j, k)
<1> DEFINE t == s \div n
           k == s % n
<1>1. t \in Nat /\ k \in 0 .. n - 1 /\ s = n * t + k
  BY QuotientRemainder
<1> HIDE DEF t, k
<1> DEFINE i == t \div n
           j == t % n
<1>2. i \in Nat /\ j \in 0 .. n - 1 /\ t = n * i + j
  BY <1>1, QuotientRemainder
<1> HIDE DEF i, j
<1>3. t = i * n + j /\ n * t = t * n
  BY <1>1, <1>2
<1>4. IsTurn(s, n, i, j, k)
  BY <1>1, <1>3 DEF IsTurn
<1> QED
  BY <1>1, <1>2, <1>4

\* The blocks cover the rows once.
LEMMA BlocksCover ==
  /\ Blocks \in Nat \ {0}
  /\ Upto(0) = 0
  /\ Upto(Blocks) = MatrixSize
  /\ \A b \in 0 .. Blocks : Upto(b) \in Nat
  /\ \A b \in 0 .. Blocks - 1 :
       Extent(b) \in Nat /\ Upto(b + 1) = Upto(b) + Extent(b)
  /\ \A b \in Nat : Extent(b) \in Int
<1>1. MatrixSize \in Nat \ {0} /\ Block \in Nat \ {0}
  BY WorkloadsAssumption
<1> DEFINE a == MatrixSize + Block - 1
           r == a % Block
<1>2. a \in Nat
  BY <1>1
<1>3. /\ Blocks \in Nat /\ r \in 0 .. Block - 1
      /\ a = Block * Blocks + r
  BY <1>1, <1>2, QuotientRemainder DEF Blocks
<1> HIDE DEF r
<1>4. Block * Blocks >= MatrixSize
  <2>1. Block * Blocks \in Nat
    BY <1>1, <1>3
  <2> QED
    BY <1>1, <1>3, <2>1
<1>5. Blocks # 0
  BY <1>1, <1>3, <1>4
<1>6. ASSUME NEW b \in 0 .. Blocks - 1
      PROVE  b * Block \in Nat /\ b * Block < MatrixSize
  <2>1. b * Block <= (Blocks - 1) * Block
    BY <1>1, <1>3, ProductBound
  <2>2. (Blocks - 1) * Block = Block * Blocks - Block
    BY <1>1, <1>3
  <2>3. b * Block \in Nat /\ Block * Blocks \in Nat
    BY <1>1, <1>3
  <2> QED
    BY <1>1, <1>3, <2>1, <2>2, <2>3
<1>7. \A b \in Nat : b * Block \in Nat /\ (b + 1) * Block = b * Block + Block
  BY <1>1
<1>8. Upto(0) = 0 /\ Upto(Blocks) = MatrixSize
  <2>1. Blocks * Block = Block * Blocks /\ Blocks * Block \in Nat /\ 0 * Block = 0
    BY <1>1, <1>3
  <2> QED
    BY <1>1, <1>4, <2>1 DEF Upto, Lesser
<1>9. \A b \in 0 .. Blocks : Upto(b) \in Nat
  BY <1>1, <1>3, <1>7 DEF Upto, Lesser
<1>10. ASSUME NEW b \in 0 .. Blocks - 1
       PROVE  Extent(b) \in Nat /\ Upto(b + 1) = Upto(b) + Extent(b)
  <2> DEFINE x == b * Block
             y == (b + 1) * Block
  <2>1. x \in Nat /\ y = x + Block /\ x < MatrixSize
    <3>1. b \in Nat
      BY <1>3
    <3> QED
      BY <1>6, <1>7, <3>1
  <2>2. Upto(b) = Lesser(x, MatrixSize) /\ Upto(b + 1) = Lesser(y, MatrixSize)
        /\ Extent(b) = Lesser(y, MatrixSize) - x
    BY DEF Upto, Extent
  <2> HIDE DEF x, y
  <2> QED
    BY <1>1, <2>1, <2>2 DEF Lesser
<1>11. \A b \in Nat : Extent(b) \in Int
  BY <1>1, <1>7 DEF Extent, Lesser
<1> QED
  BY <1>3, <1>5, <1>8, <1>9, <1>10, <1>11

\* Products of blocks add up to a product of rows.
LEMMA ThreeSums ==
  ASSUME NEW N \in Nat, NEW a \in Nat, NEW b \in Nat, NEW c \in Nat,
         NEW x \in Nat, NEW y \in Nat, NEW z \in Nat
  PROVE  /\ a * N * N + x * (b * N + y * (c + z)) =
              a * N * N + x * (b * N + y * c) + x * y * z
         /\ c + z = N =>
              a * N * N + x * (b * N + y * c) + x * y * z =
                a * N * N + x * ((b + y) * N)
         /\ b + y = N =>
              a * N * N + x * ((b + y) * N) = (a + x) * N * N
<1>1. y * (c + z) = y * c + y * z
  OBVIOUS
<1>2. x * (b * N + y * c + y * z) = x * (b * N + y * c) + x * (y * z)
  OBVIOUS
<1>3. x * y * z = x * (y * z)
  OBVIOUS
<1>4. (b + y) * N = b * N + y * N
  OBVIOUS
<1>5. (a + x) * N * N = a * N * N + x * (N * N)
  OBVIOUS
<1>6. x * (b * N + y * (c + z)) = x * (b * N + y * c) + x * y * z
  BY <1>1, <1>2, <1>3
<1>7. /\ a * N * N \in Nat /\ x * (b * N + y * c) \in Nat /\ x * y * z \in Nat
      /\ x * (b * N + y * (c + z)) \in Nat
  OBVIOUS
<1>8. a * N * N + x * (b * N + y * (c + z)) =
              a * N * N + x * (b * N + y * c) + x * y * z
  BY <1>6, <1>7
<1>9. ASSUME c + z = N
      PROVE  a * N * N + x * (b * N + y * c) + x * y * z =
                a * N * N + x * ((b + y) * N)
  <2>1. b * N + y * (c + z) = (b + y) * N
    BY <1>4, <1>9
  <2> QED
    BY <1>8, <2>1
<1>10. ASSUME b + y = N
       PROVE  a * N * N + x * ((b + y) * N) = (a + x) * N * N
  BY <1>5, <1>10
<1> QED
  BY <1>8, <1>9, <1>10

\* The part of the product that turn i, j, k completes, in terms of the digits.
LEMMA BlocksDoneAt ==
  ASSUME NEW i \in Nat, NEW j \in 0 .. Blocks - 1, NEW k \in 0 .. Blocks - 1,
         NEW s, IsTurn(s, Blocks, i, j, k)
  PROVE  BlocksDone(s) = Upto(i) * MatrixSize * MatrixSize
                           + Extent(i) * (Upto(j) * MatrixSize + Extent(j) * Upto(k))
<1>1. HasDigits(s, Blocks, i, j, k)
  BY BlocksCover, Digits
<1> QED
  BY <1>1 DEF BlocksDone, HasDigits

LEMMA BlocksBegin == BlocksDone(0) = 0
<1>1. Blocks \in Nat \ {0} /\ Upto(0) = 0 /\ Extent(0) \in Int
  BY BlocksCover
<1>2. IsTurn(0, Blocks, 0, 0, 0) /\ 0 \in 0 .. Blocks - 1
  BY <1>1 DEF IsTurn
<1>3. BlocksDone(0) = Upto(0) * MatrixSize * MatrixSize
                        + Extent(0) * (Upto(0) * MatrixSize + Extent(0) * Upto(0))
  BY <1>2, BlocksDoneAt
<1>4. MatrixSize \in Nat
  BY WorkloadsAssumption
<1>5. Extent(0) * (0 * MatrixSize + Extent(0) * 0) = 0 /\ 0 * MatrixSize * MatrixSize = 0
  BY <1>1, <1>4
<1> QED
  BY <1>1, <1>3, <1>5

LEMMA BlocksEnd ==
  BlocksDone(Blocks * Blocks * Blocks) = MatrixSize * MatrixSize * MatrixSize
<1> DEFINE n == Blocks
<1>1. n \in Nat \ {0} /\ Upto(n) = MatrixSize /\ Upto(0) = 0
      /\ Extent(0) \in Int /\ Extent(n) \in Int
  BY BlocksCover
<1>2. IsTurn(n * n * n, n, n, 0, 0) /\ 0 \in 0 .. n - 1
  BY <1>1 DEF IsTurn
<1>3. BlocksDone(n * n * n) = Upto(n) * MatrixSize * MatrixSize
                        + Extent(n) * (Upto(0) * MatrixSize + Extent(0) * Upto(0))
  BY <1>1, <1>2, BlocksDoneAt
<1>4. MatrixSize \in Nat
  BY WorkloadsAssumption
<1>5. /\ Extent(n) * (0 * MatrixSize + Extent(0) * 0) = 0
      /\ MatrixSize * MatrixSize * MatrixSize \in Nat
  BY <1>1, <1>4
<1> QED
  BY <1>1, <1>3, <1>5

\* The digits of the next turn.
LEMMA NextDigits ==
  ASSUME NEW n \in Nat \ {0}, NEW i \in Nat, NEW j \in 0 .. n - 1,
         NEW k \in 0 .. n - 1, NEW s, IsTurn(s, n, i, j, k)
  PROVE  /\ k < n - 1 => IsTurn(s + 1, n, i, j, k + 1)
         /\ k = n - 1 /\ j < n - 1 => IsTurn(s + 1, n, i, j + 1, 0)
         /\ k = n - 1 /\ j = n - 1 => IsTurn(s + 1, n, i + 1, 0, 0)
         /\ s < n * n * n => i < n
<1> DEFINE t == i * n + j
<1>1. t \in Nat
  OBVIOUS
<1>2. s = t * n + k /\ (t + 1) * n = t * n + n /\ t * n \in Nat
  BY <1>1 DEF IsTurn
<1>3. t + 1 = i * n + (j + 1)
  OBVIOUS
<1>4. j = n - 1 => t + 1 = (i + 1) * n + 0
  OBVIOUS
<1>5. ASSUME i >= n PROVE s >= n * n * n
  <2>1. n * n <= i * n /\ n * n \in Nat /\ i * n \in Nat
    BY <1>5, ProductBound
  <2>2. n * n <= t
    BY <2>1
  <2>3. (n * n) * n <= t * n /\ (n * n) * n \in Nat
    BY <1>1, <2>1, <2>2, ProductBound
  <2> HIDE DEF t
  <2> QED
    BY <1>2, <2>3
<1>6. s \in Nat /\ n * n * n \in Nat
  BY <1>2
<1>7. k = n - 1 => s + 1 = (t + 1) * n + 0
  <2> HIDE DEF t
  <2> QED
    BY <1>2
<1>8. k < n - 1 => s + 1 = t * n + (k + 1)
  <2> HIDE DEF t
  <2> QED
    BY <1>2
<1> QED
  BY <1>3, <1>4, <1>5, <1>6, <1>7, <1>8 DEF IsTurn

\* A turn of the inmost loop adds its block.
LEMMA BlocksStep ==
  ASSUME NEW s \in 0 .. Blocks * Blocks * Blocks - 1
  PROVE  LET block == Extent(s \div (Blocks * Blocks)) * Extent((s \div Blocks) % Blocks)
                        * Extent(s % Blocks)
         IN  block \in Nat /\ BlocksDone(s + 1) = BlocksDone(s) + block
<1> DEFINE n == Blocks
           M == MatrixSize
<1>1. n \in Nat \ {0} /\ M \in Nat
  BY BlocksCover, WorkloadsAssumption
<1>2. PICK i \in Nat, j \in 0 .. n - 1, k \in 0 .. n - 1 : IsTurn(s, n, i, j, k)
  <2>1. s \in Nat
    OBVIOUS
  <2> HIDE DEF n
  <2> QED
    BY <1>1, <2>1, EveryTurn
<1>3. s \div (n * n) = i /\ (s \div n) % n = j /\ s % n = k
  <2>1. HasDigits(s, n, i, j, k)
    BY <1>1, <1>2, Digits
  <2> QED
    BY <2>1 DEF HasDigits
<1> DEFINE a == Upto(i)  b == Upto(j)  c == Upto(k)
           x == Extent(i)  y == Extent(j)  z == Extent(k)
           block == x * y * z
<1>4. BlocksDone(s) = a * M * M + x * (b * M + y * c)
  BY <1>2, BlocksDoneAt
<1>5. /\ k < n - 1 => IsTurn(s + 1, n, i, j, k + 1)
      /\ k = n - 1 /\ j < n - 1 => IsTurn(s + 1, n, i, j + 1, 0)
      /\ k = n - 1 /\ j = n - 1 => IsTurn(s + 1, n, i + 1, 0, 0)
      /\ i < n
  <2>1. s < n * n * n
    <3>1. n * n * n \in Nat
      BY <1>1
    <3> QED
      BY <3>1
  <2> QED
    BY <1>1, <1>2, <2>1, NextDigits
<1>6. /\ a \in Nat /\ b \in Nat /\ c \in Nat
      /\ x \in Nat /\ y \in Nat /\ z \in Nat
      /\ Upto(i + 1) = a + x /\ Upto(j + 1) = b + y /\ Upto(k + 1) = c + z
      /\ Upto(0) = 0 /\ Upto(n) = M
      /\ Extent(0) \in Int /\ Extent(i + 1) \in Int
  <2>1. i \in 0 .. n - 1 /\ i \in 0 .. n /\ j \in 0 .. n /\ k \in 0 .. n
        /\ i + 1 \in Nat /\ 0 \in Nat
    BY <1>1, <1>5
  <2> QED
    BY <2>1, BlocksCover
<1>7. block \in Nat
  <2> HIDE DEF x, y, z
  <2> QED
    BY <1>6
<1>8. BlocksDone(s + 1) = BlocksDone(s) + block
  <2>0. /\ a * M * M + x * (b * M + y * (c + z)) =
              a * M * M + x * (b * M + y * c) + x * y * z
        /\ c + z = M =>
              a * M * M + x * (b * M + y * c) + x * y * z =
                a * M * M + x * ((b + y) * M)
        /\ b + y = M =>
              a * M * M + x * ((b + y) * M) = (a + x) * M * M
    <3> HIDE DEF a, b, c, x, y, z, M
    <3> QED
      BY <1>1, <1>6, ThreeSums
  <2>1. CASE k < n - 1
    <3>1. BlocksDone(s + 1) = a * M * M + x * (b * M + y * Upto(k + 1))
      <4>1. k + 1 \in 0 .. n - 1
        BY <1>1, <2>1
      <4> QED
        BY <1>5, <2>1, <4>1, BlocksDoneAt
    <3> HIDE DEF a, b, c, x, y, z, M
    <3> QED
      BY <1>4, <1>6, <2>0, <3>1
  <2>2. CASE k = n - 1 /\ j < n - 1
    <3>1. BlocksDone(s + 1) = a * M * M + x * (Upto(j + 1) * M + Extent(j + 1) * Upto(0))
      <4>1. j + 1 \in 0 .. n - 1 /\ 0 \in 0 .. n - 1
        BY <1>1, <2>2
      <4> QED
        BY <1>5, <2>2, <4>1, BlocksDoneAt
    <3>2. Extent(j + 1) \in Int /\ c + z = M
      <4>1. j + 1 \in Nat /\ k + 1 = n
        BY <1>1, <2>2
      <4> QED
        BY <1>6, <4>1, BlocksCover
    <3> DEFINE e == Extent(j + 1)
    <3>3. (b + y) * M + e * 0 = (b + y) * M
      <4> HIDE DEF b, y, e, M
      <4> QED
        BY <1>1, <1>6, <3>2 DEF e
    <3> HIDE DEF a, b, c, x, y, z, M, e
    <3> QED
      BY <1>4, <1>6, <2>0, <3>1, <3>2, <3>3 DEF e
  <2>3. CASE k = n - 1 /\ j = n - 1
    <3>1. BlocksDone(s + 1) =
            Upto(i + 1) * M * M + Extent(i + 1) * (Upto(0) * M + Extent(0) * Upto(0))
      <4>1. i + 1 \in Nat /\ 0 \in 0 .. n - 1
        BY <1>1, <1>2
      <4> QED
        BY <1>5, <2>3, <4>1, BlocksDoneAt
    <3>2. b + y = M /\ c + z = M
      <4>1. j + 1 = n /\ k + 1 = n
        BY <1>1, <2>3
      <4> QED
        BY <1>6, <4>1
    <3> DEFINE e == Extent(i + 1)
               f == Extent(0)
    <3>3. (a + x) * M * M + e * (0 * M + f * 0) = (a + x) * M * M
      <4>1. e \in Int /\ f \in Int
        BY <1>6
      <4> HIDE DEF a, x, e, f, M
      <4>2. e * (0 * M + f * 0) = 0 /\ (a + x) * M * M \in Int
        BY <1>1, <1>6, <4>1
      <4> QED
        BY <4>2
    <3> HIDE DEF a, b, c, x, y, z, M, e, f
    <3> QED
      BY <1>4, <1>6, <2>0, <3>1, <3>2, <3>3 DEF e, f
  <2> QED
    BY <1>1, <1>2, <2>1, <2>2, <2>3
<1> QED
  BY <1>3, <1>7, <1>8

\* The integer square root exists, and is positive for a shard that has work.
LEMMA RootExists ==
  ASSUME NEW n \in Nat \ {0}
  PROVE  Root(n) \in Nat \ {0}
<1> DEFINE T == {r \in Nat : n < (r + 1) * (r + 1)}
<1>1. n \in T
  <2>1. (n + 1) * (n + 1) = n * n + n + n + 1 /\ n * n \in Nat
    OBVIOUS
  <2> QED
    BY <2>1
<1>2. PICK r \in T : \A q \in T : r <= q
  <2>1. T \in SUBSET Nat /\ T # {}
    BY <1>1
  <2> HIDE DEF T
  <2> QED
    BY <2>1, LeastElement
<1>3. r \in Nat /\ r <= n /\ n < (r + 1) * (r + 1)
  BY <1>1, <1>2
<1>4. r * r <= n
  <2>1. CASE r = 0
    BY <2>1
  <2>2. CASE r # 0
    <3>1. r - 1 \in Nat /\ r - 1 \notin T
      BY <1>2, <1>3, <2>2
    <3>2. ~(n < ((r - 1) + 1) * ((r - 1) + 1))
      BY <3>1
    <3>3. (r - 1) + 1 = r /\ r * r \in Nat
      BY <1>3
    <3> QED
      BY <3>2, <3>3
  <2> QED
    BY <2>1, <2>2
<1>5. \E q \in 0 .. n : q * q <= n /\ n < (q + 1) * (q + 1)
  BY <1>3, <1>4
<1> DEFINE root == Root(n)
<1>6. root \in 0 .. n /\ n < (root + 1) * (root + 1)
  BY <1>5 DEF Root
<1> HIDE DEF root
<1>7. root # 0
  BY <1>6
<1> QED
  BY <1>6, <1>7 DEF root

\* What a shard with i iterations does.
WorkOf(i) ==
  CASE kind \in {"elements", "pointer_chase"} -> i
    [] kind = "integer"          -> i - 1
    [] kind = "kernel"           -> LoopsOf(i) * Lanes
    [] kind = "matrix_multiply"  -> MatrixSize * MatrixSize * MatrixSize
    [] kind = "n_body"           -> Root(i) * (Root(i) - 1) * Steps
    [] kind = "memory_bandwidth" -> i * PerIteration
    [] kind = "cache_latency"    -> i * Laps
    [] kind = "cache_size_sweep" -> SweepHops

\* What the first k shards do together.
DoneBy(k) == Spread(k, total % Count, WorkOf(Larger), WorkOf(Smaller))

\* What the shard has done that is in its loop.
SoFar ==
  CASE kind \in Chains \cup {"elements", "memory_bandwidth"} -> step
    [] kind = "integer"         -> step - 1
    [] kind = "kernel"          -> step * Lanes
    [] kind = "matrix_multiply" -> BlocksDone(step)
    [] kind = "n_body"          -> step * (Bodies(part) - 1)

WorkInv ==
  /\ kind \in Kinds
  /\ work \in Nat
  /\ phase \in {"plan", "next", "loop", "reported", "refused"}
  /\ phase = "plan" => work = 0
  /\ phase # "loop" => step = 0
  /\ phase # "plan" /\ kind # "cache_size_sweep" => active = Count
  /\ phase \in {"next", "reported", "refused"} => work = DoneBy(part)
  /\ phase = "reported" => part = active
  /\ phase = "loop" =>
       /\ step \in First .. Trips
       /\ SoFar \in Nat
       /\ work = DoneBy(part) + SoFar

\* The chain has a successor for every node and for nothing else, and no node has
\* been visited more often than the walk has made hops.
VisitsInv ==
  phase = "loop" /\ kind \in Chains =>
    /\ next = [i \in 0 .. Size - 1 |-> next[i]]
    /\ \A i \in 0 .. Size - 1 : visits[i] <= step

LEMMA SettingsTyped ==
  /\ {StrideAsked, Laps, Steps, MatrixSize, Block} \subseteq Nat \ {0}
  /\ SweepNodes \in Nat \ {0} /\ SweepHops \in Nat \ {0}
  /\ Lanes \in Nat \ {0} /\ PerIteration \in Nat \ {0} /\ IntMax \in Nat \ {0}
BY WorkloadsAssumption, ShardingAssumption

\* The shard whose turn it is has a part of the plan.
LEMMA PartOfThePlan ==
  ASSUME IInv, OperationsInv, CallInv, phase # "plan", part < active
  PROVE  /\ pc \in Planned
         /\ part \in Nat /\ part \in Shards
         /\ iterations[part] \in 1 .. IntMax
         /\ iterations[part] = IF part < total % Count THEN Larger ELSE Smaller
         /\ loops[part] = LoopsOf(iterations[part])
         /\ working[part] \in Nat
<1>1. pc \in Planned \ {"arithmetic"} /\ active \in 0 .. Count /\ part \in 0 .. active
  BY DEF CallInv, Planned
<1>2. TypeOK /\ total >= 1 /\ threads >= 1 /\ intensity >= 1
  BY <1>1 DEF IInv, PhaseInv
<1>3. Count \in Nat \ {0}
  BY <1>2, TwoNumbers
<1>4. part \in Nat /\ part \in Shards
  BY <1>1, <1>3 DEF Shards
<1>5. /\ iterations[part] \in 1 .. IntMax
      /\ iterations[part] = IF part < total % Count THEN Larger ELSE Smaller
  BY <1>1, <1>4, TwoShares
<1>6. loops[part] = LoopsOf(iterations[part])
  <2>1. part < Count
    BY <1>3, <1>4 DEF Shards
  <2> QED
    BY <1>1, <1>4, <2>1 DEF OperationsInv, OperationsUpTo
<1>7. working[part] \in Nat
  BY <1>2, <1>4 DEF TypeOK
<1> QED
  BY <1>1, <1>4, <1>5, <1>6, <1>7

LEMMA WorkOfTyped ==
  ASSUME kind \in Kinds, NEW i \in Nat \ {0}
  PROVE  WorkOf(i) \in Nat
<1>1. LoopsOf(i) \in Nat /\ Root(i) \in Nat \ {0}
  BY LoopsTyped, RootExists
<1> DEFINE loop == LoopsOf(i)
           root == Root(i)
<1>2. loop \in Nat /\ root \in Nat /\ root - 1 \in Nat
  BY <1>1
<1> HIDE DEF loop, root
<1>3. /\ loop * Lanes \in Nat /\ root * (root - 1) * Steps \in Nat
      /\ MatrixSize * MatrixSize * MatrixSize \in Nat
      /\ i * PerIteration \in Nat /\ i * Laps \in Nat /\ i - 1 \in Nat
      /\ SweepHops \in Nat
  <2>1. \A a, b \in Nat : a * b \in Nat
    OBVIOUS
  <2>2. root * (root - 1) \in Nat /\ MatrixSize * MatrixSize \in Nat
    BY <1>2, <2>1, SettingsTyped
  <2> QED
    BY <1>2, <2>1, <2>2, SettingsTyped
<1> QED
  BY <1>3 DEF WorkOf, Kinds, Chains, loop, root

\* What the shards do adds up.
LEMMA DoneByNext ==
  ASSUME IInv, OperationsInv, CallInv, kind \in Kinds, phase # "plan", part < active
  PROVE  DoneBy(part + 1) = DoneBy(part) + WorkOf(iterations[part])
<1>1. /\ pc \in Planned /\ part \in Nat
      /\ iterations[part] = IF part < total % Count THEN Larger ELSE Smaller
  BY PartOfThePlan
<1>2. TypeOK /\ total >= 1 /\ threads >= 1 /\ intensity >= 1
  BY <1>1 DEF IInv, PhaseInv
<1> DEFINE r == total % Count
           more == WorkOf(Larger)
           less == WorkOf(Smaller)
<1>3. r \in Nat /\ more \in Int /\ less \in Int
  <2>1. /\ Count \in Nat \ {0} /\ total % Count \in 0 .. Count - 1
        /\ Larger \in Nat \ {0} /\ Smaller \in Nat \ {0}
    BY <1>2, TwoNumbers
  <2>2. WorkOf(Larger) \in Nat /\ WorkOf(Smaller) \in Nat
    BY <2>1, WorkOfTyped
  <2> QED
    BY <2>1, <2>2
<1>4. WorkOf(iterations[part]) = IF part < r THEN more ELSE less
  BY <1>1
<1> HIDE DEF r, more, less
<1>5. Spread(part + 1, r, more, less) =
        Spread(part, r, more, less) + (IF part < r THEN more ELSE less)
  BY <1>1, <1>3, SpreadStep, ZenonT(60)
<1> QED
  BY <1>4, <1>5 DEF DoneBy, r, more, less

\* When the loop begins nothing is done, and when it ends all that belongs to the
\* shard is.
LEMMA LoopBegins ==
  kind \in Kinds /\ step = First /\ Bodies(part) \in Nat => SoFar = 0
<1> SUFFICES ASSUME kind \in Kinds, step = First, Bodies(part) \in Nat
             PROVE  SoFar = 0
  OBVIOUS
<1>1. \A b \in Nat : 0 * (b - 1) = 0
  OBVIOUS
<1>2. 0 * Lanes = 0
  BY SettingsTyped
<1> QED
  BY <1>1, <1>2, BlocksBegin DEF First, SoFar, Kinds, Chains

LEMMA LoopEnds ==
  ASSUME IInv, OperationsInv, CallInv, kind \in Kinds, phase = "loop", step = Trips
  PROVE  SoFar = WorkOf(iterations[part])
<1>1. /\ iterations[part] \in Nat \ {0}
      /\ loops[part] = LoopsOf(iterations[part])
  <2>1. /\ iterations[part] \in 1 .. IntMax
        /\ loops[part] = LoopsOf(iterations[part])
    BY PartOfThePlan DEF CallInv
  <2> QED
    BY <2>1, SettingsTyped
<1> DEFINE root == Root(iterations[part])
<1>2. root \in Nat /\ root - 1 \in Nat
  BY <1>1, RootExists
<1>3. Bodies(part) = root
  BY DEF Bodies
<1> HIDE DEF root
<1>4. Steps * root * (root - 1) = root * (root - 1) * Steps
  BY <1>2, SettingsTyped
<1>5. CASE kind = "n_body"
  BY <1>3, <1>4, <1>5 DEF SoFar, Trips, WorkOf, Chains, root
<1>6. CASE kind = "matrix_multiply"
  BY <1>6, BlocksEnd DEF SoFar, Trips, WorkOf, Chains
<1>7. CASE kind \in Kinds \ {"n_body", "matrix_multiply"}
  BY <1>1, <1>7 DEF SoFar, Trips, WorkOf, Kinds, Chains, Size
<1> QED
  BY <1>5, <1>6, <1>7

\* Trips and what a trip does are natural numbers, and a trip brings the work of
\* the shard forward by what it does.
LEMMA TripsTyped ==
  ASSUME IInv, OperationsInv, CallInv, kind \in Kinds, phase # "plan", part < active
  PROVE  /\ Trips \in Nat
         /\ First <= Trips
         /\ Bodies(part) \in Nat \ {0}
<1>1. /\ iterations[part] \in Nat \ {0}
      /\ loops[part] = LoopsOf(iterations[part])
  <2>1. /\ iterations[part] \in 1 .. IntMax
        /\ loops[part] = LoopsOf(iterations[part])
    BY PartOfThePlan
  <2> QED
    BY <2>1, SettingsTyped
<1>2. loops[part] \in Nat /\ Bodies(part) \in Nat \ {0}
  BY <1>1, LoopsTyped, RootExists DEF Bodies
<1>3. Size \in Nat
  BY <1>1, SettingsTyped DEF Size
<1> DEFINE i == iterations[part]
           b == Bodies(part)
<1>4. /\ Blocks * Blocks * Blocks \in Nat /\ Steps * b \in Nat
      /\ i * PerIteration \in Nat /\ Size * Laps \in Nat
  <2>1. \A x, y \in Nat : x * y \in Nat
    OBVIOUS
  <2>2. Blocks \in Nat /\ Blocks * Blocks \in Nat
    BY <2>1, BlocksCover
  <2> HIDE DEF i, b
  <2> QED
    BY <1>1, <1>2, <1>3, <2>1, <2>2, SettingsTyped DEF i, b
<1>5. Trips \in Nat
  BY <1>1, <1>2, <1>3, <1>4, SettingsTyped DEF Trips, Kinds, Chains
<1>6. kind = "integer" => Trips = i
  BY DEF Trips
<1>7. First <= Trips
  BY <1>1, <1>5, <1>6 DEF First
<1> QED
  BY <1>2, <1>5, <1>7

LEMMA RemoveOne ==
  ASSUME NEW n \in Nat \ {0}, NEW x \in 0 .. n - 1
  PROVE  Cardinality(0 .. n - 1 \ {x}) = n - 1
<1>1. IsFiniteSet(0 .. n - 1) /\ Cardinality(0 .. n - 1) = n
  BY FS_Interval
<1> DEFINE S == 0 .. n - 1
<1>2. IsFiniteSet(S) /\ x \in S
  BY <1>1
<1> HIDE DEF S
<1>3. Cardinality(S \ {x}) = Cardinality(S) - 1
  BY <1>2, FS_RemoveElement
<1> QED
  BY <1>1, <1>3 DEF S

LEMMA ComputeAdds ==
  ASSUME IInv, OperationsInv, CallInv, WorkInv, Compute
  PROVE  /\ Trip \in Nat
         /\ SoFar' = SoFar + Trip
         /\ step' \in First .. Trips
<1>1. /\ phase = "loop" /\ kind \in Kinds \ Chains /\ step < Trips
      /\ step \in First .. Trips
      /\ step' = step + (IF kind = "memory_bandwidth" THEN Trip ELSE 1)
      /\ UNCHANGED <<vars, kind, part>>
  BY DEF Compute, WorkInv
<1>2. /\ Trips \in Nat /\ First \in Nat /\ Bodies(part) \in Nat \ {0}
      /\ working[part] \in Nat
  <2>1. phase # "plan" /\ part < active
    BY <1>1 DEF CallInv
  <2> QED
    BY <1>1, <2>1, TripsTyped, PartOfThePlan DEF First
<1>3. step \in Nat /\ step + 1 \in First .. Trips
  BY <1>1, <1>2
<1>4. kind' = kind /\ Bodies(part)' = Bodies(part)
  BY <1>1 DEF Bodies, vars
<1>5. CASE kind \in {"elements", "integer"}
  BY <1>1, <1>3, <1>4, <1>5 DEF Trip, SoFar, Chains
<1>6. CASE kind = "kernel"
  <2>1. (step + 1) * Lanes = step * Lanes + Lanes
    BY <1>3, SettingsTyped
  <2> QED
    BY <1>1, <1>3, <1>4, <1>6, <2>1, SettingsTyped DEF Trip, SoFar, Chains
<1>7. CASE kind = "matrix_multiply"
  <2>1. Trips = Blocks * Blocks * Blocks
    BY <1>7 DEF Trips, Chains
  <2>2. step \in 0 .. Blocks * Blocks * Blocks - 1
    BY <1>1, <1>2, <1>3, <2>1
  <2>3. Trip = Extent(step \div (Blocks * Blocks)) * Extent((step \div Blocks) % Blocks)
                 * Extent(step % Blocks)
    BY <1>7 DEF Trip
  <2>4. Trip \in Nat /\ BlocksDone(step + 1) = BlocksDone(step) + Trip
    BY <2>2, <2>3, BlocksStep
  <2>5. SoFar = BlocksDone(step) /\ SoFar' = BlocksDone(step')
    BY <1>4, <1>7 DEF SoFar, Chains
  <2>6. step' = step + 1
    BY <1>1, <1>7
  <2> QED
    BY <1>3, <2>4, <2>5, <2>6
<1>8. CASE kind = "n_body"
  <2> DEFINE b == Bodies(part)
  <2>1. step % b \in 0 .. b - 1
    BY <1>2, <1>3, QuotientRemainder
  <2>2. Trip = b - 1
    <3>1. Trip = Cardinality(0 .. b - 1 \ {step % b})
      BY <1>8 DEF Trip
    <3> HIDE DEF b
    <3> QED
      BY <1>2, <2>1, <3>1, RemoveOne DEF b
  <2>3. SoFar = step * (b - 1) /\ SoFar' = (step + 1) * (b - 1)
    BY <1>1, <1>4, <1>8 DEF SoFar, Chains
  <2>4. (step + 1) * (b - 1) = step * (b - 1) + (b - 1)
    <3> HIDE DEF b
    <3> QED
      BY <1>2, <1>3 DEF b
  <2>5. b - 1 \in Nat
    BY <1>2
  <2> QED
    BY <1>1, <1>3, <1>8, <2>2, <2>3, <2>4, <2>5
<1>9. CASE kind = "memory_bandwidth"
  <2>1. Trip = Lesser(Trips - step, working[part])
    BY <1>9 DEF Trip
  <2>2. Trip \in Nat /\ step + Trip \in First .. Trips
    BY <1>1, <1>2, <1>3, <2>1 DEF Lesser
  <2> QED
    BY <1>1, <1>4, <1>9, <2>2 DEF SoFar, Chains
<1> QED
  BY <1>1, <1>5, <1>6, <1>7, <1>8, <1>9 DEF Kinds

\* The larger and the smaller shares together are the whole.
IsShared(t, n, q, r) == t = n * q + r

AddsUp(t, n, q, r, m, factor, less) ==
  Spread(n, r, ((q + 1) * m) * factor - less, (q * m) * factor - less) =
    (t * m) * factor - n * less

LEMMA SharesTogether ==
  ASSUME NEW n \in Nat \ {0}, NEW q \in Nat, NEW r \in 0 .. n - 1, NEW m \in Nat,
         NEW t \in Nat, IsShared(t, n, q, r), NEW factor \in Nat, NEW less \in Nat
  PROVE  AddsUp(t, n, q, r, m, factor, less)
<1> DEFINE more == ((q + 1) * m) * factor
           some == (q * m) * factor
           all  == m * factor
<1>1. more = q * all + all /\ some = q * all /\ all \in Nat /\ q * all \in Nat
  OBVIOUS
<1>2. Spread(n, r, more - less, some - less) =
        r * (more - less) + (n - r) * (some - less)
  BY DEF Spread, Lesser
<1>3. r * (more - less) + (n - r) * (some - less)
        = r * (q * all) + r * all + (n - r) * (q * all) - n * less
  <2> HIDE DEF more, some, all
  <2>1. r * (q * all + all - less) = r * (q * all) + r * all - r * less
    BY <1>1
  <2>2. (n - r) * (q * all - less) = (n - r) * (q * all) - (n - r) * less
    BY <1>1
  <2>3. r * less + (n - r) * less = n * less
    OBVIOUS
  <2>4. /\ r * less \in Int /\ (n - r) * less \in Int /\ n * less \in Int
        /\ r * (q * all) \in Int /\ r * all \in Int /\ (n - r) * (q * all) \in Int
    BY <1>1
  <2> QED
    BY <1>1, <2>1, <2>2, <2>3, <2>4
<1>4. r * (q * all) + (n - r) * (q * all) = (n * q) * all
  <2> HIDE DEF more, some, all
  <2> QED
    BY <1>1
<1>5. (n * q) * all + r * all = t * all
  <2>1. t = n * q + r
    BY DEF IsShared
  <2> HIDE DEF more, some, all
  <2> QED
    BY <1>1, <2>1
<1>6. t * all = (t * m) * factor
  BY DEF IsShared
<1>7. /\ r * (q * all) \in Int /\ r * all \in Int /\ (n - r) * (q * all) \in Int
      /\ (n * q) * all \in Int
  <2> HIDE DEF more, some, all
  <2> QED
    BY <1>1
<1> HIDE DEF more, some, all
<1>8. r * (q * all) + r * all + (n - r) * (q * all) = t * all
  BY <1>4, <1>5, <1>7
<1>9. r * (more - less) + (n - r) * (some - less) = t * all - n * less
  BY <1>1, <1>3, <1>7, <1>8
<1>10. Spread(n, r, more - less, some - less) = (t * m) * factor - n * less
  BY <1>2, <1>6, <1>9
<1> QED
  BY <1>10 DEF AddsUp, more, some

LEMMA SameForAll ==
  ASSUME NEW k \in Nat, NEW r \in Nat, NEW w \in Int
  PROVE  Spread(k, r, w, w) = k * w
<1>1. \A a, b \in Int : a * w + b * w = (a + b) * w
  OBVIOUS
<1>2. Lesser(k, r) \in Int /\ Lesser(k, r) + (k - Lesser(k, r)) = k
  BY DEF Lesser
<1> QED
  BY <1>1, <1>2 DEF Spread

\* The loop of n_body over the shards counts what they will do.
LEMMA InteractionsAddUp ==
  ASSUME IInv, pc \in Planned, kind = "n_body"
  PROVE  Interactions = DoneBy(Count)
<1>1. TypeOK /\ total >= 1 /\ threads >= 1 /\ intensity >= 1
  BY DEF IInv, PhaseInv
<1>2. /\ Count \in Nat \ {0} /\ total % Count \in 0 .. Count - 1
      /\ Larger \in Nat \ {0} /\ Smaller \in Nat \ {0}
  BY <1>1, TwoNumbers
<1> DEFINE term(s) == Bodies(s) * (Bodies(s) - 1) * Steps
           r == total % Count
           more == WorkOf(Larger)
           less == WorkOf(Smaller)
<1>3. r \in Nat /\ more \in Int /\ less \in Int
  <2>1. WorkOf(Larger) \in Nat /\ WorkOf(Smaller) \in Nat
    BY <1>2, WorkOfTyped DEF Kinds
  <2> QED
    BY <1>2, <2>1
<1>4. \A s \in 0 .. Count - 1 : term(s) = IF s < r THEN more ELSE less
  <2> SUFFICES ASSUME NEW s \in 0 .. Count - 1
               PROVE  term(s) = IF s < r THEN more ELSE less
    OBVIOUS
  <2>1. iterations[s] = IF s < r THEN Larger ELSE Smaller
    BY TwoShares DEF Shards
  <2>2. \A n : WorkOf(n) = Root(n) * (Root(n) - 1) * Steps
    BY DEF WorkOf
  <2>3. term(s) = WorkOf(iterations[s])
    BY <2>2 DEF Bodies
  <2> QED
    BY <2>1, <2>3
<1> DEFINE sum == [s \in 0 .. Count |-> Spread(s, r, more, less)]
           turn(f) == [s \in 0 .. Count |-> IF s = 0 THEN 0 ELSE f[s - 1] + term(s - 1)]
           upTo == CHOOSE f : f = turn(f)
<1>5. Interactions = upTo[Count]
  BY DEF Interactions
<1>6. \A s \in 0 .. Count :
        sum[s] = IF s = 0 THEN 0 ELSE sum[s - 1] + term(s - 1)
  <2> SUFFICES ASSUME NEW s \in 0 .. Count
               PROVE  sum[s] = IF s = 0 THEN 0 ELSE sum[s - 1] + term(s - 1)
    OBVIOUS
  <2> HIDE DEF term, r, more, less
  <2>1. CASE s = 0
    BY <1>3, <2>1, SpreadStep
  <2>2. CASE s # 0
    <3> DEFINE k == s - 1
    <3>1. k \in Nat /\ k \in 0 .. Count - 1 /\ k \in 0 .. Count /\ s = k + 1
      BY <1>2, <2>2
    <3> HIDE DEF k
    <3>2. Spread(k + 1, r, more, less) =
            Spread(k, r, more, less) + (IF k < r THEN more ELSE less)
      BY <1>3, <3>1, SpreadStep
    <3>3. term(k) = IF k < r THEN more ELSE less
      BY <1>4, <3>1
    <3>4. sum[s] = sum[k] + term(k)
      BY <3>1, <3>2, <3>3
    <3> QED
      BY <2>2, <3>4 DEF k
  <2> QED
    BY <2>1, <2>2
<1>7. sum = turn(sum)
  <2> HIDE DEF term, r, more, less
  <2> QED
    BY <1>6
<1>8. upTo = turn(upTo)
  <2> HIDE DEF turn, sum
  <2> QED
    BY <1>7
<1>9. \A k \in 0 .. Count : upTo[k] = sum[k]
  <2> DEFINE Wrong == {k \in 0 .. Count : upTo[k] # sum[k]}
  <2> SUFFICES ASSUME Wrong # {} PROVE FALSE
    OBVIOUS
  <2>1. PICK k \in Wrong : \A j \in Wrong : k <= j
    <3>1. Wrong \in SUBSET Nat
      BY <1>2
    <3> HIDE DEF Wrong
    <3> QED
      BY <3>1, LeastElement
  <2>2. k \in 0 .. Count /\ upTo[k] # sum[k]
    BY <2>1
  <2>3. upTo[k] = IF k = 0 THEN 0 ELSE upTo[k - 1] + term(k - 1)
    <3> HIDE DEF term, upTo
    <3> QED
      BY <1>8, <2>2
  <2>4. sum[k] = IF k = 0 THEN 0 ELSE sum[k - 1] + term(k - 1)
    <3> HIDE DEF term, sum
    <3> QED
      BY <1>6, <2>2
  <2>5. k # 0 /\ k - 1 \in 0 .. Count /\ k - 1 \notin Wrong
    <3> HIDE DEF term, sum, upTo
    <3>1. k # 0
      BY <2>2, <2>3, <2>4
    <3>2. k - 1 \in 0 .. Count /\ ~(k <= k - 1)
      BY <1>2, <2>2, <3>1
    <3>3. k - 1 \notin Wrong
      <4> HIDE DEF Wrong
      <4> QED
        BY <2>1, <3>2
    <3> QED
      BY <3>1, <3>2, <3>3
  <2>6. upTo[k - 1] = sum[k - 1]
    <3> HIDE DEF term, sum, upTo
    <3> QED
      BY <2>5
  <2> HIDE DEF term, sum, upTo, Wrong
  <2> QED
    BY <2>2, <2>3, <2>4, <2>5, <2>6
<1>10. Interactions = sum[Count]
  <2> HIDE DEF upTo, sum
  <2> QED
    BY <1>2, <1>5, <1>9
<1> QED
  <2> HIDE DEF more, less
  <2> QED
    BY <1>2, <1>10 DEF DoneBy, more, less

LEMMA ReportedIsDone ==
  ASSUME IInv, OperationsInv, CallInv, WorkInv, phase # "plan"
  PROVE  DoneBy(active) = Reported
<1>1. /\ kind \in Kinds /\ pc \in Planned \ {"arithmetic"}
      /\ kind # "cache_size_sweep" => active = Count
      /\ active \in 0 .. Count
  BY DEF WorkInv, CallInv, Planned
<1>2. TypeOK /\ total >= 1 /\ threads >= 1 /\ intensity >= 1
  BY <1>1 DEF IInv, PhaseInv
<1> DEFINE q == total \div Count
           r == total % Count
<1>3. /\ Count \in Nat \ {0}
      /\ q \in Nat /\ r \in 0 .. Count - 1
      /\ total \in Nat /\ total = Count * q + r
      /\ intensity \in Nat
      /\ Larger = (q + 1) * intensity /\ Smaller = q * intensity
      /\ Larger \in Nat /\ Smaller \in Nat
      /\ Effective = total * intensity /\ Effective \in Nat
  <2>1. total \in Nat
    BY <1>2, ShardingAssumption DEF TypeOK
  <2> QED
    BY <1>2, <2>1, TwoNumbers DEF Larger, Smaller, Effective
<1> HIDE DEF q
<1>4. ASSUME NEW factor \in Nat, NEW less \in Nat
      PROVE  Spread(Count, r, Larger * factor - less, Smaller * factor - less) =
               Effective * factor - Count * less
  <2>1. Spread(Count, r, ((q + 1) * intensity) * factor - less,
                         (q * intensity) * factor - less) =
          (total * intensity) * factor - Count * less
    <3>1. Count \in Nat \ {0} /\ q \in Nat /\ r \in 0 .. Count - 1
          /\ intensity \in Nat /\ total \in Nat /\ IsShared(total, Count, q, r)
      BY <1>3 DEF IsShared
    <3>2. AddsUp(total, Count, q, r, intensity, factor, less)
      <4> HIDE DEF r
      <4> QED
        BY <3>1, SharesTogether
    <3> QED
      BY <3>2 DEF AddsUp
  <2> QED
    BY <1>3, <2>1
<1> HIDE DEF r
<1>5. DoneBy(active) = Spread(active, r, WorkOf(Larger), WorkOf(Smaller))
  BY DEF DoneBy, r
<1>6. CASE kind \in {"elements", "pointer_chase"}
  <2>1. WorkOf(Larger) = Larger * 1 - 0 /\ WorkOf(Smaller) = Smaller * 1 - 0
    BY <1>3, <1>6 DEF WorkOf
  <2>2. DoneBy(active) = Effective * 1 - Count * 0
    BY <1>1, <1>4, <1>5, <1>6, <2>1
  <2> QED
    BY <1>3, <1>6, <2>2 DEF Reported
<1>7. CASE kind = "integer"
  <2>1. WorkOf(Larger) = Larger * 1 - 1 /\ WorkOf(Smaller) = Smaller * 1 - 1
    BY <1>3, <1>7 DEF WorkOf
  <2>2. DoneBy(active) = Effective * 1 - Count * 1
    BY <1>1, <1>4, <1>5, <1>7, <2>1
  <2> QED
    BY <1>3, <1>7, <2>2 DEF Reported
<1>8. CASE kind \in {"cache_latency", "memory_bandwidth"}
  <2> DEFINE factor == IF kind = "cache_latency" THEN Laps ELSE PerIteration
  <2>1. factor \in Nat
    BY SettingsTyped
  <2>2. WorkOf(Larger) = Larger * factor - 0 /\ WorkOf(Smaller) = Smaller * factor - 0
    <3>1. WorkOf(Larger) = Larger * factor /\ WorkOf(Smaller) = Smaller * factor
      BY <1>8 DEF WorkOf
    <3>2. Larger * factor \in Nat /\ Smaller * factor \in Nat
      BY <1>3, <2>1
    <3> QED
      BY <3>1, <3>2
  <2>3. Reported = Effective * factor
    BY <1>8 DEF Reported, Requested
  <2> HIDE DEF factor
  <2>4. DoneBy(active) = Effective * factor - Count * 0
    BY <1>1, <1>4, <1>5, <1>8, <2>1, <2>2
  <2>5. Effective * factor \in Nat /\ Count * 0 = 0
    BY <1>3, <2>1
  <2> QED
    BY <2>3, <2>4, <2>5
<1>9. CASE kind = "kernel"
  <2>1. operations =
          Spread(Count, r, LoopsOf(Larger) * Lanes, LoopsOf(Smaller) * Lanes)
    BY <1>1 DEF OperationsInv, OperationsUpTo, r
  <2> QED
    BY <1>1, <1>5, <1>9, <2>1 DEF WorkOf, Reported
<1>10. CASE kind \in {"matrix_multiply", "cache_size_sweep"}
  <2> DEFINE w == IF kind = "matrix_multiply"
                    THEN MatrixSize * MatrixSize * MatrixSize ELSE SweepHops
  <2>1. w \in Int
    BY SettingsTyped
  <2>2. WorkOf(Larger) = w /\ WorkOf(Smaller) = w
    BY <1>10 DEF WorkOf
  <2>3. active \in Nat /\ r \in Nat
    BY <1>1, <1>3
  <2> HIDE DEF w
  <2>4. DoneBy(active) = active * w
    BY <1>5, <2>1, <2>2, <2>3, SameForAll
  <2>5. CASE kind = "cache_size_sweep"
    BY <2>4, <2>5 DEF Reported, w
  <2>6. CASE kind = "matrix_multiply"
    <3>1. Count * (MatrixSize * MatrixSize * MatrixSize) =
            Count * MatrixSize * MatrixSize * MatrixSize
      BY <1>3, SettingsTyped
    <3> QED
      BY <1>1, <2>4, <2>6, <3>1 DEF Reported, w
  <2> QED
    BY <1>10, <2>5, <2>6
<1>11. CASE kind = "n_body"
  BY <1>1, <1>11, InteractionsAddUp DEF Reported
<1> QED
  BY <1>1, <1>6, <1>7, <1>8, <1>9, <1>10, <1>11 DEF Kinds, Chains

\* Steps that leave the plan, the benchmark and the shard alone leave its loop.
LEMMA SameLoop ==
  ASSUME UNCHANGED <<vars, kind, part>>
  PROVE  /\ Trips' = Trips /\ First' = First /\ Size' = Size
         /\ Bodies(part)' = Bodies(part)
         /\ \A k : DoneBy(k)' = DoneBy(k)
<1>1. UNCHANGED <<total, threads, intensity, iterations, loops, kind, part>>
  BY DEF vars, settings
<1>2. Size' = Size /\ Bodies(part)' = Bodies(part) /\ First' = First
  BY <1>1 DEF Size, Bodies, First
<1>3. Trips' = Trips
  BY <1>1, <1>2 DEF Trips
<1>4. UNCHANGED <<Count, Larger, Smaller>>
  BY <1>1 DEF Count, Larger, Smaller
<1>5. \A i : WorkOf(i)' = WorkOf(i)
  BY <1>1 DEF WorkOf
<1>6. ASSUME NEW k PROVE DoneBy(k)' = DoneBy(k)
  BY <1>1, <1>4, <1>5 DEF DoneBy
<1> QED
  BY <1>2, <1>3, <1>6

LEMMA DoneByTyped ==
  ASSUME IInv, pc \in Planned, kind \in Kinds, NEW k \in Nat
  PROVE  DoneBy(0) = 0 /\ DoneBy(k) \in Int
<1>1. TypeOK /\ total >= 1 /\ threads >= 1 /\ intensity >= 1
  BY DEF IInv, PhaseInv
<1>2. /\ Count \in Nat \ {0} /\ total % Count \in 0 .. Count - 1
      /\ Larger \in Nat \ {0} /\ Smaller \in Nat \ {0}
  BY <1>1, TwoNumbers
<1> DEFINE r == total % Count
           more == WorkOf(Larger)
           less == WorkOf(Smaller)
<1>3. r \in Nat /\ more \in Int /\ less \in Int
  <2>1. WorkOf(Larger) \in Nat /\ WorkOf(Smaller) \in Nat
    BY <1>2, WorkOfTyped
  <2> QED
    BY <1>2, <2>1
<1> HIDE DEF r, more, less
<1>4. Spread(0, r, more, less) = 0 /\ Spread(k, r, more, less) \in Int
  BY <1>3, SpreadStep
<1> QED
  BY <1>4 DEF DoneBy, r, more, less

LEMMA NothingDoneByNone ==
  IInv /\ pc \in Planned /\ kind \in Kinds => DoneBy(0) = 0
BY DoneByTyped

\* Each step of a call does what the count of its work says.
LEMMA WorkStep ==
  ASSUME IInv, OperationsInv, CallInv, WorkInv, [Plan \/ Call]_allVars
  PROVE  WorkInv'
<1>1. CASE \E k \in Kinds, workers \in {1, threads} : Choose(k, workers)
  <2>1. PICK k \in Kinds, workers \in {1, threads} : Choose(k, workers)
    BY <1>1
  <2>2. /\ phase = "plan" /\ phase' = "next" /\ kind' \in Kinds
        /\ kind' # "cache_size_sweep" => active' = Count
        /\ UNCHANGED <<vars, part, step, work>>
    BY <2>1 DEF Choose
  <2>3. part' = 0 /\ step' = 0 /\ work' = 0 /\ pc' \in Planned /\ IInv'
    <3>1. part = 0 /\ work = 0 /\ step = 0
      BY <2>2 DEF CallInv, WorkInv
    <3>2. pc \in Planned
      BY <2>1 DEF Choose, Planned
    <3>3. IInv'
      BY <2>2, StepInv DEF vars
    <3> QED
      BY <2>2, <3>1, <3>2, <3>3 DEF vars
  <2>4. Count' = Count
    BY <2>2 DEF vars, settings, Count
  <2>5. DoneBy(0)' = 0
    <3>1. (IInv /\ pc \in Planned /\ kind \in Kinds => DoneBy(0) = 0)'
      BY NothingDoneByNone, PTL
    <3> QED
      BY <2>2, <2>3, <3>1
  <2> QED
    BY <2>2, <2>3, <2>4, <2>5 DEF WorkInv
<1>2. CASE BeginShuffled \/ BeginStrided \/ BeginPlain
  <2>1. /\ phase = "next" /\ part < active
        /\ phase' = "loop" /\ step' = First
        /\ UNCHANGED <<vars, kind, active, part, work>>
    BY <1>2 DEF BeginShuffled, BeginStrided, BeginPlain, ShardWaits, Begin
  <2>2. /\ kind \in Kinds /\ work = DoneBy(part) /\ work \in Nat
        /\ kind # "cache_size_sweep" => active = Count
    BY <2>1 DEF WorkInv
  <2>3. /\ Trips \in Nat /\ First <= Trips /\ Bodies(part) \in Nat
    BY <2>1, <2>2, TripsTyped
  <2>4. /\ Trips' = Trips /\ First' = First /\ Bodies(part)' = Bodies(part)
        /\ DoneBy(part)' = DoneBy(part)
        /\ Count' = Count
    <3>1. \A k : DoneBy(k)' = DoneBy(k)
      BY <2>1, SameLoop
    <3>2. DoneBy(part)' = DoneBy(part)
      BY <2>1, <3>1
    <3>3. Count' = Count
      BY <2>1 DEF vars, settings, Count
    <3> QED
      BY <2>1, <3>2, <3>3, SameLoop
  <2>5. SoFar' = 0
    <3>1. (kind \in Kinds /\ step = First /\ Bodies(part) \in Nat => SoFar = 0)'
      BY LoopBegins, PTL
    <3> QED
      BY <2>1, <2>2, <2>3, <2>4, <3>1
  <2>6. step' \in First' .. Trips'
    BY <2>1, <2>3, <2>4 DEF First
  <2> QED
    BY <2>1, <2>2, <2>4, <2>5, <2>6 DEF WorkInv
<1>3. CASE Hop \/ Compute
  <2>1. /\ phase = "loop" /\ phase' = "loop"
        /\ UNCHANGED <<vars, kind, active, part>>
        /\ part < active
    BY <1>3 DEF Hop, Compute, CallInv
  <2>2. /\ kind \in Kinds /\ work = DoneBy(part) + SoFar /\ work \in Nat
        /\ SoFar \in Nat
        /\ step \in First .. Trips
        /\ kind # "cache_size_sweep" => active = Count
    BY <2>1 DEF WorkInv
  <2>3. /\ Trips' = Trips /\ First' = First
        /\ DoneBy(part)' = DoneBy(part)
        /\ Count' = Count
    <3>1. \A k : DoneBy(k)' = DoneBy(k)
      BY <2>1, SameLoop
    <3>2. Count' = Count
      BY <2>1 DEF vars, settings, Count
    <3> QED
      BY <2>1, <3>1, <3>2, SameLoop
  <2>4. Trips \in Nat /\ First \in Nat /\ DoneBy(part) \in Int
    <3>1. part \in Nat /\ pc \in Planned
      BY <2>1, PartOfThePlan
    <3> QED
      BY <2>1, <2>2, <3>1, TripsTyped, DoneByTyped DEF First
  <2>5. PICK trip \in Nat :
          work' = work + trip /\ SoFar' = SoFar + trip /\ step' \in First .. Trips
    <3>1. CASE Hop
      <4>1. kind \in Chains /\ work' = work + 1 /\ step' = step + 1 /\ step < Trips
        BY <3>1 DEF Hop
      <4>2. SoFar = step /\ SoFar' = step'
        BY <2>1, <4>1 DEF SoFar, Chains
      <4>3. step' \in First .. Trips
        BY <2>2, <2>4, <4>1
      <4> QED
        BY <4>1, <4>2, <4>3
    <3>2. CASE Compute
      BY <3>2, ComputeAdds DEF Compute
    <3> QED
      BY <1>3, <3>1, <3>2
  <2>6. work' = DoneBy(part)' + SoFar' /\ work' \in Nat /\ SoFar' \in Nat
    BY <2>2, <2>3, <2>4, <2>5
  <2> QED
    BY <2>1, <2>2, <2>3, <2>5, <2>6 DEF WorkInv
<1>4. CASE EndShard
  <2>1. /\ phase = "loop" /\ step = Trips
        /\ phase' = "next" /\ part' = part + 1 /\ step' = 0
        /\ UNCHANGED <<vars, kind, active, work>>
        /\ part < active
    BY <1>4 DEF EndShard, CallInv
  <2>2. /\ kind \in Kinds /\ work = DoneBy(part) + SoFar /\ work \in Nat
        /\ kind # "cache_size_sweep" => active = Count
    BY <2>1 DEF WorkInv
  <2>3. work = DoneBy(part + 1)
    BY <2>1, <2>2, LoopEnds, DoneByNext
  <2>4. /\ Count' = Count
        /\ \A k : DoneBy(k)' = DoneBy(k)
    <3>1. UNCHANGED <<Count, Larger, Smaller, total, kind>>
      BY <2>1 DEF vars, settings, Count, Larger, Smaller
    <3>2. \A i : WorkOf(i)' = WorkOf(i)
      BY <2>1 DEF WorkOf
    <3> QED
      BY <3>1, <3>2 DEF DoneBy
  <2>5. work' = DoneBy(part)'
    BY <2>1, <2>3, <2>4
  <2> QED
    BY <2>1, <2>2, <2>4, <2>5 DEF WorkInv
<1>5. CASE Report \/ CountRefused \/ UNCHANGED allVars
  <2>1. /\ UNCHANGED <<vars, kind, active, part, step, work>>
        /\ \/ phase = "next" /\ part = active /\ phase' = "reported"
           \/ phase = "next" /\ phase' = "refused"
           \/ phase' = phase
    BY <1>5 DEF Report, CountRefused, allVars, callVars
  <2>2. /\ Trips' = Trips /\ First' = First /\ Bodies(part)' = Bodies(part)
        /\ DoneBy(part)' = DoneBy(part)
        /\ Count' = Count
    <3>1. \A k : DoneBy(k)' = DoneBy(k)
      BY <2>1, SameLoop
    <3>2. Count' = Count
      BY <2>1 DEF vars, settings, Count
    <3> QED
      BY <2>1, <3>1, <3>2, SameLoop
  <2>3. SoFar' = SoFar
    BY <2>1, <2>2 DEF SoFar
  <2> QED
    BY <2>1, <2>2, <2>3 DEF WorkInv
<1>6. CASE Plan
  <2>1. phase = "plan" /\ UNCHANGED <<phase, kind, step, work>>
    BY <1>6 DEF Plan, callVars
  <2> QED
    BY <2>1 DEF WorkInv
<1> QED
  BY <1>1, <1>2, <1>3, <1>4, <1>5, <1>6 DEF Call, Ended

LEMMA VisitsStep ==
  ASSUME IInv, OperationsInv, CallInv, WalkInv, WorkInv, VisitsInv,
         [Plan \/ Call]_allVars
  PROVE  VisitsInv'
<1>1. CASE BeginShuffled \/ BeginStrided \/ BeginPlain
  <2> SUFFICES ASSUME kind' \in Chains
               PROVE  VisitsInv'
    BY DEF VisitsInv
  <2>1. PICK chain : Begin(chain) /\ DOMAIN chain = 0 .. Size - 1
                     /\ chain = [i \in DOMAIN chain |-> chain[i]]
    <3>1. CASE BeginShuffled
      BY <3>1 DEF BeginShuffled, ShuffledChain
    <3>2. CASE BeginStrided
      BY <3>2 DEF BeginStrided, StridedChain
    <3>3. ~BeginPlain
      BY DEF BeginPlain, Begin
    <3> QED
      BY <1>1, <3>1, <3>2, <3>3
  <2>2. /\ next' = chain /\ visits' = [i \in DOMAIN chain |-> 0]
        /\ step' = First /\ Size' = Size
    BY <2>1, SameLoop DEF Begin
  <2> QED
    BY <2>1, <2>2 DEF VisitsInv, First
<1>2. CASE Hop
  <2>1. /\ phase = "loop" /\ kind \in Chains /\ Size' = Size /\ step' = step + 1
        /\ visits' = [visits EXCEPT ![next[index]] = @ + 1] /\ next' = next
    BY <1>2, SameLoop DEF Hop
  <2>2. visits \in [0 .. Size - 1 -> Nat]
    BY <2>1 DEF WalkInv, Walk
  <2>3. /\ next = [i \in 0 .. Size - 1 |-> next[i]]
        /\ \A i \in 0 .. Size - 1 : visits[i] <= step
    BY <2>1 DEF VisitsInv
  <2>4. step \in Int
    BY <2>1 DEF WorkInv
  <2>5. \A i \in 0 .. Size - 1 : visits'[i] <= step + 1
    <3> SUFFICES ASSUME NEW i \in 0 .. Size - 1 PROVE visits'[i] <= step + 1
      OBVIOUS
    <3>1. visits[i] \in Nat /\ visits[i] <= step
      BY <2>2, <2>3
    <3>2. visits'[i] = IF i = next[index] THEN visits[i] + 1 ELSE visits[i]
      BY <2>1, <2>2
    <3> QED
      BY <2>4, <3>1, <3>2
  <2> QED
    BY <2>1, <2>3, <2>5 DEF VisitsInv
<1>3. CASE \/ \E k \in Kinds, workers \in {1, threads} : Choose(k, workers)
           \/ Compute \/ EndShard \/ Report \/ CountRefused
  <2>1. phase' = "loop" => kind' \notin Chains
    BY <1>3 DEF Choose, Compute, EndShard, Report, CountRefused
  <2> QED
    BY <2>1 DEF VisitsInv
<1>4. CASE Plan
  BY <1>4 DEF Plan, callVars, VisitsInv
<1>5. CASE UNCHANGED allVars
  <2>1. UNCHANGED <<vars, phase, kind, part, step, next, visits>>
    BY <1>5 DEF allVars, callVars
  <2>2. Size' = Size
    BY <2>1, SameLoop
  <2> QED
    BY <2>1, <2>2 DEF VisitsInv
<1> QED
  BY <1>1, <1>2, <1>3, <1>4, <1>5 DEF Call, Ended

LEMMA WorkInvariance ==
  WorkloadsSpec => [](IInv /\ OperationsInv /\ CallInv /\ WalkInv /\ WorkInv /\ VisitsInv)
<1>1. CallInit => WorkInv /\ VisitsInv
  BY DEF CallInit, WorkInv, VisitsInv, Kinds
<1>2. IInv /\ OperationsInv /\ CallInv /\ WalkInv /\ WorkInv /\ VisitsInv
          /\ [Plan \/ Call]_allVars
        => WorkInv' /\ VisitsInv'
  BY WorkStep, VisitsStep
<1> QED
  BY <1>1, <1>2, CallsLeaveThePlan, Invariance, OperationsExact, CallInvariance, PTL
     DEF WorkloadsSpec, WorkloadsInit

\* Of every benchmark, on any number of shards, all the work is done that its rate
\* is computed from, and no more, whatever is left over by the lanes, the blocks,
\* the passes and the division among the shards.
THEOREM WorkReported == WorkloadsSpec => []WorkDoneIsReported
<1>1. IInv /\ OperationsInv /\ CallInv /\ WorkInv => WorkDoneIsReported
  <2> SUFFICES ASSUME IInv, OperationsInv, CallInv, WorkInv, phase = "reported"
               PROVE  work = Reported
    BY DEF WorkDoneIsReported
  <2>1. work = DoneBy(part) /\ part = active
    BY DEF WorkInv
  <2> QED
    BY <2>1, ReportedIsDone
<1> QED
  BY <1>1, WorkInvariance, PTL

\* The variables of a call keep their types. No walk leaves its chain.
THEOREM WorkTypesCorrect == WorkloadsSpec => []WorkloadsTypeOK
<1>1. IInv /\ OperationsInv /\ CallInv /\ WalkInv /\ WorkInv /\ VisitsInv
        => WorkloadsTypeOK
  <2> SUFFICES ASSUME IInv, OperationsInv, CallInv, WalkInv, WorkInv, VisitsInv
               PROVE  WorkloadsTypeOK
    OBVIOUS
  <2>1. Count \in Nat
    BY ShardingAssumption DEF IInv, TypeOK, Count, Lesser
  <2>2. active \in 0 .. Count /\ part \in 0 .. active
    BY <2>1 DEF CallInv
  <2>3. step \in Nat
    BY DEF WorkInv, First
  <2>4. phase = "loop" => part < active /\ step \in First .. Trips
    BY DEF CallInv, WorkInv
  <2>5. ASSUME phase = "loop", kind \in Chains
        PROVE  /\ index \in 0 .. Size - 1
               /\ next \in [0 .. Size - 1 -> 0 .. Size - 1]
               /\ visits \in [0 .. Size - 1 -> 0 .. Trips]
    <3>1. PICK c \in [0 .. Size - 1 -> 0 .. Size - 1], d \in 0 .. Size - 1, laps \in Nat :
            Walk(c, d, laps)
      BY <2>5 DEF WalkInv
    <3>2. Trips \in Nat /\ Size \in Nat
      <4>1. iterations[part] \in 1 .. IntMax
        BY <2>4, <2>5, PartOfThePlan
      <4>2. Size \in Nat
        BY <4>1, SettingsTyped DEF Size
      <4> QED
        BY <2>4, <2>5, <4>2, TripsTyped DEF WorkInv
    <3>3. visits \in [0 .. Size - 1 -> 0 .. Trips]
      <4>1. visits \in [0 .. Size - 1 -> Nat]
        BY <3>1 DEF Walk
      <4>2. \A i \in 0 .. Size - 1 : visits[i] <= step
        BY <2>5 DEF VisitsInv
      <4>3. step <= Trips
        BY <2>3, <2>4, <2>5, <3>2
      <4>4. ASSUME NEW i \in 0 .. Size - 1 PROVE visits[i] \in 0 .. Trips
        <5>1. visits[i] \in Nat /\ visits[i] <= step
          BY <4>1, <4>2
        <5> QED
          BY <2>3, <3>2, <4>3, <5>1
      <4> QED
        BY <4>1, <4>4
    <3>4. next \in [0 .. Size - 1 -> 0 .. Size - 1]
      <4>1. ASSUME NEW x \in 0 .. Size - 1 PROVE next[x] \in 0 .. Size - 1
        <5>1. PICK k \in 0 .. Size - 1 : c[k] = x
          BY <3>1 DEF Walk, Numbering
        <5>2. next[x] = IF k < Size - 1 THEN c[k + 1] ELSE 0
          BY <3>1, <5>1 DEF Walk
        <5> QED
          BY <3>1, <3>2, <5>1, <5>2
      <4>2. next = [x \in 0 .. Size - 1 |-> next[x]]
        BY <2>5 DEF VisitsInv
      <4> QED
        BY <4>1, <4>2
    <3> QED
      BY <3>1, <3>3, <3>4 DEF Walk
  <2> QED
    BY <2>2, <2>3, <2>4, <2>5 DEF WorkloadsTypeOK, WorkInv
<1> QED
  BY <1>1, WorkInvariance, PTL

=============================================================================

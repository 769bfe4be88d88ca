--------------------------- MODULE DivisionLemmas ---------------------------
(***************************************************************************)
(* Facts about integer division by an arbitrary positive number, for the   *)
(* loops of the program that step by the number of threads and for the     *)
(* work it distributes by quotient and remainder; and the least element of *)
(* a set of numbers, which takes the place of induction.                   *)
(***************************************************************************)
EXTENDS Integers, WellFoundedInduction, TLAPS

\* Quotient and remainder, as size_t's / and % compute them.
LEMMA QuotientRemainder ==
  ASSUME NEW a \in Nat, NEW n \in Nat \ {0}
  PROVE  /\ a \div n \in Nat
         /\ a % n \in 0 .. n - 1
         /\ a = n * (a \div n) + (a % n)
  OBVIOUS

\* A positive multiple of n is at least n.
LEMMA MultipleAtLeast ==
  ASSUME NEW p \in Int, NEW n \in Nat \ {0}, p >= 1
  PROVE  n * p >= n
  OBVIOUS

\* Quotient and remainder are determined by the number they stand for.
LEMMA DivisionUnique ==
  ASSUME NEW n \in Nat \ {0}, NEW p \in Nat, NEW q \in Nat,
         NEW r \in 0 .. n - 1, NEW t \in 0 .. n - 1,
         n * p + r = n * q + t
  PROVE  p = q /\ r = t
<1>1. n * (p - q) = t - r
  OBVIOUS
<1>2. n * (q - p) = r - t
  OBVIOUS
<1>3. ~(p - q >= 1)
  BY <1>1, MultipleAtLeast
<1>4. ~(q - p >= 1)
  BY <1>2, MultipleAtLeast
<1>5. p = q
  BY <1>3, <1>4
<1> QED
  BY <1>1, <1>5

\* A number below n is its own remainder.
LEMMA RemainderOfSmall ==
  ASSUME NEW n \in Nat \ {0}, NEW a \in 0 .. n - 1
  PROVE  a % n = a
  OBVIOUS

\* The remainder can be read off a decomposition.
LEMMA RemainderIs ==
  ASSUME NEW n \in Nat \ {0}, NEW q \in Nat, NEW r \in 0 .. n - 1,
         NEW a \in Nat, a = n * q + r
  PROVE  a % n = r
<1>1. /\ a \div n \in Nat
      /\ a % n \in 0 .. n - 1
      /\ a = n * (a \div n) + (a % n)
  BY QuotientRemainder
<1>2. n * (a \div n) + (a % n) = n * q + r
  BY <1>1
<1>3. \A p \in Nat, t \in 0 .. n - 1 : n * p + t = n * q + r => t = r
  BY DivisionUnique
<1> QED
  BY <1>1, <1>2, <1>3

\* Adding n does not change the remainder.
LEMMA RemainderOfStep ==
  ASSUME NEW n \in Nat \ {0}, NEW a \in Nat
  PROVE  (a + n) % n = a % n
<1>1. \A p \in Nat, r \in 0 .. n - 1 :
        a = n * p + r => (a + n) % n = r
  <2> SUFFICES ASSUME NEW p \in Nat, NEW r \in 0 .. n - 1, a = n * p + r
               PROVE  (a + n) % n = r
    OBVIOUS
  <2>1. a + n \in Nat /\ p + 1 \in Nat /\ a + n = n * (p + 1) + r
    OBVIOUS
  <2> QED
    BY <2>1, RemainderIs
<1>2. /\ a \div n \in Nat
      /\ a % n \in 0 .. n - 1
      /\ a = n * (a \div n) + (a % n)
  BY QuotientRemainder
<1> QED
  BY <1>1, <1>2

\* Two numbers with the same remainder are at least n apart.
LEMMA SameRemainderGap ==
  ASSUME NEW n \in Nat \ {0}, NEW a \in Nat, NEW b \in Nat
  PROVE  a % n = b % n /\ a < b => a + n <= b
<1>1. \A p, q, r \in Nat : a = n * p + r /\ b = n * q + r /\ a < b
        => a + n <= b
  <2> SUFFICES ASSUME NEW p \in Nat, NEW q \in Nat, NEW r \in Nat,
                      a = n * p + r, b = n * q + r, a < b
               PROVE  a + n <= b
    OBVIOUS
  <2>1. b - a = n * (q - p) /\ a - b = n * (p - q)
    OBVIOUS
  <2>2. ~(p - q >= 1)
    BY <2>1, MultipleAtLeast
  <2>3. p # q
    BY <2>1
  <2>4. q - p >= 1
    BY <2>2, <2>3
  <2> QED
    BY <2>1, <2>4, MultipleAtLeast
<1>2. a \div n \in Nat /\ a % n \in Nat /\ a = n * (a \div n) + (a % n)
  BY QuotientRemainder
<1>3. b \div n \in Nat /\ b = n * (b \div n) + (b % n)
  BY QuotientRemainder
<1> QED
  BY <1>1, <1>2, <1>3

\* A set of natural numbers that is not empty has a least element.
LEMMA LeastElement ==
  ASSUME NEW T \in SUBSET Nat, T # {}
  PROVE  \E x \in T : \A y \in T : x <= y
<1>1. IsWellFoundedOn(OpToRel(<, Nat), Nat)
  BY NatLessThanWellFounded
<1>2. PICK x \in T : \A y \in T : ~ (<<y, x>> \in OpToRel(<, Nat))
  BY <1>1, WFMin
<1>3. \A y \in T : ~ (y < x)
  BY <1>2 DEF OpToRel
<1> QED
  BY <1>3

=============================================================================

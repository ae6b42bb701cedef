-------------------------- MODULE ModularArithmetic --------------------------
(***************************************************************************)
(* Facts about the remainder that the index arithmetic of the ring buffers *)
(* rests on, for every size d.                                             *)
(***************************************************************************)
EXTENDS Integers, TLAPS

\* A number is its quotient and its remainder.
LEMMA DivMod ==
  ASSUME NEW d \in Nat \ {0}, NEW i \in Nat
  PROVE  i = d * (i \div d) + (i % d) /\ (i \div d) \in Nat /\ (i % d) \in 0..d-1
OBVIOUS

\* A number inside the ring is its own remainder.
LEMMA SmallMod ==
  ASSUME NEW d \in Nat \ {0}, NEW i \in 0..d-1
  PROVE  i % d = i
OBVIOUS

\* The size of the ring falls back to 0.
LEMMA SelfMod ==
  ASSUME NEW d \in Nat \ {0}
  PROVE  d % d = 0
OBVIOUS

\* A remainder is no larger than its number.
LEMMA ModAtMost ==
  ASSUME NEW d \in Nat \ {0}, NEW i \in Nat
  PROVE  i % d <= i
<1>1. CASE i < d
  BY <1>1, SmallMod
<1>2. CASE i >= d
  BY <1>2, DivMod
<1> QED BY <1>1, <1>2

\* Quotient and remainder are unique.
LEMMA DivModUnique ==
  ASSUME NEW d \in Nat \ {0}, NEW q1 \in Nat, NEW q2 \in Nat,
         NEW r1 \in 0..d-1, NEW r2 \in 0..d-1, d * q1 + r1 = d * q2 + r2
  PROVE  r1 = r2
<1>1. ASSUME NEW a \in Nat, NEW b \in Nat, NEW x \in 0..d-1, NEW y \in 0..d-1,
             a < b, d * a + x = d * b + y
      PROVE  FALSE
  <2>1. PICK k \in Nat : b = a + 1 + k
    <3>1. b - a - 1 \in Nat /\ b = a + 1 + (b - a - 1)
      BY <1>1
    <3> QED BY <3>1
  <2>2. d * b = d * a + d + d * k /\ d * k \in Nat /\ d * a \in Nat
    BY <2>1
  <2>3. x = d + d * k + y
    BY <1>1, <2>2
  <2> QED BY <2>2, <2>3
<1> QED BY <1>1

\* One step on the ring: the remainder goes up by one, or back to 0.
LEMMA StepMod ==
  ASSUME NEW d \in Nat \ {0}, NEW i \in Nat
  PROVE  (i + 1) % d = IF (i % d) + 1 = d THEN 0 ELSE (i % d) + 1
<1> DEFINE q == i \div d
           r == i % d
           p == (i + 1) \div d
           s == (i + 1) % d
<1>1. i = d * q + r /\ q \in Nat /\ r \in 0..d-1
  BY DivMod
<1>2. i + 1 = d * p + s /\ p \in Nat /\ s \in 0..d-1
  <2>1. i + 1 \in Nat
    OBVIOUS
  <2> QED BY <2>1, DivMod
<1> HIDE DEF q, r, p, s
<1>3. CASE r + 1 = d
  <2>1. d * (q + 1) = d * q + d
    BY <1>1
  <2>2. d * (q + 1) + 0 = d * p + s
    BY <1>1, <1>2, <1>3, <2>1
  <2>3. q + 1 \in Nat /\ 0 \in 0..d-1
    BY <1>1
  <2>4. s = 0
    BY <1>2, <2>2, <2>3, DivModUnique
  <2> QED BY <1>3, <2>4 DEF r, s
<1>4. CASE r + 1 # d
  <2>1. d * q + (r + 1) = d * p + s
    BY <1>1, <1>2
  <2>2. r + 1 \in 0..d-1
    BY <1>1, <1>4
  <2>3. s = r + 1
    BY <1>1, <1>2, <2>1, <2>2, DivModUnique
  <2> QED BY <1>4, <2>3 DEF r, s
<1> QED BY <1>3, <1>4

\* Two numbers in one slot of the ring are at least d apart.
LEMMA SameSlotFarApart ==
  ASSUME NEW d \in Nat \ {0}, NEW i \in Nat, NEW j \in Nat,
         i % d = j % d, i < j
  PROVE  j - i >= d
<1> DEFINE r == i % d
           a == i \div d
           b == j \div d
<1>1. i = d * a + r /\ a \in Nat /\ r \in 0..d-1
  BY DivMod
<1>2. j = d * b + r /\ b \in Nat
  BY DivMod
<1> HIDE DEF a, b, r
<1>3. a < b
  BY <1>1, <1>2
<1> QED BY <1>1, <1>2, <1>3

=============================================================================

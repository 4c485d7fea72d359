----------------------------- MODULE NatLemmas -----------------------------
(***************************************************************************)
(* Facts about numbers that the proofs of several components use.          *)
(***************************************************************************)
EXTENDS Integers, TLAPS, NaturalsInduction, WellFoundedInduction

\* A nonempty set of natural numbers has a least member.
LEMMA NatMin ==
  ASSUME NEW T, T \subseteq Nat, T # {}
  PROVE  \E x \in T : \A y \in T : x <= y
<1> DEFINE R == OpToRel(<, Nat)
<1>1. IsWellFoundedOn(R, Nat)
  BY NatLessThanWellFounded
<1>2. \A x, y \in Nat : x < y => <<x, y>> \in R
  BY DEF OpToRel
<1> HIDE DEF R
<1>3. \E x \in T : \A y \in T : ~(<<y, x>> \in R)
  BY <1>1, WFMin
<1>4. PICK x \in T : \A y \in T : ~(<<y, x>> \in R)
  BY <1>3
<1>5. \A y \in T : ~(y < x)
  BY <1>2, <1>4
<1> QED
  BY <1>5

\* What holds of 0 and of the successor of each number it holds of holds of all.
LEMMA NatInduct ==
  ASSUME NEW S, 0 \in S, \A n \in Nat : n \in S => n + 1 \in S
  PROVE  \A n \in Nat : n \in S
<1> SUFFICES ASSUME {n \in Nat : n \notin S} # {}
             PROVE  FALSE
  OBVIOUS
<1>1. PICK m \in {n \in Nat : n \notin S} : \A k \in {n \in Nat : n \notin S} : m <= k
  BY NatMin
<1>2. m # 0 /\ m - 1 \in Nat /\ m - 1 \in S
  BY <1>1
<1> QED
  BY <1>1, <1>2

\* The remainder of a number just below zero
LEMMA ModNegative ==
  ASSUME NEW W \in Nat, W > 0, NEW v \in Int, -W <= v, v < 0
  PROVE  v % W = v + W
OBVIOUS

\* Quotient and remainder are the only numbers with their sum.
LEMMA DivisionIsUnique ==
  ASSUME NEW H \in Nat, H > 0, NEW q \in Int, NEW r \in 0..H - 1
  PROVE  (H * q + r) % H = r
<1> DEFINE n == H * q + r
           d == n \div H
           m == n % H
<1>1. n \in Int
  OBVIOUS
<1> HIDE DEF n
<1>2. d \in Int /\ m \in 0..H - 1 /\ n = H * d + m
  BY <1>1
<1> HIDE DEF d, m
<1>3. H * (d - q) = r - m
  BY <1>2 DEF n
<1>4. ~(d - q >= 1)
  BY <1>2, <1>3
<1>5. ~(q - d >= 1)
  BY <1>2, <1>3
<1> QED
  BY <1>2, <1>3, <1>4, <1>5 DEF m, n

\* The same remainder for numbers that differ by a multiple
LEMMA SameRemainder ==
  ASSUME NEW H \in Nat, H > 0, NEW k \in Int, NEW n \in Int
  PROVE  (H * k + n) % H = n % H
<1> DEFINE d == n \div H
           m == n % H
<1>1. d \in Int /\ m \in 0..H - 1 /\ n = H * d + m
  OBVIOUS
<1> HIDE DEF d, m
<1>2. k + d \in Int
  BY <1>1
<1>3. (H * (k + d) + m) % H = m
  BY <1>1, <1>2, DivisionIsUnique
<1>4. H * (k + d) + m = H * k + n
  BY <1>1
<1> QED
  BY <1>3, <1>4 DEF m

\* A number smaller than the divisor
LEMMA SmallRemainder ==
  ASSUME NEW H \in Nat, H > 0, NEW n \in 0..H - 1
  PROVE  n % H = n
OBVIOUS
=============================================================================

---------------------------- MODULE NumberLemmas ----------------------------
(***************************************************************************)
(* What the proofs use of arithmetic: the least-number principle, where    *)
(* the code looks for the first order, page or entry of some kind, and     *)
(* products and remainders, where it cuts memory into blocks and goes      *)
(* round a ring.                                                           *)
(***************************************************************************)
EXTENDS Integers, WellFoundedInduction, TLAPS

\* Every non-empty set of naturals has a least element.
LEMMA LeastNatural ==
  ASSUME NEW T \in SUBSET Nat, T # {}
  PROVE  \E x \in T : \A y \in T : x <= y
<1> DEFINE R == {p \in Nat \X Nat : p[1] < p[2]}
<1>1. IsWellFoundedOn(R, Nat)
  <2>1. OpToRel(<, Nat) = R
    BY DEF OpToRel
  <2> QED BY <2>1, NatLessThanWellFounded
<1>2. PICK x \in T : \A y \in T : ~ (<<y, x>> \in R)
  BY <1>1, WFMin
<1>3. ASSUME NEW y \in T PROVE x <= y
  <2>1. x \in Nat /\ y \in Nat
    OBVIOUS
  <2>2. ~ (<<y, x>> \in R)
    BY <1>2
  <2>3. <<y, x>> \in Nat \X Nat
    BY <2>1
  <2>4. ~ (y < x)
    BY <2>2, <2>3 DEF R
  <2> QED BY <2>1, <2>4
<1> QED BY <1>3

\* A product grows with its factor.
LEMMA Larger ==
  ASSUME NEW p \in Int, NEW q \in Int, NEW n \in Nat, p <= q
  PROVE  p * n <= q * n
<1>1. (q - p) \in Nat
  OBVIOUS
<1>2. (q - p) * n \in Nat
  BY <1>1
<1>3. (q - p) * n = q * n - p * n
  OBVIOUS
<1>4. p * n \in Int /\ q * n \in Int
  OBVIOUS
<1> QED BY <1>2, <1>3, <1>4

\* The larger product has the larger factor.
LEMMA Smaller ==
  ASSUME NEW p \in Int, NEW q \in Int, NEW n \in Nat, p * n < q * n
  PROVE  p < q
<1> SUFFICES ASSUME q <= p PROVE FALSE
  OBVIOUS
<1>1. q * n <= p * n
  BY Larger
<1>2. p * n \in Int /\ q * n \in Int
  OBVIOUS
<1> QED BY <1>1, <1>2

\* A multiple of n, and which one it is.
LEMMA Quotient ==
  ASSUME NEW a \in Nat, NEW n \in Nat \ {0}, a % n = 0
  PROVE  a \div n \in Nat /\ a = (a \div n) * n
  OBVIOUS

\* Division has one outcome.
LEMMA RemainderIs ==
  ASSUME NEW x \in Nat, NEW n \in Nat \ {0}, NEW q \in Int, NEW r \in Nat, r < n,
         x = q * n + r
  PROVE  x % n = r /\ x \div n = q
<1> DEFINE d == x \div n
           s == x % n
<1>1. d \in Int /\ s \in Nat /\ s < n /\ x = d * n + s
  OBVIOUS
<1> HIDE DEF d, s
<1>2. /\ d * n \in Int /\ q * n \in Int
      /\ (d + 1) * n = d * n + n /\ (q + 1) * n = q * n + n
  BY <1>1
<1>3. d < q + 1
  <2>1. d * n < (q + 1) * n
    BY <1>1, <1>2
  <2> QED BY <1>1, <2>1, Smaller
<1>4. q < d + 1
  <2>1. q * n < (d + 1) * n
    BY <1>1, <1>2
  <2> QED BY <1>1, <2>1, Smaller
<1>5. d = q
  BY <1>1, <1>3, <1>4
<1>6. s = r
  BY <1>1, <1>2, <1>5
<1> QED BY <1>5, <1>6 DEF d, s

\* The remainder of a multiple, and its quotient.
LEMMA MultipleIs ==
  ASSUME NEW q \in Nat, NEW n \in Nat \ {0}
  PROVE  (q * n) % n = 0 /\ (q * n) \div n = q /\ q * n \in Nat
<1>1. q * n \in Nat
  OBVIOUS
<1> QED BY <1>1, RemainderIs

\* Division with remainder.
LEMMA Divided ==
  ASSUME NEW x \in Nat, NEW n \in Nat \ {0}
  PROVE  x \div n \in Nat /\ x % n \in Nat /\ x % n < n /\ x = (x \div n) * n + (x % n)
<1>1. x \div n \in Int /\ x % n \in Nat /\ x % n < n /\ x = (x \div n) * n + (x % n)
  OBVIOUS
<1>2. x \div n \in Nat
  OBVIOUS
<1> QED BY <1>1, <1>2
=============================================================================

------------------------------ MODULE NatFacts ------------------------------
(***************************************************************************)
(* Facts about natural numbers that the proofs of several modules use.     *)
(***************************************************************************)
EXTENDS Integers, TLAPS, WellFoundedInduction

(* A nonempty set of natural numbers has a least element. *)
LEMMA LeastNat ==
    ASSUME NEW S \in SUBSET Nat, S # {}
    PROVE  \E m \in S : \A n \in S : m <= n
<1> DEFINE R == {ss \in Nat \X Nat : ss[1] < ss[2]}
<1>1. IsWellFoundedOn(R, Nat)
  BY NatLessThanWellFounded, Zenon DEF OpToRel
<1>2. PICK m \in S : \A n \in S : ~ (<<n, m>> \in R)
  <2> HIDE DEF R
  <2> QED BY <1>1, WFMin
<1>3. \A n \in S : m <= n
  <2> SUFFICES ASSUME NEW n \in S, n < m PROVE FALSE
    OBVIOUS
  <2>1. <<n, m>> \in R
    OBVIOUS
  <2> QED BY <2>1, <1>2
<1> QED BY <1>3

(* What holds of a, and of the next wherever it holds, holds up to b. *)
LEMMA Upwards ==
    ASSUME NEW a \in Nat, NEW b \in Nat, NEW S, a \in S,
           \A l \in a .. b - 1 : l \in S => l + 1 \in S
    PROVE  \A l \in a .. b : l \in S
<1> DEFINE T == {l \in a .. b : l \notin S}
<1> SUFFICES ASSUME T # {} PROVE FALSE
  OBVIOUS
<1>1. PICK m \in T : \A n \in T : m <= n
  <2>1. T \in SUBSET Nat
    OBVIOUS
  <2> QED BY <2>1, LeastNat
<1>2. m # a /\ m \in a .. b
  OBVIOUS
<1>3. m - 1 \in a .. b - 1 /\ m - 1 \notin T
  BY <1>1, <1>2
<1> QED BY <1>2, <1>3

(* Integer division brackets the number divided. *)
LEMMA DivBounds ==
    ASSUME NEW x \in Nat, NEW p \in Nat \ {0}
    PROVE  x \div p \in Nat /\ (x \div p) * p <= x /\ x < (x \div p) * p + p
BY SMT

LEMMA MultMono ==
    ASSUME NEW q \in Nat, NEW r \in Nat, NEW p \in Nat \ {0}
    PROVE  q * p <= r * p <=> q <= r
BY SMT

LEMMA MultNat ==
    ASSUME NEW q \in Nat, NEW p \in Nat
    PROVE  q * p \in Nat /\ (q + 1) * p = q * p + p
BY SMT

LEMMA MultDistributes ==
    ASSUME NEW q \in Nat, NEW r \in Nat, NEW p \in Nat
    PROVE  (q + r) * p = q * p + r * p
BY SMT

(* Division undoes multiplication. *)
LEMMA DivMult ==
    ASSUME NEW q \in Nat, NEW p \in Nat \ {0}
    PROVE  (q * p) \div p = q
<1> DEFINE d == (q * p) \div p
<1>1. q * p \in Nat /\ (q + 1) * p = q * p + p
  BY MultNat
<1>2. d \in Nat /\ d * p <= q * p /\ q * p < d * p + p
  BY <1>1, DivBounds
<1>3. d * p + p = (d + 1) * p
  BY <1>2, MultNat
<1>4. d <= q
  BY <1>2, MultMono
<1>5. ~ (d + 1 <= q)
  BY <1>1, <1>2, <1>3, MultMono, MultNat
<1> QED BY <1>2, <1>4, <1>5

LEMMA ModMult ==
    ASSUME NEW q \in Nat, NEW p \in Nat \ {0}
    PROVE  (q * p) % p = 0
BY DivMult, MultNat, SMT

(* A number is below p times q + 1 exactly when its quotient is at most q. *)
LEMMA DivLess ==
    ASSUME NEW x \in Nat, NEW q \in Nat, NEW p \in Nat \ {0}
    PROVE  x \div p <= q <=> x < (q + 1) * p
<1> DEFINE d == x \div p
<1>1. d \in Nat /\ d * p <= x /\ x < d * p + p
  BY DivBounds
<1>2. (d + 1) * p = d * p + p /\ d * p \in Nat /\ (q + 1) * p \in Nat
  BY <1>1, MultNat
<1>3. d * p <= q * p <=> d <= q
  BY <1>1, MultMono
<1>4. (q + 1) * p <= d * p <=> q + 1 <= d
  BY <1>1, MultMono
<1>5. (q + 1) * p = q * p + p /\ q * p \in Nat
  BY MultNat
<1> HIDE DEF d
<1> QED BY <1>1, <1>2, <1>3, <1>4, <1>5
=============================================================================

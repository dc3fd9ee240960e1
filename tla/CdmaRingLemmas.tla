--------------------------- MODULE CdmaRingLemmas ---------------------------
(***************************************************************************)
(* Arithmetic of rings addressed by free-running indices: slot (remainder) *)
(* and round (quotient) of an index; least elements of sets of naturals.   *)
(***************************************************************************)
EXTENDS Integers, WellFoundedInduction, TLAPS

\* A remainder is below the modulus: a slot number is within its ring.
LEMMA ModRange ==
  ASSUME NEW a \in Int, NEW n \in Nat \ {0}
  PROVE  a % n \in 0..(n - 1)
OBVIOUS

\* An index of the first round is its own slot.
LEMMA ModSmall ==
  ASSUME NEW n \in Nat \ {0}, NEW a \in 0..(n - 1)
  PROVE  a % n = a
OBVIOUS

\* Quotient and remainder give the number back.
LEMMA DivMod ==
  ASSUME NEW a \in Int, NEW n \in Nat \ {0}
  PROVE  /\ a \div n \in Int
         /\ a = n * (a \div n) + (a % n)
OBVIOUS

\* Quotient (the round) and remainder (the slot) are unique.
LEMMA DivModUnique ==
  ASSUME NEW n \in Nat \ {0}, NEW p \in Int, NEW q \in Int,
         NEW r \in 0..(n - 1), NEW s \in 0..(n - 1),
         n * p + r = n * q + s
  PROVE  p = q /\ r = s
<1>1. n * (p - q) = s - r
  OBVIOUS
<1>2. CASE p - q >= 1
  <2>1. n * (p - q) >= n
    BY <1>2
  <2> QED
    BY <1>1, <2>1
<1>3. CASE p - q <= -1
  <2>1. n * (q - p) >= n
    BY <1>3
  <2>2. n * (q - p) = r - s
    BY <1>1
  <2> QED
    BY <2>1, <2>2
<1> QED
  BY <1>1, <1>2, <1>3

\* Whole rings and a rest below one: the rest is the slot.
LEMMA ModRest ==
  ASSUME NEW n \in Nat \ {0}, NEW a \in Int, NEW q \in Int, NEW r \in 0..(n - 1),
         a = n * q + r
  PROVE  a % n = r
<1> DEFINE p == a \div n
           s == a % n
<1>1. p \in Int /\ s \in 0..(n - 1) /\ n * p + s = n * q + r
  BY DivMod, ModRange
<1> HIDE DEF p, s
<1>2. s = r
  BY <1>1, DivModUnique
<1> QED
  BY <1>2 DEF s

\* Adding whole rings keeps the slot and adds to the round.
LEMMA ModShift ==
  ASSUME NEW n \in Nat \ {0}, NEW a \in Int, NEW q \in Int
  PROVE  /\ (a + n * q) % n = a % n
         /\ (a + n * q) \div n = (a \div n) + q
<1> DEFINE b == a + n * q
<1>1. /\ b \in Int /\ b \div n \in Int /\ a \div n \in Int
      /\ b % n \in 0..(n - 1) /\ a % n \in 0..(n - 1)
  BY DivMod, ModRange
<1>2. n * (b \div n) + (b % n) = n * ((a \div n) + q) + (a % n)
  <2>1. b = n * (b \div n) + (b % n)
    BY <1>1, DivMod
  <2>2. a = n * (a \div n) + (a % n)
    BY DivMod
  <2>3. n * ((a \div n) + q) = n * (a \div n) + n * q
    BY <1>1
  <2> QED
    BY <1>1, <2>1, <2>2, <2>3
<1> HIDE DEF b
<1>3. b % n = a % n /\ b \div n = (a \div n) + q
  <2> DEFINE bd == b \div n
             bm == b % n
             ad == (a \div n) + q
             am == a % n
  <2>1. /\ bd \in Int /\ ad \in Int
        /\ bm \in 0..(n - 1) /\ am \in 0..(n - 1)
        /\ n * bd + bm = n * ad + am
    BY <1>1, <1>2
  <2> HIDE DEF bd, bm, ad, am
  <2>2. bd = ad /\ bm = am
    BY <2>1, DivModUnique
  <2> QED
    BY <2>2 DEF bd, bm, ad, am
<1> QED
  BY <1>3 DEF b

\* Two indices less than a ring apart have different slots.
LEMMA ModApart ==
  ASSUME NEW n \in Nat \ {0}, NEW a \in Int, NEW d \in 1..(n - 1)
  PROVE  (a + d) % n # a % n
<1> SUFFICES ASSUME (a + d) % n = a % n
             PROVE  FALSE
  OBVIOUS
<1> DEFINE p == (a + d) \div n
           q == a \div n
           r == a % n
<1>1. /\ p \in Int /\ q \in Int /\ r \in 0..(n - 1)
      /\ a + d = n * p + r
      /\ a = n * q + r
  BY DivMod, ModRange
<1> HIDE DEF p, q, r
<1>2. d = n * (p - q)
  BY <1>1
<1>3. CASE p - q >= 1
  <2>1. n * (p - q) >= n
    BY <1>1, <1>3
  <2> QED
    BY <1>2, <2>1
<1>4. CASE p - q <= 0
  <2>1. n * (q - p) >= 0
    BY <1>1, <1>4
  <2>2. n * (q - p) = -d
    BY <1>1, <1>2
  <2> QED
    BY <2>1, <2>2
<1> QED
  BY <1>1, <1>3, <1>4

\* A set of naturals that is not empty has a least element.
LEMMA NatMin ==
  ASSUME NEW S \in SUBSET Nat, S # {}
  PROVE  \E b \in S : \A c \in S : b <= c
<1> DEFINE R == OpToRel(<, Nat)
<1>1. IsWellFoundedOn(R, Nat)
  BY NatLessThanWellFounded
<1>2. \A x, y \in Nat : x < y => <<x, y>> \in R
  BY DEF OpToRel
<1> HIDE DEF R
<1>3. PICK b \in S : \A c \in S : ~(<<c, b>> \in R)
  BY <1>1, WFMin
<1>4. \A c \in S : c \in Nat /\ b \in Nat /\ ~(c < b)
  BY <1>2, <1>3
<1> QED
  BY <1>3, <1>4
============================================================================

--------------------------- MODULE CdmaSqeProofs ---------------------------
(***************************************************************************)
(* Proofs about work requests and the geometry of the send queue, for any  *)
(* calls, depths, element limits and page size: SqeInv of CdmaSqe is       *)
(* inductive.  The ring is sized by recursive functions (a shift, the bits *)
(* of a number, the loop of align_power2); what they compute is proved by  *)
(* least counterexample (NatMin).                                          *)
(***************************************************************************)
EXTENDS CdmaSqe, CdmaRingLemmas, SequenceTheorems

(***************************************************************************)
(* Powers of two.                                                          *)
(***************************************************************************)

\* The recursion of Pow2 up to n.
PowRec(g, k)  == IF k = 0 THEN 1 ELSE 2 * g[k - 1]
PowTo(g, n)   == g = [k \in 0..n |-> PowRec(g, k)]

\* The recursion has a solution up to every n.
LEMMA PowToExists ==
  ASSUME NEW n \in Nat
  PROVE  \E g : PowTo(g, n)
<1> DEFINE Bad == {k \in Nat : ~\E g : PowTo(g, k)}
<1> SUFFICES ASSUME Bad # {} PROVE FALSE
  OBVIOUS
<1>1. PICK b \in Bad : \A c \in Bad : b <= c
  BY NatMin
<1>2. b \in Nat /\ ~\E g : PowTo(g, b)
  BY <1>1
<1>3. CASE b = 0
  <2> DEFINE g == [k \in 0..0 |-> 1]
  <2>1. PowTo(g, 0)
    BY DEF PowTo, PowRec
  <2> QED
    BY <1>2, <1>3, <2>1
<1>4. CASE b # 0
  <2>1. b - 1 \in Nat /\ b - 1 \notin Bad
    BY <1>1, <1>2, <1>4
  <2>2. PICK h : PowTo(h, b - 1)
    BY <2>1
  <2>3. \A k \in 0..(b - 1) : h[k] = PowRec(h, k)
    BY <2>2 DEF PowTo
  <2> DEFINE g == [k \in 0..b |-> PowRec(h, k)]
  <2>4. ASSUME NEW k \in 0..b
        PROVE  PowRec(h, k) = PowRec(g, k)
    <3>1. CASE k = 0
      BY <3>1 DEF PowRec
    <3>2. CASE k # 0
      <4>1. k - 1 \in 0..(b - 1) /\ k - 1 \in 0..b
        BY <1>2, <3>2
      <4>2. g[k - 1] = h[k - 1]
        BY <2>3, <4>1
      <4> QED
        BY <3>2, <4>2 DEF PowRec
    <3> QED
      BY <3>1, <3>2
  <2>5. PowTo(g, b)
    BY <2>4 DEF PowTo
  <2> QED
    BY <1>2, <2>5
<1> QED
  BY <1>3, <1>4

\* Two solutions agree where both are defined.
LEMMA PowToUnique ==
  ASSUME NEW n \in Nat, NEW m \in 0..n, NEW g, PowTo(g, n), NEW h, PowTo(h, m)
  PROVE  \A k \in 0..m : g[k] = h[k]
<1> DEFINE Bad == {k \in 0..m : g[k] # h[k]}
<1> SUFFICES ASSUME Bad # {} PROVE FALSE
  OBVIOUS
<1>0. Bad \in SUBSET Nat
  OBVIOUS
<1>1. PICK b \in Bad : \A c \in Bad : b <= c
  BY <1>0, NatMin
<1>2. b \in 0..m /\ b \in 0..n /\ g[b] # h[b]
  BY <1>1
<1>3. g[b] = PowRec(g, b) /\ h[b] = PowRec(h, b)
  BY <1>2 DEF PowTo
<1>4. b # 0
  BY <1>2, <1>3 DEF PowRec
<1>5. g[b - 1] = h[b - 1]
  <2>1. b - 1 \notin Bad /\ b - 1 \in 0..m
    BY <1>1, <1>2, <1>4
  <2> QED
    BY <2>1
<1> QED
  BY <1>2, <1>3, <1>4, <1>5 DEF PowRec

\* The definition of Pow2 has a solution, so Pow2 satisfies its equation.
LEMMA Pow2Def ==
  /\ Pow2[0] = 1
  /\ \A k \in Nat : Pow2[k + 1] = 2 * Pow2[k]
<1> DEFINE Part(n) == CHOOSE g : PowTo(g, n)
           G == [n \in Nat |-> Part(n)[n]]
<1>1. \A n \in Nat : PowTo(Part(n), n)
  BY PowToExists
<1> HIDE DEF Part
<1>2. ASSUME NEW n \in Nat
      PROVE  G[n] = PowRec(G, n)
  <2>1. Part(n)[n] = PowRec(Part(n), n)
    BY <1>1 DEF PowTo
  <2>2. CASE n = 0
    BY <2>1, <2>2 DEF PowRec
  <2>3. CASE n # 0
    <3>1. n - 1 \in Nat /\ n - 1 \in 0..n /\ n - 1 \in 0..(n - 1)
      BY <2>3
    <3>2. Part(n)[n - 1] = Part(n - 1)[n - 1]
      BY <1>1, <3>1, PowToUnique
    <3> QED
      BY <2>1, <2>3, <3>1, <3>2 DEF PowRec
  <2> QED
    BY <2>2, <2>3
<1>3. G = [k \in Nat |-> IF k = 0 THEN 1 ELSE 2 * G[k - 1]]
  BY <1>2 DEF PowRec
<1> HIDE DEF G
<1>4. Pow2 = [k \in Nat |-> IF k = 0 THEN 1 ELSE 2 * Pow2[k - 1]]
  BY <1>3 DEF Pow2
<1>5. \A k \in Nat : Pow2[k] = IF k = 0 THEN 1 ELSE 2 * Pow2[k - 1]
  BY <1>4
<1> QED
  BY <1>5

\* Powers are positive, and exceed their exponents.
LEMMA Pow2Nat ==
  ASSUME NEW k \in Nat
  PROVE  Pow2[k] \in Nat /\ Pow2[k] > k
<1> DEFINE Bad == {i \in Nat : ~(Pow2[i] \in Nat /\ Pow2[i] > i)}
<1> SUFFICES ASSUME Bad # {} PROVE FALSE
  OBVIOUS
<1>1. PICK b \in Bad : \A c \in Bad : b <= c
  BY NatMin
<1>2. b # 0
  BY <1>1, Pow2Def
<1>3. b - 1 \in Nat /\ b - 1 \notin Bad
  BY <1>1, <1>2
<1>4. Pow2[b - 1] \in Nat /\ Pow2[b - 1] > b - 1
  BY <1>3
<1>5. Pow2[b] = 2 * Pow2[b - 1]
  BY <1>1, <1>3, Pow2Def
<1>6. Pow2[b] \in Nat /\ Pow2[b] > b
  BY <1>3, <1>4, <1>5
<1> QED
  BY <1>1, <1>6

\* Exponents add up.
LEMMA Pow2Add ==
  ASSUME NEW j \in Nat, NEW k \in Nat
  PROVE  Pow2[j + k] = Pow2[j] * Pow2[k]
<1> DEFINE Bad == {i \in Nat : Pow2[j + i] # Pow2[j] * Pow2[i]}
<1> SUFFICES ASSUME Bad # {} PROVE FALSE
  OBVIOUS
<1>1. PICK b \in Bad : \A c \in Bad : b <= c
  BY NatMin
<1>n. Pow2[j] \in Nat
  BY Pow2Nat
<1>2. b # 0
  <2>1. Pow2[j + 0] = Pow2[j] * Pow2[0]
    BY <1>n, Pow2Def
  <2> QED
    BY <1>1, <2>1
<1>3. b - 1 \in Nat /\ b - 1 \notin Bad
  BY <1>1, <1>2
<1>4. Pow2[j + (b - 1)] = Pow2[j] * Pow2[b - 1]
  BY <1>3
<1>5. Pow2[b] = 2 * Pow2[b - 1] /\ Pow2[j + b] = 2 * Pow2[j + (b - 1)]
  <2>1. (b - 1) + 1 = b /\ (j + (b - 1)) + 1 = j + b /\ j + (b - 1) \in Nat
    BY <1>1, <1>3
  <2> QED
    BY <1>3, <2>1, Pow2Def
<1>6. Pow2[b - 1] \in Nat
  BY <1>3, Pow2Nat
<1>7. 2 * (Pow2[j] * Pow2[b - 1]) = Pow2[j] * (2 * Pow2[b - 1])
  BY <1>n, <1>6
<1> QED
  BY <1>1, <1>4, <1>5, <1>7

\* Powers grow with their exponents, by a factor of two at least.
LEMMA Pow2Order ==
  ASSUME NEW j \in Nat, NEW k \in Nat
  PROVE  /\ j < k => 2 * Pow2[j] <= Pow2[k]
         /\ Pow2[j] < 2 * Pow2[k] => j <= k
         /\ Pow2[j] <= Pow2[k] => j <= k
<1>1. ASSUME NEW a \in Nat, NEW c \in Nat, a < c
      PROVE  2 * Pow2[a] <= Pow2[c]
  <2> DEFINE d == c - (a + 1)
  <2>1. d \in Nat /\ c = (a + 1) + d
    BY <1>1
  <2> HIDE DEF d
  <2>2. Pow2[c] = Pow2[a + 1] * Pow2[d] /\ Pow2[a + 1] = 2 * Pow2[a]
    <3>1. Pow2[(a + 1) + d] = Pow2[a + 1] * Pow2[d]
      BY <2>1, Pow2Add
    <3> QED
      BY <2>1, <3>1, Pow2Def
  <2>3. Pow2[d] >= 1 /\ Pow2[d] \in Nat /\ Pow2[a + 1] \in Nat
    BY <2>1, Pow2Nat
  <2>4. Pow2[a + 1] * Pow2[d] >= Pow2[a + 1]
    BY <2>3
  <2> QED
    BY <2>2, <2>4
<1>2. Pow2[j] \in Nat /\ Pow2[k] \in Nat /\ Pow2[k] > 0 /\ Pow2[j] > 0
  BY Pow2Nat
<1>3. j < k => 2 * Pow2[j] <= Pow2[k]
  BY <1>1
<1>4. k < j => 2 * Pow2[k] <= Pow2[j]
  BY <1>1
<1> QED
  BY <1>2, <1>3, <1>4

(***************************************************************************)
(* The bits of a number, roundup_pow_of_two and align_power2.              *)
(***************************************************************************)

\* k is the number of bits of v.
Bits(v, k) == v < Pow2[k] /\ (k = 0 \/ Pow2[k - 1] <= v)

\* Every number has a number of bits.
LEMMA BitsExist ==
  ASSUME NEW v \in Nat
  PROVE  \E k \in Nat : Bits(v, k)
<1> DEFINE S == {k \in Nat : v < Pow2[k]}
<1>1. v \in S
  BY Pow2Nat
<1>2. PICK k \in S : \A c \in S : k <= c
  BY <1>1, NatMin
<1>3. k = 0 \/ Pow2[k - 1] <= v
  <2> SUFFICES ASSUME k # 0 PROVE Pow2[k - 1] <= v
    OBVIOUS
  <2>1. k - 1 \in Nat /\ k - 1 \notin S
    BY <1>2
  <2>2. Pow2[k - 1] \in Nat
    BY <2>1, Pow2Nat
  <2> QED
    BY <2>1, <2>2
<1> QED
  BY <1>2, <1>3 DEF Bits

\* And only one.
LEMMA BitsUnique ==
  ASSUME NEW v \in Nat, NEW j \in Nat, NEW k \in Nat, Bits(v, j), Bits(v, k)
  PROVE  j = k
<1>1. ASSUME NEW a \in Nat, NEW c \in Nat, Bits(v, a), Bits(v, c), a < c
      PROVE  FALSE
  <2>1. c - 1 \in Nat /\ Pow2[c - 1] <= v /\ v < Pow2[a]
    BY <1>1 DEF Bits
  <2>2. Pow2[a] \in Nat /\ Pow2[c - 1] \in Nat /\ Pow2[c - 1] < Pow2[a]
    BY <2>1, Pow2Nat
  <2>3. c - 1 < a
    <3>1. CASE a < c - 1
      <4>1. 2 * Pow2[a] <= Pow2[c - 1]
        BY <2>1, <3>1, Pow2Order
      <4> QED
        BY <2>2, <4>1
    <3>2. CASE a = c - 1
      BY <2>2, <3>2
    <3> QED
      BY <2>1, <3>1, <3>2
  <2> QED
    BY <1>1, <2>3
<1> QED
  BY <1>1

\* One bit more than half of it has.
LEMMA BitsHalf ==
  ASSUME NEW v \in Nat, v # 0, NEW k \in Nat, Bits(v \div 2, k)
  PROVE  Bits(v, k + 1)
<1> DEFINE q == v \div 2
<1>1. q \in Nat /\ 2 * q <= v /\ v <= 2 * q + 1
  OBVIOUS
<1> HIDE DEF q
<1>2. Pow2[k + 1] = 2 * Pow2[k] /\ Pow2[k] \in Nat
  BY Pow2Def, Pow2Nat
<1>3. q < Pow2[k] /\ (k = 0 \/ Pow2[k - 1] <= q)
  BY DEF Bits, q
<1>4. v < Pow2[k + 1]
  BY <1>1, <1>2, <1>3
<1>5. Pow2[k] <= v
  <2>1. CASE k = 0
    BY <2>1, Pow2Def
  <2>2. CASE k # 0
    <3>1. k - 1 \in Nat /\ (k - 1) + 1 = k
      BY <2>2
    <3>2. Pow2[k] = 2 * Pow2[k - 1] /\ Pow2[k - 1] \in Nat
      BY <3>1, Pow2Def, Pow2Nat
    <3> QED
      BY <1>1, <1>3, <2>2, <3>2
  <2> QED
    BY <2>1, <2>2
<1>6. (k + 1) - 1 = k
  OBVIOUS
<1> QED
  BY <1>4, <1>5, <1>6 DEF Bits

\* ilog64 returns the number of bits.
LEMMA IlogBits ==
  ASSUME NEW v \in Nat
  PROVE  Ilog[v] \in Nat /\ Bits(v, Ilog[v])
<1> DEFINE num(x) == CHOOSE k \in Nat : Bits(x, k)
           L == [x \in Nat |-> num(x)]
<1>1. \A x \in Nat : num(x) \in Nat /\ Bits(x, num(x))
  BY BitsExist
<1> HIDE DEF num
<1>2. ASSUME NEW x \in Nat
      PROVE  L[x] = IF x = 0 THEN 0 ELSE 1 + L[x \div 2]
  <2>1. CASE x = 0
    <3>1. Bits(0, 0)
      BY Pow2Def DEF Bits
    <3>2. num(0) = 0
      BY <1>1, <3>1, BitsUnique
    <3> QED
      BY <2>1, <3>2
  <2>2. CASE x # 0
    <3>1. x \div 2 \in Nat
      OBVIOUS
    <3>2. Bits(x, num(x \div 2) + 1) /\ num(x \div 2) \in Nat
      BY <1>1, <2>2, <3>1, BitsHalf
    <3>3. num(x) = num(x \div 2) + 1
      BY <1>1, <3>2, BitsUnique
    <3> QED
      BY <2>2, <3>1, <3>2, <3>3
  <2> QED
    BY <2>1, <2>2
<1>3. L = [x \in Nat |-> IF x = 0 THEN 0 ELSE 1 + L[x \div 2]]
  BY <1>2
<1> HIDE DEF L
<1>4. Ilog = [x \in Nat |-> IF x = 0 THEN 0 ELSE 1 + Ilog[x \div 2]]
  BY <1>3 DEF Ilog
<1>5. \A x \in Nat : Ilog[x] = IF x = 0 THEN 0 ELSE 1 + Ilog[x \div 2]
  BY <1>4
<1> DEFINE Bad == {x \in Nat : ~(Ilog[x] \in Nat /\ Bits(x, Ilog[x]))}
<1> SUFFICES ASSUME Bad # {} PROVE FALSE
  OBVIOUS
<1>6. PICK b \in Bad : \A c \in Bad : b <= c
  BY NatMin
<1>7. CASE b = 0
  <2>1. Ilog[0] = 0
    BY <1>5
  <2>2. Bits(0, 0)
    BY Pow2Def DEF Bits
  <2> QED
    BY <1>6, <1>7, <2>1, <2>2
<1>8. CASE b # 0
  <2>1. b \div 2 \in Nat /\ b \div 2 < b
    BY <1>6, <1>8
  <2>2. b \div 2 \notin Bad
    BY <1>6, <2>1
  <2>3. Ilog[b \div 2] \in Nat /\ Bits(b \div 2, Ilog[b \div 2])
    BY <2>1, <2>2
  <2>4. Ilog[b] = 1 + Ilog[b \div 2]
    BY <1>5, <1>6, <1>8
  <2>5. Bits(b, Ilog[b \div 2] + 1)
    BY <1>6, <1>8, <2>3, BitsHalf
  <2>6. Ilog[b] = Ilog[b \div 2] + 1 /\ Ilog[b] \in Nat
    BY <2>3, <2>4
  <2> QED
    BY <1>6, <2>5, <2>6
<1> QED
  BY <1>7, <1>8

\* roundup_pow_of_two: a power of two, not below n, and less than twice n.
LEMMA RoundupFacts ==
  ASSUME NEW n \in Nat \ {0}
  PROVE  \E k \in Nat : /\ RoundupPow2(n) = Pow2[k]
                        /\ n <= Pow2[k] /\ Pow2[k] < 2 * n
<1>1. CASE n = 1
  BY <1>1, Pow2Def DEF RoundupPow2
<1>2. CASE n # 1
  <2> DEFINE k == Ilog[n - 1]
  <2>1. n - 1 \in Nat /\ n - 1 >= 1
    BY <1>2
  <2>2. k \in Nat /\ Bits(n - 1, k)
    BY <2>1, IlogBits
  <2>3. RoundupPow2(n) = Pow2[k]
    BY <1>2 DEF RoundupPow2
  <2> HIDE DEF k
  <2>4. k # 0
    BY <2>1, <2>2, Pow2Def DEF Bits
  <2>5. k - 1 \in Nat /\ (k - 1) + 1 = k
    BY <2>2, <2>4
  <2>6. Pow2[k] = 2 * Pow2[k - 1] /\ Pow2[k - 1] \in Nat
    BY <2>5, Pow2Def, Pow2Nat
  <2>7. n - 1 < Pow2[k] /\ Pow2[k - 1] <= n - 1
    BY <2>2, <2>4 DEF Bits
  <2>8. n <= Pow2[k] /\ Pow2[k] < 2 * n
    BY <2>6, <2>7
  <2> QED
    BY <2>2, <2>3, <2>8
<1> QED
  BY <1>1, <1>2

\* A power of two is rounded up to itself.
LEMMA RoundupPower ==
  ASSUME NEW k \in Nat
  PROVE  RoundupPow2(Pow2[k]) = Pow2[k]
<1>1. Pow2[k] \in Nat \ {0}
  BY Pow2Nat
<1>2. PICK j \in Nat : /\ RoundupPow2(Pow2[k]) = Pow2[j]
                       /\ Pow2[k] <= Pow2[j] /\ Pow2[j] < 2 * Pow2[k]
  BY <1>1, RoundupFacts
<1>3. j = k
  BY <1>2, Pow2Order
<1> QED
  BY <1>2, <1>3

\* align_power2 finds the exponent of a power of two.
LEMMA AlignExponent ==
  ASSUME NEW k \in Nat
  PROVE  AlignPower2(Pow2[k]) = k
<1> DEFINE n == Pow2[k]
           Solves(f) == f = [r \in Nat |-> IF Pow2[r] >= n THEN r ELSE f[r + 1]]
           R == CHOOSE f : Solves(f)
           g == [r \in Nat |-> IF Pow2[r] >= n THEN r ELSE k]
<1>1. AlignPower2(n) = R[0]
  BY DEF AlignPower2
<1>2. \A r \in Nat : Pow2[r] >= n <=> r >= k
  <2> TAKE r \in Nat
  <2>1. Pow2[r] \in Nat /\ Pow2[k] \in Nat /\ Pow2[k] > 0
    BY Pow2Nat
  <2>2. Pow2[k] <= Pow2[r] => k <= r
    BY Pow2Order
  <2>3. k < r => 2 * Pow2[k] <= Pow2[r]
    BY Pow2Order
  <2> QED
    BY <2>1, <2>2, <2>3
<1> HIDE DEF n
<1>3. Solves(g)
  <2>1. \A r \in Nat : g[r] = IF r >= k THEN r ELSE k
    BY <1>2
  <2>2. \A r \in Nat : (IF Pow2[r] >= n THEN r ELSE k) = (IF Pow2[r] >= n THEN r ELSE g[r + 1])
    BY <1>2, <2>1
  <2> QED
    BY <2>2
<1>4. Solves(R)
  BY <1>3
<1> HIDE DEF R
<1>5. \A r \in Nat : R[r] = IF r >= k THEN r ELSE R[r + 1]
  BY <1>2, <1>4
<1> DEFINE Bad == {d \in 0..k : R[k - d] # k}
<1>6. Bad = {}
  <2> SUFFICES ASSUME Bad # {} PROVE FALSE
    OBVIOUS
  <2>0. Bad \in SUBSET Nat
    OBVIOUS
  <2>1. PICK b \in Bad : \A c \in Bad : b <= c
    BY <2>0, NatMin
  <2>2. b # 0
    BY <1>5, <2>1
  <2>3. b - 1 \in 0..k /\ b - 1 \notin Bad
    BY <2>1, <2>2
  <2>4. R[k - (b - 1)] = k
    BY <2>3
  <2>5. k - b \in Nat /\ k - b < k /\ (k - b) + 1 = k - (b - 1)
    BY <2>1, <2>2
  <2>6. R[k - b] = R[(k - b) + 1]
    BY <1>5, <2>5
  <2> QED
    BY <2>1, <2>4, <2>5, <2>6
<1>7. R[k - k] = k
  BY <1>6
<1> QED
  BY <1>1, <1>7 DEF n

(***************************************************************************)
(* The ring.                                                               *)
(***************************************************************************)

\* Aligning a power of two to another gives the larger one.
LEMMA AlignPower ==
  ASSUME NEW a \in Nat, NEW b \in Nat
  PROVE  Align(Pow2[a], Pow2[b]) = IF a >= b THEN Pow2[a] ELSE Pow2[b]
<1> DEFINE n == Pow2[a]
           P == Pow2[b]
<1>0. n \in Nat /\ P \in Nat /\ n >= 1 /\ P >= 1
  BY Pow2Nat
<1>1. CASE a >= b
  <2> DEFINE q == Pow2[a - b]
  <2>1. a - b \in Nat /\ b + (a - b) = a
    BY <1>1
  <2>2. n = P * q /\ q \in Nat
    BY <2>1, Pow2Add, Pow2Nat
  <2> HIDE DEF n, P, q
  <2>3. ((P - 1) + P * q) \div P = ((P - 1) \div P) + q
    BY <1>0, <2>2, ModShift
  <2>4. (P - 1) \div P = 0
    BY <1>0
  <2>5. n + P - 1 = (P - 1) + P * q
    BY <1>0, <2>2
  <2>6. (n + P - 1) \div P = q
    BY <2>2, <2>3, <2>4, <2>5
  <2>7. Align(n, P) = q * P
    BY <2>6 DEF Align
  <2>8. q * P = n
    BY <1>0, <2>2
  <2> QED
    BY <1>1, <2>7, <2>8 DEF n, P
<1>2. CASE ~(a >= b)
  <2>1. n <= P
    <3>1. 2 * n <= P
      BY <1>2, Pow2Order
    <3> QED
      BY <1>0, <3>1
  <2> HIDE DEF n, P
  <2>2. ((n - 1) + P * 1) \div P = ((n - 1) \div P) + 1
    BY <1>0, ModShift
  <2>3. (n - 1) \div P = 0
    BY <1>0, <2>1
  <2>4. n + P - 1 = (n - 1) + P * 1
    BY <1>0
  <2>5. (n + P - 1) \div P = 1
    BY <2>2, <2>3, <2>4
  <2>6. Align(n, P) = 1 * P
    BY <2>5 DEF Align
  <2> QED
    BY <1>0, <1>2, <2>6 DEF n, P
<1> QED
  BY <1>1, <1>2

\* The constants of the layout.
LEMMA Sizes ==
  /\ WqeBb = 64 /\ SgeSize = 16 /\ MaxSqeBb = 4
  /\ NormalCtlLen = 48 /\ NotifyCtlLen = 80
  /\ NotifyToken = 48 /\ NotifyAddr = 56 /\ AtomicData = 64
BY DEF WqeBb, SgeSize, MaxSqeBb, NormalCtlLen, NotifyCtlLen, NotifyToken, NotifyAddr,
       AtomicData

\* A block is 2^6 bytes.
LEMMA BlockPower == Pow2[6] = WqeBb
<1>1. Pow2[1] = 2
  <2>1. Pow2[0 + 1] = 2 * Pow2[0]
    BY Pow2Def
  <2> QED
    BY <2>1, Pow2Def
<1>2. Pow2[1 + 1] = 2 * Pow2[1] /\ Pow2[2 + 1] = 2 * Pow2[2] /\ Pow2[3 + 1] = 2 * Pow2[3]
      /\ Pow2[4 + 1] = 2 * Pow2[4] /\ Pow2[5 + 1] = 2 * Pow2[5]
  BY Pow2Def
<1> QED
  BY <1>1, <1>2, Sizes

\* Reserved blocks: at least one, at most the size of the buffer of a WQE, and two
\* if requests may have an element.
LEMMA ReservedBlocks ==
  ASSUME NEW cfg \in Configs
  PROVE  /\ SqeBbCnt(cfg.max_sge) \in 1..4
         /\ cfg.max_sge \in Nat
         /\ cfg.max_sge # 0 => SqeBbCnt(cfg.max_sge) >= 2
<1> DEFINE m == cfg.max_sge
           x == (m - 1) * SgeSize
           y == U32(NotifyCtlLen + U32(x))
<1>1. m \in Nat /\ WordMod \in Nat /\ WordMod > 256 /\ 80 + 16 * m < WordMod
  BY SqeAssumption, RingAssumption, Sizes
<1> HIDE DEF m
<1>2. x \in Int /\ x = 16 * m - 16
  BY <1>1, Sizes
<1> HIDE DEF x
<1>3. U32(x) \in 0..(WordMod - 1) /\ y \in 0..(WordMod - 1)
  BY <1>1, <1>2, Sizes DEF U32
<1>4. m # 0 => y >= 64
  <2> SUFFICES ASSUME m # 0 PROVE y >= 64
    OBVIOUS
  <2>1. U32(x) = x
    BY <1>1, <1>2 DEF U32
  <2>2. NotifyCtlLen + U32(x) = 64 + 16 * m
    BY <1>1, <1>2, <2>1, Sizes
  <2>3. (64 + 16 * m) % WordMod = 64 + 16 * m
    BY <1>1
  <2> QED
    BY <1>1, <2>2, <2>3 DEF U32
<1>5. CalWqebbNum(NotifyCtlLen, m) = y \div 64 + 1
  BY Sizes DEF CalWqebbNum, x
<1> HIDE DEF y
<1>6. y \div 64 \in Nat /\ (y >= 64 => y \div 64 >= 1)
  BY <1>3
<1>7. SqeBbCnt(m) = IF y \div 64 + 1 > 4 THEN 4 ELSE y \div 64 + 1
  BY <1>5, Sizes DEF SqeBbCnt
<1> QED
  BY <1>1, <1>4, <1>6, <1>7 DEF m

\* cdma_u_create_sq and cdma_u_alloc_queue_buf: a power of two of blocks that
\* fills its pages, divides the range of the counters twice over and has room
\* for the reserved blocks of depth requests.
RingOf(g, k) ==
  /\ g.baseblk_cnt = Pow2[k]
  /\ g.qbuf_size = WqeBb * Pow2[k]
  /\ g.qbuf_size % PageSize = 0
  /\ \E q \in Nat : IdxMod = (2 * Pow2[k]) * q
  /\ g.sqe_bb_cnt * g.depth <= Pow2[k]

\* cdma_u_create_sq and cdma_u_alloc_queue_buf make such a ring.
LEMMA GeometryFacts ==
  ASSUME NEW cfg \in Configs
  PROVE  \E k \in Nat : RingOf(Geometry(cfg), k)
<1> DEFINE s == SqeBbCnt(cfg.max_sge)
           d == cfg.depth
           c == RoundupPow2(s * d)
<1>1. s \in 1..4 /\ d \in Nat \ {0} /\ 2 * s * d <= IdxMod
  BY SqeAssumption, RingAssumption, ReservedBlocks
<1> HIDE DEF s, d
<1>2. s * d \in Nat \ {0}
  <2>1. s >= 1 /\ d >= 1 /\ s \in Nat /\ d \in Nat
    BY <1>1
  <2>2. s * d >= s
    BY <2>1
  <2> QED
    BY <2>1, <2>2
<1>3. PICK m \in Nat : c = Pow2[m] /\ s * d <= Pow2[m] /\ Pow2[m] < 2 * (s * d)
  BY <1>2, RoundupFacts
<1>4. PICK w \in 1..32 : IdxMod = Pow2[w]
  BY RingAssumption
<1>5. PICK p \in 6..31 : PageSize = Pow2[p]
  BY RingAssumption
<1> DEFINE a == m + 6
           k == IF a >= p THEN m ELSE p - 6
<1>6. QbufSize(c, WqeBb) = IF a >= p THEN Pow2[a] ELSE Pow2[p]
  <2>1. RoundupPow2(c) = Pow2[m]
    BY <1>3, RoundupPower
  <2>2. RoundupPow2(c) * WqeBb = Pow2[a]
    BY <2>1, BlockPower, Pow2Add
  <2>3. AlignPower2(RoundupPow2(RoundupPow2(c) * WqeBb)) = a
    BY <2>2, RoundupPower, AlignExponent
  <2> QED
    BY <2>3, <1>5, AlignPower DEF QbufSize
<1>7. k \in Nat /\ QbufSize(c, WqeBb) = Pow2[k + 6]
  <2>1. CASE a >= p
    BY <1>6, <2>1
  <2>2. CASE ~(a >= p)
    <3>1. p - 6 \in Nat /\ (p - 6) + 6 = p
      OBVIOUS
    <3> QED
      BY <1>6, <2>2, <3>1
  <2> QED
    BY <2>1, <2>2
<1>8. m <= k
  BY <1>3
<1>9. k + 6 >= p
  OBVIOUS
<1>10. k + 1 <= w
  <2>1. CASE a >= p
    <3>1. Pow2[m] < Pow2[w]
      <4>1. 2 * (s * d) = 2 * s * d
        BY <1>1
      <4>2. IdxMod \in Nat /\ Pow2[m] \in Nat
        BY SqeAssumption, Pow2Nat
      <4> QED
        BY <1>1, <1>2, <1>3, <1>4, <4>1, <4>2
    <3>2. m < w
      <4>1. CASE w < m
        <5>1. 2 * Pow2[w] <= Pow2[m] /\ Pow2[w] \in Nat /\ Pow2[m] \in Nat
          BY <4>1, Pow2Order, Pow2Nat
        <5> QED
          BY <3>1, <5>1
      <4>2. CASE w = m
        <5>1. Pow2[w] \in Nat
          BY Pow2Nat
        <5> QED
          BY <3>1, <4>2, <5>1
      <4> QED
        BY <4>1, <4>2
    <3> QED
      BY <2>1, <3>2
  <2>2. CASE ~(a >= p)
    <3>1. Pow2[p + 1] = 2 * Pow2[p] /\ Pow2[w + 6] = Pow2[w] * WqeBb
      <4>1. p \in Nat /\ w \in Nat
        OBVIOUS
      <4>2. Pow2[w + 6] = Pow2[w] * Pow2[6]
        BY <4>1, Pow2Add
      <4> QED
        BY <4>1, <4>2, BlockPower, Pow2Def
    <3>2. 2 * PageSize <= WqeBb * IdxMod
      BY RingAssumption
    <3>3. Pow2[w] * WqeBb = WqeBb * Pow2[w]
      <4>1. Pow2[w] \in Nat
        BY Pow2Nat
      <4> QED
        BY <4>1, Sizes
    <3>4. Pow2[p + 1] <= Pow2[w + 6]
      BY <1>4, <1>5, <3>1, <3>2, <3>3
    <3>5. p + 1 <= w + 6
      BY <3>4, Pow2Order
    <3> QED
      BY <2>2, <3>5
  <2> QED
    BY <2>1, <2>2
<1> HIDE DEF k, a
<1>11. Pow2[k + 6] = WqeBb * Pow2[k] /\ Pow2[k] \in Nat
  <2>1. Pow2[k + 6] = Pow2[k] * Pow2[6] /\ Pow2[k] \in Nat
    BY <1>7, Pow2Add, Pow2Nat
  <2>2. Pow2[k] * WqeBb = WqeBb * Pow2[k]
    BY <2>1, Sizes
  <2> QED
    BY <2>1, <2>2, BlockPower
<1>12. (WqeBb * Pow2[k]) \div Pow2[AlignPower2(RoundupPow2(WqeBb))] = Pow2[k]
  <2>1. AlignPower2(RoundupPow2(WqeBb)) = 6
    BY BlockPower, RoundupPower, AlignExponent
  <2>2. (64 * Pow2[k]) \div 64 = Pow2[k]
    BY <1>11
  <2> QED
    BY <2>1, <2>2, BlockPower, Sizes
<1>13. (WqeBb * Pow2[k]) % PageSize = 0
  <2>1. p \in Nat /\ (k + 6) - p \in Nat /\ p + ((k + 6) - p) = k + 6
    BY <1>7, <1>9
  <2> DEFINE q == Pow2[(k + 6) - p]
  <2>2. Pow2[k + 6] = PageSize * q /\ q \in Nat
    <3>1. Pow2[p + ((k + 6) - p)] = Pow2[p] * q
      BY <2>1, Pow2Add
    <3> QED
      BY <1>5, <2>1, <3>1, Pow2Nat
  <2> HIDE DEF q
  <2>3. PageSize \in Nat \ {0}
    BY SqeAssumption
  <2>4. (0 + PageSize * q) % PageSize = 0 % PageSize
    BY <2>2, <2>3, ModShift
  <2>5. 0 + PageSize * q = PageSize * q /\ 0 % PageSize = 0
    BY <2>2, <2>3
  <2> QED
    BY <1>11, <2>2, <2>4, <2>5
<1>14. \E q \in Nat : IdxMod = (2 * Pow2[k]) * q
  <2>1. w - (k + 1) \in Nat /\ (k + 1) + (w - (k + 1)) = w
    BY <1>7, <1>10
  <2> DEFINE q == Pow2[w - (k + 1)]
  <2>2. Pow2[w] = Pow2[k + 1] * q /\ q \in Nat /\ Pow2[k + 1] = 2 * Pow2[k]
    <3>1. Pow2[(k + 1) + (w - (k + 1))] = Pow2[k + 1] * q
      BY <1>7, <2>1, Pow2Add
    <3> QED
      BY <1>7, <2>1, <3>1, Pow2Nat, Pow2Def
  <2> QED
    BY <1>4, <2>2
<1>15. s * d <= Pow2[k]
  <2>1. Pow2[m] <= Pow2[k]
    <3>1. CASE m = k
      <4>1. Pow2[m] \in Nat
        BY Pow2Nat
      <4> QED
        BY <3>1, <4>1
    <3>2. CASE m < k
      <4>1. 2 * Pow2[m] <= Pow2[k] /\ Pow2[m] \in Nat
        BY <1>7, <3>2, Pow2Order, Pow2Nat
      <4> QED
        BY <1>11, <4>1
    <3> QED
      BY <1>7, <1>8, <3>1, <3>2
  <2>2. Pow2[m] \in Nat
    BY Pow2Nat
  <2> QED
    BY <1>2, <1>3, <1>11, <2>1, <2>2
<1>16. /\ Geometry(cfg).qbuf_size = WqeBb * Pow2[k]
       /\ Geometry(cfg).baseblk_cnt = Pow2[k]
       /\ Geometry(cfg).sqe_bb_cnt = s
       /\ Geometry(cfg).depth = d
  BY <1>7, <1>11, <1>12 DEF Geometry, c, s, d
<1> QED
  BY <1>7, <1>13, <1>14, <1>15, <1>16 DEF RingOf

(***************************************************************************)
(* The WQE of a call.                                                      *)
(***************************************************************************)

\* The loop over the elements of a request with one element.
LEMMA NonEmptyOne ==
  ASSUME NEW x
  PROVE  NonEmpty(<<x>>) = IF x.len # 0 THEN <<x>> ELSE <<>>
<1> DEFINE Solves(f) == f = [s \in SUBSET {1} |->
             IF s = {} THEN <<>> ELSE Keep(f[s \ {Max(s)}], <<x>>[Max(s)])]
           g == [s \in SUBSET {1} |-> IF s = {} THEN <<>> ELSE Keep(<<>>, x)]
           h == CHOOSE f : Solves(f)
<1>1. NonEmpty(<<x>>) = h[{1}]
  BY DEF NonEmpty, FoldLeft, MapThenFoldSet
<1>2. \A s \in SUBSET {1} : s = {} \/ s = {1}
  OBVIOUS
<1>3. Max({1}) = 1 /\ {1} \ {1} = {} /\ <<x>>[1] = x
  BY DEF Max
<1>4. Solves(g)
  <2>1. \A s \in SUBSET {1} :
          (IF s = {} THEN <<>> ELSE Keep(<<>>, x))
          = (IF s = {} THEN <<>> ELSE Keep(g[s \ {Max(s)}], <<x>>[Max(s)]))
    <3> SUFFICES ASSUME NEW s \in SUBSET {1}, s = {1}
                 PROVE  Keep(<<>>, x) = Keep(g[s \ {Max(s)}], <<x>>[Max(s)])
      BY <1>2
    <3>1. s \ {Max(s)} = {} /\ <<x>>[Max(s)] = x
      BY <1>3
    <3>2. g[{}] = <<>>
      OBVIOUS
    <3> HIDE DEF g
    <3> QED
      BY <3>1, <3>2
  <2> QED
    BY <2>1
<1>5. Solves(h)
  BY <1>4
<1> HIDE DEF h
<1>6. \A s \in SUBSET {1} :
        h[s] = IF s = {} THEN <<>> ELSE Keep(h[s \ {Max(s)}], <<x>>[Max(s)])
  BY <1>5
<1>7. h[{}] = <<>>
  BY <1>6
<1>8. h[{1}] = Keep(<<>>, x)
  <2>1. h[{1}] = Keep(h[{1} \ {Max({1})}], <<x>>[Max({1})])
    BY <1>6
  <2> QED
    BY <1>3, <1>7, <2>1
<1> QED
  BY <1>1, <1>8 DEF Keep

\* A call that passed the checks has segments with lengths.
LEMMA CallFacts ==
  ASSUME NEW c \in Calls, ApiCheck(c), RwCheck(c.rmt, c.local)
  PROVE  /\ c.op \in Ops
         /\ c.local.len \in Nat /\ c.local.len # 0
         /\ U32(c.local.len) \in Nat
         /\ c.local.len < WordMod => U32(c.local.len) = c.local.len
<1>1. c.local \in [len : Nat, sva : {0, 1}] /\ c.op \in Ops
  BY SqeAssumption DEF ApiCheck, Seg
<1>2. WordMod \in Nat \ {0}
  BY SqeAssumption
<1> QED
  BY <1>1, <1>2 DEF RwCheck, U32

\* What the fill functions leave: the last byte written is in the last block.
Laid(sqe, bb, end) ==
  /\ \E f \in sqe.fields : FieldEnd(f) = end
  /\ \A f \in sqe.fields : FieldEnd(f) \in Nat /\ FieldEnd(f) <= end
  /\ bb \in 1..2
  /\ WqeBb * (bb - 1) < end /\ end <= WqeBb * bb
  /\ end \in Nat

Apart(sqe) ==
  \A f, g \in sqe.fields : f # g => FieldEnd(f) <= g.at \/ FieldEnd(g) <= f.at

\* The sizing for the few element counts that occur, zero included.
LEMMA Sizing ==
  /\ CalWqebbNum(48, 0) = 1 /\ CalWqebbNum(48, 1) = 1 /\ CalWqebbNum(48, 2) = 2
  /\ CalWqebbNum(80, 0) = 2 /\ CalWqebbNum(80, 1) = 2
<1>1. WordMod \in Nat /\ WordMod > 256
  BY SqeAssumption
<1>2. (0 - 1) * 16 = -16 /\ (1 - 1) * 16 = 0 /\ (2 - 1) * 16 = 16
  OBVIOUS
<1>3. U32(-16) = WordMod - 16 /\ U32(0) = 0 /\ U32(16) = 16
  BY <1>1 DEF U32
<1>4. /\ U32(48 + (WordMod - 16)) = 32 /\ U32(48 + 0) = 48 /\ U32(48 + 16) = 64
      /\ U32(80 + (WordMod - 16)) = 64 /\ U32(80 + 0) = 80
  BY <1>1 DEF U32
<1>5. 32 \div 64 = 0 /\ 48 \div 64 = 0 /\ 64 \div 64 = 1 /\ 80 \div 64 = 1
  OBVIOUS
<1> QED
  BY <1>2, <1>3, <1>4, <1>5, Sizes DEF CalWqebbNum

\* An atomic: swap and compare value, or the addend, in the second block.
LEMMA AtomicLaid ==
  ASSUME NEW op \in {"cas", "faa"}, NEW src, NEW dst, NEW len \in AtomicLens(op),
         src[1].len = len
  PROVE  LET wr  == [op |-> op, src |-> src, dst |-> dst]
             sqe == FillSqe(wr)
             bb  == WqebbCnt(wr, sqe)
         IN  /\ \E end \in Nat : Laid(sqe, bb, end)
             /\ Apart(sqe)
             /\ sqe.sges = src /\ sqe.rmt = dst[1].seg
<1> DEFINE wr  == [op |-> op, src |-> src, dst |-> dst]
           sqe == FillSqe(wr)
           bb  == WqebbCnt(wr, sqe)
<1>1. sqe = FillAtomic(wr)
  BY DEF FillSqe
<1>2. bb = 2
  BY Sizing, Sizes DEF WqebbCnt, NormalSgeNum, GetCtlLen
<1>3. len \in {4, 8, 16}
  BY DEF AtomicLens
<1>4. sqe.sges = src /\ sqe.rmt = dst[1].seg
  BY <1>1 DEF FillAtomic
<1>5. sqe.fields = {Field(0, 48), Field(48, 16), Field(64, len)}
                   \cup IF op = "cas" THEN {Field(64 + len, len)} ELSE {}
  <2>1. SgeField(48, 1) = Field(48, 16)
    BY Sizes DEF SgeField
  <2> QED
    BY <1>1, <2>1, Sizes DEF FillAtomic, Ctl
<1> HIDE DEF sqe, bb
<1>6. \A f \in sqe.fields : f.at \in Nat /\ f.n \in Nat
  BY <1>3, <1>5 DEF Field
<1>7. Apart(sqe)
  BY <1>3, <1>5 DEF Apart, Field, FieldEnd
<1>8. CASE op = "cas"
  <2>1. Laid(sqe, bb, 64 + 2 * len)
    BY <1>2, <1>3, <1>5, <1>8, Sizes DEF Laid, Field, FieldEnd
  <2> QED
    BY <1>3, <1>4, <1>7, <2>1 DEF sqe, bb
<1>9. CASE op = "faa"
  <2>1. Laid(sqe, bb, 64 + len)
    BY <1>2, <1>3, <1>5, <1>9, Sizes DEF Laid, Field, FieldEnd
  <2> QED
    BY <1>3, <1>4, <1>7, <2>1 DEF sqe, bb
<1> QED
  BY <1>8, <1>9

\* Read, write and write with notify: the one element, unless it is skipped,
\* follows the control part.
LEMMA RwLaid ==
  ASSUME NEW op \in {"write", "notify", "read"}, NEW x, x.len \in Nat, NEW y,
         NEW wr, wr = IF op = "read" THEN [op |-> op, src |-> <<y>>, dst |-> <<x>>]
                                     ELSE [op |-> op, src |-> <<x>>, dst |-> <<y>>]
  PROVE  LET sqe == FillSqe(wr)
             bb  == WqebbCnt(wr, sqe)
         IN  /\ \E end \in Nat : Laid(sqe, bb, end)
             /\ Apart(sqe)
             /\ sqe.sges = IF x.len # 0 THEN <<x>> ELSE <<>>
             /\ sqe.rmt = y.seg
<1> DEFINE sqe  == FillSqe(wr)
           bb   == WqebbCnt(wr, sqe)
           sges == NonEmpty(<<x>>)
           at   == IF op = "notify" THEN 80 ELSE 48
<1>0. wr.op = op /\ op \notin {"cas", "faa"}
  OBVIOUS
<1>1. sqe = FillRw(wr)
  BY <1>0 DEF FillSqe
<1>2. /\ sqe.sges = sges /\ sqe.rmt = y.seg /\ sqe.sge_num = Len(sges)
      /\ sqe.fields = {Ctl} \cup {SgeField(at, i) : i \in 1..Len(sges)}
                      \cup IF op = "notify"
                           THEN {Field(48, 8), Field(56, 8), Field(64, 8)}
                           ELSE {}
  <2>1. CASE op = "read"
    BY <1>1, <2>1, Sizes DEF FillRw
  <2>2. CASE op \in {"write", "notify"}
    BY <1>1, <2>2, Sizes DEF FillRw, GetCtlLen
  <2> QED
    BY <2>1, <2>2
<1>3. bb = LET b == CalWqebbNum(at, Len(sges)) IN IF b > 4 THEN 4 ELSE b
  <2>1. NormalSgeNum(wr, sqe) = Len(sges) /\ GetCtlLen(wr.op) = at
    BY <1>0, <1>2, Sizes DEF NormalSgeNum, GetCtlLen
  <2> QED
    BY <2>1, Sizes DEF WqebbCnt
<1>4. SgeField(at, 1) = Field(at, 16) /\ Ctl = Field(0, 48)
  BY Sizes DEF SgeField, Ctl
<1> HIDE DEF sqe, bb, sges, at
<1>5. CASE x.len # 0
  <2>1. sges = <<x>> /\ Len(sges) = 1
    <3>1. sges = <<x>>
      BY <1>5, NonEmptyOne DEF sges
    <3> QED
      BY <3>1
  <2>2. {SgeField(at, i) : i \in 1..Len(sges)} = {Field(at, 16)}
    <3>1. 1..Len(sges) = {1}
      BY <2>1
    <3> QED
      BY <1>4, <3>1
  <2>3. sqe.fields = {Field(0, 48), Field(at, 16)}
                     \cup IF op = "notify"
                          THEN {Field(48, 8), Field(56, 8), Field(64, 8)}
                          ELSE {}
    BY <1>2, <1>4, <2>2
  <2>4. bb = IF op = "notify" THEN 2 ELSE 1
    BY <1>3, <2>1, Sizing DEF at
  <2>5. Apart(sqe)
    BY <2>3 DEF Apart, Field, FieldEnd, at
  <2>6. Laid(sqe, bb, at + 16)
    <3>1. CASE op = "notify"
      BY <2>3, <2>4, <3>1, Sizes DEF Laid, Field, FieldEnd, at
    <3>2. CASE op # "notify"
      <4>1. bb = 1 /\ at = 48 /\ sqe.fields = {Field(0, 48), Field(48, 16)}
        BY <2>3, <2>4, <3>2 DEF at
      <4>2. Laid(sqe, 1, 64)
        BY <4>1, Sizes DEF Laid, Field, FieldEnd
      <4> QED
        BY <4>1, <4>2
    <3> QED
      BY <3>1, <3>2
  <2> QED
    BY <1>2, <1>5, <2>1, <2>5, <2>6 DEF sqe, bb, at
<1>6. CASE x.len = 0
  <2>1. sges = <<>> /\ Len(sges) = 0
    BY <1>6, NonEmptyOne DEF sges
  <2>2. {SgeField(at, i) : i \in 1..Len(sges)} = {}
    BY <2>1
  <2>3. sqe.fields = {Field(0, 48)}
                     \cup IF op = "notify"
                          THEN {Field(48, 8), Field(56, 8), Field(64, 8)}
                          ELSE {}
    BY <1>2, <1>4, <2>2
  <2>4. bb = IF op = "notify" THEN 2 ELSE 1
    BY <1>3, <2>1, Sizing DEF at
  <2>5. Apart(sqe)
    BY <2>3 DEF Apart, Field, FieldEnd, at
  <2>6. Laid(sqe, bb, IF op = "notify" THEN 72 ELSE 48)
    <3>1. CASE op = "notify"
      BY <2>3, <2>4, <3>1, Sizes DEF Laid, Field, FieldEnd, at
    <3>2. CASE op # "notify"
      <4>1. bb = 1 /\ sqe.fields = {Field(0, 48)}
        BY <2>3, <2>4, <3>2
      <4>2. Laid(sqe, 1, 48)
        BY <4>1, Sizes DEF Laid, Field, FieldEnd
      <4> QED
        BY <3>2, <4>1, <4>2
    <3> QED
      BY <3>1, <3>2
  <2> QED
    BY <1>2, <1>6, <2>1, <2>5, <2>6 DEF sqe, bb
<1> QED
  BY <1>5, <1>6

\* Every call that passes the checks, whatever its operation and segments.
LEMMA CallLaid ==
  ASSUME NEW c \in Calls, ApiCheck(c), RwCheck(c.rmt, c.local),
         NEW wr, wr = BuildWr(c.op, c.rmt, c.local), CheckAtomicLen(wr)
  PROVE  LET sqe == FillSqe(wr)
             bb  == WqebbCnt(wr, sqe)
         IN  /\ \E end \in Nat : Laid(sqe, bb, end)
             /\ Apart(sqe)
             /\ sqe.rmt = "rmt"
             /\ c.local.len < WordMod
                  => sqe.sges = <<[seg |-> "local", len |-> c.local.len]>>
<1> DEFINE x == FillSge("local", c.local)
           y == FillSge("rmt", c.rmt)
<1>1. /\ c.op \in Ops /\ x.len \in Nat /\ y.seg = "rmt"
      /\ c.local.len < WordMod => x.len # 0 /\ x = [seg |-> "local", len |-> c.local.len]
  BY CallFacts DEF FillSge
<1>2. wr = IF c.op = "read" THEN [op |-> c.op, src |-> <<y>>, dst |-> <<x>>]
                            ELSE [op |-> c.op, src |-> <<x>>, dst |-> <<y>>]
  BY DEF BuildWr
<1> HIDE DEF x, y
<1>3. CASE c.op \in {"write", "notify", "read"}
  <2> DEFINE sqe == FillSqe(wr)
             bb  == WqebbCnt(wr, sqe)
  <2>1. /\ \E end \in Nat : Laid(sqe, bb, end)
        /\ Apart(sqe)
        /\ sqe.sges = IF x.len # 0 THEN <<x>> ELSE <<>>
        /\ sqe.rmt = y.seg
    BY <1>1, <1>2, <1>3, RwLaid
  <2> HIDE DEF sqe, bb
  <2> QED
    BY <1>1, <2>1 DEF sqe, bb
<1>4. CASE c.op \in {"cas", "faa"}
  <2> DEFINE src == <<x>>
             dst == <<y>>
  <2>1. wr = [op |-> c.op, src |-> src, dst |-> dst]
    BY <1>2, <1>4
  <2>2. src[1].len \in AtomicLens(c.op) /\ dst[1].seg = "rmt"
    BY <1>1, <1>4, <2>1 DEF CheckAtomicLen
  <2> HIDE DEF src, dst
  <2> DEFINE sqe == FillSqe(wr)
             bb  == WqebbCnt(wr, sqe)
  <2>3. /\ \E end \in Nat : Laid(sqe, bb, end)
        /\ Apart(sqe)
        /\ sqe.sges = src /\ sqe.rmt = dst[1].seg
    BY <1>4, <2>1, <2>2, AtomicLaid
  <2> HIDE DEF sqe, bb
  <2> QED
    BY <1>1, <2>2, <2>3 DEF sqe, bb, src
<1> QED
  BY <1>1, <1>3, <1>4 DEF Ops

(***************************************************************************)
(* Counters, and the pointer into the ring.                                *)
(***************************************************************************)

\* Reducing a sum of which one part is reduced already.
LEMMA ModSum ==
  ASSUME NEW M \in Nat \ {0}, NEW a \in Int, NEW b \in Int
  PROVE  /\ ((a % M) + b) % M = (a + b) % M
         /\ (b - (a % M)) % M = (b - a) % M
         /\ b >= 0 => (a + b) % M <= (a % M) + b
<1> DEFINE q == a \div M
           r == a % M
<1>1. q \in Int /\ r \in Int /\ r >= 0 /\ a = M * q + r
  BY DivMod, ModRange
<1> HIDE DEF q, r
<1>2. (r + b + M * q) % M = (r + b) % M
  <2> DEFINE e == r + b
  <2>1. e \in Int
    BY <1>1
  <2> HIDE DEF e
  <2>2. (e + M * q) % M = e % M
    BY <1>1, <2>1, ModShift
  <2> QED
    BY <2>2 DEF e
<1>3. a + b = r + b + M * q
  BY <1>1
<1>4. (b - a + M * q) % M = (b - a) % M
  <2> DEFINE e == b - a
  <2>1. e \in Int
    OBVIOUS
  <2> HIDE DEF e
  <2>2. (e + M * q) % M = e % M
    BY <1>1, <2>1, ModShift
  <2> QED
    BY <2>2 DEF e
<1>5. b - r = b - a + M * q
  BY <1>1
<1>6. b >= 0 => (r + b) % M <= r + b
  BY <1>1
<1> QED
  BY <1>2, <1>3, <1>4, <1>5, <1>6 DEF r

\* The counters' range is not empty.
LEMMA IdxFacts == IdxMod \in Nat \ {0}
BY SqeAssumption

\* Moving the first index on, or the second back, adds to the distance at most.
LEMMA SubMoves ==
  ASSUME NEW x \in Idx, NEW y \in Idx, NEW d \in Nat
  PROVE  /\ Sub(Add(x, d), y) <= Sub(x, y) + d
         /\ Sub(x, Sub(y, d)) <= Sub(x, y) + d
         /\ Add(x, d) \in Idx /\ Sub(y, d) \in Idx
         /\ Sub(x, y) \in Nat
<1>0. IdxMod \in Nat \ {0} /\ x \in Int /\ y \in Int
  BY IdxFacts DEF Idx
<1>1. Sub(Add(x, d), y) = (x - y + d) % IdxMod
  <2> DEFINE e == x + d
             z == 0 - y
  <2>0. e \in Int /\ z \in Int
    BY <1>0
  <2> HIDE DEF e, z
  <2>a. ((e % IdxMod) + z) % IdxMod = (e + z) % IdxMod
    BY <1>0, <2>0, ModSum
  <2>1. (((x + d) % IdxMod) + (0 - y)) % IdxMod = ((x + d) + (0 - y)) % IdxMod
    BY <2>a DEF e, z
  <2>2. (x + d) + (0 - y) = x - y + d
    BY <1>0
  <2>3. ((x + d) % IdxMod) + (0 - y) = ((x + d) % IdxMod) - y
    BY <1>0
  <2> QED
    BY <2>1, <2>2, <2>3 DEF Sub, Add
<1>2. Sub(x, Sub(y, d)) = (x - y + d) % IdxMod
  <2> DEFINE e == y - d
  <2>0. e \in Int
    BY <1>0
  <2> HIDE DEF e
  <2>a. (x - (e % IdxMod)) % IdxMod = (x - e) % IdxMod
    BY <1>0, <2>0, ModSum
  <2>1. (x - ((y - d) % IdxMod)) % IdxMod = (x - (y - d)) % IdxMod
    BY <2>a DEF e
  <2>2. x - (y - d) = x - y + d
    BY <1>0
  <2> QED
    BY <2>1, <2>2 DEF Sub
<1>3. (x - y + d) % IdxMod <= ((x - y) % IdxMod) + d
  <2> DEFINE e == x - y
  <2>0. e \in Int
    BY <1>0
  <2> HIDE DEF e
  <2>1. (e + d) % IdxMod <= (e % IdxMod) + d
    BY <1>0, <2>0, ModSum
  <2> QED
    BY <2>1 DEF e
<1>4. Add(x, d) \in Idx /\ Sub(y, d) \in Idx /\ Sub(x, y) \in Nat
  BY <1>0 DEF Add, Sub, Idx
<1> QED
  BY <1>1, <1>2, <1>3, <1>4 DEF Sub

\* cdma_update_ptr follows pi over the end of the ring and of the counter.
LEMMA PointerFollows ==
  ASSUME NEW N \in Nat \ {0}, NEW q \in Nat, IdxMod = (2 * N) * q,
         NEW x \in Idx, NEW d \in 0..N
  PROVE  Add(x, d) % N = IF (x % N) + d < N THEN (x % N) + d ELSE (x % N) + d - N
<1> DEFINE t == (x + d) \div IdxMod
           r == x % N
<1>0. IdxMod \in Nat \ {0} /\ x \in Int /\ d \in Nat /\ d <= N
  BY IdxFacts DEF Idx
<1>1. t \in Int /\ x + d = IdxMod * t + Add(x, d) /\ Add(x, d) \in Int
  <2> DEFINE e == x + d
  <2>0. e \in Int
    BY <1>0
  <2> HIDE DEF e
  <2>1. e = IdxMod * (e \div IdxMod) + (e % IdxMod) /\ e \div IdxMod \in Int
    BY <1>0, <2>0, DivMod
  <2>2. e % IdxMod \in Int
    BY <1>0, <2>0, ModRange
  <2> QED
    BY <2>1, <2>2 DEF e, Add
<1> HIDE DEF t
<1>2. Add(x, d) = (x + d) + N * (-(2 * q * t))
  <2>1. IdxMod * t = N * (2 * q * t)
    BY <1>1
  <2>2. N * (-(2 * q * t)) = -(N * (2 * q * t))
    BY <1>1
  <2> QED
    BY <1>0, <1>1, <2>1, <2>2
<1>3. Add(x, d) % N = (x + d) % N
  <2> DEFINE u == -(2 * q * t)
  <2>1. u \in Int
    BY <1>1
  <2> HIDE DEF u
  <2> DEFINE e == x + d
  <2>3. e \in Int
    BY <1>0
  <2> HIDE DEF e
  <2>2. (e + N * u) % N = e % N
    BY <1>0, <2>1, <2>3, ModShift
  <2> QED
    BY <1>2, <2>2 DEF u, e
<1>4. (x + d) % N = (r + d) % N
  <2>1. N \in Nat \ {0} /\ x \in Int /\ d \in Int
    BY <1>0
  <2> QED
    BY ONLY <2>1, ModSum
<1>5. r \in 0..(N - 1)
  BY <1>0, ModRange
<1> HIDE DEF r
<1>6. CASE r + d < N
  BY <1>0, <1>3, <1>4, <1>5, <1>6 DEF r
<1>7. CASE ~(r + d < N)
  <2> DEFINE e == r + d - N
  <2>0. e \in Int /\ 0 <= e /\ e < N /\ r + d = e + N * 1
    BY <1>0, <1>5, <1>7
  <2> HIDE DEF e
  <2>1. (e + N * 1) % N = e % N
    BY <2>0, ModShift
  <2>2. e % N = e
    BY <2>0, ModSmall
  <2>3. (r + d) % N = e
    BY <2>0, <2>1, <2>2
  <2> QED
    BY <1>3, <1>4, <1>7, <2>3 DEF r, e
<1> QED
  BY <1>6, <1>7

\* What is known of a queue that was created.
Created(k) ==
  /\ k \in Nat /\ RingOf(sq, k)
  /\ Pow2[k] \in Nat \ {0}
  /\ sq.sqe_bb_cnt \in 1..4 /\ sq.depth \in Nat \ {0} /\ sq.max_sge \in Nat
  /\ sq.max_sge # 0 => sq.sqe_bb_cnt >= 2

\* It follows from the type of sq.
LEMMA CreatedFacts ==
  ASSUME TypeOK, sq # NoSq
  PROVE  \E k : Created(k)
<1>1. PICK cfg \in Configs : sq = Geometry(cfg)
  BY DEF TypeOK
<1>2. PICK k \in Nat : RingOf(sq, k)
  BY <1>1, GeometryFacts
<1>3. /\ sq.sqe_bb_cnt = SqeBbCnt(cfg.max_sge)
      /\ sq.depth = cfg.depth /\ sq.max_sge = cfg.max_sge
  BY <1>1 DEF Geometry
<1>4. cfg.depth \in Nat \ {0}
  BY SqeAssumption
<1>5. Pow2[k] \in Nat \ {0}
  BY Pow2Nat
<1> QED
  BY <1>2, <1>3, <1>4, <1>5, ReservedBlocks DEF Created

\* A request that passes cdma_check_sge_num takes the reserved blocks at most.
LEMMA BlocksReserved ==
  ASSUME TypeOK, sq # NoSq, NEW c \in Calls, ApiCheck(c), RwCheck(c.rmt, c.local),
         NEW wr, wr = BuildWr(c.op, c.rmt, c.local), CheckAtomicLen(wr), CheckSgeNum(wr)
  PROVE  /\ WqebbCnt(wr, FillSqe(wr)) \in 1..2
         /\ WqebbCnt(wr, FillSqe(wr)) <= sq.sqe_bb_cnt
<1>1. WqebbCnt(wr, FillSqe(wr)) \in 1..2
  BY CallLaid DEF Laid
<1>2. PICK k : Created(k)
  BY CreatedFacts
<1>3. wr.op \in Ops /\ Len(wr.src) = 1 /\ Len(wr.dst) = 1
  <2>1. c.op \in Ops
    BY CallFacts
  <2> QED
    BY <2>1 DEF BuildWr
<1>4. sq.max_sge # 0
  <2>1. CASE wr.op \in {"cas", "faa"}
    BY <2>1 DEF CheckSgeNum
  <2>2. CASE wr.op = "read"
    BY <1>2, <1>3, <2>2 DEF CheckSgeNum, Created
  <2>3. CASE wr.op = "notify"
    BY <1>2, <1>3, <2>3 DEF CheckSgeNum, Created
  <2>4. CASE wr.op = "write"
    BY <1>2, <1>3, <2>4 DEF CheckSgeNum, Created
  <2> QED
    BY <1>3, <2>1, <2>2, <2>3, <2>4 DEF Ops
<1> QED
  BY <1>1, <1>2, <1>4 DEF Created

(***************************************************************************)
(* SqeInv: the initial state and the steps.                                *)
(***************************************************************************)

\* A queue that is not created yet, with nothing posted.
LEMMA InitSqe == Init => SqeInv
<1> SUFFICES ASSUME Init PROVE SqeInv
  OBVIOUS
<1>1. TypeOK
  <2>1. 0 \in Idx
    BY IdxFacts DEF Idx
  <2>2. <<>> \in Seq([end : Idx, bb : 1..MaxSqeBb])
    OBVIOUS
  <2> QED
    BY <2>1, <2>2 DEF Init, TypeOK
<1>2. FreshInv /\ LastInv /\ CurrMatchesPi /\ RoomInv /\ DepthHonoured
  BY DEF Init, FreshInv, LastInv, CurrMatchesPi, RoomInv, DepthHonoured, Posted
<1> QED
  BY <1>1, <1>2 DEF SqeInv

\* cdma_u_create_sq: counters and pointer start at 0, and an empty ring has room.
LEMMA CreateStep ==
  ASSUME SqeInv, NEW cfg \in Configs, CreateSq(cfg)
  PROVE  SqeInv'
<1>1. /\ sq = NoSq /\ sq' = Geometry(cfg)
      /\ pi' = 0 /\ ci' = 0 /\ curr' = 0 /\ out' = <<>> /\ last' = last
      /\ out = <<>> /\ last.ret = "none"
  BY DEF CreateSq, SqeInv, FreshInv
<1>2. TypeOK'
  <2>1. 0 \in Idx
    BY IdxFacts DEF Idx
  <2> QED
    BY <1>1, <2>1 DEF TypeOK, SqeInv
<1>3. FreshInv'
  BY <1>1 DEF FreshInv
<1>4. LastInv'
  BY <1>1 DEF LastInv, Posted, SqeInv
<1>5. PICK k \in Nat : RingOf(sq', k)
  BY <1>1, GeometryFacts
<1>6. CurrMatchesPi'
  <2> DEFINE N == Pow2[k]
  <2>1. N \in Nat \ {0} /\ sq'.baseblk_cnt = N
    BY <1>5, Pow2Nat DEF RingOf
  <2> HIDE DEF N
  <2>2. 0 % N = 0
    BY <2>1
  <2> QED
    BY <1>1, <2>1, <2>2 DEF CurrMatchesPi, WqeBb
<1>7. RoomInv'
  <2>1. sq'.sqe_bb_cnt \in 1..4
    BY <1>1, ReservedBlocks DEF Geometry
  <2>2. Len(out') = 0
    BY <1>1
  <2>3. 0 % IdxMod = 0
    BY IdxFacts
  <2>4. (0 - 0) % IdxMod = 0
    BY <2>3
  <2> QED
    BY <1>1, <2>1, <2>2, <2>4 DEF RoomInv, Sub
<1>8. DepthHonoured'
  BY <1>1 DEF DepthHonoured
<1> QED
  BY <1>2, <1>3, <1>4, <1>6, <1>7, <1>8 DEF SqeInv

\* A call that fails changes nothing but its result.
LEMMA FailedStep ==
  ASSUME SqeInv, sq # NoSq, NEW why \in {"param", "request", "full"},
         last' = Failed(why), UNCHANGED <<sq, pi, ci, curr, out>>,
         why = "full" => Len(out) >= sq.depth - 1
  PROVE  SqeInv'
<1>1. /\ last'.ret = why /\ last'.sqe = NoSqe /\ last'.held = Len(out)
  BY DEF Failed
<1>2. TypeOK'
  <2>1. Len(out) \in Nat
    BY DEF SqeInv, TypeOK
  <2> QED
    BY <1>1, <2>1 DEF TypeOK, SqeInv
<1>3. FreshInv' /\ CurrMatchesPi' /\ RoomInv'
  BY DEF FreshInv, CurrMatchesPi, RoomInv, SqeInv, Sub
<1>4. LastInv'
  BY <1>1 DEF LastInv, Posted
<1>5. DepthHonoured'
  BY <1>1 DEF DepthHonoured
<1> QED
  BY <1>2, <1>3, <1>4, <1>5 DEF SqeInv

\* What RoomInv says, with the numbers named.
LEMMA RoomFacts ==
  ASSUME SqeInv, sq # NoSq
  PROVE  /\ Len(out) \in Nat /\ sq.sqe_bb_cnt \in 1..4
         /\ Sub(pi, ci) \in Nat
         /\ Sub(pi, ci) <= Len(out) * sq.sqe_bb_cnt + sq.sqe_bb_cnt - 1
         /\ \A j \in 1..Len(out) : /\ out[j].end \in Idx /\ out[j].bb \in 1..4
                                   /\ out[j].bb <= sq.sqe_bb_cnt
                                   /\ Sub(pi, out[j].end) \in Nat
                                   /\ Sub(pi, out[j].end) <= (Len(out) - j) * sq.sqe_bb_cnt
<1>1. PICK k : Created(k)
  BY CreatedFacts DEF SqeInv
<1>2. pi \in Idx /\ ci \in Idx /\ out \in Seq([end : Idx, bb : 1..MaxSqeBb])
  BY DEF SqeInv, TypeOK
<1>3. \A x, y \in Idx : Sub(x, y) \in Nat
  <2>1. IdxMod \in Nat \ {0}
    BY IdxFacts
  <2> QED
    BY <2>1 DEF Sub, Idx
<1>4. Len(out) \in Nat /\ \A j \in 1..Len(out) : out[j].end \in Idx /\ out[j].bb \in 1..4
  <2> DEFINE E == [end : Idx, bb : 1..MaxSqeBb]
  <2>0. out \in Seq(E)
    BY <1>2
  <2>2. \A e \in E : e.end \in Idx /\ e.bb \in 1..4
    BY DEF MaxSqeBb
  <2> HIDE DEF E
  <2>1. Len(out) \in Nat /\ \A j \in 1..Len(out) : out[j] \in E
    BY <2>0
  <2> QED
    BY <2>1, <2>2
<1> QED
  BY <1>1, <1>2, <1>3, <1>4 DEF Created, RoomInv, SqeInv

\* check_sq_overflow refuses only when depth - 1 requests are outstanding.
LEMMA FullMeansDepth ==
  ASSUME SqeInv, sq # NoSq, NEW bb \in 1..2, bb <= sq.sqe_bb_cnt, Overflow(bb)
  PROVE  Len(out) >= sq.depth - 1
<1> DEFINE n == Len(out)
           S == sq.sqe_bb_cnt
           d == sq.depth
           D == Sub(pi, ci)
<1>1. PICK k : Created(k)
  BY CreatedFacts DEF SqeInv
<1>2. n \in Nat /\ S \in 1..4 /\ D \in Nat /\ D <= n * S + S - 1
  BY RoomFacts
<1>3. d \in Nat
  BY <1>1 DEF Created
<1>4. S * d <= sq.baseblk_cnt /\ D + bb > sq.baseblk_cnt /\ sq.baseblk_cnt \in Nat
  BY <1>1 DEF Created, RingOf, Overflow
<1> HIDE DEF n, S, d, D
<1>5. S * d < n * S + S - 1 + S
  BY <1>2, <1>3, <1>4 DEF S
<1>6. SUFFICES ASSUME n <= d - 2 PROVE FALSE
  BY <1>2, <1>3 DEF n, d
<1>7. CASE S = 1
  BY <1>2, <1>3, <1>5, <1>6, <1>7
<1>8. CASE S = 2
  BY <1>2, <1>3, <1>5, <1>6, <1>8
<1>9. CASE S = 3
  BY <1>2, <1>3, <1>5, <1>6, <1>9
<1>10. CASE S = 4
  BY <1>2, <1>3, <1>5, <1>6, <1>10
<1> QED
  BY <1>2, <1>7, <1>8, <1>9, <1>10

\* A request that goes through: pointer and pi move on together.
LEMMA CurrStep ==
  ASSUME SqeInv, sq # NoSq, NEW bb \in 1..2, ~Overflow(bb), sq' = sq,
         curr' = UpdatePtr(curr, bb * WqeBb), pi' = Add(pi, bb)
  PROVE  CurrMatchesPi' /\ curr' \in Nat
<1>1. PICK k : Created(k)
  BY CreatedFacts DEF SqeInv
<1> DEFINE N == sq.baseblk_cnt
           r == pi % N
<1>2. N \in Nat \ {0} /\ sq.qbuf_size = 64 * N
  BY <1>1 DEF Created, RingOf, WqeBb
<1>3. PICK q \in Nat : IdxMod = (2 * N) * q
  BY <1>1 DEF Created, RingOf
<1>4. pi \in Idx /\ Sub(pi, ci) \in Nat
  BY RoomFacts DEF SqeInv, TypeOK
<1>5. bb \in 0..N
  BY <1>2, <1>4 DEF Overflow
<1>6. Add(pi, bb) % N = IF r + bb < N THEN r + bb ELSE r + bb - N
  <2> HIDE DEF N
  <2> QED
    BY <1>2, <1>3, <1>4, <1>5, PointerFollows
<1>7. r \in 0..(N - 1)
  <2>1. pi \in Int
    BY <1>4, IdxFacts DEF Idx
  <2> HIDE DEF N
  <2> QED
    BY <1>2, <2>1, ModRange
<1>8. curr = r * 64
  BY DEF SqeInv, CurrMatchesPi, WqeBb
<1>9. curr' = IF curr + bb * 64 < 64 * N THEN curr + bb * 64 ELSE curr + bb * 64 - 64 * N
  BY <1>2 DEF UpdatePtr, WqeBb
<1> HIDE DEF r, N
<1>10. curr' = (Add(pi, bb) % N) * 64 /\ curr' \in Nat
  <2>1. CASE r + bb < N
    BY <1>2, <1>5, <1>6, <1>7, <1>8, <1>9, <2>1
  <2>2. CASE ~(r + bb < N)
    BY <1>2, <1>5, <1>6, <1>7, <1>8, <1>9, <2>2
  <2> QED
    BY <2>1, <2>2
<1> QED
  BY <1>10 DEF CurrMatchesPi, N, WqeBb

\* Where the outstanding requests are after a request went through.
LEMMA RoomPosted ==
  ASSUME SqeInv, sq # NoSq, NEW bb \in 1..2, bb <= sq.sqe_bb_cnt,
         sq' = sq, ci' = ci, pi' = Add(pi, bb),
         out' = Append(out, [end |-> Add(pi, bb), bb |-> bb])
  PROVE  /\ RoomInv' /\ pi' \in Idx
         /\ out' \in Seq([end : Idx, bb : 1..MaxSqeBb])
<1> DEFINE n == Len(out)
           S == sq.sqe_bb_cnt
           new == [end |-> Add(pi, bb), bb |-> bb]
<1>1. /\ n \in Nat /\ S \in 1..4
      /\ Sub(pi, ci) \in Nat /\ Sub(pi, ci) <= n * S + S - 1
      /\ \A j \in 1..n : /\ out[j].end \in Idx /\ out[j].bb \in 1..4 /\ out[j].bb <= S
                         /\ Sub(pi, out[j].end) \in Nat
                         /\ Sub(pi, out[j].end) <= (n - j) * S
  BY RoomFacts
<1>2. pi \in Idx /\ ci \in Idx /\ out \in Seq([end : Idx, bb : 1..MaxSqeBb])
  BY DEF SqeInv, TypeOK
<1>3. /\ bb \in Nat /\ Add(pi, bb) \in Idx /\ pi' = Add(pi, bb) /\ pi' \in Idx
      /\ \A y \in Idx : Sub(Add(pi, bb), y) <= Sub(pi, y) + bb
      /\ \A y \in Idx : Sub(Add(pi, bb), y) \in Nat
  <2>1. bb \in Nat /\ pi \in Idx
    BY <1>2
  <2>2. Add(pi, bb) \in Idx
    BY ONLY <2>1, SubMoves
  <2>3. \A y \in Idx : Sub(Add(pi, bb), y) <= Sub(pi, y) + bb
    BY ONLY <2>1, SubMoves
  <2>4. \A y \in Idx : Sub(Add(pi, bb), y) \in Nat
    <3> DEFINE z == Add(pi, bb)
    <3>1. z \in Idx
      BY <2>2
    <3> HIDE DEF z
    <3>2. 0 \in Nat
      OBVIOUS
    <3>3. \A y \in Idx : Sub(z, y) \in Nat
      BY ONLY <3>1, <3>2, SubMoves
    <3> QED
      BY <3>3 DEF z
  <2> QED
    BY <2>1, <2>2, <2>3, <2>4
<1>4. new \in [end : Idx, bb : 1..MaxSqeBb]
  BY <1>3 DEF MaxSqeBb
<1>5. /\ out' \in Seq([end : Idx, bb : 1..MaxSqeBb]) /\ Len(out') = n + 1
      /\ \A j \in 1..n : out'[j] = out[j]
      /\ out'[n + 1] = new
  <2> DEFINE E == [end : Idx, bb : 1..MaxSqeBb]
  <2>1. out \in Seq(E) /\ new \in E /\ out' = Append(out, new)
    BY <1>2, <1>4
  <2> HIDE DEF E, new
  <2>2. out' \in Seq(E) /\ Len(out') = Len(out) + 1
    BY <2>1, AppendProperties
  <2>3. \A j \in 1..n : out'[j] = out[j]
    BY <2>1, AppendProperties
  <2>4. out'[n + 1] = new
    BY <2>1, AppendProperties
  <2> QED
    BY <2>2, <2>3, <2>4 DEF E
<1>6. Sub(pi', ci) <= (n + 1) * S + S - 1
  <2>1. Sub(pi', ci) <= Sub(pi, ci) + bb /\ Sub(pi', ci) \in Nat
    BY <1>2, <1>3
  <2> DEFINE P == n * S
             Q == (n + 1) * S
  <2>2. n \in Nat /\ S \in 1..4
    BY <1>1
  <2>3. Q = P + S /\ P \in Nat
    <3> HIDE DEF n, S
    <3> QED
      BY ONLY <2>2
  <2>4. Sub(pi, ci) \in Nat /\ Sub(pi, ci) <= P + S - 1 /\ bb \in Int /\ bb <= S
    BY <1>1
  <2> HIDE DEF n, S, P, Q
  <2>5. Sub(pi', ci) <= Q + S - 1
    BY ONLY <2>1, <2>2, <2>3, <2>4
  <2> QED
    BY <2>5 DEF Q
<1>7. ASSUME NEW j \in 1..(n + 1)
      PROVE  out'[j].bb <= S /\ Sub(pi', out'[j].end) <= (n + 1 - j) * S
  <2>1. CASE j \in 1..n
    <3> DEFINE y == out[j].end
               D == Sub(pi, y)
               D2 == Sub(pi', y)
               P == (n - j) * S
               Q == (n + 1 - j) * S
    <3>1. /\ out'[j] = out[j] /\ out[j].bb <= S /\ y \in Idx
          /\ D \in Nat /\ D <= P
      BY <1>1, <1>5, <2>1
    <3>2. D2 <= D + bb /\ D2 \in Nat
      BY <1>3, <3>1
    <3>3. Q = P + S /\ P \in Int
      <4>1. n \in Int /\ S \in Int /\ j \in Int
        BY <1>1
      <4> HIDE DEF n, S
      <4> QED
        BY ONLY <4>1
    <3>4. bb <= S /\ S \in Int /\ bb \in Int
      BY <1>1
    <3>5. Sub(pi', out'[j].end) = D2
      BY <3>1
    <3> HIDE DEF n, S, y, D, D2, P, Q
    <3>6. D2 <= Q
      BY ONLY <3>1, <3>2, <3>3, <3>4
    <3> QED
      BY <3>1, <3>5, <3>6 DEF Q
  <2>2. CASE j = n + 1
    <3>1. out'[j].bb = bb /\ out'[j].end = pi'
      BY <1>5, <2>2
    <3>2. Sub(pi', pi') = 0
      <4>1. pi' \in Int /\ IdxMod \in Nat \ {0}
        BY <1>3, IdxFacts DEF Idx
      <4>2. pi' - pi' = 0 /\ 0 % IdxMod = 0
        BY <4>1
      <4> QED
        BY <4>2 DEF Sub
    <3>3. (n + 1 - j) * S = 0
      <4> HIDE DEF n, S
      <4>1. n + 1 - j = 0
        BY <1>1, <2>2
      <4> QED
        BY <1>1, <4>1
    <3>4. bb <= S
      OBVIOUS
    <3> DEFINE Q == (n + 1 - j) * S
    <3>5. Sub(pi', out'[j].end) <= Q
      <4>1. Sub(pi', out'[j].end) = 0
        BY <3>1, <3>2
      <4> HIDE DEF Q
      <4>2. Q = 0
        BY <3>3 DEF Q
      <4> QED
        BY ONLY <4>1, <4>2
    <3>6. out'[j].bb <= S
      BY <3>1, <3>4
    <3> QED
      BY <3>5, <3>6
  <2> QED
    BY <1>1, <2>1, <2>2
<1>8. RoomInv'
  <2>1. Len(out') = n + 1 /\ sq'.sqe_bb_cnt = S /\ ci' = ci
    BY <1>5
  <2> HIDE DEF n, S
  <2>2. \A j \in 1..Len(out') :
           /\ out'[j].bb <= sq'.sqe_bb_cnt
           /\ Sub(pi', out'[j].end) <= (Len(out') - j) * sq'.sqe_bb_cnt
    <3> SUFFICES ASSUME NEW j \in 1..Len(out')
                 PROVE  /\ out'[j].bb <= sq'.sqe_bb_cnt
                        /\ Sub(pi', out'[j].end) <= (Len(out') - j) * sq'.sqe_bb_cnt
      OBVIOUS
    <3>1. j \in 1..(n + 1)
      BY <2>1
    <3>2. out'[j].bb <= S /\ Sub(pi', out'[j].end) <= (n + 1 - j) * S
      BY ONLY <3>1, <1>7
    <3>3. (Len(out') - j) * sq'.sqe_bb_cnt = (n + 1 - j) * S
      <4> DEFINE L == Len(out')
                 T == sq'.sqe_bb_cnt
      <4>1. L = n + 1 /\ T = S
        BY <2>1
      <4>2. n \in Int /\ S \in Int /\ j \in Int
        BY <1>1, <3>1 DEF n, S
      <4> HIDE DEF L, T
      <4>3. (L - j) * T = (n + 1 - j) * S
        BY ONLY <4>1, <4>2
      <4> QED
        BY <4>3 DEF L, T
    <3>4. sq'.sqe_bb_cnt = S
      BY <2>1
    <3> QED
      BY <3>2, <3>3, <3>4, Zenon
  <2>3. Sub(pi', ci') <= Len(out') * sq'.sqe_bb_cnt + sq'.sqe_bb_cnt - 1
    BY <1>6, <2>1
  <2> QED
    BY <2>2, <2>3 DEF RoomInv, Sub
<1> QED
  BY <1>3, <1>5, <1>8

\* cdma_post_one_wr, refusing or posting.
LEMMA PostedStep ==
  ASSUME SqeInv, NEW c \in Calls, CallPosted(c)
  PROVE  SqeInv'
<1> DEFINE wr  == BuildWr(c.op, c.rmt, c.local)
           sqe == FillSqe(wr)
           bb  == WqebbCnt(wr, sqe)
<1>1. /\ sq # NoSq /\ ApiCheck(c) /\ RwCheck(c.rmt, c.local)
      /\ CheckSgeNum(wr) /\ CheckAtomicLen(wr)
      /\ sq' = sq /\ ci' = ci
  BY DEF CallPosted, Accepted
<1>2. bb \in 1..2 /\ bb <= sq.sqe_bb_cnt
  <2>1. TypeOK
    BY DEF SqeInv
  <2> QED
    BY <1>1, <2>1, BlocksReserved
<1>3. \/ /\ Overflow(bb) /\ last' = Failed("full")
         /\ UNCHANGED <<pi, curr, out>>
      \/ /\ ~Overflow(bb)
         /\ curr' = UpdatePtr(curr, bb * WqeBb)
         /\ pi' = Add(pi, bb)
         /\ out' = Append(out, [end |-> Add(pi, bb), bb |-> bb])
         /\ last' = [ret |-> "ok", len |-> c.local.len, sqe |-> sqe,
                     bb |-> bb, held |-> Len(out)]
  BY DEF CallPosted
<1>4. CASE /\ Overflow(bb) /\ last' = Failed("full")
           /\ UNCHANGED <<pi, curr, out>>
  <2> HIDE DEF bb
  <2>1. Len(out) >= sq.depth - 1
    BY <1>1, <1>2, <1>4, FullMeansDepth
  <2> QED
    BY <1>1, <1>4, <2>1, FailedStep
<1>5. CASE /\ ~Overflow(bb)
           /\ curr' = UpdatePtr(curr, bb * WqeBb)
           /\ pi' = Add(pi, bb)
           /\ out' = Append(out, [end |-> Add(pi, bb), bb |-> bb])
           /\ last' = [ret |-> "ok", len |-> c.local.len, sqe |-> sqe,
                       bb |-> bb, held |-> Len(out)]
  <2>1. LastInv'
    <3>1. last'.ret = "ok" /\ last'.len = c.local.len /\ last'.sqe = sqe /\ last'.bb = bb
      BY <1>5
    <3>2. /\ ApiCheck(c) /\ RwCheck(c.rmt, c.local) /\ CheckAtomicLen(wr)
          /\ last'.len = c.local.len
          /\ last'.sqe = FillSqe(wr)
          /\ last'.bb = WqebbCnt(wr, last'.sqe)
      BY <1>1, <3>1
    <3> QED
      BY <3>1, <3>2 DEF LastInv, Posted
  <2> HIDE DEF bb, sqe, wr
  <2>2. CurrMatchesPi' /\ curr' \in Nat
    BY <1>1, <1>2, <1>5, CurrStep
  <2>3. /\ RoomInv' /\ pi' \in Idx
        /\ out' \in Seq([end : Idx, bb : 1..MaxSqeBb])
    BY <1>1, <1>2, <1>5, RoomPosted
  <2>4. last'.ret = "ok" /\ last'.held \in Nat
    BY <1>1, <1>5, RoomFacts
  <2>5. TypeOK'
    BY <1>1, <2>2, <2>3, <2>4 DEF TypeOK, SqeInv
  <2>6. FreshInv' /\ DepthHonoured'
    BY <1>1, <2>4 DEF FreshInv, DepthHonoured
  <2> QED
    BY <2>1, <2>2, <2>3, <2>5, <2>6 DEF SqeInv
<1> QED
  BY <1>3, <1>4, <1>5

\* A completion: the device names any block of the oldest request.
LEMMA CompleteStep ==
  ASSUME SqeInv, NEW i \in 1..MaxSqeBb, Complete(i)
  PROVE  SqeInv'
<1> DEFINE n == Len(out)
           S == sq.sqe_bb_cnt
           h == Head(out)
           E == [end : Idx, bb : 1..MaxSqeBb]
<1>0. sq # NoSq
  BY DEF SqeInv, FreshInv, Complete
<1>1. /\ n \in Nat /\ S \in 1..4
      /\ \A j \in 1..n : /\ out[j].end \in Idx /\ out[j].bb \in 1..4 /\ out[j].bb <= S
                         /\ Sub(pi, out[j].end) \in Nat
                         /\ Sub(pi, out[j].end) <= (n - j) * S
  BY <1>0, RoomFacts
<1>2. /\ out # <<>> /\ i \in 1..h.bb
      /\ ci' = Sub(h.end, h.bb - i) /\ out' = Tail(out)
      /\ sq' = sq /\ pi' = pi /\ curr' = curr /\ last' = last
  BY DEF Complete
<1>3. pi \in Idx /\ out \in Seq(E)
  BY DEF SqeInv, TypeOK
<1>4. /\ n >= 1 /\ h = out[1]
      /\ out' \in Seq(E) /\ Len(out') = n - 1
      /\ \A j \in 1..(n - 1) : out'[j] = out[j + 1]
  <2> HIDE DEF E
  <2>1. n \in Nat /\ n # 0
    BY <1>2, <1>3, EmptySeq
  <2>2. h = out[1]
    BY <1>3, <2>1
  <2>3. Tail(out) \in Seq(E) /\ Len(Tail(out)) = n - 1
    BY <1>2, <1>3, HeadTailProperties
  <2>4. \A j \in 1..Len(Tail(out)) : Tail(out)[j] = out[j + 1]
    BY <1>2, <1>3, HeadTailProperties
  <2> QED
    BY <1>2, <2>1, <2>2, <2>3, <2>4
<1> HIDE DEF E, h
<1> DEFINE x == h.end
           d == h.bb - i
<1>5. /\ x \in Idx /\ d \in Nat /\ d <= S - 1
      /\ Sub(pi, x) \in Nat /\ Sub(pi, x) <= (n - 1) * S
  <2>1. 1 \in 1..n
    BY <1>1, <1>4
  <2>2. /\ h.end \in Idx /\ h.bb \in 1..4 /\ h.bb <= S
        /\ Sub(pi, h.end) \in Nat /\ Sub(pi, h.end) <= (n - 1) * S
    BY <1>1, <1>4, <2>1
  <2>3. d \in Nat /\ d <= S - 1
    BY <1>1, <1>2, <2>2
  <2> QED
    BY <2>2, <2>3
<1> HIDE DEF x, d
<1>6. ci' \in Idx /\ Sub(pi, ci') <= Sub(pi, x) + d
  BY <1>2, <1>3, <1>5, SubMoves DEF x, d
<1>7. Sub(pi, ci') <= (n - 1) * S + S - 1
  <2>1. Sub(pi, ci') \in Nat
    BY <1>3, <1>6, SubMoves
  <2>2. (n - 1) * S \in Int
    <3> HIDE DEF n, S
    <3> QED
      BY <1>1
  <2>3. S \in Int
    BY <1>1
  <2> HIDE DEF n, S
  <2> QED
    BY <1>5, <1>6, <2>1, <2>2, <2>3
<1>8. ASSUME NEW j \in 1..(n - 1)
      PROVE  out'[j].bb <= S /\ Sub(pi, out'[j].end) <= (n - 1 - j) * S
  <2>1. j + 1 \in 1..n /\ out'[j] = out[j + 1]
    BY <1>1, <1>4
  <2>2. n - (j + 1) = n - 1 - j
    BY <1>1
  <2>3. out[j + 1].bb <= S /\ Sub(pi, out[j + 1].end) <= (n - (j + 1)) * S
    BY <1>1, <2>1
  <2> HIDE DEF n, S
  <2> QED
    BY <2>1, <2>2, <2>3
<1>9. RoomInv'
  <2> HIDE DEF n
  <2> QED
    BY <1>2, <1>4, <1>7, <1>8 DEF RoomInv
<1>10. TypeOK'
  BY <1>2, <1>4, <1>6 DEF TypeOK, SqeInv, E
<1>11. FreshInv' /\ LastInv' /\ CurrMatchesPi' /\ DepthHonoured'
  BY <1>0, <1>2 DEF FreshInv, LastInv, CurrMatchesPi, DepthHonoured, Posted, SqeInv
<1> QED
  BY <1>9, <1>10, <1>11 DEF SqeInv

\* SqeInv is inductive: one case per action.
LEMMA NextSqe == SqeInv /\ [Next]_vars => SqeInv'
<1> SUFFICES ASSUME SqeInv, [Next]_vars PROVE SqeInv'
  OBVIOUS
<1>1. ASSUME NEW cfg \in Configs, CreateSq(cfg) PROVE SqeInv'
  BY <1>1, CreateStep
<1>2. ASSUME NEW c \in Calls, CallInvalid(c) PROVE SqeInv'
  <2>1. sq # NoSq /\ last' = Failed("param") /\ UNCHANGED <<sq, pi, ci, curr, out>>
    BY <1>2 DEF CallInvalid
  <2> QED
    BY <2>1, FailedStep
<1>3. ASSUME NEW c \in Calls, CallRejected(c) PROVE SqeInv'
  <2>1. sq # NoSq /\ last' = Failed("request") /\ UNCHANGED <<sq, pi, ci, curr, out>>
    BY <1>3 DEF CallRejected, Accepted
  <2> QED
    BY <2>1, FailedStep
<1>4. ASSUME NEW c \in Calls, CallPosted(c) PROVE SqeInv'
  BY <1>4, PostedStep
<1>5. ASSUME NEW i \in 1..MaxSqeBb, Complete(i) PROVE SqeInv'
  BY <1>5, CompleteStep
<1>6. CASE UNCHANGED vars
  BY <1>6 DEF vars, SqeInv, TypeOK, FreshInv, LastInv, CurrMatchesPi, RoomInv,
              DepthHonoured, Posted, Sub
<1> QED
  BY <1>1, <1>2, <1>3, <1>4, <1>5, <1>6 DEF Next

\* After any sequence of calls and completions, on any device configuration:
\* pointer, counters and outstanding requests of the send queue agree, and the
\* WQE of the last call is the one its segments ask for.
THEOREM SqeInvariance == Spec => []SqeInv
BY InitSqe, NextSqe, PTL DEF Spec

\* The block of pi is the one qbuf_curr points to, over every wrap of the ring
\* and of the 32-bit counter (cdma_update_ptr against the mask of the slot).
THEOREM PointerOnPi == Spec => []CurrMatchesPi
<1>1. SqeInv => CurrMatchesPi
  BY DEF SqeInv
<1> QED
  BY <1>1, SqeInvariance, PTL

\* check_sq_overflow refuses a request only with depth - 1 outstanding: the
\* blocks cdma_u_create_sq reserves per request cover every request it accepts.
THEOREM DepthKept == Spec => []DepthHonoured
<1>1. SqeInv => DepthHonoured
  BY DEF SqeInv
<1> QED
  BY <1>1, SqeInvariance, PTL

\* The ring cdma_u_alloc_queue_buf allocates is a power of two of blocks, whole
\* pages, and divides the counters' range, for every depth and element limit.
THEOREM RingIsPower == Spec => []RingGeometry
<1>1. SqeInv => RingGeometry
  <2> SUFFICES ASSUME SqeInv, sq # NoSq PROVE RingGeometry
    BY DEF RingGeometry
  <2>1. PICK k : Created(k)
    BY CreatedFacts DEF SqeInv
  <2> DEFINE N == Pow2[k]
  <2>2. /\ k \in Nat /\ N \in Nat \ {0}
        /\ sq.baseblk_cnt = N /\ sq.qbuf_size = 64 * N /\ sq.qbuf_size % PageSize = 0
    BY <2>1 DEF Created, RingOf, WqeBb
  <2>3. PICK q \in Nat : IdxMod = (2 * N) * q
    BY <2>1 DEF Created, RingOf
  <2>4. k \in 0..N
    BY <2>2, Pow2Nat
  <2>5. IdxMod % (2 * N) = 0
    <3> HIDE DEF N
    <3> DEFINE M == 2 * N
    <3>1. M \in Nat \ {0} /\ IdxMod = 0 + M * q
      BY <2>2, <2>3
    <3> HIDE DEF M
    <3>2. (0 + M * q) % M = 0 % M
      BY <3>1, ModShift
    <3>3. 0 % M = 0
      BY <3>1
    <3> QED
      BY <3>1, <3>2, <3>3 DEF M
  <2>6. N * 64 = 64 * N
    BY <2>2
  <2> QED
    BY <2>2, <2>4, <2>5, <2>6 DEF RingGeometry, WqeBb
<1> QED
  BY <1>1, SqeInvariance, PTL

\* What LastInv says of the WQE of a request that was posted.
LEMMA PostedLaid ==
  ASSUME LastInv, Posted
  PROVE  /\ \E end \in Nat : Laid(last.sqe, last.bb, end)
         /\ Apart(last.sqe)
         /\ last.sqe.rmt = "rmt"
         /\ last.len < WordMod => last.sqe.sges = <<[seg |-> "local", len |-> last.len]>>
<1>1. PICK c \in Calls :
        LET wr == BuildWr(c.op, c.rmt, c.local)
        IN  /\ ApiCheck(c) /\ RwCheck(c.rmt, c.local) /\ CheckAtomicLen(wr)
            /\ last.len = c.local.len
            /\ last.sqe = FillSqe(wr)
            /\ last.bb = WqebbCnt(wr, last.sqe)
  BY DEF LastInv
<1> DEFINE wr == BuildWr(c.op, c.rmt, c.local)
<1>2. /\ \E end \in Nat : Laid(FillSqe(wr), WqebbCnt(wr, FillSqe(wr)), end)
      /\ Apart(FillSqe(wr))
      /\ FillSqe(wr).rmt = "rmt"
      /\ c.local.len < WordMod
           => FillSqe(wr).sges = <<[seg |-> "local", len |-> c.local.len]>>
  BY <1>1, CallLaid
<1> QED
  BY <1>1, <1>2

\* The sizing of a request (cdma_get_wqebb_cnt) agrees with what the fill
\* functions write, for every operation, atomic width and length.
THEOREM BlocksExact == Spec => []BlockCountExact
<1>1. SqeInv => BlockCountExact
  <2> SUFFICES ASSUME SqeInv, Posted PROVE BlockCountExact
    BY DEF BlockCountExact
  <2>1. PICK top \in Nat : Laid(last.sqe, last.bb, top)
    BY PostedLaid DEF SqeInv
  <2> DEFINE Ends == {FieldEnd(f) : f \in last.sqe.fields}
             Most(e) == \A f \in last.sqe.fields : FieldEnd(f) <= e
             end == CHOOSE e \in Ends : Most(e)
  <2>2. top \in Ends /\ Most(top)
    BY <2>1 DEF Laid
  <2>3. end \in Ends /\ Most(end)
    BY <2>2
  <2>4. \A e \in Ends : e \in Nat /\ e <= top
    BY <2>1 DEF Laid
  <2>5. top <= end
    BY <2>1, <2>3 DEF Laid
  <2>6. end = top
    <3> HIDE DEF end, Ends
    <3> QED
      BY <2>3, <2>4, <2>5
  <2>7. /\ WqeBb * (last.bb - 1) < top /\ top <= WqeBb * last.bb
        /\ last.bb \in 1..MaxSqeBb
    BY <2>1 DEF Laid, MaxSqeBb
  <2>8. /\ WqeBb * (last.bb - 1) < end /\ end <= WqeBb * last.bb
        /\ last.bb \in 1..MaxSqeBb
    <3> HIDE DEF end
    <3> QED
      BY <2>6, <2>7
  <2> QED
    BY <2>8 DEF BlockCountExact
<1> QED
  BY <1>1, SqeInvariance, PTL

\* No two parts of a WQE share a byte, whatever the operation.
THEOREM FieldsApart == Spec => []FieldsDisjoint
<1>1. SqeInv => FieldsDisjoint
  <2> SUFFICES ASSUME SqeInv PROVE FieldsDisjoint
    OBVIOUS
  <2>1. CASE Posted
    <3>1. Apart(last.sqe)
      BY <2>1, PostedLaid DEF SqeInv
    <3> QED
      BY <3>1 DEF FieldsDisjoint, Apart
  <2>2. CASE ~Posted
    <3>1. last.sqe.fields = {}
      BY <2>2 DEF SqeInv, LastInv, NoSqe
    <3> QED
      BY <3>1 DEF FieldsDisjoint
  <2> QED
    BY <2>1, <2>2
<1> QED
  BY <1>1, SqeInvariance, PTL

\* An accepted request moves the whole local segment against the remote one, in
\* either direction, as long as its length fits the 32 bits of an element.
THEOREM SegmentWhole == Spec => []WholeSegment
<1>1. SqeInv => WholeSegment
  <2> SUFFICES ASSUME SqeInv, Posted, last.len < WordMod PROVE WholeSegment
    BY DEF WholeSegment
  <2>1. /\ last.sqe.rmt = "rmt"
        /\ last.sqe.sges = <<[seg |-> "local", len |-> last.len]>>
    BY PostedLaid DEF SqeInv
  <2> QED
    BY <2>1 DEF WholeSegment
<1> QED
  BY <1>1, SqeInvariance, PTL
============================================================================

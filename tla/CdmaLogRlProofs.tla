-------------------------- MODULE CdmaLogRlProofs --------------------------
(***************************************************************************)
(* Proofs about the log rate limiter, for any number of callers, burst and *)
(* interval: LogInv of CdmaLogRl is inductive.  The number of messages of  *)
(* a window is a sum over a set, so the proof starts with what it needs to *)
(* know of sums, by induction on the size of the set: a least              *)
(* counterexample (NatMin) is contradicted.                                *)
(***************************************************************************)
EXTENDS CdmaLogRl, CdmaRingLemmas, FiniteSetTheorems

Pick(s) == CHOOSE x \in s : TRUE

SumRec(g, f, s) == IF s = {} THEN 0 ELSE f[Pick(s)] + g[s \ {Pick(s)}]

\* g adds up f over the subsets of S.
Adds(g, f, S) == g = [s \in SUBSET S |-> SumRec(g, f, s)]

\* The same over the subsets of at most n elements.
Small(S, n)      == {s \in SUBSET S : Cardinality(s) <= n}
AddsTo(g, f, S, n) == g = [s \in Small(S, n) |-> SumRec(g, f, s)]

SumOf(f, S) == MapThenSumSet(LAMBDA t : f[t], S)

\* What the recursion removes from a set.
LEMMA PickFacts ==
  ASSUME NEW S, IsFiniteSet(S), NEW s \in SUBSET S, s # {}
  PROVE  /\ Pick(s) \in s
         /\ s \ {Pick(s)} \in SUBSET S
         /\ Cardinality(s) \in Nat
         /\ Cardinality(s \ {Pick(s)}) = Cardinality(s) - 1
<1>1. Pick(s) \in s
  BY DEF Pick
<1>2. IsFiniteSet(s)
  BY FS_Subset
<1>3. Cardinality(s) \in Nat /\ Cardinality(s \ {Pick(s)}) = Cardinality(s) - 1
  BY <1>1, <1>2, FS_CardinalityType, FS_RemoveElement
<1> QED
  BY <1>1, <1>3

\* The recursion has a solution on small subsets, by least counterexample.
LEMMA SumToExists ==
  ASSUME NEW D, NEW f \in [D -> Nat], NEW S \in SUBSET D, IsFiniteSet(S), NEW n \in Nat
  PROVE  \E g \in [Small(S, n) -> Nat] : AddsTo(g, f, S, n)
<1> DEFINE Bad == {k \in Nat : ~\E g \in [Small(S, k) -> Nat] : AddsTo(g, f, S, k)}
<1> SUFFICES ASSUME Bad # {} PROVE FALSE
  OBVIOUS
<1>1. PICK b \in Bad : \A c \in Bad : b <= c
  BY NatMin
<1>2. b \in Nat /\ ~\E g \in [Small(S, b) -> Nat] : AddsTo(g, f, S, b)
  BY <1>1
<1>3. CASE b = 0
  <2>1. \A s \in Small(S, 0) : s = {}
    <3> SUFFICES ASSUME NEW s \in Small(S, 0), s # {} PROVE FALSE
      OBVIOUS
    <3>1. Cardinality(s) \in Nat /\ Cardinality(s \ {Pick(s)}) = Cardinality(s) - 1
          /\ Cardinality(s) <= 0 /\ s \ {Pick(s)} \in SUBSET S
      BY PickFacts DEF Small
    <3>2. Cardinality(s \ {Pick(s)}) \in Nat
      BY <3>1, FS_Subset, FS_CardinalityType
    <3> QED
      BY <3>1, <3>2
  <2> DEFINE g == [s \in Small(S, 0) |-> 0]
  <2>2. g \in [Small(S, 0) -> Nat] /\ AddsTo(g, f, S, 0)
    BY <2>1 DEF AddsTo, SumRec
  <2> QED
    BY <1>2, <1>3, <2>2
<1>4. CASE b # 0
  <2>1. b - 1 \in Nat /\ b - 1 \notin Bad
    BY <1>1, <1>2, <1>4
  <2>2. PICK h \in [Small(S, b - 1) -> Nat] : AddsTo(h, f, S, b - 1)
    BY <2>1
  <2> DEFINE g == [s \in Small(S, b) |-> SumRec(h, f, s)]
  <2>3. ASSUME NEW s \in Small(S, b), s # {}
        PROVE  s \ {Pick(s)} \in Small(S, b - 1) /\ s \ {Pick(s)} \in Small(S, b) /\ f[Pick(s)] \in Nat
    BY <2>3, <1>2, PickFacts DEF Small
  <2>4. g \in [Small(S, b) -> Nat]
    BY <2>3, <2>2 DEF SumRec
  <2>5. \A s \in Small(S, b - 1) : h[s] = SumRec(h, f, s)
    BY <2>2 DEF AddsTo
  <2>6. ASSUME NEW s \in Small(S, b)
        PROVE  SumRec(h, f, s) = SumRec(g, f, s)
    <3>1. CASE s = {}
      BY <3>1 DEF SumRec
    <3>2. CASE s # {}
      <4>1. h[s \ {Pick(s)}] = g[s \ {Pick(s)}]
        BY <2>3, <2>5, <3>2
      <4> QED
        BY <3>2, <4>1 DEF SumRec
    <3> QED
      BY <3>1, <3>2
  <2>7. AddsTo(g, f, S, b)
    BY <2>6 DEF AddsTo
  <2> QED
    BY <1>2, <2>4, <2>7
<1> QED
  BY <1>3, <1>4

\* The sum over the subsets of a finite set exists.
LEMMA SumExists ==
  ASSUME NEW D, NEW f \in [D -> Nat], NEW S \in SUBSET D, IsFiniteSet(S)
  PROVE  \E g \in [SUBSET S -> Nat] : Adds(g, f, S)
<1>1. Cardinality(S) \in Nat /\ \A s \in SUBSET S : Cardinality(s) <= Cardinality(S)
  BY FS_CardinalityType, FS_Subset
<1>2. Small(S, Cardinality(S)) = SUBSET S
  BY <1>1 DEF Small
<1>3. PICK g \in [Small(S, Cardinality(S)) -> Nat] : AddsTo(g, f, S, Cardinality(S))
  BY <1>1, SumToExists
<1> QED
  BY <1>2, <1>3 DEF AddsTo, Adds

\* Solutions agree where both are defined.
LEMMA SumUnique ==
  ASSUME NEW f, NEW S, IsFiniteSet(S), NEW T \in SUBSET S,
         NEW g, Adds(g, f, S), NEW h, Adds(h, f, T)
  PROVE  \A s \in SUBSET T : g[s] = h[s]
<1> DEFINE Bad == {k \in Nat : \E s \in SUBSET T : Cardinality(s) = k /\ g[s] # h[s]}
<1>0. \A s \in SUBSET T : s \in SUBSET S /\ Cardinality(s) \in Nat
  BY FS_Subset, FS_CardinalityType
<1> SUFFICES ASSUME Bad # {} PROVE FALSE
  BY <1>0
<1>1. PICK b \in Bad : \A c \in Bad : b <= c
  BY NatMin
<1>2. PICK s \in SUBSET T : Cardinality(s) = b /\ g[s] # h[s]
  BY <1>1
<1>3. g[s] = SumRec(g, f, s) /\ h[s] = SumRec(h, f, s)
  BY <1>0 DEF Adds
<1>4. s # {}
  BY <1>2, <1>3 DEF SumRec
<1> DEFINE t == s \ {Pick(s)}
<1>5. t \in SUBSET T /\ Cardinality(t) = b - 1 /\ b - 1 \in Nat
  <2>1. Cardinality(t) = Cardinality(s) - 1
    BY <1>0, <1>4, PickFacts
  <2> QED
    BY <1>0, <1>2, <2>1
<1>6. g[t] = h[t]
  <2>1. b - 1 \notin Bad
    BY <1>1, <1>5
  <2> QED
    BY <1>5, <2>1
<1> QED
  BY <1>2, <1>3, <1>4, <1>6 DEF SumRec

\* The order of summation does not matter.
LEMMA SumAnyOrder ==
  ASSUME NEW D, NEW f \in [D -> Nat], NEW S \in SUBSET D, IsFiniteSet(S),
         NEW g \in [SUBSET S -> Nat], Adds(g, f, S)
  PROVE  \A s \in SUBSET S : \A x \in s : g[s] = f[x] + g[s \ {x}]
<1> DEFINE Wrong(s) == \E x \in s : g[s] # f[x] + g[s \ {x}]
           Bad == {k \in Nat : \E s \in SUBSET S : Cardinality(s) = k /\ Wrong(s)}
<1>0. \A s \in SUBSET S : Cardinality(s) \in Nat
  BY FS_Subset, FS_CardinalityType
<1> SUFFICES ASSUME Bad # {} PROVE FALSE
  BY <1>0
<1>1. PICK b \in Bad : \A c \in Bad : b <= c
  BY NatMin
<1>2. PICK s \in SUBSET S : Cardinality(s) = b /\ Wrong(s)
  BY <1>1
<1>3. PICK x \in s : g[s] # f[x] + g[s \ {x}]
  BY <1>2
<1> DEFINE y == Pick(s)
           u == s \ {y}
           v == s \ {x}
           w == (s \ {x}) \ {y}
<1>4. y \in s /\ g[s] = f[y] + g[u]
  <2>1. g[s] = SumRec(g, f, s)
    BY DEF Adds
  <2> QED
    BY <1>3, <2>1, PickFacts DEF SumRec
<1>5. x # y
  BY <1>3, <1>4
<1>6. /\ u \in SUBSET S /\ v \in SUBSET S /\ w \in SUBSET S
      /\ Cardinality(u) = b - 1 /\ Cardinality(v) = b - 1
      /\ b - 1 \in Nat
  <2>1. IsFiniteSet(s)
    BY FS_Subset
  <2>2. Cardinality(u) = Cardinality(s) - 1 /\ Cardinality(v) = Cardinality(s) - 1
    BY <1>4, <2>1, FS_RemoveElement
  <2> HIDE DEF u, v
  <2>3. u \in SUBSET S /\ v \in SUBSET S /\ w \in SUBSET S
    BY DEF u, v
  <2> QED
    BY <1>0, <1>2, <2>2, <2>3
<1>7. ~Wrong(u) /\ ~Wrong(v)
  <2>1. b - 1 \notin Bad
    BY <1>1, <1>6
  <2> QED
    BY <1>6, <2>1
<1>8. g[u] = f[x] + g[w] /\ g[v] = f[y] + g[w]
  <2>1. x \in u /\ y \in v /\ u \ {x} = w /\ v \ {y} = w
    BY <1>4, <1>5
  <2> HIDE DEF u, v, w, y
  <2> QED
    BY <1>7, <2>1
<1>9. f[x] \in Nat /\ f[y] \in Nat /\ g[w] \in Nat
  BY <1>4, <1>6
<1> HIDE DEF u, v, w, y
<1>10. g[s] # f[x] + g[v]
  BY <1>3 DEF v
<1> QED
  BY <1>4, <1>8, <1>9, <1>10

\* g adds up f over the subsets of S, and S to the sum of the library.
SumBy(g, f, S) == g \in [SUBSET S -> Nat] /\ Adds(g, f, S) /\ SumOf(f, S) = g[S]

\* The sum of the library is the one of the recursion.
LEMMA SumIsFold ==
  ASSUME NEW D, NEW f \in [D -> Nat], NEW S \in SUBSET D, IsFiniteSet(S)
  PROVE  \E g : SumBy(g, f, S)
<1>1. PICK g \in [SUBSET S -> Nat] : Adds(g, f, S)
  BY SumExists
<1> DEFINE iter == CHOOSE h : h = [s \in SUBSET S |->
             IF s = {} THEN 0 ELSE LET x == CHOOSE x \in s : TRUE IN f[x] + h[s \ {x}]]
<1>2. SumOf(f, S) = iter[S]
  BY DEF SumOf, MapThenSumSet, MapThenFoldSet
<1>3. Adds(iter, f, S)
  BY <1>1 DEF Adds, SumRec, Pick
<1> HIDE DEF iter
<1>4. \A s \in SUBSET S : g[s] = iter[s]
  BY <1>1, <1>3, SumUnique
<1> QED
  BY <1>1, <1>2, <1>4 DEF SumBy

\* A sum of naturals is one.
LEMMA SumNat ==
  ASSUME NEW D, NEW f \in [D -> Nat], NEW S \in SUBSET D, IsFiniteSet(S)
  PROVE  SumOf(f, S) \in Nat
<1>1. PICK g : SumBy(g, f, S)
  BY SumIsFold
<1> QED
  BY <1>1 DEF SumBy

\* Any element can be taken out of a sum.
LEMMA SumRemove ==
  ASSUME NEW D, NEW f \in [D -> Nat], NEW S \in SUBSET D, IsFiniteSet(S), NEW x \in S
  PROVE  SumOf(f, S) = f[x] + SumOf(f, S \ {x})
<1> DEFINE T == S \ {x}
<1>0. T \in SUBSET D /\ IsFiniteSet(T) /\ T \in SUBSET S
  BY FS_Subset
<1> HIDE DEF T
<1>1. PICK g : SumBy(g, f, S)
  BY SumIsFold
<1>2. PICK h : SumBy(h, f, T)
  BY <1>0, SumIsFold
<1>3. g[T] = h[T]
  BY <1>0, <1>1, <1>2, SumUnique DEF SumBy
<1>4. g[S] = f[x] + g[S \ {x}]
  BY <1>1, SumAnyOrder DEF SumBy
<1> QED
  BY <1>1, <1>2, <1>3, <1>4 DEF T, SumBy

\* A sum depends on the values in its range only.
LEMMA SumCongruence ==
  ASSUME NEW D, NEW f \in [D -> Nat], NEW e \in [D -> Nat], NEW S \in SUBSET D,
         IsFiniteSet(S), \A x \in S : f[x] = e[x]
  PROVE  SumOf(f, S) = SumOf(e, S)
<1>1. PICK g : SumBy(g, f, S)
  BY SumIsFold
<1>2. PICK h : SumBy(h, e, S)
  BY SumIsFold
<1>3. \A s \in SUBSET S : SumRec(g, f, s) = SumRec(g, e, s)
  BY PickFacts DEF SumRec
<1>4. Adds(g, e, S)
  BY <1>1, <1>3 DEF Adds, SumBy
<1>5. g[S] = h[S]
  BY <1>2, <1>4, SumUnique DEF SumBy
<1> QED
  BY <1>1, <1>2, <1>5 DEF SumBy

\* A sum of zeros.
LEMMA SumZero ==
  ASSUME NEW D, NEW f \in [D -> Nat], NEW S \in SUBSET D, IsFiniteSet(S),
         \A x \in S : f[x] = 0
  PROVE  SumOf(f, S) = 0
<1>1. PICK g : SumBy(g, f, S)
  BY SumIsFold
<1> DEFINE z == [s \in SUBSET S |-> 0]
<1>2. ASSUME NEW s \in SUBSET S
      PROVE  SumRec(z, f, s) = 0
  <2>1. CASE s = {}
    BY <2>1 DEF SumRec
  <2>2. CASE s # {}
    <3>1. f[Pick(s)] = 0 /\ z[s \ {Pick(s)}] = 0
      BY <2>2, PickFacts
    <3> HIDE DEF z
    <3> QED
      BY <2>2, <3>1 DEF SumRec
  <2> QED
    BY <2>1, <2>2
<1>3. Adds(z, f, S)
  BY <1>2 DEF Adds
<1> HIDE DEF z
<1>4. g[S] = z[S]
  BY <1>1, <1>3, SumUnique DEF SumBy
<1> QED
  BY <1>1, <1>4 DEF z, SumBy

\* One more of an element of the range is one more in the sum.
LEMMA SumBump ==
  ASSUME NEW D, NEW f \in [D -> Nat], NEW S \in SUBSET D, IsFiniteSet(S), NEW x \in S
  PROVE  SumOf([f EXCEPT ![x] = @ + 1], S) = SumOf(f, S) + 1
<1> DEFINE e == [f EXCEPT ![x] = @ + 1]
           T == S \ {x}
<1>1. /\ e \in [D -> Nat] /\ e[x] = f[x] + 1 /\ \A y \in T : e[y] = f[y]
      /\ T \in SUBSET D /\ IsFiniteSet(T) /\ f[x] \in Nat
  BY FS_Subset
<1> HIDE DEF e, T
<1>2. SumOf(e, S) = e[x] + SumOf(e, T) /\ SumOf(f, S) = f[x] + SumOf(f, T)
  BY <1>1, SumRemove DEF T
<1>3. SumOf(e, T) = SumOf(f, T)
  BY <1>1, SumCongruence
<1>4. SumOf(f, T) \in Nat
  BY <1>1, SumNat
<1> QED
  BY <1>1, <1>2, <1>3, <1>4 DEF e

----------------------------------------------------------------------------
(***************************************************************************)
(* The invariant, one lemma per part.                                      *)
(***************************************************************************)

\* The seconds of the window are finitely many; the sum is over naturals.
LEMMA LoggedFacts ==
  ASSUME TypeOK
  PROVE  /\ Logged = SumOf(printed, Window)
         /\ Window \in SUBSET Times /\ IsFiniteSet(Window)
         /\ Logged \in Nat
<1>1. Logged = SumOf(printed, Window)
  BY DEF Logged, SumOf
<1>2. Window \in SUBSET Times
  BY DEF Window, Times
<1>3. IsFiniteSet(Times)
  BY LogAssumption, FS_Interval DEF Times
<1>4. IsFiniteSet(Window)
  BY <1>2, <1>3, FS_Subset
<1>5. SumOf(printed, Window) \in Nat
  BY <1>2, <1>4, SumNat DEF TypeOK
<1> QED
  BY <1>1, <1>2, <1>4, <1>5

\* A step changes the locals of one caller only.
Moves(c) == \A d \in Callers : d # c => call'[d] = call[d]

\* A step of a caller moves that caller alone.
LEMMA CallerMoves ==
  ASSUME TypeOK, NEW c \in Callers,
         Begin(c) \/ Load(c) \/ Cas(c) \/ Store(c) \/ FetchAdd(c)
  PROVE  Moves(c)
BY DEF TypeOK, Moves, Begin, Load, Cas, Store, FetchAdd

\* What each step does to the locals of its caller.
LEMMA CallerLocals ==
  ASSUME TypeOK, NEW c \in Callers
  PROVE  /\ Begin(c) => call'[c].pc = "load" /\ call'[c].now = clock
         /\ Load(c) => /\ call'[c].now = call[c].now /\ call'[c].window = windowStart
                       /\ call'[c].pc = IF Expired(call[c].now, windowStart)
                                        THEN "cas" ELSE "add"
         /\ Cas(c) => /\ call'[c].now = call[c].now /\ call'[c].window = call[c].window
                      /\ call'[c].pc = IF windowStart = call[c].window
                                       THEN "store" ELSE "load"
         /\ Store(c) \/ FetchAdd(c) => call'[c].pc = "idle" /\ call'[c].now = 0
<1>0. call \in [Callers -> Call]
  BY DEF TypeOK
<1>1. Begin(c) => call'[c].pc = "load" /\ call'[c].now = clock
  BY <1>0 DEF Call, Begin
<1>2. Load(c) => /\ call'[c].now = call[c].now /\ call'[c].window = windowStart
                 /\ call'[c].pc = IF Expired(call[c].now, windowStart)
                                  THEN "cas" ELSE "add"
  BY <1>0 DEF Call, Load
<1>3. Cas(c) => /\ call'[c].now = call[c].now /\ call'[c].window = call[c].window
                /\ call'[c].pc = IF windowStart = call[c].window
                                 THEN "store" ELSE "load"
  BY <1>0 DEF Call, Cas
<1>4. Store(c) \/ FetchAdd(c) => call'[c].pc = "idle" /\ call'[c].now = 0
  BY <1>0 DEF Call, Store, FetchAdd, Idle
<1> QED
  BY <1>1, <1>2, <1>3, <1>4

\* Nobody has called yet.
LEMMA InitLog == Init => LogInv
<1> SUFFICES ASSUME Init PROVE LogInv
  OBVIOUS
<1>1. TypeOK
  <2>1. 0 \in Times /\ 0 \in 0..MaxCalls /\ clock \in Times
    BY LogAssumption DEF Init, Times
  <2>2. call \in [Callers -> Call]
    BY <2>1 DEF Init, Call, Idle
  <2>3. printed \in [Times -> Nat]
    BY DEF Init, Times
  <2> QED
    BY <2>1, <2>2, <2>3 DEF Init, TypeOK
<1>2. CallsInv
  BY LogAssumption DEF Init, CallsInv, Times, Idle
<1>3. OpenInv
  BY DEF Init, OpenInv, Idle
<1>4. NoSilentInterval
  BY DEF Init, NoSilentInterval
<1>5. UnracedInv
  <2>1. Logged = 0
    <3>1. \A t \in Window : printed[t] = 0
      BY <1>1, LoggedFacts DEF Init, Times
    <3> QED
      BY <1>1, <3>1, LoggedFacts, SumZero DEF TypeOK
  <2>2. \A c \in Callers : call[c].pc = "idle"
    BY DEF Init, Idle
  <2> QED
    BY <2>1, <2>2, LogAssumption DEF Init, UnracedInv, Active, Times
<1> QED
  BY <1>1, <1>2, <1>3, <1>4, <1>5 DEF LogInv

\* Every step keeps the types.
LEMMA NextTypeLog == TypeOK /\ [Next]_vars => TypeOK'
<1> SUFFICES ASSUME TypeOK, [Next]_vars PROVE TypeOK'
  OBVIOUS
<1>1. CASE UNCHANGED vars
  BY <1>1 DEF vars, TypeOK
<1>2. CASE Tick
  BY <1>2, LogAssumption DEF Tick, TypeOK, Times
<1>3. ASSUME NEW c \in Callers, Begin(c)
      PROVE  TypeOK'
  <2>1. call' \in [Callers -> Call]
    <3>1. call[c].calls + 1 \in 0..MaxCalls
      BY <1>3, LogAssumption DEF Begin, TypeOK, Call
    <3>2. call[c] \in Call /\ clock \in Times
      BY DEF TypeOK
    <3> QED
      BY <1>3, <3>1, <3>2 DEF Begin, TypeOK, Call
  <2>2. raced' \in BOOLEAN
    BY <1>3 DEF Begin
  <2> QED
    BY <1>3, <2>1, <2>2 DEF Begin, TypeOK
<1>4. ASSUME NEW c \in Callers, Load(c)
      PROVE  TypeOK'
  BY <1>4, LogAssumption DEF Load, TypeOK, Times, Call
<1>5. ASSUME NEW c \in Callers, Cas(c)
      PROVE  TypeOK'
  <2>1. call' \in [Callers -> Call] /\ windowStart' \in Times
    BY <1>5 DEF Cas, TypeOK, Call
  <2>2. raced' \in BOOLEAN
    BY <1>5 DEF Cas, TypeOK
  <2> QED
    BY <1>5, <2>1, <2>2 DEF Cas, TypeOK
<1>i. ASSUME NEW c \in Callers, call' = [call EXCEPT ![c] = Idle(@.calls)]
      PROVE  call' \in [Callers -> Call]
  BY <1>i, LogAssumption DEF TypeOK, Times, Call, Idle
<1>n. \A c \in Callers : call[c].now \in Times
  BY DEF TypeOK, Call
<1>6. ASSUME NEW c \in Callers, Store(c)
      PROVE  TypeOK'
  <2>1. call' \in [Callers -> Call]
    BY <1>6, <1>i DEF Store
  <2> QED
    BY <1>6, <2>1, <1>n DEF Store, LetThrough, TypeOK
<1>7. ASSUME NEW c \in Callers, FetchAdd(c)
      PROVE  TypeOK'
  <2>1. call' \in [Callers -> Call]
    BY <1>7, <1>i DEF FetchAdd
  <2> QED
    BY <1>7, <2>1, <1>n DEF FetchAdd, LetThrough, Suppress, TypeOK
<1> QED
  BY <1>1, <1>2, <1>3, <1>4, <1>5, <1>6, <1>7 DEF Next

\* Messages are only added, by the calls that log, at the time they read.
LEMMA PrintedGrows ==
  ASSUME TypeOK, [Next]_vars
  PROVE  /\ \A t \in Times : printed[t] \in Nat /\ printed'[t] \in Nat
         /\ \A t \in Times : printed'[t] >= printed[t]
         /\ \A t \in Times : printed[t] = 0 /\ printed'[t] > 0
              => \E c \in Callers : call[c].pc \in {"store", "add"} /\ call[c].now = t
<1>1. printed \in [Times -> Nat]
  BY DEF TypeOK
<1>2. \/ printed' = printed
      \/ \E c \in Callers : /\ call[c].pc \in {"store", "add"}
                            /\ call[c].now \in Times
                            /\ printed' = [printed EXCEPT ![call[c].now] = @ + 1]
  <2>1. \A c \in Callers : call[c].now \in Times
    BY DEF TypeOK, Call
  <2> QED
    BY <2>1 DEF Next, vars, Tick, Begin, Load, Cas, Store, FetchAdd, LetThrough, Suppress
<1> QED
  BY <1>1, <1>2

\* The opener of a window logs before it does anything else.
LEMMA OpenedStays ==
  ASSUME TypeOK, [Next]_vars, NEW w \in Times, Opened(w)
  PROVE  Opened(w)'
<1>1. CASE printed[w] > 0
  <2>1. printed'[w] > 0
    BY <1>1, PrintedGrows
  <2> QED
    BY <2>1 DEF Opened
<1>2. ASSUME NEW c \in Callers, call[c].pc = "store", call[c].now = w
      PROVE  Opened(w)'
  <2>1. CASE call' = call
    BY <1>2, <2>1 DEF Opened
  <2>2. ASSUME NEW d \in Callers, d # c, Moves(d)
        PROVE  Opened(w)'
    BY <1>2, <2>2 DEF Opened, Moves
  <2>3. CASE Begin(c) \/ Load(c) \/ Cas(c) \/ FetchAdd(c)
    BY <1>2, <2>3 DEF Begin, Load, Cas, FetchAdd
  <2>4. CASE Store(c)
    <3>1. printed' = [printed EXCEPT ![w] = @ + 1] /\ printed \in [Times -> Nat]
      BY <1>2, <2>4 DEF Store, LetThrough, TypeOK
    <3>2. printed'[w] > 0
      BY <3>1
    <3> QED
      BY <3>2 DEF Opened
  <2> QED
    BY <2>1, <2>2, <2>3, <2>4, CallerMoves DEF Next, vars, Tick
<1> QED
  BY <1>1, <1>2 DEF Opened

\* No message is later than the clock, and a caller keeps what it found of the
\* window it loaded.
LEMMA CallsStep ==
  ASSUME TypeOK, CallsInv, [Next]_vars
  PROVE  CallsInv'
<1>t. TypeOK'
  BY NextTypeLog
<1>0. /\ clock \in Int /\ clock' \in Int /\ windowStart \in Int
      /\ \A c \in Callers : call[c].now \in Int /\ call'[c].now \in Int
  <2>1. Times \subseteq Int
    BY DEF Times
  <2> QED
    BY <1>t, <2>1 DEF TypeOK, Call
<1>1. clock <= clock'
  <2>1. clock' = clock \/ clock' = clock + 1
    BY DEF Next, vars, Tick, Begin, Load, Cas, Store, FetchAdd
  <2> QED
    BY <1>0, <2>1
<1>2. windowStart' = windowStart \/ \E c \in Callers : windowStart' = call[c].now
  BY DEF Next, vars, Tick, Begin, Load, Cas, Store, FetchAdd
<1>3. windowStart' <= clock'
  BY <1>0, <1>1, <1>2 DEF CallsInv
<1>4. ASSUME NEW t \in Times, printed'[t] > 0
      PROVE  t <= clock'
  <2>1. t \in Int
    BY DEF Times
  <2>2. t <= clock
    BY <1>4, PrintedGrows DEF CallsInv
  <2> QED
    BY <1>0, <1>1, <2>1, <2>2
<1>5. ASSUME NEW c \in Callers
      PROVE  /\ call'[c].now <= clock'
             /\ call'[c].pc = "cas" => Expired(call'[c].now, call'[c].window)
             /\ call'[c].pc = "add" => InWindow(call'[c].now, call'[c].window)
  <2>1. CASE call'[c] = call[c]
    BY <1>0, <1>1, <2>1 DEF CallsInv
  <2>2. CASE Begin(c)
    <3>1. call'[c].pc = "load" /\ call'[c].now = clock
      BY <2>2, CallerLocals
    <3> QED
      BY <1>0, <1>1, <3>1
  <2>3. CASE Load(c)
    <3>1. /\ call'[c].now = call[c].now /\ call'[c].window = windowStart
          /\ call'[c].pc = IF Expired(call[c].now, windowStart) THEN "cas" ELSE "add"
      BY <2>3, CallerLocals
    <3>2. ~Expired(call[c].now, windowStart) => InWindow(call[c].now, windowStart)
      BY <1>0, LogAssumption DEF Expired, InWindow
    <3>3. call[c].now <= clock
      BY DEF CallsInv
    <3> QED
      BY <1>0, <1>1, <3>1, <3>2, <3>3
  <2>4. CASE Cas(c)
    <3>1. call'[c].now = call[c].now /\ call'[c].pc \in {"store", "load"}
      BY <2>4, CallerLocals
    <3>2. call[c].now <= clock
      BY DEF CallsInv
    <3> QED
      BY <1>0, <1>1, <3>1, <3>2
  <2>5. CASE Store(c) \/ FetchAdd(c)
    <3>1. call'[c].pc = "idle" /\ call'[c].now = 0
      BY <2>5, CallerLocals
    <3>2. 0 <= clock'
      BY <1>t DEF TypeOK, Times
    <3> QED
      BY <3>1, <3>2
  <2>6. ASSUME NEW d \in Callers, d # c, Moves(d)
        PROVE  call'[c] = call[c]
    BY <2>6 DEF Moves
  <2> QED
    BY <2>1, <2>2, <2>3, <2>4, <2>5, <2>6, CallerMoves DEF Next, vars, Tick
<1> QED
  BY <1>3, <1>4, <1>5 DEF CallsInv

\* The published window and those that callers saw were opened once.
LEMMA OpenStep ==
  ASSUME TypeOK, OpenInv, [Next]_vars
  PROVE  OpenInv'
<1>t. TypeOK'
  BY NextTypeLog
<1>0. windowStart \in Times /\ windowStart' \in Times
      /\ \A c \in Callers : call[c].window \in Times
  BY <1>t DEF TypeOK, Call
<1>1. windowStart' = 0 \/ Opened(windowStart)'
  <2>1. CASE windowStart' = windowStart
    <3> PICK w \in Times : w = windowStart
      BY <1>0
    <3>1. w = 0 \/ Opened(w)'
      BY OpenedStays DEF OpenInv
    <3> QED
      BY <2>1, <3>1 DEF Opened
  <2>2. ASSUME NEW c \in Callers, Cas(c), windowStart = call[c].window
        PROVE  Opened(windowStart)'
    <3>1. call'[c].pc = "store" /\ call'[c].now = windowStart'
      BY <2>2, CallerLocals DEF Cas
    <3> QED
      BY <3>1 DEF Opened
  <2> QED
    BY <2>1, <2>2 DEF Next, vars, Tick, Begin, Load, Cas, Store, FetchAdd
<1>2. ASSUME NEW c \in Callers, call'[c].pc = "add"
      PROVE  call'[c].window = 0 \/ Opened(call[c].window)'
  <2>1. CASE call'[c] = call[c]
    <3> PICK w \in Times : w = call[c].window
      BY <1>0
    <3>1. w = 0 \/ Opened(w)'
      BY <1>2, <2>1, OpenedStays DEF OpenInv
    <3> QED
      BY <2>1, <3>1 DEF Opened
  <2>2. CASE Load(c)
    <3>1. call'[c].window = windowStart'
      BY <2>2, CallerLocals DEF Load
    <3> QED
      BY <1>1, <3>1 DEF Opened
  <2>3. CASE Begin(c) \/ Cas(c) \/ Store(c) \/ FetchAdd(c)
    BY <1>2, <2>3, CallerLocals
  <2>4. ASSUME NEW d \in Callers, d # c, Moves(d)
        PROVE  call'[c] = call[c]
    BY <2>4 DEF Moves
  <2> QED
    BY <2>1, <2>2, <2>3, <2>4, CallerMoves DEF Next, vars, Tick
<1>3. ASSUME count' > 0
      PROVE  \E t \in Times : printed'[t] > 0
  <2>1. CASE \E t \in Times : printed[t] > 0
    BY <2>1, PrintedGrows
  <2>2. ASSUME NEW c \in Callers, LetThrough(c)
        PROVE  \E t \in Times : printed'[t] > 0
    <3>1. call[c].now \in Times /\ printed \in [Times -> Nat]
      BY DEF TypeOK, Call
    <3> QED
      BY <2>2, <3>1 DEF LetThrough
  <2>3. CASE count' = count
    BY <1>3, <2>1, <2>3 DEF OpenInv
  <2>4. ASSUME NEW c \in Callers, FetchAdd(c), ~(count < Burst)
        PROVE  \E t \in Times : printed[t] > 0
    <3>1. count > 0
      BY <2>4, LogAssumption DEF TypeOK
    <3> QED
      BY <3>1 DEF OpenInv
  <2> QED
    BY <2>1, <2>2, <2>3, <2>4 DEF Next, vars, Tick, Begin, Load, Cas, Store, FetchAdd
<1> QED
  BY <1>1, <1>2, <1>3 DEF OpenInv

\* A message that explains why another one was suppressed.
Covered(n, at) == \E u \in Times : Opened(u) /\ n - Interval < u /\ u <= at

\* NoSilentInterval, with the window that excuses a suppressed line named.
LEMMA SilenceCovered ==
  ASSUME TypeOK
  PROVE  NoSilentInterval <=> \A m \in suppressed : Covered(m.now, m.at)
<1>1. \A c \in Callers : call[c].now \in Times
  BY DEF TypeOK, Call
<1> QED
  BY <1>1 DEF NoSilentInterval, Covered, Opened, Times

\* A line is suppressed only in an interval in which a window was opened.
LEMMA SilenceStep ==
  ASSUME TypeOK, CallsInv, OpenInv, NoSilentInterval, [Next]_vars
  PROVE  NoSilentInterval'
<1>t. TypeOK'
  BY NextTypeLog
<1>1. ASSUME NEW n, NEW at, Covered(n, at)
      PROVE  Covered(n, at)'
  BY <1>1, OpenedStays DEF Covered
<1>2. ASSUME NEW m \in suppressed
      PROVE  Covered(m.now, m.at)'
  <2> PICK n, at : n = m.now /\ at = m.at
    OBVIOUS
  <2>1. Covered(n, at)
    BY SilenceCovered
  <2>2. Covered(n, at)'
    BY <1>1, <2>1
  <2> QED
    BY <2>2 DEF Covered
<1>3. ASSUME NEW c \in Callers, FetchAdd(c), ~(count < Burst)
      PROVE  Covered(call[c].now, clock)
  <2>1. /\ call[c].now \in Times /\ call[c].window \in Times /\ clock \in Times
        /\ printed \in [Times -> Nat] /\ count \in Nat
    BY DEF TypeOK, Call
  <2>2. /\ InWindow(call[c].now, call[c].window)
        /\ call[c].window = 0 \/ Opened(call[c].window)
        /\ call[c].now <= clock
    BY <1>3 DEF CallsInv, OpenInv, FetchAdd
  <2>3. CASE Opened(call[c].window)
    BY <2>1, <2>2, <2>3, LogAssumption DEF Covered, InWindow, Times
  <2>4. CASE call[c].window = 0
    <3>1. count > 0
      BY <1>3, <2>1, LogAssumption
    <3>2. PICK t \in Times : printed[t] > 0
      BY <3>1 DEF OpenInv
    <3>3. t <= clock /\ Opened(t)
      BY <3>2 DEF CallsInv, Opened
    <3>4. call[c].now - Interval < t
      BY <2>1, <2>2, <2>4, LogAssumption DEF InWindow, Times
    <3> QED
      BY <3>3, <3>4 DEF Covered
  <2> QED
    BY <2>2, <2>3, <2>4
<1>4. \/ suppressed' = suppressed
      \/ \E c \in Callers : /\ FetchAdd(c) /\ ~(count < Burst)
                            /\ suppressed' = suppressed \cup {[now |-> call[c].now, at |-> clock]}
  BY DEF Next, vars, Tick, Begin, Load, Cas, Store, FetchAdd, LetThrough, Suppress
<1>5. ASSUME NEW m \in suppressed'
      PROVE  Covered(m.now, m.at)'
  <2>1. CASE m \in suppressed
    BY <1>2, <2>1
  <2>2. ASSUME NEW c \in Callers, FetchAdd(c), ~(count < Burst),
               m = [now |-> call[c].now, at |-> clock]
        PROVE  Covered(m.now, m.at)'
    <3> PICK n, at : n = m.now /\ at = m.at
      OBVIOUS
    <3>1. n = call[c].now /\ at = clock
      BY <2>2
    <3>2. Covered(n, at)
      BY <1>3, <2>2, <3>1
    <3>3. Covered(n, at)'
      BY <1>1, <3>2
    <3> QED
      BY <3>3 DEF Covered
  <2> QED
    BY <1>4, <2>1, <2>2
<1>6. NoSilentInterval' <=> \A m \in suppressed' : Covered(m.now, m.at)'
  <2>1. \A c \in Callers : call'[c].now \in Times
    BY <1>t DEF TypeOK, Call
  <2> QED
    BY <2>1 DEF NoSilentInterval, Covered, Opened, Times
<1> QED
  BY <1>5, <1>6

\* Sums of the window after a step.
LEMMA LoggedKept ==
  ASSUME TypeOK, UNCHANGED <<printed, windowStart>>
  PROVE  Logged' = Logged
<1>1. Window' = Window
  BY DEF Window, InWindow
<1> QED
  BY <1>1 DEF Logged, MapThenSumSet, MapThenFoldSet

\* A line let through in the current window counts once in its sum.
LEMMA LoggedBump ==
  ASSUME TypeOK, TypeOK', NEW c \in Callers, LetThrough(c), UNCHANGED windowStart,
         call[c].now \in Window
  PROVE  Logged' = Logged + 1
<1>1. Window' = Window
  BY DEF Window, InWindow
<1>2. printed' = [printed EXCEPT ![call[c].now] = @ + 1] /\ printed \in [Times -> Nat]
  BY DEF LetThrough, TypeOK
<1>3. Logged' = SumOf(printed', Window)
  BY <1>1 DEF Logged, SumOf, MapThenSumSet, MapThenFoldSet
<1>4. Window \in SUBSET Times /\ IsFiniteSet(Window) /\ Logged = SumOf(printed, Window)
  BY LoggedFacts
<1>5. SumOf(printed', Window) = SumOf(printed, Window) + 1
  BY <1>2, <1>4, SumBump
<1> QED
  BY <1>3, <1>4, <1>5

\* Alone, a caller opens a window without messages.
LEMMA OpensEmpty ==
  ASSUME TypeOK, CallsInv, UnracedInv, ~raced, TypeOK',
         NEW c \in Callers, Cas(c), windowStart = call[c].window
  PROVE  /\ Logged' = 0
         /\ \A t \in Times : printed'[t] > 0 => t < windowStart' + Interval
<1>0. /\ windowStart \in Int /\ call[c].now \in Int /\ Times \subseteq Int
      /\ printed \in [Times -> Nat]
  BY DEF TypeOK, Call, Times
<1>1. windowStart' = call[c].now /\ printed' = printed
  BY DEF Cas
<1>2. call[c].now >= windowStart + Interval
  <2>1. Expired(call[c].now, windowStart) /\ windowStart <= call[c].now
    BY DEF Cas, CallsInv, UnracedInv, Active
  <2> QED
    BY <1>0, <2>1, LogAssumption DEF Expired
<1>3. ASSUME NEW t \in Times, printed[t] > 0
      PROVE  t < call[c].now
  BY <1>0, <1>2, <1>3, LogAssumption DEF UnracedInv
<1>4. \A t \in Window' : t \in Times /\ printed'[t] = 0
  <2> SUFFICES ASSUME NEW t \in Window' PROVE t \in Times /\ printed[t] = 0
    BY <1>1
  <2>1. t \in Times /\ call[c].now <= t
    BY <1>1 DEF Window, InWindow, Times
  <2>2. printed[t] \in Nat /\ t \in Int
    BY <1>0, <2>1
  <2>3. ~(printed[t] > 0)
    BY <1>0, <1>3, <2>1, <2>2
  <2> QED
    BY <2>1, <2>2, <2>3
<1>5. Window' \in SUBSET Times /\ IsFiniteSet(Window')
  <2>1. IsFiniteSet(Times)
    BY LogAssumption, FS_Interval DEF Times
  <2> QED
    BY <1>4, <2>1, FS_Subset
<1>6. Logged' = SumOf(printed', Window')
  BY DEF Logged, SumOf, MapThenSumSet, MapThenFoldSet
<1>7. SumOf(printed', Window') = 0
  <2>1. printed' \in [Times -> Nat]
    BY <1>0, <1>1
  <2> QED
    BY <1>4, <1>5, <2>1, SumZero
<1>8. \A t \in Times : printed'[t] > 0 => t < windowStart' + Interval
  BY <1>0, <1>1, <1>3, LogAssumption
<1> QED
  BY <1>6, <1>7, <1>8

\* The count bounds the lines of a window until a call overlaps its opening.
LEMMA UnracedStep ==
  ASSUME TypeOK, CallsInv, UnracedInv, [Next]_vars
  PROVE  UnracedInv'
<1>t. TypeOK'
  BY NextTypeLog
<1>0. /\ windowStart \in Int /\ clock \in Int /\ Times \subseteq Int
      /\ \A d \in Callers : call[d].now \in Int
      /\ count \in Nat /\ Logged \in Nat
      /\ printed \in [Times -> Nat]
  BY LoggedFacts DEF TypeOK, Call, Times
<1> SUFFICES ASSUME ~raced'
    PROVE  /\ \A c, d \in Callers : call'[c].pc = "store" /\ d # c => call'[d].pc = "idle"
           /\ \A c \in Callers :
                /\ call'[c].pc # "idle" => windowStart' <= call'[c].now
                /\ call'[c].pc = "add" => call'[c].window = windowStart'
                /\ call'[c].pc = "store" => call'[c].now = windowStart' /\ Logged' = 0
           /\ \A t \in Times : printed'[t] > 0 => t < windowStart' + Interval
           /\ (\A c \in Callers : call'[c].pc # "store") => Logged' <= count' /\ Logged' <= Burst
  BY DEF UnracedInv, Active
<1>1. ~raced
  BY DEF Next, vars, Tick, Begin, Load, Cas, Store, FetchAdd
<1>u. /\ \A c, d \in Callers : call[c].pc = "store" /\ d # c => call[d].pc = "idle"
      /\ \A c \in Callers :
           /\ call[c].pc # "idle" => windowStart <= call[c].now
           /\ call[c].pc = "add" => call[c].window = windowStart
           /\ call[c].pc = "store" => call[c].now = windowStart /\ Logged = 0
      /\ \A t \in Times : printed[t] > 0 => t < windowStart + Interval
      /\ (\A c \in Callers : call[c].pc # "store") => Logged <= count /\ Logged <= Burst
  BY <1>1 DEF UnracedInv, Active
<1>2. CASE UNCHANGED vars \/ Tick
  <2>1. UNCHANGED <<windowStart, count, call, printed>>
    BY <1>2 DEF vars, Tick
  <2>2. Logged' = Logged
    BY <2>1, LoggedKept
  <2> QED
    BY <1>u, <2>1, <2>2
<1>3. ASSUME NEW c \in Callers, Begin(c) \/ Load(c) \/ (Cas(c) /\ windowStart # call[c].window)
      PROVE  UnracedInv'
  <2>1. UNCHANGED <<windowStart, count, printed>>
    BY <1>3 DEF Begin, Load, Cas
  <2>2. Logged' = Logged
    BY <2>1, LoggedKept
  <2>3. Moves(c)
    BY <1>3, CallerMoves
  <2>4. /\ call'[c].pc \in {"load", "cas", "add"}
        /\ windowStart <= call'[c].now
        /\ call'[c].pc = "add" => call'[c].window = windowStart
    <3>1. CASE Begin(c)
      <4>1. call'[c].pc = "load" /\ call'[c].now = clock
        BY <3>1, CallerLocals
      <4> QED
        BY <4>1 DEF CallsInv
    <3>2. CASE Load(c)
      BY <3>2, <1>u, CallerLocals DEF Load
    <3>3. CASE Cas(c) /\ windowStart # call[c].window
      BY <3>3, <1>u, CallerLocals DEF Cas
    <3> QED
      BY <1>3, <3>1, <3>2, <3>3
  <2>5. \A d \in Callers : call[d].pc # "store"
    <3>1. ASSUME NEW d \in Callers, call[d].pc = "store" PROVE FALSE
      <4>1. d # c
        BY <1>3, <3>1 DEF Begin, Load, Cas
      <4>2. call[c].pc = "idle"
        BY <1>u, <3>1, <4>1
      <4>3. Begin(c)
        BY <1>3, <4>2 DEF Load, Cas
      <4>4. raced'
        BY <3>1, <4>1, <4>3 DEF Begin, Others
      <4> QED
        BY <4>4
    <3> QED
      BY <3>1
  <2> QED
    BY <1>u, <2>1, <2>2, <2>3, <2>4, <2>5 DEF UnracedInv, Active, Moves
<1>4. ASSUME NEW c \in Callers, Cas(c), windowStart = call[c].window
      PROVE  UnracedInv'
  <2>1. call'[c].pc = "store" /\ call'[c].now = call[c].now /\ windowStart' = call[c].now
    BY <1>4, CallerLocals DEF Cas
  <2>2. \A d \in Callers : d # c => call'[d] = call[d] /\ call[d].pc = "idle"
    <3>1. Moves(c)
      BY <1>4, CallerMoves
    <3>2. \A d \in Callers : d # c => call[d].pc \notin {"load", "cas", "store", "add"}
      BY <1>4 DEF Cas, Others
    <3>3. \A d \in Callers : call[d].pc \in {"idle", "load", "cas", "store", "add"}
      BY DEF TypeOK, Call
    <3> QED
      BY <3>1, <3>2, <3>3 DEF Moves
  <2>3. /\ Logged' = 0
        /\ \A t \in Times : printed'[t] > 0 => t < windowStart' + Interval
    BY <1>4, <1>1, <1>t, OpensEmpty
  <2>4. windowStart' <= call'[c].now
    BY <1>0, <2>1
  <2> QED
    BY <2>1, <2>2, <2>3, <2>4 DEF UnracedInv, Active
<1>5. ASSUME NEW c \in Callers, Store(c) \/ FetchAdd(c),
             call[c].now \in Window, windowStart' = windowStart,
             \A d \in Callers : d # c => call[d].pc # "store",
             Logged' <= count', Logged' <= Burst
      PROVE  UnracedInv'
  <2>1. call'[c].pc = "idle" /\ Moves(c)
    BY <1>5, CallerLocals, CallerMoves
  <2>2. \A d \in Callers : call'[d].pc # "store"
    BY <1>5, <2>1 DEF Moves
  <2>3. ASSUME NEW t \in Times, printed'[t] > 0
        PROVE  t < windowStart + Interval
    <3>1. CASE printed[t] > 0
      BY <3>1, <1>u
    <3>2. CASE t = call[c].now
      BY <1>5, <3>2 DEF Window, InWindow
    <3>3. printed[t] > 0 \/ t = call[c].now
      <4>1. printed' = printed \/ printed' = [printed EXCEPT ![call[c].now] = @ + 1]
        BY <1>5 DEF Store, FetchAdd, LetThrough, Suppress
      <4> QED
        BY <1>0, <2>3, <4>1
    <3> QED
      BY <3>1, <3>2, <3>3
  <2> QED
    BY <1>5, <1>u, <2>1, <2>2, <2>3 DEF UnracedInv, Active, Moves
<1>6. ASSUME NEW c \in Callers, Store(c)
      PROVE  UnracedInv'
  <2>1. call[c].pc = "store" /\ count' = 1 /\ LetThrough(c) /\ windowStart' = windowStart
    BY <1>6 DEF Store
  <2>2. call[c].now = windowStart /\ Logged = 0
    BY <1>u, <2>1
  <2>3. call[c].now \in Window
    BY <2>2, LogAssumption DEF TypeOK, Times, Window, InWindow
  <2>4. Logged' = 1
    BY <1>t, <2>1, <2>2, <2>3, LoggedBump
  <2>5. \A d \in Callers : d # c => call[d].pc # "store"
    BY <1>u, <2>1
  <2> QED
    BY <1>5, <1>6, <2>1, <2>3, <2>4, <2>5, LogAssumption
<1>7. ASSUME NEW c \in Callers, FetchAdd(c)
      PROVE  UnracedInv'
  <2>1. call[c].pc = "add" /\ count' = count + 1 /\ windowStart' = windowStart
    BY <1>7 DEF FetchAdd
  <2>2. call[c].now \in Window
    BY <1>u, <2>1 DEF CallsInv, TypeOK, Call, Times, Window
  <2>3. \A d \in Callers : call[d].pc # "store"
    BY <1>u, <2>1
  <2>4. Logged <= count /\ Logged <= Burst
    BY <1>u, <2>3
  <2>5. CASE count < Burst
    <3>1. Logged' = Logged + 1
      BY <1>7, <1>t, <2>1, <2>2, <2>5, LoggedBump DEF FetchAdd
    <3> QED
      BY <1>0, <1>5, <1>7, <2>1, <2>2, <2>3, <2>4, <2>5, <3>1, LogAssumption
  <2>6. CASE ~(count < Burst)
    <3>1. Logged' = Logged
      BY <1>7, <2>1, <2>6, LoggedKept DEF FetchAdd, Suppress
    <3>2. Logged' <= count'
      BY <1>0, <2>1, <2>4, <3>1
    <3> QED
      BY <1>5, <1>7, <2>1, <2>2, <2>3, <2>4, <3>1, <3>2
  <2> QED
    BY <2>5, <2>6
<1> QED
  BY <1>2, <1>3, <1>4, <1>6, <1>7 DEF Next, UnracedInv, Active

\* Whatever the callers, the burst, the interval and the interleaving of the
\* steps of cdma_log_ratelimit, what LogInv says of window, counter and
\* messages holds.
THEOREM LogInvariance == Spec => []LogInv
<1>1. Init => LogInv
  BY InitLog
<1>2. LogInv /\ [Next]_vars => LogInv'
  <2> SUFFICES ASSUME LogInv, [Next]_vars PROVE LogInv'
    OBVIOUS
  <2> QED
    BY NextTypeLog, CallsStep, OpenStep, SilenceStep, UnracedStep DEF LogInv
<1> QED
  BY <1>1, <1>2, PTL DEF Spec

\* The limiter never silences a whole interval: whatever the races between
\* callers on the window and the counter, next to a suppressed message there is
\* one that was let through or is about to be.
THEOREM NeverSilent == Spec => []NoSilentInterval
<1>1. LogInv => NoSilentInterval
  BY DEF LogInv
<1> QED
  BY <1>1, LogInvariance, PTL

\* At most Burst messages pass in a window as long as no call overlaps the
\* opening of a window by another, however many calls compete within it.
THEOREM BurstKept == Spec => []UnracedBurst
<1>1. LogInv => UnracedBurst
  <2> SUFFICES ASSUME LogInv, ~raced PROVE Logged <= Burst
    BY DEF UnracedBurst, WindowBurst
  <2>1. TypeOK /\ UnracedInv
    BY DEF LogInv
  <2>2. CASE \E c \in Callers : call[c].pc = "store"
    <3>1. Logged = 0
      BY <2>1, <2>2 DEF UnracedInv
    <3> QED
      BY <3>1, LogAssumption
  <2>3. CASE \A c \in Callers : call[c].pc # "store"
    BY <2>1, <2>3 DEF UnracedInv
  <2> QED
    BY <2>2, <2>3
<1> QED
  BY <1>1, LogInvariance, PTL
============================================================================

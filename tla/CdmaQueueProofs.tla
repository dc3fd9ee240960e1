-------------------------- MODULE CdmaQueueProofs --------------------------
(***************************************************************************)
(* Proofs about the data path, for every ring size, counter width, number  *)
(* of threads and request size that the assumptions of CdmaQueue allow:    *)
(* the types of its state, and IndInv of CdmaQueueInv is preserved by the  *)
(* steps of posters, device and pollers.                                   *)
(***************************************************************************)
EXTENDS CdmaQueueInv, CdmaRingLemmas

\* The counters are at least two rings wide.
LEMMA IdxModBounds ==
  /\ IdxMod \in Nat
  /\ IdxMod >= 2 * SqBlocks
  /\ IdxMod >= 2 * CqEntries
  /\ SqBlocks \in Nat /\ CqEntries \in Nat
  /\ SqBlocks >= 1 /\ CqEntries >= 1
<1>1. PICK k \in 1..IdxMod : IdxMod = 2 * SqBlocks * k
  BY RingAssumption
<1>2. PICK l \in 1..IdxMod : IdxMod = 2 * CqEntries * l
  BY RingAssumption
<1> QED
  BY <1>1, <1>2, RingAssumption

\* A request has at most SqBlocks blocks, so its size never wraps a counter.
LEMMA WrSizeBounds ==
  ASSUME NEW cnt \in WrSizes \cup {0}
  PROVE  cnt \in Nat /\ cnt <= SqBlocks /\ cnt < IdxMod
BY IdxModBounds, CallerAssumption

\* A counter stays within its width when it is advanced.
LEMMA AddType ==
  ASSUME NEW x \in Idx, NEW d \in Nat, d <= IdxMod
  PROVE  Add(x, d) \in Idx
BY IdxModBounds DEF Add, Idx

\* The distance of two counters is a counter value.
LEMMA SubType ==
  ASSUME NEW x \in Idx, NEW y \in Idx
  PROVE  Sub(x, y) \in Idx /\ Sub(x, y) \in Nat
BY IdxModBounds DEF Sub, Idx

\* One step is a counter value.
LEMMA OneIdx == 0 \in Idx /\ 1 \in Idx /\ 1 \in Nat /\ 1 <= IdxMod
BY IdxModBounds DEF Idx

\* Indices address blocks of the send queue.
LEMMA SqSlotType ==
  ASSUME NEW x \in Idx
  PROVE  SqSlot(x) \in SqSlots
BY IdxModBounds, ModRange DEF SqSlot, SqSlots, Idx

\* Indices address entries of the completion queue.
LEMMA CqSlotType ==
  ASSUME NEW x \in Idx
  PROVE  CqSlot(x) \in CqSlots
BY IdxModBounds, ModRange DEF CqSlot, CqSlots, Idx

\* An owner bit is a bit.
LEMMA RoundType ==
  ASSUME NEW x \in Idx
  PROVE  Round(x) \in {0, 1}
<1>1. x \div CqEntries \in Int
  BY IdxModBounds, DivMod DEF Idx
<1> DEFINE d == x \div CqEntries
<1>2. d \in Int
  BY <1>1
<1> HIDE DEF d
<1>3. d % 2 \in 0..(2 - 1)
  BY <1>2, ModRange
<1> QED
  BY <1>3 DEF d, Round
----------------------------------------------------------------------------
(* Distances of counters *)

\* A counter is at distance 0 from itself only.
LEMMA SubZero ==
  ASSUME NEW x \in Idx, NEW y \in Idx
  PROVE  Sub(x, y) = 0 <=> x = y
BY IdxModBounds DEF Sub, Idx

\* Distances from one base tell counters apart.
LEMMA SubInj ==
  ASSUME NEW x \in Idx, NEW y \in Idx, NEW c \in Idx
  PROVE  Sub(x, c) = Sub(y, c) <=> x = y
BY IdxModBounds DEF Sub, Idx

\* Advancing a counter by d puts it d further from the base.
LEMMA SubAdvance ==
  ASSUME NEW x \in Idx, NEW c \in Idx, NEW d \in Nat, Sub(x, c) + d < IdxMod
  PROVE  /\ Add(x, d) \in Idx
         /\ Sub(Add(x, d), c) = Sub(x, c) + d
BY IdxModBounds DEF Add, Sub, Idx

\* Advancing the base by d brings counters at least that far away d closer.
LEMMA SubRebase ==
  ASSUME NEW x \in Idx, NEW c \in Idx, NEW d \in Nat, d <= Sub(x, c)
  PROVE  /\ Add(c, d) \in Idx
         /\ Sub(x, Add(c, d)) = Sub(x, c) - d
BY IdxModBounds DEF Add, Sub, Idx

\* Advancing by the distance reaches the counter.
LEMMA AddSub ==
  ASSUME NEW x \in Idx, NEW c \in Idx
  PROVE  Add(c, Sub(x, c)) = x
BY IdxModBounds DEF Add, Sub, Idx

\* The distance of two counters from their distances to a common base.
LEMMA SubDiff ==
  ASSUME NEW x \in Idx, NEW y \in Idx, NEW c \in Idx, Sub(y, c) <= Sub(x, c)
  PROVE  Sub(x, y) = Sub(x, c) - Sub(y, c)
BY IdxModBounds DEF Sub, Idx

\* Taking one step back undoes one step.
LEMMA StepBack ==
  ASSUME NEW x \in Idx
  PROVE  /\ Sub(x, 1) \in Idx
         /\ Add(Sub(x, 1), 1) = x
         /\ Sub(Add(x, 1), 1) = x
         /\ Sub(x, Sub(x, 1)) = 1
BY IdxModBounds DEF Add, Sub, Idx

\* Two counters less than one send queue apart have different slots.
LEMMA SqSlotApart ==
  ASSUME NEW x \in Idx, NEW y \in Idx, x # y, Sub(y, x) < SqBlocks
  PROVE  SqSlot(x) # SqSlot(y)
<1>1. PICK k \in 1..IdxMod : IdxMod = 2 * SqBlocks * k
  BY RingAssumption
<1> DEFINE d == Sub(y, x)
           q == IF x <= y THEN 0 ELSE -(2 * k)
<1>2. d \in 1..(SqBlocks - 1) /\ q \in Int
  BY IdxModBounds DEF Sub, Idx
<1>3. y = (x + d) + SqBlocks * q
  <2>1. CASE x <= y
    BY <2>1, IdxModBounds DEF Sub, Idx
  <2>2. CASE x > y
    <3>1. SqBlocks * (-(2 * k)) = -IdxMod
      BY <1>1, IdxModBounds
    <3> QED
      BY <2>2, <3>1, IdxModBounds DEF Sub, Idx
  <2> QED
    BY <2>1, <2>2, IdxModBounds DEF Idx
<1> HIDE DEF d, q
<1> DEFINE a == x + d
<1>4. a \in Int /\ x \in Int /\ SqBlocks \in Nat \ {0}
  BY <1>2, IdxModBounds DEF Idx
<1>5. a % SqBlocks # x % SqBlocks
  BY <1>2, <1>4, ModApart
<1> HIDE DEF a
<1>6. y % SqBlocks = a % SqBlocks
  <2>1. y = a + SqBlocks * q
    BY <1>3 DEF a
  <2>2. (a + SqBlocks * q) % SqBlocks = a % SqBlocks
    BY <1>2, <1>4, ModShift
  <2> QED
    BY <2>1, <2>2
<1> QED
  BY <1>5, <1>6 DEF SqSlot

\* Two counters less than one completion queue apart have different slots.
LEMMA CqSlotApart ==
  ASSUME NEW x \in Idx, NEW y \in Idx, x # y, Sub(y, x) < CqEntries
  PROVE  CqSlot(x) # CqSlot(y)
<1>1. PICK k \in 1..IdxMod : IdxMod = 2 * CqEntries * k
  BY RingAssumption
<1> DEFINE d == Sub(y, x)
           q == IF x <= y THEN 0 ELSE -(2 * k)
<1>2. d \in 1..(CqEntries - 1) /\ q \in Int
  BY IdxModBounds DEF Sub, Idx
<1>3. y = (x + d) + CqEntries * q
  <2>1. CASE x <= y
    BY <2>1, IdxModBounds DEF Sub, Idx
  <2>2. CASE x > y
    <3>1. CqEntries * (-(2 * k)) = -IdxMod
      BY <1>1, IdxModBounds
    <3> QED
      BY <2>2, <3>1, IdxModBounds DEF Sub, Idx
  <2> QED
    BY <2>1, <2>2, IdxModBounds DEF Idx
<1> HIDE DEF d, q
<1> DEFINE a == x + d
<1>4. a \in Int /\ x \in Int /\ CqEntries \in Nat \ {0}
  BY <1>2, IdxModBounds DEF Idx
<1>5. a % CqEntries # x % CqEntries
  BY <1>2, <1>4, ModApart
<1> HIDE DEF a
<1>6. y % CqEntries = a % CqEntries
  <2>1. y = a + CqEntries * q
    BY <1>3 DEF a
  <2>2. (a + CqEntries * q) % CqEntries = a % CqEntries
    BY <1>2, <1>4, ModShift
  <2> QED
    BY <2>1, <2>2
<1> QED
  BY <1>5, <1>6 DEF CqSlot

\* One ring further on, the slot is the same and the round bit is flipped.
LEMMA NextRound ==
  ASSUME NEW x \in Idx
  PROVE  /\ Add(x, CqEntries) \in Idx
         /\ CqSlot(Add(x, CqEntries)) = CqSlot(x)
         /\ Round(Add(x, CqEntries)) = 1 - Round(x)
<1>1. PICK k \in 1..IdxMod : IdxMod = 2 * CqEntries * k
  BY RingAssumption
<1> DEFINE y == Add(x, CqEntries)
           q == IF x + CqEntries < IdxMod THEN 1 ELSE 1 - (2 * k)
           e == x \div CqEntries
<1>2. y \in Idx /\ q \in Int /\ x \in Int
  BY AddType, IdxModBounds DEF Idx
<1>3. y = x + CqEntries * q
  <2>1. CASE x + CqEntries < IdxMod
    BY <2>1, IdxModBounds DEF Add, Idx
  <2>2. CASE ~(x + CqEntries < IdxMod)
    <3>1. CqEntries * (1 - (2 * k)) = CqEntries - IdxMod
      BY <1>1, IdxModBounds
    <3> QED
      BY <2>2, <3>1, IdxModBounds DEF Add, Idx
  <2> QED
    BY <2>1, <2>2
<1>4. e \in Int
  BY <1>2, DivMod, IdxModBounds
<1>5. (e + q) % 2 = 1 - (e % 2)
  <2>1. CASE x + CqEntries < IdxMod
    BY <2>1, <1>4
  <2>2. CASE ~(x + CqEntries < IdxMod)
    <3> DEFINE f == e + 1
               g == -k
    <3>1. f \in Int /\ g \in Int
      BY <1>4
    <3>2. e + q = f + 2 * g
      BY <2>2, <1>4
    <3>3. f % 2 = 1 - (e % 2)
      BY <1>4
    <3> HIDE DEF f, g
    <3>4. (f + 2 * g) % 2 = f % 2
      BY <3>1, ModShift
    <3> QED
      BY <3>2, <3>3, <3>4
  <2> QED
    BY <2>1, <2>2
<1> HIDE DEF y, q
<1>6. y % CqEntries = x % CqEntries /\ y \div CqEntries = (x \div CqEntries) + q
  BY <1>2, <1>3, ModShift, IdxModBounds
<1> QED
  BY <1>2, <1>5, <1>6 DEF y, e, CqSlot, Round
----------------------------------------------------------------------------
(* The published consumer index *)

\* A published index has room for a ring and one entry more.
LEMMA DbModBounds ==
  /\ DbMod \in Nat /\ DbMod >= 2 /\ CqEntries < DbMod /\ DbMod <= IdxMod
<1>1. PICK k \in 1..IdxMod : IdxMod = DbMod * k
  BY DbAssumption
<1> QED
  BY <1>1, DbAssumption, IdxModBounds

\* The mask keeps an index of the doorbell's width.
LEMMA MaskedType ==
  ASSUME NEW x \in Idx
  PROVE  Masked(x) \in DbIdx
BY DbModBounds, ModRange DEF Masked, DbIdx, Idx

\* Masked indices tell the distance of two counters if it is below their width.
LEMMA MaskedDist ==
  ASSUME NEW x \in Idx, NEW y \in Idx, Sub(x, y) < DbMod
  PROVE  Sub(x, y) = IF Masked(x) >= Masked(y) THEN Masked(x) - Masked(y)
                     ELSE Masked(x) - Masked(y) + DbMod
<1>1. PICK k \in 1..IdxMod : IdxMod = DbMod * k
  BY DbAssumption
<1>2. DbMod \in Nat \ {0} /\ x \in Int /\ y \in Int /\ IdxMod \in Nat
  BY DbModBounds, IdxModBounds DEF Idx
<1>3. PICK d \in Nat : d = Sub(x, y) /\ d < DbMod
  BY SubType
<1>4. PICK q \in Int, r \in 0..(DbMod - 1) : y = DbMod * q + r /\ r = Masked(y)
  <2>1. y \div DbMod \in Int /\ y = DbMod * (y \div DbMod) + (y % DbMod)
    BY <1>2, DivMod
  <2>2. y % DbMod \in 0..(DbMod - 1)
    BY <1>2, ModRange
  <2> QED
    BY <2>1, <2>2 DEF Masked
<1> DEFINE w == IF x >= y THEN 0 ELSE -k
<1>5. w \in Int /\ x = y + d + DbMod * w
  <2>1. CASE x >= y
    <3>1. DbMod * w = 0 /\ w \in Int
      BY <2>1, <1>2
    <3> QED
      BY <3>1, <2>1, <1>3, <1>2 DEF Sub
  <2>2. CASE ~(x >= y)
    <3>1. DbMod * w = -IdxMod /\ w \in Int
      BY <2>2, <1>1, <1>2
    <3> QED
      BY <3>1, <2>2, <1>3, <1>2 DEF Sub
  <2> QED
    BY <2>1, <2>2
<1> HIDE DEF w
<1>6. CASE r + d < DbMod
  <2>1. DbMod * (q + w) = DbMod * q + DbMod * w /\ q + w \in Int
    BY <1>2, <1>4, <1>5
  <2>2. x = DbMod * (q + w) + (r + d) /\ r + d \in 0..(DbMod - 1)
    BY <2>1, <1>2, <1>3, <1>4, <1>5, <1>6
  <2>3. Masked(x) = r + d
    BY <2>1, <2>2, <1>2, ModRest DEF Masked
  <2> QED
    BY <2>3, <1>2, <1>3, <1>4
<1>7. CASE r + d >= DbMod
  <2>1. DbMod * (q + w + 1) = DbMod * q + DbMod * w + DbMod /\ q + w + 1 \in Int
    BY <1>2, <1>4, <1>5
  <2>2. x = DbMod * (q + w + 1) + (r + d - DbMod) /\ r + d - DbMod \in 0..(DbMod - 1)
    BY <2>1, <1>2, <1>3, <1>4, <1>5, <1>7
  <2>3. Masked(x) = r + d - DbMod
    BY <2>1, <2>2, <1>2, ModRest DEF Masked
  <2> QED
    BY <2>3, <1>2, <1>3, <1>4
<1> QED
  BY <1>6, <1>7, <1>2, <1>3, <1>4

\* What the device takes for unread lies behind its position.
LEMMA PubFacts ==
  ASSUME hwpi \in Idx, swDb \in DbIdx
  PROVE  /\ Taken \in Nat /\ Taken < DbMod /\ Taken < IdxMod
         /\ Pub \in Idx
         /\ Sub(hwpi, Pub) = Taken
<1>1. PICK x \in DbIdx : x = Masked(hwpi)
  BY MaskedType
<1>2. Taken = IF x >= swDb THEN x - swDb ELSE x - swDb + DbMod
  BY <1>1 DEF Taken
<1> DEFINE t == Taken
<1>3. t \in Idx /\ t < DbMod
  BY <1>2, DbModBounds, IdxModBounds DEF DbIdx, Idx
<1> HIDE DEF t
<1>4. Sub(hwpi, t) \in Idx /\ Sub(hwpi, Sub(hwpi, t)) = t
  BY <1>3, IdxModBounds DEF Sub, Idx
<1> QED
  BY <1>3, <1>4, IdxModBounds DEF t, Pub, Idx

\* The published index depends on these alone.
LEMMA PubFrame ==
  ASSUME UNCHANGED <<hwpi, swDb>>
  PROVE  Taken' = Taken /\ Pub' = Pub
BY DEF Pub, Taken, Masked, Sub

\* A CQE the device writes is one more it takes for unread.
LEMMA PubWrite ==
  ASSUME hwpi \in Idx, swDb \in DbIdx, Taken < CqEntries,
         hwpi' = Add(hwpi, 1), swDb' = swDb
  PROVE  Taken' = Taken + 1 /\ Pub' = Pub
<1>1. PICK h \in Idx : h = Add(hwpi, 1)
  BY AddType, OneIdx
<1>2. Sub(h, hwpi) = 1
  BY <1>1, IdxModBounds DEF Add, Sub, Idx
<1>3. PICK x \in DbIdx, y \in DbIdx : x = Masked(h) /\ y = Masked(hwpi)
  BY MaskedType
<1>4. 1 = IF x >= y THEN x - y ELSE x - y + DbMod
  BY <1>2, <1>3, MaskedDist, DbModBounds
<1>5. /\ Taken = IF y >= swDb THEN y - swDb ELSE y - swDb + DbMod
      /\ Taken' = IF x >= swDb THEN x - swDb ELSE x - swDb + DbMod
  BY <1>1, <1>3 DEF Taken, Masked
<1>6. PICK t \in Nat : t = Taken /\ t < CqEntries
  BY PubFacts
<1>7. Taken' = t + 1
  BY <1>4, <1>5, <1>6, DbModBounds, IdxModBounds DEF DbIdx
<1>8. Sub(h, t + 1) = Sub(hwpi, t)
  BY <1>1, <1>6, IdxModBounds DEF Add, Sub, Idx
<1>9. Pub' = Sub(h, t + 1) /\ Pub = Sub(hwpi, t)
  BY <1>1, <1>6, <1>7 DEF Pub, Sub
<1> QED
  BY <1>6, <1>7, <1>8, <1>9

\* When cq->ci is published and at most a ring is unread, the device knows cq->ci.
LEMMA PubTold ==
  ASSUME hwpi \in Idx, cqci \in Idx, Sub(hwpi, cqci) <= CqEntries,
         swDb' = Masked(cqci), hwpi' = hwpi
  PROVE  Taken' = Sub(hwpi, cqci) /\ Pub' = cqci
<1>1. PICK d \in Nat : d = Sub(hwpi, cqci) /\ d < DbMod
  BY SubType, DbModBounds, IdxModBounds
<1>2. Taken' = IF Masked(hwpi) >= Masked(cqci) THEN Masked(hwpi) - Masked(cqci)
               ELSE Masked(hwpi) - Masked(cqci) + DbMod
  BY DEF Taken, Masked
<1>3. Taken' = d
  BY <1>1, <1>2, MaskedDist
<1>4. Sub(hwpi, d) = cqci
  BY <1>1, IdxModBounds DEF Sub, Idx
<1>5. Pub' = Sub(hwpi, d)
  BY <1>3 DEF Pub, Sub
<1> QED
  BY <1>1, <1>3, <1>4, <1>5
----------------------------------------------------------------------------
(* Type correctness *)

\* The initial state is well typed.
LEMMA InitType == Init => TypeOK
<1> SUFFICES ASSUME Init PROVE TypeOK
  OBVIOUS
<1>1. 0 \in Idx /\ Garbage \in Label
  BY IdxModBounds DEF Idx, Label
<1>2. NoWqe \in Wqe
  BY <1>1 DEF NoWqe, Wqe
<1>3. [pc |-> "idle", cnt |-> 0] \in PostLocals
  BY DEF PostPc, PostLocals
<1>4. PollIdle \in PollLocals
  BY <1>1, CallerAssumption DEF PollIdle, PollPc, PollLocals
<1>5. [owner |-> 0, entry_idx |-> 0, fd |-> FALSE, status |-> "known"] \in Cqe
  BY <1>1 DEF Cqe, CqeStatus
<1>6. swDb \in DbIdx
  BY DbAssumption, DbModBounds DEF Init, InitSwDb, DbIdx
<1> QED
  BY <1>1, <1>2, <1>3, <1>4, <1>5, <1>6 DEF Init, InitSq, InitCq, InitHw, TypeOK

\* A step of a poster keeps the types.
LEMMA PostType ==
  ASSUME TypeOK, NEW p \in Posters, Post(p)
  PROVE  TypeOK'
<1> USE DEF TypeOK, sqVars, hwVars, cqVars
<1>t. post[p] \in PostLocals /\ post[p].cnt \in WrSizes \cup {0} /\ post[p].cnt \in Nat
      /\ post[p].cnt <= IdxMod
  BY WrSizeBounds, IdxModBounds DEF PostLocals
<1>1. ASSUME NEW cnt \in WrSizes \cup {0}, PostLock(p, cnt)
      PROVE  TypeOK'
  BY <1>1 DEF PostLock, PostPc, PostLocals
<1>2. CASE PostInvalid(p)
  BY <1>2 DEF PostInvalid, PostUnlock, PostPc, PostLocals
<1>3. CASE PostOverflow(p)
  BY <1>3 DEF PostOverflow, PostUnlock, PostPc, PostLocals
<1>4. CASE PostCheck(p)
  BY <1>4 DEF PostCheck, PostPc, PostLocals
<1>5. CASE PostCopy(p)
  <2>1. [label |-> pi, cnt |-> post[p].cnt] \in Wqe
    BY <1>t DEF Wqe, Label
  <2>2. qbuf' \in [SqSlots -> Wqe]
    BY <1>5, <2>1 DEF PostCopy
  <2> QED
    BY <1>5, <2>2 DEF PostCopy, PostPc, PostLocals
<1>6. CASE PostPublish(p)
  <2>1. pi' \in Idx
    BY <1>6, <1>t, AddType DEF PostPublish
  <2>2. wrid' \in [SqSlots -> Label]
    BY <1>6 DEF PostPublish, Label
  <2> QED
    BY <1>6, <2>1, <2>2 DEF PostPublish, PostPc, PostLocals
<1>7. CASE PostRing(p)
  <2>1. SqSlot(Sub(pi, 1)) \in SqSlots
    BY OneIdx, SubType, SqSlotType
  <2>2. dwqe' \in Wqe
    BY <1>7, <2>1 DEF PostRing
  <2> QED
    BY <1>7, <2>2 DEF PostRing, PostUnlock, PostPc, PostLocals
<1> QED
  BY <1>1, <1>2, <1>3, <1>4, <1>5, <1>6, <1>7 DEF Post

\* Writing a CQE keeps the types.
LEMMA WriteCqeType ==
  ASSUME TypeOK, NEW e \in Idx, NEW fd \in BOOLEAN, NEW s \in CqeStatus,
         WriteCqe(e, fd, s)
  PROVE  cqbuf' \in [CqSlots -> Cqe] /\ hwpi' \in Idx
<1>1. hwpi' \in Idx
  BY AddType, IdxModBounds DEF TypeOK, WriteCqe
<1>2. 1 - Round(hwpi) \in {0, 1}
  BY RoundType DEF TypeOK
<1>3. [owner |-> 1 - Round(hwpi), entry_idx |-> e, fd |-> fd, status |-> s] \in Cqe
  BY <1>2 DEF Cqe
<1> QED
  BY <1>1, <1>3 DEF TypeOK, WriteCqe

\* A step of the device keeps the types.
LEMMA DeviceType ==
  ASSUME TypeOK, Device
  PROVE  TypeOK'
<1>1. ASSUME NEW s \in Statuses, DevComplete(s)
      PROVE  TypeOK'
  <2>1. NextWqe \in Wqe
    BY SqSlotType DEF NextWqe, TypeOK
  <2>2. NextWqe.cnt \in Nat /\ NextWqe.cnt <= IdxMod
    BY <2>1, WrSizeBounds, IdxModBounds DEF Wqe
  <2>3. hwci' \in Idx
    BY <1>1, <2>2, AddType DEF DevComplete, TypeOK
  <2>4. PICK i \in 0..(NextWqe.cnt - 1) : WriteCqe(Add(hwci, i), FALSE, s)
    BY <1>1 DEF DevComplete
  <2>5. Add(hwci, i) \in Idx
    <3>1. i \in Nat /\ i <= IdxMod
      BY <2>2, IdxModBounds
    <3> QED
      BY <3>1, AddType DEF TypeOK
  <2>6. s \in CqeStatus
    BY CallerAssumption
  <2>7. cqbuf' \in [CqSlots -> Cqe] /\ hwpi' \in Idx
    BY <2>4, <2>5, <2>6, WriteCqeType
  <2>8. NoWqe \in Wqe
    BY DEF NoWqe, Wqe, Label
  <2> QED
    BY <1>1, <2>3, <2>7, <2>8 DEF DevComplete, TypeOK, sqVars, cqVars
<1>2. CASE DevError
  BY <1>2 DEF DevError, TypeOK, sqVars, cqVars
<1>3. CASE DevFlushDone
  <2>1. cqbuf' \in [CqSlots -> Cqe] /\ hwpi' \in Idx
    BY <1>3, WriteCqeType DEF DevFlushDone, TypeOK, CqeStatus
  <2> QED
    BY <1>3, <2>1 DEF DevFlushDone, TypeOK, sqVars, cqVars
<1> QED
  BY <1>1, <1>2, <1>3 DEF Device

\* A step of a poller keeps the types.
LEMMA PollType ==
  ASSUME TypeOK, NEW p \in Pollers, Poll(p)
  PROVE  TypeOK'
<1> USE DEF sqVars, hwVars
<1>i. PollIdle \in PollLocals
  BY CallerAssumption DEF PollIdle, PollPc, PollLocals, Label
<1>1. ASSUME NEW want \in 1..CrCnt, PollLock(p, want)
      PROVE  TypeOK'
  <2>1. want \in 0..CrCnt
    BY CallerAssumption
  <2>2. [PollIdle EXCEPT !.pc = "take", !.want = want] \in PollLocals
    BY <1>i, <2>1 DEF PollPc, PollLocals
  <2> QED
    BY <1>1, <2>2 DEF PollLock, TypeOK
<1>2. CASE PollTake(p)
  <2>1. cqci' \in Idx
    BY <1>2, AddType, IdxModBounds DEF PollTake, TypeOK
  <2> QED
    BY <1>2, <2>1 DEF PollTake, TypeOK, PollPc, PollLocals
<1>3. CASE PollStop(p)
  BY <1>3 DEF PollStop, TypeOK, PollPc, PollLocals
<1>4. CASE PollAdvance(p)
  <2>1. CurrentCqe \in Cqe
    BY OneIdx, SubType, CqSlotType DEF CurrentCqe, TypeOK
  <2>2. Sub(CurrentCqe.entry_idx, ci) \in Int
    BY <2>1, SubType DEF Cqe, TypeOK, Idx
  <2> DEFINE d == Sub(CurrentCqe.entry_idx, ci)
  <2>3. (d % SqBlocks) \in 0..(SqBlocks - 1)
    <3> HIDE DEF d
    <3>1. d \in Int
      BY <2>2 DEF d
    <3> QED
      BY <3>1, ModRange, IdxModBounds
  <2> DEFINE e == d % SqBlocks
  <2>4. e \in Nat /\ e <= IdxMod
    BY <2>3, IdxModBounds
  <2>5. ci' = IF CurrentCqe.fd THEN ci ELSE Add(ci, e)
    BY <1>4 DEF PollAdvance
  <2> HIDE DEF d, e
  <2>6. ci' \in Idx
    BY <2>4, <2>5, AddType DEF TypeOK
  <2> QED
    BY <1>4, <2>6 DEF PollAdvance, TypeOK, PollPc, PollLocals
<1>5. CASE PollReadCtx(p)
  <2>1. wrid[SqSlot(ci)] \in Label
    BY SqSlotType DEF TypeOK
  <2> QED
    BY <1>5, <2>1 DEF PollReadCtx, TypeOK, PollPc, PollLocals
<1>6. CASE PollUnknown(p)
  <2> DEFINE r == [poll[p] EXCEPT !.pc = "return", !.ctx = Garbage, !.fail = TRUE]
  <2>1. poll' \in [Pollers -> PollLocals]
    <3>1. poll' = [poll EXCEPT ![p] = r]
      BY <1>6 DEF PollUnknown, TypeOK
    <3>2. r \in PollLocals
      BY DEF TypeOK, PollPc, PollLocals, Label
    <3> HIDE DEF r
    <3> QED
      BY <3>1, <3>2 DEF TypeOK
  <2> QED
    BY <1>6, <2>1 DEF PollUnknown, TypeOK
<1>7. CASE PollFlushDone(p)
  <2> DEFINE r == [poll[p] EXCEPT !.pc = "return", !.ctx = Garbage]
  <2>1. poll' \in [Pollers -> PollLocals]
    <3>1. poll' = [poll EXCEPT ![p] = r]
      BY <1>7 DEF PollFlushDone, TypeOK
    <3>2. r \in PollLocals
      BY DEF TypeOK, PollPc, PollLocals, Label
    <3> HIDE DEF r
    <3> QED
      BY <3>1, <3>2 DEF TypeOK
  <2> QED
    BY <1>7, <2>1 DEF PollFlushDone, TypeOK
<1>8. CASE PollRecord(p)
  <2>1. ci' \in Idx
    BY <1>8, AddType, IdxModBounds DEF PollRecord, TypeOK
  <2>2. Append(poll[p].crs, poll[p].ctx) \in Seq(Label)
    BY DEF TypeOK, PollLocals
  <2> DEFINE r == [poll[p] EXCEPT !.pc = "take", !.ctx = Garbage,
                                  !.crs = Append(@, poll[p].ctx)]
  <2>3. poll' \in [Pollers -> PollLocals]
    <3>1. poll' = [poll EXCEPT ![p] = r]
      BY <1>8 DEF PollRecord, TypeOK
    <3>2. r \in PollLocals
      BY <2>2 DEF TypeOK, PollPc, PollLocals, Label
    <3> HIDE DEF r
    <3> QED
      BY <3>1, <3>2 DEF TypeOK
  <2> QED
    BY <1>8, <2>1, <2>3 DEF PollRecord, TypeOK
<1>9. CASE PollReturn(p)
  BY <1>9, <1>i, MaskedType DEF PollReturn, TypeOK
<1> QED
  BY <1>1, <1>2, <1>3, <1>4, <1>5, <1>6, <1>7, <1>8, <1>9 DEF Poll, PollStep

\* Every step keeps the types.
LEMMA NextType ==
  ASSUME TypeOK, [Next]_vars
  PROVE  TypeOK'
<1>1. CASE UNCHANGED vars
  BY <1>1 DEF vars, sqVars, hwVars, cqVars, TypeOK
<1> QED
  BY <1>1, PostType, DeviceType, PollType DEF Next

\* Every variable keeps its type: no index leaves its ring's memory and no
\* counter its width, in any interleaving of posters, pollers and device.
THEOREM TypeCorrect == Spec => []TypeOK
<1>1. Init => TypeOK
  BY InitType
<1>2. TypeOK /\ [Next]_vars => TypeOK'
  BY NextType
<1> QED
  BY <1>1, <1>2, PTL DEF Spec
----------------------------------------------------------------------------
(***************************************************************************)
(* IndInv is preserved: first the frame lemmas, then one part per actor.   *)
(***************************************************************************)

\* Types of what a step finds: indices, distances, blocks and entries.
LEMMA Distances ==
  ASSUME TypeOK, NEW x \in Idx
  PROVE  /\ x \in Int
         /\ Ahead(x) \in Nat /\ Ahead(x) < IdxMod
         /\ Off(x) \in Nat /\ Off(x) < IdxMod
         /\ Blk(x) \in Wqe
         /\ Ce(x) \in Cqe
<1>1. Sub(x, ci) \in Idx /\ Sub(x, hwci) \in Idx
  BY SubType DEF TypeOK
<1>2. SqSlot(x) \in SqSlots /\ CqSlot(x) \in CqSlots
  BY SqSlotType, CqSlotType
<1> QED
  BY <1>1, <1>2, IdxModBounds DEF TypeOK, Ahead, Off, Blk, Ce, Idx

\* The poster inside its critical section is alone there.
LEMMA SolePoster ==
  ASSUME LockInv, NEW p \in Posters, post[p].pc # "idle"
  PROVE  \A r \in Posters : r # p => post[r].pc = "idle"
BY DEF LockInv

\* The poller inside its critical section is alone there.
LEMMA SolePoller ==
  ASSUME LockInv, NEW p \in Pollers, poll[p].pc # "idle"
  PROVE  \A r \in Pollers : r # p => poll[r].pc = "idle"
BY DEF LockInv

\* The doorbell is behind pi only inside a poster's critical section.
LEMMA DoorbellCurrent ==
  ASSUME LockInv, PostInv, NEW p \in Posters, post[p].pc \in {"check", "copy", "publish"}
  PROVE  db = pi
<1>1. \A r \in Posters : post[r].pc # "ring"
  BY SolePoster
<1> QED
  BY <1>1 DEF PostInv
----------------------------------------------------------------------------
(* Conjuncts that a step leaves alone *)

\* The order of the send queue's positions depends on these alone.
LEMMA SqOrderFrame ==
  ASSUME SqOrder, UNCHANGED <<pi, ci, hwci, db>>
  PROVE  SqOrder'
BY DEF SqOrder, Ahead

\* The tiling of the pending blocks depends on these alone.
LEMMA TiledFrame ==
  ASSUME Tiled, UNCHANGED <<pi, hwci, qbuf>>
  PROVE  Tiled'
BY DEF Tiled, Tile, Pending, Off, Blk

\* The direct window depends on these alone.
LEMMA DirectFrame ==
  ASSUME DirectInv, UNCHANGED <<dwqe, hwci, db, qbuf>>
  PROVE  DirectInv'
BY DEF DirectInv, Blk

\* What posters rely on depends on these alone.
LEMMA PostFrame ==
  ASSUME PostInv, UNCHANGED <<pi, ci, db, post, qbuf>>
  PROVE  PostInv'
BY DEF PostInv, Ahead, Blk

\* The completion queue as pollers and device see it depends on these alone.
LEMMA CqFrame ==
  ASSUME CqOrder, UnreadInv, CurrentInv,
         UNCHANGED <<ci, hwci, hwpi, swDb, cqci, cqbuf, poll>>
  PROVE  CqOrder' /\ UnreadInv' /\ CurrentInv'
<1>1. CqOrder'
  BY PubFrame DEF CqOrder, Ce, Holding
<1>2. UnreadInv'
  BY DEF UnreadInv, Unread, Ce, Ahead
<1>3. CurrentInv'
  BY DEF CurrentInv, Unread, Holding, Ce, Ahead, CurrentCqe
<1> QED
  BY <1>1, <1>2, <1>3
----------------------------------------------------------------------------
(* Steps of a poster *)

\* Locks: a step of a poster.
LEMMA PostLockInv ==
  ASSUME TypeOK, LockInv, NEW p \in Posters, Post(p)
  PROVE  LockInv'
<1> USE DEF LockInv, TypeOK, sqVars, hwVars, cqVars
<1>n. NoThread \notin Posters
  BY CallerAssumption
<1>1. ASSUME NEW cnt \in WrSizes \cup {0}, PostLock(p, cnt)
      PROVE  LockInv'
  BY <1>1, <1>n DEF PostLock
<1>2. CASE PostInvalid(p)
  BY <1>2, <1>n DEF PostInvalid, PostUnlock
<1>3. CASE PostOverflow(p)
  BY <1>3, <1>n DEF PostOverflow, PostUnlock
<1>4. CASE PostCheck(p)
  BY <1>4 DEF PostCheck
<1>5. CASE PostCopy(p)
  BY <1>5 DEF PostCopy
<1>6. CASE PostPublish(p)
  BY <1>6 DEF PostPublish
<1>7. CASE PostRing(p)
  BY <1>7, <1>n DEF PostRing, PostUnlock
<1> QED
  BY <1>1, <1>2, <1>3, <1>4, <1>5, <1>6, <1>7 DEF Post

\* Taking sq->lock.
LEMMA PostLockSafe ==
  ASSUME IndInv, NEW p \in Posters, NEW cnt \in WrSizes \cup {0}, PostLock(p, cnt)
  PROVE  IndInv'
<1>1. TypeOK' /\ LockInv'
  BY PostType, PostLockInv DEF Post, IndInv
<1>2. SqOrder' /\ Tiled' /\ DirectInv'
  BY SqOrderFrame, TiledFrame, DirectFrame DEF IndInv, PostLock, hwVars, cqVars
<1>3. PostInv'
  <2>1. \A r \in Posters : post[r].pc = "idle"
    BY CallerAssumption DEF PostLock, IndInv, LockInv
  <2>2. db' = pi'
    BY <2>1 DEF PostLock, IndInv, PostInv
  <2>3. \A r \in Posters : post'[r].pc \in {"idle", "check"}
    BY <2>1 DEF PostLock, IndInv, TypeOK
  <2> QED
    BY <2>2, <2>3 DEF PostInv
<1>4. CqOrder' /\ UnreadInv' /\ CurrentInv'
  BY CqFrame DEF IndInv, PostLock, hwVars, cqVars
<1> QED
  BY <1>1, <1>2, <1>3, <1>4 DEF IndInv

\* The error returns.
LEMMA PostErrorSafe ==
  ASSUME IndInv, NEW p \in Posters, PostInvalid(p) \/ PostOverflow(p)
  PROVE  IndInv'
<1> USE DEF PostInvalid, PostOverflow, PostUnlock
<1>1. TypeOK' /\ LockInv'
  BY PostType, PostLockInv DEF Post, IndInv
<1>2. SqOrder' /\ Tiled' /\ DirectInv'
  BY SqOrderFrame, TiledFrame, DirectFrame DEF IndInv, hwVars, cqVars
<1>3. PostInv'
  <2>1. \A r \in Posters : r # p => post[r].pc = "idle"
    BY SolePoster DEF IndInv
  <2>2. db' = pi'
    BY DoorbellCurrent DEF IndInv
  <2>3. \A r \in Posters : post'[r].pc = "idle"
    BY <2>1 DEF IndInv, TypeOK
  <2> QED
    BY <2>2, <2>3 DEF PostInv
<1>4. CqOrder' /\ UnreadInv' /\ CurrentInv'
  BY CqFrame DEF IndInv, hwVars, cqVars
<1> QED
  BY <1>1, <1>2, <1>3, <1>4 DEF IndInv

\* The room check.
LEMMA PostCheckSafe ==
  ASSUME IndInv, NEW p \in Posters, PostCheck(p)
  PROVE  IndInv'
<1>1. TypeOK' /\ LockInv'
  BY PostType, PostLockInv DEF Post, IndInv
<1>2. SqOrder' /\ Tiled' /\ DirectInv'
  BY SqOrderFrame, TiledFrame, DirectFrame DEF IndInv, PostCheck, hwVars, cqVars
<1>3. PostInv'
  <2>1. \A r \in Posters : r # p => post'[r].pc = "idle"
    BY SolePoster DEF IndInv, PostCheck, TypeOK
  <2>2. db' = pi'
    BY DoorbellCurrent DEF IndInv, PostCheck
  <2>3. post'[p].pc = "copy" /\ post'[p].cnt = post[p].cnt
    BY DEF PostCheck, IndInv, TypeOK, PostLocals
  <2>4. post[p].cnt \in Nat /\ post[p].cnt >= 1
    BY WrSizeBounds DEF PostCheck, IndInv, TypeOK, PostLocals
  <2>5. Ahead(pi) \in Nat
    BY Distances DEF IndInv, TypeOK
  <2>6. Ahead(pi)' + post'[p].cnt <= SqBlocks
    BY <2>3, <2>4, <2>5, IdxModBounds
       DEF PostCheck, CheckSqOverflow, Ahead, cqVars
  <2> QED
    BY <2>1, <2>2, <2>3, <2>4, <2>6 DEF PostInv
<1>4. CqOrder' /\ UnreadInv' /\ CurrentInv'
  BY CqFrame DEF IndInv, PostCheck, hwVars, cqVars
<1> QED
  BY <1>1, <1>2, <1>3, <1>4 DEF IndInv

\* Blocks from the device's position to pi are not overwritten by a request
\* for which there is room after pi.
LEMMA CopyApart ==
  ASSUME TypeOK, SqOrder, NEW cnt \in Nat, Ahead(pi) + cnt <= SqBlocks,
         NEW x \in Idx, Pending(x)
  PROVE  SqSlot(x) \notin Blocks(pi, cnt)
<1> SUFFICES ASSUME NEW i \in 0..(cnt - 1)
             PROVE  SqSlot(x) # SqSlot(Add(pi, i))
  BY DEF Blocks
<1> DEFINE y == Add(pi, i)
<1>1. /\ pi \in Idx /\ hwci \in Idx /\ i \in Nat /\ i < cnt
      /\ Off(pi) \in Nat /\ Ahead(pi) \in Nat /\ Off(x) \in Nat
      /\ Ahead(hwci) \in Nat /\ Ahead(db) \in Nat
  BY Distances DEF TypeOK
<1>2. Off(pi) = Ahead(pi) - Ahead(hwci)
  BY <1>1, SubDiff DEF TypeOK, SqOrder, Off, Ahead
<1>3. Off(pi) + i < SqBlocks /\ SqBlocks <= IdxMod /\ SqBlocks \in Nat
  BY <1>1, <1>2, IdxModBounds
<1>4. y \in Idx /\ Off(y) = Off(pi) + i
  <2>1. Sub(pi, hwci) + i < IdxMod
    BY <1>1, <1>3, IdxModBounds DEF Off
  <2> QED
    BY <1>1, <2>1, SubAdvance DEF Off
<1> HIDE DEF y
<1>5. Off(x) < Off(y)
  BY <1>1, <1>4 DEF Pending
<1>6. Sub(y, x) = Off(y) - Off(x)
  <2>1. Sub(x, hwci) <= Sub(y, hwci)
    BY <1>1, <1>4, <1>5 DEF Off
  <2> QED
    BY <1>1, <1>4, <2>1, SubDiff DEF Off
<1>7. x # y /\ Sub(y, x) < SqBlocks
  BY <1>1, <1>3, <1>4, <1>5, <1>6
<1>8. SqSlot(x) # SqSlot(y)
  BY <1>4, <1>7, SqSlotApart
<1> QED
  BY <1>8 DEF y

\* Copying the request into the ring.
LEMMA PostCopySafe ==
  ASSUME IndInv, NEW p \in Posters, PostCopy(p)
  PROVE  IndInv'
<1>1. TypeOK' /\ LockInv'
  BY PostType, PostLockInv DEF Post, IndInv
<1>2. SqOrder'
  BY SqOrderFrame DEF IndInv, PostCopy, hwVars, cqVars
<1>c. PICK cnt \in Nat : /\ cnt = post[p].cnt
                         /\ cnt >= 1 /\ cnt < IdxMod
                         /\ Ahead(pi) + cnt <= SqBlocks
                         /\ db = pi
  BY WrSizeBounds DEF PostCopy, IndInv, TypeOK, PostLocals, PostInv
<1>u. UNCHANGED <<pi, hwci, db, ci, dwqe>> /\ pi \in Idx /\ hwci \in Idx
  BY DEF PostCopy, hwVars, cqVars, IndInv, TypeOK
<1>b. \A x \in Idx : Pending(x) => Blk(x)' = Blk(x)
  <2> SUFFICES ASSUME NEW x \in Idx, Pending(x)
               PROVE  Blk(x)' = Blk(x)
    OBVIOUS
  <2>1. SqSlot(x) \notin Blocks(pi, cnt)
    BY <1>c, CopyApart DEF IndInv
  <2>2. SqSlot(x) \in SqSlots
    BY SqSlotType
  <2> QED
    BY <2>1, <2>2, <1>c DEF PostCopy, Blk
<1>3. Tiled'
  <2>1. /\ Off(pi)' = Off(pi)
        /\ \A x \in Idx : Off(x)' = Off(x) /\ (Pending(x)' <=> Pending(x))
    BY <1>u DEF Off, Pending
  <2>2. ASSUME NEW x \in Idx, Pending(x), NEW w \in Wqe, w = Blk(x)
        PROVE  /\ Tile(w)'
               /\ Off(w.label)' <= Off(x)'
               /\ Off(x)' < Off(w.label)' + w.cnt
    <3>1. /\ Tile(w)
          /\ Off(w.label) <= Off(x)
          /\ Off(x) < Off(w.label) + w.cnt
      BY <2>2 DEF IndInv, Tiled
    <3>3. /\ w.cnt \in Nat /\ w.label \in Idx
          /\ Off(w.label) \in Nat /\ Off(pi) \in Nat /\ Off(pi) < IdxMod
      BY <3>1, WrSizeBounds, <1>u, Distances DEF Tile, Wqe, IndInv
    <3>4. ASSUME NEW y \in Idx, Off(w.label) <= Off(y), Off(y) < Off(w.label) + w.cnt
          PROVE  Blk(y)' = w
      <4>1. Off(y) \in Nat
        BY Distances DEF IndInv
      <4>2. Pending(y) /\ Blk(y) = w
        BY <3>1, <3>3, <3>4, <4>1 DEF Tile, Pending
      <4> QED
        BY <4>2, <1>b
    <3> DEFINE z == Add(w.label, w.cnt)
    <3>5. ASSUME z # pi
          PROVE  Blk(z).label' = z
      <4>1. Sub(w.label, hwci) + w.cnt < IdxMod
        <5>1. Off(w.label) + w.cnt <= Off(pi)
          BY <3>1 DEF Tile
        <5> QED
          BY <5>1, <3>3, IdxModBounds DEF Off
      <4>2. z \in Idx /\ Off(z) = Off(w.label) + w.cnt
        BY <4>1, <3>3, <1>u, SubAdvance DEF Off
      <4>3. Off(z) # Off(pi)
        BY <4>2, <3>5, <1>u, SubInj DEF Off
      <4>4. Blk(z).label = z /\ Off(w.label) + w.cnt <= Off(pi)
        BY <3>1, <3>5 DEF Tile
      <4> HIDE DEF z
      <4>5. Pending(z)
        BY <4>2, <4>3, <4>4, <3>3 DEF Pending
      <4> QED
        BY <4>2, <4>4, <4>5, <1>b
    <3>6. /\ w.label \in Idx
          /\ w.cnt >= 1
          /\ Off(w.label)' + w.cnt <= Off(pi)'
      BY <3>1, <2>1 DEF Tile
    <3>7. \A y \in Idx :
            Off(w.label)' <= Off(y)' /\ Off(y)' < Off(w.label)' + w.cnt => Blk(y)' = w
      BY <3>4, <3>3, <2>1
    <3>8. Add(w.label, w.cnt) # pi'
            => Blk(Add(w.label, w.cnt)).label' = Add(w.label, w.cnt)
      BY <3>5, <1>u
    <3>9. Tile(w)'
      BY <3>6, <3>7, <3>8 DEF Tile
    <3> QED
      BY <3>9, <3>1, <3>3, <2>1
  <2>3. \A x \in Idx :
          Pending(x)' => /\ Tile(Blk(x))'
                         /\ Off(Blk(x).label)' <= Off(x)'
                         /\ Off(x)' < Off(Blk(x).label)' + Blk(x).cnt'
    <3> SUFFICES ASSUME NEW x \in Idx, Pending(x)
                 PROVE  /\ Tile(Blk(x))'
                        /\ Off(Blk(x).label)' <= Off(x)'
                        /\ Off(x)' < Off(Blk(x).label)' + Blk(x).cnt'
      BY <2>1
    <3>1. PICK w \in Wqe : w = Blk(x)
      BY Distances DEF IndInv
    <3>2. Blk(x)' = w
      BY <1>b, <3>1
    <3>3. Tile(w)' /\ Off(w.label)' <= Off(x)' /\ Off(x)' < Off(w.label)' + w.cnt
      BY <2>2, <3>1
    <3> QED
      BY <3>2, <3>3 DEF Tile, Off
  <2>4. hwci' # pi' => Blk(hwci).label' = hwci'
    <3> SUFFICES ASSUME hwci # pi
                 PROVE  Blk(hwci).label' = hwci
      BY <1>u DEF Blk
    <3>1. Off(hwci) = 0 /\ Off(pi) \in Nat /\ Off(pi) # 0
      BY <1>u, SubZero, Distances DEF Off, IndInv
    <3>2. Pending(hwci) /\ Blk(hwci).label = hwci
      BY <3>1 DEF Pending, IndInv, Tiled
    <3> QED
      BY <3>2, <1>b, <1>u DEF Blk
  <2> QED
    BY <2>3, <2>4 DEF Tiled
<1>4. DirectInv'
  <2> SUFFICES ASSUME dwqe # NoWqe
               PROVE  hwci # db /\ dwqe = Blk(hwci)'
    BY <1>u DEF DirectInv, Blk
  <2>1. hwci # pi /\ dwqe = Blk(hwci)
    BY <1>c DEF DirectInv, IndInv
  <2>2. Off(hwci) = 0 /\ Off(pi) \in Nat /\ Off(pi) # 0
    BY <2>1, <1>u, SubZero, Distances DEF Off, IndInv
  <2>3. Pending(hwci)
    BY <2>2 DEF Pending
  <2> QED
    BY <2>1, <2>3, <1>b, <1>u, <1>c DEF Blk
<1>5. PostInv'
  <2>1. \A r \in Posters : r # p => post'[r].pc = "idle"
    BY SolePoster DEF IndInv, PostCopy, TypeOK
  <2>2. post'[p].pc = "publish" /\ post'[p].cnt = cnt
    BY <1>c DEF PostCopy, IndInv, TypeOK, PostLocals
  <2>3. ASSUME NEW i \in 0..(cnt - 1)
        PROVE  Blk(Add(pi, i))' = [label |-> pi, cnt |-> cnt]
    <3>0. i \in Nat /\ i <= IdxMod
      BY <1>c, IdxModBounds
    <3>1. Add(pi, i) \in Idx
      BY <3>0, <1>u, AddType
    <3>2. SqSlot(Add(pi, i)) \in SqSlots /\ SqSlot(Add(pi, i)) \in Blocks(pi, cnt)
      BY <3>1, SqSlotType DEF Blocks
    <3>3. qbuf'[SqSlot(Add(pi, i))] = [label |-> pi, cnt |-> cnt]
      BY <3>2, <1>c DEF PostCopy
    <3> QED
      BY <3>3, <1>u DEF Blk, Add
  <2>4. Ahead(pi)' + cnt <= SqBlocks /\ db' = pi'
    BY <1>c, <1>u DEF Ahead
  <2>5. \A i \in 0..(post'[p].cnt - 1) :
          Blk(Add(pi, i))' = [label |-> pi', cnt |-> post'[p].cnt]
    BY <2>2, <2>3, <1>u
  <2> QED
    BY <2>1, <2>2, <2>4, <2>5, <1>c DEF PostInv
<1>6. CqOrder' /\ UnreadInv' /\ CurrentInv'
  BY CqFrame DEF IndInv, PostCopy, hwVars, cqVars
<1> QED
  BY <1>1, <1>2, <1>3, <1>4, <1>5, <1>6 DEF IndInv

\* Publishing the request: pi moves over its blocks.
LEMMA PostPublishSafe ==
  ASSUME IndInv, NEW p \in Posters, PostPublish(p)
  PROVE  IndInv'
<1>1. TypeOK' /\ LockInv'
  BY PostType, PostLockInv DEF Post, IndInv
<1>c. PICK cnt \in Nat : /\ cnt = post[p].cnt
                         /\ cnt >= 1 /\ cnt < IdxMod
                         /\ Ahead(pi) + cnt <= SqBlocks
                         /\ db = pi
                         /\ \A i \in 0..(cnt - 1) :
                              Blk(Add(pi, i)) = [label |-> pi, cnt |-> cnt]
  BY WrSizeBounds DEF PostPublish, IndInv, TypeOK, PostLocals, PostInv
<1>u. /\ UNCHANGED <<hwci, db, ci, dwqe, qbuf>>
      /\ pi \in Idx /\ hwci \in Idx /\ db \in Idx /\ ci \in Idx
      /\ pi' = Add(pi, cnt)
  BY <1>c DEF PostPublish, hwVars, cqVars, IndInv, TypeOK
<1>d. /\ Ahead(pi) \in Nat /\ Ahead(hwci) \in Nat /\ Ahead(db) \in Nat
      /\ Off(pi) \in Nat
      /\ SqBlocks \in Nat /\ IdxMod \in Nat /\ 2 * SqBlocks <= IdxMod
  BY <1>u, Distances, IdxModBounds DEF IndInv
<1>e. Off(pi) = Ahead(pi) - Ahead(hwci) /\ Off(pi) + cnt < IdxMod
  <2>1. Off(pi) = Ahead(pi) - Ahead(hwci)
    <3>1. Ahead(hwci) <= Ahead(pi)
      BY <1>d DEF IndInv, SqOrder
    <3> QED
      BY <1>u, <3>1, SubDiff DEF Off, Ahead
  <2> QED
    BY <2>1, <1>c, <1>d
<1>f. pi' \in Idx /\ Ahead(pi)' = Ahead(pi) + cnt /\ Off(pi)' = Off(pi) + cnt
  <2>1. Sub(pi, ci) + cnt < IdxMod /\ Sub(pi, hwci) + cnt < IdxMod
    BY <1>c, <1>d, <1>e DEF Ahead, Off
  <2>2. /\ Add(pi, cnt) \in Idx /\ Sub(Add(pi, cnt), ci) = Sub(pi, ci) + cnt
        /\ Sub(Add(pi, cnt), hwci) = Sub(pi, hwci) + cnt
    BY <2>1, <1>c, <1>u, SubAdvance
  <2> QED
    BY <2>2, <1>u DEF Ahead, Off
<1>b. Blk(pi) = [label |-> pi, cnt |-> cnt]
  <2>1. Add(pi, 0) = pi /\ 0 \in 0..(cnt - 1)
    BY <1>u, <1>c, IdxModBounds DEF Add, Idx
  <2> QED
    BY <2>1, <1>c
<1>2. SqOrder'
  <2>1. Ahead(hwci)' = Ahead(hwci) /\ Ahead(db)' = Ahead(db)
    BY <1>u DEF Ahead
  <2> QED
    BY <2>1, <1>f, <1>c, <1>d DEF SqOrder, IndInv
<1>3. Tiled'
  <2>1. \A x \in Idx : Off(x)' = Off(x) /\ Blk(x)' = Blk(x) /\ Off(x) \in Nat
    BY <1>u, Distances DEF Off, Blk, IndInv
  <2>2. ASSUME NEW x \in Idx, Off(x) < Off(pi), NEW w \in Wqe, w = Blk(x)
        PROVE  Tile(w)' /\ Off(w.label) <= Off(x) /\ Off(x) < Off(w.label) + w.cnt
    <3>1. /\ Tile(w)
          /\ Off(w.label) <= Off(x)
          /\ Off(x) < Off(w.label) + w.cnt
      BY <2>2 DEF IndInv, Tiled, Pending
    <3>2. /\ w.label \in Idx
          /\ w.cnt \in Nat /\ w.cnt >= 1
          /\ Off(w.label) + w.cnt <= Off(pi)
      BY <3>1, WrSizeBounds DEF Tile, Wqe
    <3>3. Off(w.label)' + w.cnt <= Off(pi)'
      BY <3>2, <2>1, <1>d, <1>f, <1>c
    <3>4. \A y \in Idx :
            Off(w.label)' <= Off(y)' /\ Off(y)' < Off(w.label)' + w.cnt => Blk(y)' = w
      BY <3>1, <3>2, <2>1 DEF Tile
    <3> DEFINE z == Add(w.label, w.cnt)
    <3>5. Blk(z).label' = z
      <4>1. CASE z = pi
        BY <4>1, <1>b, <1>u DEF Blk
      <4>2. CASE z # pi
        BY <4>2, <3>1, <1>u DEF Blk, Tile
      <4> QED
        BY <4>1, <4>2
    <3>6. Tile(w)'
      BY <3>2, <3>3, <3>4, <3>5 DEF Tile
    <3> QED
      BY <3>1, <3>6
  <2>3. ASSUME NEW x \in Idx, Off(pi) <= Off(x), Off(x) < Off(pi) + cnt
        PROVE  Blk(x) = [label |-> pi, cnt |-> cnt]
    <3> DEFINE i == Off(x) - Off(pi)
    <3>1. i \in 0..(cnt - 1)
      BY <2>1, <2>3, <1>c, <1>d
    <3>2. Sub(x, pi) = i
      BY <2>3, <1>u, SubDiff DEF Off
    <3>3. Add(pi, i) = x
      BY <3>2, <1>u, AddSub
    <3> QED
      BY <3>1, <3>3, <1>c
  <2>4. ASSUME NEW w, w = [label |-> pi, cnt |-> cnt]
        PROVE  Tile(w)' /\ w.label = pi /\ w.cnt = cnt
    <3>1. w.label = pi /\ w.cnt = cnt
      BY <2>4
    <3>2. Off(w.label)' = Off(pi) /\ Off(pi)' = Off(pi) + cnt
      BY <3>1, <2>1, <1>u, <1>f DEF Off
    <3>3. ASSUME NEW y \in Idx, Off(w.label)' <= Off(y)', Off(y)' < Off(w.label)' + w.cnt
          PROVE  Blk(y)' = w
      BY <3>1, <3>2, <3>3, <2>1, <2>3, <2>4
    <3>4. Add(w.label, w.cnt) = pi'
      BY <3>1, <1>u
    <3>5. w.label \in Idx /\ w.cnt >= 1 /\ Off(w.label)' + w.cnt <= Off(pi)'
      BY <3>1, <3>2, <1>u, <1>c, <1>d
    <3> QED
      BY <3>1, <3>3, <3>4, <3>5 DEF Tile
  <2>5. ASSUME NEW x \in Idx, Pending(x)'
        PROVE  /\ Tile(Blk(x))'
               /\ Off(Blk(x).label)' <= Off(x)'
               /\ Off(x)' < Off(Blk(x).label)' + Blk(x).cnt'
    <3>0. Off(x) < Off(pi) + cnt
      BY <2>5, <2>1, <1>f DEF Pending
    <3>1. PICK w \in Wqe : w = Blk(x)
      BY Distances DEF IndInv
    <3>2. Blk(x)' = w
      BY <3>1, <2>1
    <3>3. Tile(w)' /\ w.label \in Idx /\ Off(w.label) <= Off(x) /\ Off(x) < Off(w.label) + w.cnt
      <4>1. CASE Off(x) < Off(pi)
        <5>1. w.label \in Idx
          BY <4>1, <3>1 DEF IndInv, Tiled, Pending, Tile
        <5> QED
          BY <4>1, <3>1, <2>2, <5>1
      <4>2. CASE Off(pi) <= Off(x)
        <5>1. w = [label |-> pi, cnt |-> cnt]
          BY <4>2, <3>0, <3>1, <2>3
        <5>2. Tile(w)' /\ w.label = pi /\ w.cnt = cnt
          BY <5>1, <2>4
        <5> QED
          BY <4>2, <3>0, <5>2, <1>u
      <4> QED
        BY <4>1, <4>2, <2>1, <1>d
    <3>4. Off(w.label)' = Off(w.label) /\ Off(x)' = Off(x)
      BY <3>3, <2>1
    <3> QED
      BY <3>2, <3>3, <3>4 DEF Tile, Off
  <2>6. hwci' # pi' => Blk(hwci).label' = hwci'
    <3>1. CASE hwci = pi
      BY <3>1, <1>b, <1>u DEF Blk
    <3>2. CASE hwci # pi
      BY <3>2, <1>u DEF Blk, IndInv, Tiled
    <3> QED
      BY <3>1, <3>2
  <2> QED
    BY <2>5, <2>6 DEF Tiled
<1>4. DirectInv'
  BY <1>u, DirectFrame DEF IndInv
<1>5. PostInv'
  <2>1. \A r \in Posters : r # p => post'[r].pc = "idle"
    BY SolePoster DEF IndInv, PostPublish, TypeOK
  <2>2. post'[p].pc = "ring" /\ post'[p].cnt = cnt
    BY <1>c DEF PostPublish, IndInv, TypeOK, PostLocals
  <2>3. pi' = Add(db', cnt) /\ Ahead(db)' + cnt = Ahead(pi)'
    BY <1>u, <1>c, <1>f DEF Ahead
  <2>4. Blk(db)' = [label |-> db', cnt |-> cnt]
    BY <1>u, <1>c, <1>b DEF Blk
  <2> QED
    BY <2>1, <2>2, <2>3, <2>4, <1>c DEF PostInv
<1>6. CqOrder' /\ UnreadInv' /\ CurrentInv'
  BY CqFrame DEF IndInv, PostPublish, hwVars, cqVars
<1> QED
  BY <1>1, <1>2, <1>3, <1>4, <1>5, <1>6 DEF IndInv

\* Ringing the doorbell, or pushing the WQE itself.
LEMMA PostRingSafe ==
  ASSUME IndInv, NEW p \in Posters, PostRing(p)
  PROVE  IndInv'
<1>1. TypeOK' /\ LockInv'
  BY PostType, PostLockInv DEF Post, IndInv
<1>c. PICK cnt \in Nat : /\ cnt = post[p].cnt
                         /\ cnt >= 1
                         /\ pi = Add(db, cnt)
                         /\ Ahead(db) + cnt = Ahead(pi)
                         /\ Blk(db) = [label |-> db, cnt |-> cnt]
  BY WrSizeBounds DEF PostRing, IndInv, TypeOK, PostLocals, PostInv
<1>u. /\ UNCHANGED <<pi, hwci, ci, qbuf>>
      /\ pi \in Idx /\ hwci \in Idx /\ db \in Idx /\ ci \in Idx
      /\ db' = pi
  BY DEF PostRing, hwVars, cqVars, IndInv, TypeOK
<1>d. /\ Ahead(pi) \in Nat /\ Ahead(hwci) \in Nat /\ Ahead(db) \in Nat
      /\ Ahead(hwci) <= Ahead(db)
  BY <1>u, Distances DEF IndInv, SqOrder
<1>2. SqOrder'
  BY <1>u, <1>c, <1>d DEF SqOrder, IndInv, Ahead
<1>3. Tiled'
  BY <1>u, TiledFrame DEF IndInv
<1>4. DirectInv'
  <2>1. hwci' # db'
    BY <1>u, <1>c, <1>d
  <2>2. ASSUME UseDirectWqe(p)
        PROVE  dwqe' = Blk(hwci)'
    <3>1. cnt = 1 /\ Ahead(pi) = 1
      BY <2>2, <1>c DEF UseDirectWqe, Ahead
    <3>2. Ahead(hwci) = 0 /\ Ahead(db) = 0
      BY <3>1, <1>c, <1>d
    <3>3. hwci = db
      BY <3>2, <1>u, SubInj DEF Ahead
    <3>4. Sub(pi, 1) = db
      BY <3>1, <1>c, <1>u, StepBack
    <3> QED
      BY <2>2, <3>3, <3>4, <1>u DEF PostRing, Blk
  <2>3. ASSUME ~UseDirectWqe(p), dwqe' # NoWqe
        PROVE  dwqe' = Blk(hwci)'
    BY <2>3, <1>u DEF PostRing, IndInv, DirectInv, Blk
  <2> QED
    BY <2>1, <2>2, <2>3 DEF DirectInv
<1>5. PostInv'
  <2>1. \A r \in Posters : post'[r].pc = "idle"
    BY SolePoster DEF IndInv, PostRing, PostUnlock, TypeOK
  <2> QED
    BY <2>1, <1>u DEF PostInv
<1>6. CqOrder' /\ UnreadInv' /\ CurrentInv'
  BY CqFrame DEF IndInv, PostRing, hwVars, cqVars
<1> QED
  BY <1>1, <1>2, <1>3, <1>4, <1>5, <1>6 DEF IndInv
----------------------------------------------------------------------------
(* Writing CQEs *)

\* Advancing the base beyond a counter puts the counter almost a full turn of
\* the counters ahead.
LEMMA SubBehind ==
  ASSUME NEW x \in Idx, NEW c \in Idx, NEW d \in Nat, Sub(x, c) < d, d <= IdxMod
  PROVE  Sub(x, Add(c, d)) = (Sub(x, c) - d) + IdxMod
BY IdxModBounds DEF Add, Sub, Idx

\* One step back is one step closer to any other base.
LEMMA SubPred ==
  ASSUME NEW x \in Idx, NEW c \in Idx, Sub(x, c) >= 1
  PROVE  Sub(Sub(x, 1), c) = Sub(x, c) - 1
BY IdxModBounds DEF Sub, Idx

\* Steps add up.
LEMMA AddAfterOne ==
  ASSUME NEW x \in Idx, NEW d \in Nat, d < IdxMod
  PROVE  /\ Add(Add(x, 1), d) = Add(x, d + 1)
         /\ Sub(Add(x, d), x) = d
BY IdxModBounds DEF Add, Sub, Idx

\* Writing a CQE: it goes to an entry that is neither unread nor in the hands
\* of a poller, and it joins the unread ones as the last.
LEMMA WriteCqeApart ==
  ASSUME TypeOK, CqOrder, NEW entry, NEW fd, NEW status,
         WriteCqe(entry, fd, status), UNCHANGED cqVars
  PROVE  /\ CqOrder'
         /\ cqbuf'[CqSlot(hwpi)].entry_idx = entry
         /\ cqbuf'[CqSlot(hwpi)].fd = fd
         /\ \A j \in Idx : Unread(j) => Ce(j)' = Ce(j) /\ j # hwpi
         /\ \A j \in Idx : Unread(j)' => Unread(j) \/ j = hwpi
         /\ \A p \in Pollers : Holding(p) => CurrentCqe' = CurrentCqe
<1>u. /\ UNCHANGED <<ci, cqci, swDb, poll>>
      /\ hwpi \in Idx /\ cqci \in Idx /\ swDb \in DbIdx
      /\ hwpi' = Add(hwpi, 1)
      /\ CqSlot(hwpi) \in CqSlots
  BY CqSlotType DEF WriteCqe, cqVars, TypeOK
<1>w. /\ cqbuf'[CqSlot(hwpi)].owner = 1 - Round(hwpi)
      /\ cqbuf'[CqSlot(hwpi)].entry_idx = entry
      /\ cqbuf'[CqSlot(hwpi)].fd = fd
      /\ \A s \in CqSlots : s # CqSlot(hwpi) => cqbuf'[s] = cqbuf[s]
  BY <1>u DEF WriteCqe, TypeOK
<1>p. Pub \in Idx /\ Pub' = Pub
  BY <1>u, PubFacts, PubWrite DEF WriteCqe
<1>d. PICK D \in Nat, E \in Nat :
        /\ D = Sub(hwpi, Pub) /\ E = Sub(cqci, Pub)
        /\ E <= D /\ D < CqEntries
  <2>1. Sub(hwpi, Pub) \in Nat /\ Sub(cqci, Pub) \in Nat
    BY <1>u, <1>p, SubType
  <2>2. Sub(hwpi, Pub) < CqEntries
    BY <1>u, PubFacts DEF WriteCqe
  <2> QED
    BY <2>1, <2>2 DEF CqOrder
<1>e. /\ CqEntries \in Nat /\ IdxMod \in Nat /\ 2 * CqEntries <= IdxMod /\ CqEntries >= 1
  BY IdxModBounds
<1>f. Sub(hwpi, cqci) = D - E
  BY <1>u, <1>p, <1>d, SubDiff
<1>g. hwpi' \in Idx /\ Sub(hwpi', Pub) = D + 1 /\ Sub(hwpi', cqci) = (D - E) + 1
  <2>1. Sub(hwpi, Pub) + 1 < IdxMod /\ Sub(hwpi, cqci) + 1 < IdxMod /\ 1 \in Nat
    BY <1>d, <1>e, <1>f
  <2> QED
    BY <2>1, <1>u, <1>p, <1>d, <1>f, SubAdvance
<1>1. \A j \in Idx : Unread(j) => Ce(j)' = Ce(j) /\ j # hwpi
  <2> SUFFICES ASSUME NEW j \in Idx, Unread(j)
               PROVE  Ce(j)' = Ce(j) /\ j # hwpi
    OBVIOUS
  <2>1. Sub(j, cqci) \in Nat /\ Sub(j, cqci) < D - E
    BY <1>u, <1>f, SubType, IdxModBounds DEF Idx, Unread
  <2>2. j # hwpi
    BY <2>1, <1>f
  <2>3. Sub(hwpi, j) < CqEntries
    <3>1. Sub(j, cqci) <= Sub(hwpi, cqci)
      BY <2>1, <1>f, <1>d
    <3>2. Sub(hwpi, j) = (D - E) - Sub(j, cqci)
      BY <3>1, <1>u, <1>f, SubDiff
    <3> QED
      BY <3>2, <2>1, <1>d, <1>e
  <2>4. CqSlot(j) # CqSlot(hwpi) /\ CqSlot(j) \in CqSlots
    BY <2>2, <2>3, <1>u, CqSlotApart, CqSlotType
  <2> QED
    BY <2>2, <2>4, <1>w DEF Ce
<1>2. \A j \in Idx : Unread(j)' => Unread(j) \/ j = hwpi
  <2> SUFFICES ASSUME NEW j \in Idx, Unread(j)', j # hwpi
               PROVE  Unread(j)
    OBVIOUS
  <2>1. Sub(j, cqci) \in Nat /\ Sub(j, cqci) < (D - E) + 1
    BY <1>u, <1>g, SubType, IdxModBounds DEF Idx, Unread
  <2>2. Sub(j, cqci) # D - E
    BY <1>u, <1>f, SubInj
  <2> QED
    BY <2>1, <2>2, <1>f, <1>d DEF Unread
<1>3. \A p \in Pollers : Holding(p) => CurrentCqe' = CurrentCqe
  <2> SUFFICES ASSUME NEW p \in Pollers, Holding(p)
               PROVE  CurrentCqe' = CurrentCqe
    OBVIOUS
  <2>0. PICK c \in Idx : c = Sub(cqci, 1)
    BY <1>u, StepBack
  <2>1. E >= 1
    BY <1>d DEF CqOrder
  <2>2. Sub(c, Pub) = E - 1
    BY <2>0, <2>1, <1>u, <1>p, <1>d, SubPred
  <2>3. Sub(hwpi, c) = (D - E) + 1
    <3>1. Sub(c, Pub) <= Sub(hwpi, Pub)
      BY <2>2, <1>d
    <3>2. Sub(hwpi, c) = Sub(hwpi, Pub) - Sub(c, Pub)
      BY <3>1, <1>u, <1>p, SubDiff
    <3> QED
      BY <3>2, <2>2, <1>d
  <2>4. c # hwpi
    <3>1. Sub(hwpi, c) # 0
      BY <2>3, <1>d
    <3> QED
      BY <3>1, <1>u, SubZero
  <2>5. Sub(hwpi, c) < CqEntries
    BY <2>3, <2>1, <1>d, <1>e
  <2>6. CqSlot(c) # CqSlot(hwpi) /\ CqSlot(c) \in CqSlots
    BY <2>4, <2>5, <1>u, CqSlotApart, CqSlotType
  <2> QED
    BY <2>6, <2>0, <1>u, <1>w DEF CurrentCqe
<1>4. CqOrder'
  <2>1. ASSUME NEW d \in 0..(CqEntries - 1)
        PROVE  Ce(Add(hwpi, d)).owner' = Round(Add(hwpi, d))'
    <3>0. d \in Nat /\ d < CqEntries /\ d < IdxMod /\ d + 1 <= IdxMod /\ d + 1 \in Nat
      BY <1>e
    <3>1. PICK y \in Idx : y = Add(hwpi, d + 1)
      BY <3>0, <1>u, AddType
    <3>2. Add(hwpi', d) = y
      BY <3>0, <3>1, <1>u, AddAfterOne
    <3>3. cqbuf'[CqSlot(y)].owner = Round(y)
      <4>1. CASE d + 1 = CqEntries
        BY <4>1, <3>1, <1>u, <1>w, NextRound
      <4>2. CASE d + 1 # CqEntries
        <5>0. d + 1 < CqEntries /\ d + 1 < IdxMod /\ d + 1 >= 1
          BY <4>2, <3>0, <1>e
        <5>1. Sub(y, hwpi) = d + 1
          BY <5>0, <3>0, <3>1, <1>u, AddAfterOne
        <5>2. y # hwpi
          BY <5>0, <5>1, <1>u, SubZero
        <5>3. CqSlot(hwpi) # CqSlot(y)
          BY <5>0, <5>1, <5>2, <1>u, CqSlotApart
        <5>4. cqbuf'[CqSlot(y)] = cqbuf[CqSlot(y)]
          BY <5>3, <1>w, CqSlotType
        <5>5. d + 1 \in 0..(CqEntries - 1)
          BY <5>0, <3>0, <1>e
        <5>6. cqbuf[CqSlot(y)].owner = Round(y)
          BY <5>5, <3>1 DEF CqOrder, Ce
        <5> QED
          BY <5>4, <5>6
      <4> QED
        BY <4>1, <4>2
    <3> QED
      BY <3>2, <3>3 DEF Ce, Add, Round, CqSlot
  <2>2. Sub(hwpi, cqci)' <= CqEntries /\ Sub(cqci, Pub)' <= Sub(hwpi, Pub)'
    <3>1. /\ Sub(hwpi, cqci)' = (D - E) + 1
          /\ Sub(cqci, Pub)' = E /\ Sub(hwpi, Pub)' = D + 1
      BY <1>u, <1>p, <1>g, <1>d DEF Sub
    <3> QED
      BY <3>1, <1>d, <1>e
  <2>3. \A p \in Pollers : Holding(p)' => Sub(cqci, Pub)' >= 1
    BY <1>u, <1>p DEF CqOrder, Holding, Sub
  <2> QED
    BY <2>1, <2>2, <2>3 DEF CqOrder
<1> QED
  BY <1>w, <1>1, <1>2, <1>3, <1>4

\* The new CQE names a block between the device's old and new position, so it
\* is in order behind all unread ones.
LEMMA WriteCqeSafe ==
  ASSUME TypeOK, TypeOK', CqOrder, UnreadInv, CurrentInv,
         NEW entry \in Idx, NEW fd \in BOOLEAN, NEW status,
         WriteCqe(entry, fd, status), UNCHANGED cqVars,
         Ahead(hwci) <= Ahead(hwci)',
         ~fd => Ahead(hwci) <= Sub(entry, ci) /\ Sub(entry, ci) < Ahead(hwci)'
  PROVE  CqOrder' /\ UnreadInv' /\ CurrentInv'
<1>a. /\ CqOrder'
      /\ cqbuf'[CqSlot(hwpi)].entry_idx = entry
      /\ cqbuf'[CqSlot(hwpi)].fd = fd
      /\ \A j \in Idx : Unread(j) => Ce(j)' = Ce(j) /\ j # hwpi
      /\ \A j \in Idx : Unread(j)' => Unread(j) \/ j = hwpi
      /\ \A p \in Pollers : Holding(p) => CurrentCqe' = CurrentCqe
  BY WriteCqeApart
<1>u. /\ UNCHANGED <<ci, cqci, swDb, poll>>
      /\ hwpi \in Idx /\ hwci \in Idx /\ hwci' \in Idx
  BY DEF cqVars, TypeOK
<1>d. PICK h \in Nat, g \in Nat, e \in Nat :
        h = Ahead(hwci) /\ g = Ahead(hwci)' /\ e = Sub(entry, ci)
  BY <1>u, Distances, SubType, IdxModBounds DEF Ahead, TypeOK, Idx
<1>o. h <= g /\ (~fd => h <= e /\ e < g)
  BY <1>d
<1> DEFINE At(j) == Sub(cqbuf[CqSlot(j)].entry_idx, ci)
           AtN(j) == Sub(cqbuf'[CqSlot(j)].entry_idx, ci)
           Fd(j) == cqbuf[CqSlot(j)].fd
           FdN(j) == cqbuf'[CqSlot(j)].fd
<1>t. \A j \in Idx : At(j) \in Nat /\ AtN(j) \in Nat
  <2> SUFFICES ASSUME NEW j \in Idx
               PROVE  At(j) \in Nat /\ AtN(j) \in Nat
    OBVIOUS
  <2>1. CqSlot(j) \in CqSlots
    BY CqSlotType
  <2>2. cqbuf[CqSlot(j)].entry_idx \in Idx /\ cqbuf'[CqSlot(j)].entry_idx \in Idx
    BY <2>1 DEF TypeOK, Cqe
  <2> QED
    BY <2>2, SubType DEF TypeOK
<1>old. \A j \in Idx : Unread(j) => AtN(j) = At(j) /\ FdN(j) = Fd(j)
  BY <1>a DEF Ce
<1>new. AtN(hwpi) = e /\ FdN(hwpi) = fd
  BY <1>a, <1>d
<1>b. \A j \in Idx : Unread(j) /\ ~Fd(j) => At(j) < h
  BY <1>d DEF UnreadInv, Ce, Ahead
<1>c. \A j, k \in Idx :
        Unread(j) /\ Unread(k) /\ Sub(j, cqci) < Sub(k, cqci) /\ ~Fd(j) /\ ~Fd(k)
          => At(j) < At(k)
  BY DEF UnreadInv, Ce, Ahead
<1>l. \A j \in Idx : Unread(j)' => Sub(j, cqci) <= Sub(hwpi, cqci) /\ Sub(j, cqci) \in Nat
  <2> SUFFICES ASSUME NEW j \in Idx, Unread(j)'
               PROVE  Sub(j, cqci) <= Sub(hwpi, cqci) /\ Sub(j, cqci) \in Nat
    OBVIOUS
  <2>1. cqci \in Idx /\ Sub(j, cqci) \in Nat /\ Sub(hwpi, cqci) \in Nat
    BY <1>u, SubType DEF TypeOK
  <2> QED
    BY <2>1, <1>a DEF Unread
<1>1. UnreadInv'
  <2>1. ASSUME NEW j \in Idx, Unread(j)', ~FdN(j)
        PROVE  AtN(j) < g
    <3>1. CASE Unread(j)
      <4>1. AtN(j) = At(j) /\ FdN(j) = Fd(j)
        BY <3>1, <1>old
      <4>2. At(j) < h /\ At(j) \in Nat
        BY <2>1, <3>1, <4>1, <1>b, <1>t
      <4> HIDE DEF At, AtN, Fd, FdN
      <4> QED
        BY <4>1, <4>2, <1>o
    <3>2. CASE j = hwpi
      <4>1. AtN(j) = e /\ FdN(j) = fd
        BY <3>2, <1>new
      <4> HIDE DEF At, AtN, Fd, FdN
      <4> QED
        BY <2>1, <4>1, <1>o
    <3> QED
      BY <2>1, <3>1, <3>2, <1>a
  <2>2. ASSUME NEW j \in Idx, NEW k \in Idx, Unread(j)', Unread(k)',
               Sub(j, cqci) < Sub(k, cqci), ~FdN(j), ~FdN(k)
        PROVE  AtN(j) < AtN(k)
    <3>0. j # hwpi
      BY <2>2, <1>l, <1>u, SubType, IdxModBounds DEF TypeOK, Idx
    <3>1. Unread(j)
      BY <3>0, <2>2, <1>a
    <3>2. AtN(j) = At(j) /\ FdN(j) = Fd(j)
      BY <3>1, <1>old
    <3>3. At(j) < h /\ At(j) \in Nat
      BY <2>2, <3>1, <3>2, <1>b, <1>t
    <3>4. CASE Unread(k)
      <4>1. AtN(k) = At(k) /\ FdN(k) = Fd(k)
        BY <3>4, <1>old
      <4> QED
        BY <2>2, <3>1, <3>2, <3>4, <4>1, <1>c
    <3>5. CASE k = hwpi
      <4>1. AtN(k) = e /\ FdN(k) = fd
        BY <3>5, <1>new
      <4> HIDE DEF At, AtN, Fd, FdN
      <4> QED
        BY <2>2, <3>2, <3>3, <4>1, <1>o
    <3> QED
      BY <2>2, <3>4, <3>5, <1>a
  <2>3. \A j \in Idx : Unread(j)' /\ ~Ce(j).fd' => Ahead(Ce(j).entry_idx)' < Ahead(hwci)'
    BY <2>1, <1>u, <1>d DEF Ce, Ahead
  <2>4. \A j, k \in Idx :
          /\ Unread(j)' /\ Unread(k)'
          /\ Sub(j, cqci)' < Sub(k, cqci)'
          /\ ~Ce(j).fd' /\ ~Ce(k).fd'
          => Ahead(Ce(j).entry_idx)' < Ahead(Ce(k).entry_idx)'
    BY <2>2, <1>u DEF Ce, Ahead
  <2> QED
    BY <2>3, <2>4 DEF UnreadInv
<1>2. CurrentInv'
  <2> SUFFICES ASSUME NEW p \in Pollers, Holding(p)', ~CurrentCqe.fd'
               PROVE  /\ Ahead(CurrentCqe.entry_idx)' < Ahead(hwci)'
                      /\ \A k \in Idx :
                           Unread(k)' /\ ~Ce(k).fd'
                             => Ahead(CurrentCqe.entry_idx)' < Ahead(Ce(k).entry_idx)'
                      /\ poll'[p].pc # "advance" => CurrentCqe.entry_idx' = ci'
    BY DEF CurrentInv
  <2>1. Holding(p) /\ CurrentCqe' = CurrentCqe /\ ~CurrentCqe.fd
    BY <1>u, <1>a DEF Holding
  <2>2. /\ Ahead(CurrentCqe.entry_idx) < Ahead(hwci)
        /\ \A k \in Idx :
             Unread(k) /\ ~Ce(k).fd
               => Ahead(CurrentCqe.entry_idx) < Ahead(Ce(k).entry_idx)
        /\ poll[p].pc # "advance" => CurrentCqe.entry_idx = ci
    BY <2>1 DEF CurrentInv
  <2>3. PICK c \in Nat : c = Ahead(CurrentCqe.entry_idx)
    <3>1. CqSlot(Sub(cqci, 1)) \in CqSlots
      BY StepBack, CqSlotType DEF TypeOK
    <3>2. CurrentCqe.entry_idx \in Idx
      BY <3>1 DEF CurrentCqe, TypeOK, Cqe
    <3> QED
      BY <3>2, Distances
  <2>4. Ahead(CurrentCqe.entry_idx)' = c
    BY <2>1, <2>3, <1>u DEF Ahead
  <2>5. c < h /\ \A k \in Idx : Unread(k) /\ ~Fd(k) => c < At(k)
    BY <2>2, <2>3, <1>d DEF Ce, Ahead
  <2>6. ASSUME NEW k \in Idx, Unread(k)', ~FdN(k)
        PROVE  c < AtN(k)
    <3>1. CASE Unread(k)
      BY <2>6, <3>1, <2>5, <1>old
    <3>2. CASE k = hwpi
      <4>1. AtN(k) = e /\ FdN(k) = fd
        BY <3>2, <1>new
      <4> HIDE DEF At, AtN, Fd, FdN
      <4> QED
        BY <2>5, <2>6, <4>1, <1>o
    <3> QED
      BY <2>6, <3>1, <3>2, <1>a
  <2>7. \A k \in Idx : Unread(k)' /\ ~Ce(k).fd'
                         => Ahead(CurrentCqe.entry_idx)' < Ahead(Ce(k).entry_idx)'
    BY <2>6, <2>4, <1>u DEF Ce, Ahead
  <2>8. Ahead(CurrentCqe.entry_idx)' < Ahead(hwci)'
    BY <2>4, <2>5, <1>o, <1>d
  <2> QED
    BY <2>1, <2>2, <2>7, <2>8, <1>u
<1> QED
  BY <1>a, <1>1, <1>2
----------------------------------------------------------------------------
(* Steps of the device *)

\* The WQE the device executes next is the one in the ring at its position,
\* whether or not it came through the direct window, and the doorbell has
\* announced all of it.
LEMMA NextWqeWhole ==
  ASSUME IndInv, hwci # db
  PROVE  \E w \in Wqe :
           /\ w = NextWqe /\ w = Blk(hwci)
           /\ w.label = hwci
           /\ Tile(w)
           /\ w.cnt \in Nat /\ w.cnt < IdxMod
           /\ Ahead(hwci) + w.cnt <= Ahead(db)
<1>u. pi \in Idx /\ hwci \in Idx /\ db \in Idx /\ ci \in Idx
  BY DEF IndInv, TypeOK
<1>d. /\ Ahead(pi) \in Nat /\ Ahead(hwci) \in Nat /\ Ahead(db) \in Nat
      /\ Off(pi) \in Nat /\ Off(db) \in Nat
      /\ Ahead(hwci) <= Ahead(db) /\ Ahead(db) <= Ahead(pi)
  BY <1>u, Distances DEF IndInv, SqOrder
<1>1. Ahead(hwci) # Ahead(db)
  BY <1>u, SubInj DEF Ahead
<1>2. /\ Off(pi) = Ahead(pi) - Ahead(hwci)
      /\ Off(db) = Ahead(db) - Ahead(hwci)
      /\ Off(hwci) = 0
  <2>1. Ahead(hwci) <= Ahead(pi)
    BY <1>d
  <2> QED
    BY <2>1, <1>u, <1>d, SubDiff, SubZero DEF Ahead, Off
<1>3. hwci # pi /\ Pending(hwci)
  BY <1>1, <1>2, <1>d DEF Pending
<1>4. PICK w \in Wqe : w = Blk(hwci)
  BY <1>u, Distances DEF IndInv
<1>5. w.label = hwci /\ Tile(w) /\ w.cnt \in Nat /\ w.cnt < IdxMod
  BY <1>3, <1>4, <1>u, WrSizeBounds DEF IndInv, Tiled, Wqe
<1>6. w = NextWqe
  BY <1>4 DEF NextWqe, IndInv, DirectInv, Blk
<1>7. w.cnt <= Off(pi)
  BY <1>5, <1>2 DEF Tile
<1>8. w.cnt <= Off(db)
  <2>1. CASE db = pi
    BY <2>1, <1>7
  <2>2. CASE db # pi
    <3>1. Blk(db).label = db
      BY <2>2 DEF IndInv, PostInv
    <3>2. \A y \in Idx : 0 <= Off(y) /\ Off(y) < 0 + w.cnt => Blk(y) = w
      BY <1>5, <1>2 DEF Tile
    <3>3. ~(Off(db) < w.cnt)
      BY <3>1, <3>2, <1>u, <1>d, <1>5
    <3> QED
      BY <3>3, <1>d, <1>5
  <2> QED
    BY <2>1, <2>2
<1>9. Ahead(hwci) + w.cnt <= Ahead(db)
  BY <1>8, <1>2, <1>d, <1>5
<1> QED
  BY <1>4, <1>5, <1>6, <1>9

\* Executing a WQE leaves the blocks behind it tiled as they were.
LEMMA TiledAdvance ==
  ASSUME TypeOK, Tiled, UNCHANGED <<pi, qbuf>>,
         NEW w \in Wqe, w = Blk(hwci), w.label = hwci, Tile(w), w.cnt \in Nat,
         hwci' = Add(hwci, w.cnt)
  PROVE  Tiled'
<1>u. pi \in Idx /\ hwci \in Idx
  BY DEF TypeOK
<1>d. /\ w.cnt >= 1 /\ w.cnt <= Off(pi) /\ Off(pi) \in Nat /\ Off(pi) < IdxMod
      /\ IdxMod \in Nat /\ Off(hwci) = 0
  <2>1. Off(hwci) = 0
    BY <1>u, SubZero DEF Off
  <2>2. w.cnt >= 1 /\ w.cnt <= Off(pi)
    BY <2>1 DEF Tile
  <2> QED
    BY <2>1, <2>2, <1>u, Distances, IdxModBounds
<1>n. \A x \in Idx : Off(x) \in Nat /\ Off(x) < IdxMod
  BY Distances
<1>a. \A x \in Idx : Off(x) >= w.cnt => Sub(x, hwci') = Off(x) - w.cnt
  BY <1>u, <1>n, SubRebase DEF Off
<1>b. \A x \in Idx : Off(x) < w.cnt => Sub(x, hwci') = (Off(x) - w.cnt) + IdxMod
  <2>1. w.cnt <= IdxMod
    BY <1>d
  <2> QED
    BY <2>1, <1>u, SubBehind DEF Off
<1>p. Off(pi)' = Off(pi) - w.cnt
  BY <1>a, <1>d, <1>u DEF Off
<1>c. \A x \in Idx : Sub(x, hwci') < Off(pi) - w.cnt
                       => Off(x) >= w.cnt /\ Sub(x, hwci') = Off(x) - w.cnt
  <2> SUFFICES ASSUME NEW x \in Idx, Sub(x, hwci') < Off(pi) - w.cnt
               PROVE  Off(x) >= w.cnt
    BY <1>a
  <2>1. CASE Off(x) < w.cnt
    BY <2>1, <1>b, <1>d, <1>n
  <2> QED
    BY <2>1, <1>n
<1>t. \A y \in Idx : Off(y) < w.cnt => Blk(y) = w
  <2>1. \A y \in Idx : 0 <= Off(y) /\ Off(y) < 0 + w.cnt => Blk(y) = w
    BY <1>d DEF Tile
  <2> QED
    BY <2>1, <1>n
<1>1. ASSUME NEW x \in Idx, Sub(x, hwci') < Off(pi) - w.cnt,
             NEW v \in Wqe, v = Blk(x)
      PROVE  /\ Tile(v)'
             /\ Sub(v.label, hwci') <= Sub(x, hwci')
             /\ Sub(x, hwci') < Sub(v.label, hwci') + v.cnt
  <2>1. Off(x) >= w.cnt /\ Sub(x, hwci') = Off(x) - w.cnt /\ Off(x) < Off(pi)
    BY <1>1, <1>c, <1>n, <1>d
  <2>2. /\ Tile(v)
        /\ Off(v.label) <= Off(x)
        /\ Off(x) < Off(v.label) + v.cnt
    BY <1>1, <2>1 DEF Tiled, Pending
  <2>3. /\ v.label \in Idx /\ v.cnt \in Nat /\ v.cnt >= 1
        /\ Off(v.label) \in Nat
        /\ Off(v.label) + v.cnt <= Off(pi)
    BY <2>2, <1>n, WrSizeBounds DEF Tile, Wqe
  <2>4. Off(v.label) >= w.cnt
    <3> SUFFICES ASSUME Off(v.label) < w.cnt
                 PROVE  FALSE
      BY <2>3
    <3>1. Blk(v.label) = w
      BY <1>t, <2>3
    <3>2. Blk(v.label) = v
      BY <2>2, <2>3 DEF Tile
    <3> QED
      BY <3>1, <3>2, <2>1, <2>2, <1>d, <1>n
  <2>5. Sub(v.label, hwci') = Off(v.label) - w.cnt
    BY <2>3, <2>4, <1>a
  <2>6. Off(v.label)' + v.cnt <= Off(pi)'
    BY <2>3, <2>5, <1>p, <1>d DEF Off
  <2>7. ASSUME NEW y \in Idx, Sub(v.label, hwci') <= Sub(y, hwci'),
               Sub(y, hwci') < Sub(v.label, hwci') + v.cnt
        PROVE  Blk(y)' = v
    <3>0. hwci' \in Idx /\ Sub(y, hwci') \in Nat
      BY <1>u, <1>d, AddType, SubType
    <3>1. Sub(y, hwci') < Off(pi) - w.cnt
      BY <3>0, <2>7, <2>5, <2>3, <1>d
    <3>2. Off(y) >= w.cnt /\ Sub(y, hwci') = Off(y) - w.cnt
      BY <3>1, <1>c
    <3>3. Off(v.label) <= Off(y) /\ Off(y) < Off(v.label) + v.cnt
      BY <3>2, <2>7, <2>5, <2>3, <1>n
    <3>4. Blk(y) = v
      BY <3>3, <2>2 DEF Tile
    <3> QED
      BY <3>4 DEF Blk
  <2>8. Add(v.label, v.cnt) # pi'
          => Blk(Add(v.label, v.cnt)).label' = Add(v.label, v.cnt)
    BY <2>2 DEF Tile, Blk
  <2>9. Tile(v)'
    <3>1. \A y \in Idx :
            Off(v.label)' <= Off(y)' /\ Off(y)' < Off(v.label)' + v.cnt => Blk(y)' = v
      BY <2>7 DEF Off
    <3> QED
      BY <2>3, <2>6, <2>8, <3>1 DEF Tile
  <2> QED
    BY <2>9, <2>1, <2>2, <2>3, <2>5, <1>n, <1>d
<1>2. ASSUME NEW x \in Idx, Pending(x)'
      PROVE  /\ Tile(Blk(x))'
             /\ Off(Blk(x).label)' <= Off(x)'
             /\ Off(x)' < Off(Blk(x).label)' + Blk(x).cnt'
  <2>1. Sub(x, hwci') < Off(pi) - w.cnt
    BY <1>2, <1>p DEF Pending, Off
  <2>2. PICK v \in Wqe : v = Blk(x)
    BY Distances
  <2>3. Blk(x)' = v
    BY <2>2 DEF Blk
  <2>4. /\ Tile(v)'
        /\ Sub(v.label, hwci') <= Sub(x, hwci')
        /\ Sub(x, hwci') < Sub(v.label, hwci') + v.cnt
    BY <2>1, <2>2, <1>1
  <2> QED
    BY <2>3, <2>4 DEF Tile, Off
<1>3. hwci' # pi' => Blk(hwci).label' = hwci'
  BY DEF Tile, Blk
<1> QED
  BY <1>2, <1>3 DEF Tiled

\* The device completes a WQE.
LEMMA DevCompleteSafe ==
  ASSUME IndInv, NEW status \in Statuses, DevComplete(status)
  PROVE  IndInv'
<1>0. TypeOK'
  <2>1. Device
    BY DEF Device
  <2> QED
    BY <2>1, DeviceType DEF IndInv
<1>u. /\ UNCHANGED <<pi, ci, db, qbuf, post, poll, sqLock, cqLock>>
      /\ UNCHANGED cqVars
      /\ pi \in Idx /\ hwci \in Idx /\ db \in Idx /\ ci \in Idx
      /\ hwci # db
  BY DEF DevComplete, sqVars, cqVars, IndInv, TypeOK
<1>w. PICK w \in Wqe :
        /\ w = NextWqe /\ w = Blk(hwci)
        /\ w.label = hwci
        /\ Tile(w)
        /\ w.cnt \in Nat /\ w.cnt < IdxMod
        /\ Ahead(hwci) + w.cnt <= Ahead(db)
  BY <1>u, NextWqeWhole
<1>d. /\ Ahead(hwci) \in Nat /\ Ahead(db) \in Nat /\ Ahead(db) < IdxMod
      /\ IdxMod \in Nat
  BY <1>u, Distances, IdxModBounds DEF IndInv
<1>h. hwci' = Add(hwci, w.cnt) /\ Ahead(hwci)' = Ahead(hwci) + w.cnt
  <2>1. hwci' = Add(hwci, w.cnt)
    BY <1>w DEF DevComplete
  <2>2. Sub(hwci, ci) + w.cnt < IdxMod
    BY <1>w, <1>d DEF Ahead
  <2>3. Sub(Add(hwci, w.cnt), ci) = Sub(hwci, ci) + w.cnt
    BY <2>2, <1>w, <1>u, SubAdvance
  <2> QED
    BY <2>1, <2>3, <1>u DEF Ahead
<1>1. LockInv'
  BY <1>u DEF LockInv, IndInv
<1>2. SqOrder'
  <2>1. Ahead(db)' = Ahead(db) /\ Ahead(pi)' = Ahead(pi)
    BY <1>u DEF Ahead
  <2> QED
    BY <2>1, <1>h, <1>w DEF SqOrder, IndInv
<1>3. PostInv'
  BY <1>u, PostFrame DEF IndInv
<1>4. Tiled'
  BY <1>u, <1>w, <1>h, TiledAdvance DEF IndInv
<1>5. DirectInv'
  BY DEF DevComplete, DirectInv, NoWqe
<1>6. CqOrder' /\ UnreadInv' /\ CurrentInv'
  <2>1. PICK i \in 0..(w.cnt - 1) : WriteCqe(Add(hwci, i), FALSE, status)
    BY <1>w DEF DevComplete
  <2>2. i \in Nat /\ i < w.cnt
    BY <1>w
  <2>3. Sub(hwci, ci) + i < IdxMod
    BY <2>2, <1>w, <1>d DEF Ahead
  <2>4. Add(hwci, i) \in Idx /\ Sub(Add(hwci, i), ci) = Ahead(hwci) + i
    BY <2>2, <2>3, <1>u, SubAdvance DEF Ahead
  <2>5. PICK e \in Idx : e = Add(hwci, i)
    BY <2>4
  <2>6. /\ Ahead(hwci) <= Ahead(hwci)'
        /\ Ahead(hwci) <= Sub(e, ci) /\ Sub(e, ci) < Ahead(hwci)'
    BY <2>2, <2>4, <2>5, <1>h, <1>w, <1>d
  <2>7. WriteCqe(e, FALSE, status)
    BY <2>1, <2>5
  <2> QED
    BY <2>6, <2>7, <1>0, <1>u, WriteCqeSafe DEF IndInv
<1> QED
  BY <1>0, <1>1, <1>2, <1>3, <1>4, <1>5, <1>6 DEF IndInv

\* The device enters the error state, or reports that it has flushed all.
LEMMA DevErrorSafe ==
  ASSUME IndInv, DevError \/ DevFlushDone
  PROVE  IndInv'
<1>0. TypeOK'
  <2>1. Device
    BY DEF Device
  <2> QED
    BY <2>1, DeviceType DEF IndInv
<1>u. /\ UNCHANGED <<pi, ci, db, qbuf, post, poll, sqLock, cqLock, dwqe, hwci>>
      /\ UNCHANGED cqVars
      /\ hwci \in Idx
  BY DEF DevError, DevFlushDone, sqVars, cqVars, IndInv, TypeOK
<1>1. LockInv'
  BY <1>u DEF LockInv, IndInv
<1>2. SqOrder' /\ PostInv' /\ Tiled' /\ DirectInv'
  BY <1>u, SqOrderFrame, PostFrame, TiledFrame, DirectFrame DEF IndInv
<1>3. CqOrder' /\ UnreadInv' /\ CurrentInv'
  <2>1. CASE DevError
    BY <2>1, CqFrame DEF DevError, IndInv, cqVars
  <2>2. CASE DevFlushDone
    <3>1. PICK e \in Idx : e = hwci
      BY <1>u
    <3>2. WriteCqe(e, TRUE, "known")
      BY <2>2, <3>1 DEF DevFlushDone
    <3>3. Ahead(hwci)' = Ahead(hwci) /\ Ahead(hwci) \in Nat
      BY <1>u, Distances DEF Ahead, IndInv
    <3>4. Ahead(hwci) <= Ahead(hwci)'
      BY <3>3
    <3> QED
      BY <3>2, <3>4, <1>0, <1>u, WriteCqeSafe DEF IndInv
  <2> QED
    BY <2>1, <2>2
<1> QED
  BY <1>0, <1>1, <1>2, <1>3 DEF IndInv
----------------------------------------------------------------------------
(* Steps of a poller *)

\* Locks: a step of a poller.
LEMMA PollLockInv ==
  ASSUME TypeOK, LockInv, NEW p \in Pollers, Poll(p)
  PROVE  LockInv'
<1> USE DEF LockInv, TypeOK, sqVars, hwVars, cqVars
<1>n. NoThread \notin Pollers
  BY CallerAssumption
<1>1. ASSUME NEW want \in 1..CrCnt, PollLock(p, want)
      PROVE  LockInv'
  BY <1>1, <1>n DEF PollLock, PollIdle
<1>2. CASE PollTake(p)
  BY <1>2 DEF PollTake
<1>3. CASE PollStop(p)
  BY <1>3 DEF PollStop
<1>4. CASE PollAdvance(p)
  BY <1>4 DEF PollAdvance
<1>5. CASE PollReadCtx(p)
  BY <1>5 DEF PollReadCtx
<1>6. CASE PollUnknown(p)
  BY <1>6 DEF PollUnknown
<1>7. CASE PollFlushDone(p)
  BY <1>7 DEF PollFlushDone
<1>8. CASE PollRecord(p)
  BY <1>8 DEF PollRecord
<1>9. CASE PollReturn(p)
  BY <1>9, <1>n DEF PollReturn, PollIdle
<1> QED
  BY <1>1, <1>2, <1>3, <1>4, <1>5, <1>6, <1>7, <1>8, <1>9 DEF Poll, PollStep

\* A step of a poller that moves no index and takes no CQE.
LEMMA PollQuietSafe ==
  ASSUME IndInv, NEW p \in Pollers, Poll(p),
         UNCHANGED <<sqVars, hwVars, ci, cqci, swDb, dwqe>>,
         \A r \in Pollers : Holding(r)' => Holding(r) /\ poll[r].pc # "advance"
  PROVE  IndInv'
<1>u. UNCHANGED <<pi, db, qbuf, post, dwqe, hwci, hwpi, cqbuf, ci, cqci, swDb>>
  BY DEF sqVars, hwVars
<1>1. TypeOK' /\ LockInv'
  BY PollType, PollLockInv DEF IndInv
<1>2. SqOrder' /\ PostInv' /\ Tiled' /\ DirectInv'
  BY <1>u, SqOrderFrame, PostFrame, TiledFrame, DirectFrame DEF IndInv
<1>3. CqOrder'
  <2>0. Pub' = Pub
    BY <1>u, PubFrame
  <2>1. \A r \in Pollers : Holding(r)' => Sub(cqci, Pub)' >= 1
    BY <2>0, <1>u DEF IndInv, CqOrder
  <2> QED
    BY <2>0, <2>1, <1>u DEF IndInv, CqOrder, Ce
<1>4. UnreadInv'
  BY <1>u DEF IndInv, UnreadInv, Unread, Ce, Ahead
<1>5. CurrentInv'
  <2> SUFFICES ASSUME NEW r \in Pollers, Holding(r)', ~CurrentCqe.fd'
               PROVE  /\ Ahead(CurrentCqe.entry_idx)' < Ahead(hwci)'
                      /\ \A k \in Idx :
                           Unread(k)' /\ ~Ce(k).fd'
                             => Ahead(CurrentCqe.entry_idx)' < Ahead(Ce(k).entry_idx)'
                      /\ CurrentCqe.entry_idx' = ci'
    BY DEF CurrentInv
  <2>1. Holding(r) /\ poll[r].pc # "advance" /\ ~CurrentCqe.fd
    BY <1>u DEF CurrentCqe
  <2>2. /\ Ahead(CurrentCqe.entry_idx) < Ahead(hwci)
        /\ \A k \in Idx :
             Unread(k) /\ ~Ce(k).fd
               => Ahead(CurrentCqe.entry_idx) < Ahead(Ce(k).entry_idx)
        /\ CurrentCqe.entry_idx = ci
    BY <2>1 DEF IndInv, CurrentInv
  <2> QED
    BY <2>2, <1>u DEF CurrentCqe, Unread, Ce, Ahead
<1> QED
  BY <1>1, <1>2, <1>3, <1>4, <1>5 DEF IndInv

\* Taking cq->lock, the end of the loop, reading the user_ctx and the two ways
\* in which a CQE yields no record.
LEMMA PollNoMoveSafe ==
  ASSUME IndInv, NEW p \in Pollers,
         \/ \E want \in 1..CrCnt : PollLock(p, want)
         \/ PollStop(p) \/ PollReadCtx(p) \/ PollUnknown(p) \/ PollFlushDone(p)
  PROVE  IndInv'
<1>1. Poll(p)
  BY DEF Poll, PollStep
<1>2. UNCHANGED <<sqVars, hwVars, ci, cqci, swDb, dwqe>>
  BY DEF PollLock, PollStop, PollReadCtx, PollUnknown, PollFlushDone
<1>3. ASSUME NEW r \in Pollers, Holding(r)'
      PROVE  Holding(r) /\ poll[r].pc # "advance"
  <2>1. CASE r # p
    <3>1. poll'[r] = poll[r]
      BY <2>1 DEF PollLock, PollStop, PollReadCtx, PollUnknown, PollFlushDone,
                  IndInv, TypeOK
    <3>2. poll[r].pc = "idle"
      <4>1. CASE poll[p].pc # "idle"
        BY <4>1, <2>1, SolePoller DEF IndInv
      <4>2. CASE poll[p].pc = "idle"
        BY <4>2, CallerAssumption
           DEF PollLock, PollStop, PollReadCtx, PollUnknown, PollFlushDone,
               IndInv, LockInv
      <4> QED
        BY <4>1, <4>2
    <3> QED
      BY <3>1, <3>2, <1>3 DEF Holding
  <2>2. CASE r = p
    <3>1. poll \in [Pollers -> PollLocals]
      BY DEF IndInv, TypeOK
    <3>2. CASE \E want \in 1..CrCnt : PollLock(p, want)
      BY <3>1, <3>2, <2>2, <1>3 DEF PollLock, PollIdle, Holding
    <3>3. CASE PollStop(p) \/ PollUnknown(p) \/ PollFlushDone(p)
      BY <3>1, <3>3, <2>2, <1>3
         DEF PollStop, PollUnknown, PollFlushDone, Holding, PollLocals
    <3>4. CASE PollReadCtx(p)
      BY <3>4, <2>2 DEF PollReadCtx, Holding
    <3> QED
      BY <3>2, <3>3, <3>4
  <2> QED
    BY <2>1, <2>2
<1> QED
  BY <1>1, <1>2, <1>3, PollQuietSafe

\* Taking a CQE: it was the first unread one and becomes the current one.
LEMMA PollTakeSafe ==
  ASSUME IndInv, NEW p \in Pollers, PollTake(p)
  PROVE  IndInv'
<1>1. TypeOK' /\ LockInv'
  BY PollType, PollLockInv DEF Poll, PollStep, IndInv
<1>u. /\ UNCHANGED <<pi, db, qbuf, post, dwqe, hwci, hwpi, cqbuf, ci, swDb>>
      /\ cqci' = Add(cqci, 1)
      /\ cqci \in Idx /\ hwpi \in Idx /\ swDb \in DbIdx
  BY DEF PollTake, sqVars, hwVars, IndInv, TypeOK
<1>2. SqOrder' /\ PostInv' /\ Tiled' /\ DirectInv'
  BY <1>u, SqOrderFrame, PostFrame, TiledFrame, DirectFrame DEF IndInv
<1>n. cqci # hwpi
  <2> SUFFICES ASSUME cqci = hwpi
               PROVE  FALSE
    OBVIOUS
  <2>1. Add(hwpi, 0) = hwpi /\ 0 \in 0..(CqEntries - 1)
    BY <1>u, IdxModBounds DEF Add, Idx
  <2>2. cqbuf[CqSlot(hwpi)].owner = Round(hwpi)
    BY <2>1 DEF IndInv, CqOrder, Ce
  <2> QED
    BY <2>2 DEF PollTake, NextCqeValid
<1>p. /\ Pub \in Idx /\ Pub' = Pub
      /\ Sub(hwpi, Pub) < IdxMod
  BY <1>u, PubFacts, PubFrame
<1>d. PICK D \in Nat, E \in Nat :
        /\ D = Sub(hwpi, Pub) /\ E = Sub(cqci, Pub)
        /\ E < D /\ D < IdxMod /\ Sub(hwpi, cqci) <= CqEntries
  <2>1. Sub(hwpi, Pub) \in Nat /\ Sub(cqci, Pub) \in Nat
    BY <1>u, <1>p, SubType
  <2>2. Sub(hwpi, Pub) # Sub(cqci, Pub)
    BY <1>u, <1>p, <1>n, SubInj
  <2> QED
    BY <2>1, <2>2, <1>p DEF IndInv, CqOrder
<1>e. IdxMod \in Nat /\ CqEntries \in Nat /\ 2 * CqEntries <= IdxMod /\ CqEntries >= 1
  BY IdxModBounds
<1>f. PICK m \in Nat : m = Sub(hwpi, cqci) /\ m = D - E /\ m >= 1 /\ m <= CqEntries
  BY <1>u, <1>p, <1>d, SubDiff
<1>g. /\ cqci' \in Idx
      /\ Sub(cqci', Pub) = E + 1
      /\ Sub(hwpi, cqci') = m - 1
  <2>1. Sub(cqci, Pub) + 1 < IdxMod /\ 1 \in Nat /\ 1 <= Sub(hwpi, cqci)
    BY <1>d, <1>e, <1>f
  <2>2. Add(cqci, 1) \in Idx /\ Sub(Add(cqci, 1), Pub) = Sub(cqci, Pub) + 1
    BY <2>1, <1>u, <1>p, SubAdvance
  <2>3. Sub(hwpi, Add(cqci, 1)) = Sub(hwpi, cqci) - 1
    BY <2>1, <1>u, SubRebase
  <2> QED
    BY <2>2, <2>3, <1>u, <1>d, <1>f
<1>h. \A j \in Idx :
        Unread(j)' => Sub(j, cqci') = Sub(j, cqci) - 1 /\ Unread(j) /\ Sub(j, cqci) >= 1
  <2> SUFFICES ASSUME NEW j \in Idx, Sub(j, cqci') < m - 1
               PROVE  Sub(j, cqci') = Sub(j, cqci) - 1 /\ Unread(j) /\ Sub(j, cqci) >= 1
    BY <1>u, <1>g DEF Unread
  <2>0. Sub(j, cqci) \in Nat /\ 1 \in Nat /\ 1 <= IdxMod
    BY <1>u, <1>e, SubType
  <2>1. CASE Sub(j, cqci) < 1
    <3>1. Sub(j, cqci') = (Sub(j, cqci) - 1) + IdxMod
      BY <2>0, <2>1, <1>u, SubBehind
    <3> QED
      BY <3>1, <2>0, <1>f, <1>d, <1>e
  <2>2. CASE 1 <= Sub(j, cqci)
    <3>1. Sub(j, cqci') = Sub(j, cqci) - 1
      BY <2>0, <2>2, <1>u, SubRebase
    <3> QED
      BY <3>1, <2>0, <2>2, <1>f DEF Unread
  <2> QED
    BY <2>0, <2>1, <2>2
<1>i. \A j \in Idx : Sub(j, cqci) \in Nat
  BY <1>u, SubType
<1>3. CqOrder'
  <2>0. /\ Sub(hwpi, cqci)' = m - 1
        /\ Sub(cqci, Pub)' = E + 1 /\ Sub(hwpi, Pub)' = D
    BY <1>u, <1>p, <1>g, <1>d DEF Sub
  <2>1. Sub(hwpi, cqci)' <= CqEntries /\ Sub(cqci, Pub)' <= Sub(hwpi, Pub)'
    BY <2>0, <1>d, <1>e, <1>f
  <2>2. Sub(cqci, Pub)' >= 1
    BY <2>0, <1>d
  <2> QED
    BY <2>1, <2>2, <1>u DEF IndInv, CqOrder, Ce
<1>4. UnreadInv'
  <2>1. \A j \in Idx :
          Unread(j)' /\ ~Ce(j).fd' => Ahead(Ce(j).entry_idx)' < Ahead(hwci)'
    BY <1>h, <1>u DEF IndInv, UnreadInv, Ce, Ahead
  <2>2. ASSUME NEW j \in Idx, NEW k \in Idx, Unread(j)', Unread(k)',
               Sub(j, cqci') < Sub(k, cqci'), ~Ce(j).fd, ~Ce(k).fd
        PROVE  Ahead(Ce(j).entry_idx) < Ahead(Ce(k).entry_idx)
    <3>1. Unread(j) /\ Unread(k) /\ Sub(j, cqci) < Sub(k, cqci)
      BY <2>2, <1>h, <1>i
    <3> QED
      BY <3>1, <2>2 DEF IndInv, UnreadInv
  <2>3. \A j, k \in Idx :
          /\ Unread(j)' /\ Unread(k)'
          /\ Sub(j, cqci)' < Sub(k, cqci)'
          /\ ~Ce(j).fd' /\ ~Ce(k).fd'
          => Ahead(Ce(j).entry_idx)' < Ahead(Ce(k).entry_idx)'
    BY <2>2, <1>u DEF Ce, Ahead
  <2> QED
    BY <2>1, <2>3 DEF UnreadInv
<1>5. CurrentInv'
  <2> SUFFICES ASSUME NEW r \in Pollers, Holding(r)', ~CurrentCqe.fd'
               PROVE  /\ Ahead(CurrentCqe.entry_idx)' < Ahead(hwci)'
                      /\ \A k \in Idx :
                           Unread(k)' /\ ~Ce(k).fd'
                             => Ahead(CurrentCqe.entry_idx)' < Ahead(Ce(k).entry_idx)'
                      /\ poll'[r].pc = "advance"
    BY DEF CurrentInv
  <2>1. r = p
    <3>1. \A q \in Pollers : q # p => poll[q].pc = "idle"
      BY SolePoller DEF PollTake, IndInv
    <3>2. \A q \in Pollers : q # p => poll'[q] = poll[q]
      BY DEF PollTake, IndInv, TypeOK
    <3> QED
      BY <3>1, <3>2 DEF Holding
  <2>2. poll'[r].pc = "advance"
    BY <2>1 DEF PollTake, IndInv, TypeOK, PollLocals
  <2>3. CurrentCqe' = Ce(cqci)
    <3>1. Sub(cqci', 1) = cqci
      BY <1>u, StepBack
    <3> QED
      BY <3>1, <1>u DEF CurrentCqe, Ce
  <2>4. Unread(cqci) /\ Sub(cqci, cqci) = 0 /\ ~Ce(cqci).fd
    BY <2>3, <1>u, <1>f, SubZero DEF Unread
  <2>5. Ahead(Ce(cqci).entry_idx) < Ahead(hwci)
    BY <2>4, <1>u DEF IndInv, UnreadInv
  <2>6. ASSUME NEW k \in Idx, Unread(k)', ~Ce(k).fd
        PROVE  Ahead(Ce(cqci).entry_idx) < Ahead(Ce(k).entry_idx)
    <3>1. Unread(k) /\ Sub(cqci, cqci) < Sub(k, cqci)
      BY <2>4, <2>6, <1>h, <1>i
    <3> QED
      BY <3>1, <2>4, <2>6, <1>u DEF IndInv, UnreadInv
  <2>7. Ahead(CurrentCqe.entry_idx)' = Ahead(Ce(cqci).entry_idx)
    BY <2>3, <1>u DEF Ahead
  <2>8. \A k \in Idx : /\ Ce(k)' = Ce(k)
                       /\ Ahead(Ce(k).entry_idx)' = Ahead(Ce(k).entry_idx)
    BY <1>u DEF Ce, Ahead
  <2>9. Ahead(hwci)' = Ahead(hwci)
    BY <1>u DEF Ahead
  <2> QED
    BY <2>2, <2>5, <2>6, <2>7, <2>8, <2>9
<1> QED
  BY <1>1, <1>2, <1>3, <1>4, <1>5 DEF IndInv

\* Moving ci forward, not beyond the device's position nor beyond the block of
\* any unread CQE, brings everything on the send queue closer to it.
LEMMA CiAdvance ==
  ASSUME IndInv, NEW d \in Nat, d <= Ahead(hwci), ci' = Add(ci, d),
         UNCHANGED <<pi, db, hwci, hwpi, qbuf, post, dwqe, cqci, swDb, cqbuf>>,
         \A j \in Idx : Unread(j) /\ ~Ce(j).fd => d <= Ahead(Ce(j).entry_idx)
  PROVE  /\ SqOrder' /\ PostInv' /\ Tiled' /\ DirectInv' /\ UnreadInv'
         /\ \A x \in Idx : d <= Ahead(x) => Sub(x, ci') = Ahead(x) - d
<1>u. /\ pi \in Idx /\ hwci \in Idx /\ db \in Idx /\ ci \in Idx
      /\ SqBlocks \in Nat
  BY IdxModBounds DEF IndInv, TypeOK
<1>d. /\ Ahead(pi) \in Nat /\ Ahead(hwci) \in Nat /\ Ahead(db) \in Nat
      /\ Ahead(hwci) <= Ahead(db) /\ Ahead(db) <= Ahead(pi)
      /\ Ahead(pi) <= SqBlocks
  BY <1>u, Distances DEF IndInv, SqOrder
<1>n. \A x \in Idx : Ahead(x) \in Nat
  BY Distances DEF IndInv
<1>a. \A x \in Idx : d <= Ahead(x) => Sub(x, ci') = Ahead(x) - d
  BY <1>u, SubRebase DEF Ahead
<1>b. /\ Ahead(pi)' = Ahead(pi) - d
      /\ Ahead(hwci)' = Ahead(hwci) - d
      /\ Ahead(db)' = Ahead(db) - d
  <2>1. d <= Ahead(pi) /\ d <= Ahead(hwci) /\ d <= Ahead(db)
    BY <1>d
  <2> QED
    BY <2>1, <1>a, <1>u DEF Ahead
<1>1. SqOrder'
  BY <1>b, <1>d, <1>u DEF SqOrder
<1>2. PostInv'
  <2>1. ASSUME NEW p \in Posters, post[p].pc \in {"copy", "publish"}
        PROVE  Ahead(pi)' + post[p].cnt <= SqBlocks /\ db = pi
    <3>1. Ahead(pi) + post[p].cnt <= SqBlocks /\ db = pi
      BY <2>1 DEF IndInv, PostInv
    <3>2. post[p].cnt \in Nat
      BY WrSizeBounds DEF IndInv, TypeOK, PostLocals
    <3> QED
      BY <3>1, <3>2, <1>b, <1>d, <1>u
  <2>2. ASSUME NEW p \in Posters, post[p].pc = "ring"
        PROVE  Ahead(db)' + post[p].cnt = Ahead(pi)'
    <3>1. Ahead(db) + post[p].cnt = Ahead(pi)
      BY <2>2 DEF IndInv, PostInv
    <3>2. post[p].cnt \in Nat
      BY WrSizeBounds DEF IndInv, TypeOK, PostLocals
    <3> QED
      BY <3>1, <3>2, <1>b, <1>d, <1>u
  <2> QED
    BY <2>1, <2>2 DEF IndInv, PostInv, Blk
<1>3. Tiled' /\ DirectInv'
  BY TiledFrame, DirectFrame DEF IndInv
<1>4. UnreadInv'
  <2> DEFINE At(j) == Ahead(Ce(j).entry_idx)
  <2>1. ASSUME NEW j \in Idx, Unread(j), ~Ce(j).fd
        PROVE  Ahead(Ce(j).entry_idx)' = At(j) - d /\ At(j) \in Nat /\ At(j) < Ahead(hwci)
    <3>1. Ce(j).entry_idx \in Idx
      BY Distances DEF IndInv, Cqe
    <3>2. d <= At(j) /\ At(j) < Ahead(hwci) /\ At(j) \in Nat
      BY <2>1, <3>1, <1>n DEF IndInv, UnreadInv
    <3>3. Sub(Ce(j).entry_idx, ci') = At(j) - d
      BY <3>1, <3>2, <1>a
    <3> QED
      BY <3>2, <3>3 DEF Ahead, Ce
  <2>2. \A j \in Idx : (Unread(j)' <=> Unread(j)) /\ Ce(j)' = Ce(j)
    BY DEF Unread, Ce
  <2>3. ASSUME NEW j \in Idx, Unread(j)', ~Ce(j).fd'
        PROVE  Ahead(Ce(j).entry_idx)' < Ahead(hwci)'
    <3>1. Unread(j) /\ ~Ce(j).fd
      BY <2>2, <2>3
    <3>2. Ahead(Ce(j).entry_idx)' = At(j) - d /\ At(j) \in Nat /\ At(j) < Ahead(hwci)
      BY <3>1, <2>1
    <3> HIDE DEF At
    <3> QED
      BY <3>2, <1>b, <1>d
  <2>4. ASSUME NEW j \in Idx, NEW k \in Idx, Unread(j)', Unread(k)',
               Sub(j, cqci) < Sub(k, cqci), ~Ce(j).fd', ~Ce(k).fd'
        PROVE  Ahead(Ce(j).entry_idx)' < Ahead(Ce(k).entry_idx)'
    <3>1. Unread(j) /\ ~Ce(j).fd /\ Unread(k) /\ ~Ce(k).fd
      BY <2>2, <2>4
    <3>2. Ahead(Ce(j).entry_idx)' = At(j) - d /\ At(j) \in Nat
      BY <3>1, <2>1
    <3>3. Ahead(Ce(k).entry_idx)' = At(k) - d /\ At(k) \in Nat
      BY <3>1, <2>1
    <3>4. At(j) < At(k)
      BY <3>1, <2>4 DEF IndInv, UnreadInv
    <3> HIDE DEF At
    <3> QED
      BY <3>2, <3>3, <3>4
  <2>5. \A j, k \in Idx : Sub(j, cqci)' = Sub(j, cqci)
    BY DEF Sub
  <2> QED
    BY <2>3, <2>4, <2>5 DEF UnreadInv
<1> QED
  BY <1>1, <1>2, <1>3, <1>4, <1>a

\* The completion queue's order does not depend on ci.
LEMMA CqOrderFrame ==
  ASSUME CqOrder, UNCHANGED <<hwpi, swDb, cqci, cqbuf>>,
         \A r \in Pollers : Holding(r)' => Holding(r)
  PROVE  CqOrder'
<1>0. Pub' = Pub
  BY PubFrame
<1>1. \A r \in Pollers : Holding(r)' => Sub(cqci, Pub)' >= 1
  BY <1>0 DEF CqOrder
<1> QED
  BY <1>0, <1>1 DEF CqOrder, Ce

\* What a poller that holds a CQE knows of it.
LEMMA CurrentFacts ==
  ASSUME IndInv, NEW p \in Pollers, Holding(p)
  PROVE  /\ CurrentCqe.entry_idx \in Idx
         /\ Ahead(CurrentCqe.entry_idx) \in Nat
         /\ ~CurrentCqe.fd =>
              /\ Ahead(CurrentCqe.entry_idx) < Ahead(hwci)
              /\ \A k \in Idx :
                   Unread(k) /\ ~Ce(k).fd
                     => Ahead(CurrentCqe.entry_idx) < Ahead(Ce(k).entry_idx)
              /\ poll[p].pc # "advance" => CurrentCqe.entry_idx = ci
<1>1. CqSlot(Sub(cqci, 1)) \in CqSlots
  BY StepBack, CqSlotType DEF IndInv, TypeOK
<1>2. CurrentCqe.entry_idx \in Idx
  BY <1>1 DEF CurrentCqe, IndInv, TypeOK, Cqe
<1>3. Ahead(CurrentCqe.entry_idx) \in Nat
  BY <1>2, Distances DEF IndInv
<1> QED
  BY <1>2, <1>3 DEF IndInv, CurrentInv

\* cdma_u_update_jetty_idx: ci jumps to the block the current CQE names; the
\* distance fits the ring, so reducing it modulo the ring's size loses nothing.
LEMMA PollAdvanceSafe ==
  ASSUME IndInv, NEW p \in Pollers, PollAdvance(p)
  PROVE  IndInv'
<1>1. TypeOK' /\ LockInv'
  BY PollType, PollLockInv DEF Poll, PollStep, IndInv
<1>u. /\ UNCHANGED <<pi, db, qbuf, post, dwqe, hwci, hwpi, cqbuf, cqci, swDb>>
      /\ ci \in Idx /\ hwci \in Idx /\ pi \in Idx /\ db \in Idx
  BY DEF PollAdvance, sqVars, hwVars, IndInv, TypeOK
<1>h. Holding(p) /\ \A r \in Pollers : r # p => ~Holding(r) /\ ~Holding(r)'
  <2>1. \A r \in Pollers : r # p => poll[r].pc = "idle" /\ poll'[r] = poll[r]
    BY SolePoller DEF PollAdvance, IndInv, TypeOK
  <2> QED
    BY <2>1 DEF Holding, PollAdvance
<1>p. poll'[p].pc = "ctx"
  BY DEF PollAdvance, IndInv, TypeOK, PollLocals
<1>2. CqOrder'
  BY <1>u, <1>h, CqOrderFrame DEF IndInv
<1>3. CASE CurrentCqe.fd
  <2>1. UNCHANGED ci
    BY <1>3 DEF PollAdvance
  <2>2. SqOrder' /\ PostInv' /\ Tiled' /\ DirectInv'
    BY <2>1, <1>u, SqOrderFrame, PostFrame, TiledFrame, DirectFrame DEF IndInv
  <2>3. UnreadInv'
    BY <2>1, <1>u DEF IndInv, UnreadInv, Unread, Ce, Ahead
  <2>4. CurrentInv'
    <3>1. CurrentCqe.fd'
      BY <1>3, <1>u DEF CurrentCqe
    <3> QED
      BY <3>1 DEF CurrentInv
  <2> QED
    BY <1>1, <1>2, <2>2, <2>3, <2>4 DEF IndInv
<1>4. CASE ~CurrentCqe.fd
  <2>1. PICK e \in Idx : e = CurrentCqe.entry_idx
    BY <1>h, CurrentFacts
  <2>2. PICK d \in Nat :
          /\ d = Ahead(e)
          /\ d < Ahead(hwci)
          /\ \A k \in Idx : Unread(k) /\ ~Ce(k).fd => d < Ahead(Ce(k).entry_idx)
    BY <2>1, <1>4, <1>h, CurrentFacts
  <2>3. /\ Ahead(hwci) \in Nat /\ Ahead(hwci) <= SqBlocks
        /\ SqBlocks \in Nat \ {0}
    BY <1>u, Distances, IdxModBounds DEF IndInv, SqOrder
  <2>4. d % SqBlocks = d
    <3>1. d \in 0..(SqBlocks - 1)
      BY <2>2, <2>3
    <3> QED
      BY <3>1, <2>3, ModSmall
  <2>5. ci' = Add(ci, d)
    BY <1>4, <2>1, <2>2, <2>4 DEF PollAdvance, Ahead
  <2>6. ci' = e
    BY <2>1, <2>2, <2>5, <1>u, AddSub DEF Ahead
  <2>7. \A j \in Idx : Unread(j) /\ ~Ce(j).fd
                         => d <= Ahead(Ce(j).entry_idx) /\ Ahead(Ce(j).entry_idx) \in Nat
                            /\ Ce(j).entry_idx \in Idx
    <3> SUFFICES ASSUME NEW j \in Idx, Unread(j), ~Ce(j).fd
                 PROVE  d <= Ahead(Ce(j).entry_idx) /\ Ahead(Ce(j).entry_idx) \in Nat
                        /\ Ce(j).entry_idx \in Idx
      OBVIOUS
    <3>1. Ce(j).entry_idx \in Idx
      BY Distances DEF IndInv, Cqe
    <3>2. Ahead(Ce(j).entry_idx) \in Nat
      BY <3>1, Distances DEF IndInv
    <3> QED
      BY <3>1, <3>2, <2>2
  <2>8. d <= Ahead(hwci)
    BY <2>2, <2>3
  <2>9. /\ SqOrder' /\ PostInv' /\ Tiled' /\ DirectInv' /\ UnreadInv'
        /\ \A x \in Idx : d <= Ahead(x) => Sub(x, ci') = Ahead(x) - d
    BY <2>5, <2>7, <2>8, <1>u, CiAdvance
  <2>10. CurrentInv'
    <3> SUFFICES /\ Ahead(CurrentCqe.entry_idx)' < Ahead(hwci)'
                 /\ \A k \in Idx :
                      Unread(k)' /\ ~Ce(k).fd'
                        => Ahead(CurrentCqe.entry_idx)' < Ahead(Ce(k).entry_idx)'
                 /\ CurrentCqe.entry_idx' = ci'
      BY <1>h DEF CurrentInv
    <3>1. CurrentCqe.entry_idx' = e
      BY <2>1, <1>u DEF CurrentCqe
    <3>2. Ahead(CurrentCqe.entry_idx)' = 0
      <4>1. Sub(e, e) = 0
        BY SubZero
      <4> QED
        BY <4>1, <3>1, <2>6 DEF Ahead
    <3>3. Ahead(hwci)' > 0
      <4>1. Sub(hwci, ci') = Ahead(hwci) - d
        BY <2>9, <2>8, <1>u
      <4> QED
        BY <4>1, <2>2, <2>3, <1>u DEF Ahead
    <3>4. ASSUME NEW k \in Idx, Unread(k)', ~Ce(k).fd'
          PROVE  Ahead(Ce(k).entry_idx)' > 0
      <4>1. Unread(k) /\ ~Ce(k).fd
        BY <3>4, <1>u DEF Unread, Ce
      <4>2. Sub(Ce(k).entry_idx, ci') = Ahead(Ce(k).entry_idx) - d
        BY <4>1, <2>7, <2>9
      <4>3. Ahead(Ce(k).entry_idx)' = Ahead(Ce(k).entry_idx) - d
        BY <4>2, <1>u DEF Ahead, Ce
      <4> QED
        BY <4>1, <4>3, <2>2, <2>7
    <3> QED
      BY <3>1, <3>2, <3>3, <3>4, <2>6
  <2> QED
    BY <1>1, <1>2, <2>9, <2>10 DEF IndInv
<1> QED
  BY <1>3, <1>4

\* A record for the caller: ci steps over the block the current CQE names.
LEMMA PollRecordSafe ==
  ASSUME IndInv, NEW p \in Pollers, PollRecord(p)
  PROVE  IndInv'
<1>1. TypeOK' /\ LockInv'
  BY PollType, PollLockInv DEF Poll, PollStep, IndInv
<1>u. /\ UNCHANGED <<pi, db, qbuf, post, dwqe, hwci, hwpi, cqbuf, cqci, swDb>>
      /\ ci \in Idx /\ hwci \in Idx
      /\ ci' = Add(ci, 1)
  BY DEF PollRecord, sqVars, hwVars, IndInv, TypeOK
<1>h. Holding(p) /\ \A r \in Pollers : ~Holding(r)'
  <2>1. \A r \in Pollers : r # p => poll[r].pc = "idle" /\ poll'[r] = poll[r]
    BY SolePoller DEF PollRecord, IndInv, TypeOK
  <2>2. poll'[p].pc = "take"
    BY DEF PollRecord, IndInv, TypeOK, PollLocals
  <2> QED
    BY <2>1, <2>2 DEF Holding, PollRecord
<1>2. CqOrder'
  BY <1>u, <1>h, CqOrderFrame DEF IndInv
<1>3. Ahead(CurrentCqe.entry_idx) = 0
  <2>1. CurrentCqe.entry_idx = ci
    BY <1>h, CurrentFacts DEF PollRecord
  <2> QED
    BY <2>1, <1>u, SubZero DEF Ahead
<1>4. 1 \in Nat /\ 1 <= Ahead(hwci)
  <2>1. 0 < Ahead(hwci) /\ Ahead(hwci) \in Nat
    BY <1>3, <1>h, <1>u, CurrentFacts, Distances DEF PollRecord, IndInv
  <2> QED
    BY <2>1
<1>5. ASSUME NEW j \in Idx, Unread(j), ~Ce(j).fd
      PROVE  1 <= Ahead(Ce(j).entry_idx)
  <2>1. Ce(j).entry_idx \in Idx
    BY Distances DEF IndInv, Cqe
  <2>2. Ahead(Ce(j).entry_idx) \in Nat
    BY <2>1, Distances DEF IndInv
  <2>3. 0 < Ahead(Ce(j).entry_idx)
    BY <1>3, <1>5, <1>h, CurrentFacts DEF PollRecord
  <2> QED
    BY <2>2, <2>3
<1>6. SqOrder' /\ PostInv' /\ Tiled' /\ DirectInv' /\ UnreadInv'
  BY <1>4, <1>5, <1>u, CiAdvance
<1>7. CurrentInv'
  BY <1>h DEF CurrentInv
<1> QED
  BY <1>1, <1>2, <1>6, <1>7 DEF IndInv

\* Leaving the call: the device is told of the new consumer index, or not.
LEMMA PollReturnSafe ==
  ASSUME IndInv, NEW p \in Pollers, PollReturn(p)
  PROVE  IndInv'
<1>1. TypeOK' /\ LockInv'
  BY PollType, PollLockInv DEF Poll, PollStep, IndInv
<1>u. /\ UNCHANGED <<pi, db, qbuf, post, dwqe, hwci, hwpi, cqbuf, cqci, ci>>
      /\ cqci \in Idx /\ hwpi \in Idx /\ swDb \in DbIdx
      /\ swDb' = Masked(cqci) \/ swDb' = swDb
  BY DEF PollReturn, sqVars, hwVars, IndInv, TypeOK
<1>2. SqOrder' /\ PostInv' /\ Tiled' /\ DirectInv'
  BY <1>u, SqOrderFrame, PostFrame, TiledFrame, DirectFrame DEF IndInv
<1>h. \A r \in Pollers : ~Holding(r)'
  <2>1. \A r \in Pollers : r # p => poll[r].pc = "idle" /\ poll'[r] = poll[r]
    BY SolePoller DEF PollReturn, IndInv, TypeOK
  <2>2. poll'[p].pc = "idle"
    BY DEF PollReturn, PollIdle, IndInv, TypeOK
  <2> QED
    BY <2>1, <2>2 DEF Holding
<1>3. CqOrder'
  <2>1. CASE swDb' = swDb
    BY <2>1, <1>u, <1>h, CqOrderFrame DEF IndInv
  <2>2. CASE swDb' = Masked(cqci)
    <3>1. Sub(hwpi, cqci) \in Nat /\ Sub(hwpi, cqci) <= CqEntries /\ Sub(cqci, cqci) = 0
      BY <1>u, SubType, SubZero DEF IndInv, CqOrder
    <3>2. Pub' = cqci
      BY <2>2, <3>1, <1>u, PubTold
    <3>3. Sub(hwpi, cqci)' <= CqEntries /\ Sub(cqci, Pub)' <= Sub(hwpi, Pub)'
      BY <3>1, <3>2, <1>u DEF Sub
    <3> QED
      BY <3>3, <1>u, <1>h DEF IndInv, CqOrder, Ce
  <2> QED
    BY <2>1, <2>2, <1>u
<1>4. UnreadInv'
  BY <1>u DEF IndInv, UnreadInv, Unread, Ce, Ahead
<1>5. CurrentInv'
  BY <1>h DEF CurrentInv
<1> QED
  BY <1>1, <1>2, <1>3, <1>4, <1>5 DEF IndInv
============================================================================

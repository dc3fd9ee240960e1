-------------------------- MODULE CdmaQueueSafety --------------------------
(***************************************************************************)
(* Safety of the data path: IndInv of CdmaQueueInv is inductive, and the   *)
(* properties that the runs check on small rings follow from it for rings, *)
(* counters, requests and threads of any number and size; the data path    *)
(* implements CdmaFifo; deleting a queue cleans its completion queue.      *)
(***************************************************************************)
EXTENDS CdmaQueueProofs, CdmaTeardown

\* The initial states satisfy the invariant: all indices are equal and no
\* entry of the completion queue is marked for the reader's first round;
\* whatever the doorbell cell holds.
LEMMA InitSafe == Init => IndInv
<1> SUFFICES ASSUME Init PROVE IndInv
  OBVIOUS
<1>1. TypeOK
  BY InitType
<1>z. 0 \in Idx /\ Sub(0, 0) = 0
  BY OneIdx, SubZero
<1>2. LockInv
  BY CallerAssumption DEF Init, InitSq, InitCq, InitHw, LockInv, PollIdle
<1>3. SqOrder
  <2>1. SqBlocks \in Nat
    BY IdxModBounds
  <2> QED
    BY <1>z, <2>1 DEF Init, InitSq, InitCq, InitHw, SqOrder, Ahead
<1>4. PostInv
  BY DEF Init, InitSq, InitCq, InitHw, PostInv
<1>5. Tiled
  <2>1. \A x \in Idx : ~Pending(x)
    <3>1. \A x \in Idx : Off(x) \in Nat
      BY <1>1, Distances
    <3> QED
      BY <3>1, <1>z DEF Init, InitSq, InitCq, InitHw, Pending, Off
  <2> QED
    BY <2>1 DEF Init, InitSq, InitCq, InitHw, Tiled
<1>6. DirectInv
  BY DEF Init, InitSq, InitCq, InitHw, DirectInv
<1>7. CqOrder
  <2>1. ASSUME NEW d \in 0..(CqEntries - 1)
        PROVE  Ce(Add(0, d)).owner = Round(Add(0, d))
    <3>0. CqEntries \in Nat /\ IdxMod \in Nat /\ CqEntries >= 1 /\ 2 * CqEntries <= IdxMod
      BY IdxModBounds
    <3>1. d \in Nat /\ d < IdxMod /\ CqEntries \in Nat \ {0} /\ d \in Int
      BY <3>0
    <3>2. Add(0, d) = d /\ d \in Idx
      BY <3>0, <3>1 DEF Add, Idx
    <3>3. d \div CqEntries = 0
      <4>1. PICK q \in Int : q = d \div CqEntries /\ d = CqEntries * q + (d % CqEntries)
        BY <3>1, DivMod
      <4>2. d % CqEntries \in 0..(CqEntries - 1) /\ d % CqEntries = d
        BY <3>1, ModRange, ModSmall
      <4>3. CqEntries * q + d = CqEntries * 0 + d
        BY <3>1, <4>1, <4>2
      <4>4. q = 0
        BY <3>1, <4>3, DivModUnique
      <4> QED
        BY <4>1, <4>4
    <3>4. Round(d) = 0
      BY <3>3 DEF Round
    <3>5. CqSlot(d) \in CqSlots
      BY <3>2, CqSlotType
    <3>6. cqbuf[CqSlot(d)].owner = 0
      BY <3>5 DEF Init, InitSq, InitCq, InitHw
    <3> QED
      BY <3>2, <3>4, <3>6 DEF Ce
  <2>2. \A p \in Pollers : ~Holding(p)
    BY DEF Init, InitSq, InitCq, InitHw, Holding, PollIdle
  <2>3. hwpi = 0 /\ cqci = 0 /\ CqEntries \in Nat
    BY IdxModBounds DEF Init, InitSq, InitCq, InitHw
  <2>4. Sub(hwpi, Pub) \in Nat
    BY <1>1, PubFacts DEF TypeOK
  <2> QED
    BY <2>1, <2>2, <2>3, <2>4, <1>z DEF CqOrder
<1>8. UnreadInv
  <2>1. \A j \in Idx : ~Unread(j)
    <3>1. \A j \in Idx : Sub(j, cqci) \in Nat
      BY <1>1, SubType DEF TypeOK
    <3>2. Sub(hwpi, cqci) = 0
      BY <1>z DEF Init, InitSq, InitCq, InitHw
    <3> QED
      BY <3>1, <3>2 DEF Unread
  <2> QED
    BY <2>1 DEF UnreadInv
<1>9. CurrentInv
  BY DEF Init, InitSq, InitCq, InitHw, CurrentInv, Holding, PollIdle
<1> QED
  BY <1>1, <1>2, <1>3, <1>4, <1>5, <1>6, <1>7, <1>8, <1>9 DEF IndInv

\* Every step preserves the invariant.
LEMMA NextSafe == IndInv /\ [Next]_vars => IndInv'
<1> SUFFICES ASSUME IndInv, [Next]_vars PROVE IndInv'
  OBVIOUS
<1>1. ASSUME NEW p \in Posters, Post(p)
      PROVE  IndInv'
  BY <1>1, PostLockSafe, PostErrorSafe, PostCheckSafe, PostCopySafe,
     PostPublishSafe, PostRingSafe DEF Post
<1>2. CASE Device
  BY <1>2, DevCompleteSafe, DevErrorSafe DEF Device
<1>3. ASSUME NEW p \in Pollers, Poll(p)
      PROVE  IndInv'
  BY <1>3, PollNoMoveSafe, PollTakeSafe, PollAdvanceSafe, PollRecordSafe,
     PollReturnSafe DEF Poll, PollStep
<1>4. CASE UNCHANGED vars
  <2>1. UNCHANGED <<pi, ci, db, hwci, hwpi, swDb, cqci, qbuf, cqbuf, dwqe, post, poll,
                    sqLock, cqLock>>
    BY <1>4 DEF vars, sqVars, hwVars, cqVars
  <2>2. TypeOK'
    BY <1>4 DEF IndInv, TypeOK, vars, sqVars, hwVars, cqVars
  <2>3. LockInv'
    BY <2>1 DEF IndInv, LockInv
  <2>4. SqOrder' /\ PostInv' /\ Tiled' /\ DirectInv'
    BY <2>1, SqOrderFrame, PostFrame, TiledFrame, DirectFrame DEF IndInv
  <2>5. CqOrder' /\ UnreadInv' /\ CurrentInv'
    BY <2>1, CqFrame DEF IndInv
  <2> QED
    BY <2>2, <2>3, <2>4, <2>5 DEF IndInv
<1> QED
  BY <1>1, <1>2, <1>3, <1>4 DEF Next

\* The invariant holds in every reachable state of the data path.
THEOREM Invariance == Spec => []IndInv
<1>1. Init => IndInv
  BY InitSafe
<1>2. IndInv /\ [Next]_vars => IndInv'
  BY NextSafe
<1> QED
  BY <1>1, <1>2, PTL DEF Spec

\* The send queue is never overrun, although posters check the room against a
\* ci that pollers move under another lock.
THEOREM NoOverrun == Spec => []SqWindow
<1>1. IndInv => SqWindow
  <2> SUFFICES ASSUME IndInv PROVE SqWindow
    OBVIOUS
  <2>u. pi \in Idx /\ hwci \in Idx /\ db \in Idx /\ ci \in Idx
    BY DEF IndInv, TypeOK
  <2>1. /\ Ahead(pi) \in Nat /\ Ahead(hwci) \in Nat /\ Ahead(db) \in Nat
        /\ Ahead(hwci) <= Ahead(db) /\ Ahead(db) <= Ahead(pi)
        /\ Ahead(pi) <= SqBlocks
    BY <2>u, Distances DEF IndInv, SqOrder
  <2>2. Sub(pi, hwci) = Ahead(pi) - Ahead(hwci) /\ Sub(pi, db) = Ahead(pi) - Ahead(db)
    <3>1. Ahead(hwci) <= Ahead(pi)
      BY <2>1
    <3> QED
      BY <3>1, <2>1, <2>u, SubDiff DEF Ahead
  <2>3. Sub(pi, ci) = Ahead(pi)
    BY DEF Ahead
  <2> QED
    BY <2>1, <2>2, <2>3 DEF SqWindow
<1> QED
  BY <1>1, Invariance, PTL

\* No block the device has still to read is overwritten by a later request.
THEOREM WqesIntact == Spec => []WqeIntact
<1>1. IndInv => WqeIntact
  <2> SUFFICES ASSUME IndInv PROVE WqeIntact
    OBVIOUS
  <2>u. pi \in Idx /\ hwci \in Idx /\ Off(pi) \in Nat /\ Off(pi) < IdxMod /\ IdxMod \in Nat
    BY Distances, IdxModBounds DEF IndInv, TypeOK
  <2>1. ASSUME NEW x \in Window(hwci, pi)
        PROVE  /\ Blk(x).label \in Window(hwci, pi)
               /\ Sub(x, Blk(x).label) < Blk(x).cnt
    <3>1. PICK i \in 0..(Sub(pi, hwci) - 1) : x = Add(hwci, i)
      BY <2>1 DEF Window
    <3>2. i \in Nat /\ i < Off(pi) /\ i < IdxMod /\ i <= IdxMod
      BY <3>1, <2>u DEF Off
    <3>3. x \in Idx /\ Off(x) = i
      BY <3>1, <3>2, <2>u, AddType, AddAfterOne DEF Off
    <3>4. PICK w \in Wqe : w = Blk(x)
      BY <3>3, Distances DEF IndInv
    <3>5. /\ Tile(w)
          /\ Off(w.label) <= Off(x)
          /\ Off(x) < Off(w.label) + w.cnt
      BY <3>2, <3>3, <3>4 DEF IndInv, Tiled, Pending
    <3>6. /\ w.label \in Idx /\ w.cnt \in Nat
          /\ Off(w.label) \in Nat
      BY <3>5, WrSizeBounds, Distances DEF Tile, Wqe, IndInv
    <3>7. Sub(x, w.label) < w.cnt
      <4>1. Sub(x, w.label) = Off(x) - Off(w.label)
        BY <3>3, <3>5, <3>6, <2>u, SubDiff DEF Off
      <4> QED
        BY <4>1, <3>2, <3>3, <3>5, <3>6
    <3>8. w.label \in Window(hwci, pi)
      <4>1. Off(w.label) \in 0..(Sub(pi, hwci) - 1)
        BY <3>2, <3>3, <3>5, <3>6, <2>u DEF Off
      <4>2. w.label = Add(hwci, Off(w.label))
        BY <3>6, <2>u, AddSub DEF Off
      <4> QED
        BY <4>1, <4>2 DEF Window
    <3> QED
      BY <3>4, <3>7, <3>8
  <2> QED
    BY <2>1 DEF WqeIntact, Blk, IndInv, Tiled
<1> QED
  BY <1>1, Invariance, PTL

\* A WQE pushed through the direct window never overtakes earlier requests.
THEOREM DirectInOrder == Spec => []DirectPushInOrder
<1>1. IndInv => DirectPushInOrder
  <2> SUFFICES ASSUME IndInv, dwqe # NoWqe PROVE dwqe.label = hwci
    BY DEF DirectPushInOrder
  <2>1. hwci # db /\ dwqe = Blk(hwci)
    BY DEF IndInv, DirectInv
  <2>2. Blk(hwci).label = hwci
    BY <2>1, NextWqeWhole
  <2> QED
    BY <2>1, <2>2
<1> QED
  BY <1>1, Invariance, PTL

\* The owner bit of an entry is the one its round gives it, so it tells exactly
\* whether the entry at cq->ci is unread.
LEMMA OwnerBitState == IndInv => OwnerBitExact
<1> SUFFICES ASSUME IndInv PROVE OwnerBitExact
  OBVIOUS
<1>u. /\ cqci \in Idx /\ hwpi \in Idx
      /\ CqEntries \in Nat /\ IdxMod \in Nat /\ CqEntries < IdxMod /\ CqEntries >= 1
  BY IdxModBounds DEF IndInv, TypeOK
<1>1. ASSUME cqci = hwpi
      PROVE  ~NextCqeValid
  <2>1. Add(hwpi, 0) = hwpi /\ 0 \in 0..(CqEntries - 1)
    BY <1>u, IdxModBounds DEF Add, Idx
  <2>2. cqbuf[CqSlot(hwpi)].owner = Round(hwpi)
    BY <2>1 DEF IndInv, CqOrder, Ce
  <2> QED
    BY <1>1, <2>2 DEF NextCqeValid
<1>2. ASSUME cqci # hwpi
      PROVE  NextCqeValid
  <2>1. PICK m \in Nat : m = Sub(hwpi, cqci) /\ m >= 1 /\ m <= CqEntries
    <3>1. Sub(hwpi, cqci) \in Nat /\ Sub(hwpi, cqci) <= CqEntries
      BY <1>u, SubType DEF IndInv, CqOrder
    <3>2. Sub(hwpi, cqci) # 0
      BY <1>2, <1>u, SubZero
    <3> QED
      BY <3>1, <3>2, <1>u
  <2> DEFINE d == CqEntries - m
  <2>2. d \in Nat /\ d \in 0..(CqEntries - 1) /\ m + d = CqEntries
    BY <2>1, <1>u
  <2> HIDE DEF d
  <2>3. Add(hwpi, d) \in Idx /\ Sub(Add(hwpi, d), cqci) = CqEntries
    <3>1. Sub(hwpi, cqci) + d < IdxMod
      BY <2>1, <2>2, <1>u
    <3>2. Add(hwpi, d) \in Idx /\ Sub(Add(hwpi, d), cqci) = Sub(hwpi, cqci) + d
      BY <3>1, <2>2, <1>u, SubAdvance
    <3> QED
      BY <3>2, <2>1, <2>2
  <2>4. Add(cqci, CqEntries) \in Idx /\ Sub(Add(cqci, CqEntries), cqci) = CqEntries
    BY <1>u, NextRound, AddAfterOne
  <2>5. Add(hwpi, d) = Add(cqci, CqEntries)
    BY <2>3, <2>4, <1>u, SubInj
  <2>6. Ce(Add(hwpi, d)).owner = Round(Add(hwpi, d))
    BY <2>2 DEF IndInv, CqOrder
  <2>7. cqbuf[CqSlot(cqci)].owner = 1 - Round(cqci)
    BY <2>5, <2>6, <1>u, NextRound DEF Ce
  <2>8. 1 - Round(cqci) # Round(cqci)
    BY <1>u, RoundType
  <2> QED
    BY <2>7, <2>8 DEF NextCqeValid
<1> QED
  BY <1>1, <1>2 DEF OwnerBitExact

\* The owner bit tells exactly whether there is an unread CQE, in every round
\* of the ring and over every wrap of the counters.
THEOREM OwnerBit == Spec => []OwnerBitExact
<1>1. IndInv => OwnerBitExact
  BY OwnerBitState
<1> QED
  BY <1>1, Invariance, PTL
----------------------------------------------------------------------------
(***************************************************************************)
(* The data path implements CdmaFifo: requests complete in the order in    *)
(* which they were accepted, each at most once and with its own user_ctx.  *)
(* FifoInv of CdmaQueueInv, which says how the rings hold the accepted     *)
(* requests, is inductive together with IndInv.                            *)
(***************************************************************************)

\* Positions behind pi are counter values, and tell indices apart.
LEMMA BackFacts ==
  ASSUME TypeOK
  PROVE  /\ \A x \in Idx : Back(x) \in Nat /\ Back(x) < IdxMod
         /\ \A x, y \in Idx : Back(x) = Back(y) <=> x = y
         /\ Back(pi) = 0
         /\ Back(ci) = Ahead(pi)
         /\ pi \in Idx /\ ci \in Idx /\ IdxMod \in Nat
BY IdxModBounds DEF TypeOK, Back, Ahead, Sub, Idx

\* Requests start at indices.
LEMMA StartFacts ==
  ASSUME TypeOK, OutqOrder
  PROVE  /\ Len(outq) \in Nat
         /\ \A k \in Nat \ {0} : Start(k) \in Idx /\ Back(Start(k)) \in Nat
         /\ \A k \in Nat \ {0} : k <= Len(outq) => Start(k) = outq[k]
         /\ \A k \in Nat \ {0} : k > Len(outq) => Start(k) = pi /\ Back(Start(k)) = 0
<1>1. Len(outq) \in Nat /\ \A k \in 1..Len(outq) : outq[k] \in Idx
  BY DEF OutqOrder
<1> QED
  BY <1>1, BackFacts DEF Start

\* Between ci and pi, distances from ci and from pi add up.
LEMMA BackAhead ==
  ASSUME TypeOK, NEW x \in Idx
  PROVE  /\ Back(x) <= Back(ci) => Ahead(x) = Back(ci) - Back(x)
         /\ Ahead(x) <= Ahead(pi) => Back(x) = Ahead(pi) - Ahead(x)
BY IdxModBounds DEF TypeOK, Back, Ahead, Sub, Idx

\* Retiring the first request renumbers the others.
LEMMA RetireStart ==
  ASSUME TypeOK, OutqOrder, outq # <<>>, outq' = Tail(outq), UNCHANGED pi
  PROVE  /\ OutqOrder'
         /\ Len(outq') = Len(outq) - 1
         /\ \A x : Back(x)' = Back(x)
         /\ \A k \in Nat \ {0} : /\ Start(k)' = Start(k + 1)
                                 /\ Size(k)' = Size(k + 1)
                                 /\ \A x : Owns(k, x)' <=> Owns(k + 1, x)
<1>1. /\ outq \in Seq(Idx) /\ outq' \in Seq(Idx) /\ Len(outq) \in Nat
      /\ Len(outq') = Len(outq) - 1
      /\ \A k \in 1..Len(outq') : outq'[k] = outq[k + 1]
  BY DEF OutqOrder
<1>2. \A k \in Nat \ {0} : Start(k)' = Start(k + 1)
  BY <1>1 DEF Start
<1>3. \A x : Back(x)' = Back(x)
  BY DEF Back, Sub
<1>4. \A k \in Nat \ {0} : Back(Start(k))' = Back(Start(k + 1))
  BY <1>2 DEF Back
<1>5. \A k \in Nat \ {0} : /\ Size(k)' = Size(k + 1)
                           /\ \A x : Owns(k, x)' <=> Owns(k + 1, x)
  <2> SUFFICES ASSUME NEW k \in Nat \ {0}
               PROVE  /\ Size(k)' = Size(k + 1)
                      /\ \A x : Owns(k, x)' <=> Owns(k + 1, x)
    OBVIOUS
  <2>1. /\ Back(Start(k))' = Back(Start(k + 1))
        /\ Back(Start(k + 1))' = Back(Start(k + 1 + 1))
    BY <1>4
  <2> QED
    BY <2>1, <1>3 DEF Size, Owns
<1>6. OutqOrder'
  <2>1. ASSUME NEW j \in 1..(Len(outq') + 1), NEW k \in 1..(Len(outq') + 1), j < k
        PROVE  Back(Start(k))' < Back(Start(j))'
    <3>1. j + 1 \in 1..(Len(outq) + 1) /\ k + 1 \in 1..(Len(outq) + 1) /\ j + 1 < k + 1
          /\ j \in Nat \ {0} /\ k \in Nat \ {0}
      BY <2>1, <1>1
    <3>2. Back(Start(k + 1)) < Back(Start(j + 1))
      BY <3>1 DEF OutqOrder
    <3> QED
      BY <3>1, <3>2, <1>4
  <2>2. ASSUME NEW k \in 1..Len(outq')
        PROVE  Size(k)' <= SqBlocks
    <3>1. k + 1 \in 1..Len(outq) /\ k \in Nat \ {0}
      BY <1>1
    <3> QED
      BY <3>1, <1>5 DEF OutqOrder
  <2> QED
    BY <2>1, <2>2, <1>1 DEF OutqOrder
<1> QED
  BY <1>1, <1>2, <1>3, <1>5, <1>6
----------------------------------------------------------------------------
(* Conjuncts that a step leaves alone *)

\* The order of the requests depends on these alone.
LEMMA OutqFrame ==
  ASSUME UNCHANGED <<pi, outq>>
  PROVE  /\ OutqOrder => OutqOrder'
         /\ \A x : Back(x)' = Back(x)
         /\ \A k : Start(k)' = Start(k) /\ Size(k)' = Size(k)
         /\ \A k, x : Owns(k, x)' <=> Owns(k, x)
BY DEF OutqOrder, Back, Start, Size, Owns

\* The blocks of the requests depend on these alone.
LEMMA BlocksFrame ==
  ASSUME BlocksKept, UNCHANGED <<pi, outq, ci, wrid, qbuf>>
  PROVE  BlocksKept'
BY DEF BlocksKept, Owns, Size, Start, Back, Blk

\* Steps that neither take nor finish the CQE of a request, nor touch rings.
LEMMA FifoFrame ==
  ASSUME FifoInv,
         UNCHANGED <<pi, ci, outq, wrid, qbuf, hwci, hwpi, cqbuf, cqci>>,
         hwState = "done" => hwState' = "done",
         \A r \in Pollers : Holding(r)' => Holding(r),
         \A r \in Pollers : HasReq(r) => Holding(r)' /\ poll'[r] = poll[r]
  PROVE  FifoInv'
<1>1. /\ CurrentCqe' = CurrentCqe
      /\ \A j : Ce(j)' = Ce(j) /\ Blk(j)' = Blk(j) /\ (Unread(j)' <=> Unread(j))
  BY DEF CurrentCqe, Ce, Blk, Unread
<1>2. \A r \in Pollers : /\ HasReq(r)' <=> HasReq(r)
                         /\ HasReq(r) => poll'[r] = poll[r]
  BY <1>1 DEF HasReq
<1>3. HeldReq' = HeldReq /\ (Jumped' <=> Jumped)
  BY <1>2 DEF HeldReq, Jumped
<1>4. LastFd' = LastFd /\ Executed' = Executed
  BY <1>1, <1>3 DEF LastFd, Executed
<1>5. OutqOrder' /\ BlocksKept'
  BY OutqFrame, BlocksFrame DEF FifoInv
<1>6. CiFront'
  BY <1>1, <1>3, OutqFrame DEF FifoInv, CiFront
<1>7. CqesInOrder'
  <2>1. \A p \in Pollers : HasReq(p)' => Owns(1, CurrentCqe.entry_idx)'
    BY <1>1, <1>2, OutqFrame DEF FifoInv, CqesInOrder
  <2>2. \A j \in Idx : Unread(j)' /\ ~Ce(j).fd'
                         => Owns(HeldReq + 1 + Sub(j, cqci), Ce(j).entry_idx)'
    BY <1>1, <1>3 DEF FifoInv, CqesInOrder, Owns, Back, Start
  <2>3. \A p \in Pollers : Holding(p)' /\ CurrentCqe.fd' => hwState' = "done" /\ cqci' = hwpi'
    BY <1>1 DEF FifoInv, CqesInOrder
  <2>4. \A j \in Idx : Unread(j)' /\ Ce(j).fd' => hwState' = "done" /\ j = Sub(hwpi, 1)'
    BY <1>1 DEF FifoInv, CqesInOrder
  <2>5. Executed' <= Len(outq') /\ hwci' = Start(Executed + 1)'
    BY <1>4 DEF FifoInv, CqesInOrder, Start
  <2> QED
    BY <2>1, <2>2, <2>3, <2>4, <2>5 DEF CqesInOrder
<1>8. CtxRead'
  BY <1>2, OutqFrame DEF FifoInv, CtxRead
<1> QED
  BY <1>5, <1>6, <1>7, <1>8 DEF FifoInv
----------------------------------------------------------------------------
(* Steps of a poller *)

\* The number of unread CQEs, and whether the last of them is flush done.
LEMMA UnreadCount ==
  ASSUME IndInv
  PROVE  /\ cqci \in Idx /\ hwpi \in Idx
         /\ Sub(hwpi, cqci) \in Nat /\ Sub(hwpi, cqci) <= Taken /\ Taken \in Nat
         /\ Sub(hwpi, cqci) <= CqEntries /\ CqEntries \in Nat /\ 2 * CqEntries <= IdxMod
         /\ LastFd \in {0, 1} /\ LastFd <= Sub(hwpi, cqci)
         /\ hwpi # cqci => Sub(hwpi, 1) \in Idx /\ Unread(Sub(hwpi, 1))
         /\ HeldReq \in {0, 1}
<1>1. cqci \in Idx /\ hwpi \in Idx /\ swDb \in DbIdx
  BY DEF IndInv, TypeOK
<1>2. /\ Sub(hwpi, cqci) \in Nat /\ Sub(hwpi, cqci) <= CqEntries
      /\ CqEntries \in Nat /\ 2 * CqEntries <= IdxMod
  BY <1>1, SubType, IdxModBounds DEF IndInv, CqOrder
<1>3. Sub(hwpi, cqci) <= Taken /\ Taken \in Nat
  <2>1. Pub \in Idx /\ Sub(hwpi, Pub) = Taken /\ Taken \in Nat
    BY <1>1, PubFacts
  <2>2. Sub(cqci, Pub) \in Nat /\ Sub(cqci, Pub) <= Sub(hwpi, Pub)
    BY <1>1, <2>1, SubType DEF IndInv, CqOrder
  <2>3. Sub(hwpi, cqci) = Sub(hwpi, Pub) - Sub(cqci, Pub)
    BY <1>1, <2>1, <2>2, SubDiff
  <2> QED
    BY <2>1, <2>2, <2>3
<1>4. hwpi # cqci => Sub(hwpi, cqci) >= 1
  BY <1>1, <1>2, SubZero
<1>5. hwpi # cqci => Sub(hwpi, 1) \in Idx /\ Unread(Sub(hwpi, 1))
  <2> SUFFICES ASSUME hwpi # cqci
               PROVE  Sub(hwpi, 1) \in Idx /\ Unread(Sub(hwpi, 1))
    OBVIOUS
  <2>1. Sub(Sub(hwpi, 1), cqci) = Sub(hwpi, cqci) - 1
    BY <1>1, <1>4, SubPred
  <2> QED
    BY <2>1, <1>1, <1>2, <1>4, StepBack DEF Unread
<1>6. LastFd \in {0, 1} /\ LastFd <= Sub(hwpi, cqci) /\ HeldReq \in {0, 1}
  BY <1>2, <1>4 DEF LastFd, HeldReq
<1> QED
  BY <1>1, <1>2, <1>3, <1>5, <1>6

\* The poller that takes a step is the only one at work.
LEMMA OnlyPoller ==
  ASSUME IndInv, NEW p \in Pollers, poll[p].pc # "idle",
         NEW r, poll' = [poll EXCEPT ![p] = r]
  PROVE  /\ poll'[p] = r
         /\ \A q \in Pollers : q # p => ~Holding(q) /\ ~Holding(q)'
<1>1. \A q \in Pollers : q # p => poll[q].pc = "idle" /\ poll'[q] = poll[q]
  BY SolePoller DEF IndInv, TypeOK
<1>2. poll'[p] = r
  BY DEF IndInv, TypeOK
<1> QED
  BY <1>1, <1>2 DEF Holding

\* Taking a CQE: it was the first unread one, now the poller works on it.
LEMMA PollTakeFifo ==
  ASSUME IndInv, FifoInv, NEW p \in Pollers, PollTake(p)
  PROVE  FifoInv'
<1>u. /\ UNCHANGED <<pi, ci, outq, wrid, qbuf, hwci, hwpi, hwState, cqbuf>>
      /\ cqci' = Add(cqci, 1)
  BY DEF PollTake, sqVars, hwVars
<1>p. /\ poll'[p].pc = "advance" /\ ~Holding(p) /\ Holding(p)'
      /\ \A q \in Pollers : q # p => ~Holding(q) /\ ~Holding(q)'
  <2>1. poll' = [poll EXCEPT ![p] = [poll[p] EXCEPT !.pc = "advance"]]
    BY DEF PollTake
  <2>2. /\ poll'[p] = [poll[p] EXCEPT !.pc = "advance"]
        /\ \A q \in Pollers : q # p => ~Holding(q) /\ ~Holding(q)'
    BY <2>1, OnlyPoller DEF PollTake
  <2>3. poll'[p].pc = "advance"
    BY <2>2 DEF IndInv, TypeOK, PollLocals
  <2> QED
    BY <2>2, <2>3 DEF Holding, PollTake
<1>c. /\ cqci \in Idx /\ hwpi \in Idx /\ hwpi # cqci
      /\ Sub(hwpi, cqci) \in Nat /\ Sub(hwpi, cqci) >= 1 /\ Sub(hwpi, cqci) < IdxMod
      /\ IdxMod \in Nat
  <2>1. cqci \in Idx /\ hwpi \in Idx /\ hwpi # cqci
    BY OwnerBitState DEF PollTake, OwnerBitExact, IndInv, TypeOK
  <2>2. Sub(hwpi, cqci) # 0
    BY <2>1, SubZero
  <2>3. IdxMod \in Nat /\ Sub(hwpi, cqci) \in Nat /\ Sub(hwpi, cqci) < IdxMod
    BY <2>1, IdxModBounds, SubType DEF Idx
  <2> QED
    BY <2>1, <2>2, <2>3
<1>d. /\ cqci' \in Idx /\ Sub(cqci', 1) = cqci
      /\ Sub(hwpi, cqci') = Sub(hwpi, cqci) - 1
      /\ Sub(cqci, cqci) = 0 /\ Unread(cqci)
      /\ \A j \in Idx : Unread(j)' => /\ Unread(j)
                                      /\ Sub(j, cqci') = Sub(j, cqci) - 1
                                      /\ Sub(j, cqci) \in Nat
  BY <1>c, <1>u DEF Unread, Add, Sub, Idx
<1>e. /\ CurrentCqe' = Ce(cqci)
      /\ \A j : Ce(j)' = Ce(j) /\ Blk(j)' = Blk(j)
  BY <1>d, <1>u DEF CurrentCqe, Ce, Blk
<1>h. HeldReq = 0 /\ ~Jumped /\ ~Jumped'
  BY <1>p DEF HeldReq, Jumped, HasReq
<1>1. OutqOrder' /\ BlocksKept' /\ \A x : Back(x)' = Back(x)
  BY <1>u, OutqFrame, BlocksFrame DEF FifoInv
<1>2. CiFront'
  BY <1>u, <1>e, <1>h, OutqFrame DEF FifoInv, CiFront
<1>3. CtxRead'
  BY <1>p DEF CtxRead, HasReq
<1>4. /\ Executed' = Executed
      /\ HeldReq' = IF Ce(cqci).fd THEN 0 ELSE 1
      /\ Ce(cqci).fd => cqci' = hwpi /\ hwState = "done"
  <2>1. CASE Ce(cqci).fd
    <3>1. hwState = "done" /\ cqci = Sub(hwpi, 1)
      BY <2>1, <1>c, <1>d DEF FifoInv, CqesInOrder
    <3>2. cqci' = hwpi
      BY <3>1, <1>c, <1>u, StepBack
    <3>3. HeldReq' = 0
      BY <2>1, <1>e, <1>p DEF HeldReq, HasReq
    <3>4. LastFd = 1 /\ LastFd' = 0
      BY <2>1, <3>1, <3>2, <1>c, <1>u DEF LastFd
    <3>5. Sub(hwpi, cqci) = 1 /\ Sub(hwpi, cqci)' = 0
      <4>1. Sub(hwpi, cqci') = 0
        BY <3>2, <1>c, SubZero
      <4> QED
        BY <4>1, <1>c, <1>d, <1>u
    <3> QED
      BY <2>1, <3>1, <3>2, <3>3, <3>4, <3>5, <1>h DEF Executed
  <2>2. CASE ~Ce(cqci).fd
    <3>1. HeldReq' = 1
      BY <2>2, <1>e, <1>p DEF HeldReq, HasReq
    <3>2. LastFd' = LastFd
      <4>1. CASE hwpi = cqci'
        BY <4>1, <2>2, <1>d, <1>u DEF LastFd
      <4>2. CASE hwpi # cqci'
        BY <4>2, <1>c, <1>e, <1>u DEF LastFd
      <4> QED
        BY <4>1, <4>2
    <3>3. Sub(hwpi, cqci)' = Sub(hwpi, cqci) - 1
      BY <1>d, <1>u
    <3>4. LastFd \in Nat
      BY DEF LastFd
    <3> QED
      BY <2>2, <3>1, <3>2, <3>3, <3>4, <1>c, <1>h DEF Executed
  <2> QED
    BY <2>1, <2>2
<1>5. CqesInOrder'
  <2>1. \A q \in Pollers : HasReq(q)' => Owns(1, CurrentCqe.entry_idx)'
    <3>1. PICK e : e = Ce(cqci).entry_idx /\ e = CurrentCqe.entry_idx'
      BY <1>e
    <3>2. ~Ce(cqci).fd => Owns(HeldReq + 1 + Sub(cqci, cqci), e)
      BY <3>1, <1>c, <1>d DEF FifoInv, CqesInOrder
    <3>3. ~Ce(cqci).fd => Owns(1, e)
      BY <3>2, <1>d, <1>h
    <3>4. Owns(1, CurrentCqe.entry_idx)' <=> Owns(1, e)
      BY <3>1, <1>u DEF Owns, Start, Back
    <3> QED
      BY <3>3, <3>4, <1>e DEF HasReq
  <2>2. ASSUME NEW j \in Idx, Unread(j)', ~Ce(j).fd'
        PROVE  Owns(HeldReq + 1 + Sub(j, cqci), Ce(j).entry_idx)'
    <3>1. Owns(HeldReq + 1 + Sub(j, cqci), Ce(j).entry_idx)
      BY <2>2, <1>d, <1>e DEF FifoInv, CqesInOrder
    <3>2. ~Ce(cqci).fd
      <4>1. ASSUME Ce(cqci).fd PROVE FALSE
        <5>1. Sub(hwpi, cqci)' = 0
          BY <4>1, <1>4, <1>c, <1>u, SubZero
        <5>2. Sub(j, cqci') \in Nat /\ Sub(j, cqci)' = Sub(j, cqci')
          BY <1>d, SubType
        <5> QED
          BY <5>1, <5>2, <2>2 DEF Unread
      <4> QED
        BY <4>1
    <3>3. (HeldReq + 1 + Sub(j, cqci))' = HeldReq + 1 + Sub(j, cqci)
      <4>1. HeldReq' = 1 /\ HeldReq = 0
        BY <3>2, <1>4, <1>h
      <4>2. Sub(j, cqci)' = Sub(j, cqci) - 1 /\ Sub(j, cqci) \in Nat
        BY <2>2, <1>d
      <4> QED
        BY <4>1, <4>2
    <3> QED
      BY <3>1, <3>3, <1>e, <1>u DEF Owns, Start, Back
  <2>3. \A j \in Idx : Unread(j)' /\ Ce(j).fd' => hwState' = "done" /\ j = Sub(hwpi, 1)'
    BY <1>d, <1>e, <1>u DEF FifoInv, CqesInOrder
  <2>4. \A q \in Pollers : Holding(q)' /\ CurrentCqe.fd' => hwState' = "done" /\ cqci' = hwpi'
    BY <1>4, <1>e, <1>u
  <2>5. Executed' <= Len(outq') /\ hwci' = Start(Executed + 1)'
    BY <1>4, <1>u DEF FifoInv, CqesInOrder, Start
  <2> QED
    BY <2>1, <2>2, <2>3, <2>4, <2>5 DEF CqesInOrder
<1> QED
  BY <1>1, <1>2, <1>3, <1>5 DEF FifoInv

\* What FifoInv says of the first request while a poller works on it.
LEMMA FirstHeld ==
  ASSUME IndInv, FifoInv, NEW p \in Pollers, HasReq(p)
  PROVE  /\ Len(outq) \in Nat /\ Len(outq) >= 1 /\ outq # <<>> /\ Start(1) = outq[1]
         /\ CurrentCqe.entry_idx \in Idx
         /\ Owns(1, CurrentCqe.entry_idx)
         /\ HeldReq = 1
<1>1. CurrentCqe.entry_idx \in Idx
  BY CurrentFacts DEF HasReq
<1>2. Owns(1, CurrentCqe.entry_idx)
  BY DEF FifoInv, CqesInOrder
<1>3. TypeOK /\ OutqOrder
  BY DEF IndInv, FifoInv
<1>4. Len(outq) \in Nat /\ Back(CurrentCqe.entry_idx) \in Nat /\ Back(Start(2)) \in Nat
      /\ Back(Start(1)) \in Nat
  BY <1>1, <1>3, BackFacts, StartFacts
<1>5. Back(Start(1)) # 0
  BY <1>2, <1>4 DEF Owns
<1>6. ~(1 > Len(outq))
  BY <1>3, <1>4, <1>5, StartFacts
<1>7. Len(outq) >= 1
  BY <1>4, <1>6
<1> QED
  BY <1>1, <1>2, <1>3, <1>7, <1>4, StartFacts DEF HeldReq

\* cdma_u_update_jetty_idx: ci jumps into the blocks of the first request.
LEMMA PollAdvanceFifo ==
  ASSUME IndInv, IndInv', FifoInv, NEW p \in Pollers, PollAdvance(p)
  PROVE  FifoInv'
<1>u. UNCHANGED <<pi, outq, wrid, qbuf, hwci, hwpi, hwState, cqbuf, cqci>>
  BY DEF PollAdvance, sqVars, hwVars
<1>p. /\ poll'[p].pc = "ctx" /\ Holding(p) /\ Holding(p)'
      /\ \A q \in Pollers : q # p => ~Holding(q) /\ ~Holding(q)'
  <2>1. poll' = [poll EXCEPT ![p] = [poll[p] EXCEPT !.pc = "ctx"]]
    BY DEF PollAdvance
  <2>2. /\ poll'[p] = [poll[p] EXCEPT !.pc = "ctx"]
        /\ \A q \in Pollers : q # p => ~Holding(q) /\ ~Holding(q)'
    BY <2>1, OnlyPoller DEF PollAdvance
  <2>3. poll'[p].pc = "ctx"
    BY <2>2 DEF IndInv, TypeOK, PollLocals
  <2> QED
    BY <2>2, <2>3 DEF Holding, PollAdvance
<1>1. CASE CurrentCqe.fd
  <2>1. UNCHANGED ci
    BY <1>1 DEF PollAdvance
  <2> QED
    BY <2>1, <1>1, <1>u, <1>p, FifoFrame DEF HasReq
<1>2. CASE ~CurrentCqe.fd
  <2>0. /\ HasReq(p) /\ HasReq(p)' /\ CurrentCqe' = CurrentCqe
        /\ \A j : Ce(j)' = Ce(j) /\ Blk(j)' = Blk(j) /\ (Unread(j)' <=> Unread(j))
    BY <1>2, <1>p, <1>u DEF HasReq, CurrentCqe, Ce, Blk, Unread
  <2>h. HeldReq' = HeldReq /\ Jumped' /\ ~Jumped
    <3>1. poll[p].pc = "advance"
      BY DEF PollAdvance
    <3>2. ~Jumped
      BY <3>1, <1>p DEF Jumped, HasReq
    <3> QED
      BY <3>2, <2>0, <1>p DEF HeldReq, Jumped
  <2>1. ci' = CurrentCqe.entry_idx
    <3>1. CurrentCqe.entry_idx' = ci'
      BY <2>0, <1>p DEF IndInv, CurrentInv, HasReq
    <3> QED
      BY <3>1, <2>0
  <2>2. PICK e \in Idx : e = CurrentCqe.entry_idx /\ Owns(1, e)
    BY <2>0, FirstHeld
  <2>3. Back(e) <= Back(ci) /\ Back(ci)' = Back(e) /\ Back(e) \in Nat /\ Back(ci) \in Nat
    <3>1. Back(Start(1)) <= Back(ci) /\ Back(e) <= Back(Start(1))
      BY <2>2, <2>h DEF FifoInv, CiFront, Owns
    <3>2. Back(e) \in Nat /\ Back(ci) \in Nat /\ Back(Start(1)) \in Nat
      BY <2>2, BackFacts, StartFacts DEF FifoInv, IndInv
    <3>3. Back(ci)' = Back(e)
      BY <2>1, <2>2, <1>u DEF Back
    <3> QED
      BY <3>1, <3>2, <3>3
  <2>4. OutqOrder'
    BY <1>u, OutqFrame DEF FifoInv
  <2>5. BlocksKept'
    <3> SUFFICES ASSUME NEW k \in 1..Len(outq), NEW x \in Idx, Owns(k, x),
                        Back(x) <= Back(e)
                 PROVE  /\ wrid[SqSlot(x)] = outq[k]
                        /\ Blk(x) = [label |-> outq[k], cnt |-> Size(k)]
      BY <2>3, <2>0, <1>u, OutqFrame DEF BlocksKept
    <3>1. Back(x) \in Nat
      BY BackFacts DEF IndInv
    <3>2. Back(x) <= Back(ci)
      BY <3>1, <2>3
    <3> QED
      BY <3>2 DEF FifoInv, BlocksKept
  <2>6. CiFront'
    <3>1. Owns(1, ci)' <=> Owns(1, e)
      BY <2>1, <2>2, <1>u DEF Owns, Start, Back
    <3> QED
      BY <3>1, <2>2, <2>h DEF CiFront
  <2>7. CqesInOrder'
    <3>1. \A q \in Pollers : HasReq(q)' => Owns(1, CurrentCqe.entry_idx)'
      <4>1. Owns(1, CurrentCqe.entry_idx)' <=> Owns(1, e)
        BY <2>0, <2>2, <1>u DEF Owns, Start, Back
      <4> QED
        BY <4>1, <2>2
    <3>2. \A j \in Idx : Unread(j)' /\ ~Ce(j).fd'
                           => Owns(HeldReq + 1 + Sub(j, cqci), Ce(j).entry_idx)'
      BY <2>0, <2>h, <1>u DEF FifoInv, CqesInOrder, Owns, Back, Start
    <3>3. LastFd' = LastFd /\ Executed' = Executed
      BY <2>0, <2>h, <1>u DEF LastFd, Executed
    <3>4. Executed' <= Len(outq') /\ hwci' = Start(Executed + 1)'
      BY <3>3, <1>u DEF FifoInv, CqesInOrder, Start
    <3>5. \A q \in Pollers : Holding(q)' /\ CurrentCqe.fd' => hwState' = "done" /\ cqci' = hwpi'
      BY <1>2, <2>0
    <3>6. \A j \in Idx : Unread(j)' /\ Ce(j).fd' => hwState' = "done" /\ j = Sub(hwpi, 1)'
      BY <2>0, <1>u DEF FifoInv, CqesInOrder
    <3> QED
      BY <3>1, <3>2, <3>4, <3>5, <3>6 DEF CqesInOrder
  <2>8. CtxRead'
    BY <1>p DEF CtxRead, HasReq
  <2> QED
    BY <2>4, <2>5, <2>6, <2>7, <2>8 DEF FifoInv
<1> QED
  BY <1>1, <1>2

\* Reading the user_ctx: ci is in a block of the first request.
LEMMA PollReadCtxFifo ==
  ASSUME IndInv, FifoInv, NEW p \in Pollers, PollReadCtx(p)
  PROVE  FifoInv'
<1>u. UNCHANGED <<pi, ci, outq, wrid, qbuf, hwci, hwpi, hwState, cqbuf, cqci>>
  BY DEF PollReadCtx, sqVars, hwVars
<1>p. /\ poll'[p].pc = "finish" /\ poll'[p].ctx = wrid[SqSlot(ci)]
      /\ Holding(p) /\ Holding(p)' /\ poll[p].pc = "ctx"
      /\ \A q \in Pollers : q # p => ~Holding(q) /\ ~Holding(q)'
  <2> DEFINE r == [poll[p] EXCEPT !.pc = "finish", !.ctx = wrid[SqSlot(ci)]]
  <2>1. poll' = [poll EXCEPT ![p] = r]
    BY DEF PollReadCtx
  <2>2. r.pc = "finish" /\ r.ctx = wrid[SqSlot(ci)]
    BY DEF IndInv, TypeOK, PollLocals
  <2> HIDE DEF r
  <2>3. /\ poll'[p] = r
        /\ \A q \in Pollers : q # p => ~Holding(q) /\ ~Holding(q)'
    BY <2>1, OnlyPoller DEF PollReadCtx
  <2> QED
    BY <2>2, <2>3 DEF Holding, PollReadCtx
<1>1. CASE CurrentCqe.fd
  BY <1>1, <1>u, <1>p, FifoFrame DEF HasReq
<1>2. CASE ~CurrentCqe.fd
  <2>0. /\ HasReq(p) /\ HasReq(p)' /\ CurrentCqe' = CurrentCqe
        /\ \A j : Ce(j)' = Ce(j) /\ Blk(j)' = Blk(j) /\ (Unread(j)' <=> Unread(j))
    BY <1>2, <1>p, <1>u DEF HasReq, CurrentCqe, Ce, Blk, Unread
  <2>h. HeldReq' = HeldReq /\ Jumped' /\ Jumped
    BY <2>0, <1>p DEF HeldReq, Jumped
  <2>1. OutqOrder' /\ BlocksKept'
    BY <1>u, OutqFrame, BlocksFrame DEF FifoInv
  <2>2. CiFront'
    BY <2>h, <1>u, OutqFrame DEF FifoInv, CiFront
  <2>3. CqesInOrder'
    <3>1. \A q \in Pollers : HasReq(q)' => Owns(1, CurrentCqe.entry_idx)'
      BY <2>0, <1>u, OutqFrame DEF FifoInv, CqesInOrder
    <3>2. \A j \in Idx : Unread(j)' /\ ~Ce(j).fd'
                           => Owns(HeldReq + 1 + Sub(j, cqci), Ce(j).entry_idx)'
      BY <2>0, <2>h, <1>u DEF FifoInv, CqesInOrder, Owns, Back, Start
    <3>3. LastFd' = LastFd /\ Executed' = Executed
      BY <2>0, <2>h, <1>u DEF LastFd, Executed
    <3>4. Executed' <= Len(outq') /\ hwci' = Start(Executed + 1)'
      BY <3>3, <1>u DEF FifoInv, CqesInOrder, Start
    <3>5. \A q \in Pollers : Holding(q)' /\ CurrentCqe.fd' => hwState' = "done" /\ cqci' = hwpi'
      BY <1>2, <2>0
    <3>6. \A j \in Idx : Unread(j)' /\ Ce(j).fd' => hwState' = "done" /\ j = Sub(hwpi, 1)'
      BY <2>0, <1>u DEF FifoInv, CqesInOrder
    <3> QED
      BY <3>1, <3>2, <3>4, <3>5, <3>6 DEF CqesInOrder
  <2>4. CtxRead'
    <3>1. wrid[SqSlot(ci)] = outq[1]
      <4>1. 1 \in 1..Len(outq) /\ ci \in Idx /\ Owns(1, ci) /\ Back(ci) <= Back(ci)
        BY <2>0, <2>h, FirstHeld, BackFacts DEF FifoInv, CiFront, IndInv
      <4> QED
        BY <4>1 DEF FifoInv, BlocksKept
    <3>2. Start(1)' = outq[1]
      BY <2>0, <1>u, FirstHeld, OutqFrame
    <3> QED
      BY <3>1, <3>2, <1>p DEF CtxRead, HasReq
  <2> QED
    BY <2>1, <2>2, <2>3, <2>4 DEF FifoInv
<1> QED
  BY <1>1, <1>2

\* The first request retires, with ci on its block or one beyond.
LEMMA RetireFifo ==
  ASSUME IndInv, FifoInv, NEW p \in Pollers, HasReq(p), poll[p].pc = "finish",
         UNCHANGED <<pi, wrid, qbuf, hwci, hwpi, hwState, cqbuf, cqci>>,
         outq' = Tail(outq), ci' = ci \/ ci' = Add(ci, 1),
         \A q \in Pollers : ~Holding(q)'
  PROVE  FifoInv'
<1>u. /\ TypeOK /\ OutqOrder
      /\ Len(outq) \in Nat /\ Len(outq) >= 1 /\ outq # <<>> /\ Start(1) = outq[1]
      /\ HeldReq = 1 /\ Jumped
  BY FirstHeld DEF IndInv, FifoInv, Jumped
<1>r. /\ OutqOrder'
      /\ Len(outq') = Len(outq) - 1
      /\ \A x : Back(x)' = Back(x)
      /\ \A k \in Nat \ {0} : /\ Start(k)' = Start(k + 1)
                              /\ Size(k)' = Size(k + 1)
                              /\ \A x : Owns(k, x)' <=> Owns(k + 1, x)
  <2>1. UNCHANGED pi
    OBVIOUS
  <2> QED
    BY <2>1, <1>u, RetireStart
<1>h. HeldReq' = 0 /\ ~Jumped' /\ \A q \in Pollers : ~HasReq(q)'
  BY DEF HeldReq, Jumped, HasReq
<1>e. \A j : Ce(j)' = Ce(j) /\ Blk(j)' = Blk(j) /\ (Unread(j)' <=> Unread(j))
  BY DEF Ce, Blk, Unread
<1>b. PICK b \in Nat, b1 \in Nat, b2 \in Nat :
        /\ b = Back(ci) /\ b1 = Back(Start(1)) /\ b2 = Back(Start(2))
        /\ b2 < b /\ b <= b1 /\ b1 < IdxMod /\ IdxMod \in Nat
        /\ Start(2) \in Idx /\ Start(1) \in Idx /\ ci \in Idx
  <2>1. ci \in Idx /\ Start(1) \in Idx /\ Start(2) \in Idx
    BY <1>u, BackFacts, StartFacts
  <2>2. Owns(1, ci)
    BY <1>u DEF FifoInv, CiFront
  <2> QED
    BY <2>1, <2>2, <1>u, BackFacts DEF Owns
<1>c. PICK c \in Nat : c = Back(ci)' /\ c <= b /\ b2 <= c
  <2>1. Sub(pi, Add(ci, 1)) = Sub(pi, ci) - 1
    <3>1. 1 <= Sub(pi, ci) /\ 1 \in Nat
      BY <1>b DEF Back
    <3> QED
      BY <3>1, <1>b, <1>u, BackFacts, SubRebase
  <2>2. Back(ci)' = b \/ Back(ci)' = b - 1
    BY <2>1, <1>b DEF Back
  <2> QED
    BY <2>2, <1>b
<1>1. BlocksKept'
  <2> SUFFICES ASSUME NEW k \in 1..Len(outq'), NEW x \in Idx, Owns(k, x)',
                      Back(x) <= c
               PROVE  /\ wrid[SqSlot(x)] = outq'[k]
                      /\ Blk(x) = [label |-> outq'[k], cnt |-> Size(k)']
    BY <1>c, <1>e, <1>r DEF BlocksKept
  <2>1. k \in Nat \ {0} /\ k + 1 \in 1..Len(outq)
    BY <1>r, <1>u
  <2>2. Owns(k + 1, x) /\ Size(k)' = Size(k + 1)
    BY <2>1, <1>r
  <2>3. outq'[k] = outq[k + 1]
    BY <2>1, <1>u, <1>r DEF OutqOrder
  <2>4. Back(x) <= Back(ci)
    <3>1. Back(x) \in Nat
      BY <1>u, BackFacts
    <3> QED
      BY <3>1, <1>b, <1>c
  <2> QED
    BY <2>1, <2>2, <2>3, <2>4 DEF FifoInv, BlocksKept
<1>2. CiFront'
  <2>s. Start(1)' = Start(2) /\ Back(Start(1))' = b2
    <3>1. Start(1)' = Start(1 + 1)
      BY <1>r
    <3>2. Start(1)' = Start(2)
      BY <3>1
    <3>3. Back(Start(1))' = Back(Start(2))
      BY <3>2 DEF Back
    <3> QED
      BY <3>2, <3>3, <1>b
  <2> DEFINE y == Sub(Start(2), 1)
  <2>1. y \in Idx /\ Back(y) = b2 + 1
    <3>1. y \in Idx
      BY <1>b, StepBack
    <3>2. Sub(pi, Start(2)) < IdxMod - 1 /\ pi \in Idx
      BY <1>b, <1>u, BackFacts DEF Back
    <3>3. Sub(pi, Sub(Start(2), 1)) = Sub(pi, Start(2)) + 1
      BY <3>2, <1>b DEF Sub, Idx
    <3> QED
      BY <3>1, <3>3, <1>b DEF Back
  <2>2. Owns(1, y) /\ Back(y) <= Back(ci) /\ 1 \in 1..Len(outq)
    <3>1. Back(Start(1 + 1)) = b2
      BY <1>b
    <3> QED
      BY <3>1, <2>1, <1>b, <1>u DEF Owns
  <2>3. Blk(y).cnt = Size(1)
    <3>1. Blk(y) = [label |-> outq[1], cnt |-> Size(1)]
      BY <2>1, <2>2 DEF FifoInv, BlocksKept
    <3> QED
      BY <3>1
  <2>4. Size(1) = b1 - b2
    <3>1. Back(Start(1 + 1)) = b2
      BY <1>b
    <3> QED
      BY <3>1, <1>b DEF Size
  <2>5. Blk(Sub(Start(1), 1)).cnt' = b1 - b2
    <3>1. Sub(Start(1), 1)' = y
      BY <2>s DEF Sub
    <3> QED
      BY <3>1, <2>3, <2>4 DEF Blk
  <2>6. c - b2 <= b1 - b2
    BY <1>b, <1>c
  <2> QED
    BY <2>s, <2>5, <2>6, <1>h, <1>c DEF CiFront
<1>3. CqesInOrder'
  <2>1. ASSUME NEW j \in Idx, Unread(j)', ~Ce(j).fd'
        PROVE  Owns(HeldReq + 1 + Sub(j, cqci), Ce(j).entry_idx)'
    <3>0. Sub(j, cqci) \in Nat
      BY SubType DEF IndInv, TypeOK
    <3>e. PICK e : e = Ce(j).entry_idx
      OBVIOUS
    <3>s. PICK s \in Nat : s = Sub(j, cqci)
      BY <3>0
    <3>1. s = Sub(j, cqci) /\ e = Ce(j).entry_idx
      BY <3>e, <3>s
    <3>2. Owns((s + 1) + 1, e)
      <4>1. Owns(HeldReq + 1 + s, e) /\ HeldReq + 1 + s = (s + 1) + 1
        BY <2>1, <3>1, <1>e, <1>u DEF FifoInv, CqesInOrder
      <4> QED
        BY <4>1
    <3>3. Owns(s + 1, e)'
      <4>1. PICK n \in Nat \ {0} : n = s + 1
        OBVIOUS
      <4>2. \A x : Owns(n, x)' <=> Owns(n + 1, x)
        BY <1>r
      <4>3. Owns(n + 1, e)
        BY <3>2, <4>1
      <4>4. Owns(n, e)'
        BY <4>2, <4>3
      <4> QED
        BY <4>1, <4>4
    <3>4. (HeldReq + 1 + Sub(j, cqci))' = s + 1 /\ Ce(j).entry_idx' = e
      BY <3>1, <1>h, <1>e
    <3> QED
      BY <3>3, <3>4 DEF Owns, Start, Back
  <2>2. Executed >= 1 /\ Executed \in Nat /\ Executed' = Executed - 1
    <3>1. LastFd' = LastFd
      BY <1>e DEF LastFd
    <3>2. /\ Sub(hwpi, cqci) \in Nat /\ LastFd \in {0, 1} /\ LastFd <= Sub(hwpi, cqci)
      BY UnreadCount
    <3> QED
      BY <3>1, <3>2, <1>u, <1>h DEF Executed
  <2>3. Executed' <= Len(outq')
    BY <2>2, <1>r, <1>u DEF FifoInv, CqesInOrder
  <2>4. hwci' = Start(Executed + 1)'
    <3>1. PICK n \in Nat \ {0} : n = Executed
      BY <2>2
    <3>2. Start(n)' = hwci
      BY <3>1, <1>r DEF FifoInv, CqesInOrder
    <3>3. (Executed + 1)' = n
      BY <3>1, <2>2
    <3> QED
      BY <3>2, <3>3 DEF Start
  <2>5. \A j \in Idx : Unread(j)' /\ Ce(j).fd' => hwState' = "done" /\ j = Sub(hwpi, 1)'
    BY <1>e DEF FifoInv, CqesInOrder
  <2> QED
    BY <2>1, <2>3, <2>4, <2>5, <1>h DEF CqesInOrder
<1>4. CtxRead'
  BY <1>h DEF CtxRead
<1> QED
  BY <1>1, <1>2, <1>3, <1>4, <1>r DEF FifoInv

\* The other steps of a poller leave the rings alone, or retire a request.
LEMMA PollQuietFifo ==
  ASSUME IndInv, FifoInv, NEW p \in Pollers,
         \/ \E want \in 1..CrCnt : PollLock(p, want)
         \/ PollStop(p) \/ PollReturn(p) \/ PollFlushDone(p)
         \/ PollUnknown(p) \/ PollRecord(p)
  PROVE  FifoInv'
<1>u. UNCHANGED <<pi, wrid, qbuf, hwci, hwpi, hwState, cqbuf, cqci>>
  BY DEF PollLock, PollStop, PollReturn, PollFlushDone, PollUnknown, PollRecord, sqVars, hwVars
<1>p. /\ poll'[p].pc \notin {"advance", "ctx", "finish"}
      /\ \A q \in Pollers : q # p => poll'[q] = poll[q]
  <2> USE DEF IndInv, TypeOK, PollLocals
  <2>1. ASSUME NEW want \in 1..CrCnt, PollLock(p, want)
        PROVE  poll'[p].pc = "take" /\ \A q \in Pollers : q # p => poll'[q] = poll[q]
    BY <2>1 DEF PollLock, PollIdle
  <2>2. CASE PollStop(p)
    BY <2>2 DEF PollStop
  <2>3. CASE PollReturn(p)
    BY <2>3 DEF PollReturn, PollIdle
  <2>4. CASE PollFlushDone(p)
    BY <2>4 DEF PollFlushDone
  <2>5. CASE PollUnknown(p)
    BY <2>5 DEF PollUnknown
  <2>6. CASE PollRecord(p)
    BY <2>6 DEF PollRecord
  <2> QED
    BY <2>1, <2>2, <2>3, <2>4, <2>5, <2>6
<1>h. /\ ~Holding(p)'
      /\ \A q \in Pollers : q # p => (Holding(q)' <=> Holding(q)) /\ poll'[q] = poll[q]
  BY <1>p DEF Holding
<1>1. CASE HasReq(p)
  <2>1. poll[p].pc = "finish" /\ (PollUnknown(p) \/ PollRecord(p))
    BY <1>1 DEF HasReq, Holding, PollLock, PollStop, PollReturn, PollFlushDone, PollUnknown,
                PollRecord
  <2>2. outq' = Tail(outq) /\ (ci' = ci \/ ci' = Add(ci, 1))
    BY <1>1, <2>1 DEF HasReq, PollUnknown, PollRecord
  <2>3. \A q \in Pollers : ~Holding(q)'
    <3>1. \A q \in Pollers : q # p => poll[q].pc = "idle"
      BY <2>1, SolePoller DEF IndInv
    <3> QED
      BY <3>1, <1>h DEF Holding
  <2> QED
    BY <1>1, <1>u, <2>1, <2>2, <2>3, RetireFifo
<1>2. CASE ~HasReq(p)
  <2>1. UNCHANGED <<ci, outq>>
    <3>1. ~PollRecord(p) /\ (PollUnknown(p) => CurrentCqe.fd)
      BY <1>2 DEF PollRecord, PollUnknown, HasReq, Holding
    <3> QED
      BY <3>1 DEF PollLock, PollStop, PollReturn, PollFlushDone, PollUnknown
  <2>2. /\ \A r \in Pollers : Holding(r)' => Holding(r)
        /\ \A r \in Pollers : HasReq(r) => Holding(r)' /\ poll'[r] = poll[r]
    BY <1>2, <1>h DEF HasReq
  <2> QED
    BY <1>u, <2>1, <2>2, FifoFrame
<1> QED
  BY <1>1, <1>2

\* Every step of a poller keeps the requests in order.
LEMMA PollFifo ==
  ASSUME IndInv, IndInv', FifoInv, NEW p \in Pollers, Poll(p)
  PROVE  FifoInv'
BY PollTakeFifo, PollAdvanceFifo, PollReadCtxFifo, PollQuietFifo DEF Poll, PollStep

\* At first there is no request and no CQE.
LEMMA InitFifo == Init => FifoInv
<1> SUFFICES ASSUME Init PROVE FifoInv
  OBVIOUS
<1>1. TypeOK /\ IndInv
  BY InitType, InitSafe
<1>2. outq = <<>> /\ Len(outq) = 0 /\ outq \in Seq(Idx)
  BY DEF Init
<1>3. pi = 0 /\ ci = 0 /\ hwci = 0 /\ hwpi = 0 /\ cqci = 0 /\ 0 \in Idx /\ Sub(0, 0) = 0
  BY OneIdx, SubZero DEF Init, InitSq, InitCq, InitHw
<1>4. \A p \in Pollers : ~Holding(p)
  BY DEF Init, InitCq, Holding, PollIdle
<1>5. HeldReq = 0 /\ ~Jumped /\ LastFd = 0 /\ Executed = 0
  BY <1>3, <1>4 DEF HeldReq, Jumped, HasReq, LastFd, Executed
<1>6. OutqOrder
  <2>1. 1..Len(outq) = {} /\ \A j, k \in 1..(Len(outq) + 1) : ~(j < k)
    BY <1>2
  <2> QED
    BY <2>1, <1>2 DEF OutqOrder
<1>7. BlocksKept
  BY <1>2 DEF BlocksKept
<1>8. Start(1) = 0 /\ Start(Executed + 1) = 0
  BY <1>2, <1>3, <1>5 DEF Start
<1>9. CiFront
  BY <1>3, <1>5, <1>8 DEF CiFront, Back
<1>10. CqesInOrder
  <2>1. \A j \in Idx : ~Unread(j)
    BY <1>3, SubType DEF Unread, Idx
  <2> QED
    BY <2>1, <1>2, <1>3, <1>4, <1>5, <1>8 DEF CqesInOrder, HasReq
<1>11. CtxRead
  BY <1>4 DEF CtxRead, HasReq
<1> QED
  BY <1>6, <1>7, <1>9, <1>10, <1>11 DEF FifoInv
----------------------------------------------------------------------------
(* Steps of the device *)

\* Until it reports flush done, each CQE the device wrote is that of a request.
LEMMA NoFlushYet ==
  ASSUME IndInv, FifoInv, hwState # "done"
  PROVE  /\ LastFd = 0
         /\ Executed = HeldReq + Sub(hwpi, cqci) /\ Executed \in Nat
         /\ \A j \in Idx : Unread(j) => ~Ce(j).fd
         /\ \A p \in Pollers : Holding(p) => ~CurrentCqe.fd
<1>1. /\ \A j \in Idx : Unread(j) => ~Ce(j).fd
      /\ \A p \in Pollers : Holding(p) => ~CurrentCqe.fd
  BY DEF FifoInv, CqesInOrder
<1>2. LastFd = 0
  BY <1>1, UnreadCount DEF LastFd
<1>3. Sub(hwpi, cqci) \in Nat /\ HeldReq \in {0, 1}
  BY UnreadCount
<1> QED
  BY <1>1, <1>2, <1>3 DEF Executed

\* A CQE for the next request, or the one of flush done, joins the unread ones.
LEMMA WriteCqeFifo ==
  ASSUME IndInv, FifoInv, hwState # "done",
         NEW entry \in Idx, NEW fd \in BOOLEAN, NEW status,
         WriteCqe(entry, fd, status), UNCHANGED cqVars,
         UNCHANGED <<pi, outq, wrid, qbuf>>,
         fd => hwState' = "done" /\ hwci' = hwci,
         ~fd => /\ Executed + 1 <= Len(outq)
                /\ Owns(Executed + 1, entry)
                /\ hwci' = Start(Executed + 2)
  PROVE  FifoInv'
<1>u. UNCHANGED <<ci, cqci, poll>> /\ hwpi' = Add(hwpi, 1)
  BY DEF cqVars, WriteCqe
<1>a. /\ cqbuf'[CqSlot(hwpi)].entry_idx = entry
      /\ cqbuf'[CqSlot(hwpi)].fd = fd
      /\ \A j \in Idx : Unread(j) => Ce(j)' = Ce(j) /\ j # hwpi
      /\ \A j \in Idx : Unread(j)' => Unread(j) \/ j = hwpi
      /\ \A p \in Pollers : Holding(p) => CurrentCqe' = CurrentCqe
  BY WriteCqeApart DEF IndInv
<1>n. PICK U \in Nat, H \in {0, 1} :
        /\ U = Sub(hwpi, cqci) /\ H = HeldReq /\ Executed = H + U /\ LastFd = 0
        /\ \A j \in Idx : Unread(j) => ~Ce(j).fd
        /\ \A p \in Pollers : Holding(p) => ~CurrentCqe.fd
  BY NoFlushYet, UnreadCount
<1>h. /\ HeldReq' = H /\ (Jumped' <=> Jumped)
      /\ \A p \in Pollers : (Holding(p)' <=> Holding(p)) /\ (HasReq(p)' <=> HasReq(p))
  <2>1. \A p \in Pollers : (Holding(p)' <=> Holding(p)) /\ (HasReq(p)' <=> HasReq(p))
    BY <1>a, <1>u DEF Holding, HasReq
  <2> QED
    BY <2>1, <1>u, <1>n DEF HeldReq, Jumped
<1>i. /\ hwpi \in Idx /\ cqci \in Idx /\ hwpi' \in Idx
      /\ Sub(hwpi', cqci) = U + 1 /\ Sub(hwpi', 1) = hwpi /\ hwpi' # cqci
  <2>1. /\ hwpi \in Idx /\ cqci \in Idx /\ U <= CqEntries /\ CqEntries \in Nat
        /\ 2 * CqEntries <= IdxMod /\ CqEntries >= 1 /\ IdxMod \in Nat
    BY <1>n, UnreadCount, IdxModBounds
  <2>2. U + 1 < IdxMod
    <3>1. Taken < CqEntries /\ U <= Taken /\ Taken \in Nat
      BY <1>n, UnreadCount DEF WriteCqe
    <3> QED
      BY <3>1, <2>1
  <2>3. hwpi' \in Idx /\ Sub(hwpi', cqci) = U + 1
    BY <2>1, <2>2, <1>n, <1>u, SubAdvance, OneIdx
  <2>4. Sub(hwpi', 1) = hwpi
    BY <2>1, <1>u, StepBack
  <2>5. hwpi' # cqci
    BY <2>1, <2>3, SubZero
  <2> QED
    BY <2>1, <2>3, <2>4, <2>5
<1>l. LastFd' = IF fd THEN 1 ELSE 0
  BY <1>i, <1>a, <1>u DEF LastFd, Ce
<1>x. Executed' = IF fd THEN Executed ELSE Executed + 1
  <2>1. Executed' = H + (U + 1) - LastFd'
    BY <1>h, <1>i, <1>u DEF Executed
  <2> QED
    BY <2>1, <1>l, <1>n
<1>1. OutqOrder' /\ BlocksKept'
  BY <1>u, OutqFrame, BlocksFrame DEF FifoInv
<1>2. CiFront'
  <2>1. \A x : Blk(x)' = Blk(x)
    BY DEF Blk
  <2> QED
    BY <2>1, <1>h, <1>u, OutqFrame DEF FifoInv, CiFront
<1>3. CtxRead'
  BY <1>h, <1>u, OutqFrame DEF FifoInv, CtxRead
<1>4. CqesInOrder'
  <2>1. \A p \in Pollers : HasReq(p)' => Owns(1, CurrentCqe.entry_idx)'
    <3> SUFFICES ASSUME NEW p \in Pollers, HasReq(p)
                 PROVE  Owns(1, CurrentCqe.entry_idx)'
      BY <1>h
    <3>1. PICK e : e = CurrentCqe.entry_idx /\ e = CurrentCqe.entry_idx' /\ Owns(1, e)
      BY <1>a DEF HasReq, FifoInv, CqesInOrder
    <3> QED
      BY <3>1, OutqFrame DEF Owns, Start, Back
  <2>2. ASSUME NEW j \in Idx, Unread(j)', ~Ce(j).fd'
        PROVE  Owns(HeldReq + 1 + Sub(j, cqci), Ce(j).entry_idx)'
    <3>1. CASE Unread(j)
      <4>1. PICK e, k : /\ e = Ce(j).entry_idx /\ e = Ce(j).entry_idx'
                        /\ k = H + 1 + Sub(j, cqci) /\ Owns(k, e)
        BY <2>2, <3>1, <1>a, <1>n DEF FifoInv, CqesInOrder
      <4>2. (HeldReq + 1 + Sub(j, cqci))' = k
        BY <4>1, <1>h, <1>u
      <4> QED
        BY <4>1, <4>2, OutqFrame DEF Owns, Start, Back
    <3>2. CASE j = hwpi
      <4>1. Ce(j).entry_idx' = entry /\ ~fd
        BY <3>2, <2>2, <1>a DEF Ce
      <4>2. PICK k : k = Executed + 1 /\ Owns(k, entry)
        BY <4>1
      <4>3. (HeldReq + 1 + Sub(j, cqci))' = k
        <5>1. (HeldReq + 1 + Sub(j, cqci))' = H + 1 + U
          BY <3>2, <1>h, <1>u, <1>n
        <5> QED
          BY <5>1, <4>2, <1>n
      <4> QED
        BY <4>1, <4>2, <4>3, OutqFrame DEF Owns, Start, Back
    <3> QED
      BY <3>1, <3>2, <2>2, <1>a
  <2>3. \A j \in Idx : Unread(j)' /\ Ce(j).fd' => hwState' = "done" /\ j = Sub(hwpi, 1)'
    <3> SUFFICES ASSUME NEW j \in Idx, Unread(j)', Ce(j).fd'
                 PROVE  hwState' = "done" /\ j = Sub(hwpi, 1)'
      OBVIOUS
    <3>1. j = hwpi
      BY <1>a, <1>n
    <3>2. fd
      BY <3>1, <1>a DEF Ce
    <3> QED
      BY <3>1, <3>2, <1>i
  <2>4. \A p \in Pollers : Holding(p)' /\ CurrentCqe.fd' => hwState' = "done" /\ cqci' = hwpi'
    BY <1>a, <1>h, <1>n
  <2>5. Executed' <= Len(outq') /\ hwci' = Start(Executed + 1)'
    <3>1. CASE fd
      BY <3>1, <1>x DEF FifoInv, CqesInOrder, Start
    <3>2. CASE ~fd
      <4>1. Executed + 1 + 1 = Executed + 2
        BY <1>n
      <4> QED
        BY <3>2, <4>1, <1>x DEF Start
    <3> QED
      BY <3>1, <3>2
  <2> QED
    BY <2>1, <2>2, <2>3, <2>4, <2>5 DEF CqesInOrder
<1> QED
  BY <1>1, <1>2, <1>3, <1>4 DEF FifoInv

\* Executing the next WQE: it is the first request without a CQE.
LEMMA DevCompleteFifo ==
  ASSUME IndInv, FifoInv, NEW status, DevComplete(status)
  PROVE  FifoInv'
<1>u. /\ hwState # "done" /\ hwci # db
      /\ UNCHANGED <<pi, outq, wrid, qbuf>> /\ UNCHANGED cqVars
      /\ pi \in Idx /\ hwci \in Idx /\ db \in Idx /\ ci \in Idx
      /\ TypeOK /\ OutqOrder
  BY DEF DevComplete, sqVars, IndInv, TypeOK, FifoInv
<1>w. PICK w \in Wqe :
        /\ w = NextWqe /\ w = Blk(hwci)
        /\ w.cnt \in Nat /\ w.cnt >= 1
        /\ Ahead(hwci) + w.cnt <= Ahead(db)
  BY <1>u, NextWqeWhole DEF Tile
<1>n. PICK E \in Nat : E = Executed /\ hwci = Start(E + 1)
  BY <1>u, NoFlushYet DEF FifoInv, CqesInOrder
<1>b. Back(hwci) \in Nat /\ Back(hwci) >= 1 /\ Back(hwci) <= Back(ci)
  <2>1. /\ Ahead(hwci) \in Nat /\ Ahead(db) \in Nat /\ Ahead(pi) \in Nat
        /\ Ahead(db) <= Ahead(pi)
    BY <1>u, Distances DEF IndInv, SqOrder
  <2>2. Ahead(hwci) < Ahead(pi)
    BY <2>1, <1>w
  <2>3. Back(hwci) = Ahead(pi) - Ahead(hwci)
    BY <2>1, <2>2, <1>u, BackAhead
  <2> QED
    BY <2>1, <2>2, <2>3, <1>u, BackFacts
<1>k. E + 1 \in 1..Len(outq) /\ E + 2 \in 1..(Len(outq) + 1) /\ Len(outq) \in Nat
  <2>1. Len(outq) \in Nat /\ E + 1 \in Nat \ {0}
    BY <1>u, StartFacts
  <2>2. ~(E + 1 > Len(outq))
    BY <2>1, <1>u, <1>n, <1>b, StartFacts
  <2> QED
    BY <2>1, <2>2
<1>s. PICK s \in Nat : s = Back(Start(E + 2)) /\ s < Back(hwci) /\ Start(E + 2) \in Idx
  <2>1. E + 1 \in 1..(Len(outq) + 1) /\ E + 1 < E + 2 /\ E + 2 \in Nat \ {0}
    BY <1>k
  <2>2. Back(Start(E + 2)) < Back(Start(E + 1))
    BY <2>1, <1>k, <1>u DEF OutqOrder
  <2> QED
    BY <2>1, <2>2, <1>n, <1>u, StartFacts
<1>z. w.cnt = Back(hwci) - s
  <2>1. E + 1 + 1 = E + 2
    OBVIOUS
  <2>2. Owns(E + 1, hwci)
    BY <2>1, <1>s, <1>n, <1>b DEF Owns
  <2>3. Blk(hwci) = [label |-> outq[E + 1], cnt |-> Size(E + 1)]
    BY <2>2, <1>b, <1>k, <1>u DEF FifoInv, BlocksKept
  <2>4. Size(E + 1) = Back(hwci) - s
    BY <2>1, <1>s, <1>n DEF Size
  <2> QED
    BY <2>3, <2>4, <1>w
<1>1. PICK i \in 0..(w.cnt - 1) : WriteCqe(Add(hwci, i), FALSE, status)
  BY <1>w DEF DevComplete
<1>2. PICK e \in Idx : e = Add(hwci, i) /\ Back(e) = Back(hwci) - i
  <2>1. i \in Nat /\ i <= Back(hwci)
    BY <1>1, <1>w, <1>z, <1>s, <1>b
  <2> QED
    BY <2>1, <1>u, SubRebase DEF Back
<1>3. Owns(E + 1, e)
  <2>1. E + 1 + 1 = E + 2
    OBVIOUS
  <2>2. s < Back(e) /\ Back(e) <= Back(hwci)
    BY <1>1, <1>2, <1>z, <1>s, <1>b, <1>w
  <2> QED
    BY <2>1, <2>2, <1>s, <1>n DEF Owns
<1>4. hwci' = Start(E + 2)
  <2>1. hwci' = Add(hwci, w.cnt)
    BY <1>w DEF DevComplete
  <2>2. w.cnt <= Back(hwci)
    BY <1>z, <1>s, <1>b
  <2>3. hwci' \in Idx /\ Back(hwci') = s
    <3>1. Add(hwci, w.cnt) \in Idx /\ Sub(pi, Add(hwci, w.cnt)) = Sub(pi, hwci) - w.cnt
      BY <2>2, <1>w, <1>u, SubRebase DEF Back
    <3>2. Sub(pi, hwci) - w.cnt = s
      BY <1>z, <1>s, <1>b DEF Back
    <3> QED
      BY <3>1, <3>2, <2>1 DEF Back
  <2> QED
    BY <2>3, <1>s, <1>u, BackFacts
<1> QED
  <2>1. WriteCqe(e, FALSE, status)
    BY <1>1, <1>2
  <2>2. Executed + 1 <= Len(outq)
    BY <1>n, <1>k
  <2>3. Owns(Executed + 1, e) /\ hwci' = Start(Executed + 2)
    BY <1>3, <1>4, <1>n
  <2> QED
    BY <2>1, <2>2, <2>3, <1>u, WriteCqeFifo

\* Every step of the device keeps the requests in order.
LEMMA DeviceFifo ==
  ASSUME IndInv, FifoInv, Device
  PROVE  FifoInv'
<1>1. CASE DevError
  <2>1. UNCHANGED <<pi, ci, outq, wrid, qbuf, hwci, hwpi, cqbuf, cqci, poll>>
        /\ hwState # "done"
    BY <1>1 DEF DevError, sqVars, cqVars
  <2>2. \A r \in Pollers : Holding(r)' <=> Holding(r)
    BY <2>1 DEF Holding
  <2> QED
    BY <2>1, <2>2, FifoFrame DEF HasReq
<1>2. CASE DevFlushDone
  <2>1. /\ UNCHANGED <<pi, outq, wrid, qbuf>> /\ UNCHANGED cqVars
        /\ hwState # "done" /\ hwState' = "done" /\ hwci' = hwci /\ hwci \in Idx
        /\ WriteCqe(hwci, TRUE, "known")
    BY <1>2 DEF DevFlushDone, sqVars, IndInv, TypeOK
  <2>2. PICK e \in Idx, fd \in BOOLEAN : e = hwci /\ fd = TRUE
    BY <2>1
  <2>3. WriteCqe(e, fd, "known")
    BY <2>1, <2>2
  <2> QED
    BY <2>1, <2>2, <2>3, WriteCqeFifo
<1> QED
  BY <1>1, <1>2, DevCompleteFifo DEF Device
----------------------------------------------------------------------------
(* Steps of a poster *)

\* Steps of a poster that do not touch the ring.
LEMMA PostQuietFifo ==
  ASSUME FifoInv, NEW p \in Posters,
         \/ \E cnt \in WrSizes \cup {0} : PostLock(p, cnt)
         \/ PostInvalid(p) \/ PostOverflow(p) \/ PostCheck(p) \/ PostRing(p)
  PROVE  FifoInv'
<1>1. UNCHANGED <<pi, ci, outq, wrid, qbuf, hwci, hwpi, hwState, cqbuf, cqci, poll>>
  BY DEF PostLock, PostInvalid, PostOverflow, PostCheck, PostRing, hwVars, cqVars
<1>2. \A r \in Pollers : Holding(r)' <=> Holding(r)
  BY <1>1 DEF Holding
<1> QED
  BY <1>1, <1>2, FifoFrame DEF HasReq

\* The blocks a poster writes are apart from those between ci and pi.
LEMMA CopyBehind ==
  ASSUME TypeOK, NEW cnt \in Nat, Ahead(pi) + cnt <= SqBlocks,
         NEW x \in Idx, Back(x) >= 1, Back(x) <= Back(ci)
  PROVE  SqSlot(x) \notin Blocks(pi, cnt)
<1> SUFFICES ASSUME NEW i \in 0..(cnt - 1)
             PROVE  SqSlot(x) # SqSlot(Add(pi, i))
  BY DEF Blocks
<1>1. /\ pi \in Idx /\ i \in Nat /\ i < cnt /\ Back(x) \in Nat /\ Back(ci) \in Nat
      /\ Back(ci) = Ahead(pi)
      /\ SqBlocks \in Nat /\ IdxMod \in Nat /\ 2 * SqBlocks <= IdxMod
  BY BackFacts, IdxModBounds
<1>2. Back(x) + i < SqBlocks /\ Back(x) + i < IdxMod
  BY <1>1
<1>3. Add(pi, i) \in Idx /\ Sub(Add(pi, i), x) = Back(x) + i
  BY <1>1, <1>2, SubAdvance DEF Back
<1>4. Add(pi, i) # x
  <2>1. Sub(Add(pi, i), x) # 0
    BY <1>1, <1>3
  <2> QED
    BY <2>1, <1>3, SubZero
<1> QED
  BY <1>2, <1>3, <1>4, SqSlotApart

\* What a poster that has passed the overflow check knows of its request.
LEMMA PostRoom ==
  ASSUME IndInv, NEW p \in Posters, post[p].pc \in {"copy", "publish"}
  PROVE  /\ post[p].cnt \in Nat /\ post[p].cnt >= 1
         /\ Ahead(pi) + post[p].cnt <= SqBlocks
<1>1. post[p].cnt \in WrSizes \cup {0}
  BY DEF IndInv, TypeOK, PostLocals
<1> QED
  BY <1>1, WrSizeBounds DEF IndInv, PostInv

\* Copying a request: the blocks of the others are kept.
LEMMA PostCopyFifo ==
  ASSUME IndInv, FifoInv, NEW p \in Posters, PostCopy(p)
  PROVE  FifoInv'
<1>u. /\ UNCHANGED <<pi, ci, outq, wrid, hwci, hwpi, hwState, cqbuf, cqci, poll>>
      /\ TypeOK /\ OutqOrder
  BY DEF PostCopy, hwVars, cqVars, IndInv, FifoInv
<1>c. PICK cnt \in Nat : cnt = post[p].cnt /\ Ahead(pi) + cnt <= SqBlocks
  BY PostRoom DEF PostCopy
<1>b. ASSUME NEW x \in Idx, Back(x) >= 1, Back(x) <= Back(ci)
      PROVE  Blk(x)' = Blk(x)
  <2>1. SqSlot(x) \notin Blocks(pi, cnt)
    BY <1>b, <1>u, <1>c, CopyBehind
  <2>2. SqSlot(x) \in SqSlots
    BY SqSlotType
  <2> QED
    BY <2>1, <2>2, <1>c DEF PostCopy, Blk
<1>h. /\ HeldReq' = HeldReq /\ (Jumped' <=> Jumped) /\ Executed' = Executed
      /\ CurrentCqe' = CurrentCqe
      /\ \A j : Ce(j)' = Ce(j) /\ (Unread(j)' <=> Unread(j))
      /\ \A q \in Pollers : (Holding(q)' <=> Holding(q)) /\ (HasReq(q)' <=> HasReq(q))
  BY <1>u DEF HeldReq, Jumped, Executed, LastFd, CurrentCqe, Ce, Unread, Holding, HasReq
<1>1. OutqOrder'
  BY <1>u, OutqFrame
<1>2. BlocksKept'
  <2> SUFFICES ASSUME NEW k \in 1..Len(outq), NEW x \in Idx, Owns(k, x), Back(x) <= Back(ci)
               PROVE  /\ wrid[SqSlot(x)] = outq[k]
                      /\ Blk(x)' = [label |-> outq[k], cnt |-> Size(k)]
    BY <1>u, OutqFrame DEF BlocksKept
  <2>1. Back(x) >= 1
    <3>1. Back(x) \in Nat /\ Back(Start(k + 1)) \in Nat
      BY <1>u, BackFacts, StartFacts
    <3> QED
      BY <3>1 DEF Owns
  <2> QED
    BY <2>1, <1>b DEF FifoInv, BlocksKept
<1>3. CiFront'
  <2>1. ~Jumped /\ Start(1) # ci => Blk(Sub(Start(1), 1))' = Blk(Sub(Start(1), 1))
    <3> SUFFICES ASSUME ~Jumped, Start(1) # ci
                 PROVE  Blk(Sub(Start(1), 1))' = Blk(Sub(Start(1), 1))
      OBVIOUS
    <3>1. /\ Start(1) \in Idx /\ ci \in Idx /\ pi \in Idx
          /\ Back(Start(1)) \in Nat /\ Back(ci) \in Nat /\ Back(ci) < IdxMod
          /\ IdxMod \in Nat
      BY <1>u, StartFacts, BackFacts
    <3>2. Back(Start(1)) < Back(ci)
      <4>1. Back(Start(1)) <= Back(ci) /\ Back(Start(1)) # Back(ci)
        BY <3>1, <1>u, BackFacts DEF FifoInv, CiFront
      <4> QED
        BY <3>1, <4>1
    <3>3. PICK y \in Idx : y = Sub(Start(1), 1)
      BY <3>1, StepBack
    <3>4. Back(y) = Back(Start(1)) + 1
      BY <3>1, <3>2, <3>3 DEF Back, Sub, Idx
    <3>5. Blk(y)' = Blk(y)
      BY <3>1, <3>2, <3>4, <1>b
    <3>6. Sub(Start(1), 1)' = y
      BY <3>3, <1>u DEF Start, Sub
    <3> QED
      BY <3>3, <3>5, <3>6 DEF Blk
  <2> QED
    BY <2>1, <1>u, <1>h, OutqFrame DEF FifoInv, CiFront
<1>4. CqesInOrder'
  <2>1. \A q \in Pollers : HasReq(q)' => Owns(1, CurrentCqe.entry_idx)'
    BY <1>h, <1>u, OutqFrame DEF FifoInv, CqesInOrder
  <2>2. \A j \in Idx : Unread(j)' /\ ~Ce(j).fd'
                         => Owns(HeldReq + 1 + Sub(j, cqci), Ce(j).entry_idx)'
    BY <1>h, <1>u DEF FifoInv, CqesInOrder, Owns, Back, Start
  <2>3. \A j \in Idx : Unread(j)' /\ Ce(j).fd' => hwState' = "done" /\ j = Sub(hwpi, 1)'
    BY <1>h, <1>u DEF FifoInv, CqesInOrder
  <2>4. \A q \in Pollers : Holding(q)' /\ CurrentCqe.fd' => hwState' = "done" /\ cqci' = hwpi'
    BY <1>h, <1>u DEF FifoInv, CqesInOrder
  <2>5. Executed' <= Len(outq') /\ hwci' = Start(Executed + 1)'
    BY <1>h, <1>u DEF FifoInv, CqesInOrder, Start
  <2> QED
    BY <2>1, <2>2, <2>3, <2>4, <2>5 DEF CqesInOrder
<1>5. CtxRead'
  BY <1>h, <1>u, OutqFrame DEF FifoInv, CtxRead
<1> QED
  BY <1>1, <1>2, <1>3, <1>4, <1>5 DEF FifoInv

\* Only outstanding requests own blocks.
LEMMA OwnerOutstanding ==
  ASSUME TypeOK, OutqOrder, NEW k \in Nat \ {0}, NEW x \in Idx, Owns(k, x)
  PROVE  k \in 1..Len(outq) /\ Back(x) >= 1
<1>1. /\ Back(x) \in Nat /\ Back(Start(k + 1)) \in Nat /\ k + 1 \in Nat \ {0}
      /\ Len(outq) \in Nat
  BY BackFacts, StartFacts
<1>2. Back(x) >= 1
  BY <1>1 DEF Owns
<1>3. k > Len(outq) => Back(Start(k)) = 0
  BY StartFacts
<1>4. ~(k > Len(outq))
  BY <1>1, <1>2, <1>3 DEF Owns
<1> QED
  BY <1>1, <1>2, <1>4

\* The outstanding requests, with the blocks of the first one that ci may have
\* passed, take less than two rings.
LEMMA OldestBound ==
  ASSUME IndInv, FifoInv, NEW k \in 1..(Len(outq) + 1)
  PROVE  Back(Start(k)) < Back(ci) + SqBlocks
<1>u. /\ TypeOK /\ OutqOrder /\ Len(outq) \in Nat /\ SqBlocks \in Nat /\ SqBlocks >= 1
      /\ k \in Nat \ {0}
      /\ Back(ci) \in Nat /\ Back(Start(1)) \in Nat /\ Back(Start(2)) \in Nat
      /\ Back(Start(k)) \in Nat
  BY BackFacts, StartFacts, IdxModBounds DEF IndInv, FifoInv
<1>1. Back(Start(k)) <= Back(Start(1))
  <2>1. CASE k = 1
    BY <2>1, <1>u
  <2>2. CASE k # 1
    <3>1. 1 \in 1..(Len(outq) + 1) /\ 1 < k
      BY <2>2, <1>u
    <3>2. Back(Start(k)) < Back(Start(1))
      BY <3>1, <1>u DEF OutqOrder
    <3> QED
      BY <3>2, <1>u
  <2> QED
    BY <2>1, <2>2
<1>2. Back(Start(1)) < Back(ci) + SqBlocks
  <2>1. CASE ~Jumped
    BY <2>1, <1>u DEF FifoInv, CiFront
  <2>2. CASE Jumped
    <3>1. Owns(1, ci) /\ ci \in Idx
      BY <2>2, <1>u, BackFacts DEF FifoInv, CiFront
    <3>2. 1 \in 1..Len(outq)
      BY <3>1, <1>u, OwnerOutstanding
    <3>3. Size(1) <= SqBlocks
      BY <3>2, <1>u DEF OutqOrder
    <3>4. Size(1) = Back(Start(1)) - Back(Start(2)) /\ Back(Start(2)) < Back(ci)
      BY <3>1 DEF Size, Owns
    <3> QED
      BY <3>3, <3>4, <1>u
  <2> QED
    BY <2>1, <2>2
<1> QED
  BY <1>1, <1>2, <1>u

\* A request of cnt blocks joins the outstanding ones behind the others.
LEMMA AppendStart ==
  ASSUME IndInv, FifoInv, NEW cnt \in Nat, cnt >= 1, Ahead(pi) + cnt <= SqBlocks,
         pi' = Add(pi, cnt), outq' = Append(outq, pi)
  PROVE  /\ Len(outq') = Len(outq) + 1 /\ outq' \in Seq(Idx)
         /\ \A k \in 1..(Len(outq) + 1) : /\ Start(k)' = Start(k)
                                          /\ Back(Start(k))' = Back(Start(k)) + cnt
                                          /\ outq'[k] = Start(k)
         /\ \A k \in Nat : k > Len(outq) + 1 => Back(Start(k))' = 0
         /\ \A x \in Idx : Back(x)' \in Nat
         /\ \A x \in Idx : Back(x) + cnt < IdxMod => Back(x)' = Back(x) + cnt
         /\ \A x \in Idx : Back(x) + cnt >= IdxMod => Back(x)' < cnt
<1>u. /\ TypeOK /\ OutqOrder /\ outq \in Seq(Idx) /\ Len(outq) \in Nat
      /\ pi \in Idx /\ IdxMod \in Nat /\ SqBlocks \in Nat /\ 2 * SqBlocks <= IdxMod
      /\ Back(ci) = Ahead(pi) /\ Back(ci) \in Nat
  BY BackFacts, IdxModBounds DEF IndInv, FifoInv, OutqOrder
<1>1. /\ Len(outq') = Len(outq) + 1 /\ outq' \in Seq(Idx)
      /\ \A k \in 1..Len(outq) : outq'[k] = outq[k]
      /\ outq'[Len(outq) + 1] = pi
  BY <1>u
<1>2. \A k \in 1..(Len(outq) + 1) : Start(k)' = Start(k) /\ outq'[k] = Start(k)
  <2> SUFFICES ASSUME NEW k \in 1..(Len(outq) + 1)
               PROVE  Start(k)' = Start(k) /\ outq'[k] = Start(k)
    OBVIOUS
  <2>1. CASE k \in 1..Len(outq)
    BY <2>1, <1>1, <1>u DEF Start
  <2>2. CASE k = Len(outq) + 1
    BY <2>2, <1>1, <1>u DEF Start
  <2> QED
    BY <2>1, <2>2, <1>u
<1>3. /\ \A x \in Idx : Back(x)' \in Nat
      /\ \A x \in Idx : Back(x) + cnt < IdxMod => Back(x)' = Back(x) + cnt
      /\ \A x \in Idx : Back(x) + cnt >= IdxMod => Back(x)' < cnt
  <2>1. cnt <= IdxMod
    BY <1>u
  <2> QED
    BY <2>1, <1>u DEF Back, Sub, Add, Idx
<1>4. ASSUME NEW k \in 1..(Len(outq) + 1)
      PROVE  Back(Start(k))' = Back(Start(k)) + cnt
  <2>1. PICK x \in Idx : x = Start(k) /\ x = Start(k)'
    BY <1>2, <1>u, StartFacts
  <2>2. Back(x) < Back(ci) + SqBlocks /\ Back(x) \in Nat
    BY <2>1, <1>u, OldestBound, BackFacts
  <2>3. Back(x)' = Back(x) + cnt
    BY <2>2, <1>3, <1>u
  <2> QED
    BY <2>1, <2>3 DEF Back
<1>5. ASSUME NEW k \in Nat, k > Len(outq) + 1
      PROVE  Back(Start(k))' = 0
  <2>1. Start(k)' = pi'
    BY <1>5, <1>1, <1>u DEF Start
  <2>2. Sub(pi, pi)' = 0
    BY <1>u DEF Sub, Add, Idx
  <2> QED
    BY <2>1, <2>2 DEF Back
<1> QED
  BY <1>1, <1>2, <1>3, <1>4, <1>5

\* The blocks of the earlier requests stay theirs.
LEMMA AppendOwns ==
  ASSUME IndInv, FifoInv, NEW cnt \in Nat, cnt >= 1, Ahead(pi) + cnt <= SqBlocks,
         pi' = Add(pi, cnt), outq' = Append(outq, pi),
         NEW k \in 1..Len(outq)
  PROVE  /\ Size(k)' = Size(k)
         /\ \A x \in Idx : Owns(k, x) => Back(x)' = Back(x) + cnt
         /\ \A x \in Idx : Owns(k, x)' <=> Owns(k, x)
<1>u. /\ TypeOK /\ OutqOrder /\ Len(outq) \in Nat /\ k \in Nat \ {0} /\ k + 1 \in Nat \ {0}
      /\ k \in 1..(Len(outq) + 1) /\ k + 1 \in 1..(Len(outq) + 1)
      /\ IdxMod \in Nat /\ SqBlocks \in Nat /\ 2 * SqBlocks <= IdxMod
      /\ Back(ci) = Ahead(pi) /\ Back(ci) \in Nat
  BY BackFacts, IdxModBounds DEF IndInv, FifoInv, OutqOrder
<1>1. PICK a \in Nat, b \in Nat :
        /\ a = Back(Start(k)) /\ b = Back(Start(k + 1)) /\ a < Back(ci) + SqBlocks
  BY <1>u, StartFacts, OldestBound
<1>2. Back(Start(k))' = a + cnt /\ Back(Start(k + 1))' = b + cnt
  BY <1>1, <1>u, AppendStart
<1>3. Size(k)' = Size(k)
  BY <1>1, <1>2 DEF Size
<1>4. ASSUME NEW x \in Idx
      PROVE  /\ Owns(k, x) => Back(x)' = Back(x) + cnt
             /\ Owns(k, x)' <=> Owns(k, x)
  <2>1. /\ Back(x) \in Nat /\ Back(x)' \in Nat
        /\ Back(x) + cnt < IdxMod => Back(x)' = Back(x) + cnt
        /\ Back(x) + cnt >= IdxMod => Back(x)' < cnt
    BY <1>u, BackFacts, AppendStart
  <2>2. /\ Owns(k, x) <=> b < Back(x) /\ Back(x) <= a
        /\ Owns(k, x)' <=> b + cnt < Back(x)' /\ Back(x)' <= a + cnt
    BY <1>1, <1>2 DEF Owns
  <2>3. CASE Back(x) + cnt < IdxMod
    BY <2>1, <2>2, <2>3, <1>1
  <2>4. CASE Back(x) + cnt >= IdxMod
    <3>1. ~(Back(x) <= a) /\ ~(b + cnt < Back(x)')
      BY <2>1, <2>4, <1>1, <1>u
    <3> QED
      BY <3>1, <2>2
  <2> QED
    BY <2>1, <2>3, <2>4, <1>u
<1> QED
  BY <1>3, <1>4

\* Publishing a request: it is the last one, its blocks hold its WQE and its
\* user_ctx, and the others keep theirs.
LEMMA PostPublishFifo ==
  ASSUME IndInv, FifoInv, NEW p \in Posters, PostPublish(p)
  PROVE  FifoInv'
<1>u. /\ UNCHANGED <<ci, qbuf, hwci, hwpi, hwState, cqbuf, cqci, poll>>
      /\ TypeOK /\ OutqOrder /\ Len(outq) \in Nat /\ pi \in Idx /\ ci \in Idx
      /\ IdxMod \in Nat /\ SqBlocks \in Nat /\ 2 * SqBlocks <= IdxMod
      /\ Back(ci) = Ahead(pi) /\ Back(ci) \in Nat
  BY BackFacts, IdxModBounds DEF PostPublish, hwVars, cqVars, IndInv, FifoInv, OutqOrder
<1>c. PICK cnt \in Nat :
        /\ cnt = post[p].cnt /\ cnt >= 1 /\ Ahead(pi) + cnt <= SqBlocks
        /\ pi' = Add(pi, cnt) /\ outq' = Append(outq, pi)
        /\ wrid' = [s \in SqSlots |-> IF s \in Blocks(pi, cnt) THEN pi ELSE wrid[s]]
        /\ \A i \in 0..(cnt - 1) : Blk(Add(pi, i)) = [label |-> pi, cnt |-> cnt]
  BY PostRoom DEF PostPublish, IndInv, PostInv
<1>s. /\ Len(outq') = Len(outq) + 1 /\ outq' \in Seq(Idx)
      /\ \A k \in 1..(Len(outq) + 1) : /\ Start(k)' = Start(k)
                                       /\ Back(Start(k))' = Back(Start(k)) + cnt
                                       /\ outq'[k] = Start(k)
      /\ \A k \in Nat : k > Len(outq) + 1 => Back(Start(k))' = 0
      /\ \A x \in Idx : Back(x)' \in Nat
      /\ \A x \in Idx : Back(x) + cnt < IdxMod => Back(x)' = Back(x) + cnt
      /\ \A x \in Idx : Back(x) + cnt >= IdxMod => Back(x)' < cnt
  BY <1>c, AppendStart
<1>o. ASSUME NEW k \in 1..Len(outq)
      PROVE  /\ Size(k)' = Size(k)
             /\ \A x \in Idx : Owns(k, x) => Back(x)' = Back(x) + cnt
             /\ \A x \in Idx : Owns(k, x)' <=> Owns(k, x)
  BY <1>c, AppendOwns
<1>m. PICK m \in Nat \ {0} :
        /\ m = Len(outq) + 1 /\ m = Len(outq')
        /\ m \in 1..(Len(outq) + 1) /\ m + 1 > Len(outq) + 1
        /\ \A k \in 1..Len(outq') : k \in 1..Len(outq) \/ k = m
  <2>1. Len(outq') = Len(outq) + 1 /\ Len(outq) \in Nat
    BY <1>s, <1>u
  <2> QED
    BY <2>1
<1>l. /\ Back(Start(m))' = cnt /\ Back(Start(m + 1))' = 0 /\ Size(m)' = cnt
      /\ outq'[m] = pi
  <2>1. Back(Start(m)) = 0 /\ Start(m) = pi
    BY <1>m, <1>u, StartFacts
  <2>2. Back(Start(m))' = cnt /\ outq'[m] = pi
    BY <2>1, <1>m, <1>s
  <2>3. Back(Start(m + 1))' = 0
    BY <1>m, <1>s
  <2> QED
    BY <2>2, <2>3 DEF Size
<1>b. Back(ci)' = Back(ci) + cnt
  BY <1>u, <1>c, <1>s
<1>h. /\ HeldReq' = HeldReq /\ (Jumped' <=> Jumped) /\ Executed' = Executed
      /\ CurrentCqe' = CurrentCqe
      /\ \A j : Ce(j)' = Ce(j) /\ Blk(j)' = Blk(j) /\ (Unread(j)' <=> Unread(j))
      /\ \A q \in Pollers : (Holding(q)' <=> Holding(q)) /\ (HasReq(q)' <=> HasReq(q))
  BY <1>u DEF HeldReq, Jumped, Executed, LastFd, CurrentCqe, Ce, Blk, Unread, Holding, HasReq
<1>1. OutqOrder'
  <2>1. ASSUME NEW j \in 1..(Len(outq') + 1), NEW k \in 1..(Len(outq') + 1), j < k
        PROVE  Back(Start(k))' < Back(Start(j))'
    <3>1. j \in 1..(Len(outq) + 1) /\ Back(Start(j)) \in Nat /\ j \in Nat \ {0}
      BY <2>1, <1>m, <1>u, StartFacts
    <3>2. Back(Start(j))' = Back(Start(j)) + cnt
      BY <3>1, <1>s
    <3>3. CASE k \in 1..(Len(outq) + 1)
      <4>1. Back(Start(k)) < Back(Start(j)) /\ Back(Start(k)) \in Nat
        BY <2>1, <3>1, <3>3, <1>u, StartFacts DEF OutqOrder
      <4>2. Back(Start(k))' = Back(Start(k)) + cnt
        BY <3>3, <1>s
      <4> QED
        BY <3>1, <3>2, <4>1, <4>2
    <3>4. CASE k = m + 1
      BY <3>1, <3>2, <3>4, <1>l, <1>c
    <3> QED
      BY <3>3, <3>4, <1>m, <1>u
  <2>2. ASSUME NEW k \in 1..Len(outq')
        PROVE  Size(k)' <= SqBlocks
    <3>1. CASE k \in 1..Len(outq)
      BY <3>1, <1>o, <1>u DEF OutqOrder
    <3>2. CASE k = m
      BY <3>2, <1>l, <1>c, <1>u
    <3> QED
      BY <3>1, <3>2, <1>m
  <2> QED
    BY <2>1, <2>2, <1>s DEF OutqOrder
<1>2. BlocksKept'
  <2> SUFFICES ASSUME NEW k \in 1..Len(outq'), NEW x \in Idx, Owns(k, x)', Back(x)' <= Back(ci)'
               PROVE  /\ wrid'[SqSlot(x)] = outq'[k]
                      /\ Blk(x) = [label |-> outq'[k], cnt |-> Size(k)']
    BY <1>h DEF BlocksKept
  <2>x. SqSlot(x) \in SqSlots /\ Back(x) \in Nat /\ Back(x)' \in Nat
    BY <1>u, <1>s, SqSlotType, BackFacts
  <2>1. CASE k \in 1..Len(outq)
    <3>1. Owns(k, x) /\ Back(x)' = Back(x) + cnt /\ Size(k)' = Size(k)
      BY <2>1, <1>o
    <3>2. Back(x) <= Back(ci)
      BY <3>1, <2>x, <1>b, <1>u
    <3>3. Back(x) >= 1
      BY <3>1, <2>1, <1>u, OwnerOutstanding
    <3>4. SqSlot(x) \notin Blocks(pi, cnt)
      BY <3>2, <3>3, <1>u, <1>c, CopyBehind
    <3>5. wrid'[SqSlot(x)] = wrid[SqSlot(x)]
      BY <3>4, <2>x, <1>c
    <3>6. outq'[k] = outq[k]
      <4>1. k \in 1..(Len(outq) + 1) /\ Start(k) = outq[k]
        BY <2>1, <1>u, StartFacts
      <4> QED
        BY <4>1, <1>s
    <3> QED
      BY <3>1, <3>2, <3>5, <3>6, <2>1 DEF FifoInv, BlocksKept
  <2>2. CASE k = m
    <3>1. 0 < Back(x)' /\ Back(x)' <= cnt
      BY <2>2, <1>l DEF Owns
    <3>2. PICK i \in 0..(cnt - 1) : i = cnt - Back(x)'
      BY <3>1, <2>x, <1>c
    <3>3. x = Add(pi, i)
      <4>1. PICK b \in Nat : b = Back(x)' /\ b = Sub(Add(pi, cnt), x)
        BY <2>x, <1>c DEF Back
      <4>2. i = cnt - b /\ 0 < b /\ b <= cnt
        BY <4>1, <3>1, <3>2
      <4>3. cnt < IdxMod
        <5>1. cnt >= 1 /\ Back(ci) + cnt <= SqBlocks
          BY <1>c, <1>u
        <5> QED
          BY <5>1, <1>u
      <4> QED
        BY <4>1, <4>2, <4>3, <1>u DEF Add, Sub, Idx
    <3>4. SqSlot(x) \in Blocks(pi, cnt)
      BY <3>3 DEF Blocks
    <3>5. wrid'[SqSlot(x)] = pi
      BY <3>4, <2>x, <1>c
    <3>6. Blk(x) = [label |-> pi, cnt |-> cnt]
      BY <3>3, <1>c
    <3> QED
      BY <3>5, <3>6, <2>2, <1>l
  <2> QED
    BY <2>1, <2>2, <1>m
<1>3. CiFront'
  <2>s. 1 \in 1..(Len(outq) + 1) /\ Start(1) \in Idx /\ Back(Start(1)) \in Nat
    BY <1>u, StartFacts
  <2>1. Start(1)' = Start(1) /\ Back(Start(1))' = Back(Start(1)) + cnt
    BY <2>s, <1>s
  <2>2. Jumped => Owns(1, ci)'
    <3> SUFFICES ASSUME Jumped PROVE Owns(1, ci)'
      OBVIOUS
    <3>1. Owns(1, ci)
      BY DEF FifoInv, CiFront
    <3>2. 1 \in 1..Len(outq)
      BY <3>1, <1>u, OwnerOutstanding
    <3>3. PICK c \in Idx : c = ci /\ c = ci' /\ Owns(1, c)
      BY <3>1, <1>u
    <3>4. Owns(1, c)'
      BY <3>2, <3>3, <1>o
    <3> QED
      BY <3>3, <3>4 DEF Owns, Back, Start
  <2>3. Blk(Sub(Start(1), 1))' = Blk(Sub(Start(1), 1))
    <3>1. Sub(Start(1), 1)' = Sub(Start(1), 1)
      BY <2>1 DEF Sub
    <3> QED
      BY <3>1, <1>u DEF Blk
  <2>4. ~Jumped => Back(Start(1))' <= Back(ci)'
    BY <2>s, <2>1, <1>b, <1>u DEF FifoInv, CiFront
  <2>5. ~Jumped /\ Start(1) # ci => (Back(ci) - Back(Start(1)))' <= Blk(Sub(Start(1), 1)).cnt
    <3>1. (Back(ci) - Back(Start(1)))' = Back(ci) - Back(Start(1))
      BY <2>s, <2>1, <1>b, <1>u
    <3> QED
      BY <3>1 DEF FifoInv, CiFront
  <2> QED
    BY <2>1, <2>2, <2>3, <2>4, <2>5, <1>h, <1>u DEF CiFront
<1>4. CqesInOrder'
  <2>1. ASSUME NEW q \in Pollers, HasReq(q)'
        PROVE  Owns(1, CurrentCqe.entry_idx)'
    <3>1. PICK e \in Idx : e = CurrentCqe.entry_idx /\ Owns(1, e)
      BY <2>1, <1>h, FirstHeld
    <3>2. 1 \in 1..Len(outq)
      BY <3>1, <1>u, OwnerOutstanding
    <3>3. Owns(1, e)' /\ e = CurrentCqe.entry_idx'
      BY <3>1, <3>2, <1>o, <1>h
    <3> QED
      BY <3>3 DEF Owns, Back, Start
  <2>2. ASSUME NEW j \in Idx, Unread(j)', ~Ce(j).fd'
        PROVE  Owns(HeldReq + 1 + Sub(j, cqci), Ce(j).entry_idx)'
    <3>1. PICK e \in Idx, k \in Nat \ {0} :
            /\ e = Ce(j).entry_idx /\ k = HeldReq + 1 + Sub(j, cqci) /\ Owns(k, e)
      <4>1. Ce(j) \in Cqe
        BY <1>u, Distances
      <4>2. Sub(j, cqci) \in Nat /\ HeldReq \in {0, 1}
        BY UnreadCount, SubType DEF Idx
      <4>3. Owns(HeldReq + 1 + Sub(j, cqci), Ce(j).entry_idx)
        BY <2>2, <1>h DEF FifoInv, CqesInOrder
      <4>4. Ce(j).entry_idx \in Idx /\ HeldReq + 1 + Sub(j, cqci) \in Nat \ {0}
        BY <4>1, <4>2 DEF Cqe
      <4> QED
        BY <4>3, <4>4
    <3>2. k \in 1..Len(outq)
      BY <3>1, <1>u, OwnerOutstanding
    <3>3. Owns(k, e)'
      BY <3>1, <3>2, <1>o
    <3>4. (HeldReq + 1 + Sub(j, cqci))' = k /\ Ce(j).entry_idx' = e
      BY <3>1, <1>h, <1>u
    <3> QED
      BY <3>3, <3>4 DEF Owns, Back, Start
  <2>3. \A j \in Idx : Unread(j)' /\ Ce(j).fd' => hwState' = "done" /\ j = Sub(hwpi, 1)'
    BY <1>h, <1>u DEF FifoInv, CqesInOrder
  <2>4. \A q \in Pollers : Holding(q)' /\ CurrentCqe.fd' => hwState' = "done" /\ cqci' = hwpi'
    BY <1>h, <1>u DEF FifoInv, CqesInOrder
  <2>5. PICK E \in Nat : E = Executed /\ E = Executed' /\ E <= Len(outq) /\ hwci = Start(E + 1)
    <3>1. Executed \in Nat
      BY UnreadCount DEF Executed
    <3> QED
      BY <3>1, <1>h DEF FifoInv, CqesInOrder
  <2>6. Executed' <= Len(outq')
    BY <2>5, <1>s, <1>u
  <2>7. hwci' = Start(Executed + 1)'
    <3>0. E <= Len(outq) /\ Len(outq) \in Nat
      BY <2>5, <1>u
    <3>1. E + 1 \in 1..(Len(outq) + 1)
      BY <3>0
    <3>2. Start(E + 1)' = hwci
      BY <3>1, <2>5, <1>s
    <3> QED
      BY <3>2, <2>5, <1>u DEF Start
  <2> QED
    BY <2>1, <2>2, <2>3, <2>4, <2>6, <2>7 DEF CqesInOrder
<1>5. CtxRead'
  <2>1. Start(1)' = Start(1)
    BY <1>s, <1>u
  <2> QED
    BY <2>1, <1>h, <1>u DEF FifoInv, CtxRead
<1> QED
  BY <1>1, <1>2, <1>3, <1>4, <1>5 DEF FifoInv
----------------------------------------------------------------------------
(* What follows *)

\* Every step keeps the requests in order.
LEMMA NextFifo == IndInv /\ IndInv' /\ FifoInv /\ [Next]_vars => FifoInv'
<1> SUFFICES ASSUME IndInv, IndInv', FifoInv, [Next]_vars PROVE FifoInv'
  OBVIOUS
<1>1. ASSUME NEW p \in Posters, Post(p)
      PROVE  FifoInv'
  BY <1>1, PostQuietFifo, PostCopyFifo, PostPublishFifo DEF Post
<1>2. CASE Device
  BY <1>2, DeviceFifo
<1>3. ASSUME NEW p \in Pollers, Poll(p)
      PROVE  FifoInv'
  BY <1>3, PollFifo
<1>4. CASE UNCHANGED vars
  <2>1. UNCHANGED <<pi, ci, outq, wrid, qbuf, hwci, hwpi, hwState, cqbuf, cqci, poll>>
    BY <1>4 DEF vars, sqVars, hwVars, cqVars
  <2>2. \A r \in Pollers : Holding(r)' <=> Holding(r)
    BY <2>1 DEF Holding
  <2> QED
    BY <2>1, <2>2, FifoFrame DEF HasReq
<1> QED
  BY <1>1, <1>2, <1>3, <1>4 DEF Next

\* In every reachable state the two rings hold the accepted requests in order:
\* the CQEs name the first ones without a gap, and each block that ci has not
\* passed holds the WQE and the user_ctx of the request that owns it.
THEOREM FifoInvariance == Spec => []FifoInv
<1>1. Init => FifoInv
  BY InitFifo
<1>2. IndInv /\ IndInv' /\ FifoInv /\ [Next]_vars => FifoInv'
  BY NextFifo
<1> QED
  BY <1>1, <1>2, Invariance, PTL DEF Spec

\* When all work is executed and every CQE polled, the send queue has all its
\* blocks back but at most those of the last request.
THEOREM Credits == Spec => []CreditsReturned
<1>1. IndInv /\ FifoInv => CreditsReturned
  <2> SUFFICES ASSUME IndInv, FifoInv, hwci = pi, cqci = hwpi, cqLock = NoThread
               PROVE  Sub(pi, ci) <= Blk(Sub(pi, 1)).cnt
    BY DEF CreditsReturned, Blk
  <2>1. \A p \in Pollers : ~Holding(p)
    <3>1. \A p \in Pollers : poll[p].pc = "idle"
      BY CallerAssumption DEF IndInv, LockInv
    <3> QED
      BY <3>1 DEF Holding
  <2>2. HeldReq = 0 /\ ~Jumped /\ LastFd = 0
    BY <2>1 DEF HeldReq, Jumped, HasReq, LastFd
  <2>3. Executed = 0
    <3>1. Sub(hwpi, cqci) = 0
      BY SubZero DEF IndInv, TypeOK
    <3> QED
      BY <2>2, <3>1 DEF Executed
  <2>4. Start(1) = pi
    <3>1. hwci = Start(Executed + 1)
      BY DEF FifoInv, CqesInOrder
    <3> QED
      BY <3>1, <2>3
  <2>5. Back(pi) = 0 /\ Back(ci) \in Nat /\ pi \in Idx /\ ci \in Idx
    BY BackFacts DEF IndInv
  <2>6. CASE ci = pi
    <3>1. Blk(Sub(pi, 1)) \in Wqe
      BY <2>5, StepBack, Distances DEF IndInv
    <3>2. Blk(Sub(pi, 1)).cnt \in WrSizes \cup {0}
      BY <3>1 DEF Wqe
    <3>3. Blk(Sub(pi, 1)).cnt \in Nat
      BY <3>2, WrSizeBounds
    <3> QED
      BY <2>5, <2>6, <3>3 DEF Back
  <2>7. CASE ci # pi
    <3>1. Back(ci) - Back(pi) <= Blk(Sub(pi, 1)).cnt
      BY <2>2, <2>4, <2>7 DEF FifoInv, CiFront
    <3> QED
      BY <3>1, <2>5 DEF Back
  <2> QED
    BY <2>6, <2>7
<1> QED
  BY <1>1, Invariance, FifoInvariance, PTL
----------------------------------------------------------------------------
(* The refinement *)

\* The first records of a poll call are the oldest requests.
LEMMA HeadRecord ==
  ASSUME IndInv, FifoInv, NEW p \in Pollers, HasReq(p), poll[p].pc = "finish"
  PROVE  outq # <<>> /\ poll[p].ctx = Head(outq)
<1>1. outq # <<>> /\ Start(1) = outq[1] /\ outq \in Seq(Idx)
  BY FirstHeld DEF FifoInv, OutqOrder
<1>2. poll[p].ctx = Start(1)
  BY DEF FifoInv, CtxRead
<1> QED
  BY <1>1, <1>2

\* A poster publishes under a name no outstanding request has.
LEMMA PostAccepts ==
  ASSUME IndInv, FifoInv, NEW p \in Posters, PostPublish(p)
  PROVE  Fifo!Accept(pi)
<1>1. pi \in Idx /\ outq' = Append(outq, pi) /\ UNCHANGED poll
  BY DEF PostPublish, IndInv, TypeOK, cqVars
<1>2. ASSUME NEW i \in DOMAIN outq
      PROVE  outq[i] # pi
  <2>1. /\ TypeOK /\ OutqOrder /\ i \in 1..Len(outq) /\ Len(outq) \in Nat
        /\ i \in 1..(Len(outq) + 1) /\ Len(outq) + 1 \in 1..(Len(outq) + 1)
        /\ i < Len(outq) + 1
    BY DEF IndInv, FifoInv, OutqOrder
  <2>2. Back(Start(Len(outq) + 1)) < Back(Start(i))
    BY <2>1 DEF OutqOrder
  <2>3. Start(Len(outq) + 1) = pi /\ Start(i) = outq[i]
    BY <2>1 DEF Start
  <2>4. Back(pi) < Back(outq[i]) /\ Back(pi) = 0
    BY <2>1, <2>2, <2>3, BackFacts
  <2> QED
    BY <2>4
<1>3. pi \notin {outq[i] : i \in DOMAIN outq}
  BY <1>2
<1> QED
  BY <1>1, <1>3 DEF Fifo!Accept

\* The records a poll call has collected change only in the step's own thread.
LEMMA BatchStep ==
  ASSUME TypeOK, NEW p \in Pollers, NEW r, NEW c, r.crs = c,
         poll' = [poll EXCEPT ![p] = r]
  PROVE  [q \in Pollers |-> poll'[q].crs]
           = [[q \in Pollers |-> poll[q].crs] EXCEPT ![p] = c]
BY DEF TypeOK

\* Collecting no record leaves the batches alone.
LEMMA BatchSame ==
  ASSUME \A q \in Pollers : poll'[q].crs = poll[q].crs
  PROVE  [q \in Pollers |-> poll'[q].crs] = [q \in Pollers |-> poll[q].crs]
OBVIOUS

\* Every step of a poller is a step of CdmaFifo or changes nothing it sees.
LEMMA PollRefines ==
  ASSUME IndInv, FifoInv, NEW p \in Pollers, Poll(p)
  PROVE  Fifo!Next \/ UNCHANGED Fifo!vars
<1> USE DEF Fifo!vars
<1>t. TypeOK /\ poll[p] \in PollLocals /\ poll \in [Pollers -> PollLocals]
  BY DEF IndInv, TypeOK
<1>1. ASSUME NEW want \in 1..CrCnt, PollLock(p, want)
      PROVE  Fifo!Return(p)
  <2>1. PICK r : r.crs = <<>> /\ poll' = [poll EXCEPT ![p] = r]
    BY <1>1 DEF PollLock, PollIdle
  <2> QED
    BY <2>1, <1>1, <1>t, BatchStep DEF PollLock, Fifo!Return
<1>2. CASE PollReturn(p)
  <2>1. PICK r : r.crs = <<>> /\ poll' = [poll EXCEPT ![p] = r]
    BY <1>2 DEF PollReturn, PollIdle
  <2>2. Fifo!Return(p)
    BY <2>1, <1>2, <1>t, BatchStep DEF PollReturn, Fifo!Return
  <2> QED
    BY <2>2 DEF Fifo!Next
<1>3. CASE PollRecord(p)
  <2>1. HasReq(p) /\ poll[p].pc = "finish"
    BY <1>3 DEF PollRecord, HasReq, Holding
  <2>2. outq # <<>> /\ poll[p].ctx = Head(outq) /\ outq' = Tail(outq)
    BY <2>1, <1>3, HeadRecord DEF PollRecord
  <2>3. PICK r : /\ r.crs = Append(poll[p].crs, Head(outq))
                 /\ poll' = [poll EXCEPT ![p] = r]
    <3> DEFINE r == [poll[p] EXCEPT !.pc = "take", !.ctx = Garbage,
                                    !.crs = Append(@, poll[p].ctx)]
    <3>1. poll' = [poll EXCEPT ![p] = r]
      BY <1>3 DEF PollRecord
    <3>2. r.crs = Append(poll[p].crs, Head(outq))
      BY <1>t, <2>2 DEF PollLocals
    <3> QED
      BY <3>1, <3>2
  <2>4. [q \in Pollers |-> poll'[q].crs]
          = [[q \in Pollers |-> poll[q].crs] EXCEPT ![p] = Append(@, Head(outq))]
    <3>1. [q \in Pollers |-> poll'[q].crs]
            = [[q \in Pollers |-> poll[q].crs] EXCEPT ![p] = Append(poll[p].crs, Head(outq))]
      BY <2>3, <1>t, BatchStep
    <3> QED
      BY <3>1
  <2>5. Fifo!Complete(p)
    BY <2>2, <2>4 DEF Fifo!Complete
  <2> QED
    BY <2>5 DEF Fifo!Next
<1>4. CASE PollUnknown(p)
  <2>1. \A q \in Pollers : poll'[q].crs = poll[q].crs
    BY <1>4, <1>t DEF PollUnknown, PollLocals
  <2>2. CASE CurrentCqe.fd
    BY <2>1, <2>2, <1>4, BatchSame DEF PollUnknown
  <2>3. CASE ~CurrentCqe.fd
    <3>1. HasReq(p) /\ poll[p].pc = "finish"
      BY <1>4, <2>3 DEF PollUnknown, HasReq, Holding
    <3>2. outq # <<>> /\ outq' = Tail(outq)
      BY <3>1, <2>3, <1>4, HeadRecord DEF PollUnknown
    <3>3. Fifo!Discard
      BY <3>2, <2>1, BatchSame DEF Fifo!Discard
    <3> QED
      BY <3>3 DEF Fifo!Next
  <2> QED
    BY <2>2, <2>3
<1>5. CASE PollTake(p) \/ PollStop(p) \/ PollAdvance(p) \/ PollReadCtx(p) \/ PollFlushDone(p)
  <2>1. \A q \in Pollers : poll'[q].crs = poll[q].crs
    <3> USE <1>t DEF PollLocals
    <3>1. CASE PollTake(p)
      BY <3>1 DEF PollTake
    <3>2. CASE PollStop(p)
      BY <3>2 DEF PollStop
    <3>3. CASE PollAdvance(p)
      BY <3>3 DEF PollAdvance
    <3>4. CASE PollReadCtx(p)
      BY <3>4 DEF PollReadCtx
    <3>5. CASE PollFlushDone(p)
      BY <3>5 DEF PollFlushDone
    <3> QED
      BY <1>5, <3>1, <3>2, <3>3, <3>4, <3>5
  <2>2. UNCHANGED outq
    BY <1>5 DEF PollTake, PollStop, PollAdvance, PollReadCtx, PollFlushDone
  <2> QED
    BY <2>1, <2>2, BatchSame
<1>6. \A want \in 1..CrCnt : PollLock(p, want) => Fifo!Next
  BY <1>1 DEF Fifo!Next
<1> QED
  BY <1>2, <1>3, <1>4, <1>5, <1>6 DEF Poll, PollStep

\* Every step of the data path is a step of CdmaFifo or changes nothing it sees.
LEMMA NextRefines ==
  ASSUME IndInv, FifoInv, [Next]_vars
  PROVE  Fifo!Next \/ UNCHANGED Fifo!vars
<1>1. ASSUME NEW p \in Posters, Post(p)
      PROVE  Fifo!Next \/ UNCHANGED Fifo!vars
  <2>1. CASE PostPublish(p)
    <3>1. Fifo!Accept(pi) /\ pi \in Idx
      BY <2>1, PostAccepts DEF IndInv, TypeOK
    <3> QED
      BY <3>1 DEF Fifo!Next
  <2>2. CASE ~PostPublish(p)
    <3>1. UNCHANGED <<outq, poll>>
      BY <1>1, <2>2 DEF Post, PostLock, PostInvalid, PostOverflow, PostCheck, PostCopy,
                        PostRing, cqVars
    <3> QED
      BY <3>1 DEF Fifo!vars
  <2> QED
    BY <2>1, <2>2
<1>2. CASE Device \/ UNCHANGED vars
  <2>1. UNCHANGED <<outq, poll>>
    BY <1>2 DEF Device, DevComplete, DevError, DevFlushDone, vars, cqVars
  <2> QED
    BY <2>1 DEF Fifo!vars
<1> QED
  BY <1>1, <1>2, PollRefines DEF Next

\* The data path implements CdmaFifo: requests complete in the order in which
\* they were accepted, each at most once and with the user_ctx it was posted
\* with, whatever threads post and poll and whatever statuses the device gives.
THEOREM Refinement == Spec => FifoSpec
<1>1. Init => Fifo!Init
  BY DEF Init, InitCq, Fifo!Init, PollIdle
<1>2. IndInv /\ FifoInv /\ [Next]_vars => [Fifo!Next]_(Fifo!vars)
  BY NextRefines
<1> QED
  BY <1>1, <1>2, Invariance, FifoInvariance, PTL DEF Spec, FifoSpec, Fifo!Spec
----------------------------------------------------------------------------
(***************************************************************************)
(* Deleting a queue: TdInv of CdmaTeardown is inductive.                   *)
(***************************************************************************)

\* Where the int of a counter changes its sign is a boundary of rounds.
LEMMA HalfIsRound == \E k \in Nat : Half = CqEntries * k /\ IdxMod = 2 * (CqEntries * k)
<1>1. PICK k \in 1..IdxMod : IdxMod = 2 * CqEntries * k
  BY RingAssumption
<1>2. CqEntries \in Nat /\ IdxMod \in Nat
  BY IdxModBounds
<1> DEFINE m == CqEntries * k
<1>3. m \in Nat /\ IdxMod = 2 * m
  BY <1>1, <1>2
<1> HIDE DEF m
<1>4. (2 * m) \div 2 = m
  BY <1>3
<1> QED
  BY <1>1, <1>3, <1>4 DEF Half, m

\* Two indices of one round: less than a ring apart, on one side of Half, and
\* what lies between them is in that round.
LEMMA RoundSpan ==
  ASSUME NEW s \in Idx, NEW h \in Idx, SameRound(s, h), NEW z \in Idx, s <= z, z <= h
  PROVE  /\ h - s < CqEntries
         /\ SameRound(s, z) /\ Round(z) = Round(s)
         /\ s < Half <=> z < Half
<1> DEFINE C == CqEntries
           q == s \div C
           r == s % C
           t == h % C
<1>1. C \in Nat \ {0} /\ s \in Int /\ h \in Int /\ z \in Int
  BY IdxModBounds DEF Idx
<1>2. q \in Int /\ r \in 0..(C - 1) /\ t \in 0..(C - 1)
  BY <1>1, DivMod, ModRange
<1>3. s = C * q + r
  BY <1>1, DivMod
<1>4. h = C * q + t
  <2>1. h \div C = q
    BY DEF SameRound
  <2>2. h = C * (h \div C) + t
    BY <1>1, DivMod
  <2> QED
    BY <2>1, <2>2
<1> HIDE DEF q, r, t
<1> DEFINE b == C * q
<1>5. b \in Int
  BY <1>1, <1>2
<1>6. s = b + r /\ h = b + t
  BY <1>3, <1>4
<1> HIDE DEF b
<1>7. h - s < C
  BY <1>1, <1>2, <1>5, <1>6
<1>8. z \div C = q
  <2> DEFINE u == z - b
             p == z \div C
             v == z % C
  <2>1. u \in 0..(C - 1)
    BY <1>1, <1>2, <1>5, <1>6
  <2>2. p \in Int /\ v \in 0..(C - 1) /\ z = C * p + v
    BY <1>1, DivMod, ModRange
  <2>3. z = C * q + u
    BY <1>1, <1>5 DEF b
  <2> HIDE DEF u, p, v
  <2>4. p = q
    BY <1>1, <1>2, <2>1, <2>2, <2>3, DivModUnique
  <2> QED
    BY <2>4 DEF p
<1>9. SameRound(s, z) /\ Round(z) = Round(s)
  BY <1>8 DEF SameRound, Round, q
<1>10. s < Half <=> z < Half
  <2>1. PICK k \in Nat : Half = C * k
    BY HalfIsRound
  <2>2. q < k => b + C <= C * k
    <3>1. q < k => C * (k - q - 1) >= 0
      BY <1>1, <1>2
    <3>2. C * (k - q - 1) = C * k - C * q - C
      BY <1>1, <1>2
    <3> QED
      BY <1>1, <1>2, <1>5, <3>1, <3>2 DEF b
  <2>3. q >= k => b >= C * k
    <3>1. q >= k => C * (q - k) >= 0
      BY <1>1, <1>2
    <3>2. C * (q - k) = C * q - C * k
      BY <1>1, <1>2
    <3> QED
      BY <1>1, <1>2, <1>5, <3>1, <3>2 DEF b
  <2>4. C * k \in Int
    BY <1>1
  <2> DEFINE H == C * k
  <2> HIDE DEF H
  <2>5. /\ q < k => b + C <= H
        /\ q >= k => b >= H
        /\ H \in Int /\ Half = H
    BY <2>1, <2>2, <2>3, <2>4 DEF H
  <2> QED
    BY <1>1, <1>2, <1>5, <1>6, <2>5
<1> QED
  BY <1>7, <1>9, <1>10

\* A device at most a ring ahead and in the same round is ahead without a wrap.
LEMMA NoWrap ==
  ASSUME NEW s \in Idx, NEW h \in Idx, SameRound(s, h), Sub(h, s) <= CqEntries
  PROVE  s <= h /\ h - s < CqEntries /\ Sub(h, s) = h - s
<1>1. /\ CqEntries \in Nat /\ IdxMod \in Nat /\ IdxMod >= 2 * CqEntries
      /\ CqEntries >= 1 /\ s \in Int /\ h \in Int
  BY IdxModBounds DEF Idx
<1>2. s <= h
  <2> SUFFICES ASSUME h < s PROVE FALSE
    BY <1>1
  <2>1. SameRound(h, s) /\ h <= s
    BY <1>1 DEF SameRound
  <2>2. s - h < CqEntries
    BY <1>1, <2>1, RoundSpan
  <2> QED
    BY <1>1, <2>2 DEF Sub
<1>3. h - s < CqEntries
  BY <1>1, <1>2, RoundSpan
<1> QED
  BY <1>1, <1>2, <1>3 DEF Sub

\* The device is at most a ring ahead of cq->ci.
LEMMA CqSpan ==
  ASSUME IndInv
  PROVE  /\ cqci \in Idx /\ hwpi \in Idx
         /\ Sub(hwpi, cqci) \in Nat /\ Sub(hwpi, cqci) <= CqEntries
         /\ Sub(hwpi, cqci) <= Taken /\ Taken \in Nat
BY UnreadCount

\* What Comparable means while the queue is cleaned.
LEMMA ComparableFacts ==
  ASSUME IndInv, start = cqci, Comparable
  PROVE  /\ start \in Idx /\ hwpi \in Idx /\ SameRound(start, hwpi)
         /\ start <= hwpi /\ hwpi - start < CqEntries
         /\ start + CqEntries < IdxMod /\ start # Half
         /\ Sub(hwpi, start) = hwpi - start
<1>1. /\ start \in Idx /\ hwpi \in Idx /\ SameRound(start, hwpi)
      /\ Sub(hwpi, start) <= CqEntries
  BY CqSpan DEF Comparable
<1>2. start \in Int /\ CqEntries \in Int /\ IdxMod \in Int
  BY <1>1, IdxModBounds DEF Idx
<1>3. start + CqEntries < IdxMod /\ start # Half
  BY <1>2 DEF Comparable
<1> QED
  BY <1>1, <1>3, NoWrap

\* An entry that the scan meets before the device's position holds a CQE by the
\* owner bit, the one at that position does not.
LEMMA ScanSees ==
  ASSUME IndInv, start = cqci, Comparable, NEW x \in Idx, start <= x, x <= hwpi
  PROVE  CqeAt(x) <=> x # hwpi
<1>1. /\ start \in Idx /\ hwpi \in Idx /\ SameRound(start, hwpi)
      /\ hwpi - start < CqEntries
  BY ComparableFacts
<1>2. Round(x) = Round(start) /\ Round(hwpi) = Round(start)
  <2>1. hwpi <= hwpi /\ start <= hwpi
    BY <1>1, ComparableFacts DEF Idx
  <2>2. Round(x) = Round(start)
    BY <1>1, RoundSpan
  <2>3. Round(hwpi) = Round(start)
    BY <1>1, <2>1, RoundSpan
  <2> QED
    BY <2>2, <2>3
<1>3. \A d \in 0..(CqEntries - 1) : Ce(Add(hwpi, d)).owner = Round(Add(hwpi, d))
  BY DEF IndInv, CqOrder
<1>4. /\ CqEntries \in Nat /\ CqEntries >= 1 /\ IdxMod \in Nat /\ IdxMod >= 2 * CqEntries
      /\ hwpi \in Nat /\ hwpi < IdxMod /\ x \in Nat /\ start \in Nat
  BY <1>1, IdxModBounds DEF Idx
<1>5. CASE x = hwpi
  <2>1. 0 \in 0..(CqEntries - 1) /\ Add(hwpi, 0) = hwpi
    BY <1>4 DEF Add
  <2>2. Ce(hwpi).owner = Round(hwpi)
    BY <1>3, <2>1
  <2> QED
    BY <1>2, <1>5, <2>2 DEF CqeAt, Ce
<1>6. CASE x # hwpi
  <2> DEFINE d == x + CqEntries - hwpi
  <2>1. d \in 0..(CqEntries - 1)
    BY <1>1, <1>4, <1>6
  <2>2. Add(hwpi, d) = Add(x, CqEntries)
    BY <1>4 DEF Add
  <2>3. Ce(Add(x, CqEntries)).owner = Round(Add(x, CqEntries))
    BY <1>3, <2>1, <2>2
  <2>4. CqSlot(Add(x, CqEntries)) = CqSlot(x) /\ Round(Add(x, CqEntries)) = 1 - Round(x)
    BY NextRound
  <2>5. Round(x) \in {0, 1}
    BY RoundType
  <2>6. Ce(x).owner # Round(x)
    BY <2>3, <2>4, <2>5 DEF Ce
  <2> QED
    BY <1>2, <1>6, <2>6 DEF CqeAt, Ce
<1> QED
  BY <1>5, <1>6

\* The signed comparison that ends the second loop: before cq->ci it says stop,
\* at cq->ci and behind it go on, and it does not overflow.
LEMMA SignedTest ==
  ASSUME NEW s \in Idx, NEW h \in Idx, SameRound(s, h), s # Half,
         NEW x \in Idx, s <= x, x <= h
  PROVE  LET y == Sub(x, 1)
         IN  /\ ~Overflows(y, s)
             /\ Diff(y, s) >= 0 <=> x # s
             /\ Diff(y, s) < 0 <=> x = s
             /\ x # s => y = x - 1
<1> DEFINE y == Sub(x, 1)
<1>1. /\ CqEntries \in Nat /\ CqEntries >= 1 /\ IdxMod \in Nat /\ IdxMod >= 2 * CqEntries
      /\ s \in Nat /\ x \in Nat /\ h \in Nat /\ x < IdxMod /\ s < IdxMod
  BY IdxModBounds DEF Idx
<1>2. h - s < CqEntries /\ (s < Half <=> x < Half)
  BY RoundSpan
<1>3. /\ x # s => /\ x - 1 \in Idx /\ s <= x - 1 /\ x - 1 <= h /\ y = x - 1
                  /\ (s < Half <=> x - 1 < Half)
  <2> SUFFICES ASSUME x # s
               PROVE  /\ x - 1 \in Idx /\ s <= x - 1 /\ x - 1 <= h /\ y = x - 1
                      /\ (s < Half <=> x - 1 < Half)
    OBVIOUS
  <2>1. x - 1 \in Idx /\ s <= x - 1 /\ x - 1 <= h /\ y = x - 1
    BY <1>1 DEF Idx, Sub
  <2> DEFINE e == x - 1
  <2>2. e \in Idx /\ s <= e /\ e <= h
    BY <2>1
  <2> HIDE DEF e
  <2>3. s < Half <=> e < Half
    BY <2>2, RoundSpan
  <2> QED
    BY <2>1, <2>3 DEF e
<1>4. Half \in Nat /\ IdxMod = 2 * Half /\ Half >= CqEntries
  <2>1. PICK k \in Nat : Half = CqEntries * k /\ IdxMod = 2 * (CqEntries * k)
    BY HalfIsRound
  <2>2. CqEntries * k \in Nat
    BY <1>1
  <2> DEFINE m == CqEntries * k
  <2>3. m \in Nat /\ Half = m /\ IdxMod = 2 * m
    BY <2>1, <2>2
  <2> HIDE DEF m
  <2> QED
    BY <1>1, <2>3
<1>5. CASE x # s
  <2>1. Diff(y, s) = x - 1 - s
    BY <1>1, <1>3, <1>4, <1>5 DEF Diff, Int32
  <2>2. x - 1 - s >= 0 /\ x - 1 - s < Half
    BY <1>1, <1>2, <1>3, <1>4, <1>5
  <2> QED
    BY <1>1, <1>3, <1>4, <1>5, <2>1, <2>2 DEF Overflows
<1>6. CASE x = s
  <2>1. Diff(y, s) = -1
    <3>1. CASE s = 0
      <4>1. y = IdxMod - 1
        BY <1>1, <1>6, <3>1 DEF Sub
      <4> QED
        BY <1>1, <1>4, <3>1, <4>1 DEF Diff, Int32
    <3>2. CASE s # 0
      <4>1. y = s - 1
        BY <1>1, <1>6, <3>2 DEF Sub
      <4> QED
        BY <1>1, <1>4, <3>2, <4>1 DEF Diff, Int32
    <3> QED
      BY <3>1, <3>2
  <2> QED
    BY <1>1, <1>4, <1>6, <2>1 DEF Overflows
<1> QED
  BY <1>5, <1>6

\* Nothing is deleted yet.
LEMMA InitTd == TdInit => TdInv
<1> SUFFICES ASSUME TdInit PROVE TdInv
  OBVIOUS
<1>1. IndInv
  BY InitSafe DEF TdInit
<1>2. TdTypeOK
  BY OneIdx DEF TdInit, TdTypeOK
<1>3. ProgressInv /\ CleanExact
  BY DEF TdInit, ProgressInv, CleanExact
<1> QED
  BY <1>1, <1>2, <1>3 DEF TdInv

\* Posters and pollers before the queue is deleted.
LEMMA LiveStep ==
  ASSUME TdInv, stage = "live", [Next]_vars, UNCHANGED tdVars
  PROVE  TdInv'
<1>1. IndInv'
  BY NextSafe DEF TdInv
<1>2. /\ stage' = "live" /\ frozen' = frozen /\ scan' = scan
      /\ nfreed' = nfreed /\ start' = start
  BY DEF tdVars
<1>3. TdTypeOK'
  BY <1>2 DEF TdInv, TdTypeOK
<1>4. ProgressInv' /\ CleanExact'
  BY <1>2 DEF TdInv, ProgressInv, CleanExact
<1> QED
  BY <1>1, <1>3, <1>4 DEF TdInv

\* How a step of the device moves on the completion queue.
LEMMA DeviceMoves ==
  ASSUME IndInv, Device
  PROVE  /\ cqci' = cqci
         /\ \/ hwpi' = hwpi
            \/ hwpi' = Add(hwpi, 1) /\ Taken < CqEntries
BY DEF Device, DevComplete, DevError, DevFlushDone, WriteCqe, cqVars

\* While the device goes on after a failed delete, a case that is Comparable
\* has been so all the time, and the device only gets further ahead.
LEMMA DeviceComparable ==
  ASSUME IndInv, Device, start = cqci, start' = start, Comparable'
  PROVE  Comparable /\ hwpi <= hwpi'
<1>1. CASE hwpi' = hwpi
  <2>1. hwpi \in Int
    BY IdxModBounds DEF IndInv, TypeOK, Idx
  <2> QED
    BY <1>1, <2>1 DEF Comparable, SameRound
<1>2. CASE hwpi' = Add(hwpi, 1) /\ Taken < CqEntries
  <2> DEFINE h == Add(hwpi, 1)
  <2>1. /\ start \in Idx /\ hwpi \in Idx /\ Sub(hwpi, start) \in Nat
        /\ Sub(hwpi, start) <= Taken /\ Taken \in Nat
    BY CqSpan
  <2>2. CqEntries \in Nat /\ CqEntries >= 1 /\ IdxMod \in Nat /\ IdxMod >= 2 * CqEntries
    BY IdxModBounds
  <2>3. Sub(hwpi, start) + 1 <= CqEntries /\ Sub(hwpi, start) + 1 < IdxMod
    BY <1>2, <2>1, <2>2
  <2>4. h \in Idx /\ Sub(h, start) = Sub(hwpi, start) + 1
    BY <2>1, <2>3, SubAdvance
  <2>5. SameRound(start, h) /\ start < IdxMod - CqEntries /\ start # Half
    BY <1>2 DEF Comparable, SameRound
  <2>6. start <= h /\ Sub(h, start) = h - start
    <3> HIDE DEF h
    <3> QED
      BY <2>1, <2>3, <2>4, <2>5, NoWrap
  <2>7. start <= hwpi /\ hwpi <= h
    BY <2>1, <2>2, <2>4, <2>6 DEF Add, Idx
  <2>8. SameRound(start, hwpi)
    <3> HIDE DEF h
    <3> QED
      BY <2>1, <2>4, <2>5, <2>7, RoundSpan
  <2> QED
    BY <1>2, <2>5, <2>7, <2>8 DEF Comparable
<1> QED
  BY <1>1, <1>2, DeviceMoves

\* The device goes on: before the delete, and after one that failed.
LEMMA DeviceStep ==
  ASSUME TdInv, stage # "cleaned", ~frozen, Device, UNCHANGED tdVars
  PROVE  TdInv'
<1>1. IndInv /\ IndInv'
  <2>1. [Next]_vars
    BY DEF Next
  <2> QED
    BY <2>1, NextSafe DEF TdInv
<1>2. /\ stage' = stage /\ frozen' = frozen /\ scan' = scan
      /\ nfreed' = nfreed /\ start' = start
  BY DEF tdVars
<1>3. TdTypeOK'
  BY <1>2 DEF TdInv, TdTypeOK
<1>4. CleanExact'
  BY <1>2 DEF CleanExact
<1>5. cqci' = cqci
  BY <1>1, DeviceMoves
<1>6. hwpi \in Int /\ hwpi' \in Int
  BY <1>1, IdxModBounds DEF IndInv, TypeOK, Idx
<1>7. ProgressInv'
  <2>1. stage' \in {"live", "scan"} => nfreed' = 0
    BY <1>2 DEF TdInv, ProgressInv
  <2>2. stage' \in {"scan", "free"} => start' = cqci'
    BY <1>2, <1>5 DEF TdInv, ProgressInv
  <2>3. ASSUME stage' \in {"scan", "free"}, Comparable'
        PROVE  Comparable /\ hwpi <= hwpi'
    <3>1. start = cqci
      BY <1>2, <2>3 DEF TdInv, ProgressInv
    <3> QED
      BY <1>1, <1>2, <2>3, <3>1, DeviceComparable
  <2>4. scan \in Int /\ nfreed \in Int
    BY IdxModBounds DEF TdInv, TdTypeOK, Idx
  <2>5. stage' = "scan" /\ Comparable' => start' <= scan' /\ scan' <= hwpi'
    <3> SUFFICES ASSUME stage' = "scan", Comparable'
                 PROVE  start' <= scan' /\ scan' <= hwpi'
      OBVIOUS
    <3>1. Comparable /\ hwpi <= hwpi'
      BY <2>3
    <3>2. start <= scan /\ scan <= hwpi
      BY <1>2, <3>1 DEF TdInv, ProgressInv
    <3> QED
      BY <1>2, <1>6, <2>4, <3>1, <3>2
  <2>6. stage' = "free" /\ Comparable' =>
          /\ start' <= scan' /\ scan' + nfreed' <= hwpi'
          /\ frozen' => scan' + nfreed' = hwpi'
    <3> SUFFICES ASSUME stage' = "free", Comparable'
                 PROVE  start' <= scan' /\ scan' + nfreed' <= hwpi'
      BY <1>2
    <3>1. Comparable /\ hwpi <= hwpi'
      BY <2>3
    <3>2. start <= scan /\ scan + nfreed <= hwpi
      BY <1>2, <3>1 DEF TdInv, ProgressInv
    <3> QED
      BY <1>2, <1>6, <2>4, <3>1, <3>2
  <2> QED
    BY <2>1, <2>2, <2>5, <2>6 DEF ProgressInv
<1> QED
  BY <1>1, <1>3, <1>4, <1>7 DEF TdInv

\* The data path as a step of the cleaning leaves it.
LEMMA FrameTd ==
  ASSUME IndInv, UNCHANGED vars
  PROVE  IndInv' /\ cqci' = cqci /\ hwpi' = hwpi /\ (start' = start => Comparable' = Comparable)
<1>1. IndInv'
  BY NextSafe
<1>2. cqci' = cqci /\ hwpi' = hwpi
  BY DEF vars, cqVars, hwVars
<1> QED
  BY <1>1, <1>2 DEF Comparable, SameRound

\* cdma_u_delete_jfs asks the kernel and the cleaning starts at cq->ci.
LEMMA DeleteStep ==
  ASSUME TdInv, NEW ok \in BOOLEAN, DeleteJfs(ok)
  PROVE  TdInv'
<1>1. /\ IndInv /\ UNCHANGED vars
      /\ stage' = "scan" /\ frozen' = ok /\ scan' = cqci /\ start' = cqci
      /\ nfreed' = nfreed /\ nfreed = 0
  BY DEF DeleteJfs, TdInv, ProgressInv
<1>2. IndInv' /\ cqci' = cqci /\ hwpi' = hwpi
  BY <1>1, FrameTd
<1>3. cqci \in Idx /\ hwpi \in Idx
  BY <1>1 DEF IndInv, TypeOK
<1>4. TdTypeOK'
  BY <1>1, <1>3, OneIdx DEF TdTypeOK
<1>5. Comparable' => start' <= scan' /\ scan' <= hwpi'
  <2> SUFFICES ASSUME Comparable' PROVE start' <= scan' /\ scan' <= hwpi'
    OBVIOUS
  <2>1. SameRound(cqci, hwpi)
    BY <1>1, <1>2 DEF Comparable, SameRound
  <2>2. cqci <= hwpi
    BY <1>1, <1>3, <2>1, CqSpan, NoWrap
  <2>3. cqci <= cqci
    BY <1>3 DEF Idx
  <2> QED
    BY <1>1, <1>2, <2>2, <2>3
<1>6. ProgressInv'
  BY <1>1, <1>2, <1>5 DEF ProgressInv
<1>7. CleanExact'
  BY <1>1 DEF CleanExact
<1> QED
  BY <1>2, <1>4, <1>6, <1>7 DEF TdInv

\* The scan goes on only over entries the device has written.
LEMMA ScanStep ==
  ASSUME TdInv, CleanScan
  PROVE  TdInv'
<1>1. /\ IndInv /\ UNCHANGED vars /\ start = cqci /\ nfreed = 0
      /\ stage = "scan" /\ stage' = "scan" /\ frozen' = frozen /\ scan' = Add(scan, 1)
      /\ start' = start /\ nfreed' = nfreed /\ CqeAt(scan)
  BY DEF CleanScan, TdInv, ProgressInv
<1>2. IndInv' /\ cqci' = cqci /\ hwpi' = hwpi /\ Comparable' = Comparable
  BY <1>1, FrameTd
<1>3. scan \in Idx /\ hwpi \in Idx
  BY <1>1 DEF IndInv, TypeOK, TdInv, TdTypeOK
<1>4. TdTypeOK'
  BY <1>1, <1>3, OneIdx, AddType DEF TdTypeOK, TdInv
<1>5. Comparable => start <= Add(scan, 1) /\ Add(scan, 1) <= hwpi
  <2> SUFFICES ASSUME Comparable PROVE start <= Add(scan, 1) /\ Add(scan, 1) <= hwpi
    OBVIOUS
  <2>1. start <= scan /\ scan <= hwpi
    BY <1>1 DEF TdInv, ProgressInv
  <2>2. scan # hwpi
    BY <1>1, <1>3, <2>1, ScanSees
  <2>3. start \in Idx
    BY DEF TdInv, TdTypeOK
  <2> QED
    BY <1>3, <2>1, <2>2, <2>3, IdxModBounds DEF Add, Idx
<1>6. ProgressInv'
  BY <1>1, <1>2, <1>5 DEF ProgressInv
<1>7. CleanExact'
  BY <1>1 DEF CleanExact
<1> QED
  BY <1>2, <1>4, <1>6, <1>7 DEF TdInv

\* The scan ends where the device is.
LEMMA ScanEndStep ==
  ASSUME TdInv, CleanScanEnd
  PROVE  TdInv'
<1>1. /\ IndInv /\ UNCHANGED vars /\ start = cqci /\ nfreed = 0
      /\ stage = "scan" /\ stage' = "free" /\ frozen' = frozen /\ scan' = scan
      /\ start' = start /\ nfreed' = nfreed
      /\ ~CqeAt(scan) \/ scan > Add(cqci, CqEntries)
  BY DEF CleanScanEnd, TdInv, ProgressInv
<1>2. IndInv' /\ cqci' = cqci /\ hwpi' = hwpi /\ Comparable' = Comparable
  BY <1>1, FrameTd
<1>3. scan \in Idx /\ hwpi \in Idx /\ start \in Idx
  BY <1>1 DEF IndInv, TypeOK, TdInv, TdTypeOK
<1>4. TdTypeOK'
  BY <1>1 DEF TdTypeOK, TdInv
<1>5. Comparable => start <= scan /\ scan = hwpi
  <2> SUFFICES ASSUME Comparable PROVE start <= scan /\ scan = hwpi
    OBVIOUS
  <2>1. start <= scan /\ scan <= hwpi
    BY <1>1 DEF TdInv, ProgressInv
  <2>2. hwpi - start < CqEntries /\ start + CqEntries < IdxMod
    BY <1>1, ComparableFacts
  <2>3. Add(cqci, CqEntries) = start + CqEntries
    BY <1>1, <2>2 DEF Add
  <2>4. ~(scan > Add(cqci, CqEntries))
    BY <1>3, <2>1, <2>2, <2>3, IdxModBounds DEF Idx
  <2>5. scan = hwpi
    BY <1>1, <1>3, <2>1, <2>4, ScanSees
  <2> QED
    BY <2>1, <2>5
<1>6. scan + 0 = scan /\ hwpi <= hwpi
  BY <1>3, IdxModBounds DEF Idx
<1>7. ProgressInv'
  BY <1>1, <1>2, <1>5, <1>6 DEF ProgressInv
<1>8. CleanExact'
  BY <1>1 DEF CleanExact
<1> QED
  BY <1>2, <1>4, <1>7, <1>8 DEF TdInv

\* One CQE is freed: the index goes back by what the count goes up.
LEMMA FreeStep ==
  ASSUME TdInv, CleanFree
  PROVE  TdInv'
<1> DEFINE y == Sub(scan, 1)
<1>1. /\ IndInv /\ UNCHANGED vars /\ start = cqci
      /\ stage = "free" /\ stage' = "free" /\ frozen' = frozen /\ scan' = y
      /\ start' = start /\ nfreed' = Add(nfreed, 1)
      /\ Overflows(y, start) \/ Diff(y, start) >= 0
  BY DEF CleanFree, TdInv, ProgressInv
<1>2. IndInv' /\ cqci' = cqci /\ hwpi' = hwpi /\ Comparable' = Comparable
  BY <1>1, FrameTd
<1>3. scan \in Idx /\ hwpi \in Idx /\ start \in Idx /\ nfreed \in Idx
  BY <1>1 DEF IndInv, TypeOK, TdInv, TdTypeOK
<1>4. TdTypeOK'
  <2>1. y \in Idx /\ Add(nfreed, 1) \in Idx
    BY <1>3, OneIdx, AddType, SubType
  <2> QED
    BY <1>1, <2>1 DEF TdTypeOK, TdInv
<1>5. ASSUME Comparable
      PROVE  /\ start <= y /\ y + Add(nfreed, 1) <= hwpi
             /\ frozen => y + Add(nfreed, 1) = hwpi
  <2>1. /\ start <= scan /\ scan + nfreed <= hwpi
        /\ frozen => scan + nfreed = hwpi
    BY <1>1, <1>5 DEF TdInv, ProgressInv
  <2>2. SameRound(start, hwpi) /\ start # Half /\ scan <= hwpi
    BY <1>3, <1>5, <2>1 DEF Comparable, Idx
  <2>3. scan # start /\ y = scan - 1
    BY <1>1, <1>3, <2>1, <2>2, SignedTest
  <2>4. Add(nfreed, 1) = nfreed + 1
    BY <1>3, <2>1, <2>3, IdxModBounds DEF Add, Idx
  <2> HIDE DEF y
  <2> QED
    BY <1>3, <2>1, <2>3, <2>4, IdxModBounds DEF Idx
<1> HIDE DEF y
<1>6. ProgressInv'
  BY <1>1, <1>2, <1>5 DEF ProgressInv
<1>7. CleanExact'
  BY <1>1 DEF CleanExact
<1> QED
  BY <1>2, <1>4, <1>6, <1>7 DEF TdInv

\* The second loop has come back to cq->ci: what it counted is what was found.
LEMMA DoneStep ==
  ASSUME TdInv, CleanDone
  PROVE  TdInv'
<1> DEFINE y == Sub(scan, 1)
<1>1. /\ IndInv /\ start = cqci
      /\ stage = "free" /\ stage' = "cleaned" /\ frozen' = frozen /\ scan' = scan
      /\ start' = start /\ nfreed' = nfreed /\ hwpi' = hwpi
      /\ cqci' = Add(start, nfreed)
      /\ swDb' = IF nfreed # 0 THEN Masked(Add(start, nfreed)) ELSE swDb
      /\ Overflows(y, start) \/ Diff(y, start) < 0
  BY DEF CleanDone, TdInv, ProgressInv, hwVars
<1>2. scan \in Idx /\ hwpi \in Idx /\ start \in Idx /\ nfreed \in Idx
  BY <1>1 DEF IndInv, TypeOK, TdInv, TdTypeOK
<1>3. TdTypeOK'
  BY <1>1 DEF TdTypeOK, TdInv
<1>4. ProgressInv'
  BY <1>1 DEF ProgressInv
<1>5. CleanExact'
  <2> SUFFICES ASSUME Comparable'
               PROVE  /\ Sub(hwpi', cqci') <= Sub(hwpi', start')
                      /\ frozen' => cqci' = hwpi'
                      /\ start' # cqci' => swDb' = Masked(cqci')
    BY DEF CleanExact, Sub, Masked
  <2>1. Comparable
    BY <1>1 DEF Comparable, SameRound
  <2>2. /\ start <= scan /\ scan + nfreed <= hwpi
        /\ frozen => scan + nfreed = hwpi
    BY <1>1, <2>1 DEF TdInv, ProgressInv
  <2>3. SameRound(start, hwpi) /\ start # Half /\ scan <= hwpi
    BY <1>2, <2>1, <2>2 DEF Comparable, Idx
  <2>4. scan = start
    BY <1>1, <1>2, <2>2, <2>3, SignedTest
  <2>5. Add(start, nfreed) = start + nfreed
    BY <1>2, <2>2, <2>4, IdxModBounds DEF Add, Idx
  <2>6. Sub(hwpi, start + nfreed) <= Sub(hwpi, start)
    BY <1>2, <2>2, <2>4, IdxModBounds DEF Sub, Idx
  <2>7. start # start + nfreed => nfreed # 0
    BY <1>2, IdxModBounds DEF Idx
  <2> QED
    BY <1>1, <2>2, <2>4, <2>5, <2>6, <2>7
<1> QED
  BY <1>1, <1>3, <1>4, <1>5 DEF TdInv

\* TdInv is inductive: one case per action.
LEMMA NextTd == TdInv /\ [TdNext]_allVars => TdInv'
<1> SUFFICES ASSUME TdInv, [TdNext]_allVars PROVE TdInv'
  OBVIOUS
<1>1. CASE /\ stage = "live"
           /\ (\E p \in Posters : Post(p)) \/ (\E p \in Pollers : Poll(p))
           /\ UNCHANGED tdVars
  <2>1. [Next]_vars
    BY <1>1 DEF Next
  <2> QED
    BY <1>1, <2>1, LiveStep
<1>2. CASE stage # "cleaned" /\ ~frozen /\ Device /\ UNCHANGED tdVars
  BY <1>2, DeviceStep
<1>3. ASSUME NEW ok \in BOOLEAN, DeleteJfs(ok) PROVE TdInv'
  BY <1>3, DeleteStep
<1>4. CASE CleanScan
  BY <1>4, ScanStep
<1>5. CASE CleanScanEnd
  BY <1>5, ScanEndStep
<1>6. CASE CleanFree
  BY <1>6, FreeStep
<1>7. CASE CleanDone
  BY <1>7, DoneStep
<1>8. CASE UNCHANGED allVars
  <2>1. UNCHANGED vars /\ UNCHANGED tdVars
    BY <1>8 DEF allVars
  <2>2. /\ stage' = stage /\ frozen' = frozen /\ scan' = scan
        /\ nfreed' = nfreed /\ start' = start
    BY <2>1 DEF tdVars
  <2>3. cqci' = cqci /\ hwpi' = hwpi /\ swDb' = swDb
    BY <2>1 DEF vars, cqVars, hwVars
  <2>4. stage' # "cleaned" => IndInv'
    BY <2>1, <2>2, FrameTd DEF TdInv
  <2>5. TdTypeOK' /\ ProgressInv' /\ CleanExact'
    BY <2>2, <2>3 DEF TdInv, TdTypeOK, ProgressInv, CleanExact, Comparable, SameRound, Sub
  <2> QED
    BY <2>4, <2>5 DEF TdInv
<1> QED
  BY <1>1, <1>2, <1>3, <1>4, <1>5, <1>6, <1>7, <1>8 DEF TdNext

\* Up to the end of the cleaning the data path keeps its invariant, and scan and
\* count of cdma_u_clean_jfc stay between cq->ci and the device's position.
THEOREM TdInvariance == TdSpec => []TdInv
BY InitTd, NextTd, PTL DEF TdSpec

\* Deleting a queue removes the CQEs it left, all of them and none the device
\* has not written, and tells the device; for rings and counters of any size,
\* outside the three cases that Comparable excludes.
THEOREM CleanedExactly == TdSpec => []CleanExact
<1>1. TdInv => CleanExact
  BY DEF TdInv
<1> QED
  BY <1>1, TdInvariance, PTL
============================================================================

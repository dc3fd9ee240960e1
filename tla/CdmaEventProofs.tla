-------------------------- MODULE CdmaEventProofs --------------------------
(***************************************************************************)
(* Proofs about waiting for completions in event mode, for any number of   *)
(* threads, size of the completion queue and width of its counters.        *)
(***************************************************************************)
EXTENDS CdmaEvent, CdmaRingLemmas

Idx == 0..(IdxMod - 1)
Sns == 0..(SnMod - 1)

WaitPc     == {"idle", "wait", "poll", "read", "ack", "load", "arm"}
WaitLocals == [pc : WaitPc, cnt : 0..CrCnt, ev : 0..CrCnt, n : 0..CrCnt,
               ci : Idx, sn : Sns, ret : {"none", "ioctl", "efault", "count"}]

\* The bounds as the provers use them.
LEMMA Bounds ==
  /\ IdxMod \in Nat /\ IdxMod \in Nat \ {0} /\ CqEntries \in Nat /\ IdxMod > CqEntries
  /\ CqEntries >= 1 /\ SnMod \in Nat /\ SnMod >= 2 /\ CrCnt \in Nat
  /\ MaxEvents \in Nat /\ MaxEvents >= 1
  /\ 0 \in Idx /\ 0 \in Sns /\ 1 \in Sns /\ 0 \in 0..CrCnt
BY EventAssumption DEF Idx, Sns

\* Counters and sequence numbers stay within their width.
LEMMA ModTypes ==
  /\ \A x \in Idx, d \in Nat : Add(x, d) \in Idx
  /\ \A x \in Sns : (x + 1) % SnMod \in Sns
<1>1. ASSUME NEW x \in Idx, NEW d \in Nat
      PROVE  Add(x, d) \in Idx
  BY <1>1, Bounds, ModRange DEF Add, Idx
<1>2. ASSUME NEW x \in Sns
      PROVE  (x + 1) % SnMod \in Sns
  BY <1>2, Bounds, ModRange DEF Sns
<1> QED
  BY <1>1, <1>2

\* The distance from index c to index h on the ring of indices.
LEMMA RingDistance ==
  ASSUME NEW h \in Idx, NEW c \in Idx
  PROVE  /\ (h - c) % IdxMod \in Nat
         /\ (h - c) % IdxMod = IF c <= h THEN h - c ELSE (h - c) + IdxMod
         /\ (h - c) % IdxMod = 0 <=> h = c
<1>0. h \in Nat /\ c \in Nat /\ h < IdxMod /\ c < IdxMod /\ IdxMod \in Nat \ {0}
  BY Bounds DEF Idx
<1>1. CASE c <= h
  <2>1. (h - c) \in 0..(IdxMod - 1)
    BY <1>0, <1>1
  <2>2. (h - c) % IdxMod = h - c
    BY <2>1, <1>0, ModSmall
  <2> QED
    BY <1>0, <1>1, <2>1, <2>2
<1>2. CASE ~(c <= h)
  <2>1. (h - c) + IdxMod \in 0..(IdxMod - 1) /\ (h - c) \in Int
    BY <1>0, <1>2
  <2>2. ((h - c) + IdxMod * 1) % IdxMod = (h - c) % IdxMod
    BY <2>1, <1>0, ModShift
  <2>3. ((h - c) + IdxMod) % IdxMod = (h - c) + IdxMod
    BY <2>1, <1>0, ModSmall
  <2>4. (h - c) % IdxMod = (h - c) + IdxMod
    BY <2>2, <2>3, <1>0
  <2> QED
    BY <1>0, <1>2, <2>1, <2>4
<1> QED
  BY <1>1, <1>2

\* Unread counts from cq->ci to the device.
LEMMA UnreadFacts ==
  ASSUME hwpi \in Idx, cqci \in Idx
  PROVE  /\ Unread \in Nat
         /\ Unread = IF cqci <= hwpi THEN hwpi - cqci ELSE (hwpi - cqci) + IdxMod
         /\ Unread = 0 <=> hwpi = cqci
BY RingDistance DEF Unread

\* The same of the next state.
LEMMA UnreadFactsPrime ==
  ASSUME hwpi' \in Idx, cqci' \in Idx
  PROVE  /\ Unread' \in Nat
         /\ Unread' = 0 <=> hwpi' = cqci'
BY RingDistance DEF Unread

\* The type invariant, with the names above.
LEMMA TypeFacts ==
  TypeOK <=> /\ hwpi \in Idx /\ cqci \in Idx
             /\ armed \in BOOLEAN /\ silent \in BOOLEAN
             /\ events \in 0..MaxEvents
             /\ armSn \in Sns /\ dbSn \in Sns
             /\ waiter \in [Waiters -> WaitLocals]
BY DEF TypeOK, Idx, Sns, WaitLocals, WaitPc

\* An event that is raised is pending, even when the kernel's queue is full.
LEMMA RaiseFacts ==
  ASSUME events \in 0..MaxEvents, RaiseEvent
  PROVE  events' \in 0..MaxEvents /\ events' > 0
BY Bounds DEF RaiseEvent

\* What an arming doorbell does to the device.
LEMMA ArmFacts ==
  ASSUME events \in 0..MaxEvents, NEW c, ArmDoorbell(c)
  PROVE  /\ armed' \in BOOLEAN /\ events' \in 0..MaxEvents
         /\ c # hwpi => events' > 0
         /\ c = hwpi => armed'
         /\ events' > 0 \/ armed'
<1>1. CASE c # hwpi
  <2>1. RaiseEvent /\ armed' = FALSE
    BY <1>1, Zenon DEF ArmDoorbell
  <2>2. events' \in 0..MaxEvents /\ events' > 0
    BY <2>1, RaiseFacts
  <2> QED
    BY <1>1, <2>1, <2>2
<1>2. CASE c = hwpi
  <2>1. armed' = TRUE /\ events' = events
    BY <1>2, Zenon DEF ArmDoorbell
  <2> QED
    BY <1>2, <2>1
<1> QED
  BY <1>1, <1>2

\* A call that begins, and one that returns, have locals of the right type.
LEMMA LocalsType ==
  /\ NoWait \in WaitLocals /\ NoWait.pc = "idle" /\ NoWait.sn = 0
  /\ \A cnt \in 1..CrCnt : LET r == [NoWait EXCEPT !.pc = "wait", !.cnt = cnt]
                           IN  r \in WaitLocals /\ r.pc = "wait"
  /\ \A q \in WaitLocals, ret \in {"none", "ioctl", "efault", "count"} :
       Returned(q, ret) \in WaitLocals /\ Returned(q, ret).pc = "idle"
<1>1. NoWait \in WaitLocals /\ NoWait.pc = "idle" /\ NoWait.sn = 0
  BY Bounds DEF NoWait, WaitLocals, WaitPc
<1>2. ASSUME NEW cnt \in 1..CrCnt
      PROVE  LET r == [NoWait EXCEPT !.pc = "wait", !.cnt = cnt]
             IN  r \in WaitLocals /\ r.pc = "wait"
  <2>1. cnt \in 0..CrCnt
    BY <1>2, Bounds
  <2> QED
    BY <2>1, Bounds DEF NoWait, WaitLocals, WaitPc
<1>3. ASSUME NEW q \in WaitLocals, NEW ret \in {"none", "ioctl", "efault", "count"}
      PROVE  Returned(q, ret) \in WaitLocals /\ Returned(q, ret).pc = "idle"
  BY <1>3, Bounds DEF Returned, NoWait, WaitLocals, WaitPc
<1> QED
  BY <1>1, <1>2, <1>3

\* The initial state has its types.
LEMMA InitType == Init => TypeOK
<1> SUFFICES ASSUME Init PROVE TypeOK
  OBVIOUS
<1>1. waiter \in [Waiters -> WaitLocals]
  BY LocalsType DEF Init
<1>2. hwpi \in Idx /\ cqci \in Idx /\ armSn \in Sns /\ dbSn \in Sns
  BY Bounds DEF Init
<1>3. events \in 0..MaxEvents
  BY Bounds DEF Init
<1>4. armed \in BOOLEAN /\ silent \in BOOLEAN
  BY DEF Init
<1> QED
  BY <1>1, <1>2, <1>3, <1>4, TypeFacts

\* A step of a waiter: its new locals have their type, the others keep theirs.
LEMMA WaiterStep ==
  ASSUME TypeOK, NEW w \in Waiters, NEW r \in WaitLocals,
         waiter' = [waiter EXCEPT ![w] = r]
  PROVE  /\ waiter' \in [Waiters -> WaitLocals]
         /\ waiter'[w] = r
         /\ \A v \in Waiters : v # w => waiter'[v] = waiter[v]
BY TypeFacts
----------------------------------------------------------------------------
(* What each step does to the types and to the place of its thread *)

\* Thread w moves to pc, the other threads stay where they are.
Moves(w, pc) ==
  /\ waiter'[w].pc = pc
  /\ \A v \in Waiters : v # w => waiter'[v] = waiter[v]

\* The type invariant of the next state, with the names above.
LEMMA TypeFactsPrime ==
  ASSUME hwpi' \in Idx, cqci' \in Idx, armed' \in BOOLEAN, silent' \in BOOLEAN,
         events' \in 0..MaxEvents, armSn' \in Sns, dbSn' \in Sns,
         waiter' \in [Waiters -> WaitLocals]
  PROVE  TypeOK'
BY DEF TypeOK, Idx, Sns, WaitLocals, WaitPc

\* The device writes a CQE: the next index, and the event it owes.
LEMMA WriteCqeStep ==
  ASSUME TypeOK, WriteCqe
  PROVE  /\ TypeOK' /\ Unread' > 0
         /\ armed => events' > 0
         /\ ~armed => events' = events /\ ~armed'
<1>1. hwpi' \in Idx
  BY TypeFacts, ModTypes DEF WriteCqe
<1>2. armed => events' \in 0..MaxEvents /\ events' > 0 /\ armed' = FALSE
  <2> SUFFICES ASSUME armed PROVE events' \in 0..MaxEvents /\ events' > 0 /\ armed' = FALSE
    OBVIOUS
  <2>1. RaiseEvent /\ armed' = FALSE
    BY Zenon DEF WriteCqe
  <2> QED
    BY <2>1, RaiseFacts, TypeFacts
<1>3. ~armed => events' = events /\ ~armed' /\ armed' = armed
  BY Zenon DEF WriteCqe
<1>4. events' \in 0..MaxEvents
  BY <1>2, <1>3, TypeFacts
<1>5. armed' \in BOOLEAN
  BY <1>2, <1>3, TypeFacts, Zenon
<1>6. TypeOK'
  BY <1>1, <1>4, <1>5, TypeFacts, TypeFactsPrime DEF WriteCqe, snVars
<1>7. Unread' > 0
  <2>0. hwpi \in Idx /\ cqci \in Idx /\ cqci' = cqci /\ hwpi' = (hwpi + 1) % IdxMod /\ Unread < CqEntries
    BY TypeFacts DEF WriteCqe, Add
  <2>1. hwpi' # cqci
    <3>0. hwpi \in 0..(IdxMod - 1) /\ cqci \in 0..(IdxMod - 1)
      BY <2>0 DEF Idx
    <3>1. CASE hwpi + 1 < IdxMod
      <4>1. hwpi' = hwpi + 1
        BY <2>0, <3>0, <3>1, Bounds, ModSmall
      <4> QED
        BY <2>0, <3>0, <3>1, <4>1, UnreadFacts, Bounds
    <3>2. CASE hwpi + 1 = IdxMod
      <4>1. hwpi' = 0
        <5>1. (0 + IdxMod * 1) % IdxMod = 0 % IdxMod /\ 0 % IdxMod = 0
          BY Bounds, ModShift, ModSmall DEF Idx
        <5> QED
          BY <5>1, <2>0, <3>2, Bounds
      <4> QED
        BY <2>0, <3>0, <3>2, <4>1, UnreadFacts, Bounds
    <3> QED
      BY <3>0, <3>1, <3>2, Bounds
  <2>2. Unread' \in Nat /\ (Unread' = 0 <=> hwpi' = cqci')
    BY <1>1, <2>0, UnreadFactsPrime
  <2> QED
    BY <2>0, <2>1, <2>2
<1> QED
  BY <1>2, <1>3, <1>6, <1>7

\* A call begins.
LEMMA WaitBeginStep ==
  ASSUME TypeOK, NEW w \in Waiters, NEW cnt \in 1..CrCnt, WaitBegin(w, cnt)
  PROVE  TypeOK' /\ Moves(w, "wait")
<1> DEFINE r == [NoWait EXCEPT !.pc = "wait", !.cnt = cnt]
<1>1. r \in WaitLocals /\ r.pc = "wait" /\ waiter' = [waiter EXCEPT ![w] = r]
  BY LocalsType DEF WaitBegin
<1> HIDE DEF r
<1>2. waiter' \in [Waiters -> WaitLocals] /\ Moves(w, "wait")
  BY <1>1, WaiterStep DEF Moves
<1> QED
  BY <1>2, TypeFacts, TypeFactsPrime DEF WaitBegin, snVars

\* The ioctl returns events.
LEMMA WaitEventStep ==
  ASSUME TypeOK, NEW w \in Waiters, WaitEvent(w)
  PROVE  TypeOK' /\ Moves(w, "poll")
<1> DEFINE k == IF events < waiter[w].cnt THEN events ELSE waiter[w].cnt
           r == [waiter[w] EXCEPT !.pc = "poll", !.ev = k]
<1>1. waiter[w] \in WaitLocals /\ waiter[w].cnt \in 0..CrCnt /\ events \in 0..MaxEvents
  BY TypeFacts DEF WaitLocals
<1>2. k \in 0..CrCnt /\ k <= events
  BY <1>1, Bounds
<1>3. events' = events - k /\ waiter' = [waiter EXCEPT ![w] = r]
  BY <1>1, TypeFacts DEF WaitEvent
<1> HIDE DEF k
<1>4. r \in WaitLocals /\ r.pc = "poll"
  BY <1>1, <1>2 DEF WaitLocals, WaitPc
<1> HIDE DEF r
<1>5. waiter' \in [Waiters -> WaitLocals] /\ Moves(w, "poll")
  BY <1>3, <1>4, WaiterStep DEF Moves
<1>6. events' \in 0..MaxEvents
  BY <1>1, <1>2, <1>3, Bounds
<1> QED
  BY <1>5, <1>6, TypeFacts, TypeFactsPrime DEF WaitEvent, snVars

\* The time is up.
LEMMA WaitTimeoutStep ==
  ASSUME TypeOK, NEW w \in Waiters, WaitTimeout(w)
  PROVE  TypeOK' /\ Moves(w, "poll")
<1> DEFINE r == [waiter[w] EXCEPT !.pc = "poll"]
<1>1. waiter' = [waiter EXCEPT ![w] = r]
  BY TypeFacts DEF WaitTimeout
<1>2. r \in WaitLocals /\ r.pc = "poll"
  BY TypeFacts DEF WaitLocals, WaitPc
<1> HIDE DEF r
<1>3. waiter' \in [Waiters -> WaitLocals] /\ Moves(w, "poll")
  BY <1>1, <1>2, WaiterStep DEF Moves
<1> QED
  BY <1>3, TypeFacts, TypeFactsPrime DEF WaitTimeout, snVars

\* A call returns.
LEMMA ReturnStep ==
  ASSUME TypeOK, NEW w \in Waiters, NEW ret \in {"none", "ioctl", "efault", "count"},
         waiter' = [waiter EXCEPT ![w] = Returned(waiter[w], ret)]
  PROVE  waiter' \in [Waiters -> WaitLocals] /\ Moves(w, "idle")
<1>1. waiter[w] \in WaitLocals
  BY TypeFacts
<1>2. Returned(waiter[w], ret) \in WaitLocals /\ Returned(waiter[w], ret).pc = "idle"
  BY <1>1, LocalsType
<1> QED
  BY <1>2, WaiterStep DEF Moves

\* The ioctl fails.
LEMMA WaitIoctlErrorStep ==
  ASSUME TypeOK, NEW w \in Waiters, WaitIoctlError(w)
  PROVE  TypeOK' /\ Moves(w, "idle")
<1>1. waiter' = [waiter EXCEPT ![w] = Returned(waiter[w], "ioctl")]
  BY DEF WaitIoctlError
<1>2. waiter' \in [Waiters -> WaitLocals] /\ Moves(w, "idle")
  BY <1>1, ReturnStep
<1> QED
  BY <1>2, TypeFacts, TypeFactsPrime DEF WaitIoctlError, snVars

\* The poll finds no record.
LEMMA WaitPollNoneStep ==
  ASSUME TypeOK, NEW w \in Waiters, WaitPollNone(w)
  PROVE  TypeOK' /\ Moves(w, "idle")
<1>1. waiter' = [waiter EXCEPT ![w] = Returned(waiter[w], "efault")]
  BY DEF WaitPollNone
<1>2. waiter' \in [Waiters -> WaitLocals] /\ Moves(w, "idle")
  BY <1>1, ReturnStep
<1>3. silent' \in BOOLEAN
  BY DEF WaitPollNone
<1> QED
  BY <1>2, <1>3, TypeFacts, TypeFactsPrime DEF WaitPollNone, snVars

\* The poll fails on its k-th CQE.
LEMMA WaitPollDropStep ==
  ASSUME TypeOK, NEW w \in Waiters, NEW k \in 1..CrCnt, WaitPollDrop(w, k)
  PROVE  TypeOK' /\ Moves(w, "idle")
<1>1. waiter' = [waiter EXCEPT ![w] = Returned(waiter[w], "efault")]
  BY DEF WaitPollDrop
<1>2. waiter' \in [Waiters -> WaitLocals] /\ Moves(w, "idle")
  BY <1>1, ReturnStep
<1>3. silent' \in BOOLEAN
  BY DEF WaitPollDrop
<1>4. k \in Nat
  BY Bounds
<1>5. cqci' \in Idx
  BY <1>4, TypeFacts, ModTypes DEF WaitPollDrop
<1> QED
  BY <1>2, <1>3, <1>5, TypeFacts, TypeFactsPrime DEF WaitPollDrop, snVars

\* The poll returns n records.
LEMMA PolledStep ==
  ASSUME TypeOK, NEW w \in Waiters, NEW n \in 0..CrCnt,
         waiter' = [waiter EXCEPT ![w].pc = "read", ![w].n = n]
  PROVE  waiter' \in [Waiters -> WaitLocals] /\ Moves(w, "read")
<1> DEFINE r == [waiter[w] EXCEPT !.pc = "read", !.n = n]
<1>1. waiter' = [waiter EXCEPT ![w] = r]
  BY TypeFacts
<1>2. r \in WaitLocals /\ r.pc = "read"
  BY TypeFacts DEF WaitLocals, WaitPc
<1> HIDE DEF r
<1> QED
  BY <1>1, <1>2, WaiterStep DEF Moves

\* The poll of a waiter finds records.
LEMMA WaitPollStep ==
  ASSUME TypeOK, NEW w \in Waiters, WaitPoll(w)
  PROVE  TypeOK' /\ Moves(w, "read")
<1> DEFINE n == IF Unread < waiter[w].cnt THEN Unread ELSE waiter[w].cnt
<1>1. waiter[w].cnt \in 0..CrCnt
  BY TypeFacts DEF WaitLocals
<1>2. Unread \in Nat
  BY UnreadFacts, TypeFacts
<1>3. n \in 0..CrCnt /\ n \in Nat
  BY <1>1, <1>2, Bounds
<1>4. cqci' = Add(cqci, n) /\ waiter' = [waiter EXCEPT ![w].pc = "read", ![w].n = n]
  BY DEF WaitPoll
<1> HIDE DEF n
<1>5. waiter' \in [Waiters -> WaitLocals] /\ Moves(w, "read")
  BY <1>3, <1>4, PolledStep
<1>6. cqci' \in Idx
  BY <1>3, <1>4, TypeFacts, ModTypes
<1> QED
  BY <1>5, <1>6, TypeFacts, TypeFactsPrime DEF WaitPoll, snVars

\* The poll of a waiter ends at a flush-done CQE.
LEMMA WaitPollFlushDoneStep ==
  ASSUME TypeOK, NEW w \in Waiters, NEW k \in 1..CrCnt, WaitPollFlushDone(w, k)
  PROVE  TypeOK' /\ Moves(w, "read")
<1>1. k \in 0..CrCnt /\ k + 1 \in Nat
  BY Bounds
<1>2. cqci' = Add(cqci, k + 1) /\ waiter' = [waiter EXCEPT ![w].pc = "read", ![w].n = k]
  BY DEF WaitPollFlushDone
<1>3. waiter' \in [Waiters -> WaitLocals] /\ Moves(w, "read")
  BY <1>1, <1>2, PolledStep
<1>4. cqci' \in Idx
  BY <1>1, <1>2, TypeFacts, ModTypes
<1> QED
  BY <1>3, <1>4, TypeFacts, TypeFactsPrime DEF WaitPollFlushDone, snVars

\* arm_sn is read and incremented ...
LEMMA AckReadStep ==
  ASSUME TypeOK, NEW w \in Waiters, AckRead(w)
  PROVE  TypeOK' /\ Moves(w, "ack") /\ waiter'[w].sn = (armSn + 1) % SnMod
<1> DEFINE s == (armSn + 1) % SnMod
           r == [waiter[w] EXCEPT !.pc = "ack", !.sn = s]
<1>1. s \in Sns
  BY TypeFacts, ModTypes
<1>2. waiter' = [waiter EXCEPT ![w] = r]
  BY TypeFacts DEF AckRead
<1> HIDE DEF s
<1>3. r \in WaitLocals /\ r.pc = "ack" /\ r.sn = s
  BY <1>1, TypeFacts DEF WaitLocals, WaitPc
<1> HIDE DEF r
<1>4. waiter' \in [Waiters -> WaitLocals] /\ Moves(w, "ack") /\ waiter'[w].sn = s
  BY <1>2, <1>3, WaiterStep DEF Moves
<1>5. TypeOK'
  BY <1>4, TypeFacts, TypeFactsPrime DEF AckRead, snVars
<1> QED
  BY <1>4, <1>5 DEF s

\* ... and written.
LEMMA AckWriteStep ==
  ASSUME TypeOK, NEW w \in Waiters, AckWrite(w)
  PROVE  TypeOK' /\ Moves(w, "load")
<1> DEFINE r == [waiter[w] EXCEPT !.pc = "load"]
<1>1. waiter' = [waiter EXCEPT ![w] = r]
  BY TypeFacts DEF AckWrite
<1>2. r \in WaitLocals /\ r.pc = "load"
  BY TypeFacts DEF WaitLocals, WaitPc
<1> HIDE DEF r
<1>3. waiter' \in [Waiters -> WaitLocals] /\ Moves(w, "load")
  BY <1>1, <1>2, WaiterStep DEF Moves
<1>4. armSn' \in Sns
  BY TypeFacts DEF AckWrite, WaitLocals
<1> QED
  BY <1>3, <1>4, TypeFacts, TypeFactsPrime DEF AckWrite

\* The arming reads its index and number.
LEMMA RearmReadStep ==
  ASSUME TypeOK, NEW w \in Waiters, RearmRead(w)
  PROVE  /\ TypeOK' /\ Moves(w, "arm")
         /\ waiter'[w].ci = cqci /\ waiter'[w].sn = armSn
<1> DEFINE r == [waiter[w] EXCEPT !.pc = "arm", !.ci = cqci, !.sn = armSn]
<1>1. waiter' = [waiter EXCEPT ![w] = r]
  BY TypeFacts DEF RearmRead
<1>2. r \in WaitLocals /\ r.pc = "arm" /\ r.ci = cqci /\ r.sn = armSn
  BY TypeFacts DEF WaitLocals, WaitPc
<1> HIDE DEF r
<1>3. /\ waiter' \in [Waiters -> WaitLocals] /\ Moves(w, "arm")
      /\ waiter'[w].ci = cqci /\ waiter'[w].sn = armSn
  BY <1>1, <1>2, WaiterStep DEF Moves
<1> QED
  BY <1>3, TypeFacts, TypeFactsPrime DEF RearmRead, snVars

\* The arming doorbell.
LEMMA RearmWriteStep ==
  ASSUME TypeOK, NEW w \in Waiters, RearmWrite(w)
  PROVE  /\ TypeOK' /\ Moves(w, "idle")
         /\ events' > 0 \/ armed'
         /\ waiter[w].ci # hwpi => events' > 0
         /\ waiter[w].ci = hwpi => armed'
<1>1. waiter' = [waiter EXCEPT ![w] = Returned(waiter[w], "count")]
  BY DEF RearmWrite
<1>2. waiter' \in [Waiters -> WaitLocals] /\ Moves(w, "idle")
  BY <1>1, ReturnStep
<1>3. silent' \in BOOLEAN
  BY DEF RearmWrite
<1>4. dbSn' \in Sns
  BY TypeFacts DEF RearmWrite, WaitLocals
<1>5. ArmDoorbell(waiter[w].ci)
  BY DEF RearmWrite
<1>6. /\ armed' \in BOOLEAN /\ events' \in 0..MaxEvents
      /\ waiter[w].ci # hwpi => events' > 0
      /\ waiter[w].ci = hwpi => armed'
      /\ events' > 0 \/ armed'
  BY <1>5, TypeFacts, ArmFacts
<1>7. TypeOK'
  BY <1>2, <1>3, <1>4, <1>6, TypeFacts, TypeFactsPrime DEF RearmWrite
<1> QED
  BY <1>2, <1>6, <1>7

\* dma_poll_queue.
LEMMA PollQueueStep ==
  ASSUME TypeOK, NEW cnt \in 1..CrCnt, PollQueue(cnt)
  PROVE  TypeOK'
<1> DEFINE n == IF Unread < cnt THEN Unread ELSE cnt
<1>1. Unread \in Nat
  BY UnreadFacts, TypeFacts
<1>2. n \in Nat
  BY <1>1, Bounds
<1>3. cqci' = Add(cqci, n)
  BY DEF PollQueue
<1> HIDE DEF n
<1>4. cqci' \in Idx
  BY <1>2, <1>3, TypeFacts, ModTypes
<1> QED
  BY <1>4, TypeFacts, TypeFactsPrime DEF PollQueue, snVars
----------------------------------------------------------------------------
(* Types, and the queue that goes silent only after an error *)

\* No step leaves the types.
LEMMA NextType ==
  ASSUME TypeOK, [Next]_vars
  PROVE  TypeOK'
<1>1. CASE WriteCqe
  BY <1>1, WriteCqeStep
<1>2. ASSUME NEW w \in Waiters, NEW cnt \in 1..CrCnt, WaitBegin(w, cnt)
      PROVE  TypeOK'
  BY <1>2, WaitBeginStep
<1>3. ASSUME NEW w \in Waiters, WaitTimeout(w) \/ WaitIoctlError(w)
      PROVE  TypeOK'
  BY <1>3, WaitTimeoutStep, WaitIoctlErrorStep
<1>4. ASSUME NEW w \in Waiters, NEW k \in 1..CrCnt,
             WaitPollDrop(w, k) \/ WaitPollFlushDone(w, k)
      PROVE  TypeOK'
  BY <1>4, WaitPollDropStep, WaitPollFlushDoneStep
<1>5. ASSUME NEW w \in Waiters, WaitStep(w)
      PROVE  TypeOK'
  BY <1>5, WaitEventStep, WaitPollStep, WaitPollNoneStep, AckReadStep, AckWriteStep,
     RearmReadStep, RearmWriteStep DEF WaitStep
<1>6. ASSUME NEW cnt \in 1..CrCnt, PollQueue(cnt)
      PROVE  TypeOK'
  BY <1>6, PollQueueStep
<1>7. CASE UNCHANGED vars
  BY <1>7, TypeFacts, TypeFactsPrime DEF vars, snVars
<1> QED
  BY <1>1, <1>2, <1>3, <1>4, <1>5, <1>6, <1>7 DEF Next

\* Every variable of the event protocol keeps its type: the counters of the
\* completion queue and arm_sn stay within their width (cdma_u_event.c).
THEOREM EventTypes == Spec => []TypeOK
<1>1. Init => TypeOK
  BY InitType
<1>2. TypeOK /\ [Next]_vars => TypeOK'
  BY NextType
<1> QED
  BY <1>1, <1>2, PTL DEF Spec

\* A thread that moves without leaving its call, or into the poll, is not calm;
\* one that moves between idle and wait leaves the others as calm as they were.
LEMMA CalmMoves ==
  ASSUME NEW w \in Waiters, NEW pc, Moves(w, pc)
  PROVE  /\ pc \notin {"idle", "wait"} => ~Calm'
         /\ waiter[w].pc \in {"idle", "wait"} /\ Calm' => Calm
BY DEF Moves, Calm

\* No step makes the queue silent without an error.
LEMMA NextSilent ==
  ASSUME TypeOK, SilentOnlyAfterError, [Next]_vars
  PROVE  SilentOnlyAfterError'
<1>1. CASE WriteCqe
  <2>1. Calm' => Calm
    BY <1>1 DEF WriteCqe, Calm
  <2>2. events \in Nat /\ silent' = silent
    BY <1>1, TypeFacts DEF WriteCqe
  <2>3. (armed => events' > 0) /\ (~armed => events' = events)
    BY <1>1, WriteCqeStep
  <2>4. CASE armed
    BY <2>3, <2>4 DEF SilentOnlyAfterError
  <2>5. CASE ~armed
    BY <2>1, <2>2, <2>3, <2>5 DEF SilentOnlyAfterError
  <2> QED
    BY <2>4, <2>5
<1>2. ASSUME NEW w \in Waiters,
             (\E cnt \in 1..CrCnt : WaitBegin(w, cnt)) \/ WaitIoctlError(w)
      PROVE  SilentOnlyAfterError'
  <2>1. Calm' => Calm
    <3>1. waiter[w].pc \in {"idle", "wait"}
      BY <1>2 DEF WaitBegin, WaitIoctlError
    <3>2. Moves(w, "wait") \/ Moves(w, "idle")
      BY <1>2, WaitBeginStep, WaitIoctlErrorStep
    <3> QED
      BY <3>1, <3>2, CalmMoves
  <2>2. events' = events /\ armed' = armed /\ silent' = silent
    BY <1>2 DEF WaitBegin, WaitIoctlError
  <2> QED
    BY <2>1, <2>2 DEF SilentOnlyAfterError
<1>3. ASSUME NEW w \in Waiters,
             \/ WaitEvent(w) \/ WaitTimeout(w) \/ WaitPoll(w)
             \/ \E k \in 1..CrCnt : WaitPollFlushDone(w, k)
             \/ AckRead(w) \/ AckWrite(w) \/ RearmRead(w)
      PROVE  SilentOnlyAfterError'
  <2>1. \E pc \in {"poll", "read", "ack", "load", "arm"} : Moves(w, pc)
    BY <1>3, WaitEventStep, WaitTimeoutStep, WaitPollStep, WaitPollFlushDoneStep,
       AckReadStep, AckWriteStep, RearmReadStep
  <2> QED
    BY <2>1, CalmMoves DEF SilentOnlyAfterError
<1>4. ASSUME NEW w \in Waiters,
             WaitPollNone(w) \/ \E k \in 1..CrCnt : WaitPollDrop(w, k)
      PROVE  SilentOnlyAfterError'
  BY <1>4 DEF WaitPollNone, WaitPollDrop, SilentOnlyAfterError
<1>5. ASSUME NEW w \in Waiters, RearmWrite(w)
      PROVE  SilentOnlyAfterError'
  BY <1>5, RearmWriteStep DEF SilentOnlyAfterError
<1>6. CASE (\E cnt \in 1..CrCnt : PollQueue(cnt)) \/ UNCHANGED vars
  BY <1>6 DEF PollQueue, vars, SilentOnlyAfterError, Calm
<1> QED
  BY <1>1, <1>2, <1>3, <1>4, <1>5, <1>6 DEF Next, WaitStep

\* With any number of waiters and pollers, the queue has neither an event
\* pending nor one owed, and nobody on the way to arm it, only if some wait
\* failed with -EFAULT since it was last armed (cdma_wait_queue returns before
\* the acknowledgement when the poll yields no record).
THEOREM SilenceHasCause == Spec => []SilentOnlyAfterError
<1>1. Init => TypeOK /\ SilentOnlyAfterError
  BY InitType DEF Init, SilentOnlyAfterError
<1>2. TypeOK /\ SilentOnlyAfterError /\ [Next]_vars => TypeOK' /\ SilentOnlyAfterError'
  BY NextType, NextSilent
<1> QED
  BY <1>1, <1>2, PTL DEF Spec
----------------------------------------------------------------------------
(* A thread that waits alone *)

\* One thread calls dma_wait_queue on this queue.
OneWaiter == \E w : Waiters = {w}

\* The steps of the sole waiter relate arm_sn to the number in the device.
LEMMA NextSn ==
  ASSUME OneWaiter, TypeOK, SnInv, [Next]_vars
  PROVE  SnInv'
<1>0. PICK w : Waiters = {w}
  BY DEF OneWaiter
<1> DEFINE N    == (dbSn + 1) % SnMod
           I    == /\ waiter[w].pc \in {"idle", "wait", "poll", "read", "ack"} => armSn = dbSn
                   /\ waiter[w].pc \in {"load", "arm"} => armSn = N
                   /\ waiter[w].pc = "ack" => waiter[w].sn = N
                   /\ waiter[w].pc = "arm" => waiter[w].sn = armSn
<1>1. w \in Waiters /\ I /\ (I' => SnInv')
  BY <1>0 DEF SnInv
<1>2. CASE \/ WaitTimeout(w) \/ WaitIoctlError(w) \/ WaitEvent(w) \/ WaitPoll(w)
           \/ WaitPollNone(w) \/ \E cnt \in 1..CrCnt : WaitBegin(w, cnt)
           \/ \E k \in 1..CrCnt : WaitPollDrop(w, k) \/ WaitPollFlushDone(w, k)
  <2>1. waiter[w].pc \in {"idle", "wait", "poll"} /\ armSn' = armSn /\ dbSn' = dbSn
    BY <1>2 DEF WaitTimeout, WaitIoctlError, WaitEvent, WaitPoll, WaitPollNone, WaitBegin,
                WaitPollDrop, WaitPollFlushDone, snVars
  <2>2. \E q \in {"idle", "wait", "poll", "read"} : Moves(w, q)
    BY <1>1, <1>2, WaitTimeoutStep, WaitIoctlErrorStep, WaitEventStep, WaitPollStep,
       WaitPollNoneStep, WaitBeginStep, WaitPollDropStep, WaitPollFlushDoneStep
  <2>3. waiter'[w].pc \in {"idle", "wait", "poll", "read"}
    BY <2>2 DEF Moves
  <2> QED
    BY <1>1, <2>1, <2>3
<1>3. CASE AckRead(w)
  <2>1. waiter[w].pc = "read" /\ armSn' = armSn /\ dbSn' = dbSn
    BY <1>3 DEF AckRead, snVars
  <2>2. waiter'[w].pc = "ack" /\ waiter'[w].sn = (armSn + 1) % SnMod
    BY <1>1, <1>3, AckReadStep DEF Moves
  <2> QED
    BY <1>1, <2>1, <2>2
<1>4. CASE AckWrite(w)
  <2>1. waiter[w].pc = "ack" /\ armSn' = waiter[w].sn /\ dbSn' = dbSn
    BY <1>4 DEF AckWrite
  <2>2. waiter'[w].pc = "load"
    BY <1>1, <1>4, AckWriteStep DEF Moves
  <2> QED
    BY <1>1, <2>1, <2>2
<1>5. CASE RearmRead(w)
  <2>1. waiter[w].pc = "load" /\ armSn' = armSn /\ dbSn' = dbSn
    BY <1>5 DEF RearmRead, snVars
  <2>2. waiter'[w].pc = "arm" /\ waiter'[w].sn = armSn
    BY <1>1, <1>5, RearmReadStep DEF Moves
  <2> QED
    BY <1>1, <2>1, <2>2
<1>6. CASE RearmWrite(w)
  <2>1. waiter[w].pc = "arm" /\ armSn' = armSn /\ dbSn' = waiter[w].sn
    BY <1>6 DEF RearmWrite
  <2>2. waiter'[w].pc = "idle"
    BY <1>1, <1>6, RearmWriteStep DEF Moves
  <2> QED
    BY <1>1, <2>1, <2>2
<1>7. CASE WriteCqe \/ (\E cnt \in 1..CrCnt : PollQueue(cnt)) \/ UNCHANGED vars
  <2>1. waiter' = waiter /\ armSn' = armSn /\ dbSn' = dbSn
    BY <1>7 DEF WriteCqe, PollQueue, vars, snVars
  <2> QED
    BY <1>1, <2>1
<1> QED
  BY <1>0, <1>2, <1>3, <1>4, <1>5, <1>6, <1>7 DEF Next, WaitStep

\* Initially the device has seen the number in arm_sn.
LEMMA InitSn == Init => SnInv
BY LocalsType DEF Init, SnInv

\* When one thread waits alone, whatever CQEs occur and whoever polls beside it,
\* every arming doorbell carries the successor of the number the device saw
\* last (arm_sn++ in cdma_u_ack_jfc).
THEOREM NumbersAdvance ==
  ASSUME OneWaiter
  PROVE  Spec => []ArmSnNext
<1>1. Init => TypeOK /\ SnInv
  BY InitType, InitSn
<1>2. TypeOK /\ SnInv /\ [Next]_vars => TypeOK' /\ SnInv'
  BY NextType, NextSn
<1>3. SnInv => ArmSnNext
  BY DEF SnInv, ArmSnNext
<1> QED
  BY <1>1, <1>2, <1>3, PTL DEF Spec

\* The steps of the sole waiter, without other pollers and with CQEs that all
\* yield a record, never lose a wake-up.
LEMMA NextWake ==
  ASSUME OneWaiter, Pollers = {}, ~DropCqes, TypeOK, WakeInv, [Next]_vars
  PROVE  WakeInv'
<1>0. PICK w : Waiters = {w}
  BY DEF OneWaiter
<1> DEFINE I == /\ waiter[w].pc \in {"idle", "wait"} /\ Unread > 0 => events > 0
                /\ waiter[w].pc \in {"idle", "wait", "poll"} /\ Unread = 0 => armed
                /\ waiter[w].pc = "arm" => waiter[w].ci = cqci
<1>1. w \in Waiters /\ I /\ (I' => WakeInv')
  BY <1>0 DEF WakeInv
<1>2. Unread \in Nat /\ events \in Nat /\ (Unread = 0 <=> hwpi = cqci)
  BY TypeFacts, UnreadFacts, Bounds
<1>3. hwpi' = hwpi /\ cqci' = cqci => Unread' = Unread
  BY DEF Unread
<1>4. CASE WriteCqe
  <2>1. waiter' = waiter /\ cqci' = cqci
    BY <1>4 DEF WriteCqe
  <2>2. Unread' > 0 /\ (armed => events' > 0) /\ (~armed => events' = events)
    BY <1>4, WriteCqeStep
  <2>3. Unread' # 0
    BY <2>2
  <2>4. waiter[w].pc \in {"idle", "wait"} => events' > 0
    <3>1. CASE armed
      BY <2>2, <3>1
    <3>2. CASE ~armed
      BY <1>1, <1>2, <2>2, <3>2
    <3> QED
      BY <3>1, <3>2
  <2> QED
    BY <1>1, <2>1, <2>2, <2>3, <2>4
<1>5. CASE (\E cnt \in 1..CrCnt : WaitBegin(w, cnt)) \/ WaitIoctlError(w)
  <2>1. /\ waiter[w].pc \in {"idle", "wait"}
        /\ hwpi' = hwpi /\ cqci' = cqci /\ events' = events /\ armed' = armed
    BY <1>5 DEF WaitBegin, WaitIoctlError
  <2>2. waiter'[w].pc \in {"idle", "wait"}
    BY <1>1, <1>5, WaitBeginStep, WaitIoctlErrorStep DEF Moves
  <2> QED
    BY <1>1, <1>3, <2>1, <2>2
<1>6. CASE WaitEvent(w) \/ WaitTimeout(w)
  <2>1. /\ waiter[w].pc = "wait"
        /\ hwpi' = hwpi /\ cqci' = cqci /\ armed' = armed
    BY <1>6 DEF WaitEvent, WaitTimeout
  <2>2. waiter'[w].pc = "poll"
    BY <1>1, <1>6, WaitEventStep, WaitTimeoutStep DEF Moves
  <2> QED
    BY <1>1, <1>3, <2>1, <2>2
<1>7. CASE WaitPoll(w) \/ AckRead(w) \/ AckWrite(w)
  <2>1. \E q \in {"read", "ack", "load"} : Moves(w, q)
    BY <1>1, <1>7, WaitPollStep, AckReadStep, AckWriteStep
  <2>2. waiter'[w].pc \in {"read", "ack", "load"}
    BY <2>1 DEF Moves
  <2> QED
    BY <1>1, <2>2
<1>8. CASE WaitPollNone(w)
  <2>1. /\ waiter[w].pc = "poll" /\ Unread = 0
        /\ hwpi' = hwpi /\ cqci' = cqci /\ armed' = armed
    BY <1>8 DEF WaitPollNone
  <2>2. waiter'[w].pc = "idle"
    BY <1>1, <1>8, WaitPollNoneStep DEF Moves
  <2>3. Unread' = 0
    BY <1>3, <2>1
  <2>4. ~(Unread' > 0)
    BY <2>3
  <2> QED
    BY <1>1, <2>1, <2>2, <2>3, <2>4
<1>9. CASE RearmRead(w)
  <2>1. cqci' = cqci
    BY <1>9 DEF RearmRead
  <2>2. waiter'[w].pc = "arm" /\ waiter'[w].ci = cqci
    BY <1>1, <1>9, RearmReadStep DEF Moves
  <2> QED
    BY <1>1, <2>1, <2>2
<1>10. CASE RearmWrite(w)
  <2>1. waiter[w].pc = "arm" /\ hwpi' = hwpi /\ cqci' = cqci
    BY <1>10 DEF RearmWrite
  <2>2. waiter'[w].pc = "idle" /\ (cqci # hwpi => events' > 0) /\ (cqci = hwpi => armed')
    BY <1>1, <1>10, <2>1, RearmWriteStep DEF Moves
  <2>3. Unread' = 0 <=> hwpi = cqci
    BY <1>2, <1>3, <2>1
  <2>4. Unread' > 0 => hwpi # cqci
    BY <2>3
  <2> QED
    BY <1>1, <2>2, <2>3, <2>4
<1>11. CASE UNCHANGED vars
  <2>1. waiter' = waiter /\ hwpi' = hwpi /\ cqci' = cqci /\ events' = events /\ armed' = armed
    BY <1>11 DEF vars
  <2> QED
    BY <1>1, <1>3, <2>1
<1>12. ~ \E k \in 1..CrCnt : WaitPollDrop(w, k) \/ WaitPollFlushDone(w, k)
  BY DEF WaitPollDrop, WaitPollFlushDone
<1> QED
  BY <1>0, <1>4, <1>5, <1>6, <1>7, <1>8, <1>9, <1>10, <1>11, <1>12 DEF Next, WaitStep

\* Initially nothing is unread and the queue is armed.
LEMMA InitWake == Init => WakeInv
<1> SUFFICES ASSUME Init PROVE WakeInv
  OBVIOUS
<1>1. hwpi \in Idx /\ cqci \in Idx /\ hwpi = cqci
  BY Bounds DEF Init
<1>2. Unread = 0
  BY <1>1, UnreadFacts
<1>3. ~(Unread > 0)
  BY <1>2
<1>4. \A w \in Waiters : waiter[w].pc = "idle"
  BY LocalsType DEF Init
<1>5. armed
  BY DEF Init
<1> QED
  BY <1>3, <1>4, <1>5 DEF WakeInv

\* The invariant of a thread that waits alone.
THEOREM SoleInvariance ==
  ASSUME OneWaiter, Pollers = {}, ~DropCqes
  PROVE  Spec => []SoleInv
<1>1. Init => TypeOK /\ SoleInv
  BY InitType, InitSn, InitWake DEF SoleInv
<1>2. TypeOK /\ SoleInv /\ [Next]_vars => TypeOK' /\ SoleInv'
  BY NextType, NextSn, NextWake DEF SoleInv
<1> QED
  BY <1>1, <1>2, PTL DEF Spec

\* No wake-up is lost when one thread alone waits and polls, and every CQE
\* yields a record: whenever it is about to block, an event is pending for the
\* unread CQEs, or there are none and the next one raises an event
\* (cdma_wait_queue: poll, ack, rearm).
THEOREM NoLostWakeup ==
  ASSUME OneWaiter, Pollers = {}, ~DropCqes
  PROVE  Spec => []ArmedOrPending
<1>1. SoleInv => WakeInv
  BY DEF SoleInv
<1>2. WakeInv => ArmedOrPending
  BY DEF OneWaiter, WakeInv, ArmedOrPending, Calm
<1> QED
  BY <1>1, <1>2, SoleInvariance, PTL
============================================================================

---------------------------- MODULE CdmaQueueInv ----------------------------
(***************************************************************************)
(* The inductive invariant behind the safety of the data path.  Positions  *)
(* on the send queue are measured from ci (Ahead) or from the device's     *)
(* position (Off), those on the completion queue from cq->ci, so that the  *)
(* wrap of the counters disappears from the argument.                      *)
(***************************************************************************)
EXTENDS CdmaQueue

Ahead(x) == Sub(x, ci)
Off(x)   == Sub(x, hwci)
Blk(x)   == qbuf[SqSlot(x)]
Ce(j)    == cqbuf[CqSlot(j)]

\* A thread is inside its critical section exactly when it holds the lock.
LockInv ==
  /\ \A p \in Posters : post[p].pc # "idle" <=> sqLock = p
  /\ \A p \in Pollers : poll[p].pc # "idle" <=> cqLock = p

\* ci, the device, the doorbell and pi follow each other within one ring.
SqOrder ==
  /\ Ahead(pi) <= SqBlocks
  /\ Ahead(hwci) <= Ahead(db)
  /\ Ahead(db) <= Ahead(pi)

\* What a poster between two steps can rely on: the room it found is still
\* there, and what it has written is in place; the doorbell is behind pi only
\* while a poster is about to ring it.
PostInv ==
  /\ \A p \in Posters :
       /\ post[p].pc \in {"copy", "publish", "ring"} => post[p].cnt >= 1
       /\ post[p].pc \in {"copy", "publish"}
            => Ahead(pi) + post[p].cnt <= SqBlocks /\ db = pi
       /\ post[p].pc = "publish"
            => \A i \in 0..(post[p].cnt - 1) :
                 Blk(Add(pi, i)) = [label |-> pi, cnt |-> post[p].cnt]
       /\ post[p].pc = "ring"
            => /\ pi = Add(db, post[p].cnt)
               /\ Ahead(db) + post[p].cnt = Ahead(pi)
               /\ Blk(db) = [label |-> db, cnt |-> post[p].cnt]
  /\ db # pi => \E p \in Posters : post[p].pc = "ring"

\* The blocks from the device's position to pi are tiled by whole requests.
Pending(x) == Off(x) < Off(pi)

Tile(w) ==
  /\ w.label \in Idx
  /\ w.cnt >= 1
  /\ Off(w.label) + w.cnt <= Off(pi)
  /\ \A y \in Idx :
       Off(w.label) <= Off(y) /\ Off(y) < Off(w.label) + w.cnt => Blk(y) = w
  /\ Add(w.label, w.cnt) # pi
       => Blk(Add(w.label, w.cnt)).label = Add(w.label, w.cnt)

Tiled ==
  /\ \A x \in Idx :
       Pending(x) => /\ Tile(Blk(x))
                     /\ Off(Blk(x).label) <= Off(x)
                     /\ Off(x) < Off(Blk(x).label) + Blk(x).cnt
  /\ hwci # pi => Blk(hwci).label = hwci

\* A WQE in the direct window is a copy of the one at the device's position.
DirectInv == dwqe # NoWqe => hwci # db /\ dwqe = Blk(hwci)

\* The consumer index as the device understands it: that many entries, behind its
\* own position, as it takes for unread.
Pub == Sub(hwpi, Taken)

\* The published index, cq->ci and the device follow each other, no more than a
\* ring is unread, the entry a poller works on counts as unread with the device,
\* and each entry's owner bit is the one of the round before the device's next
\* visit.  A cell with an old index only makes the device wait: nothing here
\* depends on the initial value of swDb.
Holding(p) == poll[p].pc \in {"advance", "ctx", "finish"}

CqOrder ==
  /\ Sub(hwpi, cqci) <= CqEntries
  /\ Sub(cqci, Pub) <= Sub(hwpi, Pub)
  /\ \A p \in Pollers : Holding(p) => Sub(cqci, Pub) >= 1
  /\ \A d \in 0..(CqEntries - 1) :
       Ce(Add(hwpi, d)).owner = Round(Add(hwpi, d))

\* Unread CQEs name blocks between ci and the device's position, in order, and
\* the one a poller works on precedes them.
Unread(j) == Sub(j, cqci) < Sub(hwpi, cqci)

UnreadInv ==
  /\ \A j \in Idx :
       Unread(j) /\ ~Ce(j).fd => Ahead(Ce(j).entry_idx) < Ahead(hwci)
  /\ \A j, k \in Idx :
       /\ Unread(j) /\ Unread(k)
       /\ Sub(j, cqci) < Sub(k, cqci)
       /\ ~Ce(j).fd /\ ~Ce(k).fd
       => Ahead(Ce(j).entry_idx) < Ahead(Ce(k).entry_idx)

CurrentInv ==
  \A p \in Pollers :
    Holding(p) /\ ~CurrentCqe.fd =>
      /\ Ahead(CurrentCqe.entry_idx) < Ahead(hwci)
      /\ \A k \in Idx :
           Unread(k) /\ ~Ce(k).fd
             => Ahead(CurrentCqe.entry_idx) < Ahead(Ce(k).entry_idx)
      /\ poll[p].pc # "advance" => CurrentCqe.entry_idx = ci

\* The conjunction is inductive.
IndInv ==
  /\ TypeOK
  /\ LockInv
  /\ SqOrder
  /\ PostInv
  /\ Tiled
  /\ DirectInv
  /\ CqOrder
  /\ UnreadInv
  /\ CurrentInv
----------------------------------------------------------------------------
(***************************************************************************)
(* How the two rings hold the accepted requests, for the refinement of     *)
(* CdmaFifo.  A request retires when its CQE is parsed, ci meanwhile jumps *)
(* into the middle of its blocks, so these positions are measured          *)
(* backwards from pi.                                                      *)
(***************************************************************************)
Back(x) == Sub(pi, x)

\* Where the k-th request not yet retired starts; the next one starts at pi.
Start(k)   == IF k <= Len(outq) THEN outq[k] ELSE pi
Size(k)    == Back(Start(k)) - Back(Start(k + 1))
Owns(k, x) == Back(Start(k + 1)) < Back(x) /\ Back(x) <= Back(Start(k))

\* A poller works on the CQE of a request; then ci has jumped into its blocks.
HasReq(p) == Holding(p) /\ ~CurrentCqe.fd
HeldReq   == IF \E p \in Pollers : HasReq(p) THEN 1 ELSE 0
Jumped    == \E p \in Pollers : HasReq(p) /\ poll[p].pc # "advance"

\* The requests the device has executed and no poll has retired: the one a
\* poller works on and the unread CQEs but for that of flush done.
LastFd   == IF hwpi # cqci /\ Ce(Sub(hwpi, 1)).fd THEN 1 ELSE 0
Executed == HeldReq + Sub(hwpi, cqci) - LastFd

\* Requests follow each other up to pi.
OutqOrder ==
  /\ outq \in Seq(Idx)
  /\ \A j, k \in 1..(Len(outq) + 1) : j < k => Back(Start(k)) < Back(Start(j))
  /\ \A k \in 1..Len(outq) : Size(k) <= SqBlocks

\* The blocks of a request that ci has not passed hold its WQE and user_ctx.
BlocksKept ==
  \A k \in 1..Len(outq), x \in Idx :
    Owns(k, x) /\ Back(x) <= Back(ci)
      => /\ wrid[SqSlot(x)] = outq[k]
         /\ Blk(x) = [label |-> outq[k], cnt |-> Size(k)]

\* ci lies in the first request while a poller works on it, else not beyond its
\* start, and then behind it by at most the blocks of the request before.
CiFront ==
  /\ Jumped => Owns(1, ci)
  /\ ~Jumped => Back(Start(1)) <= Back(ci)
  /\ ~Jumped /\ Start(1) # ci => Back(ci) - Back(Start(1)) <= Blk(Sub(Start(1), 1)).cnt

\* The CQEs name blocks of the first requests, in their order and without a
\* gap; the device goes on with the request after them; the CQE of flush done
\* is the last.
CqesInOrder ==
  /\ \A p \in Pollers : HasReq(p) => Owns(1, CurrentCqe.entry_idx)
  /\ \A j \in Idx :
       Unread(j) /\ ~Ce(j).fd => Owns(HeldReq + 1 + Sub(j, cqci), Ce(j).entry_idx)
  /\ \A j \in Idx : Unread(j) /\ Ce(j).fd => hwState = "done" /\ j = Sub(hwpi, 1)
  /\ \A p \in Pollers : Holding(p) /\ CurrentCqe.fd => hwState = "done" /\ cqci = hwpi
  /\ Executed <= Len(outq)
  /\ hwci = Start(Executed + 1)

\* What a poller has read is the user_ctx of the first request.
CtxRead ==
  \A p \in Pollers : HasReq(p) /\ poll[p].pc = "finish" => poll[p].ctx = Start(1)

\* Inductive together with IndInv.
FifoInv ==
  /\ OutqOrder
  /\ BlocksKept
  /\ CiFront
  /\ CqesInOrder
  /\ CtxRead
============================================================================

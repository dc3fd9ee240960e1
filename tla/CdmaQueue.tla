----------------------------- MODULE CdmaQueue -----------------------------
(***************************************************************************)
(* The data path of one libcdma queue: threads that post work requests to  *)
(* the send queue (cdma_u_jfs.c), threads that poll the completion queue   *)
(* (cdma_u_jfc.c), and the device between them, which the library drives   *)
(* through a doorbell and reads through CQEs with an owner bit.            *)
(*                                                                         *)
(* The two rings are guarded by two different spin locks, yet meet in the  *)
(* send queue's ci: pollers write it holding the lock of the completion    *)
(* queue, posters read it holding the lock of the send queue.  Every       *)
(* access to what two threads share, or the device reads, is a step of its *)
(* own.                                                                    *)
(*                                                                         *)
(* The free-running 32-bit counters wrap at IdxMod, so the state space is  *)
(* finite without a bound on the number of requests.  A request is named   *)
(* by the index of its first block (Label): that stands for the user_ctx   *)
(* the caller gave it, and tells any two outstanding requests apart.       *)
(***************************************************************************)
EXTENDS Integers, Sequences, FiniteSets

CONSTANTS
  SqBlocks,     \* sq->baseblk_cnt, number of 64-byte blocks of the send queue
  CqEntries,    \* cq->baseblk_cnt, number of entries of the completion queue
  IdxMod,       \* where the free-running counters wrap (2^32 in the code)
  DbMod,        \* CDMA_JFC_DB_CI_IDX_M + 1, where a published index wraps (2^22)
  OldCis,       \* indices earlier JFCs may have left in a doorbell cell
  WrSizes,      \* the block counts cdma_get_wqebb_cnt yields, 1..MAX_SQE_BB_NUM
  CrCnt,        \* the largest cr_cnt a caller passes to dma_poll_queue
  Statuses,     \* the classes of status the device reports
  DwqeEnable,   \* cdma_ctx->dwqe_enable
  Posters,      \* threads that call dma_write, dma_read, dma_cas or dma_faa
  Pollers,      \* threads that call dma_poll_queue
  NoThread      \* the holder of a free lock

\* How cdma_get_cr_status classifies (status, substatus): a pair its table maps
\* to a cr_status (success, an error, flushed), or one the table does not know.
CqeStatus == {"known", "unknown"}

ASSUME RingAssumption ==
  /\ SqBlocks \in Nat \ {0}
  /\ CqEntries \in Nat \ {0}
  /\ IdxMod \in Nat
  /\ \E k \in 1..IdxMod : IdxMod = 2 * SqBlocks * k
  /\ \E k \in 1..IdxMod : IdxMod = 2 * CqEntries * k

ASSUME DbAssumption ==
  /\ DbMod \in Nat
  /\ CqEntries < DbMod
  /\ \E k \in 1..IdxMod : IdxMod = DbMod * k
  /\ OldCis \subseteq 0..(DbMod - 1)

ASSUME CallerAssumption ==
  /\ WrSizes \subseteq 1..SqBlocks
  /\ CrCnt \in Nat \ {0}
  /\ Statuses \subseteq CqeStatus
  /\ "known" \in Statuses
  /\ DwqeEnable \in BOOLEAN
  /\ NoThread \notin Posters \cup Pollers

VARIABLES
  pi, ci,       \* sq->pi and sq->ci
  qbuf,         \* the ring of WQE blocks
  wrid,         \* sq->wrid: the user_ctx of the request in each block
  sqLock,       \* holder of sq->lock
  post,         \* locals of each poster
  db,           \* the doorbell register: the pi last announced to the device
  dwqe,         \* the WQE last pushed through the direct-WQE window, or NoWqe
  hwci,         \* device: index of the next WQE to execute
  hwpi,         \* device: index of the next CQE to write
  hwState,      \* device: "ready", "error" (flushing) or "done" (flushed)
  cqbuf,        \* the ring of CQEs
  cqci,         \* cq->ci
  swDb,         \* *cdma_jfc->sw_db: the masked consumer index the device reads
  cqLock,       \* holder of cq->lock
  poll,         \* locals of each poller
  outq          \* history: labels of accepted requests not yet completed

sqVars == <<pi, qbuf, wrid, sqLock, post, db>>
hwVars == <<hwci, hwpi, hwState, cqbuf>>
cqVars == <<ci, cqci, swDb, cqLock, poll>>
vars   == <<sqVars, hwVars, cqVars, dwqe, outq>>
----------------------------------------------------------------------------
(* Free-running counters and rings *)

Idx == 0..(IdxMod - 1)

\* Mutant of Add: the counter does not wrap.
AddNoWrap(x, d) == x + d

\* x + d and x - y of two counters, modulo the counter width, for d <= IdxMod.
Add(x, d) == IF x + d < IdxMod THEN x + d ELSE x + d - IdxMod
Sub(x, y) == IF x >= y THEN x - y ELSE x - y + IdxMod

SqSlot(x) == x % SqBlocks
CqSlot(x) == x % CqEntries
SqSlots   == 0..(SqBlocks - 1)
CqSlots   == 0..(CqEntries - 1)

\* What *sw_db keeps of a counter.
DbIdx     == 0..(DbMod - 1)
Masked(x) == x % DbMod

\* Contents of memory nobody wrote yet (wrid comes from malloc).
Garbage == -1
Label   == Idx \cup {Garbage}

\* A WQE is named by its label; its size is what its header says.
Wqe   == [label : Label, cnt : WrSizes \cup {0}]
NoWqe == [label |-> Garbage, cnt |-> 0]

\* A CQE.  entry_idx keeps the whole index: its only use is modulo SqBlocks.
Cqe == [owner : {0, 1}, entry_idx : Idx, fd : BOOLEAN, status : CqeStatus]

\* The round a completion queue index is in; a CQE is new when its owner bit
\* differs from the round bit of the reader's index.
Round(x) == (x \div CqEntries) % 2
----------------------------------------------------------------------------
(* Posting: cdma_post_sq_wr and what it calls *)

PostPc     == {"idle", "check", "copy", "publish", "ring"}
PostLocals == [pc : PostPc, cnt : WrSizes \cup {0}]

\* Takes sq->lock with a request of cnt blocks, 0 standing for a request whose
\* opcode or sge count the code rejects.
PostLock(p, cnt) ==
  /\ post[p].pc = "idle"
  /\ sqLock = NoThread
  /\ sqLock' = p
  /\ post' = [post EXCEPT ![p] = [pc |-> "check", cnt |-> cnt]]
  /\ UNCHANGED <<pi, qbuf, wrid, db, hwVars, cqVars, dwqe, outq>>

PostUnlock(p) ==
  /\ sqLock' = NoThread
  /\ post' = [post EXCEPT ![p] = [pc |-> "idle", cnt |-> 0]]

\* -EINVAL: cdma_parse_jfs_opcode or cdma_check_sge_num refuses the request.
PostInvalid(p) ==
  /\ post[p].pc = "check"
  /\ post[p].cnt = 0
  /\ PostUnlock(p)
  /\ UNCHANGED <<pi, qbuf, wrid, db, hwVars, cqVars, dwqe, outq>>

\* Mutant of CheckSqOverflow: off by one.
CheckSqOverflowLax(cnt) == Sub(pi, ci) + cnt > SqBlocks + 1

CheckSqOverflow(cnt) == Sub(pi, ci) + cnt > SqBlocks

\* -ENOMEM: check_sq_overflow, reading a ci that a poller may be moving.
PostOverflow(p) ==
  /\ post[p].pc = "check"
  /\ post[p].cnt # 0
  /\ CheckSqOverflow(post[p].cnt)
  /\ PostUnlock(p)
  /\ UNCHANGED <<pi, qbuf, wrid, db, hwVars, cqVars, dwqe, outq>>

PostCheck(p) ==
  /\ post[p].pc = "check"
  /\ post[p].cnt # 0
  /\ ~CheckSqOverflow(post[p].cnt)
  /\ post' = [post EXCEPT ![p].pc = "copy"]
  /\ UNCHANGED <<pi, qbuf, wrid, sqLock, db, hwVars, cqVars, dwqe, outq>>

\* Mutant of Blocks: the part that wraps to the head of the ring is not copied.
BlocksNoWrap(x, cnt) ==
  {SqSlot(x) + i : i \in 0..(cnt - 1)} \cap SqSlots

\* The slots of a request that starts at index x, wrapping at the ring's end.
Blocks(x, cnt) == {SqSlot(Add(x, i)) : i \in 0..(cnt - 1)}

\* cdma_copy_to_sq: the tail of the ring, then its head.
PostCopy(p) ==
  /\ post[p].pc = "copy"
  /\ qbuf' = [s \in SqSlots |->
                IF s \in Blocks(pi, post[p].cnt)
                THEN [label |-> pi, cnt |-> post[p].cnt]
                ELSE qbuf[s]]
  /\ post' = [post EXCEPT ![p].pc = "publish"]
  /\ UNCHANGED <<pi, wrid, sqLock, db, hwVars, cqVars, dwqe, outq>>

\* The rest of cdma_post_one_wr: user_ctx of every block, then pi.
PostPublish(p) ==
  /\ post[p].pc = "publish"
  /\ wrid' = [s \in SqSlots |->
                IF s \in Blocks(pi, post[p].cnt) THEN pi ELSE wrid[s]]
  /\ pi' = Add(pi, post[p].cnt)
  /\ outq' = Append(outq, pi)
  /\ post' = [post EXCEPT ![p].pc = "ring"]
  /\ UNCHANGED <<qbuf, sqLock, db, hwVars, cqVars, dwqe>>

\* Mutant of UseDirectWqe: earlier requests may still be outstanding.
UseDirectWqeAlways(p) == DwqeEnable /\ post[p].cnt = 1

\* The direct WQE window is used for a lone one-block request.
UseDirectWqe(p) == DwqeEnable /\ post[p].cnt = 1 /\ Sub(pi, ci) = 1

\* cdma_write_dsqe or cdma_update_sq_db: both tell the device the new pi, the
\* former with the WQE itself, read back from the ring.
PostRing(p) ==
  /\ post[p].pc = "ring"
  /\ db' = pi
  /\ dwqe' = IF UseDirectWqe(p) THEN qbuf[SqSlot(Sub(pi, 1))] ELSE dwqe
  /\ PostUnlock(p)
  /\ UNCHANGED <<pi, qbuf, wrid, hwVars, cqVars, outq>>

Post(p) ==
  \/ \E cnt \in WrSizes \cup {0} : PostLock(p, cnt)
  \/ PostInvalid(p)
  \/ PostOverflow(p)
  \/ PostCheck(p)
  \/ PostCopy(p)
  \/ PostPublish(p)
  \/ PostRing(p)
----------------------------------------------------------------------------
(* The device, as the library uses it (external) *)

\* The entries the device takes for unread: it knows the consumer index as far as
\* the doorbell cell shows it.
Taken == LET x == Masked(hwpi) IN IF x >= swDb THEN x - swDb ELSE x - swDb + DbMod

\* Writes one CQE; the device stalls while the consumer index it reads leaves
\* no free entry.
WriteCqe(entry, fd, status) ==
  /\ Taken < CqEntries
  /\ cqbuf' = [cqbuf EXCEPT ![CqSlot(hwpi)] =
                 [owner |-> 1 - Round(hwpi), entry_idx |-> entry,
                  fd |-> fd, status |-> status]]
  /\ hwpi' = Add(hwpi, 1)

\* The WQE the device executes next: the one pushed to it, else from the ring.
NextWqe == IF dwqe # NoWqe THEN dwqe ELSE qbuf[SqSlot(hwci)]

\* Executes the next announced WQE, in order, and reports it under the index
\* of one of its blocks; in the error state WQEs are flushed with status 6.
DevComplete(status) ==
  /\ hwState # "done"
  /\ hwState = "error" => status = "known"
  /\ hwci # db
  /\ \E i \in 0..(NextWqe.cnt - 1) : WriteCqe(Add(hwci, i), FALSE, status)
  /\ hwci' = Add(hwci, NextWqe.cnt)
  /\ dwqe' = NoWqe
  /\ UNCHANGED <<sqVars, cqVars, hwState, outq>>

\* The queue enters the error state.
DevError ==
  /\ hwState = "ready"
  /\ hwState' = "error"
  /\ UNCHANGED <<sqVars, cqVars, hwci, hwpi, cqbuf, dwqe, outq>>

\* All announced WQEs flushed: one CQE with the flush-done flag, then silence.
DevFlushDone ==
  /\ hwState = "error"
  /\ hwci = db
  /\ WriteCqe(hwci, TRUE, "known")
  /\ hwState' = "done"
  /\ UNCHANGED <<sqVars, cqVars, hwci, dwqe, outq>>

Device ==
  \/ \E s \in Statuses : DevComplete(s)
  \/ DevError
  \/ DevFlushDone
----------------------------------------------------------------------------
(* Polling: cdma_u_poll_jfc and what it calls *)

PollPc     == {"idle", "take", "advance", "ctx", "finish", "return"}
PollLocals == [pc : PollPc, want : 0..CrCnt, ctx : Label, crs : Seq(Label),
               fail : BOOLEAN]

PollIdle == [pc |-> "idle", want |-> 0, ctx |-> Garbage, crs |-> <<>>,
             fail |-> FALSE]

PollLock(p, want) ==
  /\ poll[p].pc = "idle"
  /\ cqLock = NoThread
  /\ cqLock' = p
  /\ poll' = [poll EXCEPT ![p] = [PollIdle EXCEPT !.pc = "take", !.want = want]]
  /\ UNCHANGED <<sqVars, hwVars, ci, cqci, swDb, dwqe, outq>>

\* Mutant of NextCqeValid: the owner bit is compared with a constant.
NextCqeValidFirstRound == cqbuf[CqSlot(cqci)].owner = 1

\* cdma_u_get_next_cqe at cq->ci finds a CQE.
NextCqeValid == cqbuf[CqSlot(cqci)].owner # Round(cqci)

\* The CQE cdma_u_poll_one works on; the code keeps a pointer into the ring.
CurrentCqe == cqbuf[CqSlot(Sub(cqci, 1))]

\* cdma_u_poll_one consumes a CQE before it parses it.
PollTake(p) ==
  /\ poll[p].pc = "take"
  /\ Len(poll[p].crs) < poll[p].want
  /\ NextCqeValid
  /\ cqci' = Add(cqci, 1)
  /\ poll' = [poll EXCEPT ![p].pc = "advance"]
  /\ UNCHANGED <<sqVars, hwVars, ci, swDb, cqLock, dwqe, outq>>

\* The loop ends: cr_cnt records, or JFC_EMPTY because nothing is left.
PollStop(p) ==
  /\ poll[p].pc = "take"
  /\ Len(poll[p].crs) = poll[p].want \/ ~NextCqeValid
  /\ poll' = [poll EXCEPT ![p].pc = "return"]
  /\ UNCHANGED <<sqVars, hwVars, ci, cqci, swDb, cqLock, dwqe, outq>>

\* Mutant of PollAdvance: ci only counts completions, entry_idx is ignored.
PollAdvanceCountOnly(p) ==
  /\ poll[p].pc = "advance"
  /\ poll' = [poll EXCEPT ![p].pc = "ctx"]
  /\ UNCHANGED <<sqVars, hwVars, ci, cqci, swDb, cqLock, dwqe, outq>>

\* cdma_u_update_jetty_idx: jump to the completed entry; not for flush done.  The
\* queue pointer in the CQE is the one the JFS was created with, never NULL.
PollAdvance(p) ==
  /\ poll[p].pc = "advance"
  /\ ci' = IF CurrentCqe.fd THEN ci
           ELSE Add(ci, Sub(CurrentCqe.entry_idx, ci) % SqBlocks)
  /\ poll' = [poll EXCEPT ![p].pc = "ctx"]
  /\ UNCHANGED <<sqVars, hwVars, cqci, swDb, cqLock, dwqe, outq>>

\* Mutant of PollReadCtx: the user_ctx is read at the index after the entry.
PollReadCtxLate(p) ==
  /\ poll[p].pc = "ctx"
  /\ poll' = [poll EXCEPT ![p].pc = "finish",
                          ![p].ctx = wrid[SqSlot(Add(ci, 1))]]
  /\ UNCHANGED <<sqVars, hwVars, ci, cqci, swDb, cqLock, dwqe, outq>>

\* cdma_parse_cqe_for_jfc reads the user_ctx while ci still covers its block.
PollReadCtx(p) ==
  /\ poll[p].pc = "ctx"
  /\ poll' = [poll EXCEPT ![p].pc = "finish", ![p].ctx = wrid[SqSlot(ci)]]
  /\ UNCHANGED <<sqVars, hwVars, ci, cqci, swDb, cqLock, dwqe, outq>>

\* cdma_u_update_flush_cr, status the table does not know: JFC_POLL_ERR.  The
\* CQE is gone, ci stays on its block, and the whole call will fail.
PollUnknown(p) ==
  /\ poll[p].pc = "finish"
  /\ CurrentCqe.status = "unknown"
  /\ outq' = IF CurrentCqe.fd THEN outq ELSE Tail(outq)
  /\ poll' = [poll EXCEPT ![p].pc = "return", ![p].ctx = Garbage,
                          ![p].fail = TRUE]
  /\ UNCHANGED <<sqVars, hwVars, ci, cqci, swDb, cqLock, dwqe>>

\* Flush done: no record for the caller, the loop ends as if the ring is empty.
PollFlushDone(p) ==
  /\ poll[p].pc = "finish"
  /\ CurrentCqe.status # "unknown"
  /\ CurrentCqe.fd
  /\ poll' = [poll EXCEPT ![p].pc = "return", ![p].ctx = Garbage]
  /\ UNCHANGED <<sqVars, hwVars, ci, cqci, swDb, cqLock, dwqe, outq>>

\* One completion record for the caller; ci steps over the completed entry.
PollRecord(p) ==
  /\ poll[p].pc = "finish"
  /\ CurrentCqe.status # "unknown"
  /\ ~CurrentCqe.fd
  /\ ci' = Add(ci, 1)
  /\ outq' = Tail(outq)
  /\ poll' = [poll EXCEPT ![p].pc = "take", ![p].ctx = Garbage,
                          ![p].crs = Append(@, poll[p].ctx)]
  /\ UNCHANGED <<sqVars, hwVars, cqci, swDb, cqLock, dwqe>>

\* Mutant of PollReturn: the consumer index is published only after a call
\* that got all the records it asked for.
PollReturnFullOnly(p) ==
  /\ poll[p].pc = "return"
  /\ swDb' = IF Len(poll[p].crs) = poll[p].want THEN Masked(cqci) ELSE swDb
  /\ cqLock' = NoThread
  /\ poll' = [poll EXCEPT ![p] = PollIdle]
  /\ UNCHANGED <<sqVars, hwVars, ci, cqci, dwqe, outq>>

\* Leaving cdma_u_poll_jfc: the device learns the new consumer index only if
\* the call has records; then the caller gets them, or -1 if the call failed.
PollReturn(p) ==
  /\ poll[p].pc = "return"
  /\ swDb' = IF poll[p].crs # <<>> THEN Masked(cqci) ELSE swDb
  /\ cqLock' = NoThread
  /\ poll' = [poll EXCEPT ![p] = PollIdle]
  /\ UNCHANGED <<sqVars, hwVars, ci, cqci, dwqe, outq>>

PollStep(p) ==
  \/ PollTake(p)
  \/ PollStop(p)
  \/ PollAdvance(p)
  \/ PollReadCtx(p)
  \/ PollUnknown(p)
  \/ PollFlushDone(p)
  \/ PollRecord(p)
  \/ PollReturn(p)

Poll(p) ==
  \/ \E want \in 1..CrCnt : PollLock(p, want)
  \/ PollStep(p)
----------------------------------------------------------------------------
\* cdma_u_create_sq: an empty ring, and nothing in wrid yet.
InitSq ==
  /\ pi = 0 /\ ci = 0
  /\ qbuf = [s \in SqSlots |-> NoWqe]
  /\ wrid = [s \in SqSlots |-> Garbage]
  /\ sqLock = NoThread
  /\ post = [p \in Posters |-> [pc |-> "idle", cnt |-> 0]]

\* cdma_u_create_jfc: a zeroed structure and ring.
InitCq ==
  /\ cqci = 0
  /\ cqbuf = [s \in CqSlots |->
                [owner |-> 0, entry_idx |-> 0, fd |-> FALSE, status |-> "known"]]
  /\ cqLock = NoThread
  /\ poll = [p \in Pollers |-> PollIdle]

\* cdma_u_alloc_sw_db hands out a cell as it is, 0 on a new page, and nothing
\* writes it before the first poll that has records.
InitSwDb == swDb \in OldCis \cup {0}

\* The device's side of a new queue (external).
InitHw == hwci = 0 /\ hwpi = 0 /\ hwState = "ready" /\ db = 0 /\ dwqe = NoWqe

Init == InitSq /\ InitCq /\ InitSwDb /\ InitHw /\ outq = <<>>

Next ==
  \/ \E p \in Posters : Post(p)
  \/ Device
  \/ \E p \in Pollers : Poll(p)

Spec == Init /\ [][Next]_vars
----------------------------------------------------------------------------
(* Properties *)

\* Every variable the code has keeps its type: counters stay within their
\* width, memory holds what posters and the device write there.
TypeOK ==
  /\ pi \in Idx /\ ci \in Idx /\ db \in Idx
  /\ qbuf \in [SqSlots -> Wqe]
  /\ wrid \in [SqSlots -> Label]
  /\ sqLock \in Posters \cup {NoThread}
  /\ post \in [Posters -> PostLocals]
  /\ dwqe \in Wqe
  /\ hwci \in Idx /\ hwpi \in Idx
  /\ hwState \in {"ready", "error", "done"}
  /\ cqbuf \in [CqSlots -> Cqe]
  /\ cqci \in Idx /\ swDb \in DbIdx
  /\ cqLock \in Pollers \cup {NoThread}
  /\ poll \in [Pollers -> PollLocals]

\* The send queue is never overrun: although posters check a ci that pollers
\* move under another lock, and the counters wrap, at most SqBlocks blocks lie
\* between ci and pi, and the device's position and the doorbell between them
\* (check_sq_overflow against cdma_u_update_jetty_idx).
SqWindow ==
  /\ Sub(pi, ci) <= SqBlocks
  /\ Sub(pi, hwci) <= Sub(pi, ci)
  /\ Sub(pi, db) <= Sub(pi, hwci)

\* The indices from x up to, but not including, y.
Window(x, y) == {Add(x, i) : i \in 0..(Sub(y, x) - 1)}

\* No block the device has still to read is overwritten by a later request:
\* the ring holds, for each accepted and not yet executed index, a block of
\* the request that owns that index, and a request starts where the device
\* looks for one (cdma_copy_to_sq and its wrap).
WqeIntact ==
  /\ \A x \in Window(hwci, pi) :
       LET w == qbuf[SqSlot(x)]
       IN  w.label \in Window(hwci, pi) /\ Sub(x, w.label) < w.cnt
  /\ hwci # pi => qbuf[SqSlot(hwci)].label = hwci

\* A WQE pushed through the direct window is the one the device is to execute
\* next: the push never overtakes requests announced by the doorbell
\* (the pi - ci = 1 test of cdma_post_sq_wr).
DirectPushInOrder == dwqe # NoWqe => dwqe.label = hwci

\* The owner bit tells exactly whether there is an unread CQE, over every
\* round of the ring and every wrap of the counters, whatever the device's
\* lag behind the software consumer index (cdma_u_get_next_cqe).
OwnerBitExact == NextCqeValid <=> cqci # hwpi

\* When all accepted work is executed and every CQE polled, the send queue has
\* all its blocks back but at most those of the last request: entry indices
\* that name any block of a request, and CQEs dropped for an unknown status,
\* leave no growing leak of credits (cdma_u_update_jetty_idx and ci++).
CreditsReturned ==
  hwci = pi /\ cqci = hwpi /\ cqLock = NoThread
    => Sub(pi, ci) <= qbuf[SqSlot(Sub(pi, 1))].cnt

\* What the data path promises its callers: requests complete in the order in
\* which they were accepted, each one at most once, each with the user_ctx it
\* was posted with.
Fifo == INSTANCE CdmaFifo WITH
          Threads <- Pollers, Requests <- Idx, queue <- outq,
          batch <- [p \in Pollers |-> poll[p].crs]
FifoSpec == Fifo!Spec

\* A completion that a poll call consumed reaches the caller: "the application
\* can poll the queue to obtain the completion message" (doc/CDMA_API.md:222).
\* It does not hold: a CQE of unknown status makes the call return -1 although
\* records before it in the same call were consumed.
RecordsReachCaller == \A p \in Pollers : poll[p].fail => poll[p].crs = <<>>
============================================================================

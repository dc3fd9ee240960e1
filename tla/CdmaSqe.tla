------------------------------ MODULE CdmaSqe ------------------------------
(***************************************************************************)
(* From an API call (dma_write, dma_write_with_notify, dma_read, dma_cas,  *)
(* dma_faa) to a work queue element in the send queue: the checks of the   *)
(* call, the work request it builds, how the WQE is laid out and sized in  *)
(* 64-byte blocks, and the geometry of the ring it is copied to.           *)
(*                                                                         *)
(* CdmaQueue takes the block counts of requests, the power-of-two ring and *)
(* the slot of an index as given; this module derives them.  A call runs   *)
(* under sq->lock from the sizing to the doorbell and is one step here.    *)
(* Addresses and tokens are abstracted to the segment they come from, and  *)
(* the WQE to the byte ranges that are written.                            *)
(***************************************************************************)
EXTENDS Integers, Sequences, FiniteSets, SequencesExt

CONSTANTS
  WordMod,      \* 2^32, where a 32-bit length or product wraps
  IdxMod,       \* 2^32, where the free-running indices wrap
  PageSize,     \* CDMA_HW_PAGE_SIZE
  Configs,      \* queue configurations: depth, and the device's max_jfs_sge
  Calls,        \* the calls applications make: operation and segments
  NoSeg         \* a NULL segment pointer

Ops == {"write", "notify", "read", "cas", "faa"}

\* A segment as the call sees it: its 64-bit length, and whether its address is
\* set (sva is not 0).
Seg == [len : Nat, sva : {0, 1}] \cup {NoSeg}

ASSUME SqeAssumption ==
  /\ WordMod \in Nat /\ WordMod > 256
  /\ IdxMod \in Nat \ {0}
  /\ PageSize \in Nat \ {0}
  /\ Configs \subseteq [depth : Nat \ {0}, max_sge : Nat]
  /\ Calls \subseteq [op : Ops, rmt : Seg, local : Seg, notify : Seg]

VARIABLES
  sq,           \* geometry of the send queue, NoSq before it is created
  pi, ci,       \* sq->pi and sq->ci
  curr,         \* sq->qbuf_curr, as an offset into the ring's memory
  out,          \* history: requests not yet completed, pi behind them and blocks
  last          \* the last call: why it failed or "ok", the WQE it built, and
                \* the number of requests outstanding before it

vars == <<sq, pi, ci, curr, out, last>>
----------------------------------------------------------------------------
(* Sizes, in bytes *)

WqeBb        == 64      \* CDMA_JFS_WQEBB
SgeSize      == 16      \* CDMA_SGE_SIZE
MaxSqeBb     == 4       \* MAX_SQE_BB_NUM
NormalCtlLen == 48      \* SQE_NORMAL_CTL_LEN
NotifyCtlLen == 80      \* SQE_WRITE_NOTIFY_CTL_LEN
NotifyToken  == 48      \* SQE_NOTIFY_TOKEN_ID_FIELD
NotifyAddr   == 56      \* SQE_NOTIFY_ADDR_FIELD
AtomicData   == 64      \* SQE_ATOMIC_DATA_FIELD
MaxSgeRead   == 6       \* CDMA_JFS_MAX_SGE_READ
MaxSgeNotify == 11      \* CDMA_JFS_MAX_SGE_NOTIFY

U32(n) == n % WordMod

\* cdma_sq_cal_wqebb_num, in 32-bit arithmetic: n may be 0.
CalWqebbNum(ctl, n) == U32(ctl + U32((n - 1) * SgeSize)) \div WqeBb + 1
----------------------------------------------------------------------------
(* The ring: cdma_u_create_sq and cdma_u_alloc_queue_buf *)

\* 1ULL << k.
Pow2[k \in Nat] == IF k = 0 THEN 1 ELSE 2 * Pow2[k - 1]

\* ilog64: the number of bits of v.
Ilog[v \in Nat] == IF v = 0 THEN 0 ELSE 1 + Ilog[v \div 2]

\* Mutant of RoundupPow2: one power too low.
RoundupPow2Down(n) == IF n = 1 THEN 1 ELSE Pow2[Ilog[n - 1] - 1]

RoundupPow2(n) == IF n = 1 THEN 1 ELSE Pow2[Ilog[n - 1]]

\* align_power2, the loop over res.
AlignPower2(n) ==
  LET Res[r \in Nat] == IF Pow2[r] >= n THEN r ELSE Res[r + 1]
  IN  Res[0]

Align(n, to) == ((n + to - 1) \div to) * to

\* qbuf_size of a ring of cnt entries of the given size.
QbufSize(cnt, size) ==
  Align(Pow2[AlignPower2(RoundupPow2(RoundupPow2(cnt) * size))], PageSize)

\* Mutant of SqeBbCnt: blocks are reserved for plain requests only.
SqeBbCntPlain(max_sge) ==
  LET bb == CalWqebbNum(NormalCtlLen, max_sge)
  IN  IF bb > MaxSqeBb THEN MaxSqeBb ELSE bb

\* The blocks cdma_u_create_sq reserves for every request.
SqeBbCnt(max_sge) ==
  LET bb == CalWqebbNum(NotifyCtlLen, max_sge)
  IN  IF bb > MaxSqeBb THEN MaxSqeBb ELSE bb

Geometry(cfg) ==
  LET size == QbufSize(RoundupPow2(SqeBbCnt(cfg.max_sge) * cfg.depth), WqeBb)
  IN  [depth |-> cfg.depth, max_sge |-> cfg.max_sge,
       sqe_bb_cnt |-> SqeBbCnt(cfg.max_sge), qbuf_size |-> size,
       baseblk_cnt |-> size \div Pow2[AlignPower2(RoundupPow2(WqeBb))]]

\* The counters and the page are powers of two, a page holds whole blocks, and a
\* configuration is one that a device has: max_sge (an 8-bit field) keeps the
\* sizing within 32 bits, and the ring is at most half the counters' range.
ASSUME RingAssumption ==
  /\ \E w \in 1..32 : IdxMod = Pow2[w]
  /\ \E p \in 6..31 : PageSize = Pow2[p]
  /\ 2 * PageSize <= WqeBb * IdxMod
  /\ \A cfg \in Configs :
       /\ NotifyCtlLen + SgeSize * cfg.max_sge < WordMod
       /\ 2 * SqeBbCnt(cfg.max_sge) * cfg.depth <= IdxMod

NoSq == [depth |-> 0, max_sge |-> 0, sqe_bb_cnt |-> 0, qbuf_size |-> 0,
         baseblk_cnt |-> 0]
----------------------------------------------------------------------------
(* The call and its work request: cdma_u_lib.c and cdma_u_cmd.c *)

\* NULL pointers, and what dma_write_with_notify asks of its notify segment.
ApiCheck(c) ==
  /\ c.rmt # NoSeg /\ c.local # NoSeg
  /\ c.op = "notify" => c.notify # NoSeg /\ c.notify.sva # 0 /\ c.notify.len # 0

RwCheck(rmt, local) ==
  /\ rmt.len # 0 /\ local.len # 0
  /\ rmt.sva # 0 /\ local.sva # 0

\* cdma_fill_sge: the 64-bit length goes into a 32-bit field.
FillSge(who, seg) == [seg |-> who, len |-> U32(seg.len)]

\* Mutant of BuildWr: a read scatters to the remote side.
BuildWrSwapped(op, rmt, local) ==
  [op |-> op, src |-> <<FillSge("local", local)>>, dst |-> <<FillSge("rmt", rmt)>>]

\* cdma_write, cdma_read, cdma_cas and cdma_faa: one element on either side; a
\* read takes the remote segment as its source.
BuildWr(op, rmt, local) ==
  LET l == <<FillSge("local", local)>>
      r == <<FillSge("rmt", rmt)>>
  IN  IF op = "read" THEN [op |-> op, src |-> r, dst |-> l]
                     ELSE [op |-> op, src |-> l, dst |-> r]
----------------------------------------------------------------------------
(* The WQE: cdma_check_sge_num and the fill functions *)

\* cdma_check_sge_num, TRUE when the request passes.
CheckSgeNum(wr) ==
  CASE wr.op \in {"cas", "faa"} -> sq.max_sge # 0
    [] wr.op = "read"   -> Len(wr.dst) <= MaxSgeRead /\ Len(wr.dst) <= sq.max_sge
    [] wr.op = "notify" -> Len(wr.src) <= MaxSgeNotify /\ Len(wr.src) <= sq.max_sge
    [] OTHER            -> Len(wr.src) <= sq.max_sge

\* Mutant of GetCtlLen: the longer control part of a notify is forgotten.
GetCtlLenNormal(op) == NormalCtlLen

GetCtlLen(op) == IF op = "notify" THEN NotifyCtlLen ELSE NormalCtlLen

\* cdma_check_atomic_len.
AtomicLens(op) == IF op = "cas" THEN {4, 8, 16} ELSE {4, 8}
CheckAtomicLen(wr) == wr.op \in {"cas", "faa"} => wr.src[1].len \in AtomicLens(wr.op)

\* n bytes written at an offset of the WQE.
Field(at, n) == [at |-> at, n |-> n]
Ctl          == Field(0, NormalCtlLen)
SgeField(at, i) == Field(at + (i - 1) * SgeSize, SgeSize)

\* Elements of length 0 are skipped.
Keep(kept, s)  == IF s.len # 0 THEN Append(kept, s) ELSE kept
NonEmpty(sges) == FoldLeft(Keep, <<>>, sges)

\* cdma_fill_multi_sge and the loop of cdma_u_fill_read_sqe; rmt is the side
\* the control part names.
FillRw(wr) ==
  LET sges == NonEmpty(IF wr.op = "read" THEN wr.dst ELSE wr.src)
      rmt  == IF wr.op = "read" THEN wr.src[1] ELSE wr.dst[1]
      at   == IF wr.op = "read" THEN NormalCtlLen ELSE GetCtlLen(wr.op)
  IN  [sges |-> sges, rmt |-> rmt.seg, sge_num |-> Len(sges),
       fields |-> {Ctl} \cup {SgeField(at, i) : i \in 1..Len(sges)}
                  \cup IF wr.op = "notify"
                       THEN {Field(NotifyToken, 8), Field(NotifyAddr, 8),
                             Field(AtomicData, 8)}
                       ELSE {}]

\* cdma_u_fill_cas_sqe (swap and compare value) and cdma_u_fill_faa_sqe.
FillAtomic(wr) ==
  LET len == wr.src[1].len
  IN  [sges |-> wr.src, rmt |-> wr.dst[1].seg, sge_num |-> 1,
       fields |-> {Ctl, SgeField(NormalCtlLen, 1), Field(AtomicData, len)}
                  \cup IF wr.op = "cas" THEN {Field(AtomicData + len, len)} ELSE {}]

FillSqe(wr) == IF wr.op \in {"cas", "faa"} THEN FillAtomic(wr) ELSE FillRw(wr)

\* Mutant of NormalSgeNum: an atomic counts its one element only.
NormalSgeNumField(wr, sqe) == sqe.sge_num

\* cdma_get_normal_sge_num: the operands of an atomic take a second element.
NormalSgeNum(wr, sqe) == IF wr.op \in {"cas", "faa"} THEN 2 ELSE sqe.sge_num

\* cdma_get_wqebb_cnt and the cap in cdma_post_one_wr.
WqebbCnt(wr, sqe) ==
  LET bb == CalWqebbNum(GetCtlLen(wr.op), NormalSgeNum(wr, sqe))
  IN  IF bb > MaxSqeBb THEN MaxSqeBb ELSE bb
----------------------------------------------------------------------------
Add(x, d) == (x + d) % IdxMod
Sub(x, y) == (x - y) % IdxMod

\* Mutant of UpdatePtr: a pointer that lands on the end of the ring stays there.
UpdatePtrLax(ptr, inc) ==
  IF ptr + inc <= sq.qbuf_size THEN ptr + inc ELSE ptr + inc - sq.qbuf_size

\* cdma_update_ptr.
UpdatePtr(ptr, inc) ==
  IF ptr + inc < sq.qbuf_size THEN ptr + inc ELSE ptr + inc - sq.qbuf_size

NoSqe == [sges |-> <<>>, rmt |-> "none", sge_num |-> 0, fields |-> {}]
Failed(why) == [ret |-> why, len |-> 0, sqe |-> NoSqe, bb |-> 0, held |-> Len(out)]

\* cdma_verify_jfs_param leaves depth > 0; cdma_u_init_sq.
CreateSq(cfg) ==
  /\ sq = NoSq
  /\ sq' = Geometry(cfg)
  /\ UNCHANGED <<pi, ci, curr, out, last>>

\* What the API function and cdma_rw_check let through.
Accepted(c) == sq # NoSq /\ ApiCheck(c) /\ RwCheck(c.rmt, c.local)

\* DMA_STATUS_INVAL from those checks.
CallInvalid(c) ==
  /\ sq # NoSq /\ ~Accepted(c)
  /\ last' = Failed("param")
  /\ UNCHANGED <<sq, pi, ci, curr, out>>

\* DMA_STATUS_INVAL from cdma_check_sge_num or a length an atomic cannot have.
CallRejected(c) ==
  /\ Accepted(c)
  /\ LET wr == BuildWr(c.op, c.rmt, c.local)
     IN  ~(CheckSgeNum(wr) /\ CheckAtomicLen(wr))
  /\ last' = Failed("request")
  /\ UNCHANGED <<sq, pi, ci, curr, out>>

Overflow(bb) == Sub(pi, ci) + bb > sq.baseblk_cnt

\* The rest of cdma_post_one_wr: DMA_STATUS_INVAL from check_sq_overflow, else
\* the WQE is copied to qbuf_curr and pointer and pi move on.
CallPosted(c) ==
  /\ Accepted(c)
  /\ LET wr  == BuildWr(c.op, c.rmt, c.local)
         sqe == FillSqe(wr)
         bb  == WqebbCnt(wr, sqe)
     IN  /\ CheckSgeNum(wr) /\ CheckAtomicLen(wr)
         /\ \/ /\ Overflow(bb)
               /\ last' = Failed("full")
               /\ UNCHANGED <<pi, curr, out>>
            \/ /\ ~Overflow(bb)
               /\ curr' = UpdatePtr(curr, bb * WqeBb)
               /\ pi' = Add(pi, bb)
               /\ out' = Append(out, [end |-> Add(pi, bb), bb |-> bb])
               /\ last' = [ret |-> "ok", len |-> c.local.len, sqe |-> sqe,
                           bb |-> bb, held |-> Len(out)]
  /\ UNCHANGED <<sq, ci>>

\* A poll retires the oldest request: ci steps over the block the device names,
\* one of the blocks of that request (external; CdmaQueue has its steps).
Complete(i) ==
  /\ out # <<>>
  /\ i \in 1..Head(out).bb
  /\ ci' = Sub(Head(out).end, Head(out).bb - i)
  /\ out' = Tail(out)
  /\ UNCHANGED <<sq, pi, curr, last>>

Init ==
  /\ sq = NoSq
  /\ pi = 0 /\ ci = 0 /\ curr = 0
  /\ out = <<>>
  /\ last = [ret |-> "none", len |-> 0, sqe |-> NoSqe, bb |-> 0, held |-> 0]

Next ==
  \/ \E cfg \in Configs : CreateSq(cfg)
  \/ \E c \in Calls : CallInvalid(c) \/ CallRejected(c) \/ CallPosted(c)
  \/ \E i \in 1..MaxSqeBb : Complete(i)

Spec == Init /\ [][Next]_vars
----------------------------------------------------------------------------
Posted == last.ret = "ok"
FieldEnd(f) == f.at + f.n

\* The blocks copied to the ring hold the whole WQE and no block too many, for
\* every operation, atomic width and length, requests without an element
\* included, and the WQE never outgrows the buffer it is built in: the sizing by
\* control length and element count (cdma_get_wqebb_cnt) agrees with what the
\* fill functions write.
BlockCountExact ==
  Posted =>
    LET end == CHOOSE e \in {FieldEnd(f) : f \in last.sqe.fields} :
                 \A f \in last.sqe.fields : FieldEnd(f) <= e
    IN  /\ WqeBb * (last.bb - 1) < end /\ end <= WqeBb * last.bb
        /\ last.bb \in 1..MaxSqeBb

\* The parts of a WQE do not overlap: elements, notify fields and the operands
\* of atomics each have their own bytes.
FieldsDisjoint ==
  \A f, g \in last.sqe.fields : f # g => FieldEnd(f) <= g.at \/ FieldEnd(g) <= f.at

\* A request that is accepted names the local memory in its elements, all of
\* its bytes, and the remote segment in its control part, whatever the
\* direction: true below the 32-bit length of an element (cdma_fill_sge).
WholeSegment ==
  Posted /\ last.len < WordMod =>
    /\ Len(last.sqe.sges) = 1
    /\ last.sqe.sges[1] = [seg |-> "local", len |-> last.len]
    /\ last.sqe.rmt = "rmt"

\* qbuf_curr, moved by cdma_update_ptr, stays the block of pi, over every wrap
\* of the ring and of the counter.
CurrMatchesPi == sq # NoSq => curr = (pi % sq.baseblk_cnt) * WqeBb

\* The ring is a power of two of blocks that divides the counters' range, in
\* whole pages, as the masks of the code and CdmaQueue assume.
RingGeometry ==
  sq # NoSq =>
    /\ \E k \in 0..sq.baseblk_cnt : sq.baseblk_cnt = Pow2[k]
    /\ sq.baseblk_cnt * WqeBb = sq.qbuf_size
    /\ sq.qbuf_size % PageSize = 0
    /\ IdxMod % (2 * sq.baseblk_cnt) = 0

\* A queue of depth d refuses a request as full only when d - 1 or more are
\* outstanding: the blocks reserved per request (sqe_bb_cnt, from the largest
\* notify) cover every request; one may be missing because the device may name
\* the first block of the last completed request.
DepthHonoured == last.ret = "full" => last.held >= sq.depth - 1
----------------------------------------------------------------------------
(***************************************************************************)
(* The inductive invariant behind these properties.                        *)
(***************************************************************************)
Idx == 0..(IdxMod - 1)

TypeOK ==
  /\ sq = NoSq \/ \E cfg \in Configs : sq = Geometry(cfg)
  /\ pi \in Idx /\ ci \in Idx /\ curr \in Nat
  /\ out \in Seq([end : Idx, bb : 1..MaxSqeBb])
  /\ last.ret \in {"none", "param", "request", "full", "ok"}
  /\ last.held \in Nat

\* Nothing is posted before the queue exists.
FreshInv == sq = NoSq => pi = 0 /\ ci = 0 /\ curr = 0 /\ out = <<>> /\ last.ret = "none"

\* The WQE of the last call is the one its segments ask for; a call that failed
\* left none.
LastInv ==
  IF Posted
  THEN \E c \in Calls :
         LET wr == BuildWr(c.op, c.rmt, c.local)
         IN  /\ ApiCheck(c) /\ RwCheck(c.rmt, c.local) /\ CheckAtomicLen(wr)
             /\ last.len = c.local.len
             /\ last.sqe = FillSqe(wr)
             /\ last.bb = WqebbCnt(wr, last.sqe)
  ELSE last.sqe = NoSqe

\* No request takes more blocks than are reserved for it: pi is at most that many
\* per outstanding request ahead of the end of a request, and of ci, which the
\* device may leave at the first block of the last completed request.
RoomInv ==
  sq # NoSq =>
    /\ \A j \in 1..Len(out) :
         /\ out[j].bb <= sq.sqe_bb_cnt
         /\ Sub(pi, out[j].end) <= (Len(out) - j) * sq.sqe_bb_cnt
    /\ Sub(pi, ci) <= Len(out) * sq.sqe_bb_cnt + sq.sqe_bb_cnt - 1

\* The conjunction is inductive: where pointer, counters and outstanding requests
\* of the send queue are after any sequence of calls and completions, and where
\* the WQE of the last call comes from.
SqeInv ==
  /\ TypeOK
  /\ FreshInv
  /\ LastInv
  /\ CurrMatchesPi
  /\ RoomInv
  /\ DepthHonoured
============================================================================

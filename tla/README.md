# libcdma in TLA+

libcdma is the user-space library of the CDMA device: an application opens a
context on a device, allocates queues, registers memory segments, posts one-sided
operations (write, read, compare-and-swap, fetch-and-add) and polls or waits for
their completions. The library talks to the device through rings in shared memory
and doorbell registers, and to the kernel driver through ioctls. This directory
holds TLA+ models of the parts of the library that keep state, the TLC
configurations that check them, and TLAPS proofs of every safety property the passing
runs check: of the data path and its teardown, work requests and ring geometry, event
mode, the doorbell allocator, device enumeration, the life of contexts, queues and
segments, and the log rate limiter.

## The system

| Part | Source | State | Operations | What is hard |
|---|---|---|---|---|
| Send queue (JFS) | `cdma_u_jfs.c` | ring of 64-byte blocks, `pi`, `ci`, `wrid`, spin lock, doorbell page | post, ring the doorbell or push a direct WQE, create, delete | `ci` belongs to the pollers' lock; requests of 1 to 4 blocks wrap; counters wrap |
| Completion queue (JFC) | `cdma_u_jfc.c` | ring of CQEs, `cq.ci`, software doorbell, spin lock, `arm_sn` | poll, acknowledge, arm, clean, create, delete | owner bit, index jumps, errors half-way through a batch |
| Completion events (JFCE) | `cdma_u_event.c`, `cdma_u_jfc.c` | an armed flag in the device, events in the kernel | wait, poll | lost wake-ups, timeouts against late completions |
| Software doorbells | `cdma_u_db.c` | list of pages, bitmap and use count per page | allocate and free a cell | cells handed out twice, pages freed too early |
| Queue, TP, context, segment | `cdma_u_queue.c`, `cdma_u_tp.c`, `cdma_u_context.c`, `cdma_u_segment.c` | what has been acquired | create, delete | failure in the middle of five nested functions |
| Log rate limiter | `cdma_u_log.c` | window start and counter, atomics | ask whether to log | two atomics that are not updated together |
| Work requests, ring geometry | `cdma_u_cmd.c`, fill functions of `cdma_u_jfs.c`, `cdma_u_common.[ch]` | ring sizes, current pointer | check a call, build, lay out and size a WQE | sizing and filling are separate code; 32-bit arithmetic and lengths |
| Devices | `cdma_u_device.c` | lists of open descriptors | list devices, find one by entity id, give lists back | a directory that changes between two looks, half-failed entries, descriptors shared by threads |
| API layer | `cdma_u_lib.c` | none of its own | check parameters, forward calls | the order of calls it needs and does not check |

How the parts interact: `dma_write` and its siblings build one work request and post
it to the send queue; the device executes it and writes a CQE to the completion
queue; `dma_poll_queue` consumes the CQE, moves the send queue's `ci` and publishes
`cq.ci` in the software doorbell, which the device reads before it writes more CQEs.
`dma_wait_queue` blocks in the kernel for an event the device raises, polls, and
arms the queue again. Creating a queue allocates the rings and one cell of the
software doorbell pages, all of which the device uses until the kernel objects are
deleted.

The properties that make the parts correct: the send queue is never overrun and
nothing the device has still to read is overwritten; a WQE fills exactly the blocks it
is given and names the right memory; every request completes once, in order, with its
own `user_ctx`; blocks come back; nothing waits for ever; no wake-up
is lost; no two JFCs share a doorbell cell; a failed or completed call leaves no
resource behind and takes none from the device; every open descriptor has one owner,
and a context's stays open as long as the context.

## Modules

| Module | Models | Checked by |
|---|---|---|
| `CdmaFifo` | abstract specification of the data path: a queue of requests, batches of records | refinement, from `CdmaQueue` |
| `CdmaQueue` | posting, device, polling | `MCCdmaQueue` with two configurations |
| `CdmaQueueInv` | the inductive invariants of the data path | run `queue_live` |
| `CdmaQueueLive` | fairness and progress of the data path, with the history of what the device has not been told | `MCCdmaQueueLive` with two configurations |
| `CdmaRingLemmas` | lemmas on slots and rounds of ring indices, and on least elements | TLAPS |
| `CdmaQueueProofs` | lemmas on the counters, type correctness of `CdmaQueue`, each actor's steps preserve the invariant | TLAPS |
| `CdmaQueueSafety` | the invariant is inductive, and what follows from it; `CdmaQueue` implements `CdmaFifo`; credits come back; proofs about `CdmaTeardown` | TLAPS |
| `CdmaTeardown` | deleting a queue under its data path: `CdmaQueue` and the scan of `cdma_u_clean_jfc` | `MCCdmaTeardown` |
| `CdmaSqe` | from an API call to a WQE in the ring: checks, layout, sizing, ring geometry | `MCCdmaSqe` |
| `CdmaSqeProofs` | proofs about work requests and ring geometry | TLAPS |
| `CdmaEvent` | waiting in event mode | `MCCdmaEvent`, two configurations |
| `CdmaEventProofs` | proofs about event mode | TLAPS |
| `CdmaSwDb` | the software doorbell allocator | `MCCdmaSwDb` |
| `CdmaSwDbProofs` | proofs about the allocator | TLAPS |
| `CdmaLogRl` | the log rate limiter | `MCCdmaLogRl`, two configurations |
| `CdmaLogRlProofs` | proofs about the rate limiter | TLAPS |
| `CdmaLifecycle` | creation, failure, unwinding, deletion of contexts, queues, segments | `MCCdmaSession` |
| `CdmaDevice` | finding devices | `MCCdmaSession` |
| `CdmaSession` | composes `CdmaDevice` and `CdmaLifecycle` behind the entry points of the API | `MCCdmaSession` |
| `CdmaSessionProofs` | proofs about devices, objects and their composition | TLAPS |

Operators named "mutant of X" are plausible wrong versions of the definition X that
follows them. They are not part of the model: replacing X by one of them must make
TLC report a violation, which shows that a property can tell right code from wrong.

### CdmaQueue

Posters are the threads inside `cdma_post_sq_wr`, pollers those inside
`cdma_u_poll_jfc`. A poster takes `sq->lock`, checks the room against a `ci` that
pollers move under their own lock, copies the WQE, writes `wrid` and `pi`, and rings
the doorbell or pushes the WQE; each of these is an action (`PostLock`, `PostCheck`,
`PostCopy`, `PostPublish`, `PostRing`, and the two error returns `PostInvalid` and
`PostOverflow`). A poller takes `cq->lock` and, per CQE, advances `cq.ci`
(`PollTake`), jumps `ci` to the reported entry (`PollAdvance`), reads the `user_ctx`
(`PollReadCtx`) and ends in one of `PollRecord`, `PollFlushDone`, `PollUnknown`;
`PollReturn` publishes the software doorbell and releases the lock.

The device is modelled from how the library uses it, and is the only external part:

* it executes announced WQEs in order and completes them in order: `order_comp` of the
  JFS flags is 0, which `cdma_u_types.h` line 23 calls "not support" of out-of-order
  completion, since `cdma_u_create_queue` starts from a zeroed `jfs_cfg` and nothing sets
  the flag; `cdma_u_update_jetty_idx` is only meaningful with completions in order. The
  per-request flag `comp_order`, which is 0 too, is about ordering a request after
  earlier ones and is not relied on;
* a CQE carries the index of any block of its WQE: the code accepts all of them, so
  the model does not choose;
* it stops writing CQEs while the consumer index in the doorbell cell leaves no free entry
  (`Taken`); it reads the cell as it finds it, masked to 22 bits (`Masked`, `DbMod`);
* after an error it flushes what is announced, reports flush done once, and is silent.

Abstractions: `user_ctx` is the index of the request's first block, which tells any
two outstanding requests apart and makes `wrid` checkable; a WQE is its label and
its block count; of the CQE status only "the table of `cdma_get_cr_status` knows it"
matters; the counters wrap at `IdxMod` in place of 2^32, a multiple of twice each
ring size as in the code, where all are powers of two; a call posts a list of one
request, as every caller in `cdma_u_cmd.c` does. Memory is sequentially consistent:
the barriers of the code are taken to work, and the missing one between reading
`wrid` and storing `ci` is listed as a hazard. `outq` is a history variable. The error
path for a CQE without a queue pointer (`cdma_u_jfc.c` lines 195 and 292) is left out: the
device echoes the pointer `cdma_u_create_jfs` gave it, which is not NULL.

A new queue starts with everything at 0 but its doorbell cell: `cdma_u_alloc_sw_db` hands
out a cell of a page in use without clearing it, and `cdma_u_create_jfc` does not write it,
so `swDb` starts with 0 (a new page) or any of `OldCis`, the indices earlier JFCs may have
left. All safety results hold whatever it is.

### CdmaQueueLive

The device learns of polled entries only from calls that have records. `lag` counts what
it has not been told: entries whose CQE a call dropped (unknown status, flush done) since
the last call with records, and at first what an old index in the cell amounts to.
`Starved` is a `lag` of a whole ring. `EventuallyRetired` says that a request is retired
unless the queue was flushed or the device is starved, so that nothing but those two causes
holds it up. `EveryRequestRetires` leaves `Starved` out and is false: run `queue_stall`
shows it with a clean cell and CQEs of unknown status. The old index alone does the
same in the model (the constants of that run with `OldCis = {1}` and known statuses only);
whether it does on a device depends on when the device first reads the cell.

`CdmaQueue` takes the block counts of requests, a power-of-two ring and the slot of an
index as given; `CdmaSqe` derives them from the code.

### CdmaSqe

One call is one step, as it runs under `sq->lock` from the sizing to the doorbell: the
parameter checks of `cdma_u_lib.c` and `cdma_rw_check`, the work request of
`cdma_u_cmd.c`, the fill functions, `cdma_get_wqebb_cnt`, the overflow check, and the move
of `qbuf_curr` and `pi`. A segment is its length and whether it has an address; a WQE is
the set of byte ranges written to it and the elements it names. `Geometry` computes the
ring from depth and `max_sge` through the rounding helpers. The product of depth and
blocks is taken to fit 32 bits (the depth is bounded by the device's capabilities).
`Complete` stands for polling and is external.

What the run shows beyond "holds": lengths from 2^32 on are outside `WholeSegment`,
because `cdma_fill_sge` keeps their low 32 bits only, and a multiple of 2^32 gives a WQE
without any element; such a WQE is still sized right (0 - 1 elements in 32-bit arithmetic).
`DepthHonoured` allows one request less than the depth, because the device may name the
first block of the last completed request.

### CdmaTeardown

`cdma_u_delete_jfs` deletes the JFS in the kernel and calls `cdma_u_clean_jfc`. The
application frees a queue when no thread uses it, so posters and pollers are idle; the
device stops with the delete ioctl, or goes on when that fails. The scan and the way back
are one action per entry. `CleanExact` has three provisos (`Comparable`), each needed (TLC finds a
counterexample when it is dropped): the scan compares every entry with the owner phase of
`cq.ci`, so it is wrong once the device has entered the next round of the ring; its bound
`ci + cnt` is compared without regard to wrap, so in the last round before 2^32 nothing is
cleaned; and `(int)--pi - (int)ci` overflows at `ci = INT_MIN`, where a compiler may answer
either way. None of them is observable today: the only caller deletes the completion queue
next, and each JFC serves one JFS, which is also why the branch that moves entries of other
queues is not modelled. So `CleanExact` says what cleaning does when the device goes on
beside it, and would not catch those three miscounts, which the code has.

`CleanEnds` is about termination: when the device has just finished a round of the ring,
every entry passes the owner test, whatever `cq.ci`, and only the bound ends the scan. It
has two provisos, each needed (TLC finds an endless scan without): for `ci + cnt = 2^32 - 1`
no `pi` exceeds the bound, and at `ci = INT_MIN` the test that should end the way back
overflows. There the delete call may never return, holding `cq->lock`.

### CdmaEvent

`dma_wait_queue` as steps: the ioctl returns events, times out or fails; the poll of
the completion queue (one step here, being under its lock); the increment of `arm_sn`, a
read and a write without a lock; reading `cq.ci` and `arm_sn`; the arming doorbell. The
device raises one event per arming: on the next CQE, or at once if there are CQEs beyond
the index the doorbell carries. That index has no other use in the library, and without
this meaning the poll-then-arm order of `cdma_wait_queue` would lose wake-ups, which is
what the mutant `RearmWriteNoIndex` shows. `arm_sn` is kept modulo `SnMod`, the two bits
the doorbell has for it, and the indices of the completion queue modulo `IdxMod`, here the
22 bits the doorbells have, which is why the mask in `cdma_u_rearm_jfc` does not appear.
A wait that times out without a completion ends in `WaitPollNone` and returns `-EFAULT`,
where `doc/CDMA_API.md` line 354 has "0 on 0 event success".
The device's room is judged by `cq.ci` itself; how the software doorbell lags behind it is
the subject of `CdmaQueue` and `CdmaQueueLive`.

### CdmaLifecycle, CdmaDevice, CdmaSession

In `CdmaLifecycle` an object's create call is the sequence of resources it acquires; when
one fails, the call continues with the fall-through of the error label that the code
jumps to, then with the labels of the functions around it. A delete ioctl, `ummu_ungrant`
or `ummu_free_tid` that fails is logged or ignored and the call goes on; `orphans`
counts the refused ones. `DeviceMemoryHeld` speaks of the kernel objects the library
believes it has: under a refused one the memory is freed, and what the kernel then
guarantees is not visible here.

`CdmaDevice` has the two looks at `/dev/cdma` as separate steps that may find any set of
devices, opening and querying per entry with their failures, the array of slots, and the
three ways a list ends (returned, given back, all but one closed). Threads share the
descriptor table, which hands out the lowest free number, so a descriptor closed twice
would be somebody else's. The code closes descriptors above 0 only and would leak
descriptor 0; the model hands out numbers from 1. When the second `opendir` or `calloc`
fails the call returns NULL and leaves the count of the first look in `*num_devices`.

`CdmaSession` puts the entry points of `cdma_u_lib.c` in front of both. Their guards are
the order the API needs and does not check: a context lives on a device of a list that is
not given back before, objects live on a context, the context goes last, one call at a
time works on an object.

### CdmaSwDb, CdmaLogRl

Every operation on doorbell pages runs under `page_mutex` and is one action. The rate
limiter has one action per atomic operation and a clock that ticks in between; a
failing `clock_gettime`, which lets every message through, is left out.

## Runs

| Run | Checks | Result |
|---|---|---|
| `queue_safety` | `TypeOK`, `SqWindow`, `WqeIntact`, `DirectPushInOrder`, `OwnerBitExact`, `CreditsReturned`, refinement of `CdmaFifo`, with CQEs of unknown status | holds, 3.1 million states |
| `queue_live` | `EventuallyRetired` under fairness, `IndInv`, `FifoInv`, with CQEs of unknown status and any old index in the doorbell cell | holds, 0.45 million states |
| `queue_stall` | `EveryRequestRetires` under the same fairness, a new doorbell page, CQEs of unknown status | violated: a ring full of CQEs without a record is never published, and the device stops |
| `queue_lost` | `RecordsReachCaller` | violated: a poll call that fails on an unknown status loses the records it had consumed |
| `queue_teardown` | `CleanExact`, `TdInv`, `CleanEnds` under fairness | holds, 0.5 million states |
| `sqe` | `BlockCountExact`, `FieldsDisjoint`, `WholeSegment`, `CurrMatchesPi`, `RingGeometry`, `DepthHonoured`, `SqeInv` | holds, 89 thousand states |
| `event_mixed` | `SilentOnlyAfterError`: several waiters, a poller, timeouts, dropped CQEs | holds, 5 million states |
| `event_sole` | `ArmedOrPending`, `ArmSnNext`, `EventuallyPolled`, `SoleInv`: one waiter alone | holds |
| `session` | `FdsExact`, `SlotsInBounds`, `ContextDeviceOpen`, `NoLeak`, `ReleasedOnce`, `DeviceMemoryHeld`, `CleanFindsJfc`, `SessInv` | holds, 0.95 million states |
| `swdb` | `NoAlias`, `HeldIsMapped`, `UseCntExact`, `BitmapExact` | holds, 89 thousand states |
| `log` | `UnracedBurst`, `NoSilentInterval`, `LogInv` for three callers | holds, 0.6 million states |
| `log_burst` | `WindowBurst` for two callers | violated: the counter is reset after the window is published |

Bounds. `queue_safety` has a send queue of 4 blocks, requests of 1 and 3 blocks
(so that requests wrap at every offset), a completion queue of 2 entries (fewer than
outstanding requests, so that the device stalls) and counters that wrap at 8, twice
the send queue, while the published index wraps at 4 and starts with any value; the runs
have no bound on the number of requests. Two posters and two
pollers contend for each lock. The real rings are larger powers of two, and the proofs
below do not depend on the size. `queue_live` has rings of 2 and counters that wrap at 4, one
poster and two pollers: liveness is dearer, and two CQEs in a row without a record, or the
old indices 1 and 2, already starve the device, while 0 and 3 do not. `queue_stall` has one poller and
requests of one block, which suffice for the counterexample. `queue_teardown` has 4 entries, counters that wrap at
16 and published indices that wrap at 8, so that a scan meets the round bit, the signed middle and the wrap of the counters; a
poll takes one record, as batches matter to the data path only.
Deadlock is not checked there because a cleaned queue is the end.

`sqe` has pages of 256 bytes in place of 4096, so that rings of 4 and more blocks wrap soon,
32-bit lengths that wrap at 1024, above every size in the layout, indices that wrap at 16,
and calls of every operation with every atomic width, a length no atomic has, lengths at
and above the wrap, and each segment NULL, empty or without an address.

`event_*`: the completion queue has 2 entries and counters that wrap at 4; `MaxEvents` caps
events the kernel holds, and one event per arming is owed at most. `swdb` has 5 JFCs over
pages of 3 cells in a bitmap of 4 bits (in the code too the bitmap may have bits beyond the
last cell), so that a page fills, a second is added, and pages empty in any order.
`log*` bounds the clock and the calls per thread (`MaxClock`, `MaxCalls`), enough for two
window changes; deadlock is not checked there because the bounded clock stops.

`session` has two threads, two devices of which one has the entity id, three descriptors
(fewer than two threads may ask for, so that opening fails for want of one too), a context
and one object besides it at a time, taken from a queue, a segment and an import
(`MaxObjects`: objects of a context share nothing but the context), and up to two
refused releases (`MaxOrphans`).

Fairness. `queue_live`: a thread inside a spin-locked section runs, the device
executes announced work, and the application keeps polling (some poller takes the
lock when it is free, no particular one). Entering the error state and reporting flush
done are not fair: nothing makes a device fail. `queue_stall` assumes the
same. `queue_teardown`: the thread inside `cdma_u_clean_jfc` runs, as it holds a spin lock;
nothing makes the application delete its queue. `event_sole`: a thread inside
`dma_wait_queue` runs and calls again; the ioctl may fail, but not for ever while an
event is pending; timeouts are not fair, so completions may not rest on them.

## Proofs

All theorems hold for every value of the constants that the named assumptions allow.

| Module | Theorem | States |
|---|---|---|
| `CdmaQueueProofs` | `TypeCorrect` | `Spec => []TypeOK` |
| `CdmaQueueSafety` | `Invariance` | `Spec => []IndInv` |
| | `NoOverrun` | `Spec => []SqWindow` |
| | `WqesIntact` | `Spec => []WqeIntact` |
| | `DirectInOrder` | `Spec => []DirectPushInOrder` |
| | `OwnerBit` | `Spec => []OwnerBitExact` |
| | `FifoInvariance` | `Spec => []FifoInv` |
| | `Credits` | `Spec => []CreditsReturned` |
| | `Refinement` | `Spec => FifoSpec`: the data path implements `CdmaFifo` |
| | `TdInvariance`, `CleanedExactly` | `TdSpec => []TdInv`, `TdSpec => []CleanExact` |
| `CdmaSqeProofs` | `SqeInvariance` | `Spec => []SqeInv` |
| | `PointerOnPi`, `DepthKept`, `RingIsPower` | `CurrMatchesPi`, `DepthHonoured`, `RingGeometry` are invariants |
| | `BlocksExact`, `FieldsApart`, `SegmentWhole` | `BlockCountExact`, `FieldsDisjoint`, `WholeSegment` are invariants |
| `CdmaSwDbProofs` | `DbTypes`, `CellsDistinct`, `CellsMapped`, `PagesCounted`, `BitmapsExact` | `TypeOK`, `NoAlias`, `HeldIsMapped`, `UseCntExact`, `BitmapExact` are invariants |
| `CdmaEventProofs` | `EventTypes`, `SilenceHasCause` | `TypeOK`, `SilentOnlyAfterError` are invariants |
| | `NumbersAdvance` | with one waiter, `Spec => []ArmSnNext` |
| | `SoleInvariance`, `NoLostWakeup` | with one waiter, no poller and no dropped CQE, `SoleInv` and `ArmedOrPending` are invariants |
| `CdmaSessionProofs` | `SessionInvariance` | `Spec => []SessInv` |
| | `DescriptorsExact`, `ArrayBounded`, `DeviceStaysOpen` | `FdsExact`, `SlotsInBounds`, `ContextDeviceOpen` are invariants |
| | `NothingLeaks`, `NoDoubleRelease`, `DeviceNeverDangles`, `CleanInPlace` | `NoLeak`, `ReleasedOnce`, `DeviceMemoryHeld`, `CleanFindsJfc` are invariants |
| `CdmaLogRlProofs` | `LogInvariance`, `NeverSilent`, `BurstKept` | `LogInv`, `NoSilentInterval`, `UnracedBurst` are invariants |

### The data path

Assumed are `RingAssumption` (the counter width is a multiple of twice each ring size; in
the code all are powers of two and the width is 2^32), `DbAssumption` (the width of
the published index divides the counters', 2^22 in the code, and exceeds the ring; `OldCis`
may be any set of such indices) and `CallerAssumption` (a request
fits the ring: it has at most `MAX_SQE_BB_NUM`, that is 4, blocks, and
`cdma_u_alloc_queue_buf` rounds a ring up to a page, that is 64 blocks; a poll asks for at
least one record).

None of the properties is inductive alone. A poster has tested the room
long before it moves `pi`, and a poller moves `ci` in between, so `SqWindow` needs to
know that the room a poster found is still there (`PostInv`) and that `ci` only moves
to blocks the device has executed. The latter is a fact about CQEs: the unread ones
name blocks between `ci` and the device's position, in order, and the one a poller is
working on precedes them (`UnreadInv`, `CurrentInv`). That the poller reads such a CQE
and not an old one is the owner bit, which needs the order of the three completion
queue positions and the round of every entry the device has still to write (`CqOrder`).
The third position is not in the doorbell cell, which has some of its bits only and may
have those of another queue: it is `Pub`, the index the device makes of them. A CQE
written leaves it where it is (`PubWrite`) and a call with records makes it `cq.ci`
(`PubTold`), whatever the cell held at first.
How far the device's position moves depends on the block count in the ring, so the
pending blocks must be tiled by whole requests (`Tiled`), which is also what `WqeIntact`
says; that a tile never crosses the doorbell uses the poster that has published but not
yet rung. `IndInv` is the conjunction; run `queue_live` checks it with TLC.

Positions are measured as distances, from `ci`, from the device or from `Pub`, so that the wrap of the counters is dealt with once, in the lemmas on `Add` and
`Sub` (`SubAdvance`, `SubRebase`, `SubDiff`, ...). Two lemmas carry the modular arithmetic:
indices less than a ring apart have different slots (`SqSlotApart`, `CqSlotApart`, from
`ModApart`), and one ring further on the slot is the same and the round bit flipped
(`NextRound`). Then there is one lemma per action (`PostCopySafe`, `DevCompleteSafe`,
`PollAdvanceSafe`, ...), with one step per conjunct of `IndInv` that the action can
disturb and frame lemmas for the others.

The refinement needs to know which request each place in the rings belongs to. `FifoInv`
relates the history `outq` of accepted requests to them: the requests in `outq` start
where the ring says, one after the other up to `pi` (`OutqOrder`, `BlocksKept`); `ci` lies
in or just behind the first (`CiFront`); the CQE a poller holds and the unread ones name
blocks of the first requests in order, as many as the device has executed (`CqesInOrder`);
and the `user_ctx` a poller has read is that of the first (`CtxRead`). With it every
step of a poster, poller or the device is a step of `CdmaFifo` or leaves its variables
alone, and `CreditsReturned` follows because `ci` then lies in the last request.

### Deleting a queue

`TdInv` keeps `IndInv` up to the end of the cleaning, since the device may go on after a
refused delete ioctl and the owner bits the scan reads mean something only by `CqOrder`. On
top of it `ProgressInv` says where the scan is: not beyond the device (`ScanSees`: an
entry whose owner bit passes the test has been written, as long as scan and device are in
the round of `cq.ci`), and, on the way back, with the freed entries still adding up to what
was found. `Comparable` speaks of a device that moves, so the invariant holds under
it only because it is kept backwards: if the device is in the round of `start` after a
step it was before (`DeviceComparable`). The signed comparison of the way back is right
(`SignedTest`) because the sign changes at a round boundary (`HalfIsRound`), so that within
a round it can only go wrong at `start = Half`.

### Work requests and ring geometry

Assumed are `SqeAssumption` (types; a 32-bit length exceeds the largest WQE) and
`RingAssumption`: counters and pages are powers of two and a page holds whole blocks, as in
the code; and a configuration is one a device can have: `max_sge`, an 8-bit field, keeps
the sizing within 32 bits, and the ring takes at most half of the counters' range. The last
is not checked by the library: the depth is bounded by the device's capabilities.

The rounding helpers are loops over bits. What they compute for every input is proved by
taking a least counterexample (`NatMin` of `CdmaRingLemmas`) after showing that
the recursive functions exist: `Ilog` brackets its argument between powers of two, so
`RoundupPow2` is the least power of two not below it and `AlignPower2` its exponent,
powers of two divide one another, and `RingGeometry` follows. With it `IdxMod` is a
multiple of the ring, so that the conditional subtraction of `cdma_update_ptr` and the
modulus of the slot agree over every wrap: `CurrMatchesPi`, inductive with the types.

`RoomInv` carries `DepthHonoured`: no request takes more than the `sqe_bb_cnt` blocks that
`cdma_u_create_sq` reserves, so `pi` is at most that many per outstanding request ahead of
`ci`, plus what a device that names the first block of a request leaves behind; a full
ring then holds at least `depth - 1` requests. That `sqe_bb_cnt` covers every operation is
an argument per operation on control length and elements. `LastInv` says which call
the last WQE comes from; `BlockCountExact`, `FieldsDisjoint` and `WholeSegment` are then
lemmas on the fill functions, for every call and length.

### Log rate limiter

`LogInv` knows, for each caller between its atomic operations, how its clock relates to the
window it loaded (`CallsInv`), and that every window but the first was opened by a message
that was let through or is about to be (`OpenInv`); `NoSilentInterval` needs no more. For
`UnracedBurst` the counter must bound the messages of the current window, which is a sum
over its seconds (`Logged`); lemmas say how the sum changes with one message and that
it is empty for a window that was just opened (`UnracedInv`). Clock and calls are bounded by any
numbers; `LogAssumption` only asks that the clock sees a whole interval.

### Software doorbells

`DbInv` is the conjunction of `TypeOK`, `BitmapExact`, `NoAlias`, `HeldIsMapped` and
`UseCntExact`, inductive as it stands once `BitmapExact` is in it. The argument turns on
counting: a page the search settles on has `use_cnt` below the number of cells; `use_cnt`
is the number of JFCs in the page, whose cells are distinct; so the bitmap, which has
the bits of all cells not held, has one within the page, and the unchecked result of
`cdma_bitmap_use_idx` is right. Assumed: at least one cell per page and a bitmap with a bit
for each (`SwDbAssumption`); the JFCs may be any set.

### Event mode

`TypeOK` and `SilentOnlyAfterError` hold for any number of waiters and pollers. The other
two are false in general (two waiters may arm with one number, and a thread that polls
beside the waiter takes its CQEs), which is why their theorems have the hypotheses
of the run `event_sole`: one waiter, and for `NoLostWakeup` no poller and no CQE
without a record. `SoleInv` says, for each point in `cdma_wait_queue`, how `arm_sn` is
related to the number in the device and what is known of unread CQEs, events and arming.

### Devices, contexts, queues and segments

`SessInv` has three parts. `DevInv`: types, what a thread between two steps of its look at the
devices relies on (`CallOK`), and `FdsExact`; the lemmas `ExactAdd` and `ExactKeep` say
what opening a descriptor and closing some of a thread's do to it. `LifeInv`: for each
object, where its call stands says what it holds (`ObjInv`). A create call at step n holds
the first n - 1 steps; a call that releases holds what it has still to release, in
an order in which nothing goes before what wants it (`InOrder`), and complete
(`Complete`: everything a kernel object was given is there). That each error label starts
such a sequence is proved per function (`JfsUndo`, `JfcUndo`, `CtxUndo`, ...) and put together
for the queue, whose labels go through five functions (`UndoesConcat`, `QueueUndoes`,
`QueueReleases`); `ObjectSound` states the outcome for every object. `DmaInv`: the context's
device is a slot of a list its thread still holds. Assumed: devices are finitely many, and
the kinds of objects are disjoint. The guards of `CdmaSession`, the order of calls the API
needs of its callers, are part of the specification.

### Only model-checked

Liveness (`EventuallyRetired`, `CleanEnds`, `EventuallyPolled`): fairness and `ENABLED` are
outside what the prover handles. `RecordsReachCaller`, `EveryRequestRetires` and
`WindowBurst` are false of the code, which their runs show.

## Not modelled

* `cdma_wait_ae`: one `poll` and one ioctl, without state in the library. Read from the
  code: two callers woken by one event race for it and the loser's ioctl fails; an event of
  an unknown type is consumed and reported as `-EFAULT`; when `poll` reports neither
  `POLLIN` nor `POLLERR` the call returns 1 and leaves the caller's structure as it was.
* Log levels, formatting and output; the values of ioctl arguments and of flags in the
  control word; mmap offsets; the instructions behind a direct WQE push.
* Weak memory order: the models are sequentially consistent.
* Values that only the kernel bounds: the depth of a queue against the 16 bits of
  `entry_idx`, the 22 bits of a published index and the 32 bits of a ring's size.
* How the device treats a doorbell cell on creation: the library gives the kernel its
  address and no initial value, so the models take it that the device reads what is there.

## Plan

The components above are modelled, checked and proved. Left to do: several queues of one
context with `CdmaSwDb` as the allocator they use, and a model of `cdma_wait_ae` should it
come to keep state.

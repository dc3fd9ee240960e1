----------------------------- MODULE CdmaEvent -----------------------------
(***************************************************************************)
(* Waiting for completions of a queue in event mode: dma_wait_queue blocks *)
(* in the kernel for a completion event (JFCE), polls the completion       *)
(* queue, acknowledges and arms the queue again (cdma_u_event.c and the    *)
(* event half of cdma_u_jfc.c).  Other threads may call dma_poll_queue on  *)
(* the same queue.                                                         *)
(*                                                                         *)
(* A poll runs under the lock of the completion queue and is one step here *)
(* (CdmaQueue has its steps).  Acknowledging increments arm_sn, and arming *)
(* reads it and cq->ci, without that lock: two steps each.  The device     *)
(* raises one event per arming: when the next CQE is written, or at once   *)
(* if CQEs lie beyond the ci of the arming doorbell.                       *)
(***************************************************************************)
EXTENDS Integers, FiniteSets

CONSTANTS
  Waiters,      \* threads that call dma_wait_queue
  Pollers,      \* threads that call dma_poll_queue
  CrCnt,        \* the largest cr_cnt of a call
  IdxMod,       \* where the counters of the completion queue wrap in the
                \* doorbells (CDMA_JFC_DB_CI_IDX_M + 1: a field of 22 bits)
  CqEntries,    \* entries of the completion queue
  MaxEvents,    \* bound: events pending in the kernel
  SnMod,        \* where arm_sn wraps in the doorbell (a field of 2 bits)
  DropCqes      \* whether CQEs that yield no record occur (unknown status,
                \* flush done)

ASSUME EventAssumption ==
  /\ CrCnt \in Nat \ {0}
  /\ CqEntries \in Nat \ {0}
  /\ IdxMod \in Nat
  /\ IdxMod > CqEntries
  /\ MaxEvents \in Nat \ {0}
  /\ SnMod \in Nat \ {0, 1}
  /\ DropCqes \in BOOLEAN

VARIABLES
  hwpi,         \* device: index of the next CQE
  cqci,         \* cq->ci, as far as the doorbells show it
  armed,        \* device: an event is owed for the next CQE
  events,       \* kernel: events pending on the JFCE
  waiter,       \* locals of each waiter
  armSn,        \* cdma_jfc->arm_sn, as far as the doorbell shows it
  dbSn,         \* device: the sequence number of the last arming doorbell
  silent        \* history: a wait failed after the queue was last armed

snVars == <<armSn, dbSn>>
vars == <<hwpi, cqci, armed, events, waiter, silent, snVars>>

Add(x, d) == (x + d) % IdxMod
Unread == (hwpi - cqci) % IdxMod
----------------------------------------------------------------------------
(* The device and the kernel, as the library uses them (external) *)

RaiseEvent == events' = IF events < MaxEvents THEN events + 1 ELSE events

WriteCqe ==
  /\ Unread < CqEntries
  /\ hwpi' = Add(hwpi, 1)
  /\ IF armed THEN RaiseEvent /\ armed' = FALSE ELSE UNCHANGED <<armed, events>>
  /\ UNCHANGED <<cqci, waiter, silent, snVars>>

\* What the device does with an arming doorbell that carries index c.
ArmDoorbell(c) ==
  IF c # hwpi
  THEN RaiseEvent /\ armed' = FALSE
  ELSE armed' = TRUE /\ UNCHANGED events
----------------------------------------------------------------------------
(* dma_wait_queue *)

NoWait == [pc |-> "idle", cnt |-> 0, ev |-> 0, n |-> 0, ci |-> 0, sn |-> 0,
           ret |-> "none"]

\* A call that has returned; of its locals only the events it got are kept.
Returned(w, ret) == [NoWait EXCEPT !.ev = w.ev, !.ret = ret]

WaitBegin(w, cnt) ==
  /\ waiter[w].pc = "idle"
  /\ waiter' = [waiter EXCEPT ![w] = [NoWait EXCEPT !.pc = "wait", !.cnt = cnt]]
  /\ UNCHANGED <<hwpi, cqci, armed, events, silent, snVars>>

\* The ioctl returns up to cr_cnt pending events.
WaitEvent(w) ==
  /\ waiter[w].pc = "wait"
  /\ events > 0
  /\ LET k == IF events < waiter[w].cnt THEN events ELSE waiter[w].cnt
     IN  /\ events' = events - k
         /\ waiter' = [waiter EXCEPT ![w].pc = "poll", ![w].ev = k]
  /\ UNCHANGED <<hwpi, cqci, armed, silent, snVars>>

\* The ioctl returns 0 events when the time is up; the code polls all the same.
WaitTimeout(w) ==
  /\ waiter[w].pc = "wait"
  /\ events = 0
  /\ waiter' = [waiter EXCEPT ![w].pc = "poll"]
  /\ UNCHANGED <<hwpi, cqci, armed, events, silent, snVars>>

\* The ioctl fails: -EFAULT before anything was taken.
WaitIoctlError(w) ==
  /\ waiter[w].pc = "wait"
  /\ waiter' = [waiter EXCEPT ![w] = Returned(@, "ioctl")]
  /\ UNCHANGED <<hwpi, cqci, armed, events, silent, snVars>>

\* cdma_u_poll_jfc with records: go on to acknowledge and arm.
WaitPoll(w) ==
  /\ waiter[w].pc = "poll"
  /\ Unread > 0
  /\ LET n == IF Unread < waiter[w].cnt THEN Unread ELSE waiter[w].cnt
     IN  /\ cqci' = Add(cqci, n)
         /\ waiter' = [waiter EXCEPT ![w].pc = "read", ![w].n = n]
  /\ UNCHANGED <<hwpi, armed, events, silent, snVars>>

\* Mutant of WaitPollNone: no record is reported as success, still unarmed.
WaitPollNoneQuiet(w) ==
  /\ waiter[w].pc = "poll"
  /\ Unread = 0
  /\ waiter' = [waiter EXCEPT ![w] = Returned(@, "count")]
  /\ UNCHANGED <<hwpi, cqci, armed, events, silent, snVars>>

\* cdma_u_poll_jfc without a record: -EFAULT, no acknowledgement, no arming.
WaitPollNone(w) ==
  /\ waiter[w].pc = "poll"
  /\ Unread = 0
  /\ waiter' = [waiter EXCEPT ![w] = Returned(@, "efault")]
  /\ silent' = TRUE
  /\ UNCHANGED <<hwpi, cqci, armed, events, snVars>>

\* cdma_u_poll_jfc fails on the k-th CQE (unknown status; or flush done with no
\* record before it): the CQEs are consumed, and the call fails in the same way.
WaitPollDrop(w, k) ==
  /\ DropCqes
  /\ waiter[w].pc = "poll"
  /\ k <= Unread /\ k <= waiter[w].cnt
  /\ cqci' = Add(cqci, k)
  /\ waiter' = [waiter EXCEPT ![w] = Returned(@, "efault")]
  /\ silent' = TRUE
  /\ UNCHANGED <<hwpi, armed, events, snVars>>

\* cdma_u_poll_jfc ends at a flush-done CQE after k records: it consumes one
\* CQE more than it returns records.
WaitPollFlushDone(w, k) ==
  /\ DropCqes
  /\ waiter[w].pc = "poll"
  /\ k < Unread /\ k < waiter[w].cnt
  /\ cqci' = Add(cqci, k + 1)
  /\ waiter' = [waiter EXCEPT ![w].pc = "read", ![w].n = k]
  /\ UNCHANGED <<hwpi, armed, events, silent, snVars>>

\* Mutant of AckRead: the sequence number is left as it is.
AckReadSkip(w) ==
  /\ waiter[w].pc = "read"
  /\ waiter' = [waiter EXCEPT ![w].pc = "ack", ![w].sn = armSn]
  /\ UNCHANGED <<hwpi, cqci, armed, events, silent, snVars>>

\* cdma_u_ack_jfc: arm_sn++ reads arm_sn ...
AckRead(w) ==
  /\ waiter[w].pc = "read"
  /\ waiter' = [waiter EXCEPT ![w].pc = "ack", ![w].sn = (armSn + 1) % SnMod]
  /\ UNCHANGED <<hwpi, cqci, armed, events, silent, snVars>>

\* ... and writes it; nothing reads the count of acknowledged events it keeps.
AckWrite(w) ==
  /\ waiter[w].pc = "ack"
  /\ armSn' = waiter[w].sn
  /\ waiter' = [waiter EXCEPT ![w].pc = "load"]
  /\ UNCHANGED <<hwpi, cqci, armed, events, silent, dbSn>>

\* cdma_u_rearm_jfc reads cq->ci and arm_sn without the lock; of both only what
\* the doorbell shows is kept here, so its mask changes nothing.
RearmRead(w) ==
  /\ waiter[w].pc = "load"
  /\ waiter' = [waiter EXCEPT ![w].pc = "arm", ![w].ci = cqci, ![w].sn = armSn]
  /\ UNCHANGED <<hwpi, cqci, armed, events, silent, snVars>>

\* Mutant of RearmWrite: the doorbell is left out.
RearmWriteSkip(w) ==
  /\ waiter[w].pc = "arm"
  /\ waiter' = [waiter EXCEPT ![w] = Returned(@, "count")]
  /\ UNCHANGED <<hwpi, cqci, armed, events, silent, snVars>>

\* Mutant of RearmWrite: the doorbell carries no index, so the device arms for
\* CQEs to come only.
RearmWriteNoIndex(w) ==
  /\ waiter[w].pc = "arm"
  /\ armed' = TRUE
  /\ silent' = FALSE
  /\ dbSn' = waiter[w].sn
  /\ waiter' = [waiter EXCEPT ![w] = Returned(@, "count")]
  /\ UNCHANGED <<hwpi, cqci, events, armSn>>

\* The arming doorbell; the call returns the number of records.
RearmWrite(w) ==
  /\ waiter[w].pc = "arm"
  /\ ArmDoorbell(waiter[w].ci)
  /\ silent' = FALSE
  /\ dbSn' = waiter[w].sn
  /\ waiter' = [waiter EXCEPT ![w] = Returned(@, "count")]
  /\ UNCHANGED <<hwpi, cqci, armSn>>

WaitStep(w) ==
  \/ WaitEvent(w)
  \/ WaitPoll(w)
  \/ WaitPollNone(w)
  \/ AckRead(w)
  \/ AckWrite(w)
  \/ RearmRead(w)
  \/ RearmWrite(w)
----------------------------------------------------------------------------
\* dma_poll_queue: it neither acknowledges nor arms.
PollQueue(cnt) ==
  /\ Unread > 0
  /\ cqci' = Add(cqci, IF Unread < cnt THEN Unread ELSE cnt)
  /\ UNCHANGED <<hwpi, armed, events, waiter, silent, snVars>>

\* cdma_u_alloc_jfc_res arms a new queue in event mode.
Init ==
  /\ hwpi = 0 /\ cqci = 0
  /\ armed = TRUE
  /\ events = 0
  /\ waiter = [w \in Waiters |-> NoWait]
  /\ armSn = 1 /\ dbSn = 1
  /\ silent = FALSE

Next ==
  \/ WriteCqe
  \/ \E w \in Waiters :
       \/ \E cnt \in 1..CrCnt : WaitBegin(w, cnt)
       \/ WaitTimeout(w)
       \/ WaitIoctlError(w)
       \/ \E k \in 1..CrCnt : WaitPollDrop(w, k) \/ WaitPollFlushDone(w, k)
       \/ WaitStep(w)
  \/ \E p \in Pollers, cnt \in 1..CrCnt : PollQueue(cnt)

Spec == Init /\ [][Next]_vars

(***************************************************************************)
(* Fairness: a thread inside dma_wait_queue runs, the application calls it *)
(* again, and the ioctl, though it may fail (a signal), does not fail for  *)
(* ever while an event is pending.  The timeout is not fair: completions   *)
(* must not depend on it.                                                  *)
(***************************************************************************)
Fairness ==
  /\ \A w \in Waiters : WF_vars(WaitStep(w)) /\ SF_vars(WaitEvent(w))
  /\ \A w \in Waiters : WF_vars(\E cnt \in 1..CrCnt : WaitBegin(w, cnt))

FairSpec == Spec /\ Fairness
----------------------------------------------------------------------------
\* Every variable has its type.
TypeOK ==
  /\ hwpi \in 0..(IdxMod - 1) /\ cqci \in 0..(IdxMod - 1)
  /\ armed \in BOOLEAN /\ silent \in BOOLEAN
  /\ events \in 0..MaxEvents
  /\ armSn \in 0..(SnMod - 1) /\ dbSn \in 0..(SnMod - 1)
  /\ waiter \in [Waiters -> [pc : {"idle", "wait", "poll", "read", "ack", "load", "arm"},
                             cnt : 0..CrCnt, ev : 0..CrCnt, n : 0..CrCnt,
                             ci : 0..(IdxMod - 1), sn : 0..(SnMod - 1),
                             ret : {"none", "ioctl", "efault", "count"}]]

\* No thread is between taking an event or CQEs and arming.
Calm == \A w \in Waiters : waiter[w].pc \in {"idle", "wait"}

\* No wake-up is lost when one thread alone waits: whenever it is about to
\* block, an event is pending for the unread CQEs, or there are none and the
\* next one will raise an event (cdma_wait_queue: poll, ack, rearm).
ArmedOrPending ==
  Calm => (Unread > 0 => events > 0) /\ (Unread = 0 => armed)

\* The device can tell a new arming from a repeated one: with one waiter every
\* arming doorbell carries the successor of the number the device saw last,
\* although calls fail in between (arm_sn++ in cdma_u_ack_jfc, 2 bits of it in
\* the doorbell).  Two waiters may arm with the same number.
ArmSnNext ==
  \A w \in Waiters : waiter[w].pc = "arm" => waiter[w].sn = (dbSn + 1) % SnMod

\* What the two above rest on, for a thread that waits alone: where it stands in
\* its call says how arm_sn is related to the number in the device, and what is
\* known of unread CQEs, pending events and the arming.
SnInv ==
  \A w \in Waiters :
    /\ waiter[w].pc \in {"idle", "wait", "poll", "read", "ack"} => armSn = dbSn
    /\ waiter[w].pc \in {"load", "arm"} => armSn = (dbSn + 1) % SnMod
    /\ waiter[w].pc = "ack" => waiter[w].sn = (dbSn + 1) % SnMod
    /\ waiter[w].pc = "arm" => waiter[w].sn = armSn

WakeInv ==
  \A w \in Waiters :
    /\ waiter[w].pc \in {"idle", "wait"} /\ Unread > 0 => events > 0
    /\ waiter[w].pc \in {"idle", "wait", "poll"} /\ Unread = 0 => armed
    /\ waiter[w].pc = "arm" => waiter[w].ci = cqci

SoleInv == SnInv /\ WakeInv

\* With several waiters, pollers beside them and CQEs without a record the
\* queue may go silent, no event pending and none owed, but only after some
\* wait since the last arming has failed with -EFAULT.
SilentOnlyAfterError ==
  Calm /\ events = 0 /\ ~armed => silent

\* Unread CQEs are eventually polled by the waiting thread, without timeouts.
EventuallyPolled ==
  \A x \in 0..(IdxMod - 1) : (cqci = x /\ Unread > 0) ~> cqci # x
============================================================================

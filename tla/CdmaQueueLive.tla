---------------------------- MODULE CdmaQueueLive ----------------------------
(***************************************************************************)
(* Progress of the data path: what the device may rightly take for unread  *)
(* because no call has told it, and that nothing else holds up a request.  *)
(***************************************************************************)
EXTENDS CdmaQueueInv

VARIABLE lag    \* history: polled entries the device has not been told of

liveVars == <<vars, lag>>

\* A call that got records ends, and the device learns cq->ci.
Tells(p) == poll[p].pc = "return" /\ poll[p].crs # <<>> /\ poll'[p].pc = "idle"

\* A call drops a CQE: flush done, or a status the table does not know.
Drops(p) == poll[p].pc = "finish" /\ poll'[p].pc = "return"

Cap(n) == IF n < CqEntries THEN n ELSE CqEntries

NextLag ==
  IF \E p \in Pollers : Tells(p) THEN 0
  ELSE IF \E p \in Pollers : Drops(p) THEN Cap(lag + 1)
  ELSE lag

LiveInit == Init /\ lag = Cap(Taken)
LiveNext == Next /\ lag' = NextLag

(***************************************************************************)
(* Fairness: a thread that holds a spin lock runs until it releases it,    *)
(* the device executes what the doorbell announces, and the application    *)
(* keeps polling (some poller takes the lock when it is free).             *)
(***************************************************************************)
FairSpec ==
  /\ LiveInit /\ [][LiveNext]_liveVars
  /\ \A p \in Posters : WF_vars(PostInvalid(p) \/ PostOverflow(p) \/ PostCheck(p)
                                  \/ PostCopy(p) \/ PostPublish(p) \/ PostRing(p))
  /\ WF_vars(\E s \in Statuses : DevComplete(s))
  /\ WF_vars(\E p \in Pollers, want \in 1..CrCnt : PollLock(p, want))
  /\ \A p \in Pollers : WF_vars(PollStep(p))
----------------------------------------------------------------------------
Outstanding(x) == \E i \in 1..Len(outq) : outq[i] = x

\* The device has been told of no free entry: as many CQEs as the ring has were
\* dropped since a call had records, or the doorbell cell came with such an index.
Starved == lag = CqEntries /\ cqLock = NoThread

\* Every accepted request is eventually retired by a poll, unless the device has
\* flushed the queue or is starved, and it is starved only by a whole ring of
\* dropped CQEs or an old index in a reused cell: the owner bit, the two locks, a
\* full ring and the wrap of the published index hold up no request
\* (cdma_u_poll_jfc).
EventuallyRetired ==
  \A x \in Idx : Outstanding(x) ~> (hwState = "done" \/ Starved \/ ~Outstanding(x))

\* Every accepted request is retired by a poll unless the device has flushed the
\* queue: "Once the data is successfully written to the remote node, the
\* application can poll the queue to obtain the completion message"
\* (doc/CDMA_API.md:221).  It does not hold: cdma_u_poll_jfc consumes a CQE of
\* unknown status and publishes cq->ci only in calls that have records.
EveryRequestRetires ==
  \A x \in Idx : Outstanding(x) ~> (hwState = "done" \/ ~Outstanding(x))
=============================================================================

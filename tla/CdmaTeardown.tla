---------------------------- MODULE CdmaTeardown ----------------------------
(***************************************************************************)
(* The end of a queue's data path: cdma_u_delete_jfs deletes the JFS in    *)
(* the kernel and then removes the CQEs it left in the completion queue    *)
(* (cdma_u_clean_jfc).  The application frees a queue when none of its     *)
(* threads uses it, so posters and pollers are idle and the locks free;    *)
(* the device stops with the delete ioctl, and goes on when that fails,    *)
(* which the library only logs.                                            *)
(*                                                                         *)
(* The scan reads the ring entry by entry, each against the owner phase of *)
(* cq->ci, and compares plain 32-bit and signed values.  A signed          *)
(* subtraction that overflows may answer either way: gcc turns one of the  *)
(* tests into a comparison.  Every CQE of the ring belongs to the one JFS  *)
(* of its JFC, so the branch that moves CQEs of others is never taken.     *)
(***************************************************************************)
EXTENDS CdmaQueueInv

VARIABLES
  stage,        \* "live", "scan", "free" or "cleaned"
  frozen,       \* the kernel has deleted the JFS: the device is done with it
  scan,         \* pi of cdma_u_clean_jfc
  nfreed,       \* nfreed of cdma_u_clean_jfc
  start         \* history: cq->ci when the queue was deleted

tdVars  == <<stage, frozen, scan, nfreed, start>>
allVars == <<vars, tdVars>>

Half == IdxMod \div 2

\* The value of a counter as an int, and whether x - y overflows an int.
Int32(x)       == IF x < Half THEN x ELSE x - IdxMod
Diff(x, y)     == Int32(x) - Int32(y)
Overflows(x, y) == Diff(x, y) >= Half \/ Diff(x, y) < -Half

Quiet ==
  /\ \A p \in Posters : post[p].pc = "idle"
  /\ \A p \in Pollers : poll[p].pc = "idle"

\* cdma_u_cmd_delete_jfs, which may fail, and cdma_u_clean_jfc taking cq->lock.
DeleteJfs(ok) ==
  /\ stage = "live"
  /\ Quiet
  /\ stage' = "scan"
  /\ frozen' = ok
  /\ scan' = cqci
  /\ start' = cqci
  /\ UNCHANGED <<vars, nfreed>>

\* Mutant of CqeAt: the owner bit is compared with a constant.
CqeAtFirstRound(x) == cqbuf[CqSlot(x)].owner = 1

\* cdma_u_get_next_cqe at any index: the phase it compares is that of cq->ci.
CqeAt(x) == cqbuf[CqSlot(x)].owner # Round(cqci)

\* Mutant of CleanScan: the loop has no bound of its own.
CleanScanNoBound ==
  /\ stage = "scan"
  /\ CqeAt(scan)
  /\ scan' = Add(scan, 1)
  /\ UNCHANGED <<vars, stage, frozen, nfreed, start>>

\* The for loop finds another CQE; the bound is compared without regard to wrap.
CleanScan ==
  /\ stage = "scan"
  /\ CqeAt(scan) /\ scan <= Add(cqci, CqEntries)
  /\ scan' = Add(scan, 1)
  /\ UNCHANGED <<vars, stage, frozen, nfreed, start>>

CleanScanEnd ==
  /\ stage = "scan"
  /\ ~CqeAt(scan) \/ scan > Add(cqci, CqEntries)
  /\ stage' = "free"
  /\ UNCHANGED <<vars, frozen, scan, nfreed, start>>

\* Mutant of CleanFree: the index is decremented after the test.
CleanFreePost ==
  /\ stage = "free"
  /\ Overflows(scan, cqci) \/ Diff(scan, cqci) >= 0
  /\ scan' = Sub(scan, 1)
  /\ nfreed' = Add(nfreed, 1)
  /\ UNCHANGED <<vars, stage, frozen, start>>

\* One round of the while loop, from the last CQE found back to cq->ci.
CleanFree ==
  /\ stage = "free"
  /\ LET x == Sub(scan, 1)
     IN  /\ Overflows(x, cqci) \/ Diff(x, cqci) >= 0
         /\ scan' = x
  /\ nfreed' = Add(nfreed, 1)
  /\ UNCHANGED <<vars, stage, frozen, start>>

\* The loop ends: cq->ci moves over what was freed and is told to the device.
CleanDone ==
  /\ stage = "free"
  /\ LET x == Sub(scan, 1)
     IN  Overflows(x, cqci) \/ Diff(x, cqci) < 0
  /\ stage' = "cleaned"
  /\ cqci' = Add(cqci, nfreed)
  /\ swDb' = IF nfreed # 0 THEN Masked(Add(cqci, nfreed)) ELSE swDb
  /\ UNCHANGED <<sqVars, hwVars, ci, cqLock, poll, dwqe, outq,
                 frozen, scan, nfreed, start>>

TdInit ==
  /\ Init
  /\ stage = "live" /\ frozen = FALSE
  /\ scan = 0 /\ nfreed = 0 /\ start = 0

TdNext ==
  \/ /\ stage = "live"
     /\ (\E p \in Posters : Post(p)) \/ (\E p \in Pollers : Poll(p))
     /\ UNCHANGED tdVars
  \/ /\ stage # "cleaned" /\ ~frozen
     /\ Device
     /\ UNCHANGED tdVars
  \/ \E ok \in BOOLEAN : DeleteJfs(ok)
  \/ CleanScan
  \/ CleanScanEnd
  \/ CleanFree
  \/ CleanDone

TdSpec == TdInit /\ [][TdNext]_allVars

\* Fairness: the thread in cdma_u_clean_jfc runs, holding the spin lock.
TdFairSpec ==
  TdSpec /\ WF_allVars(CleanScan \/ CleanScanEnd \/ CleanFree \/ CleanDone)
----------------------------------------------------------------------------
SameRound(x, y) == x \div CqEntries = y \div CqEntries

\* The cases in which the comparisons of cdma_u_clean_jfc are meant: the device
\* has not entered the next round of the ring (the scan tests every entry against
\* the phase of cq->ci), cq->ci is not in the last round before the counters wrap
\* (the bound of the scan wraps first), and cq->ci is not the least int (ci - 1
\* then overflows).
Comparable ==
  /\ SameRound(start, hwpi)
  /\ start < IdxMod - CqEntries
  /\ start # Half

\* Cleaning removes the CQEs of the deleted JFS, all of them and no more, and
\* tells the device so; when the delete ioctl failed and the device still runs,
\* it removes none that the device has not written.
CleanExact ==
  stage = "cleaned" /\ Comparable
  => /\ Sub(hwpi, cqci) <= Sub(hwpi, start)
     /\ frozen => cqci = hwpi
     /\ start # cqci => swDb = Masked(cqci)

\* Cleaning ends, and with it the delete call that holds cq->lock: all entries may
\* pass the owner test (those behind cq->ci do when the device has just finished a
\* round), so it is the bound that ends the scan.  Two values of cq->ci are left
\* out: pi > ci + cnt is never true when ci + cnt is the largest counter, and at
\* the least int the test of the way back overflows each time it could end.
CleanEnds ==
  stage = "scan" /\ Add(start, CqEntries) # IdxMod - 1 /\ start # Half
    ~> stage = "cleaned"
----------------------------------------------------------------------------
(***************************************************************************)
(* The inductive invariant: the data path's own up to the end of the       *)
(* cleaning, and how far scan and nfreed are between cq->ci and the device.*)
(***************************************************************************)
TdTypeOK ==
  /\ stage \in {"live", "scan", "free", "cleaned"}
  /\ frozen \in BOOLEAN
  /\ scan \in Idx /\ nfreed \in Idx /\ start \in Idx

\* The scan stops where the device is and the second loop goes back as far: what
\* is freed and what is still to be freed are together what was found.
ProgressInv ==
  /\ stage \in {"live", "scan"} => nfreed = 0
  /\ stage \in {"scan", "free"} => start = cqci
  /\ stage = "scan" /\ Comparable => start <= scan /\ scan <= hwpi
  /\ stage = "free" /\ Comparable =>
       /\ start <= scan /\ scan + nfreed <= hwpi
       /\ frozen => scan + nfreed = hwpi

\* The conjunction is inductive.
TdInv ==
  /\ TdTypeOK
  /\ stage # "cleaned" => IndInv
  /\ ProgressInv
  /\ CleanExact
============================================================================

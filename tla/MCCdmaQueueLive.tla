-------------------------- MODULE MCCdmaQueueLive --------------------------
(* Small instances of the data path's progress for TLC. *)
EXTENDS CdmaQueueLive

CONSTANTS t1, q1, q2
============================================================================

---------------------------- MODULE MCCdmaQueue ----------------------------
(* Small instances of the data path for TLC. *)
EXTENDS CdmaQueueInv, TLC

CONSTANTS t1, t2, q1, q2

ThreadSymmetry == Permutations(Posters) \cup Permutations(Pollers)
============================================================================

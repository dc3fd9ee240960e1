---------------------------- MODULE MCCdmaEvent ----------------------------
(* Small instances of the completion event protocol for TLC. *)
EXTENDS CdmaEvent, TLC

CONSTANTS w1, w2, q1

WaiterSymmetry == Permutations(Waiters)
============================================================================

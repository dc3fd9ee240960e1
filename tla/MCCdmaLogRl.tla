---------------------------- MODULE MCCdmaLogRl ----------------------------
(* Small instances of the log rate limiter for TLC. *)
EXTENDS CdmaLogRl, TLC

CONSTANTS c1, c2, c3

CallerSymmetry == Permutations(Callers)
============================================================================

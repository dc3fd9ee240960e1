--------------------------- MODULE MCCdmaSession ---------------------------
(* A small instance of the API's objects for TLC. *)
EXTENDS CdmaSession, TLC

CONSTANTS q1, s1, i1, a1, a2, d1, d2, e1

MCEusOf == (d1 :> {e1}) @@ (d2 :> {})

ThreadSymmetry == Permutations(Threads)
============================================================================

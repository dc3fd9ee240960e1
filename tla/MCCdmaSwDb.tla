----------------------------- MODULE MCCdmaSwDb -----------------------------
(* A small instance of the software doorbell allocator for TLC. *)
EXTENDS CdmaSwDb

CONSTANTS p1, p2, p3, j1, j2, j3, j4, j5

============================================================================

--------------------------- MODULE MCCdmaTeardown ---------------------------
(* A small instance of deleting a queue under its data path for TLC. *)
EXTENDS CdmaTeardown

CONSTANTS t1, q1
=============================================================================

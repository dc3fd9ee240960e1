----------------------------- MODULE MCCdmaSqe -----------------------------
(* A small instance of building and posting work requests for TLC. *)
EXTENDS CdmaSqe

MCConfigs ==
  [depth : 1..3, max_sge : {1}] \cup [depth : {2}, max_sge : {0}] \cup [depth : {1}, max_sge : {13}]

\* Every operation with local segments of the atomic widths, of none of them, and
\* of lengths at and above the wrap; and each segment in turn NULL, empty or
\* without an address.
Good      == [len |-> 8, sva |-> 1]
Call(o, r, l, n) == [op |-> o, rmt |-> r, local |-> l, notify |-> n]
BadSegs   == {NoSeg, [len |-> 0, sva |-> 1], [len |-> 8, sva |-> 0]}
Lengths   == {4, 8, 16, 20, WordMod, WordMod + 8}

MCCalls ==
  {Call(o, Good, [len |-> n, sva |-> 1], Good) : o \in Ops, n \in Lengths}
  \cup UNION {{Call(o, b, Good, Good), Call(o, Good, b, Good)} : o \in Ops, b \in BadSegs}
  \cup {Call("notify", Good, Good, b) : b \in BadSegs}
============================================================================

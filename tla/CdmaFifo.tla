------------------------------ MODULE CdmaFifo ------------------------------
(***************************************************************************)
(* What the data path of a libcdma queue promises its callers, with no     *)
(* rings, indices or owner bits: accepted requests wait in a queue; a poll *)
(* call collects completion records from its head, in order, and hands     *)
(* them to the caller or, when the call fails, drops them.                 *)
(***************************************************************************)
EXTENDS Sequences

CONSTANTS
  Threads,            \* the threads that poll
  Requests            \* names of requests, unique among the waiting ones

VARIABLES
  queue,              \* requests accepted and not yet completed
  batch               \* per polling thread, the records collected so far

vars == <<queue, batch>>

Init ==
  /\ queue = <<>>
  /\ batch = [t \in Threads |-> <<>>]

Accept(x) ==
  /\ x \notin {queue[i] : i \in DOMAIN queue}
  /\ queue' = Append(queue, x)
  /\ UNCHANGED batch

Complete(t) ==
  /\ queue # <<>>
  /\ batch' = [batch EXCEPT ![t] = Append(@, Head(queue))]
  /\ queue' = Tail(queue)

\* A completion whose status the library does not know.
Discard ==
  /\ queue # <<>>
  /\ queue' = Tail(queue)
  /\ UNCHANGED batch

\* The call returns its records, or fails and drops them.
Return(t) ==
  /\ batch' = [batch EXCEPT ![t] = <<>>]
  /\ UNCHANGED queue

Next ==
  \/ \E x \in Requests : Accept(x)
  \/ Discard
  \/ \E t \in Threads : Complete(t) \/ Return(t)

Spec == Init /\ [][Next]_vars
============================================================================

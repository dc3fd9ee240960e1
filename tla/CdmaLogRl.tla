----------------------------- MODULE CdmaLogRl -----------------------------
(***************************************************************************)
(* The rate limiter of the error paths (cdma_log_ratelimit).  Callers on   *)
(* any thread share the start of the current window and a counter, both    *)
(* accessed by single atomic operations; the steps of a call interleave    *)
(* with those of other calls and with the clock.                           *)
(***************************************************************************)
EXTENDS Integers, FiniteSets, FiniteSetsExt

CONSTANTS
  Callers,      \* threads that log through one rate-limit state
  Burst,        \* CDMA_LOG_RATE_BURST
  Interval,     \* CDMA_LOG_RATE_INTERVAL_SEC
  MaxClock,     \* bound: the clock stops here
  MaxCalls      \* bound: calls per thread

ASSUME LogAssumption ==
  /\ Burst \in Nat \ {0}
  /\ Interval \in Nat \ {0}
  /\ MaxClock \in Nat /\ Interval <= MaxClock
  /\ MaxCalls \in Nat

VARIABLES
  clock,        \* CLOCK_MONOTONIC, in seconds
  windowStart,  \* state->window_start
  count,        \* state->count
  call,         \* locals of each caller
  printed,      \* history: number of messages let through, by their "now"
  suppressed,   \* history: suppressed messages, their "now" and when
  raced         \* history: some call overlapped the opening of a window

vars == <<clock, windowStart, count, call, printed, suppressed, raced>>

Idle(n) == [pc |-> "idle", now |-> 0, window |-> 0, calls |-> n]

Expired(now, window) == now - window < 0 \/ now - window >= Interval

Others(c, pcs) == \E d \in Callers \ {c} : call[d].pc \in pcs

\* clock_gettime.
Begin(c) ==
  /\ call[c].pc = "idle"
  /\ call[c].calls < MaxCalls
  /\ call' = [call EXCEPT ![c].pc = "load", ![c].now = clock, ![c].calls = @ + 1]
  /\ raced' = (raced \/ Others(c, {"store"}))
  /\ UNCHANGED <<clock, windowStart, count, printed, suppressed>>

\* Mutant of Load: the window is taken to last a second longer.
LoadLate(c) ==
  /\ call[c].pc = "load"
  /\ call' = [call EXCEPT
       ![c].window = windowStart,
       ![c].pc = IF Expired(call[c].now - 1, windowStart) THEN "cas" ELSE "add"]
  /\ UNCHANGED <<clock, windowStart, count, printed, suppressed, raced>>

\* atomic_load of window_start, and the loop condition.
Load(c) ==
  /\ call[c].pc = "load"
  /\ call' = [call EXCEPT
       ![c].window = windowStart,
       ![c].pc = IF Expired(call[c].now, windowStart) THEN "cas" ELSE "add"]
  /\ UNCHANGED <<clock, windowStart, count, printed, suppressed, raced>>

\* The compare-and-swap that opens a new window; a failure loads it again.
Cas(c) ==
  /\ call[c].pc = "cas"
  /\ IF windowStart = call[c].window
     THEN /\ windowStart' = call[c].now
          /\ call' = [call EXCEPT ![c].pc = "store"]
          /\ raced' = (raced \/ Others(c, {"load", "cas", "store", "add"}))
     ELSE /\ call' = [call EXCEPT ![c].pc = "load"]
          /\ UNCHANGED <<windowStart, raced>>
  /\ UNCHANGED <<clock, count, printed, suppressed>>

LetThrough(c) ==
  /\ printed' = [printed EXCEPT ![call[c].now] = @ + 1]
  /\ UNCHANGED suppressed

Suppress(c) ==
  /\ suppressed' = suppressed \cup {[now |-> call[c].now, at |-> clock]}
  /\ UNCHANGED printed

\* Mutant of Store: the new window inherits the counter of the old one.
StoreNoReset(c) ==
  /\ call[c].pc = "store"
  /\ count' = count + 1
  /\ IF count < Burst THEN LetThrough(c) ELSE Suppress(c)
  /\ call' = [call EXCEPT ![c] = Idle(@.calls)]
  /\ UNCHANGED <<clock, windowStart, raced>>

\* The opener of a window restarts the counter and logs: a separate store,
\* after the window is visible to others.
Store(c) ==
  /\ call[c].pc = "store"
  /\ count' = 1
  /\ LetThrough(c)
  /\ call' = [call EXCEPT ![c] = Idle(@.calls)]
  /\ UNCHANGED <<clock, windowStart, raced>>

\* Mutant of FetchAdd: compares the new value.
FetchAddPost(c) ==
  /\ call[c].pc = "add"
  /\ count' = count + 1
  /\ IF count <= Burst THEN LetThrough(c) ELSE Suppress(c)
  /\ call' = [call EXCEPT ![c] = Idle(@.calls)]
  /\ UNCHANGED <<clock, windowStart, raced>>

\* atomic_fetch_add within the window.
FetchAdd(c) ==
  /\ call[c].pc = "add"
  /\ count' = count + 1
  /\ IF count < Burst THEN LetThrough(c) ELSE Suppress(c)
  /\ call' = [call EXCEPT ![c] = Idle(@.calls)]
  /\ UNCHANGED <<clock, windowStart, raced>>

Tick ==
  /\ clock < MaxClock
  /\ clock' = clock + 1
  /\ UNCHANGED <<windowStart, count, call, printed, suppressed, raced>>

Init ==
  /\ clock \in 0..Interval
  /\ windowStart = 0
  /\ count = 0
  /\ call = [c \in Callers |-> Idle(0)]
  /\ printed = [t \in 0..MaxClock |-> 0]
  /\ suppressed = {}
  /\ raced = FALSE

Next ==
  \/ Tick
  \/ \E c \in Callers : Begin(c) \/ Load(c) \/ Cas(c) \/ Store(c) \/ FetchAdd(c)

Spec == Init /\ [][Next]_vars
----------------------------------------------------------------------------
\* Seconds of a window, and the messages let through in the current one.
InWindow(t, w) == w <= t /\ t < w + Interval

Window == {t \in 0..MaxClock : InWindow(t, windowStart)}
Logged == MapThenSumSet(LAMBDA t : printed[t], Window)

\* "max CDMA_LOG_RATE_BURST logs per CDMA_LOG_RATE_INTERVAL_SEC seconds"
\* (cdma_u_log.h:61): at most Burst messages pass in the current window.  Two
\* callers break it between the compare-and-swap and the store of the counter.
WindowBurst == Logged <= Burst

\* The burst is kept as long as no call overlaps the opening of a window by
\* another: concurrent calls within a window (atomic_fetch_add) are harmless.
UnracedBurst == ~raced => WindowBurst

\* A message is suppressed only if another one, less than an interval older and
\* no younger than the decision, was let through or is about to be: rate
\* limiting never silences a whole interval, whatever the races on the window
\* and the counter.
NoSilentInterval ==
  \A m \in suppressed :
    LET Near(u) == m.now - Interval < u /\ u <= m.at
    IN  \/ \E u \in 0..MaxClock : printed[u] > 0 /\ Near(u)
        \/ \E c \in Callers : call[c].pc = "store" /\ Near(call[c].now)
----------------------------------------------------------------------------
(***************************************************************************)
(* The inductive invariant behind both properties.                         *)
(***************************************************************************)
Times == 0..MaxClock
Call  == [pc : {"idle", "load", "cas", "store", "add"}, now : Times,
          window : Times, calls : 0..MaxCalls]

TypeOK ==
  /\ clock \in Times /\ windowStart \in Times
  /\ count \in Nat
  /\ call \in [Callers -> Call]
  /\ printed \in [Times -> Nat]
  /\ suppressed \subseteq [now : Times, at : Times]
  /\ raced \in BOOLEAN

Active(c) == call[c].pc # "idle"

\* Nothing is younger than the clock; what a call has found out about the
\* window it loaded.
CallsInv ==
  /\ windowStart <= clock
  /\ \A t \in Times : printed[t] > 0 => t <= clock
  /\ \A c \in Callers :
       /\ call[c].now <= clock
       /\ call[c].pc = "cas" => Expired(call[c].now, call[c].window)
       /\ call[c].pc = "add" => InWindow(call[c].now, call[c].window)

\* Every window but the initial one was opened by a message that was let through
\* or is about to be, and the counter has only moved with such messages.
Opened(w) ==
  printed[w] > 0 \/ \E c \in Callers : call[c].pc = "store" /\ call[c].now = w

OpenInv ==
  /\ windowStart = 0 \/ Opened(windowStart)
  /\ \A c \in Callers :
       call[c].pc = "add" => call[c].window = 0 \/ Opened(call[c].window)
  /\ count > 0 => \E t \in Times : printed[t] > 0

\* As long as no call overlaps the opening of a window: the opener is alone,
\* the others are in the current window, and the counter is at least the number
\* of messages of the window.
UnracedInv ==
  ~raced =>
    /\ \A c, d \in Callers : call[c].pc = "store" /\ d # c => ~Active(d)
    /\ \A c \in Callers :
         /\ Active(c) => windowStart <= call[c].now
         /\ call[c].pc = "add" => call[c].window = windowStart
         /\ call[c].pc = "store" => call[c].now = windowStart /\ Logged = 0
    /\ \A t \in Times : printed[t] > 0 => t < windowStart + Interval
    /\ (\A c \in Callers : call[c].pc # "store") => Logged <= count /\ Logged <= Burst

\* The conjunction is inductive: what a caller knows of the window it loaded, of
\* the message that opened it, and of the counter, at each step of
\* cdma_log_ratelimit.
LogInv ==
  /\ TypeOK
  /\ CallsInv
  /\ OpenInv
  /\ NoSilentInterval
  /\ UnracedInv
============================================================================

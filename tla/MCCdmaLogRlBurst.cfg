SPECIFICATION Spec
CONSTANTS
  c1 = c1
  c2 = c2
  c3 = c3
  Callers = {c1, c2}
  Burst = 2
  Interval = 2
  MaxClock = 4
  MaxCalls = 4

INVARIANT
  WindowBurst
CHECK_DEADLOCK FALSE

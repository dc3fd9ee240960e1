SPECIFICATION Spec
CONSTANTS
  c1 = c1
  c2 = c2
  c3 = c3
  Callers = {c1, c2, c3}
  Burst = 2
  Interval = 2
  MaxClock = 4
  MaxCalls = 2
SYMMETRY CallerSymmetry
INVARIANTS
  UnracedBurst
  NoSilentInterval
  LogInv
CHECK_DEADLOCK FALSE

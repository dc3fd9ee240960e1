SPECIFICATION Spec
CONSTANTS
  w1 = w1
  w2 = w2
  q1 = q1
  Waiters = {w1, w2}
  Pollers = {q1}
  CrCnt = 2
  IdxMod = 4
  CqEntries = 2
  MaxEvents = 3
  SnMod = 4
  DropCqes = TRUE
SYMMETRY WaiterSymmetry
INVARIANTS
  SilentOnlyAfterError

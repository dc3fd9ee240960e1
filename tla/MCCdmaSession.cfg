SPECIFICATION Spec
CONSTANTS
  q1 = q1
  s1 = s1
  i1 = i1
  a1 = a1
  a2 = a2
  d1 = d1
  d2 = d2
  e1 = e1
  Ctx = Ctx
  NoDev = NoDev
  NoList = NoList
  AnyEid = AnyEid
  Queues = {q1}
  Segs = {s1}
  Imports = {i1}
  MaxOrphans = 2
  Threads = {a1, a2}
  Devs = {d1, d2}
  Eids = {e1}
  EusOf <- MCEusOf
  MaxFd = 3
  MaxObjects = 1
SYMMETRY ThreadSymmetry
INVARIANTS
  FdsExact
  SlotsInBounds
  ContextDeviceOpen
  NoLeak
  ReleasedOnce
  DeviceMemoryHeld
  CleanFindsJfc
  SessInv

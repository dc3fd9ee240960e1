SPECIFICATION TdFairSpec
CONSTANTS
  t1 = t1
  q1 = q1
  NoThread = NoThread
  SqBlocks = 4
  CqEntries = 4
  IdxMod = 16
  DbMod = 8
  OldCis = {0, 1, 2, 3, 4, 5, 6, 7}
  WrSizes = {1}
  CrCnt = 1
  Statuses = {"known", "unknown"}
  DwqeEnable = FALSE
  Posters = {t1}
  Pollers = {q1}
INVARIANTS
  CleanExact
  TdInv
PROPERTY
  CleanEnds
CHECK_DEADLOCK FALSE

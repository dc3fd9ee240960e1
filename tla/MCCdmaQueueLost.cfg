SPECIFICATION Spec
CONSTANTS
  t1 = t1
  t2 = t2
  q1 = q1
  q2 = q2
  NoThread = NoThread
  SqBlocks = 4
  CqEntries = 2
  IdxMod = 8
  DbMod = 4
  OldCis = {}
  WrSizes = {1}
  CrCnt = 2
  Statuses = {"known", "unknown"}
  DwqeEnable = TRUE
  Posters = {t1}
  Pollers = {q1}
INVARIANT
  RecordsReachCaller

SPECIFICATION FairSpec
CONSTANTS
  t1 = t1
  q1 = q1
  q2 = q2
  NoThread = NoThread
  SqBlocks = 2
  CqEntries = 2
  IdxMod = 4
  WrSizes = {1}
  CrCnt = 2
  DbMod = 4
  OldCis = {}
  Statuses = {"known", "unknown"}
  DwqeEnable = TRUE
  Posters = {t1}
  Pollers = {q1}
PROPERTY
  EveryRequestRetires

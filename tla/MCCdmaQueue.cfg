SPECIFICATION Spec
CONSTANTS
  t1 = t1
  t2 = t2
  q1 = q1
  q2 = q2
  NoThread = NoThread
  SqBlocks = 4
  CqEntries = 2
  IdxMod = 8
  DbMod = 4
  OldCis = {0, 1, 2, 3}
  WrSizes = {1, 3}
  CrCnt = 2
  Statuses = {"known", "unknown"}
  DwqeEnable = TRUE
  Posters = {t1, t2}
  Pollers = {q1, q2}
SYMMETRY ThreadSymmetry
INVARIANTS
  TypeOK
  SqWindow
  WqeIntact
  DirectPushInOrder
  OwnerBitExact
  CreditsReturned
PROPERTY
  FifoSpec

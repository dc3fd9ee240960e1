SPECIFICATION Spec
CONSTANTS
  NoSeg = NoSeg
  WordMod = 1024
  IdxMod = 16
  PageSize = 256
  Configs <- MCConfigs
  Calls <- MCCalls
INVARIANTS
  BlockCountExact
  FieldsDisjoint
  WholeSegment
  CurrMatchesPi
  RingGeometry
  DepthHonoured
  SqeInv

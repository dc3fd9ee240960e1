SPECIFICATION Spec
CONSTANTS
  p1 = p1
  p2 = p2
  p3 = p3
  j1 = j1
  j2 = j2
  j3 = j3
  j4 = j4
  j5 = j5
  NoDb = NoDb
  PageIds = {p1, p2, p3}
  NumDb = 3
  BitmapBits = 4
  Jfcs = {j1, j2, j3, j4, j5}
INVARIANTS
  NoAlias
  HeldIsMapped
  UseCntExact
  BitmapExact

SPECIFICATION Spec
CONSTANTS
  p1 = p1
  p2 = p2
  p3 = p3
  h1 = h1
  h2 = h2
  a1 = a1
  a2 = a2
  A = A
  B = B
  Mids = {A, B}
  Ids = {0}
  Providers = {p1, p3}
  Components = {p3}
  Clients = {"c"}
  Handles = {h1}
  Classes = {"k", "l"}
  UserArgs = {a1, a2}
  HasFree = {a1}
  Abtio = {"none", "io"}
  MaxRefs = 2
SYMMETRY MCSymmetry
INVARIANTS
  TypeOK
  HandlesCounted
  TableNeverDangles
  FoundUnlessRivalled
  DestroyedOnce
  UserArgsFreedOnce
  CallbackArgumentsAlive
  IInv

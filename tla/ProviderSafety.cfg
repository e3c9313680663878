SPECIFICATION Spec
CONSTANTS
  m1 = m1
  m2 = m2
  c1 = c1
  a = a
  b = b
  d = d
  Migrations = {m1, m2}
  Classes = {c1}
  Paths = {a, b, d}
  Preexisting = {}
  Modes = {"mmap", "sequential", "pipelined"}
  Callbacks <- MCCallbacks
  ClassOf <- MCClassOf
  Target <- SharedTarget
  Sizes <- SharedSizes
  Plan <- SharedPlan
  MaxRegistryCalls = 2
INVARIANTS
  TypeOK
  NoDanglingOp
  DescriptorsOutliveWrites
  PublishedComplete
  OneBehind
  SuccessIsDurable
  NothingLeftBehind
  IInv
PROPERTIES
  KeepsPromise
  KeepsSession

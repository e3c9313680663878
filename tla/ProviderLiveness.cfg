SPECIFICATION FairSpec
CONSTANTS
  m1 = m1
  m2 = m2
  c1 = c1
  a = a
  b = b
  d = d
  Migrations = {m1, m2}
  Classes = {c1}
  Paths = {a, b, d}
  Preexisting = {d}
  Modes = {"mmap", "sequential", "pipelined"}
  Callbacks <- MCCallbacks
  ClassOf <- MCClassOf
  Target <- BarredTarget
  Sizes <- BarredSizes
  Plan <- BarredPlan
  MaxRegistryCalls = 2
INVARIANTS
  PreexistingUntouched
PROPERTIES
  EveryCallReturns
  OpsAreReclaimed

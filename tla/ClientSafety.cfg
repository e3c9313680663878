SPECIFICATION FairSpec
CONSTANTS
  f1 = f1
  f2 = f2
  f3 = f3
  src = src
  dst1 = dst1
  dst2 = dst2
  Files = {f1, f2, f3}
  Registered <- MCRegistered
  InDirectory = {f3}
  Size <- MCSize
  XferSize = 2
  OwnRoot = src
  SameHost = TRUE
  RemoteRoots = {dst1, dst2}
  InitialDisk <- SharedDisk
  Modes = {"mmap", "sequential", "pipelined"}
  Faults = {"appear", "throw", "short"}
  MaxCalls = 2
INVARIANTS
  TypeOK
  Tiled
  EndMeansSent
  DataMatches
  NothingLeftOpen
  IInv
PROPERTIES
  SourceOutlivesTransfer
  KeepsSession
  MigrateReturns

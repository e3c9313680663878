SPECIFICATION FairSpec
CONSTANTS
  Kind <- MCKind
  Size <- MCSize
  Untyped <- MCUntyped
  InitialDisk <- MCDisk
  InitialThere <- MCThere
  Dotted = {"."}
  Roots <- MCRoots
  RemoteRoots <- MCRemoteRoots
  FileNames <- MCFileNames
  DirNames <- MCDirNames
  XferSizes = {0, 1048576}
  ProviderIds = {0}
  Lengths <- MCLengths
  ValueLengths = {4}
  MaxEdits = 3
  MaxCalls = 1
  MaxChanges = 1
  MaxFailures = 1
INVARIANTS
  TypeOK
  ListingFaithful
  SweptClean
  IInv
PROPERTIES
  SizeCountsEachOnce
  RefusedForCause
  RemovalConfined
  NothingUnseenLost
  CallReturns

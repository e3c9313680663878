SPECIFICATION Spec
CONSTANTS
  Kind <- MCSmallKind
  Size <- MCSmallSize
  Untyped = {}
  InitialDisk <- MCSmallDisk
  InitialThere <- MCThere
  Dotted = {"."}
  Roots <- MCRoots
  RemoteRoots <- MCRemoteRoots
  FileNames = {}
  DirNames <- MCBareNames
  XferSizes = {}
  ProviderIds = {0}
  Lengths <- MCLengths
  ValueLengths = {4}
  MaxEdits = 2
  MaxCalls = 1
  MaxChanges = 0
  MaxFailures = 0
INVARIANTS
  DirectoriesMigrateWhole

SPECIFICATION ScriptsSpec
CONSTANTS
  pathUpdates <- Table
  Listing <- Folders
  Contracts = {"Token.sol", "Shop.sol"}
  Others = {"README.md"}
  Contents <- Texts
  ArgLists <- Runs
  MaxCrashes = 1
  Builds = 2
  MaxContracts = 4
  MaxBases = 2
  MaxMocks = 1
  Clones = {a, b}
  Minors = {8, 9}
  MaxPatch = 0
  MaxFailedJobs = 1
  Released = {token, mock}
  Mocks = {mock}
  MaxPatches = 2
  MaxRc = 1
  MaxEdits = 1
  MaxFails = 1
INVARIANTS
  FilesIntact
  NothingLeft
  PairsReported
  ReleaseStays
  CommentsNameLastChange
  TagsTellTheirVersion
  PublishedAreTagged
PROPERTIES
  RunsConverge
  ImplementsDocsSite
  LatestIsNewestOfItsMinor
CHECK_DEADLOCK FALSE

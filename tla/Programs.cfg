SPECIFICATION Spec
CONSTANTS
  PackageNodes = 2
  LibraryNodes = 2
  ProtocolDigests = {2, 4}
  Roots = {1, 2, 3, 4}
  Standards <- StandardsOfInstance
  SchemaCommitment = {3}
  StandardNotes = {2}
  MaxExports = 2
  MaxVerified = 2
  Dirs <- DirsOfInstance
  LibDirs <- LibDirsOfInstance
  CrateNames = {"n1", "n2"}
  Segments = {"", ".", "..", "a", "target", "b"}
  MaxSegments = 3
  ServedNetworks = {"mtst", "mdev"}
  HomeNetwork = "mtst"
  LocalNetwork = "mlcl"
  UnknownNetwork = "zz"
  CodeRoots = {"r1", "r2"}
  MaxHappenings = 3
  Paths = {"a", "b", "c"}
  FileSets <- FileSetsOfInstance
  MaxEvents = 2
  MaxTypes = 3
  MaxParts = 2
  MaxBroken = 2
  MaxChanges = 1
INVARIANTS
  MetadataTrue
  ReadingsAgree
  StoredProjectReopens
  NotVerifiedMeansNoRecord
  PageShowsItsState
  BlameIsJust
CHECK_DEADLOCK FALSE

SPECIFICATION MCSpec
CONSTANTS
  Operators = {op1, op2}
  Monitor = monitor
  Jobs = {j1, j2}
  MaxLeases = 1
  Slow = {"submit"}
  None = None
  Bundles <- Variants
  Files <- Paths
  Sources <- Revisions
  Contents <- Versions
  Absent = None
  Empty = Empty
  LastRelease = 3
  FilesOf <- Manifest
  Staged <- Bundled
  Pin <- Renewed
  Selected <- Default
  Seeds <- FreshOrSeeded
INVARIANTS
  TypeOK
  MaintenanceIsPaused
  JobsSerialised
  NotStranded
  CacheTypeOK
  InstalledIsPinned
  ServesPinned
  ReadyIsInstalled
  RecordIsHonest
  InventoryAgrees
PROPERTIES
  JobCollected
  ServingResumes
  Converges
  SleeperWakes
  PauseEnds

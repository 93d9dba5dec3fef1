SPECIFICATION CacheSpec
CONSTANTS
  Bundles <- Variants
  Files <- Paths
  Sources <- Revisions
  Contents <- Versions
  Absent = None
  Empty = Empty
  LastRelease = 2
  FilesOf <- Manifest
  Staged <- Bundled
  Pin <- NewProjector
  Selected <- Default
  Seeds <- OnlyFresh
INVARIANTS
  CompleteIsValid

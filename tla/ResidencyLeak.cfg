SPECIFICATION Spec
CONSTANTS
  Clients = {c1, c2}
  Prewarmer = starter
  Operators = {}
  Models <- TwoModels
  Workloads <- StartupWorkloads
  Devices <- GpuOnly
  Configs = {"c1", "c2", "c3", "c4"}
  None = None
  Policy <- StartupPolicy
  Profile <- StartupProfile
  AppSets <- NoApps
  Strategies = {"high"}
  Defaults = {"first"}
  MaxRam = 4
  MaxVram = 3
  Dedicated <- Vram4
  MaxReservation = 4
  AllowPartial = TRUE
  QueueExpires = TRUE
  DrainExpires = FALSE
  LeakyRoutes = {c1}
SYMMETRY Symmetry
INVARIANTS
  LeaseAccounting

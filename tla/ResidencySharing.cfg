SPECIFICATION Spec
CONSTANTS
  Clients = {c1, c2}
  Prewarmer = starter
  Operators = {}
  Models <- ThreeModels
  Workloads <- TwoWorkloads
  Devices <- GpuOnly
  Configs = {"c1", "c2", "c3", "c4"}
  None = None
  Policy <- SharingPolicy
  Profile <- SharingProfile
  AppSets <- NoApps
  Strategies = {"high", "single"}
  Defaults = {"chat"}
  MaxRam = 4
  MaxVram = 4
  Dedicated <- Vram3
  MaxReservation = 4
  AllowPartial = FALSE
  QueueExpires = TRUE
  DrainExpires = FALSE
  LeakyRoutes = {}
SYMMETRY Symmetry
INVARIANTS
  TypeOK
  LeaseAccounting
  ReservationAccounting
  WithinAllocation
  LeasedAsConfigured
  ConcurrencyRespected
  SleeperHasWaker
PROPERTIES
  NoBudgetRefusal
  SingleExclusive

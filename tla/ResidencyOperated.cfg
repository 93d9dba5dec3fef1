SPECIFICATION OperatedSpec
CONSTANTS
  Clients = {c1, c2}
  Prewarmer = starter
  Operators = {op}
  Models <- TwoModels
  Workloads <- OperatedWorkloads
  Devices <- GpuOnly
  Configs = {"c1", "c2", "c3", "c4"}
  None = None
  Policy <- OperatedPolicy
  Profile <- OperatedProfile
  AppSets <- AppsDesk
  Strategies = {"high", "balanced"}
  Defaults = {"chat", "first"}
  MaxRam = 4
  MaxVram = 3
  Dedicated <- Vram4
  MaxReservation = 4
  AllowPartial = TRUE
  QueueExpires = TRUE
  DrainExpires = TRUE
  LeakyRoutes = {c1, c2}
SYMMETRY Symmetry
ACTION_CONSTRAINT OperatedStep
INVARIANTS
  HoldingIsDrained
PROPERTIES
  ImplementsWorkerPool
  BalancedReconciled

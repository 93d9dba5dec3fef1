SPECIFICATION Spec
CONSTANTS
  Clients = {c1}
  Prewarmer = starter
  Operators = {}
  Models <- FourModels
  Workloads <- OneWorkload
  Devices <- GpuOnly
  Configs = {"c1", "c2", "c3", "c4"}
  None = None
  Policy <- PressurePolicy
  Profile <- PressureProfile
  AppSets <- NoApps
  Strategies = {"high"}
  Defaults = {"chat"}
  MaxRam = 3
  MaxVram = 3
  Dedicated <- Vram3
  MaxReservation = 4
  AllowPartial = TRUE
  QueueExpires = TRUE
  DrainExpires = FALSE
  LeakyRoutes = {}
PROPERTIES
  CpuWorkerKept

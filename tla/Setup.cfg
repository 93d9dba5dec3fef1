INIT MCInit
NEXT Next
CONSTANTS
  None = None
  Clients = {c1, c2}
  Turns = {c1, c2}
  Importer = importer
  Guest = guest
  Sessions = {"s1", "s2"}
  Names = {"doc"}
  Documents = {"doc"}
  Inputs <- VoiceOrDocument
  MaxPages = 2
  MaxSteps = 2
  Servers = {"server1", "server2"}
  MaxCommands = 2
  Nobody = None
  Keys = {"k1", "k2", "k3", "k4"}
  Tokens = {"x", "y"}
  MaxSessions = 1
  Nothing = None
  Versions = {1, 2}
  Bundle <- TwoVersions
  AppPids = {"p1", "p2"}
  AppPorts = {8100, 8101}
  MaxActions = 2
  MaxRecords = 2
  MaxSegments = 2
  Limit = 2
  MaxSize = 2
  MaxPieces = 4
  Prepared = {"talk", "voice", "mac"}
  Uses <- Engines
  Families <- AudioFamilies
  MaxJobs = 2
  Policies <- Recipes
  WorkerPorts = {8200, 8201}
  WorkerPids = {1, 2}
  MaxRam = 4
  Gib <- G
  Ram <- Machine
  Accelerators <- Dedicated
  Artifacts <- Three
  Workloads <- Planned
  MachinePolicies <- Owners
  Budgets <- Granted
  Chosen = {"setup"}
INVARIANTS
  ReadyIsWhole
CHECK_DEADLOCK FALSE

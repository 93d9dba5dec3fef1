------------------------------ MODULE MCProgress ------------------------------
(***************************************************************************)
(* The three specifications with liveness properties, for TLC, in one run: *)
(* a behaviour is one of the worker manager, of the maintenance jobs or of *)
(* the model cache, as part says; the others keep the state they start in. *)
(***************************************************************************)
EXTENDS Maintenance, MCModelCache

VARIABLES
  part,
  workers, reserved_ram_gib, reserved_vram_by_device, strategy, last_request_workload,
  active_app_workloads, running_apps, default_workload, manager_paused, manager_ready,
  queued_requests, prewarm, client, workload, model, operator

managerVars ==
  <<workers, reserved_ram_gib, reserved_vram_by_device, strategy, last_request_workload,
    active_app_workloads, running_apps, default_workload, manager_paused, manager_ready,
    queued_requests, prewarm, client, workload, model, operator>>
partVars == <<part, vars, cacheVars, managerVars>>

-----------------------------------------------------------------------------
(* The manager: one workload whose two models exclude each other, so that   *)
(* threads wait for one another's leases, and an operator for all.          *)
Pair(cfg, priority, residency) ==
  [config |-> cfg, ram |-> 1, vram |-> 2, device |-> "gpu0", limit |-> 1, priority |-> priority,
   residency |-> residency, idle |-> FALSE, startup |-> FALSE]
PairPolicy == [chat |-> [m1 |-> Pair("c1", 50, "pinned"), m2 |-> Pair("c2", 0, "ephemeral")]]
PairProfile ==
  [chat |-> [memory_limit |-> 0, reserve |-> 0, required_ram |-> 0, required_vram |-> 0]]

W == INSTANCE Residency WITH
       Clients <- {"client1", "client2"}, Prewarmer <- "starter", Operators <- {"operator"},
       Models <- {"m1", "m2"}, Workloads <- {"chat"}, Devices <- {"gpu0"},
       Configs <- {"c1", "c2"}, Policy <- PairPolicy, Profile <- PairProfile,
       AppSets <- {{}}, Strategies <- {"high"}, Defaults <- {"chat"},
       MaxRam <- 4, MaxVram <- 3, Dedicated <- [gpu0 |-> 4], MaxReservation <- 4,
       AllowPartial <- TRUE, QueueExpires <- TRUE, DrainExpires <- FALSE, LeakyRoutes <- {},
       paused <- manager_paused, ready <- manager_ready, pc <- client, opc <- operator

-----------------------------------------------------------------------------
\* The cache when it is not the part explored: empty, and its server stopped.
Unused ==
  /\ release = 1 /\ next = 1 /\ ensured = 0
  /\ step = "halted" /\ bundle = "q4"
  /\ disk = Fresh
  /\ marker = [b \in Bundles |-> Absent]
  /\ downloads = marker /\ serving = marker

MCInit ==
  /\ part \in {"manager", "jobs", "cache"}
  /\ Init
  /\ W!Init
  /\ IF part = "cache" THEN CacheInit ELSE Unused

MCNext ==
  /\ UNCHANGED part
  /\ \/ part = "manager" /\ W!Next /\ UNCHANGED <<vars, cacheVars>>
     \/ part = "jobs" /\ Next /\ UNCHANGED <<managerVars, cacheVars>>
     \/ part = "cache" /\ CacheNext /\ UNCHANGED <<vars, managerVars>>

\* The fairness of each specification (W!Fairness, Fairness, CacheFairness), asked of
\* the part that is explored.
ManagerFairness ==
  /\ \A c \in W!Threads :
       /\ WF_managerVars(part = "manager" /\ W!Attempt(c))
       /\ WF_managerVars(part = "manager" /\ W!Release(c))
  /\ WF_managerVars(part = "manager" /\ W!PauseWakes("operator"))

JobsFairness ==
  /\ WF_vars(part = "jobs" /\ Look(Monitor, "get"))
  /\ \A a \in Actors : WF_vars(part = "jobs" /\ Collect(a))
  /\ \A j \in Jobs :
       WF_vars(part = "jobs" /\ \E state \in {"completed", "failed"} : ProcessEnds(j, state))

StoreFairness ==
  /\ WF_cacheVars(part = "cache" /\ Start)
  /\ WF_cacheVars(part = "cache" /\ ~Started /\ \E b \in Bundles : Find(b) \/ Begin(b))
  /\ WF_cacheVars(part = "cache" /\ Install)

MCSpec ==
  MCInit /\ [][MCNext]_partVars /\ ManagerFairness /\ JobsFairness /\ StoreFairness

-----------------------------------------------------------------------------
(* The manager's properties                                                 *)

\* A request that sleeps on transition_cv_ is woken, finds room or is refused.
SleeperWakes == W!SleeperWakes

\* A drain ends: the pause of an operator returns once the leases are given back.
PauseEnds == W!PauseEnds
=============================================================================

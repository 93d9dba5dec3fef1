------------------------------ MODULE Components ------------------------------
(***************************************************************************)
(* The components that share no state with the worker manager or with one  *)
(* another, side by side.  A behaviour runs one of them, the one that      *)
(* component names; the others keep the state they start in.               *)
(***************************************************************************)
EXTENDS Integers, AgentSession, ServiceControl, AppAccess

CONSTANTS
  Chosen,                                       \* the components that are run
  MaxRecords, MaxSegments,                      \* relay
  Versions, Bundle, AppPids, AppPorts,          \* apps
  MaxActions,
  Limit, MaxSize, MaxPieces,                    \* bridge
  Prepared, Uses, Families, MaxJobs,            \* setup
  Policies, WorkerPorts, WorkerPids, MaxRam,    \* workers
  Gib, Ram, Accelerators, Artifacts, Workloads, \* planning
  MachinePolicies, Budgets

\* Bounds are numbers, and the requests under way are finitely many (the
\* server's thread pool).
ASSUME RelayAssumption ==
  /\ IsFiniteSet(Clients)
  /\ MaxRecords \in Nat
  /\ MaxSegments \in Nat \ {0}

VARIABLES
  component,
  kind, stage, in_flight, wire, pending, sent, got, segments, outcome,      \* relay
  app_lock, command, installed, staging, profile, record, process, actions,
  kills,                                                                    \* apps
  reader, handler, asleep, arriving, chunks, queued, arrived, delivered,
  flags, stopped,                                                           \* bridge
  python, packages, marker, cache, binary, runtime, job, ready, unfinished,
  killed, begun,                                                            \* setup
  planning, asked, limits, startups, resident,                              \* planning
  manager, workers, launch, spawned, tested, late                        \* workers

relayVars == <<kind, stage, in_flight, wire, pending, sent, got, segments, outcome>>
appVars == <<app_lock, command, installed, staging, profile, record, process, actions, kills>>
bridgeVars == <<reader, handler, asleep, arriving, chunks, queued, arrived, delivered, flags,
                stopped>>
setupVars == <<python, packages, marker, cache, binary, runtime, job, ready, unfinished, killed,
               begun>>
planningVars == <<planning, asked, limits, startups, resident>>
launchVars == <<manager, workers, launch, spawned, tested, late>>

-----------------------------------------------------------------------------
R == INSTANCE Relay WITH Requests <- Clients
A == INSTANCE AppLifecycle WITH Commands <- Clients, Pids <- AppPids, Ports <- AppPorts
B == INSTANCE AppBridge
T == INSTANCE Preparation WITH Workloads <- Prepared, cut <- unfinished, kills <- killed
P == INSTANCE Planning
W == INSTANCE WorkerLaunch WITH Ports <- WorkerPorts, Pids <- WorkerPids, Limit <- MaxRam,
                                server <- manager, process <- spawned

\* None is no name of anything, and no record.
ASSUME AppAssumption ==
  /\ MaxActions \in Nat
  /\ None \notin Clients /\ None \notin Versions /\ None \notin AppPids
  /\ None \notin A!CommandType /\ None \notin A!ProcessType

\* Ports, processes and GiB are numbers; every model has one of the launchers.
ASSUME WorkerAssumption ==
  /\ WorkerPorts \subseteq Nat /\ WorkerPids \subseteq Nat /\ MaxRam \in Nat
  /\ \A p \in Policies : p.ram \in Nat /\ p.reserve \in Nat /\ p.launcher \in W!Launchers
  /\ None \notin WorkerPids
  /\ None \notin W!ProcessType /\ None \notin W!WorkerType /\ None \notin W!LaunchType

\* A bridge holds something.
ASSUME BridgeAssumption == Limit \in Nat \ {0} /\ MaxSize \in Nat /\ MaxPieces \in Nat

\* Every backend that a workload uses is one that setup knows how to install.
ASSUME SetupAssumption ==
  /\ MaxJobs \in Nat
  /\ \A w \in Prepared : Uses[w] \subseteq T!Backends
  /\ None \notin Prepared /\ None \notin T!JobType

\* Amounts are whole, a GiB is a few bytes at least, models are numbered in the
\* order of their names, and a workload names each of its models once.
ASSUME PlanningAssumption ==
  /\ Gib \in Nat /\ Gib >= 4 /\ Ram \in Nat
  /\ "cpu" \notin P!Devices /\ P!Models \subseteq Nat
  /\ IsFiniteSet(P!Devices)
  /\ \A d \in P!Devices :
       Accelerators[d].memory \in Nat /\ Accelerators[d].unified \in BOOLEAN
  /\ \A m \in P!Models :
       LET a == Artifacts[m]
       IN  /\ IsFiniteSet(a.files) /\ \A f \in a.files : f.bytes \in Nat
           /\ IsFiniteSet(a.groups)
           /\ \A g \in a.groups : g.layers \in Nat /\ g.width \in Nat /\ g.window \in Nat
           /\ a.reservation \in Nat /\ a.overhead \in Nat /\ a.blocks \in Nat \ {0}
  /\ \A w \in Workloads :
       /\ w \in P!WorkloadType /\ IsFiniteSet(w.models)
       /\ \A p, q \in w.models : p.id = q.id => p = q
  /\ \A m \in MachinePolicies :
       m.ram \in Int /\ \A d \in DOMAIN m.dedicated : m.dedicated[d] \in Nat
  /\ \A b \in Budgets : b.ram \in Int /\ b.vram \in Int /\ b.partial \in BOOLEAN

-----------------------------------------------------------------------------
\* A component that is not explored stays in one of its initial states (planning,
\* whose questions are large, in none).
Init ==
  /\ component \in Chosen
  /\ SessionInit /\ (component # "sessions" => archive = None)
  /\ R!Init
  /\ A!Init /\ (component # "apps" => installed = None)
  /\ ServiceInit
  /\ B!Init
  /\ AccessInit /\ (component # "access" => inline_key = None)
  /\ T!Init
  /\ W!Init
  /\ IF component = "planning" THEN P!Init
     ELSE planning = "setup" /\ asked = None /\ limits = None /\ startups = <<>> /\ resident = <<>>

\* A step of component c.
Alone(c) ==
  /\ component = c /\ UNCHANGED component
  /\ c # "sessions" => UNCHANGED sessionVars
  /\ c # "relay" => UNCHANGED relayVars
  /\ c # "apps" => UNCHANGED appVars
  /\ c # "service" => UNCHANGED serviceVars
  /\ c # "bridge" => UNCHANGED bridgeVars
  /\ c # "access" => UNCHANGED accessVars
  /\ c # "setup" => UNCHANGED setupVars
  /\ c # "planning" => UNCHANGED planningVars
  /\ c # "workers" => UNCHANGED launchVars

Next ==
  \/ Alone("sessions") /\ SessionNext
  \/ Alone("relay") /\ R!Next
  \/ Alone("apps") /\ A!Next
  \/ Alone("service") /\ ServiceNext
  \/ Alone("bridge") /\ B!Next
  \/ Alone("access") /\ AccessNext
  \/ Alone("setup") /\ T!Next
  \/ Alone("planning") /\ P!Next
  \/ Alone("workers") /\ W!Next

vars == <<component, sessionVars, relayVars, appVars, serviceVars, bridgeVars,
          accessVars, setupVars, planningVars, launchVars>>

Spec == Init /\ [][Next]_vars

\* Threads go on (see AgentSession and AppBridge); a component that is not
\* explored has nothing to go on with.
FairSpec == Spec /\ SessionFairness /\ B!Fairness

-----------------------------------------------------------------------------
(* The components' properties                                               *)

\* Every component's state has the shape its code gives it.
TypeOK ==
  /\ SessionTypeOK /\ R!TypeOK /\ A!TypeOK /\ ServiceTypeOK /\ B!TypeOK /\ AccessTypeOK /\ T!TypeOK
  /\ W!TypeOK
  /\ component = "planning" => P!TypeOK

\* Relay: records reach the client in order, none twice, none left out, and a
\* worker's leases are the requests that use it.
RelayedInOrder == R!RelayedInOrder /\ R!LeasedWhileTalking

\* Applications: a failed install or upgrade leaves what it found, and files
\* are replaced only while no process of the application is on record.
AppRollsBack == A!RollsBack /\ A!ReplacesStopped

\* Applications and workers: two services never share a port, what is launched
\* are the files of the manifest in hand, and a resident worker is the process
\* that answers at its port, or one that was loading when its server was killed
\* is; it was started as the request asks, and the living server leaves none.
LaunchesOwn == A!PortExclusive /\ A!LaunchesVerified /\ W!WorkersAreOwn

\* Bridge: an application's answer arrives in order and within the limit.
BridgeFaithful == B!BridgeFaithful

\* Setup: what reports success is whole, but for an audio engine or a tools
\* environment that was cut half-way; after a refresh there is no exception; and
\* what ends keeps the default workload.
PreparedWhole == []T!PreparedWhole /\ T!RefreshRepairs /\ T!DefaultKept

\* Sessions and bridge: the global session mutex comes back from every turn, and
\* neither thread of a bridge waits for ever.
ThreadsEnd == TurnEnds /\ B!BridgeEnds

\* Planning: what setup accepts can be served by the machine it was asked for, and
\* a pinned model is passed over only for models that come before it.
PlannedServes == P!PlannedServes

-----------------------------------------------------------------------------
(* What the documentation says and the code does not do                     *)

\* Workers: only its own process answers at a resident worker's port
\* (docs/ports.md:21-24, 29-32).
PortIsOwn == W!PortIsOwn

\* Setup: nothing that was cut half-way is taken for done (docs/profiles.md:420-422).
ReadyIsWhole == T!ReadyIsWhole

\* Planning: what is pinned is resident after startup (docs/profiles.md:519-520).
PinnedLoaded == P!PinnedLoaded
=============================================================================

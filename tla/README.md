# mica-server in TLA+

Mica is a local inference server: one C++ process (`src/src/*.cpp`) that accepts
OpenAI-style HTTP requests, starts engine processes ("workers") that hold models
in RAM and VRAM, shares them between requests of several applications, and is
managed through a command line, a terminal interface and a browser dashboard.
This directory models its concurrent core and the protocols around it - sessions,
streams, applications, the server as a process, updates, keys, setup, planning -
checks them with TLC and proves what matters most of them with TLAPS.

- [Inventory](#inventory) - the parts of the system, their state, what is hard
- [Modules](#modules) - how the TLA+ corresponds to the code
- [Runs](#runs) - what TLC checks, bounds and fairness
- [Proofs](#proofs) - what TLAPS proves and along which argument
- [Disagreements found](#disagreements-found)
- [Not modelled](#not-modelled) and [Order of work](#order-of-work)

To run a check: `tlc -config ResidencySharing.cfg MCResidency` (and so on for the
other `.cfg` files, with the module `PROJECT.json` names); to check a proof:
`tlapm ResidencyProofs.tla`.

## Inventory

| Component | State | Operations | What is hard | Correct when |
| --- | --- | --- | --- | --- |
| **Worker manager** (`server.cpp` 1104-2539, `scheduler.cpp`) | `workers_` with `in_flight`, running totals of reserved RAM and VRAM, strategy, latest workload, cached application set, `paused_`, `ready_`, `queued_requests_` | bind a workload, `acquire`, `release`, `sweep_idle`, `set_strategy`, `swap_profile`, `pause_inference`, `resume_inference`, `reload_after_maintenance`, `prewarm` | one mutex and one condition variable for request threads, the startup thread, the sweeper and operators; eviction under two budgets; a queue with deadlines | a leased worker stays; totals are right and within the allocation; no lost wake-up; no needless refusal; a paused server is empty |
| **Maintenance jobs** (`dashboard.cpp` 193-315, 451-461) | `active`, `maintenance`, `resume_after`; a record file per job; the job's process | submit, get, the monitor's poll, pause and resume endpoints | a protocol of threads, a child process and a file; pause does not take the jobs' mutex | one job at a time; inference paused while it prepares, resumed after it, whatever fails |
| **Artifact store** (`server.cpp` 1919-2185, `download.cpp`) | model caches, completion markers, `state/runtime.json` | `ensure_artifact`, `record_download`, `record_smoke_validation`, parallel range downloads | crashes between renames; the startup thread writes without the mutex | a marker means complete files; no update of the state file is lost |
| **Agent sessions** (`server.cpp` 3551-4301) | session documents, uploads, rendered pages, audio | run a turn, export, import | a turn of many steps that persists as it goes, one mutex for all sessions | history matches media; no failure, crash or import loses a finished turn |
| **Routing and proxying** (`server.cpp` 2888-3550, 4368-4602) | the lease of each request, streaming state | resolve a model, rewrite, proxy, stream | records cut anywhere by the network; a lease must end with the stream or the client's disconnect | records arrive in order, whole and once; every lease is returned once |
| **Application bridge** (`dashboard.cpp` 45-80, 340-445, `app_http.cpp`) | a bounded queue between two threads; app sessions | start, forward, cancel; open, use and end a session | finish, cancel and disconnect in any order; a key replaced under a session | neither side sleeps for ever; order and bytes kept; a session ends with its key |
| **Credentials** (`credentials.cpp`) | two keys, in memory and in files | check, rotate | file and memory change in two steps | a failed rotation changes nothing |
| **Application lifecycle** (`apps.cpp`, `ports.cpp`) | receipts and state of each application, port leases | install, start, stop, upgrade, uninstall | processes that outlive their parent, flock leases, crashes between files | state on disk matches processes; no port twice |
| **Service and configuration** (`service.cpp`, `machine.cpp`, `main.cpp`) | server lock, control file, settings | start, stop, status, `config set` | probing a lock takes it; settings and processes change in steps | at most one server; settings saved are settings used |
| **Updates** (`update.cpp`) | installed binary and data | check, download, install with roll back | renames that can fail or be cut off | an exception leaves old or new, never a mix |
| **Setup and preparation** (`setup.cpp`, `build_guard.cpp`, `main.cpp`) | installed engines, `state/runtime.json` | resolve, build, download; prepare another workload and put the default back | long external commands that fail part way and are tried again | what reports success is whole; the default survives |
| **Memory estimates, placement, startup plans** (`memory.cpp`, `scheduler.cpp`, `setup.cpp`) | none | estimate, place, check, plan | the same arithmetic in four places, rounded differently | what setup accepts can be served |
| **Worker launch** (`server.cpp` 1599-1918, `ports.cpp`, `process.cpp`) | port leases, engine processes | compose a command line, lease a port, spawn, wait for health, warm up, stop | a killed server leaves workers behind; processes die unseen | a resident worker is the process that answers, started as asked |
| **Profiles and catalog** (`profiles.cpp`, `catalog.cpp`, `config.cpp`, `inventory.cpp`) | none (documents) | parse, inherit, validate, list | many optional fields | inheritance is well founded |
| Hardware, command execution, TUI, client, browser and Python applications, scripts | | | pure I/O or presentation | - |

How they interact: HTTP handlers call the worker manager (acquire before, release
after the engine's answer); the dashboard calls its pause, resume and reload through
`DashboardHost` and learns the end of a job from the job's record file; the
manager reads the applications' state files to learn which workloads have a
running application; the command line talks to a running server over HTTP and
to a stopped one through its files.

## Modules

| Module | Models | Kind |
| --- | --- | --- |
| `Reservations` | sums of reservations over a set of workers | operators |
| `Residency` | the worker manager | detailed specification |
| `WorkerPool` | what the manager promises to request handlers | abstract specification |
| `Maintenance` | the maintenance jobs of the dashboard against pauses and requests | detailed specification |
| `ModelCache` | the cache directory of a model: installing artifacts across crashes and upgrades | detailed specification |
| `AgentSession` | turns of agent sessions, export and import | detailed specification |
| `Relay` | what stands between a request and its worker's answer | detailed specification |
| `AppLifecycle` | install, upgrade, uninstall, start, stop and open of an application | detailed specification |
| `ServiceControl` | the server as a process, the commands that control it, updates | detailed specification |
| `AppBridge` | the bounded bridge between a browser and a private application | detailed specification |
| `AppAccess` | keys, their rotation, application sessions | detailed specification |
| `Preparation` | setup, installation and preparation of workloads | detailed specification |
| `Planning` | memory estimates, placement, checks and startup plans | algorithms and a four-step specification |
| `WorkerLaunch` | the command line, port, process and health of workers | detailed specification |
| `Components` | the nine modules from `AgentSession` on, side by side | composition |
| `MCResidency`, `MCMaintenance`, `MCModelCache`, `MCComponents` | instances for TLC, each of one specification | |
| `MCProgress` | the manager, the jobs and the cache in one run, a behaviour being one of the three (`part`) | |
| `ResidencyProofs` | the manager and its refinement of `WorkerPool` | theorems |
| `MaintenanceProofs`, `ModelCacheProofs`, `SessionProofs` | the module of that name | theorems |
| `ServiceProofs` | `ServiceControl` and `AppAccess` | theorems |
| `BackendProofs` | `AppLifecycle`, `WorkerLaunch`, `Relay`, `AppBridge` | theorems |
| `SetupProofs` | `Preparation`, `Planning` | theorems |
| `ComponentsProofs` | the composition | theorems |

`Components` extends `AgentSession`, `ServiceControl` and `AppAccess` (what is called
`Init` or `Next` elsewhere has a prefix there) and instantiates the other six. These nine share
no state with the worker manager or with one another that their properties
depend on (a turn's call of a model is a call that answers or throws, a
command's server is up or not), so a product of their behaviours would show
nothing that one of them alone does not: a behaviour picks a `component` and runs
that one.

### Residency

One action is one critical section of `WorkerManager::mutex_`: from taking it to
releasing it or to sleeping on `transition_cv_`. Loading a worker, its health
check and its warm-up happen under the mutex in the code, so they are part of
the action that loads.

| Actions | Code |
| --- | --- |
| `Bind` | `RequestScope`, `bind_workload` (1123-1143) |
| `Attempt`: `RefusePaused`, `RefuseUnselected`, `RefuseOversized`, `Reuse`, `Queue`, `Load`, `LoadFails`, `NoRoom` | one round of `acquire_queued_locked` with `acquire_locked` and `make_room` (1374-1517, 2393-2484) |
| `QueueTimeout`, `SpuriousWakeup` | the wait of 1439-1444 |
| `Release`, `LoseLease` | `release` (1519-1541); a route that leaves by an exception (3315-3363) |
| `PrewarmVerified`, `PrewarmSkip`, `PrewarmAcquire`, `PrewarmDone`, `PrewarmFailed` | `prewarm` (1191-1240, 1302-1307) |
| `Sweep`, `SetStrategy`, `SwapProfile` | `sweep_idle`, `set_strategy`, `swap_profile` |
| `PauseInference`, `PauseWakes`, `PauseTimesOut`, `ResumeInference`, `ReloadAfterMaintenance` | 1543-1598 |
| `AppsChange` | applications that come and go (external) |

A request thread is `idle`, `bound` to a workload and model, `asleep` on the
condition variable, `notified` (awake but without the mutex) or holds a lease
(`leased`). A model stands for the key model id, backend and quantization.
What `compatible_worker` compares beyond the named fields is one value,
`config`. Memory is in whole units. Time is abstracted: an idle worker whose
idle time is finite may or may not have expired, the application cache may or may
not have been refreshed, ties in the eviction order that last-use time decides are
open. An eviction (`EvictsUntilRoom`) is a set `E` that the loop may have removed
when it stops: a prefix of an admissible order, no longer than room requires.

Every inference route tests `ready_` before it binds a workload, so requests meet
the startup thread only if an operator resumed inference early (which sets
`ready_`). Then `prewarm` reads totals without the mutex while requests change
them. That is a data race in the code, so `PrewarmReads` may see either answer
while a request is under way.

### WorkerPool

The abstract specification has two variables, the policy each resident worker was
started with and the worker each thread holds, and three actions: evict workers
nobody holds, grant (start or share) one within the machine's capacity, return one.
Its theorem `HeldWorkersAreKept` says what a handler relies on: a worker it holds
is in memory and is not restarted with another policy under it.
`Residency` maps to it with `ResidentPolicy` and `LeaseOf`.

### Maintenance

`Jobs::mutex` is modelled explicitly, because a submission keeps it through
`pause_inference`'s wait and a get keeps it through reload and resume, while
`POST /admin/inference/pause` does not take it. One action is one step between
points where another thread can act: looking at the active job (`Look`), reload,
resume, reading the status, the pause and its drain, writing the record and spawning
(`Launch`, `RecordFails`, `SpawnFails`). The worker manager appears with paused,
ready, a count of leases and whether anything is loaded; `Residency` has the rest.
The job's process ends with a final record (`ProcessEnds`) or without
(`ProcessDies`: killed, or unable to write it). `answered` is a history variable:
whether the last answer given to an operator leaves inference paused on purpose.

### ModelCache

The files, completion markers and `runtime.json` records of one model's directory,
in which several variants may share files, and the one thread at a time that runs
`ensure_artifact` (`prewarm`, later `acquire_locked` under its mutex). One action is
one write that a crash may follow: a rename of a staged file (`Publish`), a
downloaded file of a pair (`Fetch`), truncating the marker (`Truncate`), its
content (`Mark`, or `MarkLost`, since the stream is not tested), the record
(`Record`). `Stage` is one step because nothing outside of the stage directory
changes and a later attempt removes it first; what leaves it has passed the size and
checksum tests. `Fail` is any exception, `Stop` a stop or crash anywhere,
`Upgrade` a change of the pins, which counts from the next start.

A pinned revision determines a content; a model whose pair is fetched from the
branch `main` is therefore outside of what the properties say. A reload after
maintenance, which can bring other pins into a running server without workers, is
`Stop`, `Upgrade`, `Start` here. `Cached` is the second version of the
completion test, the inventory's.

`Pinning` says when one source in a marker suffices: the first file's source tells
the contents of all (`FirstTells`), releases do not return to a source they left
(`NoReturn`: otherwise a publication cut off leaves mixed files under a marker
that is right again), and variants agree on shared files (`SharedAlike`). The
manifests in `config/model-manifests` take most bundles from one source; the run
`ModelCacheComponent` shows what happens to the others.

### AgentSession

A turn is a thread that holds `session_mutex` (3852) from `Lock` to `Finish` or
`Fail`; one action is what happens between two events of the turn or two writes.
`Transition` is `transition` (3856-3862): the state and the active turn go into the document,
`write_json_atomic` replaces `session.json`, and the event is sent, which throws
when the client of a streaming turn has gone. What the turn holds in memory is
`work` (`doc`, the session as it will be written); what is on disk is `disk`,
`dirs` and `files`. `Throw` is any exception of a model call or a file, caught by
the handler that writes the session as `failed`. `Export`, `ImportBegin` and
`ImportEnd` are the store's routes, which take the same mutex; `Crash` forgets every
thread. The media model's calls abstract to which files it is shown (`seen`). Of a
file the model keeps whose content it is (`files[s]` maps a name to the turn that wrote
it), so that a file under the right name with another turn's content is told apart: uploads
are numbered from 0 in every turn (3872-3882), spoken replies by the turns recorded
before them (4224-4233), and an archive holds uploads only (3586).

### Relay

A record is a line (or, of speech, a WAV file); the worker's bytes arrive in
pieces cut anywhere, and each kind of relay keeps the rest of an unfinished record
in `pending`. One action is one callback: a piece arrives, the worker ends, a
client or a worker fails. `in_flight` is the worker's lease count.

### AppLifecycle, ServiceControl

Commands are processes that may be killed between any two steps; what they spawned
lives on. In `AppLifecycle` they hold the flock of `apps/.lock` and the running
service holds that of its port. In `ServiceControl`, `server.lock` is also taken by
whoever asks whether a server runs (`Ask`, `Learn`), a server writes `server.json`
when it listens and takes it away when it leaves, and an update moves the
files of the installation one by one, with the roll back of `update.cpp` 164-280.
`RollBack` is one step that succeeds: renames of the catch clause (172-183) that throw
themselves are outside of the model.

### AppBridge, AppAccess

The bridge is a reader thread and a content provider with one mutex and one condition
variable; sleeping is explicit (`asleep`), so a missing notification is a lost
wake-up. `AppAccess` has the two keys in three places (file, memory, what the
operator was told), the start of the server that may find a key in `server.json`,
the rotation in two steps, and the sessions whose requests recheck their key.

### Preparation, Planning, WorkerLaunch

`Preparation` goes through the stages of `execute_setup` with what each skips when
it looks installed; a job may fail or be killed at each. `Planning` is arithmetic:
the operators of `memory.cpp`, `scheduler.cpp` and `setup.cpp` over integers with
their integer divisions, and four steps - refuse, resolve, install, prewarm - that
apply them in the order in which setup and a start do. `WorkerLaunch` takes what
`Residency` abstracts to a load that succeeds or fails: the port lease, the
process, its health and its death, and the processes that a killed server leaves (`late`
are those that still loaded then and will listen on their port afterwards).
Of the command line it keeps which options each launcher is told.

## Runs

| Run | Instance | Checks |
| --- | --- | --- |
| `ResidencySharing` | 2 clients and the startup thread, 3 keys, 2 workloads, strategies `high` and `single`, queue timeouts | `TypeOK`, `LeaseAccounting`, `ReservationAccounting`, `WithinAllocation`, `LeasedAsConfigured`, `ConcurrencyRespected`, `SleeperHasWaker`, `NoBudgetRefusal`, `SingleExclusive` |
| `ResidencyOperated` | behaviours of two kinds: strategy `balanced` with 2 keys, 3 workloads and an application; strategy `high` with 2 startup models that exclude each other, an operator, leaky routes and all timeouts | `BalancedReconciled`, `HoldingIsDrained`, `ImplementsWorkerPool` |
| `Progress` | behaviours of three kinds, each under its fairness: the manager with 2 clients, an operator and models that exclude each other; the jobs with 2 operators, the monitor, 2 jobs and 1 request; the cache with 3 variants, 5 files and 3 releases | `SleeperWakes`, `PauseEnds`; `TypeOK`, `MaintenanceIsPaused`, `JobsSerialised`, `NotStranded`, `JobCollected`, `ServingResumes`; `CacheTypeOK`, `InstalledIsPinned`, `ServesPinned`, `ReadyIsInstalled`, `RecordIsHonest`, `InventoryAgrees`, `Converges` |
| `Components` | each of the nine components with 2 clients, fairness | `TypeOK`, `HistoryKept`, `MediaResolves`, `RelayedInOrder`, `LaunchesOwn`, `ServingIsKnown`, `InstalledWhole`, `BridgeFaithful`, `PlannedServes`, `AppRollsBack`, `AccessRevoked`, `PreparedWhole`, `ThreadsEnd` |
| `ResidencyLeak`, `ResidencyPressure`, `MaintenanceUnpaused`, `ModelCacheComponent`, `SessionObserves`, `Workers`, `Setup`, `Planning` | | violated; see below |

`ResidencyOperated` and `Progress` put specifications side by side that do not run
together: a behaviour is of one kind from its first state to its last. In `Progress` the parts
that are not explored stand still (`part`); in `ResidencyOperated` the kind is a set of states
(`Balancing`, `Starting`) that the action constraint `OperatedStep` does not let a behaviour
leave, and TLC checks the action properties of the steps that would leave it as well.

What the properties say, beyond their comments in the modules:

- *Sharing, eviction and budgets.* `LeaseAccounting`, `ReservationAccounting`,
  `WithinAllocation`, `LeasedAsConfigured` and `ConcurrencyRespected` relate what
  the manager stores to what threads hold or wait for, over every interleaving of acquire,
  release, replacement, eviction, sweep and pause. `NoBudgetRefusal` says that
  the eviction of `make_room` is complete: a request that passes the check of its own
  footprint finds room or waits, and is never refused for memory.
- *Strategies.* `SingleExclusive` and `BalancedReconciled` are the two policies
  of `docs/scheduling.md` as action properties.
- *Sleeping and waking.* `SleeperHasWaker` is the reason the queue is live: whoever
  sleeps, some lease is out. `SleeperWakes` and `PauseEnds` follow under fairness.
- *Pausing.* `HoldingIsDrained` for one operator who pauses and resumes;
  `MaintenanceIsPaused`, `NotStranded` and `ServingResumes` for jobs.
- *Artifacts.* Whatever was cut off, what counts as complete, what a worker was
  started on, what `prewarm` went past and what is recorded have the pinned contents;
  the inventory agrees with the server; and when faults cease, startup gets through.
- *Sessions.* `HistoryKept` says that a finished turn is in its session for
  ever and that the stored conversation is made of whole pairs; `MediaResolves`
  that the media route serves for a message what was sent with it and what was spoken
  in reply, never an earlier turn's file, which an import under another name must
  rewrite. It excepts what the code does do: a later turn's upload of the same name at the
  same place takes the place of an earlier one's, the reply of a turn whose client left before it
  was recorded is replaced by the next turn's, and spoken replies do not
  come with an import.
- *Streams.* `RelayedInOrder` and, in it, `LeasedWhileTalking`: whatever the cuts, records are
  passed on in order, whole and once, and the lease ends once with the stream.
- *Processes and ports.* `LaunchesOwn` joins `PortExclusive` and `LaunchesVerified` of
  applications with `WorkersAreOwn` of workers: the process that answers at a port
  is the one in the book, and runs what was asked; the one exception are processes that were
  still loading when their server was killed (`late`; the run `Workers` shows what
  they do). `ServingIsKnown`: of overlapping
  commands and of servers that die at any point, the one that serves is the one
  that `server.json` names.
- *Files in several steps.* `InstalledWhole` (with `PreviousKept`), `AppRollsBack`
  (with `ReplacesStopped`) and `PreparedWhole` (with `DefaultKept`): what fails half-way
  leaves what it found, and what reports success is whole. `PreparedWhole` excepts the two
  things that an earlier attempt can leave half done and taken for done (`cut`, `LeftBehind`):
  the tools environment, cut between `venv` and `pip`, and the audio engine, cut between
  cmake's two runs (the run `Setup` shows the first). `RefreshRepairs` says that a setup with
  `--refresh` has no exceptions. `ReplacesStopped` speaks of the recorded process: a
  stop clears the record without waiting for the exit.
- *Keys.* `AccessRevoked` joins `KeysHold` and `SessionsRevoked`.
- *Planning.* `PlannedServes`: what passed setup's checks fits the machine, no
  placement charges less than it loads, and a pinned model that is not resident after
  startup was passed over for an unpinned one that comes before it (the run `Planning`
  shows one).
- *Threads.* `ThreadsEnd` joins `TurnEnds` and `BridgeEnds`, the liveness of the session
  mutex and of the bridge.

**Bounds.** Two clients, besides the startup thread, are the smallest number in
which two requests share a worker, replace each other's or wait for each other
while a third thread acquires; models and memory are chosen so that two workers
exclude each other, RAM and VRAM run short separately and together, one key has
incompatible configurations, and an idle worker can expire. `MaxReservation`
bounds the sums' index set only. In `Maintenance`, `MaxLeases = 1` because
draining distinguishes only zero and more, and two operators with two jobs give
every race on `active`; `Jobs` is finite, so a run ends its submissions, not its
polls. Clients are symmetric where no liveness is checked. In
the cache two bundles share one file and a pair stands apart, the first
upgrade changes every content and the second only the source, so that markers,
records and files of three releases mix; crashes are unbounded.

In `Components` two clients are two turns (one streamed with voice, one with a
document of two pages, in one session with a second to import into), two requests
to one worker, two application commands, two service commands. `MaxSteps = 2` lets a
turn look twice at its document and reach the step limit; two records and two
sentences, cut anywhere, leave every kind of rest; two versions, of which the second brings a workload
more, two launches and two ports give an upgrade over a running service and a port
that is still held; two server processes and two commands overlap a restart with an update;
a bridge of 2 bytes with pieces of up to 2 fills and overshoots its limit; four keys
allow two rotations after the first start; three workloads use the same, other and
more engines than each other; 5 policies differ from one another in what the launcher is told
only, in what the comparison sees, or in the engine. `Planning` takes 288
workloads, 4 machine policies and 2 budgets over three models on accelerators of
8 and 4 GiB with a GiB of 100000 units, so that each of its rounding steps rounds.

**Fairness.** `Residency`: a thread that can take the mutex does (it is a plain
mutex), an engine answers or fails within the proxy's read timeout so that
every lease ends, and a pausing operator that was notified looks again. Nothing is
assumed of arrivals, sweeps or operators. `Maintenance`: the monitor polls every
250 ms, a thread inside `Jobs::get` goes on, a process that nothing kills ends.
`ModelCache`: a server that is down is started again, and the thread in
`ensure_artifact` goes on; no request has to come, and `Converges` speaks of behaviours in
which faults cease. `AgentSession`: a turn that holds the mutex goes on, since calls of models
return or time out. `AppBridge`: both threads go on, and a read ends with data, with the
end or after its timeout; an application does not send for ever.
In `Progress` each condition is asked of the part that is explored only
(`ManagerFairness`, `JobsFairness`, `StoreFairness`). Queue timeouts may happen there but
are not fair, and pauses do not time out: a wait that ends by its timeout alone shows
nothing.

**Deadlock** is checked in every run of `Residency`, `Maintenance` and `ModelCache`,
`Progress` included; none occurs. In `Components` and the runs of its instances that are
violated a component may end - all turns
have ended, all commands the bound allows have run - so it is not checked there;
`ThreadsEnd` says where standing still would be wrong.

## Proofs

For arbitrary finite sets of clients, models and devices, arbitrary workloads,
policies, machines and budgets, and any number of turns, sessions, commands, servers,
versions, processes, ports, records, pieces and keys. What is assumed of them is
named: `ResidencyAssumption`, `MaintenanceAssumption` and `CacheAssumption`, and in
`Components` `RelayAssumption`, `AppAssumption`, `WorkerAssumption`, `BridgeAssumption`,
`SetupAssumption` and `PlanningAssumption`, all of which TLC evaluates in the runs. They
say that amounts are numbers, that threads and running applications are finitely many,
that `None` is no name of anything, and that setup knows every backend a workload uses. Hypotheses of a theorem say
the same of `AgentSession` (`Named`, `Blank`), `ServiceControl` (`Distinct`,
`Anonymous`) and `AppAccess` (`KeysDistinct`); a hypothesis that is more than that
is explained below.

- `ResidencyProofs`: `TypeOK` is not inductive: `release` reads the worker that
  the thread holds, so nothing keeps that worker from being `None`. The inductive
  invariant is `Leasing == TypeOK /\ ThreadsBound /\ Counted`: a thread beyond
  `idle` has a model, and a resident worker's `in_flight` is at least (with no leaky
  route, exactly) the number of its holders. Every action is first classified as
  a `PoolStep` - it leaves the pool, loses a lease, shares, loads or gives back -
  one lemma per action (`NextStep`); the invariants are then proved once per kind
  of step. `LeasesAreAccounted` counts
  the queue as well: each step moves at most one thread in or out of it and changes
  `queued_requests` with it (`QueueMoves`). From `Leasing`: `TypeCorrectness`, `LeasesAreAccounted`,
  `LeasesProtect`, `ReservationsAreAccounted`, `AllocationIsRespected`,
  `ConcurrencyIsRespected`. A reservation is a finite set of numbered units
  (`Reservations`), so a total is a cardinality and needs no induction; the first
  lemmas are its laws. Other theorems have invariants of their own next to
  `Leasing`. `LeasesAreAsConfigured`: a holder's workload and model are bound once
  and a held worker's policy never changes, so a grant, which loads or reuses what
  the request's own policy selects, decides it for ever. `WakersAreLeft`
  (without leaky routes): a round that puts a request to sleep has seen a worker in use,
  hence a lease, and whoever returns a lease wakes all. `HoldersAreDrained` (for a single
  operator): `Paused` - from the drained pause to the resume nothing is granted and
  nothing loaded. `SingleIsExclusive`: each way to a lease under the single
  strategy leaves one worker. `AdmissibleIsNeverRefused` needs the accounting: when
  nothing is busy every resident worker is idle, and either all of them are
  candidates, so that eviction leaves an empty machine (`EmptyMachineFits`), or the
  ceiling is respected and stays so as workers go (`MoreGone`), each short pool loses every
  worker that reserves of it (`RamEmptied`, `VramEmptied`), and a pool that is not short
  does not become so (`ReliefFits`). So `make_room` gives up only while a worker is
  busy, whatever the order of eviction. `BalancedStaysReconciled`: who changes `last_request_workload` to a workload,
  or returns a lease, did so in its own pass of `acquire` or `release` (`OwnStep`), which
  drops each idle worker that neither suits the workload nor has a priority of 100; that an
  effective priority is a number at all, a highest among those of finitely many running
  applications, is `EffectivePriorityType`.
  Last comes the refinement: `ManagerImplementsPool`, with `Leasing`, the
  reservation accounting and the allocation as invariants: idle workers have
  no holder, so evictions are `Evict`; the running totals are the sums, so a
  load that passed the budget check is within `WithinCapacity`. `HeldWorkersAreKept` is
  proved of the abstract specification (`Pool!Spec`) and drawn for the manager through the
  refinement: a worker that a thread holds is in memory, and its policy stays.
- `MaintenanceProofs`: `Serial` (who holds the mutex where, and that a running
  process is the active job's) gives `JobsAreSerialised`. `MaintenanceIsSilent`
  adds `Hushed` and `Prepared`, the places from which inference must already be
  paused and empty, and assumes that the pause endpoint's own drain does not time
  out - the assumption that the run `MaintenanceUnpaused` shows to be needed.
  `NothingIsStranded` has, under the same assumption, the invariant `Excused`: the list
  of the reasons for which inference may be paused at each point of each call.
  `ProtocolTyped` adds to `Serial` that the count of leases stays within its bound.
- `ModelCacheProofs`: `CacheTyped` and, from `Pinning`, `CacheSafe`. None of its
  four invariants is inductive. `IInv` adds that markers and records hold sources of
  this or earlier releases (`Past`), that those of this release vouch for the files
  whether or not a worker is asked for (`Vouches`), and how far the installation under
  way has come (`InstallingSound`). The two steps that matter are a rename over
  a shared file (`PutKeeps`, by `SharedAlike`) and an upgrade (`UpgradeVouches`, by
  `NoReturn` and `FirstTells`). `InventoryIsRight` needs no `Pinning`: whatever the pins,
  a marker with a source, and every stage of an installation, says which files exist
  (`Marked`), and of these the two tests ask the same. `ServedIsPinned`, `ReadyMeansInstalled`
  and `RecordsAreHonest` are `CacheSafe` for one property each.
- `SessionProofs`: `HistoryIsKept` from `Kept`: at most one turn holds the mutex,
  what it holds in memory is good (pairs of messages, each turn in the
  conversation) and has every turn whose result was returned, so that whatever it
  writes loses none. `MediaIsKept` adds `Sound`: every copy of a session - on disk, in a
  turn, in an archive, in an import - names files that exist where it belongs and hold
  the content of that message or of what may replace it (`Keeps`), and what a turn is
  about to name it has saved itself. Assumption `Named`: turns, the importer, the
  guest whose session an archive may bring and `None` are different, and turns are sent what
  the code admits.
- `ServiceProofs`: `ServingIsKnownHolds` from `Known` (a process past the lock
  holds it, and the one that serves is in `server.json`), `UpdateLeavesWhole` from
  `UpdateSound` (what each step of an update has moved aside, put in and must undo).
  `ReplacedKeysAreRefused` from `Guarded`: at each stage of the start,
  file, `server.json`, memory and operator agree (`Agreed`, up to a rotation's file), the
  two keys differ and no replaced key is in a file (`Apart`), and a key being put
  in place is fresh (`Fresh`).
- `BackendProofs`, *applications*: `InstallsRollBack` from `Applied`: the lock's holder is
  the one command between its locked steps, and what it holds to restore (`prior`,
  `before`) is what it found, up to what it has itself replaced. That only a roll-back
  ends a failing command needs the count of kills (`AppCounted`), because the property
  speaks of commands that end without a kill. The same invariant gives the two halves of
  `WhatIsLaunchedIsOwn` that are about applications.
- *Workers*: the third half of `WhatIsLaunchedIsOwn` from `Owned`: the process of a launch
  and of each resident worker was started by a living server, with the command line of its
  policy and on its own port (`Serves`), and what a killed server left behind still listens
  at its port unless it is `late` (`OrphansHeard`), so that the probe of a port
  sees it. `CompatibleCommands` is the lemma about the code's comparison: two
  policies that `compatible_worker` calls equal and that fit alone yield the same command line.
- *Relay*: `RelayPassesInOrder` from `Relaying`. A worker's output is the numbering of
  texts and ends of records (`Nth`); what was handed on, what is pending and what is still on
  the wire are consecutive runs of it (`Run`, `Follows`, `Flows`), for every place at
  which it may be cut. The lemmas before it are about sequences: what a cut leaves, what a join
  restores, where the last end of a record is. `in_flight` is the number of `Holders`.
- *Bridge*: `BridgeIsFaithful` from `Bridged`: what was delivered and what is queued are the
  pieces 1 to n in order (`Sent`, as `HandedOut` and `Queue`), `queued` is the sum of the sizes
  in the queue, and an answer that ends by itself has all. `AppBridge` counts the queue's
  bytes as the cardinality of a set of pairs (`Bytes`), so that appending and taking a
  piece change it without induction.
- `SetupProofs`, *setup*: `SetupLeavesWhole` from `Prepares`: a stage that was passed or
  skipped has left its environment, packages or engine (`StagesDone`), a marker or a binary
  says so only if it is so (`ToolsInstalled`, `EngineBuilt`, except where it was cut), and
  `runtime.json` holds at least what the job found (`Recorded`). That a refresh repairs
  what was cut has an invariant of its own (`Refreshing`): past a stage that it did again,
  the exception is gone.
- *Planning*: `AcceptedIsServed` from `PlanKept`. `AcceptedModelsFit`: the checks of
  `resolve_setup` are made of the pinned models and of them with each other one; what
  startup plans and what the server loads are sums over other sets. `ModelsAreCharged`: no
  placement, offload or split charges less than weights and cache, through all of the
  integer divisions. `Outranked`: the server's loop takes models in one order and skips what
  does not fit beside those before it, so that if only pinned models are loaded their sum is at
  most the one that setup accepted. The sums are the community modules' folds; what is needed of them
  - one more member adds its amount, a subset has no more, parts are no more than the whole -
  is proved without induction, by a least counterexample among the subsets of a finite set.
  Under the strategy `single` (`asked.single`) startup loads one model only, so `Outranked`
  speaks of the others.
- `ComponentsProofs`: a step of the composition is a step of one component and a
  stutter of the others (`SessionsAlone`, `RelayAlone`, ...), so what holds of a component holds
  of the system: `ComponentsTyped` collects the types of all nine, `SystemKeepsItsData` and
  `SystemLeavesNothingHalfDone` the safety properties that are proved of components that
  `Components` extends. The types of sessions, service and keys have invariants of their own
  (`SessionTyped`, `ServiceTyped`, `KeysTyped`), proved beside the safety invariants, which
  they need: a turn's document is one only while its turn holds the mutex.

Only model-checked: everything under fairness (`SleeperWakes`, `PauseEnds`,
`JobCollected`, `ServingResumes`, `Converges`, `ThreadsEnd`), which is out of the
prover's reach. Every invariant and every action property of a passing run is proved.

## Disagreements found

- **A lost lease** (`ResidencyLeak`). `invoke_asr` and `invoke_tts` release only on
  their ordinary paths; an exception between acquire and release leaves
  `in_flight` raised for ever, where `docs/scheduling.md` has the lease end with
  the response.
- **CPU workers evicted for VRAM** (`ResidencyPressure`). `make_room` computes
  shortfalls and candidates once; after its first eviction has cured the RAM
  shortage it still evicts a CPU-only worker although only VRAM is short, which
  the comment there rules out.
- **A job that runs unpaused** (`MaintenanceUnpaused`). A pause that times out
  un-pauses the server under another call that is still draining, and a
  preparation job is launched with inference live.
- **A component that is never updated** (`ModelCacheComponent`). The marker
  is compared with the first file's source only; a release that moves a projector or a
  drafter with a source of its own leaves the old file in use, reported as a complete
  bundle, where `docs/models.md` has every file pass before a bundle counts.
- **Pages of an earlier document** (`SessionObserves`). `render_pdf_pages` returns every
  page it finds in `rendered/<name>`, a directory of the session that no turn
  empties; a shorter document of the same name is shown to the media model with the
  last pages of the earlier one, where `docs/design/agent-chat-state-machine.md`
  limits the tool to what the turn brought.
- **A port with two processes** (`Workers`). A worker that was still loading when its server
  was killed holds no lock and does not listen yet, so its port is given to another
  worker, and `wait_for_health` takes its later answer for that one's, where `docs/ports.md`
  has a slot used again only once its process has exited and startup fail safely.
- **A tools environment without its packages** (`Setup`). `install_download_environment` skips
  `pip` when `bin/python` exists, so a setup after one that was cut reports success without the
  packages, where `docs/profiles.md` has packages reconciled when an environment is used
  again. Without a run of its own: the audio engine's families are read from cmake's cache,
  so that an engine whose build was cut before it compiled is taken for built.
- **A pinned model that is not loaded** (`Planning`). Setup plans every backend and quantization by
  itself; `prewarm` takes all of them in one order and passes over what does not fit, a
  pinned model too, where `docs/profiles.md` has it loaded at startup or setup fail.

Two more, without a run. Spoken replies lie outside of what an export packs (`server.cpp` 3586,
4224, 4233), so that they are not found in an imported session, where `docs/api.md` 470-479
has an export hold the raw media. And as uploads are numbered from 0 in every turn
(3872-3882), a second upload of the same name and place replaces the first, which the stored
message still names. `MediaResolves` excepts both by name.

## Not modelled

Of the worker manager: the startup path for workloads older than schema 3
(1242-1301), the new registry a reload brings, the lifetime of C++ objects, the engines. Of
the cache: directories that the `hf` tool fetches, two installers at once, the
ranges and the resumption of a download. Of the jobs: those that save and clone
workloads or run other commands, a record that cannot be written after a failed reload, a
restart of the server while a job runs. A process that dies without a final record
leaves its job active and inference paused until the server restarts;
`JobCollected` and `ServingResumes` except it. A record that cannot be written
after the pause leaves inference paused; the submission's error says nothing of it
(`answered` counts it as an answer that leaves inference paused).

Of sessions: what prompts and tool plans contain, sizes and media formats, the
summary. Of relays: the resolution of a model and the rewriting of a request's
fields, which map documents to documents. Of applications: the remote catalog, several
applications at once. Of service and updates: the parsing of settings, finding and
verifying a release. Of setup: options of builds and versions of packages. Of planning:
workloads older than schema 3, unified memory beyond one accelerator. Of updates: a roll
back that fails. Of keys: requests admitted before a rotation, which run to their end.

Not modelled at all: profiles and catalog (pure functions over documents, field by
field, without state), hardware detection and command execution (reads of the
machine), the terminal interface, the client command, the browser and Python
applications (presentation, and clients outside the server), scripts, adapters,
benchmarks and data. What they decide enters as constants: policies, budgets,
workloads, devices.

## Order of work

The modules were written in this order, the most important behaviour first:
`Residency` with `WorkerPool` and the refinement; `Maintenance`; `ModelCache`; `AgentSession` and
`Relay`; `AppBridge` and `AppAccess`; `ServiceControl`; `AppLifecycle`; `Preparation`;
`Planning`; `WorkerLaunch`. The theorems followed: types, leases, accounting and refinement of the
manager; jobs; the cache; then configuration, waking, draining and exclusiveness of
the manager, stranding, the inventory, sessions, service, updates and keys; then
applications, workers, relay, bridge, setup and planning, the types of the composition, and
eviction and reconciliation. What a
next step would add: two
installers at once over one stage directory and one temporary name of `runtime.json`; the
restart of the server while a job runs.

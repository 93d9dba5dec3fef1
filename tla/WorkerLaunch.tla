----------------------------- MODULE WorkerLaunch -----------------------------
(***************************************************************************)
(* How a worker comes to be and goes: its command line, its port, its      *)
(* process, its health and its first answer, under the manager's mutex;    *)
(* and what a server that is killed leaves behind.  Which worker to start  *)
(* or to evict, and who is leased one, are Residency's.                    *)
(***************************************************************************)
EXTENDS Naturals, FiniteSets, FiniteSetsExt

CONSTANTS Policies, \* models as workloads serve them: model, launcher, options
          Ports,    \* worker_first..worker_last
          Pids,     \* bound: processes spawned, numbered in their order
          Limit,    \* max_ram_gib
          None

VARIABLES server,   \* "up" or "down"
          workers,  \* model -> [policy, port, pid], None when not resident
          launch,   \* the worker that the holder of mutex_ is starting
          process,  \* pid -> [command, port, state, orphan]
          tested,   \* the models whose download is smoke_validated
          late      \* the processes that still loaded when their server was killed

launchVars == <<server, workers, launch, process, tested, late>>

Models == {p.model : p \in Policies}

-----------------------------------------------------------------------------
(* The command line                                                        *)

\* profile_native_options, those that stand for the batch and draft settings.
Native == {"batch", "speculative", "projector_on_cpu", "kv_k", "kv_v"}

\* compatible_worker: what a resident worker and a request must agree on.
Compared == {"launcher", "input", "output", "total", "parallel", "kv", "device",
             "layers", "ram"} \cup Native

Launchers == {"llama-server", "vllm", "mlx-lm", "mlx-vlm", "mlx-audio", "mlx-diarization",
              "audio-server"}

\* What each launcher is told; the audio servers know no limits.
Told(launcher) ==
  CASE launcher = "llama-server" ->
         {"total", "parallel", "kv", "device", "layers"} \cup Native
    [] launcher = "vllm" -> {"total", "parallel", "device"}
    [] launcher \in {"mlx-lm", "mlx-vlm"} -> {"input", "output", "total", "parallel", "kv"}
    [] launcher \in {"mlx-audio", "mlx-diarization"} -> {}
    [] launcher = "audio-server" -> {"device"}

\* vLLM is given what the workload's reserve leaves of its reservation, as a
\* share of the device; the MLX servers the reservation itself.
Memory(p) ==
  CASE p.launcher = "vllm" -> Min({p.ram, Limit - p.reserve})
    [] p.launcher \in {"mlx-lm", "mlx-vlm", "mlx-audio", "mlx-diarization"} -> p.ram
    [] OTHER -> 0

worker_command(p) ==
  [model |-> p.model, memory |-> Memory(p), options |-> [o \in Told(p.launcher) |-> p[o]]]

\* mlx-lm has no quantized cache.
NoCommand(p) == p.launcher = "mlx-lm" /\ p.kv \in {"q4", "q8"}

\* Mutant: the native options are not compared.
CompatibleButNative(p, q) ==
  p.model = q.model /\ \A o \in Compared \ Native : p[o] = q[o]

Compatible(p, q) == p.model = q.model /\ \A o \in Compared : p[o] = q[o]

\* A request's model must fit what its own workload may use.
FitsAlone(p) == p.ram + p.reserve <= Limit

-----------------------------------------------------------------------------
Resident(m) == workers[m] # None
Used == MapThenSumSet(LAMBDA m : IF Resident(m) THEN workers[m].policy.ram ELSE 0, Models)

Alive(i) == process[i] # None /\ process[i].state # "dead"
Listens(i, q) == process[i] # None /\ process[i].state = "listening" /\ process[i].port = q
Heard(q) == \E i \in Pids : Listens(i, q)

\* The leases that a living server holds; its children do not inherit them.
Leased(q) == \/ launch # None /\ launch.port = q
             \/ \E m \in Models : Resident(m) /\ workers[m].port = q

ProcessType == [command : {worker_command(p) : p \in Policies}, port : Ports,
                state : {"loading", "listening", "dead"}, orphan : BOOLEAN]
WorkerType == [policy : Policies, port : Ports, pid : Pids]
LaunchType == [policy : Policies, port : Ports, pid : Pids \cup {None},
               step : {"command", "waiting", "asking", "warming", "failing"}]

\* stop_worker: SIGTERM, after five seconds SIGKILL, and the process is reaped.
Stopped(is) == [i \in Pids |-> IF i \in is THEN [process[i] EXCEPT !.state = "dead"]
                               ELSE process[i]]

Init ==
  /\ server = "down"
  /\ workers = [m \in Models |-> None]
  /\ launch = None
  /\ process = [i \in Pids |-> None]
  /\ tested = {}
  /\ late = {}

-----------------------------------------------------------------------------
(* acquire_locked, for a model that is not resident                        *)

\* ports::acquire: the first port that nobody leases or listens on.
Free == {q \in Ports : ~Leased(q) /\ ~Heard(q)}
Begin(p) ==
  /\ server = "up"
  /\ launch = None
  /\ ~Resident(p.model)
  /\ FitsAlone(p)
  /\ Used + p.ram + p.reserve <= Limit   \* make_room
  /\ Free # {}
  /\ launch' = [policy |-> p, port |-> Min(Free), pid |-> None, step |-> "command"]
  /\ UNCHANGED <<server, workers, process, tested, late>>

\* The artifact is missing and cannot be fetched, or there is no such command.
Abandon ==
  /\ launch # None /\ launch.step = "command"
  /\ launch' = None
  /\ UNCHANGED <<server, workers, process, tested, late>>

Spawn(i) ==
  /\ launch # None /\ launch.step = "command"
  /\ ~NoCommand(launch.policy)
  /\ \E j \in Pids : process[j] = None
  /\ i = Min({j \in Pids : process[j] = None})
  /\ process' = [process EXCEPT ![i] =
       [command |-> worker_command(launch.policy), port |-> launch.port,
        state |-> "loading", orphan |-> FALSE]]
  /\ launch' = [launch EXCEPT !.pid = i, !.step = "waiting"]
  /\ UNCHANGED <<server, workers, tested, late>>

\* wait_for_health looks whether the process has ended, then asks the port.
Look ==
  /\ launch # None /\ launch.step = "waiting"
  /\ launch' = [launch EXCEPT !.step = IF Alive(launch.pid) THEN "asking" ELSE "failing"]
  /\ UNCHANGED <<server, workers, process, tested, late>>

wait_for_health ==
  /\ launch # None /\ launch.step = "asking"
  /\ launch' = [launch EXCEPT !.step = IF Heard(launch.port) THEN "warming" ELSE "waiting"]
  /\ UNCHANGED <<server, workers, process, tested, late>>

\* load_timeout_seconds, or an answer that is not what the smoke test expects.
TimedOut ==
  /\ launch # None /\ launch.step \in {"waiting", "warming"}
  /\ launch' = [launch EXCEPT !.step = "failing"]
  /\ UNCHANGED <<server, workers, process, tested, late>>

Fail ==
  /\ launch # None /\ launch.step = "failing"
  /\ process' = Stopped({launch.pid})
  /\ launch' = None
  /\ UNCHANGED <<server, workers, tested, late>>

\* warmup: whoever listens gives a real answer, which is recorded.
warmup ==
  /\ launch # None /\ launch.step = "warming"
  /\ Heard(launch.port)
  /\ tested' = tested \cup {launch.policy.model}
  /\ workers' = [workers EXCEPT ![launch.policy.model] =
       [policy |-> launch.policy, port |-> launch.port, pid |-> launch.pid]]
  /\ launch' = None
  /\ UNCHANGED <<server, process, late>>

\* Eviction, the idle sweep, the release of an ephemeral worker, a pause.
Evict(m) ==
  /\ launch = None
  /\ Resident(m)
  /\ process' = Stopped({workers[m].pid})
  /\ workers' = [workers EXCEPT ![m] = None]
  /\ UNCHANGED <<server, launch, tested, late>>

-----------------------------------------------------------------------------
(* Processes                                                               *)

\* A worker that has loaded listens on its port, or ends when it is taken.
Bind(i) ==
  /\ process[i] # None /\ process[i].state = "loading"
  /\ process' = [process EXCEPT ![i].state =
                   IF Heard(process[i].port) THEN "dead" ELSE "listening"]
  /\ UNCHANGED <<server, workers, launch, tested, late>>

Die(i) ==
  /\ Alive(i)
  /\ process' = Stopped({i})
  /\ UNCHANGED <<server, workers, launch, tested, late>>

Start ==
  /\ server = "down"
  /\ server' = "up"
  /\ UNCHANGED <<workers, launch, process, tested, late>>

\* ~WorkerManager waits for the mutex.
Quit ==
  /\ server = "up"
  /\ launch = None
  /\ process' = Stopped({workers[m].pid : m \in {n \in Models : Resident(n)}})
  /\ workers' = [m \in Models |-> None]
  /\ server' = "down"
  /\ UNCHANGED <<launch, tested, late>>

\* Its workers live on; the next server does not know them.
Kill ==
  /\ server = "up"
  /\ late' = late \cup {i \in Pids : process[i] # None /\ process[i].state = "loading"}
  /\ process' = [i \in Pids |-> IF Alive(i) THEN [process[i] EXCEPT !.orphan = TRUE]
                                ELSE process[i]]
  /\ workers' = [m \in Models |-> None]
  /\ launch' = None
  /\ server' = "down"
  /\ UNCHANGED tested

Next ==
  \/ \E p \in Policies : Begin(p)
  \/ \E i \in Pids : Spawn(i) \/ Bind(i) \/ Die(i)
  \/ \E m \in Models : Evict(m)
  \/ Abandon \/ Look \/ wait_for_health \/ TimedOut \/ Fail \/ warmup
  \/ Start \/ Quit \/ Kill

Spec == Init /\ [][Next]_launchVars

-----------------------------------------------------------------------------
TypeOK ==
  /\ server \in {"up", "down"}
  /\ workers \in [Models -> WorkerType \cup {None}]
  /\ \A m \in Models : Resident(m) => workers[m].policy.model = m
  /\ launch \in LaunchType \cup {None}
  /\ process \in [Pids -> ProcessType \cup {None}]
  /\ tested \subseteq Models
  /\ late \subseteq Pids

\* Whoever answers at a resident worker's port is that worker's process, also
\* after it has died and while workers of servers that were killed live on, or
\* one of those that was still loading then: it listens on its port when that
\* has been given to another.
AnsweredByOwn ==
  \A m \in Models, i \in Pids :
    Resident(m) /\ Listens(i, workers[m].port) => i = workers[m].pid \/ i \in late

\* What docs/ports.md:21-24 and 29-32 says of it: a slot is used again only once
\* its process has exited, and a start that lost its port fails.  A port that a
\* loading worker will listen on looks free when its server has been killed, and
\* whatever answers there makes the next worker ready.
PortIsOwn ==
  \A m \in Models, i \in Pids :
    Resident(m) /\ Listens(i, workers[m].port) => i = workers[m].pid

\* A request that is given a resident worker because compatible_worker agrees
\* has the worker that its own policy would have started.
StartedAsAsked ==
  \A m \in Models, q \in Policies :
    Resident(m) /\ Compatible(workers[m].policy, q) /\ FitsAlone(q) =>
      process[workers[m].pid].command = worker_command(q)

\* A failed start, an eviction and a stop leave no process behind: whatever the
\* living server has started and not ended is resident or being started.
NoStray ==
  \A i \in Pids : Alive(i) /\ ~process[i].orphan =>
    \/ launch # None /\ launch.pid = i
    \/ \E m \in Models : Resident(m) /\ workers[m].pid = i

WorkersAreOwn == AnsweredByOwn /\ StartedAsAsked /\ NoStray
=============================================================================

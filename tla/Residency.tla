------------------------------ MODULE Residency ------------------------------
(***************************************************************************)
(* WorkerManager of src/src/server.cpp: which engine workers are resident, *)
(* which request threads hold a lease on them, and which threads wait.     *)
(*                                                                         *)
(* Every operation of the manager runs under one mutex, mutex_, which it   *)
(* gives up only inside a wait on transition_cv_; loading a worker, its    *)
(* health check and its warm-up run under the mutex as well.  So one       *)
(* action is one critical section: from taking the mutex to releasing it   *)
(* or to going to sleep on the condition variable.                         *)
(*                                                                         *)
(* A "model" here is a worker key: model id, backend and quantization.     *)
(* Memory is counted in whole units.  Clock readings are abstracted: an    *)
(* idle worker whose idle time is not zero may or may not have expired.    *)
(***************************************************************************)
EXTENDS Reservations

CONSTANTS
  Clients,        \* threads that serve HTTP requests
  Prewarmer,      \* the startup thread, which acquires workers as they do
  Operators,      \* threads that serve pause, resume and reload
  Models,         \* worker keys
  Workloads,      \* profiles of the registry
  Devices,        \* accelerator memory pools
  Configs,        \* what compatible_worker compares besides the fields below
  None,           \* no worker, no policy, no workload
  Policy,         \* Policy[w][m]: how workload w configures m, or None
  Profile,        \* Profile[w]: the limits a workload declares
  AppSets,        \* sets of workloads of running applications
  Strategies,     \* scheduling strategies an operator may choose
  Defaults,       \* workloads that runtime.json may name at the start
  MaxRam, MaxVram, Dedicated,  \* allocation: RAM, VRAM, VRAM of each device
  MaxReservation,              \* no policy reserves more of a pool
  AllowPartial,        \* registry_.allow_partial_workload
  QueueExpires,        \* may queue_timeout_seconds elapse?
  DrainExpires,        \* may the 30 s of pause_inference elapse?
  LeakyRoutes          \* clients whose route loses the lease on an exception

Threads == Clients \cup {Prewarmer}

Residencies == {"ephemeral", "on_demand", "warm", "pinned"}

PolicyType ==
  [config : Configs, ram : 0..MaxReservation, vram : 0..MaxReservation,
   device : Devices, limit : Nat \ {0}, priority : Nat,
   residency : Residencies, idle : BOOLEAN, startup : BOOLEAN]

WorkerType == [policy : PolicyType, retention : Nat, in_flight : Int]

ProfileType ==
  [memory_limit : Nat, reserve : Nat, required_ram : Nat, required_vram : Nat]

ASSUME ResidencyAssumption ==
  /\ IsFiniteSet(Clients) /\ IsFiniteSet(Models)
  /\ IsFiniteSet(Devices) /\ Devices # {}
  /\ Prewarmer \notin Clients
  /\ MaxRam \in Nat /\ MaxVram \in Nat /\ MaxReservation \in Nat
  /\ Dedicated \in [Devices -> Nat]
  /\ None \notin Workloads /\ None \notin Models
  /\ None \notin PolicyType /\ None \notin WorkerType
  /\ Policy \in [Workloads -> [Models -> PolicyType \cup {None}]]
  /\ Profile \in [Workloads -> ProfileType]
  /\ AppSets \subseteq SUBSET Workloads /\ {} \in AppSets
  /\ \A apps \in AppSets : IsFiniteSet(apps)
  /\ Strategies \subseteq {"single", "high", "balanced"} /\ Strategies # {}
  /\ Defaults \subseteq Workloads
  /\ {AllowPartial, QueueExpires, DrainExpires} \subseteq BOOLEAN
  /\ LeakyRoutes \subseteq Clients

VARIABLES
  workers,                 \* workers_: the resident worker of a key, or None
  reserved_ram_gib,        \* reserved_ram_gib_
  reserved_vram_by_device, \* reserved_vram_by_device_; 0 for an absent entry
  strategy,                \* strategy_
  last_request_workload,   \* last_request_workload_; None when cleared
  active_app_workloads,    \* active_app_workloads_: cached, at most 2 s old
  running_apps,            \* what the application state on disk says now
  default_workload,        \* state_.profile
  paused, ready,           \* paused_, ready_
  queued_requests,         \* queued_requests_
  prewarm,                 \* progress of the startup thread
  pc,                      \* where each request thread is
  workload, model,         \* what it is bound to and asks for
  opc                      \* where each operator thread is

pool == <<workers, reserved_ram_gib, reserved_vram_by_device>>
admission == <<last_request_workload, active_app_workloads>>
modes == <<strategy, default_workload, running_apps, prewarm>>
thread == <<pc, workload, model>>
vars == <<pool, admission, modes, paused, ready, queued_requests, thread, opc>>

PoolType ==
  /\ workers \in [Models -> WorkerType \cup {None}]
  /\ reserved_ram_gib \in Int
  /\ reserved_vram_by_device \in [Devices -> Int]

ModeType ==
  /\ strategy \in Strategies
  /\ last_request_workload \in Workloads \cup {None}
  /\ active_app_workloads \in AppSets
  /\ running_apps \in AppSets
  /\ default_workload \in Workloads
  /\ paused \in BOOLEAN /\ ready \in BOOLEAN
  /\ prewarm \in [stage : {"starting", "running", "done", "failed"},
                  workload : Workloads, left : SUBSET Models]
  /\ opc \in [Operators -> {"idle", "draining", "notified", "holding"}]

ThreadType ==
  /\ queued_requests \in Int
  /\ pc \in [Threads -> {"idle", "bound", "asleep", "notified", "leased"}]
  /\ workload \in [Threads -> Workloads \cup {None}]
  /\ model \in [Threads -> Models \cup {None}]

TypeOK == PoolType /\ ModeType /\ ThreadType

Init ==
  /\ workers = [m \in Models |-> None]
  /\ reserved_ram_gib = 0
  /\ reserved_vram_by_device = [d \in Devices |-> 0]
  /\ strategy \in Strategies
  /\ last_request_workload = None
  /\ active_app_workloads = {}
  /\ running_apps = {}
  /\ default_workload \in Defaults
  /\ paused = FALSE /\ ready = FALSE
  /\ queued_requests = 0
  /\ prewarm = [stage |-> "starting", workload |-> default_workload, left |-> {}]
  /\ pc = [c \in Threads |-> "idle"]
  /\ workload = [c \in Threads |-> None]
  /\ model = [c \in Threads |-> None]
  /\ opc = [o \in Operators |-> "idle"]

-----------------------------------------------------------------------------
(* Resident workers                                                        *)

Resident(m) == workers[m] # None
Busy(m) == Resident(m) /\ workers[m].in_flight > 0
IdleOrBusy(m) == Resident(m)   \* mutated form of Idle: no test of in_flight
Idle(m) == Resident(m) /\ workers[m].in_flight = 0

\* What the reservation of each key amounts to, RAM and VRAM of a device.
ram_reservation == [m \in Models |-> IF Resident(m) THEN workers[m].policy.ram ELSE 0]
vram_reservation(d) ==
  [m \in Models |-> IF Resident(m) /\ workers[m].policy.device = d
                      THEN workers[m].policy.vram ELSE 0]

Larger(a, b) == IF a >= b THEN a ELSE b
Smaller(a, b) == IF a <= b THEN a ELSE b

\* compatible_worker: residency, priority, idle time and startup may differ.
compatible_worker(p, q) ==
  /\ q # None
  /\ p.config = q.config /\ p.limit = q.limit
  /\ p.device = q.device /\ p.ram = q.ram /\ p.vram = q.vram

\* effective_priority: a compatible binding of a running application raises it.
effective_priority(m, apps) ==
  LET raised == {Policy[w][m].priority : w \in
                   {v \in apps : compatible_worker(workers[m].policy, Policy[v][m])}}
      all == raised \cup {workers[m].retention}
  IN  CHOOSE p \in all : \A q \in all : q <= p

-----------------------------------------------------------------------------
(* Budgets, once the workers in X are gone                                 *)

RamWithout(X) == reserved_ram_gib - Total(ram_reservation, X, MaxReservation)
VramWithout(X) ==
  [d \in Devices |-> reserved_vram_by_device[d] -
                       Total(vram_reservation(d), X, MaxReservation)]

\* The sum over the map's values; a device never holds more than MaxVram.
AllVram(used) == Total(used, Devices, MaxVram)

ram_limit(w) == Larger(0, MaxRam - Profile[w].reserve)
vram_limit(w) == IF MaxVram = 0 THEN 0 ELSE Larger(0, MaxVram - Profile[w].reserve)
device_vram_limit(w, d) == Smaller(vram_limit(w), Dedicated[d])

\* Mutated form of fits_device_reservation: what is in use does not count.
fits_empty_device(w, p, used) == p.vram = 0 \/ p.vram <= device_vram_limit(w, p.device)

fits_device_reservation(w, p, used) ==
  p.vram = 0 \/ used[p.device] + p.vram <= device_vram_limit(w, p.device)

\* The aggregate ceiling of a workload; 0 is no ceiling.
WithinCeiling(w, p, ram, used) ==
  Profile[w].memory_limit = 0 \/
    ram + AllVram(used) + p.ram + p.vram <= Profile[w].memory_limit - Profile[w].reserve

fits_resources(w, p, X) ==
  /\ WithinCeiling(w, p, RamWithout(X), VramWithout(X))
  /\ RamWithout(X) + p.ram <= ram_limit(w)
  /\ fits_device_reservation(w, p, VramWithout(X))

\* The check of acquire_queued_locked: would the worker fit an empty machine?
FitsAlone(w, p) ==
  /\ p.ram <= ram_limit(w)
  /\ p.vram = 0 \/ p.vram <= device_vram_limit(w, p.device)
  /\ Profile[w].memory_limit = 0 \/
       p.ram + p.vram <= Profile[w].memory_limit - Profile[w].reserve

-----------------------------------------------------------------------------
(* make_room, for a worker with policy p of workload w, after D was dropped *)

has_capacity(w, p, X) ==
  /\ fits_resources(w, p, X)
  /\ strategy # "single" \/ \A m \in Models \ X : ~Resident(m)

ram_shortfall(w, p, D) == Larger(0, RamWithout(D) + p.ram - ram_limit(w))
vram_shortfall(w, p, D) ==
  IF p.vram = 0 THEN 0
  ELSE Larger(0, VramWithout(D)[p.device] + p.vram - device_vram_limit(w, p.device))

\* Mutated form of candidates: relief of a short VRAM pool is forgotten.
candidates_for_ram(w, p, D) ==
  {m \in Models \ D :
     /\ Idle(m)
     /\ \/ fits_resources(w, p, D)
        \/ ~WithinCeiling(w, p, RamWithout(D), VramWithout(D))
        \/ ram_shortfall(w, p, D) > 0 /\ workers[m].policy.ram > 0}

\* The idle workers make_room may evict: any if only the worker limit or the
\* aggregate ceiling is exceeded, else those that relieve a pool that is short.
candidates(w, p, D) ==
  {m \in Models \ D :
     /\ Idle(m)
     /\ \/ fits_resources(w, p, D)
        \/ ~WithinCeiling(w, p, RamWithout(D), VramWithout(D))
        \/ ram_shortfall(w, p, D) > 0 /\ workers[m].policy.ram > 0
        \/ /\ vram_shortfall(w, p, D) > 0
           /\ workers[m].policy.device = p.device /\ workers[m].policy.vram > 0}

residency_rank(m) ==
  CASE workers[m].policy.residency = "ephemeral" -> 0
    [] workers[m].policy.residency = "on_demand" -> 1
    [] workers[m].policy.residency = "warm" -> 2
    [] OTHER -> 3

relief(w, p, D, m) ==
  Smaller(ram_shortfall(w, p, D), workers[m].policy.ram) +
    (IF workers[m].policy.device = p.device
       THEN Smaller(vram_shortfall(w, p, D), workers[m].policy.vram) ELSE 0)

\* Must a be evicted before b?  Ties are broken by last use, which the model
\* leaves open.  expired[m] says whether m's idle time has run out.
EvictedBefore(w, p, D, apps, expired, a, b) ==
  LET pa == effective_priority(a, apps)  pb == effective_priority(b, apps)
      ra == residency_rank(a)            rb == residency_rank(b)
  IN  \/ pa < pb
      \/ pa = pb /\ expired[a] /\ ~expired[b]
      \/ pa = pb /\ expired[a] = expired[b] /\ ra < rb
      \/ pa = pb /\ expired[a] = expired[b] /\ ra = rb
           /\ relief(w, p, D, a) > relief(w, p, D, b)

\* E is what the eviction loop may have removed when it stops: a prefix of an
\* ordering of the candidates, no longer than capacity required.
EvictsUntilRoom(w, p, D, apps, E) ==
  \/ E = {} /\ has_capacity(w, p, D)
  \/ /\ E \subseteq candidates(w, p, D)
     /\ has_capacity(w, p, D \cup E)
     /\ \E expired \in [candidates(w, p, D) -> BOOLEAN] :
          /\ \A m \in candidates(w, p, D) : workers[m].policy.idle => expired[m]
          /\ \A a \in E, b \in candidates(w, p, D) \ E :
               ~EvictedBefore(w, p, D, apps, expired, b, a)
          /\ \E last \in E :
               /\ ~has_capacity(w, p, D \cup (E \ {last}))
               /\ \A b \in E : ~EvictedBefore(w, p, D, apps, expired, last, b)

\* The loop removed every candidate and the worker still does not fit.
EvictsInVain(w, p, D) == ~has_capacity(w, p, D \cup candidates(w, p, D))

-----------------------------------------------------------------------------
(* Changes to the pool                                                     *)

\* Mutated form of Erase: the RAM is not given back.
EraseKeepingRam(X) ==
  /\ workers' = [m \in Models |-> IF m \in X THEN None ELSE workers[m]]
  /\ reserved_ram_gib' = reserved_ram_gib
  /\ reserved_vram_by_device' = VramWithout(X)

\* erase_worker_locked for every worker in X: unreserve, stop, forget.
Erase(X) ==
  /\ workers' = [m \in Models |-> IF m \in X THEN None ELSE workers[m]]
  /\ reserved_ram_gib' = RamWithout(X)
  /\ reserved_vram_by_device' = VramWithout(X)

\* adjust_reserved_vram: only the device of the worker changes.
Charge(used, p) == [used EXCEPT ![p.device] = @ + p.vram]

\* X is evicted, then a worker with policy p becomes resident, leased once.
EraseAndLoad(X, m, p) ==
  /\ workers' = [k \in Models |->
       IF k = m THEN [policy |-> p, retention |-> p.priority, in_flight |-> 1]
       ELSE IF k \in X THEN None ELSE workers[k]]
  /\ reserved_ram_gib' = RamWithout(X) + p.ram
  /\ reserved_vram_by_device' = Charge(VramWithout(X), p)

\* Mutated form of EraseAndLease: a shared worker is not counted again.
EraseAndShare(X, m, p) ==
  /\ workers' = [k \in Models |-> IF k # m /\ k \in X THEN None ELSE workers[k]]
  /\ reserved_ram_gib' = RamWithout(X)
  /\ reserved_vram_by_device' = VramWithout(X)

\* X is evicted and the resident worker of m gets one more lease.
EraseAndLease(X, m, p) ==
  /\ workers' = [k \in Models |->
       IF k = m THEN [workers[m] EXCEPT !.in_flight = @ + 1,
                                        !.retention = Larger(@, p.priority)]
       ELSE IF k \in X THEN None ELSE workers[k]]
  /\ reserved_ram_gib' = RamWithout(X)
  /\ reserved_vram_by_device' = VramWithout(X)

\* Mutated forms of the next two: a path that forgets to notify.
NobodyNotified(sleeping) == [c \in Threads |-> sleeping[c]]
NoOperatorNotified == [o \in Operators |-> opc[o]]

\* transition_cv_.notify_all()
Notified(sleeping) == [c \in Threads |-> IF sleeping[c] = "asleep" THEN "notified" ELSE sleeping[c]]
OperatorsNotified == [o \in Operators |-> IF opc[o] = "draining" THEN "notified" ELSE opc[o]]

-----------------------------------------------------------------------------
(* A request thread                                                        *)

\* request_profile_locked: without a binding the current default counts.
WorkloadOf(c) == IF workload[c] = None THEN default_workload ELSE workload[c]
PolicyOf(c) == Policy[WorkloadOf(c)][model[c]]

\* RequestScope and swap_profile refuse a workload that needs more than the
\* allocation, unless partial workloads are allowed.
Admissible(w) ==
  \/ AllowPartial
  \/ Profile[w].required_ram <= MaxRam /\ Profile[w].required_vram <= MaxVram

\* Every inference route tests ready_, then binds its workload: without a
\* selector the request captures the default.  One step, because the default
\* does not change while ready_ is false.
Bind(c, selector, m) ==
  LET id == IF selector = None THEN default_workload ELSE selector
  IN  /\ pc[c] = "idle"
      /\ ready
      /\ Admissible(id)
      /\ pc' = [pc EXCEPT ![c] = "bound"]
      /\ workload' = [workload EXCEPT ![c] = id]
      /\ model' = [model EXCEPT ![c] = m]
      /\ UNCHANGED <<pool, admission, modes, paused, ready, queued_requests, opc>>

\* c holds the mutex at the top of the loop of acquire_queued_locked.
Attempting(c) == pc[c] \in {"bound", "notified"}

\* Running applications are read again when the cached answer is 2 s old.
Refresh(apps) ==
  /\ apps \in {active_app_workloads, running_apps}
  /\ active_app_workloads' = apps

\* Mutated form of Reconciled: only the single strategy drops workers.
ReconciledForSingle(c, apps) ==
  {k \in Models \ {model[c]} : Idle(k) /\ strategy = "single"}

\* The idle workers a change of workload, or the single strategy, drops.
Reconciled(c, apps) ==
  {k \in Models \ {model[c]} :
     /\ Idle(k)
     /\ last_request_workload # WorkloadOf(c) \/ strategy = "single"
     /\ \/ strategy = "single"
        \/ /\ strategy = "balanced"
           /\ ~compatible_worker(workers[k].policy, Policy[WorkloadOf(c)][k])
           /\ effective_priority(k, apps) < 100}

\* Mutated form of Reusable: the configuration is not compared.
ReusableByKey(c) == Resident(model[c])

Reusable(c) == Resident(model[c]) /\ compatible_worker(workers[model[c]].policy, PolicyOf(c))

\* An idle worker of the same key with another configuration is replaced.
Dropped(c, apps) ==
  Reconciled(c, apps) \cup (IF Idle(model[c]) /\ ~Reusable(c) THEN {model[c]} ELSE {})

\* Mutated forms of MustWait: the limit is off by one; single is forgotten.
MustWaitOneLater(c) ==
  \/ strategy = "single" /\ \E k \in Models \ {model[c]} : Busy(k)
  \/ Busy(model[c]) /\ ~Reusable(c)
  \/ Reusable(c) /\ workers[model[c]].in_flight > PolicyOf(c).limit
MustWaitForSlot(c) ==
  \/ Busy(model[c]) /\ ~Reusable(c)
  \/ Reusable(c) /\ workers[model[c]].in_flight >= PolicyOf(c).limit

MustWait(c) ==
  \/ strategy = "single" /\ \E k \in Models \ {model[c]} : Busy(k)
  \/ Busy(model[c]) /\ ~Reusable(c)
  \/ Reusable(c) /\ workers[model[c]].in_flight >= PolicyOf(c).limit

\* Mutated form of Admitted: a thread that waited does not look at paused_.
AdmittedThoughPaused(c, apps) ==
  /\ Attempting(c)
  /\ Refresh(apps)
  /\ PolicyOf(c) # None /\ FitsAlone(WorkloadOf(c), PolicyOf(c))
  /\ last_request_workload' = WorkloadOf(c)

\* Past the checks: the thread's workload becomes the latest one.
Admitted(c, apps) ==
  /\ Attempting(c) /\ ~paused
  /\ Refresh(apps)
  /\ PolicyOf(c) # None /\ FitsAlone(WorkloadOf(c), PolicyOf(c))
  /\ last_request_workload' = WorkloadOf(c)

\* The thread leaves the loop; Unqueue takes it off the queue if it was on it.
Leave(c, place) ==
  /\ pc' = [pc EXCEPT ![c] = place]
  /\ queued_requests' = IF pc[c] = "bound" THEN queued_requests ELSE queued_requests - 1
  /\ UNCHANGED <<strategy, default_workload, running_apps, paused, ready, opc>>

\* An exception ends the request and with it its binding.  The startup thread
\* catches it, records readiness_error_ and ends: ready_ is not set.
Refuse(c) ==
  /\ Leave(c, "idle")
  /\ workload' = [workload EXCEPT ![c] = None]
  /\ model' = [model EXCEPT ![c] = None]
  /\ prewarm' = IF c = Prewarmer THEN [prewarm EXCEPT !.stage = "failed"] ELSE prewarm

Granted(c) == Leave(c, "leased") /\ UNCHANGED <<workload, model, prewarm>>

\* The wait on transition_cv_ gives up the mutex.
Enqueue(c) ==
  /\ pc' = [pc EXCEPT ![c] = "asleep"]
  /\ queued_requests' = IF pc[c] = "bound" THEN queued_requests + 1 ELSE queued_requests
  /\ UNCHANGED <<workload, model, modes, paused, ready, opc>>

RefusePaused(c) ==
  /\ Attempting(c) /\ paused
  /\ Refuse(c)
  /\ UNCHANGED <<pool, admission>>

RefuseUnselected(c, apps) ==
  /\ Attempting(c) /\ ~paused
  /\ Refresh(apps)
  /\ PolicyOf(c) = None
  /\ Refuse(c)
  /\ UNCHANGED <<pool, last_request_workload>>

RefuseOversized(c, apps) ==
  /\ Attempting(c) /\ ~paused
  /\ Refresh(apps)
  /\ PolicyOf(c) # None /\ ~FitsAlone(WorkloadOf(c), PolicyOf(c))
  /\ Refuse(c)
  /\ UNCHANGED <<pool, last_request_workload>>

\* A compatible worker has a free slot.
Reuse(c, apps) ==
  /\ Admitted(c, apps)
  /\ Reusable(c) /\ ~MustWait(c)
  /\ EraseAndLease(Dropped(c, apps), model[c], PolicyOf(c))
  /\ Granted(c)

\* Busy work is in the way: sleep until a lease ends.
Queue(c, apps) ==
  /\ Admitted(c, apps)
  /\ MustWait(c)
  /\ Erase(Dropped(c, apps))
  /\ Enqueue(c)

\* acquire_locked: make room, start the engine, wait for health, warm up.
NeedsLoad(c, apps) == Admitted(c, apps) /\ ~Reusable(c) /\ ~MustWait(c)

\* With success the worker is reserved and leased.
Load(c, apps, E) ==
  /\ NeedsLoad(c, apps)
  /\ EvictsUntilRoom(WorkloadOf(c), PolicyOf(c), Dropped(c, apps), apps, E)
  /\ EraseAndLoad(Dropped(c, apps) \cup E, model[c], PolicyOf(c))
  /\ Granted(c)

\* The variant is refused before any eviction, or the port, the artifact, the
\* engine or its warm-up fails after it: nothing is reserved, but what was
\* evicted is gone.
LoadFails(c, apps, E) ==
  /\ NeedsLoad(c, apps)
  /\ E = {} \/ EvictsUntilRoom(WorkloadOf(c), PolicyOf(c), Dropped(c, apps), apps, E)
  /\ Erase(Dropped(c, apps) \cup E)
  /\ Refuse(c)

\* model_memory_budget_exceeded: wait if some worker is busy, else give up.
NoRoom(c, apps) ==
  /\ NeedsLoad(c, apps)
  /\ LET D == Dropped(c, apps)  w == WorkloadOf(c)  p == PolicyOf(c)
     IN  EvictsInVain(w, p, D) /\ Erase(D \cup candidates(w, p, D))
  /\ IF \E k \in Models : Busy(k) THEN Enqueue(c) ELSE Refuse(c)

\* wait_until reports a timeout, whether or not a notification came with it.
QueueTimeout(c) ==
  /\ QueueExpires
  /\ pc[c] \in {"asleep", "notified"}
  /\ Refuse(c)
  /\ UNCHANGED <<pool, admission>>

\* A condition variable may wake a thread that nobody notified.
SpuriousWakeup(c) ==
  /\ pc[c] = "asleep"
  /\ pc' = [pc EXCEPT ![c] = "notified"]
  /\ UNCHANGED <<pool, admission, modes, paused, ready, queued_requests,
                 workload, model, opc>>

Attempt(c) ==
  \/ RefusePaused(c)
  \/ \E apps \in AppSets :
       \/ RefuseUnselected(c, apps)
       \/ RefuseOversized(c, apps)
       \/ Reuse(c, apps)
       \/ Queue(c, apps)
       \/ NoRoom(c, apps)
       \/ \E E \in SUBSET Models : Load(c, apps, E) \/ LoadFails(c, apps, E)

\* release: an ephemeral worker goes with its last lease; under the balanced
\* strategy so do the idle workers the latest workload cannot use.
Returned(c) == [workers EXCEPT ![model[c]].in_flight = @ - 1]

Ephemeral(c) ==
  {k \in {model[c]} : Returned(c)[k].in_flight = 0
                         /\ workers[k].policy.residency = "ephemeral"}

Stale(c) ==
  {k \in Models \ Ephemeral(c) :
     /\ strategy = "balanced" /\ last_request_workload # None
     /\ Resident(k) /\ Returned(c)[k].in_flight = 0
     /\ effective_priority(k, active_app_workloads) < 100
     /\ ~compatible_worker(workers[k].policy, Policy[last_request_workload][k])}

Release(c) ==
  LET gone == Ephemeral(c) \cup Stale(c)
  IN  /\ pc[c] = "leased"
      /\ workers' = [k \in Models |-> IF k \in gone THEN None ELSE Returned(c)[k]]
      /\ reserved_ram_gib' = RamWithout(gone)
      /\ reserved_vram_by_device' = VramWithout(gone)
      /\ pc' = Notified([pc EXCEPT ![c] = "idle"])
      /\ opc' = OperatorsNotified
      /\ workload' = [workload EXCEPT ![c] = None]
      /\ model' = [model EXCEPT ![c] = None]
      /\ UNCHANGED <<admission, modes, paused, ready, queued_requests>>

\* invoke_asr, invoke_tts and the start of invoke_asr_stream: an exception
\* between acquire and release leaves the handler without releasing the worker.
LoseLease(c) ==
  /\ c \in LeakyRoutes /\ pc[c] = "leased"
  /\ pc' = [pc EXCEPT ![c] = "idle"]
  /\ workload' = [workload EXCEPT ![c] = None]
  /\ model' = [model EXCEPT ![c] = None]
  /\ UNCHANGED <<pool, admission, modes, paused, ready, queued_requests, opc>>

-----------------------------------------------------------------------------
(* The startup thread (prewarm)                                            *)

\* Every artifact of the first default workload is made complete first.
PrewarmVerified ==
  /\ prewarm.stage = "starting"
  /\ prewarm' = [stage |-> "running", workload |-> prewarm.workload,
                 left |-> {m \in Models : Policy[prewarm.workload][m] # None
                                            /\ Policy[prewarm.workload][m].startup}]
  /\ UNCHANGED <<pool, admission, strategy, default_workload, running_apps,
                 paused, ready, queued_requests, thread, opc>>

\* The next startup model: highest priority first.
PrewarmNext(m) ==
  /\ prewarm.stage = "running" /\ pc[Prewarmer] = "idle"
  /\ m \in prewarm.left
  /\ \A k \in prewarm.left :
       Policy[prewarm.workload][k].priority <= Policy[prewarm.workload][m].priority
  /\ prewarm' = [prewarm EXCEPT !.left = @ \ {m}]

\* It is skipped if it does not fit beside what is resident now.  The test
\* reads the totals without the mutex: while a request is under way it may
\* see them half changed and answer either way.
PrewarmFits(m) ==
  /\ strategy # "single" \/ \A k \in Models : ~Resident(k)
  /\ fits_resources(default_workload, Policy[prewarm.workload][m], {})
PrewarmReads(m, fits) == fits = PrewarmFits(m) \/ \E c \in Clients : pc[c] # "idle"

PrewarmSkip(m) ==
  /\ PrewarmNext(m) /\ PrewarmReads(m, FALSE)
  /\ UNCHANGED <<pool, admission, strategy, default_workload, running_apps,
                 paused, ready, queued_requests, thread, opc>>

\* The thread has no binding, so acquire uses the default of the moment.
PrewarmAcquire(m) ==
  /\ PrewarmNext(m) /\ PrewarmReads(m, TRUE)
  /\ pc' = [pc EXCEPT ![Prewarmer] = "bound"]
  /\ model' = [model EXCEPT ![Prewarmer] = m]
  /\ UNCHANGED <<pool, admission, strategy, default_workload, running_apps,
                 paused, ready, queued_requests, workload, opc>>

PrewarmDone ==
  /\ prewarm.stage = "running" /\ prewarm.left = {} /\ pc[Prewarmer] = "idle"
  /\ prewarm' = [prewarm EXCEPT !.stage = "done"]
  /\ ready' = TRUE
  /\ UNCHANGED <<pool, admission, strategy, default_workload, running_apps,
                 paused, queued_requests, thread, opc>>

\* An artifact cannot be completed.
PrewarmFailed ==
  /\ prewarm.stage = "starting"
  /\ prewarm' = [prewarm EXCEPT !.stage = "failed"]
  /\ UNCHANGED <<pool, admission, strategy, default_workload, running_apps,
                 paused, ready, queued_requests, thread, opc>>

-----------------------------------------------------------------------------
(* The sweeper, the operators and the applications                         *)

\* sweep_idle: every idle worker that has expired, unless it is pinned.
Sweep(X) ==
  /\ X # {}
  /\ \A m \in X : Idle(m) /\ workers[m].policy.residency # "pinned"
  /\ \A m \in Models \ X :
       Idle(m) /\ workers[m].policy.residency # "pinned" => ~workers[m].policy.idle
  /\ Erase(X)
  /\ UNCHANGED <<admission, modes, paused, ready, queued_requests, thread, opc>>

\* Mutated form of SetStrategy: any name is taken.
SetAnyStrategy(s) ==
  /\ strategy' = s
  /\ last_request_workload' = None
  /\ pc' = Notified(pc)
  /\ opc' = OperatorsNotified
  /\ UNCHANGED <<pool, active_app_workloads, default_workload, running_apps, prewarm,
                 paused, ready, queued_requests, workload, model>>

\* A name that is not a strategy is refused.
SetStrategy(s) ==
  /\ s \in Strategies
  /\ strategy' = s
  /\ last_request_workload' = None
  /\ pc' = Notified(pc)
  /\ opc' = OperatorsNotified
  /\ UNCHANGED <<pool, active_app_workloads, default_workload, running_apps, prewarm,
                 paused, ready, queued_requests, workload, model>>

\* swap_profile: residency is left to later requests.
SwapProfile(w) ==
  /\ ready
  /\ Admissible(w) /\ w # default_workload
  /\ default_workload' = w
  /\ UNCHANGED <<pool, admission, strategy, running_apps, prewarm,
                 paused, ready, queued_requests, thread, opc>>

Drained == \A m \in Models : ~Busy(m)

\* The predicate of the wait holds: unload every worker and return.
PauseReturns(o) ==
  /\ Drained
  /\ Erase({m \in Models : Resident(m)})
  /\ opc' = [opc EXCEPT ![o] = "holding"]

\* pause_inference, up to its wait.
PauseInference(o) ==
  /\ opc[o] = "idle"
  /\ ready \/ paused
  /\ paused' = TRUE /\ ready' = FALSE
  /\ \/ PauseReturns(o)
     \/ ~Drained /\ opc' = [opc EXCEPT ![o] = "draining"] /\ UNCHANGED pool
  /\ UNCHANGED <<admission, modes, queued_requests, thread>>

\* The wait looks at its predicate again.
PauseWakes(o) ==
  /\ opc[o] = "notified"
  /\ \/ PauseReturns(o)
     \/ ~Drained /\ opc' = [opc EXCEPT ![o] = "draining"] /\ UNCHANGED pool
  /\ UNCHANGED <<admission, modes, paused, ready, queued_requests, thread>>

\* 30 s passed and some lease is still out.
PauseTimesOut(o) ==
  /\ DrainExpires
  /\ opc[o] \in {"draining", "notified"}
  /\ ~Drained
  /\ paused' = FALSE /\ ready' = TRUE
  /\ opc' = [opc EXCEPT ![o] = "idle"]
  /\ UNCHANGED <<pool, admission, modes, queued_requests, thread>>

ResumeInference(o) ==
  /\ opc[o] \in {"idle", "holding"}
  /\ paused' = FALSE /\ ready' = TRUE
  /\ pc' = Notified(pc)
  /\ opc' = [OperatorsNotified EXCEPT ![o] = "idle"]
  /\ UNCHANGED <<pool, admission, modes, queued_requests, workload, model>>

\* reload_after_maintenance; the registry it reads is the constants'.
ReloadAfterMaintenance(o) ==
  /\ opc[o] = "holding"
  /\ paused /\ \A m \in Models : ~Resident(m)
  /\ last_request_workload' = None /\ active_app_workloads' = {}
  /\ UNCHANGED <<pool, modes, paused, ready, queued_requests, thread, opc>>

\* Applications start, stop and choose workloads on their own.
AppsChange(apps) ==
  /\ running_apps' = apps
  /\ UNCHANGED <<pool, admission, strategy, default_workload, prewarm,
                 paused, ready, queued_requests, thread, opc>>

Prewarm ==
  \/ PrewarmVerified \/ PrewarmDone \/ PrewarmFailed
  \/ \E m \in Models : PrewarmSkip(m) \/ PrewarmAcquire(m)

Operate(o) ==
  \/ PauseInference(o) \/ PauseWakes(o) \/ PauseTimesOut(o)
  \/ ResumeInference(o) \/ ReloadAfterMaintenance(o)

Next ==
  \/ \E c \in Clients, w \in Workloads \cup {None}, m \in Models : Bind(c, w, m)
  \/ \E c \in Threads : Attempt(c) \/ QueueTimeout(c) \/ SpuriousWakeup(c) \/ Release(c)
  \/ \E c \in Clients : LoseLease(c)
  \/ Prewarm
  \/ \E o \in Operators : Operate(o)
  \/ \E X \in SUBSET Models : Sweep(X)
  \/ \E s \in Strategies \cup {"unknown"} : SetStrategy(s)
  \/ \E w \in Workloads : SwapProfile(w)
  \/ \E apps \in AppSets : AppsChange(apps)

Spec == Init /\ [][Next]_vars

\* A thread that can take the mutex does, an engine answers or fails, so that
\* every lease ends, and a pausing operator that was notified looks again.
Fairness ==
  /\ \A c \in Threads : WF_vars(Attempt(c)) /\ WF_vars(Release(c))
  /\ \A o \in Operators : WF_vars(PauseWakes(o))

FairSpec == Spec /\ Fairness

-----------------------------------------------------------------------------
(* Safety                                                                  *)

Holders(m) == {c \in Threads : pc[c] = "leased" /\ model[c] = m}

LeasesCounted ==
  \A m \in Models :
    IF Resident(m) THEN workers[m].in_flight = Cardinality(Holders(m))
                   ELSE Holders(m) = {}

\* The threads in the wait of acquire_queued_locked.
Queueing == {c \in Threads : pc[c] \in {"asleep", "notified"}}

\* A worker counts exactly the threads that hold a lease on it, and a leased
\* worker is resident: no eviction, replacement, sweep or pause takes it away
\* (in_flight of the workers_ map against acquire and release).  And
\* queued_requests_ counts the threads that wait, however often they are woken and
\* whether they leave with a lease, a refusal or at their deadline.
LeaseAccounting == LeasesCounted /\ queued_requests = Cardinality(Queueing)

\* The running totals are the sums over the resident workers: every path that
\* stops a worker gives back what it reserved, once (erase_worker_locked,
\* make_room, release, sweep_idle, a failed load).
ReservationAccounting ==
  /\ reserved_ram_gib = Total(ram_reservation, Models, MaxReservation)
  /\ \A d \in Devices :
       reserved_vram_by_device[d] = Total(vram_reservation(d), Models, MaxReservation)

\* Never is more reserved than the machine's allocation or a device holds,
\* whichever workloads with whichever limits made the reservations.
WithinAllocation ==
  /\ reserved_ram_gib <= MaxRam
  /\ \A d \in Devices : /\ reserved_vram_by_device[d] <= MaxVram
                         /\ reserved_vram_by_device[d] <= Dedicated[d]

\* The worker a request holds has the configuration its own workload selects,
\* although other workloads share, replace and evict workers of that key.
\* (The startup thread has no binding of its own.)
LeasedAsConfigured ==
  \A c \in Clients : pc[c] = "leased" =>
    compatible_worker(workers[model[c]].policy, Policy[workload[c]][model[c]])

\* No worker serves more requests at once than max_concurrent_requests.
ConcurrencyRespected ==
  \A m \in Models : Resident(m) => workers[m].in_flight <= workers[m].policy.limit

\* No wake-up is lost: while a thread or a pausing operator sleeps on
\* transition_cv_, some lease is out, and its release will notify them.
SleeperHasWaker ==
  (\E c \in Threads : pc[c] = "asleep") \/ (\E o \in Operators : opc[o] = "draining")
    => \E c \in Threads : pc[c] = "leased"

\* A request that passed the check of its own footprint is never refused with
\* model_memory_budget_exceeded: if nothing is busy, eviction makes room.
NoBudgetRefusal ==
  [][\A c \in Threads, apps \in AppSets : NoRoom(c, apps) => pc'[c] = "asleep"]_vars

\* Under the single strategy a request is granted a worker only when no other
\* worker is resident (docs/scheduling.md: one resident worker).
SingleExclusive ==
  [][\A c \in Threads :
       strategy = "single" /\ pc[c] # "leased" /\ pc'[c] = "leased"
         => \A k \in Models \ {model[c]} : workers'[k] = None]_vars

\* Under the balanced strategy, after a request of another workload was taken
\* up and after every release, each idle worker is one the latest workload can
\* use or has a priority of 100 or more; the requested key is exempt.  A lease that
\* is lost leaves the workers as they are, and nothing is reconciled then.
BalancedReconciled ==
  [][strategy = "balanced" /\ last_request_workload' # None =>
       \A c \in Threads :
         \/ Attempting(c) /\ pc'[c] # pc[c] /\ last_request_workload' # last_request_workload
         \/ pc[c] = "leased" /\ pc'[c] = "idle" /\ workers' # workers
         => \A k \in Models \ {model[c]} :
              workers'[k] # None /\ workers'[k].in_flight = 0 =>
                \/ compatible_worker(workers'[k].policy, Policy[last_request_workload'][k])
                \/ effective_priority(k, active_app_workloads') >= 100]_vars

\* One operator who pauses, and resumes only what it paused, holds a server
\* that is paused and has no engine running.
HoldingIsDrained ==
  \A o \in Operators : opc[o] = "holding" =>
    paused /\ \A m \in Models : ~Resident(m)

\* The comment in make_room (src/src/server.cpp:2418): an idle worker that
\* holds no VRAM is not evicted when, once the workers evicted before it are
\* gone, RAM and the aggregate ceiling suffice and only VRAM is short.
CpuWorkerKept ==
  [][\A c \in Threads : pc[c] # "leased" /\ pc'[c] = "leased" /\ ~Reusable(c) =>
       LET w == WorkloadOf(c)
           p == PolicyOf(c)
           apps == active_app_workloads'
           gone == {k \in Models \ Dropped(c, apps) : Idle(k) /\ workers'[k] = None}
           before(k) == Dropped(c, apps) \cup
             {j \in gone : effective_priority(j, apps) < effective_priority(k, apps)}
       IN  \A k \in gone : workers[k].policy.vram = 0 /\ strategy # "single" =>
             \/ RamWithout(before(k)) + p.ram > ram_limit(w)
             \/ ~WithinCeiling(w, p, RamWithout(before(k)), VramWithout(before(k)))]_vars

-----------------------------------------------------------------------------
(* Refinement                                                              *)

ResidentPolicy == [m \in Models |-> IF Resident(m) THEN workers[m].policy ELSE None]
LeaseOf == [c \in Threads |-> IF pc[c] = "leased" THEN model[c] ELSE None]

Pool == INSTANCE WorkerPool WITH
  Policies <- PolicyType,
  RamCapacity <- MaxRam,
  DeviceCapacity <- [d \in Devices |-> Smaller(MaxVram, Dedicated[d])],
  resident <- ResidentPolicy,
  lease <- LeaseOf

\* The manager, with its strategies, queue, sweeper, pauses and failures, is a
\* WorkerPool: no step of it takes or changes a worker that a thread holds, or
\* grants one beyond the machine's allocation, and it holds even when a route
\* loses its lease.
ImplementsWorkerPool == Pool!Spec

-----------------------------------------------------------------------------
(* Liveness                                                                *)

\* A request that sleeps in the queue is always woken to look again, even if
\* its own queue timeout never elapses: as long as engines answer, no queue
\* stands still.  (Being woken is not being served: the queue is not FIFO.)
SleeperWakes ==
  \A c \in Threads : pc[c] = "asleep" ~> pc[c] # "asleep"

\* A pause that is draining comes to an end without its timeout.
PauseEnds ==
  \A o \in Operators : opc[o] \in {"draining", "notified"} ~> opc[o] = "holding"

=============================================================================

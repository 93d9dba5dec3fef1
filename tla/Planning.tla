------------------------------- MODULE Planning -------------------------------
(***************************************************************************)
(* What a workload needs and whether it fits: the estimate of a model's    *)
(* memory, its placement, the machine policy, the checks of resolve_setup, *)
(* the startup plan of each quantization, and the startup of the server    *)
(* that loads, of the workload setup accepted, what fits.                  *)
(*                                                                         *)
(* Amounts are bytes, Gib of them to a GiB.  An instance may take a small  *)
(* Gib: nothing below depends on its size but for 1.1, which is rounded    *)
(* down.  The requests that come during startup are Residency's.           *)
(***************************************************************************)
EXTENDS Integers, FiniteSets, FiniteSetsExt, Functions, SequencesExt

CONSTANTS Gib,
          Ram,             \* RAM detected
          Accelerators,    \* device -> [memory, unified]
          Artifacts,       \* model -> its files, cache groups and declared reservation
          Workloads,       \* sets of policies, one for each model served, with their limits
          MachinePolicies, \* what config/machine.yaml may say
          Budgets          \* --ram-gib and --vram-gib, and --allow-partial

VARIABLES planning, \* "setup", "refused", "resolved", "installed", "serving"
          asked,    \* [workload, policy, budget]: what setup is asked
          limits,   \* the allocation it resolves to, runtime.json's later on
          startups, \* quantization -> the plan of its startup
          resident  \* the models the server has loaded, in order

planningVars == <<planning, asked, limits, startups, resident>>

Devices == DOMAIN Accelerators
Models == DOMAIN Artifacts
NoAmount == -1
Largest(S) == Max(S \cup {0})
Least(a, b) == Min({a, b})
Quarter == Gib \div 4
Half == Gib \div 2

\* What a workload says of a model it serves (-1: nothing), and of itself.
PolicyType ==
  [id : Models, device : STRING, tokens : Nat, batch : Nat, sequences : Nat, key : STRING,
   value : STRING, speculative : STRING, projector_on_cpu : BOOLEAN, draft_on_cpu : BOOLEAN,
   layers : Int, cache : Nat, ram : Int, vram : Int, startup : BOOLEAN,
   residency : {"pinned", "warm", "on_demand", "ephemeral"}, priority : Int, quantization : STRING]

WorkloadType ==
  [models : SUBSET PolicyType, strategy : {"none", "balanced", "all", "sequential"},
   keep : SUBSET Models, memory_limit : Nat, reserve : Nat, maximum_workers : Nat]

-----------------------------------------------------------------------------
(* estimate_artifact_memory                                                 *)

RowBytes(width, type) ==
  LET blocks == (width + 31) \div 32
  IN  CASE type = "q4" -> 18 * blocks [] type = "q8" -> 34 * blocks [] OTHER -> 2 * width

\* A drafter is loaded only for the speculative method it serves.
Active(file, method) == file.role # "drafter" \/ method = "mtp"

\* The cache holds the context, or a window and the micro-batch that comes in,
\* rounded up to 256 tokens.
Capacity(group, p) ==
  LET tokens == IF group.window > 0 THEN Least(p.tokens, group.window + p.batch) ELSE p.tokens
  IN  ((tokens + 255) \div 256) * 256

CacheBytes(a, p) ==
  SumFunctionOnSet([g \in a.groups |-> Capacity(g, p) * p.sequences * g.layers
                                         * (RowBytes(g.width, p.key) + RowBytes(g.width, p.value))],
                   a.groups)

BytesOf(files) == SumFunctionOnSet([f \in files |-> f.bytes], files)
Weights(a, p) == BytesOf({f \in a.files : Active(f, p.speculative)})

Estimate(a, p) ==
  LET weights == Weights(a, p)
      omitted == BytesOf({f \in a.files : ~Active(f, p.speculative)})
      base == Max({0, a.reservation - omitted, (11 * weights) \div 10 + Quarter})
      overhead == Max({base - weights, a.overhead})
  IN  weights + CacheBytes(a, p) + overhead

-----------------------------------------------------------------------------
(* resolve_machine_policy: what the machine has, narrowed by the file       *)

Dedicated == {d \in Devices : ~Accelerators[d].unified /\ Accelerators[d].memory > 0}

PolicyRefused(policy) ==
  \/ policy.allowed # {} /\ ~(policy.allowed \subseteq {"cpu"} \cup Devices)
  \/ policy.ram > Ram
  \/ \E d \in DOMAIN policy.dedicated :
       \/ d \notin Dedicated
       \/ policy.dedicated[d] > Accelerators[d].memory
       \/ policy.dedicated[d] = 0 /\ d \in policy.allowed

\* A device given no memory is not allowed.
Machine(policy) ==
  LET named == IF policy.allowed = {} THEN {"cpu"} \cup Devices ELSE policy.allowed
      allowed == {d \in named : d \in DOMAIN policy.dedicated => policy.dedicated[d] > 0}
  IN  [allowed |-> allowed,
       ram |-> IF policy.ram = NoAmount THEN Ram ELSE policy.ram,
       dedicated |-> [d \in Dedicated \cap allowed |->
                        IF d \in DOMAIN policy.dedicated THEN policy.dedicated[d]
                                                         ELSE Accelerators[d].memory]]

-----------------------------------------------------------------------------
(* resolve_model_placement                                                  *)

\* "auto" is the first accelerator; under a CPU-only policy every accelerated
\* placement of a native engine becomes the CPU.
Placed(p, allowed) ==
  LET device == IF p.device = "auto" THEN "gpu0" ELSE p.device
  IN  IF allowed = {"cpu"} \/ device \notin Devices THEN "cpu" ELSE device

OnSystemMemory(device) == device = "cpu" \/ Accelerators[device].unified

Bytes(a, role) == BytesOf({f \in a.files : f.role = role})

\* What moves to the CPU takes more there than it gives back.
Moved(charge, declared, bytes) ==
  IF bytes = 0 THEN charge
  ELSE [charge EXCEPT !.ram = @ + (5 * bytes) \div 4 + Quarter,
                      !.vram = Max({declared, 0, @ - (9 * bytes) \div 10})]

OnAccelerator(a, p, device, footprint) ==
  LET whole == [device |-> device,
                ram |-> Max({p.ram, Half + p.cache}), vram |-> Max({p.vram, footprint})]
      projected == Moved(whole, p.vram, IF p.projector_on_cpu THEN Bytes(a, "projector") ELSE 0)
      drafted == Moved(projected, p.vram,
                       IF p.draft_on_cpu /\ p.speculative # "none" THEN Bytes(a, "drafter") ELSE 0)
      splits == /\ p.layers \in 1..(a.blocks - 1)
                /\ \A f \in a.files : f.role = "model"
  IN  IF ~splits THEN drafted
      ELSE [device |-> device,
            ram |-> Max({IF p.ram >= 0 THEN p.ram ELSE Half,
                         (footprint * (a.blocks - p.layers)) \div a.blocks + Half + p.cache}),
            vram |-> Max({p.vram, 0, (footprint * p.layers) \div a.blocks + Half})]

Placement(p, allowed) ==
  LET a == Artifacts[p.id]
      device == Placed(p, allowed)
      footprint == Estimate(a, p)
  IN  IF OnSystemMemory(device)
        THEN [device |-> device, ram |-> Max({p.ram, footprint + p.cache}), vram |-> 0]
        ELSE OnAccelerator(a, p, device, footprint)

-----------------------------------------------------------------------------
(* The checks of resolve_setup                                              *)

DevicesRefused(w, machine) ==
  \E p \in w.models :
    LET device == Placed(p, machine.allowed)
    IN  \/ p.device \notin {"auto", "cpu"} \cup Devices
        \/ device \notin machine.allowed
        \/ ~OnSystemMemory(device) /\ device \notin DOMAIN machine.dedicated

Detected == Largest({Accelerators[d].memory : d \in Dedicated})

\* --vram-gib defaults to the largest accelerator when the workload needs one;
\* both budgets are clipped to the machine policy.
Allocation(w, b, machine) ==
  LET accelerated == \E p \in w.models : ~OnSystemMemory(Placed(p, machine.allowed))
      vram == IF accelerated /\ b.vram = NoAmount THEN Detected ELSE Max({b.vram, 0})
  IN  [ram |-> Least(b.ram, machine.ram),
       vram |-> IF machine.dedicated = <<>> \/ vram = 0 THEN vram
                ELSE Least(vram, Max({machine.dedicated[d] : d \in DOMAIN machine.dedicated})),
       refused |-> \/ b.ram <= 0 \/ b.ram > Ram
                   \/ accelerated /\ b.vram = 0
                   \/ machine.dedicated = <<>> /\ vram > Detected]

\* What the workload's own reserve leaves of an allocation.
Usable(amount, w) == Max({0, amount - w.reserve})

\* fits_device_reservation
FitsDevice(used, device, requested, common, dedicated) ==
  \/ requested = 0
  \/ IF dedicated = <<>> THEN used + requested <= common
     ELSE device \in DOMAIN dedicated /\ used + requested <= Least(common, dedicated[device])

\* A set of models loaded together.
RamOf(S, allowed) == SumFunctionOnSet([p \in S |-> Placement(p, allowed).ram], S)
VramOf(S, d, allowed) ==
  SumFunctionOnSet([p \in S |-> Placement(p, allowed).vram],
                   {p \in S : Placed(p, allowed) = d})
CombinedOf(S, allowed) ==
  SumFunctionOnSet([p \in S |-> Placement(p, allowed).ram + Placement(p, allowed).vram], S)
FootprintFits(S, w, b, machine) ==
  /\ w.memory_limit > 0 => CombinedOf(S, machine.allowed) <= w.memory_limit - w.reserve
  /\ RamOf(S, machine.allowed) <= Usable(b.ram, w)
  /\ \A d \in Devices :
       FitsDevice(0, d, VramOf(S, d, machine.allowed), Usable(b.vram, w), machine.dedicated)

Pinned(w) == {p \in w.models : p.residency = "pinned"}

\* Mutant: a model that is not pinned is tried alone.
FootprintRefusedAlone(w, b, partial, machine) ==
  \/ w.maximum_workers > 0
     /\ Cardinality(Pinned(w)) + (IF Pinned(w) = w.models THEN 0 ELSE 1) > w.maximum_workers
  \/ ~FootprintFits(Pinned(w), w, b, machine)
  \/ ~partial /\ \E p \in w.models \ Pinned(w) : ~FootprintFits({p}, w, b, machine)

FootprintRefused(w, b, partial, machine) ==
  \/ w.maximum_workers > 0
     /\ Cardinality(Pinned(w)) + (IF Pinned(w) = w.models THEN 0 ELSE 1) > w.maximum_workers
  \/ ~FootprintFits(Pinned(w), w, b, machine)
  \/ ~partial /\ \E p \in w.models \ Pinned(w) : ~FootprintFits(Pinned(w) \cup {p}, w, b, machine)

\* workload_memory_report and validate_memory_strategy
StrategyRequires(w) ==
  LET amount(p) == Estimate(Artifacts[p.id], p) + p.cache
      total(S) == SumFunctionOnSet([p \in S |-> amount(p)], S)
      largest(S) == Largest({amount(p) : p \in S})
      kept == {p \in w.models : p.id \in w.keep}
  IN  w.reserve + CASE w.strategy = "sequential" -> largest(w.models)
                    [] w.strategy = "all" -> total(w.models)
                    [] w.strategy = "balanced" -> total(kept) + largest(w.models \ kept)

StrategyRefused(w, b) ==
  LET global == b.ram + b.vram
      budget == IF w.memory_limit = 0 THEN global ELSE w.memory_limit
  IN  \/ w.memory_limit > global
      \/ w.strategy # "none" /\ ~(budget > 0 /\ StrategyRequires(w) <= budget)

-----------------------------------------------------------------------------
(* plan_profile_startup_resources                                           *)

Before(p, q) ==
  \/ p.startup /\ ~q.startup
  \/ /\ p.startup = q.startup
     /\ \/ p.priority > q.priority
        \/ p.priority = q.priority /\ p.id < q.id

FitsBeside(S, p, w, b, machine) ==
  LET place == Placement(p, machine.allowed)
  IN  /\ RamOf(S, machine.allowed) + place.ram <= Usable(b.ram, w)
      /\ FitsDevice(IF place.vram = 0 THEN 0 ELSE VramOf(S, place.device, machine.allowed),
                    place.device, place.vram, Usable(b.vram, w), machine.dedicated)

Plan(S, w, b, machine) ==
  FoldLeft(LAMBDA plan, p :
             IF plan.error \/ ~p.startup THEN plan
             ELSE IF FitsBeside(plan.admitted, p, w, b, machine)
                    THEN [plan EXCEPT !.admitted = @ \cup {p}]
             ELSE [plan EXCEPT !.error = p.residency = "pinned"],
           [admitted |-> {}, error |-> FALSE], SetToSortSeq(S, Before))

Quantizations(w) == {p.quantization : p \in w.models}

-----------------------------------------------------------------------------
(* apply_residency_strategy                                                 *)
Resided(p, w) ==
  CASE w.strategy = "none" -> p
    [] w.strategy = "all" -> [p EXCEPT !.residency = "pinned", !.startup = TRUE]
    [] w.strategy = "sequential" ->
         [p EXCEPT !.residency = IF p.startup THEN "warm" ELSE "on_demand"]
    [] w.strategy = "balanced" ->
         IF p.id \in w.keep THEN [p EXCEPT !.residency = "pinned", !.startup = TRUE]
         ELSE IF p.residency = "pinned" THEN [p EXCEPT !.residency = "warm"]
         ELSE p

WorkersAllowed(w) ==
  CASE w.strategy = "none" -> w.maximum_workers
    [] w.strategy = "sequential" -> 1
    [] OTHER -> 0

Applied(w) ==
  [w EXCEPT !.models = {Resided(p, w) : p \in w.models}, !.maximum_workers = WorkersAllowed(w)]

\* single: the server's scheduling strategy is "single".
Asked == [workload : {Applied(w) : w \in Workloads}, policy : MachinePolicies,
          budget : Budgets, single : BOOLEAN]

Init ==
  /\ planning = "setup"
  /\ asked \in Asked
  /\ limits = [ram |-> 0, vram |-> 0, dedicated |-> <<>>, allowed |-> {}]
  /\ startups = <<>>
  /\ resident = <<>>

\* A refusal leaves everything as it was.
Refused ==
  LET machine == Machine(asked.policy)
      b == Allocation(asked.workload, asked.budget, machine)
  IN  \/ PolicyRefused(asked.policy)
      \/ DevicesRefused(asked.workload, machine)
      \/ b.refused
      \/ StrategyRefused(asked.workload, b)
      \/ FootprintRefused(asked.workload, b, asked.budget.partial, machine)

Refuse ==
  /\ planning = "setup"
  /\ Refused
  /\ planning' = "refused"
  /\ UNCHANGED <<asked, limits, startups, resident>>

\* Every quantization is planned as if it had the whole budget.
Resolve ==
  LET w == asked.workload
      machine == Machine(asked.policy)
      b == Allocation(w, asked.budget, machine)
      of(q) == {p \in w.models : p.quantization = q}
  IN  /\ planning = "setup"
      /\ ~Refused
      /\ planning' = "resolved"
      /\ limits' = [ram |-> b.ram, vram |-> b.vram, dedicated |-> machine.dedicated,
                    allowed |-> machine.allowed]
      /\ startups' = [q \in Quantizations(w) |-> Plan(of(q), w, b, machine)]
      /\ UNCHANGED <<asked, resident>>

\* execute_setup refuses a plan with an error; what it installs is Preparation's.
Install ==
  /\ planning = "resolved"
  /\ planning' = IF \E q \in DOMAIN startups : startups[q].error THEN "refused" ELSE "installed"
  /\ UNCHANGED <<asked, limits, startups, resident>>

\* fits_resources, for the workload that the server starts with: the plan's
\* test and the workload's aggregate ceiling, of all that is resident.
FitsServer(p) ==
  LET w == asked.workload
  IN  /\ FitsBeside(ToSet(resident), p, w, limits, limits)
      /\ w.memory_limit > 0 =>
           CombinedOf(ToSet(resident) \cup {p}, limits.allowed) <= w.memory_limit - w.reserve

\* prewarm: all quantizations in one order; what does not fit is passed over,
\* and under "single" everything is once a worker is loaded.
Pending ==
  {p \in asked.workload.models :
     p.startup /\ p \notin ToSet(resident) /\ (asked.single => resident = <<>>) /\ FitsServer(p)}

Prewarm ==
  /\ planning = "installed"
  /\ \/ \E p \in Pending :
          /\ \A q \in Pending \ {p} : Before(p, q)
          /\ resident' = Append(resident, p)
          /\ UNCHANGED planning
     \/ Pending = {} /\ planning' = "serving" /\ UNCHANGED resident
  /\ UNCHANGED <<asked, limits, startups>>

Next == Refuse \/ Resolve \/ Install \/ Prewarm

Spec == Init /\ [][Next]_planningVars

-----------------------------------------------------------------------------
\* The values the code keeps: whole models of the workload, each loaded once.
TypeOK ==
  /\ planning \in {"setup", "refused", "resolved", "installed", "serving"}
  /\ ToSet(resident) \subseteq asked.workload.models
  /\ IsInjective(resident)

\* What setup accepted can be served: the pinned models fit together in what
\* the machine policy leaves, and so does each other one beside them.
AcceptedFits ==
  planning \in {"installed", "serving"} =>
    LET w == asked.workload
        together(p) == Pinned(w) \cup {p}
    IN  \A p \in IF asked.budget.partial THEN Pinned(w) ELSE w.models :
          /\ RamOf(together(p), limits.allowed) + w.reserve <= Machine(asked.policy).ram
          /\ \A d \in Devices : VramOf(together(p), d, limits.allowed) > 0 =>
               VramOf(together(p), d, limits.allowed) <= Machine(asked.policy).dedicated[d]
          /\ w.memory_limit > 0 => CombinedOf(together(p), limits.allowed) <= w.memory_limit

\* No placement makes a model cheaper than the bytes it loads and its cache.
ChargeCovers ==
  planning = "installed" =>
    \A p \in asked.workload.models :
      LET place == Placement(p, limits.allowed)
      IN  place.ram + place.vram >=
            Weights(Artifacts[p.id], p) + CacheBytes(Artifacts[p.id], p)

\* A pinned model that is not resident after startup was outranked: a model
\* that is not pinned, and comes before it, took its place (see PinnedLoaded).
PinnedOrOutranked ==
  planning = "serving" /\ ~asked.single =>
    \A p \in Pinned(asked.workload) :
      p.startup /\ p \notin ToSet(resident) =>
        \E q \in ToSet(resident) : q.residency # "pinned" /\ Before(q, p)

\* What docs/profiles.md:519-520 says: a pinned model is loaded at startup, and
\* setup fails if the pinned ones cannot fit.  It plans every quantization by
\* itself (src/src/setup.cpp:1165-1178), and the server takes them all in one order
\* and passes over what no longer fits (src/src/server.cpp:1217-1235).
PinnedLoaded ==
  planning = "serving" /\ ~asked.single =>
    \A p \in Pinned(asked.workload) : p.startup => p \in ToSet(resident)

\* The three that hold: what can be relied on of a workload that setup accepts.
PlannedServes == AcceptedFits /\ ChargeCovers /\ PinnedOrOutranked

=============================================================================

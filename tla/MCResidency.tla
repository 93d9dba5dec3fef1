----------------------------- MODULE MCResidency -----------------------------
(***************************************************************************)
(* Instances of Residency for TLC.  Memory units are GiB, so that a worker *)
(* of 2 units of RAM and 3 of VRAM stands for any with those proportions   *)
(* to the allocation of the run.                                           *)
(***************************************************************************)
EXTENDS Residency, TLC

Symmetry == Permutations(Clients)

\* A model on the accelerator, and one that computes on the CPU.
Gpu(cfg, ram, vram, limit, priority, residency) ==
  [config |-> cfg, ram |-> ram, vram |-> vram, device |-> "gpu0", limit |-> limit,
   priority |-> priority, residency |-> residency, idle |-> FALSE, startup |-> FALSE]
Cpu(cfg, ram, limit, priority, residency) == Gpu(cfg, ram, 0, limit, priority, residency)

Startup(p) == [p EXCEPT !.startup = TRUE]
Expiring(p) == [p EXCEPT !.idle = TRUE]

NoLimits == [memory_limit |-> 0, reserve |-> 0, required_ram |-> 0, required_vram |-> 0]

GpuOnly == {"gpu0"}
Vram(n) == [d \in GpuOnly |-> n]
Vram4 == Vram(4)
Vram3 == Vram(3)
NoApps == {{}}

TwoModels == {"m1", "m2"}
ThreeModels == {"m1", "m2", "m3"}
TwoWorkloads == {"chat", "voice"}

-----------------------------------------------------------------------------
(* Two workloads that share m1, configure m2 differently, and cannot both   *)
(* be resident: RAM 4, VRAM 3.                                              *)
SharingPolicy ==
  [chat  |-> [m1 |-> Gpu("c1", 1, 2, 2, 50, "on_demand"),
              m2 |-> Cpu("c2", 2, 1, 100, "pinned"),
              m3 |-> None],
   voice |-> [m1 |-> Gpu("c1", 1, 2, 2, 0, "warm"),
              m2 |-> Expiring(Cpu("c3", 3, 1, 0, "ephemeral")),
              m3 |-> Gpu("c1", 1, 3, 1, 0, "on_demand")]]

\* voice has an aggregate ceiling of six units.
SharingProfile ==
  [chat |-> NoLimits, voice |-> [NoLimits EXCEPT !.memory_limit = 6]]

-----------------------------------------------------------------------------
(* Running applications.  A request of mail drops the idle m1, unless desk  *)
(* runs as an application, whose priority of 100 for m1 protects it; m2     *)
(* stays when chat loaded it with priority 100, and is replaced when mail   *)
(* asks for it with another configuration.                                  *)
AppsPolicy ==
  [chat |-> [m1 |-> Gpu("c1", 1, 1, 1, 0, "on_demand"),
             m2 |-> Cpu("c2", 1, 1, 100, "warm")],
   mail |-> [m1 |-> None,
             m2 |-> Cpu("c3", 1, 1, 20, "on_demand")],
   desk |-> [m1 |-> Gpu("c1", 1, 1, 1, 100, "on_demand"),
             m2 |-> None]]
AppsDesk == {{}, {"desk"}}

(* Startup models and an operator.  m1 and m2 do not fit together, and      *)
(* other's m2 does not fit an empty accelerator.                            *)
StartupPolicy ==
  [first |-> [m1 |-> Startup(Gpu("c1", 1, 2, 1, 50, "pinned")),
              m2 |-> Startup(Gpu("c2", 1, 2, 1, 0, "on_demand"))],
   other |-> [m1 |-> Gpu("c3", 1, 2, 1, 0, "on_demand"),
              m2 |-> Gpu("c4", 1, 4, 1, 0, "on_demand")]]
StartupWorkloads == {"first", "other"}
StartupProfile == [w \in StartupWorkloads |-> NoLimits]

(* Both in one run, one of them in each behaviour: under the balanced       *)
(* strategy applications come and go, and requests neither time out nor     *)
(* lose their leases; under the high one an operator pauses, resumes and    *)
(* reloads, and routes lose leases.                                         *)
OperatedPolicy == AppsPolicy @@ StartupPolicy
OperatedWorkloads == DOMAIN OperatedPolicy
OperatedProfile == [w \in OperatedWorkloads |-> NoLimits]

Uses(S) == default_workload \in S /\ \A c \in Clients : workload[c] \in S \cup {None}
Balancing == strategy = "balanced" /\ Uses(DOMAIN AppsPolicy)
Starting == strategy = "high" /\ Uses(StartupWorkloads) /\ running_apps = {}

Undisturbed ==
  /\ \A c \in Clients : ~LoseLease(c) /\ ~QueueTimeout(c)
  /\ \A o \in Operators : ~Operate(o)

OperatedInit == Init /\ (Balancing \/ Starting)
OperatedSpec == OperatedInit /\ [][Next]_vars

\* The steps that stay in the kind of behaviour in which they started.
OperatedStep == (Balancing' /\ Undisturbed) \/ Starting'

-----------------------------------------------------------------------------
(* RAM 3 and VRAM 3 both run short when m1 arrives while m2, m3 and m4 are  *)
(* resident; m2, evicted first, already gives back the RAM.                 *)
FourModels == {"m1", "m2", "m3", "m4"}
OneWorkload == {"chat"}
PressurePolicy ==
  [chat |-> [m1 |-> Gpu("c1", 1, 3, 1, 90, "on_demand"),
             m2 |-> Gpu("c2", 1, 1, 1, 10, "on_demand"),
             m3 |-> Cpu("c3", 1, 1, 20, "on_demand"),
             m4 |-> Gpu("c4", 1, 2, 1, 30, "on_demand")]]
PressureProfile == [chat |-> NoLimits]

=============================================================================

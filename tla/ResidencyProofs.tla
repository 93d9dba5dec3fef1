--------------------------- MODULE ResidencyProofs ---------------------------
(***************************************************************************)
(* Theorems about the worker manager for every set of threads, workloads   *)
(* and workers and every allocation, and that it implements WorkerPool.    *)
(***************************************************************************)
EXTENDS Residency, FiniteSetTheorems, WellFoundedInduction, TLAPS

(* Laws of Total, the sum of a reservation over a set of workers: it is a  *)
(* number, it splits over disjoint sets, and it changes by what the        *)
(* workers that came or went reserve.                                      *)

\* The units of a finite set are finitely many.
LEMMA UnitsFinite ==
  ASSUME NEW S, IsFiniteSet(S), NEW max \in Nat, NEW amount
  PROVE  IsFiniteSet(Units(amount, S, max))
<1>1. IsFiniteSet(1..max)
  BY FS_Interval
<1>2. IsFiniteSet(S \X (1..max))
  BY <1>1, FS_Product
<1>3. Units(amount, S, max) \in SUBSET (S \X (1..max))
  BY DEF Units
<1> QED
  BY <1>2, <1>3, FS_Subset

\* A total is a number of units.
LEMMA TotalType ==
  ASSUME NEW S, IsFiniteSet(S), NEW max \in Nat, NEW amount
  PROVE  Total(amount, S, max) \in Nat
BY UnitsFinite, FS_CardinalityType DEF Total

\* Only the amounts of the members of the set count.
LEMMA TotalCongruence ==
  ASSUME NEW S, NEW max, NEW a, NEW b, \A s \in S : a[s] = b[s]
  PROVE  Total(a, S, max) = Total(b, S, max)
<1>1. Units(a, S, max) = Units(b, S, max)
  BY DEF Units
<1> QED
  BY <1>1 DEF Total

\* What reserves nothing does not count.
LEMMA TotalZero ==
  ASSUME NEW S, NEW max \in Nat, NEW a, \A s \in S : a[s] = 0
  PROVE  Total(a, S, max) = 0
<1>1. Units(a, S, max) = {}
  BY DEF Units
<1> QED
  BY <1>1, FS_EmptySet DEF Total

\* A total splits over a subset and the rest.
LEMMA TotalSplit ==
  ASSUME NEW S, IsFiniteSet(S), NEW max \in Nat, NEW a, NEW X \in SUBSET S
  PROVE  Total(a, S, max) = Total(a, X, max) + Total(a, S \ X, max)
<1> DEFINE U == Units(a, X, max)
           V == Units(a, S \ X, max)
<1>1. IsFiniteSet(X) /\ IsFiniteSet(S \ X)
  BY FS_Subset
<1>2. IsFiniteSet(U) /\ IsFiniteSet(V)
  BY <1>1, UnitsFinite
<1>3. Units(a, S, max) = U \cup V
  BY DEF Units
<1>4. U \cap V = {}
  BY DEF Units
<1>5. Cardinality(U \cup V) = Cardinality(U) + Cardinality(V) - Cardinality(U \cap V)
  BY <1>2, FS_Union
<1>6. Cardinality(U) \in Nat /\ Cardinality(V) \in Nat
  BY <1>2, FS_CardinalityType
<1>7. Cardinality(U \cap V) = 0
  BY <1>4, FS_EmptySet
<1> HIDE DEF U, V
<1>8. Cardinality(U \cup V) = Cardinality(U) + Cardinality(V)
  BY <1>5, <1>6, <1>7
<1> QED
  BY <1>3, <1>8 DEF Total, U, V

\* The total of one worker is what it reserves.
LEMMA TotalSingle ==
  ASSUME NEW m, NEW max \in Nat, NEW a, a[m] \in 0..max
  PROVE  Total(a, {m}, max) = a[m]
<1>1. PICK n \in 0..max : n = a[m]
  OBVIOUS
<1>2. n \in Nat /\ n <= max
  OBVIOUS
<1>3. Units(a, {m}, max) = {m} \X (1..n)
  BY <1>1, <1>2 DEF Units
<1>4. IsFiniteSet({m}) /\ Cardinality({m}) = 1
  BY FS_Singleton
<1>5. IsFiniteSet(1..n) /\ Cardinality(1..n) = n
  <2>1. 1 \in Int /\ n \in Int
    BY <1>2
  <2>2. IsFiniteSet(1..n) /\ Cardinality(1..n) = IF 1 > n THEN 0 ELSE n - 1 + 1
    BY <2>1, FS_Interval
  <2> QED
    BY <1>2, <2>2
<1>6. Cardinality({m} \X (1..n)) = Cardinality({m}) * Cardinality(1..n)
  BY <1>4, <1>5, FS_Product
<1>7. Cardinality({m} \X (1..n)) = n
  BY <1>2, <1>4, <1>5, <1>6
<1> QED
  BY <1>1, <1>3, <1>7 DEF Total

\* Workers that go take their reservations with them.
LEMMA TotalWithout ==
  ASSUME NEW S, IsFiniteSet(S), NEW max \in Nat, NEW a, NEW b, NEW X \in SUBSET S,
         \A s \in X : b[s] = 0,
         \A s \in S \ X : b[s] = a[s]
  PROVE  Total(b, S, max) = Total(a, S, max) - Total(a, X, max)
<1>1. IsFiniteSet(X) /\ IsFiniteSet(S \ X)
  BY FS_Subset
<1>2. /\ Total(a, S, max) = Total(a, X, max) + Total(a, S \ X, max)
      /\ Total(b, S, max) = Total(b, X, max) + Total(b, S \ X, max)
  BY TotalSplit
<1>3. Total(b, X, max) = 0
  BY TotalZero
<1>4. Total(b, S \ X, max) = Total(a, S \ X, max)
  BY TotalCongruence
<1>5. Total(a, X, max) \in Nat /\ Total(a, S \ X, max) \in Nat
  BY <1>1, TotalType
<1> QED
  BY <1>2, <1>3, <1>4, <1>5

\* A worker that comes where none was, or where one went, adds its own.
LEMMA TotalWith ==
  ASSUME NEW S, IsFiniteSet(S), NEW max \in Nat, NEW a, NEW b, NEW X \in SUBSET S,
         NEW m \in S, m \in X \/ a[m] = 0, a[m] \in 0..max, b[m] \in 0..max,
         \A s \in X \ {m} : b[s] = 0,
         \A s \in S \ (X \cup {m}) : b[s] = a[s]
  PROVE  Total(b, S, max) = Total(a, S, max) - Total(a, X, max) + b[m]
<1> DEFINE Y == X \cup {m}
           c == [s \in S |-> IF s = m THEN 0 ELSE b[s]]
<1>1. Y \in SUBSET S /\ IsFiniteSet(Y) /\ IsFiniteSet(X) /\ {m} \in SUBSET S /\ {m} \in SUBSET Y
  BY FS_Subset
<1>2. Total(c, S, max) = Total(a, S, max) - Total(a, Y, max)
  <2>1. \A s \in Y : c[s] = 0
    OBVIOUS
  <2>2. \A s \in S \ Y : c[s] = a[s]
    OBVIOUS
  <2> QED
    BY <1>1, <2>1, <2>2, TotalWithout
<1>3. Total(a, Y, max) = Total(a, X, max)
  <2>1. CASE m \in X
    BY <2>1
  <2>2. CASE m \notin X
    <3>1. Y \ X = {m} /\ X \in SUBSET Y
      BY <2>2
    <3>2. Total(a, Y, max) = Total(a, X, max) + Total(a, {m}, max)
      BY <1>1, <3>1, TotalSplit
    <3>3. Total(a, {m}, max) = 0
      BY <2>2, TotalSingle
    <3>4. Total(a, X, max) \in Nat
      BY <1>1, TotalType
    <3> QED
      BY <3>2, <3>3, <3>4
  <2> QED
    BY <2>1, <2>2
<1>4. Total(c, S, max) = Total(b, S, max) - b[m]
  <2>1. Total(c, S, max) = Total(b, S, max) - Total(b, {m}, max)
    <3>1. \A s \in {m} : c[s] = 0
      OBVIOUS
    <3>2. \A s \in S \ {m} : c[s] = b[s]
      OBVIOUS
    <3> QED
      BY <1>1, <3>1, <3>2, TotalWithout
  <2>2. Total(b, {m}, max) = b[m]
    BY TotalSingle
  <2> QED
    BY <2>1, <2>2
<1>5. Total(b, S, max) \in Nat /\ Total(a, S, max) \in Nat /\ Total(a, X, max) \in Nat
  BY <1>1, TotalType
<1> HIDE DEF Y, c
<1> QED
  BY <1>2, <1>3, <1>4, <1>5

-----------------------------------------------------------------------------
(* The worker manager                                                      *)

\* A thread that is past bind_workload knows what it asks for.
ThreadsBound ==
  \A c \in Threads : pc[c] # "idle" =>
    /\ model[c] \in Models
    /\ c # Prewarmer => workload[c] \in Workloads

\* What a step that does not touch the pool must keep.
RestTyped == ModeType /\ ThreadType /\ ThreadsBound

\* The threads that hold a lease on m are counted in its in_flight.
LeasesCovered ==
  \A m \in Models :
    IF Resident(m) THEN Cardinality(Holders(m)) <= workers[m].in_flight
                   ELSE Holders(m) = {}

\* The constants that occur everywhere.
LEMMA ConstantFacts ==
  /\ None \notin Models /\ None \notin Workloads
  /\ None \notin PolicyType /\ None \notin WorkerType
  /\ IsFiniteSet(Models)
  /\ MaxReservation \in Nat /\ MaxRam \in Nat /\ MaxVram \in Nat
  /\ {} \in AppSets
  /\ Defaults \subseteq Workloads
  /\ Prewarmer \in Threads /\ Prewarmer \notin Clients
  /\ Clients \subseteq Threads
BY ResidencyAssumption DEF Threads

\* A workload's policy is a policy.
LEMMA PolicyFact ==
  ASSUME NEW w \in Workloads, NEW m \in Models, Policy[w][m] # None
  PROVE  Policy[w][m] \in PolicyType
BY ResidencyAssumption

\* None is no worker: a worker is a record with a policy in it.
LEMMA ResidentWorker ==
  ASSUME PoolType, NEW m \in Models, Resident(m)
  PROVE  /\ workers[m] \in WorkerType
         /\ workers[m].policy \in PolicyType
         /\ workers[m].retention \in Nat
         /\ workers[m].in_flight \in Int
BY DEF PoolType, Resident, WorkerType

\* What is left of the totals without some workers are numbers.
LEMMA WithoutType ==
  ASSUME PoolType, NEW X \in SUBSET Models
  PROVE  /\ RamWithout(X) \in Int
         /\ VramWithout(X) \in [Devices -> Int]
<1>1. IsFiniteSet(X)
  BY ConstantFacts, FS_Subset
<1>2. \A f : Total(f, X, MaxReservation) \in Nat
  BY <1>1, ConstantFacts, TotalType
<1> QED
  BY <1>2 DEF PoolType, RamWithout, VramWithout

-----------------------------------------------------------------------------
(* Type correctness of the changes to the pool                             *)

\* Eviction keeps the types of the pool.
LEMMA EraseType ==
  ASSUME PoolType, NEW X \in SUBSET Models, Erase(X)
  PROVE  PoolType'
BY WithoutType DEF PoolType, Erase

\* So does a load.
LEMMA EraseAndLoadType ==
  ASSUME PoolType, NEW X \in SUBSET Models, NEW m \in Models, NEW p \in PolicyType,
         EraseAndLoad(X, m, p)
  PROVE  PoolType'
<1>1. [policy |-> p, retention |-> p.priority, in_flight |-> 1] \in WorkerType
  BY DEF WorkerType, PolicyType
<1>2. workers' \in [Models -> WorkerType \cup {None}]
  BY <1>1 DEF PoolType, EraseAndLoad
<1>3. p.ram \in Int /\ p.vram \in Int /\ p.device \in Devices
  BY ConstantFacts DEF PolicyType
<1>4. reserved_ram_gib' \in Int
  BY <1>3, WithoutType DEF EraseAndLoad
<1>5. reserved_vram_by_device' \in [Devices -> Int]
  BY <1>3, WithoutType DEF EraseAndLoad, Charge
<1> QED
  BY <1>2, <1>4, <1>5 DEF PoolType

\* So does a shared lease.
LEMMA EraseAndLeaseType ==
  ASSUME PoolType, NEW X \in SUBSET Models, NEW m \in Models, NEW p \in PolicyType,
         Resident(m), EraseAndLease(X, m, p)
  PROVE  PoolType'
<1>1. p.priority \in Nat
  BY DEF PolicyType
<1>2. [workers[m] EXCEPT !.in_flight = @ + 1, !.retention = Larger(@, p.priority)]
        \in WorkerType
  <2>1. workers[m].in_flight + 1 \in Int
    BY ResidentWorker
  <2>2. Larger(workers[m].retention, p.priority) \in Nat
    BY <1>1, ResidentWorker DEF Larger
  <2> QED
    BY <2>1, <2>2, ResidentWorker DEF WorkerType
<1>3. workers' \in [Models -> WorkerType \cup {None}]
  BY <1>2 DEF PoolType, EraseAndLease
<1> QED
  BY <1>3, WithoutType DEF PoolType, EraseAndLease

-----------------------------------------------------------------------------
(* Leases                                                                  *)

\* There are finitely many threads.
LEMMA ThreadsFinite == IsFiniteSet(Threads)
BY ResidencyAssumption, FS_AddElement DEF Threads

\* A worker some thread holds is resident and busy.
LEMMA LeasedIsBusy ==
  ASSUME TypeOK, ThreadsBound, LeasesCovered, NEW c \in Threads, pc[c] = "leased"
  PROVE  /\ model[c] \in Models
         /\ Busy(model[c])
         /\ workers[model[c]].in_flight >= 1
<1>1. model[c] \in Models
  BY DEF ThreadsBound
<1>2. c \in Holders(model[c])
  BY DEF Holders
<1>3. Resident(model[c])
  BY <1>1, <1>2 DEF LeasesCovered
<1>4. IsFiniteSet(Holders(model[c]))
  BY ThreadsFinite, FS_Subset DEF Holders
<1>5. Cardinality(Holders(model[c])) \in Nat /\ Cardinality(Holders(model[c])) # 0
  BY <1>2, <1>4, FS_CardinalityType, FS_EmptySet
<1>6. workers[model[c]].in_flight \in Int
  BY <1>1, <1>3, ResidentWorker DEF TypeOK
<1>7. Cardinality(Holders(model[c])) <= workers[model[c]].in_flight
  BY <1>1, <1>3 DEF LeasesCovered
<1> QED
  BY <1>1, <1>3, <1>5, <1>6, <1>7 DEF Busy

\* A resident worker has no negative count.
LEMMA CountedNat ==
  ASSUME TypeOK, LeasesCovered, NEW m \in Models, Resident(m)
  PROVE  workers[m].in_flight >= 0
<1>1. IsFiniteSet(Holders(m))
  BY ThreadsFinite, FS_Subset DEF Holders
<1>2. Cardinality(Holders(m)) \in Nat
  BY <1>1, FS_CardinalityType
<1>3. Cardinality(Holders(m)) <= workers[m].in_flight
  BY DEF LeasesCovered
<1>4. workers[m].in_flight \in Int
  BY ResidentWorker DEF TypeOK
<1> QED
  BY <1>2, <1>3, <1>4

\* LeaseOf depends on the leased threads only.
LEMMA LeaseOfKept ==
  ASSUME \A c \in Threads : /\ pc'[c] = "leased" <=> pc[c] = "leased"
                            /\ pc[c] = "leased" => model'[c] = model[c]
  PROVE  LeaseOf' = LeaseOf
BY DEF LeaseOf

-----------------------------------------------------------------------------
(* What a step does to the pool and to the leases                          *)

\* The pool stays, or loses idle workers; every lease stays.
QuietStep ==
  /\ \/ UNCHANGED pool
     \/ \E X \in SUBSET Models : (\A m \in X : Idle(m)) /\ Erase(X)
  /\ LeaseOf' = LeaseOf

\* A lease is forgotten, the worker stays busy.
LoseStep ==
  /\ UNCHANGED pool
  /\ \E c \in LeakyRoutes \cap Threads :
       /\ pc[c] = "leased"
       /\ LeaseOf' = [LeaseOf EXCEPT ![c] = None]

\* A thread that is about to get m, configured as p, while X goes.
Granting(c, X) ==
  /\ Attempting(c)
  /\ model[c] \in Models
  /\ WorkloadOf(c) \in Workloads /\ PolicyOf(c) \in PolicyType
  /\ \A k \in X : Idle(k)
  /\ LeaseOf' = [LeaseOf EXCEPT ![c] = model[c]]

LeaseStep ==
  \E c \in Threads, X \in SUBSET Models :
    /\ Granting(c, X) /\ model[c] \notin X
    /\ Reusable(c) /\ ~MustWait(c)
    /\ EraseAndLease(X, model[c], PolicyOf(c))

LoadStep ==
  \E c \in Threads, X \in SUBSET Models :
    /\ Granting(c, X) /\ (model[c] \in X \/ ~Resident(model[c]))
    /\ has_capacity(WorkloadOf(c), PolicyOf(c), X)
    /\ EraseAndLoad(X, model[c], PolicyOf(c))

\* What is left after c has returned its worker and X went.
Unleased(c, X) ==
  /\ workers' = [k \in Models |-> IF k \in X THEN None ELSE Returned(c)[k]]
  /\ reserved_ram_gib' = RamWithout(X)
  /\ reserved_vram_by_device' = VramWithout(X)

ReleaseStep ==
  \E c \in Threads, X \in SUBSET Models :
    /\ pc[c] = "leased"
    /\ \A k \in X : Resident(k) /\ Returned(c)[k].in_flight = 0
    /\ Unleased(c, X)
    /\ LeaseOf' = [LeaseOf EXCEPT ![c] = None]

PoolStep == QuietStep \/ LoseStep \/ LeaseStep \/ LoadStep \/ ReleaseStep

\* The invariant that types need: Release reads the worker it returns.
Covered == TypeOK /\ ThreadsBound /\ LeasesCovered

-----------------------------------------------------------------------------
(* The request thread's steps                                              *)

\* What a thread in the loop of acquire_queued_locked asks for.
LEMMA AttemptingFacts ==
  ASSUME Covered, NEW c \in Threads, Attempting(c)
  PROVE  /\ model[c] \in Models
         /\ WorkloadOf(c) \in Workloads
         /\ PolicyOf(c) # None => PolicyOf(c) \in PolicyType
         /\ pc[c] # "leased"
<1>1. model[c] \in Models /\ pc[c] # "leased"
  BY DEF Covered, Attempting, ThreadsBound
<1>2. WorkloadOf(c) \in Workloads
  BY DEF Covered, TypeOK, ModeType, ThreadType, WorkloadOf
<1> QED
  BY <1>1, <1>2, PolicyFact DEF PolicyOf

\* The workers an attempt drops are idle; a reusable one is not among them.
LEMMA DroppedIdle ==
  ASSUME Covered, NEW c \in Threads, Attempting(c), NEW apps
  PROVE  /\ Dropped(c, apps) \in SUBSET Models
         /\ \A k \in Dropped(c, apps) : Idle(k)
         /\ Reusable(c) => model[c] \notin Dropped(c, apps)
BY AttemptingFacts DEF Dropped, Reconciled

\* Leaving the loop keeps the types of the queue.
LEMMA LeaveTyped ==
  ASSUME Covered, NEW c \in Threads, NEW place \in {"idle", "leased"}, Leave(c, place)
  PROVE  /\ queued_requests' \in Int
         /\ pc' \in [Threads -> {"idle", "bound", "asleep", "notified", "leased"}]
BY DEF Covered, TypeOK, ThreadType, Leave

\* Refuse: no pool, no lease, and the thread is idle.
LEMMA RefuseTyped ==
  ASSUME Covered, NEW c \in Threads, Refuse(c), pc[c] # "leased",
         last_request_workload' \in Workloads \cup {None},
         active_app_workloads' \in AppSets
  PROVE  RestTyped' /\ LeaseOf' = LeaseOf
<1>1. ThreadType'
  BY LeaveTyped DEF Refuse, Covered, TypeOK, ThreadType
<1>2. ModeType'
  BY DEF Refuse, Leave, Covered, TypeOK, ModeType
<1>3. ThreadsBound'
  BY DEF Refuse, Leave, Covered, ThreadsBound, TypeOK, ThreadType
<1>4. LeaseOf' = LeaseOf
  BY LeaseOfKept DEF Refuse, Leave, Covered, TypeOK, ThreadType
<1> QED
  BY <1>1, <1>2, <1>3, <1>4 DEF RestTyped

\* Enqueue: the thread sleeps, no lease changes.
LEMMA EnqueueTyped ==
  ASSUME Covered, NEW c \in Threads, Enqueue(c), Attempting(c),
         last_request_workload' \in Workloads \cup {None},
         active_app_workloads' \in AppSets
  PROVE  RestTyped' /\ LeaseOf' = LeaseOf
<1>1. ThreadType'
  BY DEF Enqueue, Covered, TypeOK, ThreadType
<1>2. ModeType'
  BY DEF Enqueue, modes, Covered, TypeOK, ModeType
<1>3. ThreadsBound'
  BY AttemptingFacts DEF Enqueue, Attempting, Covered, ThreadsBound, TypeOK, ThreadType
<1>4. LeaseOf' = LeaseOf
  BY AttemptingFacts, LeaseOfKept DEF Enqueue, Covered, TypeOK, ThreadType
<1> QED
  BY <1>1, <1>2, <1>3, <1>4 DEF RestTyped

\* Granted: the thread holds a lease on its model.
LEMMA GrantedTyped ==
  ASSUME Covered, NEW c \in Threads, Granted(c), Attempting(c),
         last_request_workload' \in Workloads \cup {None},
         active_app_workloads' \in AppSets
  PROVE  RestTyped' /\ LeaseOf' = [LeaseOf EXCEPT ![c] = model[c]]
<1>1. ThreadType'
  BY LeaveTyped DEF Granted, Covered, TypeOK, ThreadType
<1>2. ModeType'
  BY DEF Granted, Leave, Covered, TypeOK, ModeType
<1>3. ThreadsBound'
  BY DEF Granted, Leave, Attempting, Covered, ThreadsBound, TypeOK, ThreadType
<1>4. LeaseOf' = [LeaseOf EXCEPT ![c] = model[c]]
  BY DEF Granted, Leave, LeaseOf, Covered, TypeOK, ThreadType
<1> QED
  BY <1>1, <1>2, <1>3, <1>4 DEF RestTyped

\* What Refresh and the admission leave in the cached fields.
LEMMA AdmissionTyped ==
  ASSUME Covered, NEW c \in Threads, NEW apps, Attempting(c), Refresh(apps),
         \/ last_request_workload' = WorkloadOf(c)
         \/ last_request_workload' = last_request_workload
  PROVE  /\ last_request_workload' \in Workloads \cup {None}
         /\ active_app_workloads' \in AppSets
BY AttemptingFacts DEF Refresh, Covered, TypeOK, ModeType

\* An admitted thread has a policy that its workload selects.
LEMMA AdmittedFacts ==
  ASSUME Covered, NEW c \in Threads, NEW apps, Admitted(c, apps)
  PROVE  /\ Attempting(c)
         /\ PolicyOf(c) \in PolicyType
         /\ last_request_workload' \in Workloads \cup {None}
         /\ active_app_workloads' \in AppSets
<1>1. Attempting(c) /\ Refresh(apps) /\ PolicyOf(c) # None
      /\ last_request_workload' = WorkloadOf(c)
  BY DEF Admitted
<1> QED
  BY <1>1, AttemptingFacts, AdmissionTyped

\* An idle worker among D and E only: the candidates are idle.
LEMMA EvictedIdle ==
  ASSUME NEW w, NEW p, NEW D \in SUBSET Models, NEW apps, NEW E,
         EvictsUntilRoom(w, p, D, apps, E) \/ E = candidates(w, p, D) \/ E = {}
  PROVE  /\ E \in SUBSET Models
         /\ \A k \in E : Idle(k)
         /\ EvictsUntilRoom(w, p, D, apps, E) => has_capacity(w, p, D \cup E)
<1>1. candidates(w, p, D) \in SUBSET Models /\ \A k \in candidates(w, p, D) : Idle(k)
  BY DEF candidates
<1>2. EvictsUntilRoom(w, p, D, apps, E) =>
        (E = {} \/ E \subseteq candidates(w, p, D)) /\ has_capacity(w, p, D \cup E)
  <2>1. CASE E = {} /\ has_capacity(w, p, D)
    <3>1. D \cup E = D
      BY <2>1
    <3> QED
      BY <2>1, <3>1
  <2>2. CASE E \subseteq candidates(w, p, D) /\ has_capacity(w, p, D \cup E)
    BY <2>2
  <2> QED
    BY <2>1, <2>2 DEF EvictsUntilRoom
<1> QED
  BY <1>1, <1>2

\* Each way out of the loop of acquire_queued_locked is a step of the pool.
LEMMA RefusePausedStep ==
  ASSUME Covered, NEW c \in Threads, RefusePaused(c)
  PROVE  RestTyped' /\ PoolStep
<1>1. last_request_workload' \in Workloads \cup {None} /\ active_app_workloads' \in AppSets
  BY DEF RefusePaused, admission, Covered, TypeOK, ModeType
<1>2. RestTyped' /\ LeaseOf' = LeaseOf
  BY <1>1, AttemptingFacts, RefuseTyped DEF RefusePaused
<1> QED
  BY <1>2 DEF RefusePaused, PoolStep, QuietStep

\* A model the workload does not select is refused.
LEMMA RefuseUnselectedStep ==
  ASSUME Covered, NEW c \in Threads, NEW apps, RefuseUnselected(c, apps)
  PROVE  RestTyped' /\ PoolStep
<1>1. RestTyped' /\ LeaseOf' = LeaseOf
  BY AdmissionTyped, AttemptingFacts, RefuseTyped DEF RefuseUnselected
<1> QED
  BY <1>1 DEF RefuseUnselected, PoolStep, QuietStep

\* A worker that would not fit an empty machine is refused.
LEMMA RefuseOversizedStep ==
  ASSUME Covered, NEW c \in Threads, NEW apps, RefuseOversized(c, apps)
  PROVE  RestTyped' /\ PoolStep
<1>1. RestTyped' /\ LeaseOf' = LeaseOf
  BY AdmissionTyped, AttemptingFacts, RefuseTyped DEF RefuseOversized
<1> QED
  BY <1>1 DEF RefuseOversized, PoolStep, QuietStep

\* A compatible worker is shared.
LEMMA ReuseStep ==
  ASSUME Covered, NEW c \in Threads, NEW apps, Reuse(c, apps)
  PROVE  RestTyped' /\ PoolStep
<1>1. Attempting(c) /\ Admitted(c, apps)
  BY AdmittedFacts DEF Reuse
<1>2. RestTyped' /\ LeaseOf' = [LeaseOf EXCEPT ![c] = model[c]]
  BY <1>1, AdmittedFacts, GrantedTyped DEF Reuse
<1>3. Granting(c, Dropped(c, apps))
  BY <1>1, <1>2, AdmittedFacts, AttemptingFacts, DroppedIdle DEF Granting
<1>4. LeaseStep
  BY <1>1, <1>3, DroppedIdle DEF Reuse, LeaseStep
<1> QED
  BY <1>2, <1>4 DEF PoolStep

\* A thread that must wait drops idle workers and sleeps.
LEMMA QueueStep ==
  ASSUME Covered, NEW c \in Threads, NEW apps, Queue(c, apps)
  PROVE  RestTyped' /\ PoolStep
<1>1. Attempting(c) /\ Admitted(c, apps)
  BY AdmittedFacts DEF Queue
<1>2. RestTyped' /\ LeaseOf' = LeaseOf
  BY <1>1, AdmittedFacts, EnqueueTyped DEF Queue
<1> QED
  BY <1>1, <1>2, DroppedIdle DEF Queue, PoolStep, QuietStep

\* A load evicts idle workers and reserves within the limits.
LEMMA LoadingStep ==
  ASSUME Covered, NEW c \in Threads, NEW apps, NEW E, Load(c, apps, E)
  PROVE  RestTyped' /\ PoolStep
<1> DEFINE D == Dropped(c, apps)
<1>1. Admitted(c, apps) /\ ~Reusable(c) /\ ~MustWait(c)
  BY DEF Load, NeedsLoad
<1>2. Attempting(c)
  BY <1>1, AdmittedFacts
<1>3. RestTyped' /\ LeaseOf' = [LeaseOf EXCEPT ![c] = model[c]]
  BY <1>1, <1>2, AdmittedFacts, GrantedTyped DEF Load
<1>4. D \in SUBSET Models /\ \A k \in D : Idle(k)
  BY <1>2, DroppedIdle
<1>5. /\ D \cup E \in SUBSET Models
      /\ \A k \in D \cup E : Idle(k)
      /\ has_capacity(WorkloadOf(c), PolicyOf(c), D \cup E)
  BY <1>4, EvictedIdle DEF Load
<1>6. model[c] \in D \cup E \/ ~Resident(model[c])
  <2>1. ~Busy(model[c])
    BY <1>1 DEF MustWait
  <2>2. CASE Idle(model[c])
    BY <1>1, <2>2 DEF Dropped
  <2>3. CASE ~Idle(model[c])
    <3>1. Resident(model[c]) => workers[model[c]].in_flight \in Int
      BY <1>2, AttemptingFacts, ResidentWorker DEF Covered, TypeOK
    <3>2. Resident(model[c]) => workers[model[c]].in_flight < 0
      BY <2>1, <2>3, <3>1 DEF Busy, Idle
    <3>3. Resident(model[c]) => workers[model[c]].in_flight >= 0
      BY <1>2, AttemptingFacts, CountedNat DEF Covered
    <3> QED
      BY <3>1, <3>2, <3>3
  <2> QED
    BY <2>2, <2>3
<1>7. Granting(c, D \cup E)
  BY <1>1, <1>2, <1>3, <1>5, AdmittedFacts, AttemptingFacts DEF Granting
<1>8. LoadStep
  BY <1>5, <1>6, <1>7 DEF Load, LoadStep
<1> QED
  BY <1>3, <1>8 DEF PoolStep

\* A failed load leaves an eviction.
LEMMA LoadFailsStep ==
  ASSUME Covered, NEW c \in Threads, NEW apps, NEW E, LoadFails(c, apps, E)
  PROVE  RestTyped' /\ PoolStep
<1> DEFINE D == Dropped(c, apps)
<1>1. Admitted(c, apps) /\ Attempting(c)
  BY AdmittedFacts DEF LoadFails, NeedsLoad
<1>2. RestTyped' /\ LeaseOf' = LeaseOf
  BY <1>1, AdmittedFacts, AttemptingFacts, RefuseTyped DEF LoadFails
<1>3. D \in SUBSET Models /\ \A k \in D : Idle(k)
  BY <1>1, DroppedIdle
<1>4. E \in SUBSET Models /\ \A k \in E : Idle(k)
  BY <1>3, EvictedIdle DEF LoadFails
<1>5. Erase(D \cup E)
  BY DEF LoadFails
<1> QED
  BY <1>2, <1>3, <1>4, <1>5 DEF PoolStep, QuietStep

\* An eviction in vain is an eviction.
LEMMA NoRoomStep ==
  ASSUME Covered, NEW c \in Threads, NEW apps, NoRoom(c, apps)
  PROVE  RestTyped' /\ PoolStep
<1> DEFINE D == Dropped(c, apps)
           E == candidates(WorkloadOf(c), PolicyOf(c), D)
<1>1. Admitted(c, apps) /\ Attempting(c)
  BY AdmittedFacts DEF NoRoom, NeedsLoad
<1>2. Enqueue(c) \/ Refuse(c)
  BY DEF NoRoom
<1>3. RestTyped' /\ LeaseOf' = LeaseOf
  BY <1>1, <1>2, AdmittedFacts, AttemptingFacts, RefuseTyped, EnqueueTyped
<1>4. D \in SUBSET Models /\ \A k \in D : Idle(k)
  BY <1>1, DroppedIdle
<1>5. E \in SUBSET Models /\ \A k \in E : Idle(k)
  BY <1>4, EvictedIdle
<1>6. Erase(D \cup E)
  BY DEF NoRoom
<1> QED
  BY <1>3, <1>4, <1>5, <1>6 DEF PoolStep, QuietStep

\* All ways out of the loop.
LEMMA AttemptStep ==
  ASSUME Covered, NEW c \in Threads, Attempt(c)
  PROVE  RestTyped' /\ PoolStep
<1>1. CASE RefusePaused(c)
  BY <1>1, RefusePausedStep
<1>2. ASSUME NEW apps \in AppSets,
             \/ RefuseUnselected(c, apps) \/ RefuseOversized(c, apps)
             \/ Reuse(c, apps) \/ Queue(c, apps) \/ NoRoom(c, apps)
      PROVE  RestTyped' /\ PoolStep
  BY <1>2, RefuseUnselectedStep, RefuseOversizedStep, ReuseStep, QueueStep, NoRoomStep
<1>3. ASSUME NEW apps \in AppSets, NEW E \in SUBSET Models,
             Load(c, apps, E) \/ LoadFails(c, apps, E)
      PROVE  RestTyped' /\ PoolStep
  BY <1>3, LoadingStep, LoadFailsStep
<1> QED
  BY <1>1, <1>2, <1>3 DEF Attempt

\* A timeout takes the thread off the queue.
LEMMA QueueTimeoutStep ==
  ASSUME Covered, NEW c \in Threads, QueueTimeout(c)
  PROVE  RestTyped' /\ PoolStep
<1>1. last_request_workload' \in Workloads \cup {None} /\ active_app_workloads' \in AppSets
  BY DEF QueueTimeout, admission, Covered, TypeOK, ModeType
<1>2. RestTyped' /\ LeaseOf' = LeaseOf
  BY <1>1, RefuseTyped DEF QueueTimeout
<1> QED
  BY <1>2 DEF QueueTimeout, PoolStep, QuietStep

\* A spurious wake-up moves no lease.
LEMMA SpuriousWakeupStep ==
  ASSUME Covered, NEW c \in Threads, SpuriousWakeup(c)
  PROVE  RestTyped' /\ PoolStep
<1>1. ModeType'
  BY DEF SpuriousWakeup, admission, modes, Covered, TypeOK, ModeType
<1>2. ThreadType' /\ ThreadsBound'
  BY DEF SpuriousWakeup, Covered, TypeOK, ThreadType, ThreadsBound
<1>3. LeaseOf' = LeaseOf
  BY LeaseOfKept DEF SpuriousWakeup, Covered, TypeOK, ThreadType
<1> QED
  BY <1>1, <1>2, <1>3 DEF SpuriousWakeup, RestTyped, PoolStep, QuietStep

\* A bound request holds nothing yet.
LEMMA BindStep ==
  ASSUME Covered, NEW c \in Clients, NEW w \in Workloads \cup {None}, NEW m \in Models,
         Bind(c, w, m)
  PROVE  RestTyped' /\ PoolStep
<1>1. c \in Threads
  BY ConstantFacts
<1>2. ModeType'
  BY DEF Bind, admission, modes, Covered, TypeOK, ModeType
<1>3. default_workload \in Workloads
  BY DEF Covered, TypeOK, ModeType
<1>4. ThreadType' /\ ThreadsBound'
  BY <1>1, <1>3 DEF Bind, Covered, TypeOK, ThreadType, ThreadsBound
<1>5. LeaseOf' = LeaseOf
  BY <1>1, LeaseOfKept DEF Bind, Covered, TypeOK, ThreadType
<1> QED
  BY <1>2, <1>4, <1>5 DEF Bind, RestTyped, PoolStep, QuietStep

\* notify_all moves no thread into or out of a lease.
LEMMA NotifiedFacts ==
  ASSUME NEW place \in [Threads -> {"idle", "bound", "asleep", "notified", "leased"}]
  PROVE  /\ Notified(place) \in [Threads -> {"idle", "bound", "asleep", "notified", "leased"}]
         /\ \A c \in Threads : /\ Notified(place)[c] = "leased" <=> place[c] = "leased"
                               /\ Notified(place)[c] = "idle" <=> place[c] = "idle"
BY DEF Notified

\* notify_all keeps the types of the operators.
LEMMA OperatorsNotifiedType ==
  ASSUME ModeType
  PROVE  OperatorsNotified \in [Operators -> {"idle", "draining", "notified", "holding"}]
BY DEF ModeType, OperatorsNotified

\* A release returns one lease and drops workers without any.
LEMMA ReleasingStep ==
  ASSUME Covered, NEW c \in Threads, Release(c)
  PROVE  RestTyped' /\ PoolStep
<1> DEFINE gone == Ephemeral(c) \cup Stale(c)
<1>1. pc[c] = "leased"
  BY DEF Release
<1>2. model[c] \in Models /\ Resident(model[c])
  BY <1>1, LeasedIsBusy DEF Covered, Busy
<1>3. [pc EXCEPT ![c] = "idle"] \in [Threads -> {"idle", "bound", "asleep", "notified", "leased"}]
  BY DEF Covered, TypeOK, ThreadType
<1>4. ThreadType'
  BY <1>3, NotifiedFacts DEF Release, Covered, TypeOK, ThreadType
<1>5. ModeType'
  BY OperatorsNotifiedType DEF Release, admission, modes, Covered, TypeOK, ModeType
<1>6. ThreadsBound'
  <2>1. \A t \in Threads : pc'[t] # "idle" => pc[t] # "idle" /\ t # c
    BY <1>3, NotifiedFacts DEF Release, Covered, TypeOK, ThreadType
  <2>2. \A t \in Threads \ {c} : model'[t] = model[t] /\ workload'[t] = workload[t]
    BY DEF Release, Covered, TypeOK, ThreadType
  <2> QED
    BY <2>1, <2>2 DEF Covered, ThreadsBound
<1>7. LeaseOf' = [LeaseOf EXCEPT ![c] = None]
  <2>1. \A t \in Threads : pc'[t] = "leased" <=> pc[t] = "leased" /\ t # c
    BY <1>3, NotifiedFacts DEF Release, Covered, TypeOK, ThreadType
  <2>2. \A t \in Threads \ {c} : model'[t] = model[t]
    BY DEF Release, Covered, TypeOK, ThreadType
  <2> QED
    BY <2>1, <2>2 DEF LeaseOf
<1>8. gone \in SUBSET Models /\ \A k \in gone : Resident(k) /\ Returned(c)[k].in_flight = 0
  BY <1>2 DEF Ephemeral, Stale
<1>9. Unleased(c, gone)
  BY DEF Release, Unleased
<1> QED
  BY <1>1, <1>4, <1>5, <1>6, <1>7, <1>8, <1>9 DEF RestTyped, PoolStep, ReleaseStep

\* A lost lease leaves the pool as it is.
LEMMA LoseLeaseStep ==
  ASSUME Covered, NEW c \in Clients, LoseLease(c)
  PROVE  RestTyped' /\ PoolStep
<1>1. c \in Threads
  BY ConstantFacts
<1>2. ModeType'
  BY DEF LoseLease, admission, modes, Covered, TypeOK, ModeType
<1>3. ThreadType' /\ ThreadsBound'
  BY <1>1 DEF LoseLease, Covered, TypeOK, ThreadType, ThreadsBound
<1>4. LeaseOf' = [LeaseOf EXCEPT ![c] = None]
  BY <1>1 DEF LoseLease, LeaseOf, Covered, TypeOK, ThreadType
<1> QED
  BY <1>1, <1>2, <1>3, <1>4 DEF LoseLease, RestTyped, PoolStep, LoseStep

-----------------------------------------------------------------------------
(* The steps of the startup thread, the operators and the rest             *)

\* The startup thread enters the loop without a binding.
LEMMA PrewarmAcquireStep ==
  ASSUME Covered, NEW m \in Models, PrewarmAcquire(m)
  PROVE  RestTyped' /\ PoolStep
<1>1. ModeType'
  BY DEF PrewarmAcquire, PrewarmNext, admission, Covered, TypeOK, ModeType
<1>2. ThreadType' /\ ThreadsBound'
  BY ConstantFacts DEF PrewarmAcquire, PrewarmNext, Covered, TypeOK, ThreadType, ThreadsBound
<1>3. LeaseOf' = LeaseOf
  BY ConstantFacts, LeaseOfKept DEF PrewarmAcquire, PrewarmNext, Covered, TypeOK, ThreadType
<1> QED
  BY <1>1, <1>2, <1>3 DEF PrewarmAcquire, RestTyped, PoolStep, QuietStep

\* A step that leaves the threads alone leaves the leases.
LEMMA ThreadsKept ==
  ASSUME Covered, UNCHANGED <<thread, queued_requests>>
  PROVE  ThreadType' /\ ThreadsBound' /\ LeaseOf' = LeaseOf
BY DEF thread, Covered, TypeOK, ThreadType, ThreadsBound, LeaseOf

\* The startup thread's own steps move no lease.
LEMMA PrewarmStep ==
  ASSUME Covered, Prewarm
  PROVE  RestTyped' /\ PoolStep
<1>1. CASE PrewarmVerified
  <2>1. ModeType'
    BY <1>1 DEF PrewarmVerified, admission, Covered, TypeOK, ModeType
  <2> QED
    BY <1>1, <2>1, ThreadsKept DEF PrewarmVerified, RestTyped, PoolStep, QuietStep
<1>2. CASE PrewarmDone
  <2>1. ModeType'
    BY <1>2 DEF PrewarmDone, admission, Covered, TypeOK, ModeType
  <2> QED
    BY <1>2, <2>1, ThreadsKept DEF PrewarmDone, RestTyped, PoolStep, QuietStep
<1>3. CASE PrewarmFailed
  <2>1. ModeType'
    BY <1>3 DEF PrewarmFailed, admission, Covered, TypeOK, ModeType
  <2> QED
    BY <1>3, <2>1, ThreadsKept DEF PrewarmFailed, RestTyped, PoolStep, QuietStep
<1>4. ASSUME NEW m \in Models, PrewarmSkip(m)
      PROVE  RestTyped' /\ PoolStep
  <2>1. ModeType'
    BY <1>4 DEF PrewarmSkip, PrewarmNext, admission, Covered, TypeOK, ModeType
  <2> QED
    BY <1>4, <2>1, ThreadsKept DEF PrewarmSkip, RestTyped, PoolStep, QuietStep
<1> QED
  BY <1>1, <1>2, <1>3, <1>4, PrewarmAcquireStep DEF Prewarm

\* The sweeper erases idle workers.
LEMMA SweepStep ==
  ASSUME Covered, NEW X \in SUBSET Models, Sweep(X)
  PROVE  RestTyped' /\ PoolStep
<1>1. ModeType'
  BY DEF Sweep, admission, modes, Covered, TypeOK, ModeType
<1>2. (\A m \in X : Idle(m)) /\ Erase(X)
  BY DEF Sweep
<1> QED
  BY <1>1, <1>2, ThreadsKept DEF Sweep, RestTyped, PoolStep, QuietStep

\* A new strategy moves no worker.
LEMMA SetStrategyStep ==
  ASSUME Covered, NEW s, SetStrategy(s)
  PROVE  RestTyped' /\ PoolStep
<1>1. ModeType'
  BY OperatorsNotifiedType DEF SetStrategy, Covered, TypeOK, ModeType
<1>2. ThreadType' /\ ThreadsBound'
  BY NotifiedFacts DEF SetStrategy, Covered, TypeOK, ThreadType, ThreadsBound
<1>3. LeaseOf' = LeaseOf
  BY NotifiedFacts, LeaseOfKept DEF SetStrategy, Covered, TypeOK, ThreadType
<1> QED
  BY <1>1, <1>2, <1>3 DEF SetStrategy, RestTyped, PoolStep, QuietStep

\* A new default moves no worker.
LEMMA SwapProfileStep ==
  ASSUME Covered, NEW w \in Workloads, SwapProfile(w)
  PROVE  RestTyped' /\ PoolStep
<1>1. ModeType'
  BY DEF SwapProfile, admission, Covered, TypeOK, ModeType
<1> QED
  BY <1>1, ThreadsKept DEF SwapProfile, RestTyped, PoolStep, QuietStep

\* Applications change only what the manager reads.
LEMMA AppsChangeStep ==
  ASSUME Covered, NEW apps \in AppSets, AppsChange(apps)
  PROVE  RestTyped' /\ PoolStep
<1>1. ModeType'
  BY DEF AppsChange, admission, Covered, TypeOK, ModeType
<1> QED
  BY <1>1, ThreadsKept DEF AppsChange, RestTyped, PoolStep, QuietStep

\* Only idle workers are resident once the lease counts are zero.
LEMMA DrainedIsIdle ==
  ASSUME Covered, Drained
  PROVE  \A m \in {k \in Models : Resident(k)} : Idle(m)
<1> SUFFICES ASSUME NEW m \in Models, Resident(m)
             PROVE  Idle(m)
  OBVIOUS
<1>1. workers[m].in_flight \in Int
  BY ResidentWorker DEF Covered, TypeOK
<1>2. workers[m].in_flight >= 0
  BY CountedNat DEF Covered
<1>3. ~(workers[m].in_flight > 0)
  BY DEF Drained, Busy
<1> QED
  BY <1>1, <1>2, <1>3 DEF Idle

\* A drained pause erases every worker, and all are idle.
LEMMA PauseReturnsStep ==
  ASSUME Covered, NEW o \in Operators, PauseReturns(o)
  PROVE  \E X \in SUBSET Models : (\A m \in X : Idle(m)) /\ Erase(X)
<1> DEFINE X == {k \in Models : Resident(k)}
<1>1. X \in SUBSET Models /\ (\A m \in X : Idle(m)) /\ Erase(X)
  BY DrainedIsIdle DEF PauseReturns
<1> QED
  BY <1>1

\* A pause waits or erases.
LEMMA PauseStep ==
  ASSUME Covered, NEW o \in Operators, PauseInference(o) \/ PauseWakes(o)
  PROVE  RestTyped' /\ PoolStep
<1>1. PauseReturns(o) \/ (opc' = [opc EXCEPT ![o] = "draining"] /\ UNCHANGED pool)
  BY DEF PauseInference, PauseWakes
<1>2. opc' \in [Operators -> {"idle", "draining", "notified", "holding"}]
  BY <1>1 DEF PauseReturns, Covered, TypeOK, ModeType
<1>3. ModeType'
  BY <1>2 DEF PauseInference, PauseWakes, admission, modes, Covered, TypeOK, ModeType
<1>4. ThreadType' /\ ThreadsBound' /\ LeaseOf' = LeaseOf
  BY ThreadsKept DEF PauseInference, PauseWakes
<1> QED
  BY <1>1, <1>3, <1>4, PauseReturnsStep DEF RestTyped, PoolStep, QuietStep

\* A pause that times out moves no worker.
LEMMA PauseTimesOutStep ==
  ASSUME Covered, NEW o \in Operators, PauseTimesOut(o)
  PROVE  RestTyped' /\ PoolStep
<1>1. ModeType'
  BY DEF PauseTimesOut, admission, modes, Covered, TypeOK, ModeType
<1> QED
  BY <1>1, ThreadsKept DEF PauseTimesOut, RestTyped, PoolStep, QuietStep

\* A resume wakes threads.
LEMMA ResumeStep ==
  ASSUME Covered, NEW o \in Operators, ResumeInference(o)
  PROVE  RestTyped' /\ PoolStep
<1>1. ModeType'
  BY OperatorsNotifiedType
     DEF ResumeInference, admission, modes, Covered, TypeOK, ModeType
<1>2. ThreadType' /\ ThreadsBound'
  BY NotifiedFacts DEF ResumeInference, Covered, TypeOK, ThreadType, ThreadsBound
<1>3. LeaseOf' = LeaseOf
  BY NotifiedFacts, LeaseOfKept DEF ResumeInference, Covered, TypeOK, ThreadType
<1> QED
  BY <1>1, <1>2, <1>3 DEF ResumeInference, RestTyped, PoolStep, QuietStep

\* A reload moves no worker.
LEMMA ReloadStep ==
  ASSUME Covered, NEW o \in Operators, ReloadAfterMaintenance(o)
  PROVE  RestTyped' /\ PoolStep
<1>1. ModeType'
  BY ConstantFacts DEF ReloadAfterMaintenance, modes, Covered, TypeOK, ModeType
<1> QED
  BY <1>1, ThreadsKept DEF ReloadAfterMaintenance, RestTyped, PoolStep, QuietStep

\* Every step of the manager is one of the five steps of the pool.
LEMMA NextStep ==
  ASSUME Covered, [Next]_vars
  PROVE  RestTyped' /\ PoolStep
<1>1. CASE UNCHANGED vars
  <2>1. ModeType'
    BY <1>1 DEF vars, admission, modes, Covered, TypeOK, ModeType
  <2> QED
    BY <1>1, <2>1, ThreadsKept DEF vars, RestTyped, PoolStep, QuietStep
<1>2. ASSUME NEW o \in Operators, Operate(o)
      PROVE  RestTyped' /\ PoolStep
  BY <1>2, PauseStep, PauseTimesOutStep, ResumeStep, ReloadStep DEF Operate
<1>3. ASSUME NEW c \in Threads,
             Attempt(c) \/ QueueTimeout(c) \/ SpuriousWakeup(c) \/ Release(c)
      PROVE  RestTyped' /\ PoolStep
  BY <1>3, AttemptStep, QueueTimeoutStep, SpuriousWakeupStep, ReleasingStep
<1> QED
  BY <1>1, <1>2, <1>3, BindStep, LoseLeaseStep, PrewarmStep, SweepStep, SetStrategyStep,
     SwapProfileStep, AppsChangeStep DEF Next

-----------------------------------------------------------------------------
(* Lease counts                                                            *)

\* The threads that hold m according to a lease function.
HoldersIn(f, m) == {c \in Threads : f[c] = m}

\* Holders before and after a step are read off the leases.
LEMMA HoldersByLease ==
  ASSUME NEW m \in Models
  PROVE  /\ Holders(m) = HoldersIn(LeaseOf, m)
         /\ Holders(m)' = HoldersIn(LeaseOf', m)
BY ConstantFacts DEF Holders, HoldersIn, LeaseOf

\* A lease is on a model, or on none.
LEMMA LeaseOfType ==
  ASSUME Covered
  PROVE  LeaseOf \in [Threads -> Models \cup {None}]
BY DEF Covered, ThreadsBound, LeaseOf

\* Holders can be counted,
LEMMA HoldersFinite ==
  ASSUME NEW f, NEW m
  PROVE  IsFiniteSet(HoldersIn(f, m)) /\ Cardinality(HoldersIn(f, m)) \in Nat
<1>1. IsFiniteSet(HoldersIn(f, m))
  BY ThreadsFinite, FS_Subset DEF HoldersIn
<1> QED
  BY <1>1, FS_CardinalityType

\* before and after a step.
LEMMA HoldersNat ==
  ASSUME NEW m \in Models
  PROVE  /\ IsFiniteSet(Holders(m)) /\ Cardinality(Holders(m)) \in Nat
         /\ IsFiniteSet(Holders(m)') /\ Cardinality(Holders(m)') \in Nat
BY HoldersFinite, HoldersByLease

\* A grant of v adds one holder to v and to no other worker.
LEMMA HoldersOfGrant ==
  ASSUME Covered, NEW c \in Threads, NEW v \in Models, LeaseOf[c] = None,
         LeaseOf' = [LeaseOf EXCEPT ![c] = v], NEW m \in Models
  PROVE  /\ m = v => Cardinality(Holders(m)') = Cardinality(Holders(m)) + 1
         /\ m # v => Holders(m)' = Holders(m)
<1>1. LeaseOf \in [Threads -> Models \cup {None}] /\ None # m
  BY LeaseOfType, ConstantFacts
<1>2. CASE m = v
  <2>1. HoldersIn(LeaseOf', m) = HoldersIn(LeaseOf, m) \cup {c} /\ c \notin HoldersIn(LeaseOf, m)
    BY <1>1, <1>2 DEF HoldersIn
  <2>2. Cardinality(HoldersIn(LeaseOf, m) \cup {c}) = Cardinality(HoldersIn(LeaseOf, m)) + 1
    BY <2>1, HoldersFinite, FS_AddElement
  <2> QED
    BY <1>2, <2>1, <2>2, HoldersByLease
<1>3. CASE m # v
  <2>1. HoldersIn(LeaseOf', m) = HoldersIn(LeaseOf, m)
    BY <1>1, <1>3 DEF HoldersIn
  <2> QED
    BY <1>3, <2>1, HoldersByLease
<1> QED
  BY <1>2, <1>3

\* A thread that gives up v is one holder less of v and of no other worker.
LEMMA HoldersOfReturn ==
  ASSUME Covered, NEW c \in Threads, NEW v \in Models, LeaseOf[c] = v,
         LeaseOf' = [LeaseOf EXCEPT ![c] = None], NEW m \in Models
  PROVE  /\ m = v => Cardinality(Holders(m)') = Cardinality(Holders(m)) - 1
         /\ m # v => Holders(m)' = Holders(m)
<1>1. LeaseOf \in [Threads -> Models \cup {None}] /\ None # m
  BY LeaseOfType, ConstantFacts
<1>2. CASE m = v
  <2>1. HoldersIn(LeaseOf', m) = HoldersIn(LeaseOf, m) \ {c} /\ c \in HoldersIn(LeaseOf, m)
    BY <1>1, <1>2 DEF HoldersIn
  <2>2. Cardinality(HoldersIn(LeaseOf, m) \ {c}) = Cardinality(HoldersIn(LeaseOf, m)) - 1
    BY <2>1, HoldersFinite, FS_RemoveElement
  <2> QED
    BY <1>2, <2>1, <2>2, HoldersByLease
<1>3. CASE m # v
  <2>1. HoldersIn(LeaseOf', m) = HoldersIn(LeaseOf, m)
    BY <1>1, <1>3 DEF HoldersIn
  <2> QED
    BY <1>3, <2>1, HoldersByLease
<1> QED
  BY <1>2, <1>3

\* Erase touches nobody's worker.
LEMMA IdleHasNoHolder ==
  ASSUME Covered, NEW m \in Models, Idle(m)
  PROVE  Holders(m) = {}
<1>1. Cardinality(Holders(m)) <= 0
  BY DEF Covered, LeasesCovered, Idle
<1>2. IsFiniteSet(Holders(m))
  BY ThreadsFinite, FS_Subset DEF Holders
<1>3. Cardinality(Holders(m)) \in Nat
  BY <1>2, FS_CardinalityType
<1> QED
  BY <1>1, <1>2, <1>3, FS_EmptySet

\* What each step leaves of a worker.
LEMMA QuietWorkers ==
  ASSUME PoolType, QuietStep, NEW m \in Models
  PROVE  workers'[m] = workers[m] \/ (workers'[m] = None /\ Idle(m))
BY DEF QuietStep, Erase, pool, PoolType

\* Every step of the pool keeps its types.
LEMMA PoolStepTyped ==
  ASSUME Covered, PoolStep
  PROVE  PoolType'
<1>0. PoolType
  BY DEF Covered, TypeOK
<1>1. CASE QuietStep
  BY <1>0, <1>1, EraseType DEF QuietStep, pool, PoolType
<1>2. CASE LoseStep
  BY <1>0, <1>2 DEF LoseStep, pool, PoolType
<1>3. CASE LeaseStep
  <2>1. PICK c \in Threads, X \in SUBSET Models :
          /\ Granting(c, X) /\ Reusable(c)
          /\ EraseAndLease(X, model[c], PolicyOf(c))
    BY <1>3 DEF LeaseStep
  <2>2. model[c] \in Models /\ PolicyOf(c) \in PolicyType /\ Resident(model[c])
    BY <2>1 DEF Granting, Reusable
  <2> QED
    BY <1>0, <2>1, <2>2, EraseAndLeaseType
<1>4. CASE LoadStep
  <2>1. PICK c \in Threads, X \in SUBSET Models :
          Granting(c, X) /\ EraseAndLoad(X, model[c], PolicyOf(c))
    BY <1>4 DEF LoadStep
  <2>2. model[c] \in Models /\ PolicyOf(c) \in PolicyType
    BY <2>1 DEF Granting
  <2> QED
    BY <1>0, <2>1, <2>2, EraseAndLoadType
<1>5. CASE ReleaseStep
  <2>1. PICK c \in Threads, X \in SUBSET Models : pc[c] = "leased" /\ Unleased(c, X)
    BY <1>5 DEF ReleaseStep
  <2>2. model[c] \in Models /\ Resident(model[c])
    BY <2>1, LeasedIsBusy DEF Covered, Busy
  <2>3. [workers[model[c]] EXCEPT !.in_flight = @ - 1] \in WorkerType
    BY <1>0, <2>2, ResidentWorker DEF WorkerType
  <2>4. Returned(c) \in [Models -> WorkerType \cup {None}]
    BY <1>0, <2>3 DEF Returned, PoolType
  <2>5. workers' \in [Models -> WorkerType \cup {None}]
    BY <2>1, <2>4 DEF Unleased
  <2> QED
    BY <1>0, <2>1, <2>5, WithoutType DEF Unleased, PoolType
<1> QED
  BY <1>1, <1>2, <1>3, <1>4, <1>5 DEF PoolStep

\* The count of one worker after a step.  Exactly, when no route leaks.
CountOf(m) ==
  IF Resident(m)
    THEN /\ Cardinality(Holders(m)) <= workers[m].in_flight
         /\ LeakyRoutes = {} => Cardinality(Holders(m)) = workers[m].in_flight
    ELSE Holders(m) = {}

Counted == \A m \in Models : CountOf(m)

\* Counted implies what the step lemmas assume, and LeasesCounted.
LEMMA CountedCovers ==
  ASSUME Counted
  PROVE  LeasesCovered /\ (LeakyRoutes = {} => LeasesCounted)
BY DEF Counted, CountOf, LeasesCovered, LeasesCounted

\* Idle workers have no holder to lose.
LEMMA QuietCounted ==
  ASSUME Covered, QuietStep, NEW m \in Models, CountOf(m)
  PROVE  CountOf(m)'
<1>1. Holders(m)' = Holders(m)
  BY HoldersByLease DEF QuietStep
<1>2. CASE workers'[m] = workers[m]
  BY <1>1, <1>2 DEF CountOf, Resident
<1>3. CASE workers'[m] = None /\ Idle(m)
  BY <1>1, <1>3, IdleHasNoHolder DEF CountOf, Resident
<1> QED
  BY <1>2, <1>3, QuietWorkers DEF Covered, TypeOK

\* A lost lease is one holder less and no less in_flight.
LEMMA LoseCounted ==
  ASSUME Covered, LoseStep, NEW m \in Models, CountOf(m)
  PROVE  CountOf(m)'
<1>1. PICK c \in LeakyRoutes \cap Threads :
        pc[c] = "leased" /\ LeaseOf' = [LeaseOf EXCEPT ![c] = None]
  BY DEF LoseStep
<1>2. workers'[m] = workers[m] /\ LeakyRoutes # {}
  BY DEF LoseStep, pool
<1>3. Holders(m)' \in SUBSET Holders(m)
  BY <1>1, HoldersByLease, LeaseOfType, ConstantFacts DEF HoldersIn
<1>4. /\ Cardinality(Holders(m)) \in Nat /\ Cardinality(Holders(m)') \in Nat
      /\ Cardinality(Holders(m)') <= Cardinality(Holders(m))
  BY <1>3, HoldersNat, FS_Subset
<1>5. Resident(m) => workers[m].in_flight \in Int
  BY ResidentWorker DEF Covered, TypeOK
<1> QED
  BY <1>2, <1>3, <1>4, <1>5 DEF CountOf, Resident

\* The worker that was granted stays, one request busier.
LEMMA LeasedAfterGrant ==
  ASSUME Covered, NEW c \in Threads, NEW X, Granting(c, X), Reusable(c),
         EraseAndLease(X, model[c], PolicyOf(c))
  PROVE  /\ workers'[model[c]] \in WorkerType
         /\ workers'[model[c]] # None
         /\ workers'[model[c]].in_flight = workers[model[c]].in_flight + 1
         /\ workers'[model[c]].policy = workers[model[c]].policy
<1>1. model[c] \in Models /\ Resident(model[c])
  BY DEF Granting, Reusable
<1>2. workers[model[c]] \in WorkerType
  BY <1>1, ResidentWorker DEF Covered, TypeOK
<1>3. workers'[model[c]] = [workers[model[c]] EXCEPT !.in_flight = @ + 1,
                              !.retention = Larger(@, PolicyOf(c).priority)]
  BY <1>1 DEF EraseAndLease
<1>4. Larger(workers[model[c]].retention, PolicyOf(c).priority) \in Nat
      /\ workers[model[c]].in_flight + 1 \in Int
  BY <1>2 DEF Granting, WorkerType, PolicyType, Larger
<1>5. workers'[model[c]] \in WorkerType
  BY <1>2, <1>3, <1>4 DEF WorkerType
<1> QED
  BY <1>2, <1>3, <1>5, ConstantFacts DEF WorkerType

\* A shared lease is one holder and one in_flight more.
LEMMA LeaseCounted ==
  ASSUME Covered, LeaseStep, NEW m \in Models, CountOf(m)
  PROVE  CountOf(m)'
<1>1. PICK c \in Threads, X \in SUBSET Models :
        /\ Granting(c, X) /\ model[c] \notin X /\ Reusable(c)
        /\ EraseAndLease(X, model[c], PolicyOf(c))
  BY DEF LeaseStep
<1>2. /\ model[c] \in Models /\ Resident(model[c]) /\ LeaseOf[c] = None
      /\ LeaseOf' = [LeaseOf EXCEPT ![c] = model[c]]
  BY <1>1, AttemptingFacts DEF Granting, Reusable, LeaseOf
<1>3. CASE m = model[c]
  <2>1. Cardinality(Holders(m)') = Cardinality(Holders(m)) + 1
    BY <1>2, <1>3, HoldersOfGrant
  <2>2. Resident(m) /\ workers[m].in_flight \in Int /\ Cardinality(Holders(m)) \in Int
    BY <1>2, <1>3, ResidentWorker, HoldersNat DEF Covered, TypeOK
  <2>3. workers'[m] # None /\ workers'[m].in_flight = workers[m].in_flight + 1
    BY <1>1, <1>3, LeasedAfterGrant
  <2> QED
    BY <2>1, <2>2, <2>3 DEF CountOf, Resident
<1>4. CASE m # model[c]
  <2>1. Holders(m)' = Holders(m)
    BY <1>2, <1>4, HoldersOfGrant
  <2>2. workers'[m] = workers[m] \/ (workers'[m] = None /\ Idle(m))
    BY <1>1, <1>4 DEF EraseAndLease, Granting
  <2>3. Idle(m) => Holders(m) = {}
    BY IdleHasNoHolder
  <2> QED
    BY <2>1, <2>2, <2>3 DEF CountOf, Resident
<1> QED
  BY <1>3, <1>4

\* A loaded worker has its one holder.
LEMMA LoadCounted ==
  ASSUME Covered, LoadStep, NEW m \in Models, CountOf(m)
  PROVE  CountOf(m)'
<1>1. PICK c \in Threads, X \in SUBSET Models :
        /\ Granting(c, X) /\ (model[c] \in X \/ ~Resident(model[c]))
        /\ EraseAndLoad(X, model[c], PolicyOf(c))
  BY DEF LoadStep
<1>2. /\ model[c] \in Models /\ LeaseOf[c] = None
      /\ LeaseOf' = [LeaseOf EXCEPT ![c] = model[c]]
      /\ PolicyOf(c) \in PolicyType
  BY <1>1, AttemptingFacts DEF Granting, LeaseOf
<1>3. CASE m = model[c]
  <2>1. Holders(m) = {}
    BY <1>1, <1>3, IdleHasNoHolder DEF Granting, CountOf
  <2>2. Cardinality(Holders(m)') = Cardinality(Holders(m)) + 1
    BY <1>2, <1>3, HoldersOfGrant
  <2>3. Cardinality(Holders(m)') = 1
    BY <2>1, <2>2, FS_EmptySet
  <2>4. workers'[m] = [policy |-> PolicyOf(c), retention |-> PolicyOf(c).priority,
                       in_flight |-> 1]
    BY <1>1, <1>3 DEF EraseAndLoad
  <2>5. workers'[m].in_flight = 1 /\ workers'[m] # None
    <3>1. workers'[m] \in WorkerType
      BY <1>2, <2>4 DEF WorkerType, PolicyType
    <3> QED
      BY <2>4, <3>1, ConstantFacts
  <2> QED
    BY <2>3, <2>5 DEF CountOf, Resident
<1>4. CASE m # model[c]
  <2>1. Holders(m)' = Holders(m)
    BY <1>2, <1>4, HoldersOfGrant
  <2>2. workers'[m] = workers[m] \/ (workers'[m] = None /\ Idle(m))
    BY <1>1, <1>4 DEF EraseAndLoad, Granting
  <2>3. Idle(m) => Holders(m) = {}
    BY IdleHasNoHolder
  <2> QED
    BY <2>1, <2>2, <2>3 DEF CountOf, Resident
<1> QED
  BY <1>3, <1>4

\* A release is one holder and one in_flight less.
LEMMA ReleaseCounted ==
  ASSUME Covered, ReleaseStep, NEW m \in Models, CountOf(m)
  PROVE  CountOf(m)'
<1>1. PICK c \in Threads, X \in SUBSET Models :
        /\ pc[c] = "leased" /\ Unleased(c, X)
        /\ \A k \in X : Resident(k) /\ Returned(c)[k].in_flight = 0
        /\ LeaseOf' = [LeaseOf EXCEPT ![c] = None]
  BY DEF ReleaseStep
<1>2. model[c] \in Models /\ Resident(model[c]) /\ LeaseOf[c] = model[c]
  BY <1>1, LeasedIsBusy DEF Covered, Busy, LeaseOf
<1>3. workers[model[c]] \in WorkerType
  BY <1>2, ResidentWorker DEF Covered, TypeOK
<1>4. IsFiniteSet(Holders(m)') /\ Cardinality(Holders(m)') \in Nat
      /\ Cardinality(Holders(m)) \in Nat
  BY HoldersNat
<1>5. CASE m = model[c]
  <2>1. Cardinality(Holders(m)') = Cardinality(Holders(m)) - 1
    BY <1>1, <1>2, <1>5, HoldersOfReturn
  <2>2. Returned(c)[m] = [workers[m] EXCEPT !.in_flight = @ - 1]
    BY <1>2, <1>5 DEF Returned, Covered, TypeOK, PoolType
  <2>3. /\ Returned(c)[m].in_flight = workers[m].in_flight - 1
        /\ Returned(c)[m] # None
        /\ workers[m].in_flight \in Int
    <3>1. Returned(c)[m] \in WorkerType
      BY <1>3, <1>5, <2>2 DEF WorkerType
    <3> QED
      BY <1>3, <1>5, <2>2, <3>1, ConstantFacts DEF WorkerType
  <2>4. CASE m \in X
    <3>1. workers'[m] = None /\ workers[m].in_flight - 1 = 0
      BY <1>1, <2>3, <2>4 DEF Unleased
    <3>2. Cardinality(Holders(m)') = 0
      BY <1>2, <1>4, <1>5, <2>1, <2>3, <3>1 DEF CountOf
    <3> QED
      BY <1>4, <3>1, <3>2, FS_EmptySet DEF CountOf, Resident
  <2>5. CASE m \notin X
    <3>1. workers'[m] = Returned(c)[m]
      BY <1>1, <2>5 DEF Unleased
    <3> QED
      BY <1>2, <1>4, <1>5, <2>1, <2>3, <3>1 DEF CountOf, Resident
  <2> QED
    BY <2>4, <2>5
<1>6. CASE m # model[c]
  <2>1. Holders(m)' = Holders(m)
    BY <1>1, <1>2, <1>6, HoldersOfReturn
  <2>2. Returned(c)[m] = workers[m]
    BY <1>6 DEF Returned, Covered, TypeOK, PoolType
  <2>3. workers'[m] = workers[m] \/ (workers'[m] = None /\ Idle(m))
    BY <1>1, <2>2 DEF Unleased, Idle
  <2>4. Idle(m) => Holders(m) = {}
    BY IdleHasNoHolder
  <2> QED
    BY <2>1, <2>3, <2>4 DEF CountOf, Resident
<1> QED
  BY <1>5, <1>6

\* Every step of the pool keeps the counts.
LEMMA StepCounted ==
  ASSUME Covered, Counted, PoolStep
  PROVE  Counted'
<1> SUFFICES ASSUME NEW m \in Models
             PROVE  CountOf(m)'
  BY DEF Counted
<1> QED
  BY QuietCounted, LoseCounted, LeaseCounted, LoadCounted, ReleaseCounted
     DEF Counted, PoolStep

-----------------------------------------------------------------------------
(* Type correctness and lease accounting                                   *)

\* The inductive invariant.  TypeOK alone is not inductive: a release reads
\* the worker it returns, which must be there, and that is what Counted says.
Leasing == TypeOK /\ ThreadsBound /\ Counted

\* The inductive invariant implies what the step lemmas assume.
LEMMA LeasingCovers == Leasing => Covered
BY CountedCovers DEF Leasing, Covered

\* It holds at the start,
LEMMA InitLeasing ==
  ASSUME Init
  PROVE  Leasing
<1>1. PoolType
  BY DEF Init, PoolType
<1>2. ModeType
  BY ConstantFacts DEF Init, ModeType
<1>3. ThreadType /\ ThreadsBound
  BY DEF Init, ThreadType, ThreadsBound
<1>4. \A m \in Models : Holders(m) = {} /\ ~Resident(m)
  BY DEF Init, Holders, Resident
<1>5. Counted
  BY <1>4 DEF Counted, CountOf
<1> QED
  BY <1>1, <1>2, <1>3, <1>5 DEF Leasing, TypeOK

\* and every step keeps it.
LEMMA NextLeasing ==
  ASSUME Leasing, [Next]_vars
  PROVE  Leasing'
<1>1. Covered /\ Counted
  BY LeasingCovers DEF Leasing
<1>2. RestTyped' /\ PoolStep
  BY <1>1, NextStep
<1>3. PoolType' /\ Counted'
  BY <1>1, <1>2, PoolStepTyped, StepCounted
<1> QED
  BY <1>2, <1>3 DEF RestTyped, Leasing, TypeOK

\* Types, bound threads and lease counts hold together at all times (workers_
\* and in_flight through acquire_queued_locked and release of server.cpp).
THEOREM LeasingInvariant == Spec => []Leasing
<1>1. Init => Leasing
  BY InitLeasing
<1>2. Leasing /\ [Next]_vars => Leasing'
  BY NextLeasing
<1> QED
  BY <1>1, <1>2, PTL DEF Spec

\* Every field keeps its type in every step of every thread (the fields of
\* WorkerManager, src/src/server.cpp:2541-2564).
THEOREM TypeCorrectness == Spec => []TypeOK
<1>1. Leasing => TypeOK
  BY DEF Leasing
<1> QED
  BY <1>1, LeasingInvariant, PTL

-----------------------------------------------------------------------------
(* The queue: a step lets one thread join it or leave it, or neither        *)

QueueMoves ==
  \/ Queueing' = Queueing /\ queued_requests' = queued_requests
  \/ \E c \in Threads \ Queueing :
       Queueing' = Queueing \cup {c} /\ queued_requests' = queued_requests + 1
  \/ \E c \in Queueing :
       Queueing' = Queueing \ {c} /\ queued_requests' = queued_requests - 1

\* Who leaves the loop, with a lease or with an exception, was counted or was not.
LEMMA LeaveQueue ==
  ASSUME ThreadType, NEW c \in Threads, NEW place \in {"idle", "leased"}, Leave(c, place),
         pc[c] \in {"bound", "asleep", "notified"}
  PROVE  QueueMoves
<1>1. CASE pc[c] = "bound"
  BY <1>1 DEF Leave, ThreadType, Queueing, QueueMoves
<1>2. CASE pc[c] # "bound"
  <2>1. c \in Queueing /\ queued_requests' = queued_requests - 1
    BY <1>2 DEF Leave, Queueing
  <2>2. Queueing' = Queueing \ {c}
    BY DEF Leave, ThreadType, Queueing
  <2> QED
    BY <2>1, <2>2 DEF QueueMoves
<1> QED
  BY <1>1, <1>2

\* Who goes to sleep again was counted when it first did.
LEMMA EnqueueQueue ==
  ASSUME ThreadType, NEW c \in Threads, Enqueue(c), Attempting(c)
  PROVE  QueueMoves
<1>1. CASE pc[c] = "bound"
  <2>1. c \in Threads \ Queueing /\ queued_requests' = queued_requests + 1
    BY <1>1 DEF Enqueue, Queueing
  <2>2. Queueing' = Queueing \cup {c}
    BY DEF Enqueue, ThreadType, Queueing
  <2> QED
    BY <2>1, <2>2 DEF QueueMoves
<1>2. CASE pc[c] = "notified"
  BY <1>2 DEF Enqueue, ThreadType, Queueing, QueueMoves
<1> QED
  BY <1>1, <1>2 DEF Attempting

LEMMA AttemptQueue ==
  ASSUME ThreadType, NEW c \in Threads, Attempt(c)
  PROVE  QueueMoves
<1>1. Attempting(c)
  BY DEF Attempt, RefusePaused, RefuseUnselected, RefuseOversized, Reuse, Queue, NoRoom, Load,
         LoadFails, NeedsLoad, Admitted
<1>2. Refuse(c) \/ Granted(c) => QueueMoves
  BY <1>1, LeaveQueue DEF Refuse, Granted, Attempting
<1>3. Enqueue(c) => QueueMoves
  BY <1>1, EnqueueQueue
<1>4. Refuse(c) \/ Granted(c) \/ Enqueue(c)
  BY DEF Attempt, RefusePaused, RefuseUnselected, RefuseOversized, Reuse, Queue, NoRoom, Load,
         LoadFails
<1> QED
  BY <1>2, <1>3, <1>4

LEMMA NextQueue ==
  ASSUME ThreadType, [Next]_vars
  PROVE  QueueMoves
<1>1. ASSUME UNCHANGED <<pc, queued_requests>>
      PROVE  QueueMoves
  BY <1>1 DEF Queueing, QueueMoves
<1>2. ASSUME NEW sleeping, pc' = Notified(sleeping), queued_requests' = queued_requests,
             {c \in Threads : sleeping[c] \in {"asleep", "notified"}} = Queueing
      PROVE  QueueMoves
  BY <1>2 DEF Notified, Queueing, QueueMoves
<1>3. ASSUME NEW c \in Clients, NEW w \in Workloads \cup {None}, NEW m \in Models, Bind(c, w, m)
      PROVE  QueueMoves
  BY <1>3 DEF Bind, ThreadType, Queueing, QueueMoves
<1>4. ASSUME NEW c \in Threads, QueueTimeout(c)
      PROVE  QueueMoves
  BY <1>4, LeaveQueue DEF QueueTimeout, Refuse
<1>5. ASSUME NEW c \in Threads, SpuriousWakeup(c)
      PROVE  QueueMoves
  BY <1>5 DEF SpuriousWakeup, ThreadType, Queueing, QueueMoves
<1>6. ASSUME NEW c \in Threads, Release(c)
      PROVE  QueueMoves
  <2>1. {d \in Threads : [pc EXCEPT ![c] = "idle"][d] \in {"asleep", "notified"}} = Queueing
    BY <1>6 DEF Release, ThreadType, Queueing
  <2> QED
    BY <1>2, <1>6, <2>1 DEF Release
<1>7. ASSUME NEW c \in Clients, LoseLease(c)
      PROVE  QueueMoves
  BY <1>7 DEF LoseLease, ThreadType, Queueing, QueueMoves
<1>8. ASSUME Prewarm
      PROVE  QueueMoves
  <2>1. ASSUME NEW m \in Models, PrewarmAcquire(m)
        PROVE  QueueMoves
    BY <2>1 DEF PrewarmAcquire, PrewarmNext, ThreadType, Queueing, QueueMoves
  <2> QED
    BY <1>1, <1>8, <2>1 DEF Prewarm, PrewarmVerified, PrewarmDone, PrewarmFailed, PrewarmSkip, thread
<1>9. ASSUME NEW s, SetStrategy(s)
      PROVE  QueueMoves
  BY <1>2, <1>9 DEF SetStrategy, Queueing
<1>10. ASSUME NEW o \in Operators, Operate(o)
       PROVE  QueueMoves
  <2>1. ResumeInference(o) => QueueMoves
    BY <1>2 DEF ResumeInference, Queueing
  <2> QED
    BY <1>1, <1>10, <2>1 DEF Operate, PauseInference, PauseWakes, PauseTimesOut,
       ReloadAfterMaintenance, thread
<1>11. ASSUME UNCHANGED vars \/ (\E X \in SUBSET Models : Sweep(X))
              \/ (\E w \in Workloads : SwapProfile(w)) \/ (\E apps \in AppSets : AppsChange(apps))
       PROVE  QueueMoves
  BY <1>1, <1>11 DEF vars, Sweep, SwapProfile, AppsChange, thread
<1> QED
  BY <1>3, <1>4, <1>5, <1>6, <1>7, <1>8, <1>9, <1>10, <1>11, AttemptQueue DEF Next

\* If no route loses its lease, in_flight is at all times the number of
\* threads that hold the worker, and no worker that is held is ever gone; and
\* queued_requests_ is the number of threads that wait.
THEOREM LeasesAreAccounted ==
  ASSUME LeakyRoutes = {}
  PROVE  Spec => []LeaseAccounting
<1> DEFINE Accounted == queued_requests = Cardinality(Queueing)
<1>1. Leasing => LeasesCounted /\ ThreadType
  BY CountedCovers DEF Leasing, TypeOK
<1>2. Init => Accounted
  <2> SUFFICES ASSUME Init PROVE Accounted
    OBVIOUS
  <2>1. Queueing = {}
    BY DEF Init, Queueing
  <2> QED
    BY <2>1, FS_EmptySet DEF Init
<1>3. ASSUME ThreadType, Accounted, [Next]_vars
      PROVE  Accounted'
  <2>1. IsFiniteSet(Queueing)
    BY ThreadsFinite, FS_Subset DEF Queueing
  <2>2. CASE Queueing' = Queueing /\ queued_requests' = queued_requests
    BY <1>3, <2>2
  <2>3. ASSUME NEW c \in Threads \ Queueing,
               Queueing' = Queueing \cup {c}, queued_requests' = queued_requests + 1
        PROVE  Accounted'
    BY <1>3, <2>1, <2>3, FS_AddElement
  <2>4. ASSUME NEW c \in Queueing,
               Queueing' = Queueing \ {c}, queued_requests' = queued_requests - 1
        PROVE  Accounted'
    BY <1>3, <2>1, <2>4, FS_RemoveElement
  <2> QED
    BY <1>3, <2>2, <2>3, <2>4, NextQueue DEF QueueMoves
<1>4. LeasesCounted /\ Accounted => LeaseAccounting
  BY DEF LeaseAccounting
<1> HIDE DEF Accounted
<1> QED
  BY <1>1, <1>2, <1>3, <1>4, LeasingInvariant, PTL DEF Spec

\* Even when routes lose leases, the worker of a thread that holds one is in
\* memory and cannot be evicted: it counts at least one request.
LeasedIsProtected ==
  \A c \in Threads : pc[c] = "leased" => Busy(model[c])

\* A handler's worker cannot be evicted, swept or unloaded under it, because
\* every path that erases a worker looks at in_flight first.
THEOREM LeasesProtect == Spec => []LeasedIsProtected
<1>1. Leasing => LeasedIsProtected
  BY LeasingCovers, LeasedIsBusy DEF LeasedIsProtected, Covered
<1> QED
  BY <1>1, LeasingInvariant, PTL

-----------------------------------------------------------------------------
(* Reservations                                                            *)

\* Both maps reserve naturals, none above the bound.
LEMMA ReservationType ==
  ASSUME PoolType
  PROVE  /\ \A m \in Models : ram_reservation[m] \in 0..MaxReservation
         /\ \A d \in Devices, m \in Models : vram_reservation(d)[m] \in 0..MaxReservation
<1> SUFFICES ASSUME NEW m \in Models
             PROVE  /\ ram_reservation[m] \in 0..MaxReservation
                    /\ \A d \in Devices : vram_reservation(d)[m] \in 0..MaxReservation
  OBVIOUS
<1>1. 0 \in 0..MaxReservation
  BY ConstantFacts
<1>2. Resident(m) => /\ workers[m].policy.ram \in 0..MaxReservation
                     /\ workers[m].policy.vram \in 0..MaxReservation
  BY ResidentWorker DEF PolicyType
<1> QED
  BY <1>1, <1>2 DEF ram_reservation, vram_reservation

\* The workers of X are gone; the others reserve what they did.
GoneFrom(X) ==
  \A m \in Models :
    /\ m \in X => ~Resident(m)'
    /\ m \notin X => /\ Resident(m)' <=> Resident(m)
                     /\ Resident(m) => workers'[m].policy = workers[m].policy

\* Totals without X are the totals once X is gone.
LEMMA GoneReservations ==
  ASSUME NEW X \in SUBSET Models, GoneFrom(X),
         reserved_ram_gib' = RamWithout(X), reserved_vram_by_device' = VramWithout(X),
         ReservationAccounting
  PROVE  ReservationAccounting'
<1>1. Total(ram_reservation', Models, MaxReservation) =
        Total(ram_reservation, Models, MaxReservation) - Total(ram_reservation, X, MaxReservation)
  <2>1. /\ \A m \in X : ram_reservation'[m] = 0
        /\ \A m \in Models \ X : ram_reservation'[m] = ram_reservation[m]
    BY DEF GoneFrom, ram_reservation
  <2> QED
    BY <2>1, ConstantFacts, TotalWithout
<1>2. ASSUME NEW d \in Devices
      PROVE  Total(vram_reservation(d)', Models, MaxReservation) =
               Total(vram_reservation(d), Models, MaxReservation)
                 - Total(vram_reservation(d), X, MaxReservation)
  <2>1. /\ \A m \in X : vram_reservation(d)'[m] = 0
        /\ \A m \in Models \ X : vram_reservation(d)'[m] = vram_reservation(d)[m]
    BY DEF GoneFrom, vram_reservation
  <2> QED
    BY <2>1, ConstantFacts, TotalWithout
<1> QED
  BY <1>1, <1>2 DEF ReservationAccounting, RamWithout, VramWithout

\* Evictions give back what was reserved.
LEMMA QuietReservations ==
  ASSUME Covered, QuietStep, ReservationAccounting
  PROVE  ReservationAccounting'
<1>1. CASE UNCHANGED pool
  BY <1>1 DEF pool, ReservationAccounting, ram_reservation, vram_reservation, Resident
<1>2. ASSUME NEW X \in SUBSET Models, Erase(X)
      PROVE  ReservationAccounting'
  <2>1. GoneFrom(X)
    BY <1>2 DEF GoneFrom, Erase, Resident
  <2> QED
    BY <1>2, <2>1, GoneReservations DEF Erase
<1> QED
  BY <1>1, <1>2 DEF QuietStep

\* A shared lease reserves nothing.
LEMMA LeaseReservations ==
  ASSUME Covered, LeaseStep, ReservationAccounting
  PROVE  ReservationAccounting'
<1>1. PICK c \in Threads, X \in SUBSET Models :
        /\ Granting(c, X) /\ model[c] \notin X /\ Reusable(c)
        /\ EraseAndLease(X, model[c], PolicyOf(c))
  BY DEF LeaseStep
<1>2. model[c] \in Models /\ Resident(model[c])
  BY <1>1 DEF Granting, Reusable
<1>3. workers'[model[c]].policy = workers[model[c]].policy /\ workers'[model[c]] # None
  BY <1>1, LeasedAfterGrant
<1>4. ASSUME NEW m \in Models
      PROVE  /\ m \in X => workers'[m] = None
             /\ m \notin X => /\ workers'[m] # None <=> workers[m] # None
                              /\ workers[m] # None => workers'[m].policy = workers[m].policy
  <2>1. CASE m = model[c]
    BY <1>1, <1>2, <1>3, <2>1 DEF Resident
  <2>2. CASE m # model[c]
    BY <1>1, <2>2 DEF EraseAndLease
  <2> QED
    BY <2>1, <2>2
<1>5. GoneFrom(X)
  BY <1>4 DEF GoneFrom, Resident
<1> QED
  BY <1>1, <1>5, GoneReservations DEF EraseAndLease

\* A load adds its own reservation.
LEMMA LoadReservations ==
  ASSUME Covered, LoadStep, ReservationAccounting
  PROVE  ReservationAccounting'
<1>1. PICK c \in Threads, X \in SUBSET Models :
        /\ Granting(c, X) /\ (model[c] \in X \/ ~Resident(model[c]))
        /\ EraseAndLoad(X, model[c], PolicyOf(c))
  BY DEF LoadStep
<1>a. PICK m \in Models : m = model[c]
  BY <1>1 DEF Granting
<1>b. PICK p \in PolicyType : p = PolicyOf(c)
  BY <1>1 DEF Granting
<1>2. /\ \A k \in X : Idle(k)
      /\ m \in X \/ ~Resident(m)
      /\ EraseAndLoad(X, m, p)
  BY <1>1, <1>a, <1>b DEF Granting
<1>3. workers'[m] = [policy |-> p, retention |-> p.priority, in_flight |-> 1]
  BY <1>2 DEF EraseAndLoad
<1>4. workers'[m].policy = p /\ Resident(m)'
  <2>1. workers'[m] \in WorkerType
    BY <1>3 DEF WorkerType, PolicyType
  <2> QED
    BY <1>3, <2>1, ConstantFacts DEF Resident
<1>5. /\ \A k \in X \ {m} : ~Resident(k)'
      /\ \A k \in Models \ (X \cup {m}) : workers'[k] = workers[k]
  BY <1>2 DEF EraseAndLoad, Resident
<1>6. PoolType /\ PoolType'
  BY PoolStepTyped DEF PoolStep, Covered, TypeOK
<1>7. Total(ram_reservation', Models, MaxReservation) =
        Total(ram_reservation, Models, MaxReservation)
          - Total(ram_reservation, X, MaxReservation) + p.ram
  <2>1. ram_reservation[m] \in 0..MaxReservation /\ ram_reservation'[m] = p.ram
        /\ p.ram \in 0..MaxReservation
    BY <1>4, <1>6, ReservationType DEF ram_reservation, PolicyType
  <2>2. m \in X \/ ram_reservation[m] = 0
    BY <1>2 DEF ram_reservation
  <2>3. /\ \A k \in X \ {m} : ram_reservation'[k] = 0
        /\ \A k \in Models \ (X \cup {m}) : ram_reservation'[k] = ram_reservation[k]
    BY <1>5 DEF ram_reservation, Resident
  <2> QED
    BY <2>1, <2>2, <2>3, ConstantFacts, TotalWith
<1>8. ASSUME NEW d \in Devices
      PROVE  Total(vram_reservation(d)', Models, MaxReservation) =
               Total(vram_reservation(d), Models, MaxReservation)
                 - Total(vram_reservation(d), X, MaxReservation)
                 + (IF p.device = d THEN p.vram ELSE 0)
  <2>1. /\ vram_reservation(d)[m] \in 0..MaxReservation
        /\ vram_reservation(d)'[m] = IF p.device = d THEN p.vram ELSE 0
        /\ vram_reservation(d)'[m] \in 0..MaxReservation
    BY <1>4, <1>6, ReservationType, ConstantFacts DEF vram_reservation, PolicyType
  <2>2. m \in X \/ vram_reservation(d)[m] = 0
    BY <1>2 DEF vram_reservation
  <2>3. /\ \A k \in X \ {m} : vram_reservation(d)'[k] = 0
        /\ \A k \in Models \ (X \cup {m}) : vram_reservation(d)'[k] = vram_reservation(d)[k]
    BY <1>5 DEF vram_reservation, Resident
  <2> QED
    BY <2>1, <2>2, <2>3, ConstantFacts, TotalWith
<1>9. reserved_ram_gib' = Total(ram_reservation', Models, MaxReservation)
  BY <1>2, <1>7 DEF EraseAndLoad, ReservationAccounting, RamWithout
<1>10. ASSUME NEW d \in Devices
       PROVE  reserved_vram_by_device'[d] = Total(vram_reservation(d)', Models, MaxReservation)
  <2>1. VramWithout(X)[d] = Total(vram_reservation(d), Models, MaxReservation)
                              - Total(vram_reservation(d), X, MaxReservation)
    BY DEF VramWithout, ReservationAccounting
  <2>2. VramWithout(X) \in [Devices -> Int] /\ p.vram \in Int
    BY <1>6, WithoutType, ConstantFacts DEF PolicyType
  <2>3. reserved_vram_by_device'[d] =
          VramWithout(X)[d] + (IF p.device = d THEN p.vram ELSE 0)
    BY <1>2, <2>2 DEF EraseAndLoad, Charge
  <2> QED
    BY <1>8, <2>1, <2>3
<1> QED
  BY <1>9, <1>10 DEF ReservationAccounting

\* A release gives back the workers it drops.
LEMMA ReleaseReservations ==
  ASSUME Covered, ReleaseStep, ReservationAccounting
  PROVE  ReservationAccounting'
<1>1. PICK c \in Threads, X \in SUBSET Models : pc[c] = "leased" /\ Unleased(c, X)
  BY DEF ReleaseStep
<1>2. model[c] \in Models /\ Resident(model[c])
  BY <1>1, LeasedIsBusy DEF Covered, Busy
<1>3. workers[model[c]] \in WorkerType
  BY <1>2, ResidentWorker DEF Covered, TypeOK
<1>4. /\ Returned(c)[model[c]] \in WorkerType
      /\ Returned(c)[model[c]].policy = workers[model[c]].policy
      /\ \A k \in Models \ {model[c]} : Returned(c)[k] = workers[k]
  BY <1>2, <1>3 DEF Returned, WorkerType, Covered, TypeOK, PoolType
<1>5. GoneFrom(X)
  BY <1>1, <1>2, <1>4, ConstantFacts DEF GoneFrom, Unleased, Resident
<1> QED
  BY <1>1, <1>5, GoneReservations DEF Unleased

\* Every step keeps the totals exact.
LEMMA StepReservations ==
  ASSUME Covered, PoolStep, ReservationAccounting
  PROVE  ReservationAccounting'
<1>1. LoseStep => ReservationAccounting'
  BY DEF LoseStep, pool, ReservationAccounting, ram_reservation, vram_reservation, Resident
<1> QED
  BY <1>1, QuietReservations, LeaseReservations, LoadReservations, ReleaseReservations
     DEF PoolStep

\* The running totals of RAM and of each device are at all times the sums over
\* the workers in memory, whichever path stopped the others.
THEOREM ReservationsAreAccounted == Spec => []ReservationAccounting
<1>1. Init => ReservationAccounting
  <2> SUFFICES ASSUME Init
               PROVE  ReservationAccounting
    OBVIOUS
  <2>1. \A m \in Models : ram_reservation[m] = 0 /\ \A d \in Devices : vram_reservation(d)[m] = 0
    BY DEF Init, Resident, ram_reservation, vram_reservation
  <2>2. Total(ram_reservation, Models, MaxReservation) = 0
    BY <2>1, ConstantFacts, TotalZero
  <2>3. \A d \in Devices : Total(vram_reservation(d), Models, MaxReservation) = 0
    BY <2>1, ConstantFacts, TotalZero
  <2> QED
    BY <2>2, <2>3 DEF Init, ReservationAccounting
<1>2. Leasing /\ ReservationAccounting /\ [Next]_vars => ReservationAccounting'
  BY LeasingCovers, NextStep, StepReservations
<1> QED
  BY <1>1, <1>2, LeasingInvariant, PTL DEF Spec

-----------------------------------------------------------------------------
(* The allocation                                                          *)

\* Giving workers up never raises a total.
LEMMA WithoutIsLess ==
  ASSUME PoolType, NEW X \in SUBSET Models
  PROVE  /\ RamWithout(X) <= reserved_ram_gib
         /\ \A d \in Devices : VramWithout(X)[d] <= reserved_vram_by_device[d]
<1>1. IsFiniteSet(X)
  BY ConstantFacts, FS_Subset
<1>2. \A f : Total(f, X, MaxReservation) \in Nat
  BY <1>1, ConstantFacts, TotalType
<1>3. RamWithout(X) <= reserved_ram_gib
  BY <1>2 DEF RamWithout, PoolType
<1>4. ASSUME NEW d \in Devices
      PROVE  VramWithout(X)[d] <= reserved_vram_by_device[d]
  <2>1. VramWithout(X)[d] =
          reserved_vram_by_device[d] - Total(vram_reservation(d), X, MaxReservation)
    BY DEF VramWithout
  <2>2. reserved_vram_by_device[d] \in Int /\ Total(vram_reservation(d), X, MaxReservation) \in Nat
    BY <1>2 DEF PoolType
  <2> QED
    BY <2>1, <2>2
<1> QED
  BY <1>3, <1>4

\* Fewer workers reserve no more.
LEMMA GoneWithinAllocation ==
  ASSUME PoolType, WithinAllocation, NEW X \in SUBSET Models,
         reserved_ram_gib' = RamWithout(X), reserved_vram_by_device' = VramWithout(X)
  PROVE  WithinAllocation'
<1>1. RamWithout(X) \in Int /\ reserved_ram_gib \in Int /\ MaxRam \in Int
  BY WithoutType, ConstantFacts DEF PoolType
<1>2. reserved_ram_gib' <= MaxRam
  BY <1>1, WithoutIsLess DEF WithinAllocation
<1>3. ASSUME NEW d \in Devices
      PROVE  reserved_vram_by_device'[d] <= MaxVram /\ reserved_vram_by_device'[d] <= Dedicated[d]
  <2>1. /\ VramWithout(X)[d] \in Int /\ reserved_vram_by_device[d] \in Int
        /\ MaxVram \in Int /\ Dedicated[d] \in Int
    BY WithoutType, ConstantFacts, ResidencyAssumption DEF PoolType
  <2>2. VramWithout(X)[d] <= reserved_vram_by_device[d]
    BY WithoutIsLess
  <2>3. reserved_vram_by_device[d] <= MaxVram /\ reserved_vram_by_device[d] <= Dedicated[d]
    BY DEF WithinAllocation
  <2> QED
    BY <2>1, <2>2, <2>3
<1> QED
  BY <1>2, <1>3 DEF WithinAllocation

\* The limits of a workload never exceed the machine's.
LEMMA LimitsBelowAllocation ==
  ASSUME NEW w \in Workloads, NEW d \in Devices
  PROVE  /\ ram_limit(w) \in Int /\ ram_limit(w) <= MaxRam
         /\ device_vram_limit(w, d) \in Int
         /\ device_vram_limit(w, d) <= MaxVram /\ device_vram_limit(w, d) <= Dedicated[d]
<1>1. Profile[w].reserve \in Nat /\ Dedicated[d] \in Nat
  BY ResidencyAssumption DEF ProfileType
<1>2. ram_limit(w) \in Int /\ ram_limit(w) <= MaxRam
  BY <1>1, ConstantFacts DEF ram_limit, Larger
<1>3. vram_limit(w) \in Int /\ vram_limit(w) <= MaxVram
  BY <1>1, ConstantFacts DEF vram_limit, Larger
<1> QED
  BY <1>1, <1>2, <1>3, ConstantFacts DEF device_vram_limit, Smaller

\* has_capacity keeps a load within the allocation.
LEMMA LoadWithinAllocation ==
  ASSUME Covered, WithinAllocation, LoadStep
  PROVE  WithinAllocation'
<1>0. PoolType
  BY DEF Covered, TypeOK
<1>1. PICK c \in Threads, X \in SUBSET Models :
        /\ Granting(c, X)
        /\ has_capacity(WorkloadOf(c), PolicyOf(c), X)
        /\ EraseAndLoad(X, model[c], PolicyOf(c))
  BY DEF LoadStep
<1>2. PICK p \in PolicyType : p = PolicyOf(c)
  BY <1>1 DEF Granting
<1>3. PICK w \in Workloads : w = WorkloadOf(c)
  BY <1>1 DEF Granting
<1>4. /\ p.device \in Devices /\ p.ram \in Nat /\ p.vram \in Nat
  BY ConstantFacts DEF PolicyType
<1>5. /\ RamWithout(X) + p.ram <= ram_limit(w)
      /\ p.vram = 0 \/ VramWithout(X)[p.device] + p.vram <= device_vram_limit(w, p.device)
  BY <1>1, <1>2, <1>3 DEF has_capacity, fits_resources, fits_device_reservation
<1>6. /\ RamWithout(X) \in Int /\ VramWithout(X) \in [Devices -> Int]
  BY <1>0, WithoutType
<1>7. reserved_ram_gib' <= MaxRam
  <2>1. reserved_ram_gib' = RamWithout(X) + p.ram
    BY <1>1, <1>2 DEF EraseAndLoad
  <2> QED
    BY <1>3, <1>4, <1>5, <1>6, <2>1, LimitsBelowAllocation, ConstantFacts
<1>8. ASSUME NEW d \in Devices
      PROVE  reserved_vram_by_device'[d] <= MaxVram /\ reserved_vram_by_device'[d] <= Dedicated[d]
  <2>1. reserved_vram_by_device' = [VramWithout(X) EXCEPT ![p.device] = @ + p.vram]
    BY <1>1, <1>2 DEF EraseAndLoad, Charge
  <2>2. /\ VramWithout(X)[d] <= MaxVram /\ VramWithout(X)[d] <= Dedicated[d]
        /\ MaxVram \in Int /\ Dedicated[d] \in Int
    <3>1. VramWithout(X)[d] <= reserved_vram_by_device[d]
      BY <1>0, WithoutIsLess
    <3>2. reserved_vram_by_device[d] <= MaxVram /\ reserved_vram_by_device[d] <= Dedicated[d]
      BY DEF WithinAllocation
    <3>3. MaxVram \in Int /\ Dedicated[d] \in Int /\ reserved_vram_by_device[d] \in Int
      BY <1>0, ConstantFacts, ResidencyAssumption DEF PoolType
    <3> QED
      BY <1>6, <3>1, <3>2, <3>3
  <2>3. CASE d # p.device \/ p.vram = 0
    <3>1. reserved_vram_by_device'[d] = VramWithout(X)[d]
      BY <1>4, <1>6, <2>1, <2>3
    <3> QED
      BY <2>2, <3>1
  <2>4. CASE d = p.device /\ p.vram # 0
    <3>1. reserved_vram_by_device'[d] = VramWithout(X)[d] + p.vram
      BY <1>4, <1>6, <2>1, <2>4
    <3>2. VramWithout(X)[d] + p.vram <= device_vram_limit(w, d)
      BY <1>5, <2>4
    <3>3. /\ device_vram_limit(w, d) \in Int
          /\ device_vram_limit(w, d) <= MaxVram /\ device_vram_limit(w, d) <= Dedicated[d]
      BY LimitsBelowAllocation
    <3>4. VramWithout(X)[d] + p.vram \in Int
      BY <1>4, <1>6
    <3> QED
      BY <2>2, <3>1, <3>2, <3>3, <3>4
  <2> QED
    BY <2>3, <2>4
<1> QED
  BY <1>7, <1>8 DEF WithinAllocation

\* Every step stays within the allocation.
LEMMA StepWithinAllocation ==
  ASSUME Covered, WithinAllocation, PoolStep
  PROVE  WithinAllocation'
<1>0. PoolType
  BY DEF Covered, TypeOK
<1>1. CASE UNCHANGED pool
  BY <1>1 DEF pool, WithinAllocation
<1>2. CASE QuietStep
  BY <1>0, <1>1, <1>2, GoneWithinAllocation DEF QuietStep, Erase
<1>3. CASE LoseStep
  BY <1>1, <1>3 DEF LoseStep
<1>4. CASE LeaseStep
  BY <1>0, <1>4, GoneWithinAllocation DEF LeaseStep, EraseAndLease
<1>5. CASE LoadStep
  BY <1>5, LoadWithinAllocation
<1>6. CASE ReleaseStep
  BY <1>0, <1>6, GoneWithinAllocation DEF ReleaseStep, Unleased
<1> QED
  BY <1>2, <1>3, <1>4, <1>5, <1>6 DEF PoolStep

\* Whatever workloads with whatever limits are asked for in whatever order, no
\* more is ever reserved than RAM, all accelerators, or one device hold.
THEOREM AllocationIsRespected == Spec => []WithinAllocation
<1>1. Init => WithinAllocation
  BY ConstantFacts, ResidencyAssumption DEF Init, WithinAllocation
<1>2. Leasing /\ WithinAllocation /\ [Next]_vars => WithinAllocation'
  BY LeasingCovers, NextStep, StepWithinAllocation
<1> QED
  BY <1>1, <1>2, LeasingInvariant, PTL DEF Spec

\* A shared worker never serves more requests than max_concurrent_requests.
THEOREM ConcurrencyIsRespected == Spec => []ConcurrencyRespected
<1>1. Init => ConcurrencyRespected
  BY DEF Init, ConcurrencyRespected, Resident
<1>2. ASSUME Covered, PoolStep, ConcurrencyRespected
      PROVE  ConcurrencyRespected'
  <2> DEFINE Limited(v) == v = None \/ v.in_flight <= v.policy.limit
  <2>1. \A m \in Models : Limited(workers[m])
    BY <1>2 DEF ConcurrencyRespected, Resident
  <2> SUFFICES ASSUME NEW m \in Models
               PROVE  Limited(workers'[m])
    BY DEF ConcurrencyRespected, Resident
  <2>2. CASE workers'[m] = workers[m] \/ workers'[m] = None
    BY <2>1, <2>2
  <2>3. CASE QuietStep \/ LoseStep
    BY <1>2, <2>2, <2>3, QuietWorkers DEF LoseStep, pool, Covered, TypeOK
  <2>4. CASE LeaseStep
    <3>1. PICK c \in Threads, X \in SUBSET Models :
            /\ Granting(c, X) /\ Reusable(c) /\ ~MustWait(c)
            /\ EraseAndLease(X, model[c], PolicyOf(c))
      BY <2>4 DEF LeaseStep
    <3>2. CASE m # model[c]
      BY <2>2, <3>1, <3>2 DEF EraseAndLease
    <3>3. CASE m = model[c]
      <4>1. /\ workers'[m].in_flight = workers[m].in_flight + 1
            /\ workers'[m].policy = workers[m].policy
        BY <1>2, <3>1, <3>3, LeasedAfterGrant
      <4>2. /\ Resident(m) /\ workers[m].policy.limit = PolicyOf(c).limit
            /\ ~(workers[m].in_flight >= PolicyOf(c).limit)
        BY <3>1, <3>3 DEF Reusable, MustWait, compatible_worker
      <4>3. workers[m].in_flight \in Int /\ workers[m].policy.limit \in Nat
        BY <1>2, <4>2, ResidentWorker DEF Covered, TypeOK, PolicyType
      <4> QED
        BY <4>1, <4>2, <4>3
    <3> QED
      BY <3>2, <3>3
  <2>5. CASE LoadStep
    <3>1. PICK c \in Threads, X \in SUBSET Models :
            Granting(c, X) /\ EraseAndLoad(X, model[c], PolicyOf(c))
      BY <2>5 DEF LoadStep
    <3>2. CASE m # model[c]
      BY <2>2, <3>1, <3>2 DEF EraseAndLoad
    <3>3. CASE m = model[c]
      <4>1. workers'[m] = [policy |-> PolicyOf(c), retention |-> PolicyOf(c).priority,
                           in_flight |-> 1]
        BY <3>1, <3>3 DEF EraseAndLoad
      <4>2. PolicyOf(c).limit \in Nat \ {0}
        BY <3>1 DEF Granting, PolicyType
      <4> QED
        BY <4>1, <4>2
    <3> QED
      BY <3>2, <3>3
  <2>6. CASE ReleaseStep
    <3>1. PICK c \in Threads, X \in SUBSET Models : pc[c] = "leased" /\ Unleased(c, X)
      BY <2>6 DEF ReleaseStep
    <3>2. CASE m # model[c] \/ m \in X
      BY <1>2, <2>2, <3>1, <3>2 DEF Unleased, Returned, Covered, TypeOK, PoolType
    <3>3. CASE m = model[c] /\ m \notin X
      <4>1. Resident(m)
        BY <1>2, <3>1, <3>3, LeasedIsBusy DEF Covered, Busy
      <4>2. workers[m] \in WorkerType /\ workers[m].policy.limit \in Nat
        BY <1>2, <4>1, ResidentWorker DEF Covered, TypeOK, PolicyType
      <4>3. workers'[m] = [workers[m] EXCEPT !.in_flight = @ - 1]
        BY <1>2, <3>1, <3>3 DEF Unleased, Returned, Covered, TypeOK, PoolType
      <4>4. /\ workers'[m].in_flight = workers[m].in_flight - 1
            /\ workers'[m].policy = workers[m].policy
            /\ workers[m].in_flight \in Int
        BY <4>2, <4>3 DEF WorkerType
      <4>5. workers[m].in_flight <= workers[m].policy.limit
        BY <2>1, <4>1 DEF Resident
      <4> QED
        BY <4>2, <4>4, <4>5
    <3> QED
      BY <3>2, <3>3
  <2> QED
    BY <1>2, <2>3, <2>4, <2>5, <2>6 DEF PoolStep
<1>3. Leasing /\ ConcurrencyRespected /\ [Next]_vars => ConcurrencyRespected'
  BY <1>2, LeasingCovers, NextStep
<1> QED
  BY <1>1, <1>3, LeasingInvariant, PTL DEF Spec

-----------------------------------------------------------------------------
(* The configuration a request holds                                       *)

\* Nobody else binds or unbinds a thread that holds a lease after the step.
BindingKept == \A c \in Threads : pc'[c] = "leased" => workload'[c] = workload[c]

\* An attempt that ends with a lease leaves the binding; any other refuses it.
LEMMA AttemptKeepsBinding ==
  ASSUME Covered, NEW c \in Threads, Attempt(c)
  PROVE  BindingKept
<1>1. Refuse(c) => BindingKept
  BY DEF Refuse, Leave, BindingKept, Covered, TypeOK, ThreadType
<1>2. Granted(c) \/ Enqueue(c) => BindingKept
  BY DEF Granted, Enqueue, BindingKept
<1> QED
  BY <1>1, <1>2 DEF Attempt, RefusePaused, RefuseUnselected, RefuseOversized, Reuse, Queue,
                    NoRoom, Load, LoadFails

LEMMA StepKeepsBinding ==
  ASSUME Covered, [Next]_vars
  PROVE  BindingKept
<1>1. CASE UNCHANGED workload
  BY <1>1 DEF BindingKept
<1>2. ASSUME NEW c \in Clients, NEW w \in Workloads \cup {None}, NEW m \in Models, Bind(c, w, m)
      PROVE  BindingKept
  BY <1>2 DEF Bind, BindingKept, Covered, TypeOK, ThreadType
<1>3. ASSUME NEW c \in Threads, QueueTimeout(c) \/ Release(c) \/ LoseLease(c)
      PROVE  BindingKept
  BY <1>3 DEF QueueTimeout, Refuse, Leave, Release, LoseLease, Notified, BindingKept, Covered,
              TypeOK, ThreadType
<1>4. ASSUME NEW c \in Threads, SpuriousWakeup(c)
      PROVE  UNCHANGED workload
  BY <1>4 DEF SpuriousWakeup
<1>5. Prewarm => UNCHANGED workload
  BY DEF Prewarm, PrewarmVerified, PrewarmDone, PrewarmFailed, PrewarmSkip, PrewarmAcquire, thread
<1>6. ASSUME NEW o \in Operators, Operate(o)
      PROVE  UNCHANGED workload
  BY <1>6 DEF Operate, PauseInference, PauseWakes, PauseTimesOut, ResumeInference,
              ReloadAfterMaintenance, thread
<1>7. ASSUME NEW X \in SUBSET Models, Sweep(X)
      PROVE  UNCHANGED workload
  BY <1>7 DEF Sweep, thread
<1>8. ASSUME NEW s, SetStrategy(s)
      PROVE  UNCHANGED workload
  BY <1>8 DEF SetStrategy
<1>9. ASSUME NEW w \in Workloads, SwapProfile(w)
      PROVE  UNCHANGED workload
  BY <1>9 DEF SwapProfile, thread
<1>10. ASSUME NEW apps \in AppSets, AppsChange(apps)
       PROVE  UNCHANGED workload
  BY <1>10 DEF AppsChange, thread
<1>11. UNCHANGED vars => UNCHANGED workload
  BY DEF vars, thread
<1> QED
  BY <1>1, <1>2, <1>3, <1>4, <1>5, <1>6, <1>7, <1>8, <1>9, <1>10, <1>11,
     AttemptKeepsBinding, ConstantFacts DEF Next

\* What a thread holds before and after a step is the same worker, configured
\* as it was: evictions and replacements are of idle workers.
LEMMA HeldPolicyKept ==
  ASSUME Covered, Covered', PoolStep, NEW c \in Threads,
         pc[c] = "leased", pc'[c] = "leased", model'[c] = model[c]
  PROVE  workers'[model[c]].policy = workers[model[c]].policy
<1> DEFINE m == model[c]
<1>1. m \in Models /\ Busy(m) /\ ~Idle(m)
  BY LeasedIsBusy DEF Covered, Busy, Idle
<1>2. workers'[m] # None
  BY <1>1 DEF Covered, LeasesCovered, Resident, Holders
<1>3. CASE QuietStep \/ LoseStep
  BY <1>1, <1>3, QuietWorkers DEF LoseStep, pool, Covered, TypeOK
<1>4. CASE LeaseStep
  <2>1. PICK b \in Threads, X \in SUBSET Models :
          Granting(b, X) /\ Reusable(b) /\ EraseAndLease(X, model[b], PolicyOf(b))
    BY <1>4 DEF LeaseStep
  <2>2. CASE m = model[b]
    BY <2>1, <2>2, LeasedAfterGrant
  <2>3. CASE m # model[b]
    BY <1>1, <2>1, <2>3 DEF Granting, EraseAndLease
  <2> QED
    BY <2>2, <2>3
<1>5. CASE LoadStep
  <2>1. PICK b \in Threads, X \in SUBSET Models :
          /\ Granting(b, X) /\ (model[b] \in X \/ ~Resident(model[b]))
          /\ EraseAndLoad(X, model[b], PolicyOf(b))
    BY <1>5 DEF LoadStep
  <2>2. m # model[b] /\ m \notin X
    BY <1>1, <2>1 DEF Granting, Busy
  <2> QED
    BY <1>1, <2>1, <2>2 DEF EraseAndLoad
<1>6. CASE ReleaseStep
  <2>1. PICK b \in Threads, X \in SUBSET Models : pc[b] = "leased" /\ Unleased(b, X)
    BY <1>6 DEF ReleaseStep
  <2>2. workers'[m] = Returned(b)[m]
    BY <1>1, <1>2, <2>1 DEF Unleased
  <2>3. workers[m] \in WorkerType
    BY <1>1, ResidentWorker DEF Covered, TypeOK, Busy
  <2>4. \/ workers'[m] = workers[m]
        \/ workers'[m] = [workers[m] EXCEPT !.in_flight = @ - 1]
    BY <1>1, <2>2 DEF Returned, Covered, TypeOK, PoolType
  <2> QED
    BY <2>3, <2>4 DEF WorkerType
<1> QED
  BY <1>3, <1>4, <1>5, <1>6 DEF PoolStep

\* A thread that gets a lease gets a worker configured as its workload says.
LEMMA GrantedAsConfigured ==
  ASSUME Covered, PoolStep, NEW c \in Threads, LeaseOf'[c] \notin {None, LeaseOf[c]}
  PROVE  /\ LeaseOf'[c] = model[c] /\ pc[c] # "idle"
         /\ compatible_worker(workers'[model[c]].policy, PolicyOf(c))
<1>1. CASE QuietStep \/ LoseStep \/ ReleaseStep
  BY <1>1 DEF QuietStep, LoseStep, ReleaseStep, LeaseOf
<1>2. CASE LeaseStep
  <2>1. PICK b \in Threads, X \in SUBSET Models :
          Granting(b, X) /\ Reusable(b) /\ EraseAndLease(X, model[b], PolicyOf(b))
    BY <1>2 DEF LeaseStep
  <2>2. b = c
    BY <2>1 DEF Granting, LeaseOf
  <2>3. workers'[model[c]].policy = workers[model[c]].policy
    BY <2>1, <2>2, LeasedAfterGrant
  <2> QED
    BY <2>1, <2>2, <2>3 DEF Granting, Attempting, Reusable, LeaseOf
<1>3. CASE LoadStep
  <2>1. PICK b \in Threads, X \in SUBSET Models :
          Granting(b, X) /\ EraseAndLoad(X, model[b], PolicyOf(b))
    BY <1>3 DEF LoadStep
  <2>2. b = c
    BY <2>1 DEF Granting, LeaseOf
  <2>3. workers'[model[c]].policy = PolicyOf(c)
    BY <2>1, <2>2 DEF Granting, EraseAndLoad
  <2>4. PolicyOf(c) # None
    BY <2>1, <2>2, ConstantFacts DEF Granting
  <2> QED
    BY <2>1, <2>2, <2>3, <2>4 DEF Granting, Attempting, LeaseOf, compatible_worker
<1> QED
  BY <1>1, <1>2, <1>3 DEF PoolStep

\* The worker that a request talks to is configured as its workload selects,
\* however many workloads share, replace and evict workers of the same model
\* (compatible_worker and the replacement of idle workers in acquire_locked).
THEOREM LeasesAreAsConfigured == Spec => []LeasedAsConfigured
<1>1. Init => LeasedAsConfigured
  BY ConstantFacts DEF Init, LeasedAsConfigured
<1>2. Leasing' => Covered'
  BY LeasingCovers, PTL
<1>3. ASSUME Leasing, LeasedAsConfigured, [Next]_vars
      PROVE  LeasedAsConfigured'
  <2>1. Covered /\ Covered' /\ PoolStep /\ BindingKept
    BY <1>2, <1>3, LeasingCovers, NextLeasing, NextStep, StepKeepsBinding
  <2> SUFFICES ASSUME NEW c \in Clients, pc'[c] = "leased"
               PROVE  compatible_worker(workers'[model'[c]].policy,
                                        Policy[workload'[c]][model'[c]])
    BY DEF LeasedAsConfigured, compatible_worker
  <2>2. c \in Threads /\ workload'[c] = workload[c] /\ LeaseOf'[c] = model'[c]
    BY <2>1, ConstantFacts DEF BindingKept, LeaseOf
  <2>3. model'[c] \in Models /\ model'[c] # None
    BY <2>1, <2>2, ConstantFacts DEF Covered, ThreadsBound
  <2>4. CASE LeaseOf'[c] = LeaseOf[c]
    <3>1. pc[c] = "leased" /\ model'[c] = model[c]
      BY <2>2, <2>3, <2>4 DEF LeaseOf
    <3>2. workers'[model[c]].policy = workers[model[c]].policy
      BY <2>1, <2>2, <3>1, HeldPolicyKept
    <3> QED
      BY <1>3, <2>2, <3>1, <3>2 DEF LeasedAsConfigured
  <2>5. CASE LeaseOf'[c] # LeaseOf[c]
    <3>1. /\ model'[c] = model[c] /\ pc[c] # "idle"
          /\ compatible_worker(workers'[model[c]].policy, PolicyOf(c))
      BY <2>1, <2>2, <2>3, <2>5, GrantedAsConfigured
    <3>2. workload[c] \in Workloads /\ c # Prewarmer
      BY <2>1, <2>2, <3>1, ConstantFacts DEF Covered, ThreadsBound
    <3>3. WorkloadOf(c) = workload[c]
      BY <3>2, ConstantFacts DEF WorkloadOf
    <3> QED
      BY <2>2, <3>1, <3>3 DEF PolicyOf
  <2> QED
    BY <2>4, <2>5
<1> QED
  BY <1>1, <1>3, LeasingInvariant, PTL DEF Spec

-----------------------------------------------------------------------------
(* Wake-ups                                                                *)

Waiting ==
  (\E c \in Threads : pc[c] = "asleep") \/ (\E o \in Operators : opc[o] = "draining")

\* A step that leaves every lease out, and after which somebody sleeps only if
\* somebody slept before it or some worker is busy.
KeepsWaker ==
  /\ \A c \in Threads : pc[c] = "leased" => pc'[c] = "leased"
  /\ Waiting' => Waiting \/ \E k \in Models : Busy(k)

\* Whoever waits in acquire_queued_locked waits for a busy worker.
LEMMA AttemptKeepsWaker ==
  ASSUME Covered, NEW c \in Threads, Attempt(c)
  PROVE  KeepsWaker
<1>1. Attempting(c) /\ model[c] \in Models /\ pc[c] # "leased"
  BY AttemptingFacts DEF Attempt, RefusePaused, RefuseUnselected, RefuseOversized, Reuse,
                         Queue, NoRoom, Load, LoadFails, NeedsLoad, Admitted
<1>2. Refuse(c) \/ Granted(c) => KeepsWaker
  BY <1>1 DEF Refuse, Granted, Leave, KeepsWaker, Waiting, Covered, TypeOK, ThreadType
<1>3. Enqueue(c) /\ (\E k \in Models : Busy(k)) => KeepsWaker
  BY <1>1 DEF Enqueue, KeepsWaker, Waiting, Covered, TypeOK, ThreadType
<1>4. ASSUME NEW apps, Queue(c, apps)
      PROVE  KeepsWaker
  <2>1. PolicyOf(c) \in PolicyType
    BY <1>4, AdmittedFacts DEF Queue
  <2>2. ASSUME Reusable(c), workers[model[c]].in_flight >= PolicyOf(c).limit
        PROVE  Busy(model[c])
    BY <1>1, <2>1, <2>2, ResidentWorker
       DEF Reusable, Busy, PolicyType, Covered, TypeOK
  <2>3. \E k \in Models : Busy(k)
    BY <1>1, <1>4, <2>2 DEF Queue, MustWait
  <2> QED
    BY <1>3, <1>4, <2>3 DEF Queue
<1>5. ASSUME NEW apps, NoRoom(c, apps)
      PROVE  KeepsWaker
  BY <1>2, <1>3, <1>5 DEF NoRoom
<1> QED
  BY <1>2, <1>4, <1>5 DEF Attempt, RefusePaused, RefuseUnselected, RefuseOversized, Reuse,
                          Load, LoadFails

\* Every step keeps the waker or wakes everybody.
LEMMA NextKeepsWaker ==
  ASSUME Covered, [Next]_vars, LeakyRoutes = {}
  PROVE  KeepsWaker \/ ~Waiting'
<1>1. CASE UNCHANGED <<pc, opc>>
  BY <1>1 DEF KeepsWaker, Waiting
<1>2. ASSUME NEW c \in Clients, NEW w \in Workloads \cup {None}, NEW m \in Models, Bind(c, w, m)
      PROVE  KeepsWaker
  BY <1>2 DEF Bind, KeepsWaker, Waiting, Covered, TypeOK, ThreadType
<1>3. ASSUME NEW c \in Threads, QueueTimeout(c) \/ SpuriousWakeup(c)
      PROVE  KeepsWaker
  BY <1>3 DEF QueueTimeout, SpuriousWakeup, Refuse, Leave, KeepsWaker, Waiting, Covered,
              TypeOK, ThreadType
<1>4. ASSUME NEW c \in Threads, Release(c)
      PROVE  ~Waiting'
  BY <1>4 DEF Release, Notified, OperatorsNotified, Waiting, Covered, TypeOK, ThreadType
<1>5. ASSUME NEW c \in Clients
      PROVE  ~LoseLease(c)
  BY <1>5 DEF LoseLease
<1>6. Prewarm => KeepsWaker
  BY DEF Prewarm, PrewarmVerified, PrewarmDone, PrewarmFailed, PrewarmSkip, PrewarmAcquire,
         PrewarmNext, thread, KeepsWaker, Waiting, Covered, TypeOK, ThreadType
<1>7. ASSUME NEW o \in Operators, Operate(o)
      PROVE  KeepsWaker \/ ~Waiting'
  <2>1. opc \in [Operators -> {"idle", "draining", "notified", "holding"}]
    BY DEF Covered, TypeOK, ModeType
  <2>2. PauseInference(o) \/ PauseWakes(o) \/ PauseTimesOut(o) => KeepsWaker
    BY <2>1 DEF PauseInference, PauseWakes, PauseTimesOut, PauseReturns, Drained, thread,
                KeepsWaker, Waiting
  <2>3. ResumeInference(o) => ~Waiting'
    BY <2>1 DEF ResumeInference, Notified, OperatorsNotified, Waiting
  <2>4. ReloadAfterMaintenance(o) => UNCHANGED <<pc, opc>>
    BY DEF ReloadAfterMaintenance, thread
  <2> QED
    BY <1>1, <1>7, <2>2, <2>3, <2>4 DEF Operate
<1>8. ASSUME NEW s, SetStrategy(s)
      PROVE  ~Waiting'
  BY <1>8 DEF SetStrategy, Notified, OperatorsNotified, Waiting
<1>9. ASSUME \/ \E X \in SUBSET Models : Sweep(X)
             \/ \E w \in Workloads : SwapProfile(w)
             \/ \E apps \in AppSets : AppsChange(apps)
             \/ UNCHANGED vars
      PROVE  UNCHANGED <<pc, opc>>
  BY <1>9 DEF Sweep, SwapProfile, AppsChange, vars, thread
<1> QED
  BY <1>1, <1>2, <1>3, <1>4, <1>5, <1>6, <1>7, <1>8, <1>9, AttemptKeepsWaker DEF Next

\* No wake-up is lost: while a request or a pause waits on transition_cv_, some
\* lease is out whose release notifies it.  A route that loses its lease would
\* leave it asleep for ever, so there must be none.
THEOREM WakersAreLeft ==
  ASSUME LeakyRoutes = {}
  PROVE  Spec => []SleeperHasWaker
<1>1. Init => SleeperHasWaker
  BY DEF Init, SleeperHasWaker
<1>2. ASSUME Leasing, SleeperHasWaker, [Next]_vars
      PROVE  SleeperHasWaker'
  <2>1. Covered /\ LeasesCounted
    BY <1>2, LeasingCovers, CountedCovers DEF Leasing
  <2>2. ASSUME NEW k \in Models, Busy(k)
        PROVE  \E c \in Threads : pc[c] = "leased"
    <3>1. Cardinality(Holders(k)) # 0
      BY <2>1, <2>2 DEF LeasesCounted, Busy
    <3>2. Holders(k) # {}
      BY <3>1, FS_EmptySet
    <3> QED
      BY <3>2 DEF Holders
  <2> QED
    BY <1>2, <2>1, <2>2, NextKeepsWaker DEF KeepsWaker, Waiting, SleeperHasWaker
<1> QED
  BY <1>1, <1>2, LeasingInvariant, PTL DEF Spec

-----------------------------------------------------------------------------
(* A paused server                                                         *)

\* A pause is under way, or has ended with an empty server.
Paused ==
  /\ \A o \in Operators : opc[o] # "idle" => paused
  /\ HoldingIsDrained

\* Nobody gets a lease while inference is paused.
LEMMA PausedGrantsNothing ==
  ASSUME Covered, [Next]_vars, paused
  PROVE  \A c \in Threads : pc'[c] = "leased" => pc[c] = "leased"
<1> DEFINE Kept == \A c \in Threads : pc'[c] = "leased" => pc[c] = "leased"
<1>1. UNCHANGED pc => Kept
  OBVIOUS
<1>2. ASSUME NEW c \in Threads, Attempt(c)
      PROVE  Kept
  <2>1. RefusePaused(c)
    BY <1>2 DEF Attempt, RefuseUnselected, RefuseOversized, Reuse, Queue, NoRoom, Load,
                LoadFails, NeedsLoad, Admitted
  <2> QED
    BY <2>1 DEF RefusePaused, Refuse, Leave, Covered, TypeOK, ThreadType
<1>3. ASSUME NEW c \in Threads,
             QueueTimeout(c) \/ SpuriousWakeup(c) \/ Release(c) \/ LoseLease(c)
      PROVE  Kept
  BY <1>3 DEF QueueTimeout, SpuriousWakeup, Refuse, Leave, Release, LoseLease, Notified,
              Covered, TypeOK, ThreadType
<1>4. ASSUME NEW c \in Clients, NEW w, NEW m, Bind(c, w, m)
      PROVE  Kept
  BY <1>4 DEF Bind, Covered, TypeOK, ThreadType
<1>5. Prewarm => Kept
  BY DEF Prewarm, PrewarmVerified, PrewarmDone, PrewarmFailed, PrewarmSkip, PrewarmAcquire,
         thread, Covered, TypeOK, ThreadType
<1>6. ASSUME NEW o \in Operators, Operate(o)
      PROVE  Kept
  BY <1>6 DEF Operate, PauseInference, PauseWakes, PauseTimesOut, ResumeInference,
              ReloadAfterMaintenance, Notified, thread
<1>7. ASSUME NEW s, SetStrategy(s)
      PROVE  Kept
  BY <1>7 DEF SetStrategy, Notified
<1>8. ASSUME \/ \E X \in SUBSET Models : Sweep(X)
             \/ \E w \in Workloads : SwapProfile(w)
             \/ \E apps \in AppSets : AppsChange(apps)
             \/ UNCHANGED vars
      PROVE  UNCHANGED pc
  BY <1>8 DEF Sweep, SwapProfile, AppsChange, vars, thread
<1> HIDE DEF Kept
<1>9. Kept
  BY <1>1, <1>2, <1>3, <1>4, <1>5, <1>6, <1>7, <1>8, ConstantFacts DEF Next
<1> QED
  BY <1>9 DEF Kept

\* So an empty server that is paused stays empty.
LEMMA PausedStaysEmpty ==
  ASSUME Covered, [Next]_vars, paused, \A m \in Models : ~Resident(m)
  PROVE  \A m \in Models : workers'[m] = None
<1>1. PoolStep /\ \A c \in Threads : LeaseOf[c] = None => LeaseOf'[c] = None
  <2>1. PoolStep
    BY NextStep
  <2>2. ThreadsBound
    BY DEF Covered
  <2> QED
    BY <2>1, <2>2, PausedGrantsNothing, ConstantFacts DEF LeaseOf, ThreadsBound
<1>2. \A c \in Threads : LeaseOf[c] = None
  BY LeasedIsBusy DEF Covered, LeaseOf, Busy
<1>3. CASE QuietStep \/ LoseStep
  BY <1>3, QuietWorkers DEF LoseStep, pool, Resident, Covered, TypeOK
<1>4. ~LeaseStep
  BY DEF LeaseStep, Granting, Reusable
<1>5. ~LoadStep
  BY <1>1, <1>2, ConstantFacts DEF LoadStep, Granting, LeaseOf
<1>6. ~ReleaseStep
  BY LeasedIsBusy DEF ReleaseStep, Covered, Busy
<1> QED
  BY <1>1, <1>3, <1>4, <1>5, <1>6 DEF PoolStep

\* What operators do to one another's pauses.
LEMMA OperatorsKeepPaused ==
  ASSUME Covered, Paused, NEW o \in Operators, Operate(o), \A p \in Operators : p = o
  PROVE  Paused'
<1>1. opc \in [Operators -> {"idle", "draining", "notified", "holding"}]
  BY DEF Covered, TypeOK, ModeType
<1>2. CASE PauseInference(o) \/ PauseWakes(o)
  BY <1>1, <1>2 DEF PauseInference, PauseWakes, PauseReturns, Erase, Paused,
                    HoldingIsDrained, Resident
<1>3. CASE PauseTimesOut(o) \/ ResumeInference(o)
  BY <1>1, <1>3 DEF PauseTimesOut, ResumeInference, OperatorsNotified, Paused, HoldingIsDrained
<1>4. CASE ReloadAfterMaintenance(o)
  BY <1>4 DEF ReloadAfterMaintenance, pool, Paused, HoldingIsDrained, Resident
<1> QED
  BY <1>2, <1>3, <1>4 DEF Operate

\* The other actions leave paused_ alone, and operators at most awake.
LEMMA OthersKeepPause ==
  ASSUME Covered, [Next]_vars
  PROVE  \/ \E o \in Operators : Operate(o)
         \/ /\ paused' = paused
            /\ opc' = opc \/ opc' = OperatorsNotified
<1> DEFINE Alone == paused' = paused /\ (opc' = opc \/ opc' = OperatorsNotified)
<1>1. ASSUME NEW c \in Threads, Attempt(c)
      PROVE  Alone
  BY <1>1 DEF Attempt, RefusePaused, RefuseUnselected, RefuseOversized, Reuse, Queue, NoRoom,
              Load, LoadFails, NeedsLoad, Refuse, Granted, Enqueue, Leave
<1>2. ASSUME NEW c \in Threads,
             QueueTimeout(c) \/ SpuriousWakeup(c) \/ Release(c) \/ LoseLease(c)
      PROVE  Alone
  BY <1>2 DEF QueueTimeout, SpuriousWakeup, Refuse, Leave, Release, LoseLease
<1>3. Prewarm => Alone
  BY DEF Prewarm, PrewarmVerified, PrewarmDone, PrewarmFailed, PrewarmSkip, PrewarmAcquire
<1>4. ASSUME \/ \E c \in Clients, w \in Workloads \cup {None}, m \in Models : Bind(c, w, m)
             \/ \E X \in SUBSET Models : Sweep(X)
             \/ \E s \in Strategies \cup {"unknown"} : SetStrategy(s)
             \/ \E w \in Workloads : SwapProfile(w)
             \/ \E apps \in AppSets : AppsChange(apps)
             \/ UNCHANGED vars
      PROVE  Alone
  BY <1>4 DEF Bind, Sweep, SetStrategy, SwapProfile, AppsChange, vars
<1> HIDE DEF Alone
<1>5. Alone \/ \E o \in Operators : Operate(o)
  BY <1>1, <1>2, <1>3, <1>4, ConstantFacts DEF Next
<1> QED
  BY <1>5 DEF Alone

\* Whoever paused inference, alone, and has not resumed it holds a server that
\* serves nothing and has no engine in memory: maintenance can begin.
THEOREM HoldersAreDrained ==
  ASSUME \A o, p \in Operators : o = p
  PROVE  Spec => []HoldingIsDrained
<1>1. Init => Paused
  BY DEF Init, Paused, HoldingIsDrained
<1>2. ASSUME Leasing, Paused, [Next]_vars
      PROVE  Paused'
  <2>1. Covered
    BY <1>2, LeasingCovers
  <2>2. ASSUME NEW o \in Operators, Operate(o)
        PROVE  Paused'
    BY <1>2, <2>1, <2>2, OperatorsKeepPaused
  <2>3. CASE paused' = paused /\ (opc' = opc \/ opc' = OperatorsNotified)
    <3>1. \A o \in Operators : /\ opc'[o] # "idle" => opc[o] # "idle"
                               /\ opc'[o] = "holding" => opc[o] = "holding"
      BY <2>1, <2>3 DEF OperatorsNotified, Covered, TypeOK, ModeType
    <3>2. ASSUME NEW o \in Operators, opc[o] = "holding"
          PROVE  \A m \in Models : workers'[m] = None
      BY <1>2, <2>1, <3>2, PausedStaysEmpty DEF Paused, HoldingIsDrained
    <3> QED
      BY <1>2, <2>3, <3>1, <3>2 DEF Paused, HoldingIsDrained, Resident
  <2> QED
    BY <1>2, <2>1, <2>2, <2>3, OthersKeepPause
<1>3. Paused => HoldingIsDrained
  BY DEF Paused
<1> QED
  BY <1>1, <1>2, <1>3, LeasingInvariant, PTL DEF Spec

-----------------------------------------------------------------------------
(* The single strategy                                                     *)

\* Only an attempt of its own gives a thread a lease.
LEMMA GrantIsAttempt ==
  ASSUME Covered, [Next]_vars, NEW c \in Threads, pc[c] # "leased", pc'[c] = "leased"
  PROVE  \E apps \in AppSets : Reuse(c, apps) \/ \E E \in SUBSET Models : Load(c, apps, E)
<1> DEFINE Goal ==
      \E apps \in AppSets : Reuse(c, apps) \/ \E E \in SUBSET Models : Load(c, apps, E)
<1>1. ASSUME NEW b \in Threads, Attempt(b)
      PROVE  Goal
  <2>1. ~(Refuse(b) \/ Enqueue(b))
    BY DEF Refuse, Enqueue, Leave, Covered, TypeOK, ThreadType
  <2>2. \E apps \in AppSets : Reuse(b, apps) \/ \E E \in SUBSET Models : Load(b, apps, E)
    BY <1>1, <2>1 DEF Attempt, RefusePaused, RefuseUnselected, RefuseOversized, Queue,
                      NoRoom, LoadFails
  <2>3. Granted(b)
    BY <2>2 DEF Reuse, Load
  <2>4. b = c
    BY <2>3 DEF Granted, Leave, Covered, TypeOK, ThreadType
  <2> QED
    BY <2>2, <2>4
<1>2. ASSUME NEW b \in Threads,
             QueueTimeout(b) \/ SpuriousWakeup(b) \/ Release(b) \/ LoseLease(b)
      PROVE  FALSE
  BY <1>2 DEF QueueTimeout, SpuriousWakeup, Refuse, Leave, Release, LoseLease, Notified,
              Covered, TypeOK, ThreadType
<1>3. ASSUME NEW b \in Clients, NEW w, NEW m, Bind(b, w, m)
      PROVE  FALSE
  BY <1>3 DEF Bind, Covered, TypeOK, ThreadType
<1>4. ~Prewarm
  BY DEF Prewarm, PrewarmVerified, PrewarmDone, PrewarmFailed, PrewarmSkip, PrewarmAcquire,
         thread, Covered, TypeOK, ThreadType
<1>5. ASSUME NEW o \in Operators, Operate(o)
      PROVE  FALSE
  BY <1>5 DEF Operate, PauseInference, PauseWakes, PauseTimesOut, ResumeInference,
              ReloadAfterMaintenance, Notified, thread
<1>6. ASSUME NEW s, SetStrategy(s)
      PROVE  FALSE
  BY <1>6 DEF SetStrategy, Notified
<1>7. ~(\/ \E X \in SUBSET Models : Sweep(X)
        \/ \E w \in Workloads : SwapProfile(w)
        \/ \E apps \in AppSets : AppsChange(apps)
        \/ UNCHANGED vars)
  BY DEF Sweep, SwapProfile, AppsChange, vars, thread
<1> HIDE DEF Goal
<1>8. Goal
  BY <1>1, <1>2, <1>3, <1>4, <1>5, <1>6, <1>7, ConstantFacts DEF Next
<1> QED
  BY <1>8 DEF Goal

\* Under the single strategy a request gets its worker alone: acquire_locked
\* waits for every busy worker and drops every idle one first.
THEOREM SingleIsExclusive == Spec => SingleExclusive
<1>1. ASSUME Leasing, [Next]_vars, NEW c \in Threads,
             strategy = "single", pc[c] # "leased", pc'[c] = "leased",
             NEW k \in Models \ {model[c]}
      PROVE  workers'[k] = None
  <2>0. Covered
    BY <1>1, LeasingCovers
  <2>1. PICK apps \in AppSets : Reuse(c, apps) \/ \E E \in SUBSET Models : Load(c, apps, E)
    BY <1>1, <2>0, GrantIsAttempt
  <2>2. ~Busy(k)
    BY <1>1, <2>1 DEF Reuse, Load, NeedsLoad, MustWait
  <2>3. Resident(k) => k \in Dropped(c, apps)
    <3>1. Resident(k) => workers[k].in_flight >= 0 /\ workers[k].in_flight \in Int
      BY <1>1, <2>0, CountedNat, ResidentWorker DEF Covered, TypeOK
    <3> QED
      BY <1>1, <2>2, <3>1 DEF Dropped, Reconciled, Idle, Busy
  <2> QED
    BY <1>1, <2>1, <2>3 DEF Reuse, Load, EraseAndLease, EraseAndLoad, Resident
<1>2. Leasing /\ [Next]_vars =>
        [\A c \in Threads :
           strategy = "single" /\ pc[c] # "leased" /\ pc'[c] = "leased"
             => \A k \in Models \ {model[c]} : workers'[k] = None]_vars
  BY <1>1
<1> QED
  BY <1>2, LeasingInvariant, PTL DEF Spec, SingleExclusive

-----------------------------------------------------------------------------
(* The balanced strategy                                                   *)

\* Of sets of subsets of a finite set, ordered by inclusion, one is least.
LEMMA SmallestSubset ==
  ASSUME NEW S, IsFiniteSet(S), NEW F, F \subseteq SUBSET S, F # {}
  PROVE  \E s \in F : \A t \in F : t \subseteq s => t = s
<1>1. IsWellFoundedOn(StrictSubsetOrdering(S), SUBSET S)
  BY FS_StrictSubsetOrderingWellFounded, FS_FiniteSubsetsOfFinite
<1>2. PICK s \in F : \A t \in F : ~ (<<t, s>> \in StrictSubsetOrdering(S))
  BY <1>1, WFMin
<1>3. ASSUME NEW t \in F, t \subseteq s PROVE t = s
  BY <1>2, <1>3 DEF StrictSubsetOrdering
<1> QED
  BY <1>3

\* Of the numbers of finitely many members and one more there is a highest.
LEMMA HighestExists ==
  ASSUME NEW S, IsFiniteSet(S), NEW f, \A x \in S : f[x] \in Nat, NEW r \in Nat
  PROVE  \E p \in Nat : /\ p = r \/ \E x \in S : p = f[x]
                       /\ r <= p /\ \A x \in S : f[x] <= p
<1> DEFINE Topped(s) == \E p \in Nat : /\ p = r \/ \E x \in s : p = f[x]
                                       /\ r <= p /\ \A x \in s : f[x] <= p
           Bad == {s \in SUBSET S : ~Topped(s)}
<1>1. ASSUME Bad # {} PROVE FALSE
  <2>1. Bad \subseteq SUBSET S
    OBVIOUS
  <2>2. PICK s \in Bad : \A t \in Bad : t \subseteq s => t = s
    <3> HIDE DEF Bad
    <3> QED
      BY <1>1, <2>1, SmallestSubset
  <2>3. s # {}
    <3>1. Topped({})
      OBVIOUS
    <3> QED
      BY <2>2, <3>1
  <2>4. PICK c \in s : TRUE
    BY <2>3
  <2>5. Topped(s \ {c})
    <3>1. s \ {c} \in SUBSET S /\ s \ {c} \subseteq s /\ s \ {c} # s
      BY <2>2, <2>4
    <3> QED
      BY <2>2, <3>1
  <2>6. PICK p \in Nat : /\ p = r \/ \E x \in s \ {c} : p = f[x]
                         /\ r <= p /\ \A x \in s \ {c} : f[x] <= p
    BY <2>5
  <2>7. f[c] \in Nat /\ s \in SUBSET S /\ ~Topped(s)
    BY <2>2, <2>4
  <2>8. CASE f[c] <= p
    <3>1. \A x \in s : f[x] <= p
      BY <2>6, <2>8
    <3>2. Topped(s)
      BY <2>6, <3>1
    <3> QED
      BY <2>7, <3>2
  <2>9. CASE ~(f[c] <= p)
    <3>1. p <= f[c] /\ r <= f[c]
      BY <2>6, <2>7, <2>9
    <3>2. \A x \in s : f[x] <= f[c]
      <4> SUFFICES ASSUME NEW x \in s, x # c PROVE f[x] <= f[c]
        BY <2>7
      <4>1. f[x] <= p /\ f[x] \in Nat
        BY <2>6, <2>7
      <4> QED
        BY <2>6, <2>7, <3>1, <4>1
    <3>3. Topped(s)
      BY <2>4, <2>7, <3>1, <3>2
    <3> QED
      BY <2>7, <3>3
  <2> QED
    BY <2>8, <2>9
<1>2. Topped(S)
  BY <1>1
<1> QED
  BY <1>2

\* Finitely many applications run, so that a worker has an effective priority.
LEMMA EffectivePriorityType ==
  ASSUME PoolType, NEW m \in Models, Resident(m), NEW apps \in AppSets
  PROVE  effective_priority(m, apps) \in Nat
<1> DEFINE V == {v \in apps : compatible_worker(workers[m].policy, Policy[v][m])}
           f == [w \in V |-> Policy[w][m].priority]
           raised == {Policy[w][m].priority : w \in V}
           r == workers[m].retention
           all == raised \cup {r}
<1>1. IsFiniteSet(V)
  <2>1. IsFiniteSet(apps) /\ V \in SUBSET apps
    BY ResidencyAssumption
  <2> HIDE DEF V
  <2> QED
    BY <2>1, FS_Subset
<1>2. \A w \in V : Policy[w][m].priority \in Nat
  <2> SUFFICES ASSUME NEW w \in V PROVE Policy[w][m].priority \in Nat
    OBVIOUS
  <2>1. w \in Workloads /\ Policy[w][m] # None
    BY ResidencyAssumption DEF compatible_worker
  <2> QED
    BY <2>1, PolicyFact DEF PolicyType
<1>3. r \in Nat
  BY ResidentWorker
<1>4. effective_priority(m, apps) = CHOOSE p \in all : \A q \in all : q <= p
  BY DEF effective_priority
<1>5. raised = {f[w] : w \in V} /\ \A w \in V : f[w] \in Nat
  BY <1>2
<1>6. \A p \in all : p \in Nat
  BY <1>2, <1>3
<1> HIDE DEF V, f, r
<1>7. \E p \in Nat : /\ p = r \/ \E w \in V : p = f[w]
                    /\ r <= p /\ \A w \in V : f[w] <= p
  BY <1>1, <1>3, <1>5, HighestExists
<1>8. \E p \in all : \A q \in all : q <= p
  BY <1>5, <1>7
<1> HIDE DEF all
<1> QED
  BY <1>4, <1>6, <1>8

\* What may stay although the latest workload configures it otherwise.
Suits(k, w, apps) ==
  \/ compatible_worker(workers[k].policy, Policy[w][k])
  \/ effective_priority(k, apps) >= 100

\* A thread that takes its workload up drops the idle workers it cannot use.
LEMMA TakenUpReconciles ==
  ASSUME Covered, NEW c \in Threads, NEW apps \in AppSets,
         \/ Reuse(c, apps) \/ Queue(c, apps) \/ NoRoom(c, apps)
         \/ \E E \in SUBSET Models : Load(c, apps, E) \/ LoadFails(c, apps, E),
         strategy = "balanced", last_request_workload' # last_request_workload,
         NEW k \in Models \ {model[c]}, workers'[k] # None, workers'[k].in_flight = 0
  PROVE  /\ workers'[k] = workers[k]
         /\ Suits(k, last_request_workload', active_app_workloads')
<1>1. Admitted(c, apps)
  BY DEF Reuse, Queue, NoRoom, Load, LoadFails, NeedsLoad
<1>2. active_app_workloads' = apps /\ last_request_workload' = WorkloadOf(c)
  BY <1>1 DEF Admitted, Refresh
<1>3. workers'[k] = workers[k] /\ k \notin Dropped(c, apps)
  <2>1. CASE Reuse(c, apps)
    BY <2>1 DEF Reuse, EraseAndLease
  <2>2. CASE Queue(c, apps)
    BY <2>2 DEF Queue, Erase
  <2>3. CASE NoRoom(c, apps)
    BY <2>3 DEF NoRoom, Erase
  <2>4. ASSUME NEW E \in SUBSET Models, Load(c, apps, E) PROVE workers'[k] = workers[k] /\ k \notin Dropped(c, apps)
    BY <2>4 DEF Load, EraseAndLoad
  <2>5. ASSUME NEW E \in SUBSET Models, LoadFails(c, apps, E) PROVE workers'[k] = workers[k] /\ k \notin Dropped(c, apps)
    BY <2>5 DEF LoadFails, Erase
  <2> QED
    BY <2>1, <2>2, <2>3, <2>4, <2>5
<1>4. Resident(k) /\ Idle(k)
  BY <1>3 DEF Resident, Idle
<1>5. \/ compatible_worker(workers[k].policy, Policy[WorkloadOf(c)][k])
      \/ ~(effective_priority(k, apps) < 100)
  BY <1>2, <1>3, <1>4 DEF Dropped, Reconciled
<1>6. effective_priority(k, apps) \in Nat
  BY <1>4, EffectivePriorityType DEF Covered, TypeOK
<1> QED
  BY <1>2, <1>3, <1>5, <1>6 DEF Suits

\* So does a thread that returns its worker.
LEMMA ReleaseReconciles ==
  ASSUME Covered, NEW c \in Threads, Release(c),
         strategy = "balanced", last_request_workload' # None,
         NEW k \in Models \ {model[c]}, workers'[k] # None, workers'[k].in_flight = 0
  PROVE  /\ workers'[k] = workers[k]
         /\ Suits(k, last_request_workload', active_app_workloads')
<1>1. /\ last_request_workload' = last_request_workload
      /\ active_app_workloads' = active_app_workloads
  BY DEF Release, admission
<1>2. Returned(c)[k] = workers[k]
  BY DEF Returned, Covered, TypeOK, PoolType
<1>3. workers'[k] = workers[k] /\ k \notin Ephemeral(c) /\ k \notin Stale(c)
  BY <1>2 DEF Release, Ephemeral
<1>4. Resident(k) /\ Returned(c)[k].in_flight = 0
  BY <1>2, <1>3 DEF Resident
<1>5. \/ compatible_worker(workers[k].policy, Policy[last_request_workload][k])
      \/ ~(effective_priority(k, active_app_workloads) < 100)
  BY <1>1, <1>3, <1>4 DEF Stale
<1>6. effective_priority(k, active_app_workloads) \in Nat
  BY <1>4, EffectivePriorityType DEF Covered, TypeOK, ModeType
<1> QED
  BY <1>1, <1>3, <1>5, <1>6 DEF Suits

\* Who takes its workload up, and who returns a worker, does so itself.
LEMMA OwnStep ==
  ASSUME Covered, [Next]_vars, NEW c \in Threads, last_request_workload' # None,
         \/ Attempting(c) /\ pc'[c] # pc[c] /\ last_request_workload' # last_request_workload
         \/ pc[c] = "leased" /\ pc'[c] = "idle" /\ workers' # workers
  PROVE  \/ Release(c)
         \/ /\ last_request_workload' # last_request_workload
            /\ \E apps \in AppSets :
                 \/ Reuse(c, apps) \/ Queue(c, apps) \/ NoRoom(c, apps)
                 \/ \E E \in SUBSET Models : Load(c, apps, E) \/ LoadFails(c, apps, E)
<1> DEFINE Taken(b) ==
      \E apps \in AppSets :
        \/ Reuse(b, apps) \/ Queue(b, apps) \/ NoRoom(b, apps)
        \/ \E E \in SUBSET Models : Load(b, apps, E) \/ LoadFails(b, apps, E)
      Goal == Release(c) \/ (last_request_workload' # last_request_workload /\ Taken(c))
<1>1. ASSUME NEW b \in Threads, Attempt(b)
      PROVE  Goal
  <2>1. Attempting(b) /\ pc[b] # "leased"
    BY <1>1 DEF Attempt, RefusePaused, RefuseUnselected, RefuseOversized, Reuse, Queue,
                NoRoom, Load, LoadFails, NeedsLoad, Admitted, Attempting
  <2>2. \E x : pc' = [pc EXCEPT ![b] = x]
    BY <1>1 DEF Attempt, RefusePaused, RefuseUnselected, RefuseOversized, Reuse, Queue,
                NoRoom, Load, LoadFails, Refuse, Granted, Enqueue, Leave
  <2>3. b = c
    BY <2>1, <2>2 DEF Covered, TypeOK, ThreadType, Attempting
  <2>4. last_request_workload' # last_request_workload
    BY <2>1, <2>3
  <2>5. Taken(b)
    BY <1>1, <2>4 DEF Attempt, RefusePaused, RefuseUnselected, RefuseOversized, admission
  <2> HIDE DEF Taken
  <2> QED
    BY <2>3, <2>4, <2>5
<1>2. ASSUME NEW b \in Threads, Release(b)
      PROVE  Goal
  <2>1. UNCHANGED last_request_workload /\ pc[b] = "leased"
        /\ pc' = Notified([pc EXCEPT ![b] = "idle"])
    BY <1>2 DEF Release, admission
  <2>2. b = c
    BY <2>1 DEF Notified, Covered, TypeOK, ThreadType, Attempting
  <2> QED
    BY <1>2, <2>2
<1>3. ASSUME NEW b \in Threads, QueueTimeout(b) \/ SpuriousWakeup(b)
      PROVE  FALSE
  BY <1>3 DEF QueueTimeout, SpuriousWakeup, Refuse, Leave, admission, Covered, TypeOK, ThreadType
<1>4. ASSUME NEW b \in Clients, NEW w, NEW m, Bind(b, w, m)
      PROVE  FALSE
  BY <1>4 DEF Bind, admission, Covered, TypeOK, ThreadType
<1>5. ~ \E b \in Clients : LoseLease(b)
  BY DEF LoseLease, pool, admission, Attempting, Covered, TypeOK, ThreadType
<1>6. ~Prewarm
  BY DEF Prewarm, PrewarmVerified, PrewarmDone, PrewarmFailed, PrewarmSkip, PrewarmAcquire,
         admission, thread, Covered, TypeOK, ThreadType
<1>7. ASSUME NEW o \in Operators, Operate(o)
      PROVE  FALSE
  BY <1>7 DEF Operate, PauseInference, PauseWakes, PauseTimesOut, ResumeInference,
              ReloadAfterMaintenance, Notified, admission, thread
<1>8. ASSUME NEW s, SetStrategy(s)
      PROVE  FALSE
  BY <1>8 DEF SetStrategy
<1>9. ~(\/ \E X \in SUBSET Models : Sweep(X)
        \/ \E w \in Workloads : SwapProfile(w)
        \/ \E apps \in AppSets : AppsChange(apps)
        \/ UNCHANGED vars)
  BY DEF Sweep, SwapProfile, AppsChange, vars, admission, thread
<1> HIDE DEF Goal
<1>10. Goal
  BY <1>1, <1>2, <1>3, <1>4, <1>5, <1>6, <1>7, <1>8, <1>9, ConstantFacts DEF Next
<1> QED
  BY <1>10 DEF Goal

\* Whoever takes up another workload, and whoever returns a worker, leaves idle
\* under the balanced strategy only what the latest workload can use or what has a
\* priority of 100 or more.
THEOREM BalancedStaysReconciled == Spec => BalancedReconciled
<1> DEFINE Turn(c) ==
      \/ Attempting(c) /\ pc'[c] # pc[c] /\ last_request_workload' # last_request_workload
      \/ pc[c] = "leased" /\ pc'[c] = "idle" /\ workers' # workers
    Left(k) == workers'[k] # None /\ workers'[k].in_flight = 0 =>
                 \/ compatible_worker(workers'[k].policy, Policy[last_request_workload'][k])
                 \/ effective_priority(k, active_app_workloads') >= 100
    Step == strategy = "balanced" /\ last_request_workload' # None =>
              \A c \in Threads : Turn(c) => \A k \in Models \ {model[c]} : Left(k)
<1>1. Leasing /\ [Next]_vars => [Step]_vars
  <2> SUFFICES ASSUME Leasing, [Next]_vars, strategy = "balanced",
                      last_request_workload' # None,
                      NEW c \in Threads, Turn(c), NEW k \in Models \ {model[c]},
                      workers'[k] # None, workers'[k].in_flight = 0
               PROVE  \/ compatible_worker(workers'[k].policy, Policy[last_request_workload'][k])
                      \/ effective_priority(k, active_app_workloads') >= 100
    OBVIOUS
  <2>0. Covered
    BY LeasingCovers
  <2>1. /\ workers'[k] = workers[k]
        /\ Suits(k, last_request_workload', active_app_workloads')
    BY <2>0, OwnStep, TakenUpReconciles, ReleaseReconciles
  <2> QED
    BY <2>1 DEF Suits
<1>2. BalancedReconciled <=> [][Step]_vars
  BY DEF BalancedReconciled
<1> HIDE DEF Step
<1> QED
  BY <1>1, <1>2, LeasingInvariant, PTL DEF Spec

-----------------------------------------------------------------------------
(* Eviction makes room                                                     *)

\* When the workers that stay reserve no RAM, none is in use.
LEMMA RamEmptied ==
  ASSUME PoolType, ReservationAccounting, NEW X \in SUBSET Models,
         \A m \in Models \ X : Resident(m) => workers[m].policy.ram = 0
  PROVE  RamWithout(X) = 0
<1>1. Total(ram_reservation, Models, MaxReservation) =
        Total(ram_reservation, X, MaxReservation)
          + Total(ram_reservation, Models \ X, MaxReservation)
  BY ConstantFacts, TotalSplit
<1>2. Total(ram_reservation, Models \ X, MaxReservation) = 0
  <2>1. \A m \in Models \ X : ram_reservation[m] = 0
    BY DEF ram_reservation
  <2> QED
    BY <2>1, ConstantFacts, TotalZero
<1>3. Total(ram_reservation, X, MaxReservation) \in Nat
  BY ConstantFacts, FS_Subset, TotalType
<1> QED
  BY <1>1, <1>2, <1>3 DEF RamWithout, ReservationAccounting

\* The same for the VRAM of a device.
LEMMA VramEmptied ==
  ASSUME PoolType, ReservationAccounting, NEW X \in SUBSET Models, NEW d \in Devices,
         \A m \in Models \ X :
           Resident(m) => workers[m].policy.device # d \/ workers[m].policy.vram = 0
  PROVE  VramWithout(X)[d] = 0
<1> DEFINE f == vram_reservation(d)
<1>1. \A m \in Models \ X : f[m] = 0
  BY DEF vram_reservation
<1>2. VramWithout(X)[d] = reserved_vram_by_device[d] - Total(f, X, MaxReservation)
  BY DEF VramWithout
<1>3. reserved_vram_by_device[d] = Total(f, Models, MaxReservation)
  BY DEF ReservationAccounting
<1> HIDE DEF f
<1>4. Total(f, Models, MaxReservation) =
        Total(f, X, MaxReservation) + Total(f, Models \ X, MaxReservation)
  BY ConstantFacts, TotalSplit
<1>5. Total(f, Models \ X, MaxReservation) = 0
  BY <1>1, ConstantFacts, TotalZero
<1>6. Total(f, X, MaxReservation) \in Nat
  BY ConstantFacts, FS_Subset, TotalType
<1> QED
  BY <1>2, <1>3, <1>4, <1>5, <1>6

\* A smaller set of units is a smaller total.
LEMMA TotalMonotone ==
  ASSUME NEW S, IsFiniteSet(S), NEW max \in Nat, NEW X \in SUBSET S, NEW a,
         NEW b, \A s \in X : a[s] \in Int /\ b[s] \in Int /\ a[s] <= b[s]
  PROVE  Total(a, X, max) <= Total(b, S, max)
<1>1. IsFiniteSet(Units(b, S, max))
  BY UnitsFinite
<1>2. Units(a, X, max) \in SUBSET Units(b, S, max)
  BY DEF Units
<1> QED
  BY <1>1, <1>2, FS_Subset DEF Total

\* Without more workers no pool, and not all accelerators together, is fuller.
LEMMA MoreGone ==
  ASSUME PoolType, NEW Y \in SUBSET Models, NEW X \in SUBSET Y
  PROVE  /\ RamWithout(Y) <= RamWithout(X)
         /\ \A d \in Devices : VramWithout(Y)[d] <= VramWithout(X)[d]
         /\ AllVram(VramWithout(Y)) <= AllVram(VramWithout(X))
<1>1. IsFiniteSet(Y) /\ IsFiniteSet(X) /\ X \in SUBSET Models
  BY ConstantFacts, FS_Subset
<1>2. \A f : /\ Total(f, X, MaxReservation) \in Nat
             /\ Total(f, Y, MaxReservation) \in Nat
  BY <1>1, ConstantFacts, TotalType
<1>3. ASSUME NEW f, \A m \in Models : f[m] \in 0..MaxReservation
      PROVE  Total(f, X, MaxReservation) <= Total(f, Y, MaxReservation)
  <2>1. \A m \in X : f[m] \in Int /\ f[m] <= f[m]
    BY <1>3
  <2> QED
    BY <1>1, <2>1, ConstantFacts, TotalMonotone
<1>4. RamWithout(Y) <= RamWithout(X)
  <2>1. Total(ram_reservation, X, MaxReservation) <= Total(ram_reservation, Y, MaxReservation)
    BY <1>3, ReservationType
  <2> QED
    BY <1>2, <2>1 DEF RamWithout, PoolType
<1>5. ASSUME NEW d \in Devices
      PROVE  VramWithout(Y)[d] <= VramWithout(X)[d]
  <2> DEFINE f == vram_reservation(d)
  <2>1. /\ VramWithout(X)[d] = reserved_vram_by_device[d] - Total(f, X, MaxReservation)
        /\ VramWithout(Y)[d] = reserved_vram_by_device[d] - Total(f, Y, MaxReservation)
    BY DEF VramWithout
  <2>2. \A m \in Models : f[m] \in 0..MaxReservation
    BY ReservationType
  <2> HIDE DEF f
  <2>3. Total(f, X, MaxReservation) <= Total(f, Y, MaxReservation)
    BY <1>3, <2>2
  <2> QED
    BY <1>2, <2>1, <2>3 DEF PoolType
<1>6. AllVram(VramWithout(Y)) <= AllVram(VramWithout(X))
  <2>1. /\ VramWithout(X) \in [Devices -> Int] /\ VramWithout(Y) \in [Devices -> Int]
    BY <1>1, WithoutType
  <2>2. \A d \in Devices : /\ VramWithout(Y)[d] \in Int /\ VramWithout(X)[d] \in Int
                           /\ VramWithout(Y)[d] <= VramWithout(X)[d]
    BY <1>5, <2>1
  <2>3. IsFiniteSet(Devices) /\ Devices \in SUBSET Devices
    BY ResidencyAssumption
  <2> QED
    BY <2>2, <2>3, ConstantFacts, TotalMonotone DEF AllVram
<1> QED
  BY <1>4, <1>5, <1>6

\* The numbers the budgets are made of.
LEMMA BudgetType ==
  ASSUME PoolType, NEW X \in SUBSET Models, NEW w \in Workloads, NEW p \in PolicyType
  PROVE  /\ RamWithout(X) \in Int /\ AllVram(VramWithout(X)) \in Int
         /\ \A d \in Devices : VramWithout(X)[d] \in Int
         /\ p.ram \in Int /\ p.vram \in Int /\ p.device \in Devices
         /\ ram_limit(w) \in Int /\ device_vram_limit(w, p.device) \in Int
         /\ Profile[w].memory_limit \in Int /\ Profile[w].reserve \in Int
<1>1. RamWithout(X) \in Int /\ VramWithout(X) \in [Devices -> Int]
  BY WithoutType
<1>2. AllVram(VramWithout(X)) \in Int
  BY ConstantFacts, ResidencyAssumption, TotalType DEF AllVram
<1>3. p.ram \in Int /\ p.vram \in Int /\ p.device \in Devices
  BY ConstantFacts DEF PolicyType
<1>4. Profile[w].memory_limit \in Int /\ Profile[w].reserve \in Int
  BY ResidencyAssumption DEF ProfileType
<1> QED
  BY <1>1, <1>2, <1>3, <1>4, LimitsBelowAllocation

\* What fits an empty machine fits once every worker is gone.
LEMMA EmptyMachineFits ==
  ASSUME PoolType, ReservationAccounting, NEW X \in SUBSET Models,
         \A m \in Models \ X : ~Resident(m),
         NEW w \in Workloads, NEW p \in PolicyType, FitsAlone(w, p)
  PROVE  has_capacity(w, p, X)
<1>1. RamWithout(X) = 0
  BY RamEmptied
<1>2. \A d \in Devices : VramWithout(X)[d] = 0
  BY VramEmptied
<1>3. AllVram(VramWithout(X)) = 0
  BY <1>2, ConstantFacts, TotalZero DEF AllVram
<1>4. WithinCeiling(w, p, RamWithout(X), VramWithout(X))
  BY <1>1, <1>3, BudgetType DEF WithinCeiling, FitsAlone
<1>5. RamWithout(X) + p.ram <= ram_limit(w)
  BY <1>1, BudgetType DEF FitsAlone
<1>6. fits_device_reservation(w, p, VramWithout(X))
  BY <1>2, BudgetType DEF fits_device_reservation, FitsAlone
<1> QED
  BY <1>4, <1>5, <1>6 DEF has_capacity, fits_resources

\* If the aggregate ceiling does not stand in the way, the workers that
\* relieve each short pool empty it, and a pool that is not short stays so.
LEMMA ReliefFits ==
  ASSUME PoolType, ReservationAccounting, NEW D \in SUBSET Models,
         \A m \in Models : Resident(m) => Idle(m),
         NEW w \in Workloads, NEW p \in PolicyType, FitsAlone(w, p),
         WithinCeiling(w, p, RamWithout(D), VramWithout(D))
  PROVE  fits_resources(w, p, D \cup candidates(w, p, D))
<1> DEFINE G == D \cup candidates(w, p, D)
<1>1. G \in SUBSET Models /\ D \in SUBSET G
  BY DEF candidates
<1>2. /\ ram_shortfall(w, p, D) > 0 =>
           \A m \in Models \ G : Resident(m) => ~(workers[m].policy.ram > 0)
      /\ vram_shortfall(w, p, D) > 0 =>
           \A m \in Models \ G : Resident(m) =>
             workers[m].policy.device # p.device \/ ~(workers[m].policy.vram > 0)
  BY DEF candidates
<1>3. \A m \in Models : Resident(m) => /\ workers[m].policy.ram \in Nat
                                       /\ workers[m].policy.vram \in Nat
  BY ResidentWorker, ConstantFacts DEF PolicyType
<1> HIDE DEF G
<1>4. WithinCeiling(w, p, RamWithout(G), VramWithout(G))
  <2>1. RamWithout(G) <= RamWithout(D) /\ AllVram(VramWithout(G)) <= AllVram(VramWithout(D))
    BY <1>1, MoreGone
  <2>2. /\ RamWithout(G) \in Int /\ AllVram(VramWithout(G)) \in Int
        /\ RamWithout(D) \in Int /\ AllVram(VramWithout(D)) \in Int
    BY <1>1, BudgetType
  <2> QED
    BY <2>1, <2>2, BudgetType DEF WithinCeiling
<1>5. RamWithout(G) + p.ram <= ram_limit(w)
  <2>1. RamWithout(G) \in Int /\ RamWithout(D) \in Int /\ p.ram \in Int /\ ram_limit(w) \in Int
    BY <1>1, BudgetType
  <2>2. CASE ram_shortfall(w, p, D) > 0
    <3>1. \A m \in Models \ G : Resident(m) => workers[m].policy.ram = 0
      BY <1>2, <1>3, <2>2
    <3>2. RamWithout(G) = 0
      BY <1>1, <3>1, RamEmptied
    <3> QED
      BY <2>1, <3>2 DEF FitsAlone
  <2>3. CASE ~(ram_shortfall(w, p, D) > 0)
    <3>1. RamWithout(D) + p.ram <= ram_limit(w)
      BY <2>1, <2>3 DEF ram_shortfall, Larger
    <3>2. RamWithout(G) <= RamWithout(D)
      BY <1>1, MoreGone
    <3> QED
      BY <2>1, <3>1, <3>2
  <2> QED
    BY <2>2, <2>3
<1>6. fits_device_reservation(w, p, VramWithout(G))
  <2>1. /\ VramWithout(G)[p.device] \in Int /\ VramWithout(D)[p.device] \in Int
        /\ p.vram \in Int /\ device_vram_limit(w, p.device) \in Int /\ p.device \in Devices
    BY <1>1, BudgetType
  <2>2. CASE p.vram = 0
    BY <2>2 DEF fits_device_reservation
  <2>3. CASE p.vram # 0 /\ vram_shortfall(w, p, D) > 0
    <3>1. \A m \in Models \ G :
            Resident(m) => workers[m].policy.device # p.device \/ workers[m].policy.vram = 0
      BY <1>2, <1>3, <2>3
    <3>2. VramWithout(G)[p.device] = 0
      BY <1>1, <2>1, <3>1, VramEmptied
    <3> QED
      BY <2>1, <2>3, <3>2 DEF FitsAlone, fits_device_reservation
  <2>4. CASE p.vram # 0 /\ ~(vram_shortfall(w, p, D) > 0)
    <3>1. VramWithout(D)[p.device] + p.vram <= device_vram_limit(w, p.device)
      BY <2>1, <2>4 DEF vram_shortfall, Larger
    <3>2. VramWithout(G)[p.device] <= VramWithout(D)[p.device]
      BY <1>1, <2>1, MoreGone
    <3> QED
      BY <2>1, <3>1, <3>2 DEF fits_device_reservation
  <2> QED
    BY <2>2, <2>3, <2>4
<1> QED
  BY <1>4, <1>5, <1>6 DEF fits_resources, G

\* With nothing busy, make_room finds room for what fits an empty machine.
LEMMA EvictionSuffices ==
  ASSUME Covered, ReservationAccounting, NEW c \in Threads, NEW apps, NeedsLoad(c, apps),
         \A k \in Models : ~Busy(k)
  PROVE  ~EvictsInVain(WorkloadOf(c), PolicyOf(c), Dropped(c, apps))
<1>0. PoolType
  BY DEF Covered, TypeOK
<1>1. /\ Admitted(c, apps) /\ Attempting(c) /\ ~Reusable(c)
      /\ PolicyOf(c) \in PolicyType /\ WorkloadOf(c) \in Workloads
      /\ FitsAlone(WorkloadOf(c), PolicyOf(c)) /\ model[c] \in Models
  BY AdmittedFacts, AttemptingFacts DEF NeedsLoad, Admitted
<1>2. PICK w \in Workloads : w = WorkloadOf(c)
  BY <1>1
<1>3. PICK p \in PolicyType : p = PolicyOf(c)
  BY <1>1
<1>4. PICK D \in SUBSET Models : D = Dropped(c, apps)
  BY <1>1, DroppedIdle
<1>5. \A m \in Models : Resident(m) => Idle(m)
  <2>1. \A m \in Models : Resident(m) => workers[m].in_flight >= 0 /\ workers[m].in_flight \in Int
    BY <1>0, CountedNat, ResidentWorker DEF Covered
  <2> QED
    BY <2>1 DEF Busy, Idle
<1>6. strategy = "single" => \A m \in Models \ D : ~Resident(m)
  BY <1>1, <1>4, <1>5 DEF Dropped, Reconciled
<1>7. FitsAlone(w, p)
  BY <1>1, <1>2, <1>3
<1> DEFINE G == D \cup candidates(w, p, D)
<1>8. G \in SUBSET Models
  BY DEF candidates
<1>9. strategy = "single" => \A m \in Models \ G : ~Resident(m)
  BY <1>6
<1>10. CASE strategy = "single" \/ fits_resources(w, p, D)
              \/ ~WithinCeiling(w, p, RamWithout(D), VramWithout(D))
  <2>1. \A m \in Models \ G : ~Resident(m)
    BY <1>5, <1>9, <1>10 DEF candidates
  <2> QED
    BY <1>0, <1>2, <1>3, <1>4, <1>7, <1>8, <2>1, EmptyMachineFits DEF EvictsInVain
<1>11. CASE strategy # "single" /\ WithinCeiling(w, p, RamWithout(D), VramWithout(D))
  <2>1. fits_resources(w, p, G)
    BY <1>0, <1>5, <1>7, <1>11, ReliefFits
  <2> QED
    BY <1>2, <1>3, <1>4, <1>11, <2>1 DEF EvictsInVain, has_capacity
<1> QED
  BY <1>10, <1>11

\* A request that would fit an empty machine is never turned away for want of
\* memory: make_room fails only while some worker is busy, and then the
\* request sleeps until a lease ends.
THEOREM AdmissibleIsNeverRefused == Spec => NoBudgetRefusal
<1>1. ASSUME Leasing, ReservationAccounting, [Next]_vars, NEW c \in Threads, NEW apps \in AppSets,
             NoRoom(c, apps)
      PROVE  pc'[c] = "asleep"
  <2>0. Covered
    BY <1>1, LeasingCovers
  <2>1. NeedsLoad(c, apps) /\ EvictsInVain(WorkloadOf(c), PolicyOf(c), Dropped(c, apps))
    BY <1>1 DEF NoRoom
  <2>2. \E k \in Models : Busy(k)
    BY <1>1, <2>0, <2>1, EvictionSuffices
  <2>3. Enqueue(c)
    BY <1>1, <2>2 DEF NoRoom
  <2> QED
    BY <2>0, <2>3 DEF Enqueue, Covered, TypeOK, ThreadType
<1>2. Leasing /\ ReservationAccounting /\ [Next]_vars =>
        [\A c \in Threads, apps \in AppSets : NoRoom(c, apps) => pc'[c] = "asleep"]_vars
  BY <1>1
<1> QED
  BY <1>2, LeasingInvariant, ReservationsAreAccounted, PTL DEF Spec, NoBudgetRefusal

-----------------------------------------------------------------------------
(* The refinement: each step of the worker manager is a step of WorkerPool  *)
(* or leaves it alone.                                                      *)

\* What the step needs of the state before and after it.
Accounted == Leasing /\ ReservationAccounting /\ WithinAllocation

\* What ResidencyProofs has shown, together.
LEMMA AccountedInvariant == Spec => []Accounted
BY LeasingInvariant, ReservationsAreAccounted, AllocationIsRespected, PTL DEF Accounted

\* The pool sees the policy of each worker in memory.
LEMMA ResidentPolicyFacts ==
  ASSUME PoolType
  PROVE  /\ ResidentPolicy \in [Models -> PolicyType \cup {None}]
         /\ \A m \in Models : ResidentPolicy[m] = None <=> ~Resident(m)
         /\ \A m \in Models : Resident(m) => ResidentPolicy[m] = workers[m].policy
<1>1. \A m \in Models : Resident(m) => workers[m].policy \in PolicyType
  BY ResidentWorker
<1> QED
  BY <1>1, ConstantFacts DEF ResidentPolicy

\* The pool's capacity is the manager's allocation.
LEMMA CapacityKept ==
  ASSUME PoolType, ReservationAccounting, WithinAllocation
  PROVE  Pool!WithinCapacity(ResidentPolicy)
<1>1. \A m \in Models : Pool!ram_of(ResidentPolicy)[m] = ram_reservation[m]
  BY ResidentPolicyFacts DEF Pool!ram_of, ram_reservation
<1>2. \A d \in Devices, m \in Models :
        Pool!vram_of(ResidentPolicy, d)[m] = vram_reservation(d)[m]
  BY ResidentPolicyFacts DEF Pool!vram_of, vram_reservation
<1>3. Total(Pool!ram_of(ResidentPolicy), Models, MaxReservation) = reserved_ram_gib
  BY <1>1, TotalCongruence DEF ReservationAccounting
<1>4. ASSUME NEW d \in Devices
      PROVE  Total(Pool!vram_of(ResidentPolicy, d), Models, MaxReservation)
               = reserved_vram_by_device[d]
  BY <1>2, TotalCongruence DEF ReservationAccounting
<1>5. \A d \in Devices : reserved_vram_by_device[d] <= Smaller(MaxVram, Dedicated[d])
  BY DEF WithinAllocation, Smaller
<1>6. ASSUME NEW f
      PROVE  Pool!Total(f, Models, MaxReservation) = Total(f, Models, MaxReservation)
  <2>1. Pool!Units(f, Models, MaxReservation) = Units(f, Models, MaxReservation)
    BY DEF Pool!Units, Units
  <2> QED
    BY <2>1 DEF Pool!Total, Total, Pool!Cardinality, Cardinality
<1>7. Pool!Total(Pool!ram_of(ResidentPolicy), Models, MaxReservation) <= MaxRam
  BY <1>3, <1>6 DEF WithinAllocation
<1>8. \A d \in Devices :
        Pool!Total(Pool!vram_of(ResidentPolicy, d), Models, MaxReservation)
          <= [e \in Devices |-> Smaller(MaxVram, Dedicated[e])][d]
  BY <1>4, <1>5, <1>6
<1> HIDE DEF ResidentPolicy
<1> QED
  BY <1>7, <1>8 DEF Pool!WithinCapacity

-----------------------------------------------------------------------------
(* Every step of the manager is a step of the pool                         *)

\* What the state after the step must show: Grant promises it.
Offered ==
  /\ ResidentPolicy \in [Models -> PolicyType \cup {None}]
  /\ Pool!WithinCapacity(ResidentPolicy)
  /\ Counted

\* The state after any step shows it.
LEMMA OfferedInvariant == Spec => []Offered
<1>1. Accounted => Offered
  BY ResidentPolicyFacts, CapacityKept DEF Accounted, Leasing, TypeOK, Offered
<1> QED
  BY <1>1, AccountedInvariant, PTL

\* Nobody holds an idle worker, and a thread that holds none has no lease.
LEMMA IdleIsFree ==
  ASSUME Covered, NEW m \in Models, Idle(m)
  PROVE  ~Pool!Held(m)
<1>1. \A c \in Threads : LeaseOf[c] # m
  BY IdleHasNoHolder, HoldersByLease DEF HoldersIn
<1> HIDE DEF LeaseOf
<1> QED
  BY <1>1 DEF Pool!Held

\* A worker that is gone has no policy; one that stays keeps its own.
LEMMA GoneRefines ==
  ASSUME NEW X \in SUBSET Models, GoneFrom(X)
  PROVE  ResidentPolicy' = [m \in Models |-> IF m \in X THEN None ELSE ResidentPolicy[m]]
<1>1. \A m \in Models :
        (IF Resident(m)' THEN workers'[m].policy ELSE None)
          = IF m \in X THEN None ELSE IF Resident(m) THEN workers[m].policy ELSE None
  BY DEF GoneFrom
<1> QED
  BY <1>1 DEF ResidentPolicy

\* Dropped, swept and unloaded workers are evictions of the pool.
LEMMA QuietRefines ==
  ASSUME Covered, QuietStep
  PROVE  \/ UNCHANGED <<ResidentPolicy, LeaseOf>>
         \/ \E X \in SUBSET Models : Pool!Evict(X)
<1>1. LeaseOf' = LeaseOf
  BY DEF QuietStep
<1>2. CASE UNCHANGED pool
  BY <1>1, <1>2 DEF pool, ResidentPolicy, Resident
<1>3. CASE ~UNCHANGED pool
  <2>1. PICK X \in SUBSET Models : (\A m \in X : Idle(m)) /\ Erase(X)
    BY <1>3 DEF QuietStep
  <2>2. GoneFrom(X)
    BY <2>1 DEF GoneFrom, Erase, Resident
  <2>3. \A m \in X : ~Pool!Held(m)
    BY <2>1, IdleIsFree
  <2>4. Pool!Evict(X)
    BY <1>1, <2>2, <2>3, GoneRefines DEF Pool!Evict
  <2> QED
    BY <2>4
<1> QED
  BY <1>2, <1>3

\* A lost lease is returned, as the pool sees it; its worker stays.
LEMMA LoseRefines ==
  ASSUME Covered, LoseStep
  PROVE  \E c \in Threads : Pool!Return(c, {})
<1>1. PICK c \in Threads : pc[c] = "leased" /\ LeaseOf' = [LeaseOf EXCEPT ![c] = None]
  BY DEF LoseStep
<1>2. LeaseOf[c] # None
  BY <1>1, LeasedIsBusy, ConstantFacts DEF Covered, LeaseOf
<1>3. ResidentPolicy' = [m \in Models |-> IF m \in {} THEN None ELSE ResidentPolicy[m]]
  BY DEF LoseStep, pool, ResidentPolicy, Resident
<1> HIDE DEF LeaseOf, ResidentPolicy
<1> QED
  BY <1>1, <1>2, <1>3 DEF Pool!Return

\* Reuse grants the running worker.
LEMMA LeaseRefines ==
  ASSUME Covered, LeaseStep, Offered'
  PROVE  \E c \in Threads, v \in Models, X \in SUBSET Models : Pool!Grant(c, v, X)
<1>1. PICK c \in Threads, X \in SUBSET Models :
        /\ Granting(c, X) /\ model[c] \notin X /\ Reusable(c)
        /\ EraseAndLease(X, model[c], PolicyOf(c))
  BY DEF LeaseStep
<1>2. PICK v \in Models : v = model[c]
  BY <1>1 DEF Granting
<1>3. /\ LeaseOf[c] = None /\ LeaseOf' = [LeaseOf EXCEPT ![c] = v]
      /\ \A k \in X : ~Pool!Held(k)
  BY <1>1, <1>2, AttemptingFacts, IdleIsFree DEF Granting, LeaseOf
<1>4. workers'[v] # None /\ workers'[v].policy = workers[v].policy
  BY <1>1, <1>2, LeasedAfterGrant
<1>5. GoneFrom(X)
  BY <1>1, <1>2, <1>4 DEF GoneFrom, EraseAndLease, Reusable, Resident
<1>6. ResidentPolicy' = [m \in Models |-> IF m \in X THEN None ELSE ResidentPolicy[m]]
  BY <1>5, GoneRefines
<1>7. ResidentPolicy'[v] # None
  <2>1. (ResidentPolicy')[v] = workers'[v].policy
    BY <1>4 DEF ResidentPolicy, Resident
  <2>2. Resident(v)
    BY <1>1, <1>2 DEF Reusable
  <2> QED
    BY <1>4, <2>1, <2>2, ResidentWorker, ConstantFacts DEF Covered, TypeOK
<1>8. v \notin X
  BY <1>1, <1>2
<1>9. /\ ResidentPolicy' \in [Models -> PolicyType \cup {None}]
      /\ Pool!WithinCapacity(ResidentPolicy')
  BY DEF Offered, Pool!WithinCapacity, Pool!ram_of, Pool!vram_of
<1> HIDE DEF LeaseOf, ResidentPolicy
<1>10. Pool!Grant(c, v, X)
  BY <1>3, <1>6, <1>7, <1>8, <1>9 DEF Pool!Grant
<1> QED
  BY <1>10

\* A load grants a worker that nobody held.
LEMMA LoadRefines ==
  ASSUME Covered, LoadStep, Offered', \A m \in Models : CountOf(m)
  PROVE  \E c \in Threads, v \in Models, X \in SUBSET Models : Pool!Grant(c, v, X)
<1>1. PICK c \in Threads, X \in SUBSET Models :
        /\ Granting(c, X) /\ (model[c] \in X \/ ~Resident(model[c]))
        /\ EraseAndLoad(X, model[c], PolicyOf(c))
  BY DEF LoadStep
<1>2. PICK v \in Models : v = model[c]
  BY <1>1 DEF Granting
<1>3. PICK p \in PolicyType : p = PolicyOf(c)
  BY <1>1 DEF Granting
<1>4. /\ LeaseOf[c] = None /\ LeaseOf' = [LeaseOf EXCEPT ![c] = v]
      /\ \A k \in X : ~Pool!Held(k)
  BY <1>1, <1>2, AttemptingFacts, IdleIsFree DEF Granting, LeaseOf
<1>5. ~Pool!Held(v)
  <2>1. Resident(v) \/ Holders(v) = {}
    BY DEF CountOf
  <2>2. ~Resident(v) => \A t \in Threads : LeaseOf[t] # v
    BY <2>1, HoldersByLease DEF HoldersIn
  <2>3. Resident(v) => ~Pool!Held(v)
    BY <1>1, <1>2, <1>4
  <2> HIDE DEF LeaseOf
  <2> QED
    BY <2>2, <2>3 DEF Pool!Held
<1>6. workers'[v] = [policy |-> p, retention |-> p.priority, in_flight |-> 1]
  BY <1>1, <1>2, <1>3 DEF EraseAndLoad
<1>7. workers'[v] \in WorkerType /\ workers'[v].policy = p
  BY <1>6 DEF WorkerType, PolicyType
<1>8. (ResidentPolicy')[v] = p /\ p # None
  BY <1>7, ConstantFacts DEF ResidentPolicy, Resident
<1>9. \A k \in Models \ {v} :
        (ResidentPolicy')[k] = IF k \in X THEN None ELSE ResidentPolicy[k]
  BY <1>1, <1>2 DEF EraseAndLoad, ResidentPolicy, Resident
<1>10. /\ ResidentPolicy' \in [Models -> PolicyType \cup {None}]
       /\ Pool!WithinCapacity(ResidentPolicy')
  BY DEF Offered, Pool!WithinCapacity, Pool!ram_of, Pool!vram_of
<1> HIDE DEF LeaseOf, ResidentPolicy
<1>11. Pool!Grant(c, v, X)
  BY <1>4, <1>5, <1>8, <1>9, <1>10 DEF Pool!Grant
<1> QED
  BY <1>11

\* A release returns the worker, perhaps with idle ones given up.
LEMMA ReleaseRefines ==
  ASSUME Covered, ReleaseStep, Offered'
  PROVE  \E c \in Threads, X \in SUBSET Models : Pool!Return(c, X)
<1>1. PICK c \in Threads, X \in SUBSET Models :
        /\ pc[c] = "leased" /\ Unleased(c, X)
        /\ \A k \in X : Resident(k)
        /\ LeaseOf' = [LeaseOf EXCEPT ![c] = None]
  BY DEF ReleaseStep
<1>2. LeaseOf[c] # None
  BY <1>1, LeasedIsBusy, ConstantFacts DEF Covered, LeaseOf
<1>3. PICK v \in Models : v = model[c] /\ Resident(v)
  BY <1>1, LeasedIsBusy DEF Covered, Busy
<1>4. \A k \in Models : /\ Returned(c)[k] # None <=> Resident(k)
                        /\ Resident(k) => Returned(c)[k].policy = workers[k].policy
  <2> SUFFICES ASSUME NEW k \in Models
               PROVE  /\ Returned(c)[k] # None <=> Resident(k)
                      /\ Resident(k) => Returned(c)[k].policy = workers[k].policy
    OBVIOUS
  <2>1. CASE k # v
    BY <1>3, <2>1 DEF Returned, Resident, Covered, TypeOK, PoolType
  <2>2. CASE k = v
    <3>1. Returned(c)[v] = [workers[v] EXCEPT !.in_flight = @ - 1]
      BY <1>3 DEF Returned, Covered, TypeOK, PoolType
    <3>2. workers[v] \in WorkerType
      BY <1>3, ResidentWorker DEF Covered, TypeOK
    <3>3. Returned(c)[v] \in WorkerType /\ Returned(c)[v].policy = workers[v].policy
      BY <3>1, <3>2 DEF WorkerType
    <3> QED
      BY <1>3, <2>2, <3>3, ConstantFacts
  <2> QED
    BY <2>1, <2>2
<1>5. GoneFrom(X)
  BY <1>1, <1>4 DEF GoneFrom, Unleased, Resident
<1>6. \A m \in X : ~Resident(m)'
  BY <1>5 DEF GoneFrom
<1>7. \A m \in X, u \in Threads : (LeaseOf')[u] # m
  <2>1. \A m \in X : Holders(m)' = {}
    BY <1>6 DEF Offered, Counted, CountOf
  <2> QED
    BY <2>1, HoldersByLease DEF HoldersIn
<1>8. ResidentPolicy' = [m \in Models |-> IF m \in X THEN None ELSE ResidentPolicy[m]]
  BY <1>5, GoneRefines
<1> HIDE DEF LeaseOf, ResidentPolicy
<1>9. Pool!Return(c, X)
  BY <1>1, <1>2, <1>7, <1>8 DEF Pool!Return
<1> QED
  BY <1>9

\* The pool sees the manager's first state as its own.
LEMMA InitRefines ==
  ASSUME Init
  PROVE  Pool!Init
BY DEF Init, Pool!Init, ResidentPolicy, Resident, LeaseOf

\* Each of the five steps is one of the pool's.
LEMMA StepRefines ==
  ASSUME Covered, Offered, Offered', PoolStep
  PROVE  [Pool!Next]_<<ResidentPolicy, LeaseOf>>
<1>1. CASE QuietStep
  BY <1>1, QuietRefines DEF Pool!Next
<1>2. CASE LoseStep
  BY <1>2, LoseRefines DEF Pool!Next
<1>3. CASE LeaseStep
  BY <1>3, LeaseRefines DEF Pool!Next
<1>4. CASE LoadStep
  BY <1>4, LoadRefines DEF Pool!Next, Offered, Counted
<1>5. CASE ReleaseStep
  BY <1>5, ReleaseRefines DEF Pool!Next
<1> QED
  BY <1>1, <1>2, <1>3, <1>4, <1>5 DEF PoolStep

\* Whatever the strategies, limits, workloads, timeouts and lost leases: the
\* manager never takes or changes a worker a thread holds, and never grants
\* one beyond the allocation (acquire, make_room, release, sweep_idle and
\* pause_inference of src/src/server.cpp).
THEOREM ManagerImplementsPool == Spec => ImplementsWorkerPool
<1>1. Init => Pool!Init
  BY InitRefines
<1>2. Leasing /\ Offered /\ Offered' /\ [Next]_vars => [Pool!Next]_<<ResidentPolicy, LeaseOf>>
  BY LeasingCovers, NextStep, StepRefines
<1> QED
  BY <1>1, <1>2, LeasingInvariant, OfferedInvariant, PTL
     DEF Spec, ImplementsWorkerPool, Pool!Spec

-----------------------------------------------------------------------------
(* What the pool promises, and with it whatever implements the pool        *)

LeaseType == LeaseOf \in [Threads -> Models \cup {None}]

\* Every step keeps held workers as they are.
LEMMA PoolStepKeepsHeld ==
  ASSUME LeaseType, Pool!HeldIsResident, Pool!Next
  PROVE  LeaseType' /\ Pool!HeldIsResident' /\ Pool!HeldIsKept
<1> HIDE DEF LeaseOf, ResidentPolicy
<1>1. PICK X \in SUBSET Models :
        \/ Pool!Evict(X)
        \/ \E t \in Threads : Pool!Return(t, X)
        \/ \E t \in Threads, m \in Models : Pool!Grant(t, m, X)
  BY DEF Pool!Next
<1>2. CASE Pool!Evict(X)
  BY <1>2 DEF Pool!Evict, Pool!Held, LeaseType, Pool!HeldIsResident, Pool!HeldIsKept
<1>3. ASSUME NEW t \in Threads, Pool!Return(t, X)
      PROVE  LeaseType' /\ Pool!HeldIsResident' /\ Pool!HeldIsKept
  <2>1. /\ LeaseOf' = [LeaseOf EXCEPT ![t] = None]
        /\ \A m \in X, u \in Threads : LeaseOf'[u] # m
        /\ ResidentPolicy' = [m \in Models |-> IF m \in X THEN None ELSE ResidentPolicy[m]]
    BY <1>3 DEF Pool!Return
  <2>2. \A u \in Threads : LeaseOf'[u] # None => LeaseOf'[u] = LeaseOf[u]
    BY <2>1 DEF LeaseType
  <2>3. LeaseType'
    BY <2>1 DEF LeaseType
  <2> QED
    BY <2>1, <2>2, <2>3 DEF LeaseType, Pool!HeldIsResident, Pool!HeldIsKept
<1>4. ASSUME NEW t \in Threads, NEW m \in Models, Pool!Grant(t, m, X)
      PROVE  LeaseType' /\ Pool!HeldIsResident' /\ Pool!HeldIsKept
  <2>1. LeaseType' /\ LeaseOf[t] = None /\ \A u \in Threads \ {t} : LeaseOf'[u] = LeaseOf[u]
    BY <1>4 DEF Pool!Grant, LeaseType
  <2>2. LeaseOf'[t] = m /\ ResidentPolicy'[m] # None
    BY <1>4 DEF Pool!Grant, LeaseType
  <2>3. ASSUME NEW u \in Threads \ {t}, LeaseOf[u] # None
        PROVE  ResidentPolicy'[LeaseOf[u]] = ResidentPolicy[LeaseOf[u]]
    BY <1>4, <2>3 DEF Pool!Grant, Pool!Held, LeaseType
  <2> QED
    BY <2>1, <2>2, <2>3 DEF Pool!HeldIsResident, Pool!HeldIsKept
<1> QED
  BY <1>1, <1>2, <1>3, <1>4

\* A stuttering step changes nothing.
LEMMA PoolStutterKeepsHeld ==
  ASSUME LeaseType, Pool!HeldIsResident, UNCHANGED <<ResidentPolicy, LeaseOf>>
  PROVE  LeaseType' /\ Pool!HeldIsResident'
<1> HIDE DEF LeaseOf, ResidentPolicy
<1> QED
  BY DEF LeaseType, Pool!HeldIsResident

\* From grant to return the worker of a thread is in memory and stays the one
\* it was granted (the Worker that the handlers of src/src/server.cpp share with
\* the manager between acquire and release): the abstract specification
\* promises it, and the manager inherits it.
THEOREM HeldWorkersAreKept ==
  Spec => []Pool!HeldIsResident /\ [][Pool!HeldIsKept]_<<ResidentPolicy, LeaseOf>>
<1>1. Pool!Init => LeaseType /\ Pool!HeldIsResident
  <2> HIDE DEF LeaseOf, ResidentPolicy
  <2> QED
    BY DEF Pool!Init, LeaseType, Pool!HeldIsResident
<1>2. LeaseType /\ Pool!HeldIsResident /\ [Pool!Next]_<<ResidentPolicy, LeaseOf>>
        => LeaseType' /\ Pool!HeldIsResident'
  BY PoolStepKeepsHeld, PoolStutterKeepsHeld
<1>3. LeaseType /\ Pool!HeldIsResident /\ [Pool!Next]_<<ResidentPolicy, LeaseOf>>
        => [Pool!HeldIsKept]_<<ResidentPolicy, LeaseOf>>
  BY PoolStepKeepsHeld
<1>4. Pool!Spec => []Pool!HeldIsResident /\ [][Pool!HeldIsKept]_<<ResidentPolicy, LeaseOf>>
  BY <1>1, <1>2, <1>3, PTL DEF Pool!Spec
<1> QED
  BY <1>4, ManagerImplementsPool DEF ImplementsWorkerPool

=============================================================================

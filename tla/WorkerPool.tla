----------------------------- MODULE WorkerPool -----------------------------
(***************************************************************************)
(* What the request handlers of src/src/server.cpp are promised by the     *)
(* worker manager, without its scheduling: a thread that was granted a     *)
(* worker keeps it, unchanged, until it returns it, and the workers in     *)
(* memory never reserve more than the machine has.  Strategies, workloads, *)
(* priorities, queues and pauses decide only when a worker is granted and  *)
(* which of the workers nobody holds are given up.                         *)
(***************************************************************************)
EXTENDS Reservations

CONSTANTS
  Models, Threads, Devices,
  Policies,          \* what a worker may be started with: [ram, vram, device, ...]
  None,
  RamCapacity,       \* RAM allocated to workers
  DeviceCapacity,    \* memory of each device allocated to workers
  MaxReservation     \* no policy reserves more of a pool

VARIABLES
  resident,   \* the policy a worker in memory was started with, or None
  lease       \* the worker each thread holds, or None

Held(m) == \E t \in Threads : lease[t] = m

ram_of(r) == [m \in Models |-> IF r[m] = None THEN 0 ELSE r[m].ram]
vram_of(r, d) == [m \in Models |-> IF r[m] # None /\ r[m].device = d THEN r[m].vram ELSE 0]

WithinCapacity(r) ==
  /\ Total(ram_of(r), Models, MaxReservation) <= RamCapacity
  /\ \A d \in Devices : Total(vram_of(r, d), Models, MaxReservation) <= DeviceCapacity[d]

Init ==
  /\ resident = [m \in Models |-> None]
  /\ lease = [t \in Threads |-> None]

\* Workers nobody holds may be given up at any time.
Evict(X) ==
  /\ \A m \in X : ~Held(m)
  /\ resident' = [m \in Models |-> IF m \in X THEN None ELSE resident[m]]
  /\ lease' = lease

\* A worker is started, or a running one shared, in place of the workers of X.
Grant(t, m, X) ==
  /\ lease[t] = None
  /\ \A k \in X : ~Held(k)
  /\ resident' \in [Models -> Policies \cup {None}]
  /\ resident'[m] # None
  /\ resident'[m] = resident[m] \/ ~Held(m)
  /\ \A k \in Models \ {m} : resident'[k] = IF k \in X THEN None ELSE resident[k]
  /\ WithinCapacity(resident')
  /\ lease' = [lease EXCEPT ![t] = m]

\* A worker may be given up together with the last lease on it.
Return(t, X) ==
  /\ lease[t] # None
  /\ lease' = [lease EXCEPT ![t] = None]
  /\ \A m \in X, u \in Threads : lease'[u] # m
  /\ resident' = [m \in Models |-> IF m \in X THEN None ELSE resident[m]]

Next ==
  \E X \in SUBSET Models :
    \/ Evict(X)
    \/ \E t \in Threads : Return(t, X)
    \/ \E t \in Threads, m \in Models : Grant(t, m, X)

Spec == Init /\ [][Next]_<<resident, lease>>

\* A worker some thread holds is in memory (a handler that proxies to the
\* engine of its lease reaches a running process).
HeldIsResident == \A t \in Threads : lease[t] # None => resident[lease[t]] # None

\* ... and is the worker it was granted: it is not restarted with another
\* policy under the request.
HeldIsKept ==
  \A t \in Threads : lease[t] # None /\ lease'[t] = lease[t] =>
    resident'[lease[t]] = resident[lease[t]]

=============================================================================

---------------------------- MODULE BackendProofs ----------------------------
(***************************************************************************)
(* What the server promises of the applications and the workers that it    *)
(* launches, and of the answers that it relays from a worker or through    *)
(* the bridge from an application: for any number of commands, versions,   *)
(* processes, ports, requests, records and pieces, and queues of any size. *)
(***************************************************************************)
EXTENDS Components, FiniteSetTheorems, SequenceTheorems, TLAPS

\* A step of another component leaves the applications as they are.
LEMMA AppsAlone == Spec => A!Spec
<1>1. Init => A!Init
  BY DEF Init
<1>2. [Next]_vars => [A!Next]_A!appVars
  BY DEF Next, vars, Alone, appVars, A!appVars
<1>3. QED BY <1>1, <1>2, PTL DEF Spec, A!Spec

-----------------------------------------------------------------------------
(* The commands of an application                                          *)

Replacing == {"fetching", "registering", "placing", "failing"}
Starting == {"leasing", "launching", "saving", "forking"}
Unlocked == {"waiting", "opening"}

AppTyped ==
  /\ app_lock \in Clients \cup {None}
  /\ installed \in Versions \cup {None}
  /\ staging \in BOOLEAN
  /\ command \in [Clients -> A!CommandType \cup {None}]
  /\ profile \in [A!BundleWorkloads -> A!ProfileState]
  /\ process \in [AppPids -> A!ProcessType \cup {None}]
  /\ record \in AppPids \cup {None}

\* The lock is held by the one command that is between its locked steps.
AppLocked ==
  \A c \in Clients :
    app_lock = c <=> command[c] # None /\ command[c].step \notin Unlocked

\* What an install or an upgrade that fails puts back is what it found: the
\* files, and the names of the workloads it has not written.
Restores(c) ==
  /\ command[c].prior = None => installed = None
  /\ command[c].step = "placing" => command[c].prior # None
  /\ command[c].step \in {"registering", "placing"} => command[c].version # None
  /\ \A w \in A!BundleWorkloads :
       IF w \in command[c].written THEN command[c].before[w] = "none"
       ELSE profile[w] = "none" <=> command[c].before[w] = "none"

\* What a command that starts an application relies on.
Starts(c) ==
  /\ command[c].step \in Starting => installed # None
  /\ command[c].step = "opening" => command[c].doc # None
  /\ command[c].step \in {"leasing", "launching", "forking"} => command[c].doc = installed
  /\ command[c].step \in {"opening", "forking"} => command[c].port = None
  /\ command[c].step = "launching" =>
       \A p \in AppPids : A!Alive(p) => process[p].port # command[c].port
  /\ command[c].step \in {"saving", "waiting"} =>
       command[c].pid # None /\ process[command[c].pid] # None

AppCommands ==
  \A c \in Clients : command[c] # None =>
    /\ command[c].step \in Replacing => Restores(c)
    /\ command[c].step \in Replacing \cup {"unregistering"} => ~A!running
    /\ Starts(c)

AppProcesses ==
  /\ record # None => process[record] # None
  /\ installed = None => ~A!running
  /\ \A p \in AppPids : process[p] # None =>
       process[p].files = process[p].manifest /\ process[p].port = process[p].uses
  /\ \A p, r \in AppPids : A!Alive(p) /\ A!Alive(r) /\ p # r /\ process[p].uses # None =>
       process[p].uses # process[r].uses

\* The inductive invariant.
Applied == AppTyped /\ AppLocked /\ AppCommands /\ AppProcesses

LEMMA AppBeginInstall ==
  ASSUME Applied, NEW c \in Clients, NEW v \in Versions, A!BeginInstall(c, v)
  PROVE  Applied'
<1> USE AppAssumption DEF A!BeginInstall, A!BeginLocked, A!Begin, A!Does, A!Busy, A!Alive, A!running
<1>1. AppTyped'
  BY DEF Applied, AppTyped, A!CommandType, A!ProcessType, A!Steps, A!ProfileState
<1>2. AppLocked'
  <2>1. command'[c] \in A!CommandType /\ command'[c].step = "fetching"
    BY <1>1 DEF Applied, AppTyped, AppLocked, A!CommandType, A!Steps, A!ProfileState
  <2>2. \A d \in Clients \ {c} : command'[d] = command[d]
    BY DEF Applied, AppTyped
  <2>3. \A d \in Clients \ {c} : app_lock # d /\ app_lock' # d
    BY DEF Applied, AppTyped, AppLocked, Unlocked
  <2>4. app_lock' = c
    BY DEF Applied, AppTyped, AppLocked, Unlocked
  <2> QED BY <2>1, <2>2, <2>3, <2>4 DEF Applied, AppLocked, Unlocked
<1>3. AppCommands'
  BY DEF Applied, AppTyped, AppLocked, AppCommands, AppProcesses, Unlocked, Replacing, Starting,
     Restores, Starts, A!CommandType, A!ProcessType
<1>4. AppProcesses'
  BY DEF Applied, AppTyped, AppLocked, AppCommands, AppProcesses, Unlocked, Replacing, Starting,
     Starts, A!CommandType, A!ProcessType
<1> QED BY <1>1, <1>2, <1>3, <1>4 DEF Applied

LEMMA AppFetch ==
  ASSUME Applied, NEW c \in Clients, NEW v \in Versions, A!Fetch(c, v)
  PROVE  Applied'
<1> USE AppAssumption DEF A!Fetch, A!Does, A!Busy, A!Alive, A!running
<1>1. AppTyped'
  <2>1. PICK s \in {"failing", "registering"} :
          command' = [command EXCEPT ![c].version = v, ![c].step = s]
    OBVIOUS
  <2>2. command[c] \in A!CommandType
    BY DEF Applied, AppTyped
  <2> HIDE DEF A!Fetch
  <2>3. [command[c] EXCEPT !.version = v, !.step = s] \in A!CommandType
    BY <2>2 DEF A!CommandType, A!Steps
  <2>4. command' \in [Clients -> A!CommandType \cup {None}]
    <3>1. command' = [command EXCEPT ![c] = [command[c] EXCEPT !.version = v, !.step = s]]
      BY <2>1, <2>2 DEF Applied, AppTyped
    <3>2. PICK d \in A!CommandType : command' = [command EXCEPT ![c] = d]
      BY <2>3, <3>1
    <3> QED BY <3>2 DEF Applied, AppTyped
  <2> QED BY <2>4 DEF Applied, AppTyped, A!Fetch
<1>2. AppLocked'
  BY DEF Applied, AppTyped, AppLocked, Unlocked, A!CommandType
<1>3. AppCommands'
  BY DEF Applied, AppTyped, AppLocked, AppCommands, AppProcesses, Unlocked, Replacing, Starting,
     Restores, Starts, A!CommandType, A!ProcessType
<1>4. AppProcesses'
  BY DEF Applied, AppTyped, AppLocked, AppCommands, AppProcesses, Unlocked, Replacing, Starting,
     Starts, A!CommandType, A!ProcessType
<1> QED BY <1>1, <1>2, <1>3, <1>4 DEF Applied

LEMMA AppRegister ==
  ASSUME Applied, NEW c \in Clients, NEW w \in A!BundleWorkloads, A!Register(c, w)
  PROVE  Applied'
<1> USE AppAssumption DEF A!Register, A!Does, A!Busy, A!Alive, A!running
<1>1. AppTyped'
  BY DEF Applied, AppTyped, A!CommandType, A!ProcessType, A!Steps, A!ProfileState
<1>2. AppLocked'
  BY DEF Applied, AppTyped, AppLocked, Unlocked, A!CommandType
<1>3. AppCommands'
  BY DEF Applied, AppTyped, AppLocked, AppCommands, AppProcesses, Unlocked, Replacing, Starting,
     Restores, Starts, A!CommandType, A!ProcessType
<1>4. AppProcesses'
  BY DEF Applied, AppTyped, AppLocked, AppCommands, AppProcesses, Unlocked, Replacing, Starting,
     Starts, A!CommandType, A!ProcessType
<1> QED BY <1>1, <1>2, <1>3, <1>4 DEF Applied

LEMMA AppMoveAside ==
  ASSUME Applied, NEW c \in Clients, A!MoveAside(c)
  PROVE  Applied'
<1> USE AppAssumption DEF A!MoveAside, A!Goto, A!Does, A!Busy, A!Alive, A!running
<1>1. AppTyped'
  BY DEF Applied, AppTyped, A!CommandType, A!ProcessType, A!Steps, A!ProfileState
<1>2. AppLocked'
  <2>1. command'[c] \in A!CommandType /\ command'[c].step = "placing"
    BY SMTT(20), <1>1 DEF Applied, AppTyped, AppLocked, A!CommandType, A!Steps, A!ProfileState
  <2>2. \A d \in Clients \ {c} : command'[d] = command[d]
    BY DEF Applied, AppTyped
  <2>3. \A d \in Clients \ {c} : app_lock # d /\ app_lock' # d
    BY DEF Applied, AppTyped, AppLocked, Unlocked
  <2>4. app_lock' = c
    BY DEF Applied, AppTyped, AppLocked, Unlocked
  <2> QED BY <2>1, <2>2, <2>3, <2>4 DEF Applied, AppLocked, Unlocked
<1>3. AppCommands'
  BY DEF Applied, AppTyped, AppLocked, AppCommands, AppProcesses, Unlocked, Replacing, Starting,
     Restores, Starts, A!CommandType, A!ProcessType
<1>4. AppProcesses'
  BY DEF Applied, AppTyped, AppLocked, AppCommands, AppProcesses, Unlocked, Replacing, Starting,
     Starts, A!CommandType, A!ProcessType
<1> QED BY <1>1, <1>2, <1>3, <1>4 DEF Applied

LEMMA AppPutInPlace ==
  ASSUME Applied, NEW c \in Clients, A!PutInPlace(c)
  PROVE  Applied'
<1> USE AppAssumption DEF A!PutInPlace, A!End, A!Does, A!Busy, A!Alive, A!running
<1>1. AppTyped'
  BY DEF Applied, AppTyped, A!CommandType, A!ProcessType, A!Steps, A!ProfileState
<1>2. AppLocked'
  BY DEF Applied, AppTyped, AppLocked, Unlocked, A!CommandType
<1>3. AppCommands'
  BY DEF Applied, AppTyped, AppLocked, AppCommands, AppProcesses, Unlocked, Replacing, Starting,
     Restores, Starts, A!CommandType, A!ProcessType
<1>4. AppProcesses'
  BY DEF Applied, AppTyped, AppLocked, AppCommands, AppProcesses, Unlocked, Replacing, Starting,
     Starts, A!CommandType, A!ProcessType
<1> QED BY <1>1, <1>2, <1>3, <1>4 DEF Applied

LEMMA AppThrow ==
  ASSUME Applied, NEW c \in Clients, A!Throw(c)
  PROVE  Applied'
<1> USE AppAssumption DEF A!Throw, A!Goto, A!Does, A!Busy, A!Alive, A!running
<1>1. AppTyped'
  BY DEF Applied, AppTyped, A!CommandType, A!ProcessType, A!Steps, A!ProfileState
<1>2. AppLocked'
  <2>1. command'[c] \in A!CommandType /\ command'[c].step = "failing"
    BY <1>1 DEF Applied, AppTyped, AppLocked, A!CommandType, A!Steps, A!ProfileState
  <2>2. \A d \in Clients \ {c} : command'[d] = command[d]
    BY DEF Applied, AppTyped
  <2>3. \A d \in Clients \ {c} : app_lock # d /\ app_lock' # d
    BY DEF Applied, AppTyped, AppLocked, Unlocked
  <2>4. app_lock' = c
    BY DEF Applied, AppTyped, AppLocked, Unlocked
  <2> QED BY <2>1, <2>2, <2>3, <2>4 DEF Applied, AppLocked, Unlocked
<1>3. AppCommands'
  BY DEF Applied, AppTyped, AppLocked, AppCommands, AppProcesses, Unlocked, Replacing, Starting,
     Restores, Starts, A!CommandType, A!ProcessType
<1>4. AppProcesses'
  BY DEF Applied, AppTyped, AppLocked, AppCommands, AppProcesses, Unlocked, Replacing, Starting,
     Starts, A!CommandType, A!ProcessType
<1> QED BY <1>1, <1>2, <1>3, <1>4 DEF Applied

LEMMA AppRollBack ==
  ASSUME Applied, NEW c \in Clients, A!RollBack(c)
  PROVE  Applied'
<1> USE AppAssumption DEF A!RollBack, A!End, A!Does, A!Busy, A!Alive, A!running
<1>1. AppTyped'
  BY DEF Applied, AppTyped, A!CommandType, A!ProcessType, A!Steps, A!ProfileState
<1>2. AppLocked'
  BY DEF Applied, AppTyped, AppLocked, Unlocked, A!CommandType
<1>3. AppCommands'
  BY DEF Applied, AppTyped, AppLocked, AppCommands, AppProcesses, Unlocked, Replacing, Starting,
     Restores, Starts, A!CommandType, A!ProcessType
<1>4. AppProcesses'
  BY DEF Applied, AppTyped, AppLocked, AppCommands, AppProcesses, Unlocked, Replacing, Starting,
     Starts, A!CommandType, A!ProcessType
<1> QED BY <1>1, <1>2, <1>3, <1>4 DEF Applied

LEMMA AppBeginUninstall ==
  ASSUME Applied, NEW c \in Clients, A!BeginUninstall(c)
  PROVE  Applied'
<1> USE AppAssumption DEF A!BeginUninstall, A!BeginLocked, A!Begin, A!Does, A!Busy, A!Alive,
                          A!running
<1>1. AppTyped'
  BY DEF Applied, AppTyped, A!CommandType, A!ProcessType, A!Steps, A!ProfileState
<1>2. AppLocked'
  <2>1. command'[c] \in A!CommandType /\ command'[c].step = "unregistering"
    BY <1>1 DEF Applied, AppTyped, AppLocked, A!CommandType, A!Steps, A!ProfileState
  <2>2. \A d \in Clients \ {c} : command'[d] = command[d]
    BY DEF Applied, AppTyped
  <2>3. \A d \in Clients \ {c} : app_lock # d /\ app_lock' # d
    BY DEF Applied, AppTyped, AppLocked, Unlocked
  <2>4. app_lock' = c
    BY DEF Applied, AppTyped, AppLocked, Unlocked
  <2> QED BY <2>1, <2>2, <2>3, <2>4 DEF Applied, AppLocked, Unlocked
<1>3. AppCommands'
  BY DEF Applied, AppTyped, AppLocked, AppCommands, AppProcesses, Unlocked, Replacing, Starting,
     Restores, Starts, A!CommandType, A!ProcessType
<1>4. AppProcesses'
  BY DEF Applied, AppTyped, AppLocked, AppCommands, AppProcesses, Unlocked, Replacing, Starting,
     Starts, A!CommandType, A!ProcessType
<1> QED BY <1>1, <1>2, <1>3, <1>4 DEF Applied

LEMMA AppUnregister ==
  ASSUME Applied, NEW c \in Clients, NEW w \in A!BundleWorkloads, A!Unregister(c, w)
  PROVE  Applied'
<1> USE AppAssumption DEF A!Unregister, A!Does, A!Busy, A!Alive, A!running
<1>1. AppTyped'
  BY DEF Applied, AppTyped, A!CommandType, A!ProcessType, A!Steps, A!ProfileState
<1>2. AppLocked'
  BY DEF Applied, AppTyped, AppLocked, Unlocked, A!CommandType
<1>3. AppCommands'
  BY DEF Applied, AppTyped, AppLocked, AppCommands, AppProcesses, Unlocked, Replacing, Starting,
     Restores, Starts, A!CommandType, A!ProcessType
<1>4. AppProcesses'
  BY DEF Applied, AppTyped, AppLocked, AppCommands, AppProcesses, Unlocked, Replacing, Starting,
     Starts, A!CommandType, A!ProcessType
<1> QED BY <1>1, <1>2, <1>3, <1>4 DEF Applied

LEMMA AppRemove ==
  ASSUME Applied, NEW c \in Clients, A!Remove(c)
  PROVE  Applied'
<1> USE AppAssumption DEF A!Remove, A!End, A!Does, A!Busy, A!Alive, A!running
<1>1. AppTyped'
  BY DEF Applied, AppTyped, A!CommandType, A!ProcessType, A!Steps, A!ProfileState
<1>2. AppLocked'
  BY DEF Applied, AppTyped, AppLocked, Unlocked, A!CommandType
<1>3. AppCommands'
  BY DEF Applied, AppTyped, AppLocked, AppCommands, AppProcesses, Unlocked, Replacing, Starting,
     Restores, Starts, A!CommandType, A!ProcessType
<1>4. AppProcesses'
  BY DEF Applied, AppTyped, AppLocked, AppCommands, AppProcesses, Unlocked, Replacing, Starting,
     Starts, A!CommandType, A!ProcessType
<1> QED BY <1>1, <1>2, <1>3, <1>4 DEF Applied

LEMMA AppStop ==
  ASSUME Applied, NEW c \in Clients, A!Stop(c)
  PROVE  Applied'
<1> USE AppAssumption DEF A!Stop, A!Does, A!Busy, A!Alive, A!running
<1>1. AppTyped'
  BY DEF Applied, AppTyped, A!CommandType, A!ProcessType, A!Steps, A!ProfileState
<1>2. AppLocked'
  BY DEF Applied, AppTyped, AppLocked, Unlocked, A!CommandType
<1>3. AppCommands'
  BY DEF Applied, AppTyped, AppLocked, AppCommands, AppProcesses, Unlocked, Replacing, Starting,
     Restores, Starts, A!CommandType, A!ProcessType
<1>4. AppProcesses'
  BY DEF Applied, AppTyped, AppLocked, AppCommands, AppProcesses, Unlocked, Replacing, Starting,
     Starts, A!CommandType, A!ProcessType
<1> QED BY <1>1, <1>2, <1>3, <1>4 DEF Applied

LEMMA AppBeginStart ==
  ASSUME Applied, NEW c \in Clients, A!BeginStart(c)
  PROVE  Applied'
<1> USE AppAssumption DEF A!BeginStart, A!BeginLocked, A!Begin, A!Does, A!Busy, A!Alive, A!running
<1>1. AppTyped'
  BY DEF Applied, AppTyped, A!CommandType, A!ProcessType, A!Steps, A!ProfileState
<1>2. AppLocked'
  <2>1. command'[c] \in A!CommandType /\ command'[c].step = "leasing"
    BY <1>1 DEF Applied, AppTyped, AppLocked, A!CommandType, A!Steps, A!ProfileState
  <2>2. \A d \in Clients \ {c} : command'[d] = command[d]
    BY DEF Applied, AppTyped
  <2>3. \A d \in Clients \ {c} : app_lock # d /\ app_lock' # d
    BY DEF Applied, AppTyped, AppLocked, Unlocked
  <2>4. app_lock' = c
    BY DEF Applied, AppTyped, AppLocked, Unlocked
  <2> QED BY <2>1, <2>2, <2>3, <2>4 DEF Applied, AppLocked, Unlocked
<1>3. AppCommands'
  BY DEF Applied, AppTyped, AppLocked, AppCommands, AppProcesses, Unlocked, Replacing, Starting,
     Restores, Starts, A!CommandType, A!ProcessType
<1>4. AppProcesses'
  BY DEF Applied, AppTyped, AppLocked, AppCommands, AppProcesses, Unlocked, Replacing, Starting,
     Starts, A!CommandType, A!ProcessType
<1> QED BY <1>1, <1>2, <1>3, <1>4 DEF Applied

LEMMA AppAcquire ==
  ASSUME Applied, NEW c \in Clients, NEW q \in AppPorts, A!Acquire(c, q)
  PROVE  Applied'
<1> USE AppAssumption DEF A!Acquire, A!Held, A!Does, A!Busy, A!Alive, A!running
<1>1. AppTyped'
  BY DEF Applied, AppTyped, A!CommandType, A!ProcessType, A!Steps, A!ProfileState
<1>2. AppLocked'
  BY DEF Applied, AppTyped, AppLocked, Unlocked, A!CommandType
<1>3. AppCommands'
  BY DEF Applied, AppTyped, AppLocked, AppCommands, AppProcesses, Unlocked, Replacing, Starting,
     Restores, Starts, A!CommandType, A!ProcessType
<1>4. AppProcesses'
  BY DEF Applied, AppTyped, AppLocked, AppCommands, AppProcesses, Unlocked, Replacing, Starting,
     Starts, A!CommandType, A!ProcessType
<1> QED BY <1>1, <1>2, <1>3, <1>4 DEF Applied

LEMMA AppFork ==
  ASSUME Applied, NEW c \in Clients, NEW p \in AppPids, A!Fork(c, p)
  PROVE  Applied'
<1> USE AppAssumption DEF A!Fork, A!Launch, A!Inherited, A!Does, A!Busy, A!Alive, A!running
<1>1. AppTyped'
  BY DEF Applied, AppTyped, A!CommandType, A!ProcessType, A!Steps, A!ProfileState
<1>2. AppLocked'
  BY DEF Applied, AppTyped, AppLocked, Unlocked, A!CommandType
<1>3. AppCommands'
  BY DEF Applied, AppTyped, AppLocked, AppCommands, AppProcesses, Unlocked, Replacing, Starting,
     Restores, Starts, A!CommandType, A!ProcessType
<1>4. AppProcesses'
  BY DEF Applied, AppTyped, AppLocked, AppCommands, AppProcesses, Unlocked, Replacing, Starting,
     Starts, A!CommandType, A!ProcessType
<1> QED BY <1>1, <1>2, <1>3, <1>4 DEF Applied

LEMMA AppSave ==
  ASSUME Applied, NEW c \in Clients, A!Save(c)
  PROVE  Applied'
<1> USE AppAssumption DEF A!Save, A!End, A!Does, A!Busy, A!Alive, A!running
<1>1. AppTyped'
  BY DEF Applied, AppTyped, A!CommandType, A!ProcessType, A!Steps, A!ProfileState
<1>2. AppLocked'
  BY DEF Applied, AppTyped, AppLocked, Unlocked, A!CommandType
<1>3. AppCommands'
  BY DEF Applied, AppTyped, AppLocked, AppCommands, AppProcesses, Unlocked, Replacing, Starting,
     Restores, Starts, A!CommandType, A!ProcessType
<1>4. AppProcesses'
  BY DEF Applied, AppTyped, AppLocked, AppCommands, AppProcesses, Unlocked, Replacing, Starting,
     Starts, A!CommandType, A!ProcessType
<1> QED BY <1>1, <1>2, <1>3, <1>4 DEF Applied

LEMMA AppStartFails ==
  ASSUME Applied, NEW c \in Clients, A!StartFails(c)
  PROVE  Applied'
<1> USE AppAssumption DEF A!StartFails, A!End, A!Does, A!Busy, A!Alive, A!running
<1>1. AppTyped'
  BY DEF Applied, AppTyped, A!CommandType, A!ProcessType, A!Steps, A!ProfileState
<1>2. AppLocked'
  BY DEF Applied, AppTyped, AppLocked, Unlocked, A!CommandType
<1>3. AppCommands'
  BY DEF Applied, AppTyped, AppLocked, AppCommands, AppProcesses, Unlocked, Replacing, Starting,
     Restores, Starts, A!CommandType, A!ProcessType
<1>4. AppProcesses'
  BY DEF Applied, AppTyped, AppLocked, AppCommands, AppProcesses, Unlocked, Replacing, Starting,
     Starts, A!CommandType, A!ProcessType
<1> QED BY <1>1, <1>2, <1>3, <1>4 DEF Applied

LEMMA AppBeginOpen ==
  ASSUME Applied, NEW c \in Clients, A!BeginOpen(c)
  PROVE  Applied'
<1> USE AppAssumption DEF A!BeginOpen, A!Begin, A!Does, A!Busy, A!Alive, A!running
<1>1. AppTyped'
  BY DEF Applied, AppTyped, A!CommandType, A!ProcessType, A!Steps, A!ProfileState
<1>2. AppLocked'
  BY DEF Applied, AppTyped, AppLocked, Unlocked, A!CommandType
<1>3. AppCommands'
  BY DEF Applied, AppTyped, AppLocked, AppCommands, AppProcesses, Unlocked, Replacing, Starting,
     Restores, Starts, A!CommandType, A!ProcessType
<1>4. AppProcesses'
  BY DEF Applied, AppTyped, AppLocked, AppCommands, AppProcesses, Unlocked, Replacing, Starting,
     Starts, A!CommandType, A!ProcessType
<1> QED BY <1>1, <1>2, <1>3, <1>4 DEF Applied

LEMMA AppReopen ==
  ASSUME Applied, NEW c \in Clients, A!Reopen(c)
  PROVE  Applied'
<1> USE AppAssumption DEF A!Reopen, A!Goto, A!End, A!verify_installed_app, A!Does, A!Busy,
                          A!Alive, A!running
<1>1. AppTyped'
  BY DEF Applied, AppTyped, A!CommandType, A!ProcessType, A!Steps, A!ProfileState
<1>2. AppLocked'
  <2>1. \A d \in Clients \ {c} : command'[d] = command[d]
    BY DEF Applied, AppTyped
  <2>2. CASE app_lock = None /\ installed = command[c].doc
    <3>1. command'[c] \in A!CommandType /\ command'[c].step = "forking" /\ app_lock' = c
      BY <1>1, <2>2 DEF Applied, AppTyped, AppLocked, A!CommandType, A!Steps
    <3> QED BY <2>1, <2>2, <3>1 DEF Applied, AppLocked, Unlocked
  <2>3. CASE ~(app_lock = None /\ installed = command[c].doc)
    <3>1. command'[c] = None /\ app_lock' = app_lock
      BY <2>3 DEF Applied, AppTyped, AppLocked, Unlocked
    <3> QED BY <2>1, <3>1 DEF Applied, AppLocked, Unlocked
  <2> QED BY <2>2, <2>3
<1>3. AppCommands'
  BY DEF Applied, AppTyped, AppLocked, AppCommands, AppProcesses, Unlocked, Replacing, Starting,
     Restores, Starts, A!CommandType, A!ProcessType
<1>4. AppProcesses'
  BY DEF Applied, AppTyped, AppLocked, AppCommands, AppProcesses, Unlocked, Replacing, Starting,
     Starts, A!CommandType, A!ProcessType
<1> QED BY <1>1, <1>2, <1>3, <1>4 DEF Applied

LEMMA AppForkTerminal ==
  ASSUME Applied, NEW c \in Clients, NEW p \in AppPids, A!ForkTerminal(c, p)
  PROVE  Applied'
<1> USE AppAssumption DEF A!ForkTerminal, A!Launch, A!Inherited, A!Does, A!Busy, A!Alive, A!running
<1>1. AppTyped'
  BY DEF Applied, AppTyped, A!CommandType, A!ProcessType, A!Steps, A!ProfileState
<1>2. AppLocked'
  BY DEF Applied, AppTyped, AppLocked, Unlocked, A!CommandType
<1>3. AppCommands'
  BY DEF Applied, AppTyped, AppLocked, AppCommands, AppProcesses, Unlocked, Replacing, Starting,
     Restores, Starts, A!CommandType, A!ProcessType
<1>4. AppProcesses'
  BY DEF Applied, AppTyped, AppLocked, AppCommands, AppProcesses, Unlocked, Replacing, Starting,
     Starts, A!CommandType, A!ProcessType
<1> QED BY <1>1, <1>2, <1>3, <1>4 DEF Applied

LEMMA AppClose ==
  ASSUME Applied, NEW c \in Clients, A!Close(c)
  PROVE  Applied'
<1> USE AppAssumption DEF A!Close, A!End, A!Does, A!Busy, A!Alive, A!running
<1>1. AppTyped'
  BY DEF Applied, AppTyped, A!CommandType, A!ProcessType, A!Steps, A!ProfileState
<1>2. AppLocked'
  BY DEF Applied, AppTyped, AppLocked, Unlocked, A!CommandType
<1>3. AppCommands'
  BY DEF Applied, AppTyped, AppLocked, AppCommands, AppProcesses, Unlocked, Replacing, Starting,
     Restores, Starts, A!CommandType, A!ProcessType
<1>4. AppProcesses'
  BY DEF Applied, AppTyped, AppLocked, AppCommands, AppProcesses, Unlocked, Replacing, Starting,
     Starts, A!CommandType, A!ProcessType
<1> QED BY <1>1, <1>2, <1>3, <1>4 DEF Applied

LEMMA AppCrash ==
  ASSUME Applied, NEW c \in Clients, A!Crash(c)
  PROVE  Applied'
<1> USE AppAssumption DEF A!Crash, A!End, A!Does, A!Busy, A!Alive, A!running
<1>1. AppTyped'
  BY DEF Applied, AppTyped, A!CommandType, A!ProcessType, A!Steps, A!ProfileState
<1>2. AppLocked'
  BY DEF Applied, AppTyped, AppLocked, Unlocked, A!CommandType
<1>3. AppCommands'
  BY DEF Applied, AppTyped, AppLocked, AppCommands, AppProcesses, Unlocked, Replacing, Starting,
     Restores, Starts, A!CommandType, A!ProcessType
<1>4. AppProcesses'
  BY DEF Applied, AppTyped, AppLocked, AppCommands, AppProcesses, Unlocked, Replacing, Starting,
     Starts, A!CommandType, A!ProcessType
<1> QED BY <1>1, <1>2, <1>3, <1>4 DEF Applied

LEMMA AppExit ==
  ASSUME Applied, NEW p \in AppPids, A!Exit(p)
  PROVE  Applied'
<1> USE AppAssumption DEF A!Exit, A!Alive, A!running
<1>1. AppTyped'
  BY ZenonT(30) DEF Applied, AppTyped, A!ProcessType
<1>2. AppLocked'
  BY DEF Applied, AppLocked
<1> DEFINE Same(i) == /\ process[i] # None <=> process'[i] # None
                      /\ process[i] # None =>
                           /\ process'[i].alive => process[i].alive
                           /\ process'[i].files = process[i].files
                           /\ process'[i].manifest = process[i].manifest
                           /\ process'[i].uses = process[i].uses
                           /\ process'[i].port = process[i].port
<1>3. \A i \in AppPids : Same(i)
  <2>1. Same(p)
    BY <1>1 DEF Applied, AppTyped, A!ProcessType
  <2>2. \A i \in AppPids \ {p} : process'[i] = process[i]
    BY DEF Applied, AppTyped
  <2> QED BY <2>1, <2>2
<1>4. UNCHANGED <<app_lock, command, installed, staging, profile, record>>
  OBVIOUS
<1> HIDE DEF A!Exit
<1>5. AppCommands'
  BY <1>3, <1>4 DEF Applied, AppTyped, AppCommands, Restores, Starts, A!CommandType
<1>6. AppProcesses'
  BY <1>3, <1>4 DEF Applied, AppTyped, AppProcesses
<1> QED BY <1>1, <1>2, <1>5, <1>6 DEF Applied

LEMMA AppEdit ==
  ASSUME Applied, NEW w \in A!BundleWorkloads, A!Edit(w)
  PROVE  Applied'
<1> USE AppAssumption DEF A!Edit, A!Alive, A!running
<1>1. AppTyped'
  BY DEF Applied, AppTyped, A!ProfileState
<1>2. AppLocked'
  BY DEF Applied, AppLocked
<1>3. AppCommands'
  BY DEF Applied, AppTyped, AppCommands, Restores, Starts
<1>4. AppProcesses'
  BY DEF Applied, AppTyped, AppProcesses
<1> QED BY <1>1, <1>2, <1>3, <1>4 DEF Applied

LEMMA AppInit == A!Init => Applied
<1> SUFFICES ASSUME A!Init PROVE Applied
  OBVIOUS
<1> USE AppAssumption DEF A!Init
<1>1. AppTyped
  BY DEF AppTyped, A!ProfileState
<1>2. AppLocked
  BY DEF AppLocked
<1>3. AppCommands
  BY DEF AppCommands
<1>4. AppProcesses
  BY DEF AppProcesses, A!Alive, A!running
<1> QED BY <1>1, <1>2, <1>3, <1>4 DEF Applied

LEMMA AppNext == Applied /\ [A!Next]_A!appVars => Applied'
<1> SUFFICES ASSUME Applied, [A!Next]_A!appVars PROVE Applied'
  OBVIOUS
<1>1. CASE UNCHANGED A!appVars
  BY <1>1 DEF A!appVars, Applied, AppTyped, AppLocked, AppCommands, AppProcesses, Restores, Starts,
     A!Alive, A!running
<1>2. ASSUME NEW c \in Clients, NEW v \in Versions, A!BeginInstall(c, v) \/ A!Fetch(c, v) PROVE Applied'
  BY <1>2, AppBeginInstall, AppFetch
<1>3. ASSUME NEW c \in Clients, NEW w \in A!BundleWorkloads, A!Register(c, w) \/ A!Unregister(c, w)
      PROVE Applied'
  BY <1>3, AppRegister, AppUnregister
<1>4. ASSUME NEW c \in Clients,
             \/ A!MoveAside(c) \/ A!PutInPlace(c) \/ A!Throw(c) \/ A!RollBack(c)
             \/ A!BeginUninstall(c) \/ A!Remove(c) \/ A!Stop(c)
      PROVE Applied'
  BY <1>4, AppMoveAside, AppPutInPlace, AppThrow, AppRollBack, AppBeginUninstall, AppRemove, AppStop
<1>5. ASSUME NEW c \in Clients, NEW q \in AppPorts, A!Acquire(c, q) PROVE Applied'
  BY <1>5, AppAcquire
<1>6. ASSUME NEW c \in Clients, NEW p \in AppPids, A!Fork(c, p) \/ A!ForkTerminal(c, p) PROVE Applied'
  BY <1>6, AppFork, AppForkTerminal
<1>7. ASSUME NEW c \in Clients,
             \/ A!BeginStart(c) \/ A!StartFails(c) \/ A!Save(c)
             \/ A!BeginOpen(c) \/ A!Reopen(c) \/ A!Close(c) \/ A!Crash(c)
      PROVE Applied'
  BY <1>7, AppBeginStart, AppStartFails, AppSave, AppBeginOpen, AppReopen, AppClose, AppCrash
<1>8. ASSUME NEW p \in AppPids, A!Exit(p) PROVE Applied'
  BY <1>8, AppExit
<1>9. ASSUME NEW w \in A!BundleWorkloads, A!Edit(w) PROVE Applied'
  BY <1>9, AppEdit
<1> QED BY <1>1, <1>2, <1>3, <1>4, <1>5, <1>6, <1>7, <1>8, <1>9 DEF A!Next

-----------------------------------------------------------------------------
(* Commands are counted                                                    *)

BusyCommands == {c \in Clients : command[c] # None}

\* A command is counted once when it begins and once more if it is killed.
AppCounted ==
  /\ actions \in 0..MaxActions /\ kills \in Nat
  /\ kills + Cardinality(BusyCommands) <= actions

\* What a step does to the counters.
Counts ==
  \/ \E c \in Clients \ BusyCommands :
       BusyCommands' = BusyCommands \cup {c} /\ actions < MaxActions /\ actions' = actions + 1
         /\ kills' = kills
  \/ \E c \in BusyCommands :
       BusyCommands' = BusyCommands \ {c} /\ actions' = actions /\ kills' \in {kills, kills + 1}
  \/ BusyCommands' = BusyCommands /\ kills' = kills
       /\ (actions' = actions \/ (actions < MaxActions /\ actions' = actions + 1))

LEMMA AppCounts ==
  ASSUME Applied, Applied', A!Next
  PROVE  Counts
<1> USE AppAssumption DEF BusyCommands, A!Busy, A!Does, Applied, AppTyped
<1>1. ASSUME NEW c \in Clients, NEW s \in A!Steps, A!Begin(c, s), kills' = kills
      PROVE  Counts
  <2>1. command[c] = None /\ command'[c] # None /\ actions < MaxActions /\ actions' = actions + 1
    BY <1>1 DEF A!Begin, A!CommandType, A!ProfileState
  <2>2. \A d \in Clients \ {c} : command'[d] = command[d]
    BY <1>1 DEF A!Begin
  <2>3. BusyCommands' = BusyCommands \cup {c}
    BY <2>1, <2>2
  <2> QED BY <1>1, <2>1, <2>3 DEF Counts
<1>2. ASSUME NEW c \in Clients, command[c] # None, A!End(c),
             actions' = actions, kills' \in {kills, kills + 1}
      PROVE  Counts
  <2>1. command'[c] = None /\ \A d \in Clients \ {c} : command'[d] = command[d]
    BY <1>2 DEF A!End
  <2>2. BusyCommands' = BusyCommands \ {c}
    BY <2>1
  <2>3. c \in BusyCommands
    BY <1>2
  <2> HIDE DEF BusyCommands
  <2> QED BY <1>2, <2>2, <2>3 DEF Counts
<1>3. ASSUME NEW c \in Clients, command[c] # None, command'[c] # None, actions' = actions, kills' = kills,
             \A d \in Clients \ {c} : command'[d] = command[d]
      PROVE  Counts
  <2>1. BusyCommands' = BusyCommands
    BY <1>3
  <2> HIDE DEF BusyCommands
  <2> QED BY <1>3, <2>1 DEF Counts
<1>4. ASSUME UNCHANGED <<command, kills>>,
             actions' = actions \/ (actions < MaxActions /\ actions' = actions + 1)
      PROVE  Counts
  BY <1>4 DEF Counts
<1>5. ASSUME NEW c \in Clients,
             \/ \E v \in Versions : A!BeginInstall(c, v)
             \/ A!BeginUninstall(c) \/ A!BeginStart(c) \/ A!BeginOpen(c)
      PROVE  Counts
  BY <1>1, <1>5 DEF A!BeginInstall, A!BeginUninstall, A!BeginStart, A!BeginOpen, A!BeginLocked,
     A!Steps
<1>6. ASSUME NEW c \in Clients,
             \/ A!PutInPlace(c) \/ A!RollBack(c) \/ A!Remove(c)
             \/ A!StartFails(c) \/ A!Close(c) \/ A!Crash(c)
      PROVE  Counts
  BY <1>2, <1>6 DEF A!PutInPlace, A!RollBack, A!Remove, A!StartFails, A!Close, A!Crash
<1>7. ASSUME NEW c \in Clients, NEW p,
             \/ p \in Versions /\ A!Fetch(c, p)
             \/ p \in A!BundleWorkloads /\ A!Register(c, p)
             \/ p \in AppPorts /\ A!Acquire(c, p)
             \/ p \in AppPids /\ (A!Fork(c, p) \/ A!ForkTerminal(c, p))
             \/ A!MoveAside(c) \/ A!Throw(c)
      PROVE  Counts
  <2>1. /\ command[c] # None /\ actions' = actions /\ kills' = kills
        /\ \A d \in Clients \ {c} : command'[d] = command[d]
    BY <1>7 DEF A!Fetch, A!Register, A!Acquire, A!Fork, A!ForkTerminal, A!Launch, A!MoveAside,
       A!Throw, A!Goto
  <2>2. command'[c] # None
    <3>1. command[c] \in A!CommandType
      BY <2>1
    <3> QED BY SMTT(20), <1>7, <3>1 DEF A!Fetch, A!Register, A!Acquire, A!Fork, A!ForkTerminal, A!Launch,
               A!MoveAside, A!Throw, A!Goto, A!CommandType, A!Steps, A!Inherited
  <2> QED BY <1>3, <2>1, <2>2
<1>8. ASSUME NEW c \in Clients, A!Save(c) \/ A!Reopen(c)
      PROVE  Counts
  <2>1. command[c] # None /\ actions' = actions /\ kills' = kills
    BY <1>8 DEF A!Save, A!Reopen
  <2>2. CASE A!End(c)
    BY <1>2, <2>1, <2>2
  <2>3. CASE ~A!End(c)
    <3>1. PICK s \in A!Steps : command' = [command EXCEPT ![c].step = s]
      BY <1>8, <2>3 DEF A!Save, A!Reopen, A!Goto, A!Steps
    <3>2. command'[c] # None
      BY <2>1, <3>1 DEF A!CommandType
    <3>3. \A d \in Clients \ {c} : command'[d] = command[d]
      BY <3>1
    <3> QED BY <1>3, <2>1, <3>2, <3>3
  <2> QED BY <2>2, <2>3
<1>9. ASSUME \/ \E p \in AppPids : A!Exit(p)
             \/ \E w \in A!BundleWorkloads : A!Edit(w) \/ \E c \in Clients : A!Unregister(c, w)
             \/ \E c \in Clients : A!Stop(c)
      PROVE  Counts
  BY <1>4, <1>9 DEF A!Exit, A!Edit, A!Unregister, A!Stop
<1> HIDE DEF BusyCommands, A!Busy, A!Does, Applied, AppTyped
<1>10. ASSUME NEW c \in Clients,
              \/ \E v \in Versions : A!BeginInstall(c, v) \/ A!Fetch(c, v)
              \/ \E w \in A!BundleWorkloads : A!Register(c, w) \/ A!Unregister(c, w)
              \/ \E q \in AppPorts : A!Acquire(c, q)
              \/ \E p \in AppPids : A!Fork(c, p) \/ A!ForkTerminal(c, p)
       PROVE  Counts
  BY <1>5, <1>7, <1>9, <1>10
<1> QED BY <1>5, <1>6, <1>7, <1>8, <1>9, <1>10 DEF A!Next

LEMMA AppCountedNext ==
  ASSUME Applied, Applied', AppCounted, [A!Next]_A!appVars
  PROVE  AppCounted'
<1>1. CASE UNCHANGED A!appVars
  BY <1>1 DEF A!appVars, AppCounted, BusyCommands
<1>2. CASE A!Next
  <2>1. Counts
    BY <1>2, AppCounts
  <2>2. IsFiniteSet(BusyCommands) /\ Cardinality(BusyCommands) \in Nat
    <3>1. IsFiniteSet(BusyCommands)
      BY RelayAssumption, FS_Subset DEF BusyCommands
    <3> QED BY <3>1, FS_CardinalityType
  <2>3. /\ actions \in 0..MaxActions /\ kills \in Nat /\ MaxActions \in Nat
        /\ kills + Cardinality(BusyCommands) <= actions
    BY AppAssumption DEF AppCounted
  <2>4. ASSUME NEW c \in Clients \ BusyCommands, BusyCommands' = BusyCommands \cup {c},
               actions < MaxActions, actions' = actions + 1, kills' = kills
        PROVE  AppCounted'
    <3>1. Cardinality(BusyCommands \cup {c}) = Cardinality(BusyCommands) + 1
      BY <2>2, FS_AddElement
    <3> QED BY <2>2, <2>3, <2>4, <3>1 DEF AppCounted
  <2>5. ASSUME NEW c \in BusyCommands, BusyCommands' = BusyCommands \ {c},
               actions' = actions, kills' \in {kills, kills + 1}
        PROVE  AppCounted'
    <3>1. Cardinality(BusyCommands \ {c}) = Cardinality(BusyCommands) - 1
      BY <2>2, FS_RemoveElement
    <3> QED BY <2>2, <2>3, <2>5, <3>1 DEF AppCounted
  <2>6. ASSUME BusyCommands' = BusyCommands, kills' = kills,
               actions' = actions \/ (actions < MaxActions /\ actions' = actions + 1)
        PROVE  AppCounted'
    BY <2>2, <2>3, <2>6 DEF AppCounted
  <2> QED BY <2>1, <2>4, <2>5, <2>6 DEF Counts
<1> QED BY <1>1, <1>2

LEMMA AppCountedInit == A!Init => AppCounted
<1> SUFFICES ASSUME A!Init PROVE AppCounted
  OBVIOUS
<1>1. BusyCommands = {}
  BY DEF A!Init, BusyCommands
<1>2. Cardinality(BusyCommands) = 0
  BY <1>1, FS_EmptySet
<1> QED BY <1>2, AppAssumption DEF A!Init, AppCounted

LEMMA AppInvariant == A!Spec => [](Applied /\ AppCounted)
<1>1. A!Init => Applied /\ AppCounted
  BY AppInit, AppCountedInit
<1>2. Applied /\ AppCounted /\ [A!Next]_A!appVars => (Applied /\ AppCounted)'
  BY AppNext, AppCountedNext
<1> QED BY <1>1, <1>2, PTL DEF A!Spec

\* Only its roll-back ends a command that is failing and is not killed.
LEMMA FailingEnds ==
  ASSUME Applied, AppCounted, A!Next, NEW c \in Clients, A!Does(c, "failing"), command'[c] = None,
         kills' = kills
  PROVE  A!RollBack(c)
<1> USE AppAssumption DEF A!Does, A!Busy
<1>1. kills \in Nat /\ command \in [Clients -> A!CommandType \cup {None}] /\ command[c] # None
      /\ command[c].step = "failing"
  BY DEF AppCounted, Applied, AppTyped
<1> HIDE DEF Applied, AppCounted
<1>2. ASSUME NEW d \in Clients, d # c, \A e \in Clients \ {d} : command'[e] = command[e]
      PROVE  FALSE
  BY <1>1, <1>2
<1>3. ASSUME NEW d \in Clients, NEW p,
             \/ p \in Versions /\ (A!BeginInstall(d, p) \/ A!Fetch(d, p))
             \/ p \in A!BundleWorkloads /\ A!Register(d, p)
             \/ p \in AppPorts /\ A!Acquire(d, p)
             \/ p \in AppPids /\ (A!Fork(d, p) \/ A!ForkTerminal(d, p))
             \/ A!MoveAside(d) \/ A!PutInPlace(d) \/ A!BeginUninstall(d) \/ A!Remove(d)
             \/ A!BeginStart(d) \/ A!StartFails(d) \/ A!Save(d) \/ A!BeginOpen(d) \/ A!Reopen(d)
             \/ A!Close(d)
      PROVE  FALSE
  <2>1. command[d] = None \/ command[d].step # "failing"
    BY <1>3 DEF A!BeginInstall, A!Fetch, A!Register, A!Acquire, A!Fork, A!ForkTerminal, A!MoveAside,
       A!PutInPlace, A!BeginUninstall, A!Remove, A!BeginStart, A!StartFails, A!Save, A!BeginOpen,
       A!Reopen, A!Close, A!BeginLocked, A!Begin
  <2>2. \A e \in Clients \ {d} : command'[e] = command[e]
    BY <1>1, <1>3 DEF A!BeginInstall, A!Fetch, A!Register, A!Acquire, A!Fork, A!ForkTerminal,
       A!MoveAside, A!PutInPlace, A!BeginUninstall, A!Remove, A!BeginStart, A!StartFails, A!Save,
       A!BeginOpen, A!Reopen, A!Close, A!BeginLocked, A!Begin, A!Launch, A!Goto, A!End
  <2> QED BY <1>1, <1>2, <2>1, <2>2
<1>4. ASSUME NEW d \in Clients, A!Crash(d)
      PROVE  FALSE
  BY <1>1, <1>4 DEF A!Crash
<1>5. ASSUME NEW d \in Clients, A!Throw(d)
      PROVE  FALSE
  <2>1. d = c => command'[c] = [command[c] EXCEPT !.step = "failing"]
    BY <1>1, <1>5 DEF A!Throw, A!Goto
  <2>2. d # c => command'[c] = command[c]
    BY <1>1, <1>5 DEF A!Throw, A!Goto
  <2>3. [command[c] EXCEPT !.step = "failing"] \in A!CommandType
    BY <1>1 DEF A!CommandType, A!Steps
  <2> QED BY <1>1, <2>1, <2>2, <2>3
<1>6. ASSUME NEW d \in Clients, A!RollBack(d)
      PROVE  A!RollBack(c)
  <2>1. \A e \in Clients \ {d} : command'[e] = command[e]
    BY <1>1, <1>6 DEF A!RollBack, A!End
  <2> QED BY <1>1, <1>2, <1>6, <2>1
<1>7. ASSUME UNCHANGED command
      PROVE  FALSE
  BY <1>1, <1>7
<1>8. ASSUME \/ \E p \in AppPids : A!Exit(p)
             \/ \E w \in A!BundleWorkloads : A!Edit(w) \/ \E d \in Clients : A!Unregister(d, w)
             \/ \E d \in Clients : A!Stop(d)
      PROVE  FALSE
  BY <1>7, <1>8 DEF A!Exit, A!Edit, A!Unregister, A!Stop
<1> HIDE DEF A!Does, A!Busy
<1>9. ASSUME NEW d \in Clients,
             \/ \E v \in Versions : A!BeginInstall(d, v) \/ A!Fetch(d, v)
             \/ \E w \in A!BundleWorkloads : A!Register(d, w) \/ A!Unregister(d, w)
             \/ \E q \in AppPorts : A!Acquire(d, q)
             \/ \E p \in AppPids : A!Fork(d, p) \/ A!ForkTerminal(d, p)
       PROVE FALSE
  BY <1>3, <1>8, <1>9
<1> QED BY <1>3, <1>4, <1>5, <1>6, <1>8, <1>9 DEF A!Next

\* A failed install or upgrade puts back what it found, and files are replaced
\* only while no process of the application runs, however many commands there
\* are and wherever they are killed.
THEOREM InstallsRollBack == Spec => AppRollsBack
<1>1. ASSUME Applied, AppCounted, [A!Next]_A!appVars
      PROVE  [\A c \in Clients : A!Does(c, "failing") /\ ~A!Busy(c)' /\ kills' = kills =>
                /\ installed' = command[c].prior
                /\ ~staging'
                /\ \A w \in A!BundleWorkloads :
                     (profile'[w] = "none") = (command[c].before[w] = "none")]_A!appVars
  <2> SUFFICES ASSUME A!Next, NEW c \in Clients, A!Does(c, "failing"), ~A!Busy(c)', kills' = kills
               PROVE  /\ installed' = command[c].prior
                      /\ ~staging'
                      /\ \A w \in A!BundleWorkloads :
                           (profile'[w] = "none") = (command[c].before[w] = "none")
    BY <1>1
  <2>1. A!RollBack(c)
    BY <1>1, FailingEnds DEF A!Busy
  <2>2. Restores(c)
    BY <1>1 DEF Applied, AppCommands, Replacing, A!Does, A!Busy
  <2>3. \A w \in A!BundleWorkloads : profile'[w] = IF w \in command[c].written THEN "none" ELSE profile[w]
    BY <2>1 DEF A!RollBack
  <2>4. \A w \in A!BundleWorkloads : profile'[w] = "none" <=> command[c].before[w] = "none"
    BY <2>2, <2>3 DEF Restores
  <2> QED BY <2>1, <2>2, <2>4 DEF A!RollBack, Restores
<1>2. ASSUME Applied, [A!Next]_A!appVars
      PROVE  [installed' # installed => ~A!running]_A!appVars
  <2> SUFFICES ASSUME A!Next, installed' # installed PROVE ~A!running
    BY <1>2
  <2>1. PICK c \in Clients : A!MoveAside(c) \/ A!PutInPlace(c) \/ A!RollBack(c) \/ A!Remove(c)
    BY DEF A!Next, A!BeginInstall, A!Fetch, A!Register, A!Unregister, A!Throw, A!BeginUninstall,
       A!Stop, A!BeginStart, A!StartFails, A!Save, A!Acquire, A!Fork, A!ForkTerminal, A!BeginOpen,
       A!Reopen, A!Close, A!Crash, A!Exit, A!Edit
  <2> QED BY <1>2, <2>1 DEF A!MoveAside, A!PutInPlace, A!RollBack, A!Remove, A!Does, A!Busy,
             Applied, AppCommands, Replacing
<1>3. A!Spec => AppRollsBack
  BY <1>1, <1>2, AppInvariant, PTL DEF A!Spec, AppRollsBack, A!RollsBack, A!ReplacesStopped
<1> QED BY <1>3, AppsAlone, PTL

-----------------------------------------------------------------------------
(* The launch of workers                                                   *)

\* A step of another component leaves the workers as they are.
LEMMA WorkersAlone == Spec => W!Spec
<1>1. Init => W!Init
  BY DEF Init
<1>2. [Next]_vars => [W!Next]_W!launchVars
  BY DEF Next, vars, Alone, launchVars, W!launchVars
<1>3. QED BY <1>1, <1>2, PTL DEF Spec, W!Spec

\* The library's minimum of a set of numbers is one of them.
LEMMA MinIsMember ==
  ASSUME NEW S, S \subseteq Nat, S # {}
  PROVE  /\ W!Min(S) \in S
         /\ \A x \in S : W!Min(S) <= x
<1> DEFINE Less == OpToRel(<, Nat)
<1>1. IsWellFoundedOn(Less, Nat)
  BY NatLessThanWellFounded
<1>2. \A x, y \in Nat : x < y => <<x, y>> \in Less
  BY DEF OpToRel
<1> HIDE DEF Less
<1>3. PICK x \in S : \A y \in S : ~ (<<y, x>> \in Less)
  BY <1>1, WFMin
<1>4. ASSUME NEW y \in S PROVE x <= y
  <2>1. x \in Nat /\ y \in Nat
    OBVIOUS
  <2>2. ~ (y < x)
    BY <1>2, <1>3, <2>1
  <2> QED BY <2>1, <2>2
<1>5. W!Min(S) = CHOOSE z \in S : \A y \in S : z <= y
  BY DEF W!Min
<1> QED BY <1>4, <1>5

LaunchTyped ==
  /\ manager \in {"up", "down"}
  /\ workers \in [W!Models -> W!WorkerType \cup {None}]
  /\ \A m \in W!Models : workers[m] # None => workers[m].policy.model = m
  /\ launch \in W!LaunchType \cup {None}
  /\ spawned \in [WorkerPids -> W!ProcessType \cup {None}]
  /\ tested \subseteq W!Models
  /\ late \subseteq WorkerPids

\* Process i has been started for policy p on port q by a living server.
Serves(i, p, q) ==
  /\ spawned[i] # None
  /\ spawned[i].command = W!worker_command(p)
  /\ spawned[i].port = q
  /\ ~spawned[i].orphan
  /\ W!FitsAlone(p)

LaunchServes ==
  launch # None =>
    /\ workers[launch.policy.model] = None
    /\ W!FitsAlone(launch.policy)
    /\ IF launch.step = "command" THEN launch.pid = None
       ELSE launch.pid # None /\ Serves(launch.pid, launch.policy, launch.port)
    /\ \A m \in W!Models : workers[m] # None => workers[m].port # launch.port

ResidentsServe ==
  \A m \in W!Models : workers[m] # None =>
    /\ Serves(workers[m].pid, workers[m].policy, workers[m].port)
    /\ \A n \in W!Models \ {m} : workers[n] # None => workers[n].port # workers[m].port

\* What a killed server left listens if it had loaded, so that its port is not
\* leased again while it lives.
OrphansHeard ==
  \A i \in WorkerPids : W!Alive(i) /\ spawned[i].orphan /\ i \notin late =>
    /\ spawned[i].state = "listening"
    /\ ~W!Leased(spawned[i].port)

\* The inductive invariant.
Owned == LaunchTyped /\ LaunchServes /\ ResidentsServe /\ OrphansHeard /\ W!NoStray

LEMMA LaunchBegin ==
  ASSUME Owned, NEW p \in Policies, W!Begin(p)
  PROVE  Owned'
<1> USE WorkerAssumption DEF W!Begin, W!Free, W!Resident, W!Alive, W!Leased, W!Heard, W!Listens,
                             W!Stopped
<1>1. W!Min(W!Free) \in W!Free
  <2>1. W!Free \subseteq Nat /\ W!Free # {}
    BY DEF W!Free
  <2> QED BY <2>1, MinIsMember
<1>2. PICK q \in WorkerPorts : q = W!Min(W!Free) /\ ~W!Leased(q) /\ ~W!Heard(q)
  BY <1>1 DEF W!Free
<1> HIDE DEF W!Free
<1>3. LaunchTyped'
  BY <1>2 DEF Owned, LaunchTyped, W!LaunchType, W!WorkerType, W!ProcessType, W!Models
<1>4. LaunchServes'
  BY <1>2 DEF Owned, LaunchTyped, LaunchServes, ResidentsServe, Serves, W!FitsAlone, W!LaunchType,
     W!WorkerType, W!ProcessType, W!Models
<1>5. ResidentsServe'
  BY <1>2 DEF Owned, LaunchTyped, LaunchServes, ResidentsServe, Serves, W!FitsAlone, W!LaunchType,
     W!WorkerType, W!ProcessType, W!Models
<1>6. OrphansHeard'
  BY <1>2 DEF Owned, LaunchTyped, LaunchServes, ResidentsServe, Serves, OrphansHeard,
     W!LaunchType, W!WorkerType, W!ProcessType
<1>7. W!NoStray'
  BY <1>2 DEF Owned, LaunchTyped, LaunchServes, ResidentsServe, Serves, W!NoStray, W!LaunchType,
     W!WorkerType, W!ProcessType
<1> QED BY <1>3, <1>4, <1>5, <1>6, <1>7 DEF Owned

LEMMA LaunchAbandon ==
  ASSUME Owned, W!Abandon
  PROVE  Owned'
<1> USE WorkerAssumption DEF W!Abandon, W!Resident, W!Alive, W!Leased, W!Heard, W!Listens, W!Stopped
<1>3. LaunchTyped'
  BY DEF Owned, LaunchTyped, W!LaunchType, W!WorkerType, W!ProcessType, W!Models
<1>4. LaunchServes'
  BY DEF Owned, LaunchTyped, LaunchServes, ResidentsServe, Serves, W!FitsAlone, W!LaunchType,
     W!WorkerType, W!ProcessType, W!Models
<1>5. ResidentsServe'
  BY DEF Owned, LaunchTyped, LaunchServes, ResidentsServe, Serves, W!FitsAlone, W!LaunchType,
     W!WorkerType, W!ProcessType, W!Models
<1>6. OrphansHeard'
  BY DEF Owned, LaunchTyped, LaunchServes, ResidentsServe, Serves, OrphansHeard, W!LaunchType,
     W!WorkerType, W!ProcessType
<1>7. W!NoStray'
  BY DEF Owned, LaunchTyped, LaunchServes, ResidentsServe, Serves, W!NoStray, W!LaunchType,
     W!WorkerType, W!ProcessType
<1> QED BY <1>3, <1>4, <1>5, <1>6, <1>7 DEF Owned

LEMMA LaunchSpawn ==
  ASSUME Owned, NEW i \in WorkerPids, W!Spawn(i)
  PROVE  Owned'
<1> USE WorkerAssumption DEF W!Spawn, W!Resident, W!Alive, W!Leased, W!Heard, W!Listens, W!Stopped
<1>1. W!Min({j \in WorkerPids : spawned[j] = None}) \in {j \in WorkerPids : spawned[j] = None}
  <2>1. {j \in WorkerPids : spawned[j] = None} \subseteq Nat /\ {j \in WorkerPids : spawned[j] = None} # {}
    OBVIOUS
  <2> QED BY <2>1, MinIsMember
<1>2. spawned[i] = None
  BY <1>1
<1>3. LaunchTyped'
  BY <1>2 DEF Owned, LaunchTyped, W!LaunchType, W!WorkerType, W!ProcessType, W!Models
<1>4. LaunchServes'
  <2>1. launch' = [launch EXCEPT !.pid = i, !.step = "waiting"] /\ launch \in W!LaunchType
    BY DEF Owned, LaunchTyped
  <2>2. PICK p \in Policies, q \in WorkerPorts :
          /\ p = launch.policy /\ q = launch.port
          /\ launch'.policy = p /\ launch'.port = q /\ launch'.pid = i /\ launch'.step = "waiting"
    BY <2>1 DEF W!LaunchType
  <2>3. workers' = workers /\ workers[p.model] = None /\ W!FitsAlone(p)
        /\ \A m \in W!Models : workers[m] # None => workers[m].port # q
    BY <2>2 DEF Owned, LaunchServes
  <2>4. spawned'[i] = [command |-> W!worker_command(p), port |-> q, state |-> "loading", orphan |-> FALSE]
        /\ spawned'[i] # None
    <3>1. spawned'[i] = [command |-> W!worker_command(p), port |-> q, state |-> "loading", orphan |-> FALSE]
      BY <2>2 DEF Owned, LaunchTyped
    <3>2. PICK x \in {W!worker_command(d) : d \in Policies} : x = W!worker_command(p)
      OBVIOUS
    <3>3. [command |-> x, port |-> q, state |-> "loading", orphan |-> FALSE] \in W!ProcessType
      BY Zenon DEF W!ProcessType
    <3> QED BY <3>1, <3>2, <3>3
  <2>5. Serves(i, p, q)'
    BY <2>3, <2>4 DEF Serves, W!FitsAlone
  <2> QED BY <2>2, <2>3, <2>5 DEF LaunchServes
<1>5. ResidentsServe'
  BY <1>2 DEF Owned, LaunchTyped, LaunchServes, ResidentsServe, Serves, W!FitsAlone, W!LaunchType,
     W!WorkerType, W!ProcessType, W!Models
<1>6. OrphansHeard'
  BY <1>2 DEF Owned, LaunchTyped, LaunchServes, ResidentsServe, Serves, OrphansHeard,
     W!LaunchType, W!WorkerType, W!ProcessType
<1>7. W!NoStray'
  <2>1. launch'.pid = i /\ launch' # None
    BY DEF Owned, LaunchTyped, W!LaunchType
  <2>2. \A j \in WorkerPids \ {i} : spawned'[j] = spawned[j]
    BY DEF Owned, LaunchTyped
  <2>3. workers' = workers /\ launch.pid = None /\ launch # None
    BY DEF Owned, LaunchServes
  <2> HIDE DEF W!Spawn
  <2> QED BY <2>1, <2>2, <2>3 DEF Owned, W!NoStray
<1> QED BY <1>3, <1>4, <1>5, <1>6, <1>7 DEF Owned

LEMMA LaunchLook ==
  ASSUME Owned, W!Look
  PROVE  Owned'
<1> USE WorkerAssumption DEF W!Look, W!Resident, W!Alive, W!Leased, W!Heard, W!Listens, W!Stopped
<1>3. LaunchTyped'
  BY DEF Owned, LaunchTyped, W!LaunchType, W!WorkerType, W!ProcessType, W!Models
<1>4. LaunchServes'
  BY DEF Owned, LaunchTyped, LaunchServes, ResidentsServe, Serves, W!FitsAlone, W!LaunchType,
     W!WorkerType, W!ProcessType, W!Models
<1>5. ResidentsServe'
  BY DEF Owned, LaunchTyped, LaunchServes, ResidentsServe, Serves, W!FitsAlone, W!LaunchType,
     W!WorkerType, W!ProcessType, W!Models
<1>6. OrphansHeard'
  BY DEF Owned, LaunchTyped, LaunchServes, ResidentsServe, Serves, OrphansHeard, W!LaunchType,
     W!WorkerType, W!ProcessType
<1>7. W!NoStray'
  BY DEF Owned, LaunchTyped, LaunchServes, ResidentsServe, Serves, W!NoStray, W!LaunchType,
     W!WorkerType, W!ProcessType
<1> QED BY <1>3, <1>4, <1>5, <1>6, <1>7 DEF Owned

LEMMA LaunchHealth ==
  ASSUME Owned, W!wait_for_health
  PROVE  Owned'
<1> USE WorkerAssumption DEF W!wait_for_health, W!Resident, W!Alive, W!Leased, W!Heard, W!Listens,
                             W!Stopped
<1>3. LaunchTyped'
  BY DEF Owned, LaunchTyped, W!LaunchType, W!WorkerType, W!ProcessType, W!Models
<1>4. LaunchServes'
  BY DEF Owned, LaunchTyped, LaunchServes, ResidentsServe, Serves, W!FitsAlone, W!LaunchType,
     W!WorkerType, W!ProcessType, W!Models
<1>5. ResidentsServe'
  BY DEF Owned, LaunchTyped, LaunchServes, ResidentsServe, Serves, W!FitsAlone, W!LaunchType,
     W!WorkerType, W!ProcessType, W!Models
<1>6. OrphansHeard'
  BY DEF Owned, LaunchTyped, LaunchServes, ResidentsServe, Serves, OrphansHeard, W!LaunchType,
     W!WorkerType, W!ProcessType
<1>7. W!NoStray'
  BY DEF Owned, LaunchTyped, LaunchServes, ResidentsServe, Serves, W!NoStray, W!LaunchType,
     W!WorkerType, W!ProcessType
<1> QED BY <1>3, <1>4, <1>5, <1>6, <1>7 DEF Owned

LEMMA LaunchTimedOut ==
  ASSUME Owned, W!TimedOut
  PROVE  Owned'
<1> USE WorkerAssumption DEF W!TimedOut, W!Resident, W!Alive, W!Leased, W!Heard, W!Listens,
                             W!Stopped
<1>3. LaunchTyped'
  BY DEF Owned, LaunchTyped, W!LaunchType, W!WorkerType, W!ProcessType, W!Models
<1>4. LaunchServes'
  BY DEF Owned, LaunchTyped, LaunchServes, ResidentsServe, Serves, W!FitsAlone, W!LaunchType,
     W!WorkerType, W!ProcessType, W!Models
<1>5. ResidentsServe'
  BY DEF Owned, LaunchTyped, LaunchServes, ResidentsServe, Serves, W!FitsAlone, W!LaunchType,
     W!WorkerType, W!ProcessType, W!Models
<1>6. OrphansHeard'
  BY DEF Owned, LaunchTyped, LaunchServes, ResidentsServe, Serves, OrphansHeard, W!LaunchType,
     W!WorkerType, W!ProcessType
<1>7. W!NoStray'
  BY DEF Owned, LaunchTyped, LaunchServes, ResidentsServe, Serves, W!NoStray, W!LaunchType,
     W!WorkerType, W!ProcessType
<1> QED BY <1>3, <1>4, <1>5, <1>6, <1>7 DEF Owned

LEMMA LaunchFail ==
  ASSUME Owned, W!Fail
  PROVE  Owned'
<1> USE WorkerAssumption DEF W!Fail, W!Resident, W!Alive, W!Leased, W!Heard, W!Listens, W!Stopped
<1>3. LaunchTyped'
  BY DEF Owned, LaunchTyped, LaunchServes, ResidentsServe, Serves, W!LaunchType, W!WorkerType,
     W!ProcessType
<1>4. LaunchServes'
  BY DEF Owned, LaunchTyped, LaunchServes, ResidentsServe, Serves, W!FitsAlone, W!LaunchType,
     W!WorkerType, W!ProcessType, W!Models
<1>5. ResidentsServe'
  BY DEF Owned, LaunchTyped, LaunchServes, ResidentsServe, Serves, W!FitsAlone, W!LaunchType,
     W!WorkerType, W!ProcessType, W!Models
<1>6. OrphansHeard'
  BY DEF Owned, LaunchTyped, LaunchServes, ResidentsServe, Serves, OrphansHeard, W!LaunchType,
     W!WorkerType, W!ProcessType
<1>7. W!NoStray'
  BY DEF Owned, LaunchTyped, LaunchServes, ResidentsServe, Serves, W!NoStray, W!LaunchType,
     W!WorkerType, W!ProcessType
<1> QED BY <1>3, <1>4, <1>5, <1>6, <1>7 DEF Owned

LEMMA LaunchWarmup ==
  ASSUME Owned, W!warmup
  PROVE  Owned'
<1> USE WorkerAssumption DEF W!warmup, W!Resident, W!Alive, W!Leased, W!Heard, W!Listens, W!Stopped
<1>3. LaunchTyped'
  <2>1. launch \in W!LaunchType /\ launch.pid \in WorkerPids /\ launch.policy.model \in W!Models
    BY DEF Owned, LaunchTyped, LaunchServes, W!LaunchType, W!Models
  <2>2. PICK d \in W!WorkerType : /\ d.policy = launch.policy
                                /\ workers' = [workers EXCEPT ![launch.policy.model] = d]
    BY <2>1 DEF W!LaunchType, W!WorkerType
  <2>3. spawned' = spawned /\ launch' = None /\ manager' = manager /\ late' = late
        /\ tested' \subseteq W!Models
    BY <2>1 DEF Owned, LaunchTyped
  <2> HIDE DEF W!warmup
  <2> QED BY <2>1, <2>2, <2>3 DEF Owned, LaunchTyped
<1>4. LaunchServes'
  BY DEF Owned, LaunchTyped, LaunchServes, ResidentsServe, Serves, W!FitsAlone, W!LaunchType,
     W!WorkerType, W!ProcessType, W!Models
<1>5. ResidentsServe'
  BY DEF Owned, LaunchTyped, LaunchServes, ResidentsServe, Serves, W!FitsAlone, W!LaunchType,
     W!WorkerType, W!ProcessType, W!Models
<1>6. OrphansHeard'
  BY DEF Owned, LaunchTyped, LaunchServes, ResidentsServe, Serves, OrphansHeard, W!LaunchType,
     W!WorkerType, W!ProcessType
<1>7. W!NoStray'
  <2>1. launch.policy.model \in W!Models
    BY DEF Owned, LaunchTyped, W!LaunchType, W!Models
  <2>2. workers'[launch.policy.model] # None /\ workers'[launch.policy.model].pid = launch.pid
    BY <1>3, <2>1 DEF Owned, LaunchTyped, LaunchServes, W!WorkerType, W!LaunchType
  <2>3. \A n \in W!Models : workers[n] # None => workers'[n] = workers[n]
    BY <2>1 DEF Owned, LaunchTyped, LaunchServes
  <2>4. spawned' = spawned /\ launch' = None
    OBVIOUS
  <2> HIDE DEF W!warmup
  <2> QED BY <2>1, <2>2, <2>3, <2>4 DEF Owned, W!NoStray
<1> QED BY <1>3, <1>4, <1>5, <1>6, <1>7 DEF Owned

LEMMA LaunchEvict ==
  ASSUME Owned, NEW m \in W!Models, W!Evict(m)
  PROVE  Owned'
<1> USE WorkerAssumption DEF W!Evict, W!Resident, W!Alive, W!Leased, W!Heard, W!Listens, W!Stopped
<1>3. LaunchTyped'
  BY DEF Owned, LaunchTyped, LaunchServes, ResidentsServe, Serves, W!LaunchType, W!WorkerType,
     W!ProcessType
<1>4. LaunchServes'
  BY DEF Owned, LaunchTyped, LaunchServes, ResidentsServe, Serves, W!FitsAlone, W!LaunchType,
     W!WorkerType, W!ProcessType, W!Models
<1>5. ResidentsServe'
  BY DEF Owned, LaunchTyped, LaunchServes, ResidentsServe, Serves, W!FitsAlone, W!LaunchType,
     W!WorkerType, W!ProcessType, W!Models
<1>6. OrphansHeard'
  BY DEF Owned, LaunchTyped, LaunchServes, ResidentsServe, Serves, OrphansHeard, W!LaunchType,
     W!WorkerType, W!ProcessType
<1>7. W!NoStray'
  BY DEF Owned, LaunchTyped, LaunchServes, ResidentsServe, Serves, W!NoStray, W!LaunchType,
     W!WorkerType, W!ProcessType
<1> QED BY <1>3, <1>4, <1>5, <1>6, <1>7 DEF Owned

LEMMA LaunchBind ==
  ASSUME Owned, NEW i \in WorkerPids, W!Bind(i)
  PROVE  Owned'
<1> USE WorkerAssumption DEF W!Bind, W!Resident, W!Alive, W!Leased, W!Heard, W!Listens, W!Stopped
<1>3. LaunchTyped'
  BY DEF Owned, LaunchTyped, W!LaunchType, W!WorkerType, W!ProcessType, W!Models
<1>4. LaunchServes'
  BY DEF Owned, LaunchTyped, LaunchServes, ResidentsServe, Serves, W!FitsAlone, W!LaunchType,
     W!WorkerType, W!ProcessType, W!Models
<1>5. ResidentsServe'
  BY DEF Owned, LaunchTyped, LaunchServes, ResidentsServe, Serves, W!FitsAlone, W!LaunchType,
     W!WorkerType, W!ProcessType, W!Models
<1>6. OrphansHeard'
  BY DEF Owned, LaunchTyped, LaunchServes, ResidentsServe, Serves, OrphansHeard, W!LaunchType,
     W!WorkerType, W!ProcessType
<1>7. W!NoStray'
  BY DEF Owned, LaunchTyped, LaunchServes, ResidentsServe, Serves, W!NoStray, W!LaunchType,
     W!WorkerType, W!ProcessType
<1> QED BY <1>3, <1>4, <1>5, <1>6, <1>7 DEF Owned

LEMMA LaunchDie ==
  ASSUME Owned, NEW i \in WorkerPids, W!Die(i)
  PROVE  Owned'
<1> USE WorkerAssumption DEF W!Die, W!Resident, W!Alive, W!Leased, W!Heard, W!Listens, W!Stopped
<1>3. LaunchTyped'
  BY DEF Owned, LaunchTyped, W!LaunchType, W!WorkerType, W!ProcessType, W!Models
<1>4. LaunchServes'
  BY DEF Owned, LaunchTyped, LaunchServes, ResidentsServe, Serves, W!FitsAlone, W!LaunchType,
     W!WorkerType, W!ProcessType, W!Models
<1>5. ResidentsServe'
  BY DEF Owned, LaunchTyped, LaunchServes, ResidentsServe, Serves, W!FitsAlone, W!LaunchType,
     W!WorkerType, W!ProcessType, W!Models
<1>6. OrphansHeard'
  BY DEF Owned, LaunchTyped, LaunchServes, ResidentsServe, Serves, OrphansHeard, W!LaunchType,
     W!WorkerType, W!ProcessType
<1>7. W!NoStray'
  BY DEF Owned, LaunchTyped, LaunchServes, ResidentsServe, Serves, W!NoStray, W!LaunchType,
     W!WorkerType, W!ProcessType
<1> QED BY <1>3, <1>4, <1>5, <1>6, <1>7 DEF Owned

LEMMA LaunchStart ==
  ASSUME Owned, W!Start
  PROVE  Owned'
<1> USE WorkerAssumption DEF W!Start, W!Resident, W!Alive, W!Leased, W!Heard, W!Listens, W!Stopped
<1>3. LaunchTyped'
  BY DEF Owned, LaunchTyped, W!LaunchType, W!WorkerType, W!ProcessType, W!Models
<1>4. LaunchServes'
  BY DEF Owned, LaunchTyped, LaunchServes, ResidentsServe, Serves, W!FitsAlone, W!LaunchType,
     W!WorkerType, W!ProcessType, W!Models
<1>5. ResidentsServe'
  BY DEF Owned, LaunchTyped, LaunchServes, ResidentsServe, Serves, W!FitsAlone, W!LaunchType,
     W!WorkerType, W!ProcessType, W!Models
<1>6. OrphansHeard'
  BY DEF Owned, LaunchTyped, LaunchServes, ResidentsServe, Serves, OrphansHeard, W!LaunchType,
     W!WorkerType, W!ProcessType
<1>7. W!NoStray'
  BY DEF Owned, LaunchTyped, LaunchServes, ResidentsServe, Serves, W!NoStray, W!LaunchType,
     W!WorkerType, W!ProcessType
<1> QED BY <1>3, <1>4, <1>5, <1>6, <1>7 DEF Owned

LEMMA LaunchQuit ==
  ASSUME Owned, W!Quit
  PROVE  Owned'
<1> USE WorkerAssumption DEF W!Quit, W!Resident, W!Alive, W!Leased, W!Heard, W!Listens, W!Stopped
<1>3. LaunchTyped'
  BY DEF Owned, LaunchTyped, LaunchServes, ResidentsServe, Serves, W!LaunchType, W!WorkerType,
     W!ProcessType
<1>4. LaunchServes'
  BY DEF Owned, LaunchTyped, LaunchServes, ResidentsServe, Serves, W!FitsAlone, W!LaunchType,
     W!WorkerType, W!ProcessType, W!Models
<1>5. ResidentsServe'
  BY DEF Owned, LaunchTyped, LaunchServes, ResidentsServe, Serves, W!FitsAlone, W!LaunchType,
     W!WorkerType, W!ProcessType, W!Models
<1>6. OrphansHeard'
  BY DEF Owned, LaunchTyped, LaunchServes, ResidentsServe, Serves, OrphansHeard, W!LaunchType,
     W!WorkerType, W!ProcessType
<1>7. W!NoStray'
  BY DEF Owned, LaunchTyped, LaunchServes, ResidentsServe, Serves, W!NoStray, W!LaunchType,
     W!WorkerType, W!ProcessType
<1> QED BY <1>3, <1>4, <1>5, <1>6, <1>7 DEF Owned

LEMMA LaunchKill ==
  ASSUME Owned, W!Kill
  PROVE  Owned'
<1> USE WorkerAssumption DEF W!Kill, W!Resident, W!Alive, W!Leased, W!Heard, W!Listens, W!Stopped
<1>3. LaunchTyped'
  <2>1. spawned' \in [WorkerPids -> W!ProcessType \cup {None}]
    <3>1. ASSUME NEW i \in WorkerPids
          PROVE  spawned'[i] \in W!ProcessType \cup {None}
      <4>1. spawned[i] \in W!ProcessType \cup {None}
        BY DEF Owned, LaunchTyped
      <4>2. CASE W!Alive(i)
        <5>1. spawned[i] \in W!ProcessType /\ spawned'[i] = [spawned[i] EXCEPT !.orphan = TRUE]
          BY <4>1, <4>2
        <5> QED BY <5>1 DEF W!ProcessType
      <4>3. CASE ~W!Alive(i)
        BY <4>1, <4>3
      <4> QED BY <4>2, <4>3
    <3>2. spawned' = [i \in WorkerPids |-> spawned'[i]]
      OBVIOUS
    <3> QED BY <3>1, <3>2
  <2>2. workers' \in [W!Models -> W!WorkerType \cup {None}]
        /\ \A m \in W!Models : workers'[m] = None
    OBVIOUS
  <2>3. late' \subseteq WorkerPids /\ tested' \subseteq W!Models
    BY DEF Owned, LaunchTyped
  <2> QED BY <2>1, <2>2, <2>3 DEF LaunchTyped
<1>4. LaunchServes'
  BY DEF Owned, LaunchTyped, LaunchServes, ResidentsServe, Serves, W!FitsAlone, W!LaunchType,
     W!WorkerType, W!ProcessType, W!Models
<1>5. ResidentsServe'
  BY DEF Owned, LaunchTyped, LaunchServes, ResidentsServe, Serves, W!FitsAlone, W!LaunchType,
     W!WorkerType, W!ProcessType, W!Models
<1>6. OrphansHeard'
  <2>1. ASSUME NEW i \in WorkerPids, W!Alive(i)', spawned'[i].orphan, i \notin late'
        PROVE  spawned'[i].state = "listening"
    <3>1. spawned[i] # None /\ spawned[i].state # "dead" /\ spawned[i].state # "loading"
          /\ spawned[i] \in W!ProcessType
      BY <2>1 DEF Owned, LaunchTyped, W!ProcessType
    <3>2. spawned'[i] = [spawned[i] EXCEPT !.orphan = TRUE]
      BY <3>1
    <3> QED BY <3>1, <3>2 DEF W!ProcessType
  <2> QED BY <2>1 DEF OrphansHeard
<1>7. W!NoStray'
  BY DEF Owned, LaunchTyped, LaunchServes, ResidentsServe, Serves, W!NoStray, W!LaunchType,
     W!WorkerType, W!ProcessType
<1> QED BY <1>3, <1>4, <1>5, <1>6, <1>7 DEF Owned

LEMMA LaunchInit == W!Init => Owned
<1> SUFFICES ASSUME W!Init PROVE Owned
  OBVIOUS
<1> USE DEF W!Init
<1>1. LaunchTyped
  BY DEF LaunchTyped
<1>2. LaunchServes /\ ResidentsServe
  BY DEF LaunchServes, ResidentsServe
<1>3. OrphansHeard /\ W!NoStray
  BY DEF OrphansHeard, W!NoStray, W!Alive
<1> QED BY <1>1, <1>2, <1>3 DEF Owned

LEMMA LaunchNext == Owned /\ [W!Next]_W!launchVars => Owned'
<1> SUFFICES ASSUME Owned, [W!Next]_W!launchVars PROVE Owned'
  OBVIOUS
<1>1. CASE UNCHANGED W!launchVars
  BY <1>1 DEF W!launchVars, Owned, LaunchTyped, LaunchServes, ResidentsServe, Serves, OrphansHeard,
     W!NoStray, W!Alive, W!Leased, W!Resident
<1>2. ASSUME NEW p \in Policies, W!Begin(p) PROVE Owned'
  BY <1>2, LaunchBegin
<1>3. ASSUME NEW i \in WorkerPids, W!Spawn(i) \/ W!Bind(i) \/ W!Die(i) PROVE Owned'
  BY <1>3, LaunchSpawn, LaunchBind, LaunchDie
<1>4. ASSUME NEW m \in W!Models, W!Evict(m) PROVE Owned'
  BY <1>4, LaunchEvict
<1>5. ASSUME \/ W!Abandon \/ W!Look \/ W!wait_for_health \/ W!TimedOut \/ W!Fail \/ W!warmup
             \/ W!Start \/ W!Quit \/ W!Kill
      PROVE  Owned'
  BY <1>5, LaunchAbandon, LaunchLook, LaunchHealth, LaunchTimedOut, LaunchFail, LaunchWarmup,
     LaunchStart, LaunchQuit, LaunchKill
<1> QED BY <1>1, <1>2, <1>3, <1>4, <1>5 DEF W!Next

\* compatible_worker compares all that a launcher is told, but not the reserve;
\* within the limit vLLM is given the reservation whatever the reserve is.
LEMMA CompatibleCommands ==
  ASSUME NEW p \in Policies, NEW q \in Policies,
         W!Compatible(p, q), W!FitsAlone(p), W!FitsAlone(q)
  PROVE  W!worker_command(p) = W!worker_command(q)
<1>1. p.model = q.model /\ \A o \in W!Compared : p[o] = q[o]
  BY DEF W!Compatible
<1>2. p.launcher = q.launcher /\ p.ram = q.ram
  BY <1>1 DEF W!Compared
<1>3. W!Told(p.launcher) \subseteq W!Compared
  <2> DEFINE l == p.launcher
  <2>1. l \in W!Launchers
    BY WorkerAssumption
  <2> HIDE DEF l
  <2>2. W!Told(l) \subseteq W!Compared
    BY <2>1 DEF W!Told, W!Compared, W!Native, W!Launchers
  <2> QED BY <2>2 DEF l
<1>4. ASSUME NEW d \in Policies, W!FitsAlone(d)
      PROVE  W!Min({d.ram, MaxRam - d.reserve}) = d.ram
  <2>1. d.ram \in Nat /\ d.reserve \in Nat /\ MaxRam \in Nat /\ d.ram <= MaxRam - d.reserve
    BY <1>4, WorkerAssumption DEF W!FitsAlone
  <2>2. {d.ram, MaxRam - d.reserve} \subseteq Nat
    BY <2>1
  <2>3. /\ W!Min({d.ram, MaxRam - d.reserve}) \in {d.ram, MaxRam - d.reserve}
        /\ W!Min({d.ram, MaxRam - d.reserve}) <= d.ram
    BY <2>2, MinIsMember
  <2> QED BY <2>1, <2>3
<1>5. W!Memory(p) = W!Memory(q)
  BY <1>2, <1>4 DEF W!Memory
<1>6. [o \in W!Told(p.launcher) |-> p[o]] = [o \in W!Told(q.launcher) |-> q[o]]
  BY <1>1, <1>2, <1>3
<1> QED BY <1>1, <1>5, <1>6 DEF W!worker_command

\* Two services never share a port and an application's process runs the files of
\* its manifest; what answers at a resident worker's port is its own process or
\* one that was loading when its server was killed (src/src/server.cpp:1599-1918),
\* it was started as the request asks, and the living server leaves none behind -
\* for any number of commands, models, ports and processes, and wherever they are
\* killed.
THEOREM WhatIsLaunchedIsOwn == Spec => []LaunchesOwn
<1>1. Applied => A!PortExclusive /\ A!LaunchesVerified
  BY DEF Applied, AppProcesses, A!PortExclusive, A!LaunchesVerified
<1>2. ASSUME Owned PROVE W!AnsweredByOwn
  <2> SUFFICES ASSUME NEW m \in W!Models, NEW i \in WorkerPids, i \notin late,
                      W!Resident(m), W!Listens(i, workers[m].port)
               PROVE  i = workers[m].pid
    BY DEF W!AnsweredByOwn
  <2>1. W!Alive(i) /\ spawned[i].port = workers[m].port
    BY DEF W!Listens, W!Alive
  <2>2. ~spawned[i].orphan
    BY <1>2, <2>1 DEF Owned, OrphansHeard, W!Leased
  <2>3. CASE launch # None /\ launch.pid = i
    BY <1>2, <2>1, <2>3, WorkerAssumption DEF Owned, LaunchServes, Serves, W!Resident
  <2>4. ASSUME NEW n \in W!Models, W!Resident(n), workers[n].pid = i
        PROVE  i = workers[m].pid
    BY <1>2, <2>1, <2>4 DEF Owned, ResidentsServe, Serves, W!Resident
  <2> QED BY <1>2, <2>1, <2>2, <2>3, <2>4 DEF Owned, W!NoStray
<1>3. ASSUME Owned PROVE W!StartedAsAsked
  <2> SUFFICES ASSUME NEW m \in W!Models, NEW q \in Policies, W!Resident(m),
                      W!Compatible(workers[m].policy, q), W!FitsAlone(q)
               PROVE  spawned[workers[m].pid].command = W!worker_command(q)
    BY DEF W!StartedAsAsked
  <2>1. workers[m].policy \in Policies /\ Serves(workers[m].pid, workers[m].policy, workers[m].port)
    BY <1>3 DEF Owned, LaunchTyped, ResidentsServe, W!Resident, W!WorkerType
  <2> QED BY <2>1, CompatibleCommands DEF Serves
<1>4. Applied /\ Owned => LaunchesOwn
  BY <1>1, <1>2, <1>3 DEF LaunchesOwn, W!WorkersAreOwn, Owned
<1>5. W!Spec => []Owned
  BY LaunchInit, LaunchNext, PTL DEF W!Spec
<1> QED BY <1>4, <1>5, AppInvariant, AppsAlone, WorkersAlone, PTL

-----------------------------------------------------------------------------
(* The relay: units and records                                            *)

\* A step of another component leaves the relay as it is.
LEMMA RelayAlone == Spec => R!Spec
<1>1. Init => R!Init
  BY DEF Init
<1>2. [Next]_vars => [R!Next]_R!relayVars
  BY DEF Next, vars, Alone, relayVars, R!relayVars
<1>3. QED BY <1>1, <1>2, PTL DEF Spec, R!Spec

Unit == [record : Nat, ends : BOOLEAN]

\* Every record is a text and a mark: the units are those of the records 1, 2,
\* 3 ... in their order.
Nth(u) == IF u % 2 = 0 THEN R!Mark(u \div 2) ELSE R!Text((u + 1) \div 2)

\* s is the units after the first b and up to e.
Run(s, b, e) ==
  /\ b <= e
  /\ s \in Seq(Unit) /\ Len(s) = e - b
  /\ \A i \in 1..(e - b) : s[i] = Nth(b + i)

\* q is the numbers after g and up to h.
Follows(q, g, h) ==
  /\ g <= h
  /\ q \in Seq(Nat) /\ Len(q) = h - g
  /\ \A i \in 1..(h - g) : q[i] = g + i

\* What is pending once n units of the wire have arrived, and what is then
\* still on the wire.
Joined(p, t, n) == p \o SubSeq(t, 1, n)
Remaining(t, n) == SubSeq(t, n + 1, Len(t))

LEMMA RelayCardinality == \A S : R!Cardinality(S) = Cardinality(S)
BY DEF R!Cardinality, Cardinality

LEMMA Evens ==
  ASSUME NEW L \in Nat
  PROVE  Cardinality({u \in 1..L : u % 2 = 0}) = L \div 2
<1> DEFINE E == {u \in 1..L : u % 2 = 0}
           f == [k \in 1..(L \div 2) |-> 2 * k]
<1>1. L \div 2 \in Nat /\ 2 * (L \div 2) <= L /\ L <= 2 * (L \div 2) + 1
  OBVIOUS
<1>2. f \in [1..(L \div 2) -> E]
  BY <1>1
<1>3. ASSUME NEW u \in E PROVE \E k \in 1..(L \div 2) : f[k] = u
  <2>1. u \div 2 \in 1..(L \div 2) /\ u = 2 * (u \div 2)
    BY <1>1
  <2> QED BY <2>1
<1>4. f \in Bijection(1..(L \div 2), E)
  <2>1. f \in Injection(1..(L \div 2), E)
    <3>1. \A k, j \in DOMAIN f : f[k] = f[j] => k = j
      BY <1>1
    <3> HIDE DEF f, E
    <3> QED BY <1>2, <3>1 DEF Injection, IsInjective
  <2> HIDE DEF f, E
  <2>2. f \in Surjection(1..(L \div 2), E)
    BY <1>2, <1>3 DEF Surjection
  <2> QED BY <2>1, <2>2 DEF Bijection
<1>5. IsFiniteSet(1..(L \div 2)) /\ Cardinality(1..(L \div 2)) = L \div 2
  BY <1>1, FS_Interval
<1> QED BY <1>4, <1>5, FS_Bijection DEF ExistsBijection


LEMMA NthIsUnit ==
  ASSUME NEW u \in Nat
  PROVE  Nth(u) \in Unit
<1>1. u \div 2 \in Nat /\ (u + 1) \div 2 \in Nat
  OBVIOUS
<1> QED BY <1>1 DEF Nth, Unit, R!Mark, R!Text

\* The empty run, and only it, is empty.
LEMMA RunEmpty ==
  ASSUME NEW b \in Nat
  PROVE  /\ Run(<<>>, b, b)
         /\ \A s : \A e \in Nat : Run(s, b, e) /\ s = <<>> => e = b
         /\ \A s : Run(s, b, b) => s = <<>>
<1>1. Run(<<>>, b, b)
  BY EmptySeq DEF Run
<1>2. ASSUME NEW s, NEW e \in Nat, Run(s, b, e), s = <<>> PROVE e = b
  <2>1. Len(s) = e - b
    BY <1>2 DEF Run
  <2> QED BY <1>2, <2>1, EmptySeq
<1>3. ASSUME NEW s, Run(s, b, b) PROVE s = <<>>
  <2>1. s \in Seq(Unit) /\ Len(s) = 0
    BY <1>3 DEF Run
  <2> QED BY <2>1, EmptySeq
<1> QED BY <1>1, <1>2, <1>3

\* A run that is cut anywhere and taken up again.
LEMMA RunJoin ==
  ASSUME NEW b \in Nat, NEW m \in Nat, NEW e \in Nat, NEW n \in Nat, NEW k \in Nat,
         NEW p, NEW t, Run(p, b, m), Run(t, m, e), k = m + n, k <= e
  PROVE  Run(Joined(p, t, n), b, k) /\ Run(Remaining(t, n), k, e)
<1>1. /\ p \in Seq(Unit) /\ Len(p) = m - b /\ b <= m /\ \A i \in 1..(m - b) : p[i] = Nth(b + i)
      /\ t \in Seq(Unit) /\ Len(t) = e - m /\ m <= e /\ \A i \in 1..(e - m) : t[i] = Nth(m + i)
  BY DEF Run
<1>2. \A i \in 1..(e - m) : t[i] \in Unit
  BY <1>1, ElementOfSeq
<1>3. n <= e - m /\ e - m - n = e - k /\ (m - b) + n = k - b /\ b <= k
  BY <1>1
<1> DEFINE q == SubSeq(t, 1, n)
<1>4. /\ q \in Seq(Unit)
      /\ Len(q) = n
      /\ \A i \in 1..n : q[i] = t[i]
  <2>1. \A i \in 1..n : t[i] \in Unit
    BY <1>2, <1>3
  <2>2. /\ SubSeq(t, 1, n) \in Seq(Unit)
        /\ Len(SubSeq(t, 1, n)) = IF 1 <= n THEN n - 1 + 1 ELSE 0
        /\ \A i \in 1..(n - 1 + 1) : SubSeq(t, 1, n)[i] = t[1 + i - 1]
    BY <2>1, SubSeqProperties
  <2> QED BY <2>2
<1>5. Run(Joined(p, t, n), b, k)
  <2> HIDE DEF q
  <2>1. /\ p \o q \in Seq(Unit)
        /\ Len(p \o q) = Len(p) + Len(q)
        /\ \A i \in 1..Len(p) + Len(q) : (p \o q)[i] = IF i <= Len(p) THEN p[i] ELSE q[i - Len(p)]
    BY <1>1, <1>4, ConcatProperties
  <2>2. Len(p \o q) = k - b
    BY <1>1, <1>3, <1>4, <2>1
  <2>3. ASSUME NEW i \in 1..(k - b) PROVE (p \o q)[i] = Nth(b + i)
    <3>1. (p \o q)[i] = IF i <= m - b THEN p[i] ELSE q[i - (m - b)]
      BY <1>1, <1>3, <1>4, <2>1
    <3>2. CASE i <= m - b
      BY <1>1, <3>1, <3>2
    <3>3. CASE ~(i <= m - b)
      <4>1. PICK j \in 1..n : j = i - (m - b) /\ m + j = b + i
        BY <1>3, <3>3
      <4>2. q[j] = t[j] /\ j \in 1..(e - m)
        BY <1>3, <1>4
      <4>3. t[j] = Nth(m + j)
        BY <1>1, <4>2
      <4> QED BY <3>1, <3>3, <4>1, <4>2, <4>3
    <3> QED BY <3>2, <3>3
  <2>4. Joined(p, t, n) = p \o q
    BY DEF Joined, q
  <2> QED BY <1>3, <2>1, <2>2, <2>3, <2>4 DEF Run
<1>6. Run(Remaining(t, n), k, e)
  <2>1. PICK a \in Nat, z \in Nat : a = n + 1 /\ z = Len(t)
    BY <1>1
  <2>2. \A i \in a..z : t[i] \in Unit
    BY <1>1, <1>2, <2>1
  <2>3. /\ SubSeq(t, a, z) \in Seq(Unit)
        /\ Len(SubSeq(t, a, z)) = IF a <= z THEN z - a + 1 ELSE 0
        /\ \A i \in 1..(z - a + 1) : SubSeq(t, a, z)[i] = t[a + i - 1]
    BY <2>2, SubSeqProperties
  <2>4. Len(SubSeq(t, a, z)) = e - k
    BY <1>1, <1>3, <2>1, <2>3
  <2>5. ASSUME NEW i \in 1..(e - k) PROVE SubSeq(t, a, z)[i] = Nth(k + i)
    <3>1. PICK j \in 1..(e - m) : j = n + i /\ m + j = k + i
      BY <1>3
    <3>2. i \in 1..(z - a + 1) /\ a + i - 1 = j
      BY <1>1, <1>3, <2>1, <3>1
    <3> QED BY <1>1, <2>3, <3>1, <3>2
  <2>6. Remaining(t, n) = SubSeq(t, a, z)
    BY <2>1 DEF Remaining
  <2> QED BY <2>3, <2>4, <2>5, <2>6 DEF Run
<1> QED BY <1>5, <1>6

\* What is passed on of a run that starts with a text, and what is kept.
LEMMA RunSplit ==
  ASSUME NEW g \in Nat, NEW b \in Nat, NEW m \in Nat, NEW h \in Nat, NEW c \in Nat,
         NEW e \in 0..1, NEW p, b = 2 * g, m = c + e, c = 2 * h, Run(p, b, m)
  PROVE  Follows(R!Records(p), g, h) /\ Run(R!Rest(p), c, m)
<1>1. /\ p \in Seq(Unit) /\ Len(p) = m - b /\ b <= m
      /\ \A i \in 1..(m - b) : p[i] = Nth(b + i)
  BY DEF Run
<1>2. PICK L \in Nat, w \in Nat : L = m - b /\ w = h - g /\ 2 * w + e = L /\ g + w = h /\ b + 2 * w = c
  BY <1>1
<1>3. DOMAIN p = 1..L
  BY <1>1, <1>2
<1>4. R!Whole(p) = w
  <2>1. ASSUME NEW u \in 1..L PROVE p[u].ends <=> u % 2 = 0
    <3>1. p[u] = Nth(b + u) /\ (b + u) % 2 = u % 2
      BY <1>1, <1>2
    <3> QED BY <3>1 DEF Nth, R!Text, R!Mark
  <2>2. {u \in DOMAIN p : p[u].ends} = {u \in 1..L : u % 2 = 0}
    BY <1>3, <2>1
  <2>3. Cardinality({u \in 1..L : u % 2 = 0}) = L \div 2
    BY Evens
  <2>4. L \div 2 = w
    BY <1>2
  <2> QED BY <2>2, <2>3, <2>4, RelayCardinality DEF R!Whole
<1>5. \A k \in 1..w : p[2 * k - 1].record = g + k
  <2> SUFFICES ASSUME NEW k \in 1..w PROVE p[2 * k - 1].record = g + k
    OBVIOUS
  <2>1. PICK u \in 1..L : u = 2 * k - 1
    BY <1>2
  <2>2. p[u] = Nth(b + u)
    BY <1>1, <1>2
  <2>3. (b + u) % 2 # 0 /\ (b + u + 1) \div 2 = g + k
    BY <2>1
  <2> QED BY <2>1, <2>2, <2>3 DEF Nth, R!Text
<1>6. R!Records(p) = [k \in 1..w |-> g + k]
  BY <1>4, <1>5 DEF R!Records
<1>7. Follows(R!Records(p), g, h)
  <2> DEFINE q == [k \in 1..w |-> g + k]
  <2>1. q \in Seq(Nat) /\ Len(q) = w /\ \A i \in 1..w : q[i] = g + i
    OBVIOUS
  <2> HIDE DEF q
  <2> QED BY <1>2, <1>6, <2>1 DEF Follows, q
<1>8. Run(R!Rest(p), c, m)
  <2>1. PICK a \in Nat : a = 2 * w + 1
    OBVIOUS
  <2>2. R!Rest(p) = SubSeq(p, a, L)
    BY <1>1, <1>2, <1>4, <2>1 DEF R!Rest
  <2>3. \A i \in a..L : p[i] \in Unit
    BY <1>1, <1>2, <2>1, ElementOfSeq
  <2>4. /\ SubSeq(p, a, L) \in Seq(Unit)
        /\ Len(SubSeq(p, a, L)) = IF a <= L THEN L - a + 1 ELSE 0
        /\ \A i \in 1..(L - a + 1) : SubSeq(p, a, L)[i] = p[a + i - 1]
    BY <2>3, SubSeqProperties
  <2>5. Len(SubSeq(p, a, L)) = m - c
    BY <1>2, <2>1, <2>4
  <2>6. ASSUME NEW i \in 1..(m - c) PROVE SubSeq(p, a, L)[i] = Nth(c + i)
    <3>1. PICK j \in 1..L : j = 2 * w + i /\ b + j = c + i
      BY <1>2
    <3>2. i \in 1..(L - a + 1) /\ a + i - 1 = j
      BY <1>2, <2>1, <3>1
    <3> QED BY <1>1, <1>2, <2>4, <3>1, <3>2
  <2>7. c <= m
    OBVIOUS
  <2> QED BY <2>2, <2>4, <2>5, <2>6, <2>7 DEF Run
<1> QED BY <1>7, <1>8

\* Numbers that are continued.
LEMMA FollowsOn ==
  ASSUME NEW g \in Nat, NEW h \in Nat, NEW o, NEW q, Follows(o, 0, g), Follows(q, g, h)
  PROVE  Follows(o \o q, 0, h)
<1>1. /\ o \in Seq(Nat) /\ Len(o) = g /\ \A i \in 1..g : o[i] = i
      /\ q \in Seq(Nat) /\ Len(q) = h - g /\ g <= h /\ \A i \in 1..(h - g) : q[i] = g + i
  BY DEF Follows
<1>2. /\ o \o q \in Seq(Nat) /\ Len(o \o q) = Len(o) + Len(q)
      /\ \A i \in 1..Len(o) + Len(q) : (o \o q)[i] = IF i <= Len(o) THEN o[i] ELSE q[i - Len(o)]
  BY <1>1, ConcatProperties
<1>3. Len(o \o q) = h
  BY <1>1, <1>2
<1>4. ASSUME NEW i \in 1..h PROVE (o \o q)[i] = 0 + i
  <2>1. (o \o q)[i] = IF i <= g THEN o[i] ELSE q[i - g]
    <3>1. Len(o) + Len(q) = h
      BY <1>1
    <3>2. i \in 1..(Len(o) + Len(q)) /\ Len(o) = g
      BY <1>1, <3>1
    <3> QED BY <1>2, <3>2
  <2>2. CASE i <= g
    BY <1>1, <2>1, <2>2
  <2>3. CASE ~(i <= g)
    <3>1. PICK k \in 1..(h - g) : k = i - g
      BY <2>3
    <3> QED BY <1>1, <2>1, <2>3, <3>1
  <2> QED BY <2>2, <2>3
<1>5. h - 0 = h /\ 0 <= h
  OBVIOUS
<1> QED BY <1>1, <1>2, <1>3, <1>4, <1>5 DEF Follows

LEMMA FollowsEmpty ==
  /\ Follows(<<>>, 0, 0)
  /\ \A q : \A g \in Nat :
       Follows(q, 0, g) => q \in Seq(Nat) /\ Len(q) = g /\ \A i \in 1..g : q[i] = i
<1>1. Follows(<<>>, 0, 0)
  BY EmptySeq DEF Follows
<1>2. ASSUME NEW g \in Nat, NEW q, Follows(q, 0, g)
      PROVE  q \in Seq(Nat) /\ Len(q) = g /\ \A i \in 1..g : q[i] = i
  <2>1. g - 0 = g
    OBVIOUS
  <2> QED BY <1>2, <2>1 DEF Follows
<1> QED BY <1>1, <1>2

\* The records of the units that are left, the one begun included.
Begun(p) == [u \in DOMAIN p |-> p[u].record]

LEMMA BegunFollows ==
  ASSUME NEW g \in Nat, NEW h \in Nat, NEW e \in 0..1, NEW b \in Nat, NEW m \in Nat, NEW p,
         b = 2 * g, m = b + e, h = g + e, Run(p, b, m)
  PROVE  Follows(Begun(p), g, h)
<1>1. /\ p \in Seq(Unit) /\ Len(p) = e /\ \A i \in 1..e : p[i] = Nth(b + i)
  BY DEF Run
<1>2. DOMAIN p = 1..e
  BY <1>1
<1>3. \A i \in 1..e : p[i].record = g + i
  <2> SUFFICES ASSUME NEW i \in 1..e PROVE p[i].record = g + i
    OBVIOUS
  <2>1. i = 1 /\ (b + i) % 2 # 0 /\ (b + i + 1) \div 2 = g + i
    OBVIOUS
  <2> QED BY <1>1, <2>1 DEF Nth, R!Text
<1>4. Begun(p) = [u \in 1..e |-> g + u]
  BY <1>2, <1>3 DEF Begun
<1> DEFINE q == [u \in 1..e |-> g + u]
<1>5. q \in Seq(Nat) /\ Len(q) = e /\ \A i \in 1..e : q[i] = g + i
  OBVIOUS
<1> HIDE DEF q
<1> QED BY <1>4, <1>5 DEF Follows, q

LEMMA UnitsRun ==
  ASSUME NEW first \in Nat, NEW last \in Nat, NEW closed \in BOOLEAN, NEW b \in Nat,
         NEW e \in Nat, first >= 1, first <= last + 1, closed \/ first <= last,
         b = 2 * (first - 1), e = IF closed THEN 2 * last ELSE 2 * last - 1
  PROVE  Run(R!Units(first, last, closed), b, e)
<1> DEFINE n == 2 * (last + 1 - first)
           all == [u \in 1..n |-> IF u % 2 = 1 THEN R!Text(first + (u - 1) \div 2)
                                  ELSE R!Mark(first + (u - 1) \div 2)]
<1>1. n \in Nat /\ b + n = 2 * last /\ (~closed => n - 1 \in Nat /\ n - 1 = e - b) /\ b <= e
      /\ (closed => n = e - b)
  OBVIOUS
<1>2. ASSUME NEW u \in 1..n PROVE all[u] = Nth(b + u) /\ all[u] \in Unit
  <2>1. /\ (u - 1) \div 2 \in Nat
        /\ (b + u) % 2 = u % 2 /\ u % 2 \in {0, 1}
        /\ u % 2 = 1 => first + (u - 1) \div 2 = (b + u + 1) \div 2
        /\ u % 2 = 0 => first + (u - 1) \div 2 = (b + u) \div 2
    BY <1>1
  <2>2. all[u] = Nth(b + u)
    BY <2>1 DEF Nth
  <2>3. R!Text(first + (u - 1) \div 2) \in Unit /\ R!Mark(first + (u - 1) \div 2) \in Unit
    BY <2>1 DEF R!Text, R!Mark, Unit
  <2> QED BY <2>2, <2>3
<1>3. R!Units(first, last, closed) = IF closed THEN all ELSE SubSeq(all, 1, Len(all) - 1)
  BY DEF R!Units
<1> HIDE DEF n
<1>4. all = [u \in 1..n |-> all[u]]
  OBVIOUS
<1> HIDE DEF all
<1>5. all \in Seq(Unit) /\ Len(all) = n
  <2>1. all \in [1..n -> Unit]
    BY <1>2, <1>4
  <2> QED BY <1>1, <2>1
<1>6. CASE closed
  BY <1>1, <1>2, <1>3, <1>5, <1>6 DEF Run
<1>7. CASE ~closed
  <2>1. PICK z \in Nat : z = n - 1 /\ z = e - b
    BY <1>1, <1>7
  <2>2. /\ SubSeq(all, 1, z) \in Seq(Unit)
        /\ Len(SubSeq(all, 1, z)) = IF 1 <= z THEN z - 1 + 1 ELSE 0
        /\ \A i \in 1..(z - 1 + 1) : SubSeq(all, 1, z)[i] = all[1 + i - 1]
    <3>1. \A i \in 1..z : all[i] \in Unit
      BY <1>1, <1>2, <2>1
    <3> QED BY <3>1, SubSeqProperties
  <2>3. Len(SubSeq(all, 1, z)) = z
    BY <2>2
  <2>4. \A i \in 1..z : SubSeq(all, 1, z)[i] = Nth(b + i)
    BY <1>1, <1>2, <2>1, <2>2
  <2>5. R!Units(first, last, closed) = SubSeq(all, 1, z)
    BY <1>3, <1>5, <1>7, <2>1
  <2> QED BY <1>1, <2>1, <2>2, <2>3, <2>4, <2>5 DEF Run
<1> QED BY <1>6, <1>7

-----------------------------------------------------------------------------
(* The relay                                                               *)

\* While the worker answers with records up to s, the records passed on, the
\* units pending and the units on the wire follow one another to the last text
\* or the last mark.  A body passes nothing on until it is whole, a stream keeps
\* less than a record.
Flowing(k, o, p, t, s) ==
  \E g, b, m, e \in Nat :
    /\ b = 2 * g /\ Follows(o, 0, g)
    /\ Run(p, b, m) /\ Run(t, m, e)
    /\ e = 2 * s \/ e = 2 * s - 1
    /\ k = "body" => g = 0
    /\ k # "body" => m <= b + 1

RelayTyped ==
  /\ kind \in [Clients -> R!Kinds \cup {None}]
  /\ stage \in [Clients -> {"idle", "leased", "talking", "ended"}]
  /\ wire \in [Clients -> Seq(Unit)]
  /\ pending \in [Clients -> Seq(Unit)]
  /\ sent \in [Clients -> 0..MaxRecords]
  /\ got \in [Clients -> Seq(Nat)]
  /\ segments \in [Clients -> 0..MaxSegments]
  /\ outcome \in [Clients -> {"none", "refused", "error", "answered"}]

\* Between two posts nothing is pending and the client has had all that was
\* sent; only speech posts more than once.
Flows(r) ==
  /\ \E g \in 0..sent[r] : Follows(got[r], 0, g)
  /\ stage[r] = "idle" => sent[r] = 0 /\ pending[r] = <<>>
  /\ stage[r] \in {"leased", "talking"} =>
       /\ kind[r] \in R!Kinds
       /\ segments[r] >= 1
       /\ kind[r] # "speech" => segments[r] = 1
  /\ stage[r] = "leased" =>
       /\ pending[r] = <<>> /\ Follows(got[r], 0, sent[r])
       /\ kind[r] # "speech" => sent[r] = 0
  /\ stage[r] = "talking" => Flowing(kind[r], got[r], pending[r], wire[r], sent[r])

ToldAll(r) ==
  outcome[r] = "answered" =>
    /\ stage[r] = "ended"
    /\ \/ Follows(got[r], 0, sent[r])
       \/ /\ kind[r] \in {"chat", "asr"} /\ pending[r] # <<>>
          /\ \E g \in Nat : g + 1 = sent[r] /\ Follows(got[r], 0, g)

Holders == {r \in Clients : stage[r] \in {"leased", "talking"}}

\* The inductive invariant.
Relaying ==
  /\ RelayTyped
  /\ \A r \in Clients : Flows(r) /\ ToldAll(r)
  /\ in_flight = Cardinality(Holders)

\* A request's step leaves the others' alone.
LEMMA RelayOthers ==
  ASSUME Relaying, NEW r \in Clients, NEW q \in Clients, q # r,
         /\ kind'[q] = kind[q] /\ stage'[q] = stage[q] /\ wire'[q] = wire[q]
         /\ pending'[q] = pending[q] /\ sent'[q] = sent[q] /\ got'[q] = got[q]
         /\ segments'[q] = segments[q] /\ outcome'[q] = outcome[q]
  PROVE  Flows(q)' /\ ToldAll(q)'
<1>1. Flows(q) /\ ToldAll(q)
  BY DEF Relaying
<1> QED BY <1>1 DEF Flows, ToldAll

\* How the leases change with the stage of one request.
LEMMA HoldersChange ==
  ASSUME stage \in [Clients -> {"idle", "leased", "talking", "ended"}], NEW r \in Clients,
         in_flight = Cardinality(Holders),
         NEW s \in {"idle", "leased", "talking", "ended"}, stage' = [stage EXCEPT ![r] = s]
  PROVE  /\ stage[r] \in {"leased", "talking"} /\ s \notin {"leased", "talking"} =>
              Cardinality(Holders') = in_flight - 1
         /\ stage[r] \notin {"leased", "talking"} /\ s \in {"leased", "talking"} =>
              Cardinality(Holders') = in_flight + 1
         /\ (stage[r] \in {"leased", "talking"} <=> s \in {"leased", "talking"}) =>
              Cardinality(Holders') = in_flight
<1>1. IsFiniteSet(Holders)
  BY RelayAssumption, FS_Subset DEF Holders
<1>2. r \in Holders <=> stage[r] \in {"leased", "talking"}
  BY DEF Holders
<1>3. CASE stage[r] \in {"leased", "talking"} /\ s \notin {"leased", "talking"}
  <2>1. Holders' = Holders \ {r}
    BY <1>3 DEF Holders
  <2> QED BY <1>1, <1>2, <1>3, <2>1, FS_RemoveElement
<1>4. CASE stage[r] \notin {"leased", "talking"} /\ s \in {"leased", "talking"}
  <2>1. Holders' = Holders \cup {r}
    BY <1>4 DEF Holders
  <2> QED BY <1>1, <1>2, <1>4, <2>1, FS_AddElement
<1>5. CASE stage[r] \in {"leased", "talking"} <=> s \in {"leased", "talking"}
  <2>1. Holders' = Holders
    BY <1>5 DEF Holders
  <2> QED BY <1>5, <2>1
<1> QED BY <1>3, <1>4, <1>5

LEMMA RelayInit == R!Init => Relaying
<1> SUFFICES ASSUME R!Init PROVE Relaying
  OBVIOUS
<1>1. Holders = {}
  BY DEF R!Init, Holders
<1>2. in_flight = Cardinality(Holders)
  BY <1>1, FS_EmptySet DEF R!Init
<1>3. RelayTyped
  BY RelayAssumption DEF R!Init, RelayTyped
<1>4. \A r \in Clients : Flows(r) /\ ToldAll(r)
  BY FollowsEmpty DEF R!Init, Flows, ToldAll
<1> QED BY <1>2, <1>3, <1>4 DEF Relaying

LEMMA RelayRefuse ==
  ASSUME Relaying, NEW r \in Clients, R!Refuse(r)
  PROVE  Relaying'
<1> USE DEF R!Refuse, R!Set
<1>1. RelayTyped'
  BY DEF Relaying, RelayTyped
<1>2. Flows(r)' /\ ToldAll(r)'
  BY DEF Relaying, RelayTyped, Flows, ToldAll
<1>3. \A q \in Clients \ {r} : Flows(q)' /\ ToldAll(q)'
  BY RelayOthers DEF Relaying, RelayTyped
<1>4. in_flight' = Cardinality(Holders)'
  BY HoldersChange DEF Relaying, RelayTyped
<1> QED BY <1>1, <1>2, <1>3, <1>4 DEF Relaying

LEMMA RelayAcquire ==
  ASSUME Relaying, NEW r \in Clients, R!Acquire(r)
  PROVE  Relaying'
<1> USE DEF R!Acquire, R!Set
<1>1. RelayTyped'
  BY RelayAssumption DEF Relaying, RelayTyped, R!Kinds
<1>2. Flows(r)' /\ ToldAll(r)'
  BY RelayAssumption DEF Relaying, RelayTyped, Flows, ToldAll
<1>3. \A q \in Clients \ {r} : Flows(q)' /\ ToldAll(q)'
  BY RelayOthers DEF Relaying, RelayTyped
<1>4. in_flight' = Cardinality(Holders)'
  BY HoldersChange DEF Relaying, RelayTyped
<1> QED BY <1>1, <1>2, <1>3, <1>4 DEF Relaying

LEMMA RelayRefuseLeased ==
  ASSUME Relaying, NEW r \in Clients, R!RefuseLeased(r)
  PROVE  Relaying'
<1> USE DEF R!RefuseLeased, R!Release, R!Set
<1>1. RelayTyped'
  BY RelayAssumption, EmptySeq DEF Relaying, RelayTyped
<1>2. Flows(r)' /\ ToldAll(r)'
  BY DEF Relaying, RelayTyped, Flows, ToldAll
<1>3. \A q \in Clients \ {r} : Flows(q)' /\ ToldAll(q)'
  BY RelayOthers DEF Relaying, RelayTyped
<1>4. in_flight' = Cardinality(Holders)'
  BY HoldersChange DEF Relaying, RelayTyped
<1> QED BY <1>1, <1>2, <1>3, <1>4 DEF Relaying

LEMMA RelaySend ==
  ASSUME Relaying, NEW r \in Clients, R!Send(r)
  PROVE  Relaying'
<1> USE DEF R!Set
<1>1. PICK last \in sent[r]..MaxRecords, closed \in BOOLEAN :
        /\ closed \/ last > sent[r]
        /\ sent' = [sent EXCEPT ![r] = last]
        /\ wire' = [wire EXCEPT ![r] = R!Units(sent[r] + 1, last, closed)]
  BY DEF R!Send
<1>2. /\ stage[r] = "leased" /\ stage' = [stage EXCEPT ![r] = "talking"]
      /\ UNCHANGED <<kind, in_flight, pending, got, segments, outcome>>
  BY DEF R!Send
<1>3. /\ sent[r] \in Nat /\ last \in Nat /\ last <= MaxRecords /\ sent[r] <= last
      /\ Follows(got[r], 0, sent[r]) /\ pending[r] = <<>> /\ kind[r] \in R!Kinds
      /\ segments[r] >= 1 /\ (kind[r] # "speech" => segments[r] = 1 /\ sent[r] = 0)
  BY <1>2, RelayAssumption DEF Relaying, RelayTyped, Flows
<1>4. PICK g \in Nat, b \in Nat, f \in Nat, e \in Nat :
        g = sent[r] /\ b = 2 * g /\ f = g + 1 /\ e = IF closed THEN 2 * last ELSE 2 * last - 1
  BY <1>1, <1>3
<1>5. Run(R!Units(f, last, closed), b, e)
  <2>1. f >= 1 /\ f <= last + 1 /\ (closed \/ f <= last) /\ b = 2 * (f - 1)
    BY <1>1, <1>3, <1>4
  <2> QED BY <1>3, <1>4, <2>1, UnitsRun
<1>6. /\ sent'[r] = last /\ stage'[r] = "talking" /\ wire'[r] = R!Units(f, last, closed)
      /\ R!Units(f, last, closed) \in Seq(Unit)
  BY <1>1, <1>2, <1>4, <1>5 DEF Relaying, RelayTyped, Run
<1>7. RelayTyped'
  <2>1. wire' = [wire EXCEPT ![r] = R!Units(f, last, closed)]
    BY <1>1, <1>4
  <2> QED BY <1>1, <1>2, <1>3, <1>6, <2>1 DEF Relaying, RelayTyped
<1>8. Flowing(kind[r], got[r], pending[r], R!Units(f, last, closed), last)
  <2>1. Run(pending[r], b, b)
    BY <1>3, RunEmpty
  <2>2. e = 2 * last \/ e = 2 * last - 1
    BY <1>4
  <2>3. (kind[r] = "body" => g = 0) /\ b <= b + 1
    BY <1>3, <1>4
  <2>4. Follows(got[r], 0, g)
    BY <1>3, <1>4
  <2> QED BY <1>4, <1>5, <2>1, <2>2, <2>3, <2>4 DEF Flowing
<1>9. Flows(r)'
  <2>1. sent[r] \in 0..last
    BY <1>3
  <2> QED BY <1>2, <1>3, <1>6, <1>8, <2>1 DEF Flows
<1>10. ToldAll(r)'
  BY <1>2 DEF Relaying, ToldAll
<1>11. \A q \in Clients \ {r} : Flows(q)' /\ ToldAll(q)'
  BY <1>1, <1>2, RelayOthers DEF Relaying, RelayTyped
<1>12. in_flight' = Cardinality(Holders)'
  <2>1. stage \in [Clients -> {"idle", "leased", "talking", "ended"}]
    BY DEF Relaying, RelayTyped
  <2>2. in_flight = Cardinality(Holders)
    BY DEF Relaying
  <2> QED BY <1>2, <2>1, <2>2, HoldersChange
<1> QED BY <1>7, <1>9, <1>10, <1>11, <1>12 DEF Relaying

\* What flows is bounded by what is sent.
LEMMA FlowingBound ==
  ASSUME NEW s \in Nat, NEW k, NEW o, NEW p, NEW t, Flowing(k, o, p, t, s)
  PROVE  /\ o \in Seq(Nat) /\ p \in Seq(Unit) /\ t \in Seq(Unit)
         /\ \E g \in 0..s : Follows(o, 0, g)
<1>1. PICK g \in Nat, b \in Nat, m \in Nat, e \in Nat :
        /\ b = 2 * g /\ Follows(o, 0, g)
        /\ Run(p, b, m) /\ Run(t, m, e)
        /\ e = 2 * s \/ e = 2 * s - 1
  BY DEF Flowing
<1>2. b <= m /\ m <= e /\ p \in Seq(Unit) /\ t \in Seq(Unit) /\ o \in Seq(Nat)
  BY <1>1 DEF Run, Follows
<1>3. g <= s
  BY <1>1, <1>2
<1> QED BY <1>1, <1>2, <1>3

\* A piece that arrives, as a body keeps it and as a stream's relay cuts it.
LEMMA FlowingMoves ==
  ASSUME NEW s \in Nat, NEW k, NEW o, NEW p, NEW t, Flowing(k, o, p, t, s), NEW n \in 1..Len(t)
  PROVE  /\ k = "body" => Flowing(k, o, Joined(p, t, n), Remaining(t, n), s)
         /\ k # "body" => Flowing(k, o \o R!Records(Joined(p, t, n)), R!Rest(Joined(p, t, n)),
                                  Remaining(t, n), s)
<1>1. PICK g \in Nat, b \in Nat, m \in Nat, e \in Nat :
        /\ b = 2 * g /\ Follows(o, 0, g)
        /\ Run(p, b, m) /\ Run(t, m, e)
        /\ e = 2 * s \/ e = 2 * s - 1
        /\ k = "body" => g = 0
        /\ k # "body" => m <= b + 1
  BY DEF Flowing
<1>2. Len(t) = e - m /\ m <= e /\ b <= m
  BY <1>1 DEF Run
<1>3. PICK j \in Nat : j = m + n /\ j <= e /\ b <= j /\ n \in Nat
  BY <1>2
<1>4. Run(Joined(p, t, n), b, j) /\ Run(Remaining(t, n), j, e)
  BY <1>1, <1>3, RunJoin
<1>5. CASE k = "body"
  BY <1>1, <1>4, <1>5 DEF Flowing
<1>6. CASE k # "body"
  <2>1. PICK h \in Nat, c \in Nat, x \in 0..1 : c = 2 * h /\ j = c + x
    <3>1. j \div 2 \in Nat /\ 2 * (j \div 2) \in Nat /\ j - 2 * (j \div 2) \in 0..1
          /\ j = 2 * (j \div 2) + (j - 2 * (j \div 2))
      OBVIOUS
    <3> QED BY <3>1
  <2>2. Follows(R!Records(Joined(p, t, n)), g, h) /\ Run(R!Rest(Joined(p, t, n)), c, j)
    BY <1>1, <1>4, <2>1, RunSplit
  <2>3. Follows(o \o R!Records(Joined(p, t, n)), 0, h)
    BY <1>1, <2>2, FollowsOn
  <2>4. j <= c + 1
    BY <2>1
  <2> QED BY <1>1, <1>4, <1>6, <2>1, <2>2, <2>3, <2>4 DEF Flowing
<1> QED BY <1>5, <1>6

LEMMA RelayPiece ==
  ASSUME Relaying, NEW r \in Clients, R!Piece(r)
  PROVE  Relaying'
<1>1. PICK n \in 1..Len(wire[r]) :
        LET all == pending[r] \o SubSeq(wire[r], 1, n)
        IN /\ wire' = [wire EXCEPT ![r] = SubSeq(wire[r], n + 1, Len(wire[r]))]
           /\ IF kind[r] \in R!Streams
              THEN /\ got' = [got EXCEPT ![r] = got[r] \o R!Records(all)]
                   /\ pending' = [pending EXCEPT ![r] = R!Rest(all)]
              ELSE /\ pending' = [pending EXCEPT ![r] = all]
                   /\ UNCHANGED got
  BY DEF R!Piece, R!Set
<1> DEFINE all == Joined(pending[r], wire[r], n)
           rest == Remaining(wire[r], n)
<1>2. stage[r] = "talking" /\ UNCHANGED <<kind, stage, in_flight, sent, segments, outcome>>
  BY DEF R!Piece
<1>3. /\ sent[r] \in Nat /\ kind[r] \in R!Kinds /\ segments[r] >= 1
      /\ (kind[r] # "speech" => segments[r] = 1)
      /\ Flowing(kind[r], got[r], pending[r], wire[r], sent[r])
  BY <1>2, RelayAssumption DEF Relaying, RelayTyped, Flows
<1>4. /\ kind[r] = "body" => Flowing(kind[r], got[r], all, rest, sent[r])
      /\ kind[r] # "body" => Flowing(kind[r], got[r] \o R!Records(all), R!Rest(all), rest, sent[r])
  BY <1>3, FlowingMoves
<1>5. /\ wire' = [wire EXCEPT ![r] = rest]
      /\ IF kind[r] \in R!Streams
         THEN /\ got' = [got EXCEPT ![r] = got[r] \o R!Records(all)]
              /\ pending' = [pending EXCEPT ![r] = R!Rest(all)]
         ELSE /\ pending' = [pending EXCEPT ![r] = all]
              /\ UNCHANGED got
  BY <1>1 DEF Joined, Remaining
<1> HIDE DEF all, rest
<1>6. \A q \in Clients \ {r} : Flows(q)' /\ ToldAll(q)'
  BY <1>2, <1>5, RelayOthers DEF Relaying, RelayTyped
<1>7. ToldAll(r)' /\ in_flight' = Cardinality(Holders)'
  BY <1>2 DEF Relaying, ToldAll, Holders
<1>8. PICK o, p : /\ Flowing(kind[r], o, p, rest, sent[r])
                  /\ got' = [got EXCEPT ![r] = o] /\ pending' = [pending EXCEPT ![r] = p]
  <2>1. CASE kind[r] \in R!Streams
    BY <1>4, <1>5, <2>1 DEF R!Streams
  <2>2. CASE kind[r] \notin R!Streams
    <3>1. got' = [got EXCEPT ![r] = got[r]] /\ kind[r] = "body"
      BY <1>3, <1>5, <2>2 DEF Relaying, RelayTyped, R!Streams
    <3> QED BY <1>4, <1>5, <2>2, <3>1
  <2> QED BY <2>1, <2>2
<1>9. /\ o \in Seq(Nat) /\ p \in Seq(Unit) /\ rest \in Seq(Unit)
      /\ \E g \in 0..sent[r] : Follows(o, 0, g)
  BY <1>3, <1>8, FlowingBound
<1>10. RelayTyped'
  BY <1>2, <1>5, <1>8, <1>9 DEF Relaying, RelayTyped
<1>11. Flows(r)'
  <2>1. got'[r] = o /\ pending'[r] = p /\ wire'[r] = rest
    BY <1>5, <1>8 DEF Relaying, RelayTyped
  <2> QED BY <1>2, <1>3, <1>8, <1>9, <2>1 DEF Flows
<1> QED BY <1>6, <1>7, <1>10, <1>11 DEF Relaying

LEMMA RelayClientGone ==
  ASSUME Relaying, NEW r \in Clients, R!ClientGone(r)
  PROVE  Relaying'
<1> USE DEF R!ClientGone, R!Release, R!Set
<1>1. RelayTyped'
  BY RelayAssumption, EmptySeq DEF Relaying, RelayTyped
<1>2. Flows(r)' /\ ToldAll(r)'
  BY DEF Relaying, RelayTyped, Flows, ToldAll
<1>3. \A q \in Clients \ {r} : Flows(q)' /\ ToldAll(q)'
  BY RelayOthers DEF Relaying, RelayTyped
<1>4. in_flight' = Cardinality(Holders)'
  BY HoldersChange DEF Relaying, RelayTyped
<1> QED BY <1>1, <1>2, <1>3, <1>4 DEF Relaying

\* A request that ends: what it has been passed is some of what was sent, and
\* all of it when it is told of success.
LEMMA RelayEnds ==
  ASSUME Relaying, NEW r \in Clients, stage[r] \in {"leased", "talking"},
         NEW end \in {"error", "answered"}, R!Release(r, end),
         UNCHANGED <<kind, sent>>, NEW o, NEW p,
         o \in Seq(Nat), p \in Seq(Unit), \E g \in 0..sent[r] : Follows(o, 0, g),
         got' = [got EXCEPT ![r] = o], pending' = [pending EXCEPT ![r] = p],
         end = "answered" =>
           \/ Follows(o, 0, sent[r])
           \/ /\ kind[r] \in {"chat", "asr"} /\ p # <<>>
              /\ \E g \in Nat : g + 1 = sent[r] /\ Follows(o, 0, g)
  PROVE  Relaying'
<1> USE DEF R!Release, R!Set
<1>1. RelayTyped'
  BY SMTT(20), RelayAssumption, EmptySeq DEF Relaying, RelayTyped
<1>2. /\ got'[r] = o /\ pending'[r] = p /\ stage'[r] = "ended" /\ outcome'[r] = end
      /\ UNCHANGED <<kind, sent>>
  BY DEF Relaying, RelayTyped
<1> HIDE DEF R!Release
<1>3. Flows(r)'
  BY <1>2 DEF Flows
<1>4. ToldAll(r)'
  BY <1>2 DEF ToldAll
<1>5. \A q \in Clients \ {r} : Flows(q)' /\ ToldAll(q)'
  BY RelayOthers DEF Relaying, RelayTyped, R!Release
<1>6. in_flight' = Cardinality(Holders)'
  BY HoldersChange DEF Relaying, RelayTyped, R!Release
<1> QED BY <1>1, <1>3, <1>4, <1>5, <1>6 DEF Relaying

LEMMA RelayWorkerFails ==
  ASSUME Relaying, NEW r \in Clients, R!WorkerFails(r)
  PROVE  Relaying'
<1>1. /\ stage[r] = "talking" /\ R!Release(r, "error") /\ UNCHANGED <<kind, sent>>
      /\ got' = IF kind[r] = "proxy" /\ pending[r] # <<>>
                THEN [got EXCEPT ![r] = got[r] \o <<pending[r][1].record>>] ELSE got
      /\ pending' = [pending EXCEPT ![r] = <<>>]
  BY DEF R!WorkerFails, R!Set
<1>2. sent[r] \in Nat /\ Flowing(kind[r], got[r], pending[r], wire[r], sent[r])
  BY <1>1, RelayAssumption DEF Relaying, RelayTyped, Flows
<1>3. PICK o : /\ got' = [got EXCEPT ![r] = o] /\ o \in Seq(Nat)
               /\ \E g \in 0..sent[r] : Follows(o, 0, g)
  <2>1. CASE kind[r] = "proxy" /\ pending[r] # <<>>
    <3>1. PICK g \in Nat, b \in Nat, m \in Nat, e \in Nat :
            /\ b = 2 * g /\ Follows(got[r], 0, g)
            /\ Run(pending[r], b, m) /\ Run(wire[r], m, e)
            /\ e = 2 * sent[r] \/ e = 2 * sent[r] - 1
            /\ m <= b + 1
      BY <1>2, <2>1 DEF Flowing
    <3>2. b <= m /\ m <= e /\ m # b
      <4>1. b <= m /\ m <= e
        BY <3>1 DEF Run
      <4>2. CASE m = b
        <5>1. Run(pending[r], b, b)
          BY <3>1, <4>2
        <5> QED BY <2>1, <5>1, RunEmpty
      <4> QED BY <4>1, <4>2
    <3>3. PICK h \in Nat : h = g + 1
      OBVIOUS
    <3>4. m = b + 1 /\ h <= sent[r] /\ m - b = 1
      BY <1>2, <3>1, <3>2, <3>3
    <3>5. pending[r][1].record = h
      <4>1. 1 \in 1..(m - b)
        BY <3>4
      <4>2. pending[r][1] = Nth(b + 1)
        BY <3>1, <4>1 DEF Run
      <4>3. (b + 1) % 2 # 0 /\ (b + 1 + 1) \div 2 = h
        BY <3>1, <3>3
      <4> QED BY <4>2, <4>3 DEF Nth, R!Text
    <3>6. Follows(<<h>>, g, h)
      <4>1. <<h>> \in Seq(Nat) /\ Len(<<h>>) = 1 /\ h - g = 1 /\ g <= h /\ <<h>>[1] = h
        BY <3>3
      <4> QED BY <3>3, <4>1 DEF Follows
    <3>7. Follows(got[r] \o <<h>>, 0, h)
      BY <3>1, <3>6, FollowsOn
    <3>8. got' = [got EXCEPT ![r] = got[r] \o <<h>>]
      BY <1>1, <2>1, <3>5
    <3>9. got[r] \o <<h>> \in Seq(Nat) /\ h \in 0..sent[r]
      <4>1. got[r] \o <<h>> \in Seq(Nat)
        BY <3>7, FollowsEmpty
      <4> QED BY <1>2, <3>4, <4>1
    <3> QED BY <3>7, <3>8, <3>9
  <2>2. CASE ~(kind[r] = "proxy" /\ pending[r] # <<>>)
    <3>1. got' = [got EXCEPT ![r] = got[r]] /\ got[r] \in Seq(Nat)
      BY <1>1, <2>2 DEF Relaying, RelayTyped
    <3>2. \E g \in 0..sent[r] : Follows(got[r], 0, g)
      BY DEF Relaying, Flows
    <3> QED BY <3>1, <3>2
  <2> QED BY <2>1, <2>2
<1>4. <<>> \in Seq(Unit) /\ stage[r] \in {"leased", "talking"}
  BY <1>1, EmptySeq
<1> QED BY <1>1, <1>3, <1>4, RelayEnds

\* What a request has been passed when the worker has sent all.
LEMMA PassedFollows ==
  ASSUME NEW r \in Clients, sent[r] \in Nat, kind[r] \in R!Kinds, wire[r] = <<>>,
         Flowing(kind[r], got[r], pending[r], wire[r], sent[r])
  PROVE  /\ \E g \in 0..sent[r] : Follows(R!Passed(r), 0, g)
         /\ \/ Follows(R!Passed(r), 0, sent[r])
            \/ /\ kind[r] \in {"chat", "asr", "speech"} /\ pending[r] # <<>>
               /\ \E g \in Nat : g + 1 = sent[r] /\ Follows(R!Passed(r), 0, g)
<1>1. PICK g \in Nat, b \in Nat, m \in Nat, e \in Nat :
        /\ b = 2 * g /\ Follows(got[r], 0, g)
        /\ Run(pending[r], b, m) /\ Run(wire[r], m, e)
        /\ e = 2 * sent[r] \/ e = 2 * sent[r] - 1
        /\ kind[r] = "body" => g = 0
        /\ kind[r] # "body" => m <= b + 1
  BY DEF Flowing
<1>2. m = e /\ b <= m
  BY <1>1, RunEmpty DEF Run
<1>3. PICK s \in Nat : s = sent[r]
  OBVIOUS
<1>4. PICK h \in Nat, c \in Nat, x \in 0..1 : c = 2 * h /\ m = c + x /\ s = h + x
  <2>1. CASE e = 2 * s
    <3>1. e = 2 * s + 0 /\ s = s + 0 /\ 0 \in 0..1 /\ 2 * s \in Nat
      BY <2>1
    <3> QED BY <1>2, <3>1
  <2>2. CASE e = 2 * s - 1
    <3>1. PICK h \in Nat : s = h + 1
      BY <2>2
    <3>2. e = 2 * h + 1 /\ 1 \in 0..1 /\ 2 * h \in Nat
      BY <2>2, <3>1
    <3> QED BY <1>2, <3>1, <3>2
  <2> QED BY <1>1, <1>3, <2>1, <2>2
<1>5. CASE kind[r] = "body"
  <2>1. Follows(R!Records(pending[r]), g, h) /\ Run(R!Rest(pending[r]), c, m)
    BY <1>1, <1>4, RunSplit
  <2>2. Follows(Begun(R!Rest(pending[r])), h, s)
    BY <1>4, <2>1, BegunFollows
  <2>3. Follows(R!Records(pending[r]) \o Begun(R!Rest(pending[r])), 0, s)
    BY <1>1, <1>5, <2>1, <2>2, FollowsOn
  <2>4. R!Passed(r) = R!Records(pending[r]) \o Begun(R!Rest(pending[r]))
    BY <1>5 DEF R!Passed, Begun
  <2> QED BY <1>3, <2>3, <2>4
<1>6. CASE kind[r] # "body"
  <2>1. PICK y \in 0..1 : m = b + y
    BY <1>1, <1>2, <1>6
  <2>2. g = h /\ y = x /\ s = g + y
    <3>1. m = 2 * g + y /\ m = 2 * h + x
      BY <1>1, <1>4, <2>1
    <3>2. g = h /\ y = x
      BY <3>1
    <3> QED BY <1>4, <3>2
  <2>3. CASE kind[r] = "proxy"
    <3>1. Follows(Begun(pending[r]), g, s)
      BY <1>1, <2>1, <2>2, BegunFollows
    <3>2. Follows(got[r] \o Begun(pending[r]), 0, s)
      BY <1>1, <3>1, FollowsOn
    <3>3. R!Passed(r) = got[r] \o Begun(pending[r])
      BY <2>3 DEF R!Passed, Begun
    <3> QED BY <1>3, <3>2, <3>3
  <2>4. CASE kind[r] # "proxy"
    <3>1. R!Passed(r) = got[r] /\ kind[r] \in {"chat", "asr", "speech"}
      BY <1>6, <2>4 DEF R!Passed, R!Kinds
    <3>2. g \in 0..sent[r]
      BY <1>3, <2>2
    <3>3. CASE y = 0
      <4>1. g = sent[r]
        BY <1>3, <2>2, <3>3
      <4> QED BY <1>1, <3>1, <3>2, <4>1
    <3>4. CASE y = 1
      <4>1. g + 1 = sent[r] /\ m # b
        BY <1>3, <2>1, <2>2, <3>4
      <4>2. pending[r] # <<>>
        <5>1. m \in Nat /\ (pending[r] = <<>> => m = b)
          <6>1. Run(pending[r], b, m)
            BY <1>1
          <6> QED BY <6>1, RunEmpty DEF Run
        <5> QED BY <4>1, <5>1
      <4> QED BY <1>1, <3>1, <3>2, <4>1, <4>2
    <3> QED BY <3>3, <3>4
  <2> QED BY <2>3, <2>4
<1> QED BY <1>5, <1>6

LEMMA RelayWorkerEnds ==
  ASSUME Relaying, NEW r \in Clients, R!WorkerEnds(r)
  PROVE  Relaying'
<1>1. /\ stage[r] = "talking" /\ wire[r] = <<>> /\ UNCHANGED <<kind, pending, sent>>
      /\ got' = [got EXCEPT ![r] = R!Passed(r)]
  BY DEF R!WorkerEnds, R!Set
<1>2. /\ sent[r] \in Nat /\ kind[r] \in R!Kinds /\ segments[r] \in Nat
      /\ (kind[r] # "speech" => segments[r] = 1)
      /\ Flowing(kind[r], got[r], pending[r], wire[r], sent[r])
  BY <1>1, RelayAssumption DEF Relaying, RelayTyped, Flows
<1>3. /\ \E g \in 0..sent[r] : Follows(R!Passed(r), 0, g)
      /\ \/ Follows(R!Passed(r), 0, sent[r])
         \/ /\ kind[r] \in {"chat", "asr", "speech"} /\ pending[r] # <<>>
            /\ \E g \in Nat : g + 1 = sent[r] /\ Follows(R!Passed(r), 0, g)
  BY <1>1, <1>2, PassedFollows
<1>4. R!Passed(r) \in Seq(Nat) /\ pending[r] \in Seq(Unit) /\ pending' = [pending EXCEPT ![r] = pending[r]]
  BY <1>1, <1>3, FollowsEmpty DEF Relaying, RelayTyped
<1> DEFINE failed == \/ kind[r] = "proxy" /\ R!Passed(r) = <<>>
                     \/ kind[r] = "speech" /\ pending[r] # <<>>
                     \/ kind[r] = "speech" /\ segments[r] = 1 /\ R!Passed(r) = <<>>
<1>5. IF segments[r] > 1 /\ ~failed
      THEN /\ stage' = [stage EXCEPT ![r] = "leased"]
           /\ segments' = [segments EXCEPT ![r] = segments[r] - 1]
           /\ UNCHANGED <<in_flight, wire, outcome>>
      ELSE R!Release(r, IF failed THEN "error" ELSE "answered")
  BY DEF R!WorkerEnds, R!Set
<1>6. kind[r] = "speech" /\ pending[r] # <<>> => failed
  OBVIOUS
<1> HIDE DEF failed
<1>7. CASE segments[r] > 1 /\ ~failed
  <2>1. kind[r] = "speech" /\ pending[r] = <<>> /\ Follows(R!Passed(r), 0, sent[r])
    BY <1>2, <1>3, <1>6, <1>7
  <2>2. RelayTyped'
    <3>1. segments' \in [Clients -> 0..MaxSegments] /\ stage' \in [Clients -> {"idle", "leased", "talking", "ended"}]
      <4>1. segments[r] - 1 \in 0..MaxSegments
        BY <1>2, <1>7, RelayAssumption DEF Relaying, RelayTyped
      <4> QED BY <1>5, <1>7, <4>1 DEF Relaying, RelayTyped
    <3>2. got' \in [Clients -> Seq(Nat)]
      BY <1>1, <1>4 DEF Relaying, RelayTyped
    <3>3. UNCHANGED <<kind, wire, pending, sent, outcome>>
      BY <1>1, <1>5, <1>7
    <3> QED BY <3>1, <3>2, <3>3 DEF Relaying, RelayTyped
  <2>3. /\ got'[r] = R!Passed(r) /\ stage'[r] = "leased" /\ segments'[r] >= 1
    BY <1>1, <1>2, <1>5, <1>7 DEF Relaying, RelayTyped
  <2>4. Flows(r)'
    BY <1>1, <1>2, <1>3, <2>1, <2>3 DEF Flows
  <2>5. ToldAll(r)'
    BY <1>1, <1>5, <1>7 DEF Relaying, ToldAll
  <2>6. \A q \in Clients \ {r} : Flows(q)' /\ ToldAll(q)'
    BY <1>1, <1>5, <1>7, RelayOthers DEF Relaying, RelayTyped
  <2>7. in_flight' = Cardinality(Holders)'
    <3>1. stage \in [Clients -> {"idle", "leased", "talking", "ended"}]
      BY DEF Relaying, RelayTyped
    <3>2. in_flight = Cardinality(Holders) /\ in_flight' = in_flight
      BY <1>5, <1>7 DEF Relaying
    <3> QED BY <1>1, <1>5, <1>7, <3>1, <3>2, HoldersChange
  <2> QED BY <2>2, <2>4, <2>5, <2>6, <2>7 DEF Relaying
<1>8. CASE ~(segments[r] > 1 /\ ~failed)
  <2>1. PICK end \in {"error", "answered"} : R!Release(r, end) /\ (end = "answered" => ~failed)
    BY <1>5, <1>8
  <2>2. end = "answered" =>
           \/ Follows(R!Passed(r), 0, sent[r])
           \/ /\ kind[r] \in {"chat", "asr"} /\ pending[r] # <<>>
              /\ \E g \in Nat : g + 1 = sent[r] /\ Follows(R!Passed(r), 0, g)
    BY <1>3, <1>6, <2>1
  <2> QED BY <1>1, <1>3, <1>4, <2>1, <2>2, RelayEnds
<1> QED BY <1>7, <1>8

LEMMA RelayNext == Relaying /\ [R!Next]_R!relayVars => Relaying'
<1> SUFFICES ASSUME Relaying, [R!Next]_R!relayVars PROVE Relaying'
  OBVIOUS
<1>1. CASE R!Next
  BY <1>1, RelayRefuse, RelayAcquire, RelayRefuseLeased, RelaySend, RelayPiece, RelayClientGone,
     RelayWorkerFails, RelayWorkerEnds DEF R!Next
<1>2. CASE UNCHANGED R!relayVars
  BY <1>2 DEF R!relayVars, Relaying, RelayTyped, Flows, ToldAll, Holders
<1> QED BY <1>1, <1>2

\* However a worker's bytes are cut and however many requests, records and
\* sentences there are, a client is passed the records in order, none twice and
\* none left out, one that is told of success has had all of them, and the leases
\* are the requests between acquire and release.
THEOREM RelayPassesInOrder == Spec => []RelayedInOrder
<1>1. Relaying => RelayedInOrder
  <2> SUFFICES ASSUME Relaying PROVE RelayedInOrder
    OBVIOUS
  <2>1. R!LeasedWhileTalking
    BY RelayCardinality DEF Relaying, Holders, R!LeasedWhileTalking
  <2>2. ASSUME NEW r \in Clients
        PROVE  /\ \A i \in DOMAIN got[r] : got[r][i] = i
               /\ Len(got[r]) <= sent[r]
               /\ outcome[r] = "answered" =>
                    \/ Len(got[r]) = sent[r]
                    \/ kind[r] \in {"chat", "asr"} /\ Len(got[r]) + 1 = sent[r] /\ pending[r] # <<>>
    <3>1. Flows(r) /\ ToldAll(r) /\ sent[r] \in Nat
      BY RelayAssumption DEF Relaying, RelayTyped
    <3>2. PICK g \in 0..sent[r] : Follows(got[r], 0, g)
      BY <3>1 DEF Flows
    <3>3. got[r] \in Seq(Nat) /\ Len(got[r]) = g /\ \A i \in 1..g : got[r][i] = i
      BY <3>1, <3>2, FollowsEmpty
    <3>4. DOMAIN got[r] = 1..g
      BY <3>3
    <3>5. \A h \in Nat : Follows(got[r], 0, h) => Len(got[r]) = h
      BY FollowsEmpty
    <3>6. outcome[r] = "answered" =>
            \/ Len(got[r]) = sent[r]
            \/ kind[r] \in {"chat", "asr"} /\ Len(got[r]) + 1 = sent[r] /\ pending[r] # <<>>
      BY <3>1, <3>5 DEF ToldAll
    <3> QED BY <3>2, <3>3, <3>4, <3>6
  <2> QED BY <2>1, <2>2 DEF RelayedInOrder, R!RelayedInOrder
<1>2. R!Spec => []Relaying
  BY RelayInit, RelayNext, PTL DEF R!Spec
<1> QED BY <1>1, <1>2, RelayAlone, PTL

-----------------------------------------------------------------------------
(* The bridge's queue                                                      *)

\* A step of another component leaves the bridge as it is.
LEMMA BridgeAlone == Spec => B!Spec
<1>1. Init => B!Init
  BY DEF Init
<1>2. [Next]_vars => [B!Next]_B!bridgeVars
  BY DEF Next, vars, Alone, bridgeVars, B!bridgeVars
<1>3. QED BY <1>1, <1>2, PTL DEF Spec, B!Spec

\* q is the pieces after the first g and up to h.
Queue(q, g, h) ==
  /\ g <= h
  /\ q \in Seq(B!PieceType) /\ Len(q) = h - g
  /\ \A i \in 1..(h - g) : q[i].number = g + i

\* d is the numbers of the first g pieces.
HandedOut(d, g) ==
  /\ d \in Seq(Nat) /\ Len(d) = g
  /\ \A i \in 1..g : d[i] = i

Filling(q) == {b \in (DOMAIN q) \X (1..MaxSize) : b[2] <= q[b[1]].size}

LEMMA BytesAreFilling == \A q : B!Bytes(q) = Cardinality(Filling(q))
<1>1. \A S : B!Cardinality(S) = Cardinality(S)
  BY DEF B!Cardinality, Cardinality
<1> QED BY <1>1 DEF B!Bytes, Filling

LEMMA FillingIsFinite ==
  ASSUME NEW q \in Seq(B!PieceType)
  PROVE  IsFiniteSet(Filling(q)) /\ Cardinality(Filling(q)) \in Nat
<1>1. DOMAIN q = 1..Len(q) /\ Len(q) \in Nat
  BY LenProperties
<1>2. IsFiniteSet(DOMAIN q) /\ IsFiniteSet(1..MaxSize)
  BY <1>1, BridgeAssumption, FS_Interval
<1>3. IsFiniteSet((DOMAIN q) \X (1..MaxSize))
  BY <1>2, FS_Product
<1> QED BY <1>3, FS_Subset, FS_CardinalityType DEF Filling

\* The bytes of one piece.
LEMMA PieceBytes ==
  ASSUME NEW n, NEW size \in 0..MaxSize
  PROVE  /\ IsFiniteSet({n} \X (1..size))
         /\ Cardinality({n} \X (1..size)) = size
<1>1. IsFiniteSet({n}) /\ Cardinality({n}) = 1
  BY FS_Singleton
<1>2. IsFiniteSet(1..size) /\ Cardinality(1..size) = size
  BY FS_Interval, BridgeAssumption
<1>3. IsFiniteSet({n} \X (1..size)) /\ Cardinality({n} \X (1..size)) = 1 * size
  BY ZenonT(30), <1>1, <1>2, FS_Product
<1> QED BY <1>3, BridgeAssumption

LEMMA BytesEmpty == B!Bytes(<<>>) = 0
<1>1. Filling(<<>>) = {}
  BY DEF Filling
<1> QED BY <1>1, BytesAreFilling, FS_EmptySet

\* A set split in two parts that share nothing.
LEMMA TwoParts ==
  ASSUME NEW S, NEW U, IsFiniteSet(S), IsFiniteSet(U), S \cap U = {}
  PROVE  Cardinality(S \cup U) = Cardinality(S) + Cardinality(U)
<1>1. Cardinality(S \cup U) = Cardinality(S) + Cardinality(U) - Cardinality(S \cap U)
  BY FS_Union
<1>2. Cardinality({}) = 0 /\ Cardinality(S) \in Nat /\ Cardinality(U) \in Nat
  BY FS_EmptySet, FS_CardinalityType
<1>3. Cardinality(S \cap U) = 0
  BY <1>2, Zenon
<1> QED BY <1>1, <1>2, <1>3

LEMMA BytesPushed ==
  ASSUME NEW q \in Seq(B!PieceType), NEW c \in B!PieceType
  PROVE  B!Bytes(Append(q, c)) = B!Bytes(q) + c.size
<1> DEFINE n == Len(q) + 1
           last == {n} \X (1..c.size)
           longer == Append(q, c)
<1>1. /\ Len(q) \in Nat /\ DOMAIN q = 1..Len(q)
      /\ DOMAIN longer = 1..n /\ longer[n] = c
      /\ \A i \in 1..Len(q) : longer[i] = q[i]
  BY AppendProperties, LenProperties
<1>2. c.size \in 0..MaxSize
  BY DEF B!PieceType
<1> HIDE DEF longer
<1>3. Filling(longer) = Filling(q) \cup last
  <2>1. ASSUME NEW b \in Filling(longer) PROVE b \in Filling(q) \cup last
    BY <1>1, <2>1 DEF Filling
  <2>2. ASSUME NEW b \in Filling(q) PROVE b \in Filling(longer)
    BY <1>1, <2>2 DEF Filling
  <2>3. ASSUME NEW b \in last PROVE b \in Filling(longer)
    BY <1>1, <1>2, <2>3, BridgeAssumption DEF Filling
  <2> QED BY <2>1, <2>2, <2>3
<1>4. Filling(q) \cap last = {}
  BY <1>1 DEF Filling
<1>5. IsFiniteSet(last) /\ Cardinality(last) = c.size
  BY <1>2, PieceBytes
<1> HIDE DEF last
<1> QED BY <1>3, <1>4, <1>5, FillingIsFinite, TwoParts, BytesAreFilling DEF longer

LEMMA BytesPopped ==
  ASSUME NEW q \in Seq(B!PieceType), q # <<>>
  PROVE  B!Bytes(q) = B!Bytes(Tail(q)) + Head(q).size
<1> DEFINE first == {1} \X (1..Head(q).size)
           others == {b \in Filling(q) : b[1] > 1}
           rest == Tail(q)
           f == [b \in Filling(rest) |-> <<b[1] + 1, b[2]>>]
<1>1. /\ Len(q) \in Nat /\ DOMAIN q = 1..Len(q) /\ Len(q) > 0
      /\ Head(q) \in B!PieceType /\ Head(q) = q[1]
      /\ rest \in Seq(B!PieceType) /\ DOMAIN rest = 1..(Len(q) - 1)
      /\ \A i \in 1..(Len(q) - 1) : rest[i] = q[i + 1]
  BY HeadTailProperties, LenProperties, EmptySeq
<1>2. Head(q).size \in 0..MaxSize
  BY <1>1 DEF B!PieceType
<1> HIDE DEF rest
<1>3. Filling(q) = others \cup first /\ others \cap first = {}
  BY <1>1, <1>2, BridgeAssumption DEF Filling
<1>4. f \in Bijection(Filling(rest), others)
  <2>1. ASSUME NEW b \in Filling(rest) PROVE f[b] \in others
    BY <1>1 DEF Filling
  <2>2. ASSUME NEW b \in others PROVE \E a \in Filling(rest) : f[a] = b
    <3>1. <<b[1] - 1, b[2]>> \in Filling(rest)
      BY <1>1 DEF Filling
    <3>2. f[<<b[1] - 1, b[2]>>] = b
      BY <1>1, <3>1 DEF Filling
    <3> QED BY <3>1, <3>2
  <2>3. ASSUME NEW a \in Filling(rest), NEW b \in Filling(rest), f[a] = f[b] PROVE a = b
    BY <1>1, <2>3 DEF Filling
  <2>4. f \in [Filling(rest) -> others]
    BY <2>1
  <2> HIDE DEF f, others
  <2> QED BY <2>2, <2>3, <2>4 DEF Bijection, Injection, IsInjective, Surjection
<1> HIDE DEF f, others
<1>5. IsFiniteSet(others) /\ Cardinality(others) = Cardinality(Filling(rest))
  BY <1>1, <1>4, FillingIsFinite, FS_Bijection DEF ExistsBijection
<1>6. IsFiniteSet(first) /\ Cardinality(first) = Head(q).size
  BY <1>2, PieceBytes
<1> HIDE DEF first
<1> QED BY <1>3, <1>5, <1>6, TwoParts, BytesAreFilling DEF rest

-----------------------------------------------------------------------------
\* One piece more, one piece fewer, and all of them at once.
LEMMA QueuePushed ==
  ASSUME NEW g \in Nat, NEW h \in Nat, NEW q, Queue(q, g, h), NEW size \in 0..MaxSize
  PROVE  Queue(Append(q, [number |-> h + 1, size |-> size]), g, h + 1)
<1> DEFINE c == [number |-> h + 1, size |-> size]
           longer == Append(q, c)
<1>1. c \in B!PieceType /\ c.number = h + 1
  BY DEF B!PieceType
<1>2. q \in Seq(B!PieceType) /\ Len(q) = h - g /\ g <= h /\ \A i \in 1..(h - g) : q[i].number = g + i
  BY DEF Queue
<1> HIDE DEF c
<1>3. /\ longer \in Seq(B!PieceType) /\ Len(longer) = Len(q) + 1
      /\ \A i \in 1..Len(q) : longer[i] = q[i]
      /\ longer[Len(q) + 1] = c
  BY <1>1, <1>2, AppendProperties
<1> HIDE DEF longer
<1>4. ASSUME NEW i \in 1..(h + 1 - g) PROVE longer[i].number = g + i
  <2>1. CASE i = h + 1 - g
    BY <1>1, <1>2, <1>3, <2>1
  <2>2. CASE i # h + 1 - g
    BY <1>2, <1>3, <2>2
  <2> QED BY <2>1, <2>2
<1>5. Len(longer) = h + 1 - g
  BY <1>2, <1>3
<1>6. Queue(longer, g, h + 1)
  BY <1>2, <1>3, <1>4, <1>5 DEF Queue
<1> QED BY <1>6 DEF longer, c

LEMMA QueuePopped ==
  ASSUME NEW g \in Nat, NEW h \in Nat, NEW q, Queue(q, g, h), q # <<>>
  PROVE  /\ g + 1 <= h
         /\ Head(q) \in B!PieceType /\ Head(q).number = g + 1
         /\ Queue(Tail(q), g + 1, h)
<1>1. q \in Seq(B!PieceType) /\ Len(q) = h - g /\ g <= h /\ \A i \in 1..(h - g) : q[i].number = g + i
  BY DEF Queue
<1>2. Len(q) # 0
  BY <1>1, EmptySeq
<1> DEFINE t == Tail(q)
<1>3. /\ Head(q) \in B!PieceType /\ Head(q) = q[1]
      /\ t \in Seq(B!PieceType) /\ Len(t) = Len(q) - 1
      /\ \A i \in 1..Len(t) : t[i] = q[i + 1]
  BY <1>1, HeadTailProperties
<1> HIDE DEF t
<1>4. g + 1 <= h /\ Len(t) = h - (g + 1) /\ Head(q).number = g + 1
  BY <1>1, <1>2, <1>3
<1>5. ASSUME NEW i \in 1..(h - (g + 1)) PROVE t[i].number = g + 1 + i
  <2>1. PICK k \in 1..(h - g) : k = i + 1 /\ g + k = g + 1 + i
    BY <1>4
  <2>2. t[i] = q[k]
    BY <1>3, <1>4, <2>1
  <2> QED BY <1>1, <2>1, <2>2
<1>6. Queue(t, g + 1, h)
  BY <1>3, <1>4, <1>5 DEF Queue
<1> QED BY <1>3, <1>4, <1>6 DEF t

LEMMA HandedOne ==
  ASSUME NEW g \in Nat, NEW d, HandedOut(d, g)
  PROVE  HandedOut(Append(d, g + 1), g + 1)
<1>1. d \in Seq(Nat) /\ Len(d) = g /\ \A i \in 1..g : d[i] = i
  BY DEF HandedOut
<1> DEFINE longer == Append(d, g + 1)
<1>2. /\ longer \in Seq(Nat) /\ Len(longer) = Len(d) + 1
      /\ \A i \in 1..Len(d) : longer[i] = d[i]
      /\ longer[Len(d) + 1] = g + 1
  BY <1>1, AppendProperties
<1> HIDE DEF longer
<1>3. HandedOut(longer, g + 1)
  BY <1>1, <1>2 DEF HandedOut
<1> QED BY <1>3 DEF longer

LEMMA HandedAll ==
  ASSUME NEW g \in Nat, NEW h \in Nat, NEW d, NEW q, HandedOut(d, g), Queue(q, g, h)
  PROVE  HandedOut(d \o B!Numbers(q), h)
<1>1. d \in Seq(Nat) /\ Len(d) = g /\ \A i \in 1..g : d[i] = i
  BY DEF HandedOut
<1>2. q \in Seq(B!PieceType) /\ Len(q) = h - g /\ g <= h /\ \A i \in 1..(h - g) : q[i].number = g + i
  BY DEF Queue
<1> DEFINE n == B!Numbers(q)
           both == d \o n
<1>3. DOMAIN q = 1..(h - g)
  BY <1>2, LenProperties
<1>4. n = [i \in 1..(h - g) |-> g + i]
  BY <1>2, <1>3 DEF B!Numbers
<1>5. h - g \in Nat
  BY <1>2
<1>6. n \in Seq(Nat) /\ Len(n) = h - g /\ \A i \in 1..(h - g) : n[i] = g + i
  BY <1>4, <1>5, IsASeq
<1> HIDE DEF n
<1>7. /\ both \in Seq(Nat) /\ Len(both) = Len(d) + Len(n)
      /\ \A i \in 1..Len(d) + Len(n) : both[i] = IF i <= Len(d) THEN d[i] ELSE n[i - Len(d)]
  BY <1>1, <1>6, ConcatProperties
<1>8. Len(both) = h
  BY <1>1, <1>2, <1>6, <1>7
<1> HIDE DEF both
<1>9. ASSUME NEW i \in 1..h PROVE both[i] = i
  <2>0. Len(d) + Len(n) = h
    BY <1>1, <1>2, <1>6
  <2>1. both[i] = IF i <= g THEN d[i] ELSE n[i - g]
    BY <1>1, <1>7, <2>0
  <2>2. CASE i <= g
    BY <1>1, <2>1, <2>2
  <2>3. CASE ~(i <= g)
    <3>1. i - g \in 1..(h - g) /\ g + (i - g) = i
      BY <1>2, <2>3
    <3> QED BY <1>6, <2>1, <2>3, <3>1
  <2> QED BY <2>2, <2>3
<1>10. HandedOut(both, h)
  BY <1>7, <1>8, <1>9 DEF HandedOut
<1> QED BY <1>10 DEF both, n

LEMMA QueueEmpty ==
  ASSUME NEW h \in Nat
  PROVE  Queue(<<>>, h, h)
BY EmptySeq DEF Queue

LEMMA NumbersInOrder ==
  ASSUME NEW h \in Nat, NEW d, HandedOut(d, h)
  PROVE  d = [i \in 1..h |-> i]
BY LenProperties DEF HandedOut

-----------------------------------------------------------------------------
(* The bridge                                                              *)

BridgeTyped ==
  /\ reader \in {"none", "connecting", "reading", "receiving", "ending", "ended"}
  /\ handler \in {"idle", "awaiting", "collecting", "streaming", "answered", "dropping",
                  "joining", "answered_joining", "closed", "dropped"}
  /\ asleep \subseteq {"reader", "handler"}
  /\ arriving \in 0..MaxSize /\ arrived \in 0..MaxPieces
  /\ flags \in [ready : BOOLEAN, finished : BOOLEAN, cancelled : BOOLEAN]
  /\ stopped \in BOOLEAN
  /\ chunks \in Seq(B!PieceType) /\ delivered \in Seq(Nat)

Sent == \E g \in 0..arrived : HandedOut(delivered, g) /\ Queue(chunks, g, arrived)

\* The last flag says that the reader is over; an answer ends only then.
AnswerWhole ==
  /\ handler = "idle" <=> reader = "none"
  /\ flags.finished <=> reader = "ended"
  /\ handler \in {"answered", "answered_joining", "closed"} => chunks = <<>> /\ flags.finished

\* The bytes that the bridge counts are those that it holds.
HeldBytes == queued = B!Bytes(chunks) /\ queued < Limit + MaxSize

\* A piece in the reader's hands is the next one that there is room for.
Pieces == reader = "receiving" => arrived < MaxPieces

\* The inductive invariant.
Bridged == BridgeTyped /\ Sent /\ AnswerWhole /\ HeldBytes /\ Pieces

LEMMA BridgeStart == ASSUME Bridged, B!Start PROVE Bridged'
<1> USE BridgeAssumption DEF B!Start, B!Wait, B!Awake, B!notify_all
<1>1. UNCHANGED <<chunks, queued, arrived, delivered>>
  OBVIOUS
<1>2. BridgeTyped'
  BY DEF Bridged, BridgeTyped, Pieces
<1>3. Sent' /\ HeldBytes'
  BY <1>1 DEF Bridged, Sent, HeldBytes
<1>4. AnswerWhole' /\ Pieces'
  BY DEF Bridged, BridgeTyped, AnswerWhole, Pieces
<1> QED BY <1>2, <1>3, <1>4 DEF Bridged

LEMMA BridgeHeaders == ASSUME Bridged, B!Headers PROVE Bridged'
<1> USE BridgeAssumption DEF B!Headers, B!Wait, B!Awake, B!notify_all
<1>1. UNCHANGED <<chunks, queued, arrived, delivered>>
  OBVIOUS
<1>2. BridgeTyped'
  BY DEF Bridged, BridgeTyped, Pieces
<1>3. Sent' /\ HeldBytes'
  BY <1>1 DEF Bridged, Sent, HeldBytes
<1>4. AnswerWhole' /\ Pieces'
  BY DEF Bridged, BridgeTyped, AnswerWhole, Pieces
<1> QED BY <1>2, <1>3, <1>4 DEF Bridged

LEMMA BridgeArrive == ASSUME Bridged, B!Arrive PROVE Bridged'
<1> USE BridgeAssumption DEF B!Arrive, B!Wait, B!Awake, B!notify_all
<1>1. UNCHANGED <<chunks, queued, arrived, delivered>>
  OBVIOUS
<1>2. BridgeTyped'
  BY DEF Bridged, BridgeTyped, Pieces
<1>3. Sent' /\ HeldBytes'
  BY <1>1 DEF Bridged, Sent, HeldBytes
<1>4. AnswerWhole' /\ Pieces'
  BY DEF Bridged, BridgeTyped, AnswerWhole, Pieces
<1> QED BY <1>2, <1>3, <1>4 DEF Bridged

LEMMA BridgeSendReturns == ASSUME Bridged, B!SendReturns PROVE Bridged'
<1> USE BridgeAssumption DEF B!SendReturns, B!Wait, B!Awake, B!notify_all
<1>1. UNCHANGED <<chunks, queued, arrived, delivered>>
  OBVIOUS
<1>2. BridgeTyped'
  BY DEF Bridged, BridgeTyped, Pieces
<1>3. Sent' /\ HeldBytes'
  BY <1>1 DEF Bridged, Sent, HeldBytes
<1>4. AnswerWhole' /\ Pieces'
  BY DEF Bridged, BridgeTyped, AnswerWhole, Pieces
<1> QED BY <1>2, <1>3, <1>4 DEF Bridged

LEMMA BridgeFinish == ASSUME Bridged, B!Finish PROVE Bridged'
<1> USE BridgeAssumption DEF B!Finish, B!Wait, B!Awake, B!notify_all
<1>1. UNCHANGED <<chunks, queued, arrived, delivered>>
  OBVIOUS
<1>2. BridgeTyped'
  BY DEF Bridged, BridgeTyped, Pieces
<1>3. Sent' /\ HeldBytes'
  BY <1>1 DEF Bridged, Sent, HeldBytes
<1>4. AnswerWhole' /\ Pieces'
  BY DEF Bridged, BridgeTyped, AnswerWhole, Pieces
<1> QED BY <1>2, <1>3, <1>4 DEF Bridged

LEMMA BridgeTakeHeaders == ASSUME Bridged, B!TakeHeaders PROVE Bridged'
<1> USE BridgeAssumption DEF B!TakeHeaders, B!Wait, B!Awake, B!notify_all
<1>1. UNCHANGED <<chunks, queued, arrived, delivered>>
  OBVIOUS
<1>2. BridgeTyped'
  BY DEF Bridged, BridgeTyped, Pieces
<1>3. Sent' /\ HeldBytes'
  BY <1>1 DEF Bridged, Sent, HeldBytes
<1>4. AnswerWhole' /\ Pieces'
  BY DEF Bridged, BridgeTyped, AnswerWhole, Pieces
<1> QED BY <1>2, <1>3, <1>4 DEF Bridged

LEMMA BridgeNotReady == ASSUME Bridged, B!NotReady PROVE Bridged'
<1> USE BridgeAssumption DEF B!NotReady, B!Wait, B!Awake, B!notify_all
<1>1. UNCHANGED <<chunks, queued, arrived, delivered>>
  OBVIOUS
<1>2. BridgeTyped'
  BY DEF Bridged, BridgeTyped, Pieces
<1>3. Sent' /\ HeldBytes'
  BY <1>1 DEF Bridged, Sent, HeldBytes
<1>4. AnswerWhole' /\ Pieces'
  BY DEF Bridged, BridgeTyped, AnswerWhole, Pieces
<1> QED BY <1>2, <1>3, <1>4 DEF Bridged

LEMMA BridgeCancel == ASSUME Bridged, B!Cancel PROVE Bridged'
<1> USE BridgeAssumption DEF B!Cancel, B!Wait, B!Awake, B!notify_all
<1>1. UNCHANGED <<chunks, queued, arrived, delivered>>
  OBVIOUS
<1>2. BridgeTyped'
  BY DEF Bridged, BridgeTyped, Pieces
<1>3. Sent' /\ HeldBytes'
  BY <1>1 DEF Bridged, Sent, HeldBytes
<1>4. AnswerWhole' /\ Pieces'
  BY DEF Bridged, BridgeTyped, AnswerWhole, Pieces
<1> QED BY <1>2, <1>3, <1>4 DEF Bridged

LEMMA BridgeJoin == ASSUME Bridged, B!Join PROVE Bridged'
<1> USE BridgeAssumption DEF B!Join, B!Wait, B!Awake, B!notify_all
<1>1. UNCHANGED <<chunks, queued, arrived, delivered>>
  OBVIOUS
<1>2. BridgeTyped'
  BY DEF Bridged, BridgeTyped, Pieces
<1>3. Sent' /\ HeldBytes'
  BY <1>1 DEF Bridged, Sent, HeldBytes
<1>4. AnswerWhole' /\ Pieces'
  BY DEF Bridged, BridgeTyped, AnswerWhole, Pieces
<1> QED BY <1>2, <1>3, <1>4 DEF Bridged

\* Sleeping changes nothing but who is asleep.
LEMMA BridgeSleeps ==
  ASSUME Bridged, asleep' \in SUBSET {"reader", "handler"},
         UNCHANGED <<reader, handler, arriving, chunks, queued, arrived, delivered, flags, stopped>>
  PROVE  Bridged'
BY DEF Bridged, BridgeTyped, Sent, AnswerWhole, HeldBytes, Pieces

LEMMA BridgePush ==
  ASSUME Bridged, reader = "receiving", ~flags.cancelled, B!HasRoom, B!Push
  PROVE  Bridged'
<1> USE BridgeAssumption
<1> DEFINE piece == [number |-> arrived + 1, size |-> arriving]
<1>1. BridgeTyped /\ AnswerWhole /\ HeldBytes /\ Pieces
  BY DEF Bridged
<1>2. PICK g \in 0..arrived : HandedOut(delivered, g) /\ Queue(chunks, g, arrived)
  BY DEF Bridged, Sent
<1>3. /\ arrived' = arrived + 1 /\ chunks' = Append(chunks, piece) /\ queued' = queued + arriving
      /\ arriving' = 0 /\ reader' = "reading" /\ asleep' = {}
      /\ UNCHANGED <<handler, delivered, flags, stopped>>
  BY DEF B!Push, B!notify_all
<1>4. /\ arrived \in Nat /\ arrived < MaxPieces /\ MaxPieces \in Nat
      /\ arriving \in 0..MaxSize /\ chunks \in Seq(B!PieceType)
  BY <1>1 DEF BridgeTyped, Pieces
<1>5. piece \in B!PieceType /\ piece.size = arriving
  BY <1>4 DEF B!PieceType
<1>6. Queue(chunks', g, arrived')
  BY <1>2, <1>3, <1>4, QueuePushed
<1> HIDE DEF piece
<1>7. chunks' \in Seq(B!PieceType)
  BY <1>6 DEF Queue
<1>8. BridgeTyped'
  BY <1>1, <1>3, <1>4, <1>7 DEF BridgeTyped
<1>9. Sent'
  <2>1. g \in 0..arrived'
    BY <1>3, <1>4
  <2> QED BY <1>2, <1>3, <1>6, <2>1 DEF Sent
<1>10. HeldBytes'
  <2>1. B!Bytes(chunks') = B!Bytes(chunks) + arriving
    BY <1>3, <1>4, <1>5, BytesPushed
  <2>2. queued \in Nat /\ queued = B!Bytes(chunks) /\ queued < Limit
    BY <1>1, <1>4, FillingIsFinite, BytesAreFilling DEF HeldBytes, B!HasRoom
  <2> QED BY <1>3, <1>4, <2>1, <2>2 DEF HeldBytes
<1>11. AnswerWhole' /\ Pieces'
  BY <1>1, <1>3 DEF AnswerWhole, Pieces
<1> QED BY <1>8, <1>9, <1>10, <1>11 DEF Bridged

LEMMA BridgeReceive == ASSUME Bridged, B!Receive PROVE Bridged'
<1>1. CASE B!HasRoom /\ ~flags.cancelled
  <2>1. B!Push /\ reader = "receiving"
    BY <1>1 DEF B!Receive, B!Wait
  <2> QED BY <1>1, <2>1, BridgePush
<1>2. CASE flags.cancelled
  <2> USE <1>2, BridgeAssumption DEF B!Receive, B!Wait
  <2>1. UNCHANGED <<chunks, queued, arrived, delivered>>
    OBVIOUS
  <2>2. BridgeTyped'
    <3>1. reader' = "ending" /\ arriving' = 0 /\ UNCHANGED <<handler, asleep, flags, stopped>>
      BY Zenon
    <3> QED BY <2>1, <3>1 DEF Bridged, BridgeTyped
  <2>3. Sent' /\ HeldBytes'
    BY <2>1 DEF Bridged, Sent, HeldBytes
  <2>4. AnswerWhole' /\ Pieces'
    BY DEF Bridged, BridgeTyped, AnswerWhole, Pieces
  <2> QED BY <2>2, <2>3, <2>4 DEF Bridged
<1>3. CASE ~B!HasRoom /\ ~flags.cancelled
  BY <1>3, BridgeSleeps DEF B!Receive, B!Wait, Bridged, BridgeTyped
<1> QED BY <1>1, <1>2, <1>3

LEMMA BridgeCollect == ASSUME Bridged, B!Collect PROVE Bridged'
<1> USE BridgeAssumption
<1>1. CASE ~(flags.finished \/ chunks # <<>>)
  BY <1>1, BridgeSleeps DEF B!Collect, B!Wait, Bridged, BridgeTyped
<1>2. CASE flags.finished \/ chunks # <<>>
  <2>1. /\ delivered' = delivered \o B!Numbers(chunks)
        /\ queued' = queued - B!Bytes(chunks)
        /\ chunks' = <<>>
        /\ asleep' \in {asleep, {}}
        /\ handler = "collecting" /\ handler' \in {"answered", "collecting", "dropping"}
        /\ handler' = "answered" => flags.finished
        /\ UNCHANGED <<reader, arriving, arrived, flags, stopped>>
    BY <1>2, Zenon DEF B!Collect, B!Wait, B!notify_all
  <2>2. PICK g \in 0..arrived : HandedOut(delivered, g) /\ Queue(chunks, g, arrived)
    BY DEF Bridged, Sent
  <2>3. BridgeTyped /\ AnswerWhole /\ HeldBytes /\ arrived \in Nat
    BY DEF Bridged, BridgeTyped
  <2>4. HandedOut(delivered', arrived') /\ Queue(chunks', arrived', arrived')
    BY <2>1, <2>2, <2>3, HandedAll, QueueEmpty
  <2>5. Sent'
    BY <2>1, <2>3, <2>4 DEF Sent
  <2>6. BridgeTyped'
    <3>1. delivered' \in Seq(Nat) /\ chunks' \in Seq(B!PieceType)
      BY <2>4 DEF HandedOut, Queue
    <3> QED BY <2>1, <2>3, <3>1 DEF BridgeTyped
  <2>7. HeldBytes'
    <3>1. B!Bytes(chunks') = 0
      BY <2>1, BytesEmpty
    <3>2. queued = B!Bytes(chunks) /\ B!Bytes(chunks) \in Nat
      BY <2>3, FillingIsFinite, BytesAreFilling DEF HeldBytes, BridgeTyped
    <3> QED BY <2>1, <3>1, <3>2 DEF HeldBytes
  <2>8. AnswerWhole' /\ Pieces'
    BY <2>1, <2>3 DEF AnswerWhole, Pieces, Bridged
  <2> QED BY <2>5, <2>6, <2>7, <2>8 DEF Bridged
<1> QED BY <1>1, <1>2

LEMMA BridgeProvide == ASSUME Bridged, B!Provide PROVE Bridged'
<1> USE BridgeAssumption
<1>1. CASE ~(flags.finished \/ chunks # <<>>)
  BY <1>1, BridgeSleeps DEF B!Provide, B!Wait, Bridged, BridgeTyped
<1>2. CASE flags.finished /\ chunks = <<>>
  <2>1. handler' = "answered" /\ UNCHANGED <<reader, asleep, arriving, chunks, queued, arrived, delivered, flags, stopped>>
    BY <1>2 DEF B!Provide, B!Wait
  <2> QED BY <1>2, <2>1 DEF Bridged, BridgeTyped, Sent, AnswerWhole, HeldBytes, Pieces
<1>3. CASE chunks # <<>>
  <2>1. /\ chunks' = Tail(chunks)
        /\ queued' = queued - Head(chunks).size
        /\ delivered' = Append(delivered, Head(chunks).number)
        /\ asleep' = {}
        /\ handler = "streaming" /\ handler' \in {"streaming", "dropping"}
        /\ UNCHANGED <<reader, arriving, arrived, flags, stopped>>
    BY <1>3 DEF B!Provide, B!Wait, B!notify_all
  <2>2. PICK g \in 0..arrived : HandedOut(delivered, g) /\ Queue(chunks, g, arrived)
    BY DEF Bridged, Sent
  <2>3. BridgeTyped /\ AnswerWhole /\ HeldBytes /\ arrived \in Nat
    BY DEF Bridged, BridgeTyped
  <2>4. g + 1 <= arrived /\ Head(chunks).number = g + 1 /\ Head(chunks) \in B!PieceType
        /\ Queue(chunks', g + 1, arrived')
    BY <1>3, <2>1, <2>2, <2>3, QueuePopped
  <2>5. HandedOut(delivered', g + 1)
    BY <2>1, <2>2, <2>4, HandedOne
  <2>6. Sent'
    <3>1. g + 1 \in 0..arrived'
      BY <2>1, <2>3, <2>4
    <3> QED BY <2>4, <2>5, <3>1 DEF Sent
  <2>7. BridgeTyped'
    <3>1. delivered' \in Seq(Nat) /\ chunks' \in Seq(B!PieceType)
      BY <2>4, <2>5 DEF HandedOut, Queue
    <3> QED BY <2>1, <2>3, <3>1 DEF BridgeTyped
  <2>8. HeldBytes'
    <3>1. chunks \in Seq(B!PieceType)
      BY <2>3 DEF BridgeTyped
    <3>2. B!Bytes(chunks) = B!Bytes(chunks') + Head(chunks).size
      BY <1>3, <2>1, <3>1, BytesPopped
    <3>3. B!Bytes(chunks') \in Nat /\ Head(chunks).size \in Nat
      <4>1. chunks' \in Seq(B!PieceType)
        BY <2>4 DEF Queue
      <4>2. Head(chunks).size \in 0..MaxSize
        BY <2>4 DEF B!PieceType
      <4> QED BY <4>1, <4>2, FillingIsFinite, BytesAreFilling
    <3>4. queued = B!Bytes(chunks) /\ queued < Limit + MaxSize
      BY <2>3 DEF HeldBytes
    <3>5. queued' = B!Bytes(chunks')
      BY <2>1, <3>2, <3>3, <3>4
    <3>6. queued' < Limit + MaxSize
      BY <3>2, <3>3, <3>4, <3>5
    <3> QED BY <3>5, <3>6 DEF HeldBytes
  <2>9. AnswerWhole' /\ Pieces'
    BY <2>1, <2>3 DEF AnswerWhole, Pieces, Bridged
  <2> QED BY <2>6, <2>7, <2>8, <2>9 DEF Bridged
<1> QED BY <1>1, <1>2, <1>3

LEMMA BridgedInit == B!Init => Bridged
<1> SUFFICES ASSUME B!Init PROVE Bridged
  OBVIOUS
<1> USE BridgeAssumption
<1>1. chunks = <<>> /\ delivered = <<>>
  BY DEF B!Init
<1>2. /\ reader = "none" /\ handler = "idle" /\ asleep = {} /\ arriving = 0 /\ queued = 0
      /\ arrived = 0
  BY Zenon DEF B!Init
<1>3. flags \in [ready : BOOLEAN, finished : BOOLEAN, cancelled : BOOLEAN] /\ ~flags.finished
  <2>1. [ready |-> FALSE, finished |-> FALSE, cancelled |-> FALSE]
          \in [ready : BOOLEAN, finished : BOOLEAN, cancelled : BOOLEAN]
    BY Zenon
  <2>2. ~[ready |-> FALSE, finished |-> FALSE, cancelled |-> FALSE].finished
    OBVIOUS
  <2> QED BY <2>1, <2>2, Zenon DEF B!Init
<1>4. stopped \in BOOLEAN
  BY Zenon DEF B!Init
<1>5. HandedOut(delivered, 0) /\ Queue(chunks, 0, 0)
  BY <1>1, EmptySeq, QueueEmpty DEF HandedOut
<1>6. Sent
  BY <1>2, <1>5 DEF Sent
<1>7. HeldBytes
  <2>1. Filling(chunks) = {}
    BY <1>1 DEF Filling
  <2>2. B!Bytes(chunks) = 0
    BY <2>1, BytesAreFilling, FS_EmptySet
  <2> QED BY <1>2, <2>2 DEF HeldBytes
<1>8. chunks \in Seq(B!PieceType) /\ delivered \in Seq(Nat)
  BY <1>5 DEF HandedOut, Queue
<1>9. BridgeTyped
  BY <1>2, <1>3, <1>4, <1>8 DEF BridgeTyped
<1>10. AnswerWhole /\ Pieces
  BY <1>2, <1>3 DEF AnswerWhole, Pieces
<1> QED BY <1>6, <1>7, <1>9, <1>10 DEF Bridged

LEMMA BridgedNext == Bridged /\ [B!Next]_B!bridgeVars => Bridged'
<1> SUFFICES ASSUME Bridged, [B!Next]_B!bridgeVars PROVE Bridged'
  OBVIOUS
<1>1. CASE UNCHANGED B!bridgeVars
  <2>1. asleep' \in SUBSET {"reader", "handler"}
    BY <1>1 DEF B!bridgeVars, Bridged, BridgeTyped
  <2> QED BY <1>1, <2>1, BridgeSleeps DEF B!bridgeVars
<1> QED
  BY <1>1, BridgeStart, BridgeHeaders, BridgeArrive, BridgeReceive, BridgeSendReturns, BridgeFinish,
     BridgeTakeHeaders, BridgeNotReady, BridgeCollect, BridgeProvide, BridgeCancel, BridgeJoin
     DEF B!Next, B!Reader, B!Handler

LEMMA BridgedAlways == B!Spec => []Bridged
BY BridgedInit, BridgedNext, PTL DEF B!Spec

LEMMA BridgeTypeOK == Bridged => B!TypeOK
<1> SUFFICES ASSUME Bridged PROVE B!TypeOK
  OBVIOUS
<1>1. queued \in Nat
  BY FillingIsFinite, BytesAreFilling DEF Bridged, HeldBytes, BridgeTyped
<1> QED BY <1>1 DEF Bridged, BridgeTyped, B!TypeOK

\* The bridge: whatever the application sends and however it and the client come
\* to an end, the pieces reach the client in order, an answer that is finished
\* holds all of them, and the queue stays within its limit and one piece.
THEOREM BridgeIsFaithful == Spec => []BridgeFaithful
<1>1. ASSUME Bridged PROVE B!BridgeFaithful
  <2>1. PICK g \in 0..arrived : HandedOut(delivered, g) /\ Queue(chunks, g, arrived)
    BY <1>1 DEF Bridged, Sent
  <2>2. arrived \in Nat /\ g \in Nat
    BY <1>1, BridgeAssumption DEF Bridged, BridgeTyped
  <2>3. delivered \o B!Numbers(chunks) = [i \in 1..arrived |-> i]
    BY <2>1, <2>2, HandedAll, NumbersInOrder
  <2> QED BY <1>1, <2>3 DEF Bridged, AnswerWhole, HeldBytes, B!BridgeFaithful
<1> QED BY <1>1, BridgedAlways, BridgeAlone, PTL DEF BridgeFaithful

=============================================================================

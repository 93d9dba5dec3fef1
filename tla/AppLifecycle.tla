----------------------------- MODULE AppLifecycle -----------------------------
(***************************************************************************)
(* The life of one application: install, upgrade, uninstall, start, stop   *)
(* and open, as commands that several processes run.  A command holds the  *)
(* lock of apps/.lock or fails at once, except for what open does between  *)
(* its two locked parts; it may be killed between any two steps, and what  *)
(* it launched lives on.  A service holds the lock of its port.            *)
(***************************************************************************)
EXTENDS Naturals, FiniteSets

CONSTANTS Commands, Versions,
          Bundle,     \* the workloads that each version brings
          Pids,       \* bound: launches
          Ports,      \* app_first..app_last
          MaxActions, \* bound: commands run
          None

VARIABLES app_lock,   \* the command that holds apps/.lock
          command,    \* what each command does, None between two
          installed,  \* the version in apps/<id>, None when there is none
          staging,    \* whether apps/.staging-<id> exists
          profile,    \* config/profiles: none, as bundled or edited
          record,     \* the process that state/apps/<id>.json names
          process,    \* every process of the application
          actions,    \* bound: how many commands have been begun
          kills       \* how many were killed

appVars == <<app_lock, command, installed, staging, profile, record, process,
             actions, kills>>

BundleWorkloads == UNION {Bundle[v] : v \in Versions}

Steps == {"fetching", "registering", "placing", "failing", "unregistering",
          "leasing", "launching", "saving", "waiting", "opening", "forking"}
ProfileState == {"none", "bundled", "edited"}

\* What a command knows: the manifest that it read, the version that it installs,
\* the workloads that it wrote, what it found, and what it leased and launched.
CommandType ==
  [step : Steps, doc : Versions \cup {None}, version : Versions \cup {None},
   written : SUBSET BundleWorkloads, prior : Versions \cup {None},
   before : [BundleWorkloads -> ProfileState], pid : Pids \cup {None}, port : Ports \cup {None}]

ProcessType ==
  [alive : BOOLEAN, files : Versions \cup {None}, manifest : Versions \cup {None},
   uses : Ports \cup {None}, port : Ports \cup {None}]

Init ==
  /\ app_lock = None
  /\ command = [c \in Commands |-> None]
  /\ installed \in Versions \cup {None}
  /\ staging = FALSE
  /\ profile = [w \in BundleWorkloads |->
                  IF installed # None /\ w \in Bundle[installed] THEN "bundled" ELSE "none"]
  /\ record = None
  /\ process = [p \in Pids |-> None]
  /\ actions = 0
  /\ kills = 0

-----------------------------------------------------------------------------
Alive(p) == p # None /\ process[p] # None /\ process[p].alive
running == Alive(record)

Busy(c) == command[c] # None
Does(c, step) == Busy(c) /\ command[c].step = step
Goto(c, step) == command' = [command EXCEPT ![c].step = step]

\* A command begins under the lock; whoever finds it taken changes nothing.
Begin(c, step) ==
  /\ ~Busy(c)
  /\ actions < MaxActions
  /\ actions' = actions + 1
  /\ command' = [command EXCEPT ![c] =
       [step |-> step, doc |-> installed, version |-> None, written |-> {},
        prior |-> installed, before |-> profile, pid |-> None, port |-> None]]

BeginLocked(c, step) ==
  /\ app_lock = None
  /\ app_lock' = c
  /\ Begin(c, step)

End(c) ==
  /\ command' = [command EXCEPT ![c] = None]
  /\ app_lock' = IF app_lock = c THEN None ELSE app_lock

-----------------------------------------------------------------------------
(* install and upgrade                                                     *)

\* The application is not there, or is there and does not run; nothing was
\* left by an earlier attempt.
BeginInstall(c, v) ==
  /\ BeginLocked(c, "fetching")
  /\ installed # None => ~running
  /\ ~staging
  /\ staging' = TRUE
  /\ UNCHANGED <<installed, profile, record, process, kills>>

\* The files are fetched and compared with the manifest; a workload that
\* exists must have come with the version that is replaced.
Fetch(c, v) ==
  /\ Does(c, "fetching")
  /\ command' = [command EXCEPT ![c].version = v, ![c].step =
       IF \E w \in Bundle[v] : /\ profile[w] # "none"
                               /\ command[c].prior = None \/ w \notin Bundle[command[c].prior]
       THEN "failing" ELSE "registering"]
  /\ UNCHANGED <<app_lock, installed, staging, profile, record, process, actions, kills>>

\* The new workloads are written one by one.
Register(c, w) ==
  /\ Does(c, "registering")
  /\ w \in Bundle[command[c].version]
  /\ command[c].before[w] = "none"
  /\ w \notin command[c].written
  /\ profile' = [profile EXCEPT ![w] = "bundled"]
  /\ command' = [command EXCEPT ![c].written = @ \cup {w}]
  /\ UNCHANGED <<app_lock, installed, staging, record, process, actions, kills>>

Registered(c) ==
  \A w \in Bundle[command[c].version] :
    command[c].before[w] = "none" => w \in command[c].written

\* An upgrade moves the old files aside before the new ones take their place.
MoveAside(c) ==
  /\ Does(c, "registering")
  /\ Registered(c)
  /\ command[c].prior # None
  /\ installed' = None
  /\ Goto(c, "placing")
  /\ UNCHANGED <<app_lock, staging, profile, record, process, actions, kills>>

PutInPlace(c) ==
  /\ \/ Does(c, "placing")
     \/ Does(c, "registering") /\ Registered(c) /\ command[c].prior = None
  /\ installed' = command[c].version
  /\ staging' = FALSE
  /\ End(c)
  /\ UNCHANGED <<profile, record, process, actions, kills>>

\* A download, a digest, a write or a rename fails.
Throw(c) ==
  /\ \E s \in {"fetching", "registering", "placing"} : Does(c, s)
  /\ Goto(c, "failing")
  /\ UNCHANGED <<app_lock, installed, staging, profile, record, process, actions, kills>>

\* Mutant: the workloads that were written stay registered.
RollBackFiles(c) ==
  /\ Does(c, "failing")
  /\ installed' = IF command[c].prior # None THEN command[c].prior ELSE installed
  /\ staging' = FALSE
  /\ End(c)
  /\ UNCHANGED <<profile, record, process, actions, kills>>

\* The handler and the destructor: the old files go back, the workloads that
\* were written and the staging directory are removed.
RollBack(c) ==
  /\ Does(c, "failing")
  /\ installed' = IF command[c].prior # None THEN command[c].prior ELSE installed
  /\ profile' = [w \in BundleWorkloads |-> IF w \in command[c].written THEN "none" ELSE profile[w]]
  /\ staging' = FALSE
  /\ End(c)
  /\ UNCHANGED <<record, process, actions, kills>>

-----------------------------------------------------------------------------
(* uninstall and stop                                                      *)

\* Refused while the application runs, or the server uses one of its workloads.
BeginUninstall(c) ==
  /\ BeginLocked(c, "unregistering")
  /\ installed # None
  /\ ~running
  /\ UNCHANGED <<installed, staging, profile, record, process, kills>>

\* A workload that still has its bundled digest is removed.
Unregister(c, w) ==
  /\ Does(c, "unregistering")
  /\ w \in Bundle[installed]
  /\ profile[w] = "bundled"
  /\ profile' = [profile EXCEPT ![w] = "none"]
  /\ UNCHANGED <<app_lock, command, installed, staging, record, process, actions, kills>>

Remove(c) ==
  /\ Does(c, "unregistering")
  /\ \A w \in Bundle[installed] : profile[w] # "bundled"
  /\ installed' = None
  /\ End(c)
  /\ UNCHANGED <<staging, profile, record, process, actions, kills>>

\* SIGTERM, and the record is cleared without waiting for the process.
Stop(c) ==
  /\ ~Busy(c)
  /\ app_lock = None
  /\ installed # None
  /\ record # None
  /\ actions < MaxActions
  /\ actions' = actions + 1
  /\ record' = None
  /\ UNCHANGED <<app_lock, command, installed, staging, profile, process, kills>>

-----------------------------------------------------------------------------
(* start, of a service, and open, of a terminal application                *)

BeginStart(c) ==
  /\ BeginLocked(c, "leasing")
  /\ installed # None
  /\ ~running
  /\ UNCHANGED <<installed, staging, profile, record, process, kills>>

\* ports::acquire: the first port whose lock no command and no process holds.
Held(q) == \/ \E c \in Commands : Busy(c) /\ command[c].port = q
           \/ \E p \in Pids : Alive(p) /\ process[p].port = q
Acquire(c, q) ==
  /\ Does(c, "leasing")
  /\ ~Held(q)
  /\ command' = [command EXCEPT ![c].port = q, ![c].step = "launching"]
  /\ UNCHANGED <<app_lock, installed, staging, profile, record, process, actions, kills>>

\* The child inherits the lock of its port (and no other descriptor).
Inherited(c) == command[c].port
Launch(c, p) ==
  /\ process[p] = None
  /\ process' = [process EXCEPT ![p] = [alive |-> TRUE, files |-> installed,
                                        manifest |-> command[c].doc,
                                        uses |-> command[c].port, port |-> Inherited(c)]]
  /\ command' = [command EXCEPT ![c].pid = p, ![c].step = "saving"]

Fork(c, p) ==
  /\ Does(c, "launching")
  /\ Launch(c, p)
  /\ UNCHANGED <<app_lock, installed, staging, profile, record, actions, kills>>

\* A service that is gone after 300 ms is not recorded.
Save(c) ==
  /\ Does(c, "saving")
  /\ IF command[c].port = None
     THEN /\ record' = command[c].pid
          /\ command' = [command EXCEPT ![c].step = "waiting"]
          /\ app_lock' = None
     ELSE /\ record' = IF Alive(command[c].pid) THEN command[c].pid ELSE record
          /\ End(c)
  /\ UNCHANGED <<installed, staging, profile, process, actions, kills>>

\* A dependency is missing, no workload fits, no port is free.
StartFails(c) ==
  /\ Does(c, "leasing") \/ Does(c, "launching")
  /\ End(c)
  /\ UNCHANGED <<installed, staging, profile, record, process, actions, kills>>

\* open reads the manifest, verifies the files under the lock, looks whether
\* the application runs ...
BeginOpen(c) ==
  /\ Begin(c, "opening")
  /\ installed # None
  /\ app_lock = None
  /\ ~running
  /\ UNCHANGED <<app_lock, installed, staging, profile, record, process, kills>>

\* ... and takes the lock again to verify and to launch.
verify_installed_app(c) == installed = command[c].doc
Reopen(c) ==
  /\ Does(c, "opening")
  /\ IF app_lock = None /\ verify_installed_app(c)
     THEN app_lock' = c /\ Goto(c, "forking")
     ELSE End(c)
  /\ UNCHANGED <<installed, staging, profile, record, process, actions, kills>>

ForkTerminal(c, p) ==
  /\ Does(c, "forking")
  /\ Launch(c, p)
  /\ UNCHANGED <<app_lock, installed, staging, profile, record, actions, kills>>

\* The terminal application has ended.  Its record is cleared if it is still
\* its own and the lock is free.
Close(c) ==
  /\ Does(c, "waiting")
  /\ ~Alive(command[c].pid)
  /\ record' = IF app_lock = None /\ record = command[c].pid THEN None ELSE record
  /\ End(c)
  /\ UNCHANGED <<installed, staging, profile, process, actions, kills>>

-----------------------------------------------------------------------------
(* What happens to them                                                    *)

\* A command is killed: its locks go, its files stay.
Crash(c) ==
  /\ Busy(c)
  /\ End(c)
  /\ kills' = kills + 1
  /\ UNCHANGED <<installed, staging, profile, record, process, actions>>

Exit(p) ==
  /\ Alive(p)
  /\ process' = [process EXCEPT ![p].alive = FALSE]
  /\ UNCHANGED <<app_lock, command, installed, staging, profile, record, actions, kills>>

\* The owner edits a workload, in the terminal interface or with an editor.
Edit(w) ==
  /\ profile[w] = "bundled"
  /\ profile' = [profile EXCEPT ![w] = "edited"]
  /\ UNCHANGED <<app_lock, command, installed, staging, record, process, actions, kills>>

Next ==
  \/ \E c \in Commands :
       \/ \E v \in Versions : BeginInstall(c, v) \/ Fetch(c, v)
       \/ \E w \in BundleWorkloads : Register(c, w) \/ Unregister(c, w)
       \/ MoveAside(c) \/ PutInPlace(c) \/ Throw(c) \/ RollBack(c)
       \/ BeginUninstall(c) \/ Remove(c) \/ Stop(c)
       \/ BeginStart(c) \/ StartFails(c) \/ Save(c)
       \/ \E q \in Ports : Acquire(c, q)
       \/ \E p \in Pids : Fork(c, p) \/ ForkTerminal(c, p)
       \/ BeginOpen(c) \/ Reopen(c) \/ Close(c) \/ Crash(c)
  \/ \E p \in Pids : Exit(p)
  \/ \E w \in BundleWorkloads : Edit(w)

Spec == Init /\ [][Next]_appVars

-----------------------------------------------------------------------------
(* Properties                                                              *)

TypeOK ==
  /\ app_lock \in Commands \cup {None}
  /\ \A c \in Commands : app_lock = c => Busy(c)
  /\ installed \in Versions \cup {None}
  /\ staging \in BOOLEAN
  /\ command \in [Commands -> CommandType \cup {None}]
  /\ profile \in [BundleWorkloads -> ProfileState]
  /\ process \in [Pids -> ProcessType \cup {None}]
  /\ record \in Pids \cup {None}
  /\ actions \in 0..MaxActions /\ kills \in 0..actions

\* An install or an upgrade that fails, at whatever step, leaves the files and
\* the registered workloads that it found, and no staging directory that would
\* make the next attempt refuse.
RollsBack ==
  [][\A c \in Commands : Does(c, "failing") /\ ~Busy(c)' /\ kills' = kills =>
       /\ installed' = command[c].prior
       /\ ~staging'
       /\ \A w \in BundleWorkloads :
            (profile'[w] = "none") = (command[c].before[w] = "none")]_appVars

\* Services on this machine never share a port, whichever commands were killed
\* and whichever services no record names any more.
PortExclusive ==
  \A p, r \in Pids : Alive(p) /\ Alive(r) /\ p # r /\ process[p].uses # None =>
    process[p].uses # process[r].uses

\* The files of an application are replaced or removed only while no process
\* that it is recorded to run is alive, although the check comes many steps
\* before the rename.
ReplacesStopped == [][installed' # installed => ~running]_appVars

\* What is launched are the files that the manifest in hand describes, even
\* when an upgrade came between the reading of the manifest and the launch.
LaunchesVerified ==
  \A p \in Pids : process[p] # None => process[p].files = process[p].manifest
=============================================================================

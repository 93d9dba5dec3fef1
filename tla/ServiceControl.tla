---------------------------- MODULE ServiceControl ----------------------------
(***************************************************************************)
(* The server as a process: the commands start, stop, config set --restart *)
(* and update --restart against run/server.lock, run/server.json and the   *)
(* installed files.  Whoever asks whether a server runs takes its lock for *)
(* a moment; an update moves the old files aside and the new ones in, and  *)
(* undoes that when a step fails.                                          *)
(***************************************************************************)
EXTENDS Naturals, FiniteSets

CONSTANTS Clients,     \* commands that may run at once
          Servers,     \* bound: server processes launched
          MaxCommands, \* bound: commands run
          Nobody

VARIABLES server_lock, \* who holds run/server.lock: a server or whoever asks
          control,     \* the server that run/server.json names
          server,      \* each server process
          client,      \* what each command does, and Nobody between two
          update_lock, \* the command that holds updates/update.lock
          prefix,      \* the version of each installed file
          aside,       \* the versions kept as .previous-<transaction>
          commands,    \* bound: how many commands have been begun
          cut          \* whether an update was killed while it moved files

serviceVars == <<server_lock, control, server, client, update_lock, prefix, aside,
                 commands, cut>>

\* bin/mica-server, share/mica-server, and one that a payload may lack.
Files == {"binary", "data", "client"}
Required == {"binary", "data"}

ServiceInit ==
  /\ server_lock = Nobody
  /\ control = Nobody
  /\ server = [s \in Servers |-> "none"]
  /\ client = [c \in Clients |-> Nobody]
  /\ update_lock = Nobody
  /\ prefix = [f \in Files |-> 0]
  /\ aside = [f \in Files |-> {}]
  /\ commands = 0
  /\ cut = FALSE

-----------------------------------------------------------------------------
(* The server                                                              *)

\* Mutant: the lock is taken for granted.
OwnUnasked(s) ==
  /\ server[s] = "launched"
  /\ server_lock' = s
  /\ server' = [server EXCEPT ![s] = "loading"]
  /\ UNCHANGED <<control, client, update_lock, prefix, aside, commands, cut>>

\* Only one owns the home; the others exit.
Own(s) ==
  /\ server[s] = "launched"
  /\ IF server_lock = Nobody
     THEN server_lock' = s /\ server' = [server EXCEPT ![s] = "loading"]
     ELSE server' = [server EXCEPT ![s] = "dead"] /\ UNCHANGED server_lock
  /\ UNCHANGED <<control, client, update_lock, prefix, aside, commands, cut>>

\* The state, the profile, the keys or the port may not be usable.
Unusable(s) ==
  /\ server[s] = "loading"
  /\ server' = [server EXCEPT ![s] = "dead"]
  /\ server_lock' = Nobody
  /\ UNCHANGED <<control, client, update_lock, prefix, aside, commands, cut>>

Listen(s) ==
  /\ server[s] = "loading"
  /\ server' = [server EXCEPT ![s] = "serving"]
  /\ control' = s
  /\ UNCHANGED <<server_lock, client, update_lock, prefix, aside, commands, cut>>

\* SIGTERM or SIGINT, or a request to stop.
Interrupt(s) ==
  /\ server[s] = "serving"
  /\ server' = [server EXCEPT ![s] = "draining"]
  /\ UNCHANGED <<server_lock, control, client, update_lock, prefix, aside, commands, cut>>

\* The listener has returned and the warm-ups have ended: server.json goes
\* first, the lock last.
Forget(s) ==
  /\ server[s] = "draining"
  /\ control' = Nobody
  /\ server' = [server EXCEPT ![s] = "leaving"]
  /\ UNCHANGED <<server_lock, client, update_lock, prefix, aside, commands, cut>>

Leave(s) ==
  /\ server[s] = "leaving"
  /\ server' = [server EXCEPT ![s] = "dead"]
  /\ server_lock' = IF server_lock = s THEN Nobody ELSE server_lock
  /\ UNCHANGED <<control, client, update_lock, prefix, aside, commands, cut>>

Die(s) ==
  /\ server[s] \in {"launched", "loading", "serving", "draining", "leaving"}
  /\ server' = [server EXCEPT ![s] = "dead"]
  /\ server_lock' = IF server_lock = s THEN Nobody ELSE server_lock
  /\ UNCHANGED <<control, client, update_lock, prefix, aside, commands, cut>>

-----------------------------------------------------------------------------
(* Commands.  Each goes through: is a server running? - stop it - change   *)
(* what it is for - start one                                              *)

Step(c, s) == client[c] # Nobody /\ client[c].step = s
To(c, s) == client' = [client EXCEPT ![c].step = s]
Over(c) ==
  /\ client' = [client EXCEPT ![c] = Nobody]
  /\ update_lock' = IF update_lock = c THEN Nobody ELSE update_lock

Goals == {"start", "stop", "config", "update"}

Begin(c, goal) ==
  /\ client[c] = Nobody
  /\ commands < MaxCommands
  /\ commands' = commands + 1
  /\ client' = [client EXCEPT ![c] =
       [goal |-> goal, step |-> "asking", running |-> FALSE, launched |-> Nobody,
        asked |-> 0, payload |-> {}, moved |-> {}, placed |-> {},
        version |-> commands', before |-> prefix]]
  /\ UNCHANGED <<server_lock, control, server, update_lock, prefix, aside, cut>>

\* local_server_running: the lock is taken, and closed at once.
Ask(c) ==
  /\ Step(c, "asking")
  /\ IF server_lock = Nobody
     THEN server_lock' = c
     ELSE UNCHANGED server_lock
  /\ client' = [client EXCEPT ![c].running = server_lock # Nobody, ![c].step = "asked"]
  /\ UNCHANGED <<control, server, update_lock, prefix, aside, commands, cut>>

\* What follows the answer: an update asks a second time when it is prepared,
\* and start is what the others end with.
Answered(c) ==
  IF client[c].goal = "update" /\ client[c].asked = 0 THEN "locking"
  ELSE IF client[c].running THEN IF client[c].goal = "start" THEN "over" ELSE "stopping"
  ELSE CASE client[c].goal = "start" -> "launching"
         [] client[c].goal = "stop" -> "over"
         [] client[c].goal = "config" -> "writing"
         [] client[c].goal = "update" -> "moving"

Learn(c) ==
  /\ Step(c, "asked")
  /\ server_lock' = IF server_lock = c THEN Nobody ELSE server_lock
  /\ client' = [client EXCEPT ![c].step = Answered(c)]
  /\ UNCHANGED <<control, server, update_lock, prefix, aside, commands, cut>>

\* update.lock, then everything is fetched or built, verified and tried.
LockUpdate(c) ==
  /\ Step(c, "locking")
  /\ IF update_lock = Nobody
     THEN /\ \E p \in {Files, Required} :
               client' = [client EXCEPT ![c].payload = p, ![c].asked = 1,
                                        ![c].step = "asking", ![c].before = prefix]
          /\ update_lock' = c
     ELSE Over(c)
  /\ UNCHANGED <<server_lock, control, server, prefix, aside, commands, cut>>

\* POST /admin/server/stop to whom server.json names.
Stop(c) ==
  /\ Step(c, "stopping")
  /\ control \in Servers
  /\ server[control] = "serving"
  /\ server' = [server EXCEPT ![control] = "draining"]
  /\ To(c, "waiting")
  /\ UNCHANGED <<server_lock, control, update_lock, prefix, aside, commands, cut>>

\* It is asked for ten seconds whether the server is still there.
Stopped(c) ==
  /\ Step(c, "waiting")
  /\ server_lock = Nobody
  /\ To(c, CASE client[c].goal = "stop" -> "over"
             [] client[c].goal = "config" -> "writing"
             [] client[c].goal = "update" -> "moving")
  /\ UNCHANGED <<server_lock, control, server, update_lock, prefix, aside, commands, cut>>

\* The server does not answer, or drains for longer; a download or a check of
\* the payload failed; the new settings could not be written.
GiveUp(c) ==
  /\ client[c] # Nobody
  /\ \/ client[c].step \in {"stopping", "waiting", "writing", "launching", "starting"}
     \/ client[c].step = "asking" /\ client[c].asked = 1
  /\ Over(c)
  /\ UNCHANGED <<server_lock, control, server, prefix, aside, commands, cut>>

\* Settings are written; then a server that ran is started again.
Write(c) ==
  /\ Step(c, "writing")
  /\ client' = [client EXCEPT ![c].goal = "start",
                              ![c].step = IF client[c].running THEN "asking" ELSE "over"]
  /\ UNCHANGED <<server_lock, control, server, update_lock, prefix, aside, commands, cut>>

\* install_update_payload, one rename after another: binary, data and client
\* are moved aside, then data, binary and client put in place.
Before(f) == CASE f = "binary" -> {} [] f = "data" -> {"binary"} [] f = "client" -> Required
MoveAside(c, f) ==
  /\ Step(c, "moving")
  /\ f \in client[c].payload \ client[c].moved
  /\ Before(f) \subseteq client[c].moved
  /\ aside' = [aside EXCEPT ![f] = @ \cup ({prefix[f]} \ {Nobody})]
  /\ prefix' = [prefix EXCEPT ![f] = Nobody]
  /\ client' = [client EXCEPT ![c].moved = @ \cup {f}]
  /\ UNCHANGED <<server_lock, control, server, update_lock, commands, cut>>

First(f) == CASE f = "data" -> {} [] f = "binary" -> {"data"} [] f = "client" -> Required
PutIn(c, f) ==
  /\ Step(c, "moving")
  /\ client[c].moved = client[c].payload
  /\ f \in client[c].payload \ client[c].placed
  /\ First(f) \subseteq client[c].placed
  /\ prefix' = [prefix EXCEPT ![f] = client[c].version]
  /\ client' = [client EXCEPT ![c].placed = @ \cup {f}]
  /\ UNCHANGED <<server_lock, control, server, update_lock, aside, commands, cut>>

Installed(c) ==
  /\ Step(c, "moving")
  /\ client[c].placed = client[c].payload
  /\ client' = [client EXCEPT ![c].goal = "start",
                              ![c].step = IF client[c].running THEN "asking" ELSE "over"]
  /\ UNCHANGED <<server_lock, control, server, update_lock, prefix, aside, commands, cut>>

\* Mutant: only what was replaced goes back, not what was only moved aside.
RollBackPlaced(c) ==
  /\ Step(c, "moving")
  /\ client[c].placed # client[c].payload
  /\ prefix' = [f \in Files |->
                  IF f \in client[c].placed THEN client[c].before[f] ELSE prefix[f]]
  /\ aside' = [f \in Files |->
                 IF f \in client[c].placed THEN aside[f] \ {client[c].before[f]} ELSE aside[f]]
  /\ client' = [client EXCEPT ![c].goal = "start",
                              ![c].step = IF client[c].running THEN "asking" ELSE "over"]
  /\ UNCHANGED <<server_lock, control, server, update_lock, commands, cut>>

\* A rename fails: what was put in place is taken out, what was moved aside
\* goes back, and a server that ran is started again.
RollBack(c) ==
  /\ Step(c, "moving")
  /\ client[c].placed # client[c].payload
  /\ prefix' = [f \in Files |->
                  IF f \in client[c].moved THEN client[c].before[f] ELSE prefix[f]]
  /\ aside' = [f \in Files |->
                 IF f \in client[c].moved THEN aside[f] \ {client[c].before[f]} ELSE aside[f]]
  /\ client' = [client EXCEPT ![c].goal = "start",
                              ![c].step = IF client[c].running THEN "asking" ELSE "over"]
  /\ UNCHANGED <<server_lock, control, server, update_lock, commands, cut>>

\* The workload is installed, then the server is forked.
Launch(c, s) ==
  /\ Step(c, "launching")
  /\ server[s] = "none"
  /\ server' = [server EXCEPT ![s] = IF prefix["binary"] = Nobody THEN "dead" ELSE "launched"]
  /\ client' = [client EXCEPT ![c].launched = s, ![c].step = "starting"]
  /\ UNCHANGED <<server_lock, control, update_lock, prefix, aside, commands, cut>>

\* Done when server.json names the process that was launched, or it has died.
Started(c) ==
  /\ Step(c, "starting")
  /\ \/ control = client[c].launched /\ server[control] = "serving"
     \/ server[client[c].launched] = "dead"
  /\ To(c, "over")
  /\ UNCHANGED <<server_lock, control, server, update_lock, prefix, aside, commands, cut>>

End(c) ==
  /\ Step(c, "over")
  /\ Over(c)
  /\ UNCHANGED <<server_lock, control, server, prefix, aside, commands, cut>>

Kill(c) ==
  /\ client[c] # Nobody
  /\ Over(c)
  /\ server_lock' = IF server_lock = c THEN Nobody ELSE server_lock
  /\ cut' = (cut \/ Step(c, "moving"))
  /\ UNCHANGED <<control, server, prefix, aside, commands>>

ServiceNext ==
  \/ \E s \in Servers : Own(s) \/ Unusable(s) \/ Listen(s) \/ Interrupt(s) \/ Forget(s)
                          \/ Leave(s) \/ Die(s)
  \/ \E c \in Clients :
       \/ \E g \in Goals : Begin(c, g)
       \/ Ask(c) \/ Learn(c) \/ LockUpdate(c) \/ Stop(c) \/ Stopped(c) \/ GiveUp(c)
       \/ Write(c) \/ Installed(c) \/ RollBack(c) \/ Started(c) \/ End(c) \/ Kill(c)
       \/ \E f \in Files : MoveAside(c, f) \/ PutIn(c, f)
       \/ \E s \in Servers : Launch(c, s)

ServiceSpec == ServiceInit /\ [][ServiceNext]_serviceVars

-----------------------------------------------------------------------------
(* Properties                                                              *)

ServiceTypeOK ==
  /\ server_lock \in Servers \cup Clients \cup {Nobody}
  /\ control \in Servers \cup {Nobody}
  /\ server \in [Servers -> {"none", "launched", "loading", "serving", "draining",
                             "leaving", "dead"}]
  /\ update_lock \in Clients \cup {Nobody}
  /\ \A f \in Files : prefix[f] \in 0..MaxCommands \cup {Nobody}
  /\ commands \in 0..MaxCommands /\ cut \in BOOLEAN

\* A server that serves holds the home, and server.json - which every command
\* goes by to reach it - names it and no other, whatever died before, whatever
\* is just leaving and whoever asks.
ServingIsKnown ==
  \A s \in Servers : server[s] = "serving" => control = s /\ server_lock = s

\* Unless an update was killed while it moved files, the installed binary and
\* data are of one version and nothing is missing whenever no update moves
\* files: an update that fails in the middle leaves the installation it found.
WholeUnlessCut ==
  (~cut /\ ~\E c \in Clients : Step(c, "moving")) =>
    /\ prefix["binary"] = prefix["data"]
    /\ \A f \in Files : prefix[f] # Nobody

\* Even an update that was killed has lost nothing: the first installation is
\* in place or kept aside, file by file.
PreviousKept == \A f \in Files : prefix[f] = 0 \/ 0 \in aside[f]

\* Both: what an update that fails, and one that is killed, leave.
InstalledWhole == WholeUnlessCut /\ PreviousKept
=============================================================================

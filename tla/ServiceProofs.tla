---------------------------- MODULE ServiceProofs ----------------------------
(***************************************************************************)
(* Whoever serves is known, and an update leaves one whole version, for    *)
(* any number of commands and of servers; the keys the operator holds open *)
(* the server and replaced ones do not, for any number of keys, rotations, *)
(* sessions and restarts.                                                  *)
(***************************************************************************)
EXTENDS ServiceControl, AppAccess, TLAPS

\* A command is no server, and neither is nobody.
Distinct == Clients \cap Servers = {} /\ Nobody \notin Clients \cup Servers

States == {"none", "launched", "loading", "serving", "draining", "leaving", "dead"}

\* A process that has got past the lock, and is not dead, holds it.
Owning(s) == server[s] \in {"loading", "serving", "draining", "leaving"}
OwnerHoldsLock == \A s \in Servers : Owning(s) => server_lock = s

\* With what server.json says of the one that serves, this is inductive.
Known ==
  /\ server \in [Servers -> States]
  /\ OwnerHoldsLock
  /\ \A s \in Servers : server[s] = "serving" => control = s

-----------------------------------------------------------------------------
\* At most one process is past the lock.
LEMMA OneOwner ==
  ASSUME OwnerHoldsLock, NEW s \in Servers, NEW t \in Servers, Owning(s), Owning(t)
  PROVE  s = t
BY DEF OwnerHoldsLock

LEMMA KnownInit == ServiceInit => Known
BY DEF ServiceInit, Known, OwnerHoldsLock, Owning, States

\* A step of a server.  One that starts to serve is the only owner, and so is
\* one that takes server.json away: nobody else can be serving.
LEMMA ServerKeepsKnown ==
  ASSUME Distinct, Known, NEW s \in Servers,
         Own(s) \/ Unusable(s) \/ Listen(s) \/ Interrupt(s) \/ Forget(s) \/ Leave(s) \/ Die(s)
  PROVE  Known'
<1> USE DEF Distinct, Known, OwnerHoldsLock, Owning, States
<1>1. CASE Own(s)
  BY <1>1 DEF Own
<1>2. CASE Unusable(s)
  BY <1>2 DEF Unusable
<1>3. CASE Listen(s)
  BY <1>3 DEF Listen
<1>4. CASE Interrupt(s)
  BY <1>4 DEF Interrupt
<1>5. CASE Forget(s)
  BY <1>5 DEF Forget
<1>6. CASE Leave(s)
  BY <1>6 DEF Leave
<1>7. CASE Die(s)
  BY <1>7 DEF Die
<1>8. QED BY <1>1, <1>2, <1>3, <1>4, <1>5, <1>6, <1>7

\* A command takes the lock only when it is free and gives back only what it
\* holds itself.
LEMMA AskingKeepsKnown ==
  ASSUME Distinct, Known, UNCHANGED <<server, control>>,
         NEW c \in Clients,
         \/ server_lock = Nobody /\ server_lock' = c
         \/ server_lock = c /\ server_lock' = Nobody
         \/ UNCHANGED server_lock
  PROVE  Known'
BY DEF Distinct, Known, OwnerHoldsLock, Owning, States

LEMMA CommandKeepsKnown ==
  ASSUME Distinct, Known, NEW c \in Clients,
         \/ \E g \in Goals : Begin(c, g)
         \/ Ask(c) \/ Learn(c) \/ LockUpdate(c) \/ Stop(c) \/ Stopped(c) \/ GiveUp(c)
         \/ Write(c) \/ Installed(c) \/ RollBack(c) \/ Started(c) \/ End(c) \/ Kill(c)
         \/ \E f \in Files : MoveAside(c, f) \/ PutIn(c, f)
         \/ \E s \in Servers : Launch(c, s)
  PROVE  Known'
<1>1. CASE Ask(c)
  BY <1>1, AskingKeepsKnown DEF Ask
<1>2. CASE Learn(c)
  BY <1>2, AskingKeepsKnown DEF Learn
<1>3. CASE Kill(c)
  BY <1>3, AskingKeepsKnown DEF Kill
<1>4. CASE Stop(c)
  \* Only the one that server.json names is asked to stop.
  BY <1>4 DEF Stop, Known, OwnerHoldsLock, Owning, States
<1>5. ASSUME NEW s \in Servers, Launch(c, s) PROVE Known'
  BY <1>5 DEF Launch, Known, OwnerHoldsLock, Owning, States
<1>6. CASE \/ \E g \in Goals : Begin(c, g)
           \/ LockUpdate(c) \/ Stopped(c) \/ GiveUp(c) \/ Write(c) \/ Installed(c)
           \/ RollBack(c) \/ Started(c) \/ End(c)
           \/ \E f \in Files : MoveAside(c, f) \/ PutIn(c, f)
  <2>1. UNCHANGED <<server_lock, control, server>>
    BY <1>6, Zenon DEF Begin, LockUpdate, Stopped, GiveUp, Write, Installed, RollBack, Started,
                       End, MoveAside, PutIn
  <2>2. QED BY <2>1, AskingKeepsKnown
<1>7. QED BY <1>1, <1>2, <1>3, <1>4, <1>5, <1>6

LEMMA NextKeepsKnown == Distinct /\ Known /\ [ServiceNext]_serviceVars => Known'
<1> SUFFICES ASSUME Distinct, Known, [ServiceNext]_serviceVars PROVE Known'
  OBVIOUS
<1>1. CASE UNCHANGED serviceVars
  BY <1>1 DEF serviceVars, Known, OwnerHoldsLock, Owning
<1>2. ASSUME NEW s \in Servers,
             Own(s) \/ Unusable(s) \/ Listen(s) \/ Interrupt(s) \/ Forget(s) \/ Leave(s) \/ Die(s)
      PROVE  Known'
  BY <1>2, ServerKeepsKnown
<1>3. ASSUME NEW c \in Clients,
             \/ \E g \in Goals : Begin(c, g)
             \/ Ask(c) \/ Learn(c) \/ LockUpdate(c) \/ Stop(c) \/ Stopped(c) \/ GiveUp(c)
             \/ Write(c) \/ Installed(c) \/ RollBack(c) \/ Started(c) \/ End(c) \/ Kill(c)
             \/ \E f \in Files : MoveAside(c, f) \/ PutIn(c, f)
             \/ \E s \in Servers : Launch(c, s)
      PROVE  Known'
  BY <1>3, CommandKeepsKnown
<1>4. QED BY <1>1, <1>2, <1>3, Zenon DEF ServiceNext

\* A server that serves holds run/server.lock and is the one that
\* run/server.json names, whatever was killed and whoever asks: main's order of
\* lock, listen, write and, on the way out, remove and unlock.
THEOREM ServingIsKnownHolds ==
  ASSUME Distinct PROVE ServiceSpec => []ServingIsKnown
<1>1. Known => ServingIsKnown
  BY DEF Known, OwnerHoldsLock, Owning, ServingIsKnown
<1>2. QED BY KnownInit, NextKeepsKnown, <1>1, PTL DEF ServiceSpec

-----------------------------------------------------------------------------
(***************************************************************************)
(* Updates.  What every command remembers is typed by Command; nothing is  *)
(* said of what runs.                                                      *)
(***************************************************************************)

Steps == {"asking", "asked", "locking", "stopping", "waiting", "writing", "moving",
          "launching", "starting", "over"}
Version == Nat \cup {Nobody}
Command ==
  [goal: Goals, step: Steps, running: BOOLEAN, launched: Servers \cup {Nobody},
   asked: {0, 1}, payload: SUBSET Files, moved: SUBSET Files, placed: SUBSET Files,
   version: Nat, before: [Files -> Version]]
Entry == Command \cup {Nobody}

\* What an update that changes files goes by.
SamePlan(n, r) ==
  /\ n.payload = r.payload /\ n.moved = r.moved /\ n.placed = r.placed
  /\ n.version = r.version /\ n.before = r.before

LEMMA SetStep ==
  ASSUME NEW r \in Command, NEW s \in Steps, NEW n, n = [r EXCEPT !.step = s]
  PROVE  n \in Command /\ n.step = s /\ n.goal = r.goal /\ n.asked = r.asked /\ SamePlan(n, r)
BY Zenon DEF Command, SamePlan

LEMMA SetLaunched ==
  ASSUME NEW r \in Command, NEW b \in Servers, NEW s \in Steps, NEW n,
         n = [r EXCEPT !.launched = b, !.step = s]
  PROVE  n \in Command /\ n.step = s /\ n.goal = r.goal /\ n.asked = r.asked /\ SamePlan(n, r)
BY Zenon DEF Command, SamePlan

-----------------------------------------------------------------------------
Anonymous == Nobody \notin Clients \cup Nat \cup Command

Updates(r) == r.goal = "update" /\ r.asked = 1

\* A command goes through its steps in order: only an update that has its
\* payload moves files, the binary and the data with the rest, and none is put
\* in place before all are aside.
Orderly(r) ==
  /\ r.step = "moving" => Updates(r)
  /\ r.step = "locking" => r.goal = "update" /\ r.asked = 0
  /\ r.step \in {"stopping", "waiting"} => r.goal # "start"
  /\ r.goal = "update" /\ r.asked = 0 => r.step \in {"asking", "asked", "locking"}
  /\ r.goal = "update" /\ r.step # "moving" => r.moved = {} /\ r.placed = {}
  /\ Updates(r) => /\ r.moved \subseteq r.payload /\ r.placed \subseteq r.moved
                   /\ Required \subseteq r.payload
                   /\ r.placed # {} => r.moved = r.payload
  /\ r.version # 0

Whole(p) == p["binary"] = p["data"] /\ \A f \in Files : p[f] # Nobody

\* The files are what the update found, less what it moved and with what it
\* put in place; and what it moved is not the first installation.
Fits(r, p) ==
  /\ Whole(r.before)
  /\ \A f \in Files : p[f] = IF f \in r.placed THEN r.version
                             ELSE IF f \in r.moved THEN Nobody ELSE r.before[f]
Shifted(r, p) == \A f \in r.moved : p[f] # 0

Ours(c) == client[c] # Nobody /\ Updates(client[c])

Typed ==
  /\ client \in [Clients -> Entry]
  /\ prefix \in [Files -> Version]
  /\ aside \in [Files -> SUBSET Version]
  /\ commands \in Nat
  /\ cut \in BOOLEAN

Exclusive ==
  \A c \in Clients : /\ client[c] # Nobody => Orderly(client[c])
                     /\ Ours(c) => update_lock = c

Settled == (~\E c \in Clients : Step(c, "moving")) => Whole(prefix)
Fitting == \A c \in Clients : Ours(c) => Fits(client[c], prefix)

\* The inductive invariant: what update.lock protects, and how far the update
\* that holds it has come.  Of the files nothing is said once one was killed
\* among them, but for what it may overwrite.
UpdateSound ==
  /\ Typed /\ Exclusive
  /\ ~cut => Settled /\ Fitting
  /\ \A c \in Clients : Ours(c) => Shifted(client[c], prefix)
  /\ PreviousKept

LEMMA UpdateInit == Anonymous /\ ServiceInit => UpdateSound
<1> SUFFICES ASSUME Anonymous, ServiceInit PROVE UpdateSound
  OBVIOUS
<1>1. Typed
  BY DEF Anonymous, ServiceInit, Typed, Files, Entry, Version
<1>2. \A c \in Clients : client[c] = Nobody
  BY DEF ServiceInit
<1>3. Whole(prefix) /\ PreviousKept
  BY DEF Anonymous, ServiceInit, Whole, PreviousKept, Files
<1>4. QED BY <1>1, <1>2, <1>3 DEF UpdateSound, Exclusive, Settled, Fitting, Ours

\* What becomes of the others when one command's entry is replaced.
LEMMA Replaced ==
  ASSUME Typed, NEW c \in Clients, NEW n \in Entry, client' = [client EXCEPT ![c] = n]
  PROVE  /\ client' \in [Clients -> Entry]
         /\ client'[c] = n
         /\ \A d \in Clients \ {c} : client'[d] = client[d]
BY Zenon DEF Typed

\* Most steps of a command touch no file: an update stays the one it was.
LEMMA Quiet ==
  ASSUME Anonymous, UpdateSound, NEW c \in Clients, NEW n \in Entry,
         client' = [client EXCEPT ![c] = n],
         UNCHANGED <<prefix, aside, cut>>, commands' \in Nat,
         client[c] # Nobody => client[c].step # "moving",
         n # Nobody => Orderly(n),
         n # Nobody /\ Updates(n) => Ours(c) /\ SamePlan(n, client[c]),
         update_lock' = update_lock \/ (update_lock = c /\ n = Nobody)
  PROVE  UpdateSound'
<1>1. /\ client' \in [Clients -> Entry]
      /\ client'[c] = n
      /\ \A d \in Clients \ {c} : client'[d] = client[d]
  BY Replaced, Zenon DEF UpdateSound
<1>2. Typed'
  BY <1>1 DEF UpdateSound, Typed
<1>3. \A d \in Clients : Ours(d)' => Ours(d) /\ SamePlan(client'[d], client[d])
  BY <1>1 DEF Ours, SamePlan
<1>4. \A d \in Clients : Ours(d)' => (d = c => n # Nobody)
  BY <1>1 DEF Ours
<1>5. Exclusive'
  BY <1>1, <1>3, <1>4 DEF UpdateSound, Exclusive, Ours
<1>6. \A d \in Clients : Ours(d)' => Shifted(client[d], prefix)
  BY <1>3 DEF UpdateSound
<1>7. (\A d \in Clients : Ours(d) => Shifted(client[d], prefix))'
  BY <1>3, <1>6 DEF Shifted, SamePlan
<1>8. ASSUME ~cut PROVE Settled' /\ Fitting'
  <2>1. Fitting'
    BY <1>3, <1>8 DEF UpdateSound, Fitting, Fits, SamePlan
  <2>2. ASSUME NEW d \in Clients, Step(d, "moving") PROVE Step(d, "moving")'
    BY <2>2, <1>1 DEF Step
  <2>3. Settled'
    BY <2>2, <1>8 DEF UpdateSound, Settled
  <2>4. QED BY <2>1, <2>3
<1>9. PreviousKept'
  BY DEF UpdateSound, PreviousKept
<1>10. QED BY <1>2, <1>5, <1>7, <1>8, <1>9, Zenon DEF UpdateSound

LEMMA Selected ==
  ASSUME UpdateSound, NEW c \in Clients, client[c] # Nobody
  PROVE  client[c] \in Command /\ Orderly(client[c])
BY DEF UpdateSound, Typed, Exclusive, Entry

\* A command that goes on to another step with the same plan.
LEMMA QuietStep ==
  ASSUME Anonymous, UpdateSound, NEW c \in Clients, client[c] # Nobody, client[c].step # "moving",
         NEW n \in Command, client' = [client EXCEPT ![c] = n],
         UNCHANGED <<prefix, aside, cut, commands, update_lock>>,
         n.asked = client[c].asked, SamePlan(n, client[c]),
         n.step # "locking",
         n.step \in {"stopping", "waiting"} => n.goal # "start",
         \/ n.goal = client[c].goal
         \/ n.goal = "start",
         n.step = "moving" => Updates(n),
         n.goal = "update" /\ n.asked = 0 => n.step = "asked"
  PROVE  UpdateSound'
<1>1. client[c] \in Command /\ Orderly(client[c])
  BY Selected
<1>2. Orderly(n)
  BY <1>1 DEF Orderly, Updates, SamePlan
<1>3. Updates(n) => Ours(c)
  BY DEF Updates, Ours
<1>4. n \in Entry /\ commands' \in Nat
  BY DEF Entry, UpdateSound, Typed
<1>5. QED BY <1>2, <1>3, <1>4, Quiet

\* A command that ends, or has not begun.
LEMMA QuietEnd ==
  ASSUME Anonymous, UpdateSound, NEW c \in Clients, Over(c), client[c] # Nobody,
         client[c].step # "moving", UNCHANGED <<prefix, aside, cut, commands>>
  PROVE  UpdateSound'
<1>1. Nobody \in Entry /\ commands' \in Nat
  BY DEF Entry, UpdateSound, Typed
<1>2. /\ client' = [client EXCEPT ![c] = Nobody]
      /\ update_lock' = update_lock \/ (update_lock = c /\ update_lock' = Nobody)
  BY DEF Over
<1>3. QED BY <1>1, <1>2, Quiet

-----------------------------------------------------------------------------

LEMMA BeginKeepsSound ==
  ASSUME Anonymous, UpdateSound, NEW c \in Clients, NEW g \in Goals, Begin(c, g)
  PROVE  UpdateSound'
<1> DEFINE n == [goal |-> g, step |-> "asking", running |-> FALSE, launched |-> Nobody,
                 asked |-> 0, payload |-> {}, moved |-> {}, placed |-> {},
                 version |-> commands', before |-> prefix]
<1>1. commands' \in Nat \ {0}
  BY DEF Begin, UpdateSound, Typed
<1>2. prefix \in [Files -> Version]
  BY DEF UpdateSound, Typed
<1>3. n \in Command
  <2>1. commands' \in Nat /\ 0 \in {0, 1} /\ Nobody \in Servers \cup {Nobody}
    BY <1>1
  <2>2. "asking" \in Steps
    BY DEF Steps
  <2>3. QED BY <1>2, <2>1, <2>2, Zenon DEF Command
<1>4. Orderly(n) /\ ~Updates(n)
  BY <1>1 DEF Orderly, Updates
<1>5. n \in Entry
  BY <1>3 DEF Entry
<1>6. client' = [client EXCEPT ![c] = n] /\ client[c] = Nobody
  BY Zenon DEF Begin
<1> HIDE DEF n
<1>7. UNCHANGED <<prefix, aside, cut, update_lock>>
  BY DEF Begin
<1>8. QED BY <1>1, <1>4, <1>5, <1>6, <1>7, Quiet

LEMMA AskKeepsSound ==
  ASSUME Anonymous, UpdateSound, NEW c \in Clients, Ask(c)
  PROVE  UpdateSound'
<1> DEFINE n == [client[c] EXCEPT !.running = server_lock # Nobody, !.step = "asked"]
<1>1. client[c] # Nobody /\ client[c].step = "asking"
  BY DEF Ask, Step
<1>2. client[c] \in Command /\ client \in [Clients -> Entry]
  BY <1>1, Selected DEF UpdateSound, Typed
<1>3. client' = [client EXCEPT ![c] = n]
  BY <1>2, Zenon DEF Ask
<1> HIDE DEF n
<1>4. ASSUME NEW b, b = (server_lock # Nobody), NEW m, m = [client[c] EXCEPT !.running = b, !.step = "asked"]
      PROVE  m \in Command /\ m.step = "asked" /\ m.goal = client[c].goal
             /\ m.asked = client[c].asked /\ SamePlan(m, client[c])
  <2>1. b \in BOOLEAN
    BY <1>4
  <2>2. "asked" \in Steps
    BY DEF Steps
  <2>3. QED BY <1>2, <1>4, <2>1, <2>2, Zenon DEF Command, SamePlan
<1>5. n \in Command /\ n.step = "asked" /\ n.goal = client[c].goal
      /\ n.asked = client[c].asked /\ SamePlan(n, client[c])
  BY <1>4, Zenon DEF n
<1>6. UNCHANGED <<prefix, aside, cut, commands, update_lock>>
  BY DEF Ask
<1>7. QED BY <1>1, <1>3, <1>5, <1>6, QuietStep

LEMMA HearKeepsSound ==
  ASSUME Anonymous, UpdateSound, NEW c \in Clients, Learn(c)
  PROVE  UpdateSound'
<1> DEFINE n == [client[c] EXCEPT !.step = Answered(c)]
<1>1. client[c] # Nobody /\ client[c].step = "asked"
  BY DEF Learn, Step
<1>2. client[c] \in Command /\ Orderly(client[c]) /\ client \in [Clients -> Entry]
  BY <1>1, Selected DEF UpdateSound, Typed
<1>3. client' = [client EXCEPT ![c] = n]
  BY <1>2, Zenon DEF Learn
<1>4. client[c].goal \in Goals
  BY <1>2 DEF Command
<1>5. Answered(c) \in Steps
  <2>1. Answered(c) \in {"locking", "over", "stopping", "launching", "writing", "moving"}
    BY <1>4 DEF Answered, Goals
  <2>2. QED BY <2>1 DEF Steps
<1>6. n \in Command /\ n.step = Answered(c) /\ n.goal = client[c].goal
      /\ n.asked = client[c].asked /\ SamePlan(n, client[c])
  BY <1>2, <1>5, SetStep, Zenon
<1>7. UNCHANGED <<prefix, aside, cut, commands, update_lock>>
  BY DEF Learn
<1>8. client[c].goal = "update" /\ client[c].asked = 0 => Answered(c) = "locking"
  BY <1>4 DEF Answered, Goals
<1>9. Answered(c) = "locking" => client[c].goal = "update" /\ client[c].asked = 0
  BY <1>4 DEF Answered, Goals
<1>10. Answered(c) = "moving" => client[c].goal = "update" /\ client[c].asked # 0
  BY <1>4 DEF Answered, Goals
<1>11. Answered(c) = "stopping" => client[c].goal # "start"
  BY <1>4 DEF Answered, Goals
<1>12. Answered(c) # "waiting"
  BY <1>4 DEF Answered, Goals
<1>13. client[c].asked \in {0, 1}
  BY <1>2 DEF Command
<1> HIDE DEF n
<1>14. Orderly(n)
  BY <1>1, <1>2, <1>6, <1>8, <1>9, <1>10, <1>11, <1>12, <1>13 DEF Orderly, Updates, SamePlan
<1>15. Updates(n) => Ours(c)
  BY <1>1, <1>6 DEF Updates, Ours
<1>16. n \in Entry /\ commands' \in Nat
  BY <1>6, <1>7 DEF Entry, UpdateSound, Typed
<1>17. QED BY <1>1, <1>3, <1>6, <1>7, <1>14, <1>15, <1>16, Quiet

LEMMA StepKeepsSound ==
  ASSUME Anonymous, UpdateSound, NEW c \in Clients, Stop(c) \/ Stopped(c) \/ Started(c)
  PROVE  UpdateSound'
<1>1. client[c] # Nobody /\ client[c].step \in {"stopping", "waiting", "starting"}
  BY Zenon DEF Stop, Stopped, Started, Step
<1>2. client[c] \in Command /\ Orderly(client[c]) /\ client \in [Clients -> Entry]
  BY <1>1, Selected DEF UpdateSound, Typed
<1>3. PICK s \in Steps : /\ client' = [client EXCEPT ![c].step = s]
                         /\ s \in {"waiting", "over", "writing", "moving"}
                         /\ s = "moving" => client[c].goal = "update"
                         /\ s = "waiting" => client[c].goal # "start"
  <2>1. CASE Stop(c)
    <3>1. client[c].goal # "start"
      BY <2>1, <1>2 DEF Stop, Step, Orderly
    <3>2. client' = [client EXCEPT ![c].step = "waiting"]
      BY <2>1, Zenon DEF Stop, To
    <3>3. "waiting" \in Steps
      BY DEF Steps
    <3>4. QED BY <3>1, <3>2, <3>3
  <2>2. CASE Started(c)
    <3>1. client' = [client EXCEPT ![c].step = "over"]
      BY <2>2, Zenon DEF Started, To
    <3>2. "over" \in Steps
      BY DEF Steps
    <3>3. QED BY <3>1, <3>2
  <2>3. CASE Stopped(c)
    <3> DEFINE s == CASE client[c].goal = "stop" -> "over"
                      [] client[c].goal = "config" -> "writing"
                      [] client[c].goal = "update" -> "moving"
    <3>1. client[c].goal \in {"stop", "config", "update"}
      <4>1. client[c].goal \in Goals /\ client[c].goal # "start"
        BY <2>3, <1>2 DEF Stopped, Step, Command, Orderly
      <4>2. QED BY <4>1 DEF Goals
    <3>2. s \in {"over", "writing", "moving"} /\ (s = "moving" => client[c].goal = "update")
      BY <3>1
    <3>3. s \in Steps
      BY <3>2 DEF Steps
    <3>4. client' = [client EXCEPT ![c].step = s]
      BY <2>3, Zenon DEF Stopped, To
    <3> HIDE DEF s
    <3>5. QED BY <3>2, <3>3, <3>4
  <2>4. QED BY <2>1, <2>2, <2>3
<1> DEFINE n == [client[c] EXCEPT !.step = s]
<1>4. client' = [client EXCEPT ![c] = n]
  BY <1>2, <1>3, Zenon
<1>5. n \in Command /\ n.step = s /\ n.goal = client[c].goal
      /\ n.asked = client[c].asked /\ SamePlan(n, client[c])
  BY <1>2, SetStep, Zenon
<1>6. UNCHANGED <<prefix, aside, cut, commands, update_lock>>
  BY Zenon DEF Stop, Stopped, Started
<1> HIDE DEF n
<1>7. client[c].asked \in {0, 1}
  BY <1>2 DEF Command
<1>8. client[c].goal = "update" => client[c].asked # 0
  BY <1>1, <1>2 DEF Orderly
<1>9. QED BY <1>1, <1>3, <1>4, <1>5, <1>6, <1>7, <1>8, QuietStep DEF Updates

LEMMA LaunchKeepsSound ==
  ASSUME Anonymous, UpdateSound, NEW c \in Clients, NEW t \in Servers, Launch(c, t)
  PROVE  UpdateSound'
<1> DEFINE n == [client[c] EXCEPT !.launched = t, !.step = "starting"]
<1>1. client[c] # Nobody /\ client[c].step = "launching"
  BY DEF Launch, Step
<1>2. client[c] \in Command /\ Orderly(client[c]) /\ client \in [Clients -> Entry]
  BY <1>1, Selected DEF UpdateSound, Typed
<1>3. client' = [client EXCEPT ![c] = n]
  BY <1>2, Zenon DEF Launch
<1>4. "starting" \in Steps
  BY DEF Steps
<1>5. n \in Command /\ n.step = "starting" /\ n.goal = client[c].goal
      /\ n.asked = client[c].asked /\ SamePlan(n, client[c])
  BY <1>2, <1>4, SetLaunched, Zenon
<1>6. UNCHANGED <<prefix, aside, cut, commands, update_lock>>
  BY Zenon DEF Launch
<1> HIDE DEF n
<1>7. ~(client[c].goal = "update" /\ client[c].asked = 0)
  BY <1>1, <1>2 DEF Orderly
<1>8. QED BY <1>1, <1>3, <1>5, <1>6, <1>7, QuietStep

LEMMA OverKeepsSound ==
  ASSUME Anonymous, UpdateSound, NEW c \in Clients, GiveUp(c) \/ End(c)
  PROVE  UpdateSound'
<1>1. Over(c) /\ client[c] # Nobody /\ client[c].step # "moving"
  BY DEF GiveUp, End, Step
<1>2. UNCHANGED <<prefix, aside, cut, commands>>
  BY Zenon DEF GiveUp, End
<1>3. QED BY <1>1, <1>2, QuietEnd

LEMMA WriteKeepsSound ==
  ASSUME Anonymous, UpdateSound, NEW c \in Clients, Write(c)
  PROVE  UpdateSound'
<1>1. client[c] # Nobody /\ client[c].step = "writing"
  BY DEF Write, Step
<1>2. client[c] \in Command /\ client \in [Clients -> Entry]
  BY <1>1, Selected DEF UpdateSound, Typed
<1>3. PICK s \in Steps : /\ s \in {"asking", "over"}
                         /\ s = IF client[c].running THEN "asking" ELSE "over"
  BY DEF Steps
<1> DEFINE n == [client[c] EXCEPT !.goal = "start", !.step = s]
<1>4. client' = [client EXCEPT ![c] = n]
  BY <1>2, <1>3, Zenon DEF Write
<1>5. "start" \in Goals
  BY DEF Goals
<1>6. n \in Command /\ n.step = s /\ n.goal = "start"
      /\ n.asked = client[c].asked /\ SamePlan(n, client[c])
  BY <1>2, <1>5, Zenon DEF Command, SamePlan
<1>7. UNCHANGED <<prefix, aside, cut, commands, update_lock>>
  BY Zenon DEF Write
<1> HIDE DEF n
<1>8. QED BY <1>1, <1>3, <1>4, <1>6, <1>7, QuietStep

\* An update fixes the version it found, which is whole: nobody else moves files.
LEMMA LockUpdateKeepsSound ==
  ASSUME Anonymous, UpdateSound, NEW c \in Clients, LockUpdate(c)
  PROVE  UpdateSound'
<1>1. client[c] # Nobody /\ client[c].step = "locking"
  BY DEF LockUpdate, Step
<1>2. client[c] \in Command /\ Orderly(client[c]) /\ client \in [Clients -> Entry]
  BY <1>1, Selected DEF UpdateSound, Typed
<1>3. UNCHANGED <<prefix, aside, cut, commands>>
  BY Zenon DEF LockUpdate
<1>4. CASE update_lock # Nobody
  <2>1. Over(c)
    BY <1>4, Zenon DEF LockUpdate
  <2>2. QED BY <2>1, <1>1, <1>3, QuietEnd
<1>5. CASE update_lock = Nobody
  <2>1. PICK p \in {Files, Required} :
          client' = [client EXCEPT ![c].payload = p, ![c].asked = 1,
                                   ![c].step = "asking", ![c].before = prefix]
    BY <1>5, Zenon DEF LockUpdate
  <2> DEFINE n == [client[c] EXCEPT !.payload = p, !.asked = 1, !.step = "asking",
                                    !.before = prefix]
  <2>2. client' = [client EXCEPT ![c] = n]
    BY <1>2, <2>1, Zenon
  <2>3. p \in SUBSET Files /\ Required \subseteq p
    BY <2>1 DEF Files, Required
  <2>4. "asking" \in Steps /\ prefix \in [Files -> Version]
    BY DEF Steps, UpdateSound, Typed
  <2>5. /\ n \in Command /\ n.step = "asking" /\ n.goal = client[c].goal /\ n.asked = 1
        /\ n.payload = p /\ n.moved = client[c].moved /\ n.placed = client[c].placed
        /\ n.version = client[c].version /\ n.before = prefix
    BY <1>2, <2>3, <2>4, Zenon DEF Command
  <2>6. update_lock' = c
    BY <1>5 DEF LockUpdate
  <2> HIDE DEF n
  <2>7. n \in Entry /\ n # Nobody
    BY <2>5 DEF Entry, Anonymous
  <2>8. /\ client' \in [Clients -> Entry] /\ client'[c] = n
        /\ \A d \in Clients \ {c} : client'[d] = client[d]
    BY <2>2, <2>7, Replaced DEF UpdateSound
  <2>9. \A d \in Clients : ~Ours(d)
    BY <1>5 DEF UpdateSound, Exclusive, Anonymous
  <2>10. \A d \in Clients : Ours(d)' => d = c
    BY <2>8, <2>9 DEF Ours
  <2>11. n.moved = {} /\ n.placed = {}
    BY <1>1, <1>2, <2>5 DEF Orderly
  <2>12. Orderly(n)
    BY <1>2, <2>3, <2>5, <2>11 DEF Orderly, Updates
  <2>13. Typed'
    BY <1>3, <2>8 DEF UpdateSound, Typed
  <2>14. Exclusive'
    BY <2>6, <2>8, <2>9, <2>10, <2>12 DEF UpdateSound, Exclusive
  <2>15. \A d \in Clients : Step(d, "moving") => Ours(d)
    BY DEF UpdateSound, Exclusive, Orderly, Step, Ours
  <2>16. ASSUME ~cut PROVE Settled' /\ Fitting'
    <3>1. Whole(prefix)
      BY <2>16, <2>9, <2>15 DEF UpdateSound, Settled
    <3>2. Fits(n, prefix)
      BY <3>1, <2>5, <2>11 DEF Fits
    <3>3. QED BY <3>1, <3>2, <1>3, <2>8, <2>10 DEF Settled, Fitting
  <2>17. (\A d \in Clients : Ours(d) => Shifted(client[d], prefix))'
    BY <2>8, <2>10, <2>11 DEF Shifted
  <2>18. PreviousKept'
    BY <1>3 DEF UpdateSound, PreviousKept
  <2>19. QED BY <1>3, <2>13, <2>14, <2>16, <2>17, <2>18, Zenon DEF UpdateSound
<1>6. QED BY <1>4, <1>5

-----------------------------------------------------------------------------
\* The steps of the update that moves files: there is one.

LEMMA Loud ==
  ASSUME Anonymous, UpdateSound, NEW c \in Clients, Step(c, "moving"),
         NEW n \in Command, client' = [client EXCEPT ![c] = n],
         UNCHANGED <<update_lock, commands, cut>>,
         prefix' \in [Files -> Version], aside' \in [Files -> SUBSET Version],
         Orderly(n),
         Updates(n) => Shifted(n, prefix'),
         ~cut /\ Updates(n) => Fits(n, prefix'),
         ~cut /\ n.step # "moving" => Whole(prefix'),
         PreviousKept'
  PROVE  UpdateSound'
<1>1. Ours(c) /\ update_lock = c
  BY DEF UpdateSound, Exclusive, Orderly, Step, Ours
<1>2. n \in Entry /\ n # Nobody
  BY DEF Entry, Anonymous
<1>3. /\ client' \in [Clients -> Entry] /\ client'[c] = n
      /\ \A d \in Clients \ {c} : client'[d] = client[d]
  BY <1>2, Replaced DEF UpdateSound
<1>4. \A d \in Clients : Ours(d)' => d = c
  BY <1>1, <1>3 DEF Ours, UpdateSound, Exclusive
<1>5. Typed'
  BY <1>3 DEF UpdateSound, Typed
<1>6. Exclusive'
  BY <1>1, <1>3, <1>4 DEF UpdateSound, Exclusive
<1>7. (\A d \in Clients : Ours(d) => Shifted(client[d], prefix))'
  BY <1>3, <1>4 DEF Ours
<1>8. ASSUME ~cut PROVE Settled' /\ Fitting'
  <2>1. Fitting'
    BY <1>3, <1>4, <1>8 DEF Fitting, Ours
  <2>2. Settled'
    BY <1>2, <1>3, <1>8 DEF Settled, Step
  <2>3. QED BY <2>1, <2>2
<1>9. QED BY <1>5, <1>6, <1>7, <1>8, Zenon DEF UpdateSound

LEMMA MovingFits ==
  ASSUME Anonymous, UpdateSound, NEW c \in Clients, Step(c, "moving")
  PROVE  /\ client[c] \in Command /\ Orderly(client[c]) /\ Updates(client[c])
         /\ Shifted(client[c], prefix)
         /\ ~cut => Fits(client[c], prefix)
         /\ client \in [Clients -> Entry] /\ prefix \in [Files -> Version]
         /\ aside \in [Files -> SUBSET Version] /\ PreviousKept
<1>1. client[c] # Nobody /\ client[c].step = "moving"
  BY DEF Step
<1>2. client[c] \in Command /\ Orderly(client[c])
  BY <1>1, Selected
<1>3. Updates(client[c]) /\ Ours(c)
  BY <1>1, <1>2 DEF Orderly, Ours
<1>4. QED BY <1>2, <1>3 DEF UpdateSound, Fitting, Typed

LEMMA MoveAsideKeepsSound ==
  ASSUME Anonymous, UpdateSound, NEW c \in Clients, NEW f \in Files, MoveAside(c, f)
  PROVE  UpdateSound'
<1> DEFINE r == client[c]
           m == r.moved \cup {f}
           n == [r EXCEPT !.moved = m]
<1>1. Step(c, "moving") /\ r.step = "moving"
  BY DEF MoveAside, Step
<1>2. /\ r \in Command /\ Orderly(r) /\ Updates(r) /\ Shifted(r, prefix)
      /\ ~cut => Fits(r, prefix)
      /\ client \in [Clients -> Entry] /\ prefix \in [Files -> Version]
      /\ aside \in [Files -> SUBSET Version] /\ PreviousKept
  BY <1>1, MovingFits
<1>3. client' = [client EXCEPT ![c] = n]
  BY <1>2, Zenon DEF MoveAside
<1>4. m \in SUBSET Files
  BY <1>2 DEF Command
<1>5. /\ n \in Command /\ n.step = r.step /\ n.goal = r.goal /\ n.asked = r.asked
      /\ n.payload = r.payload /\ n.moved = m /\ n.placed = r.placed
      /\ n.version = r.version /\ n.before = r.before
  BY <1>2, <1>4, Zenon DEF Command
<1> HIDE DEF n
<1>6. f \in r.payload \ r.moved
  BY DEF MoveAside
<1>7. r.placed = {}
  BY <1>2, <1>6 DEF Orderly
<1>8. Orderly(n) /\ n.step = "moving"
  BY <1>1, <1>2, <1>5, <1>6, <1>7 DEF Orderly, Updates
<1>9. /\ prefix' = [prefix EXCEPT ![f] = Nobody]
      /\ aside' = [aside EXCEPT ![f] = @ \cup ({prefix[f]} \ {Nobody})]
      /\ UNCHANGED <<update_lock, commands, cut>>
  BY Zenon DEF MoveAside
<1>10. prefix' \in [Files -> Version] /\ aside' \in [Files -> SUBSET Version]
  BY <1>2, <1>9 DEF Version
<1>11. Shifted(n, prefix')
  BY <1>2, <1>4, <1>5, <1>9 DEF Shifted, Anonymous
<1>12. ~cut => Fits(n, prefix')
  BY <1>2, <1>5, <1>7, <1>9 DEF Fits
<1>13. PreviousKept'
  BY <1>2, <1>9 DEF PreviousKept, Anonymous
<1>14. QED BY <1>1, <1>3, <1>5, <1>8, <1>9, <1>10, <1>11, <1>12, <1>13, Loud

LEMMA PutInKeepsSound ==
  ASSUME Anonymous, UpdateSound, NEW c \in Clients, NEW f \in Files, PutIn(c, f)
  PROVE  UpdateSound'
<1> DEFINE r == client[c]
           m == r.placed \cup {f}
           n == [r EXCEPT !.placed = m]
<1>1. Step(c, "moving") /\ r.step = "moving"
  BY DEF PutIn, Step
<1>2. /\ r \in Command /\ Orderly(r) /\ Updates(r) /\ Shifted(r, prefix)
      /\ ~cut => Fits(r, prefix)
      /\ client \in [Clients -> Entry] /\ prefix \in [Files -> Version]
      /\ aside \in [Files -> SUBSET Version] /\ PreviousKept
  BY <1>1, MovingFits
<1>3. client' = [client EXCEPT ![c] = n]
  BY <1>2, Zenon DEF PutIn
<1>4. m \in SUBSET Files
  BY <1>2 DEF Command
<1>5. /\ n \in Command /\ n.step = r.step /\ n.goal = r.goal /\ n.asked = r.asked
      /\ n.payload = r.payload /\ n.moved = r.moved /\ n.placed = m
      /\ n.version = r.version /\ n.before = r.before
  BY <1>2, <1>4, Zenon DEF Command
<1> HIDE DEF n
<1>6. f \in r.payload /\ r.moved = r.payload
  BY DEF PutIn
<1>7. r.version \in Nat \ {0}
  BY <1>2 DEF Command, Orderly
<1>8. Orderly(n) /\ n.step = "moving"
  BY <1>1, <1>2, <1>5, <1>6 DEF Orderly, Updates
<1>9. /\ prefix' = [prefix EXCEPT ![f] = r.version]
      /\ UNCHANGED <<aside, update_lock, commands, cut>>
  BY Zenon DEF PutIn
<1>10. prefix' \in [Files -> Version] /\ aside' \in [Files -> SUBSET Version]
  BY <1>2, <1>7, <1>9 DEF Version
<1>11. Shifted(n, prefix')
  BY <1>2, <1>5, <1>7, <1>9 DEF Shifted, Command
<1>12. ~cut => Fits(n, prefix')
  BY <1>2, <1>5, <1>9 DEF Fits
<1>13. PreviousKept'
  BY <1>2, <1>6, <1>9 DEF PreviousKept, Shifted
<1>14. QED BY <1>1, <1>3, <1>5, <1>8, <1>9, <1>10, <1>11, <1>12, <1>13, Loud

\* An update is over when all is in place, or all is back.
LEMMA MovedKeepsSound ==
  ASSUME Anonymous, UpdateSound, NEW c \in Clients, Installed(c) \/ RollBack(c)
  PROVE  UpdateSound'
<1> DEFINE r == client[c]
<1>1. Step(c, "moving")
  BY DEF Installed, RollBack
<1>2. /\ r \in Command /\ Orderly(r) /\ Updates(r) /\ Shifted(r, prefix)
      /\ ~cut => Fits(r, prefix)
      /\ client \in [Clients -> Entry] /\ prefix \in [Files -> Version]
      /\ aside \in [Files -> SUBSET Version] /\ PreviousKept
  BY <1>1, MovingFits
<1>3. PICK s \in Steps : /\ s \in {"asking", "over"}
                         /\ s = IF r.running THEN "asking" ELSE "over"
  BY DEF Steps
<1> DEFINE n == [r EXCEPT !.goal = "start", !.step = s]
<1>4. client' = [client EXCEPT ![c] = n]
  BY <1>2, <1>3, Zenon DEF Installed, RollBack
<1>5. "start" \in Goals
  BY DEF Goals
<1>6. n \in Command /\ n.step = s /\ n.goal = "start"
      /\ n.asked = r.asked /\ SamePlan(n, r)
  BY <1>2, <1>5, Zenon DEF Command, SamePlan
<1>7. UNCHANGED <<update_lock, commands, cut>>
  BY Zenon DEF Installed, RollBack
<1> HIDE DEF n
<1>8. Orderly(n) /\ ~Updates(n) /\ n.step # "moving"
  BY <1>2, <1>3, <1>6 DEF Orderly, Updates, SamePlan
<1>9. r.version \in Nat /\ r.moved \subseteq Files /\ r.before \in [Files -> Version]
  BY <1>2 DEF Command
<1>10. /\ prefix' \in [Files -> Version] /\ aside' \in [Files -> SUBSET Version]
       /\ ~cut => Whole(prefix')
       /\ PreviousKept'
  <2>1. CASE Installed(c)
    <3>1. r.placed = r.payload /\ UNCHANGED <<prefix, aside>>
      BY <2>1 DEF Installed
    <3>2. \A f \in Required : f \in r.placed
      BY <3>1, <1>2 DEF Orderly
    <3>3. ASSUME ~cut PROVE Whole(prefix)
      <4>1. Fits(r, prefix)
        BY <3>3, <1>2
      <4>2. r.version # Nobody /\ \A f \in Files : r.before[f] # Nobody
        BY <4>1, <1>9 DEF Anonymous, Fits, Whole
      <4>3. r.placed = r.moved
        BY <3>1, <1>2 DEF Orderly
      <4>4. \A f \in Files : prefix[f] = IF f \in r.placed THEN r.version ELSE r.before[f]
        BY <4>1, <4>3 DEF Fits
      <4>5. "binary" \in r.placed /\ "data" \in r.placed
        BY <3>2 DEF Required
      <4>6. QED BY <4>2, <4>4, <4>5 DEF Whole, Files
    <3>4. QED BY <3>1, <3>3, <1>2 DEF PreviousKept
  <2>2. CASE RollBack(c)
    <3>1. /\ prefix' = [f \in Files |-> IF f \in r.moved THEN r.before[f] ELSE prefix[f]]
          /\ aside' = [f \in Files |->
                         IF f \in r.moved THEN aside[f] \ {r.before[f]} ELSE aside[f]]
      BY <2>2 DEF RollBack
    <3>2. prefix' \in [Files -> Version] /\ aside' \in [Files -> SUBSET Version]
      BY <3>1, <1>2, <1>9
    <3>3. ASSUME ~cut PROVE Whole(prefix')
      <4>1. r.placed \subseteq r.moved
        BY <1>2 DEF Orderly
      <4>2. Whole(r.before) /\ \A f \in Files : prefix'[f] = r.before[f]
        BY <3>1, <3>3, <4>1, <1>2 DEF Fits
      <4>3. QED BY <4>2 DEF Whole, Files
    <3>4. PreviousKept'
      BY <3>1, <1>2 DEF PreviousKept, Shifted
    <3>5. QED BY <3>2, <3>3, <3>4
  <2>3. QED BY <2>1, <2>2
<1>11. QED BY <1>1, <1>4, <1>6, <1>7, <1>8, <1>10, Loud

\* A command that is killed while it moves files: from here on only
\* PreviousKept is promised.
LEMMA KillKeepsSound ==
  ASSUME Anonymous, UpdateSound, NEW c \in Clients, Kill(c)
  PROVE  UpdateSound'
<1>1. /\ Over(c) /\ client[c] # Nobody
      /\ UNCHANGED <<prefix, aside, commands>>
      /\ cut' = (cut \/ Step(c, "moving"))
  BY Zenon DEF Kill
<1>2. CASE client[c].step # "moving"
  <2>1. UNCHANGED cut
    BY <1>1, <1>2 DEF Step, UpdateSound, Typed
  <2>2. QED BY <1>1, <1>2, <2>1, QuietEnd
<1>3. CASE client[c].step = "moving"
  <2>1. cut' = TRUE
    BY <1>1, <1>3 DEF Step
  <2>2. Nobody \in Entry /\ client' = [client EXCEPT ![c] = Nobody]
    BY <1>1 DEF Entry, Over
  <2>3. /\ client' \in [Clients -> Entry] /\ client'[c] = Nobody
        /\ \A d \in Clients \ {c} : client'[d] = client[d]
    BY <2>2, Replaced, Zenon DEF UpdateSound
  <2>4. update_lock' = update_lock \/ (update_lock = c /\ update_lock' = Nobody)
    BY <1>1 DEF Over
  <2>5. \A d \in Clients : Ours(d)' => d # c /\ Ours(d) /\ client'[d] = client[d]
    BY <2>3 DEF Ours
  <2>6. Typed'
    BY <1>1, <2>1, <2>3 DEF UpdateSound, Typed
  <2>7. Exclusive'
    BY <2>3, <2>4, <2>5 DEF UpdateSound, Exclusive
  <2>8. (\A d \in Clients : Ours(d) => Shifted(client[d], prefix))'
    BY <1>1, <2>5 DEF UpdateSound, Shifted
  <2>9. PreviousKept'
    BY <1>1 DEF UpdateSound, PreviousKept
  <2>10. QED BY <2>1, <2>6, <2>7, <2>8, <2>9, Zenon DEF UpdateSound
<1>4. QED BY <1>2, <1>3

LEMMA NextKeepsSound == Anonymous /\ UpdateSound /\ [ServiceNext]_serviceVars => UpdateSound'
<1> SUFFICES ASSUME Anonymous, UpdateSound, [ServiceNext]_serviceVars PROVE UpdateSound'
  OBVIOUS
<1>1. CASE UNCHANGED <<client, update_lock, prefix, aside, commands, cut>>
  BY <1>1 DEF UpdateSound, Typed, Exclusive, Settled, Fitting, Ours, PreviousKept, Step
<1>2. CASE UNCHANGED serviceVars
  BY <1>1, <1>2 DEF serviceVars
<1>3. ASSUME NEW s \in Servers,
             Own(s) \/ Unusable(s) \/ Listen(s) \/ Interrupt(s) \/ Forget(s) \/ Leave(s) \/ Die(s)
      PROVE  UpdateSound'
  <2>1. UNCHANGED <<client, update_lock, prefix, aside, commands, cut>>
    BY <1>3, Zenon DEF Own, Unusable, Listen, Interrupt, Forget, Leave, Die
  <2>2. QED BY <2>1, <1>1
<1>4. ASSUME NEW c \in Clients,
             \/ \E g \in Goals : Begin(c, g)
             \/ Ask(c) \/ Learn(c) \/ LockUpdate(c) \/ Stop(c) \/ Stopped(c) \/ GiveUp(c)
             \/ Write(c) \/ Installed(c) \/ RollBack(c) \/ Started(c) \/ End(c) \/ Kill(c)
             \/ \E f \in Files : MoveAside(c, f) \/ PutIn(c, f)
             \/ \E s \in Servers : Launch(c, s)
      PROVE  UpdateSound'
  BY <1>4, BeginKeepsSound, AskKeepsSound, HearKeepsSound, LockUpdateKeepsSound,
     StepKeepsSound, OverKeepsSound, WriteKeepsSound, MovedKeepsSound, KillKeepsSound,
     MoveAsideKeepsSound, PutInKeepsSound, LaunchKeepsSound
<1>5. QED BY <1>2, <1>3, <1>4, Zenon DEF ServiceNext

\* install_update_payload and its roll back: unless an update is killed while it
\* moves files, whenever none moves files the installed binary and data are of
\* one version and nothing is missing; and even then the first installation is
\* in place or kept aside.
THEOREM UpdateLeavesWhole ==
  ASSUME Anonymous PROVE ServiceSpec => []InstalledWhole
<1>1. UpdateSound => InstalledWhole
  BY DEF UpdateSound, Settled, Whole, WholeUnlessCut, InstalledWhole
<1>2. QED BY UpdateInit, NextKeepsSound, <1>1, PTL DEF ServiceSpec

-----------------------------------------------------------------------------
(* Credentials                                                             *)

\* Neither a key nor a rotation stands for there being none.
KeysDistinct == Nothing \notin Keys /\ \A kind, k : Nothing # [kind |-> kind, key |-> k]

Renewing(kind) == rotating # Nothing /\ rotating.kind = kind
\* A kind's file holds k, or what a rotation is about to put in its place.
Filed(kind, k) == key_file[kind] = k \/ Renewing(kind)

KeysTyped ==
  /\ key_file \in [Kinds -> Keys \cup {Nothing}]
  /\ memory \in [Kinds -> Keys \cup {Nothing}]
  /\ told \in [Kinds -> Keys \cup {Nothing}]
  /\ inline_key \in Keys \cup {Nothing}
  /\ boot \in {"down", "admin", "config", "up"}
  /\ retired \subseteq Keys

\* What the server knows at each stage of its start: files, server.json and
\* memory agree with what the operator was told.
Agreed ==
  /\ told["inference"] \in Keys
  /\ IF inline_key = Nothing THEN Filed("inference", told["inference"])
     ELSE inline_key = told["inference"] /\ boot # "up"
  /\ told["admin"] # Nothing => Filed("admin", told["admin"])
  /\ boot # "down" => memory["inference"] = told["inference"]
                        /\ Filed("inference", told["inference"])
  /\ boot \in {"config", "up"} => memory["admin"] \in Keys /\ Filed("admin", memory["admin"])
  /\ boot = "up" => inline_key = Nothing /\ told["admin"] = memory["admin"]

\* The two keys differ, and no replaced key is in a file or with the operator.
Apart ==
  /\ told["inference"] \notin {told["admin"], memory["admin"], key_file["admin"]}
  /\ \A k \in Kinds : told[k] \notin retired /\ key_file[k] \notin retired

\* A rotation under way has a fresh key in its file.
Fresh ==
  rotating # Nothing =>
    /\ boot = "up" /\ rotating.kind \in Kinds
    /\ rotating.key \in Keys /\ key_file[rotating.kind] = rotating.key
    /\ rotating.key \notin {told["inference"], told["admin"]}

\* The inductive invariant.
Guarded == KeysTyped /\ Agreed /\ Apart /\ Fresh

-----------------------------------------------------------------------------
LEMMA GuardedInit == KeysDistinct /\ AccessInit => Guarded
BY DEF KeysDistinct, AccessInit, Guarded, KeysTyped, Agreed, Apart, Fresh, Filed, Renewing, Kinds

LEMMA StartKeeps ==
  ASSUME KeysDistinct, Guarded, ReadKey \/ ReadAdminKey \/ Persist
  PROVE  Guarded'
<1> USE DEF KeysDistinct, Guarded, KeysTyped, Agreed, Apart, Fresh, Filed, Renewing, Kinds
<1>1. CASE ReadKey
  BY <1>1 DEF ReadKey
<1>2. CASE ReadAdminKey
  BY <1>2 DEF ReadAdminKey, generate_api_key, Used
<1>3. CASE Persist
  BY <1>3 DEF Persist
<1>4. QED BY <1>1, <1>2, <1>3

LEMMA StopKeeps ==
  ASSUME KeysDistinct, Guarded, GoDown
  PROVE  Guarded'
<1> USE DEF KeysDistinct, Guarded, KeysTyped, Agreed, Apart, Fresh, Filed, Renewing, Kinds
<1>1. CASE rotating = Nothing
  BY <1>1 DEF GoDown
<1>2. CASE rotating # Nothing
  BY <1>2 DEF GoDown
<1>3. QED BY <1>1, <1>2

LEMMA RotationKeeps ==
  ASSUME KeysDistinct, Guarded, Rotated \/ \E k \in Kinds : WriteKey(k)
  PROVE  Guarded'
<1> USE DEF KeysDistinct, Guarded, KeysTyped, Agreed, Apart, Fresh, Filed, Renewing, Kinds
<1>1. CASE Rotated
  BY <1>1 DEF Rotated
<1>2. ASSUME NEW kind \in Kinds, WriteKey(kind) PROVE Guarded'
  <2>1. PICK k \in Keys : /\ key_file' = [key_file EXCEPT ![kind] = k]
                          /\ rotating' = [kind |-> kind, key |-> k]
                          /\ k \notin retired
                          /\ k \notin {told["inference"], told["admin"], memory["admin"]}
    BY <1>2 DEF WriteKey, generate_api_key, Used
  <2>2. /\ rotating = Nothing /\ boot = "up"
        /\ UNCHANGED <<inline_key, memory, boot, told, retired>>
    BY <1>2 DEF WriteKey, allows
  <2>3. rotating'.kind = kind /\ rotating'.key = k /\ rotating' # Nothing
    <3>1. rotating' # Nothing
      BY <2>1 DEF KeysDistinct
    <3>2. QED BY <2>1, <3>1
  <2>4. KeysTyped' /\ Apart' /\ Fresh'
    BY <2>1, <2>2, <2>3
  <2>5. CASE kind = "inference"
    BY <2>1, <2>2, <2>3, <2>4, <2>5
  <2>6. CASE kind = "admin"
    BY <2>1, <2>2, <2>3, <2>4, <2>6
  <2>7. QED BY <2>5, <2>6
<1>3. QED BY <1>1, <1>2

\* Sessions and requests leave the keys alone.
LEMMA OthersKeep ==
  ASSUME Guarded, UNCHANGED <<key_file, inline_key, memory, boot, rotating, told, retired>>
  PROVE  Guarded'
BY DEF Guarded, KeysTyped, Agreed, Apart, Fresh, Filed, Renewing

LEMMA GuardedNext == KeysDistinct /\ Guarded /\ [AccessNext]_accessVars => Guarded'
<1> SUFFICES ASSUME KeysDistinct, Guarded, [AccessNext]_accessVars PROVE Guarded'
  OBVIOUS
<1>1. CASE UNCHANGED accessVars
  BY <1>1, OthersKeep DEF accessVars
<1>2. CASE Passed \/ (\E t \in Tokens : Open(t) \/ Expire(t) \/ Pass(t)) \/ \E k \in Keys : Logout(k)
  BY <1>2, OthersKeep DEF Passed, Open, Expire, Pass, Logout
<1>3. QED BY <1>1, <1>2, StartKeeps, StopKeeps, RotationKeeps DEF AccessNext

\* Only an application request that begins changes passing from none, and its
\* session's key is then the admin key.
LEMMA PassesUnderKey ==
  ASSUME KeysDistinct, Guarded, [AccessNext]_accessVars, passing = Nothing, passing' # Nothing
  PROVE  passing' \notin retired
<1>1. PICK t \in Tokens : Pass(t)
  BY DEF AccessNext, accessVars, ReadKey, ReadAdminKey, Persist, GoDown, Rotated, Passed, WriteKey,
         Open, Expire, Logout
<1>2. passing' = memory["admin"] /\ boot = "up"
  BY <1>1 DEF Pass, Admitted, allows
<1>3. QED BY <1>2 DEF Guarded, Agreed, Apart, Kinds

\* The check of a key, its rotation and the server's start: whatever write is
\* cut off, the operator's keys open the server, each what it is for, no
\* replaced key does, and no session lets requests through with one.
THEOREM ReplacedKeysAreRefused ==
  ASSUME KeysDistinct PROVE AccessSpec => AccessRevoked
<1>1. Guarded => KeysHold
  BY DEF KeysDistinct, Guarded, KeysTyped, Agreed, Apart, KeysHold, allows, Kinds
<1>2. Guarded /\ [AccessNext]_accessVars =>
        [passing' # Nothing /\ passing = Nothing => passing' \notin retired]_accessVars
  BY PassesUnderKey
<1>3. AccessSpec => []Guarded
  BY GuardedInit, GuardedNext, PTL DEF AccessSpec
<1>4. QED BY <1>1, <1>2, <1>3, PTL DEF AccessSpec, AccessRevoked, SessionsRevoked

-----------------------------------------------------------------------------
(* The types                                                                *)

Installable == 0..MaxCommands \cup {Nobody}
Numbered(n) == n.version \in 0..MaxCommands /\ \A f \in Files : n.before[f] \in Installable

\* What ServiceTypeOK says, and what commands will install or put back.
ServiceTyped ==
  /\ server_lock \in Servers \cup Clients \cup {Nobody}
  /\ control \in Servers \cup {Nobody}
  /\ update_lock \in Clients \cup {Nobody}
  /\ commands \in 0..MaxCommands
  /\ \A f \in Files : prefix[f] \in Installable
  /\ \A c \in Clients : client[c] # Nobody => Numbered(client[c])

\* A command becomes n, or ends.
Becomes(c, n) == client' = [client EXCEPT ![c] = n] /\ (n # Nobody => Numbered(n))

LEMMA OthersNumbered ==
  ASSUME UpdateSound, ServiceTyped, NEW c \in Clients, NEW n, Becomes(c, n)
  PROVE  \A d \in Clients : client'[d] # Nobody => Numbered(client'[d])
<1>1. client \in [Clients -> Entry]
  BY DEF UpdateSound, Typed
<1>2. \A d \in Clients : client'[d] = n \/ client'[d] = client[d]
  BY <1>1 DEF Becomes
<1>3. QED BY <1>2 DEF ServiceTyped, Becomes

\* A record that goes on has the version and the files it had.
LEMMA SamePlanNumbered ==
  ASSUME ServiceTyped, NEW c \in Clients, client[c] # Nobody, NEW n,
         n.version = client[c].version, n.before = client[c].before
  PROVE  Numbered(n)
BY DEF ServiceTyped, Numbered

\* The commands that touch no file.
LEMMA CommandTyped ==
  ASSUME Anonymous, UpdateSound, ServiceTyped, NEW c \in Clients,
         \/ Ask(c) \/ Learn(c) \/ Stop(c) \/ Stopped(c) \/ Write(c) \/ Started(c)
  PROVE  \E n : Becomes(c, n)
<1>1. client[c] # Nobody
  BY DEF Ask, Learn, Stop, Stopped, Write, Started, Step
<1>2. client[c] \in Command /\ client \in [Clients -> Entry]
  BY <1>1, Selected DEF UpdateSound, Typed
<1> DEFINE r == client[c]
<1>3. \E g, b, s : client' = [client EXCEPT ![c] = [r EXCEPT !.goal = g, !.running = b, !.step = s]]
  <2>1. CASE Ask(c)
    <3> DEFINE b == server_lock # Nobody
    <3>1. client' = [client EXCEPT ![c] = [r EXCEPT !.running = b, !.step = "asked"]]
      BY <1>2, <2>1, Zenon DEF Ask
    <3>2. [r EXCEPT !.running = b, !.step = "asked"]
            = [r EXCEPT !.goal = r.goal, !.running = b, !.step = "asked"]
      BY <1>2, Zenon DEF Command
    <3> HIDE DEF b
    <3>3. QED BY <3>1, <3>2, Zenon
  <2>2. CASE Write(c)
    <3> DEFINE s == IF r.running THEN "asking" ELSE "over"
    <3>1. client' = [client EXCEPT ![c] = [r EXCEPT !.goal = "start", !.step = s]]
      BY <1>2, <2>2, Zenon DEF Write
    <3>2. [r EXCEPT !.goal = "start", !.step = s]
            = [r EXCEPT !.goal = "start", !.running = r.running, !.step = s]
      BY <1>2, Zenon DEF Command
    <3> HIDE DEF s
    <3>3. QED BY <3>1, <3>2, Zenon
  <2>3. CASE Learn(c) \/ Stop(c) \/ Stopped(c) \/ Started(c)
    <3>1. PICK s : client' = [client EXCEPT ![c] = [r EXCEPT !.step = s]]
      BY <1>2, <2>3, Zenon DEF Learn, Stop, Stopped, Started, To
    <3>2. [r EXCEPT !.step = s] = [r EXCEPT !.goal = r.goal, !.running = r.running, !.step = s]
      BY <1>2, Zenon DEF Command
    <3>3. QED BY <3>1, <3>2, Zenon
  <2>4. QED BY <2>1, <2>2, <2>3
<1>4. PICK g, b, s : client' = [client EXCEPT ![c] = [r EXCEPT !.goal = g, !.running = b, !.step = s]]
  BY <1>3
<1> DEFINE n == [r EXCEPT !.goal = g, !.running = b, !.step = s]
<1>5. n.version = r.version /\ n.before = r.before
  BY <1>2, Zenon DEF Command
<1> HIDE DEF n
<1>6. Numbered(n)
  BY <1>1, <1>5, SamePlanNumbered
<1>7. client' = [client EXCEPT ![c] = n]
  BY <1>4 DEF n
<1>8. QED BY <1>6, <1>7 DEF Becomes

LEMMA LaunchedNumbered ==
  ASSUME Anonymous, UpdateSound, ServiceTyped, NEW c \in Clients, NEW t \in Servers, Launch(c, t)
  PROVE  \E n : Becomes(c, n)
<1> DEFINE n == [client[c] EXCEPT !.launched = t, !.step = "starting"]
<1>1. client[c] # Nobody
  BY DEF Launch, Step
<1>2. client[c] \in Command /\ client \in [Clients -> Entry]
  BY <1>1, Selected DEF UpdateSound, Typed
<1>3. client' = [client EXCEPT ![c] = n]
  BY <1>2, Zenon DEF Launch
<1>4. n.version = client[c].version /\ n.before = client[c].before
  BY <1>2, Zenon DEF Command
<1> HIDE DEF n
<1>5. QED BY <1>1, <1>3, <1>4, SamePlanNumbered DEF Becomes

\* A command that moves files: what it did so far is all that changes.
LEMMA MovingTyped ==
  ASSUME Anonymous, UpdateSound, ServiceTyped, NEW c \in Clients,
         \/ \E f \in Files : MoveAside(c, f) \/ PutIn(c, f)
         \/ Installed(c) \/ RollBack(c)
  PROVE  \E n : Becomes(c, n)
<1> DEFINE r == client[c]
<1>1. r # Nobody
  BY DEF MoveAside, PutIn, Installed, RollBack, Step
<1>2. r \in Command /\ client \in [Clients -> Entry]
  BY <1>1, Selected DEF UpdateSound, Typed
<1>3. \E n : /\ client' = [client EXCEPT ![c] = n]
             /\ n.version = r.version /\ n.before = r.before
  <2>1. ASSUME NEW f \in Files, MoveAside(c, f)
        PROVE  \E n : /\ client' = [client EXCEPT ![c] = n]
                      /\ n.version = r.version /\ n.before = r.before
    <3> DEFINE n == [r EXCEPT !.moved = @ \cup {f}]
    <3>1. client' = [client EXCEPT ![c] = n]
      BY <1>2, <2>1, Zenon DEF MoveAside
    <3>2. n.version = r.version /\ n.before = r.before
      BY <1>2, Zenon DEF Command
    <3> HIDE DEF n
    <3>3. QED BY <3>1, <3>2
  <2>2. ASSUME NEW f \in Files, PutIn(c, f)
        PROVE  \E n : /\ client' = [client EXCEPT ![c] = n]
                      /\ n.version = r.version /\ n.before = r.before
    <3> DEFINE n == [r EXCEPT !.placed = @ \cup {f}]
    <3>1. client' = [client EXCEPT ![c] = n]
      BY <1>2, <2>2, Zenon DEF PutIn
    <3>2. n.version = r.version /\ n.before = r.before
      BY <1>2, Zenon DEF Command
    <3> HIDE DEF n
    <3>3. QED BY <3>1, <3>2
  <2>3. CASE Installed(c) \/ RollBack(c)
    <3> DEFINE s == IF r.running THEN "asking" ELSE "over"
    <3> DEFINE n == [r EXCEPT !.goal = "start", !.step = s]
    <3>1. client' = [client EXCEPT ![c] = n]
      BY <1>2, <2>3, Zenon DEF Installed, RollBack
    <3>2. n.version = r.version /\ n.before = r.before
      BY <1>2, Zenon DEF Command
    <3> HIDE DEF n
    <3>3. QED BY <3>1, <3>2
  <2>4. QED BY <2>1, <2>2, <2>3
<1>4. QED BY <1>1, <1>3, SamePlanNumbered DEF Becomes

\* A command takes a number, and an update the files it finds.
LEMMA PlanningTyped ==
  ASSUME Anonymous, UpdateSound, ServiceTyped, MaxCommands \in Nat, NEW c \in Clients,
         (\E g \in Goals : Begin(c, g)) \/ LockUpdate(c)
  PROVE  \E n : Becomes(c, n)
<1>1. CASE \E g \in Goals : Begin(c, g)
  <2>1. PICK g \in Goals : Begin(c, g)
    BY <1>1
  <2> DEFINE n == [goal |-> g, step |-> "asking", running |-> FALSE, launched |-> Nobody,
                   asked |-> 0, payload |-> {}, moved |-> {}, placed |-> {},
                   version |-> commands', before |-> prefix]
  <2>2. client' = [client EXCEPT ![c] = n]
    BY <2>1, Zenon DEF Begin
  <2>3. n.version = commands' /\ n.before = prefix
    OBVIOUS
  <2> HIDE DEF n
  <2>4. commands' \in 0..MaxCommands
    BY <2>1 DEF Begin, ServiceTyped
  <2>5. QED BY <2>2, <2>3, <2>4 DEF Becomes, Numbered, ServiceTyped
<1>2. CASE LockUpdate(c)
  <2> DEFINE r == client[c]
  <2>1. r # Nobody
    BY <1>2 DEF LockUpdate, Step
  <2>2. r \in Command /\ client \in [Clients -> Entry]
    BY <2>1, Selected DEF UpdateSound, Typed
  <2>3. CASE update_lock # Nobody
    BY <1>2, <2>3 DEF LockUpdate, Over, Becomes
  <2>4. CASE update_lock = Nobody
    <3>1. PICK p : client' = [client EXCEPT ![c].payload = p, ![c].asked = 1,
                                            ![c].step = "asking", ![c].before = prefix]
      BY <1>2, <2>4, Zenon DEF LockUpdate
    <3> DEFINE n == [r EXCEPT !.payload = p, !.asked = 1, !.step = "asking", !.before = prefix]
    <3>2. client' = [client EXCEPT ![c] = n]
      BY <2>2, <3>1, Zenon
    <3>3. n.version = r.version /\ n.before = prefix
      BY <2>2, Zenon DEF Command
    <3> HIDE DEF n
    <3>4. Numbered(n)
      BY <2>1, <3>3 DEF Numbered, ServiceTyped
    <3>5. QED BY <3>2, <3>4 DEF Becomes
  <2>5. QED BY <2>3, <2>4
<1>3. QED BY <1>1, <1>2

\* The files that an update moves are named by its number, or by those it found.
LEMMA FilesTyped ==
  ASSUME Anonymous, UpdateSound, ServiceTyped, NEW c \in Clients,
         \/ \E f \in Files : MoveAside(c, f) \/ PutIn(c, f)
         \/ Installed(c) \/ RollBack(c)
  PROVE  \A f \in Files : prefix'[f] \in Installable
<1>1. prefix \in [Files -> Version] /\ Numbered(client[c])
  BY DEF UpdateSound, Typed, ServiceTyped, MoveAside, PutIn, Installed, RollBack, Step
<1>2. \A f \in Files : prefix[f] \in Installable
  BY DEF ServiceTyped
<1>3. ASSUME NEW f \in Files, MoveAside(c, f) PROVE \A g \in Files : prefix'[g] \in Installable
  BY <1>1, <1>2, <1>3 DEF MoveAside, Installable
<1>4. ASSUME NEW f \in Files, PutIn(c, f) PROVE \A g \in Files : prefix'[g] \in Installable
  <2>1. prefix' = [prefix EXCEPT ![f] = client[c].version]
    BY <1>4 DEF PutIn
  <2>2. QED BY <1>1, <1>2, <2>1 DEF Numbered, Installable
<1>5. CASE Installed(c)
  BY <1>2, <1>5 DEF Installed
<1>6. CASE RollBack(c)
  BY <1>1, <1>2, <1>6 DEF RollBack, Numbered
<1>7. QED BY <1>3, <1>4, <1>5, <1>6

LEMMA ServerTyped ==
  ASSUME Known, ServiceTyped, NEW s \in Servers,
         Own(s) \/ Unusable(s) \/ Listen(s) \/ Interrupt(s) \/ Forget(s) \/ Leave(s) \/ Die(s)
  PROVE  ServiceTyped'
BY DEF Own, Unusable, Listen, Interrupt, Forget, Leave, Die, ServiceTyped

\* What a command does to the locks.
LEMMA LocksBounded ==
  ASSUME ServiceTyped, MaxCommands \in Nat, NEW c \in Clients,
         \/ \E g \in Goals : Begin(c, g)
         \/ Ask(c) \/ Learn(c) \/ LockUpdate(c) \/ Stop(c) \/ Stopped(c) \/ GiveUp(c)
         \/ Write(c) \/ Installed(c) \/ RollBack(c) \/ Started(c) \/ End(c) \/ Kill(c)
         \/ \E f \in Files : MoveAside(c, f) \/ PutIn(c, f)
         \/ \E s \in Servers : Launch(c, s)
  PROVE  /\ server_lock' \in Servers \cup Clients \cup {Nobody}
         /\ update_lock' \in Clients \cup {Nobody}
         /\ control' = control
         /\ commands' \in 0..MaxCommands
<1>1. CASE \E g \in Goals : Begin(c, g)
  BY <1>1 DEF Begin, ServiceTyped
<1>2. CASE Ask(c) \/ Learn(c) \/ LockUpdate(c) \/ Stop(c) \/ Stopped(c)
  BY <1>2 DEF Ask, Learn, LockUpdate, Stop, Stopped, Over, ServiceTyped
<1>3. CASE GiveUp(c) \/ Write(c) \/ Installed(c) \/ RollBack(c) \/ Started(c) \/ End(c)
  BY <1>3 DEF GiveUp, Write, Installed, RollBack, Started, End, Over, ServiceTyped
<1>4. CASE Kill(c)
  BY <1>4 DEF Kill, Over, ServiceTyped
<1>5. CASE \E f \in Files : MoveAside(c, f) \/ PutIn(c, f)
  BY <1>5 DEF MoveAside, PutIn, ServiceTyped
<1>6. CASE \E s \in Servers : Launch(c, s)
  BY <1>6 DEF Launch, ServiceTyped
<1>7. QED BY <1>1, <1>2, <1>3, <1>4, <1>5, <1>6

LEMMA ServiceTypedNext ==
  ASSUME Anonymous, MaxCommands \in Nat, Known, UpdateSound, ServiceTyped, [ServiceNext]_serviceVars
  PROVE  ServiceTyped'
<1>1. CASE UNCHANGED serviceVars
  BY <1>1 DEF serviceVars, ServiceTyped
<1>2. ASSUME NEW s \in Servers,
             Own(s) \/ Unusable(s) \/ Listen(s) \/ Interrupt(s) \/ Forget(s) \/ Leave(s) \/ Die(s)
      PROVE  ServiceTyped'
  BY <1>2, ServerTyped
<1>3. ASSUME NEW c \in Clients,
             \/ \E g \in Goals : Begin(c, g)
             \/ Ask(c) \/ Learn(c) \/ LockUpdate(c) \/ Stop(c) \/ Stopped(c) \/ GiveUp(c)
             \/ Write(c) \/ Installed(c) \/ RollBack(c) \/ Started(c) \/ End(c) \/ Kill(c)
             \/ \E f \in Files : MoveAside(c, f) \/ PutIn(c, f)
             \/ \E s \in Servers : Launch(c, s)
      PROVE  ServiceTyped'
  <2>1. CASE Ask(c) \/ Learn(c) \/ Stop(c) \/ Stopped(c) \/ Write(c) \/ Started(c)
    <3>1. UNCHANGED prefix
      BY <2>1 DEF Ask, Learn, Stop, Stopped, Write, Started
    <3>2. QED BY <2>1, <3>1, <1>3, CommandTyped, OthersNumbered, LocksBounded DEF ServiceTyped
  <2>2. CASE \E s \in Servers : Launch(c, s)
    <3>1. UNCHANGED prefix
      BY <2>2 DEF Launch
    <3>2. QED BY <2>2, <3>1, <1>3, LaunchedNumbered, OthersNumbered, LocksBounded DEF ServiceTyped
  <2>3. CASE (\E g \in Goals : Begin(c, g)) \/ LockUpdate(c)
    <3>1. UNCHANGED prefix
      BY <2>3 DEF Begin, LockUpdate
    <3>2. QED BY <2>3, <3>1, <1>3, PlanningTyped, OthersNumbered, LocksBounded DEF ServiceTyped
  <2>4. CASE \/ \E f \in Files : MoveAside(c, f) \/ PutIn(c, f)
             \/ Installed(c) \/ RollBack(c)
    BY <2>4, <1>3, MovingTyped, FilesTyped, OthersNumbered, LocksBounded DEF ServiceTyped
  <2>5. CASE GiveUp(c) \/ End(c) \/ Kill(c)
    <3>1. UNCHANGED prefix /\ Becomes(c, Nobody)
      BY <2>5 DEF GiveUp, End, Kill, Over, Becomes
    <3>2. QED BY <3>1, <1>3, OthersNumbered, LocksBounded DEF ServiceTyped
  <2>6. QED BY <1>3, <2>1, <2>2, <2>3, <2>4, <2>5, Zenon
<1>4. QED BY <1>1, <1>2, <1>3, Zenon DEF ServiceNext

\* The locks are somebody's or nobody's, and every file installed is one of the
\* versions that were asked for (src/src/service.cpp, src/src/updater.cpp).
LEMMA ServiceIsTyped ==
  ASSUME Distinct, Anonymous, MaxCommands \in Nat PROVE ServiceSpec => []ServiceTypeOK
<1>1. ServiceInit => ServiceTyped
  BY DEF ServiceInit, ServiceTyped, Installable
<1>2. Known /\ UpdateSound /\ ServiceTyped /\ [ServiceNext]_serviceVars => ServiceTyped'
  BY ServiceTypedNext
<1>3. Known /\ UpdateSound /\ ServiceTyped => ServiceTypeOK
  BY DEF Known, States, UpdateSound, Typed, ServiceTyped, Installable, ServiceTypeOK
<1>4. QED BY KnownInit, NextKeepsKnown, UpdateInit, NextKeepsSound, <1>1, <1>2, <1>3, PTL
             DEF ServiceSpec

\* The keys, and who has been told them.
LEMMA KeysAreTyped == ASSUME KeysDistinct PROVE AccessSpec => []AccessTypeOK
<1>1. Guarded => AccessTypeOK
  BY DEF Guarded, KeysTyped, AccessTypeOK
<1>2. QED BY GuardedInit, GuardedNext, <1>1, PTL DEF AccessSpec

=============================================================================

--------------------------- MODULE ComponentsProofs ---------------------------
(***************************************************************************)
(* What the components' own proofs establish, of the system that runs them *)
(* side by side: every step of Components!Spec is a step of each of its    *)
(* components or leaves that component's variables as they are, so what    *)
(* holds of a component holds of the whole.                                *)
(***************************************************************************)
EXTENDS SessionProofs, ServiceProofs, BackendProofs, SetupProofs

-----------------------------------------------------------------------------
(* The system runs each of its components                                   *)

LEMMA SessionsAlone == Spec => SessionSpec
<1>1. Init => SessionInit
  BY DEF Init
<1>2. [Next]_vars => [SessionNext]_sessionVars
  BY DEF Next, vars, Alone
<1> QED BY <1>1, <1>2, PTL DEF Spec, SessionSpec

LEMMA ServiceAlone == Spec => ServiceSpec
<1>1. Init => ServiceInit
  BY DEF Init
<1>2. [Next]_vars => [ServiceNext]_serviceVars
  BY DEF Next, vars, Alone
<1> QED BY <1>1, <1>2, PTL DEF Spec, ServiceSpec

LEMMA AccessAlone == Spec => AccessSpec
<1>1. Init => AccessInit
  BY DEF Init
<1>2. [Next]_vars => [AccessNext]_accessVars
  BY DEF Next, vars, Alone
<1> QED BY <1>1, <1>2, PTL DEF Spec, AccessSpec

-----------------------------------------------------------------------------
(* The types                                                                *)

\* A kill needs a command to kill: there are at most as many as actions.
LEMMA AppTypeOK == Applied /\ AppCounted => A!TypeOK
<1> SUFFICES ASSUME Applied, AppCounted PROVE A!TypeOK
  OBVIOUS
<1>1. Cardinality(BusyCommands) \in Nat
  BY RelayAssumption, FS_Subset, FS_CardinalityType DEF BusyCommands
<1>2. actions \in Nat /\ kills \in 0..actions
  BY <1>1, AppAssumption DEF AppCounted
<1>3. \A c \in Clients : app_lock = c => A!Busy(c)
  BY DEF Applied, AppLocked, A!Busy
<1> QED BY <1>2, <1>3 DEF Applied, AppTyped, AppCounted, A!TypeOK

LEMMA LaunchTypeOK == Owned => W!TypeOK
BY DEF Owned, LaunchTyped, W!TypeOK, W!Resident

\* The leases of a worker are counted: they are the requests that hold one.
LEMMA RelayTypeOK == Relaying => R!TypeOK
<1> SUFFICES ASSUME Relaying PROVE R!TypeOK
  OBVIOUS
<1>1. IsFiniteSet(Holders)
  BY RelayAssumption, FS_Subset DEF Holders
<1>2. in_flight \in Nat
  BY <1>1, FS_CardinalityType DEF Relaying
<1> QED BY <1>2 DEF Relaying, RelayTyped, R!TypeOK

LEMMA PlanningTypeOK == PlanKept => P!TypeOK
BY DEF PlanKept, P!TypeOK, P!ToSet

\* Every component's state has, at every moment, the shape that its code gives
\* it, whichever component runs and whatever the others were left with.
THEOREM ComponentsTyped ==
  ASSUME Named, Blank, Distinct, Anonymous, KeysDistinct, MaxCommands \in Nat
  PROVE  Spec => []TypeOK
<1>1. Spec => [](SessionTypeOK /\ ServiceTypeOK /\ AccessTypeOK)
  BY SessionsAlone, SessionsTyped, ServiceAlone, ServiceIsTyped, AccessAlone, KeysAreTyped, PTL
<1>2. Spec => [](A!TypeOK /\ W!TypeOK)
  <2>1. W!Spec => []Owned
    BY LaunchInit, LaunchNext, PTL DEF W!Spec
  <2> QED BY <2>1, AppsAlone, AppInvariant, AppTypeOK, WorkersAlone, LaunchTypeOK, PTL
<1>3. Spec => [](R!TypeOK /\ B!TypeOK)
  <2>1. R!Spec => []Relaying
    BY RelayInit, RelayNext, PTL DEF R!Spec
  <2> QED BY <2>1, RelayAlone, RelayTypeOK, BridgeAlone, BridgedAlways, BridgeTypeOK, PTL
<1>4. Spec => []T!TypeOK
  BY SetupAlone, PreparesAlways, SetupTypeOK, PTL
<1>5. Spec => [](component = "planning" => P!TypeOK)
  <2>1. Planned => (component = "planning" => P!TypeOK)
    BY PlanningTypeOK DEF Planned
  <2> QED BY <2>1, PlanningAlone, PTL
<1> QED BY <1>1, <1>2, <1>3, <1>4, <1>5, PTL DEF TypeOK

-----------------------------------------------------------------------------
(* The safety properties of the components, of the system                   *)

\* Of the sessions of the whole system: what was answered is remembered, and
\* what a stored message names lies in its session, and holds what it was stored
\* for unless a later turn that was not recorded left a file of that name, or
\* the session was imported without its spoken replies (MediaResolves); a server
\* that answers is the one on file, and an update leaves the program whole.
THEOREM SystemKeepsItsData ==
  ASSUME Named, Distinct, Anonymous
  PROVE  Spec => [](HistoryKept /\ MediaResolves /\ ServingIsKnown /\ InstalledWhole)
BY SessionsAlone, HistoryIsKept, MediaIsKept, ServiceAlone, ServingIsKnownHolds,
   UpdateLeavesWhole, PTL

\* Of the whole system: a key that was replaced opens nothing, an install that
\* fails leaves what it found, and what setup reports as ready is whole, but for
\* what an earlier attempt was cut in the middle of - the audio engine, the
\* environment of the tools - which a refresh repairs (PreparedWhole).
THEOREM SystemLeavesNothingHalfDone ==
  ASSUME KeysDistinct
  PROVE  Spec => AccessRevoked /\ AppRollsBack /\ PreparedWhole
BY AccessAlone, ReplacedKeysAreRefused, InstallsRollBack, SetupLeavesWhole

=============================================================================

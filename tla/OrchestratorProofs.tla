------------------------- MODULE OrchestratorProofs -------------------------
(***************************************************************************)
(* Theorems about Orchestrator, for any set of markets and any number of   *)
(* faults. Each safety property is the consequence of an inductive         *)
(* invariant that adds to it what is true of a handler in flight. The last *)
(* part is about recovery and the event log, and shows that the            *)
(* orchestrator with its handlers, stores and faults implements            *)
(* TradingLicence. At the end stands what can be relied upon in the health *)
(* reports that are made of its snapshots (RuntimeHealth).                 *)
(***************************************************************************)
EXTENDS Orchestrator, RuntimeHealth, TLAPS

(***************************************************************************)
(* What the routes and the transition table say of one hop.                *)
(***************************************************************************)

\* A hop ends in a state.
LEMMA HopsAreStates ==
  ASSUME NEW c, NEW s, NEW t \in Hops(c, s)
  PROVE  t \in State
BY DEF Hops

\* The allowed moves out of each state, without the products.
LEMMA AllowedMoves ==
  ASSUME NEW s, NEW t, <<s, t>> \in Allowed
  PROVE  \/ s = "DISCONNECTED" /\ t = "CONNECTING"
         \/ s = "CONNECTING" /\ t \in {"IDLE", "ERROR"}
         \/ s = "IDLE" /\ t \in {"ARMED", "DISCONNECTED", "ERROR"}
         \/ s = "ARMED" /\ t \in {"RUNNING", "IDLE", "DISCONNECTED", "ERROR"}
         \/ s = "RUNNING" /\ t \in {"STOPPING", "ERROR"}
         \/ s = "STOPPING" /\ t \in {"ARMED", "IDLE", "ERROR"}
         \/ s = "ERROR" /\ t \in {"CONNECTING", "DISCONNECTED"}
BY DEF Allowed

\* Only arming takes a market out of the states that cannot trade.
LEMMA OnlyArmLeavesUnarmed ==
  ASSUME NEW c \in DOMAIN Route, NEW s \in Unarmed, NEW t \in Hops(c, s)
  PROVE  t \in Unarmed \/ c = "Arm"
<1>1. <<s, t>> \in Allowed /\ <<s, t>> \in Route[c]
  BY DEF Hops
<1>2. CASE t = "ARMED" /\ s = "IDLE"
  BY <1>1, <1>2 DEF Route, ToIdle
<1>3. CASE ~(t = "ARMED" /\ s = "IDLE")
  BY <1>1, <1>3, AllowedMoves DEF Unarmed
<1>. QED BY <1>2, <1>3

\* The kill-switch handler stops hopping only where a killed market may be.
LEMMA KillRouteEndsUnarmed ==
  ASSUME NEW s \in State, Hops("EngageKillSwitch", s) = {}
  PROVE  s \in Unarmed
<1>1. SUFFICES ASSUME s \notin Unarmed
               PROVE  FALSE
  OBVIOUS
<1>2. s \in {"ARMED", "RUNNING", "STOPPING"}
  BY <1>1 DEF State, Unarmed
<1>3. CASE s = "RUNNING"
  <2>1. "STOPPING" \in Hops("EngageKillSwitch", s)
    BY <1>3 DEF Hops, Route, ToIdle, Allowed, State
  <2>. QED BY <2>1
<1>4. CASE s \in {"ARMED", "STOPPING"}
  <2>1. "IDLE" \in Hops("EngageKillSwitch", s)
    BY <1>4 DEF Hops, Route, ToIdle, Allowed, State
  <2>. QED BY <2>1
<1>. QED BY <1>2, <1>3, <1>4

-----------------------------------------------------------------------------
(* Types *)

\* What Moved makes of a snapshot.
LEMMA MovedSnapshot ==
  ASSUME NEW snap \in Snapshot, NEW c, NEW t \in State
  PROVE  /\ Moved(snap, c, t) \in Snapshot
         /\ Moved(snap, c, t).state = t
         /\ Moved(snap, c, t).kill = snap.kill
         /\ Moved(snap, c, t).pending = snap.pending
         /\ Moved(snap, c, t).error
              = (snap.error /\ c = "GracefulShutdownAll" /\ snap.state = "ERROR")
BY DEF Moved, Snapshot

LEMMA ViewIsView == ASSUME NEW snap \in Snapshot PROVE View(snap) \in Views
BY DEF View, Views, Snapshot

LEMMA NewMarketIsSnapshot == NewMarket \in Snapshot
BY DEF NewMarket, Snapshot, State

\* The two updates of two fields that handlers make.
LEMMA ErrorSnapshot ==
  ASSUME NEW snap \in Snapshot
  PROVE  [snap EXCEPT !.state = "ERROR", !.error = TRUE] \in Snapshot
BY DEF Snapshot, State

LEMMA KilledView ==
  ASSUME NEW view \in Views, NEW s \in State
  PROVE  [view EXCEPT !.state = s, !.kill = TRUE] \in Views
BY DEF Views

LEMMA ReplaceTypes ==
  ASSUME TypeOK, NEW m \in Markets, NEW new \in Snapshot, NEW view \in Views,
         Replace(m, new, view), acked' \subseteq Markets, lasting' = lasting
  PROVE  TypeOK'
BY DEF TypeOK, Replace, stores, Phases

\* A store and a log without entries.
LEMMA NewTypes == NewSnapshots \in [Markets -> Snapshot] /\ NewLog \in [Markets -> Views]
<1>1. NewMarket \in Snapshot /\ View(NewMarket) \in Views
  BY NewMarketIsSnapshot, ViewIsView
<1>. QED BY <1>1 DEF NewSnapshots, NewLog

\* What a process leaves behind, whatever its stores.
LEMMA LeavingTypes ==
  ASSUME TypeOK, LeaveBehind
  PROVE  /\ stored' \in [Markets -> Snapshot] /\ logged' \in [Markets -> Views]
         /\ unlogged' \subseteq Markets /\ acked' \subseteq Markets
<1>1. CASE lasting
  BY <1>1 DEF LeaveBehind, TypeOK, stores
<1>2. CASE ~lasting
  BY <1>2, NewTypes DEF LeaveBehind
<1>. QED BY <1>1, <1>2

\* Every step of the orchestrator keeps every variable in its type.
LEMMA TypeStep == TypeOK /\ [Next]_vars => TypeOK'
<1>. SUFFICES ASSUME TypeOK, [Next]_vars
              PROVE  TypeOK'
  OBVIOUS
<1>0. lasting' = lasting
  BY DEF Next, vars
<1>. USE <1>0
<1>1. ASSUME NEW m \in Markets, NEW c \in MoveCommands, Command(c, m)
      PROVE  TypeOK'
  BY <1>1 DEF TypeOK, Command, Enter, history, Phases, MoveCommands, Route
<1>2. ASSUME NEW m \in Markets, EngageKillSwitch(m)
      PROVE  TypeOK'
  BY <1>2 DEF TypeOK, EngageKillSwitch, Enter, history, Phases, Route
<1>3. ASSUME NEW m \in Markets, ReleaseKillSwitch(m)
      PROVE  TypeOK'
  <2>1. [memory[m] EXCEPT !.kill = FALSE] \in Snapshot
    BY ZenonT(30) DEF TypeOK, Snapshot
  <2>2. [outbox[m] EXCEPT !.kill = FALSE] \in Views
    BY DEF TypeOK, Views
  <2>3. acked' \subseteq Markets
    BY <1>3 DEF ReleaseKillSwitch, TypeOK
  <2>. QED BY <1>3, <2>1, <2>2, <2>3, ReplaceTypes DEF ReleaseKillSwitch
<1>4. ASSUME NEW m \in Markets, MarkMarketError(m)
      PROVE  TypeOK'
  <2>1. [memory[m] EXCEPT !.state = "ERROR", !.error = TRUE] \in Snapshot
    <3>1. memory[m] \in Snapshot
      BY DEF TypeOK
    <3>. QED BY <3>1, ErrorSnapshot, Zenon
  <2>2. [outbox[m] EXCEPT !.state = "ERROR"] \in Views
    BY DEF TypeOK, Views, State
  <2>3. acked' \subseteq Markets
    BY <1>4 DEF MarkMarketError, TypeOK
  <2>. QED BY <1>4, <2>1, <2>2, <2>3, ReplaceTypes DEF MarkMarketError
<1>5. ASSUME NEW m \in Markets, RequestReconciliation(m) \/ CompleteReconciliation(m)
      PROVE  TypeOK'
  <2>1. \A b \in BOOLEAN : /\ [memory[m] EXCEPT !.pending = b] \in Snapshot
                           /\ [outbox[m] EXCEPT !.pending = b] \in Views
    BY SMTT(30) DEF TypeOK, Snapshot, Views
  <2>2. acked' \subseteq Markets
    BY <1>5 DEF RequestReconciliation, CompleteReconciliation, TypeOK
  <2>. QED BY <1>5, <2>1, <2>2, ReplaceTypes
           DEF RequestReconciliation, CompleteReconciliation
<1>6. ASSUME NEW m \in Markets, Hop(m)
      PROVE  TypeOK'
  <2>. PICK t \in Hops(cmd, memory[m].state) :
         /\ memory' = [memory EXCEPT ![m] = Moved(@, cmd, t)]
         /\ outbox' = [outbox EXCEPT ![m].state = t]
    BY <1>6 DEF Hop
  <2>1. t \in State /\ Moved(memory[m], cmd, t) \in Snapshot
    BY HopsAreStates, MovedSnapshot DEF TypeOK
  <2>2. memory' \in [Markets -> Snapshot]
    BY <2>1 DEF TypeOK
  <2>3. outbox' \in [Markets -> Views]
    BY <2>1 DEF TypeOK, Views
  <2>. QED BY <1>6, <2>2, <2>3 DEF TypeOK, Hop, stores, history
<1>7. ASSUME NEW m \in Markets, Leave(m)
      PROVE  TypeOK'
  <2>1. /\ memory[m] \in Snapshot /\ memory[m].state \in State
        /\ outbox[m] \in Views
    BY DEF TypeOK, Snapshot
  <2>2. [memory[m] EXCEPT !.kill = TRUE] \in Snapshot
    BY <2>1 DEF Snapshot
  <2>5. [outbox[m] EXCEPT !.state = memory[m].state, !.kill = TRUE] \in Views
    BY <2>1, KilledView, Zenon
  <2>3. CASE cmd = "EngageKillSwitch"
    BY <1>7, <2>2, <2>3, <2>5, ZenonT(30) DEF TypeOK, Leave, stores, history
  <2>4. CASE cmd # "EngageKillSwitch"
    BY <1>7, <2>4 DEF TypeOK, Leave, stores, history
  <2>. QED BY <2>3, <2>4
<1>8. ASSUME NEW m \in Markets, SaveSnapshot(m)
      PROVE  TypeOK'
  BY <1>8 DEF TypeOK, SaveSnapshot, Return, Phases
<1>9. ASSUME NEW m \in Markets, Heartbeat(m)
      PROVE  TypeOK'
  BY <1>9 DEF TypeOK, Heartbeat, handler
<1>10. ASSUME NEW c \in GlobalCommands, CommandAll(c)
       PROVE  TypeOK'
  BY <1>10 DEF TypeOK, CommandAll, Enter, history, Phases, GlobalCommands, Route
<1>11. CASE EndHandler
  BY <1>11 DEF TypeOK, EndHandler, Return, stores, history, Phases
<1>12. CASE AppendEvents
  BY <1>12 DEF TypeOK, AppendEvents, history, Phases
<1>13. CASE StoreFails
  BY <1>13 DEF TypeOK, StoreFails, stores, Phases
<1>14. CASE Crash
  <2>1. /\ stored' \in [Markets -> Snapshot] /\ logged' \in [Markets -> Views]
        /\ unlogged' \subseteq Markets /\ acked' \subseteq Markets
    BY <1>14, LeavingTypes DEF Crash
  <2>2. faults' \in Nat
    BY <1>14 DEF TypeOK, Crash
  <2>. QED BY <1>14, <2>1, <2>2 DEF TypeOK, Crash, Phases
<1>15. CASE Restart
  BY <1>15 DEF TypeOK, Restart, stores, history, Phases, Route
<1>16. CASE UNCHANGED vars
  BY <1>16 DEF TypeOK, vars
<1>. QED
  BY <1>1, <1>2, <1>3, <1>4, <1>5, <1>6, <1>7, <1>8, <1>9, <1>10, <1>11, <1>12,
     <1>13, <1>14, <1>15, <1>16 DEF Next, MarketStep

\* Every variable keeps its type.
THEOREM TypeCorrect == Spec => []TypeOK
<1>1. ASSUME Init PROVE TypeOK
  <2>2. /\ memory \in [Markets -> Snapshot] /\ stored \in [Markets -> Snapshot]
        /\ logged \in [Markets -> Views] /\ outbox \in [Markets -> Views]
    BY <1>1, NewTypes DEF Init
  <2>3. /\ lasting \in BOOLEAN /\ phase \in Phases /\ cmd \in {"none"} /\ serving \in BOOLEAN /\ faults \in Nat
        /\ todo = {} /\ dirty = {} /\ unsaved = {} /\ unlogged = {} /\ acked = {}
    BY <1>1 DEF Init, Phases
  <2>. QED BY <2>2, <2>3 DEF TypeOK
<1>. QED BY <1>1, TypeStep, PTL DEF Spec

-----------------------------------------------------------------------------
(* A handler in flight *)

\* Only a handler that is changing snapshots has markets left to visit, and
\* between handlers nothing is left to persist.
HandlerInv ==
  /\ IF phase = "mutate" THEN cmd \in DOMAIN Route ELSE todo = {}
  /\ phase \in {"ready", "down"} => dirty = {} /\ cmd = "none"
  /\ phase = "down" <=> (~serving /\ cmd = "none")

\* The market an Arm or Start is about to move is not killed.
GuardedInv ==
  cmd \in {"Arm", "Start"} => \A m \in todo : ~memory[m].kill

\* A market the kill-switch handler is done with is killed.
EngagedInv ==
  cmd = "EngageKillSwitch" => \A m \in dirty \ todo : memory[m].kill

InFlight == HandlerInv /\ GuardedInv /\ EngagedInv

\* Every command that is entered has a route.
LEMMA CommandsAreRouted ==
  MoveCommands \cup GlobalCommands \cup {"EngageKillSwitch"} \subseteq DOMAIN Route
BY DEF MoveCommands, GlobalCommands, Route

LEMMA ReplaceInFlight ==
  ASSUME TypeOK, InFlight, NEW m, NEW new, NEW view, Replace(m, new, view)
  PROVE  InFlight'
BY DEF InFlight, HandlerInv, GuardedInv, EngagedInv, Replace, TypeOK

LEMMA InFlightStep == TypeOK /\ InFlight /\ [Next]_vars => InFlight'
<1>. SUFFICES ASSUME TypeOK, InFlight, [Next]_vars
              PROVE  InFlight'
  OBVIOUS
<1>. USE DEF InFlight, HandlerInv, GuardedInv, EngagedInv
<1>1. ASSUME NEW m \in Markets, NEW c \in MoveCommands, Command(c, m)
      PROVE  InFlight'
  BY <1>1, CommandsAreRouted DEF TypeOK, Command, Permitted, Enter, history, MoveCommands
<1>2. ASSUME NEW m \in Markets, EngageKillSwitch(m)
      PROVE  InFlight'
  BY <1>2, CommandsAreRouted DEF TypeOK, EngageKillSwitch, Enter, history
<1>3. ASSUME NEW m \in Markets,
             \/ ReleaseKillSwitch(m) \/ MarkMarketError(m)
             \/ RequestReconciliation(m) \/ CompleteReconciliation(m)
      PROVE  InFlight'
  BY <1>3, ReplaceInFlight DEF ReleaseKillSwitch, MarkMarketError,
     RequestReconciliation, CompleteReconciliation
<1>4. ASSUME NEW m \in Markets, Hop(m)
      PROVE  InFlight'
  <2>. PICK t \in Hops(cmd, memory[m].state) :
         memory' = [memory EXCEPT ![m] = Moved(@, cmd, t)]
    BY <1>4 DEF Hop
  <2>1. memory[m] \in Snapshot /\ t \in State
    BY HopsAreStates DEF TypeOK
  <2>2. Moved(memory[m], cmd, t).kill = memory[m].kill
    BY <2>1, MovedSnapshot
  <2>3. \A n \in Markets : memory'[n].kill = memory[n].kill
    BY <2>2 DEF TypeOK
  <2>. QED BY <1>4, <2>3 DEF TypeOK, Hop, stores, history
<1>5. ASSUME NEW m \in Markets, Leave(m)
      PROVE  InFlight'
  <2>1. CASE cmd = "EngageKillSwitch"
    <3>1. /\ memory'[m].kill
          /\ \A n \in Markets \ {m} : memory'[n] = memory[n]
      BY <1>5, <2>1 DEF TypeOK, Leave, Snapshot
    <3>. QED BY <1>5, <2>1, <3>1 DEF TypeOK, Leave, stores, history
  <2>2. CASE cmd # "EngageKillSwitch"
    BY <1>5, <2>2 DEF TypeOK, Leave, stores, history
  <2>. QED BY <2>1, <2>2
<1>6. ASSUME NEW m \in Markets, SaveSnapshot(m)
      PROVE  InFlight'
  BY <1>6 DEF TypeOK, SaveSnapshot, Return
<1>7. ASSUME NEW m \in Markets, Heartbeat(m)
      PROVE  InFlight'
  BY <1>7 DEF TypeOK, Heartbeat, handler
<1>8. ASSUME NEW c \in GlobalCommands, CommandAll(c)
      PROVE  InFlight'
  BY <1>8, CommandsAreRouted DEF TypeOK, CommandAll, Enter, history, GlobalCommands
<1>9. CASE EndHandler
  BY <1>9 DEF TypeOK, EndHandler, Return, stores, history
<1>10. CASE AppendEvents
  BY <1>10 DEF TypeOK, AppendEvents, history
<1>11. CASE StoreFails
  BY <1>11 DEF TypeOK, StoreFails, stores
<1>12. CASE Crash
  BY <1>12 DEF TypeOK, Crash, stores
<1>13. CASE Restart
  BY <1>13, CommandsAreRouted DEF TypeOK, Restart, stores, history, GlobalCommands
<1>14. CASE UNCHANGED vars
  BY <1>14 DEF vars
<1>. QED
  BY <1>1, <1>2, <1>3, <1>4, <1>5, <1>6, <1>7, <1>8, <1>9, <1>10, <1>11, <1>12,
     <1>13, <1>14 DEF Next, MarketStep

LEMMA InFlightInit == Init => InFlight
BY DEF Init, InFlight, HandlerInv, GuardedInv, EngagedInv

-----------------------------------------------------------------------------
(* The kill switch *)

LEMMA KillSafetyStep ==
  TypeOK /\ InFlight /\ KillSafety /\ [Next]_vars => KillSafety'
<1>. SUFFICES ASSUME TypeOK, InFlight, KillSafety, [Next]_vars
              PROVE  KillSafety'
  OBVIOUS
<1>. USE DEF KillSafety
<1>1. ASSUME NEW m \in Markets, Hop(m)
      PROVE  KillSafety'
  <2>. PICK t \in Hops(cmd, memory[m].state) :
         memory' = [memory EXCEPT ![m] = Moved(@, cmd, t)]
    BY <1>1 DEF Hop
  <2>1. memory[m] \in Snapshot /\ t \in State
    BY HopsAreStates DEF TypeOK
  <2>2. /\ Moved(memory[m], cmd, t).kill = memory[m].kill
        /\ Moved(memory[m], cmd, t).state = t
    BY <2>1, MovedSnapshot
  <2>3. memory[m].kill => t \in Unarmed
    <3>1. CASE cmd = "Arm"
      BY <1>1, <3>1 DEF Hop, InFlight, GuardedInv
    <3>2. cmd \in DOMAIN Route
      BY <1>1 DEF Hop, InFlight, HandlerInv
    <3>3. CASE cmd # "Arm"
      BY <3>2, <3>3, OnlyArmLeavesUnarmed
    <3>. QED BY <3>1, <3>3
  <2>. QED BY <1>1, <2>2, <2>3 DEF Hop, TypeOK, stores
<1>2. ASSUME NEW m \in Markets, Leave(m)
      PROVE  KillSafety'
  <2>1. CASE cmd = "EngageKillSwitch"
    <3>1. memory[m].state \in Unarmed
      BY <1>2, <2>1, KillRouteEndsUnarmed DEF Leave, TypeOK, Snapshot
    <3>. QED BY <1>2, <2>1, <3>1 DEF Leave, TypeOK, Snapshot, stores
  <2>2. CASE cmd # "EngageKillSwitch"
    BY <1>2, <2>2 DEF Leave, stores
  <2>. QED BY <2>1, <2>2
<1>3. ASSUME NEW m \in Markets, ReleaseKillSwitch(m)
      PROVE  KillSafety'
  BY <1>3 DEF ReleaseKillSwitch, Replace, TypeOK, Snapshot, stores
<1>4. ASSUME NEW m \in Markets, MarkMarketError(m)
      PROVE  KillSafety'
  BY <1>4 DEF MarkMarketError, Replace, TypeOK, Snapshot, stores, Unarmed
<1>5. ASSUME NEW m \in Markets, RequestReconciliation(m) \/ CompleteReconciliation(m)
      PROVE  KillSafety'
  <2>1. CASE RequestReconciliation(m)
    BY <2>1 DEF RequestReconciliation, Replace, TypeOK, Snapshot, stores
  <2>2. CASE CompleteReconciliation(m)
    BY <2>2 DEF CompleteReconciliation, Replace, TypeOK, Snapshot, stores
  <2>. QED BY <1>5, <2>1, <2>2
<1>6. ASSUME NEW m \in Markets, SaveSnapshot(m) \/ Heartbeat(m)
      PROVE  KillSafety'
  BY <1>6 DEF SaveSnapshot, Heartbeat, TypeOK
<1>7. CASE Restart
  BY <1>7 DEF Restart, stores
<1>8. CASE UNCHANGED <<memory, stored>>
  BY <1>8
<1>9. CASE Crash
  BY <1>9 DEF Crash, LeaveBehind, stores, NewSnapshots, NewMarket
<1>. QED
  BY <1>1, <1>2, <1>3, <1>4, <1>5, <1>6, <1>7, <1>8, <1>9
     DEF Next, MarketStep, Command, EngageKillSwitch, Enter, CommandAll, EndHandler,
         AppendEvents, StoreFails, stores, vars

\* A killed market is never armed, running or on its way there, in memory or
\* in the store, whatever handlers, heartbeats, faults and restarts do.
THEOREM KilledMarketsStayUnarmed == Spec => []KillSafety
<1>1. Init => KillSafety
  BY DEF Init, KillSafety, NewSnapshots, NewMarket
<1>. QED
  BY <1>1, TypeCorrect, InFlightInit, TypeStep, InFlightStep, KillSafetyStep, PTL DEF Spec

-----------------------------------------------------------------------------
(* Confirmed kill switches *)

LEMMA AckedStep ==
  TypeOK /\ InFlight /\ AckedKillHolds /\ [Next]_vars => AckedKillHolds'
<1>. SUFFICES ASSUME TypeOK, InFlight, AckedKillHolds, [Next]_vars
              PROVE  AckedKillHolds'
  OBVIOUS
<1>. USE DEF AckedKillHolds
<1>1. ASSUME NEW m \in Markets, Hop(m)
      PROVE  AckedKillHolds'
  <2>. PICK t \in Hops(cmd, memory[m].state) :
         memory' = [memory EXCEPT ![m] = Moved(@, cmd, t)]
    BY <1>1 DEF Hop
  <2>1. memory[m] \in Snapshot /\ t \in State
    BY HopsAreStates DEF TypeOK
  <2>2. Moved(memory[m], cmd, t).kill = memory[m].kill
    BY <2>1, MovedSnapshot
  <2>. QED BY <1>1, <2>2 DEF Hop, TypeOK, stores, history
<1>2. ASSUME NEW m \in Markets, Leave(m)
      PROVE  AckedKillHolds'
  <2>1. CASE cmd = "EngageKillSwitch"
    BY <1>2, <2>1, SMTT(30) DEF Leave, TypeOK, Snapshot, stores, history
  <2>2. CASE cmd # "EngageKillSwitch"
    BY <1>2, <2>2 DEF Leave, stores, history
  <2>. QED BY <2>1, <2>2
<1>3. ASSUME NEW m \in Markets, ReleaseKillSwitch(m)
      PROVE  AckedKillHolds'
  BY <1>3 DEF ReleaseKillSwitch, Replace, TypeOK, stores
<1>4. ASSUME NEW m \in Markets,
             MarkMarketError(m) \/ RequestReconciliation(m) \/ CompleteReconciliation(m)
      PROVE  AckedKillHolds'
  <2>1. CASE MarkMarketError(m)
    BY <2>1 DEF MarkMarketError, Replace, TypeOK, Snapshot, stores
  <2>2. CASE RequestReconciliation(m)
    BY <2>2 DEF RequestReconciliation, Replace, TypeOK, Snapshot, stores
  <2>3. CASE CompleteReconciliation(m)
    BY <2>3 DEF CompleteReconciliation, Replace, TypeOK, Snapshot, stores
  <2>. QED BY <1>4, <2>1, <2>2, <2>3
<1>5. ASSUME NEW m \in Markets, SaveSnapshot(m)
      PROVE  AckedKillHolds'
  <2>1. todo = {}
    BY <1>5 DEF SaveSnapshot, InFlight, HandlerInv
  <2>2. cmd = "EngageKillSwitch" => memory[m].kill
    BY <1>5, <2>1 DEF SaveSnapshot, InFlight, EngagedInv
  <2>3. \A n \in acked' : n \in acked \/ (n = m /\ memory[m].kill)
    BY <1>5, <2>2 DEF SaveSnapshot
  <2>4. \A n \in Markets : stored'[n].kill \/ stored'[n] = stored[n]
                             \/ (n = m /\ stored'[n] = memory[n])
    BY <1>5 DEF SaveSnapshot, TypeOK
  <2>5. stored'[m] = memory[m] /\ memory' = memory
    BY <1>5 DEF SaveSnapshot, TypeOK
  <2>. QED BY <2>3, <2>4, <2>5 DEF TypeOK
<1>6. ASSUME NEW m \in Markets, Heartbeat(m)
      PROVE  AckedKillHolds'
  BY <1>6 DEF Heartbeat, TypeOK
<1>7. CASE Restart
  BY <1>7 DEF Restart, stores, history
<1>8. CASE UNCHANGED <<memory, stored, acked>>
  BY <1>8
<1>9. CASE Crash
  BY <1>9 DEF Crash, LeaveBehind, stores
<1>. QED
  BY <1>1, <1>2, <1>3, <1>4, <1>5, <1>6, <1>7, <1>8, <1>9
     DEF Next, MarketStep, Command, EngageKillSwitch, Enter, CommandAll, EndHandler,
         AppendEvents, StoreFails, stores, history, vars

\* What the operator was told about a kill switch holds until he releases it or,
\* with the stores of the application, until the process ends.
THEOREM ConfirmedKillsHold == Spec => []AckedKillHolds
<1>1. Init => AckedKillHolds
  BY DEF Init, AckedKillHolds
<1>. QED
  BY <1>1, TypeCorrect, InFlightInit, TypeStep, InFlightStep, AckedStep, PTL DEF Spec

-----------------------------------------------------------------------------
(* The store *)

\* What StoreIsCurrent says is true of recovery as well.
StoreInv ==
  phase # "down" => \A m \in Markets \ (dirty \cup unsaved) : stored[m] = memory[m]

LEMMA StoreStep ==
  TypeOK /\ InFlight /\ StoreInv /\ [Next]_vars => StoreInv'
<1>. SUFFICES ASSUME TypeOK, InFlight, StoreInv, [Next]_vars
              PROVE  StoreInv'
  OBVIOUS
<1>. USE DEF StoreInv
<1>1. ASSUME NEW m \in Markets, Hop(m)
      PROVE  StoreInv'
  BY <1>1 DEF Hop, TypeOK, stores, history
<1>2. ASSUME NEW m \in Markets, Leave(m)
      PROVE  StoreInv'
  <2>1. CASE cmd = "EngageKillSwitch"
    BY <1>2, <2>1 DEF Leave, TypeOK, stores, history
  <2>2. CASE cmd # "EngageKillSwitch"
    BY <1>2, <2>2 DEF Leave, stores, history
  <2>. QED BY <2>1, <2>2
<1>3. ASSUME NEW m \in Markets, NEW new, NEW view, Replace(m, new, view)
      PROVE  StoreInv'
  BY <1>3 DEF Replace, TypeOK, stores, InFlight, HandlerInv
<1>4. ASSUME NEW m \in Markets, SaveSnapshot(m) \/ Heartbeat(m)
      PROVE  StoreInv'
  <2>1. CASE SaveSnapshot(m)
    BY <2>1 DEF SaveSnapshot, TypeOK
  <2>2. CASE Heartbeat(m)
    BY <2>2 DEF Heartbeat, TypeOK, handler
  <2>. QED BY <1>4, <2>1, <2>2
<1>5. CASE StoreFails
  BY <1>5 DEF StoreFails, stores
<1>6. CASE Crash
  BY <1>6 DEF Crash
<1>7. CASE Restart
  BY <1>7 DEF Restart, stores
<1>8. ASSUME NEW ms, NEW c, Enter(c, ms)
      PROVE  StoreInv'
  BY <1>8 DEF Enter, history
<1>9. CASE EndHandler
  BY <1>9 DEF EndHandler, stores, history, InFlight, HandlerInv
<1>10. CASE AppendEvents
  BY <1>10 DEF AppendEvents, history
<1>11. CASE UNCHANGED vars
  BY <1>11 DEF vars
<1>. QED
  BY <1>1, <1>2, <1>3, <1>4, <1>5, <1>6, <1>7, <1>8, <1>9, <1>10, <1>11
     DEF Next, MarketStep, Command, EngageKillSwitch, CommandAll, ReleaseKillSwitch,
         MarkMarketError, RequestReconciliation, CompleteReconciliation

\* What the snapshot store would give another orchestrator is what is live,
\* outside the handler at work and unless a store call has failed.
THEOREM TheStoreIsCurrent == Spec => []StoreIsCurrent
<1>1. Init => StoreInv
  BY DEF Init, StoreInv
<1>2. InFlight /\ StoreInv => StoreIsCurrent
  BY DEF InFlight, HandlerInv, StoreInv, StoreIsCurrent
<1>. QED
  BY <1>1, <1>2, TypeCorrect, InFlightInit, TypeStep, InFlightStep, StoreStep, PTL DEF Spec

-----------------------------------------------------------------------------
(* Errors *)

LEMMA ErrorsStep ==
  TypeOK /\ ErrorsAreCleared /\ [Next]_vars => ErrorsAreCleared'
<1>. SUFFICES ASSUME TypeOK, ErrorsAreCleared, [Next]_vars
              PROVE  ErrorsAreCleared'
  OBVIOUS
<1>. USE DEF ErrorsAreCleared
<1>1. ASSUME NEW m \in Markets, Hop(m)
      PROVE  ErrorsAreCleared'
  <2>. PICK t \in Hops(cmd, memory[m].state) :
         memory' = [memory EXCEPT ![m] = Moved(@, cmd, t)]
    BY <1>1 DEF Hop
  <2>1. memory[m] \in Snapshot /\ t \in State
    BY HopsAreStates DEF TypeOK
  <2>2. /\ Moved(memory[m], cmd, t).state = t
        /\ Moved(memory[m], cmd, t).error
             = (memory[m].error /\ cmd = "GracefulShutdownAll" /\ memory[m].state = "ERROR")
    BY <2>1, MovedSnapshot
  <2>3. cmd = "GracefulShutdownAll" /\ memory[m].state = "ERROR" => t = "DISCONNECTED"
    BY AllowedMoves DEF Hops, Route, ToIdle
  <2>4. Moved(memory[m], cmd, t).error
          => Moved(memory[m], cmd, t).state \in {"ERROR", "DISCONNECTED"}
    BY <2>2, <2>3
  <2>. QED BY <1>1, <2>4 DEF Hop, TypeOK, stores
<1>2. ASSUME NEW m \in Markets, Leave(m)
      PROVE  ErrorsAreCleared'
  <2>1. CASE cmd = "EngageKillSwitch"
    BY <1>2, <2>1 DEF Leave, TypeOK, Snapshot, stores
  <2>2. CASE cmd # "EngageKillSwitch"
    BY <1>2, <2>2 DEF Leave, stores
  <2>. QED BY <2>1, <2>2
<1>3. ASSUME NEW m \in Markets, ReleaseKillSwitch(m)
      PROVE  ErrorsAreCleared'
  BY <1>3 DEF ReleaseKillSwitch, Replace, TypeOK, Snapshot, stores
<1>4. ASSUME NEW m \in Markets, MarkMarketError(m)
      PROVE  ErrorsAreCleared'
  <2>1. [memory[m] EXCEPT !.state = "ERROR", !.error = TRUE].state = "ERROR"
    BY DEF TypeOK, Snapshot
  <2>. QED BY <1>4, <2>1 DEF MarkMarketError, Replace, TypeOK, stores
<1>5. ASSUME NEW m \in Markets, RequestReconciliation(m) \/ CompleteReconciliation(m)
      PROVE  ErrorsAreCleared'
  <2>1. CASE RequestReconciliation(m)
    BY <2>1 DEF RequestReconciliation, Replace, TypeOK, Snapshot, stores
  <2>2. CASE CompleteReconciliation(m)
    BY <2>2 DEF CompleteReconciliation, Replace, TypeOK, Snapshot, stores
  <2>. QED BY <1>5, <2>1, <2>2
<1>6. ASSUME NEW m \in Markets, SaveSnapshot(m) \/ Heartbeat(m)
      PROVE  ErrorsAreCleared'
  BY <1>6 DEF SaveSnapshot, Heartbeat, TypeOK
<1>7. CASE Restart
  BY <1>7 DEF Restart, stores
<1>8. CASE UNCHANGED <<memory, stored>>
  BY <1>8
<1>9. CASE Crash
  BY <1>9 DEF Crash, LeaveBehind, stores, NewSnapshots, NewMarket
<1>. QED
  BY <1>1, <1>2, <1>3, <1>4, <1>5, <1>6, <1>7, <1>8, <1>9
     DEF Next, MarketStep, Command, EngageKillSwitch, Enter, CommandAll, EndHandler,
         AppendEvents, StoreFails, stores, vars

\* A market that trades again shows no old error, in memory or in the store.
THEOREM ErrorsDoNotLinger == Spec => []ErrorsAreCleared
<1>1. Init => ErrorsAreCleared
  BY DEF Init, ErrorsAreCleared, NewSnapshots, NewMarket
<1>. QED
  BY <1>1, TypeCorrect, TypeStep, ErrorsStep, PTL DEF Spec

-----------------------------------------------------------------------------
(* Recovery *)

\* A process that does not serve yet is recovering, and the markets it is done
\* with are settled.
Settled(s) == s \notin {"RUNNING"} \cup Transient

RecoverInv ==
  ~serving /\ phase # "down" =>
    /\ cmd = "RecoverRuntime"
    /\ \A m \in Markets \ todo : Settled(memory[m].state)

\* Recovery is done with a market where it has no hop for it.
LEMMA RecoveryEndsSettled ==
  ASSUME NEW s \in State, Hops("RecoverRuntime", s) = {}
  PROVE  Settled(s)
<1>1. SUFFICES ASSUME ~Settled(s)
               PROVE  FALSE
  OBVIOUS
<1>2. s \in {"RUNNING", "CONNECTING", "STOPPING"}
  BY <1>1 DEF Settled, Transient
<1>3. CASE s = "RUNNING"
  <2>1. "STOPPING" \in Hops("RecoverRuntime", s)
    BY <1>3 DEF Hops, Route, ToIdle, Allowed, State
  <2>. QED BY <2>1
<1>4. CASE s = "CONNECTING"
  <2>1. "IDLE" \in Hops("RecoverRuntime", s)
    BY <1>4 DEF Hops, Route, ToIdle, Allowed, State
  <2>. QED BY <2>1
<1>5. CASE s = "STOPPING"
  <2>1. "ARMED" \in Hops("RecoverRuntime", s)
    BY <1>5 DEF Hops, Route, ToIdle, Allowed, State
  <2>. QED BY <2>1
<1>. QED BY <1>2, <1>3, <1>4, <1>5

\* Requests are handled by a process that serves.
LEMMA ReadyServes == TypeOK /\ InFlight /\ phase = "ready" => serving
BY DEF TypeOK, InFlight, HandlerInv

LEMMA RecoverStep ==
  TypeOK /\ InFlight /\ RecoverInv /\ [Next]_vars => RecoverInv'
<1>. SUFFICES ASSUME TypeOK, InFlight, RecoverInv, [Next]_vars
              PROVE  RecoverInv'
  OBVIOUS
<1>. USE DEF RecoverInv
<1>1. ASSUME NEW m \in Markets, Hop(m)
      PROVE  RecoverInv'
  <2>1. \A n \in Markets \ {m} : memory'[n] = memory[n]
    BY <1>1 DEF Hop, TypeOK
  <2>. QED BY <1>1, <2>1 DEF Hop, history
<1>2. ASSUME NEW m \in Markets, Leave(m)
      PROVE  RecoverInv'
  <2>1. SUFFICES ASSUME ~serving', phase' # "down"
                 PROVE  RecoverInv'
    OBVIOUS
  <2>2. cmd = "RecoverRuntime"
    BY <1>2, <2>1 DEF Leave
  <2>3. memory' = memory /\ todo' = todo \ {m} /\ cmd' = cmd
    BY <1>2, <2>2 DEF Leave
  <2>4. Settled(memory[m].state)
    BY <1>2, <2>2, RecoveryEndsSettled DEF Leave, TypeOK, Snapshot
  <2>. QED BY <1>2, <2>2, <2>3, <2>4 DEF Leave
<1>3. ASSUME NEW m, NEW new, NEW view, Replace(m, new, view)
      PROVE  RecoverInv'
  BY <1>3, ReadyServes DEF Replace
<1>4. ASSUME NEW ms, NEW c, Enter(c, ms)
      PROVE  RecoverInv'
  BY <1>4, ReadyServes DEF Enter
<1>5. ASSUME NEW m \in Markets, SaveSnapshot(m) \/ Heartbeat(m)
      PROVE  RecoverInv'
  BY <1>5 DEF SaveSnapshot, Heartbeat, Return, handler
<1>6. CASE EndHandler
  BY <1>6 DEF EndHandler, Return
<1>7. CASE AppendEvents
  BY <1>7 DEF AppendEvents, history
<1>8. CASE StoreFails \/ Crash
  BY <1>8 DEF StoreFails, Crash
<1>9. CASE Restart
  BY <1>9 DEF Restart
<1>10. CASE UNCHANGED vars
  BY <1>10 DEF vars
<1>. QED
  BY <1>1, <1>2, <1>3, <1>4, <1>5, <1>6, <1>7, <1>8, <1>9, <1>10
     DEF Next, MarketStep, Command, EngageKillSwitch, CommandAll, ReleaseKillSwitch,
         MarkMarketError, RequestReconciliation, CompleteReconciliation

\* A process begins to serve only with every market visited.
LEMMA ServingSettled ==
  TypeOK /\ InFlight /\ RecoverInv /\ [Next]_vars /\ ~serving /\ serving'
    => /\ memory' = memory /\ acked' = acked
       /\ \A m \in Markets : Settled(memory[m].state)
<1>. SUFFICES ASSUME TypeOK, InFlight, RecoverInv, [Next]_vars, ~serving, serving'
              PROVE  /\ memory' = memory /\ acked' = acked
                     /\ \A m \in Markets : Settled(memory[m].state)
  OBVIOUS
<1>1. CASE EndHandler
  BY <1>1 DEF EndHandler, RecoverInv, history
<1>2. ASSUME NEW m \in Markets, SaveSnapshot(m)
      PROVE  /\ memory' = memory /\ acked' = acked
             /\ \A n \in Markets : Settled(memory[n].state)
  BY <1>2 DEF SaveSnapshot, RecoverInv, InFlight, HandlerInv
<1>3. EndHandler \/ \E m \in Markets : SaveSnapshot(m)
  BY DEF Next, MarketStep, Command, EngageKillSwitch, CommandAll, ReleaseKillSwitch,
         MarkMarketError, RequestReconciliation, CompleteReconciliation, Enter, Replace,
         Hop, Leave, Heartbeat, AppendEvents, StoreFails, Crash, Restart, vars
<1>. QED BY <1>1, <1>2, <1>3

\* Whatever was stored, a process that serves begins with no market running or
\* halfway (_recover_runtime, called by __post_init__).
THEOREM RecoveryComesFirst == Spec => RecoveredBeforeServing
<1>1. Init => RecoverInv
  BY DEF Init, RecoverInv
<1>2. TypeOK /\ InFlight /\ RecoverInv /\ [Next]_vars
        => [~serving /\ serving' =>
              \A m \in Markets : memory'[m].state \notin {"RUNNING"} \cup Transient]_vars
  BY ServingSettled DEF Settled
<1>. QED
  BY <1>1, <1>2, TypeCorrect, InFlightInit, TypeStep, InFlightStep, RecoverStep, PTL
     DEF Spec, RecoveredBeforeServing

-----------------------------------------------------------------------------
(* The event log *)

\* How the four accounts of a market hang together while a handler is at work:
\* memory, the events that are to be appended, the log, and the store.
LogInv ==
  /\ unsaved \subseteq unlogged
  /\ \A m \in Markets \ dirty : outbox[m] = logged[m]
  /\ phase = "save" => outbox = logged
  /\ phase # "down" => \A m \in Markets \ unlogged : outbox[m] = View(memory[m])
  /\ \A m \in Markets \ (unlogged \cup dirty) : logged[m] = View(stored[m])
  /\ ~serving /\ phase # "save" => \A m \in Markets \ unlogged : logged[m] = View(stored[m])

\* The two events whose snapshots change in more than one field.
LEMMA KilledSame ==
  ASSUME NEW snap \in Snapshot, NEW b \in BOOLEAN
  PROVE  [View(snap) EXCEPT !.state = snap.state, !.kill = b] = View([snap EXCEPT !.kill = b])
<1>. DEFINE new == [snap EXCEPT !.kill = b]
            view == [View(snap) EXCEPT !.state = snap.state, !.kill = b]
<1>1. new.state = snap.state /\ new.kill = b /\ new.pending = snap.pending
  BY DEF Snapshot
<1>2. view = [state |-> snap.state, kill |-> b, pending |-> snap.pending]
  <2>1. view = [[View(snap) EXCEPT !.state = snap.state] EXCEPT !.kill = b]
    BY DEF View
  <2>2. [View(snap) EXCEPT !.state = snap.state] = View(snap)
    BY DEF View
  <2>3. [View(snap) EXCEPT !.kill = b] = [state |-> snap.state, kill |-> b, pending |-> snap.pending]
    BY DEF View
  <2>. HIDE DEF view
  <2>. QED BY <2>1, <2>2, <2>3
<1>. HIDE DEF new, view
<1>3. view = View(new)
  BY <1>1, <1>2 DEF View
<1>. QED BY <1>3 DEF new, view

LEMMA ErrorSame ==
  ASSUME NEW snap \in Snapshot
  PROVE  [View(snap) EXCEPT !.state = "ERROR"]
           = View([snap EXCEPT !.state = "ERROR", !.error = TRUE])
<1>. DEFINE new == [snap EXCEPT !.state = "ERROR", !.error = TRUE]
            view == [View(snap) EXCEPT !.state = "ERROR"]
<1>1. new.state = "ERROR" /\ new.kill = snap.kill /\ new.pending = snap.pending
  BY DEF Snapshot
<1>2. view = [state |-> "ERROR", kill |-> snap.kill, pending |-> snap.pending]
  BY DEF View
<1>. HIDE DEF new, view
<1>3. view = View(new)
  BY <1>1, <1>2 DEF View
<1>. QED BY <1>3 DEF new, view

LEMMA LogReplace ==
  ASSUME TypeOK, InFlight, LogInv, NEW m \in Markets, NEW new, NEW view, Replace(m, new, view),
         outbox[m] = View(memory[m]) => view = View(new)
  PROVE  LogInv'
<1>1. serving /\ dirty = {}
  BY ReadyServes DEF Replace, InFlight, HandlerInv
<1>2. \A n \in Markets : /\ memory'[n] = IF n = m THEN new ELSE memory[n]
                         /\ outbox'[n] = IF n = m THEN view ELSE outbox[n]
  BY DEF Replace, TypeOK
<1>. QED BY <1>1, <1>2 DEF LogInv, Replace, stores

LEMMA LogStep == TypeOK /\ InFlight /\ LogInv /\ [Next]_vars => LogInv'
<1>. SUFFICES ASSUME TypeOK, InFlight, LogInv, [Next]_vars
              PROVE  LogInv'
  OBVIOUS
<1>1. ASSUME NEW m \in Markets, Hop(m)
      PROVE  LogInv'
  <2>. PICK t \in Hops(cmd, memory[m].state) :
         /\ memory' = [memory EXCEPT ![m] = Moved(@, cmd, t)]
         /\ outbox' = [outbox EXCEPT ![m].state = t]
    BY <1>1 DEF Hop
  <2>1. memory[m] \in Snapshot /\ t \in State
    BY HopsAreStates DEF TypeOK
  <2>2. outbox[m] = View(memory[m]) => [outbox[m] EXCEPT !.state = t] = View(Moved(memory[m], cmd, t))
    BY <2>1, MovedSnapshot DEF View
  <2>3. \A n \in Markets :
          /\ memory'[n] = IF n = m THEN Moved(memory[m], cmd, t) ELSE memory[n]
          /\ outbox'[n] = IF n = m THEN [outbox[m] EXCEPT !.state = t] ELSE outbox[n]
    BY DEF TypeOK
  <2>. QED BY <1>1, <2>2, <2>3 DEF Hop, LogInv, stores, history
<1>2. ASSUME NEW m \in Markets, Leave(m)
      PROVE  LogInv'
  <2>1. CASE cmd = "EngageKillSwitch"
    <3>. DEFINE new == [memory[m] EXCEPT !.kill = TRUE]
                view == [outbox[m] EXCEPT !.state = memory[m].state, !.kill = TRUE]
    <3>1. outbox[m] = View(memory[m]) => view = View(new)
      <4>1. memory[m] \in Snapshot
        BY DEF TypeOK
      <4>. QED BY <4>1, KilledSame, Zenon
    <3>2. \A n \in Markets : /\ memory'[n] = IF n = m THEN new ELSE memory[n]
                             /\ outbox'[n] = IF n = m THEN view ELSE outbox[n]
      BY <1>2, <2>1 DEF Leave, TypeOK
    <3>. HIDE DEF new, view
    <3>. QED BY <1>2, <2>1, <3>1, <3>2 DEF Leave, LogInv, stores, history
  <2>2. CASE cmd # "EngageKillSwitch"
    BY <1>2, <2>2 DEF Leave, LogInv, stores, history
  <2>. QED BY <2>1, <2>2
<1>3. ASSUME NEW m \in Markets, ReleaseKillSwitch(m)
      PROVE  LogInv'
  <2>1. \A b \in BOOLEAN :
          outbox[m] = View(memory[m])
            => [outbox[m] EXCEPT !.kill = b] = View([memory[m] EXCEPT !.kill = b])
    BY DEF View, TypeOK, Snapshot
  <2>. QED BY <1>3, <2>1, LogReplace DEF ReleaseKillSwitch
<1>4. ASSUME NEW m \in Markets, MarkMarketError(m)
      PROVE  LogInv'
  <2>. DEFINE new == [memory[m] EXCEPT !.state = "ERROR", !.error = TRUE]
              view == [outbox[m] EXCEPT !.state = "ERROR"]
  <2>1. outbox[m] = View(memory[m]) => view = View(new)
    <3>1. memory[m] \in Snapshot
      BY DEF TypeOK
    <3>. QED BY <3>1, ErrorSame, Zenon
  <2>2. Replace(m, new, view)
    BY <1>4, Zenon DEF MarkMarketError
  <2>. HIDE DEF new, view
  <2>. QED BY <2>1, <2>2, LogReplace
<1>5. ASSUME NEW m \in Markets, RequestReconciliation(m) \/ CompleteReconciliation(m)
      PROVE  LogInv'
  <2>1. \A b \in BOOLEAN :
          outbox[m] = View(memory[m])
            => [outbox[m] EXCEPT !.pending = b] = View([memory[m] EXCEPT !.pending = b])
    BY DEF View, TypeOK, Snapshot
  <2>. QED BY <1>5, <2>1, LogReplace DEF RequestReconciliation, CompleteReconciliation
<1>6. ASSUME NEW m \in Markets, SaveSnapshot(m)
      PROVE  LogInv'
  <2>1. \A n \in Markets : stored'[n] = IF n = m THEN memory[m] ELSE stored[n]
    BY <1>6 DEF SaveSnapshot, TypeOK
  <2>2. phase = "save" /\ outbox = logged /\ memory' = memory /\ outbox' = outbox /\ logged' = logged
    BY <1>6 DEF SaveSnapshot, LogInv
  <2>3. ~serving' => phase' = "save"
    BY <1>6 DEF SaveSnapshot, Return
  <2>4. \A n \in Markets \ unlogged : logged[n] = View(memory[n])
    BY <2>2 DEF LogInv
  <2>. QED BY <1>6, <2>1, <2>2, <2>3, <2>4 DEF SaveSnapshot, LogInv
<1>7. ASSUME NEW m \in Markets, Heartbeat(m)
      PROVE  LogInv'
  <2>1. \A n \in Markets : stored'[n] = IF n = m THEN memory[m] ELSE stored[n]
    BY <1>7 DEF Heartbeat, TypeOK
  <2>2. phase # "down"
    BY <1>7 DEF Heartbeat, InFlight, HandlerInv
  <2>3. \A n \in Markets \ (unlogged \cup dirty) : logged[n] = View(memory[n])
    BY <2>2 DEF LogInv
  <2>. QED BY <1>7, <2>1, <2>3 DEF Heartbeat, LogInv, handler
<1>8. ASSUME NEW ms, NEW c, Enter(c, ms)
      PROVE  LogInv'
  BY <1>8, ReadyServes DEF Enter, LogInv, history
<1>9. CASE EndHandler
  BY <1>9 DEF EndHandler, Return, LogInv, stores, history
<1>10. CASE AppendEvents
  BY <1>10 DEF AppendEvents, LogInv, history
<1>11. CASE StoreFails
  BY <1>11 DEF StoreFails, LogInv, stores
<1>12. CASE Crash
  <2>1. CASE lasting
    BY <1>12, <2>1 DEF Crash, LeaveBehind, LogInv, stores
  <2>2. CASE ~lasting
    BY <1>12, <2>2 DEF Crash, LeaveBehind, LogInv, NewSnapshots, NewLog
  <2>. QED BY <2>1, <2>2
<1>13. CASE Restart
  BY <1>13 DEF Restart, LogInv, stores, history, InFlight, HandlerInv
<1>14. CASE UNCHANGED vars
  BY <1>14 DEF vars, LogInv
<1>. QED
  BY <1>1, <1>2, <1>3, <1>4, <1>5, <1>6, <1>7, <1>8, <1>9, <1>10, <1>11, <1>12, <1>13, <1>14
     DEF Next, MarketStep, Command, EngageKillSwitch, CommandAll

\* The event log and the snapshots tell the same story of every market whose
\* events and snapshot no fault has separated.
THEOREM TheLogIsTrue == Spec => []LogTellsTheStory
<1>1. Init => LogInv
  BY DEF Init, LogInv, NewSnapshots, NewLog
<1>2. InFlight /\ LogInv => LogTellsTheStory
  BY DEF InFlight, HandlerInv, LogInv, LogTellsTheStory
<1>. QED
  BY <1>1, <1>2, TypeCorrect, InFlightInit, TypeStep, InFlightStep, LogStep, PTL DEF Spec

-----------------------------------------------------------------------------
(* The licence *)

\* What the refinement mapping makes of memory.
Mode == [m \in Markets |-> IF serving THEN ModeOf(memory[m].state) ELSE "off"]
Locked == IF serving THEN {m \in Markets : memory[m].kill} ELSE acked

LEMMA MappedVars ==
  serving' = serving /\ Mode' = Mode /\ Locked' = Locked /\ acked' = acked
    => UNCHANGED Licence!seen
BY DEF Licence!seen, Mode, Locked

LEMMA ModesAreModes == ASSUME NEW s \in State PROVE ModeOf(s) \in Licence!Modes
BY DEF State, ModeOf, Licence!Modes

\* Nothing is seen of a process that does not serve, but for confirmed locks.
LEMMA UnseenStep ==
  ASSUME ~serving, serving' = serving, acked' = acked
  PROVE  UNCHANGED Licence!seen
<1>1. Mode' = Mode
  BY DEF Mode
<1>2. Locked' = Locked
  BY DEF Locked
<1>. QED BY <1>1, <1>2, MappedVars

\* Nor of steps that change neither state nor kill switch.
LEMMA SilentStep ==
  ASSUME TypeOK, serving' = serving, acked' = acked,
         \A m \in Markets : /\ ModeOf(memory'[m].state) = ModeOf(memory[m].state)
                            /\ memory'[m].kill = memory[m].kill
  PROVE  UNCHANGED Licence!seen
<1>1. Mode' = Mode
  BY DEF Mode
<1>2. Locked' = Locked
  BY DEF Locked
<1>. QED BY <1>1, <1>2, MappedVars

\* A market that changes its state changes its mode, or is not seen to.
LEMMA StateStep ==
  ASSUME TypeOK, serving, serving' = serving, acked' = acked, NEW m \in Markets, NEW new \in Snapshot,
         memory' = [memory EXCEPT ![m] = new], new.kill = memory[m].kill,
         NEW from, ModeOf(memory[m].state) \in from
  PROVE  Licence!Shift(m, from, ModeOf(new.state))
<1>1. \A n \in Markets : memory'[n] = IF n = m THEN new ELSE memory[n]
  BY DEF TypeOK
<1>2. Mode = [n \in Markets |-> ModeOf(memory[n].state)]
  BY DEF Mode
<1>3. Mode' = [n \in Markets |-> ModeOf(memory'[n].state)]
  BY DEF Mode
<1>4. Mode' = [Mode EXCEPT ![m] = ModeOf(new.state)]
  BY <1>1, <1>2, <1>3
<1>5. Locked' = Locked
  BY <1>1 DEF Locked
<1>6. Mode[m] \in from
  BY <1>2
<1>. QED BY <1>4, <1>5, <1>6 DEF Licence!Shift, Mode, Locked

\* Without lasting stores a process begins with new markets, and recovery has
\* nothing to do.
FreshInv ==
  ~lasting /\ ~serving =>
    /\ acked = {} /\ dirty = {}
    /\ stored = NewSnapshots
    /\ phase \in {"down", "mutate"}
    /\ phase = "mutate" => memory = NewSnapshots /\ cmd = "RecoverRuntime"

LEMMA FreshStep == TypeOK /\ InFlight /\ FreshInv /\ [Next]_vars => FreshInv'
<1>. SUFFICES ASSUME TypeOK, InFlight, FreshInv, [Next]_vars, ~lasting, ~serving'
              PROVE  FreshInv'
  BY DEF FreshInv, Next, vars
<1>. USE DEF FreshInv
<1>1. CASE Crash
  BY <1>1 DEF Crash, LeaveBehind
<1>2. CASE Restart
  <2>1. ~serving
    BY <1>2 DEF Restart, InFlight, HandlerInv
  <2>. QED BY <1>2, <2>1 DEF Restart, stores, history
<1>3. ASSUME ~Crash
      PROVE  serving' = serving
  BY <1>3 DEF Next, MarketStep, Command, EngageKillSwitch, CommandAll, ReleaseKillSwitch,
         MarkMarketError, RequestReconciliation, CompleteReconciliation, Enter, Replace,
         Hop, Leave, SaveSnapshot, Heartbeat, EndHandler, AppendEvents, StoreFails, Restart,
         Return, vars
<1>4. CASE ~Crash /\ ~Restart
  <2>1. ~serving
    BY <1>3, <1>4 DEF TypeOK
  <2>2. phase # "ready" /\ phase \notin {"append", "save"}
    BY <2>1
  <2>3. ASSUME NEW m \in Markets PROVE ~Hop(m)
    <3>1. CASE phase = "mutate"
      <4>1. memory[m].state = "DISCONNECTED" /\ cmd = "RecoverRuntime"
        BY <2>1, <3>1 DEF NewSnapshots, NewMarket
      <4>2. Hops(cmd, memory[m].state) = {}
        BY <4>1 DEF Hops, Route
      <4>. QED BY <4>2 DEF Hop
    <3>. QED BY <3>1 DEF Hop
  <2>4. ASSUME NEW m \in Markets, Leave(m) PROVE FreshInv'
    BY <2>1, <2>4 DEF Leave, stores, history
  <2>5. CASE EndHandler
    BY <1>3, <1>4, <2>1, <2>5 DEF EndHandler, Return, stores, history
  <2>6. CASE UNCHANGED vars
    BY <2>1, <2>6 DEF vars
  <2>. QED
    BY <1>4, <2>1, <2>2, <2>3, <2>4, <2>5, <2>6
       DEF Next, MarketStep, Command, EngageKillSwitch, CommandAll, ReleaseKillSwitch,
           MarkMarketError, RequestReconciliation, CompleteReconciliation, Enter, Replace,
           SaveSnapshot, Heartbeat, AppendEvents, StoreFails
<1>. QED BY <1>1, <1>2, <1>4

\* What is known of the orchestrator when it takes a step.
LicenceInv == TypeOK /\ InFlight /\ KillSafety /\ AckedKillHolds /\ RecoverInv /\ FreshInv

\* The moves of the licence that a hop can be.
LEMMA HopKeepsLicence ==
  ASSUME LicenceInv, NEW m \in Markets, Hop(m)
  PROVE  [Licence!Step]_(Licence!seen)
<1>. PICK t \in Hops(cmd, memory[m].state) : memory' = [memory EXCEPT ![m] = Moved(@, cmd, t)]
  BY DEF Hop
<1>. DEFINE s == memory[m].state
            new == Moved(memory[m], cmd, t)
<1>1. TypeOK /\ memory[m] \in Snapshot /\ s \in State /\ t \in State
  BY HopsAreStates DEF LicenceInv, TypeOK, Snapshot
<1>2. new \in Snapshot /\ new.state = t /\ new.kill = memory[m].kill
  BY <1>1, MovedSnapshot
<1>3. /\ memory' = [memory EXCEPT ![m] = new] /\ serving' = serving /\ acked' = acked
      /\ cmd \in DOMAIN Route /\ m \in todo
  BY DEF Hop, history, LicenceInv, InFlight, HandlerInv
<1>4. /\ \/ s = "DISCONNECTED" /\ t = "CONNECTING"
         \/ s = "CONNECTING" /\ t \in {"IDLE", "ERROR"}
         \/ s = "IDLE" /\ t \in {"ARMED", "DISCONNECTED", "ERROR"}
         \/ s = "ARMED" /\ t \in {"RUNNING", "IDLE", "DISCONNECTED", "ERROR"}
         \/ s = "RUNNING" /\ t \in {"STOPPING", "ERROR"}
         \/ s = "STOPPING" /\ t \in {"ARMED", "IDLE", "ERROR"}
         \/ s = "ERROR" /\ t \in {"CONNECTING", "DISCONNECTED"}
  BY AllowedMoves DEF Hops
<1>5. s = "IDLE" /\ t = "ARMED" => ~memory[m].kill
  <2>1. s = "IDLE" /\ t = "ARMED" => cmd = "Arm"
    BY <1>3, OnlyArmLeavesUnarmed DEF Unarmed
  <2>. QED BY <1>3, <2>1 DEF LicenceInv, InFlight, GuardedInv
<1>6. s = "ARMED" => ~memory[m].kill
  BY DEF LicenceInv, KillSafety, Unarmed
<1>. HIDE DEF new
<1>7. CASE ~serving
  <2>1. UNCHANGED Licence!seen
    BY <1>3, <1>7, UnseenStep
  <2>. QED BY <2>1
<1>8. CASE serving
  <2>1. \A from : ModeOf(s) \in from => Licence!Shift(m, from, ModeOf(t))
    BY <1>1, <1>2, <1>3, <1>8, StateStep
  <2>2. ~memory[m].kill => m \notin Locked
    BY <1>8 DEF Locked
  <2>. HIDE DEF s
  <2>3. CASE t \in {"DISCONNECTED", "CONNECTING", "ERROR"}
    <3>1. ModeOf(t) = "off" /\ ModeOf(s) \in Licence!Modes
      BY <1>1, <2>3, ModesAreModes DEF ModeOf
    <3>2. Licence!TurnOff(m)
      BY <2>1, <3>1 DEF Licence!TurnOff
    <3>. QED BY <3>2 DEF Licence!Step
  <2>4. CASE s = "CONNECTING" /\ t = "IDLE"
    <3>1. Licence!Enable(m)
      BY <2>1, <2>4 DEF Licence!Enable, ModeOf
    <3>. QED BY <3>1 DEF Licence!Step
  <2>5. CASE s = "IDLE" /\ t = "ARMED"
    <3>1. Licence!Shift(m, {"disarmed"}, "armed")
      BY <2>1, <2>5 DEF ModeOf
    <3>2. m \notin Locked
      BY <1>5, <2>2, <2>5
    <3>3. Licence!Arm(m)
      BY <3>1, <3>2 DEF Licence!Arm, Locked
    <3>. QED BY <3>3 DEF Licence!Step
  <2>6. CASE s = "ARMED" /\ t = "RUNNING"
    <3>1. Licence!Shift(m, {"armed"}, "trading")
      BY <2>1, <2>6 DEF ModeOf
    <3>2. m \notin Locked
      BY <1>6, <2>2, <2>6
    <3>3. Licence!Trade(m)
      BY <3>1, <3>2 DEF Licence!Trade, Locked
    <3>. QED BY <3>3 DEF Licence!Step
  <2>7. CASE s \in {"ARMED", "STOPPING"} /\ t = "IDLE"
    <3>1. Licence!Disarm(m)
      BY <2>1, <2>7 DEF Licence!Disarm, ModeOf
    <3>. QED BY <3>1 DEF Licence!Step
  <2>8. CASE s = "RUNNING" /\ t = "STOPPING"
    <3>1. Licence!Halt(m)
      BY <2>1, <2>8 DEF Licence!Halt, ModeOf
    <3>. QED BY <3>1 DEF Licence!Step
  <2>9. CASE s = "STOPPING" /\ t = "ARMED"
    <3>1. \A n \in Markets : memory'[n] = IF n = m THEN new ELSE memory[n]
      BY <1>1, <1>3 DEF TypeOK
    <3>2. ModeOf(new.state) = ModeOf(memory[m].state)
      BY <1>2, <2>9 DEF ModeOf, s
    <3>3. \A n \in Markets : /\ ModeOf(memory'[n].state) = ModeOf(memory[n].state)
                             /\ memory'[n].kill = memory[n].kill
      BY <1>2, <3>1, <3>2
    <3>4. UNCHANGED Licence!seen
      BY <1>1, <1>3, <3>3, SilentStep
    <3>. QED BY <3>4
  <2>. QED BY <1>4, <2>3, <2>4, <2>5, <2>6, <2>7, <2>8, <2>9
<1>. QED BY <1>7, <1>8

\* The handler of EngageKillSwitch locks the market it is done with.
LEMMA LeaveKeepsLicence ==
  ASSUME LicenceInv, NEW m \in Markets, Leave(m)
  PROVE  [Licence!Step]_(Licence!seen)
<1>1. serving' = serving /\ acked' = acked
  BY DEF Leave, history
<1>2. CASE ~serving
  BY <1>1, <1>2, UnseenStep
<1>3. CASE serving /\ cmd # "EngageKillSwitch"
  <2>1. memory' = memory
    BY <1>3 DEF Leave
  <2>2. TypeOK
    BY DEF LicenceInv
  <2>. QED BY <1>1, <2>1, <2>2, SilentStep
<1>4. CASE serving /\ cmd = "EngageKillSwitch"
  <2>1. memory[m] \in Snapshot /\ memory[m].state \in State
    BY DEF LicenceInv, TypeOK, Snapshot
  <2>2. memory[m].state \in Unarmed
    BY <1>4, <2>1, KillRouteEndsUnarmed DEF Leave
  <2>3. \A n \in Markets : /\ memory'[n].state = memory[n].state
                           /\ memory'[n].kill <=> memory[n].kill \/ n = m
    <3>. DEFINE new == [memory[m] EXCEPT !.kill = TRUE]
    <3>1. new.state = memory[m].state /\ new.kill
      BY <2>1 DEF Snapshot
    <3>2. memory' = [memory EXCEPT ![m] = new]
      BY <1>4 DEF Leave
    <3>. HIDE DEF new
    <3>3. \A n \in Markets : memory'[n] = IF n = m THEN new ELSE memory[n]
      BY <3>2 DEF LicenceInv, TypeOK
    <3>. QED BY <3>1, <3>3
  <2>4. ModeOf(memory[m].state) \in {"off", "disarmed"}
    BY <2>2 DEF Unarmed, ModeOf
  <2>5. Mode' = Mode
    BY <1>1, <2>3 DEF Mode
  <2>6. Mode[m] \in {"off", "disarmed"}
    BY <1>4, <2>4 DEF Mode
  <2>7. Locked' = Locked \cup {m}
    BY <1>1, <1>4, <2>3 DEF Locked
  <2>8. Licence!Lock(m)
    BY <1>1, <1>4, <2>5, <2>6, <2>7 DEF Licence!Lock, Mode, Locked
  <2>. QED BY <2>8 DEF Licence!Step
<1>. QED BY <1>2, <1>3, <1>4

\* Releasing a switch unlocks its market; an error turns it off; what is known of
\* reconciliations is not part of the licence.
LEMMA ReplaceKeepsLicence ==
  ASSUME LicenceInv, NEW m \in Markets,
         \/ ReleaseKillSwitch(m) \/ MarkMarketError(m)
         \/ RequestReconciliation(m) \/ CompleteReconciliation(m)
  PROVE  [Licence!Step]_(Licence!seen)
<1>1. serving /\ serving' = serving /\ TypeOK /\ memory[m] \in Snapshot
  BY ReadyServes DEF LicenceInv, TypeOK, ReleaseKillSwitch, MarkMarketError,
     RequestReconciliation, CompleteReconciliation, Replace
<1>2. CASE ReleaseKillSwitch(m)
  <2>1. \A n \in Markets : /\ memory'[n].state = memory[n].state
                           /\ memory'[n].kill <=> memory[n].kill /\ n # m
    BY <1>1, <1>2 DEF ReleaseKillSwitch, Replace, TypeOK, Snapshot
  <2>2. acked' = acked \ {m}
    BY <1>2 DEF ReleaseKillSwitch
  <2>3. Mode' = Mode
    BY <1>1, <2>1 DEF Mode
  <2>4. Locked' = Locked \ {m}
    BY <1>1, <2>1 DEF Locked
  <2>5. Licence!Unlock(m)
    BY <1>1, <2>2, <2>3, <2>4 DEF Licence!Unlock, Mode, Locked
  <2>. QED BY <2>5 DEF Licence!Step
<1>3. CASE MarkMarketError(m)
  <2>. DEFINE new == [memory[m] EXCEPT !.state = "ERROR", !.error = TRUE]
  <2>1. new \in Snapshot
    BY <1>1, ErrorSnapshot, Zenon
  <2>2. new.state = "ERROR" /\ new.kill = memory[m].kill
    BY <1>1 DEF Snapshot
  <2>3. memory' = [memory EXCEPT ![m] = new] /\ acked' = acked
    BY <1>3, Zenon DEF MarkMarketError, Replace
  <2>. HIDE DEF new
  <2>4. ModeOf(memory[m].state) \in Licence!Modes /\ ModeOf("ERROR") = "off"
    BY <1>1, ModesAreModes DEF ModeOf, Snapshot
  <2>5. Licence!Shift(m, Licence!Modes, "off")
    BY <1>1, <2>1, <2>2, <2>3, <2>4, StateStep
  <2>6. Licence!TurnOff(m)
    BY <2>5 DEF Licence!TurnOff
  <2>. QED BY <2>6 DEF Licence!Step
<1>4. CASE RequestReconciliation(m) \/ CompleteReconciliation(m)
  <2>1. \A n \in Markets : /\ memory'[n].state = memory[n].state
                           /\ memory'[n].kill = memory[n].kill
    BY <1>1, <1>4 DEF RequestReconciliation, CompleteReconciliation, Replace, TypeOK, Snapshot
  <2>2. acked' = acked
    BY <1>4 DEF RequestReconciliation, CompleteReconciliation
  <2>. QED BY <1>1, <2>1, <2>2, SilentStep
<1>. QED BY <1>2, <1>3, <1>4

\* When recovery ends the process serves markets that do not trade, with every
\* confirmed lock in place and none of the locked markets armed; without lasting
\* stores all of them are off and unlocked.
LEMMA BootKeepsLicence ==
  ASSUME LicenceInv, phase # "down", ~serving, serving', memory' = memory, acked' = acked,
         serving' \in BOOLEAN,
         \A m \in Markets : Settled(memory[m].state)
  PROVE  Licence!Boot
<1>1. \A m \in Markets : memory[m].state \in State
  BY DEF LicenceInv, TypeOK, Snapshot
<1>2. \A m \in Markets : ModeOf(memory[m].state) \in Licence!Modes \ {"trading"}
  BY <1>1 DEF Settled, State, Transient, ModeOf, Licence!Modes
<1>3. \A m \in Markets : memory[m].kill => ModeOf(memory[m].state) \in {"off", "disarmed"}
  BY DEF LicenceInv, KillSafety, Unarmed, ModeOf
<1>4. \A m \in acked : m \in Markets /\ memory[m].kill
  BY DEF LicenceInv, AckedKillHolds, TypeOK
<1>5. Mode' = [m \in Markets |-> ModeOf(memory[m].state)]
  BY DEF Mode
<1>6. Locked' = {m \in Markets : memory[m].kill}
  BY DEF Locked
<1>7. serving' = TRUE
  OBVIOUS
<1>8. /\ Mode' \in [Markets -> Licence!Modes \ {"trading"}]
      /\ Locked' \in SUBSET Markets
      /\ acked \subseteq Locked'
      /\ \A m \in Locked' : Mode'[m] \in {"off", "disarmed"}
  BY <1>2, <1>3, <1>4, <1>5, <1>6
<1>9. ASSUME ~lasting
      PROVE  Mode' = Licence!AllOff /\ Locked' = {}
  <2>1. memory = NewSnapshots
    BY <1>9 DEF LicenceInv, FreshInv
  <2>2. \A m \in Markets : ModeOf(memory[m].state) = "off" /\ ~memory[m].kill
    BY <2>1 DEF NewSnapshots, NewMarket, ModeOf
  <2>. QED BY <1>5, <1>6, <2>2 DEF Licence!AllOff
<1>. QED BY <1>7, <1>8, <1>9 DEF Licence!Boot, Mode, Locked

\* With its last snapshot saved a kill switch is confirmed.
LEMMA SaveKeepsLicence ==
  ASSUME LicenceInv, serving, NEW m \in Markets, SaveSnapshot(m)
  PROVE  [Licence!Step]_(Licence!seen)
<1>1. memory' = memory /\ TypeOK
  BY DEF SaveSnapshot, LicenceInv
<1>2. serving' = serving
  BY <1>1 DEF SaveSnapshot, Return, TypeOK
<1>3. Mode' = Mode /\ Locked' = Locked
  BY <1>1, <1>2 DEF Mode, Locked
<1>4. CASE acked' = acked
  BY <1>1, <1>2, <1>4, SilentStep
<1>5. CASE acked' # acked
  <2>1. cmd = "EngageKillSwitch" /\ acked' = acked \cup {m}
    BY <1>5 DEF SaveSnapshot
  <2>2. todo = {} /\ m \in dirty
    BY DEF SaveSnapshot, LicenceInv, InFlight, HandlerInv
  <2>3. memory[m].kill
    BY <2>1, <2>2 DEF LicenceInv, InFlight, EngagedInv
  <2>4. m \in Locked
    BY <2>3 DEF Locked
  <2>5. Licence!Pledge(m)
    BY <1>2, <1>3, <2>1, <2>4 DEF Licence!Pledge, Mode, Locked
  <2>. QED BY <2>5 DEF Licence!Step
<1>. QED BY <1>4, <1>5

\* A crash ends what is live; of the kill switches only confirmed ones that
\* outlive it are certain.
LEMMA CrashKeepsLicence ==
  ASSUME LicenceInv, Crash
  PROVE  [Licence!Step]_(Licence!seen)
<1>1. /\ serving' = FALSE /\ serving \in BOOLEAN
      /\ acked' = IF lasting THEN acked ELSE {}
  BY DEF Crash, LeaveBehind, LicenceInv, TypeOK
<1>2. CASE ~serving
  <2>1. acked' = acked
    BY <1>1, <1>2 DEF LicenceInv, FreshInv
  <2>. QED BY <1>1, <1>2, <2>1, UnseenStep
<1>3. CASE serving
  <2>1. Mode' = Licence!AllOff
    BY <1>1 DEF Mode, Licence!AllOff
  <2>2. Locked' = acked'
    BY <1>1 DEF Locked
  <2>3. Licence!Fail
    BY <1>1, <1>3, <2>1, <2>2 DEF Licence!Fail, Mode, Locked
  <2>. QED BY <2>3 DEF Licence!Step
<1>. QED BY <1>2, <1>3

LEMMA LicenceStep == LicenceInv /\ TypeOK' /\ [Next]_vars => [Licence!Step]_(Licence!seen)
<1>. SUFFICES ASSUME LicenceInv, TypeOK', [Next]_vars
              PROVE  [Licence!Step]_(Licence!seen)
  OBVIOUS
<1>1. TypeOK /\ serving \in BOOLEAN /\ serving' \in BOOLEAN
  BY DEF LicenceInv, TypeOK
<1>2. CASE ~serving /\ serving'
  <2>1. /\ memory' = memory /\ acked' = acked
        /\ \A m \in Markets : Settled(memory[m].state)
    BY <1>2, ServingSettled DEF LicenceInv
  <2>2. phase # "down"
    BY <1>2 DEF Next, MarketStep, Command, EngageKillSwitch, CommandAll, ReleaseKillSwitch,
         MarkMarketError, RequestReconciliation, CompleteReconciliation, Enter, Replace,
         Hop, Leave, SaveSnapshot, Heartbeat, EndHandler, AppendEvents, StoreFails, Crash,
         Restart, history, vars
  <2>3. Licence!Boot
    BY <1>1, <1>2, <2>1, <2>2, BootKeepsLicence
  <2>. QED BY <2>3 DEF Licence!Step
<1>3. CASE ~(~serving /\ serving')
  <2>1. ASSUME NEW m \in Markets, SaveSnapshot(m)
        PROVE  [Licence!Step]_(Licence!seen)
    <3>1. CASE serving
      BY <2>1, <3>1, SaveKeepsLicence
    <3>2. CASE ~serving
      <4>1. serving' = serving
        BY <1>1, <1>3, <3>2
      <4>2. cmd # "EngageKillSwitch"
        BY <2>1, <3>2 DEF SaveSnapshot, LicenceInv, RecoverInv
      <4>3. acked' = acked
        BY <2>1, <4>2 DEF SaveSnapshot
      <4>. QED BY <3>2, <4>1, <4>3, UnseenStep
    <3>. QED BY <3>1, <3>2
  <2>2. ASSUME memory' = memory, serving' = serving, acked' = acked
        PROVE  [Licence!Step]_(Licence!seen)
    BY <1>1, <2>2, SilentStep
  <2>3. CASE EndHandler
    <3>1. serving' = serving
      BY <1>1, <1>3, <2>3 DEF EndHandler, Return
    <3>. QED BY <2>2, <2>3, <3>1 DEF EndHandler, history
  <2>4. CASE Restart
    <3>1. ~serving /\ serving' = serving /\ acked' = acked
      BY <2>4 DEF Restart, history, LicenceInv, InFlight, HandlerInv
    <3>. QED BY <3>1, UnseenStep
  <2>5. ASSUME NEW ms, NEW c, Enter(c, ms)
        PROVE  [Licence!Step]_(Licence!seen)
    BY <2>2, <2>5 DEF Enter, history
  <2>6. ASSUME NEW m \in Markets, Heartbeat(m)
        PROVE  [Licence!Step]_(Licence!seen)
    BY <2>2, <2>6 DEF Heartbeat
  <2>7. CASE AppendEvents
    BY <2>2, <2>7 DEF AppendEvents, history
  <2>8. CASE StoreFails
    BY <2>2, <2>8 DEF StoreFails
  <2>9. CASE UNCHANGED vars
    BY <2>2, <2>9 DEF vars
  <2>10. CASE Crash
    BY <2>10, CrashKeepsLicence
  <2>11. CASE \E m \in Markets : \/ ReleaseKillSwitch(m) \/ MarkMarketError(m)
                                \/ RequestReconciliation(m) \/ CompleteReconciliation(m)
    BY <2>11, ReplaceKeepsLicence
  <2>12. CASE \E m \in Markets : Hop(m) \/ Leave(m)
    BY <2>12, HopKeepsLicence, LeaveKeepsLicence
  <2>. QED
    BY <2>1, <2>3, <2>4, <2>5, <2>6, <2>7, <2>8, <2>9, <2>10, <2>11, <2>12
       DEF Next, MarketStep, Command, EngageKillSwitch, CommandAll
<1>. QED BY <1>2, <1>3

\* The orchestrator, with all its handlers, stores, crashes and recoveries, keeps
\* the licence: what the operator sees of it is a behaviour of TradingLicence.
THEOREM OrchestratorKeepsLicence == Spec => KeepsLicence
<1>1. Init => Licence!Init
  <2>1. SUFFICES ASSUME Init PROVE Licence!Init
    OBVIOUS
  <2>2. lasting \in BOOLEAN /\ serving = FALSE /\ acked = {}
    BY <2>1 DEF Init
  <2>. QED BY <2>2 DEF Licence!Init, Licence!AllOff
<1>2. Init => KillSafety /\ AckedKillHolds /\ RecoverInv /\ FreshInv
  BY DEF Init, KillSafety, AckedKillHolds, RecoverInv, FreshInv, NewSnapshots, NewMarket
<1>3. TypeOK /\ InFlight /\ KillSafety /\ AckedKillHolds /\ RecoverInv /\ FreshInv /\ TypeOK' /\ [Next]_vars
        => [Licence!Next]_(Licence!vars)
  <2>1. [Next]_vars => lasting' = lasting
    BY DEF Next, vars
  <2>. QED  BY <2>1, LicenceStep DEF LicenceInv, Licence!Next, Licence!vars
<1>. QED
  BY <1>1, <1>2, <1>3, TypeCorrect, InFlightInit, TypeStep, InFlightStep, KillSafetyStep,
     AckedStep, RecoverStep, FreshStep, PTL DEF Spec, KeepsLicence, Licence!Spec

-----------------------------------------------------------------------------
(* What a health report can be relied upon for.                            *)


\* A market that is reported ready is connected and not on its way to another
\* state, no kill switch is engaged and no account sync outstanding, and all
\* that was known of it was known within the limits when it was judged
\* (_evaluate_market: ready is what no other return was taken for).
THEOREM ReadyMeansTradable ==
  ASSUME NEW seen \in Seen, NEW w \in Worker, NEW now \in Nat,
         NEW health \in [status : BrokerStatus, at : Time],
         Judge(seen, w, health, now) = "healthy"
  PROVE  /\ seen.snap.state \in {"IDLE", "ARMED", "RUNNING"}
         /\ ~seen.snap.kill /\ ~seen.snap.pending
         /\ w.there /\ health.status = "healthy"
         /\ w.validated # Never /\ w.checked # Never /\ w.reconciled # Never
         /\ now - w.checked <= MaxCheckAge /\ now - w.reconciled <= MaxReconciliationAge
  <1>1. seen.snap.state # "ERROR" /\ ~(w.there /\ health.status = "unhealthy")
    BY DEF Judge
  <1>2. Reasons(seen, w, health, now) = {}
    BY <1>1 DEF Judge
  <1>3. /\ "not connected" \notin SnapshotReasons(seen, now)
        /\ "on its way" \notin SnapshotReasons(seen, now)
        /\ "safety stop" \notin SnapshotReasons(seen, now)
        /\ "sync pending" \notin SnapshotReasons(seen, now)
        /\ "no worker" \notin WorkerReasons(w, now)
        /\ "setup unchecked" \notin WorkerReasons(w, now)
        /\ "connection unchecked" \notin WorkerReasons(w, now)
        /\ "account unsynced" \notin WorkerReasons(w, now)
    BY <1>2 DEF Reasons
  <1>4. seen.snap \in Snapshot
    BY DEF Seen
  <1>5. /\ seen.snap.state \in {"IDLE", "ARMED", "RUNNING"}
        /\ ~seen.snap.kill /\ ~seen.snap.pending
    BY <1>1, <1>3, <1>4 DEF SnapshotReasons, Snapshot, State, Transient
  <1>6. w.there
    BY <1>3 DEF WorkerReasons
  <1>7. /\ ~Missing(w.validated, now, MaxValidationAge)
        /\ ~Missing(w.checked, now, MaxCheckAge)
        /\ ~Missing(w.reconciled, now, MaxReconciliationAge)
    BY <1>3, <1>6 DEF WorkerReasons
  <1>8. w.checked \in Int /\ w.reconciled \in Int
    BY DEF Worker, Time, Never
  <1>9. /\ w.validated # Never /\ w.checked # Never /\ w.reconciled # Never
        /\ now - w.checked <= MaxCheckAge /\ now - w.reconciled <= MaxReconciliationAge
    BY <1>7, <1>8 DEF Missing, IsStale, MaxCheckAge, MaxReconciliationAge
  <1>10. health.status = "healthy"
    <2>1. "broker limited" \notin BrokerReasons(health, now)
      BY <1>2, <1>6 DEF Reasons
    <2>2. health.status # "degraded"
      BY <2>1 DEF BrokerReasons
    <2>. QED  BY <1>1, <1>6, <2>2 DEF BrokerStatus
  <1>. QED  BY <1>5, <1>6, <1>9, <1>10

\* Waiting makes no market ready: what is ready at some later moment, nothing
\* having happened, was ready before (_is_stale).
THEOREM WaitingNeverHelps ==
  ASSUME NEW seen \in Seen, NEW w \in Worker, NEW now \in Nat, NEW delay \in Nat,
         NEW health \in [status : BrokerStatus, at : Time],
         Judge(seen, w, health, now + delay) = "healthy"
  PROVE  Judge(seen, w, health, now) = "healthy"
  <1>1. ~(seen.snap.state = "ERROR" \/ (w.there /\ health.status = "unhealthy"))
    BY DEF Judge
  <1>2. Reasons(seen, w, health, now + delay) = {}
    BY <1>1 DEF Judge
  <1>3. \A at \in Time, age \in Nat : IsStale(at, now, age) => IsStale(at, now + delay, age)
    BY DEF IsStale, Time, Never
  <1>4. \A at \in Time, age \in Nat : Missing(at, now, age) => Missing(at, now + delay, age)
    BY <1>3 DEF Missing
  <1>5. /\ seen.updated \in Time /\ health.at \in Time
        /\ w.validated \in Time /\ w.checked \in Time /\ w.reconciled \in Time
    BY DEF Seen, Worker, Time
  <1>6. /\ MaxSnapshotAge \in Nat /\ MaxValidationAge \in Nat /\ MaxCheckAge \in Nat
        /\ MaxReconciliationAge \in Nat /\ MaxBrokerAge \in Nat
    BY DEF MaxSnapshotAge, MaxValidationAge, MaxCheckAge, MaxReconciliationAge, MaxBrokerAge
  <1>7. SnapshotReasons(seen, now) \subseteq SnapshotReasons(seen, now + delay)
    BY <1>3, <1>5, <1>6 DEF SnapshotReasons
  <1>8. WorkerReasons(w, now) \subseteq WorkerReasons(w, now + delay)
    BY <1>4, <1>5, <1>6 DEF WorkerReasons
  <1>9. BrokerReasons(health, now) \subseteq BrokerReasons(health, now + delay)
    BY <1>3, <1>5, <1>6 DEF BrokerReasons
  <1>10. Reasons(seen, w, health, now) = {}
    BY <1>2, <1>7, <1>8, <1>9 DEF Reasons
  <1>. QED  BY <1>1, <1>10 DEF Judge

\* An answer given at most MaxCheckAge ago is no reason to complain.
LEMMA FreshAnswersPass ==
  ASSUME NEW w, NEW health, NEW now,
         w.checked # Never, ~IsStale(w.checked, now, MaxCheckAge),
         ~IsStale(health.at, now, MaxBrokerAge)
  PROVE  /\ "connection unchecked" \notin WorkerReasons(w, now)
         /\ "broker old" \notin BrokerReasons(health, now)
  <1>1. ~Missing(w.checked, now, MaxCheckAge)
    BY DEF Missing
  <1>2. "connection unchecked" \notin WorkerReasons(w, now)
    BY <1>1 DEF WorkerReasons
  <1>3. "broker old" \notin BrokerReasons(health, now)
    BY DEF BrokerReasons
  <1>. QED  BY <1>2, <1>3

\* A report asks for the health of a market before it judges it, so the market
\* is never degraded for a check that is too old, as long as the age an answer
\* may have (ttl) and the time the other markets' brokers take (delay) leave
\* room (_collect_health_report; the probe asks with 15 seconds, the API with
\* 60, which leaves no time at all).
THEOREM ChecksAreFresh ==
  ASSUME NEW w \in Worker, NEW now \in Nat, NEW ttl \in Nat, NEW delay \in Nat,
         NEW answer \in BrokerStatus \cup {"raises"},
         ttl + delay <= MaxCheckAge,
         w.there, w.checked # Never => w.checked <= now,
         Told(w, now, ttl, answer).status # "unhealthy"
  PROVE  LET after == AfterCheck(w, now, ttl, answer)
             health == Told(w, now, ttl, answer)
         IN  /\ "connection unchecked" \notin WorkerReasons(after, now + delay)
             /\ "broker old" \notin BrokerReasons(health, now + delay)
  <1>1. CASE Cached(w, now, ttl)
    <2>1. AfterCheck(w, now, ttl, answer) = w
      BY <1>1 DEF AfterCheck, HealthCheck
    <2>2. Told(w, now, ttl, answer).at = w.checked
      BY <1>1 DEF Told, HealthCheck
    <2>3. w.checked \in Nat /\ now - w.checked <= ttl
      BY <1>1 DEF Cached, Worker, Time, Never
    <2>4. /\ ~IsStale(w.checked, now + delay, MaxCheckAge)
          /\ ~IsStale(w.checked, now + delay, MaxBrokerAge)
      BY <2>3 DEF IsStale, MaxCheckAge, MaxBrokerAge
    <2>5. w.checked # Never
      BY <1>1 DEF Cached
    <2>. QED  BY <2>1, <2>2, <2>4, <2>5, FreshAnswersPass
  <1>2. CASE ~Cached(w, now, ttl) /\ answer # "raises"
    <2>1. AfterCheck(w, now, ttl, answer) = [w EXCEPT !.health = answer, !.checked = now]
      BY <1>2 DEF AfterCheck, HealthCheck
    <2>2. AfterCheck(w, now, ttl, answer).checked = now
      BY <2>1 DEF Worker
    <2>3. Told(w, now, ttl, answer).at = now
      BY <1>2, <2>1, <2>2 DEF Told, AfterCheck, HealthCheck
    <2>4. /\ ~IsStale(now, now + delay, MaxCheckAge)
          /\ ~IsStale(now, now + delay, MaxBrokerAge)
          /\ now # Never
      BY DEF IsStale, MaxCheckAge, MaxBrokerAge, Never
    <2>. QED  BY <2>2, <2>3, <2>4, FreshAnswersPass
  <1>3. CASE ~Cached(w, now, ttl) /\ answer = "raises"
    BY <1>3 DEF Told
  <1>. QED  BY <1>1, <1>2, <1>3

\* The two probes never contradict each other: whatever the markets, a system
\* that answers ready also answers healthy, and it is ready exactly when the
\* report says so of its state (RuntimeProbeService._exit_code).
THEOREM ProbesAgree ==
  ASSUME NEW judged \in SUBSET BrokerStatus
  PROVE  /\ ExitCode("readiness", judged) = 0 => ExitCode("health", judged) = 0
         /\ AllReady(judged) <=> Overall(judged) = "healthy"
  BY DEF ExitCode, AllReady, Overall, BrokerStatus
=============================================================================

---------------------------- MODULE Orchestrator ----------------------------
(***************************************************************************)
(* TradingOrchestrator: one runtime snapshot per market, changed by        *)
(* commands. A handler changes the snapshots in memory hop by hop, then    *)
(* appends its events to the event store, then saves the snapshot of every *)
(* market its events name. Scanner heartbeats save a market's snapshot at  *)
(* any moment, also between two hops. The process can be killed anywhere   *)
(* and comes back through __post_init__. What it finds then depends on its *)
(* stores: those the application builds are kept in memory and go with it  *)
(* (~lasting); the readiness check builds an orchestrator on stores that   *)
(* another one has left behind, and so would one that is given the         *)
(* PostgreSQL stores of the repository (lasting).                          *)
(*                                                                         *)
(* Commands are handled one after the other here. What happens when two    *)
(* threads are inside the orchestrator at once is module TradingSession.   *)
(***************************************************************************)
EXTENDS RuntimeStates, Naturals

CONSTANTS Markets,    \* STOCKS, CRYPTO, FOREX
          MaxFaults   \* bound: crashes and failing store calls in a behaviour

ASSUME FaultBound == MaxFaults \in Nat

VARIABLES
  lasting,   \* the stores outlive the process
  memory,    \* markets: the snapshots of the live process
  stored,    \* the snapshot store
  logged,    \* what replaying the event store says of each market
  outbox,    \* what it will say once the handler's events are appended
  phase,     \* where the process is in handle() or __post_init__
  cmd,       \* the command being handled
  todo,      \* markets the handler still has to visit
  dirty,     \* markets named by the handler's events and not saved yet
  serving,   \* the constructor has returned
  unsaved,   \* history: a failed call left the store behind memory
  unlogged,  \* history: a fault made the event log and the store disagree
  acked,     \* history: kill switches the operator was told are engaged
  faults     \* number of faults so far

vars == <<lasting, memory, stored, logged, outbox, phase, cmd, todo, dirty, serving,
          unsaved, unlogged, acked, faults>>

handler == <<phase, cmd, todo, dirty>>
stores  == <<stored, logged>>
history == <<unsaved, unlogged, acked, faults>>

Phases == {"down", "ready", "mutate", "append", "save"}

\* The part of a snapshot that the event types carry.
View(snap) == [state |-> snap.state, kill |-> snap.kill, pending |-> snap.pending]
Views == [state : State, kill : BOOLEAN, pending : BOOLEAN]

TypeOK ==
  /\ lasting \in BOOLEAN
  /\ memory \in [Markets -> Snapshot]
  /\ stored \in [Markets -> Snapshot]
  /\ logged \in [Markets -> Views]
  /\ outbox \in [Markets -> Views]
  /\ phase \in Phases
  /\ cmd \in DOMAIN Route \cup {"none", "write"}
  /\ todo \subseteq Markets
  /\ dirty \subseteq Markets
  /\ serving \in BOOLEAN
  /\ unsaved \subseteq Markets
  /\ unlogged \subseteq Markets
  /\ acked \subseteq Markets
  /\ faults \in Nat

\* A snapshot store and an event log without entries: __post_init__ takes a
\* market that is not stored for new.
NewSnapshots == [m \in Markets |-> NewMarket]
NewLog == [m \in Markets |-> View(NewMarket)]

Init ==
  /\ lasting \in BOOLEAN
  /\ memory = NewSnapshots
  /\ stored = NewSnapshots
  /\ logged = NewLog
  /\ outbox = logged
  /\ phase = "down" /\ cmd = "none" /\ todo = {} /\ dirty = {}
  /\ serving = FALSE
  /\ unsaved = {} /\ unlogged = {} /\ acked = {} /\ faults = 0

-----------------------------------------------------------------------------
(* Handlers *)

\* handle(command) is entered for the markets in ms.
Enter(c, ms) ==
  /\ phase = "ready"
  /\ phase' = "mutate" /\ cmd' = c /\ todo' = ms
  /\ UNCHANGED <<memory, stored, logged, outbox, dirty, serving, history>>

\* Connect, Disconnect, Arm, Disarm, Start, Stop. A command whose market cannot
\* make the first hop, or may not trade, raises and changes nothing.
Command(c, m) ==
  /\ Hops(c, memory[m].state) # {}
  /\ Permitted(c, memory[m])
  /\ Enter(c, {m})

EngageKillSwitch(m) == ~memory[m].kill /\ Enter("EngageKillSwitch", {m})

CommandAll(c) == Enter(c, Markets)

\* One _transition of the running handler.
Hop(m) ==
  /\ phase = "mutate" /\ m \in todo
  /\ \E t \in Hops(cmd, memory[m].state) :
       /\ memory' = [memory EXCEPT ![m] = Moved(@, cmd, t)]
       /\ outbox' = [outbox EXCEPT ![m].state = t]
  /\ dirty' = dirty \cup {m}
  /\ UNCHANGED <<stores, phase, cmd, todo, serving, history>>

\* Broken variant: the kill switch is set but its event is not reported.
LeaveUnreported(m) ==
  /\ phase = "mutate" /\ m \in todo
  /\ Hops(cmd, memory[m].state) = {}
  /\ todo' = todo \ {m}
  /\ memory' = IF cmd = "EngageKillSwitch" THEN [memory EXCEPT ![m].kill = TRUE] ELSE memory
  /\ UNCHANGED <<outbox, dirty, stores, phase, cmd, serving, history>>

\* The handler is done with a market: EngageKillSwitch now sets the switch.
Leave(m) ==
  /\ phase = "mutate" /\ m \in todo
  /\ Hops(cmd, memory[m].state) = {}
  /\ todo' = todo \ {m}
  /\ IF cmd = "EngageKillSwitch"
       THEN /\ memory' = [memory EXCEPT ![m].kill = TRUE]
            /\ outbox' = [outbox EXCEPT ![m].state = memory[m].state, ![m].kill = TRUE]
            /\ dirty' = dirty \cup {m}
       ELSE UNCHANGED <<memory, outbox, dirty>>
  /\ UNCHANGED <<stores, phase, cmd, serving, history>>

\* The handlers that replace one snapshot and emit one event.
Replace(m, new, view) ==
  /\ phase = "ready"
  /\ memory' = [memory EXCEPT ![m] = new]
  /\ outbox' = [outbox EXCEPT ![m] = view]
  /\ dirty' = {m}
  /\ phase' = "append" /\ cmd' = "write"
  /\ UNCHANGED <<stores, todo, serving, unsaved, unlogged, faults>>

ReleaseKillSwitch(m) ==
  /\ memory[m].kill
  /\ Replace(m, [memory[m] EXCEPT !.kill = FALSE], [outbox[m] EXCEPT !.kill = FALSE])
  /\ acked' = acked \ {m}

\* Broken variant: the error is set without an event.
MarkMarketErrorSilently(m) ==
  /\ Replace(m, [memory[m] EXCEPT !.state = "ERROR", !.error = TRUE], outbox[m])
  /\ UNCHANGED acked

MarkMarketError(m) ==
  /\ Replace(m, [memory[m] EXCEPT !.state = "ERROR", !.error = TRUE],
                [outbox[m] EXCEPT !.state = "ERROR"])
  /\ UNCHANGED acked

RequestReconciliation(m) ==
  /\ memory[m].state \notin {"DISCONNECTED", "CONNECTING"}
  /\ ~memory[m].pending
  /\ Replace(m, [memory[m] EXCEPT !.pending = TRUE], [outbox[m] EXCEPT !.pending = TRUE])
  /\ UNCHANGED acked

CompleteReconciliation(m) ==
  /\ memory[m].pending
  /\ Replace(m, [memory[m] EXCEPT !.pending = FALSE], [outbox[m] EXCEPT !.pending = FALSE])
  /\ UNCHANGED acked

-----------------------------------------------------------------------------
(* Persistence at the end of a handler *)

\* handle() returns; after the recovery of __post_init__ the process serves.
Return(served) ==
  /\ phase' = "ready" /\ cmd' = "none" /\ serving' = served

\* All markets visited. Without events there is nothing to persist.
EndHandler ==
  /\ phase = "mutate" /\ todo = {}
  /\ IF dirty = {} THEN Return(TRUE)
                   ELSE phase' = "append" /\ UNCHANGED <<cmd, serving>>
  /\ UNCHANGED <<memory, stores, outbox, todo, dirty, history>>

AppendEvents ==
  /\ phase = "append"
  /\ logged' = outbox
  /\ phase' = "save"
  /\ UNCHANGED <<memory, stored, outbox, cmd, todo, dirty, serving, history>>

\* Broken variant: the stored row has no last_error column.
SaveWithoutError(m) ==
  /\ phase = "save" /\ m \in dirty
  /\ stored' = [stored EXCEPT ![m] = View(memory[m])]
  /\ dirty' = dirty \ {m}
  /\ UNCHANGED <<memory, logged, outbox, todo, phase, cmd, serving, history>>

\* _persist_markets_for; with the last snapshot saved the caller gets its answer.
SaveSnapshot(m) ==
  /\ phase = "save" /\ m \in dirty
  /\ stored' = [stored EXCEPT ![m] = memory[m]]
  /\ dirty' = dirty \ {m}
  /\ unsaved' = unsaved \ {m}
  /\ IF dirty' = {}
       THEN /\ Return(TRUE)
            /\ acked' = IF cmd = "EngageKillSwitch" THEN acked \cup {m} ELSE acked
       ELSE UNCHANGED <<phase, cmd, serving, acked>>
  /\ UNCHANGED <<memory, logged, outbox, todo, unlogged, faults>>

\* heartbeat: a scan or a portfolio sync saves the snapshot as it finds it.
Heartbeat(m) ==
  /\ serving
  /\ stored' = [stored EXCEPT ![m] = memory[m]]
  /\ unsaved' = unsaved \ {m}
  /\ UNCHANGED <<memory, logged, outbox, handler, serving, unlogged, acked, faults>>

-----------------------------------------------------------------------------
(* Faults *)

\* A store call raises: handle() raises with memory already changed; the
\* constructor raises and there is no process.
StoreFails ==
  /\ phase \in {"append", "save"} /\ faults < MaxFaults
  /\ phase' = IF serving THEN "ready" ELSE "down"
  /\ cmd' = "none" /\ dirty' = {}
  /\ unsaved' = IF serving THEN unsaved \cup dirty ELSE {}
  /\ unlogged' = unlogged \cup (IF phase = "append" /\ ~serving THEN {} ELSE dirty)
  /\ outbox' = logged
  /\ faults' = faults + 1
  /\ UNCHANGED <<memory, stores, todo, serving, acked>>

\* What the process leaves behind. In lasting stores, the markets it was
\* changing, or had failed to save, are the ones whose log and snapshot may now
\* disagree. Other stores are gone, with every kill switch that was confirmed.
LeaveBehind ==
  IF lasting
    THEN /\ unlogged' = unlogged \cup dirty \cup unsaved
         /\ UNCHANGED <<stores, acked>>
    ELSE /\ stored' = NewSnapshots /\ logged' = NewLog
         /\ unlogged' = {} /\ acked' = {}

Crash ==
  /\ phase # "down" /\ faults < MaxFaults
  /\ phase' = "down" /\ cmd' = "none" /\ todo' = {} /\ dirty' = {}
  /\ LeaveBehind
  /\ outbox' = logged'
  /\ serving' = FALSE
  /\ unsaved' = {}
  /\ faults' = faults + 1
  /\ UNCHANGED memory

\* Broken variants: starting without recovery, and from new snapshots.
RestartAsStored ==
  /\ phase = "down"
  /\ memory' = stored
  /\ phase' = "ready" /\ serving' = TRUE
  /\ UNCHANGED <<stores, outbox, cmd, todo, dirty, history>>

RestartAfresh ==
  /\ phase = "down"
  /\ memory' = NewSnapshots /\ stored' = memory'
  /\ phase' = "ready" /\ serving' = TRUE
  /\ UNCHANGED <<logged, outbox, cmd, todo, dirty, history>>

\* __post_init__: load the stored snapshots, then recover.
Restart ==
  /\ phase = "down"
  /\ memory' = stored
  /\ phase' = "mutate" /\ cmd' = "RecoverRuntime" /\ todo' = Markets
  /\ UNCHANGED <<stores, outbox, dirty, serving, history>>

-----------------------------------------------------------------------------
MarketStep(m) ==
  \/ \E c \in MoveCommands : Command(c, m)
  \/ EngageKillSwitch(m)
  \/ ReleaseKillSwitch(m)
  \/ MarkMarketError(m)
  \/ RequestReconciliation(m)
  \/ CompleteReconciliation(m)
  \/ Hop(m)
  \/ Leave(m)
  \/ SaveSnapshot(m)
  \/ Heartbeat(m)

Next ==
  /\ \/ \E m \in Markets : MarketStep(m)
     \/ \E c \in GlobalCommands : CommandAll(c)
     \/ EndHandler
     \/ AppendEvents
     \/ StoreFails
     \/ Crash
     \/ Restart
  /\ UNCHANGED lasting

Spec == Init /\ [][Next]_vars

-----------------------------------------------------------------------------
(* Properties *)

\* A market whose kill switch is engaged is neither armed nor running, nor on
\* its way there: _engage_kill_switch leaves those states before it sets the
\* switch and _ensure_market_not_killed keeps the market from going back, in
\* memory and in whatever snapshot a handler or a heartbeat has saved.
Unarmed == {"DISCONNECTED", "CONNECTING", "IDLE", "ERROR"}

KillSafety ==
  \A m \in Markets :
    /\ memory[m].kill => memory[m].state \in Unarmed
    /\ stored[m].kill => stored[m].state \in Unarmed

\* A market that is connected shows no last_error: an error survives only in
\* ERROR and in the DISCONNECTED that a shutdown leaves behind.
ErrorsAreCleared ==
  \A m \in Markets :
    /\ memory[m].error => memory[m].state \in {"ERROR", "DISCONNECTED"}
    /\ stored[m].error => stored[m].state \in {"ERROR", "DISCONNECTED"}

\* A kill switch that EngageKillSwitch reported as engaged stays engaged, live
\* and in the snapshot store, through every command, error, shutdown and failed
\* store call, until it is released: with lasting stores through restarts as
\* well, with those of the application until its process ends.
AckedKillHolds ==
  \A m \in acked : memory[m].kill /\ stored[m].kill

\* Outside the handler that is changing it, and unless a store call failed, a
\* market's stored snapshot is the live one, which is what the constructor of an
\* orchestrator on this store would find.
StoreIsCurrent ==
  serving => \A m \in Markets \ (dirty \cup unsaved) : stored[m] = memory[m]

\* The events tell the same story as the snapshots: every change of state, kill
\* switch or pending reconciliation is in the event log, as long as no fault
\* came between the two stores.
LogTellsTheStory ==
  \A m \in Markets \ unlogged :
    /\ serving => outbox[m] = View(memory[m])
    /\ phase = "down" => logged[m] = View(stored[m])

\* When the constructor returns, recovery has taken every market out of RUNNING
\* and out of the states a handler only passes through, whatever was stored.
RecoveredBeforeServing ==
  [][~serving /\ serving' =>
       \A m \in Markets : memory'[m].state \notin {"RUNNING"} \cup Transient]_vars

-----------------------------------------------------------------------------
(* The licence each market holds, seen from outside. Before the constructor  *)
(* returns nothing is live: every market is off and only confirmed kill      *)
(* switches are certain. A market is out of RUNNING with its first hop, so   *)
(* STOPPING counts as armed.                                                 *)

ModeOf(s) ==
  CASE s \in {"DISCONNECTED", "CONNECTING", "ERROR"} -> "off"
    [] s = "IDLE" -> "disarmed"
    [] s \in {"ARMED", "STOPPING"} -> "armed"
    [] s = "RUNNING" -> "trading"

Licence == INSTANCE TradingLicence WITH
  up      <- serving,
  mode    <- [m \in Markets |-> IF serving THEN ModeOf(memory[m].state) ELSE "off"],
  locked  <- IF serving THEN {m \in Markets : memory[m].kill} ELSE acked,
  pledged <- acked

\* Handlers, stores, faults and recovery together keep the licence: every step
\* of the orchestrator is a step of TradingLicence or changes nothing in it.
KeepsLicence == Licence!Spec
=============================================================================

--------------------------- MODULE TradingSession ---------------------------
(***************************************************************************)
(* One market, and the threads that are inside it at once: the threads of  *)
(* the API's pool, which run the operator's requests, and the scanner      *)
(* thread, which looks at the market and trades. TradingOrchestrator has   *)
(* no lock. Every change of the snapshot is a read of the whole snapshot   *)
(* followed by a write of a whole new one, and any other thread may run in *)
(* between.                                                                *)
(*                                                                         *)
(* What a thread still has to do is a sequence of operations, todo[t]. The *)
(* name of a state stands for _transition to it; the other operations are  *)
(* listed in Op. A check that only repeats a guard of the transition after *)
(* it (_connect_market, _disconnect_market) is left to that transition.    *)
(* The stores, last_error and reconciliation_pending are in Orchestrator.  *)
(***************************************************************************)
EXTENDS RuntimeStates, Sequences, Naturals

CONSTANTS Clients,      \* threads that serve API requests
          Scanner,      \* the market's scanner thread
          MaxRequests   \* bound: API requests in a behaviour

ASSUME SessionAssumption == Scanner \notin Clients /\ MaxRequests \in Nat

VARIABLES
  snap,      \* the market's snapshot in the orchestrator's memory
  todo,      \* operations each thread has left
  seen,      \* the snapshot a thread has read and not yet written back
  requests,  \* requests made so far
  late,      \* history: orders submitted since memory last said RUNNING
  killed     \* history: the operator has been told the kill switch is engaged

vars == <<snap, todo, seen, requests, late, killed>>

Threads == Clients \cup {Scanner}

Snap == [state : State, kill : BOOLEAN]

\* Operations that replace the snapshot: transitions, the two sides of the kill
\* switch, an error, leaving ERROR for good, and writing back what was read: a
\* heartbeat ("beat"; a mark that turns out not to be needed is a beat nobody
\* comes between) and asking for reconciliation ("mark").
Write == State \cup {"engage", "release", "fail", "leave", "beat", "mark"}

\* And those that do not: _ensure_market_not_killed, and for the scanner an
\* order and the wait between two scans.
Op == Write \cup {"unkilled", "order", "rest"}

-----------------------------------------------------------------------------
(* What the handlers do, from the snapshot they decide on. *)

Connecting == <<"CONNECTING", "IDLE">>
Arming     == <<"unkilled", "ARMED">>
Starting   == <<"unkilled", "RUNNING">>

Disarming(s) ==
  CASE s = "RUNNING" -> <<"STOPPING", "IDLE">>
    [] s = "ARMED"   -> <<"IDLE">>
    [] OTHER         -> <<>>

\* RuntimeApiService.start_market and stop_market read the state once and make
\* the whole list of commands from it.
StartSequence(s) ==
  CASE s = "DISCONNECTED" -> Connecting \o Arming \o Starting
    [] s = "IDLE"         -> Arming \o Starting
    [] s = "ARMED"        -> Starting
    [] OTHER              -> <<>>

StopSequence(s) ==
  CASE s = "RUNNING" -> <<"STOPPING", "ARMED", "IDLE">>
    [] s = "ARMED"   -> <<"IDLE">>
    [] OTHER         -> <<>>

ShutdownSequence(s) ==
  CASE s \in {"RUNNING", "ARMED", "IDLE"} -> Disarming(s) \o <<"DISCONNECTED">>
    [] s = "ERROR"                        -> <<"leave">>
    [] OTHER                              -> <<>>

RecoverySequence(s) ==
  CASE s = "RUNNING"    -> <<"STOPPING", "ARMED">>
    [] s = "STOPPING"   -> <<"ARMED">>
    [] s = "CONNECTING" -> <<"IDLE">>
    [] OTHER            -> <<>>

\* What a request does when it finds the market in snapshot s: the calls of
\* RuntimeApiService, then the other commands a client may send as they are.
Plan(s) ==
  [ start     |-> StartSequence(s.state),
    stop      |-> StopSequence(s.state),
    arm       |-> IF s.state = "ARMED" THEN <<>> ELSE Arming,
    disarm    |-> IF s.state = "IDLE" THEN <<>> ELSE <<"IDLE">>,
    startonly |-> Starting,
    stoponly  |-> <<"STOPPING", "ARMED">>,
    connect   |-> Connecting,
    disconnect |-> <<"DISCONNECTED">>,
    kill      |-> IF s.kill THEN <<>> ELSE Disarming(s.state) \o <<"engage">>,
    release   |-> <<"release">>,
    error     |-> <<"fail">>,
    emergency |-> Disarming(s.state),
    recover   |-> RecoverySequence(s.state),
    shutdown  |-> ShutdownSequence(s.state),
    sync      |-> <<"beat">>,
    reconcile |-> <<"mark", "beat">> ]

\* One scan, with and without leave to trade: nothing at all (an exception, or
\* a passive refresh), a heartbeat, or the whole way to an order.
Looking == {<<"rest">>, <<"beat", "rest">>}
Trading == Looking \cup {<<"beat", "order", "beat", "rest">>}

\* Broken variant: an armed market is taken for a running one.
ScanUnstarted(s) == IF s.state \in {"ARMED", "RUNNING"} THEN Trading ELSE Looking

Scan(s) == IF s.state = "RUNNING" THEN Trading ELSE Looking

\* Does a thread that has just read s go on to write w?
Accepts(w, s) ==
  /\ w \in State => <<s.state, w>> \in Allowed
  /\ w = "release" => s.kill
  /\ w = "mark" => s.state \notin {"DISCONNECTED", "CONNECTING"}

\* The snapshot it then writes. Nothing here is read again.
Written(w, s) ==
  [state |-> CASE w \in State -> w
               [] w = "fail"  -> "ERROR"
               [] w = "leave" -> "DISCONNECTED"
               [] OTHER       -> s.state,
   kill  |-> IF w \in {"engage", "release"} THEN w = "engage" ELSE s.kill]

-----------------------------------------------------------------------------
\* The process has just started: recovery has left no market moving, and a
\* market that was killed is not armed (KillSafety of Orchestrator).
Init ==
  /\ snap \in [state : {"DISCONNECTED", "IDLE", "ARMED", "ERROR"}, kill : BOOLEAN]
  /\ snap.kill => snap.state # "ARMED"
  /\ todo = [t \in Threads |-> <<>>]
  /\ seen = [t \in Threads |-> {}]
  /\ requests = 0 /\ late = 0 /\ killed = FALSE

\* A request arrives, looks at the market and decides what to do.
Call(c) ==
  /\ todo[c] = <<>> /\ requests < MaxRequests
  /\ \E r \in DOMAIN Plan(snap) :
       /\ todo' = [todo EXCEPT ![c] = Plan(snap)[r]]
       /\ killed' = (killed /\ r # "release")
  /\ requests' = requests + 1
  /\ UNCHANGED <<snap, seen, late>>

\* The scanner's loop comes round: the state is read here, and never again
\* before the order.
Look ==
  /\ todo[Scanner] = <<>>
  /\ \E p \in Scan(snap) : todo' = [todo EXCEPT ![Scanner] = p]
  /\ UNCHANGED <<snap, seen, requests, late, killed>>

Facing(t, ops) == todo[t] # <<>> /\ Head(todo[t]) \in ops

\* _ensure_market_not_killed. A request that raises drops what it had left.
Check(t) ==
  /\ Facing(t, {"unkilled"})
  /\ todo' = [todo EXCEPT ![t] = IF snap.kill THEN <<>> ELSE Tail(@)]
  /\ UNCHANGED <<snap, seen, requests, late, killed>>

Read(t) ==
  /\ Facing(t, Write) /\ seen[t] = {}
  /\ IF Accepts(Head(todo[t]), snap)
       THEN seen' = [seen EXCEPT ![t] = {snap}] /\ UNCHANGED todo
       ELSE todo' = [todo EXCEPT ![t] = <<>>] /\ UNCHANGED seen
  /\ UNCHANGED <<snap, requests, late, killed>>

WriteBack(t) ==
  /\ Facing(t, Write)
  /\ \E s \in seen[t] : snap' = Written(Head(todo[t]), s)
  /\ seen' = [seen EXCEPT ![t] = {}]
  /\ todo' = [todo EXCEPT ![t] = Tail(@)]
  /\ late' = IF snap'.state = "RUNNING" THEN 0 ELSE late
  /\ killed' = (killed \/ Head(todo[t]) = "engage")
  /\ UNCHANGED requests

\* worker.submit_order
Submit ==
  /\ Facing(Scanner, {"order"})
  /\ todo' = [todo EXCEPT ![Scanner] = Tail(@)]
  /\ late' = IF snap.state = "RUNNING" THEN 0 ELSE late + 1
  /\ UNCHANGED <<snap, seen, requests, killed>>

\* Broken variant: an exception ends the thread instead of the scan.
RaiseFatally ==
  /\ todo[Scanner] # <<>> /\ ~Facing(Scanner, {"rest"}) /\ seen[Scanner] = {}
  /\ todo' = [todo EXCEPT ![Scanner] = <<"dead">>]
  /\ UNCHANGED <<snap, seen, requests, late, killed>>

\* Anything a scan calls may raise; the loop catches it and goes on to rest.
Raise ==
  /\ todo[Scanner] # <<>> /\ ~Facing(Scanner, {"rest"}) /\ seen[Scanner] = {}
  /\ todo' = [todo EXCEPT ![Scanner] = <<"rest">>]
  /\ UNCHANGED <<snap, seen, requests, late, killed>>

Rest ==
  /\ Facing(Scanner, {"rest"})
  /\ todo' = [todo EXCEPT ![Scanner] = Tail(@)]
  /\ UNCHANGED <<snap, seen, requests, late, killed>>

Run(t) == Check(t) \/ Read(t) \/ WriteBack(t)
Loop == Look \/ Submit \/ Rest \/ Run(Scanner)

Next ==
  \/ \E c \in Clients : Call(c) \/ Run(c)
  \/ Loop
  \/ Raise

Spec == Init /\ [][Next]_vars

FairSpec == Spec /\ WF_vars(Loop) /\ \A c \in Clients : WF_vars(Run(c))
-----------------------------------------------------------------------------
(* Properties *)

\* Types: every thread holds at most one snapshot it has read, and only while
\* it is about to write it back (the locals of _transition and heartbeat).
TypeOK ==
  /\ snap \in Snap
  /\ todo \in [Threads -> Seq(Op)]
  /\ seen \in [Threads -> SUBSET Snap]
  /\ \A t \in Threads : \A s \in seen[t] : seen[t] = {s} /\ Facing(t, Write)
  /\ requests \in 0..MaxRequests
  /\ late \in Nat
  /\ killed \in BOOLEAN

\* However the threads interleave, at most one order goes out after the market
\* has left RUNNING: the one of the scan that was under way. _run_market_loop
\* reads the state again before every scan, and a scan submits once.
OneLateOrder == late <= 1

\* A market that stays out of RUNNING goes quiet: from some point on the
\* scanner is never again on its way to an order.
DisarmedGoesQuiet ==
  <>[](snap.state # "RUNNING") => <>[](\A i \in DOMAIN todo[Scanner] : todo[Scanner][i] # "order")

\* Whatever a scan raises, the scanner finishes it and begins another one, for
\* ever (the except clause of _run_market_loop).
ScanningGoesOn == []<>(todo[Scanner] = <<>>) /\ []<>(todo[Scanner] # <<>>)

\* "Cannot trade market ... while its kill switch is engaged" (_ensure_market_
\* not_killed): a market whose kill switch the operator engaged, and has not
\* released, does not run.
KilledMarketsDoNotRun == ~(killed /\ snap.state = "RUNNING")
=============================================================================

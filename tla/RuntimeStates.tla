--------------------------- MODULE RuntimeStates ---------------------------
(***************************************************************************)
(* The vocabulary of the market runtime: the states a market can be in,    *)
(* the moves between them the orchestrator allows, the snapshot it keeps   *)
(* of each market, and what each command does to a snapshot.               *)
(*                                                                         *)
(* The timestamps of a snapshot (updated_at, last_reconciled_at) and the   *)
(* text of its last_error are left out; whether there IS a last_error is   *)
(* kept, as the field error.                                               *)
(***************************************************************************)

State == {"DISCONNECTED", "CONNECTING", "IDLE", "ARMED", "RUNNING",
          "STOPPING", "ERROR"}

\* States a handler passes through on its way to where it ends.
Transient == {"CONNECTING", "STOPPING"}

Snapshot == [state : State, kill : BOOLEAN, pending : BOOLEAN, error : BOOLEAN]

NewMarket == [state |-> "DISCONNECTED", kill |-> FALSE, pending |-> FALSE,
              error |-> FALSE]

\* allowed_transitions of _validate_transition, as a relation.
Allowed ==
  UNION { {"DISCONNECTED"} \X {"CONNECTING"},
          {"CONNECTING"}   \X {"IDLE", "ERROR"},
          {"IDLE"}         \X {"ARMED", "DISCONNECTED", "ERROR"},
          {"ARMED"}        \X {"RUNNING", "IDLE", "DISCONNECTED", "ERROR"},
          {"RUNNING"}      \X {"STOPPING", "ERROR"},
          {"STOPPING"}     \X {"ARMED", "IDLE", "ERROR"},
          {"ERROR"}        \X {"CONNECTING", "DISCONNECTED"} }

(***************************************************************************)
(* The hops each command makes: Route[c] relates a state to the one the    *)
(* handler of c moves the market to next. The handler stops at a state     *)
(* with no hop. Every hop is a call of _transition, which also needs it to *)
(* be Allowed.                                                             *)
(***************************************************************************)
ToIdle == {<<"RUNNING", "STOPPING">>, <<"STOPPING", "IDLE">>, <<"ARMED", "IDLE">>}

Route ==
  [ Connect    |-> {<<"DISCONNECTED", "CONNECTING">>, <<"ERROR", "CONNECTING">>,
                    <<"CONNECTING", "IDLE">>},
    Disconnect |-> {"IDLE", "ARMED", "ERROR"} \X {"DISCONNECTED"},
    Arm        |-> State \X {"ARMED"},
    Disarm     |-> State \X {"IDLE"},
    Start      |-> State \X {"RUNNING"},
    Stop       |-> {<<"RUNNING", "STOPPING">>, <<"STOPPING", "ARMED">>},
    EngageKillSwitch    |-> ToIdle,
    EmergencyDisarmAll  |-> ToIdle,
    RecoverRuntime      |-> {<<"RUNNING", "STOPPING">>, <<"STOPPING", "ARMED">>,
                             <<"CONNECTING", "IDLE">>},
    GracefulShutdownAll |-> ToIdle \cup {"IDLE", "ERROR"} \X {"DISCONNECTED"} ]

\* Commands for one market that must be able to make their first hop.
MoveCommands == {"Connect", "Disconnect", "Arm", "Disarm", "Start", "Stop"}

\* Commands for every market; a market they have no hop for is left alone.
GlobalCommands == {"EmergencyDisarmAll", "RecoverRuntime", "GracefulShutdownAll"}

\* Broken variant, to show what catches it: a recovery that overlooks markets
\* stored while they were stopping.
HopsOverlookingStopping(c, s) ==
  {t \in State : /\ <<s, t>> \in Route[c] \cap Allowed
                 /\ ~(c = "RecoverRuntime" /\ s = "STOPPING" /\ t = "ARMED")}

Hops(c, s) == {t \in State : <<s, t>> \in Route[c] \cap Allowed}

\* Broken variant: a transition that forgets to clear last_error.
MovedKeepingError(snap, c, t) == [snap EXCEPT !.state = t]

\* _transition: the new state, no error any more. A shutdown leaves ERROR by
\* _disconnect_from_error, which keeps last_error.
Moved(snap, c, t) ==
  [snap EXCEPT !.state = t,
               !.error = @ /\ c = "GracefulShutdownAll" /\ snap.state = "ERROR"]

\* Broken variant: only starting is guarded.
PermittedToArm(c, snap) == c = "Start" => ~snap.kill

\* _ensure_market_not_killed guards these two.
Permitted(c, snap) == c \in {"Arm", "Start"} => ~snap.kill
=============================================================================

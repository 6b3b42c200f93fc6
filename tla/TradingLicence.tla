--------------------------- MODULE TradingLicence ---------------------------
(***************************************************************************)
(* What the orchestrator promises the operator, without handlers, stores   *)
(* or events: each market has a mode, which says how far it is from        *)
(* trading, and a lock, its kill switch. A market trades only after it was *)
(* armed, is armed only while it is not locked, and is locked only once it *)
(* is disarmed. A lock that was confirmed (pledged) lasts until it is      *)
(* taken off; with lasting stores that means through any number of         *)
(* restarts, and no restart ends in trading. Without them every market is  *)
(* off and unlocked after a restart, and trades no sooner than it was      *)
(* enabled, armed and started again.                                       *)
(***************************************************************************)
CONSTANT Markets

VARIABLES lasting, up, mode, locked, pledged

seen == <<up, mode, locked, pledged>>
vars == <<lasting, seen>>

Modes == {"off", "disarmed", "armed", "trading"}

TypeOK ==
  /\ lasting \in BOOLEAN
  /\ up \in BOOLEAN
  /\ mode \in [Markets -> Modes]
  /\ locked \subseteq Markets
  /\ pledged \subseteq Markets

AllOff == [m \in Markets |-> "off"]

Init ==
  /\ lasting \in BOOLEAN
  /\ up = FALSE /\ mode = AllOff /\ locked = {} /\ pledged = {}

Shift(m, from, to) ==
  /\ up /\ mode[m] \in from
  /\ mode' = [mode EXCEPT ![m] = to]
  /\ UNCHANGED <<up, locked, pledged>>

Enable(m) == Shift(m, {"off"}, "disarmed")
Arm(m)    == m \notin locked /\ Shift(m, {"disarmed"}, "armed")
Trade(m)  == m \notin locked /\ Shift(m, {"armed"}, "trading")
Halt(m)   == Shift(m, {"trading"}, "armed")
Disarm(m) == Shift(m, {"armed"}, "disarmed")
TurnOff(m) == Shift(m, Modes, "off")

Lock(m) ==
  /\ up /\ mode[m] \in {"off", "disarmed"}
  /\ locked' = locked \cup {m}
  /\ UNCHANGED <<up, mode, pledged>>

Pledge(m) ==
  /\ up /\ m \in locked
  /\ pledged' = pledged \cup {m}
  /\ UNCHANGED <<up, mode, locked>>

Unlock(m) ==
  /\ up
  /\ locked' = locked \ {m}
  /\ pledged' = pledged \ {m}
  /\ UNCHANGED <<up, mode>>

\* The process dies: nothing trades, and of the locks only confirmed ones that
\* outlive it are certain.
Fail ==
  /\ up /\ up' = FALSE
  /\ mode' = AllOff
  /\ pledged' = IF lasting THEN pledged ELSE {}
  /\ locked' = pledged'

\* The process serves again, from what outlived it.
Boot ==
  /\ ~up /\ up' = TRUE
  /\ mode' \in [Markets -> Modes \ {"trading"}]
  /\ locked' \in SUBSET Markets
  /\ pledged \subseteq locked'
  /\ \A m \in locked' : mode'[m] \in {"off", "disarmed"}
  /\ ~lasting => mode' = AllOff /\ locked' = {}
  /\ UNCHANGED pledged

Step ==
  \/ \E m \in Markets :
       \/ Enable(m) \/ Arm(m) \/ Trade(m) \/ Halt(m) \/ Disarm(m) \/ TurnOff(m)
       \/ Lock(m) \/ Pledge(m) \/ Unlock(m)
  \/ Fail
  \/ Boot

Next == Step /\ UNCHANGED lasting

Spec == Init /\ [][Next]_vars
=============================================================================

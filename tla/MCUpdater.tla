------------------------------ MODULE MCUpdater ------------------------------
(* Small instances of Updater for TLC: two updaters under systemd, one where *)
(* the updater itself restarts the dashboard.                               *)
EXTENDS Updater

BothModes == BOOLEAN
TwoUpdaters == 1..2
UpTo == [mode \in BOOLEAN |-> IF mode THEN 2 ELSE 1]
=============================================================================

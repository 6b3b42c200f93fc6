--------------------------- MODULE MCOrchestrator ---------------------------
(* A small instance of Orchestrator for TLC. *)
EXTENDS Orchestrator

\* A market can be ready, and the limit of ChecksAreFresh is tight: the API asks
\* with a ttl of 60 seconds, and one more second makes the answer too old.
Health == INSTANCE RuntimeHealth

Ready == [snap |-> [NewMarket EXCEPT !.state = "IDLE"], updated |-> 60]
Checked(at) == [there |-> TRUE, validated |-> 60, checked |-> at, reconciled |-> 60, health |-> "healthy"]
JudgedAfter(delay, ttl) ==
  Health!Judge(Ready, Health!AfterCheck(Checked(0), 60, ttl, "healthy"),
               Health!Told(Checked(0), 60, ttl, "healthy"), 60 + delay)

ASSUME ReportsAreInTime ==
  /\ JudgedAfter(0, 60) = "healthy" /\ JudgedAfter(1, 60) = "degraded"
  /\ JudgedAfter(45, 15) = "healthy"
=============================================================================

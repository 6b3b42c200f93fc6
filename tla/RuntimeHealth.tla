---------------------------- MODULE RuntimeHealth ----------------------------
(***************************************************************************)
(* What the health and readiness reports say of a market: MarketWorker's   *)
(* record of when it was last checked, RuntimeHealthEvaluator's judgement  *)
(* and the exit codes of the probe. Times are in seconds.                  *)
(***************************************************************************)
EXTENDS RuntimeStates, Integers

Never == -1
Time == Nat \cup {Never}

BrokerStatus == {"healthy", "degraded", "unhealthy"}

\* there: the market has a worker; the API rebuilds them one by one.
Worker == [there : BOOLEAN, validated : Time, checked : Time, reconciled : Time,
           health : BrokerStatus]

Seen == [snap : Snapshot, updated : Nat]

\* RuntimeCadencePolicy.
MaxSnapshotAge == 60
MaxValidationAge == 300
MaxCheckAge == 60
MaxReconciliationAge == 60
MaxBrokerAge == 60

-----------------------------------------------------------------------------
(* The worker.                                                             *)

Validate(w, now) == [w EXCEPT !.validated = now]

ReconcilePortfolio(w, now) == [w EXCEPT !.reconciled = now]

Cached(w, now, ttl) == w.checked # Never /\ now - w.checked <= ttl

\* health_check asks the broker unless it did lately.
HealthCheck(w, now, ttl, answer) ==
    IF Cached(w, now, ttl) THEN w ELSE [w EXCEPT !.health = answer, !.checked = now]

\* get_market_health: what the report is told. A broker that raises is
\* unhealthy, and the worker keeps its last answer.
Told(w, now, ttl, answer) ==
    IF answer = "raises" /\ ~Cached(w, now, ttl)
    THEN [status |-> "unhealthy", at |-> now]
    ELSE LET asked == HealthCheck(w, now, ttl, answer)
         IN  [status |-> asked.health, at |-> asked.checked]

AfterCheck(w, now, ttl, answer) ==
    IF answer = "raises" THEN w ELSE HealthCheck(w, now, ttl, answer)

-----------------------------------------------------------------------------
(* The judgement.                                                          *)

IsStale(at, now, age) == now - at > age

\* A fact that has never been established is as bad as one that is out of date.
Missing(at, now, age) == at = Never \/ IsStale(at, now, age)

\* The reasons a market is degraded for.
SnapshotReasons(seen, now) ==
    {r \in {"not connected", "on its way", "safety stop", "sync pending", "status old"} :
       \/ r = "not connected" /\ seen.snap.state = "DISCONNECTED"
       \/ r = "on its way"    /\ seen.snap.state \in Transient
       \/ r = "safety stop"   /\ seen.snap.kill
       \/ r = "sync pending"  /\ seen.snap.pending
       \/ r = "status old"    /\ IsStale(seen.updated, now, MaxSnapshotAge)}

WorkerReasons(w, now) ==
    {r \in {"no worker", "setup unchecked", "connection unchecked", "account unsynced"} :
       \/ r = "no worker" /\ ~w.there
       \/ r = "setup unchecked"      /\ w.there /\ Missing(w.validated, now, MaxValidationAge)
       \/ r = "connection unchecked" /\ w.there /\ Missing(w.checked, now, MaxCheckAge)
       \/ r = "account unsynced"     /\ w.there /\ Missing(w.reconciled, now, MaxReconciliationAge)}

BrokerReasons(health, now) ==
    {r \in {"broker limited", "broker old"} :
       \/ r = "broker limited" /\ health.status = "degraded"
       \/ r = "broker old"     /\ IsStale(health.at, now, MaxBrokerAge)}

Reasons(seen, w, health, now) ==
    SnapshotReasons(seen, now) \cup WorkerReasons(w, now)
        \cup (IF w.there THEN BrokerReasons(health, now) ELSE {})

\* _evaluate_market. health is there when the worker is.
Judge(seen, w, health, now) ==
    IF \/ seen.snap.state = "ERROR"
       \/ w.there /\ health.status = "unhealthy"
    THEN "unhealthy"
    ELSE IF Reasons(seen, w, health, now) # {} THEN "degraded" ELSE "healthy"

\* evaluate: the worst of the markets, and whether all are ready.
Overall(judged) ==
    IF "unhealthy" \in judged THEN "unhealthy"
    ELSE IF "degraded" \in judged THEN "degraded" ELSE "healthy"

AllReady(judged) == \A j \in judged : j = "healthy"

ExitCode(mode, judged) ==
    IF mode = "health" THEN IF Overall(judged) = "unhealthy" THEN 1 ELSE 0
    ELSE IF AllReady(judged) THEN 0 ELSE 1
=============================================================================

--------------------------- MODULE ScannerLearning ---------------------------
(***************************************************************************)
(* ScannerLearningState: what the scanner remembers of its closed trades   *)
(* and of its orders, and how far that moves the score of a candidate.     *)
(* Ratios and scores are in ten-thousandths; quotients are rounded down.   *)
(***************************************************************************)
EXTENDS Integers

One == 10000

None == "none"

\* The larger and the smaller of two numbers.
Larger(a, b) == IF a < b THEN b ELSE a
Smaller(a, b) == IF a < b THEN a ELSE b
Clamp(x, bound) == Larger(-bound, Smaller(bound, x))

\* How it went for one symbol, one strategy or one regime.
NoOutcome == [closed |-> 0, wins |-> 0, returns |-> 0]
NoExecution == [attempts |-> 0, refused |-> 0, slippage |-> 0, priced |-> 0]

Outcome == [closed : Nat, wins : Nat, returns : Int]
Execution == [attempts : Nat, refused : Nat, slippage : Nat, priced : Nat]

\* What is kept under a key.
At(store, key, nothing) == IF key \in DOMAIN store THEN store[key] ELSE nothing

Put(store, keys, nothing, Update(_)) ==
    [k \in DOMAIN store \cup keys |->
       IF k \in keys THEN Update(At(store, k, nothing)) ELSE store[k]]

SymbolKey(symbol, strategy) == <<"symbol", symbol, strategy>>
StrategyKey(strategy) == <<"strategy", strategy>>
RegimeKey(strategy, regime) == <<"regime", strategy, regime>>

\* The memory of one market; it begins empty with every start of the program.
Forgotten == [outcomes |-> <<>>, executions |-> <<>>, known |-> {}]

-----------------------------------------------------------------------------
(* Learning.                                                               *)

\* _update_outcome_stats with the return ratio of a trade.
Seen(stats, ratio) ==
    [closed  |-> stats.closed + 1,
     wins    |-> stats.wins + (IF ratio > 0 THEN 1 ELSE 0),
     returns |-> stats.returns + ratio]

\* A trade counts once, whatever thesis it is filed under the second time.
RecordClosedTrade(memory, trade, thesis) ==
    IF trade.id \in memory.known \/ thesis.strategy = None THEN memory
    ELSE LET keys == {SymbolKey(trade.symbol, thesis.strategy), StrategyKey(thesis.strategy)}
                       \cup (IF thesis.regime = None THEN {}
                             ELSE {RegimeKey(thesis.strategy, thesis.regime)})
         IN  [memory EXCEPT !.known = @ \cup {trade.id},
                !.outcomes = Put(@, keys, NoOutcome, LAMBDA stats : Seen(stats, trade.ratio))]

\* _price_move_ratio of two positive prices; 0 stands for no price.
PriceMove(reference, realized) == (Larger(realized - reference, reference - realized) * One) \div reference

\* _update_execution_stats: submitted orders, executions blocked by a fresh
\* quote and rejected orders.
Tried(stats, outcome, reference, realized) ==
    LET priced == reference > 0 /\ realized > 0
    IN  [attempts |-> stats.attempts + 1,
         refused  |-> stats.refused + (IF outcome = "submitted" THEN 0 ELSE 1),
         slippage |-> stats.slippage + (IF priced THEN PriceMove(reference, realized) ELSE 0),
         priced   |-> stats.priced + (IF priced THEN 1 ELSE 0)]

UpdateExecution(memory, symbol, strategy, outcome, reference, realized) ==
    [memory EXCEPT !.executions =
       Put(@, {SymbolKey(symbol, strategy), StrategyKey(strategy)}, NoExecution,
           LAMBDA stats : Tried(stats, outcome, reference, realized))]

RecordOrderSubmission(memory, symbol, strategy, reference, fill) ==
    UpdateExecution(memory, symbol, strategy, "submitted", reference, fill)

RecordExecutionBlock(memory, symbol, strategy, reference, fresh) ==
    UpdateExecution(memory, symbol, strategy, "execution-blocked", reference, fresh)

RecordOrderRejection(memory, symbol, strategy) ==
    UpdateExecution(memory, symbol, strategy, "order-rejected", 0, 0)

-----------------------------------------------------------------------------
(* Scoring.                                                                *)

\* One observation is none.
Enough == 2

Average(total, count) == IF count <= 0 THEN 0 ELSE total \div count

\* The edge of what was earned, and that of winning more often than not.
OutcomeScore(stats) ==
    LET winRate == Average(stats.wins * One, stats.closed)
    IN  Clamp(Average(stats.returns, stats.closed) * 30, 7500)
          + Clamp(((winRate - 5000) * 12) \div 10, 2500)

ExecutionPenalty(stats) ==
    LET failureRate == Average(stats.refused * One, stats.attempts)
    IN  Smaller(12000, (failureRate * 11) \div 10
                         + Average(stats.slippage, stats.priced) * 35)

\* What a value counts for in an average.
Part(value, weight) == [value |-> value * weight, weight |-> weight]

\* _weighted_blend, of at most three parts.
Blend(a, b, c) ==
    IF a.weight + b.weight + c.weight <= 0 THEN 0
    ELSE (a.value + b.value + c.value) \div (a.weight + b.weight + c.weight)

\* Where too little is known it counts for nothing.
OutcomePart(stats, weight) ==
    Part(OutcomeScore(stats), IF stats.closed >= Enough THEN weight ELSE 0)
PenaltyPart(stats, weight) ==
    Part(ExecutionPenalty(stats), IF stats.attempts >= Enough THEN weight ELSE 0)

OutcomeDelta(symbol, strategy, regime) ==
    Blend(OutcomePart(symbol, 55), OutcomePart(strategy, 30), OutcomePart(regime, 15))

Penalty(symbol, strategy) ==
    Blend(PenaltyPart(symbol, 65), PenaltyPart(strategy, 35), Part(0, 0))

\* score_adjustment.
ScoreAdjustment(memory, symbol, strategy, regime) ==
    LET outcomeAt(key) == At(memory.outcomes, key, NoOutcome)
        triedAt(key) == At(memory.executions, key, NoExecution)
    IN  Clamp(OutcomeDelta(outcomeAt(SymbolKey(symbol, strategy)), outcomeAt(StrategyKey(strategy)),
                           IF regime = None THEN NoOutcome ELSE outcomeAt(RegimeKey(strategy, regime)))
                - Penalty(triedAt(SymbolKey(symbol, strategy)), triedAt(StrategyKey(strategy))),
              12500)
=============================================================================

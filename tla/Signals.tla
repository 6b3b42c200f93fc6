------------------------------- MODULE Signals -------------------------------
(***************************************************************************)
(* What a scan decides on: the quotes it sees (_prices_for_symbols), the   *)
(* candidate it takes among the strategies of a symbol (evaluate), and the *)
(* last look at the price before its order goes out                        *)
(* (evaluate_execution_quality). Pure decisions.                           *)
(*                                                                         *)
(* Ratios of prices are in 1/100000 as in ExitPlans, confidences in        *)
(* ten-thousandths as in ScannerLearning, and scores in millionths.        *)
(* A price of 0 stands for no price, a confidence of 0 for none.           *)
(***************************************************************************)
EXTENDS ScannerLearning

Plans == INSTANCE ExitPlans

-----------------------------------------------------------------------------
(* Quotes.                                                                 *)

Adapters == {"ig-forex-au", "alpaca", "binance", "other"}

\* _recommended_quote_ttl_seconds
RecommendedQuoteTtl ==
    [a \in Adapters |-> CASE a = "ig-forex-au" -> 60 [] a = "alpaca" -> 20
                          [] a = "binance" -> 12 [] OTHER -> 8]

\* What the broker recommends only lengthens a cache that is in use.
QuoteTtl(configured, adapter) ==
    IF configured > 0 THEN Larger(configured, RecommendedQuoteTtl[adapter]) ELSE configured

\* The cache holds a price and its moment for some symbols; the moment is the
\* start of the scan that asked.
Cached(cache, symbol, now, ttl) ==
    symbol \in DOMAIN cache /\ now - cache[symbol].at <= ttl

\* The symbols that are asked for; a "forced" look asks for all.
MissingSymbols(cache, symbols, now, ttl, mode) ==
    {s \in symbols : mode = "forced" \/ ~Cached(cache, s, now, ttl)}

\* Those that are answered; `quote` is what the broker would say of each symbol.
Fetched(cache, symbols, now, ttl, mode, quote) ==
    {s \in MissingSymbols(cache, symbols, now, ttl, mode) : quote[s] > 0}

\* A symbol without an answer keeps its old entry, but gets no price from it.
CacheAfter(cache, symbols, now, ttl, mode, quote) ==
    LET fetched == Fetched(cache, symbols, now, ttl, mode, quote)
    IN  [s \in DOMAIN cache \cup fetched |->
           IF s \in fetched THEN [price |-> quote[s], at |-> now] ELSE cache[s]]

PricesFor(cache, symbols, now, ttl, mode, quote) ==
    LET fetched == Fetched(cache, symbols, now, ttl, mode, quote)
        known == symbols \ MissingSymbols(cache, symbols, now, ttl, mode)
    IN  [s \in known \cup fetched |-> IF s \in fetched THEN quote[s] ELSE cache[s].price]

-----------------------------------------------------------------------------
(* Candidates: a strategy's signal with its confidence and those of its    *)
(* setup and regime, the number of reasons it gives and its place in the   *)
(* list of strategies.                                                     *)

Confidence == 0..One

Candidate ==
    [confidence : Confidence, setup : Confidence, regime : Confidence, reasons : Nat, rank : Nat]

Smallest3(a, b, c) == Smaller(a, Smaller(b, c))

\* A confidence that is absent does not lower the agreement of the others.
OrNone(confidence) == IF confidence > 0 THEN confidence ELSE One

Agreement(c) ==
    IF c.confidence = 0 /\ c.setup = 0 /\ c.regime = 0 THEN 0
    ELSE Smallest3(OrNone(c.confidence), OrNone(c.setup), OrNone(c.regime))

\* _candidate_score
BaseScore(c) ==
    675 * c.confidence + 525 * c.setup + 300 * c.regime
      + 200 * Agreement(c) + 10000 * Smaller(c.reasons, 3)

\* With what was learned about it, in ten-thousandths.
Score(c, learned) == BaseScore(c) + 100 * learned

\* What candidates are compared by, the first difference deciding.
Merit(c, learned) == <<Score(c, learned), c.confidence, c.setup, c.regime, -c.rank>>

Outranks(m, n) == \E i \in 1..5 : m[i] > n[i] /\ \A j \in 1..(i - 1) : m[j] = n[j]

\* What becomes of one strategy of a symbol. All but the silent one end the
\* round of strategies, with the candidates met so far.
Silent == "analysis-skip"
Stops == {"risk-rejected", "execution-blocked", "cooldown-blocked"}
Viable == "viable"

Considered(results) ==
    {i \in DOMAIN results : results[i] = Viable /\ \A j \in 1..(i - 1) : results[j] \notin Stops}

\* The candidate of a symbol: the one among `candidates` that outranks the rest.
Selected(candidates, learned) ==
    CHOOSE c \in candidates :
      \A d \in candidates \ {c} : Outranks(Merit(c, learned[c]), Merit(d, learned[d]))

\* Where the scan stops: the first symbol of the ranking that is due to leave
\* its position or has a candidate. `exits` and `entries` are sets of places.
FirstSignal(exits, entries) ==
    CHOOSE i \in exits \cup entries : \A j \in exits \cup entries : i <= j

-----------------------------------------------------------------------------
(* Execution quality.                                                      *)

\* A ratio of one.
Whole == 100000

\* _adverse_execution_move_ratio
Tolerance(market, profile) ==
    Larger(2 * Plans!Cost(market), (6 * Plans!NetProfit[profile]) \div 10)

\* evaluate_execution_quality: not without a fresh price, and not at one that
\* is worse than the price decided on by more than the tolerance.
QualityAccepts(market, profile, side, reference, fresh) ==
    /\ fresh > 0
    /\ \/ reference = 0
       \/ side = "buy" /\ fresh * Whole <= reference * (Whole + Tolerance(market, profile))
       \/ side = "sell" /\ fresh * Whole >= reference * (Whole - Tolerance(market, profile))
=============================================================================

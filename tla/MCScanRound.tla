----------------------------- MODULE MCScanRound -----------------------------
(* Small instances of ScanRound for TLC. *)
EXTENDS ScanRound, SequencesExt

Btc == <<"BTC", "USDT">>
Eth == <<"ETH", "USDT">>
Eur == <<"EUR", "USD">>
Gbp == <<"GBP", "USD">>
Spy == <<"SPY">>

CryptoPrices == Btc :> 100 @@ Eth :> 10
ForexPrices == Eur :> 1 @@ Gbp :> 1
StockPrices == Spy :> 100

Market(market, broker, profile, prices, equity) ==
  [market |-> market, broker |-> broker, profile |-> profile, price |-> prices,
   seed |-> [s \in DOMAIN prices |-> 0], equity |-> equity, power |-> equity]

\* Two majors are one risk, and so are two pairs against the dollar. The mock
\* is seeded with a position.
TestSetups ==
  {Market("CRYPTO", Binance(1), "moderate", CryptoPrices, 1000000),
   [Market("FOREX", Mock(1), "conservative", ForexPrices, 1000) EXCEPT !.seed[Eur] = 500],
   Market("FOREX", Replay(1), "moderate", ForexPrices, 2000),
   Market("STOCKS", Alpaca(1), "conservative", StockPrices, 1000000)}

\* Thursday before the close of the stocks, two minutes later, and the evening,
\* when it is a new day in UTC.
At0 == 3 * Day
TestMoments == <<At0 + Minutes(15, 50), At0 + Minutes(15, 52), At0 + Minutes(20, 0)>>

TestOutcomes == {-60000, 1}

\* The scores the candidates of a round are ranked by: what is kept under a
\* strategy counts its trades, each once, and after losses only the score sinks.
L == INSTANCE Signals

Replayed(ratios) ==
    FoldLeft(LAMBDA memory, i : L!RecordClosedTrade(memory,
               [id |-> i, symbol |-> Btc, ratio |-> ratios[i]], [strategy |-> "edge", regime |-> L!None]),
             L!Forgotten, [n \in 1..2 * Len(ratios) |-> 1 + (n - 1) \div 2])

ASSUME TradesAreLearned ==
  \A ratios \in UNION {[1..n -> {-500, -20, 0, 30, 700}] : n \in 1..4} :
    LET memory == Replayed(ratios)
        kept == memory.outcomes[L!StrategyKey("edge")]
        delta == L!ScoreAdjustment(memory, Btc, "edge", L!None)
    IN  /\ kept.closed = Len(ratios)
        /\ kept.wins = Cardinality({i \in DOMAIN ratios : ratios[i] > 0})
        /\ kept.returns = FoldFunction(LAMBDA ratio, sum : ratio + sum, 0, ratios)
        /\ (\A i \in DOMAIN ratios : ratios[i] <= 0) /\ Len(ratios) >= 2 => delta < 0
        /\ (\A i \in DOMAIN ratios : ratios[i] > 0) /\ Len(ratios) >= 2 => delta > 0

\* Candidates that differ in a confidence, sure ones and doubtful ones.
Surest == [confidence |-> 9000, setup |-> 9000, regime |-> 9000, reasons |-> 3, rank |-> 0]
Doubtful == [confidence |-> 4000, setup |-> 4000, regime |-> 4000, reasons |-> 3, rank |-> 1]
Regimeless == [Surest EXCEPT !.regime = 0, !.rank = 2]

\* The lead of the one over the other is clear enough to be decisive; a regime that
\* is hardly believed in costs more than none. After a refusal no strategy counts.
ASSUME CandidatesAreRanked ==
  /\ L!BaseScore(Surest) - L!BaseScore(Doubtful) > 2250000
  /\ \A up, down \in {-12500, 0, 10000} :
       L!Selected({Surest, Doubtful}, Surest :> down @@ Doubtful :> up) = Surest
  /\ L!Selected({Surest, [Surest EXCEPT !.rank = 3]},
                [c \in {Surest, [Surest EXCEPT !.rank = 3]} |-> 0]) = Surest
  /\ L!BaseScore([Regimeless EXCEPT !.regime = 100]) < L!BaseScore(Regimeless)
  /\ L!Considered(<<L!Silent, L!Viable, "risk-rejected", L!Viable>>) = {2}
  /\ L!FirstSignal({3}, {2, 4}) = 2

\* A cached price is used while it lasts, a forced look replaces it, and a symbol
\* without an answer has no price.
ASSUME QuotesAreCached ==
  LET cache == Btc :> [price |-> 100, at |-> 0]
      seen(at, mode, price) == L!PricesFor(cache, {Btc}, at, L!QuoteTtl(8, "binance"), mode, Btc :> price)
  IN  /\ seen(12, "usual", 90) = Btc :> 100 /\ seen(13, "usual", 90) = Btc :> 90
      /\ seen(1, "forced", 90) = Btc :> 90 /\ seen(1, "forced", 0) = <<>>
      /\ L!QuoteTtl(0, "binance") = 0
=============================================================================

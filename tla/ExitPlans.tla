------------------------------ MODULE ExitPlans ------------------------------
(***************************************************************************)
(* The exit plans that RollingLegacyDecisionSupport._exit_plan makes for an *)
(* entry, for every market, strategy, profile and side. A ratio is counted *)
(* in units of 1/100000, prices with a ratio applied as well.              *)
(***************************************************************************)
EXTENDS Integers

Market  == {"stocks", "crypto", "forex"}
Profile == {"conservative", "moderate", "aggressive", "hft"}

\* autonomous_strategy_ids_for_market
Strategies(market) ==
  {"momentum", "breakout",
   IF market = "crypto" THEN "ml_ensemble" ELSE "mean_reversion"}

\* estimated_round_trip_cost_ratio
Cost(market) ==
  CASE market = "crypto" -> 120 [] market = "forex" -> 80 [] OTHER -> 150

\* profile_settings: stop_loss_ratio and min_net_profit_ratio
StopLoss ==
  [conservative |-> 900, moderate |-> 1200, aggressive |-> 1800, hft |-> 600]
NetProfit ==
  [conservative |-> 400, moderate |-> 600, aggressive |-> 900, hft |-> 300]

\* The ratios and the trigger multipliers of the two stages per profile, and
\* what the strategy adds to them, in hundredths (adaptive_scale_management).
BaseRatio ==
  [ conservative |-> <<60, 40>>, moderate |-> <<50, 50>>,
    aggressive |-> <<35, 65>>, hft |-> <<70, 30>> ]
BaseTrigger ==
  [ conservative |-> <<85, 135>>, moderate |-> <<100, 170>>,
    aggressive |-> <<120, 220>>, hft |-> <<60, 100>> ]
RatioShift ==
  [breakout |-> -10, mean_reversion |-> 10, ml_ensemble |-> -5, momentum |-> 0]
TriggerShift ==
  [ breakout |-> <<20, 35>>, mean_reversion |-> <<-15, -30>>,
    ml_ensemble |-> <<10, 25>>, momentum |-> <<0, 0>> ]

\* _clamp_ratio, on hundredths
Clamp(value, low, high) ==
  IF value < low THEN low ELSE IF value > high THEN high ELSE value

\* The quantize of _normalized_trigger_ratio, x in units of 1/10000000: to four
\* decimals, a half going to the even neighbour.
FourDecimals(x) ==
  LET q == x \div 1000
      r == x % 1000
  IN 10 * (IF r > 500 \/ (r = 500 /\ q % 2 = 1) THEN q + 1 ELSE q)

\* _normalized_trigger_ratio: at least 0.0005
TriggerRatio(x) == FourDecimals(IF x < 5000 THEN 5000 ELSE x)

\* What a position must earn before the plan lets it go: the profit wanted and
\* the costs.
MinProfit(market, profile) == NetProfit[profile] + Cost(market)

ScaleOutRatios(strategy, profile) ==
  << 1000 * Clamp(BaseRatio[profile][1] + RatioShift[strategy], 25, 80),
     1000 * Clamp(BaseRatio[profile][2] - RatioShift[strategy], 20, 80) >>

ScaleOutTriggers(market, strategy, profile) ==
  [i \in 1..2 |-> TriggerRatio(MinProfit(market, profile) *
                    (BaseTrigger[profile][i] + TriggerShift[strategy][i]))]

\* The plan of an entry at price `entry`.
ExitPlan(market, strategy, profile, long, entry) ==
  LET sign == IF long THEN 1 ELSE -1
  IN [ long     |-> long,
       entry    |-> entry,
       hard     |-> entry * (100000 - sign * StopLoss[profile]),
       target   |-> entry * (100000 + sign * MinProfit(market, profile)),
       trail    |-> MinProfit(market, profile) \div 2,
       ratio    |-> ScaleOutRatios(strategy, profile)[1],
       ratios   |-> ScaleOutRatios(strategy, profile),
       triggers |-> ScaleOutTriggers(market, strategy, profile),
       limited  |-> TRUE,
       cost     |-> Cost(market) ]

\* ScannerMarketPolicy.allow_short is FALSE for stocks alone.
EntryPlans(entry) ==
  UNION {{ExitPlan(m, s, p, long, entry) :
            s \in Strategies(m), p \in Profile,
            long \in (IF m = "stocks" THEN {TRUE} ELSE BOOLEAN)} : m \in Market}

\* Plans that another StrategyPlugin may return: a trailing stop and one stage
\* but no levels, and a target without a trailing stop.
OtherPlans(entry) ==
  {[ long |-> long, entry |-> entry, hard |-> 0, target |-> 0, trail |-> 500,
     ratio |-> 50000, ratios |-> <<0, 100000>>, triggers |-> <<-1>>,
     limited |-> FALSE, cost |-> 120 ] : long \in BOOLEAN}
  \cup
  {[ long |-> TRUE, entry |-> entry, hard |-> 99000 * entry,
     target |-> 101000 * entry, trail |-> 0, ratio |-> 50000, ratios |-> <<>>,
     triggers |-> <<>>, limited |-> TRUE, cost |-> 120 ]}

=============================================================================

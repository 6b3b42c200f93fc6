------------------------------ MODULE OrderGate ------------------------------
(***************************************************************************)
(* What stands between a signal and its order: the size of the order, the  *)
(* risk policy of services/risk_engine.py and the portfolio controls of    *)
(* services/scanner_runtime_support.py. Pure decisions about a portfolio.  *)
(*                                                                         *)
(* A symbol is the tuple of its parts, <<"SPY">> or <<"EUR", "USD">>.      *)
(* Quantities are in thousandths and money in thousandths of the account's *)
(* currency, so that quantity * price is an amount of money. A portfolio   *)
(* gives each of its symbols a quantity, 0 for no position.                *)
(***************************************************************************)
EXTENDS Integers, FiniteSets, FiniteSetsExt

Long == 1
Short == -1

Larger(a, b) == IF a > b THEN a ELSE b
Magnitude(n) == Larger(n, -n)
Direction(n) == IF n >= 0 THEN Long ELSE Short

Occupied(positions) == {s \in DOMAIN positions : positions[s] # 0}

-----------------------------------------------------------------------------
(* The tables of the profiles.                                             *)

Profiles == {"conservative", "moderate", "aggressive", "hft"}

\* Shares of the equity are in thousandths.
Limits ==
  [conservative |-> [open |-> 1, gross |-> 750,  loss |-> 10, correlated |-> 0],
   moderate     |-> [open |-> 2, gross |-> 800,  loss |-> 15, correlated |-> 1],
   aggressive   |-> [open |-> 4, gross |-> 1500, loss |-> 25, correlated |-> 2],
   hft          |-> [open |-> 6, gross |-> 1000, loss |-> 12, correlated |-> 3]]

TargetNotional ==
  [conservative |-> 350000, moderate |-> 650000, aggressive |-> 1000000, hft |-> 250000]

CooldownSeconds == [conservative |-> 420, moderate |-> 300, aggressive |-> 180, hft |-> 90]

ForexLot == [conservative |-> 500, moderate |-> 750, aggressive |-> 1250, hft |-> 500]

\* The policy that build_risk_engine makes of a profile; the limits on losses
\* are never reached, since no caller passes the losses.
Policy(profile) ==
  [order |-> TargetNotional[profile], position |-> 3 * TargetNotional[profile]]

\* Whole shares, at least one; thousandths of a coin, at least one; a fixed
\* lot of currency.
OrderQuantity(market, profile, price) ==
  CASE market = "STOCKS" -> Larger(1, (TargetNotional[profile] \div 1000) \div price) * 1000
    [] market = "CRYPTO" -> Larger(1, TargetNotional[profile] \div price)
    [] market = "FOREX"  -> ForexLot[profile]

-----------------------------------------------------------------------------
(* Correlation.                                                            *)

IndexBeta == {"SPY", "QQQ", "IWM"}
TechGrowth == {"AAPL", "MSFT", "NVDA", "AMZN", "META", "GOOGL", "AMD", "AVGO", "PLTR", "SMCI",
               "NFLX", "TSLA"}
Majors == {"BTC", "ETH"}
AltBeta == {"SOL", "BNB", "XRP", "ADA", "DOGE", "LINK", "AVAX", "LTC", "BCH", "SUI"}

StockCluster(name) ==
  CASE name \in IndexBeta -> "index-beta"
    [] name \in TechGrowth -> "tech-growth"
    [] OTHER -> name

CryptoCluster(base) ==
  CASE base \in Majors -> "majors"
    [] base \in AltBeta -> "alt-beta"
    [] OTHER -> base

\* A currency pair is long in one currency and short in the other.
Factors(market, symbol, direction) ==
  CASE market = "STOCKS" -> {<<StockCluster(symbol[1]), direction>>}
    [] market = "CRYPTO" -> {<<CryptoCluster(symbol[1]), direction>>}
    [] market = "FOREX"  -> {<<symbol[1], direction>>, <<symbol[2], -direction>>}

FactorsOf(market, positions, s) == Factors(market, s, Direction(positions[s]))

\* The positions that share a factor with an order.
Correlated(market, positions, symbol, delta) ==
  {s \in Occupied(positions) :
     FactorsOf(market, positions, s) \cap Factors(market, symbol, Direction(delta)) # {}}

-----------------------------------------------------------------------------
(* An order is a change delta of the position in a symbol.                 *)

GrossExposure(positions, price) ==
  MapThenSumSet(LAMBDA s : Magnitude(positions[s]) * price[s], Occupied(positions))

\* A short position counts as a negative one.
NetNotional(positions, price) ==
  MapThenSumSet(LAMBDA s : positions[s] * price[s], Occupied(positions))

\* RiskPolicyEngine.evaluate_order. Selling is taken to lower what is held.
RiskAccepts(profile, buyingPower, positions, price, symbol, delta) ==
  LET notional  == Magnitude(delta) * price[symbol]
      held      == NetNotional(positions, price)
      projected == IF delta > 0 THEN held + notional ELSE Larger(0, held - notional)
  IN  /\ notional <= Policy(profile).order
      /\ projected <= Policy(profile).position
      /\ notional <= buyingPower

Reduces(positions, symbol, delta) ==
  \/ positions[symbol] > 0 /\ delta < 0
  \/ positions[symbol] < 0 /\ delta > 0

\* evaluate_portfolio_controls, limit by limit. account: its equity. realised:
\* the result of the trades that the portfolio shows closed today.
PerMille(share, amount) == (share * amount) \div 1000

HasRoom(profile, positions, symbol) ==
  positions[symbol] = 0 => Cardinality(Occupied(positions)) < Limits[profile].open

Affords(profile, equity, positions, price, symbol, delta) ==
  GrossExposure(positions, price) + Magnitude(delta) * price[symbol]
    <= PerMille(Limits[profile].gross, equity)

Diversifies(market, profile, positions, symbol, delta) ==
  LET correlated == Correlated(market, positions, symbol, delta)
  IN  correlated = {} \/ Cardinality(correlated) < Limits[profile].correlated

Braked(profile, equity, realised) == realised <= PerMille(-Limits[profile].loss, equity)

\* Broken variant: the losses of the day are not looked at.
ControlsAcceptUnbraked(market, profile, equity, positions, price, realised, symbol, delta) ==
  Reduces(positions, symbol, delta) \/
    /\ HasRoom(profile, positions, symbol)
    /\ Affords(profile, equity, positions, price, symbol, delta)
    /\ Diversifies(market, profile, positions, symbol, delta)

\* What reduces a position passes every limit but the drawdown brake.
ControlsAccept(market, profile, equity, positions, price, realised, symbol, delta) ==
  /\ Reduces(positions, symbol, delta) \/
       /\ HasRoom(profile, positions, symbol)
       /\ Affords(profile, equity, positions, price, symbol, delta)
       /\ Diversifies(market, profile, positions, symbol, delta)
  /\ ~Braked(profile, equity, realised)

\* A portfolio that the controls have nothing against: how many positions there
\* are, what they are worth, how many share a factor; none is larger than an order.
WithinLimits(market, profile, equity, positions, price) ==
  /\ Cardinality(Occupied(positions)) <= Limits[profile].open
  /\ GrossExposure(positions, price) <= PerMille(Limits[profile].gross, equity)
  /\ \A s \in Occupied(positions) :
       /\ Magnitude(positions[s]) <= OrderQuantity(market, profile, price[s])
       /\ \A factor \in FactorsOf(market, positions, s) :
            Cardinality({t \in Occupied(positions) : factor \in FactorsOf(market, positions, t)})
              <= Larger(1, Limits[profile].correlated)

\* in_symbol_cooldown, times in minutes.
Cooling(profile, last, now) == 60 * (now - last) < CooldownSeconds[profile]
=============================================================================

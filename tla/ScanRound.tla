------------------------------ MODULE ScanRound ------------------------------
(***************************************************************************)
(* A round of a market's scanner, from the portfolio to the order: take    *)
(* the stored portfolio while it is fresh, else the broker's; evaluate the *)
(* symbols, pass the signal through the gate of OrderGate, send the order  *)
(* and save the portfolio after it. Beside it: requests of the operator    *)
(* that change the same portfolio, time and faults.                        *)
(*                                                                         *)
(* Which prices a signal rests on is module PriceHistory, what it does to  *)
(* theses and journal TradeLedger, what it sees in a held position         *)
(* ThesisExit; here a signal is any order that the state of the symbol     *)
(* lets the program build. Prices do not move: a fresh quote that has      *)
(* moved too far is a refusal.                                             *)
(***************************************************************************)
EXTENDS MarketHours, OrderGate, Brokers, Sequences

CONSTANTS
  Setups,        \* markets with broker, profile, prices, first positions, account
  Moments,       \* the minutes at which something happens, see MarketHours
  Outcomes,      \* what a closed trade can bring
  MaxOrders, MaxRequests, MaxFaults   \* bounds

\* The brokers that report trades fill at once (Brokers). What a market that can
\* trade starts with is within its limits: the program lowers nothing that is not.
ASSUME RoundAssumption ==
  /\ \A s \in Setups :
       /\ s.market \in {"STOCKS", "CRYPTO", "FOREX"} /\ s.broker \in BrokerType
       /\ s.broker.reports => s.broker.fillsAtOnce
       /\ s.profile \in Profiles
       /\ IsFiniteSet(DOMAIN s.price)
       /\ s.price \in [DOMAIN s.price -> Nat \ {0}] /\ s.seed \in [DOMAIN s.price -> Int]
       /\ {s.equity, s.power} \subseteq Nat
       /\ s.broker.fillsAtOnce /\ s.broker.opens =>
            WithinLimits(s.market, s.profile, s.equity, s.seed, s.price)
  /\ Moments \in Seq(Nat) /\ Moments # <<>>
  /\ \A i \in DOMAIN Moments : \A j \in 1..(i - 1) : Moments[j] < Moments[i]
  /\ Outcomes \subseteq Int
  /\ {MaxOrders, MaxRequests, MaxFaults} \subseteq Nat

VARIABLES
  setup,      \* the market at hand
  now,        \* index of the present moment
  held,       \* the broker's positions
  working,    \* what accepted orders will still do to them
  trades,     \* the trades it has closed
  stored,     \* the portfolio store: positions, trades known, moment taken
  last,       \* _last_trade_at
  scan, api,  \* where the scanner and the request are
  orders, requests, faults,
  disturbed   \* history: a request ran beside a scan, or an order was not followed up

books == <<held, working, trades>>
vars  == <<setup, now, held, working, trades, stored, last, scan, api, orders, requests, faults,
           disturbed>>

Symbols == DOMAIN setup.price
T == Moments[now]

-----------------------------------------------------------------------------
(* The broker and the portfolio store.                                     *)

UtcDate(t) == (t + Minutes(4, 0)) \div Day

Does(s, delta, manual) ==
  IF setup.broker.clips \/ (manual /\ setup.broker.clipsManual)
  THEN CASE Reduces(held, s, delta) -> Direction(delta) * Min({Magnitude(delta), Magnitude(held[s])})
         [] ~Reduces(held, s, delta) /\ setup.broker.opens /\ ~manual -> delta
         [] OTHER -> 0
  ELSE delta

Execute(s, delta) ==
  /\ held' = [held EXCEPT ![s] = @ + delta]
  /\ IF Reduces(held, s, delta)
     THEN \E gain \in Outcomes : trades' = Append(trades, [day |-> UtcDate(T), gain |-> gain])
     ELSE UNCHANGED trades

Submit(s, delta, manual) ==
  LET does == Does(s, delta, manual)
  IN  IF setup.broker.fillsAtOnce
      THEN Execute(s, does) /\ UNCHANGED working
      ELSE /\ working' = [working EXCEPT ![s] = @ + does]
           /\ UNCHANGED <<held, trades>>

Fill(s) ==
  /\ working[s] # 0
  /\ Execute(s, working[s])
  /\ working' = [working EXCEPT ![s] = 0]
  /\ UNCHANGED <<setup, now, stored, last, scan, api, orders, requests, faults, disturbed>>

\* A reconciliation: positions, and the trades if the broker tells of them.
Reconciled == [pos |-> held, at |-> T,
               known |-> IF setup.broker.reports THEN DOMAIN trades ELSE {}]

\* The store keeps every trade it has seen.
Saved(view) == stored' = [view EXCEPT !.known = @ \cup stored.known]

RealisedOn(day, known) == MapThenSumSet(LAMBDA i : trades[i].gain,
                                        {i \in known : trades[i].day = day})

-----------------------------------------------------------------------------
(* The scanner.                                                            *)

NoView == [pos |-> [s \in Symbols |-> 0], at |-> Never, known |-> {}]
Resting == [at |-> "rest", began |-> 0, view |-> NoView, symbol |-> Never, delta |-> 0]

At(place) == scan.at = place

Rest == scan' = Resting

BeginScan ==
  /\ At("rest")
  /\ scan' = [scan EXCEPT !.at = "began", !.began = now]
  /\ disturbed' = (disturbed \/ api.at # "rest")
  /\ UNCHANGED <<setup, now, books, stored, last, api, orders, requests, faults>>

Open == StatusFor(setup.market, Moments[scan.began]).open

\* Nothing is traded: the market is closed or is not RUNNING.
StandBy ==
  /\ At("began")
  /\ Rest
  /\ UNCHANGED <<setup, now, books, stored, last, api, orders, requests, faults, disturbed>>

\* Not older than the 20 seconds of snapshot_ttl_seconds.
Fresh(view, t) == view.at # Never /\ 60 * (t - view.at) <= 20

\* _portfolio_snapshot_for_scan, which is then saved.
TakePortfolio ==
  /\ At("began")
  /\ Open
  /\ LET view == IF Fresh(stored, Moments[scan.began]) THEN stored ELSE Reconciled
     IN  Saved(view) /\ scan' = [scan EXCEPT !.at = "decide", !.view = view]
  /\ UNCHANGED <<setup, now, books, last, api, orders, requests, faults, disturbed>>

\* No symbol has a signal.
Hold ==
  /\ At("decide")
  /\ Rest
  /\ UNCHANGED <<setup, now, books, stored, last, api, orders, requests, faults, disturbed>>

\* The strategies' own checks, which the exits of a thesis are not put to.
Passes(s, delta) ==
  /\ RiskAccepts(setup.profile, setup.power, scan.view.pos, setup.price, s, delta)
  /\ last[s] # Never => ~Cooling(setup.profile, last[s], T)

\* The first symbol with a signal ends the evaluation.
Signal(s, delta) ==
  /\ At("decide")
  /\ last' = [last EXCEPT ![s] = T]
  /\ scan' = [scan EXCEPT !.at = "gate", !.symbol = s, !.delta = delta]
  /\ UNCHANGED <<setup, now, books, stored, api, orders, requests, faults, disturbed>>

Lot(s) == OrderQuantity(setup.market, setup.profile, setup.price[s])

AllowShort == setup.market \in {"CRYPTO", "FOREX"}

Entry(s) ==
  /\ At("decide") /\ scan.view.pos[s] = 0
  /\ \E direction \in IF AllowShort THEN {Long, Short} ELSE {Long} :
       Signal(s, direction * Lot(s)) /\ Passes(s, direction * Lot(s))

\* The whole position, or the half that a thesis scales out.
Exit(s) ==
  /\ At("decide") /\ scan.view.pos[s] # 0
  /\ \E part \in {scan.view.pos[s], scan.view.pos[s] \div 2} \ {0} : Signal(s, -part)

RealisedInView == RealisedOn(UtcDate(Moments[scan.began]), scan.view.known)

Accepted ==
  ControlsAccept(setup.market, setup.profile, setup.equity, scan.view.pos, setup.price,
                 RealisedInView, scan.symbol, scan.delta)

\* The quote has moved too far or is missing, or the controls refuse.
Refuse ==
  /\ At("gate")
  /\ Rest
  /\ UNCHANGED <<setup, now, books, stored, last, api, orders, requests, faults, disturbed>>

Send ==
  /\ At("gate") /\ Accepted
  /\ orders < MaxOrders
  /\ orders' = orders + 1
  /\ Submit(scan.symbol, scan.delta, FALSE)
  /\ scan' = [scan EXCEPT !.at = "sent"]
  /\ UNCHANGED <<setup, now, stored, last, api, requests, faults, disturbed>>

\* Broken variant: the portfolio after the order is not saved.
RecordUnsaved ==
  /\ At("sent")
  /\ Rest
  /\ UNCHANGED <<setup, now, books, stored, last, api, orders, requests, faults, disturbed>>

Record ==
  /\ At("sent")
  /\ Saved(Reconciled)
  /\ Rest
  /\ UNCHANGED <<setup, now, books, last, api, orders, requests, faults, disturbed>>

\* A broker call raises: the loop reports the error and scans again. After the
\* order it is reported as rejected.
Raise ==
  /\ ~At("rest")
  /\ faults < MaxFaults /\ faults' = faults + 1
  /\ Rest
  /\ disturbed' = (disturbed \/ At("sent"))
  /\ UNCHANGED <<setup, now, books, stored, last, api, orders, requests>>

Scan ==
  \/ BeginScan \/ StandBy \/ TakePortfolio \/ Hold \/ Refuse \/ Send \/ Record \/ Raise
  \/ \E s \in Symbols : Entry(s) \/ Exit(s)

-----------------------------------------------------------------------------
(* The operator.                                                           *)

Idle == [at |-> "rest", view |-> NoView]

Request ==
  /\ api.at = "rest" /\ setup.broker.served
  /\ requests < MaxRequests /\ requests' = requests + 1
  /\ disturbed' = (disturbed \/ ~At("rest"))

\* close_position sends an order for what the stored portfolio holds.
ClosePosition(s) ==
  /\ Request
  /\ stored.pos[s] # 0
  /\ Submit(s, -stored.pos[s], TRUE)
  /\ api' = [api EXCEPT !.at = IF setup.broker.fillsAtOnce THEN "closed" ELSE "rest"]
  /\ UNCHANGED <<setup, now, stored, last, scan, orders, faults>>

\* The trade is reported, or made up from the order.
RecordClose ==
  /\ api.at = "closed"
  /\ Saved([Reconciled EXCEPT !.known = @ \cup (IF trades = <<>> THEN {} ELSE {Len(trades)})])
  /\ api' = Idle
  /\ UNCHANGED <<setup, now, books, last, scan, orders, requests, faults, disturbed>>

\* synchronize_portfolios and reconcile_market: reconcile, then save.
Synchronise ==
  /\ Request
  /\ api' = [at |-> "reconciled", view |-> Reconciled]
  /\ UNCHANGED <<setup, now, books, stored, last, scan, orders, faults>>

SaveSynchronised ==
  /\ api.at = "reconciled"
  /\ Saved(api.view)
  /\ api' = Idle
  /\ UNCHANGED <<setup, now, books, last, scan, orders, requests, faults, disturbed>>

Serve ==
  \/ RecordClose \/ Synchronise \/ SaveSynchronised
  \/ \E s \in Symbols : ClosePosition(s)

-----------------------------------------------------------------------------
(* Time, crashes and the whole.                                            *)

Tick ==
  /\ now < Len(Moments) /\ now' = now + 1
  /\ UNCHANGED <<setup, books, stored, last, scan, api, orders, requests, faults, disturbed>>

\* The process is started again.
Crash ==
  /\ faults < MaxFaults /\ faults' = faults + 1
  /\ Rest /\ api' = Idle
  /\ last' = [s \in Symbols |-> Never]
  /\ disturbed' = (disturbed \/ At("sent") \/ api.at = "closed")
  /\ UNCHANGED <<setup, now, books, stored, orders, requests>>

Init ==
  /\ setup \in Setups
  /\ now = 1
  /\ held = setup.seed
  /\ working = [s \in Symbols |-> 0]
  /\ trades = <<>>
  /\ stored = NoView
  /\ last = [s \in Symbols |-> Never]
  /\ scan = Resting /\ api = Idle
  /\ orders = 0 /\ requests = 0 /\ faults = 0
  /\ disturbed = FALSE

Next ==
  \/ Scan \/ Serve \/ Tick \/ Crash
  \/ \E s \in Symbols : Fill(s)

Spec == Init /\ [][Next]_vars

-----------------------------------------------------------------------------
(* Properties.                                                             *)

\* With a broker that fills an order before it answers, the positions at the
\* broker never exceed what the controls allow one order at a time: how many
\* there are, what they are worth, how many share a factor
\* (scanner_runtime_support.py:112-144), although the controls look at a
\* portfolio that may be 20 seconds old; and none is larger than one order. The
\* exceptions: an operator's request changed the portfolio during a scan, or a
\* scan ended between its order and the portfolio after it.
LimitsHold ==
  setup.broker.fillsAtOnce /\ setup.broker.opens /\ ~disturbed =>
    WithinLimits(setup.market, setup.profile, setup.equity, held, setup.price)

TodaysResult ==
  RealisedOn(UtcDate(Moments[scan.began]), DOMAIN trades)

\* With a broker that reports its trades, and with the same exceptions, no order
\* leaves once the losses of the day reach the share of the equity that the
\* profile allows, whoever closed the trades (scanner_runtime_support.py:146-156). Exits are no
\* exception.
BrakeHolds ==
  [][orders' # orders /\ setup.broker.reports /\ ~disturbed
       => ~Braked(setup.profile, setup.equity, TodaysResult)]_vars
=============================================================================

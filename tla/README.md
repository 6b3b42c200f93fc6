# OmniBot v3 in TLA+

OmniBot v3 is a trading runtime for three markets (stocks, crypto, forex): a
FastAPI process whose endpoints drive an orchestrator of market states, one
scanner thread per market that trades when its market is RUNNING, brokers
behind workers, and a few stores. This directory models the parts of it where
the order of steps matters, checks them with TLC and proves the most important
results with TLAPS. Paths below are relative to the repository root.

## Inventory

| Component | State it keeps | Operations | Correct when |
|---|---|---|---|
| `TradingOrchestrator` (`src/omnibot_v3/services/orchestrator.py`) | a snapshot per market in memory (state, kill switch, reconciliation pending, last error), a snapshot store, an event log | 14 commands through `handle`, `heartbeat`, recovery in the constructor | a killed market cannot trade until it is released; store, log and memory agree; recovery leaves nothing running |
| `RuntimeApiService` (`services/runtime_api.py`) | time of the last portfolio sync | start, stop, arm, disarm (sequences of commands made from one read), raw commands, reconcile, portfolio sync | sequences leave the market somewhere sensible when one command fails or another request interferes |
| Scanner threads (`services/strategy_scanner.py`, `api/app.py`) | thread, stop event and displayed activity per market | start, stop, stop all, the loop, replacement of workers | one loop per market, always reachable by stop, which it follows |
| Scan (`services/strategy_scanner.py`) | quotes, rankings, theses, counters | read state, refresh portfolio, decide, submit, record | trades only markets that run; survives exceptions |
| Operator state and trade theses (`services/operator_state.py`, `infra/operator_state_store.py`) | one JSON file: password hash, selections, active and closed theses | load, change one part, save; archive then remove a thesis | a trade keeps the thesis it was filed with; theses come to follow positions |
| Trade journal (`services/trade_journal.py`) | none of its own | manual close, backfill, recovery of theses, clear history | a close never opens a position; theses archived once |
| Portfolio store (`infra/runtime_store.py`) | last portfolio per market, all closed trades | load, merge and save | it comes to agree with the broker; trades are neither lost nor doubled |
| Symbol evaluator (`services/scanner_symbol_evaluator.py`) | pure | exits, trailing stops, scale-outs; bars to decide on | a stop never loosens; stages fire once; signals rest on current prices |
| Portfolio controls, risk engine (`services/scanner_runtime_support.py`, `services/risk_engine.py`) | last trade per symbol (cooldown) | size, accept or refuse an order | limits hold for every sequence of accepted orders |
| Brokers and `MarketWorker` (`infra/*_broker.py`, `services/market_worker.py`) | positions, orders, fills, health cache | submit, cancel, reconcile, history | trades made out of fills balance |
| Sessions (`services/session_auth.py`, `api/app.py`) | sessions by id; the service that holds password and policy | login, authenticate, logout, change password or policy | a session that ended stays ended; timeouts hold; a new password survives |
| Secrets, settings (`services/secrets.py`, `infra/secret_registry.py`) | a file per value, a registry, the workers built from both | put, rotate, revoke, validate, refresh | a secret resolves to what was last promised; workers follow |
| Updater (`services/update_manager.py`, `scripts/update_from_github.py`) | the tree itself, the environment, backups, a state file | back up, fetch, stage, switch, restore, restart | there is always a whole build to go back to; the dashboard returns |
| Bar store and price history (`infra/market_data_store.py`, scanner) | bars in one file, last prices in memory | warm up, record, hydrate, locked merge | no bar is lost; what is ready stays ready |
| Learning (`services/scanner_learning.py`) | outcomes and executions per key | record a trade, record an order, adjust a score | each trade counts once; scores stay bounded |
| Market hours, health, probe | calendar; times of the last checks | queries | a market that is called ready can be traded |
| Migrations, backups, install tooling, replay validation, payloads, dashboard | reports and command lines | | not modelled, see below |

How they interact: the endpoints are synchronous functions, so FastAPI runs
each in a thread of its pool and any number are inside the orchestrator at
once. Each scanner thread calls the orchestrator (reads the state, sends
heartbeats), its worker, the portfolio store, the bar store and the operator
state. Settings and secrets replace the shared dict of workers under everybody.
The updater is a process of its own that moves the tree the others were started
from. Nothing in the orchestrator, the portfolio store, the operator state, the
sessions or the secrets takes a lock; the scanner service has one for its own
fields, the bar store one per file.

What is hard: reads and writes of a snapshot are separate, so any two threads
can overwrite each other; a scan decides on a state it read seconds ago, on a
portfolio up to 20 s old and on bars another scanner rewrites; changes to
memory, event log and stores are steps that a failure or a crash can separate;
brokers answer late, or do not report; threads are stopped by an event they look
at only between scans. `PROJECT.json` lists these hazards at their lines.

## Modules

* **`RuntimeStates`**: the states, the transition table of
  `_validate_transition`, the snapshot, and the route of each command as a
  relation on states (`Route`). A handler is the walk along its route; a hop is
  one call of `_transition`.
* **`Orchestrator`**: the orchestrator as a process with two stores. `Command`,
  `EngageKillSwitch`, `CommandAll` and the four one-snapshot handlers enter
  `handle`; `Hop` and `Leave` change the snapshots market by market;
  `AppendEvents` and `SaveSnapshot` are the persistence at the end;
  `Heartbeat` may come between any two of these. `StoreFails` is an exception
  from a store, `Crash` the end of the process anywhere, `Restart` the
  constructor with its recovery. `memory`, `stored` and `logged` are the
  three copies of the truth. The application builds its stores in memory
  (`build_default_orchestrator`), so they go with the process and `NewSnapshots`
  and `NewLog` are what a restart finds (`~lasting`). The readiness check gives
  an orchestrator a store with what another has left in it (`LeaveBehind`); if
  `lasting`, such stores come through every crash. A behaviour has stores of
  the one kind or of the other. That a store call raises is what the interface
  of the stores allows; the ones in memory do so hardly ever. `outbox` is what
  replaying the log will say once the handler's events are in it; the log itself is kept as its last word on
  each market, since all the code does with it is to list it. Events are
  appended in one step: a call that fails half way leaves the market in
  `unlogged`, about which `LogTellsTheStory` says nothing. Commands are handled
  one at a time here.
* **`TradingLicence`**: what the orchestrator promises about trading, without
  handlers, stores or recovery: per market off, disarmed, armed or trading; a
  lock; the locks that have been confirmed. `Orchestrator` implements it
  (`KeepsLicence`) with `up <- serving`, the mode read off the state in memory,
  and, while the process is down, every market off. Its `lasting` says
  whether confirmed locks outlive the process; if not, the licence begins with
  every market off and unlocked each time.
* **`TradingSession`**: the same market without the assumption that commands
  take turns. Every request is compiled to the operations its handlers perform
  (`Plan`); each write is a read of the snapshot and, later, a write of a whole
  new one. The scanner thread is one more such program: look, heartbeat, order,
  heartbeat, rest, with an exception possible wherever it calls out.
* **`ScannerThreads`**: the threads of one market in `StrategyScannerService`,
  with its lock making `start_market`, `stop_market` and the clean-up one step
  each. `TradingSession` has a single scanner thread; `LoopsAreRegistered` is
  what entitles it to.
* **`ThesisExit`**: one position and the thesis it is held under. A scan of it
  is one of `Exit`, `ScaleOut`, `MoveStop`, `Signal`, `Hold`, on the position as
  the scan believes it to be (`Views`: the stored portfolio, or the broker's
  word); an order that results is refused by the drawdown brake (`Braked`),
  refused otherwise (`Rejected`), filled without the scan learning of it
  (`Lost`) or filled and recorded (`Filled`). The thesis books the price of the
  decision. A scale-out leaves at a second price, fetched just before
  (`Quotes`), which may be worse by `Tolerance`: the `Margins` are the shares of
  the net profit that the profiles allow. Between scans time passes and the
  operator may close the position. The market has no state of its own: each scan
  sees any price. Decimals are scaled integers, with 0 for None as in the code;
  quantities are rounded to whole units; the entry price is the one the plan was
  made from, and `max_hold_minutes` a flag. The broker is the mock's, which
  fills a market order at once and never more than the position.
* **`ExitPlans`**: the exit plans that `_exit_plan` makes, from its tables of
  profiles, strategies and costs, with clamping and rounding.
* **`PortfolioMerge`**, **`Brokers`**, **`TradeLedger`**: who writes down a
  trade, and where. `Brokers` gives the traits of the five adapters: whether an
  order is filled before it is answered, may turn a position round, whether
  reconciliations report trades. `PortfolioMerge` is the store's merge of closed
  trades. `TradeLedger` puts the scanner and requests of the operator around one
  broker and the two stores: a scan begins on the stored portfolio or a
  reconciled one, files scale-outs and stale theses, makes at most one order and
  records it; the operator closes positions and fetches history. Every save of
  store or file is a `Load` and a `Save`, between which other threads, failures
  and crashes may come; the saves a step of the code makes one after the other
  are the `jobs` of its thread. Mock and replay are objects of the process, used
  by the release checks, the runtime probe and the replay validation: what is
  modelled of them is one life of the process, in which they always answer. The
  application builds live brokers only (`build_configured_market_workers`); these
  may fail to answer, and their positions and trades come through a crash
  (`Fault`). `overlapped` and `orphaned` remember what no book can tell: a request
  beside a scan or another request, and a trade of a position without a thesis.
* **`FillPairing`**: how `_closed_trades_from_fills` pairs Binance's fills, first
  in first out, into trades. Quantities, prices and fees per unit are whole numbers.
  The loops are recursive functions, so that the sums can be proved about.
* **`OrderGate`**, **`ScanRound`**: what stands between a signal and its order.
  `OrderGate` is pure: lots, the risk policy, portfolio controls. `ScanRound` is a
  round of one market's scanner (`BeginScan` or `StandBy`, `TakePortfolio`,
  `Signal`, `Accepted` or `Refuse`, `Send`, `Record`), beside requests of the
  operator that change the same portfolio, `Tick` and `Crash`. Which signal there
  is is left open: any entry, or exit of a position, that the state of the symbol
  lets the program build.
* **`PriceHistory`**: the bars and prices a signal rests on: warm-up, live bars,
  hydration of the memory from the file, by the scanners of several markets that
  save to one file under its lock.
* **`ScannerLearning`**: `ScannerLearningEngine`, in ten-thousandths. It has no
  state machine of its own; `TradesAreLearned` in `MCScanRound` runs it over
  histories of trades, and `ScannerProofs` proves what every history keeps.
* **`Signals`**: pure, what a scan decides on: the prices of the quote cache
  (`PricesFor`), the candidate it takes among the strategies of a symbol
  (`Selected`), and the last look at the price before an order
  (`QualityAccepts`). `CandidatesAreRanked` and `QuotesAreCached` in `MCScanRound`
  evaluate it on examples; `ScannerProofs` says what it promises.
* **`MarketHours`**: when a market is open, in minutes of a New York week.
  `ScanRound` scans only then.
* **`RuntimeHealth`**: the worker's record of its last checks, the judgement of
  `RuntimeHealthEvaluator` and the exit codes of the probe.
* **`Sessions`**: requests as programs of accesses to the session store, the
  service, the settings and the operator-state file. `service` is replaced as a
  whole by what a request made of the one it read.
* **`Credentials`**: puts, rotations, revocations and validations of secrets on
  value files and a registry, and `refresh_configured_workers` after them.
* **`Updater`**: the updater as a process with the moves of
  `update_from_github.py` as its steps, and the dashboard, with or without
  systemd. A tree maps each of its children to the build it is of.
* **`MC...`** modules and configurations instantiate these for TLC;
  **`...Proofs`** hold the theorems. Definitions commented as broken variants
  are the program with a plausible mistake; each property is violated by one
  of them and so depends on what the code does.

How they fit together: `ScannerThreads` entitles the others to one scanner
thread per market; `TradingSession` says when that thread scans; `ScanRound`,
`PriceHistory`, `ThesisExit` and `TradeLedger` are four views of what it does in
a scan (may it order, on what prices, what it sees in a position, what is
written down), joined by the order of steps in `_scan_market`. `ScanRound` and
`TradeLedger` share `Brokers`; `ScanRound` composes `MarketHours` and
`OrderGate`; `MCThesisExit` takes its plans from `ExitPlans`.

## Runs

| Run | What it asks | Bounds | Result |
|---|---|---|---|
| `orchestrator` | kill switch, stores, log, recovery and the licence, with the stores of the application and with lasting ones | 1 market, 3 faults | holds, 341,207 states |
| `session` | late orders, quiet after a stop, a scanner that keeps scanning | 2 API threads, 3 requests | holds, 445,786 states |
| `session_kill` | the message of `_ensure_market_not_killed` | 1 API thread, 3 requests | violated |
| `scanner_threads` | one registered loop, shown, following its stop | 4 threads | holds, 9,666 states |
| `thesis_exit` | trailing stops, the ledger of scale-outs, costs | every plan the program makes and 3 others, 10 prices, the profiles' tolerances | holds, 123,111 states |
| `hard_stop` | rolling_decision_support.py:571, "protect capital with a hard stop" | 2 plans, 11 prices | violated |
| `ledger` | what a trade was filed with stays; reported trades filed once and in time; closes that never flip; stores that catch up | 5 brokers, 1 symbol, 1 to 3 orders, 1 request, 1 fault | holds, 406 thousand states |
| `updater` | what completes is whole, what fails early is harmless, builds are kept, the dashboard returns | 2 updaters under systemd or 1 without, 3 builds, 1 fault | holds, 946 thousand states |
| `sessions` | what ended stays ended, timeouts, the password | 2 API threads, 2 logins, 4 requests, 3 ticks, 1 crash | holds, 1.2 million states |
| `credentials` | secrets resolve to what was promised, workers follow | 2 API threads, 2 secrets with 2 files each, 3 requests, 1 crash | holds, 1.9 million states |
| `scan_round` | portfolio limits and the drawdown brake, order after order | 4 markets, 3 moments, 3 orders, 1 request, 1 fault | holds, 2.4 million states |
| `price_history` | bars kept, signals on current bars, symbols that stay ready | 2 markets, 3 moments, 1 fault | holds, 4.1 million states |

The bounds. Markets do not share orchestrator state, so one market shows what
happens to one. Three faults are a failing store call, a crash and another crash
during the recovery from it; commands are not bounded. Two API threads and the scanner
are enough for any pair to preempt each other with a third writing; three
requests allow a start, a stop and something in between. Four threads are the
first loop, one that died for want of a worker, and two restarts.
One operator and the scanner suffice for the violation of `session_kill`, whose
run has one API thread.
In `thesis_exit` the prices lie on both sides of the entry at 10000, between and
beyond the stops, triggers and targets of the plans; the three other plans are
what another `StrategyPlugin` may return: no levels, no stages given, no trailing
stop. Nothing bounds the number of scans.

In `ledger` a lot is two units, so that a scale-out leaves something; three
orders (replay) open, scale out and close or turn round, two do so on the
mock's first position; the others' orders are one, as what they add is in when
they report. One request beside the scanner shows every overlap of the two, one
fault of a live broker what it cuts off. Binance's trades follow each other within the 90 s the
merge allows for, the others' do not. In `scan_round` the moments are Thursday
15:50, 15:52, when the stored portfolio has aged, and 20:00, a new day in UTC after
the close of the stocks; the four setups pair the brokers with the profiles whose
limits two or three orders can reach. In `price_history` two bars stand for the
three a signal needs and the twelve kept, and the gap before the last moment is
as long as a gap must be to break a run of bars. Two ids in `sessions` are a
login and the one that replaces it; the policies differ in the idle timeout.
Two files for a secret in `credentials` are the one it is kept in and the one
a request names. In `updater` three builds are the first, the update and
another published under way.

The first states of `TradingSession` are those a constructor can leave: no
market moving, and no killed market armed (`KillSafety`).

Deadlock is not checked in `sessions`, `credentials` and `updater`: when their
requests or builds are used up there is nothing left to do.

Fairness. `TradingSession`: the scanner's loop and each API thread that
has something to do go on; requests and exceptions are not forced.
`ScannerThreads`: each thread goes on; its waits have a timeout and its scans
end. `TradeLedger`: threads go on with what they have begun, the scanner scans
again, stored portfolios age and accepted orders are executed sometime; requests,
orders and faults are not forced. `Updater`: an updater under way goes on, and
systemd starts a dashboard that is down. No run assumes that operators do
anything. The other modules state safety only and no fairness.

What the properties except. `TradeLedger`, `ScanRound`, `Updater`, `Sessions` and
`Credentials` keep history variables (`overlapped`, `orphaned`, `strayed`, `raced`,
`clashed`) that mark overlaps and cut-offs the code makes no attempt at; a
property that needs one says so in its comment, and what goes wrong then is
under *Observations*. The rest of the interleavings, which is most of them, is
covered.

### What the violations show

* *Kill switch* (`session_kill`). `heartbeat` reads the snapshot; the operator
  engages the kill switch and is told so; the heartbeat writes the old snapshot
  back. The switch is off, the market is ARMED, and `start` succeeds. The guard
  in `handle`, a separate read, has the same gap. `KillSafety` and
  `AckedKillHolds` hold in `Orchestrator`, where commands take turns: the
  logic of the kill switch is right, the missing lock is what breaks it.
* *Hard stop* (`hard_stop`). `evaluate_portfolio_controls` lets orders that
  reduce a position past its limits on positions, exposure and correlation, but
  not past the drawdown brake. Once the losses realised today, by whatever
  positions of the market, have reached the limit, a position that falls to its
  hard stop keeps falling: every scan makes the order and the brake refuses it
  until the date changes. The brake protects the account from new positions, so
  the code may mean to have it; the plan then promises too much.

### Observations

Met while modelling; no document of the repository promises otherwise, so no run
is violated by them, or the properties except them by name.

*Restarts.* The application keeps states, kill switches and events in memory
(orchestrator.py:427-431). After a restart no market trades, but a market whose
kill switch the operator had engaged and been told of is released, and may be
connected, armed and started again.

*Late orders.* `_run_market_loop` reads RUNNING once, the scan makes its broker
calls, and the order goes out though the market has been stopped since and the
request answered. `OneLateOrder` says how bad it gets: one order, as the state is
read again before the next scan.

*Trades and theses* (`ledger`). Live brokers' reconciliations carry no closed
trades, so a thesis that a scan closes is dropped without being filed unless a
backfill or a manual close has put its trade into the store. With them a thesis may
also be filed twice, for a close by hand files it under a trade made up from the
order: a backfill brings the real one under another id, and the scanner still has
the thesis in memory. A crash after a thesis has been filed, and before it is removed,
leaves it to be filed a second time by the next scan if the store has another
unfiled trade of its symbol. (`FiledOnce` and `TradesAreFiled` are about brokers that
report their trades, which is so in the replay validation and of no live one; what
holds for all is `FiledTradesStay`.) On Alpaca, where an
order fills later, the sync right after an entry drops its thesis. The merge takes
two trades of the same deal within 90 s for one. A torn operator-state file
keeps the program from starting again. After a crash the stored portfolio may be
older than its trades and yet fresh, and the next scan trades on it; its exits
on Binance are not reduce-only and may turn a position round.

*Limits* (`scan_round`). With a broker that fills later, the next scan within
20 s does not see the order before it, and limits are exceeded. The brake counts
only trades the snapshot has: with live brokers there are none. The risk engine
refuses managed exits that have grown past the order limits; the cooldown, set
when a signal is accepted even if its order is refused, holds them back too.
`evaluate` returns at the first symbol that has anything to do, so the stops of
later symbols wait.

*Bars* (`price_history`). With fewer than three contiguous bars a signal falls
back on the prices in memory, hydrated from the file across its gaps. Bars from a
broker overwrite the live bars of the same time. The warm-up asks for bars up to
now, and a scan dates its bars by when it began: a bar of a later bucket may come
back and end the basis of the signal (`BasisIsCurrent` bounds it from both sides),
and the scan then records its own price as a bar beneath it, replacing one that
the broker had answered with.

*Fills.* `_closed_trades_from_fills` takes a window of fills that begins inside a
position for one that begins flat, and pairs what closed that position as an
opening. *Learning.* A losing trade can raise a score: a
symbol counts from its second trade on, and if that loses little after a win it
outweighs a strategy that loses elsewhere.

*Signals.* The last look at the price tolerates what the profile selected now
allows, while the profit of a plan is that of the profile it was made with: after
a change of the profile a profit can be sold below the entry price
(`OtherProfilesMayNot`). Even without one, stocks with the profile hft can lose a
little after costs (`ScalpsMayNot`). A scale-out is decided on beyond the costs and
sent at up to twice the costs, or 60 % of the net profit of a profile, less: early
stages can so be sold at a loss (`ScaleOutsNearCosts` says how small). A regime that is hardly believed in costs a
candidate more than none: it lowers the agreement of its confidences.

*Sessions.* `authenticate` saves the session it read and can bring back one that a
logout deleted meanwhile; two logins that overlap leave two sessions; a password
and a policy that are changed together can leave the service with one of the
two. Changing the password ends no session. A new policy is lost on restart.

*Credentials.* A rotation to another reference deletes the old value before the
registry names the new one. A save of the registry undoes one for another secret
that came in between. Two refreshes can leave workers built from old values until
the next. Validating a revoked secret makes it invalid; if a put that was cut short
or undone has left its file there, it resolves from then on.

*Updater.* Nothing keeps two updaters apart. The environment points at the staged
tree before the switch, so a failure between the two syncs leaves the next start
with the work directory. Moving the tree out counts as not switched yet, and a
failure in it leaves the tree half moved. The backup made before a rollback is the
newest, so that a second rollback goes forward. A dashboard that starts from what
is left of a work directory tells the next updater of a build that is not the one
installed, and the rollback of that update may come to nothing (`strayed`).

*Health.* The API takes a broker's answer that is up to 60 s old, the very age at
which the evaluator calls it out of date: a healthy market turns degraded while
other brokers answer. *Market hours.* After the close of a weekday the next
opening announced is a week late (market_hours.py:95); on a Friday it is a Saturday.

## Proofs

TLAPS proves, for any set of markets, threads, secrets, updaters and builds, and
any number of faults and requests:

* `OrchestratorProofs`: `TypeCorrect`; `KilledMarketsStayUnarmed`
  (`KillSafety`); `ConfirmedKillsHold` (`AckedKillHolds`);
  `TheStoreIsCurrent` (`StoreIsCurrent`); `ErrorsDoNotLinger`
  (`ErrorsAreCleared`). None of these is inductive: a handler that may hop to
  ARMED has been let in for markets whose switch is off, and while it runs nobody
  can engage one; a handler of EngageKillSwitch reaches its last save only with
  the switch set in memory, for the market it will confirm. `InFlight` says these
  things of handlers under way (`HandlerInv`, `GuardedInv`, `EngagedInv`), and is
  proved preserved by every action; `KillRouteEndsUnarmed` and
  `OnlyArmLeavesUnarmed` are what it needs of the routes. The store is current
  because what a handler under way has changed is among what it will save, and
  what a failed call has not saved stays in `unsaved` until a later save
  (`StoreInv`). Stores that do not last are empty at every start (`FreshInv`), and
  what was confirmed to an operator ends with the process. Errors are cleared on the way to every state that trades, in
  memory first, and saved from there. The only assumption is that the number of
  faults is a natural number.
  Further: `RecoveryComesFirst` (`RecoveredBeforeServing`): a process that
  does not serve yet is recovering, and the markets it has visited are settled
  (`RecoverInv`). `TheLogIsTrue` (`LogTellsTheStory`): `LogInv` ties memory, the
  events still to be appended, the log and the store of a market together at every
  point of a handler, also of one that fails or dies. `OrchestratorKeepsLicence`
  (`KeepsLicence`): every hop is a move of `TradingLicence` or not seen
  (`HopKeepsLicence`), the last save of a kill switch is its pledge, a crash is
  `Fail` and the end of recovery `Boot`. The mapping needs the invariants above:
  that a pledged lock is in memory when recovery ends is `AckedKillHolds`, that
  no locked market is armed then `KillSafety`, that none trades `RecoverInv`.
* `ScannerProofs`, on the threads: `EveryLoopIsRegistered`, `EveryLoopIsShown`. With the
  types, the two are inductive. A thread is created only when the registered
  one is not alive, and then none is looping; a thread that cleans up is the
  registered one.
* `ScannerProofs`, on the session: `AtMostOneLateOrder` (`OneLateOrder`). The
  invariant adds that what is left of a scan holds at most one order, that a market
  in RUNNING has none late, and that while one is late the scan holds no other. It
  assumes that the scanner thread is not a thread of the API's pool.
* `EvaluatorProofs`, on exits: `StopsNeverLoosen` (`StopNeverLoosens`) and `LedgerHolds`
  (`LedgerNeverAhead`). A scale-out sets the stop from the price of the moment
  and never looks at the one there is, so that it cannot loosen it does not
  follow from its own code. `StageInv` is the reason: the anchor has not reached
  the trigger of the next stage, since a price that does is answered with a
  scale-out and not with a move of the anchor; and the next trigger lies beyond
  the price of the stage before. The ledger needs that the stored portfolio, on
  which a scale-out is sized, is not ahead either. `ExitAssumption` asks of a
  plan that its stages are proper fractions and, if it trails, that its triggers
  are positive and its trailing ratio is at most 1; TLC checks it for every plan
  of the program.
  `ScaleOutsPay` (`ScaleOutsNearCosts`): the stages after the first are measured
  from the price of the one before, so each is decided on at no less than the first,
  which `CostAssumption` asks to cover the costs; and the quote it is sent at is
  worse by the tolerance at most. `TriggersCoverCosts` proves that it
  does from the tables, clamps and rounding of `_exit_plan`, for any entry price.
* `ScanRoundProofs`: `LimitsAreKept` (`LimitsHold`), `BrakeIsKept` (`BrakeHolds`).
  The controls look at the portfolio a scan took, which may be 20 seconds old, and at
  one order; the limits speak of what the broker has after any number of orders. The
  invariant says that every copy still in use is what the broker has: the stored one
  between scans, the one in the scan up to its order, the one a sync is about to save
  (`CopyInv`), and that no two threads have one in hand (`AloneInv`). An order is
  then executed as it was judged (`DoesOpen`, `DoesReduce`): an entry that the controls
  accept (`OpeningKeeps`) and an exit of all or half (`ClosingKeeps`) leave the
  portfolio within its limits. For the brake, the trades in that copy are all there
  are. `GrossExposure` is a sum over a set of any size, defined by a recursive
  function on its subsets; that it exists and splits is proved by a least
  counterexample (`LeastNat`, `SumsExist`, `SumSplits`), as the induction theorems of the
  library are out of reach. `RoundAssumption` asks that a broker that reports trades
  fills at once, which all five do, and that the first positions are within the limits;
  TLC evaluates it for every setup of the run.
* `OrchestratorProofs`, on health, about pure judgements, for any snapshots, workers, times
  and numbers of markets: `ReadyMeansTradable`, `WaitingNeverHelps`,
  `ChecksAreFresh` and `ProbesAgree`. `ChecksAreFresh` says how much room a
  cached answer and the other brokers may take together; `ReportsAreInTime` in
  `MCOrchestrator` that the limit is tight and the API beyond it.
* `ScannerProofs`, on learning, for any memory that recording trades and orders can
  make (`TradesAreKept`, `OrdersAreKept` keep it well formed): `TradesCountOnce`,
  `LearningIsBounded`, `OneObservationIsNone`. A blend of bounded parts is bounded
  (`BlendBounds`), whichever parts are missing; the clamp at the end is what makes
  the lower bound. The rest is for any cache, candidates, memory and prices:
  `QuotesAreFresh` (on the cache `CacheStaysKept` keeps well formed),
  `ConfidenceDecides` (the limits of `LearningIsBounded` are 2.25 apart, so a
  larger lead stands), `SurerIsBetter`, and `ProfitsSurvive`, which for each market
  and profile compares the profit a plan waits for with the tolerance and the
  costs; `ScalpsMayNot` and `OtherProfilesMayNot` show that its conditions are
  needed.
* `ScannerProofs`, on the trades learning gets to see. The pairing of fills
  (`FillPairing`, which TLC checks on every window of three fills) is proved for every
  window: `LotsBalance`, `TradesEarn`, `FeesAreChargedOnce`
  and `TradesAreInOrder`. The three sums are one law (`Passes`): a trade takes its value
  from the two fills it is made of, whether that value is a quantity, an amount of
  money or a fee. A lot keeps it in one round of the loop (`CloseLotKeeps`), a fill
  over the open lots (`ClosedKeeps`), and the book over all fills (`PairedKeeps`), by
  induction on how many have been looked at (`AllNat`). That the fill that opens a lot
  finds none of the other side left is part of it (`Finding`). The order needs the sort
  of the code, as an assumption on the fills: ascending times, and no id twice; `Midway`
  says what a fill has left behind in the middle of the lots.
* `SessionsProofs`: `SessionsTyped` (`TypeOK`), `NoSessionReturns`
  (`EndedStaysEnded`), `NobodyPassesLate` (`PassesInTime`), `ThePasswordIsKept`
  (`PasswordIsKept`). A request saves what it
  has read, so it can bring a session back and its last use with it. `Fits` and
  `Faithful` say what limits this: a copy was opened when the session was and used
  no later than its latest use, whichever requests are slower; an id is never drawn
  twice; and nobody has a copy of a session that is counted as ended (`EndedForGood`).
  For the password, `AloneInv` says what a request that is the only one to renew the
  service or write the file has in hand at each place: the password that is there.
  The proofs assume that the marks for no password and half a file are no passwords.
* `LedgerProofs`: `TypesHold` (`TypeOK`). That a scale-out is filed only under a
  thesis that has one to file is part of it, so the types have to follow a thesis
  from the list a scan made into the write and the file, and a trade through the
  merge of the store: `MergeIsIn` says that a merge invents nothing, whatever lists
  it is given. The merge folds over sequences; the induction it needs
  is on the set of lengths a fact holds of (`AllNat`), and the fold itself is shown
  to exist before anything is said of it (`FoldExists`).
  `ClosesKeepTheirSide` (`ClosesNeverFlip`): a request sizes its order on a stored
  portfolio of any age, and a broker that only reduces cuts it down to the position.
  `ThesesAreFiledOnce` (`FiledOnce`), for brokers that report their trades: a thesis
  is read from memory or the file, filed in one save and removed in the next. It is
  not filed again because then there is nothing left to file it under: each symbol has at most one trade that is not filed (`Single`), and
  a thesis that has been filed is of a position that is gone, with no such trade
  (`Settled`). To keep this, `LedgerInv` follows the trade of an order from the
  broker into the lists, writes and copies of the thread that sent it: up to the
  synchronisation after the order (`After`) the trade may be missing from the file,
  and from then on none is for a position that is held, whose thesis has counted all
  its scale-outs (`Counts`). A scale-out finds its trade because the thesis of the
  order has been written with one scale-out more than are filed (`OrderInv`,
  `WrittenInv`, `ScalesOut`). `StoreInv` says which portfolio a scan may take without
  asking the broker, `AloneInv` that nobody else is at work. `ReportersAssumption`
  says that a broker that reports its trades fills at once and, when it is behind
  the API, only closes positions, and that it is no live one, which is so of the two
  that report; TLC evaluates it for all five.
  `TradesAreAllFiled` (`TradesAreFiled`): when a scan decides, a position that is held
  has no trade left to file by `LedgerInv`, and one that is gone has no thesis left
  (`DecideInv`); so it is enough that a trade never waits without a thesis to be filed
  with (`WaitingInv`). A thesis is removed after it has been filed, or when the list of
  the scan has no trade for it, which says something only if that list lacks none
  (`HandInv`, `FreshInv`). Lists pass through the store, so the merge must keep trades:
  it does when no two of them match (`MergeKeeps`), as when each closes at least
  `broker.pace` after the one before and that is more than the window (`Spaced`). The
  thesis of an order is younger than all trades before it, by `LedgerInv`, and filed
  with a later one (`Older`).
  `FiledTradesAreKept` (`FiledTradesStay`), for any broker, through lost answers and
  restarts: what a thread is about to archive is a trade that the journal lacks
  (`InHand`), and nobody else writes while it does. A trade made up for a close must
  not take the identifier of one made up before. Its identifier is the number of
  trades the broker has closed, counted down, so it must be that each close by hand
  that is recorded has closed one (`JustClosed`). `ClosesAssumption` gives this: a
  broker behind the API that fills at once does not let a close turn a position round.
* `CredentialsProofs`: `TypesHold` (`TypeOK`), `PromisesHold` (`PromiseIsKept`),
  `WorkersAreRight` (`WorkersFollow`). Neither promise nor workers follow from
  their own steps: a save for one secret writes back the entries of all others
  as they were when it loaded them. `PromiseInv` therefore speaks of every entry a
  secret has or may get back (`Views`): all name the same file, and all resolve to
  what is promised or to what the one request under way for the secret will have
  promised or may leave when it is cut short (`Owed`). A change for which this
  could not be kept is one that `Moves`: it must have no company at all. For the
  workers, `Lone` says what a request without company has in hand at each place.
* `UpdaterProofs`: `TypesHold` (`TypeOK`), `CompletedMeansWhole`
  (`CompletedIsWhole`), `FailureDoesNoHarm` (`FailedIsHarmless`), `NoBuildIsLost`
  (`BuildsAreKept`). An updater takes trees apart child by child, so the invariant
  says where each child of the build it found and of the one it installs is, for
  every place in its code (`Knows`), and what the installation is between two
  updates (`Calm`); both as long as updaters run one at a time (`AloneInv`). A build
  is kept because a closed archive holds it before anything of the tree is moved
  (`Safe`), and for the first updater this does not need that it is alone
  (`FirstInv`). The proofs assume that there are two builds at least.
* `EvaluatorProofs`, on bars and prices: `NoBarIsLost` (`BarsAreKept`), `SignalsRestOnCurrentBars`
  (`BasisIsCurrent`), `WarmedUpForGood` (`ReadyStaysReady`). The scanner with the
  lock has in its copy the file and its own bars, and nothing else (`LockInv`). The
  symbols of two markets are disjoint, so the bar a scan has recorded stays in the file
  (`ScansFit`), which has none from the future (`FileInv`). Prices in memory
  are replaced by no fewer bars than a signal needs, and bars stay (`HistoryInv`).

Only model-checked: the liveness properties (`DisarmedGoesQuiet`, `ScanningGoesOn`, `StopIsFollowed`, `ThesesFollowPositions`,
`StoreCatchesUp`, `DashboardReturns`), which are beyond the prover;
and, as they fold over sequences, the histories of learning. Of the merge of trades
that match, only `MergeIsIn` is proved.

## Plan

Every safety property of the runs is proved. What could be added is what a cleared
history hides from view, and the replay validation as a whole.

## Not modelled

Timestamps, wording of reasons and errors, and the data a scan computes are
abstracted. The HTTP dialects of the live brokers, payload serialisation, the
install, backup and systemd tooling, the statistics that find an entry, the replay
validation and the dashboard build messages and reports and keep no state that
other components depend on. The PostgreSQL stores and their migrations are not
constructed by the application. Of the operator state, market settings and
selections are carried along by the saves that are modelled, but have no property
of their own. Secrets of scopes other than the brokers' and stores other than
files are left out of `Credentials`.

Three details of the live brokers and the updater are left out of modules that
model the rest, and no property depends on them: Binance rounds and raises a
quantity after the gate (`_normalize_order_quantity`), while the broker of `ScanRound`
fills what was gated; an order that a live broker answers as rejected or canceled
without raising is not an outcome of `ThesisExit`; and a dashboard that is started
from a staged copy takes that copy's location for its root (`app.py`), whereas
`Launch` in `Updater` always updates the installed tree.

---------------------------- MODULE PriceHistory ----------------------------
(***************************************************************************)
(* The prices a signal rests on. Every market's scanner warms its symbols  *)
(* up from bars that its broker may or may not send, records a bar for     *)
(* each live price and keeps the last prices in memory; the scanners of    *)
(* all markets keep their bars in one file, which a save reads whole and   *)
(* replaces under a lock (infra/market_data_store.py).                     *)
(*                                                                         *)
(* Time is counted in bars. A bar is known by its symbol and the time it   *)
(* opens, a price in memory by the time it was observed. Whether a market  *)
(* is open (MarketHours) and whether there is a signal is left open.       *)
(***************************************************************************)
EXTENDS Integers, FiniteSets, FiniteSetsExt, Sequences, SequencesExt

CONSTANTS
  Markets, Symbols,   \* markets, and the symbols of each
  WarmupBars,         \* bars asked for at a warm-up, 24 in the program
  Enough,             \* prices a signal needs, 3 in the program
  MaxHistory,         \* prices kept in memory, 12 in the program
  Refresh,            \* time between two requests for bars, 3 in the program
  Moments,            \* the times at which something happens; bounds the run
  MaxFaults           \* crashes in a run

NoOne == "no one"

ASSUME HistoryAssumption ==
  /\ NoOne \notin Markets
  /\ \A m \in Markets : IsFiniteSet(Symbols[m])
  /\ \A m, n \in Markets : m # n => Symbols[m] \cap Symbols[n] = {}
  /\ {WarmupBars, Enough, MaxHistory, Refresh} \subseteq Nat \ {0}
  /\ Enough <= MaxHistory
  /\ Moments \subseteq Nat /\ 0 \in Moments /\ MaxFaults \in Nat

VARIABLES
  now,
  file,        \* the bars in the file
  lock, copy,  \* the scanner that is saving, and what it has read of the file
  history,     \* _price_history
  refreshed,   \* _last_history_refresh_at
  scan,        \* where each scanner is
  faults

memory == <<history, refreshed>>
vars == <<now, file, lock, copy, history, refreshed, scan, faults>>

AllSymbols == UNION {Symbols[m] : m \in Markets}
Bar(s, t) == [symbol |-> s, opened |-> t]

Never == -1

-----------------------------------------------------------------------------
(* The store.                                                              *)

Opened(s) == {b.opened : b \in {c \in file : c.symbol = s}}

\* load with a limit: the last bars of the symbol, by the time they open.
LastOpened(s, limit) ==
  {t \in Opened(s) : Cardinality({u \in Opened(s) : u >= t}) <= limit}

\* _recent_contiguous_bars: back from the last one, up to a gap of more than
\* two bars.
Contiguous(times) ==
  {t \in times : \A u \in times :
     t <= u /\ u # Max(times) => \E v \in times : u < v /\ v - u <= 2}

-----------------------------------------------------------------------------
(* Memory.                                                                 *)

KeepLast(times) ==
  IF Len(times) > MaxHistory THEN SubSeq(times, Len(times) - MaxHistory + 1, Len(times)) ELSE times

Ascending(times) == SetToSortSeq(times, <)

\* Broken variant: whatever bars there are replace the prices in memory.
HydratedAlways(s) ==
  IF LastOpened(s, WarmupBars) # {} THEN KeepLast(Ascending(LastOpened(s, WarmupBars)))
                                    ELSE history[s]

\* _hydrate_price_history_from_bars, called when there are enough bars.
Hydrated(s) ==
  IF Cardinality(LastOpened(s, WarmupBars)) >= Enough
  THEN KeepLast(Ascending(LastOpened(s, WarmupBars))) ELSE history[s]

-----------------------------------------------------------------------------
(* A scan.                                                                 *)

Resting == [at |-> "rest", began |-> Never, todo |-> {}, symbol |-> NoOne, bars |-> {}]

At(m, place) == scan[m].at = place

BeginScan(m) ==
  /\ At(m, "rest")
  /\ scan' = [scan EXCEPT ![m].at = "warm", ![m].began = now, ![m].todo = Symbols[m]]
  /\ UNCHANGED <<now, file, lock, copy, memory, faults>>

\* Bars are asked for when some are missing or the last has closed for two.
Due(m, s) ==
  LET times == LastOpened(s, WarmupBars)
  IN  /\ refreshed[s] = Never \/ scan[m].began - refreshed[s] >= Refresh
      /\ \/ Cardinality(times) < WarmupBars
         \/ \A t \in times : t + 1 < scan[m].began - 2

\* The broker answers with the last bars at the time it is asked, which may be
\* later than the scan began, the one under way among them or not, or with none.
Answers(s) ==
  {{}} \cup {{Bar(s, t) : t \in (last - WarmupBars + 1)..last} : last \in {now - 1, now}}

AskForBars(m, s) ==
  /\ At(m, "warm") /\ s \in scan[m].todo /\ lock = NoOne
  /\ Due(m, s)
  /\ \E bars \in Answers(s) :
       scan' = [scan EXCEPT ![m].at = IF bars = {} THEN "hydrate" ELSE "warm bars",
                            ![m].symbol = s, ![m].bars = bars]
  /\ UNCHANGED <<now, file, lock, copy, memory, faults>>

WarmedUp(m, s) ==
  /\ lock = NoOne
  /\ history' = [history EXCEPT ![s] = Hydrated(s)]
  /\ scan' = [scan EXCEPT ![m] = [Resting EXCEPT !.at = "warm", !.began = scan[m].began,
                                                 !.todo = scan[m].todo \ {s}]]
  /\ UNCHANGED <<now, file, lock, copy, faults>>

UseStoredBars(m, s) ==
  /\ At(m, "warm") /\ s \in scan[m].todo
  /\ ~Due(m, s)
  /\ WarmedUp(m, s)
  /\ UNCHANGED refreshed

\* The bars have been saved, if there were any, and are read again.
UseNewBars(m) ==
  /\ At(m, "hydrate")
  /\ refreshed' = [refreshed EXCEPT ![scan[m].symbol] = scan[m].began]
  /\ WarmedUp(m, scan[m].symbol)

\* The market is closed and the scan ends, or some of the symbols have a quote.
EndWarmup(m) ==
  /\ At(m, "warm") /\ scan[m].todo = {}
  /\ \/ scan' = [scan EXCEPT ![m] = Resting]
     \/ \E quoted \in SUBSET Symbols[m] :
          scan' = [scan EXCEPT ![m].at = "look", ![m].todo = quoted]
  /\ UNCHANGED <<now, file, lock, copy, memory, faults>>

\* Broken variant: a symbol is looked at before its price is recorded.
LookUnrecorded(m, s) ==
  /\ At(m, "look") /\ s \in scan[m].todo
  /\ scan' = [scan EXCEPT ![m].at = "evaluate", ![m].symbol = s, ![m].todo = @ \ {s}]
  /\ UNCHANGED <<now, file, lock, copy, memory, faults>>

\* The live price of a symbol goes to the bar that was under way when the scan
\* began, though the file may hold a newer one by now.
Look(m, s) ==
  /\ At(m, "look") /\ s \in scan[m].todo /\ lock = NoOne
  /\ scan' = [scan EXCEPT ![m].at = "live bar", ![m].symbol = s, ![m].todo = @ \ {s},
                          ![m].bars = {Bar(s, scan[m].began)}]
  /\ UNCHANGED <<now, file, lock, copy, memory, faults>>

\* signal_diagnostics: the contiguous bars if they are enough, else the prices
\* in memory.
BarBasis(s) ==
  LET bars == Contiguous(LastOpened(s, MaxHistory))
  IN  IF Cardinality(bars) >= Enough THEN bars ELSE {}

\* The first signal ends the scan; a scan that does not trade has none.
Evaluate(m) ==
  /\ At(m, "evaluate") /\ lock = NoOne
  /\ history' = [history EXCEPT ![scan[m].symbol] = KeepLast(Append(@, scan[m].began))]
  /\ \/ scan' = [scan EXCEPT ![m] = Resting]
     \/ scan' = [scan EXCEPT ![m] = [Resting EXCEPT !.at = "look", !.began = scan[m].began,
                                                    !.todo = scan[m].todo]]
  /\ UNCHANGED <<now, file, lock, copy, refreshed, faults>>

EndScan(m) ==
  /\ At(m, "look") /\ scan[m].todo = {}
  /\ scan' = [scan EXCEPT ![m] = Resting]
  /\ UNCHANGED <<now, file, lock, copy, memory, faults>>

-----------------------------------------------------------------------------
(* A save: under the lock, the file is read, the bars are added and a       *)
(* temporary file takes its place.                                          *)

Saving(m) == At(m, "warm bars") \/ At(m, "live bar")

\* Broken variant: the file is read before the lock is taken.
ReadFileUnlocked(m) ==
  /\ Saving(m) /\ copy[m] = {}
  /\ copy' = [copy EXCEPT ![m] = file \cup scan[m].bars]
  /\ UNCHANGED <<now, file, lock, memory, scan, faults>>

ReadFile(m) ==
  /\ Saving(m) /\ lock = NoOne
  /\ lock' = m
  /\ copy' = [copy EXCEPT ![m] = file \cup scan[m].bars]
  /\ UNCHANGED <<now, file, memory, scan, faults>>

ReplaceFile(m) ==
  /\ Saving(m) /\ copy[m] # {}
  /\ file' = copy[m]
  /\ lock' = NoOne /\ copy' = [copy EXCEPT ![m] = {}]
  /\ scan' = [scan EXCEPT ![m].at = IF @ = "warm bars" THEN "hydrate" ELSE "evaluate",
                          ![m].bars = {}]
  /\ UNCHANGED <<now, memory, faults>>

-----------------------------------------------------------------------------
Tick ==
  /\ \E t \in Moments : now < t /\ now' = t
  /\ UNCHANGED <<file, lock, copy, memory, scan, faults>>

\* A request of the broker fails, the file cannot be replaced: the scan ends and
\* the lock is released.
Raise(m) ==
  /\ ~At(m, "rest")
  /\ faults < MaxFaults /\ faults' = faults + 1
  /\ scan' = [scan EXCEPT ![m] = Resting]
  /\ copy' = [copy EXCEPT ![m] = {}]
  /\ lock' = IF lock = m THEN NoOne ELSE lock
  /\ UNCHANGED <<now, file, memory>>

\* A temporary file is left behind that nobody reads.
Crash ==
  /\ faults < MaxFaults /\ faults' = faults + 1
  /\ scan' = [m \in Markets |-> Resting]
  /\ lock' = NoOne /\ copy' = [m \in Markets |-> {}]
  /\ history' = [s \in AllSymbols |-> <<>>]
  /\ refreshed' = [s \in AllSymbols |-> Never]
  /\ UNCHANGED <<now, file>>

Init ==
  /\ now = 0
  /\ file = {}
  /\ lock = NoOne /\ copy = [m \in Markets |-> {}]
  /\ history = [s \in AllSymbols |-> <<>>]
  /\ refreshed = [s \in AllSymbols |-> Never]
  /\ scan = [m \in Markets |-> Resting]
  /\ faults = 0

Scanner(m) ==
  \/ BeginScan(m) \/ UseNewBars(m) \/ EndWarmup(m) \/ Evaluate(m) \/ EndScan(m)
  \/ ReadFile(m) \/ ReplaceFile(m) \/ Raise(m)
  \/ \E s \in Symbols[m] : AskForBars(m, s) \/ UseStoredBars(m, s) \/ Look(m, s)

Next == Tick \/ Crash \/ \E m \in Markets : Scanner(m)

Spec == Init /\ [][Next]_vars

-----------------------------------------------------------------------------
(* Properties.                                                             *)

\* No bar that a scanner has saved is lost, to the scanner of another market
\* that saves to the same file meanwhile or to a crash
\* (market_data_store.py:84-89).
BarsAreKept == [][file \subseteq file']_vars

\* A signal that rests on bars rests on contiguous ones of which the last is no
\* older than the bar under way when the scan began: a price is recorded before
\* its symbol is evaluated (scanner_symbol_evaluator.py:255-258), and no save of
\* another market takes it away in between. The last may be newer, if the
\* broker was asked after that bar had closed (_warmup_market_history), but it is
\* never one that has not opened yet.
BasisIsCurrent ==
  \A m \in Markets : At(m, "evaluate") =>
    LET basis == BarBasis(scan[m].symbol)
    IN  basis # {} => /\ scan[m].began <= Max(basis) /\ Max(basis) <= now
                      /\ \A t \in basis \ {Max(basis)} : \E u \in basis : t < u /\ u - t <= 2

Ready(s) == Cardinality(Opened(s)) >= Enough \/ Len(history[s]) >= Enough

\* A symbol that is warmed up stays so for as long as the program runs, though
\* its prices in memory are thrown away for those of the file at every scan
\* (strategy_scanner.py:889-890, 990-1003).
ReadyStaysReady ==
  [][faults' = faults => \A s \in AllSymbols : Ready(s) => Ready(s)']_vars
=============================================================================

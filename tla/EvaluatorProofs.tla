-------------------------- MODULE EvaluatorProofs --------------------------
(***************************************************************************)
(* What an evaluation of a symbol rests on, and what it decides on a       *)
(* position: for any markets, symbols, limits, plans, prices and volume.   *)
(*                                                                         *)
(* Bars and prices. While a scanner holds the lock, its copy is the file   *)
(* and its own bars; the live bar of a scan is in the file when its symbol *)
(* is evaluated, and bars that are in the file for one moment are there    *)
(* for good; and none has yet to open.                                     *)
(*                                                                         *)
(* Exits. A trailing stop never loosens, and a thesis never books more     *)
(* than has left the position. That a scale-out does not loosen the stop   *)
(* cannot be seen from the scale-out: it sets the stop from the price of   *)
(* the moment. It follows from StageInv. A price that reaches the trigger  *)
(* of the next stage is never made the anchor, because the evaluator then  *)
(* answers with a scale-out instead; so the price of a scale-out is always *)
(* beyond the anchor. Each stage after the first is measured from the one  *)
(* before, so that all cover the costs if the first does, which the tables *)
(* see to.                                                                 *)
(***************************************************************************)
EXTENDS PriceHistory, ThesisExit, FiniteSetTheorems, TLAPS

Made == INSTANCE ExitPlans

-----------------------------------------------------------------------------
(* The bars and prices a signal rests on. *)

AnyBar == [symbol : AllSymbols, opened : Int]

ScanPlaces == {"rest", "warm", "warm bars", "hydrate", "look", "live bar", "evaluate"}

ScanType == [at : ScanPlaces, began : Int, todo : SUBSET AllSymbols,
         symbol : AllSymbols \cup {NoOne}, bars : SUBSET AnyBar]

\* No bar is older than the first warm-up may ask for, none is newer than n.
Between(bars, n) == \A b \in bars : -WarmupBars <= b.opened /\ b.opened <= n

TypeInv ==
  /\ now \in Nat
  /\ file \in SUBSET AnyBar
  /\ copy = [m \in Markets |-> copy[m]]
  /\ history = [s \in AllSymbols |-> history[s]]
  /\ scan \in [Markets -> ScanType]

\* What scan x of m has in hand, at time n and with file f.
Fits(m, x, n, f) ==
  /\ x.todo \subseteq Symbols[m]
  /\ x.at \in {"warm bars", "live bar", "hydrate", "evaluate"} => x.symbol \in Symbols[m]
  /\ x.at # "rest" => x.began \in Nat /\ x.began <= n
  /\ x.bars # {} => x.at \in {"warm bars", "live bar"}
  /\ Between(x.bars, n)
  /\ x.at = "live bar" => x.bars = {Bar(x.symbol, x.began)}
  /\ x.at = "evaluate" => Bar(x.symbol, x.began) \in f

ScansFit == \A m \in Markets : Fits(m, scan[m], now, file)

\* A scanner that has read the file holds the lock.
LockInv ==
  \A m \in Markets : copy[m] # {} => lock = m /\ Saving(m) /\ copy[m] = file \cup scan[m].bars

FileInv == Between(file, now)

\* The prices in memory are a sequence, until they are replaced by bars.
HistoryInv ==
  \A s \in AllSymbols : history[s] \in Seq(Int) \/ Cardinality(Opened(s)) >= Enough

Inv ==
  TypeInv /\ ScansFit /\ LockInv /\ FileInv /\ HistoryInv

-----------------------------------------------------------------------------
(* Sets of bars.                                                           *)

LEMMA Limits ==
  /\ WarmupBars \in Nat /\ Enough \in Nat /\ MaxHistory \in Nat
  /\ WarmupBars > 0 /\ Enough > 0 /\ Enough <= MaxHistory
  /\ NoOne \notin Markets
  /\ \A m, n \in Markets : m # n => Symbols[m] \cap Symbols[n] = {}
  /\ Moments \subseteq Nat
  BY HistoryAssumption

LEMMA MaxIs ==
  ASSUME NEW S \in SUBSET Int, NEW x \in S, \A y \in S : y <= x
  PROVE  Max(S) = x
  <1>1. \A y \in S : x >= y
    OBVIOUS
  <1>2. ASSUME NEW z \in S, \A y \in S : z >= y PROVE z = x
    BY <1>2
  <1>. QED  BY <1>1, <1>2 DEF Max

\* A finite set of integers has a greatest one: the numbers from the greatest
\* on are the fewest.
LEMMA FiniteHasGreatest ==
  ASSUME NEW S \in SUBSET Int, IsFiniteSet(S), S # {}
  PROVE  \E t \in S : \A u \in S : u <= t
  <1>. DEFINE From(t) == {u \in S : t <= u}
              T == {From(t) : t \in S}
              R == StrictSubsetOrdering(S)
  <1>1. IsWellFoundedOn(R, SUBSET S)
    <2>1. IsWellFoundedOn(R, FiniteSubsetsOf(S))
      BY FS_StrictSubsetOrderingWellFounded
    <2>2. FiniteSubsetsOf(S) = SUBSET S
      BY FS_FiniteSubsetsOfFinite
    <2>. QED  BY <2>1, <2>2
  <1>2. T \subseteq SUBSET S /\ T # {}
    OBVIOUS
  <1>3. PICK x \in T : \A y \in T : ~ (<<y, x>> \in R)
    <2>. HIDE DEF T, R
    <2>. QED  BY <1>1, <1>2, WFMin
  <1>4. PICK t \in S : x = From(t)
    OBVIOUS
  <1>5. ASSUME NEW u \in S, ~(u <= t) PROVE FALSE
    <2>1. t < u /\ t \in Int /\ u \in Int
      BY <1>5
    <2>2. From(u) \subseteq From(t)
      <3>1. ASSUME NEW v \in S, u <= v PROVE t <= v
        <4>1. v \in Int
          OBVIOUS
        <4>. QED  BY <2>1, <3>1, <4>1
      <3>. QED  BY <3>1
    <2>3. t \in From(t) /\ t \notin From(u)
      BY <2>1
    <2>4. From(u) \in SUBSET S /\ From(t) \in SUBSET S /\ From(u) \in T
      OBVIOUS
    <2>. HIDE DEF From, T
    <2>5. From(u) # From(t)
      BY <2>3
    <2>6. <<From(u), From(t)>> \in R
      BY <2>2, <2>4, <2>5 DEF StrictSubsetOrdering
    <2>. QED  BY <1>3, <1>4, <2>4, <2>6
  <1>. QED  BY <1>5

\* The bars of a symbol are few enough to be counted.
LEMMA OpenedIsFinite ==
  ASSUME TypeInv, FileInv, NEW s \in AllSymbols
  PROVE  /\ IsFiniteSet(Opened(s)) /\ Opened(s) \subseteq Int
         /\ \A t \in Opened(s) : t <= now
  <1>. DEFINE range == (-WarmupBars)..now
  <1>1. now \in Nat /\ \A b \in file : b.opened \in Int /\ -WarmupBars <= b.opened /\ b.opened <= now
    BY DEF TypeInv, FileInv, Between, AnyBar
  <1>2. Opened(s) \in SUBSET range
    BY <1>1, Limits DEF Opened
  <1>3. IsFiniteSet(range)
    BY <1>1, Limits, FS_Interval
  <1>4. Opened(s) \subseteq Int /\ \A t \in Opened(s) : t <= now
    BY <1>1 DEF Opened
  <1>. HIDE DEF range
  <1>. QED  BY <1>2, <1>3, <1>4, FS_Subset

\* Some of a symbol's bars are no more than all of them.
LEMMA LastAreFewer ==
  ASSUME NEW s, IsFiniteSet(Opened(s)), NEW limit
  PROVE  /\ LastOpened(s, limit) \subseteq Opened(s)
         /\ Cardinality(LastOpened(s, limit)) \in Nat /\ Cardinality(Opened(s)) \in Nat
         /\ Cardinality(LastOpened(s, limit)) <= Cardinality(Opened(s))
  <1>1. LastOpened(s, limit) \in SUBSET Opened(s)
    BY DEF LastOpened
  <1>2. IsFiniteSet(LastOpened(s, limit)) /\ Cardinality(LastOpened(s, limit)) <= Cardinality(Opened(s))
    BY <1>1, FS_Subset
  <1>3. Cardinality(Opened(s)) \in Nat
    BY FS_CardinalityType
  <1>4. Cardinality(LastOpened(s, limit)) \in Nat
    BY <1>2, FS_CardinalityType
  <1>. QED  BY <1>1, <1>2, <1>3, <1>4

LEMMA BarsAreFinite ==
  ASSUME Inv, NEW m \in Markets, NEW s \in Symbols[m]
  PROVE  /\ s \in AllSymbols
         /\ IsFiniteSet(Opened(s)) /\ Opened(s) \subseteq Int
         /\ \A t \in Opened(s) : t <= now
  <1>1. s \in AllSymbols
    BY DEF AllSymbols
  <1>. QED  BY <1>1, OpenedIsFinite DEF Inv

-----------------------------------------------------------------------------
(* The steps.                                                              *)

\* A scanner that holds nothing of the file moves on.
LEMMA OneScans ==
  ASSUME Inv, NEW m \in Markets, ~Saving(m), UNCHANGED <<now, file, lock, copy>>,
         scan' \in [Markets -> ScanType], \A n \in Markets \ {m} : scan'[n] = scan[n],
         Fits(m, scan'[m], now, file),
         history' = [s \in AllSymbols |-> history'[s]],
         \A s \in AllSymbols : history'[s] \in Seq(Int) \/ Cardinality(Opened(s)) >= Enough
  PROVE  Inv'
  <1>1. TypeInv'
    BY DEF Inv, TypeInv
  <1>2. ScansFit'
    <2>1. \A n \in Markets : Fits(n, scan'[n], now, file)
      BY DEF Inv, ScansFit
    <2>. QED  BY <2>1 DEF ScansFit
  <1>3. LockInv'
    BY DEF Inv, LockInv, Saving, At
  <1>4. FileInv'
    BY DEF Inv, FileInv, Between
  <1>5. HistoryInv'
    BY DEF HistoryInv, Opened
  <1>. QED  BY <1>1, <1>2, <1>3, <1>4, <1>5 DEF Inv

\* And leaves the prices in memory alone.
LEMMA OneScansOn ==
  ASSUME Inv, NEW m \in Markets, ~Saving(m), UNCHANGED <<now, file, lock, copy, history>>,
         scan' \in [Markets -> ScanType], \A n \in Markets \ {m} : scan'[n] = scan[n],
         Fits(m, scan'[m], now, file)
  PROVE  Inv'
  <1>1. history' = [s \in AllSymbols |-> history'[s]]
        /\ \A s \in AllSymbols : history'[s] \in Seq(Int) \/ Cardinality(Opened(s)) >= Enough
    BY DEF Inv, TypeInv, HistoryInv
  <1>. QED  BY <1>1, OneScans

LEMMA RestingFits ==
  /\ Resting \in ScanType /\ Resting.at = "rest" /\ Resting.bars = {} /\ Resting.todo = {}
  /\ \A m, n, f : Fits(m, Resting, n, f)
  <1>1. Resting \in ScanType /\ Resting.at = "rest" /\ Resting.bars = {} /\ Resting.todo = {}
    BY DEF Resting, ScanType, ScanPlaces, Never
  <1>. QED  BY <1>1 DEF Fits, Between

LEMMA Scanning ==
  ASSUME Inv, NEW m \in Markets
  PROVE  /\ scan \in [Markets -> ScanType] /\ scan[m] \in ScanType /\ now \in Nat
         /\ Fits(m, scan[m], now, file)
         /\ scan[m].bars # {} => Saving(m)
         /\ ~At(m, "rest") => scan[m].began \in Nat /\ scan[m].began <= now
         /\ Symbols[m] \subseteq AllSymbols
  BY DEF Inv, TypeInv, ScansFit, Fits, AllSymbols, Saving, At

LEMMA BeginScanStep ==
  ASSUME Inv, NEW m \in Markets, BeginScan(m)
  PROVE  Inv'
  <1>1. At(m, "rest") /\ ~Saving(m) /\ scan[m].bars = {}
    BY Scanning DEF BeginScan, Saving, At
  <1>2. scan' \in [Markets -> ScanType]
    <2>1. now \in Int /\ Symbols[m] \in SUBSET AllSymbols /\ scan \in [Markets -> ScanType]
      BY Scanning
    <2>2. "warm" \in ScanPlaces
      BY DEF ScanPlaces
    <2>. QED  BY <2>1, <2>2, ZenonT(30) DEF BeginScan, ScanType
  <1>3. /\ scan'[m].at = "warm" /\ scan'[m].began = now /\ scan'[m].todo = Symbols[m]
        /\ scan'[m].bars = {}
        /\ \A n \in Markets \ {m} : scan'[n] = scan[n]
    BY <1>1, Scanning DEF BeginScan, ScanType
  <1>4. now \in Nat /\ now <= now
    BY Scanning
  <1>5. Fits(m, scan'[m], now, file)
    BY <1>3, <1>4 DEF Fits, Between
  <1>. QED  BY <1>1, <1>2, <1>3, <1>4, <1>5, OneScansOn DEF BeginScan, memory

LEMMA EndScanStep ==
  ASSUME Inv, NEW m \in Markets, EndScan(m)
  PROVE  Inv'
  <1>1. ~Saving(m)
    BY DEF EndScan, Saving, At
  <1>2. scan' \in [Markets -> ScanType] /\ scan'[m] = Resting
        /\ \A n \in Markets \ {m} : scan'[n] = scan[n]
    BY Scanning, RestingFits DEF EndScan
  <1>. QED  BY <1>1, <1>2, RestingFits, OneScansOn DEF EndScan, memory

LEMMA EndWarmupStep ==
  ASSUME Inv, NEW m \in Markets, EndWarmup(m)
  PROVE  Inv'
  <1>1. ~Saving(m) /\ ~At(m, "rest") /\ scan[m].bars = {}
    BY Scanning DEF EndWarmup, Saving, At
  <1>2. CASE scan' = [scan EXCEPT ![m] = Resting]
    <2>1. scan' \in [Markets -> ScanType] /\ scan'[m] = Resting
          /\ \A n \in Markets \ {m} : scan'[n] = scan[n]
      BY <1>2, Scanning, RestingFits
    <2>. QED  BY <1>1, <2>1, RestingFits, OneScansOn DEF EndWarmup, memory
  <1>3. ASSUME NEW quoted \in SUBSET Symbols[m],
               scan' = [scan EXCEPT ![m].at = "look", ![m].todo = quoted]
        PROVE  Inv'
    <2>1. quoted \in SUBSET AllSymbols
      BY Scanning
    <2>2. scan' \in [Markets -> ScanType]
      BY <1>3, <2>1, Scanning, ZenonT(90) DEF ScanType, ScanPlaces
    <2>3. /\ scan'[m].at = "look" /\ scan'[m].began = scan[m].began /\ scan'[m].todo = quoted
          /\ scan'[m].bars = {}
          /\ \A n \in Markets \ {m} : scan'[n] = scan[n]
      BY <1>1, <1>3, Scanning DEF ScanType
    <2>4. scan[m].began \in Nat /\ scan[m].began <= now
      BY <1>1, Scanning DEF Fits, At
    <2>5. Fits(m, scan'[m], now, file)
      BY <2>3, <2>4 DEF Fits, Between
    <2>. QED  BY <1>1, <2>2, <2>3, <2>4, <2>5, OneScansOn DEF EndWarmup, memory
  <1>. QED  BY <1>2, <1>3 DEF EndWarmup

LEMMA LookStep ==
  ASSUME Inv, NEW m \in Markets, NEW s \in Symbols[m], Look(m, s)
  PROVE  Inv'
  <1>1. ~Saving(m) /\ ~At(m, "rest")
    BY DEF Look, Saving, At
  <1>2. /\ scan[m].began \in Nat /\ scan[m].began <= now
        /\ scan[m].todo \subseteq Symbols[m] /\ s \in AllSymbols
    BY <1>1, Scanning DEF Fits, At
  <1>3. {Bar(s, scan[m].began)} \in SUBSET AnyBar
    BY <1>2 DEF Bar, AnyBar
  <1>4. scan' \in [Markets -> ScanType]
    <2>. DEFINE bars == {Bar(s, scan[m].began)}
                rest == scan[m].todo \ {s}
    <2>1. scan' = [scan EXCEPT ![m].at = "live bar", ![m].symbol = s, ![m].todo = rest,
                               ![m].bars = bars]
      BY DEF Look
    <2>2. bars \in SUBSET AnyBar
      BY <1>3
    <2>3. rest \in SUBSET AllSymbols /\ scan \in [Markets -> ScanType]
      BY <1>2, Scanning
    <2>4. "live bar" \in ScanPlaces /\ s \in AllSymbols \cup {NoOne}
      BY <1>2 DEF ScanPlaces
    <2>. HIDE DEF bars, rest
    <2>. DEFINE looked == [scan EXCEPT ![m].at = "live bar", ![m].symbol = s]
    <2>5. looked \in [Markets -> ScanType]
      BY <2>3, <2>4 DEF ScanType
    <2>6. scan' = [looked EXCEPT ![m].todo = rest, ![m].bars = bars]
      BY <2>1
    <2>. HIDE DEF looked
    <2>. QED  BY <2>2, <2>3, <2>5, <2>6, ZenonT(30) DEF ScanType
  <1>5. /\ scan'[m].at = "live bar" /\ scan'[m].began = scan[m].began
        /\ scan'[m].todo = scan[m].todo \ {s} /\ scan'[m].symbol = s
        /\ scan'[m].bars = {Bar(s, scan[m].began)}
        /\ \A n \in Markets \ {m} : scan'[n] = scan[n]
    BY Scanning DEF Look, ScanType
  <1>6. Fits(m, scan'[m], now, file)
    <2>1. \A b \in scan'[m].bars : b.symbol = s /\ b.opened = scan[m].began
      <3>1. Bar(s, scan[m].began).symbol = s /\ Bar(s, scan[m].began).opened = scan[m].began
        BY DEF Bar
      <3>. QED  BY <1>5, <3>1
    <2>2. -WarmupBars <= scan[m].began /\ scan[m].began <= now
      BY <1>2, Limits
    <2>3. Between(scan'[m].bars, now)
      BY <1>5, <2>1, <2>2 DEF Between
    <2>. QED  BY <1>2, <1>5, <2>3 DEF Fits
  <1>. QED  BY <1>1, <1>2, <1>4, <1>5, <1>6, OneScansOn DEF Look, memory

\* Whatever the broker answers with is in time.
LEMMA AnswersFit ==
  ASSUME Inv, NEW m \in Markets, NEW s \in Symbols[m], NEW bars \in Answers(s)
  PROVE  bars \in SUBSET AnyBar /\ Between(bars, now)
  <1>1. now \in Nat /\ s \in AllSymbols
    BY Scanning
  <1>2. CASE bars = {}
    BY <1>2 DEF Between
  <1>3. CASE bars # {}
    <2>1. PICK last \in {now - 1, now} : bars = {Bar(s, t) : t \in (last - WarmupBars + 1)..last}
      BY <1>3 DEF Answers
    <2>2. ASSUME NEW b \in bars
          PROVE  b \in AnyBar /\ -WarmupBars <= b.opened /\ b.opened <= now
      <3>1. PICK t \in (last - WarmupBars + 1)..last : b = Bar(s, t)
        BY <2>1
      <3>2. b.opened = t
        BY <3>1 DEF Bar
      <3>3. last \in Int /\ now - 1 <= last /\ last <= now
        BY <1>1, <2>1
      <3>4. t \in Int /\ -WarmupBars <= t /\ t <= now
        BY <1>1, <3>3, Limits
      <3>5. b \in AnyBar
        BY <1>1, <3>1, <3>4 DEF Bar, AnyBar
      <3>. QED  BY <3>2, <3>4, <3>5
    <2>. QED  BY <2>2 DEF Between
  <1>. QED  BY <1>2, <1>3

LEMMA AskForBarsStep ==
  ASSUME Inv, NEW m \in Markets, NEW s \in Symbols[m], AskForBars(m, s)
  PROVE  Inv'
  <1>1. ~Saving(m) /\ ~At(m, "rest")
    BY DEF AskForBars, Saving, At
  <1>2. PICK bars \in Answers(s) :
          scan' = [scan EXCEPT ![m].at = IF bars = {} THEN "hydrate" ELSE "warm bars",
                               ![m].symbol = s, ![m].bars = bars]
    BY DEF AskForBars
  <1>3. bars \in SUBSET AnyBar /\ Between(bars, now)
    BY AnswersFit
  <1>4. /\ scan[m].began \in Nat /\ scan[m].began <= now
        /\ scan[m].todo \subseteq Symbols[m] /\ s \in AllSymbols
    BY <1>1, Scanning DEF Fits, At
  <1>. DEFINE place == IF bars = {} THEN "hydrate" ELSE "warm bars"
  <1>5. place \in ScanPlaces /\ place \in {"hydrate", "warm bars"} /\ (bars # {} => place = "warm bars")
    BY DEF ScanPlaces
  <1>6. scan' = [scan EXCEPT ![m].at = place, ![m].symbol = s, ![m].bars = bars]
    BY <1>2
  <1>. HIDE DEF place
  <1>7. scan' \in [Markets -> ScanType]
    <2>. DEFINE asked == [scan EXCEPT ![m].at = place, ![m].symbol = s]
    <2>1. asked \in [Markets -> ScanType]
      BY <1>4, <1>5, Scanning DEF ScanType
    <2>2. scan' = [asked EXCEPT ![m].bars = bars]
      BY <1>6
    <2>. HIDE DEF asked
    <2>. QED  BY <1>3, <2>1, <2>2 DEF ScanType
  <1>8. /\ scan'[m].at = place /\ scan'[m].began = scan[m].began
        /\ scan'[m].todo = scan[m].todo /\ scan'[m].symbol = s /\ scan'[m].bars = bars
        /\ \A n \in Markets \ {m} : scan'[n] = scan[n]
    BY <1>6, Scanning DEF ScanType
  <1>9. Fits(m, scan'[m], now, file)
    BY <1>3, <1>4, <1>5, <1>8 DEF Fits
  <1>. QED  BY <1>1, <1>4, <1>7, <1>8, <1>9, OneScansOn DEF AskForBars, memory

LEMMA WarmedUpStep ==
  ASSUME Inv, NEW m \in Markets, NEW s \in Symbols[m], ~Saving(m), ~At(m, "rest"), WarmedUp(m, s)
  PROVE  Inv'
  <1>. DEFINE began == scan[m].began
              rest == scan[m].todo \ {s}
              x == [Resting EXCEPT !.at = "warm", !.began = began, !.todo = rest]
  <1>1. /\ began \in Nat /\ began <= now /\ rest \subseteq Symbols[m]
        /\ rest \in SUBSET AllSymbols
    BY Scanning DEF Fits, At
  <1>2. scan' = [scan EXCEPT ![m] = x]
    BY DEF WarmedUp
  <1>. HIDE DEF began, rest
  <1>3. x \in ScanType
    <2>1. "warm" \in ScanPlaces
      BY DEF ScanPlaces
    <2>2. Resting \in ScanType /\ began \in Int
      BY <1>1, RestingFits
    <2>. QED  BY <1>1, <2>1, <2>2 DEF ScanType
  <1>4. x.at = "warm" /\ x.began = began /\ x.todo = rest /\ x.bars = {}
    BY RestingFits DEF ScanType
  <1>. HIDE DEF x
  <1>5. scan' \in [Markets -> ScanType] /\ scan'[m] = x /\ \A n \in Markets \ {m} : scan'[n] = scan[n]
    BY <1>2, <1>3, Scanning
  <1>6. Fits(m, x, now, file)
    BY <1>1, <1>4 DEF Fits, Between
  <1>7. history' = [history EXCEPT ![s] = Hydrated(s)]
    BY DEF WarmedUp
  <1>8. history' = [r \in AllSymbols |-> history'[r]]
    BY <1>7 DEF Inv, TypeInv
  <1>9. ASSUME NEW r \in AllSymbols
        PROVE  history'[r] \in Seq(Int) \/ Cardinality(Opened(r)) >= Enough
    <2>1. CASE history'[r] = history[r]
      BY <2>1 DEF Inv, HistoryInv
    <2>2. CASE history'[r] # history[r]
      <3>1. r = s /\ Hydrated(s) # history[s]
        BY <1>7, <2>2 DEF Inv, TypeInv
      <3>2. Cardinality(LastOpened(s, WarmupBars)) >= Enough
        BY <3>1 DEF Hydrated
      <3>3. Cardinality(LastOpened(s, WarmupBars)) <= Cardinality(Opened(s))
            /\ Cardinality(LastOpened(s, WarmupBars)) \in Nat /\ Cardinality(Opened(s)) \in Nat
        BY BarsAreFinite, LastAreFewer
      <3>. QED  BY <3>1, <3>2, <3>3, Limits
    <2>. QED  BY <2>1, <2>2
  <1>. QED  BY <1>1, <1>4, <1>5, <1>6, <1>8, <1>9, OneScans DEF WarmedUp

LEMMA UseStoredBarsStep ==
  ASSUME Inv, NEW m \in Markets, NEW s \in Symbols[m], UseStoredBars(m, s)
  PROVE  Inv'
  <1>1. ~Saving(m) /\ ~At(m, "rest") /\ WarmedUp(m, s)
    BY DEF UseStoredBars, Saving, At
  <1>. QED  BY <1>1, WarmedUpStep

LEMMA UseNewBarsStep ==
  ASSUME Inv, NEW m \in Markets, UseNewBars(m)
  PROVE  Inv'
  <1>1. ~Saving(m) /\ ~At(m, "rest") /\ WarmedUp(m, scan[m].symbol)
    BY DEF UseNewBars, Saving, At
  <1>2. scan[m].symbol \in Symbols[m]
    BY Scanning DEF UseNewBars, At, Fits
  <1>. QED  BY <1>1, <1>2, WarmedUpStep

LEMMA KeptLast ==
  ASSUME NEW times \in Seq(Int)
  PROVE  /\ KeepLast(times) \in Seq(Int)
         /\ Len(times) >= Enough => Len(KeepLast(times)) >= Enough
  <1>1. Len(times) \in Nat
    OBVIOUS
  <1>2. CASE Len(times) > MaxHistory
    <2>1. KeepLast(times) = SubSeq(times, Len(times) - MaxHistory + 1, Len(times))
      BY <1>2 DEF KeepLast
    <2>2. Len(times) - MaxHistory + 1 \in 1..Len(times) /\ Len(times) - (Len(times) - MaxHistory + 1) + 1 = MaxHistory
      BY <1>1, <1>2, Limits
    <2>3. KeepLast(times) \in Seq(Int) /\ Len(KeepLast(times)) = MaxHistory
      BY <1>1, <2>1, <2>2
    <2>. QED  BY <2>3, Limits
  <1>3. CASE ~(Len(times) > MaxHistory)
    BY <1>3 DEF KeepLast
  <1>. QED  BY <1>2, <1>3

LEMMA EvaluateStep ==
  ASSUME Inv, NEW m \in Markets, Evaluate(m)
  PROVE  Inv'
  <1>. DEFINE s == scan[m].symbol
              began == scan[m].began
              todo == scan[m].todo
              x == [Resting EXCEPT !.at = "look", !.began = began, !.todo = todo]
  <1>1. ~Saving(m) /\ ~At(m, "rest")
    BY DEF Evaluate, Saving, At
  <1>2. /\ began \in Nat /\ began <= now /\ todo \subseteq Symbols[m]
        /\ todo \in SUBSET AllSymbols /\ s \in AllSymbols
    BY <1>1, Scanning DEF Fits, At, Evaluate
  <1>3. scan' = [scan EXCEPT ![m] = Resting] \/ scan' = [scan EXCEPT ![m] = x]
    BY DEF Evaluate
  <1>4. history' = [history EXCEPT ![s] = KeepLast(Append(history[s], began))]
    BY <1>2 DEF Evaluate, Inv, TypeInv
  <1>. HIDE DEF began, todo, s
  <1>5. x \in ScanType
    <2>1. "look" \in ScanPlaces
      BY DEF ScanPlaces
    <2>2. Resting \in ScanType /\ began \in Int
      BY <1>2, RestingFits
    <2>. QED  BY <1>2, <2>1, <2>2 DEF ScanType
  <1>6. x.at = "look" /\ x.began = began /\ x.todo = todo /\ x.bars = {}
    BY RestingFits DEF ScanType
  <1>. HIDE DEF x
  <1>7. /\ scan' \in [Markets -> ScanType] /\ scan'[m] \in {Resting, x}
        /\ \A n \in Markets \ {m} : scan'[n] = scan[n]
    BY <1>3, <1>5, RestingFits, Scanning
  <1>8. Fits(m, x, now, file)
    BY <1>2, <1>6 DEF Fits, Between
  <1>9. history' = [r \in AllSymbols |-> history'[r]]
    BY <1>4 DEF Inv, TypeInv
  <1>10. ASSUME NEW r \in AllSymbols
         PROVE  history'[r] \in Seq(Int) \/ Cardinality(Opened(r)) >= Enough
    <2>1. CASE r # s \/ Cardinality(Opened(r)) >= Enough
      BY <1>4, <2>1 DEF Inv, TypeInv, HistoryInv
    <2>2. CASE r = s /\ ~(Cardinality(Opened(r)) >= Enough)
      <3>1. history[s] \in Seq(Int) /\ began \in Int
        BY <1>2, <2>2 DEF Inv, HistoryInv
      <3>2. Append(history[s], began) \in Seq(Int)
        BY <3>1
      <3>. QED  BY <1>2, <1>4, <2>2, <3>2, KeptLast DEF Inv, TypeInv
    <2>. QED  BY <2>1, <2>2
  <1>11. UNCHANGED <<now, file, lock, copy>>
    BY DEF Evaluate
  <1>. QED  BY <1>1, <1>2, <1>6, <1>7, <1>8, <1>9, <1>10, <1>11, RestingFits, OneScans

LEMMA ReadFileStep ==
  ASSUME Inv, NEW m \in Markets, ReadFile(m)
  PROVE  Inv'
  <1>1. UNCHANGED <<now, file, history, scan>> /\ lock = NoOne /\ lock' = m /\ Saving(m)
        /\ copy' = [copy EXCEPT ![m] = file \cup scan[m].bars]
    BY DEF ReadFile, memory
  <1>2. \A n \in Markets : copy[n] = {}
    BY <1>1, Limits DEF Inv, LockInv
  <1>3. copy' = [n \in Markets |-> IF n = m THEN file \cup scan[m].bars ELSE {}]
    BY <1>1, <1>2 DEF Inv, TypeInv
  <1>4. LockInv'
    BY <1>1, <1>3 DEF LockInv, Saving, At
  <1>5. TypeInv' /\ ScansFit' /\ FileInv' /\ HistoryInv'
    BY <1>1, <1>3 DEF Inv, TypeInv, ScansFit, FileInv, HistoryInv, Between, At, Opened
  <1>. QED  BY <1>4, <1>5 DEF Inv

\* More bars are no fewer bars.
LEMMA OpenedGrows ==
  ASSUME TypeInv', FileInv', file \subseteq file', NEW s \in AllSymbols
  PROVE  Cardinality(Opened(s)) >= Enough => Cardinality(Opened(s)') >= Enough
  <1>1. IsFiniteSet(Opened(s)')
    <2>. DEFINE range == (-WarmupBars)..now'
    <2>1. now' \in Nat
          /\ \A b \in file' : b.opened \in Int /\ -WarmupBars <= b.opened /\ b.opened <= now'
      BY DEF TypeInv, FileInv, Between, AnyBar
    <2>2. Opened(s)' \in SUBSET range
      BY <2>1, Limits DEF Opened
    <2>3. IsFiniteSet(range)
      BY <2>1, Limits, FS_Interval
    <2>. HIDE DEF range
    <2>. QED  BY <2>2, <2>3, FS_Subset
  <1>2. Opened(s) \in SUBSET Opened(s)'
    BY DEF Opened
  <1>3. IsFiniteSet(Opened(s)) /\ Cardinality(Opened(s)) <= Cardinality(Opened(s)')
    BY <1>1, <1>2, FS_Subset
  <1>4. Cardinality(Opened(s)) \in Nat /\ Cardinality(Opened(s)') \in Nat
    BY <1>1, <1>3, FS_CardinalityType
  <1>. QED  BY <1>3, <1>4, Limits

LEMMA ReplaceFileStep ==
  ASSUME Inv, NEW m \in Markets, ReplaceFile(m)
  PROVE  Inv' /\ file \subseteq file'
  <1>. DEFINE began == scan[m].began
              place == IF scan[m].at = "warm bars" THEN "hydrate" ELSE "evaluate"
              bars == scan[m].bars
  <1>1. Saving(m) /\ copy[m] # {} /\ UNCHANGED <<now, history>>
        /\ lock' = NoOne /\ copy' = [copy EXCEPT ![m] = {}] /\ file' = copy[m]
    BY DEF ReplaceFile, memory
  <1>2. lock = m /\ file' = file \cup bars /\ \A n \in Markets \ {m} : copy[n] = {}
    BY <1>1 DEF Inv, LockInv
  <1>3. scan' = [scan EXCEPT ![m].at = place, ![m].bars = {}]
    BY Scanning DEF ReplaceFile
  <1>4. /\ bars \in SUBSET AnyBar /\ Between(bars, now)
        /\ began \in Nat /\ began <= now /\ scan[m].symbol \in Symbols[m]
        /\ scan[m].todo \subseteq Symbols[m]
    BY <1>1, Scanning DEF Saving, At, Fits, ScanType
  <1>5. place \in ScanPlaces /\ place \in {"hydrate", "evaluate"}
        /\ (place = "evaluate" => scan[m].at = "live bar")
    BY <1>1 DEF ScanPlaces, Saving, At
  <1>6. place = "evaluate" => Bar(scan[m].symbol, began) \in file'
    BY <1>2, <1>5, Scanning DEF Fits
  <1>. HIDE DEF began, place, bars
  <1>7. scan' \in [Markets -> ScanType]
    BY <1>3, <1>5, Scanning, ZenonT(30) DEF ScanType
  <1>8. /\ scan'[m].at = place /\ scan'[m].began = began /\ scan'[m].symbol = scan[m].symbol
        /\ scan'[m].todo = scan[m].todo /\ scan'[m].bars = {}
        /\ \A n \in Markets \ {m} : scan'[n] = scan[n]
    BY <1>3, Scanning DEF ScanType, began
  <1>9. TypeInv'
    BY <1>1, <1>2, <1>4, <1>7 DEF Inv, TypeInv
  <1>10. ScansFit'
    <2>1. ASSUME NEW n \in Markets \ {m} PROVE Fits(n, scan'[n], now, file')
      <3>1. Fits(n, scan[n], now, file) /\ scan'[n] = scan[n]
        BY <1>8, Scanning
      <3>. QED  BY <1>2, <3>1 DEF Fits
    <2>2. Fits(m, scan'[m], now, file')
      BY <1>4, <1>5, <1>6, <1>8 DEF Fits, Between
    <2>. QED  BY <1>1, <2>1, <2>2 DEF ScansFit
  <1>11. LockInv'
    BY <1>1, <1>2 DEF Inv, TypeInv, LockInv
  <1>12. FileInv'
    BY <1>1, <1>2, <1>4 DEF Inv, FileInv, Between
  <1>13. HistoryInv'
    BY <1>1, <1>2, <1>9, <1>12, OpenedGrows DEF Inv, HistoryInv
  <1>. QED  BY <1>2, <1>9, <1>10, <1>11, <1>12, <1>13 DEF Inv

LEMMA RaiseStep ==
  ASSUME Inv, NEW m \in Markets, Raise(m)
  PROVE  Inv'
  <1>1. UNCHANGED <<now, file, history>> /\ scan' = [scan EXCEPT ![m] = Resting]
        /\ copy' = [copy EXCEPT ![m] = {}] /\ lock' = IF lock = m THEN NoOne ELSE lock
    BY DEF Raise, memory
  <1>2. scan' \in [Markets -> ScanType] /\ scan'[m] = Resting
        /\ \A n \in Markets \ {m} : scan'[n] = scan[n]
    BY <1>1, RestingFits, Scanning
  <1>3. TypeInv' /\ HistoryInv'
    BY <1>1, <1>2 DEF Inv, TypeInv, HistoryInv, Opened
  <1>4. ScansFit'
    <2>1. \A n \in Markets : Fits(n, scan'[n], now, file)
      BY <1>2, RestingFits, Scanning
    <2>. QED  BY <1>1, <2>1 DEF ScansFit
  <1>5. LockInv'
    BY <1>1, <1>2 DEF Inv, TypeInv, LockInv, Saving, At
  <1>6. FileInv'
    BY <1>1 DEF Inv, FileInv, Between
  <1>. QED  BY <1>3, <1>4, <1>5, <1>6 DEF Inv

LEMMA CrashStep ==
  ASSUME Inv, Crash
  PROVE  Inv'
  <1>1. UNCHANGED <<now, file>> /\ scan' = [m \in Markets |-> Resting]
        /\ copy' = [m \in Markets |-> {}] /\ history' = [s \in AllSymbols |-> <<>>]
    BY DEF Crash
  <1>2. TypeInv' /\ ScansFit' /\ LockInv' /\ HistoryInv'
    BY <1>1, RestingFits DEF Inv, TypeInv, ScansFit, LockInv, HistoryInv
  <1>3. FileInv'
    BY <1>1 DEF Inv, FileInv, Between
  <1>. QED  BY <1>2, <1>3 DEF Inv

LEMMA TickStep ==
  ASSUME Inv, Tick
  PROVE  Inv'
  <1>1. UNCHANGED <<file, lock, copy, history, scan>> /\ now' \in Nat /\ now < now' /\ now \in Nat
    BY Limits DEF Tick, memory, Inv, TypeInv
  <1>2. TypeInv' /\ LockInv' /\ HistoryInv'
    BY <1>1 DEF Inv, TypeInv, LockInv, HistoryInv, Saving, At, Opened
  <1>3. ASSUME NEW bars \in SUBSET AnyBar, Between(bars, now)
        PROVE  Between(bars, now')
    BY <1>1, <1>3 DEF Between, AnyBar
  <1>4. ScansFit'
    <2>1. ASSUME NEW m \in Markets PROVE Fits(m, scan[m], now', file)
      <3>1. Fits(m, scan[m], now, file) /\ scan[m].bars \in SUBSET AnyBar
        BY Scanning DEF ScanType
      <3>2. scan[m].at # "rest" => scan[m].began \in Nat /\ scan[m].began <= now'
        <4>1. scan[m].at # "rest" => scan[m].began \in Nat /\ scan[m].began <= now
          BY <3>1 DEF Fits
        <4>. QED  BY <1>1, <4>1
      <3>3. Between(scan[m].bars, now')
        BY <1>3, <3>1 DEF Fits
      <3>. QED  BY <3>1, <3>2, <3>3 DEF Fits
    <2>. QED  BY <1>1, <2>1 DEF ScansFit
  <1>5. FileInv'
    BY <1>1, <1>3 DEF Inv, TypeInv, FileInv
  <1>. QED  BY <1>2, <1>4, <1>5 DEF Inv

LEMMA InitInv == Init => Inv
  <1>. SUFFICES ASSUME Init PROVE Inv
    OBVIOUS
  <1>1. TypeInv
    BY RestingFits DEF Init, TypeInv
  <1>2. ScansFit /\ LockInv /\ FileInv /\ HistoryInv
    BY RestingFits DEF Init, ScansFit, LockInv, FileInv, Between, HistoryInv
  <1>. QED  BY <1>1, <1>2 DEF Inv

LEMMA ScannerStep ==
  ASSUME Inv, NEW m \in Markets, Scanner(m)
  PROVE  Inv' /\ file \subseteq file'
  <1>1. CASE ReplaceFile(m)
    BY <1>1, ReplaceFileStep
  <1>2. CASE ReadFile(m) \/ Raise(m)
    BY <1>2, ReadFileStep, RaiseStep DEF ReadFile, Raise
  <1>3. CASE BeginScan(m) \/ UseNewBars(m) \/ EndWarmup(m) \/ Evaluate(m) \/ EndScan(m)
    BY <1>3, BeginScanStep, UseNewBarsStep, EndWarmupStep, EvaluateStep, EndScanStep
       DEF BeginScan, UseNewBars, WarmedUp, EndWarmup, Evaluate, EndScan
  <1>4. CASE \E s \in Symbols[m] : AskForBars(m, s) \/ UseStoredBars(m, s) \/ Look(m, s)
    BY <1>4, AskForBarsStep, UseStoredBarsStep, LookStep
       DEF AskForBars, UseStoredBars, WarmedUp, Look
  <1>. QED  BY <1>1, <1>2, <1>3, <1>4 DEF Scanner

LEMMA StepInv == Inv /\ [Next]_vars => Inv' /\ file \subseteq file'
  <1>. SUFFICES ASSUME Inv, [Next]_vars PROVE Inv' /\ file \subseteq file'
    OBVIOUS
  <1>1. CASE UNCHANGED vars
    <2>1. Inv'
      BY <1>1 DEF vars, memory, Inv, TypeInv, ScansFit, LockInv, FileInv, HistoryInv, Saving, At,
                  Between, Opened
    <2>. QED  BY <1>1, <2>1 DEF vars
  <1>2. CASE Tick \/ Crash
    BY <1>2, TickStep, CrashStep DEF Tick, Crash
  <1>3. CASE \E m \in Markets : Scanner(m)
    BY <1>3, ScannerStep
  <1>. QED  BY <1>1, <1>2, <1>3 DEF Next

\* What the scanners, the file and the prices in memory agree on at every step.
THEOREM InvHolds == Spec => []Inv
  BY InitInv, StepInv, PTL DEF Spec

FaultsInv == faults \in Nat

LEMMA FaultsAreCounted == Spec => []FaultsInv
  <1>1. Init => FaultsInv
    BY DEF Init, FaultsInv
  <1>2. FaultsInv /\ [Next]_vars => FaultsInv'
    <2>. SUFFICES ASSUME faults \in Nat, [Next]_vars PROVE faults' \in Nat
      BY DEF FaultsInv
    <2>1. ASSUME NEW m \in Markets, Scanner(m) PROVE faults' = faults \/ faults' = faults + 1
      <3>1. Raise(m) => faults' = faults + 1
        BY DEF Raise
      <3>. QED  BY <2>1, <3>1
                DEF Scanner, BeginScan, UseNewBars, UseStoredBars, WarmedUp, EndWarmup, Evaluate,
                    EndScan, ReadFile, ReplaceFile, AskForBars, Look
    <2>2. Crash => faults' = faults + 1
      BY DEF Crash
    <2>3. Tick \/ UNCHANGED vars => faults' = faults
      BY DEF Tick, vars
    <2>4. faults' = faults \/ faults' = faults + 1
      BY <2>1, <2>2, <2>3 DEF Next
    <2>5. faults + 1 \in Nat
      OBVIOUS
    <2>. QED  BY <2>4, <2>5
  <1>. QED  BY <1>1, <1>2, PTL DEF Spec

-----------------------------------------------------------------------------
(* The theorems.                                                           *)

\* No bar that has been saved is lost, however many scanners save to the file
\* (save_bars reads and replaces it under the lock).
THEOREM NoBarIsLost == Spec => BarsAreKept
  <1>1. Inv /\ [Next]_vars => [file \subseteq file']_vars
    BY StepInv
  <1>. QED  BY <1>1, InvHolds, PTL DEF Spec, BarsAreKept

\* The newest bar of a symbol that is being evaluated is no older than its scan.
LEMMA LastBarIsCurrent ==
  ASSUME Inv, NEW m \in Markets, At(m, "evaluate")
  PROVE  LET s == scan[m].symbol
             last == LastOpened(s, MaxHistory)
         IN  /\ last \in SUBSET Int
             /\ \E t \in last : /\ scan[m].began <= t /\ t <= now
                               /\ \A u \in last : u <= t
  <1>. DEFINE s == scan[m].symbol
              began == scan[m].began
  <1>1. began \in Nat /\ s \in Symbols[m] /\ Bar(s, began) \in file
    BY Scanning DEF At, Fits
  <1>2. /\ IsFiniteSet(Opened(s)) /\ Opened(s) \subseteq Int
        /\ \A t \in Opened(s) : t <= now
    BY <1>1, BarsAreFinite
  <1>3. began \in Opened(s)
    <2>1. Bar(s, began).symbol = s /\ Bar(s, began).opened = began
      BY DEF Bar
    <2>. QED  BY <1>1, <2>1 DEF Opened
  <1>4. PICK t \in Opened(s) : \A u \in Opened(s) : u <= t
    BY <1>2, <1>3, FiniteHasGreatest
  <1>. DEFINE newest == {u \in Opened(s) : u >= t}
  <1>5. newest = {t} /\ t \in Int
    BY <1>2, <1>4
  <1>6. Cardinality(newest) <= MaxHistory
    <2>1. Cardinality(newest) = 1
      BY <1>5, FS_Singleton
    <2>2. 1 <= MaxHistory
      BY Limits
    <2>. QED  BY <2>1, <2>2
  <1>7. t \in LastOpened(s, MaxHistory)
    BY <1>4, <1>6 DEF LastOpened
  <1>8. began <= t /\ t <= now
    BY <1>2, <1>3, <1>4
  <1>9. LastOpened(s, MaxHistory) \in SUBSET Opened(s)
    BY DEF LastOpened
  <1>. QED  BY <1>2, <1>4, <1>7, <1>8, <1>9

\* Whatever the scanners of other markets save meanwhile, the bars a signal rests
\* on reach up to the scan, none of them has yet to open, and there is no gap of
\* more than two between them.
THEOREM SignalsRestOnCurrentBars == Spec => []BasisIsCurrent
  <1>1. Inv => BasisIsCurrent
    <2>. SUFFICES ASSUME Inv, NEW m \in Markets, At(m, "evaluate"),
                         BarBasis(scan[m].symbol) # {}
                  PROVE  LET basis == BarBasis(scan[m].symbol)
                         IN  /\ scan[m].began <= Max(basis) /\ Max(basis) <= now
                             /\ \A t \in basis \ {Max(basis)} :
                                  \E u \in basis : t < u /\ u - t <= 2
      BY DEF BasisIsCurrent
    <2>. DEFINE last == LastOpened(scan[m].symbol, MaxHistory)
                basis == Contiguous(last)
    <2>1. /\ last \in SUBSET Int
          /\ \E t \in last : scan[m].began <= t /\ t <= now /\ \A u \in last : u <= t
      BY LastBarIsCurrent
    <2>2. BarBasis(scan[m].symbol) = basis
      BY DEF BarBasis
    <2>. HIDE DEF last
    <2>3. PICK end \in last : /\ scan[m].began <= end /\ end <= now
                              /\ \A u \in last : u <= end
      BY <2>1
    <2>4. Max(last) = end
      BY <2>1, <2>3, MaxIs
    <2>5. basis \in SUBSET last /\ basis \in SUBSET Int
      BY <2>1 DEF Contiguous
    <2>6. end \in basis
      BY <2>1, <2>3, <2>4 DEF Contiguous
    <2>. DEFINE Follows(u) == \E v \in last : u < v /\ v - u <= 2
    <2>7. basis = {t \in last : \A u \in last : t <= u /\ u # end => Follows(u)}
      BY <2>4 DEF Contiguous
    <2>. HIDE DEF basis
    <2>8. Max(basis) = end
      BY <2>3, <2>5, <2>6, MaxIs
    <2>9. ASSUME NEW t \in basis, t # end
          PROVE  \E u \in basis : t < u /\ u - t <= 2
      <3>1. t \in last /\ t \in Int /\ \A u \in last : t <= u /\ u # end => Follows(u)
        BY <2>5, <2>7
      <3>2. t <= t
        BY <3>1
      <3>3. PICK v \in last : t < v /\ v - t <= 2
        BY <2>9, <3>1, <3>2
      <3>4. \A u \in last : v <= u => t <= u
        BY <2>1, <3>1, <3>3
      <3>5. v \in basis
        BY <2>7, <3>1, <3>3, <3>4
      <3>. QED  BY <3>3, <3>5
    <2>. QED  BY <2>2, <2>3, <2>8, <2>9
  <1>. QED  BY <1>1, InvHolds, PTL

\* The bars of a symbol are counted the same or more after any step.
LEMMA CountGrows ==
  ASSUME Inv, [Next]_vars, NEW s \in AllSymbols
  PROVE  Cardinality(Opened(s)) >= Enough => Cardinality(Opened(s)') >= Enough
  <1>1. Inv' /\ file \subseteq file'
    BY StepInv
  <1>. QED  BY <1>1, OpenedGrows DEF Inv

\* A symbol that has enough bars or prices for a signal has enough of them for as
\* long as the program runs (_hydrate_price_history_from_bars replaces the prices
\* by no fewer than a signal needs).
THEOREM WarmedUpForGood == Spec => ReadyStaysReady
  <1>1. ASSUME Inv, faults \in Nat, [Next]_vars, faults' = faults,
               NEW s \in AllSymbols, Ready(s)
        PROVE  Ready(s)'
    <2>1. CASE Cardinality(Opened(s)) >= Enough
      BY <1>1, <2>1, CountGrows DEF Ready
    <2>2. CASE ~(Cardinality(Opened(s)) >= Enough)
      <3>1. Len(history[s]) >= Enough /\ history[s] \in Seq(Int)
        BY <1>1, <2>2 DEF Ready, Inv, HistoryInv
      <3>2. CASE history'[s] = history[s]
        BY <3>1, <3>2 DEF Ready
      <3>3. ASSUME NEW m \in Markets, NEW r \in Symbols[m], WarmedUp(m, r)
            PROVE  history'[s] = history[s]
        <4>1. history' = [history EXCEPT ![r] = Hydrated(r)]
          BY <3>3 DEF WarmedUp
        <4>2. s = r => Hydrated(r) = history[r]
          <5>1. Cardinality(LastOpened(r, WarmupBars)) <= Cardinality(Opened(r))
                /\ Cardinality(LastOpened(r, WarmupBars)) \in Nat /\ Cardinality(Opened(r)) \in Nat
            BY <1>1, BarsAreFinite, LastAreFewer
          <5>2. s = r => ~(Cardinality(LastOpened(r, WarmupBars)) >= Enough)
            BY <2>2, <5>1, Limits
          <5>. QED  BY <5>2 DEF Hydrated
        <4>. QED  BY <1>1, <4>1, <4>2 DEF Inv, TypeInv
      <3>4. ASSUME NEW m \in Markets, Evaluate(m)
            PROVE  Len(history'[s]) >= Enough
        <4>. DEFINE began == scan[m].began
        <4>1. scan[m].symbol \in AllSymbols /\ began \in Int
          <5>1. scan[m].at = "evaluate" /\ Fits(m, scan[m], now, file) /\ scan[m] \in ScanType
            BY <1>1, <3>4, Scanning DEF Evaluate, At
          <5>2. scan[m].symbol \in Symbols[m]
            BY <5>1 DEF Fits
          <5>. QED  BY <5>1, <5>2 DEF ScanType, AllSymbols
        <4>2. history' = [history EXCEPT ![scan[m].symbol]
                                      = KeepLast(Append(history[scan[m].symbol], began))]
          BY <1>1, <3>4, <4>1 DEF Evaluate, Inv, TypeInv
        <4>3. CASE s # scan[m].symbol
          BY <1>1, <3>1, <4>2, <4>3 DEF Inv, TypeInv
        <4>4. CASE s = scan[m].symbol
          <5>1. history'[s] = KeepLast(Append(history[s], began))
            BY <1>1, <4>2, <4>4 DEF Inv, TypeInv
          <5>. HIDE DEF began
          <5>2. Append(history[s], began) \in Seq(Int)
                /\ Len(Append(history[s], began)) = Len(history[s]) + 1 /\ Len(history[s]) \in Nat
            BY <3>1, <4>1
          <5>3. Len(Append(history[s], began)) >= Enough
            BY <3>1, <5>2, Limits
          <5>. QED  BY <5>1, <5>2, <5>3, KeptLast
        <4>. QED  BY <4>3, <4>4
      <3>5. \/ history'[s] = history[s]
            \/ \E m \in Markets : Evaluate(m)
            \/ \E m \in Markets : \E r \in Symbols[m] : WarmedUp(m, r)
        <4>1. CASE UNCHANGED vars \/ Tick
          BY <4>1 DEF vars, memory, Tick
        <4>2. CASE Crash
          <5>1. faults' = faults + 1
            BY <4>2 DEF Crash
          <5>. QED  BY <1>1, <5>1
        <4>3. ASSUME NEW m \in Markets, Scanner(m)
              PROVE  \/ history' = history
                     \/ Evaluate(m)
                     \/ \E r \in Symbols[m] : WarmedUp(m, r)
          <5>1. UseNewBars(m) => WarmedUp(m, scan[m].symbol) /\ scan[m].symbol \in Symbols[m]
            BY <1>1, Scanning DEF UseNewBars, At, Fits
          <5>2. \A r \in Symbols[m] : UseStoredBars(m, r) => WarmedUp(m, r)
            BY DEF UseStoredBars
          <5>. QED  BY <4>3, <5>1, <5>2
                    DEF Scanner, BeginScan, EndWarmup, EndScan, ReadFile, ReplaceFile, Raise,
                        AskForBars, Look, memory
        <4>. QED  BY <1>1, <4>1, <4>2, <4>3 DEF Next
      <3>. QED  BY <3>2, <3>3, <3>4, <3>5 DEF Ready
    <2>. QED  BY <2>1, <2>2
  <1>2. Inv /\ FaultsInv /\ [Next]_vars =>
          [faults' = faults => \A s \in AllSymbols : Ready(s) => Ready(s)']_vars
    BY <1>1 DEF FaultsInv
  <1>. QED  BY <1>2, InvHolds, FaultsAreCounted, PTL DEF Spec, ReadyStaysReady

-----------------------------------------------------------------------------
(* The exits of a position. *)

\* The stop belongs to the anchor; a thesis that is not kept has neither.
AnchorInv ==
  /\ ~kept => thesis = Fresh
  /\ thesis.anchor = 0 => thesis.stop = 0
  /\ thesis.anchor # 0 => Trail(plan) > 0 /\ thesis.stop = StopFrom(thesis.anchor)
  /\ thesis.count > 0 => thesis.last # 0

\* The anchor has not reached the trigger of the next stage.
StageInv ==
  thesis.anchor # 0 /\ thesis.count < Len(Stages(plan)) =>
    ~Reach(thesis.anchor, StageTrigger)

\* Nor has the ledger got ahead of what the stored portfolio shows.
LedgerInv ==
  /\ LedgerNeverAhead
  /\ kept => thesis.total + known <= Volume

IInv == TypeOK /\ AnchorInv /\ StageInv /\ LedgerInv

-----------------------------------------------------------------------------
(* Products, which the provers want to be led through. *)

LEMMA ProductMonotone ==
  ASSUME NEW a \in Int, NEW b \in Int, NEW c \in Nat, a <= b
  PROVE  a * c <= b * c
<1>1. (b - a) * c >= 0
  BY SMT
<1>2. (b - a) * c = b * c - a * c
  BY SMT
<1> QED
  BY <1>1, <1>2, SMT

LEMMA ProductReflects ==
  ASSUME NEW a \in Int, NEW b \in Int, NEW c \in Nat, a * c < b * c
  PROVE  a < b
BY ProductMonotone

LEMMA RatioMoves ==
  ASSUME NEW p \in Nat \ {0}, NEW s \in Int, NEW t \in Nat \ {0}
  PROVE  p * s < p * (s + t) /\ p * (s - t) < p * s
<1>1. p * t > 0
  BY SMT
<1>2. p * (s + t) = p * s + p * t /\ p * (s - t) = p * s - p * t
  BY SMT
<1> QED
  BY <1>1, <1>2, SMT

LEMMA QuotientType ==
  ASSUME NEW q \in Nat, NEW r \in Nat, NEW s \in Nat \ {0}
  PROVE  (q * r) \div s \in Nat
<1>1. q * r \in Nat
  BY SMT
<1> QED
  BY <1>1, SMT

-----------------------------------------------------------------------------
(* The plan, and the parts of the state that prices are compared with. *)

LEMMA PlanFacts ==
  ASSUME plan \in Plans
  PROVE  /\ plan.long \in BOOLEAN
         /\ plan.entry \in Nat \ {0}
         /\ Trail(plan) \in Nat
         /\ Trail(plan) <= Scale
         /\ Scale \in Nat \ {0}
         /\ Stages(plan) \in Seq(1..(Scale - 1))
         /\ Len(Stages(plan)) \in Nat
         /\ Trail(plan) > 0 =>
              \A i \in 1..Len(Stages(plan)) : Triggers(plan)[i] \in Nat \ {0}
<1>1. /\ plan \in PlanType
      /\ Scale \in Nat \ {0}
      /\ Stages(plan) \in Seq(1..(Scale - 1))
      /\ Trail(plan) <= Scale
      /\ Trail(plan) > 0 =>
           \A i \in 1..Len(Stages(plan)) : Triggers(plan)[i] \in Nat \ {0}
  BY ExitAssumption DEF ExitAssumption
<1>2. /\ plan.long \in BOOLEAN
      /\ plan.entry \in Nat \ {0}
      /\ plan.trail \in Int
  BY <1>1 DEF PlanType
<1>3. Trail(plan) \in Nat
  BY <1>2 DEF Trail
<1>4. Len(Stages(plan)) \in Nat
  BY <1>1
<1> QED
  BY <1>1, <1>2, <1>3, <1>4

LEMMA PriceType == Prices \subseteq Nat \ {0}
BY ExitAssumption DEF ExitAssumption

LEMMA StopType ==
  ASSUME plan \in Plans, NEW a \in Nat
  PROVE  StopFrom(a) \in Int
BY PlanFacts DEF StopFrom

\* A more favourable anchor has a stop that is no looser.
LEMMA StopFollowsAnchor ==
  ASSUME plan \in Plans, NEW a \in Nat, NEW b \in Nat, Better(b, a)
  PROVE  IF plan.long THEN StopFrom(b) >= StopFrom(a)
                      ELSE StopFrom(b) <= StopFrom(a)
<1> USE PlanFacts
<1>1. CASE plan.long
  <2>1. a <= b /\ Scale - Trail(plan) \in Nat
    BY <1>1 DEF Better
  <2>2. a * (Scale - Trail(plan)) <= b * (Scale - Trail(plan))
    BY <2>1, ProductMonotone, SMTT(30)
  <2> QED
    BY <1>1, <2>2, StopType DEF StopFrom
<1>2. CASE ~plan.long
  <2>1. b <= a /\ Scale + Trail(plan) \in Nat
    BY <1>2 DEF Better
  <2>2. b * (Scale + Trail(plan)) <= a * (Scale + Trail(plan))
    BY <2>1, ProductMonotone, SMTT(30)
  <2> QED
    BY <1>2, <2>2 DEF StopFrom
<1> QED
  BY <1>1, <1>2

\* A price that reaches a threshold is better than one that does not.
LEMMA ReachedIsBetter ==
  ASSUME plan \in Plans, NEW a \in Nat, NEW b \in Nat, NEW x \in Int,
         Reach(b, x), ~Reach(a, x)
  PROVE  Better(b, a)
<1>1. a * Scale \in Int /\ b * Scale \in Int /\ Scale \in Nat
  BY PlanFacts
<1>2. CASE plan.long
  <2>1. a * Scale < b * Scale
    BY <1>1, <1>2 DEF Reach
  <2>2. a < b
    BY <1>1, <2>1, ProductReflects
  <2> QED
    BY <1>2, <2>2 DEF Better
<1>3. CASE ~plan.long
  <2>1. b * Scale < a * Scale
    BY <1>1, <1>3 DEF Reach
  <2>2. b < a
    BY <1>1, <2>1, ProductReflects
  <2> QED
    BY <1>3, <2>2 DEF Better
<1> QED
  BY <1>2, <1>3

\* No price reaches a trigger beyond itself.
LEMMA BeyondIsAhead ==
  ASSUME plan \in Plans, NEW p \in Nat \ {0}, NEW t \in Nat \ {0}
  PROVE  ~Reach(p, Beyond(p, t))
<1>1. p * Scale < p * (Scale + t) /\ p * (Scale - t) < p * Scale
  BY PlanFacts, RatioMoves
<1>2. p * Scale \in Int /\ p * (Scale + t) \in Int /\ p * (Scale - t) \in Int
  BY PlanFacts
<1>3. CASE plan.long
  BY <1>1, <1>2, <1>3 DEF Reach, Beyond
<1>4. CASE ~plan.long
  BY <1>1, <1>2, <1>4 DEF Reach, Beyond
<1> QED
  BY <1>3, <1>4

\* The numbers of a thesis, and the trigger of its next stage.
LEMMA ThesisNumbers ==
  ASSUME TypeOK
  PROVE  /\ thesis.anchor \in Nat
         /\ thesis.count \in Nat
         /\ thesis.last \in Nat
         /\ thesis.total \in Nat
         /\ thesis.stop \in Int
<1>1. thesis \in ThesisType
  BY DEF TypeOK
<1>2. /\ thesis.anchor \in Prices \cup {0}
      /\ thesis.last \in Prices \cup {0}
      /\ thesis.count \in Nat
      /\ thesis.total \in Nat
      /\ thesis.stop \in Int
  BY <1>1 DEF ThesisType
<1>3. \A p \in Prices \cup {0} : p \in Nat
  BY PriceType
<1> QED
  BY <1>2, <1>3

LEMMA TriggerType ==
  ASSUME TypeOK, Trail(plan) > 0, thesis.count < Len(Stages(plan))
  PROVE  StageTrigger \in Int
<1>1. plan \in Plans /\ thesis.count \in Nat /\ thesis.last \in Nat
  BY ThesisNumbers DEF TypeOK
<1>2. Len(Stages(plan)) \in Nat
  BY <1>1, PlanFacts
<1>3. thesis.count + 1 \in 1..Len(Stages(plan))
  BY <1>1, <1>2
<1>4. Triggers(plan)[thesis.count + 1] \in Nat /\ Scale \in Nat /\ plan.entry \in Nat
  BY <1>1, <1>3, PlanFacts
<1> DEFINE ref == IF thesis.count > 0 /\ thesis.last # 0 THEN thesis.last ELSE plan.entry
<1>5. ref \in Nat
  BY <1>1, <1>4
<1> HIDE DEF ref
<1>6. Beyond(ref, Triggers(plan)[thesis.count + 1]) \in Int
  BY <1>4, <1>5 DEF Beyond
<1> QED
  BY <1>6 DEF StageTrigger, ref

-----------------------------------------------------------------------------
(* Steps that do not change the thesis, and those that end it. *)

LEMMA SameThesis ==
  ASSUME AnchorInv, StageInv, plan' = plan, kept' = kept, thesis' = thesis
  PROVE  AnchorInv' /\ StageInv'
<1>1. AnchorInv'
  BY DEF AnchorInv, StopFrom
<1>2. StageInv'
  BY DEF StageInv, Reach, StageTrigger, Beyond
<1> QED
  BY <1>1, <1>2

LEMMA NoThesis ==
  ASSUME kept' = FALSE, thesis' = Fresh
  PROVE  /\ AnchorInv'
         /\ StageInv'
         /\ LedgerInv'
         /\ thesis' \in ThesisType
BY DEF AnchorInv, StageInv, LedgerInv, LedgerNeverAhead, Fresh, ThesisType

\* Nothing and what there is at most is no more than that.
LEMMA NothingMore ==
  ASSUME NEW high \in Nat, NEW amount \in 0..high
  PROVE  0 + amount <= high
OBVIOUS

LEMMA FreshThesis ==
  ASSUME thesis' = Fresh, Volume \in Nat, held' \in 0..Volume, known' \in 0..Volume
  PROVE  AnchorInv' /\ StageInv' /\ LedgerInv' /\ thesis' \in ThesisType
<1>1. /\ thesis'.anchor = 0 /\ thesis'.stop = 0 /\ thesis'.count = 0
      /\ thesis'.last = 0 /\ thesis'.total = 0 /\ thesis' \in ThesisType
  BY DEF Fresh, ThesisType
<1>2. AnchorInv' /\ StageInv'
  BY <1>1 DEF AnchorInv, StageInv
<1>3. thesis'.total + held' <= Volume /\ thesis'.total + known' <= Volume
  <2>1. 0 + held' <= Volume /\ 0 + known' <= Volume
    BY NothingMore
  <2>2. thesis'.total = 0
    BY <1>1
  <2> QED
    BY <2>1, <2>2, Zenon
<1>4. LedgerInv'
  BY <1>3 DEF LedgerInv, LedgerNeverAhead
<1> QED
  BY <1>1, <1>2, <1>4

LEMMA LeftType ==
  ASSUME TypeOK, NEW amount \in Nat
  PROVE  Left(amount) \in 0..Volume /\ Left(amount) <= held
BY ExitAssumption DEF TypeOK, Left, ExitAssumption

\* An order that is not known to be filled.
LEMMA NothingRecorded ==
  ASSUME IInv, NEW view \in Views, NEW price \in Prices, NEW amount \in Nat,
         Withheld(view, price) \/ Lost(view, amount), sold' \in Prices \cup {0}
  PROVE  IInv'
<1>1. /\ plan' = plan /\ kept' = kept /\ thesis' = thesis
      /\ overdue' = overdue /\ known' = view
      /\ held' = held \/ held' = Left(amount)
      /\ stranded' \in BOOLEAN
  BY DEF Withheld, Braked, Rejected, Lost, IInv, TypeOK, HardStop, Against
<1>2. /\ TypeOK /\ Volume \in Nat /\ thesis.total \in Nat
      /\ view \in 0..Volume /\ held \in 0..Volume
  BY ThesisNumbers, ExitAssumption DEF IInv, TypeOK, Views, ExitAssumption
<1>3. held' \in 0..Volume /\ held' <= held
  BY <1>1, <1>2, LeftType
<1>4. TypeOK'
  BY <1>1, <1>2, <1>3 DEF TypeOK
<1>5. AnchorInv' /\ StageInv'
  BY <1>1, SameThesis DEF IInv
<1>6. LedgerInv'
  BY <1>1, <1>2, <1>3 DEF IInv, LedgerInv, LedgerNeverAhead, Views
<1> QED
  BY <1>4, <1>5, <1>6 DEF IInv

\* A filled order that ends the position.
LEMMA FilledUp ==
  ASSUME IInv, NEW amount \in Nat, NEW after, Filled(amount, after),
         Left(amount) = 0, sold' \in Prices \cup {0}
  PROVE  IInv'
<1>1. /\ kept' = FALSE /\ thesis' = Fresh /\ overdue' = FALSE
      /\ held' = 0 /\ known' = 0 /\ stranded' = FALSE /\ plan' = plan
  BY DEF Filled, Drop
<1>2. Volume \in Nat /\ plan \in Plans
  BY ExitAssumption DEF ExitAssumption, IInv, TypeOK
<1>3. AnchorInv' /\ StageInv' /\ LedgerInv' /\ thesis' \in ThesisType
  BY <1>1, NoThesis
<1>4. held' \in 0..Volume /\ known' \in 0..Volume
  BY <1>1, <1>2
<1>5. kept' \in BOOLEAN /\ overdue' \in BOOLEAN /\ stranded' \in BOOLEAN
  BY <1>1
<1>6. TypeOK'
  BY <1>1, <1>2, <1>3, <1>4, <1>5 DEF TypeOK
<1> QED
  BY <1>3, <1>6 DEF IInv

\* One that leaves some of it, with the thesis unchanged.
LEMMA FilledInPart ==
  ASSUME IInv, NEW amount \in Nat, Filled(amount, thesis), Left(amount) # 0,
         sold' \in Prices \cup {0}
  PROVE  IInv'
<1>1. /\ plan' = plan /\ kept' = kept /\ thesis' = thesis
      /\ overdue' = overdue /\ stranded' = FALSE
      /\ held' = Left(amount) /\ known' = Left(amount)
  BY DEF Filled
<1>2. TypeOK /\ Volume \in Nat /\ thesis.total \in Nat /\ held \in 0..Volume
  BY ThesisNumbers, ExitAssumption DEF IInv, TypeOK, ExitAssumption
<1>3. Left(amount) \in 0..Volume /\ Left(amount) <= held
  BY <1>2, LeftType
<1>4. TypeOK'
  BY <1>1, <1>2, <1>3 DEF TypeOK
<1>5. AnchorInv' /\ StageInv'
  BY <1>1, SameThesis DEF IInv
<1>6. LedgerInv'
  BY <1>1, <1>2, <1>3 DEF IInv, LedgerInv, LedgerNeverAhead
<1> QED
  BY <1>4, <1>5, <1>6 DEF IInv

LEMMA ClosingOrder ==
  ASSUME IInv, NEW view \in Views, NEW price \in Prices, Order(view, price)
  PROVE  IInv'
<1>1. view \in Nat
  BY ExitAssumption DEF IInv, TypeOK, Views, ExitAssumption
<1>2. sold' \in Prices \cup {0}
  BY DEF Order, IInv, TypeOK
<1> QED
  BY <1>1, <1>2, NothingRecorded, FilledUp, FilledInPart DEF Order, Sent

-----------------------------------------------------------------------------
(* The two decisions that change the thesis. *)

LEMMA MoveStopKeeps ==
  ASSUME IInv, NEW view \in Views, NEW price \in Prices, MoveStop(view, price)
  PROVE  IInv'
<1>1. /\ thesis' = Anchored(price) /\ known' = view /\ stranded' = FALSE
      /\ plan' = plan /\ kept' = kept /\ held' = held /\ overdue' = overdue
      /\ sold' = sold
      /\ kept /\ TrailDue(price)
  BY DEF MoveStop
<1>2. /\ TypeOK /\ plan \in Plans /\ thesis \in ThesisType
      /\ Volume \in Nat /\ view \in 0..Volume /\ held \in 0..Volume
      /\ price \in Nat \ {0}
  BY PriceType, ExitAssumption DEF IInv, TypeOK, Views, ExitAssumption
<1>3. /\ thesis'.anchor = price /\ thesis'.stop = StopFrom(price)
      /\ thesis'.count = thesis.count /\ thesis'.last = thesis.last
      /\ thesis'.total = thesis.total
  BY <1>1, <1>2 DEF Anchored, ThesisType
<1>4. thesis' \in ThesisType
  <2>1. StopFrom(price) \in Int
    BY <1>2, StopType
  <2> QED
    BY <1>1, <1>2, <2>1 DEF Anchored, ThesisType
<1>5. TypeOK'
  BY <1>1, <1>2, <1>4 DEF TypeOK
<1>6. Trail(plan) > 0 /\ ~ScaleOutDue(price) /\ ~Triggered(price)
  BY <1>1 DEF TrailDue
<1>7. AnchorInv'
  BY <1>1, <1>2, <1>3, <1>6 DEF IInv, AnchorInv, StopFrom
<1>8. StageInv'
  <2>1. thesis.count < Len(Stages(plan)) => ~Reach(price, StageTrigger)
    BY <1>6 DEF ScaleOutDue
  <2> QED
    BY <1>1, <1>3, <2>1 DEF StageInv, Reach, StageTrigger, Beyond
<1>9. LedgerInv'
  BY <1>1, <1>2, <1>3, ThesisNumbers DEF IInv, LedgerInv, LedgerNeverAhead, Views
<1> QED
  BY <1>5, <1>7, <1>8, <1>9 DEF IInv

LEMMA ScaleOutKeeps ==
  ASSUME IInv, NEW view \in Views, NEW price \in Prices, ScaleOut(view, price)
  PROVE  IInv'
<1>1. /\ kept /\ ScaleOutDue(price)
      /\ Withheld(view, price) \/ Sent(view, Slice(view), ScaledOut(view, price))
      /\ sold' \in Prices \cup {0}
  BY DEF ScaleOut, Quotes, IInv, TypeOK
<1>2. /\ TypeOK /\ plan \in Plans /\ Volume \in Nat
      /\ view \in Nat /\ held \in 0..Volume /\ price \in Nat \ {0}
      /\ thesis.count \in Nat /\ thesis.total \in Nat
  BY PriceType, ThesisNumbers, ExitAssumption
     DEF IInv, TypeOK, Views, ExitAssumption
<1>3. Trail(plan) > 0 /\ thesis.count + 1 \in 1..Len(Stages(plan))
  BY <1>1, <1>2, PlanFacts, SMTT(30) DEF ScaleOutDue
<1>4. Slice(view) \in Nat
  <2>1. Stages(plan)[thesis.count + 1] \in Nat /\ Scale \in Nat \ {0}
    BY <1>2, <1>3, PlanFacts, SMTT(30)
  <2> QED
    BY <1>2, <2>1, QuotientType DEF Slice
<1>5. CASE Withheld(view, price) \/ Lost(view, Slice(view))
  BY <1>1, <1>4, <1>5, NothingRecorded
<1>6. CASE Filled(Slice(view), ScaledOut(view, price)) /\ Left(Slice(view)) = 0
  BY <1>1, <1>4, <1>6, FilledUp
<1>7. CASE Filled(Slice(view), ScaledOut(view, price)) /\ Left(Slice(view)) # 0
  <2>1. /\ plan' = plan /\ kept' = kept /\ thesis' = ScaledOut(view, price)
        /\ overdue' = overdue /\ stranded' = FALSE
        /\ held' = Left(Slice(view)) /\ known' = Left(Slice(view))
    BY <1>7 DEF Filled
  <2>2. /\ thesis'.anchor = price /\ thesis'.stop = StopFrom(price)
        /\ thesis'.count = thesis.count + 1 /\ thesis'.last = price
        /\ thesis'.total = thesis.total + Slice(view)
    BY <2>1 DEF ScaledOut
  <2>3. TypeOK'
    <3>1. StopFrom(price) \in Int
      BY <1>2, StopType
    <3>2. thesis' \in ThesisType
      BY <1>2, <1>4, <2>1, <3>1 DEF ScaledOut, ThesisType
    <3>3. Left(Slice(view)) \in 0..Volume
      BY <1>2, <1>4, LeftType
    <3> QED
      BY <1>1, <1>2, <2>1, <3>2, <3>3 DEF TypeOK
  <2>4. AnchorInv'
    BY <1>1, <1>2, <1>3, <2>1, <2>2 DEF AnchorInv, StopFrom
  <2>5. StageInv'
    <3>1. SUFFICES ASSUME thesis'.count < Len(Stages(plan))
                   PROVE  ~Reach(price, Beyond(price, Triggers(plan)[thesis.count + 2]))
      <4>1. thesis'.count > 0 /\ thesis'.last # 0 /\ thesis'.count + 1 = thesis.count + 2
        BY <1>2, <2>2
      <4> QED
        BY <2>1, <2>2, <4>1 DEF StageInv, Reach, StageTrigger, Beyond
    <3>2. thesis.count + 2 \in 1..Len(Stages(plan))
      <4>1. Len(Stages(plan)) \in Nat
        BY <1>2, PlanFacts
      <4>2. thesis.count + 1 < Len(Stages(plan))
        BY <2>2, <3>1
      <4> QED
        BY <1>2, <4>1, <4>2
    <3>3. Triggers(plan)[thesis.count + 2] \in Nat \ {0}
      BY <1>2, <1>3, <3>2, PlanFacts
    <3> QED
      BY <1>2, <3>3, BeyondIsAhead
  <2>6. LedgerInv'
    <3>1. Left(Slice(view)) = held - Slice(view)
      BY <1>7 DEF Left
    <3>2. thesis.total + held <= Volume
      BY <1>1 DEF IInv, LedgerInv, LedgerNeverAhead
    <3> QED
      BY <1>2, <1>4, <2>1, <2>2, <3>1, <3>2 DEF LedgerInv, LedgerNeverAhead
  <2> QED
    BY <2>3, <2>4, <2>5, <2>6 DEF IInv
<1> QED
  BY <1>1, <1>5, <1>6, <1>7 DEF Sent

\* A scale-out is made at a better price than the one that set the stop.
LEMMA ScaleOutIsBetter ==
  ASSUME IInv, NEW price \in Prices, ScaleOutDue(price), thesis.anchor # 0
  PROVE  Better(price, thesis.anchor)
<1>1. /\ TypeOK /\ plan \in Plans /\ price \in Nat /\ thesis.anchor \in Nat
  BY PriceType, ThesisNumbers DEF IInv, TypeOK
<1>2. /\ Trail(plan) > 0 /\ thesis.count < Len(Stages(plan))
      /\ Reach(price, StageTrigger) /\ ~Reach(thesis.anchor, StageTrigger)
  BY DEF ScaleOutDue, IInv, StageInv
<1>3. StageTrigger \in Int
  BY <1>1, <1>2, TriggerType
<1> QED
  BY <1>1, <1>2, <1>3, ReachedIsBetter

-----------------------------------------------------------------------------
(* The invariant. *)

LEMMA InitKeeps == PlanInit => IInv
<1> SUFFICES ASSUME PlanInit PROVE IInv
  OBVIOUS
<1>1. /\ plan \in Plans /\ kept = FALSE /\ thesis = Fresh /\ held = 0
      /\ known = 0 /\ overdue = FALSE /\ stranded = FALSE /\ sold = 0
  BY DEF PlanInit
<1>2. Volume \in Nat
  BY ExitAssumption DEF ExitAssumption
<1>3. TypeOK
  <2>1. Fresh \in ThesisType
    BY DEF Fresh, ThesisType
  <2>2. held \in 0..Volume /\ known \in 0..Volume
    BY <1>1, <1>2
  <2>3. kept \in BOOLEAN /\ overdue \in BOOLEAN /\ stranded \in BOOLEAN
    BY <1>1
  <2> QED
    BY <1>1, <2>1, <2>2, <2>3 DEF TypeOK
<1>4. AnchorInv /\ StageInv /\ LedgerInv
  BY <1>1 DEF AnchorInv, StageInv, LedgerInv, LedgerNeverAhead, Fresh
<1> QED
  BY <1>3, <1>4 DEF IInv

LEMMA ScanKeeps ==
  ASSUME IInv, NEW view \in Views, NEW price \in Prices, Scan(view, price)
  PROVE  IInv'
<1>1. CASE Exit(view, price)
  BY <1>1, ClosingOrder DEF Exit
<1>2. CASE ScaleOut(view, price)
  BY <1>2, ScaleOutKeeps
<1>3. CASE MoveStop(view, price)
  BY <1>3, MoveStopKeeps
<1>4. CASE Signal(view, price)
  BY <1>4, ClosingOrder DEF Signal
<1>5. CASE Hold(view, price)
  <2>1. Withheld(view, price) /\ sold' \in Prices \cup {0}
    BY <1>5 DEF Hold, Withheld, Rejected, IInv, TypeOK
  <2>2. 0 \in Nat
    OBVIOUS
  <2> QED
    BY <2>1, <2>2, NothingRecorded
<1> QED
  BY <1>1, <1>2, <1>3, <1>4, <1>5 DEF Scan

LEMMA NextKeeps == IInv /\ [PlanNext]_planVars => IInv'
<1> SUFFICES ASSUME IInv, [PlanNext]_planVars PROVE IInv'
  OBVIOUS
<1>1. /\ Volume \in Nat /\ held \in 0..Volume /\ known \in 0..Volume
      /\ plan \in Plans
  BY ExitAssumption DEF IInv, TypeOK, ExitAssumption
<1>2. ASSUME NEW p \in Plans, Enter(p) PROVE IInv'
  <2>1. /\ plan' = p /\ held' = Volume /\ known' \in {0, Volume}
        /\ kept' \in BOOLEAN /\ ~kept /\ thesis' = thesis
        /\ overdue' = overdue /\ stranded' = stranded /\ sold' = 0
    BY <1>2 DEF Enter
  <2>2. thesis' = Fresh
    BY <2>1 DEF IInv, AnchorInv
  <2>3. held' \in 0..Volume /\ known' \in 0..Volume
    BY <1>1, <2>1
  <2>4. AnchorInv' /\ StageInv' /\ LedgerInv' /\ thesis' \in ThesisType
    BY <1>1, <2>2, <2>3, FreshThesis
  <2>5. TypeOK'
    BY <2>1, <2>3, <2>4 DEF IInv, TypeOK
  <2> QED
    BY <2>4, <2>5 DEF IInv
<1>3. ASSUME NEW view \in Views, Vanish(view) PROVE IInv'
  <2>1. /\ kept' = FALSE /\ thesis' = Fresh /\ overdue' = FALSE /\ known' = 0
        /\ stranded' = FALSE /\ plan' = plan /\ held' = held
        /\ sold' \in Prices \cup {0}
    BY <1>3 DEF Vanish, Drop, IInv, TypeOK
  <2>2. AnchorInv' /\ StageInv' /\ LedgerInv' /\ thesis' \in ThesisType
    BY <2>1, NoThesis
  <2>3. held' \in 0..Volume /\ known' \in 0..Volume
    BY <1>1, <2>1
  <2>4. kept' \in BOOLEAN /\ overdue' \in BOOLEAN /\ stranded' \in BOOLEAN
    BY <2>1
  <2>5. TypeOK'
    BY <1>1, <2>1, <2>2, <2>3, <2>4 DEF TypeOK
  <2> QED
    BY <2>2, <2>5 DEF IInv
<1>4. ASSUME NEW view \in Views, NEW price \in Prices, Scan(view, price) PROVE IInv'
  BY <1>4, ScanKeeps
<1>5. CASE GrowOld
  <2>1. AnchorInv' /\ StageInv'
    BY <1>5, SameThesis DEF GrowOld, IInv
  <2> QED
    BY <1>5, <2>1 DEF GrowOld, IInv, TypeOK, LedgerInv, LedgerNeverAhead
<1>6. CASE CloseElsewhere
  <2>1. AnchorInv' /\ StageInv'
    BY <1>6, SameThesis DEF CloseElsewhere, IInv
  <2>2. thesis.total \in Nat
    BY ThesisNumbers DEF IInv
  <2> QED
    BY <1>1, <1>6, <2>1, <2>2
       DEF CloseElsewhere, IInv, TypeOK, LedgerInv, LedgerNeverAhead
<1>7. CASE UNCHANGED planVars
  <2>1. AnchorInv' /\ StageInv'
    BY <1>7, SameThesis DEF planVars, IInv
  <2> QED
    BY <1>7, <2>1 DEF planVars, IInv, TypeOK, LedgerInv, LedgerNeverAhead
<1> QED
  BY <1>2, <1>3, <1>4, <1>5, <1>6, <1>7 DEF PlanNext

LEMMA Invariance == PlanSpec => []IInv
BY InitKeeps, NextKeeps, PTL DEF PlanSpec

\* What a thesis says has been scaled out has left the position.
THEOREM LedgerHolds == PlanSpec => []LedgerNeverAhead
<1>1. IInv => LedgerNeverAhead
  BY DEF IInv, LedgerInv
<1> QED
  BY <1>1, Invariance, PTL

-----------------------------------------------------------------------------
(* The trailing stop. *)

\* A stop that has been set moves with a better anchor, in its favour.
LEMMA BetterAnchor ==
  ASSUME IInv, thesis.stop # 0, NEW price \in Prices,
         thesis'.stop = StopFrom(price), Better(price, thesis.anchor)
  PROVE  /\ thesis'.stop # 0
         /\ IF plan.long THEN thesis'.stop >= thesis.stop
                         ELSE thesis'.stop <= thesis.stop
<1>1. /\ plan \in Plans /\ thesis.anchor \in Nat /\ thesis.stop \in Int
      /\ thesis.stop = StopFrom(thesis.anchor) /\ price \in Nat \ {0}
  BY ThesisNumbers, PriceType DEF IInv, TypeOK, AnchorInv
<1>2. IF plan.long THEN StopFrom(price) >= StopFrom(thesis.anchor)
                   ELSE StopFrom(price) <= StopFrom(thesis.anchor)
  BY <1>1, StopFollowsAnchor
<1>3. StopFrom(price) \in Int
  BY <1>1, StopType
<1>4. StopFrom(price) # 0
  <2>1. CASE plan.long
    <3>1. Scale - Trail(plan) \in Nat
      BY <1>1, PlanFacts
    <3>2. 0 * (Scale - Trail(plan)) <= thesis.anchor * (Scale - Trail(plan))
      BY <1>1, <3>1, ProductMonotone
    <3>3. thesis.stop >= 0
      BY <1>1, <2>1, <3>1, <3>2 DEF StopFrom
    <3> QED
      BY <1>1, <1>2, <1>3, <2>1, <3>3
  <2>2. CASE ~plan.long
    <3>1. Scale + Trail(plan) \in Nat \ {0}
      BY <1>1, PlanFacts
    <3>2. 1 * (Scale + Trail(plan)) <= price * (Scale + Trail(plan))
      BY <1>1, <3>1, ProductMonotone
    <3> QED
      BY <2>2, <3>1, <3>2 DEF StopFrom
  <2> QED
    BY <2>1, <2>2
<1> QED
  BY <1>1, <1>2, <1>4

LEMMA StopStep ==
  ASSUME IInv, [PlanNext]_planVars, kept, kept', thesis.stop # 0
  PROVE  /\ thesis'.stop # 0
         /\ IF plan.long THEN thesis'.stop >= thesis.stop
                         ELSE thesis'.stop <= thesis.stop
<1>1. thesis.stop \in Int /\ thesis.anchor # 0
  BY ThesisNumbers DEF IInv, AnchorInv
<1>2. CASE thesis' = thesis
  BY <1>1, <1>2
<1>3. ASSUME NEW view \in Views, NEW price \in Prices, MoveStop(view, price)
      PROVE  thesis'.stop = StopFrom(price) /\ Better(price, thesis.anchor)
  <2>1. thesis' = Anchored(price) /\ TrailDue(price)
    BY <1>3 DEF MoveStop
  <2> QED
    BY <1>1, <2>1 DEF Anchored, TrailDue, IInv, TypeOK, ThesisType
<1>4. ASSUME NEW view \in Views, NEW price \in Prices, ScaleOut(view, price),
             thesis' # thesis
      PROVE  thesis'.stop = StopFrom(price) /\ Better(price, thesis.anchor)
  <2>1. ScaleOutDue(price)
    BY <1>4 DEF ScaleOut
  <2>2. thesis' = ScaledOut(view, price)
    BY <1>4 DEF ScaleOut, Withheld, Sent, Braked, Rejected, Lost, Filled, Drop
  <2> QED
    BY <1>1, <2>1, <2>2, ScaleOutIsBetter DEF ScaledOut
<1>5. ASSUME NEW view \in Views, NEW price \in Prices, Scan(view, price),
             thesis' # thesis
      PROVE  MoveStop(view, price) \/ ScaleOut(view, price)
  BY <1>5 DEF Scan, Exit, Signal, Hold, Order, Withheld, Sent, Braked, Rejected, Lost, Filled, Drop
<1>6. ASSUME thesis' # thesis
      PROVE  \E view \in Views, price \in Prices : Scan(view, price)
  BY <1>6 DEF PlanNext, planVars, Enter, Vanish, Drop, GrowOld, CloseElsewhere
<1> QED
  BY <1>2, <1>3, <1>4, <1>5, <1>6, BetterAnchor

\* Whatever happens to its orders, a position's trailing stop never loosens.
THEOREM StopsNeverLoosen == PlanSpec => StopNeverLoosens
<1>1. IInv /\ [PlanNext]_planVars =>
        [kept /\ kept' /\ thesis.stop # 0 =>
           /\ thesis'.stop # 0
           /\ IF plan.long THEN thesis'.stop >= thesis.stop
                           ELSE thesis'.stop <= thesis.stop]_planVars
  BY StopStep
<1> QED
  BY <1>1, Invariance, PTL DEF PlanSpec, StopNeverLoosens
-----------------------------------------------------------------------------
(* The costs.                                                              *)

\* A price that is at least as good as one that reaches a threshold.
LEMMA BetterReaches ==
  ASSUME plan \in Plans, NEW a \in Nat, NEW t \in Nat, NEW x \in Int, NEW b \in Nat,
         Reach(a, x), Reach(b, Beyond(a, t))
  PROVE  Reach(b, x)
<1>1. Scale \in Nat /\ plan.long \in BOOLEAN /\ a * t \in Nat
  BY PlanFacts
<1>2. a * (Scale + t) = a * Scale + a * t /\ a * (Scale - t) = a * Scale - a * t
  BY <1>1
<1>3. a * Scale \in Int /\ b * Scale \in Int
  BY <1>1
<1>4. CASE plan.long
  <2>1. a * Scale >= x /\ b * Scale >= a * (Scale + t)
    BY <1>4 DEF Reach, Beyond
  <2>2. b * Scale >= x
    BY <1>1, <1>2, <1>3, <2>1
  <2> QED
    BY <1>4, <2>2 DEF Reach
<1>5. CASE ~plan.long
  <2>1. a * Scale <= x /\ b * Scale <= a * (Scale - t)
    BY <1>5 DEF Reach, Beyond
  <2>2. b * Scale <= x
    BY <1>1, <1>2, <1>3, <2>1
  <2> QED
    BY <1>5, <2>2 DEF Reach
<1> QED
  BY <1>4, <1>5

\* Whoever goes far enough beyond a price goes less far as well.
LEMMA FurtherReaches ==
  ASSUME plan \in Plans, NEW a \in Nat, NEW t \in Nat, NEW c \in Nat, NEW b \in Nat,
         c <= t, Reach(b, Beyond(a, t))
  PROVE  Reach(b, Beyond(a, c))
<1>1. Scale \in Nat /\ plan.long \in BOOLEAN /\ b * Scale \in Int
  BY PlanFacts
<1>2. a * c <= a * t
  <2>1. c * a <= t * a
    BY ProductMonotone
  <2> QED
    BY <2>1
<1>3. /\ a * (Scale + t) = a * Scale + a * t /\ a * (Scale - t) = a * Scale - a * t
      /\ a * (Scale + c) = a * Scale + a * c /\ a * (Scale - c) = a * Scale - a * c
      /\ a * Scale \in Int /\ a * t \in Int /\ a * c \in Int
  BY <1>1
<1>4. CASE plan.long
  <2>1. b * Scale >= a * (Scale + t)
    BY <1>4 DEF Reach, Beyond
  <2>2. b * Scale >= a * (Scale + c)
    BY <1>1, <1>2, <1>3, <2>1
  <2> QED
    BY <1>4, <2>2 DEF Reach, Beyond
<1>5. CASE ~plan.long
  <2>1. b * Scale <= a * (Scale - t)
    BY <1>5 DEF Reach, Beyond
  <2>2. b * Scale <= a * (Scale - c)
    BY <1>1, <1>2, <1>3, <2>1
  <2> QED
    BY <1>5, <2>2 DEF Reach, Beyond
<1> QED
  BY <1>4, <1>5

LEMMA CostType ==
  ASSUME plan \in Plans
  PROVE  /\ plan.cost \in Nat
         /\ 2 * plan.cost <= Scale
         /\ Beyond(plan.entry, plan.cost) \in Nat
<1>1. plan.cost \in Nat /\ 2 * plan.cost <= Scale
  BY ExitAssumption, CostAssumption DEF ExitAssumption, CostAssumption, PlanType
<1>2. /\ plan.entry \in Nat /\ Scale \in Nat
      /\ Scale + plan.cost \in Nat /\ Scale - plan.cost \in Nat
  BY <1>1, PlanFacts
<1>3. Beyond(plan.entry, plan.cost) \in Nat
  BY <1>2 DEF Beyond
<1> QED
  BY <1>1, <1>3

LEMMA ToleranceType ==
  ASSUME plan \in Plans, NEW margin \in Margins
  PROVE  /\ Scale - Tolerance(margin) \in Nat
         /\ Scale + Tolerance(margin) \in Nat
<1>1. margin \in 0..Scale /\ Scale \in Nat
  BY ExitAssumption DEF ExitAssumption
<1>2. 2 * plan.cost \in 0..Scale
  BY <1>1, CostType
<1>3. Tolerance(margin) \in 0..Scale
  BY <1>1, <1>2, Zenon DEF Tolerance
<1> QED
  BY <1>1, <1>3

LEMMA QuotientBounds ==
  ASSUME NEW x \in Nat, NEW s \in Nat \ {0}
  PROVE  /\ x \div s \in Nat
         /\ (x \div s) * s <= x
         /\ x < (x \div s + 1) * s
BY SMT

\* A quote that the check lets through for a price beyond the costs is one that
\* it would let through for the price at which they are just covered.
LEMMA NearCosts ==
  ASSUME plan \in Plans, NEW price \in Nat, NEW quote \in Nat,
         NEW margin \in Margins, Reach(price, Beyond(plan.entry, plan.cost)),
         Acceptable(price, quote, margin)
  PROVE  Acceptable(BreakEven, quote, margin)
<1> DEFINE covered == Beyond(plan.entry, plan.cost)
           low == Scale - Tolerance(margin)
           high == Scale + Tolerance(margin)
<1>1. /\ covered \in Nat /\ Scale \in Nat \ {0} /\ low \in Nat /\ high \in Nat
      /\ plan.long \in BOOLEAN
  BY CostType, ToleranceType, PlanFacts
<1>2. BreakEven = covered \div Scale
  BY DEF BreakEven
<1>3. IF plan.long THEN price * Scale >= covered ELSE price * Scale <= covered
  BY DEF Reach
<1>4. IF plan.long THEN quote * Scale >= price * low ELSE quote * Scale <= price * high
  BY DEF Acceptable
<1> SUFFICES IF plan.long THEN quote * Scale >= BreakEven * low
                          ELSE quote * Scale <= BreakEven * high
  BY DEF Acceptable
<1> HIDE DEF covered, low, high
<1>5. /\ BreakEven \in Nat /\ BreakEven * Scale <= covered
      /\ covered < (BreakEven + 1) * Scale
  BY <1>1, <1>2, QuotientBounds
<1>6. price * Scale \in Nat /\ quote * Scale \in Nat
  BY <1>1
<1>7. CASE plan.long
  <2>1. BreakEven <= price
    <3>1. BreakEven * Scale < (price + 1) * Scale
      <4>1. (price + 1) * Scale = price * Scale + Scale
        BY <1>1
      <4>2. BreakEven * Scale \in Nat
        BY <1>1, <1>5
      <4> QED
        BY <1>1, <1>3, <1>5, <1>6, <1>7, <4>1, <4>2
    <3>2. BreakEven < price + 1
      BY <1>1, <1>5, <3>1, ProductReflects
    <3> QED
      BY <1>5, <3>2
  <2>2. BreakEven * low <= price * low
    BY <1>1, <1>5, <2>1, ProductMonotone
  <2>3. BreakEven * low \in Nat /\ price * low \in Nat
    BY <1>1, <1>5
  <2> QED
    BY <1>4, <1>6, <1>7, <2>2, <2>3
<1>8. CASE ~plan.long
  <2>1. price <= BreakEven
    <3>1. (BreakEven + 1) * Scale \in Nat
      BY <1>1, <1>5
    <3>2. price * Scale < (BreakEven + 1) * Scale
      BY <1>1, <1>3, <1>5, <1>6, <1>8, <3>1
    <3>3. price < BreakEven + 1
      BY <1>1, <1>5, <3>2, ProductReflects
    <3> QED
      BY <1>5, <3>3
  <2>2. price * high <= BreakEven * high
    BY <1>1, <1>5, <2>1, ProductMonotone
  <2>3. price * high \in Nat /\ BreakEven * high \in Nat
    BY <1>1, <1>5
  <2> QED
    BY <1>4, <1>6, <1>8, <2>2, <2>3
<1> QED
  BY <1>1, <1>7, <1>8

\* What the thesis was last scaled out at covers the costs.
DecidedBeyondCosts ==
  kept /\ thesis.last # 0 => Reach(thesis.last, Beyond(plan.entry, plan.cost))

\* The price a scale-out is decided on covers the costs: of the first stage because its
\* trigger does, of a later one because the stage before did.
LEMMA ScaleOutCovers ==
  ASSUME IInv, DecidedBeyondCosts, kept, NEW price \in Prices, ScaleOutDue(price)
  PROVE  Reach(price, Beyond(plan.entry, plan.cost))
<1>1. /\ plan \in Plans /\ price \in Nat /\ thesis.last \in Nat /\ thesis.count \in Nat
      /\ Trail(plan) > 0 /\ thesis.count < Len(Stages(plan))
      /\ Len(Stages(plan)) \in Nat /\ plan.entry \in Nat
  BY PriceType, ThesisNumbers, PlanFacts DEF IInv, TypeOK, ScaleOutDue
<1>2. thesis.count + 1 \in 1..Len(Stages(plan))
  BY <1>1
<1>3. Triggers(plan)[thesis.count + 1] \in Nat
  BY <1>1, <1>2, PlanFacts
<1>4. Reach(price, StageTrigger)
  BY DEF ScaleOutDue
<1>5. plan.cost \in Nat /\ Beyond(plan.entry, plan.cost) \in Int
  BY <1>1, CostType
<1>6. CASE thesis.count > 0
  <2>1. thesis.last # 0 /\ Reach(thesis.last, Beyond(plan.entry, plan.cost))
    BY <1>6 DEF IInv, AnchorInv, DecidedBeyondCosts
  <2>2. Reach(price, Beyond(thesis.last, Triggers(plan)[thesis.count + 1]))
    BY <1>4, <1>6, <2>1 DEF StageTrigger
  <2> QED
    BY <1>1, <1>3, <1>5, <2>1, <2>2, BetterReaches
<1>7. CASE thesis.count = 0
  <2>1. Reach(price, Beyond(plan.entry, Triggers(plan)[1])) /\ Triggers(plan)[1] \in Nat
    BY <1>1, <1>3, <1>4, <1>7 DEF StageTrigger
  <2>2. Stages(plan) # <<>>
    BY <1>1, <1>7
  <2>3. Triggers(plan)[1] >= plan.cost
    BY <1>1, <2>2, CostAssumption DEF CostAssumption
  <2> QED
    BY <1>1, <1>5, <2>1, <2>3, FurtherReaches
<1> QED
  BY <1>1, <1>6, <1>7

LEMMA CoverStep ==
  ASSUME IInv, DecidedBeyondCosts, [PlanNext]_planVars
  PROVE  DecidedBeyondCosts'
<1>1. CASE thesis' = Fresh
  BY <1>1 DEF Fresh, DecidedBeyondCosts
<1>2. ASSUME plan' = plan, kept', thesis'.last = thesis.last, kept
      PROVE  DecidedBeyondCosts'
  BY <1>2 DEF DecidedBeyondCosts, Reach, Beyond
<1>3. ASSUME NEW p \in Plans, Enter(p) PROVE thesis' = Fresh
  BY <1>3 DEF Enter, IInv, AnchorInv
<1>4. ASSUME NEW view \in Views, NEW price \in Prices, MoveStop(view, price)
      PROVE  thesis'.last = thesis.last /\ plan' = plan /\ kept /\ kept'
  BY <1>4 DEF MoveStop, Anchored, IInv, TypeOK, ThesisType
<1>5. ASSUME NEW view \in Views, NEW price \in Prices, ScaleOut(view, price), thesis' # thesis,
             thesis' # Fresh
      PROVE  DecidedBeyondCosts'
  <2>1. ScaleOutDue(price) /\ kept
    BY <1>5 DEF ScaleOut
  <2>2. thesis' = ScaledOut(view, price) /\ plan' = plan
    BY <1>5 DEF ScaleOut, Withheld, Sent, Braked, Rejected, Lost, Filled, Drop
  <2>3. thesis'.last = price
    BY <2>2 DEF ScaledOut
  <2>4. Reach(price, Beyond(plan.entry, plan.cost))
    BY <2>1, ScaleOutCovers
  <2> QED
    BY <2>2, <2>3, <2>4 DEF DecidedBeyondCosts, Reach, Beyond
<1>6. ASSUME NEW view \in Views, NEW price \in Prices, Scan(view, price), thesis' # Fresh
      PROVE  DecidedBeyondCosts'
  <2>1. CASE MoveStop(view, price)
    BY <1>2, <1>4, <2>1
  <2>2. CASE ScaleOut(view, price) /\ thesis' # thesis
    BY <1>5, <1>6, <2>2
  <2>3. CASE ~MoveStop(view, price) /\ thesis' = thesis
    <3>1. plan' = plan /\ kept' = kept
      BY <1>6, <2>3
         DEF Scan, Exit, ScaleOut, Signal, Hold, Order, Withheld, Sent, Braked, Rejected,
             Lost, Filled, Drop
    <3> QED
      BY <2>3, <3>1 DEF DecidedBeyondCosts, Reach, Beyond
  <2> QED
    BY <1>6, <2>1, <2>2, <2>3
       DEF Scan, Exit, Signal, Hold, Order, Withheld, Sent, Braked, Rejected, Lost,
           Filled, Drop
<1>7. CASE UNCHANGED <<plan, kept, thesis>>
  BY <1>7 DEF DecidedBeyondCosts, Reach, Beyond
<1> QED
  BY <1>1, <1>3, <1>6, <1>7 DEF PlanNext, Vanish, Drop, GrowOld, CloseElsewhere, planVars

LEMMA NearStep ==
  ASSUME IInv, DecidedBeyondCosts, ScaleOutsNearCosts, [PlanNext]_planVars
  PROVE  ScaleOutsNearCosts'
<1>1. CASE sold' = 0
  BY <1>1 DEF ScaleOutsNearCosts
<1>2. ASSUME sold' = sold, plan' = plan
      PROVE  ScaleOutsNearCosts'
  BY <1>2 DEF ScaleOutsNearCosts, Acceptable, Tolerance, BreakEven, Beyond
<1>3. ASSUME NEW view \in Views, NEW price \in Prices, ScaleOut(view, price),
             sold' \in Quotes(price), plan' = plan
      PROVE  ScaleOutsNearCosts'
  <2>1. ScaleOutDue(price) /\ kept
    BY <1>3 DEF ScaleOut
  <2>2. Reach(price, Beyond(plan.entry, plan.cost))
    BY <2>1, ScaleOutCovers
  <2>3. PICK quote \in Prices : sold' = quote /\ quote \in Quotes(price)
    BY <1>3 DEF Quotes
  <2>4. PICK margin \in Margins : Acceptable(price, quote, margin)
    BY <2>3 DEF Quotes
  <2>5. plan \in Plans /\ price \in Nat /\ quote \in Nat
    BY PriceType DEF IInv, TypeOK
  <2>6. Acceptable(BreakEven, quote, margin)
    BY <2>2, <2>4, <2>5, NearCosts
  <2> QED
    BY <1>3, <2>3, <2>6 DEF ScaleOutsNearCosts, Acceptable, Tolerance, BreakEven, Beyond
<1>4. ASSUME NEW view \in Views, NEW price \in Prices, Scan(view, price)
      PROVE  /\ plan' = plan
             /\ \/ sold' = sold
                \/ ScaleOut(view, price) /\ sold' \in Quotes(price)
  <2>1. plan' = plan
    BY <1>4 DEF Scan, Exit, ScaleOut, MoveStop, Signal, Hold, Order, Withheld, Sent,
                Braked, Rejected, Lost, Filled
  <2>2. ScaleOut(view, price) \/ sold' = sold
    BY <1>4 DEF Scan, Exit, MoveStop, Signal, Hold, Order
  <2>3. ScaleOut(view, price) => sold' = sold \/ sold' \in Quotes(price)
    BY DEF ScaleOut
  <2> QED
    BY <2>1, <2>2, <2>3
<1>5. ASSUME NEW view \in Views, NEW price \in Prices, Scan(view, price)
      PROVE  ScaleOutsNearCosts'
  BY <1>2, <1>3, <1>4, <1>5
<1>6. ASSUME NEW p \in Plans, Enter(p) PROVE sold' = 0
  BY <1>6 DEF Enter
<1>7. ASSUME NEW view \in Views, Vanish(view) PROVE sold' = sold /\ plan' = plan
  BY <1>7 DEF Vanish
<1>8. CASE GrowOld \/ CloseElsewhere \/ UNCHANGED planVars
  BY <1>2, <1>8 DEF GrowOld, CloseElsewhere, planVars
<1> QED
  BY <1>1, <1>2, <1>5, <1>6, <1>7, <1>8 DEF PlanNext

\* No scale-out is sent below its costs by more than the quality check lets the
\* price slip, however the stages come about.
THEOREM ScaleOutsPay == PlanSpec => []ScaleOutsNearCosts
<1>1. PlanInit => DecidedBeyondCosts /\ ScaleOutsNearCosts
  BY DEF PlanInit, DecidedBeyondCosts, ScaleOutsNearCosts, Fresh
<1>2. /\ IInv /\ DecidedBeyondCosts /\ [PlanNext]_planVars => DecidedBeyondCosts'
      /\ IInv /\ DecidedBeyondCosts /\ ScaleOutsNearCosts /\ [PlanNext]_planVars
           => ScaleOutsNearCosts'
  BY CoverStep, NearStep
<1> QED
  BY <1>1, <1>2, Invariance, PTL DEF PlanSpec

\* Rounding to four decimals moves a ratio by half of the last one at most.
LEMMA RoundedNearby ==
  ASSUME NEW x \in Nat
  PROVE  Made!FourDecimals(x) \in Nat /\ 100 * Made!FourDecimals(x) + 500 >= x
<1> DEFINE q == x \div 1000
           r == x % 1000
<1>1. q \in Nat /\ r \in 0..999 /\ x = 1000 * q + r
  OBVIOUS
<1>2. Made!FourDecimals(x) = 10 * (IF r > 500 \/ (r = 500 /\ q % 2 = 1) THEN q + 1 ELSE q)
  BY DEF Made!FourDecimals
<1> HIDE DEF q, r
<1> QED
  BY <1>1, <1>2

\* What is rounded is far enough above the costs, in every row of the tables.
LEMMA MarginsInTables ==
  ASSUME NEW m \in Made!Market, NEW s \in Made!Strategies(m), NEW p \in Made!Profile
  PROVE  /\ Made!Cost(m) \in Nat
         /\ Made!MinProfit(m, p) * (Made!BaseTrigger[p][1] + Made!TriggerShift[s][1]) \in Nat
         /\ Made!MinProfit(m, p) * (Made!BaseTrigger[p][1] + Made!TriggerShift[s][1])
              >= 100 * Made!Cost(m) + 500
<1>1. /\ m = "stocks" => Made!Cost(m) = 150
      /\ m = "crypto" => Made!Cost(m) = 120
      /\ m = "forex" => Made!Cost(m) = 80
  BY DEF Made!Cost
<1>2. /\ m \in {"stocks", "crypto", "forex"}
      /\ p \in {"conservative", "moderate", "aggressive", "hft"}
      /\ s \in {"momentum", "breakout", "ml_ensemble", "mean_reversion"}
      /\ s = "mean_reversion" => m # "crypto"
  BY DEF Made!Market, Made!Profile, Made!Strategies
<1>3. /\ p = "conservative" => Made!BaseTrigger[p][1] = 85 /\ Made!NetProfit[p] = 400
      /\ p = "moderate" => Made!BaseTrigger[p][1] = 100 /\ Made!NetProfit[p] = 600
      /\ p = "aggressive" => Made!BaseTrigger[p][1] = 120 /\ Made!NetProfit[p] = 900
      /\ p = "hft" => Made!BaseTrigger[p][1] = 60 /\ Made!NetProfit[p] = 300
  BY DEF Made!BaseTrigger, Made!NetProfit
<1>4. /\ s = "momentum" => Made!TriggerShift[s][1] = 0
      /\ s = "breakout" => Made!TriggerShift[s][1] = 20
      /\ s = "ml_ensemble" => Made!TriggerShift[s][1] = 10
      /\ s = "mean_reversion" => Made!TriggerShift[s][1] = -15
  BY DEF Made!TriggerShift
<1>5. Made!MinProfit(m, p) = Made!NetProfit[p] + Made!Cost(m)
  BY DEF Made!MinProfit
<1> QED
  BY <1>1, <1>2, <1>3, <1>4, <1>5

\* The tables keep CostAssumption: of the plans that the program makes, whatever
\* market, strategy and profile, the first trigger covers the costs (_exit_plan,
\* adaptive_scale_management), although some are multiplied by less than a half.
THEOREM TriggersCoverCosts ==
  ASSUME NEW m \in Made!Market, NEW s \in Made!Strategies(m), NEW p \in Made!Profile,
         NEW long \in BOOLEAN, NEW entry \in Nat
  PROVE  LET made == Made!ExitPlan(m, s, p, long, entry)
         IN  made.triggers[1] >= made.cost /\ made.triggers[1] > 0
<1> DEFINE x == Made!MinProfit(m, p) * (Made!BaseTrigger[p][1] + Made!TriggerShift[s][1])
<1>1. Made!Cost(m) \in Nat /\ x \in Nat /\ x >= 100 * Made!Cost(m) + 500
  BY MarginsInTables
<1>2. /\ Made!ExitPlan(m, s, p, long, entry).triggers[1] = Made!TriggerRatio(x)
      /\ Made!ExitPlan(m, s, p, long, entry).cost = Made!Cost(m)
  BY DEF Made!ExitPlan, Made!ScaleOutTriggers
<1> HIDE DEF x
<1> DEFINE y == IF x < 5000 THEN 5000 ELSE x
<1>3. y \in Nat /\ y >= x /\ y >= 5000
  BY <1>1
<1>4. Made!TriggerRatio(x) = Made!FourDecimals(y)
  BY DEF Made!TriggerRatio
<1> HIDE DEF y
<1>5. Made!FourDecimals(y) \in Nat /\ 100 * Made!FourDecimals(y) + 500 >= y
  BY <1>3, RoundedNearby
<1> QED
  BY <1>1, <1>2, <1>3, <1>4, <1>5

=============================================================================

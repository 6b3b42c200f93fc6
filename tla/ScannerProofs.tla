---------------------------- MODULE ScannerProofs ----------------------------
(***************************************************************************)
(* The scanner of a market: its threads, its scans beside the requests of  *)
(* the API, and what the decisions of a scan promise.                      *)
(*                                                                         *)
(* LoopsAreRegistered and LoopsAreShown, together with the types, are      *)
(* inductive. start_market creates a thread only when the registered one   *)
(* is not alive, and then no thread is looping, since a looping thread is  *)
(* the registered one; a thread that cleans up is the registered one, so   *)
(* it removes its own entries.                                             *)
(*                                                                         *)
(* At most one order is late, for any number of API threads and requests.  *)
(*                                                                         *)
(* The decisions: how far learning can move a score, whatever was observed *)
(* (the averages are clamped, and a weighted average of values between two *)
(* bounds is between them), how old a price can be, how far learning can   *)
(* overrule confidence, and what is left of a profit when the price moves  *)
(* between decision and order.                                             *)
(*                                                                         *)
(* The trades it learns from, where the adapter pairs them from fills:     *)
(* Passes is what the sums of FillPairing have in common, and Midway what  *)
(* puts the trades in order.                                               *)
(***************************************************************************)
EXTENDS ScannerThreads, TradingSession, Signals, FillPairing, FiniteSetTheorems, SequenceTheorems,
        WellFoundedInduction, TLAPS

LoopInv == LoopsTyped /\ LoopsAreRegistered /\ LoopsAreShown

LEMMA LoopInvInit == LoopInit => LoopInv
  BY DEF LoopInit, LoopInv, LoopsTyped, LoopsAreRegistered, LoopsAreShown, Looping, Alive

\* Creating a thread when none is looping.
LEMMA LoopInvCreate ==
  ASSUME LoopInv, NEW t \in LoopThreads, Create(t), threads' = {t}, shown' = TRUE,
         \A u \in threads : pc[u] \notin Alive,
         UNCHANGED <<asked, configured>>
  PROVE  LoopInv'
  <1>1. \A u \in LoopThreads : pc[u] \notin Looping
    BY DEF LoopInv, LoopsAreRegistered, Alive
  <1>2. LoopsTyped'
    BY DEF LoopInv, LoopsTyped, Create, Looping, Alive
  <1>3. \A u \in LoopThreads : pc'[u] \in Looping => u = t
    BY <1>1 DEF LoopInv, LoopsTyped, Create
  <1>4. LoopsAreRegistered'
    BY <1>3 DEF LoopsAreRegistered, Create
  <1>. QED  BY <1>2, <1>4 DEF LoopInv, LoopsAreShown

\* A thread that leaves its loop takes the only registration with it.
LEMMA LoopInvLeave ==
  ASSUME LoopInv, NEW t \in LoopThreads, Leave(t)
  PROVE  LoopInv'
  <1>1. \A u \in LoopThreads : pc[u] \in Looping => u = t
    BY DEF LoopInv, LoopsAreRegistered, Leave, Looping
  <1>2. \A u \in LoopThreads : pc'[u] \notin Looping
    BY <1>1 DEF LoopInv, LoopsTyped, Leave, Looping
  <1>3. LoopsTyped'
    BY DEF LoopInv, LoopsTyped, Leave, Alive
  <1>. QED  BY <1>2, <1>3 DEF LoopInv, LoopsAreRegistered, LoopsAreShown

LEMMA LoopInvStep ==
  ASSUME LoopInv, [LoopNext]_loopVars
  PROVE  LoopInv'
  <1>. USE DEF LoopInv
  <1>1. CASE StartMarket
    <2>1. CASE UNCHANGED <<pc, threads, stop_events>>
      BY <1>1, <2>1 DEF StartMarket, LoopsTyped, LoopsAreRegistered, LoopsAreShown
    <2>2. CASE /\ \A u \in threads : pc[u] \notin Alive
               /\ \E t \in LoopThreads : Create(t) /\ threads' = {t}
      BY <1>1, <2>2, LoopInvCreate DEF StartMarket
    <2>. QED  BY <1>1, <2>1, <2>2 DEF StartMarket
  <1>2. ASSUME StopMarket
        PROVE  LoopInv'
    <2>1. \A t \in LoopThreads : pc[t] \in Looping => t \in asked'
      BY <1>2 DEF StopMarket, LoopsAreRegistered
    <2>2. LoopsTyped'
      <3>1. stop_events \subseteq LoopThreads
        BY DEF LoopsTyped
      <3>2. asked' \subseteq LoopThreads
        BY <1>2, <3>1 DEF StopMarket, LoopsTyped
      <3>. QED  BY <1>2, <3>2 DEF StopMarket, LoopsTyped
    <2>. QED  BY <1>2, <2>1, <2>2 DEF StopMarket, LoopsAreRegistered, LoopsAreShown
  <1>3. CASE StopAll
    BY <1>2, <1>3 DEF StopAll
  <1>4. CASE ClearWorkers \/ UpdateWorkers
    BY <1>4 DEF ClearWorkers, UpdateWorkers, LoopsTyped, LoopsAreRegistered, LoopsAreShown
  <1>5. ASSUME NEW t \in LoopThreads, Step(t)
        PROVE  LoopInv'
    <2>1. CASE Boot(t)
      BY <2>1 DEF Boot, LoopsTyped, LoopsAreRegistered, LoopsAreShown, Looping, Alive
    <2>2. CASE CheckStop(t)
      BY <2>2 DEF CheckStop, LoopsTyped, LoopsAreRegistered, LoopsAreShown, Looping, Alive
    <2>3. CASE ScanOnce(t)
      BY <2>3 DEF ScanOnce, LoopsTyped, LoopsAreRegistered, LoopsAreShown, Looping, Alive
    <2>4. CASE Wait(t)
      BY <2>4 DEF Wait, LoopsTyped, LoopsAreRegistered, LoopsAreShown, Looping, Alive
    <2>5. CASE Leave(t)
      BY <2>5, LoopInvLeave
    <2>6. CASE End(t)
      BY <2>6 DEF End, LoopsTyped, LoopsAreRegistered, LoopsAreShown, Looping, Alive
    <2>. QED  BY <1>5, <2>1, <2>2, <2>3, <2>4, <2>5, <2>6 DEF Step
  <1>6. CASE UNCHANGED loopVars
    BY <1>6 DEF loopVars, LoopsTyped, LoopsAreRegistered, LoopsAreShown
  <1>. QED  BY <1>1, <1>2, <1>3, <1>4, <1>5, <1>6 DEF LoopNext

\* However often and from whatever threads a market is started and stopped,
\* every thread in its loop is the registered one: there is at most one, and
\* stop_market reaches it (start_market, stop_market, the end of
\* _run_market_loop).
THEOREM EveryLoopIsRegistered == LoopSpec => []LoopsAreRegistered
  <1>1. LoopInv => LoopsAreRegistered
    BY DEF LoopInv
  <1>. QED  BY <1>1, LoopInvInit, LoopInvStep, PTL DEF LoopSpec

\* A loop that has not been asked to stop is shown to the operator as running.
THEOREM EveryLoopIsShown == LoopSpec => []LoopsAreShown
  <1>1. LoopInv => LoopsAreShown
    BY DEF LoopInv
  <1>. QED  BY <1>1, LoopInvInit, LoopInvStep, PTL DEF LoopSpec

-----------------------------------------------------------------------------
(* Late orders: a scan holds at most one order, a market in RUNNING has    *)
(* none late, and while one is late the scan under way holds no other. A   *)
(* scan can only take up an order where the loop reads RUNNING, and there  *)
(* none is late.                                                           *)

\* What can be left of a scan, with and without an order in it.
WithOrder == {<<"order", "beat", "rest">>, <<"beat", "order", "beat", "rest">>}
NoOrder   == {<<>>, <<"rest">>, <<"beat", "rest">>}

LateInv ==
  /\ late \in {0, 1}
  /\ snap.state = "RUNNING" => late = 0
  /\ late = 1 => todo[Scanner] \in NoOrder

ScanInv ==
  /\ todo = [t \in Threads |-> todo[t]]
  /\ todo[Scanner] \in WithOrder \cup NoOrder

SessionInv == ScanInv /\ LateInv

-----------------------------------------------------------------------------
(* One step of a scan leaves less of it. *)

LEMMA TailsOfScans ==
  ASSUME NEW p \in WithOrder \cup NoOrder, p # <<>>
  PROVE  /\ Tail(p) \in WithOrder \cup NoOrder
         /\ p \in NoOrder => Tail(p) \in NoOrder
         /\ Head(p) = "order" => Tail(p) \in NoOrder
  <1>1. CASE p = <<"order", "beat", "rest">>
    <2>1. Tail(p) = <<"beat", "rest">>
      BY <1>1
    <2>. QED  BY <2>1 DEF NoOrder
  <1>2. CASE p = <<"beat", "order", "beat", "rest">>
    <2>1. Tail(p) = <<"order", "beat", "rest">> /\ Head(p) = "beat"
      BY <1>2
    <2>2. p \notin NoOrder
      BY <1>2 DEF NoOrder
    <2>. QED  BY <2>1, <2>2 DEF WithOrder
  <1>3. CASE p = <<"rest">>
    <2>1. Tail(p) = <<>>
      BY <1>3
    <2>. QED  BY <2>1 DEF NoOrder
  <1>4. CASE p = <<"beat", "rest">>
    <2>1. Tail(p) = <<"rest">>
      BY <1>4
    <2>. QED  BY <2>1 DEF NoOrder
  <1>. QED  BY <1>1, <1>2, <1>3, <1>4 DEF WithOrder, NoOrder

\* A thread that drops what it had left, or all but its tail, keeps ScanInv,
\* and gives the scanner no order it did not have.
LEMMA ShorterPrograms ==
  ASSUME SessionInv, NEW t \in Threads, NEW p,
         todo[t] # <<>>,
         p = Tail(todo[t]) \/ p = <<>>,
         todo' = [todo EXCEPT ![t] = p]
  PROVE  /\ ScanInv'
         /\ todo[Scanner] \in NoOrder => todo'[Scanner] \in NoOrder
  <1>1. Scanner \in Threads
    BY DEF Threads
  <1>2. todo' = [u \in Threads |-> todo'[u]]
    BY DEF SessionInv, ScanInv
  <1>3. CASE t = Scanner
    <2>1. todo'[Scanner] = p
      BY <1>1, <1>3 DEF SessionInv, ScanInv
    <2>2. todo[Scanner] \in WithOrder \cup NoOrder
      BY DEF SessionInv, ScanInv
    <2>3. CASE p = <<>>
      BY <1>2, <2>1, <2>3 DEF ScanInv, NoOrder
    <2>4. CASE p = Tail(todo[t])
      BY <1>2, <1>3, <2>1, <2>2, <2>4, TailsOfScans DEF ScanInv
    <2>. QED  BY <2>3, <2>4
  <1>4. CASE t # Scanner
    <2>1. todo'[Scanner] = todo[Scanner]
      BY <1>1, <1>4 DEF SessionInv, ScanInv
    <2>. QED  BY <1>2, <2>1 DEF SessionInv, ScanInv
  <1>. QED  BY <1>3, <1>4

-----------------------------------------------------------------------------
LEMMA SessionInvInit == Init => SessionInv
  <1>1. Scanner \in Threads
    BY DEF Threads
  <1>. QED  BY <1>1 DEF Init, SessionInv, ScanInv, LateInv, NoOrder

\* An API thread takes up a request: the scanner's program is not touched.
LEMMA SessionInvCall ==
  ASSUME SessionInv, NEW c \in Clients, Call(c)
  PROVE  SessionInv'
  <1>1. PICK p : todo' = [todo EXCEPT ![c] = p]
    BY DEF Call
  <1>2. c # Scanner /\ Scanner \in Threads
    BY SessionAssumption DEF Threads
  <1>3. todo'[Scanner] = todo[Scanner] /\ todo' = [u \in Threads |-> todo'[u]]
    BY <1>1, <1>2 DEF SessionInv, ScanInv
  <1>. QED  BY <1>3 DEF SessionInv, ScanInv, LateInv, Call

\* A scan begins: with an order in it only where the market is RUNNING.
LEMMA SessionInvLook ==
  ASSUME SessionInv, Look
  PROVE  SessionInv'
  <1>1. PICK p \in Scan(snap) : todo' = [todo EXCEPT ![Scanner] = p]
    BY DEF Look
  <1>2. p \in WithOrder \cup NoOrder /\ (snap.state # "RUNNING" => p \in NoOrder)
    BY DEF Scan, Trading, Looking, WithOrder, NoOrder
  <1>3. todo'[Scanner] = p /\ todo' = [u \in Threads |-> todo'[u]]
    BY <1>1 DEF SessionInv, ScanInv, Threads
  <1>4. UNCHANGED <<snap, late>>
    BY DEF Look
  <1>5. ScanInv'
    BY <1>2, <1>3 DEF ScanInv
  <1>. QED  BY <1>2, <1>3, <1>4, <1>5 DEF SessionInv, LateInv

LEMMA SessionInvRun ==
  ASSUME SessionInv, NEW t \in Threads, Run(t)
  PROVE  SessionInv'
  <1>1. ASSUME todo[t] # <<>>,
               \/ todo' = [todo EXCEPT ![t] = <<>>]
               \/ todo' = [todo EXCEPT ![t] = Tail(todo[t])]
        PROVE  ScanInv' /\ (todo[Scanner] \in NoOrder => todo'[Scanner] \in NoOrder)
    BY <1>1, ShorterPrograms
  <1>2. CASE Check(t)
    <2>1. ScanInv' /\ (todo[Scanner] \in NoOrder => todo'[Scanner] \in NoOrder)
      BY <1>1, <1>2 DEF Check, Facing
    <2>. QED  BY <1>2, <2>1 DEF Check, SessionInv, LateInv
  <1>3. CASE Read(t)
    <2>1. CASE UNCHANGED todo
      BY <1>3, <2>1 DEF Read, SessionInv, ScanInv, LateInv
    <2>2. CASE todo' = [todo EXCEPT ![t] = <<>>]
      <3>1. ScanInv' /\ (todo[Scanner] \in NoOrder => todo'[Scanner] \in NoOrder)
        BY <1>1, <1>3, <2>2 DEF Read, Facing
      <3>. QED  BY <1>3, <3>1 DEF Read, SessionInv, LateInv
    <2>. QED  BY <1>3, <2>1, <2>2 DEF Read
  <1>4. CASE WriteBack(t)
    <2>1. ScanInv' /\ (todo[Scanner] \in NoOrder => todo'[Scanner] \in NoOrder)
      BY <1>1, <1>4 DEF WriteBack, Facing
    <2>2. late' = IF snap'.state = "RUNNING" THEN 0 ELSE late
      BY <1>4 DEF WriteBack
    <2>. QED  BY <2>1, <2>2 DEF SessionInv, LateInv
  <1>. QED  BY <1>2, <1>3, <1>4 DEF Run

\* The order goes out: late or not, it was the only one.
LEMMA SessionInvSubmit ==
  ASSUME SessionInv, Submit
  PROVE  SessionInv'
  <1>1. Scanner \in Threads /\ todo[Scanner] # <<>> /\ Head(todo[Scanner]) = "order"
    BY DEF Submit, Facing, Threads
  <1>2. ScanInv'
    BY <1>1, ShorterPrograms DEF Submit
  <1>3. todo'[Scanner] = Tail(todo[Scanner])
    BY <1>1 DEF Submit, SessionInv, ScanInv
  <1>4. todo'[Scanner] \in NoOrder
    BY <1>1, <1>3, TailsOfScans DEF SessionInv, ScanInv
  <1>5. todo[Scanner] \notin NoOrder
    <2>1. Head(<<"rest">>) = "rest" /\ Head(<<"beat", "rest">>) = "beat"
      OBVIOUS
    <2>. QED  BY <1>1, <2>1 DEF NoOrder
  <1>6. late = 0
    BY <1>5 DEF SessionInv, LateInv
  <1>. QED  BY <1>2, <1>4, <1>6 DEF Submit, SessionInv, LateInv

\* The end of a scan, and an exception in it.
LEMMA SessionInvRestRaise ==
  ASSUME SessionInv, Rest \/ Raise
  PROVE  SessionInv'
  <1>1. Scanner \in Threads /\ todo[Scanner] # <<>>
    BY DEF Rest, Raise, Facing, Threads
  <1>2. CASE Rest
    <2>1. ScanInv' /\ (todo[Scanner] \in NoOrder => todo'[Scanner] \in NoOrder)
      BY <1>1, <1>2, ShorterPrograms DEF Rest
    <2>. QED  BY <1>2, <2>1 DEF Rest, SessionInv, LateInv
  <1>3. CASE Raise
    <2>1. todo'[Scanner] = <<"rest">> /\ todo' = [u \in Threads |-> todo'[u]]
      BY <1>1, <1>3 DEF Raise, SessionInv, ScanInv
    <2>. QED  BY <1>3, <2>1 DEF Raise, SessionInv, ScanInv, LateInv, NoOrder
  <1>. QED  BY <1>2, <1>3

LEMMA SessionInvStep ==
  ASSUME SessionInv, [Next]_vars
  PROVE  SessionInv'
  <1>1. CASE \E c \in Clients : Call(c) \/ Run(c)
    BY <1>1, SessionInvCall, SessionInvRun DEF Threads
  <1>2. CASE Loop
    <2>1. Scanner \in Threads
      BY DEF Threads
    <2>. QED  BY <1>2, <2>1, SessionInvLook, SessionInvSubmit, SessionInvRestRaise, SessionInvRun DEF Loop
  <1>3. CASE Raise
    BY <1>3, SessionInvRestRaise
  <1>4. CASE UNCHANGED vars
    BY <1>4 DEF vars, SessionInv, ScanInv, LateInv
  <1>. QED  BY <1>1, <1>2, <1>3, <1>4 DEF Next

\* However the API's threads and the scanner interleave, at most one order is
\* submitted after the market has left RUNNING (_run_market_loop reads the
\* state before every scan; _scan_market submits at most once).
THEOREM AtMostOneLateOrder == Spec => []OneLateOrder
  <1>1. SessionInv => OneLateOrder
    BY DEF SessionInv, LateInv, OneLateOrder
  <1>. QED  BY <1>1, SessionInvInit, SessionInvStep, PTL DEF Spec

-----------------------------------------------------------------------------
(* What learning does to a score.                                          *)

LEMMA ClampBounds ==
  ASSUME NEW x \in Int, NEW bound \in Nat
  PROVE  Clamp(x, bound) \in Int /\ -bound <= Clamp(x, bound) /\ Clamp(x, bound) <= bound
  BY DEF Clamp, Larger, Smaller

LEMMA AverageIsInt ==
  ASSUME NEW total \in Int, NEW count \in Nat
  PROVE  Average(total, count) \in Int
  BY DEF Average

LEMMA QuotientIsNat ==
  ASSUME NEW total \in Nat, NEW count \in Nat, count > 0
  PROVE  total \div count \in Nat
  <1>. DEFINE q == total \div count
              r == total % count
  <1>1. q \in Int /\ r \in 0..(count - 1) /\ total = count * q + r
    BY Z3
  <1>2. q >= 0
    <2>1. SUFFICES ASSUME q <= -1 PROVE FALSE
      BY <1>1
    <2>2. count * q <= -count
      BY <1>1, <2>1, Z3
    <2>. QED  BY <1>1, <2>2
  <1>. QED  BY <1>1, <1>2

LEMMA OutcomeScoreBounds ==
  ASSUME NEW stats \in Outcome
  PROVE  OutcomeScore(stats) \in Int /\ -10000 <= OutcomeScore(stats) /\ OutcomeScore(stats) <= 10000
  <1>. DEFINE winRate == Average(stats.wins * One, stats.closed)
              edge == Average(stats.returns, stats.closed)
  <1>1. stats.wins \in Nat /\ stats.closed \in Nat /\ stats.returns \in Int
    BY DEF Outcome
  <1>2. stats.wins * One \in Int
    BY <1>1 DEF One
  <1>3. winRate \in Int /\ edge \in Int
    BY <1>1, <1>2, AverageIsInt
  <1>. HIDE DEF winRate, edge
  <1>. DEFINE x == edge * 30
              y == ((winRate - 5000) * 12) \div 10
  <1>4. x \in Int /\ y \in Int /\ 7500 \in Nat /\ 2500 \in Nat
    BY <1>3
  <1>5. OutcomeScore(stats) = Clamp(x, 7500) + Clamp(y, 2500)
    BY DEF OutcomeScore, winRate, edge
  <1>. HIDE DEF x, y
  <1>6. Clamp(x, 7500) \in Int /\ -7500 <= Clamp(x, 7500) /\ Clamp(x, 7500) <= 7500
    BY <1>4, ClampBounds
  <1>7. Clamp(y, 2500) \in Int /\ -2500 <= Clamp(y, 2500) /\ Clamp(y, 2500) <= 2500
    BY <1>4, ClampBounds
  <1>. QED  BY <1>5, <1>6, <1>7

LEMMA PenaltyBounds ==
  ASSUME NEW stats \in Execution
  PROVE  ExecutionPenalty(stats) \in Int /\ 0 <= ExecutionPenalty(stats) /\ ExecutionPenalty(stats) <= 12000
  <1>. DEFINE failureRate == Average(stats.refused * One, stats.attempts)
              slip == Average(stats.slippage, stats.priced)
  <1>1. /\ stats.refused \in Nat /\ stats.attempts \in Nat
        /\ stats.slippage \in Nat /\ stats.priced \in Nat
    BY DEF Execution
  <1>2. stats.refused * One \in Nat
    BY <1>1 DEF One
  <1>3. failureRate \in Nat /\ slip \in Nat
    BY <1>1, <1>2, QuotientIsNat DEF Average
  <1>. HIDE DEF failureRate, slip
  <1>4. (failureRate * 11) \div 10 \in Nat
    BY <1>3, QuotientIsNat
  <1>5. ExecutionPenalty(stats) = Smaller(12000, (failureRate * 11) \div 10 + slip * 35)
    BY DEF ExecutionPenalty, failureRate, slip
  <1>. QED  BY <1>3, <1>4, <1>5 DEF Smaller

\* The parts of an average whose values lie between two bounds.
Parts(low, high) ==
  {p \in [value : Int, weight : Nat] : low * p.weight <= p.value /\ p.value <= high * p.weight}

\* The average lies between them too.
LEMMA BlendBounds ==
  ASSUME NEW low \in Int, NEW high \in Int, low <= 0, 0 <= high,
         NEW a \in Parts(low, high), NEW b \in Parts(low, high), NEW c \in Parts(low, high)
  PROVE  Blend(a, b, c) \in {d \in Int : low <= d /\ d <= high}
  <1>. DEFINE total == a.value + b.value + c.value
              weight == a.weight + b.weight + c.weight
  <1>1. total \in Int /\ weight \in Nat
    BY DEF Parts
  <1>2. low * weight <= total /\ total <= high * weight
    BY DEF Parts
  <1>3. Blend(a, b, c) = IF weight <= 0 THEN 0 ELSE total \div weight
    BY DEF Blend
  <1>. HIDE DEF total, weight
  <1>4. weight > 0 => total \div weight \in Int /\ low <= total \div weight /\ total \div weight <= high
    BY <1>1, <1>2, SMTT(60)
  <1>. QED  BY <1>1, <1>3, <1>4

LEMMA OutcomeDeltaBounds ==
  ASSUME NEW a \in Outcome, NEW b \in Outcome, NEW c \in Outcome
  PROVE  /\ OutcomeDelta(a, b, c) \in Int
         /\ -10000 <= OutcomeDelta(a, b, c) /\ OutcomeDelta(a, b, c) <= 10000
  <1>. DEFINE low == -10000
              high == 10000
  <1>1. \A s \in Outcome : OutcomePart(s, 55) \in Parts(low, high)
    BY OutcomeScoreBounds DEF OutcomePart, Part, Parts
  <1>2. \A s \in Outcome : OutcomePart(s, 30) \in Parts(low, high)
    BY OutcomeScoreBounds DEF OutcomePart, Part, Parts
  <1>3. \A s \in Outcome : OutcomePart(s, 15) \in Parts(low, high)
    BY OutcomeScoreBounds DEF OutcomePart, Part, Parts
  <1>4. low \in Int /\ high \in Int /\ low <= 0 /\ 0 <= high
    OBVIOUS
  <1>. HIDE DEF low, high
  <1>5. OutcomeDelta(a, b, c) \in {d \in Int : low <= d /\ d <= high}
    BY <1>1, <1>2, <1>3, <1>4, BlendBounds DEF OutcomeDelta
  <1>. QED  BY <1>5 DEF low, high

LEMMA PenaltyDeltaBounds ==
  ASSUME NEW a \in Execution, NEW b \in Execution
  PROVE  /\ Penalty(a, b) \in Int
         /\ 0 <= Penalty(a, b) /\ Penalty(a, b) <= 12000
  <1>. DEFINE low == 0
              high == 12000
  <1>1. \A s \in Execution : PenaltyPart(s, 65) \in Parts(low, high)
    BY PenaltyBounds DEF PenaltyPart, Part, Parts
  <1>2. \A s \in Execution : PenaltyPart(s, 35) \in Parts(low, high)
    BY PenaltyBounds DEF PenaltyPart, Part, Parts
  <1>3. Part(0, 0) \in Parts(low, high)
    BY DEF Part, Parts
  <1>4. low \in Int /\ high \in Int /\ low <= 0 /\ 0 <= high
    OBVIOUS
  <1>. HIDE DEF low, high
  <1>5. Penalty(a, b) \in {d \in Int : low <= d /\ d <= high}
    BY <1>1, <1>2, <1>3, <1>4, BlendBounds DEF Penalty
  <1>. QED  BY <1>5 DEF low, high

-----------------------------------------------------------------------------
(* What is learned stays within its types.                                 *)

WellKept(memory) ==
  /\ memory = [outcomes |-> memory.outcomes, executions |-> memory.executions, known |-> memory.known]
  /\ \A key : At(memory.outcomes, key, NoOutcome) \in Outcome
  /\ \A key : At(memory.executions, key, NoExecution) \in Execution

LEMMA EmptyIsWellKept == WellKept(Forgotten)
  BY DEF WellKept, Forgotten, At, NoOutcome, NoExecution, Outcome, Execution

\* A memory that is well kept stays so when a closed trade is recorded, under
\* whatever thesis (record_closed_trade).
THEOREM TradesAreKept ==
  ASSUME NEW memory, WellKept(memory), NEW trade, NEW thesis, trade.ratio \in Int
  PROVE  WellKept(RecordClosedTrade(memory, trade, thesis))
  <1>. DEFINE keys == {SymbolKey(trade.symbol, thesis.strategy), StrategyKey(thesis.strategy)}
                        \cup (IF thesis.regime = None THEN {}
                              ELSE {RegimeKey(thesis.strategy, thesis.regime)})
              new == [k \in DOMAIN memory.outcomes \cup keys |->
                        IF k \in keys THEN Seen(At(memory.outcomes, k, NoOutcome), trade.ratio)
                        ELSE memory.outcomes[k]]
  <1>1. CASE trade.id \in memory.known \/ thesis.strategy = None
    BY <1>1 DEF RecordClosedTrade
  <1>2. CASE ~(trade.id \in memory.known \/ thesis.strategy = None)
    <2>1. RecordClosedTrade(memory, trade, thesis)
            = [outcomes |-> new, executions |-> memory.executions,
               known |-> memory.known \cup {trade.id}]
      BY <1>2 DEF RecordClosedTrade, Put, WellKept
    <2>2. \A stats \in Outcome : Seen(stats, trade.ratio) \in Outcome
      BY DEF Seen, Outcome
    <2>. HIDE DEF keys
    <2>3. \A key : At(new, key, NoOutcome) \in Outcome
      <3>1. TAKE key
      <3>2. At(memory.outcomes, key, NoOutcome) \in Outcome
        BY DEF WellKept
      <3>. QED  BY <2>2, <3>2 DEF At
    <2>. QED  BY <2>1, <2>3 DEF WellKept
  <1>. QED  BY <1>1, <1>2

\* And when an order is (_update_execution), whatever came of it; 0 is no price.
THEOREM OrdersAreKept ==
  ASSUME NEW memory, WellKept(memory), NEW symbol, NEW strategy, NEW outcome,
         NEW reference \in Nat, NEW realized \in Nat
  PROVE  WellKept(UpdateExecution(memory, symbol, strategy, outcome, reference, realized))
  <1>. DEFINE keys == {SymbolKey(symbol, strategy), StrategyKey(strategy)}
              new == [k \in DOMAIN memory.executions \cup keys |->
                        IF k \in keys
                        THEN Tried(At(memory.executions, k, NoExecution), outcome, reference, realized)
                        ELSE memory.executions[k]]
  <1>1. UpdateExecution(memory, symbol, strategy, outcome, reference, realized)
          = [outcomes |-> memory.outcomes, executions |-> new, known |-> memory.known]
    BY DEF UpdateExecution, Put, WellKept
  <1>2. reference > 0 => PriceMove(reference, realized) \in Nat
    <2>1. Larger(realized - reference, reference - realized) * One \in Nat
      BY DEF Larger, One
    <2>. QED  BY <2>1, QuotientIsNat DEF PriceMove
  <1>3. \A stats \in Execution : Tried(stats, outcome, reference, realized) \in Execution
    BY <1>2 DEF Tried, Execution
  <1>. HIDE DEF keys
  <1>4. \A key : At(new, key, NoExecution) \in Execution
    <2>1. TAKE key
    <2>2. At(memory.executions, key, NoExecution) \in Execution
      BY DEF WellKept
    <2>. QED  BY <1>3, <2>2 DEF At
  <1>. QED  BY <1>1, <1>4 DEF WellKept

\* A trade that has been learned from is not learned from again, however often
\* it is reported and whatever thesis it is then filed under (_processed_trade_ids).
THEOREM TradesCountOnce ==
  ASSUME NEW memory, WellKept(memory), NEW trade, NEW first, NEW second,
         first.strategy # None
  PROVE  LET learned == RecordClosedTrade(memory, trade, first)
         IN  RecordClosedTrade(learned, trade, second) = learned
  <1>1. trade.id \in RecordClosedTrade(memory, trade, first).known
    BY DEF RecordClosedTrade, WellKept
  <1>. QED  BY <1>1 DEF RecordClosedTrade

\* Whatever was learned, of whatever symbol and strategy, a score is moved by
\* at most 1.25; what was refused or slipped never raises it above what the
\* closed trades earned (score_adjustment).
THEOREM LearningIsBounded ==
  ASSUME NEW memory, WellKept(memory), NEW symbol, NEW strategy, NEW regime
  PROVE  LET delta == ScoreAdjustment(memory, symbol, strategy, regime)
         IN  delta \in Int /\ -12500 <= delta /\ delta <= 10000
  <1>. DEFINE outcomeAt(key) == At(memory.outcomes, key, NoOutcome)
              triedAt(key) == At(memory.executions, key, NoExecution)
              r == IF regime = None THEN NoOutcome ELSE outcomeAt(RegimeKey(strategy, regime))
              gain == OutcomeDelta(outcomeAt(SymbolKey(symbol, strategy)),
                                   outcomeAt(StrategyKey(strategy)), r)
              loss == Penalty(triedAt(SymbolKey(symbol, strategy)), triedAt(StrategyKey(strategy)))
  <1>1. r \in Outcome
    BY DEF WellKept, NoOutcome, Outcome
  <1>2. gain \in Int /\ gain <= 10000
    <2>. HIDE DEF r
    <2>. QED  BY <1>1, OutcomeDeltaBounds DEF WellKept
  <1>3. loss \in Int /\ 0 <= loss
    BY PenaltyDeltaBounds DEF WellKept
  <1>4. ScoreAdjustment(memory, symbol, strategy, regime) = Clamp(gain - loss, 12500)
    BY DEF ScoreAdjustment
  <1>. HIDE DEF gain, loss
  <1>5. gain - loss \in Int /\ gain - loss <= 10000
    BY <1>2, <1>3
  <1>6. Clamp(gain - loss, 12500) <= 10000
    BY <1>5 DEF Clamp, Larger, Smaller
  <1>7. 12500 \in Nat
    OBVIOUS
  <1>. QED  BY <1>4, <1>5, <1>6, <1>7, ClampBounds

\* A symbol, strategy and regime with fewer than two closed trades and fewer
\* than two orders change no score (_outcome_score, _execution_penalty).
THEOREM OneObservationIsNone ==
  ASSUME NEW memory, NEW symbol, NEW strategy, NEW regime,
         \A key : At(memory.outcomes, key, NoOutcome).closed \in {0, 1},
         \A key : At(memory.executions, key, NoExecution).attempts \in {0, 1}
  PROVE  ScoreAdjustment(memory, symbol, strategy, regime) = 0
  <1>1. \A s, n : s.closed \in {0, 1} => OutcomePart(s, n) = Part(OutcomeScore(s), 0)
    BY DEF OutcomePart, Enough
  <1>2. \A s, n : s.attempts \in {0, 1} => PenaltyPart(s, n) = Part(ExecutionPenalty(s), 0)
    BY DEF PenaltyPart, Enough
  <1>3. \A a, b, c : a.closed \in {0, 1} /\ b.closed \in {0, 1} /\ c.closed \in {0, 1}
                       => OutcomeDelta(a, b, c) = 0
    BY <1>1 DEF OutcomeDelta, Blend, Part
  <1>4. \A a, b : a.attempts \in {0, 1} /\ b.attempts \in {0, 1} => Penalty(a, b) = 0
    BY <1>2 DEF Penalty, Blend, Part
  <1>5. NoOutcome.closed \in {0, 1}
    BY DEF NoOutcome
  <1>6. ScoreAdjustment(memory, symbol, strategy, regime) = Clamp(0 - 0, 12500)
    BY <1>3, <1>4, <1>5 DEF ScoreAdjustment
  <1>. QED  BY <1>6 DEF Clamp, Larger, Smaller

-----------------------------------------------------------------------------
(* Quotes.                                                                 *)

Quotes == [price : Nat \ {0}, at : Int]

\* A cache holds positive prices only, none from the future.
CacheKept(cache, now) ==
  /\ cache = [s \in DOMAIN cache |-> cache[s]]
  /\ \A s \in DOMAIN cache : cache[s] \in Quotes /\ cache[s].at <= now

\* Whatever the broker answers, a cache that is kept well stays so until the
\* next look (_prices_for_symbols stores nothing but positive answers).
THEOREM CacheStaysKept ==
  ASSUME NEW cache, NEW now \in Int, CacheKept(cache, now), NEW later \in Int, now <= later,
         NEW symbols, NEW ttl, NEW mode, NEW quote, \A s \in symbols : quote[s] \in Nat
  PROVE  CacheKept(CacheAfter(cache, symbols, now, ttl, mode, quote), later)
  <1>. DEFINE fetched == Fetched(cache, symbols, now, ttl, mode, quote)
              new == CacheAfter(cache, symbols, now, ttl, mode, quote)
  <1>1. fetched \subseteq symbols /\ \A s \in fetched : quote[s] \in Nat \ {0}
    BY DEF Fetched, MissingSymbols
  <1>2. new = [s \in DOMAIN cache \cup fetched |->
                 IF s \in fetched THEN [price |-> quote[s], at |-> now] ELSE cache[s]]
    BY DEF CacheAfter
  <1>. HIDE DEF fetched, new
  <1>3. DOMAIN new = DOMAIN cache \cup fetched
    BY <1>2
  <1>4. ASSUME NEW s \in DOMAIN new PROVE new[s] \in Quotes /\ new[s].at <= later
    <2>1. CASE s \in fetched
      <3>1. new[s] = [price |-> quote[s], at |-> now]
        BY <1>2, <2>1
      <3>. QED  BY <1>1, <2>1, <3>1 DEF Quotes
    <2>2. CASE s \notin fetched
      <3>1. s \in DOMAIN cache /\ new[s] = cache[s]
        BY <1>2, <1>3, <2>2
      <3>. QED  BY <3>1 DEF CacheKept, Quotes
    <2>. QED  BY <2>1, <2>2
  <1>5. new = [s \in DOMAIN new |-> new[s]]
    BY <1>2, <1>3
  <1>. QED  BY <1>4, <1>5 DEF CacheKept, new

\* Every price a scan decides on is positive, and either answered by the broker
\* in this very look or no older than the time the cache allows; a forced look,
\* the one before an order, gives none but answers.
THEOREM QuotesAreFresh ==
  ASSUME NEW cache, NEW now \in Int, CacheKept(cache, now),
         NEW symbols, NEW ttl \in Int, NEW mode, NEW quote, \A s \in symbols : quote[s] \in Nat
  PROVE  LET prices == PricesFor(cache, symbols, now, ttl, mode, quote)
         IN  \A s \in DOMAIN prices :
               /\ s \in symbols /\ prices[s] \in Nat \ {0}
               /\ prices[s] # quote[s] => /\ mode # "forced" /\ s \in DOMAIN cache
                                          /\ prices[s] = cache[s].price
                                          /\ now - cache[s].at \in 0..ttl
  <1>. DEFINE fetched == Fetched(cache, symbols, now, ttl, mode, quote)
              known == symbols \ MissingSymbols(cache, symbols, now, ttl, mode)
              prices == PricesFor(cache, symbols, now, ttl, mode, quote)
  <1>1. prices = [s \in known \cup fetched |-> IF s \in fetched THEN quote[s] ELSE cache[s].price]
    BY DEF PricesFor
  <1>2. \A s \in fetched : s \in symbols /\ quote[s] \in Nat \ {0}
    BY DEF Fetched, MissingSymbols
  <1>3. \A s \in known : /\ s \in symbols /\ mode # "forced"
                         /\ s \in DOMAIN cache /\ now - cache[s].at <= ttl
    BY DEF MissingSymbols, Cached
  <1>. HIDE DEF fetched, known, prices
  <1>4. SUFFICES ASSUME NEW s \in DOMAIN prices
                 PROVE  /\ s \in symbols /\ prices[s] \in Nat \ {0}
                        /\ prices[s] # quote[s] => /\ mode # "forced" /\ s \in DOMAIN cache
                                                   /\ prices[s] = cache[s].price
                                                   /\ now - cache[s].at \in 0..ttl
    BY DEF prices
  <1>5. CASE s \in fetched
    <2>1. prices[s] = quote[s]
      BY <1>1, <1>5
    <2>. QED  BY <1>2, <1>5, <2>1
  <1>6. CASE s \notin fetched
    <2>1. s \in known /\ prices[s] = cache[s].price
      BY <1>1, <1>6
    <2>2. cache[s] \in Quotes /\ cache[s].at <= now
      BY <1>3, <2>1 DEF CacheKept
    <2>3. now - cache[s].at \in 0..ttl
      BY <1>3, <2>1, <2>2 DEF Quotes
    <2>. QED  BY <1>3, <2>1, <2>2, <2>3 DEF Quotes
  <1>. QED  BY <1>5, <1>6

-----------------------------------------------------------------------------
(* Candidates.                                                             *)

LEMMA Confidences ==
  ASSUME NEW c \in Candidate
  PROVE  /\ c.confidence \in Int /\ c.setup \in Int /\ c.regime \in Int
         /\ 0 <= c.confidence /\ 0 <= c.setup /\ 0 <= c.regime
         /\ c.confidence <= One /\ c.setup <= One /\ c.regime <= One
         /\ One \in Int /\ c.reasons \in Nat
  <1>1. One \in Nat
    BY DEF One
  <1>2. \A x \in Confidence : x \in Int /\ 0 <= x /\ x <= One
    BY <1>1 DEF Confidence
  <1>3. /\ c.confidence \in Confidence /\ c.setup \in Confidence /\ c.regime \in Confidence
        /\ c.reasons \in Nat
    BY DEF Candidate
  <1>. QED  BY <1>1, <1>2, <1>3

LEMMA BaseScoreIsInt ==
  ASSUME NEW c \in Candidate
  PROVE  BaseScore(c) \in Int
  <1>1. c.confidence \in Int /\ c.setup \in Int /\ c.regime \in Int /\ c.reasons \in Int
    BY Confidences
  <1>2. Agreement(c) \in Int
    BY <1>1 DEF Agreement, Smallest3, Smaller, OrNone, One
  <1>3. Smaller(c.reasons, 3) \in Int
    BY <1>1 DEF Smaller
  <1>. QED  BY <1>1, <1>2, <1>3, SMT DEF BaseScore

\* What learning can do to a score: 1.25 down and 1 up; together 2.25.
Adjustment == {d \in Int : -12500 <= d /\ d <= 10000}
ClearLead == 2250000

\* A higher score decides, whatever the rest.
LEMMA ScoreDecides ==
  ASSUME NEW c \in Candidate, NEW d \in Candidate, NEW x \in Int, NEW y \in Int,
         Score(c, x) > Score(d, y)
  PROVE  Outranks(Merit(c, x), Merit(d, y)) /\ ~Outranks(Merit(d, y), Merit(c, x))
  <1>. DEFINE m == Merit(c, x)
              n == Merit(d, y)
  <1>1. Score(c, x) \in Int /\ Score(d, y) \in Int
    BY BaseScoreIsInt DEF Score
  <1>2. m[1] = Score(c, x) /\ n[1] = Score(d, y)
    BY DEF Merit
  <1>. HIDE DEF m, n
  <1>3. Outranks(m, n)
    <2>1. 1 \in 1..5 /\ m[1] > n[1] /\ \A j \in 1..(1 - 1) : m[j] = n[j]
      BY <1>2
    <2>. QED  BY <2>1 DEF Outranks
  <1>4. ~Outranks(n, m)
    <2>1. SUFFICES ASSUME NEW i \in 1..5, n[i] > m[i], \A j \in 1..(i - 1) : n[j] = m[j]
                   PROVE  FALSE
      BY DEF Outranks
    <2>2. CASE i = 1
      BY <1>1, <1>2, <2>1, <2>2
    <2>3. CASE i # 1
      <3>1. 1 \in 1..(i - 1)
        BY <2>3
      <3>2. n[1] = m[1]
        BY <2>1, <3>1
      <3>. QED  BY <1>1, <1>2, <3>2
    <2>. QED  BY <2>2, <2>3
  <1>. QED  BY <1>3, <1>4 DEF m, n

\* Learning cannot overrule a clear lead: the candidate whose confidences put it
\* more than 2.25 ahead of every other is selected, whatever was learned of each
\* (evaluate takes the maximum of base score plus score_adjustment).
THEOREM ConfidenceDecides ==
  ASSUME NEW candidates \in SUBSET Candidate, NEW best \in candidates,
         NEW learned \in [candidates -> Adjustment],
         \A c \in candidates \ {best} : BaseScore(best) - BaseScore(c) > ClearLead
  PROVE  Selected(candidates, learned) = best
  <1>. DEFINE Leads(c, d) == Outranks(Merit(c, learned[c]), Merit(d, learned[d]))
              First(c) == \A d \in candidates \ {c} : Leads(c, d)
  <1>1. ASSUME NEW c \in candidates \ {best}
        PROVE  Leads(best, c) /\ ~Leads(c, best)
    <2>1. best \in Candidate /\ c \in Candidate
      OBVIOUS
    <2>2. BaseScore(best) \in Int /\ BaseScore(c) \in Int
      BY <2>1, BaseScoreIsInt
    <2>3. /\ learned[best] \in Int /\ learned[best] >= -12500
          /\ learned[c] \in Int /\ learned[c] <= 10000
      BY DEF Adjustment
    <2>4. BaseScore(best) - BaseScore(c) > ClearLead
      OBVIOUS
    <2>5. Score(best, learned[best]) > Score(c, learned[c])
      BY <2>2, <2>3, <2>4, SMT DEF Score, ClearLead
    <2>. QED  BY <2>1, <2>3, <2>5, ScoreDecides
  <1>. HIDE DEF Leads
  <1>2. First(best)
    BY <1>1
  <1>3. \A c \in candidates : First(c) => c = best
    BY <1>1
  <1>4. Selected(candidates, learned) = CHOOSE c \in candidates : First(c)
    BY DEF Selected, Leads
  <1>. HIDE DEF First
  <1>. QED  BY <1>2, <1>3, <1>4

\* What learning does to a score is such an adjustment.
THEOREM LearningAdjusts ==
  ASSUME NEW memory, WellKept(memory), NEW symbol, NEW strategy, NEW regime
  PROVE  ScoreAdjustment(memory, symbol, strategy, regime) \in Adjustment
  BY LearningIsBounded DEF Adjustment

LEMMA AgreementGrows ==
  ASSUME NEW c \in Candidate, NEW d \in Candidate,
         c.confidence <= d.confidence, c.setup <= d.setup, c.regime <= d.regime,
         c.confidence > 0 \/ d.confidence = 0, c.setup > 0 \/ d.setup = 0,
         c.regime > 0 \/ d.regime = 0
  PROVE  Agreement(c) \in Int /\ Agreement(d) \in Int /\ Agreement(c) <= Agreement(d)
  <1>. DEFINE a == c.confidence  b == c.setup  e == c.regime
              x == d.confidence  y == d.setup  z == d.regime
  <1>1. /\ a \in Int /\ b \in Int /\ e \in Int /\ x \in Int /\ y \in Int /\ z \in Int
        /\ 0 <= a /\ 0 <= b /\ 0 <= e /\ x <= One /\ y <= One /\ z <= One
        /\ a <= x /\ b <= y /\ e <= z /\ One \in Int
    BY Confidences
  <1>2. (a > 0 \/ x = 0) /\ (b > 0 \/ y = 0) /\ (e > 0 \/ z = 0)
    OBVIOUS
  <1>3. /\ Agreement(c) = IF a = 0 /\ b = 0 /\ e = 0 THEN 0
                          ELSE Smallest3(OrNone(a), OrNone(b), OrNone(e))
        /\ Agreement(d) = IF x = 0 /\ y = 0 /\ z = 0 THEN 0
                          ELSE Smallest3(OrNone(x), OrNone(y), OrNone(z))
    BY DEF Agreement
  <1>. HIDE DEF a, b, e, x, y, z
  <1>4. /\ OrNone(a) \in Int /\ OrNone(b) \in Int /\ OrNone(e) \in Int
        /\ OrNone(x) \in Int /\ OrNone(y) \in Int /\ OrNone(z) \in Int
    BY <1>1 DEF OrNone
  <1>5. OrNone(a) <= OrNone(x) /\ OrNone(b) <= OrNone(y) /\ OrNone(e) <= OrNone(z)
    BY <1>1, <1>2 DEF OrNone
  <1>6. /\ Smallest3(OrNone(a), OrNone(b), OrNone(e)) \in Int
        /\ Smallest3(OrNone(x), OrNone(y), OrNone(z)) \in Int
        /\ Smallest3(OrNone(a), OrNone(b), OrNone(e)) <= Smallest3(OrNone(x), OrNone(y), OrNone(z))
    BY <1>4, <1>5 DEF Smallest3, Smaller
  <1>7. (a = 0 /\ b = 0 /\ e = 0) <=> (x = 0 /\ y = 0 /\ z = 0)
    BY <1>1, <1>2
  <1>. QED  BY <1>3, <1>6, <1>7

\* A candidate that gives the same confidences, none of them lower, and no fewer
\* reasons has no lower score. (Not so when one of them appears where there was
\* none: a small confidence lowers the agreement of the others.)
THEOREM SurerIsBetter ==
  ASSUME NEW c \in Candidate, NEW d \in Candidate, NEW learned \in Int,
         c.confidence <= d.confidence, c.setup <= d.setup, c.regime <= d.regime,
         c.confidence > 0 \/ d.confidence = 0, c.setup > 0 \/ d.setup = 0,
         c.regime > 0 \/ d.regime = 0, c.reasons <= d.reasons
  PROVE  Score(c, learned) <= Score(d, learned)
  <1>1. /\ c.confidence \in Int /\ c.setup \in Int /\ c.regime \in Int /\ c.reasons \in Int
        /\ d.confidence \in Int /\ d.setup \in Int /\ d.regime \in Int /\ d.reasons \in Int
    BY Confidences
  <1>2. Agreement(c) \in Int /\ Agreement(d) \in Int /\ Agreement(c) <= Agreement(d)
    BY AgreementGrows
  <1>3. /\ Smaller(c.reasons, 3) \in Int /\ Smaller(d.reasons, 3) \in Int
        /\ Smaller(c.reasons, 3) <= Smaller(d.reasons, 3)
    BY <1>1 DEF Smaller
  <1>. QED  BY <1>1, <1>2, <1>3, SMT DEF Score, BaseScore

-----------------------------------------------------------------------------
(* Execution quality.                                                      *)

\* Scalp profits on stocks are tight: 0.3% wanted, 0.15% of costs.
Tight(market, profile) == market = "stocks" /\ profile = "hft"

LEMMA ToleratedLossIsSmall ==
  ASSUME NEW market \in Plans!Market, NEW profile \in Plans!Profile, ~Tight(market, profile)
  PROVE  /\ Tolerance(market, profile) \in 0..Whole
         /\ Plans!MinProfit(market, profile) \in Nat /\ Plans!Cost(market) \in Nat
         /\ (Whole + Plans!MinProfit(market, profile)) * (Whole - Tolerance(market, profile))
              >= Whole * (Whole + Plans!Cost(market))
  <1>1. CASE profile = "conservative"
    <2>1. Plans!NetProfit[profile] = 400 /\ (6 * 400) \div 10 = 240
      BY <1>1 DEF Plans!NetProfit
    <2>. QED  BY <2>1, SMT DEF Plans!Market, Plans!Cost, Plans!MinProfit, Tolerance, Larger, Whole
  <1>2. CASE profile = "moderate"
    <2>1. Plans!NetProfit[profile] = 600 /\ (6 * 600) \div 10 = 360
      BY <1>2 DEF Plans!NetProfit
    <2>. QED  BY <2>1, SMT DEF Plans!Market, Plans!Cost, Plans!MinProfit, Tolerance, Larger, Whole
  <1>3. CASE profile = "aggressive"
    <2>1. Plans!NetProfit[profile] = 900 /\ (6 * 900) \div 10 = 540
      BY <1>3 DEF Plans!NetProfit
    <2>. QED  BY <2>1, SMT DEF Plans!Market, Plans!Cost, Plans!MinProfit, Tolerance, Larger, Whole
  <1>4. CASE profile = "hft"
    <2>1. Plans!NetProfit[profile] = 300 /\ (6 * 300) \div 10 = 180
      BY <1>4 DEF Plans!NetProfit
    <2>2. market # "stocks"
      BY <1>4 DEF Tight
    <2>. QED  BY <2>1, <2>2, SMT DEF Plans!Market, Plans!Cost, Plans!MinProfit, Tolerance, Larger, Whole
  <1>. QED  BY <1>1, <1>2, <1>3, <1>4 DEF Plans!Profile

LEMMA WholeIsPositive == Whole \in Nat /\ Whole > 0
  BY SMT DEF Whole

\* A price that moves up, down and to what is left stays a natural number.
LEMMA PriceMoved ==
  ASSUME NEW up \in Nat, NEW down \in 0..Whole, NEW left \in Nat
  PROVE  Whole + up \in Nat /\ Whole - down \in Nat /\ Whole + left \in Nat
         /\ Whole \in Nat /\ Whole > 0
  <1>1. Whole \in Nat /\ Whole > 0
    BY WholeIsPositive
  <1>2. down \in Nat /\ down <= Whole
    BY <1>1
  <1>3. Whole - down \in Nat
    BY <1>1, <1>2
  <1>. QED  BY <1>1, <1>3

\* A fact of arithmetic: two moves of a price one after the other.
LEMMA TwoMoves ==
  ASSUME NEW e \in Nat, NEW p \in Nat, NEW q \in Nat, NEW up \in Nat, NEW down \in 0..Whole,
         NEW left \in Nat,
         p * Whole >= e * (Whole + up), q * Whole >= p * (Whole - down),
         (Whole + up) * (Whole - down) >= Whole * (Whole + left)
  PROVE  q * Whole >= e * (Whole + left)
  <1>. DEFINE U == Whole + up
              D == Whole - down
              K == Whole + left
              W == Whole
  <1>1. U \in Nat /\ D \in Nat /\ K \in Nat /\ W \in Nat /\ W > 0
    BY PriceMoved, Zenon
  <1>2. p * W >= e * U /\ q * W >= p * D /\ U * D >= W * K
    OBVIOUS
  <1>. HIDE DEF U, D, K, W
  <1>3. (p * W) * D >= (e * U) * D
    BY <1>1, <1>2, SMTT(60)
  <1>4. e * (U * D) >= e * (W * K)
    BY <1>1, <1>2, SMTT(60)
  <1>5. (q * W) * W >= (p * D) * W
    BY <1>1, <1>2, SMTT(60)
  <1>6. (p * W) * D = (p * D) * W /\ (e * U) * D = e * (U * D) /\ e * (W * K) = (e * K) * W
    BY <1>1, SMTT(60)
  <1>7. (q * W) * W >= (e * K) * W
    <2>. DEFINE a == (q * W) * W
                b == (p * D) * W
                c == (e * U) * D
                d == (e * K) * W
    <2>1. a \in Int /\ b \in Int /\ c \in Int /\ d \in Int
      BY <1>1
    <2>2. a >= b /\ b >= c /\ c >= d
      BY <1>3, <1>4, <1>5, <1>6
    <2>. HIDE DEF a, b, c, d
    <2>3. a >= d
      BY <2>1, <2>2
    <2>. QED  BY <2>3 DEF a, d
  <1>8. q * W >= e * K
    BY <1>1, <1>7, SMTT(60)
  <1>. QED  BY <1>8 DEF K, W

\* A profit that was large enough to be taken still covers the costs at the
\* price the order goes out at, as long as the profile is not changed: the tolerance
\* for a price that moves between decision and order never eats it up, except on stocks traded by the profile
\* hft (_adverse_execution_move_ratio against the minimum profit of _exit_plan).
THEOREM ProfitsSurvive ==
  ASSUME NEW market \in Plans!Market, NEW profile \in Plans!Profile, ~Tight(market, profile),
         NEW entry \in Nat, NEW decided \in Nat \ {0}, NEW fresh \in Nat,
         decided * Whole >= entry * (Whole + Plans!MinProfit(market, profile)),
         QualityAccepts(market, profile, "sell", decided, fresh)
  PROVE  fresh * Whole >= entry * (Whole + Plans!Cost(market))
  <1>. DEFINE down == Tolerance(market, profile)
              up == Plans!MinProfit(market, profile)
              left == Plans!Cost(market)
  <1>1. /\ down \in 0..Whole /\ up \in Nat /\ left \in Nat
        /\ (Whole + up) * (Whole - down) >= Whole * (Whole + left)
    BY ToleratedLossIsSmall
  <1>2. fresh * Whole >= decided * (Whole - down)
    BY DEF QualityAccepts
  <1>. HIDE DEF down, up, left
  <1>3. decided * Whole >= entry * (Whole + up)
    BY DEF up
  <1>4. fresh * Whole >= entry * (Whole + left)
    BY <1>1, <1>2, <1>3, TwoMoves
  <1>. QED  BY <1>4 DEF left

\* The exception is real: stocks bought by the profile hft at 100000 and found at
\* their target, 100450, may be sold at 100149, which is less than entry and costs.
THEOREM ScalpsMayNot ==
  /\ 100450 * Whole >= 100000 * (Whole + Plans!MinProfit("stocks", "hft"))
  /\ QualityAccepts("stocks", "hft", "sell", 100450, 100149)
  /\ 100149 * Whole < 100000 * (Whole + Plans!Cost("stocks"))
  <1>1. Plans!NetProfit["hft"] = 300
    BY DEF Plans!NetProfit
  <1>2. Plans!Cost("stocks") = 150
    BY DEF Plans!Cost
  <1>3. Plans!MinProfit("stocks", "hft") = 450 /\ Tolerance("stocks", "hft") = 300
    BY <1>1, <1>2 DEF Plans!MinProfit, Tolerance, Larger
  <1>. QED  BY <1>2, <1>3, SMT DEF QualityAccepts, Whole

\* Nor is the profile an idle condition: the plan keeps the profile it was made by,
\* the tolerance is that of the profile selected now. A coin bought by the profile
\* conservative and sold by aggressive may be sold below the price it was bought at.
THEOREM OtherProfilesMayNot ==
  /\ 100520 * Whole >= 100000 * (Whole + Plans!MinProfit("crypto", "conservative"))
  /\ QualityAccepts("crypto", "aggressive", "sell", 100520, 99978)
  <1>1. Plans!NetProfit["conservative"] = 400 /\ Plans!NetProfit["aggressive"] = 900
    BY DEF Plans!NetProfit
  <1>2. Plans!Cost("crypto") = 120
    BY DEF Plans!Cost
  <1>3. Plans!MinProfit("crypto", "conservative") = 520 /\ Tolerance("crypto", "aggressive") = 540
    BY <1>1, <1>2 DEF Plans!MinProfit, Tolerance, Larger
  <1>. QED  BY <1>3, SMT DEF QualityAccepts, Whole

-----------------------------------------------------------------------------
(* Induction and recursion, without an operator as parameter.              *)

\* A set of numbers has a least one.
LEMMA LeastNat ==
  ASSUME NEW S, S \subseteq Nat, S # {}
  PROVE  \E n \in S : \A m \in S : n <= m
<1>1. PICK n \in S : \A m \in S : ~(<<m, n>> \in OpToRel(<, Nat))
  BY NatLessThanWellFounded, WFMin
<1>2. \A m \in S : m \in Nat /\ n \in Nat /\ ~(m < n)
  BY <1>1 DEF OpToRel
<1>. QED
  BY <1>2

\* What holds of 0 and of the successor of each number it holds of holds of all.
LEMMA AllNat ==
  ASSUME NEW G, 0 \in G, \A n \in Nat : n \in G => n + 1 \in G
  PROVE  Nat \subseteq G
<1>1. SUFFICES ASSUME Nat \ G # {} PROVE FALSE
  OBVIOUS
<1>2. PICK n \in Nat \ G : \A m \in Nat \ G : n <= m
  BY <1>1, LeastNat
<1>3. \A m \in Nat \ G : ~(m < n)
  BY <1>2
<1>4. n \in Nat /\ n \notin G /\ n # 0
  OBVIOUS
<1>5. n - 1 \in Nat /\ (n - 1) + 1 = n /\ n - 1 < n
  BY <1>4
<1>6. n - 1 \in G
  BY <1>3, <1>5
<1>. QED
  BY <1>4, <1>5, <1>6

\* f repeats the step g from e on.
Repeats(f, g, e, N) == f[0] = e /\ \A n \in 1..N : f[n] = g[<<n, f[n - 1]>>]

\* A function may be defined by what it makes of the value before.
LEMMA FoldExists ==
  ASSUME NEW T, NEW e \in T, NEW N \in Nat, NEW g \in [(1..N) \X T -> T]
  PROVE  \E f \in [0..N -> T] : Repeats(f, g, e, N)
<1> DEFINE Rule(f, n) == \A m \in 0..N : m <= n => f[m] = IF m = 0 THEN e ELSE g[<<m, f[m - 1]>>]
           G == {n \in Nat : \E f \in [0..N -> T] : Rule(f, n)}
<1>1. 0 \in G
  <2>1. [m \in 0..N |-> e] \in [0..N -> T] /\ Rule([m \in 0..N |-> e], 0)
    OBVIOUS
  <2>. QED  BY <2>1
<1>2. ASSUME NEW n \in Nat, n \in G PROVE n + 1 \in G
  <2>1. PICK f \in [0..N -> T] : Rule(f, n)
    BY <1>2
  <2>2. CASE n + 1 \notin 0..N
    <3>1. \A m \in 0..N : m <= n + 1 => m <= n
      BY <2>2
    <3>2. Rule(f, n + 1)
      BY <2>1, <3>1
    <3>. QED  BY <3>2
  <2>3. CASE n + 1 \in 0..N
    <3> DEFINE h == [f EXCEPT ![n + 1] = g[<<n + 1, f[n]>>]]
    <3>1. n \in 0..N /\ n + 1 \in 1..N /\ f[n] \in T
      BY <2>3
    <3>2. g[<<n + 1, f[n]>>] \in T
      BY <3>1
    <3>3. h \in [0..N -> T] /\ h[n + 1] = g[<<n + 1, f[n]>>] /\ \A m \in 0..N : m <= n => h[m] = f[m]
      BY <2>3, <3>2
    <3> HIDE DEF h
    <3>4. ASSUME NEW m \in 0..N, m <= n + 1
          PROVE  h[m] = IF m = 0 THEN e ELSE g[<<m, h[m - 1]>>]
      <4>1. CASE m <= n
        <5>1. h[m] = f[m] /\ f[m] = IF m = 0 THEN e ELSE g[<<m, f[m - 1]>>]
          BY <2>1, <3>3, <4>1
        <5>2. m # 0 => m - 1 \in 0..N /\ m - 1 <= n
          BY <4>1
        <5>3. m # 0 => h[m - 1] = f[m - 1]
          BY <3>3, <5>2
        <5>. QED  BY <5>1, <5>3
      <4>2. CASE m = n + 1
        <5>1. m # 0 /\ m - 1 = n
          BY <4>2
        <5>2. h[m - 1] = f[n]
          BY <3>1, <3>3, <5>1
        <5>. QED  BY <3>3, <4>2, <5>1, <5>2
      <4>. QED  BY <3>4, <4>1, <4>2
    <3>. QED  BY <3>3, <3>4
  <2>. QED  BY <2>2, <2>3
<1>3. N \in G
  <2> HIDE DEF G
  <2>. QED  BY <1>1, <1>2, AllNat
<1>4. PICK f \in [0..N -> T] : Rule(f, N)
  BY <1>3
<1>5. \A m \in 0..N : f[m] = IF m = 0 THEN e ELSE g[<<m, f[m - 1]>>]
  BY <1>4
<1>6. f[0] = e
  <2>1. 0 \in 0..N
    OBVIOUS
  <2>. QED  BY <1>5, <2>1
<1>7. ASSUME NEW n \in 1..N PROVE f[n] = g[<<n, f[n - 1]>>]
  <2>1. n \in 0..N /\ n # 0
    OBVIOUS
  <2>. QED  BY <1>5, <2>1
<1>. QED
  BY <1>6, <1>7 DEF Repeats

-----------------------------------------------------------------------------
(* The trades a broker's fills are made into. What is bought and sold, paid *)
(* and charged is passed from fills to lots and trades, and none is lost.   *)
(* The fills of a window come in any number, with ids and times of any kind *)
(* I until their order matters.                                             *)

\* A sum is made from left to right.
LEMMA AddedStepwise ==
  ASSUME NEW a \in Seq(Int)
  PROVE  \E f \in [0..Len(a) -> Int] :
           /\ f[0] = 0
           /\ \A n \in 1..Len(a) : f[n] = f[n - 1] + a[n]
           /\ Added(a) = f[Len(a)]
<1> DEFINE N == Len(a)
           Rule(f) == f = [n \in 0..N |-> IF n = 0 THEN 0 ELSE f[n - 1] + a[n]]
<1>1. N \in Nat /\ \A n \in 1..N : a[n] \in Int
  BY LenProperties, ElementOfSeq
<1>2. \E f \in [0..N -> Int] : Rule(f)
  <2> DEFINE g == [p \in (1..N) \X Int |-> p[2] + a[p[1]]]
  <2> HIDE DEF N
  <2>1. g \in [(1..N) \X Int -> Int] /\ \A n \in 1..N, x \in Int : g[<<n, x>>] = x + a[n]
    BY <1>1
  <2> HIDE DEF g
  <2>2. PICK f \in [0..N -> Int] : Repeats(f, g, 0, N)
    <3>1. N \in Nat /\ 0 \in Int
      BY <1>1
    <3>. QED  BY ONLY <2>1, <3>1, FoldExists
  <2>3. ASSUME NEW n \in 0..N, n # 0 PROVE f[n] = f[n - 1] + a[n]
    <3>1. n \in 1..N /\ n - 1 \in 0..N
      BY <1>1, <2>3
    <3>. QED  BY <2>1, <2>2, <3>1 DEF Repeats
  <2>4. Rule(f)
    BY <2>2, <2>3 DEF Repeats
  <2>. QED  BY <2>4
<1> DEFINE h == CHOOSE f : Rule(f)
<1>3. Added(a) = h[N]
  BY DEF Added
<1>4. Rule(h)
  BY <1>2
<1> HIDE DEF h
<1>5. PICK f \in [0..N -> Int] : Rule(f)
  BY <1>2
<1>6. \A n \in 0..N : h[n] = f[n]
  <2> DEFINE G == {n \in Nat : n \in 0..N => h[n] = f[n]}
  <2> HIDE DEF N
  <2>1. 0 \in G
    BY <1>1, <1>4, <1>5
  <2>2. ASSUME NEW n \in Nat, n \in G PROVE n + 1 \in G
    <3>1. SUFFICES ASSUME n + 1 \in 0..N PROVE h[n + 1] = f[n + 1]
      OBVIOUS
    <3>2. n \in 0..N /\ n + 1 # 0 /\ (n + 1) - 1 = n
      BY <1>1, <3>1
    <3>3. h[n + 1] = h[n] + a[n + 1] /\ f[n + 1] = f[n] + a[n + 1]
      BY <1>4, <1>5, <3>1, <3>2
    <3>. QED  BY <2>2, <3>2, <3>3
  <2> HIDE DEF G
  <2>3. Nat \subseteq G
    BY <2>1, <2>2, AllNat
  <2>. QED  BY <1>1, <2>3 DEF G
<1> HIDE DEF N
<1>7. f[0] = 0 /\ Added(a) = f[N]
  BY <1>1, <1>3, <1>5, <1>6
<1>8. ASSUME NEW n \in 1..N PROVE f[n] = f[n - 1] + a[n]
  <2>1. n \in 0..N /\ n # 0
    BY <1>1
  <2>. QED  BY <1>5, <2>1
<1>. QED
  BY <1>7, <1>8 DEF N

LEMMA AddedOne ==
  ASSUME NEW a \in Seq(Int), NEW x \in Int
  PROVE  /\ Added(a) \in Int
         /\ Added(Append(a, x)) = Added(a) + x
<1> DEFINE N == Len(a)
           b == Append(a, x)
<1>1. /\ N \in Nat /\ b \in Seq(Int) /\ Len(b) = N + 1 /\ b[N + 1] = x
      /\ \A n \in 1..N : b[n] = a[n]
  BY LenProperties, AppendProperties
<1>2. PICK f \in [0..N -> Int] :
        f[0] = 0 /\ (\A n \in 1..N : f[n] = f[n - 1] + a[n]) /\ Added(a) = f[N]
  BY AddedStepwise
<1> HIDE DEF N, b
<1>3. PICK g \in [0..(N + 1) -> Int] :
        g[0] = 0 /\ (\A n \in 1..(N + 1) : g[n] = g[n - 1] + b[n]) /\ Added(b) = g[N + 1]
  BY <1>1, AddedStepwise
<1> DEFINE G == {n \in Nat : n \in 0..N => g[n] = f[n]}
<1>4. 0 \in G
  BY <1>2, <1>3
<1>5. ASSUME NEW n \in Nat, n \in G PROVE n + 1 \in G
  <2>1. SUFFICES ASSUME n + 1 \in 0..N PROVE g[n + 1] = f[n + 1]
    OBVIOUS
  <2>2. n \in 0..N /\ n + 1 \in 1..N /\ n + 1 \in 1..(N + 1) /\ (n + 1) - 1 = n
    BY <1>1, <2>1
  <2>3. g[n + 1] = g[n] + a[n + 1] /\ f[n + 1] = f[n] + a[n + 1]
    BY <1>1, <1>2, <1>3, <2>2
  <2>. QED  BY <1>5, <2>2, <2>3
<1>6. g[N] = f[N]
  <2> HIDE DEF G
  <2>1. Nat \subseteq G
    BY <1>4, <1>5, AllNat
  <2>. QED  BY <1>1, <2>1 DEF G
<1>7. Added(b) = g[N] + x
  <2>1. N + 1 \in 1..(N + 1) /\ (N + 1) - 1 = N
    BY <1>1
  <2>. QED  BY <1>1, <1>3, <2>1
<1>. QED
  BY <1>1, <1>2, <1>6, <1>7 DEF N, b

LEMMA AddedNone == Added(<<>>) = 0
<1>1. <<>> \in Seq(Int) /\ Len(<<>>) = 0
  OBVIOUS
<1>. QED
  BY <1>1, AddedStepwise

\* What the members of a list are worth together, as w values them.
Worth(w, s) == Added([i \in DOMAIN s |-> w[s[i]]])

LEMMA WorthOfMore ==
  ASSUME NEW S, NEW w \in [S -> Int], NEW s \in Seq(S), NEW x \in S
  PROVE  /\ Worth(w, s) \in Int /\ Worth(w, <<>>) = 0
         /\ Worth(w, Append(s, x)) = Worth(w, s) + w[x]
<1>1. /\ Len(s) \in Nat /\ DOMAIN s = 1..Len(s) /\ \A i \in 1..Len(s) : s[i] \in S
  BY LenProperties, ElementOfSeq
<1>2. PICK n \in Nat : n = Len(s)
  BY <1>1
<1>3. /\ Append(s, x) \in Seq(S) /\ Len(Append(s, x)) = n + 1
      /\ DOMAIN Append(s, x) = 1..(n + 1)
      /\ Append(s, x)[n + 1] = x /\ \A i \in 1..n : Append(s, x)[i] = s[i]
  BY <1>2, AppendProperties, LenProperties
<1>4. PICK a : a = [i \in DOMAIN s |-> w[s[i]]]
  OBVIOUS
<1>5. a \in [1..n -> Int] /\ a \in Seq(Int) /\ Len(a) = n /\ \A i \in 1..n : a[i] = w[s[i]]
  <2>1. a \in [1..n -> Int] /\ \A i \in 1..n : a[i] = w[s[i]]
    BY <1>1, <1>2, <1>4
  <2>. QED  BY <1>2, <2>1
<1>6. PICK y \in Int : y = w[x]
  OBVIOUS
<1>7. /\ Append(a, y) \in Seq(Int) /\ Len(Append(a, y)) = n + 1
      /\ DOMAIN Append(a, y) = 1..(n + 1) /\ Append(a, y) \in [1..(n + 1) -> Int]
      /\ Append(a, y)[n + 1] = y /\ \A i \in 1..n : Append(a, y)[i] = a[i]
  <2>1. /\ Append(a, y) \in Seq(Int) /\ Len(Append(a, y)) = n + 1
        /\ Append(a, y)[n + 1] = y /\ \A i \in 1..n : Append(a, y)[i] = a[i]
    BY <1>5, AppendProperties
  <2>2. /\ DOMAIN Append(a, y) = 1..Len(Append(a, y))
        /\ Append(a, y) \in [1..Len(Append(a, y)) -> Int]
    BY <2>1, LenProperties
  <2>. QED  BY <2>1, <2>2
<1>8. [i \in DOMAIN Append(s, x) |-> w[Append(s, x)[i]]] = Append(a, y)
  <2>1. \A i \in 1..(n + 1) : i \in 1..n \/ i = n + 1
    BY <1>2
  <2>2. \A i \in 1..(n + 1) : w[Append(s, x)[i]] = Append(a, y)[i]
    BY <1>3, <1>5, <1>6, <1>7, <2>1
  <2>3. Append(a, y) = [i \in 1..(n + 1) |-> Append(a, y)[i]]
    BY <1>7
  <2>. QED  BY <1>3, <2>2, <2>3
<1>9. Worth(w, <<>>) = 0
  <2>1. [i \in DOMAIN <<>> |-> w[<<>>[i]]] = <<>>
    OBVIOUS
  <2>. QED  BY <2>1, AddedNone DEF Worth
<1>10. Worth(w, s) = Added(a) /\ Worth(w, Append(s, x)) = Added(Append(a, y))
  BY <1>4, <1>8 DEF Worth
<1>. QED
  BY <1>5, <1>6, <1>9, <1>10, AddedOne

LEMMA WorthStepwise ==
  ASSUME NEW S, NEW w \in [S -> Int], NEW s \in Seq(S)
  PROVE  \E f \in [0..Len(s) -> Int] :
           /\ f[0] = 0
           /\ \A n \in 1..Len(s) : f[n] = f[n - 1] + w[s[n]]
           /\ Worth(w, s) = f[Len(s)]
<1>1. /\ Len(s) \in Nat /\ DOMAIN s = 1..Len(s) /\ \A i \in 1..Len(s) : s[i] \in S
  BY LenProperties, ElementOfSeq
<1>2. PICK n \in Nat : n = Len(s)
  BY <1>1
<1>3. PICK a : a = [i \in DOMAIN s |-> w[s[i]]]
  OBVIOUS
<1>4. a \in [1..n -> Int] /\ \A i \in 1..n : a[i] = w[s[i]]
  BY <1>1, <1>2, <1>3
<1>5. a \in Seq(Int) /\ Len(a) = n
  BY <1>2, <1>4
<1>6. PICK f \in [0..n -> Int] :
        f[0] = 0 /\ (\A m \in 1..n : f[m] = f[m - 1] + a[m]) /\ Added(a) = f[n]
  BY <1>5, AddedStepwise
<1>7. \A m \in 1..n : f[m] = f[m - 1] + w[s[m]]
  BY <1>4, <1>6
<1>8. Worth(w, s) = f[n]
  BY <1>3, <1>6 DEF Worth
<1>. QED
  BY <1>2, <1>6, <1>7, <1>8

\* The fills of a window, in whole units; those left open on a side; the trades.
Fills(I) == Executed(I, Int, Int, Int)
OpenOn(I, s) == {x \in Fills(I) : Usable(x) /\ x.side = s}
Closings(I) ==
    [id : I \X I, side : {"buy", "sell"}, quantity : Int, entry : Int, exit : Int,
     opened : I, closed : I, fees : Int]

LEMMA RestOfAFill ==
  ASSUME NEW I, NEW x \in Fills(I), NEW q \in Int
  PROVE  /\ With(x, q) \in Fills(I)
         /\ With(x, q).id = x.id /\ With(x, q).side = x.side /\ With(x, q).price = x.price
         /\ With(x, q).at = x.at /\ With(x, q).fee = x.fee /\ With(x, q).quantity = q
         /\ With(x, x.quantity) = x
         /\ \A r \in Int : With(With(x, q), r) = With(x, r)
<1>1. x \in [id : I, side : {"buy", "sell"}, quantity : Int, price : Int, at : I, fee : Int]
  BY DEF Fills, Executed
<1>2. /\ With(x, q) \in Fills(I)
      /\ With(x, q).id = x.id /\ With(x, q).side = x.side /\ With(x, q).price = x.price
      /\ With(x, q).at = x.at /\ With(x, q).fee = x.fee /\ With(x, q).quantity = q
  BY <1>1 DEF With, Fills, Executed
<1>3. With(x, x.quantity) = x
  BY <1>1 DEF With
<1>4. \A r \in Int : With(With(x, q), r) = With(x, r)
  BY <1>1 DEF With
<1>. QED
  BY <1>2, <1>3, <1>4

LEMMA FieldsOfAFill ==
  ASSUME NEW I, NEW x \in Fills(I)
  PROVE  /\ x.id \in I /\ x.side \in {"buy", "sell"} /\ x.at \in I
         /\ x.quantity \in Int /\ x.price \in Int /\ x.fee \in Int
BY DEF Fills, Executed

LEMMA ShareIsWhole ==
  ASSUME NEW rate \in Int, NEW q \in Int
  PROVE  Share(rate, q) \in Int
<1>1. rate * q \in Int
  OBVIOUS
<1>. QED
  BY <1>1 DEF Share

LEMMA TradeOfTwoFills ==
  ASSUME NEW I, NEW x \in Fills(I), NEW y \in Fills(I), NEW q \in Int
  PROVE  /\ ClosedTrade(x, y, q) \in Closings(I)
         /\ ClosedTrade(x, y, q).side = x.side /\ ClosedTrade(x, y, q).quantity = q
         /\ ClosedTrade(x, y, q).entry = x.price /\ ClosedTrade(x, y, q).exit = y.price
         /\ ClosedTrade(x, y, q).fees = Share(x.fee, q) + Share(y.fee, q)
         /\ \A r \in Int : ClosedTrade(x, With(y, r), q) = ClosedTrade(x, y, q)
<1>1. Share(x.fee, q) + Share(y.fee, q) \in Int
  <2>1. x.fee \in Int /\ y.fee \in Int
    BY FieldsOfAFill
  <2>2. Share(x.fee, q) \in Int /\ Share(y.fee, q) \in Int
    BY <2>1, ShareIsWhole
  <2>. QED  BY <2>2
<1>2. PICK fees \in Int : fees = Share(x.fee, q) + Share(y.fee, q)
  BY <1>1
<1>3. ClosedTrade(x, y, q) =
        [id |-> <<x.id, y.id>>, side |-> x.side, quantity |-> q, entry |-> x.price,
         exit |-> y.price, opened |-> x.at, closed |-> y.at, fees |-> fees]
  BY <1>2 DEF ClosedTrade
<1>4. \A r \in Int : ClosedTrade(x, With(y, r), q) = ClosedTrade(x, y, q)
  BY RestOfAFill DEF ClosedTrade
<1>5. ClosedTrade(x, y, q) \in Closings(I)
  BY <1>3, FieldsOfAFill DEF Closings
<1>. QED
  BY <1>2, <1>3, <1>4, <1>5

\* w values fills and lots, u trades, and a trade takes its value from the two
\* fills that it is made of.
Passes(I, w, u) ==
    /\ w \in [Fills(I) -> Int] /\ u \in [Closings(I) -> Int]
    /\ \A x \in Fills(I) : ~Usable(x) => w[x] = 0
    /\ \A x, y \in Fills(I), q \in Int :
         Usable(x) /\ Usable(y) /\ x.side # y.side /\ 0 < q /\ q <= x.quantity /\ q <= y.quantity
         => w[x] + w[y] = w[With(x, x.quantity - q)] + w[With(y, y.quantity - q)]
                            + u[ClosedTrade(x, y, q)]

\* A fill that is closing the lots of side s.
Finding(I, s, fill) ==
    {found \in [left : Nat, lots : Seq(OpenOn(I, s)), trades : Seq(Closings(I))] :
       found.left > 0 /\ fill.side # s => found.lots = <<>>}

\* What there is, in the fill, in the lots and in the trades.
HeldIn(w, u, fill, found) ==
    w[With(fill, found.left)] + Worth(w, found.lots) + Worth(u, found.trades)

LEMMA MinOfTwo ==
  ASSUME NEW a \in Int, NEW b \in Int
  PROVE  Min({a, b}) = IF a <= b THEN a ELSE b
<1> DEFINE m == IF a <= b THEN a ELSE b
<1>1. m \in {a, b} /\ \A y \in {a, b} : m <= y
  OBVIOUS
<1>2. \A x \in {a, b} : (\A y \in {a, b} : x <= y) => x = m
  OBVIOUS
<1>. QED
  BY <1>1, <1>2 DEF Min

LEMMA OpenAreFills ==
  ASSUME NEW I, NEW s
  PROVE  Seq(OpenOn(I, s)) \subseteq Seq(Fills(I))
BY DEF OpenOn

LEMMA CloseLotKeeps ==
  ASSUME NEW I, NEW s, NEW fill \in Fills(I), Usable(fill),
         NEW found \in Finding(I, s, fill), NEW lot \in OpenOn(I, s),
         NEW w, NEW u, Passes(I, w, u)
  PROVE  /\ CloseLot(fill, found, lot) \in Finding(I, s, fill)
         /\ HeldIn(w, u, fill, CloseLot(fill, found, lot)) = HeldIn(w, u, fill, found) + w[lot]
<1>1. /\ lot \in Fills(I) /\ Usable(lot) /\ lot.side = s
      /\ lot.quantity \in Int /\ lot.quantity > 0 /\ lot.price > 0
  BY FieldsOfAFill DEF OpenOn, Usable
<1>2. /\ found.left \in Nat /\ found.lots \in Seq(OpenOn(I, s)) /\ found.trades \in Seq(Closings(I))
      /\ found.lots \in Seq(Fills(I))
  BY OpenAreFills DEF Finding
<1>3. w \in [Fills(I) -> Int] /\ u \in [Closings(I) -> Int]
  BY DEF Passes
<1> DEFINE q == IF lot.side = fill.side THEN 0 ELSE Min({lot.quantity, found.left})
<1>4. Min({lot.quantity, found.left})
        = IF lot.quantity <= found.left THEN lot.quantity ELSE found.left
  BY <1>1, <1>2, MinOfTwo
<1>5. /\ q \in Nat /\ q <= lot.quantity /\ q <= found.left
      /\ q = lot.quantity \/ q = found.left \/ lot.side = fill.side
  BY <1>1, <1>2, <1>4
<1> DEFINE rest == With(lot, lot.quantity - q)
           trade == ClosedTrade(lot, fill, q)
           next == CloseLot(fill, found, lot)
<1>6. /\ rest \in Fills(I) /\ rest.side = s /\ rest.price > 0 /\ rest.quantity = lot.quantity - q
      /\ trade \in Closings(I)
  BY <1>1, <1>5, RestOfAFill, TradeOfTwoFills
<1>7. /\ next.left = found.left - q
      /\ next.lots = (IF lot.quantity > q THEN Append(found.lots, rest) ELSE found.lots)
      /\ next.trades = (IF q > 0 THEN Append(found.trades, trade) ELSE found.trades)
      /\ next = [left |-> next.left, lots |-> next.lots, trades |-> next.trades]
  BY DEF CloseLot
<1> HIDE DEF q, rest, trade, next
<1>8. lot.quantity > q => rest \in OpenOn(I, s)
  BY <1>1, <1>5, <1>6 DEF OpenOn, Usable
<1>9. /\ next.left \in Nat /\ next.lots \in Seq(OpenOn(I, s)) /\ next.trades \in Seq(Closings(I))
  <2>1. next.lots \in Seq(OpenOn(I, s))
    BY <1>2, <1>7, <1>8, AppendProperties
  <2>2. next.trades \in Seq(Closings(I))
    BY <1>2, <1>6, <1>7, AppendProperties
  <2>. QED  BY <1>2, <1>5, <1>7, <2>1, <2>2
<1>10. next.left > 0 /\ fill.side # s => next.lots = <<>>
  BY <1>1, <1>2, <1>5, <1>7 DEF Finding
<1>11. next \in Finding(I, s, fill)
  BY <1>7, <1>9, <1>10 DEF Finding
<1>12. /\ Worth(w, found.lots) \in Int /\ Worth(u, found.trades) \in Int
       /\ w[lot] \in Int /\ w[rest] \in Int /\ u[trade] \in Int
  BY <1>1, <1>2, <1>3, <1>6, WorthOfMore
<1>13. Worth(w, next.lots) = Worth(w, found.lots) + w[rest]
  <2>1. CASE lot.quantity > q
    BY <1>2, <1>3, <1>6, <1>7, <2>1, WorthOfMore
  <2>2. CASE ~(lot.quantity > q)
    <3>1. ~Usable(rest)
      BY <1>1, <1>5, <1>6, <2>2 DEF Usable
    <3>2. w[rest] = 0
      BY <1>6, <3>1 DEF Passes
    <3>. QED  BY <1>7, <1>12, <2>2, <3>2
  <2>. QED  BY <2>1, <2>2
<1>14. Worth(u, next.trades) = Worth(u, found.trades) + (IF q > 0 THEN u[trade] ELSE 0)
  <2>1. CASE q > 0
    BY <1>2, <1>3, <1>6, <1>7, <2>1, WorthOfMore
  <2>2. CASE ~(q > 0)
    BY <1>7, <1>12, <2>2
  <2>. QED  BY <2>1, <2>2
<1>15. /\ With(fill, found.left) \in Fills(I) /\ With(fill, next.left) \in Fills(I)
       /\ w[With(fill, found.left)] \in Int /\ w[With(fill, next.left)] \in Int
  BY <1>2, <1>3, <1>9, RestOfAFill
<1>16. w[lot] + w[With(fill, found.left)]
         = w[rest] + w[With(fill, next.left)] + (IF q > 0 THEN u[trade] ELSE 0)
  <2>1. CASE q > 0
    <3> DEFINE y == With(fill, found.left)
    <3>1. /\ y \in Fills(I) /\ Usable(y) /\ y.side = fill.side /\ y.quantity = found.left
      BY <1>2, <1>5, <2>1, RestOfAFill DEF Usable
    <3>2. lot.side # fill.side
      BY <2>1 DEF q
    <3>3. With(y, y.quantity - q) = With(fill, next.left)
      BY <1>2, <1>5, <1>7, <3>1, RestOfAFill
    <3>4. ClosedTrade(lot, y, q) = trade
      BY <1>1, <1>2, <1>5, TradeOfTwoFills DEF trade
    <3> HIDE DEF y
    <3>5. w[lot] + w[y] = w[With(lot, lot.quantity - q)] + w[With(y, y.quantity - q)]
                            + u[ClosedTrade(lot, y, q)]
      BY <1>1, <1>5, <2>1, <3>1, <3>2 DEF Passes
    <3>. QED  BY <2>1, <3>3, <3>4, <3>5 DEF rest, y
  <2>2. CASE ~(q > 0)
    <3>1. q = 0
      BY <1>5, <2>2
    <3>2. rest = lot /\ next.left = found.left
      <4>1. lot.quantity - q = lot.quantity /\ found.left - q = found.left
        BY <1>1, <1>2, <3>1
      <4>. QED  BY <1>1, <1>7, <4>1, RestOfAFill DEF rest
    <3>. QED  BY <1>12, <1>15, <2>2, <3>2
  <2>. QED  BY <2>1, <2>2
<1>17. HeldIn(w, u, fill, next) = HeldIn(w, u, fill, found) + w[lot]
  <2>1. PICK t \in Int : t = IF q > 0 THEN u[trade] ELSE 0
    BY <1>12
  <2>2. PICK a \in Int, b \in Int, c \in Int, d \in Int, e \in Int, g \in Int :
          /\ a = Worth(w, found.lots) /\ b = Worth(u, found.trades) /\ c = w[lot]
          /\ d = w[rest] /\ e = w[With(fill, found.left)] /\ g = w[With(fill, next.left)]
    BY <1>12, <1>15
  <2>3. Worth(w, next.lots) = a + d /\ Worth(u, next.trades) = b + t /\ c + e = d + g + t
    BY <1>13, <1>14, <1>16, <2>1, <2>2
  <2>4. HeldIn(w, u, fill, next) = g + (a + d) + (b + t) /\ HeldIn(w, u, fill, found) = e + a + b
    BY <2>2, <2>3 DEF HeldIn
  <2>5. g + (a + d) + (b + t) = (e + a + b) + c
    BY <2>3
  <2>. QED  BY <2>2, <2>4, <2>5
<1>. QED
  BY <1>11, <1>17 DEF next

\* Where nothing is worth anything.
LEMMA NothingPasses ==
  ASSUME NEW I
  PROVE  Passes(I, [x \in Fills(I) |-> 0], [x \in Closings(I) |-> 0])
<1>1. \A x \in Fills(I), q \in Int : With(x, x.quantity - q) \in Fills(I)
  <2>1. \A x \in Fills(I), q \in Int : x.quantity - q \in Int
    BY FieldsOfAFill
  <2>. QED  BY <2>1, RestOfAFill
<1>2. \A x, y \in Fills(I), q \in Int : ClosedTrade(x, y, q) \in Closings(I)
  BY TradeOfTwoFills
<1>. QED
  BY <1>1, <1>2 DEF Passes

\* f is how a fill closes the lots, one after the other, after the trades there are.
Closes(f, fill, lots, done) ==
    /\ f[0] = [left |-> fill.quantity, lots |-> <<>>, trades |-> done]
    /\ \A n \in 1..Len(lots) : f[n] = CloseLot(fill, f[n - 1], lots[n])
    /\ Closed([trades |-> done, lots |-> lots], fill) = f[Len(lots)]

LEMMA ClosedStepwise ==
  ASSUME NEW I, NEW s, NEW fill \in Fills(I), Usable(fill),
         NEW lots \in Seq(OpenOn(I, s)), NEW done \in Seq(Closings(I))
  PROVE  \E f \in [0..Len(lots) -> Finding(I, s, fill)] : Closes(f, fill, lots, done)
<1> DEFINE N == Len(lots)
           S == Finding(I, s, fill)
           first == [left |-> fill.quantity, lots |-> <<>>, trades |-> done]
           Rule(f) == f = [n \in 0..N |-> IF n = 0 THEN first ELSE CloseLot(fill, f[n - 1], lots[n])]
<1>1. N \in Nat /\ \A n \in 1..N : lots[n] \in OpenOn(I, s)
  BY LenProperties, ElementOfSeq
<1>2. first \in S
  <2>1. fill.quantity \in Nat
    BY FieldsOfAFill DEF Usable
  <2>. QED  BY <2>1 DEF Finding
<1>3. \A n \in 1..N, x \in S : CloseLot(fill, x, lots[n]) \in S
  <2>1. Passes(I, [x \in Fills(I) |-> 0], [x \in Closings(I) |-> 0])
    BY NothingPasses
  <2>. QED  BY <1>1, <2>1, CloseLotKeeps
<1>4. \E f \in [0..N -> S] : Rule(f)
  <2> DEFINE g == [p \in (1..N) \X S |-> CloseLot(fill, p[2], lots[p[1]])]
  <2> HIDE DEF N, S, first
  <2>1. g \in [(1..N) \X S -> S] /\ \A n \in 1..N, x \in S : g[<<n, x>>] = CloseLot(fill, x, lots[n])
    BY <1>3
  <2> HIDE DEF g
  <2>2. PICK f \in [0..N -> S] : Repeats(f, g, first, N)
    BY ONLY <1>1, <1>2, <2>1, FoldExists
  <2>3. ASSUME NEW n \in 0..N, n # 0 PROVE f[n] = CloseLot(fill, f[n - 1], lots[n])
    <3>1. n \in 1..N /\ n - 1 \in 0..N
      BY <1>1, <2>3
    <3>. QED  BY <2>1, <2>2, <3>1 DEF Repeats
  <2>4. Rule(f)
    BY <2>2, <2>3 DEF Repeats
  <2>. QED  BY <2>4
<1> DEFINE h == CHOOSE f : Rule(f)
<1> DEFINE book == [trades |-> done, lots |-> lots]
<1>5. Closed(book, fill) = h[N]
  <2>1. book.lots = lots /\ book.trades = done
    OBVIOUS
  <2> HIDE DEF book
  <2>. QED  BY <2>1 DEF Closed
<1>6. Rule(h)
  BY <1>4
<1> HIDE DEF h, S, first, book
<1>7. PICK f \in [0..N -> S] : Rule(f)
  BY <1>4
<1>8. \A n \in 0..N : h[n] = f[n]
  <2> DEFINE G == {n \in Nat : n \in 0..N => h[n] = f[n]}
  <2> HIDE DEF N
  <2>1. 0 \in G
    BY <1>1, <1>6, <1>7
  <2>2. ASSUME NEW n \in Nat, n \in G PROVE n + 1 \in G
    <3>1. SUFFICES ASSUME n + 1 \in 0..N PROVE h[n + 1] = f[n + 1]
      OBVIOUS
    <3>2. n \in 0..N /\ n + 1 # 0 /\ (n + 1) - 1 = n
      BY <1>1, <3>1
    <3>3. /\ h[n + 1] = CloseLot(fill, h[n], lots[n + 1])
          /\ f[n + 1] = CloseLot(fill, f[n], lots[n + 1])
      BY <1>6, <1>7, <3>1, <3>2
    <3>. QED  BY <2>2, <3>2, <3>3
  <2> HIDE DEF G
  <2>3. Nat \subseteq G
    BY <2>1, <2>2, AllNat
  <2>. QED  BY <1>1, <2>3 DEF G
<1> HIDE DEF N
<1>9. f[0] = first /\ Closed(book, fill) = f[N]
  BY <1>1, <1>5, <1>7, <1>8
<1>10. ASSUME NEW n \in 1..N PROVE f[n] = CloseLot(fill, f[n - 1], lots[n])
  <2>1. n \in 0..N /\ n # 0
    BY <1>1
  <2>. QED  BY <1>7, <2>1
<1>. QED
  BY <1>9, <1>10 DEF N, S, first, book, Closes

LEMMA ClosedKeeps ==
  ASSUME NEW I, NEW s, NEW fill \in Fills(I), Usable(fill),
         NEW lots \in Seq(OpenOn(I, s)), NEW done \in Seq(Closings(I)),
         NEW book, book = [trades |-> done, lots |-> lots],
         NEW w, NEW u, Passes(I, w, u)
  PROVE  /\ Closed(book, fill) \in Finding(I, s, fill)
         /\ HeldIn(w, u, fill, Closed(book, fill))
              = Worth(w, lots) + Worth(u, done) + w[fill]
<1> DEFINE N == Len(lots)
           first == [left |-> fill.quantity, lots |-> <<>>, trades |-> done]
<1>1. N \in Nat /\ \A n \in 1..N : lots[n] \in OpenOn(I, s)
  BY LenProperties, ElementOfSeq
<1>2. PICK f \in [0..N -> Finding(I, s, fill)] :
        /\ f[0] = first /\ Closed(book, fill) = f[N]
        /\ \A n \in 1..N : f[n] = CloseLot(fill, f[n - 1], lots[n])
  <2>1. PICK f \in [0..N -> Finding(I, s, fill)] : Closes(f, fill, lots, done)
    BY ClosedStepwise
  <2>. QED  BY <2>1 DEF Closes
<1>3. w \in [Fills(I) -> Int] /\ u \in [Closings(I) -> Int] /\ lots \in Seq(Fills(I))
  BY OpenAreFills DEF Passes
<1>4. PICK sum \in [0..N -> Int] :
        /\ sum[0] = 0
        /\ \A n \in 1..N : sum[n] = sum[n - 1] + w[lots[n]]
        /\ Worth(w, lots) = sum[N]
  BY <1>3, WorthStepwise
<1>5. PICK start \in Int : start = w[fill] + Worth(u, done)
  <2>1. <<>> \in Seq(Fills(I))
    OBVIOUS
  <2>2. w[fill] \in Int /\ Worth(u, done) \in Int
    <3>1. PICK t : t = ClosedTrade(fill, fill, 0) /\ t \in Closings(I)
      BY TradeOfTwoFills
    <3>. QED  BY <1>3, <3>1, WorthOfMore
  <2>. QED  BY <2>2
<1>6. HeldIn(w, u, fill, first) = start
  <2>1. With(fill, fill.quantity) = fill /\ Worth(w, <<>>) = 0
    <3>1. <<>> \in Seq(Fills(I))
      OBVIOUS
    <3>2. fill.quantity \in Int
      BY FieldsOfAFill
    <3>. QED  BY <1>3, <3>1, <3>2, RestOfAFill, WorthOfMore
  <2>2. w[fill] \in Int /\ Worth(u, done) \in Int
    <3>1. PICK t : t = ClosedTrade(fill, fill, 0) /\ t \in Closings(I)
      BY TradeOfTwoFills
    <3>. QED  BY <1>3, <3>1, WorthOfMore
  <2>3. HeldIn(w, u, fill, first) = w[fill] + 0 + Worth(u, done)
    BY <2>1 DEF HeldIn
  <2>. QED  BY <1>5, <2>2, <2>3
<1> HIDE DEF N, first
<1> DEFINE G == {n \in Nat : n \in 0..N => HeldIn(w, u, fill, f[n]) = start + sum[n]}
<1>7. 0 \in G
  BY <1>2, <1>4, <1>5, <1>6
<1>8. ASSUME NEW n \in Nat, n \in G PROVE n + 1 \in G
  <2>1. SUFFICES ASSUME n + 1 \in 0..N PROVE HeldIn(w, u, fill, f[n + 1]) = start + sum[n + 1]
    OBVIOUS
  <2>2. n \in 0..N /\ n + 1 \in 1..N /\ (n + 1) - 1 = n
    BY <1>1, <2>1
  <2>3. f[n] \in Finding(I, s, fill) /\ lots[n + 1] \in OpenOn(I, s)
    BY <1>1, <1>2, <2>2
  <2>4. f[n + 1] = CloseLot(fill, f[n], lots[n + 1])
    BY <1>2, <2>2
  <2>5. HeldIn(w, u, fill, f[n + 1]) = HeldIn(w, u, fill, f[n]) + w[lots[n + 1]]
    BY <2>3, <2>4, CloseLotKeeps
  <2>6. sum[n + 1] = sum[n] + w[lots[n + 1]] /\ sum[n] \in Int /\ w[lots[n + 1]] \in Int
    BY <1>3, <1>4, <2>2, <2>3 DEF OpenOn
  <2>7. HeldIn(w, u, fill, f[n]) = start + sum[n]
    BY <1>8, <2>2
  <2>. QED  BY <1>5, <2>5, <2>6, <2>7
<1>9. HeldIn(w, u, fill, f[N]) = start + sum[N]
  <2> HIDE DEF G
  <2>1. Nat \subseteq G
    BY <1>7, <1>8, AllNat
  <2>. QED  BY <1>1, <2>1 DEF G
<1>10. Closed(book, fill) \in Finding(I, s, fill)
  BY <1>1, <1>2
<1>11. w[fill] \in Int /\ Worth(u, done) \in Int /\ sum[N] \in Int
  <2>1. PICK t : t = ClosedTrade(fill, fill, 0) /\ t \in Closings(I)
    BY TradeOfTwoFills
  <2>2. w[fill] \in Int /\ Worth(u, done) \in Int
    BY <1>3, <2>1, WorthOfMore
  <2>3. sum[N] \in Int
    BY <1>1, <1>4
  <2>. QED  BY <2>2, <2>3
<1>. QED
  BY <1>2, <1>4, <1>5, <1>9, <1>10, <1>11

\* The open lots are all of one side.
FillBooks(I) ==
    {book \in [trades : Seq(Closings(I)), lots : Seq(Fills(I))] :
       \E s \in {"buy", "sell"} : book.lots \in Seq(OpenOn(I, s))}

LEMMA PairFillKeeps ==
  ASSUME NEW I, NEW fill \in Fills(I), NEW book \in FillBooks(I), NEW w, NEW u, Passes(I, w, u)
  PROVE  /\ PairFill(book, fill) \in FillBooks(I)
         /\ Worth(w, PairFill(book, fill).lots) + Worth(u, PairFill(book, fill).trades)
              = Worth(w, book.lots) + Worth(u, book.trades) + w[fill]
<1>1. w \in [Fills(I) -> Int] /\ u \in [Closings(I) -> Int]
  BY DEF Passes
<1>2. PICK s \in {"buy", "sell"} : book.lots \in Seq(OpenOn(I, s))
  BY DEF FillBooks
<1>3. /\ book.lots \in Seq(Fills(I)) /\ book.trades \in Seq(Closings(I))
      /\ book = [trades |-> book.trades, lots |-> book.lots]
  BY DEF FillBooks
<1>4. PICK t \in Closings(I) : t = ClosedTrade(fill, fill, 0)
  BY TradeOfTwoFills
<1>5. w[fill] \in Int /\ Worth(w, book.lots) \in Int /\ Worth(u, book.trades) \in Int
  BY <1>1, <1>3, <1>4, WorthOfMore
<1>6. CASE ~Usable(fill)
  <2>1. PairFill(book, fill) = book /\ w[fill] = 0
    BY <1>6 DEF PairFill, Passes
  <2>. QED  BY <1>5, <2>1
<1>7. CASE Usable(fill)
  <2>1. PICK found : found = Closed(book, fill)
    OBVIOUS
  <2>2. /\ found \in Finding(I, s, fill)
        /\ HeldIn(w, u, fill, found) = Worth(w, book.lots) + Worth(u, book.trades) + w[fill]
    <3>1. /\ Closed(book, fill) \in Finding(I, s, fill)
          /\ HeldIn(w, u, fill, Closed(book, fill))
               = Worth(w, book.lots) + Worth(u, book.trades) + w[fill]
      BY <1>2, <1>3, <1>7, ClosedKeeps
    <3>. QED  BY <2>1, <3>1
  <2>3. /\ found.left \in Nat /\ found.lots \in Seq(OpenOn(I, s))
        /\ found.trades \in Seq(Closings(I)) /\ found.lots \in Seq(Fills(I))
        /\ found.left > 0 /\ fill.side # s => found.lots = <<>>
    BY <2>2, OpenAreFills DEF Finding
  <2>4. PICK rest : rest = With(fill, found.left)
    OBVIOUS
  <2>5. /\ rest \in Fills(I) /\ rest.side = fill.side /\ rest.quantity = found.left
        /\ rest.price = fill.price /\ fill.side \in {"buy", "sell"}
    BY <2>3, <2>4, RestOfAFill, FieldsOfAFill
  <2>6. PICK lots : lots = IF found.left > 0 THEN Append(found.lots, rest) ELSE found.lots
    OBVIOUS
  <2>7. PairFill(book, fill) = [trades |-> found.trades, lots |-> lots]
    BY <1>7, <2>1, <2>4, <2>6 DEF PairFill
  <2>8. lots \in Seq(Fills(I)) /\ \E side \in {"buy", "sell"} : lots \in Seq(OpenOn(I, side))
    <3>1. CASE found.left > 0
      <4>1. rest \in OpenOn(I, fill.side)
        BY <1>7, <2>5, <3>1 DEF OpenOn, Usable
      <4>2. found.lots \in Seq(OpenOn(I, fill.side))
        <5>1. CASE fill.side = s
          BY <2>3, <5>1
        <5>2. CASE fill.side # s
          <6>1. <<>> \in Seq(OpenOn(I, fill.side))
            OBVIOUS
          <6>. QED  BY <2>3, <3>1, <5>2, <6>1
        <5>. QED  BY <5>1, <5>2
      <4>3. lots \in Seq(OpenOn(I, fill.side))
        BY <2>6, <3>1, <4>1, <4>2, AppendProperties
      <4>. QED  BY <2>5, <4>3, OpenAreFills
    <3>2. CASE ~(found.left > 0)
      BY <1>2, <2>3, <2>6, <3>2
    <3>. QED  BY <3>1, <3>2
  <2>9. PairFill(book, fill) \in FillBooks(I)
    BY <2>3, <2>7, <2>8 DEF FillBooks
  <2>10. w[rest] \in Int /\ Worth(w, found.lots) \in Int /\ Worth(u, found.trades) \in Int
    BY <1>1, <1>4, <2>3, <2>5, WorthOfMore
  <2>11. Worth(w, lots) = Worth(w, found.lots) + w[rest]
    <3>1. CASE found.left > 0
      BY <1>1, <2>3, <2>5, <2>6, <3>1, WorthOfMore
    <3>2. CASE ~(found.left > 0)
      <4>1. ~Usable(rest)
        BY <2>3, <2>5, <3>2 DEF Usable
      <4>2. w[rest] = 0
        BY <2>5, <4>1 DEF Passes
      <4>. QED  BY <2>6, <2>10, <3>2, <4>2
    <3>. QED  BY <3>1, <3>2
  <2>12. HeldIn(w, u, fill, found) = w[rest] + Worth(w, found.lots) + Worth(u, found.trades)
    BY <2>4 DEF HeldIn
  <2>13. PairFill(book, fill).lots = lots /\ PairFill(book, fill).trades = found.trades
    BY <2>7
  <2>. QED  BY <1>5, <2>2, <2>9, <2>10, <2>11, <2>12, <2>13
<1>. QED
  BY <1>6, <1>7

\* f is the book after each of the fills.
PairsUp(f, fills) ==
    /\ f[0] = [trades |-> <<>>, lots |-> <<>>]
    /\ \A n \in 1..Len(fills) : f[n] = PairFill(f[n - 1], fills[n])
    /\ Paired(fills) = f[Len(fills)]

LEMMA PairedStepwise ==
  ASSUME NEW I, NEW fills \in Seq(Fills(I))
  PROVE  \E f \in [0..Len(fills) -> FillBooks(I)] : PairsUp(f, fills)
<1> DEFINE N == Len(fills)
           S == FillBooks(I)
           first == [trades |-> <<>>, lots |-> <<>>]
           Rule(f) == f = [n \in 0..N |-> IF n = 0 THEN first ELSE PairFill(f[n - 1], fills[n])]
<1>1. N \in Nat /\ \A n \in 1..N : fills[n] \in Fills(I)
  BY LenProperties, ElementOfSeq
<1>2. first \in S
  <2>1. "buy" \in {"buy", "sell"} /\ <<>> \in Seq(OpenOn(I, "buy"))
    OBVIOUS
  <2>2. first \in [trades : Seq(Closings(I)), lots : Seq(Fills(I))] /\ first.lots = <<>>
    OBVIOUS
  <2>. QED  BY <2>1, <2>2 DEF FillBooks
<1>3. \A n \in 1..N, x \in S : PairFill(x, fills[n]) \in S
  <2>1. Passes(I, [x \in Fills(I) |-> 0], [x \in Closings(I) |-> 0])
    BY NothingPasses
  <2>. QED  BY <1>1, <2>1, PairFillKeeps
<1>4. \E f \in [0..N -> S] : Rule(f)
  <2> DEFINE g == [p \in (1..N) \X S |-> PairFill(p[2], fills[p[1]])]
  <2> HIDE DEF N, S, first
  <2>1. g \in [(1..N) \X S -> S] /\ \A n \in 1..N, x \in S : g[<<n, x>>] = PairFill(x, fills[n])
    BY <1>3
  <2> HIDE DEF g
  <2>2. PICK f \in [0..N -> S] : Repeats(f, g, first, N)
    BY ONLY <1>1, <1>2, <2>1, FoldExists
  <2>3. ASSUME NEW n \in 0..N, n # 0 PROVE f[n] = PairFill(f[n - 1], fills[n])
    <3>1. n \in 1..N /\ n - 1 \in 0..N
      BY <1>1, <2>3
    <3>. QED  BY <2>1, <2>2, <3>1 DEF Repeats
  <2>4. Rule(f)
    BY <2>2, <2>3 DEF Repeats
  <2>. QED  BY <2>4
<1> DEFINE h == CHOOSE f : Rule(f)
<1>5. Paired(fills) = h[N]
  BY DEF Paired
<1>6. Rule(h)
  BY <1>4
<1> HIDE DEF h, S, first
<1>7. PICK f \in [0..N -> S] : Rule(f)
  BY <1>4
<1>8. \A n \in 0..N : h[n] = f[n]
  <2> DEFINE G == {n \in Nat : n \in 0..N => h[n] = f[n]}
  <2> HIDE DEF N
  <2>1. 0 \in G
    BY <1>1, <1>6, <1>7
  <2>2. ASSUME NEW n \in Nat, n \in G PROVE n + 1 \in G
    <3>1. SUFFICES ASSUME n + 1 \in 0..N PROVE h[n + 1] = f[n + 1]
      OBVIOUS
    <3>2. n \in 0..N /\ n + 1 # 0 /\ (n + 1) - 1 = n
      BY <1>1, <3>1
    <3>3. h[n + 1] = PairFill(h[n], fills[n + 1]) /\ f[n + 1] = PairFill(f[n], fills[n + 1])
      BY <1>6, <1>7, <3>1, <3>2
    <3>. QED  BY <2>2, <3>2, <3>3
  <2> HIDE DEF G
  <2>3. Nat \subseteq G
    BY <2>1, <2>2, AllNat
  <2>. QED  BY <1>1, <2>3 DEF G
<1> HIDE DEF N
<1>9. f[0] = first /\ Paired(fills) = f[N]
  BY <1>1, <1>5, <1>7, <1>8
<1>10. ASSUME NEW n \in 1..N PROVE f[n] = PairFill(f[n - 1], fills[n])
  <2>1. n \in 0..N /\ n # 0
    BY <1>1
  <2>. QED  BY <1>7, <2>1
<1>. QED
  BY <1>9, <1>10 DEF N, S, first, PairsUp

LEMMA PairedKeeps ==
  ASSUME NEW I, NEW fills \in Seq(Fills(I)), NEW w, NEW u, Passes(I, w, u)
  PROVE  /\ Paired(fills) \in FillBooks(I)
         /\ Worth(w, fills) = Worth(w, Paired(fills).lots) + Worth(u, Paired(fills).trades)
<1> DEFINE N == Len(fills)
<1>1. N \in Nat /\ \A n \in 1..N : fills[n] \in Fills(I)
  BY LenProperties, ElementOfSeq
<1>2. PICK f \in [0..N -> FillBooks(I)] : PairsUp(f, fills)
  BY PairedStepwise
<1>3. w \in [Fills(I) -> Int] /\ u \in [Closings(I) -> Int]
  BY DEF Passes
<1>4. PICK sum \in [0..N -> Int] :
        sum[0] = 0 /\ (\A n \in 1..N : sum[n] = sum[n - 1] + w[fills[n]])
        /\ Worth(w, fills) = sum[N]
  BY <1>3, WorthStepwise
<1> DEFINE In(book) == Worth(w, book.lots) + Worth(u, book.trades)
<1>5. In(f[0]) = 0
  <2>1. f[0].lots = <<>> /\ f[0].trades = <<>>
    BY <1>2 DEF PairsUp
  <2>2. /\ Added(<<>>) = 0 /\ [i \in DOMAIN <<>> |-> w[<<>>[i]]] = <<>>
        /\ [i \in DOMAIN <<>> |-> u[<<>>[i]]] = <<>>
    BY AddedNone
  <2>3. Worth(w, <<>>) = 0 /\ Worth(u, <<>>) = 0
    BY <2>2 DEF Worth
  <2>. QED  BY <2>1, <2>3
<1> HIDE DEF N
<1> DEFINE G == {n \in Nat : n \in 0..N => In(f[n]) = sum[n]}
<1>6. 0 \in G
  BY <1>4, <1>5
<1>7. ASSUME NEW n \in Nat, n \in G PROVE n + 1 \in G
  <2>1. SUFFICES ASSUME n + 1 \in 0..N PROVE In(f[n + 1]) = sum[n + 1]
    OBVIOUS
  <2>2. n \in 0..N /\ n + 1 \in 1..N /\ (n + 1) - 1 = n
    BY <1>1, <2>1
  <2>3. f[n] \in FillBooks(I) /\ fills[n + 1] \in Fills(I)
    BY <1>1, <1>2, <2>2
  <2>4. f[n + 1] = PairFill(f[n], fills[n + 1])
    BY <1>2, <2>2 DEF PairsUp, N
  <2>5. In(f[n + 1]) = In(f[n]) + w[fills[n + 1]]
    BY <2>3, <2>4, PairFillKeeps
  <2>6. sum[n + 1] = sum[n] + w[fills[n + 1]]
    BY <1>4, <2>2
  <2>7. In(f[n]) = sum[n]
    BY <1>7, <2>2
  <2>. QED  BY <2>5, <2>6, <2>7
<1>8. In(f[N]) = sum[N]
  <2> HIDE DEF G
  <2>1. Nat \subseteq G
    BY <1>6, <1>7, AllNat
  <2>. QED  BY <1>1, <2>1 DEF G
<1>9. Paired(fills) = f[N] /\ f[N] \in FillBooks(I)
  BY <1>1, <1>2 DEF PairsUp, N
<1>. QED
  BY <1>4, <1>8, <1>9

\* Part of a fill: what is left of it and what is taken, together.
LEMMA AmountOfParts ==
  ASSUME NEW I, NEW x \in Fills(I), Usable(x), NEW q \in Int, 0 < q, q <= x.quantity
  PROVE  /\ Amount(x) = x.quantity
         /\ Amount(With(x, x.quantity - q)) = x.quantity - q
<1>1. x.quantity \in Int /\ x.quantity - q \in Int /\ x.price \in Int
  BY FieldsOfAFill
<1>2. /\ With(x, x.quantity - q).quantity = x.quantity - q
      /\ With(x, x.quantity - q).price = x.price
  BY <1>1, RestOfAFill
<1>. QED
  BY <1>1, <1>2 DEF Amount, Usable

LEMMA AmountsAreWhole ==
  ASSUME NEW I, NEW x \in Fills(I)
  PROVE  /\ Amount(x) \in Int /\ Signed(x) \in Int /\ Paid(x) \in Int /\ Charged(x) \in Int
         /\ ~Usable(x) => Amount(x) = 0 /\ Signed(x) = 0 /\ Paid(x) = 0 /\ Charged(x) = 0
<1>1. Amount(x) \in Int /\ (~Usable(x) => Amount(x) = 0) /\ x.price \in Int /\ x.fee \in Int
  BY FieldsOfAFill DEF Amount
<1>2. Signed(x) \in Int /\ (~Usable(x) => Signed(x) = 0)
  BY <1>1 DEF Signed
<1>3. PICK a \in Int, b \in Int, p \in Int, r \in Int :
        a = Amount(x) /\ b = Signed(x) /\ p = x.price /\ r = x.fee
  BY <1>1, <1>2
<1>4. b * p \in Int /\ r * a \in Int /\ 0 * p = 0 /\ r * 0 = 0
  OBVIOUS
<1>5. Paid(x) = b * p /\ Charged(x) = IF r > 0 THEN r * a ELSE 0
  BY <1>3 DEF Paid, Charged, Share
<1>. QED
  BY <1>1, <1>2, <1>3, <1>4, <1>5

LEMMA Distributed ==
  ASSUME NEW a \in Int, NEW b \in Int, NEW c \in Int
  PROVE  /\ (a - b) * c = a * c - b * c /\ (-(a - b)) * c = b * c - a * c
         /\ (-a) * c = -(a * c) /\ c * (a - b) = c * a - c * b
         /\ a * c = c * a /\ a * c \in Int
<1>1. (a - b) * c = a * c - b * c
  OBVIOUS
<1>2. (-(a - b)) * c = b * c - a * c
  OBVIOUS
<1>3. (-a) * c = -(a * c)
  OBVIOUS
<1>4. c * (a - b) = c * a - c * b
  OBVIOUS
<1>5. a * c = c * a /\ a * c \in Int
  OBVIOUS
<1>. QED
  BY <1>1, <1>2, <1>3, <1>4, <1>5

LEMMA PartsOfFills ==
  ASSUME NEW I, NEW x \in Fills(I), NEW y \in Fills(I), Usable(x), Usable(y), x.side # y.side,
         NEW q \in Int, 0 < q, q <= x.quantity, q <= y.quantity
  PROVE  LET restX == With(x, x.quantity - q)
             restY == With(y, y.quantity - q)
             trade == ClosedTrade(x, y, q)
         IN  /\ Amount(x) + Amount(y) = Amount(restX) + Amount(restY) + Both(trade)
             /\ Signed(x) + Signed(y) = Signed(restX) + Signed(restY)
             /\ Paid(x) + Paid(y) = Paid(restX) + Paid(restY) - Earned(trade)
             /\ Charged(x) + Charged(y) = Charged(restX) + Charged(restY) + Fees(trade)
<1> DEFINE restX == With(x, x.quantity - q)
           restY == With(y, y.quantity - q)
           trade == ClosedTrade(x, y, q)
<1>1. /\ x.quantity \in Int /\ y.quantity \in Int /\ x.price \in Int /\ y.price \in Int
      /\ x.fee \in Int /\ y.fee \in Int /\ x.side \in {"buy", "sell"} /\ y.side \in {"buy", "sell"}
  BY FieldsOfAFill
<1>2. PICK a \in Int, b \in Int, p \in Int, r \in Int, e \in Int, f \in Int :
        /\ a = x.quantity /\ b = y.quantity /\ p = x.price /\ r = y.price
        /\ e = x.fee /\ f = y.fee
  BY <1>1
<1>3. /\ Amount(x) = a /\ Amount(restX) = a - q /\ Amount(y) = b /\ Amount(restY) = b - q
  BY <1>2, AmountOfParts
<1>4. /\ restX.side = x.side /\ restX.price = p /\ restX.fee = e
      /\ restY.side = y.side /\ restY.price = r /\ restY.fee = f
  BY <1>1, <1>2, RestOfAFill
<1>5. /\ trade.side = x.side /\ trade.quantity = q /\ trade.entry = p /\ trade.exit = r
      /\ trade.fees = Share(e, q) + Share(f, q)
  BY <1>2, TradeOfTwoFills
<1> HIDE DEF restX, restY, trade
<1>6. Amount(x) + Amount(y) = Amount(restX) + Amount(restY) + Both(trade)
  <2>1. Both(trade) = 2 * q
    BY <1>5 DEF Both
  <2>2. a + b = (a - q) + (b - q) + 2 * q
    BY <1>2
  <2>. QED  BY <1>3, <2>1, <2>2
<1>7. /\ Signed(x) = (IF x.side = "buy" THEN a ELSE -a)
      /\ Signed(y) = (IF x.side = "buy" THEN -b ELSE b)
      /\ Signed(restX) = (IF x.side = "buy" THEN a - q ELSE -(a - q))
      /\ Signed(restY) = (IF x.side = "buy" THEN -(b - q) ELSE b - q)
  BY <1>1, <1>3, <1>4 DEF Signed
<1>8. Signed(x) + Signed(y) = Signed(restX) + Signed(restY)
  BY <1>2, <1>7
<1>9. Paid(x) + Paid(y) = Paid(restX) + Paid(restY) - Earned(trade)
  <2>1. PICK ap \in Int, br \in Int, qp \in Int, qr \in Int :
          ap = a * p /\ br = b * r /\ qp = q * p /\ qr = q * r
    BY <1>2
  <2>2. /\ (a - q) * p = ap - qp /\ (-(a - q)) * p = qp - ap /\ (-a) * p = -ap
        /\ (b - q) * r = br - qr /\ (-(b - q)) * r = qr - br /\ (-b) * r = -br
        /\ q * (r - p) = qr - qp /\ (-q) * (r - p) = qp - qr
    <3>1. /\ (a - q) * p = ap - qp /\ (-(a - q)) * p = qp - ap /\ (-a) * p = -ap
      BY <2>1, Distributed
    <3>2. /\ (b - q) * r = br - qr /\ (-(b - q)) * r = qr - br /\ (-b) * r = -br
      BY <2>1, Distributed
    <3>3. q * (r - p) = qr - qp
      BY <2>1, Distributed
    <3>4. (-q) * (r - p) = -(q * (r - p))
      <4>1. r - p \in Int
        OBVIOUS
      <4>. QED  BY <4>1, Distributed
    <3>. QED  BY <3>1, <3>2, <3>3, <3>4
  <2>3. CASE x.side = "buy"
    <3>1. Paid(x) = ap /\ Paid(y) = -br /\ Paid(restX) = ap - qp /\ Paid(restY) = qr - br
      BY <1>2, <1>4, <1>7, <2>1, <2>2, <2>3 DEF Paid
    <3>2. Earned(trade) = qr - qp
      BY <1>5, <2>2, <2>3 DEF Earned
    <3>. QED  BY <2>1, <3>1, <3>2
  <2>4. CASE x.side # "buy"
    <3>1. Paid(x) = -ap /\ Paid(y) = br /\ Paid(restX) = qp - ap /\ Paid(restY) = br - qr
      BY <1>2, <1>4, <1>7, <2>1, <2>2, <2>4 DEF Paid
    <3>2. Earned(trade) = qp - qr
      BY <1>5, <2>2, <2>4 DEF Earned
    <3>. QED  BY <2>1, <3>1, <3>2
  <2>. QED  BY <2>3, <2>4
<1>10. Charged(x) + Charged(y) = Charged(restX) + Charged(restY) + Fees(trade)
  <2>1. /\ Charged(x) = Share(e, a) /\ Charged(restX) = Share(e, a - q)
        /\ Charged(y) = Share(f, b) /\ Charged(restY) = Share(f, b - q)
        /\ Fees(trade) = Share(e, q) + Share(f, q)
    BY <1>2, <1>3, <1>4, <1>5 DEF Charged, Fees
  <2>2. /\ Share(e, a) = Share(e, a - q) + Share(e, q) /\ Share(f, b) = Share(f, b - q) + Share(f, q)
    <3>1. /\ e * (a - q) = e * a - e * q /\ f * (b - q) = f * b - f * q
          /\ {e * a, e * q, f * b, f * q} \subseteq Int
      BY Distributed
    <3>2. PICK ea \in Int, eq \in Int, fb \in Int, fq \in Int :
            ea = e * a /\ eq = e * q /\ fb = f * b /\ fq = f * q
      BY <3>1
    <3>. QED  BY <3>1, <3>2 DEF Share
  <2>3. {Share(e, a - q), Share(e, q), Share(f, b - q), Share(f, q)} \subseteq Int
    <3>1. a - q \in Int /\ b - q \in Int
      OBVIOUS
    <3>2. Share(e, a - q) \in Int /\ Share(e, q) \in Int
      BY <3>1, ShareIsWhole
    <3>3. Share(f, b - q) \in Int /\ Share(f, q) \in Int
      BY <3>1, ShareIsWhole
    <3>. QED  BY <3>2, <3>3
  <2>4. PICK s1 \in Int, s2 \in Int, s3 \in Int, s4 \in Int :
          s1 = Share(e, a - q) /\ s2 = Share(e, q) /\ s3 = Share(f, b - q) /\ s4 = Share(f, q)
    BY <2>3
  <2>. QED  BY <2>1, <2>2, <2>4
<1>. QED
  BY <1>6, <1>8, <1>9, <1>10 DEF restX, restY, trade

LEMMA TradesAreWhole ==
  ASSUME NEW I, NEW t \in Closings(I)
  PROVE  /\ Both(t) \in Int /\ Earned(t) \in Int /\ -Earned(t) \in Int /\ Fees(t) \in Int
<1>1. t.quantity \in Int /\ t.entry \in Int /\ t.exit \in Int /\ t.fees \in Int
  BY DEF Closings
<1>2. PICK q \in Int, p \in Int, r \in Int : q = t.quantity /\ p = t.entry /\ r = t.exit
  BY <1>1
<1>3. q * (r - p) \in Int /\ (-q) * (r - p) \in Int
  OBVIOUS
<1>4. Earned(t) \in Int
  BY <1>2, <1>3 DEF Earned
<1>. QED
  BY <1>1, <1>4 DEF Both, Fees

\* The values that a trade takes from its two fills.
LEMMA ValuesPass ==
  ASSUME NEW I
  PROVE  /\ Passes(I, [x \in Fills(I) |-> Amount(x)], [t \in Closings(I) |-> Both(t)])
         /\ Passes(I, [x \in Fills(I) |-> Signed(x)], [t \in Closings(I) |-> 0])
         /\ Passes(I, [x \in Fills(I) |-> Paid(x)], [t \in Closings(I) |-> -Earned(t)])
         /\ Passes(I, [x \in Fills(I) |-> Charged(x)], [t \in Closings(I) |-> Fees(t)])
<1> DEFINE both == [t \in Closings(I) |-> Both(t)]
           none == [t \in Closings(I) |-> 0]
           spent == [t \in Closings(I) |-> -Earned(t)]
           fees == [t \in Closings(I) |-> Fees(t)]
           amount == [x \in Fills(I) |-> Amount(x)]
           signed == [x \in Fills(I) |-> Signed(x)]
           paid == [x \in Fills(I) |-> Paid(x)]
           charged == [x \in Fills(I) |-> Charged(x)]
<1>1. /\ amount \in [Fills(I) -> Int] /\ signed \in [Fills(I) -> Int]
      /\ paid \in [Fills(I) -> Int] /\ charged \in [Fills(I) -> Int]
  BY AmountsAreWhole
<1>2. /\ both \in [Closings(I) -> Int] /\ none \in [Closings(I) -> Int]
      /\ spent \in [Closings(I) -> Int] /\ fees \in [Closings(I) -> Int]
  BY TradesAreWhole
<1>3. ASSUME NEW x \in Fills(I), ~Usable(x)
      PROVE  amount[x] = 0 /\ signed[x] = 0 /\ paid[x] = 0 /\ charged[x] = 0
  BY <1>3, AmountsAreWhole
<1>4. ASSUME NEW x \in Fills(I), NEW y \in Fills(I), NEW q \in Int,
             Usable(x), Usable(y), x.side # y.side, 0 < q, q <= x.quantity, q <= y.quantity
      PROVE  LET restX == With(x, x.quantity - q)
                 restY == With(y, y.quantity - q)
                 trade == ClosedTrade(x, y, q)
             IN  /\ amount[x] + amount[y] = amount[restX] + amount[restY] + both[trade]
                 /\ signed[x] + signed[y] = signed[restX] + signed[restY] + none[trade]
                 /\ paid[x] + paid[y] = paid[restX] + paid[restY] + spent[trade]
                 /\ charged[x] + charged[y] = charged[restX] + charged[restY] + fees[trade]
  <2> DEFINE restX == With(x, x.quantity - q)
             restY == With(y, y.quantity - q)
             trade == ClosedTrade(x, y, q)
  <2>1. restX \in Fills(I) /\ restY \in Fills(I) /\ trade \in Closings(I)
    <3>1. x.quantity - q \in Int /\ y.quantity - q \in Int
      BY FieldsOfAFill
    <3>. QED  BY <3>1, RestOfAFill, TradeOfTwoFills
  <2>2. /\ Amount(x) + Amount(y) = Amount(restX) + Amount(restY) + Both(trade)
        /\ Signed(x) + Signed(y) = Signed(restX) + Signed(restY)
        /\ Paid(x) + Paid(y) = Paid(restX) + Paid(restY) - Earned(trade)
        /\ Charged(x) + Charged(y) = Charged(restX) + Charged(restY) + Fees(trade)
    BY <1>4, PartsOfFills
  <2> HIDE DEF restX, restY, trade
  <2>3. /\ Signed(restX) \in Int /\ Signed(restY) \in Int /\ Paid(restX) \in Int
        /\ Paid(restY) \in Int /\ Earned(trade) \in Int
    BY <2>1, AmountsAreWhole, TradesAreWhole
  <2>4. /\ amount[x] = Amount(x) /\ amount[y] = Amount(y) /\ amount[restX] = Amount(restX)
        /\ amount[restY] = Amount(restY) /\ both[trade] = Both(trade)
    BY <2>1
  <2>5. /\ signed[x] = Signed(x) /\ signed[y] = Signed(y) /\ signed[restX] = Signed(restX)
        /\ signed[restY] = Signed(restY) /\ none[trade] = 0
    BY <2>1
  <2>6. /\ paid[x] = Paid(x) /\ paid[y] = Paid(y) /\ paid[restX] = Paid(restX)
        /\ paid[restY] = Paid(restY) /\ spent[trade] = -Earned(trade)
    BY <2>1
  <2>7. /\ charged[x] = Charged(x) /\ charged[y] = Charged(y) /\ charged[restX] = Charged(restX)
        /\ charged[restY] = Charged(restY) /\ fees[trade] = Fees(trade)
    BY <2>1
  <2> HIDE DEF amount, signed, paid, charged, both, none, spent, fees
  <2>8. amount[x] + amount[y] = amount[restX] + amount[restY] + both[trade]
    BY <2>2, <2>4
  <2>9. signed[x] + signed[y] = signed[restX] + signed[restY] + none[trade]
    BY <2>2, <2>3, <2>5
  <2>10. paid[x] + paid[y] = paid[restX] + paid[restY] + spent[trade]
    <3>1. PICK i \in Int, j \in Int, k \in Int :
            i = Paid(restX) /\ j = Paid(restY) /\ k = Earned(trade)
      BY <2>3
    <3>2. i + j - k = i + j + (-k)
      OBVIOUS
    <3>. QED  BY <2>2, <2>6, <3>1, <3>2
  <2>11. charged[x] + charged[y] = charged[restX] + charged[restY] + fees[trade]
    BY <2>2, <2>7
  <2>. QED  BY <2>8, <2>9, <2>10, <2>11 DEF restX, restY, trade
<1> HIDE DEF amount, signed, paid, charged, both, none, spent, fees
<1>5. Passes(I, amount, both)
  BY <1>1, <1>2, <1>3, <1>4 DEF Passes
<1>6. Passes(I, signed, none)
  BY <1>1, <1>2, <1>3, <1>4 DEF Passes
<1>7. Passes(I, paid, spent)
  BY <1>1, <1>2, <1>3, <1>4 DEF Passes
<1>8. Passes(I, charged, fees)
  BY <1>1, <1>2, <1>3, <1>4 DEF Passes
<1>. QED
  BY <1>5, <1>6, <1>7, <1>8 DEF amount, signed, paid, charged, both, none, spent, fees

\* The totals of the properties are what the lists are worth.
LEMMA TotalsOfFills ==
  ASSUME NEW I, NEW s \in Seq(Fills(I))
  PROVE  /\ Total(s, Amount) = Worth([x \in Fills(I) |-> Amount(x)], s)
         /\ Total(s, Signed) = Worth([x \in Fills(I) |-> Signed(x)], s)
         /\ Total(s, Paid) = Worth([x \in Fills(I) |-> Paid(x)], s)
         /\ Total(s, Charged) = Worth([x \in Fills(I) |-> Charged(x)], s)
<1>1. \A i \in DOMAIN s : s[i] \in Fills(I)
  BY LenProperties, ElementOfSeq
<1>2. /\ [i \in DOMAIN s |-> Amount(s[i])] = [i \in DOMAIN s |-> [x \in Fills(I) |-> Amount(x)][s[i]]]
      /\ [i \in DOMAIN s |-> Signed(s[i])] = [i \in DOMAIN s |-> [x \in Fills(I) |-> Signed(x)][s[i]]]
      /\ [i \in DOMAIN s |-> Paid(s[i])] = [i \in DOMAIN s |-> [x \in Fills(I) |-> Paid(x)][s[i]]]
      /\ [i \in DOMAIN s |-> Charged(s[i])] = [i \in DOMAIN s |-> [x \in Fills(I) |-> Charged(x)][s[i]]]
  BY <1>1
<1>. QED
  BY <1>2 DEF Total, Worth

LEMMA TotalsOfTrades ==
  ASSUME NEW I, NEW s \in Seq(Closings(I))
  PROVE  /\ Total(s, Both) = Worth([t \in Closings(I) |-> Both(t)], s)
         /\ Total(s, Earned) = Worth([t \in Closings(I) |-> Earned(t)], s)
         /\ Total(s, Fees) = Worth([t \in Closings(I) |-> Fees(t)], s)
<1>1. \A i \in DOMAIN s : s[i] \in Closings(I)
  BY LenProperties, ElementOfSeq
<1>2. /\ [i \in DOMAIN s |-> Both(s[i])] = [i \in DOMAIN s |-> [t \in Closings(I) |-> Both(t)][s[i]]]
      /\ [i \in DOMAIN s |-> Earned(s[i])] = [i \in DOMAIN s |-> [t \in Closings(I) |-> Earned(t)][s[i]]]
      /\ [i \in DOMAIN s |-> Fees(s[i])] = [i \in DOMAIN s |-> [t \in Closings(I) |-> Fees(t)][s[i]]]
  BY <1>1
<1>. QED
  BY <1>2 DEF Total, Worth

\* A list is worth what its members are, with the sign of each turned.
LEMMA WorthOfOpposite ==
  ASSUME NEW S, NEW v \in [S -> Int], NEW u \in [S -> Int], \A x \in S : u[x] = -v[x],
         NEW s \in Seq(S)
  PROVE  Worth(v, s) \in Int /\ Worth(u, s) = -Worth(v, s)
<1>1. Len(s) \in Nat /\ \A i \in 1..Len(s) : s[i] \in S
  BY LenProperties, ElementOfSeq
<1>2. PICK N \in Nat : N = Len(s)
  BY <1>1
<1>3. PICK f \in [0..N -> Int] :
        f[0] = 0 /\ (\A n \in 1..N : f[n] = f[n - 1] + v[s[n]]) /\ Worth(v, s) = f[N]
  BY <1>2, WorthStepwise
<1>4. PICK g \in [0..N -> Int] :
        g[0] = 0 /\ (\A n \in 1..N : g[n] = g[n - 1] + u[s[n]]) /\ Worth(u, s) = g[N]
  BY <1>2, WorthStepwise
<1> DEFINE G == {n \in Nat : n \in 0..N => g[n] = -f[n]}
<1>5. 0 \in G
  BY <1>3, <1>4
<1>6. ASSUME NEW n \in Nat, n \in G PROVE n + 1 \in G
  <2>1. SUFFICES ASSUME n + 1 \in 0..N PROVE g[n + 1] = -f[n + 1]
    OBVIOUS
  <2>2. n \in 0..N /\ n + 1 \in 1..N /\ (n + 1) - 1 = n
    BY <1>2, <2>1
  <2>3. g[n] = -f[n] /\ f[n] \in Int
    BY <1>3, <1>6, <2>2
  <2>4. s[n + 1] \in S
    BY <1>1, <1>2, <2>2
  <2>5. PICK a \in Int : a = v[s[n + 1]] /\ u[s[n + 1]] = -a
    BY <2>4
  <2>6. f[n + 1] = f[n] + a /\ g[n + 1] = g[n] + (-a)
    BY <1>3, <1>4, <2>2, <2>5
  <2>7. PICK b \in Int : b = f[n]
    BY <2>3
  <2>8. g[n + 1] = (-b) + (-a) /\ f[n + 1] = b + a
    BY <2>3, <2>6, <2>7
  <2>. QED  BY <2>8
<1>7. g[N] = -f[N]
  <2> HIDE DEF G
  <2>1. Nat \subseteq G
    BY <1>5, <1>6, AllNat
  <2>2. N \in G /\ N \in 0..N
    BY <2>1
  <2>. QED  BY <2>2 DEF G
<1>. QED
  BY <1>2, <1>3, <1>4, <1>7

LEMMA PairedIsABook ==
  ASSUME NEW I, NEW fills \in Seq(Fills(I))
  PROVE  /\ Paired(fills).lots \in Seq(Fills(I)) /\ Paired(fills).trades \in Seq(Closings(I))
         /\ \A i, j \in DOMAIN Paired(fills).lots :
              Paired(fills).lots[i].side = Paired(fills).lots[j].side
<1>1. PICK book \in FillBooks(I) : book = Paired(fills)
  BY NothingPasses, PairedKeeps
<1>2. PICK s \in {"buy", "sell"} : book.lots \in Seq(OpenOn(I, s))
  BY DEF FillBooks
<1>3. book.lots \in Seq(Fills(I)) /\ book.trades \in Seq(Closings(I))
  BY DEF FillBooks
<1>4. PICK lots \in Seq(OpenOn(I, s)) : lots = book.lots
  BY <1>2
<1>5. \A i \in DOMAIN lots : lots[i] \in OpenOn(I, s)
  BY LenProperties, ElementOfSeq
<1>6. \A i \in DOMAIN lots : lots[i].side = s
  BY <1>5 DEF OpenOn
<1>. QED
  BY <1>1, <1>3, <1>4, <1>6

\* Whatever the fills are, what was bought and not sold is what is open, every unit
\* of a trade is of two fills, and the lots left open are of one side
\* (_closed_trades_from_fills takes from lots of the other side only, and opens a
\* lot only when they are gone).
THEOREM LotsBalance ==
  ASSUME NEW I, NEW fills \in Seq(Executed(I, Int, Int, Int))
  PROVE  Balances(fills)
<1>1. fills \in Seq(Fills(I))
  BY DEF Fills
<1>2. PICK book : book = Paired(fills)
  OBVIOUS
<1>3. /\ book.lots \in Seq(Fills(I)) /\ book.trades \in Seq(Closings(I))
      /\ \A i, j \in DOMAIN book.lots : book.lots[i].side = book.lots[j].side
  BY <1>1, <1>2, PairedIsABook
<1> DEFINE amount == [x \in Fills(I) |-> Amount(x)]
           signed == [x \in Fills(I) |-> Signed(x)]
           both == [t \in Closings(I) |-> Both(t)]
           none == [t \in Closings(I) |-> 0]
<1>4. /\ Worth(amount, fills) = Worth(amount, book.lots) + Worth(both, book.trades)
      /\ Worth(signed, fills) = Worth(signed, book.lots) + Worth(none, book.trades)
  <2>1. Passes(I, amount, both) /\ Passes(I, signed, none)
    BY ValuesPass
  <2> HIDE DEF amount, signed, both, none
  <2>. QED  BY <1>1, <1>2, <2>1, PairedKeeps
<1>5. Worth(none, book.trades) = 0
  <2>1. none \in [Closings(I) -> Int] /\ \A t \in Closings(I) : none[t] = -none[t]
    <3>1. 0 \in Int /\ \A n \in Int : n = 0 => n = -n
      OBVIOUS
    <3>2. \A t \in Closings(I) : none[t] = 0
      OBVIOUS
    <3>3. none \in [Closings(I) -> Int]
      BY <3>1, Zenon
    <3> HIDE DEF none
    <3>. QED  BY <3>1, <3>2, <3>3
  <2> HIDE DEF none
  <2>2. Worth(none, book.trades) \in Int /\ Worth(none, book.trades) = -Worth(none, book.trades)
    BY <1>3, <2>1, WorthOfOpposite
  <2>. QED  BY <2>2
<1>6. Worth(signed, book.lots) \in Int
  <2> DEFINE turned == [x \in Fills(I) |-> -signed[x]]
  <2>1. /\ signed \in [Fills(I) -> Int] /\ turned \in [Fills(I) -> Int]
        /\ \A x \in Fills(I) : turned[x] = -signed[x]
    BY AmountsAreWhole
  <2> HIDE DEF signed, turned
  <2>. QED  BY <1>3, <2>1, WorthOfOpposite
<1>7. /\ Total(fills, Amount) = Worth(amount, fills) /\ Total(fills, Signed) = Worth(signed, fills)
      /\ Total(book.lots, Amount) = Worth(amount, book.lots)
      /\ Total(book.lots, Signed) = Worth(signed, book.lots)
      /\ Total(book.trades, Both) = Worth(both, book.trades)
  BY <1>1, <1>3, TotalsOfFills, TotalsOfTrades
<1> HIDE DEF amount, signed, both, none
<1>8. /\ Total(fills, Signed) = Total(book.lots, Signed)
      /\ Total(fills, Amount) = Total(book.lots, Amount) + Total(book.trades, Both)
  BY <1>4, <1>5, <1>6, <1>7
<1>. QED
  BY <1>2, <1>3, <1>8 DEF Balances

\* What the trades earned is what the fills brought in, with what is tied up in lots.
THEOREM TradesEarn ==
  ASSUME NEW I, NEW fills \in Seq(Executed(I, Int, Int, Int))
  PROVE  Earns(fills)
<1>1. fills \in Seq(Fills(I))
  BY DEF Fills
<1>2. PICK book : book = Paired(fills)
  OBVIOUS
<1>3. book.lots \in Seq(Fills(I)) /\ book.trades \in Seq(Closings(I))
  BY <1>1, <1>2, PairedIsABook
<1> DEFINE paid == [x \in Fills(I) |-> Paid(x)]
           earned == [t \in Closings(I) |-> Earned(t)]
           spent == [t \in Closings(I) |-> -Earned(t)]
<1>4. Worth(paid, fills) = Worth(paid, book.lots) + Worth(spent, book.trades)
  <2>1. Passes(I, paid, spent)
    BY ValuesPass
  <2> HIDE DEF paid, spent
  <2>. QED  BY <1>1, <1>2, <2>1, PairedKeeps
<1>5. Worth(earned, book.trades) \in Int /\ Worth(spent, book.trades) = -Worth(earned, book.trades)
  <2>1. /\ earned \in [Closings(I) -> Int] /\ spent \in [Closings(I) -> Int]
        /\ \A t \in Closings(I) : spent[t] = -earned[t]
    BY TradesAreWhole
  <2> HIDE DEF earned, spent
  <2>. QED  BY <1>3, <2>1, WorthOfOpposite
<1>6. Worth(paid, book.lots) \in Int
  <2> DEFINE turned == [x \in Fills(I) |-> -paid[x]]
  <2>1. /\ paid \in [Fills(I) -> Int] /\ turned \in [Fills(I) -> Int]
        /\ \A x \in Fills(I) : turned[x] = -paid[x]
    BY AmountsAreWhole
  <2> HIDE DEF paid, turned
  <2>. QED  BY <1>3, <2>1, WorthOfOpposite
<1>7. /\ Total(fills, Paid) = Worth(paid, fills) /\ Total(book.lots, Paid) = Worth(paid, book.lots)
      /\ Total(book.trades, Earned) = Worth(earned, book.trades)
  BY <1>1, <1>3, TotalsOfFills, TotalsOfTrades
<1> HIDE DEF paid, earned, spent
<1>8. Total(book.trades, Earned) = Total(book.lots, Paid) - Total(fills, Paid)
  BY <1>4, <1>5, <1>6, <1>7
<1>. QED
  BY <1>2, <1>8 DEF Earns

\* The fees of the trades and of the lots are those of the fills, each once
\* (_allocate_proportional_fee shares them out).
THEOREM FeesAreChargedOnce ==
  ASSUME NEW I, NEW fills \in Seq(Executed(I, Int, Int, Int))
  PROVE  ChargesOnce(fills)
<1>1. fills \in Seq(Fills(I))
  BY DEF Fills
<1>2. PICK book : book = Paired(fills)
  OBVIOUS
<1>3. book.lots \in Seq(Fills(I)) /\ book.trades \in Seq(Closings(I))
  BY <1>1, <1>2, PairedIsABook
<1> DEFINE charged == [x \in Fills(I) |-> Charged(x)]
           fees == [t \in Closings(I) |-> Fees(t)]
           turned == [x \in Fills(I) |-> -charged[x]]
           back == [t \in Closings(I) |-> -fees[t]]
<1>4. Worth(charged, fills) = Worth(charged, book.lots) + Worth(fees, book.trades)
  <2>1. Passes(I, charged, fees)
    BY ValuesPass
  <2> HIDE DEF charged, fees
  <2>. QED  BY <1>1, <1>2, <2>1, PairedKeeps
<1>5. Worth(charged, book.lots) \in Int
  <2>1. /\ charged \in [Fills(I) -> Int] /\ turned \in [Fills(I) -> Int]
        /\ \A x \in Fills(I) : turned[x] = -charged[x]
    BY AmountsAreWhole
  <2> HIDE DEF charged, turned
  <2>. QED  BY <1>3, <2>1, WorthOfOpposite
<1>6. Worth(fees, book.trades) \in Int
  <2>1. /\ fees \in [Closings(I) -> Int] /\ back \in [Closings(I) -> Int]
        /\ \A t \in Closings(I) : back[t] = -fees[t]
    BY TradesAreWhole
  <2> HIDE DEF fees, back
  <2>. QED  BY <1>3, <2>1, WorthOfOpposite
<1>7. /\ Total(fills, Charged) = Worth(charged, fills)
      /\ Total(book.lots, Charged) = Worth(charged, book.lots)
      /\ Total(book.trades, Fees) = Worth(fees, book.trades)
  BY <1>1, <1>3, TotalsOfFills, TotalsOfTrades
<1> HIDE DEF charged, fees
<1>8. Total(book.trades, Fees) + Total(book.lots, Charged) = Total(fills, Charged)
  BY <1>4, <1>5, <1>6, <1>7
<1>. QED
  BY <1>2, <1>8 DEF ChargesOnce

\* The oldest first, and none twice.
Sorted(lots) ==
    \A i, j \in DOMAIN lots : i < j => lots[i].id # lots[j].id /\ lots[i].at <= lots[j].at
Ranked(done) ==
    \A i, j \in DOMAIN done : i < j =>
      /\ done[i].id # done[j].id
      /\ done[i].opened <= done[j].opened /\ done[i].closed <= done[j].closed

LEMMA SortedMore ==
  ASSUME NEW S, NEW s \in Seq(S), NEW x \in S, Sorted(s),
         \A i \in DOMAIN s : s[i].id # x.id /\ s[i].at <= x.at
  PROVE  Sorted(Append(s, x))
<1>1. PICK n \in Nat : n = Len(s)
  BY LenProperties
<1>2. PICK t : t = Append(s, x)
  OBVIOUS
<1>3. /\ DOMAIN s = 1..n /\ DOMAIN t = 1..(n + 1)
      /\ t[n + 1] = x /\ \A i \in 1..n : t[i] = s[i]
  <2>1. t \in Seq(S) /\ Len(t) = n + 1 /\ t[n + 1] = x /\ \A i \in 1..n : t[i] = s[i]
    BY <1>1, <1>2, AppendProperties
  <2>. QED  BY <1>1, <2>1, LenProperties
<1>4. ASSUME NEW i \in 1..(n + 1), NEW j \in 1..(n + 1), i < j
      PROVE  t[i].id # t[j].id /\ t[i].at <= t[j].at
  <2>1. i \in 1..n
    BY <1>4
  <2>2. CASE j \in 1..n
    BY <1>3, <1>4, <2>1, <2>2 DEF Sorted
  <2>3. CASE j = n + 1
    BY <1>3, <2>1, <2>3
  <2>. QED  BY <2>2, <2>3
<1>. QED
  BY <1>2, <1>3, <1>4 DEF Sorted

LEMMA RankedMore ==
  ASSUME NEW S, NEW s \in Seq(S), NEW x \in S, Ranked(s),
         \A i \in DOMAIN s : s[i].id # x.id /\ s[i].opened <= x.opened /\ s[i].closed <= x.closed
  PROVE  Ranked(Append(s, x))
<1>1. PICK n \in Nat : n = Len(s)
  BY LenProperties
<1>2. PICK t : t = Append(s, x)
  OBVIOUS
<1>3. /\ DOMAIN s = 1..n /\ DOMAIN t = 1..(n + 1)
      /\ t[n + 1] = x /\ \A i \in 1..n : t[i] = s[i]
  <2>1. t \in Seq(S) /\ Len(t) = n + 1 /\ t[n + 1] = x /\ \A i \in 1..n : t[i] = s[i]
    BY <1>1, <1>2, AppendProperties
  <2>. QED  BY <1>1, <2>1, LenProperties
<1>4. ASSUME NEW i \in 1..(n + 1), NEW j \in 1..(n + 1), i < j
      PROVE  /\ t[i].id # t[j].id
             /\ t[i].opened <= t[j].opened /\ t[i].closed <= t[j].closed
  <2>1. i \in 1..n
    BY <1>4
  <2>2. CASE j \in 1..n
    BY <1>3, <1>4, <2>1, <2>2 DEF Ranked
  <2>3. CASE j = n + 1
    BY <1>3, <2>1, <2>3
  <2>. QED  BY <2>2, <2>3
<1>. QED
  BY <1>2, <1>3, <1>4 DEF Ranked

LEMMA MembersOfMore ==
  ASSUME NEW S, NEW s \in Seq(S), NEW x \in S
  PROVE  /\ Append(s, x) \in Seq(S)
         /\ \A i \in DOMAIN Append(s, x) : Append(s, x)[i] = x \/ \E j \in DOMAIN s : Append(s, x)[i] = s[j]
<1>1. PICK n \in Nat : n = Len(s)
  BY LenProperties
<1>2. PICK t : t = Append(s, x)
  OBVIOUS
<1>3. /\ DOMAIN s = 1..n /\ DOMAIN t = 1..(n + 1) /\ t \in Seq(S)
      /\ t[n + 1] = x /\ \A i \in 1..n : t[i] = s[i]
  <2>1. t \in Seq(S) /\ Len(t) = n + 1 /\ t[n + 1] = x /\ \A i \in 1..n : t[i] = s[i]
    BY <1>1, <1>2, AppendProperties
  <2>. QED  BY <1>1, <2>1, LenProperties
<1>4. ASSUME NEW i \in 1..(n + 1) PROVE t[i] = x \/ \E j \in 1..n : t[i] = s[j]
  <2>1. i = n + 1 \/ i \in 1..n
    OBVIOUS
  <2>. QED  BY <1>3, <2>1
<1>. QED
  BY <1>2, <1>3, <1>4

\* A fill has been through the first n lots: those left of them, and the trades there
\* are. Earlier trades are of fills whose ids are in known.
Midway(n, fill, known, lots, rest, done) ==
    /\ Sorted(rest) /\ Ranked(done)
    /\ \A i \in DOMAIN rest : \E m \in 1..n : rest[i].id = lots[m].id /\ rest[i].at = lots[m].at
    /\ \A j \in DOMAIN done :
         /\ done[j].opened <= fill.at /\ done[j].closed <= fill.at
         /\ \/ done[j].id[2] \in known
            \/ done[j].id[2] = fill.id /\ \E m \in 1..n : done[j].id[1] = lots[m].id
         /\ \A m \in DOMAIN lots : m > n => done[j].opened <= lots[m].at
         /\ \A i \in DOMAIN rest : done[j].opened <= rest[i].at

\* The lots that a fill finds.
Waiting(fill, known, lots) ==
    /\ Sorted(lots) /\ fill.id \notin known
    /\ \A m \in DOMAIN lots : lots[m].id \in known /\ lots[m].at <= fill.at

LEMMA LotIsKept ==
  ASSUME NEW fill \in Fills(Int), NEW known, NEW lots \in Seq(Fills(Int)),
         NEW rest \in Seq(Fills(Int)), NEW done \in Seq(Closings(Int)),
         NEW n \in 1..Len(lots), NEW x \in Fills(Int), x.id = lots[n].id, x.at = lots[n].at,
         Waiting(fill, known, lots), Midway(n - 1, fill, known, lots, rest, done)
  PROVE  Midway(n, fill, known, lots, Append(rest, x), done)
<1>1. PICK N \in Nat : N = Len(lots) /\ DOMAIN lots = 1..N
  BY LenProperties
<1>2. n \in 1..N /\ (\A m \in 1..(n - 1) : m \in 1..n /\ m \in 1..N /\ m < n) /\ n \in Int
  BY <1>1
<1>3. PICK more : more = Append(rest, x)
  OBVIOUS
<1>4. /\ more \in Seq(Fills(Int))
      /\ \A i \in DOMAIN more : more[i] = x \/ \E j \in DOMAIN rest : more[i] = rest[j]
  BY <1>3, MembersOfMore
<1>5. ASSUME NEW i \in DOMAIN rest PROVE rest[i].id # x.id /\ rest[i].at <= x.at
  <2>1. PICK m \in 1..(n - 1) : rest[i].id = lots[m].id /\ rest[i].at = lots[m].at
    BY DEF Midway
  <2>2. lots[m].id # lots[n].id /\ lots[m].at <= lots[n].at
    BY <1>1, <1>2 DEF Waiting, Sorted
  <2>. QED  BY <2>1, <2>2
<1>6. Sorted(more)
  <2>1. Sorted(rest)
    BY DEF Midway
  <2>. QED  BY <1>3, <1>5, <2>1, SortedMore
<1>7. ASSUME NEW i \in DOMAIN more
      PROVE  \E m \in 1..n : more[i].id = lots[m].id /\ more[i].at = lots[m].at
  <2>1. CASE more[i] = x
    BY <1>2, <2>1
  <2>2. CASE \E j \in DOMAIN rest : more[i] = rest[j]
    <3>1. PICK j \in DOMAIN rest : more[i] = rest[j]
      BY <2>2
    <3>2. PICK m \in 1..(n - 1) : rest[j].id = lots[m].id /\ rest[j].at = lots[m].at
      BY DEF Midway
    <3>3. m \in 1..n
      BY <1>2
    <3>. QED  BY <3>1, <3>2, <3>3
  <2>. QED  BY <1>4, <2>1, <2>2
<1>8. ASSUME NEW j \in DOMAIN done
      PROVE  /\ done[j].opened <= fill.at /\ done[j].closed <= fill.at
             /\ \/ done[j].id[2] \in known
                \/ done[j].id[2] = fill.id /\ \E m \in 1..n : done[j].id[1] = lots[m].id
             /\ \A m \in DOMAIN lots : m > n => done[j].opened <= lots[m].at
             /\ \A i \in DOMAIN more : done[j].opened <= more[i].at
  <2>1. /\ done[j].opened <= fill.at /\ done[j].closed <= fill.at
        /\ \/ done[j].id[2] \in known
           \/ done[j].id[2] = fill.id /\ \E m \in 1..(n - 1) : done[j].id[1] = lots[m].id
        /\ \A m \in DOMAIN lots : m > n - 1 => done[j].opened <= lots[m].at
        /\ \A i \in DOMAIN rest : done[j].opened <= rest[i].at
    BY DEF Midway
  <2>2. done[j].opened <= x.at
    <3>1. n \in DOMAIN lots /\ n > n - 1
      BY <1>1, <1>2
    <3>. QED  BY <2>1, <3>1
  <2>3. \A m \in DOMAIN lots : m > n => m > n - 1
    BY <1>1, <1>2
  <2>4. \/ done[j].id[2] \in known
        \/ done[j].id[2] = fill.id /\ \E m \in 1..n : done[j].id[1] = lots[m].id
    <3>1. CASE done[j].id[2] \in known
      BY <3>1
    <3>2. CASE done[j].id[2] \notin known
      <4>1. PICK m \in 1..(n - 1) : done[j].id[1] = lots[m].id
        BY <2>1, <3>2
      <4>2. m \in 1..n
        BY <1>2
      <4>3. \E k \in 1..n : done[j].id[1] = lots[k].id
        BY <4>1, <4>2
      <4>4. done[j].id[2] = fill.id
        BY <2>1, <3>2
      <4>. QED  BY <4>3, <4>4
    <3>. QED  BY <3>1, <3>2
  <2>5. \A i \in DOMAIN more : done[j].opened <= more[i].at
    BY <1>4, <2>1, <2>2
  <2>. QED  BY <2>1, <2>3, <2>4, <2>5
<1>9. Ranked(done)
  BY DEF Midway
<1>. QED
  BY <1>3, <1>6, <1>7, <1>8, <1>9 DEF Midway

LEMMA LotIsTaken ==
  ASSUME NEW fill \in Fills(Int), NEW known, NEW lots \in Seq(Fills(Int)),
         NEW rest \in Seq(Fills(Int)), NEW done \in Seq(Closings(Int)),
         NEW n \in 1..Len(lots), NEW t \in Closings(Int),
         t.id = <<lots[n].id, fill.id>>, t.opened = lots[n].at, t.closed = fill.at,
         \A i \in DOMAIN rest : rest[i].id = lots[n].id /\ rest[i].at = lots[n].at,
         Sorted(rest),
         Waiting(fill, known, lots), Midway(n - 1, fill, known, lots, <<>>, done)
  PROVE  Midway(n, fill, known, lots, rest, Append(done, t))
<1>1. PICK N \in Nat : N = Len(lots) /\ DOMAIN lots = 1..N
  BY LenProperties
<1>2. /\ n \in 1..N /\ n \in 1..n /\ n \in Int
      /\ \A m \in 1..(n - 1) : m \in 1..n /\ m \in 1..N /\ m < n
  BY <1>1
<1>3. PICK more : more = Append(done, t)
  OBVIOUS
<1>4. /\ more \in Seq(Closings(Int))
      /\ \A i \in DOMAIN more : more[i] = t \/ \E j \in DOMAIN done : more[i] = done[j]
  BY <1>3, MembersOfMore
<1>5. ASSUME NEW j \in DOMAIN done
      PROVE  /\ done[j].opened <= fill.at /\ done[j].closed <= fill.at
             /\ \/ done[j].id[2] \in known
                \/ done[j].id[2] = fill.id /\ \E m \in 1..(n - 1) : done[j].id[1] = lots[m].id
             /\ \A m \in DOMAIN lots : m > n - 1 => done[j].opened <= lots[m].at
  BY DEF Midway
<1>6. ASSUME NEW j \in DOMAIN done
      PROVE  done[j].id # t.id /\ done[j].opened <= t.opened /\ done[j].closed <= t.closed
  <2>1. done[j].opened <= t.opened /\ done[j].closed <= t.closed
    <3>1. n \in DOMAIN lots /\ n > n - 1
      BY <1>1, <1>2
    <3>. QED  BY <1>5, <3>1
  <2>2. t.id[1] = lots[n].id /\ t.id[2] = fill.id /\ fill.id \notin known
    BY DEF Waiting
  <2>3. CASE done[j].id[2] \in known
    BY <2>1, <2>2, <2>3
  <2>4. CASE \E m \in 1..(n - 1) : done[j].id[1] = lots[m].id
    <3>1. PICK m \in 1..(n - 1) : done[j].id[1] = lots[m].id
      BY <2>4
    <3>2. lots[m].id # lots[n].id
      BY <1>1, <1>2 DEF Waiting, Sorted
    <3>. QED  BY <2>1, <2>2, <3>1, <3>2
  <2>. QED  BY <1>5, <2>3, <2>4
<1>7. Ranked(more)
  <2>1. Ranked(done)
    BY DEF Midway
  <2>. QED  BY <1>3, <1>6, <2>1, RankedMore
<1>8. \A m \in DOMAIN lots : m > n => m > n - 1 /\ lots[n].at <= lots[m].at
  BY <1>1, <1>2 DEF Waiting, Sorted
<1>9. lots[n].at <= fill.at /\ lots[n].at <= lots[n].at /\ fill.at <= fill.at
  <2>1. lots[n] \in Fills(Int)
    BY <1>1, <1>2, ElementOfSeq
  <2>2. lots[n].at \in Int /\ fill.at \in Int
    BY <2>1, FieldsOfAFill
  <2>. QED  BY <1>1, <1>2, <2>2 DEF Waiting
<1>10. ASSUME NEW i \in DOMAIN more
       PROVE  /\ more[i].opened <= fill.at /\ more[i].closed <= fill.at
              /\ \/ more[i].id[2] \in known
                 \/ more[i].id[2] = fill.id /\ \E m \in 1..n : more[i].id[1] = lots[m].id
              /\ \A m \in DOMAIN lots : m > n => more[i].opened <= lots[m].at
              /\ \A k \in DOMAIN rest : more[i].opened <= rest[k].at
  <2>1. CASE more[i] = t
    <3>1. more[i].opened <= fill.at /\ more[i].closed <= fill.at
      BY <1>9, <2>1
    <3>2. more[i].id[2] = fill.id /\ \E m \in 1..n : more[i].id[1] = lots[m].id
      BY <1>2, <2>1
    <3>3. \A m \in DOMAIN lots : m > n => more[i].opened <= lots[m].at
      BY <1>8, <2>1
    <3>4. \A k \in DOMAIN rest : more[i].opened <= rest[k].at
      BY <1>9, <2>1
    <3>. QED  BY <3>1, <3>2, <3>3, <3>4
  <2>2. CASE \E j \in DOMAIN done : more[i] = done[j]
    <3>1. PICK j \in DOMAIN done : more[i] = done[j]
      BY <2>2
    <3>2. \A k \in DOMAIN rest : done[j].opened <= rest[k].at
      BY <1>1, <1>2, <1>5
    <3>3. \/ done[j].id[2] \in known
          \/ done[j].id[2] = fill.id /\ \E m \in 1..n : done[j].id[1] = lots[m].id
      BY <1>2, <1>5
    <3>4. \A m \in DOMAIN lots : m > n => done[j].opened <= lots[m].at
      BY <1>5, <1>8
    <3>. QED  BY <1>5, <3>1, <3>2, <3>3, <3>4
  <2>. QED  BY <1>4, <2>1, <2>2
<1>11. \A i \in DOMAIN rest : \E m \in 1..n : rest[i].id = lots[m].id /\ rest[i].at = lots[m].at
  BY <1>2
<1>. QED
  BY <1>3, <1>7, <1>10, <1>11 DEF Midway

LEMMA CloseLotInOrder ==
  ASSUME NEW s, NEW fill \in Fills(Int), NEW known, NEW lots \in Seq(OpenOn(Int, s)),
         NEW found \in Finding(Int, s, fill), NEW n \in 1..Len(lots),
         Waiting(fill, known, lots),
         Midway(n - 1, fill, known, lots, found.lots, found.trades)
  PROVE  Midway(n, fill, known, lots, CloseLot(fill, found, lots[n]).lots,
                CloseLot(fill, found, lots[n]).trades)
<1>1. lots \in Seq(Fills(Int))
  BY OpenAreFills
<1>2. PICK lot : lot = lots[n]
  OBVIOUS
<1>3. /\ lot \in Fills(Int) /\ lot.side = s /\ lot.quantity \in Int /\ lot.quantity > 0
  <2>1. lot \in OpenOn(Int, s)
    BY <1>2, ElementOfSeq
  <2>. QED  BY <2>1, FieldsOfAFill DEF OpenOn, Usable
<1>4. /\ found.left \in Nat /\ found.lots \in Seq(Fills(Int)) /\ found.trades \in Seq(Closings(Int))
      /\ found.left > 0 /\ fill.side # s => found.lots = <<>>
  BY OpenAreFills DEF Finding
<1> DEFINE q == IF lot.side = fill.side THEN 0 ELSE Min({lot.quantity, found.left})
           left == With(lot, lot.quantity - q)
           trade == ClosedTrade(lot, fill, q)
           next == CloseLot(fill, found, lot)
<1>5. Min({lot.quantity, found.left})
        = IF lot.quantity <= found.left THEN lot.quantity ELSE found.left
  BY <1>3, <1>4, MinOfTwo
<1>6. q \in Nat /\ q <= found.left /\ (q > 0 => fill.side # s /\ found.left > 0)
  BY <1>3, <1>4, <1>5
<1>7. /\ left \in Fills(Int) /\ left.id = lot.id /\ left.at = lot.at
      /\ trade \in Closings(Int)
      /\ trade.id = <<lot.id, fill.id>> /\ trade.opened = lot.at /\ trade.closed = fill.at
  <2>1. lot.quantity - q \in Int /\ q \in Int
    BY <1>3, <1>6
  <2> HIDE DEF q
  <2>2. left \in Fills(Int) /\ left.id = lot.id /\ left.at = lot.at
    BY <1>3, <2>1, RestOfAFill
  <2>4. trade \in Closings(Int)
    BY <1>3, <2>1, TradeOfTwoFills
  <2>3. trade.id = <<lot.id, fill.id>> /\ trade.opened = lot.at /\ trade.closed = fill.at
    BY DEF ClosedTrade
  <2>. QED  BY <2>2, <2>3, <2>4
<1>8. /\ next.lots = (IF lot.quantity > q THEN Append(found.lots, left) ELSE found.lots)
      /\ next.trades = (IF q > 0 THEN Append(found.trades, trade) ELSE found.trades)
  BY DEF CloseLot
<1> HIDE DEF q, left, trade, next
<1>9. CASE q > 0
  <2>1. found.lots = <<>> /\ next.trades = Append(found.trades, trade)
    BY <1>4, <1>6, <1>8, <1>9
  <2>2. next.lots = Append(<<>>, left) \/ next.lots = <<>>
    BY <1>8, <2>1
  <2>3. /\ next.lots \in Seq(Fills(Int)) /\ Sorted(next.lots)
        /\ \A i \in DOMAIN next.lots : next.lots[i].id = lot.id /\ next.lots[i].at = lot.at
    <3>1. CASE next.lots = <<>>
      <4>1. <<>> \in Seq(Fills(Int)) /\ DOMAIN <<>> = {}
        OBVIOUS
      <4>. QED  BY <3>1, <4>1 DEF Sorted
    <3>2. CASE next.lots = Append(<<>>, left)
      <4>1. <<>> \in Seq(Fills(Int)) /\ DOMAIN <<>> = {}
        OBVIOUS
      <4>2. Sorted(<<>>)
        BY <4>1 DEF Sorted
      <4>3. Sorted(next.lots)
        BY <1>7, <3>2, <4>1, <4>2, SortedMore
      <4>4. /\ next.lots \in Seq(Fills(Int)) /\ \A i \in DOMAIN next.lots : next.lots[i] = left
        BY <1>7, <3>2, <4>1, MembersOfMore
      <4>. QED  BY <1>7, <4>3, <4>4
    <3>. QED  BY <2>2, <3>1, <3>2
  <2>4. Midway(n - 1, fill, known, lots, <<>>, found.trades)
    BY <2>1
  <2>5. PICK rest \in Seq(Fills(Int)) : rest = next.lots
    BY <2>3
  <2>6. PICK done \in Seq(Closings(Int)) : done = found.trades
    BY <1>4
  <2>7. Midway(n, fill, known, lots, rest, Append(done, trade))
    BY <1>1, <1>2, <1>7, <2>3, <2>4, <2>5, <2>6, LotIsTaken
  <2>. QED  BY <1>2, <2>1, <2>5, <2>6, <2>7 DEF next
<1>10. CASE ~(q > 0)
  <2>1. next.lots = Append(found.lots, left) /\ next.trades = found.trades
    BY <1>3, <1>6, <1>8, <1>10
  <2>2. PICK rest \in Seq(Fills(Int)), done \in Seq(Closings(Int)) :
          rest = found.lots /\ done = found.trades
    BY <1>4
  <2>3. Midway(n, fill, known, lots, Append(rest, left), done)
    BY <1>1, <1>2, <1>7, <2>2, LotIsKept
  <2>. QED  BY <1>2, <2>1, <2>2, <2>3 DEF next
<1>. QED
  BY <1>9, <1>10

LEMMA ClosedInOrder ==
  ASSUME NEW s, NEW fill \in Fills(Int), Usable(fill), NEW known,
         NEW lots \in Seq(OpenOn(Int, s)), NEW done \in Seq(Closings(Int)),
         Waiting(fill, known, lots), Midway(0, fill, known, lots, <<>>, done)
  PROVE  LET found == Closed([trades |-> done, lots |-> lots], fill)
         IN  Midway(Len(lots), fill, known, lots, found.lots, found.trades)
<1>1. PICK N \in Nat : N = Len(lots)
  BY LenProperties
<1>2. PICK f \in [0..N -> Finding(Int, s, fill)] : Closes(f, fill, lots, done)
  BY <1>1, ClosedStepwise
<1> DEFINE G == {n \in Nat : n \in 0..N => Midway(n, fill, known, lots, f[n].lots, f[n].trades)}
<1>3. 0 \in G
  BY <1>2 DEF Closes
<1>4. ASSUME NEW n \in Nat, n \in G PROVE n + 1 \in G
  <2>1. SUFFICES ASSUME n + 1 \in 0..N
                 PROVE  Midway(n + 1, fill, known, lots, f[n + 1].lots, f[n + 1].trades)
    OBVIOUS
  <2>2. n \in 0..N /\ n + 1 \in 1..N /\ (n + 1) - 1 = n
    BY <1>1, <2>1
  <2>3. f[n] \in Finding(Int, s, fill) /\ f[n + 1] = CloseLot(fill, f[n], lots[n + 1])
    BY <1>1, <1>2, <2>2 DEF Closes
  <2>4. Midway((n + 1) - 1, fill, known, lots, f[n].lots, f[n].trades)
    BY <1>4, <2>2
  <2>. QED  BY <1>1, <2>2, <2>3, <2>4, CloseLotInOrder
<1>5. Midway(N, fill, known, lots, f[N].lots, f[N].trades)
  <2> HIDE DEF G
  <2>1. Nat \subseteq G
    BY <1>3, <1>4, AllNat
  <2>2. N \in G /\ N \in 0..N
    BY <2>1
  <2>. QED  BY <2>2 DEF G
<1>6. Closed([trades |-> done, lots |-> lots], fill) = f[N]
  BY <1>1, <1>2 DEF Closes
<1>. QED
  BY <1>1, <1>5, <1>6

\* The lots and the trades there are, of fills whose ids are known, before others to
\* be executed at the times of later.
Orderly(known, later, lots, done) ==
    /\ Sorted(lots) /\ Ranked(done)
    /\ \A m \in DOMAIN lots : lots[m].id \in known /\ \A a \in later : lots[m].at <= a
    /\ \A j \in DOMAIN done :
         /\ done[j].id[2] \in known
         /\ \A a \in later : done[j].opened <= a /\ done[j].closed <= a
         /\ \A m \in DOMAIN lots : done[j].opened <= lots[m].at

LEMMA PairFillInOrder ==
  ASSUME NEW fill \in Fills(Int), NEW book \in FillBooks(Int), NEW known, NEW later,
         NEW after \in SUBSET later, later \subseteq Int,
         fill.id \notin known, fill.at \in later, \A a \in after : fill.at <= a,
         Orderly(known, later, book.lots, book.trades)
  PROVE  Orderly(known \cup {fill.id}, after, PairFill(book, fill).lots, PairFill(book, fill).trades)
<1>1. PICK s \in {"buy", "sell"} : book.lots \in Seq(OpenOn(Int, s))
  BY DEF FillBooks
<1>2. PICK lots \in Seq(OpenOn(Int, s)), done \in Seq(Closings(Int)) :
        lots = book.lots /\ done = book.trades /\ book = [trades |-> done, lots |-> lots]
  BY <1>1 DEF FillBooks
<1>3. /\ Sorted(lots) /\ Ranked(done)
      /\ \A m \in DOMAIN lots : lots[m].id \in known /\ \A a \in later : lots[m].at <= a
      /\ \A j \in DOMAIN done :
           /\ done[j].id[2] \in known
           /\ \A a \in later : done[j].opened <= a /\ done[j].closed <= a
           /\ \A m \in DOMAIN lots : done[j].opened <= lots[m].at
  BY <1>2 DEF Orderly
<1>4. CASE ~Usable(fill)
  <2>1. PairFill(book, fill) = book
    BY <1>4 DEF PairFill
  <2>2. /\ \A m \in DOMAIN lots : lots[m].id \in known \cup {fill.id} /\ \A a \in after : lots[m].at <= a
        /\ \A j \in DOMAIN done :
             /\ done[j].id[2] \in known \cup {fill.id}
             /\ \A a \in after : done[j].opened <= a /\ done[j].closed <= a
             /\ \A m \in DOMAIN lots : done[j].opened <= lots[m].at
    BY <1>3
  <2>. QED  BY <1>2, <1>3, <2>1, <2>2 DEF Orderly
<1>5. CASE Usable(fill)
  <2>1. PICK found : found = Closed(book, fill)
    OBVIOUS
  <2>2. found \in Finding(Int, s, fill)
    <3>1. Passes(Int, [x \in Fills(Int) |-> 0], [x \in Closings(Int) |-> 0])
      BY NothingPasses
    <3>2. Closed(book, fill) \in Finding(Int, s, fill)
      BY <1>2, <1>5, <3>1, ClosedKeeps
    <3>. QED  BY <2>1, <3>2
  <2>3. Waiting(fill, known, lots)
    BY <1>3 DEF Waiting
  <2>4. Midway(0, fill, known, lots, <<>>, done)
    <3>1. DOMAIN <<>> = {} /\ \A m \in 1..0 : FALSE
      OBVIOUS
    <3>2. Sorted(<<>>)
      BY <3>1 DEF Sorted
    <3>. QED  BY <1>3, <3>1, <3>2 DEF Midway
  <2>5. Midway(Len(lots), fill, known, lots, found.lots, found.trades)
    BY <1>2, <1>5, <2>1, <2>3, <2>4, ClosedInOrder
  <2>6. PICK N \in Nat : N = Len(lots) /\ DOMAIN lots = 1..N
    BY LenProperties
  <2>7. PICK rest \in Seq(Fills(Int)), made \in Seq(Closings(Int)) :
          rest = found.lots /\ made = found.trades
    BY <2>2, OpenAreFills DEF Finding
  <2>8. /\ Sorted(rest) /\ Ranked(made)
        /\ \A i \in DOMAIN rest : \E m \in 1..N : rest[i].id = lots[m].id /\ rest[i].at = lots[m].at
        /\ \A j \in DOMAIN made :
             /\ made[j].opened <= fill.at /\ made[j].closed <= fill.at
             /\ made[j].id[2] \in known \/ made[j].id[2] = fill.id
             /\ \A i \in DOMAIN rest : made[j].opened <= rest[i].at
    BY <2>5, <2>6, <2>7 DEF Midway
  <2>9. \A i \in DOMAIN rest :
          rest[i].id \in known /\ rest[i].at <= fill.at /\ \A a \in after : rest[i].at <= a
    BY <1>3, <2>6, <2>8
  <2>10. ASSUME NEW j \in DOMAIN made, NEW a \in after
         PROVE  made[j].opened <= a /\ made[j].closed <= a
    <3>1. made[j] \in Closings(Int)
      BY LenProperties, ElementOfSeq
    <3>2. made[j].opened \in Int /\ made[j].closed \in Int
      BY <3>1 DEF Closings
    <3>3. fill.at \in Int /\ a \in Int /\ fill.at <= a
      BY FieldsOfAFill
    <3>. QED  BY <2>8, <3>2, <3>3
  <2>11. PICK left \in Fills(Int) : left = With(fill, found.left) /\ left.id = fill.id /\ left.at = fill.at
    <3>1. found.left \in Int
      BY <2>2 DEF Finding
    <3>. QED  BY <3>1, RestOfAFill
  <2>12. PICK lasting : lasting = IF found.left > 0 THEN Append(rest, left) ELSE rest
    OBVIOUS
  <2>13. PairFill(book, fill) = [trades |-> made, lots |-> lasting]
    BY <1>5, <2>1, <2>7, <2>11, <2>12 DEF PairFill
  <2>14. /\ Sorted(lasting)
         /\ \A i \in DOMAIN lasting : lasting[i] = left \/ \E k \in DOMAIN rest : lasting[i] = rest[k]
    <3>1. CASE found.left > 0
      <4>1. \A i \in DOMAIN rest : rest[i].id # left.id /\ rest[i].at <= left.at
        BY <2>9, <2>11
      <4>2. Sorted(Append(rest, left))
        BY <2>8, <4>1, SortedMore
      <4>. QED  BY <2>12, <3>1, <4>2, MembersOfMore
    <3>2. CASE ~(found.left > 0)
      BY <2>8, <2>12, <3>2
    <3>. QED  BY <3>1, <3>2
  <2>15. \A i \in DOMAIN lasting :
           lasting[i].id \in known \cup {fill.id} /\ \A a \in after : lasting[i].at <= a
    BY <2>9, <2>11, <2>14
  <2>16. \A j \in DOMAIN made : \A i \in DOMAIN lasting : made[j].opened <= lasting[i].at
    BY <2>8, <2>11, <2>14
  <2>17. Orderly(known \cup {fill.id}, after, lasting, made)
    BY <2>8, <2>10, <2>14, <2>15, <2>16 DEF Orderly
  <2>. QED  BY <2>13, <2>17
<1>. QED
  BY <1>4, <1>5

\* Of fills in the order they were executed, each with an id of its own, the trades
\* are first in, first out, in the order they were closed, and none is listed twice
\* (_closed_trades_from_fills sorts the fills and takes the oldest lot first).
THEOREM TradesAreInOrder ==
  ASSUME NEW fills \in Seq(Executed(Int, Int, Int, Int)),
         \A i, j \in DOMAIN fills : i < j => fills[i].id # fills[j].id /\ fills[i].at <= fills[j].at
  PROVE  InOrder(fills)
<1>1. fills \in Seq(Fills(Int))
  BY DEF Fills
<1>2. PICK N \in Nat : N = Len(fills) /\ DOMAIN fills = 1..N
  BY LenProperties
<1>3. \A n \in 1..N : fills[n] \in Fills(Int) /\ fills[n].at \in Int
  BY <1>1, <1>2, ElementOfSeq, FieldsOfAFill
<1>4. PICK f \in [0..N -> FillBooks(Int)] : PairsUp(f, fills)
  BY <1>1, <1>2, PairedStepwise
<1> DEFINE KnownBy(n) == {fills[m].id : m \in 1..n}
           Later(n) == {fills[m].at : m \in (n + 1)..N}
           G == {n \in Nat : n \in 0..N => Orderly(KnownBy(n), Later(n), f[n].lots, f[n].trades)}
<1>5. 0 \in G
  <2>1. f[0].lots = <<>> /\ f[0].trades = <<>>
    BY <1>4 DEF PairsUp
  <2>2. DOMAIN <<>> = {}
    OBVIOUS
  <2>. QED  BY <2>1, <2>2 DEF Orderly, Sorted, Ranked
<1>6. ASSUME NEW n \in Nat, n \in G PROVE n + 1 \in G
  <2>1. SUFFICES ASSUME n + 1 \in 0..N
                 PROVE  Orderly(KnownBy(n + 1), Later(n + 1), f[n + 1].lots, f[n + 1].trades)
    OBVIOUS
  <2>2. n \in 0..N /\ n + 1 \in 1..N /\ (n + 1) - 1 = n
    BY <1>2, <2>1
  <2>3. PICK fill \in Fills(Int) : fill = fills[n + 1]
    BY <1>3, <2>2
  <2>4. f[n] \in FillBooks(Int) /\ f[n + 1] = PairFill(f[n], fill)
    BY <1>2, <1>4, <2>2, <2>3 DEF PairsUp
  <2>5. Orderly(KnownBy(n), Later(n), f[n].lots, f[n].trades)
    BY <1>6, <2>2
  <2>6. /\ Later(n + 1) \subseteq Later(n) /\ Later(n) \subseteq Int /\ fill.at \in Later(n)
    <3>1. \A m \in ((n + 1) + 1)..N : m \in (n + 1)..N
      BY <1>2, <2>2
    <3>2. \A m \in (n + 1)..N : m \in 1..N
      BY <1>2, <2>2
    <3>3. n + 1 \in (n + 1)..N
      BY <1>2, <2>2
    <3>4. Later(n + 1) \subseteq Later(n)
      BY <3>1
    <3>5. Later(n) \subseteq Int
      BY <1>3, <3>2
    <3>6. fill.at \in Later(n)
      BY <2>3, <3>3
    <3>. QED  BY <3>4, <3>5, <3>6
  <2>7. fill.id \notin KnownBy(n)
    BY <1>2, <2>2, <2>3
  <2>8. \A a \in Later(n + 1) : fill.at <= a
    BY <1>2, <2>2, <2>3
  <2>9. KnownBy(n + 1) = KnownBy(n) \cup {fill.id}
    BY <2>2, <2>3
  <2> HIDE DEF Later
  <2>10. Orderly(KnownBy(n) \cup {fill.id}, Later(n + 1), PairFill(f[n], fill).lots,
                 PairFill(f[n], fill).trades)
    BY <2>4, <2>5, <2>6, <2>7, <2>8, PairFillInOrder
  <2>. QED  BY <2>4, <2>9, <2>10
<1>7. Orderly(KnownBy(N), Later(N), f[N].lots, f[N].trades)
  <2> HIDE DEF G, Later
  <2>1. Nat \subseteq G
    BY <1>5, <1>6, AllNat
  <2>2. N \in G /\ N \in 0..N
    BY <2>1
  <2>. QED  BY <2>2 DEF G
<1>8. Ranked(Paired(fills).trades)
  BY <1>2, <1>4, <1>7 DEF Orderly, PairsUp
<1>. QED
  BY <1>8 DEF InOrder, Ranked
=============================================================================

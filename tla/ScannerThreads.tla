--------------------------- MODULE ScannerThreads ---------------------------
(***************************************************************************)
(* StrategyScannerService: how the scanner thread of one market is started *)
(* and stopped. start_market and stop_market may be called by any thread,  *)
(* any number of times; the service's lock makes each of them, and the     *)
(* clean-up at the end of a loop, one step. A thread is not told apart     *)
(* from the stop event it was created with.                                *)
(*                                                                         *)
(* What the thread does in a scan is module TradingSession, which relies   *)
(* on what is shown here: there is one loop for the market. The names of   *)
(* this specification are its own: the two are reasoned about in one place.*)
(***************************************************************************)
CONSTANT LoopThreads   \* the threads that may ever be created for the market

VARIABLES
  pc,           \* where each thread is
  threads,      \* _threads: empty, or the market's thread
  stop_events,  \* _stop_events: empty, or the thread whose event is kept
  asked,        \* threads whose stop event is set
  shown,        \* scanner_running of the activity shown to the operator
  configured    \* the market has an entry in workers

loopVars == <<pc, threads, stop_events, asked, shown, configured>>

\* A thread is created (boot), goes round its loop (check, scan, wait), leaves
\* it, and is still alive for a moment after it has cleaned up (ending).
Looping == {"boot", "check", "scan", "wait", "leave"}
Alive   == Looping \cup {"ending"}

LoopInit ==
  /\ pc = [t \in LoopThreads |-> "unborn"]
  /\ threads = {} /\ stop_events = {} /\ asked = {}
  /\ shown = FALSE /\ configured = TRUE

Create(t) ==
  /\ pc[t] = "unborn"
  /\ pc' = [pc EXCEPT ![t] = "boot"]
  /\ stop_events' = {t}

\* Broken variants: a thread that is on its way out is replaced at once; the
\* new thread is kept beside the old one.
StartOverStopping ==
  /\ shown' = TRUE
  /\ \/ /\ \E t \in threads : pc[t] \in Alive /\ t \notin asked
        /\ UNCHANGED <<pc, threads, stop_events>>
     \/ /\ \A t \in threads : pc[t] \in Alive => t \in asked
        /\ \E t \in LoopThreads : Create(t) /\ threads' = {t}
  /\ UNCHANGED <<asked, configured>>

StartBeside ==
  /\ shown' = TRUE
  /\ \E t \in LoopThreads : Create(t) /\ threads' = threads \cup {t}
  /\ UNCHANGED <<asked, configured>>

\* start_market: a thread that is alive is kept, whether or not it has been
\* asked to stop.
StartMarket ==
  /\ shown' = TRUE
  /\ \/ /\ \E t \in threads : pc[t] \in Alive
        /\ UNCHANGED <<pc, threads, stop_events>>
     \/ /\ \A t \in threads : pc[t] \notin Alive
        /\ \E t \in LoopThreads : Create(t) /\ threads' = {t}
  /\ UNCHANGED <<asked, configured>>

\* Broken variant: only the display is told.
StopSilently ==
  /\ shown' = FALSE
  /\ UNCHANGED <<pc, threads, stop_events, asked, configured>>

\* stop_market: up to 1.5 s of join follow, which change nothing.
StopMarket ==
  /\ asked' = asked \cup stop_events
  /\ shown' = FALSE
  /\ UNCHANGED <<pc, threads, stop_events, configured>>

\* stop_all visits the markets that have a worker at that moment.
StopAll == configured /\ StopMarket

\* refresh_configured_workers empties the shared dict, then fills it again.
ClearWorkers ==
  /\ configured /\ configured' = FALSE
  /\ UNCHANGED <<pc, threads, stop_events, asked, shown>>

UpdateWorkers ==
  /\ ~configured /\ configured' = TRUE
  /\ UNCHANGED <<pc, threads, stop_events, asked, shown>>

\* The first line of _run_market_loop is outside its try: without a worker the
\* thread dies and stays in _threads.
Boot(t) ==
  /\ pc[t] = "boot"
  /\ pc' = [pc EXCEPT ![t] = IF configured THEN "check" ELSE "dead"]
  /\ UNCHANGED <<threads, stop_events, asked, shown, configured>>

\* Broken variant: the loop does not look at its stop event.
CheckNothing(t) ==
  /\ pc[t] = "check"
  /\ pc' = [pc EXCEPT ![t] = "scan"]
  /\ UNCHANGED <<threads, stop_events, asked, shown, configured>>

CheckStop(t) ==
  /\ pc[t] = "check"
  /\ pc' = [pc EXCEPT ![t] = IF t \in asked THEN "leave" ELSE "scan"]
  /\ UNCHANGED <<threads, stop_events, asked, shown, configured>>

\* However a scan ends, it reports the scanner as running.
ScanOnce(t) ==
  /\ pc[t] = "scan"
  /\ pc' = [pc EXCEPT ![t] = "wait"]
  /\ shown' = TRUE
  /\ UNCHANGED <<threads, stop_events, asked, configured>>

Wait(t) ==
  /\ pc[t] = "wait"
  /\ pc' = [pc EXCEPT ![t] = "check"]
  /\ UNCHANGED <<threads, stop_events, asked, shown, configured>>

\* The market's entries are removed by key, whosever they are.
Leave(t) ==
  /\ pc[t] = "leave"
  /\ pc' = [pc EXCEPT ![t] = "ending"]
  /\ threads' = {} /\ stop_events' = {}
  /\ UNCHANGED <<asked, shown, configured>>

End(t) ==
  /\ pc[t] = "ending"
  /\ pc' = [pc EXCEPT ![t] = "dead"]
  /\ UNCHANGED <<threads, stop_events, asked, shown, configured>>

Step(t) == Boot(t) \/ CheckStop(t) \/ ScanOnce(t) \/ Wait(t) \/ Leave(t) \/ End(t)

LoopNext ==
  \/ StartMarket \/ StopMarket \/ StopAll
  \/ ClearWorkers \/ UpdateWorkers
  \/ \E t \in LoopThreads : Step(t)

LoopSpec == LoopInit /\ [][LoopNext]_loopVars

FairLoopSpec == LoopSpec /\ \A t \in LoopThreads : WF_loopVars(Step(t))

-----------------------------------------------------------------------------
(* Properties *)

\* Types: one thread and one stop event at most are kept for a market.
LoopsTyped ==
  /\ pc \in [LoopThreads -> Alive \cup {"unborn", "dead"}]
  /\ threads \in {{}} \cup {{t} : t \in LoopThreads}
  /\ stop_events \in {{}} \cup {{t} : t \in LoopThreads}
  /\ asked \subseteq LoopThreads
  /\ shown \in BOOLEAN
  /\ configured \in BOOLEAN

\* A thread that is in its loop is the one kept in _threads, with its own stop
\* event: two loops never trade the same market, and stop_market always
\* reaches the one there is. The clean-up of an old loop, which removes by key,
\* never removes the entries of a newer one.
LoopsAreRegistered ==
  \A t \in LoopThreads : pc[t] \in Looping => threads = {t} /\ stop_events = {t}

\* A loop nobody has asked to stop is shown to the operator as running.
LoopsAreShown ==
  \A t \in LoopThreads : pc[t] \in Looping /\ t \notin asked => shown

\* A thread that is asked to stop ends, whatever is started or stopped
\* meanwhile: it finishes its scan, wakes from its wait and leaves the loop.
StopIsFollowed ==
  \A t \in LoopThreads : t \in asked ~> pc[t] = "dead"
=============================================================================

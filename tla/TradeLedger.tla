----------------------------- MODULE TradeLedger -----------------------------
(***************************************************************************)
(* Who writes down a trade, and where. A market's positions and closed     *)
(* trades live at the broker; the portfolio store keeps a copy with every  *)
(* closed trade seen so far; the operator-state file keeps the thesis of   *)
(* each open position and files it under the trade that closed the         *)
(* position. The scanner thread and the requests of the operator (close a  *)
(* position, fetch the trade history) read and write all three, and every  *)
(* write of the store or the file is a load of the whole followed by a     *)
(* save of the whole, without a lock.                                      *)
(***************************************************************************)
EXTENDS PortfolioMerge, Brokers, FiniteSets

CONSTANTS
    Symbols,
    Scanner,        \* the scanner thread of the market
    Requesters,     \* the threads of the API's pool
    Brokers,        \* what the broker at hand does, see BrokerType in Brokers
    Lot,            \* the quantity of an entry order
    MaxOrders,      \* bound on the scanner's orders, for each broker
    MaxRequests, MaxFaults   \* bounds

Threads == Requesters \cup {Scanner}

ASSUME LedgerAssumption ==
    /\ Scanner \notin Requesters
    /\ Brokers \subseteq BrokerType
    /\ \A b \in Brokers : MaxOrders[b] \in Nat
    /\ {Lot, MaxRequests, MaxFaults} \subseteq Nat

\* A broker that reports its trades is an object of the process and fills at
\* once; behind the API, it is one that only closes positions and keeps no history
\* for the asking (MockBrokerAdapter).
ASSUME ReportersAssumption ==
    \A b \in Brokers : b.reports =>
        ~b.live /\ b.fillsAtOnce /\ (b.served => b.clips /\ ~b.opens /\ ~b.history)

\* Of the brokers behind the API, those that fill at once do not let a close open
\* a position the other way: a close that fills has closed a trade.
ASSUME ClosesAssumption ==
    \A b \in Brokers : b.served /\ b.fillsAtOnce => b.clips \/ b.clipsManual

VARIABLES
    broker,     \* the traits of the broker
    held,       \* its position in each symbol
    working,    \* what accepted orders will still do to it
    trades,     \* the trades it has closed, oldest first
    stored,     \* the portfolio store: positions, closed trades, fresh or not
    file,       \* the operator state, or Torn
    memory,     \* _selected_theses of the scanner
    thread,     \* where each thread is, see Resting
    orders,     \* the number of orders the scanner has sent
    requests, faults,
    overlapped, orphaned    \* history, see Undisturbed

vars == <<broker, held, working, trades, stored, file, memory, thread, orders,
          requests, faults, overlapped, orphaned>>

-----------------------------------------------------------------------------
(* Theses, the file and what its mutators make of a loaded copy.           *)

None == [id |-> 0, out |-> 0, filed |-> 0, since |-> 0]
Torn == [torn |-> TRUE]

\* The youngest trade's time, 0 before the first.
Clock == IF trades = <<>> THEN 0 ELSE Last(trades).at

OldThesis == [id |-> -1, out |-> 0, filed |-> 0, since |-> 0]
NewThesis == [id |-> orders + 1, out |-> 0, filed |-> 0, since |-> Clock + 1]

Upserted(copy, sym, thesis) == [copy EXCEPT !.active[sym] = thesis]
Removed(copy, sym) == [copy EXCEPT !.active[sym] = None]

\* A trade's entry is replaced, never doubled.
Archived(copy, sym, trade, thesis, state) ==
    [copy EXCEPT !.closed = {e \in @ : e.trade # trade.id}
        \cup {[trade |-> trade.id, sym |-> sym, at |-> trade.at, thesis |-> thesis,
               state |-> state]}]

IsFiled(copy, trade) == \E e \in copy.closed : e.trade = trade.id

\* The thesis to save keeps the count of archived scale-outs of the file.
Counted(copy, sym, thesis) ==
    IF copy.active[sym].filed > thesis.filed
    THEN [thesis EXCEPT !.filed = copy.active[sym].filed] ELSE thesis

\* What a write makes of the copy that was loaded for it.
Written(job, copy) ==
    CASE job.do = "upsert"  -> Upserted(copy, job.sym, job.thesis)
      [] job.do = "count"   -> Upserted(copy, job.sym, Counted(copy, job.sym, job.thesis))
      [] job.do = "remove"  -> Removed(copy, job.sym)
      [] job.do = "archive" -> Archived(copy, job.sym, job.trade, job.thesis, job.state)
      [] job.do \in {"touch", "change"} -> copy
      [] job.do = "store"   -> [job.view EXCEPT !.trades = Merge(copy.trades, @),
                                                !.fresh = @ \/ stored.fresh]

ToUpsert(sym, thesis) == [do |-> "upsert", sym |-> sym, thesis |-> thesis]
ToCount(sym, thesis) == [do |-> "count", sym |-> sym, thesis |-> thesis]
ToRemove(sym) == [do |-> "remove", sym |-> sym]
ToArchive(sym, trade, thesis, state) ==
    [do |-> "archive", sym |-> sym, trade |-> trade, thesis |-> thesis, state |-> state]
ToTouch(sym) == [do |-> "touch", sym |-> sym]
ToChange == [do |-> "change"]
ToStore(view) == [do |-> "store", view |-> view]

-----------------------------------------------------------------------------
(* The broker.                                                             *)

Sign(n) == CASE n > 0 -> 1 [] n < 0 -> -1 [] OTHER -> 0
Abs(n) == IF n < 0 THEN -n ELSE n
Smaller(a, b) == IF a < b THEN a ELSE b

Reduces(sym, delta) == held[sym] * delta < 0

\* Broken variant: the journal's orders are sent like any other.
AllowedWithoutReduceOnly(sym, delta, manual) ==
    IF broker.clips THEN -Sign(held[sym]) * Smaller(Abs(held[sym]), Abs(delta)) ELSE delta

\* How much of an order the broker executes. An order that may only reduce
\* and finds nothing to reduce does nothing.
Allowed(sym, delta, manual) ==
    IF broker.clips \/ (manual /\ broker.clipsManual)
    THEN CASE Reduces(sym, delta) -> -Sign(held[sym]) * Smaller(Abs(held[sym]), Abs(delta))
           [] broker.opens /\ ~manual -> delta
           [] OTHER -> 0
    ELSE delta

\* The trade that a reduction closes.
Closing(sym, delta) ==
    [id |-> Len(trades) + 1, deal |-> <<sym, Sign(held[sym]) * Smaller(Abs(held[sym]), Abs(delta))>>,
     opened |-> Clock, at |-> Clock + broker.pace, fee |-> 1]

Execute(sym, delta) ==
    /\ held' = [held EXCEPT ![sym] = @ + delta]
    /\ IF Reduces(sym, delta)
       THEN trades' = Append(trades, Closing(sym, delta))
       ELSE UNCHANGED trades

\* Submission: executed at once, accepted for later, or of no effect.
Submit(sym, delta, manual) ==
    LET does == Allowed(sym, delta, manual)
    IN  IF broker.fillsAtOnce
        THEN Execute(sym, does) /\ UNCHANGED working
        ELSE /\ working[sym] = 0
             /\ working' = [working EXCEPT ![sym] = does]
             /\ UNCHANGED <<held, trades>>

\* A trade takes a position that no thesis is written down for.
Orphans(sym) == trades' # trades /\ (file = Torn \/ file.active[sym] = None)

\* An accepted order is executed.
Fill(sym) ==
    /\ working[sym] # 0
    /\ Execute(sym, working[sym])
    /\ working' = [working EXCEPT ![sym] = 0]
    /\ orphaned' = (orphaned \/ Orphans(sym))
    /\ UNCHANGED <<broker, stored, file, memory, thread, orders, requests, faults, overlapped>>

\* What a reconciliation returns.
Reconciled == [pos |-> held, trades |-> IF broker.reports THEN trades ELSE <<>>, fresh |-> TRUE]

-----------------------------------------------------------------------------
(* Threads. at: the place in the code. jobs: the writes it has begun, one  *)
(* load and one save each. copy: what the load of the first returned.      *)
(* view: the portfolio it works on. left: the trades it has yet to look    *)
(* at. active: the theses it has listed. order: symbol, thesis and         *)
(* transition of the order it has sent.                                    *)

NoOrder == [sym |-> None, thesis |-> None, delta |-> 0]
NoView == [pos |-> [s \in Symbols |-> 0], trades |-> <<>>, fresh |-> TRUE]

Resting == [at |-> "rest", jobs |-> <<>>, copy |-> None, view |-> NoView, left |-> <<>>,
            active |-> [s \in Symbols |-> None], order |-> NoOrder, phase |-> "none"]

At(t, place) == thread[t].at = place /\ thread[t].jobs = <<>>

Moves(t, changes) == thread' = [thread EXCEPT ![t] = changes]

Busy(t) == thread[t] # Resting

Alongside(t) == \E u \in Threads \ {t} : Busy(u)

\* The start of a scan or of a request.
Begins(t) ==
    /\ thread[t] = Resting
    /\ overlapped' = (overlapped \/ Alongside(t))

UnchangedByThreads == UNCHANGED <<broker, requests, faults, overlapped>>

\* A broker that does not answer, or a crash. Brokers that are objects of the
\* process answer always, and end with it: what is modelled of them is one life
\* of the process.
Fault ==
    /\ broker.live
    /\ faults < MaxFaults
    /\ faults' = faults + 1

\* A write is a load of the store or the file...
Load(t) ==
    LET job == Head(thread[t].jobs)
    IN  /\ thread[t].jobs # <<>>
        /\ thread[t].copy = None
        /\ IF job.do # "store" /\ file = Torn
           THEN Moves(t, Resting)      \* json.loads raises
           ELSE IF job.do = "touch" /\ file.active[job.sym] = None
           THEN Moves(t, [thread[t] EXCEPT !.jobs = Tail(@)])
           ELSE Moves(t, [thread[t] EXCEPT !.copy = IF job.do = "store" THEN stored ELSE file])
        /\ UNCHANGED <<held, working, trades, stored, file, memory, orders, orphaned>>
        /\ UnchangedByThreads

\* ... and a save.
Save(t) ==
    LET job == Head(thread[t].jobs)
        rest == [thread[t] EXCEPT !.jobs = Tail(@), !.copy = None]
    IN  /\ thread[t].jobs # <<>>
        /\ thread[t].copy # None
        /\ IF job.do = "store"
           THEN stored' = Written(job, thread[t].copy) /\ UNCHANGED file
           ELSE file' = Written(job, thread[t].copy) /\ UNCHANGED stored
        /\ Moves(t, IF rest.jobs = <<>> /\ rest.at = "rest" THEN Resting ELSE rest)
        /\ UNCHANGED <<held, working, trades, memory, orders, orphaned>>
        /\ UnchangedByThreads

-----------------------------------------------------------------------------
(* The scanner: save the portfolio, bring the theses in line with it,      *)
(* decide, and after an order the same again.                              *)

Me == thread[Scanner]

\* The thesis a position is judged by: memory first.
Selected(sym) ==
    IF memory[sym] # None THEN memory[sym]
    ELSE IF file = Torn THEN None ELSE file.active[sym]

\* Broken variant: a stored portfolio is used whatever its age.
BeginScanOnStored ==
    /\ Begins(Scanner)
    /\ Moves(Scanner, [Resting EXCEPT !.at = "list", !.phase = "before",
                                      !.view = stored,
                                      !.jobs = <<ToStore([stored EXCEPT !.fresh = FALSE])>>])
    /\ UNCHANGED <<held, working, trades, stored, file, memory, orders, orphaned>>
    /\ UNCHANGED <<broker, requests, faults>>

BeginScan ==
    /\ Begins(Scanner)
    /\ LET view == IF stored.fresh THEN [stored EXCEPT !.fresh = FALSE] ELSE Reconciled
       IN  Moves(Scanner, [Resting EXCEPT !.at = "list", !.phase = "before",
                                         !.view = view, !.jobs = <<ToStore(view)>>])
    /\ UNCHANGED <<held, working, trades, stored, file, memory, orders, orphaned>>
    /\ UNCHANGED <<broker, requests, faults>>

\* The persisted theses are listed once, at the start of the synchronisation.
ListTheses ==
    /\ At(Scanner, "list")
    /\ IF file = Torn THEN Moves(Scanner, Resting)
       ELSE Moves(Scanner, [Me EXCEPT !.at = "scale-outs", !.active = file.active,
                                      !.left = NewestFirst(Me.view.trades)])
    /\ UNCHANGED <<held, working, trades, stored, file, memory, orders, orphaned>>
    /\ UnchangedByThreads

Symbol(trade) == trade.deal[1]

Known(sym) == IF Me.active[sym] # None THEN Me.active[sym] ELSE memory[sym]

\* Broken variant: every trade of a symbol that is still held is one more
\* scale-out.
IsScaleOutUncounted(trade) ==
    LET thesis == Known(Symbol(trade))
    IN  /\ ~IsFiled(file, trade)
        /\ Me.view.pos[Symbol(trade)] # 0
        /\ thesis # None
        /\ trade.at >= thesis.since

\* The trade is a scale-out of the position that is still held, and one that
\* has not been filed.
IsScaleOut(trade) ==
    LET thesis == Known(Symbol(trade))
    IN  /\ ~IsFiled(file, trade)
        /\ Me.view.pos[Symbol(trade)] # 0
        /\ thesis # None
        /\ trade.at >= thesis.since
        /\ thesis.out > thesis.filed

\* The next trade to look at, newest first.
FileScaleOut ==
    /\ At(Scanner, "scale-outs")
    /\ Me.left # <<>>
    /\ LET trade == Head(Me.left)
           sym == Symbol(trade)
           next == [Known(sym) EXCEPT !.filed = @ + 1]
       IN  IF file = Torn THEN Moves(Scanner, Resting) /\ UNCHANGED memory
           ELSE IF IsScaleOut(trade)
           THEN /\ memory' = [memory EXCEPT ![sym] = next]
                /\ Moves(Scanner, [Me EXCEPT !.left = Tail(@), !.active[sym] = next,
                       !.jobs = <<ToArchive(sym, trade, Known(sym), "scaled-out"), ToUpsert(sym, next)>>])
           ELSE Moves(Scanner, [Me EXCEPT !.left = Tail(@)]) /\ UNCHANGED memory
    /\ UNCHANGED <<held, working, trades, stored, file, orders, orphaned>>
    /\ UnchangedByThreads

Stale == {s \in Symbols : Me.view.pos[s] = 0 /\ Known(s) # None}

\* Broken variant: trades that have been filed may be used again.
CandidatesAgain(sym) ==
    {i \in DOMAIN Me.view.trades : Symbol(Me.view.trades[i]) = sym}

\* The trades a thesis without a position may have been closed by.
Candidates(sym) ==
    {i \in DOMAIN Me.view.trades : /\ Symbol(Me.view.trades[i]) = sym
                                   /\ ~IsFiled(file, Me.view.trades[i])}

\* Broken variant: the first.
FirstOf(indices) == CHOOSE i \in indices : \A j \in indices : i <= j

\* The last of them in the list closed it, in whichever order the list is.
LastOf(indices) == CHOOSE i \in indices : \A j \in indices : j <= i

\* Broken variant: a thesis without a position is filed and kept.
FilingOnly(sym) ==
    IF Candidates(sym) = {} THEN <<>>
    ELSE <<ToArchive(sym, Me.view.trades[LastOf(Candidates(sym))], Known(sym), "closed")>>

Filing(sym) ==
    IF Candidates(sym) = {} THEN <<ToRemove(sym)>>
    ELSE <<ToArchive(sym, Me.view.trades[LastOf(Candidates(sym))], Known(sym), "closed"), ToRemove(sym)>>

\* A thesis whose position is gone is filed, removed and forgotten.
DropStale ==
    /\ At(Scanner, "scale-outs")
    /\ Me.left = <<>>
    /\ IF file = Torn
       THEN Moves(Scanner, Resting) /\ UNCHANGED memory
       ELSE \E sym \in Stale :
            /\ memory' = [memory EXCEPT ![sym] = None]
            /\ Moves(Scanner, [Me EXCEPT !.active[sym] = None, !.jobs = Filing(sym)])
    /\ UNCHANGED <<held, working, trades, stored, file, orders, orphaned>>
    /\ UnchangedByThreads

\* All theses are in line. After an order, that of the order is written again
\* if its position is there.
Synchronised ==
    /\ At(Scanner, "scale-outs")
    /\ Me.left = <<>>
    /\ Stale = {}
    /\ LET sym == Me.order.sym
       IN  IF Me.phase = "before"
           THEN Moves(Scanner, [Me EXCEPT !.at = "decide"]) /\ UNCHANGED memory
           ELSE IF Me.view.pos[sym] # 0 /\ file # Torn
           THEN /\ memory' = [memory EXCEPT ![sym] = Counted(file, sym, Me.order.thesis)]
                /\ Moves(Scanner, [Resting EXCEPT
                       !.jobs = <<ToUpsert(sym, Counted(file, sym, Me.order.thesis))>>])
           ELSE Moves(Scanner, Resting) /\ UNCHANGED memory
    /\ UNCHANGED <<held, working, trades, stored, file, orders, orphaned>>
    /\ UnchangedByThreads

\* No order, or one that is refused before it is sent.
Hold ==
    /\ At(Scanner, "decide")
    /\ Moves(Scanner, Resting)
    /\ UNCHANGED <<held, working, trades, stored, file, memory, orders, orphaned>>
    /\ UnchangedByThreads

\* A trailing stop moves: the thesis is written from memory.
MoveStop(sym) ==
    /\ At(Scanner, "decide")
    /\ Me.view.pos[sym] # 0
    /\ Selected(sym) # None
    /\ memory' = [memory EXCEPT ![sym] = Selected(sym)]
    /\ Moves(Scanner, [Resting EXCEPT !.jobs = <<ToUpsert(sym, Selected(sym))>>])
    /\ UNCHANGED <<held, working, trades, stored, file, orders, orphaned>>
    /\ UnchangedByThreads

Order(sym, delta, thesis) ==
    /\ At(Scanner, "decide")
    /\ orders < MaxOrders[broker]
    /\ orders' = orders + 1
    /\ Submit(sym, delta, FALSE)
    /\ orphaned' = (orphaned \/ Orphans(sym))
    /\ Moves(Scanner, [Me EXCEPT !.at = "sent", !.phase = "after",
                                 !.order = [sym |-> sym, thesis |-> thesis, delta |-> delta]])
    /\ UNCHANGED <<stored, file, memory>>
    /\ UnchangedByThreads

\* An entry, or a signal against the position: the plan is a new one.
Signal(sym) ==
    Order(sym, IF Me.view.pos[sym] = 0 THEN Lot ELSE -Me.view.pos[sym], NewThesis)

Exit(sym) ==
    /\ Selected(sym) # None
    /\ Me.view.pos[sym] # 0
    /\ Order(sym, -Me.view.pos[sym], Selected(sym))

ScaleOut(sym) ==
    /\ Selected(sym) # None
    /\ Abs(Me.view.pos[sym]) > 1
    /\ Order(sym, -Sign(Me.view.pos[sym]), [Selected(sym) EXCEPT !.out = @ + 1])

\* The broker raised after it had taken the order: it is reported as rejected.
Lose ==
    /\ At(Scanner, "sent")
    /\ Fault
    /\ Moves(Scanner, Resting)
    /\ UNCHANGED <<held, working, trades, stored, file, memory, orders, orphaned>>
    /\ UNCHANGED <<broker, requests, overlapped>>

Record ==
    /\ At(Scanner, "sent")
    /\ LET sym == Me.order.sym
       IN  Moves(Scanner, [Me EXCEPT !.at = "list", !.view = Reconciled,
              !.jobs = <<ToStore(Reconciled), ToTouch(sym), ToCount(sym, Me.order.thesis)>>])
    /\ UNCHANGED <<held, working, trades, stored, file, memory, orders, orphaned>>
    /\ UnchangedByThreads

Scan ==
    \/ BeginScan \/ ListTheses \/ FileScaleOut \/ DropStale \/ Synchronised
    \/ Hold \/ Lose \/ Record
    \/ \E sym \in Symbols : MoveStop(sym) \/ Signal(sym) \/ Exit(sym) \/ ScaleOut(sym)

-----------------------------------------------------------------------------
(* The operator's requests.                                                *)

Request(t) ==
    /\ t \in Requesters
    /\ broker.served
    /\ requests < MaxRequests
    /\ requests' = requests + 1
    /\ Begins(t)

\* Close a position: an order for what the stored portfolio holds.
ClosePosition(t, sym) ==
    /\ Request(t)
    /\ stored.pos[sym] # 0
    /\ Submit(sym, -stored.pos[sym], TRUE)
    /\ orphaned' = (orphaned \/ Orphans(sym))
    /\ Moves(t, IF broker.fillsAtOnce /\ held'[sym] # held[sym]
                THEN [Resting EXCEPT !.at = "closed", !.order = [sym |-> sym, thesis |-> None,
                                                               delta |-> stored.pos[sym]]]
                ELSE Resting)           \* it did not fill: an error
    /\ UNCHANGED <<broker, stored, file, memory, orders, faults>>

\* The trade the close is filed under: the last one of the symbol, or one made
\* up from the order.
MadeUp(sym, quantity) ==
    [id |-> -Len(trades), deal |-> <<sym, quantity>>, opened |-> Clock, at |-> Clock, fee |-> 0]

Ours(sym) == {i \in DOMAIN Reconciled.trades : Symbol(Reconciled.trades[i]) = sym}

RecordClose(t) ==
    /\ At(t, "closed")
    /\ LET sym == thread[t].order.sym
           made == MadeUp(sym, thread[t].order.delta)
           view == IF Ours(sym) # {} THEN Reconciled
                   ELSE [Reconciled EXCEPT !.trades = Append(@, made)]
           trade == IF Ours(sym) # {} THEN Reconciled.trades[LastOf(Ours(sym))] ELSE made
       IN  Moves(t, [thread[t] EXCEPT !.at = "file", !.left = <<trade>>,
                                      !.jobs = <<ToStore(view)>>])
    /\ UNCHANGED <<held, working, trades, stored, file, memory, orders, orphaned>>
    /\ UnchangedByThreads

FileClose(t) ==
    /\ At(t, "file")
    /\ LET sym == thread[t].order.sym
       IN  Moves(t, IF file = Torn \/ file.active[sym] = None THEN Resting
                   ELSE [Resting EXCEPT !.jobs =
                          <<ToArchive(sym, thread[t].left[1], file.active[sym], "manual-closed"),
                            ToRemove(sym)>>])
    /\ UNCHANGED <<held, working, trades, stored, file, memory, orders, orphaned>>
    /\ UnchangedByThreads

\* Fetch the trade history.
Backfill(t) ==
    /\ Request(t)
    /\ broker.history
    /\ LET view == [pos |-> held, trades |-> NewestFirst(trades), fresh |-> TRUE]
       IN  Moves(t, [Resting EXCEPT !.at = "merged", !.jobs = <<ToStore(view)>>])
    /\ UNCHANGED <<broker, held, working, trades, stored, file, memory, orders, faults, orphaned>>

ListBackfilled(t) ==
    /\ At(t, "merged")
    /\ Moves(t, IF file = Torn THEN Resting
                ELSE [thread[t] EXCEPT !.at = "recover", !.view = stored, !.active = file.active,
                                       !.left = NewestFirst(stored.trades)])
    /\ UNCHANGED <<held, working, trades, stored, file, memory, orders, orphaned>>
    /\ UnchangedByThreads

\* A thesis whose position is gone is filed under the newest trade it can be.
Recover(t) ==
    /\ At(t, "recover")
    /\ LET trade == Head(thread[t].left)
           sym == Symbol(trade)
           thesis == thread[t].active[sym]
       IN  IF thread[t].left = <<>> \/ file = Torn THEN Moves(t, Resting)
           ELSE IF IsFiled(file, trade) \/ thread[t].view.pos[sym] # 0 \/ thesis = None
           THEN Moves(t, [thread[t] EXCEPT !.left = Tail(@)])
           ELSE Moves(t, [thread[t] EXCEPT !.left = Tail(@), !.active[sym] = None,
                  !.jobs = <<ToArchive(sym, trade, thesis, "recovered-closed"), ToRemove(sym)>>])
    /\ UNCHANGED <<held, working, trades, stored, file, memory, orders, orphaned>>
    /\ UnchangedByThreads

\* Clear the history from view, which like a new password or another strategy
\* is a change of the file beside the theses.
ChangeState(t) ==
    /\ Request(t)
    /\ Moves(t, [Resting EXCEPT !.jobs = <<ToChange>>])
    /\ UNCHANGED <<broker, held, working, trades, stored, file, memory, orders, faults, orphaned>>

\* The broker fails to answer a request that waits for it.
RequestFails(t) ==
    /\ t \in Requesters
    /\ At(t, "closed")
    /\ Fault
    /\ Moves(t, Resting)
    /\ UNCHANGED <<held, working, trades, stored, file, memory, orders, orphaned>>
    /\ UNCHANGED <<broker, requests, overlapped>>

Handle(t) ==
    \/ RecordClose(t) \/ FileClose(t) \/ ListBackfilled(t) \/ Recover(t)
    \/ RequestFails(t)

-----------------------------------------------------------------------------
(* Time, faults and the whole.                                            *)

\* The stored portfolio grows older than snapshot_ttl_seconds.
Age ==
    /\ stored.fresh
    /\ stored' = [stored EXCEPT !.fresh = FALSE]
    /\ UNCHANGED <<broker, held, working, trades, file, memory, thread, orders, requests,
                   faults, overlapped, orphaned>>

\* The process ends and is started again. A save of the operator state that it
\* was in the middle of may leave half a document; the portfolio store is
\* replaced as a whole.
InSave(t) == thread[t].copy # None /\ Head(thread[t].jobs).do # "store"

Crash ==
    /\ Fault
    /\ thread' = [t \in Threads |-> Resting]
    /\ memory' = [s \in Symbols |-> None]
    /\ \/ UNCHANGED file
       \/ (\E t \in Threads : InSave(t)) /\ file' = Torn
    /\ UNCHANGED <<broker, held, working, trades, stored, orders, requests, overlapped, orphaned>>

Init ==
    /\ broker \in Brokers
    /\ held \in [Symbols -> {0, Lot}]
    /\ working = [s \in Symbols |-> 0]
    /\ trades = <<>>
    /\ stored = [pos |-> [s \in Symbols |-> 0], trades |-> <<>>, fresh |-> FALSE]
    /\ file = [active |-> [s \in Symbols |-> IF held[s] = 0 THEN None ELSE OldThesis],
               closed |-> {}]
    /\ memory = [s \in Symbols |-> None]
    /\ thread = [t \in Threads |-> Resting]
    /\ orders = 0
    /\ requests = 0
    /\ faults = 0
    /\ overlapped = FALSE
    /\ orphaned = FALSE

Write(t) == Load(t) \/ Save(t)

Next ==
    \/ Scan \/ Write(Scanner)
    \/ \E t \in Requesters : Handle(t) \/ Write(t) \/ Backfill(t) \/ ChangeState(t)
    \/ \E t \in Requesters, s \in Symbols : ClosePosition(t, s)
    \/ \E s \in Symbols : Fill(s)
    \/ Age \/ Crash

Fairness ==
    /\ WF_vars(Scan \/ Write(Scanner))
    /\ WF_vars(Age)
    /\ \A s \in Symbols : WF_vars(Fill(s))
    /\ \A t \in Requesters : WF_vars(Handle(t) \/ Write(t))

Spec == Init /\ [][Next]_vars /\ Fairness

-----------------------------------------------------------------------------
(* Properties.                                                             *)

Thesis == [id : Int, out : Nat, filed : Nat, since : Nat]

\* Types; a scale-out is filed under a thesis that has one to file, and each
\* thread is at a place of the code with writes it knows how to make.
TypeOK ==
    /\ broker \in Brokers
    /\ held \in [Symbols -> Int] /\ working \in [Symbols -> Int]
    /\ stored.pos \in [Symbols -> Int] /\ stored.fresh \in BOOLEAN
    /\ file # Torn =>
        /\ file.active \in [Symbols -> Thesis]
        /\ \A e \in file.closed : /\ e.thesis \in Thesis
                                  /\ e.state = "scaled-out" => e.thesis.filed < e.thesis.out
    /\ memory \in [Symbols -> Thesis]
    /\ \A t \in Threads :
        /\ thread[t].at \in {"rest", "list", "scale-outs", "decide", "sent", "closed", "file",
                            "merged", "recover"}
        /\ \A i \in DOMAIN thread[t].jobs : thread[t].jobs[i].do \in
             {"upsert", "count", "touch", "change", "remove", "archive", "store"}
    /\ <<orders, requests, faults>> \in Nat \X (0..MaxRequests) \X (0..MaxFaults)

\* What disturbs the books of a broker that reports its trades, each a thing the
\* code cannot tell: a request ran beside a scan or another request; a position
\* without a thesis was closed.
Undisturbed == ~overlapped /\ ~orphaned /\ file # Torn

\* The broker reports its trades and none follow each other so closely that
\* the store takes them for one.
TellsApart == broker.reports /\ broker.pace > MatchWindow

\* With a broker that reports its trades (none of the live ones does) a thesis is
\* filed as closed under one trade only (_sync_trade_thesis_state, close_position),
\* whatever the order of scale-outs, exits, entries and closes by hand. Other
\* brokers' theses may be filed under a made-up trade first.
FiledOnce ==
    Undisturbed /\ broker.reports => \A e, f \in file.closed :
        /\ e.sym = f.sym /\ e.thesis.id = f.thesis.id
        /\ "scaled-out" \notin {e.state, f.state}
        => e = f

\* The thesis that a trade has been filed with is never replaced by another's, not
\* after an order whose answer was lost, and not by what a restart makes of
\* theses that a crash left behind in the file and of trades that it left unfiled:
\* trades are looked up in the journal before they are filed, and a trade made
\* up for a close has an identifier of its own.
FiledTradesStay ==
    [][~overlapped' /\ file' # Torn =>
        \A e \in file.closed : \E f \in file'.closed :
            /\ f.trade = e.trade
            /\ f.sym = e.sym
            /\ f.thesis.id = e.thesis.id]_vars

\* When a scan comes to decide, each trade it knows has been filed with a thesis
\* that was made before the trade closed: no trade is lost between the broker and
\* the journal, and no thesis is filed under an older trade of its symbol that
\* the list still has.
TradesAreFiled ==
  Undisturbed /\ TellsApart /\ At(Scanner, "decide") =>
    \A i \in DOMAIN Me.view.trades :
      \E e \in file.closed : /\ e.trade = Me.view.trades[i].id
                            /\ e.thesis.since <= e.at

\* Closing a position by hand never opens one the other way, however stale the
\* portfolio it was sent from (close_position sends reduce_only).
ClosesNeverFlip ==
    [][requests' # requests /\ broker.clipsManual =>
        \A s \in Symbols : held[s] * held'[s] >= 0]_vars

\* Time and again there is no thesis for a position that is gone.
ThesesFollowPositions ==
    []<>(file = Torn \/ \A s \in Symbols : file.active[s] # None => held[s] # 0)

\* Time and again the portfolio store agrees with the broker on positions and,
\* if these are reported, on trades, whatever stale copy was saved over it.
StoreCatchesUp ==
    []<>(/\ stored.pos = held
         /\ broker.reports => \A i \in DOMAIN trades : \E j \in DOMAIN stored.trades :
                Match(stored.trades[j], trades[i]))
=============================================================================

----------------------------- MODULE ThesisExit -----------------------------
(***************************************************************************)
(* The life of one position under its trade thesis: the decisions of       *)
(* ScannerSymbolEvaluator._thesis_exit_result at every scan, the order     *)
(* that StrategyScannerService._scan_market makes of them, and what the    *)
(* broker and the stored copy of the portfolio say of it afterwards.       *)
(*                                                                         *)
(* Decimals are integers: a price is a natural number, a ratio is counted  *)
(* in units of 1/Scale, and a price that a ratio has been applied to       *)
(* (stop, target, trigger) in units of 1/Scale as well. 0 stands for None: *)
(* the code treats a ratio or a price of 0 alike. Quantities are rounded   *)
(* down to whole units. A price reaches the thesis only through a scan, so *)
(* the market is the price each scan sees, and for the scale-outs the      *)
(* second one that it fetches before the order goes out: the thesis books  *)
(* the first, the sale is made at the second.                              *)
(***************************************************************************)
EXTENDS Integers, Sequences

CONSTANTS Scale,    \* what a ratio of 1 is
          Prices,   \* prices a scan may see
          Plans,    \* exit plans a thesis may carry
          Margins,  \* shares of the net profit that a profile lets a price slip
          Volume    \* the quantity of an entry

VARIABLES
  plan,      \* the exit plan of the position, and its side and entry price
  kept,      \* the thesis is in the operator state
  thesis,    \* what the exits have added to it
  held,      \* what the broker holds
  known,     \* what the stored portfolio snapshot says it holds
  overdue,   \* max_hold_minutes have passed since the position was first seen
  stranded,  \* history: the last scan wanted out at the hard stop, and the
             \* program's own brake kept the order back
  sold       \* history: the quote at which the last scale-out of the position
             \* went to the broker, 0 while none has

planVars == <<plan, kept, thesis, held, known, overdue, stranded, sold>>

\* `limited` says whether there is a max_hold_minutes. `cost` is the round trip
\* cost of the market; the plan is made with it and orders are checked with it,
\* the evaluator does not read it.
PlanType ==
  [ long : BOOLEAN, entry : Nat \ {0}, hard : Nat, target : Nat, trail : Int,
    ratio : Int, ratios : Seq(Int), triggers : Seq(Int), limited : BOOLEAN,
    cost : Nat ]

ThesisType ==
  [ anchor : Prices \cup {0}, stop : Int, count : Nat,
    last : Prices \cup {0}, total : Nat ]

Fresh == [anchor |-> 0, stop |-> 0, count |-> 0, last |-> 0, total |-> 0]

-----------------------------------------------------------------------------
(* The plan as the evaluator reads it. *)

\* _normalized_trailing_ratio
Trail(p) == IF p.trail > 0 THEN p.trail ELSE 0

\* _normalized_scale_out_ratios: the proper fractions among the ratios given,
\* or the single ratio if there are none.
Stages(p) ==
  LET Proper(r) == 0 < r /\ r < Scale
      given == SelectSeq(p.ratios, Proper)
  IN IF given # <<>> THEN given
     ELSE IF Proper(p.ratio) THEN <<p.ratio>> ELSE <<>>

\* _normalized_stage_trigger_ratios: as many as there are stages, the last one
\* repeated, the trailing ratio if none is given.
Triggers(p) ==
  LET Positive(r) == r > 0
      given == SelectSeq(p.triggers, Positive)
  IN [i \in 1..Len(Stages(p)) |->
        IF given = <<>> THEN Trail(p)
        ELSE IF i <= Len(given) THEN given[i] ELSE given[Len(given)]]

\* A plan that trails has a trigger above 0 for every stage, and its stop is
\* not below 0.
ExitAssumption ==
  /\ Scale \in Nat \ {0}
  /\ Volume \in Nat \ {0}
  /\ Prices \subseteq Nat \ {0}
  /\ Plans \subseteq PlanType
  /\ Margins \subseteq 0..Scale
  /\ \A p \in Plans :
       /\ Stages(p) \in Seq(1..(Scale - 1))
       /\ Trail(p) <= Scale
       /\ Trail(p) > 0 =>
            \A i \in 1..Len(Stages(p)) : Triggers(p)[i] \in Nat \ {0}

ASSUME ExitAssumption

\* The first stage of a plan lies beyond the costs of the round trip, and these
\* are less than half of the price.
CostAssumption ==
  \A p \in Plans :
    /\ 2 * p.cost <= Scale
    /\ Trail(p) > 0 /\ Stages(p) # <<>> => Triggers(p)[1] >= p.cost

ASSUME CostAssumption

-----------------------------------------------------------------------------
(* Prices seen from the side of the position. *)

\* _favorable_move_reached, for a threshold in units of 1/Scale
Reach(price, threshold) ==
  IF plan.long THEN price * Scale >= threshold ELSE price * Scale <= threshold

\* The price is at a stop or through it.
Against(price, stop) ==
  IF plan.long THEN price * Scale <= stop ELSE price * Scale >= stop

\* _is_more_favorable_price
Better(price, other) == IF plan.long THEN price > other ELSE price < other

\* _trailing_stop_from_anchor
StopFrom(anchor) ==
  anchor * (IF plan.long THEN Scale - Trail(plan) ELSE Scale + Trail(plan))

\* Broken variant: the side of the position is not looked at.
BeyondForLongs(reference, ratio) == reference * (Scale + ratio)

\* _next_scale_out_trigger_price
Beyond(reference, ratio) ==
  reference * (IF plan.long THEN Scale + ratio ELSE Scale - ratio)

-----------------------------------------------------------------------------
(* What _thesis_exit_result decides. The cases exclude each other in the    *)
(* order of the code: a stop or a target, a scale-out, a move of the        *)
(* trailing stop, the maximal holding time.                                 *)

HardStop(price) == plan.hard # 0 /\ Against(price, plan.hard)

Triggered(price) ==
  \/ Trail(plan) > 0 /\ thesis.stop # 0 /\ Against(price, thesis.stop)
  \/ HardStop(price)
  \/ plan.target # 0 /\ Trail(plan) = 0 /\ Reach(price, plan.target)

Activation ==
  IF plan.target # 0 THEN plan.target ELSE Beyond(plan.entry, Trail(plan))

\* There is a trigger ratio for every stage that is left (Triggers), so the
\* fallbacks of the code to the activation price and to the trailing ratio do
\* not come up.
StageTrigger ==
  Beyond(IF thesis.count > 0 /\ thesis.last # 0 THEN thesis.last ELSE plan.entry,
         Triggers(plan)[thesis.count + 1])

\* _scaled_exit_quantity. A proper fraction of a position is never nothing and
\* never all of it, which is all its test asks.
Slice(quantity) == (quantity * Stages(plan)[thesis.count + 1]) \div Scale

ScaleOutDue(price) ==
  /\ ~Triggered(price)
  /\ Trail(plan) > 0
  /\ thesis.count < Len(Stages(plan))
  /\ Reach(price, StageTrigger)

\* Broken variant: every price that is not at the stop moves it.
TrailAnyway(price) ==
  /\ ~Triggered(price)
  /\ Trail(plan) > 0
  /\ ~ScaleOutDue(price)
  /\ thesis.anchor = 0 => Reach(price, Activation)

TrailDue(price) ==
  /\ ~Triggered(price)
  /\ Trail(plan) > 0
  /\ ~ScaleOutDue(price)
  /\ IF thesis.anchor = 0 THEN Reach(price, Activation)
                          ELSE Better(price, thesis.anchor)

ExitDue(price) ==
  \/ Triggered(price)
  \/ overdue /\ plan.limited /\ ~ScaleOutDue(price) /\ ~TrailDue(price)

Anchored(price) ==
  [thesis EXCEPT !.anchor = price, !.stop = StopFrom(price)]

\* Broken variant: the whole position is booked as sold.
BookedWhole(quantity, price) ==
  [ anchor |-> price, stop |-> StopFrom(price), count |-> thesis.count + 1,
    last |-> price, total |-> thesis.total + quantity ]

ScaledOut(quantity, price) ==
  [ anchor |-> price, stop |-> StopFrom(price), count |-> thesis.count + 1,
    last |-> price, total |-> thesis.total + Slice(quantity) ]

-----------------------------------------------------------------------------
(* From a decision to an order. *)

\* _adverse_execution_move_ratio: twice the costs, or the margin of the profile
\* that is selected now, which need not be the one that the plan was made under.
Tolerance(margin) ==
  IF 2 * plan.cost > margin THEN 2 * plan.cost ELSE margin

\* evaluate_execution_quality for the order that closes: a quote may be better
\* than the price decided on by any amount, and worse by the tolerance.
Acceptable(price, quote, margin) ==
  IF plan.long THEN quote * Scale >= price * (Scale - Tolerance(margin))
               ELSE quote * Scale <= price * (Scale + Tolerance(margin))

\* Broken variant: the quote is taken as it comes.
QuotesUnchecked(price) == Prices

\* The quotes at which an order decided on at `price` may go out.
Quotes(price) ==
  {quote \in Prices : \E margin \in Margins : Acceptable(price, quote, margin)}

\* Broken variant: an order larger than the position turns it around.
LeftUnchecked(amount) == held - amount

\* What the broker holds after a closing order: it fills no more than there is.
Left(amount) == IF amount < held THEN held - amount ELSE 0

\* The thesis leaves the operator state when the portfolio shows no position.
Drop == kept' = FALSE /\ thesis' = Fresh /\ overdue' = FALSE

\* The drawdown brake of evaluate_portfolio_controls: the losses realised today
\* in this market, by whatever positions, have reached their limit. Unlike its
\* other limits this one is also tested for an order that reduces a position.
Braked(view, price) ==
  /\ known' = view
  /\ stranded' = (kept /\ HardStop(price))
  /\ UNCHANGED <<plan, kept, thesis, held, overdue>>

\* No quote, or one too far from the price the decision was made at
\* (evaluate_execution_quality), or the broker turns the order down.
Rejected(view) ==
  /\ known' = view
  /\ stranded' = FALSE
  /\ UNCHANGED <<plan, kept, thesis, held, overdue>>

\* The order is filled, and the reconciliation after it raises: the scan takes
\* the order for rejected and records nothing.
Lost(view, amount) ==
  /\ held' = Left(amount)
  /\ known' = view
  /\ stranded' = FALSE
  /\ UNCHANGED <<plan, kept, thesis, overdue>>

\* The order is filled, the new portfolio saved, the thesis kept as `after` or,
\* when the position is gone, removed.
Filled(amount, after) ==
  /\ held' = Left(amount)
  /\ known' = Left(amount)
  /\ stranded' = FALSE
  /\ IF Left(amount) = 0 THEN Drop
     ELSE thesis' = after /\ UNCHANGED <<kept, overdue>>
  /\ UNCHANGED plan

Withheld(view, price) == Braked(view, price) \/ Rejected(view)

Sent(view, amount, after) == Lost(view, amount) \/ Filled(amount, after)

\* An order to close the position: at which quote it goes out changes nothing
\* that is kept here.
Order(view, price) ==
  /\ Withheld(view, price) \/ Sent(view, view, thesis)
  /\ UNCHANGED sold

\* A scan works on the stored portfolio if that is fresh enough, and otherwise
\* on what the broker says (_portfolio_snapshot_for_scan).
Views == {known, held}

-----------------------------------------------------------------------------
PlanInit ==
  /\ plan \in Plans
  /\ kept = FALSE
  /\ thesis = Fresh
  /\ held = 0
  /\ known = 0
  /\ overdue = FALSE
  /\ stranded = FALSE
  /\ sold = 0

\* A strategy enters. The symbol's cooldown outlasts the stored portfolio, so
\* no second entry is made because the first is not seen. If the reconciliation
\* is lost, the position has no thesis.
Enter(p) ==
  /\ held = 0 /\ known = 0 /\ ~kept
  /\ plan' = p
  /\ held' = Volume
  /\ \/ known' = Volume /\ kept' = TRUE
     \/ known' = 0 /\ kept' = FALSE
  /\ sold' = 0
  /\ UNCHANGED <<thesis, overdue, stranded>>

\* The portfolio shows the position gone: whoever closed it, the thesis goes.
Vanish(view) ==
  /\ view = 0
  /\ known # 0 \/ kept
  /\ known' = 0
  /\ Drop
  /\ stranded' = FALSE
  /\ UNCHANGED <<plan, held, sold>>

Exit(view, price) ==
  /\ view > 0 /\ kept
  /\ ExitDue(price)
  /\ Order(view, price)

ScaleOut(view, price) ==
  /\ view > 0 /\ kept
  /\ ScaleOutDue(price)
  /\ \/ Withheld(view, price) /\ UNCHANGED sold
     \/ /\ Sent(view, Slice(view), ScaledOut(view, price))
        /\ sold' \in Quotes(price)

MoveStop(view, price) ==
  /\ view > 0 /\ kept
  /\ TrailDue(price)
  /\ thesis' = Anchored(price)
  /\ known' = view
  /\ stranded' = FALSE
  /\ UNCHANGED <<plan, kept, held, overdue, sold>>

\* Nothing for the thesis to do, or no thesis: a strategy may see a reason to
\* close the position.
Signal(view, price) ==
  /\ view > 0
  /\ kept => ~ExitDue(price) /\ ~ScaleOutDue(price) /\ ~TrailDue(price)
  /\ Order(view, price)

Hold(view, price) ==
  /\ view > 0
  /\ kept => ~ExitDue(price) /\ ~ScaleOutDue(price) /\ ~TrailDue(price)
  /\ known' = view
  /\ stranded' = FALSE
  /\ UNCHANGED <<plan, kept, thesis, held, overdue, sold>>

\* Time passes. The operator closes the position at the broker's or in the
\* journal.
GrowOld ==
  /\ known > 0 /\ ~overdue
  /\ overdue' = TRUE
  /\ UNCHANGED <<plan, kept, thesis, held, known, stranded, sold>>

CloseElsewhere ==
  /\ held > 0
  /\ held' = 0
  /\ UNCHANGED <<plan, kept, thesis, known, overdue, stranded, sold>>

Scan(view, price) ==
  \/ Exit(view, price)
  \/ ScaleOut(view, price)
  \/ MoveStop(view, price)
  \/ Signal(view, price)
  \/ Hold(view, price)

PlanNext ==
  \/ \E p \in Plans : Enter(p)
  \/ \E view \in Views : Vanish(view) \/ \E price \in Prices : Scan(view, price)
  \/ GrowOld
  \/ CloseElsewhere

PlanSpec == PlanInit /\ [][PlanNext]_planVars

-----------------------------------------------------------------------------
(* Properties *)

TypeOK ==
  /\ plan \in Plans
  /\ kept \in BOOLEAN
  /\ thesis \in ThesisType
  /\ held \in 0..Volume
  /\ known \in 0..Volume
  /\ overdue \in BOOLEAN
  /\ stranded \in BOOLEAN
  /\ sold \in Prices \cup {0}

\* Whatever comes between, scale-outs, refused orders, orders whose answer was
\* lost, the trailing stop of a thesis only ever moves in favour of the
\* position. A scale-out sets it from the price of the moment without a look at
\* the stop there is; that this does not loosen it rests on the anchor never
\* having been beyond the trigger of a stage that is left.
StopNeverLoosens ==
  [][kept /\ kept' /\ thesis.stop # 0 =>
       /\ thesis'.stop # 0
       /\ IF plan.long THEN thesis'.stop >= thesis.stop
                       ELSE thesis'.stop <= thesis.stop]_planVars

\* What the thesis says has been scaled out has left the position, also when
\* the scan worked on an old portfolio or the answer to an earlier order was
\* lost.
LedgerNeverAhead == kept => thesis.total + held <= Volume

\* The price at which a gain covers the costs of the round trip, in whole units.
BreakEven == Beyond(plan.entry, plan.cost) \div Scale

\* Stages fire before the profit target, some of them at less than half of it:
\* yet none is decided on below the costs. What the order is then sent at may
\* be less by the tolerance of the quality check, and by no more, whatever
\* became of the stages before and whichever profile has been selected since.
ScaleOutsNearCosts ==
  sold # 0 => \E margin \in Margins : Acceptable(BreakEven, sold, margin)

\* "protect capital with a hard stop", says the plan (_exit_plan): the scanner
\* does not itself hold back the order at the hard stop.
HardStopProtects == ~stranded

=============================================================================

--------------------------- MODULE PortfolioMerge ---------------------------
(***************************************************************************)
(* How the portfolio stores combine the closed trades they hold with those *)
(* of a snapshot that is saved (infra/runtime_store.py): trades are taken  *)
(* newest first, a trade that matches one taken before is merged with it,  *)
(* and the better documented of the two records is kept.                   *)
(*                                                                         *)
(* A trade is [id, deal, opened, at, fee]: its id, what was traded (symbol,*)
(* side, quantity and exit price, told apart by a single value), the times *)
(* it was opened and closed, and its fees.                                 *)
(***************************************************************************)
EXTENDS Integers, Sequences, SequencesExt

CONSTANT MatchWindow    \* 90 seconds, in the unit of the times

ASSUME MatchWindowAssumption == MatchWindow \in Nat

-----------------------------------------------------------------------------

Distance(a, b) == IF a < b THEN b - a ELSE a - b

Match(l, r) ==
    \/ l.id = r.id
    \/ l.deal = r.deal /\ Distance(l.at, r.at) <= MatchWindow

Prefer(l, r) ==
    CASE l.fee = 0 /\ r.fee # 0 -> r
      [] l.fee # 0 /\ r.fee = 0 -> l
      [] OTHER -> CASE r.opened < l.opened -> r
                    [] r.opened > l.opened -> l
                    [] OTHER -> IF r.at >= l.at THEN r ELSE l

\* A trade joins a sorted list behind all that are not older.
Inserted(sorted, trade) ==
    InsertAt(sorted, Cardinality({i \in DOMAIN sorted : sorted[i].at >= trade.at}) + 1, trade)

\* The trades newest first; the sort is stable (SortSeq leaves open what becomes of
\* trades of the same time). Here and below, intermediate results are bound and not
\* substituted: TLC computes them once.
NewestFirst(trades) ==
    LET sorted[n \in 0..Len(trades)] ==
            IF n = 0 THEN <<>>
            ELSE CHOOSE next \in {Inserted(before, trades[n]) : before \in {sorted[n - 1]}} : TRUE
    IN  sorted[Len(trades)]

\* One trade taken into the list: it joins the first record it matches.
Take(taken, trade) ==
    LET twins == {i \in DOMAIN taken : Match(taken[i], trade)}
        first == CHOOSE i \in twins : \A j \in twins : i <= j
    IN  IF twins = {} THEN Append(taken, trade)
        ELSE [taken EXCEPT ![first] = Prefer(@, trade)]

\* All trades taken, one after the other.
TakenFrom(all) ==
    LET first[n \in 0..Len(all)] ==
            IF n = 0 THEN <<>>
            ELSE CHOOSE next \in {Take(taken, all[n]) : taken \in {first[n - 1]}} : TRUE
    IN  first[Len(all)]

Merge(existing, incoming) ==
    CASE existing = <<>> -> incoming
      [] incoming = <<>> -> existing
      [] OTHER -> CHOOSE merged \in
             {NewestFirst(taken) : taken \in
                 {TakenFrom(all) : all \in {NewestFirst(existing \o incoming)}}} : TRUE
=============================================================================

----------------------------- MODULE FillPairing -----------------------------
(***************************************************************************)
(* _closed_trades_from_fills: the Binance adapter is told of executions    *)
(* only and works out the closed trades by matching the fills of a symbol  *)
(* first in, first out. A fee is shared in proportion to the quantity, so  *)
(* what a lot keeps is the same fee per unit: it is kept as that rate.     *)
(***************************************************************************)
EXTENDS Integers, SequencesExt

\* A fill; the lot it leaves open has the same fields.
Executed(ids, quantities, prices, fees) ==
    [id : ids, side : {"buy", "sell"}, quantity : quantities, price : prices, at : ids, fee : fees]

\* A fee that is paid back is not shared out.
Share(rate, quantity) == IF rate > 0 THEN rate * quantity ELSE 0

ClosedTrade(lot, fill, quantity) ==
    [id |-> <<lot.id, fill.id>>, side |-> lot.side, quantity |-> quantity,
     entry |-> lot.price, exit |-> fill.price, opened |-> lot.at, closed |-> fill.at,
     fees |-> Share(lot.fee, quantity) + Share(fill.fee, quantity)]

With(x, quantity) == [x EXCEPT !.quantity = quantity]

\* One round of the while loop, at the oldest lot that has not been looked at.
\* The lots are all of one side, so the loop ends with the lots or the fill.
CloseLot(fill, found, lot) ==
    LET quantity == IF lot.side = fill.side THEN 0 ELSE Min({lot.quantity, found.left})
    IN  [left   |-> found.left - quantity,
         lots   |-> IF lot.quantity > quantity
                    THEN Append(found.lots, With(lot, lot.quantity - quantity)) ELSE found.lots,
         trades |-> IF quantity > 0 THEN Append(found.trades, ClosedTrade(lot, fill, quantity))
                    ELSE found.trades]

Usable(fill) == fill.quantity > 0 /\ fill.price > 0

\* A fill against the open lots, one after the other...
Closed(book, fill) ==
    LET found[n \in 0..Len(book.lots)] ==
            IF n = 0 THEN [left |-> fill.quantity, lots |-> <<>>, trades |-> book.trades]
            ELSE CloseLot(fill, found[n - 1], book.lots[n])
    IN  found[Len(book.lots)]

\* ... and what it does not close it opens.
PairFill(book, fill) ==
    LET found == Closed(book, fill)
    IN  IF ~Usable(fill) THEN book
        ELSE [trades |-> found.trades,
              lots   |-> IF found.left > 0 THEN Append(found.lots, With(fill, found.left))
                         ELSE found.lots]

\* The fills in the order they were executed, of a window of the account's
\* history.
Paired(fills) ==
    LET book[n \in 0..Len(fills)] ==
            IF n = 0 THEN [trades |-> <<>>, lots |-> <<>>] ELSE PairFill(book[n - 1], fills[n])
    IN  book[Len(fills)]

\* list_closed_trades: the newest trades first.
ListClosedTrades(fills, limit) ==
    LET trades == Reverse(Paired(fills).trades)
    IN  SubSeq(trades, 1, Min({Len(trades), limit}))

-----------------------------------------------------------------------------
(* What the trades have to add up to, computed without matching anything.  *)

Added(amounts) ==
    LET sum[n \in 0..Len(amounts)] == IF n = 0 THEN 0 ELSE sum[n - 1] + amounts[n]
    IN  sum[Len(amounts)]

Total(seq, Of(_)) == Added([i \in DOMAIN seq |-> Of(seq[i])])

\* Of fills and lots; a fill that is not used is worth nothing.
Amount(x) == IF Usable(x) THEN x.quantity ELSE 0
Signed(x) == IF x.side = "buy" THEN Amount(x) ELSE -Amount(x)
Paid(x) == Signed(x) * x.price
Charged(x) == Share(x.fee, Amount(x))

\* Of trades.
Both(trade) == 2 * trade.quantity
Earned(trade) ==
    (IF trade.side = "buy" THEN trade.quantity ELSE -trade.quantity) * (trade.exit - trade.entry)
Fees(trade) == trade.fees

\* Lots and fills balance: what was bought and not sold is what is open, and all of
\* it was bought, or all of it sold.
Balances(fills) ==
    LET book == Paired(fills)
    IN  /\ Total(fills, Signed) = Total(book.lots, Signed)
        /\ Total(fills, Amount) = Total(book.lots, Amount) + Total(book.trades, Both)
        /\ \A i, j \in DOMAIN book.lots : book.lots[i].side = book.lots[j].side

\* The money adds up: what the trades earned is what the fills brought in, plus
\* what is still tied up in lots.
Earns(fills) ==
    LET book == Paired(fills)
    IN  Total(book.trades, Earned) = Total(book.lots, Paid) - Total(fills, Paid)

\* Every fee is charged once: the fees of trades and lots are those of the fills.
ChargesOnce(fills) ==
    LET book == Paired(fills)
    IN  Total(book.trades, Fees) + Total(book.lots, Charged) = Total(fills, Charged)

\* First in, first out, and no trade is listed twice.
InOrder(fills) ==
    LET trades == Paired(fills).trades
    IN  \A i, j \in DOMAIN trades : i < j =>
          /\ trades[i].id # trades[j].id
          /\ trades[i].opened <= trades[j].opened /\ trades[i].closed <= trades[j].closed
=============================================================================

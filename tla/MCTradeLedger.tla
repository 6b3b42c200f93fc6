---------------------------- MODULE MCTradeLedger ----------------------------
(* Small instances of TradeLedger for TLC. Trades closed further apart than *)
(* MatchWindow (Slow) and closer than that (1).                               *)
EXTENDS TradeLedger, FillPairing

Slow == MatchWindow + 1

TestBrokers == {Replay(Slow), Mock(Slow), Binance(1), Alpaca(Slow), Ig(Slow)}

TestOrders == [b \in TestBrokers |-> CASE b = Replay(Slow) -> 3 [] b = Mock(Slow) -> 2 [] OTHER -> 1]

\* The trades Binance's fills are made into, on every window of up to three fills,
\* worthless ones and fees that are paid back among them, and of four.
Fills(n, quantities, fees) ==
    {[i \in 1..n |-> [f[i] EXCEPT !.id = i, !.at = i]] :
       f \in [1..n -> Executed({0}, quantities, {1, 3}, fees)]}

ASSUME FillsArePaired ==
  \A fills \in UNION {Fills(n, {0, 1, 2}, {-1, 2}) : n \in 0..3} \cup Fills(4, {1, 2}, {1}) :
    Balances(fills) /\ Earns(fills) /\ ChargesOnce(fills) /\ InOrder(fills)
=============================================================================

------------------------------- MODULE Brokers -------------------------------
(***************************************************************************)
(* What the adapters of infra/ do with an order and what they report, as   *)
(* far as the books kept elsewhere can tell. The exchange behind a live    *)
(* adapter is external; its traits are those the adapter asks it for and   *)
(* reads from its answers.                                                 *)
(***************************************************************************)
EXTENDS Naturals

\* fillsAtOnce: an order is FILLED when submit_order returns, else it is
\* accepted and executed later.
\* opens: an order that does not close a position is filled at all.
\* clips: an order never takes more than the position; clipsManual: nor does
\* one sent by the journal (reduceOnly).
\* reports: reconciliations carry the closed trades; history: they can be
\* asked for. served: it can be put behind the API, as all can but the broker of
\* the replay validation. live: it is at an exchange, which may fail to answer
\* and outlives the process; the application builds no others. pace: how far
\* apart its trades are, in the unit of MatchWindow.
BrokerType == [fillsAtOnce : BOOLEAN, opens : BOOLEAN, clips : BOOLEAN,
               clipsManual : BOOLEAN, reports : BOOLEAN, history : BOOLEAN,
               served : BOOLEAN, live : BOOLEAN, pace : Nat \ {0}]

\* An object of the process, with which the release checks and the runtime probe
\* try the services. Orders against a position are filled up to the position,
\* others are accepted and never filled; fills and trades are reported.
Mock(pace) ==
    [fillsAtOnce |-> TRUE, opens |-> FALSE, clips |-> TRUE, clipsManual |-> TRUE,
     reports |-> TRUE, history |-> FALSE, served |-> TRUE, live |-> FALSE,
     pace |-> pace]

\* An object of the process as well. Every order is filled whole and may turn the
\* position round.
Replay(pace) ==
    [fillsAtOnce |-> TRUE, opens |-> TRUE, clips |-> FALSE, clipsManual |-> FALSE,
     reports |-> TRUE, history |-> TRUE, served |-> FALSE, live |-> FALSE,
     pace |-> pace]

\* Market orders answered with their result; only those of the journal
\* ("close-...") are reduceOnly. A reconciliation carries no trades, they are
\* computed from the fills when asked for.
Binance(pace) ==
    [fillsAtOnce |-> TRUE, opens |-> TRUE, clips |-> FALSE, clipsManual |-> TRUE,
     reports |-> FALSE, history |-> TRUE, served |-> TRUE, live |-> TRUE,
     pace |-> pace]

\* Market orders that are answered as accepted; no reduceOnly, no trades.
Alpaca(pace) ==
    [fillsAtOnce |-> FALSE, opens |-> TRUE, clips |-> FALSE, clipsManual |-> FALSE,
     reports |-> FALSE, history |-> FALSE, served |-> TRUE, live |-> TRUE,
     pace |-> pace]

\* Deals that are confirmed at once; the journal closes the deal of the
\* position, any other order is a new deal. No trades.
Ig(pace) ==
    [fillsAtOnce |-> TRUE, opens |-> TRUE, clips |-> FALSE, clipsManual |-> TRUE,
     reports |-> FALSE, history |-> FALSE, served |-> TRUE, live |-> TRUE,
     pace |-> pace]
=============================================================================

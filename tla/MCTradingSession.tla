-------------------------- MODULE MCTradingSession --------------------------
(* TradingSession with a small pool of API threads. *)
EXTENDS TradingSession

=============================================================================

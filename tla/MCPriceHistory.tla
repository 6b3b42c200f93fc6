--------------------------- MODULE MCPriceHistory ---------------------------
(* Small instances of PriceHistory for TLC. *)
EXTENDS PriceHistory, TLC

CONSTANTS crypto, forex, btc, eur

TestSymbols == crypto :> {btc} @@ forex :> {eur}
=============================================================================

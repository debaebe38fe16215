------------------------------ MODULE MC_Dydx ------------------------------
(* Two tasks poll two tickers: one of them alone, or both in a row. *)
EXTENDS DydxFeed

CONSTANTS btc, eth

MCTickers == {btc, eth}
MCLists == {<<btc>>, <<eth, btc>>}
=============================================================================

----------------------------- MODULE MC_Muscle -----------------------------
(* Percent units: One = 100, b = 5, so the break-even confidence is just     *)
(* above 95 and 96, 98 and 100 are sized 0.2%, 14.5% and 25% of the wallet.  *)
EXTENDS Muscle

CONSTANT dnx

MCTickers == {dnx}
MCBalances == {0, 10, 60}

Readout(ticker, side, confidence) ==
  [kind |-> "readout", ticker |-> ticker, side |-> side, confidence |-> confidence]
Pulse(price) == [kind |-> "pulse", prices |-> [t \in Tickers |-> price]]
Bad == [kind |-> "bad"]
NotText == [kind |-> "notText"]
Signal(side, confidence, price, quantity) ==
  [kind |-> "signal", sig |-> [ticker |-> dnx, side |-> side, confidence |-> confidence,
                               price |-> price, quantity |-> quantity]]

BinaryFrames == {Readout(dnx, "buy", 100), Readout("RESIDUAL", "sell", 98),
                 Readout(dnx, "neutral", 0), Pulse(2), Pulse(9), Bad}
JsonFrames == {Signal("buy", 98, 1, 1), Signal("sell", 100, 4, 11), Signal("buy", 96, 0, 3),
               Signal("buy", 150, -2, 0), Signal("neutral", 98, 1, 1), NotText}
MCFrames == BinaryFrames \cup JsonFrames
=============================================================================

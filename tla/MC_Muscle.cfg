SPECIFICATION FairSpec
CONSTANTS
  One = 100
  NonFinite = NonFinite
  ScalarNum = 1
  ScalarDen = 4
  dnx = dnx
  Payoff = 5
  Threshold = 15
  MaxPosition = 10
  Tickers <- MCTickers
  Frames <- MCFrames
  Balances <- MCBalances
  InitialBalance = 60
  MaxRuns = 2
  Torn = Torn
  Garbled = Garbled
  MaxFrames = 3
INVARIANTS
  ExecutedAsReceived
  TradedWithinFunds
  EverySignalAccounted
  LogKeepsTrades
PROPERTIES
  SignalsDecided
CHECK_DEADLOCK FALSE

SPECIFICATION Spec
CONSTANTS
  Assets = 2
  Others = 1
  Pairs = 2
  Lobes = 2
  One = 100
  NonFinite = NonFinite
  MaxFinite = 30
  SideEps = 1
  ScalarNum = 1
  ScalarDen = 4
  Tanh <- MCTanh
  PulseFloats <- MCPulseFloats
  ReadoutFloats <- MCReadoutFloats
  Weights <- MCWeights
  Probabilities <- MCProbabilities
  Payoffs <- MCPayoffs
  MarketPrices <- MCMarketPrices
  Depths = {0, 1, 3}
  Missing = Missing
  NeroLobes = 4
  Activities <- MCActivities
  Inhibit <- MCInhibit
  Momentum = 15
  Unit = 100
  Epsilon = 1
  Exp <- MCExp
  MaxTicks = 2
INVARIANTS
  DecodersAgree
  FailsClosed
  FollowsTheStrongestPair
  StakesSound
  QuoteAndBookAgree
  TrailerSound
CHECK_DEADLOCK FALSE

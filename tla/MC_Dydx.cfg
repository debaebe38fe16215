SPECIFICATION FeedSpec
CONSTANTS
  btc = btc
  eth = eth
  Pollers = {p1, p2}
  Tickers <- MCTickers
  Lists <- MCLists
  MaxMoves = 2
PROPERTIES
  GoesBackOnlyInOverlap
  PollEnds

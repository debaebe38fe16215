SPECIFICATION RunSpec
CONSTANTS
  BufSize = 30
  EventBytes = 12
  Lobes = 2
  Neurons = 1
  Duration = 3
  Horizon = 1
  Prices = {1, 2}
  Latencies = {1, 2}
  Scale = 2
  Cost = 1
  BoundsError = BoundsError
INVARIANTS
  BufferExact
  ClosedFileComplete
  WalkForward
  SummaryFair
CHECK_DEADLOCK FALSE

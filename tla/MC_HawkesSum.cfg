SPECIFICATION Spec
CONSTANTS
  WindowSize = 3
  Threshold = 1
  Prices = {2, 4, 5}
  MaxTicks = 5
  Assets = 1
  AssetPrices = {10}
  BaseDelta = 6
  Alpha = 50
  Decay <- MCDecay
INVARIANTS
  AllEventsSummed
CHECK_DEADLOCK FALSE

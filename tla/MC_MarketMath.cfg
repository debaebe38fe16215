SPECIFICATION MathSpec
CONSTANTS
  WindowSize = 2
  Threshold = 2
  Prices = {2, 4, 5}
  MaxTicks = 5
  Assets = 2
  AssetPrices = {10, 11}
  BaseDelta = 6
  Alpha = 2
  Decay <- MCDecay
  WindowSizes = {3, 4}
  Lookbacks = {2, 4}
  MinWindows = {1}
INVARIANTS
  RingHoldsJumps
  NoDriftLost
  WindowIsRecent
CHECK_DEADLOCK FALSE

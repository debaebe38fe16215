SPECIFICATION Spec
CONSTANTS
  Lobes = {scalper, macro}
  Scalper = scalper
  LearnEvery = 3
  WMax = 7
  Reflexes <- MCReflexes
  Neurons = {1}
  Levels <- MCLevels
  VThresh <- MCThresh
  VReset <- MCReset
  VRest <- MCRest
  Gain = 3
  RefracT = 2
  HistDepth = 3
  Stresses <- StepStresses
  AllStresses <- MapStresses
  MaxTicks = 8
INVARIANTS
  Refractory
  HistoryExact
  StressNeverCalms
PROPERTIES
  LearnsFromLastReadout
CHECK_DEADLOCK FALSE

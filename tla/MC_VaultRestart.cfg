SPECIFICATION Spec
CONSTANTS
  BatchSize = 2
  Pulses = {1}
  MaxTicks = 5
  MaxRuns = 2
INVARIANTS
  RestartCanRecord
CHECK_DEADLOCK FALSE

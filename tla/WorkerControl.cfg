SPECIFICATION MCFairSpec
CONSTANTS
  Tool = {1, 2}
  Asks <- SaverAndStopper
  MaxEpoch = 3
  Slots = 0
INVARIANTS
  OutcomeTruthful
PROPERTIES
  StopEnds
CHECK_DEADLOCK FALSE

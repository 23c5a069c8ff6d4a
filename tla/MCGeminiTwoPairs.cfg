SPECIFICATION OrderedSpec
CONSTANTS
  Ranks = {1, 2, 3, 4}
  Peer <- Pairs
  MaxStep = 3
  FlushInterval = 0
  MaxLosses = 1
INVARIANT
  SecuredStepSurvives
CHECK_DEADLOCK FALSE

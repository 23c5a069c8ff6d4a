SPECIFICATION Spec
CONSTANTS
  Ranks = {1, 2}
  Peer <- Pairs
  MaxStep = 3
  FlushInterval = 2
  MaxLosses = 1
INVARIANT
  OwnShardsAreWhole
CHECK_DEADLOCK FALSE

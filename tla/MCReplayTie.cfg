SPECIFICATION Spec
CONSTANTS
  Ranks = {0, 1, 2, 3}
  Catalogs = {"dense"}
  Intervals = {1}
  EmbeddingInterval = 0
  OptimizerInterval = 0
  Layers = 1
  Shapes = 1
  Rounds = 2
  Corruptions <- TwoOfFour
  TimeVectors <- OneSlow
  MaxInvocations = 1
  MaxStep <- OneStep
  SlowRatio = 2
  SlowMargin = 5
  Sigma = 3
  MinSamples = 2
  Window = 2
  MaxKeys = 3
INVARIANTS
  InconclusiveBlocks
CHECK_DEADLOCK FALSE

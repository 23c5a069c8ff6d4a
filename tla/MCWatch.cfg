SPECIFICATION WatchSpec
CONSTANTS
  NumPlans = 2
  MaxTime = 3
  LeaseTimes <- TwoTicks
  FreshFor = 2
  MaxFailures = 3
  Ranks <- ThreeRanks
  Stall = 1
  StageThreshold <- OneTick
  Ratio = 2
  Confirmations = 2
  StageKind <- DataLoading
  MaxElapsed = 5
  MaxStage <- LastStays
  MaxStep = 0
  MaxOp <- OpsOf
INVARIANTS
  StageCulprits
  LeaseTellsTheTruth
PROPERTIES
  StoppedIsReported
  FirstLeaseIsRetried

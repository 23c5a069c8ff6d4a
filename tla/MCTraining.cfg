SPECIFICATION TrainingSpec
CONSTANTS
  Ranks = {1, 2}
  Peer <- Pair
  MaxStep = 3
  FlushInterval = 2
  MaxLosses = 1
  Backends = {"torch_dist", "nixl"}
  Chunks = 2
  MaxVersion = 1
  MaxCalls = 2
  Jobs <- SoundJobs
  Interval = 2
  MaxUpdates = 5
  MaxStarts = 3
  Peers = {0, 1, 2}
  Catalogs = {"dense", "dynamic"}
  Intervals = {1, 2}
  EmbeddingInterval = 2
  OptimizerInterval = 2
  Layers = 1
  Shapes = 2
  Rounds = 2
  Corruptions <- OutvotedPair
  TimeVectors <- OneSlowPair
  MaxInvocations = 2
  LastStep <- StepsOf
  SlowRatio = 2
  SlowMargin = 5
  Sigma = 3
  MinSamples = 2
  Window = 2
  MaxKeys = 3
  Endpoints = {0, 1, 2, 3}
  Groups = {"row0", "row1", "col0", "col1"}
  Members <- Grid
  Leaf <- LeafOf
  Spine = 12
  SlowFactor = 15
  HealthyFactor = 11
  Persistence = 2
  MinSlowGroups = 2
  MaxSamples = 1
  MaxRounds = 2
INVARIANTS
  PreviousPairIsAligned
  ReceivedIsWhole
  SecuredStepSurvives
  CaptureIsOfItsStep
  ResumesWhereTrusted
  BlamedIsGuilty
  LockStep
  CertifiedMeansClean
PROPERTIES
  ClosedIsSilent
  SlowIsNeverLearned
CHECK_DEADLOCK FALSE

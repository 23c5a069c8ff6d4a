SPECIFICATION RestartSpec
CONSTANTS
  Ranks = {r1, r2}
  MaxStep = 3
  Calls = {"load", "find", "exact"}
  Asks <- BothModes
  ExactSteps = {1, 2}
  Workers = {0, 1}
  LoaderRanks = {0}
  LoaderRoots = {"torch", "deepspeed"}
  Specialized = {"deepspeed"}
  SelectedSteps = {0, 2}
  LastStep = 2
INVARIANTS
  ResultIsHeldByAll
  NewestIsFound
  SameFramework
  CountsTheStateItHas
PROPERTIES
  RestartEnds

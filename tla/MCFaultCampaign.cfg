SPECIFICATION AllSpec
CONSTANTS
  Ranks = {1, 2}
  Scopes <- Small
INVARIANTS
  ClaimedEverywhere
  SameConsensus
  InjectedAsScheduled
  TensorAsScheduled
  CompletedLastedInFull
CHECK_DEADLOCK FALSE

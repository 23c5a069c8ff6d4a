CONSTANTS
    Catalogs <- GeminiAlone
    MaxStep = 4
    MaxEpoch = 1
    MaxStops = 2
    Pair = {r1, r2}
    Setups <- Rotating
    MaxCycle = 1
    MaxLeaves = 0
SPECIFICATION TrustSpec
INVARIANTS
    VerifiedIsClean
CHECK_DEADLOCK FALSE

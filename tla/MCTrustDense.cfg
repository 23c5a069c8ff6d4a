SPECIFICATION SidecarSpec
CONSTANTS
    Pair = {r1, r2}
    Setups <- AloneDense
    MaxCycle = 3
    MaxLeaves = 1
PROPERTIES
    TrustIsKept
CHECK_DEADLOCK FALSE

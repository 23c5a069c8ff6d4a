SPECIFICATION SidecarSpec
CONSTANTS
    Pair = {r1, r2}
    Setups <- AloneLatest
    MaxCycle = 6
    MaxLeaves = 1
PROPERTIES
    TrustIsKept
CHECK_DEADLOCK FALSE

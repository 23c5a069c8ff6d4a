SPECIFICATION SidecarSpec
CONSTANTS
    Pair = {r1, r2}
    Setups <- AloneVerified
    MaxCycle = 3
    MaxLeaves = 2
INVARIANTS
    PickIsClean
CHECK_DEADLOCK FALSE

CONSTANTS
    Catalogs <- WithDurable
    MaxStep = 4
    MaxEpoch = 2
    MaxStops = 1
    Pair = {r1, r2}
    Setups <- Rotating
    MaxCycle = 2
    MaxLeaves = 1
SPECIFICATION TrustSpec
INVARIANTS
    VerifiedIsClean
    LatestIsValidated
    RolesMoveTogether
    PickIsSound
PROPERTIES
    PickNeverRecedes
CHECK_DEADLOCK FALSE

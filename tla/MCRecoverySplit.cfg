CONSTANTS
    Ranks = {r1, r2}
    MaxStep = 2
    Calls = {"load"}
    Asks = {"status"}
    ExactSteps = {1, 2}
SPECIFICATION FairSpec
PROPERTIES
    EveryRankReturns
CHECK_DEADLOCK FALSE

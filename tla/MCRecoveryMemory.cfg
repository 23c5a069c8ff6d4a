SPECIFICATION Spec
CONSTANTS
    Ranks = {r1, r2}
    MaxStep = 3
    Calls = {"load"}
    Asks = {"latest"}
    ExactSteps = {1, 2}
INVARIANTS
    MemoryIsNotForgotten
CHECK_DEADLOCK FALSE

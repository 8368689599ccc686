SPECIFICATION Spec
CONSTANTS
    p1 = p1
    p2 = p2
    None = None
    Plans = {p1, p2}
    Lots = 2
    DexCost = 4
    PerpCost = 2
    Capital = 24
    MaxPositions = 2
    MaxCrashes = 1
    MaxLost = 0
SYMMETRY PlanSymmetry
INVARIANTS
    ExitSurvivesRestart

SPECIFICATION Spec
CONSTANTS
    p1 = p1
    p2 = p2
    p3 = p3
    None = None
    Plans = {p1, p2, p3}
    Lots = 2
    DexCost = 4
    PerpCost = 2
    Capital = 24
    MaxPositions = 2
    MaxCrashes = 2
    MaxLost = 1
SYMMETRY PlanSymmetry
INVARIANTS
    TypeOK
    OpenIsRegistered
    GhostsBounded
    CapSurvivesRestart
    SwitchesSurvive
    CashSurvives

SPECIFICATION Spec
CONSTANTS
    p1 = p1
    p2 = p2
    t1 = t1
    t2 = t2
    None = None
    Plans = {p1, p2}
    Tasks = {t1, t2}
    Lots = 2
    DexCost = 4
    PerpCost = 2
    Capital = 24
    MaxPositions = 2
    Mode = "live"
    LegOrder = "perp_first"
    HedgeMode = FALSE
    Faults = {"refuse_perp", "short_swap", "partial_exit"}
SYMMETRY PlanAndTaskSymmetry
PROPERTIES
    PrincipalReturned

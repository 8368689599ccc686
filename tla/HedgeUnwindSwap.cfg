SPECIFICATION Spec
CONSTANTS
    p1 = p1
    p2 = p2
    t1 = t1
    t2 = t2
    None = None
    Plans = {p1, p2}
    Tasks = {t1, t2}
    Lots = 2
    DexCost = 4
    PerpCost = 2
    Capital = 24
    MaxPositions = 2
    Mode = "live"
    LegOrder = "dex_first"
    HedgeMode = FALSE
    Faults = {"refuse_dex", "refuse_perp"}
SYMMETRY PlanAndTaskSymmetry
INVARIANTS
    UnwindSwapExempt

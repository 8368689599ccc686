SPECIFICATION Spec
CONSTANTS
    p1 = p1
    p2 = p2
    p3 = p3
    t1 = t1
    t2 = t2
    None = None
    Plans = {p1, p2, p3}
    Tasks = {t1, t2}
    Lots = 2
    DexCost = 4
    PerpCost = 2
    Capital = 24
    MaxPositions = 2
    Mode = "live"
    LegOrder = "dex_first"
    HedgeMode = TRUE
    Faults = {"refuse_dex", "refuse_perp", "partial_entry", "partial_exit", "short_swap", "unknown_dex", "unknown_perp"}
SYMMETRY PlanAndTaskSymmetry
INVARIANTS
    TypeOK
    RegistryMatchesBook
    ExitNeverVetoed
    ReservationAccounted
    CashConserved
    NoOverdraft
    PositionCap
PROPERTIES
    SpentStaysSpent
    NoSilentDivergence
    ImbalanceAlarmed

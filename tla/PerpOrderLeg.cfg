SPECIFICATION FairSpec
CONSTANTS
    Asked = 3
    Attempts = 3
    CancelTries = 2
    Styles = {"ioc", "maker"}
    IocFaults = {"fatal", "rejected", "unknown", "find_blind"}
    MakerFaults = {"fatal", "rejected", "unknown", "cancel_fails", "expires", "watch_blind", "recheck_blind"}
CHECK_DEADLOCK FALSE
INVARIANTS
    TypeOK
    ExposureBounded
PROPERTIES
    ImplementsPerpLeg

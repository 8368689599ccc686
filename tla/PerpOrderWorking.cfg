SPECIFICATION Spec
CONSTANTS
    Asked = 2
    Attempts = 2
    CancelTries = 2
    Styles = {"maker"}
    IocFaults = {}
    MakerFaults = {"unknown", "find_blind"}
CHECK_DEADLOCK FALSE
INVARIANTS
    NothingLeftWorking

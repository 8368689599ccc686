SPECIFICATION Spec
CONSTANTS
    Asked = 2
    Attempts = 2
    CancelTries = 2
    Styles = {"maker"}
    IocFaults = {}
    MakerFaults = {"bad_book"}
CHECK_DEADLOCK FALSE
INVARIANTS
    PartialNeverLost

SPECIFICATION Spec
CONSTANTS
    Modes = {"paper", "testnet", "live"}
    Engines = {"paper", "live"}
    FirstEngine = "paper"
    UrlEngine = "live"
    MockAllowed = TRUE
    LiveElsewhere = TRUE
    MaxVer = 1
    MaxSwitches = 1
    MaxOutages = 1
    PlanIds = {"p1", "p2"}
    Held = {"q1"}
    MaxPosts = 3
    NoPlan = NoPlan
    Requests = {"r1", "r2"}
    Inputs <- Bodies
    ToolLists <- OfficialTools
    ReadNames = {"get_mark", "get_place"}
    TradeNames = {"get_place", "wallet"}
    Alias <- OfficialAlias
    MaxLeverage = 3
    MinCapital = 10
    GateLeverage = 4
    PositionCap = 1
    NoRequest = NoRequest
    Quotes <- Markets
    Offsets <- NextSettlements
    Horizons = {24, 72}
    ConfiguredH = 30
    AssumedRate = 1
    MaxCurveH = 720
    MaxPoints = 64
    MaxReceipts = 2
    MaxPrompts = 2
    MaxClock = 4
    Faults = {"MALFORMED", "LEVERAGE", "NEGATIVE_EDGE"}
    MaxDecisions = 2
    MaxMade = 3
INVARIANTS
    SurfacesTypeOK
    MockIsLabelled
    ShownFromSelected
    PollYields
    NoUnconfirmedOrder
    OnceEach
    KillFollowsPress
    GatedRoute
    OkMeansRun
    ReadOnlyUpstream
    EdgeViewsAgree
    NotExecutedIsTrue
    RealFillNotPaper
    RowsTellVerdict
PROPERTIES
    StreamRecovers
    ControlsComeBack
    EveryCallAnswered
\* A behaviour ends where its bounds are used up: clicks, the engine's clock.
CHECK_DEADLOCK FALSE

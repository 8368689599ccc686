------------------------------ MODULE Surfaces ------------------------------
(***************************************************************************)
(* The TypeScript side of Deltr as one model: the dashboard's stream, its  *)
(* controls, its edge, trade and risk-gate panels, and the Agent OS bridge. *)
(* They share no variable, each has its own idea of the engine behind the  *)
(* API, so they are composed as a sum: a behaviour picks one of them and   *)
(* the others stay where they were put.                                    *)
(***************************************************************************)
EXTENDS Integers, TLC

CONSTANTS
    Modes,                                          \* of the console and the trade panels
    Engines, FirstEngine, UrlEngine, MockAllowed, LiveElsewhere,
    MaxVer, MaxSwitches, MaxOutages,                \* of the dashboard
    PlanIds, Held, MaxPosts, NoPlan,                \* of the console
    Requests, Inputs, ToolLists, ReadNames, TradeNames, Alias,
    MaxLeverage, MinCapital, GateLeverage, PositionCap,
    NoRequest,                                      \* of the bridge
    Quotes, Offsets, Horizons, ConfiguredH, AssumedRate,
    MaxCurveH, MaxPoints,                           \* of the edge panel
    MaxReceipts, MaxPrompts, MaxClock,              \* of the trade panels
    Faults, MaxDecisions, MaxMade                   \* of the risk-gate panel

VARIABLES who,
    up, ver, outages, engine, switches, sock, frames, polling, fetches, late,
    snap, mock, transport, lastLive, mockLoad, left,
    mode, eng, shown, mocked, ui, net, posts, runs, stopped, agreed, wish,
    phase, upstream, deltr, req, calls, sentUp, plans, ran,
    edge, isMock, horizon, asked, alt, altErr,
    clock, lists, pending, run, executed, unreported, seen, selected,
    gate, made, decisions, picked

dash    == <<up, ver, outages, engine, switches, sock, frames, polling, fetches, late,
             snap, mock, transport, lastLive, mockLoad, left>>
console == <<mode, eng, shown, mocked, ui, net, posts, runs, stopped, agreed, wish>>
bridge  == <<phase, upstream, deltr, req, calls, sentUp, plans, ran>>
panel   == <<edge, isMock, horizon, asked, alt, altErr>>
panels  == <<clock, lists, pending, run, executed, unreported, seen, selected>>
log     == <<gate, made, decisions, picked>>
vars    == <<who, dash, console, bridge, panel, panels, log>>

D == INSTANCE Dashboard
C == INSTANCE Console WITH mock <- mocked
B == INSTANCE Bridge
E == INSTANCE EdgePanel
P == INSTANCE Panels
G == INSTANCE GateLog

ASSUME SurfacesAssumption ==
    /\ D!DashboardAssumption /\ C!ConsoleAssumption /\ B!BridgeAssumption
    /\ E!EdgePanelAssumption /\ P!PanelsAssumption /\ G!GateLogAssumption
    /\ "paper" \in Modes

Init ==
    /\ who \in {"dash", "console", "bridge", "edge", "panels", "gate"}
    /\ D!Start(who # "dash")
    /\ IF who = "console" THEN C!Init ELSE C!InitIn("paper", FALSE)
    /\ B!Init
    /\ E!Init
    /\ P!Init
    /\ G!Init /\ (who # "gate" => gate = {})

Next ==
    \/ who = "dash"    /\ D!Next /\ UNCHANGED <<who, console, bridge, panel, panels, log>>
    \/ who = "console" /\ C!Next /\ UNCHANGED <<who, dash, bridge, panel, panels, log>>
    \/ who = "bridge"  /\ B!Next /\ UNCHANGED <<who, dash, console, panel, panels, log>>
    \/ who = "edge"    /\ E!Next /\ UNCHANGED <<who, dash, console, bridge, panels, log>>
    \/ who = "panels"  /\ P!Next /\ UNCHANGED <<who, dash, console, bridge, panel, log>>
    \/ who = "gate"    /\ G!Next /\ UNCHANGED <<who, dash, console, bridge, panel, panels>>

\* What idles has nothing its fairness would ask of it.
Spec == Init /\ [][Next]_vars /\ D!Fairness /\ C!Fairness /\ B!Fairness

-----------------------------------------------------------------------------
\* The type invariants of the six.
SurfacesTypeOK == D!TypeOK /\ C!TypeOK /\ B!TypeOK /\ E!TypeOK /\ P!TypeOK /\ G!TypeOK

\* Invented rows carry the MOCK flag (page.tsx).
MockIsLabelled == D!MockIsLabelled
\* A stream left behind never reaches the page (api.ts).
ShownFromSelected == D!ShownFromSelected
\* The poller yields to an open socket and the badge is honest (api.ts).
PollYields == D!PollYields
\* The page ends up on the selected engine's latest state (api.ts, page.tsx).
StreamRecovers == D!StreamRecovers

\* A real order needs its ticked box (PromptConsole.tsx, PositionsTable.tsx).
NoUnconfirmedOrder == C!NoUnconfirmedOrder
\* Lost answers and second clicks open and close nothing twice (PromptConsole.tsx).
OnceEach == C!OnceEach
\* The kill switch ends where it was last asked to be (PromptConsole.tsx).
KillFollowsPress == C!KillFollowsPress
\* No control stays disabled for ever (the finally blocks of the handlers).
ControlsComeBack == C!ControlsComeBack

\* routeOrder executes its own, confirmed, bounded plans only (agent_os_bridge.ts).
GatedRoute == B!GatedRoute
\* A reply never runs ahead of Deltr (routeOrder, main).
OkMeansRun == B!OkMeansRun
\* Nothing write-like goes upstream under any name (dispatchRpc).
ReadOnlyUpstream == B!ReadOnlyUpstream
\* Every request and every shutdown ends (withTimeout, serve).
EveryCallAnswered == B!EveryCallAnswered

\* The bars add up and both horizon views agree (EdgeWaterfall.tsx, horizon.py).
EdgeViewsAgree == E!EdgeViewsAgree

\* "not executed" is true of the snapshot it is drawn from (TradeTrace.tsx).
NotExecutedIsTrue == P!NotExecutedIsTrue
\* A real fill is never badged paper (PositionsTable.tsx).
RealFillNotPaper == P!RealFillNotPaper

\* The rows of a decision tell its verdict (RiskGateLog.tsx, risk_gate.py).
RowsTellVerdict == G!RowsTellVerdict
=============================================================================

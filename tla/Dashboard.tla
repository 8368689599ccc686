----------------------------- MODULE Dashboard -----------------------------
(***************************************************************************)
(* The dashboard's live page: the WebSocket-with-poll-fallback stream of   *)
(* ui/lib/api.ts (openStream) and the React page that shows its snapshots  *)
(* (ui/app/app/page.tsx), over several engines that may be out of reach.   *)
(*                                                                         *)
(* A snapshot is abstracted to where it came from: the engine that made    *)
(* it, that engine's version when it was made, and the path by which it    *)
(* reached the page.  A fetch is two steps, the engine's answer and its    *)
(* landing in the page, so that another path may overtake it.              *)
(***************************************************************************)
EXTENDS Naturals, Sequences, FiniteSets

CONSTANTS
    Engines,       \* the engines of NEXT_PUBLIC_ENGINES
    FirstEngine,   \* the first of that list
    UrlEngine,     \* the ?engine= of the page's URL, perhaps no engine at all
    MockAllowed,   \* ?mock=1, or next dev without a backend
    LiveElsewhere, \* NEXT_PUBLIC_APP_URL names a dashboard on another origin
    MaxVer,        \* bound: engines change until one has this version
    MaxSwitches,   \* bound: clicks on the engine switch
    MaxOutages     \* bound: times an engine goes out of reach

DashboardAssumption ==
    /\ FirstEngine \in Engines
    /\ Engines \cap {"none", "mock"} = {}
    /\ MockAllowed \in BOOLEAN /\ LiveElsewhere \in BOOLEAN
    /\ MaxVer \in Nat /\ MaxSwitches \in Nat /\ MaxOutages \in Nat

VARIABLES
    up,        \* up[e]: engine e answers
    ver,       \* ver[e]: the version of engine e's state
    outages,   \* outages so far (bounded)
    engine,    \* page: the selected engine
    switches,  \* clicks on the switch so far (bounded)
    sock,      \* stream: idle (retry timer armed), connecting, open, half
    frames,    \* snapshots the socket carries and has not delivered
    polling,   \* stream: the poller is in a fetch (else its timer is armed)
    fetches,   \* GET /api/snapshot calls in flight that still count
    late,      \* history: polls that landed since the socket opened
    snap,      \* page: the snapshot on screen
    mock,      \* page: the MOCK flag
    transport, \* page: the connection badge
    lastLive,  \* page: age of the last live snapshot
    mockLoad,  \* page: the bundled mock is idle, loading or cached
    left       \* the browser was forwarded to the other dashboard

env    == <<up, ver, outages>>
stream == <<sock, frames, polling, late>>
page   == <<snap, mock, lastLive>>
vars   == <<env, stream, page, engine, switches, fetches, transport, mockLoad, left>>

NoSnap       == [src |-> "none", ver |-> 0, via |-> "none"]
MockSnap     == [src |-> "mock", ver |-> 0, via |-> "file"]
Live(e, v, via) == [src |-> e, ver |-> v, via |-> via]

Snapshots == {NoSnap, MockSnap} \cup [src : Engines, ver : 0..MaxVer, via : {"ws", "poll", "refresh"}]
Fetches   == [by : {"poll", "refresh"}, engine : Engines, back : BOOLEAN, ver : 0..MaxVer]

\* What the status bar says.
Connection == CASE transport = "ws"   -> "live · ws"
                [] transport = "poll" -> "live · poll 1 Hz"
                [] OTHER              -> "offline"
Flags == IF mock THEN {"MOCK"} ELSE {}

\* A half-open socket is one whose server is gone without the browser knowing.
WsOpen == sock \in {"open", "half"}

TypeOK ==
    /\ up \in [Engines -> BOOLEAN] /\ ver \in [Engines -> 0..MaxVer]
    /\ outages \in 0..MaxOutages
    /\ engine \in Engines /\ switches \in 0..MaxSwitches
    /\ sock \in {"idle", "connecting", "open", "half"}
    /\ frames \in Seq(0..MaxVer) /\ Len(frames) <= 1
    /\ polling \in BOOLEAN
    /\ fetches \subseteq Fetches
    /\ late \in Nat
    /\ snap \in Snapshots /\ mock \in BOOLEAN
    /\ transport \in {"ws", "poll", "down"}
    /\ lastLive \in {"never", "fresh", "stale"}
    /\ mockLoad \in {"idle", "loading", "cached"}
    /\ left \in BOOLEAN

-----------------------------------------------------------------------------
(* The page's handlers. *)

EngineFromUrl(q) == IF q \in Engines THEN q ELSE FirstEngine

OnSnapshot(e, v, via) ==
    /\ snap' = Live(e, v, via)
    /\ mock' = FALSE
    /\ lastLive' = "fresh"

\* Mutant: the flag follows the page as it was, not what is put on it.
ShowMock_FlagsEmpty ==
    /\ snap' = IF snap # NoSnap /\ lastLive = "fresh" THEN snap ELSE MockSnap
    /\ mock' = (snap = NoSnap)
    /\ UNCHANGED lastLive

\* A late mock never replaces a fresh live snapshot, yet it raises the flag.
ShowMock ==
    /\ snap' = IF snap # NoSnap /\ lastLive = "fresh" THEN snap ELSE MockSnap
    /\ mock' = TRUE
    /\ UNCHANGED lastLive

LoadMock ==
    IF ~MockAllowed \/ mockLoad = "loading"
    THEN UNCHANGED <<page, mockLoad>>
    ELSE IF mockLoad = "cached"
         THEN ShowMock /\ UNCHANGED mockLoad
         ELSE mockLoad' = "loading" /\ UNCHANGED page

OnError ==
    IF lastLive # "fresh" THEN LoadMock ELSE UNCHANGED <<page, mockLoad>>

\* Mutant: the stopped stream's poll is not recognised as such.
Stopped_Lands(fs) == fs

\* stop(): timers are cleared, the socket is closed, and what a poll of the
\* stopped stream brings back is dropped.
Stopped(fs) == {f \in fs : f.by # "poll"}

Start(away) ==
    /\ up = [e \in Engines |-> TRUE] /\ ver = [e \in Engines |-> 0] /\ outages = 0
    /\ engine = EngineFromUrl(UrlEngine) /\ switches = 0
    /\ sock = "connecting" /\ frames = <<>> /\ polling = FALSE /\ late = 0
    /\ fetches = {}
    /\ snap = NoSnap /\ mock = FALSE /\ lastLive = "never"
    /\ transport = "down" /\ mockLoad = "idle" /\ left = away

Init == Start(FALSE)

-----------------------------------------------------------------------------
(* The environment: the engines and the network. *)

Advance(e) ==
    /\ \A d \in Engines : ver[d] < MaxVer
    /\ ver' = [ver EXCEPT ![e] = @ + 1]
    /\ UNCHANGED <<up, outages, stream, page, engine, switches, fetches, transport, mockLoad, left>>

\* An outage may leave the page's socket half open.
Outage(e) ==
    /\ up[e] /\ outages < MaxOutages
    /\ up' = [up EXCEPT ![e] = FALSE] /\ outages' = outages + 1
    /\ IF e = engine /\ sock = "open" THEN sock' \in {"open", "half"} ELSE UNCHANGED sock
    /\ UNCHANGED <<ver, frames, polling, late, page, engine, switches, fetches, transport,
                   mockLoad, left>>

Recover(e) ==
    /\ ~up[e]
    /\ up' = [up EXCEPT ![e] = TRUE]
    /\ UNCHANGED <<ver, outages, stream, page, engine, switches, fetches, transport, mockLoad, left>>

-----------------------------------------------------------------------------
(* The poller. *)

Ask(by) == [by |-> by, engine |-> engine, back |-> FALSE, ver |-> 0]

\* Mutant: the poller does not ask whether the socket is open.
PollTick_Always ==
    /\ ~polling
    /\ polling' = TRUE
    /\ fetches' = fetches \cup {Ask("poll")}
    /\ UNCHANGED <<env, sock, frames, late, page, engine, switches, transport, mockLoad, left>>

\* While the socket is open the timer only re-arms itself.
PollTick ==
    /\ ~polling /\ ~WsOpen
    /\ polling' = TRUE
    /\ fetches' = fetches \cup {Ask("poll")}
    /\ UNCHANGED <<env, sock, frames, late, page, engine, switches, transport, mockLoad, left>>

Answer(f) ==
    /\ ~f.back /\ up[f.engine]
    /\ fetches' = (fetches \ {f}) \cup {[f EXCEPT !.back = TRUE, !.ver = ver[f.engine]]}
    /\ UNCHANGED <<env, stream, page, engine, switches, transport, mockLoad, left>>

\* Mutant: a poll that landed does not arm the timer again.
PollLands_Stops(f) ==
    /\ f.by = "poll" /\ f.back
    /\ fetches' = fetches \ {f}
    /\ OnSnapshot(f.engine, f.ver, "poll")
    /\ transport' = "poll"
    /\ late' = IF WsOpen THEN late + 1 ELSE late
    /\ UNCHANGED <<env, sock, frames, polling, engine, switches, mockLoad, left>>

PollLands(f) ==
    /\ f.by = "poll" /\ f.back
    /\ fetches' = fetches \ {f}
    /\ OnSnapshot(f.engine, f.ver, "poll")
    /\ transport' = "poll"
    /\ polling' = FALSE
    /\ late' = IF WsOpen THEN late + 1 ELSE late
    /\ UNCHANGED <<env, sock, frames, engine, switches, mockLoad, left>>

PollFails(f) ==
    /\ f.by = "poll" /\ ~f.back /\ ~up[f.engine]
    /\ fetches' = fetches \ {f}
    /\ OnError
    /\ transport' = "down"
    /\ polling' = FALSE
    /\ UNCHANGED <<env, sock, frames, late, engine, switches, left>>

-----------------------------------------------------------------------------
(* The socket. *)

SockOpens ==
    /\ sock = "connecting" /\ up[engine]
    /\ sock' = "open" /\ late' = 0
    /\ transport' = "ws"
    /\ UNCHANGED <<env, frames, polling, page, engine, switches, fetches, mockLoad, left>>

\* Never opened within 1.5 s, refused, dropped, or found dead.
SockDown ==
    /\ sock # "idle"
    /\ sock' = "idle" /\ frames' = <<>>
    /\ transport' = "poll"
    /\ UNCHANGED <<env, polling, late, page, engine, switches, fetches, mockLoad, left>>

\* The retry comes 10 s after the drop, so the one-per-10-s test always passes.
Retry ==
    /\ sock = "idle"
    /\ sock' = "connecting"
    /\ UNCHANGED <<env, frames, polling, late, page, engine, switches, fetches, transport, mockLoad, left>>

Push ==
    /\ sock = "open" /\ up[engine] /\ frames = <<>>
    /\ frames' = <<ver[engine]>>
    /\ UNCHANGED <<env, sock, polling, late, page, engine, switches, fetches, transport, mockLoad, left>>

FrameArrives ==
    /\ frames # <<>>
    /\ OnSnapshot(engine, Head(frames), "ws")
    /\ frames' = Tail(frames)
    /\ UNCHANGED <<env, sock, polling, late, engine, switches, fetches, transport, mockLoad, left>>

-----------------------------------------------------------------------------
(* The page. *)

GoStale ==
    /\ lastLive = "fresh"
    /\ lastLive' = "stale"
    /\ UNCHANGED <<env, stream, snap, mock, engine, switches, fetches, transport, mockLoad, left>>

MockArrives ==
    /\ mockLoad = "loading"
    /\ mockLoad' = "cached"
    /\ ShowMock
    /\ UNCHANGED <<env, stream, engine, switches, fetches, transport, left>>

MockUnavailable ==
    /\ mockLoad = "loading"
    /\ mockLoad' = "idle"
    /\ UNCHANGED <<env, stream, page, engine, switches, fetches, transport, left>>

\* A click on the switch resets the page; the effect that owns the stream
\* only runs again when the key changed.
SwitchEngine(e) ==
    /\ switches < MaxSwitches
    /\ switches' = switches + 1
    /\ snap' = NoSnap /\ mock' = FALSE /\ lastLive' = "never"
    /\ transport' = "down"
    /\ engine' = e
    /\ IF e # engine
       THEN /\ fetches' = Stopped(fetches)
            /\ sock' = "connecting" /\ frames' = <<>> /\ polling' = FALSE /\ late' = 0
       ELSE UNCHANGED <<fetches, stream>>
    /\ UNCHANGED <<env, mockLoad, left>>

\* refresh(): a panel's POST came back and asks for a snapshot of its own.
\* One at a time here (bound).
RefreshTick ==
    /\ \A f \in fetches : f.by # "refresh"
    /\ fetches' = fetches \cup {Ask("refresh")}
    /\ UNCHANGED <<env, stream, page, engine, switches, transport, mockLoad, left>>

RefreshLands(f) ==
    /\ f.by = "refresh" /\ f.back
    /\ fetches' = fetches \ {f}
    /\ OnSnapshot(f.engine, f.ver, "refresh")
    /\ UNCHANGED <<env, stream, engine, switches, transport, mockLoad, left>>

RefreshFails(f) ==
    /\ f.by = "refresh" /\ ~f.back /\ ~up[f.engine]
    /\ fetches' = fetches \ {f}
    /\ UNCHANGED <<env, stream, page, engine, switches, transport, mockLoad, left>>

\* Nothing answered for 6 s and another dashboard is known: the page leaves.
Forward ==
    /\ LiveElsewhere
    /\ transport = "down" /\ lastLive = "never"
    /\ left' = TRUE
    /\ UNCHANGED <<env, stream, page, engine, switches, fetches, transport, mockLoad>>

Next ==
    /\ ~left
    /\ \/ \E e \in Engines : Advance(e) \/ Outage(e) \/ Recover(e) \/ SwitchEngine(e)
       \/ PollTick
       \/ \E f \in fetches : Answer(f) \/ PollLands(f) \/ PollFails(f) \/ RefreshLands(f) \/ RefreshFails(f)
       \/ SockOpens \/ SockDown \/ Retry \/ Push \/ FrameArrives
       \/ GoStale \/ MockArrives \/ MockUnavailable
       \/ RefreshTick \/ Forward

PollReturns    == \E f \in fetches : f.by = "poll" /\ (Answer(f) \/ PollLands(f) \/ PollFails(f))
RefreshReturns == \E f \in fetches : Answer(f) \/ RefreshLands(f) \/ RefreshFails(f)

(***************************************************************************)
(* An engine that stays within reach answers a fetch and pushes frames; a  *)
(* dead socket is found dead; the 1 s poll timer fires in the 10 s between *)
(* a drop and the next attempt, however often the socket flaps (SF).       *)
(***************************************************************************)
Fairness ==
    /\ SF_vars(~left /\ PollTick)
    /\ WF_vars(~left /\ PollReturns)
    /\ WF_vars(~left /\ RefreshReturns)
    /\ WF_vars(~left /\ Push)
    /\ WF_vars(~left /\ FrameArrives)
    /\ WF_vars(~left /\ sock = "half" /\ SockDown)
    /\ WF_vars(~left /\ (MockArrives \/ MockUnavailable))

Spec == Init /\ [][Next]_vars /\ Fairness

-----------------------------------------------------------------------------
(* Properties. *)

\* Invented rows are never shown as live ones: when the bundled mock is on
\* screen the MOCK flag is up, whatever fetch, frame or click came in between.
MockIsLabelled == snap.src = "mock" => "MOCK" \in Flags

\* The stream of an engine that is no longer selected never reaches the page;
\* only a panel's own refresh, which knows no stream, can bring a snapshot of
\* the engine left behind.
ShownFromSelected == snap.src \in Engines \ {engine} => snap.via = "refresh"

\* The badge says "live · ws" only while the socket is open, and an open
\* socket is overtaken by the poller at most once, with the fetch that was
\* already under way.
PollYields ==
    /\ Connection = "live · ws" => WsOpen
    /\ late <= 1

\* If the selected engine stays selected and within reach, the page ends up on
\* its latest state, unflagged, whatever was lost before (or it was forwarded).
StreamRecovers ==
    \A e \in Engines :
        <>[](engine = e /\ up[e])
            => <>[](left \/ (snap.src = e /\ snap.ver = ver[e] /\ ~mock))
=============================================================================

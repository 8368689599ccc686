---------------------------- MODULE SurfaceProofs ----------------------------
(* What the TypeScript surfaces promise, for every number of engines, plans,    *)
(* requests and clicks.  A behaviour of Surfaces drives one surface and leaves  *)
(* the others alone, so each is proved by itself and the sum by cases.          *)
EXTENDS Surfaces, Sequences, FiniteSets, SumLemmas, TLAPS

------------------------------------------------------------------------------
(* The dashboard.                                                            *)

\* The only poll under way is the stream's own, and it asks the selected engine.
PollsInv ==
    /\ \A f \in fetches : f.by = "poll" => f.engine = engine /\ polling
    /\ \A f, g \in fetches : f.by = "poll" /\ g.by = "poll" => f = g

\* The badge follows the socket; what may still overtake it is that one poll.
BadgeInv ==
    /\ transport = "ws" => D!WsOpen
    /\ late <= 1
    /\ D!WsOpen /\ polling => late = 0

DashInv ==
    /\ D!TypeOK /\ PollsInv /\ BadgeInv
    /\ D!MockIsLabelled /\ D!ShownFromSelected

\* What the dashboard assumes of its constants.
LEMMA DashConstants ==
    /\ FirstEngine \in Engines /\ "none" \notin Engines /\ "mock" \notin Engines
    /\ MaxVer \in Nat /\ MaxSwitches \in Nat /\ MaxOutages \in Nat
    /\ 0 \in 0..MaxVer
BY SurfacesAssumption DEF D!DashboardAssumption

\* The page starts empty, without fetch or socket.
LEMMA DashInit == ASSUME NEW away \in BOOLEAN, D!Start(away) PROVE DashInv
<1>1. D!TypeOK
    <2>1. engine \in Engines /\ snap \in D!Snapshots /\ left \in BOOLEAN
        BY DashConstants DEF D!Start, D!EngineFromUrl, D!Snapshots
    <2>2. up \in [Engines -> BOOLEAN] /\ ver \in [Engines -> 0..MaxVer]
        BY DashConstants DEF D!Start
    <2>3. frames \in Seq(0..MaxVer) /\ Len(frames) <= 1
        BY DEF D!Start
    <2>4. outages \in 0..MaxOutages /\ switches \in 0..MaxSwitches /\ late \in Nat
        BY DashConstants DEF D!Start
    <2>5. /\ sock \in {"idle", "connecting", "open", "half"} /\ polling \in BOOLEAN
          /\ fetches \subseteq D!Fetches /\ mock \in BOOLEAN /\ lastLive \in {"never", "fresh", "stale"}
          /\ transport \in {"ws", "poll", "down"} /\ mockLoad \in {"idle", "loading", "cached"}
        BY DEF D!Start
    <2> QED
        BY <2>1, <2>2, <2>3, <2>4, <2>5 DEF D!TypeOK
<1>2. PollsInv /\ BadgeInv
    BY DEF D!Start, PollsInv, BadgeInv
<1>3. D!MockIsLabelled /\ D!ShownFromSelected
    BY DashConstants DEF D!Start, D!MockIsLabelled, D!ShownFromSelected, D!NoSnap
<1> QED
    BY <1>1, <1>2, <1>3 DEF DashInv

\* An idle dashboard keeps what it had.
LEMMA DashIdle == ASSUME DashInv, UNCHANGED dash PROVE DashInv'
<1>1. D!TypeOK'
    BY DEF DashInv, dash, D!TypeOK
<1>2. PollsInv' /\ BadgeInv'
    BY DEF DashInv, dash, PollsInv, BadgeInv, D!WsOpen
<1>3. D!MockIsLabelled' /\ D!ShownFromSelected'
    BY DEF DashInv, dash, D!MockIsLabelled, D!Flags, D!ShownFromSelected
<1> QED
    BY <1>1, <1>2, <1>3 DEF DashInv

\* A snapshot put on the page by a live engine is one of its snapshots.
LEMMA LiveType ==
    ASSUME NEW e \in Engines, NEW v \in 0..MaxVer, NEW via \in {"ws", "poll", "refresh"}
    PROVE  D!Live(e, v, via) \in D!Snapshots
BY DEF D!Live, D!Snapshots

\* So is what a failed poll or the arrival of the mock leaves there.
LEMMA MockTypes ==
    ASSUME D!TypeOK
    PROVE  /\ D!ShowMock => snap' \in D!Snapshots /\ mock' \in BOOLEAN /\ lastLive' = lastLive
           /\ D!OnError => /\ snap' \in D!Snapshots /\ mock' \in BOOLEAN /\ lastLive' = lastLive
                           /\ mockLoad' \in {"idle", "loading", "cached"}
BY DEF D!TypeOK, D!ShowMock, D!OnError, D!LoadMock, D!Snapshots, D!MockSnap, D!page

\* A fetch that is sent or answered is a fetch.
LEMMA FetchTypes ==
    ASSUME D!TypeOK
    PROVE  /\ \A by \in {"poll", "refresh"} : D!Ask(by) \in D!Fetches
           /\ \A f \in fetches : [f EXCEPT !.back = TRUE, !.ver = ver[f.engine]] \in D!Fetches
BY DashConstants DEF D!TypeOK, D!Ask, D!Fetches

\* Every step of the dashboard keeps the types of its state.
LEMMA DashTypes == ASSUME D!TypeOK, D!Next PROVE D!TypeOK'
<1> USE DashConstants DEF D!TypeOK, D!env, D!stream, D!page
<1>1. ASSUME NEW e \in Engines, D!Advance(e) PROVE D!TypeOK'
    BY <1>1 DEF D!Advance
<1>2. ASSUME NEW e \in Engines, D!Outage(e) PROVE D!TypeOK'
    BY <1>2 DEF D!Outage
<1>3. ASSUME NEW e \in Engines, D!Recover(e) PROVE D!TypeOK'
    BY <1>3 DEF D!Recover
<1>4. ASSUME NEW e \in Engines, D!SwitchEngine(e) PROVE D!TypeOK'
    <2>1. UNCHANGED <<up, ver, outages, mockLoad, left>> /\ engine' = e
        BY <1>4 DEF D!SwitchEngine
    <2>2. /\ snap' \in D!Snapshots /\ mock' \in BOOLEAN /\ switches' \in 0..MaxSwitches
          /\ lastLive' \in {"never", "fresh", "stale"} /\ transport' \in {"ws", "poll", "down"}
        <3>1. switches < MaxSwitches /\ switches' = switches + 1
            BY <1>4 DEF D!SwitchEngine
        <3>2. snap' = D!NoSnap /\ lastLive' = "never" /\ transport' = "down"
            BY <1>4 DEF D!SwitchEngine
        <3>3. mock' \in BOOLEAN
            BY <1>4 DEF D!SwitchEngine
        <3> QED
            BY <3>1, <3>2, <3>3 DEF D!Snapshots
    <2>3. CASE UNCHANGED <<fetches, sock, frames, polling, late>>
        BY <2>1, <2>2, <2>3
    <2>4. CASE /\ fetches' = D!Stopped(fetches)
               /\ sock' = "connecting" /\ frames' = <<>> /\ polling' = FALSE /\ late' = 0
        <3>1. fetches' \subseteq D!Fetches
            BY <2>4 DEF D!Stopped
        <3>2. frames' \in Seq(0..MaxVer) /\ Len(frames') <= 1
            BY <2>4
        <3>3. late' \in Nat /\ sock' \in {"idle", "connecting", "open", "half"}
            BY <2>4
        <3>4. polling' \in BOOLEAN
            BY <2>4
        <3> QED
            BY <2>1, <2>2, <3>1, <3>2, <3>3, <3>4
    <2> QED
        BY <1>4, <2>3, <2>4 DEF D!SwitchEngine
<1>5. CASE D!PollTick
    BY <1>5, FetchTypes DEF D!PollTick
<1>6. ASSUME NEW f \in fetches, D!Answer(f) PROVE D!TypeOK'
    BY <1>6, FetchTypes DEF D!Answer
<1>7. ASSUME NEW f \in fetches, D!PollLands(f) PROVE D!TypeOK'
    <2>1. f.engine \in Engines /\ f.ver \in 0..MaxVer
        BY DEF D!Fetches
    <2>2. snap' \in D!Snapshots /\ fetches' \subseteq D!Fetches /\ late' \in Nat
        BY <1>7, <2>1, LiveType DEF D!PollLands, D!OnSnapshot
    <2> QED
        BY <1>7, <2>2 DEF D!PollLands, D!OnSnapshot
<1>8. ASSUME NEW f \in fetches, D!PollFails(f) PROVE D!TypeOK'
    BY <1>8, MockTypes DEF D!PollFails
<1>9. ASSUME NEW f \in fetches, D!RefreshLands(f) PROVE D!TypeOK'
    BY <1>9, LiveType DEF D!RefreshLands, D!OnSnapshot, D!Fetches
<1>10. ASSUME NEW f \in fetches, D!RefreshFails(f) PROVE D!TypeOK'
    BY <1>10 DEF D!RefreshFails
<1>11. CASE D!SockOpens
    BY <1>11 DEF D!SockOpens
<1>12. CASE D!SockDown
    BY <1>12 DEF D!SockDown
<1>13. CASE D!Retry
    BY <1>13 DEF D!Retry
<1>14. CASE D!Push
    BY <1>14 DEF D!Push
<1>15. CASE D!FrameArrives
    <2>1. Head(frames) \in 0..MaxVer /\ Tail(frames) \in Seq(0..MaxVer) /\ Len(Tail(frames)) <= 1
        BY <1>15 DEF D!FrameArrives
    <2> QED
        BY <1>15, <2>1, LiveType DEF D!FrameArrives, D!OnSnapshot
<1>16. CASE D!GoStale
    BY <1>16 DEF D!GoStale
<1>17. CASE D!MockArrives
    BY <1>17, MockTypes DEF D!MockArrives
<1>18. CASE D!MockUnavailable
    BY <1>18 DEF D!MockUnavailable
<1>19. CASE D!RefreshTick
    BY <1>19, FetchTypes DEF D!RefreshTick
<1>20. CASE D!Forward
    BY <1>20 DEF D!Forward
<1> QED
    BY <1>1, <1>2, <1>3, <1>4, <1>5, <1>6, <1>7, <1>8, <1>9, <1>10, <1>11, <1>12, <1>13, <1>14,
       <1>15, <1>16, <1>17, <1>18, <1>19, <1>20 DEF D!Next

\* What a fetch is about, before and after its answer.
LEMMA AnswerSame ==
    ASSUME D!TypeOK, NEW f \in fetches
    PROVE  LET g == [f EXCEPT !.back = TRUE, !.ver = ver[f.engine]]
           IN  g.by = f.by /\ g.engine = f.engine
BY DEF D!TypeOK, D!Fetches

\* No step brings up a second poll, or a poll of another engine.
LEMMA PollsStep == ASSUME DashInv, D!Next PROVE PollsInv'
<1> USE DEF DashInv, PollsInv, D!env, D!stream, D!page
<1>1. CASE fetches' \subseteq fetches /\ engine' = engine /\ polling' = polling
    BY <1>1
<1>2. ASSUME NEW e \in Engines, D!SwitchEngine(e) PROVE PollsInv'
    BY <1>2 DEF D!SwitchEngine, D!Stopped
<1>3. CASE D!PollTick
    <2>1. ~polling /\ polling' = TRUE /\ engine' = engine /\ fetches' = fetches \cup {D!Ask("poll")}
        BY <1>3 DEF D!PollTick
    <2>2. D!Ask("poll").engine = engine
        BY DEF D!Ask
    <2> QED
        BY <2>1, <2>2
<1>4. ASSUME NEW f \in fetches, D!Answer(f) PROVE PollsInv'
    <2> DEFINE g == [f EXCEPT !.back = TRUE, !.ver = ver[f.engine]]
    <2>1. g.by = f.by /\ g.engine = f.engine
        BY AnswerSame
    <2>2. fetches' = (fetches \ {f}) \cup {g} /\ engine' = engine /\ polling' = polling
        BY <1>4 DEF D!Answer
    <2> HIDE DEF g
    <2> QED
        BY <2>1, <2>2
<1>5. ASSUME NEW f \in fetches, D!PollLands(f) \/ D!PollFails(f) PROVE PollsInv'
    <2>1. f.by = "poll" /\ fetches' = fetches \ {f} /\ engine' = engine
        BY <1>5 DEF D!PollLands, D!PollFails
    <2> QED
        BY <2>1
<1>6. CASE D!RefreshTick
    <2>1. fetches' = fetches \cup {D!Ask("refresh")} /\ engine' = engine /\ polling' = polling
        BY <1>6 DEF D!RefreshTick
    <2>2. D!Ask("refresh").by = "refresh"
        BY DEF D!Ask
    <2> QED
        BY <2>1, <2>2
<1>7. ASSUME NEW e \in Engines, D!Advance(e) \/ D!Outage(e) \/ D!Recover(e) PROVE PollsInv'
    BY <1>1, <1>7 DEF D!Advance, D!Outage, D!Recover
<1>8. ASSUME NEW f \in fetches, D!RefreshLands(f) \/ D!RefreshFails(f) PROVE PollsInv'
    BY <1>1, <1>8 DEF D!RefreshLands, D!RefreshFails
<1>9. CASE D!SockOpens \/ D!SockDown \/ D!Retry \/ D!Push \/ D!FrameArrives
    BY <1>1, <1>9 DEF D!SockOpens, D!SockDown, D!Retry, D!Push, D!FrameArrives
<1>10. CASE D!GoStale \/ D!MockArrives \/ D!MockUnavailable \/ D!Forward
    BY <1>1, <1>10 DEF D!GoStale, D!MockArrives, D!MockUnavailable, D!Forward
<1> QED
    BY <1>2, <1>3, <1>4, <1>5, <1>6, <1>7, <1>8, <1>9, <1>10 DEF D!Next

\* The badge and the count of overtaking polls.
LEMMA BadgeStep == ASSUME DashInv, D!Next PROVE BadgeInv'
<1> USE DEF DashInv, BadgeInv, D!WsOpen, D!env, D!stream, D!page
<1>0. late \in Nat /\ polling \in BOOLEAN
    BY DEF D!TypeOK
<1>1. CASE UNCHANGED <<sock, late, polling, transport>>
    BY <1>1
<1>2. ASSUME NEW e \in Engines, D!SwitchEngine(e) PROVE BadgeInv'
    BY <1>0, <1>2 DEF D!SwitchEngine
<1>3. CASE D!PollTick
    BY <1>3 DEF D!PollTick
<1>4. ASSUME NEW f \in fetches, D!PollLands(f) PROVE BadgeInv'
    <2>1. polling
        BY <1>4 DEF D!PollLands, PollsInv
    <2> QED
        BY <1>0, <1>4, <2>1 DEF D!PollLands
<1>5. ASSUME NEW f \in fetches, D!PollFails(f) PROVE BadgeInv'
    BY <1>5 DEF D!PollFails
<1>6. ASSUME NEW e \in Engines, D!Outage(e) PROVE BadgeInv'
    BY <1>6 DEF D!Outage
<1>7. CASE D!SockOpens \/ D!SockDown \/ D!Retry
    BY <1>7 DEF D!SockOpens, D!SockDown, D!Retry
<1>8. ASSUME NEW e \in Engines, D!Advance(e) \/ D!Recover(e) PROVE BadgeInv'
    BY <1>1, <1>8 DEF D!Advance, D!Recover
<1>9. ASSUME NEW f \in fetches, D!Answer(f) \/ D!RefreshLands(f) \/ D!RefreshFails(f) PROVE BadgeInv'
    BY <1>1, <1>9 DEF D!Answer, D!RefreshLands, D!RefreshFails
<1>10. CASE D!Push \/ D!FrameArrives \/ D!RefreshTick
    BY <1>1, <1>10 DEF D!Push, D!FrameArrives, D!RefreshTick
<1>11. CASE D!GoStale \/ D!MockArrives \/ D!MockUnavailable \/ D!Forward
    BY <1>1, <1>11 DEF D!GoStale, D!MockArrives, D!MockUnavailable, D!Forward
<1> QED
    BY <1>2, <1>3, <1>4, <1>5, <1>6, <1>7, <1>8, <1>9, <1>10, <1>11 DEF D!Next

\* What a path to the page may put there.
Shows == D!MockIsLabelled' /\ D!ShownFromSelected'

\* A live snapshot of the selected engine, or of any by a panel's own refresh.
LEMMA LiveShows ==
    ASSUME NEW e \in Engines, NEW v, NEW via, D!OnSnapshot(e, v, via), engine' = engine,
           e = engine \/ via = "refresh"
    PROVE  Shows
BY DashConstants DEF D!OnSnapshot, D!Live, Shows, D!MockIsLabelled, D!ShownFromSelected

\* The bundled mock, with its flag.
LEMMA MockShows ==
    ASSUME DashInv, D!ShowMock \/ D!OnError, engine' = engine
    PROVE  Shows
BY DashConstants
   DEF D!ShowMock, D!OnError, D!LoadMock, D!page, D!MockSnap, D!Flags, DashInv, Shows,
       D!MockIsLabelled, D!ShownFromSelected

\* What is on screen stays labelled, and of the selected engine.
LEMMA ShownStep == ASSUME DashInv, D!Next PROVE Shows
<1> USE DEF D!env, D!stream, D!page
<1>0. engine \in Engines /\ \A f \in fetches : f.engine \in Engines
    BY DEF DashInv, D!TypeOK, D!Fetches
<1>1. CASE UNCHANGED <<snap, mock, engine>>
    BY <1>1 DEF DashInv, Shows, D!MockIsLabelled, D!ShownFromSelected, D!Flags
<1>2. ASSUME NEW e \in Engines, D!SwitchEngine(e) PROVE Shows
    BY <1>2, DashConstants DEF D!SwitchEngine, D!NoSnap, Shows, D!MockIsLabelled, D!ShownFromSelected
<1>3. ASSUME NEW f \in fetches, D!PollLands(f) PROVE Shows
    BY <1>0, <1>3, LiveShows DEF D!PollLands, DashInv, PollsInv
<1>4. ASSUME NEW f \in fetches, D!PollFails(f) PROVE Shows
    BY <1>4, MockShows DEF D!PollFails
<1>5. ASSUME NEW f \in fetches, D!RefreshLands(f) PROVE Shows
    BY <1>0, <1>5, LiveShows DEF D!RefreshLands
<1>6. CASE D!FrameArrives
    BY <1>0, <1>6, LiveShows DEF D!FrameArrives
<1>7. CASE D!MockArrives
    BY <1>7, MockShows DEF D!MockArrives
<1>8. ASSUME NEW e \in Engines, D!Advance(e) \/ D!Outage(e) \/ D!Recover(e) PROVE Shows
    BY <1>1, <1>8 DEF D!Advance, D!Outage, D!Recover
<1>9. ASSUME NEW f \in fetches, D!Answer(f) \/ D!RefreshFails(f) PROVE Shows
    BY <1>1, <1>9 DEF D!Answer, D!RefreshFails
<1>10. CASE D!PollTick \/ D!SockOpens \/ D!SockDown \/ D!Retry \/ D!Push
    BY <1>1, <1>10 DEF D!PollTick, D!SockOpens, D!SockDown, D!Retry, D!Push
<1>11. CASE D!GoStale \/ D!MockUnavailable \/ D!RefreshTick \/ D!Forward
    BY <1>1, <1>11 DEF D!GoStale, D!MockUnavailable, D!RefreshTick, D!Forward
<1> QED
    BY <1>2, <1>3, <1>4, <1>5, <1>6, <1>7, <1>8, <1>9, <1>10, <1>11 DEF D!Next

\* The dashboard keeps its invariant, and with it what it promises.
LEMMA DashStep == ASSUME DashInv, D!Next PROVE DashInv'
<1>1. D!TypeOK'
    BY DashTypes DEF DashInv
<1> QED
    BY <1>1, PollsStep, BadgeStep, ShownStep DEF DashInv, Shows

\* What the page promises of its stream, from the invariant.
LEMMA DashPromises ==
    DashInv => D!TypeOK /\ D!MockIsLabelled /\ D!ShownFromSelected /\ D!PollYields
<1>1. DashInv => D!PollYields
    BY DEF DashInv, BadgeInv, D!PollYields, D!Connection
<1> QED
    BY <1>1 DEF DashInv

------------------------------------------------------------------------------
(* The console.                                                              *)

Ids     == Held \cup PlanIds
Orders  == {"prompt", "execute"}
Result  == [plan : PlanIds \cup {NoPlan}, approved : BOOLEAN]
Engine  == [kill : BOOLEAN, halted : BOOLEAN, stress : BOOLEAN, loss : BOOLEAN, open : SUBSET Ids,
            plans : [PlanIds -> {"none", "vetoed", "pending", "consumed"}]]
Screen  == [kill : BOOLEAN, halted : BOOLEAN, open : SUBSET Ids, mode : Modes]
Control == [busy : {"no", "prompt", "execute"}, result : Result, receipt : PlanIds \cup {NoPlan},
            confirm : BOOLEAN, stressing : BOOLEAN, unwinding : Ids \cup {NoPlan}, resetting : BOOLEAN]
Message == [id : Nat, kind : C!Kinds, arg : Ids \cup {NoPlan}, flag : BOOLEAN,
            answer : {"none", "ok", "error"}, result : Result]

\* The records of the console in full.
ConsoleTyped ==
    /\ mode \in Modes /\ eng \in Engine
    /\ shown \in Screen /\ mocked \in BOOLEAN /\ (mocked => shown = C!MockShown)
    /\ ui \in Control /\ net \subseteq Message /\ posts \in 0..MaxPosts
    /\ runs \in [Ids -> Nat]
    /\ stopped \subseteq Ids /\ agreed \subseteq PlanIds
    /\ wish \in [kill : BOOLEAN, clean : BOOLEAN]

\* A confirmation is only ever sent to a testnet engine, and an Execute with
\* one is for a plan whose box was ticked.
FlagInv ==
    /\ shown.mode \in {mode, "paper"}
    /\ \A p \in net : p.kind \in {"execute", "unwind"} /\ p.flag => mode = "testnet"
    /\ \A p \in net : p.kind = "execute" => p.arg \in PlanIds /\ (p.flag => p.arg \in agreed)

\* What ran is spent: the plan consumed, the position closed.
RunsInv ==
    /\ \A p \in PlanIds : runs[p] > 0 => eng.plans[p] = "consumed"
    /\ \A x \in Held : runs[x] > 0 => x \notin eng.open
    /\ \A x \in Ids : runs[x] <= 1

\* One prompt or Execute at a time; an Execute is for the plan on screen.
BusyInv ==
    /\ \A p \in net : p.kind \in Orders => p.kind = ui.busy
    /\ \A p, q \in net : p.kind \in Orders /\ q.kind \in Orders => p = q
    /\ \A p \in net : p.kind = "execute" => p.arg = ui.result.plan
    /\ ui.busy = "prompt" => ui.receipt = NoPlan
    /\ ui.receipt # NoPlan => ui.receipt = ui.result.plan

\* A press of the switch that the engine has not seen asks for what was last
\* wished; without one, the switch is there.
KillPending == \E p \in net : p.kind = "kill" /\ p.answer = "none"
KillInv ==
    wish.clean =>
        /\ \A p \in net : p.kind = "kill" /\ p.answer = "none" => p.flag = wish.kill
        /\ ~KillPending => eng.kill = wish.kill

ConsoleInv ==
    /\ ConsoleTyped /\ FlagInv /\ RunsInv /\ BusyInv /\ KillInv
    /\ C!NoUnconfirmedOrder

\* What the console assumes of its constants.
LEMMA ConsoleConstants ==
    /\ "paper" \in Modes /\ Modes \subseteq {"paper", "testnet", "live"}
    /\ Held \cap PlanIds = {} /\ NoPlan \notin Ids /\ MaxPosts \in Nat
BY SurfacesAssumption DEF C!ConsoleAssumption, Ids

\* A fresh console over its engine.
LEMMA ConsoleInit ==
    ASSUME NEW m \in Modes, NEW halt \in BOOLEAN, C!InitIn(m, halt)
    PROVE  ConsoleInv
<1> USE ConsoleConstants
<1>1. eng \in Engine /\ eng.kill = FALSE /\ eng.loss = FALSE
    <2>1. [p \in PlanIds |-> "none"] \in [PlanIds -> {"none", "vetoed", "pending", "consumed"}]
        OBVIOUS
    <2>2. (IF halt THEN {} ELSE Held) \in SUBSET Ids
        BY DEF Ids
    <2> QED
        BY <2>1, <2>2 DEF C!InitIn, Engine
<1>2. shown = C!Shown(eng, m) /\ shown \in Screen /\ shown.mode = m
    <2>1. shown = C!Shown(eng, m)
        BY DEF C!InitIn
    <2> QED
        BY <1>1, <2>1 DEF C!Shown, Screen, Engine
<1>3. ui \in Control /\ ui.busy = "no" /\ ui.receipt = NoPlan
    BY DEF C!InitIn, C!FreshUi, C!NoResult, Control, Result
<1>4. wish \in [kill : BOOLEAN, clean : BOOLEAN] /\ wish.kill = FALSE
    BY DEF C!InitIn
<1>5. runs = [x \in Ids |-> 0] /\ mode = m /\ net = {} /\ posts = 0 /\ stopped = {} /\ agreed = {}
    BY DEF C!InitIn, Ids
<1>6. mocked \in BOOLEAN /\ (mocked => shown = C!MockShown)
    BY DEF C!InitIn
<1>7. runs \in [Ids -> Nat] /\ \A x \in Ids : runs[x] = 0
    BY <1>5
<1>8. ConsoleTyped
    BY <1>1, <1>2, <1>3, <1>4, <1>5, <1>6, <1>7 DEF ConsoleTyped
<1>9. FlagInv /\ BusyInv /\ KillInv
    BY <1>1, <1>2, <1>3, <1>4, <1>5 DEF FlagInv, BusyInv, KillInv
<1>10. RunsInv
    BY <1>7 DEF RunsInv, Ids
<1>11. C!NoUnconfirmedOrder
    <2>1. DOMAIN runs = Ids /\ PlanIds \subseteq Ids
        BY <1>5 DEF Ids
    <2> QED
        BY <1>1, <1>7, <2>1 DEF C!NoUnconfirmedOrder
<1> QED
    BY <1>8, <1>9, <1>10, <1>11 DEF ConsoleInv

\* An idle console keeps what it had.
LEMMA ConsoleIdle == ASSUME ConsoleInv, UNCHANGED console PROVE ConsoleInv'
<1> USE DEF ConsoleInv, console
<1>1. ConsoleTyped'
    BY DEF ConsoleTyped
<1>2. FlagInv' /\ RunsInv' /\ BusyInv'
    BY DEF FlagInv, RunsInv, BusyInv
<1>3. KillInv' /\ C!NoUnconfirmedOrder'
    BY DEF KillInv, KillPending, C!NoUnconfirmedOrder, C!RealOrders
<1> QED
    BY <1>1, <1>2, <1>3

\* What a click puts on the wire.
Sends(kind, arg, flag) ==
    \E m \in Message :
        /\ m.kind = kind /\ m.arg = arg /\ m.flag = flag /\ m.answer = "none"
        /\ net' = net \cup {m}

\* What the engine's answer makes of a message.
Answers(p) ==
    \E q \in Message :
        /\ q.kind = p.kind /\ q.arg = p.arg /\ q.flag = p.flag /\ q.answer \in {"ok", "error"}
        /\ net' = (net \ {p}) \cup {q}

\* A click that posts: its post, and what it leaves of the page's state.
LEMMA PostEffect ==
    ASSUME ConsoleTyped, NEW kind \in C!Kinds, NEW arg \in Ids \cup {NoPlan}, NEW flag \in BOOLEAN,
           C!Post(kind, arg, flag)
    PROVE  Sends(kind, arg, flag) /\ posts' \in 0..MaxPosts
<1> DEFINE m(i) == [id |-> i, kind |-> kind, arg |-> arg, flag |-> flag,
                    answer |-> "none", result |-> C!NoResult]
<1>1. posts \in Nat /\ posts' \in 0..MaxPosts
    BY ConsoleConstants DEF ConsoleTyped, C!Post
<1>2. C!NoResult \in Result
    BY DEF C!NoResult, Result
<1>3. PICK i \in 0..posts : net' = net \cup {m(i)}
    BY DEF C!Post
<1>4. m(i) \in Message
    BY <1>1, <1>2 DEF Message
<1> QED
    BY <1>1, <1>3, <1>4 DEF Sends

\* An answer of the backend marks the posts it answers, and nothing else of the page.
LEMMA AnsweredEffect ==
    ASSUME ConsoleTyped, NEW p \in net, NEW a \in {"ok", "error"}, C!Answered(p, a)
    PROVE  Answers(p)
<1> DEFINE q == [p EXCEPT !.answer = a]
<1>1. q \in Message /\ q.kind = p.kind /\ q.arg = p.arg /\ q.flag = p.flag /\ q.answer = a
    BY DEF ConsoleTyped, Message
<1>2. net' = (net \ {p}) \cup {q}
    BY DEF C!Answered
<1> HIDE DEF q
<1> QED
    BY <1>1, <1>2 DEF Answers

\* After a step that sends, answers or drops a message, the wire holds messages.
LEMMA WireTyped ==
    ASSUME ConsoleTyped
    PROVE  /\ \A k, a, f : Sends(k, a, f) => net' \subseteq Message
           /\ \A p : Answers(p) => net' \subseteq Message
           /\ net' \subseteq net => net' \subseteq Message
BY DEF ConsoleTyped, Sends, Answers

\* The engine after a prompt.
LEMMA PromptEffect ==
    ASSUME ConsoleTyped, NEW p \in net, C!HandlePrompt(p)
    PROVE  /\ Answers(p) /\ eng' \in Engine /\ runs' = runs
           /\ eng'.kill = eng.kill /\ eng'.loss = eng.loss /\ eng'.open = eng.open
           /\ \A x \in PlanIds : eng.plans[x] # "none" => eng'.plans[x] = eng.plans[x]
<1>1. CASE C!Answered(p, "ok") /\ UNCHANGED eng /\ UNCHANGED runs
    BY <1>1, AnsweredEffect DEF ConsoleTyped
<1>2. CASE C!Unused # {} /\ ~(C!Answered(p, "ok") /\ UNCHANGED eng)
    <2> DEFINE x == CHOOSE y \in C!Unused : TRUE
    <2>1. x \in PlanIds /\ eng.plans[x] = "none"
        BY <1>2 DEF C!Unused
    <2>2. PICK ok \in BOOLEAN :
              /\ eng' = [eng EXCEPT !.plans[x] = IF ok THEN "pending" ELSE "vetoed"]
              /\ net' = (net \ {p}) \cup {[p EXCEPT !.answer = "ok",
                                           !.result = [plan |-> x, approved |-> ok]]}
        BY <1>2 DEF C!HandlePrompt
    <2> HIDE DEF x
    <2> DEFINE q == [p EXCEPT !.answer = "ok", !.result = [plan |-> x, approved |-> ok]]
               s == IF ok THEN "pending" ELSE "vetoed"
    <2>3. [plan |-> x, approved |-> ok] \in Result
        BY <2>1 DEF Result
    <2>4. q \in Message /\ q.kind = p.kind /\ q.arg = p.arg /\ q.flag = p.flag /\ q.answer = "ok"
        BY <2>3 DEF ConsoleTyped, Message
    <2>5. net' = (net \ {p}) \cup {q}
        BY <2>2
    <2> HIDE DEF q
    <2>6. Answers(p)
        BY <2>4, <2>5 DEF Answers
    <2>7. s \in {"pending", "vetoed"} /\ eng' = [eng EXCEPT !.plans[x] = s]
        BY <2>2
    <2> HIDE DEF s
    <2>8. /\ eng' \in Engine /\ eng'.kill = eng.kill /\ eng'.loss = eng.loss /\ eng'.open = eng.open
          /\ \A y \in PlanIds : y # x => eng'.plans[y] = eng.plans[y]
        BY <2>1, <2>7 DEF ConsoleTyped, Engine
    <2>9. runs' = runs
        BY DEF C!HandlePrompt
    <2> QED
        BY <2>1, <2>6, <2>8, <2>9
<1> QED
    BY <1>1, <1>2 DEF C!HandlePrompt

\* One more run of x.
LEMMA RanEffect ==
    ASSUME ConsoleTyped, NEW x \in Ids, C!Ran(x)
    PROVE  /\ runs' \in [Ids -> Nat] /\ runs'[x] = runs[x] + 1
           /\ \A y \in Ids : y # x => runs'[y] = runs[y]
BY DEF ConsoleTyped, C!Ran

\* The engine after an Execute: refused, spent without a run, or run once.
LEMMA ExecuteEffect ==
    ASSUME ConsoleTyped, FlagInv, NEW p \in net, C!HandleExecute(p)
    PROVE  /\ Answers(p) /\ eng' \in Engine /\ runs' \in [Ids -> Nat]
           /\ eng'.kill = eng.kill /\ eng'.loss = eng.loss
           /\ \/ UNCHANGED <<eng, runs>>
              \/ /\ eng.plans[p.arg] = "pending" /\ eng'.plans[p.arg] = "consumed"
                 /\ p.arg \in PlanIds /\ (mode # "paper" => p.flag)
                 /\ \A y \in PlanIds : y # p.arg => eng'.plans[y] = eng.plans[y]
                 /\ \A x \in Held : x \in eng'.open => x \in eng.open
                 /\ runs'[p.arg] <= runs[p.arg] + 1
                 /\ \A y \in Ids : y # p.arg => runs'[y] = runs[y]
<1>0. p.arg \in PlanIds /\ PlanIds \subseteq Ids /\ p.arg \notin Held
    BY ConsoleConstants DEF FlagInv, C!HandleExecute, Ids
<1>1. Answers(p)
    BY AnsweredEffect DEF C!HandleExecute, C!Refuses
<1>2. CASE UNCHANGED <<eng, runs>>
    BY <1>1, <1>2 DEF ConsoleTyped
<1>3. CASE ~UNCHANGED <<eng, runs>>
    <2>1. eng.plans[p.arg] = "pending" /\ (mode # "paper" => p.flag)
        BY <1>3 DEF C!HandleExecute, C!RealOrders, C!Refuses
    <2>2. CASE eng' = [eng EXCEPT !.plans[p.arg] = "consumed"] /\ UNCHANGED runs
        <3>1. /\ eng' \in Engine /\ eng'.kill = eng.kill /\ eng'.loss = eng.loss
              /\ eng'.open = eng.open /\ eng'.plans[p.arg] = "consumed"
              /\ \A y \in PlanIds : y # p.arg => eng'.plans[y] = eng.plans[y]
            BY <1>0, <2>2 DEF ConsoleTyped, Engine
        <3>2. runs[p.arg] \in Nat
            BY <1>0 DEF ConsoleTyped
        <3> QED
            BY <1>0, <1>1, <2>1, <2>2, <3>1, <3>2 DEF ConsoleTyped
    <2>3. CASE /\ eng' = [eng EXCEPT !.plans[p.arg] = "consumed", !.open = @ \cup {p.arg}]
               /\ C!Ran(p.arg)
        <3>1. /\ eng' \in Engine /\ eng'.kill = eng.kill /\ eng'.loss = eng.loss
              /\ eng'.open = eng.open \cup {p.arg} /\ eng'.plans[p.arg] = "consumed"
              /\ \A y \in PlanIds : y # p.arg => eng'.plans[y] = eng.plans[y]
            BY <1>0, <2>3 DEF ConsoleTyped, Engine
        <3>2. /\ runs' \in [Ids -> Nat] /\ runs'[p.arg] = runs[p.arg] + 1 /\ runs[p.arg] \in Nat
              /\ \A y \in Ids : y # p.arg => runs'[y] = runs[y]
            BY <1>0, <2>3, RanEffect DEF ConsoleTyped
        <3> QED
            BY <1>0, <1>1, <2>1, <3>1, <3>2
    <2> QED
        BY <1>3, <2>1, <2>2, <2>3 DEF C!HandleExecute, C!RealOrders, C!Refuses
<1> QED
    BY <1>2, <1>3

\* A message handled: answered, the state typed, the switch as asked, and what
\* ran spent and confirmed.
Handled(p) ==
    /\ Answers(p) /\ eng' \in Engine /\ runs' \in [Ids -> Nat] /\ stopped' \subseteq Ids
    /\ eng'.kill = (IF p.kind = "kill" THEN p.flag ELSE eng.kill)
    /\ RunsInv' /\ C!NoUnconfirmedOrder'

\* Nothing ran and no position opened: what ran stays spent and confirmed.
LEMMA NoRun ==
    ASSUME ConsoleInv, UNCHANGED <<mode, runs, agreed, stopped>>, eng' \in Engine,
           \A x \in PlanIds : eng.plans[x] = "consumed" => eng'.plans[x] = "consumed",
           eng'.open \subseteq eng.open,
           mode # "paper" /\ ~eng.loss => ~eng'.loss
    PROVE  RunsInv' /\ C!NoUnconfirmedOrder'
<1>1. RunsInv'
    BY DEF ConsoleInv, RunsInv
<1>2. C!NoUnconfirmedOrder'
    BY DEF ConsoleInv, C!NoUnconfirmedOrder, C!RealOrders
<1> QED
    BY <1>1, <1>2

\* A new prompt only adds a plan and runs nothing.
LEMMA HandlePromptOK ==
    ASSUME ConsoleInv, NEW p \in net, p.kind = "prompt", C!HandlePrompt(p),
           UNCHANGED <<mode, agreed, stopped>>
    PROVE  Handled(p)
<1>0. ConsoleTyped
    BY DEF ConsoleInv
<1>1. /\ Answers(p) /\ eng' \in Engine /\ runs' = runs
      /\ eng'.kill = eng.kill /\ eng'.loss = eng.loss /\ eng'.open = eng.open
      /\ \A x \in PlanIds : eng.plans[x] # "none" => eng'.plans[x] = eng.plans[x]
    BY <1>0, PromptEffect
<1>2. RunsInv' /\ C!NoUnconfirmedOrder'
    BY <1>1, NoRun
<1> QED
    BY <1>0, <1>1, <1>2 DEF Handled, ConsoleTyped

\* An execution runs a plan at most once, and a real one only if it was agreed to.
LEMMA HandleExecuteOK ==
    ASSUME ConsoleInv, NEW p \in net, p.kind = "execute", C!HandleExecute(p),
           UNCHANGED <<mode, agreed, stopped>>
    PROVE  Handled(p)
<1>0. ConsoleTyped /\ FlagInv
    BY DEF ConsoleInv
<1>1. /\ Answers(p) /\ eng' \in Engine /\ runs' \in [Ids -> Nat]
      /\ eng'.kill = eng.kill /\ eng'.loss = eng.loss
    BY <1>0, ExecuteEffect
<1>2. CASE UNCHANGED <<eng, runs>>
    <2>1. RunsInv' /\ C!NoUnconfirmedOrder'
        BY <1>1, <1>2, NoRun
    <2> QED
        BY <1>0, <1>1, <2>1 DEF Handled, ConsoleTyped
<1>3. CASE ~UNCHANGED <<eng, runs>>
    <2>1. /\ eng.plans[p.arg] = "pending" /\ eng'.plans[p.arg] = "consumed"
          /\ p.arg \in PlanIds /\ (mode # "paper" => p.flag)
          /\ \A y \in PlanIds : y # p.arg => eng'.plans[y] = eng.plans[y]
          /\ \A x \in Held : x \in eng'.open => x \in eng.open
          /\ runs'[p.arg] <= runs[p.arg] + 1
          /\ \A y \in Ids : y # p.arg => runs'[y] = runs[y]
        BY <1>0, <1>3, ExecuteEffect
    <2>2. /\ runs[p.arg] = 0 /\ runs'[p.arg] \in Nat /\ p.arg \notin Held
          /\ Held \subseteq Ids /\ PlanIds \subseteq Ids
        BY <1>0, <1>1, <2>1, ConsoleConstants DEF ConsoleInv, RunsInv, ConsoleTyped, Ids
    <2>3. RunsInv'
        BY <2>1, <2>2 DEF ConsoleInv, RunsInv
    <2>4. mode # "live" /\ (mode = "testnet" => p.arg \in agreed)
        BY <1>0, <2>1 DEF FlagInv
    <2>5. C!NoUnconfirmedOrder'
        BY <1>0, <1>1, <2>1, <2>2, <2>4 DEF ConsoleInv, C!NoUnconfirmedOrder, C!RealOrders
    <2> QED
        BY <1>0, <1>1, <2>3, <2>5 DEF Handled, ConsoleTyped
<1> QED
    BY <1>2, <1>3

\* The three switches: the kill switch becomes what the press asked, nothing runs.
LEMMA HandleSwitchOK ==
    ASSUME ConsoleInv, NEW p \in net, C!HandleKill(p) \/ C!HandleMinEdge(p) \/ C!HandleResetHalt(p),
           UNCHANGED <<mode, agreed, stopped>>
    PROVE  Handled(p)
<1>0. ConsoleTyped /\ p.flag \in BOOLEAN
    BY DEF ConsoleInv, ConsoleTyped, Message
<1>1. Answers(p)
    BY <1>0, AnsweredEffect DEF C!HandleKill, C!HandleMinEdge, C!HandleResetHalt, C!Refuses
<1>2. runs' = runs
    BY DEF C!HandleKill, C!HandleMinEdge, C!HandleResetHalt, C!Refuses
<1>3. PICK loss \in BOOLEAN : loss = (p.flag /\ ~C!RealOrders)
    OBVIOUS
<1>4. /\ eng' \in Engine /\ eng'.open = eng.open /\ eng'.plans = eng.plans
      /\ eng'.kill = (IF p.kind = "kill" THEN p.flag ELSE eng.kill)
      /\ mode # "paper" /\ ~eng.loss => ~eng'.loss
    <2>1. CASE C!HandleKill(p)
        <3>1. p.kind = "kill" /\ eng' = [eng EXCEPT !.kill = p.flag]
            BY <2>1 DEF C!HandleKill
        <3> QED
            BY <1>0, <3>1 DEF ConsoleTyped, Engine
    <2>2. CASE C!HandleMinEdge(p)
        <3>1. p.kind = "min_edge" /\ eng' = [eng EXCEPT !.loss = loss]
            BY <1>3, <2>2 DEF C!HandleMinEdge
        <3>2. /\ eng' \in Engine /\ eng'.open = eng.open /\ eng'.plans = eng.plans
              /\ eng'.kill = eng.kill /\ eng'.loss = loss
            BY <1>0, <3>1 DEF ConsoleTyped, Engine
        <3>3. mode # "paper" => ~loss
            BY <1>3 DEF C!RealOrders
        <3> QED
            BY <3>1, <3>2, <3>3
    <2>3. CASE C!HandleResetHalt(p)
        <3>1. p.kind = "reset_halt" /\ (eng' = eng \/ eng' = [eng EXCEPT !.halted = FALSE])
            BY <2>3 DEF C!HandleResetHalt, C!Refuses
        <3> QED
            BY <1>0, <3>1 DEF ConsoleTyped, Engine
    <2> QED
        BY <2>1, <2>2, <2>3
<1>5. RunsInv' /\ C!NoUnconfirmedOrder'
    BY <1>2, <1>4, NoRun
<1> QED
    BY <1>0, <1>1, <1>2, <1>4, <1>5 DEF Handled, ConsoleTyped

\* An unwind closes its position at most once.
LEMMA HandleUnwindOK ==
    ASSUME ConsoleInv, NEW p \in net, C!HandleUnwind(p), UNCHANGED <<mode, agreed, stopped>>
    PROVE  Handled(p)
<1>0. ConsoleTyped /\ FlagInv /\ p.kind = "unwind"
    BY DEF ConsoleInv, C!HandleUnwind
<1>1. Answers(p)
    BY <1>0, AnsweredEffect DEF C!HandleUnwind, C!Refuses
<1>2. CASE UNCHANGED <<eng, runs>>
    <2>1. RunsInv' /\ C!NoUnconfirmedOrder'
        BY <1>0, <1>2, NoRun DEF ConsoleTyped
    <2> QED
        BY <1>0, <1>1, <1>2, <2>1 DEF Handled, ConsoleTyped
<1>3. CASE ~UNCHANGED <<eng, runs>>
    <2>1. /\ p.arg \in eng.open /\ (mode # "paper" => p.flag)
          /\ eng' = [eng EXCEPT !.open = @ \ {p.arg}]
          /\ IF p.arg \in Held THEN C!Ran(p.arg) ELSE UNCHANGED runs
        BY <1>3 DEF C!HandleUnwind, C!RealOrders, C!Refuses
    <2>2. p.arg \in Ids
        BY <1>0, <2>1 DEF ConsoleTyped, Engine
    <2>3. /\ eng' \in Engine /\ eng'.kill = eng.kill /\ eng'.loss = eng.loss
          /\ eng'.open = eng.open \ {p.arg} /\ eng'.plans = eng.plans
        BY <1>0, <2>1 DEF ConsoleTyped, Engine
    <2>4. CASE p.arg \notin Held
        <3>1. RunsInv' /\ C!NoUnconfirmedOrder'
            BY <2>1, <2>3, <2>4, NoRun
        <3> QED
            BY <1>0, <1>1, <2>1, <2>3, <2>4, <3>1 DEF Handled, ConsoleTyped
    <2>5. CASE p.arg \in Held
        <3>1. /\ runs' \in [Ids -> Nat] /\ runs'[p.arg] = runs[p.arg] + 1
              /\ \A y \in Ids : y # p.arg => runs'[y] = runs[y]
            BY <1>0, <2>1, <2>2, <2>5, RanEffect
        <3>2. /\ runs[p.arg] = 0 /\ p.arg \notin PlanIds
              /\ Held \subseteq Ids /\ PlanIds \subseteq Ids
            BY <1>0, <2>1, <2>2, <2>5, ConsoleConstants DEF ConsoleInv, RunsInv, ConsoleTyped, Ids
        <3>3. RunsInv'
            BY <2>3, <3>1, <3>2 DEF ConsoleInv, RunsInv
        <3>4. mode # "live"
            BY <1>0, <2>1 DEF FlagInv
        <3>5. C!NoUnconfirmedOrder'
            BY <1>0, <2>3, <3>1, <3>2, <3>4 DEF ConsoleInv, C!NoUnconfirmedOrder, C!RealOrders
        <3> QED
            BY <1>0, <1>1, <2>3, <3>1, <3>3, <3>5 DEF Handled, ConsoleTyped
    <2> QED
        BY <2>4, <2>5
<1> QED
    BY <1>2, <1>3

\* A stress scenario opens no position, and closes only what the stop monitor closes.
LEMMA HandleStressOK ==
    ASSUME ConsoleInv, NEW p \in net, C!HandleStress(p), UNCHANGED <<mode, agreed>>
    PROVE  Handled(p)
<1>0. ConsoleTyped /\ p.kind # "kill"
    BY DEF ConsoleInv, C!HandleStress
<1>1. Answers(p)
    BY <1>0, AnsweredEffect DEF C!HandleStress, C!Refuses
<1>2. CASE UNCHANGED <<runs, stopped>> /\ (eng' = eng \/ eng' = [eng EXCEPT !.stress = FALSE])
    <2>1. /\ eng' \in Engine /\ eng'.open = eng.open /\ eng'.plans = eng.plans
          /\ eng'.kill = eng.kill /\ eng'.loss = eng.loss
        BY <1>0, <1>2 DEF ConsoleTyped, Engine
    <2>2. RunsInv' /\ C!NoUnconfirmedOrder'
        BY <1>2, <2>1, NoRun
    <2> QED
        BY <1>0, <1>1, <1>2, <2>1, <2>2 DEF Handled, ConsoleTyped
<1>3. ASSUME NEW breached \in {{}, eng.open}, NEW halts \in BOOLEAN,
             mode = "testnet" => eng.open = {},
             eng' = [eng EXCEPT !.stress = TRUE, !.halted = @ \/ halts, !.open = @ \ breached],
             runs' = [x \in DOMAIN runs |-> IF x \in breached \cap Held THEN runs[x] + 1 ELSE runs[x]],
             stopped' = stopped \cup breached
      PROVE  Handled(p)
    <2>1. breached \subseteq eng.open /\ breached \subseteq Ids
        BY <1>0 DEF ConsoleTyped, Engine
    <2>2. /\ eng' \in Engine /\ eng'.open = eng.open \ breached /\ eng'.plans = eng.plans
          /\ eng'.kill = eng.kill /\ eng'.loss = eng.loss
        BY <1>0, <1>3 DEF ConsoleTyped, Engine
    <2>3. /\ runs' \in [Ids -> Nat] /\ stopped' \subseteq Ids
          /\ \A x \in Ids : x \notin breached \cap Held => runs'[x] = runs[x]
          /\ \A x \in breached \cap Held : runs'[x] = runs[x] + 1
        BY <1>0, <1>3, <2>1 DEF ConsoleTyped, Ids
    <2>4. \A x \in breached \cap Held : runs[x] = 0 /\ x \notin PlanIds
        BY <1>0, <2>1, ConsoleConstants DEF ConsoleInv, RunsInv, ConsoleTyped, Ids
    <2>5. PlanIds \subseteq Ids /\ Held \subseteq Ids
        BY DEF Ids
    <2>6. RunsInv'
        BY <2>1, <2>2, <2>3, <2>4, <2>5 DEF ConsoleInv, RunsInv
    <2>7. C!NoUnconfirmedOrder'
        <3>1. DOMAIN runs = Ids /\ DOMAIN runs' = Ids
            BY <1>0, <2>3 DEF ConsoleTyped
        <3> QED
            BY <1>3, <2>1, <2>2, <2>3, <2>4, <2>5, <3>1 DEF ConsoleInv, C!NoUnconfirmedOrder, C!RealOrders
    <2> QED
        BY <1>0, <1>1, <2>2, <2>3, <2>6, <2>7 DEF Handled
<1>4. CASE p.kind = "stress_reset"
    BY <1>2, <1>4 DEF C!HandleStress
<1>5. CASE C!Refuses(p) /\ UNCHANGED stopped
    BY <1>2, <1>5 DEF C!Refuses
<1>6. CASE p.kind \in {"equity_shock", "basis_shock"} /\ ~(C!Refuses(p) /\ UNCHANGED stopped)
    <2>1. PICK breached \in {{}, eng.open} :
              /\ mode = "testnet" => eng.open = {}
              /\ eng' = [eng EXCEPT !.stress = TRUE, !.halted = @ \/ p.kind = "equity_shock",
                                    !.open = @ \ breached]
              /\ runs' = [x \in DOMAIN runs |->
                             IF x \in breached \cap Held THEN runs[x] + 1 ELSE runs[x]]
              /\ stopped' = stopped \cup breached
        BY <1>6 DEF C!HandleStress
    <2>2. PICK halts \in BOOLEAN : halts = (p.kind = "equity_shock")
        OBVIOUS
    <2>3. eng' = [eng EXCEPT !.stress = TRUE, !.halted = @ \/ halts, !.open = @ \ breached]
        BY <2>1, <2>2
    <2> QED
        BY <1>3, <2>1, <2>3
<1>7. \/ p.kind = "stress_reset"
      \/ C!Refuses(p) /\ UNCHANGED stopped
      \/ p.kind \in {"equity_shock", "basis_shock"} /\ ~(C!Refuses(p) /\ UNCHANGED stopped)
    BY DEF C!HandleStress
<1> QED
    BY <1>4, <1>5, <1>6, <1>7

\* Whatever message the engine handles.
LEMMA HandleOK ==
    ASSUME ConsoleInv, NEW p \in net, C!Handle(p)
    PROVE  Handled(p) /\ p.answer = "none" /\ UNCHANGED <<mode, shown, mocked, ui, posts, agreed, wish>>
<1>1. p.answer = "none" /\ UNCHANGED <<mode, shown, mocked, ui, posts, agreed, wish>>
    BY DEF C!Handle
<1>2. CASE C!HandleStress(p)
    BY <1>1, <1>2, HandleStressOK
<1>3. CASE ~C!HandleStress(p)
    <2>1. UNCHANGED stopped
        BY <1>3 DEF C!Handle
    <2>2. CASE C!HandlePrompt(p)
        BY <1>1, <2>1, <2>2, HandlePromptOK DEF C!HandlePrompt
    <2>3. CASE C!HandleExecute(p)
        BY <1>1, <2>1, <2>3, HandleExecuteOK DEF C!HandleExecute
    <2>4. CASE C!HandleUnwind(p)
        BY <1>1, <2>1, <2>4, HandleUnwindOK
    <2>5. CASE C!HandleKill(p) \/ C!HandleMinEdge(p) \/ C!HandleResetHalt(p)
        BY <1>1, <2>1, <2>5, HandleSwitchOK
    <2> QED
        BY <1>1, <1>3, <2>2, <2>3, <2>4, <2>5 DEF C!Handle
<1> QED
    BY <1>2, <1>3

\* The console's own state when a message settles.
LEMMA FinallyEffect ==
    ASSUME NEW p \in Message, NEW u \in Control
    PROVE  /\ C!Finally(p, u) \in Control
           /\ C!Finally(p, u).result = u.result /\ C!Finally(p, u).receipt = u.receipt
           /\ C!Finally(p, u).busy = (IF p.kind \in Orders THEN "no" ELSE u.busy)
<1>1. p.kind \in {"prompt", "execute", "kill", "unwind", "reset_halt", "min_edge",
                  "basis_shock", "equity_shock", "stress_reset"}
    BY DEF Message, C!Kinds, C!Scenarios
<1> QED
    BY <1>1 DEF C!Finally, C!Scenarios, Control, Orders

\* The result and the receipt an answer brings are those of its own click.
LEMMA AnswerShown ==
    ASSUME NEW p \in Message, NEW u \in Control, p.kind = "execute" => p.arg \in PlanIds
    PROVE  /\ C!OnAnswer(p, u) \in Control /\ C!OnAnswer(p, u).busy = u.busy
           /\ C!OnAnswer(p, u).result = (IF p.kind = "prompt" THEN p.result ELSE u.result)
           /\ C!OnAnswer(p, u).receipt = (IF p.kind = "execute" THEN p.arg ELSE u.receipt)
<1>1. p.result \in Result
    BY DEF Message
<1> QED
    BY <1>1 DEF C!OnAnswer, Control

\* What a settled or lost answer leaves of the controls, the finally block included.
LEMMA SettleEffect ==
    ASSUME ConsoleInv, NEW p \in net, C!Settle(p) \/ C!Lose(p)
    PROVE  /\ net' = net \ {p} /\ ui' \in Control
           /\ ui'.busy = (IF p.kind \in Orders THEN "no" ELSE ui.busy)
           /\ \/ ui'.result = ui.result /\ ui'.receipt = ui.receipt
              \/ p.kind = "prompt" /\ ui'.result = p.result /\ ui'.receipt = ui.receipt
              \/ p.kind = "execute" /\ ui'.result = ui.result /\ ui'.receipt = p.arg
<1>1. p \in Message /\ ui \in Control /\ (p.kind = "execute" => p.arg \in PlanIds)
    BY DEF ConsoleInv, ConsoleTyped, FlagInv
<1>2. net' = net \ {p}
    BY DEF C!Settle, C!Lose
<1>3. CASE ui' = C!Finally(p, ui)
    BY <1>1, <1>2, <1>3, FinallyEffect
<1>4. CASE ui' = C!Finally(p, C!OnAnswer(p, ui))
    <2> DEFINE u == C!OnAnswer(p, ui)
    <2>1. /\ u \in Control /\ u.busy = ui.busy
          /\ u.result = (IF p.kind = "prompt" THEN p.result ELSE ui.result)
          /\ u.receipt = (IF p.kind = "execute" THEN p.arg ELSE ui.receipt)
        BY <1>1, AnswerShown
    <2>2. ui' = C!Finally(p, u)
        BY <1>4
    <2> HIDE DEF u
    <2> QED
        BY <1>1, <1>2, <2>1, <2>2, FinallyEffect
<1> QED
    BY <1>3, <1>4 DEF C!Settle, C!Lose

\* What a click sends, and what it leaves to the engine.
LEMMA ClickEffect ==
    ASSUME ConsoleInv
    PROVE  /\ C!Send => Sends("prompt", NoPlan, FALSE)
           /\ C!Execute => \E b \in BOOLEAN : /\ b => shown.mode = "testnet" /\ ui.confirm
                                              /\ Sends("execute", ui.result.plan, b)
           /\ C!Kill => Sends("kill", NoPlan, ~shown.kill)
           /\ \A below \in BOOLEAN : C!CommitMinEdge(below) => Sends("min_edge", NoPlan, below)
           /\ \A k \in C!Scenarios : C!RunStress(k) => Sends(k, NoPlan, FALSE)
           /\ \A x \in shown.open : C!Unwind(x) => \E b \in BOOLEAN : /\ b => shown.mode = "testnet"
                                                                      /\ Sends("unwind", x, b)
           /\ C!ResetHalt => Sends("reset_halt", NoPlan, FALSE)
<1>0. ConsoleTyped /\ NoPlan \in Ids \cup {NoPlan} /\ C!Kinds = C!Scenarios \cup
          {"prompt", "execute", "kill", "unwind", "reset_halt", "min_edge"}
    BY DEF ConsoleInv, C!Kinds
<1>1. ASSUME C!Send PROVE Sends("prompt", NoPlan, FALSE)
    <2>1. PICK b \in BOOLEAN : b = FALSE
        OBVIOUS
    <2>2. C!Post("prompt", NoPlan, b)
        BY <1>1, <2>1 DEF C!Send
    <2>3. Sends("prompt", NoPlan, b)
        BY <1>0, <2>2, PostEffect
    <2> QED
        BY <2>1, <2>3
<1>2. ASSUME C!Execute
      PROVE  \E b \in BOOLEAN : (b => shown.mode = "testnet" /\ ui.confirm) /\ Sends("execute", ui.result.plan, b)
    <2>1. PICK b \in BOOLEAN : b = (C!Testnet /\ ui.confirm)
        OBVIOUS
    <2>2. C!Post("execute", ui.result.plan, b)
        BY <1>2, <2>1 DEF C!Execute
    <2>3. ui.result.plan \in Ids \cup {NoPlan}
        BY <1>0 DEF ConsoleTyped, Control, Result, Ids
    <2>4. Sends("execute", ui.result.plan, b)
        BY <1>0, <2>2, <2>3, PostEffect
    <2> QED
        BY <2>1, <2>4 DEF C!Testnet
<1>3. ASSUME C!Kill PROVE Sends("kill", NoPlan, ~shown.kill)
    <2>1. PICK b \in BOOLEAN : b = ~shown.kill
        OBVIOUS
    <2>2. C!Post("kill", NoPlan, b)
        BY <1>3, <2>1 DEF C!Kill
    <2>3. Sends("kill", NoPlan, b)
        BY <1>0, <2>2, PostEffect
    <2> QED
        BY <2>1, <2>3
<1>4. ASSUME NEW below \in BOOLEAN, C!CommitMinEdge(below) PROVE Sends("min_edge", NoPlan, below)
    BY <1>0, <1>4, PostEffect DEF C!CommitMinEdge
<1>5. ASSUME NEW k \in C!Scenarios, C!RunStress(k) PROVE Sends(k, NoPlan, FALSE)
    <2>1. PICK b \in BOOLEAN : b = FALSE
        OBVIOUS
    <2>2. C!Post(k, NoPlan, b) /\ k \in C!Kinds
        BY <1>0, <1>5, <2>1 DEF C!RunStress
    <2>3. Sends(k, NoPlan, b)
        BY <1>0, <2>2, PostEffect
    <2> QED
        BY <2>1, <2>3
<1>6. ASSUME NEW x \in shown.open, C!Unwind(x)
      PROVE  \E b \in BOOLEAN : (b => shown.mode = "testnet") /\ Sends("unwind", x, b)
    <2>1. PICK b \in BOOLEAN : b = C!Testnet
        BY DEF C!Testnet
    <2>2. C!Post("unwind", x, b) /\ x \in Ids
        BY <1>0, <1>6, <2>1 DEF C!Unwind, ConsoleTyped, Screen
    <2>3. Sends("unwind", x, b)
        BY <1>0, <2>2, PostEffect
    <2> QED
        BY <2>1, <2>3 DEF C!Testnet
<1>7. ASSUME C!ResetHalt PROVE Sends("reset_halt", NoPlan, FALSE)
    <2>1. PICK b \in BOOLEAN : b = FALSE
        OBVIOUS
    <2>2. C!Post("reset_halt", NoPlan, b)
        BY <1>7, <2>1 DEF C!ResetHalt
    <2>3. Sends("reset_halt", NoPlan, b)
        BY <1>0, <2>2, PostEffect
    <2> QED
        BY <2>1, <2>3
<1> QED
    BY <1>1, <1>2, <1>3, <1>4, <1>5, <1>6, <1>7


\* Every step of the console keeps the types of its state.
LEMMA ConsoleTypes == ASSUME ConsoleInv, C!Next PROVE ConsoleTyped'
<1>0. ConsoleTyped
    BY DEF ConsoleInv
<1>1. CASE C!Render
    <2>1. shown' \in Screen
        BY <1>0, <1>1 DEF C!Render, C!Shown, ConsoleTyped, Screen, Engine
    <2>2. mocked' \in BOOLEAN /\ ~mocked'
        BY <1>1 DEF C!Render
    <2>3. UNCHANGED <<mode, eng, ui, net, posts, runs, stopped, agreed, wish>>
        BY <1>1 DEF C!Render
    <2> QED
        BY <1>0, <2>1, <2>2, <2>3 DEF ConsoleTyped
<1>2. CASE C!ShowMock
    <2>1. C!MockShown \in Screen
        BY ConsoleConstants DEF C!MockShown, Screen
    <2>2. mocked' \in BOOLEAN /\ shown' = C!MockShown
        BY <1>2 DEF C!ShowMock
    <2>3. UNCHANGED <<mode, eng, ui, net, posts, runs, stopped, agreed, wish>>
        BY <1>2 DEF C!ShowMock
    <2> QED
        BY <1>0, <2>1, <2>2, <2>3, ConsoleConstants DEF ConsoleTyped, C!MockShown
<1>3. CASE C!OtherKill
    <2>1. posts' \in 0..MaxPosts
        BY <1>0, <1>3, ConsoleConstants DEF C!OtherKill, ConsoleTyped
    <2>2. eng' \in Engine
        BY <1>0, <1>3 DEF C!OtherKill, ConsoleTyped, Engine
    <2>3. wish' \in [kill : BOOLEAN, clean : BOOLEAN]
        BY <1>0, <1>3 DEF C!OtherKill, ConsoleTyped, Engine
    <2>4. UNCHANGED <<mode, shown, mocked, ui, net, runs, stopped, agreed>>
        BY <1>3 DEF C!OtherKill
    <2> QED
        BY <1>0, <2>1, <2>2, <2>3, <2>4, ConsoleConstants DEF ConsoleTyped, C!MockShown
<1>4. ASSUME NEW p \in net, C!Handle(p) PROVE ConsoleTyped'
    <2>1. Handled(p) /\ UNCHANGED <<mode, shown, mocked, ui, posts, agreed, wish>>
        BY <1>4, HandleOK
    <2>2. net' \subseteq Message
        BY <1>0, <2>1, WireTyped DEF Handled
    <2> QED
        BY <1>0, <2>1, <2>2, ConsoleConstants DEF ConsoleTyped, Handled, C!MockShown
<1>5. ASSUME NEW p \in net, C!Settle(p) \/ C!Lose(p) PROVE ConsoleTyped'
    <2>1. net' \subseteq Message /\ ui' \in Control
        BY <1>0, <1>5, SettleEffect, WireTyped
    <2>2. wish' \in [kill : BOOLEAN, clean : BOOLEAN]
        BY <1>0, <1>5 DEF C!Settle, C!Lose, ConsoleTyped
    <2>3. UNCHANGED <<mode, eng, shown, mocked, posts, runs, stopped, agreed>>
        BY <1>5 DEF C!Settle, C!Lose
    <2> QED
        BY <1>0, <2>1, <2>2, <2>3, ConsoleConstants DEF ConsoleTyped, C!MockShown
<1>6. CASE C!TickConfirm
    <2>1. ui' \in Control
        BY <1>0, <1>6 DEF C!TickConfirm, ConsoleTyped, Control
    <2>2. UNCHANGED <<mode, eng, shown, mocked, net, posts, runs, stopped, agreed, wish>>
        BY <1>6 DEF C!TickConfirm
    <2> QED
        BY <1>0, <2>1, <2>2, ConsoleConstants DEF ConsoleTyped, C!MockShown
<1>7. ASSUME net' \subseteq Message, ui' \in Control, agreed' \subseteq PlanIds,
             wish' \in [kill : BOOLEAN, clean : BOOLEAN],
             posts < MaxPosts, posts' = posts + 1,
             UNCHANGED <<mode, eng, shown, mocked, runs, stopped>>
      PROVE  ConsoleTyped'
    <2>1. posts' \in 0..MaxPosts
        BY <1>0, <1>7, ConsoleConstants DEF ConsoleTyped
    <2> QED
        BY <1>0, <1>7, <2>1, ConsoleConstants DEF ConsoleTyped, C!MockShown
<1>8. CASE C!Send
    <2>1. ui' \in Control
        BY <1>0, <1>8 DEF C!Send, ConsoleTyped, Control
    <2>2. net' \subseteq Message
        BY <1>0, <1>8, ClickEffect, WireTyped
    <2> QED
        BY <1>0, <1>7, <1>8, <2>1, <2>2 DEF C!Send, C!Post, ConsoleTyped
<1>9. CASE C!Execute
    <2>1. ui' \in Control /\ agreed' \subseteq PlanIds
        BY <1>0, <1>9 DEF C!Execute, ConsoleTyped, Control, Result
    <2>2. net' \subseteq Message
        BY <1>0, <1>9, ClickEffect, WireTyped
    <2> QED
        BY <1>0, <1>7, <1>9, <2>1, <2>2 DEF C!Execute, C!Post, ConsoleTyped
<1>10. CASE C!Kill
    <2>1. wish' \in [kill : BOOLEAN, clean : BOOLEAN]
        BY <1>0, <1>10 DEF C!Kill, ConsoleTyped, Screen
    <2>2. net' \subseteq Message
        BY <1>0, <1>10, ClickEffect, WireTyped
    <2> QED
        BY <1>0, <1>7, <1>10, <2>1, <2>2 DEF C!Kill, C!Post, ConsoleTyped
<1>11. ASSUME NEW below \in BOOLEAN, C!CommitMinEdge(below) PROVE ConsoleTyped'
    <2>2. net' \subseteq Message
        BY <1>0, <1>11, ClickEffect, WireTyped
    <2> QED
        BY <1>0, <1>7, <1>11, <2>2 DEF C!CommitMinEdge, C!Post, ConsoleTyped
<1>12. ASSUME NEW k \in C!Scenarios, C!RunStress(k) PROVE ConsoleTyped'
    <2>1. ui' \in Control
        BY <1>0, <1>12 DEF C!RunStress, ConsoleTyped, Control
    <2>2. net' \subseteq Message
        BY <1>0, <1>12, ClickEffect, WireTyped
    <2> QED
        BY <1>0, <1>7, <1>12, <2>1, <2>2 DEF C!RunStress, C!Post, ConsoleTyped
<1>13. ASSUME NEW x \in shown.open, C!Unwind(x) PROVE ConsoleTyped'
    <2>1. ui' \in Control
        BY <1>0, <1>13 DEF C!Unwind, ConsoleTyped, Control, Screen
    <2>2. net' \subseteq Message
        BY <1>0, <1>13, ClickEffect, WireTyped
    <2> QED
        BY <1>0, <1>7, <1>13, <2>1, <2>2 DEF C!Unwind, C!Post, ConsoleTyped
<1>14. CASE C!ResetHalt
    <2>1. ui' \in Control
        BY <1>0, <1>14 DEF C!ResetHalt, ConsoleTyped, Control
    <2>2. net' \subseteq Message
        BY <1>0, <1>14, ClickEffect, WireTyped
    <2> QED
        BY <1>0, <1>7, <1>14, <2>1, <2>2 DEF C!ResetHalt, C!Post, ConsoleTyped
<1> QED
    BY <1>1, <1>2, <1>3, <1>4, <1>5, <1>6, <1>8, <1>9, <1>10, <1>11, <1>12, <1>13, <1>14 DEF C!Next

\* The wire of a step that sends, answers or drops, for what every message says.
LEMMA FlagWire ==
    ASSUME FlagInv, shown'.mode \in {mode, "paper"}, mode' = mode, agreed \subseteq agreed'
    PROVE  /\ net' \subseteq net => FlagInv'
           /\ \A p \in net : Answers(p) => FlagInv'
           /\ \A k, a, f : /\ Sends(k, a, f)
                           /\ k \in {"execute", "unwind"} /\ f => mode = "testnet"
                           /\ k = "execute" => a \in PlanIds /\ (f => a \in agreed')
                           => FlagInv'
<1>1. ASSUME net' \subseteq net PROVE FlagInv'
    BY <1>1 DEF FlagInv
<1>2. ASSUME NEW p \in net, Answers(p) PROVE FlagInv'
    BY <1>2 DEF FlagInv, Answers
<1>3. ASSUME NEW k, NEW a, NEW f, Sends(k, a, f),
             k \in {"execute", "unwind"} /\ f => mode = "testnet",
             k = "execute" => a \in PlanIds /\ (f => a \in agreed')
      PROVE  FlagInv'
    BY <1>3 DEF FlagInv, Sends
<1> QED
    BY <1>1, <1>2, <1>3

\* A confirmation reaches a testnet engine only, for a box that was ticked.
LEMMA FlagStep == ASSUME ConsoleInv, C!Next PROVE FlagInv'
<1>0. FlagInv /\ shown.mode \in {mode, "paper"} /\ ui \in Control
    BY DEF ConsoleInv, FlagInv, ConsoleTyped
<1>1. CASE C!Render \/ C!ShowMock
    <2>1. shown'.mode \in {mode, "paper"} /\ UNCHANGED <<mode, net, agreed>>
        BY <1>1 DEF C!Render, C!Shown, C!ShowMock, C!MockShown
    <2> QED
        BY <1>0, <2>1, FlagWire
<1>2. CASE C!OtherKill \/ C!TickConfirm
    BY <1>0, <1>2, FlagWire DEF C!OtherKill, C!TickConfirm
<1>3. ASSUME NEW p \in net, C!Handle(p) PROVE FlagInv'
    BY <1>0, <1>3, HandleOK, FlagWire DEF Handled
<1>4. ASSUME NEW p \in net, C!Settle(p) \/ C!Lose(p) PROVE FlagInv'
    BY <1>0, <1>4, FlagWire DEF C!Settle, C!Lose
<1>5. CASE C!Execute
    <2>1. PICK b \in BOOLEAN : (b => shown.mode = "testnet" /\ ui.confirm) /\ Sends("execute", ui.result.plan, b)
        BY <1>5, ClickEffect
    <2>2. /\ UNCHANGED <<mode, shown>> /\ agreed \subseteq agreed'
          /\ ui.confirm => ui.result.plan \in agreed'
          /\ ui.result.plan # NoPlan
        BY <1>5 DEF C!Execute
    <2>3. ui.result.plan \in PlanIds
        BY <1>0, <2>2 DEF Control, Result
    <2> QED
        BY <1>0, <2>1, <2>2, <2>3, FlagWire
<1>6. ASSUME NEW x \in shown.open, C!Unwind(x) PROVE FlagInv'
    <2>1. PICK b \in BOOLEAN : (b => shown.mode = "testnet") /\ Sends("unwind", x, b)
        BY <1>6, ClickEffect
    <2>2. UNCHANGED <<mode, shown, agreed>>
        BY <1>6 DEF C!Unwind
    <2> QED
        BY <1>0, <2>1, <2>2, FlagWire
<1>7. ASSUME UNCHANGED <<mode, shown, agreed>>, NEW k, NEW f, k \notin {"execute", "unwind"}, Sends(k, NoPlan, f)
      PROVE  FlagInv'
    BY <1>0, <1>7, FlagWire
<1>8. CASE C!Send \/ C!Kill \/ C!ResetHalt
    BY <1>7, <1>8, ClickEffect DEF C!Send, C!Kill, C!ResetHalt
<1>9. ASSUME NEW below \in BOOLEAN, C!CommitMinEdge(below) PROVE FlagInv'
    BY <1>7, <1>9, ClickEffect DEF C!CommitMinEdge
<1>10. ASSUME NEW k \in C!Scenarios, C!RunStress(k) PROVE FlagInv'
    <2>1. k \notin {"execute", "unwind"}
        BY DEF C!Scenarios
    <2> QED
        BY <1>7, <1>10, <2>1, ClickEffect DEF C!RunStress
<1> QED
    BY <1>1, <1>2, <1>3, <1>4, <1>5, <1>6, <1>8, <1>9, <1>10 DEF C!Next

\* One prompt or Execute at a time, and the receipt is the plan's on screen.
LEMMA BusyStep == ASSUME ConsoleInv, C!Next PROVE BusyInv'
<1>0. BusyInv /\ ui \in Control /\ net \subseteq Message
    BY DEF ConsoleInv, ConsoleTyped
<1>1. CASE UNCHANGED <<net, ui>>
    BY <1>0, <1>1 DEF BusyInv
<1>2. CASE C!Render \/ C!ShowMock \/ C!OtherKill
    BY <1>1, <1>2 DEF C!Render, C!ShowMock, C!OtherKill
<1>3. CASE C!TickConfirm
    <2>1. net' = net /\ ui'.busy = ui.busy /\ ui'.result = ui.result /\ ui'.receipt = ui.receipt
        BY <1>0, <1>3 DEF C!TickConfirm, Control
    <2> QED
        BY <1>0, <2>1 DEF BusyInv
<1>4. ASSUME NEW p \in net, C!Handle(p) PROVE BusyInv'
    <2>1. Answers(p) /\ ui' = ui
        BY <1>4, HandleOK DEF Handled
    <2>2. PICK q \in Message : /\ q.kind = p.kind /\ q.arg = p.arg /\ q.flag = p.flag
                               /\ net' = (net \ {p}) \cup {q}
        BY <2>1 DEF Answers
    <2> QED
        BY <1>0, <2>1, <2>2 DEF BusyInv
<1>5. ASSUME NEW p \in net, C!Settle(p) \/ C!Lose(p) PROVE BusyInv'
    <2>1. /\ net' = net \ {p}
          /\ ui'.busy = (IF p.kind \in Orders THEN "no" ELSE ui.busy)
          /\ \/ ui'.result = ui.result /\ ui'.receipt = ui.receipt
             \/ p.kind = "prompt" /\ ui'.result = p.result /\ ui'.receipt = ui.receipt
             \/ p.kind = "execute" /\ ui'.result = ui.result /\ ui'.receipt = p.arg
        BY <1>5, SettleEffect
    <2> QED
        BY <1>0, <2>1 DEF BusyInv, Orders
<1>6. ASSUME NEW k, NEW a, NEW f, Sends(k, a, f), k \notin Orders,
             ui'.busy = ui.busy, ui'.result = ui.result, ui'.receipt = ui.receipt
      PROVE  BusyInv'
    BY <1>0, <1>6 DEF BusyInv, Sends, Orders
<1>7. ASSUME NEW k \in Orders, NEW a, NEW f, Sends(k, a, f), ui.busy = "no",
             ui'.busy = k, ui'.result = ui.result, ui'.receipt = NoPlan,
             k = "execute" => a = ui.result.plan
      PROVE  BusyInv'
    <2>1. \A p \in net : p.kind \notin Orders
        BY <1>0, <1>7 DEF BusyInv, Orders
    <2>2. PICK m \in Message : m.kind = k /\ m.arg = a /\ net' = net \cup {m}
        BY <1>7 DEF Sends
    <2> QED
        BY <1>0, <1>7, <2>1, <2>2 DEF BusyInv, Orders
<1>8. CASE C!Send
    <2>1. ui.busy = "no" /\ ui'.busy = "prompt" /\ ui'.result = ui.result /\ ui'.receipt = NoPlan
        BY <1>0, <1>8 DEF C!Send, Control
    <2>2. Sends("prompt", NoPlan, FALSE)
        BY <1>8, ClickEffect
    <2> QED
        BY <1>7, <2>1, <2>2 DEF Orders
<1>9. CASE C!Execute
    <2>1. ui.busy = "no" /\ ui'.busy = "execute" /\ ui'.result = ui.result /\ ui'.receipt = NoPlan
        BY <1>0, <1>9 DEF C!Execute, Control
    <2>2. PICK b \in BOOLEAN : Sends("execute", ui.result.plan, b)
        BY <1>9, ClickEffect
    <2> QED
        BY <1>7, <2>1, <2>2 DEF Orders
<1>10. CASE C!Kill
    BY <1>6, <1>10, ClickEffect DEF C!Kill, Orders
<1>11. ASSUME NEW below \in BOOLEAN, C!CommitMinEdge(below) PROVE BusyInv'
    BY <1>6, <1>11, ClickEffect DEF C!CommitMinEdge, Orders
<1>12. ASSUME NEW k \in C!Scenarios, C!RunStress(k) PROVE BusyInv'
    <2>1. ui'.busy = ui.busy /\ ui'.result = ui.result /\ ui'.receipt = ui.receipt
        BY <1>0, <1>12 DEF C!RunStress, Control
    <2>2. k \notin Orders
        BY DEF C!Scenarios, Orders
    <2> QED
        BY <1>6, <1>12, <2>1, <2>2, ClickEffect
<1>13. ASSUME NEW x \in shown.open, C!Unwind(x) PROVE BusyInv'
    <2>1. ui'.busy = ui.busy /\ ui'.result = ui.result /\ ui'.receipt = ui.receipt
        BY <1>0, <1>13 DEF C!Unwind, Control
    <2>2. PICK b \in BOOLEAN : Sends("unwind", x, b)
        BY <1>13, ClickEffect
    <2> QED
        BY <1>6, <2>1, <2>2 DEF Orders
<1>14. CASE C!ResetHalt
    <2>1. ui'.busy = ui.busy /\ ui'.result = ui.result /\ ui'.receipt = ui.receipt
        BY <1>0, <1>14 DEF C!ResetHalt, Control
    <2> QED
        BY <1>6, <1>14, <2>1, ClickEffect DEF Orders
<1> QED
    BY <1>2, <1>3, <1>4, <1>5, <1>8, <1>9, <1>10, <1>11, <1>12, <1>13, <1>14 DEF C!Next

\* The switch: what is pending asks for the last wish.
LEMMA KillStep == ASSUME ConsoleInv, C!Next PROVE KillInv'
<1>0. /\ KillInv /\ net \subseteq Message /\ wish \in [kill : BOOLEAN, clean : BOOLEAN]
      /\ eng \in Engine /\ shown \in Screen
    BY DEF ConsoleInv, ConsoleTyped
<1>1. CASE UNCHANGED <<net, wish>> /\ eng' = eng
    BY <1>0, <1>1 DEF KillInv, KillPending
<1>2. CASE C!Render \/ C!ShowMock \/ C!TickConfirm
    BY <1>1, <1>2 DEF C!Render, C!ShowMock, C!TickConfirm
<1>3. CASE C!OtherKill
    <2>1. net' = net /\ eng'.kill = ~eng.kill
        BY <1>0, <1>3 DEF C!OtherKill, Engine
    <2>2. CASE KillPending
        <3>1. wish' = wish
            BY <1>3, <2>2 DEF C!OtherKill, KillPending
        <3> QED
            BY <1>0, <2>1, <2>2, <3>1 DEF KillInv, KillPending
    <2>3. CASE ~KillPending
        <3>1. wish'.kill = ~eng.kill
            BY <1>0, <1>3, <2>3 DEF C!OtherKill, KillPending
        <3> QED
            BY <1>0, <2>1, <2>3, <3>1 DEF KillInv, KillPending
    <2> QED
        BY <2>2, <2>3
<1>4. ASSUME NEW p \in net, C!Handle(p) PROVE KillInv'
    <2>1. /\ Answers(p) /\ p.answer = "none" /\ wish' = wish
          /\ eng'.kill = (IF p.kind = "kill" THEN p.flag ELSE eng.kill)
        BY <1>4, HandleOK DEF Handled
    <2>2. PICK q \in Message : q.answer # "none" /\ net' = (net \ {p}) \cup {q}
        BY <2>1 DEF Answers
    <2> SUFFICES ASSUME wish.clean
                 PROVE  /\ \A m \in net' : m.kind = "kill" /\ m.answer = "none" => m.flag = wish.kill
                        /\ ~KillPending' => eng'.kill = wish.kill
        BY <2>1 DEF KillInv
    <2>3. \A m \in net : m.kind = "kill" /\ m.answer = "none" => m.flag = wish.kill
        BY <1>0 DEF KillInv
    <2>4. \A m \in net' : m.answer = "none" => m \in net
        BY <2>2
    <2>5. CASE p.kind = "kill"
        BY <2>1, <2>3, <2>4, <2>5
    <2>6. CASE p.kind # "kill"
        <3>1. KillPending => KillPending'
            BY <2>2, <2>6 DEF KillPending
        <3>2. ~KillPending => eng.kill = wish.kill
            BY <1>0 DEF KillInv
        <3> QED
            BY <2>1, <2>3, <2>4, <2>6, <3>1, <3>2
    <2> QED
        BY <2>5, <2>6
<1>5. ASSUME NEW p \in net, C!Settle(p) \/ C!Lose(p) PROVE KillInv'
    <2>1. net' = net \ {p} /\ eng' = eng
        BY <1>5 DEF C!Settle, C!Lose
    <2>2. CASE p.kind = "kill" /\ p.answer = "none"
        <3>1. ~wish'.clean
            BY <1>0, <1>5, <2>2 DEF C!Settle, C!Lose
        <3> QED
            BY <3>1 DEF KillInv
    <2>3. CASE ~(p.kind = "kill" /\ p.answer = "none")
        <3>1. wish' = wish
            BY <1>5, <2>3 DEF C!Settle, C!Lose
        <3> QED
            BY <1>0, <2>1, <2>3, <3>1 DEF KillInv, KillPending
    <2> QED
        BY <2>2, <2>3
<1>6. ASSUME NEW k, NEW a, NEW f, Sends(k, a, f), k # "kill", wish' = wish, eng' = eng
      PROVE  KillInv'
    <2>1. PICK m \in Message : m.kind = k /\ net' = net \cup {m}
        BY <1>6 DEF Sends
    <2>2. KillPending' = KillPending
        BY <1>6, <2>1 DEF KillPending
    <2> QED
        BY <1>0, <1>6, <2>1, <2>2 DEF KillInv
<1>7. CASE C!Kill
    <2>1. PICK m \in Message : m.kind = "kill" /\ m.flag = ~shown.kill /\ m.answer = "none" /\ net' = net \cup {m}
        BY <1>7, ClickEffect DEF Sends
    <2>2. PICK b \in BOOLEAN : b = (wish.clean /\ \A p \in net : p.kind = "kill" => p.flag = ~shown.kill)
        OBVIOUS
    <2>3. wish' = [kill |-> ~shown.kill, clean |-> b]
        BY <1>7, <2>2 DEF C!Kill
    <2>4. wish'.kill = ~shown.kill /\ wish'.clean = b
        BY <2>3
    <2>5. KillPending'
        BY <2>1 DEF KillPending
    <2> QED
        BY <2>1, <2>2, <2>4, <2>5 DEF KillInv
<1>8. CASE C!Send \/ C!ResetHalt
    BY <1>6, <1>8, ClickEffect DEF C!Send, C!ResetHalt
<1>9. CASE C!Execute
    <2>1. PICK b \in BOOLEAN : Sends("execute", ui.result.plan, b)
        BY <1>9, ClickEffect
    <2> QED
        BY <1>6, <1>9, <2>1 DEF C!Execute
<1>10. ASSUME NEW below \in BOOLEAN, C!CommitMinEdge(below) PROVE KillInv'
    BY <1>6, <1>10, ClickEffect DEF C!CommitMinEdge
<1>11. ASSUME NEW k \in C!Scenarios, C!RunStress(k) PROVE KillInv'
    <2>1. k # "kill"
        BY DEF C!Scenarios
    <2> QED
        BY <1>6, <1>11, <2>1, ClickEffect DEF C!RunStress
<1>12. ASSUME NEW x \in shown.open, C!Unwind(x) PROVE KillInv'
    <2>1. PICK b \in BOOLEAN : Sends("unwind", x, b)
        BY <1>12, ClickEffect
    <2> QED
        BY <1>6, <1>12, <2>1 DEF C!Unwind
<1> QED
    BY <1>2, <1>3, <1>4, <1>5, <1>7, <1>8, <1>9, <1>10, <1>11, <1>12 DEF C!Next

\* What ran stays spent and confirmed.
LEMMA RunsStep == ASSUME ConsoleInv, C!Next PROVE RunsInv' /\ C!NoUnconfirmedOrder'
<1>0. ConsoleTyped
    BY DEF ConsoleInv
<1>1. ASSUME NEW p \in net, C!Handle(p) PROVE RunsInv' /\ C!NoUnconfirmedOrder'
    BY <1>1, HandleOK DEF Handled
<1>2. CASE /\ UNCHANGED <<mode, runs, stopped>> /\ agreed \subseteq agreed'
           /\ eng'.open = eng.open /\ eng'.plans = eng.plans /\ eng'.loss = eng.loss
    <2>1. RunsInv'
        BY <1>2 DEF ConsoleInv, RunsInv
    <2>2. C!NoUnconfirmedOrder'
        BY <1>2 DEF ConsoleInv, C!NoUnconfirmedOrder, C!RealOrders
    <2> QED
        BY <2>1, <2>2
<1>3. CASE C!OtherKill
    <2>1. eng'.open = eng.open /\ eng'.plans = eng.plans /\ eng'.loss = eng.loss
        BY <1>0, <1>3 DEF C!OtherKill, ConsoleTyped, Engine
    <2> QED
        BY <1>2, <1>3, <2>1 DEF C!OtherKill
<1>4. CASE C!Execute
    BY <1>2, <1>4 DEF C!Execute
<1>5. CASE C!Render \/ C!ShowMock \/ C!Send \/ C!TickConfirm \/ C!Kill \/ C!ResetHalt
    BY <1>2, <1>5 DEF C!Render, C!ShowMock, C!Send, C!TickConfirm, C!Kill, C!ResetHalt
<1>6. ASSUME NEW below \in BOOLEAN, C!CommitMinEdge(below) PROVE RunsInv' /\ C!NoUnconfirmedOrder'
    BY <1>2, <1>6 DEF C!CommitMinEdge
<1>7. ASSUME NEW k \in C!Scenarios, C!RunStress(k) PROVE RunsInv' /\ C!NoUnconfirmedOrder'
    BY <1>2, <1>7 DEF C!RunStress
<1>8. ASSUME NEW x \in shown.open, C!Unwind(x) PROVE RunsInv' /\ C!NoUnconfirmedOrder'
    BY <1>2, <1>8 DEF C!Unwind
<1>9. ASSUME NEW p \in net, C!Settle(p) \/ C!Lose(p) PROVE RunsInv' /\ C!NoUnconfirmedOrder'
    BY <1>2, <1>9 DEF C!Settle, C!Lose
<1> QED
    BY <1>1, <1>3, <1>4, <1>5, <1>6, <1>7, <1>8, <1>9 DEF C!Next

\* The console keeps its invariant, and with it what it promises.
LEMMA ConsoleStep == ASSUME ConsoleInv, C!Next PROVE ConsoleInv'
BY ConsoleTypes, FlagStep, BusyStep, KillStep, RunsStep DEF ConsoleInv

\* What the controls promise, from the invariant.
LEMMA ConsolePromises ==
    ConsoleInv => C!TypeOK /\ C!NoUnconfirmedOrder /\ C!OnceEach /\ C!KillFollowsPress
<1> SUFFICES ASSUME ConsoleInv PROVE C!TypeOK /\ C!NoUnconfirmedOrder /\ C!OnceEach /\ C!KillFollowsPress
    OBVIOUS
<1>1. C!TypeOK
    <2>1. eng \in Engine /\ shown \in Screen /\ ui \in Control /\ ui.result \in Result
        BY DEF ConsoleInv, ConsoleTyped, Control
    <2>2. mode \in Modes /\ shown.mode \in Modes \cup {"paper"} /\ (mocked => shown = C!MockShown)
        BY <2>1 DEF ConsoleInv, ConsoleTyped, Screen
    <2>3. /\ eng.kill \in BOOLEAN /\ eng.halted \in BOOLEAN /\ eng.stress \in BOOLEAN /\ eng.loss \in BOOLEAN
          /\ eng.open \subseteq Held \cup PlanIds
          /\ eng.plans \in [PlanIds -> {"none", "vetoed", "pending", "consumed"}]
        BY <2>1 DEF Engine, Ids
    <2>4. /\ ui.busy \in {"no", "prompt", "execute"} /\ ui.receipt \in PlanIds \cup {NoPlan}
          /\ ui.unwinding \in Held \cup PlanIds \cup {NoPlan}
          /\ {ui.confirm, ui.stressing, ui.resetting} \subseteq BOOLEAN
        BY <2>1 DEF Control, Ids
    <2>5. ui.result.plan \in PlanIds \cup {NoPlan} /\ ui.result.approved \in BOOLEAN
        BY <2>1 DEF Result
    <2>6. \A p \in net : p.kind \in C!Kinds /\ p.answer \in {"none", "ok", "error"}
        BY DEF ConsoleInv, ConsoleTyped, Message
    <2>7. /\ posts \in 0..MaxPosts /\ runs \in [Held \cup PlanIds -> Nat]
          /\ stopped \subseteq Held \cup PlanIds /\ agreed \subseteq PlanIds
        BY DEF ConsoleInv, ConsoleTyped, Ids
    <2> QED
        BY <2>2, <2>3, <2>4, <2>5, <2>6, <2>7 DEF C!TypeOK
<1>2. C!OnceEach
    <2>1. DOMAIN runs = Ids
        BY DEF ConsoleInv, ConsoleTyped
    <2> QED
        BY <2>1 DEF ConsoleInv, RunsInv, BusyInv, C!OnceEach
<1>3. C!KillFollowsPress
    BY DEF ConsoleInv, KillInv, KillPending, C!KillFollowsPress
<1> QED
    BY <1>1, <1>2, <1>3 DEF ConsoleInv

------------------------------------------------------------------------------
(* The bridge.                                                               *)

Fields == {"at", "in", "plan", "try", "reply"}
ReqTyped ==
    /\ req = [r \in Requests |-> req[r]]
    /\ \A r \in Requests : req[r] = [f \in Fields |-> req[r][f]]

\* What a request waits for fits what it asked; what it was told fits what Deltr did.
ReqOK(r) ==
    /\ req[r].at \in B!Waiting \cup {"idle", "done"}
    /\ req[r].reply \in B!Replies \cup {"none"}
    /\ req[r].at = "done" <=> req[r].reply # "none"
    /\ req[r].plan \in B!Plans \cup {B!Unproposed}
    /\ req[r].in \in Inputs \cup {[kind |-> "none"]}
    /\ req[r].at = "connect" => req[r].in.kind \in {"route", "call"}
    /\ req[r].at \in {"propose", "execute"} => B!IsRoute(r)
    /\ req[r].at \in {"call", "upstream"} => req[r].in.kind = req[r].at
    /\ req[r].at \in {"connect", "propose", "execute"} /\ B!IsRoute(r) => B!ValidateOrderIntent(req[r].in)
    /\ req[r].at = "execute" => req[r].in.confirm = "yes"
    /\ req[r].reply = "answered" => ~B!IsRoute(r)
    /\ req[r].reply = "proposed" => B!IsRoute(r) /\ req[r].in.confirm # "yes"
    /\ req[r].reply = "executed" => B!Consumed(req[r].plan) \in plans

\* An execution a route asked for is of its own, bounded plan, and confirmed.
Own(r, p) == B!IsRoute(r) => p.by = r /\ p.lev <= MaxLeverage /\ req[r].in.confirm = "yes"

\* A call outlives the wait of its request, and an execute follows the propose.
CallOK(c) ==
    /\ c.by \in Requests /\ c.op \in {"propose", "execute"}
    /\ req[c.by].at \in {"propose", "execute", "call", "done"}
    /\ c.op = "propose" => c.lev \in Nat /\ (B!IsRoute(c.by) => c.lev <= MaxLeverage)
    /\ c.op = "execute" => /\ c.plan \in B!Plans /\ Own(c.by, c.plan)
                           /\ req[c.by].at # "propose"
                           /\ req[c.by].at = "execute" => c.plan = req[c.by].plan

RanOK(x) ==
    /\ x.by \in Requests /\ x.plan \in B!Plans /\ Own(x.by, x.plan)
    /\ req[x.by].at \in {"execute", "call", "done"}

PlansOK == \A p \in plans : p.plan \in B!Plans /\ p.state \in {"pending", "consumed"}

ServerOK ==
    /\ phase \in {"official", "shim", "serving", "closing", "closed"}
    /\ upstream.kind \in {"none", "shim", "official"}
    /\ deltr \in Requests \cup {NoRequest}

TrafficOK ==
    /\ ReqTyped
    /\ \A r \in Requests : ReqOK(r)
    /\ \A c \in calls : CallOK(c)
    /\ \A x \in ran : RanOK(x)

BridgeInv == ServerOK /\ TrafficOK /\ PlansOK

\* What the bridge assumes of its constants.
LEMMA BridgeConstants ==
    /\ MaxLeverage \in Nat /\ 1 <= MaxLeverage /\ NoRequest \notin Requests
    /\ \A i \in Inputs :
        /\ i.kind \in {"garbage", "route", "call", "upstream"}
        /\ i.kind = "route" \/ (i.kind = "call" /\ i.tool = "propose") => i.leverage \in Nat
BY SurfacesAssumption DEF B!BridgeAssumption

\* Before it serves nothing is asked, called or run.
LEMMA BridgeInit == ASSUME B!Init PROVE BridgeInv
<1>1. \A r \in Requests : req[r] = B!Idle
    BY DEF B!Init
<1>2. ReqTyped
    BY <1>1 DEF B!Init, B!Idle, ReqTyped, Fields
<1>3. \A r \in Requests : ReqOK(r)
    BY <1>1 DEF B!Idle, ReqOK, B!IsRoute
<1> QED
    BY <1>2, <1>3 DEF B!Init, BridgeInv, ServerOK, TrafficOK, PlansOK

\* An idle bridge keeps what it had.
LEMMA BridgeIdle == ASSUME BridgeInv, UNCHANGED bridge PROVE BridgeInv'
<1>1. UNCHANGED <<phase, upstream, deltr, req, calls, plans, ran>>
    BY DEF bridge
<1>2. ServerOK' /\ PlansOK' /\ ReqTyped'
    BY <1>1 DEF BridgeInv, ServerOK, PlansOK, TrafficOK, ReqTyped
<1>3. \A r \in Requests : ReqOK(r)'
    BY <1>1 DEF BridgeInv, TrafficOK, ReqOK, B!IsRoute
<1>4. (\A c \in calls : CallOK(c))' /\ (\A x \in ran : RanOK(x))'
    BY <1>1 DEF BridgeInv, TrafficOK, CallOK, RanOK, Own, B!IsRoute
<1> QED
    BY <1>2, <1>3, <1>4 DEF BridgeInv, TrafficOK

\* A request that is replied to, or waits, keeps the rest of its record.
LEMMA ReplyEffect ==
    ASSUME ReqTyped, NEW r \in Requests, NEW what, B!Reply(r, what)
    PROVE  /\ ReqTyped'
           /\ req'[r].at = "done" /\ req'[r].reply = what
           /\ req'[r].in = req[r].in /\ req'[r].plan = req[r].plan
           /\ \A q \in Requests : q # r => req'[q] = req[q]
BY DEF ReqTyped, B!Reply, Fields

\* A request that is refused as it comes.
LEMMA RefuseEffect ==
    ASSUME ReqTyped, NEW r \in Requests, NEW in, NEW what, B!Refuse(r, in, what)
    PROVE  /\ ReqTyped'
           /\ req'[r].at = "done" /\ req'[r].reply = what
           /\ req'[r].in = in /\ req'[r].plan = req[r].plan
           /\ \A q \in Requests : q # r => req'[q] = req[q]
BY DEF ReqTyped, B!Refuse, Fields

\* A request that is taken and waits.
LEMMA AwaitEffect ==
    ASSUME ReqTyped, NEW r \in Requests, NEW in, NEW at, B!Await(r, in, at)
    PROVE  /\ ReqTyped'
           /\ req'[r].at = at /\ req'[r].reply = req[r].reply
           /\ req'[r].in = in /\ req'[r].plan = req[r].plan
           /\ \A q \in Requests : q # r => req'[q] = req[q]
BY DEF ReqTyped, B!Await, Fields

\* Plans that were consumed stay so.
Keeps == \A p : B!Consumed(p) \in plans => B!Consumed(p) \in plans'

\* What one request goes through is nothing to the others.
LEMMA OthersKeep ==
    ASSUME TrafficOK, NEW r \in Requests, \A q \in Requests : q # r => req'[q] = req[q], Keeps
    PROVE  /\ \A q \in Requests : q # r => ReqOK(q)'
           /\ \A c \in calls : c.by # r => CallOK(c)'
           /\ \A x \in ran : x.by # r => RanOK(x)'
<1>1. ASSUME NEW q \in Requests, q # r PROVE ReqOK(q)'
    BY <1>1 DEF TrafficOK, ReqOK, B!IsRoute, Keeps
<1>2. ASSUME NEW c \in calls, c.by # r PROVE CallOK(c)'
    BY <1>2 DEF TrafficOK, CallOK, Own, B!IsRoute
<1>3. ASSUME NEW x \in ran, x.by # r PROVE RanOK(x)'
    BY <1>3 DEF TrafficOK, RanOK, Own, B!IsRoute
<1> QED
    BY <1>1, <1>2, <1>3

\* A reply to a waiting request leaves its calls and executions as they were.
LEMMA ReplyKeeps ==
    ASSUME TrafficOK, NEW r \in Requests, NEW what \in B!Replies, B!Reply(r, what), Keeps,
           what = "answered" => ~B!IsRoute(r), what # "proposed",
           what = "executed" => B!Consumed(req[r].plan) \in plans'
    PROVE  /\ ReqTyped'
           /\ \A q \in Requests : ReqOK(q)'
           /\ \A c \in calls : CallOK(c)'
           /\ \A x \in ran : RanOK(x)'
<1>1. /\ ReqTyped'
      /\ req'[r].at = "done" /\ req'[r].reply = what
      /\ req'[r].in = req[r].in /\ req'[r].plan = req[r].plan
      /\ \A q \in Requests : q # r => req'[q] = req[q]
    BY ReplyEffect DEF TrafficOK
<1>2. /\ \A q \in Requests : q # r => ReqOK(q)'
      /\ \A c \in calls : c.by # r => CallOK(c)'
      /\ \A x \in ran : x.by # r => RanOK(x)'
    BY <1>1, OthersKeep
<1>3. ReqOK(r)'
    <2>1. ReqOK(r) /\ what # "none"
        BY DEF TrafficOK, B!Replies
    <2> QED
        BY <1>1, <2>1 DEF ReqOK, B!IsRoute
<1>4. ASSUME NEW c \in calls, c.by = r PROVE CallOK(c)'
    BY <1>1, <1>4 DEF TrafficOK, CallOK, Own, B!IsRoute
<1>5. ASSUME NEW x \in ran, x.by = r PROVE RanOK(x)'
    BY <1>1, <1>5 DEF TrafficOK, RanOK, Own, B!IsRoute
<1> QED
    BY <1>1, <1>2, <1>3, <1>4, <1>5

\* A request that has only just come, or waits for its client, has no call and no execution.
LEMMA NoTraffic ==
    ASSUME TrafficOK, NEW r \in Requests, req[r].at \in {"idle", "connect"}
    PROVE  (\A c \in calls : c.by # r) /\ (\A x \in ran : x.by # r)
BY DEF TrafficOK, CallOK, RanOK

\* Refused on the spot.
LEMMA RefuseKeeps ==
    ASSUME TrafficOK, NEW r \in Requests, req[r].at \in {"idle", "connect"}, NEW in \in Inputs,
           NEW what \in {"malformed", "invalid", "refused", "unavailable", "toolerror"},
           B!Refuse(r, in, what), UNCHANGED <<calls, plans, ran>>
    PROVE  TrafficOK'
<1>1. /\ ReqTyped'
      /\ req'[r].at = "done" /\ req'[r].reply = what
      /\ req'[r].in = in /\ req'[r].plan = req[r].plan
      /\ \A q \in Requests : q # r => req'[q] = req[q]
    BY RefuseEffect DEF TrafficOK
<1>2. Keeps
    BY DEF Keeps
<1>3. ReqOK(r)'
    <2>1. ReqOK(r)
        BY DEF TrafficOK
    <2> QED
        BY <1>1, <2>1 DEF ReqOK, B!IsRoute, B!Replies
<1> QED
    BY <1>1, <1>2, <1>3, NoTraffic, OthersKeep DEF TrafficOK

\* The leverage Deltr is asked for: the order's own, or one.
LEMMA AskedLeverage ==
    ASSUME NEW in \in Inputs, in.kind = "route" \/ (in.kind = "call" /\ in.tool = "propose"), NEW r
    PROVE  /\ B!ProposeCall(r, in).by = r /\ B!ProposeCall(r, in).op = "propose"
           /\ B!ProposeCall(r, in).lev \in Nat
           /\ in.kind = "route" /\ B!ValidateOrderIntent(in) => B!ProposeCall(r, in).lev <= MaxLeverage
<1>1. in.leverage \in Nat
    BY BridgeConstants
<1> QED
    BY <1>1, BridgeConstants DEF B!ProposeCall, B!ValidateOrderIntent, B!Absent

\* The first call of a request.
LEMMA StartKeeps ==
    ASSUME TrafficOK, PlansOK, NEW r \in Requests, req[r].at \in {"idle", "connect"}, NEW in \in Inputs,
           in.kind = "call" \/ (in.kind = "route" /\ B!ValidateOrderIntent(in)),
           B!Start(r, in), UNCHANGED <<plans, ran>>
    PROVE  TrafficOK'
<1>0. ReqOK(r) /\ ReqTyped /\ Keeps
    BY DEF TrafficOK, Keeps
<1>1. CASE in.kind = "route"
    <2> DEFINE c == B!ProposeCall(r, in)
    <2>1. calls' = calls \cup {c} /\ B!Await(r, in, "propose")
        BY <1>1 DEF B!Start, B!Send
    <2>2. c.by = r /\ c.op = "propose" /\ c.lev \in Nat /\ c.lev <= MaxLeverage
        BY <1>1, AskedLeverage
    <2>3. /\ ReqTyped'
          /\ req'[r].at = "propose" /\ req'[r].reply = req[r].reply
          /\ req'[r].in = in /\ req'[r].plan = req[r].plan
          /\ \A q \in Requests : q # r => req'[q] = req[q]
        BY <1>0, <2>1, AwaitEffect
    <2>4. ReqOK(r)'
        BY <1>0, <1>1, <2>3 DEF ReqOK, B!IsRoute, B!Waiting
    <2> HIDE DEF c
    <2>5. CallOK(c)'
        BY <2>2, <2>3 DEF CallOK
    <2> QED
        BY <1>0, <2>1, <2>3, <2>4, <2>5, NoTraffic, OthersKeep DEF TrafficOK
<1>2. CASE in.kind = "call" /\ B!ToolCall(r, in) = {} /\ B!Refuse(r, in, "toolerror") /\ UNCHANGED calls
    BY <1>2, RefuseKeeps
<1>3. ASSUME in.kind = "call", NEW c \in B!ToolCall(r, in), B!Send(c), B!Await(r, in, "call")
      PROVE  TrafficOK'
    <2>1. /\ ReqTyped'
          /\ req'[r].at = "call" /\ req'[r].reply = req[r].reply
          /\ req'[r].in = in /\ req'[r].plan = req[r].plan
          /\ \A q \in Requests : q # r => req'[q] = req[q]
        BY <1>0, <1>3, AwaitEffect
    <2>2. ReqOK(r)'
        BY <1>0, <1>3, <2>1 DEF ReqOK, B!IsRoute, B!Waiting
    <2>3. ~B!IsRoute(r)'
        BY <1>3, <2>1 DEF B!IsRoute
    <2>4. CallOK(c)'
        <3>1. CASE in.tool = "propose"
            <4>1. c = B!ProposeCall(r, in)
                BY <1>3, <3>1 DEF B!ToolCall
            <4>2. c.by = r /\ c.op = "propose" /\ c.lev \in Nat
                BY <1>3, <3>1, <4>1, AskedLeverage
            <4> QED
                BY <2>1, <2>3, <4>2 DEF CallOK
        <3>2. CASE in.tool # "propose"
            <4>1. PICK p \in plans : c = B!ExecuteCall(r, p.plan)
                BY <1>3, <3>2 DEF B!ToolCall
            <4>2. c.by = r /\ c.op = "execute" /\ c.plan \in B!Plans
                BY <4>1 DEF B!ExecuteCall, PlansOK
            <4> QED
                BY <2>1, <2>3, <4>2 DEF CallOK, Own
        <3> QED
            BY <3>1, <3>2
    <2>5. calls' = calls \cup {c}
        BY <1>3 DEF B!Send
    <2> QED
        BY <1>0, <2>1, <2>2, <2>4, <2>5, NoTraffic, OthersKeep DEF TrafficOK
<1> QED
    BY <1>1, <1>2, <1>3 DEF B!Start

\* A request comes in.
LEMMA AcceptStep ==
    ASSUME BridgeInv, NEW r \in Requests, NEW in \in Inputs, B!Accept(r, in)
    PROVE  TrafficOK'
<1>0. /\ TrafficOK /\ PlansOK /\ ReqTyped /\ ReqOK(r) /\ req[r].at = "idle"
      /\ UNCHANGED <<plans, ran>>
    BY DEF BridgeInv, TrafficOK, B!Accept
<1>1. ASSUME NEW what \in {"malformed", "invalid", "refused", "unavailable"},
             B!Refuse(r, in, what), UNCHANGED calls
      PROVE  TrafficOK'
    BY <1>0, <1>1, RefuseKeeps
<1>2. ASSUME NEW at \in {"connect", "upstream"}, UNCHANGED calls, ReqTyped',
             req'[r].at = at, req'[r].reply = req[r].reply, req'[r].in = in, req'[r].plan = req[r].plan,
             \A q \in Requests : q # r => req'[q] = req[q],
             IF at = "upstream" THEN in.kind = "upstream"
             ELSE in.kind = "call" \/ (in.kind = "route" /\ B!ValidateOrderIntent(in))
      PROVE  TrafficOK'
    <2>1. ReqOK(r)'
        BY <1>0, <1>2 DEF ReqOK, B!IsRoute, B!Waiting
    <2>2. Keeps
        BY <1>0 DEF Keeps
    <2> QED
        BY <1>0, <1>2, <2>1, <2>2, NoTraffic, OthersKeep DEF TrafficOK
<1>3. CASE in.kind = "garbage" \/ (in.kind = "route" /\ ~B!ValidateOrderIntent(in))
    BY <1>1, <1>3 DEF B!Accept
<1>4. CASE in.kind = "call" \/ (in.kind = "route" /\ B!ValidateOrderIntent(in))
    <2>1. CASE deltr = NoRequest
        <3>1. B!Await(r, in, "connect") /\ UNCHANGED calls
            BY <1>4, <2>1 DEF B!Accept
        <3>2. /\ ReqTyped'
              /\ req'[r].at = "connect" /\ req'[r].reply = req[r].reply
              /\ req'[r].in = in /\ req'[r].plan = req[r].plan
              /\ \A q \in Requests : q # r => req'[q] = req[q]
            BY <1>0, <3>1, AwaitEffect
        <3> QED
            BY <1>2, <1>4, <3>1, <3>2
    <2>2. CASE deltr # NoRequest
        <3>1. B!Start(r, in)
            BY <1>4, <2>2 DEF B!Accept
        <3> QED
            BY <1>0, <1>4, <3>1, StartKeeps
    <2> QED
        BY <2>1, <2>2
<1>5. CASE in.kind = "upstream"
    <2>1. CASE \E what \in {"refused", "unavailable"} : B!Refuse(r, in, what)
        BY <1>1, <1>5, <2>1 DEF B!Accept
    <2>2. CASE ~\E what \in {"refused", "unavailable"} : B!Refuse(r, in, what)
        <3>1. UNCHANGED calls
            BY <1>5 DEF B!Accept
        <3>2. PICK names : req' = [req EXCEPT ![r].at = "upstream", ![r].in = in, ![r].try = names]
            BY <1>5, <2>2 DEF B!Accept
        <3>3. /\ ReqTyped'
              /\ req'[r].at = "upstream" /\ req'[r].reply = req[r].reply
              /\ req'[r].in = in /\ req'[r].plan = req[r].plan
              /\ \A q \in Requests : q # r => req'[q] = req[q]
            BY <1>0, <3>2 DEF ReqTyped, Fields
        <3> QED
            BY <1>2, <1>5, <3>1, <3>3
    <2> QED
        BY <2>1, <2>2
<1> QED
    BY <1>3, <1>4, <1>5 DEF B!Accept

\* The bridge's own side of a request that waits: its client, its timers, the upstream.
LEMMA WaitStep ==
    ASSUME BridgeInv, NEW r \in Requests,
           B!Connected(r) \/ B!ConnectFails(r) \/ B!Timeout(r) \/ B!UpstreamAnswers(r) \/ B!UpstreamFails(r)
    PROVE  TrafficOK'
<1>0. TrafficOK /\ PlansOK /\ ReqTyped /\ ReqOK(r)
    BY DEF BridgeInv, TrafficOK
<1>1. UNCHANGED <<plans, ran>>
    BY DEF B!Connected, B!ConnectFails, B!Timeout, B!UpstreamAnswers, B!UpstreamFails
<1>2. Keeps
    BY <1>1 DEF Keeps
<1>3. CASE B!Connected(r)
    <2>1. req[r].at = "connect" /\ B!Start(r, req[r].in)
        BY <1>3 DEF B!Connected
    <2>2. /\ req[r].in \in Inputs
          /\ req[r].in.kind = "call" \/ (req[r].in.kind = "route" /\ B!ValidateOrderIntent(req[r].in))
        BY <1>0, <2>1 DEF ReqOK, B!IsRoute
    <2> QED
        BY <1>0, <1>1, <2>1, <2>2, StartKeeps
<1>4. ASSUME NEW what \in {"unavailable", "failed", "answered"}, B!Reply(r, what), calls' = calls,
             what = "answered" => req[r].at = "upstream"
      PROVE  TrafficOK'
    <2>1. what \in B!Replies
        BY DEF B!Replies
    <2>2. what = "answered" => ~B!IsRoute(r)
        BY <1>0, <1>4 DEF ReqOK, B!IsRoute
    <2> QED
        BY <1>0, <1>1, <1>2, <1>4, <2>1, <2>2, ReplyKeeps DEF TrafficOK
<1>5. CASE B!UpstreamFails(r) /\ req[r].try # <<>>
    <2>1. req' = [req EXCEPT ![r].try = Tail(@)] /\ calls' = calls
        BY <1>5 DEF B!UpstreamFails
    <2>2. /\ ReqTyped'
          /\ req'[r].at = req[r].at /\ req'[r].reply = req[r].reply
          /\ req'[r].in = req[r].in /\ req'[r].plan = req[r].plan
          /\ \A q \in Requests : q # r => req'[q] = req[q]
        BY <1>0, <2>1 DEF ReqTyped, Fields
    <2>3. ReqOK(r)'
        BY <1>0, <1>1, <2>2 DEF ReqOK, B!IsRoute
    <2>4. \A c \in calls : c.by # r
        BY <1>0, <1>5 DEF TrafficOK, CallOK, B!UpstreamFails
    <2>5. \A x \in ran : x.by # r
        BY <1>0, <1>5 DEF TrafficOK, RanOK, B!UpstreamFails
    <2> QED
        BY <1>0, <1>1, <1>2, <2>1, <2>2, <2>3, <2>4, <2>5, OthersKeep DEF TrafficOK
<1> QED
    BY <1>3, <1>4, <1>5 DEF B!ConnectFails, B!Timeout, B!UpstreamAnswers, B!UpstreamFails

\* Deltr handles a propose.
LEMMA ProposeStep ==
    ASSUME BridgeInv, NEW c \in calls, NEW reaches \in BOOLEAN, B!HandlePropose(c, reaches)
    PROVE  TrafficOK' /\ PlansOK'
<1> DEFINE r == c.by
           p == [by |-> c.by, lev |-> c.lev]
<1>0. /\ TrafficOK /\ PlansOK /\ ReqTyped /\ CallOK(c) /\ r \in Requests /\ ReqOK(r)
      /\ c.op = "propose" /\ c.lev \in Nat /\ ran' = ran
    BY DEF BridgeInv, TrafficOK, CallOK, B!HandlePropose
<1>1. p \in B!Plans /\ p.by = r /\ p.lev = c.lev
    BY <1>0 DEF B!Plans
<1>2. plans' = plans \cup {B!Pending(p)} \/ plans' = plans
    BY DEF B!HandlePropose
<1>3. Keeps /\ PlansOK'
    BY <1>0, <1>1, <1>2 DEF Keeps, PlansOK, B!Pending
<1> HIDE DEF r, p
<1>4. CASE calls' = calls \ {c} /\ UNCHANGED req
    <2>1. \A q \in Requests : ReqOK(q)'
        BY <1>0, <1>3, <1>4 DEF TrafficOK, ReqOK, B!IsRoute, Keeps
    <2>2. (\A d \in calls : CallOK(d)') /\ (\A x \in ran : RanOK(x)')
        BY <1>0, <1>4 DEF TrafficOK, CallOK, RanOK, Own, B!IsRoute
    <2>3. ReqTyped'
        BY <1>0, <1>4 DEF ReqTyped
    <2> QED
        BY <1>0, <1>3, <1>4, <2>1, <2>2, <2>3 DEF TrafficOK
<1>5. ASSUME NEW what \in {"answered", "vetoed", "toolerror"}, B!Reply(r, what), calls' = calls \ {c},
             what = "answered" => req[r].at = "call"
      PROVE  TrafficOK' /\ PlansOK'
    <2>1. what \in B!Replies
        BY DEF B!Replies
    <2>2. what = "answered" => ~B!IsRoute(r)
        BY <1>0, <1>5 DEF ReqOK, B!IsRoute
    <2>3. /\ ReqTyped'
          /\ \A q \in Requests : ReqOK(q)'
          /\ \A d \in calls : CallOK(d)'
          /\ \A x \in ran : RanOK(x)'
        BY <1>0, <1>3, <1>5, <2>1, <2>2, ReplyKeeps
    <2> QED
        BY <1>0, <1>3, <1>5, <2>3 DEF TrafficOK
<1>6. ASSUME req[r].at = "propose", B!Approves(c.lev), B!OnProposal(r, p, TRUE),
             calls' = (calls \ {c}) \cup B!NextCalls(r, p, TRUE)
      PROVE  TrafficOK' /\ PlansOK'
    <2>1. B!IsRoute(r) /\ c.lev <= MaxLeverage
        BY <1>0, <1>6 DEF ReqOK, CallOK, r
    <2>2. \A d \in calls : d.by = r => d.op = "propose"
        BY <1>0, <1>6 DEF TrafficOK, CallOK
    <2>3. \A x \in ran : x.by # r
        BY <1>0, <1>6 DEF TrafficOK, RanOK
    <2>4. CASE req[r].in.confirm # "yes"
        <3>1. req' = [req EXCEPT ![r].at = "done", ![r].plan = p, ![r].reply = "proposed"]
            BY <1>6, <2>4 DEF B!OnProposal
        <3>2. calls' = calls \ {c}
            BY <1>6, <2>4 DEF B!NextCalls
        <3>3. /\ ReqTyped'
              /\ req'[r].at = "done" /\ req'[r].reply = "proposed"
              /\ req'[r].in = req[r].in /\ req'[r].plan = p
              /\ \A q \in Requests : q # r => req'[q] = req[q]
            BY <1>0, <3>1 DEF ReqTyped, Fields
        <3>4. ReqOK(r)'
            BY <1>0, <1>1, <2>1, <2>4, <3>3 DEF ReqOK, B!IsRoute, B!Replies
        <3>5. ASSUME NEW d \in calls, d.by = r PROVE CallOK(d)'
            BY <1>0, <2>2, <3>3, <3>5 DEF TrafficOK, CallOK, B!IsRoute
        <3> QED
            BY <1>0, <1>3, <2>3, <3>2, <3>3, <3>4, <3>5, OthersKeep DEF TrafficOK
    <2>5. CASE req[r].in.confirm = "yes"
        <3> DEFINE e == B!ExecuteCall(r, p)
        <3>1. req' = [req EXCEPT ![r].at = "execute", ![r].plan = p]
            BY <1>6, <2>5 DEF B!OnProposal
        <3>2. calls' = (calls \ {c}) \cup {e}
            BY <1>6, <2>5 DEF B!NextCalls
        <3>3. /\ ReqTyped'
              /\ req'[r].at = "execute" /\ req'[r].reply = req[r].reply
              /\ req'[r].in = req[r].in /\ req'[r].plan = p
              /\ \A q \in Requests : q # r => req'[q] = req[q]
            BY <1>0, <3>1 DEF ReqTyped, Fields
        <3>4. ReqOK(r)'
            BY <1>0, <1>1, <1>6, <2>1, <2>5, <3>3 DEF ReqOK, B!IsRoute, B!Waiting
        <3>5. ASSUME NEW d \in calls, d.by = r PROVE CallOK(d)'
            BY <1>0, <2>2, <3>3, <3>5 DEF TrafficOK, CallOK, B!IsRoute
        <3>6. e.by = r /\ e.op = "execute" /\ e.plan = p
            BY DEF B!ExecuteCall
        <3> HIDE DEF e
        <3>7. CallOK(e)'
            BY <1>0, <1>1, <2>1, <2>5, <3>3, <3>6 DEF CallOK, Own, B!IsRoute
        <3> QED
            BY <1>0, <1>3, <2>3, <3>2, <3>3, <3>4, <3>5, <3>7, OthersKeep DEF TrafficOK
    <2> QED
        BY <2>4, <2>5
<1>7. ASSUME req[r].at = "propose", B!OnProposal(r, p, B!Approves(c.lev)),
             calls' = (calls \ {c}) \cup B!NextCalls(r, p, B!Approves(c.lev))
      PROVE  TrafficOK' /\ PlansOK'
    <2>1. CASE B!Approves(c.lev)
        BY <1>6, <1>7, <2>1 DEF B!OnProposal, B!NextCalls
    <2>2. CASE ~B!Approves(c.lev)
        BY <1>5, <1>7, <2>2 DEF B!OnProposal, B!NextCalls
    <2> QED
        BY <2>1, <2>2
<1> QED
    BY <1>4, <1>5, <1>7 DEF B!HandlePropose, r, p

\* Deltr handles an execute.
LEMMA ExecuteStep ==
    ASSUME BridgeInv, NEW c \in calls, NEW reaches \in BOOLEAN, B!HandleExecute(c, reaches)
    PROVE  TrafficOK' /\ PlansOK'
<1> DEFINE r == c.by
           fresh == B!Pending(c.plan) \in plans
           x == [by |-> c.by, plan |-> c.plan]
<1>0. /\ TrafficOK /\ PlansOK /\ ReqTyped /\ CallOK(c) /\ r \in Requests /\ ReqOK(r)
      /\ c.op = "execute" /\ calls' = calls \ {c}
    BY DEF BridgeInv, TrafficOK, CallOK, B!HandleExecute
<1>1. plans' = IF fresh THEN (plans \ {B!Pending(c.plan)}) \cup {B!Consumed(c.plan)} ELSE plans
    BY DEF B!HandleExecute
<1>2. /\ c.plan \in B!Plans /\ Own(r, c.plan) /\ req[r].at \in {"execute", "call", "done"}
      /\ req[r].at = "execute" => c.plan = req[r].plan
    BY <1>0 DEF CallOK
<1>3. Keeps /\ PlansOK' /\ (fresh => B!Consumed(c.plan) \in plans')
    BY <1>0, <1>1, <1>2 DEF Keeps, PlansOK, B!Pending, B!Consumed
<1>4. ran' \subseteq ran \cup {x}
    BY DEF B!HandleExecute
<1>5. x.by = r /\ x.plan = c.plan
    OBVIOUS
<1>6. \/ UNCHANGED req
      \/ \E what \in {"executed", "answered", "toolerror"} :
            /\ B!Reply(r, what)
            /\ what = "executed" => fresh /\ req[r].at = "execute"
            /\ what = "answered" => req[r].at = "call"
    BY DEF B!HandleExecute
<1> HIDE DEF r, fresh, x
<1>7. CASE UNCHANGED req
    <2>1. \A q \in Requests : ReqOK(q)'
        BY <1>0, <1>3, <1>7 DEF TrafficOK, ReqOK, B!IsRoute, Keeps
    <2>2. (\A d \in calls : CallOK(d)') /\ (\A y \in ran : RanOK(y)')
        BY <1>0, <1>7 DEF TrafficOK, CallOK, RanOK, Own, B!IsRoute
    <2>3. ReqTyped'
        BY <1>0, <1>7 DEF ReqTyped
    <2>4. RanOK(x)'
        BY <1>0, <1>2, <1>5, <1>7 DEF RanOK, Own, B!IsRoute
    <2> QED
        BY <1>0, <1>3, <1>4, <2>1, <2>2, <2>3, <2>4 DEF TrafficOK
<1>8. ASSUME NEW what \in {"executed", "answered", "toolerror"}, B!Reply(r, what),
             what = "executed" => fresh /\ req[r].at = "execute",
             what = "answered" => req[r].at = "call"
      PROVE  TrafficOK' /\ PlansOK'
    <2>1. what \in B!Replies
        BY DEF B!Replies
    <2>2. what = "answered" => ~B!IsRoute(r)
        BY <1>0, <1>8 DEF ReqOK, B!IsRoute
    <2>3. what = "executed" => B!Consumed(req[r].plan) \in plans'
        BY <1>2, <1>3, <1>8
    <2>4. /\ ReqTyped'
          /\ \A q \in Requests : ReqOK(q)'
          /\ \A d \in calls : CallOK(d)'
          /\ \A y \in ran : RanOK(y)'
        BY <1>0, <1>3, <1>8, <2>1, <2>2, <2>3, ReplyKeeps
    <2>5. req'[r].at = "done" /\ req'[r].in = req[r].in
        BY <1>0, <1>8, ReplyEffect
    <2>6. RanOK(x)'
        BY <1>0, <1>2, <1>5, <2>5 DEF RanOK, Own, B!IsRoute
    <2> QED
        BY <1>0, <1>3, <1>4, <2>4, <2>6 DEF TrafficOK
<1> QED
    BY <1>6, <1>7, <1>8

\* Discovery and shutdown touch no request.
LEMMA ServerStep ==
    ASSUME BridgeInv, B!Next
    PROVE  /\ ServerOK'
           /\ B!DiscoverOfficial \/ B!DiscoverShim \/ B!Close \/ B!Closed
              => UNCHANGED <<req, calls, plans, ran>>
<1>1. ServerOK
    BY DEF BridgeInv
<1>2. CASE B!DiscoverOfficial \/ B!DiscoverShim \/ B!Close \/ B!Closed
    BY <1>1, <1>2 DEF B!DiscoverOfficial, B!DiscoverShim, B!Close, B!Closed, ServerOK
<1>3. CASE ~(B!DiscoverOfficial \/ B!DiscoverShim \/ B!Close \/ B!Closed)
    <2>1. UNCHANGED <<phase, upstream>> /\ deltr' \in Requests \cup {deltr}
        BY <1>3 DEF B!Next, B!Accept, B!Connected, B!ConnectFails, B!Timeout, B!UpstreamAnswers,
                    B!UpstreamFails, B!HandlePropose, B!HandleExecute
    <2> QED
        BY <1>1, <1>3, <2>1 DEF ServerOK
<1> QED
    BY <1>2, <1>3

\* The bridge keeps its invariant, and with it what it promises.
LEMMA BridgeStep == ASSUME BridgeInv, B!Next PROVE BridgeInv'
<1>1. ServerOK'
    BY ServerStep
<1>2. CASE B!DiscoverOfficial \/ B!DiscoverShim \/ B!Close \/ B!Closed
    <2>1. UNCHANGED <<req, calls, plans, ran>>
        BY <1>2, ServerStep
    <2>2. TrafficOK' /\ PlansOK'
        BY <2>1 DEF BridgeInv, TrafficOK, PlansOK, ReqTyped, ReqOK, CallOK, RanOK, Own, B!IsRoute
    <2> QED
        BY <1>1, <2>2 DEF BridgeInv
<1>3. ASSUME NEW r \in Requests, NEW in \in Inputs, B!Accept(r, in) PROVE BridgeInv'
    BY <1>1, <1>3, AcceptStep DEF BridgeInv, PlansOK, B!Accept
<1>4. ASSUME NEW r \in Requests,
             B!Connected(r) \/ B!ConnectFails(r) \/ B!Timeout(r) \/ B!UpstreamAnswers(r) \/ B!UpstreamFails(r)
      PROVE  BridgeInv'
    <2>1. plans' = plans
        BY <1>4 DEF B!Connected, B!ConnectFails, B!Timeout, B!UpstreamAnswers, B!UpstreamFails
    <2> QED
        BY <1>1, <1>4, <2>1, WaitStep DEF BridgeInv, PlansOK
<1>5. ASSUME NEW c \in calls, NEW reaches \in BOOLEAN, B!HandlePropose(c, reaches) \/ B!HandleExecute(c, reaches)
      PROVE  BridgeInv'
    BY <1>1, <1>5, ProposeStep, ExecuteStep DEF BridgeInv
<1> QED
    BY <1>2, <1>3, <1>4, <1>5 DEF B!Next

\* What the bridge promises, from the invariant.
LEMMA BridgePromises == BridgeInv => B!TypeOK /\ B!GatedRoute /\ B!OkMeansRun
<1> SUFFICES ASSUME BridgeInv PROVE B!TypeOK /\ B!GatedRoute /\ B!OkMeansRun
    OBVIOUS
<1>1. B!TypeOK
    BY DEF BridgeInv, ServerOK, TrafficOK, PlansOK, ReqOK, CallOK, B!TypeOK
<1>2. B!GatedRoute
    BY DEF BridgeInv, TrafficOK, CallOK, RanOK, Own, B!GatedRoute
<1>3. B!OkMeansRun
    <2> SUFFICES ASSUME NEW r \in Requests
                 PROVE  /\ req[r].reply = "executed" => B!Consumed(req[r].plan) \in plans
                        /\ req[r].reply = "proposed" => ~ \E x \in ran : x.by = r
                        /\ /\ B!IsRoute(r) /\ req[r].at = "done" /\ req[r].in.confirm = "yes"
                           /\ B!ExitCode(req[r].reply) = 0
                           => B!Consumed(req[r].plan) \in plans
        BY DEF B!OkMeansRun
    <2>1. ReqOK(r) /\ \A x \in ran : RanOK(x)
        BY DEF BridgeInv, TrafficOK
    <2>2. B!ExitCode(req[r].reply) = 0 => req[r].reply \in {"executed", "proposed", "answered"}
        BY <2>1 DEF B!ExitCode, ReqOK, B!Replies
    <2> QED
        BY <2>1, <2>2 DEF ReqOK, RanOK, Own
<1> QED
    BY <1>1, <1>2, <1>3

------------------------------------------------------------------------------
(* The risk-gate panel.                                                      *)

Names   == G!Range(G!CheckOrder)
Codes   == Names \cup {"OK", "OTHER"}
Check   == [name : Names, passed : BOOLEAN]
Checks  == {<<>>} \cup UNION {[1..n -> Check] : n \in 1..19}
RowOf(d, i) == G!Row(G!CheckOrder[i], d)

\* The rows of a decision tell its verdict.
Tells(d) ==
    /\ d.approved /\ d.closed => d.reduces
    /\ d.checks # <<>> =>
        IF d.approved
        THEN \A i \in 1..19 : RowOf(d, i) = "passed" \/ (d.reduces /\ RowOf(d, i) = "not reached")
        ELSE \E i \in 1..19 : /\ G!CheckOrder[i] = d.code /\ RowOf(d, i) = "failed"
                              /\ \A j \in 1..19 : /\ j < i => RowOf(d, j) = "passed"
                                                  /\ j > i => RowOf(d, j) = "not reached"

Told == {d \in [id : Nat, closed : BOOLEAN, approved : BOOLEAN, code : Codes,
                checks : Checks, reduces : BOOLEAN] : Tells(d)}

LogInv ==
    /\ gate \in G!GateStates /\ made \in 0..MaxMade /\ picked \in 0..MaxMade
    /\ decisions \in Seq(Told) /\ Len(decisions) <= MaxDecisions
    /\ \A i \in DOMAIN decisions : decisions[i].id \in 1..made

\* The order is published as it is run, and names nineteen checks.
LEMMA OrderFacts ==
    /\ G!Pipeline = G!CheckOrder /\ Len(G!CheckOrder) = 19 /\ DOMAIN G!CheckOrder = 1..19
    /\ \A i \in 1..19 : G!CheckOrder[i] \in Names
    /\ G!CheckOrder[1] = "KILL_SWITCH" /\ G!CheckOrder[2] = "HALTED_DRAWDOWN"
    /\ G!CheckOrder[3] = "MALFORMED" /\ G!CheckOrder[4] = "REDUCE_ONLY_UNVERIFIED"
<1>1. G!Pipeline = G!CheckOrder
    BY DEF G!Pipeline, G!CheckOrder
<1>2. Len(G!CheckOrder) = 19 /\ DOMAIN G!CheckOrder = 1..19
    BY DEF G!CheckOrder
<1>3. \A i \in 1..19 : G!CheckOrder[i] \in Names
    BY <1>2 DEF Names, G!Range
<1>4. /\ G!CheckOrder[1] = "KILL_SWITCH" /\ G!CheckOrder[2] = "HALTED_DRAWDOWN"
      /\ G!CheckOrder[3] = "MALFORMED" /\ G!CheckOrder[4] = "REDUCE_ONLY_UNVERIFIED"
    BY DEF G!CheckOrder
<1> QED
    BY <1>1, <1>2, <1>3, <1>4

\* No check is named twice.
LEMMA OrderDistinct ==
    ASSUME NEW i \in 1..19, NEW j \in 1..19, G!CheckOrder[i] = G!CheckOrder[j]
    PROVE  i = j
BY DEF G!CheckOrder

\* Some check fails first.
LEMMA FirstFailing ==
    ASSUME NEW S \in SUBSET (1..19), S # {}
    PROVE  \E i \in S : \A j \in S : i <= j
<1> DEFINE From(k) == \A j \in S : k <= j
<1> SUFFICES ASSUME ~\E i \in S : From(i) PROVE FALSE
    OBVIOUS
<1>1. From(1)
    OBVIOUS
<1>2. ASSUME NEW k \in 1..19, From(k) PROVE From(k + 1)
    <2>1. k \notin S
        BY <1>2
    <2> QED
        BY <1>2, <2>1
<1> HIDE DEF From
<1>3. From(2) /\ (From(2) => From(3)) /\ (From(3) => From(4)) /\ (From(4) => From(5))
    BY <1>1, <1>2
<1>4. (From(5) => From(6)) /\ (From(6) => From(7)) /\ (From(7) => From(8)) /\ (From(8) => From(9))
    BY <1>2
<1>5. (From(9) => From(10)) /\ (From(10) => From(11)) /\ (From(11) => From(12)) /\ (From(12) => From(13))
    BY <1>2
<1>6. (From(13) => From(14)) /\ (From(14) => From(15)) /\ (From(15) => From(16)) /\ (From(16) => From(17))
    BY <1>2
<1>7. (From(17) => From(18)) /\ (From(18) => From(19)) /\ (From(19) => From(20))
    BY <1>2
<1>8. From(20)
    BY <1>3, <1>4, <1>5, <1>6, <1>7
<1>9. PICK i \in S : TRUE
    OBVIOUS
<1>10. 20 <= i
    BY <1>8 DEF From
<1> QED
    BY <1>10

\* The flag of a check says what its if does.
LEMMA PassedOrVetoes ==
    ASSUME NEW name, NEW p \in G!Proposals
    PROVE  G!Passed(name, p) <=> ~G!Vetoes(name, p)
BY DEF G!Passed, G!Vetoes

\* The list of the checks up to the last one run.
Listed(p, last) ==
    [i \in 1..last |-> [name |-> G!Pipeline[i], passed |-> G!Passed(G!Pipeline[i], p)]]

\* The row of a check that ran shows its flag, the others were not reached.
LEMMA RowFacts ==
    ASSUME NEW p, NEW last \in 0..19, NEW d, d.checks = Listed(p, last), NEW i \in 1..19
    PROVE  /\ i > last => RowOf(d, i) = "not reached"
           /\ i <= last /\ G!Passed(G!CheckOrder[i], p) => RowOf(d, i) = "passed"
           /\ i <= last /\ ~G!Passed(G!CheckOrder[i], p) => RowOf(d, i) = "failed"
<1> DEFINE name == G!CheckOrder[i]
           cs == {c \in G!Range(d.checks) : c.name = name}
<1>1. /\ DOMAIN d.checks = 1..last /\ 1..last \subseteq 1..19
      /\ \A j \in 1..last : /\ d.checks[j].name = G!CheckOrder[j]
                            /\ d.checks[j].passed <=> G!Passed(G!CheckOrder[j], p)
    BY OrderFacts DEF Listed
<1>2. /\ \A c \in G!Range(d.checks) : \E j \in 1..last : c = d.checks[j]
      /\ \A j \in 1..last : d.checks[j] \in G!Range(d.checks)
    BY <1>1 DEF G!Range
<1>3. ASSUME NEW j \in 1..last, d.checks[j].name = name PROVE j = i
    BY <1>1, <1>3, OrderDistinct
<1>4. ASSUME i > last PROVE RowOf(d, i) = "not reached"
    <2>1. cs = {}
        BY <1>2, <1>3, <1>4
    <2> QED
        BY <2>1 DEF RowOf, G!Row
<1>5. ASSUME i <= last
      PROVE  /\ G!Passed(name, p) => RowOf(d, i) = "passed"
             /\ ~G!Passed(name, p) => RowOf(d, i) = "failed"
    <2>1. i \in 1..last
        BY <1>5
    <2>2. d.checks[i] \in cs
        BY <1>1, <1>2, <2>1
    <2>3. \A c \in cs : c = d.checks[i]
        BY <1>2, <1>3
    <2>4. (\A c \in cs : c.passed) <=> G!Passed(name, p)
        BY <1>1, <2>1, <2>2, <2>3
    <2>5. RowOf(d, i) = IF cs = {} THEN "not reached" ELSE IF \A c \in cs : c.passed THEN "passed" ELSE "failed"
        BY DEF RowOf, G!Row
    <2> HIDE DEF cs
    <2> QED
        BY <2>2, <2>4, <2>5
<1> QED
    BY <1>4, <1>5

\* What the gate explains, the rows tell.
LEMMA ExplainTells ==
    ASSUME gate \in G!GateStates, made \in Nat, NEW p \in G!Proposals
    PROVE  G!Explain(p) \in Told
<1> DEFINE failing == {i \in DOMAIN G!Pipeline : G!Vetoes(G!Pipeline[i], p)}
           first == CHOOSE i \in failing : \A j \in failing : i <= j
           last == IF G!Verified(p) THEN 4 ELSE IF failing = {} THEN Len(G!Pipeline) ELSE first
           vetoed == ~G!Verified(p) /\ failing # {}
           d == G!Explain(p)
<1>1. failing \in SUBSET (1..19) /\ \A i \in 1..19 : i \in failing <=> ~G!Passed(G!CheckOrder[i], p)
    BY OrderFacts, PassedOrVetoes
<1>2. failing # {} => first \in failing /\ \A j \in failing : first <= j
    BY <1>1, FirstFailing
<1> HIDE DEF failing, first
<1>3. last \in 1..19
    <2>1. CASE G!Verified(p) \/ failing = {}
        BY <2>1, OrderFacts
    <2>2. CASE ~G!Verified(p) /\ failing # {}
        BY <1>1, <1>2, <2>2
    <2> QED
        BY <2>1, <2>2
<1>4. d = G!Verdict(~vetoed, IF vetoed THEN G!Pipeline[first] ELSE "OK",
                    Listed(p, last), p.reduceOnly)
    BY DEF G!Explain, Listed, failing, first
<1> HIDE DEF last, d
<1>5. /\ d.id = made + 1 /\ (d.closed <=> gate # {}) /\ (d.approved <=> ~vetoed)
      /\ d.code = (IF vetoed THEN G!Pipeline[first] ELSE "OK")
      /\ d.checks = Listed(p, last)
      /\ d.reduces = p.reduceOnly
    BY <1>4 DEF G!Verdict
<1>6. \A i \in 1..19 :
          /\ i > last => RowOf(d, i) = "not reached"
          /\ i <= last /\ G!Passed(G!CheckOrder[i], p) => RowOf(d, i) = "passed"
          /\ i <= last /\ ~G!Passed(G!CheckOrder[i], p) => RowOf(d, i) = "failed"
    <2>1. last \in 0..19
        BY <1>3
    <2> QED
        BY <1>5, <2>1, RowFacts
<1>7. d \in [id : Nat, closed : BOOLEAN, approved : BOOLEAN, code : Codes,
             checks : Checks, reduces : BOOLEAN]
    <2> DEFINE checks == Listed(p, last)
               code == IF vetoed THEN G!Pipeline[first] ELSE "OK"
               approved == ~vetoed
               closed == gate # {}
    <2>1. \A i \in 1..19 : G!Passed(G!Pipeline[i], p) \in BOOLEAN
        BY DEF G!Passed, G!Verified, G!Malformed, G!Proposals
    <2>2. \A i \in 1..last : [name |-> G!Pipeline[i], passed |-> G!Passed(G!Pipeline[i], p)] \in Check
        BY <1>3, <2>1, OrderFacts DEF Check
    <2>3. checks \in Checks
        <3>1. checks \in [1..last -> Check]
            BY <2>2 DEF Listed
        <3> HIDE DEF checks
        <3> QED
            BY <1>3, <3>1 DEF Checks
    <2>4. code \in Codes
        BY <1>1, <1>2, OrderFacts DEF Codes
    <2>5. approved \in BOOLEAN /\ closed \in BOOLEAN /\ p.reduceOnly \in BOOLEAN
        BY DEF G!Proposals
    <2> HIDE DEF checks, code, approved, closed
    <2>6. [id |-> made + 1, closed |-> closed, approved |-> approved, code |-> code,
           checks |-> checks, reduces |-> p.reduceOnly]
          \in [id : Nat, closed : BOOLEAN, approved : BOOLEAN, code : Codes,
               checks : Checks, reduces : BOOLEAN]
        BY <2>3, <2>4, <2>5
    <2>7. d = [id |-> made + 1, closed |-> closed, approved |-> approved, code |-> code,
               checks |-> checks, reduces |-> p.reduceOnly]
        BY <1>4 DEF G!Verdict, checks, code, approved, closed
    <2> QED
        BY <2>6, <2>7
<1>8. Tells(d)
    <2>1. CASE G!Verified(p)
        <3>1. last = 4 /\ d.approved /\ d.reduces
            BY <1>5, <2>1 DEF last, G!Verified
        <3>2. \A i \in 1..4 : G!Passed(G!CheckOrder[i], p)
            BY <2>1, OrderFacts DEF G!Passed, G!Verified, G!Malformed
        <3>3. \A i \in 1..19 : RowOf(d, i) = "passed" \/ RowOf(d, i) = "not reached"
            <4> SUFFICES ASSUME NEW i \in 1..19
                         PROVE  RowOf(d, i) = "passed" \/ RowOf(d, i) = "not reached"
                OBVIOUS
            <4>1. i > 4 => i > last
                BY <3>1
            <4>2. ~(i > 4) => i <= last /\ i \in 1..4
                BY <3>1
            <4>3. i \in 1..4 => G!Passed(G!CheckOrder[i], p)
                BY <3>2
            <4> QED
                BY <1>6, <4>1, <4>2, <4>3
        <3> QED
            BY <3>1, <3>3 DEF Tells
    <2>2. CASE ~G!Verified(p) /\ failing = {}
        <3>1. last = 19 /\ d.approved
            BY <1>5, <2>2, OrderFacts DEF last
        <3>2. \A i \in 1..19 : RowOf(d, i) = "passed"
            BY <1>1, <1>6, <2>2, <3>1
        <3>3. ~d.closed
            <4>1. G!Passed("KILL_SWITCH", p) /\ G!Passed("HALTED_DRAWDOWN", p)
                BY <1>1, <2>2, OrderFacts
            <4>2. gate = {}
                BY <2>2, <4>1 DEF G!Passed, G!GateStates
            <4> QED
                BY <1>5, <4>2
        <3> QED
            BY <3>1, <3>2, <3>3 DEF Tells
    <2>3. CASE ~G!Verified(p) /\ failing # {}
        <3>1. last = first /\ ~d.approved /\ d.code = G!CheckOrder[first] /\ first \in 1..19
            BY <1>1, <1>2, <1>5, <2>3, OrderFacts DEF last
        <3>2. RowOf(d, first) = "failed"
            BY <1>1, <1>2, <1>6, <2>3, <3>1
        <3>3. ASSUME NEW j \in 1..19
              PROVE  /\ j < first => RowOf(d, j) = "passed"
                     /\ j > first => RowOf(d, j) = "not reached"
            <4>1. j < first => j <= last /\ j \notin failing
                BY <1>1, <1>2, <2>3, <3>1
            <4>2. j > first => j > last
                BY <3>1
            <4> QED
                BY <1>1, <1>6, <4>1, <4>2
        <3> QED
            BY <3>1, <3>2, <3>3 DEF Tells
    <2> QED
        BY <2>1, <2>2, <2>3
<1> QED
    BY <1>7, <1>8 DEF Told, d

\* So do the decisions that carry no checks.
LEMMA BareTells ==
    ASSUME made \in Nat, NEW approved \in BOOLEAN, NEW code \in Codes, NEW reduces \in BOOLEAN,
           approved /\ gate # {} => reduces
    PROVE  G!Verdict(approved, code, <<>>, reduces) \in Told
<1> DEFINE d == G!Verdict(approved, code, <<>>, reduces)
           closed == gate # {}
<1>1. closed \in BOOLEAN /\ <<>> \in Checks
    BY DEF Checks
<1>2. d = [id |-> made + 1, closed |-> closed, approved |-> approved, code |-> code,
           checks |-> <<>>, reduces |-> reduces]
    BY DEF G!Verdict
<1>0. closed <=> gate # {}
    OBVIOUS
<1> HIDE DEF closed
<1>3. d \in [id : Nat, closed : BOOLEAN, approved : BOOLEAN, code : Codes,
             checks : Checks, reduces : BOOLEAN]
    BY <1>1, <1>2
<1>4. d.approved = approved /\ d.closed = closed /\ d.reduces = reduces /\ d.checks = <<>>
    BY <1>2
<1> HIDE DEF d
<1>5. Tells(d)
    BY <1>0, <1>4 DEF Tells
<1> QED
    BY <1>3, <1>5 DEF Told, d

\* A recorded decision joins the list, the oldest may leave it.
LEMMA RecordKeeps ==
    ASSUME LogInv, NEW d \in Told, d.id = made + 1, G!Record(d)
    PROVE  LogInv'
<1> DEFINE all == Append(decisions, d)
<1>1. made \in Nat /\ made < MaxMade /\ made' = made + 1 /\ MaxDecisions \in Nat \ {0} /\ MaxMade \in Nat
    BY SurfacesAssumption DEF LogInv, G!Record, G!GateLogAssumption
<1>2. decisions \in Seq(Told) /\ Len(decisions) <= MaxDecisions
    BY DEF LogInv
<1>3. /\ all \in Seq(Told) /\ Len(all) = Len(decisions) + 1
      /\ \A i \in 1..Len(decisions) : all[i] = decisions[i]
      /\ all[Len(decisions) + 1] = d
    BY <1>2
<1>4. \A i \in 1..Len(all) : all[i].id \in 1..(made + 1)
    <2> SUFFICES ASSUME NEW i \in 1..Len(all) PROVE all[i].id \in 1..(made + 1)
        OBVIOUS
    <2>1. CASE i <= Len(decisions)
        BY <1>1, <1>2, <1>3, <2>1 DEF LogInv
    <2>2. CASE i = Len(decisions) + 1
        BY <1>1, <1>3, <2>2
    <2> QED
        BY <1>2, <1>3, <2>1, <2>2
<1> HIDE DEF all
<1>5. /\ decisions' \in Seq(Told) /\ Len(decisions') <= MaxDecisions
      /\ \A i \in DOMAIN decisions' : decisions'[i].id \in 1..(made + 1)
    <2>1. CASE Len(all) > MaxDecisions
        <3>1. decisions' = Tail(all) /\ Len(all) = MaxDecisions + 1
            BY <1>1, <1>2, <1>3, <2>1 DEF G!Record, all
        <3>2. /\ Tail(all) \in Seq(Told) /\ Len(Tail(all)) = Len(all) - 1
              /\ \A i \in 1..Len(Tail(all)) : Tail(all)[i] = all[i + 1] /\ i + 1 \in 1..Len(all)
            BY <1>1, <1>3, <3>1
        <3> QED
            BY <1>1, <1>4, <3>1, <3>2
    <2>2. CASE ~(Len(all) > MaxDecisions)
        <3>1. decisions' = all
            BY <2>2 DEF G!Record, all
        <3> QED
            BY <1>1, <1>3, <1>4, <2>2, <3>1
    <2> QED
        BY <2>1, <2>2
<1>6. gate' \in G!GateStates /\ made' \in 0..MaxMade /\ picked' \in 0..MaxMade
    BY <1>1 DEF LogInv, G!Record
<1> QED
    BY <1>1, <1>5, <1>6 DEF LogInv

\* No decision yet.
LEMMA LogInit == ASSUME G!Init PROVE LogInv
BY SurfacesAssumption DEF G!Init, LogInv, G!GateLogAssumption

\* An idle panel keeps what it had.
LEMMA LogIdle == ASSUME LogInv, UNCHANGED log PROVE LogInv'
BY DEF LogInv, log

\* The decision on screen is one of the list.
LEMMA ShownIsListed ==
    ASSUME LogInv, G!ShownDecision # G!NoDecision
    PROVE  \E i \in DOMAIN decisions : G!ShownDecision = decisions[i]
<1>1. decisions \in Seq(Told)
    BY DEF LogInv
<1>2. CASE G!Find(picked) # {}
    BY <1>2 DEF G!ShownDecision, G!Find
<1>3. CASE G!Find(picked) = {}
    <2>1. decisions # <<>> /\ G!ShownDecision = decisions[Len(decisions)]
        BY <1>3 DEF G!ShownDecision
    <2>2. Len(decisions) \in DOMAIN decisions
        BY <1>1, <2>1
    <2> QED
        BY <2>1, <2>2
<1> QED
    BY <1>2, <1>3

\* The list keeps telling.
LEMMA LogStep == ASSUME LogInv, G!Next PROVE LogInv'
<1>1. made \in Nat /\ gate \in G!GateStates
    BY SurfacesAssumption DEF LogInv, G!GateLogAssumption
<1>2. CASE G!Decide
    <2>1. PICK p \in G!Proposals : G!Record(G!Explain(p))
        BY <1>2 DEF G!Decide
    <2>2. G!Explain(p) \in Told /\ G!Explain(p).id = made + 1
        BY <1>1, ExplainTells DEF G!Explain, G!Verdict
    <2> QED
        BY <2>1, <2>2, RecordKeeps
<1>3. CASE G!Synthetic
    <2> PICK no \in BOOLEAN : no = FALSE
        OBVIOUS
    <2> DEFINE d == G!Verdict(no, "OTHER", <<>>, no)
    <2>0. "OTHER" \in Codes
        BY DEF Codes
    <2>1. d \in Told
        BY <1>1, <2>0, BareTells
    <2>3. d.id = made + 1
        BY DEF G!Verdict
    <2>2. G!Record(d)
        BY <1>3 DEF G!Synthetic
    <2> HIDE DEF d
    <2> QED
        BY <2>1, <2>2, <2>3, RecordKeeps
<1>4. CASE G!WalletDecision
    <2>1. PICK reducing \in BOOLEAN, refused \in BOOLEAN :
              LET code == IF ~reducing /\ "kill" \in gate THEN "KILL_SWITCH"
                          ELSE IF ~reducing /\ "halted" \in gate THEN "HALTED_DRAWDOWN"
                          ELSE IF refused THEN "OTHER" ELSE "OK"
              IN  G!Record(G!Verdict(code = "OK", code, <<>>, reducing))
        BY <1>4 DEF G!WalletDecision
    <2> DEFINE code == IF ~reducing /\ "kill" \in gate THEN "KILL_SWITCH"
                       ELSE IF ~reducing /\ "halted" \in gate THEN "HALTED_DRAWDOWN"
                       ELSE IF refused THEN "OTHER" ELSE "OK"
               approved == code = "OK"
               d == G!Verdict(approved, code, <<>>, reducing)
    <2>2. approved \in BOOLEAN /\ code \in Codes
        BY OrderFacts DEF Codes
    <2>3. approved /\ gate # {} => reducing
        BY <1>1 DEF G!GateStates
    <2>4. G!Record(d)
        BY <2>1
    <2>5. d.id = made + 1
        BY DEF G!Verdict
    <2> HIDE DEF approved, code
    <2>6. d \in Told
        BY <1>1, <2>2, <2>3, BareTells
    <2> HIDE DEF d
    <2> QED
        BY <2>4, <2>5, <2>6, RecordKeeps
<1>5. CASE G!GateMoves
    BY <1>5 DEF G!GateMoves, LogInv
<1>6. ASSUME NEW i \in DOMAIN decisions, G!PickDecision(decisions[i].id) PROVE LogInv'
    <2>1. decisions[i].id \in 0..MaxMade /\ 0 \in 0..MaxMade
        BY SurfacesAssumption DEF LogInv, G!GateLogAssumption
    <2>2. picked' \in 0..MaxMade /\ UNCHANGED <<gate, made, decisions>>
        BY <1>6, <2>1 DEF G!PickDecision
    <2> QED
        BY <2>2 DEF LogInv
<1> QED
    BY <1>2, <1>3, <1>4, <1>5, <1>6 DEF G!Next

\* What the panel promises.
LEMMA LogPromises == LogInv => G!TypeOK /\ G!RowsTellVerdict
<1> SUFFICES ASSUME LogInv PROVE G!TypeOK /\ G!RowsTellVerdict
    OBVIOUS
<1>1. ASSUME NEW i \in DOMAIN decisions
      PROVE  decisions[i] \in Told /\ decisions[i].id \in 1..made
    BY DEF LogInv
<1>2. G!TypeOK
    <2>1. ASSUME NEW i \in DOMAIN decisions, NEW c \in G!Range(decisions[i].checks)
          PROVE  c.name \in G!Range(G!CheckOrder) /\ c.passed \in BOOLEAN
        <3>1. decisions[i].checks \in Checks
            BY <1>1 DEF Told
        <3>2. c \in [name : Names, passed : BOOLEAN]
            <4> DEFINE cs == decisions[i].checks
            <4>1. PICK j \in DOMAIN cs : c = cs[j]
                BY DEF G!Range
            <4> HIDE DEF cs
            <4>2. cs # <<>>
                BY <4>1
            <4>3. PICK n \in 1..19 : cs \in [1..n -> Check]
                BY <3>1, <4>2 DEF Checks, cs
            <4> QED
                BY <4>1, <4>3 DEF Check
        <3> QED
            BY <3>2 DEF Names
    <2> QED
        BY <1>1, <2>1 DEF LogInv, G!TypeOK, G!Range
<1>3. G!RowsTellVerdict
    <2> DEFINE d == G!ShownDecision
               row == [i \in DOMAIN G!CheckOrder |-> G!Row(G!CheckOrder[i], d)]
    <2>1. CASE d = G!NoDecision
        BY <2>1 DEF G!RowsTellVerdict
    <2>2. CASE d # G!NoDecision
        <3>1. Tells(d)
            BY <1>1, <2>2, ShownIsListed DEF Told
        <3>2. DOMAIN row = 1..19 /\ \A i \in 1..19 : row[i] = RowOf(d, i)
            BY OrderFacts DEF RowOf
        <3>3. Len(row) = 19
            BY <3>2
        <3> HIDE DEF d, row
        <3>4. /\ d.approved /\ d.closed => d.reduces
              /\ d.checks # <<>> =>
                  IF d.approved
                  THEN \A i \in DOMAIN row : row[i] = "passed" \/ (d.reduces /\ row[i] = "not reached")
                  ELSE \E i \in DOMAIN row :
                          /\ G!CheckOrder[i] = d.code /\ row[i] = "failed"
                          /\ \A j \in 1..(i - 1) : row[j] = "passed"
                          /\ \A j \in (i + 1)..Len(row) : row[j] = "not reached"
            <4>1. CASE d.checks = <<>>
                BY <3>1, <4>1 DEF Tells
            <4>2. CASE d.checks # <<>> /\ d.approved
                BY <3>1, <3>2, <4>2 DEF Tells
            <4>3. CASE d.checks # <<>> /\ ~d.approved
                <5>1. PICK i \in 1..19 : /\ G!CheckOrder[i] = d.code /\ RowOf(d, i) = "failed"
                                        /\ \A j \in 1..19 : /\ j < i => RowOf(d, j) = "passed"
                                                            /\ j > i => RowOf(d, j) = "not reached"
                    BY <3>1, <4>3 DEF Tells
                <5>2. i \in DOMAIN row /\ row[i] = "failed"
                    BY <3>2, <5>1
                <5>3. ASSUME NEW j \in 1..(i - 1) PROVE row[j] = "passed"
                    <6>1. j \in 1..19 /\ j < i
                        OBVIOUS
                    <6> QED
                        BY <3>2, <5>1, <6>1
                <5>4. ASSUME NEW j \in (i + 1)..Len(row) PROVE row[j] = "not reached"
                    <6>1. j \in 1..19 /\ j > i
                        BY <3>3
                    <6> QED
                        BY <3>2, <5>1, <6>1
                <5> QED
                    BY <4>3, <5>1, <5>2, <5>3, <5>4
            <4> QED
                BY <4>1, <4>2, <4>3
        <3> QED
            BY <3>4 DEF G!RowsTellVerdict, d, row
    <2> QED
        BY <2>1, <2>2
<1> QED
    BY <1>2, <1>3

------------------------------------------------------------------------------
(* The trade panels.                                                         *)

Receipted == [plan : P!Times, at : P!Times, fills : SUBSET P!Legs]
Prompted  == [plan : P!Times, at : P!Times]
Lists     == [receipts : Seq(Receipted), prompts : Seq(Prompted), open : SUBSET P!Times]

In(x, s) == \E i \in 1..Len(s) : s[i] = x

\* A prompt whose plan was executed is older than the receipt of it, or than
\* every receipt of a list that is full.
Outdated(p, rs) ==
    \/ \E r \in Receipted : In(r, rs) /\ r.plan = p.plan /\ r.at > p.at
    \/ Len(rs) = MaxReceipts /\ \A i \in 1..Len(rs) : rs[i].at > p.at

\* The lists, with all that was executed by then, at a time of the clock.
ListsOK(ls, ex, now) ==
    /\ ls \in Lists
    /\ Len(ls.receipts) <= MaxReceipts /\ Len(ls.prompts) <= MaxPrompts
    /\ \A i \in 1..Len(ls.receipts) : ls.receipts[i].at \in 1..now
    /\ \A i, j \in 1..Len(ls.receipts) : i < j => ls.receipts[i].at < ls.receipts[j].at
    /\ \A i \in 1..Len(ls.prompts) : ls.prompts[i].at \in 1..now
    /\ \A p \in Prompted : In(p, ls.prompts) /\ p.plan \in ex => Outdated(p, ls.receipts)

\* The plans whose execution has ended with a receipt, at the engine and on screen.
Ended  == executed \ unreported
EndedThen == seen.executed \ seen.unreported

\* A run holds a plan of which nothing was told.
RunOK(rn, open) ==
    /\ rn \in [plan : P!Times, closes : P!Times]
    /\ rn = P!NoRun \/ rn.plan \in open

PanelsInv ==
    /\ clock \in P!Times
    /\ pending \subseteq 1..clock /\ executed \subseteq 1..clock /\ unreported \subseteq executed
    /\ RunOK(run, unreported)
    /\ \A p \in Prompted : In(p, lists.prompts) => p.plan <= clock
    /\ ListsOK(lists, Ended, clock)
    /\ seen.unreported \subseteq seen.executed
    /\ ListsOK(seen.lists, EndedThen, clock)
    /\ selected \in [kind : {"latest", "plan", "receipt"}, id : P!Times]

\* What the panels assume of their constants.
LEMMA PanelsConstants ==
    /\ Modes \subseteq {"paper", "testnet", "live"}
    /\ MaxReceipts \in Nat \ {0} /\ MaxPrompts \in Nat \ {0} /\ MaxClock \in Nat
    /\ 0 \in P!Times /\ P!Times \subseteq Nat
BY SurfacesAssumption DEF P!PanelsAssumption, P!Times

\* A non-empty set of positions up to n has a first one.
LEMMA FirstOne ==
    ASSUME NEW n \in Nat, NEW S \in SUBSET (0..n), S # {}
    PROVE  \E x \in S : \A y \in S : x <= y
<1> DEFINE U == 0..n
           Below == {0..x : x \in S}
<1>1. IsFiniteSet(U)
    BY FS_Interval
<1>2. Below \subseteq SUBSET U /\ Below # {}
    <2>1. ASSUME NEW x \in S PROVE 0..x \subseteq 0..n
        OBVIOUS
    <2> QED
        BY <2>1
<1>3. PICK m \in Below : \A z \in Below : z \subseteq m => z = m
    <2> HIDE DEF Below, U
    <2> QED
        BY <1>1, <1>2, MinimalSubset
<1>4. PICK x \in S : m = 0..x
    OBVIOUS
<1>5. ASSUME NEW y \in S, y < x PROVE FALSE
    <2>1. x \in Int /\ y \in Int /\ 0 <= x
        OBVIOUS
    <2>2. 0..y \in Below /\ 0..y \subseteq 0..x
        BY <1>5, <2>1
    <2>3. 0..y = 0..x
        BY <1>3, <1>4, <2>2
    <2>4. x \in 0..x /\ x \notin 0..y
        BY <1>5, <2>1
    <2> QED
        BY <2>3, <2>4
<1>6. ASSUME NEW y \in S PROVE x <= y
    <2>1. x \in Int /\ y \in Int
        OBVIOUS
    <2> QED
        BY <1>5, <2>1
<1> QED
    BY <1>6

\* A non-empty set of times has a last one.
LEMMA LastOne ==
    ASSUME NEW n \in Nat, NEW S \in SUBSET (0..n), S # {}
    PROVE  \E x \in S : \A y \in S : y <= x
<1> DEFINE T == {n - x : x \in S}
<1>1. T \in SUBSET (0..n) /\ T # {}
    <2>1. ASSUME NEW x \in S PROVE n - x \in 0..n
        OBVIOUS
    <2> QED
        BY <2>1
<1>2. PICK m \in T : \A y \in T : m <= y
    <2> HIDE DEF T
    <2> QED
        BY <1>1, FirstOne
<1>3. PICK x \in S : m = n - x
    OBVIOUS
<1>4. ASSUME NEW y \in S PROVE y <= x
    <2>1. n - y \in T /\ x \in 0..n /\ y \in 0..n
        OBVIOUS
    <2> QED
        BY <1>2, <1>3, <2>1
<1> QED
    BY <1>4

\* A list of at most max, t, is s with x at its end, and without the first of s
\* if s was full.
PutInto(t, s, x, max) ==
    /\ Len(t) <= max /\ Len(t) > 0 /\ t[Len(t)] = x
    /\ Len(s) < max => /\ Len(t) = Len(s) + 1
                       /\ \A i \in 1..Len(s) : t[i] = s[i]
    /\ Len(s) = max => /\ Len(t) = max
                       /\ \A i \in 1..(max - 1) : t[i] = s[i + 1]

\* A bounded list takes the new item; only its first may have to go.
LEMMA PutFacts ==
    ASSUME NEW S, NEW s \in Seq(S), NEW x \in S, NEW max \in Nat \ {0}, Len(s) <= max,
           NEW t, t = P!Put(s, x, max)
    PROVE  t \in Seq(S) /\ PutInto(t, s, x, max)
<1> DEFINE a == Append(s, x)
<1>1. /\ a \in Seq(S) /\ Len(a) = Len(s) + 1 /\ a[Len(s) + 1] = x
      /\ \A i \in 1..Len(s) : a[i] = s[i]
    OBVIOUS
<1> HIDE DEF a
<1>2. CASE Len(s) = max
    <2>1. P!Put(s, x, max) = Tail(a)
        BY <1>1, <1>2 DEF P!Put, a
    <2>2. /\ Tail(a) \in Seq(S) /\ Len(Tail(a)) = max
          /\ \A i \in 1..max : Tail(a)[i] = a[i + 1]
        BY <1>1, <1>2
    <2>3. \A i \in 1..(max - 1) : Tail(a)[i] = s[i + 1]
        <3> SUFFICES ASSUME NEW i \in 1..(max - 1) PROVE Tail(a)[i] = s[i + 1]
            OBVIOUS
        <3>1. i \in 1..max /\ i + 1 \in 1..Len(s)
            BY <1>2
        <3> QED
            BY <1>1, <2>2, <3>1
    <2>4. Tail(a)[max] = x
        <3>1. max \in 1..max
            OBVIOUS
        <3> QED
            BY <1>1, <1>2, <2>2, <3>1
    <2> QED
        BY <1>2, <2>1, <2>2, <2>3, <2>4 DEF PutInto
<1>3. CASE Len(s) # max
    <2>1. P!Put(s, x, max) = a
        BY <1>1, <1>3 DEF P!Put, a
    <2> QED
        BY <1>1, <1>3, <2>1 DEF PutInto
<1> QED
    BY <1>2, <1>3

\* The empty panels over a fresh engine.
LEMMA PanelsInit == ASSUME P!Init PROVE PanelsInv
<1> DEFINE none == [receipts |-> <<>>, prompts |-> <<>>, open |-> {}]
<1>1. none \in Lists
    BY DEF Lists
<1>2. none.receipts = <<>> /\ none.prompts = <<>>
    OBVIOUS
<1>3. ListsOK(none, {}, 0)
    BY <1>1, <1>2, PanelsConstants DEF ListsOK
<1>4. /\ clock = 0 /\ lists = none /\ pending = {} /\ executed = {} /\ unreported = {}
      /\ seen = [lists |-> none, executed |-> {}, unreported |-> {}]
      /\ run = P!NoRun /\ selected = P!Latest
    BY DEF P!Init
<1> HIDE DEF none
<1>5. seen.lists = none /\ seen.executed = {} /\ Ended = {} /\ EndedThen = {} /\ seen.unreported = {}
    BY <1>4 DEF Ended, EndedThen
<1>6. selected \in [kind : {"latest", "plan", "receipt"}, id : P!Times]
    BY <1>4, PanelsConstants DEF P!Latest, P!None
<1>7. RunOK(run, unreported)
    BY <1>4, PanelsConstants DEF RunOK, P!NoRun, P!None
<1> QED
    BY <1>2, <1>3, <1>4, <1>5, <1>6, <1>7, PanelsConstants DEF PanelsInv, In

\* Idle panels keep what they had.
LEMMA PanelsIdle == ASSUME PanelsInv, UNCHANGED panels PROVE PanelsInv'
BY DEF PanelsInv, panels, ListsOK, Lists, Receipted, Prompted, Outdated, Ended, EndedThen, RunOK

\* A new receipt: of no prompt that was not older.
LEMMA ReceiptKeeps ==
    ASSUME NEW ls, NEW ex, NEW now \in Nat, ListsOK(ls, ex, now), NEW x \in Receipted, x.at = now + 1,
           NEW ms, ms \in Lists, ms.prompts = ls.prompts,
           ms.receipts = P!Put(ls.receipts, x, MaxReceipts)
    PROVE  ListsOK(ms, ex \cup {x.plan}, now + 1)
<1> DEFINE s == ls.receipts
           t == ms.receipts
<1>1. s \in Seq(Receipted) /\ Len(s) <= MaxReceipts /\ MaxReceipts \in Nat \ {0} /\ Len(s) \in Nat
    BY PanelsConstants DEF ListsOK, Lists
<1>2. /\ t \in Seq(Receipted) /\ Len(t) <= MaxReceipts /\ Len(t) > 0 /\ t[Len(t)] = x
      /\ Len(s) < MaxReceipts => /\ Len(t) = Len(s) + 1
                                 /\ \A i \in 1..Len(s) : t[i] = s[i]
      /\ Len(s) = MaxReceipts => /\ Len(t) = MaxReceipts
                                 /\ \A i \in 1..(MaxReceipts - 1) : t[i] = s[i + 1]
    <2>1. t = P!Put(s, x, MaxReceipts)
        OBVIOUS
    <2> HIDE DEF s, t
    <2>2. t \in Seq(Receipted) /\ PutInto(t, s, x, MaxReceipts)
        BY <1>1, <2>1, PutFacts
    <2> QED
        BY <2>2 DEF PutInto
<1>3. /\ \A i \in 1..Len(s) : s[i].at \in 1..now
      /\ \A i, j \in 1..Len(s) : i < j => s[i].at < s[j].at
    BY DEF ListsOK
<1> HIDE DEF s, t
<1>4. PICK d \in {0, 1} : /\ Len(t) = Len(s) + 1 - d
                          /\ \A i \in 1..(Len(t) - 1) : i + d \in 1..Len(s) /\ t[i] = s[i + d]
                          /\ d = 1 => Len(s) = MaxReceipts
    <2>1. CASE Len(s) < MaxReceipts
        <3>1. \A i \in 1..(Len(t) - 1) : i + 0 \in 1..Len(s) /\ t[i] = s[i + 0]
            BY <1>1, <1>2, <2>1
        <3> QED
            BY <1>1, <1>2, <2>1, <3>1
    <2>2. CASE Len(s) = MaxReceipts
        <3>1. \A i \in 1..(Len(t) - 1) : i + 1 \in 1..Len(s) /\ t[i] = s[i + 1]
            BY <1>1, <1>2, <2>2
        <3> QED
            BY <1>1, <1>2, <2>2, <3>1
    <2> QED
        BY <1>1, <2>1, <2>2
<1>5. Len(t) \in Nat
    BY <1>2
<1>6. ASSUME NEW i \in 1..Len(t) PROVE t[i].at \in 1..(now + 1)
    <2>1. CASE i = Len(t)
        BY <1>2, <2>1
    <2>2. CASE i # Len(t)
        <3>1. i \in 1..(Len(t) - 1)
            BY <1>5, <2>2
        <3> QED
            BY <1>3, <1>4, <3>1
    <2> QED
        BY <2>1, <2>2
<1>7. ASSUME NEW i \in 1..Len(t), NEW j \in 1..Len(t), i < j PROVE t[i].at < t[j].at
    <2>1. i \in 1..(Len(t) - 1)
        BY <1>5, <1>7
    <2>2. i + d \in 1..Len(s) /\ t[i] = s[i + d] /\ t[i].at \in 1..now
        BY <1>3, <1>4, <2>1
    <2>3. CASE j = Len(t)
        BY <1>2, <2>2, <2>3
    <2>4. CASE j # Len(t)
        <3>1. j \in 1..(Len(t) - 1)
            BY <1>5, <2>4
        <3>2. j + d \in 1..Len(s) /\ t[j] = s[j + d] /\ i + d < j + d
            BY <1>4, <1>7, <3>1
        <3> QED
            BY <1>3, <2>2, <3>2
    <2> QED
        BY <2>3, <2>4
<1>8. ASSUME NEW p \in Prompted, In(p, ms.prompts), p.plan \in ex \cup {x.plan} PROVE Outdated(p, t)
    <2>1. p.at \in 1..now
        BY <1>8 DEF ListsOK, In
    <2>2. In(x, t)
        BY <1>2, <1>5 DEF In
    <2>3. CASE p.plan = x.plan
        BY <2>1, <2>2, <2>3 DEF Outdated
    <2>4. CASE p.plan \in ex
        <3>1. Outdated(p, s)
            BY <1>8, <2>4 DEF ListsOK, s
        <3>2. CASE \E r \in Receipted : In(r, s) /\ r.plan = p.plan /\ r.at > p.at
            <4>1. PICK r \in Receipted : In(r, s) /\ r.plan = p.plan /\ r.at > p.at
                BY <3>2
            <4>2. PICK k \in 1..Len(s) : s[k] = r
                BY <4>1 DEF In
            <4>3. CASE k - d \in 1..(Len(t) - 1)
                <5>1. t[k - d] = s[k - d + d] /\ k - d + d = k /\ k - d \in 1..Len(t)
                    BY <1>4, <1>5, <4>3
                <5>2. In(r, t)
                    BY <4>2, <5>1 DEF In
                <5> QED
                    BY <4>1, <5>2 DEF Outdated
            <4>4. CASE k - d \notin 1..(Len(t) - 1)
                <5>1. d = 1 /\ k = 1 /\ Len(s) = MaxReceipts /\ Len(t) = MaxReceipts
                    BY <1>1, <1>4, <4>4
                <5>2. ASSUME NEW i \in 1..Len(t) PROVE t[i].at > p.at
                    <6>1. CASE i = Len(t)
                        BY <1>2, <2>1, <6>1
                    <6>2. CASE i # Len(t)
                        <7>1. i \in 1..(Len(t) - 1)
                            BY <1>5, <6>2
                        <7>2. i + d \in 1..Len(s) /\ t[i] = s[i + d] /\ k < i + d
                            BY <1>4, <5>1, <7>1
                        <7>3. s[k].at < s[i + d].at /\ s[k].at > p.at
                            BY <1>3, <4>1, <4>2, <7>2
                        <7>4. s[k].at \in Nat /\ s[i + d].at \in Nat /\ p.at \in Nat
                            BY <1>3, <2>1, <7>2
                        <7> QED
                            BY <7>2, <7>3, <7>4
                    <6> QED
                        BY <6>1, <6>2
                <5> QED
                    BY <5>1, <5>2 DEF Outdated
            <4> QED
                BY <4>3, <4>4
        <3>3. CASE Len(s) = MaxReceipts /\ \A i \in 1..Len(s) : s[i].at > p.at
            <4>1. ASSUME NEW i \in 1..Len(t) PROVE t[i].at > p.at
                <5>1. CASE i = Len(t)
                    BY <1>2, <2>1, <5>1
                <5>2. CASE i # Len(t)
                    <6>1. i \in 1..(Len(t) - 1)
                        BY <1>5, <5>2
                    <6> QED
                        BY <1>4, <3>3, <6>1
                <5> QED
                    BY <5>1, <5>2
            <4>2. Len(t) = MaxReceipts
                BY <1>2, <3>3
            <4> QED
                BY <4>1, <4>2 DEF Outdated
        <3> QED
            BY <3>1, <3>2, <3>3 DEF Outdated
    <2> QED
        BY <1>8, <2>3, <2>4
<1>9. \A i \in 1..Len(ms.prompts) : ms.prompts[i].at \in 1..(now + 1)
    BY DEF ListsOK
<1>10. Len(ms.prompts) <= MaxPrompts
    BY DEF ListsOK
<1> QED
    BY <1>2, <1>6, <1>7, <1>8, <1>9, <1>10 DEF ListsOK, t

\* A new prompt: its plan, if any, was never executed.
LEMMA PromptKeeps ==
    ASSUME NEW ls, NEW ex, NEW now \in Nat, ListsOK(ls, ex, now), NEW x \in Prompted, x.at = now + 1,
           x.plan \notin ex,
           NEW ms, ms \in Lists, ms.receipts = ls.receipts,
           ms.prompts = P!Put(ls.prompts, x, MaxPrompts)
    PROVE  /\ ListsOK(ms, ex, now + 1)
           /\ \A p \in Prompted : In(p, ms.prompts) => p = x \/ In(p, ls.prompts)
<1> DEFINE s == ls.prompts
           t == ms.prompts
<1>1. s \in Seq(Prompted) /\ Len(s) <= MaxPrompts /\ MaxPrompts \in Nat \ {0} /\ Len(s) \in Nat
    BY PanelsConstants DEF ListsOK, Lists
<1>2. /\ t \in Seq(Prompted) /\ Len(t) <= MaxPrompts /\ Len(t) > 0 /\ t[Len(t)] = x
      /\ Len(s) < MaxPrompts => /\ Len(t) = Len(s) + 1
                                /\ \A i \in 1..Len(s) : t[i] = s[i]
      /\ Len(s) = MaxPrompts => /\ Len(t) = MaxPrompts
                                /\ \A i \in 1..(MaxPrompts - 1) : t[i] = s[i + 1]
    <2>1. t = P!Put(s, x, MaxPrompts)
        OBVIOUS
    <2> HIDE DEF s, t
    <2>2. t \in Seq(Prompted) /\ PutInto(t, s, x, MaxPrompts)
        BY <1>1, <2>1, PutFacts
    <2> QED
        BY <2>2 DEF PutInto
<1>3. \A i \in 1..Len(s) : s[i].at \in 1..now
    BY DEF ListsOK
<1> HIDE DEF s, t
<1>4. ASSUME NEW i \in 1..Len(t) PROVE t[i] = x \/ \E k \in 1..Len(s) : t[i] = s[k]
    <2>1. CASE i = Len(t)
        BY <1>2, <2>1
    <2>2. CASE i # Len(t) /\ Len(s) < MaxPrompts
        <3>1. i \in 1..Len(s)
            BY <1>1, <1>2, <2>2
        <3> QED
            BY <1>2, <2>2, <3>1
    <2>3. CASE i # Len(t) /\ Len(s) = MaxPrompts
        <3>1. i \in 1..(MaxPrompts - 1) /\ i + 1 \in 1..Len(s)
            BY <1>1, <1>2, <2>3
        <3> QED
            BY <1>2, <2>3, <3>1
    <2> QED
        BY <1>1, <2>1, <2>2, <2>3
<1>5. \A p \in Prompted : In(p, t) => p = x \/ In(p, s)
    BY <1>4 DEF In
<1>6. \A i \in 1..Len(t) : t[i].at \in 1..(now + 1)
    BY <1>3, <1>4
<1>7. ASSUME NEW p \in Prompted, In(p, t), p.plan \in ex PROVE Outdated(p, ls.receipts)
    BY <1>5, <1>7 DEF ListsOK, s
<1>8. /\ \A i \in 1..Len(ms.receipts) : ms.receipts[i].at \in 1..(now + 1)
      /\ \A i, j \in 1..Len(ms.receipts) : i < j => ms.receipts[i].at < ms.receipts[j].at
      /\ Len(ms.receipts) <= MaxReceipts
    BY DEF ListsOK
<1> QED
    BY <1>2, <1>5, <1>6, <1>7, <1>8 DEF ListsOK, s, t

\* What was so stays so as the clock goes on.
LEMMA ListsAge ==
    ASSUME NEW ls, NEW ex, NEW now \in Nat, ListsOK(ls, ex, now)
    PROVE  ListsOK(ls, ex, now + 1)
<1>1. \A k \in 1..now : k \in 1..(now + 1)
    OBVIOUS
<1> QED
    BY <1>1 DEF ListsOK

\* Of fewer plans less is asked.
LEMMA ListsFewer ==
    ASSUME NEW ls, NEW ex, NEW fewer \in SUBSET ex, NEW now, ListsOK(ls, ex, now)
    PROVE  ListsOK(ls, fewer, now)
BY DEF ListsOK

\* Open positions do not matter to it.
LEMMA ListsOpen ==
    ASSUME NEW ls, NEW ex, NEW now, ListsOK(ls, ex, now), NEW o \in SUBSET P!Times,
           NEW ms, ms = [ls EXCEPT !.open = o]
    PROVE  ListsOK(ms, ex, now) /\ ms.prompts = ls.prompts
<1>1. ls \in Lists
    BY DEF ListsOK
<1>2. ms \in Lists /\ ms.prompts = ls.prompts /\ ms.receipts = ls.receipts
    BY <1>1 DEF Lists
<1> QED
    BY <1>2 DEF ListsOK

\* A step of the engine is a tick of its clock.
LEMMA TickFacts ==
    ASSUME PanelsInv, P!Tick
    PROVE  /\ clock \in Nat /\ clock' = clock + 1 /\ clock + 1 \in P!Times
           /\ pending \subseteq 1..(clock + 1) /\ executed \subseteq 1..(clock + 1)
           /\ clock + 1 \in 1..(clock + 1) /\ clock + 1 \notin executed /\ 0 \notin executed
           /\ unreported \subseteq executed /\ RunOK(run, unreported)
           /\ ListsOK(lists, Ended, clock + 1) /\ ListsOK(seen.lists, EndedThen, clock + 1)
           /\ \A p \in Prompted : In(p, lists.prompts) => p.plan <= clock + 1
<1>1. clock \in Nat /\ clock' = clock + 1 /\ clock + 1 \in P!Times
    BY PanelsConstants DEF PanelsInv, P!Tick, P!Times
<1>2. pending \subseteq 1..clock /\ executed \subseteq 1..clock
      /\ unreported \subseteq executed /\ RunOK(run, unreported)
    BY DEF PanelsInv
<1>3. ListsOK(lists, Ended, clock + 1) /\ ListsOK(seen.lists, EndedThen, clock + 1)
    BY <1>1, ListsAge DEF PanelsInv
<1>4. ASSUME NEW p \in Prompted, In(p, lists.prompts) PROVE p.plan <= clock + 1
    <2>1. p.plan <= clock /\ p.plan \in Nat
        BY <1>4, PanelsConstants DEF PanelsInv, Prompted
    <2> QED
        BY <1>1, <2>1
<1> QED
    BY <1>1, <1>2, <1>3, <1>4

\* The parts of the invariant after a step of the engine.
LEMMA TickKeeps ==
    ASSUME PanelsInv, P!Tick, UNCHANGED <<seen, selected>>,
           pending' \subseteq 1..(clock + 1), executed' \subseteq 1..(clock + 1),
           unreported' \subseteq executed', RunOK(run', unreported'),
           \A p \in Prompted : In(p, lists'.prompts) => p.plan <= clock + 1,
           ListsOK(lists', executed' \ unreported', clock + 1)
    PROVE  PanelsInv'
<1>1. /\ clock' = clock + 1 /\ clock + 1 \in P!Times
      /\ ListsOK(seen.lists, EndedThen, clock + 1)
    BY TickFacts
<1>2. ListsOK(lists, Ended, clock)' /\ ListsOK(seen.lists, EndedThen, clock)'
    BY <1>1 DEF ListsOK, Outdated, Ended, EndedThen
<1>3. seen'.unreported \subseteq seen'.executed
      /\ selected' \in [kind : {"latest", "plan", "receipt"}, id : P!Times]
    BY DEF PanelsInv
<1>4. /\ clock' \in P!Times /\ pending' \subseteq 1..clock' /\ executed' \subseteq 1..clock'
      /\ \A p \in Prompted : In(p, lists'.prompts) => p.plan <= clock'
    BY <1>1
<1> QED
    BY <1>2, <1>3, <1>4 DEF PanelsInv, In, RunOK

\* The lists are lists, and so they are with another field of the right kind.
LEMMA ListsExcept ==
    ASSUME NEW ls \in Lists
    PROVE  /\ ls.receipts \in Seq(Receipted) /\ ls.prompts \in Seq(Prompted) /\ ls.open \subseteq P!Times
           /\ \A t \in Seq(Prompted) :
                  LET ms == [ls EXCEPT !.prompts = t] IN
                  ms \in Lists /\ ms.receipts = ls.receipts /\ ms.prompts = t
BY DEF Lists

\* A prompt puts itself at the end of the prompts.
LEMMA PromptStep == ASSUME PanelsInv, P!Prompt PROVE PanelsInv'
<1>1. /\ clock \in Nat /\ clock + 1 \in P!Times /\ clock' = clock + 1
      /\ pending \subseteq 1..(clock + 1) /\ executed \subseteq 1..(clock + 1)
      /\ clock + 1 \in 1..(clock + 1) /\ clock + 1 \notin Ended /\ 0 \notin Ended
      /\ unreported \subseteq executed /\ RunOK(run, unreported)
    BY TickFacts DEF P!Prompt, Ended
<1>2. PICK plan \in {0, clock + 1} :
          /\ lists' = [lists EXCEPT !.prompts = P!Put(@, [plan |-> plan, at |-> clock + 1], MaxPrompts)]
          /\ pending' = pending \cup ({plan} \ {0})
    BY <1>1 DEF P!Prompt, P!None
<1> DEFINE x == [plan |-> plan, at |-> clock + 1]
           t == P!Put(lists.prompts, x, MaxPrompts)
<1>3. x \in Prompted /\ x.at = clock + 1 /\ x.plan \notin Ended /\ x.plan <= clock + 1
    BY <1>1, PanelsConstants DEF Prompted
<1>4. lists \in Lists /\ ListsOK(lists, Ended, clock) /\ Len(lists.prompts) <= MaxPrompts
      /\ lists.prompts \in Seq(Prompted)
    BY ListsExcept DEF PanelsInv, ListsOK
<1>5. t \in Seq(Prompted)
    <2> HIDE DEF x
    <2> QED
        BY <1>3, <1>4, PanelsConstants, PutFacts
<1>6. lists' = [lists EXCEPT !.prompts = t]
    BY <1>2, <1>4 DEF Lists
<1> HIDE DEF t, x
<1>7. lists' \in Lists /\ lists'.receipts = lists.receipts /\ lists'.prompts = t
    BY <1>4, <1>5, <1>6, ListsExcept
<1>8. /\ ListsOK(lists', Ended, clock + 1)
      /\ \A p \in Prompted : In(p, lists'.prompts) => p = x \/ In(p, lists.prompts)
    <2>1. lists'.prompts = P!Put(lists.prompts, x, MaxPrompts)
        BY <1>7 DEF t
    <2> QED
        BY <1>1, <1>3, <1>4, <1>7, <2>1, PromptKeeps
<1>9. \A p \in Prompted : In(p, lists'.prompts) => p.plan <= clock + 1
    <2>1. \A p \in Prompted : In(p, lists.prompts) => p.plan <= clock
        BY DEF PanelsInv
    <2>2. \A p \in Prompted : p.plan \in Nat
        BY PanelsConstants DEF Prompted
    <2> QED
        BY <1>1, <1>3, <1>8, <2>1, <2>2
<1>10. P!Tick /\ UNCHANGED <<run, executed, unreported, seen, selected>>
    BY DEF P!Prompt
<1>11. pending' \subseteq 1..(clock + 1)
    BY <1>1, <1>2
<1>12. ListsOK(lists', executed' \ unreported', clock + 1)
    BY <1>8, <1>10 DEF Ended
<1>13. executed' \subseteq 1..(clock + 1) /\ unreported' \subseteq executed' /\ RunOK(run', unreported')
    BY <1>1, <1>10
<1> QED
    BY <1>9, <1>10, <1>11, <1>12, <1>13, TickKeeps

\* A receipt puts itself at the end of the receipts; of the plans executed, only
\* its own may be told of by it.
LEMMA ReceiptStep ==
    ASSUME PanelsInv, P!Tick, UNCHANGED <<seen, selected, executed>>,
           NEW x \in Receipted, x.at = clock + 1, NEW o \in SUBSET P!Times,
           lists' = [receipts |-> P!Put(lists.receipts, x, MaxReceipts),
                     prompts |-> lists.prompts, open |-> o],
           pending' \subseteq 1..(clock + 1), RunOK(run', unreported'),
           unreported' \subseteq unreported, unreported \ {x.plan} \subseteq unreported'
    PROVE  PanelsInv'
<1> DEFINE t == P!Put(lists.receipts, x, MaxReceipts)
<1>1. /\ clock \in Nat /\ clock' = clock + 1 /\ executed \subseteq 1..(clock + 1)
      /\ unreported \subseteq executed
      /\ \A p \in Prompted : In(p, lists.prompts) => p.plan <= clock + 1
    BY TickFacts
<1>2. lists \in Lists /\ ListsOK(lists, Ended, clock) /\ Len(lists.receipts) <= MaxReceipts
      /\ lists.receipts \in Seq(Receipted)
    BY ListsExcept DEF PanelsInv, ListsOK
<1>3. t \in Seq(Receipted)
    BY <1>2, PanelsConstants, PutFacts
<1> HIDE DEF t
<1>4. lists' = [receipts |-> t, prompts |-> lists.prompts, open |-> o]
    BY DEF t
<1>5. lists' \in Lists /\ lists'.prompts = lists.prompts /\ lists'.receipts = t
    <2>1. lists.prompts \in Seq(Prompted)
        BY <1>2, ListsExcept
    <2>2. [receipts |-> t, prompts |-> lists.prompts, open |-> o] \in Lists
        BY <1>3, <2>1 DEF Lists
    <2>3. lists' \in Lists
        BY <1>4, <2>2
    <2>4. lists'.prompts = lists.prompts /\ lists'.receipts = t
        BY <1>4
    <2> QED
        BY <2>3, <2>4
<1>6. ListsOK(lists', Ended \cup {x.plan}, clock + 1)
    <2>1. lists'.receipts = P!Put(lists.receipts, x, MaxReceipts)
        BY <1>5 DEF t
    <2> QED
        BY <1>1, <1>2, <1>5, <2>1, ReceiptKeeps
<1>7. executed' \ unreported' \in SUBSET (Ended \cup {x.plan})
    BY DEF Ended
<1>8. ListsOK(lists', executed' \ unreported', clock + 1)
    BY <1>6, <1>7, ListsFewer
<1>9. \A p \in Prompted : In(p, lists'.prompts) => p.plan <= clock + 1
    BY <1>1, <1>5
<1>10. executed' \subseteq 1..(clock + 1) /\ unreported' \subseteq executed'
    BY <1>1
<1> QED
    BY <1>8, <1>9, <1>10, TickKeeps

\* A run's end: its receipt, and perhaps a position opened or closed.
LEMMA FinishStep == ASSUME PanelsInv, P!Finish PROVE PanelsInv'
<1>1. /\ clock \in Nat /\ clock + 1 \in P!Times /\ clock' = clock + 1
      /\ pending \subseteq 1..(clock + 1) /\ RunOK(run, unreported)
    BY TickFacts DEF P!Finish
<1>2. PICK f \in SUBSET P!Legs, o \in P!Ends :
          lists' = [lists EXCEPT
              !.receipts = P!Put(@, [plan |-> run.plan, at |-> clock + 1, fills |-> f], MaxReceipts),
              !.open = o]
    BY <1>1 DEF P!Finish, P!Receipt
<1> DEFINE x == [plan |-> run.plan, at |-> clock + 1, fills |-> f]
<1>3. lists \in Lists /\ lists.open \subseteq P!Times
    BY ListsExcept DEF PanelsInv, ListsOK
<1>4. run.plan \in P!Times
    BY <1>1 DEF RunOK
<1>5. o \in SUBSET P!Times
    BY <1>3, <1>4 DEF P!Ends
<1>6. lists' = [receipts |-> P!Put(lists.receipts, x, MaxReceipts), prompts |-> lists.prompts, open |-> o]
    BY <1>2, <1>3 DEF Lists
<1>7. x \in Receipted /\ x.at = clock + 1 /\ x.plan = run.plan
    BY <1>1, <1>4 DEF Receipted
<1> HIDE DEF x
<1>8. P!Tick /\ UNCHANGED <<seen, selected, executed, pending>>
      /\ unreported' = unreported \ {run.plan} /\ run' = P!NoRun
    BY DEF P!Finish
<1>9. RunOK(run', unreported')
    BY <1>8, PanelsConstants DEF RunOK, P!NoRun, P!None
<1>10. unreported' \subseteq unreported /\ unreported \ {x.plan} \subseteq unreported'
    BY <1>7, <1>8
<1>11. pending' \subseteq 1..(clock + 1)
    BY <1>1, <1>8
<1> QED
    BY <1>5, <1>6, <1>7, <1>8, <1>9, <1>10, <1>11, ReceiptStep

\* A receipt that nothing ran for tells of nothing new.
LEMMA RefusedStep == ASSUME PanelsInv, P!Refused PROVE PanelsInv'
<1>1. /\ clock \in Nat /\ clock + 1 \in P!Times /\ clock' = clock + 1
      /\ pending \subseteq 1..(clock + 1) /\ executed \subseteq 1..(clock + 1)
      /\ RunOK(run, unreported)
    BY TickFacts DEF P!Refused
<1>2. PICK plan \in pending \cup executed \cup lists.open \cup {clock + 1} :
          lists' = [lists EXCEPT
              !.receipts = P!Put(@, [plan |-> plan, at |-> clock + 1, fills |-> {}], MaxReceipts)]
    BY <1>1 DEF P!Refused, P!Receipt
<1> DEFINE x == [plan |-> plan, at |-> clock + 1, fills |-> {}]
<1>3. lists \in Lists /\ lists.open \in SUBSET P!Times
    BY ListsExcept DEF PanelsInv, ListsOK
<1>4. plan \in P!Times
    <2>1. 1..(clock + 1) \subseteq P!Times
        BY <1>1, PanelsConstants DEF P!Times
    <2> QED
        BY <1>1, <1>2, <1>3, <2>1
<1>5. lists' = [receipts |-> P!Put(lists.receipts, x, MaxReceipts), prompts |-> lists.prompts, open |-> lists.open]
    BY <1>2, <1>3 DEF Lists
<1>6. x \in Receipted /\ x.at = clock + 1
    BY <1>1, <1>4 DEF Receipted
<1> HIDE DEF x
<1>7. P!Tick /\ UNCHANGED <<pending, seen, selected, executed, unreported, run>>
    BY DEF P!Refused
<1>8. pending' \subseteq 1..(clock + 1)
    BY <1>1, <1>7
<1>9. RunOK(run', unreported') /\ unreported' \subseteq unreported /\ unreported \ {x.plan} \subseteq unreported'
    BY <1>1, <1>7
<1> QED
    BY <1>3, <1>5, <1>6, <1>7, <1>8, <1>9, ReceiptStep

\* The lists as they were, or with other open positions.
LEMMA OpenStep ==
    ASSUME PanelsInv, P!Tick, UNCHANGED <<seen, selected>>, NEW o \in SUBSET P!Times,
           lists' = [lists EXCEPT !.open = o],
           pending' \subseteq 1..(clock + 1), executed' \subseteq 1..(clock + 1),
           unreported' \subseteq executed', executed' \ unreported' \subseteq Ended,
           RunOK(run', unreported')
    PROVE  PanelsInv'
<1>1. clock \in Nat /\ ListsOK(lists, Ended, clock + 1)
      /\ \A p \in Prompted : In(p, lists.prompts) => p.plan <= clock + 1
    BY TickFacts
<1>2. ListsOK(lists', Ended, clock + 1) /\ lists'.prompts = lists.prompts
    BY <1>1, ListsOpen
<1>3. ListsOK(lists', executed' \ unreported', clock + 1)
    <2>1. executed' \ unreported' \in SUBSET Ended
        OBVIOUS
    <2> QED
        BY <1>2, <2>1, ListsFewer
<1> QED
    BY <1>1, <1>2, <1>3, TickKeeps

\* An unwind or an unprompted entry begins, with a plan nobody has seen.
LEMMA BeginUnpromptedStep == ASSUME PanelsInv, P!BeginUnprompted PROVE PanelsInv'
<1>1. /\ clock \in Nat /\ clock' = clock + 1 /\ clock + 1 \in 1..(clock + 1)
      /\ clock + 1 \in P!Times
      /\ pending \subseteq 1..(clock + 1) /\ executed \subseteq 1..(clock + 1)
      /\ unreported \subseteq executed
      /\ lists.open \subseteq P!Times /\ lists \in Lists
    BY TickFacts, ListsExcept DEF P!BeginUnprompted, PanelsInv, ListsOK
<1>2. PICK plan \in 1..(clock + 1), y \in lists.open \cup {P!None} : P!Take(plan, y)
    <2>1. \A i \in 1..Len(lists.receipts) : lists.receipts[i].at \in 1..(clock + 1)
        BY TickFacts DEF P!BeginUnprompted, ListsOK
    <2>2. ASSUME NEW r \in P!Range(lists.receipts), r.at = r.plan PROVE r.plan \in 1..(clock + 1)
        <3>1. lists.receipts \in Seq(Receipted)
            BY <1>1, ListsExcept
        <3> QED
            BY <2>1, <2>2, <3>1 DEF P!Range
    <2> QED
        BY <1>1, <2>2 DEF P!BeginUnprompted
<1>3. P!Tick /\ UNCHANGED <<lists, pending, seen, selected>>
      /\ executed' = executed \cup {plan} /\ unreported' = unreported \cup {plan}
      /\ run' = [plan |-> plan, closes |-> y]
    BY <1>2 DEF P!BeginUnprompted, P!Take
<1>4. lists' = [lists EXCEPT !.open = lists.open]
    BY <1>1, <1>3 DEF Lists
<1>5. RunOK(run', unreported')
    <2>1. y \in P!Times
        BY <1>1, PanelsConstants DEF P!None
    <2>2. plan \in P!Times
        BY <1>1, PanelsConstants DEF P!Times
    <2> QED
        BY <1>1, <1>3, <2>1, <2>2 DEF RunOK
<1>6. executed' \subseteq 1..(clock + 1) /\ unreported' \subseteq executed' /\ executed' \ unreported' \subseteq Ended
    BY <1>1, <1>3 DEF Ended
<1> QED
    BY <1>1, <1>3, <1>4, <1>5, <1>6, OpenStep

\* A run that breaks off tells nothing.
LEMMA BreakStep == ASSUME PanelsInv, P!Break PROVE PanelsInv'
<1>1. /\ clock \in Nat /\ clock' = clock + 1
      /\ pending \subseteq 1..(clock + 1) /\ executed \subseteq 1..(clock + 1)
      /\ unreported \subseteq executed /\ RunOK(run, unreported)
      /\ lists.open \subseteq P!Times
    BY TickFacts, ListsExcept DEF P!Break, PanelsInv, ListsOK
<1>2. PICK o \in P!Ends : lists' = [lists EXCEPT !.open = o]
    BY DEF P!Break
<1>3. P!Tick /\ UNCHANGED <<pending, executed, unreported, seen, selected>> /\ run' = P!NoRun
    BY DEF P!Break
<1>4. o \in SUBSET P!Times
    BY <1>1, <1>2 DEF P!Ends, RunOK
<1>5. RunOK(run', unreported')
    BY <1>3, PanelsConstants DEF RunOK, P!NoRun, P!None
<1>6. executed' \ unreported' \subseteq Ended
    BY <1>3 DEF Ended
<1> QED
    BY <1>1, <1>2, <1>3, <1>4, <1>5, <1>6, OpenStep

\* A run takes its plan, which is then not told of.
LEMMA BeginStep == ASSUME PanelsInv, P!Begin PROVE PanelsInv'
<1>1. PICK plan \in pending : P!Take(plan, P!None) /\ pending' = pending \ {plan}
    BY DEF P!Begin
<1>2. UNCHANGED <<clock, lists, seen, selected>>
      /\ executed' = executed \cup {plan} /\ unreported' = unreported \cup {plan}
      /\ run' = [plan |-> plan, closes |-> P!None]
    BY <1>1 DEF P!Begin, P!Take
<1>3. clock \in P!Times /\ clock \in Nat /\ clock <= MaxClock /\ MaxClock \in Nat
      /\ pending \subseteq 1..clock /\ executed \subseteq 1..clock /\ unreported \subseteq executed
    BY PanelsConstants DEF PanelsInv, P!Times
<1>4. RunOK(run', unreported')
    <2>1. plan \in P!Times
        BY <1>3 DEF P!Times
    <2> QED
        BY <1>2, <2>1, PanelsConstants DEF RunOK, P!None
<1>5. ListsOK(lists, executed' \ unreported', clock)
    <2>1. executed' \ unreported' \in SUBSET Ended
        BY <1>2 DEF Ended
    <2> QED
        BY <2>1, ListsFewer DEF PanelsInv
<1>6. ListsOK(lists, Ended, clock)' /\ ListsOK(seen.lists, EndedThen, clock)'
    BY <1>2, <1>5 DEF PanelsInv, ListsOK, Outdated, Ended, EndedThen
<1>7. pending' \subseteq 1..clock' /\ executed' \subseteq 1..clock' /\ unreported' \subseteq executed'
    BY <1>1, <1>2, <1>3
<1> QED
    BY <1>2, <1>4, <1>6, <1>7 DEF PanelsInv, In, RunOK

\* A new process has neither receipts nor prompts.
LEMMA RestartStep == ASSUME PanelsInv, P!Restart PROVE PanelsInv'
<1>1. P!Tick /\ UNCHANGED <<seen, selected>> /\ executed' = {} /\ unreported' = {} /\ pending' = {}
      /\ run' = P!NoRun
    BY DEF P!Restart
<1>2. clock \in Nat
    BY <1>1, TickFacts
<1>3. PICK o \in SUBSET lists.open : lists' = [receipts |-> <<>>, prompts |-> <<>>, open |-> o]
    BY DEF P!Restart
<1>4. lists' \in Lists /\ lists'.receipts = <<>> /\ lists'.prompts = <<>>
    <2>1. <<>> \in Seq(Receipted) /\ <<>> \in Seq(Prompted) /\ o \subseteq P!Times
        BY <1>3, ListsExcept DEF PanelsInv, ListsOK
    <2> QED
        BY <1>3, <2>1 DEF Lists
<1>5. Len(lists'.receipts) = 0 /\ Len(lists'.prompts) = 0
    BY <1>4
<1>6. ListsOK(lists', executed' \ unreported', clock + 1) /\ \A p : ~In(p, lists'.prompts)
    BY <1>4, <1>5, PanelsConstants DEF ListsOK, In
<1>7. RunOK(run', unreported')
    BY <1>1, PanelsConstants DEF RunOK, P!NoRun, P!None
<1> QED
    BY <1>1, <1>2, <1>6, <1>7, TickKeeps

\* Every step of the engine and of the page keeps the invariant.
LEMMA PanelsStep == ASSUME PanelsInv, P!Next PROVE PanelsInv'
<1>1. CASE P!Prompt
    BY <1>1, PromptStep
<1>2. CASE P!Begin \/ P!BeginUnprompted
    BY <1>2, BeginStep, BeginUnpromptedStep
<1>3. CASE P!Finish \/ P!Break \/ P!Refused
    BY <1>3, FinishStep, BreakStep, RefusedStep
<1>4. CASE P!Restart
    BY <1>4, RestartStep
<1>5. CASE P!Snapshot
    <2>1. UNCHANGED <<clock, lists, pending, run, executed, unreported, selected>>
          /\ seen' = [lists |-> lists, executed |-> executed, unreported |-> unreported]
        BY <1>5 DEF P!Snapshot
    <2>2. seen'.lists = lists /\ seen'.executed = executed /\ seen'.unreported = unreported
        BY <2>1
    <2>3. ListsOK(lists, Ended, clock)' /\ ListsOK(seen.lists, EndedThen, clock)'
        BY <2>1, <2>2 DEF PanelsInv, ListsOK, Outdated, Ended, EndedThen
    <2> QED
        BY <2>1, <2>2, <2>3 DEF PanelsInv, In, RunOK
<1>6. CASE P!SelectTrace
    <2>1. UNCHANGED <<clock, lists, pending, run, executed, unreported, seen>>
          /\ selected' \in P!Traces \cup {P!Latest}
        BY <1>6 DEF P!SelectTrace
    <2>2. seen.lists \in Lists
        BY DEF PanelsInv, ListsOK
    <2>3. ASSUME NEW ls \in Lists
          PROVE  /\ \A i \in DOMAIN ls.receipts : ls.receipts[i].at \in P!Times
                 /\ \A i \in DOMAIN ls.prompts : ls.prompts[i].plan \in P!Times
        <3>1. ls.receipts \in Seq(Receipted) /\ ls.prompts \in Seq(Prompted)
            BY ListsExcept
        <3>2. \A i \in DOMAIN ls.receipts : ls.receipts[i] \in Receipted
            BY <3>1
        <3>3. \A i \in DOMAIN ls.prompts : ls.prompts[i] \in Prompted
            BY <3>1
        <3> QED
            BY <3>2, <3>3 DEF Receipted, Prompted
    <2>4. selected' \in [kind : {"latest", "plan", "receipt"}, id : P!Times]
        <3> DEFINE R == [kind : {"latest", "plan", "receipt"}, id : P!Times]
                   Of(ls) == {[kind |-> "receipt", id |-> ls.receipts[i].at] : i \in DOMAIN ls.receipts}
                             \cup {[kind |-> "plan", id |-> ls.prompts[i].plan] :
                                       i \in {j \in DOMAIN ls.prompts : ls.prompts[j].plan # P!None}}
        <3>1. ASSUME NEW ls \in Lists PROVE Of(ls) \subseteq R
            BY <2>3
        <3>2. P!Traces = Of(seen.lists)
            BY DEF P!Traces, P!Receipts, P!Prompts
        <3>3. P!Latest \in R
            BY PanelsConstants DEF P!Latest, P!None
        <3> HIDE DEF R, Of
        <3>4. selected' \in R
            BY <2>1, <2>2, <3>1, <3>2, <3>3
        <3> QED
            BY <3>4 DEF R
    <2>5. ListsOK(lists, Ended, clock)' /\ ListsOK(seen.lists, EndedThen, clock)'
        BY <2>1 DEF PanelsInv, ListsOK, Outdated, Ended, EndedThen
    <2> QED
        BY <2>1, <2>4, <2>5 DEF PanelsInv, In, RunOK
<1> QED
    BY <1>1, <1>2, <1>3, <1>4, <1>5, <1>6 DEF P!Next

\* The newest of a non-empty set of dated items is one of them.
LEMMA NewestFacts ==
    ASSUME NEW S, S # {}, \A x \in S : x.at \in P!Times
    PROVE  P!Newest(S) \in S /\ \A y \in S : y.at <= P!Newest(S).at
<1> DEFINE A == {x.at : x \in S}
<1>1. A \in SUBSET (0..MaxClock) /\ A # {} /\ MaxClock \in Nat
    BY PanelsConstants DEF P!Times
<1>2. PICK a \in A : \A b \in A : b <= a
    <2> HIDE DEF A
    <2> QED
        BY <1>1, LastOne
<1>3. PICK x \in S : x.at = a
    OBVIOUS
<1>4. \A y \in S : y.at <= x.at
    BY <1>2, <1>3
<1> QED
    BY <1>4 DEF P!Newest

\* The snapshot on screen.
LEMMA SeenFacts ==
    ASSUME PanelsInv
    PROVE  /\ P!Receipts \in Seq(Receipted) /\ P!Prompts \in Seq(Prompted)
           /\ Len(P!Receipts) \in 0..MaxReceipts
           /\ \A r \in P!Range(P!Receipts) : r \in Receipted /\ In(r, P!Receipts) /\ r.at > 0
           /\ \A p \in P!Range(P!Prompts) : p \in Prompted /\ In(p, P!Prompts)
           /\ \A p \in P!Range(P!Prompts) : p.plan \in EndedThen => Outdated(p, P!Receipts)
           /\ \A i \in 1..Len(P!Receipts) : P!Receipts[i] \in P!Range(P!Receipts)
<1>1. ListsOK(seen.lists, EndedThen, clock) /\ clock \in Nat
    BY PanelsConstants DEF PanelsInv, P!Times
<1>2. P!Receipts = seen.lists.receipts /\ P!Prompts = seen.lists.prompts
    BY DEF P!Receipts, P!Prompts
<1>3. P!Receipts \in Seq(Receipted) /\ P!Prompts \in Seq(Prompted)
    BY <1>1, <1>2, ListsExcept DEF ListsOK
<1>4. Len(P!Receipts) \in 0..MaxReceipts
    BY <1>1, <1>2, <1>3, PanelsConstants DEF ListsOK
<1>5. ASSUME NEW r \in P!Range(P!Receipts) PROVE r \in Receipted /\ In(r, P!Receipts) /\ r.at > 0
    <2>1. PICK i \in 1..Len(P!Receipts) : P!Receipts[i] = r
        BY <1>3 DEF P!Range
    <2>2. r.at \in 1..clock
        BY <1>1, <1>2, <2>1 DEF ListsOK
    <2> QED
        BY <1>1, <1>3, <2>1, <2>2 DEF In
<1>6. ASSUME NEW p \in P!Range(P!Prompts) PROVE p \in Prompted /\ In(p, P!Prompts)
    BY <1>3 DEF P!Range, In
<1>7. ASSUME NEW p \in P!Range(P!Prompts), p.plan \in EndedThen PROVE Outdated(p, P!Receipts)
    BY <1>1, <1>2, <1>6, <1>7 DEF ListsOK
<1>8. \A i \in 1..Len(P!Receipts) : P!Receipts[i] \in P!Range(P!Receipts)
    BY <1>3 DEF P!Range
<1> QED
    BY <1>3, <1>4, <1>5, <1>6, <1>7, <1>8

\* A selected plan shown as not executed has no receipt in the list.
LEMMA SelectedPrompt ==
    ASSUME PanelsInv, NEW p \in P!Range(P!Prompts), p.plan \in EndedThen, selected.kind = "plan",
           p.plan = selected.id, {r \in P!Range(P!Receipts) : P!Matches(r)} = {}
    PROVE  Len(P!Receipts) = MaxReceipts /\ \A i \in 1..Len(P!Receipts) : P!Receipts[i].at > p.at
<1>1. Outdated(p, P!Receipts) /\ P!Receipts \in Seq(Receipted)
    BY SeenFacts
<1>2. ASSUME NEW r \in Receipted, In(r, P!Receipts), r.plan = p.plan PROVE FALSE
    <2>1. r \in P!Range(P!Receipts)
        BY <1>2, SeenFacts DEF In
    <2> QED
        BY <1>2, <2>1 DEF P!Matches
<1> QED
    BY <1>1, <1>2 DEF Outdated

\* The latest trace is never a prompt whose plan was executed.
LEMMA LatestPrompt ==
    ASSUME PanelsInv, P!LatestTrace.view = "prompt", P!LatestTrace.plan \in EndedThen
    PROVE  FALSE
<1> DEFINE rs == P!Range(P!Receipts)
           ps == P!Range(P!Prompts)
           r == P!Newest(rs)
           p == P!Newest(ps)
<1>1. P!LatestTrace = IF r # P!NoItem /\ ~(p # P!NoItem /\ p.at > r.at) THEN P!ReceiptView(r)
                      ELSE IF p # P!NoItem THEN P!PromptView(p)
                      ELSE [view |-> "empty", plan |-> P!None, at |-> 0]
    BY DEF P!LatestTrace
<1>2. ~(r # P!NoItem /\ ~(p # P!NoItem /\ p.at > r.at)) /\ p # P!NoItem /\ p.plan \in EndedThen
    <2> HIDE DEF r, p
    <2>1. P!ReceiptView(r).view # "prompt" /\ P!PromptView(p).plan = p.plan
        BY DEF P!ReceiptView, P!PromptView
    <2> QED
        BY <1>1, <2>1
<1>3. ps # {}
    BY <1>2 DEF P!Newest
<1>4. p \in ps /\ p \in Prompted /\ p.at \in Nat
    <2>1. \A x \in ps : x \in Prompted /\ x.at \in P!Times
        BY SeenFacts DEF Prompted
    <2>2. p \in ps
        <3> HIDE DEF ps
        <3> QED
            BY <1>3, <2>1, NewestFacts
    <2> QED
        BY <2>1, <2>2, PanelsConstants
<1>5. Outdated(p, P!Receipts)
    <2> HIDE DEF p
    <2> QED
        BY <1>2, <1>4, SeenFacts
<1>6. \A x \in rs : x \in Receipted /\ x.at \in P!Times /\ x.at > 0
    BY SeenFacts DEF Receipted
<1>7. PICK y \in rs : y.at > p.at
    <2> HIDE DEF p
    <2>1. CASE \E x \in Receipted : In(x, P!Receipts) /\ x.plan = p.plan /\ x.at > p.at
        BY <2>1, SeenFacts DEF In
    <2>2. CASE Len(P!Receipts) = MaxReceipts /\ \A i \in 1..Len(P!Receipts) : P!Receipts[i].at > p.at
        <3>1. 1 \in 1..Len(P!Receipts)
            BY <2>2, PanelsConstants
        <3> QED
            BY <2>2, <3>1, SeenFacts
    <2> QED
        BY <1>5, <2>1, <2>2 DEF Outdated
<1>8. r \in rs /\ y.at <= r.at
    <2> HIDE DEF rs
    <2> QED
        BY <1>6, <1>7, NewestFacts
<1>9. y.at \in Nat /\ r.at \in Nat /\ r.at > 0
    <2> HIDE DEF r
    <2> QED
        BY <1>6, <1>7, <1>8, PanelsConstants
<1>10. r # P!NoItem
    <2> HIDE DEF r
    <2>1. P!NoItem.at = 0
        BY DEF P!NoItem
    <2> QED
        BY <1>9, <2>1
<1> HIDE DEF r, p
<1> QED
    BY <1>2, <1>4, <1>7, <1>8, <1>9, <1>10

\* What is shown as not executed was not, unless the user holds on to it.
LEMMA PickIsTrue == ASSUME PanelsInv PROVE P!NotExecutedIsTrue
<1> DEFINE rs == {r \in P!Range(P!Receipts) : P!Matches(r)}
           ps == {p \in P!Range(P!Prompts) : p.plan = selected.id}
<1> SUFFICES ASSUME P!Pick.view = "prompt", P!Pick.plan \in EndedThen
             PROVE  /\ selected = [kind |-> "plan", id |-> P!Pick.plan]
                    /\ Len(P!Receipts) = MaxReceipts
                    /\ \A i \in DOMAIN P!Receipts : P!Receipts[i].at > P!Pick.at
    BY DEF P!NotExecutedIsTrue, EndedThen
<1>1. P!Pick = IF selected # P!Latest /\ rs # {} THEN P!ReceiptView(P!Newest(rs))
               ELSE IF selected.kind = "plan" /\ ps # {} THEN P!PromptView(P!Newest(ps))
               ELSE P!LatestTrace
    BY DEF P!Pick
<1>2. ~(selected # P!Latest /\ rs # {})
    <2> HIDE DEF rs, ps
    <2>1. P!ReceiptView(P!Newest(rs)).view # "prompt"
        BY DEF P!ReceiptView
    <2> QED
        BY <1>1, <2>1
<1>3. selected.kind = "plan" /\ ps # {}
    <2> HIDE DEF rs, ps
    <2> QED
        BY <1>1, <1>2, LatestPrompt
<1>4. P!Newest(ps) \in ps
    <2>1. \A x \in ps : x.at \in P!Times
        BY SeenFacts DEF Prompted
    <2> HIDE DEF ps
    <2> QED
        BY <1>3, <2>1, NewestFacts
<1>5. PICK p \in P!Range(P!Prompts) : p = P!Newest(ps) /\ p.plan = selected.id
    BY <1>4
<1>6. P!Pick.plan = p.plan /\ P!Pick.at = p.at
    <2> HIDE DEF rs, ps
    <2>1. P!Pick = P!PromptView(p)
        BY <1>1, <1>2, <1>3, <1>5
    <2> QED
        BY <2>1 DEF P!PromptView
<1>7. rs = {}
    BY <1>2, <1>3 DEF P!Latest
<1>8. Len(P!Receipts) = MaxReceipts /\ \A i \in 1..Len(P!Receipts) : P!Receipts[i].at > p.at
    BY <1>3, <1>5, <1>6, <1>7, SelectedPrompt
<1>9. selected = [kind |-> "plan", id |-> p.plan]
    BY <1>3, <1>5 DEF PanelsInv
<1>10. DOMAIN P!Receipts = 1..Len(P!Receipts)
    BY SeenFacts
<1> QED
    BY <1>6, <1>8, <1>9, <1>10

\* Whatever the snapshot still holds, a leg of an open position is badged with
\* what the router reports for it.
LEMMA FillIsReported ==
    ASSUME NEW md, NEW x, NEW leg
    PROVE  P!FillSource(md, x, leg) \in {P!Filled(md, leg), P!Fallback(md, leg)}
BY DEF P!FillSource

\* What the panels promise, from the invariant.
LEMMA PanelsPromises ==
    ASSUME PanelsInv
    PROVE  P!TypeOK /\ P!NotExecutedIsTrue /\ P!RealFillNotPaper
<1>1. ASSUME NEW md \in Modes, NEW x
      PROVE  /\ P!FillSource(md, x, "perp") = "paper" <=> md = "paper"
             /\ P!FillSource(md, x, "dex") = "paper" <=> md # "live"
    <2>1. md \in {"paper", "testnet", "live"}
        BY PanelsConstants
    <2>2. \A leg \in {"dex", "perp"} : P!Filled(md, leg) = P!Fallback(md, leg)
        BY <2>1 DEF P!Filled, P!Fallback
    <2>3. /\ P!FillSource(md, x, "perp") = P!Fallback(md, "perp")
          /\ P!FillSource(md, x, "dex") = P!Fallback(md, "dex")
        BY <2>2, FillIsReported
    <2>4. /\ P!Fallback(md, "perp") = "paper" <=> md = "paper"
          /\ P!Fallback(md, "dex") = "paper" <=> md # "live"
        BY <2>1 DEF P!Fallback
    <2> QED
        BY <2>3, <2>4
<1>2. P!RealFillNotPaper
    BY <1>1 DEF P!RealFillNotPaper
<1>3. P!TypeOK
    <2>1. lists \in Lists /\ Len(lists.receipts) <= MaxReceipts /\ Len(lists.prompts) <= MaxPrompts
        BY DEF PanelsInv, ListsOK
    <2>2. lists.receipts \in Seq(Receipted) /\ lists.prompts \in Seq(Prompted)
          /\ lists.open \subseteq P!Times
        BY <2>1, ListsExcept
    <2>3. ASSUME NEW i \in DOMAIN lists.receipts
          PROVE  /\ lists.receipts[i].plan \in P!Times /\ lists.receipts[i].at \in P!Times
                 /\ lists.receipts[i].fills \subseteq P!Legs
        <3>1. lists.receipts[i] \in Receipted
            BY <2>2
        <3> QED
            BY <3>1 DEF Receipted
    <2>4. ASSUME NEW i \in DOMAIN lists.prompts PROVE lists.prompts[i].plan \in P!Times
        <3>1. lists.prompts[i] \in Prompted
            BY <2>2
        <3> QED
            BY <3>1 DEF Prompted
    <2>5. pending \subseteq P!Times /\ executed \subseteq P!Times
        BY PanelsConstants DEF PanelsInv, P!Times
    <2>6. run.closes \in P!Times /\ run.plan \in unreported \cup {P!None}
        BY DEF PanelsInv, RunOK, P!NoRun
    <2> QED
        BY <2>1, <2>2, <2>3, <2>4, <2>5, <2>6 DEF P!TypeOK, PanelsInv
<1> QED
    BY <1>2, <1>3, PickIsTrue

------------------------------------------------------------------------------
(* What the bridge sends upstream.                                           *)

\* The names that may go upstream: known reads, and nothing that looks like a write.
Forwarded == (ReadNames \cup B!OfficialNames) \ TradeNames

\* What was sent, and what a request has yet to try.
SentInv ==
    /\ sentUp \subseteq Forwarded
    /\ \A r \in Requests : req[r].at = "upstream" => req[r].try \in Seq(Forwarded)

\* h keeps, of the first k names of s, those in D.
Kept(h, s, D0, n) ==
    h = [k \in 0..n |-> IF k = 0 THEN <<>>
                        ELSE IF s[k] \in D0 THEN Append(h[k - 1], s[k]) ELSE h[k - 1]]

\* There is such a function.
LEMMA KeptExists == ASSUME NEW s, NEW D0, NEW n \in Nat PROVE \E h : Kept(h, s, D0, n)
<1> DEFINE Bad == {m \in 0..n : ~ \E h : Kept(h, s, D0, m)}
<1> SUFFICES ASSUME Bad # {} PROVE FALSE
    OBVIOUS
<1>1. PICK m \in Bad : \A y \in Bad : m <= y
    <2>1. Bad \in SUBSET (0..n)
        OBVIOUS
    <2> HIDE DEF Bad
    <2> QED
        BY <2>1, FirstOne
<1>2. m \in 0..n /\ ~ \E h : Kept(h, s, D0, m)
    OBVIOUS
<1>3. CASE m = 0
    <2>1. Kept([k \in 0..0 |-> <<>>], s, D0, 0)
        BY DEF Kept
    <2> QED
        BY <1>2, <1>3, <2>1
<1>4. CASE m > 0
    <2>1. m - 1 \in 0..n /\ m - 1 \notin Bad
        BY <1>1, <1>2, <1>4
    <2>2. PICK h : Kept(h, s, D0, m - 1)
        BY <2>1
    <2> DEFINE step(f, k) == IF k = 0 THEN <<>>
                             ELSE IF s[k] \in D0 THEN Append(f[k - 1], s[k]) ELSE f[k - 1]
               g == [k \in 0..m |-> IF k < m THEN h[k] ELSE step(h, m)]
    <2>3. \A k \in 0..(m - 1) : h[k] = step(h, k)
        BY <1>2, <1>4, <2>2 DEF Kept
    <2>4. \A k \in 0..(m - 1) : g[k] = h[k]
        <3> HIDE DEF step
        <3> QED
            BY <1>2, <1>4
    <2>5. g[m] = step(h, m)
        <3> HIDE DEF step
        <3> QED
            BY <1>2
    <2>6. ASSUME NEW k \in 0..m PROVE g[k] = step(g, k)
        <3>1. CASE k = m
            <4>1. g[m - 1] = h[m - 1]
                BY <1>2, <1>4, <2>4
            <4> HIDE DEF g
            <4> QED
                BY <1>4, <2>5, <3>1, <4>1
        <3>2. CASE k < m
            <4>1. g[k] = h[k] /\ h[k] = step(h, k)
                BY <1>2, <2>3, <2>4, <3>2
            <4>2. k # 0 => g[k - 1] = h[k - 1]
                BY <1>2, <2>4, <3>2
            <4> HIDE DEF g
            <4> QED
                BY <4>1, <4>2
        <3> QED
            BY <1>2, <3>1, <3>2
    <2>7. g = [k \in 0..m |-> g[k]]
        OBVIOUS
    <2> HIDE DEF g
    <2>8. g = [k \in 0..m |-> step(g, k)]
        <3> HIDE DEF step
        <3> QED
            BY <2>6, <2>7
    <2>9. Kept(g, s, D0, m)
        BY <2>8 DEF Kept
    <2> QED
        BY <1>2, <2>9
<1> QED
    BY <1>2, <1>3, <1>4

\* What it keeps are names of the sequence.
LEMMA KeptTyped ==
    ASSUME NEW S, NEW s \in Seq(S), NEW D0, NEW n \in 0..Len(s), NEW h, Kept(h, s, D0, n)
    PROVE  h[n] \in Seq(S)
<1> DEFINE Bad == {m \in 0..n : h[m] \notin Seq(S)}
<1> SUFFICES ASSUME Bad # {} PROVE FALSE
    OBVIOUS
<1>0. \A k \in 0..n : h[k] = IF k = 0 THEN <<>>
                             ELSE IF s[k] \in D0 THEN Append(h[k - 1], s[k]) ELSE h[k - 1]
    BY DEF Kept
<1>1. PICK m \in Bad : \A y \in Bad : m <= y
    <2>1. Bad \in SUBSET (0..n) /\ n \in Nat
        OBVIOUS
    <2> HIDE DEF Bad
    <2> QED
        BY <2>1, FirstOne
<1>2. m \in 0..n /\ h[m] \notin Seq(S)
    OBVIOUS
<1>3. m # 0
    <2>1. h[0] = <<>> /\ <<>> \in Seq(S)
        BY <1>0
    <2> QED
        BY <1>2, <2>1
<1>4. m - 1 \in 0..n /\ h[m - 1] \in Seq(S)
    BY <1>1, <1>2, <1>3
<1>5. s[m] \in S
    BY <1>2, <1>3
<1>6. h[m] = Append(h[m - 1], s[m]) \/ h[m] = h[m - 1]
    BY <1>0, <1>2, <1>3
<1>7. \A u \in Seq(S), y \in S : Append(u, y) \in Seq(S)
    OBVIOUS
<1> QED
    BY <1>2, <1>4, <1>5, <1>6, <1>7

\* Every candidate for a name that may be forwarded may be forwarded, and there is one.
LEMMA CandidatesForwarded ==
    ASSUME NEW n \in Forwarded, NEW found, NEW t, t = B!OfficialCandidates(n, found)
    PROVE  t \in Seq(Forwarded) /\ t # <<>>
<1> DEFINE aliases == IF n \in DOMAIN Alias THEN Alias[n] ELSE <<>>
           ordered == IF n \in B!Range(aliases) THEN aliases ELSE Append(aliases, n)
<1>1. aliases \in Seq(Forwarded)
    <2>1. /\ \A x \in DOMAIN Alias : Alias[x] \in Seq(B!OfficialNames)
          /\ B!OfficialNames \cap TradeNames = {}
        BY SurfacesAssumption DEF B!BridgeAssumption
    <2>2. B!OfficialNames \subseteq Forwarded
        BY <2>1 DEF Forwarded
    <2>3. \A x \in Seq(B!OfficialNames) : x \in Seq(Forwarded)
        <3> SUFFICES ASSUME NEW x \in Seq(B!OfficialNames) PROVE x \in Seq(Forwarded)
            OBVIOUS
        <3>1. Len(x) \in Nat /\ x \in [1..Len(x) -> B!OfficialNames]
            OBVIOUS
        <3>2. x \in [1..Len(x) -> Forwarded]
            BY <2>2, <3>1
        <3> QED
            BY <3>1, <3>2
    <2> QED
        BY <2>1, <2>3
<1>2. ordered \in Seq(Forwarded) /\ ordered # <<>>
    <2>1. CASE n \in B!Range(aliases)
        <3>1. aliases # <<>>
            <4>1. PICK i \in DOMAIN aliases : aliases[i] = n
                BY <2>1 DEF B!Range
            <4> HIDE DEF aliases
            <4> QED
                BY <4>1
        <3> QED
            BY <1>1, <2>1, <3>1
    <2>2. CASE n \notin B!Range(aliases)
        <3>1. ordered = Append(aliases, n)
            BY <2>2
        <3> HIDE DEF ordered, aliases
        <3> QED
            BY <1>1, <3>1
    <2> QED
        BY <2>1, <2>2
<1>3. B!Advertised(ordered, found) \in Seq(Forwarded)
    <2> HIDE DEF ordered
    <2>1. Len(ordered) \in Nat /\ Len(ordered) \in 0..Len(ordered)
        BY <1>2
    <2> DEFINE h == CHOOSE f : Kept(f, ordered, found, Len(ordered))
    <2>2. Kept(h, ordered, found, Len(ordered))
        BY <2>1, KeptExists
    <2>3. B!Advertised(ordered, found) = h[Len(ordered)]
        BY DEF B!Advertised, Kept
    <2> HIDE DEF h
    <2> QED
        BY <1>2, <2>1, <2>2, <2>3, KeptTyped
<1>4. t = IF B!Advertised(ordered, found) # <<>> THEN B!Advertised(ordered, found) ELSE ordered
    BY DEF B!OfficialCandidates
<1> HIDE DEF ordered
<1> QED
    BY <1>2, <1>3, <1>4

\* Nothing is sent before the bridge serves.
LEMMA SentInit == ASSUME B!Init PROVE SentInv
BY DEF B!Init, B!Idle, SentInv

\* An idle bridge sends nothing.
LEMMA SentIdle == ASSUME SentInv, UNCHANGED bridge PROVE SentInv'
BY DEF SentInv, bridge

\* One request less, or none, has names to try.
LEMMA SentKeeps ==
    ASSUME SentInv, UNCHANGED sentUp, NEW r \in Requests, req'[r].at # "upstream",
           \A q \in Requests : q # r => req'[q] = req[q]
    PROVE  SentInv'
BY DEF SentInv

\* A request is taken and waits for Deltr, or is refused.
LEMMA SentStart ==
    ASSUME SentInv, ReqTyped, NEW r \in Requests, NEW in, UNCHANGED sentUp, B!Start(r, in)
    PROVE  SentInv'
<1>1. \/ \E at \in {"propose", "call"} : B!Await(r, in, at)
      \/ B!Refuse(r, in, "toolerror")
    BY DEF B!Start
<1>2. CASE B!Refuse(r, in, "toolerror")
    <2>1. req'[r].at = "done" /\ \A q \in Requests : q # r => req'[q] = req[q]
        BY <1>2, RefuseEffect
    <2> QED
        BY <2>1, SentKeeps
<1>3. ASSUME NEW at \in {"propose", "call"}, B!Await(r, in, at) PROVE SentInv'
    <2>1. req'[r].at = at /\ \A q \in Requests : q # r => req'[q] = req[q]
        BY <1>3, AwaitEffect
    <2>2. req'[r].at # "upstream"
        BY <2>1
    <2> QED
        BY <2>1, <2>2, SentKeeps
<1> QED
    BY <1>1, <1>2, <1>3

\* A name goes up only if it passes both lists, and so do the names tried after it.
LEMMA SentAccept ==
    ASSUME SentInv, ReqTyped, NEW r \in Requests, NEW in \in Inputs, B!Accept(r, in)
    PROVE  SentInv'
<1>1. ASSUME NEW what, B!Refuse(r, in, what), UNCHANGED sentUp PROVE SentInv'
    <2>1. req'[r].at = "done" /\ \A q \in Requests : q # r => req'[q] = req[q]
        BY <1>1, RefuseEffect
    <2> QED
        BY <1>1, <2>1, SentKeeps
<1>2. CASE B!Await(r, in, "connect") /\ UNCHANGED sentUp
    <2>1. req'[r].at = "connect" /\ \A q \in Requests : q # r => req'[q] = req[q]
        BY <1>2, AwaitEffect
    <2> QED
        BY <1>2, <2>1, SentKeeps
<1>3. CASE B!Start(r, in) /\ UNCHANGED sentUp
    BY <1>3, SentStart
<1>4. ASSUME ~B!TradeShaped(in.name), B!IsForwardableReadOnly(in.name),
             NEW names, names = B!OfficialCandidates(in.name, upstream.tools),
             req' = [req EXCEPT ![r].at = "upstream", ![r].in = in, ![r].try = Tail(names)],
             sentUp' = sentUp \cup {Head(names)}
      PROVE  SentInv'
    <2>1. in.name \in Forwarded
        BY <1>4 DEF B!TradeShaped, B!IsForwardableReadOnly, Forwarded
    <2>2. names \in Seq(Forwarded) /\ names # <<>>
        BY <1>4, <2>1, CandidatesForwarded
    <2>3. Head(names) \in Forwarded /\ Tail(names) \in Seq(Forwarded)
        BY <2>2
    <2>4. req'[r].try = Tail(names) /\ \A q \in Requests : q # r => req'[q] = req[q]
        BY <1>4 DEF ReqTyped, Fields
    <2> QED
        BY <1>4, <2>3, <2>4 DEF SentInv
<1> QED
    BY <1>1, <1>2, <1>3, <1>4 DEF B!Accept

\* The next name of a request goes up; an answer, a failure or a timeout ends it.
LEMMA SentWait ==
    ASSUME SentInv, ReqTyped, NEW r \in Requests,
           B!Connected(r) \/ B!ConnectFails(r) \/ B!Timeout(r) \/ B!UpstreamAnswers(r) \/ B!UpstreamFails(r)
    PROVE  SentInv'
<1>1. ASSUME NEW what, B!Reply(r, what), UNCHANGED sentUp PROVE SentInv'
    <2>1. req'[r].at = "done" /\ \A q \in Requests : q # r => req'[q] = req[q]
        BY <1>1, ReplyEffect
    <2> QED
        BY <1>1, <2>1, SentKeeps
<1>2. CASE B!Connected(r)
    <2>1. B!Start(r, req[r].in) /\ UNCHANGED sentUp
        BY <1>2 DEF B!Connected
    <2> QED
        BY <2>1, SentStart
<1>3. CASE B!UpstreamFails(r) /\ req[r].try # <<>>
    <2>1. req[r].try \in Seq(Forwarded)
        BY <1>3 DEF SentInv, B!UpstreamFails
    <2>2. Head(req[r].try) \in Forwarded /\ Tail(req[r].try) \in Seq(Forwarded)
        BY <1>3, <2>1
    <2>3. req' = [req EXCEPT ![r].try = Tail(@)] /\ sentUp' = sentUp \cup {Head(req[r].try)}
        BY <1>3 DEF B!UpstreamFails
    <2>4. req'[r].try = Tail(req[r].try) /\ \A q \in Requests : q # r => req'[q] = req[q]
        BY <2>3 DEF ReqTyped, Fields
    <2> QED
        BY <2>2, <2>3, <2>4 DEF SentInv
<1> QED
    BY <1>1, <1>2, <1>3 DEF B!ConnectFails, B!Timeout, B!UpstreamAnswers, B!UpstreamFails

\* Deltr's answers send nothing upstream.
LEMMA SentHandled ==
    ASSUME SentInv, BridgeInv, NEW c \in calls, NEW reaches \in BOOLEAN,
           B!HandlePropose(c, reaches) \/ B!HandleExecute(c, reaches)
    PROVE  SentInv'
<1> DEFINE r == c.by
<1>0. r \in Requests /\ ReqTyped /\ UNCHANGED sentUp
    BY DEF BridgeInv, TrafficOK, CallOK, B!HandlePropose, B!HandleExecute
<1> HIDE DEF r
<1>1. ASSUME NEW what, B!Reply(r, what) PROVE SentInv'
    <2>1. req'[r].at = "done" /\ \A q \in Requests : q # r => req'[q] = req[q]
        BY <1>0, <1>1, ReplyEffect
    <2> QED
        BY <1>0, <2>1, SentKeeps
<1>2. CASE UNCHANGED req
    BY <1>0, <1>2 DEF SentInv
<1>3. ASSUME NEW p, NEW ok, B!OnProposal(r, p, ok) PROVE SentInv'
    <2>1. CASE B!Reply(r, "vetoed")
        BY <1>1, <2>1
    <2>2. ASSUME NEW at \in {"done", "execute"}, req'[r].at = at, \A q \in Requests : q # r => req'[q] = req[q]
          PROVE SentInv'
        <3>1. req'[r].at # "upstream"
            BY <2>2
        <3> QED
            BY <1>0, <2>2, <3>1, SentKeeps
    <2>3. CASE req' = [req EXCEPT ![r].at = "done", ![r].plan = p, ![r].reply = "proposed"]
        <3>1. req'[r].at = "done" /\ \A q \in Requests : q # r => req'[q] = req[q]
            BY <1>0, <2>3 DEF ReqTyped, Fields
        <3> QED
            BY <2>2, <3>1
    <2>4. CASE req' = [req EXCEPT ![r].at = "execute", ![r].plan = p]
        <3>1. req'[r].at = "execute" /\ \A q \in Requests : q # r => req'[q] = req[q]
            BY <1>0, <2>4 DEF ReqTyped, Fields
        <3> QED
            BY <2>2, <3>1
    <2> QED
        BY <1>3, <2>1, <2>3, <2>4 DEF B!OnProposal
<1>4. CASE B!HandlePropose(c, reaches)
    BY <1>1, <1>2, <1>3, <1>4 DEF B!HandlePropose, r
<1>5. CASE B!HandleExecute(c, reaches)
    BY <1>1, <1>2, <1>5 DEF B!HandleExecute, r
<1> QED
    BY <1>4, <1>5

\* Every step keeps what is sent on the lists.
LEMMA SentStep == ASSUME SentInv, BridgeInv, B!Next PROVE SentInv'
<1>0. ReqTyped
    BY DEF BridgeInv, TrafficOK
<1>1. CASE B!DiscoverOfficial \/ B!DiscoverShim \/ B!Close \/ B!Closed
    <2>1. UNCHANGED <<req, sentUp>>
        BY <1>1 DEF B!DiscoverOfficial, B!DiscoverShim, B!Close, B!Closed
    <2> QED
        BY <2>1 DEF SentInv
<1>2. ASSUME NEW r \in Requests, NEW in \in Inputs, B!Accept(r, in) PROVE SentInv'
    BY <1>0, <1>2, SentAccept
<1>3. ASSUME NEW r \in Requests, B!Connected(r) \/ B!ConnectFails(r) \/ B!Timeout(r)
                                 \/ B!UpstreamAnswers(r) \/ B!UpstreamFails(r)
      PROVE SentInv'
    BY <1>0, <1>3, SentWait
<1>4. ASSUME NEW c \in calls, NEW reaches \in BOOLEAN,
             B!HandlePropose(c, reaches) \/ B!HandleExecute(c, reaches)
      PROVE SentInv'
    BY <1>4, SentHandled
<1> QED
    BY <1>1, <1>2, <1>3, <1>4 DEF B!Next

------------------------------------------------------------------------------
(* The edge panel.                                                           *)

\* What the edge panel assumes of its constants.
LEMMA EdgeConstants ==
    /\ AssumedRate \in Nat \ {0} /\ MaxCurveH \in Nat \ {0} /\ MaxPoints \in Nat \ {0}
    /\ \A q \in Quotes :
        /\ q.basis \in Int /\ q.fee \in Int /\ q.impact \in Int /\ q.slip \in Int
        /\ q.taker \in Int /\ q.gas \in Int /\ q.exit \in Int /\ q.rate \in Int
        /\ q.iv \in Nat \ {0}
    /\ Offsets \subseteq Int
    /\ Horizons \subseteq 1..MaxCurveH /\ Horizons # {}
    /\ ConfiguredH \in Nat \ {0}
    /\ \A h \in Horizons \cup {ConfiguredH} : h \in Nat \ {0}
BY SurfacesAssumption DEF E!EdgePanelAssumption, E!EdgeMathAssumption

\* The panel's state: every edge is one the backend computed, and an answer
\* came with the rows and the analysis of its own edge.
EdgeInv ==
    /\ edge = E!NoEdge \/ edge \in E!MarketEdges(ConfiguredH)
    /\ isMock \in BOOLEAN /\ altErr \in BOOLEAN
    /\ horizon \in Horizons /\ asked \in Horizons \cup {E!None}
    /\ alt = E!NoAlt \/ \E h \in Horizons : \E e \in E!MarketEdges(h) : alt = E!Answer(e)

\* The panel starts empty, at the longer horizon.
LEMMA EdgeInit == ASSUME E!Init PROVE EdgeInv
<1>1. E!Max(Horizons) \in Horizons
    <2>1. \E x \in Horizons : \A y \in Horizons : y <= x
        <3>1. Horizons \in SUBSET (0..MaxCurveH) /\ MaxCurveH \in Nat
            BY EdgeConstants
        <3> QED
            BY <3>1, EdgeConstants, LastOne
    <2> QED
        BY <2>1 DEF E!Max
<1>2. edge = E!NoEdge /\ horizon \in Horizons /\ asked = E!None /\ alt = E!NoAlt
    BY <1>1 DEF E!Init
<1>3. isMock \in BOOLEAN /\ altErr \in BOOLEAN
    BY DEF E!Init
<1> QED
    BY <1>2, <1>3 DEF EdgeInv

\* An idle panel keeps what it had.
LEMMA EdgeIdle == ASSUME EdgeInv, UNCHANGED panel PROVE EdgeInv'
BY DEF EdgeInv, panel

\* The effect asks for the horizon now shown, or forgets everything.
LEMMA EffectKeeps ==
    ASSUME EdgeInv, E!Effect, horizon' \in Horizons
    PROVE  /\ asked' \in Horizons \cup {E!None} /\ altErr' \in BOOLEAN
           /\ alt' = E!NoAlt \/ \E h \in Horizons : \E e \in E!MarketEdges(h) : alt' = E!Answer(e)
<1>1. CASE asked' = E!None /\ alt' = E!NoAlt /\ altErr' = FALSE
    <2>1. altErr' \in BOOLEAN
        BY <1>1
    <2> QED
        BY <1>1, <2>1
<1>2. CASE asked' = horizon' /\ UNCHANGED <<alt, altErr>>
    BY <1>2 DEF EdgeInv
<1> QED
    BY <1>1, <1>2 DEF E!Effect

\* Every step keeps it: an answer is about the horizon that was asked for.
LEMMA EdgeStep == ASSUME EdgeInv, E!Next PROVE EdgeInv'
<1>1. CASE E!Frame \/ E!ShowMock \/ \E h \in Horizons : E!PickHorizon(h)
    <2>1. horizon' \in Horizons /\ E!Effect
        BY <1>1 DEF EdgeInv, E!Frame, E!ShowMock, E!PickHorizon
    <2>2. edge' = E!NoEdge \/ edge' \in E!MarketEdges(ConfiguredH)
        BY <1>1 DEF EdgeInv, E!Frame, E!ShowMock, E!PickHorizon
    <2>3. isMock' \in BOOLEAN
        BY <1>1 DEF EdgeInv, E!Frame, E!ShowMock, E!PickHorizon
    <2> QED
        BY <2>1, <2>2, <2>3, EffectKeeps DEF EdgeInv
<1>2. CASE E!MarketLands
    <2>1. asked \in Horizons /\ asked' = E!None /\ UNCHANGED <<edge, isMock, horizon, altErr>>
        BY <1>2 DEF EdgeInv, E!MarketLands
    <2>2. alt' = E!NoAlt \/ \E e \in E!MarketEdges(asked) : alt' = E!Answer(e)
        BY <1>2 DEF E!MarketLands
    <2> QED
        BY <2>1, <2>2 DEF EdgeInv
<1>3. CASE E!MarketFails
    <2>1. asked' = E!None /\ UNCHANGED <<edge, isMock, horizon, alt>>
        BY <1>3 DEF E!MarketFails
    <2>2. altErr' \in BOOLEAN
        BY <1>3 DEF E!MarketFails
    <2> QED
        BY <2>1, <2>2 DEF EdgeInv
<1> QED
    BY <1>1, <1>2, <1>3 DEF E!Next

\* Counting the settlement instants within h hours from the next one, at most
\* one interval ahead, gives floor(h / iv) or one more.
LEMMA InstantsOrFloor ==
    ASSUME NEW d \in Int, NEW iv \in Nat \ {0}, NEW h \in Nat, d <= iv
    PROVE  /\ E!SettlementsBetween(d, iv, h) \in Int
           /\ E!SettlementsBetween(d, iv, h) - h \div iv \in {0, 1}
<1> DEFINE next == IF d > 0 THEN d ELSE d + iv * ((-d) \div iv + 1)
           n == IF next > h THEN 0 ELSE 1 + (h - next) \div iv
<1>1. E!SettlementsBetween(d, iv, h) = n
    BY DEF E!SettlementsBetween
<1>2. next \in 1..iv
    <2>1. CASE d > 0
        BY <2>1
    <2>2. CASE d <= 0
        <3> DEFINE q == (-d) \div iv
        <3>1. q \in Int /\ iv * q <= -d /\ -d < iv * q + iv
            OBVIOUS
        <3>2. iv * (q + 1) = iv * q + iv
            BY <3>1
        <3>3. next = d + iv * (q + 1)
            BY <2>2
        <3> HIDE DEF q
        <3> QED
            BY <3>1, <3>2, <3>3
    <2> QED
        BY <2>1, <2>2
<1> HIDE DEF next
<1> DEFINE f == h \div iv
           g == (h - next) \div iv
<1>3. /\ f \in Int /\ iv * f <= h /\ h < iv * f + iv
      /\ g \in Int /\ iv * g <= h - next /\ h - next < iv * g + iv
    BY <1>2
<1>4. n = (IF next > h THEN 0 ELSE 1 + g) /\ f = h \div iv
    OBVIOUS
<1> HIDE DEF f, g, n
<1>5. CASE next > h
    <2>1. f = 0
        <3>1. h < iv
            BY <1>2, <1>5
        <3>2. ~(f >= 1)
            <4> SUFFICES ASSUME f >= 1 PROVE FALSE
                OBVIOUS
            <4>1. iv * f >= iv
                BY <1>3
            <4> QED
                BY <1>3, <3>1, <4>1
        <3>3. ~(f <= -1)
            <4> SUFFICES ASSUME f <= -1 PROVE FALSE
                OBVIOUS
            <4>1. iv * f <= -iv
                BY <1>3
            <4> QED
                BY <1>3, <4>1
        <3> QED
            BY <1>3, <3>2, <3>3
    <2> QED
        BY <1>1, <1>4, <1>5, <2>1
<1>6. CASE next <= h
    <2>1. ~(g >= f + 1)
        <3> SUFFICES ASSUME g >= f + 1 PROVE FALSE
            OBVIOUS
        <3>1. iv * g >= iv * f + iv
            BY <1>3
        <3> QED
            BY <1>2, <1>3, <3>1
    <2>2. ~(g <= f - 2)
        <3> SUFFICES ASSUME g <= f - 2 PROVE FALSE
            OBVIOUS
        <3>1. iv * g <= iv * f - 2 * iv
            BY <1>3
        <3> QED
            BY <1>2, <1>3, <3>1
    <2> QED
        BY <1>1, <1>2, <1>3, <1>4, <1>6, <2>1, <2>2
<1> QED
    BY <1>2, <1>5, <1>6

\* The least number of settlements that repay the cost.
LEMMA BreakevenIsLeast ==
    ASSUME NEW cost \in Int, NEW rate \in Int, NEW iv \in Nat \ {0}, NEW h, NEW basis,
           NEW be, be = E!Breakeven(cost, rate, iv, h, basis)
    PROVE  /\ be.n = E!None => be.hours = E!None /\ cost > 0 /\ rate <= 0
           /\ be.n # E!None => /\ be.n \in Nat /\ be.hours = be.n * iv
                               /\ rate * be.n >= cost
                               /\ \A k \in Nat : k < be.n => rate * k < cost
           /\ be.floorCount = h \div iv
<1> DEFINE n == IF cost <= 0 THEN 0 ELSE E!BreakevenSettlements(cost, rate)
<1>1. be.n = n /\ be.hours = (IF n = E!None THEN E!None ELSE n * iv) /\ be.floorCount = h \div iv
    BY DEF E!Breakeven
<1>2. E!None = -1
    BY DEF E!None
<1>3. CASE cost <= 0
    <2>1. n = 0 /\ rate * 0 = 0
        BY <1>3
    <2> QED
        BY <1>1, <1>2, <1>3, <2>1
<1>4. CASE cost > 0 /\ rate <= 0
    <2>1. n = E!None
        BY <1>4 DEF E!BreakevenSettlements
    <2> QED
        BY <1>1, <1>4, <2>1
<1>5. CASE cost > 0 /\ rate > 0
    <2> DEFINE m == cost \div rate
    <2>1. m \in Int /\ rate * m <= cost /\ cost < rate * m + rate /\ m * rate = rate * m
        BY <1>5
    <2>2. n = IF m * rate >= cost THEN m ELSE m + 1
        <3>1. ~(cost <= 0) /\ ~(rate <= 0)
            BY <1>5
        <3>2. E!BreakevenSettlements(cost, rate) = IF m * rate >= cost THEN m ELSE m + 1
            BY <3>1 DEF E!BreakevenSettlements
        <3> QED
            BY <3>1, <3>2
    <2> HIDE DEF m, n
    <2>3. m >= 0
        <3> SUFFICES ASSUME m <= -1 PROVE FALSE
            BY <2>1
        <3>1. rate * m <= -rate
            BY <1>5, <2>1
        <3> QED
            BY <1>5, <2>1, <3>1
    <2>4. rate * (m + 1) = rate * m + rate
        BY <1>5, <2>1
    <2>5. n \in Nat /\ rate * n >= cost
        BY <1>5, <2>1, <2>2, <2>3, <2>4
    <2>6. ASSUME NEW k \in Nat, k < n PROVE rate * k < cost
        <3>1. CASE n = m + 1 /\ rate * m < cost
            <4>1. k <= m
                BY <2>1, <2>6, <3>1
            <4>2. rate * k <= rate * m
                BY <1>5, <2>1, <4>1
            <4> QED
                BY <2>1, <3>1, <4>2
        <3>2. CASE n = m
            <4>1. k <= m - 1
                BY <2>1, <2>6, <3>2
            <4>2. rate * k <= rate * m - rate
                BY <1>5, <2>1, <4>1
            <4>3. rate * k \in Int /\ rate * m \in Int
                BY <2>1
            <4> QED
                BY <1>5, <2>1, <4>2, <4>3
        <3> QED
            BY <2>1, <2>2, <3>1, <3>2
    <2>7. n # E!None
        BY <1>2, <2>5
    <2> QED
        BY <1>1, <2>5, <2>6, <2>7
<1> QED
    BY <1>3, <1>4, <1>5

\* Where the curve first reaches zero is the break-even, unless it ends before.
LEMMA CurveMeetsBreakeven ==
    ASSUME NEW q \in Quotes, NEW rate \in Int, NEW steps \in Nat, NEW stride, NEW h, NEW basis,
           NEW cost, cost = E!RoundTrip(q) + q.exit - q.basis,
           NEW be, be = E!Breakeven(cost, rate, q.iv, h, basis),
           NEW c, c = E!Curve(q, rate, steps, stride)
    PROVE  E!OnCurve(be, c)
<1> DEFINE fixed == E!RoundTrip(q) + q.exit
           crossing == {k \in 0..steps : q.basis + rate * k - fixed >= 0}
<1>1. q.basis \in Int /\ q.iv \in Nat \ {0} /\ fixed \in Int /\ cost \in Int /\ cost = fixed - q.basis
    <2>1. q.basis \in Int /\ q.exit \in Int /\ E!RoundTrip(q) \in Int /\ q.iv \in Nat \ {0}
        BY EdgeConstants DEF E!RoundTrip
    <2> QED
        BY <2>1
<1>2. c.zero = (IF crossing = {} THEN E!None ELSE q.iv * E!Min(crossing)) /\ c.max = steps * q.iv
    BY DEF E!Curve
<1>3. \A k \in 0..steps : k \in crossing <=> rate * k >= cost
    <2> SUFFICES ASSUME NEW k \in 0..steps PROVE q.basis + rate * k - fixed >= 0 <=> rate * k >= cost
        OBVIOUS
    <2>1. rate * k \in Int
        OBVIOUS
    <2> HIDE DEF fixed
    <2> QED
        BY <1>1, <2>1
<1>4. crossing \in SUBSET (0..steps)
    OBVIOUS
<1>5. /\ be.n = E!None => be.hours = E!None /\ cost > 0 /\ rate <= 0
      /\ be.n # E!None => /\ be.n \in Nat /\ be.hours = be.n * q.iv
                          /\ rate * be.n >= cost
                          /\ \A k \in Nat : k < be.n => rate * k < cost
    <2> HIDE DEF fixed
    <2> QED
        BY <1>1, BreakevenIsLeast
<1> HIDE DEF crossing, fixed
<1>6. CASE be.n = E!None
    <2>1. ASSUME NEW k \in crossing PROVE FALSE
        <3>1. k \in 0..steps /\ rate * k >= cost
            BY <1>3, <1>4
        <3>2. rate * k <= 0
            BY <1>5, <1>6, <3>1
        <3> QED
            BY <1>1, <1>5, <1>6, <3>1, <3>2
    <2> QED
        BY <1>2, <1>5, <1>6, <2>1 DEF E!OnCurve
<1>7. CASE be.n # E!None /\ be.n <= steps
    <2>1. be.n \in 0..steps /\ be.n \in crossing
        BY <1>3, <1>5, <1>7
    <2>2. \A k \in crossing : k \in Int /\ be.n <= k
        <3> SUFFICES ASSUME NEW k \in crossing, k < be.n PROVE FALSE
            BY <1>4, <1>5, <1>7
        <3>1. k \in 0..steps /\ rate * k >= cost /\ rate * k < cost
            BY <1>3, <1>4, <1>5, <1>7
        <3>2. rate * k \in Int
            BY <3>1
        <3> QED
            BY <1>1, <3>1, <3>2
    <2>3. E!Min(crossing) = be.n
        <3> DEFINE m == E!Min(crossing)
        <3>1. m \in crossing /\ \A k \in crossing : m <= k
            BY <2>1, <2>2 DEF E!Min
        <3> HIDE DEF m
        <3>2. m <= be.n /\ be.n <= m /\ m \in Int /\ be.n \in Int
            BY <2>1, <2>2, <3>1
        <3> QED
            BY <3>2 DEF m
    <2>4. c.zero = q.iv * be.n /\ q.iv * be.n = be.n * q.iv
        BY <1>1, <1>2, <1>5, <1>7, <2>1, <2>3
    <2> QED
        BY <1>5, <1>7, <2>4 DEF E!OnCurve
<1>8. CASE be.n # E!None /\ be.n > steps
    <2>1. ASSUME NEW k \in crossing PROVE FALSE
        <3>1. k \in 0..steps /\ rate * k >= cost /\ rate * k < cost
            BY <1>3, <1>4, <1>5, <1>8
        <3>2. rate * k \in Int
            BY <3>1
        <3> QED
            BY <1>1, <3>1, <3>2
    <2>2. be.n * q.iv > steps * q.iv
        BY <1>1, <1>5, <1>8
    <2> QED
        BY <1>2, <1>5, <1>8, <2>1, <2>2 DEF E!OnCurve
<1> QED
    BY <1>5, <1>6, <1>7, <1>8

\* The larger and the smaller of two numbers.
LEMMA MaxMinOfTwo ==
    ASSUME NEW a \in Int, NEW b \in Int
    PROVE  /\ E!Max({a, b}) = IF a >= b THEN a ELSE b
           /\ E!Min({a, b}) = IF a <= b THEN a ELSE b
<1> DEFINE x == E!Max({a, b})
           y == E!Min({a, b})
<1>1. x \in {a, b} /\ x >= a /\ x >= b
    <2>1. \E z \in {a, b} : \A w \in {a, b} : z >= w
        OBVIOUS
    <2> QED
        BY <2>1 DEF E!Max
<1>2. y \in {a, b} /\ y <= a /\ y <= b
    <2>1. \E z \in {a, b} : \A w \in {a, b} : z <= w
        OBVIOUS
    <2> QED
        BY <2>1 DEF E!Min
<1> HIDE DEF x, y
<1>3. x = (IF a >= b THEN a ELSE b) /\ y = (IF a <= b THEN a ELSE b)
    BY <1>1, <1>2
<1> QED
    BY <1>3 DEF x, y

\* A quotient rounded up, of a positive number no larger than the divisor.
LEMMA CeilOfSmall ==
    ASSUME NEW a \in Int, NEW b \in Nat \ {0}
    PROVE  /\ E!CeilDiv(a, b) \in Int
           /\ a \in 1..b => E!CeilDiv(a, b) = 1
<1> DEFINE q == (a + b - 1) \div b
<1>1. q \in Int /\ b * q <= a + b - 1 /\ a + b - 1 < b * q + b
    OBVIOUS
<1>2. E!CeilDiv(a, b) = q
    BY DEF E!CeilDiv
<1> HIDE DEF q
<1>3. ASSUME a \in 1..b PROVE q = 1
    <2>1. ~(q >= 2)
        <3> SUFFICES ASSUME q >= 2 PROVE FALSE
            OBVIOUS
        <3>1. b * q >= 2 * b
            BY <1>1
        <3> QED
            BY <1>1, <1>3, <3>1
    <2>2. ~(q <= 0)
        <3> SUFFICES ASSUME q <= 0 PROVE FALSE
            OBVIOUS
        <3>1. b * q <= 0
            BY <1>1
        <3> QED
            BY <1>1, <1>3, <3>1
    <2> QED
        BY <1>1, <2>1, <2>2
<1> QED
    BY <1>1, <1>2, <1>3

\* The curve is as long on either side, if its horizon is within the longest
\* curve: the backend's floor of one interval and of the horizon adds nothing.
LEMMA StepsAgree ==
    ASSUME NEW iv \in Nat \ {0}, NEW h \in Nat \ {0}, NEW hours \in Int
    PROVE  /\ E!Steps(iv, h, hours, 0) \in Nat
           /\ h <= MaxCurveH => E!Steps(iv, h, hours, E!Max({iv, h})) = E!Steps(iv, h, hours, 0)
<1> DEFINE far == {2 * h, 24} \cup IF hours > 0 THEN {E!CeilDiv(hours * 135, 100)} ELSE {}
           wide == E!Max(far)
           drawn == E!Min({wide, MaxCurveH})
           least == E!Max({iv, h})
<1>1. \A x : E!Steps(iv, h, hours, x) = E!Max({1, E!CeilDiv(E!Max({drawn, x}), iv)})
    BY DEF E!Steps
<1>2. wide \in Int /\ wide >= 2 * h
    <2>1. PICK c \in Int : far = {2 * h, 24} \/ far = {2 * h, 24, c}
        <3>1. E!CeilDiv(hours * 135, 100) \in Int
            BY CeilOfSmall
        <3> QED
            BY <3>1
    <2>2. \E x \in far : \A y \in far : x >= y
        <3> HIDE DEF far
        <3>1. 2 * h \in Int /\ 24 \in Int
            OBVIOUS
        <3> QED
            BY <2>1, <3>1
    <2>3. wide \in far /\ \A y \in far : wide >= y
        <3> HIDE DEF far
        <3> QED
            BY <2>2 DEF E!Max
    <2>4. 2 * h \in far
        OBVIOUS
    <2> HIDE DEF far, wide
    <2> QED
        BY <2>1, <2>3, <2>4
<1> HIDE DEF wide
<1>3. drawn = (IF wide <= MaxCurveH THEN wide ELSE MaxCurveH) /\ MaxCurveH \in Nat \ {0}
    <2>1. MaxCurveH \in Nat \ {0} /\ MaxCurveH \in Int
        BY EdgeConstants
    <2>2. E!Min({wide, MaxCurveH}) = IF wide <= MaxCurveH THEN wide ELSE MaxCurveH
        BY <1>2, <2>1, MaxMinOfTwo
    <2> QED
        BY <2>1, <2>2
<1>4. least = IF iv >= h THEN iv ELSE h
    BY MaxMinOfTwo
<1>5. drawn \in Nat \ {0}
    BY <1>2, <1>3
<1> HIDE DEF drawn, least
<1>6. E!Max({drawn, 0}) = drawn /\ E!CeilDiv(drawn, iv) \in Int
    BY <1>5, MaxMinOfTwo, CeilOfSmall
<1>7. E!Steps(iv, h, hours, 0) = E!Max({1, E!CeilDiv(drawn, iv)})
    BY <1>1, <1>6
<1>8. E!Steps(iv, h, hours, 0) \in Nat
    BY <1>6, <1>7, MaxMinOfTwo
<1>9. ASSUME h <= MaxCurveH PROVE E!CeilDiv(E!Max({drawn, least}), iv) = E!CeilDiv(drawn, iv)
    <2>1. h <= drawn
        BY <1>2, <1>3, <1>9
    <2>2. CASE iv <= drawn
        <3>1. E!Max({drawn, least}) = drawn
            BY <1>4, <1>5, <2>1, <2>2, MaxMinOfTwo
        <3> QED
            BY <3>1
    <2>3. CASE iv > drawn
        <3>1. E!Max({drawn, least}) = iv
            BY <1>4, <1>5, <2>1, <2>3, MaxMinOfTwo
        <3>2. drawn \in 1..iv /\ iv \in 1..iv
            BY <1>5, <2>3
        <3> QED
            BY <3>1, <3>2, CeilOfSmall
    <2> QED
        BY <1>5, <2>2, <2>3
<1> QED
    BY <1>1, <1>7, <1>8, <1>9 DEF least

\* What the backend computed for a horizon: a quote, its settlements and its net.
LEMMA EdgeShape ==
    ASSUME NEW h \in Nat \ {0}, NEW x \in E!MarketEdges(h)
    PROVE  /\ x.q \in Quotes /\ x.horizon = h
           /\ \E d \in Int : d <= x.q.iv /\ x.settlements = E!SettlementsBetween(d, x.q.iv, h)
           /\ x.settlements \in Int /\ x.funding = x.q.rate * x.settlements
           /\ x.net = x.q.basis + x.funding - E!RoundTrip(x.q) - x.q.exit
<1>1. PICK m \in Quotes \X Offsets : m[2] <= m[1].iv /\ x = E!NetEdge(m[1], m[2], h)
    BY DEF E!MarketEdges
<1>2. m[1] \in Quotes /\ m[2] \in Int /\ m[1].iv \in Nat \ {0}
    BY EdgeConstants
<1>3. /\ x.q = m[1] /\ x.horizon = h /\ x.settlements = E!SettlementsBetween(m[2], m[1].iv, h)
      /\ x.funding = m[1].rate * x.settlements
      /\ x.net = m[1].basis + m[1].rate * x.settlements - E!RoundTrip(m[1]) - m[1].exit
    BY <1>1 DEF E!NetEdge
<1>4. x.settlements \in Int
    BY <1>1, <1>2, <1>3, InstantsOrFloor
<1> QED
    BY <1>1, <1>2, <1>3, <1>4

\* The measured carry never repays: the assumed rate is shown as well.
NeverRepays(m, q) == m.n = E!None /\ q.rate <= 0

\* An analysis part by part: its break-even and curve, and the same at the assumed
\* rate if the measured carry never repays.
Parted(a, x, q, m, s, curve, second) ==
    /\ a.settlements = x.settlements /\ a.breakeven = m
    /\ a.assumed = IF NeverRepays(m, q) THEN {s} ELSE {}
    /\ a.curve = curve
    /\ a.assumedCurve = IF NeverRepays(m, q) THEN {second} ELSE {}

\* The analysis of the engine.
LEMMA EngineParts ==
    ASSUME NEW x, NEW q, q = x.q, NEW h, h = x.horizon, NEW a, a = E!HorizonAnalysis(x),
           NEW cost, cost = E!RoundTrip(q) + q.exit - q.basis,
           NEW m, m = E!Breakeven(cost, q.rate, q.iv, h, "measured"),
           NEW s, s = E!Breakeven(cost, AssumedRate, q.iv, h, "assumed")
    PROVE  Parted(a, x, q, m, s, E!BackendCurve(q, q.rate, h, m), E!BackendCurve(q, AssumedRate, h, s))
BY DEF E!HorizonAnalysis, E!Analysis, NeverRepays, Parted

\* The analysis of the panel.
LEMMA PanelParts ==
    ASSUME NEW x, NEW q, q = x.q, NEW h, h = x.horizon, NEW a, a = E!HorizonFallback(x),
           NEW cost, cost = E!RoundTrip(q) + q.exit - q.basis,
           NEW m, m = E!Breakeven(cost, q.rate, q.iv, h, "measured"),
           NEW s, s = E!Breakeven(cost, AssumedRate, q.iv, h, "assumed")
    PROVE  Parted(a, x, q, m, s, E!BuildCurve(q, q.rate, h, m), E!BuildCurve(q, AssumedRate, h, s))
BY DEF E!HorizonFallback, E!Analysis, NeverRepays, Parted

\* A curve with some of its points left out says the same.
LEMMA CurveThins ==
    ASSUME NEW q, NEW rate, NEW steps \in Nat, NEW stride
    PROVE  E!CurvesAgree(E!Curve(q, rate, steps, stride), E!Curve(q, rate, steps, 1))
<1> DEFINE a == E!Curve(q, rate, steps, stride)
           b == E!Curve(q, rate, steps, 1)
<1>1. a.zero = b.zero /\ a.max = b.max
    BY DEF E!Curve
<1>2. a.points \subseteq b.points
    <2>1. \A j \in 0..steps : j % 1 = 0
        OBVIOUS
    <2> QED
        BY <2>1 DEF E!Curve
<1> QED
    BY <1>1, <1>2 DEF E!CurvesAgree

\* A curve of a quote at a rate, of any length, with any points left out.
IsCurve(c, q, rate) == \E n \in Nat : \E stride : c = E!Curve(q, rate, n, stride)

\* Over a horizon the buttons offer, the engine's curve says what the panel's says.
LEMMA CurvesMatch ==
    ASSUME NEW q \in Quotes, NEW rate, NEW h \in Nat \ {0}, NEW be, be.hours \in Int, NEW c,
           (c = E!BackendCurve(q, rate, h, be) /\ h <= MaxCurveH) \/ c = E!BuildCurve(q, rate, h, be)
    PROVE  E!CurvesAgree(c, E!BuildCurve(q, rate, h, be)) /\ IsCurve(c, q, rate)
<1> DEFINE n == E!Steps(q.iv, h, be.hours, 0)
           m == E!Steps(q.iv, h, be.hours, E!Max({q.iv, h}))
           stride == E!Max({1, E!CeilDiv(m + 1, MaxPoints)})
<1>1. n \in Nat /\ (h <= MaxCurveH => m = n)
    BY EdgeConstants, StepsAgree
<1>2. E!BuildCurve(q, rate, h, be) = E!Curve(q, rate, n, 1)
    BY DEF E!BuildCurve
<1>3. E!BackendCurve(q, rate, h, be) = E!Curve(q, rate, m, stride)
    BY DEF E!BackendCurve
<1> HIDE DEF n, m, stride
<1>4. \A t : E!CurvesAgree(E!Curve(q, rate, n, t), E!Curve(q, rate, n, 1))
    BY <1>1, CurveThins
<1>5. \E t : c = E!Curve(q, rate, n, t)
    BY <1>1, <1>2, <1>3
<1> QED
    BY <1>1, <1>2, <1>4, <1>5 DEF IsCurve

\* The settlements of the verdict lie where its curve crosses zero, the panel's
\* own computation says the same, and the two ways to count differ by one.
LEMMA VerdictsAgree ==
    ASSUME NEW h \in Nat \ {0}, NEW x \in E!MarketEdges(h), NEW a,
           (a = E!HorizonAnalysis(x) /\ h <= MaxCurveH) \/ a = E!HorizonFallback(x)
    PROVE  E!Mirrors(a, E!HorizonFallback(x)) /\ E!BreakevenOnCurve(a) /\ E!CountsAgree(a)
<1> DEFINE q == x.q
           z == E!HorizonFallback(x)
<1> HIDE DEF q, z
<1>1. /\ q = x.q /\ z = E!HorizonFallback(x) /\ q \in Quotes /\ x.horizon = h
      /\ q.iv \in Nat \ {0} /\ q.rate \in Int /\ AssumedRate \in Int
    BY EdgeShape, EdgeConstants DEF q, z
<1>2. PICK cost : cost = E!RoundTrip(q) + q.exit - q.basis
    OBVIOUS
<1>3. cost \in Int
    <2>1. E!RoundTrip(q) \in Int /\ q.exit \in Int /\ q.basis \in Int
        BY <1>1, EdgeConstants DEF E!RoundTrip
    <2> QED
        BY <1>2, <2>1
<1>4. PICK m : m = E!Breakeven(cost, q.rate, q.iv, h, "measured")
    OBVIOUS
<1>5. PICK s : s = E!Breakeven(cost, AssumedRate, q.iv, h, "assumed")
    OBVIOUS
<1>6. m.hours \in Int /\ s.hours \in Int /\ m.floorCount = h \div q.iv
    <2>1. \A be \in {m, s} : /\ be.n = E!None => be.hours = E!None
                             /\ be.n # E!None => be.n \in Nat /\ be.hours = be.n * q.iv
                             /\ be.floorCount = h \div q.iv
        BY <1>1, <1>3, <1>4, <1>5, BreakevenIsLeast
    <2>2. \A be \in {m, s} : be.hours \in Int
        <3> SUFFICES ASSUME NEW be \in {m, s} PROVE be.hours \in Int
            OBVIOUS
        <3>1. CASE be.n = E!None
            BY <2>1, <3>1 DEF E!None
        <3>2. CASE be.n # E!None
            <4>1. be.n \in Nat /\ be.hours = be.n * q.iv
                BY <2>1, <3>2
            <4> QED
                BY <1>1, <4>1
        <3> QED
            BY <3>1, <3>2
    <2> QED
        BY <2>1, <2>2
<1>7. /\ a.settlements = x.settlements /\ a.breakeven = m /\ z.breakeven = m
      /\ \/ /\ a.assumed = {s} /\ z.assumed = {s}
            /\ z.assumedCurve = {E!BuildCurve(q, AssumedRate, h, s)}
            /\ \/ a.assumedCurve = {E!BackendCurve(q, AssumedRate, h, s)} /\ h <= MaxCurveH
               \/ a.assumedCurve = {E!BuildCurve(q, AssumedRate, h, s)}
         \/ a.assumed = {} /\ z.assumed = {} /\ a.assumedCurve = {} /\ z.assumedCurve = {}
      /\ z.curve = E!BuildCurve(q, q.rate, h, m)
      /\ \/ a.curve = E!BackendCurve(q, q.rate, h, m) /\ h <= MaxCurveH
         \/ a.curve = E!BuildCurve(q, q.rate, h, m)
    <2>1. ASSUME a = E!HorizonAnalysis(x)
          PROVE  Parted(a, x, q, m, s, E!BackendCurve(q, q.rate, h, m), E!BackendCurve(q, AssumedRate, h, s))
        BY <1>1, <1>2, <1>4, <1>5, <2>1, EngineParts
    <2>2. Parted(z, x, q, m, s, E!BuildCurve(q, q.rate, h, m), E!BuildCurve(q, AssumedRate, h, s))
        BY <1>1, <1>2, <1>4, <1>5, PanelParts
    <2>5. (a = E!HorizonAnalysis(x) /\ h <= MaxCurveH) \/ a = z
        BY <1>1
    <2>3. CASE NeverRepays(m, q)
        BY <2>1, <2>2, <2>3, <2>5 DEF Parted
    <2>4. CASE ~NeverRepays(m, q)
        BY <2>1, <2>2, <2>4, <2>5 DEF Parted
    <2> QED
        BY <2>3, <2>4
<1>9. E!Mirrors(a, z)
    <2>1. a.breakeven = z.breakeven /\ a.assumed = z.assumed
        BY <1>7
    <2>2. E!CurvesAgree(a.curve, z.curve)
        BY <1>1, <1>6, <1>7, CurvesMatch
    <2>3. ASSUME NEW c \in a.assumedCurve, NEW d \in z.assumedCurve PROVE E!CurvesAgree(c, d)
        <3>1. d = E!BuildCurve(q, AssumedRate, h, s)
            BY <1>7, <2>3
        <3>2. (c = E!BackendCurve(q, AssumedRate, h, s) /\ h <= MaxCurveH) \/ c = E!BuildCurve(q, AssumedRate, h, s)
            BY <1>7, <2>3
        <3> QED
            BY <1>1, <1>6, <3>1, <3>2, CurvesMatch
    <2> QED
        BY <2>1, <2>2, <2>3 DEF E!Mirrors
<1>10. E!BreakevenOnCurve(a)
    <2>1. E!OnCurve(a.breakeven, a.curve)
        <3>1. IsCurve(a.curve, q, q.rate)
            BY <1>1, <1>6, <1>7, CurvesMatch
        <3>2. PICK n \in Nat : \E stride : a.curve = E!Curve(q, q.rate, n, stride)
            BY <3>1 DEF IsCurve
        <3>3. PICK stride : a.curve = E!Curve(q, q.rate, n, stride)
            BY <3>2
        <3>4. E!OnCurve(m, a.curve)
            BY <1>1, <1>2, <1>4, <3>3, CurveMeetsBreakeven
        <3> QED
            BY <1>7, <3>4
    <2>2. ASSUME NEW be \in a.assumed, NEW c \in a.assumedCurve PROVE E!OnCurve(be, c)
        <3>1. be = s
            BY <1>7, <2>2
        <3>2. (c = E!BackendCurve(q, AssumedRate, h, s) /\ h <= MaxCurveH) \/ c = E!BuildCurve(q, AssumedRate, h, s)
            BY <1>7, <2>2
        <3>3. IsCurve(c, q, AssumedRate)
            BY <1>1, <1>6, <3>2, CurvesMatch
        <3>4. PICK n \in Nat : \E stride : c = E!Curve(q, AssumedRate, n, stride)
            BY <3>3 DEF IsCurve
        <3>5. PICK stride : c = E!Curve(q, AssumedRate, n, stride)
            BY <3>4
        <3> QED
            BY <1>1, <1>2, <1>5, <3>1, <3>5, CurveMeetsBreakeven
    <2> QED
        BY <2>1, <2>2 DEF E!BreakevenOnCurve
<1>11. E!CountsAgree(a)
    <2>1. PICK d \in Int : d <= q.iv /\ x.settlements = E!SettlementsBetween(d, q.iv, h)
        BY <1>1, EdgeShape
    <2>2. x.settlements - h \div q.iv \in {0, 1}
        BY <1>1, <2>1, InstantsOrFloor
    <2>3. a.settlements - a.breakeven.floorCount = x.settlements - h \div q.iv
        BY <1>6, <1>7
    <2> QED
        BY <2>2, <2>3 DEF E!CountsAgree
<1> QED
    BY <1>1, <1>9, <1>10, <1>11

------------------------------------------------------------------------------
(* The bars.                                                                 *)

\* The sum of the first k of the n numbers of a sequence.
Part(r, n, k) == SumFunction([j \in 1..n |-> IF j <= k THEN r[j] ELSE 0])

\* It starts at zero, grows by one number at a time, and is the sum in the end.
LEMMA Parts ==
    ASSUME NEW n \in Nat, NEW r, \A j \in 1..n : r[j] \in Int
    PROVE  /\ Part(r, n, 0) = 0
           /\ \A k \in 1..n : Part(r, n, k) = Part(r, n, k - 1) + r[k]
           /\ SumFunction([j \in 1..n |-> r[j]]) = Part(r, n, n)
<1>1. IsFiniteSet(1..n)
    BY FS_Interval
<1>2. Part(r, n, 0) = 0
    <2>1. [j \in 1..n |-> IF j <= 0 THEN r[j] ELSE 0] = [j \in 1..n |-> 0]
        OBVIOUS
    <2> QED
        BY <1>1, <2>1, SumZero DEF Part
<1>3. ASSUME NEW k \in 1..n PROVE Part(r, n, k) = Part(r, n, k - 1) + r[k]
    <2> DEFINE f == [j \in 1..n |-> IF j <= k - 1 THEN r[j] ELSE 0]
               g == [j \in 1..n |-> IF j <= k THEN r[j] ELSE 0]
    <2>1. f \in [1..n -> Int] /\ g \in [1..n -> Int] /\ f[k] = 0 /\ g[k] = r[k]
        OBVIOUS
    <2>2. \A j \in 1..n : j # k => g[j] = f[j]
        OBVIOUS
    <2>3. Part(r, n, k) = SumFunction(g) /\ Part(r, n, k - 1) = SumFunction(f)
        BY DEF Part
    <2> HIDE DEF f, g
    <2>4. SumFunction(f) \in Int
        BY <1>1, <2>1, SumType
    <2>5. SumFunction(g) = SumFunction(f) + g[k] - f[k]
        BY <1>1, <2>1, <2>2, SumUpdate
    <2>6. r[k] \in Int
        OBVIOUS
    <2> QED
        BY <2>1, <2>3, <2>4, <2>5, <2>6
<1>4. SumFunction([j \in 1..n |-> r[j]]) = Part(r, n, n)
    <2>1. [j \in 1..n |-> r[j]] = [j \in 1..n |-> IF j <= n THEN r[j] ELSE 0]
        OBVIOUS
    <2> QED
        BY <2>1 DEF Part
<1> QED
    BY <1>2, <1>3, <1>4

\* The panel sums with the same fold.
LEMMA PanelSum == ASSUME NEW f PROVE E!SumFunction(f) = SumFunction(f)
BY DEF E!SumFunction, E!SumFunctionOnSet, E!FoldFunctionOnSet, E!MapThenFoldSet,
       SumFunction, SumFunctionOnSet, FoldFunctionOnSet, MapThenFoldSet

\* The bar before the net bar ends at the sum of all rows before it.
LEMMA BarsEnd ==
    ASSUME NEW n \in Nat, NEW rows, DOMAIN rows = 1..(n + 1), rows[n + 1].kind = "net",
           n > 0, \A j \in 1..n : rows[j].kind # "net"
    PROVE  /\ E!Bars(rows)[n + 1].to = rows[n + 1].bps
           /\ E!Bars(rows)[n].to = SumFunction([j \in 1..n |-> rows[j].bps])
           /\ Len(E!Bars(rows)) = n + 1
<1> DEFINE total(i) == E!SumFunction([j \in {k \in 1..i : rows[k].kind # "net"} |-> rows[j].bps])
           bars == [i \in 1..(n + 1) |->
                        IF rows[i].kind = "net" THEN [from |-> 0, to |-> rows[i].bps]
                        ELSE [from |-> total(i - 1), to |-> total(i)]]
<1>1. E!Bars(rows) = bars
    BY DEF E!Bars
<1>2. {k \in 1..n : rows[k].kind # "net"} = 1..n
    OBVIOUS
<1>3. total(n) = SumFunction([j \in 1..n |-> rows[j].bps])
    BY <1>2, PanelSum
<1> HIDE DEF total
<1>4. bars[n + 1].to = rows[n + 1].bps /\ bars[n].to = total(n)
    OBVIOUS
<1>5. Len(bars) = n + 1
    OBVIOUS
<1> QED
    BY <1>1, <1>3, <1>4, <1>5

\* One more element, y, at the end of the n of a sequence.
Longer(t, s, y, n, S) ==
    /\ t \in Seq(S) /\ Len(t) = n + 1 /\ DOMAIN t = 1..(n + 1)
    /\ t[n + 1] = y
    /\ \A i \in 1..n : t[i] = s[i]

LEMMA JoinOne ==
    ASSUME NEW S, NEW s \in Seq(S), NEW y \in S, NEW n, n = Len(s), NEW t, t = s \o <<y>>
    PROVE  Longer(t, s, y, n, S)
BY DEF Longer

\* The rows that an edge has with and without an exit cost.
FirstRows(rows, x) ==
    /\ rows[1] = E!Row("basis", x.q.basis, E!Sign(x.q.basis))
    /\ rows[2] = E!Row("fee", -2 * x.q.fee, "cost")
    /\ rows[3] = E!Row("impact", -2 * x.q.impact, "cost")
    /\ rows[4] = E!Row("slip", -2 * x.q.slip, "cost")
    /\ rows[5] = E!Row("taker", -2 * x.q.taker, "cost")
    /\ rows[6] = E!Row("gas", -2 * x.q.gas, "cost")
    /\ rows[7] = E!Row("funding", x.funding, E!Sign(x.funding))

\* The rows of an edge: seven, an exit cost if there is one, and the net.
LEMMA RowsOf ==
    ASSUME NEW x, NEW rows, rows = E!EdgeComponents(x)
    PROVE  /\ FirstRows(rows, x)
           /\ \/ /\ x.q.exit = 0 /\ DOMAIN rows = 1..8
                 /\ rows[8] = E!Row("net", x.net, "net")
              \/ /\ x.q.exit # 0 /\ DOMAIN rows = 1..9
                 /\ rows[8] = E!Row("exit", -x.q.exit, "cost")
                 /\ rows[9] = E!Row("net", x.net, "net")
<1> DEFINE head == << E!Row("basis", x.q.basis, E!Sign(x.q.basis)), E!Row("fee", -2 * x.q.fee, "cost"),
                   E!Row("impact", -2 * x.q.impact, "cost"), E!Row("slip", -2 * x.q.slip, "cost"),
                   E!Row("taker", -2 * x.q.taker, "cost"), E!Row("gas", -2 * x.q.gas, "cost"),
                   E!Row("funding", x.funding, E!Sign(x.funding)) >>
           out == E!Row("exit", -x.q.exit, "cost")
           total == E!Row("net", x.net, "net")
           exit == IF x.q.exit # 0 THEN <<out>> ELSE <<>>
           S == {head[i] : i \in 1..7} \cup {out, total}
<1>1. rows = head \o exit \o <<total>>
    BY DEF E!EdgeComponents
<1>2. FirstRows(head, x)
    BY DEF FirstRows
<1>3. head \in Seq(S) /\ Len(head) = 7 /\ out \in S /\ total \in S
    <2>1. /\ head[1] \in S /\ head[2] \in S /\ head[3] \in S /\ head[4] \in S
          /\ head[5] \in S /\ head[6] \in S /\ head[7] \in S
        <3> HIDE DEF head
        <3> QED
            OBVIOUS
    <2>2. out \in S /\ total \in S
        <3> HIDE DEF head, out, total
        <3> QED
            OBVIOUS
    <2> HIDE DEF S, out, total
    <2> QED
        BY <2>1, <2>2
<1>4. exit = IF x.q.exit # 0 THEN <<out>> ELSE <<>>
    OBVIOUS
<1> HIDE DEF head, S, exit, out, total
<1>5. CASE x.q.exit = 0
    <2>1. head \o exit = head
        BY <1>3, <1>4, <1>5
    <2>2. rows = head \o <<total>>
        BY <1>1, <2>1
    <2>3. Longer(rows, head, total, 7, S)
        BY <1>3, <2>2, JoinOne
    <2>4. DOMAIN rows = 1..8 /\ rows[8] = total /\ \A i \in 1..7 : rows[i] = head[i]
        BY <2>3 DEF Longer
    <2>5. FirstRows(rows, x)
        BY <1>2, <2>4 DEF FirstRows
    <2> QED
        BY <1>5, <2>4, <2>5 DEF total
<1>6. CASE x.q.exit # 0
    <2>1. PICK s : s = head \o <<out>>
        OBVIOUS
    <2>2. rows = s \o <<total>>
        BY <1>1, <1>4, <1>6, <2>1
    <2>3. Longer(s, head, out, 7, S)
        BY <1>3, <2>1, JoinOne
    <2>4. s \in Seq(S) /\ Len(s) = 8 /\ s[8] = out /\ \A i \in 1..7 : s[i] = head[i]
        BY <2>3 DEF Longer
    <2>5. Longer(rows, s, total, 8, S)
        BY <1>3, <2>2, <2>4, JoinOne
    <2>6. DOMAIN rows = 1..9 /\ rows[9] = total /\ \A i \in 1..8 : rows[i] = s[i]
        BY <2>5 DEF Longer
    <2>7. FirstRows(rows, x)
        <3>1. \A i \in 1..7 : rows[i] = head[i]
            BY <2>4, <2>6
        <3> QED
            BY <1>2, <3>1 DEF FirstRows
    <2>8. rows[8] = out
        BY <2>4, <2>6
    <2> QED
        BY <1>6, <2>6, <2>7, <2>8 DEF out, total
<1> QED
    BY <1>5, <1>6

\* The bars of an edge end where its net bar ends.
LEMMA RowsSum ==
    ASSUME NEW h \in Nat \ {0}, NEW x \in E!MarketEdges(h), NEW bars,
           bars = E!Bars(E!EdgeComponents(x))
    PROVE  bars[Len(bars)].to = bars[Len(bars) - 1].to /\ bars[Len(bars)].to = x.net
<1> DEFINE rows == E!EdgeComponents(x)
           q == x.q
<1> HIDE DEF rows, q
<1>1. /\ FirstRows(rows, x)
      /\ \/ /\ q.exit = 0 /\ DOMAIN rows = 1..8
            /\ rows[8] = E!Row("net", x.net, "net")
         \/ /\ q.exit # 0 /\ DOMAIN rows = 1..9
            /\ rows[8] = E!Row("exit", -q.exit, "cost")
            /\ rows[9] = E!Row("net", x.net, "net")
    BY RowsOf DEF rows, q
<1>2. /\ q.basis \in Int /\ q.fee \in Int /\ q.impact \in Int /\ q.slip \in Int
      /\ q.taker \in Int /\ q.gas \in Int /\ q.exit \in Int /\ x.funding \in Int
      /\ x.net = q.basis + x.funding - E!RoundTrip(q) - q.exit
    <2>1. q \in Quotes /\ x.settlements \in Int /\ x.funding = q.rate * x.settlements
        BY EdgeShape DEF q
    <2>2. q.rate \in Int
        BY <2>1, EdgeConstants
    <2>3. x.funding \in Int
        BY <2>1, <2>2
    <2> QED
        BY <2>1, <2>3, EdgeConstants, EdgeShape DEF q
<1>3. /\ rows[1].bps = q.basis /\ rows[2].bps = -2 * q.fee /\ rows[3].bps = -2 * q.impact
      /\ rows[4].bps = -2 * q.slip /\ rows[5].bps = -2 * q.taker /\ rows[6].bps = -2 * q.gas
      /\ rows[7].bps = x.funding
      /\ \A j \in 1..7 : rows[j].kind # "net"
    BY <1>1 DEF FirstRows, E!Row, E!Sign, q
<1>4. ASSUME NEW n \in {7, 8}, DOMAIN rows = 1..(n + 1), rows[n + 1] = E!Row("net", x.net, "net"),
             \A j \in 1..n : rows[j].kind # "net" /\ rows[j].bps \in Int
      PROVE  /\ Len(bars) = n + 1 /\ bars[n + 1].to = x.net
             /\ bars[n].to = q.basis - 2 * q.fee - 2 * q.impact - 2 * q.slip - 2 * q.taker
                               - 2 * q.gas + x.funding + IF n = 8 THEN rows[8].bps ELSE 0
    <2> DEFINE r == [j \in 1..n |-> rows[j].bps]
    <2>1. n \in Nat /\ n > 0 /\ rows[n + 1].kind = "net" /\ rows[n + 1].bps = x.net
        BY <1>4 DEF E!Row
    <2>2. bars[n + 1].to = x.net /\ bars[n].to = SumFunction(r) /\ Len(bars) = n + 1
        BY <1>4, <2>1, BarsEnd DEF rows
    <2>3. \A j \in 1..n : r[j] = rows[j].bps
        OBVIOUS
    <2>4. r = [j \in 1..n |-> r[j]]
        OBVIOUS
    <2> HIDE DEF r
    <2>5. \A j \in 1..n : r[j] \in Int
        BY <1>4, <2>3
    <2>6. /\ Part(r, n, 0) = 0 /\ \A k \in 1..n : Part(r, n, k) = Part(r, n, k - 1) + r[k]
          /\ SumFunction(r) = Part(r, n, n)
        BY <2>1, <2>4, <2>5, Parts
    <2>7. /\ Part(r, n, 1) = Part(r, n, 0) + r[1] /\ Part(r, n, 2) = Part(r, n, 1) + r[2]
          /\ Part(r, n, 3) = Part(r, n, 2) + r[3] /\ Part(r, n, 4) = Part(r, n, 3) + r[4]
          /\ Part(r, n, 5) = Part(r, n, 4) + r[5] /\ Part(r, n, 6) = Part(r, n, 5) + r[6]
          /\ Part(r, n, 7) = Part(r, n, 6) + r[7]
          /\ n = 8 => Part(r, n, 8) = Part(r, n, 7) + r[8]
        <3>1. ASSUME NEW k \in 1..n, NEW j, j = k - 1 PROVE Part(r, n, k) = Part(r, n, j) + r[k]
            BY <2>6, <3>1
        <3>2. /\ 1 \in 1..n /\ 2 \in 1..n /\ 3 \in 1..n /\ 4 \in 1..n /\ 5 \in 1..n
              /\ 6 \in 1..n /\ 7 \in 1..n /\ (n = 8 => 8 \in 1..n)
            BY <1>4
        <3>3. /\ 0 = 1 - 1 /\ 1 = 2 - 1 /\ 2 = 3 - 1 /\ 3 = 4 - 1 /\ 4 = 5 - 1
              /\ 5 = 6 - 1 /\ 6 = 7 - 1 /\ 7 = 8 - 1
            OBVIOUS
        <3> QED
            BY <3>1, <3>2, <3>3
    <2>8. /\ r[1] = q.basis /\ r[2] = -2 * q.fee /\ r[3] = -2 * q.impact /\ r[4] = -2 * q.slip
          /\ r[5] = -2 * q.taker /\ r[6] = -2 * q.gas /\ r[7] = x.funding
          /\ n = 8 => r[8] = rows[8].bps /\ rows[8].bps \in Int
        <3>1. \A k \in 1..7 : k \in 1..n
            BY <1>4
        <3> QED
            BY <1>3, <1>4, <2>3, <3>1
    <2>9. Part(r, n, 7) = q.basis - 2 * q.fee - 2 * q.impact - 2 * q.slip - 2 * q.taker
                               - 2 * q.gas + x.funding
        BY <1>2, <2>6, <2>7, <2>8
    <2>10. CASE n = 7
        <3>1. (IF n = 8 THEN rows[8].bps ELSE 0) = 0
            BY <2>10
        <3>2. bars[n].to = Part(r, n, 7)
            BY <2>2, <2>6, <2>10
        <3>3. Part(r, n, 7) \in Int
            BY <1>2, <2>9
        <3>4. Part(r, n, 7) = Part(r, n, 7) + IF n = 8 THEN rows[8].bps ELSE 0
            BY <3>1, <3>3
        <3>5. bars[n].to = q.basis - 2 * q.fee - 2 * q.impact - 2 * q.slip - 2 * q.taker
                               - 2 * q.gas + x.funding + IF n = 8 THEN rows[8].bps ELSE 0
            BY <2>9, <3>2, <3>4
        <3> QED
            BY <2>2, <3>5
    <2>11. CASE n = 8
        BY <1>2, <2>2, <2>6, <2>7, <2>8, <2>9, <2>11
    <2> QED
        BY <1>4, <2>10, <2>11
<1>5. x.net = q.basis + x.funding
               - 2 * (q.fee + q.impact + q.slip + q.taker + q.gas) - q.exit
    BY <1>2 DEF E!RoundTrip
<1>6. CASE q.exit = 0
    <2>1. \A j \in 1..7 : rows[j].kind # "net" /\ rows[j].bps \in Int
        BY <1>2, <1>3
    <2>2. /\ Len(bars) = 8 /\ bars[8].to = x.net
          /\ bars[7].to = q.basis - 2 * q.fee - 2 * q.impact - 2 * q.slip - 2 * q.taker
                               - 2 * q.gas + x.funding
        <3>1. PICK n \in {7, 8} : n = 7
            OBVIOUS
        <3>2. n + 1 = 8 /\ DOMAIN rows = 1..(n + 1) /\ rows[n + 1] = E!Row("net", x.net, "net")
            BY <1>1, <1>6, <3>1
        <3>3. \A j \in 1..n : rows[j].kind # "net" /\ rows[j].bps \in Int
            BY <2>1, <3>1
        <3>4. /\ Len(bars) = n + 1 /\ bars[n + 1].to = x.net
              /\ bars[n].to = q.basis - 2 * q.fee - 2 * q.impact - 2 * q.slip - 2 * q.taker
                               - 2 * q.gas + x.funding + IF n = 8 THEN rows[8].bps ELSE 0
            BY <1>4, <3>2, <3>3
        <3> QED
            BY <1>2, <3>1, <3>2, <3>4
    <2> QED
        BY <1>2, <1>5, <1>6, <2>2
<1>7. CASE q.exit # 0
    <2>1. rows[8].kind = "cost" /\ rows[8].bps = -q.exit
        BY <1>1, <1>7 DEF E!Row
    <2>2. \A j \in 1..8 : rows[j].kind # "net" /\ rows[j].bps \in Int
        BY <1>2, <1>3, <2>1
    <2>3. /\ Len(bars) = 9 /\ bars[9].to = x.net
          /\ bars[8].to = q.basis - 2 * q.fee - 2 * q.impact - 2 * q.slip - 2 * q.taker
                               - 2 * q.gas + x.funding + rows[8].bps
        <3>1. PICK n \in {7, 8} : n = 8
            OBVIOUS
        <3>2. n + 1 = 9 /\ DOMAIN rows = 1..(n + 1) /\ rows[n + 1] = E!Row("net", x.net, "net")
            BY <1>1, <1>7, <3>1
        <3>3. \A j \in 1..n : rows[j].kind # "net" /\ rows[j].bps \in Int
            BY <2>2, <3>1
        <3>4. /\ Len(bars) = n + 1 /\ bars[n + 1].to = x.net
              /\ bars[n].to = q.basis - 2 * q.fee - 2 * q.impact - 2 * q.slip - 2 * q.taker
                               - 2 * q.gas + x.funding + IF n = 8 THEN rows[8].bps ELSE 0
            BY <1>4, <3>2, <3>3
        <3> QED
            BY <3>1, <3>2, <3>4
    <2>4. x.net = bars[8].to
        BY <1>2, <1>5, <2>1, <2>3
    <2> QED
        BY <2>3, <2>4
<1> QED
    BY <1>6, <1>7

\* What the invariant promises: the types, and that the views agree.
LEMMA EdgePromises == EdgeInv => E!TypeOK /\ E!EdgeViewsAgree
<1> SUFFICES ASSUME EdgeInv PROVE E!TypeOK /\ E!EdgeViewsAgree
    OBVIOUS
<1>1. \/ alt = E!NoAlt
      \/ \E h \in Horizons : \E x \in E!MarketEdges(h) : alt = E!Answer(x)
    BY DEF EdgeInv
<1>2. \A x : /\ E!Answer(x).edge = x /\ E!Answer(x).rows = E!EdgeComponents(x)
             /\ E!Answer(x).hz = {E!HorizonAnalysis(x)}
    BY DEF E!Answer
<1>3. E!TypeOK
    <2>1. alt.edge = E!NoEdge \/ \E h \in Horizons : alt.edge \in E!MarketEdges(h)
        <3>1. E!NoAlt.edge = E!NoEdge
            BY DEF E!NoAlt
        <3> QED
            BY <1>1, <1>2, <3>1
    <2> QED
        BY <2>1 DEF EdgeInv, E!TypeOK
<1>4. ASSUME E!ShownEdge # E!NoEdge PROVE
        \E h \in Nat \ {0} : \E x \in E!MarketEdges(h) :
            /\ E!ShownEdge = x /\ E!ShownRows = E!EdgeComponents(x)
            /\ \/ E!ShownHz = {E!HorizonAnalysis(x)} /\ h <= MaxCurveH
               \/ E!ShownHz = {E!HorizonFallback(x)}
    <2>1. CASE E!FromApi
        <3>1. PICK h \in Horizons : \E x \in E!MarketEdges(h) : alt = E!Answer(x)
            BY <1>1, <2>1 DEF E!FromApi
        <3>2. PICK x \in E!MarketEdges(h) : alt = E!Answer(x)
            BY <3>1
        <3>3. h \in Nat \ {0} /\ h <= MaxCurveH
            BY EdgeConstants
        <3>4. E!ShownEdge = x /\ E!ShownRows = E!EdgeComponents(x) /\ E!ShownHz = {E!HorizonAnalysis(x)}
            BY <1>2, <2>1, <3>2 DEF E!ShownEdge, E!ShownRows, E!ShownHz
        <3> QED
            BY <3>3, <3>4
    <2>2. CASE ~E!FromApi
        <3>1. E!ShownEdge = edge /\ E!ShownRows = E!EdgeComponents(edge) /\ E!ShownHz = {E!HorizonFallback(edge)}
            BY <2>2 DEF E!ShownEdge, E!ShownRows, E!ShownHz
        <3>2. edge \in E!MarketEdges(ConfiguredH) /\ ConfiguredH \in Nat \ {0}
            BY <1>4, <3>1, EdgeConstants DEF EdgeInv
        <3> QED
            BY <3>1, <3>2
    <2> QED
        BY <2>1, <2>2
<1>5. E!EdgeViewsAgree
    <2> SUFFICES ASSUME E!ShownEdge # E!NoEdge
                 PROVE  /\ E!RowsAddUp
                        /\ \A a \in E!ShownHz : /\ E!Mirrors(a, E!HorizonFallback(E!ShownEdge))
                                                /\ E!BreakevenOnCurve(a) /\ E!CountsAgree(a)
        BY DEF E!EdgeViewsAgree
    <2>1. PICK h \in Nat \ {0} : \E x \in E!MarketEdges(h) :
            /\ E!ShownEdge = x /\ E!ShownRows = E!EdgeComponents(x)
            /\ \/ E!ShownHz = {E!HorizonAnalysis(x)} /\ h <= MaxCurveH
               \/ E!ShownHz = {E!HorizonFallback(x)}
        BY <1>4
    <2>2. PICK x \in E!MarketEdges(h) :
            /\ E!ShownEdge = x /\ E!ShownRows = E!EdgeComponents(x)
            /\ \/ E!ShownHz = {E!HorizonAnalysis(x)} /\ h <= MaxCurveH
               \/ E!ShownHz = {E!HorizonFallback(x)}
        BY <2>1
    <2>3. E!RowsAddUp
        <3>1. PICK bars : bars = E!Bars(E!EdgeComponents(x))
            OBVIOUS
        <3>2. bars[Len(bars)].to = bars[Len(bars) - 1].to /\ bars[Len(bars)].to = x.net
            BY <3>1, RowsSum
        <3> QED
            BY <2>2, <3>1, <3>2 DEF E!RowsAddUp
    <2>4. ASSUME NEW a \in E!ShownHz
          PROVE  /\ E!Mirrors(a, E!HorizonFallback(E!ShownEdge))
                 /\ E!BreakevenOnCurve(a) /\ E!CountsAgree(a)
        <3>1. (a = E!HorizonAnalysis(x) /\ h <= MaxCurveH) \/ a = E!HorizonFallback(x)
            BY <2>2, <2>4
        <3> QED
            BY <2>2, <3>1, VerdictsAgree
    <2> QED
        BY <2>3, <2>4
<1> QED
    BY <1>3, <1>5

------------------------------------------------------------------------------
(* The surfaces together.                                                    *)

\* The invariant of the sum: each part keeps its own, driven or idle.
SInv == DashInv /\ ConsoleInv /\ BridgeInv /\ SentInv /\ EdgeInv /\ PanelsInv /\ LogInv

\* All start in it, whichever surface is driven.
LEMMA SurfacesInit == Init => SInv
<1> SUFFICES ASSUME Init
             PROVE  DashInv /\ ConsoleInv /\ BridgeInv /\ SentInv /\ EdgeInv /\ PanelsInv /\ LogInv
    BY DEF SInv
<1>1. DashInv
    <2>1. PICK away \in BOOLEAN : away = (who # "dash")
        OBVIOUS
    <2>2. D!Start(away)
        BY <2>1 DEF Init
    <2> QED
        BY <2>2, DashInit
<1>2. ConsoleInv
    <2>1. PICK m \in Modes, halt \in BOOLEAN : C!InitIn(m, halt)
        <3>1. CASE who = "console"
            BY <3>1 DEF Init, C!Init
        <3>2. CASE who # "console"
            <4>1. PICK halt \in BOOLEAN : halt = FALSE
                OBVIOUS
            <4>2. C!InitIn("paper", halt)
                BY <3>2, <4>1 DEF Init
            <4> QED
                BY <4>2, ConsoleConstants
        <3> QED
            BY <3>1, <3>2
    <2> QED
        BY <2>1, ConsoleInit
<1>3. BridgeInv /\ SentInv /\ EdgeInv /\ PanelsInv /\ LogInv
    BY BridgeInit, SentInit, EdgeInit, PanelsInit, LogInit DEF Init
<1> QED
    BY <1>1, <1>2, <1>3

\* A step drives one of them at most, the others are idle.
LEMMA SurfacesStep == SInv /\ [Next]_vars => SInv'
<1> SUFFICES ASSUME DashInv, ConsoleInv, BridgeInv, SentInv, EdgeInv, PanelsInv, LogInv, [Next]_vars
             PROVE  /\ DashInv' /\ ConsoleInv' /\ BridgeInv' /\ SentInv' /\ EdgeInv'
                    /\ PanelsInv' /\ LogInv'
    BY DEF SInv
<1>1. /\ D!Next \/ UNCHANGED dash
      /\ C!Next \/ UNCHANGED console
      /\ B!Next \/ UNCHANGED bridge
      /\ E!Next \/ UNCHANGED panel
      /\ P!Next \/ UNCHANGED panels
      /\ G!Next \/ UNCHANGED log
    BY DEF Next, vars
<1>2. DashInv'
    BY <1>1, DashStep, DashIdle
<1>3. ConsoleInv'
    BY <1>1, ConsoleStep, ConsoleIdle
<1>4. BridgeInv'
    BY <1>1, BridgeStep, BridgeIdle
<1>5. PanelsInv'
    BY <1>1, PanelsStep, PanelsIdle
<1>6. LogInv'
    BY <1>1, LogStep, LogIdle
<1>7. SentInv'
    BY <1>1, SentStep, SentIdle
<1>8. EdgeInv'
    BY <1>1, EdgeStep, EdgeIdle
<1> QED
    BY <1>2, <1>3, <1>4, <1>5, <1>6, <1>7, <1>8

\* What the surfaces reach satisfies the invariant.
LEMMA SurfacesReach == Spec => []SInv
BY SurfacesInit, SurfacesStep, PTL DEF Spec

\* The made-up rows of the bundled mock (mock.ts) are never on the page without the MOCK
\* flag, whatever fetch, frame or click came in between (page.tsx onSnapshot, onError).
THEOREM MockLabelled == Spec => []MockIsLabelled
<1>1. SInv => MockIsLabelled
    BY DashPromises DEF SInv, MockIsLabelled
<1> QED
    BY <1>1, SurfacesReach, PTL

\* A stream or a poll of an engine that was left never reaches the page: what is shown is of
\* the selected engine, or a panel's own refresh brought it (api.ts subscribe, page.tsx
\* switchEngine).
THEOREM SelectedShown == Spec => []ShownFromSelected
<1>1. SInv => ShownFromSelected
    BY DashPromises DEF SInv, ShownFromSelected
<1> QED
    BY <1>1, SurfacesReach, PTL

\* The badge claims the socket only while it is open, and an open socket is overtaken by at
\* most one poll, the one already under way (api.ts startPolling, ws.onopen, ws.onclose).
THEOREM PollYielding == Spec => []PollYields
<1>1. SInv => PollYields
    BY DashPromises DEF SInv, PollYields
<1> QED
    BY <1>1, SurfacesReach, PTL

\* A testnet plan runs only if it was agreed to in its box; from this console a live engine
\* closes held positions by its stop monitor and opens nothing; an engine with real orders
\* accepts no loss (PromptConsole.tsx execute, PositionsTable.tsx unwind).
THEOREM ConfirmedOrders == Spec => []NoUnconfirmedOrder
<1>1. SInv => NoUnconfirmedOrder
    BY ConsolePromises DEF SInv, NoUnconfirmedOrder
<1> QED
    BY <1>1, SurfacesReach, PTL

\* However often a button is clicked and whichever answers are lost, no plan executes and no
\* position closes twice (PromptConsole.tsx send, execute).
THEOREM RunsOnce == Spec => []OnceEach
<1>1. SInv => OnceEach
    BY ConsolePromises DEF SInv, OnceEach
<1> QED
    BY <1>1, SurfacesReach, PTL

\* Unless contrary presses overlapped or one was lost, the kill switch ends where it was last
\* asked to be (PromptConsole.tsx kill).
THEOREM SwitchFollows == Spec => []KillFollowsPress
<1>1. SInv => KillFollowsPress
    BY ConsolePromises DEF SInv, KillFollowsPress
<1> QED
    BY <1>1, SurfacesReach, PTL

\* A routed order executes only the plan Deltr made for that very request, within the bridge's
\* leverage and confirmed, whatever timed out or came late (agent_os_bridge.ts routeOrder).
THEOREM RouteGated == Spec => []GatedRoute
<1>1. SInv => GatedRoute
    BY BridgePromises DEF SInv, GatedRoute
<1> QED
    BY <1>1, SurfacesReach, PTL

\* A reply "executed" is never ahead of Deltr, "proposed" never hides an execution, and exit
\* code 0 of a confirmed order means it ran (agent_os_bridge.ts routeOrder, main).
THEOREM OkIsTrue == Spec => []OkMeansRun
<1>1. SInv => OkMeansRun
    BY BridgePromises DEF SInv, OkMeansRun
<1> QED
    BY <1>1, SurfacesReach, PTL

\* What the trade trace calls "not executed" was not executed when the snapshot was taken,
\* unless the executor was still at it, its run broke off without a receipt, or the user
\* holds on to a plan whose receipt has left the full list (TradeTrace.tsx, executor.py).
THEOREM ShownNotExecuted == Spec => []NotExecutedIsTrue
<1>1. SInv => NotExecutedIsTrue
    BY PanelsPromises DEF SInv, NotExecutedIsTrue
<1> QED
    BY <1>1, SurfacesReach, PTL

\* In every mode a real fill of an open position is never badged "paper" and a simulated
\* one always, also when its receipt was pushed out or died with the process
\* (PositionsTable.tsx).
THEOREM RealFillBadged == Spec => []RealFillNotPaper
<1>1. SInv => RealFillNotPaper
    BY PanelsPromises DEF SInv, RealFillNotPaper
<1> QED
    BY <1>1, SurfacesReach, PTL

\* A veto shows the one failed row its code names, with all above passed and nothing below
\* reached; an approval shows no failed row (RiskGateLog.tsx, risk_gate.py evaluate).
THEOREM VerdictTold == Spec => []RowsTellVerdict
<1>1. SInv => RowsTellVerdict
    BY LogPromises DEF SInv, RowsTellVerdict
<1> QED
    BY <1>1, SurfacesReach, PTL

\* Nothing that looks like a write is ever sent upstream, under the name that was asked for or
\* any official name tried in its place (agent_os_bridge.ts isForwardableReadOnly,
\* officialCandidates).
THEOREM UpstreamReadOnly == Spec => []ReadOnlyUpstream
<1>1. SInv => ReadOnlyUpstream
    BY DEF SInv, SentInv, Forwarded, ReadOnlyUpstream, B!ReadOnlyUpstream
<1> QED
    BY <1>1, SurfacesReach, PTL

\* For every market and every mixture of snapshots, horizons and late answers: the bars end
\* where the net bar ends, the panel's own break-even and curve say what the engine's say, the
\* break-even lies where the curve crosses zero, and the two counts of settlements differ by
\* one at most (EdgeWaterfall.tsx edgeComponents, buildCurve; horizon.py; edge.py).
THEOREM EdgeViewsOne == Spec => []EdgeViewsAgree
<1>1. SInv => EdgeViewsAgree
    BY EdgePromises DEF SInv, EdgeViewsAgree
<1> QED
    BY <1>1, SurfacesReach, PTL

\* The types of all six surfaces: the state every handler of the page and of the bridge finds.
THEOREM SurfacesTyped == Spec => []SurfacesTypeOK
<1>1. SInv => SurfacesTypeOK
    BY DashPromises, ConsolePromises, BridgePromises, EdgePromises, PanelsPromises, LogPromises
       DEF SInv, SurfacesTypeOK
<1> QED
    BY <1>1, SurfacesReach, PTL

=============================================================================

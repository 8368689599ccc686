# Deltr: a formal model of the hedge executor, its state and its surfaces

Deltr keeps one kind of position: a DEX long paired with a perp short, opened by
two legs on two venues and closed by two more. The interesting behaviour is what
happens when a leg is refused, fills in part, or answers nothing at all, while
clients, an auto-trader, a stop monitor, market ticks and an operator act between
any two steps, and while two state files are written one after the other. Around it lie
two TypeScript programs, a dashboard and an MCP bridge, that show this state and send
it commands over connections that break. This directory holds TLA+ modules of both,
TLC configurations that check them, and machine-checked proofs of every safety property
that the passing runs check.

Paths below are relative to the repository root. `EX` is `deltr/executor.py`.

## 1. Files

| Module | What it is |
|---|---|
| `Portfolio.tla` | the book as pure operators: positions, principal, what each close releases and leaves |
| `HedgeExecutor.tla` | the executor, plan store, gate registry and switches, cash, both venues: one action per step between two awaits |
| `HedgeLifecycle.tla` | the abstract specification: what the executor promises of a plan |
| `DurableState.tla` | `gate.json` and `portfolio.json`: writes, lost writes, crashes, stop and start |
| `PerpOrder.tla` | one perp leg at a real venue: IOC attempts, the post-only maker loop, and the exchange |
| `PerpLeg.tla` | the abstract specification: what a perp leg promises the executor |
| `Dashboard.tla` | the dashboard's stream: socket, poller, retries, mock fallback, engine switch, connection badge |
| `Console.tla` | its controls: prompt, execute, kill switch, stress, unwind, reset halt, over POSTs that get lost |
| `EdgeMath.tla` | edge, waterfall, break-even and curve, each as the engine and as the dashboard computes it |
| `EdgePanel.tla` | the edge panel: snapshots, horizon buttons and late answers over `EdgeMath` |
| `Panels.tla` | trade trace and positions table over bounded, restartable lists |
| `GateLog.tla` | the gate's ordered checks, the list of decisions and the panel that explains one |
| `Bridge.tla` | the Agent OS bridge: upstream selection, shared client, gated route, timeouts, shutdown |
| `Surfaces.tla` | the six state machines above as one model: their sum, its constants and its properties |
| `SumLemmas.tla` | proofs: sums over finite sets (`SumFunction`), their type, update and zero |
| `PortfolioProofs.tla` | proofs: what each book operator of `Portfolio` does to shares, quantities and money |
| `HedgeExecutorProofs.tla` | proofs: the control invariant, types, registry, exits |
| `HedgeCashProofs.tla` | proofs: cash, reservations, principal, position cap |
| `HedgeStepProofs.tla` | proofs: the action properties (single use, imbalance, divergence), and `HedgeExecutor` implements `HedgeLifecycle` |
| `DurableStateProofs.tla` | proofs: every invariant of `DurableState` |
| `PerpOrderProofs.tla` | proofs: types, exposure, and `PerpOrder` implements `PerpLeg` |
| `SurfaceProofs.tla` | proofs: every safety property of `Surfaces` |
| `MCHedgeExecutor.tla`, `MCDurableState.tla`, `MCSurfaces.tla` | instances for TLC (symmetry sets; requests, tool lists and markets); the `.cfg` files give the constants. `PerpOrder` needs none and is checked directly |

`HedgeExecutor` and `DurableState` both extend `Portfolio`. `HedgeExecutor` refines
`HedgeLifecycle`, and `PerpOrder` refines `PerpLeg`, through `INSTANCE ... WITH`. `EdgePanel` extends `EdgeMath`. `PROJECT.json` lists the components,
runs, mutants, the source lines behind every definition, hazards, findings and theorems.

## 2. Inventory

### The core

**Executor** (`EX` 616-1217). *State*: one asyncio lock, the set of consumed plans,
in-flight flag, the trace and locals of the run. *Operations*: `execute`, `unwind`,
`run_stop_monitor`. *Interactions*: takes plans from the store, asks the gate,
reserves and books in the portfolio, sends legs through a router, engages the kill
switch. *Hard*: every leg is an await; both legs may fail, be partial or unknown, in
either order, and each failure has its own recovery. *Correct when*: a reservation is
returned once or deliberately kept; a position books exactly what was filled; book
and venues never part company without the kill switch; one run at a time; the lock is
always given back.

**Routers and legs** (`EX` 75-612, `deltr/onchain_leg.py`). *State*: none but the
attempt counter of an order. *Operations*: `fill`, `reverse`, `reverse_partial` per
mode. Paper always answers; testnet has a real perp; live has a real perp and a real
swap. *Hard*: retry under a new client id after a timeout, IOC partial fills, a swap
broadcast but never confirmed. *Correct when*: at most the leg's quantity is at the
venue, and "nothing was sent" is never said of an order that was.

**Portfolio** (`deltr/portfolio.py`). *State*: positions, per-position fees and funding
clock, free and reserved cash, realised totals, stress flags. *Operations*: `reserve`,
`release`, `open_position`, `open_naked_leg`, `close_leg`, `close_position`, `mark`,
`accrue_funding`, `apply_stress`, `persist`, `restore`. *Correct when*: cash,
reservations and principal add up; a closed position returns all its principal; the
gate's registry is updated with the book.

**Risk gate** (`risk_gate.py`). *State*: registry of positions, equity, peak, state
(NORMAL/WARN/HALTED), kill switch. *Operations*: `evaluate` (ordered checks, with a
verified reduce-only exemption), `register_position`, `release_position`,
`update_equity`, `set_kill_switch`, `reset_halt`, `load`, `_persist`. *Correct when*:
no entry passes a kill switch, a halt or the position cap, and no exit of a
registered exposure is refused.

**Plan store** (`deltr/state.py`). *State*: plans with a TTL, snapshots, activity.
*Operations*: `put_plan`, `take_plan`, `prune_plans`. *Correct when*: a plan is given
out once.

**Engine** (`deltr/engine.py`). *State*: the components, background tasks, the
auto-trade lock and cooldown, the on-chain notional in use. *Operations*: `start`,
`stop`, `propose`, `execute`, `unwind`, `_on_tick`, `_auto_trade`, `onchain_swap`,
`x402_pay`, `kill_switch`, `reset_halt`, `stress`. *Hard*: tasks interleave at every
await; `stop` cancels the monitor in the middle of a leg; the on-chain ceiling is
checked, awaited on and charged. *Correct when*: the ceiling bounds what may be on
chain; automation opens one position per symbol.

**Persistence** (`risk_gate.py` 426-485, `deltr/portfolio.py` 666-746, `engine.py`
358-426). *State*: two files per mode. *Hard*: a crash or a failed write between the
two. *Correct when*: a restarted engine has no position the gate does not count, no
more than the cap, the switches as last set, cash that adds up, and an exit for every
position.

**Hedger** (`agents/hedger.py`). Pure: sizes a plan for a capital amount and builds the
unwind plan. *Correct when*: size is a multiple of the step within the caps, and the
cash required covers any fill of the plan.

### The surfaces

**Dashboard stream and page** (`ui/lib/api.ts`, `ui/app/app/page.tsx`,
`ui/components/StatusBar.tsx`). *State*: socket, poll and retry timers, the snapshot on
screen, mock flag, selected engine, connection badge. *Operations*: connect, poll,
retry, refresh, fall back to a bundled mock, switch engine. *Hard*: a poll answered
after a newer frame, a socket half open, answers that land after a switch. *Correct
when*: what is on screen is the selected engine's and only moves forward, or says MOCK;
and it catches up once the engine is reachable.

**Console** (`ui/components/PromptConsole.tsx`, the unwind button of
`PositionsTable.tsx`, the halt reset of `RiskGateLog.tsx`). *State*: result, receipt,
confirmation box, busy flags. *Hard*: every click is sent from a page that may be
stale, and its answer may be lost after the engine acted. *Correct when*: no real order
without its confirmation, nothing twice, no control dead.

**Edge panel** (`EdgeWaterfall.tsx`), **trade panels** (`TradeTrace.tsx`,
`PositionsTable.tsx`), **risk-gate panel** (`RiskGateLog.tsx`). Views over the last
snapshot and, for the edge, over `/api/market`. *Hard*: the edge is computed in two
languages, and the lists the others draw from are bounded and die with the process.
*Correct when*: both computations agree, and no view says what is not so.

**Agent OS bridge** (`agents/agent_os_bridge.ts`). *State*: upstream status, one Deltr
client for all requests. *Operations*: connect upstream (official, shim, none),
`propose`, `execute`, `route`, `tools/call`, `upstream/call`, serve, shut down. *Hard*:
concurrent requests over one client, timeouts that do not stop what they gave up on.
*Correct when*: `route` executes only its own confirmed, approved, bounded plan, a reply
never runs ahead of Deltr, nothing write-like goes upstream, every request ends.

### Around the core

| Component | State and operations | What is hard, what makes it correct |
|---|---|---|
| Futures client, `deltr/venues/binance_futures.py` | time offset, filters; signed order, query, cancel | timeouts and -1021 retry; an order is found by its client id |
| Maker execution, `deltr/maker.py` | cid per post, filled so far; post, watch, cancel, look up | cancel races fill; lookup failures read as "no order"; filled never exceeds the leg |
| Agentic wallet, `deltr/venues/agentic_wallet.py` | none; CLI calls with timeouts | which error codes prove nothing was submitted |
| PancakeSwap and spot clients | quotes | impact and rounding of quotes |
| Market hub, `deltr/market_data.py` | last quotes, ages, frozen flag; `tick_once`, `run` | staleness; a tick is dispatched to every callback even when one fails |
| Scout, `agents/arbitrage_scout.py` | min-edge, history; `on_tick`, `scan` | ordered checks, first failure is the reason; floor under min-edge |
| Edge, horizon, `deltr/edge.py`, `deltr/horizon.py` | pure | settlements counted at boundaries, sign of funding, break-even search |
| Funding history, `deltr/funding_history.py` | TTL cache; fetch, analyse | pagination, measured interval, rolling windows |
| Stress, `deltr/stress.py` | flags shared with router and hub | refused while real orders are open, tested before an await |
| Payments, `deltr/payments.py` | policy; `preview`, `select`, `pay`, `challenge` | unknown outcomes keep their charge |
| Receipts, bus, `deltr/receipts.py`, `deltr/bus.py` | bounded queues, append-only file | oldest event dropped when a queue is full |
| Intents, `deltr/nl_intent.py` | pure | a prompt proposes, never executes |
| Configuration, models | settings, validated data | effective leg order per mode, clamps |
| MCP server, HTTP API, command line | adapters | concurrency only: they are tasks calling the engine |
| Spread chart, landing page, video, scripts, deployment, skills | none of the core's | not modelled |

## 3. Plan

Order, most important behaviour first; all six are done.

1. `Portfolio`, `HedgeExecutor`: every path of entry and unwind, all faults.
2. `HedgeLifecycle`: abstract specification and refinement.
3. `HedgeExecutorProofs`: type invariant, registry, exits.
4. `DurableState`: the two files.
5. `PerpLeg`, `PerpOrder`: the attempt loops inside a leg and the exchange.
6. `Dashboard`, `Console`, `EdgeMath`, `EdgePanel`, `Panels`, `GateLog`, `Bridge`: the
   surfaces, and with them the gate's check order and the horizon arithmetic.

What would follow, were the project extended: the on-chain ceiling with its refunds,
auto-trade with its cooldown and the shared stress flags, and sizing.

Runs: one passing run per part of the system, or per mode where the mode changes the
control, and one violating run per finding. The surfaces share no variable and are
checked together as a sum.

Proofs, in the order in which they are done: the control invariant of `HedgeExecutor`;
sums over finite sets; the money, the cap and the reservations; the action properties;
the refinement of `HedgeLifecycle`; `DurableState`; `PerpOrder` and the refinement of
`PerpLeg`; the surfaces. Every safety property of a passing run is now a theorem, and
what is left to model checking is liveness (end of section 7).

## 4. How the models correspond to the code

### Portfolio

A position is `[open, dex, perp, notional, margin]`; `open` is membership of
`Portfolio._positions`. Quantities are lots (multiples of the exchange step), so "less
than the minimum quantity" is "zero lots". Money is principal at constant unit costs:
`DexCost` per lot on the DEX, `PerpCost` of margin per lot on the perp. `Share` is the
pro-rata release of `close_leg` and `close_position`, integer division standing for
the floating product; the amount released and the amount kept are computed from the
same share, as in the code. Profit, fees and funding are additive terms and left out:
`CashConserved` is therefore about principal, and `NoOverdraft` about bookings at plan
prices.

### HedgeExecutor

One task at a time is inside the lock. A leg is two steps. `SendLeg` fixes how much the
venue moved and what the router answers; the next handler acts on the answer. Between
them any other task, operator or tick may act, as they may at the await. What lies
between two awaits in the code is one action here: `Commit` is gate decision plus
reservation, `SecondLegFilled` is booking plus registration plus the receipt's branch,
and so on. `job[t].phase` is the leg a run is at:

| phase | code |
|---|---|
| `requote`, `u_requote` | re-quote and gate, `EX` 876-908 and 1047-1066 |
| `leg1`, `leg2`, `residual` | `EX` 910-974 |
| `reverse` | `_reverse_first`, `EX` 1000-1020 |
| `u_perp`, `u_dex`, `u_reshort` | `_unwind_with_plan`, `EX` 1068-1129 |

An answer is a fill, a refusal (a `LegError` that sent nothing) or unknown (a
`LegError` with `submitted`). `Outcomes(leg)` is the set of ways a call may end, by mode
and by the fault kinds of the configuration; `Fillable` holds the constraints that do
not depend on luck: a real perp closes no more than the short it has, a real wallet
sells all or nothing, the on-chain pre-flight refuses an opening swap under kill switch
or halt, and a one-way futures account rejects a reduce-only order that would open.
`venue` is what the wallet and the futures account really hold; the code never sees it.

The gate is split: what the executor's own state decides (kill switch, halt, position
cap, verified reduce-only) is modelled; every market and size check is one
nondeterministic veto. The stop monitor is any task that calls `Unwind` at any time.
History variables (`alarm`, `began`, `stranded`) record what a run did and appear in no
guard.

Left out: the `CONFIRM_REQUIRED` refusal (changes no state), fills above the request
below one lot, stored reduce-only plans (`propose` never stores one), receipts.

### HedgeLifecycle

Per plan: absent, proposed, vetting, entering, open, closing, done; plus whether
entries are barred. A plan begins only when no other run is busy, commits only while
entries are not barred, and ending a run may bar entries but never unbar them. The
refinement mapping reads the stage off the phases of the tasks running the plan and
the book, and `barred` is kill switch or halt.

### DurableState

Each file is replaced atomically (`os.replace`), and there are two of them. A method
changes memory and leaves a sequence `pending` of writes; the process can die before
each. A failed book write is logged and swallowed (`portfolio.py` 697); a failed gate
write raises (`risk_gate.py` 441-446), so what follows it in the method and its caller,
a later `set_kill_switch` included, does not happen. A naked leg is booked and written
first and its kill switch is written last: `pending` is gate, book, alarm. `Start` is
`gate.load` (a second time: the gate's constructor has loaded the file before there is a
portfolio), then `portfolio.restore` (which registers positions the gate's file does
not name), then the first tick's write. `Stop` cancels the tick loop and the stop monitor
and writes both files. An entry one of these two runs is cancelled and its reservation
stays reserved; an entry of an API or MCP client goes on, and may still book, or be
abandoned, until the process ends. A missing file is a file with the constructor's values.

Legs are reduced to how an entry or an unwind ends, with the same book operators.
Entries here leave at least as much on the DEX as on the perp (DEX first): what perp
first does to principal is the subject of the `HedgePrincipal` run. Damaged or foreign
files and the drawdown `load` derives again are not modelled.

### PerpLeg and PerpOrder

`PerpLeg` is what `HedgeExecutor` assumes when it turns a perp call into one outcome: a
fill is exactly what the venue moved, a refusal means that nothing moved and nothing
will, and only after an unknown outcome may the venue move on. `HedgeExecutor` folds
that last move into the step that sends the leg.

`PerpOrder` is the code that has to keep this promise. Every request (POST, GET, DELETE,
as retried and parsed by the client) is a step, `pc` names the next one, and the exchange
may fill or end an order between any two. An attempt has its own client id, so
`orders[attempt]` is the order a lookup or a cancel is about. The two loops are chosen
by `style` in the initial state, as the settings choose them:

| `pc` | IOC (`EX` 285-364) | maker (`deltr/maker.py` 186-377) |
|---|---|---|
| `post` | `place_limit_ioc` and its error branches | top of the loop, `place_limit_maker` |
| `find` | `_lookup_strict` | `_lookup` after a failed post |
| `watch` | | `_watch` |
| `cancel`, `recheck`, `confirm`, `confirm_stuck` | | `_cancel`: DELETE, lookup after a failed one, lookup at its end |

A fault is enabled per style by the configuration, so that a run can say which faults a
property survives. Prices are choices: an IOC order may fill any part, the market may
have walked away at any poll. One assumption is about the exchange: an order that a
lookup did not find never arrives later.

### Dashboard

The engines are counters: `ver[e]` advances, `up` says which can be reached. A socket is
`down`, `connecting`, `open` or `half` (its server gone, the browser not aware);
`frames` are pushed snapshots under way, `fetches` polls under way, `late` what a
stopped stream or an old refresh may still deliver. Each timer of `openStream` and each
callback is an action; `Stopped` is the flag its callbacks test. Versions let the model
say "older" where the page only has a picture.

### Console

A POST is a record in `net`: sent by a button, handled by the engine (`Handle...`), and
settled or lost. `Finally(p, ui)` is what the `finally` block of its handler resets. The
engine is reduced to what a POST changes: kill switch, halt, open positions, plans and
whether a scenario is active; its rules are translated from `deltr/engine.py`, `EX` and
`deltr/stress.py`. `runs`, `agreed`, `stopped` and `wish` are history. Of the min-edge
slider's values only "below zero" is kept, of the stress row the two shocks and the
reset. Either shock runs the stop monitor once, which may close positions, and either is
refused while an execution is in flight. The LIVE test override, which lets a small real
loss through, is off.

### EdgeMath and EdgePanel

Basis points, rates and hours are integers. `SettlementsBetween` counts from the next
funding time (`deltr/edge.py` 299-311); the curve counts whole intervals; both are in
the code, and its note says that they differ by one settlement at most. `BackendCurve` is
`deltr/horizon.py`, `BuildCurve` is its mirror in `EdgeWaterfall.tsx`: the mirror
draws every interval, the engine at most `MaxPoints` of them. `EdgePanel` keeps the panel's
`asked`/`alt` state and lets an answer arrive whenever it likes.

### Panels

The engine's side is what the lists are made of: prompts, runs and restarts,
over deques of bounded length. A run takes its plan (`Begin` a prompt's plan;
`BeginUnprompted` an unwind, or an entry proposed without a prompt), awaits its
legs, and appends its receipt when it ends (`Finish`, from the executor's `_finish`); it may also break
off without one (`Break`: cancelled by `stop`, or the gate could not write its file).
Snapshots are taken at any time, so a page can show a plan in the middle of its run.
`unreported` are the plans taken whose receipt has not been appended, `seen` is the last
snapshot with what was executed and unreported by then, `selected` the trace the user
holds on to. `Pick`, `FillSource` and the `Fallback` by mode are the page's functions; the
mode is fixed for an engine's life, so it is a parameter and not a variable.

### GateLog

A proposal is the set of checks its data would fail, plus whether it is reduce-only and
reverses a registered position. `Vetoes` are the `if`s of `evaluate`, `Passed` the flags
of the `CheckResult`s it appends, `Pipeline` the order of its statements and
`CheckOrder` the published one: the code has each twice, and the panel joins them by
name. Decisions of the executor's own and of the on-chain pre-flight have no checks.

### Bridge

A request moves through `connect`, `propose`, `execute`, `call` or `upstream` to its
reply. `calls` are calls under way to Deltr, which may answer, fail, or answer after
`Timeout` gave up on them; `ran` is what Deltr executed. `OfficialCandidates` are the
names tried in turn, `Advertised` its filter on what the upstream published, `TradeShaped`
the pattern of write-like names as a set.

### Surfaces

`who` says which part a behaviour is about; the others stay where they start. This is
sound because no action of one reads a variable of another, and it lets one run check
all of them, with the fairness of each.

## 5. Runs

| Run | Specification | Expected |
|---|---|---|
| `HedgeLive` | LIVE, DEX first, hedge-mode account, all seven fault kinds, 3 plans, 2 tasks, 2 lots (399,004 states) | holds |
| `HedgeTestnet` | TESTNET, perp first, refusals and unknown perp orders, 2 plans, 2 tasks, with fairness (41,432 states) | holds |
| `DurableRestart` | 3 plans, 2 crashes, 1 lost write (882,512 states) | holds |
| `PerpOrderLeg` | 3 lots, 3 attempts, 2 cancel tries, both styles, with fairness (6,305 states) | holds |
| `Surfaces` | the six surfaces, every fault of sections 2 and 4, with fairness (306,763 states) | holds |
| `HedgeNakedLeg`, `HedgeFlatBook`, `HedgeUnwindSwap`, `HedgePrincipal`, `DurableExit`, `PerpOrderWorking`, `PerpOrderPartial` | the smallest configuration that shows one finding each | violated |

What the passing runs show:

- `RegistryMatchesBook`: the gate's registry names exactly the open positions.
- `ExitNeverVetoed`: after any sequence of entries, partial closes and failed unwinds,
  the gate recognises an unwind of every open position, so neither a halt nor the kill
  switch locks an exposure in.
- `ReservationAccounted`: reserved cash is what the entry in flight needs plus what was
  deliberately kept for first legs of unknown state.
- `CashConserved`, `NoOverdraft`: principal is conserved; free cash is never negative.
  Conservation is a property of DEX first, the default of `leg_order`: perp first can lose
  principal in a close (finding 4), though it never creates any. LIVE with its default
  maker style runs perp first whatever is configured (`config.effective_leg_order`), so
  there conservation is not claimed.
- `PositionCap`: the cap holds although it is checked at the gate and the position is
  registered after both legs.
- `SpentStaysSpent`: a plan whose entry is over is never run again.
- `NoSilentDivergence`: a run that changes the distance between book and venues engages
  the kill switch, except in four places the property names in `PassesSilently`: a
  reversal that fills in part, a residual reversal of unknown outcome, a DEX sell of
  unknown outcome during an unwind, and a re-short that fills in part or follows such a
  sell. Those four are hazards of the code; the property says that there is no fifth,
  given that a leg answers as `PerpLeg` says. The taker does; the maker does only without
  findings 6 and 7. Exceptions other than a `LegError` are not modelled.
- `ImbalanceAlarmed`: a position becomes unbalanced only with the kill switch engaged,
  or because an entry residual was not reversed in full. The words "in full" were added
  when the proof failed without them: a live perp-first entry whose residual reversal
  fills in part keeps the rest and raises no alarm either. No run has that combination
  (`HedgeLive` is DEX first, `HedgeTestnet` has no partial reversal), so TLC was silent.
- `ImplementsLifecycle`, `EveryRunEnds`: the refinement, with its fairness, and
  termination of every run.
- `OpenIsRegistered`, `GhostsBounded`, `CapSurvivesRestart`, `SwitchesSurvive`,
  `CashSurvives`: see section 2, Persistence. `GhostsBounded` says each crash or lost
  write leaves at most one registered position the book does not know; such a ghost
  keeps its slot.
- `ExposureBounded`: all the orders of a leg together have filled, and may still fill, at
  most what was asked, whatever times out, expires or fills during its cancel.
- `ImplementsPerpLeg`: the answer of a leg is what the venue did, and it always comes.

- `MockIsLabelled`, `ShownFromSelected`, `PollYields`: invented data carries its flag, a
  stream left behind never reaches the page, and the poller gives way to the socket.
  `StreamRecovers`: once outages end the page shows the selected engine's latest state.
- `NoUnconfirmedOrder`: on testnet a plan runs only after its Execute was clicked with
  the box ticked, also across the mock; on a live engine the console opens nothing and
  closes only what the engine's stop monitor closes; and an engine with real orders never
  accepts a loss, whatever the slider sent. `OnceEach`, `KillFollowsPress`,
  `ControlsComeBack`: nothing happens twice after a lost answer, the kill switch ends
  where it was last asked to be unless contrary presses overlapped or one was lost, and
  every control comes back.
- `EdgeViewsAgree`: the bars end at the net bar, break-even and curve agree with the
  engine's and with each other, whichever answers have arrived.
- `NotExecutedIsTrue`: the trace says "not executed" wrongly in three cases only: of a
  plan whose run was under way when the snapshot was taken, of one whose run broke off
  without a receipt, and of a selected plan whose receipt newer ones pushed out.
  `RealFillNotPaper`: a real fill is never badged paper nor a simulated one real, receipt
  or not.
- `RowsTellVerdict`: the rows of a veto show one failed check, the one it names, with
  all above passed; what was approved under a closed gate only ever reduced a position.
- `GatedRoute`, `OkMeansRun`, `ReadOnlyUpstream`, `EveryCallAnswered`: see section 2. In
  `OkMeansRun`, "executed" is an answer of Deltr about a plan it has consumed; the gate may
  have vetoed it at execution, which the receipt says and the exit code does not.

`PerpOrderLeg` leaves out three faults, each of which breaks a property. For the maker,
`find_blind` and `bad_book` are findings 6 and 7. `confirm_blind` (a DELETE answered
"already gone", then a failed lookup) makes the maker work with the quantity read before
the cancel, and `ExposureBounded` fails; no text of the repository claims otherwise, so
it is recorded as a hazard. An IOC order that arrives after a lookup missed it is outside
the model, and a hazard too.

**Bounds.** Two lots are the least with a partial fill (and a partial close that leaves a
lot); three plans with a cap of two positions and capital for two make the cap and the
cash bind; two tasks are enough for any interleaving at one lock, since a third can
only wait. `DexCost = 4`, `PerpCost = 2` keep the two principals apart in sums. Two
crashes allow a crash during the recovery from a crash; one lost write is enough to
make the files differ, and `CapSurvivesRestart` states its bound in terms of how many
were lost. In `PerpOrder` three lots and three attempts allow a partial fill, a second one on
the re-posted remainder and a remainder after that; two cancel tries (three in the code)
allow a first, a further and a last one. In `Surfaces` two engines, one switch and one
outage let every answer of one engine arrive at the page of the other; three clicks are
a click, its repetition and one more of another kind; two requests are enough to share
and to lose a client; lists of two overflow; four ticks of the engine's clock make a
prompt, its receipt and two newer ones; the quotes have basis and funding of each sign,
carry that repays at once, late and never, and settlements overdue and ahead; the
gate's faults lie at both ends and in the middle of its order. `MaxCrashes`, `MaxLost` and
the `Max...` of the surfaces are the only counters that are cut off. Plans
(and tasks) are interchangeable, hence the symmetry sets; the run with fairness uses none.

**Fairness.** `WF_vars(Step(t))` per task: every await inside a run (HTTP calls, the
wallet subprocess, the maker's watch loop) has a client timeout, and asyncio resumes a
coroutine whose await has ended. In `PerpOrder`, `WF_vars(Router)` for the same reason,
and `WF_vars(TimeRunsOut)` because the maker's budget is wall-clock time. In `Dashboard` the 1 Hz poller ticks
again and again (strong fairness, since a socket that comes and goes disables it), a
fetch ends, a push reaches an open socket and a dead one is found dead. That last
assumption carries `StreamRecovers`: the code has no heartbeat deadline, so it is the
network's. In `Console` a fetch
settles or is given up by the browser (some fetch in flight always does, and there are at
most `MaxPosts`). In `Bridge` only its own timers and its shutdown
are fair; Deltr need not ever answer. Nothing is assumed of clients, ticks or operators.

Deadlock is checked in every run but those of `PerpOrder`, where a leg ends, and
`Surfaces`, where the bounds on clicks and on the engine's clock are used up. A mutant of a mapped definition, named in
`PROJECT.json`, breaks each property of each passing run.

## 6. Findings

Each is a run that states what a document or docstring of the repository says and ends
in a counterexample.

1. `HedgeNakedLeg` (`EX` 1123). *"A half-closed book is never left silently: ... the kill
   switch engages"* (`docs/SAFETY_MODEL.md:151`). A position opened unbalanced because
   its residual could not be reversed is later unwound: all of the perp closes, as much
   is sold on the DEX, and the rest stays open as a naked DEX long; the kill switch is
   off.
2. `HedgeFlatBook` (`EX` 1016). *"a flat book never hides an open order"*
   (`README.md:240`). `_reverse_first` takes any fill for a complete reversal; a perp IOC
   reversal may fill in part, and the remainder is neither booked nor alarmed.
3. `HedgeUnwindSwap` (`EX` 1155). Reducing swaps are said to be exempt from the kill
   switch (`docs/SAFETY_MODEL.md:58-60`). The local plan of a one-legged unwind does not
   set `reduce_only` on the DEX leg, so the pre-flight refuses it while the kill switch
   is on, which is the state a naked leg leaves.
4. `HedgePrincipal` (`portfolio.py` 346). `close_position` is to *"return locked cash"*.
   It releases DEX notional in proportion to the perp quantity closed. When the perp is
   the larger leg (perp first, residual kept), a partial close that empties the DEX leg
   keeps some notional, and closing the perp remainder releases margin only.
5. `DurableExit` (`portfolio.py` 380). Reduce-only unwinds are allowed under halt and kill
   switch (`README.md:192`) and the registry survives a restart
   (`docs/SAFETY_MODEL.md:141`). A partial close writes the smaller registered quantity
   before the book. After a crash in between, the restored position is larger than its
   registry entry, `restore` leaves the entry alone, and the full unwind is refused.
6. `PerpOrderWorking` (`maker.py` 254). *"no order of Deltr's is left working after the leg
   is done with it"* (`docs/SAFETY_MODEL.md:157`). `_lookup` answers `None` for an order
   that is not there and for a lookup that failed. After a post that timed out, the
   second reads as the first, the leg answers `submitted=False`, and the order rests. The
   IOC path makes the distinction.
7. `PerpOrderPartial` (`maker.py` 239). A partial *"is a REAL position; raising here would
   throw the quantity away"* (`maker.py:232-234`). `maker_price` raises at a later attempt
   on a book that is not two-sided, and its error carries no filled quantity.

Disagreements met while modelling the surfaces, which need no run to be seen:

- `README.md:239` says stress scenarios *"mutate only the paper book"*. `stress.py:89`
  and `94` refuse them in TESTNET only. On a LIVE engine either shock runs the stop
  monitor, which unwinds real positions (`NoUnconfirmedOrder` has to say so), and an
  equity shock halts the live gate. Refused everywhere is only a shock that comes while an
  execution is in flight (line 98).
- `PositionsTable.tsx:39` says *"the executor tags DEX fills paper in every mode"*. The
  live router's DEX fill carries the wallet as its source (`onchain_leg.py` 264-272), and
  the page's own fallback for a live engine agrees with the wallet, not with that comment.
  `RealFillNotPaper` states what the code does.
- `PromptConsole.tsx:165` says *"controls disabled"* while the mock is shown; Execute is
  not (line 239). The engine's own test of the confirmation is what protects.
- The console sends `confirm` on testnet only, so it can neither execute nor unwind on a
  live engine.
- `RiskGateLog.tsx:136` explains every row not reached by the first veto; an approved
  unwind reaches four rows, and decisions made outside `evaluate` reach none.
- `TradeTrace.tsx:260` says *"not executed"* of any prompt whose plan has no receipt: also
  while its legs are being filled (with a maker leg, for its whole budget), for good after
  a run that broke off, and after its receipt was pushed out.
- `agent_os_bridge.ts:541` answers *"executed through Deltr's gate"* for every receipt that is
  not an error, one that the gate vetoed at execution included.
- The bridge's header bounds leverage; `tools/call` passes any argument through, and the
  gate behind it has to refuse.
- `EdgeWaterfall.tsx` never clears its error of an earlier fetch, and every snapshot
  drops the request under way, so frames that come faster than answers starve it.
- A live snapshot may stand under the MOCK flag until the next frame, when the mock was
  fetched first and landed last.

## 7. Proofs

All theorems are about every value of the constants their modules assume, unless the
table names a hypothesis. In the core that is every set of plans and tasks (plans
finite), any number of lots, any costs, capital, cap, number of attempts, crashes and
lost writes, every mode, leg order and set of faults; in the surfaces, any set of
engines, requests and market quotes, any number of clicks, outages, switches and
decisions, and lists of any length. What they say is checked by TLC first; what TLC
checks on a small instance, they say of every one.

| Module | Theorem | Statement |
|---|---|---|
| `HedgeExecutorProofs` | `Invariance` | `Spec => []IInv`, the control invariant |
| | `TypeCorrect`, `RegistryInStep`, `ExitAlwaysOpen` | `[]TypeOK`, `[]RegistryMatchesBook`, `[]ExitNeverVetoed` |
| `HedgeCashProofs` | `CashInvariance` | `[]CashInv`, the money invariant |
| | `CapHolds`, `ReservationsAccounted`, `NeverOverdrawn` | `[]PositionCap`, `[]ReservationAccounted`, `[]NoOverdraft` |
| | `PrincipalNotCreated` | `free + reserved + Total <= Capital`, in any leg order |
| | `PrincipalConserved` | `[]CashConserved`, with the DEX leg first |
| `HedgeStepProofs` | `PlansSingleUse`, `ImbalanceNeverSilent`, `DivergenceNeverSilent` | `SpentStaysSpent`, `ImbalanceAlarmed`, `NoSilentDivergence` |
| | `ImplementsSafety` | `Spec => Lifecycle!Spec` (the abstract specification without its fairness) |
| `DurableStateProofs` | `TypeCorrect`, `OpenAlwaysRegistered`, `FewGhosts`, `CapAcrossRestarts`, `SwitchesKept` | `[]` of each invariant of the run |
| | `CashAcrossRestarts` | `[](CashSurvives /\ FileAdds)`: in memory and in the file |
| `PerpOrderProofs` | `TypeCorrect` | `[]TypeOK` |
| | `ExposureHolds` | `[]ExposureBounded`, if `confirm_blind` is not a fault of the maker |
| | `NothingLeftBehind` | `[]NothingLeftWorking`, if `find_blind` is not |
| | `ImplementsLegSafety` | `Spec => Leg!Safety`, if `confirm_blind`, `find_blind` and `bad_book` are not |
| `SurfaceProofs` | `SurfacesTyped` | `[]SurfacesTypeOK` |
| | `MockLabelled`, `SelectedShown`, `PollYielding` | dashboard: `[]MockIsLabelled`, `[]ShownFromSelected`, `[]PollYields` |
| | `ConfirmedOrders`, `RunsOnce`, `SwitchFollows` | console: `[]NoUnconfirmedOrder`, `[]OnceEach`, `[]KillFollowsPress` |
| | `RouteGated`, `OkIsTrue`, `UpstreamReadOnly` | bridge: `[]GatedRoute`, `[]OkMeansRun`, `[]ReadOnlyUpstream` |
| | `EdgeViewsOne` | edge: `[]EdgeViewsAgree` |
| | `ShownNotExecuted`, `RealFillBadged`, `VerdictTold` | panels: `[]NotExecutedIsTrue`, `[]RealFillNotPaper`, `[]RowsTellVerdict` |

**Assumptions.** The named `ASSUME`s of the modules: positive lots, natural costs,
capital, cap and bounds, `None` outside plans and tasks, known mode, order and fault
kinds, and `PlansAssumption`, a finite set of plans, which makes the sums and
cardinalities over plans mean something. In the surfaces: quotes are integers, a
funding interval is positive, the buttons offer horizons within the longest curve
(`EdgeWaterfall.tsx`: 24 and 72, of 720 hours), and no official alias looks like a write, which the
literal table in `agent_os_bridge.ts` satisfies. TLC evaluates them on every run. The
hypotheses of single theorems are needed, each for a counterexample that exists: perp
first loses principal (finding 4); `find_blind` and `bad_book` are findings 6 and 7;
`confirm_blind` is the hazard of section 5. The IOC style needs no such hypothesis.
So `ImplementsLegSafety` says exactly how far the code keeps what the executor relies
on.

**Sums.** Cash, drift and exposure are sums over a set, written with `SumFunction`, which
is a recursive function over subsets. `SumLemmas` proves that this function exists, is
integer-valued, and changes by `g[a] - f[a]` when one value changes. The library's
induction theorems cannot be instantiated, so each of these inductions is a minimal
counterexample: the set of finite subsets that violate the claim has a minimal element
under inclusion, which then cannot exist.

**The control invariant.** `TypeOK` is not inductive. That a quantity stays in
`0 .. Lots` depends on where the run is: a residual `fill1 - fill2` is non-negative only
because that phase is entered when the second fill is the smaller. So `IInv` is the
conjunction of

- `TypeOK`;
- `LockInv`: a task is in a run exactly when it holds the lock, so the other tasks'
  facts survive a step;
- `RunInv`: what a run in each phase may assume: its plan was taken and is not open
  (entry) or is open (unwind), its fills are ordered, an answer is no larger than its
  leg and positive exactly when it is a fill;
- `BookInv`: only a taken plan has a position, what is not open is empty and
  unregistered, and what is open is registered with at least its perp quantity.

The proof states lemmas about the control operators (`GoTo`, `Leave`, `Enter`),
about the book, and about what a leg may answer (`FillableBound`, `OutcomeBound`); then
one step per action.

**The money.** Every step is first shown to be one of a few `LedgerStep`s (nothing, reserve,
release, strand, open, close), so that the arithmetic is done once per kind and not once
per action. `CashInv` adds to `IInv`:
`CapInv` (registered positions and the entry in flight fit the cap), `ReserveInv`
(`reserved` is a multiple of what an entry requires, one for the entry in flight and one
for each stranded leg, so a release never goes below zero), `MoneyInv` (each position's
locked principal is what its quantities allow) and `SoldInv` (an unwind sells on the DEX
what the position has, so a close never leaves principal behind a closed position).
`PrincipalConserved` adds that no position has more perp than DEX: with it, the share
released and the share kept make up the whole.

**The action properties.** `DivergenceNeverSilent` needs `DriftInv`: until it has engaged
the kill switch, a run knows how far it has moved each venue that answered (`Off` by
phase, `Moved` by the answer in flight), and the distance of book and venue differs from
that at its beginning by exactly this. The four exceptions are the steps that leave such
a distance behind.

**The refinement of `HedgeLifecycle`.** The stage of a plan is a CASE over tasks and book.
`StagesInv` says what it is for a plan in a run and for one that rests; `IdleInv`, that an
idle task has no locals left. Each action then moves one plan along one edge of the
abstract specification, or none.

**`DurableState`.** The invariant `DInv` rests on one idea: what a method still has to
write. `PendingInv` lists the eight shapes `pending` can have; `Moves` reduces `Next`
to fourteen kinds of step. `SwitchInv`: what was last sworn is in the file, and in memory
unless that write is still to come. `CashInv`: the sums, in memory and in the book's
file, which holds because every file is one consistent picture. `CountInv` says how
far apart registry, book, and the two files may be: a registered
position that the book or its file lacks is paid for by a crash, a lost write, or a book
write still owed (`Debt`); the slots of all four, with the entry in flight (`Taken`), fit
the cap and the lost writes. No weaker form was inductive.

**`PerpOrder`.** Every request is one of three steps, in terms of the order of the current
attempt: the leg stays with it, retries under the next id, or answers. `BInv` says what
each request may assume of that order (`PhaseOK`) and that no other order works. What the
router has counted and what this order may still fill are together all that the orders
expose (`ExposureInv`), because a retry gives up only orders that have ended. `MovedInv`
is the same for what was filled, and gives the refinement: the router's answer is the
venue's sum.

**The surfaces.** `SInv` is the conjunction of one invariant per part, each kept by the
part's own steps and, because nothing is shared, by everybody else's.

- `DashInv`: the only poll under way is the stream's own and asks the selected engine, and
  an open socket can be overtaken only by that one poll.
- `ConsoleInv`: what every POST on the wire may still do. An Execute is for the plan on
  screen and carries a confirmation only if that plan's box was ticked; there is one
  prompt or Execute at a time; what ran is spent; a kill press the engine has not seen asks
  for what was last wished.
- `BridgeInv`: what a request waits for fits what it asked, and a call that outlives its
  request still belongs to it: an execute on the wire or done is of the request's own
  plan, within the leverage and confirmed.
- `SentInv`: every name sent upstream, and every name a request has yet to try, passes the
  allowlist and is not trade-shaped. `Advertised` is recursive; that it exists and only
  keeps names of the list is shown by a least counterexample, as for the sums.
- `LogInv`: each decision recorded has rows that tell its verdict. It rests on
  `FirstFailing`: the checks are published in the order in which they run.
- `PanelsInv`: a prompt on a list whose plan was executed is unreported, or older than that
  plan's receipt, or than every receipt of a full list. That is the exact reason for the
  exceptions in `NotExecutedIsTrue`; `RealFillNotPaper` needs only that a fill's source is
  that of the engine's mode.
- `EdgeInv`: every edge on the panel is one the engine computed, and an answer came with
  the rows and the analysis of its own edge. What the panel shows is then arithmetic:
  counting settlement instants gives the floor or one more (`InstantsOrFloor`, which needs
  the next settlement to be at most one interval ahead); the break-even is the least number
  of settlements that repay the cost (`BreakevenIsLeast`), and there the curve first
  reaches zero (`CurveMeetsBreakeven`); both sides draw a curve of the same length
  (`StepsAgree`); the rows add up to the net (`RowsSum`).

**Only model-checked.** What needs fairness: `EveryRunEnds`, the fairness part of
`ImplementsLifecycle` and `ImplementsPerpLeg`, `StreamRecovers`, `ControlsComeBack`,
`EveryCallAnswered`. Liveness and `ENABLED` are beyond the prover, so TLC checks these on
the instances of section 5. The violating runs are counterexamples and need no proof.

## 8. Not modelled

Prices, profit, fees, funding accrual and marking; the drawdown thresholds (one
nondeterministic halt); the numbers inside the gate's checks; limit prices; sizing; the
on-chain ceiling and x402 payments; auto-trade, its cooldown and the dispatch of ticks;
the stress flags other than those of section 4; damaged state files. In the surfaces:
the activity table, the spread chart, tools/list and the listing
and configuration of the upstream.

Quotes over RPC and HTTP, signing, the wallet's own behaviour, parsing of prompts, the
command line, the landing page, the video and the operations scripts are left out for
good: they hold no state the core depends on.

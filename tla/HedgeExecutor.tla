---------------------------- MODULE HedgeExecutor ----------------------------
(* deltr/executor.py with the state it drives: the plan store, the book, the *)
(* gate's registry and switches, and the venues the legs trade on.           *)
(*                                                                           *)
(* One task at a time holds the executor's asyncio lock.  A leg is two       *)
(* steps, because the venue moves before the answer is processed: SendLeg    *)
(* fixes the outcome and moves the venue, and a handler then acts on the     *)
(* answer.  Ticks, clients and operators run between any two steps.          *)
EXTENDS Portfolio, FiniteSetsExt

CONSTANTS
    Plans,         \* plan ids; a position carries the id of the plan that opened it
    Tasks,         \* coroutines that execute or unwind (clients, --auto, stop monitor)
    None,          \* no plan / no task
    Capital,       \* starting cash
    MaxPositions,  \* RiskLimits.max_open_positions
    Mode,          \* "paper" | "testnet" | "live"
    LegOrder,      \* "dex_first" | "perp_first" (Settings.effective_leg_order)
    HedgeMode,     \* dual-side futures account, where reduceOnly is not sent
    Faults         \* what the venues may do besides filling in full

FaultKinds == {"refuse_dex", "refuse_perp", "partial_entry", "partial_exit",
               "short_swap", "unknown_dex", "unknown_perp"}

ASSUME NoneAssumption  == None \notin Plans \cup Tasks
ASSUME PlansAssumption == IsFiniteSet(Plans)
ASSUME CashAssumption  == Capital \in Nat
ASSUME LimitAssumption == MaxPositions \in Nat
ASSUME ModeAssumption  == /\ Mode \in {"paper", "testnet", "live"}
                          /\ LegOrder \in {"dex_first", "perp_first"}
                          /\ HedgeMode \in BOOLEAN
                          /\ Faults \subseteq FaultKinds

VARIABLES
    plan,      \* [Plans -> status]: the plan store and Executor._consumed
    lock,      \* the task inside Executor._lock, or None
    job,       \* [Tasks -> Job]: where each task is
    book,      \* [Plans -> Position]: Portfolio._positions
    registry,  \* [Plans -> registered quantity]: BinanceRiskGate.positions
    free,      \* Portfolio.cash_usd
    reserved,  \* Portfolio.reserved_cash_usd
    kill,      \* BinanceRiskGate.kill_switch
    alarm,     \* history: the run in flight engaged the kill switch
    halted,    \* BinanceRiskGate.state = HALTED
    venue,     \* [dex, perp]: the long the wallet really holds, the short the futures account really has
    stranded,  \* history: plans whose reservation is kept for a manual reconciliation
    began      \* history: Drift when the run in flight began

vars == <<plan, lock, job, book, registry, free, reserved, kill, alarm, halted, venue, stranded, began>>

Unregistered == -1

Venues == {"dex", "perp"}
First  == IF LegOrder = "dex_first" THEN "dex" ELSE "perp"
Second == IF LegOrder = "dex_first" THEN "perp" ELSE "dex"

EntryLegs  == {"leg1", "leg2", "reverse", "residual"}
UnwindLegs == {"u_perp", "u_dex", "u_reshort"}
Legs       == EntryLegs \cup UnwindLegs
Phases     == {"idle", "requote", "u_requote"} \cup Legs

\* What a router call answers: a Fill, a LegError that sent nothing, or a
\* LegError after something was sent.
Answer  == [err : {"none", "refused", "unknown"}, qty : Qty]
NoReply == [err |-> "none", qty |-> 0]

\* fill1/fill2: the fills so far.
Job == [phase : Phases, sent : BOOLEAN, plan : Plans \cup {None}, reply : Answer,
        fill1 : Qty, fill2 : Qty]

IdleJob == [phase |-> "idle", sent |-> FALSE, plan |-> None, reply |-> NoReply,
            fill1 |-> 0, fill2 |-> 0]

\* How far the venues are from what the book says of them.
Drift == [dex  |-> venue.dex  - SumFunction([p \in Plans |-> book[p].dex]),
          perp |-> venue.perp - SumFunction([p \in Plans |-> book[p].perp])]

Init ==
    /\ plan = [p \in Plans |-> "none"]
    /\ lock = None
    /\ job = [t \in Tasks |-> IdleJob]
    /\ book = [p \in Plans |-> NoPosition]
    /\ registry = [p \in Plans |-> Unregistered]
    /\ free = Capital
    /\ reserved = 0
    /\ kill = FALSE /\ alarm = FALSE
    /\ halted = FALSE
    /\ venue = [v \in Venues |-> 0]
    /\ stranded = {}
    /\ began = [dex |-> 0, perp |-> 0]

InFlight(t)     == job[t].phase # "idle"
Calling(t, ph)  == job[t].phase = ph /\ ~job[t].sent
Answered(t, ph) == job[t].phase = ph /\ job[t].sent
Filled(t)  == job[t].reply.err = "none"
Unknown(t) == job[t].reply.err = "unknown"
Pos(t)     == book[job[t].plan]

------------------------------------------------------------------------------
(* Control flow of a run: enter the lock, go on to a leg, leave the lock.    *)

\* Mutant: the lock is not taken (two coroutines run the same position).
Enter_Unlocked(t, p, ph) ==
    /\ ~InFlight(t)
    /\ lock' = t
    /\ job' = [job EXCEPT ![t] = [IdleJob EXCEPT !.phase = ph, !.plan = p]]
    /\ began' = Drift /\ alarm' = FALSE

Enter(t, p, ph) ==
    /\ lock = None
    /\ lock' = t
    /\ job' = [job EXCEPT ![t] = [IdleJob EXCEPT !.phase = ph, !.plan = p]]
    /\ began' = Drift /\ alarm' = FALSE

GoTo(t, ph, f1, f2) ==
    /\ LET next == [job[t] EXCEPT !.phase = ph, !.sent = FALSE, !.reply = NoReply,
                                  !.fill1 = f1, !.fill2 = f2]
       IN  job' = [job EXCEPT ![t] = next]
    /\ UNCHANGED <<lock, began>>

Leave(t) ==
    /\ job' = [job EXCEPT ![t] = IdleJob]
    /\ lock' = None
    /\ UNCHANGED began

\* set_kill_switch(True) when `alarmed`; nothing in the executor ever releases it.
EngageIf(alarmed) == kill' = (kill \/ alarmed) /\ alarm' = (alarm \/ alarmed)

------------------------------------------------------------------------------
(* Cash and book: what Portfolio's methods do, with the gate registry they   *)
(* keep in step.                                                             *)

Reserve == /\ free' = free - CashRequired
           /\ reserved' = reserved + CashRequired

Release == LET amount == Smaller(CashRequired, reserved) IN
           /\ reserved' = reserved - amount
           /\ free' = free + amount

\* open_position / open_naked_leg: consume the reservation, lock what the fills cost.
Book(p, pos, registered) ==
    LET amount == Smaller(CashRequired, reserved) IN
    /\ reserved' = reserved - amount
    /\ free' = free + amount - Locked(pos)
    /\ book' = [book EXCEPT ![p] = pos]
    /\ registry' = [registry EXCEPT ![p] = registered]

\* Mutant: a closed position keeps its registry entry.
Reduce_KeepsEntry(p, pos, released, registered) ==
    /\ free' = free + released
    /\ book' = [book EXCEPT ![p] = pos]
    /\ registry' = [registry EXCEPT ![p] = registered]
    /\ UNCHANGED reserved

\* Mutant: a partial close leaves the registry like a full one.
Reduce_AlwaysReleases(p, pos, released, registered) ==
    /\ free' = free + released
    /\ book' = [book EXCEPT ![p] = pos]
    /\ registry' = [registry EXCEPT ![p] = Unregistered]
    /\ UNCHANGED reserved

\* close_position / close_leg: release principal; a closed position leaves the registry.
Reduce(p, pos, released, registered) ==
    /\ free' = free + released
    /\ book' = [book EXCEPT ![p] = pos]
    /\ registry' = [registry EXCEPT ![p] = IF pos.open THEN registered ELSE Unregistered]
    /\ UNCHANGED reserved

------------------------------------------------------------------------------
(* The legs and the routers.                                                 *)

\* The leg a task places next.  `reducing` is OrderLeg.reduce_only: the local plan
\* of a one-legged unwind leaves it unset on the DEX leg, the hedger's sets it.
LegOf(t) ==
    LET j == job[t]
        leg(v, side, qty, reducing) == [venue |-> v, side |-> side, qty |-> qty, reducing |-> reducing]
    IN CASE j.phase = "leg1"      -> leg(First, "open", Lots, FALSE)
         [] j.phase = "leg2"      -> leg(Second, "open", j.fill1, FALSE)
         [] j.phase = "reverse"   -> leg(First, "close", j.fill1, TRUE)
         [] j.phase = "residual"  -> leg(First, "close", j.fill1 - j.fill2, TRUE)
         [] j.phase = "u_perp"    -> leg("perp", "close", Pos(t).perp, TRUE)
         [] j.phase = "u_dex"     -> IF j.fill1 > 0
                                     THEN leg("dex", "close", Smaller(j.fill1, Pos(t).dex), TRUE)
                                     ELSE leg("dex", "close", Pos(t).dex, FALSE)
         [] j.phase = "u_reshort" -> leg("perp", "open", j.fill1, TRUE)

RealPerp == Mode \in {"testnet", "live"}
RealDex  == Mode = "live"

\* The engine's on-chain pre-flight: a swap that opens exposure needs the kill switch
\* off and no halt; a reducing one is exempt.
PreflightRefuses(leg) == RealDex /\ leg.venue = "dex" /\ ~leg.reducing /\ (kill \/ halted)

\* A one-way futures account rejects a reduce-only order that would add to the short.
VenueRejects(leg) == RealPerp /\ ~HedgeMode /\ leg.venue = "perp" /\ leg.side = "open" /\ leg.reducing

\* What the venue can fill: a real perp closes at most the short it has, a real
\* wallet sells all of the amount or nothing.
Fillable(leg) ==
    CASE PreflightRefuses(leg) \/ VenueRejects(leg) -> 0
      [] RealPerp /\ leg.venue = "perp" /\ leg.side = "close" -> Smaller(leg.qty, Larger(venue.perp, 0))
      [] RealDex /\ leg.venue = "dex" /\ leg.side = "close" -> IF venue.dex >= leg.qty THEN leg.qty ELSE 0
      [] OTHER -> leg.qty

\* The sizes a fill may have.  Only a real IOC order fills in part, and only a real
\* swap delivers less than it was asked to buy.
FillSizes(leg) ==
    LET full == Fillable(leg)
        partial == \/ /\ RealPerp /\ leg.venue = "perp"
                      /\ \/ leg.side = "open"  /\ "partial_entry" \in Faults
                         \/ leg.side = "close" /\ "partial_exit" \in Faults
                   \/ RealDex /\ leg.venue = "dex" /\ leg.side = "open" /\ "short_swap" \in Faults
    IN  IF partial THEN 1 .. full ELSE {full} \ {0}

\* Every way a call can end: how much the venue moved, and what the router answers.
\* Only a real venue can leave the outcome of a call unknown.
Outcomes(leg) ==
    LET onDex     == leg.venue = "dex"
        refusable == Fillable(leg) = 0 \/ (IF onDex THEN "refuse_dex" ELSE "refuse_perp") \in Faults
        uncertain == /\ Fillable(leg) > 0
                     /\ IF onDex THEN RealDex /\ "unknown_dex" \in Faults
                                 ELSE RealPerp /\ "unknown_perp" \in Faults
        outcome(moved, err, qty) == [moved |-> moved, reply |-> [err |-> err, qty |-> qty]]
    IN  {outcome(q, "none", q) : q \in FillSizes(leg)}
        \cup (IF refusable THEN {outcome(0, "refused", 0)} ELSE {})
        \cup (IF uncertain THEN {outcome(q, "unknown", 0) : q \in 0 .. Fillable(leg)} ELSE {})

SendLeg(t) ==
    /\ job[t].phase \in Legs /\ ~job[t].sent
    /\ LET leg == LegOf(t) IN
       \E o \in Outcomes(leg) :
          /\ job' = [job EXCEPT ![t] = [job[t] EXCEPT !.sent = TRUE, !.reply = o.reply]]
          /\ venue' = [venue EXCEPT ![leg.venue] = IF leg.side = "open" THEN @ + o.moved ELSE @ - o.moved]
    /\ UNCHANGED <<plan, lock, book, registry, free, reserved, kill, alarm, halted, stranded, began>>

------------------------------------------------------------------------------
(* Execute: the entry of a hedge.                                            *)

\* Mutant: a plan already taken can be executed again.
Execute_Again(t, p) ==
    /\ plan[p] \in {"stored", "taken"}
    /\ Enter(t, p, "requote")
    /\ plan' = [plan EXCEPT ![p] = "taken"]
    /\ UNCHANGED <<book, registry, free, reserved, kill, halted, venue, stranded>>

\* execute: the plan is popped from the store before anything else happens.
Execute(t, p) ==
    /\ plan[p] = "stored"
    /\ Enter(t, p, "requote")
    /\ plan' = [plan EXCEPT ![p] = "taken"]
    /\ UNCHANGED <<book, registry, free, reserved, kill, halted, venue, stranded>>

Registered == {p \in Plans : registry[p] # Unregistered}

\* Mutant: one position too many.
GateAllowsEntry_OneMore == ~kill /\ ~halted /\ Cardinality(Registered) <= MaxPositions

\* Mutant: the re-gate at execution forgets the kill switch.
GateAllowsEntry_NoKill == ~halted /\ Cardinality(Registered) < MaxPositions

\* The checks of the gate the executor's own state decides.
GateAllowsEntry == ~kill /\ ~halted /\ Cardinality(Registered) < MaxPositions

\* Mutant: the reservation is not checked against free cash.
Commit_Uncovered(t) ==
    /\ Calling(t, "requote")
    /\ GateAllowsEntry
    /\ Reserve
    /\ GoTo(t, "leg1", 0, 0)
    /\ UNCHANGED <<plan, book, registry, kill, alarm, halted, venue, stranded>>

\* The gate approves and the cash is reserved in the same synchronous stretch.
Commit(t) ==
    /\ Calling(t, "requote")
    /\ GateAllowsEntry
    /\ CashRequired <= free
    /\ Reserve
    /\ GoTo(t, "leg1", 0, 0)
    /\ UNCHANGED <<plan, book, registry, kill, alarm, halted, venue, stranded>>

\* No market data, a veto (any market check of the gate may fail), or no cash: the
\* plan stays consumed.
Veto(t) ==
    /\ Calling(t, "requote")
    /\ Leave(t)
    /\ UNCHANGED <<plan, book, registry, free, reserved, kill, alarm, halted, venue, stranded>>

FirstLegFilled(t) ==
    /\ Answered(t, "leg1") /\ Filled(t)
    /\ GoTo(t, "leg2", job[t].reply.qty, 0)
    /\ UNCHANGED <<plan, book, registry, free, reserved, kill, alarm, halted, venue, stranded>>

\* Mutant: a refused first leg leaves its reservation behind.
FirstLegRefused_Leaks(t) ==
    /\ Answered(t, "leg1") /\ job[t].reply.err = "refused"
    /\ Leave(t)
    /\ UNCHANGED <<plan, book, registry, free, reserved, kill, alarm, halted, venue, stranded>>

\* Nothing was sent: the reservation goes back.
FirstLegRefused(t) ==
    /\ Answered(t, "leg1") /\ job[t].reply.err = "refused"
    /\ Release
    /\ Leave(t)
    /\ UNCHANGED <<plan, book, registry, kill, alarm, halted, venue, stranded>>

\* Mutant: a first leg that may be live is treated as one that was refused.
FirstLegUnknown_Silent(t) ==
    /\ Answered(t, "leg1") /\ Unknown(t)
    /\ Release
    /\ Leave(t)
    /\ UNCHANGED <<plan, book, registry, kill, alarm, halted, venue, stranded>>

\* Something was sent: kill switch, nothing booked, and the reservation is kept.
FirstLegUnknown(t) ==
    /\ Answered(t, "leg1") /\ Unknown(t)
    /\ EngageIf(TRUE)
    /\ stranded' = stranded \cup {job[t].plan}
    /\ Leave(t)
    /\ UNCHANGED <<plan, book, registry, free, reserved, halted, venue>>

\* open_position with the effective quantity of the first leg.
OpenHedge(t, eff1, fill2) ==
    LET dex  == IF First = "dex" THEN eff1 ELSE fill2
        perp == IF First = "dex" THEN fill2 ELSE eff1
    IN  Book(job[t].plan, Opened(dex, perp), perp)

SecondLegFilled(t) ==
    LET j == job[t] IN
    /\ Answered(t, "leg2") /\ Filled(t)
    /\ IF j.fill1 > j.reply.qty
       THEN /\ GoTo(t, "residual", j.fill1, j.reply.qty)
            /\ UNCHANGED <<book, registry, free, reserved>>
       ELSE /\ OpenHedge(t, j.fill1, j.reply.qty)
            /\ Leave(t)
    /\ UNCHANGED <<plan, kill, alarm, halted, venue, stranded>>

SecondLegFailed(t) ==
    /\ Answered(t, "leg2") /\ ~Filled(t)
    /\ EngageIf(Unknown(t))
    /\ GoTo(t, "reverse", job[t].fill1, 0)
    /\ UNCHANGED <<plan, book, registry, free, reserved, halted, venue, stranded>>

\* Mutant: the reversed residual is added to the first leg.
ResidualAnswered_Adds(t) ==
    LET j == job[t] IN
    /\ Answered(t, "residual")
    /\ OpenHedge(t, j.fill1 + j.reply.qty, j.fill2)
    /\ Leave(t)
    /\ UNCHANGED <<plan, kill, alarm, halted, venue, stranded>>

\* The residual of the first leg is reversed; if that fails it is only traced, and
\* the position is opened either way.
ResidualAnswered(t) ==
    LET j == job[t] IN
    /\ Answered(t, "residual")
    /\ OpenHedge(t, j.fill1 - j.reply.qty, j.fill2)
    /\ Leave(t)
    /\ UNCHANGED <<plan, kill, alarm, halted, venue, stranded>>

\* _reverse_first: the reversal's own quantity is not compared with the leg's.
Reversed(t) ==
    /\ Answered(t, "reverse") /\ Filled(t)
    /\ Release
    /\ Leave(t)
    /\ UNCHANGED <<plan, book, registry, kill, alarm, halted, venue, stranded>>

\* Mutant: the naked leg is booked, the kill switch is not engaged.
NotReversed_Silent(t) ==
    LET j == job[t] IN
    /\ Answered(t, "reverse") /\ ~Filled(t)
    /\ Book(j.plan, OpenedNaked(First, j.fill1), j.fill1)
    /\ Leave(t)
    /\ UNCHANGED <<plan, kill, alarm, halted, venue, stranded>>

NotReversed(t) ==
    LET j == job[t] IN
    /\ Answered(t, "reverse") /\ ~Filled(t)
    /\ Book(j.plan, OpenedNaked(First, j.fill1), j.fill1)
    /\ EngageIf(TRUE)
    /\ Leave(t)
    /\ UNCHANGED <<plan, halted, venue, stranded>>

------------------------------------------------------------------------------
(* Unwind: perp reduce-only BUY first, then the DEX sell.                    *)

\* _unwind_locked looks the position up inside the lock.
Unwind(t, p) ==
    /\ book[p].open
    /\ Enter(t, p, "u_requote")
    /\ UNCHANGED <<plan, book, registry, free, reserved, kill, halted, venue, stranded>>

\* The gate's verified reduce-only path: a registered position, and no more than its
\* registered quantity.  A one-legged unwind names no leg quantity.
VerifiedUnwind(p) ==
    /\ registry[p] # Unregistered
    /\ OneLegged(book[p]) \/ book[p].perp <= registry[p]

UnwindApproved(t) ==
    /\ Calling(t, "u_requote")
    /\ VerifiedUnwind(job[t].plan)
    /\ GoTo(t, IF Pos(t).perp > 0 THEN "u_perp" ELSE "u_dex", 0, 0)
    /\ UNCHANGED <<plan, book, registry, free, reserved, kill, alarm, halted, venue, stranded>>

\* REDUCE_ONLY_UNVERIFIED, or no market snapshot: the position stays open.
UnwindRefused(t) ==
    /\ Calling(t, "u_requote")
    /\ Leave(t)
    /\ UNCHANGED <<plan, book, registry, free, reserved, kill, alarm, halted, venue, stranded>>

\* close_leg, from _unwind_with_plan.
CloseLeg(t, v, fill) ==
    LET rest == LegClosed(Pos(t), v, fill) IN
    Reduce(job[t].plan, rest, LegReleases(Pos(t), v, fill), LegRegistered(rest))

PerpClosed(t) ==
    LET j == job[t] IN
    /\ Answered(t, "u_perp") /\ Filled(t)
    /\ IF Pos(t).dex > 0
       THEN /\ GoTo(t, "u_dex", j.reply.qty, 0)
            /\ UNCHANGED <<book, registry, free, reserved>>
       ELSE /\ CloseLeg(t, "perp", j.reply.qty)
            /\ Leave(t)
    /\ UNCHANGED <<plan, kill, alarm, halted, venue, stranded>>

\* Refused: the position stays open.  Unknown: the kill switch too.
PerpNotClosed(t) ==
    /\ Answered(t, "u_perp") /\ ~Filled(t)
    /\ EngageIf(Unknown(t))
    /\ Leave(t)
    /\ UNCHANGED <<plan, book, registry, free, reserved, halted, venue, stranded>>

DexSold(t) ==
    LET j == job[t]
        rest == BothClosed(Pos(t), j.reply.qty, j.fill1)
    IN
    /\ Answered(t, "u_dex") /\ Filled(t)
    /\ IF j.fill1 > 0
       THEN Reduce(j.plan, rest, BothReleases(Pos(t), j.fill1), rest.perp)
       ELSE CloseLeg(t, "dex", j.reply.qty)
    /\ Leave(t)
    /\ UNCHANGED <<plan, kill, alarm, halted, venue, stranded>>

\* Mutant: a failed DEX sell is tried again without end.
DexNotSold_Retries(t) ==
    LET j == job[t] IN
    /\ Answered(t, "u_dex") /\ ~Filled(t)
    /\ GoTo(t, "u_dex", j.fill1, 0)
    /\ UNCHANGED <<plan, book, registry, free, reserved, kill, alarm, halted, venue, stranded>>

\* A naked DEX leg just stays open; otherwise the perp is re-shorted.  Whether the
\* failed sell was submitted is not looked at.
DexNotSold(t) ==
    LET j == job[t] IN
    /\ Answered(t, "u_dex") /\ ~Filled(t)
    /\ IF j.fill1 > 0 THEN GoTo(t, "u_reshort", j.fill1, 0) ELSE Leave(t)
    /\ UNCHANGED <<plan, book, registry, free, reserved, kill, alarm, halted, venue, stranded>>

\* The hedge is taken to be restored: the position keeps its full quantity.
Reshorted(t) ==
    /\ Answered(t, "u_reshort") /\ Filled(t)
    /\ Leave(t)
    /\ UNCHANGED <<plan, book, registry, free, reserved, kill, alarm, halted, venue, stranded>>

\* Mutant: the half-closed book is booked, the kill switch is not engaged.
NotReshorted_Silent(t) ==
    /\ Answered(t, "u_reshort") /\ ~Filled(t)
    /\ CloseLeg(t, "perp", job[t].fill1)
    /\ Leave(t)
    /\ UNCHANGED <<plan, kill, alarm, halted, venue, stranded>>

NotReshorted(t) ==
    /\ Answered(t, "u_reshort") /\ ~Filled(t)
    /\ CloseLeg(t, "perp", job[t].fill1)
    /\ EngageIf(TRUE)
    /\ Leave(t)
    /\ UNCHANGED <<plan, halted, venue, stranded>>

------------------------------------------------------------------------------
(* Everybody else, between any two steps of a run.                           *)

\* deltr_propose_hedge: a plan gets a fresh id, so each id is stored once.
Propose(p) ==
    /\ plan[p] = "none"
    /\ plan' = [plan EXCEPT ![p] = "stored"]
    /\ UNCHANGED <<lock, job, book, registry, free, reserved, kill, alarm, halted, venue, stranded, began>>

Expire(p) ==
    /\ plan[p] = "stored"
    /\ plan' = [plan EXCEPT ![p] = "expired"]
    /\ UNCHANGED <<lock, job, book, registry, free, reserved, kill, alarm, halted, venue, stranded, began>>

OperatorKill(on) ==
    /\ kill # on
    /\ kill' = on
    /\ UNCHANGED <<plan, lock, job, book, registry, free, reserved, alarm, halted, venue, stranded, began>>

\* A market tick marks the book and the drawdown reaches the stop-loss.
Halt ==
    /\ ~halted
    /\ halted' = TRUE
    /\ UNCHANGED <<plan, lock, job, book, registry, free, reserved, kill, alarm, venue, stranded, began>>

\* Engine.reset_halt: only on a flat book (and a recovered drawdown).
ResetHalt ==
    /\ halted
    /\ \A p \in Plans : ~book[p].open
    /\ halted' = FALSE
    /\ UNCHANGED <<plan, lock, job, book, registry, free, reserved, kill, alarm, venue, stranded, began>>

Step(t) ==
    \/ SendLeg(t)
    \/ Commit(t) \/ Veto(t)
    \/ FirstLegFilled(t) \/ FirstLegRefused(t) \/ FirstLegUnknown(t)
    \/ SecondLegFilled(t) \/ SecondLegFailed(t)
    \/ ResidualAnswered(t) \/ Reversed(t) \/ NotReversed(t)
    \/ UnwindApproved(t) \/ UnwindRefused(t)
    \/ PerpClosed(t) \/ PerpNotClosed(t)
    \/ DexSold(t) \/ DexNotSold(t)
    \/ Reshorted(t) \/ NotReshorted(t)

Environment ==
    \/ \E p \in Plans : Propose(p) \/ Expire(p)
    \/ \E on \in BOOLEAN : OperatorKill(on)
    \/ Halt \/ ResetHalt

Next ==
    \/ \E t \in Tasks : Step(t) \/ \E p \in Plans : Execute(t, p) \/ Unwind(t, p)
    \/ Environment

Spec == Init /\ [][Next]_vars

\* Every await in a run is bounded by a client timeout, so a run keeps stepping.
Fairness == \A t \in Tasks : WF_vars(Step(t))
FairSpec == Spec /\ Fairness

------------------------------------------------------------------------------
(* Properties.                                                               *)

Status == {"none", "stored", "expired", "taken"}

\* Type invariant of the executor and the state it drives.
TypeOK ==
    /\ plan \in [Plans -> Status]
    /\ lock \in Tasks \cup {None}
    /\ job \in [Tasks -> Job]
    /\ book \in [Plans -> Position]
    /\ registry \in [Plans -> Qty \cup {Unregistered}]
    /\ free \in Int /\ reserved \in Int
    /\ kill \in BOOLEAN /\ alarm \in BOOLEAN /\ halted \in BOOLEAN
    /\ venue \in [Venues -> Int]
    /\ stranded \subseteq Plans

\* The gate's registry names exactly the open positions: none is invisible to the
\* gate, and no ghost entry occupies one of the gate's position slots.
RegistryMatchesBook ==
    \A p \in Plans : book[p].open <=> registry[p] # Unregistered

\* Whatever sequence of entries, partial closes and failed unwinds a position went
\* through, the gate recognises an unwind of it as verified reduce-only, so a kill
\* switch or a drawdown halt never locks an exposure in.
ExitNeverVetoed ==
    \A p \in Plans : book[p].open => VerifiedUnwind(p)

\* Reserved cash is exactly what the entry in flight needs, plus the reservations
\* deliberately kept for first legs whose state is unknown: every failure path
\* returns its reservation once, and none returns another plan's.
ReservationAccounted ==
    reserved = CashRequired * (Cardinality(stranded)
                               + Cardinality({t \in Tasks : job[t].phase \in EntryLegs}))

\* Principal is neither created nor lost between free cash, reservations and the
\* legs of the book, whatever the fills and in whatever order positions close.
CashConserved ==
    free + reserved + SumFunction([p \in Plans |-> Locked(book[p])]) = Capital

\* Free cash never goes negative: a booking costs no more than its reservation.
NoOverdraft == free >= 0 /\ reserved >= 0

\* At most MaxPositions positions are registered although the check is made at the
\* gate and the position is registered only after both legs.
PositionCap == Cardinality(Registered) <= MaxPositions

\* A plan is single-use: once its entry is over, no task ever runs it again.
Spent(p) == plan[p] = "taken"
            /\ \A t \in Tasks : job[t].plan = p => job[t].phase \in {"u_requote"} \cup UnwindLegs
SpentStaysSpent == [][\A p \in Plans : Spent(p) => Spent(p)']_vars

\* A step that ends the run of task t.
Ends(t) == InFlight(t) /\ ~InFlight(t)'

\* The four places where the code lets a disagreement pass: a reversal or a re-short that
\* filled in part, and a residual reversal or a DEX sell whose outcome is unknown.
PassesSilently(t) ==
    LET j == job[t] IN
    \/ j.phase = "reverse" /\ Filled(t) /\ j.reply.qty < j.fill1
    \/ j.phase = "residual" /\ Unknown(t)
    \/ j.phase = "u_dex" /\ Unknown(t)
    \/ j.phase = "u_reshort" /\ Filled(t) /\ (j.reply.qty < j.fill1 \/ Drift.dex # began.dex)

\* A run that leaves book and venues further apart or differently apart than it
\* found them has engaged the kill switch, except at the places PassesSilently names.
NoSilentDivergence ==
    [][\A t \in Tasks : Ends(t) => (Drift' = began \/ kill' \/ alarm \/ PassesSilently(t))]_vars

\* A run that leaves a position unbalanced that was not (or was not there) leaves it
\* with the kill switch engaged, unless a residual was not reversed in full at entry.
Unbalanced(pos) == pos.open /\ pos.dex # pos.perp
ResidualKept(p) == \E t \in Tasks : /\ job[t].plan = p /\ Answered(t, "residual")
                                    /\ job[t].reply.qty < job[t].fill1 - job[t].fill2
ImbalanceAlarmed ==
    [][\A p \in Plans : (Unbalanced(book'[p]) /\ ~Unbalanced(book[p])) => kill' \/ ResidualKept(p)]_vars

\* The lifecycle of a plan as the executor's state shows it.
StageOf(p) ==
    LET phases == {job[t].phase : t \in {u \in Tasks : job[u].plan = p}} IN
    CASE "requote" \in phases -> "vetting"
      [] phases \cap EntryLegs # {} -> "entering"
      [] phases \cap ({"u_requote"} \cup UnwindLegs) # {} -> "closing"
      [] phases = {} /\ book[p].open -> "open"
      [] phases = {} /\ plan[p] = "none" -> "absent"
      [] phases = {} /\ plan[p] = "stored" -> "proposed"
      [] OTHER -> "done"

Lifecycle == INSTANCE HedgeLifecycle
    WITH stage <- [p \in Plans |-> StageOf(p)], barred <- kill \/ halted

\* The executor implements the lifecycle it promises: whatever the venues answer, a plan
\* runs once, runs never overlap, no entry commits while entries are barred, and only an
\* operator lifts the bar.
ImplementsLifecycle == Lifecycle!FairSpec

\* A run ends, whatever the venues answer: the lock is always given back.
EveryRunEnds == \A t \in Tasks : InFlight(t) ~> ~InFlight(t)

------------------------------------------------------------------------------
(* What the documents say and the code does not do (see README, Findings).   *)

\* "A half-closed book is never left silently": a position that becomes one-legged
\* does so with the kill switch engaged.
NakedLegAlarmed ==
    [][\A p \in Plans : (book'[p].open /\ OneLegged(book'[p])
                         /\ ~(book[p].open /\ OneLegged(book[p]))) => kill']_vars

\* "A flat book never hides an open order": a run that leaves no open position
\* leaves no new exposure at the venues, or the kill switch engaged.
FlatBookHidesNothing ==
    [][\A t \in Tasks : (Ends(t) /\ \A p \in Plans : ~book'[p].open)
                        => (Drift' = began \/ kill' \/ alarm)]_vars

\* "The DEX leg of an unwind" is exempt from the kill switch and the halt.
UnwindSwapExempt ==
    \A t \in Tasks : Calling(t, "u_dex") => ~PreflightRefuses(LegOf(t))

\* "Realise the exit fills (full or partial), return locked cash": a position that closes
\* for good hands back all the principal still locked in it.
PrincipalReturned ==
    [][\A p \in Plans : (book[p].open /\ ~book'[p].open) => free' = free + Locked(book[p])]_vars
=============================================================================

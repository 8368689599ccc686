------------------------------ MODULE Console ------------------------------
(***************************************************************************)
(* The dashboard's controls over one engine: the prompt console            *)
(* (ui/components/PromptConsole.tsx), the unwind button of the positions   *)
(* table and the halt reset of the risk-gate panel.                        *)
(*                                                                         *)
(* Every click is a POST: it is sent from what the page shows, which may   *)
(* be old; the engine handles it, or it never gets there; its answer comes *)
(* back, or is lost after the engine acted.  POSTs of different buttons    *)
(* overlap and are handled in any order.  The engine's side (deltr/) is    *)
(* cut down to what these POSTs change.                                    *)
(***************************************************************************)
EXTENDS Naturals, FiniteSets, TLC

CONSTANTS
    Modes,      \* the modes an engine may run in
    PlanIds,    \* plans the prompts may create
    Held,       \* positions open at the start
    MaxPosts,   \* bound: clicks, and kill-switch changes by another client
    NoPlan      \* a model value: a prompt without a plan, no receipt

ConsoleAssumption ==
    /\ Modes \subseteq {"paper", "testnet", "live"}
    /\ IsFiniteSet(PlanIds) /\ Held \cap PlanIds = {} /\ NoPlan \notin Held \cup PlanIds
    /\ MaxPosts \in Nat

VARIABLES
    mode,    \* the engine's mode, fixed for its life
    eng,     \* the engine: kill, halted, open positions, plans, and whether its
             \* smallest edge is below zero
    shown,   \* the status and positions on screen
    mock,    \* the page shows the bundled mock
    ui,      \* the console's own state
    net,     \* POSTs in flight
    posts,   \* POSTs so far, and changes by another client (bounded)
    runs,    \* history: executions per plan, closings per position
    stopped, \* history: positions the stop monitor closed under a stress scenario
    agreed,  \* history: plans whose Execute was clicked with the box ticked
    wish     \* history: the kill-switch setting last asked for, and whether
             \* contrary presses of this button were ever in flight together

vars == <<mode, eng, shown, mock, ui, net, posts, runs, stopped, agreed, wish>>

NoResult == [plan |-> NoPlan, approved |-> FALSE]
Scenarios == {"basis_shock", "equity_shock", "stress_reset"}
Kinds    == {"prompt", "execute", "kill", "unwind", "reset_halt", "min_edge"} \cup Scenarios

Shown(e, m) == [kill |-> e.kill, halted |-> e.halted, open |-> e.open, mode |-> m]
\* The bundled snapshot; the position in it is none of the engine's.
MockShown   == [kill |-> FALSE, halted |-> FALSE, open |-> {}, mode |-> "paper"]

TypeOK ==
    /\ mode \in Modes
    /\ eng.kill \in BOOLEAN /\ eng.halted \in BOOLEAN /\ eng.stress \in BOOLEAN
    /\ eng.loss \in BOOLEAN
    /\ eng.open \subseteq Held \cup PlanIds
    /\ eng.plans \in [PlanIds -> {"none", "vetoed", "pending", "consumed"}]
    /\ shown.mode \in Modes \cup {"paper"}
    /\ mock => shown = MockShown
    /\ ui.busy \in {"no", "prompt", "execute"}
    /\ ui.result.plan \in PlanIds \cup {NoPlan} /\ ui.result.approved \in BOOLEAN
    /\ ui.receipt \in PlanIds \cup {NoPlan}
    /\ ui.unwinding \in Held \cup PlanIds \cup {NoPlan}
    /\ {ui.confirm, ui.stressing, ui.resetting} \subseteq BOOLEAN
    /\ \A p \in net : p.kind \in Kinds /\ p.answer \in {"none", "ok", "error"}
    /\ posts \in 0..MaxPosts
    /\ runs \in [Held \cup PlanIds -> Nat]
    /\ stopped \subseteq Held \cup PlanIds /\ agreed \subseteq PlanIds

FreshUi == [busy |-> "no", result |-> NoResult, receipt |-> NoPlan, confirm |-> FALSE,
            stressing |-> FALSE, unwinding |-> NoPlan, resetting |-> FALSE]

\* A fresh engine with its positions, or one that came up halted and flat.
InitIn(m, halted) ==
    /\ mode = m
    /\ eng = [kill |-> FALSE, halted |-> halted, stress |-> FALSE, loss |-> FALSE,
              open |-> IF halted THEN {} ELSE Held,
              plans |-> [p \in PlanIds |-> "none"]]
    /\ shown = Shown(eng, m) /\ mock = FALSE
    /\ ui = FreshUi
    /\ net = {} /\ posts = 0
    /\ runs = [x \in Held \cup PlanIds |-> 0] /\ stopped = {}
    /\ agreed = {}
    /\ wish = [kill |-> FALSE, clean |-> TRUE]

Init == \E m \in Modes, halted \in BOOLEAN : InitIn(m, halted)

-----------------------------------------------------------------------------
(* The page around the console. *)

\* Mutant: a live snapshot leaves the mock flag standing.
Render_KeepsFlag ==
    /\ shown' = Shown(eng, mode)
    /\ UNCHANGED <<mode, eng, mock, ui, net, posts, runs, stopped, agreed, wish>>

Render ==
    /\ shown' = Shown(eng, mode)
    /\ mock' = FALSE
    /\ UNCHANGED <<mode, eng, ui, net, posts, runs, stopped, agreed, wish>>

\* The backend fell silent and the page swapped in the bundled snapshot; the
\* console stays mounted and keeps its result.
ShowMock ==
    /\ ~mock
    /\ mock' = TRUE /\ shown' = MockShown
    /\ UNCHANGED <<mode, eng, ui, net, posts, runs, stopped, agreed, wish>>

OtherKill ==
    /\ posts < MaxPosts
    /\ posts' = posts + 1
    /\ eng' = [eng EXCEPT !.kill = ~@]
    /\ wish' = IF \E p \in net : p.kind = "kill" /\ p.answer = "none" THEN wish
               ELSE [wish EXCEPT !.kill = ~eng.kill]
    /\ UNCHANGED <<mode, shown, mock, ui, net, runs, stopped, agreed>>

-----------------------------------------------------------------------------
(* The buttons. *)

\* The first number that no POST of its kind in flight has.
Free(kind, i) ==
    LET used == {p.id : p \in {q \in net : q.kind = kind}} IN i \notin used /\ 0..i - 1 \subseteq used

Post(kind, arg, flag) ==
    /\ posts < MaxPosts
    /\ posts' = posts + 1
    /\ \E i \in 0..posts :
        /\ Free(kind, i)
        /\ net' = net \cup {[id |-> i, kind |-> kind, arg |-> arg, flag |-> flag,
                             answer |-> "none", result |-> NoResult]}

Testnet == shown.mode = "testnet"

\* The old result stays on screen until the new one is here.
Send ==
    /\ ~mock /\ ui.busy = "no"
    /\ Post("prompt", NoPlan, FALSE)
    /\ ui' = [ui EXCEPT !.busy = "prompt", !.receipt = NoPlan]
    /\ UNCHANGED <<mode, eng, shown, mock, runs, stopped, agreed, wish>>

\* Mutant: the confirmation is always sent.
Execute_AlwaysConfirms ==
    /\ ui.result.plan # NoPlan /\ ui.result.approved
    /\ ui.busy = "no" /\ ui.receipt = NoPlan
    /\ Testnet => ui.confirm
    /\ Post("execute", ui.result.plan, TRUE)
    /\ ui' = [ui EXCEPT !.busy = "execute"]
    /\ agreed' = IF ui.confirm THEN agreed \cup {ui.result.plan} ELSE agreed
    /\ UNCHANGED <<mode, eng, shown, mock, runs, stopped, wish>>

\* The only button the mock does not disable; the box is only sent on testnet.
Execute ==
    /\ ui.result.plan # NoPlan /\ ui.result.approved
    /\ ui.busy = "no" /\ ui.receipt = NoPlan
    /\ Testnet => ui.confirm
    /\ Post("execute", ui.result.plan, Testnet /\ ui.confirm)
    /\ ui' = [ui EXCEPT !.busy = "execute"]
    /\ agreed' = IF ui.confirm THEN agreed \cup {ui.result.plan} ELSE agreed
    /\ UNCHANGED <<mode, eng, shown, mock, runs, stopped, wish>>

TickConfirm ==
    /\ Testnet /\ ui.result.plan # NoPlan /\ ui.result.approved
    /\ ui' = [ui EXCEPT !.confirm = ~@]
    /\ UNCHANGED <<mode, eng, shown, mock, net, posts, runs, stopped, agreed, wish>>

\* The value sent is absolute: the opposite of what the button shows.
Kill ==
    /\ ~mock
    /\ Post("kill", NoPlan, ~shown.kill)
    /\ wish' = [kill |-> ~shown.kill,
                clean |-> wish.clean /\ \A p \in net : p.kind = "kill" => p.flag = ~shown.kill]
    /\ UNCHANGED <<mode, eng, shown, mock, ui, runs, stopped, agreed>>

\* The slider goes below zero unless the page shows testnet, whose floor is the
\* measured round trip.
CommitMinEdge(below) ==
    /\ ~mock /\ (below => ~Testnet)
    /\ Post("min_edge", NoPlan, below)
    /\ UNCHANGED <<mode, eng, shown, mock, ui, runs, stopped, agreed, wish>>

RunStress(scenario) ==
    /\ ~mock /\ ~ui.stressing
    /\ Post(scenario, NoPlan, FALSE)
    /\ ui' = [ui EXCEPT !.stressing = TRUE]
    /\ UNCHANGED <<mode, eng, shown, mock, runs, stopped, agreed, wish>>

\* One busy id for the whole table: a click on another row frees this one's.
Unwind(x) ==
    /\ ~mock /\ x \in shown.open /\ ui.unwinding # x
    /\ Post("unwind", x, Testnet)
    /\ ui' = [ui EXCEPT !.unwinding = x]
    /\ UNCHANGED <<mode, eng, shown, mock, runs, stopped, agreed, wish>>

ResetHalt ==
    /\ ~mock /\ shown.halted /\ ~ui.resetting
    /\ Post("reset_halt", NoPlan, FALSE)
    /\ ui' = [ui EXCEPT !.resetting = TRUE]
    /\ UNCHANGED <<mode, eng, shown, mock, runs, stopped, agreed, wish>>

-----------------------------------------------------------------------------
(* The engine handles a POST. *)

RealOrders == mode # "paper"

Answered(p, a) == net' = (net \ {p}) \cup {[p EXCEPT !.answer = a]}
Refuses(p)     == Answered(p, "error") /\ UNCHANGED <<eng, runs>>
Ran(x)         == runs' = [runs EXCEPT ![x] = @ + 1]

Unused == {x \in PlanIds : eng.plans[x] = "none"}

\* A prompt may make a new plan, approved or vetoed by the pre-check; it executes
\* nothing and changes no switch, whatever it says.
HandlePrompt(p) ==
    /\ p.kind = "prompt"
    /\ \/ /\ Unused # {}
          /\ \E ok \in BOOLEAN : LET x == CHOOSE y \in Unused : TRUE IN
               /\ eng' = [eng EXCEPT !.plans[x] = IF ok THEN "pending" ELSE "vetoed"]
               /\ net' = (net \ {p}) \cup {[p EXCEPT !.answer = "ok",
                                            !.result = [plan |-> x, approved |-> ok]]}
       \/ Answered(p, "ok") /\ UNCHANGED eng
    /\ UNCHANGED runs

\* Mutant: a plan that ran can run again.
HandleExecute_KeepsPlan(p) ==
    /\ p.kind = "execute"
    /\ IF eng.plans[p.arg] # "pending" \/ (RealOrders /\ ~p.flag)
       THEN Refuses(p)
       ELSE /\ Answered(p, "ok")
            /\ IF eng.kill \/ eng.halted
               THEN UNCHANGED <<eng, runs>>
               ELSE eng' = [eng EXCEPT !.open = @ \cup {p.arg}] /\ Ran(p.arg)

\* A plan runs at most once.  With real orders the confirmation is required,
\* and its absence keeps the plan.  A gate that closed since answers with a
\* receipt too, and opens nothing.
HandleExecute(p) ==
    /\ p.kind = "execute"
    /\ IF eng.plans[p.arg] # "pending" \/ (RealOrders /\ ~p.flag)
       THEN Refuses(p)
       ELSE /\ Answered(p, "ok")
            /\ IF eng.kill \/ eng.halted
               THEN eng' = [eng EXCEPT !.plans[p.arg] = "consumed"] /\ UNCHANGED runs
               ELSE /\ eng' = [eng EXCEPT !.plans[p.arg] = "consumed", !.open = @ \cup {p.arg}]
                    /\ Ran(p.arg)

\* Mutant: the switch is toggled.
HandleKill_Toggles(p) ==
    /\ p.kind = "kill"
    /\ eng' = [eng EXCEPT !.kill = ~@]
    /\ Answered(p, "ok")
    /\ UNCHANGED runs

HandleKill(p) ==
    /\ p.kind = "kill"
    /\ eng' = [eng EXCEPT !.kill = p.flag]
    /\ Answered(p, "ok")
    /\ UNCHANGED runs

\* Any value is answered ok; with real orders it is raised to zero.
HandleMinEdge(p) ==
    /\ p.kind = "min_edge"
    /\ eng' = [eng EXCEPT !.loss = p.flag /\ ~RealOrders]
    /\ Answered(p, "ok")
    /\ UNCHANGED runs

\* A shock is refused while an execution is in flight; on testnet an equity
\* shock is always, a basis shock while a position is open.  One that is taken
\* runs the stop monitor once, which unwinds, with its own confirmation, what is
\* breached.
HandleStress(p) ==
    \/ /\ p.kind = "stress_reset"
       /\ eng' = [eng EXCEPT !.stress = FALSE]
       /\ Answered(p, "ok") /\ UNCHANGED <<runs, stopped>>
    \/ /\ p.kind \in {"equity_shock", "basis_shock"}
       /\ Refuses(p) /\ UNCHANGED stopped
    \/ /\ p.kind \in {"equity_shock", "basis_shock"}
       /\ mode = "testnet" => p.kind = "basis_shock" /\ eng.open = {}
       /\ \E breached \in {{}, eng.open} :
            /\ eng' = [eng EXCEPT !.stress = TRUE, !.halted = @ \/ p.kind = "equity_shock",
                                  !.open = @ \ breached]
            /\ runs' = [x \in DOMAIN runs |->
                           IF x \in breached \cap Held THEN runs[x] + 1 ELSE runs[x]]
            /\ stopped' = stopped \cup breached
            /\ Answered(p, "ok")

HandleUnwind(p) ==
    /\ p.kind = "unwind"
    /\ IF p.arg \notin eng.open \/ (RealOrders /\ ~p.flag)
       THEN Refuses(p)
       ELSE /\ eng' = [eng EXCEPT !.open = @ \ {p.arg}]
            /\ IF p.arg \in Held THEN Ran(p.arg) ELSE UNCHANGED runs
            /\ Answered(p, "ok")

\* A halt clears only on a flat book (and once the simulated loss is gone).
HandleResetHalt(p) ==
    /\ p.kind = "reset_halt"
    /\ IF eng.halted /\ (eng.open # {} \/ eng.stress)
       THEN Refuses(p)
       ELSE eng' = [eng EXCEPT !.halted = FALSE] /\ Answered(p, "ok") /\ UNCHANGED runs

Handle(p) ==
    /\ p.answer = "none"
    /\ \/ HandleStress(p)
       \/ UNCHANGED stopped /\ \/ HandlePrompt(p) \/ HandleExecute(p) \/ HandleKill(p)
                               \/ HandleUnwind(p) \/ HandleResetHalt(p) \/ HandleMinEdge(p)
    /\ UNCHANGED <<mode, shown, mock, ui, posts, agreed, wish>>

-----------------------------------------------------------------------------
(* A POST settles: its answer, or an error wherever it got lost. *)

\* What the handler does before its finally.
OnAnswer(p, u) ==
    CASE p.kind = "prompt"  -> [u EXCEPT !.result = p.result]
      [] p.kind = "execute" -> [u EXCEPT !.receipt = p.arg]
      [] OTHER              -> u

Finally(p, u) ==
    CASE p.kind \in {"prompt", "execute"} -> [u EXCEPT !.busy = "no"]
      [] p.kind \in Scenarios             -> [u EXCEPT !.stressing = FALSE]
      [] p.kind = "unwind"                -> [u EXCEPT !.unwinding = NoPlan]
      [] p.kind = "reset_halt"            -> [u EXCEPT !.resetting = FALSE]
      [] OTHER                            -> u

Settle(p) ==
    /\ p.answer # "none"
    /\ net' = net \ {p}
    /\ ui' = Finally(p, IF p.answer = "ok" THEN OnAnswer(p, ui) ELSE ui)
    /\ UNCHANGED <<mode, eng, shown, mock, posts, runs, stopped, agreed, wish>>

\* Mutant: what a handler does when its POST throws skips the reset.
Lose_LeavesBusy(p) ==
    /\ net' = net \ {p}
    /\ wish' = IF p.kind = "kill" /\ p.answer = "none" THEN [wish EXCEPT !.clean = FALSE] ELSE wish
    /\ UNCHANGED <<mode, eng, shown, mock, ui, posts, runs, stopped, agreed>>

\* The request or its answer is lost; an engine that acted has acted.
Lose(p) ==
    /\ net' = net \ {p}
    /\ ui' = Finally(p, ui)
    /\ wish' = IF p.kind = "kill" /\ p.answer = "none" THEN [wish EXCEPT !.clean = FALSE] ELSE wish
    /\ UNCHANGED <<mode, eng, shown, mock, posts, runs, stopped, agreed>>

Next ==
    \/ Render \/ ShowMock \/ OtherKill
    \/ Send \/ Execute \/ TickConfirm \/ Kill \/ ResetHalt
    \/ \E below \in BOOLEAN : CommitMinEdge(below)
    \/ \E k \in Scenarios : RunStress(k)
    \/ \E x \in shown.open : Unwind(x)
    \/ \E p \in net : Handle(p) \/ Settle(p) \/ Lose(p)

\* A fetch settles: the engine answers it or the browser gives it up.  There are
\* at most MaxPosts of them, so that if some one always settles, all do.
Fairness == WF_vars(\E p \in net : Settle(p) \/ Lose(p))

Spec == Init /\ [][Next]_vars /\ Fairness

-----------------------------------------------------------------------------
(* Properties. *)

\* No real order without its confirmation: on testnet a plan only runs after
\* its Execute was clicked with the box ticked - also when the page had
\* meanwhile swapped in the mock, which shows a paper engine and no box - and
\* from this console a live engine opens nothing, and closes only what its own
\* stop monitor closes.  Nor does the slider make an engine with real orders
\* accept a loss, though on live it offers to.
NoUnconfirmedOrder ==
    /\ mode = "testnet" => \A p \in PlanIds : runs[p] > 0 => p \in agreed
    /\ mode = "live" => \A x \in DOMAIN runs : runs[x] > 0 => x \in Held \cap stopped
    /\ RealOrders => ~eng.loss

\* Whatever was lost, clicked again or re-enabled: a plan opens once, a
\* position closes once, and the receipt on screen is that of the plan on
\* screen.
OnceEach ==
    /\ \A x \in DOMAIN runs : runs[x] <= 1
    /\ ui.receipt # NoPlan => ui.receipt = ui.result.plan

\* Unless contrary presses overlapped or one was lost, the switch ends where
\* it was last asked to be, however old the state the button showed.
KillFollowsPress ==
    wish.clean /\ (\A p \in net : p.kind = "kill" => p.answer # "none") => eng.kill = wish.kill

\* No control stays disabled for ever.
ControlsComeBack ==
    <>[](ui.busy = "no" /\ ~ui.stressing /\ ~ui.resetting /\ ui.unwinding = NoPlan)
=============================================================================

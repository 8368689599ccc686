------------------------------- MODULE Panels -------------------------------
(***************************************************************************)
(* The panels that tell what was traded: the trade trace                   *)
(* (ui/components/TradeTrace.tsx) and the positions table                  *)
(* (ui/components/PositionsTable.tsx).  They only see the last snapshot,   *)
(* whose lists are bounded and die with the engine's process, while open   *)
(* positions survive it.                                                   *)
(*                                                                         *)
(* A plan is named by the time it was made at; the times of prompts and    *)
(* receipts are the engine's clock.  A run takes a plan and awaits its     *)
(* legs; the receipt comes at its end, and snapshots do not wait for it.   *)
(***************************************************************************)
EXTENDS Naturals, Sequences, FiniteSets, SequencesExt

CONSTANTS
    Modes,       \* the modes the engine may run in
    MaxReceipts, \* RECEIPTS_MAXLEN
    MaxPrompts,  \* PROMPTS_MAXLEN
    MaxClock     \* bound: things the engine does

PanelsAssumption ==
    /\ Modes \subseteq {"paper", "testnet", "live"}
    /\ MaxReceipts \in Nat \ {0} /\ MaxPrompts \in Nat \ {0} /\ MaxClock \in Nat

VARIABLES
    clock,       \* the engine's clock
    lists,       \* the engine's receipts, prompts, open positions
    pending,     \* plans of prompts, not yet executed
    run,         \* the plan the executor runs, and the position it closes if any
    executed,    \* the plans this process has taken for execution
    unreported,  \* those whose run has not ended with a receipt
    seen,        \* page: the snapshot on screen, and what was executed by then
    selected     \* page: the selected trace

pvars == <<clock, lists, pending, run, executed, unreported, seen, selected>>

None     == 0
NoRun    == [plan |-> None, closes |-> None]
NoItem   == [plan |-> None, at |-> 0]
Times    == 0..MaxClock
Legs     == {"dex", "perp"}

\* What the router of an engine in a mode, fixed for its life, reports as the
\* source of a fill: the perp leg is real outside paper, the DEX leg only in live.
Filled(mode, leg) ==
    CASE leg = "perp" /\ mode = "live"    -> "binance-futures-mainnet"
      [] leg = "perp" /\ mode = "testnet" -> "binance-futures-testnet"
      [] leg = "dex" /\ mode = "live"     -> "binance-agentic-wallet"
      [] OTHER                            -> "paper"

TypeOK ==
    /\ clock \in Times
    /\ Len(lists.receipts) <= MaxReceipts /\ Len(lists.prompts) <= MaxPrompts
    /\ \A i \in DOMAIN lists.receipts :
        /\ lists.receipts[i].plan \in Times /\ lists.receipts[i].at \in Times
        /\ lists.receipts[i].fills \subseteq Legs
    /\ \A i \in DOMAIN lists.prompts : lists.prompts[i].plan \in Times
    /\ lists.open \subseteq Times /\ pending \subseteq Times /\ executed \subseteq Times
    /\ run.closes \in Times /\ run.plan \in unreported \cup {None}
    /\ unreported \subseteq executed
    /\ seen.unreported \subseteq seen.executed
    /\ selected.kind \in {"latest", "plan", "receipt"}

Latest == [kind |-> "latest", id |-> None]

Init ==
    /\ clock = 0
    /\ lists = [receipts |-> <<>>, prompts |-> <<>>, open |-> {}]
    /\ pending = {} /\ executed = {} /\ unreported = {} /\ run = NoRun
    /\ seen = [lists |-> lists, executed |-> {}, unreported |-> {}]
    /\ selected = Latest

-----------------------------------------------------------------------------
(* The engine. *)

\* A deque with a maximal length drops its oldest entry.
Put(s, x, max) == LET t == Append(s, x) IN IF Len(t) > max THEN Tail(t) ELSE t

Tick == clock < MaxClock /\ clock' = clock + 1

\* A receipt holds a fill for each leg that has one.
Receipt(plan, fills) == [plan |-> plan, at |-> clock', fills |-> fills]

\* A prompt never executes; it may make a plan.
Prompt ==
    /\ Tick
    /\ \E plan \in {None, clock'} :
        /\ lists' = [lists EXCEPT !.prompts = Put(@, [plan |-> plan, at |-> clock'], MaxPrompts)]
        /\ pending' = pending \cup ({plan} \ {None})
    /\ UNCHANGED <<run, executed, unreported, seen, selected>>

\* Under the executor's lock: a run takes its plan.
Take(plan, x) ==
    /\ run = NoRun
    /\ run' = [plan |-> plan, closes |-> x]
    /\ executed' = executed \cup {plan}
    /\ unreported' = unreported \cup {plan}

Begin ==
    /\ \E plan \in pending : Take(plan, None) /\ pending' = pending \ {plan}
    /\ UNCHANGED <<clock, lists, seen, selected>>

\* A plan without a prompt, which no panel sees any earlier: an unwind, or an
\* entry that the opener or an MCP client proposed.  At most, a receipt has
\* named it that refused it for want of its confirmation.
BeginUnprompted ==
    /\ Tick
    /\ \/ \E x \in lists.open \cup {None} : Take(clock', x)
       \/ \E r \in Range(lists.receipts) :
            r.at = r.plan /\ r.plan \notin executed /\ Take(r.plan, None)
    /\ UNCHANGED <<lists, pending, seen, selected>>

\* The open positions a run may end with: as they were, with its own, without
\* the one it closes.
Ends == IF run.closes = None THEN {lists.open, lists.open \cup {run.plan}}
        ELSE {lists.open, lists.open \ {run.closes}}

\* Vetoed by the gate, failed on a leg, or filled: a run ends with its receipt.
Finish ==
    /\ Tick
    /\ run # NoRun
    /\ \E fills \in SUBSET Legs, open \in Ends :
        /\ open # lists.open => fills # {}
        /\ lists' = [lists EXCEPT
               !.receipts = Put(@, Receipt(run.plan, fills), MaxReceipts),
               !.open = open]
    /\ unreported' = unreported \ {run.plan}
    /\ run' = NoRun
    /\ UNCHANGED <<pending, executed, seen, selected>>

\* Unless it is cancelled, or the gate cannot write its file: no receipt then.
Break ==
    /\ Tick
    /\ run # NoRun
    /\ \E open \in Ends : lists' = [lists EXCEPT !.open = open]
    /\ run' = NoRun
    /\ UNCHANGED <<pending, executed, unreported, seen, selected>>

\* A receipt that nothing ran for: the plan lacks its confirmation, and is kept;
\* it expired, and never begins; it ran before; or nobody knows it.
Refused ==
    /\ Tick
    /\ run = NoRun
    /\ \E plan \in pending \cup executed \cup lists.open \cup {clock'} :
        lists' = [lists EXCEPT !.receipts = Put(@, Receipt(plan, {}), MaxReceipts)]
    /\ UNCHANGED <<pending, run, executed, unreported, seen, selected>>

\* A new process: only positions come back, those the book's file holds.
Restart ==
    /\ Tick
    /\ \E open \in SUBSET lists.open :
        lists' = [receipts |-> <<>>, prompts |-> <<>>, open |-> open]
    /\ pending' = {} /\ executed' = {} /\ unreported' = {} /\ run' = NoRun
    /\ UNCHANGED <<seen, selected>>

-----------------------------------------------------------------------------
(* The page. *)

Snapshot ==
    /\ seen' = [lists |-> lists, executed |-> executed, unreported |-> unreported]
    /\ seen' # seen
    /\ UNCHANGED <<clock, lists, pending, run, executed, unreported, selected>>

Receipts == seen.lists.receipts
Prompts  == seen.lists.prompts

\* The list of traces.  What the console selects from an answer, the plan of a
\* prompt or the receipt of a run, is one of them once a snapshot has it, and
\* shows the latest until then.
Traces ==
    {[kind |-> "receipt", id |-> Receipts[i].at] : i \in DOMAIN Receipts}
    \cup {[kind |-> "plan", id |-> Prompts[i].plan] :
              i \in {j \in DOMAIN Prompts : Prompts[j].plan # None}}

SelectTrace ==
    /\ selected' \in (Traces \cup {Latest}) \ {selected}
    /\ UNCHANGED <<clock, lists, pending, run, executed, unreported, seen>>

Next ==
    \/ Prompt
    \/ Begin \/ BeginUnprompted \/ Finish \/ Break \/ Refused
    \/ Restart
    \/ Snapshot \/ SelectTrace

Spec == Init /\ [][Next]_pvars

-----------------------------------------------------------------------------
(* What the panels show. *)

\* Sorted by time, newest first.
Newest(S) == IF S = {} THEN NoItem ELSE CHOOSE x \in S : \A y \in S : y.at <= x.at

Matches(r) == IF selected.kind = "plan" THEN r.plan = selected.id ELSE r.at = selected.id

ReceiptView(r) == [view |-> "receipt", plan |-> r.plan, at |-> r.at]
PromptView(p)  == [view |-> "prompt", plan |-> p.plan, at |-> p.at]

LatestTrace ==
    LET r == Newest(Range(Receipts)) p == Newest(Range(Prompts)) IN
    IF r # NoItem /\ ~(p # NoItem /\ p.at > r.at) THEN ReceiptView(r)
    ELSE IF p # NoItem THEN PromptView(p)
    ELSE [view |-> "empty", plan |-> None, at |-> 0]

\* Mutant: the prompt of a selected plan hides its receipt.
Pick_PromptFirst ==
    LET rs == {r \in Range(Receipts) : Matches(r)}
        ps == {p \in Range(Prompts) : p.plan = selected.id}
    IN  IF selected.kind = "plan" /\ ps # {} THEN PromptView(Newest(ps))
        ELSE IF selected # Latest /\ rs # {} THEN ReceiptView(Newest(rs))
        ELSE LatestTrace

\* The selected one while the snapshot holds it, as its receipt if it has one;
\* else the latest.
Pick ==
    LET rs == {r \in Range(Receipts) : Matches(r)}
        ps == {p \in Range(Prompts) : p.plan = selected.id}
    IN  IF selected # Latest /\ rs # {} THEN ReceiptView(Newest(rs))
        ELSE IF selected.kind = "plan" /\ ps # {} THEN PromptView(Newest(ps))
        ELSE LatestTrace

\* Mutant: without a receipt a fill is taken for paper.
Fallback_Paper(mode, leg) == "paper"

\* What the page takes an unreported leg for, from the mode of the snapshot.
Fallback(mode, leg) ==
    CASE mode = "live"    -> IF leg = "dex" THEN "binance-agentic-wallet" ELSE "binance-futures-mainnet"
      [] mode = "testnet" -> IF leg = "dex" THEN "paper" ELSE "binance-futures-testnet"
      [] OTHER            -> "paper"

\* By the first receipt of the plan, if it has a fill of the leg.
FillSource(mode, x, leg) ==
    LET of == {i \in DOMAIN Receipts : Receipts[i].plan = x}
    IN  IF of # {} /\ leg \in Receipts[Min(of)].fills THEN Filled(mode, leg) ELSE Fallback(mode, leg)

-----------------------------------------------------------------------------
(* Properties. *)

\* A prompt on screen says "not executed" (TradeTrace.tsx).  When the snapshot
\* was taken that was true, but for three cases: the executor was still at the
\* plan; its run broke off without a receipt; or the user holds on to a plan
\* whose receipt newer receipts have since pushed out of the list.
NotExecutedIsTrue ==
    Pick.view = "prompt" /\ Pick.plan \in seen.executed
        => \/ Pick.plan \in seen.unreported
           \/ /\ selected = [kind |-> "plan", id |-> Pick.plan]
              /\ Len(Receipts) = MaxReceipts
              /\ \A i \in DOMAIN Receipts : Receipts[i].at > Pick.at

\* The fills of an open position are badged with what filled them: a real leg
\* never "paper", a simulated one never real, whether the receipt that opened it
\* is still in the snapshot, was pushed out, or died with the process.  The
\* comment at PositionsTable.tsx:39 says of the DEX leg that it is tagged
\* "paper" in every mode; the live router tags it with the wallet.
RealFillNotPaper ==
    \A mode \in Modes, x \in seen.lists.open :
        /\ FillSource(mode, x, "perp") = "paper" <=> mode = "paper"
        /\ FillSource(mode, x, "dex") = "paper" <=> mode # "live"
=============================================================================

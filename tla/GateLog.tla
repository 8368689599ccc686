------------------------------ MODULE GateLog ------------------------------
(***************************************************************************)
(* The risk gate's verdicts and the panel that explains them:              *)
(* BinanceRiskGate.evaluate(explain=True) (risk_gate.py) with its list of  *)
(* checks, the engine's bounded list of decisions, and                     *)
(* ui/components/RiskGateLog.tsx, which lays the checks of one decision    *)
(* out along the published CHECK_ORDER.                                    *)
(*                                                                         *)
(* The code says each condition twice, in the CheckResult it appends and   *)
(* in the if that vetoes, and the order twice, in CHECK_ORDER and in the   *)
(* order of its statements; so does this module.  A proposal is the set of *)
(* the checks its data would fail.                                         *)
(***************************************************************************)
EXTENDS Naturals, Sequences, FiniteSets, SequencesExt

CONSTANTS
    Faults,       \* checks a proposal's data may fail
    MaxDecisions, \* DECISIONS_MAXLEN
    MaxMade       \* bound: decisions made

GateLogAssumption == MaxDecisions \in Nat \ {0} /\ MaxMade \in Nat

VARIABLES
    gate,      \* what closes the gate, of "kill" and "halted"
    made,      \* decisions so far (bounded)
    decisions, \* the engine's deque of decisions, as in the last snapshot
    picked     \* panel: the decision picked from the history, 0 if none

gvars == <<gate, made, decisions, picked>>

GateStates == SUBSET {"kill", "halted"}

CheckOrder ==
    <<"KILL_SWITCH", "HALTED_DRAWDOWN", "MALFORMED", "REDUCE_ONLY_UNVERIFIED",
      "NOT_DELTA_NEUTRAL", "HEDGE_MISMATCH", "LEVERAGE", "MIN_NOTIONAL", "MAX_NOTIONAL",
      "CAPITAL_RISK", "AGGREGATE_RISK", "CAPITAL_CAPACITY", "AGGREGATE_NOTIONAL",
      "SYMBOL_NOT_ALLOWED", "MAX_POSITIONS", "STALE_QUOTE", "PRICE_SANITY",
      "PRICE_DRIFT", "NEGATIVE_EDGE">>

TypeOK ==
    /\ gate \in GateStates
    /\ made \in 0..MaxMade /\ picked \in 0..MaxMade
    /\ Len(decisions) <= MaxDecisions
    /\ \A i \in DOMAIN decisions :
        /\ decisions[i].id \in 1..made
        /\ \A c \in Range(decisions[i].checks) : c.name \in Range(CheckOrder) /\ c.passed \in BOOLEAN

Init == gate \in GateStates /\ made = 0 /\ decisions = <<>> /\ picked = 0

-----------------------------------------------------------------------------
(* The gate. *)

Proposals == [reduceOnly : BOOLEAN, registered : BOOLEAN, fails : SUBSET Faults]

Malformed(p) == "MALFORMED" \in p.fails

\* A reduce-only proposal that reverses, within its size, a registered position.
Verified(p) == p.reduceOnly /\ ~Malformed(p) /\ p.registered

\* The order of evaluate's statements.
Pipeline ==
    <<"KILL_SWITCH", "HALTED_DRAWDOWN", "MALFORMED", "REDUCE_ONLY_UNVERIFIED",
      "NOT_DELTA_NEUTRAL", "HEDGE_MISMATCH", "LEVERAGE", "MIN_NOTIONAL", "MAX_NOTIONAL",
      "CAPITAL_RISK", "AGGREGATE_RISK", "CAPITAL_CAPACITY", "AGGREGATE_NOTIONAL",
      "SYMBOL_NOT_ALLOWED", "MAX_POSITIONS", "STALE_QUOTE", "PRICE_SANITY",
      "PRICE_DRIFT", "NEGATIVE_EDGE">>

\* The ifs that veto.
Vetoes(name, p) ==
    CASE name = "KILL_SWITCH"            -> "kill" \in gate /\ ~Verified(p)
      [] name = "HALTED_DRAWDOWN"        -> "halted" \in gate /\ ~Verified(p)
      [] name = "REDUCE_ONLY_UNVERIFIED" -> p.reduceOnly /\ ~Verified(p)
      [] OTHER                           -> name \in p.fails

\* Mutant: the list of checks forgets that an unwind passes the kill switch.
Passed_KillStopsAll(name, p) ==
    CASE name = "KILL_SWITCH"            -> "kill" \notin gate
      [] name = "HALTED_DRAWDOWN"        -> "halted" \notin gate \/ Verified(p)
      [] name = "REDUCE_ONLY_UNVERIFIED" -> ~p.reduceOnly \/ Verified(p)
      [] OTHER                           -> name \notin p.fails

\* The flags of the CheckResults.
Passed(name, p) ==
    CASE name = "KILL_SWITCH"            -> "kill" \notin gate \/ Verified(p)
      [] name = "HALTED_DRAWDOWN"        -> "halted" \notin gate \/ Verified(p)
      [] name = "REDUCE_ONLY_UNVERIFIED" -> ~p.reduceOnly \/ Verified(p)
      [] OTHER                           -> name \notin p.fails

\* A decision as the snapshot carries it.
Verdict(approved, code, checks, reduces) ==
    [id |-> made + 1, closed |-> gate # {}, approved |-> approved, code |-> code,
     checks |-> checks, reduces |-> reduces]

\* The checks run up to the first veto; a verified unwind is approved after the
\* fourth.
Explain(p) ==
    LET failing == {i \in DOMAIN Pipeline : Vetoes(Pipeline[i], p)}
        first   == CHOOSE i \in failing : \A j \in failing : i <= j
        last    == IF Verified(p) THEN 4 ELSE IF failing = {} THEN Len(Pipeline) ELSE first
        vetoed  == ~Verified(p) /\ failing # {}
    IN  Verdict(~vetoed, IF vetoed THEN Pipeline[first] ELSE "OK",
                [i \in 1..last |-> [name |-> Pipeline[i], passed |-> Passed(Pipeline[i], p)]],
                p.reduceOnly)

-----------------------------------------------------------------------------
(* Decisions are made and recorded. *)

Record(d) ==
    /\ made < MaxMade
    /\ made' = made + 1
    /\ LET all == Append(decisions, d) IN
       decisions' = IF Len(all) > MaxDecisions THEN Tail(all) ELSE all
    /\ UNCHANGED <<gate, picked>>

\* A pre-check, an execution or an unwind.
Decide == \E p \in Proposals : Record(Explain(p))

\* A refusal of the executor's own: an expired plan, no market, no cash.
Synthetic == Record(Verdict(FALSE, "OTHER", <<>>, FALSE))

\* The pre-flight of an on-chain swap asks the gate's state, not its checks; a
\* reducing swap skips the kill switch and the halt.
WalletDecision ==
    \E reducing, refused \in BOOLEAN :
        LET code == IF ~reducing /\ "kill" \in gate THEN "KILL_SWITCH"
                    ELSE IF ~reducing /\ "halted" \in gate THEN "HALTED_DRAWDOWN"
                    ELSE IF refused THEN "OTHER" ELSE "OK"
        IN  Record(Verdict(code = "OK", code, <<>>, reducing))

\* The operator's switch, the drawdown.
GateMoves ==
    /\ gate' \in GateStates \ {gate}
    /\ UNCHANGED <<made, decisions, picked>>

-----------------------------------------------------------------------------
(* The panel. *)

Find(id) == {i \in DOMAIN decisions : decisions[i].id = id}

NoDecision == [id |-> 0, checks |-> <<>>]

\* The picked decision while the snapshot holds it, else the newest.
ShownDecision ==
    IF Find(picked) # {} THEN decisions[CHOOSE i \in Find(picked) : TRUE]
    ELSE IF decisions = <<>> THEN NoDecision ELSE decisions[Len(decisions)]

\* A click on the one that is shown lets go of it.
PickDecision(id) ==
    /\ picked' = IF id = ShownDecision.id THEN 0 ELSE id
    /\ UNCHANGED <<gate, made, decisions>>

Row(name, d) ==
    LET cs == {c \in Range(d.checks) : c.name = name} IN
    IF cs = {} THEN "not reached" ELSE IF \A c \in cs : c.passed THEN "passed" ELSE "failed"

Next ==
    \/ Decide \/ Synthetic \/ WalletDecision \/ GateMoves
    \/ \E i \in DOMAIN decisions : PickDecision(decisions[i].id)

Spec == Init /\ [][Next]_gvars

-----------------------------------------------------------------------------
(* Properties. *)

\* The rows tell why: a veto of the gate shows one failed row, the one its code
\* names, with everything above passed and nothing below reached; an approved
\* new hedge shows every check passed, an approved unwind no failed one.  And
\* what was approved while the gate was closed only ever reduced a position.
RowsTellVerdict ==
    LET d == ShownDecision
        row == [i \in DOMAIN CheckOrder |-> Row(CheckOrder[i], d)]
    IN  d # NoDecision =>
        /\ d.approved /\ d.closed => d.reduces
        /\ d.checks # <<>> =>
            IF d.approved
            THEN \A i \in DOMAIN row : row[i] = "passed" \/ (d.reduces /\ row[i] = "not reached")
            ELSE \E i \in DOMAIN row :
                    /\ CheckOrder[i] = d.code /\ row[i] = "failed"
                    /\ \A j \in 1..(i - 1) : row[j] = "passed"
                    /\ \A j \in (i + 1)..Len(row) : row[j] = "not reached"
=============================================================================

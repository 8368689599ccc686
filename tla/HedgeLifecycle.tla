---------------------------- MODULE HedgeLifecycle ----------------------------
(* What the executor promises of a plan, whatever legs, venues and failures lie *)
(* underneath: it is proposed, runs at most once, is open or is done with, is   *)
(* unwound one attempt at a time, and no two runs overlap.                      *)
CONSTANT Plans

VARIABLES
    stage,   \* [Plans -> Stage]
    barred   \* new entries are barred: kill switch or drawdown halt

lifecycleVars == <<stage, barred>>

Stage == {"absent", "proposed", "vetting", "entering", "open", "closing", "done"}
Busy  == {"vetting", "entering", "closing"}

Init == stage = [p \in Plans |-> "absent"] /\ barred = FALSE

Quiet == \A p \in Plans : stage[p] \notin Busy

Moves(p, from, to) ==
    /\ stage[p] \in from
    /\ stage' = [stage EXCEPT ![p] = to]
    /\ UNCHANGED barred

Propose(p)   == Moves(p, {"absent"}, "proposed")
Discard(p)   == Moves(p, {"proposed"}, "done")
Begin(p)     == Quiet /\ Moves(p, {"proposed"}, "vetting")
Commit(p)    == ~barred /\ Moves(p, {"vetting"}, "entering")
BeginExit(p) == Quiet /\ Moves(p, {"open"}, "closing")

\* A run ends: an entry opens or comes to nothing, an exit closes or leaves the rest
\* open.  Ending a run may bar new entries, never lift the bar.
EndRun(p) ==
    /\ \/ stage[p] = "vetting" /\ stage' = [stage EXCEPT ![p] = "done"]
       \/ stage[p] \in {"entering", "closing"}
          /\ \E to \in {"open", "done"} : stage' = [stage EXCEPT ![p] = to]
    /\ barred' \in {barred, TRUE}

\* Operators, ticks and a failing leg set the bar; operators lift it.
Bar(on) == barred' = on /\ UNCHANGED stage

Next ==
    \/ \E p \in Plans : Propose(p) \/ Discard(p) \/ Begin(p) \/ Commit(p) \/ BeginExit(p) \/ EndRun(p)
    \/ \E on \in BOOLEAN : Bar(on)

Spec == Init /\ [][Next]_lifecycleVars

FairSpec == Spec /\ \A p \in Plans : WF_lifecycleVars(EndRun(p))
=============================================================================

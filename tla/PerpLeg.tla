------------------------------- MODULE PerpLeg -------------------------------
(* What a perp leg promises its caller, however many orders it takes.  It is   *)
(* what HedgeExecutor assumes of a call: a fill is exactly what the venue      *)
(* moved, a refusal means that nothing moved and nothing will, and only an     *)
(* unknown outcome leaves the venue free to move on.                           *)
EXTENDS Integers

CONSTANT Asked   \* lots the leg is for

VARIABLES
    moved,   \* lots the venue has filled for this leg
    answer   \* what the router told the executor

legVars == <<moved, answer>>

Pending == [err |-> "pending", qty |-> 0]
Refused == [err |-> "refused", qty |-> 0]
Unknown == [err |-> "unknown", qty |-> 0]
Fill(q) == [err |-> "none", qty |-> q]

Init == moved = 0 /\ answer = Pending

Move == /\ answer \in {Pending, Unknown}
        /\ moved' \in moved + 1 .. Asked
        /\ UNCHANGED answer

\* The last order may fill in the same exchange of messages.
Reply == /\ answer = Pending
         /\ moved' \in moved .. Asked
         /\ \/ moved' > 0 /\ answer' = Fill(moved')
            \/ moved' = 0 /\ answer' = Refused
            \/ answer' = Unknown

Safety == Init /\ [][Move \/ Reply]_legVars
Spec   == Safety /\ WF_legVars(Reply)
=============================================================================

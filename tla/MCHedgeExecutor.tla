--------------------------- MODULE MCHedgeExecutor ---------------------------
(* Instances of HedgeExecutor for TLC.  The .cfg files choose mode, leg order *)
(* and faults; plans and tasks are interchangeable.                          *)
EXTENDS HedgeExecutor, TLC

PlanAndTaskSymmetry == Permutations(Plans) \cup Permutations(Tasks)
=============================================================================

--------------------------- MODULE MCDurableState ---------------------------
(* Instances of DurableState for TLC; plans are interchangeable.             *)
EXTENDS DurableState, TLC

PlanSymmetry == Permutations(Plans)
=============================================================================

--------------------------- MODULE HedgeCashProofs ---------------------------
(* The money theorems of HedgeExecutor: what is reserved, what is free, what the *)
(* positions lock, and how many of them there may be.                            *)
(*                                                                               *)
(* Every step of the executor is first shown to be one of seven steps of a        *)
(* ledger (LedgerStep); each invariant is then an induction over the ledger.      *)
EXTENDS HedgeExecutorProofs

------------------------------------------------------------------------------
(* The runner, and whether it holds a reservation.                           *)

\* 1 while a run is between its reservation and the end of its entry.
Entering == {t \in Tasks : job[t].phase \in EntryLegs}
Held == IF Entering = {} THEN 0 ELSE 1

\* Only the runner moves: a step of t finds nobody else in a run and changes no other job.
LEMMA StepOnly ==
    ASSUME IInv, NEW t \in Tasks, Step(t)
    PROVE  /\ InFlight(t) /\ \A u \in Tasks : u # t => ~InFlight(u) /\ job'[u] = job[u]
           /\ job' \in [Tasks -> Job]
<1>1. InFlight(t)
    BY DEF Step, SendLeg, Commit, Veto, FirstLegFilled, FirstLegRefused, FirstLegUnknown,
           SecondLegFilled, SecondLegFailed, ResidualAnswered, Reversed, NotReversed,
           UnwindApproved, UnwindRefused, PerpClosed, PerpNotClosed, DexSold, DexNotSold,
           Reshorted, NotReshorted, Calling, Answered, InFlight, Legs, EntryLegs, UnwindLegs
<1>2. \A u \in Tasks : u # t => ~InFlight(u)
    BY <1>1 DEF IInv, LockInv
<1>3. \E new : job' = [job EXCEPT ![t] = new]
    BY DEF Step, SendLeg, Commit, Veto, FirstLegFilled, FirstLegRefused, FirstLegUnknown,
           SecondLegFilled, SecondLegFailed, ResidualAnswered, Reversed, NotReversed,
           UnwindApproved, UnwindRefused, PerpClosed, PerpNotClosed, DexSold, DexNotSold,
           Reshorted, NotReshorted, GoTo, Leave
<1>4. job' \in [Tasks -> Job]
    <2>1. Next
        BY DEF Next
    <2> QED
        BY <2>1, NextPreserves DEF IInv, TypeOK
<1> QED
    BY <1>1, <1>2, <1>3, <1>4 DEF IInv, TypeOK

\* What a step of t does to the reservation in flight shows in t's phase alone.
LEMMA HeldByRunner ==
    ASSUME IInv, NEW t \in Tasks, Step(t)
    PROVE  /\ Held  = IF job[t].phase \in EntryLegs THEN 1 ELSE 0
           /\ Held' = IF job'[t].phase \in EntryLegs THEN 1 ELSE 0
<1>1. \A u \in Tasks : u # t => job[u].phase \notin EntryLegs /\ job'[u].phase \notin EntryLegs
    BY StepOnly DEF InFlight, EntryLegs
<1>2. Entering = {} <=> job[t].phase \notin EntryLegs
    BY <1>1 DEF Entering
<1>3. Entering' = {} <=> job'[t].phase \notin EntryLegs
    BY <1>1 DEF Entering
<1> QED
    BY <1>2, <1>3 DEF Held

\* With the lock free nothing is held.
LEMMA HeldFree ==
    ASSUME IInv, lock = None
    PROVE  Held = 0
BY NoneAssumption DEF IInv, LockInv, InFlight, Held, Entering, EntryLegs

------------------------------------------------------------------------------
(* The DEX leg of an unwind.                                                 *)

\* With no perp bought back the perp leg is gone; and a sell is filled whole or not at all.
SoldOK(t) ==
    job[t].phase = "u_dex" =>
        /\ job[t].fill1 = 0 => Pos(t).perp = 0
        /\ job[t].sent /\ Filled(t) => job[t].reply.qty = LegOf(t).qty

SoldInv == \A t \in Tasks : SoldOK(t)

\* A venue that sells fills the whole amount or nothing.
LEMMA SellIsWhole ==
    ASSUME TypeOK, NEW leg, leg.venue = "dex", leg.side = "close", leg.qty \in Qty,
           NEW o \in Outcomes(leg), o.reply.err = "none"
    PROVE  o.reply.qty = leg.qty
<1>1. Fillable(leg) = 0 \/ Fillable(leg) = leg.qty
    BY DEF Fillable
<1>2. \A q \in FillSizes(leg) : q = Fillable(leg) /\ q # 0
    BY DEF FillSizes
<1>3. \E q \in FillSizes(leg) : o = [moved |-> q, reply |-> [err |-> "none", qty |-> q]]
    BY DEF Outcomes
<1> QED
    BY <1>1, <1>2, <1>3

\* Only UnwindApproved and PerpClosed go on to the DEX leg, and only SendLeg answers it.
LEMMA SoldPreserved ==
    ASSUME IInv, SoldInv, [Next]_vars
    PROVE  SoldInv'
<1> SUFFICES ASSUME NEW u \in Tasks, job'[u].phase = "u_dex" PROVE SoldOK(u)'
    BY DEF SoldInv, SoldOK
<1>0. TypeOK
    BY DEF IInv
<1>1. CASE job'[u] = job[u] /\ book' = book
    <2>1. SoldOK(u)
        BY DEF SoldInv
    <2>2. Pos(u)' = Pos(u)
        BY <1>1 DEF Pos
    <2>3. LegOf(u)' = LegOf(u)
        BY <1>1, <2>2 DEF LegOf
    <2> QED
        BY <1>1, <2>1, <2>2, <2>3 DEF SoldOK, Filled
<1>2. ASSUME NEW t \in Tasks, Step(t) PROVE SoldOK(u)'
    <2>1. u = t
        BY <1>2, StepOnly DEF InFlight
    <2>2. CASE SendLeg(t)
        <3> DEFINE leg == LegOf(t)
        <3>1. PICK o \in Outcomes(leg) :
                  job' = [job EXCEPT ![t] = [job[t] EXCEPT !.sent = TRUE, !.reply = o.reply]]
            BY <2>2 DEF SendLeg
        <3>2. job[t] \in Job
            BY <1>0 DEF TypeOK
        <3>3. /\ job'[t].phase = job[t].phase /\ job'[t].plan = job[t].plan
              /\ job'[t].fill1 = job[t].fill1 /\ job'[t].fill2 = job[t].fill2
              /\ job'[t].reply = o.reply
            BY <1>0, <3>1, <3>2 DEF TypeOK, Job
        <3>4. Pos(t)' = Pos(t)
            BY <2>2, <3>3 DEF SendLeg, Pos
        <3>5. LegOf(t)' = leg
            BY <3>3, <3>4 DEF LegOf
        <3>6. job[t].phase = "u_dex" /\ SoldOK(t)
            BY <2>1, <3>3 DEF SoldInv
        <3>7. leg.venue = "dex" /\ leg.side = "close"
            BY <3>6 DEF LegOf
        <3>8. leg.qty \in Qty
            BY <3>6, LegType DEF Legs, UnwindLegs
        <3> HIDE DEF leg
        <3>9. o.reply.err = "none" => o.reply.qty = leg.qty
            BY <1>0, <3>7, <3>8, SellIsWhole
        <3> QED
            BY <2>1, <3>3, <3>4, <3>5, <3>6, <3>9 DEF SoldOK, Filled
    <2>3. CASE UnwindApproved(t)
        <3>1. GoTo(t, IF Pos(t).perp > 0 THEN "u_perp" ELSE "u_dex", 0, 0) /\ book' = book
            BY <2>3 DEF UnwindApproved
        <3>2. (IF Pos(t).perp > 0 THEN "u_perp" ELSE "u_dex") \in Phases /\ 0 \in Qty
            BY StepOnly, RunFacts, <1>2 DEF Phases, Legs, UnwindLegs
        <3>3. /\ job'[t].phase = (IF Pos(t).perp > 0 THEN "u_perp" ELSE "u_dex")
              /\ job'[t].sent = FALSE /\ job'[t].plan = job[t].plan
            BY <1>0, <3>1, <3>2, GoToEffect
        <3>4. Pos(t) \in Position
            BY <1>2, StepOnly, RunFacts
        <3>5. Pos(t).perp = 0
            BY <2>1, <3>3, <3>4, LotsAssumption DEF Position, Qty
        <3>6. Pos(t)' = Pos(t)
            BY <3>1, <3>3 DEF Pos
        <3> QED
            BY <2>1, <3>3, <3>5, <3>6 DEF SoldOK
    <2>4. CASE PerpClosed(t)
        <3>1. job[t].reply.qty > 0 /\ job[t].reply.qty \in Qty /\ 0 \in Qty /\ Qty \subseteq Int
            BY <1>2, <2>4, StepOnly, RunFacts, FilledFacts DEF PerpClosed, Legs, UnwindLegs
        <3>2. CASE Leave(t)
            BY <1>0, <2>1, <3>2, LeaveEffect DEF IdleJob
        <3>3. CASE GoTo(t, "u_dex", job[t].reply.qty, 0)
            <4>1. job'[t].fill1 = job[t].reply.qty /\ job'[t].sent = FALSE
                BY <1>0, <3>1, <3>3, GoToEffect DEF Phases, Legs, UnwindLegs
            <4> QED
                BY <2>1, <3>1, <4>1 DEF SoldOK
        <3> QED
            BY <2>4, <3>2, <3>3 DEF PerpClosed
    <2>5. CASE /\ ~SendLeg(t) /\ ~UnwindApproved(t) /\ ~PerpClosed(t)
        <3>1. CASE Leave(t)
            BY <1>0, <2>1, <3>1, LeaveEffect DEF IdleJob
        <3>2. CASE \E ph \in Phases \ {"u_dex"}, f1 \in Qty, f2 \in Qty : GoTo(t, ph, f1, f2)
            BY <1>0, <2>1, <3>2, GoToEffect
        <3>3. 0 \in Qty /\ job[t].fill1 \in Qty /\ job[t].reply.qty \in Qty
            BY <1>2, StepOnly, RunFacts
        <3>4. Leave(t) \/ \E ph \in Phases \ {"u_dex"}, f1 \in Qty, f2 \in Qty : GoTo(t, ph, f1, f2)
            BY <1>2, <2>5, <3>3
               DEF Step, Commit, Veto, FirstLegFilled, FirstLegRefused, FirstLegUnknown,
                   SecondLegFilled, SecondLegFailed, ResidualAnswered, Reversed, NotReversed,
                   UnwindRefused, PerpNotClosed, DexSold, DexNotSold, Reshorted, NotReshorted,
                   Phases, Legs, EntryLegs, UnwindLegs
        <3> QED
            BY <3>1, <3>2, <3>4
    <2> QED
        BY <2>2, <2>3, <2>4, <2>5
<1>3. ASSUME NEW t \in Tasks, NEW p \in Plans, Execute(t, p) \/ Unwind(t, p) PROVE SoldOK(u)'
    <2>1. PICK ph \in {"requote", "u_requote"} : Enter(t, p, ph)
        BY <1>3 DEF Execute, Unwind
    <2>2. ph \in Phases
        BY DEF Phases
    <2>3. /\ job'[t] = [IdleJob EXCEPT !.phase = ph, !.plan = p]
          /\ \A v \in Tasks : v # t => job'[v] = job[v]
        BY <1>0, <2>1, <2>2, EnterEffect
    <2>4. u # t /\ job'[u] = job[u]
        BY <2>3 DEF IdleJob
    <2> QED
        BY <1>1, <1>3, <2>4 DEF Execute, Unwind
<1>4. CASE Environment \/ UNCHANGED vars
    BY <1>1, <1>4 DEF Environment, Propose, Expire, OperatorKill, Halt, ResetHalt, vars
<1> QED
    BY <1>2, <1>3, <1>4 DEF Next

------------------------------------------------------------------------------
(* The reservations that are kept.                                           *)

\* A reservation is kept for a plan whose entry is over: it was taken, and no entry runs it.
StrandInv == /\ \A p \in stranded : plan[p] = "taken"
             /\ \A t \in Tasks : job[t].phase \in EntryPhases => job[t].plan \notin stranded

\* A plan that was taken is never given back to the store.
LEMMA TakenStays ==
    ASSUME TypeOK, [Next]_vars, NEW p \in Plans, plan[p] = "taken"
    PROVE  plan'[p] = "taken"
<1>1. ASSUME NEW t \in Tasks, Step(t) PROVE plan' = plan
    BY <1>1 DEF Step, SendLeg, Commit, Veto, FirstLegFilled, FirstLegRefused, FirstLegUnknown,
           SecondLegFilled, SecondLegFailed, ResidualAnswered, Reversed, NotReversed,
           UnwindApproved, UnwindRefused, PerpClosed, PerpNotClosed, DexSold, DexNotSold,
           Reshorted, NotReshorted
<1>2. ASSUME NEW t \in Tasks, NEW q \in Plans, Execute(t, q) \/ Unwind(t, q) PROVE plan'[p] = "taken"
    BY <1>2 DEF Execute, Unwind, TypeOK
<1>3. CASE Environment \/ UNCHANGED vars
    BY <1>3 DEF Environment, Propose, Expire, OperatorKill, Halt, ResetHalt, vars, TypeOK
<1> QED
    BY <1>1, <1>2, <1>3 DEF Next

\* A step of a run ends it, places its leg, or goes on to another leg on the same side.
LEMMA StepForm ==
    ASSUME IInv, NEW t \in Tasks, Step(t)
    PROVE  \/ Leave(t)
           \/ /\ job'[t].phase = job[t].phase \/ {job[t].phase, job'[t].phase} \subseteq EntryPhases
                                              \/ {job[t].phase, job'[t].phase} \subseteq UnwindPhases
              /\ job'[t].plan = job[t].plan
              /\ stranded' = stranded
<1>0. TypeOK
    BY DEF IInv
<1>1. 0 \in Qty /\ job[t].fill1 \in Qty /\ job[t].reply.qty \in Qty
    BY StepOnly, RunFacts
<1>2. CASE SendLeg(t)
    <2>1. PICK o \in Outcomes(LegOf(t)) :
              job' = [job EXCEPT ![t] = [job[t] EXCEPT !.sent = TRUE, !.reply = o.reply]]
        BY <1>2 DEF SendLeg
    <2>2. job[t] \in Job
        BY <1>0 DEF TypeOK
    <2>3. job'[t].phase = job[t].phase /\ job'[t].plan = job[t].plan
        BY <1>0, <2>1, <2>2 DEF TypeOK, Job
    <2> QED
        BY <1>2, <2>3 DEF SendLeg
<1>3. ASSUME NEW ph \in Phases, NEW f1 \in Qty, NEW f2 \in Qty, GoTo(t, ph, f1, f2)
      PROVE  job'[t].phase = ph /\ job'[t].plan = job[t].plan
    BY <1>0, <1>3, GoToEffect
<1>4. CASE ~SendLeg(t) /\ ~Leave(t)
    <2>1. PICK ph \in Phases, f1 \in Qty, f2 \in Qty :
              /\ GoTo(t, ph, f1, f2) /\ stranded' = stranded
              /\ {job[t].phase, ph} \subseteq EntryPhases \/ {job[t].phase, ph} \subseteq UnwindPhases
        BY <1>1, <1>4 DEF Step, Commit, Veto, FirstLegFilled, FirstLegRefused, FirstLegUnknown,
               SecondLegFilled, SecondLegFailed, ResidualAnswered, Reversed, NotReversed,
               UnwindApproved, UnwindRefused, PerpClosed, PerpNotClosed, DexSold, DexNotSold,
               Reshorted, NotReshorted, Calling, Answered,
               Phases, Legs, EntryLegs, UnwindLegs, EntryPhases, UnwindPhases
    <2> QED
        BY <1>3, <2>1
<1> QED
    BY <1>2, <1>4

\* A plan is stranded at the end of its entry, and never taken again.
LEMMA StrandPreserved ==
    ASSUME IInv, StrandInv, [Next]_vars
    PROVE  StrandInv'
<1>0. TypeOK
    BY DEF IInv
<1>1. ASSUME NEW t \in Tasks, Step(t) PROVE StrandInv'
    <2>1. CASE Leave(t)
        <3>1. \A u \in Tasks : job'[u].phase \notin EntryPhases
            BY <1>0, <1>1, <2>1, StepOnly, LeaveEffect DEF IdleJob, InFlight, EntryPhases, EntryLegs
        <3>2. job[t].plan \in Plans /\ (job[t].phase \in EntryPhases => plan[job[t].plan] = "taken")
            BY <1>1, StepOnly, RunFacts DEF RunOK
        <3>3. stranded' = stranded
              \/ (stranded' = stranded \cup {job[t].plan} /\ job[t].phase \in EntryPhases)
            BY <1>1 DEF Step, SendLeg, Commit, Veto, FirstLegFilled, FirstLegRefused, FirstLegUnknown,
               SecondLegFilled, SecondLegFailed, ResidualAnswered, Reversed, NotReversed,
               UnwindApproved, UnwindRefused, PerpClosed, PerpNotClosed, DexSold, DexNotSold,
               Reshorted, NotReshorted, Answered, EntryPhases, EntryLegs
        <3>4. stranded \subseteq Plans
            BY <1>0 DEF TypeOK
        <3> QED
            BY <1>0, <3>1, <3>2, <3>3, <3>4, TakenStays DEF StrandInv
    <2>2. CASE ~Leave(t)
        <3>1. stranded' = stranded /\ job'[t].plan = job[t].plan
              /\ (job'[t].phase \in EntryPhases => job[t].phase \in EntryPhases)
            BY <1>1, <2>2, StepForm DEF EntryPhases, UnwindPhases, EntryLegs, UnwindLegs
        <3>2. stranded \subseteq Plans
            BY <1>0 DEF TypeOK
        <3> QED
            BY <1>0, <1>1, <3>1, <3>2, StepOnly, TakenStays DEF StrandInv
    <2> QED
        BY <2>1, <2>2
<1>2. ASSUME NEW t \in Tasks, NEW p \in Plans, Execute(t, p) \/ Unwind(t, p) PROVE StrandInv'
    <2>1. PICK ph \in {"requote", "u_requote"} :
              Enter(t, p, ph) /\ (ph = "requote" => plan[p] = "stored") /\ stranded' = stranded
        BY <1>2 DEF Execute, Unwind
    <2>2. ph \in Phases
        BY DEF Phases
    <2>3. /\ job'[t] = [IdleJob EXCEPT !.phase = ph, !.plan = p]
          /\ \A v \in Tasks : v # t => job'[v] = job[v]
        BY <1>0, <2>1, <2>2, EnterEffect
    <2>4. job'[t].phase = ph /\ job'[t].plan = p
        BY <2>3 DEF IdleJob
    <2>5. job'[t].phase \in EntryPhases => p \notin stranded
        BY <2>1, <2>4 DEF StrandInv, EntryPhases, EntryLegs
    <2>6. stranded \subseteq Plans
        BY <1>0 DEF TypeOK
    <2> QED
        BY <1>0, <2>1, <2>3, <2>4, <2>5, <2>6, TakenStays DEF StrandInv
<1>3. CASE Environment \/ UNCHANGED vars
    <2>1. job' = job /\ stranded' = stranded /\ stranded \subseteq Plans
        BY <1>0, <1>3 DEF Environment, Propose, Expire, OperatorKill, Halt, ResetHalt, vars, TypeOK
    <2> QED
        BY <1>0, <2>1, TakenStays DEF StrandInv
<1> QED
    BY <1>1, <1>2, <1>3 DEF Next

------------------------------------------------------------------------------
(* The ledger: what a step may do to cash, book, registry and reservations.  *)

Quiet == Held' = Held /\ UNCHANGED <<book, registry, free, reserved, stranded>>

Takes == /\ Held = 0 /\ Held' = 1
         /\ GateAllowsEntry /\ CashRequired <= free /\ Reserve
         /\ UNCHANGED <<book, registry, stranded>>

GivesBack == Held = 1 /\ Held' = 0 /\ Release /\ UNCHANGED <<book, registry, stranded>>

Keeps == /\ Held = 1 /\ Held' = 0
         /\ \E p \in Plans \ stranded : stranded' = stranded \cup {p}
         /\ UNCHANGED <<book, registry, free, reserved>>

Opens == /\ Held = 1 /\ Held' = 0 /\ UNCHANGED stranded
         /\ \E p \in Plans, d \in Qty, q \in Qty, n \in Qty :
               /\ ~book[p].open
               /\ LegOrder = "dex_first" => 0 < d /\ q <= d
               /\ Book(p, Opened(d, q), n)

ClosesLeg == /\ Held' = Held /\ UNCHANGED stranded
             /\ \E p \in Plans, v \in Venues, fill \in Qty :
                   /\ book[p].open
                   /\ v = "dex" => book[p].perp = 0
                   /\ Reduce(p, LegClosed(book[p], v, fill), LegReleases(book[p], v, fill),
                             LegRegistered(LegClosed(book[p], v, fill)))

ClosesBoth == /\ Held' = Held /\ UNCHANGED stranded
              /\ \E p \in Plans, d \in Qty, f \in Qty :
                    /\ book[p].open
                    /\ d <= f /\ 0 < f /\ f <= book[p].perp
                    /\ Reduce(p, BothClosed(book[p], d, f), BothReleases(book[p], f),
                              BothClosed(book[p], d, f).perp)

LedgerStep == Quiet \/ Takes \/ GivesBack \/ Keeps \/ Opens \/ ClosesLeg \/ ClosesBoth

\* An entry step is a ledger step.
LEMMA EntryIsLedger ==
    ASSUME IInv, StrandInv, NEW t \in Tasks,
           \/ Commit(t) \/ Veto(t)
           \/ FirstLegFilled(t) \/ FirstLegRefused(t) \/ FirstLegUnknown(t)
           \/ SecondLegFilled(t) \/ SecondLegFailed(t)
           \/ ResidualAnswered(t) \/ Reversed(t) \/ NotReversed(t)
    PROVE  LedgerStep
<1>0. TypeOK /\ Step(t)
    BY DEF IInv, Step
<1>1. /\ Held  = IF job[t].phase \in EntryLegs THEN 1 ELSE 0
      /\ Held' = IF job'[t].phase \in EntryLegs THEN 1 ELSE 0
    BY <1>0, HeldByRunner
<1>2. /\ job[t].plan \in Plans /\ job[t].fill1 \in Qty /\ job[t].fill2 \in Qty
      /\ job[t].reply.qty \in Qty /\ 0 \in Qty /\ Qty \subseteq Int
      /\ FillsOK(t) /\ ReplyOK(t)
      /\ (job[t].phase \in EntryPhases => ~book[job[t].plan].open)
    BY <1>0, StepOnly, RunFacts DEF RunOK
<1>3. Leave(t) => job'[t].phase \notin EntryLegs
    BY <1>0, LeaveEffect DEF IdleJob, EntryLegs
<1>4. ASSUME NEW ph \in Phases, NEW f1 \in Qty, NEW f2 \in Qty, GoTo(t, ph, f1, f2)
      PROVE  job'[t].phase = ph
    BY <1>0, <1>4, GoToEffect
<1> USE DEF LedgerStep
<1>5. CASE Commit(t)
    <2>1. job'[t].phase = "leg1"
        BY <1>2, <1>4, <1>5 DEF Commit, Phases, Legs, EntryLegs
    <2> QED
        BY <1>1, <1>5, <2>1 DEF Commit, Calling, Takes, EntryLegs
<1>6. CASE Veto(t)
    BY <1>1, <1>3, <1>6 DEF Veto, Calling, Quiet, EntryLegs
<1>7. CASE FirstLegFilled(t)
    <2>1. job'[t].phase = "leg2"
        BY <1>2, <1>4, <1>7 DEF FirstLegFilled, Phases, Legs, EntryLegs
    <2> QED
        BY <1>1, <1>7, <2>1 DEF FirstLegFilled, Answered, Quiet, EntryLegs
<1>8. CASE FirstLegRefused(t)
    BY <1>1, <1>3, <1>8 DEF FirstLegRefused, Answered, GivesBack, EntryLegs
<1>9. CASE FirstLegUnknown(t)
    <2>1. job[t].plan \in Plans \ stranded
        BY <1>2, <1>9 DEF FirstLegUnknown, Answered, StrandInv, EntryPhases, EntryLegs
    <2> QED
        BY <1>1, <1>3, <1>9, <2>1 DEF FirstLegUnknown, Answered, Keeps, EntryLegs
<1>10. CASE SecondLegFilled(t)
    <2>1. job[t].phase = "leg2" /\ UNCHANGED stranded
        BY <1>10 DEF SecondLegFilled, Answered
    <2>2. CASE job[t].fill1 > job[t].reply.qty
        <3>1. job'[t].phase = "residual"
            BY <1>2, <1>4, <1>10, <2>2 DEF SecondLegFilled, Phases, Legs, EntryLegs
        <3> QED
            BY <1>1, <1>10, <2>1, <2>2, <3>1 DEF SecondLegFilled, Quiet, EntryLegs
    <2>3. CASE ~(job[t].fill1 > job[t].reply.qty)
        <3>1. OpenHedge(t, job[t].fill1, job[t].reply.qty) /\ Leave(t)
            BY <1>10, <2>3 DEF SecondLegFilled
        <3>2. LegOf(t).qty = job[t].fill1
            BY <2>1 DEF LegOf
        <3>3. job[t].reply.qty <= job[t].fill1 /\ 0 < job[t].fill1
            BY <1>2, <1>10, <2>1, <3>2 DEF SecondLegFilled, Answered, ReplyOK, FillsOK
        <3>4. ~book[job[t].plan].open
            BY <1>2, <2>1 DEF EntryPhases, EntryLegs
        <3>5. Opens
            BY <1>1, <1>2, <1>3, <2>1, <3>1, <3>3, <3>4 DEF Opens, OpenHedge, First, EntryLegs
        <3> QED
            BY <3>5
    <2> QED
        BY <2>2, <2>3
<1>11. CASE SecondLegFailed(t)
    <2>1. job'[t].phase = "reverse"
        BY <1>2, <1>4, <1>11 DEF SecondLegFailed, Phases, Legs, EntryLegs
    <2> QED
        BY <1>1, <1>11, <2>1 DEF SecondLegFailed, Answered, Quiet, EntryLegs
<1>12. CASE ResidualAnswered(t)
    <2>1. /\ job[t].phase = "residual" /\ job[t].sent /\ Leave(t) /\ UNCHANGED stranded
          /\ OpenHedge(t, job[t].fill1 - job[t].reply.qty, job[t].fill2)
        BY <1>12 DEF ResidualAnswered, Answered
    <2>2. LegOf(t).qty = job[t].fill1 - job[t].fill2
        BY <2>1 DEF LegOf
    <2> DEFINE kept == job[t].fill1 - job[t].reply.qty
    <2>3. kept \in Qty /\ 0 < kept /\ job[t].fill2 <= kept
        BY <1>2, <2>1, <2>2, LotsAssumption DEF ReplyOK, FillsOK, Qty
    <2>4. ~book[job[t].plan].open
        BY <1>2, <2>1 DEF EntryPhases, EntryLegs
    <2>5. OpenHedge(t, kept, job[t].fill2)
        BY <2>1
    <2> HIDE DEF kept
    <2>6. Opens
        BY <1>1, <1>2, <1>3, <2>1, <2>3, <2>4, <2>5 DEF Opens, OpenHedge, First, EntryLegs
    <2> QED
        BY <2>6
<1>13. CASE Reversed(t)
    BY <1>1, <1>3, <1>13 DEF Reversed, Answered, GivesBack, EntryLegs
<1>14. CASE NotReversed(t)
    <2>1. /\ job[t].phase = "reverse" /\ Leave(t) /\ UNCHANGED stranded
          /\ Book(job[t].plan, OpenedNaked(First, job[t].fill1), job[t].fill1)
        BY <1>14 DEF NotReversed, Answered
    <2>2. ~book[job[t].plan].open /\ 0 < job[t].fill1
        BY <1>2, <2>1 DEF EntryPhases, EntryLegs, FillsOK
    <2>3. PICK d \in Qty, q \in Qty :
              /\ OpenedNaked(First, job[t].fill1) = Opened(d, q)
              /\ LegOrder = "dex_first" => d = job[t].fill1 /\ q = 0
        <3>1. CASE LegOrder = "dex_first"
            BY <1>2, <3>1 DEF OpenedNaked, First
        <3>2. CASE LegOrder # "dex_first"
            BY <1>2, <3>2 DEF OpenedNaked, First
        <3> QED
            BY <3>1, <3>2
    <2>4. LegOrder = "dex_first" => 0 < d /\ q <= d
        BY <1>2, <2>2, <2>3
    <2>5. Book(job[t].plan, Opened(d, q), job[t].fill1)
        BY <2>1, <2>3
    <2>6. Opens
        BY <1>1, <1>2, <1>3, <2>1, <2>2, <2>4, <2>5 DEF Opens, EntryLegs
    <2> QED
        BY <2>6
<1> QED
    BY <1>5, <1>6, <1>7, <1>8, <1>9, <1>10, <1>11, <1>12, <1>13, <1>14

\* An unwind step is a ledger step.
LEMMA UnwindIsLedger ==
    ASSUME IInv, SoldInv, NEW t \in Tasks,
           \/ UnwindApproved(t) \/ UnwindRefused(t)
           \/ PerpClosed(t) \/ PerpNotClosed(t)
           \/ DexSold(t) \/ DexNotSold(t)
           \/ Reshorted(t) \/ NotReshorted(t)
    PROVE  LedgerStep
<1>0. TypeOK /\ Step(t)
    BY DEF IInv, Step
<1>1. job[t].phase \in UnwindPhases
    BY DEF UnwindApproved, UnwindRefused, PerpClosed, PerpNotClosed, DexSold, DexNotSold,
           Reshorted, NotReshorted, Calling, Answered, UnwindPhases, UnwindLegs
<1>2. /\ job[t].plan \in Plans /\ job[t].fill1 \in Qty /\ job[t].reply.qty \in Qty
      /\ 0 \in Qty /\ Qty \subseteq Int /\ Pos(t) \in Position
      /\ FillsOK(t) /\ ReplyOK(t) /\ Pos(t).open
    BY <1>0, <1>1, StepOnly, RunFacts DEF RunOK, Pos
<1>3. Held' = Held
    <2>1. job[t].phase \notin EntryLegs
        BY <1>1 DEF UnwindPhases, UnwindLegs, EntryLegs
    <2>2. job'[t].phase \notin EntryLegs
        <3>1. CASE Leave(t)
            BY <1>0, <3>1, LeaveEffect DEF IdleJob, EntryLegs
        <3>2. CASE ~Leave(t)
            BY <1>0, <1>1, <3>2, StepForm DEF EntryPhases, UnwindPhases, UnwindLegs, EntryLegs
        <3> QED
            BY <3>1, <3>2
    <2> QED
        BY <1>0, <2>1, <2>2, HeldByRunner
<1>4. UNCHANGED stranded
    BY DEF UnwindApproved, UnwindRefused, PerpClosed, PerpNotClosed, DexSold, DexNotSold,
           Reshorted, NotReshorted
<1>5. ASSUME NEW v \in Venues, NEW fill \in Qty, v = "dex" => Pos(t).perp = 0, CloseLeg(t, v, fill)
      PROVE  ClosesLeg
    BY <1>2, <1>3, <1>4, <1>5 DEF ClosesLeg, CloseLeg, Pos
<1>6. CASE UnwindApproved(t) \/ UnwindRefused(t) \/ PerpNotClosed(t) \/ DexNotSold(t) \/ Reshorted(t)
    BY <1>3, <1>4, <1>6 DEF UnwindApproved, UnwindRefused, PerpNotClosed, DexNotSold, Reshorted,
                            LedgerStep, Quiet
<1>7. CASE PerpClosed(t)
    <2>1. CASE CloseLeg(t, "perp", job[t].reply.qty)
        BY <1>2, <1>5, <2>1 DEF Venues, LedgerStep
    <2>2. CASE UNCHANGED <<book, registry, free, reserved>>
        BY <1>3, <1>4, <2>2 DEF LedgerStep, Quiet
    <2> QED
        BY <1>7, <2>1, <2>2 DEF PerpClosed
<1>8. CASE DexSold(t)
    <2>1. job[t].phase = "u_dex" /\ job[t].sent
        BY <1>8 DEF DexSold, Answered
    <2>2. CASE job[t].fill1 > 0
        <3>1. LegOf(t).qty = Smaller(job[t].fill1, Pos(t).dex)
            BY <2>1, <2>2 DEF LegOf
        <3>2. job[t].reply.qty <= job[t].fill1 /\ job[t].fill1 <= Pos(t).perp
            <4>1. job[t].fill1 <= Pos(t).perp
                BY <1>2, <2>1 DEF FillsOK
            <4>2. job[t].reply.qty <= Smaller(job[t].fill1, Pos(t).dex)
                BY <1>2, <2>1, <3>1 DEF ReplyOK
            <4>3. job[t].fill1 \in Int /\ job[t].reply.qty \in Int /\ Pos(t).dex \in Int
                BY <1>2 DEF Position
            <4> QED
                BY <4>1, <4>2, <4>3 DEF Smaller
        <3>3. Reduce(job[t].plan, BothClosed(Pos(t), job[t].reply.qty, job[t].fill1),
                     BothReleases(Pos(t), job[t].fill1),
                     BothClosed(Pos(t), job[t].reply.qty, job[t].fill1).perp)
            BY <1>8, <2>2 DEF DexSold
        <3>4. ClosesBoth
            BY <1>2, <1>3, <1>4, <2>2, <3>2, <3>3 DEF ClosesBoth, Pos
        <3> QED
            BY <3>4 DEF LedgerStep
    <2>3. CASE ~(job[t].fill1 > 0)
        <3>1. CloseLeg(t, "dex", job[t].reply.qty)
            BY <1>8, <2>3 DEF DexSold
        <3>2. job[t].fill1 = 0
            BY <1>2, <2>3, LotsAssumption DEF Qty
        <3>3. Pos(t).perp = 0
            BY <2>1, <3>2 DEF SoldInv, SoldOK
        <3> QED
            BY <1>2, <1>5, <3>1, <3>3 DEF Venues, LedgerStep
    <2> QED
        BY <2>2, <2>3
<1>9. CASE NotReshorted(t)
    BY <1>2, <1>5, <1>9 DEF NotReshorted, Venues, LedgerStep
<1> QED
    BY <1>6, <1>7, <1>8, <1>9

\* Every step of the executor is a ledger step.
LEMMA NextIsLedger ==
    ASSUME IInv, StrandInv, SoldInv, [Next]_vars
    PROVE  LedgerStep
<1>0. TypeOK
    BY DEF IInv
<1>1. ASSUME NEW t \in Tasks, Step(t) PROVE LedgerStep
    <2>1. CASE SendLeg(t)
        <3>1. job'[t].phase = job[t].phase
            <4>1. PICK o \in Outcomes(LegOf(t)) :
                      job' = [job EXCEPT ![t] = [job[t] EXCEPT !.sent = TRUE, !.reply = o.reply]]
                BY <2>1 DEF SendLeg
            <4>2. job[t] \in Job
                BY <1>0 DEF TypeOK
            <4> QED
                BY <1>0, <4>1, <4>2 DEF TypeOK, Job
        <3>2. Held' = Held
            BY <1>1, <3>1, HeldByRunner
        <3> QED
            BY <2>1, <3>2 DEF SendLeg, LedgerStep, Quiet
    <2> QED
        BY <1>1, <2>1, EntryIsLedger, UnwindIsLedger DEF Step
<1>2. ASSUME NEW t \in Tasks, NEW p \in Plans, Execute(t, p) \/ Unwind(t, p) PROVE LedgerStep
    <2>1. PICK ph \in {"requote", "u_requote"} : Enter(t, p, ph)
        BY <1>2 DEF Execute, Unwind
    <2>2. ph \in Phases
        BY DEF Phases
    <2>3. /\ job'[t] = [IdleJob EXCEPT !.phase = ph, !.plan = p] /\ lock = None
          /\ \A v \in Tasks : v # t => job'[v] = job[v]
        BY <1>0, <2>1, <2>2, EnterEffect
    <2>4. job'[t].phase = ph
        BY <2>3 DEF IdleJob
    <2>5. Held = 0
        BY <2>3, HeldFree
    <2>6. \A u \in Tasks : job'[u].phase \notin EntryLegs
        BY <2>3, <2>4, NoneAssumption DEF IInv, LockInv, InFlight, EntryLegs
    <2>7. Held' = 0
        BY <2>6 DEF Held, Entering
    <2> QED
        BY <1>2, <2>5, <2>7 DEF Execute, Unwind, LedgerStep, Quiet
<1>3. CASE Environment \/ UNCHANGED vars
    <2>1. UNCHANGED <<job, book, registry, free, reserved, stranded>>
        BY <1>3 DEF Environment, Propose, Expire, OperatorKill, Halt, ResetHalt, vars
    <2> QED
        BY <2>1 DEF LedgerStep, Quiet, Held, Entering
<1> QED
    BY <1>1, <1>2, <1>3 DEF Next

------------------------------------------------------------------------------
(* The position cap.                                                         *)

\* The entry in flight counts as a position already.
CapInv == IsFiniteSet(Registered) /\ Cardinality(Registered) + Held <= MaxPositions

\* The gate's check makes room for the entry it admits.
LEMMA CapPreserved ==
    ASSUME IInv, CapInv, LedgerStep
    PROVE  CapInv'
<1>0. TypeOK /\ BookInv
    BY DEF IInv
<1>1. IsFiniteSet(Registered) /\ Cardinality(Registered) \in Nat /\ MaxPositions \in Nat
      /\ Cardinality(Registered) + Held <= MaxPositions
    BY FS_CardinalityType, LimitAssumption DEF CapInv
<1>2. Held \in {0, 1} /\ Held' \in {0, 1}
    BY DEF Held
<1>3. CASE UNCHANGED registry /\ (Held' <= Held \/ Cardinality(Registered) < MaxPositions)
    <2>1. Registered' = Registered
        BY <1>3 DEF Registered
    <2> QED
        BY <1>1, <1>2, <1>3, <2>1 DEF CapInv
<1>4. CASE Opens
    <2>1. PICK p \in Plans, d \in Qty, q \in Qty, n \in Qty :
              ~book[p].open /\ Book(p, Opened(d, q), n)
        BY <1>4 DEF Opens
    <2>2. registry' = [registry EXCEPT ![p] = n]
        BY <2>1 DEF Book
    <2>3. registry[p] = Unregistered /\ n # Unregistered
        BY <1>0, <2>1, LotsAssumption DEF BookInv, Unregistered, Qty
    <2>4. Registered' = Registered \cup {p} /\ p \notin Registered
        BY <1>0, <2>2, <2>3 DEF Registered, TypeOK
    <2>5. IsFiniteSet(Registered') /\ Cardinality(Registered') = Cardinality(Registered) + 1
        BY <1>1, <2>4, FS_AddElement
    <2>6. Held = 1 /\ Held' = 0
        BY <1>4 DEF Opens
    <2> QED
        BY <1>1, <2>5, <2>6 DEF CapInv
<1>5. CASE ClosesLeg \/ ClosesBoth
    <2>1. PICK p, pos, r, n : p \in Plans /\ book[p].open /\ Reduce(p, pos, r, n)
        BY <1>5 DEF ClosesLeg, ClosesBoth
    <2>2. \A q \in Plans : q # p => registry'[q] = registry[q]
        BY <1>0, <2>1 DEF Reduce, TypeOK
    <2>3. p \in Registered
        BY <1>0, <2>1, LotsAssumption DEF BookInv, Registered, Unregistered, Qty
    <2>4. Registered' \subseteq Registered
        BY <2>2, <2>3 DEF Registered
    <2>5. IsFiniteSet(Registered') /\ Cardinality(Registered') <= Cardinality(Registered)
          /\ Cardinality(Registered') \in Nat
        BY <1>1, <2>4, FS_Subset, FS_CardinalityType
    <2>6. Held' = Held
        BY <1>5 DEF ClosesLeg, ClosesBoth
    <2> QED
        BY <1>1, <1>2, <2>5, <2>6 DEF CapInv
<1> QED
    BY <1>2, <1>3, <1>4, <1>5 DEF LedgerStep, Quiet, Takes, GivesBack, Keeps, GateAllowsEntry

------------------------------------------------------------------------------
(* Reservations.                                                             *)

\* What is reserved: one plan's cash for the entry in flight and for each one stranded.
ReserveInv == /\ IsFiniteSet(stranded)
              /\ reserved = CashRequired * (Cardinality(stranded) + Held)

\* While a run holds a reservation, there is one to give back.
LEMMA ReservationThere ==
    ASSUME ReserveInv, Held = 1
    PROVE  /\ Smaller(CashRequired, reserved) = CashRequired
           /\ reserved - CashRequired = CashRequired * (Cardinality(stranded) + 0)
<1> DEFINE c == Cardinality(stranded)
           R == CashRequired
<1>1. c \in Int /\ c >= 0 /\ R \in Int /\ R >= 0
    BY CashRequiredNat, FS_CardinalityType DEF ReserveInv
<1>2. reserved = R * (c + 1)
    BY DEF ReserveInv
<1> HIDE DEF c, R
<1>3. R * (c + 1) = R * c + R /\ R * c >= 0 /\ R * c \in Int /\ R * (c + 0) = R * c
    BY <1>1
<1>4. R <= reserved /\ reserved - R = R * (c + 0) /\ reserved \in Int
    BY <1>1, <1>2, <1>3
<1>5. Smaller(R, reserved) = R
    BY <1>1, <1>4 DEF Smaller
<1> QED
    BY <1>4, <1>5 DEF R, c

\* A reservation is consumed, returned or kept, once.
LEMMA ReservePreserved ==
    ASSUME IInv, ReserveInv, LedgerStep
    PROVE  ReserveInv'
<1>1. /\ Cardinality(stranded) \in Int /\ CashRequired \in Int /\ IsFiniteSet(stranded)
      /\ reserved = CashRequired * (Cardinality(stranded) + Held)
    BY CashRequiredNat, FS_CardinalityType DEF ReserveInv
<1>2. CASE UNCHANGED <<reserved, stranded>> /\ Held' = Held
    BY <1>1, <1>2 DEF ReserveInv
<1>3. CASE Takes
    <2>1. reserved' = reserved + CashRequired /\ stranded' = stranded /\ Held = 0 /\ Held' = 1
        BY <1>3 DEF Takes, Reserve
    <2>2. CashRequired * (Cardinality(stranded) + 1) = CashRequired * (Cardinality(stranded) + 0) + CashRequired
        BY <1>1
    <2> QED
        BY <1>1, <2>1, <2>2 DEF ReserveInv
<1>4. CASE GivesBack \/ Opens
    <2>1. reserved' = reserved - Smaller(CashRequired, reserved) /\ stranded' = stranded
          /\ Held = 1 /\ Held' = 0
        BY <1>4 DEF GivesBack, Release, Opens, Book
    <2>2. reserved' = CashRequired * (Cardinality(stranded) + 0)
        BY <2>1, ReservationThere
    <2> QED
        BY <1>1, <2>1, <2>2 DEF ReserveInv
<1>5. CASE Keeps
    <2>1. PICK p \in Plans \ stranded : stranded' = stranded \cup {p}
        BY <1>5 DEF Keeps
    <2>2. IsFiniteSet(stranded') /\ Cardinality(stranded') = Cardinality(stranded) + 1
        BY <1>1, <2>1, FS_AddElement
    <2>3. Held = 1 /\ Held' = 0 /\ reserved' = reserved
        BY <1>5 DEF Keeps
    <2> QED
        BY <1>1, <2>2, <2>3 DEF ReserveInv
<1>6. CASE ClosesLeg \/ ClosesBoth
    BY <1>2, <1>6 DEF ClosesLeg, ClosesBoth, Reduce
<1> QED
    BY <1>2, <1>3, <1>4, <1>5, <1>6 DEF LedgerStep, Quiet

------------------------------------------------------------------------------
(* Free cash, and the principal in the book.                                 *)

MoneyInv == free >= 0 /\ \A p \in Plans : MoneyOK(book[p])

\* A ledger step that touches a position touches one, and cash with it.
LEMMA OpensEffect ==
    ASSUME IInv, ReserveInv, Opens
    PROVE  \E p \in Plans :
              /\ ~book[p].open
              /\ \A q \in Plans : q # p => book'[q] = book[q]
              /\ MoneyOK(book'[p])
              /\ LegOrder = "dex_first" => 0 < book'[p].dex /\ book'[p].perp <= book'[p].dex
              /\ 0 <= Locked(book'[p]) /\ Locked(book'[p]) <= CashRequired
              /\ free' = free + CashRequired - Locked(book'[p])
              /\ reserved' = reserved - CashRequired
<1>0. TypeOK
    BY DEF IInv
<1>1. PICK p \in Plans, d \in Qty, q \in Qty, n \in Qty :
          /\ ~book[p].open
          /\ LegOrder = "dex_first" => 0 < d /\ q <= d
          /\ Book(p, Opened(d, q), n)
    BY DEF Opens
<1>2. Held = 1
    BY DEF Opens
<1>3. Smaller(CashRequired, reserved) = CashRequired
    BY <1>2, ReservationThere
<1> DEFINE pos == Opened(d, q)
<1>4. /\ free' = free + CashRequired - Locked(pos) /\ reserved' = reserved - CashRequired
      /\ book' = [book EXCEPT ![p] = pos]
    BY <1>1, <1>3 DEF Book
<1>5. MoneyOK(pos) /\ 0 <= Locked(pos) /\ Locked(pos) <= CashRequired
    BY OpenedMoney
<1>6. pos.dex = d /\ pos.perp = q
    BY OpenedType
<1> HIDE DEF pos
<1>7. book'[p] = pos /\ \A r \in Plans : r # p => book'[r] = book[r]
    BY <1>0, <1>4 DEF TypeOK
<1> QED
    BY <1>1, <1>4, <1>5, <1>6, <1>7

\* A close hands back at most what the position locked, and all that it no longer locks
\* when the position is at least as long as it is short.
LEMMA ClosesEffect ==
    ASSUME IInv, MoneyInv, ClosesLeg \/ ClosesBoth
    PROVE  \E p \in Plans :
              /\ book[p].open
              /\ \A q \in Plans : q # p => book'[q] = book[q]
              /\ MoneyOK(book'[p])
              /\ free' \in Int /\ free <= free'
              /\ free' + Locked(book'[p]) <= free + Locked(book[p])
              /\ (0 < book[p].dex /\ book[p].perp <= book[p].dex)
                    => /\ free' + Locked(book'[p]) = free + Locked(book[p])
                       /\ book'[p].open => 0 < book'[p].dex /\ book'[p].perp <= book'[p].dex
              /\ reserved' = reserved
<1>0. TypeOK
    BY DEF IInv
<1>1. CASE ClosesLeg
    <2>1. PICK p \in Plans, v \in Venues, fill \in Qty :
              /\ book[p].open
              /\ v = "dex" => book[p].perp = 0
              /\ Reduce(p, LegClosed(book[p], v, fill), LegReleases(book[p], v, fill),
                        LegRegistered(LegClosed(book[p], v, fill)))
        BY <1>1 DEF ClosesLeg
    <2> DEFINE pos == book[p]
               new == LegClosed(pos, v, fill)
               r   == LegReleases(pos, v, fill)
    <2>2. pos \in Position /\ MoneyOK(pos) /\ pos.open
        BY <1>0, <2>1 DEF TypeOK, MoneyInv
    <2>3. /\ MoneyOK(new) /\ r \in Int /\ 0 <= r
          /\ Locked(new) + r <= Locked(pos)
          /\ pos.dex > 0 => Locked(new) + r = Locked(pos)
          /\ new.open => IF v = "dex" THEN new.perp = pos.perp /\ (pos.perp = 0 => 0 < new.dex)
                                      ELSE new.dex = pos.dex /\ new.perp <= pos.perp
        <3> HIDE DEF pos
        <3> QED
            BY <2>2, LegClosedMoney DEF Venues
    <2>4. new \in Position
        <3> HIDE DEF pos
        <3> QED
            BY <2>2, LegClosedEffect DEF Venues
    <2>5. free' = free + r /\ reserved' = reserved /\ book' = [book EXCEPT ![p] = new]
        BY <2>1 DEF Reduce
    <2> HIDE DEF new, r
    <2>6. book'[p] = new /\ \A q \in Plans : q # p => book'[q] = book[q]
        BY <1>0, <2>5 DEF TypeOK
    <2>7. free \in Int /\ Locked(new) \in Int /\ Locked(pos) \in Int
        BY <1>0, <2>2, <2>3, <2>4, LockedNat DEF TypeOK
    <2>8. new.open /\ 0 < pos.dex /\ pos.perp <= pos.dex => 0 < new.dex /\ new.perp <= new.dex
        <3>1. /\ pos.dex \in Int /\ pos.perp \in Int /\ new.dex \in Int /\ new.perp \in Int
              /\ v \in {"dex", "perp"}
              /\ v = "dex" => pos.perp = 0
            BY <2>1, <2>2, <2>4 DEF Position, Qty, Venues
        <3> HIDE DEF pos
        <3> QED
            BY <2>3, <3>1
    <2> QED
        BY <2>1, <2>3, <2>5, <2>6, <2>7, <2>8
<1>2. CASE ClosesBoth
    <2>1. PICK p \in Plans, d \in Qty, f \in Qty :
              /\ book[p].open
              /\ d <= f /\ 0 < f /\ f <= book[p].perp
              /\ Reduce(p, BothClosed(book[p], d, f), BothReleases(book[p], f),
                        BothClosed(book[p], d, f).perp)
        BY <1>2 DEF ClosesBoth
    <2> DEFINE pos == book[p]
               new == BothClosed(pos, d, f)
               r   == BothReleases(pos, f)
    <2>2. pos \in Position /\ MoneyOK(pos) /\ pos.open
        BY <1>0, <2>1 DEF TypeOK, MoneyInv
    <2>3. /\ MoneyOK(new) /\ r \in Int /\ 0 <= r
          /\ Locked(new) + r = Locked(pos)
          /\ new.open /\ pos.perp <= pos.dex => 0 < new.dex /\ new.perp <= new.dex
        <3>1. f <= pos.perp
            BY <2>1
        <3> HIDE DEF pos
        <3> QED
            BY <2>1, <2>2, <3>1, BothClosedMoney
    <2>4. new \in Position
        <3> HIDE DEF pos
        <3> QED
            BY <2>2, BothClosedEffect
    <2>5. free' = free + r /\ reserved' = reserved /\ book' = [book EXCEPT ![p] = new]
        BY <2>1 DEF Reduce
    <2> HIDE DEF new, r
    <2>6. book'[p] = new /\ \A q \in Plans : q # p => book'[q] = book[q]
        BY <1>0, <2>5 DEF TypeOK
    <2>7. free \in Int /\ Locked(new) \in Int /\ Locked(pos) \in Int
        BY <1>0, <2>2, <2>3, <2>4, LockedNat DEF TypeOK
    <2> QED
        BY <2>1, <2>3, <2>5, <2>6, <2>7
<1> QED
    BY <1>1, <1>2

\* Free cash pays for nothing it does not cover.
LEMMA MoneyPreserved ==
    ASSUME IInv, ReserveInv, MoneyInv, LedgerStep
    PROVE  MoneyInv'
<1>0. free \in Int /\ free >= 0 /\ CashRequired \in Int /\ CashRequired >= 0
    BY CashRequiredNat DEF IInv, TypeOK, MoneyInv
<1>1. CASE Quiet \/ Keeps
    BY <1>1 DEF Quiet, Keeps, MoneyInv
<1>2. CASE Takes
    BY <1>0, <1>2 DEF Takes, Reserve, MoneyInv
<1>3. CASE GivesBack
    BY <1>0, <1>3, ReservationThere DEF GivesBack, Release, MoneyInv
<1>4. CASE Opens
    <2>1. PICK p \in Plans :
              /\ \A q \in Plans : q # p => book'[q] = book[q]
              /\ MoneyOK(book'[p])
              /\ Locked(book'[p]) <= CashRequired
              /\ free' = free + CashRequired - Locked(book'[p])
              /\ 0 <= Locked(book'[p])
        BY <1>4, OpensEffect
    <2>2. \A q \in Plans : MoneyOK(book'[q])
        BY <2>1 DEF MoneyInv
    <2>3. Locked(book'[p]) \in Int
        <3>1. book'[p] \in Position
            <4>1. PICK r \in Plans, d \in Qty, q \in Qty, n \in Qty : Book(r, Opened(d, q), n)
                BY <1>4 DEF Opens
            <4>2. book' = [book EXCEPT ![r] = Opened(d, q)] /\ Opened(d, q) \in Position
                BY <4>1, OpenedType DEF Book
            <4> QED
                BY <4>2 DEF IInv, TypeOK
        <3> QED
            BY <3>1, LockedType
    <2> QED
        BY <1>0, <2>1, <2>2, <2>3 DEF MoneyInv
<1>5. CASE ClosesLeg \/ ClosesBoth
    <2>1. PICK p \in Plans :
              /\ \A q \in Plans : q # p => book'[q] = book[q]
              /\ MoneyOK(book'[p]) /\ free' \in Int /\ free <= free'
        BY <1>5, ClosesEffect
    <2> QED
        BY <1>0, <2>1 DEF MoneyInv
<1> QED
    BY <1>1, <1>2, <1>3, <1>4, <1>5 DEF LedgerStep

------------------------------------------------------------------------------
(* The principal locked in the whole book.                                   *)

Total == SumFunction([p \in Plans |-> Locked(book[p])])

\* What the whole book locks is an integer.
LEMMA TotalType ==
    ASSUME TypeOK
    PROVE  Total \in Int
<1> DEFINE f == [p \in Plans |-> Locked(book[p])]
<1>1. \A p \in Plans : Locked(book[p]) \in Int
    BY LockedType DEF TypeOK
<1>2. f \in [Plans -> Int]
    BY <1>1
<1> HIDE DEF f
<1>3. SumFunction(f) \in Int
    BY <1>2, PlansAssumption, SumType
<1> QED
    BY <1>3 DEF Total, f

\* One position changes, and the total with it.
LEMMA TotalUpdate ==
    ASSUME TypeOK, TypeOK', NEW p \in Plans, \A q \in Plans : q # p => book'[q] = book[q]
    PROVE  Total' = Total + Locked(book'[p]) - Locked(book[p])
<1> DEFINE f == [q \in Plans |-> Locked(book[q])]
           g == [q \in Plans |-> Locked(book'[q])]
<1>1. \A q \in Plans : Locked(book[q]) \in Int /\ Locked(book'[q]) \in Int
    BY LockedType DEF TypeOK
<1>2. f \in [Plans -> Int] /\ g \in [Plans -> Int]
    BY <1>1
<1>3. \A q \in Plans : q # p => g[q] = f[q]
    OBVIOUS
<1>4. f[p] = Locked(book[p]) /\ g[p] = Locked(book'[p])
    OBVIOUS
<1>5. Total = SumFunction(f) /\ Total' = SumFunction(g)
    BY DEF Total
<1> HIDE DEF f, g
<1>6. SumFunction(g) = SumFunction(f) + g[p] - f[p]
    BY <1>2, <1>3, PlansAssumption, SumUpdate
<1> QED
    BY <1>4, <1>5, <1>6

\* Principal is never created, whatever the legs' order.
NothingCreated == free + reserved + Total <= Capital

\* No ledger step creates principal.
LEMMA CreatedPreserved ==
    ASSUME IInv, IInv', ReserveInv, MoneyInv, NothingCreated, LedgerStep
    PROVE  NothingCreated'
<1>0. /\ TypeOK /\ TypeOK' /\ free \in Int /\ reserved \in Int /\ Capital \in Int
      /\ free' \in Int /\ reserved' \in Int /\ CashRequired \in Int
    BY CashAssumption, CashRequiredNat DEF IInv, TypeOK
<1>1. Total \in Int /\ free + reserved + Total <= Capital
    BY <1>0, TotalType DEF NothingCreated
<1>2. CASE book' = book /\ free' + reserved' = free + reserved
    <2>1. Total' = Total
        BY <1>2 DEF Total
    <2> QED
        BY <1>0, <1>1, <1>2, <2>1 DEF NothingCreated
<1>3. CASE Quiet \/ Keeps
    BY <1>2, <1>3 DEF Quiet, Keeps
<1>4. CASE Takes
    BY <1>0, <1>2, <1>4 DEF Takes, Reserve
<1>5. CASE GivesBack
    BY <1>0, <1>2, <1>5, ReservationThere DEF GivesBack, Release
<1>6. CASE Opens
    <2>1. PICK p \in Plans :
              /\ ~book[p].open
              /\ \A q \in Plans : q # p => book'[q] = book[q]
              /\ free' = free + CashRequired - Locked(book'[p])
              /\ reserved' = reserved - CashRequired
        BY <1>6, OpensEffect
    <2>2. Locked(book[p]) = 0
        BY <2>1 DEF IInv, BookInv, Locked, NoPosition
    <2>3. Total' = Total + Locked(book'[p]) - Locked(book[p])
        BY <1>0, <2>1, TotalUpdate
    <2>4. Locked(book'[p]) \in Int
        BY <1>0, LockedType DEF TypeOK
    <2> QED
        BY <1>0, <1>1, <2>1, <2>2, <2>3, <2>4 DEF NothingCreated
<1>7. CASE ClosesLeg \/ ClosesBoth
    <2>1. PICK p \in Plans :
              /\ \A q \in Plans : q # p => book'[q] = book[q]
              /\ free' + Locked(book'[p]) <= free + Locked(book[p])
              /\ reserved' = reserved
        BY <1>7, ClosesEffect
    <2>2. Total' = Total + Locked(book'[p]) - Locked(book[p])
        BY <1>0, <2>1, TotalUpdate
    <2>3. Locked(book'[p]) \in Int /\ Locked(book[p]) \in Int
        BY <1>0, LockedType DEF TypeOK
    <2> QED
        BY <1>0, <1>1, <2>1, <2>2, <2>3 DEF NothingCreated
<1> QED
    BY <1>3, <1>4, <1>5, <1>6, <1>7 DEF LedgerStep

\* With the DEX leg first a position is never shorter in DEX than in perp.
LongInv == \A p \in Plans : book[p].open => 0 < book[p].dex /\ book[p].perp <= book[p].dex

\* With the DEX leg first no ledger step loses any.
LEMMA ConservedPreserved ==
    ASSUME LegOrder = "dex_first", IInv, IInv', ReserveInv, MoneyInv, LongInv, CashConserved, LedgerStep
    PROVE  LongInv' /\ CashConserved'
<1>0. /\ TypeOK /\ TypeOK' /\ free \in Int /\ reserved \in Int /\ Capital \in Int
      /\ free' \in Int /\ reserved' \in Int /\ CashRequired \in Int
    BY CashAssumption, CashRequiredNat DEF IInv, TypeOK
<1>1. Total \in Int /\ free + reserved + Total = Capital
    BY <1>0, TotalType DEF CashConserved, Total
<1>2. CASE book' = book /\ free' + reserved' = free + reserved
    <2>1. Total' = Total
        BY <1>2 DEF Total
    <2> QED
        BY <1>0, <1>1, <1>2, <2>1 DEF CashConserved, Total, LongInv
<1>3. CASE Quiet \/ Keeps
    BY <1>2, <1>3 DEF Quiet, Keeps
<1>4. CASE Takes
    BY <1>0, <1>2, <1>4 DEF Takes, Reserve
<1>5. CASE GivesBack
    BY <1>0, <1>2, <1>5, ReservationThere DEF GivesBack, Release
<1>6. CASE Opens
    <2>1. PICK p \in Plans :
              /\ ~book[p].open
              /\ \A q \in Plans : q # p => book'[q] = book[q]
              /\ 0 < book'[p].dex /\ book'[p].perp <= book'[p].dex
              /\ free' = free + CashRequired - Locked(book'[p])
              /\ reserved' = reserved - CashRequired
        BY <1>6, OpensEffect
    <2>2. Locked(book[p]) = 0
        BY <2>1 DEF IInv, BookInv, Locked, NoPosition
    <2>3. Total' = Total + Locked(book'[p]) - Locked(book[p])
        BY <1>0, <2>1, TotalUpdate
    <2>4. Locked(book'[p]) \in Int
        BY <1>0, LockedType DEF TypeOK
    <2>5. free' + reserved' + Total' = Capital
        BY <1>0, <1>1, <2>1, <2>2, <2>3, <2>4
    <2> QED
        BY <2>1, <2>5 DEF CashConserved, Total, LongInv
<1>7. CASE ClosesLeg \/ ClosesBoth
    <2>1. PICK p \in Plans :
              /\ book[p].open
              /\ \A q \in Plans : q # p => book'[q] = book[q]
              /\ (0 < book[p].dex /\ book[p].perp <= book[p].dex)
                    => /\ free' + Locked(book'[p]) = free + Locked(book[p])
                       /\ book'[p].open => 0 < book'[p].dex /\ book'[p].perp <= book'[p].dex
              /\ reserved' = reserved
        BY <1>7, ClosesEffect
    <2>2. Total' = Total + Locked(book'[p]) - Locked(book[p])
        BY <1>0, <2>1, TotalUpdate
    <2>3. Locked(book'[p]) \in Int /\ Locked(book[p]) \in Int
        BY <1>0, LockedType DEF TypeOK
    <2>4. 0 < book[p].dex /\ book[p].perp <= book[p].dex
        BY <2>1 DEF LongInv
    <2>5. free' + reserved' + Total' = Capital
        BY <1>0, <1>1, <2>1, <2>2, <2>3, <2>4
    <2> QED
        BY <2>1, <2>4, <2>5 DEF CashConserved, Total, LongInv
<1> QED
    BY <1>3, <1>4, <1>5, <1>6, <1>7 DEF LedgerStep

------------------------------------------------------------------------------
(* The invariant and the theorems.                                           *)

CashInv == IInv /\ SoldInv /\ StrandInv /\ CapInv /\ ReserveInv /\ MoneyInv /\ NothingCreated

\* Nothing is held, booked or stranded at the start.
LEMMA InitCash == Init => CashInv /\ LongInv /\ CashConserved
<1> SUFFICES ASSUME Init PROVE CashInv /\ LongInv /\ CashConserved
    OBVIOUS
<1>1. IInv
    BY InitEstablishes
<1>2. \A t \in Tasks : job[t].phase = "idle"
    BY DEF Init, IdleJob
<1>3. SoldInv /\ Held = 0
    BY <1>2 DEF SoldInv, SoldOK, Held, Entering, EntryLegs
<1>4. StrandInv
    BY <1>2 DEF Init, StrandInv, EntryPhases, EntryLegs
<1>5. CapInv
    <2>1. Registered = {}
        BY DEF Init, Registered
    <2> QED
        BY <1>3, <2>1, FS_EmptySet, LimitAssumption DEF CapInv
<1>6. ReserveInv
    <2>1. stranded = {} /\ reserved = 0
        BY DEF Init
    <2>2. CashRequired * (0 + 0) = 0
        BY CashRequiredNat
    <2> QED
        BY <1>3, <2>1, <2>2, FS_EmptySet DEF ReserveInv
<1>7. MoneyInv
    BY CashAssumption, CostAssumption DEF Init, MoneyInv, MoneyOK, NoPosition
<1>8. Total = 0
    <2> DEFINE f == [p \in Plans |-> 0]
    <2>1. \A p \in Plans : Locked(book[p]) = 0
        BY DEF Init, Locked, NoPosition
    <2>2. [p \in Plans |-> Locked(book[p])] = f
        BY <2>1
    <2>3. SumFunction(f) = 0
        BY PlansAssumption, SumZero
    <2> QED
        BY <2>2, <2>3 DEF Total
<1>9. NothingCreated /\ CashConserved
    <2>1. free = Capital /\ reserved = 0
        BY DEF Init
    <2> QED
        BY <1>8, <2>1, CashAssumption DEF NothingCreated, CashConserved, Total
<1>10. LongInv
    BY DEF Init, LongInv, NoPosition
<1> QED
    BY <1>1, <1>3, <1>4, <1>5, <1>6, <1>7, <1>9, <1>10 DEF CashInv

\* The money invariant is inductive.
LEMMA NextCash ==
    ASSUME CashInv, [Next]_vars
    PROVE  CashInv' /\ LedgerStep
<1>1. IInv'
    BY NextPreserves DEF CashInv
<1>2. LedgerStep
    BY NextIsLedger DEF CashInv
<1>3. SoldInv' /\ StrandInv'
    BY SoldPreserved, StrandPreserved DEF CashInv
<1>4. CapInv' /\ ReserveInv' /\ MoneyInv' /\ NothingCreated'
    BY <1>1, <1>2, CapPreserved, ReservePreserved, MoneyPreserved, CreatedPreserved DEF CashInv
<1> QED
    BY <1>1, <1>2, <1>3, <1>4 DEF CashInv

\* The inductive invariant of the money holds in every reachable state.
THEOREM CashInvariance == Spec => []CashInv
<1>1. Init => CashInv
    BY InitCash
<1>2. CashInv /\ [Next]_vars => CashInv'
    BY NextCash
<1> QED
    BY <1>1, <1>2, PTL DEF Spec

\* The gate's position limit (max_open_positions) is never exceeded, although a position is
\* registered only after both of its legs: the lock admits one entry at a time.
THEOREM CapHolds == Spec => []PositionCap
<1>1. CashInv => PositionCap
    <2> SUFFICES ASSUME CashInv PROVE PositionCap
        OBVIOUS
    <2>1. Cardinality(Registered) \in Nat /\ Held \in {0, 1} /\ MaxPositions \in Nat
        BY FS_CardinalityType, LimitAssumption DEF CashInv, CapInv, Held
    <2> QED
        BY <2>1 DEF CashInv, CapInv, PositionCap
<1> QED
    BY <1>1, CashInvariance, PTL

\* Reserved cash is what the entry in flight and the stranded first legs account for: every
\* path out of an entry (executor.py _execute_locked) returns its reservation once.
THEOREM ReservationsAccounted == Spec => []ReservationAccounted
<1>1. CashInv => ReservationAccounted
    <2> SUFFICES ASSUME CashInv PROVE ReservationAccounted
        OBVIOUS
    <2>1. Cardinality(Entering) = Held
        <3>1. CASE Entering = {}
            BY <3>1, FS_EmptySet DEF Held
        <3>2. CASE Entering # {}
            <4>1. PICK t \in Entering : TRUE
                BY <3>2
            <4>2. Entering = {t}
                BY <4>1 DEF Entering, CashInv, IInv, LockInv, InFlight, EntryLegs
            <4> QED
                BY <3>2, <4>2, FS_Singleton DEF Held
        <3> QED
            BY <3>1, <3>2
    <2> QED
        BY <2>1 DEF CashInv, ReserveInv, ReservationAccounted, Entering
<1> QED
    BY <1>1, CashInvariance, PTL

\* Cash and reservations are never negative: a booking costs no more than the reservation
\* it consumes (portfolio.py open_position), and nothing is released twice.
THEOREM NeverOverdrawn == Spec => []NoOverdraft
<1>1. CashInv => NoOverdraft
    <2> SUFFICES ASSUME CashInv PROVE NoOverdraft
        OBVIOUS
    <2>1. Cardinality(stranded) + Held \in Int /\ Cardinality(stranded) + Held >= 0
        BY FS_CardinalityType DEF CashInv, ReserveInv, Held
    <2>2. CashRequired * (Cardinality(stranded) + Held) >= 0
        BY <2>1, CashRequiredNat, MulPos
    <2> QED
        BY <2>2 DEF CashInv, ReserveInv, MoneyInv, NoOverdraft
<1> QED
    BY <1>1, CashInvariance, PTL

\* Whatever the leg order, the fills and the closes: principal is never created.
THEOREM PrincipalNotCreated == Spec => []NothingCreated
<1>1. CashInv => NothingCreated
    BY DEF CashInv
<1> QED
    BY <1>1, CashInvariance, PTL

\* With the DEX leg first (the default of Settings.effective_leg_order) it is not lost
\* either: the shares a close releases and leaves locked always make up the whole.
THEOREM PrincipalConserved ==
    ASSUME LegOrder = "dex_first"
    PROVE  Spec => []CashConserved
<1> DEFINE Inv == CashInv /\ LongInv /\ CashConserved
<1>1. Init => Inv
    BY InitCash
<1>2. Inv /\ [Next]_vars => Inv'
    <2> SUFFICES ASSUME Inv, [Next]_vars PROVE Inv'
        OBVIOUS
    <2>1. CashInv' /\ LedgerStep
        BY NextCash
    <2>2. LongInv' /\ CashConserved'
        BY <2>1, ConservedPreserved DEF CashInv
    <2> QED
        BY <2>1, <2>2
<1>3. Inv => CashConserved
    OBVIOUS
<1> QED
    BY <1>1, <1>2, <1>3, PTL DEF Spec
=============================================================================

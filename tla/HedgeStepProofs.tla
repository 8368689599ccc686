--------------------------- MODULE HedgeStepProofs ---------------------------
(* What no step of HedgeExecutor may do: bring a spent plan back to life,      *)
(* unbalance a position in silence, or end a run in silent disagreement with   *)
(* the venues; and that every step, whatever legs, venues and failures, is a   *)
(* step of HedgeLifecycle or leaves it as it is.                               *)
EXTENDS HedgeCashProofs

------------------------------------------------------------------------------
(* Plans are single-use.                                                     *)

\* Once its entry is over, a plan only ever runs to be unwound.
LEMMA SpentStep ==
    ASSUME IInv, [Next]_vars, NEW p \in Plans, Spent(p)
    PROVE  Spent(p)'
<1>0. TypeOK
    BY DEF IInv
<1>1. plan'[p] = "taken"
    BY <1>0, TakenStays DEF Spent
<1> SUFFICES ASSUME NEW u \in Tasks, job'[u].plan = p PROVE job'[u].phase \in UnwindPhases
    BY <1>1 DEF Spent, UnwindPhases
<1>2. CASE job'[u] = job[u]
    BY <1>2 DEF Spent, UnwindPhases
<1>3. ASSUME NEW t \in Tasks, Step(t) PROVE job'[u].phase \in UnwindPhases
    <2>1. CASE u # t
        BY <1>2, <1>3, <2>1, StepOnly
    <2>2. CASE u = t /\ Leave(t)
        BY <1>0, <2>2, LeaveEffect, NoneAssumption DEF IdleJob
    <2>3. CASE u = t /\ ~Leave(t)
        <3>1. job[t].plan = p
            BY <1>3, <2>3, StepForm
        <3>2. job[t].phase \in UnwindPhases
            BY <3>1 DEF Spent, UnwindPhases
        <3> QED
            BY <1>3, <2>3, <3>2, StepForm DEF EntryPhases, UnwindPhases, EntryLegs, UnwindLegs
    <2> QED
        BY <2>1, <2>2, <2>3
<1>4. ASSUME NEW t \in Tasks, NEW q \in Plans, Execute(t, q) \/ Unwind(t, q)
      PROVE  job'[u].phase \in UnwindPhases
    <2>1. PICK ph \in {"requote", "u_requote"} :
              Enter(t, q, ph) /\ (ph = "requote" => plan[q] = "stored")
        BY <1>4 DEF Execute, Unwind
    <2>2. ph \in Phases
        BY DEF Phases
    <2>3. /\ job'[t] = [IdleJob EXCEPT !.phase = ph, !.plan = q]
          /\ \A v \in Tasks : v # t => job'[v] = job[v]
        BY <1>0, <2>1, <2>2, EnterEffect
    <2>4. job'[t].phase = ph /\ job'[t].plan = q
        BY <2>3 DEF IdleJob
    <2>5. plan[p] = "taken"
        BY DEF Spent
    <2> QED
        BY <1>2, <2>1, <2>3, <2>4, <2>5 DEF UnwindPhases
<1>5. CASE Environment \/ UNCHANGED vars
    BY <1>2, <1>5 DEF Environment, Propose, Expire, OperatorKill, Halt, ResetHalt, vars
<1> QED
    BY <1>3, <1>4, <1>5 DEF Next

\* A plan is single-use (executor.py execute: popped before anything else): after its entry
\* no task ever runs it again, whatever happened to that entry.
THEOREM PlansSingleUse == Spec => SpentStaysSpent
<1>1. IInv /\ [Next]_vars => [\A p \in Plans : Spent(p) => Spent(p)']_vars
    BY SpentStep
<1> QED
    BY <1>1, Invariance, PTL DEF Spec, SpentStaysSpent

------------------------------------------------------------------------------
(* Balance.                                                                  *)

\* The step of an entry that books a position leaves it balanced, or sounds the alarm, or
\* is the one that keeps a residual.
LEMMA EntryBalance ==
    ASSUME IInv, NEW t \in Tasks,
           SecondLegFilled(t) \/ ResidualAnswered(t) \/ NotReversed(t),
           NEW p \in Plans, Unbalanced(book'[p]), ~Unbalanced(book[p])
    PROVE  kill' \/ ResidualKept(p)
<1>0. TypeOK /\ Step(t)
    BY DEF IInv, Step
<1>1. /\ job[t].fill1 \in Qty /\ job[t].fill2 \in Qty /\ job[t].reply.qty \in Qty /\ 0 \in Qty
      /\ Qty \subseteq Int /\ job[t].plan \in Plans /\ ReplyOK(t) /\ FillsOK(t)
    BY <1>0, StepOnly, RunFacts DEF RunOK
<1>2. ASSUME NEW f1 \in Qty, NEW f2 \in Qty, OpenHedge(t, f1, f2)
      PROVE  p = job[t].plan /\ f1 # f2
    <2>1. PICK d \in Qty, q \in Qty :
              /\ book' = [book EXCEPT ![job[t].plan] = Opened(d, q)]
              /\ {d, q} = {f1, f2}
        BY <1>2 DEF OpenHedge, Book
    <2>2. Opened(d, q).dex = d /\ Opened(d, q).perp = q
        BY OpenedType
    <2>3. p = job[t].plan
        BY <1>0, <2>1 DEF TypeOK
    <2>4. book'[p] = Opened(d, q)
        BY <1>0, <2>1, <2>3 DEF TypeOK
    <2>5. d # q
        BY <2>2, <2>4 DEF Unbalanced
    <2> QED
        BY <2>1, <2>3, <2>5
<1>3. CASE SecondLegFilled(t)
    <2>1. job[t].phase = "leg2" /\ job[t].sent
        BY <1>3 DEF SecondLegFilled, Answered
    <2>2. LegOf(t).qty = job[t].fill1
        BY <2>1 DEF LegOf
    <2>3. job[t].reply.qty <= job[t].fill1
        BY <1>1, <2>1, <2>2 DEF ReplyOK
    <2>4. CASE job[t].fill1 > job[t].reply.qty
        <3>1. book' = book
            BY <1>3, <2>4 DEF SecondLegFilled
        <3> QED
            BY <3>1
    <2>5. CASE ~(job[t].fill1 > job[t].reply.qty)
        <3>1. OpenHedge(t, job[t].fill1, job[t].reply.qty)
            BY <1>3, <2>5 DEF SecondLegFilled
        <3>2. job[t].fill1 = job[t].reply.qty
            <4>1. job[t].fill1 \in Int /\ job[t].reply.qty \in Int
                BY <1>1
            <4> QED
                BY <2>3, <2>5, <4>1
        <3>3. job[t].fill1 \in Qty /\ job[t].reply.qty \in Qty
            BY <1>1
        <3>4. job[t].fill1 # job[t].reply.qty
            BY <1>2, <3>1, <3>3
        <3> QED
            BY <3>2, <3>4
    <2> QED
        BY <2>4, <2>5
<1>4. CASE ResidualAnswered(t)
    <2>1. Answered(t, "residual") /\ job[t].phase = "residual" /\ job[t].sent
          /\ OpenHedge(t, job[t].fill1 - job[t].reply.qty, job[t].fill2)
        BY <1>4 DEF ResidualAnswered, Answered
    <2>2. LegOf(t).qty = job[t].fill1 - job[t].fill2
        BY <2>1 DEF LegOf
    <2> DEFINE kept == job[t].fill1 - job[t].reply.qty
    <2>3. kept \in Qty /\ job[t].reply.qty <= job[t].fill1 - job[t].fill2
        BY <1>1, <2>1, <2>2, LotsAssumption DEF ReplyOK, FillsOK, Qty
    <2>4. OpenHedge(t, kept, job[t].fill2)
        BY <2>1
    <2>5. p = job[t].plan /\ kept # job[t].fill2
        <3> HIDE DEF kept
        <3> QED
            BY <1>1, <1>2, <2>3, <2>4
    <2>6. job[t].reply.qty < job[t].fill1 - job[t].fill2
        <3>1. job[t].fill1 \in Int /\ job[t].fill2 \in Int /\ job[t].reply.qty \in Int
            BY <1>1
        <3> QED
            BY <2>3, <2>5, <3>1
    <2> QED
        BY <2>1, <2>5, <2>6 DEF ResidualKept
<1>5. CASE NotReversed(t)
    BY <1>5 DEF NotReversed, EngageIf
<1> QED
    BY <1>3, <1>4, <1>5

\* The step of an unwind that reduces a position leaves a balanced one balanced, or sounds
\* the alarm.
LEMMA UnwindBalance ==
    ASSUME IInv, SoldInv, NEW t \in Tasks,
           PerpClosed(t) \/ DexSold(t) \/ NotReshorted(t),
           NEW p \in Plans, Unbalanced(book'[p]), ~Unbalanced(book[p])
    PROVE  kill'
<1>0. TypeOK /\ Step(t)
    BY DEF IInv, Step
<1>1. job[t].phase \in UnwindPhases
    BY DEF PerpClosed, DexSold, NotReshorted, Answered, UnwindPhases, UnwindLegs
<1>2. /\ job[t].plan \in Plans /\ job[t].fill1 \in Qty /\ job[t].reply.qty \in Qty
      /\ 0 \in Qty /\ Qty \subseteq Int /\ Pos(t) \in Position
      /\ FillsOK(t) /\ ReplyOK(t) /\ Pos(t).open
    BY <1>0, <1>1, StepOnly, RunFacts DEF RunOK, Pos
<1>3. /\ Pos(t).dex \in Int /\ Pos(t).perp \in Int /\ Pos(t).dex >= 0 /\ Pos(t).perp >= 0
      /\ job[t].reply.qty \in Int /\ job[t].fill1 \in Int
    BY <1>2, LotsAssumption DEF Position, Qty
<1>4. ASSUME NEW pos, NEW r, NEW n, Reduce(job[t].plan, pos, r, n)
      PROVE  p = job[t].plan /\ Unbalanced(pos) /\ Pos(t).dex = Pos(t).perp
    <2>1. book' = [book EXCEPT ![job[t].plan] = pos]
        BY <1>4 DEF Reduce
    <2>2. p = job[t].plan
        BY <1>0, <2>1 DEF TypeOK
    <2>3. book'[p] = pos
        BY <1>0, <2>1, <2>2 DEF TypeOK
    <2> QED
        BY <1>2, <2>2, <2>3 DEF Unbalanced, Pos
<1>5. CASE PerpClosed(t)
    <2>1. job[t].phase = "u_perp" /\ job[t].sent /\ Filled(t)
        BY <1>5 DEF PerpClosed, Answered
    <2>2. job[t].reply.qty > 0 /\ job[t].reply.qty <= Pos(t).perp
        <3>1. LegOf(t).qty = Pos(t).perp
            BY <2>1 DEF LegOf
        <3> QED
            BY <1>2, <2>1, <3>1 DEF ReplyOK, Filled
    <2>3. CASE Pos(t).dex > 0
        <3>1. book' = book
            BY <1>5, <2>3 DEF PerpClosed
        <3> QED
            BY <3>1
    <2>4. CASE ~(Pos(t).dex > 0)
        <3>1. CloseLeg(t, "perp", job[t].reply.qty)
            BY <1>5, <2>4 DEF PerpClosed
        <3>2. Pos(t).dex = Pos(t).perp
            BY <1>4, <3>1 DEF CloseLeg
        <3> QED
            BY <1>3, <2>2, <2>4, <3>2
    <2> QED
        BY <2>3, <2>4
<1>6. CASE DexSold(t)
    <2>1. job[t].phase = "u_dex" /\ job[t].sent /\ Filled(t)
        BY <1>6 DEF DexSold, Answered
    <2>2. job[t].reply.qty = LegOf(t).qty /\ job[t].reply.qty > 0
          /\ (job[t].fill1 = 0 => Pos(t).perp = 0)
        BY <1>2, <2>1 DEF SoldInv, SoldOK, ReplyOK, Filled
    <2>3. CASE job[t].fill1 > 0
        <3> DEFINE new == BothClosed(Pos(t), job[t].reply.qty, job[t].fill1)
        <3>1. Reduce(job[t].plan, new, BothReleases(Pos(t), job[t].fill1), new.perp)
            BY <1>6, <2>3 DEF DexSold
        <3>2. Unbalanced(new) /\ Pos(t).dex = Pos(t).perp
            <4> HIDE DEF new
            <4> QED
                BY <1>4, <3>1
        <3>3. job[t].fill1 <= Pos(t).perp
            BY <1>2, <2>1 DEF FillsOK
        <3>4. job[t].reply.qty = job[t].fill1
            <4>1. LegOf(t).qty = Smaller(job[t].fill1, Pos(t).dex)
                BY <2>1, <2>3 DEF LegOf
            <4> QED
                BY <1>3, <2>2, <3>2, <3>3, <4>1 DEF Smaller
        <3>5. Smaller(job[t].fill1, Pos(t).dex) = job[t].fill1
              /\ Smaller(job[t].fill1, Pos(t).perp) = job[t].fill1
            BY <1>3, <3>2, <3>3 DEF Smaller
        <3>6. new.dex = new.perp
            BY <1>2, <3>2, <3>4, <3>5 DEF BothClosed, Settle, NoPosition, Position
        <3> QED
            BY <3>2, <3>6 DEF Unbalanced
    <2>4. CASE ~(job[t].fill1 > 0)
        <3>1. CloseLeg(t, "dex", job[t].reply.qty)
            BY <1>6, <2>4 DEF DexSold
        <3>2. Pos(t).dex = Pos(t).perp
            BY <1>4, <3>1 DEF CloseLeg
        <3>3. job[t].fill1 = 0
            BY <1>2, <2>4, LotsAssumption DEF Qty
        <3>4. LegOf(t).qty = Pos(t).dex
            BY <2>1, <2>4 DEF LegOf
        <3> QED
            BY <1>3, <2>2, <3>2, <3>3, <3>4
    <2> QED
        BY <2>3, <2>4
<1>7. CASE NotReshorted(t)
    BY <1>7 DEF NotReshorted, EngageIf
<1> QED
    BY <1>5, <1>6, <1>7

\* Every step keeps what holds of unbalanced positions.
LEMMA BalanceStep ==
    ASSUME IInv, SoldInv, [Next]_vars,
           NEW p \in Plans, Unbalanced(book'[p]), ~Unbalanced(book[p])
    PROVE  kill' \/ ResidualKept(p)
<1>1. book' # book
    OBVIOUS
<1>2. ASSUME NEW t \in Tasks, Step(t) PROVE kill' \/ ResidualKept(p)
    <2>1. \/ SecondLegFilled(t) \/ ResidualAnswered(t) \/ NotReversed(t)
          \/ PerpClosed(t) \/ DexSold(t) \/ NotReshorted(t)
        BY <1>1, <1>2 DEF Step, SendLeg, Commit, Veto, FirstLegFilled, FirstLegRefused,
           FirstLegUnknown, SecondLegFailed, Reversed, UnwindApproved, UnwindRefused,
           PerpNotClosed, DexNotSold, Reshorted
    <2> QED
        BY <2>1, EntryBalance, UnwindBalance
<1>3. ASSUME NEW t \in Tasks, NEW q \in Plans PROVE ~Execute(t, q) /\ ~Unwind(t, q)
    BY <1>1 DEF Execute, Unwind
<1>4. ~Environment /\ ~UNCHANGED vars
    BY <1>1 DEF Environment, Propose, Expire, OperatorKill, Halt, ResetHalt, vars
<1> QED
    BY <1>2, <1>3, <1>4 DEF Next

\* "A half-closed book is never left silently", as far as it is true: a step that unbalances
\* a position engages the kill switch, except where a residual was not reversed in full.
THEOREM ImbalanceNeverSilent == Spec => ImbalanceAlarmed
<1>1. CashInv /\ [Next]_vars
      => [\A p \in Plans : (Unbalanced(book'[p]) /\ ~Unbalanced(book[p])) => kill' \/ ResidualKept(p)]_vars
    BY BalanceStep DEF CashInv
<1> QED
    BY <1>1, CashInvariance, PTL DEF Spec, ImbalanceAlarmed

------------------------------------------------------------------------------
(* How far book and venues are apart while a run is in flight.               *)

\* One leg of a position, what the book holds of a leg, how far the venue is from it now,
\* and how far it was when the run in flight began.
LegIn(pos, v) == IF v = "dex" THEN pos.dex ELSE pos.perp
Booked(v) == SumFunction([p \in Plans |-> LegIn(book[p], v)])
Apart(v)  == venue[v] - Booked(v)
Before(v) == IF v = "dex" THEN began.dex ELSE began.perp

\* What the run has moved at v with its earlier legs, and with the one it has an answer to.
OffOf(ph, f1, f2, v) ==
    CASE ph \in {"leg2", "reverse"} -> IF v = First THEN f1 ELSE 0
      [] ph = "residual" -> IF v = First THEN f1 ELSE f2
      [] ph \in {"u_dex", "u_reshort"} -> IF v = "perp" THEN -f1 ELSE 0
      [] OTHER -> 0

Off(t, v) == OffOf(job[t].phase, job[t].fill1, job[t].fill2, v)

Signed(t)   == IF LegOf(t).side = "open" THEN job[t].reply.qty ELSE -job[t].reply.qty
Moved(t, v) == IF job[t].sent /\ LegOf(t).venue = v THEN Signed(t) ELSE 0

\* What a run does not know: the venue of a leg whose outcome is unknown, and, when it
\* re-shorts, the DEX it could not sell on.
Known(t, v) == /\ job[t].sent /\ Unknown(t) => LegOf(t).venue # v
               /\ job[t].phase = "u_reshort" => v = "perp"

\* Until it has engaged the kill switch, a run knows exactly what it moved.
RunDrift(t) == alarm \/ \A v \in Venues : Known(t, v) => Apart(v) = Before(v) + Off(t, v) + Moved(t, v)

DriftInv == /\ began \in [dex : Int, perp : Int]
            /\ \A t \in Tasks : InFlight(t) => RunDrift(t)

\* What a leg has in flight is a quantity of lots.
LEMMA LegInType ==
    ASSUME NEW pos \in Position, NEW v \in Venues
    PROVE  LegIn(pos, v) \in Qty /\ LegIn(pos, v) \in Int /\ LegIn(NoPosition, v) = 0
BY LotsAssumption DEF LegIn, Position, Qty, NoPosition

\* So is what the book holds of it.
LEMMA BookedType ==
    ASSUME TypeOK, NEW v \in Venues
    PROVE  Booked(v) \in Int /\ Apart(v) \in Int
<1> DEFINE f == [p \in Plans |-> LegIn(book[p], v)]
<1>1. \A p \in Plans : LegIn(book[p], v) \in Int
    BY LegInType DEF TypeOK
<1>2. f \in [Plans -> Int]
    BY <1>1
<1> HIDE DEF f
<1>3. SumFunction(f) \in Int
    BY <1>2, PlansAssumption, SumType
<1>4. Booked(v) \in Int
    BY <1>3 DEF Booked, f
<1> QED
    BY <1>4 DEF Apart, TypeOK

\* Drift is the two distances, and the run's starting point theirs.
LEMMA DriftIs ==
    ASSUME TypeOK
    PROVE  Drift = [dex |-> Apart("dex"), perp |-> Apart("perp")]
<1>1. [p \in Plans |-> LegIn(book[p], "dex")] = [p \in Plans |-> book[p].dex]
    BY DEF LegIn
<1>2. [p \in Plans |-> LegIn(book[p], "perp")] = [p \in Plans |-> book[p].perp]
    BY DEF LegIn
<1> QED
    BY <1>1, <1>2 DEF Drift, Apart, Booked

\* One position changes, and the distances with it.
LEMMA ApartUpdate ==
    ASSUME TypeOK, TypeOK', NEW p \in Plans, NEW pos \in Position,
           book' = [book EXCEPT ![p] = pos], venue' = venue, NEW v \in Venues
    PROVE  Apart(v)' = Apart(v) - (LegIn(pos, v) - LegIn(book[p], v))
<1> DEFINE f == [q \in Plans |-> LegIn(book[q], v)]
           g == [q \in Plans |-> LegIn(book'[q], v)]
<1>1. \A q \in Plans : LegIn(book[q], v) \in Int /\ LegIn(book'[q], v) \in Int
    BY LegInType DEF TypeOK
<1>2. f \in [Plans -> Int] /\ g \in [Plans -> Int]
    BY <1>1
<1>3. book'[p] = pos /\ \A q \in Plans : q # p => book'[q] = book[q]
    BY DEF TypeOK
<1>4. \A q \in Plans : q # p => g[q] = f[q]
    BY <1>3
<1>5. f[p] = LegIn(book[p], v) /\ g[p] = LegIn(pos, v)
    BY <1>3
<1>6. Booked(v) = SumFunction(f) /\ Booked(v)' = SumFunction(g)
    BY DEF Booked
<1> HIDE DEF f, g
<1>7. SumFunction(g) = SumFunction(f) + g[p] - f[p]
    BY <1>2, <1>4, PlansAssumption, SumUpdate
<1>8. Booked(v) \in Int /\ Apart(v) \in Int /\ venue[v] \in Int
    BY BookedType DEF TypeOK
<1>9. LegIn(pos, v) \in Int /\ LegIn(book[p], v) \in Int
    BY <1>1, LegInType
<1>10. Booked(v)' = Booked(v) + LegIn(pos, v) - LegIn(book[p], v)
    BY <1>5, <1>6, <1>7
<1> QED
    BY <1>8, <1>9, <1>10 DEF Apart

\* A step that moves neither book nor venue leaves them as far apart as they were.
LEMMA ApartSame ==
    ASSUME UNCHANGED <<book, venue>>, NEW v \in Venues
    PROVE  Apart(v)' = Apart(v)
BY DEF Apart, Booked

\* The two legs are the two sides of a venue.
LEMMA Sides ==
    /\ First \in Venues /\ Second \in Venues /\ First # Second
    /\ \A v \in Venues : v = First \/ v = Second
BY ModeAssumption DEF First, Second, Venues

\* What the venue moved is what the router reports, unless it reports nothing.
LEMMA OutcomeMoved ==
    ASSUME NEW leg, NEW o \in Outcomes(leg), o.reply.err # "unknown"
    PROVE  o.moved = o.reply.qty
BY DEF Outcomes

\* A quantity comes only with a fill.
LEMMA NoFillNoQty ==
    ASSUME IInv, NEW t \in Tasks, InFlight(t), ~Filled(t)
    PROVE  job[t].reply.qty = 0
<1>1. job[t].reply.qty \in Qty /\ ReplyOK(t)
    BY RunFacts DEF RunOK
<1> QED
    BY <1>1, LotsAssumption DEF ReplyOK, Filled, Qty

\* A leg is sent: the venue moves by what is reported, or to a place nobody knows.
LEMMA SendDrift ==
    ASSUME IInv, DriftInv, NEW t \in Tasks, SendLeg(t)
    PROVE  RunDrift(t)'
<1>0. TypeOK
    BY DEF IInv
<1> DEFINE leg == LegOf(t)
<1>1. job[t].phase \in Legs /\ ~job[t].sent
    BY DEF SendLeg
<1>2. PICK o \in Outcomes(leg) :
          /\ job' = [job EXCEPT ![t] = [job[t] EXCEPT !.sent = TRUE, !.reply = o.reply]]
          /\ venue' = [venue EXCEPT ![leg.venue] = IF leg.side = "open" THEN @ + o.moved ELSE @ - o.moved]
    BY DEF SendLeg
<1>3. UNCHANGED <<book, alarm, began>>
    BY DEF SendLeg
<1>4. job[t] \in Job
    BY <1>0 DEF TypeOK
<1>5. /\ job'[t].phase = job[t].phase /\ job'[t].plan = job[t].plan /\ job'[t].sent = TRUE
      /\ job'[t].fill1 = job[t].fill1 /\ job'[t].fill2 = job[t].fill2 /\ job'[t].reply = o.reply
    BY <1>0, <1>2, <1>4 DEF TypeOK, Job
<1>6. LegOf(t)' = leg
    BY <1>3, <1>5 DEF LegOf, Pos
<1>7. leg.venue \in Venues /\ leg.qty \in Qty
    BY <1>1, LegType
<1> HIDE DEF leg
<1>8. o.moved \in Int /\ o.reply.qty \in Int
    BY <1>0, <1>7, OutcomeBound, LotsAssumption DEF Answer, Qty
<1>9. o.reply.err # "unknown" => o.moved = o.reply.qty
    BY OutcomeMoved
<1>10. RunDrift(t)
    BY <1>1 DEF DriftInv, InFlight, Legs, EntryLegs, UnwindLegs
<1> SUFFICES ASSUME ~alarm, NEW v \in Venues, Known(t, v)'
             PROVE  Apart(v)' = Before(v)' + Off(t, v)' + Moved(t, v)'
    BY <1>3 DEF RunDrift
<1>11. Off(t, v)' = Off(t, v) /\ Before(v)' = Before(v) /\ Moved(t, v) = 0
    BY <1>1, <1>3, <1>5 DEF Off, Before, Moved
<1>12. Known(t, v)
    BY <1>1, <1>5 DEF Known
<1>13. Off(t, v) \in Int /\ Before(v) \in Int /\ Apart(v) \in Int
    <2>1. job[t].fill1 \in Int /\ job[t].fill2 \in Int
        BY <1>4, LotsAssumption DEF Job, Qty
    <2>2. Off(t, v) \in Int
        BY <2>1 DEF Off, OffOf
    <2>3. Before(v) \in Int
        BY DEF DriftInv, Before
    <2> QED
        BY <1>0, <2>2, <2>3, BookedType
<1>14. Apart(v) = Before(v) + Off(t, v)
    BY <1>10, <1>11, <1>12, <1>13 DEF RunDrift
<1>15. Booked(v)' = Booked(v) /\ Booked(v) \in Int /\ venue[v] \in Int
    BY <1>0, <1>3, BookedType DEF Booked, TypeOK
<1>16. CASE v # leg.venue
    <2>1. venue'[v] = venue[v]
        BY <1>0, <1>2, <1>7, <1>16 DEF TypeOK
    <2>2. Moved(t, v)' = 0
        BY <1>6, <1>16 DEF Moved
    <2> QED
        BY <1>11, <1>13, <1>14, <1>15, <2>1, <2>2 DEF Apart
<1>17. CASE v = leg.venue
    <2>1. o.reply.err # "unknown"
        BY <1>5, <1>6, <1>17 DEF Known, Unknown
    <2>2. Moved(t, v)' = IF leg.side = "open" THEN o.moved ELSE -o.moved
        BY <1>5, <1>6, <1>9, <1>17, <2>1 DEF Moved, Signed
    <2>3. venue'[v] = IF leg.side = "open" THEN venue[v] + o.moved ELSE venue[v] - o.moved
        BY <1>0, <1>2, <1>7, <1>17 DEF TypeOK
    <2> QED
        BY <1>8, <1>11, <1>13, <1>14, <1>15, <2>2, <2>3 DEF Apart
<1> QED
    BY <1>16, <1>17

\* Going on to a leg: what was moved so far is accounted to the legs before it.
LEMMA GoToDrift ==
    ASSUME IInv, DriftInv, NEW t \in Tasks, NEW ph \in Phases, NEW f1 \in Qty, NEW f2 \in Qty,
           GoTo(t, ph, f1, f2), UNCHANGED <<book, venue>>,
           \/ alarm'
           \/ \A v \in Venues : (ph = "u_reshort" => v = "perp") => Apart(v) = Before(v) + OffOf(ph, f1, f2, v)
    PROVE  RunDrift(t)'
<1>1. job'[t].phase = ph /\ job'[t].sent = FALSE
    BY GoToEffect DEF IInv
<1>2. job'[t].fill1 = f1 /\ job'[t].fill2 = f2 /\ began' = began
    <2>1. TypeOK
        BY DEF IInv
    <2>2. began' = began
        BY DEF GoTo
    <2> QED
        BY ONLY <2>1, <2>2, t \in Tasks, GoTo(t, ph, f1, f2), GoToLocals
<1> SUFFICES ASSUME ~alarm', NEW v \in Venues, Known(t, v)'
             PROVE  Apart(v)' = Before(v)' + Off(t, v)' + Moved(t, v)'
    BY DEF RunDrift
<1>3. Before(v)' = Before(v) /\ Off(t, v)' = OffOf(ph, f1, f2, v) /\ Moved(t, v)' = 0
    BY <1>1, <1>2 DEF Before, Off, Moved
<1>4. ph = "u_reshort" => v = "perp"
    BY <1>1 DEF Known
<1>5. Apart(v)' = Apart(v)
    BY ApartSame
<1>6. OffOf(ph, f1, f2, v) \in Int /\ Before(v) \in Int
    BY LotsAssumption DEF OffOf, Before, DriftInv, Qty
<1> QED
    BY <1>3, <1>4, <1>5, <1>6

\* What a run knows when it acts on an answer.
LEMMA AnsweredDrift ==
    ASSUME IInv, DriftInv, NEW t \in Tasks, InFlight(t), ~alarm, NEW v \in Venues, Known(t, v)
    PROVE  /\ Apart(v) = Before(v) + Off(t, v) + Moved(t, v)
           /\ Apart(v) \in Int /\ Before(v) \in Int /\ Off(t, v) \in Int /\ Moved(t, v) \in Int
           /\ ~Filled(t) => Moved(t, v) = 0
<1>1. RunDrift(t)
    BY DEF DriftInv
<1>2. job[t].fill1 \in Int /\ job[t].fill2 \in Int /\ job[t].reply.qty \in Int
    BY RunFacts
<1>3. Off(t, v) \in Int /\ Before(v) \in Int /\ Moved(t, v) \in Int
    BY <1>2 DEF Off, OffOf, Before, Moved, Signed, DriftInv
<1>4. Apart(v) \in Int
    BY BookedType DEF IInv
<1>5. ~Filled(t) => Moved(t, v) = 0
    BY NoFillNoQty DEF Moved, Signed
<1> QED
    BY <1>1, <1>3, <1>4, <1>5 DEF RunDrift

\* The steps by which a run goes on.
LEMMA GoOnDrift ==
    ASSUME IInv, DriftInv, NEW t \in Tasks, Step(t), ~SendLeg(t), ~Leave(t)
    PROVE  RunDrift(t)'
<1>0. TypeOK /\ InFlight(t)
    BY StepOnly DEF IInv
<1>1. /\ job[t].fill1 \in Qty /\ job[t].reply.qty \in Qty /\ 0 \in Qty
      /\ job[t].fill1 \in Int /\ job[t].reply.qty \in Int /\ ReplyOK(t)
      /\ Pos(t) \in Position
    BY <1>0, RunFacts DEF RunOK
<1>2. job[t].phase \in Phases
    BY <1>0 DEF TypeOK, Job
<1> USE DEF OffOf
<1>3. CASE Commit(t)
    <2>1. Calling(t, "requote") /\ GoTo(t, "leg1", 0, 0) /\ UNCHANGED <<book, venue, alarm>>
        BY <1>3 DEF Commit
    <2>2. ASSUME NEW v \in Venues, ~alarm PROVE Apart(v) = Before(v) + OffOf("leg1", 0, 0, v)
        <3>1. Known(t, v) /\ Off(t, v) = 0 /\ Moved(t, v) = 0
            BY <2>1 DEF Known, Off, Moved, Calling
        <3> QED
            BY <1>0, <2>2, <3>1, AnsweredDrift
    <2>3. "leg1" \in Phases
        BY DEF Phases, Legs, EntryLegs
    <2> QED
        BY <1>1, <2>1, <2>2, <2>3, GoToDrift
<1>4. CASE FirstLegFilled(t)
    <2>1. Answered(t, "leg1") /\ Filled(t) /\ GoTo(t, "leg2", job[t].reply.qty, 0)
          /\ UNCHANGED <<book, venue, alarm>>
        BY <1>4 DEF FirstLegFilled
    <2>2. LegOf(t).venue = First /\ LegOf(t).side = "open"
        BY <2>1 DEF LegOf, Answered
    <2>3. ASSUME NEW v \in Venues, ~alarm PROVE Apart(v) = Before(v) + OffOf("leg2", job[t].reply.qty, 0, v)
        <3>1. Known(t, v) /\ Off(t, v) = 0 /\ Moved(t, v) = IF v = First THEN job[t].reply.qty ELSE 0
            BY <2>1, <2>2 DEF Known, Off, Moved, Signed, Answered, Filled, Unknown
        <3> QED
            BY <1>0, <1>1, <2>3, <3>1, AnsweredDrift
    <2>4. "leg2" \in Phases
        BY DEF Phases, Legs, EntryLegs
    <2> QED
        BY <1>1, <2>1, <2>3, <2>4, GoToDrift
<1>5. CASE SecondLegFilled(t)
    <2>1. Answered(t, "leg2") /\ Filled(t) /\ GoTo(t, "residual", job[t].fill1, job[t].reply.qty)
          /\ UNCHANGED <<book, venue, alarm>>
        BY <1>0, <1>5 DEF SecondLegFilled
    <2>2. LegOf(t).venue = Second /\ LegOf(t).side = "open"
        BY <2>1 DEF LegOf, Answered
    <2>3. ASSUME NEW v \in Venues, ~alarm
          PROVE  Apart(v) = Before(v) + OffOf("residual", job[t].fill1, job[t].reply.qty, v)
        <3>1. Known(t, v)
            BY <2>1 DEF Known, Answered, Filled, Unknown
        <3>2. Off(t, v) = IF v = First THEN job[t].fill1 ELSE 0
            BY <2>1 DEF Off, Answered
        <3>3. Moved(t, v) = IF v = First THEN 0 ELSE job[t].reply.qty
            BY <2>1, <2>2, Sides DEF Moved, Signed, Answered
        <3> QED
            BY <1>0, <1>1, <2>3, <3>1, <3>2, <3>3, AnsweredDrift
    <2> QED
        BY <1>1, <2>1, <2>3, GoToDrift DEF Phases, Legs, EntryLegs
<1>6. CASE SecondLegFailed(t)
    <2>1. Answered(t, "leg2") /\ ~Filled(t) /\ GoTo(t, "reverse", job[t].fill1, 0)
          /\ UNCHANGED <<book, venue>> /\ EngageIf(Unknown(t))
        BY <1>6 DEF SecondLegFailed
    <2>2. ASSUME NEW v \in Venues, ~alarm' PROVE Apart(v) = Before(v) + OffOf("reverse", job[t].fill1, 0, v)
        <3>1. ~alarm /\ ~Unknown(t)
            BY <2>1, <2>2 DEF EngageIf
        <3>2. Known(t, v) /\ Off(t, v) = IF v = First THEN job[t].fill1 ELSE 0
            BY <2>1, <3>1 DEF Known, Off, Answered
        <3> QED
            BY <1>0, <1>1, <2>1, <3>1, <3>2, AnsweredDrift
    <2> QED
        BY <1>1, <2>1, <2>2, GoToDrift DEF Phases, Legs, EntryLegs
<1>7. CASE UnwindApproved(t)
    <2> DEFINE ph == IF Pos(t).perp > 0 THEN "u_perp" ELSE "u_dex"
    <2>1. Calling(t, "u_requote") /\ GoTo(t, ph, 0, 0) /\ UNCHANGED <<book, venue, alarm>>
        BY <1>7 DEF UnwindApproved
    <2>2. ph \in {"u_perp", "u_dex"}
        OBVIOUS
    <2> HIDE DEF ph
    <2>3. ASSUME NEW v \in Venues, ~alarm PROVE Apart(v) = Before(v) + OffOf(ph, 0, 0, v)
        <3>1. Known(t, v) /\ Off(t, v) = 0 /\ Moved(t, v) = 0
            BY <2>1 DEF Known, Off, Moved, Calling
        <3> QED
            BY <1>0, <2>2, <2>3, <3>1, AnsweredDrift
    <2> QED
        BY <1>1, <2>1, <2>2, <2>3, GoToDrift DEF Phases, Legs, UnwindLegs
<1>8. CASE PerpClosed(t)
    <2>1. Answered(t, "u_perp") /\ Filled(t) /\ GoTo(t, "u_dex", job[t].reply.qty, 0)
          /\ UNCHANGED <<book, venue, alarm>>
        BY <1>0, <1>8 DEF PerpClosed
    <2>2. LegOf(t).venue = "perp" /\ LegOf(t).side = "close"
        BY <2>1 DEF LegOf, Answered
    <2>3. ASSUME NEW v \in Venues, ~alarm PROVE Apart(v) = Before(v) + OffOf("u_dex", job[t].reply.qty, 0, v)
        <3>1. Known(t, v) /\ Off(t, v) = 0 /\ Moved(t, v) = IF v = "perp" THEN -job[t].reply.qty ELSE 0
            BY <2>1, <2>2 DEF Known, Off, Moved, Signed, Answered, Filled, Unknown
        <3> QED
            BY <1>0, <1>1, <2>3, <3>1, AnsweredDrift
    <2> QED
        BY <1>1, <2>1, <2>3, GoToDrift DEF Phases, Legs, UnwindLegs
<1>9. CASE DexNotSold(t)
    <2>1. Answered(t, "u_dex") /\ ~Filled(t) /\ GoTo(t, "u_reshort", job[t].fill1, 0)
          /\ UNCHANGED <<book, venue, alarm>>
        BY <1>0, <1>9 DEF DexNotSold
    <2>2. LegOf(t).venue = "dex"
        BY <2>1 DEF LegOf, Answered
    <2>3. ASSUME ~alarm PROVE Apart("perp") = Before("perp") + OffOf("u_reshort", job[t].fill1, 0, "perp")
        <3>1. Known(t, "perp") /\ Off(t, "perp") = -job[t].fill1 /\ Moved(t, "perp") = 0
            BY <2>1, <2>2 DEF Known, Off, Moved, Answered
        <3>2. "perp" \in Venues
            BY DEF Venues
        <3> QED
            BY <1>0, <1>1, <2>3, <3>1, <3>2, AnsweredDrift
    <2> QED
        BY <1>1, <2>1, <2>3, GoToDrift DEF Phases, Legs, UnwindLegs
<1> QED
    BY <1>0, <1>3, <1>4, <1>5, <1>6, <1>7, <1>8, <1>9
       DEF Step, Veto, FirstLegRefused, FirstLegUnknown, ResidualAnswered, Reversed, NotReversed,
           UnwindRefused, PerpNotClosed, DexSold, Reshorted, NotReshorted

\* Every step keeps the account of how far book and venues are apart.
LEMMA DriftPreserved ==
    ASSUME IInv, DriftInv, [Next]_vars
    PROVE  DriftInv'
<1>0. TypeOK
    BY DEF IInv
<1>1. ASSUME NEW t \in Tasks, Step(t) PROVE DriftInv'
    <2>1. began' = began
        BY <1>1 DEF Step, SendLeg, Commit, Veto, FirstLegFilled, FirstLegRefused, FirstLegUnknown,
           SecondLegFilled, SecondLegFailed, ResidualAnswered, Reversed, NotReversed,
           UnwindApproved, UnwindRefused, PerpClosed, PerpNotClosed, DexSold, DexNotSold,
           Reshorted, NotReshorted, GoTo, Leave
    <2> SUFFICES ASSUME NEW u \in Tasks, InFlight(u)' PROVE RunDrift(u)'
        BY <2>1 DEF DriftInv
    <2>2. u = t
        BY <1>1, StepOnly DEF InFlight
    <2>3. ~Leave(t)
        BY <1>0, <2>2, LeaveEffect DEF InFlight, IdleJob
    <2> QED
        BY <1>1, <2>2, <2>3, SendDrift, GoOnDrift
<1>2. ASSUME NEW t \in Tasks, NEW p \in Plans, Execute(t, p) \/ Unwind(t, p) PROVE DriftInv'
    <2>1. PICK ph \in {"requote", "u_requote"} : Enter(t, p, ph) /\ UNCHANGED <<book, venue>>
        BY <1>2 DEF Execute, Unwind
    <2>2. ph \in Phases
        BY DEF Phases
    <2>3. /\ job'[t] = [IdleJob EXCEPT !.phase = ph, !.plan = p] /\ lock = None
          /\ \A v \in Tasks : v # t => job'[v] = job[v]
        BY <1>0, <2>1, <2>2, EnterEffect
    <2>4. job'[t].phase = ph /\ job'[t].sent = FALSE
        BY <2>3 DEF IdleJob
    <2>5. began' = [dex |-> Apart("dex"), perp |-> Apart("perp")]
        BY <1>0, <2>1, DriftIs DEF Enter
    <2>6. \A v \in Venues : Apart(v) \in Int
        BY <1>0, BookedType
    <2>7. began' \in [dex : Int, perp : Int]
        BY <2>5, <2>6 DEF Venues
    <2> SUFFICES ASSUME NEW u \in Tasks, InFlight(u)' PROVE RunDrift(u)'
        BY <2>7 DEF DriftInv
    <2>8. u = t
        BY <2>3, NoneAssumption DEF InFlight, IInv, LockInv
    <2> SUFFICES ASSUME NEW v \in Venues PROVE Apart(v)' = Before(v)' + Off(t, v)' + Moved(t, v)'
        BY <2>8 DEF RunDrift
    <2>9. Before(v)' = Apart(v)
        BY <2>5 DEF Before, Venues
    <2>10. Off(t, v)' = 0 /\ Moved(t, v)' = 0
        BY <2>4 DEF Off, OffOf, Moved
    <2>11. Apart(v)' = Apart(v)
        BY <2>1, ApartSame
    <2> QED
        BY <2>6, <2>9, <2>10, <2>11
<1>3. CASE Environment \/ UNCHANGED vars
    <2>1. UNCHANGED <<job, book, venue, began, alarm>>
        BY <1>3 DEF Environment, Propose, Expire, OperatorKill, Halt, ResetHalt, vars
    <2> SUFFICES ASSUME NEW u \in Tasks, InFlight(u)' PROVE RunDrift(u)'
        BY <2>1 DEF DriftInv
    <2>2. InFlight(u) /\ RunDrift(u)
        BY <2>1 DEF InFlight, DriftInv
    <2>3. LegOf(u)' = LegOf(u)
        BY <2>1 DEF LegOf, Pos
    <2>4. \A v \in Venues : /\ Known(u, v)' = Known(u, v) /\ Apart(v)' = Apart(v) /\ Before(v)' = Before(v)
                            /\ Off(u, v)' = Off(u, v) /\ Moved(u, v)' = Moved(u, v)
        BY <2>1, <2>3, ApartSame DEF Known, Unknown, Before, Off, Moved, Signed
    <2> QED
        BY <2>1, <2>2, <2>4 DEF RunDrift
<1> QED
    BY <1>1, <1>2, <1>3 DEF Next

------------------------------------------------------------------------------
(* What a run leaves behind.                                                 *)

\* A drift that is the one the run began with, seen leg by leg.
LEMMA DriftBack ==
    ASSUME DriftInv, \A v \in Venues : Apart(v)' = Before(v)
    PROVE  Drift' = began
<1>1. [p \in Plans |-> LegIn(book'[p], "dex")] = [p \in Plans |-> book'[p].dex]
    BY DEF LegIn
<1>2. [p \in Plans |-> LegIn(book'[p], "perp")] = [p \in Plans |-> book'[p].perp]
    BY DEF LegIn
<1>3. Drift' = [dex |-> Apart("dex")', perp |-> Apart("perp")']
    BY <1>1, <1>2 DEF Drift, Apart, Booked
<1>4. Apart("dex")' = began.dex /\ Apart("perp")' = began.perp
    BY DEF Before, Venues
<1>5. began = [dex |-> began.dex, perp |-> began.perp]
    BY DEF DriftInv
<1> QED
    BY <1>3, <1>4, <1>5

\* close_leg takes what it is given off that leg of the position, up to the whole of it.
LEMMA LegClosedIn ==
    ASSUME NEW pos \in Position, NEW v \in Venues, NEW fill \in Qty, fill <= LegIn(pos, v), NEW w \in Venues
    PROVE  LegIn(LegClosed(pos, v, fill), w) = LegIn(pos, w) - (IF w = v THEN fill ELSE 0)
<1>1. /\ pos.dex \in Int /\ pos.perp \in Int /\ pos.dex >= 0 /\ pos.perp >= 0
      /\ fill \in Int /\ fill >= 0
    BY LotsAssumption DEF Position, Qty
<1>2. LegIn(pos, w) \in Int
    BY <1>1 DEF LegIn
<1> DEFINE nd == [pos EXCEPT !.dex = @ - fill, !.notional = @ - Share(@, fill, pos.dex)]
           np == [pos EXCEPT !.perp = @ - fill, !.margin = @ - Share(@, fill, pos.perp)]
<1>3. /\ nd.dex = pos.dex - fill /\ nd.perp = pos.perp
      /\ np.dex = pos.dex /\ np.perp = pos.perp - fill
    BY DEF Position
<1>4. CASE v = "dex"
    <2>1. Smaller(fill, pos.dex) = fill
        BY <1>1, <1>4 DEF Smaller, LegIn
    <2>2. LegClosed(pos, v, fill) = Settle(nd)
        BY <1>4, <2>1 DEF LegClosed
    <2> HIDE DEF nd
    <2>3. LegIn(Settle(nd), w) = LegIn(nd, w)
        BY DEF Settle, NoPosition, LegIn
    <2> QED
        BY <1>1, <1>3, <1>4, <2>2, <2>3 DEF LegIn, Venues
<1>5. CASE v = "perp"
    <2>1. Smaller(fill, pos.perp) = fill
        BY <1>1, <1>5 DEF Smaller, LegIn
    <2>2. LegClosed(pos, v, fill) = Settle(np)
        BY <1>5, <2>1 DEF LegClosed
    <2> HIDE DEF np
    <2>3. LegIn(Settle(np), w) = LegIn(np, w)
        BY DEF Settle, NoPosition, LegIn
    <2> QED
        BY <1>1, <1>3, <1>5, <2>2, <2>3 DEF LegIn, Venues
<1> QED
    BY <1>4, <1>5 DEF Venues

\* close_position takes each fill off its own leg.
LEMMA BothClosedIn ==
    ASSUME NEW pos \in Position, NEW d \in Qty, d <= pos.dex, NEW q \in Qty, q <= pos.perp,
           NEW w \in Venues
    PROVE  LegIn(BothClosed(pos, d, q), w) = LegIn(pos, w) - (IF w = "dex" THEN d ELSE q)
<1>1. Smaller(d, pos.dex) = d /\ Smaller(q, pos.perp) = q
    BY DEF Smaller
<1> DEFINE kept(x) == IF pos.perp <= 0 THEN 0 ELSE x - Share(x, q, pos.perp)
           new == [pos EXCEPT !.dex = @ - d, !.perp = @ - q,
                              !.notional = kept(@), !.margin = kept(@)]
<1>2. BothClosed(pos, d, q) = Settle(new)
    BY <1>1 DEF BothClosed
<1>3. new.dex = pos.dex - d /\ new.perp = pos.perp - q
    BY DEF Position
<1> HIDE DEF new
<1>4. LegIn(Settle(new), w) = LegIn(new, w)
    BY DEF Settle, NoPosition, LegIn
<1> QED
    BY <1>2, <1>3, <1>4 DEF LegIn, Venues

\* A run that leaves book and venues alone, having undone what it did.
LEMMA EndUndone ==
    ASSUME IInv, DriftInv, NEW t \in Tasks,
           \/ Veto(t) \/ UnwindRefused(t) \/ FirstLegRefused(t) \/ Reversed(t) \/ PerpNotClosed(t)
           \/ DexNotSold(t) /\ Leave(t)
           \/ Reshorted(t),
           ~alarm, ~kill', ~PassesSilently(t)
    PROVE  Drift' = began
<1>0. TypeOK /\ Step(t)
    BY DEF IInv, Step
<1>1. /\ InFlight(t) /\ ReplyOK(t) /\ FillsOK(t)
      /\ job[t].fill1 \in Int /\ job[t].reply.qty \in Int /\ job[t].fill1 >= 0
    BY <1>0, StepOnly, RunFacts, LotsAssumption DEF RunOK, Qty
<1>2. UNCHANGED <<book, venue>>
    BY <1>0, <1>1 DEF Veto, UnwindRefused, FirstLegRefused, Reversed, PerpNotClosed, DexNotSold, Reshorted
<1> SUFFICES ASSUME NEW v \in Venues PROVE Apart(v) = Before(v)
    BY <1>2, DriftBack, ApartSame
<1>3. ASSUME Known(t, v), Off(t, v) + Moved(t, v) = 0 PROVE Apart(v) = Before(v)
    BY <1>1, <1>3, AnsweredDrift
<1>4. CASE Veto(t) \/ UnwindRefused(t)
    <2>1. Calling(t, "requote") \/ Calling(t, "u_requote")
        BY <1>4 DEF Veto, UnwindRefused
    <2>2. Known(t, v) /\ Off(t, v) = 0 /\ Moved(t, v) = 0
        BY <2>1 DEF Calling, Known, Off, OffOf, Moved
    <2> QED
        BY <1>3, <2>2
<1>5. CASE FirstLegRefused(t)
    <2>1. Answered(t, "leg1") /\ job[t].reply.err = "refused"
        BY <1>5 DEF FirstLegRefused
    <2>2. Known(t, v) /\ Off(t, v) = 0
        BY <2>1 DEF Answered, Known, Unknown, Off, OffOf
    <2>3. ~Filled(t)
        BY <2>1 DEF Filled
    <2> QED
        BY <1>1, <1>3, <2>2, <2>3, AnsweredDrift
<1>6. CASE Reversed(t)
    <2>1. Answered(t, "reverse") /\ Filled(t)
        BY <1>6 DEF Reversed
    <2>2. LegOf(t).venue = First /\ LegOf(t).side = "close" /\ LegOf(t).qty = job[t].fill1
        BY <2>1 DEF LegOf, Answered
    <2>3. job[t].reply.qty = job[t].fill1
        BY <1>1, <2>1, <2>2 DEF ReplyOK, PassesSilently, Answered
    <2>4. Known(t, v) /\ Off(t, v) = (IF v = First THEN job[t].fill1 ELSE 0)
        BY <2>1 DEF Answered, Known, Unknown, Filled, Off, OffOf
    <2>5. Moved(t, v) = (IF v = First THEN -job[t].reply.qty ELSE 0)
        BY <2>1, <2>2 DEF Answered, Moved, Signed
    <2> QED
        BY <1>1, <1>3, <2>3, <2>4, <2>5
<1>7. CASE PerpNotClosed(t)
    <2>1. Answered(t, "u_perp") /\ ~Filled(t) /\ ~Unknown(t)
        BY <1>7 DEF PerpNotClosed, EngageIf
    <2>2. Known(t, v) /\ Off(t, v) = 0
        BY <2>1 DEF Answered, Known, Off, OffOf
    <2> QED
        BY <1>1, <1>3, <2>1, <2>2, AnsweredDrift
<1>8. CASE DexNotSold(t) /\ Leave(t)
    <2>1. Answered(t, "u_dex") /\ ~Filled(t) /\ ~Unknown(t)
        BY <1>8 DEF DexNotSold, PassesSilently, Answered
    <2>2. job[t].fill1 = 0
        <3>1. CASE job[t].fill1 > 0
            <4>1. GoTo(t, "u_reshort", job[t].fill1, 0)
                BY <1>8, <3>1 DEF DexNotSold
            <4>2. "u_reshort" \in Phases /\ job[t].fill1 \in Qty /\ 0 \in Qty
                BY <1>1, RunFacts DEF Phases, Legs, UnwindLegs
            <4>3. job'[t].phase = "u_reshort"
                BY <1>0, <4>1, <4>2, GoToEffect
            <4>4. job'[t].phase = "idle"
                BY <1>0, <1>8, LeaveEffect DEF IdleJob
            <4> QED
                BY <4>3, <4>4
        <3> QED
            BY <1>1, <3>1
    <2>3. Known(t, v)
        BY <2>1 DEF Answered, Known
    <2>4. Off(t, v) = IF v = "perp" THEN -job[t].fill1 ELSE 0
        BY <2>1 DEF Answered, Off, OffOf
    <2>5. Off(t, v) = 0 /\ Moved(t, v) = 0
        <3>1. Moved(t, v) = 0
            BY <1>1, <2>1, <2>3, AnsweredDrift
        <3>2. job[t].fill1 <= 0 /\ job[t].fill1 >= 0
            BY <2>2
        <3>3. -job[t].fill1 = 0
            BY <1>1, <3>2
        <3> QED
            BY <2>4, <3>1, <3>3
    <2> QED
        BY <1>3, <2>3, <2>5
<1>9. CASE Reshorted(t)
    <2>1. Answered(t, "u_reshort") /\ Filled(t)
        BY <1>9 DEF Reshorted
    <2>2. LegOf(t).venue = "perp" /\ LegOf(t).side = "open" /\ LegOf(t).qty = job[t].fill1
        BY <2>1 DEF LegOf, Answered
    <2>3. job[t].reply.qty = job[t].fill1 /\ Drift.dex = began.dex
        BY <1>1, <2>1, <2>2 DEF ReplyOK, PassesSilently, Answered
    <2>4. CASE v = "dex"
        BY <1>0, <2>3, <2>4, DriftIs DEF Before
    <2>5. CASE v = "perp"
        <3>1. Known(t, v) /\ Off(t, v) = -job[t].fill1 /\ Moved(t, v) = job[t].reply.qty
            BY <2>1, <2>2, <2>5 DEF Answered, Known, Unknown, Filled, Off, OffOf, Moved, Signed
        <3> QED
            BY <1>1, <1>3, <2>3, <3>1
    <2> QED
        BY <2>4, <2>5 DEF Venues
<1> QED
    BY <1>4, <1>5, <1>6, <1>7, <1>8, <1>9

\* An entry that opens a position books what it moved.
LEMMA EndOpened ==
    ASSUME IInv, IInv', DriftInv, NEW t \in Tasks, ResidualAnswered(t) \/ SecondLegFilled(t),
           Leave(t), ~alarm, ~PassesSilently(t)
    PROVE  Drift' = began
<1>0. TypeOK /\ TypeOK' /\ BookInv /\ Step(t)
    BY DEF IInv, Step
<1>1. /\ InFlight(t) /\ ReplyOK(t) /\ FillsOK(t) /\ job[t].plan \in Plans
      /\ job[t].fill1 \in Qty /\ job[t].fill2 \in Qty /\ job[t].reply.qty \in Qty
      /\ job[t].fill1 \in Int /\ job[t].fill2 \in Int /\ job[t].reply.qty \in Int
    BY <1>0, StepOnly, RunFacts DEF RunOK
<1> SUFFICES ASSUME NEW v \in Venues PROVE Apart(v)' = Before(v)
    BY DriftBack
<1>2. ASSUME NEW eff1 \in Qty, NEW fill2 \in Qty, OpenHedge(t, eff1, fill2), job[t].phase \in EntryPhases,
             Known(t, v), Off(t, v) + Moved(t, v) = (IF v = First THEN eff1 ELSE fill2)
      PROVE  Apart(v)' = Before(v)
    <2> DEFINE dex  == IF First = "dex" THEN eff1 ELSE fill2
               perp == IF First = "dex" THEN fill2 ELSE eff1
    <2>1. dex \in Qty /\ perp \in Qty
        BY <1>2
    <2>2. book' = [book EXCEPT ![job[t].plan] = Opened(dex, perp)]
        BY <1>2 DEF OpenHedge, Book
    <2>3. venue' = venue
        BY DEF ResidualAnswered, SecondLegFilled
    <2>4. LegIn(Opened(dex, perp), v) = (IF v = First THEN eff1 ELSE fill2)
        <3> HIDE DEF dex, perp
        <3>1. LegIn(Opened(dex, perp), v) = (IF v = "dex" THEN dex ELSE perp)
            BY <2>1, OpenedType DEF LegIn
        <3> QED
            BY <3>1, Sides DEF dex, perp, Venues
    <2>5. LegIn(book[job[t].plan], v) = 0
        <3>1. ~book[job[t].plan].open
            BY <1>1, <1>2, RunFacts DEF RunOK
        <3> QED
            BY <1>0, <1>1, <3>1, LegInType, NoPositionType DEF BookInv
    <2>6. Opened(dex, perp) \in Position
        BY <2>1, OpenedType
    <2> DEFINE pos == Opened(dex, perp)
    <2> HIDE DEF dex, perp, pos
    <2>7. Apart(v)' = Apart(v) - (LegIn(pos, v) - LegIn(book[job[t].plan], v))
        BY <1>0, <1>1, <2>2, <2>3, <2>6, ApartUpdate DEF pos
    <2>8. LegIn(pos, v) = Off(t, v) + Moved(t, v)
        BY <1>2, <2>4 DEF pos
    <2> QED
        BY <1>1, <1>2, <2>5, <2>7, <2>8, AnsweredDrift
<1>3. CASE SecondLegFilled(t)
    <2>1. Answered(t, "leg2") /\ Filled(t) /\ job[t].phase \in EntryPhases
        BY <1>3 DEF SecondLegFilled, Answered, EntryPhases, EntryLegs
    <2>2. OpenHedge(t, job[t].fill1, job[t].reply.qty)
        <3>1. CASE job[t].fill1 > job[t].reply.qty
            <4>1. GoTo(t, "residual", job[t].fill1, job[t].reply.qty) /\ "residual" \in Phases
                BY <1>3, <3>1 DEF SecondLegFilled, Phases, Legs, EntryLegs
            <4>2. job'[t].phase = "residual"
                BY <1>0, <4>1, GoToLocals
            <4>3. job'[t].phase = "idle"
                BY <1>0, LeaveEffect DEF IdleJob
            <4> QED
                BY <4>2, <4>3
        <3> QED
            BY <1>3, <3>1 DEF SecondLegFilled
    <2>3. LegOf(t).venue = Second /\ LegOf(t).side = "open"
        BY <2>1 DEF LegOf, Answered
    <2>4. Known(t, v) /\ Off(t, v) = IF v = First THEN job[t].fill1 ELSE 0
        BY <2>1 DEF Answered, Known, Unknown, Filled, Off, OffOf
    <2>5. Moved(t, v) = IF v = First THEN 0 ELSE job[t].reply.qty
        BY <2>1, <2>3, Sides DEF Answered, Moved, Signed
    <2>6. Off(t, v) + Moved(t, v) = IF v = First THEN job[t].fill1 ELSE job[t].reply.qty
        BY <1>1, <2>4, <2>5
    <2> QED
        BY <1>1, <1>2, <2>1, <2>2, <2>4, <2>6
<1>4. CASE ResidualAnswered(t)
    <2>1. Answered(t, "residual") /\ job[t].phase \in EntryPhases /\ ~Unknown(t)
          /\ OpenHedge(t, job[t].fill1 - job[t].reply.qty, job[t].fill2)
        BY <1>4 DEF ResidualAnswered, Answered, EntryPhases, EntryLegs, PassesSilently
    <2>2. LegOf(t).venue = First /\ LegOf(t).side = "close" /\ LegOf(t).qty = job[t].fill1 - job[t].fill2
        BY <2>1 DEF LegOf, Answered
    <2>3. Known(t, v) /\ Off(t, v) = IF v = First THEN job[t].fill1 ELSE job[t].fill2
        BY <2>1 DEF Answered, Known, Off, OffOf
    <2>4. Moved(t, v) = IF v = First THEN -job[t].reply.qty ELSE 0
        BY <2>1, <2>2 DEF Answered, Moved, Signed
    <2>5. job[t].fill1 - job[t].reply.qty \in Qty
        BY <1>1, <2>1, <2>2, LotsAssumption DEF ReplyOK, FillsOK, Answered, Qty
    <2>6. Off(t, v) + Moved(t, v) = IF v = First THEN job[t].fill1 - job[t].reply.qty ELSE job[t].fill2
        BY <1>1, <2>3, <2>4
    <2> DEFINE eff1 == job[t].fill1 - job[t].reply.qty
    <2>7. eff1 \in Qty /\ OpenHedge(t, eff1, job[t].fill2)
          /\ Off(t, v) + Moved(t, v) = IF v = First THEN eff1 ELSE job[t].fill2
        BY <2>1, <2>5, <2>6
    <2> HIDE DEF eff1
    <2> QED
        BY <1>1, <1>2, <2>1, <2>3, <2>7
<1> QED
    BY <1>3, <1>4

\* An unwind that reduces a position takes off what it closed.
LEMMA EndReduced ==
    ASSUME IInv, IInv', DriftInv, NEW t \in Tasks, PerpClosed(t) \/ DexSold(t),
           Leave(t), ~alarm
    PROVE  Drift' = began
<1>0. TypeOK /\ TypeOK' /\ Step(t)
    BY DEF IInv, Step
<1>1. /\ InFlight(t) /\ ReplyOK(t) /\ FillsOK(t) /\ job[t].plan \in Plans /\ Pos(t) \in Position
      /\ job[t].fill1 \in Qty /\ job[t].reply.qty \in Qty /\ 0 \in Qty
      /\ job[t].fill1 \in Int /\ job[t].reply.qty \in Int /\ job[t].fill1 >= 0
    BY <1>0, StepOnly, RunFacts, LotsAssumption DEF RunOK, Qty
<1>2. Pos(t).dex \in Int /\ Pos(t).perp \in Int /\ Pos(t).dex >= 0 /\ Pos(t).perp >= 0
    BY <1>1, LotsAssumption DEF Position, Qty
<1>3. Pos(t).open
    BY <1>1, RunFacts DEF RunOK, Pos, PerpClosed, DexSold, Answered, UnwindPhases, UnwindLegs
<1>4. venue' = venue
    BY DEF PerpClosed, DexSold
<1> SUFFICES ASSUME NEW v \in Venues PROVE Apart(v)' = Before(v)
    BY DriftBack
<1>5. ASSUME NEW pos \in Position, NEW r, NEW n, Reduce(job[t].plan, pos, r, n),
             Known(t, v), LegIn(pos, v) = LegIn(Pos(t), v) + (Off(t, v) + Moved(t, v))
      PROVE  Apart(v)' = Before(v)
    <2>1. book' = [book EXCEPT ![job[t].plan] = pos]
        BY <1>5 DEF Reduce
    <2>2. Apart(v)' = Apart(v) - (LegIn(pos, v) - LegIn(book[job[t].plan], v))
        BY <1>0, <1>1, <1>4, <2>1, ApartUpdate
    <2>3. LegIn(Pos(t), v) \in Int /\ book[job[t].plan] = Pos(t)
        BY <1>1, LegInType DEF Pos
    <2> QED
        BY <1>1, <1>5, <2>2, <2>3, AnsweredDrift
<1>6. CASE PerpClosed(t)
    <2>1. Answered(t, "u_perp") /\ Filled(t)
        BY <1>6 DEF PerpClosed
    <2>2. LegOf(t).venue = "perp" /\ LegOf(t).side = "close" /\ LegOf(t).qty = Pos(t).perp
        BY <2>1 DEF LegOf, Answered
    <2>3. job[t].reply.qty <= Pos(t).perp
        BY <2>1, <2>2 , <1>1 DEF ReplyOK, Answered
    <2>4. CloseLeg(t, "perp", job[t].reply.qty)
        <3>1. CASE Pos(t).dex > 0
            <4>1. GoTo(t, "u_dex", job[t].reply.qty, 0) /\ "u_dex" \in Phases
                BY <1>6, <3>1 DEF PerpClosed, Phases, Legs, UnwindLegs
            <4>2. job'[t].phase = "u_dex"
                BY <1>0, <4>1, GoToLocals
            <4>3. job'[t].phase = "idle"
                BY <1>0, LeaveEffect DEF IdleJob
            <4> QED
                BY <4>2, <4>3
        <3> QED
            BY <1>6, <3>1 DEF PerpClosed
    <2> DEFINE pos == LegClosed(Pos(t), "perp", job[t].reply.qty)
    <2>5. pos \in Position
        BY <1>1, <1>3, LegClosedEffect DEF Venues
    <2>6. LegIn(pos, v) = LegIn(Pos(t), v) - (IF v = "perp" THEN job[t].reply.qty ELSE 0)
        BY <1>1, <2>3, LegClosedIn DEF Venues, LegIn
    <2>7. Known(t, v) /\ Off(t, v) = 0 /\ Moved(t, v) = IF v = "perp" THEN -job[t].reply.qty ELSE 0
        BY <2>1, <2>2 DEF Answered, Known, Unknown, Filled, Off, OffOf, Moved, Signed
    <2>8. Reduce(job[t].plan, pos, LegReleases(Pos(t), "perp", job[t].reply.qty), LegRegistered(pos))
        BY <2>4 DEF CloseLeg
    <2> HIDE DEF pos
    <2>9. LegIn(Pos(t), v) \in Int
        BY <1>1, LegInType
    <2>10. LegIn(pos, v) = LegIn(Pos(t), v) + (Off(t, v) + Moved(t, v))
        BY <1>1, <2>6, <2>7, <2>9
    <2> QED
        BY <1>5, <2>5, <2>7, <2>8, <2>10
<1>7. CASE DexSold(t)
    <2>1. Answered(t, "u_dex") /\ Filled(t)
        BY <1>7 DEF DexSold
    <2>2. LegOf(t).venue = "dex" /\ LegOf(t).side = "close"
        BY <2>1 DEF LegOf, Answered
    <2>3. job[t].reply.qty <= Pos(t).dex
        <3>1. LegOf(t).qty <= Pos(t).dex
            BY <1>1, <1>2, <2>1 DEF LegOf, Answered, Smaller
        <3>2. LegOf(t).qty \in Int
            BY <1>1, <1>2, <2>1 DEF LegOf, Answered, Smaller
        <3> QED
            BY <1>1, <1>2, <2>1, <3>1, <3>2 DEF ReplyOK, Answered
    <2>4. Known(t, v) /\ Off(t, v) = IF v = "perp" THEN -job[t].fill1 ELSE 0
        BY <2>1 DEF Answered, Known, Unknown, Filled, Off, OffOf
    <2>5. Moved(t, v) = IF v = "dex" THEN -job[t].reply.qty ELSE 0
        BY <2>1, <2>2 DEF Answered, Moved, Signed
    <2>6. LegIn(Pos(t), v) \in Int
        BY <1>1, LegInType
    <2>7. CASE job[t].fill1 > 0
        <3> DEFINE pos == BothClosed(Pos(t), job[t].reply.qty, job[t].fill1)
        <3>1. Reduce(job[t].plan, pos, BothReleases(Pos(t), job[t].fill1), pos.perp)
            BY <1>7, <2>7 DEF DexSold
        <3>2. pos \in Position
            BY <1>1, <1>3, BothClosedEffect
        <3>3. job[t].fill1 <= Pos(t).perp
            BY <1>1, <2>1 DEF FillsOK, Answered
        <3>4. LegIn(pos, v) = LegIn(Pos(t), v) - (IF v = "dex" THEN job[t].reply.qty ELSE job[t].fill1)
            BY <1>1, <2>3, <3>3, BothClosedIn
        <3> HIDE DEF pos
        <3>5. LegIn(pos, v) = LegIn(Pos(t), v) + (Off(t, v) + Moved(t, v))
            BY <1>1, <2>4, <2>5, <2>6, <3>4 DEF Venues
        <3> QED
            BY <1>5, <2>4, <3>1, <3>2, <3>5
    <2>8. CASE job[t].fill1 = 0
        <3> DEFINE pos == LegClosed(Pos(t), "dex", job[t].reply.qty)
        <3>1. Reduce(job[t].plan, pos, LegReleases(Pos(t), "dex", job[t].reply.qty), LegRegistered(pos))
            BY <1>7, <2>8 DEF DexSold, CloseLeg
        <3>2. pos \in Position
            BY <1>1, <1>3, LegClosedEffect DEF Venues
        <3>3. LegIn(pos, v) = LegIn(Pos(t), v) - (IF v = "dex" THEN job[t].reply.qty ELSE 0)
            BY <1>1, <2>3, LegClosedIn DEF Venues, LegIn
        <3> HIDE DEF pos
        <3>4. LegIn(pos, v) = LegIn(Pos(t), v) + (Off(t, v) + Moved(t, v))
            BY <1>1, <2>4, <2>5, <2>6, <2>8, <3>3 DEF Venues
        <3> QED
            BY <1>5, <2>4, <3>1, <3>2, <3>4
    <2> QED
        BY <1>1, <2>7, <2>8
<1> QED
    BY <1>6, <1>7

\* Only the task itself ends its run, and by leaving the lock.
LEMMA EndIsLeave ==
    ASSUME IInv, [Next]_vars, NEW t \in Tasks, Ends(t)
    PROVE  Step(t) /\ Leave(t)
<1>0. TypeOK /\ InFlight(t) /\ ~InFlight(t)' /\ job'[t] # job[t]
    BY DEF IInv, Ends, InFlight
<1>1. ASSUME NEW u \in Tasks, Step(u) PROVE u = t
    BY <1>0, <1>1, StepOnly
<1>2. ASSUME NEW u \in Tasks, NEW p \in Plans PROVE ~Execute(u, p) /\ ~Unwind(u, p)
    <2>1. lock = t /\ t # None
        BY <1>0, NoneAssumption DEF IInv, LockInv
    <2> QED
        BY <2>1 DEF Execute, Unwind, Enter
<1>3. ~Environment /\ ~UNCHANGED vars
    BY <1>0 DEF Environment, Propose, Expire, OperatorKill, Halt, ResetHalt, vars
<1>4. Step(t)
    BY <1>1, <1>2, <1>3 DEF Next
<1>5. CASE SendLeg(t)
    <2>1. PICK o \in Outcomes(LegOf(t)) :
              job' = [job EXCEPT ![t] = [job[t] EXCEPT !.sent = TRUE, !.reply = o.reply]]
        BY <1>5 DEF SendLeg
    <2>2. job[t] \in Job
        BY <1>0 DEF TypeOK
    <2>3. job'[t].phase = job[t].phase
        BY <1>0, <2>1, <2>2 DEF TypeOK, Job
    <2> QED
        BY <1>0, <2>3 DEF InFlight
<1>6. ASSUME NEW ph \in Phases \ {"idle"}, NEW f1 \in Qty, NEW f2 \in Qty, GoTo(t, ph, f1, f2)
      PROVE  FALSE
    <2>1. job'[t].phase = ph
        BY <1>0, <1>6, GoToEffect
    <2> QED
        BY <1>0, <2>1 DEF InFlight
<1>7. CASE ~SendLeg(t) /\ ~Leave(t)
    <2>1. 0 \in Qty /\ job[t].fill1 \in Qty /\ job[t].reply.qty \in Qty
        BY <1>0, RunFacts
    <2>2. PICK ph \in Phases \ {"idle"}, f1 \in Qty, f2 \in Qty : GoTo(t, ph, f1, f2)
        BY <1>4, <1>7, <2>1 DEF Step, Commit, Veto, FirstLegFilled, FirstLegRefused, FirstLegUnknown,
               SecondLegFilled, SecondLegFailed, ResidualAnswered, Reversed, NotReversed,
               UnwindApproved, UnwindRefused, PerpClosed, PerpNotClosed, DexSold, DexNotSold,
               Reshorted, NotReshorted, Phases, Legs, EntryLegs, UnwindLegs
    <2> QED
        BY <1>6, <2>2
<1> QED
    BY <1>4, <1>5, <1>7

\* A step that goes on to another leg does not leave the lock.
LEMMA GoingIsNotLeaving ==
    ASSUME TypeOK, NEW t \in Tasks, NEW ph \in Phases \ {"idle"}, NEW f1 \in Qty, NEW f2 \in Qty,
           GoTo(t, ph, f1, f2)
    PROVE  ~Leave(t)
<1>1. job'[t].phase = ph
    BY GoToEffect
<1> QED
    BY <1>1, LeaveEffect DEF IdleJob

\* The end of a run.
LEMMA EndStep ==
    ASSUME IInv, DriftInv, [Next]_vars, NEW t \in Tasks, Ends(t)
    PROVE  Drift' = began \/ kill' \/ alarm \/ PassesSilently(t)
<1>0. TypeOK /\ IInv' /\ Step(t) /\ Leave(t)
    BY NextPreserves, EndIsLeave DEF IInv
<1>1. 0 \in Qty /\ job[t].fill1 \in Qty /\ job[t].reply.qty \in Qty
    BY <1>0, StepOnly, RunFacts
<1>2. ~Commit(t) /\ ~FirstLegFilled(t) /\ ~SecondLegFailed(t) /\ ~UnwindApproved(t)
    BY <1>0, <1>1, GoingIsNotLeaving
       DEF Commit, FirstLegFilled, SecondLegFailed, UnwindApproved, Phases, Legs, EntryLegs, UnwindLegs
<1>3. ~SendLeg(t)
    <2> SUFFICES ASSUME SendLeg(t) PROVE FALSE
        OBVIOUS
    <2>1. PICK o \in Outcomes(LegOf(t)) :
              job' = [job EXCEPT ![t] = [job[t] EXCEPT !.sent = TRUE, !.reply = o.reply]]
        BY DEF SendLeg
    <2>2. job[t] \in Job
        BY <1>0 DEF TypeOK
    <2>3. job'[t].sent = TRUE
        BY <1>0, <2>1, <2>2 DEF TypeOK, Job
    <2> QED
        BY <1>0, <2>3, LeaveEffect DEF IdleJob
<1>4. FirstLegUnknown(t) \/ NotReversed(t) \/ NotReshorted(t) => kill'
    BY DEF FirstLegUnknown, NotReversed, NotReshorted, EngageIf
<1>5. SUFFICES ASSUME ~kill', ~alarm, ~PassesSilently(t) PROVE Drift' = began
    OBVIOUS
<1>6. CASE \/ Veto(t) \/ UnwindRefused(t) \/ FirstLegRefused(t) \/ Reversed(t) \/ PerpNotClosed(t)
           \/ DexNotSold(t) \/ Reshorted(t)
    BY <1>0, <1>5, <1>6, EndUndone
<1>7. CASE ResidualAnswered(t) \/ SecondLegFilled(t)
    BY <1>0, <1>5, <1>7, EndOpened
<1>8. CASE PerpClosed(t) \/ DexSold(t)
    BY <1>0, <1>5, <1>8, EndReduced
<1> QED
    BY <1>0, <1>2, <1>3, <1>4, <1>5, <1>6, <1>7, <1>8 DEF Step

\* A run that ends with the book further from, or differently far from, the venues than it
\* found it has engaged the kill switch (executor.py: every LegError after something was
\* sent), except at the four places the code lets pass.
THEOREM DivergenceNeverSilent == Spec => NoSilentDivergence
<1> DEFINE Inv == IInv /\ DriftInv
<1>1. Init => Inv
    <2> SUFFICES ASSUME Init PROVE IInv /\ DriftInv
        OBVIOUS
    <2>1. IInv
        BY InitEstablishes
    <2>2. began \in [dex : Int, perp : Int] /\ \A t \in Tasks : ~InFlight(t)
        BY DEF Init, InFlight, IdleJob
    <2> QED
        BY <2>1, <2>2 DEF DriftInv
<1>2. Inv /\ [Next]_vars => Inv'
    BY NextPreserves, DriftPreserved
<1>3. Inv /\ [Next]_vars
      => [\A t \in Tasks : Ends(t) => (Drift' = began \/ kill' \/ alarm \/ PassesSilently(t))]_vars
    BY EndStep
<1> QED
    BY <1>1, <1>2, <1>3, PTL DEF Spec, NoSilentDivergence

------------------------------------------------------------------------------
(* The stage of a plan.                                                      *)

\* Outside of a run a task has nothing in hand.
IdleInv == \A t \in Tasks : ~InFlight(t) => job[t] = IdleJob

\* The stage of a plan that is in a run, and of one that is not.
RunStage(ph) == IF ph = "requote" THEN "vetting" ELSE IF ph \in EntryLegs THEN "entering" ELSE "closing"
RestStage(p) == IF book[p].open THEN "open"
                ELSE IF plan[p] = "none" THEN "absent"
                ELSE IF plan[p] = "stored" THEN "proposed" ELSE "done"

Running(p) == \E t \in Tasks : InFlight(t) /\ job[t].plan = p

StagesInv ==
    \A p \in Plans :
        /\ \A t \in Tasks : InFlight(t) /\ job[t].plan = p => StageOf(p) = RunStage(job[t].phase)
        /\ ~Running(p) => StageOf(p) = RestStage(p)

\* The stages are those: one run at a time, of a plan that was taken.
LEMMA StagesNow == IInv /\ IdleInv => StagesInv
<1> SUFFICES ASSUME IInv, IdleInv, NEW p \in Plans
             PROVE  /\ \A t \in Tasks : InFlight(t) /\ job[t].plan = p => StageOf(p) = RunStage(job[t].phase)
                    /\ ~Running(p) => StageOf(p) = RestStage(p)
    BY DEF StagesInv
<1> DEFINE phases == {job[t].phase : t \in {u \in Tasks : job[u].plan = p}}
<1>1. \A t \in Tasks : job[t].plan = p => InFlight(t)
    BY NoneAssumption DEF IdleInv, IdleJob
<1>2. ASSUME NEW t \in Tasks, InFlight(t), job[t].plan = p PROVE StageOf(p) = RunStage(job[t].phase)
    <2>1. \A u \in Tasks : job[u].plan = p => u = t
        BY <1>1, <1>2 DEF IInv, LockInv
    <2>2. phases = {job[t].phase}
        BY <1>2, <2>1
    <2>3. job[t].phase \in Phases /\ job[t].phase # "idle"
        BY <1>2 DEF IInv, TypeOK, Job, InFlight
    <2> DEFINE ph == job[t].phase
    <2> HIDE DEF phases, ph
    <2>4. StageOf(p) = CASE "requote" \in phases -> "vetting"
                         [] phases \cap EntryLegs # {} -> "entering"
                         [] phases \cap ({"u_requote"} \cup UnwindLegs) # {} -> "closing"
                         [] phases = {} /\ book[p].open -> "open"
                         [] phases = {} /\ plan[p] = "none" -> "absent"
                         [] phases = {} /\ plan[p] = "stored" -> "proposed"
                         [] OTHER -> "done"
        BY DEF StageOf, phases
    <2>5. ph \in Phases /\ ph # "idle" /\ phases = {ph}
        BY <2>2, <2>3 DEF ph
    <2>6. StageOf(p) = RunStage(ph)
        BY <2>4, <2>5 DEF RunStage, Phases, Legs, EntryLegs, UnwindLegs
    <2> QED
        BY <2>6 DEF ph
<1>3. ASSUME ~Running(p) PROVE StageOf(p) = RestStage(p)
    <2>1. phases = {}
        BY <1>1, <1>3 DEF Running
    <2>2. book[p].open => plan[p] = "taken"
        BY DEF IInv, BookInv
    <2> HIDE DEF phases
    <2>4. StageOf(p) = CASE "requote" \in phases -> "vetting"
                         [] phases \cap EntryLegs # {} -> "entering"
                         [] phases \cap ({"u_requote"} \cup UnwindLegs) # {} -> "closing"
                         [] phases = {} /\ book[p].open -> "open"
                         [] phases = {} /\ plan[p] = "none" -> "absent"
                         [] phases = {} /\ plan[p] = "stored" -> "proposed"
                         [] OTHER -> "done"
        BY DEF StageOf, phases
    <2>5. CASE book[p].open
        BY <2>1, <2>2, <2>4, <2>5 DEF RestStage
    <2>6. CASE ~book[p].open
        BY <2>1, <2>4, <2>6 DEF RestStage
    <2> QED
        BY <2>5, <2>6
<1> QED
    BY <1>2, <1>3

\* The stages of the next state follow from its invariants.
LEMMA StagesNext == IInv' /\ IdleInv' => StagesInv'
BY StagesNow, PTL

\* A run leaves nothing in hand.
LEMMA IdlePreserved ==
    ASSUME IInv, IdleInv, [Next]_vars
    PROVE  IdleInv'
<1>0. TypeOK
    BY DEF IInv
<1> SUFFICES ASSUME NEW u \in Tasks, ~InFlight(u)' PROVE job'[u] = IdleJob
    BY DEF IdleInv
<1>1. CASE job'[u] = job[u]
    BY <1>1 DEF IdleInv, InFlight
<1>2. CASE InFlight(u)
    <2>1. Leave(u)
        BY <1>2, EndIsLeave DEF Ends
    <2> QED
        BY <1>0, <2>1, LeaveEffect
<1>3. CASE ~InFlight(u)
    <2>1. ASSUME NEW t \in Tasks, Step(t) PROVE job'[u] = job[u]
        BY <1>3, <2>1, StepOnly
    <2>2. ASSUME NEW t \in Tasks, NEW p \in Plans, Execute(t, p) \/ Unwind(t, p) PROVE job'[u] = job[u]
        <3>1. PICK ph \in {"requote", "u_requote"} : Enter(t, p, ph)
            BY <2>2 DEF Execute, Unwind
        <3>2. ph \in Phases
            BY DEF Phases
        <3>3. /\ job'[t] = [IdleJob EXCEPT !.phase = ph, !.plan = p]
              /\ \A v \in Tasks : v # t => job'[v] = job[v]
            BY <1>0, <3>1, <3>2, EnterEffect
        <3>4. job'[t].phase # "idle"
            BY <3>3 DEF IdleJob
        <3> QED
            BY <3>3, <3>4 DEF InFlight
    <2>3. CASE Environment \/ UNCHANGED vars
        BY <1>1, <2>3 DEF Environment, Propose, Expire, OperatorKill, Halt, ResetHalt, vars
    <2> QED
        BY <1>1, <2>1, <2>2, <2>3 DEF Next
<1> QED
    BY <1>2, <1>3

------------------------------------------------------------------------------
(* Every step is a step of the lifecycle.                                    *)

stages == [p \in Plans |-> StageOf(p)]
bars   == kill \/ halted

\* A plan moves from one stage to another, and nothing else does.
LEMMA MovesBy ==
    ASSUME NEW p \in Plans, NEW from, NEW to, StageOf(p) \in from, StageOf(p)' = to,
           \A q \in Plans : q # p => StageOf(q)' = StageOf(q), bars' = bars
    PROVE  Lifecycle!Moves(p, from, to)
<1>1. stages' = [stages EXCEPT ![p] = to]
    BY DEF stages
<1> QED
    BY <1>1 DEF Lifecycle!Moves, stages, bars

\* Only the bar changes, or nothing does.
LEMMA BarBy ==
    ASSUME \A q \in Plans : StageOf(q)' = StageOf(q), bars' \in BOOLEAN
    PROVE  Lifecycle!Next
<1>1. stages' = stages
    BY DEF stages
<1>2. Lifecycle!Bar(bars')
    BY <1>1 DEF Lifecycle!Bar, stages, bars
<1> QED
    BY <1>2 DEF Lifecycle!Next

\* A step of a run that goes on commits the entry or stays in its stage.
LEMMA GoOnStage ==
    ASSUME IInv, IInv', StagesInv, StagesInv', NEW t \in Tasks, Step(t), ~Leave(t)
    PROVE  Lifecycle!Next
<1>0. TypeOK /\ TypeOK'
    BY DEF IInv
<1> PICK p \in Plans : p = job[t].plan
    BY StepOnly, RunFacts
<1>1. /\ InFlight(t) /\ p \in Plans /\ \A u \in Tasks : u # t => ~InFlight(u) /\ job'[u] = job[u]
      /\ 0 \in Qty /\ job[t].fill1 \in Qty /\ job[t].reply.qty \in Qty
    BY StepOnly, RunFacts
<1>2. job'[t].plan = p
    BY StepForm
<1>3. UNCHANGED <<book, plan>>
    BY DEF Step, SendLeg, Commit, Veto, FirstLegFilled, FirstLegRefused, FirstLegUnknown,
           SecondLegFilled, SecondLegFailed, ResidualAnswered, Reversed, NotReversed,
           UnwindApproved, UnwindRefused, PerpClosed, PerpNotClosed, DexSold, DexNotSold,
           Reshorted, NotReshorted
<1>4. InFlight(t)'
    BY StepForm, <1>1 DEF InFlight, EntryPhases, UnwindPhases, EntryLegs, UnwindLegs
<1>5. \A q \in Plans : q # p => StageOf(q)' = StageOf(q)
    <2> SUFFICES ASSUME NEW q \in Plans, q # p PROVE StageOf(q)' = StageOf(q)
        OBVIOUS
    <2>1. ~Running(q) /\ ~Running(q)'
        BY <1>1, <1>2 DEF Running, InFlight
    <2>2. RestStage(q)' = RestStage(q)
        BY <1>3 DEF RestStage
    <2> QED
        BY <2>1, <2>2 DEF StagesInv
<1>6. StageOf(p) = RunStage(job[t].phase) /\ StageOf(p)' = RunStage(job'[t].phase)
    BY <1>1, <1>2, <1>4 DEF StagesInv
<1>7. CASE Commit(t)
    <2>1. job[t].phase = "requote" /\ GoTo(t, "leg1", 0, 0) /\ "leg1" \in Phases
        BY <1>7 DEF Commit, Calling, Phases, Legs, EntryLegs
    <2>2. job'[t].phase = "leg1"
        BY <1>0, <1>1, <2>1, GoToEffect
    <2>3. ~bars /\ bars' = bars
        BY <1>7 DEF Commit, GateAllowsEntry, bars
    <2>4. StageOf(p) = "vetting" /\ StageOf(p)' = "entering"
        BY <1>6, <2>1, <2>2 DEF RunStage, EntryLegs
    <2>5. Lifecycle!Moves(p, {"vetting"}, "entering")
        BY <1>1, <1>5, <2>3, <2>4, MovesBy
    <2>6. Lifecycle!Commit(p)
        BY <2>3, <2>5 DEF Lifecycle!Commit, bars
    <2> QED
        BY <1>1, <2>6 DEF Lifecycle!Next
<1>8. CASE ~Commit(t)
    <2>1. bars' \in BOOLEAN
        BY <1>0 DEF TypeOK, bars
    <2>2. RunStage(job'[t].phase) = RunStage(job[t].phase)
        <3>1. CASE SendLeg(t)
            <4>1. PICK o \in Outcomes(LegOf(t)) :
                      job' = [job EXCEPT ![t] = [job[t] EXCEPT !.sent = TRUE, !.reply = o.reply]]
                BY <3>1 DEF SendLeg
            <4>2. job[t] \in Job
                BY <1>0 DEF TypeOK
            <4>3. job'[t].phase = job[t].phase
                BY <1>0, <4>1, <4>2 DEF TypeOK, Job
            <4> QED
                BY <4>3
        <3>2. ASSUME NEW ph \in Phases, NEW f1 \in Qty, NEW f2 \in Qty, GoTo(t, ph, f1, f2)
              PROVE  job'[t].phase = ph
            BY <1>0, <3>2, GoToEffect
        <3>3. CASE ~SendLeg(t)
            <4>1. PICK ph \in Phases, f1 \in Qty, f2 \in Qty :
                      /\ GoTo(t, ph, f1, f2)
                      /\ {job[t].phase, ph} \subseteq EntryLegs \/ {job[t].phase, ph} \subseteq UnwindPhases
                BY <1>1, <1>8, <3>3 DEF Step, Veto, FirstLegFilled, FirstLegRefused, FirstLegUnknown,
                   SecondLegFilled, SecondLegFailed, ResidualAnswered, Reversed, NotReversed,
                   UnwindApproved, UnwindRefused, PerpClosed, PerpNotClosed, DexSold, DexNotSold,
                   Reshorted, NotReshorted, Calling, Answered,
                   Phases, Legs, EntryLegs, UnwindLegs, UnwindPhases
            <4> QED
                BY <3>2, <4>1 DEF RunStage, EntryLegs, UnwindPhases, UnwindLegs
        <3> QED
            BY <3>1, <3>3
    <2>3. \A q \in Plans : StageOf(q)' = StageOf(q)
        BY <1>5, <1>6, <2>2
    <2> QED
        BY <2>1, <2>3, BarBy
<1> QED
    BY <1>7, <1>8

\* A step that ends a run settles its plan, and never lifts the bar.
LEMMA LeaveStage ==
    ASSUME IInv, IInv', StagesInv, StagesInv', NEW t \in Tasks, Step(t), Leave(t)
    PROVE  Lifecycle!Next
<1>0. TypeOK /\ TypeOK' /\ BookInv
    BY DEF IInv
<1> PICK p \in Plans : p = job[t].plan
    BY StepOnly, RunFacts
<1>1. /\ InFlight(t) /\ p \in Plans /\ RunOK(t)
      /\ \A u \in Tasks : u # t => ~InFlight(u) /\ job'[u] = job[u]
      /\ job[t].phase \in EntryPhases \cup UnwindPhases
    <2>1. InFlight(t)
        BY StepOnly
    <2> QED
        BY <2>1, <1>0, StepOnly, RunFacts
           DEF TypeOK, Job, Phases, Legs, EntryPhases, UnwindPhases, InFlight
<1>2. \A u \in Tasks : ~InFlight(u)'
    BY <1>0, <1>1, LeaveEffect DEF InFlight, IdleJob
<1>3. plan' = plan /\ \A q \in Plans : q # p => book'[q] = book[q]
    BY <1>0, LeaveEffect DEF TypeOK, Step, SendLeg, Commit, Veto, FirstLegFilled, FirstLegRefused,
           FirstLegUnknown, SecondLegFilled, SecondLegFailed, ResidualAnswered, Reversed, NotReversed,
           UnwindApproved, UnwindRefused, PerpClosed, PerpNotClosed, DexSold, DexNotSold,
           Reshorted, NotReshorted, OpenHedge, Book, CloseLeg, Reduce
<1>4. bars' \in {bars, TRUE}
    <2>1. halted' = halted /\ (kill' = kill \/ kill' = (kill \/ Unknown(t)) \/ kill' = TRUE)
        BY DEF Step, SendLeg, Commit, Veto, FirstLegFilled, FirstLegRefused,
           FirstLegUnknown, SecondLegFilled, SecondLegFailed, ResidualAnswered, Reversed, NotReversed,
           UnwindApproved, UnwindRefused, PerpClosed, PerpNotClosed, DexSold, DexNotSold,
           Reshorted, NotReshorted, EngageIf
    <2> QED
        BY <1>0, <2>1 DEF bars, TypeOK
<1>5. \A q \in Plans : StageOf(q)' = RestStage(q)'
    BY <1>2 DEF StagesInv, Running
<1>6. plan[p] = "taken" /\ plan'[p] = "taken"
    BY <1>0, <1>1, <1>3 DEF RunOK, BookInv
<1>7. StageOf(p) = RunStage(job[t].phase)
    BY <1>1 DEF StagesInv
<1>8. job[t].phase = "requote" => ~book'[p].open
    <2>1. job[t].phase = "requote" => book' = book
        BY DEF Step, SendLeg, Commit, Veto, FirstLegFilled, FirstLegRefused,
           FirstLegUnknown, SecondLegFilled, SecondLegFailed, ResidualAnswered, Reversed, NotReversed,
           UnwindApproved, UnwindRefused, PerpClosed, PerpNotClosed, DexSold, DexNotSold,
           Reshorted, NotReshorted, Calling, Answered
    <2> QED
        BY <1>1, <2>1 DEF RunOK, EntryPhases
<1>9. \A q \in Plans : q # p => StageOf(q)' = StageOf(q)
    <2> SUFFICES ASSUME NEW q \in Plans, q # p PROVE StageOf(q)' = StageOf(q)
        OBVIOUS
    <2>1. ~Running(q)
        BY <1>1 DEF Running
    <2>2. RestStage(q)' = RestStage(q)
        BY <1>3 DEF RestStage
    <2> QED
        BY <1>5, <2>1, <2>2 DEF StagesInv
<1>10. stages' = [stages EXCEPT ![p] = StageOf(p)']
    BY <1>9 DEF stages
<1>11. StageOf(p)' = IF book'[p].open THEN "open" ELSE "done"
    BY <1>1, <1>5, <1>6 DEF RestStage
<1>12. \/ StageOf(p) = "vetting" /\ StageOf(p)' = "done"
       \/ StageOf(p) \in {"entering", "closing"} /\ StageOf(p)' \in {"open", "done"}
    BY <1>7, <1>8, <1>11 DEF RunStage
<1>13. Lifecycle!EndRun(p)
    BY <1>1, <1>4, <1>10, <1>12 DEF Lifecycle!EndRun, stages, bars
<1> QED
    BY <1>1, <1>13 DEF Lifecycle!Next

\* A run begins: of a stored plan, or of an open position, and no other run is under way.
LEMMA BeginStage ==
    ASSUME IInv, StagesInv, StagesInv', NEW t \in Tasks, NEW p \in Plans, Execute(t, p) \/ Unwind(t, p)
    PROVE  Lifecycle!Next
<1>0. TypeOK /\ BookInv
    BY DEF IInv
<1>1. PICK ph \in {"requote", "u_requote"} :
          /\ Enter(t, p, ph) /\ UNCHANGED <<book, kill, halted>>
          /\ ph = "requote" => plan[p] = "stored" /\ plan' = [plan EXCEPT ![p] = "taken"]
          /\ ph = "u_requote" => book[p].open /\ plan' = plan
    BY DEF Execute, Unwind
<1>2. ph \in Phases
    BY DEF Phases
<1>3. /\ job'[t] = [IdleJob EXCEPT !.phase = ph, !.plan = p] /\ lock = None
      /\ \A v \in Tasks : v # t => job'[v] = job[v]
    BY <1>0, <1>1, <1>2, EnterEffect
<1>4. job'[t].phase = ph /\ job'[t].plan = p
    BY <1>3 DEF IdleJob
<1>5. \A u \in Tasks : ~InFlight(u)
    BY <1>3, NoneAssumption DEF IInv, LockInv
<1>6. \A q \in Plans : StageOf(q) = RestStage(q)
    BY <1>5 DEF StagesInv, Running
<1>7. Lifecycle!Quiet
    BY <1>6 DEF Lifecycle!Quiet, Lifecycle!Busy, RestStage
<1>8. StageOf(p)' = RunStage(ph)
    BY <1>4 DEF StagesInv, InFlight
<1>9. \A q \in Plans : q # p => StageOf(q)' = StageOf(q)
    <2> SUFFICES ASSUME NEW q \in Plans, q # p PROVE StageOf(q)' = StageOf(q)
        OBVIOUS
    <2>1. ~Running(q)'
        <3>1. ASSUME NEW u \in Tasks, job'[u].phase # "idle", job'[u].plan = q PROVE FALSE
            <4>1. u # t
                BY <1>4, <3>1
            <4> QED
                BY <1>3, <1>5, <3>1, <4>1 DEF InFlight
        <3> QED
            BY <3>1 DEF Running, InFlight
    <2>2. RestStage(q)' = RestStage(q)
        BY <1>0, <1>1 DEF RestStage, TypeOK
    <2> QED
        BY <1>6, <2>1, <2>2 DEF StagesInv
<1>10. bars' = bars
    BY <1>1 DEF bars
<1>11. CASE ph = "requote"
    <2>1. StageOf(p) \in {"proposed"} /\ StageOf(p)' = "vetting"
        BY <1>0, <1>1, <1>6, <1>8, <1>11 DEF RestStage, RunStage, BookInv
    <2>2. Lifecycle!Begin(p)
        BY <1>7, <1>9, <1>10, <2>1, MovesBy DEF Lifecycle!Begin
    <2> QED
        BY <2>2 DEF Lifecycle!Next
<1>12. CASE ph = "u_requote"
    <2>1. StageOf(p) \in {"open"} /\ StageOf(p)' = "closing"
        BY <1>1, <1>6, <1>8, <1>12 DEF RestStage, RunStage, EntryLegs
    <2>2. Lifecycle!BeginExit(p)
        BY <1>7, <1>9, <1>10, <2>1, MovesBy DEF Lifecycle!BeginExit
    <2> QED
        BY <2>2 DEF Lifecycle!Next
<1> QED
    BY <1>11, <1>12

\* Everybody else proposes and discards plans, and moves the bar.
LEMMA OutsideStage ==
    ASSUME IInv, IInv', StagesInv, StagesInv', Environment
    PROVE  Lifecycle!Next
<1>0. TypeOK /\ TypeOK' /\ BookInv
    BY DEF IInv
<1>1. job' = job /\ book' = book
    BY DEF Environment, Propose, Expire, OperatorKill, Halt, ResetHalt
<1>2. ASSUME NEW q \in Plans, plan'[q] = plan[q] PROVE StageOf(q)' = StageOf(q)
    <2>1. RestStage(q)' = RestStage(q) /\ (Running(q)' <=> Running(q))
        BY <1>1, <1>2 DEF RestStage, Running, InFlight
    <2>2. CASE Running(q)
        BY <1>1, <2>2 DEF Running, StagesInv, InFlight
    <2>3. CASE ~Running(q)
        BY <2>1, <2>3 DEF StagesInv
    <2> QED
        BY <2>2, <2>3
<1>3. ASSUME NEW p \in Plans, plan[p] # "taken" PROVE ~Running(p) /\ ~book[p].open
    <2>1. ~book[p].open
        BY <1>0, <1>3 DEF BookInv
    <2>2. ASSUME NEW t \in Tasks, InFlight(t), job[t].plan = p PROVE FALSE
        <3>1. RunOK(t) /\ job[t].phase \in EntryPhases \cup UnwindPhases
            BY <1>0, <2>2, RunFacts DEF TypeOK, Job, Phases, Legs, EntryPhases, UnwindPhases, InFlight
        <3> QED
            BY <1>3, <2>1, <2>2, <3>1 DEF RunOK
    <2> QED
        BY <2>1, <2>2 DEF Running
<1>4. ASSUME NEW p \in Plans, Propose(p) \/ Expire(p) PROVE Lifecycle!Next
    <2>1. plan[p] # "taken"
        BY <1>4 DEF Propose, Expire
    <2>2. ~Running(p) /\ ~Running(p)' /\ ~book[p].open
        BY <1>1, <1>3, <2>1 DEF Running, InFlight
    <2>3. StageOf(p) = RestStage(p) /\ StageOf(p)' = RestStage(p)'
        BY <2>2 DEF StagesInv
    <2>4. \A q \in Plans : q # p => plan'[q] = plan[q]
        BY <1>0, <1>4 DEF Propose, Expire, TypeOK
    <2>5. \A q \in Plans : q # p => StageOf(q)' = StageOf(q)
        BY <1>2, <2>4
    <2>6. bars' = bars
        BY <1>4 DEF Propose, Expire, bars
    <2>7. CASE Propose(p)
        <3>1. StageOf(p) \in {"absent"} /\ StageOf(p)' = "proposed"
            BY <1>0, <1>1, <2>2, <2>3, <2>7 DEF Propose, RestStage, TypeOK
        <3>2. Lifecycle!Propose(p)
            BY <2>5, <2>6, <3>1, MovesBy DEF Lifecycle!Propose
        <3> QED
            BY <3>2 DEF Lifecycle!Next
    <2>8. CASE Expire(p)
        <3>1. StageOf(p) \in {"proposed"} /\ StageOf(p)' = "done"
            BY <1>0, <1>1, <2>2, <2>3, <2>8 DEF Expire, RestStage, TypeOK
        <3>2. Lifecycle!Discard(p)
            BY <2>5, <2>6, <3>1, MovesBy DEF Lifecycle!Discard
        <3> QED
            BY <3>2 DEF Lifecycle!Next
    <2> QED
        BY <1>4, <2>7, <2>8
<1>5. CASE Halt \/ ResetHalt \/ \E on \in BOOLEAN : OperatorKill(on)
    <2>1. plan' = plan
        BY <1>5 DEF Halt, ResetHalt, OperatorKill
    <2>2. bars' \in BOOLEAN
        BY <1>0 DEF TypeOK, bars
    <2> QED
        BY <1>2, <2>1, <2>2, BarBy
<1> QED
    BY <1>4, <1>5 DEF Environment

\* Every step maps to a step or a stutter.
LEMMA StepMaps ==
    ASSUME IInv, IInv', StagesInv, StagesInv', [Next]_vars
    PROVE  [Lifecycle!Next]_(Lifecycle!lifecycleVars)
<1>1. ASSUME NEW t \in Tasks, Step(t) PROVE Lifecycle!Next
    BY <1>1, GoOnStage, LeaveStage
<1>2. CASE UNCHANGED vars
    <2>1. \A p \in Plans : StageOf(p)' = StageOf(p)
        BY <1>2 DEF vars, StageOf
    <2>2. kill' = kill /\ halted' = halted
        BY <1>2 DEF vars
    <2> QED
        BY <2>1, <2>2 DEF Lifecycle!lifecycleVars
<1> QED
    BY <1>1, <1>2, BeginStage, OutsideStage DEF Next

\* The executor (executor.py execute, unwind, and everything under the lock) implements the
\* safety of the lifecycle: a plan runs once, runs never overlap, no entry commits while
\* entries are barred, and only an operator or a flat book lifts the bar.
THEOREM ImplementsSafety == Spec => Lifecycle!Spec
<1> DEFINE Inv == IInv /\ IdleInv
<1>1. Init => Inv
    <2> SUFFICES ASSUME Init PROVE IInv /\ IdleInv
        OBVIOUS
    <2> QED
        BY InitEstablishes DEF Init, IdleInv
<1>2. Inv /\ [Next]_vars => Inv'
    BY NextPreserves, IdlePreserved
<1>3. Init => Lifecycle!Init
    <2> SUFFICES ASSUME Init PROVE Lifecycle!Init
        OBVIOUS
    <2>1. IInv /\ IdleInv
        BY <1>1
    <2>2. \A p \in Plans : StageOf(p) = RestStage(p)
        BY <2>1, StagesNow DEF StagesInv, Running, Init, InFlight, IdleJob
    <2>3. \A p \in Plans : RestStage(p) = "absent"
        BY DEF RestStage, Init, NoPosition
    <2> QED
        BY <2>2, <2>3 DEF Lifecycle!Init, Init
<1>4. Inv /\ Inv' /\ [Next]_vars => [Lifecycle!Next]_(Lifecycle!lifecycleVars)
    <2> SUFFICES ASSUME Inv, Inv', [Next]_vars PROVE [Lifecycle!Next]_(Lifecycle!lifecycleVars)
        OBVIOUS
    <2>1. StagesInv /\ StagesInv'
        BY StagesNow, StagesNext
    <2> QED
        BY <2>1, StepMaps
<1> QED
    BY <1>1, <1>2, <1>3, <1>4, PTL DEF Spec, Lifecycle!Spec
=============================================================================

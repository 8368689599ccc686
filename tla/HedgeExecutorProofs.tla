------------------------- MODULE HedgeExecutorProofs -------------------------
(* Theorems about HedgeExecutor, for every set of plans and tasks, every size, *)
(* mode, leg order and fault set.                                              *)
EXTENDS HedgeExecutor, PortfolioProofs

------------------------------------------------------------------------------
(* The inductive invariant.                                                  *)

EntryPhases  == {"requote"} \cup EntryLegs
UnwindPhases == {"u_requote"} \cup UnwindLegs

\* Exactly the holder of the lock is in a run.
LockInv == \A t \in Tasks : InFlight(t) <=> lock = t

\* What the fills of a run are at each leg.
FillsOK(t) ==
    LET j == job[t] IN
    /\ j.phase \in {"leg2", "reverse"} => j.fill1 > 0
    /\ j.phase = "residual" => 0 < j.fill2 /\ j.fill2 < j.fill1
    /\ j.phase = "u_dex" => j.fill1 <= Pos(t).perp
    /\ j.phase = "u_reshort" => 0 < j.fill1 /\ j.fill1 <= Pos(t).perp

\* A router never reports more than it was asked for.
ReplyOK(t) ==
    LET j == job[t] IN
    /\ j.reply.qty > 0 => j.reply.err = "none"
    /\ ~j.sent => j.reply = NoReply
    /\ j.sent => j.phase \in Legs /\ j.reply.qty <= LegOf(t).qty
    /\ j.sent /\ j.reply.err = "none" => j.reply.qty > 0

RunOK(t) ==
    LET j == job[t] IN
    /\ j.plan \in Plans
    /\ j.phase \in EntryPhases => plan[j.plan] = "taken" /\ ~book[j.plan].open
    /\ j.phase \in UnwindPhases => book[j.plan].open
    /\ FillsOK(t)
    /\ ReplyOK(t)

RunInv == \A t \in Tasks : InFlight(t) => RunOK(t)

\* Only a plan that was taken has a position; a position is registered with at least
\* its perp quantity; what is not open is empty.
BookInv ==
    \A p \in Plans :
        /\ plan[p] # "taken" => ~book[p].open
        /\ ~book[p].open => book[p] = NoPosition /\ registry[p] = Unregistered
        /\ book[p].open => registry[p] \in Qty /\ book[p].perp <= registry[p]

IInv == TypeOK /\ LockInv /\ RunInv /\ BookInv

------------------------------------------------------------------------------
(* Lemmas about the operators the actions are built from.                    *)

\* Going on to a leg changes only the job of that task.
LEMMA GoToEffect ==
    ASSUME TypeOK, NEW t \in Tasks, NEW ph \in Phases, NEW f1 \in Qty, NEW f2 \in Qty,
           GoTo(t, ph, f1, f2)
    PROVE  /\ job' \in [Tasks -> Job]
           /\ lock' = lock
           /\ job'[t].phase = ph /\ job'[t].sent = FALSE /\ job'[t].reply = NoReply
           /\ job'[t].fill1 = f1 /\ job'[t].fill2 = f2 /\ job'[t].plan = job[t].plan
           /\ \A u \in Tasks : u # t => job'[u] = job[u]
<1> DEFINE new == [job[t] EXCEPT !.phase = ph, !.sent = FALSE, !.reply = NoReply,
                                 !.fill1 = f1, !.fill2 = f2]
<1>1. NoReply \in Answer
    BY LotsAssumption DEF NoReply, Answer, Qty
<1>2. job[t] \in Job
    BY DEF TypeOK
<1>3. new \in Job
    BY <1>1, <1>2 DEF Job
<1>4. job' = [job EXCEPT ![t] = new]
    BY DEF GoTo
<1>5. new.phase = ph /\ new.sent = FALSE /\ new.reply = NoReply
      /\ new.fill1 = f1 /\ new.fill2 = f2 /\ new.plan = job[t].plan
    BY <1>2 DEF Job
<1> HIDE DEF new
<1> QED
    BY <1>3, <1>4, <1>5 DEF TypeOK, GoTo

\* The phase and the fills of the run after it, whatever they are.
LEMMA GoToLocals ==
    ASSUME TypeOK, NEW t \in Tasks, NEW ph, NEW f1, NEW f2, GoTo(t, ph, f1, f2)
    PROVE  /\ job'[t].phase = ph /\ job'[t].plan = job[t].plan
           /\ job'[t].fill1 = f1 /\ job'[t].fill2 = f2
<1> DEFINE new == [job[t] EXCEPT !.phase = ph, !.sent = FALSE, !.reply = NoReply,
                                 !.fill1 = f1, !.fill2 = f2]
<1>1. job[t] \in Job
    BY DEF TypeOK
<1>2. /\ new.phase = ph /\ new.plan = job[t].plan
      /\ new.fill1 = f1 /\ new.fill2 = f2
    BY <1>1 DEF Job
<1>3. job' = [job EXCEPT ![t] = new]
    BY DEF GoTo
<1> HIDE DEF new
<1> QED
    BY <1>2, <1>3 DEF TypeOK

\* The locals of a task that is in no run.
LEMMA IdleJobType == IdleJob \in Job
BY LotsAssumption DEF IdleJob, Job, Answer, NoReply, Qty, Phases

\* Leave gives the lock back and empties the job of its task only.
LEMMA LeaveEffect ==
    ASSUME TypeOK, NEW t \in Tasks, Leave(t)
    PROVE  /\ job' \in [Tasks -> Job]
           /\ lock' = None
           /\ job'[t] = IdleJob
           /\ \A u \in Tasks : u # t => job'[u] = job[u]
BY IdleJobType DEF TypeOK, Leave

\* Enter takes the lock for one task and leaves the jobs of the others alone.
LEMMA EnterEffect ==
    ASSUME TypeOK, NEW t \in Tasks, NEW p \in Plans, NEW ph \in Phases, Enter(t, p, ph)
    PROVE  /\ job' \in [Tasks -> Job]
           /\ lock = None /\ lock' = t
           /\ job'[t] = [IdleJob EXCEPT !.phase = ph, !.plan = p]
           /\ \A u \in Tasks : u # t => job'[u] = job[u]
<1>1. [IdleJob EXCEPT !.phase = ph, !.plan = p] \in Job
    BY IdleJobType DEF Job
<1> QED
    BY <1>1 DEF TypeOK, Enter

------------------------------------------------------------------------------
(* Two ways a step of a run can end, and what each needs to keep IInv.       *)

\* The part of TypeOK that is not the control state.
DataOK ==
    /\ plan \in [Plans -> Status]
    /\ book \in [Plans -> Position]
    /\ registry \in [Plans -> Qty \cup {Unregistered}]
    /\ free \in Int /\ reserved \in Int
    /\ kill \in BOOLEAN /\ alarm \in BOOLEAN /\ halted \in BOOLEAN
    /\ venue \in [Venues -> Int]
    /\ stranded \subseteq Plans

\* A run that goes on: the book is untouched and the next leg's fills are in order.
LEMMA GoToPreserves ==
    ASSUME IInv, NEW t \in Tasks, NEW ph \in EntryPhases \cup UnwindPhases,
           NEW f1 \in Qty, NEW f2 \in Qty, InFlight(t), GoTo(t, ph, f1, f2), DataOK', UNCHANGED <<plan, book, registry>>,
           job[t].phase \in EntryPhases <=> ph \in EntryPhases,
           ph \in {"leg2", "reverse"} => f1 > 0,
           ph = "residual" => 0 < f2 /\ f2 < f1,
           ph = "u_dex" => f1 <= Pos(t).perp,
           ph = "u_reshort" => 0 < f1 /\ f1 <= Pos(t).perp
    PROVE  IInv'
<1>0. TypeOK /\ LockInv /\ RunInv /\ BookInv
    BY DEF IInv
<1>1. ph \in Phases /\ ph # "idle"
    BY DEF EntryPhases, UnwindPhases, EntryLegs, UnwindLegs, Phases, Legs
<1>2. /\ job' \in [Tasks -> Job] /\ lock' = lock
      /\ job'[t].phase = ph /\ job'[t].sent = FALSE /\ job'[t].reply = NoReply
      /\ job'[t].fill1 = f1 /\ job'[t].fill2 = f2 /\ job'[t].plan = job[t].plan
      /\ \A u \in Tasks : u # t => job'[u] = job[u]
    <2>1. job' \in [Tasks -> Job]
        BY <1>0, <1>1, GoToEffect
    <2>2. lock' = lock
        BY <1>0, <1>1, GoToEffect
    <2>3. job'[t].phase = ph /\ job'[t].sent = FALSE /\ job'[t].reply = NoReply
        BY <1>0, <1>1, GoToEffect
    <2>4. job'[t].fill1 = f1 /\ job'[t].fill2 = f2 /\ job'[t].plan = job[t].plan
        BY <1>0, GoToLocals
    <2>5. \A u \in Tasks : u # t => job'[u] = job[u]
        BY <1>0, <1>1, GoToEffect
    <2> QED
        BY <2>1, <2>2, <2>3, <2>4, <2>5
<1>3. TypeOK'
    BY <1>2, <1>0 DEF TypeOK, DataOK
<1>4. LockInv'
    BY <1>0, <1>1, <1>2 DEF LockInv, InFlight
<1>5. RunOK(t)
    BY <1>0 DEF RunInv
<1>6. job[t].phase \in EntryPhases \/ job[t].phase \in UnwindPhases
    BY <1>0 DEF TypeOK, Job, Phases, Legs, EntryPhases, UnwindPhases, InFlight
<1>7. ph \in EntryPhases => ph \notin UnwindPhases
    BY DEF EntryPhases, UnwindPhases, EntryLegs, UnwindLegs
<1>8. job'[t].plan \in Plans
      /\ (ph \in EntryPhases => plan'[job'[t].plan] = "taken" /\ ~book'[job'[t].plan].open)
      /\ (ph \in UnwindPhases => book'[job'[t].plan].open)
    BY <1>2, <1>5, <1>6, <1>7 DEF RunOK
<1>9. FillsOK(t)'
    BY <1>2 DEF FillsOK, Pos
<1>10. ReplyOK(t)'
    BY <1>2 DEF ReplyOK, NoReply
<1>11. RunInv'
    <2> SUFFICES ASSUME NEW u \in Tasks, InFlight(u)' PROVE RunOK(u)'
        BY DEF RunInv
    <2>1. u = t
        BY <1>0, <1>2, <1>4 DEF LockInv
    <2> QED
        BY <2>1, <1>2, <1>8, <1>9, <1>10 DEF RunOK
<1>12. BookInv'
    BY <1>0 DEF BookInv
<1> QED
    BY <1>3, <1>4, <1>11, <1>12 DEF IInv

\* A run that ends.
LEMMA LeavePreserves ==
    ASSUME IInv, NEW t \in Tasks, InFlight(t), Leave(t), DataOK', BookInv'
    PROVE  IInv'
<1>1. job' \in [Tasks -> Job] /\ lock' = None /\ job'[t] = IdleJob
      /\ \A u \in Tasks : u # t => job'[u] = job[u]
    BY LeaveEffect DEF IInv
<1>2. TypeOK'
    BY <1>1 DEF TypeOK, DataOK
<1>3. \A u \in Tasks : ~InFlight(u)'
    BY <1>1 DEF IInv, LockInv, InFlight, IdleJob
<1>4. LockInv' /\ RunInv'
    BY <1>1, <1>3, NoneAssumption DEF LockInv, RunInv
<1> QED
    BY <1>2, <1>4 DEF IInv

\* A run that begins.
LEMMA EnterPreserves ==
    ASSUME IInv, NEW t \in Tasks, NEW p \in Plans, NEW ph \in {"requote", "u_requote"},
           Enter(t, p, ph), DataOK', BookInv',
           ph = "requote" => plan'[p] = "taken" /\ ~book'[p].open,
           ph = "u_requote" => book'[p].open
    PROVE  IInv'
<1>0. TypeOK /\ LockInv
    BY DEF IInv
<1>1. ph \in Phases /\ ph # "idle" /\ ph \notin Legs
    BY DEF Phases, Legs, EntryLegs, UnwindLegs
<1>2. job' \in [Tasks -> Job] /\ lock = None /\ lock' = t
      /\ \A u \in Tasks : u # t => job'[u] = job[u]
    BY <1>0, <1>1, EnterEffect
<1>3. job'[t] = [IdleJob EXCEPT !.phase = ph, !.plan = p]
    BY <1>0, <1>1, EnterEffect
<1>4. job'[t].phase = ph /\ job'[t].plan = p /\ job'[t].sent = FALSE
      /\ job'[t].reply = NoReply /\ job'[t].fill1 = 0 /\ job'[t].fill2 = 0
    BY <1>3 DEF IdleJob
<1>5. TypeOK'
    BY <1>0, <1>2 DEF TypeOK, DataOK
<1>6. \A u \in Tasks : u # t => ~InFlight(u) /\ ~InFlight(u)'
    BY <1>0, <1>2, NoneAssumption DEF LockInv, InFlight
<1>7. LockInv'
    BY <1>1, <1>2, <1>4, <1>6 DEF LockInv, InFlight
<1>8. RunOK(t)'
    <2>1. FillsOK(t)'
        BY <1>4 DEF FillsOK
    <2>2. ReplyOK(t)'
        BY <1>4 DEF ReplyOK, NoReply
    <2>3. (ph \in EntryPhases => ph = "requote") /\ (ph \in UnwindPhases => ph = "u_requote")
        BY DEF EntryPhases, UnwindPhases, EntryLegs, UnwindLegs
    <2> QED
        BY <1>4, <2>1, <2>2, <2>3 DEF RunOK
<1>9. RunInv'
    BY <1>6, <1>8 DEF RunInv
<1> QED
    BY <1>5, <1>7, <1>9 DEF IInv

------------------------------------------------------------------------------
(* The legs.                                                                 *)

\* A leg is placed at one of the two venues for a quantity of lots.
LEMMA LegType ==
    ASSUME IInv, NEW t \in Tasks, job[t].phase \in Legs
    PROVE  LegOf(t).venue \in Venues /\ LegOf(t).qty \in Qty
<1>1. /\ job[t].fill1 \in Qty /\ job[t].fill2 \in Qty
      /\ FillsOK(t) /\ job[t].plan \in Plans
    <2>1. InFlight(t)
        BY DEF InFlight, Legs, EntryLegs, UnwindLegs
    <2>2. RunOK(t)
        BY <2>1 DEF IInv, RunInv
    <2>3. job[t] \in Job
        BY DEF IInv, TypeOK
    <2> QED
        BY <2>2, <2>3 DEF RunOK, Job
<1>2. Pos(t).dex \in Qty /\ Pos(t).perp \in Qty
    BY <1>1 DEF IInv, TypeOK, Pos, Position
<1>3. First \in Venues /\ Second \in Venues
    BY DEF First, Second, Venues
<1>4. Lots \in Qty
    BY LotsAssumption DEF Qty
<1>5. job[t].phase = "residual" => job[t].fill1 - job[t].fill2 \in Qty
    BY <1>1, LotsAssumption DEF FillsOK, Qty
<1>6. Smaller(job[t].fill1, Pos(t).dex) \in Qty
    BY <1>1, <1>2 DEF Smaller
<1> QED
    BY <1>1, <1>2, <1>3, <1>4, <1>5, <1>6 DEF LegOf, Legs, EntryLegs, UnwindLegs, Venues

\* A venue fills at most what was asked.
LEMMA FillableBound ==
    ASSUME TypeOK, NEW leg, leg.venue \in Venues, leg.qty \in Qty
    PROVE  Fillable(leg) \in Qty /\ Fillable(leg) <= leg.qty
<1>1. venue.dex \in Int /\ venue.perp \in Int
    BY DEF TypeOK, Venues
<1> QED
    BY <1>1, LotsAssumption DEF Fillable, Smaller, Larger, Qty

\* A router reports no more than it was asked for, and a quantity only with a fill.
LEMMA OutcomeBound ==
    ASSUME TypeOK, NEW leg, leg.venue \in Venues, leg.qty \in Qty, NEW o \in Outcomes(leg)
    PROVE  /\ o.moved \in Int
           /\ o.reply \in Answer /\ o.reply.qty <= leg.qty
           /\ o.reply.err = "none" <=> o.reply.qty > 0
<1>1. Fillable(leg) \in Qty /\ Fillable(leg) <= leg.qty
    BY FillableBound
<1>2. \A q \in FillSizes(leg) : q \in Qty /\ q > 0 /\ q <= leg.qty
    <2> SUFFICES ASSUME NEW q \in FillSizes(leg) PROVE q \in Qty /\ q > 0 /\ q <= leg.qty
        OBVIOUS
    <2>1. q \in 1 .. Fillable(leg) \/ (q = Fillable(leg) /\ q # 0)
        BY DEF FillSizes
    <2> QED
        BY <1>1, <2>1, LotsAssumption DEF Qty
<1>3. 0 \in Qty /\ \A q \in Qty : q \in Int /\ q >= 0
    BY LotsAssumption DEF Qty
<1>4. \/ \E q \in FillSizes(leg) : o = [moved |-> q, reply |-> [err |-> "none", qty |-> q]]
      \/ o = [moved |-> 0, reply |-> [err |-> "refused", qty |-> 0]]
      \/ \E q \in 0 .. Fillable(leg) : o = [moved |-> q, reply |-> [err |-> "unknown", qty |-> 0]]
    BY DEF Outcomes
<1>5. CASE \E q \in FillSizes(leg) : o = [moved |-> q, reply |-> [err |-> "none", qty |-> q]]
    BY <1>2, <1>3, <1>5 DEF Answer
<1>6. CASE o = [moved |-> 0, reply |-> [err |-> "refused", qty |-> 0]]
    BY <1>3, <1>6 DEF Answer
<1>7. CASE \E q \in 0 .. Fillable(leg) : o = [moved |-> q, reply |-> [err |-> "unknown", qty |-> 0]]
    BY <1>1, <1>3, <1>7 DEF Answer
<1> QED
    BY <1>4, <1>5, <1>6, <1>7

\* Sending a leg fixes an answer that its phase may assume.
LEMMA SendLegPreserves ==
    ASSUME IInv, NEW t \in Tasks, SendLeg(t)
    PROVE  IInv'
<1>0. TypeOK /\ LockInv /\ RunInv /\ BookInv
    BY DEF IInv
<1> DEFINE leg == LegOf(t)
<1>1. job[t].phase \in Legs /\ ~job[t].sent
    BY DEF SendLeg
<1>2. leg.venue \in Venues /\ leg.qty \in Qty
    BY <1>1, LegType
<1>3. PICK o \in Outcomes(leg) :
          /\ job' = [job EXCEPT ![t] = [job[t] EXCEPT !.sent = TRUE, !.reply = o.reply]]
          /\ venue' = [venue EXCEPT ![leg.venue] = IF leg.side = "open" THEN @ + o.moved ELSE @ - o.moved]
    BY DEF SendLeg
<1>4. UNCHANGED <<plan, lock, book, registry, free, reserved, kill, alarm, halted, stranded, began>>
    BY DEF SendLeg
<1> HIDE DEF leg
<1>5. /\ o.moved \in Int /\ o.reply \in Answer /\ o.reply.qty <= leg.qty
      /\ o.reply.err = "none" <=> o.reply.qty > 0
    BY <1>0, <1>2, OutcomeBound
<1>6. job[t] \in Job
    BY <1>0 DEF TypeOK
<1> DEFINE new == [job[t] EXCEPT !.sent = TRUE, !.reply = o.reply]
<1>7. /\ new \in Job /\ new.sent = TRUE /\ new.reply = o.reply
      /\ new.phase = job[t].phase /\ new.plan = job[t].plan
      /\ new.fill1 = job[t].fill1 /\ new.fill2 = job[t].fill2
    BY <1>5, <1>6 DEF Job
<1>8. job' = [job EXCEPT ![t] = new]
    BY <1>3
<1> HIDE DEF new
<1>9. job' \in [Tasks -> Job] /\ job'[t] = new /\ \A u \in Tasks : u # t => job'[u] = job[u]
    BY <1>0, <1>7, <1>8 DEF TypeOK
<1>10. venue' \in [Venues -> Int]
    <2>1. venue[leg.venue] + o.moved \in Int /\ venue[leg.venue] - o.moved \in Int
        BY <1>0, <1>2, <1>5 DEF TypeOK
    <2> QED
        BY <1>0, <1>2, <1>3, <2>1 DEF TypeOK
<1>11. TypeOK'
    BY <1>0, <1>4, <1>9, <1>10 DEF TypeOK
<1>12. LockInv'
    BY <1>0, <1>4, <1>7, <1>9 DEF LockInv, InFlight
<1>13. InFlight(t) /\ RunOK(t)
    BY <1>0, <1>1 DEF InFlight, RunInv, Legs, EntryLegs, UnwindLegs
<1>14. Pos(t)' = Pos(t) /\ FillsOK(t)'
    BY <1>4, <1>7, <1>9, <1>13 DEF RunOK, FillsOK, Pos
<1>15. LegOf(t)' = leg
    BY <1>4, <1>7, <1>9, <1>14 DEF LegOf, leg, Pos
<1>16. ReplyOK(t)'
    BY <1>1, <1>5, <1>7, <1>9, <1>15 DEF ReplyOK
<1>17. RunOK(t)'
    BY <1>4, <1>7, <1>9, <1>13, <1>14, <1>16 DEF RunOK
<1>18. RunInv'
    <2> SUFFICES ASSUME NEW u \in Tasks, InFlight(u)' PROVE RunOK(u)'
        BY DEF RunInv
    <2>1. u = t
        BY <1>0, <1>4, <1>12, <1>13 DEF LockInv
    <2> QED
        BY <1>17, <2>1
<1>19. BookInv'
    BY <1>0, <1>4 DEF BookInv
<1> QED
    BY <1>11, <1>12, <1>18, <1>19 DEF IInv

------------------------------------------------------------------------------
(* The book and the registry.                                                *)

\* Booking the position of a taken plan.
LEMMA BookEffect ==
    ASSUME IInv, NEW p \in Plans, NEW pos \in Position, NEW n \in Qty, Book(p, pos, n),
           pos.open, pos.perp <= n, plan[p] = "taken", plan' = plan
    PROVE  /\ book' \in [Plans -> Position] /\ registry' \in [Plans -> Qty \cup {Unregistered}]
           /\ free' \in Int /\ reserved' \in Int
           /\ BookInv'
<1>0. TypeOK /\ BookInv
    BY DEF IInv
<1>1. CashRequired \in Int
    BY LotsAssumption, CostAssumption DEF CashRequired
<1>2. Locked(pos) \in Int
    BY LockedType
<1>3. free' \in Int /\ reserved' \in Int
    BY <1>0, <1>1, <1>2 DEF TypeOK, Book, Smaller
<1>4. /\ book' \in [Plans -> Position] /\ registry' \in [Plans -> Qty \cup {Unregistered}]
      /\ book'[p] = pos /\ registry'[p] = n
      /\ \A q \in Plans : q # p => book'[q] = book[q] /\ registry'[q] = registry[q]
    BY <1>0 DEF TypeOK, Book
<1>5. BookInv'
    BY <1>0, <1>4 DEF BookInv
<1> QED
    BY <1>3, <1>4, <1>5

\* Reducing an open position.
LEMMA ReduceEffect ==
    ASSUME IInv, NEW p \in Plans, book[p].open, NEW pos \in Position, NEW released \in Int,
           NEW n \in Qty, Reduce(p, pos, released, n), plan' = plan,
           ~pos.open => pos = NoPosition, pos.perp <= n
    PROVE  /\ book' \in [Plans -> Position] /\ registry' \in [Plans -> Qty \cup {Unregistered}]
           /\ free' \in Int /\ reserved' \in Int
           /\ BookInv'
<1>0. TypeOK /\ BookInv
    BY DEF IInv
<1>1. free' \in Int /\ reserved' \in Int
    BY <1>0 DEF TypeOK, Reduce
<1>2. /\ book' \in [Plans -> Position] /\ registry' \in [Plans -> Qty \cup {Unregistered}]
      /\ book'[p] = pos /\ registry'[p] = (IF pos.open THEN n ELSE Unregistered)
      /\ \A q \in Plans : q # p => book'[q] = book[q] /\ registry'[q] = registry[q]
    BY <1>0 DEF TypeOK, Reduce
<1>3. plan[p] = "taken"
    BY <1>0 DEF BookInv
<1>4. BookInv'
    BY <1>0, <1>2, <1>3 DEF BookInv, NoPosition
<1> QED
    BY <1>1, <1>2, <1>4

\* close_leg, from a run that unwinds the position.
LEMMA CloseLegEffect ==
    ASSUME IInv, NEW t \in Tasks, job[t].plan \in Plans, Pos(t).open, NEW v \in Venues,
           NEW fill \in Qty, CloseLeg(t, v, fill), plan' = plan
    PROVE  /\ book' \in [Plans -> Position] /\ registry' \in [Plans -> Qty \cup {Unregistered}]
           /\ free' \in Int /\ reserved' \in Int
           /\ BookInv'
<1>1. Pos(t) \in Position
    BY DEF IInv, TypeOK, Pos
<1> DEFINE rest == LegClosed(Pos(t), v, fill)
<1>2. /\ rest \in Position /\ (~rest.open => rest = NoPosition)
      /\ LegRegistered(rest) \in Qty /\ rest.perp <= LegRegistered(rest)
      /\ LegReleases(Pos(t), v, fill) \in Int
    BY <1>1, LegClosedEffect DEF Venues
<1>3. Reduce(job[t].plan, rest, LegReleases(Pos(t), v, fill), LegRegistered(rest))
    BY DEF CloseLeg
<1>4. book[job[t].plan].open
    BY DEF Pos
<1> HIDE DEF rest
<1> QED
    BY <1>2, <1>3, <1>4, ReduceEffect

\* open_position at the end of an entry.
LEMMA OpenHedgeEffect ==
    ASSUME IInv, NEW t \in Tasks, job[t].plan \in Plans, plan[job[t].plan] = "taken",
           NEW f1 \in Qty, NEW f2 \in Qty, OpenHedge(t, f1, f2), plan' = plan
    PROVE  /\ book' \in [Plans -> Position] /\ registry' \in [Plans -> Qty \cup {Unregistered}]
           /\ free' \in Int /\ reserved' \in Int
           /\ BookInv'
<1> DEFINE dex  == IF First = "dex" THEN f1 ELSE f2
           perp == IF First = "dex" THEN f2 ELSE f1
<1>1. dex \in Qty /\ perp \in Qty
    OBVIOUS
<1>2. Book(job[t].plan, Opened(dex, perp), perp)
    BY DEF OpenHedge
<1> HIDE DEF dex, perp
<1>3. Opened(dex, perp) \in Position /\ Opened(dex, perp).open /\ Opened(dex, perp).perp <= perp
    BY <1>1, OpenedType, LotsAssumption DEF Qty
<1> QED
    BY <1>1, <1>2, <1>3, BookEffect

------------------------------------------------------------------------------
(* What an answered run knows.                                               *)

\* What the run of a task may assume about its plan and its fills.
LEMMA RunFacts ==
    ASSUME IInv, NEW t \in Tasks, InFlight(t)
    PROVE  /\ job[t].plan \in Plans /\ Pos(t) \in Position
           /\ job[t].fill1 \in Qty /\ job[t].fill2 \in Qty /\ job[t].reply.qty \in Qty
           /\ RunOK(t)
           /\ 0 \in Qty /\ Qty \subseteq Int
<1>1. RunOK(t)
    BY DEF IInv, RunInv
<1>2. job[t] \in Job
    BY DEF IInv, TypeOK
<1>3. job[t].plan \in Plans
    BY <1>1 DEF RunOK
<1>4. Pos(t) \in Position
    BY <1>3 DEF IInv, TypeOK, Pos
<1>5. job[t].fill1 \in Qty /\ job[t].fill2 \in Qty /\ job[t].reply.qty \in Qty
    BY <1>2 DEF Job, Answer
<1> QED
    BY <1>1, <1>3, <1>4, <1>5, LotsAssumption DEF Qty

\* A filled leg: some quantity, no more than the leg's.
LEMMA FilledFacts ==
    ASSUME IInv, NEW t \in Tasks, NEW ph \in Legs, Answered(t, ph), Filled(t)
    PROVE  job[t].reply.qty > 0 /\ job[t].reply.qty <= LegOf(t).qty
<1>1. InFlight(t)
    BY DEF InFlight, Answered, Legs, EntryLegs, UnwindLegs
<1>2. ReplyOK(t)
    BY <1>1, RunFacts DEF RunOK
<1> QED
    BY <1>2 DEF ReplyOK, Answered, Filled

------------------------------------------------------------------------------
(* Every action of the entry preserves the invariant.                        *)

\* The kill switch keeps its type.
LEMMA EngageType ==
    ASSUME TypeOK, NEW c, EngageIf(c)
    PROVE  (c \in BOOLEAN => kill' \in BOOLEAN /\ alarm' \in BOOLEAN)
BY DEF TypeOK, EngageIf

\* The cash operations keep the types of the two balances.
LEMMA CashType ==
    ASSUME TypeOK, Reserve \/ Release
    PROVE  free' \in Int /\ reserved' \in Int
<1>1. CashRequired \in Int
    BY LotsAssumption, CostAssumption DEF CashRequired
<1> QED
    BY <1>1 DEF TypeOK, Reserve, Release, Smaller

\* Every step of an entry keeps the inductive invariant.
LEMMA EntryStepPreserves ==
    ASSUME IInv, NEW t \in Tasks,
           \/ Commit(t) \/ Veto(t)
           \/ FirstLegFilled(t) \/ FirstLegRefused(t) \/ FirstLegUnknown(t)
           \/ SecondLegFilled(t) \/ SecondLegFailed(t)
           \/ ResidualAnswered(t) \/ Reversed(t) \/ NotReversed(t)
    PROVE  IInv'
<1>0. TypeOK /\ LockInv /\ RunInv /\ BookInv
    BY DEF IInv
<1> USE DEF EntryPhases, UnwindPhases, EntryLegs, UnwindLegs
<1>1. CASE Commit(t)
    <2>1. InFlight(t) /\ job[t].phase = "requote" /\ GoTo(t, "leg1", 0, 0) /\ UNCHANGED <<plan, book, registry>>
        BY <1>1 DEF Commit, Calling, InFlight
    <2>2. DataOK'
        BY <1>0, <1>1, CashType DEF Commit, TypeOK, DataOK
    <2> QED
        BY <2>1, <2>2, RunFacts, GoToPreserves
<1>2. CASE Veto(t)
    <2>1. InFlight(t) /\ Leave(t) /\ UNCHANGED <<plan, book, registry>>
        BY <1>2 DEF Veto, Calling, InFlight
    <2>2. DataOK' /\ BookInv'
        BY <1>0, <1>2 DEF Veto, TypeOK, DataOK, BookInv
    <2> QED
        BY <2>1, <2>2, LeavePreserves
<1>3. CASE FirstLegFilled(t)
    <2>1. InFlight(t) /\ job[t].phase = "leg1" /\ GoTo(t, "leg2", job[t].reply.qty, 0) /\ UNCHANGED <<plan, book, registry>>
        BY <1>3 DEF FirstLegFilled, Answered, InFlight
    <2>2. DataOK'
        BY <1>0, <1>3 DEF FirstLegFilled, TypeOK, DataOK
    <2>3. job[t].reply.qty > 0
        BY <1>3, FilledFacts DEF FirstLegFilled, Legs
    <2>4. job[t].reply.qty \in Qty /\ 0 \in Qty
        BY <2>1, RunFacts
    <2> QED
        BY <2>1, <2>2, <2>3, <2>4, GoToPreserves
<1>4. CASE FirstLegRefused(t)
    <2>1. InFlight(t) /\ Leave(t) /\ UNCHANGED <<plan, book, registry>>
        BY <1>4 DEF FirstLegRefused, Answered, InFlight
    <2>2. DataOK' /\ BookInv'
        BY <1>0, <1>4, CashType DEF FirstLegRefused, TypeOK, DataOK, BookInv
    <2> QED
        BY <2>1, <2>2, LeavePreserves
<1>5. CASE FirstLegUnknown(t)
    <2>1. InFlight(t) /\ Leave(t) /\ UNCHANGED <<plan, book, registry>>
        BY <1>5 DEF FirstLegUnknown, Answered, InFlight
    <2>2. job[t].plan \in Plans
        BY <2>1, RunFacts
    <2>3. DataOK' /\ BookInv'
        BY <1>0, <1>5, <2>2, EngageType DEF FirstLegUnknown, TypeOK, DataOK, BookInv
    <2> QED
        BY <2>1, <2>3, LeavePreserves
<1>6. CASE SecondLegFilled(t)
    <2>1. InFlight(t) /\ job[t].phase = "leg2" /\ plan' = plan
        BY <1>6 DEF SecondLegFilled, Answered, InFlight
    <2>2. job[t].reply.qty > 0
        BY <1>6, FilledFacts DEF SecondLegFilled, Legs
    <2>3. /\ job[t].plan \in Plans /\ plan[job[t].plan] = "taken"
          /\ job[t].fill1 \in Qty /\ job[t].reply.qty \in Qty /\ Qty \subseteq Int
        BY <2>1, RunFacts DEF RunOK
    <2>4. CASE job[t].fill1 > job[t].reply.qty
        <3>1. GoTo(t, "residual", job[t].fill1, job[t].reply.qty) /\ UNCHANGED <<plan, book, registry>>
            BY <1>6, <2>4 DEF SecondLegFilled
        <3>2. DataOK'
            BY <1>0, <1>6, <2>4 DEF SecondLegFilled, TypeOK, DataOK
        <3> QED
            BY <2>1, <2>2, <2>3, <2>4, <3>1, <3>2, GoToPreserves
    <2>5. CASE ~(job[t].fill1 > job[t].reply.qty)
        <3>1. OpenHedge(t, job[t].fill1, job[t].reply.qty) /\ Leave(t)
            BY <1>6, <2>5 DEF SecondLegFilled
        <3>2. /\ book' \in [Plans -> Position] /\ registry' \in [Plans -> Qty \cup {Unregistered}]
              /\ free' \in Int /\ reserved' \in Int /\ BookInv'
            BY <2>1, <2>3, <3>1, OpenHedgeEffect
        <3>3. DataOK'
            BY <1>0, <1>6, <2>1, <3>2 DEF SecondLegFilled, TypeOK, DataOK
        <3> QED
            BY <2>1, <3>1, <3>2, <3>3, LeavePreserves
    <2> QED
        BY <2>4, <2>5
<1>7. CASE SecondLegFailed(t)
    <2>1. InFlight(t) /\ job[t].phase = "leg2" /\ GoTo(t, "reverse", job[t].fill1, 0) /\ UNCHANGED <<plan, book, registry>>
        BY <1>7 DEF SecondLegFailed, Answered, InFlight
    <2>2. DataOK'
        BY <1>0, <1>7, EngageType DEF SecondLegFailed, TypeOK, DataOK, Unknown
    <2>3. job[t].fill1 \in Qty /\ 0 \in Qty /\ job[t].fill1 > 0
        BY <2>1, RunFacts DEF RunOK, FillsOK
    <2> QED
        BY <2>1, <2>2, <2>3, GoToPreserves
<1>8. CASE ResidualAnswered(t)
    <2>1. InFlight(t) /\ job[t].phase = "residual" /\ plan' = plan /\ Leave(t) /\ job[t].sent
          /\ OpenHedge(t, job[t].fill1 - job[t].reply.qty, job[t].fill2)
        BY <1>8 DEF ResidualAnswered, Answered, InFlight
    <2>2. /\ job[t].plan \in Plans /\ plan[job[t].plan] = "taken"
          /\ job[t].fill1 \in Qty /\ job[t].fill2 \in Qty /\ job[t].reply.qty \in Qty
        BY <2>1, RunFacts DEF RunOK
    <2>3. job[t].reply.qty <= job[t].fill1 - job[t].fill2
        <3>1. job[t].reply.qty <= LegOf(t).qty
            BY <2>1, RunFacts DEF RunOK, ReplyOK
        <3>2. LegOf(t).qty = job[t].fill1 - job[t].fill2
            BY <2>1 DEF LegOf
        <3> QED
            BY <3>1, <3>2
    <2>4. job[t].fill1 - job[t].reply.qty \in Qty
        BY <2>2, <2>3, LotsAssumption DEF Qty
    <2>5. /\ book' \in [Plans -> Position] /\ registry' \in [Plans -> Qty \cup {Unregistered}]
          /\ free' \in Int /\ reserved' \in Int /\ BookInv'
        BY <2>1, <2>2, <2>4, OpenHedgeEffect
    <2>6. DataOK'
        BY <1>0, <1>8, <2>1, <2>5 DEF ResidualAnswered, TypeOK, DataOK
    <2> QED
        BY <2>1, <2>5, <2>6, LeavePreserves
<1>9. CASE Reversed(t)
    <2>1. InFlight(t) /\ Leave(t) /\ UNCHANGED <<plan, book, registry>>
        BY <1>9 DEF Reversed, Answered, InFlight
    <2>2. DataOK' /\ BookInv'
        BY <1>0, <1>9, CashType DEF Reversed, TypeOK, DataOK, BookInv
    <2> QED
        BY <2>1, <2>2, LeavePreserves
<1>10. CASE NotReversed(t)
    <2>1. InFlight(t) /\ job[t].phase = "reverse" /\ plan' = plan /\ Leave(t)
          /\ Book(job[t].plan, OpenedNaked(First, job[t].fill1), job[t].fill1)
        BY <1>10 DEF NotReversed, Answered, InFlight
    <2>2. /\ job[t].plan \in Plans /\ plan[job[t].plan] = "taken"
          /\ job[t].fill1 \in Qty /\ 0 \in Qty
        BY <2>1, RunFacts DEF RunOK
    <2> DEFINE pos == OpenedNaked(First, job[t].fill1)
    <2>3. pos \in Position /\ pos.open /\ pos.perp <= job[t].fill1
        BY <2>2, OpenedType, LotsAssumption DEF OpenedNaked, Qty
    <2>4. Book(job[t].plan, pos, job[t].fill1)
        BY <2>1
    <2> HIDE DEF pos
    <2>5. /\ book' \in [Plans -> Position] /\ registry' \in [Plans -> Qty \cup {Unregistered}]
          /\ free' \in Int /\ reserved' \in Int /\ BookInv'
        BY <2>1, <2>2, <2>3, <2>4, BookEffect
    <2>6. DataOK'
        BY <1>0, <1>10, <2>1, <2>5, EngageType DEF NotReversed, TypeOK, DataOK
    <2> QED
        BY <2>1, <2>5, <2>6, LeavePreserves
<1> QED
    BY <1>1, <1>2, <1>3, <1>4, <1>5, <1>6, <1>7, <1>8, <1>9, <1>10

------------------------------------------------------------------------------
(* Every action of the unwind preserves the invariant.                       *)

\* Every step of an unwind keeps it.
LEMMA UnwindStepPreserves ==
    ASSUME IInv, NEW t \in Tasks,
           \/ UnwindApproved(t) \/ UnwindRefused(t)
           \/ PerpClosed(t) \/ PerpNotClosed(t)
           \/ DexSold(t) \/ DexNotSold(t)
           \/ Reshorted(t) \/ NotReshorted(t)
    PROVE  IInv'
<1>0. TypeOK /\ LockInv /\ RunInv /\ BookInv
    BY DEF IInv
<1> USE DEF EntryPhases, UnwindPhases, EntryLegs, UnwindLegs
<1>1. CASE UnwindApproved(t)
    <2> DEFINE ph == IF Pos(t).perp > 0 THEN "u_perp" ELSE "u_dex"
    <2>1. InFlight(t) /\ job[t].phase = "u_requote" /\ GoTo(t, ph, 0, 0) /\ UNCHANGED <<plan, book, registry>>
        BY <1>1 DEF UnwindApproved, Calling, InFlight
    <2>2. DataOK'
        BY <1>0, <1>1 DEF UnwindApproved, TypeOK, DataOK
    <2>3. ph \in {"u_perp", "u_dex"}
        OBVIOUS
    <2>4. 0 \in Qty /\ 0 <= Pos(t).perp
        BY <2>1, RunFacts DEF Position, Qty
    <2> HIDE DEF ph
    <2> QED
        BY <2>1, <2>2, <2>3, <2>4, GoToPreserves
<1>2. CASE UnwindRefused(t)
    <2>1. InFlight(t) /\ Leave(t) /\ UNCHANGED <<plan, book, registry>>
        BY <1>2 DEF UnwindRefused, Calling, InFlight
    <2>2. DataOK' /\ BookInv'
        BY <1>0, <1>2 DEF UnwindRefused, TypeOK, DataOK, BookInv
    <2> QED
        BY <2>1, <2>2, LeavePreserves
<1>3. CASE PerpClosed(t)
    <2>1. InFlight(t) /\ job[t].phase = "u_perp" /\ plan' = plan
        BY <1>3 DEF PerpClosed, Answered, InFlight
    <2>2. job[t].reply.qty > 0 /\ job[t].reply.qty <= LegOf(t).qty
        BY <1>3, FilledFacts DEF PerpClosed, Legs
    <2>3. LegOf(t).qty = Pos(t).perp
        BY <2>1 DEF LegOf
    <2>4. /\ job[t].plan \in Plans /\ Pos(t).open /\ job[t].reply.qty \in Qty /\ 0 \in Qty
        BY <2>1, RunFacts DEF RunOK, Pos
    <2>5. CASE Pos(t).dex > 0
        <3>1. GoTo(t, "u_dex", job[t].reply.qty, 0) /\ UNCHANGED <<plan, book, registry>>
            BY <1>3, <2>5 DEF PerpClosed
        <3>2. DataOK'
            BY <1>0, <1>3, <2>5 DEF PerpClosed, TypeOK, DataOK
        <3> QED
            BY <2>1, <2>2, <2>3, <2>4, <3>1, <3>2, GoToPreserves
    <2>6. CASE ~(Pos(t).dex > 0)
        <3>1. CloseLeg(t, "perp", job[t].reply.qty) /\ Leave(t)
            BY <1>3, <2>6 DEF PerpClosed
        <3>2. /\ book' \in [Plans -> Position] /\ registry' \in [Plans -> Qty \cup {Unregistered}]
              /\ free' \in Int /\ reserved' \in Int /\ BookInv'
            BY <2>1, <2>4, <3>1, CloseLegEffect DEF Venues
        <3>3. DataOK'
            BY <1>0, <1>3, <2>1, <3>2 DEF PerpClosed, TypeOK, DataOK
        <3> QED
            BY <2>1, <3>1, <3>2, <3>3, LeavePreserves
    <2> QED
        BY <2>5, <2>6
<1>4. CASE PerpNotClosed(t)
    <2>1. InFlight(t) /\ Leave(t) /\ UNCHANGED <<plan, book, registry>>
        BY <1>4 DEF PerpNotClosed, Answered, InFlight
    <2>2. DataOK' /\ BookInv'
        BY <1>0, <1>4, EngageType DEF PerpNotClosed, TypeOK, DataOK, BookInv, Unknown
    <2> QED
        BY <2>1, <2>2, LeavePreserves
<1>5. CASE DexSold(t)
    <2> DEFINE rest == BothClosed(Pos(t), job[t].reply.qty, job[t].fill1)
    <2>1. InFlight(t) /\ job[t].phase = "u_dex" /\ plan' = plan /\ Leave(t)
        BY <1>5 DEF DexSold, Answered, InFlight
    <2>2. /\ job[t].plan \in Plans /\ Pos(t).open /\ Pos(t) \in Position
          /\ job[t].reply.qty \in Qty /\ job[t].fill1 \in Qty
        BY <2>1, RunFacts DEF RunOK, Pos
    <2>3. /\ book' \in [Plans -> Position] /\ registry' \in [Plans -> Qty \cup {Unregistered}]
          /\ free' \in Int /\ reserved' \in Int /\ BookInv'
        <3>1. CASE job[t].fill1 > 0
            <4>1. Reduce(job[t].plan, rest, BothReleases(Pos(t), job[t].fill1), rest.perp)
                BY <1>5, <3>1 DEF DexSold
            <4>2. /\ rest \in Position /\ (~rest.open => rest = NoPosition)
                  /\ BothReleases(Pos(t), job[t].fill1) \in Int
                BY <2>2, BothClosedEffect
            <4>3. book[job[t].plan].open
                BY <2>2 DEF Pos
            <4> HIDE DEF rest
            <4>4. rest.perp \in Qty /\ rest.perp <= rest.perp
                BY <4>2, LotsAssumption DEF Position, Qty
            <4> QED
                BY <2>1, <2>2, <4>1, <4>2, <4>3, <4>4, ReduceEffect
        <3>2. CASE ~(job[t].fill1 > 0)
            <4>1. CloseLeg(t, "dex", job[t].reply.qty)
                BY <1>5, <3>2 DEF DexSold
            <4> QED
                BY <2>1, <2>2, <4>1, CloseLegEffect DEF Venues
        <3> QED
            BY <3>1, <3>2
    <2>4. DataOK'
        BY <1>0, <1>5, <2>1, <2>3 DEF DexSold, TypeOK, DataOK
    <2> QED
        BY <2>1, <2>3, <2>4, LeavePreserves
<1>6. CASE DexNotSold(t)
    <2>1. InFlight(t) /\ job[t].phase = "u_dex" /\ UNCHANGED <<plan, book, registry>>
        BY <1>6 DEF DexNotSold, Answered, InFlight
    <2>2. job[t].fill1 \in Qty /\ 0 \in Qty /\ job[t].fill1 <= Pos(t).perp
        BY <2>1, RunFacts DEF RunOK, FillsOK
    <2>3. DataOK' /\ BookInv'
        BY <1>0, <1>6 DEF DexNotSold, TypeOK, DataOK, BookInv
    <2>4. CASE job[t].fill1 > 0
        <3>1. GoTo(t, "u_reshort", job[t].fill1, 0)
            BY <1>6, <2>4 DEF DexNotSold
        <3> QED
            BY <2>1, <2>2, <2>3, <2>4, <3>1, GoToPreserves
    <2>5. CASE ~(job[t].fill1 > 0)
        <3>1. Leave(t)
            BY <1>6, <2>5 DEF DexNotSold
        <3> QED
            BY <2>1, <2>3, <3>1, LeavePreserves
    <2> QED
        BY <2>4, <2>5
<1>7. CASE Reshorted(t)
    <2>1. InFlight(t) /\ Leave(t) /\ UNCHANGED <<plan, book, registry>>
        BY <1>7 DEF Reshorted, Answered, InFlight
    <2>2. DataOK' /\ BookInv'
        BY <1>0, <1>7 DEF Reshorted, TypeOK, DataOK, BookInv
    <2> QED
        BY <2>1, <2>2, LeavePreserves
<1>8. CASE NotReshorted(t)
    <2>1. InFlight(t) /\ job[t].phase = "u_reshort" /\ plan' = plan /\ Leave(t)
          /\ CloseLeg(t, "perp", job[t].fill1)
        BY <1>8 DEF NotReshorted, Answered, InFlight
    <2>2. job[t].plan \in Plans /\ Pos(t).open /\ job[t].fill1 \in Qty
        BY <2>1, RunFacts DEF RunOK, Pos
    <2>3. /\ book' \in [Plans -> Position] /\ registry' \in [Plans -> Qty \cup {Unregistered}]
          /\ free' \in Int /\ reserved' \in Int /\ BookInv'
        BY <2>1, <2>2, CloseLegEffect DEF Venues
    <2>4. DataOK'
        BY <1>0, <1>8, <2>1, <2>3, EngageType DEF NotReshorted, TypeOK, DataOK
    <2> QED
        BY <2>1, <2>3, <2>4, LeavePreserves
<1> QED
    BY <1>1, <1>2, <1>3, <1>4, <1>5, <1>6, <1>7, <1>8

------------------------------------------------------------------------------
(* The steps that begin a run, and everybody else's.                         *)

\* So does a task that begins an entry or an unwind,
LEMMA BeginPreserves ==
    ASSUME IInv, NEW t \in Tasks, NEW p \in Plans, Execute(t, p) \/ Unwind(t, p)
    PROVE  IInv'
<1>0. TypeOK /\ BookInv
    BY DEF IInv
<1>1. CASE Execute(t, p)
    <2>1. Enter(t, p, "requote") /\ plan[p] = "stored" /\ UNCHANGED <<book, registry>>
          /\ plan' = [plan EXCEPT ![p] = "taken"]
        BY <1>1 DEF Execute
    <2>2. plan' \in [Plans -> Status] /\ plan'[p] = "taken" /\ \A q \in Plans : q # p => plan'[q] = plan[q]
        BY <1>0, <2>1 DEF TypeOK, Status
    <2>3. ~book[p].open
        BY <1>0, <2>1 DEF BookInv
    <2>4. BookInv'
        BY <1>0, <2>1, <2>2, <2>3 DEF BookInv
    <2>5. DataOK'
        BY <1>0, <1>1, <2>2 DEF Execute, Enter, TypeOK, DataOK
    <2> QED
        BY <2>1, <2>2, <2>3, <2>4, <2>5, EnterPreserves
<1>2. CASE Unwind(t, p)
    <2>1. Enter(t, p, "u_requote") /\ book[p].open /\ UNCHANGED <<plan, book, registry>>
        BY <1>2 DEF Unwind
    <2>2. DataOK' /\ BookInv'
        BY <1>0, <1>2 DEF Unwind, Enter, TypeOK, DataOK, BookInv
    <2> QED
        BY <2>1, <2>2, EnterPreserves
<1> QED
    BY <1>1, <1>2

\* A step that leaves the runs, the book and the registry alone, and takes no plan back.
LEMMA OutsidePreserves ==
    ASSUME IInv, UNCHANGED <<lock, job, book, registry, free, reserved, venue, stranded>>,
           kill' \in BOOLEAN, alarm' \in BOOLEAN, halted' \in BOOLEAN,
           plan' \in [Plans -> Status],
           \A p \in Plans : plan[p] = "taken" <=> plan'[p] = "taken"
    PROVE  IInv'
<1>0. TypeOK /\ LockInv /\ RunInv /\ BookInv
    BY DEF IInv
<1>1. TypeOK'
    BY <1>0 DEF TypeOK
<1>2. LockInv'
    BY <1>0 DEF LockInv, InFlight
<1>3. RunInv'
    <2> SUFFICES ASSUME NEW t \in Tasks, InFlight(t)' PROVE RunOK(t)'
        BY DEF RunInv
    <2>1. RunOK(t)
        BY <1>0 DEF RunInv, InFlight
    <2>2. FillsOK(t)'
        BY <2>1 DEF RunOK, FillsOK, Pos
    <2>3. ReplyOK(t)'
        BY <2>1 DEF RunOK, ReplyOK, LegOf, Pos
    <2> QED
        BY <2>1, <2>2, <2>3 DEF RunOK
<1>4. BookInv'
    BY <1>0 DEF BookInv
<1> QED
    BY <1>1, <1>2, <1>3, <1>4 DEF IInv

\* and what clients, ticks and operators do.
LEMMA EnvironmentPreserves ==
    ASSUME IInv, Environment
    PROVE  IInv'
<1>0. TypeOK
    BY DEF IInv
<1>1. ASSUME NEW p \in Plans, Propose(p) \/ Expire(p) PROVE IInv'
    <2>1. plan' \in [Plans -> Status] /\ \A q \in Plans : plan[q] = "taken" <=> plan'[q] = "taken"
        BY <1>0, <1>1 DEF Propose, Expire, TypeOK, Status
    <2> QED
        BY <1>0, <1>1, <2>1, OutsidePreserves DEF Propose, Expire, TypeOK
<1>2. ASSUME NEW on \in BOOLEAN, OperatorKill(on) PROVE IInv'
    BY <1>0, <1>2, OutsidePreserves DEF OperatorKill, TypeOK
<1>3. CASE Halt \/ ResetHalt
    BY <1>0, <1>3, OutsidePreserves DEF Halt, ResetHalt, TypeOK
<1> QED
    BY <1>1, <1>2, <1>3 DEF Environment

------------------------------------------------------------------------------
(* The invariant and the theorems.                                           *)

\* The invariant holds at the start,
LEMMA InitEstablishes == Init => IInv
<1> SUFFICES ASSUME Init PROVE IInv
    OBVIOUS
<1>1. IdleJob \in Job /\ NoPosition \in Position /\ 0 \in Qty
    BY IdleJobType, NoPositionType, LotsAssumption DEF Qty
<1>2. TypeOK
    <2>1. plan \in [Plans -> Status]
        BY DEF Init, Status
    <2>2. job \in [Tasks -> Job] /\ book \in [Plans -> Position]
        BY <1>1 DEF Init
    <2>3. registry \in [Plans -> Qty \cup {Unregistered}]
        BY DEF Init
    <2>4. venue \in [Venues -> Int]
        BY DEF Init
    <2>5. free \in Int /\ reserved \in Int
        BY CashAssumption DEF Init
    <2>6. lock \in Tasks \cup {None} /\ stranded \subseteq Plans
        BY DEF Init
    <2>7. kill \in BOOLEAN /\ alarm \in BOOLEAN /\ halted \in BOOLEAN
        BY DEF Init
    <2> QED
        BY <2>1, <2>2, <2>3, <2>4, <2>5, <2>6, <2>7 DEF TypeOK
<1>3. LockInv /\ RunInv
    BY NoneAssumption DEF Init, LockInv, RunInv, InFlight, IdleJob
<1>4. BookInv
    BY DEF Init, BookInv, NoPosition
<1> QED
    BY <1>2, <1>3, <1>4 DEF IInv

\* and every step keeps it.
LEMMA NextPreserves == IInv /\ [Next]_vars => IInv'
<1> SUFFICES ASSUME IInv, [Next]_vars PROVE IInv'
    OBVIOUS
<1>1. ASSUME NEW t \in Tasks, Step(t) PROVE IInv'
    BY <1>1, SendLegPreserves, EntryStepPreserves, UnwindStepPreserves DEF Step
<1>2. ASSUME NEW t \in Tasks, NEW p \in Plans, Execute(t, p) \/ Unwind(t, p) PROVE IInv'
    BY <1>2, BeginPreserves
<1>3. CASE Environment
    BY <1>3, EnvironmentPreserves
<1>4. CASE UNCHANGED vars
    BY <1>4, OutsidePreserves DEF vars, IInv, TypeOK
<1> QED
    BY <1>1, <1>2, <1>3, <1>4 DEF Next

\* The inductive invariant holds in every reachable state.
THEOREM Invariance == Spec => []IInv
BY InitEstablishes, NextPreserves, PTL DEF Spec

\* Type correctness of the executor and of everything it drives.
THEOREM TypeCorrect == Spec => []TypeOK
<1>1. IInv => TypeOK
    BY DEF IInv
<1> QED
    BY <1>1, Invariance, PTL

\* The gate's registry (risk_gate.py register_position/release_position) names exactly
\* the positions of the book, whatever fails in an entry or an unwind.
THEOREM RegistryInStep == Spec => []RegistryMatchesBook
<1>1. IInv => RegistryMatchesBook
    <2> SUFFICES ASSUME IInv, NEW p \in Plans PROVE book[p].open <=> registry[p] # Unregistered
        BY DEF RegistryMatchesBook
    <2>1. book[p].open => registry[p] \in Qty
        BY DEF IInv, BookInv
    <2>2. ~book[p].open => registry[p] = Unregistered
        BY DEF IInv, BookInv
    <2>3. Unregistered \notin Qty
        BY LotsAssumption DEF Unregistered, Qty
    <2>4. book[p].open \in BOOLEAN
        BY DEF IInv, TypeOK, Position
    <2> QED
        BY <2>1, <2>2, <2>3, <2>4
<1> QED
    BY <1>1, Invariance, PTL

\* An exit is never vetoed for its quantity: the gate recognises the unwind of every
\* open position as verified reduce-only, so a kill switch or a halt locks nothing in.
THEOREM ExitAlwaysOpen == Spec => []ExitNeverVetoed
<1>1. IInv => ExitNeverVetoed
    <2> SUFFICES ASSUME IInv, NEW p \in Plans, book[p].open PROVE VerifiedUnwind(p)
        BY DEF ExitNeverVetoed
    <2>1. registry[p] \in Qty /\ book[p].perp <= registry[p]
        BY DEF IInv, BookInv
    <2>2. Unregistered \notin Qty
        BY LotsAssumption DEF Unregistered, Qty
    <2> QED
        BY <2>1, <2>2 DEF VerifiedUnwind
<1> QED
    BY <1>1, Invariance, PTL
=============================================================================

--------------------------- MODULE PerpOrderProofs ---------------------------
(* The theorems of PerpOrder: what a perp leg can have at the venue, for every    *)
(* quantity, number of attempts and set of faults.                                *)
(*                                                                                *)
(* Every request of the router is first shown to be one of three steps: it stays  *)
(* with the order of this attempt, it retries under the next client id, or it     *)
(* answers the executor.                                                          *)
EXTENDS PerpOrder, SumLemmas

------------------------------------------------------------------------------
(* The inductive invariant.                                                  *)

\* An order never fills beyond its size, and a working one is not full.
Sane(o) == /\ o.filled <= o.size
           /\ o.at = "working" => o.filled < o.size
           /\ o.at = "nowhere" => o = NoOrder

\* The phases in which the maker has an order at the venue.
Watched == {"watch", "cancel", "recheck", "confirm", "confirm_stuck"}

\* What phase ph may assume of the order o of this attempt, with f lots filled before it, s
\* lots of it seen and t cancels sent.
PhaseOK(st, ph, f, o, s, t) ==
    /\ ph = "post" => o = NoOrder
    /\ st = "ioc" => ph \in {"post", "find"} /\ f = 0 /\ o.at # "working"
    /\ st # "ioc" /\ o.at # "nowhere" => o.size <= Asked - f
    /\ ph \in Watched => o.at # "nowhere" /\ s <= o.filled
    /\ ph = "cancel" => t < CancelTries
    /\ ph = "confirm" => o.at = "ended"

OrdersInv ==
    \A i \in 1 .. Attempts :
        /\ Sane(orders[i])
        /\ i > attempt => orders[i] = NoOrder
        /\ i # attempt => orders[i].at # "working"

PhaseInv ==
    /\ pc # "done" => PhaseOK(style, pc, filled, Now, seen, tries)
    /\ (pc = "done") <=> (answer # Leg!Pending)

BInv == TypeOK /\ OrdersInv /\ PhaseInv

------------------------------------------------------------------------------
(* The steps of the router.                                                  *)

\* The counters and flags of the maker's loops.
Small(ph, s, x, w, t) ==
    /\ ph \in {"post", "find", "watch", "cancel", "recheck", "confirm", "confirm_stuck", "done"}
    /\ s \in 0 .. Asked /\ x \in BOOLEAN /\ w \in {"BUDGET", "REPRICE"} /\ t \in 0 .. CancelTries

\* The order of this attempt becomes o.
Becomes(o) ==
    /\ pc # "done" /\ o \in Order /\ Sane(o) /\ Now.filled <= o.filled
    /\ orders' = [orders EXCEPT ![attempt] = o]
    /\ style' = style
    /\ filled + o.filled <= Asked /\ filled + Exposure(o) <= Asked

\* The maker goes on from a quantity that it could not read (maker.py, _cancel).
Stale == style = "maker" /\ MayFail("confirm_blind")

\* The answer after n lots.
Told(n) == IF n > 0 THEN Leg!Fill(n) ELSE Leg!Refused

Stays(o) ==
    /\ Becomes(o)
    /\ pc' # "done" /\ PhaseOK(style, pc', filled, o, seen', tries')
    /\ UNCHANGED <<attempt, filled, answer>>

Retries(o) ==
    /\ Becomes(o)
    /\ o.at # "working"
    /\ pc' = "post" /\ attempt < Attempts /\ attempt' = attempt + 1
    /\ filled' \in 0 .. Asked /\ (style = "ioc" => filled' = 0)
    /\ filled' = filled + o.filled \/ Stale
    /\ UNCHANGED answer

\* What the router counts is what the orders have filled and none is left; or it says that
\* it does not know; or it is the maker and could not read a book, an order or a quantity.
Answers(o) ==
    /\ Becomes(o)
    /\ pc' = "done" /\ attempt' = attempt /\ filled' \in 0 .. Asked
    /\ \/ answer' = Told(filled + o.filled) /\ o.at # "working"
       \/ answer' = Leg!Unknown
       \/ Stale /\ o.at # "working" /\ \E n \in 0 .. Asked : answer' = Told(n)
       \/ /\ style = "maker" /\ o = Now
          /\ \/ MayFail("bad_book") /\ o.at # "working" /\ answer' = Leg!Refused
             \/ MayFail("find_blind") /\ answer' = Told(filled)

\* The order of the attempt being made, and what it can come to.
LEMMA NowFacts ==
    ASSUME BInv, pc # "done"
    PROVE  /\ attempt \in 1 .. Attempts /\ Asked \in Int /\ Asked > 0 /\ filled \in Int /\ 0 <= filled
           /\ filled <= Asked
           /\ Now \in Order /\ Sane(Now) /\ Now.filled \in Int /\ Now.size \in Int
           /\ 0 <= Now.filled /\ Now.filled <= Now.size /\ Now.size <= Asked
           /\ filled + Now.filled <= Asked /\ filled + Exposure(Now) <= Asked
           /\ PhaseOK(style, pc, filled, Now, seen, tries)
           /\ style \in {"ioc", "maker"}
<1>1. /\ attempt \in 1 .. Attempts /\ Asked \in Int /\ Asked > 0 /\ filled \in Int /\ 0 <= filled
      /\ filled <= Asked
    BY LegAssumption DEF BInv, TypeOK
<1>2. Now \in Order /\ Sane(Now) /\ PhaseOK(style, pc, filled, Now, seen, tries)
    BY <1>1 DEF BInv, TypeOK, OrdersInv, PhaseInv, Now
<1>3. /\ Now.filled \in Int /\ Now.size \in Int /\ Now.at \in {"nowhere", "working", "ended"}
      /\ 0 <= Now.filled /\ Now.filled <= Now.size /\ Now.size <= Asked
    BY <1>1, <1>2 DEF Order, Sane
<1>4. style \in {"ioc", "maker"}
    BY StyleAssumption DEF BInv, TypeOK
<1>5. Now.at = "nowhere" => Now.filled = 0 /\ Exposure(Now) = 0
    BY <1>2 DEF Sane, NoOrder, Exposure
<1>6. Exposure(Now) \in Int /\ Exposure(Now) <= Now.size
    BY <1>3 DEF Exposure
<1>7. filled + Now.filled <= Asked /\ filled + Exposure(Now) <= Asked
    <2>1. CASE style = "ioc"
        <3>1. filled = 0
            BY <1>2, <2>1 DEF PhaseOK
        <3> QED
            BY <1>1, <1>3, <1>6, <3>1
    <2>2. CASE style # "ioc" /\ Now.at # "nowhere"
        <3>1. Now.size <= Asked - filled
            BY <1>2, <2>2 DEF PhaseOK
        <3> QED
            BY <1>1, <1>3, <1>6, <3>1
    <2>3. CASE Now.at = "nowhere"
        BY <1>1, <1>5, <2>3
    <2> QED
        BY <2>1, <2>2, <2>3
<1> QED
    BY <1>1, <1>2, <1>3, <1>4, <1>7

\* A request that leaves the order alone.
LEMMA KeepsOrder ==
    ASSUME BInv, pc # "done", orders' = orders, style' = style
    PROVE  Becomes(Now)
<1>1. orders' = [orders EXCEPT ![attempt] = Now]
    BY NowFacts DEF BInv, TypeOK, Now
<1>2. Now.filled <= Now.filled
    BY NowFacts
<1> QED
    BY <1>1, <1>2, NowFacts DEF Becomes

\* _fill_perp with the fill of an IOC order in hand.
LEMMA SettledSteps ==
    ASSUME BInv, pc # "done", style = "ioc", NEW o \in Order, Becomes(o), o.at # "working",
           filled' = filled, Settled(o.filled)
    PROVE  (Retries(o) \/ Answers(o)) /\ pc' \in {"post", "done"}
<1>1. filled = 0 /\ filled' = 0 /\ filled' \in 0 .. Asked /\ o.filled \in Int
    BY NowFacts, LegAssumption DEF PhaseOK, Order
<1>2. filled + o.filled = o.filled
    BY <1>1
<1>3. CASE o.filled > 0
    <2>1. pc' = "done" /\ attempt' = attempt /\ answer' = Leg!Fill(o.filled)
        BY <1>3 DEF Settled, AnswerWith
    <2> QED
        BY <1>1, <1>2, <1>3, <2>1 DEF Answers, Told
<1>4. CASE ~(o.filled > 0) /\ attempt < Attempts
    <2>1. pc' = "post" /\ attempt' = attempt + 1 /\ answer' = answer
        BY <1>4 DEF Settled, NextAttempt
    <2>2. o.filled = 0
        BY <1>1, <1>4 DEF Order
    <2> QED
        BY <1>1, <1>2, <1>4, <2>1, <2>2 DEF Retries
<1>5. CASE ~(o.filled > 0) /\ ~(attempt < Attempts)
    <2>1. pc' = "done" /\ attempt' = attempt /\ answer' = Leg!Refused
        BY <1>5 DEF Settled, NextAttempt, AnswerWith
    <2> QED
        BY <1>1, <1>2, <1>5, <2>1 DEF Answers, Told
<1> QED
    BY <1>3, <1>4, <1>5

\* work with `got` lots of an order in hand: of an order that has ended, all it filled.
LEMMA CollectSteps ==
    ASSUME BInv, pc # "done", style = "maker", NEW o \in Order, Becomes(o),
           NEW got \in Int, 0 <= got, got <= o.filled, NEW status, Collect(got, status),
           status = "STUCK" \/ (o.at # "working" /\ (got = o.filled \/ Stale))
    PROVE  (Retries(o) \/ Answers(o)) /\ pc' \in {"post", "done"}
<1> DEFINE total == filled + got
<1>1. /\ filled \in Int /\ o.filled \in Int /\ Asked \in Int /\ 0 <= filled
      /\ total \in Int /\ 0 <= total /\ total <= Asked
    BY NowFacts DEF Becomes, Order
<1>2. total \in 0 .. Asked
    BY <1>1
<1>a. Collect(got, status) = CASE status = "STUCK" -> filled' = total /\ AnswerWith(Leg!Unknown)
          [] status = "BUDGET" \/ (status = "FILLED" /\ total >= Asked) -> Finish(total)
          [] OTHER -> Repost(total)
    BY DEF Collect
<1> HIDE DEF total
<1>3. CASE status = "STUCK"
    <2>1. filled' = total /\ AnswerWith(Leg!Unknown)
        BY <1>3, <1>a
    <2>2. filled' \in 0 .. Asked /\ pc' = "done" /\ attempt' = attempt /\ answer' = Leg!Unknown
        BY <1>2, <2>1 DEF AnswerWith
    <2> QED
        BY <2>2 DEF Answers
<1>4. CASE status # "STUCK"
    <2>1. o.at # "working" /\ (total = filled + o.filled \/ Stale)
        BY <1>4 DEF total
    <2>2. ASSUME Finish(total) PROVE Answers(o) /\ pc' = "done"
        <3>1. filled' = total /\ pc' = "done" /\ attempt' = attempt /\ answer' = Told(total)
            BY <2>2 DEF Finish, AnswerWith, Told
        <3> QED
            BY <1>2, <2>1, <3>1 DEF Answers
    <2>3. ASSUME Repost(total) PROVE (Retries(o) \/ Answers(o)) /\ pc' \in {"post", "done"}
        <3>1. CASE attempt < Attempts
            <4>1. filled' = total /\ attempt' = attempt + 1 /\ pc' = "post" /\ answer' = answer
                BY <2>3, <3>1 DEF Repost
            <4> QED
                BY <1>2, <2>1, <3>1, <4>1 DEF Retries
        <3>2. CASE ~(attempt < Attempts)
            BY <2>2, <2>3, <3>2 DEF Repost
        <3> QED
            BY <3>1, <3>2
    <2>4. Finish(total) \/ Repost(total)
        BY <1>4, <1>a
    <2> QED
        BY <2>2, <2>3, <2>4
<1> QED
    BY <1>3, <1>4

\* Every request of the router is one of the three steps.
Steps ==
    /\ Small(pc', seen', expired', why', tries')
    /\ \E o \in Order : Stays(o) \/ Retries(o) \/ Answers(o)

\* The small variables as they are.
LEMMA SmallNow ==
    ASSUME BInv
    PROVE  /\ Small(pc, seen, expired, why, tries)
           /\ \A ph \in {"post", "find", "watch", "cancel", "recheck", "confirm", "confirm_stuck", "done"} :
                 Small(ph, seen, expired, why, tries)
BY DEF BInv, TypeOK, Small

\* An order that is not there, and an IOC order as executed.
LEMMA OrderKinds ==
    ASSUME BInv, pc # "done"
    PROVE  /\ NoOrder \in Order /\ Sane(NoOrder) /\ NoOrder.filled = 0 /\ NoOrder.size = 0
           /\ NoOrder.at = "nowhere" /\ Exposure(NoOrder) = 0
           /\ \A q \in 0 .. Asked :
                 /\ Executed(q) \in Order /\ Sane(Executed(q)) /\ Executed(q).at = "ended"
                 /\ Executed(q).filled = q /\ Exposure(Executed(q)) = q
           /\ \A z \in 1 .. Asked :
                 /\ Resting(z) \in Order /\ Sane(Resting(z)) /\ Resting(z).at = "working"
                 /\ Resting(z).filled = 0 /\ Resting(z).size = z /\ Exposure(Resting(z)) = z
<1>0. Asked \in Int /\ Asked > 0
    BY NowFacts
<1>1. /\ NoOrder \in Order /\ Sane(NoOrder) /\ NoOrder.filled = 0 /\ NoOrder.size = 0
      /\ NoOrder.at = "nowhere" /\ Exposure(NoOrder) = 0
    BY <1>0 DEF NoOrder, Order, Sane, Exposure
<1>2. ASSUME NEW q \in 0 .. Asked
      PROVE  /\ Executed(q) \in Order /\ Sane(Executed(q)) /\ Executed(q).at = "ended"
             /\ Executed(q).filled = q /\ Exposure(Executed(q)) = q
    BY <1>0 DEF Executed, Order, Sane, Exposure
<1>3. ASSUME NEW z \in 1 .. Asked
      PROVE  /\ Resting(z) \in Order /\ Sane(Resting(z)) /\ Resting(z).at = "working"
             /\ Resting(z).filled = 0 /\ Resting(z).size = z /\ Exposure(Resting(z)) = z
    BY <1>0 DEF Resting, Order, Sane, Exposure
<1> QED
    BY <1>1, <1>2, <1>3

\* The requests of _fill_perp (IOC).
LEMMA IocSteps ==
    ASSUME BInv, Ioc
    PROVE  Steps
<1>0. style = "ioc" /\ pc # "done" /\ filled = 0
    <2>1. style = "ioc" /\ pc # "done"
        BY DEF Ioc, IocPosted, IocFatal, IocRejected, IocUnknown, IocFound, IocNotAsked, Calls
    <2> QED
        BY <2>1, NowFacts DEF PhaseOK
<1>1. UNCHANGED <<style, filled, seen, expired, why, tries>>
    BY DEF Ioc, IocPosted, IocFatal, IocRejected, IocUnknown, IocFound, IocNotAsked
<1>2. Asked \in Int /\ Asked > 0 /\ Now \in Order /\ Now.at # "working" /\ Now.filled \in Int
    BY <1>0, NowFacts DEF PhaseOK
<1>s. \A ph \in {"post", "find", "done"} : Small(ph, seen', expired', why', tries')
    BY <1>1, SmallNow
<1>3. ASSUME NEW o \in Order, Becomes(o), o.at # "working", Settled(o.filled) PROVE Steps
    BY <1>0, <1>1, <1>3, <1>s, SettledSteps DEF Steps
<1>4. ASSUME NEW q \in 0 .. Asked, pc = "post", orders' = [orders EXCEPT ![attempt] = Executed(q)]
      PROVE  Becomes(Executed(q))
    <2>1. Now.filled = 0
        BY <1>0, <1>4, NowFacts DEF PhaseOK, NoOrder
    <2> QED
        BY <1>0, <1>1, <1>2, <1>4, <2>1, OrderKinds DEF Becomes
<1>5. CASE IocPosted
    <2>1. PICK q \in 0 .. Asked : orders' = [orders EXCEPT ![attempt] = Executed(q)] /\ Settled(q)
        BY <1>5 DEF IocPosted
    <2>2. Executed(q) \in Order /\ Executed(q).at # "working" /\ Executed(q).filled = q
        BY <1>0, OrderKinds
    <2>3. pc = "post"
        BY <1>5 DEF IocPosted, Calls
    <2> QED
        BY <1>3, <1>4, <2>1, <2>2, <2>3
<1>6. CASE IocFatal \/ IocNotAsked
    <2>1. Becomes(Now)
        BY <1>0, <1>6, KeepsOrder DEF IocFatal, IocNotAsked
    <2>2. IocFatal => Now.filled = 0
        BY <1>0, NowFacts DEF IocFatal, Calls, PhaseOK, NoOrder
    <2>3. /\ pc' = "done" /\ attempt' = attempt /\ filled' \in 0 .. Asked
          /\ answer' = IF IocFatal THEN Leg!Refused ELSE Leg!Unknown
        BY <1>0, <1>1, <1>2, <1>6 DEF IocFatal, IocNotAsked, AnswerWith, Calls
    <2>4. IocFatal => answer' = Told(filled + Now.filled)
        BY <1>0, <2>2, <2>3 DEF Told
    <2> QED
        BY <1>2, <1>s, <2>1, <2>3, <2>4 DEF Steps, Answers
<1>7. CASE IocRejected
    <2>1. Becomes(Now)
        BY <1>0, <1>7, KeepsOrder DEF IocRejected
    <2>2. Now.filled = 0
        BY <1>0, <1>7, NowFacts DEF IocRejected, Calls, PhaseOK, NoOrder
    <2>3. Settled(Now.filled)
        BY <1>7, <2>2 DEF IocRejected, Settled
    <2> QED
        BY <1>2, <1>3, <2>1, <2>3
<1>8. CASE IocFound
    <2>1. Becomes(Now)
        BY <1>0, <1>8, KeepsOrder DEF IocFound
    <2> QED
        BY <1>2, <1>3, <1>8, <2>1 DEF IocFound
<1>9. CASE IocUnknown
    <2>1. PICK o \in {NoOrder} \cup {Executed(q) : q \in 0 .. Asked} : orders' = [orders EXCEPT ![attempt] = o]
        BY <1>9 DEF IocUnknown
    <2>2. pc' = "find" /\ UNCHANGED <<attempt, answer>>
        BY <1>9 DEF IocUnknown
    <2>a. pc = "post" /\ Now.filled = 0
        BY <1>0, <1>9, NowFacts DEF IocUnknown, Calls, PhaseOK, NoOrder
    <2>3. o \in Order /\ o.at # "working" /\ Becomes(o)
        <3>1. CASE o = NoOrder
            BY <1>0, <1>1, <1>2, <2>1, <2>a, <3>1, OrderKinds DEF Becomes
        <3>2. CASE o # NoOrder
            <4>1. PICK q \in 0 .. Asked : o = Executed(q)
                BY <3>2
            <4> QED
                BY <1>0, <1>4, <2>1, <2>a, <4>1, OrderKinds
        <3> QED
            BY <3>1, <3>2
    <2>4. PhaseOK(style, pc', filled, o, seen', tries')
        BY <1>0, <2>2, <2>3 DEF PhaseOK, Watched
    <2> QED
        BY <1>1, <1>s, <2>2, <2>3, <2>4 DEF Steps, Stays
<1> QED
    BY <1>5, <1>6, <1>7, <1>8, <1>9 DEF Ioc

\* A working order that ends keeps what it filled.
LEMMA EndsOrder ==
    ASSUME BInv, pc # "done", Now.at = "working", style' = style,
           orders' = [orders EXCEPT ![attempt].at = "ended"]
    PROVE  \E o \in Order : Becomes(o) /\ o.at = "ended" /\ o.filled = Now.filled /\ o.size = Now.size
<1> DEFINE o == [Now EXCEPT !.at = "ended"]
<1>1. o \in Order /\ o.at = "ended" /\ o.filled = Now.filled /\ o.size = Now.size
    BY NowFacts DEF Order
<1>2. orders' = [orders EXCEPT ![attempt] = o]
    BY NowFacts DEF BInv, TypeOK, Now
<1> HIDE DEF o
<1>3. Sane(o) /\ Exposure(o) = o.filled
    BY <1>1, NowFacts DEF Sane, Exposure
<1>4. filled + o.filled <= Asked /\ filled + Exposure(o) <= Asked /\ Now.filled <= o.filled
    BY <1>1, <1>3, NowFacts
<1> QED
    BY <1>1, <1>2, <1>3, <1>4 DEF Becomes

\* The top of the maker's loop: it posts, is rejected, or stops.
LEMMA MakerPosts ==
    ASSUME BInv, StopWorking \/ Posted \/ PostOnlyRejected \/ PostFailed
    PROVE  Steps
<1>0. style = "maker" /\ pc = "post"
    BY DEF StopWorking, Posted, PostOnlyRejected, PostFailed, CanPost, Calls
<1>1. Now = NoOrder /\ Now \in Order /\ Now.filled = 0 /\ Now.at = "nowhere"
    BY <1>0, NowFacts, OrderKinds DEF PhaseOK
<1>2. /\ Asked \in Int /\ Asked > 0 /\ filled \in Int /\ 0 <= filled /\ filled <= Asked
      /\ filled \in 0 .. Asked /\ 0 \in 0 .. Asked /\ filled + Now.filled = filled
    BY <1>0, <1>1, NowFacts
<1>3. style' = style /\ UNCHANGED <<expired, why, tries>>
    BY DEF StopWorking, Posted, PostOnlyRejected, PostFailed
<1>4. CASE StopWorking
    <2>1. Becomes(Now) /\ seen' = seen
        BY <1>0, <1>4, KeepsOrder DEF StopWorking
    <2>2. Small("done", seen', expired', why', tries')
        BY <1>3, <2>1, SmallNow
    <2>3. CASE Finish(filled)
        <3>1. filled' = filled /\ pc' = "done" /\ attempt' = attempt /\ answer' = Told(filled)
            BY <2>3 DEF Finish, AnswerWith, Told
        <3> QED
            BY <1>1, <1>2, <2>1, <2>2, <3>1 DEF Steps, Answers
    <2>4. CASE MayFail("bad_book") /\ Finish(0)
        <3>1. filled' = 0 /\ pc' = "done" /\ attempt' = attempt /\ answer' = Leg!Refused
            BY <2>4 DEF Finish, AnswerWith
        <3> QED
            BY <1>0, <1>1, <1>2, <2>1, <2>2, <2>4, <3>1 DEF Steps, Answers
    <2> QED
        BY <1>4, <2>3, <2>4 DEF StopWorking
<1>5. ASSUME CanPost
      PROVE  /\ Remaining \in 1 .. Asked
             /\ orders' = [orders EXCEPT ![attempt] = Resting(Remaining)] => Becomes(Resting(Remaining))
             /\ orders' = [orders EXCEPT ![attempt] = NoOrder] => Becomes(NoOrder)
    <2>1. Remaining \in 1 .. Asked /\ filled + Remaining = Asked
        BY <1>2, <1>5 DEF CanPost, Remaining
    <2>2. orders' = [orders EXCEPT ![attempt] = Resting(Remaining)] => Becomes(Resting(Remaining))
        <3>1. /\ Resting(Remaining) \in Order /\ Sane(Resting(Remaining))
              /\ Resting(Remaining).filled = 0 /\ Exposure(Resting(Remaining)) = Remaining
            BY <1>0, <2>1, OrderKinds
        <3> QED
            BY <1>0, <1>1, <1>2, <1>3, <2>1, <3>1 DEF Becomes
    <2>3. orders' = [orders EXCEPT ![attempt] = NoOrder] => Becomes(NoOrder)
        BY <1>0, <1>1, <1>2, <1>3, OrderKinds DEF Becomes
    <2> QED
        BY <2>1, <2>2, <2>3
<1>6. ASSUME CanPost, UNCHANGED <<attempt, filled, answer>>, seen' = 0, NEW ph \in {"watch", "find"}, pc' = ph,
             \/ orders' = [orders EXCEPT ![attempt] = Resting(Remaining)]
             \/ ph = "find" /\ orders' = [orders EXCEPT ![attempt] = NoOrder]
      PROVE  Steps
    <2>1. Small(pc', seen', expired', why', tries')
        BY <1>2, <1>3, <1>6, SmallNow DEF Small
    <2>2. CASE orders' = [orders EXCEPT ![attempt] = Resting(Remaining)]
        <3>1. /\ Resting(Remaining) \in Order /\ Resting(Remaining).at = "working"
              /\ Resting(Remaining).filled = 0 /\ Resting(Remaining).size = Asked - filled
            BY <1>0, <1>5, <1>6, OrderKinds DEF Remaining
        <3>2. PhaseOK(style, pc', filled, Resting(Remaining), seen', tries')
            BY <1>0, <1>2, <1>6, <3>1 DEF PhaseOK, Watched
        <3> QED
            BY <1>5, <1>6, <2>1, <2>2, <3>1, <3>2 DEF Steps, Stays
    <2>3. CASE ph = "find" /\ orders' = [orders EXCEPT ![attempt] = NoOrder]
        <3>1. PhaseOK(style, pc', filled, NoOrder, seen', tries')
            BY <1>0, <1>6, <2>3, OrderKinds DEF PhaseOK, Watched
        <3> QED
            BY <1>0, <1>5, <1>6, <2>1, <2>3, <3>1, OrderKinds DEF Steps, Stays
    <2> QED
        BY <1>6, <2>2, <2>3
<1>7. CASE Posted
    BY <1>6, <1>7 DEF Posted
<1>8. CASE PostFailed
    <2>1. PICK o \in {NoOrder} \cup (IF MayFail("unknown") THEN {Resting(Remaining)} ELSE {}) :
               orders' = [orders EXCEPT ![attempt] = o]
        BY <1>8 DEF PostFailed
    <2>2. o = NoOrder \/ o = Resting(Remaining)
        BY <2>1
    <2>3. CanPost /\ seen' = 0 /\ pc' = "find" /\ UNCHANGED <<attempt, filled, answer>>
        BY <1>8 DEF PostFailed
    <2> QED
        BY <1>6, <2>1, <2>2, <2>3
<1>9. CASE PostOnlyRejected
    <2>1. Becomes(Now) /\ seen' = seen /\ Repost(filled)
        BY <1>0, <1>9, KeepsOrder DEF PostOnlyRejected
    <2>2. Collect(0, "REPRICE")
        <3>1. filled + 0 = filled
            BY <1>2
        <3> QED
            BY <2>1, <3>1 DEF Collect
    <2>3. (Retries(Now) \/ Answers(Now)) /\ pc' \in {"post", "done"}
        BY <1>0, <1>1, <2>1, <2>2, CollectSteps
    <2>4. Small(pc', seen', expired', why', tries')
        BY <1>3, <2>1, <2>3, SmallNow
    <2> QED
        BY <1>1, <2>3, <2>4 DEF Steps
<1> QED
    BY <1>4, <1>7, <1>8, <1>9

\* The maker with `got` lots of an order in hand, small variables typed.
LEMMA CollectTyped ==
    ASSUME BInv, pc # "done", style = "maker", NEW o \in Order, Becomes(o),
           NEW got \in Int, 0 <= got, got <= o.filled, seen' = got, NEW status, Collect(got, status),
           status = "STUCK" \/ (o.at # "working" /\ (got = o.filled \/ Stale)),
           UNCHANGED <<expired, why, tries>>
    PROVE  Steps
<1>1. (Retries(o) \/ Answers(o)) /\ pc' \in {"post", "done"}
    BY CollectSteps
<1>2. got \in 0 .. Asked
    <2>1. o.filled \in Int /\ o.filled <= Asked /\ Asked \in Int
        BY NowFacts DEF Order
    <2> QED
        BY <2>1
<1>3. Small(pc', seen', expired', why', tries')
    BY <1>1, <1>2, SmallNow DEF Small
<1> QED
    BY <1>1, <1>3 DEF Steps

\* The maker leaves the order alone and goes on to another request about it.
LEMMA StaysWithOrder ==
    ASSUME BInv, style = "maker", pc # "done", Now.at # "nowhere",
           UNCHANGED <<style, orders, attempt, filled, answer>>,
           Small(pc', seen', expired', why', tries'), pc' \in Watched, seen' <= Now.filled,
           pc' = "cancel" => tries' < CancelTries, pc' = "confirm" => Now.at = "ended"
    PROVE  Steps
<1>1. Becomes(Now) /\ Now \in Order
    BY KeepsOrder, NowFacts
<1>2. Now.size <= Asked - filled
    BY NowFacts DEF PhaseOK
<1>3. PhaseOK(style, pc', filled, Now, seen', tries') /\ pc' # "done"
    BY <1>2 DEF PhaseOK, Watched
<1> QED
    BY <1>1, <1>3 DEF Steps, Stays

\* The lookup after a failed post, and the rounds of _watch.
LEMMA MakerWaits ==
    ASSUME BInv, FoundResting \/ NotFound \/ WatchSeen \/ WatchEnded \/ WatchBlind
    PROVE  Steps
<1>0. style = "maker" /\ pc \in {"find", "watch"} /\ pc # "done" /\ style' = style /\ orders' = orders
    BY DEF FoundResting, NotFound, WatchSeen, WatchEnded, WatchBlind, Watching, Calls
<1>1. /\ Becomes(Now) /\ Now \in Order /\ Now.filled \in Int /\ 0 <= Now.filled
      /\ Now.filled <= Asked /\ Now.filled \in 0 .. Asked
      /\ filled \in 0 .. Asked /\ filled \in Int
      /\ pc = "watch" => Now.at # "nowhere" /\ seen <= Now.filled
    <2>1. /\ Asked \in Int /\ Now.size \in Int
        BY <1>0, NowFacts
    <2> QED
        BY <1>0, <2>1, KeepsOrder, NowFacts DEF PhaseOK, Watched
<1>2. CASE FoundResting
    <2>1. UNCHANGED <<expired, why, tries>> /\ seen' = Now.filled /\ Now.at # "nowhere"
        BY <1>2 DEF FoundResting, Known
    <2>2. CASE Complete
        <3>1. Collect(Now.filled, "FILLED") /\ Now.at # "working"
            BY <1>2, <2>2 DEF FoundResting, Complete
        <3> QED
            BY <1>0, <1>1, <2>1, <3>1, CollectTyped
    <2>3. CASE ~Complete
        <3>1. pc' = "watch" /\ UNCHANGED <<attempt, filled, answer>>
            BY <1>2, <2>3 DEF FoundResting
        <3>2. Small(pc', seen', expired', why', tries')
            BY <1>1, <2>1, <3>1, SmallNow DEF Small
        <3> QED
            BY <1>0, <1>1, <2>1, <3>1, <3>2, StaysWithOrder DEF Watched
    <2> QED
        BY <2>2, <2>3
<1>3. CASE NotFound
    <2>1. filled' = filled /\ pc' = "done" /\ attempt' = attempt /\ answer' = Told(filled)
        BY <1>3 DEF NotFound, Finish, AnswerWith, Told
    <2>2. Small(pc', seen', expired', why', tries')
        BY <1>3, <2>1, SmallNow DEF NotFound
    <2>3. CASE MayFail("find_blind")
        BY <1>0, <1>1, <2>1, <2>2, <2>3 DEF Steps, Answers
    <2>4. CASE ~Known
        <3>1. Now.at = "nowhere" /\ Now.filled = 0 /\ filled + Now.filled = filled
            <4>1. Now.at = "nowhere"
                BY <1>1, <2>4 DEF Known, Order
            <4>2. Now.filled = 0
                BY <1>0, <4>1, NowFacts DEF Sane, NoOrder
            <4> QED
                BY <1>1, <4>1, <4>2
        <3> QED
            BY <1>1, <2>1, <2>2, <3>1 DEF Steps, Answers
    <2> QED
        BY <1>3, <2>3, <2>4 DEF NotFound
<1>4. ASSUME pc = "watch", NEW read \in 0 .. Asked, read <= Now.filled, Watching(read)
      PROVE  Steps
    <2>1. /\ seen' = read /\ expired' = expired /\ UNCHANGED <<attempt, filled, answer>>
          /\ \/ pc' = "cancel" /\ tries' = 0 /\ why' \in {"BUDGET", "REPRICE"}
             \/ UNCHANGED <<pc, why, tries>>
        BY <1>4 DEF Watching
    <2>2. 0 < CancelTries /\ 0 \in 0 .. CancelTries
        BY LegAssumption
    <2>3. Small(pc', seen', expired', why', tries')
        BY <1>4, <2>1, <2>2, SmallNow DEF Small
    <2>4. pc' \in Watched /\ (pc' = "cancel" => tries' < CancelTries) /\ pc' # "confirm"
        BY <1>4, <2>1, <2>2 DEF Watched
    <2> QED
        BY <1>0, <1>1, <1>4, <2>1, <2>3, <2>4, StaysWithOrder
<1>5. CASE WatchSeen
    BY <1>1, <1>4, <1>5 DEF WatchSeen, Calls
<1>6. CASE WatchBlind
    <2>1. seen \in 0 .. Asked
        BY DEF BInv, TypeOK
    <2> QED
        BY <1>1, <1>4, <1>6, <2>1 DEF WatchBlind, Calls
<1>7. CASE WatchEnded
    <2>1. /\ Now.at # "working" /\ seen' = Now.filled /\ UNCHANGED <<expired, why, tries>>
          /\ Collect(Now.filled, IF Complete THEN "FILLED" ELSE "REPRICE")
        BY <1>7 DEF WatchEnded
    <2>2. PICK status : status = IF Complete THEN "FILLED" ELSE "REPRICE"
        OBVIOUS
    <2>3. Collect(Now.filled, status)
        BY <2>1, <2>2
    <2> QED
        BY <1>0, <1>1, <2>1, <2>3, CollectTyped
<1> QED
    BY <1>2, <1>3, <1>5, <1>6, <1>7

\* _cancel: the DELETE, the lookups around it, and what the loop goes on with.
LEMMA MakerCancels ==
    ASSUME BInv, \/ CancelAccepted \/ CancelTooLate \/ CancelFailed
                 \/ RecheckEnded \/ RecheckWorking \/ RecheckBlind \/ Confirmed
    PROVE  Steps
<1>0. style = "maker" /\ pc \in {"cancel", "recheck", "confirm", "confirm_stuck"} /\ pc # "done"
      /\ style' = style
    BY DEF CancelAccepted, CancelTooLate, CancelFailed, RecheckEnded, RecheckWorking, RecheckBlind,
           Confirmed, CancelAgain, Cancelled, Calls
<1>1. /\ Now \in Order /\ Now.filled \in Int /\ 0 <= Now.filled
      /\ Now.filled \in 0 .. Asked /\ seen \in 0 .. Asked /\ seen \in Int /\ 0 <= seen
      /\ Now.at # "nowhere" /\ seen <= Now.filled
      /\ Now.at \in {"nowhere", "working", "ended"}
      /\ pc = "cancel" => tries < CancelTries
      /\ pc = "confirm" => Now.at = "ended"
    <2>1. /\ Asked \in Int /\ Now.size \in Int
        BY <1>0, NowFacts
    <2>2. seen \in 0 .. Asked
        BY DEF BInv, TypeOK
    <2> QED
        BY <1>0, <2>1, <2>2, NowFacts DEF PhaseOK, Watched, Order
<1>2. tries \in 0 .. CancelTries /\ CancelTries \in Int
    BY LegAssumption DEF BInv, TypeOK
<1>3. orders' = orders => Becomes(Now)
    BY <1>0, KeepsOrder
\* _cancel returns with `got` lots: all of an ended order, what was seen of one that could
\* not be read, or of one left behind as stuck.
<1>4. ASSUME NEW o \in Order, Becomes(o), NEW got \in Int, 0 <= got, got <= o.filled, NEW gone,
             Cancelled(got, gone), UNCHANGED tries,
             ~gone \/ (o.at # "working" /\ (got = o.filled \/ Stale))
      PROVE  Steps
    <2>1. PICK status : status = IF gone THEN why ELSE "STUCK"
        OBVIOUS
    <2>2. seen' = got /\ Collect(got, status) /\ UNCHANGED <<expired, why, tries>>
        BY <1>4, <2>1 DEF Cancelled
    <2>3. status = "STUCK" \/ (o.at # "working" /\ (got = o.filled \/ Stale))
        BY <1>4, <2>1
    <2> QED
        BY <1>0, <1>4, <2>2, <2>3, CollectTyped
<1>5. CASE CancelAccepted
    <2>1. PICK o \in Order : Becomes(o) /\ o.at = "ended" /\ o.filled = Now.filled
        BY <1>0, <1>5, EndsOrder DEF CancelAccepted
    <2>2. PICK gone : gone = TRUE
        OBVIOUS
    <2>3. Cancelled(Now.filled, gone) /\ UNCHANGED tries
        BY <1>5, <2>2 DEF CancelAccepted
    <2> QED
        BY <1>1, <1>4, <2>1, <2>3
<1>6. ASSUME NEW ph \in {"cancel", "recheck", "confirm", "confirm_stuck"}, pc' = ph,
             ph = "cancel" => tries < CancelTries, ph = "confirm" => Now.at = "ended",
             UNCHANGED <<attempt, orders, filled, seen, expired, why, tries, answer>>
      PROVE  Steps
    <2>1. Small(pc', seen', expired', why', tries')
        BY <1>6, SmallNow
    <2> QED
        BY <1>0, <1>1, <1>6, <2>1, StaysWithOrder DEF Watched
<1>7. CASE CancelTooLate
    BY <1>1, <1>6, <1>7 DEF CancelTooLate
<1>8. CASE CancelFailed
    <2>1. /\ pc' = "recheck" /\ tries' = tries + 1
          /\ UNCHANGED <<attempt, filled, seen, expired, why, answer>>
          /\ pc = "cancel"
        BY <1>8 DEF CancelFailed, Calls
    <2>2. tries' \in 0 .. CancelTries
        BY <1>1, <1>2, <2>1
    <2>3. Small(pc', seen', expired', why', tries')
        BY <2>1, <2>2, SmallNow DEF Small
    <2>4. CASE orders' = orders
        BY <1>0, <1>1, <2>1, <2>3, <2>4, StaysWithOrder DEF Watched
    <2>5. CASE Now.at = "working" /\ orders' = [orders EXCEPT ![attempt].at = "ended"]
        <3>1. PICK o \in Order : /\ Becomes(o) /\ o.at = "ended"
                                 /\ o.filled = Now.filled /\ o.size = Now.size
            BY <1>0, <2>5, EndsOrder
        <3>2. Now.size <= Asked - filled
            BY <1>0, <1>1, NowFacts DEF PhaseOK
        <3>3. PhaseOK(style, pc', filled, o, seen', tries')
            BY <1>0, <1>1, <2>1, <3>1, <3>2 DEF PhaseOK
        <3> QED
            BY <2>1, <2>3, <3>1, <3>3 DEF Steps, Stays
    <2> QED
        BY <1>8, <2>4, <2>5 DEF CancelFailed
<1>9. CASE RecheckEnded
    <2>1. PICK gone : gone = TRUE
        OBVIOUS
    <2>2. Cancelled(Now.filled, gone) /\ UNCHANGED <<orders, tries>> /\ Now.at # "working"
        BY <1>9, <2>1 DEF RecheckEnded
    <2> QED
        BY <1>1, <1>3, <1>4, <2>2
<1>10. CASE CancelAgain
    BY <1>6, <1>10 DEF CancelAgain
<1>11. CASE RecheckWorking
    <2>1. CASE Cancelled(Now.filled, FALSE) /\ UNCHANGED <<orders, tries>>
        <3>1. PICK gone : gone = FALSE
            OBVIOUS
        <3>2. Cancelled(Now.filled, gone) /\ UNCHANGED <<orders, tries>> /\ ~gone
            BY <2>1, <3>1
        <3> QED
            BY <1>1, <1>3, <1>4, <3>2
    <2> QED
        BY <1>10, <1>11, <2>1 DEF RecheckWorking
<1>12. CASE RecheckBlind
    BY <1>6, <1>10, <1>12 DEF RecheckBlind
<1>13. CASE Confirmed
    <2>1. orders' = orders /\ tries' = tries
        BY <1>13 DEF Confirmed
    <2>2. CASE Cancelled(Now.filled, pc = "confirm" /\ Now.at = "ended")
        <3>1. PICK gone : gone = (pc = "confirm" /\ Now.at = "ended")
            OBVIOUS
        <3>2. Cancelled(Now.filled, gone)
            BY <2>2, <3>1
        <3>3. ~gone \/ Now.at # "working"
            BY <3>1
        <3> QED
            BY <1>1, <1>3, <1>4, <2>1, <3>2, <3>3
    <2>3. CASE MayFail("confirm_blind") /\ Cancelled(seen, pc = "confirm")
        <3>1. PICK gone : gone = (pc = "confirm")
            OBVIOUS
        <3>2. Cancelled(seen, gone)
            BY <2>3, <3>1
        <3>3. ~gone \/ (Now.at # "working" /\ Stale)
            BY <1>0, <1>1, <2>3, <3>1 DEF Stale
        <3> QED
            BY <1>1, <1>3, <1>4, <2>1, <3>2, <3>3
    <2> QED
        BY <1>13, <2>2, <2>3 DEF Confirmed
<1> QED
    BY <1>5, <1>7, <1>8, <1>9, <1>11, <1>12, <1>13

\* Every request of the router is one of the three steps.
LEMMA RouterSteps == ASSUME BInv, Router PROVE Steps
BY IocSteps, MakerPosts, MakerWaits, MakerCancels DEF Router, Maker

------------------------------------------------------------------------------
(* The invariant holds.                                                      *)

\* The orders after the one of this attempt has become o.
LEMMA AfterBecomes ==
    ASSUME BInv, NEW o \in Order, Becomes(o)
    PROVE  /\ orders' \in [1 .. Attempts -> Order] /\ attempt \in 1 .. Attempts
           /\ orders'[attempt] = o
           /\ \A i \in 1 .. Attempts : i # attempt => orders'[i] = orders[i]
BY DEF BInv, TypeOK, Becomes

\* The answers a leg can give.
LEMMA AnswerKinds ==
    ASSUME NEW n \in 0 .. Asked
    PROVE  /\ Told(n) \in {Leg!Pending, Leg!Refused, Leg!Unknown} \cup {Leg!Fill(q) : q \in 1 .. Asked}
           /\ Told(n) # Leg!Pending /\ Told(n) # Leg!Unknown
           /\ Leg!Refused # Leg!Pending /\ Leg!Unknown # Leg!Pending /\ Leg!Refused # Leg!Unknown
           /\ Leg!Refused = Told(0)
<1>1. Asked \in Int /\ Asked > 0
    BY LegAssumption
<1>2. n > 0 => n \in 1 .. Asked
    BY <1>1
<1>3. Leg!Fill(n) # Leg!Pending /\ Leg!Fill(n) # Leg!Unknown /\ Leg!Refused # Leg!Pending
      /\ Leg!Unknown # Leg!Pending /\ Leg!Refused # Leg!Unknown
    BY DEF Leg!Fill, Leg!Pending, Leg!Unknown, Leg!Refused
<1>4. Leg!Refused = Told(0)
    BY DEF Told
<1> QED
    BY <1>2, <1>3, <1>4 DEF Told

\* The invariant is kept by the router,
LEMMA StepsKeepBase ==
    ASSUME BInv, Steps
    PROVE  BInv'
<1>1. PICK o \in Order : Stays(o) \/ Retries(o) \/ Answers(o)
    BY DEF Steps
<1>2. Becomes(o) /\ Small(pc', seen', expired', why', tries')
    BY <1>1 DEF Stays, Retries, Answers, Steps
<1>3. /\ orders' \in [1 .. Attempts -> Order] /\ attempt \in 1 .. Attempts
      /\ orders'[attempt] = o
      /\ \A i \in 1 .. Attempts : i # attempt => orders'[i] = orders[i]
    BY <1>2, AfterBecomes
<1>4. /\ style' = style /\ style \in Styles /\ Sane(o) /\ pc # "done" /\ answer = Leg!Pending
      /\ Attempts \in Int /\ filled \in 0 .. Asked /\ Asked \in Int /\ 0 <= filled /\ filled \in Int
      /\ o.filled \in Int /\ 0 <= o.filled /\ filled + o.filled <= Asked
    BY <1>2, LegAssumption DEF BInv, TypeOK, PhaseInv, Becomes, Order
<1>5. /\ attempt' \in 1 .. Attempts
      /\ attempt' = attempt \/ (attempt' = attempt + 1 /\ o.at # "working" /\ attempt < Attempts)
      /\ filled' \in 0 .. Asked
    BY <1>1, <1>3, <1>4 DEF Stays, Retries, Answers
<1>6. /\ answer' \in {Leg!Pending, Leg!Refused, Leg!Unknown} \cup {Leg!Fill(q) : q \in 1 .. Asked}
      /\ (pc' = "done") <=> (answer' # Leg!Pending)
    <2>1. CASE Stays(o) \/ Retries(o)
        BY <1>4, <2>1 DEF Stays, Retries
    <2>2. CASE Answers(o)
        <3>1. 0 \in 0 .. Asked /\ filled + o.filled \in 0 .. Asked
            BY <1>4, LegAssumption
        <3>2. (\E n \in 0 .. Asked : answer' = Told(n)) \/ answer' = Leg!Unknown \/ answer' = Leg!Refused
            BY <1>4, <2>2, <3>1 DEF Answers
        <3>3. pc' = "done"
            BY <2>2 DEF Answers
        <3> QED
            BY <3>1, <3>2, <3>3, AnswerKinds
    <2> QED
        BY <1>1, <2>1, <2>2
<1>7. TypeOK'
    BY <1>2, <1>3, <1>4, <1>5, <1>6 DEF TypeOK, Small
<1>8. OrdersInv'
    <2> SUFFICES ASSUME NEW i \in 1 .. Attempts
                 PROVE  /\ Sane(orders'[i])
                        /\ i > attempt' => orders'[i] = NoOrder
                        /\ i # attempt' => orders'[i].at # "working"
        BY DEF OrdersInv, Sane
    <2>1. /\ Sane(orders[i]) /\ (i > attempt => orders[i] = NoOrder)
          /\ (i # attempt => orders[i].at # "working")
        BY DEF BInv, OrdersInv
    <2>2. CASE i = attempt
        BY <1>3, <1>4, <1>5, <2>1, <2>2
    <2>3. CASE i # attempt
        BY <1>3, <1>4, <1>5, <2>1, <2>3
    <2> QED
        BY <2>2, <2>3
<1>9. pc' # "done" => PhaseOK(style', pc', filled', orders'[attempt'], seen', tries')
    <2>1. CASE Stays(o)
        BY <1>3, <1>4, <2>1 DEF Stays
    <2>2. CASE Retries(o)
        <3>1. orders'[attempt'] = NoOrder
            BY <1>3, <1>4, <1>5, <2>2 DEF Retries, BInv, OrdersInv
        <3>2. pc' = "post" /\ (style = "ioc" => filled' = 0)
            BY <2>2 DEF Retries
        <3>3. NoOrder.at = "nowhere"
            BY DEF NoOrder
        <3> QED
            BY <1>4, <3>1, <3>2, <3>3 DEF PhaseOK, Watched
    <2>3. CASE Answers(o)
        BY <2>3 DEF Answers
    <2> QED
        BY <1>1, <2>1, <2>2, <2>3
<1>10. PhaseInv'
    BY <1>6, <1>9 DEF PhaseInv, Now, PhaseOK, Watched
<1> QED
    BY <1>7, <1>8, <1>10 DEF BInv

\* A working order after the exchange has filled a lot of it or ended it.
Moved(o) ==
    /\ Now.at = "working" /\ o \in Order /\ Sane(o) /\ o.at # "nowhere" /\ o.size = Now.size
    /\ \/ o.filled = Now.filled + 1 /\ Exposure(o) = Exposure(Now)
       \/ o.filled = Now.filled /\ o.at = "ended"
    /\ orders' = [orders EXCEPT ![attempt] = o]
    /\ UNCHANGED <<style, pc, attempt, filled, seen, expired, why, tries, answer>>

\* The order of this attempt, which stays when the leg is done.
LEMMA LastOrder ==
    ASSUME BInv
    PROVE  /\ attempt \in 1 .. Attempts /\ Asked \in Int /\ Now = orders[attempt]
           /\ Now \in Order /\ Sane(Now) /\ Now.filled \in Int /\ Now.size \in Int
           /\ 0 <= Now.filled /\ Now.filled <= Now.size /\ Now.size <= Asked
<1>1. attempt \in 1 .. Attempts /\ Asked \in Int /\ Now = orders[attempt]
    BY LegAssumption DEF BInv, TypeOK, Now
<1>2. Now \in Order /\ Sane(Now)
    BY <1>1 DEF BInv, TypeOK, OrdersInv
<1> QED
    BY <1>1, <1>2 DEF Order, Sane

\* Only the order of this attempt can move.
LEMMA ExchangeMoves ==
    ASSUME BInv, Exchange
    PROVE  \E o \in Order : Moved(o)
<1>1. PICK i \in 1 .. Attempts : ExchangeFills(i) \/ ExchangeEnds(i)
    BY DEF Exchange
<1>2. i = attempt /\ Now.at = "working"
    BY <1>1 DEF BInv, OrdersInv, ExchangeFills, ExchangeEnds, Now
<1>3. /\ Now \in Order /\ Sane(Now) /\ Now.filled \in Int /\ Now.size \in Int /\ Asked \in Int
      /\ 0 <= Now.filled /\ Now.filled < Now.size /\ Now.size <= Asked
    BY <1>2, LastOrder DEF Sane
<1>4. CASE ExchangeFills(i)
    <2> DEFINE q == Now.filled + 1
               o == [Now EXCEPT !.filled = q, !.at = IF q = Now.size THEN "ended" ELSE "working"]
    <2>1. q \in 0 .. Asked /\ q <= Now.size
        BY <1>3
    <2>2. /\ o \in Order /\ o.filled = q /\ o.size = Now.size
          /\ o.at = IF q = Now.size THEN "ended" ELSE "working"
        BY <1>3, <2>1 DEF Order
    <2>3. orders' = [orders EXCEPT ![attempt] = o]
        BY <1>2, <1>4 DEF ExchangeFills, Now, BInv, TypeOK, Order
    <2>4. q = Now.filled + 1
        OBVIOUS
    <2> HIDE DEF o, q
    <2>5. Sane(o) /\ o.at # "nowhere" /\ Exposure(o) = Exposure(Now)
        BY <1>2, <1>3, <2>1, <2>2 DEF Sane, Exposure
    <2> QED
        BY <1>2, <1>4, <2>2, <2>3, <2>4, <2>5 DEF Moved, ExchangeFills
<1>5. CASE ExchangeEnds(i)
    <2> DEFINE o == [Now EXCEPT !.at = "ended"]
    <2>1. o \in Order /\ o.filled = Now.filled /\ o.size = Now.size /\ o.at = "ended"
        BY <1>3 DEF Order
    <2>2. orders' = [orders EXCEPT ![attempt] = o]
        BY <1>2, <1>5 DEF ExchangeEnds, Now, BInv, TypeOK, Order
    <2> HIDE DEF o
    <2>3. Sane(o)
        BY <1>3, <2>1 DEF Sane
    <2> QED
        BY <1>2, <1>5, <2>1, <2>2, <2>3 DEF Moved, ExchangeEnds
<1> QED
    BY <1>1, <1>4, <1>5

\* and by the exchange.
LEMMA MovesKeepBase ==
    ASSUME BInv, NEW o \in Order, Moved(o)
    PROVE  BInv'
<1>1. /\ orders' \in [1 .. Attempts -> Order] /\ attempt \in 1 .. Attempts
      /\ orders'[attempt] = o
      /\ \A i \in 1 .. Attempts : i # attempt => orders'[i] = orders[i]
    BY DEF BInv, TypeOK, Moved
<1>2. UNCHANGED <<style, pc, attempt, filled, seen, expired, why, tries, answer>>
    BY DEF Moved
<1>3. TypeOK'
    BY <1>1, <1>2 DEF BInv, TypeOK
<1>4. OrdersInv'
    <2> SUFFICES ASSUME NEW i \in 1 .. Attempts
                 PROVE  /\ Sane(orders'[i])
                        /\ i > attempt => orders'[i] = NoOrder
                        /\ i # attempt => orders'[i].at # "working"
        BY <1>2 DEF OrdersInv, Sane
    <2>1. /\ Sane(orders[i]) /\ (i > attempt => orders[i] = NoOrder)
          /\ (i # attempt => orders[i].at # "working")
        BY DEF BInv, OrdersInv
    <2>2. CASE i = attempt
        BY <1>1, <2>2 DEF Moved
    <2>3. CASE i # attempt
        BY <1>1, <2>1, <2>3
    <2> QED
        BY <2>2, <2>3
<1>5. pc # "done" => PhaseOK(style, pc, filled, o, seen, tries)
    <2> SUFFICES ASSUME pc # "done" PROVE PhaseOK(style, pc, filled, o, seen, tries)
        OBVIOUS
    <2>1. PhaseOK(style, pc, filled, Now, seen, tries) /\ seen \in Int
        BY DEF BInv, PhaseInv, TypeOK
    <2>2. o.filled \in Int /\ Now.filled \in Int /\ Now.filled <= o.filled
        BY LastOrder DEF Moved
    <2>3. Now.at = "working" /\ o.at # "nowhere" /\ o.size = Now.size
        BY DEF Moved
    <2>4. NoOrder.at = "nowhere"
        BY DEF NoOrder
    <2> QED
        BY <2>1, <2>2, <2>3, <2>4 DEF PhaseOK
<1>6. PhaseInv'
    BY <1>1, <1>2, <1>5 DEF BInv, PhaseInv, Now, PhaseOK, Watched
<1> QED
    BY <1>3, <1>4, <1>6 DEF BInv

\* A step that changes at most the clock.
LEMMA QuietKeepsBase ==
    ASSUME BInv, expired' \in BOOLEAN,
           UNCHANGED <<style, pc, attempt, orders, filled, seen, why, tries, answer>>
    PROVE  BInv'
<1>1. TypeOK'
    BY DEF BInv, TypeOK
<1>2. OrdersInv'
    BY DEF BInv, OrdersInv, Sane
<1>3. PhaseInv'
    BY DEF BInv, PhaseInv, PhaseOK, Watched, Now
<1> QED
    BY <1>1, <1>2, <1>3 DEF BInv

\* It holds before the first request,
LEMMA BaseBegin == Init => BInv
<1> SUFFICES ASSUME Init PROVE BInv
    OBVIOUS
<1>0. Asked \in Int /\ Asked > 0 /\ Attempts \in Int /\ Attempts > 0 /\ CancelTries \in Int /\ CancelTries > 0
    BY LegAssumption
<1>1. NoOrder \in Order /\ Sane(NoOrder) /\ NoOrder.at = "nowhere"
    BY <1>0 DEF NoOrder, Order, Sane
<1>2. /\ orders \in [1 .. Attempts -> Order] /\ attempt \in 1 .. Attempts
      /\ \A i \in 1 .. Attempts : orders[i] = NoOrder
    BY <1>0, <1>1 DEF Init
<1>3. TypeOK
    <2>1. style \in Styles /\ pc = "post" /\ expired = FALSE /\ why = "BUDGET" /\ answer = Leg!Pending
        BY DEF Init
    <2>2. tries \in 0 .. CancelTries /\ filled \in 0 .. Asked /\ seen \in 0 .. Asked
        BY <1>0 DEF Init
    <2> QED
        BY <1>2, <2>1, <2>2 DEF TypeOK
<1>4. OrdersInv
    BY <1>1, <1>2 DEF OrdersInv
<1>5. Now = NoOrder
    BY <1>2 DEF Now
<1>6. PhaseInv
    BY <1>0, <1>1, <1>5 DEF Init, PhaseInv, PhaseOK, Watched
<1> QED
    BY <1>3, <1>4, <1>6 DEF BInv

\* A step of the leg: the router's, the exchange's, or the clock's.
LEMMA NextKinds ==
    ASSUME BInv, [Next]_vars
    PROVE  \/ Steps
           \/ \E o \in Order : Moved(o)
           \/ /\ expired' \in BOOLEAN
              /\ UNCHANGED <<style, pc, attempt, orders, filled, seen, why, tries, answer>>
<1>1. CASE Router
    BY <1>1, RouterSteps
<1>2. CASE Exchange
    BY <1>2, ExchangeMoves
<1>3. CASE TimeRunsOut
    BY <1>3 DEF TimeRunsOut
<1>4. CASE UNCHANGED vars
    BY <1>4 DEF vars, BInv, TypeOK
<1> QED
    BY <1>1, <1>2, <1>3, <1>4 DEF Next

\* is kept by every step,
LEMMA BasePreserved == BInv /\ [Next]_vars => BInv'
BY NextKinds, StepsKeepBase, MovesKeepBase, QuietKeepsBase

\* and so holds always.
LEMMA BaseAlways == Spec => []BInv
<1> QED
    BY BaseBegin, BasePreserved, PTL DEF Spec

\* In every execution the variables keep their types: in particular the quantity that the
\* router reports is one of 1 .. Asked, whatever the venue does (maker.py:341-399).
THEOREM TypeCorrect == Spec => []TypeOK
<1>1. BInv => TypeOK
    BY DEF BInv
<1> QED
    BY <1>1, BaseAlways, PTL

------------------------------------------------------------------------------
(* What the orders of a leg add up to.                                       *)

ExposureOf(os) == SumFunction([i \in 1 .. Attempts |-> Exposure(os[i])])
FilledOf(os)   == SumFunction([i \in 1 .. Attempts |-> os[i].filled])

\* Another order in the place of one changes the sums by the difference of the two.
LEMMA SumsOfOrders ==
    ASSUME NEW a \in 1 .. Attempts, NEW os \in [1 .. Attempts -> Order], NEW o \in Order,
           NEW ps, ps = [os EXCEPT ![a] = o]
    PROVE  /\ ExposureOf(os) \in Int /\ FilledOf(os) \in Int
           /\ ExposureOf(ps) = ExposureOf(os) + Exposure(o) - Exposure(os[a])
           /\ FilledOf(ps) = FilledOf(os) + o.filled - os[a].filled
<1>1. IsFiniteSet(1 .. Attempts)
    BY LegAssumption, FS_Interval
<1>2. \A r \in Order : r.filled \in Int /\ Exposure(r) \in Int
    BY LegAssumption DEF Order, Exposure
<1>3. ps \in [1 .. Attempts -> Order] /\ ps[a] = o /\ \A i \in 1 .. Attempts : i # a => ps[i] = os[i]
    OBVIOUS
<1>4. ExposureOf(os) \in Int /\ ExposureOf(ps) = ExposureOf(os) + Exposure(o) - Exposure(os[a])
    <2> DEFINE f == [i \in 1 .. Attempts |-> Exposure(os[i])]
               g == [i \in 1 .. Attempts |-> Exposure(ps[i])]
    <2>1. f \in [1 .. Attempts -> Int] /\ g \in [1 .. Attempts -> Int]
        BY <1>2, <1>3
    <2>2. g[a] = Exposure(o) /\ f[a] = Exposure(os[a]) /\ \A i \in 1 .. Attempts : i # a => g[i] = f[i]
        BY <1>3
    <2>3. ExposureOf(os) = SumFunction(f) /\ ExposureOf(ps) = SumFunction(g)
        BY DEF ExposureOf
    <2> HIDE DEF f, g
    <2>4. SumFunction(f) \in Int
        BY <1>1, <2>1, SumType
    <2>5. SumFunction(g) = SumFunction(f) + g[a] - f[a]
        BY <1>1, <2>1, <2>2, SumUpdate
    <2> QED
        BY <2>2, <2>3, <2>4, <2>5
<1>5. FilledOf(os) \in Int /\ FilledOf(ps) = FilledOf(os) + o.filled - os[a].filled
    <2> DEFINE f == [i \in 1 .. Attempts |-> os[i].filled]
               g == [i \in 1 .. Attempts |-> ps[i].filled]
    <2>1. f \in [1 .. Attempts -> Int] /\ g \in [1 .. Attempts -> Int]
        BY <1>2, <1>3
    <2>2. g[a] = o.filled /\ f[a] = os[a].filled /\ \A i \in 1 .. Attempts : i # a => g[i] = f[i]
        BY <1>3
    <2>3. FilledOf(os) = SumFunction(f) /\ FilledOf(ps) = SumFunction(g)
        BY DEF FilledOf
    <2> HIDE DEF f, g
    <2>4. SumFunction(f) \in Int
        BY <1>1, <2>1, SumType
    <2>5. SumFunction(g) = SumFunction(f) + g[a] - f[a]
        BY <1>1, <2>1, <2>2, SumUpdate
    <2> QED
        BY <2>2, <2>3, <2>4, <2>5
<1> QED
    BY <1>4, <1>5

\* A leg begins with nothing at the venue.
LEMMA SumsBegin ==
    ASSUME Init
    PROVE  ExposureOf(orders) = 0 /\ FilledOf(orders) = 0
<1>1. IsFiniteSet(1 .. Attempts)
    BY LegAssumption, FS_Interval
<1>2. \A i \in 1 .. Attempts : Exposure(orders[i]) = 0 /\ orders[i].filled = 0
    BY DEF Init, NoOrder, Exposure
<1>3. /\ [i \in 1 .. Attempts |-> Exposure(orders[i])] = [i \in 1 .. Attempts |-> 0]
      /\ [i \in 1 .. Attempts |-> orders[i].filled] = [i \in 1 .. Attempts |-> 0]
    BY <1>2
<1>4. SumFunction([i \in 1 .. Attempts |-> 0]) = 0
    BY <1>1, SumZero
<1> QED
    BY <1>3, <1>4 DEF ExposureOf, FilledOf

\* The sums after a request of the router, and after a move of the exchange.
LEMMA SumsAfter ==
    ASSUME BInv, NEW o \in Order, Becomes(o) \/ Moved(o)
    PROVE  /\ ExposureOf(orders) \in Int /\ FilledOf(orders) \in Int
           /\ Exposure(o) \in Int /\ Exposure(Now) \in Int /\ o.filled \in Int
           /\ ExposureOf(orders') = ExposureOf(orders) + Exposure(o) - Exposure(Now)
           /\ FilledOf(orders') = FilledOf(orders) + o.filled - Now.filled
<1>1. /\ orders \in [1 .. Attempts -> Order] /\ orders' = [orders EXCEPT ![attempt] = o]
      /\ attempt \in 1 .. Attempts /\ Now = orders[attempt] /\ Now \in Order
    BY LastOrder DEF BInv, TypeOK, Becomes, Moved
<1>2. /\ ExposureOf(orders) \in Int /\ FilledOf(orders) \in Int
      /\ ExposureOf(orders') = ExposureOf(orders) + Exposure(o) - Exposure(orders[attempt])
      /\ FilledOf(orders') = FilledOf(orders) + o.filled - orders[attempt].filled
    BY <1>1, SumsOfOrders
<1>3. Exposure(o) \in Int /\ Exposure(Now) \in Int /\ o.filled \in Int
    BY <1>1, LegAssumption DEF Order, Exposure
<1> QED
    BY <1>1, <1>2, <1>3

------------------------------------------------------------------------------
(* A retry or a re-post never doubles a position.                            *)

\* Between requests, what the orders may come to is what the router has counted and what
\* the order of this attempt may still fill.
ExposureInv ==
    /\ ExposureOf(orders) <= Asked
    /\ pc # "done" => ExposureOf(orders) = filled + Exposure(Now)

\* Nothing is at the venue before the first request.
LEMMA ExposureBegin == Init => ExposureInv
<1> SUFFICES ASSUME Init PROVE ExposureInv
    OBVIOUS
<1>a. ExposureOf(orders) = 0
    BY SumsBegin
<1>1. ExposureOf(orders) = 0 /\ filled = 0 /\ Asked \in Int /\ Asked > 0
    BY <1>a, LegAssumption DEF Init
<1>2. Now = NoOrder
    BY LegAssumption DEF Init, Now
<1>3. Exposure(Now) = 0
    BY <1>2 DEF Exposure, NoOrder
<1> QED
    BY <1>1, <1>3 DEF ExposureInv

\* Each step changes the sum by as much as the order of this attempt.
LEMMA ExposurePreserved ==
    ASSUME "confirm_blind" \notin MakerFaults, BInv, ExposureInv, [Next]_vars
    PROVE  ExposureInv'
<1>0. BInv'
    BY BasePreserved
<1>1. ASSUME NEW e \in Int, NEW x \in Int, ExposureOf(orders') = e, e <= Asked,
             Exposure(orders'[attempt']) = x, pc' # "done" => e = filled' + x
      PROVE  ExposureInv'
    <2>1. ExposureOf(orders)' = e /\ Exposure(Now)' = x
        BY <1>1 DEF ExposureOf, Exposure, Now
    <2>2. (ExposureOf(orders) <= Asked)'
        BY <1>1, <2>1
    <2>3. (pc # "done" => ExposureOf(orders) = filled + Exposure(Now))'
        BY <1>1, <2>1
    <2> QED
        BY <2>2, <2>3 DEF ExposureInv
<1>2. CASE Steps
    <2>1. PICK o \in Order : Stays(o) \/ Retries(o) \/ Answers(o)
        BY <1>2 DEF Steps
    <2>2. Becomes(o) /\ pc # "done"
        BY <2>1 DEF Stays, Retries, Answers, Becomes
    <2>3. /\ ExposureOf(orders) \in Int /\ Exposure(o) \in Int /\ Exposure(Now) \in Int /\ o.filled \in Int
          /\ ExposureOf(orders') = ExposureOf(orders) + Exposure(o) - Exposure(Now)
        BY <2>2, SumsAfter
    <2>4. ExposureOf(orders) = filled + Exposure(Now) /\ filled \in Int
        BY <2>2, NowFacts DEF ExposureInv
    <2>5. PICK e \in Int : e = filled + Exposure(o)
        BY <2>3, <2>4
    <2>6. ExposureOf(orders') = e /\ e <= Asked
        BY <2>2, <2>3, <2>4, <2>5 DEF Becomes
    <2>7. orders'[attempt] = o /\ attempt \in 1 .. Attempts
        BY <2>2, AfterBecomes
    <2>8. CASE Stays(o)
        BY <1>1, <2>3, <2>5, <2>6, <2>7, <2>8 DEF Stays
    <2>9. CASE Retries(o)
        <3>1. ~Stale
            BY DEF Stale, MayFail, Faults
        <3>2. filled' = filled + o.filled /\ o.at # "working" /\ attempt' = attempt + 1 /\ pc' = "post"
            BY <2>9, <3>1 DEF Retries
        <3>3. Exposure(o) = o.filled
            BY <3>2 DEF Exposure
        <3>4. PhaseOK(style', pc', filled', Now', seen', tries')
            BY <1>0, <3>2 DEF BInv, PhaseInv, PhaseOK, Watched
        <3>5. orders'[attempt'] = NoOrder
            BY <3>2, <3>4 DEF PhaseOK, Now
        <3>6. Exposure(orders'[attempt']) = 0
            BY <3>5 DEF Exposure, NoOrder
        <3>7. e = filled' + 0
            BY <2>3, <2>4, <2>5, <3>2, <3>3
        <3> QED
            BY <1>1, <2>6, <3>6, <3>7
    <2>10. CASE Answers(o)
        <3>1. pc' = "done" /\ attempt' = attempt
            BY <2>10 DEF Answers
        <3> QED
            BY <1>1, <2>3, <2>6, <2>7, <3>1
    <2> QED
        BY <2>1, <2>8, <2>9, <2>10
<1>3. ASSUME NEW o \in Order, Moved(o) PROVE ExposureInv'
    <2>1. /\ ExposureOf(orders) \in Int /\ Exposure(o) \in Int /\ Exposure(Now) \in Int
          /\ ExposureOf(orders') = ExposureOf(orders) + Exposure(o) - Exposure(Now)
        BY <1>3, SumsAfter
    <2>2. PICK e \in Int : e = ExposureOf(orders) + Exposure(o) - Exposure(Now)
        BY <2>1
    <2>3. Exposure(o) <= Exposure(Now)
        BY <1>3, LastOrder DEF Moved, Exposure
    <2>4. ExposureOf(orders') = e /\ e <= Asked /\ Asked \in Int
        BY <2>1, <2>2, <2>3, LegAssumption DEF ExposureInv
    <2>5. orders'[attempt'] = o /\ pc' = pc /\ filled' = filled /\ filled \in Int
        BY <1>3, LegAssumption DEF Moved, BInv, TypeOK
    <2>6. pc # "done" => e = filled + Exposure(o)
        BY <2>1, <2>2, <2>5 DEF ExposureInv
    <2> QED
        BY <1>1, <2>1, <2>4, <2>5, <2>6
<1>4. CASE UNCHANGED <<pc, attempt, orders, filled>>
    BY <1>4 DEF ExposureInv, ExposureOf, Exposure, Now
<1> QED
    BY <1>2, <1>3, <1>4, NextKinds

\* A retry or a re-post never turns one intended position into two: what all the orders of
\* a leg have filled and may still fill is never more than was asked (maker.py:341-399,
\* executor.py's IOC loop).  The assumption is needed: a maker whose DELETE finds nothing
\* and whose lookup then fails goes on from a quantity that is too small (maker.py:359).
THEOREM ExposureHolds ==
    ASSUME "confirm_blind" \notin MakerFaults
    PROVE  Spec => []ExposureBounded
<1>1. Init => ExposureInv
    BY ExposureBegin
<1>2. BInv /\ ExposureInv /\ [Next]_vars => ExposureInv'
    BY ExposurePreserved
<1>3. ExposureInv => ExposureBounded
    BY DEF ExposureInv, ExposureBounded, ExposureOf
<1> QED
    BY <1>1, <1>2, <1>3, BaseAlways, PTL DEF Spec

------------------------------------------------------------------------------
(* The leg keeps what it promises the executor.                              *)

\* Between requests the venue has filled what the router has counted and what the order of
\* this attempt has; there is always room for the rest of that order.
MovedInv ==
    /\ FilledOf(orders) + Exposure(Now) - Now.filled <= Asked
    /\ pc # "done" => FilledOf(orders) = filled + Now.filled

\* A leg that is done and knows its outcome has no order left at work.
RestsInv == answer \notin {Leg!Pending, Leg!Unknown} => Now.at # "working"

\* The lookup after a failed post is the one fault that leaves an order behind unnoticed.
LEMMA RestsPreserved ==
    ASSUME "find_blind" \notin MakerFaults, BInv, RestsInv, [Next]_vars
    PROVE  RestsInv'
<1>1. CASE Steps
    <2>1. PICK o \in Order : Stays(o) \/ Retries(o) \/ Answers(o)
        BY <1>1 DEF Steps
    <2>2. pc # "done" /\ answer = Leg!Pending /\ Becomes(o)
        BY <2>1 DEF Stays, Retries, Answers, Becomes, BInv, PhaseInv
    <2>3. CASE Stays(o) \/ Retries(o)
        BY <2>2, <2>3 DEF Stays, Retries, RestsInv
    <2>4. CASE Answers(o)
        <3>1. orders'[attempt'] = o
            BY <2>2, <2>4, AfterBecomes DEF Answers
        <3>2. o.at # "working" \/ answer' = Leg!Unknown
            BY <2>4 DEF Answers, MayFail, Faults
        <3> QED
            BY <3>1, <3>2 DEF RestsInv, Now
    <2> QED
        BY <2>1, <2>3, <2>4
<1>2. ASSUME NEW o \in Order, Moved(o) PROVE RestsInv'
    BY <1>2 DEF Moved, RestsInv
<1>3. CASE UNCHANGED <<attempt, orders, answer>>
    BY <1>3 DEF RestsInv, Now
<1> QED
    BY <1>1, <1>2, <1>3, NextKinds

\* "No order of Deltr's is left working after the leg is done with it" holds of a leg that
\* knows its outcome (docs/SAFETY_MODEL.md:157), whatever else fails, as long as the lookup
\* after a failed post is answered: _lookup takes "could not ask" for "not there"
\* (maker.py:375-377), the one fault with which the sentence is false.
THEOREM NothingLeftBehind ==
    ASSUME "find_blind" \notin MakerFaults
    PROVE  Spec => []NothingLeftWorking
<1>1. Init => RestsInv
    BY DEF Init, RestsInv
<1>2. BInv /\ RestsInv /\ [Next]_vars => RestsInv'
    BY RestsPreserved
<1>3. BInv /\ RestsInv => NothingLeftWorking
    BY DEF BInv, OrdersInv, RestsInv, NothingLeftWorking, Now
<1> QED
    BY <1>1, <1>2, <1>3, BaseAlways, PTL DEF Spec

\* The step of the leg that the executor sees, in the values that the venue has filled.
LEMMA LegStep ==
    ASSUME NEW m, NEW n, FilledOf(orders) = m, FilledOf(orders') = n,
           \/ n = m /\ answer' = answer
           \/ answer \in {Leg!Pending, Leg!Unknown} /\ n \in m + 1 .. Asked /\ answer' = answer
           \/ /\ answer = Leg!Pending /\ n \in m .. Asked
              /\ answer' = Leg!Unknown \/ (n >= 0 /\ answer' = Told(n))
    PROVE  [Leg!Move \/ Leg!Reply]_(Leg!legVars)
<1>1. /\ SumFunction([i \in 1 .. Attempts |-> orders[i].filled]) = m
      /\ SumFunction([i \in 1 .. Attempts |-> orders[i].filled])' = n
    BY DEF FilledOf
<1>2. CASE n = m /\ answer' = answer
    BY <1>1, <1>2 DEF Leg!legVars
<1>3. CASE answer \in {Leg!Pending, Leg!Unknown} /\ n \in m + 1 .. Asked /\ answer' = answer
    BY <1>1, <1>3 DEF Leg!Move
<1>4. CASE /\ answer = Leg!Pending /\ n \in m .. Asked
           /\ answer' = Leg!Unknown \/ (n >= 0 /\ answer' = Told(n))
    <2>1. answer' = Leg!Unknown \/ (n > 0 /\ answer' = Leg!Fill(n)) \/ (n = 0 /\ answer' = Leg!Refused)
        BY <1>4 DEF Told
    <2> QED
        BY <1>1, <1>4, <2>1 DEF Leg!Reply
<1> QED
    BY <1>2, <1>3, <1>4

\* Every step of a leg whose maker can read its orders is one of the leg's promise, or none.
LEMMA LegSteps ==
    ASSUME "confirm_blind" \notin MakerFaults, "find_blind" \notin MakerFaults,
           "bad_book" \notin MakerFaults, BInv, MovedInv, RestsInv, [Next]_vars
    PROVE  MovedInv' /\ [Leg!Move \/ Leg!Reply]_(Leg!legVars)
<1>0. BInv'
    BY BasePreserved
<1>1. ASSUME NEW n \in Int, NEW x \in Int, NEW q \in Int,
             FilledOf(orders') = n, Exposure(orders'[attempt']) = x, orders'[attempt'].filled = q,
             n + x - q <= Asked, pc' # "done" => n = filled' + q
      PROVE  MovedInv'
    <2>1. FilledOf(orders)' = n /\ Exposure(Now)' = x /\ Now'.filled = q
        BY <1>1 DEF FilledOf, Exposure, Now
    <2>2. (FilledOf(orders) + Exposure(Now) - Now.filled <= Asked)'
        BY <1>1, <2>1
    <2>3. (pc # "done" => FilledOf(orders) = filled + Now.filled)'
        BY <1>1, <2>1
    <2> QED
        BY <2>2, <2>3 DEF MovedInv
<1>2. CASE Steps
    <2>1. PICK o \in Order : Stays(o) \/ Retries(o) \/ Answers(o)
        BY <1>2 DEF Steps
    <2>2. Becomes(o) /\ pc # "done" /\ answer = Leg!Pending
        BY <2>1 DEF Stays, Retries, Answers, Becomes, BInv, PhaseInv
    <2>3. /\ Exposure(o) \in Int /\ o.filled \in Int /\ FilledOf(orders) \in Int
          /\ FilledOf(orders') = FilledOf(orders) + o.filled - Now.filled
        BY <2>2, SumsAfter
    <2>4. /\ FilledOf(orders) = filled + Now.filled /\ filled \in Int /\ Now.filled \in Int /\ Asked \in Int
          /\ Now.filled <= o.filled /\ filled + o.filled <= Asked /\ filled + Exposure(o) <= Asked
          /\ 0 <= filled /\ 0 <= Now.filled
        BY <2>2, NowFacts DEF MovedInv, Becomes
    <2>5. PICK m \in Int : m = filled + Now.filled
        BY <2>4
    <2>6. PICK n \in Int : n = filled + o.filled
        BY <2>3, <2>4
    <2>7. FilledOf(orders) = m /\ FilledOf(orders') = n
        BY <2>3, <2>4, <2>5, <2>6
    <2>8. n \in m .. Asked /\ n \in 0 .. Asked /\ n >= 0 /\ (n # m => n \in m + 1 .. Asked)
        BY <2>3, <2>4, <2>5, <2>6
    <2>9. orders'[attempt] = o /\ attempt \in 1 .. Attempts
        BY <2>2, AfterBecomes
    <2>10. n + Exposure(o) - o.filled <= Asked
        BY <2>3, <2>4, <2>6
    <2>11. ~Stale
        BY DEF Stale, MayFail, Faults
    <2>12. CASE Stays(o)
        <3>1. MovedInv'
            BY <1>1, <2>3, <2>6, <2>7, <2>9, <2>10, <2>12 DEF Stays
        <3>2. answer' = answer
            BY <2>12 DEF Stays
        <3> QED
            BY <2>2, <2>7, <2>8, <3>1, <3>2, LegStep
    <2>13. CASE Retries(o)
        <3>1. filled' = n /\ attempt' = attempt + 1 /\ pc' = "post" /\ answer' = answer
            BY <2>6, <2>11, <2>13 DEF Retries
        <3>2. PhaseOK(style', pc', filled', Now', seen', tries')
            BY <1>0, <3>1 DEF BInv, PhaseInv, PhaseOK, Watched
        <3>3. orders'[attempt'] = NoOrder
            BY <3>1, <3>2 DEF PhaseOK, Now
        <3>4. Exposure(orders'[attempt']) = 0 /\ orders'[attempt'].filled = 0
            BY <3>3 DEF Exposure, NoOrder
        <3>5. n + 0 - 0 <= Asked /\ n = n + 0
            BY <2>4, <2>8
        <3>6. MovedInv'
            BY <1>1, <2>7, <3>1, <3>4, <3>5
        <3> QED
            BY <2>2, <2>7, <2>8, <3>1, <3>6, LegStep
    <2>14. CASE Answers(o)
        <3>1. pc' = "done" /\ attempt' = attempt
            BY <2>14 DEF Answers
        <3>2. MovedInv'
            BY <1>1, <2>3, <2>7, <2>9, <2>10, <3>1
        <3>3. answer' = Told(n) \/ answer' = Leg!Unknown
            BY <2>6, <2>11, <2>14 DEF Answers, MayFail, Faults
        <3> QED
            BY <2>2, <2>7, <2>8, <3>2, <3>3, LegStep
    <2> QED
        BY <2>1, <2>12, <2>13, <2>14
<1>3. ASSUME NEW o \in Order, Moved(o)
      PROVE  MovedInv' /\ [Leg!Move \/ Leg!Reply]_(Leg!legVars)
    <2>1. /\ Exposure(o) \in Int /\ Exposure(Now) \in Int /\ o.filled \in Int /\ FilledOf(orders) \in Int
          /\ FilledOf(orders') = FilledOf(orders) + o.filled - Now.filled
        BY <1>3, SumsAfter
    <2>2. /\ Now.filled \in Int /\ Now.size \in Int /\ Asked \in Int /\ Now.filled < Now.size
          /\ Exposure(Now) = Now.size /\ filled \in Int
        BY <1>3, LastOrder DEF Moved, Exposure, Sane, BInv, TypeOK
    <2>3. /\ orders'[attempt'] = o /\ UNCHANGED <<pc, filled, attempt, answer>>
        BY <1>3, LastOrder DEF Moved, BInv, TypeOK
    <2>4. PICK m \in Int : m = FilledOf(orders)
        BY <2>1
    <2>5. PICK n \in Int : n = m + o.filled - Now.filled
        BY <2>1, <2>2
    <2>6. FilledOf(orders') = n
        BY <2>1, <2>4, <2>5
    <2>7. m + Now.size - Now.filled <= Asked
        BY <2>1, <2>2, <2>4 DEF MovedInv
    <2>8. \/ o.filled = Now.filled + 1 /\ Exposure(o) = Now.size
          \/ o.filled = Now.filled /\ Exposure(o) = o.filled
        BY <1>3, <2>2 DEF Moved, Exposure
    <2>9. n + Exposure(o) - o.filled <= Asked
        BY <2>1, <2>2, <2>5, <2>7, <2>8
    <2>10. pc # "done" => n = filled + o.filled
        BY <2>1, <2>2, <2>4, <2>5 DEF MovedInv
    <2>11. MovedInv'
        BY <1>1, <2>1, <2>3, <2>6, <2>9, <2>10
    <2>12. n = m \/ n \in m + 1 .. Asked
        BY <2>1, <2>2, <2>5, <2>7, <2>8
    <2>13. answer \in {Leg!Pending, Leg!Unknown}
        BY <1>3 DEF Moved, RestsInv
    <2> QED
        BY <2>3, <2>4, <2>6, <2>11, <2>12, <2>13, LegStep
<1>4. CASE UNCHANGED <<pc, attempt, orders, filled, answer>>
    <2>1. MovedInv'
        BY <1>4 DEF MovedInv, FilledOf, Exposure, Now
    <2>2. [Leg!Move \/ Leg!Reply]_(Leg!legVars)
        BY <1>4 DEF Leg!legVars
    <2> QED
        BY <2>1, <2>2
<1>5. CASE UNCHANGED <<pc, attempt, orders, filled, answer>> /\ expired' \in BOOLEAN
    BY <1>4, <1>5
<1> QED
    BY <1>2, <1>3, <1>5, NextKinds

\* The leg keeps the promise that the executor is written against: whatever the number of
\* attempts and orders, a fill that it reports is exactly what the venue filled, a refusal
\* means that nothing was filled and nothing will be, and the venue only moves on after an
\* unknown outcome.  It is the safety part of ImplementsPerpLeg, under all the faults of
\* IOC and those of the maker with which the code keeps the promise.
THEOREM ImplementsLegSafety ==
    ASSUME "confirm_blind" \notin MakerFaults, "find_blind" \notin MakerFaults,
           "bad_book" \notin MakerFaults
    PROVE  Spec => Leg!Safety
<1>1. Init => MovedInv /\ RestsInv /\ Leg!Init
    <2> SUFFICES ASSUME Init PROVE MovedInv /\ RestsInv /\ Leg!Init
        OBVIOUS
    <2>1. FilledOf(orders) = 0
        BY SumsBegin
    <2>2. Now = NoOrder /\ filled = 0 /\ Asked \in Int /\ Asked > 0
        BY LegAssumption DEF Init, Now
    <2>3. Exposure(Now) = 0 /\ Now.filled = 0 /\ Now.at = "nowhere"
        BY <2>2 DEF Exposure, NoOrder
    <2>4. Leg!Init
        BY <2>1 DEF Leg!Init, Init, FilledOf
    <2> QED
        BY <2>1, <2>2, <2>3, <2>4 DEF MovedInv, RestsInv
<1>2. BInv /\ MovedInv /\ RestsInv /\ [Next]_vars
        => MovedInv' /\ RestsInv' /\ [Leg!Move \/ Leg!Reply]_(Leg!legVars)
    BY LegSteps, RestsPreserved
<1> QED
    BY <1>1, <1>2, BaseAlways, PTL DEF Spec, Leg!Safety
=============================================================================

------------------------------ MODULE PerpOrder ------------------------------
(* One perp leg at a real venue: the IOC attempt loop of _PerpLegRouter and    *)
(* the post-only loop of MakerExecution, with the exchange they talk to.       *)
(*                                                                             *)
(* Every request to the venue is a step, and the exchange fills, expires or    *)
(* receives orders between any two of them.  Each attempt has a client id of   *)
(* its own, so an attempt number names an order.  Prices are left out: whether *)
(* an order fills and whether the book walked away are choices.  An order that *)
(* a lookup does not find never arrives.                                       *)
EXTENDS Integers, FiniteSetsExt

CONSTANTS
    Asked,        \* quantity of the leg, in lots
    Attempts,     \* max_attempts / maker_reprice_attempts
    CancelTries,  \* maker._CANCEL_ATTEMPTS
    Styles,       \* subset of {"ioc", "maker"}
    IocFaults, MakerFaults

FaultKinds ==
    {"fatal",        \* the venue rejects the order for good
     "rejected",     \* clock or position-mode rejection / the post-only order would cross
     "unknown",      \* a timeout or a transport error: the request may have arrived
     "cancel_fails", \* DELETE /order fails, whether or not it arrived
     "expires",      \* the venue ends a resting order by itself
     "bad_book",     \* a later book is not two-sided
     \* GET /order fails: after a failed post, while watching, after a failed DELETE,
     \* after a DELETE that found nothing
     "find_blind", "watch_blind", "recheck_blind", "confirm_blind"}

ASSUME LegAssumption == /\ Asked \in Nat \ {0} /\ Attempts \in Nat \ {0}
                        /\ CancelTries \in Nat \ {0}
ASSUME StyleAssumption == /\ Styles \subseteq {"ioc", "maker"}
                          /\ IocFaults \subseteq FaultKinds /\ MakerFaults \subseteq FaultKinds

VARIABLES
    style,    \* how this leg is executed
    pc,       \* the request that comes next
    attempt,  \* the attempt being made
    orders,   \* [attempts -> order]: what is at the venue
    filled,   \* MakerExecution.work: filled so far, as the venue reported it
    seen,     \* _watch: executed quantity of the current order as last read
    expired,  \* the maker's time budget is used up
    why,      \* why the current order is cancelled: "BUDGET" or "REPRICE"
    tries,    \* DELETE requests sent for the current order
    answer    \* what the router answered

vars == <<style, pc, attempt, orders, filled, seen, expired, why, tries, answer>>

Leg == INSTANCE PerpLeg WITH moved <- SumFunction([i \in 1 .. Attempts |-> orders[i].filled])

Order   == [at : {"nowhere", "working", "ended"}, size : 0 .. Asked, filled : 0 .. Asked]
NoOrder == [at |-> "nowhere", size |-> 0, filled |-> 0]

Faults   == IF style = "ioc" THEN IocFaults ELSE MakerFaults
MayFail(f) == f \in Faults
Now      == orders[attempt]
Known    == Now.at \in {"working", "ended"}
Complete == Now.at = "ended" /\ Now.filled = Now.size

Init ==
    /\ style \in Styles
    /\ pc = "post" /\ attempt = 1
    /\ orders = [i \in 1 .. Attempts |-> NoOrder]
    /\ filled = 0 /\ seen = 0
    /\ expired = FALSE /\ why = "BUDGET" /\ tries = 0
    /\ answer = Leg!Pending

Calls(st, step) == style = st /\ pc = step
AnswerWith(a)   == pc' = "done" /\ answer' = a /\ UNCHANGED attempt

------------------------------------------------------------------------------
(* _fill_perp: LIMIT IOC, retried under a new client id.                     *)

\* An IOC order has ended when it is seen: filled in part, in full, or not at all.
Executed(q) == [at |-> "ended", size |-> Asked, filled |-> q]

NextAttempt ==
    IF attempt < Attempts
    THEN pc' = "post" /\ attempt' = attempt + 1 /\ UNCHANGED answer
    ELSE AnswerWith(Leg!Refused)

\* A fill of any size is the answer, a zero fill is tried again.
Settled(q) == IF q > 0 THEN AnswerWith(Leg!Fill(q)) ELSE NextAttempt

IocPosted ==
    /\ Calls("ioc", "post")
    /\ \E q \in 0 .. Asked : orders' = [orders EXCEPT ![attempt] = Executed(q)] /\ Settled(q)
    /\ UNCHANGED <<style, filled, seen, expired, why, tries>>

\* _FATAL_FUTURES_CODES
IocFatal ==
    /\ Calls("ioc", "post") /\ MayFail("fatal")
    /\ AnswerWith(Leg!Refused)
    /\ UNCHANGED <<style, orders, filled, seen, expired, why, tries>>

\* -1021 and -4061: not accepted; the clock or the position mode is read again.
IocRejected ==
    /\ Calls("ioc", "post") /\ MayFail("rejected")
    /\ NextAttempt
    /\ UNCHANGED <<style, orders, filled, seen, expired, why, tries>>

\* Any other failure: the order never arrived, or it has executed.
IocUnknown ==
    /\ Calls("ioc", "post") /\ MayFail("unknown")
    /\ \E o \in {NoOrder} \cup {Executed(q) : q \in 0 .. Asked} :
          orders' = [orders EXCEPT ![attempt] = o]
    /\ pc' = "find"
    /\ UNCHANGED <<style, attempt, filled, seen, expired, why, tries, answer>>

\* _lookup_strict: "not there" leads to a retry.
IocFound ==
    /\ Calls("ioc", "find")
    /\ Settled(Now.filled)
    /\ UNCHANGED <<style, orders, filled, seen, expired, why, tries>>

\* Mutant: a lookup that failed reads as "not there".
IocNotAsked_Retries ==
    /\ Calls("ioc", "find") /\ MayFail("find_blind")
    /\ NextAttempt
    /\ UNCHANGED <<style, orders, filled, seen, expired, why, tries>>

\* "Could not ask": no retry, the state of the order is unknown.
IocNotAsked ==
    /\ Calls("ioc", "find") /\ MayFail("find_blind")
    /\ AnswerWith(Leg!Unknown)
    /\ UNCHANGED <<style, orders, filled, seen, expired, why, tries>>

------------------------------------------------------------------------------
(* MakerExecution.work, _watch, _cancel.                                     *)

\* The end of work and of _fill_perp_maker: `total` lots reported as filled.
Finish(total) ==
    /\ filled' = total
    /\ AnswerWith(IF total > 0 THEN Leg!Fill(total) ELSE Leg!Refused)

Remaining == Asked - filled
CanPost   == Calls("maker", "post") /\ Remaining > 0 /\ ~expired

\* Top of the loop: filled, a remainder too small to post, out of time, or no book to
\* price from.  maker_price raises on a book that is not two-sided, and its error
\* carries no filled quantity.
StopWorking ==
    /\ Calls("maker", "post")
    /\ \/ Finish(filled)
       \/ CanPost /\ MayFail("bad_book") /\ Finish(0)
    /\ UNCHANGED <<style, orders, seen, expired, why, tries>>

\* A client id per attempt; without one left the loop is over.
Repost(total) ==
    IF attempt < Attempts
    THEN filled' = total /\ attempt' = attempt + 1 /\ pc' = "post" /\ UNCHANGED answer
    ELSE Finish(total)

Resting(size) == [at |-> "working", size |-> size, filled |-> 0]

\* Mutant: every attempt is for the whole leg.
Posted_Whole ==
    /\ CanPost
    /\ orders' = [orders EXCEPT ![attempt] = Resting(Asked)]
    /\ seen' = 0 /\ pc' = "watch"
    /\ UNCHANGED <<style, attempt, filled, expired, why, tries, answer>>

Posted ==
    /\ CanPost
    /\ orders' = [orders EXCEPT ![attempt] = Resting(Remaining)]
    /\ seen' = 0 /\ pc' = "watch"
    /\ UNCHANGED <<style, attempt, filled, expired, why, tries, answer>>

\* POST_ONLY_REJECT_CODES: it would have crossed.
PostOnlyRejected ==
    /\ CanPost /\ MayFail("rejected")
    /\ Repost(filled)
    /\ UNCHANGED <<style, orders, seen, expired, why, tries>>

\* Every other error leads to a lookup, whether the venue rejected the order or the
\* request was lost.
PostFailed ==
    /\ CanPost /\ (MayFail("fatal") \/ MayFail("unknown"))
    /\ \E o \in {NoOrder} \cup (IF MayFail("unknown") THEN {Resting(Remaining)} ELSE {}) :
          orders' = [orders EXCEPT ![attempt] = o]
    /\ seen' = 0 /\ pc' = "find"
    /\ UNCHANGED <<style, attempt, filled, expired, why, tries, answer>>

\* Back from _watch with `got` lots of this order.
Collect(got, status) ==
    LET total == filled + got IN
    CASE status = "STUCK" -> filled' = total /\ AnswerWith(Leg!Unknown)
      [] status = "BUDGET" \/ (status = "FILLED" /\ total >= Asked) -> Finish(total)
      [] OTHER -> Repost(total)

FoundResting ==
    /\ Calls("maker", "find") /\ Known
    /\ seen' = Now.filled
    /\ IF Complete THEN Collect(Now.filled, "FILLED")
                   ELSE pc' = "watch" /\ UNCHANGED <<attempt, filled, answer>>
    /\ UNCHANGED <<style, orders, expired, why, tries>>

\* MakerExecution._lookup answers None both when the order is not there and when the
\* lookup failed: the leg stops with what was filled before, or is refused.
NotFound ==
    /\ Calls("maker", "find") /\ (~Known \/ MayFail("find_blind"))
    /\ Finish(filled)
    /\ UNCHANGED <<style, orders, seen, expired, why, tries>>

\* One round of _watch: a lookup, then the clock, then the book.  Reading the clock
\* before the lookup, as the code does, is the same as letting it run out afterwards.
Watching(read) ==
    /\ seen' = read
    /\ \/ /\ expired /\ why' = "BUDGET"
          /\ pc' = "cancel" /\ tries' = 0
       \/ /\ ~expired /\ why' = "REPRICE"      \* the market walked away
          /\ pc' = "cancel" /\ tries' = 0
       \/ /\ ~expired /\ UNCHANGED <<pc, why, tries>>
    /\ UNCHANGED <<style, attempt, orders, filled, expired, answer>>

WatchSeen ==
    /\ Calls("maker", "watch") /\ Now.at = "working"
    /\ Watching(Now.filled)

WatchEnded ==
    /\ Calls("maker", "watch") /\ Now.at = "ended"
    /\ seen' = Now.filled
    /\ Collect(Now.filled, IF Complete THEN "FILLED" ELSE "REPRICE")
    /\ UNCHANGED <<style, orders, expired, why, tries>>

WatchBlind ==
    /\ Calls("maker", "watch") /\ MayFail("watch_blind")
    /\ Watching(seen)

\* Mutant: an unconfirmed cancel counts as a cancel.
Cancelled_Trusting(got, gone) ==
    /\ seen' = got /\ Collect(got, why)
    /\ UNCHANGED <<style, expired, why>>

\* _cancel returns: only a confirmed cancel lets the leg go on.
Cancelled(got, gone) ==
    /\ seen' = got /\ Collect(got, IF gone THEN why ELSE "STUCK")
    /\ UNCHANGED <<style, expired, why>>

CancelAccepted ==
    /\ Calls("maker", "cancel") /\ Now.at = "working"
    /\ orders' = [orders EXCEPT ![attempt].at = "ended"]
    /\ Cancelled(Now.filled, TRUE)
    /\ UNCHANGED tries

\* -2011 / -2013: there is nothing to cancel any more; the quantity is looked up.
CancelTooLate ==
    /\ Calls("maker", "cancel") /\ Now.at # "working"
    /\ pc' = "confirm"
    /\ UNCHANGED <<style, attempt, orders, filled, seen, expired, why, tries, answer>>

CancelFailed ==
    /\ Calls("maker", "cancel") /\ MayFail("cancel_fails")
    /\ \/ UNCHANGED orders
       \/ Now.at = "working" /\ orders' = [orders EXCEPT ![attempt].at = "ended"]
    /\ pc' = "recheck" /\ tries' = tries + 1
    /\ UNCHANGED <<style, attempt, filled, seen, expired, why, answer>>

CancelAgain ==
    /\ tries < CancelTries
    /\ pc' = "cancel"
    /\ UNCHANGED <<style, attempt, orders, filled, seen, expired, why, tries, answer>>

\* The order was read instead of cancelled.
RecheckEnded ==
    /\ Calls("maker", "recheck") /\ Now.at = "ended"
    /\ Cancelled(Now.filled, TRUE)
    /\ UNCHANGED <<orders, tries>>

RecheckWorking ==
    /\ Calls("maker", "recheck") /\ Now.at = "working"
    /\ \/ CancelAgain
       \/ tries = CancelTries /\ Cancelled(Now.filled, FALSE) /\ UNCHANGED <<orders, tries>>

\* Nothing read: after the last try the order is looked up once more, unconfirmed.
RecheckBlind ==
    /\ Calls("maker", "recheck") /\ MayFail("recheck_blind")
    /\ \/ CancelAgain
       \/ /\ tries = CancelTries
          /\ pc' = "confirm_stuck"
          /\ UNCHANGED <<style, attempt, orders, filled, seen, expired, why, tries, answer>>

\* The lookup after a DELETE that found nothing ("confirm": gone so far) or after the
\* last failed one.  A lookup that fails leaves the quantity as last seen.
Confirmed ==
    /\ style = "maker" /\ pc \in {"confirm", "confirm_stuck"}
    /\ \/ Cancelled(Now.filled, pc = "confirm" /\ Now.at = "ended")
       \/ MayFail("confirm_blind") /\ Cancelled(seen, pc = "confirm")
    /\ UNCHANGED <<orders, tries>>

------------------------------------------------------------------------------
(* The exchange and the clock.                                               *)

ExchangeFills(i) ==
    /\ orders[i].at = "working"
    /\ LET q == orders[i].filled + 1 IN
       orders' = [orders EXCEPT ![i].filled = q,
                                ![i].at = IF q = orders[i].size THEN "ended" ELSE "working"]
    /\ UNCHANGED <<style, pc, attempt, filled, seen, expired, why, tries, answer>>

ExchangeEnds(i) ==
    /\ MayFail("expires") /\ orders[i].at = "working"
    /\ orders' = [orders EXCEPT ![i].at = "ended"]
    /\ UNCHANGED <<style, pc, attempt, filled, seen, expired, why, tries, answer>>

TimeRunsOut ==
    /\ style = "maker" /\ pc # "done" /\ ~expired
    /\ expired' = TRUE
    /\ UNCHANGED <<style, pc, attempt, orders, filled, seen, why, tries, answer>>

Ioc   == IocPosted \/ IocFatal \/ IocRejected \/ IocUnknown \/ IocFound \/ IocNotAsked
Maker == \/ StopWorking \/ Posted \/ PostOnlyRejected \/ PostFailed
         \/ FoundResting \/ NotFound
         \/ WatchSeen \/ WatchEnded \/ WatchBlind
         \/ CancelAccepted \/ CancelTooLate \/ CancelFailed
         \/ RecheckEnded \/ RecheckWorking \/ RecheckBlind \/ Confirmed
Router == Ioc \/ Maker

Exchange == \E i \in 1 .. Attempts : ExchangeFills(i) \/ ExchangeEnds(i)

Next == Router \/ Exchange \/ TimeRunsOut

Spec == Init /\ [][Next]_vars

\* Requests have timeouts, and the maker's budget is wall-clock time.
FairSpec == Spec /\ WF_vars(Router) /\ WF_vars(TimeRunsOut)

------------------------------------------------------------------------------
(* Properties.                                                               *)

\* Type invariant; what the leg reports as filled never exceeds what was asked.
TypeOK ==
    /\ style \in Styles
    /\ pc \in {"post", "find", "watch", "cancel", "recheck", "confirm", "confirm_stuck", "done"}
    /\ attempt \in 1 .. Attempts /\ tries \in 0 .. CancelTries
    /\ orders \in [1 .. Attempts -> Order]
    /\ filled \in 0 .. Asked /\ seen \in 0 .. Asked
    /\ expired \in BOOLEAN /\ why \in {"BUDGET", "REPRICE"}
    /\ answer \in {Leg!Pending, Leg!Refused, Leg!Unknown} \cup {Leg!Fill(q) : q \in 1 .. Asked}

\* What all the orders of a leg have filled and may still fill is never more than was
\* asked: a retry or a re-post never turns one intended position into two.
Exposure(o) == IF o.at = "working" THEN o.size ELSE o.filled
ExposureBounded == SumFunction([i \in 1 .. Attempts |-> Exposure(orders[i])]) <= Asked

\* The router keeps the promise the executor relies on, and always answers.
ImplementsPerpLeg == Leg!Spec

\* A partial fill "is a REAL position" and is "never discarded": a leg reported as not
\* filled has nothing at the venue.
PartialNeverLost ==
    answer = Leg!Refused => \A i \in 1 .. Attempts : orders[i].filled = 0

\* "No order of Deltr's is left working after the leg is done with it", unless the leg
\* said that its outcome is unknown.
NothingLeftWorking ==
    answer \notin {Leg!Pending, Leg!Unknown} => \A i \in 1 .. Attempts : orders[i].at # "working"
=============================================================================

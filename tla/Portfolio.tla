------------------------------ MODULE Portfolio ------------------------------
(* deltr/portfolio.py: the book of positions and the cash locked in them.   *)
(* A position is one DEX long paired with one perp short.  Quantities are   *)
(* lots (multiples of the exchange step), money is the principal locked in  *)
(* a leg: profit, fees and funding are additive terms the book realises     *)
(* separately and are left out.                                             *)
EXTENDS Integers, FiniteSets

CONSTANTS
    Lots,      \* quantity of a plan, in lots (plan.qty / step_size)
    DexCost,   \* principal of one lot on the DEX (price)
    PerpCost   \* margin of one lot on the perp (price / leverage)

ASSUME LotsAssumption == Lots \in Nat \ {0}
ASSUME CostAssumption == DexCost \in Nat /\ PerpCost \in Nat

Qty == 0 .. Lots

\* A position as the book holds it; `open` is membership of Portfolio._positions.
Position == [open : BOOLEAN, dex : Qty, perp : Qty, notional : Int, margin : Int]

NoPosition == [open |-> FALSE, dex |-> 0, perp |-> 0, notional |-> 0, margin |-> 0]

\* plan.cash_required_usd: what is reserved before the first leg.
CashRequired == Lots * (DexCost + PerpCost)

Smaller(a, b) == IF a <= b THEN a ELSE b
Larger(a, b)  == IF a <= b THEN b ELSE a

\* The part of a locked amount that belongs to q lots out of `of`.
Share(amount, q, of) == IF of <= 0 THEN 0 ELSE (amount * q) \div of

Locked(pos) == pos.notional + pos.margin

\* A position with one leg gone (executor: perp_qty <= 0 or dex_qty <= 0).
OneLegged(pos) == pos.dex = 0 \/ pos.perp = 0

\* open_position: quantities come from the fills, never from the plan.
Opened(dexFill, perpFill) ==
    [open |-> TRUE, dex |-> dexFill, perp |-> perpFill,
     notional |-> dexFill * DexCost, margin |-> perpFill * PerpCost]

\* open_naked_leg: the one fill that could not be reversed.
OpenedNaked(venue, fill) ==
    IF venue = "dex" THEN Opened(fill, 0) ELSE Opened(0, fill)

\* A remainder below one lot on both legs closes the position for good.
Settle(pos) == IF pos.dex = 0 /\ pos.perp = 0 THEN NoPosition ELSE pos

\* close_leg: only the principal of the closed leg is released.
LegClosed(pos, venue, fill) ==
    IF venue = "dex"
    THEN LET q == Smaller(fill, pos.dex) IN
         Settle([pos EXCEPT !.dex = @ - q, !.notional = @ - Share(@, q, pos.dex)])
    ELSE LET q == Smaller(fill, pos.perp) IN
         Settle([pos EXCEPT !.perp = @ - q, !.margin = @ - Share(@, q, pos.perp)])

\* close_position with both fills: both principals are released in proportion to
\* the PERP quantity that was closed.
BothClosed(pos, dexFill, perpFill) ==
    LET qd == Smaller(dexFill, pos.dex)
        qp == Smaller(perpFill, pos.perp)
        \* frac = 1 when there is no perp left
        kept(x) == IF pos.perp <= 0 THEN 0 ELSE x - Share(x, qp, pos.perp)
    IN  Settle([pos EXCEPT !.dex = @ - qd, !.perp = @ - qp,
                           !.notional = kept(@), !.margin = kept(@)])

\* The principal a close hands back to cash.
LegReleases(pos, venue, fill) ==
    IF venue = "dex" THEN Share(pos.notional, Smaller(fill, pos.dex), pos.dex)
                     ELSE Share(pos.margin, Smaller(fill, pos.perp), pos.perp)

\* Mutant: the margin of the perp leg is not returned.
BothReleases_NoMargin(pos, perpFill) ==
    IF pos.perp <= 0 THEN pos.notional
    ELSE Share(pos.notional, Smaller(perpFill, pos.perp), pos.perp)

BothReleases(pos, perpFill) ==
    IF pos.perp <= 0 THEN Locked(pos)
    ELSE Share(Locked(pos), Smaller(perpFill, pos.perp), pos.perp)

\* The quantity registered with the gate for what is left of a position.
LegRegistered(pos) == Larger(pos.dex, pos.perp)
=============================================================================

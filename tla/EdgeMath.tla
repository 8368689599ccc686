------------------------------ MODULE EdgeMath ------------------------------
(***************************************************************************)
(* The edge arithmetic, on both sides of the API: the backend's            *)
(* (deltr/edge.py, deltr/horizon.py) and the local mirror the edge panel   *)
(* falls back on (ui/components/EdgeWaterfall.tsx).                        *)
(*                                                                         *)
(* Basis points, hours and settlements are integers; a funding rate is the *)
(* basis points of one settlement.  Labels carry no wording.               *)
(***************************************************************************)
EXTENDS Integers, Sequences, FiniteSetsExt, Functions

CONSTANTS
    AssumedRate,  \* ASSUMED_RATE: the mainnet-typical rate, in bps
    MaxCurveH,    \* MAX_CURVE_HORIZON_H
    MaxPoints     \* MAX_CURVE_POINTS, of the backend's curve only

EdgeMathAssumption ==
    /\ AssumedRate \in Nat \ {0}
    /\ MaxCurveH \in Nat \ {0} /\ MaxPoints \in Nat \ {0}

None == -1

CeilDiv(a, b) == (a + b - 1) \div b

-----------------------------------------------------------------------------
(* deltr/edge.py: one edge breakdown. *)

\* Mutant: an overdue published instant is not rolled forward.
SettlementsBetween_Overdue(d, iv, h) == IF d > h THEN 0 ELSE 1 + (h - d) \div iv

\* Settlement instants in (now, now + h]; d is the published next one, in hours
\* from now, and may be in the past.
SettlementsBetween(d, iv, h) ==
    LET next == IF d > 0 THEN d ELSE d + iv * ((-d) \div iv + 1)
    IN  IF next > h THEN 0 ELSE 1 + (h - next) \div iv

RoundTrip(q) == 2 * (q.fee + q.impact + q.slip + q.taker + q.gas)

NetEdge(q, d, h) ==
    LET n == SettlementsBetween(d, q.iv, h) IN
    [q |-> q, horizon |-> h, settlements |-> n, roundtrip |-> RoundTrip(q),
     funding |-> q.rate * n,
     net |-> q.basis + q.rate * n - RoundTrip(q) - q.exit]

-----------------------------------------------------------------------------
(* The waterfall: EdgeBreakdown.components() and its mirror edgeComponents(). *)

Row(label, bps, kind) == [label |-> label, bps |-> bps, kind |-> kind]
Sign(x) == IF x >= 0 THEN "gain" ELSE "cost"

EdgeComponents(e) ==
    << Row("basis", e.q.basis, Sign(e.q.basis)),
       Row("fee", -2 * e.q.fee, "cost"),
       Row("impact", -2 * e.q.impact, "cost"),
       Row("slip", -2 * e.q.slip, "cost"),
       Row("taker", -2 * e.q.taker, "cost"),
       Row("gas", -2 * e.q.gas, "cost"),
       Row("funding", e.funding, Sign(e.funding)) >>
    \o (IF e.q.exit # 0 THEN <<Row("exit", -e.q.exit, "cost")>> ELSE <<>>)
    \o << Row("net", e.net, "net") >>

\* Each bar starts where the last one ended; the net bar starts at zero.
Bars(rows) ==
    LET Total(i) == SumFunction([j \in {k \in 1..i : rows[k].kind # "net"} |-> rows[j].bps])
    IN  [i \in DOMAIN rows |->
            IF rows[i].kind = "net" THEN [from |-> 0, to |-> rows[i].bps]
            ELSE [from |-> Total(i - 1), to |-> Total(i)]]

-----------------------------------------------------------------------------
(* Breakeven and curve.  Both sides count the breakeven the same way. *)

BreakevenSettlements(cost, rate) ==
    IF rate <= 0 \/ cost <= 0 THEN None
    ELSE LET n == cost \div rate IN IF n * rate >= cost THEN n ELSE n + 1

Breakeven(cost, rate, iv, h, basis) ==
    LET n == IF cost <= 0 THEN 0 ELSE BreakevenSettlements(cost, rate)
    IN  [basis |-> basis, rate |-> rate, n |-> n,
         hours |-> IF n = None THEN None ELSE n * iv,
         floorCount |-> h \div iv,
         reached |-> n # None /\ n * iv <= h]

\* How far the curve goes: twice the horizon, a day, or past the breakeven.
Steps(iv, h, hours, least) ==
    LET wide == Max({2 * h, 24} \cup IF hours > 0 THEN {CeilDiv(hours * 135, 100)} ELSE {})
        span == Max({Min({wide, MaxCurveH}), least})
    IN  Max({1, CeilDiv(span, iv)})

Curve(q, rate, steps, stride) ==
    LET Net(k)   == q.basis + rate * k - (RoundTrip(q) + q.exit)
        crossing == {k \in 0..steps : Net(k) >= 0}
    IN  [rate |-> rate,
         zero |-> IF crossing = {} THEN None ELSE q.iv * Min(crossing),
         max  |-> steps * q.iv,
         points |-> {<<k * q.iv, Net(k)>> : k \in {j \in 0..steps : j % stride = 0 \/ j = steps}}]

\* deltr/horizon.py: horizon and interval always fit, points are thinned out.
BackendCurve(q, rate, h, be) ==
    LET steps == Steps(q.iv, h, be.hours, Max({q.iv, h}))
    IN  Curve(q, rate, steps, Max({1, CeilDiv(steps + 1, MaxPoints)}))

\* buildCurve() in the panel: no such floor, every point.
BuildCurve(q, rate, h, be) == Curve(q, rate, Steps(q.iv, h, be.hours, 0), 1)

\* The assumed rate is a second view, only when the measured carry never repays.
Analysis(e, local) ==
    LET Draw(rate, be) == IF local THEN BuildCurve(e.q, rate, e.horizon, be)
                          ELSE BackendCurve(e.q, rate, e.horizon, be)
        cost     == RoundTrip(e.q) + e.q.exit - e.q.basis
        measured == Breakeven(cost, e.q.rate, e.q.iv, e.horizon, "measured")
        assumed  == Breakeven(cost, AssumedRate, e.q.iv, e.horizon, "assumed")
        use      == measured.n = None /\ e.q.rate <= 0
    IN  [cost |-> cost, horizon |-> e.horizon, interval |-> e.q.iv,
         settlements |-> e.settlements,
         breakeven |-> measured,
         curve     |-> Draw(e.q.rate, measured),
         assumed   |-> IF use THEN {assumed} ELSE {},
         assumedCurve |-> IF use THEN {Draw(AssumedRate, assumed)} ELSE {}]

HorizonAnalysis(e) == Analysis(e, FALSE)
HorizonFallback(e) == Analysis(e, TRUE)

-----------------------------------------------------------------------------
(* What must hold between those computations. *)

\* The two curves say the same: they cross zero at the same hour, end at the
\* same hour, and no point of one misses the other.
CurvesAgree(a, b) == a.zero = b.zero /\ a.max = b.max /\ a.points \subseteq b.points

Mirrors(a, b) ==
    /\ a.breakeven = b.breakeven /\ a.assumed = b.assumed
    /\ CurvesAgree(a.curve, b.curve)
    /\ \A c \in a.assumedCurve, d \in b.assumedCurve : CurvesAgree(c, d)

\* The settlements counted to break even are where the curve first reaches
\* zero, unless that lies beyond the end of the drawing.
OnCurve(be, c) ==
    \/ c.zero = be.hours
    \/ c.zero = None /\ be.hours > c.max

BreakevenOnCurve(a) ==
    /\ OnCurve(a.breakeven, a.curve)
    /\ \A be \in a.assumed, c \in a.assumedCurve : OnCurve(be, c)

\* "the two can differ by one settlement": instants against floor(h / iv).
CountsAgree(a) == a.settlements - a.breakeven.floorCount \in {0, 1}
=============================================================================

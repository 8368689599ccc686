--------------------------- MODULE PortfolioProofs ---------------------------
(* What the operators of Portfolio return, for every quantity and price: types,  *)
(* and where the principal of a position goes when it is closed in part or whole. *)
EXTENDS Portfolio, SumLemmas

------------------------------------------------------------------------------
(* Types.                                                                    *)

\* A positive share of an integer amount is an integer.
LEMMA ShareType ==
    ASSUME NEW amount \in Int, NEW q \in Int, NEW of \in Int
    PROVE  Share(amount, q, of) \in Int
<1>1. CASE of <= 0
    BY <1>1 DEF Share
<1>2. CASE of > 0
    <2>1. amount * q \in Int
        OBVIOUS
    <2> DEFINE x == amount * q
    <2>2. x \in Int
        BY <2>1
    <2> HIDE DEF x
    <2>3. x \div of \in Int
        BY <1>2, <2>2
    <2> QED
        BY <1>2, <2>3 DEF Share, x
<1> QED
    BY <1>1, <1>2

\* A position opened with the two fills holds them.
LEMMA OpenedType ==
    ASSUME NEW d \in Qty, NEW p \in Qty
    PROVE  Opened(d, p) \in Position /\ Opened(d, p).open
           /\ Opened(d, p).dex = d /\ Opened(d, p).perp = p
BY CostAssumption DEF Opened, Position, Qty

\* What a position locks is an integer.
LEMMA LockedType ==
    ASSUME NEW pos \in Position
    PROVE  Locked(pos) \in Int
BY DEF Locked, Position

\* The absent position is one.
LEMMA NoPositionType == NoPosition \in Position
BY LotsAssumption DEF NoPosition, Position, Qty

\* A settled position is a position; it is open or it is no position at all.
LEMMA SettleEffect ==
    ASSUME NEW pos \in Position, pos.open
    PROVE  /\ Settle(pos) \in Position
           /\ ~Settle(pos).open => Settle(pos) = NoPosition
           /\ Settle(pos).open => Settle(pos) = pos
BY NoPositionType DEF Settle, NoPosition

\* close_leg yields a position whose registered quantity covers its perp leg.
LEMMA LegClosedEffect ==
    ASSUME NEW pos \in Position, pos.open, NEW v \in {"dex", "perp"}, NEW fill \in Qty
    PROVE  /\ LegClosed(pos, v, fill) \in Position
           /\ ~LegClosed(pos, v, fill).open => LegClosed(pos, v, fill) = NoPosition
           /\ LegRegistered(LegClosed(pos, v, fill)) \in Qty
           /\ LegClosed(pos, v, fill).perp <= LegRegistered(LegClosed(pos, v, fill))
           /\ LegReleases(pos, v, fill) \in Int
<1>1. pos.dex \in Qty /\ pos.perp \in Qty /\ pos.notional \in Int /\ pos.margin \in Int
    BY DEF Position
<1> DEFINE qd == Smaller(fill, pos.dex)
           qp == Smaller(fill, pos.perp)
           nd == [pos EXCEPT !.dex = @ - qd, !.notional = @ - Share(@, qd, pos.dex)]
           np == [pos EXCEPT !.perp = @ - qp, !.margin = @ - Share(@, qp, pos.perp)]
<1>2. qd \in Qty /\ qp \in Qty /\ pos.dex - qd \in Qty /\ pos.perp - qp \in Qty
    BY <1>1, LotsAssumption DEF Smaller, Qty
<1>3. Share(pos.notional, qd, pos.dex) \in Int /\ Share(pos.margin, qp, pos.perp) \in Int
    <2> HIDE DEF qd, qp
    <2>1. \A x \in Qty : x \in Int
        BY LotsAssumption DEF Qty
    <2> QED
        BY <1>1, <1>2, <2>1, ShareType
<1>4. nd \in Position /\ nd.open /\ np \in Position /\ np.open
    <2> DEFINE sd == Share(pos.notional, qd, pos.dex)
               sp == Share(pos.margin, qp, pos.perp)
    <2>1. sd \in Int /\ sp \in Int
        BY <1>3
    <2>2. /\ nd = [pos EXCEPT !.dex = pos.dex - qd, !.notional = pos.notional - sd]
          /\ np = [pos EXCEPT !.perp = pos.perp - qp, !.margin = pos.margin - sp]
        BY DEF Position
    <2> DEFINE a == pos.dex - qd
               b == pos.notional - sd
               c == pos.perp - qp
               d == pos.margin - sp
    <2>3. a \in Qty /\ b \in Int /\ c \in Qty /\ d \in Int
        BY <1>1, <1>2, <2>1
    <2> HIDE DEF a, b, c, d
    <2>4. nd = [pos EXCEPT !.dex = a, !.notional = b] /\ np = [pos EXCEPT !.perp = c, !.margin = d]
        BY <2>2 DEF a, b, c, d
    <2> HIDE DEF qd, qp, sd, sp, nd, np
    <2>5. nd \in Position /\ np \in Position
        BY <1>1, <2>3, <2>4 DEF Position
    <2>6. nd.open /\ np.open
        BY <2>4 DEF Position
    <2> QED
        BY <2>5, <2>6
<1>5. LegClosed(pos, v, fill) = IF v = "dex" THEN Settle(nd) ELSE Settle(np)
    BY DEF LegClosed
<1> HIDE DEF nd, np
<1>6. /\ LegClosed(pos, v, fill) \in Position
      /\ ~LegClosed(pos, v, fill).open => LegClosed(pos, v, fill) = NoPosition
    BY <1>4, <1>5, SettleEffect
<1>7. LegReleases(pos, v, fill) \in Int
    BY <1>3 DEF LegReleases
<1> QED
    BY <1>6, <1>7 DEF LegRegistered, Larger, Position, Qty

\* close_position yields a position whose remaining perp leg is a quantity.
LEMMA BothClosedEffect ==
    ASSUME NEW pos \in Position, pos.open, NEW d \in Qty, NEW p \in Qty
    PROVE  /\ BothClosed(pos, d, p) \in Position
           /\ ~BothClosed(pos, d, p).open => BothClosed(pos, d, p) = NoPosition
           /\ BothReleases(pos, p) \in Int
<1>1. pos.dex \in Qty /\ pos.perp \in Qty /\ pos.notional \in Int /\ pos.margin \in Int
    BY DEF Position
<1> DEFINE qd == Smaller(d, pos.dex)
           qp == Smaller(p, pos.perp)
           kept(x) == IF pos.perp <= 0 THEN 0 ELSE x - Share(x, qp, pos.perp)
           new == [pos EXCEPT !.dex = @ - qd, !.perp = @ - qp,
                              !.notional = kept(@), !.margin = kept(@)]
<1>2. qd \in Qty /\ qp \in Qty /\ pos.dex - qd \in Qty /\ pos.perp - qp \in Qty
    BY <1>1, LotsAssumption DEF Smaller, Qty
<1>3. Share(pos.notional, qp, pos.perp) \in Int /\ Share(pos.margin, qp, pos.perp) \in Int
      /\ Share(Locked(pos), qp, pos.perp) \in Int /\ Locked(pos) \in Int
    <2> HIDE DEF qp
    <2>1. \A x \in Qty : x \in Int
        BY LotsAssumption DEF Qty
    <2> QED
        BY <1>1, <1>2, <2>1, ShareType, LockedType
<1>4. kept(pos.notional) \in Int /\ kept(pos.margin) \in Int
    BY <1>1, <1>3
<1>5. new \in Position /\ new.open
    <2> HIDE DEF qd, qp, kept
    <2> QED
        BY <1>1, <1>2, <1>4 DEF Position
<1>6. BothClosed(pos, d, p) = Settle(new)
    BY DEF BothClosed
<1>7. BothReleases(pos, p) \in Int
    BY <1>3 DEF BothReleases
<1> HIDE DEF new
<1> QED
    BY <1>5, <1>6, <1>7, SettleEffect

------------------------------------------------------------------------------
(* Shares of a locked amount.                                                *)

\* Division by a positive number, as the two bounds that define it.
LEMMA DivBounds ==
    ASSUME NEW x \in Int, NEW d \in Int, d > 0
    PROVE  x \div d \in Int /\ d * (x \div d) <= x /\ x < d * (x \div d) + d
OBVIOUS

\* The quotient is the only number within those bounds.
LEMMA DivUnique ==
    ASSUME NEW x \in Int, NEW d \in Int, d > 0, NEW k \in Int, d * k <= x, x < d * k + d
    PROVE  x \div d = k
<1> DEFINE y == x \div d
<1>1. y \in Int /\ d * y <= x /\ x < d * y + d
    BY DivBounds
<1> HIDE DEF y
<1>2. d * y < d * k + d /\ d * k < d * y + d
    BY <1>1
<1>3. d * y < d * (k + 1) /\ d * k < d * (y + 1)
    BY <1>1, <1>2
<1>4. y < k + 1 /\ k < y + 1
    BY <1>1, <1>3
<1> QED
    BY <1>1, <1>4 DEF y

\* Products of ordered numbers.
LEMMA MulMono ==
    ASSUME NEW a \in Int, NEW b \in Int, NEW c \in Int, a <= b, c >= 0
    PROVE  a * c <= b * c /\ c * a <= c * b /\ a * c \in Int /\ b * c \in Int
OBVIOUS

\* A product of non-negative numbers is non-negative.
LEMMA MulPos ==
    ASSUME NEW a \in Int, NEW b \in Int, a >= 0, b >= 0
    PROVE  a * b \in Int /\ a * b >= 0
OBVIOUS

\* A share is a part of the amount.
LEMMA ShareBounds ==
    ASSUME NEW n \in Int, n >= 0, NEW of \in Int, NEW q \in Int, 0 <= q, q <= of
    PROVE  Share(n, q, of) \in Int /\ 0 <= Share(n, q, of) /\ Share(n, q, of) <= n
<1>1. CASE of <= 0
    BY <1>1 DEF Share
<1>2. CASE of > 0
    <2> DEFINE x == n * q
               k == x \div of
    <2>1. x \in Int /\ 0 <= x /\ x <= n * of
        BY MulPos, MulMono
    <2> HIDE DEF x
    <2>2. k \in Int /\ of * k <= x /\ x < of * k + of
        BY <1>2, <2>1, DivBounds
    <2>3. Share(n, q, of) = k
        BY <1>2 DEF Share, x
    <2> HIDE DEF k
    <2>4. 0 < of * (k + 1) /\ of * k <= of * n
        BY <2>1, <2>2
    <2>5. 0 < k + 1 /\ k <= n
        BY <1>2, <2>2, <2>4
    <2> QED
        BY <2>2, <2>3, <2>5
<1> QED
    BY <1>1, <1>2

\* A share of an amount that divides evenly.
LEMMA ShareExact ==
    ASSUME NEW c \in Int, NEW of \in Int, of > 0, NEW q \in Int
    PROVE  Share(of * c, q, of) = c * q /\ c * q \in Int
<1> DEFINE x == (of * c) * q
           e == c * q
<1>1. x \in Int /\ e \in Int /\ x = of * e
    OBVIOUS
<1>2. Share(of * c, q, of) = x \div of
    BY DEF Share
<1> HIDE DEF x, e
<1>3. of * e <= x /\ x < of * e + of
    <2>1. of * e \in Int
        BY <1>1
    <2> QED
        BY <1>1, <2>1
<1>4. x \div of = e
    BY <1>1, <1>3, DivUnique
<1> QED
    BY <1>1, <1>2, <1>4 DEF e

\* The share of notional and margin together is the sum of their shares, because a margin
\* divides evenly.
LEMMA SharesAdd ==
    ASSUME NEW n \in Int, NEW w \in Int, w > 0, NEW f \in Int
    PROVE  Share(n + w * PerpCost, f, w) = Share(n, f, w) + Share(w * PerpCost, f, w)
<1>0. PerpCost \in Int
    BY CostAssumption
<1> DEFINE x == n * f
           k == x \div w
           z == (n + w * PerpCost) * f
           e == PerpCost * f
<1>1. x \in Int /\ z \in Int /\ e \in Int
    BY <1>0
<1>2. z = x + w * e
    BY <1>0
<1>3. Share(w * PerpCost, f, w) = e
    BY <1>0, ShareExact
<1>4. Share(n, f, w) = k /\ Share(n + w * PerpCost, f, w) = z \div w
    BY DEF Share
<1> HIDE DEF x, z, e
<1>5. k \in Int /\ w * k <= x /\ x < w * k + w
    BY <1>1, DivBounds
<1> HIDE DEF k
<1>6. w * (k + e) = w * k + w * e
    BY <1>1, <1>5
<1>7. w * (k + e) <= z /\ z < w * (k + e) + w
    BY <1>1, <1>2, <1>5, <1>6
<1>8. z \div w = k + e
    BY <1>1, <1>5, <1>7, DivUnique
<1> QED
    BY <1>3, <1>4, <1>8

\* The share of all the lots is the whole amount.
LEMMA ShareWhole ==
    ASSUME NEW n \in Int, NEW of \in Int, of > 0
    PROVE  Share(n, of, of) = n
<1> DEFINE x == n * of
<1>1. x \in Int /\ of * n <= x /\ x < of * n + of
    OBVIOUS
<1>2. Share(n, of, of) = x \div of
    BY DEF Share
<1> HIDE DEF x
<1> QED
    BY <1>1, <1>2, DivUnique

------------------------------------------------------------------------------
(* The principal locked in a position.                                       *)

\* The margin of a perp leg is a whole number of lots; the notional need not be.
MoneyOK(pos) == pos.notional >= 0 /\ pos.margin = pos.perp * PerpCost

\* The reservation of an entry is an amount.
LEMMA CashRequiredNat == CashRequired \in Int /\ CashRequired >= 0
<1>1. Lots \in Int /\ Lots >= 0 /\ DexCost + PerpCost \in Int /\ DexCost + PerpCost >= 0
    BY LotsAssumption, CostAssumption
<1> QED
    BY <1>1, MulPos DEF CashRequired

\* What the fills of an entry lock is covered by what was reserved for it.
LEMMA OpenedMoney ==
    ASSUME NEW d \in Qty, NEW q \in Qty
    PROVE  /\ MoneyOK(Opened(d, q))
           /\ Locked(Opened(d, q)) \in Int
           /\ 0 <= Locked(Opened(d, q)) /\ Locked(Opened(d, q)) <= CashRequired
<1>1. d \in Int /\ q \in Int /\ 0 <= d /\ 0 <= q /\ d <= Lots /\ q <= Lots /\ Lots \in Int
    BY LotsAssumption DEF Qty
<1>2. DexCost \in Int /\ PerpCost \in Int /\ DexCost >= 0 /\ PerpCost >= 0
    BY CostAssumption
<1>3. /\ d * DexCost \in Int /\ 0 <= d * DexCost /\ d * DexCost <= Lots * DexCost
      /\ q * PerpCost \in Int /\ 0 <= q * PerpCost /\ q * PerpCost <= Lots * PerpCost
    <2>1. d * DexCost \in Int /\ d * DexCost >= 0 /\ q * PerpCost \in Int /\ q * PerpCost >= 0
        BY <1>1, <1>2, MulPos
    <2>2. d * DexCost <= Lots * DexCost /\ q * PerpCost <= Lots * PerpCost
        BY <1>1, <1>2, MulMono
    <2> QED
        BY <2>1, <2>2
<1>4. CashRequired = Lots * DexCost + Lots * PerpCost
    BY <1>1, <1>2 DEF CashRequired
<1>5. Opened(d, q).notional = d * DexCost /\ Opened(d, q).margin = q * PerpCost /\ Opened(d, q).perp = q
    BY DEF Opened
<1>6. Lots * DexCost \in Int /\ Lots * PerpCost \in Int
    BY <1>1, <1>2
<1> QED
    BY <1>3, <1>4, <1>5, <1>6 DEF MoneyOK, Locked

\* What a position locks is an amount, never a debt.
LEMMA LockedNat ==
    ASSUME NEW pos \in Position, MoneyOK(pos)
    PROVE  Locked(pos) \in Int /\ 0 <= Locked(pos) /\ pos.margin >= 0
<1>1. pos.perp \in Int /\ pos.perp >= 0 /\ pos.margin \in Int /\ pos.notional \in Int
    BY LotsAssumption DEF Position, Qty
<1>2. pos.perp * PerpCost >= 0
    BY <1>1, MulPos, CostAssumption
<1> QED
    BY <1>1, <1>2 DEF MoneyOK, Locked

\* Settling drops what an empty position still locks, which is at most its notional.
LEMMA SettleMoney ==
    ASSUME NEW pos \in Position, MoneyOK(pos), pos.open
    PROVE  /\ MoneyOK(Settle(pos)) /\ Settle(pos) \in Position
           /\ Locked(Settle(pos)) <= Locked(pos)
           /\ (pos.dex = 0 /\ pos.perp = 0 => pos.notional = 0) => Locked(Settle(pos)) = Locked(pos)
<1>1. Locked(pos) \in Int /\ 0 <= Locked(pos) /\ pos.margin \in Int /\ pos.notional \in Int
    BY LockedNat DEF Position
<1>2. MoneyOK(NoPosition) /\ Locked(NoPosition) = 0
    BY CostAssumption DEF MoneyOK, Locked, NoPosition
<1>3. pos.perp = 0 => pos.margin = 0
    BY CostAssumption DEF MoneyOK
<1> QED
    BY <1>1, <1>2, <1>3, SettleEffect DEF Settle, Locked

\* The margin of what is left of a perp leg, and what its closed part releases.
LEMMA MarginShare ==
    ASSUME NEW pos \in Position, MoneyOK(pos), NEW q \in Int, 0 <= q, q <= pos.perp
    PROVE  /\ Share(pos.margin, q, pos.perp) \in Int
           /\ 0 <= Share(pos.margin, q, pos.perp) /\ Share(pos.margin, q, pos.perp) <= pos.margin
           /\ pos.margin - Share(pos.margin, q, pos.perp) = (pos.perp - q) * PerpCost
<1>1. pos.perp \in Int /\ pos.perp >= 0 /\ pos.margin \in Int /\ pos.margin >= 0
    BY LockedNat, LotsAssumption DEF Position, Qty
<1>2. /\ Share(pos.margin, q, pos.perp) \in Int
      /\ 0 <= Share(pos.margin, q, pos.perp) /\ Share(pos.margin, q, pos.perp) <= pos.margin
    BY <1>1, ShareBounds
<1>3. PerpCost \in Int /\ pos.margin = pos.perp * PerpCost
    BY CostAssumption DEF MoneyOK
<1>4. CASE pos.perp > 0
    <2>1. Share(pos.perp * PerpCost, q, pos.perp) = PerpCost * q
        BY <1>1, <1>3, <1>4, ShareExact
    <2>2. pos.perp * PerpCost - PerpCost * q = (pos.perp - q) * PerpCost
        BY <1>1, <1>3
    <2> QED
        BY <1>2, <1>3, <2>1, <2>2
<1>5. CASE pos.perp = 0
    <2>1. q = 0 /\ pos.margin = 0
        BY <1>1, <1>3, <1>5
    <2>2. Share(pos.margin, q, pos.perp) = 0
        BY <1>5 DEF Share
    <2> QED
        BY <1>2, <1>3, <1>5, <2>1, <2>2
<1> QED
    BY <1>1, <1>4, <1>5

\* close_leg: what it releases and what it leaves locked are no more than what was locked,
\* and exactly that while the position has a DEX leg, or nothing locked for one.
LEMMA LegClosedMoney ==
    ASSUME NEW pos \in Position, MoneyOK(pos), pos.open, NEW v \in {"dex", "perp"}, NEW fill \in Qty
    PROVE  LET new == LegClosed(pos, v, fill)
               released == LegReleases(pos, v, fill) IN
           /\ MoneyOK(new)
           /\ released \in Int /\ 0 <= released
           /\ Locked(new) + released <= Locked(pos)
           /\ pos.dex > 0 \/ pos.notional = 0 => Locked(new) + released = Locked(pos)
           /\ new.open => IF v = "dex" THEN new.perp = pos.perp /\ (pos.perp = 0 => 0 < new.dex)
                                       ELSE /\ new.dex = pos.dex /\ new.perp <= pos.perp
                                            /\ new.notional = pos.notional
<1>1. /\ pos.dex \in Qty /\ pos.perp \in Qty /\ pos.notional \in Int /\ pos.margin \in Int
      /\ pos.notional >= 0 /\ pos.margin >= 0 /\ Qty \subseteq Int
      /\ pos.dex \in Int /\ pos.perp \in Int /\ pos.dex >= 0 /\ pos.perp >= 0
    BY LockedNat, LotsAssumption DEF Position, Qty, MoneyOK
<1>2. CASE v = "dex"
    <2> DEFINE q == Smaller(fill, pos.dex)
               s == Share(pos.notional, q, pos.dex)
               a == pos.dex - q
               n == pos.notional - s
               raw == [pos EXCEPT !.dex = a, !.perp = pos.perp, !.notional = n, !.margin = pos.margin]
    <2>1. q \in Int /\ 0 <= q /\ q <= pos.dex /\ a \in Qty
        BY <1>1, LotsAssumption DEF Smaller, Qty
    <2> HIDE DEF q
    <2>2. s \in Int /\ 0 <= s /\ s <= pos.notional
        BY <1>1, <2>1, ShareBounds
    <2>3. a = 0 /\ pos.dex > 0 => s = pos.notional
        <3> SUFFICES ASSUME a = 0, pos.dex > 0 PROVE s = pos.notional
            OBVIOUS
        <3>1. q = pos.dex /\ pos.dex \in Int
            BY <1>1, <2>1
        <3> QED
            BY <1>1, <3>1, ShareWhole
    <2>4. LegClosed(pos, v, fill) = Settle(raw) /\ LegReleases(pos, v, fill) = s
        <3>1. raw = [pos EXCEPT !.dex = @ - q, !.notional = @ - Share(@, q, pos.dex)]
            BY DEF Position
        <3> QED
            BY <1>2, <3>1 DEF LegClosed, LegReleases, q
    <2> HIDE DEF s
    <2>5. n \in Int /\ n >= 0 /\ pos.notional = n + s
        BY <1>1, <2>2
    <2>6. pos.dex > 0 \/ pos.notional = 0 => (a = 0 => n = 0)
        BY <1>1, <2>2, <2>3
    <2> HIDE DEF a, n, raw
    <2>7. /\ raw \in Position /\ raw.open
          /\ raw.dex = a /\ raw.perp = pos.perp /\ raw.notional = n /\ raw.margin = pos.margin
        BY <1>1, <2>1, <2>5 DEF raw, Position
    <2>8. MoneyOK(raw) /\ Locked(raw) + s = Locked(pos)
        BY <1>1, <2>2, <2>5, <2>7 DEF MoneyOK, Locked
    <2>9. /\ MoneyOK(Settle(raw)) /\ Settle(raw) \in Position
          /\ Locked(Settle(raw)) <= Locked(raw)
          /\ (raw.dex = 0 /\ raw.perp = 0 => raw.notional = 0) => Locked(Settle(raw)) = Locked(raw)
        BY <2>7, <2>8, SettleMoney
    <2>10. Locked(raw) \in Int /\ Locked(Settle(raw)) \in Int
        BY <2>7, <2>8, <2>9, LockedNat
    <2>11. Locked(Settle(raw)) + s <= Locked(pos)
           /\ (pos.dex > 0 \/ pos.notional = 0 => Locked(Settle(raw)) + s = Locked(pos))
        BY <2>2, <2>6, <2>7, <2>8, <2>9, <2>10
    <2>12. Settle(raw).open => Settle(raw).perp = pos.perp /\ (pos.perp = 0 => 0 < Settle(raw).dex)
        <3>1. a \in Int /\ a >= 0
            BY <2>1, LotsAssumption DEF Qty
        <3> QED
            BY <2>7, <3>1 DEF Settle, NoPosition
    <2> HIDE DEF raw
    <2> QED
        BY <1>2, <2>2, <2>4, <2>9, <2>11, <2>12
<1>3. CASE v = "perp"
    <2> DEFINE q == Smaller(fill, pos.perp)
               s == Share(pos.margin, q, pos.perp)
               b == pos.perp - q
               m == pos.margin - s
               raw == [pos EXCEPT !.dex = pos.dex, !.perp = b, !.notional = pos.notional, !.margin = m]
    <2>1. q \in Int /\ 0 <= q /\ q <= pos.perp /\ b \in Qty /\ b <= pos.perp
        BY <1>1, LotsAssumption DEF Smaller, Qty
    <2> HIDE DEF q
    <2>2. s \in Int /\ 0 <= s /\ m = b * PerpCost
        BY <1>1, <2>1, MarginShare
    <2>4. LegClosed(pos, v, fill) = Settle(raw) /\ LegReleases(pos, v, fill) = s
        <3>1. raw = [pos EXCEPT !.perp = @ - q, !.margin = @ - Share(@, q, pos.perp)]
            BY DEF Position
        <3> QED
            BY <1>3, <3>1 DEF LegClosed, LegReleases, q
    <2> HIDE DEF s
    <2>5. m \in Int /\ pos.margin = m + s
        BY <1>1, <2>2
    <2> HIDE DEF b, m, raw
    <2>7. /\ raw \in Position /\ raw.open
          /\ raw.dex = pos.dex /\ raw.perp = b /\ raw.notional = pos.notional /\ raw.margin = m
        BY <1>1, <2>1, <2>5 DEF raw, Position
    <2>8. MoneyOK(raw) /\ Locked(raw) + s = Locked(pos)
        BY <1>1, <2>2, <2>5, <2>7 DEF MoneyOK, Locked
    <2>9. /\ MoneyOK(Settle(raw)) /\ Settle(raw) \in Position
          /\ Locked(Settle(raw)) <= Locked(raw)
          /\ (raw.dex = 0 /\ raw.perp = 0 => raw.notional = 0) => Locked(Settle(raw)) = Locked(raw)
        BY <2>7, <2>8, SettleMoney
    <2>10. Locked(raw) \in Int /\ Locked(Settle(raw)) \in Int
        BY <2>7, <2>8, <2>9, LockedNat
    <2>11. Locked(Settle(raw)) + s <= Locked(pos)
           /\ (pos.dex > 0 \/ pos.notional = 0 => Locked(Settle(raw)) + s = Locked(pos))
        BY <2>2, <2>7, <2>8, <2>9, <2>10
    <2>12. Settle(raw).open => /\ Settle(raw).dex = pos.dex /\ Settle(raw).perp <= pos.perp
                               /\ Settle(raw).notional = pos.notional
        BY <2>1, <2>7 DEF Settle, NoPosition
    <2> HIDE DEF raw
    <2> QED
        BY <1>3, <2>2, <2>4, <2>9, <2>11, <2>12
<1> QED
    BY <1>2, <1>3

\* close_position with both fills, no more sold than bought back: nothing is lost, and a
\* position with no more perp than DEX stays one.
LEMMA BothClosedMoney ==
    ASSUME NEW pos \in Position, MoneyOK(pos), pos.open,
           NEW d \in Qty, NEW f \in Qty, d <= f, 0 < f, f <= pos.perp
    PROVE  LET new == BothClosed(pos, d, f)
               released == BothReleases(pos, f) IN
           /\ MoneyOK(new)
           /\ released \in Int /\ 0 <= released
           /\ Locked(new) + released = Locked(pos)
           /\ new.open /\ pos.perp <= pos.dex => 0 < new.dex /\ new.perp <= new.dex
<1>1. /\ pos.dex \in Qty /\ pos.perp \in Qty /\ pos.notional \in Int /\ pos.margin \in Int
      /\ pos.notional >= 0 /\ pos.margin >= 0 /\ Qty \subseteq Int
      /\ pos.dex \in Int /\ pos.perp \in Int /\ pos.dex >= 0 /\ pos.perp > 0
      /\ d \in Int /\ f \in Int /\ 0 <= d
    BY LockedNat, LotsAssumption DEF Position, Qty, MoneyOK
<1> DEFINE qd == Smaller(d, pos.dex)
           sn == Share(pos.notional, f, pos.perp)
           sm == Share(pos.margin, f, pos.perp)
           a == pos.dex - qd
           b == pos.perp - f
           n == pos.notional - sn
           m == pos.margin - sm
           raw == [pos EXCEPT !.dex = a, !.perp = b, !.notional = n, !.margin = m]
<1>2. /\ a \in Qty /\ a \in Int /\ 0 <= a /\ b \in Qty /\ b \in Int /\ 0 <= b
      /\ pos.perp <= pos.dex => b <= a
    BY <1>1, LotsAssumption DEF Smaller, Qty
<1>3. sn \in Int /\ 0 <= sn /\ sn <= pos.notional
    BY <1>1, ShareBounds
<1>4. b = 0 => sn = pos.notional
    <2> SUFFICES ASSUME b = 0 PROVE sn = pos.notional
        OBVIOUS
    <2>1. f = pos.perp
        BY <1>1
    <2> QED
        BY <1>1, <2>1, ShareWhole
<1>5. sm \in Int /\ 0 <= sm /\ m = b * PerpCost
    BY <1>1, MarginShare
<1>6. BothReleases(pos, f) = sn + sm
    <2>1. Smaller(f, pos.perp) = f
        BY <1>1 DEF Smaller
    <2>2. Locked(pos) = pos.notional + pos.perp * PerpCost /\ pos.margin = pos.perp * PerpCost
        BY DEF MoneyOK, Locked
    <2> DEFINE x == pos.notional
               w == pos.perp
    <2>3. x \in Int /\ w \in Int /\ w > 0 /\ f \in Int
        BY <1>1
    <2> HIDE DEF x, w
    <2>4. Share(x + w * PerpCost, f, w) = Share(x, f, w) + Share(w * PerpCost, f, w)
        BY <2>3, SharesAdd
    <2>5. BothReleases(pos, f) = Share(Locked(pos), f, pos.perp)
        BY <1>1, <2>1 DEF BothReleases
    <2> QED
        BY <2>2, <2>4, <2>5 DEF x, w
<1>7. BothClosed(pos, d, f) = Settle(raw)
    <2>1. Smaller(f, pos.perp) = f
        BY <1>1 DEF Smaller
    <2> DEFINE kept(x) == IF pos.perp <= 0 THEN 0 ELSE x - Share(x, f, pos.perp)
    <2>2. raw = [pos EXCEPT !.dex = @ - qd, !.perp = @ - f, !.notional = kept(@), !.margin = kept(@)]
        <3>1. kept(pos.notional) = n /\ kept(pos.margin) = m
            BY <1>1
        <3> HIDE DEF kept, n, m
        <3> QED
            BY <3>1 DEF Position
    <2> QED
        BY <2>1, <2>2 DEF BothClosed
<1> HIDE DEF qd, sn, sm
<1>8. /\ n \in Int /\ n >= 0 /\ pos.notional = n + sn
      /\ m \in Int /\ pos.margin = m + sm
      /\ b = 0 => n = 0
    BY <1>1, <1>3, <1>4, <1>5
<1> HIDE DEF a, b, n, m, raw
<1>9. /\ raw \in Position /\ raw.open
      /\ raw.dex = a /\ raw.perp = b /\ raw.notional = n /\ raw.margin = m
    BY <1>2, <1>8 DEF raw, Position
<1>10. MoneyOK(raw) /\ Locked(raw) + (sn + sm) = Locked(pos)
    BY <1>3, <1>5, <1>8, <1>9 DEF MoneyOK, Locked
<1>11. /\ MoneyOK(Settle(raw)) /\ Settle(raw) \in Position
       /\ Locked(Settle(raw)) = Locked(raw)
    BY <1>8, <1>9, <1>10, SettleMoney
<1>12. Locked(raw) \in Int
    BY <1>9, <1>10, LockedNat
<1>13. Settle(raw).open /\ pos.perp <= pos.dex => 0 < Settle(raw).dex /\ Settle(raw).perp <= Settle(raw).dex
    BY <1>2, <1>9 DEF Settle, NoPosition
<1> HIDE DEF raw
<1> QED
    BY <1>3, <1>5, <1>6, <1>7, <1>10, <1>11, <1>12, <1>13
=============================================================================

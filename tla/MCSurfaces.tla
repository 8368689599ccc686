----------------------------- MODULE MCSurfaces -----------------------------
(* The instance of Surfaces for TLC: the values that are more than names and *)
(* numbers.  Surfaces.cfg gives the rest.                                    *)
EXTENDS Surfaces

\* The bridge: intents within and beyond its own limits and the gate's, with
\* and without a confirmation, and calls past routeOrder.
Route(s, c, l, f) == [kind |-> "route", symbol |-> s, capital |-> c, leverage |-> l, confirm |-> f]
Unset == 1000
Bodies ==
    {Route("ok", 100, 3, "yes"), Route("ok", 100, Unset, "no"),
     Route("ok", 10, 4, "yes"), Route("ok", 5, 1, "yes"),
     [kind |-> "garbage"],
     [kind |-> "call", tool |-> "propose", leverage |-> 4],
     [kind |-> "call", tool |-> "execute"]}
    \cup {[kind |-> "upstream", name |-> n] : n \in {"get_mark", "get_place", "wallet"}}

\* Official names that are alternatives of each other; a server that lists none
\* of them, or the second.
OfficialAlias == "get_mark" :> <<"o1", "o2">>
OfficialTools == {{}, {"o2"}}

\* The edge: paying, negative and zero funding, carry that repays at once, late
\* and never, an interval of four hours, settlements overdue and ahead.
Quote(b, f, r, i, x) ==
    [basis |-> b, fee |-> f, impact |-> 1, slip |-> 2, taker |-> 4, gas |-> 1,
     exit |-> x, rate |-> r, iv |-> i]
Markets ==
    {Quote(2, 5, 0, 8, 0), Quote(-9, 5, 2, 8, 0), Quote(30, 5, 3, 4, 2),
     Quote(1, 5, -1, 8, 0), Quote(-60, 5, 1, 8, 1)}
NextSettlements == {-9, 0, 3, 8}
=============================================================================

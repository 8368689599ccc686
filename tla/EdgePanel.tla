----------------------------- MODULE EdgePanel -----------------------------
(***************************************************************************)
(* The edge panel (ui/components/EdgeWaterfall.tsx): the snapshot's edge,  *)
(* or the answer of GET /api/market for the horizon the user picked.       *)
(*                                                                         *)
(* Every snapshot is a new edge object, so every snapshot asks again, and  *)
(* what an earlier request brings back is dropped.  Only the request that  *)
(* still counts is part of the state.                                      *)
(***************************************************************************)
EXTENDS EdgeMath

CONSTANTS
    Quotes,      \* the markets: costs, basis, funding rate and interval
    Offsets,     \* hours to the published next settlement
    Horizons,    \* the two buttons
    ConfiguredH  \* the engine's own horizon, that of the snapshot's edge

EdgePanelAssumption ==
    /\ EdgeMathAssumption
    /\ \A q \in Quotes :
        /\ {q.basis, q.fee, q.impact, q.slip, q.taker, q.gas, q.exit, q.rate} \subseteq Int
        /\ q.iv \in Nat \ {0}
    /\ Offsets \subseteq Int
    /\ Horizons \subseteq 1..MaxCurveH /\ Horizons # {}
    /\ ConfiguredH \in Nat \ {0}

VARIABLES
    edge,     \* props: the snapshot's edge, or no edge yet
    isMock,   \* props: the bundled snapshot is shown
    horizon,  \* the horizon picked
    asked,    \* the horizon of the live request, if there is one
    alt,      \* the last answer taken
    altErr    \* an error was shown

pvars == <<edge, isMock, horizon, asked, alt, altErr>>

\* What the backend may compute now.  The exchange publishes the next
\* settlement at most one interval ahead.
MarketEdges(h) ==
    {NetEdge(m[1], m[2], h) : m \in {n \in Quotes \X Offsets : n[2] <= n[1].iv}}

NoEdge == [horizon |-> None]
NoAlt  == [edge |-> NoEdge, rows |-> <<>>, hz |-> {}]

\* GET /api/market?horizon_h=: the edge, its rows and its analysis together.
Answer(e) == [edge |-> e, rows |-> EdgeComponents(e), hz |-> {HorizonAnalysis(e)}]

TypeOK ==
    /\ edge = NoEdge \/ edge \in MarketEdges(ConfiguredH)
    /\ isMock \in BOOLEAN /\ altErr \in BOOLEAN
    /\ horizon \in Horizons
    /\ asked \in Horizons \cup {None}
    /\ alt.edge = NoEdge \/ \E h \in Horizons : alt.edge \in MarketEdges(h)

Init ==
    /\ edge = NoEdge /\ isMock = FALSE
    /\ horizon = Max(Horizons)
    /\ asked = None /\ alt = NoAlt /\ altErr = FALSE

\* The effect on [horizon, mock, edge]: forget everything, or ask anew and
\* keep showing the old answer meanwhile.
Effect ==
    IF isMock' \/ edge' = NoEdge
    THEN asked' = None /\ alt' = NoAlt /\ altErr' = FALSE
    ELSE asked' = horizon' /\ UNCHANGED <<alt, altErr>>

Frame ==
    /\ edge' \in MarketEdges(ConfiguredH) \cup {NoEdge}
    /\ isMock' = FALSE
    /\ UNCHANGED horizon
    /\ Effect

ShowMock ==
    /\ ~isMock
    /\ isMock' = TRUE
    /\ edge' \in MarketEdges(ConfiguredH)
    /\ UNCHANGED horizon
    /\ Effect

PickHorizon(h) ==
    /\ h # horizon
    /\ horizon' = h
    /\ UNCHANGED <<edge, isMock>>
    /\ Effect

\* An answer without an edge (quotes missing by now) clears the view; none
\* clears an earlier error.
MarketLands ==
    /\ asked # None
    /\ \/ \E e \in MarketEdges(asked) : alt' = Answer(e)
       \/ alt' = NoAlt
    /\ asked' = None
    /\ UNCHANGED <<edge, isMock, horizon, altErr>>

\* The old answer stays on screen.
MarketFails ==
    /\ asked # None
    /\ altErr' = TRUE /\ asked' = None
    /\ UNCHANGED <<edge, isMock, horizon, alt>>

Next ==
    \/ Frame \/ ShowMock
    \/ \E h \in Horizons : PickHorizon(h)
    \/ MarketLands \/ MarketFails

Spec == Init /\ [][Next]_pvars

-----------------------------------------------------------------------------
(* What the panel draws. *)

FromApi == alt # NoAlt /\ alt.edge.horizon = horizon

ShownEdge == IF FromApi THEN alt.edge ELSE edge
ShownRows == IF FromApi THEN alt.rows ELSE EdgeComponents(edge)
ShownHz   == IF FromApi THEN alt.hz ELSE {HorizonFallback(edge)}

-----------------------------------------------------------------------------
(* Properties. *)

\* The bars drawn end where the net bar ends.
RowsAddUp ==
    LET bars == Bars(ShownRows) last == Len(bars)
    IN  bars[last].to = bars[last - 1].to /\ bars[last].to = ShownEdge.net

\* Whatever mixture of snapshots, horizons and late answers led here, the bars
\* add up, the panel's verdict is the same wherever it was computed, the
\* settlements of its verdict are where its curve crosses zero, and they differ
\* from the breakdown's count as the note under the curve says.
EdgeViewsAgree ==
    ShownEdge # NoEdge => RowsAddUp /\ \A a \in ShownHz :
        /\ Mirrors(a, HorizonFallback(ShownEdge))
        /\ BreakevenOnCurve(a)
        /\ CountsAgree(a)
=============================================================================

------------------------- MODULE DurableStateProofs -------------------------
(* The theorems of DurableState: whatever crashed, stopped, restarted or was     *)
(* lost, what the engine holds and what its two files hold fit each other.       *)
EXTENDS DurableState, PortfolioProofs, SequenceTheorems

------------------------------------------------------------------------------
(* What can be left of a method.                                             *)

\* The writes still to do, in every state.
Shapes == {<<>>, <<"switch">>, <<"gate">>, <<"alarm">>, <<"book">>, <<"gate", "book">>,
           <<"gate", "book", "alarm">>, <<"book", "alarm">>}

\* The book's file is still to be written.
Owes(q) == q \in {<<"book">>, <<"gate", "book">>, <<"gate", "book", "alarm">>, <<"book", "alarm">>}

\* The head and the tail of each shape.
LEMMA ShapeStep ==
    ASSUME NEW q \in Shapes, q # <<>>
    PROVE  /\ Tail(q) \in Shapes /\ Head(q) \in Writes
           /\ Tail(q) # <<"switch">>
           /\ Head(q) = "book" => Owes(q) /\ ~Owes(Tail(q))
           /\ Head(q) # "book" => (Owes(Tail(q)) <=> Owes(q))
           /\ Head(q) \in {"switch", "alarm"} => Tail(q) = <<>>
           /\ q = <<"switch">> => Head(q) = "switch"
           /\ Tail(q) # <<>> /\ Head(Tail(q)) = "book" => Head(q) = "gate"
<1>1. CASE q = <<"switch">>
    BY <1>1 DEF Shapes, Owes, Writes
<1>2. CASE q = <<"gate">>
    BY <1>2 DEF Shapes, Owes, Writes
<1>3. CASE q = <<"alarm">>
    BY <1>3 DEF Shapes, Owes, Writes
<1>4. CASE q = <<"book">>
    BY <1>4 DEF Shapes, Owes, Writes
<1>5. CASE q = <<"gate", "book">>
    BY <1>5 DEF Shapes, Owes, Writes
<1>6. CASE q = <<"gate", "book", "alarm">>
    BY <1>6 DEF Shapes, Owes, Writes
<1>7. CASE q = <<"book", "alarm">>
    BY <1>7 DEF Shapes, Owes, Writes
<1> QED
    BY <1>1, <1>2, <1>3, <1>4, <1>5, <1>6, <1>7 DEF Shapes

\* The shapes the methods start with.
LEMMA ShapeBegin ==
    /\ \A after \in {<<>>, <<"alarm">>} :
        LET q == <<"gate", "book">> \o after IN
        q \in Shapes /\ Owes(q) /\ q # <<>> /\ Head(q) = "gate" /\ q # <<"switch">>
    /\ <<>> \in Shapes /\ ~Owes(<<>>) /\ <<>> # <<"switch">>
    /\ <<"switch">> \in Shapes /\ ~Owes(<<"switch">>) /\ <<"switch">> # <<>> /\ Head(<<"switch">>) = "switch"
    /\ <<"gate">> \in Shapes /\ ~Owes(<<"gate">>) /\ <<"gate">> # <<"switch">>
       /\ <<"gate">> # <<>> /\ Head(<<"gate">>) = "gate"
    /\ <<"gate", "book">> \in Shapes /\ Owes(<<"gate", "book">>) /\ <<"gate", "book">> # <<"switch">>
       /\ <<"gate", "book">> # <<>> /\ Head(<<"gate", "book">>) = "gate"
<1>1. <<"gate", "book">> \o <<>> = <<"gate", "book">>
    OBVIOUS
<1>2. <<"gate", "book">> \o <<"alarm">> = <<"gate", "book", "alarm">>
    <2> DEFINE s == <<"gate", "book">>
               t == <<"alarm">>
               q == <<"gate", "book", "alarm">>
    <2>1. s \in Seq(Writes) /\ t \in Seq(Writes) /\ q \in Seq(Writes)
        BY DEF Writes
    <2>2. Len(s) = 2 /\ Len(t) = 1 /\ Len(q) = 3
        OBVIOUS
    <2>3. s[1] = q[1] /\ s[2] = q[2] /\ t[1] = q[3]
        OBVIOUS
    <2> HIDE DEF s, t, q
    <2>4. /\ s \o t \in Seq(Writes) /\ Len(s \o t) = 3
          /\ (s \o t)[1] = s[1] /\ (s \o t)[2] = s[2] /\ (s \o t)[3] = t[1]
        <3>1. /\ s \o t \in Seq(Writes) /\ Len(s \o t) = Len(s) + Len(t)
              /\ \A i \in 1 .. Len(s) + Len(t) :
                    (s \o t)[i] = IF i <= Len(s) THEN s[i] ELSE t[i - Len(s)]
            BY <2>1, ConcatProperties
        <3> DEFINE x == s \o t
        <3> HIDE DEF x
        <3>2. \A i \in 1 .. 3 : x[i] = IF i <= 2 THEN s[i] ELSE t[i - 2]
            BY <2>2, <3>1 DEF x
        <3>3. x[1] = s[1] /\ x[2] = s[2] /\ x[3] = t[1]
            BY <3>2
        <3> QED
            BY <2>2, <3>1, <3>3 DEF x
    <2>5. \A i \in 1 .. 3 : (s \o t)[i] = q[i]
        <3>1. \A i \in 1 .. 3 : i = 1 \/ i = 2 \/ i = 3
            OBVIOUS
        <3> QED
            BY <2>3, <2>4, <3>1
    <2> DEFINE x == s \o t
    <2>6. x \in Seq(Writes) /\ q \in Seq(Writes) /\ Len(x) = Len(q) /\ \A i \in 1 .. Len(x) : x[i] = q[i]
        BY <2>1, <2>2, <2>4, <2>5
    <2> HIDE DEF x
    <2>7. x = q
        BY <2>6, SeqEqual
    <2> QED
        BY <2>7 DEF x, s, t, q
<1>3. ASSUME NEW q \in {<<"gate", "book">>, <<"gate", "book", "alarm">>}
      PROVE  q \in Shapes /\ Owes(q) /\ q # <<>> /\ Head(q) = "gate" /\ q # <<"switch">>
    BY <1>3 DEF Shapes, Owes
<1>4. <<"switch">> \in Shapes /\ ~Owes(<<"switch">>) /\ <<"switch">> # <<>> /\ Head(<<"switch">>) = "switch"
    BY DEF Shapes, Owes
<1>5. /\ <<"gate">> \in Shapes /\ ~Owes(<<"gate">>) /\ <<"gate">> # <<"switch">>
      /\ <<"gate">> # <<>> /\ Head(<<"gate">>) = "gate"
    BY DEF Shapes, Owes
<1>6. <<>> \in Shapes /\ ~Owes(<<>>) /\ <<>> # <<"switch">>
    BY DEF Shapes, Owes
<1> QED
    BY <1>1, <1>2, <1>3, <1>4, <1>5, <1>6

\* Every shape is a sequence of writes.
LEMMA ShapeType == Shapes \subseteq Seq(Writes)
BY DEF Shapes, Writes

------------------------------------------------------------------------------
(* The steps, with what opening and closing do to a position.                *)

\* A position has no more perp than DEX leg, or nothing on the DEX at all.
LongOK(pos) == pos.open => \/ 0 < pos.dex /\ pos.perp <= pos.dex
                           \/ pos.dex = 0 /\ pos.notional = 0

Sound(pos) == MoneyOK(pos) /\ LongOK(pos) /\ (~pos.open => pos = NoPosition)

\* The positions of the book and of its file are sound.
PositionsInv == \A p \in Plans : Sound(book[p]) /\ Sound(bookFile.book[p])

Alarms == {<<>>, <<"alarm">>}

\* An entry ends with a sound open position that locks no more than was reserved.
Opens ==
    \E pos \in Position, registered \in Qty, after \in Alarms :
        /\ Sound(pos) /\ pos.open /\ Locked(pos) <= CashRequired
        /\ Open(pos, registered, after)

\* A close hands back exactly what it takes out of the position.
Closes ==
    \E p \in Plans, rest \in Position, released \in Int, registered \in Qty, after \in Alarms :
        /\ book[p].open /\ Sound(rest) /\ 0 <= released
        /\ Locked(rest) + released = Locked(book[p])
        /\ Close(p, rest, released, registered, after)

\* No position is a sound one.
LEMMA NoPositionSound == Sound(NoPosition) /\ Locked(NoPosition) = 0
<1>1. MoneyOK(NoPosition) /\ Locked(NoPosition) = 0
    BY CostAssumption DEF MoneyOK, Locked, NoPosition
<1>2. LongOK(NoPosition)
    BY DEF LongOK, NoPosition
<1> QED
    BY <1>1, <1>2 DEF Sound

\* What an entry opens is sound: the perp never exceeds the DEX leg of a pair, and a naked
\* perp leg locks no notional.
LEMMA OpensSound ==
    ASSUME \/ \E dex, perp \in 1 .. Lots : OpenPosition(dex, perp)
           \/ \E v \in {"dex", "perp"}, q \in 1 .. Lots : OpenNakedLeg(v, q)
    PROVE  Opens
<1>0. 0 \in Qty /\ \A x \in 1 .. Lots : x \in Qty /\ x \in Int /\ 0 < x
    BY LotsAssumption DEF Qty
<1>1. CASE \E dex, perp \in 1 .. Lots : OpenPosition(dex, perp)
    <2>1. PICK dex \in 1 .. Lots, perp \in 1 .. Lots : OpenPosition(dex, perp)
        BY <1>1
    <2> DEFINE pos == Opened(dex, perp)
    <2>2. /\ pos \in Position /\ pos.open /\ pos.dex = dex /\ pos.perp = perp
          /\ MoneyOK(pos) /\ Locked(pos) <= CashRequired
        BY <1>0, OpenedType, OpenedMoney
    <2>3. perp <= dex /\ Open(pos, perp, <<>>)
        BY <2>1 DEF OpenPosition
    <2> HIDE DEF pos
    <2>4. Sound(pos)
        BY <1>0, <2>2, <2>3 DEF Sound, LongOK
    <2> QED
        BY <1>0, <2>2, <2>3, <2>4 DEF Opens, Alarms
<1>2. CASE \E v \in {"dex", "perp"}, q \in 1 .. Lots : OpenNakedLeg(v, q)
    <2>1. PICK v \in {"dex", "perp"}, q \in 1 .. Lots : OpenNakedLeg(v, q)
        BY <1>2
    <2> DEFINE pos == OpenedNaked(v, q)
    <2>2. Open(pos, q, <<"alarm">>)
        BY <2>1 DEF OpenNakedLeg
    <2>3. pos = IF v = "dex" THEN Opened(q, 0) ELSE Opened(0, q)
        BY DEF OpenedNaked
    <2> HIDE DEF pos
    <2>4. pos \in Position /\ pos.open /\ MoneyOK(pos) /\ Locked(pos) <= CashRequired
        BY <1>0, <2>3, OpenedType, OpenedMoney
    <2>5. IF v = "dex" THEN pos.dex = q /\ pos.perp = 0 ELSE pos.dex = 0
        BY <1>0, <2>3, OpenedType
    <2>6. v # "dex" => pos.notional = 0
        BY <2>3, CostAssumption DEF Opened
    <2>7. Sound(pos)
        BY <1>0, <2>4, <2>5, <2>6 DEF Sound, LongOK
    <2> QED
        BY <1>0, <2>2, <2>4, <2>7 DEF Opens, Alarms
<1> QED
    BY <1>1, <1>2

\* Every close of a sound position leaves a sound one, and no principal on the way.
LEMMA ClosesSound ==
    ASSUME TypeOK, PositionsInv, Unwinds
    PROVE  Closes
<1>0. \A x \in 1 .. Lots : x \in Qty /\ x \in Int /\ 0 < x
    BY LotsAssumption DEF Qty
<1>1. PICK p \in Plans, q \in 1 .. Lots : CloseBoth(p, q) \/ CloseNakedLeg(p, q) \/ HalfClose(p, q)
    BY DEF Unwinds
<1>2. /\ book[p] \in Position /\ book[p].open /\ Sound(book[p]) /\ MoneyOK(book[p])
    <2>1. book[p].open
        BY <1>1 DEF CloseBoth, CloseNakedLeg, HalfClose
    <2> QED
        BY <2>1 DEF TypeOK, PositionsInv, Sound
<1> DEFINE pos == book[p]
<1>3. /\ pos \in Position /\ pos.open /\ MoneyOK(pos) /\ LongOK(pos)
      /\ pos.dex \in Int /\ pos.perp \in Int /\ pos.dex >= 0 /\ pos.perp >= 0
    BY <1>2, LotsAssumption DEF Sound, Position, Qty
<1>4. CASE CloseBoth(p, q)
    <2> DEFINE rest == BothClosed(pos, q, q)
               released == BothReleases(pos, q)
    <2>1. ~OneLegged(pos) /\ q <= pos.perp /\ Close(p, rest, released, rest.perp, <<>>)
        BY <1>4 DEF CloseBoth
    <2>2. pos.dex > 0 /\ pos.perp <= pos.dex
        BY <1>3, <2>1 DEF OneLegged, LongOK
    <2>3. rest \in Position /\ (~rest.open => rest = NoPosition)
        BY <1>0, <1>3, BothClosedEffect
    <2>4. /\ MoneyOK(rest) /\ released \in Int /\ 0 <= released
          /\ Locked(rest) + released = Locked(pos)
          /\ rest.open => 0 < rest.dex /\ rest.perp <= rest.dex
        BY <1>0, <1>3, <2>1, <2>2, BothClosedMoney
    <2> HIDE DEF rest, released
    <2>5. Sound(rest) /\ rest.perp \in Qty
        BY <2>3, <2>4 DEF Sound, LongOK, Position
    <2> QED
        BY <1>2, <2>1, <2>3, <2>4, <2>5 DEF Closes, Alarms
<1>5. ASSUME NEW v \in {"dex", "perp"}, NEW registered \in Qty, NEW after \in Alarms,
             v = "dex" => 0 < pos.dex /\ pos.perp = 0,
             Close(p, LegClosed(pos, v, q), LegReleases(pos, v, q), registered, after)
      PROVE  Closes
    <2> DEFINE rest == LegClosed(pos, v, q)
               released == LegReleases(pos, v, q)
    <2>1. rest \in Position /\ (~rest.open => rest = NoPosition)
        BY <1>0, <1>3, LegClosedEffect
    <2>2. pos.dex > 0 \/ pos.notional = 0
        BY <1>3 DEF LongOK
    <2>3. /\ MoneyOK(rest) /\ released \in Int /\ 0 <= released
          /\ Locked(rest) + released = Locked(pos)
          /\ rest.open => IF v = "dex" THEN rest.perp = pos.perp /\ (pos.perp = 0 => 0 < rest.dex)
                                       ELSE /\ rest.dex = pos.dex /\ rest.perp <= pos.perp
                                            /\ rest.notional = pos.notional
        BY <1>0, <1>3, <2>2, LegClosedMoney
    <2>4. Close(p, rest, released, registered, after)
        BY <1>5
    <2> HIDE DEF rest, released
    <2>5. Sound(rest)
        <3>1. rest.perp \in Int /\ rest.dex \in Int
            BY <2>1, LotsAssumption DEF Position, Qty
        <3>2. LongOK(rest)
            BY <1>3, <1>5, <2>3, <3>1 DEF LongOK
        <3> QED
            BY <2>1, <2>3, <3>2 DEF Sound
    <2> QED
        BY <1>2, <2>1, <2>3, <2>4, <2>5 DEF Closes
<1>6. CASE CloseNakedLeg(p, q)
    <2> DEFINE v == IF pos.dex > 0 THEN "dex" ELSE "perp"
    <2>1. /\ OneLegged(pos)
          /\ Close(p, LegClosed(pos, v, q), LegReleases(pos, v, q), LegRegistered(LegClosed(pos, v, q)), <<>>)
        BY <1>6 DEF CloseNakedLeg
    <2>2. v \in {"dex", "perp"} /\ (v = "dex" => 0 < pos.dex /\ pos.perp = 0)
        BY <1>3, <2>1 DEF OneLegged
    <2> HIDE DEF v
    <2>3. LegRegistered(LegClosed(pos, v, q)) \in Qty
        BY <1>0, <1>3, <2>2, LegClosedEffect
    <2>4. <<>> \in Alarms
        BY DEF Alarms
    <2> QED
        BY <1>5, <2>1, <2>2, <2>3, <2>4
<1>7. CASE HalfClose(p, q)
    <2>1. Close(p, LegClosed(pos, "perp", q), LegReleases(pos, "perp", q),
                LegRegistered(LegClosed(pos, "perp", q)), <<"alarm">>)
        BY <1>7 DEF HalfClose
    <2>2. LegRegistered(LegClosed(pos, "perp", q)) \in Qty
        BY <1>0, <1>3, LegClosedEffect
    <2>3. <<"alarm">> \in Alarms
        BY DEF Alarms
    <2> QED
        BY <1>5, <2>1, <2>2, <2>3
<1> QED
    BY <1>1, <1>4, <1>6, <1>7

\* Every step is one of these.
Moves ==
    \/ \E p \in Plans : BeginEntry(p)
    \/ AbandonEntry \/ LoseEntry \/ Opens \/ Closes
    \/ \E k, h \in BOOLEAN : SetSwitches(k, h)
    \/ WriteGate \/ WriteBook \/ LoseBookWrite \/ LoseGateWrite
    \/ Stop \/ Exit \/ Crash \/ Start

\* Every step of DurableState is one of the moves above.
LEMMA NextMoves ==
    ASSUME TypeOK, PositionsInv, Next
    PROVE  Moves
<1>1. Entries => Moves
    BY OpensSound DEF Entries, Moves
<1>2. Unwinds => Moves
    BY ClosesSound DEF Moves
<1>3. (\E on \in BOOLEAN : OperatorKill(on)) \/ Halt \/ ResetHalt => Moves
    <2>1. kill \in BOOLEAN /\ halted \in BOOLEAN
        BY DEF TypeOK
    <2> QED
        BY <2>1 DEF Moves, OperatorKill, Halt, ResetHalt
<1> QED
    BY <1>1, <1>2, <1>3 DEF Next, Moves

------------------------------------------------------------------------------
(* Types and the writes that are due.                                        *)

\* What is due has one of the shapes; while the engine is down nothing is, and its memory
\* is empty; when the book's write is next, the gate's file is up to date.
PendingInv ==
    /\ pending \in Shapes
    /\ up = "down" => /\ pending = <<>> /\ entry = None
                      /\ registry = EmptyRegistry /\ book = EmptyBook
    /\ pending # <<>> /\ Head(pending) = "book" => gateFile.registry = registry

\* The values the constructors start with.
LEMMA EmptyTypes ==
    /\ EmptyBook \in [Plans -> Position] /\ EmptyRegistry \in [Plans -> Qty \cup {Unregistered}]
    /\ \A p \in Plans : EmptyBook[p] = NoPosition /\ EmptyRegistry[p] = Unregistered
    /\ CashRequired \in Int /\ 0 <= CashRequired /\ Capital \in Nat
BY NoPositionType, CashRequiredNat, CashAssumption DEF EmptyBook, EmptyRegistry

\* Registering the positions of the book's file with the gate.
LEMMA ReregisteredType ==
    ASSUME NEW saved \in [Plans -> Qty \cup {Unregistered}], NEW positions \in [Plans -> Position]
    PROVE  /\ Reregistered(saved, positions) \in [Plans -> Qty \cup {Unregistered}]
           /\ \A p \in Plans : Reregistered(saved, positions)[p] # Unregistered
                  <=> saved[p] # Unregistered \/ positions[p].open
<1>1. \A p \in Plans : positions[p].perp \in Qty /\ positions[p].perp # Unregistered
    BY LotsAssumption DEF Position, Qty, Unregistered
<1> QED
    BY <1>1 DEF Reregistered

\* A first start: empty files, an empty book, nothing left to write.
LEMMA TypesBegin == Init => TypeOK /\ PendingInv
<1> SUFFICES ASSUME Init PROVE TypeOK /\ PendingInv
    OBVIOUS
<1>1. pending \in Seq(Writes) /\ pending \in Shapes
    BY ShapeBegin, ShapeType DEF Init
<1>2. 0 \in Nat /\ 0 \in 0 .. MaxCrashes /\ 0 \in 0 .. MaxLost
    BY BoundAssumption
<1>3. /\ gateFile \in GateFile /\ bookFile \in BookFile /\ sworn \in Switches
    BY EmptyTypes, <1>2 DEF Init, GateFile, BookFile, Switches
<1> QED
    BY <1>1, <1>2, <1>3, EmptyTypes DEF Init, TypeOK, PendingInv

\* What the process forgets when it ends.
Forgotten ==
    /\ entry' = None /\ pending' = <<>> /\ pending' \in Shapes
    /\ book' = EmptyBook /\ book' \in [Plans -> Position]
    /\ free' = Capital /\ reserved' = 0 /\ free' \in Nat /\ reserved' \in Nat
    /\ registry' = EmptyRegistry /\ registry' \in [Plans -> Qty \cup {Unregistered}]
    /\ kill' \in BOOLEAN /\ halted' \in BOOLEAN

\* What a crash or a stop leaves in memory is typed.
LEMMA ForgetTypes == ASSUME Forget PROVE Forgotten
<1>1. pending' = <<>> /\ pending' \in Shapes
    BY ShapeBegin DEF Forget
<1>2. book' = EmptyBook /\ book' \in [Plans -> Position]
    BY EmptyTypes DEF Forget
<1>3. registry' = EmptyRegistry /\ registry' \in [Plans -> Qty \cup {Unregistered}]
    BY EmptyTypes DEF Forget
<1>4. free' = Capital /\ reserved' = 0 /\ free' \in Nat /\ reserved' \in Nat
    BY CashAssumption DEF Forget
<1>5. kill' \in BOOLEAN /\ halted' \in BOOLEAN /\ entry' = None
    BY DEF Forget
<1> QED
    BY <1>1, <1>2, <1>3, <1>4, <1>5 DEF Forgotten

\* The plan an entry is for carries the reservation made for it, and no position yet; a
\* position carries the id of a plan given out.
HeldInv ==
    /\ entry # None => entry \in used /\ ~book[entry].open /\ CashRequired <= reserved
    /\ \A p \in Plans : book[p].open \/ bookFile.book[p].open => p \in used

\* Every step keeps the types and the bookkeeping of what is left to write.
LEMMA TypesPreserved ==
    ASSUME TypeOK, PendingInv, HeldInv, Moves
    PROVE  TypeOK' /\ PendingInv'
<1>0. /\ CashRequired \in Int /\ 0 <= CashRequired /\ Capital \in Int
      /\ free \in Int /\ reserved \in Int /\ 0 <= free /\ 0 <= reserved
      /\ Smaller(CashRequired, reserved) \in Int /\ 0 <= Smaller(CashRequired, reserved)
      /\ Smaller(CashRequired, reserved) <= reserved /\ pending \in Shapes /\ Shapes \subseteq Seq(Writes)
    BY EmptyTypes, ShapeType DEF TypeOK, PendingInv, Smaller
<1>1. CASE \E p \in Plans : BeginEntry(p)
    <2>1. PICK p \in Plans : BeginEntry(p)
        BY <1>1
    <2>2. free' \in Nat /\ reserved' \in Nat
        BY <1>0, <2>1 DEF BeginEntry
    <2> QED
        BY <1>0, <2>1, <2>2 DEF BeginEntry, Idle, files, TypeOK, PendingInv
<1>2. CASE AbandonEntry
    <2>1. free' \in Nat /\ reserved' \in Nat
        BY <1>0, <1>2 DEF AbandonEntry
    <2> QED
        BY <1>0, <1>2, <2>1 DEF AbandonEntry, Idle, files, history, TypeOK, PendingInv
<1>3. CASE LoseEntry
    BY <1>0, <1>3, ShapeBegin DEF LoseEntry, Idle, files, history, TypeOK, PendingInv
<1>4. CASE Opens
    <2>1. PICK pos \in Position, registered \in Qty, after \in Alarms :
               Locked(pos) <= CashRequired /\ Open(pos, registered, after)
        BY <1>4 DEF Opens
    <2>2. /\ up # "down" /\ up' = up /\ entry' = None /\ entry \in Plans
          /\ book' = [book EXCEPT ![entry] = pos] /\ registry' = [registry EXCEPT ![entry] = registered]
          /\ pending' = <<"gate", "book">> \o after
          /\ reserved' = reserved - Smaller(CashRequired, reserved)
          /\ free' = free + Smaller(CashRequired, reserved) - Locked(pos)
          /\ UNCHANGED <<kill, halted, files, history>>
        BY <2>1 DEF Open, Idle, TypeOK
    <2>3. reserved' \in Nat /\ free' \in Nat
        <3>1. Smaller(CashRequired, reserved) = CashRequired
            BY <2>2, NoneAssumption DEF HeldInv, Smaller
        <3>2. Locked(pos) \in Int
            BY LockedType
        <3> QED
            BY <1>0, <2>1, <2>2, <3>1, <3>2
    <2>4. pending' \in Shapes /\ pending' # <<>> /\ Head(pending') = "gate"
        BY <2>2, ShapeBegin DEF Alarms
    <2>5. book' \in [Plans -> Position] /\ registry' \in [Plans -> Qty \cup {Unregistered}]
        BY <2>2 DEF TypeOK
    <2> QED
        BY <1>0, <2>2, <2>3, <2>4, <2>5 DEF files, history, TypeOK, PendingInv
<1>5. CASE Closes
    <2>1. PICK p \in Plans, rest \in Position, released \in Int, registered \in Qty, after \in Alarms :
               0 <= released /\ Close(p, rest, released, registered, after)
        BY <1>5 DEF Closes
    <2>2. /\ up # "down" /\ up' = up /\ entry' = entry
          /\ book' = [book EXCEPT ![p] = rest] /\ free' = free + released
          /\ registry' = [registry EXCEPT ![p] = IF rest.open THEN registered ELSE Unregistered]
          /\ pending' = <<"gate", "book">> \o after
          /\ UNCHANGED <<reserved, kill, halted, files, history>>
        BY <2>1 DEF Close, Idle
    <2>3. free' \in Nat
        BY <1>0, <2>1, <2>2
    <2>4. pending' \in Shapes /\ pending' # <<>> /\ Head(pending') = "gate"
        BY <2>2, ShapeBegin DEF Alarms
    <2>5. book' \in [Plans -> Position] /\ registry' \in [Plans -> Qty \cup {Unregistered}]
        BY <2>2 DEF TypeOK
    <2> QED
        BY <1>0, <2>2, <2>3, <2>4, <2>5 DEF files, history, TypeOK, PendingInv
<1>6. CASE \E k, h \in BOOLEAN : SetSwitches(k, h)
    BY <1>0, <1>6, ShapeBegin DEF SetSwitches, Idle, files, history, TypeOK, PendingInv
<1>7. CASE WriteGate
    <2>1. Tail(pending) \in Shapes /\ up # "down"
        BY <1>0, <1>7, ShapeStep DEF WriteGate, PendingInv
    <2>2. kill' \in BOOLEAN /\ halted \in BOOLEAN
        BY <1>7 DEF WriteGate, TypeOK
    <2>3. gateFile' = [registry |-> registry, kill |-> kill', halted |-> halted]
        BY <1>7 DEF WriteGate
    <2>4. gateFile' \in GateFile /\ gateFile'.registry = registry
        BY <2>2, <2>3 DEF GateFile, TypeOK
    <2>5. sworn' \in Switches \cup {Unsure}
        BY <1>7, <2>2 DEF WriteGate, Switches, TypeOK
    <2> QED
        BY <1>0, <1>7, <2>1, <2>2, <2>4, <2>5 DEF WriteGate, TypeOK, PendingInv
<1>8. CASE WriteBook
    <2>1. Tail(pending) \in Shapes /\ up # "down" /\ (Tail(pending) # <<>> => Head(Tail(pending)) # "book")
        BY <1>0, <1>8, ShapeStep DEF WriteBook, PendingInv
    <2>2. bookFile' \in BookFile
        BY <1>8 DEF WriteBook, BookFile, TypeOK
    <2> QED
        BY <1>0, <1>8, <2>1, <2>2 DEF WriteBook, memory, history, TypeOK, PendingInv
<1>9. CASE LoseBookWrite
    <2>1. Tail(pending) \in Shapes /\ up # "down" /\ (Tail(pending) # <<>> => Head(Tail(pending)) # "book")
        BY <1>0, <1>9, ShapeStep DEF LoseBookWrite, PendingInv
    <2>2. lost' \in 0 .. MaxLost
        BY <1>9, BoundAssumption DEF LoseBookWrite, TypeOK
    <2> QED
        BY <1>0, <1>9, <2>1, <2>2 DEF LoseBookWrite, memory, files, TypeOK, PendingInv
<1>10. CASE LoseGateWrite
    <2>1. lost' \in 0 .. MaxLost
        BY <1>10, BoundAssumption DEF LoseGateWrite, TypeOK
    <2>2. up # "down" /\ kill' \in BOOLEAN /\ sworn' \in Switches \cup {Unsure}
        BY <1>10 DEF LoseGateWrite, PendingInv, TypeOK
    <2> QED
        BY <1>0, <1>10, <2>1, <2>2, ShapeBegin DEF LoseGateWrite, files, TypeOK, PendingInv
<1>11. CASE Stop
    BY <1>0, <1>11, ShapeBegin DEF Stop, files, history, TypeOK, PendingInv
<1>12. CASE Exit
    <2>1. /\ up' = "down" /\ UNCHANGED <<files, history>>
          /\ Forgotten
        BY <1>12, ForgetTypes DEF Exit
    <2> QED
        BY <1>0, <2>1 DEF Forgotten, files, history, TypeOK, PendingInv
<1>13. CASE Crash
    <2>1. crashes' \in 0 .. MaxCrashes
        BY <1>13, BoundAssumption DEF Crash, TypeOK
    <2>2. /\ up' = "down" /\ UNCHANGED <<files, used, sworn, lost>>
          /\ Forgotten
        BY <1>13, ForgetTypes DEF Crash
    <2> QED
        BY <1>0, <2>1, <2>2 DEF Forgotten, files, TypeOK, PendingInv
<1>14. CASE Start
    <2>1. gateFile \in GateFile /\ bookFile \in BookFile
        BY DEF TypeOK
    <2>2. registry' \in [Plans -> Qty \cup {Unregistered}]
        BY <1>14, <2>1, ReregisteredType DEF Start, GateFile, BookFile
    <2>3. /\ kill' \in BOOLEAN /\ halted' \in BOOLEAN
          /\ book' \in [Plans -> Position] /\ free' \in Nat /\ reserved' \in Nat
        BY <1>14, <2>1 DEF Start, GateFile, BookFile
    <2> QED
        BY <1>0, <1>14, <2>2, <2>3, ShapeBegin DEF Start, files, history, TypeOK, PendingInv
<1> QED
    BY <1>1, <1>2, <1>3, <1>4, <1>5, <1>6, <1>7, <1>8, <1>9, <1>10, <1>11, <1>12, <1>13, <1>14 DEF Moves

\* A step that changes nothing keeps them.
LEMMA TypesStutter ==
    ASSUME TypeOK, PendingInv, UNCHANGED vars
    PROVE  TypeOK' /\ PendingInv'
BY DEF vars, memory, files, history, TypeOK, PendingInv

------------------------------------------------------------------------------
(* The switches.                                                             *)

\* Unless their last write failed, the switches in the gate's file are as they were last
\* set, and those in memory are too once a change of them is written.
SwitchInv ==
    sworn # Unsure =>
        /\ gateFile.kill = sworn.kill /\ gateFile.halted = sworn.halted
        /\ up # "down" /\ pending # <<"switch">> => sworn = [kill |-> kill, halted |-> halted]

\* The switches start as written.
LEMMA SwitchBegin == Init => SwitchInv
<1> SUFFICES ASSUME Init PROVE SwitchInv
    OBVIOUS
<1>1. kill = FALSE /\ halted = FALSE /\ sworn = [kill |-> FALSE, halted |-> FALSE]
    BY DEF Init
<1>2. gateFile.kill = FALSE /\ gateFile.halted = FALSE
    BY DEF Init
<1>3. sworn.kill = FALSE /\ sworn.halted = FALSE
    BY <1>1
<1> QED
    BY <1>1, <1>2, <1>3 DEF SwitchInv

\* The kill switch and the halt in memory, in the file and left to write stay in step.
LEMMA SwitchPreserved ==
    ASSUME TypeOK, PendingInv, SwitchInv, Moves
    PROVE  SwitchInv'
<1> SUFFICES ASSUME sworn' # Unsure
             PROVE  /\ gateFile'.kill = sworn'.kill /\ gateFile'.halted = sworn'.halted
                    /\ up' # "down" /\ pending' # <<"switch">>
                          => sworn' = [kill |-> kill', halted |-> halted']
    BY DEF SwitchInv
<1>0. <<>> # <<"switch">>
    BY ShapeBegin
<1>1. ASSUME up # "down", pending = <<>>, UNCHANGED <<up, kill, halted, files, sworn>>
      PROVE  SwitchInv'
    BY <1>0, <1>1 DEF files, SwitchInv
<1>2. CASE (\E p \in Plans : BeginEntry(p)) \/ AbandonEntry \/ Opens \/ Closes
    <2>1. up # "down" /\ pending = <<>> /\ UNCHANGED <<up, kill, halted, files, sworn>>
        BY <1>2 DEF BeginEntry, AbandonEntry, Opens, Closes, Open, Close, Idle, files, history
    <2> QED
        BY <1>1, <2>1 DEF SwitchInv
<1>3. CASE LoseEntry \/ \E k, h \in BOOLEAN : SetSwitches(k, h)
    BY <1>3 DEF LoseEntry, SetSwitches, Idle, files, history, SwitchInv
<1>4. CASE WriteGate
    <2>1. /\ pending # <<>> /\ Head(pending) # "book" /\ UNCHANGED <<up, halted>>
          /\ kill' = (kill \/ Head(pending) = "alarm")
          /\ gateFile' = [registry |-> registry, kill |-> kill', halted |-> halted]
          /\ sworn' = IF Head(pending) = "gate" THEN sworn ELSE [kill |-> kill', halted |-> halted]
          /\ pending' = Tail(pending)
        BY <1>4 DEF WriteGate
    <2>2. gateFile'.kill = kill' /\ gateFile'.halted = halted
        BY <2>1
    <2>3. CASE Head(pending) = "gate"
        <3>1. pending # <<"switch">> /\ up # "down"
            BY <2>1, <2>3, ShapeBegin DEF PendingInv
        <3>2. kill' = kill
            BY <2>1, <2>3 DEF TypeOK
        <3>3. sworn = [kill |-> kill, halted |-> halted] /\ sworn' = sworn
            BY <2>1, <2>3, <3>1 DEF SwitchInv
        <3> QED
            BY <2>1, <2>2, <3>2, <3>3
    <2>4. CASE Head(pending) # "gate"
        <3>1. sworn' = [kill |-> kill', halted |-> halted']
            BY <2>1, <2>4
        <3> QED
            BY <2>1, <2>2, <3>1
    <2> QED
        BY <2>3, <2>4
<1>5. CASE WriteBook
    <2>1. pending # <<"switch">> /\ up # "down" /\ UNCHANGED <<up, kill, halted, gateFile, sworn>>
        BY <1>5, ShapeBegin DEF WriteBook, memory, history, PendingInv
    <2> QED
        BY <2>1 DEF SwitchInv
<1>6. CASE LoseBookWrite
    <2>1. pending # <<"switch">> /\ up # "down" /\ UNCHANGED <<up, kill, halted, gateFile, sworn>>
        BY <1>6, ShapeBegin DEF LoseBookWrite, memory, files, PendingInv
    <2> QED
        BY <2>1 DEF SwitchInv
<1>7. CASE LoseGateWrite
    <2>1. Head(pending) = "gate"
        BY <1>7 DEF LoseGateWrite
    <2>2. pending # <<"switch">> /\ up # "down" /\ UNCHANGED <<up, halted, gateFile, sworn>>
        BY <1>7, <2>1, ShapeBegin DEF LoseGateWrite, files, PendingInv
    <2>3. kill' = kill
        BY <1>7, <2>1 DEF LoseGateWrite, TypeOK
    <2> QED
        BY <2>2, <2>3 DEF SwitchInv
<1>8. CASE Stop
    BY <1>0, <1>8 DEF Stop, Idle, files, history, SwitchInv
<1>9. CASE Exit \/ Crash
    <2>1. up' = "down" /\ UNCHANGED <<gateFile, sworn>>
        BY <1>9 DEF Exit, Crash, files, history
    <2> QED
        BY <2>1 DEF SwitchInv
<1>10. CASE Start
    <2>1. /\ UNCHANGED <<gateFile, sworn>> /\ kill' = gateFile.kill /\ halted' = gateFile.halted
        BY <1>10 DEF Start, files, history
    <2>2. sworn \in Switches
        BY <2>1 DEF TypeOK
    <2>3. sworn = [kill |-> sworn.kill, halted |-> sworn.halted]
        BY <2>2 DEF Switches
    <2> QED
        BY <2>1, <2>3 DEF SwitchInv
<1> QED
    BY <1>2, <1>3, <1>4, <1>5, <1>6, <1>7, <1>8, <1>9, <1>10 DEF Moves

\* A step that changes nothing keeps the switches.
LEMMA SwitchStutter ==
    ASSUME SwitchInv, UNCHANGED vars
    PROVE  SwitchInv'
BY DEF vars, memory, files, history, SwitchInv

------------------------------------------------------------------------------
(* The cash.                                                                 *)

Principal(b) == SumFunction([p \in Plans |-> Locked(b[p])])

\* Cash, reservations and principal of the book's file add up to the capital.
FileAdds == bookFile.free + bookFile.reserved + Principal(bookFile.book) = Capital

CashInv == PositionsInv /\ HeldInv /\ CashSurvives /\ FileAdds

\* The principal of a book is an integer.
LEMMA PrincipalType ==
    ASSUME NEW b \in [Plans -> Position]
    PROVE  Principal(b) \in Int
<1> DEFINE f == [p \in Plans |-> Locked(b[p])]
<1>1. f \in [Plans -> Int]
    BY LockedType
<1>2. Principal(b) = SumFunction(f)
    BY DEF Principal
<1> HIDE DEF f
<1> QED
    BY <1>1, <1>2, PlansAssumption, SumType

\* One position changes: the principal changes by as much.
LEMMA PrincipalUpdate ==
    ASSUME NEW b \in [Plans -> Position], NEW a \in Plans, NEW pos \in Position
    PROVE  Principal([b EXCEPT ![a] = pos]) = Principal(b) + Locked(pos) - Locked(b[a])
<1> DEFINE c == [b EXCEPT ![a] = pos]
           f == [p \in Plans |-> Locked(b[p])]
           g == [p \in Plans |-> Locked(c[p])]
<1>0. c \in [Plans -> Position] /\ c[a] = pos /\ \A p \in Plans : p # a => c[p] = b[p]
    OBVIOUS
<1> HIDE DEF c
<1>1. f \in [Plans -> Int] /\ g \in [Plans -> Int]
    BY <1>0, LockedType
<1>2. \A p \in Plans : p # a => g[p] = f[p]
    BY <1>0
<1>3. f[a] = Locked(b[a]) /\ g[a] = Locked(pos)
    BY <1>0
<1>4. Principal(b) = SumFunction(f) /\ Principal(c) = SumFunction(g)
    BY DEF Principal
<1> HIDE DEF f, g
<1>5. SumFunction(g) = SumFunction(f) + g[a] - f[a]
    BY <1>1, <1>2, PlansAssumption, SumUpdate
<1> QED
    BY <1>3, <1>4, <1>5 DEF c

\* An empty book locks nothing.
LEMMA PrincipalEmpty == Principal(EmptyBook) = 0
<1> DEFINE f == [p \in Plans |-> Locked(EmptyBook[p])]
<1>1. f = [p \in Plans |-> 0]
    BY EmptyTypes, NoPositionSound
<1>2. Principal(EmptyBook) = SumFunction(f)
    BY DEF Principal
<1> HIDE DEF f
<1> QED
    BY <1>1, <1>2, PlansAssumption, SumZero

\* The capital is free before the first position.
LEMMA CashBegin == Init => CashInv
<1> SUFFICES ASSUME Init PROVE CashInv
    OBVIOUS
<1>1. /\ book = EmptyBook /\ free = Capital /\ reserved = 0 /\ entry = None
      /\ bookFile = [book |-> EmptyBook, free |-> Capital, reserved |-> 0]
    BY DEF Init
<1>2. bookFile.book = EmptyBook /\ bookFile.free = Capital /\ bookFile.reserved = 0
    BY <1>1
<1>3. \A p \in Plans : EmptyBook[p] = NoPosition /\ ~EmptyBook[p].open
    BY EmptyTypes DEF NoPosition
<1>4. PositionsInv /\ HeldInv
    BY <1>1, <1>2, <1>3, NoPositionSound DEF PositionsInv, HeldInv
<1>5. CashSurvives <=> free + reserved + Principal(book) = Capital
    BY DEF CashSurvives, Principal
<1> QED
    BY <1>1, <1>2, <1>4, <1>5, PrincipalEmpty, CashAssumption DEF CashInv, FileAdds

\* Every step keeps the sum of cash and principal, in memory and in the file.
LEMMA CashPreserved ==
    ASSUME TypeOK, PendingInv, CashInv, Moves
    PROVE  CashInv'
<1>0. /\ CashRequired \in Int /\ Capital \in Int /\ free \in Int /\ reserved \in Int /\ 0 <= reserved
      /\ Smaller(CashRequired, reserved) \in Int
      /\ book \in [Plans -> Position] /\ Principal(book) \in Int
    BY EmptyTypes, PrincipalType DEF TypeOK, Smaller
<1>a. CashSurvives <=> free + reserved + Principal(book) = Capital
    BY DEF CashSurvives, Principal
<1>b. CashSurvives' <=> free' + reserved' + Principal(book') = Capital
    BY DEF CashSurvives, Principal
<1>c. ASSUME UNCHANGED bookFile, PositionsInv', HeldInv',
             free' + reserved' + Principal(book') = Capital
      PROVE  CashInv'
    BY <1>b, <1>c DEF CashInv, FileAdds
<1>d. ASSUME UNCHANGED <<bookFile, book, free, reserved>>,
             entry' = entry \/ entry' = None, used' = used
      PROVE  CashInv'
    BY <1>d, <1>a, <1>b DEF CashInv, FileAdds, PositionsInv, HeldInv
<1>1. CASE \E p \in Plans : BeginEntry(p)
    <2>1. PICK p \in Plans : BeginEntry(p)
        BY <1>1
    <2>2. /\ UNCHANGED <<bookFile, book>> /\ p \notin used /\ used' = used \cup {p} /\ entry' = p
          /\ free' = free - CashRequired /\ reserved' = reserved + CashRequired
        BY <2>1 DEF BeginEntry, files
    <2>3. PositionsInv' /\ HeldInv'
        <3>1. CashRequired <= reserved'
            BY <1>0, <2>2
        <3> QED
            BY <2>2, <3>1 DEF CashInv, PositionsInv, HeldInv
    <2>4. free' + reserved' + Principal(book') = Capital
        BY <1>0, <1>a, <2>2 DEF CashInv
    <2> QED
        BY <1>c, <2>2, <2>3, <2>4
<1>2. CASE AbandonEntry
    <2>1. /\ UNCHANGED <<bookFile, book, used>> /\ entry' = None
          /\ free' = free + Smaller(CashRequired, reserved)
          /\ reserved' = reserved - Smaller(CashRequired, reserved)
        BY <1>2 DEF AbandonEntry, files, history
    <2>2. PositionsInv' /\ HeldInv'
        BY <2>1 DEF CashInv, PositionsInv, HeldInv
    <2>3. free' + reserved' + Principal(book') = Capital
        BY <1>0, <1>a, <2>1 DEF CashInv
    <2> QED
        BY <1>c, <2>1, <2>2, <2>3
<1>3. CASE LoseEntry \/ WriteGate \/ LoseBookWrite \/ LoseGateWrite \/ Stop
           \/ \E k, h \in BOOLEAN : SetSwitches(k, h)
    BY <1>d, <1>3 DEF LoseEntry, WriteGate, LoseBookWrite, LoseGateWrite, Stop, SetSwitches,
                      memory, files, history
<1>4. CASE Opens
    <2>1. PICK pos \in Position, registered \in Qty, after \in Alarms :
               Sound(pos) /\ pos.open /\ Open(pos, registered, after)
        BY <1>4 DEF Opens
    <2>2. /\ entry \in Plans /\ entry' = None
          /\ book' = [book EXCEPT ![entry] = pos]
          /\ reserved' = reserved - Smaller(CashRequired, reserved)
          /\ free' = free + Smaller(CashRequired, reserved) - Locked(pos)
          /\ UNCHANGED <<bookFile, used>>
        BY <2>1 DEF Open, TypeOK, files, history
    <2>3. book[entry] = NoPosition /\ entry \in used
        BY <2>1, <2>2, NoneAssumption DEF CashInv, HeldInv, PositionsInv, Sound
    <2>4. /\ \A p \in Plans : p # entry => book'[p] = book[p]
          /\ book'[entry] = pos
        BY <1>0, <2>2
    <2>5. PositionsInv' /\ HeldInv'
        BY <2>1, <2>2, <2>3, <2>4 DEF CashInv, PositionsInv, HeldInv
    <2>6. Principal(book') = Principal(book) + Locked(pos) - Locked(book[entry])
        BY <1>0, <2>2, PrincipalUpdate
    <2>7. Locked(book[entry]) = 0 /\ Locked(pos) \in Int
        BY <2>3, NoPositionSound, LockedType
    <2>8. free' + reserved' + Principal(book') = Capital
        BY <1>0, <1>a, <2>2, <2>6, <2>7 DEF CashInv
    <2> QED
        BY <1>c, <2>2, <2>5, <2>8
<1>5. CASE Closes
    <2>1. PICK p \in Plans, rest \in Position, released \in Int, registered \in Qty, after \in Alarms :
               /\ book[p].open /\ Sound(rest)
               /\ Locked(rest) + released = Locked(book[p])
               /\ Close(p, rest, released, registered, after)
        BY <1>5 DEF Closes
    <2>2. /\ book' = [book EXCEPT ![p] = rest] /\ entry = None /\ entry' = entry
          /\ free' = free + released
          /\ UNCHANGED <<reserved, bookFile, used>>
        BY <2>1 DEF Close, files, history
    <2>3. /\ \A q \in Plans : q # p => book'[q] = book[q]
          /\ book'[p] = rest
        BY <1>0, <2>2
    <2>4. PositionsInv' /\ HeldInv'
        BY <2>1, <2>2, <2>3 DEF CashInv, PositionsInv, HeldInv
    <2>5. Principal(book') = Principal(book) + Locked(rest) - Locked(book[p])
        BY <1>0, <2>2, PrincipalUpdate
    <2>6. Locked(rest) \in Int /\ Locked(book[p]) \in Int
        BY <1>0, LockedType
    <2>7. free' + reserved' + Principal(book') = Capital
        BY <1>0, <1>a, <2>1, <2>2, <2>5, <2>6 DEF CashInv
    <2> QED
        BY <1>c, <2>2, <2>4, <2>7
<1>6. CASE WriteBook
    <2>1. /\ UNCHANGED <<book, free, reserved, entry, used>>
          /\ bookFile' = [book |-> book, free |-> free, reserved |-> reserved]
        BY <1>6 DEF WriteBook, memory, history
    <2>2. bookFile'.book = book /\ bookFile'.free = free /\ bookFile'.reserved = reserved
        BY <2>1
    <2> HIDE DEF FileAdds
    <2>3. PositionsInv' /\ HeldInv'
        BY <2>1, <2>2 DEF CashInv, PositionsInv, HeldInv
    <2>4. CashSurvives'
        BY <1>a, <1>b, <2>1 DEF CashInv
    <2>5. FileAdds'
        BY <1>a, <2>2 DEF CashInv, FileAdds
    <2> QED
        BY <2>3, <2>4, <2>5 DEF CashInv
<1>7. CASE Exit \/ Crash
    <2>1. Forgotten /\ UNCHANGED <<bookFile, used>>
        BY <1>7, ForgetTypes DEF Exit, Crash, files, history
    <2>2. \A p \in Plans : EmptyBook[p] = NoPosition /\ ~EmptyBook[p].open
        BY EmptyTypes DEF NoPosition
    <2>3. PositionsInv' /\ HeldInv'
        BY <2>1, <2>2, NoPositionSound DEF Forgotten, CashInv, PositionsInv, HeldInv
    <2>4. free' + reserved' + Principal(book') = Capital
        BY <1>0, <2>1, PrincipalEmpty DEF Forgotten
    <2> QED
        BY <1>c, <2>1, <2>3, <2>4
<1>8. CASE Start
    <2>1. /\ UNCHANGED <<bookFile, used, entry>> /\ entry = None
          /\ book' = bookFile.book /\ free' = bookFile.free /\ reserved' = bookFile.reserved
        BY <1>8 DEF Start, files, history, PendingInv
    <2>2. PositionsInv' /\ HeldInv'
        BY <2>1 DEF CashInv, PositionsInv, HeldInv
    <2>3. free' + reserved' + Principal(book') = Capital
        BY <2>1 DEF CashInv, FileAdds
    <2> QED
        BY <1>c, <2>1, <2>2, <2>3
<1> QED
    BY <1>1, <1>2, <1>3, <1>4, <1>5, <1>6, <1>7, <1>8 DEF Moves

\* A step that changes nothing keeps the sums.
LEMMA CashStutter ==
    ASSUME CashInv, UNCHANGED vars
    PROVE  CashInv'
<1>1. UNCHANGED <<book, free, reserved, bookFile, entry, used>>
    BY DEF vars, memory, files, history
<1> QED
    BY <1>1 DEF CashInv, PositionsInv, HeldInv, CashSurvives, FileAdds, Principal

------------------------------------------------------------------------------
(* What the gate counts and what the book holds.                             *)

OpenNow == {p \in Plans : book[p].open}
Known   == {p \in Plans : gateFile.registry[p] # Unregistered}
Saved   == {p \in Plans : bookFile.book[p].open}
Debt    == IF Owes(pending) THEN 1 ELSE 0
Taken   == IF entry # None THEN 1 ELSE 0

\* Ghosts in memory, those a crash would leave, and those the files already hold.
GhostInv ==
    /\ Cardinality(Registered \ OpenNow) <= crashes + lost
    /\ Cardinality((Registered \ OpenNow) \cup (OpenNow \ Saved)) <= crashes + lost + Debt
    /\ Cardinality(Known \ Saved) <= crashes + lost + Debt

\* Positions in memory and in the files, with the entry in flight, fit the cap, and a
\* restart would add few to those in memory.
SlotsInv ==
    /\ Cardinality(Registered \cup Known \cup Saved) + Taken <= MaxPositions + lost
    /\ up # "down" => Cardinality((Known \cup Saved) \ Registered) <= lost + Debt

CountInv == OpenIsRegistered /\ GhostInv /\ SlotsInv

\* Sizes of sets of plans.
LEMMA CountSubset ==
    ASSUME NEW S, NEW T, S \subseteq T, T \subseteq Plans
    PROVE  Cardinality(S) \in Nat /\ Cardinality(T) \in Nat /\ Cardinality(S) <= Cardinality(T)
<1>1. IsFiniteSet(T) /\ S \in SUBSET T /\ T \in SUBSET Plans
    BY PlansAssumption, FS_Subset
<1>2. IsFiniteSet(S) /\ Cardinality(S) <= Cardinality(T)
    BY <1>1, FS_Subset
<1> QED
    BY <1>1, <1>2, FS_CardinalityType

\* A plan that joins a set of plans adds at most one to its size.
LEMMA CountOneMore ==
    ASSUME NEW S, NEW T, NEW x \in Plans, S \subseteq T \cup {x}, T \subseteq Plans
    PROVE  Cardinality(S) \in Nat /\ Cardinality(T) \in Nat /\ Cardinality(S) <= Cardinality(T) + 1
<1>1. Cardinality(T) \in Nat /\ IsFiniteSet(T)
    <2>1. T \in SUBSET Plans
        OBVIOUS
    <2> QED
        BY <2>1, PlansAssumption, FS_Subset, FS_CardinalityType
<1>2. Cardinality(T \cup {x}) <= Cardinality(T) + 1
    <2>1. Cardinality(T \cup {x}) = IF x \in T THEN Cardinality(T) ELSE Cardinality(T) + 1
        BY <1>1, FS_AddElement
    <2> QED
        BY <1>1, <2>1
<1> DEFINE U == T \cup {x}
<1>3. S \subseteq U /\ U \subseteq Plans
    OBVIOUS
<1> HIDE DEF U
<1>4. Cardinality(S) \in Nat /\ Cardinality(U) \in Nat /\ Cardinality(S) <= Cardinality(U)
    BY <1>3, CountSubset
<1> QED
    BY <1>1, <1>2, <1>4 DEF U

\* Two disjoint sets of plans count as their union.
LEMMA CountTwoParts ==
    ASSUME NEW S, NEW T, NEW U, S \subseteq T \cup U, T \subseteq Plans, U \subseteq Plans
    PROVE  /\ Cardinality(S) \in Nat /\ Cardinality(T) \in Nat /\ Cardinality(U) \in Nat
           /\ Cardinality(S) <= Cardinality(T) + Cardinality(U)
<1>1. /\ IsFiniteSet(T) /\ Cardinality(T) \in Nat /\ IsFiniteSet(U) /\ Cardinality(U) \in Nat
    <2>1. T \in SUBSET Plans /\ U \in SUBSET Plans
        OBVIOUS
    <2> QED
        BY <2>1, PlansAssumption, FS_Subset, FS_CardinalityType
<1>2. Cardinality(T \cup U) = Cardinality(T) + Cardinality(U) - Cardinality(T \cap U)
    BY <1>1, FS_Union
<1>3. Cardinality(T \cap U) \in Nat
    <2>1. T \cap U \subseteq T
        OBVIOUS
    <2> DEFINE V == T \cap U
    <2> HIDE DEF V
    <2>2. Cardinality(V) \in Nat
        BY <2>1, CountSubset DEF V
    <2> QED
        BY <2>2 DEF V
<1>4. Cardinality(S) \in Nat /\ Cardinality(S) <= Cardinality(T \cup U) /\ Cardinality(T \cup U) \in Nat
    <2> DEFINE V == T \cup U
    <2>1. S \subseteq V /\ V \subseteq Plans
        OBVIOUS
    <2> HIDE DEF V
    <2>2. Cardinality(S) \in Nat /\ Cardinality(S) <= Cardinality(V) /\ Cardinality(V) \in Nat
        BY <2>1, CountSubset
    <2> QED
        BY <2>2 DEF V
<1> QED
    BY <1>1, <1>2, <1>3, <1>4

\* Nothing counts as zero.
LEMMA CountEmpty == Cardinality({}) = 0
BY FS_EmptySet

\* At a first start no slot is taken and no ghost exists.
LEMMA CountBegin == Init => CountInv
<1> SUFFICES ASSUME Init PROVE CountInv
    OBVIOUS
<1>1. book = EmptyBook /\ registry = EmptyRegistry /\ pending = <<>> /\ entry = None /\ crashes = 0 /\ lost = 0
    BY DEF Init
<1>2. gateFile.registry = EmptyRegistry /\ bookFile.book = EmptyBook
    BY DEF Init
<1>3. \A p \in Plans : EmptyRegistry[p] = Unregistered /\ ~EmptyBook[p].open
    BY EmptyTypes DEF NoPosition
<1>4. Registered = {} /\ OpenNow = {} /\ Known = {} /\ Saved = {}
    BY <1>1, <1>2, <1>3 DEF Registered, OpenNow, Known, Saved
<1>5. /\ Registered \ OpenNow = {} /\ (Registered \ OpenNow) \cup (OpenNow \ Saved) = {}
      /\ Known \ Saved = {} /\ Registered \cup Known \cup Saved = {}
      /\ (Known \cup Saved) \ Registered = {}
    BY <1>4
<1>6. Debt \in {0, 1} /\ Taken = 0
    BY <1>1 DEF Debt, Taken
<1>7. OpenIsRegistered
    BY <1>1, <1>3 DEF OpenIsRegistered
<1>8. /\ Cardinality(Registered \ OpenNow) = 0
      /\ Cardinality((Registered \ OpenNow) \cup (OpenNow \ Saved)) = 0
      /\ Cardinality(Known \ Saved) = 0
      /\ Cardinality(Registered \cup Known \cup Saved) = 0
      /\ Cardinality((Known \cup Saved) \ Registered) = 0
    BY <1>5, CountEmpty
<1>9. 0 <= Debt /\ Debt \in Int /\ MaxPositions \in Int /\ 0 <= MaxPositions
    BY <1>6, BoundAssumption
<1>10. GhostInv
    BY <1>1, <1>8, <1>9 DEF GhostInv
<1>11. SlotsInv
    BY <1>1, <1>6, <1>8, <1>9 DEF SlotsInv
<1> QED
    BY <1>7, <1>10, <1>11 DEF CountInv

\* Every plan the files or the memory hold is a plan; an open position is registered.
LEMMA CountSets ==
    /\ Registered \subseteq Plans /\ OpenNow \subseteq Plans /\ Known \subseteq Plans /\ Saved \subseteq Plans
    /\ OpenIsRegistered <=> OpenNow \subseteq Registered
BY DEF Registered, OpenNow, Known, Saved, OpenIsRegistered

\* Every step keeps positions registered, ghosts paid for by a crash or a lost write, and
\* slots within the cap.
LEMMA CountPreserved ==
    ASSUME TypeOK, TypeOK', PendingInv, PendingInv', CountInv, Moves
    PROVE  CountInv'
<1>0. /\ crashes \in Int /\ lost \in Int 
      /\ 0 <= crashes /\ 0 <= lost /\ MaxPositions \in Int
      /\ Debt \in Int /\ 0 <= Debt /\ Debt <= 1
      /\ Taken \in Int /\ 0 <= Taken /\ Taken <= 1
    BY BoundAssumption DEF TypeOK, Debt, Taken
\* Constants for the next values: the solvers do not order sums of primed terms.
<1>x. PICK died \in Int : died = crashes'
    BY DEF TypeOK
<1>y. PICK missed \in Int : missed = lost'
    BY DEF TypeOK
<1>d. PICK debt \in Int : debt = Debt' /\ 0 <= debt /\ debt <= 1
    BY DEF Debt
<1>e. 0 <= debt /\ debt <= 1
    BY <1>d
<1>t. PICK taken \in Int : taken = Taken' /\ 0 <= taken /\ taken <= 1
    BY DEF Taken
<1>u. 0 <= taken /\ taken <= 1
    BY <1>t
<1>s. /\ Registered \subseteq Plans /\ OpenNow \subseteq Plans /\ Known \subseteq Plans /\ Saved \subseteq Plans /\ OpenNow \subseteq Registered
      /\ Registered' \subseteq Plans /\ OpenNow' \subseteq Plans /\ Known' \subseteq Plans /\ Saved' \subseteq Plans
    BY CountSets DEF CountInv, Registered, OpenNow, Known, Saved
<1>c. /\ Cardinality(Registered \ OpenNow) \in Int /\ Cardinality((Registered \ OpenNow) \cup (OpenNow \ Saved)) \in Int
      /\ Cardinality(Known \ Saved) \in Int /\ Cardinality(Registered \cup Known \cup Saved) \in Int
      /\ Cardinality((Known \cup Saved) \ Registered) \in Int /\ Cardinality(Registered) \in Int
    <2>1. /\ Registered \ OpenNow \subseteq Plans /\ (Registered \ OpenNow) \cup (OpenNow \ Saved) \subseteq Plans /\ Known \ Saved \subseteq Plans
          /\ Registered \cup Known \cup Saved \subseteq Plans /\ (Known \cup Saved) \ Registered \subseteq Plans
        BY <1>s
    <2>2. \A S : S \subseteq Plans => Cardinality(S) \in Int
        BY CountSubset
    <2> QED
        BY <1>s, <2>1, <2>2
<1>i. /\ Cardinality(Registered \ OpenNow) <= crashes + lost
      /\ Cardinality((Registered \ OpenNow) \cup (OpenNow \ Saved)) <= crashes + lost + Debt
      /\ Cardinality(Known \ Saved) <= crashes + lost + Debt
      /\ Cardinality(Registered \cup Known \cup Saved) + Taken <= MaxPositions + lost
      /\ up # "down" => Cardinality((Known \cup Saved) \ Registered) <= lost + Debt
    BY DEF CountInv, GhostInv, SlotsInv
\* To show: the same of the next state.
<1>g. ASSUME OpenNow' \subseteq Registered',
             Cardinality(Registered' \ OpenNow') <= died + missed,
             Cardinality((Registered' \ OpenNow') \cup (OpenNow' \ Saved')) <= died + missed + debt,
             Cardinality(Known' \ Saved') <= died + missed + debt,
             Cardinality(Registered' \cup Known' \cup Saved') + taken <= MaxPositions + missed,
             up' # "down" => Cardinality((Known' \cup Saved') \ Registered') <= missed + debt
      PROVE  CountInv'
    <2>1. OpenIsRegistered'
        BY <1>g DEF OpenIsRegistered, Registered, OpenNow
    <2>2. GhostInv' /\ SlotsInv'
        BY <1>g, <1>d, <1>t, <1>x, <1>y DEF GhostInv, SlotsInv
    <2> QED
        BY <2>1, <2>2 DEF CountInv
<1>1. CASE AbandonEntry \/ LoseEntry \/ Stop \/ LoseBookWrite \/ LoseGateWrite
           \/ \E k, h \in BOOLEAN : SetSwitches(k, h)
    <2>1. /\ UNCHANGED <<book, registry, files>> /\ up # "down"
          /\ entry' = entry \/ entry' = None
          /\ missed = lost \/ missed = lost + 1
          /\ died = crashes
        BY <1>1, <1>x, <1>y DEF AbandonEntry, LoseEntry, Stop, LoseBookWrite, LoseGateWrite, SetSwitches,
                    Idle, memory, history, files, PendingInv
    <2>2. Registered' = Registered /\ OpenNow' = OpenNow /\ Known' = Known /\ Saved' = Saved /\ taken <= Taken
        BY <1>t, <2>1 DEF Registered, OpenNow, Known, Saved, files, Taken
    <2>3. missed + debt >= lost + Debt
        <3>1. CASE LoseBookWrite \/ LoseGateWrite
            <4>1. missed = lost + 1
                BY <1>y, <3>1 DEF LoseBookWrite, LoseGateWrite
            <4> QED
                BY <1>0, <1>e, <4>1
        <3>2. CASE AbandonEntry \/ LoseEntry \/ Stop \/ \E k, h \in BOOLEAN : SetSwitches(k, h)
            <4>1. pending = <<>> /\ missed = lost
                BY <1>y, <3>2 DEF AbandonEntry, LoseEntry, Stop, SetSwitches, Idle, history
            <4>2. Debt = 0
                BY <4>1, ShapeBegin DEF Debt
            <4> QED
                BY <1>0, <1>e, <4>1, <4>2
        <3> QED
            BY <1>1, <3>1, <3>2
    <2> QED
        BY <1>0, <1>e, <1>u, <1>s, <1>c, <1>i, <1>g, <2>1, <2>2, <2>3
<1>2. CASE \E p \in Plans : BeginEntry(p)
    <2>1. /\ UNCHANGED <<book, registry, files, pending, up>> /\ pending = <<>> /\ up # "down"
          /\ died = crashes /\ missed = lost
          /\ Cardinality(Registered) < MaxPositions
        BY <1>2, <1>x, <1>y DEF BeginEntry, Idle, GateAllowsEntry
    <2>2. Registered' = Registered /\ OpenNow' = OpenNow /\ Known' = Known /\ Saved' = Saved /\ Debt = 0 /\ debt = 0
        BY <1>d, <2>1, ShapeBegin DEF Registered, OpenNow, Known, Saved, files, Debt
    <2>3. Cardinality(Registered \cup Known \cup Saved) <= Cardinality(Registered) + Cardinality((Known \cup Saved) \ Registered)
        <3> DEFINE S == Registered \cup Known \cup Saved
                   U == (Known \cup Saved) \ Registered
        <3>1. S \subseteq Registered \cup U /\ U \subseteq Plans
            BY <1>s
        <3> HIDE DEF S, U
        <3>2. Cardinality(S) <= Cardinality(Registered) + Cardinality(U)
            BY <1>s, <3>1, CountTwoParts
        <3> QED
            BY <3>2 DEF S, U
    <2>4. Cardinality(Registered \cup Known \cup Saved) + taken <= MaxPositions + missed
        BY <1>0, <1>u, <1>c, <1>i, <2>1, <2>2, <2>3
    <2> QED
        BY <1>0, <1>e, <1>s, <1>i, <1>g, <2>1, <2>2, <2>4
<1>3. CASE Opens
    <2>1. PICK pos \in Position, registered \in Qty, after \in Alarms :
               pos.open /\ Open(pos, registered, after)
        BY <1>3 DEF Opens
    <2>2. /\ UNCHANGED <<files, up>> /\ up # "down" /\ pending = <<>>
          /\ died = crashes /\ missed = lost
          /\ entry \in Plans /\ entry' = None
          /\ book' = [book EXCEPT ![entry] = pos]
          /\ registry' = [registry EXCEPT ![entry] = registered]
          /\ pending' = <<"gate", "book">> \o after
        BY <2>1, <1>x, <1>y DEF Open, Idle, history, TypeOK
    <2>3. Debt = 0 /\ debt = 1 /\ Taken = 1 /\ taken = 0
        BY <1>d, <1>t, <2>2, NoneAssumption, ShapeBegin DEF Debt, Taken, Alarms
    <2>4. registered # Unregistered
        BY LotsAssumption DEF Qty, Unregistered
    <2>5. /\ Registered' = Registered \cup {entry} /\ OpenNow' = OpenNow \cup {entry}
          /\ Known' = Known /\ Saved' = Saved
        BY <2>1, <2>2, <2>4 DEF Registered, OpenNow, Known, Saved, files, TypeOK
    <2> DEFINE a == Registered \ OpenNow
               a1 == Registered' \ OpenNow'
               b == (Registered \ OpenNow) \cup (OpenNow \ Saved)
               b1 == (Registered' \ OpenNow') \cup (OpenNow' \ Saved')
               c == Registered \cup Known \cup Saved
               c1 == Registered' \cup Known' \cup Saved'
               d == (Known \cup Saved) \ Registered
               d1 == (Known' \cup Saved') \ Registered'
    <2>6. /\ a1 \subseteq a /\ a \subseteq Plans
          /\ b1 \subseteq b \cup {entry} /\ b \subseteq Plans
          /\ c1 \subseteq c \cup {entry} /\ c \subseteq Plans
          /\ d1 \subseteq d /\ d \subseteq Plans
        BY <1>s, <2>5
    <2>7. OpenNow' \subseteq Registered'
        BY <1>s, <2>5
    <2>8. /\ Cardinality(a) <= crashes + lost /\ Cardinality(b) <= crashes + lost + Debt
          /\ Cardinality(c) + Taken <= MaxPositions + lost /\ Cardinality(d) <= lost + Debt
        BY <1>i, <2>2
    <2>9. Cardinality(Known' \ Saved') <= died + missed + debt
        BY <1>0, <1>c, <1>i, <2>2, <2>3, <2>5
    <2> HIDE DEF a, a1, b, b1, c, c1, d, d1
    <2>10. /\ Cardinality(a1) \in Nat /\ Cardinality(a) \in Nat /\ Cardinality(a1) <= Cardinality(a)
           /\ Cardinality(d1) \in Nat /\ Cardinality(d) \in Nat /\ Cardinality(d1) <= Cardinality(d)
        BY <2>6, CountSubset
    <2>11. /\ Cardinality(b1) \in Nat /\ Cardinality(b) \in Nat /\ Cardinality(b1) <= Cardinality(b) + 1
           /\ Cardinality(c1) \in Nat /\ Cardinality(c) \in Nat /\ Cardinality(c1) <= Cardinality(c) + 1
        BY <2>2, <2>6, CountOneMore
    <2>12. Cardinality(a1) <= died + missed
        BY <1>0, <2>2, <2>3, <2>8, <2>10
    <2>13. Cardinality(b1) <= died + missed + debt
        BY <1>0, <2>2, <2>3, <2>8, <2>11
    <2>14. Cardinality(c1) + taken <= MaxPositions + missed
        BY <1>0, <2>2, <2>3, <2>8, <2>11
    <2>15. Cardinality(d1) <= missed + debt
        BY <1>0, <2>2, <2>3, <2>8, <2>10
    <2> QED
        BY <1>g, <2>7, <2>9, <2>12, <2>13, <2>14, <2>15 DEF a1, b1, c1, d1
<1>4. CASE Closes
    <2>1. PICK p \in Plans, rest \in Position, released \in Int, registered \in Qty, after \in Alarms :
               book[p].open /\ Close(p, rest, released, registered, after)
        BY <1>4 DEF Closes
    <2>2. /\ UNCHANGED <<files, up, entry>> /\ up # "down" /\ pending = <<>>
          /\ died = crashes /\ missed = lost
          /\ book' = [book EXCEPT ![p] = rest]
          /\ registry' = [registry EXCEPT ![p] = IF rest.open THEN registered ELSE Unregistered]
          /\ pending' = <<"gate", "book">> \o after
        BY <2>1, <1>x, <1>y DEF Close, Idle, history
    <2>3. Debt = 0 /\ debt = 1 /\ taken = Taken
        BY <1>d, <1>t, <2>2, ShapeBegin DEF Debt, Taken, Alarms
    <2>4. registered # Unregistered
        BY LotsAssumption DEF Qty, Unregistered
    <2>5. p \in OpenNow /\ p \in Registered
        BY <2>1, <1>s DEF OpenNow
    <2>6. /\ Known' = Known /\ Saved' = Saved
          /\ OpenNow' = IF rest.open THEN OpenNow ELSE OpenNow \ {p}
          /\ Registered' = IF rest.open THEN Registered ELSE Registered \ {p}
        <3>1. /\ \A q \in Plans : q # p => book'[q] = book[q] /\ registry'[q] = registry[q]
              /\ book'[p] = rest
              /\ registry'[p] = IF rest.open THEN registered ELSE Unregistered
            BY <2>2 DEF TypeOK
        <3>2. OpenNow' = IF rest.open THEN OpenNow ELSE OpenNow \ {p}
            BY <2>5, <3>1 DEF OpenNow
        <3>3. Registered' = IF rest.open THEN Registered ELSE Registered \ {p}
            BY <2>4, <2>5, <3>1 DEF Registered
        <3>4. Known' = Known /\ Saved' = Saved
            BY <2>2 DEF files, Known, Saved
        <3> QED
            BY <3>2, <3>3, <3>4
    <2> DEFINE a == Registered \ OpenNow
               a1 == Registered' \ OpenNow'
               b == (Registered \ OpenNow) \cup (OpenNow \ Saved)
               b1 == (Registered' \ OpenNow') \cup (OpenNow' \ Saved')
               c == Registered \cup Known \cup Saved
               c1 == Registered' \cup Known' \cup Saved'
               d == (Known \cup Saved) \ Registered
               d1 == (Known' \cup Saved') \ Registered'
    <2>7. /\ a1 \subseteq a /\ a \subseteq Plans
          /\ b1 \subseteq b /\ b \subseteq Plans
          /\ c1 \subseteq c /\ c \subseteq Plans
          /\ d1 \subseteq d \cup {p} /\ d \subseteq Plans
        BY <1>s, <2>5, <2>6
    <2>8. OpenNow' \subseteq Registered'
        BY <1>s, <2>6
    <2>9. /\ Cardinality(a) <= crashes + lost /\ Cardinality(b) <= crashes + lost + Debt
          /\ Cardinality(c) + Taken <= MaxPositions + lost /\ Cardinality(d) <= lost + Debt
        BY <1>i, <2>2
    <2>10. Cardinality(Known' \ Saved') <= died + missed + debt
        BY <1>0, <1>c, <1>i, <2>2, <2>3, <2>6
    <2> HIDE DEF a, a1, b, b1, c, c1, d, d1
    <2>11. /\ Cardinality(a1) \in Nat /\ Cardinality(a) \in Nat /\ Cardinality(a1) <= Cardinality(a)
           /\ Cardinality(b1) \in Nat /\ Cardinality(b) \in Nat /\ Cardinality(b1) <= Cardinality(b)
           /\ Cardinality(c1) \in Nat /\ Cardinality(c) \in Nat /\ Cardinality(c1) <= Cardinality(c)
        BY <2>7, CountSubset
    <2>12. Cardinality(d1) \in Nat /\ Cardinality(d) \in Nat /\ Cardinality(d1) <= Cardinality(d) + 1
        BY <2>7, CountOneMore
    <2>13. /\ Cardinality(a1) <= died + missed
           /\ Cardinality(b1) <= died + missed + debt
           /\ Cardinality(c1) + taken <= MaxPositions + missed
           /\ Cardinality(d1) <= missed + debt
        <3>1. died = crashes /\ missed = lost
            BY <2>2
        <3> QED
            BY <1>0, <3>1, <2>3, <2>9, <2>11, <2>12
    <2> QED
        BY <1>g, <2>8, <2>10, <2>13 DEF a1, b1, c1, d1
<1>5. CASE WriteGate
    <2>1. /\ UNCHANGED <<book, registry, bookFile, up, entry>> /\ up # "down"
          /\ died = crashes /\ missed = lost
          /\ pending # <<>> /\ Head(pending) # "book" /\ pending' = Tail(pending)
          /\ gateFile' = [registry |-> registry, kill |-> kill', halted |-> halted]
        BY <1>5, <1>x, <1>y DEF WriteGate, PendingInv
    <2>2. debt = Debt /\ taken = Taken
        <3>1. Owes(pending') <=> Owes(pending)
            BY <2>1, ShapeStep DEF PendingInv
        <3> QED
            BY <1>d, <1>t, <2>1, <3>1 DEF Debt, Taken
    <2>3. gateFile'.registry = registry
        BY <2>1
    <2>4. Registered' = Registered /\ OpenNow' = OpenNow /\ Known' = Registered /\ Saved' = Saved
        BY <2>1, <2>3 DEF Registered, OpenNow, Known, Saved
    <2> DEFINE b == (Registered \ OpenNow) \cup (OpenNow \ Saved)
               b1 == Known' \ Saved'
               c == Registered \cup Known \cup Saved
               c1 == Registered' \cup Known' \cup Saved'
               d == (Known \cup Saved) \ Registered
               d1 == (Known' \cup Saved') \ Registered'
    <2>5. /\ b1 \subseteq b /\ b \subseteq Plans
          /\ c1 \subseteq c /\ c \subseteq Plans
          /\ d1 \subseteq d /\ d \subseteq Plans
        BY <1>s, <2>4
    <2>6. /\ Cardinality(b) <= crashes + lost + Debt
          /\ Cardinality(c) + Taken <= MaxPositions + lost /\ Cardinality(d) <= lost + Debt
        BY <1>i, <2>1
    <2>7. /\ OpenNow' \subseteq Registered'
          /\ Cardinality(Registered' \ OpenNow') <= died + missed
          /\ Cardinality((Registered' \ OpenNow') \cup (OpenNow' \ Saved')) <= died + missed + debt
        BY <1>s, <1>i, <2>1, <2>2, <2>4
    <2> HIDE DEF b, b1, c, c1, d, d1
    <2>8. /\ Cardinality(b1) \in Nat /\ Cardinality(b) \in Nat /\ Cardinality(b1) <= Cardinality(b)
          /\ Cardinality(c1) \in Nat /\ Cardinality(c) \in Nat /\ Cardinality(c1) <= Cardinality(c)
          /\ Cardinality(d1) \in Nat /\ Cardinality(d) \in Nat /\ Cardinality(d1) <= Cardinality(d)
        BY <2>5, CountSubset
    <2>9. /\ Cardinality(b1) <= died + missed + debt
          /\ Cardinality(c1) + taken <= MaxPositions + missed
          /\ Cardinality(d1) <= missed + debt
        BY <1>0, <2>1, <2>2, <2>6, <2>8
    <2> QED
        BY <1>g, <2>7, <2>9 DEF b1, c1, d1
<1>6. CASE WriteBook
    <2>1. /\ UNCHANGED <<book, registry, gateFile, up, entry>> /\ up # "down"
          /\ died = crashes /\ missed = lost
          /\ pending # <<>> /\ Head(pending) = "book" /\ pending' = Tail(pending)
          /\ bookFile' = [book |-> book, free |-> free, reserved |-> reserved]
        BY <1>6, <1>x, <1>y DEF WriteBook, memory, history, PendingInv
    <2>2. debt = 0 /\ taken = Taken
        <3>1. ~Owes(pending')
            BY <2>1, ShapeStep DEF PendingInv
        <3> QED
            BY <1>d, <1>t, <2>1, <3>1 DEF Debt, Taken
    <2>3. bookFile'.book = book /\ gateFile.registry = registry
        BY <2>1 DEF PendingInv
    <2>4. /\ Registered' = Registered /\ OpenNow' = OpenNow
          /\ Known' = Registered /\ Saved' = OpenNow
        BY <2>1, <2>3 DEF Registered, OpenNow, Known, Saved
    <2>5. /\ (Registered' \ OpenNow') \cup (OpenNow' \ Saved') = Registered \ OpenNow
          /\ Known' \ Saved' = Registered \ OpenNow
          /\ (Known' \cup Saved') \ Registered' = {}
          /\ OpenNow' \subseteq Registered' /\ Registered' \ OpenNow' = Registered \ OpenNow
        BY <1>s, <2>4
    <2> DEFINE c == Registered \cup Known \cup Saved
               c1 == Registered' \cup Known' \cup Saved'
    <2>6. c1 \subseteq c /\ c \subseteq Plans
        BY <1>s, <2>4
    <2>7. Cardinality(c) + Taken <= MaxPositions + lost
        BY <1>i
    <2> HIDE DEF c, c1
    <2>8. Cardinality(c1) \in Nat /\ Cardinality(c) \in Nat /\ Cardinality(c1) <= Cardinality(c)
        BY <2>6, CountSubset
    <2>9. Cardinality(c1) + taken <= MaxPositions + missed
        BY <1>0, <2>1, <2>2, <2>7, <2>8
    <2>10. Cardinality(Registered \ OpenNow) <= died + missed /\ died + missed + debt = died + missed
           /\ 0 <= missed + debt
        BY <1>0, <1>i, <2>1, <2>2
    <2> QED
        BY <1>g, <2>5, <2>9, <2>10, CountEmpty DEF c1
<1>7. CASE Exit \/ Crash
    <2>1. Forgotten /\ UNCHANGED files /\ up' = "down" /\ missed = lost
        BY <1>7, <1>y, ForgetTypes DEF Exit, Crash, files, history
    <2>2. died + Debt >= crashes + Debt /\ died >= crashes /\ died + missed >= crashes + lost + Debt
        <3>1. CASE Exit
            <4>1. died = crashes /\ pending = <<>>
                BY <1>x, <3>1 DEF Exit, history
            <4>2. Debt = 0
                BY <4>1, ShapeBegin DEF Debt
            <4> QED
                BY <1>0, <2>1, <4>1, <4>2
        <3>2. CASE Crash
            <4>1. died = crashes + 1
                BY <1>x, <3>2 DEF Crash
            <4> QED
                BY <1>0, <2>1, <4>1
        <3> QED
            BY <1>7, <3>1, <3>2
    <2>3. debt = 0 /\ taken = 0
        BY <1>d, <1>t, <2>1, ShapeBegin DEF Forgotten, Debt, Taken
    <2>4. Registered' = {} /\ OpenNow' = {} /\ Known' = Known /\ Saved' = Saved
        <3>1. \A p \in Plans : EmptyRegistry[p] = Unregistered /\ ~EmptyBook[p].open
            BY EmptyTypes DEF NoPosition
        <3> QED
            BY <2>1, <3>1 DEF Forgotten, Registered, OpenNow, Known, Saved, files
    <2>5. /\ OpenNow' \subseteq Registered' /\ Registered' \ OpenNow' = {}
          /\ (Registered' \ OpenNow') \cup (OpenNow' \ Saved') = {}
        BY <2>4
    <2> DEFINE c == Registered \cup Known \cup Saved
               c1 == Registered' \cup Known' \cup Saved'
    <2>6. c1 \subseteq c /\ c \subseteq Plans
        BY <1>s, <2>4
    <2>7. Cardinality(c) + Taken <= MaxPositions + lost
        BY <1>i
    <2> HIDE DEF c, c1
    <2>8. Cardinality(c1) \in Nat /\ Cardinality(c) \in Nat /\ Cardinality(c1) <= Cardinality(c)
        BY <2>6, CountSubset
    <2>9. Cardinality(c1) + taken <= MaxPositions + missed
        BY <1>0, <2>1, <2>3, <2>7, <2>8
    <2>10. Cardinality(Known' \ Saved') <= died + missed + debt
        BY <1>0, <1>c, <1>i, <2>2, <2>3, <2>4
    <2>11. 0 <= died + missed /\ 0 <= died + missed + debt
        BY <1>0, <2>2, <2>3
    <2> QED
        BY <1>g, <2>1, <2>5, <2>9, <2>10, <2>11, CountEmpty DEF c1
<1>8. CASE Start
    <2>1. /\ UNCHANGED files /\ up = "down" /\ died = crashes /\ missed = lost /\ entry' = None
          /\ registry' = Reregistered(gateFile.registry, bookFile.book)
          /\ book' = bookFile.book /\ pending' = <<"gate">> /\ pending = <<>>
        BY <1>8, <1>x, <1>y DEF Start, history, PendingInv
    <2>2. gateFile.registry \in [Plans -> Qty \cup {Unregistered}] /\ bookFile.book \in [Plans -> Position]
        BY DEF TypeOK, GateFile, BookFile
    <2>3. Debt = 0 /\ debt = 0 /\ taken = 0
        BY <1>d, <1>t, <2>1, ShapeBegin DEF Debt, Taken
    <2>4. /\ Registered' = Known \cup Saved /\ OpenNow' = Saved
          /\ Known' = Known /\ Saved' = Saved
        <3>1. \A p \in Plans : registry'[p] # Unregistered
                  <=> gateFile.registry[p] # Unregistered \/ bookFile.book[p].open
            BY <2>1, <2>2, ReregisteredType
        <3>2. Registered' = Known \cup Saved
            BY <3>1 DEF Registered, Known, Saved
        <3> QED
            BY <2>1, <3>2 DEF OpenNow, Known, Saved, files
    <2>5. /\ OpenNow' \subseteq Registered' /\ Registered' \ OpenNow' = Known \ Saved
          /\ (Registered' \ OpenNow') \cup (OpenNow' \ Saved') = Known \ Saved
          /\ Known' \ Saved' = Known \ Saved /\ (Known' \cup Saved') \ Registered' = {}
        BY <2>4
    <2> DEFINE c == Registered \cup Known \cup Saved
               c1 == Registered' \cup Known' \cup Saved'
    <2>6. c1 \subseteq c /\ c \subseteq Plans
        BY <1>s, <2>4
    <2>7. Cardinality(c) + Taken <= MaxPositions + lost
        BY <1>i
    <2> HIDE DEF c, c1
    <2>8. Cardinality(c1) \in Nat /\ Cardinality(c) \in Nat /\ Cardinality(c1) <= Cardinality(c)
        BY <2>6, CountSubset
    <2>9. Cardinality(c1) + taken <= MaxPositions + missed
        BY <1>0, <2>1, <2>3, <2>7, <2>8
    <2>10. /\ Cardinality(Known \ Saved) <= died + missed /\ Cardinality(Known \ Saved) <= died + missed + debt
           /\ 0 <= missed + debt
        BY <1>0, <1>c, <1>i, <2>1, <2>3
    <2> QED
        BY <1>g, <2>5, <2>9, <2>10, CountEmpty DEF c1
<1> QED
    BY <1>1, <1>2, <1>3, <1>4, <1>5, <1>6, <1>7, <1>8 DEF Moves

\* A step that changes nothing keeps the counts.
LEMMA CountStutter ==
    ASSUME CountInv, UNCHANGED vars
    PROVE  CountInv'
<1>1. UNCHANGED <<book, registry, gateFile, bookFile, entry, pending, crashes, lost, up>>
    BY DEF vars, memory, files, history
<1>2. UNCHANGED <<Registered, OpenNow, Known, Saved, Debt, Taken>>
    BY <1>1 DEF Registered, OpenNow, Known, Saved, Debt, Taken
<1>3. OpenIsRegistered'
    BY <1>1 DEF CountInv, OpenIsRegistered
<1>4. GhostInv' /\ SlotsInv'
    BY <1>1, <1>2 DEF CountInv, GhostInv, SlotsInv
<1> QED
    BY <1>3, <1>4 DEF CountInv

------------------------------------------------------------------------------
(* The inductive invariant and the theorems.                                 *)

DInv == TypeOK /\ PendingInv /\ SwitchInv /\ CashInv /\ CountInv

\* The inductive invariant holds at the start,
LEMMA DInvBegin == Init => DInv
BY TypesBegin, SwitchBegin, CashBegin, CountBegin DEF DInv

\* is kept by every step,
LEMMA DInvPreserved ==
    ASSUME DInv, [Next]_vars
    PROVE  DInv'
<1>1. CASE Next
    <2>1. Moves
        BY <1>1, NextMoves DEF DInv, CashInv
    <2>2. TypeOK' /\ PendingInv'
        BY <2>1, TypesPreserved DEF DInv, CashInv
    <2>3. SwitchInv' /\ CashInv'
        BY <2>1, SwitchPreserved, CashPreserved DEF DInv
    <2>4. CountInv'
        BY <2>1, <2>2, CountPreserved DEF DInv
    <2> QED
        BY <2>2, <2>3, <2>4 DEF DInv
<1>2. CASE UNCHANGED vars
    BY <1>2, TypesStutter, SwitchStutter, CashStutter, CountStutter DEF DInv
<1> QED
    BY <1>1, <1>2

\* and so holds always.
LEMMA DInvAlways == Spec => []DInv
BY DInvBegin, DInvPreserved, PTL DEF Spec

\* Every reachable state is well typed; in particular neither the free cash nor the
\* reservations ever go below zero, in memory or in the file a restart reads
\* (Portfolio.reserve, release, open_position, close_position, persist, restore).
THEOREM TypeCorrect == Spec => []TypeOK
<1>1. DInv => TypeOK
    BY DEF DInv
<1> QED
    BY <1>1, DInvAlways, PTL

\* After any crash, lost write, stop and restart, the gate counts every position the book
\* holds open (BinanceRiskGate.load, then Portfolio.restore).
THEOREM OpenAlwaysRegistered == Spec => []OpenIsRegistered
<1>1. DInv => OpenIsRegistered
    BY DEF DInv, CountInv
<1> QED
    BY <1>1, DInvAlways, PTL

\* Slots held for positions the book does not know: one for each crash and each lost write
\* at most, for any number of plans.
THEOREM FewGhosts == Spec => []GhostsBounded
<1>1. Ghosts = Registered \ OpenNow
    BY DEF Ghosts, Registered, OpenNow
<1>2. DInv => GhostsBounded
    BY <1>1 DEF DInv, CountInv, GhostInv, GhostsBounded
<1> QED
    BY <1>2, DInvAlways, PTL

\* The cap on open positions survives restarts, up to one position for each lost write.
THEOREM CapAcrossRestarts == Spec => []CapSurvivesRestart
<1>1. DInv => CapSurvivesRestart
    <2> SUFFICES ASSUME DInv PROVE CapSurvivesRestart
        OBVIOUS
    <2>1. Cardinality(Registered \cup Known \cup Saved) + Taken <= MaxPositions + lost
        BY DEF DInv, CountInv, SlotsInv
    <2> DEFINE c == Registered \cup Known \cup Saved
    <2>2. Registered \subseteq c /\ c \subseteq Plans
        BY CountSets
    <2> HIDE DEF c
    <2>3. Cardinality(Registered) \in Nat /\ Cardinality(c) \in Nat /\ Cardinality(Registered) <= Cardinality(c)
        BY <2>2, CountSubset
    <2>4. Taken \in Int /\ 0 <= Taken /\ lost \in Int /\ MaxPositions \in Int
        BY BoundAssumption DEF Taken, DInv, TypeOK
    <2>5. Cardinality(c) + Taken <= MaxPositions + lost
        BY <2>1 DEF c
    <2> QED
        BY <2>3, <2>4, <2>5 DEF CapSurvivesRestart
<1> QED
    BY <1>1, DInvAlways, PTL

\* The kill switch and a halt are as they were last set, whatever crashed, stopped or was
\* booked since, unless a write of them failed.
THEOREM SwitchesKept == Spec => []SwitchesSurvive
<1>1. DInv => SwitchesSurvive
    BY ShapeBegin DEF DInv, SwitchInv, SwitchesSurvive, Idle
<1> QED
    BY <1>1, DInvAlways, PTL

\* Cash, reservations and principal add up to the capital in memory, and so they do in the
\* file a restart reads.
THEOREM CashAcrossRestarts == Spec => [](CashSurvives /\ FileAdds)
<1>1. DInv => CashSurvives /\ FileAdds
    BY DEF DInv, CashInv
<1> QED
    BY <1>1, DInvAlways, PTL
=============================================================================

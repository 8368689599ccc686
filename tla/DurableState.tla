---------------------------- MODULE DurableState ----------------------------
(* state/<mode>/gate.json and state/<mode>/portfolio.json: what survives a   *)
(* crash, a stop and a restart of the engine.                                *)
(*                                                                           *)
(* Each file is replaced atomically, but there are two of them.  A method of *)
(* the book changes memory, then the gate writes its file, then the book     *)
(* writes its own; the process can die before each write and a write can     *)
(* fail.  What the executor does in between (HedgeExecutor) is reduced to    *)
(* how an entry or an unwind ends.                                           *)
EXTENDS Portfolio, Sequences, FiniteSetsExt

CONSTANTS
    Plans,         \* plan ids, which are also position ids
    None,          \* no plan
    Capital,       \* starting cash
    MaxPositions,  \* RiskLimits.max_open_positions
    MaxCrashes,    \* bound on crashes
    MaxLost        \* bound on writes that fail with an OSError

ASSUME NoneAssumption  == None \notin Plans
ASSUME PlansAssumption == IsFiniteSet(Plans)
ASSUME CashAssumption  == Capital \in Nat
ASSUME BoundAssumption == MaxPositions \in Nat /\ MaxCrashes \in Nat /\ MaxLost \in Nat

VARIABLES
    up,        \* "running" | "stopping" | "down"
    used,      \* plans whose id has been given out
    entry,     \* the plan whose entry holds a reservation, or None
    book,      \* Portfolio._positions
    free,      \* Portfolio.cash_usd
    reserved,  \* Portfolio.reserved_cash_usd
    registry,  \* BinanceRiskGate.positions: registered quantity
    kill,      \* BinanceRiskGate.kill_switch
    halted,    \* BinanceRiskGate.state = HALTED
    pending,   \* what is left of the method being executed
    gateFile,  \* gate.json
    bookFile,  \* portfolio.json
    sworn,     \* history: the switches as last set with their write done
    crashes, lost

memory  == <<entry, book, free, reserved, registry, kill, halted>>
files   == <<gateFile, bookFile>>
history == <<used, sworn, crashes, lost>>
vars    == <<up, memory, pending, files, history>>

Unregistered == -1

GateFile == [registry : [Plans -> Qty \cup {Unregistered}], kill : BOOLEAN, halted : BOOLEAN]
BookFile == [book : [Plans -> Position], free : Nat, reserved : Nat]
Switches == [kill : BOOLEAN, halted : BOOLEAN]
Unsure   == [kill |-> None, halted |-> None]  \* the last write of a switch failed

\* "gate": BinanceRiskGate._persist.  "switch": the same for an operator or a tick.
\* "alarm": set_kill_switch(True) after a booking.  "book": Portfolio.persist.
Writes == {"gate", "switch", "alarm", "book"}

EmptyRegistry == [p \in Plans |-> Unregistered]
EmptyBook     == [p \in Plans |-> NoPosition]

\* No file yet is the same as files with the constructors' values.
Init ==
    /\ up = "running"
    /\ used = {} /\ entry = None
    /\ book = EmptyBook /\ free = Capital /\ reserved = 0
    /\ registry = EmptyRegistry /\ kill = FALSE /\ halted = FALSE
    /\ pending = <<>>
    /\ gateFile = [registry |-> EmptyRegistry, kill |-> FALSE, halted |-> FALSE]
    /\ bookFile = [book |-> EmptyBook, free |-> Capital, reserved |-> 0]
    /\ sworn = [kill |-> FALSE, halted |-> FALSE]
    /\ crashes = 0 /\ lost = 0

\* No method is half done.  A client's request may go on while the engine stops.
Idle == up # "down" /\ pending = <<>>
Registered == {p \in Plans : registry[p] # Unregistered}

------------------------------------------------------------------------------
(* Entries.                                                                  *)

\* Mutant: the cap counts the positions of the book, not those of the registry.
GateAllowsEntry_CountsBook ==
    ~kill /\ ~halted /\ Cardinality({p \in Plans : book[p].open}) < MaxPositions

GateAllowsEntry == ~kill /\ ~halted /\ Cardinality(Registered) < MaxPositions

\* Mutant: reserve does not compare the amount with the free cash.
BeginEntry_Unchecked(p) ==
    /\ Idle /\ entry = None
    /\ p \notin used
    /\ GateAllowsEntry
    /\ entry' = p /\ used' = used \cup {p}
    /\ free' = free - CashRequired /\ reserved' = reserved + CashRequired
    /\ UNCHANGED <<up, book, registry, kill, halted, pending, files, sworn, crashes, lost>>

\* The reservation is in memory only: nothing is written until a position opens.
BeginEntry(p) ==
    /\ Idle /\ entry = None
    /\ p \notin used
    /\ GateAllowsEntry
    /\ CashRequired <= free
    /\ entry' = p /\ used' = used \cup {p}
    /\ free' = free - CashRequired /\ reserved' = reserved + CashRequired
    /\ UNCHANGED <<up, book, registry, kill, halted, pending, files, sworn, crashes, lost>>

\* release: no file is written.
AbandonEntry ==
    /\ Idle /\ entry # None
    /\ entry' = None
    /\ LET amount == Smaller(CashRequired, reserved) IN
       free' = free + amount /\ reserved' = reserved - amount
    /\ UNCHANGED <<up, book, registry, kill, halted, pending, files, history>>

\* The first leg may be live: the kill switch is written, the reservation is not.
LoseEntry ==
    /\ Idle /\ entry # None
    /\ entry' = None
    /\ kill' = TRUE
    /\ pending' = <<"switch">>
    /\ UNCHANGED <<up, book, free, reserved, registry, halted, files, history>>

\* Mutant: opening a position writes the gate's file only.
Open_GateOnly(pos, registered, after) ==
    LET amount == Smaller(CashRequired, reserved) IN
    /\ Idle /\ entry # None
    /\ reserved' = reserved - amount
    /\ free' = free + amount - Locked(pos)
    /\ book' = [book EXCEPT ![entry] = pos]
    /\ registry' = [registry EXCEPT ![entry] = registered]
    /\ entry' = None
    /\ pending' = <<"gate">> \o after
    /\ UNCHANGED <<up, kill, halted, files, history>>

\* open_position / open_naked_leg: memory, then the gate's file, then the book's.
Open(pos, registered, after) ==
    LET amount == Smaller(CashRequired, reserved) IN
    /\ Idle /\ entry # None
    /\ reserved' = reserved - amount
    /\ free' = free + amount - Locked(pos)
    /\ book' = [book EXCEPT ![entry] = pos]
    /\ registry' = [registry EXCEPT ![entry] = registered]
    /\ entry' = None
    /\ pending' = <<"gate", "book">> \o after
    /\ UNCHANGED <<up, kill, halted, files, history>>

\* DEX first: the residual that could not be reversed is on the DEX.
OpenPosition(dex, perp) == perp <= dex /\ Open(Opened(dex, perp), perp, <<>>)

\* The executor engages the kill switch after the naked leg is booked and written.
OpenNakedLeg(v, fill) == Open(OpenedNaked(v, fill), fill, <<"alarm">>)

------------------------------------------------------------------------------
(* Unwinds: under the executor's lock, so never during an entry.             *)

Close(p, rest, released, registered, after) ==
    /\ Idle /\ entry = None
    /\ book' = [book EXCEPT ![p] = rest]
    /\ free' = free + released
    /\ registry' = [registry EXCEPT ![p] = IF rest.open THEN registered ELSE Unregistered]
    /\ pending' = <<"gate", "book">> \o after
    /\ UNCHANGED <<up, entry, reserved, kill, halted, files, history>>

\* The gate's verified reduce-only path (as in HedgeExecutor).
UnwindVerified(p) ==
    /\ registry[p] # Unregistered
    /\ OneLegged(book[p]) \/ book[p].perp <= registry[p]

\* close_position: the perp fill may be partial, the DEX sells as much.
CloseBoth(p, fill) ==
    LET rest == BothClosed(book[p], fill, fill) IN
    /\ book[p].open /\ ~OneLegged(book[p]) /\ fill <= book[p].perp
    /\ UnwindVerified(p)
    /\ Close(p, rest, BothReleases(book[p], fill), rest.perp, <<>>)

\* close_leg of the leg a one-legged position has left.
CloseNakedLeg(p, fill) ==
    LET v    == IF book[p].dex > 0 THEN "dex" ELSE "perp"
        rest == LegClosed(book[p], v, fill)
    IN
    /\ book[p].open /\ OneLegged(book[p]) /\ fill <= LegRegistered(book[p])
    /\ UnwindVerified(p)
    /\ Close(p, rest, LegReleases(book[p], v, fill), LegRegistered(rest), <<>>)

\* The perp closed, the DEX sell and the re-short failed.
HalfClose(p, fill) ==
    LET rest == LegClosed(book[p], "perp", fill) IN
    /\ book[p].open /\ ~OneLegged(book[p]) /\ fill <= book[p].perp
    /\ UnwindVerified(p)
    /\ Close(p, rest, LegReleases(book[p], "perp", fill), LegRegistered(rest), <<"alarm">>)

------------------------------------------------------------------------------
(* Switches.                                                                 *)

SetSwitches(k, h) ==
    /\ Idle
    /\ <<k, h>> # <<kill, halted>>
    /\ kill' = k /\ halted' = h
    /\ pending' = <<"switch">>
    /\ UNCHANGED <<up, entry, book, free, reserved, registry, files, history>>

OperatorKill(on) == SetSwitches(on, halted)
Halt             == SetSwitches(kill, TRUE)
ResetHalt        == (\A p \in Plans : ~book[p].open) /\ SetSwitches(kill, FALSE)

------------------------------------------------------------------------------
(* Writes, each a temporary file and os.replace.                             *)

\* alarm: set_kill_switch changes memory and writes.
WriteGate ==
    /\ pending # <<>> /\ Head(pending) # "book"
    /\ kill' = (kill \/ Head(pending) = "alarm")
    /\ gateFile' = [registry |-> registry, kill |-> kill', halted |-> halted]
    /\ sworn' = IF Head(pending) = "gate" THEN sworn ELSE [kill |-> kill', halted |-> halted]
    /\ pending' = Tail(pending)
    /\ UNCHANGED <<up, entry, book, free, reserved, registry, halted, bookFile, used, crashes, lost>>

WriteBook ==
    /\ pending # <<>> /\ Head(pending) = "book"
    /\ bookFile' = [book |-> book, free |-> free, reserved |-> reserved]
    /\ pending' = Tail(pending)
    /\ UNCHANGED <<up, memory, gateFile, history>>

\* An OSError.  The book logs it and goes on; the gate lets it escape, so the rest
\* of the method and of its caller does not happen.
LoseBookWrite ==
    /\ lost < MaxLost
    /\ pending # <<>> /\ Head(pending) = "book"
    /\ lost' = lost + 1
    /\ pending' = Tail(pending)
    /\ UNCHANGED <<up, memory, files, used, sworn, crashes>>

LoseGateWrite ==
    /\ lost < MaxLost
    /\ pending # <<>> /\ Head(pending) # "book"
    /\ lost' = lost + 1
    /\ kill' = (kill \/ Head(pending) = "alarm")
    /\ sworn' = IF Head(pending) = "gate" THEN sworn ELSE Unsure
    /\ pending' = <<>>
    /\ UNCHANGED <<up, entry, book, free, reserved, registry, halted, files, used, crashes>>

------------------------------------------------------------------------------
(* The process.                                                              *)

Forget ==
    /\ entry' = None
    /\ book' = EmptyBook /\ free' = Capital /\ reserved' = 0
    /\ registry' = EmptyRegistry /\ kill' = FALSE /\ halted' = FALSE
    /\ pending' = <<>>

\* stop cancels the tick loop, with the entry it may be in, and the stop monitor, then
\* writes both files.  An entry of a client is not cancelled: its reservation is written,
\* and it goes on until the process ends.
Stop ==
    /\ up = "running" /\ pending = <<>>
    /\ up' = "stopping" /\ entry' \in {entry, None}
    /\ pending' = <<"gate", "book">>
    /\ UNCHANGED <<book, free, reserved, registry, kill, halted, files, history>>

\* The end of asyncio.run: whatever is still in flight dies.
Exit ==
    /\ up = "stopping" /\ pending = <<>>
    /\ up' = "down"
    /\ Forget
    /\ UNCHANGED <<files, history>>

Crash ==
    /\ up # "down" /\ crashes < MaxCrashes
    /\ up' = "down" /\ crashes' = crashes + 1
    /\ Forget
    /\ UNCHANGED <<files, used, sworn, lost>>

\* Mutant: a restored position is not registered again.
Reregistered_Never(saved, positions) == saved

\* restore registers what the gate's file does not know, with the perp quantity.
Reregistered(saved, positions) ==
    [p \in Plans |-> IF saved[p] = Unregistered /\ positions[p].open
                     THEN positions[p].perp ELSE saved[p]]

\* Mutant: load reads the positions and the drawdown state, not the kill switch.
Start_ForgetsKill ==
    /\ up = "down" /\ up' = "running"
    /\ registry' = Reregistered(gateFile.registry, bookFile.book)
    /\ kill' = FALSE /\ halted' = gateFile.halted
    /\ book' = bookFile.book /\ free' = bookFile.free /\ reserved' = bookFile.reserved
    /\ pending' = <<"gate">>
    /\ UNCHANGED <<entry, files, history>>

\* Mutant: the reservations are not restored.
Start_NoReservations ==
    /\ up = "down" /\ up' = "running"
    /\ registry' = Reregistered(gateFile.registry, bookFile.book)
    /\ kill' = gateFile.kill /\ halted' = gateFile.halted
    /\ book' = bookFile.book /\ free' = bookFile.free /\ reserved' = 0
    /\ pending' = <<"gate">>
    /\ UNCHANGED <<entry, files, history>>

\* The gate's constructor loads its file, and start loads it again; then
\* portfolio.restore, then the first tick writes the gate.
Start ==
    /\ up = "down" /\ up' = "running"
    /\ registry' = Reregistered(gateFile.registry, bookFile.book)
    /\ kill' = gateFile.kill /\ halted' = gateFile.halted
    /\ book' = bookFile.book /\ free' = bookFile.free /\ reserved' = bookFile.reserved
    /\ pending' = <<"gate">>
    /\ UNCHANGED <<entry, files, history>>

Entries ==
    \/ \E p \in Plans : BeginEntry(p)
    \/ AbandonEntry \/ LoseEntry
    \/ \E dex, perp \in 1 .. Lots : OpenPosition(dex, perp)
    \/ \E v \in {"dex", "perp"}, q \in 1 .. Lots : OpenNakedLeg(v, q)

Unwinds ==
    \E p \in Plans, q \in 1 .. Lots : CloseBoth(p, q) \/ CloseNakedLeg(p, q) \/ HalfClose(p, q)

Next ==
    \/ Entries \/ Unwinds
    \/ \E on \in BOOLEAN : OperatorKill(on)
    \/ Halt \/ ResetHalt
    \/ WriteGate \/ WriteBook \/ LoseBookWrite \/ LoseGateWrite
    \/ Stop \/ Exit \/ Crash \/ Start

Spec == Init /\ [][Next]_vars

------------------------------------------------------------------------------
(* Properties.                                                               *)

\* Type invariant: no entry outlives the process, and no cash is spent that is not there,
\* in memory or in the book's file.
TypeOK ==
    /\ up \in {"running", "stopping", "down"}
    /\ used \subseteq Plans
    /\ entry \in Plans \cup {None} /\ (entry # None => up # "down")
    /\ book \in [Plans -> Position] /\ registry \in [Plans -> Qty \cup {Unregistered}]
    /\ free \in Nat /\ reserved \in Nat
    /\ kill \in BOOLEAN /\ halted \in BOOLEAN
    /\ pending \in Seq(Writes)
    /\ gateFile \in GateFile /\ bookFile \in BookFile
    /\ sworn \in Switches \cup {Unsure}
    /\ crashes \in 0 .. MaxCrashes /\ lost \in 0 .. MaxLost

\* However the two files came to disagree, a running engine has no open position the
\* gate does not count.
OpenIsRegistered == \A p \in Plans : book[p].open => registry[p] # Unregistered

\* Registered positions the book has never heard of hold a slot for ever: each crash
\* and each lost write leaves one at most.
Ghosts == {p \in Registered : ~book[p].open}
GhostsBounded == Cardinality(Ghosts) <= crashes + lost

\* A restart registers positions without asking the gate: the cap still holds, one
\* position more for each write that was lost.
CapSurvivesRestart == Cardinality(Registered) <= MaxPositions + lost

\* "A halt survives a restart", and so does the kill switch: whatever crashed, stopped,
\* restarted or was booked since, the switches are as they were last set.
SwitchesSurvive ==
    (Idle /\ sworn # Unsure) => sworn = [kill |-> kill, halted |-> halted]

\* Free cash, reservations and principal add up to the capital after any restart: the
\* book's file is one consistent picture.
CashSurvives ==
    free + reserved + SumFunction([p \in Plans |-> Locked(book[p])]) = Capital

\* "Reduce-only unwind (allowed while HALTED or with the kill switch on)": the gate
\* recognises an unwind of every open position, after a restart too.
ExitSurvivesRestart == Idle => \A p \in Plans : book[p].open => UnwindVerified(p)
=============================================================================

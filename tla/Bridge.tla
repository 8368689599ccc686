------------------------------- MODULE Bridge -------------------------------
(***************************************************************************)
(* The Agent OS bridge (agents/agent_os_bridge.ts): a JSON-RPC façade that *)
(* forwards tool calls to Deltr's MCP server, routes orders in two phases  *)
(* (propose, then execute), and forwards read-only calls to an upstream    *)
(* Binance MCP server it discovered at start.                              *)
(*                                                                         *)
(* Requests run concurrently.  A timeout answers the caller and nothing    *)
(* more: the call it gave up on stays in flight and Deltr may still run it.*)
(***************************************************************************)
EXTENDS Naturals, Sequences, FiniteSets, SequencesExt

CONSTANTS
    Requests,    \* the JSON-RPC requests of a run
    Inputs,      \* the bodies a caller may post
    ToolLists,   \* the tool lists an upstream may publish
    ReadNames,   \* the get_* names
    TradeNames,  \* the names of the write-like shape
    Alias,       \* OFFICIAL_TOOL_ALIASES: local name -> official names, in order
    MaxLeverage, \* MAX_LEVERAGE, the bridge's own cap
    MinCapital,  \* MIN_CAPITAL_USD
    GateLeverage,\* the leverage cap of Deltr's gate
    PositionCap, \* its cap on open positions
    NoRequest    \* a model value: no client has connected

OfficialNames == UNION {Range(Alias[n]) : n \in DOMAIN Alias}

\* "every entry above is read-only by construction": none looks like a write.
BridgeAssumption ==
    /\ \A n \in DOMAIN Alias : Alias[n] \in Seq(OfficialNames)
    /\ OfficialNames \cap TradeNames = {}
    /\ MaxLeverage \in Nat \ {0} /\ MinCapital \in Nat /\ GateLeverage \in Nat
    /\ PositionCap \in Nat
    /\ IsFiniteSet(Requests)
    /\ NoRequest \notin Requests
    /\ \A i \in Inputs :
        /\ i.kind \in {"garbage", "route", "call", "upstream"}
        /\ i.kind = "route" \/ (i.kind = "call" /\ i.tool = "propose") => i.leverage \in Nat

VARIABLES
    phase,    \* the server: official, shim, serving, closing, closed
    upstream, \* what connectUpstream found: its kind and the tools it listed
    deltr,    \* state.deltr: the request whose connection is cached
    req,      \* each request: where it is, what it asked, its plan, its reply
    calls,    \* calls sent to Deltr and not yet handled by it
    sentUp,   \* the tool names sent to the upstream so far
    plans,    \* Deltr: the plans it holds
    ran       \* Deltr: the executions it ran

vars == <<phase, upstream, deltr, req, calls, sentUp, plans, ran>>

Absent == 1000
NaN    == 1001
Number(x) == x \notin {Absent, NaN}


Unproposed  == [by |-> NoRequest, lev |-> 0]
Plans   == [by : Requests, lev : Nat]
Idle    == [at |-> "idle", in |-> [kind |-> "none"], plan |-> Unproposed, try |-> <<>>, reply |-> "none"]

Waiting == {"connect", "propose", "execute", "call", "upstream"}
Replies == {"malformed", "invalid", "refused", "unavailable", "failed", "toolerror",
            "vetoed", "proposed", "executed", "answered"}

TypeOK ==
    /\ phase \in {"official", "shim", "serving", "closing", "closed"}
    /\ upstream.kind \in {"none", "shim", "official"}
    /\ deltr \in Requests \cup {NoRequest}
    /\ \A r \in Requests :
        /\ req[r].at \in Waiting \cup {"idle", "done"}
        /\ req[r].reply \in Replies \cup {"none"}
        /\ req[r].at = "done" <=> req[r].reply # "none"
        /\ req[r].plan \in Plans \cup {Unproposed}
    /\ \A c \in calls : c.by \in Requests /\ c.op \in {"propose", "execute"}
    /\ \A p \in plans : p.plan \in Plans /\ p.state \in {"pending", "consumed"}

-----------------------------------------------------------------------------
(* Pure helpers of the bridge. *)

\* Mutant: whatever starts with get_ is taken for a read.
TradeShaped_SparesReads(n) == n \in TradeNames \ ReadNames

TradeShaped(n) == n \in TradeNames

\* Default deny: the write-like shape first, then the two allowlists.
IsForwardableReadOnly(n) ==
    /\ ~TradeShaped(n)
    /\ n \in ReadNames \cup OfficialNames

\* ordered.filter(...): the names that are discovered, in their order.
Advertised(ordered, discovered) ==
    LET kept[k \in 0..Len(ordered)] ==
            IF k = 0 THEN <<>>
            ELSE IF ordered[k] \in discovered THEN Append(kept[k - 1], ordered[k]) ELSE kept[k - 1]
    IN  kept[Len(ordered)]

\* Official names first; only those the upstream advertises, if any is.
OfficialCandidates(n, discovered) ==
    LET aliases    == IF n \in DOMAIN Alias THEN Alias[n] ELSE <<>>
        ordered    == IF n \in Range(aliases) THEN aliases ELSE Append(aliases, n)
        advertised == Advertised(ordered, discovered)
    IN  IF advertised # <<>> THEN advertised ELSE ordered

\* validateOrderIntent: every field, in any combination, or -32602.
ValidateOrderIntent(i) ==
    /\ i.symbol = "ok"
    /\ Number(i.capital) /\ i.capital >= MinCapital
    /\ i.leverage # Absent => Number(i.leverage) /\ 0 < i.leverage /\ i.leverage <= MaxLeverage
    /\ i.confirm \in {"absent", "yes", "no"}

\* Mutant: only a bad request is an error to the shell.
ExitCode_Lenient(reply) == IF reply \in {"invalid", "malformed"} THEN 2 ELSE 0

\* The exit status of the command line's route and call for a reply.
ExitCode(reply) ==
    CASE reply \in {"invalid", "malformed"}               -> 2
      [] reply \in {"executed", "proposed", "answered"}   -> 0
      [] OTHER                                            -> 1

Init ==
    /\ phase = "official"
    /\ upstream = [kind |-> "none", tools |-> {}]
    /\ deltr = NoRequest
    /\ req = [r \in Requests |-> Idle]
    /\ calls = {} /\ sentUp = {} /\ plans = {} /\ ran = {}

-----------------------------------------------------------------------------
(* connectUpstream: official, else shim, else none; never probed again. *)

DiscoverOfficial ==
    /\ phase = "official"
    /\ \/ /\ \E t \in ToolLists : upstream' = [kind |-> "official", tools |-> t]
          /\ phase' = "serving"
       \/ phase' = "shim" /\ UNCHANGED upstream
    /\ UNCHANGED <<deltr, req, calls, sentUp, plans, ran>>

DiscoverShim ==
    /\ phase = "shim"
    /\ phase' = "serving"
    /\ \/ \E t \in ToolLists : upstream' = [kind |-> "shim", tools |-> t]
       \/ UNCHANGED upstream
    /\ UNCHANGED <<deltr, req, calls, sentUp, plans, ran>>

-----------------------------------------------------------------------------
(* A request. *)

\* A request is taken: it waits, or is answered on the spot.
Await(r, in, at)    == req' = [req EXCEPT ![r].at = at, ![r].in = in]
Refuse(r, in, what) == req' = [req EXCEPT ![r].at = "done", ![r].in = in, ![r].reply = what]
Reply(r, what)      == req' = [req EXCEPT ![r].at = "done", ![r].reply = what]

Send(c) == calls' = calls \cup {c}

ProposeCall(r, i) == [by |-> r, op |-> "propose", plan |-> Unproposed,
                      lev |-> IF i.leverage = Absent THEN 1 ELSE i.leverage]
ExecuteCall(r, p) == [by |-> r, op |-> "execute", plan |-> p, lev |-> p.lev]

\* tools/call forwards any tool with any arguments; here a propose of the
\* caller's own leverage, or an execute of a plan the caller has heard of.
ToolCall(r, in) ==
    IF in.tool = "propose" THEN {ProposeCall(r, in)}
    ELSE {ExecuteCall(r, p.plan) : p \in plans}

Start(r, in) ==
    IF in.kind = "route"
    THEN Send(ProposeCall(r, in)) /\ Await(r, in, "propose")
    ELSE \/ /\ ToolCall(r, in) = {}
            /\ Refuse(r, in, "toolerror")
            /\ UNCHANGED calls
         \/ \E c \in ToolCall(r, in) : Send(c) /\ Await(r, in, "call")

Accept(r, in) ==
    /\ phase = "serving" /\ req[r].at = "idle"
    /\ \/ /\ in.kind = "garbage"
          /\ Refuse(r, in, "malformed")
          /\ UNCHANGED <<calls, sentUp>>
       \/ /\ in.kind = "route" /\ ~ValidateOrderIntent(in)
          /\ Refuse(r, in, "invalid")
          /\ UNCHANGED <<calls, sentUp>>
       \/ /\ in.kind = "call" \/ (in.kind = "route" /\ ValidateOrderIntent(in))
          /\ IF deltr = NoRequest
             THEN Await(r, in, "connect") /\ UNCHANGED calls
             ELSE Start(r, in)
          /\ UNCHANGED sentUp
       \/ /\ in.kind = "upstream"
          /\ UNCHANGED calls
          /\ IF TradeShaped(in.name) \/ ~IsForwardableReadOnly(in.name)
             THEN Refuse(r, in, "refused") /\ UNCHANGED sentUp
             ELSE IF upstream.kind = "none"
             THEN Refuse(r, in, "unavailable") /\ UNCHANGED sentUp
             ELSE LET names == OfficialCandidates(in.name, upstream.tools) IN
                  /\ req' = [req EXCEPT ![r].at = "upstream", ![r].in = in, ![r].try = Tail(names)]
                  /\ sentUp' = sentUp \cup {Head(names)}
    /\ UNCHANGED <<phase, upstream, deltr, plans, ran>>

\* getDeltr: every request that found no client makes one; the last one stays.
Connected(r) ==
    /\ req[r].at = "connect"
    /\ deltr' = r
    /\ Start(r, req[r].in)
    /\ UNCHANGED <<phase, upstream, sentUp, plans, ran>>

\* Refused or timed out.
ConnectFails(r) ==
    /\ req[r].at = "connect"
    /\ Reply(r, "unavailable")
    /\ UNCHANGED <<phase, upstream, deltr, calls, sentUp, plans, ran>>

\* Mutant: a plain tool call is made without the timeout.
Timeout_OrdersOnly(r) ==
    /\ req[r].at \in {"propose", "execute"}
    /\ Reply(r, "failed")
    /\ UNCHANGED <<phase, upstream, deltr, calls, sentUp, plans, ran>>

\* withTimeout: the caller is answered, the call is not recalled.
Timeout(r) ==
    /\ req[r].at \in {"propose", "execute", "call"}
    /\ Reply(r, "failed")
    /\ UNCHANGED <<phase, upstream, deltr, calls, sentUp, plans, ran>>

UpstreamAnswers(r) ==
    /\ req[r].at = "upstream"
    /\ Reply(r, "answered")
    /\ UNCHANGED <<phase, upstream, deltr, calls, sentUp, plans, ran>>

\* The candidate did not answer: the next one, or the last error.
UpstreamFails(r) ==
    /\ req[r].at = "upstream"
    /\ IF req[r].try = <<>>
       THEN Reply(r, "failed") /\ UNCHANGED sentUp
       ELSE /\ req' = [req EXCEPT ![r].try = Tail(@)]
            /\ sentUp' = sentUp \cup {Head(req[r].try)}
    /\ UNCHANGED <<phase, upstream, deltr, calls, plans, ran>>

-----------------------------------------------------------------------------
(* Deltr's side of a call, and routeOrder's side of its answer.            *)

Consumed(p) == [plan |-> p, state |-> "consumed"]
Pending(p)  == [plan |-> p, state |-> "pending"]
Approves(lev) == lev <= GateLeverage /\ Cardinality(ran) < PositionCap

OnProposal(r, p, approved) ==
    IF ~approved THEN Reply(r, "vetoed")
    ELSE IF req[r].in.confirm # "yes"
    THEN req' = [req EXCEPT ![r].at = "done", ![r].plan = p, ![r].reply = "proposed"]
    ELSE req' = [req EXCEPT ![r].at = "execute", ![r].plan = p]

\* Mutant: an approved proposal is executed at once.
NextCalls_Unconfirmed(r, p, approved) == IF approved THEN {ExecuteCall(r, p)} ELSE {}

\* The next call of a route whose proposal was approved and is confirmed.
NextCalls(r, p, approved) ==
    IF approved /\ req[r].in.confirm = "yes" THEN {ExecuteCall(r, p)} ELSE {}

\* Deltr handles a propose.  The answer reaches the bridge or is lost; it is
\* used only if the request still waits for it.
HandlePropose(c, reaches) ==
    LET p == [by |-> c.by, lev |-> c.lev]
        heard == reaches /\ req[c.by].at \in {"propose", "call"}
    IN
    /\ c.op = "propose"
    /\ \/ /\ plans' = plans \cup {Pending(p)}
          /\ IF ~heard THEN UNCHANGED req /\ calls' = calls \ {c}
             ELSE IF req[c.by].at = "call"
             THEN Reply(c.by, "answered") /\ calls' = calls \ {c}
             ELSE /\ OnProposal(c.by, p, Approves(c.lev))
                  /\ calls' = (calls \ {c}) \cup NextCalls(c.by, p, Approves(c.lev))
       \/ /\ heard
          /\ Reply(c.by, "toolerror")
          /\ calls' = calls \ {c}
          /\ UNCHANGED plans
    /\ UNCHANGED <<phase, upstream, deltr, sentUp, ran>>

\* Deltr handles an execute: a plan runs at most once and only if the gate
\* still approves it.  A receipt comes back either way.
HandleExecute(c, reaches) ==
    LET heard == reaches /\ req[c.by].at \in {"execute", "call"}
        fresh == Pending(c.plan) \in plans
        done  == IF req[c.by].at = "execute" THEN "executed" ELSE "answered"
    IN
    /\ c.op = "execute"
    /\ calls' = calls \ {c}
    /\ plans' = IF fresh THEN (plans \ {Pending(c.plan)}) \cup {Consumed(c.plan)} ELSE plans
    /\ ran' = IF fresh /\ Approves(c.lev) THEN ran \cup {[by |-> c.by, plan |-> c.plan]} ELSE ran
    /\ IF heard THEN Reply(c.by, IF fresh THEN done ELSE "toolerror") ELSE UNCHANGED req
    /\ UNCHANGED <<phase, upstream, deltr, sentUp>>

-----------------------------------------------------------------------------
(* Shutdown: no new request, the open ones are waited for. *)

Close ==
    /\ phase = "serving"
    /\ phase' = "closing"
    /\ UNCHANGED <<upstream, deltr, req, calls, sentUp, plans, ran>>

Closed ==
    /\ phase = "closing"
    /\ \A r \in Requests : req[r].at \in {"idle", "done"}
    /\ phase' = "closed"
    /\ deltr' = NoRequest
    /\ UNCHANGED <<upstream, req, calls, sentUp, plans, ran>>

Next ==
    \/ DiscoverOfficial \/ DiscoverShim
    \/ \E r \in Requests :
        \/ \E in \in Inputs : Accept(r, in)
        \/ Connected(r) \/ ConnectFails(r) \/ Timeout(r)
        \/ UpstreamAnswers(r) \/ UpstreamFails(r)
    \/ \E c \in calls, reaches \in BOOLEAN : HandlePropose(c, reaches) \/ HandleExecute(c, reaches)
    \/ Close \/ Closed

(***************************************************************************)
(* Only the bridge's own timers and its shutdown are fair: neither Deltr   *)
(* nor the upstream need ever answer.                                      *)
(***************************************************************************)
Fairness ==
    /\ \A r \in Requests :
        WF_vars(ConnectFails(r) \/ Timeout(r) \/ UpstreamFails(r))
    /\ WF_vars(Closed)

Spec == Init /\ [][Next]_vars /\ Fairness

-----------------------------------------------------------------------------
(* Properties. *)

IsRoute(r) == req[r].in.kind = "route"

\* An order routed by the bridge executes only the plan Deltr made for that
\* very request, and only after both phases: an intent within the bridge's
\* own limits, and a confirmation - whatever timed out or came late, and
\* however many requests share the client.
GatedRoute ==
    \A x \in ran \cup {c \in calls : c.op = "execute"} :
        IsRoute(x.by) =>
            /\ x.plan.by = x.by
            /\ x.plan.lev <= MaxLeverage
            /\ req[x.by].in.confirm = "yes"

\* A reply "executed" is never ahead of Deltr: the plan it names was consumed
\* by an execution.  (The converse fails: a reply "failed" may hide one.)
OkMeansRun ==
    \A r \in Requests :
        /\ req[r].reply = "executed" => Consumed(req[r].plan) \in plans
        /\ req[r].reply = "proposed" => ~ \E x \in ran : x.by = r
        /\ IsRoute(r) /\ req[r].at = "done" /\ req[r].in.confirm = "yes" /\ ExitCode(req[r].reply) = 0
               => Consumed(req[r].plan) \in plans

\* Nothing of a write-like shape is ever sent to the upstream, by any of the
\* names a request is retried under.
ReadOnlyUpstream == sentUp \subseteq (ReadNames \cup OfficialNames) \ TradeNames

\* Every request is answered although neither server is ever obliged to, and
\* a shutdown that has begun ends: from some point on nothing waits.
EveryCallAnswered ==
    <>[](phase # "closing" /\ \A r \in Requests : req[r].at \notin Waiting)
=============================================================================

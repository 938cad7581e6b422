------------------------------ MODULE MakerPage ------------------------------
(***************************************************************************)
(* What a market maker's page shows of each event (marketmaking.controller *)
(* mmDisplayPage): the odds page lists standalone events and the children  *)
(* of a parent event, of which exactly one will be settled Yes, and tells  *)
(* for each of them what the maker gains when it is.                       *)
(***************************************************************************)
EXTENDS Integers, Sequences, Functions

CONSTANTS
    Events,     \* ids of events, positive numbers
    Prices,     \* prices of a contract, below Full
    Numbers,    \* numbers of contracts of a call
    MaxCalls,   \* bound on the maker's calls
    Trees       \* parent_id of every event: 0 standalone, -1 a parent, or a parent's id

Full == 100     \* a contract's value when it wins
Sides == {"Y", "N"}
\* rank 0; rank -1 and status H (sold); rank -1 otherwise
States == {"matched", "exited", "open"}

VARIABLES
    parent,     \* per event, parent_id
    listed,     \* the events of getProbes: finished ones are missing
    calls,      \* the maker's calls
    asked,      \* eventIds of the request
    page        \* its answer, a row per event

vars == <<parent, listed, calls, asked, page>>

Init ==
    /\ parent \in Trees
    /\ listed \in SUBSET Events
    /\ calls = <<>> /\ asked = {} /\ page = {}

\* External: an order of the maker is accepted, matched or sold.
Trade ==
    /\ Len(calls) < MaxCalls /\ asked = {} /\ page = {}
    /\ \E e \in {d \in Events : parent[d] # -1}, v \in Sides, s \in States, p \in Prices, n \in Numbers :
          calls' = Append(calls, [event |-> e, side |-> v, state |-> s, coins |-> p, n |-> n])
    /\ UNCHANGED <<parent, listed, asked, page>>

-------------------------------------------------------------------------------
(* Sums over calls *)

Total(f, C) == FoldFunctionOnSet(+, 0, f, C)
\* getMyBetsV3: the calls of the events asked for
Trades(E) == {i \in DOMAIN calls : calls[i].event \in E \intersect asked}
Matched(E, V) == {i \in Trades(E) : calls[i].state = "matched" /\ calls[i].side \in V}
Contracts(C) == Total([i \in DOMAIN calls |-> calls[i].n], C)
Invested(C) == Total([i \in DOMAIN calls |-> calls[i].n * calls[i].coins], C)

\* yPnL - nPnL: what was paid cancels out, calls matched and sold count.
Pnl(e) ==
    LET of(v) == {i \in Trades({e}) : calls[i].state # "open" /\ calls[i].side = v} IN
    Full * (Contracts(of("Y")) - Contracts(of("N")))

\* The contracts still open or sold (rank -1), per side
Quantity(e, v) ==
    Contracts({i \in Trades({e}) : calls[i].state # "matched" /\ calls[i].side = v})

Parents == {e \in listed : parent[e] <= 0}
Children(p) == {e \in listed : parent[e] = p}

StandaloneRow(e) ==
    LET gain(v) == Full * Contracts(Matched({e}, {v})) - Invested(Matched({e}, Sides)) IN
    [event |-> e, profitYes |-> gain("Y"), profitNo |-> gain("N"), pnl |-> Pnl(e),
     yQty |-> Quantity(e, "Y"), nQty |-> Quantity(e, "N")]

\* Mutant: a child's own No contracts count among its siblings'.
OppositeNoSumOfAll(e) == Contracts(Matched(Children(parent[e]), {"N"}))

\* The No contracts of its siblings win with a child.
OppositeNoSum(e) == Contracts(Matched(Children(parent[e]) \ {e}, {"N"}))

ChildRow(e) ==
    [event |-> e,
     profitYes |-> Full * (Contracts(Matched({e}, {"Y"})) + OppositeNoSum(e))
                       - Invested(Matched(Children(parent[e]), Sides)),
     profitNo |-> 0, pnl |-> Pnl(e),
     yQty |-> Quantity(e, "Y"), nQty |-> Quantity(e, "N")]

\* A child whose parent is not listed counts as standalone.
Standalone == {e \in listed : parent[e] = 0 \/ (parent[e] > 0 /\ parent[e] \notin Parents)}

MmDisplayPage ==
    /\ asked' \in SUBSET Events
    /\ page = {} /\ asked = {}
    /\ UNCHANGED <<parent, listed, calls, page>>

Rows ==
    /\ asked # {} /\ page = {}
    /\ page' = {StandaloneRow(e) : e \in Standalone}
               \union {ChildRow(e) : e \in UNION {Children(p) : p \in Parents}}
    /\ UNCHANGED <<parent, listed, calls, asked>>

Next == Trade \/ MmDisplayPage \/ Rows
Spec == Init /\ [][Next]_vars

-------------------------------------------------------------------------------
(* Properties *)

\* Every variable has its type.
TypeOK ==
    /\ parent \in Trees /\ listed \subseteq Events /\ asked \subseteq Events
    /\ calls \in Seq([event : Events, side : Sides, state : States, coins : Prices, n : Numbers])
    /\ \A row \in page : row.event \in Events

\* What a call pays when e is settled Yes and with it the other children of its parent No.
Payoff(c, e) ==
    (IF c.side = (IF c.event = e THEN "Y" ELSE "N") THEN Full * c.n ELSE 0) - c.coins * c.n

Family(e) == {d \in Events : d = e \/ (parent[e] > 0 /\ parent[d] = parent[e])}

\* profitYes is what the matched calls of the event and of its siblings pay when it is
\* settled Yes, provided that all of them, and their parent, were asked for and listed.
ProfitIsPayoff ==
    \A row \in page :
        LET e == row.event
            mine == {j \in DOMAIN calls : calls[j].event \in Family(e) /\ calls[j].state = "matched"} IN
        Family(e) \subseteq asked \intersect listed /\ (parent[e] > 0 => parent[e] \in listed)
            => row.profitYes = Total([j \in DOMAIN calls |-> Payoff(calls[j], e)], mine)
==============================================================================

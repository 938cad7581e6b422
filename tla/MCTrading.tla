------------------------------ MODULE MCTrading -------------------------------
(* Trading's components in one run: the odds page and the bulk orders of market *)
(* makers, and liquidity.  They share no state and no actor, so that a behaviour  *)
(* is one of them: part says which, and the variables of the others are None    *)
(* throughout.                                                                  *)
EXTENDS Integers, FiniteSets, TLC

CONSTANTS
    Requests, Users, None,
    Events, Prices, Numbers, MaxCalls, Trees,   \* MakerPage
    Bulk, Coins,                                \* MarketMaking
    Shares                                      \* Liquidity

VARIABLES
    part, parent, calls, asked, page, listed, kind, pc, key, inbox, freed,
    open, last, wallet, size, todo, version, cache, read, unclear, several,
    left, stale, user, shares, tokens, resp, answer, overlapped

ofPage == <<
    parent, calls, asked, page>>
ofPageAndMarket == <<
    listed>>
ofMarketAndLiquidity == <<
    kind, pc, key, inbox, freed>>
ofMarket == <<
    open, last, wallet, size, todo, version, cache, read, unclear, several,
    left, stale>>
ofLiquidity == <<
    user, shares, tokens, resp, answer, overlapped>>

\* A parent with two children, and one with a child beside a standalone event.
SomeTrees == {<<-1, 1, 1>>, <<-1, 1, 0>>}

\* Requests about the page and requests with orders share no state.
AboutPage == {"halt", "display", "script"}
Mixed ==
    \/ \A r \in Requests : kind[r] \in AboutPage
    \/ /\ \A r \in Requests : kind[r] \notin AboutPage
       /\ Cardinality({r \in Requests : kind[r] \in {"bulk", "bulkOfMM"}}) <= 2

Pa == INSTANCE MakerPage
Mk == INSTANCE MarketMaking
Li == INSTANCE Liquidity

\* A parent's parent_id is not that of another event.
ASSUME PageAssumption ==
    /\ Events \subseteq Nat \ {0} /\ Prices \subseteq Nat /\ Numbers \subseteq Nat
    /\ Trees \subseteq [Events -> Int]
    /\ \A tree \in Trees : \A e, p \in Events : tree[e] = p => tree[p] <= 0

ASSUME MarketAssumption ==
    Bulk \in Nat /\ Coins \in Nat /\ None \notin Requests \union Mk!Order

ASSUME LiquidityAssumption ==
    IsFiniteSet(Users) /\ Users # {} /\ Shares \in Nat \ {0} /\ None \notin Requests

NoPage ==
    /\ parent = None
    /\ calls = None
    /\ asked = None
    /\ page = None

NoPageAndMarket ==
    /\ listed = None

NoMarketAndLiquidity ==
    /\ kind = None
    /\ pc = None
    /\ key = None
    /\ inbox = None
    /\ freed = None

NoMarket ==
    /\ open = None
    /\ last = None
    /\ wallet = None
    /\ size = None
    /\ todo = None
    /\ version = None
    /\ cache = None
    /\ read = None
    /\ unclear = None
    /\ several = None
    /\ left = None
    /\ stale = None

NoLiquidity ==
    /\ user = None
    /\ shares = None
    /\ tokens = None
    /\ resp = None
    /\ answer = None
    /\ overlapped = None

Init ==
    \/ /\ part = "page" /\ Pa!Init
       /\ NoMarketAndLiquidity /\ NoMarket /\ NoLiquidity
    \/ /\ part = "market" /\ Mk!Init /\ Mixed
       /\ NoPage /\ NoLiquidity
    \/ /\ part = "liquidity" /\ Li!Init
       /\ NoPage /\ NoPageAndMarket /\ NoMarket

Next ==
    \/ /\ part = "page" /\ Pa!Next
       /\ UNCHANGED <<part, ofMarketAndLiquidity, ofMarket, ofLiquidity>>
    \/ /\ part = "market" /\ Mk!Next
       /\ UNCHANGED <<part, ofPage, ofLiquidity>>
    \/ /\ part = "liquidity" /\ Li!Next
       /\ UNCHANGED <<part, ofPage, ofPageAndMarket, ofMarket>>

vars == <<part, ofPage, ofPageAndMarket, ofMarketAndLiquidity, ofMarket, ofLiquidity>>

Spec == Init /\ [][Next]_vars

Symmetry == Permutations(Requests)

\* The components' properties.
ProfitIsPayoff == part = "page" => Pa!ProfitIsPayoff
MakerOrders == part = "market" => Mk!MakerOrders
LiquidityIsOwn == part = "liquidity" => Li!LiquidityIsOwn
===============================================================================

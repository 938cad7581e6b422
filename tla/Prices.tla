-------------------------------- MODULE Prices --------------------------------
(***************************************************************************)
(* The current price of one event and the page of its open calls, which    *)
(* Redis caches: eventCpMap, without a TTL, and the key of                 *)
(* getOpenCallsCachingKey, for an hour.  Trades (events.controller         *)
(* putCall, marketmaking.controller) delete both and compute the price     *)
(* again; readers (getExitPositions, getProbeCallsOpen) fill them from a   *)
(* replica of the database that lags behind.                               *)
(*                                                                         *)
(* In an event whose price is editable (CDA) the market is a book of       *)
(* orders and the price its best orders; in the others it is the position  *)
(* of a pool, whose price the exchange mathematics (external) tell.        *)
(* totalamount is 100, which the queries of the best price write out.      *)
(***************************************************************************)
EXTENDS Integers, FiniteSets, FiniteSetsExt

CONSTANTS
    Requests,   \* trades and readers of the event
    BookOrders, \* the orders that may be open, as [callvalue, status, coins]
    None        \* nothing cached, not a number

Full == 100
Sides == {"Y", "N"}
Other(v) == IF v = "Y" THEN "N" ELSE "Y"
\* putCall stands for putCallbulk too, which treats the caches alike.
Trades == {"putCall", "odds", "cancel"}
Readers == {"exit", "calls", "callsMM", "myBets"}

\* An order is for one side, active or on hold for sale, and bids 1 to 99.
\* What the open orders bid for v at most: the orders for v (A), and those for the
\* other side that are on hold for sale (H).
Bid(book, v) ==
    Max({0} \union {o.coins : o \in {p \in book : p.status = "A" /\ p.callvalue = v}}
            \union {Full - o.coins : o \in {p \in book : p.status = "H" /\ p.callvalue = Other(v)}})

Books == {b \in SUBSET BookOrders : Bid(b, "Y") + Bid(b, "N") < Full}   \* others match
Positions == 0 .. 1

Quote(y, n, newY, newN) == [yCP |-> y, nCP |-> n, newYCP |-> newY, newNCP |-> newN]
Default == Quote(50, 50, None, None)        \* no row

\* getCDABestPrice
BestPrice(book) ==
    LET y == Bid(book, "Y") IN
    LET n == Bid(book, "N") IN
    Quote(IF n = 0 THEN 50 ELSE Full - n, IF y = 0 THEN 50 ELSE Full - y,
          IF n # 0 THEN Full - n ELSE IF y # 0 THEN y ELSE 50,
          IF y # 0 THEN Full - y ELSE IF n # 0 THEN n ELSE 50)

\* getCDACurrentPrice: the middle of what is bid and asked, rounded towards 50.
MidPrice(book) ==
    LET twice == Full + Bid(book, "Y") - Bid(book, "N") IN
    LET y == IF twice > Full THEN twice \div 2 ELSE (twice + 1) \div 2 IN
    Quote(y, Full - y, None, None)

\* External: getTruePrices, getCurrentLiquidityData.
PoolPrice(position) ==
    LET y == 40 + 20 * position IN Quote(y, Full - y, y, Full - y)

\* What getExitPositions offers for a contract of side v.
ExitPrice(q, v) == Full - (IF v = "Y" THEN q.nCP ELSE q.yCP)

Page(m, q) == [market |-> m, quote |-> q]

VARIABLES
    editable,   \* is_price_editable of the event
    market,     \* a book, or a pool's position
    replica,    \* what the replica has of it
    cp,         \* eventCpMap of the event: a quote or None
    page,       \* the page cached or None
    kind,       \* per request, its handler
    domain,     \* per request: public or fantasy, which has other events of the same id
    pending,    \* orders the matching engine has not dealt with yet
    pc,         \* per request, the step it is at
    seen,       \* per request, what it has read
    stale       \* of cp and page, those that were out of date when they were written,
                \* or could become so while an order was pending

vars == <<editable, market, replica, cp, page, kind, domain, pending, pc, seen, stale>>
request == <<editable, kind, domain>>

Markets == IF editable THEN Books ELSE Positions
PriceOf(m) == IF editable THEN BestPrice(m) ELSE PoolPrice(m)
\* The best price a reader finds: in an event that is not editable the query has no row.
BestOf(m) == IF editable THEN BestPrice(m) ELSE Default

\* What a reader finds on the replica, in the schema of its domain.
Found(r) == IF domain[r] = "public" THEN {replica} ELSE Markets

Init ==
    /\ editable \in BOOLEAN
    /\ market \in (IF editable THEN {{}} ELSE {0}) /\ replica = market
    /\ cp = Quote(50, 50, 50, 50) /\ page = None        \* createEvent
    /\ kind \in [Requests -> Trades \union Readers]
    /\ domain \in [Requests -> {"public", "fantasy"}]
    /\ \A r \in Requests : domain[r] = "fantasy" => kind[r] \in {"putCall", "exit", "calls"}
    /\ pending = {} /\ pc = [r \in Requests |-> "idle"] /\ seen = [r \in Requests |-> Page(None, None)]
    /\ stale = IF editable THEN {} ELSE {"cp"}

Step(r, from, to) == pc[r] = from /\ pc' = [pc EXCEPT ![r] = to]

PutCp(q) ==
    /\ cp' = q
    /\ stale' = IF q # PriceOf(market) THEN stale \union {"cp"} ELSE stale \ {"cp"}

\* putCall deletes the page before it sends the order to the matching engine; the other
\* trades do so when the engine is done.
Send(r) ==
    /\ kind[r] \in Trades /\ Step(r, "idle", "sent")
    /\ pending' = pending \union {r}
    /\ IF kind[r] = "putCall" /\ domain[r] = "public"
       THEN page' = None /\ stale' = stale \ {"page"}
       ELSE UNCHANGED <<page, stale>>
    /\ UNCHANGED <<request, market, replica, cp, seen>>

\* External: the engine adds an order to the book, or takes one out; a pool moves.  It
\* works on the schema of the order's domain.
Match(r) ==
    /\ r \in pending /\ pending' = pending \ {r}
    /\ IF domain[r] = "public"
       THEN \E m \in Markets :
               /\ editable => Cardinality((m \ market) \union (market \ m)) <= 1
               /\ market' = m
       ELSE UNCHANGED market
    /\ stale' = IF pc[r] = "sent" THEN stale ELSE {"cp", "page"}   \* nobody deletes any more
    /\ UNCHANGED <<request, replica, cp, page, pc, seen>>

\* Mutant: the price stays until it is computed again.
ClearNot(r) ==
    /\ Step(r, "sent", "cleared") /\ r \notin pending
    /\ UNCHANGED <<request, market, replica, cp, page, pending, seen, stale>>

\* The key of the request is gone: the engine is done, or the key has expired or has been
\* deleted for another request.
Clear(r) ==
    /\ Step(r, "sent", "cleared")
    /\ cp' = None
    /\ IF kind[r] = "putCall"
       THEN page' = page /\ stale' = stale \ {"cp"}
       ELSE page' = None /\ stale' = {}
    /\ UNCHANGED <<request, market, replica, pending, seen>>

\* An answer of the engine, no position found, an order that is only open, or a handler
\* that does not compute the price again.
AnswerEarly(r) ==
    /\ Step(r, "cleared", "done") /\ kind[r] \in {"putCall", "odds"}
    /\ UNCHANGED <<request, market, replica, cp, page, pending, seen, stale>>

\* updatePrice, which nobody waits for.  It passes the schema where getCDABestPrice has
\* useReadOnly, so that it reads the public schema from the primary.
UpdateRead(r) ==
    /\ kind[r] \in {"putCall", "cancel"} /\ Step(r, "cleared", "computed")
    /\ seen' = [seen EXCEPT ![r] = Page(None, PriceOf(market))]
    /\ UNCHANGED <<request, market, replica, cp, page, pending, stale>>
UpdateWrite(r) ==
    /\ kind[r] \in Trades /\ Step(r, "computed", "done")
    /\ PutCp(seen[r].quote)
    /\ UNCHANGED <<request, market, replica, page, pending, seen>>

\* getExitPositions and getMyBetsCP: the key exists, and is read by another call.
ExitCached(r) ==
    /\ kind[r] \in {"exit", "myBets"} /\ (kind[r] = "myBets" => editable)
    /\ cp # None /\ Step(r, "idle", "cached")
    /\ UNCHANGED <<request, market, replica, cp, page, pending, seen, stale>>
ExitGet(r) ==       \* JSON.parse of a key deleted in between is null: TypeError
    /\ pc[r] = "cached"
    /\ pc' = [pc EXCEPT ![r] = IF cp = None THEN "failed" ELSE "done"]
    /\ UNCHANGED <<request, market, replica, cp, page, pending, seen, stale>>
ExitRead(r) ==
    /\ kind[r] = "exit" /\ cp = None /\ Step(r, "idle", "computed")
    /\ \E m \in Found(r) : seen' = [seen EXCEPT ![r] = Page(None, BestOf(m))]
    /\ UNCHANGED <<request, market, replica, cp, page, pending, stale>>
ExitWrite(r) ==
    /\ kind[r] = "exit" /\ Step(r, "computed", "done")
    /\ PutCp(seen[r].quote)
    /\ UNCHANGED <<request, market, replica, page, pending, seen>>
MyBetsCP(r) ==      \* MidPrice or PoolPrice, which it does not cache
    /\ kind[r] = "myBets" /\ (cp = None \/ ~editable) /\ Step(r, "idle", "done")
    /\ UNCHANGED <<request, market, replica, cp, page, pending, seen, stale>>

\* getProbeCallsOpen and getProbeCallsOpenMM.
PageCached(r) ==
    /\ kind[r] \in {"calls", "callsMM"} /\ Step(r, "idle", "done")
    /\ IF domain[r] = "public" THEN page # None ELSE TRUE     \* fantasy has its own page
    /\ UNCHANGED <<request, market, replica, cp, page, pending, seen, stale>>
ReadCalls(r) ==
    /\ kind[r] \in {"calls", "callsMM"} /\ page = None /\ Step(r, "idle", "listed")
    /\ \E m \in Found(r) : seen' = [seen EXCEPT ![r] = Page(m, None)]
    /\ UNCHANGED <<request, market, replica, cp, page, pending, stale>>
ReadPrice(r) ==     \* a query of its own; only a pool's price is cached
    /\ Step(r, "listed", IF kind[r] = "calls" THEN "computed" ELSE "done")
    /\ \E m \in Found(r) :
          /\ seen' = [seen EXCEPT ![r].quote = PriceOf(m)]
          /\ IF ~editable /\ kind[r] = "calls" THEN PutCp(PriceOf(m)) ELSE UNCHANGED <<cp, stale>>
    /\ UNCHANGED <<request, market, replica, page, pending>>
WritePage(r) ==
    /\ kind[r] = "calls" /\ Step(r, "computed", "done")
    /\ IF domain[r] = "public"
       THEN /\ page' = seen[r]
            /\ stale' = IF seen[r].market # market \/ seen[r].quote # PriceOf(market) \/ pending # {}
                        THEN stale \union {"page"} ELSE stale \ {"page"}
       ELSE UNCHANGED <<page, stale>>
    /\ UNCHANGED <<request, market, replica, cp, pending, seen>>

Replicate ==
    /\ replica # market /\ replica' = market
    /\ UNCHANGED <<request, market, cp, page, pending, pc, seen, stale>>

PageExpire ==
    /\ page # None /\ page' = None /\ stale' = stale \ {"page"}
    /\ UNCHANGED <<request, market, replica, cp, pending, pc, seen>>

Next ==
    \/ \E r \in Requests :
          \/ Send(r) \/ Match(r) \/ Clear(r) \/ AnswerEarly(r) \/ UpdateRead(r) \/ UpdateWrite(r)
          \/ ExitCached(r) \/ ExitGet(r) \/ ExitRead(r) \/ ExitWrite(r) \/ MyBetsCP(r)
          \/ PageCached(r) \/ ReadCalls(r) \/ ReadPrice(r) \/ WritePage(r)
    \/ Replicate \/ PageExpire

Spec == Init /\ [][Next]_vars

Refreshing == {r \in Requests : pc[r] = "sent"}
-------------------------------------------------------------------------------
TypeOK ==
    /\ editable \in BOOLEAN /\ market \in Markets /\ replica \in Markets
    /\ pending \subseteq Requests /\ stale \subseteq {"cp", "page"}
    /\ pc \in [Requests -> {"idle", "sent", "cleared", "cached", "listed", "computed", "done", "failed"}]

\* The price cached is the market's, unless it was out of date when it was written: every
\* change of the market is followed by a deletion.  (A key that goes before the engine is
\* done ends the deletion early.)
PriceIsCurrent ==
    cp # None /\ cp # PriceOf(market) => "cp" \in stale \/ Refreshing # {}

\* So is the page of open calls.
PageIsCurrent ==
    page # None /\ page.market # market => "page" \in stale \/ Refreshing # {}

\* In a book no quote lets anybody buy both sides for less than they pay; whoever leaves
\* his position is quoted what somebody bids for it; the price shown lies between the two.
FairQuotes ==
    editable =>
        /\ BestPrice(market).newYCP + BestPrice(market).newNCP >= Full
        /\ \A v \in Sides :
              Bid(market, v) > 0 => ExitPrice(BestPrice(market), v) = Bid(market, v)
        /\ MidPrice(market).yCP \in Bid(market, "Y") .. Full - Bid(market, "N")

\* What users are quoted is the market's own price, up to what readers of a replica, or
\* trades that overlap, have written: the deletions of putCall, the odds orders and the
\* cancellations reach both caches, whatever the order of requests, engine and readers.
QuotesHold == PriceIsCurrent /\ PageIsCurrent /\ FairQuotes
===============================================================================

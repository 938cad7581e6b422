--------------------------------- MODULE Trade ---------------------------------
(***************************************************************************)
(* What putCall (events.controller.js) decides before it hands an order to *)
(* the matching engine (external): the limits of private events and of     *)
(* max_trade_amount, the wallet, the shares to sell and the order to       *)
(* cancel, for one user's requests on several events.  mergeYesNoTokens    *)
(* runs beside it.                                                         *)
(*                                                                         *)
(* Each check reads the database, and the engine acts later; the key       *)
(* put_call_req_<user>_<event> keeps requests on one event apart, nothing  *)
(* those on two.  A call costs its amount, a share is worth a coin, and    *)
(* merges find enough shares of the other side.                            *)
(***************************************************************************)
EXTENDS Integers, FiniteSets

CONSTANTS
    Requests,
    Events,
    PrivateLimit,    \* MAX_ALLOWED_PRIVATE_EVENTS_COUNT
    RetentionLimit,  \* MAX_ALLOWED_RETENTION_PRIVATE_EVENTS_COUNT
    MaxTradeAmount,  \* max_trade_amount of the events
    Funds,           \* the wallet to begin with
    None             \* no key, no request

Amounts == 1 .. 2
Body(type, e, amount, claim, target) ==
    [type |-> type, event |-> e, amount |-> amount, claim |-> claim, target |-> target]

\* claim is coins * noofcontracts of the body, amount what the order spends: orderamount
\* of a market order, coins in an event whose price is not editable.
Orders == {Body("order", e, n, c, None) : e \in Events, n \in Amounts, c \in Amounts}

\* makeExit, callSell, cancelOrder and cancelOnHold end in putCall; mergeYesNoTokens does not.
Sells == {Body("sell", e, 1, 0, None) : e \in Events}
Cancels == {Body("cancel", e, 0, 0, r) : e \in Events, r \in Requests}
Merges == {Body("merge", e, 1, 0, None) : e \in Events}
Bodies == Orders \union Sells \union Cancels \union Merges

VARIABLES
    private,    \* is_private
    custom,     \* events the user has in custom_private_event_users
    editable,   \* is_price_editable
    key,        \* per event, the request that set put_call_req_<user>_<event>
    data,       \* per request, its body
    pc,         \* per request, the step it is at
    pending,    \* requests the engine has not dealt with
    wallet,
    shares,     \* per event, the active calls of the user
    open,       \* orders that are open
    orders,     \* per event, how many orders were placed
    canceled,   \* and canceled
    bought,     \* per event, the amount of those placed and not canceled: getTotalBuy
    short,      \* history: requests whose money or shares were gone for the engine
    lost,       \* history: events with a key lost, or ignored by a merge, while in use
    together,   \* history: requests at work at the same time on two events
    unclear     \* history: events with an order whose claim is not its amount

event == <<private, custom, editable>>
market == <<wallet, shares, open, orders, canceled, bought, short>>
history == <<lost, together, unclear>>
vars == <<event, key, data, pc, pending, market, history>>

Is(r, types) == data[r] # None /\ data[r].type \in types
IsOrder(r) == Is(r, {"order"})
EventOf(r) == data[r].event

\* getUserPrivateEventProbeCalls: probecalls and probecallsopen have a row of the user,
\* that of an order stays.
Traded == {e \in Events : orders[e] > 0}
TradeCount(e) == orders[e] - canceled[e]
TotalBuy(e) == bought[e]
MatchedOrders(e) == shares[e]

Begun == {"guarded", "allowed", "checked"}
AtWork == {r \in Requests : pc[r] \in Begun \/ r \in pending}
Working(e) == {r \in AtWork : EventOf(r) = e}

Init ==
    /\ private \in {{}, Events} /\ custom \in SUBSET private
    /\ editable \in {{}, Events}
    /\ key = [e \in Events |-> None]
    /\ data = [r \in Requests |-> None] /\ pc = [r \in Requests |-> "idle"] /\ pending = {}
    /\ wallet = Funds /\ open = {} /\ short = {}
    /\ \E e \in SUBSET Events :
          /\ shares = [f \in Events |-> IF f \in e THEN 1 ELSE 0]
          /\ orders = shares /\ bought = shares
          /\ Cardinality(e \intersect (private \ custom)) <= PrivateLimit
    /\ canceled = [e \in Events |-> 0]
    /\ lost = {} /\ together = {} /\ unclear = {}

Step(r, from, to) == pc[r] = from /\ pc' = [pc EXCEPT ![r] = to]

\* The key is deleted whoever has set it.
DelKey(r) ==
    LET e == EventOf(r) IN
    /\ key' = [key EXCEPT ![e] = None]
    /\ lost' = IF key[e] \in (AtWork \ {r}) \union (pending \intersect {r})
               THEN lost \union {e} ELSE lost

Arrive(r, d) ==
    /\ data' = [data EXCEPT ![r] = d]
    /\ LET others == {q \in AtWork : EventOf(q) # d.event} IN
       together' = IF others = {} THEN together ELSE together \union others \union {r}
    /\ unclear' = IF d.type = "order" /\ d.claim < d.amount THEN unclear \union {d.event} ELSE unclear

-------------------------------------------------------------------------------
(* The request's key *)

\* Mutant: a second request on the event is not refused.
StartAnyway(r) ==
    \E d \in Orders \union Sells \union Cancels :
        /\ Step(r, "idle", "guarded")
        /\ Arrive(r, d)
        /\ key' = [key EXCEPT ![d.event] = r]
        /\ UNCHANGED <<event, pending, market, lost>>

Start(r) ==
    \E d \in Orders \union Sells \union Cancels :
        /\ key[d.event] = None /\ Step(r, "idle", "guarded")
        /\ Arrive(r, d)
        /\ key' = [key EXCEPT ![d.event] = r]
        /\ lost' = IF \E q \in Working(d.event) : Is(q, {"merge"})
                   THEN lost \union {d.event} ELSE lost
        /\ UNCHANGED <<event, pending, market>>

\* REQUEST_IN_PROGRESS: the finally block deletes the other request's key.
InProgress(r) ==
    \E e \in Events :
        /\ key[e] # None /\ Step(r, "idle", "refused")
        /\ key' = [key EXCEPT ![e] = None]
        /\ lost' = IF key[e] \in AtWork THEN lost \union {e} ELSE lost
        /\ UNCHANGED <<event, data, pending, market, together, unclear>>

KeyExpire(e) ==
    /\ key[e] # None /\ key' = [key EXCEPT ![e] = None]
    /\ lost' = IF key[e] \in AtWork THEN lost \union {e} ELSE lost
    /\ UNCHANGED <<event, data, pc, pending, market, together, unclear>>

\* A check fails, or a query throws; finally deletes the key.
Refuse(r) ==
    /\ pc[r] \in Begun \union {"sent"}
    /\ pc' = [pc EXCEPT ![r] = "refused"]
    /\ DelKey(r)
    /\ UNCHANGED <<event, data, pending, market, together, unclear>>

-------------------------------------------------------------------------------
(* The checks *)

\* A private event may be bought once, a custom one up to RetentionLimit times; of the
\* others PrivateLimit may be bought at all.  The limit of the amount is for all events.
MayBuy(r) ==
    LET e == EventOf(r) IN
    /\ e \in private /\ e \notin custom =>
          e \notin Traded /\ Cardinality(Traded \intersect private) < PrivateLimit
    /\ e \in custom /\ e \in Traded => TradeCount(e) < RetentionLimit
    /\ TotalBuy(e) + data[r].claim <= MaxTradeAmount

CheckLimits(r) ==
    /\ Step(r, "guarded", "allowed")
    /\ IsOrder(r) => MayBuy(r)
    /\ UNCHANGED <<event, key, data, pending, market, history>>

\* The wallet is read again.
Affordable(r) == data[r].amount <= wallet

\* An event whose price is editable leaves the shares to the engine.
HasShares(r) == EventOf(r) \in editable \/ data[r].amount <= MatchedOrders(EventOf(r))

HasOpenPosition(r) == data[r].target \in open /\ EventOf(data[r].target) = EventOf(r)

CheckHoldings(r) ==
    /\ Step(r, "allowed", "checked")
    /\ IsOrder(r) => Affordable(r)
    /\ Is(r, {"sell"}) => HasShares(r)
    /\ Is(r, {"cancel"}) => HasOpenPosition(r)
    /\ UNCHANGED <<event, key, data, pending, market, history>>

\* zmqService.send
Send(r) ==
    /\ ~Is(r, {"merge"}) /\ Step(r, "checked", "sent")
    /\ pending' = pending \union {r}
    /\ UNCHANGED <<event, key, data, market, history>>

\* The key is gone: the order is read and answered.  finally comes later.
Answer(r) ==
    /\ Step(r, "sent", "answered") /\ key[EventOf(r)] = None
    /\ UNCHANGED <<event, key, data, pending, market, history>>

Finish(r) ==
    /\ Step(r, "answered", "done")
    /\ DelKey(r)
    /\ UNCHANGED <<event, data, pending, market, together, unclear>>

-------------------------------------------------------------------------------
(* mergeYesNoTokens reads the shares, sets the key without a test, and waits. *)

MergeRead(r) ==
    \E d \in Merges :
        /\ d.amount <= MatchedOrders(d.event) /\ Step(r, "idle", "checked")
        /\ Arrive(r, d)
        /\ lost' = IF Working(d.event) # {} THEN lost \union {d.event} ELSE lost
        /\ UNCHANGED <<event, key, pending, market>>
MergeSend(r) ==
    /\ Is(r, {"merge"}) /\ Step(r, "checked", "merging")
    /\ key' = [key EXCEPT ![EventOf(r)] = r]
    /\ pending' = pending \union {r}
    /\ UNCHANGED <<event, data, market, history>>
MergeDone(r) ==
    /\ r \notin pending /\ Step(r, "merging", "answered")
    /\ UNCHANGED <<event, key, data, pending, market, history>>

\* mergeYesNoTokensNumbers shows what a merge would leave.
MergeNumbers(r) ==
    /\ \E e \in Events : MatchedOrders(e) > 0
    /\ Step(r, "idle", "done")
    /\ UNCHANGED <<event, key, data, pending, market, history>>

-------------------------------------------------------------------------------
(* External: the matching engine.  What is not there any more it does not do.      *)

Done(r) ==
    /\ r \in pending /\ pending' = pending \ {r}
    /\ IF Is(r, {"merge"})
       THEN UNCHANGED <<key, lost>>
       ELSE /\ key' = [key EXCEPT ![EventOf(r)] = None]
            /\ lost' = IF key[EventOf(r)] \in AtWork \ {r}
                       THEN lost \union {EventOf(r)} ELSE lost
    /\ UNCHANGED <<event, data, pc, together, unclear>>

Buy(r) ==
    LET e == EventOf(r) IN
    LET n == data[r].amount IN
    /\ IsOrder(r) /\ Done(r) /\ n <= wallet
    /\ wallet' = wallet - n
    /\ orders' = [orders EXCEPT ![e] = @ + 1] /\ bought' = [bought EXCEPT ![e] = @ + n]
    /\ \/ shares' = [shares EXCEPT ![e] = @ + n] /\ open' = open
       \/ e \in editable /\ open' = open \union {r} /\ shares' = shares
    /\ UNCHANGED <<canceled, short>>

Sell(r) ==          \* or merge
    LET n == data[r].amount IN
    /\ Is(r, {"sell", "merge"}) /\ Done(r) /\ n <= shares[EventOf(r)]
    /\ shares' = [shares EXCEPT ![EventOf(r)] = @ - n]
    /\ wallet' = wallet + n
    /\ UNCHANGED <<open, orders, canceled, bought, short>>

Cancel(r) ==
    LET q == data[r].target IN
    /\ Is(r, {"cancel"}) /\ Done(r) /\ q \in open
    /\ open' = open \ {q}
    /\ wallet' = wallet + data[q].amount
    /\ canceled' = [canceled EXCEPT ![EventOf(q)] = @ + 1]
    /\ bought' = [bought EXCEPT ![EventOf(q)] = @ - data[q].amount]
    /\ UNCHANGED <<shares, orders, short>>

\* No match for a market order, a slipped price; or it is too late.
Drop(r) ==
    /\ Done(r)
    /\ short' = IF \/ IsOrder(r) /\ data[r].amount > wallet
                   \/ /\ Is(r, {"sell", "merge"}) /\ EventOf(r) \notin editable
                      /\ data[r].amount > shares[EventOf(r)]
                THEN short \union {r} ELSE short
    /\ UNCHANGED <<wallet, shares, open, orders, canceled, bought>>

\* An open order meets another user's.
Fill(r) ==
    /\ r \in open /\ open' = open \ {r}
    /\ shares' = [shares EXCEPT ![EventOf(r)] = @ + data[r].amount]
    /\ UNCHANGED <<event, key, data, pc, pending, wallet, orders, canceled, bought, short, history>>

Next ==
    \/ \E r \in Requests :
          \/ Start(r) \/ InProgress(r) \/ Refuse(r) \/ CheckLimits(r) \/ CheckHoldings(r)
          \/ Send(r) \/ Answer(r) \/ Finish(r) \/ MergeNumbers(r) \/ MergeRead(r) \/ MergeSend(r) \/ MergeDone(r)
          \/ Buy(r) \/ Sell(r) \/ Cancel(r) \/ Drop(r) \/ Fill(r)
    \/ \E e \in Events : KeyExpire(e)

Spec == Init /\ [][Next]_vars
-------------------------------------------------------------------------------
TypeOK ==
    /\ custom \subseteq private /\ private \subseteq Events /\ editable \subseteq Events
    /\ key \in [Events -> Requests \union {None}]
    /\ data \in [Requests -> Bodies \union {None}]
    /\ pc \in [Requests -> {"idle", "guarded", "allowed", "checked", "sent", "merging",
                            "answered", "done", "refused"}]
    /\ pending \union open \union short \union together \subseteq Requests
    /\ wallet \in Nat /\ lost \union unclear \subseteq Events
    /\ {shares, orders, canceled, bought} \subseteq [Events -> Nat]

\* The limits hold on every event whose key was not lost while it was in use: the second
\* order on an event is checked after the engine has written the first.
LimitsPerEvent ==
    \A e \in Events \ lost :
        /\ e \in private \ custom => orders[e] <= 1
        /\ e \in custom => orders[e] - canceled[e] <= RetentionLimit
        /\ e \notin unclear => bought[e] <= MaxTradeAmount

\* Nothing keeps orders on different events apart: only those that were not at work
\* together keep to the number of private events.
LimitOfEvents ==
    lost = {} /\ together = {} => Cardinality(Traded \intersect (private \ custom)) <= PrivateLimit

\* What was checked is still there when the engine takes the order, unless another
\* request on another event, or one that the key did not stop, came in between.
StillThere ==
    \A r \in short : r \in together \/ EventOf(r) \in lost

\* putCall's checks bound what the user does, wherever the key does its work.
OrdersHold == LimitsPerEvent /\ LimitOfEvents /\ StillThere
===============================================================================
